----------------------------- MODULE SectorLoad -----------------------------
(***************************************************************************)
(* The fast loaders that serve sectors: DreamLoad, ULoad Model 3, Maniac    *)
(* Mansion/Zak McKracken, Nippon, GEOS and Wheels.  The computer sends a    *)
(* command with a track and a sector; the handler reads or writes the       *)
(* sector in the image and, in some protocols, reports a status.            *)
(*                                                                         *)
(* A sector is its link and three cells of bytes: the first two bytes of    *)
(* data (the load address in a file's first sector) and the two halves of   *)
(* the rest, so that a sector written in part can be told from a whole one. *)
(* The computer may go away at any time; ATN is low then until the handler  *)
(* has ended.  It may do so in the middle of a byte, behind the handler's   *)
(* test of ATN, and with CLOCK or DATA held low for ever.  check_keys       *)
(* returns 0 in this version: no handler is left by a key.                  *)
(***************************************************************************)
EXTENDS Integers, Sequences, SequencesExt

CONSTANTS
    SectorLoaders,   \* the loaders of this instance
    Link,            \* Link[s]: the next sector of a chain, 0 at its end
    NumBuffers,      \* CONFIG_BUFFER_COUNT
    MaxSectorFails,  \* how many accesses to the image fail
    MaxCommands      \* commands the computer sends

Sectors == DOMAIN Link

Cells == 1 .. 3

\* Version v of sector s; versions above 0 are written by the computer.
Content(s, v) == [c \in Cells |-> [of |-> s, version |-> v]]

\* What a routine receives from a bus the computer has left.
Noise == [of |-> 0, version |-> 0]

VARIABLES
    sloader,    \* the handler that runs, or "none"
    steps,      \* what it has yet to do for the command
    disk,       \* the sectors of the image
    sbuf,       \* the data buffer; a failed read leaves it as it was
    cur_error,  \* current_error # 0; no handler resets it
    allocated,  \* buffers in use
    view,       \* the computer: sector it deals with, cells it got, status
    present,    \* the computer is there
    midbyte,    \* it left when the handler had already tested ATN for this byte
    grip,       \* it left and still holds CLOCK and DATA low
    noisy,      \* noise was written to the image by a handler that ignores ATN
    sfails, commands

leaving == <<present, midbyte, grip>>

sectorvars == <<sloader, steps, disk, sbuf, cur_error, allocated, view, leaving, noisy, sfails, commands>>

---------------------------------------------------------------------------
(* Steps. *)

Rd(s) == [op |-> "read",   arg |-> s]
Wr(s) == [op |-> "write",  arg |-> s]
Out(c) == [op |-> "out",    arg |-> c]   \* send a cell
In(c) == [op |-> "in",     arg |-> c]   \* receive a cell
Tell(x) == [op |-> "tell",   arg |-> x]   \* send a fixed answer
Status == [op |-> "status", arg |-> 0]   \* send what current_error says
Test == [op |-> "test",   arg |-> 0]   \* leave on current_error
Alloc == [op |-> "alloc",  arg |-> 0]
Release == [op |-> "free",   arg |-> 0]
Await == [op |-> "await",  arg |-> 0]   \* while (!IEC_CLOCK)
Exit == [op |-> "exit",   arg |-> 0]

OutAll == <<Out(1), Out(2), Out(3)>>
InAll == <<In(1), In(2), In(3)>>

---------------------------------------------------------------------------
(* The handlers: what they do for command c and sector s. *)

\* The sectors of the chain that starts with s.
chain[s \in Sectors] == IF Link[s] = 0 THEN <<s>> ELSE <<s>> \o chain[Link[s]]

\* The status in front of the block is always 0.
load_dreamload(c, s) ==
    CASE c = "read" -> <<Rd(s), Tell("ok")>> \o OutAll
      [] c = "exit" -> <<Release, Exit>>

\* In the first sector of a file to be saved the load address stays.
uload3_transferchain(s, saving) ==
    LET sector(k) ==
            LET t == chain[s][k]
            IN  <<Rd(t), Test>>
                \o (CASE ~saving         -> OutAll
                      [] saving /\ k = 1 -> <<Out(1), In(2), In(3), Wr(t), Test>>
                      [] saving /\ k > 1 -> InAll \o <<Wr(t), Test>>)
    IN  <<Alloc>> \o FlattenSeq([k \in DOMAIN chain[s] |-> sector(k)]) \o <<Tell("ok"), Release>>

load_uload3(c, s) ==
    CASE c = "load" -> uload3_transferchain(s, FALSE)
      [] c = "save" -> uload3_transferchain(s, TRUE)
      [] c = "unknown" -> <<Tell("error")>>

\* Mistake: the error is looked at before the sector is read.
mmzak_early_test(c, s) ==
    CASE c = "read"    -> <<Test, Rd(s)>> \o OutAll \o <<Tell("ok")>>
      [] c = "write"   -> InAll \o <<Wr(s), Test>>
      [] c = "unknown" -> <<Tell("error")>>
      [] c = "exit"    -> <<Exit>>

mmzak(c, s) ==
    CASE c = "read"    -> <<Rd(s), Test>> \o OutAll \o <<Tell("ok")>>
      [] c = "write"   -> InAll \o <<Wr(s), Test>>
      [] c = "unknown" -> <<Tell("error")>>
      [] c = "exit"    -> <<Exit>>

load_nippon(c, s) ==
    CASE c = "read"  -> <<Rd(s)>> \o OutAll
      [] c = "write" -> InAll \o <<Wr(s)>>
      [] c = "exit"  -> <<Release, Exit>>

\* Commands without a sector use the buffer that the last read has filled.
load_geos(c, s) ==
    CASE c = "read"          -> <<Rd(s)>>
      [] c = "transmit_s2"   -> <<Test>> \o OutAll \o <<Tell("ok")>>
      [] c = "transmit_s3"   -> OutAll \o <<Status>>
      [] c = "status"        -> <<Status>>
      [] c = "read_and_send" -> <<Rd(s)>> \o OutAll \o <<Status>>
      [] c = "write_41"      -> InAll \o <<Wr(s)>>
      [] c = "write_71"      -> InAll \o <<Wr(s), Status>>
      [] c = "initialize"    -> <<>>
      [] c = "quit"          -> <<Await, Exit>>
      [] c = "unknown"       -> <<Exit>>

\* A chain of sectors without any check; only the other buffer is freed.
load_geos_s1(c, s) ==
    FlattenSeq([k \in DOMAIN chain[s] |-> <<Rd(chain[s][k])>> \o OutAll]) \o <<Release, Exit>>

load_wheels_s2(c, s) ==
    CASE c = "read"   -> <<Rd(s)>> \o OutAll \o <<Status>>
      [] c = "link"   -> <<Rd(s), Status>>
      [] c = "write"  -> InAll \o <<Wr(s), Status>>
      [] c = "status" -> <<Status>>
      [] c = "quit"   -> <<Exit>>

Handler(l, c, s) ==
    CASE l = "dreamload" -> load_dreamload(c, s)
      [] l = "uload3"    -> load_uload3(c, s)
      [] l = "mmzak"     -> mmzak(c, s)
      [] l = "nippon"    -> load_nippon(c, s)
      [] l = "geos"      -> load_geos(c, s)
      [] l = "geos_s1"   -> load_geos_s1(c, s)
      [] l = "wheels_s2" -> load_wheels_s2(c, s)

Commands(l) ==
    CASE l = "dreamload" -> {"read", "exit"}
      [] l = "uload3"    -> {"load", "save", "unknown"}
      [] l = "mmzak"     -> {"read", "write", "unknown", "exit"}
      [] l = "nippon"    -> {"read", "write", "exit"}
      [] l = "geos"      -> {"read", "transmit_s2", "transmit_s3", "status", "read_and_send",
                             "write_41", "write_71", "initialize", "quit", "unknown"}
      [] l = "geos_s1"   -> {"send_chains"}
      [] l = "wheels_s2" -> {"read", "link", "write", "status", "quit"}

\* Commands that go on with the sector of the one before.
SameSector == {"transmit_s2", "transmit_s3", "status", "initialize"}

\* Buffers a handler takes when it starts.
OwnBuffers(l) == CASE l = "uload3" -> 0 [] l \in {"geos", "geos_s1"} -> 2 [] OTHER -> 1

NoView == [sector |-> 0, got |-> <<>>, status |-> "none", failed |-> FALSE]

---------------------------------------------------------------------------
(* Actions. *)

SectorInit ==
    /\ sloader = "none"
    /\ steps = <<>>
    /\ disk = [s \in Sectors |-> Content(s, 0)]
    /\ sbuf = [c \in Cells |-> Noise]
    /\ cur_error = FALSE
    /\ allocated = 0
    /\ view = NoView
    /\ present = TRUE /\ midbyte = FALSE /\ grip = FALSE
    /\ noisy = FALSE
    /\ sfails = 0 /\ commands = 0

\* run_loader calls the handler; parse_doscommand has cleared the error.
StartServer(l) ==
    /\ sloader = "none" /\ allocated = 0 /\ present
    /\ OwnBuffers(l) <= NumBuffers
    /\ sloader' = l
    /\ allocated' = OwnBuffers(l)
    /\ cur_error' = FALSE
    /\ view' = NoView
    /\ UNCHANGED <<steps, disk, sbuf, leaving, noisy, sfails, commands>>

Obey(c, s) ==
    /\ sloader # "none" /\ steps = <<>>
    /\ commands < MaxCommands
    /\ commands' = commands + 1
    /\ steps' = Handler(sloader, c, s)

\* The computer sends a command.
Command(c, s) ==
    /\ present
    /\ c \in SameSector => view.sector # 0
    /\ Obey(c, s)
    /\ view' = IF c \in SameSector THEN [view EXCEPT !.got = <<>>, !.status = "none"]
               ELSE [NoView EXCEPT !.sector = s]
    /\ UNCHANGED <<sloader, disk, sbuf, cur_error, allocated, leaving, noisy, sfails>>

\* load_wheels_s2 and load_mmzak do not leave when ATN is low, and load_nippon
\* waits for just that: they take what comes along the bus for a command.  The
\* others do if the computer goes away inside the last byte of a command.
NoiseCommand(c, s) ==
    /\ ~present
    /\ \/ sloader \in {"wheels_s2", "mmzak", "nippon"}
       \/ sloader \in {"uload3", "geos"} /\ midbyte /\ ~grip
    /\ Obey(c, s)
    /\ midbyte' = FALSE
    /\ UNCHANGED <<sloader, disk, sbuf, cur_error, allocated, view, present, grip, noisy, sfails>>

\* Mistake: the negative result is taken for an unknown command.
LeaveOnAtn_goes_on ==
    /\ ~present /\ sloader \in {"uload3", "geos"} /\ steps = <<>>
    /\ midbyte => sloader = "uload3" /\ ~grip
    /\ steps' = IF sloader = "uload3" THEN <<Tell("error")>> ELSE <<Await, Exit>>
    /\ UNCHANGED <<sloader, disk, sbuf, cur_error, allocated, view, leaving, noisy, sfails, commands>>

\* uload3_get_byte and geos_receive_lenblock see ATN, in ULoad Model 3 at the
\* latest with the command's next byte: the handler returns, in load_geos as for
\* the command QUIT.
LeaveOnAtn ==
    /\ ~present /\ sloader \in {"uload3", "geos"} /\ steps = <<>>
    /\ midbyte => sloader = "uload3" /\ ~grip
    /\ steps' = IF sloader = "uload3" THEN <<Exit>> ELSE <<Await, Exit>>
    /\ UNCHANGED <<sloader, disk, sbuf, cur_error, allocated, view, leaving, noisy, sfails, commands>>

Next_(op) == steps # <<>> /\ Head(steps).op = op
Arg == Head(steps).arg
Done == steps' = Tail(steps)

\* The handlers that look at ATN while they receive a sector.
HearAtn == {"uload3", "nippon"}

\* read_sector and write_sector; a failure sets current_error.
ReadSector ==
    /\ Next_("read")
    /\ \/ /\ sbuf' = disk[Arg]
          /\ view' = [view EXCEPT !.failed = FALSE]
          /\ UNCHANGED <<cur_error, sfails>>
       \/ /\ sfails < MaxSectorFails
          /\ sfails' = sfails + 1
          /\ cur_error' = TRUE
          /\ view' = [view EXCEPT !.failed = TRUE]
          /\ UNCHANGED sbuf
    /\ Done
    /\ UNCHANGED <<sloader, disk, allocated, leaving, noisy, commands>>

WriteSector ==
    /\ Next_("write")
    /\ \/ /\ disk' = [disk EXCEPT ![Arg] = sbuf]
          /\ noisy' = (noisy \/ (sloader \notin HearAtn /\ \E c \in Cells : sbuf[c] = Noise))
          /\ view' = [view EXCEPT !.failed = FALSE]
          /\ UNCHANGED <<cur_error, sfails>>
       \/ /\ sfails < MaxSectorFails
          /\ sfails' = sfails + 1
          /\ cur_error' = TRUE
          /\ view' = [view EXCEPT !.failed = TRUE]
          /\ UNCHANGED <<disk, noisy>>
    /\ Done
    /\ UNCHANGED <<sloader, sbuf, allocated, leaving, commands>>

SendCell ==
    /\ Next_("out")
    /\ view' = IF present THEN [view EXCEPT !.got = Append(@, sbuf[Arg])] ELSE view
    \* nippon_send_byte sees ATN: back to the idle loop.
    /\ steps' = IF ~present /\ sloader = "nippon" THEN <<>> ELSE Tail(steps)
    /\ UNCHANGED <<sloader, disk, sbuf, cur_error, allocated, leaving, noisy, sfails, commands>>

Receive(v) == sbuf' = [sbuf EXCEPT ![Arg] = v]

\* The computer writes version commands of the sector.
ReceiveCell ==
    /\ Next_("in") /\ present
    /\ LET w == steps[CHOOSE i \in DOMAIN steps : steps[i].op = "write"
                          /\ \A j \in 1 .. i - 1 : steps[j].op # "write"].arg
       IN  Receive([of |-> w, version |-> commands])
    /\ Done
    /\ UNCHANGED <<sloader, disk, cur_error, allocated, view, leaving, noisy, sfails, commands>>

\* The computer is gone: load_uload3 returns, load_nippon leaves its loop.  But
\* uload3_get_byte tests ATN only before its second wait and nippon_read_byte
\* before each bit: who leaves behind the test of the sector's last byte makes
\* it a foreign one, and the sector is complete.
NothingComes ==
    /\ sloader \in HearAtn /\ ~(midbyte /\ grip)
    /\ \/ /\ steps' = IF sloader = "uload3" THEN <<Exit>> ELSE <<Release, Exit>>
          /\ UNCHANGED sbuf
       \/ /\ midbyte /\ Arg = 3
          /\ Receive(Noise)
          /\ Done

\* The others go on with noise (geos_receive_lenblock clears the link and leaves
\* the rest of the buffer as it was).
ReceiveNothing ==
    /\ Next_("in") /\ ~present
    /\ NothingComes \/ (sloader \notin HearAtn /\ Receive(Noise) /\ Done)
    /\ midbyte' = FALSE
    /\ UNCHANGED <<sloader, disk, cur_error, allocated, view, present, grip, noisy, sfails, commands>>

\* The answer of a status step: 1, or 2 or 8 if there is an error.
Answer == IF Next_("tell") THEN Arg ELSE IF cur_error THEN "error" ELSE "ok"

SendStatus ==
    /\ Next_("tell") \/ Next_("status")
    /\ view' = IF present THEN [view EXCEPT !.status = Answer] ELSE view
    /\ Done
    /\ UNCHANGED <<sloader, disk, sbuf, cur_error, allocated, leaving, noisy, sfails, commands>>

\* if (current_error != 0): the error is sent and the command ends.
\* uload3_transferchain does not free its buffer then.
TestError ==
    /\ Next_("test")
    /\ steps' = IF cur_error THEN <<Tell("error")>> ELSE Tail(steps)
    /\ UNCHANGED <<sloader, disk, sbuf, cur_error, allocated, view, leaving, noisy, sfails, commands>>

AllocBuffer ==
    /\ Next_("alloc")
    /\ \/ /\ allocated < NumBuffers
          /\ allocated' = allocated + 1
          /\ Done
          /\ UNCHANGED cur_error
       \/ /\ allocated = NumBuffers
          /\ cur_error' = TRUE
          /\ steps' = <<Tell("error")>>
          /\ UNCHANGED allocated
    /\ UNCHANGED <<sloader, disk, sbuf, view, leaving, noisy, sfails, commands>>

FreeSectorBuffer ==
    /\ Next_("free")
    /\ allocated' = allocated - 1
    /\ Done
    /\ UNCHANGED <<sloader, disk, sbuf, cur_error, view, leaving, noisy, sfails, commands>>

\* load_geos waits for CLOCK high before it releases DATA.
AwaitClock ==
    /\ Next_("await") /\ ~grip
    /\ Done
    /\ UNCHANGED <<sloader, disk, sbuf, cur_error, allocated, view, leaving, noisy, sfails, commands>>

ReturnServer ==
    /\ Next_("exit")
    /\ sloader' = "none"
    /\ Done
    /\ UNCHANGED <<disk, sbuf, cur_error, allocated, view, leaving, noisy, sfails, commands>>

\* BUS_CLEANUP: free_multiple_buffers(FMB_UNSTICKY).
BusCleanup ==
    /\ sloader = "none" /\ allocated > 0
    /\ allocated' = 0
    /\ UNCHANGED <<sloader, steps, disk, sbuf, cur_error, view, leaving, noisy, sfails, commands>>

\* The computer is switched off, reset, or begins another command.
HostLeaves(mid, hold) ==
    /\ sloader # "none" /\ present
    /\ mid => sloader \in HearAtn \cup {"geos"} /\ (steps = <<>> \/ Next_("in"))
    /\ hold => sloader \in {"uload3", "geos"}
    /\ present' = FALSE /\ midbyte' = mid /\ grip' = hold
    /\ view' = NoView
    /\ UNCHANGED <<sloader, steps, disk, sbuf, cur_error, allocated, noisy, sfails, commands>>

HostReturns ==
    /\ sloader = "none" /\ ~present
    /\ present' = TRUE /\ midbyte' = FALSE /\ grip' = FALSE
    /\ UNCHANGED <<sloader, steps, disk, sbuf, cur_error, allocated, view, noisy, sfails, commands>>

ServerStep == ReadSector \/ WriteSector \/ SendCell \/ ReceiveCell \/ ReceiveNothing \/ SendStatus
              \/ TestError \/ AllocBuffer \/ FreeSectorBuffer \/ AwaitClock \/ ReturnServer \/ LeaveOnAtn

SectorNext ==
    \/ \E l \in SectorLoaders : StartServer(l)
    \/ \E s \in Sectors, c \in IF sloader = "none" THEN {} ELSE Commands(sloader) :
          Command(c, s) \/ NoiseCommand(c, s)
    \/ ServerStep
    \/ \E mid, hold \in BOOLEAN : HostLeaves(mid, hold)
    \/ BusCleanup \/ HostReturns

\* A routine that transfers a byte waits for the computer; only those of ULoad
\* Model 3 return when ATN is low, and uload3_get_byte not from its second wait
\* while DATA is low.
OnBus == Next_("out") \/ Next_("in") \/ Next_("tell") \/ Next_("status")

SectorFairness == WF_sectorvars(ServerStep /\ (present \/ sloader = "uload3" \/ ~OnBus))

---------------------------------------------------------------------------
(* Properties. *)

\* The loaders whose status the computer can rely on.
Reports == {"uload3", "mmzak", "geos", "wheels_s2"}

\* All the data the computer has got for the command, sector by sector.
Expected(s) == FlattenSeq([k \in DOMAIN chain[s] |-> disk[chain[s][k]]])

\* If the handler says that a read went well, the computer has exactly what
\* the image holds there: never what an earlier read left in the buffer.
NoSilentError ==
    (sloader \in Reports /\ view.status = "ok" /\ Len(view.got) >= 3 /\ ~noisy)
    => view.got = IF sloader = "uload3" THEN Expected(view.sector) ELSE disk[view.sector]

\* A sector is written whole or not at all by the handlers that look at ATN
\* while they receive it, whenever the computer goes away; only its very last
\* byte can be a foreign one.
WholeSectors ==
    ~noisy => \A s \in Sectors : disk[s][2] = disk[s][3] \/ (disk[s][3] = Noise /\ disk[s][2] # Noise)

\* Buffers stay allocated in a loop only after an error (ULoad Model 3).
BuffersBounded == (sloader # "none" /\ ~cur_error) =>
                      allocated <= (IF sloader = "uload3" THEN 1 ELSE OwnBuffers(sloader))

\* The handler comes to a test of ATN, and the lines let it return.
SeesAtn ==
    \/ sloader = "uload3" /\ ~(midbyte /\ grip)
    \/ sloader = "geos" /\ steps = <<>> /\ ~midbyte /\ ~grip

\* When the computer has left, load_uload3 gives the drive back whatever it was
\* doing, but for a byte half received while the computer holds DATA low;
\* load_geos if it was waiting for a command and CLOCK is free.
ServerLeaves == (~present /\ SeesAtn) ~> (sloader = "none")

\* A sector reported as read is the sector on the disk, a sector on the disk
\* is never half of another one (its last byte aside, see WholeSectors), and
\* commands do not eat up the buffers.
SectorsRight == NoSilentError /\ WholeSectors /\ BuffersBounded
=============================================================================
