------------------------------ MODULE FileLoad ------------------------------
(***************************************************************************)
(* A fast loader sends a file: the drive runs the script of its handler     *)
(* (FileScripts), the computer decodes the bytes.  The computer may pull    *)
(* ATN at any time, which ends its part; refill may fail.                   *)
(*                                                                         *)
(* The file lies in a disk image: refill is d64_read.  The programs in the  *)
(* computer are not part of the repository: host_* are the simplest readers *)
(* the handlers' formats allow.                                             *)
(***************************************************************************)
EXTENDS FileScripts, FiniteSets

CONSTANTS
    FileLoaders,    \* the loaders of this instance
    Files,          \* contents, as sequences of bytes
    MaxFails,       \* how often refill fails
    MaxRequests     \* files the computer asks a looping loader for

VARIABLES
    loader,     \* the handler that runs, or "none"
    script,     \* the steps it has yet to take
    stage,      \* "frame" in a sector, "tail" on a way out, "command" between files
    file,       \* the file that was asked for
    sector,     \* number of the sector in the buffer
    buf,        \* the buffer's data, position, lastused and sendeoi
    held,       \* who opened the buffer of channel 0: "no", "host" or "loader"
    out,        \* the levels the drive gives to CLOCK and DATA
    host,       \* the computer's side
    atn,        \* level of ATN
    fails, requests

loadvars == <<loader, script, stage, file, sector, buf, held, out, host, atn, fails, requests>>

None == "none"
NoFile == <<>>

---------------------------------------------------------------------------
(* The computer. *)

Listening(l) == [of |-> l, got |-> <<>>, want |-> "head", left |-> 0, last |-> FALSE, n |-> 0, end |-> "open"]

\* A data byte; the block ends with the next want.
Taken(h, v, next) ==
    [h EXCEPT !.got = Append(@, v), !.left = @ - 1, !.want = IF h.left = 1 THEN next ELSE @]

host_turbodisk(h, v) ==
    CASE h.want = "head" /\ v = HexFF -> [h EXCEPT !.end = "error"]
      [] h.want = "head" /\ v # HexFF ->
            [h EXCEPT !.last = v = 0, !.n = @ + 1,
                      !.want = IF h.n = 0 THEN "address" ELSE IF v = 0 THEN "count" ELSE "data",
                      !.left = IF h.n = 0 THEN 2 ELSE W - 2]
      [] h.want = "address" ->
            LET t == Taken(h, v, IF h.last THEN "count" ELSE "data")
            IN  IF t.want = "data" THEN [t EXCEPT !.left = W - 4] ELSE t
      [] h.want = "count" -> [h EXCEPT !.want = "data", !.left = v - 1]
      [] h.want = "data" ->
            LET t == Taken(h, v, IF h.n = 1 THEN "skip" ELSE "head")
            IN  IF h.left > 1 THEN t
                ELSE IF h.last THEN [t EXCEPT !.end = "ok"] ELSE [t EXCEPT !.left = 2]
      [] h.want = "skip" ->
            [h EXCEPT !.left = @ - 1, !.want = IF h.left = 1 THEN "head" ELSE @]

\* n counts the bytes of a sector's blocks.
host_fc3(h, v) ==
    LET g == [h EXCEPT !.n = (@ + 1) % (W + 4)]
    IN  CASE h.n = 2 -> [g EXCEPT !.left = IF v = 0 THEN W - 2 ELSE v - 1]
          [] h.n >= 3 /\ h.left > 0 -> Taken(g, v, "head")
          [] OTHER -> g

host_counted(h, v) ==
    IF h.want = "data" THEN Taken(h, v, "head")
    ELSE IF v = 0 \/ v = HexFF THEN [h EXCEPT !.end = IF v = 0 THEN "ok" ELSE "error"]
    ELSE [h EXCEPT !.want = "data", !.left = v]

host_gijoe(h, v) ==
    IF h.want = "code"
    THEN CASE v = HexAC -> [h EXCEPT !.got = Append(@, v), !.want = "head"]
           [] v = HexFF -> [h EXCEPT !.end = "ok"]
           [] v = HexF7 -> [h EXCEPT !.end = "error"]
           [] OTHER     -> [h EXCEPT !.want = "head"]
    ELSE IF v = HexAC THEN [h EXCEPT !.want = "code"] ELSE [h EXCEPT !.got = Append(@, v)]

\* The computer knows how much it wants; one byte more shows that it goes on.
host_n0sdos(h, v) ==
    IF h.want = "data"
    THEN IF Len(h.got) > Len(file) THEN h ELSE [h EXCEPT !.got = Append(@, v)]
    ELSE IF v = 0 THEN [h EXCEPT !.want = "data"] ELSE [h EXCEPT !.end = "error"]

host_samsjourney(h, v) ==
    CASE h.want = "head"   -> [h EXCEPT !.want = "marker", !.left = (v - 2) % W]
      [] h.want = "marker" -> IF v = HexFF THEN [h EXCEPT !.end = "error"]
                              ELSE [h EXCEPT !.want = "data", !.last = v = 1]
      [] h.want = "data"   -> LET t == Taken(h, v, "head")
                              IN  IF t.want = "head" /\ h.last THEN [t EXCEPT !.end = "ok"] ELSE t

\* The bytes of a sector come last byte first, the link at the end.
host_wheels(h, v) ==
    LET s == Append(h.got, v)
        k == h.n + 1                    \* bytes of this sector, v included
        d == Reverse(SubSeq(s, Len(s) - W + 1, Len(s)))
        r == SubSeq(s, 1, Len(s) - W)
    IN  IF k < W THEN [h EXCEPT !.got = s, !.n = k]
        ELSE IF d[1] = 0 THEN [h EXCEPT !.got = r \o SubSeq(d, 3, d[2] + 1), !.n = 0, !.end = "ok"]
        ELSE [h EXCEPT !.got = r \o SubSeq(d, 3, W), !.n = 0]

HostTakes(h, v) ==
    IF h.end # "open" THEN h
    ELSE CASE loader = "turbodisk" -> host_turbodisk(h, v)
           [] loader = "fc3" -> host_fc3(h, v)
           [] loader \in {"ar6", "eload1", "epyxcart"} -> host_counted(h, v)
           [] loader = "gijoe" -> host_gijoe(h, v)
           [] loader = "n0sdos" -> host_n0sdos(h, v)
           [] loader = "samsjourney" -> host_samsjourney(h, v)
           [] loader = "wheels_s1" -> host_wheels(h, v)
           [] OTHER -> [h EXCEPT !.got = Append(@, v)]

\* These computers learn the end of the file from the lines.
HostSees(h) ==
    IF h.end # "open" THEN h
    ELSE CASE loader = "fc3" /\ ~out.data ->
                  [h EXCEPT !.end = IF out.clock THEN "ok" ELSE "error"]
           [] loader = "epyxcart" /\ out.data /\ out.clock -> [h EXCEPT !.end = "ok"]
           [] loader = "dolphin" /\ out.clock -> [h EXCEPT !.end = "ok"]
           [] OTHER -> h

---------------------------------------------------------------------------
(* The drive. *)

Script(l, b, n) ==
    CASE l = "turbodisk"   -> load_turbodisk(b, n)
      [] l = "fc3"         -> load_fc3(b, n)
      [] l = "oldfreeze"   -> load_fc3oldfreeze(b, n)
      [] l = "ar6"         -> load_ar6_1581(b, n)
      [] l = "eload1"      -> load_eload1(b, n)
      [] l = "epyxcart"    -> load_epyxcart(b, n)
      [] l = "gijoe"       -> load_gijoe(b, n)
      [] l = "n0sdos"      -> load_n0sdos_fileread(b, n)
      [] l = "samsjourney" -> read_file_by_name(b, n)
      [] l = "wheels_s1"   -> load_wheels_s1(b, n)
      [] l = "dolphin"     -> load_dolphin(b, n)

\* The handlers that call file_open themselves; the others use the file the
\* computer has opened on channel 0.
OpensFile == {"turbodisk", "epyxcart", "gijoe", "n0sdos", "samsjourney", "wheels_s1"}

\* The routines that send a byte return when ATN is low; the others wait for
\* the computer's next edge.
HearsAtn == {"fc3", "oldfreeze", "eload1", "epyxcart"}

\* The levels a send routine leaves behind, where it sets them.
LinesAfter(l) ==
    CASE l \in {"fc3", "eload1"}                -> [clock |-> TRUE,  data |-> TRUE]
      [] l \in {"turbodisk", "ar6"}             -> [clock |-> FALSE, data |-> TRUE]
      [] l \in {"oldfreeze", "n0sdos", "wheels_s1"} -> [clock |-> TRUE, data |-> FALSE]
      [] l = "samsjourney"                      -> [clock |-> FALSE, data |-> FALSE]
      [] OTHER                                  -> out

EmptyBuffer == [data |-> [i \in Byte |-> 0], position |-> 2, lastused |-> 2, sendeoi |-> TRUE]

\* d64_read: sector n of f, its first two bytes the link.
d64_read(f, n) ==
    LET from == n * (W - 2)
        size == IF Len(f) - from > W - 2 THEN W - 2 ELSE Len(f) - from
        last == from + size = Len(f)
    IN  [data |-> [i \in Byte |-> CASE i = 0 -> IF last THEN 0 ELSE 1
                                    [] i = 1 -> IF last THEN size + 1 ELSE 0
                                    [] i > 1 /\ i - 1 <= size -> f[from + i - 1]
                                    [] OTHER -> 0],
         position |-> 2, lastused |-> size + 1, sendeoi |-> last]

\* The handler looks for the buffer of channel 0, after file_open where it
\* opens the file itself (which closes the one that is open there).
Open(l, f) ==
    LET b == IF f = NoFile THEN EmptyBuffer ELSE d64_read(f, 0)
        s == Script(l, b, 0)
    IN  /\ loader' = l
        /\ file' = f
        /\ sector' = 0
        /\ buf' = b
        /\ held' = IF f = NoFile THEN "no" ELSE IF l \in OpensFile THEN "loader" ELSE "host"
        /\ host' = Listening(l)
        /\ script' = IF f = NoFile THEN s.missing ELSE s.start \o s.frame
        /\ stage' = IF f = NoFile THEN "tail" ELSE "frame"

LoadInit ==
    /\ loader = None
    /\ script = <<>>
    /\ stage = "command"
    /\ file = NoFile
    /\ sector = 0
    /\ buf = EmptyBuffer
    /\ held = "no"
    /\ out = [clock |-> TRUE, data |-> TRUE]
    /\ host = Listening(None)
    /\ atn = TRUE
    /\ fails = 0
    /\ requests = 0

\* run_loader calls the handler.
Run(l, f) ==
    /\ loader = None
    /\ Open(l, f)
    /\ atn' = TRUE
    /\ fails' = 0
    /\ requests' = 1
    /\ UNCHANGED out

NextRequest ==
    /\ loader # None /\ stage = "command"
    /\ atn /\ host.end # "gone"
    /\ requests < MaxRequests
    /\ requests' = requests + 1
    /\ UNCHANGED <<out, atn, fails>>

\* The computer asks for another file: a name arrives.
Request(f) ==
    /\ NextRequest /\ loader # "eload1"
    /\ Open(loader, f)

\* load_eload1 opens nothing: command 1 again is about the buffer that is there,
\* with the file's last sector, or about none if refill has freed it.
RequestAgain ==
    /\ NextRequest /\ loader = "eload1"
    /\ file' = IF held = "no" THEN NoFile ELSE file
    /\ host' = Listening(loader)
    /\ script' = IF held = "no" THEN Script(loader, buf, sector).missing
                 ELSE Script(loader, buf, sector).frame
    /\ stage' = IF held = "no" THEN "tail" ELSE "frame"
    /\ UNCHANGED <<loader, sector, buf, held>>

\* Any other command of ELoad.
UnknownCommand ==
    /\ NextRequest /\ loader = "eload1"
    /\ host' = Listening(loader)
    /\ script' = <<Send(HexFF), Again>>
    /\ stage' = "tail"
    /\ UNCHANGED <<loader, file, sector, buf, held>>

\* Waiting for a request ends when ATN falls, except in load_gijoe.
RequestAborted ==
    /\ loader \in FileLoaders \ {"gijoe"} /\ stage = "command"
    /\ ~atn
    /\ script' = IF loader = "samsjourney" THEN <<Data(TRUE), Clock(TRUE), Quit>> ELSE <<Quit>>
    /\ stage' = "tail"
    /\ UNCHANGED <<loader, file, sector, buf, held, out, host, atn, fails, requests>>

Doing(op) == script # <<>> /\ Head(script).op = op

\* gijoe_send_byte waits for CLOCK high and does not release it itself.
SendReady == loader = "gijoe" => out.clock

\* A byte reaches the computer.
SendByte ==
    /\ Doing("send")
    /\ atn /\ host.end # "gone"
    /\ SendReady
    /\ host' = HostTakes(host, Head(script).arg)
    /\ out' = LinesAfter(loader)
    /\ script' = Tail(script)
    /\ UNCHANGED <<loader, stage, file, sector, buf, held, atn, fails, requests>>

\* The computer is gone, but the routine returns: it has seen ATN, it sends by
\* the clock, or it took an edge of something else for the computer's answer.
SendLost ==
    /\ Doing("send")
    /\ ~atn \/ host.end = "gone"
    /\ SendReady
    /\ out' = LinesAfter(loader)
    /\ script' = Tail(script)
    /\ UNCHANGED <<loader, stage, file, sector, buf, held, host, atn, fails, requests>>

DriveLine ==
    /\ Doing("clock") \/ Doing("data")
    /\ out' = [out EXCEPT ![Head(script).op] = Head(script).arg]
    /\ script' = Tail(script)
    /\ UNCHANGED <<loader, stage, file, sector, buf, held, host, atn, fails, requests>>

Aborts == /\ script' = Script(loader, buf, sector).abort
          /\ stage' = "tail"

FromCheck == LET k == CHOOSE i \in DOMAIN script :
                        script[i].op = "check" /\ \A j \in 1 .. i - 1 : script[j].op # "check"
             IN  SubSeq(script, k, Len(script))

TestAtn ==
    /\ Doing("check") \/ Doing("skip") \/ Doing("leave") \/ Doing("stop")
    /\ \/ /\ ~atn /\ Doing("skip")
          /\ script' = FromCheck
          /\ UNCHANGED stage
       \/ /\ ~atn /\ (Doing("check") \/ Doing("leave"))
          /\ Aborts
       \/ /\ atn \/ Doing("stop")
          /\ script' = Tail(script)
          /\ UNCHANGED stage
    /\ UNCHANGED <<loader, file, sector, buf, held, out, host, atn, fails, requests>>

\* The computer has what it wants and releases CLOCK (N0SDOS) or DATA (Dolphin).
HostReleases ==
    /\ (Doing("leave") /\ atn) \/ Doing("stop")
    /\ Aborts
    /\ UNCHANGED <<loader, file, sector, buf, held, out, host, atn, fails, requests>>

\* cleanup_and_free_buffer: nothing happens if refill has freed it already.
FreeBuffer ==
    /\ Doing("free")
    /\ held' = "no"
    /\ script' = Tail(script)
    /\ UNCHANGED <<loader, stage, file, sector, buf, out, host, atn, fails, requests>>

\* The last sector is sent.
LastSector ==
    /\ loader # None /\ script = <<>> /\ stage = "frame" /\ buf.sendeoi
    /\ script' = Script(loader, buf, sector).eof
    /\ stage' = "tail"
    /\ UNCHANGED <<loader, file, sector, buf, held, out, host, atn, fails, requests>>

\* buf->refill(buf).
Refill ==
    /\ loader # None /\ script = <<>> /\ stage = "frame" /\ ~buf.sendeoi
    /\ sector' = sector + 1
    /\ buf' = d64_read(file, sector + 1)
    /\ script' = Script(loader, buf', sector + 1).frame
    /\ UNCHANGED <<loader, stage, file, held, out, host, atn, fails, requests>>

\* d64_read fails: it frees the buffer and leaves its fields alone.
RefillFails ==
    /\ loader # None /\ script = <<>> /\ stage = "frame" /\ ~buf.sendeoi
    /\ fails < MaxFails
    /\ fails' = fails + 1
    /\ held' = "no"
    /\ script' = Script(loader, buf, sector).error
    /\ stage' = "tail"
    /\ UNCHANGED <<loader, file, sector, buf, out, host, atn, requests>>

\* The N0SDOS handler sends on from the buffer it has.
GoesOn ==
    /\ Doing("onwards")
    /\ script' = Script(loader, buf, sector + 1).frame
    /\ stage' = "frame"
    /\ UNCHANGED <<loader, file, sector, buf, held, out, host, atn, fails, requests>>

\* The handler waits for the next request.
Wait ==
    /\ Doing("again")
    /\ script' = <<>>
    /\ stage' = "command"
    /\ host' = HostSees(host)
    /\ UNCHANGED <<loader, file, sector, buf, held, out, atn, fails, requests>>

\* The handler returns to run_loader.
Return ==
    /\ Doing("quit")
    /\ loader' = None
    /\ script' = <<>>
    /\ stage' = "command"
    /\ host' = HostSees(host)
    /\ UNCHANGED <<file, sector, buf, held, out, atn, fails, requests>>

\* The computer pulls ATN: its program has ended.  Sam's Journey uses ATN as
\* the clock of its bytes.
PullAtn ==
    /\ loader # None /\ atn
    /\ loader = "samsjourney" => stage = "command"
    /\ atn' = FALSE
    /\ host' = IF host.end = "open" THEN [host EXCEPT !.end = "gone"] ELSE host
    /\ UNCHANGED <<loader, script, stage, file, sector, buf, held, out, fails, requests>>

ReleaseAtn ==
    /\ loader # None /\ ~atn
    /\ atn' = TRUE
    /\ UNCHANGED <<loader, script, stage, file, sector, buf, held, out, host, fails, requests>>

\* What the drive does by itself.
DriveStep == DriveLine \/ TestAtn \/ FreeBuffer \/ LastSector \/ Refill \/ RefillFails
             \/ Wait \/ Return \/ RequestAborted

LoadNext ==
    \/ \E l \in FileLoaders, f \in Files \cup {NoFile} : Run(l, f)
    \/ \E f \in Files \cup {NoFile} : Request(f)
    \/ RequestAgain \/ UnknownCommand
    \/ SendByte \/ SendLost \/ GoesOn \/ HostReleases
    \/ DriveStep
    \/ PullAtn \/ ReleaseAtn

\* The drive goes on where it waits for nobody; an attentive computer takes
\* every byte; a routine that hears ATN returns.
LoadFairness ==
    /\ WF_loadvars(DriveStep)
    /\ WF_loadvars(SendByte)
    /\ WF_loadvars(SendLost /\ loader \in HearsAtn)

LoadSpec == LoadInit /\ [][LoadNext]_loadvars /\ LoadFairness

---------------------------------------------------------------------------
(* Properties. *)

\* The types of the variables; what a handler sends are bytes.
LoadTypeOK ==
    /\ loader \in FileLoaders \cup {None}
    /\ stage \in {"frame", "tail", "command"}
    /\ held \in {"no", "host", "loader"}
    /\ out \in [clock : BOOLEAN, data : BOOLEAN]
    /\ host.end \in {"open", "ok", "error", "gone"}
    /\ \A i \in DOMAIN host.got : host.got[i] \in Byte
    /\ \A i \in DOMAIN script : script[i].op = "send" => script[i].arg \in Byte

\* The protocols in which the drive can say that it failed.
Reporting == {"turbodisk", "fc3", "eload1", "gijoe", "samsjourney", "dolphin"}

\* What the computer asked for: the file; without another OPEN an ELoad request
\* that is repeated gets the last sector only.
Asked == IF host.of = "eload1" /\ requests > 1
         THEN SubSeq(file, sector * (W - 2) + 1, Len(file)) ELSE file

\* A computer that believes to have the whole file has exactly the file, byte
\* by byte, if no refill failed, and even then if the protocol can report it.
FileArrives ==
    host.end = "ok" /\ (fails = 0 \/ host.of \in Reporting) => host.got = Asked

\* At no time has the computer taken anything but the file's next bytes: no
\* byte twice, none left out, none of those read behind the buffer.  (N0SDOS
\* computers know how much to take, and N0SDOS does not look at the result of
\* refill; Wheels keeps an unfinished sector as is.)
InOrder ==
    (file # NoFile /\ host.end \in {"open", "ok", "gone"} /\ host.of # "wheels_s1")
    => \/ IsPrefix(host.got, Asked)
       \/ host.of = "n0sdos" /\ (IsPrefix(file, host.got) \/ fails > 0)

\* A handler that has opened a file gives its buffer back before it returns.
OwnBufferFreed == loader = None => held # "loader"

\* A handler that hears ATN ends when the computer keeps it low.
AtnEndsLoader == (loader \in HearsAtn /\ ~atn) ~> (loader = None \/ atn)

\* load_gijoe has pulled CLOCK low before refill, and gijoe_send_byte waits for
\* CLOCK high with the first byte of the error marker: nobody releases it.
GijoeStuck == loader = "gijoe" /\ Doing("send") /\ ~SendReady

\* While the computer stays with it, a handler sends the whole file and its end
\* and comes to rest.  (The N0SDOS computer decides itself when to stop.)  The
\* only other place where a handler stays is that of GijoeStuck.
Finishes ==
    (stage # "command" /\ loader # "n0sdos")
    ~> (stage = "command" \/ ~atn \/ host.end = "gone" \/ GijoeStuck)

\* What a loader sends is the file: whole when the computer was told that it
\* is, a beginning of it otherwise, and the loader's buffer is given back.
LoadsRight == LoadTypeOK /\ FileArrives /\ InOrder /\ OwnBufferFreed
=============================================================================
