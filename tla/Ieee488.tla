-------------------------------- MODULE Ieee488 --------------------------------
(***************************************************************************)
(* The IEEE-488 side: handle_ieee488 with its listen and talk loops, the   *)
(* ATN interrupt that acknowledges ATN behind their back, and a bus        *)
(* controller that behaves like the ROM of a PET.                          *)
(*                                                                         *)
(* The main program is a label pc and one action per piece of code between *)
(* two points where the interrupt can make a difference.  Lines are        *)
(* Booleans, TRUE is high (released).  Channel buffers, error channel and  *)
(* what a command does are in Channels; here a call of them is a point     *)
(* where time passes.                                                      *)
(*                                                                         *)
(* Timing: a polling loop of the firmware is faster than the controller,   *)
(* so the controller changes a line only when the interrupt has run and    *)
(* the loop the firmware is in has nothing left to react to, and it        *)
(* reacts to the device only while the device waits, works on a buffer or  *)
(* command, or is at a label of Delays.                                    *)
(***************************************************************************)
EXTENDS Integers, Sequences, FiniteSets

CONSTANTS CmdSize,      \* CONFIG_COMMAND_BUFFER_SIZE
          MaxSent,      \* bound: characters the host sends per LISTEN
          Settings      \* boards and timings, see setting

ASSUME IeeeAssumption ==
  /\ \A s \in Settings : s.HasIFC \in BOOLEAN
  /\ CmdSize \in Nat \ {0}
  /\ MaxSent \in Nat

\* Only ieee_mainloop does "whatever we want for any time long", between two calls
\* of handle_ieee488; between the labels inside it there are only port accesses.
ASSUME TimingAssumption ==
  \A s \in Settings : s.Delays \subseteq {"main"}

VARIABLES
  setting,              \* HasIFC: IFC is connected (IEEE_INPUT_IFC); Delays:
                        \* further labels at which the controller may run
  pc,                   \* where the main program is
  te,                   \* TE pin and direction of the control lines
  out,                  \* data lines are outputs
  nrfd, ndac, dav,      \* port bits
  te160, te161,         \* ieee488_TE75160, ieee488_TE75161
  ATN_received,         \* set by the interrupt
  IFCreceived,
  ListenActive, TalkingDevice, command_received, open_active,
  command_length,
  mode,                 \* what ieee488_ListenLoop does with a byte
  cmd,                  \* command byte latched by handle_ieee488
  edge,                 \* ATN fell and the interrupt has not run
  cpc,                  \* where the controller is
  cyc, k,               \* the commands of the ATN cycle, the next of them
  ATN, IFC, cDAV, cNRFD, cNDAC,    \* lines as the controller drives them
  role,                 \* what the controller has made of the device
  sent,                 \* characters the controller sent since LISTEN
  owed                  \* bytes the controller took minus bytes the device
                        \* counts as sent, since TALK

ports == <<te, out, nrfd, ndac, dav, te160, te161>>
irq   == <<ATN_received, IFCreceived>>
state == <<ListenActive, TalkingDevice, command_received, open_active,
           command_length, mode, cmd>>
lines == <<ATN, IFC, cDAV, cNRFD, cNDAC>>
host  == <<edge, cpc, cyc, k, lines, role, sent, setting>>
vars  == <<pc, ports, irq, state, host, owed>>

HasIFC == setting.HasIFC
Delays == setting.Delays

Dirs == {"listen", "talk"}
\* Labels of loops that poll a line, and of calls that take long.
Polls == {"cpoll", "caccept", "secwait", "openwait", "rpoll", "racc",
          "t1", "t2", "t5", "t6", "ifcwait"}
Long  == {"process", "close", "store", "t8"}
Labels == Polls \cup Long \cup
          {"main", "c1", "c2", "exec", "r1", "r2", "rglitch", "ctl", "t0", "t3",
           "t3d", "t3f", "t4", "t4d", "t5c", "t6c", "t7"}

\* Command bytes as the device tells them apart; "byte" is a data byte.
Unaddressed == {"UNLISTEN", "UNTALK", "UNKNOWN"}
Secondaries == {"DATA", "DATA15", "OPEN", "OPEN15", "CLOSE", "CLOSE15"}
Commands == {"LISTEN", "TALK", "OTHER_LISTEN", "OTHER_TALK"}
            \cup Unaddressed \cup Secondaries
\* ATN cycles of the controller's ROM.
Cycles == {<<c>> : c \in Unaddressed}
          \cup ({"LISTEN", "OTHER_LISTEN"} \X Secondaries)
          \cup ({"TALK", "OTHER_TALK"} \X {"DATA", "DATA15"})

-----------------------------------------------------------------------------
(* The lines.                                                              *)

\* What the device reads: a pin that is an output reads its own port bit.
DAV  == IF te = "listen" THEN cDAV ELSE dav
NRFD == IF te = "listen" THEN nrfd ELSE cNRFD
NDAC == IF te = "listen" THEN ndac ELSE cNDAC

\* What the controller reads: low if anybody pulls the line low.
busNRFD == cNRFD /\ (te = "talk" \/ nrfd)
busNDAC == cNDAC /\ (te = "talk" \/ ndac)
busDAV  == cDAV /\ (te = "listen" \/ dav)
busData == IF cpc = "dav" THEN cyc[k] ELSE "byte"

\* Mistake: the flag changes and the port does not.
DataListen_flag_only ==
  /\ te160' = "listen"
  /\ UNCHANGED out

\* ieee488_DataListen, guarded by the flag as every caller does.  An interrupt
\* between the port and the flag is the same as one before it.
DataListen ==
  /\ out' = (out /\ te160 = "listen")
  /\ te160' = "listen"

ieee488_BusIdle ==
  /\ te' = IF te161 = "talk" THEN "listen" ELSE te
  /\ te161' = "listen"
  /\ ndac' = TRUE
  /\ nrfd' = TRUE
  /\ DataListen
  /\ UNCHANGED dav

\* ieee488_CtrlPortsTalk up to its last line, which sets the flag.
CtrlPortsTalk ==
  /\ te' = "talk"
  /\ dav' = TRUE
  /\ UNCHANGED <<nrfd, ndac, out, te160, te161>>

\* Mistake: the device stays a talker.
ieee488_Init_keep_talk ==
  /\ ListenActive' = FALSE
  /\ command_received' = FALSE /\ open_active' = FALSE
  /\ te' = "listen" /\ te161' = "listen"
  /\ out' = FALSE   /\ te160' = "listen"
  /\ nrfd' = TRUE   /\ ndac' = TRUE
  /\ UNCHANGED <<dav, TalkingDevice, command_length, mode, cmd>>

\* The flags and ports that ieee488_Init sets.
ieee488_Init ==
  /\ ListenActive' = FALSE /\ TalkingDevice' = FALSE
  /\ command_received' = FALSE /\ open_active' = FALSE
  /\ te' = "listen" /\ te161' = "listen"
  /\ out' = FALSE   /\ te160' = "listen"
  /\ nrfd' = TRUE   /\ ndac' = TRUE
  /\ UNCHANGED <<dav, command_length, mode, cmd>>

\* ieee488_CheckIFC where it is the last thing a condition tests.
CheckIFC(tested) == IFCreceived' = (IFCreceived \/ (tested /\ ~IFC))

\* A main program step: a pending interrupt is served first.
At(label) == pc = label /\ ~edge
Goto(label) == pc' = label /\ UNCHANGED <<host, owed>>
Skip(label) == Goto(label) /\ UNCHANGED <<ports, irq, state>>
\* SetNRFD, SetNDAC and SetDAV.
SetLines(r, a, d, label) ==
  /\ nrfd' = r /\ ndac' = a /\ dav' = d
  /\ Goto(label)
  /\ UNCHANGED <<te, out, te160, te161, irq, state>>

-----------------------------------------------------------------------------
(* handle_ieee488.                                                         *)

\* Mistake: the drivers are not turned round.
AtnInterrupt_no_te ==
  /\ edge
  /\ edge' = FALSE
  /\ nrfd' = FALSE
  /\ ndac' = TRUE
  /\ ATN_received' = TRUE
  /\ UNCHANGED <<pc, te, out, dav, te160, te161, IFCreceived, state, cpc, cyc,
                 k, lines, role, sent, owed, setting>>

\* INT0_vect: listen mode, NRFD low, NDAC released.
AtnInterrupt ==
  /\ edge
  /\ edge' = FALSE
  /\ te' = "listen"
  /\ out' = FALSE
  /\ nrfd' = FALSE
  /\ ndac' = TRUE
  /\ ATN_received' = TRUE
  /\ UNCHANGED <<pc, dav, te160, te161, IFCreceived, state, cpc, cyc, k, lines,
                 role, sent, owed, setting>>

\* Entry, from ieee_mainloop: ieee488_ProcessIFC if IFC was seen.
HandleIfc ==
  /\ At("main")
  /\ IFCreceived \/ ~IFC
  /\ IFCreceived' = FALSE
  /\ ieee488_Init
  /\ Goto("ifcwait")
  /\ UNCHANGED ATN_received

EnterCommands ==
  /\ ATN_received' = FALSE
  /\ Goto(IF ATN_received THEN "c1" ELSE "main")
  /\ UNCHANGED <<ports, state, IFCreceived>>

HandleAtn ==
  /\ At("main")
  /\ ~IFCreceived /\ IFC
  /\ ATN_received
  /\ EnterCommands

\* The end of ieee488_ProcessIFC: while (!ieee488_IFC()).
IfcWait ==
  /\ At("ifcwait")
  /\ IFC
  /\ EnterCommands

\* Ready for a command: NDAC low, then NRFD high.
CommandNdac ==
  /\ At("c1")
  /\ SetLines(nrfd, FALSE, dav, "c2")

CommandReady ==
  /\ At("c2")
  /\ nrfd' = TRUE
  /\ DataListen
  /\ Goto("cpoll")
  /\ UNCHANGED <<te, ndac, dav, te161, irq, state>>

Aborted == ATN_received \/ ATN \/ ~IFC

\* DAV stays high and the cycle is over: idle, unless addressed.
CommandAbort ==
  /\ At("cpoll")
  /\ DAV
  /\ Aborted
  /\ CheckIFC(~ATN_received /\ ~ATN)
  /\ IF ListenActive \/ TalkingDevice
     THEN UNCHANGED ports
     ELSE ieee488_BusIdle
  /\ Goto("main")
  /\ UNCHANGED <<ATN_received, state>>

CommandByte ==
  /\ At("cpoll")
  /\ ~DAV
  /\ nrfd' = FALSE
  /\ ndac' = TRUE
  /\ cmd' = busData
  /\ Goto("caccept")
  /\ UNCHANGED <<te, out, dav, te160, te161, irq, ListenActive, TalkingDevice,
                 command_received, open_active, command_length, mode>>

CommandAccepted ==
  /\ At("caccept")
  /\ IF DAV
     THEN Goto("exec") /\ UNCHANGED irq
     ELSE /\ Aborted
          /\ CheckIFC(~ATN_received /\ ~ATN)
          /\ Goto("main") /\ UNCHANGED ATN_received
  /\ UNCHANGED <<ports, state>>

\* ieee488_Unlisten up to the command; the bus is released first.
Unlisten ==
  /\ At("exec") /\ cmd = "UNLISTEN"
  /\ ieee488_BusIdle
  /\ Goto("process")
  /\ UNCHANGED <<irq, state>>

\* parse_doscommand or file_open, and the end of ieee488_Unlisten.
Process ==
  /\ At("process")
  /\ ListenActive' = FALSE
  /\ command_received' = FALSE
  /\ open_active' = FALSE
  /\ command_length' = 0
  /\ Goto("c1")
  /\ UNCHANGED <<ports, irq, TalkingDevice, mode, cmd>>

Untalk ==
  /\ At("exec") /\ cmd = "UNTALK"
  /\ ieee488_BusIdle
  /\ TalkingDevice' = FALSE
  /\ Goto("c1")
  /\ UNCHANGED <<irq, ListenActive, command_received, open_active,
                 command_length, mode, cmd>>

\* LISTEN and TALK to this device exclude each other.
Address ==
  /\ At("exec") /\ cmd \in {"LISTEN", "TALK"}
  /\ ListenActive' = (cmd = "LISTEN")
  /\ TalkingDevice' = (cmd = "TALK")
  /\ Goto("c1")
  /\ UNCHANGED <<ports, irq, command_received, open_active, command_length,
                 mode, cmd>>

\* Commands for another device, and unknown ones.
Ignore ==
  /\ At("exec")
  /\ \/ cmd \in {"OTHER_LISTEN", "OTHER_TALK", "UNKNOWN", "byte"}
     \/ cmd \in {"CLOSE", "CLOSE15"} /\ ~ListenActive
  /\ Skip("c1")

CloseBegin ==
  /\ At("exec") /\ cmd \in {"CLOSE", "CLOSE15"}
  /\ ListenActive
  /\ Skip("close")

\* The cleanup of the channel, or of all channels.
Close ==
  /\ At("close")
  /\ TalkingDevice' = (TalkingDevice /\ cmd # "CLOSE15")
  /\ Goto("c1")
  /\ UNCHANGED <<ports, irq, ListenActive, command_received, open_active,
                 command_length, mode, cmd>>

\* DATA and OPEN wait for the end of the ATN cycle.
WaitAtn ==
  /\ At("exec") /\ cmd \in {"DATA", "DATA15", "OPEN", "OPEN15"}
  /\ Skip(IF cmd \in {"OPEN", "OPEN15"} THEN "openwait" ELSE "secwait")

-----------------------------------------------------------------------------
(* ieee488_ListenLoop, ieee488_IgnoreBytes and ieee488_RxByte.             *)

\* ATN is high after OPEN: the file name, or a command, follows.
OpenName ==
  /\ At("openwait")
  /\ ATN
  /\ command_received' = (command_received \/ (ListenActive /\ cmd = "OPEN15"))
  /\ open_active' = (open_active \/ ListenActive)
  /\ mode' = IF ListenActive THEN "chars" ELSE mode
  /\ Goto(IF ListenActive THEN "r1" ELSE "c1")
  /\ UNCHANGED <<ports, irq, ListenActive, TalkingDevice, command_length, cmd>>

OpenIfc ==
  /\ At("openwait")
  /\ ~ATN /\ ~IFC
  /\ CheckIFC(TRUE)
  /\ Goto("main")
  /\ UNCHANGED <<ports, ATN_received, state>>

\* DATA to a listener: writable says whether the channel takes data.
ListenLoop(writable) ==
  /\ At("secwait")
  /\ ATN /\ ListenActive
  /\ writable \/ cmd # "DATA15"
  /\ command_received' = (command_received \/ cmd = "DATA15")
  /\ mode' = IF ~writable THEN "ignore"
             ELSE IF command_received' THEN "chars" ELSE "data"
  /\ Goto("r1")
  /\ UNCHANGED <<ports, irq, ListenActive, TalkingDevice, open_active,
                 command_length, cmd>>

NotAddressed ==
  /\ At("secwait")
  /\ ATN /\ ~ListenActive /\ ~TalkingDevice
  /\ Skip("c1")

\* Ready for a data byte: NRFD high, then NDAC low.
RxReady ==
  /\ At("r1")
  /\ SetLines(TRUE, ndac, dav, "r2")

RxNdac ==
  /\ At("r2")
  /\ ndac' = FALSE
  /\ DataListen
  /\ Goto("rpoll")
  /\ UNCHANGED <<te, nrfd, dav, te161, irq, state>>

\* Mistake: the loop of ieee488_IgnoreBytes does not end.
RxAbort_ignored ==
  /\ At("rpoll") \/ At("racc")
  /\ ATN_received \/ ~IFC
  /\ CheckIFC(~ATN_received)
  /\ Goto(IF mode = "ignore" THEN "r1" ELSE "c1")
  /\ UNCHANGED <<ports, ATN_received, state>>

\* RX_ATN or RX_IFC ends ieee488_ListenLoop in both polling loops.
RxAbort ==
  /\ At("rpoll") \/ At("racc")
  /\ ATN_received \/ ~IFC
  /\ CheckIFC(~ATN_received)
  /\ Goto("c1")
  /\ UNCHANGED <<ports, ATN_received, state>>

RxByte ==
  /\ At("rpoll")
  /\ ~ATN_received /\ IFC
  /\ ~DAV
  /\ SetLines(FALSE, ndac, dav, "rglitch")

\* If DAV is high again it was a glitch.
RxTaken ==
  /\ At("rglitch")
  /\ SetLines(nrfd, ndac \/ ~DAV, dav, IF DAV THEN "r1" ELSE "racc")

RxEnd ==
  /\ At("racc")
  /\ ~ATN_received /\ IFC
  /\ DAV
  /\ SetLines(nrfd, FALSE, dav, "store")

\* RxChar, the channel's buffer, or nothing.  A failing refill makes the
\* loop ignore the rest.
Store(fails) ==
  /\ At("store")
  /\ fails => mode = "data" /\ IFC
  /\ CheckIFC(mode # "ignore")
  /\ command_length' = IF mode = "chars" /\ command_length < CmdSize /\ IFC
                       THEN command_length + 1 ELSE command_length
  /\ mode' = IF fails THEN "ignore" ELSE mode
  /\ Goto(IF IFC \/ mode = "ignore" THEN "r1" ELSE "c1")
  /\ UNCHANGED <<ports, ATN_received, ListenActive, TalkingDevice,
                 command_received, open_active, cmd>>

-----------------------------------------------------------------------------
(* ieee488_TalkLoop.                                                       *)

\* T0: no buffer.
TalkNoBuffer ==
  /\ At("secwait")
  /\ ATN /\ ~ListenActive /\ TalkingDevice
  /\ cmd # "DATA15"
  /\ ieee488_BusIdle
  /\ Goto("c1")
  /\ UNCHANGED <<irq, state>>

\* A buffer: the drivers are turned round.
TalkLoop ==
  /\ At("secwait")
  /\ ATN /\ ~ListenActive /\ TalkingDevice
  /\ CtrlPortsTalk
  /\ Goto("ctl")
  /\ UNCHANGED <<irq, state>>

\* The flag follows, and the interrupt may have come in between; then the
\* loop begins if there is data to read.
TalkFlag(readable) ==
  /\ At("ctl")
  /\ readable \/ cmd # "DATA15"
  /\ te161' = "talk"
  /\ Goto(IF readable THEN "t0" ELSE "c1")
  /\ UNCHANGED <<te, out, nrfd, ndac, dav, te160, irq, state>>

\* The early returns.  T2 and T4 leave the ports to the interrupt; T1, T3
\* and T5 idle the bus; T5 and T6 release DAV before.
TalkReturn == Goto("c1") /\ UNCHANGED <<ATN_received, state>>

TalkIfc ==
  /\ \/ At("t0")
     \/ At("t1") /\ NDAC /\ ~ATN_received
     \/ At("t2") /\ ~NRFD /\ ~ATN_received
     \/ At("t5c") /\ ~NDAC /\ ~ATN_received
     \/ At("t6c") /\ ~ATN_received
  /\ ~IFC
  /\ CheckIFC(TRUE)
  /\ TalkReturn
  /\ UNCHANGED ports

TalkAbortIdle ==
  /\ \/ At("t1") /\ NDAC /\ ATN_received
     \/ At("t3") /\ (NDAC \/ ATN_received)
  /\ ieee488_BusIdle
  /\ TalkReturn
  /\ UNCHANGED IFCreceived

TalkAbort ==
  /\ \/ At("t2") /\ ~NRFD /\ ATN_received
     \/ At("t4") /\ (NDAC \/ ATN_received)
  /\ TalkReturn
  /\ UNCHANGED <<ports, IFCreceived>>

TalkAbortT5 ==
  /\ At("t5c")
  /\ NDAC \/ ATN_received
  /\ te' = IF te161 = "talk" THEN "listen" ELSE te
  /\ te161' = "listen"
  /\ ndac' = TRUE /\ nrfd' = TRUE /\ dav' = TRUE
  /\ DataListen
  /\ TalkReturn
  /\ UNCHANGED IFCreceived

TalkAbortT6 ==
  /\ At("t6c")
  /\ ATN_received
  /\ dav' = TRUE
  /\ TalkReturn
  /\ UNCHANGED <<te, out, nrfd, ndac, te160, te161, IFCreceived>>

\* A port bit of the talk loop is set, or a loop condition holds or not.
TalkGo(from, cond, to, davBit) ==
  /\ At(from)
  /\ cond
  /\ SetLines(nrfd, ndac, davBit, to)

\* One byte: wait for a listener that is ready, drive the data, DAV low.
TalkByte ==
  \/ TalkGo("t0", IFC, "t1", TRUE)
  \/ TalkGo("t1", ~NDAC, "t2", dav)
  \/ TalkGo("t2", NRFD, "t3", dav)
  \/ TalkGo("t3", ~NDAC /\ ~ATN_received, "t3d", dav)
  \/ TalkGo("t4", ~NDAC /\ ~ATN_received, "t4d", dav)
  \/ TalkGo("t4d", TRUE, "t5", FALSE)

\* ieee488_DataTalk if the flag asks for it: the port first, then the flag.
DataTalk ==
  /\ At("t3d")
  /\ out' = (out \/ te160 = "listen")
  /\ Goto(IF te160 = "listen" THEN "t3f" ELSE "t4")
  /\ UNCHANGED <<te, nrfd, ndac, dav, te160, te161, irq, state>>

DataFlagTalk ==
  /\ At("t3f")
  /\ te160' = "talk"
  /\ Goto("t4")
  /\ UNCHANGED <<te, out, nrfd, ndac, dav, te161, irq, state>>

\* Wait for NRFD low, then for NDAC high; the interrupt may come between a
\* loop's condition and its body.
TalkHandshake ==
  \/ TalkGo("t5", ~NRFD, "t6", dav)
  \/ TalkGo("t5", NRFD, "t5c", dav)
  \/ TalkGo("t5c", ~NDAC /\ ~ATN_received /\ IFC, "t5", dav)
  \/ TalkGo("t6", NDAC, "t7", dav)
  \/ TalkGo("t6", ~NDAC, "t6c", dav)
  \/ TalkGo("t6c", ~ATN_received /\ IFC, "t6", dav)

\* Mistake: the position does not move past the last byte.
TalkNext_off_by_one(more) ==
  /\ At("t7")
  /\ pc' = IF more THEN "t0" ELSE "t8"
  /\ owed' = IF more THEN owed - 1 ELSE owed
  /\ UNCHANGED <<ports, irq, state, host>>

\* buf->position++: the byte counts as sent.
TalkNext(more) ==
  /\ At("t7")
  /\ pc' = IF more THEN "t0" ELSE "t8"
  /\ owed' = owed - 1
  /\ UNCHANGED <<ports, irq, state, host>>

\* The end of the buffer: end of file, a failed refill, or more data.
TalkRefill(more) ==
  \/ ~more /\ TalkGo("t8", TRUE, "c1", TRUE)
  \/ more  /\ TalkGo("t8", TRUE, "t0", dav)

-----------------------------------------------------------------------------
(* The controller.                                                         *)

\* The loop the device is in has something to react to.
Leaves ==
  \/ pc = "cpoll"    /\ (~DAV \/ Aborted)
  \/ pc = "caccept"  /\ (DAV \/ Aborted)
  \/ pc = "secwait"  /\ ATN
  \/ pc = "openwait" /\ (ATN \/ ~IFC)
  \/ pc = "rpoll"    /\ (~DAV \/ ATN_received \/ ~IFC)
  \/ pc = "racc"     /\ (DAV \/ ATN_received \/ ~IFC)
  \/ pc = "t1"       /\ (~NDAC \/ ATN_received \/ ~IFC)
  \/ pc = "t2"       /\ (NRFD \/ ATN_received \/ ~IFC)
  \/ pc = "t5"       /\ (~NRFD \/ NDAC \/ ATN_received \/ ~IFC)
  \/ pc = "t6"       /\ (NDAC \/ ATN_received \/ ~IFC)

Settled == ~edge /\ ~Leaves
Reacts ==
  /\ Settled
  /\ \/ pc \in Polls \cup Long \cup Delays
     \/ pc = "main" /\ ~ATN_received

Device == <<pc, ports, irq, state>>
Host(next) == cpc' = next /\ UNCHANGED <<Device, setting>>

\* A new ATN cycle, at any moment between two bytes; as a listener also when
\* the wait for a byte has timed out.
AssertATN(c) ==
  /\ cpc \in {"idle", "hs0", "hl0", "hl1", "hl2"}
  /\ Settled
  /\ c \in Cycles
  /\ role = "listener" => c = <<"UNLISTEN">>
  /\ role = "talker"   => c = <<"UNTALK">>
  /\ Host("ack")
  /\ cyc' = c /\ k' = 1
  /\ ATN' = FALSE /\ edge' = TRUE
  /\ cNRFD' = TRUE /\ cNDAC' = TRUE
  /\ owed' = IF c[1] = "TALK" THEN 0 ELSE owed
  /\ UNCHANGED <<IFC, cDAV, role, sent>>

\* Before each byte: with both lines high there is no device.
Acknowledged ==
  /\ cpc = "ack"
  /\ Reacts
  /\ ~(busNRFD /\ busNDAC)
  /\ Host("wait")
  /\ UNCHANGED <<edge, cyc, k, lines, role, sent, owed>>

NotPresent ==
  /\ cpc = "ack"
  /\ Reacts
  /\ busNRFD /\ busNDAC
  /\ Host("idle")
  /\ ATN' = TRUE
  /\ UNCHANGED <<edge, cyc, k, IFC, cDAV, cNRFD, cNDAC, role, sent, owed>>

PutByte ==
  /\ cpc \in {"wait", "hsw"}
  /\ Reacts
  /\ busNRFD
  /\ cDAV' = FALSE
  /\ Host(IF cpc = "wait" THEN "dav" ELSE "hsd")
  /\ UNCHANGED <<edge, cyc, k, ATN, IFC, cNRFD, cNDAC, role, sent, owed>>

RoleAfter(c) ==
  CASE c = "LISTEN" -> "listener"
    [] c = "TALK"   -> "talker"
    [] c = "UNLISTEN" /\ role = "listener" -> "none"
    [] c = "UNTALK"   /\ role = "talker"   -> "none"
    [] OTHER -> role

CommandTaken ==
  /\ cpc = "dav"
  /\ Reacts
  /\ busNDAC
  /\ cDAV' = TRUE
  /\ role' = RoleAfter(cyc[k])
  /\ Host(IF k = Len(cyc) THEN "rel" ELSE "ack")
  /\ k' = IF k = Len(cyc) THEN k ELSE k + 1
  /\ sent' = IF cyc[k] = "LISTEN" THEN 0 ELSE sent
  /\ UNCHANGED <<edge, cyc, ATN, IFC, cNRFD, cNDAC, owed>>

\* After LISTEN and TALK cycles data follow.
Follows ==
  CASE cyc[1] \in {"LISTEN", "OTHER_LISTEN"}
         /\ cyc[2] \notin {"CLOSE", "CLOSE15"} -> "hs0"
    [] cyc[1] = "TALK" -> "hl0"
    [] OTHER -> "idle"

ReleaseATN ==
  /\ cpc = "rel"
  /\ Reacts
  /\ ATN' = TRUE
  /\ Host(Follows)
  /\ cNRFD' = (Follows # "hl0")
  /\ cNDAC' = (Follows # "hl0")
  /\ UNCHANGED <<edge, cyc, k, IFC, cDAV, role, sent, owed>>

\* The controller as talker.
Counted == role = "listener" /\ cyc[2] # "DATA"

HostSend ==
  /\ cpc = "hs0"
  /\ Reacts
  /\ Counted => sent < MaxSent
  /\ Host("hsw")
  /\ UNCHANGED <<edge, cyc, k, lines, role, sent, owed>>

HostSent ==
  /\ cpc = "hsd"
  /\ Reacts
  /\ busNDAC
  /\ cDAV' = TRUE
  /\ Host("hs0")
  /\ sent' = IF Counted THEN sent + 1 ELSE sent
  /\ UNCHANGED <<edge, cyc, k, ATN, IFC, cNRFD, cNDAC, role, owed>>

\* The controller as listener: ready, DAV low, NRFD low, NDAC high, DAV high.
HostLine(from, cond, to, r, a) ==
  /\ cpc = from
  /\ Reacts
  /\ cond
  /\ Host(to)
  /\ cNRFD' = r
  /\ cNDAC' = a
  /\ UNCHANGED <<edge, cyc, k, ATN, IFC, cDAV, role, sent>>

HostReceive ==
  /\ \/ HostLine("hl1", ~busDAV, "hl2", FALSE, FALSE)
     \/ HostLine("hl3", busDAV, "hl0", FALSE, FALSE)
  /\ UNCHANGED owed
HostReady == HostLine("hl0", TRUE, "hl1", TRUE, FALSE) /\ UNCHANGED owed
HostTakes == HostLine("hl2", TRUE, "hl3", FALSE, TRUE) /\ owed' = owed + 1

\* IFC, at any moment, with ATN as it is or released, and until the device
\* has noticed.
AssertIFC(atn) ==
  /\ HasIFC
  /\ cpc # "ifc"
  /\ Host("ifc")
  /\ cyc' = <<>> /\ k' = 1
  /\ IFC' = FALSE
  /\ ATN' = (ATN \/ atn)
  /\ cDAV' = TRUE /\ cNRFD' = TRUE /\ cNDAC' = TRUE
  /\ role' = "none" /\ sent' = 0 /\ owed' = 0
  /\ UNCHANGED edge

ReleaseIFC ==
  /\ cpc = "ifc"
  /\ IF ATN THEN pc = "ifcwait" /\ IFC' = TRUE /\ Host("idle")
            ELSE IFC' = IFC /\ Host("ifc")
  /\ ATN' = TRUE
  /\ UNCHANGED <<edge, cyc, k, cDAV, cNRFD, cNDAC, role, sent, owed>>

-----------------------------------------------------------------------------
Init ==
  /\ setting \in Settings
  /\ pc = "main"
  /\ te = "listen" /\ te161 = "listen" /\ te160 = "listen"
  /\ out = FALSE /\ nrfd = TRUE /\ ndac = TRUE /\ dav = TRUE
  /\ ATN_received = FALSE /\ IFCreceived = FALSE
  /\ ListenActive = FALSE /\ TalkingDevice = FALSE
  /\ command_received = FALSE /\ open_active = FALSE
  /\ command_length = 0
  /\ mode = "data"
  /\ cmd = "UNKNOWN"
  /\ edge = FALSE
  /\ cpc = "idle" /\ cyc = <<>> /\ k = 1
  /\ ATN = TRUE /\ IFC = TRUE /\ cDAV = TRUE /\ cNRFD = TRUE /\ cNDAC = TRUE
  /\ role = "none" /\ sent = 0 /\ owed = 0

CommandStep ==
  \/ HandleIfc \/ HandleAtn \/ IfcWait
  \/ CommandNdac \/ CommandReady \/ CommandAbort \/ CommandByte
  \/ CommandAccepted \/ Unlisten \/ Process \/ Untalk \/ Address \/ Ignore
  \/ CloseBegin \/ Close \/ WaitAtn

ListenStep ==
  \/ OpenName \/ OpenIfc \/ NotAddressed
  \/ \E b \in BOOLEAN : ListenLoop(b)
  \/ RxReady \/ RxNdac \/ RxAbort \/ RxByte \/ RxTaken \/ RxEnd
  \/ \E b \in BOOLEAN : Store(b)

TalkStep ==
  \/ TalkNoBuffer \/ TalkLoop
  \/ \E b \in BOOLEAN : TalkFlag(b)
  \/ TalkIfc \/ TalkAbortIdle \/ TalkAbort \/ TalkAbortT5 \/ TalkAbortT6
  \/ TalkByte \/ DataTalk \/ DataFlagTalk \/ TalkHandshake
  \/ \E b \in BOOLEAN : TalkNext(b) \/ TalkRefill(b)

DeviceStep == CommandStep \/ ListenStep \/ TalkStep

\* Steps the controller takes once it has begun a transfer.
HostStep ==
  \/ Acknowledged \/ NotPresent \/ PutByte \/ CommandTaken \/ ReleaseATN
  \/ HostSent \/ HostReceive \/ HostTakes \/ ReleaseIFC

\* Steps it may take or not.
HostChoice ==
  \/ \E c \in Cycles : AssertATN(c)
  \/ HostSend \/ HostReady
  \/ \E b \in BOOLEAN : AssertIFC(b)

Next == AtnInterrupt \/ DeviceStep \/ HostStep \/ HostChoice

Spec == Init /\ [][Next]_vars

\* The firmware and the interrupt always run; the controller completes a
\* transfer the device lets it complete (strong: the device passes through
\* the labels at which the controller can act).
FairSpec ==
  /\ Spec
  /\ WF_vars(AtnInterrupt)
  /\ WF_vars(DeviceStep)
  /\ SF_vars(HostStep)
-----------------------------------------------------------------------------
(* Properties.                                                             *)

\* The state of the device, the lines and the controller keeps its types; the
\* command buffer never holds more than CONFIG_COMMAND_BUFFER_SIZE characters.
TypeOK ==
  /\ setting \in Settings
  /\ pc \in Labels
  /\ te \in Dirs /\ te160 \in Dirs /\ te161 \in Dirs
  /\ {out, nrfd, ndac, dav} \subseteq BOOLEAN
  /\ {ATN_received, IFCreceived, edge} \subseteq BOOLEAN
  /\ {ListenActive, TalkingDevice, command_received, open_active}
       \subseteq BOOLEAN
  /\ command_length \in 0 .. CmdSize
  /\ mode \in {"chars", "data", "ignore"}
  /\ cmd \in Commands \cup {"byte"}
  /\ cpc \in {"idle", "ack", "wait", "dav", "rel", "hs0", "hsw", "hsd",
              "hl0", "hl1", "hl2", "hl3", "ifc"}
  /\ cyc \in Cycles \cup {<<>>}
  /\ k \in 1 .. 2
  /\ {ATN, IFC, cDAV, cNRFD, cNDAC} \subseteq BOOLEAN
  /\ role \in {"none", "listener", "talker"}
  /\ sent \in 0 .. MaxSent
  /\ owed \in Int

\* When the device waits with ATN high, it is what the controller has made of
\* it: no command byte the controller completed was missed or dropped by an
\* early return of handle_ieee488, and none was acted on twice.  With a main loop
\* slower than the controller (Delays) it does not hold.
RolesAgree ==
  /\ Delays = {} /\ pc \in {"main", "rpoll", "t1", "t2"}
  /\ ATN /\ ~edge /\ ~ATN_received /\ IFC /\ ~IFCreceived
  => /\ ListenActive  = (role = "listener")
     /\ TalkingDevice = (role = "talker")

\* The acknowledge of the ATN interrupt is not undone by the main program
\* before the controller looks: it never finds NRFD and NDAC both high, which
\* means "device not present"; a slow main loop can be late.
DevicePresent == Delays = {} /\ cpc = "ack" /\ Reacts => ~(busNRFD /\ busNDAC)

\* The command or file name that ieee488_Unlisten hands to parse_doscommand
\* or file_open is what the controller sent since LISTEN, cut off at the size
\* of the buffer; IFC does not empty the buffer.
CommandIntact ==
  ~HasIFC /\ pc = "process" /\ (command_received \/ open_active) /\ IFC
  => command_length = IF sent < CmdSize THEN sent ELSE CmdSize

\* handle_ieee488 never executes a data byte as a command.
NoDataAsCommand == pc = "exec" => cmd # "byte"

\* Wherever the main program goes by its flags, they do not claim that the
\* drivers or the data lines point inwards while they point to the bus, although
\* the interrupt changes the ports behind its back.  Port and flag differ only
\* between the last two lines of ieee488_CtrlPortsTalk and ieee488_DataTalk, which
\* write the port first.
FlagsCover ==
  /\ te = "talk" => te161 = "talk" \/ pc = "ctl"
  /\ out = TRUE => te160 = "talk" \/ pc = "t3f"

\* While the device tells the controller that data are valid, the data lines
\* are outputs and the drivers point to the bus, although the interrupt
\* changes the ports without the flags the main program goes by.
DataDriven == ~busDAV /\ cDAV /\ IFC => out /\ te = "talk"

\* With ATN low, the interrupt served and the commands awaited, the device
\* does not drive DAV or data.
AtnReleasesBus ==
  pc \in {"main", "cpoll", "caccept"} /\ ~ATN /\ ~edge /\ IFC
  => te = "listen" /\ ~out

\* A byte that the controller took is not sent again: every byte it took in a
\* TALK was counted when the device is back in the main loop, and the two
\* counts are never more than one byte apart.
NoByteTwice ==
  /\ owed \in -1 .. 1
  /\ pc = "main" /\ IFC => owed <= 0

\* A byte counts as sent only if the controller took it.  The code does not keep
\* this: ATN in the wait loops moves the position past a byte nobody took.
ListenersReceived == owed >= 0

\* A transfer the controller has begun comes to an end.
TransferEnds ==
  /\ (cpc = "ack")  ~> (cpc # "ack")
  /\ (cpc = "wait") ~> (cpc # "wait")
  /\ (cpc = "dav")  ~> (cpc # "dav")
  /\ (cpc = "hsw")  ~> (cpc # "hsw")
  /\ (cpc = "hsd")  ~> (cpc # "hsd")

\* IFC brings the device back to ieee488_Init from wherever it is.
IfcHandled == ~IFC ~> pc = "ifcwait"

\* The device drives the data lines while its DAV is low, and lets the bus go
\* when the controller asserts ATN.
BusReleased == TypeOK /\ DataDriven /\ AtnReleasesBus

\* The device is what the controller has made of it: it answers an ATN, takes
\* the role it was given, and takes no data byte for a command.
RolesSound == RolesAgree /\ DevicePresent /\ NoDataAsCommand

\* Commands and names arrive whole, and no byte is sent twice.
BytesExact == CommandIntact /\ NoByteTwice

\* Every wait of the controller for the device ends, and IFC is obeyed.
NothingHangs == TransferEnds /\ IfcHandled
===============================================================================
