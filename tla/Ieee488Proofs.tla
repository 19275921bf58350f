----------------------------- MODULE Ieee488Proofs -----------------------------
(***************************************************************************)
(* Proofs about Ieee488: the flags that the main program keeps about the   *)
(* bus drivers, for any buffer size, bounds and delays.                    *)
(***************************************************************************)
EXTENDS Ieee488, TLAPS

\* The labels between a port and its flag.
Half == {"ctl", "t3f"}

\* The interrupt turns the ports to listen and so makes no flag wrong.
LEMMA InterruptFlags == FlagsCover /\ AtnInterrupt => FlagsCover'
  BY DEF FlagsCover, AtnInterrupt

\* ieee488_BusIdle goes by the flags, which is enough while they cover the
\* ports.
LEMMA BusIdleFlags == FlagsCover /\ pc \notin Half /\ ieee488_BusIdle => FlagsCover'
  BY DEF FlagsCover, Half, ieee488_BusIdle, DataListen

LEMMA PortsFlags == FlagsCover /\ pc \notin Half /\ UNCHANGED ports => FlagsCover'
  BY DEF FlagsCover, Half, ports

LEMMA SetLinesFlags ==
  ASSUME NEW r, NEW a, NEW d, NEW l, FlagsCover, pc \notin Half, SetLines(r, a, d, l)
  PROVE  FlagsCover'
  BY DEF FlagsCover, Half, SetLines

\* The command loop.
LEMMA CommandFlags == FlagsCover /\ CommandStep => FlagsCover'
<1> SUFFICES ASSUME FlagsCover, CommandStep PROVE FlagsCover'
  OBVIOUS
<1> USE DEF At, Half
<1>1. CASE HandleIfc
  BY <1>1 DEF FlagsCover, HandleIfc, ieee488_Init
<1>2. CASE HandleAtn \/ IfcWait
  BY <1>2, PortsFlags DEF HandleAtn, IfcWait, EnterCommands
<1>3. CASE CommandNdac
  BY <1>3, SetLinesFlags DEF CommandNdac
<1>4. CASE CommandReady
  BY <1>4 DEF FlagsCover, CommandReady, DataListen
<1>5. CASE CommandAbort
  BY <1>5, PortsFlags, BusIdleFlags DEF CommandAbort
<1>6. CASE CommandByte
  BY <1>6 DEF FlagsCover, CommandByte
<1>7. CASE CommandAccepted
  BY <1>7, PortsFlags DEF CommandAccepted
<1>8. CASE Unlisten \/ Untalk
  BY <1>8, BusIdleFlags DEF Unlisten, Untalk
<1>9. CASE Process \/ Address \/ Close
  BY <1>9, PortsFlags DEF Process, Address, Close
<1>10. CASE Ignore \/ CloseBegin \/ WaitAtn
  BY <1>10, PortsFlags DEF Ignore, CloseBegin, WaitAtn, Skip
<1> QED
  BY <1>1, <1>2, <1>3, <1>4, <1>5, <1>6, <1>7, <1>8, <1>9, <1>10
     DEF CommandStep

\* The listen loop.
LEMMA ListenFlags == FlagsCover /\ ListenStep => FlagsCover'
<1> SUFFICES ASSUME FlagsCover, ListenStep PROVE FlagsCover'
  OBVIOUS
<1> USE DEF At, Half
<1>1. CASE OpenName \/ OpenIfc \/ RxAbort
  BY <1>1, PortsFlags DEF OpenName, OpenIfc, RxAbort
<1>2. CASE NotAddressed
  BY <1>2, PortsFlags DEF NotAddressed, Skip
<1>3. CASE \E b \in BOOLEAN : ListenLoop(b)
  BY <1>3, PortsFlags DEF ListenLoop
<1>4. CASE RxReady \/ RxByte \/ RxTaken \/ RxEnd
  BY <1>4, SetLinesFlags DEF RxReady, RxByte, RxTaken, RxEnd
<1>5. CASE RxNdac
  BY <1>5 DEF FlagsCover, RxNdac, DataListen
<1>6. CASE \E b \in BOOLEAN : Store(b)
  BY <1>6, PortsFlags DEF Store
<1> QED
  BY <1>1, <1>2, <1>3, <1>4, <1>5, <1>6 DEF ListenStep

\* The talk loop.
LEMMA TalkFlags == FlagsCover /\ TalkStep => FlagsCover'
<1> SUFFICES ASSUME FlagsCover, TalkStep PROVE FlagsCover'
  OBVIOUS
<1> USE DEF At, Half
<1>1. CASE TalkNoBuffer \/ TalkAbortIdle
  BY <1>1, BusIdleFlags DEF TalkNoBuffer, TalkAbortIdle
<1>2. CASE TalkLoop
  BY <1>2 DEF FlagsCover, TalkLoop, CtrlPortsTalk, Goto
<1>3. CASE TalkIfc \/ TalkAbort
  BY <1>3, PortsFlags DEF TalkIfc, TalkAbort
<1>4. CASE TalkAbortT5
  BY <1>4 DEF FlagsCover, TalkAbortT5, DataListen
<1>5. CASE TalkAbortT6
  BY <1>5 DEF FlagsCover, TalkAbortT6
<1>6. CASE TalkByte \/ TalkHandshake
  BY <1>6, SetLinesFlags DEF TalkByte, TalkHandshake, TalkGo
<1>7. CASE DataTalk
  BY <1>7 DEF FlagsCover, DataTalk, Goto
<1>10. CASE \E b \in BOOLEAN : TalkFlag(b)
  BY <1>10 DEF FlagsCover, TalkFlag, Goto
<1>11. CASE DataFlagTalk
  BY <1>11 DEF FlagsCover, DataFlagTalk, Goto
<1>8. CASE \E b \in BOOLEAN : TalkNext(b)
  BY <1>8, PortsFlags DEF TalkNext
<1>9. CASE \E b \in BOOLEAN : TalkRefill(b)
  BY <1>9, SetLinesFlags DEF TalkRefill, TalkGo
<1> QED
  BY <1>1, <1>2, <1>3, <1>4, <1>5, <1>6, <1>7, <1>8, <1>9, <1>10, <1>11 DEF TalkStep

\* The controller does not touch the device's ports.
LEMMA HostFlags == FlagsCover /\ (HostStep \/ HostChoice) => FlagsCover'
<1>1. HostStep \/ HostChoice => UNCHANGED <<pc, ports>>
  BY DEF HostStep, HostChoice, Acknowledged, NotPresent, PutByte, CommandTaken,
         ReleaseATN, HostSent, HostReceive, HostTakes, ReleaseIFC, AssertATN,
         HostSend, HostReady, AssertIFC, HostLine, Host, Device
<1> QED
  BY <1>1 DEF FlagsCover, ports

\* Whatever the interrupt does and whenever it comes, the flags by which
\* ieee488_BusIdle, ieee488_RxByte and handle_ieee488 turn the ports round
\* cover the ports, so that none of them leaves the device driving the bus.
THEOREM FlagsCorrect == Spec => []FlagsCover
<1>1. Init => FlagsCover
  BY DEF Init, FlagsCover
<1>2. FlagsCover /\ [Next]_vars => FlagsCover'
  <2> SUFFICES ASSUME FlagsCover, [Next]_vars PROVE FlagsCover'
    OBVIOUS
  <2>1. CASE Next
    BY <2>1, InterruptFlags, CommandFlags, ListenFlags, TalkFlags, HostFlags
       DEF Next, DeviceStep
  <2>2. CASE UNCHANGED vars
    BY <2>2 DEF FlagsCover, vars, ports
  <2> QED
    BY <2>1, <2>2
<1> QED
  BY <1>1, <1>2, PTL DEF Spec

-----------------------------------------------------------------------------
(* The bus is released.  Two flags and two ports describe one direction,   *)
(* and the interrupt changes only the ports: the invariant says at which   *)
(* labels of the main program a flag may still say "talk" and DAV may      *)
(* still be low, and what the ports are there.                             *)

\* Labels of ieee488_TalkLoop from ieee488_DataTalk on, and all of them.
Sending == {"t4", "t4d", "t5", "t5c", "t6", "t6c", "t7", "t8"}
Talking == Sending \cup {"ctl", "t0", "t1", "t2", "t3", "t3d", "t3f"}
\* Labels at which DAV may be low.
Valid == {"t0", "t5", "t5c", "t6", "t6c", "t7", "t8"}

\* The flag of the data lines is left at "talk" only until the next command
\* byte is awaited, and between ieee488_DataTalk and then it is set.
DataFlag ==
  /\ te160 = "talk" => pc \in Talking \cup {"c1", "c2"}
  /\ pc \in Sending => te160 = "talk"

\* While the drivers point to the bus the flag of the data lines is true, or
\* about to be.
DataLines == te = "talk" /\ (te160 = "talk" \/ pc = "t3f") => out = TRUE

\* DAV is low, as far as the bus can see it, only in the handshake of a byte.
DavLow == te = "talk" /\ dav = FALSE /\ IFC = TRUE
          => te160 = "talk" /\ pc \in Valid

\* The drivers are turned round when ATN or IFC has been noticed.
Turned ==
  /\ pc = "ifcwait" => te = "listen"
  /\ ATN = FALSE /\ edge = FALSE => te = "listen"

\* Where the controller is in its ATN cycle or its data.
CycleShape ==
  /\ cpc \in {"ack", "wait", "dav", "rel"} => cyc \in Cycles /\ k <= Len(cyc)
  /\ cpc \in {"hsw", "hsd"} /\ Counted => sent < MaxSent

BusInv ==
  TypeOK /\ FlagsCover /\ DataFlag /\ DataLines /\ DavLow /\ Turned /\ CycleShape

\* The parts of TypeOK by the component that changes them.
PortTypes ==
  /\ te \in Dirs /\ te160 \in Dirs /\ te161 \in Dirs
  /\ out \in BOOLEAN /\ nrfd \in BOOLEAN /\ ndac \in BOOLEAN /\ dav \in BOOLEAN
IrqTypes == ATN_received \in BOOLEAN /\ IFCreceived \in BOOLEAN
StateTypes ==
  /\ ListenActive \in BOOLEAN /\ TalkingDevice \in BOOLEAN
  /\ command_received \in BOOLEAN /\ open_active \in BOOLEAN
  /\ command_length \in 0 .. CmdSize
  /\ mode \in {"chars", "data", "ignore"}
  /\ cmd \in Commands \cup {"byte"}
LineTypes ==
  /\ ATN \in BOOLEAN /\ IFC \in BOOLEAN
  /\ cDAV \in BOOLEAN /\ cNRFD \in BOOLEAN /\ cNDAC \in BOOLEAN
  /\ edge \in BOOLEAN
HostTypes ==
  /\ setting \in Settings
  /\ LineTypes
  /\ cpc \in {"idle", "ack", "wait", "dav", "rel", "hs0", "hsw", "hsd",
              "hl0", "hl1", "hl2", "hl3", "ifc"}
  /\ cyc \in Cycles \cup {<<>>}
  /\ k \in 1 .. 2
  /\ role \in {"none", "listener", "talker"}
  /\ sent \in 0 .. MaxSent

LEMMA TypeParts ==
  TypeOK <=> /\ pc \in Labels /\ owed \in Int
             /\ PortTypes /\ IrqTypes /\ StateTypes /\ HostTypes
<1>1. {out, nrfd, ndac, dav} \subseteq BOOLEAN
      <=> out \in BOOLEAN /\ nrfd \in BOOLEAN /\ ndac \in BOOLEAN /\ dav \in BOOLEAN
  BY Zenon
<1>2. {ATN_received, IFCreceived, edge} \subseteq BOOLEAN
      <=> ATN_received \in BOOLEAN /\ IFCreceived \in BOOLEAN /\ edge \in BOOLEAN
  BY Zenon
<1>3. {ListenActive, TalkingDevice, command_received, open_active} \subseteq BOOLEAN
      <=> /\ ListenActive \in BOOLEAN /\ TalkingDevice \in BOOLEAN
          /\ command_received \in BOOLEAN /\ open_active \in BOOLEAN
  BY Zenon
<1>4. {ATN, IFC, cDAV, cNRFD, cNDAC} \subseteq BOOLEAN
      <=> /\ ATN \in BOOLEAN /\ IFC \in BOOLEAN
          /\ cDAV \in BOOLEAN /\ cNRFD \in BOOLEAN /\ cNDAC \in BOOLEAN
  BY Zenon
<1> QED
  BY <1>1, <1>2, <1>3, <1>4, Zenon
     DEF TypeOK, PortTypes, IrqTypes, StateTypes, LineTypes, HostTypes

\* The ATN cycles are one or two commands long.
LEMMA CycleFacts ==
  ASSUME NEW c \in Cycles
  PROVE  Len(c) \in 1 .. 2 /\ \A i \in 1 .. Len(c) : c[i] \in Commands
<1>0. Unaddressed \subseteq Commands /\ Secondaries \subseteq Commands
      /\ {"LISTEN", "OTHER_LISTEN", "TALK", "OTHER_TALK"} \subseteq Commands
      /\ {"DATA", "DATA15"} \subseteq Commands
  BY DEF Commands, Secondaries
<1>1. CASE \E x \in Unaddressed : c = <<x>>
  BY <1>0, <1>1
<1>2. CASE \E x \in Commands : \E y \in Commands : c = <<x, y>>
  BY <1>2
<1>3. CASE c \in {"LISTEN", "OTHER_LISTEN"} \X Secondaries
  <2>1. c = <<c[1], c[2]>> /\ c[1] \in Commands /\ c[2] \in Commands
    BY <1>0, <1>3
  <2> QED
    BY <2>1, <1>2
<1>4. CASE c \in {"TALK", "OTHER_TALK"} \X {"DATA", "DATA15"}
  <2>1. c = <<c[1], c[2]>> /\ c[1] \in Commands /\ c[2] \in Commands
    BY <1>0, <1>4
  <2> QED
    BY <2>1, <1>2
<1> QED
  BY <1>1, <1>3, <1>4 DEF Cycles

\* What the device latches is a command, or a byte.
LEMMA LatchedByte == HostTypes /\ CycleShape => busData \in Commands \cup {"byte"}
<1> SUFFICES ASSUME HostTypes, CycleShape, cpc = "dav"
             PROVE  cyc[k] \in Commands
  BY DEF busData
<1>1. cyc \in Cycles /\ k <= Len(cyc) /\ k \in 1 .. 2
  BY DEF CycleShape, HostTypes
<1> QED
  BY <1>1, CycleFacts


DeviceTypes == pc \in Labels /\ PortTypes /\ IrqTypes /\ StateTypes

\* The parts that a step leaves alone, and what the helpers do to the others.
LEMMA KeepPorts == PortTypes /\ UNCHANGED ports => PortTypes'
  BY DEF PortTypes, ports
LEMMA KeepIrq == IrqTypes /\ UNCHANGED irq => IrqTypes'
  BY DEF IrqTypes, irq
LEMMA KeepState == StateTypes /\ UNCHANGED state => StateTypes'
  BY DEF StateTypes, state

LEMMA CheckedIfc ==
  ASSUME NEW tested, IrqTypes, CheckIFC(tested), UNCHANGED ATN_received
  PROVE  IrqTypes'
<1>1. IFCreceived' \in BOOLEAN
  BY Zenon DEF CheckIFC
<1> QED
  BY <1>1, Zenon DEF IrqTypes

LEMMA SetTypes ==
  ASSUME NEW r \in BOOLEAN, NEW a \in BOOLEAN, NEW d \in BOOLEAN,
         NEW l \in Labels, SetLines(r, a, d, l), DeviceTypes
  PROVE  DeviceTypes'
<1>1. UNCHANGED irq /\ UNCHANGED state /\ pc' = l
  BY DEF SetLines, Goto
<1>2. PortTypes'
  BY Zenon DEF SetLines, PortTypes, DeviceTypes
<1> QED
  BY <1>1, <1>2, KeepIrq, KeepState DEF DeviceTypes

LEMMA IdleTypes == PortTypes /\ ieee488_BusIdle => PortTypes'
<1> SUFFICES ASSUME PortTypes, ieee488_BusIdle PROVE PortTypes'
  OBVIOUS
<1>1. te' \in Dirs /\ te161' \in Dirs /\ te160' \in Dirs
  BY DEF PortTypes, ieee488_BusIdle, DataListen, Dirs
<1>2. out' \in BOOLEAN /\ nrfd' \in BOOLEAN /\ ndac' \in BOOLEAN /\ dav' \in BOOLEAN
  BY Zenon DEF PortTypes, ieee488_BusIdle, DataListen
<1> QED
  BY <1>1, <1>2 DEF PortTypes

LEMMA CommandTypes ==
  DeviceTypes /\ HostTypes /\ CycleShape /\ CommandStep => DeviceTypes'
<1> SUFFICES ASSUME DeviceTypes, HostTypes, CycleShape, CommandStep
             PROVE  DeviceTypes'
  OBVIOUS
<1> USE DEF Goto
<1>0. PortTypes /\ IrqTypes /\ StateTypes
  BY DEF DeviceTypes
<1>1. CASE HandleIfc
  <2>1. PortTypes' /\ StateTypes' /\ IrqTypes'
    BY <1>0, <1>1, Zenon
       DEF HandleIfc, ieee488_Init, PortTypes, StateTypes, IrqTypes, Dirs
  <2>2. pc' \in Labels
    BY <1>1 DEF HandleIfc, Labels, Polls
  <2> QED
    BY <2>1, <2>2 DEF DeviceTypes
<1>2. CASE HandleAtn \/ IfcWait
  <2>1. UNCHANGED ports /\ UNCHANGED state /\ pc' \in Labels
    BY <1>2 DEF HandleAtn, IfcWait, EnterCommands, Labels
  <2>2. IrqTypes'
    BY <1>0, <1>2, Zenon DEF HandleAtn, IfcWait, EnterCommands, IrqTypes
  <2> QED
    BY <1>0, <2>1, <2>2, KeepPorts, KeepState DEF DeviceTypes
<1>3. CASE CommandNdac
  <2>1. "c2" \in Labels
    BY DEF Labels
  <2> QED
    BY <1>0, <1>3, <2>1, SetTypes DEF CommandNdac, PortTypes
<1>4. CASE CommandReady
  <2>1. PortTypes'
    BY <1>0, <1>4, Zenon DEF CommandReady, DataListen, PortTypes, Dirs
  <2>2. UNCHANGED irq /\ UNCHANGED state /\ pc' \in Labels
    BY <1>4 DEF CommandReady, Labels, Polls
  <2> QED
    BY <1>0, <2>1, <2>2, KeepIrq, KeepState DEF DeviceTypes
<1>5. CASE CommandAbort
  <2>1. UNCHANGED state /\ pc' \in Labels
    BY <1>5 DEF CommandAbort, Labels
  <2>2. IrqTypes'
    BY <1>0, <1>5, CheckedIfc DEF CommandAbort
  <2>3. PortTypes'
    BY <1>0, <1>5, IdleTypes, KeepPorts DEF CommandAbort
  <2> QED
    BY <1>0, <2>1, <2>2, <2>3, KeepState DEF DeviceTypes
<1>6. CASE CommandByte
  <2>1. UNCHANGED irq /\ pc' \in Labels
    BY <1>6 DEF CommandByte, Labels, Polls
  <2>2. PortTypes'
    BY <1>0, <1>6, Zenon DEF CommandByte, PortTypes
  <2>3. StateTypes'
    BY <1>0, <1>6, LatchedByte, Zenon DEF CommandByte, StateTypes
  <2> QED
    BY <1>0, <2>1, <2>2, <2>3, KeepIrq DEF DeviceTypes
<1>7. CASE CommandAccepted
  <2>1. UNCHANGED ports /\ UNCHANGED state /\ pc' \in Labels
    BY <1>7 DEF CommandAccepted, Labels
  <2>2. IrqTypes'
    BY <1>0, <1>7, CheckedIfc, KeepIrq DEF CommandAccepted
  <2> QED
    BY <1>0, <2>1, <2>2, KeepPorts, KeepState DEF DeviceTypes
<1>8. CASE Unlisten \/ Untalk
  <2>1. UNCHANGED irq /\ ieee488_BusIdle /\ pc' \in Labels
    BY <1>8 DEF Unlisten, Untalk, Labels, Long
  <2>2. StateTypes'
    BY <1>0, <1>8, KeepState, Zenon DEF Unlisten, Untalk, StateTypes
  <2> QED
    BY <1>0, <2>1, <2>2, IdleTypes, KeepIrq DEF DeviceTypes
<1>9. CASE Process \/ Address \/ Close
  <2>1. UNCHANGED ports /\ UNCHANGED irq /\ pc' \in Labels
    BY <1>9 DEF Process, Address, Close, Labels
  <2>2. 0 \in 0 .. CmdSize
    BY IeeeAssumption
  <2>3. StateTypes'
    BY <1>0, <1>9, <2>2, Zenon DEF Process, Address, Close, StateTypes
  <2> QED
    BY <1>0, <2>1, <2>3, KeepPorts, KeepIrq DEF DeviceTypes
<1>10. CASE Ignore \/ CloseBegin \/ WaitAtn
  <2>1. UNCHANGED <<ports, irq, state>> /\ pc' \in Labels
    BY <1>10 DEF Ignore, CloseBegin, WaitAtn, Skip, Labels, Long, Polls
  <2> QED
    BY <1>0, <2>1, KeepPorts, KeepIrq, KeepState DEF DeviceTypes
<1> QED
  BY <1>1, <1>2, <1>3, <1>4, <1>5, <1>6, <1>7, <1>8, <1>9, <1>10
     DEF CommandStep

LEMMA ListenTypes == DeviceTypes /\ LineTypes /\ ListenStep => DeviceTypes'
<1> SUFFICES ASSUME DeviceTypes, LineTypes, ListenStep PROVE DeviceTypes'
  OBVIOUS
<1> USE DEF Goto
<1>0. PortTypes /\ IrqTypes /\ StateTypes
  BY DEF DeviceTypes
<1>1. CASE OpenName
  <2>1. UNCHANGED ports /\ UNCHANGED irq /\ pc' \in Labels
    BY <1>1 DEF OpenName, Labels
  <2>2. StateTypes'
    BY <1>0, <1>1, Zenon DEF OpenName, StateTypes
  <2> QED
    BY <1>0, <2>1, <2>2, KeepPorts, KeepIrq DEF DeviceTypes
<1>2. CASE OpenIfc \/ RxAbort
  <2>1. UNCHANGED ports /\ UNCHANGED state /\ pc' \in Labels
    BY <1>2 DEF OpenIfc, RxAbort, Labels
  <2>2. IrqTypes'
    BY <1>0, <1>2, CheckedIfc DEF OpenIfc, RxAbort
  <2> QED
    BY <1>0, <2>1, <2>2, KeepPorts, KeepState DEF DeviceTypes
<1>3. CASE NotAddressed
  <2>1. UNCHANGED <<ports, irq, state>> /\ pc' \in Labels
    BY <1>3 DEF NotAddressed, Skip, Labels
  <2> QED
    BY <1>0, <2>1, KeepPorts, KeepIrq, KeepState DEF DeviceTypes
<1>4. CASE \E b \in BOOLEAN : ListenLoop(b)
  <2>1. UNCHANGED ports /\ UNCHANGED irq /\ pc' \in Labels
    BY <1>4 DEF ListenLoop, Labels
  <2>2. mode' \in {"chars", "data", "ignore"}
    BY <1>4 DEF ListenLoop
  <2>3. StateTypes'
    BY <1>0, <1>4, <2>2, Zenon DEF ListenLoop, StateTypes
  <2> QED
    BY <1>0, <2>1, <2>3, KeepPorts, KeepIrq DEF DeviceTypes
<1>5. CASE RxReady \/ RxByte \/ RxEnd
  <2>1. "r2" \in Labels /\ "rglitch" \in Labels /\ "store" \in Labels
    BY DEF Labels, Long
  <2> QED
    BY <1>0, <1>5, <2>1, SetTypes DEF RxReady, RxByte, RxEnd, PortTypes
<1>6. CASE RxTaken
  <2>1. "r1" \in Labels /\ "racc" \in Labels
    BY DEF Labels, Polls
  <2>2. (IF DAV THEN "r1" ELSE "racc") \in Labels
    BY <2>1
  <2>3. (ndac \/ ~DAV) \in BOOLEAN
    BY Zenon
  <2> QED
    BY <1>0, <1>6, <2>2, <2>3, SetTypes DEF RxTaken, PortTypes
<1>7. CASE RxNdac
  <2>1. PortTypes'
    BY <1>0, <1>7, Zenon DEF RxNdac, DataListen, PortTypes, Dirs
  <2>2. UNCHANGED irq /\ UNCHANGED state /\ pc' \in Labels
    BY <1>7 DEF RxNdac, Labels, Polls
  <2> QED
    BY <1>0, <2>1, <2>2, KeepIrq, KeepState DEF DeviceTypes
<1>8. CASE \E b \in BOOLEAN : Store(b)
  <2>1. UNCHANGED ports /\ pc' \in Labels
    BY <1>8 DEF Store, Labels
  <2>2. IrqTypes'
    BY <1>0, <1>8, CheckedIfc DEF Store
  <2>3. command_length' \in 0 .. CmdSize /\ mode' \in {"chars", "data", "ignore"}
    BY <1>0, <1>8, IeeeAssumption DEF Store, StateTypes
  <2>4. StateTypes'
    BY <1>0, <1>8, <2>3, Zenon DEF Store, StateTypes
  <2> QED
    BY <1>0, <2>1, <2>2, <2>4, KeepPorts DEF DeviceTypes
<1> QED
  BY <1>1, <1>2, <1>3, <1>4, <1>5, <1>6, <1>7, <1>8 DEF ListenStep

LEMMA TalkGoTypes ==
  ASSUME NEW from, NEW cond, NEW to \in Labels, NEW d \in BOOLEAN,
         TalkGo(from, cond, to, d), DeviceTypes
  PROVE  DeviceTypes'
  BY SetTypes DEF TalkGo, DeviceTypes, PortTypes

LEMMA TalkTypes == DeviceTypes /\ LineTypes /\ TalkStep => DeviceTypes'
<1> SUFFICES ASSUME DeviceTypes, LineTypes, TalkStep PROVE DeviceTypes'
  OBVIOUS
<1> USE DEF Goto
<1>0. PortTypes /\ IrqTypes /\ StateTypes
  BY DEF DeviceTypes
<1>a. {"ctl", "t3f", "t0", "t1", "t2", "t3", "t3d", "t4", "t4d", "t5", "t5c", "t6", "t6c",
       "t7", "t8", "c1"} \subseteq Labels
  BY DEF Labels, Polls, Long
<1>b. dav \in BOOLEAN /\ TRUE \in BOOLEAN /\ FALSE \in BOOLEAN
  BY <1>0 DEF PortTypes
<1>1. CASE TalkNoBuffer
  <2>1. UNCHANGED irq /\ UNCHANGED state /\ pc' \in Labels /\ ieee488_BusIdle
    BY <1>1 DEF TalkNoBuffer, Labels
  <2> QED
    BY <1>0, <2>1, IdleTypes, KeepIrq, KeepState DEF DeviceTypes
<1>2. CASE TalkLoop
  <2>1. UNCHANGED irq /\ UNCHANGED state /\ pc' \in Labels
    BY <1>2, <1>a DEF TalkLoop
  <2>2. PortTypes'
    BY <1>0, <1>2, Zenon DEF TalkLoop, CtrlPortsTalk, PortTypes, Dirs
  <2> QED
    BY <1>0, <2>1, <2>2, KeepIrq, KeepState DEF DeviceTypes
<1>3. CASE TalkIfc \/ TalkAbort
  <2>1. UNCHANGED ports /\ UNCHANGED state /\ pc' \in Labels
    BY <1>3, <1>a DEF TalkIfc, TalkAbort, TalkReturn
  <2>2. IrqTypes'
    <3>1. CASE TalkIfc
      BY <1>0, <3>1, CheckedIfc DEF TalkIfc, TalkReturn
    <3>2. CASE TalkAbort
      BY <1>0, <3>2, KeepIrq DEF TalkAbort, TalkReturn, irq
    <3> QED
      BY <1>3, <3>1, <3>2
  <2> QED
    BY <1>0, <2>1, <2>2, KeepPorts, KeepState DEF DeviceTypes
<1>4. CASE TalkAbortIdle
  <2>1. UNCHANGED irq /\ UNCHANGED state /\ pc' \in Labels /\ ieee488_BusIdle
    BY <1>4, <1>a DEF TalkAbortIdle, TalkReturn, irq
  <2> QED
    BY <1>0, <2>1, IdleTypes, KeepIrq, KeepState DEF DeviceTypes
<1>5. CASE TalkAbortT5 \/ TalkAbortT6
  <2>1. UNCHANGED irq /\ UNCHANGED state /\ pc' \in Labels
    BY <1>5, <1>a DEF TalkAbortT5, TalkAbortT6, TalkReturn, irq
  <2>2. te' \in Dirs /\ te160' \in Dirs /\ te161' \in Dirs
    BY <1>0, <1>5 DEF TalkAbortT5, TalkAbortT6, DataListen, PortTypes, Dirs
  <2>3. PortTypes'
    BY <1>0, <1>5, <2>2, Zenon DEF TalkAbortT5, TalkAbortT6, DataListen, PortTypes
  <2> QED
    BY <1>0, <2>1, <2>3, KeepIrq, KeepState DEF DeviceTypes
<1>6. CASE TalkByte
  BY <1>6, <1>a, <1>b, TalkGoTypes DEF TalkByte
<1>7. CASE TalkHandshake
  BY <1>7, <1>a, <1>b, TalkGoTypes DEF TalkHandshake
<1>8. CASE DataTalk
  <2>1. UNCHANGED irq /\ UNCHANGED state /\ pc' \in Labels
    BY <1>8, <1>a DEF DataTalk
  <2>2. PortTypes'
    BY <1>0, <1>8, Zenon DEF DataTalk, PortTypes, Dirs
  <2> QED
    BY <1>0, <2>1, <2>2, KeepIrq, KeepState DEF DeviceTypes
<1>11. CASE \E b \in BOOLEAN : TalkFlag(b)
  <2>1. UNCHANGED irq /\ UNCHANGED state /\ pc' \in Labels
    BY <1>11, <1>a DEF TalkFlag
  <2>2. PortTypes'
    BY <1>0, <1>11, Zenon DEF TalkFlag, PortTypes, Dirs
  <2> QED
    BY <1>0, <2>1, <2>2, KeepIrq, KeepState DEF DeviceTypes
<1>12. CASE DataFlagTalk
  <2>1. UNCHANGED irq /\ UNCHANGED state /\ pc' \in Labels
    BY <1>12, <1>a DEF DataFlagTalk
  <2>2. PortTypes'
    BY <1>0, <1>12, Zenon DEF DataFlagTalk, PortTypes, Dirs
  <2> QED
    BY <1>0, <2>1, <2>2, KeepIrq, KeepState DEF DeviceTypes
<1>9. CASE \E b \in BOOLEAN : TalkNext(b)
  <2>1. UNCHANGED ports /\ UNCHANGED irq /\ UNCHANGED state /\ pc' \in Labels
    BY <1>9, <1>a DEF TalkNext
  <2> QED
    BY <1>0, <2>1, KeepPorts, KeepIrq, KeepState DEF DeviceTypes
<1>10. CASE \E b \in BOOLEAN : TalkRefill(b)
  BY <1>10, <1>a, <1>b, TalkGoTypes DEF TalkRefill
<1> QED
  BY <1>1, <1>2, <1>3, <1>4, <1>5, <1>6, <1>7, <1>8, <1>9, <1>10, <1>11,
     <1>12 DEF TalkStep

\* Where the flags and ports stand when the main program is at a label.
Placed == DataFlag /\ DataLines /\ DavLow /\ Turned

\* What Placed is about, besides the label.
placing == <<te, te160, out, dav, IFC, ATN, edge>>

\* A step from a label at which the device does not talk that leaves the
\* ports alone.
LEMMA QuietPlaced ==
  ASSUME Placed, pc \notin Talking \cup {"c1", "c2"}, UNCHANGED placing,
         pc' \notin Sending \cup {"ifcwait", "t3f"}, DeviceTypes
  PROVE  Placed'
  BY DEF Placed, DataFlag, DataLines, DavLow, Turned, placing, DeviceTypes,
         PortTypes, Dirs

\* After ieee488_BusIdle nothing is driven, because the flags cover the ports.
LEMMA IdlePlaced ==
  ASSUME FlagsCover, pc \notin Half, DeviceTypes, ieee488_BusIdle, pc' \notin Sending
  PROVE  Placed'
<1>1. te' = "listen" /\ te160' = "listen"
  BY DEF FlagsCover, Half, ieee488_BusIdle, DataListen, DeviceTypes, PortTypes, Dirs
<1> QED
  BY <1>1 DEF Placed, DataFlag, DataLines, DavLow, Turned

LEMMA CommandPlaced ==
  DeviceTypes /\ FlagsCover /\ Placed /\ CommandStep => Placed'
<1> SUFFICES ASSUME DeviceTypes, FlagsCover, Placed, CommandStep PROVE Placed'
  OBVIOUS
<1> USE DEF At, Goto, Talking, Sending, Half
<1>1. CASE HandleIfc
  <2>1. te' = "listen" /\ te160' = "listen" /\ pc' = "ifcwait"
    BY <1>1 DEF HandleIfc, ieee488_Init
  <2> QED
    BY <2>1 DEF Placed, DataFlag, DataLines, DavLow, Turned
<1>2. CASE HandleAtn \/ IfcWait
  <2>1. /\ UNCHANGED placing /\ pc \in {"main", "ifcwait"}
        /\ pc' \in {"c1", "main"}
    BY <1>2 DEF HandleAtn, IfcWait, EnterCommands, ports, host, lines, placing
  <2> QED
    BY <2>1, QuietPlaced
<1>3. CASE CommandNdac
  <2>1. UNCHANGED placing /\ pc = "c1" /\ pc' = "c2"
    BY <1>3 DEF CommandNdac, SetLines, ports, host, lines, placing
  <2> QED
    BY <2>1 DEF Placed, DataFlag, DataLines, DavLow, Turned, placing, Valid
<1>4. CASE CommandReady
  <2>1. /\ UNCHANGED <<te, dav, IFC, ATN, edge>> /\ te160' = "listen"
        /\ pc = "c2" /\ pc' = "cpoll"
    BY <1>4 DEF CommandReady, DataListen, host, lines
  <2> QED
    BY <2>1 DEF Placed, DataFlag, DataLines, DavLow, Turned, Valid
<1>5. CASE CommandAbort
  <2>1. /\ UNCHANGED host /\ pc = "cpoll" /\ pc' = "main"
        /\ UNCHANGED ports \/ ieee488_BusIdle
    BY <1>5 DEF CommandAbort
  <2> QED
    BY <2>1, QuietPlaced, IdlePlaced DEF placing, host, lines, ports
<1>6. CASE CommandByte
  <2>1. UNCHANGED placing /\ pc = "cpoll" /\ pc' = "caccept"
    BY <1>6 DEF CommandByte, host, lines, placing
  <2> QED
    BY <2>1, QuietPlaced
<1>7. CASE CommandAccepted
  <2>1. UNCHANGED placing /\ pc = "caccept" /\ pc' \in {"exec", "main"}
    BY <1>7 DEF CommandAccepted, ports, host, lines, placing
  <2> QED
    BY <2>1, QuietPlaced
<1>8. CASE Unlisten \/ Untalk
  <2>1. ieee488_BusIdle /\ pc = "exec" /\ pc' \in {"process", "c1"}
    BY <1>8 DEF Unlisten, Untalk
  <2> QED
    BY <2>1, IdlePlaced
<1>9. CASE Process \/ Address \/ Close
  <2>1. UNCHANGED placing /\ pc \in {"process", "exec", "close"} /\ pc' = "c1"
    BY <1>9 DEF Process, Address, Close, ports, host, lines, placing
  <2> QED
    BY <2>1, QuietPlaced
<1>10. CASE Ignore \/ CloseBegin \/ WaitAtn
  <2>1. /\ UNCHANGED placing /\ pc = "exec"
        /\ pc' \in {"c1", "close", "openwait", "secwait"}
    BY <1>10 DEF Ignore, CloseBegin, WaitAtn, Skip, ports, host, lines, placing
  <2> QED
    BY <2>1, QuietPlaced
<1> QED
  BY <1>1, <1>2, <1>3, <1>4, <1>5, <1>6, <1>7, <1>8, <1>9, <1>10
     DEF CommandStep

LEMMA ListenPlaced == DeviceTypes /\ Placed /\ ListenStep => Placed'
<1> SUFFICES ASSUME DeviceTypes, Placed, ListenStep PROVE Placed'
  OBVIOUS
<1>1. CASE RxNdac
  <2>1. /\ UNCHANGED <<te, dav, IFC, ATN, edge>> /\ te160' = "listen"
        /\ pc = "r2" /\ pc' = "rpoll"
    BY <1>1 DEF RxNdac, DataListen, host, lines, At, Goto
  <2> QED
    BY <2>1 DEF Placed, DataFlag, DataLines, DavLow, Turned, Valid, Sending
<1>2. CASE ~RxNdac
  <2> USE DEF At, Goto, SetLines, ports, host, lines, placing
  <2>1. UNCHANGED placing
    BY <1>2 DEF ListenStep, OpenName, OpenIfc, RxAbort, NotAddressed, Skip,
       ListenLoop, RxReady, RxByte, RxTaken, RxEnd, Store
  <2>2. pc \in {"openwait", "secwait", "r1", "rpoll", "racc", "rglitch", "store"}
    BY <1>2 DEF ListenStep, OpenName, OpenIfc, RxAbort, NotAddressed, Skip,
       ListenLoop, RxReady, RxByte, RxTaken, RxEnd, Store
  <2>3. pc' \in {"r1", "c1", "main", "r2", "rglitch", "racc", "store"}
    BY <1>2 DEF ListenStep, OpenName, OpenIfc, RxAbort, NotAddressed, Skip,
       ListenLoop, RxReady, RxByte, RxTaken, RxEnd, Store
  <2> QED
    BY <2>1, <2>2, <2>3, QuietPlaced DEF Talking, Sending
<1> QED
  BY <1>1, <1>2

\* One step of the talk loop that sets DAV and nothing else: DAV goes low only
\* where the data lines are driven, and a label at which it may be low is left
\* for another one, or by releasing it.
LEMMA TalkGoPlaced ==
  ASSUME NEW from, NEW cond, NEW to, NEW d,
         TalkGo(from, cond, to, d), Placed, DeviceTypes,
         to \in Talking \cup {"c1"}, to # "t3f",
         to \in Sending => from \in Sending,
         d \in {dav, TRUE} \/ (from \in Sending /\ to \in Valid),
         d = TRUE \/ to \in Valid \/ (from \notin Valid /\ d = dav)
  PROVE  Placed'
<1>1. /\ UNCHANGED <<te, te160, out, IFC, ATN, edge>>
      /\ dav' = d /\ pc = from /\ pc' = to
  BY DEF TalkGo, SetLines, Goto, At, host, lines
<1>2. DataFlag' /\ DataLines' /\ Turned'
  BY <1>1 DEF Placed, DataFlag, DataLines, Turned, Talking, Sending
<1>3. DavLow'
  BY <1>1 DEF Placed, DataFlag, DavLow
<1> QED
  BY <1>2, <1>3 DEF Placed

LEMMA TalkPlaced ==
  DeviceTypes /\ LineTypes /\ FlagsCover /\ Placed /\ TalkStep => Placed'
<1> SUFFICES ASSUME DeviceTypes, LineTypes, FlagsCover, Placed, TalkStep
             PROVE  Placed'
  OBVIOUS
<1> USE DEF At, Goto, Talking, Sending, Valid, Half
<1>1. CASE TalkNoBuffer \/ TalkAbortIdle
  <2>1. ieee488_BusIdle /\ pc \in {"secwait", "t1", "t3"} /\ pc' = "c1"
    BY <1>1 DEF TalkNoBuffer, TalkAbortIdle, TalkReturn
  <2> QED
    BY <2>1, IdlePlaced
<1>2. CASE TalkLoop
  <2>1. /\ UNCHANGED <<te160, IFC, ATN, edge>> /\ te' = "talk" /\ dav' = TRUE
        /\ pc = "secwait" /\ pc' = "ctl" /\ ATN
    BY <1>2 DEF TalkLoop, CtrlPortsTalk, host, lines
  <2>2. te160 # "talk"
    BY <2>1 DEF Placed, DataFlag
  <2> QED
    BY <2>1, <2>2 DEF Placed, DataFlag, DataLines, DavLow, Turned
<1>3. CASE TalkIfc
  <2>1. /\ UNCHANGED placing /\ pc' = "c1" /\ pc \in Talking /\ IFC # TRUE
    BY <1>3 DEF TalkIfc, TalkReturn, placing, ports, host, lines
  <2> QED
    BY <2>1 DEF Placed, DataFlag, DataLines, DavLow, Turned, placing
<1>4. CASE TalkAbort
  <2>1. /\ UNCHANGED placing /\ pc' = "c1" /\ pc \in {"t2", "t4"}
    BY <1>4 DEF TalkAbort, TalkReturn, placing, ports, host, lines
  <2> QED
    BY <2>1 DEF Placed, DataFlag, DataLines, DavLow, Turned, placing
<1>5. CASE TalkAbortT5
  <2>1. te' = "listen" /\ te160' = "listen" /\ pc' = "c1"
    BY <1>5 DEF TalkAbortT5, DataListen, TalkReturn, FlagsCover, DeviceTypes,
                PortTypes, Dirs
  <2> QED
    BY <2>1 DEF Placed, DataFlag, DataLines, DavLow, Turned
<1>6. CASE TalkAbortT6
  <2>1. /\ UNCHANGED <<te, te160, out, IFC, ATN, edge>> /\ dav' = TRUE
        /\ pc = "t6c" /\ pc' = "c1"
    BY <1>6 DEF TalkAbortT6, TalkReturn, host, lines
  <2> QED
    BY <2>1 DEF Placed, DataFlag, DataLines, DavLow, Turned
<1>7. CASE TalkByte
  BY <1>7, TalkGoPlaced DEF TalkByte
<1>8. CASE DataTalk
  <2>1. /\ UNCHANGED <<te, te160, dav, IFC, ATN, edge>> /\ pc = "t3d"
        /\ \/ te160 = "listen" /\ out' = TRUE /\ pc' = "t3f"
           \/ te160 # "listen" /\ (out = TRUE => out' = TRUE) /\ pc' = "t4"
    BY <1>8 DEF DataTalk, host, lines
  <2>2. te160 \in {"listen", "talk"}
    BY DEF DeviceTypes, PortTypes, Dirs
  <2> QED
    BY <2>1, <2>2 DEF Placed, DataFlag, DataLines, DavLow, Turned
<1>12. CASE \E b \in BOOLEAN : TalkFlag(b)
  <2>1. /\ UNCHANGED <<te, te160, out, dav, IFC, ATN, edge>> /\ pc = "ctl"
        /\ pc' \in {"t0", "c1"}
    BY <1>12 DEF TalkFlag, host, lines
  <2> QED
    BY <2>1 DEF Placed, DataFlag, DataLines, DavLow, Turned
<1>13. CASE DataFlagTalk
  <2>1. /\ UNCHANGED <<te, out, dav, IFC, ATN, edge>> /\ te160' = "talk"
        /\ pc = "t3f" /\ pc' = "t4"
    BY <1>13 DEF DataFlagTalk, host, lines
  <2> QED
    BY <2>1 DEF Placed, DataFlag, DataLines, DavLow, Turned
<1>9. CASE TalkHandshake
  BY <1>9, TalkGoPlaced DEF TalkHandshake
<1>10. CASE \E b \in BOOLEAN : TalkNext(b)
  <2>1. UNCHANGED placing /\ pc = "t7" /\ pc' \in {"t0", "t8"}
    BY <1>10 DEF TalkNext, placing, ports, host, lines
  <2> QED
    BY <2>1 DEF Placed, DataFlag, DataLines, DavLow, Turned, placing
<1>11. CASE \E b \in BOOLEAN : TalkRefill(b)
  BY <1>11, TalkGoPlaced DEF TalkRefill
<1> QED
  BY <1>1, <1>2, <1>3, <1>4, <1>5, <1>6, <1>7, <1>8, <1>9, <1>10, <1>11,
     <1>12, <1>13 DEF TalkStep

\* The interrupt, whenever it comes.
LEMMA InterruptPlaced ==
  DeviceTypes /\ Placed /\ AtnInterrupt => DeviceTypes' /\ Placed'
<1> SUFFICES ASSUME DeviceTypes, Placed, AtnInterrupt
             PROVE  DeviceTypes' /\ Placed'
  OBVIOUS
<1>1. te' = "listen" /\ UNCHANGED <<pc, te160, dav, IFC, ATN>>
  BY DEF AtnInterrupt, lines
<1>2. PortTypes' /\ IrqTypes'
  BY Zenon DEF AtnInterrupt, DeviceTypes, PortTypes, IrqTypes, Dirs
<1>3. StateTypes'
  BY KeepState DEF AtnInterrupt, DeviceTypes
<1> QED
  BY <1>1, <1>2, <1>3
     DEF DeviceTypes, Placed, DataFlag, DataLines, DavLow, Turned

-----------------------------------------------------------------------------
(* The controller.                                                         *)

LEMMA HostDevice == HostStep \/ HostChoice => UNCHANGED <<Device, setting>>
  BY DEF HostStep, HostChoice, Acknowledged, NotPresent, PutByte, CommandTaken,
         ReleaseATN, HostSent, HostReceive, HostTakes, ReleaseIFC, AssertATN,
         HostSend, HostReady, AssertIFC, HostLine, Host

\* ATN falls together with an edge for the interrupt, and IFC rises only when
\* the device is in ieee488_ProcessIFC.
LEMMA HostLines ==
  LineTypes /\ (HostStep \/ HostChoice)
  => /\ LineTypes'
     /\ ATN' = FALSE => edge' = TRUE \/ (ATN = FALSE /\ edge' = edge)
     /\ IFC' = TRUE => IFC = TRUE \/ pc = "ifcwait"
<1> SUFFICES ASSUME LineTypes, HostStep \/ HostChoice
             PROVE  /\ LineTypes'
                    /\ ATN' = FALSE => edge' = TRUE \/ (ATN = FALSE /\ edge' = edge)
                    /\ IFC' = TRUE => IFC = TRUE \/ pc = "ifcwait"
  OBVIOUS
<1>1. CASE UNCHANGED <<edge, lines>>
  BY <1>1 DEF LineTypes, lines
<1>2. CASE \E c \in Cycles : AssertATN(c)
  BY <1>2, Zenon DEF AssertATN, LineTypes
<1>3. CASE NotPresent
  BY <1>3, Zenon DEF NotPresent, LineTypes
<1>4. CASE PutByte
  BY <1>4, Zenon DEF PutByte, LineTypes
<1>5. CASE CommandTaken \/ HostSent
  BY <1>5, Zenon DEF CommandTaken, HostSent, LineTypes
<1>6. CASE ReleaseATN
  BY <1>6, Zenon DEF ReleaseATN, LineTypes
<1>7. CASE HostReceive \/ HostReady \/ HostTakes
  BY <1>7, Zenon DEF HostReceive, HostReady, HostTakes, HostLine, LineTypes
<1>8. CASE \E b \in BOOLEAN : AssertIFC(b)
  BY <1>8, Zenon DEF AssertIFC, LineTypes
<1>9. CASE ReleaseIFC
  BY <1>9, Zenon DEF ReleaseIFC, LineTypes
<1> QED
  BY <1>1, <1>2, <1>3, <1>4, <1>5, <1>6, <1>7, <1>8, <1>9
     DEF HostStep, HostChoice, Acknowledged, HostSend

CyclePlaces == {"ack", "wait", "dav", "rel"}
Places == {"idle", "hs0", "hsw", "hsd", "hl0", "hl1", "hl2", "hl3", "ifc"}
          \cup CyclePlaces

\* The controller's place, cycle and counters when it is not at a point that
\* CycleShape is about.
LEMMA HostElsewhere ==
  ASSUME HostTypes, LineTypes', setting' = setting,
         cpc' \in Places \ (CyclePlaces \cup {"hsw", "hsd"}),
         cyc' \in Cycles \cup {<<>>}, k' \in 1 .. 2,
         role' \in {"none", "listener", "talker"}, sent' \in 0 .. MaxSent
  PROVE  HostTypes' /\ CycleShape'
  BY DEF HostTypes, CycleShape, Places, CyclePlaces

LEMMA HostShape ==
  HostTypes /\ CycleShape /\ (HostStep \/ HostChoice) => HostTypes' /\ CycleShape'
<1> SUFFICES ASSUME HostTypes, CycleShape, HostStep \/ HostChoice
             PROVE  HostTypes' /\ CycleShape'
  OBVIOUS
<1> USE DEF Host
<1>1. LineTypes' /\ setting' = setting
  BY HostLines, HostDevice DEF HostTypes
<1>2. /\ cyc \in Cycles \cup {<<>>} /\ k \in 1 .. 2
      /\ role \in {"none", "listener", "talker"} /\ sent \in 0 .. MaxSent
  BY DEF HostTypes
<1>3. CASE \E c \in Cycles : AssertATN(c)
  <2>1. PICK c \in Cycles : AssertATN(c)
    BY <1>3
  <2>2. cyc' = c /\ k' = 1 /\ cpc' = "ack" /\ role' = role /\ sent' = sent
    BY <2>1 DEF AssertATN
  <2>3. Len(c) \in 1 .. 2
    BY CycleFacts
  <2>4. CycleShape'
    BY <2>2, <2>3 DEF CycleShape
  <2>5. HostTypes'
    BY <1>1, <1>2, <2>2 DEF HostTypes
  <2> QED
    BY <2>4, <2>5
<1>4. CASE Acknowledged
  <2>1. UNCHANGED <<cyc, k, role, sent>> /\ cpc = "ack" /\ cpc' = "wait"
    BY <1>4 DEF Acknowledged
  <2> QED
    BY <1>1, <1>2, <2>1 DEF HostTypes, CycleShape
<1>5. CASE NotPresent \/ HostReceive \/ HostReady \/ HostTakes
  <2>1. /\ UNCHANGED <<cyc, k, role, sent>>
        /\ cpc' \in {"idle", "hl0", "hl1", "hl2", "hl3"}
    BY <1>5 DEF NotPresent, HostReceive, HostReady, HostTakes, HostLine
  <2> QED
    BY <1>1, <1>2, <2>1, HostElsewhere DEF Places, CyclePlaces
<1>6. CASE PutByte
  <2>1. /\ UNCHANGED <<cyc, k, role, sent>>
        /\ (cpc = "wait" /\ cpc' = "dav") \/ (cpc = "hsw" /\ cpc' = "hsd")
    BY <1>6 DEF PutByte
  <2>2. CycleShape'
    BY <2>1 DEF CycleShape, Counted
  <2>3. HostTypes'
    BY <1>1, <1>2, <2>1 DEF HostTypes
  <2> QED
    BY <2>2, <2>3
<1>7. CASE CommandTaken
  <2>1. cyc \in Cycles /\ k <= Len(cyc) /\ cyc' = cyc
    BY <1>7 DEF CycleShape, CommandTaken
  <2>2. Len(cyc) \in 1 .. 2
    BY <2>1, CycleFacts
  <2>3. role' \in {"none", "listener", "talker"} /\ sent' \in 0 .. MaxSent
    BY <1>2, <1>7, IeeeAssumption DEF CommandTaken, RoleAfter
  <2>4. cpc' \in {"rel", "ack"} /\ k' \in 1 .. 2 /\ k' <= Len(cyc)
    <3>1. /\ cpc' = IF k = Len(cyc) THEN "rel" ELSE "ack"
          /\ k' = IF k = Len(cyc) THEN k ELSE k + 1
      BY <1>7 DEF CommandTaken
    <3>2. CASE k = Len(cyc)
      <4>1. k' = k /\ cpc' = "rel"
        BY <3>1, <3>2
      <4> QED
        BY <1>2, <2>1, <4>1
    <3>3. CASE k # Len(cyc)
      <4>1. k' = k + 1 /\ cpc' = "ack"
        BY <3>1, <3>3
      <4>2. \A n \in 1 .. 2 : \A j \in 1 .. 2 :
               j <= n /\ j # n => j + 1 \in 1 .. 2 /\ j + 1 <= n
        OBVIOUS
      <4>3. k + 1 \in 1 .. 2 /\ k + 1 <= Len(cyc)
        BY <1>2, <2>1, <2>2, <3>3, <4>2, Zenon
      <4> QED
        BY <4>1, <4>3, Zenon
    <3> QED
      BY <3>2, <3>3
  <2>5. CycleShape'
    BY <2>1, <2>4 DEF CycleShape
  <2>6. HostTypes'
    BY <1>1, <2>1, <2>3, <2>4 DEF HostTypes
  <2> QED
    BY <2>5, <2>6
<1>8. CASE ReleaseATN
  <2>1. UNCHANGED <<cyc, k, role, sent>> /\ cpc' = Follows
    BY <1>8 DEF ReleaseATN
  <2>2. Follows \in {"hs0", "hl0", "idle"}
    BY DEF Follows
  <2> QED
    BY <1>1, <1>2, <2>1, <2>2, HostElsewhere DEF Places, CyclePlaces
<1>9. CASE HostSend
  <2>1. UNCHANGED <<cyc, k, role, sent>> /\ cpc' = "hsw" /\ (Counted => sent < MaxSent)
    BY <1>9 DEF HostSend
  <2>2. CycleShape'
    BY <2>1 DEF CycleShape, Counted
  <2>3. HostTypes'
    BY <1>1, <1>2, <2>1 DEF HostTypes
  <2> QED
    BY <2>2, <2>3
<1>10. CASE HostSent
  <2>1. UNCHANGED <<cyc, k, role>> /\ cpc = "hsd" /\ cpc' = "hs0"
    BY <1>10 DEF HostSent
  <2>2. sent' \in 0 .. MaxSent
    BY <1>2, <1>10, <2>1, IeeeAssumption DEF HostSent, CycleShape
  <2> QED
    BY <1>1, <1>2, <2>1, <2>2, HostElsewhere DEF Places, CyclePlaces
<1>11. CASE \E b \in BOOLEAN : AssertIFC(b)
  <2>1. /\ cyc' = <<>> /\ k' = 1 /\ cpc' = "ifc" /\ role' = "none" /\ sent' = 0
    BY <1>11 DEF AssertIFC
  <2>2. sent' \in 0 .. MaxSent
    BY <2>1, IeeeAssumption
  <2> QED
    BY <1>1, <2>1, <2>2, HostElsewhere DEF Places, CyclePlaces
<1>12. CASE ReleaseIFC
  <2>1. UNCHANGED <<cyc, k, role, sent>> /\ cpc' \in {"idle", "ifc"}
    BY <1>12 DEF ReleaseIFC
  <2> QED
    BY <1>1, <1>2, <2>1, HostElsewhere DEF Places, CyclePlaces
<1> QED
  BY <1>3, <1>4, <1>5, <1>6, <1>7, <1>8, <1>9, <1>10, <1>11, <1>12
     DEF HostStep, HostChoice

LEMMA HostInv == BusInv /\ (HostStep \/ HostChoice) => BusInv'
<1> SUFFICES ASSUME BusInv, HostStep \/ HostChoice PROVE BusInv'
  OBVIOUS
<1>1. HostTypes /\ DeviceTypes /\ CycleShape /\ LineTypes /\ FlagsCover /\ owed \in Int
  BY TypeParts DEF BusInv, DeviceTypes, HostTypes
<1>2. HostTypes' /\ CycleShape'
  BY <1>1, HostShape
<1>3. UNCHANGED <<pc, ports, irq, state>>
  BY HostDevice DEF Device
<1>4. DeviceTypes'
  BY <1>1, <1>3, KeepPorts, KeepIrq, KeepState DEF DeviceTypes
<1>5. owed' \in Int
  <2>1. owed' \in {owed, owed + 1, 0}
    BY DEF HostStep, HostChoice, Acknowledged, NotPresent, PutByte,
       CommandTaken, ReleaseATN, HostSent, HostReceive, HostTakes, ReleaseIFC,
       AssertATN, HostSend, HostReady, AssertIFC
  <2> QED
    BY <1>1, <2>1
<1>6. FlagsCover'
  BY <1>1, HostFlags
<1>7. DataFlag' /\ DataLines'
  BY <1>3 DEF BusInv, DataFlag, DataLines, ports
<1>8. DavLow' /\ Turned'
  <2>1. /\ ATN' = FALSE => edge' = TRUE \/ (ATN = FALSE /\ edge' = edge)
        /\ IFC' = TRUE => IFC = TRUE \/ pc = "ifcwait"
    BY <1>1, HostLines
  <2>2. UNCHANGED <<te, te160, dav, pc>>
    BY <1>3 DEF ports
  <2>3. edge \in BOOLEAN /\ TRUE # FALSE
    BY <1>1 DEF LineTypes
  <2>4. Turned'
    BY <2>1, <2>2, <2>3 DEF BusInv, Turned
  <2>5. DavLow'
    BY <2>1, <2>2 DEF BusInv, DavLow, Turned
  <2> QED
    BY <2>4, <2>5
<1>9. TypeOK'
  <2>1. (/\ pc \in Labels /\ owed \in Int
         /\ PortTypes /\ IrqTypes /\ StateTypes /\ HostTypes)'
    BY <1>2, <1>4, <1>5 DEF DeviceTypes
  <2> QED
    BY <2>1, TypeParts, PTL
<1> QED
  BY <1>2, <1>6, <1>7, <1>8, <1>9 DEF BusInv

\* The device's steps and the interrupt leave the controller alone.
LEMMA DeviceHost ==
  DeviceStep \/ AtnInterrupt
  => /\ UNCHANGED <<cpc, cyc, k, lines, role, sent, setting>>
     /\ edge' \in {edge, FALSE}
     /\ owed' \in {owed, owed - 1}
<1> USE DEF Goto, host, Skip, SetLines
<1>1. CommandStep => UNCHANGED <<host, owed>>
  BY DEF CommandStep, HandleIfc, HandleAtn, IfcWait, EnterCommands, CommandNdac,
     CommandReady, CommandAbort, CommandByte, CommandAccepted, Unlisten, Untalk,
     Process, Address, Close, Ignore, CloseBegin, WaitAtn
<1>2. ListenStep => UNCHANGED <<host, owed>>
  BY DEF ListenStep, OpenName, OpenIfc, RxAbort, NotAddressed, ListenLoop,
     RxReady, RxByte, RxTaken, RxEnd, RxNdac, Store
<1>3. TalkStep => UNCHANGED host /\ owed' \in {owed, owed - 1}
  BY DEF TalkStep, TalkNoBuffer, TalkLoop, TalkFlag, DataFlagTalk, TalkIfc, TalkAbort, TalkAbortIdle,
     TalkAbortT5, TalkAbortT6, TalkByte, TalkHandshake, DataTalk, TalkNext,
     TalkRefill, TalkGo, TalkReturn
<1>4. AtnInterrupt => /\ UNCHANGED <<cpc, cyc, k, lines, role, sent, setting, owed>>
                      /\ edge' = FALSE
  BY DEF AtnInterrupt
<1> QED
  BY <1>1, <1>2, <1>3, <1>4 DEF DeviceStep

LEMMA DeviceStepInv == BusInv /\ (DeviceStep \/ AtnInterrupt) => BusInv'
<1> SUFFICES ASSUME BusInv, DeviceStep \/ AtnInterrupt PROVE BusInv'
  OBVIOUS
<1>1. /\ HostTypes /\ DeviceTypes /\ CycleShape /\ LineTypes /\ FlagsCover
      /\ owed \in Int /\ Placed
  BY TypeParts DEF BusInv, DeviceTypes, HostTypes, Placed
<1>2. DeviceTypes' /\ Placed'
  BY <1>1, CommandTypes, ListenTypes, TalkTypes, CommandPlaced, ListenPlaced,
     TalkPlaced, InterruptPlaced DEF DeviceStep
<1>3. FlagsCover'
  BY <1>1, InterruptFlags, CommandFlags, ListenFlags, TalkFlags DEF DeviceStep
<1>4. /\ UNCHANGED <<cpc, cyc, k, lines, role, sent, setting>>
      /\ edge' \in {edge, FALSE} /\ owed' \in {owed, owed - 1}
  BY DeviceHost
<1>5. HostTypes'
  <2>1. LineTypes'
    BY <1>1, <1>4, Zenon DEF LineTypes, lines
  <2> QED
    BY <1>1, <1>4, <2>1 DEF HostTypes
<1>6. CycleShape'
  BY <1>1, <1>4 DEF CycleShape, Counted
<1>7. TypeOK'
  <2>1. (/\ pc \in Labels /\ owed \in Int
         /\ PortTypes /\ IrqTypes /\ StateTypes /\ HostTypes)'
    BY <1>1, <1>2, <1>4, <1>5 DEF DeviceTypes
  <2> QED
    BY <2>1, TypeParts, PTL
<1> QED
  BY <1>2, <1>3, <1>6, <1>7 DEF BusInv, Placed

\* What the invariant is for.
LEMMA BusInvReleases == BusInv => BusReleased
<1> SUFFICES ASSUME BusInv PROVE DataDriven /\ AtnReleasesBus
  BY DEF BusReleased, BusInv
<1>1. PortTypes /\ LineTypes
  BY TypeParts DEF BusInv, HostTypes
<1>2. DataDriven
  <2> SUFFICES ASSUME ~busDAV, cDAV, IFC PROVE out /\ te = "talk"
    BY DEF DataDriven
  <2>1. te = "talk" /\ ~dav
    BY <1>1 DEF busDAV, PortTypes, Dirs
  <2>2. dav = FALSE /\ IFC = TRUE
    BY <1>1, <2>1, Zenon DEF PortTypes, LineTypes
  <2>3. out = TRUE
    BY <2>1, <2>2 DEF BusInv, DavLow, DataLines
  <2> QED
    BY <2>1, <2>3
<1>3. AtnReleasesBus
  <2> SUFFICES ASSUME pc \in {"main", "cpoll", "caccept"}, ~ATN, ~edge, IFC
               PROVE  te = "listen" /\ ~out
    BY DEF AtnReleasesBus
  <2>1. ATN = FALSE /\ edge = FALSE
    BY <1>1, Zenon DEF LineTypes
  <2>2. te = "listen"
    BY <2>1 DEF BusInv, Turned
  <2>3. te160 # "talk"
    BY DEF BusInv, DataFlag, Talking, Sending
  <2>4. out # TRUE
    BY <2>3 DEF BusInv, FlagsCover
  <2> QED
    BY <2>2, <2>4, <1>1, Zenon DEF PortTypes
<1> QED
  BY <1>2, <1>3

\* BusInv holds at the start, and every step keeps it.
LEMMA InitBus == Init => BusInv
<1> SUFFICES ASSUME Init PROVE BusInv
  OBVIOUS
<1>1. PortTypes /\ IrqTypes /\ LineTypes
  BY Zenon DEF Init, PortTypes, IrqTypes, LineTypes, Dirs
<1>2. 0 \in 0 .. CmdSize /\ 0 \in 0 .. MaxSent /\ 0 \in Int /\ 1 \in 1 .. 2
  BY IeeeAssumption
<1>3. StateTypes
  BY <1>2, Zenon DEF Init, StateTypes, Commands, Unaddressed
<1>4. HostTypes
  BY <1>1, <1>2 DEF Init, HostTypes
<1>5. TypeOK
  BY <1>1, <1>2, <1>3, <1>4, TypeParts DEF Init, Labels
<1>6. FlagsCover /\ DataFlag /\ DataLines /\ DavLow /\ Turned /\ CycleShape
  BY DEF Init, FlagsCover, DataFlag, DataLines, DavLow, Turned, CycleShape,
         Sending
<1> QED
  BY <1>5, <1>6 DEF BusInv

LEMMA BusStep == BusInv /\ [Next]_vars => BusInv'
<1> SUFFICES ASSUME BusInv, [Next]_vars PROVE BusInv'
  OBVIOUS
<1>1. CASE Next
  BY <1>1, DeviceStepInv, HostInv DEF Next
<1>2. CASE UNCHANGED vars
  <2>1. /\ TypeOK' /\ FlagsCover' /\ DataFlag' /\ DataLines' /\ DavLow' /\ Turned'
        /\ CycleShape'
    BY <1>2 DEF BusInv, TypeOK, FlagsCover, DataFlag, DataLines, DavLow,
       Turned, CycleShape, Counted, vars, ports, irq, state, host, lines
  <2> QED
    BY <2>1 DEF BusInv
<1> QED
  BY <1>1, <1>2

\* At every moment, whatever the interrupt, the controller and a slow main
\* loop do: the state keeps its types, while the device's DAV is low its data
\* lines are outputs and its drivers point to the bus, and with ATN low and
\* noticed it drives neither.
THEOREM BusReleasedHolds == Spec => []BusReleased
  BY InitBus, BusStep, BusInvReleases, PTL DEF Spec

-----------------------------------------------------------------------------
(* The device is what the controller has made of it.  The controller       *)
(* changes a role when a command byte is taken, the device when it         *)
(* executes it, and an ATN that comes in between or during a long call is  *)
(* only remembered in ATN_received.  The invariant says where the two can  *)
(* be at the same time, by the lines: IFC low, ATN low and noticed but not *)
(* yet served, ATN low and served, and ATN high.                           *)

\* Labels of ieee488_ListenLoop, and of the execution of a command.
Listening == {"r1", "r2", "rpoll", "rglitch", "racc", "store"}
Executing == {"exec", "process", "close", "secwait", "openwait"}
Addressed == ListenActive = TRUE \/ TalkingDevice = TRUE

\* The lines as the controller drives them, by its place.
LineShape ==
  /\ IFC = FALSE <=> cpc = "ifc"
  /\ cDAV = FALSE <=> cpc \in {"dav", "hsd"}
  /\ IFC = TRUE => (ATN = FALSE <=> cpc \in CyclePlaces)
  /\ cpc \in CyclePlaces \cup {"hs0", "hsw", "hsd"} => cNRFD = TRUE /\ cNDAC = TRUE
  /\ cpc \in {"hl0", "hl2", "hl3"} => cNRFD = FALSE
  /\ cpc \in {"hl0", "hl1", "hl2"} => cNDAC = FALSE
  /\ cpc = "hl1" => cNRFD = TRUE
  /\ cpc = "hl3" => cNDAC = TRUE
  /\ cpc = "rel" => k = Len(cyc)
  /\ cpc = "ifc" => role = "none"

\* The roles the controller gives in a cycle: who is addressed gets only the
\* cycle that ends it, and has it before the second byte.
RoleCycle ==
  cpc \in CyclePlaces =>
    IF k = 2 \/ cpc = "rel"
    THEN /\ role = "listener" => cyc[1] = "LISTEN"
         /\ role = "talker" => cyc[1] = "TALK"
    ELSE /\ role = "listener" => cyc[1] = "UNLISTEN"
         /\ role = "talker" => cyc[1] = "UNTALK"

\* An interrupt that is due: a cycle has just begun.
EdgeShape ==
  edge = TRUE =>
    /\ pc \notin {"cpoll", "caccept", "exec", "secwait", "openwait"}
    /\ IFC = TRUE /\ ATN = FALSE => cpc = "ack" /\ k = 1
    /\ IFC = TRUE /\ ATN = TRUE => pc = "ifcwait" /\ cpc = "idle"

\* IFC is noticed only while it is low, and forgets the addresses.
IfcShape ==
  /\ IFCreceived = TRUE => IFC = FALSE
  /\ pc = "ifcwait" => IFCreceived = FALSE /\ ~Addressed

\* What the main program knows at a label.  A data byte is latched only from a
\* talker's own DAV, with IFC low, and dropped at the next label.
DeviceShape ==
  /\ pc \in Listening \cup Executing => te = "listen"
  /\ pc = "caccept" => \/ te = "listen" /\ cmd # "byte"
                       \/ te = "talk" /\ dav = FALSE /\ IFC = FALSE /\ edge = FALSE
  /\ pc = "exec" => cmd # "byte"
  /\ pc = "process" => cmd = "UNLISTEN"
  /\ pc = "close" => cmd \in {"CLOSE", "CLOSE15"} /\ ListenActive = TRUE
  /\ pc = "secwait" => cmd \in {"DATA", "DATA15"}
  /\ pc = "openwait" => cmd \in {"OPEN", "OPEN15"}
  /\ pc \in {"rglitch", "racc", "store"} => nrfd = FALSE
  /\ ~(ListenActive = TRUE /\ TalkingDevice = TRUE)

\* A slow main loop: the controller goes on with a cycle because
\* ieee488_BusIdle undid the acknowledge; an addressed device does not call it.
Late ==
  /\ Delays # {} /\ pc = "main" /\ nrfd = TRUE
  /\ ndac = TRUE => ~Addressed
  /\ \/ cpc = "dav" /\ k = 1
     \/ cpc = "rel" /\ k = 1 /\ ndac = TRUE
     \/ cpc = "ack" /\ k = 2 /\ ndac = TRUE

\* ATN is low, the interrupt has run and the command loop has not begun: the
\* controller waits, held by NRFD wherever it could go on.
Noticed ==
  IFC = TRUE /\ ATN = FALSE /\ edge = FALSE /\ ATN_received = TRUE =>
    /\ (cpc \in {"ack", "wait"} /\ k = 1) \/ Late
    /\ pc \notin {"caccept", "exec", "secwait", "openwait"}
    /\ pc \in Talking \cup {"close", "process", "store", "ifcwait"} => nrfd = FALSE
    /\ pc \in Talking => ndac = TRUE
    /\ cpc = "wait" /\ pc \in {"c2", "cpoll"} => ndac = FALSE
    /\ cpc = "wait" /\ pc = "main" /\ nrfd = TRUE /\ ndac = TRUE => ~Addressed

\* ATN is low and the command loop runs: byte by byte with the controller.
Commanded ==
  IFC = TRUE /\ ATN = FALSE /\ edge = FALSE /\ ATN_received = FALSE =>
    /\ \/ pc \in {"c1", "c2", "cpoll"}
       \/ pc = "caccept" /\ cpc \in {"ack", "dav", "rel"}
       \/ pc = "exec" /\ cpc \in {"ack", "rel"}
       \/ pc \in {"process", "close", "secwait", "openwait"} /\ cpc = "rel"
    /\ pc \in {"c1", "c2"} /\ cpc = "dav" => Delays # {}
    /\ pc \in {"c2", "cpoll"} => ndac = FALSE
    /\ pc \in {"caccept"} \cup Executing =>
         IF cpc = "ack" THEN k = 2 /\ cmd = cyc[1] ELSE cmd = cyc[k]

\* ATN is high: which loop the device can be in while the controller sends,
\* receives or rests.
Released ==
  IFC = TRUE /\ ATN = TRUE =>
    /\ ATN_received = TRUE => /\ cpc = "idle"
                              /\ pc = "ifcwait" \/ (Delays # {} /\ pc = "main")
    /\ pc \notin {"caccept", "exec"}
    /\ pc \in {"process", "close", "ifcwait"} => cpc = "idle"
    /\ cpc = "hsd" => pc \in {"main", "racc", "rglitch", "rpoll"}
    /\ cpc = "hsw" => pc \in {"main", "r1", "r2", "rpoll", "store"}
    /\ cpc = "hs0" => pc \notin Talking
    /\ pc \in {"secwait", "openwait"} =>
         /\ cpc \in {"hs0", "hl0", "idle"}
         /\ role = "talker" => cpc = "hl0"
         /\ role = "listener" => cpc = "hs0"

\* The command that the controller has completed and the device has still to
\* execute, and what it will be then.
Pending ==
  IF pc \in {"exec", "process"} \/ (pc = "caccept" /\ cpc # "dav") THEN cmd ELSE "none"
Listens ==
  IF Pending \in {"LISTEN", "TALK", "UNLISTEN"} THEN Pending = "LISTEN"
  ELSE ListenActive = TRUE
Talks ==
  IF Pending \in {"LISTEN", "TALK", "UNTALK"} THEN Pending = "TALK"
  ELSE TalkingDevice = TRUE

\* The device claims no role it was not given; if the main loop is quick it has
\* the role it was given.
Roles ==
  IFC = TRUE =>
    /\ Listens => role = "listener"
    /\ Talks => role = "talker"
    /\ Delays = {} => /\ role = "listener" => Listens
                      /\ role = "talker" => Talks

\* The parts that a step of the device can disturb, and all.
DeviceRoles ==
  IfcShape /\ DeviceShape /\ Noticed /\ Commanded /\ Released /\ Roles
RoleInv == LineShape /\ RoleCycle /\ EdgeShape /\ DeviceRoles

\* What the controller sends in a cycle.
CycleWords ==
  cpc \in CyclePlaces =>
    \/ Len(cyc) = 1 /\ k = 1 /\ cyc[1] \in Unaddressed
    \/ /\ Len(cyc) = 2 /\ k \in {1, 2}
       /\ \/ cyc[1] \in {"LISTEN", "OTHER_LISTEN"} /\ cyc[2] \in Secondaries
          \/ cyc[1] \in {"TALK", "OTHER_TALK"} /\ cyc[2] \in {"DATA", "DATA15"}

\* The types as the lemmas below use them.
Known ==
  /\ PortTypes /\ IrqTypes /\ StateTypes /\ LineTypes
  /\ DavLow /\ Turned /\ FlagsCover /\ CycleWords

\* The bytes of a cycle of the controller.
LEMMA CyclesKnown ==
  ASSUME NEW c \in Cycles
  PROVE  \/ Len(c) = 1 /\ c[1] \in Unaddressed
         \/ Len(c) = 2 /\ c[1] \in {"LISTEN", "OTHER_LISTEN"} /\ c[2] \in Secondaries
         \/ Len(c) = 2 /\ c[1] \in {"TALK", "OTHER_TALK"} /\ c[2] \in {"DATA", "DATA15"}
<1>1. CASE \E x \in Unaddressed : c = <<x>>
  BY <1>1
<1>2. CASE c \in {"LISTEN", "OTHER_LISTEN"} \X Secondaries
  BY <1>2
<1>3. CASE c \in {"TALK", "OTHER_TALK"} \X {"DATA", "DATA15"}
  BY <1>3
<1> QED
  BY <1>1, <1>2, <1>3 DEF Cycles

\* BusInv gives the types.
LEMMA BusKnown == BusInv => Known /\ HostTypes /\ CycleShape
<1> SUFFICES ASSUME BusInv PROVE Known /\ HostTypes /\ CycleShape
  OBVIOUS
<1>1. HostTypes /\ CycleShape
  BY TypeParts DEF BusInv
<1>2. CycleWords
  <2> SUFFICES ASSUME cpc \in CyclePlaces
               PROVE  \/ Len(cyc) = 1 /\ k = 1 /\ cyc[1] \in Unaddressed
                      \/ /\ Len(cyc) = 2 /\ k \in {1, 2}
                         /\ \/ cyc[1] \in {"LISTEN", "OTHER_LISTEN"} /\ cyc[2] \in Secondaries
                            \/ cyc[1] \in {"TALK", "OTHER_TALK"} /\ cyc[2] \in {"DATA", "DATA15"}
    BY DEF CycleWords
  <2>1. cyc \in Cycles /\ k \in 1 .. 2 /\ k <= Len(cyc)
    BY <1>1 DEF CycleShape, HostTypes, CyclePlaces
  <2> QED
    BY <2>1, CyclesKnown
<1> QED
  BY <1>1, <1>2, TypeParts DEF BusInv, Known, HostTypes

\* A step of the main program: no interrupt is due and the controller rests.
Main ==
  /\ edge = FALSE /\ edge' = FALSE
  /\ UNCHANGED <<cpc, cyc, k, ATN, IFC, cDAV, cNRFD, cNDAC, role, sent, setting>>

\* Every step of the main program is one in this sense.
LEMMA MainStep == Known /\ DeviceStep => Main
<1> SUFFICES ASSUME Known, DeviceStep PROVE Main
  OBVIOUS
<1>1. edge # TRUE /\ edge' = edge
  BY DEF DeviceStep, Goto, host, Skip, SetLines, At, CommandStep, HandleIfc,
     HandleAtn, IfcWait, EnterCommands, CommandNdac, CommandReady, CommandAbort,
     CommandByte, CommandAccepted, Unlisten, Untalk, Process, Address, Close,
     Ignore, CloseBegin, WaitAtn, ListenStep, OpenName, OpenIfc, RxAbort,
     NotAddressed, ListenLoop, RxReady, RxByte, RxTaken, RxEnd, RxNdac, Store,
     TalkStep, TalkNoBuffer, TalkLoop, TalkFlag, DataFlagTalk, TalkIfc, TalkAbort, TalkAbortIdle,
     TalkAbortT5, TalkAbortT6, TalkByte, TalkHandshake, DataTalk, TalkNext,
     TalkRefill, TalkGo, TalkReturn
<1>2. edge = FALSE
  BY <1>1 DEF Known, LineTypes
<1> QED
  BY <1>1, <1>2, DeviceHost DEF Main, lines

\* The controller's part of the invariant does not change then.
LEMMA MainKeeps == LineShape /\ RoleCycle /\ Main => LineShape' /\ RoleCycle' /\ EdgeShape'
  BY DEF LineShape, RoleCycle, EdgeShape, Main

\* handle_ieee488 keeps the device in step with the controller.
LEMMA CommandRoles ==
  Known /\ RoleInv /\ Main /\ CommandStep => DeviceRoles'
<1> SUFFICES ASSUME Known, RoleInv, Main, CommandStep PROVE DeviceRoles'
  OBVIOUS
<1> USE DEF RoleInv, DeviceRoles, IfcShape, DeviceShape, Noticed, Commanded,
            Released, Roles, Listens, Talks, Pending, Late, Addressed, Listening,
            Executing, Talking, Sending, Delays, Main, LineShape, Known,
            PortTypes, IrqTypes, StateTypes, LineTypes, At, Goto, Skip, SetLines, CyclePlaces,
            CycleWords, Unaddressed, Secondaries
<1>1. CASE HandleIfc
  BY <1>1 DEF HandleIfc, ieee488_Init
<1>2. CASE HandleAtn
  BY <1>2 DEF HandleAtn, EnterCommands, ports, state
<1>3. CASE IfcWait
  BY <1>3 DEF IfcWait, EnterCommands, ports, state
<1>4. CASE CommandNdac
  BY <1>4 DEF CommandNdac, irq, state
<1>5. CASE CommandReady
  BY <1>5 DEF CommandReady, irq, state
<1>6. CASE CommandAbort
  BY <1>6 DEF CommandAbort, DAV, Aborted, CheckIFC, ieee488_BusIdle, ports, state
<1>7. CASE CommandByte
  BY <1>7 DEF CommandByte, DAV, busData, RoleCycle, DavLow, Valid, Dirs, irq
<1>8. CASE CommandAccepted
  BY <1>8 DEF CommandAccepted, DAV, Turned, Aborted, CheckIFC, irq, ports, state
<1>9. CASE Unlisten
  BY <1>9 DEF Unlisten, ieee488_BusIdle, irq, state
<1>10. CASE Process
  BY <1>10 DEF Process, ports, irq
<1>11. CASE Untalk
  BY <1>11 DEF Untalk, ieee488_BusIdle, irq
<1>12. CASE Address
  BY <1>12 DEF Address, ports, irq
<1>13. CASE Ignore
  BY <1>13 DEF Ignore, ports, irq, state
<1>14. CASE CloseBegin
  BY <1>14 DEF CloseBegin, ports, irq, state
<1>15. CASE Close
  BY <1>15 DEF Close, ports, irq
<1>16. CASE WaitAtn
  BY <1>16 DEF WaitAtn, ports, irq, state
<1> QED
  BY <1>1, <1>2, <1>3, <1>4, <1>5, <1>6, <1>7, <1>8, <1>9, <1>10, <1>11,
     <1>12, <1>13, <1>14, <1>15, <1>16 DEF CommandStep

\* So does ieee488_ListenLoop.
LEMMA ListenRoles ==
  Known /\ RoleInv /\ Main /\ ListenStep => DeviceRoles'
<1> SUFFICES ASSUME Known, RoleInv, Main, ListenStep PROVE DeviceRoles'
  OBVIOUS
<1> USE DEF RoleInv, DeviceRoles, IfcShape, DeviceShape, Noticed, Commanded,
            Released, Roles, Listens, Talks, Pending, Late, Addressed, Listening,
            Executing, Talking, Sending, Delays, Main, LineShape, Known,
            PortTypes, IrqTypes, StateTypes, LineTypes, At, Goto, Skip, SetLines,
            CyclePlaces
<1>1. CASE OpenName
  BY <1>1 DEF OpenName, ports, irq
<1>2. CASE OpenIfc
  BY <1>2 DEF OpenIfc, CheckIFC, ports, state
<1>3. CASE NotAddressed
  BY <1>3 DEF NotAddressed, ports, irq, state
<1>4. CASE \E b \in BOOLEAN : ListenLoop(b)
  BY <1>4 DEF ListenLoop, ports, irq
<1>5. CASE RxReady
  BY <1>5 DEF RxReady, irq, state
<1>6. CASE RxNdac
  BY <1>6 DEF RxNdac, irq, state
<1>7. CASE RxAbort
  BY <1>7 DEF RxAbort, CheckIFC, ports, state
<1>8. CASE RxByte
  BY <1>8 DEF RxByte, DAV, irq, state
<1>9. CASE RxTaken
  BY <1>9 DEF RxTaken, DAV, irq, state
<1>10. CASE RxEnd
  BY <1>10 DEF RxEnd, DAV, irq, state
<1>11. CASE \E b \in BOOLEAN : Store(b)
  BY <1>11 DEF Store, CheckIFC, ports
<1> QED
  BY <1>1, <1>2, <1>3, <1>4, <1>5, <1>6, <1>7, <1>8, <1>9, <1>10, <1>11
     DEF ListenStep

\* So does ieee488_TalkLoop.
LEMMA TalkRoles ==
  Known /\ RoleInv /\ Main /\ TalkStep => DeviceRoles'
<1> SUFFICES ASSUME Known, RoleInv, Main, TalkStep PROVE DeviceRoles'
  OBVIOUS
<1> USE DEF RoleInv, DeviceRoles, IfcShape, DeviceShape, Noticed, Commanded,
            Released, Roles, Listens, Talks, Pending, Late, Addressed, Listening,
            Executing, Talking, Sending, Delays, Main, LineShape, Known,
            PortTypes, IrqTypes, StateTypes, LineTypes, At, Goto, Skip, SetLines,
            CyclePlaces
<1>1. CASE TalkNoBuffer
  BY <1>1 DEF TalkNoBuffer, ieee488_BusIdle, irq, state
<1>2. CASE TalkLoop
  BY <1>2 DEF TalkLoop, CtrlPortsTalk, irq, state
<1>3. CASE TalkIfc
  BY <1>3 DEF TalkIfc, TalkReturn, CheckIFC, ports, state
<1>4. CASE TalkAbortIdle
  BY <1>4 DEF TalkAbortIdle, TalkReturn, ieee488_BusIdle, NDAC, state
<1>5. CASE TalkAbort
  BY <1>5 DEF TalkAbort, TalkReturn, ports, state
<1>6. CASE TalkAbortT5
  BY <1>6 DEF TalkAbortT5, TalkReturn, state
<1>7. CASE TalkAbortT6
  BY <1>7 DEF TalkAbortT6, TalkReturn, state
<1>8. CASE TalkByte
  BY <1>8 DEF TalkByte, TalkGo, irq, state
<1>9. CASE DataTalk
  BY <1>9 DEF DataTalk, irq, state
<1>13. CASE \E b \in BOOLEAN : TalkFlag(b)
  BY <1>13 DEF TalkFlag, irq, state
<1>14. CASE DataFlagTalk
  BY <1>14 DEF DataFlagTalk, irq, state
<1>10. CASE TalkHandshake
  BY <1>10 DEF TalkHandshake, TalkGo, irq, state
<1>11. CASE \E b \in BOOLEAN : TalkNext(b)
  BY <1>11 DEF TalkNext, ports, irq, state
<1>12. CASE \E b \in BOOLEAN : TalkRefill(b)
  BY <1>12 DEF TalkRefill, TalkGo, irq, state
<1> QED
  BY <1>1, <1>2, <1>3, <1>4, <1>5, <1>6, <1>7, <1>8, <1>9, <1>10, <1>11, <1>12,
     <1>13, <1>14
     DEF TalkStep

\* The interrupt turns "due" into "noticed".
LEMMA InterruptRoles == Known /\ RoleInv /\ AtnInterrupt => RoleInv'
<1> SUFFICES ASSUME Known, RoleInv, AtnInterrupt PROVE RoleInv'
  OBVIOUS
<1>1. /\ edge = TRUE /\ edge' = FALSE
      /\ te' = "listen" /\ nrfd' = FALSE /\ ndac' = TRUE /\ ATN_received' = TRUE
      /\ UNCHANGED <<pc, dav, IFCreceived, ListenActive, TalkingDevice, cmd, cpc,
                     cyc, k, ATN, IFC, cDAV, cNRFD, cNDAC, role, sent, setting>>
  BY DEF AtnInterrupt, state, lines, Known, LineTypes
<1>2. LineShape' /\ RoleCycle' /\ EdgeShape'
  BY <1>1 DEF RoleInv, LineShape, RoleCycle, EdgeShape
<1>3. DeviceRoles'
  BY <1>1 DEF RoleInv, DeviceRoles, IfcShape, DeviceShape, Noticed, Commanded,
     Released, Roles, Listens, Talks, Pending, Late, Addressed, Listening,
     Executing, Talking, Sending, Delays, EdgeShape, LineShape, Known, LineTypes,
     CyclePlaces
<1> QED
  BY <1>2, <1>3 DEF RoleInv

\* Every step of the device.
LEMMA DeviceStepRoles ==
  Known /\ RoleInv /\ (DeviceStep \/ AtnInterrupt) => RoleInv'
<1> SUFFICES ASSUME Known, RoleInv, DeviceStep PROVE RoleInv'
  BY InterruptRoles
<1>1. Main
  BY MainStep
<1>2. LineShape' /\ RoleCycle' /\ EdgeShape'
  BY <1>1, MainKeeps DEF RoleInv
<1>3. DeviceRoles'
  BY <1>1, CommandRoles, ListenRoles, TalkRoles DEF DeviceStep
<1> QED
  BY <1>2, <1>3 DEF RoleInv

\* What the device knows does not change with a step of the controller.
Rest ==
  /\ UNCHANGED <<pc, te, nrfd, ndac, dav, ATN_received, IFCreceived,
                 ListenActive, TalkingDevice, cmd, setting>>

\* Every step of the controller is one in this sense.
LEMMA HostRest == HostStep \/ HostChoice => Rest
  BY HostDevice DEF Rest, Device, ports, irq, state

\* Where the controller can react to the device.
LEMMA ReactsAt ==
  ASSUME Known, setting \in Settings, Reacts
  PROVE  /\ edge = FALSE /\ ~Leaves
         /\ \/ pc \in Polls \cup Long
            \/ pc = "main" /\ (ATN_received = FALSE \/ Delays # {})
  BY TimingAssumption DEF Known, LineTypes, IrqTypes, Reacts, Settled, Delays

\* The controller has seen the acknowledge of its byte.
LEMMA AcknowledgedRoles ==
  ASSUME Known, RoleInv, setting \in Settings, Acknowledged PROVE RoleInv'
<1>1. /\ edge = FALSE /\ cpc = "ack" /\ cpc' = "wait"
      /\ UNCHANGED <<edge, cyc, k, ATN, IFC, cDAV, cNRFD, cNDAC, role, sent>>
      /\ Rest
  BY ReactsAt DEF Acknowledged, lines, Host, Rest, Device, ports, irq, state
<1>2. ATN = FALSE /\ te = "listen" /\ IFC = TRUE
  BY <1>1 DEF RoleInv, LineShape, CyclePlaces, Known, LineTypes, Turned
<1>3. ~(nrfd = TRUE /\ ndac = TRUE)
  BY <1>1, <1>2 DEF Acknowledged, busNRFD, busNDAC, RoleInv, LineShape, CyclePlaces
<1>4. ATN_received = FALSE => pc \in {"cpoll"}
  BY <1>1, <1>2, ReactsAt DEF Acknowledged, RoleInv, DeviceRoles, Commanded, Polls, Long,
     Leaves, DAV, LineShape, Aborted, Known, LineTypes
<1>5. LineShape' /\ RoleCycle' /\ EdgeShape'
  BY <1>1 DEF RoleInv, LineShape, RoleCycle, EdgeShape, CyclePlaces, Rest
<1>6. IfcShape' /\ DeviceShape' /\ Roles'
  BY <1>1 DEF RoleInv, DeviceRoles, IfcShape, DeviceShape, Roles, Listens, Talks, Pending,
     Addressed,
     Listening, Executing, Rest, Delays
<1>7. Noticed'
  BY <1>1, <1>2, <1>3, ReactsAt DEF RoleInv, DeviceRoles, Noticed, Late, Rest, Delays,
     Addressed, Acknowledged, Talking, Sending, Polls, Long, Leaves, Aborted
<1>8. Commanded' /\ Released'
  BY <1>1, <1>2, <1>4 DEF RoleInv, DeviceRoles, Commanded, Released, Rest, Delays, Executing
<1> QED
  BY <1>5, <1>6, <1>7, <1>8 DEF RoleInv, DeviceRoles

\* Where the device is when the controller finds a command byte taken: the byte
\* is latched, or a slow main loop has let it pass.
Taken ==
  /\ edge = FALSE /\ cpc = "dav" /\ cDAV' = TRUE /\ Rest
  /\ UNCHANGED <<edge, cyc, ATN, IFC, cNRFD, cNDAC>>
  /\ role' = RoleAfter(cyc[k])
  /\ ATN = FALSE /\ te = "listen" /\ IFC = TRUE /\ cDAV = FALSE /\ ndac = TRUE
  /\ \/ k = Len(cyc) /\ k' = k /\ cpc' = "rel"
     \/ /\ k = 1 /\ Len(cyc) = 2 /\ k' = 2 /\ cpc' = "ack"
        /\ cyc[1] \in {"LISTEN", "OTHER_LISTEN", "TALK", "OTHER_TALK"}
  /\ \/ pc = "caccept" /\ ATN_received = FALSE /\ cmd = cyc[k]
     \/ /\ pc = "main" /\ ATN_received = TRUE /\ ~Addressed /\ nrfd = TRUE
        /\ Delays # {} /\ k = 1

\* That is so by the invariant and the timing of the controller.
LEMMA TakenAt ==
  ASSUME Known, RoleInv, setting \in Settings, CommandTaken PROVE Taken
<1>1. /\ edge = FALSE /\ cpc = "dav" /\ cDAV' = TRUE /\ Rest
      /\ UNCHANGED <<edge, cyc, ATN, IFC, cNRFD, cNDAC>>
      /\ role' = RoleAfter(cyc[k])
      /\ IF k = Len(cyc) THEN k' = k /\ cpc' = "rel" ELSE k' = k + 1 /\ cpc' = "ack"
  BY ReactsAt DEF CommandTaken, Host, Rest, Device, ports, irq, state
<1>2. /\ ATN = FALSE /\ te = "listen" /\ IFC = TRUE /\ cDAV = FALSE
      /\ cNRFD = TRUE /\ cNDAC = TRUE
  BY <1>1 DEF RoleInv, LineShape, CyclePlaces, Known, LineTypes, Turned
<1>3. ndac = TRUE
  BY <1>2 DEF CommandTaken, busNDAC, Known, PortTypes
<1>4. \/ pc = "caccept" /\ ATN_received = FALSE /\ cmd = cyc[k]
      \/ pc = "main" /\ ATN_received = TRUE /\ ~Addressed /\ nrfd = TRUE /\ Delays # {} /\ k = 1
  BY <1>1, <1>2, <1>3, ReactsAt DEF CommandTaken, RoleInv, DeviceRoles, Commanded, Noticed,
     Late,
     Polls, Long, Leaves, DAV, Aborted, Known, LineTypes, IrqTypes
<1>5. \/ k = Len(cyc) /\ k' = k /\ cpc' = "rel"
      \/ /\ k = 1 /\ Len(cyc) = 2 /\ k' = 2 /\ cpc' = "ack"
         /\ cyc[1] \in {"LISTEN", "OTHER_LISTEN", "TALK", "OTHER_TALK"}
  <2>1. CycleWords /\ cpc \in CyclePlaces
    BY <1>1 DEF Known, CyclePlaces
  <2>2. CASE Len(cyc) = 1 /\ k = 1
    <3>1. k = Len(cyc)
      BY <2>2
    <3> QED
      BY <1>1, <3>1
  <2>3. CASE Len(cyc) = 2 /\ k = 2
    <3>1. k = Len(cyc)
      BY <2>3
    <3> QED
      BY <1>1, <3>1
  <2>4. CASE /\ Len(cyc) = 2 /\ k = 1
             /\ cyc[1] \in {"LISTEN", "OTHER_LISTEN", "TALK", "OTHER_TALK"}
    <3>1. k # Len(cyc) /\ 1 + 1 = 2
      BY <2>4
    <3>2. k' = k + 1 /\ cpc' = "ack"
      BY <1>1, <3>1
    <3>3. k' = 2
      BY <2>4, <3>1, <3>2
    <3> QED
      BY <2>4, <3>2, <3>3
  <2>5. \/ Len(cyc) = 1 /\ k = 1
        \/ Len(cyc) = 2 /\ k = 2
        \/ /\ Len(cyc) = 2 /\ k = 1
           /\ cyc[1] \in {"LISTEN", "OTHER_LISTEN", "TALK", "OTHER_TALK"}
    BY <2>1 DEF CycleWords
  <2> QED
    BY <2>2, <2>3, <2>4, <2>5
<1> QED
  BY <1>1, <1>2, <1>3, <1>4, <1>5 DEF Taken

\* A command byte has been taken.
LEMMA TakenRoles ==
  ASSUME Known, RoleInv, setting \in Settings, CommandTaken PROVE RoleInv'
<1>0. Taken
  BY TakenAt
<1> USE <1>0 DEF Taken
<1>5. /\ cyc[k] = "LISTEN" => role' = "listener"
      /\ cyc[k] = "TALK" => role' = "talker"
      /\ cyc[k] = "UNLISTEN" => role' = IF role = "listener" THEN "none" ELSE role
      /\ cyc[k] = "UNTALK" => role' = IF role = "talker" THEN "none" ELSE role
      /\ cyc[k] \notin {"LISTEN", "TALK", "UNLISTEN", "UNTALK"} => role' = role
  BY DEF RoleAfter
<1>6. LineShape' /\ EdgeShape'
  BY DEF RoleInv, LineShape, EdgeShape, CyclePlaces
<1>7. RoleCycle'
  BY <1>5 DEF RoleInv, RoleCycle, CyclePlaces, Known, CycleWords, Unaddressed, Secondaries
<1>8. IfcShape' /\ DeviceShape'
  BY DEF RoleInv, DeviceRoles, IfcShape, DeviceShape, Addressed,
     Listening, Executing, Rest
<1>9. Roles'
  <2>1. CASE pc = "caccept"
    BY <1>5, <2>1 DEF RoleInv, DeviceRoles, Roles, Listens, Talks, Pending, Rest, Delays,
       Known, CycleWords, Unaddressed, Secondaries, CyclePlaces, RoleCycle
  <2>2. CASE pc = "main"
    BY <2>2 DEF Roles, Listens, Talks, Pending, Addressed, Rest, Delays
  <2> QED
    BY <2>1, <2>2
<1>10. Noticed'
  BY DEF Noticed, Late, Rest, Delays, Addressed, Talking, Sending
<1>11. Commanded' /\ Released'
  BY DEF Commanded, Released, Rest, Delays, Executing
<1> QED
  BY <1>6, <1>7, <1>8, <1>9, <1>10, <1>11 DEF RoleInv, DeviceRoles

\* Where the device is at the end of a cycle, and what follows.
Ended ==
  /\ edge = FALSE /\ cpc = "rel" /\ cpc' = Follows /\ ATN' = TRUE /\ Rest
  /\ UNCHANGED <<edge, cyc, k, IFC, cDAV, role, sent, owed>>
  /\ cNRFD' = (Follows # "hl0") /\ cNDAC' = (Follows # "hl0")
  /\ ATN = FALSE /\ te = "listen" /\ IFC = TRUE /\ cDAV = TRUE
  /\ \/ ATN_received = FALSE /\ pc \in {"cpoll", "process", "close", "secwait", "openwait"}
     \/ pc = "main" /\ ATN_received = TRUE /\ Delays # {} /\ Len(cyc) = 1
  /\ Follows \in {"hs0", "hl0", "idle"}
  /\ Len(cyc) = 1 => Follows = "idle"
  /\ Len(cyc) = 2 /\ cyc[2] \in {"CLOSE", "CLOSE15"} => Follows = "idle"
  /\ Len(cyc) = 2 /\ cyc[2] \notin {"CLOSE", "CLOSE15"} /\ cyc[1] = "LISTEN" => Follows = "hs0"
  /\ cyc[1] = "TALK" <=> Follows = "hl0"

\* That is so by the invariant and the timing of the controller.
LEMMA EndedAt ==
  ASSUME Known, RoleInv, setting \in Settings, ReleaseATN PROVE Ended
<1>1. /\ edge = FALSE /\ cpc = "rel" /\ cpc' = Follows /\ ATN' = TRUE /\ Rest
      /\ UNCHANGED <<edge, cyc, k, IFC, cDAV, role, sent, owed>>
      /\ cNRFD' = (Follows # "hl0") /\ cNDAC' = (Follows # "hl0")
  BY ReactsAt DEF ReleaseATN, Host, Rest, Device, ports, irq, state
<1>2. /\ ATN = FALSE /\ te = "listen" /\ IFC = TRUE /\ cDAV = TRUE
      /\ cNRFD = TRUE /\ cNDAC = TRUE
  BY <1>1 DEF RoleInv, LineShape, CyclePlaces, Known, LineTypes, Turned
<1>3. \/ ATN_received = FALSE /\ pc \in {"cpoll", "process", "close", "secwait", "openwait"}
      \/ pc = "main" /\ ATN_received = TRUE /\ Delays # {} /\ Len(cyc) = 1
  BY <1>1, <1>2, ReactsAt DEF ReleaseATN, RoleInv, DeviceRoles, Commanded, Noticed, Late,
     LineShape, Polls, Long, Leaves, DAV, Aborted, Known, LineTypes, IrqTypes
<1>4. /\ Follows \in {"hs0", "hl0", "idle"}
      /\ Len(cyc) = 1 => Follows = "idle"
      /\ Len(cyc) = 2 /\ cyc[2] \in {"CLOSE", "CLOSE15"} => Follows = "idle"
      /\ Len(cyc) = 2 /\ cyc[2] \notin {"CLOSE", "CLOSE15"} /\ cyc[1] = "LISTEN" => Follows = "hs0"
      /\ cyc[1] = "TALK" <=> Follows = "hl0"
  BY <1>1 DEF Follows, Known, CycleWords, Unaddressed, Secondaries, CyclePlaces
<1> QED
  BY <1>1, <1>2, <1>3, <1>4 DEF Ended

\* The end of a cycle.
LEMMA ReleaseRoles ==
  ASSUME Known, RoleInv, setting \in Settings, ReleaseATN PROVE RoleInv'
<1>0. Ended
  BY EndedAt
<1> USE <1>0 DEF Ended
<1>5. LineShape' /\ EdgeShape' /\ RoleCycle'
  BY DEF RoleInv, LineShape, EdgeShape, RoleCycle, CyclePlaces
<1>8. IfcShape' /\ DeviceShape' /\ Roles'
  BY DEF RoleInv, DeviceRoles, IfcShape, DeviceShape, Addressed,
     Listening, Executing, Rest, Roles, Listens, Talks, Pending, Delays
<1>10. Noticed' /\ Commanded'
  BY DEF Noticed, Commanded
<1>11. Released'
  BY DEF RoleInv, DeviceRoles, DeviceShape, RoleCycle, Commanded, LineShape, Released, Rest,
     Delays, Executing, Talking, Sending, Known, CycleWords, CyclePlaces, Unaddressed,
     Secondaries
<1> QED
  BY <1>5, <1>8, <1>10, <1>11 DEF RoleInv, DeviceRoles

\* The controller puts a byte on the bus.
LEMMA PutRoles ==
  ASSUME Known, RoleInv, setting \in Settings, PutByte PROVE RoleInv'
<1>0. Rest /\ Reacts
  BY HostRest DEF HostStep, PutByte
<1>1. /\ (cpc = "wait" /\ cpc' = "dav") \/ (cpc = "hsw" /\ cpc' = "hsd")
      /\ UNCHANGED <<edge, cyc, k, ATN, IFC, cNRFD, cNDAC, role, sent, owed>>
      /\ cDAV' = FALSE
  BY DEF PutByte, Host
<1>2. /\ IFC = TRUE /\ edge = FALSE /\ ~Leaves
      /\ cpc = "wait" <=> ATN = FALSE
      /\ cpc = "hsw" <=> ATN = TRUE
  BY <1>0, <1>1, ReactsAt DEF RoleInv, LineShape, CyclePlaces, Known, LineTypes
<1>3. cpc = "wait" => te = "listen" /\ nrfd = TRUE
  BY <1>1, <1>2 DEF PutByte, busNRFD, Known, LineTypes, PortTypes, Turned
<1>4. /\ edge = FALSE /\ ~Leaves
      /\ \/ pc \in Polls \cup Long
         \/ pc = "main" /\ (ATN_received = FALSE \/ Delays # {})
  BY <1>0, ReactsAt
<1>5. LineShape' /\ RoleCycle' /\ EdgeShape'
  BY <1>1, <1>2, <1>4 DEF RoleInv, LineShape, RoleCycle, EdgeShape, CyclePlaces
<1>6. IfcShape' /\ DeviceShape' /\ Roles'
  <2>1. IfcShape'
    BY <1>0, <1>1 DEF RoleInv, DeviceRoles, IfcShape, Rest, Addressed
  <2>2. DeviceShape'
    BY <1>0, <1>1 DEF RoleInv, DeviceRoles, DeviceShape, Rest, Listening, Executing
  <2>3. pc # "caccept"
    BY <1>1, <1>2 DEF RoleInv, DeviceRoles, Noticed, Commanded, Released, Late, Known, IrqTypes,
       LineTypes
  <2>4. Pending' = Pending
    BY <1>0, <1>1, <2>3 DEF Pending, Rest
  <2>5. Roles'
    BY <1>0, <1>1, <2>4 DEF RoleInv, DeviceRoles, Roles, Listens, Talks, Rest, Delays
  <2> QED BY <2>1, <2>2, <2>5
<1>7. Noticed'
  <2> SUFFICES ASSUME ATN = FALSE, ATN_received = TRUE PROVE Noticed'
    BY <1>0, <1>1 DEF Noticed, Rest, Known, LineTypes, IrqTypes
  <2>1. cpc = "wait" /\ cpc' = "dav" /\ k = 1 /\ nrfd = TRUE /\ Noticed
    BY <1>1, <1>2, <1>3 DEF RoleInv, DeviceRoles, Noticed, Late
  <2>2. pc = "main" /\ Delays # {}
    BY <1>2, <1>4, <2>1 DEF Noticed, Polls, Long, Leaves, Aborted, Talking, Sending
  <2>3. ndac = TRUE => ~Addressed
    BY <1>2, <2>1, <2>2 DEF Noticed
  <2> QED
    BY <1>0, <1>1, <2>1, <2>2, <2>3 DEF Noticed, Late, Rest, Delays, Addressed, Talking, Sending
<1>8. Commanded'
  BY <1>0, <1>1, <1>2, <1>4 DEF RoleInv, DeviceRoles, LineShape, CyclePlaces, Commanded, Rest,
     Delays, Executing, Polls, Long, Leaves, Aborted
<1>9. Released'
  <2> SUFFICES ASSUME ATN = TRUE PROVE Released'
    BY <1>1 DEF Released, Known, LineTypes
  <2>1. cpc = "hsw" /\ cpc' = "hsd" /\ Released
    BY <1>1, <1>2 DEF RoleInv, DeviceRoles
  <2>2. ATN_received # TRUE /\ pc \in {"main", "r1", "r2", "rpoll", "store"}
    BY <1>2, <2>1 DEF Released
  <2>3. pc # "store"
    <3>1. te = "talk" \/ nrfd = TRUE
      BY DEF PutByte, busNRFD, Known, PortTypes
    <3> QED BY <3>1 DEF RoleInv, DeviceRoles, DeviceShape, Listening
  <2>4. pc \in {"main", "rpoll"}
    BY <1>4, <2>2, <2>3 DEF Polls, Long
  <2> QED
    BY <1>0, <1>1, <2>1, <2>2, <2>4 DEF Released, Rest, Delays, Talking, Sending
<1> QED
  BY <1>5, <1>6, <1>7, <1>8, <1>9 DEF RoleInv, DeviceRoles

\* Every step of the controller.
LEMMA HostRoles ==
  Known /\ RoleInv /\ setting \in Settings /\ (HostStep \/ HostChoice) => RoleInv'
<1> SUFFICES ASSUME Known, RoleInv, setting \in Settings, HostStep \/ HostChoice
             PROVE  RoleInv'
  OBVIOUS
<1>0. Rest
  BY HostRest
<1> USE <1>0, ReactsAt
    DEF RoleInv, DeviceRoles, IfcShape, DeviceShape, Noticed, Commanded,
        Released, Roles, Listens, Talks, Pending, Late, Addressed, Listening,
        Executing, Talking, Sending, Delays, LineShape, RoleCycle, EdgeShape,
        Known, PortTypes, IrqTypes, LineTypes, Rest, Host, CyclePlaces, CycleWords
<1>1. CASE Acknowledged
  BY <1>1, AcknowledgedRoles
<1>2. CASE NotPresent
  BY <1>2 DEF NotPresent, busNRFD, busNDAC, Polls, Long, Leaves, Aborted,
              DAV, Turned
<1>3. CASE PutByte
  BY <1>3, PutRoles
<1>4. CASE CommandTaken
  BY <1>4, TakenRoles
<1>5. CASE ReleaseATN
  BY <1>5, ReleaseRoles
<1>6. CASE HostSent
  BY <1>6 DEF HostSent
<1>7. CASE HostReceive
  BY <1>7 DEF HostReceive, HostLine
<1>8. CASE HostTakes
  BY <1>8 DEF HostTakes, HostLine
<1>9. CASE ReleaseIFC
  BY <1>9 DEF ReleaseIFC
<1>10. CASE \E c \in Cycles : AssertATN(c)
  BY <1>10 DEF AssertATN, Settled, Leaves, Aborted, DAV
<1>11. CASE HostSend
  BY <1>11 DEF HostSend, lines, Polls, Long, Leaves, Aborted, DAV
<1>12. CASE HostReady
  BY <1>12 DEF HostReady, HostLine, Polls, Long, Leaves
<1>13. CASE \E b \in BOOLEAN : AssertIFC(b)
  BY <1>13 DEF AssertIFC
<1> QED
  BY <1>1, <1>2, <1>3, <1>4, <1>5, <1>6, <1>7, <1>8, <1>9, <1>10, <1>11, <1>12,
     <1>13 DEF HostStep, HostChoice

\* What the invariant says when the controller looks, or the device waits.
LEMMA RolesImplied ==
  ASSUME Known, RoleInv, setting \in Settings PROVE RolesSound
<1>1. NoDataAsCommand
  BY DEF NoDataAsCommand, RoleInv, DeviceRoles, DeviceShape
<1>2. DevicePresent
  <2> SUFFICES ASSUME Delays = {}, cpc = "ack", Reacts, busNRFD, busNDAC PROVE FALSE
    BY DEF DevicePresent
  <2>1. /\ IFC = TRUE /\ ATN = FALSE /\ edge = FALSE /\ cDAV = TRUE /\ te = "listen"
    BY ReactsAt DEF RoleInv, LineShape, CyclePlaces, Known, LineTypes, Turned
  <2>2. nrfd = TRUE /\ ndac = TRUE
    BY <2>1 DEF busNRFD, busNDAC, Known, PortTypes
  <2>3. CASE ATN_received = TRUE
    BY <2>1, <2>2, <2>3, ReactsAt DEF RoleInv, DeviceRoles, DeviceShape, Noticed, Late,
       Polls, Long, Leaves, Aborted, Talking, Sending
  <2>4. CASE ATN_received = FALSE
    BY <2>1, <2>2, <2>4, ReactsAt DEF RoleInv, DeviceRoles, Commanded, DAV,
       Polls, Long, Leaves, Aborted
  <2> QED
    BY <2>3, <2>4 DEF Known, IrqTypes
<1>3. RolesAgree
  <2> SUFFICES ASSUME Delays = {}, pc \in {"main", "rpoll", "t1", "t2"}, IFC
               PROVE  /\ ListenActive = (role = "listener")
                      /\ TalkingDevice = (role = "talker")
    BY DEF RolesAgree
  <2>1. ListenActive \in BOOLEAN /\ TalkingDevice \in BOOLEAN /\ IFC = TRUE
    BY DEF Known, StateTypes, LineTypes
  <2>2. /\ ListenActive = TRUE <=> role = "listener"
        /\ TalkingDevice = TRUE <=> role = "talker"
    BY <2>1 DEF RoleInv, DeviceRoles, Roles, Listens, Talks, Pending
  <2> QED
    BY <2>1, <2>2, Zenon
<1> QED
  BY <1>1, <1>2, <1>3 DEF RolesSound

\* At the start nobody is addressed.
LEMMA InitRoles == Init => RoleInv
  BY DEF Init, RoleInv, DeviceRoles, IfcShape, DeviceShape, Noticed, Commanded,
     Released, Roles, Listens, Talks, Pending, Addressed, Listening,
     Executing, Talking, Sending, LineShape, RoleCycle, EdgeShape, CyclePlaces

\* BusInv says which values the variables have; with it RoleInv is inductive.
LEMMA RoleStep == BusInv /\ RoleInv /\ [Next]_vars => RoleInv'
<1> SUFFICES ASSUME BusInv, RoleInv, [Next]_vars PROVE RoleInv'
  OBVIOUS
<1>1. Known /\ setting \in Settings
  BY BusKnown DEF BusInv, TypeOK
<1>2. CASE Next
  BY <1>1, <1>2, DeviceStepRoles, HostRoles DEF Next
<1>3. CASE UNCHANGED vars
  BY <1>3 DEF vars, ports, irq, state, host, lines, RoleInv, DeviceRoles, IfcShape,
     DeviceShape, Noticed, Commanded,
     Released, Roles, Listens, Talks, Pending, Late, Addressed, Delays, LineShape, RoleCycle,
     EdgeShape
<1> QED
  BY <1>2, <1>3

\* The device is what the controller has made of it: it answers an ATN, takes the
\* role it was given, and takes no data byte for a command.
THEOREM RolesSoundHolds == Spec => []RolesSound
<1>1. BusInv /\ RoleInv => RolesSound
  BY BusKnown, RolesImplied DEF BusInv, TypeOK
<1> QED
  BY <1>1, InitBus, InitRoles, BusStep, RoleStep, PTL DEF Spec

-----------------------------------------------------------------------------
(* Bytes sent.  The controller takes a byte at one step of the handshake,  *)
(* the device counts it at another, and ATN, IFC or the end of the file    *)
(* can come between: the invariant follows the handshake of the talk loop  *)
(* with a controller that listens, and what is left over after it.         *)

\* The byte is offered by the device, or not yet.
Offering == {"t5", "t5c", "t6", "t6c", "t7", "t8"}
Preparing == {"ctl", "t1", "t2", "t3", "t3d", "t3f", "t4", "t4d"}

\* The talk loop and the controller, in step.
Handshake ==
  /\ pc \in Talking => TalkingDevice = TRUE
  /\ IFC = TRUE /\ ATN = TRUE /\ pc \in Talking =>
       /\ te = "talk" /\ edge = FALSE
       /\ pc \in Preparing => dav = TRUE
       /\ pc \in Offering => dav = FALSE
       /\ cpc \in {"hl0", "hl1", "hl2", "hl3"}
       /\ owed = IF cpc = "hl3" /\ pc \in {"t6", "t7"} THEN 1 ELSE 0
  /\ cpc = "hl0" => pc \in {"c1", "c2", "cpoll", "main", "secwait", "ctl", "t0", "t1",
                           "t2"}
  /\ cpc = "hl1" => pc \in {"main", "t2", "t3", "t3d", "t3f", "t4", "t4d", "t5", "t5c"}
  /\ cpc = "hl2" => pc \in {"t5", "t6", "t6c"}
  /\ cpc = "hl3" => pc \in {"c1", "c2", "cpoll", "main", "t0", "t1", "t6", "t7", "t8"}

\* A byte is counted too early only if ATN or IFC has ended the transfer, and then
\* no other byte is sent before the next TALK.
Count ==
  /\ owed \in {-1, 0, 1}
  /\ owed = 1 => cpc = "hl3" /\ pc \in {"t6", "t7"}
  /\ owed = -1 => /\ pc \in Talking => pc \in {"ctl", "t0", "t1", "t8"}
                  /\ pc \in {"ctl", "t0", "t8"} =>
                       IFC = FALSE \/ (ATN_received = TRUE /\ te = "listen" /\ ndac = TRUE)
                  /\ pc = "t1" => IFC = TRUE /\ ATN_received = TRUE /\ te = "listen" /\ ndac = TRUE
                  /\ cpc \in CyclePlaces => cyc[1] # "TALK"
                  /\ IFC = TRUE /\ pc = "secwait" => TalkingDevice = FALSE

TalkInv == Handshake /\ Count

\* handle_ieee488 starts a transfer only after TALK, when nothing is owed.
LEMMA CommandTalk ==
  Known /\ RoleInv /\ TalkInv /\ Main /\ CommandStep => TalkInv'
<1> SUFFICES ASSUME Known, RoleInv, TalkInv, Main, CommandStep PROVE TalkInv'
  OBVIOUS
<1> USE DEF TalkInv, Handshake, Count, Offering, Preparing, Talking, Sending, CyclePlaces,
Main,
        RoleInv, DeviceRoles, IfcShape, DeviceShape, Noticed, Commanded, Released, LineShape,
        Known, PortTypes, IrqTypes, StateTypes, LineTypes, At, Goto, Skip, SetLines, Executing
<1>1. CASE HandleIfc
  BY <1>1 DEF HandleIfc, ieee488_Init
<1>2. CASE HandleAtn
  BY <1>2 DEF HandleAtn, EnterCommands, ports, state
<1>3. CASE IfcWait
  BY <1>3 DEF IfcWait, EnterCommands, ports, state
<1>4. CASE CommandNdac
  BY <1>4 DEF CommandNdac, irq, state
<1>5. CASE CommandReady
  BY <1>5 DEF CommandReady, irq, state
<1>6. CASE CommandAbort
  BY <1>6 DEF CommandAbort, ieee488_BusIdle, ports, state
<1>7. CASE CommandByte
  <2>1. cpc \notin {"hl0", "hl1", "hl2", "hl3"}
    <3>1. te \in {"listen", "talk"} /\ cDAV \in BOOLEAN /\ dav \in BOOLEAN
      BY DEF Dirs
    <3>2. (te = "listen" /\ cDAV = FALSE) \/ (te = "talk" /\ dav = FALSE)
      BY <1>7, <3>1 DEF CommandByte, DAV
    <3> QED
      BY <1>7, <3>2 DEF CommandByte, DavLow, Valid
  <2> QED
    BY <1>7, <2>1 DEF CommandByte, irq
<1>8. CASE CommandAccepted
  BY <1>8 DEF CommandAccepted, ports, state, irq
<1>9. CASE Unlisten
  BY <1>9 DEF Unlisten, ieee488_BusIdle, irq, state
<1>10. CASE Process
  BY <1>10 DEF Process, ports, irq
<1>11. CASE Untalk
  BY <1>11 DEF Untalk, ieee488_BusIdle, irq
<1>12. CASE Address
  BY <1>12 DEF Address, ports, irq
<1>13. CASE Ignore
  BY <1>13 DEF Ignore, ports, irq, state
<1>14. CASE CloseBegin
  BY <1>14 DEF CloseBegin, ports, irq, state
<1>15. CASE Close
  BY <1>15 DEF Close, ports, irq
<1>16. CASE WaitAtn
  BY <1>16 DEF WaitAtn, ports, irq, state, Roles, Talks, Pending, RoleCycle
<1> QED
  BY <1>1, <1>2, <1>3, <1>4, <1>5, <1>6, <1>7, <1>8, <1>9, <1>10, <1>11, <1>12, <1>13, <1>14,
     <1>15, <1>16 DEF CommandStep

\* ieee488_ListenLoop has nothing to do with the bytes sent.
LEMMA ListenTalk ==
  Known /\ RoleInv /\ TalkInv /\ Main /\ ListenStep => TalkInv'
<1> SUFFICES ASSUME Known, RoleInv, TalkInv, Main, ListenStep PROVE TalkInv'
  OBVIOUS
<1> USE DEF TalkInv, Handshake, Count, Offering, Preparing, Talking, Sending, CyclePlaces,
Main,
        RoleInv, DeviceRoles, IfcShape, DeviceShape, Noticed, Commanded, Released, LineShape,
        Known, PortTypes, IrqTypes, StateTypes, LineTypes, At, Goto, Skip, SetLines, Listening
<1>1. CASE OpenName
  BY <1>1 DEF OpenName, ports, irq, Roles, Talks, Pending
<1>2. CASE OpenIfc
  BY <1>2 DEF OpenIfc, ports, state
<1>3. CASE NotAddressed
  BY <1>3 DEF NotAddressed, ports, irq, state
<1>4. CASE \E b \in BOOLEAN : ListenLoop(b)
  BY <1>4 DEF ListenLoop, ports, irq, Roles, Listens, Pending
<1>5. CASE RxReady
  BY <1>5 DEF RxReady, irq, state
<1>6. CASE RxNdac
  BY <1>6 DEF RxNdac, irq, state
<1>7. CASE RxAbort
  BY <1>7 DEF RxAbort, ports, state
<1>8. CASE RxByte
  BY <1>8 DEF RxByte, irq, state
<1>9. CASE RxTaken
  BY <1>9 DEF RxTaken, irq, state
<1>10. CASE RxEnd
  BY <1>10 DEF RxEnd, irq, state
<1>11. CASE \E b \in BOOLEAN : Store(b)
  BY <1>11 DEF Store, ports
<1> QED
  BY <1>1, <1>2, <1>3, <1>4, <1>5, <1>6, <1>7, <1>8, <1>9, <1>10, <1>11 DEF ListenStep

\* ieee488_TalkLoop keeps the handshake and counts a byte that was taken.
LEMMA TalkTalk ==
  Known /\ RoleInv /\ TalkInv /\ Main /\ TalkStep => TalkInv'
<1> SUFFICES ASSUME Known, RoleInv, TalkInv, Main, TalkStep PROVE TalkInv'
  OBVIOUS
<1> USE DEF TalkInv, Handshake, Count, Offering, Preparing, Talking, Sending, CyclePlaces,
Main,
        RoleInv, DeviceRoles, IfcShape, DeviceShape, Noticed, Commanded, Released, LineShape,
        Known, PortTypes, IrqTypes, StateTypes, LineTypes, At, Goto, Skip, SetLines, NDAC, NRFD
<1>1. CASE TalkNoBuffer
  BY <1>1 DEF TalkNoBuffer, ieee488_BusIdle, irq, state
<1>2. CASE TalkLoop
  BY <1>2 DEF TalkLoop, CtrlPortsTalk, irq, state, Roles, Talks, Pending
<1>3. CASE TalkIfc
  BY <1>3 DEF TalkIfc, TalkReturn, CheckIFC, ports, state
<1>4. CASE TalkAbortIdle
  BY <1>4 DEF TalkAbortIdle, TalkReturn, ieee488_BusIdle, state
<1>5. CASE TalkAbort
  BY <1>5 DEF TalkAbort, TalkReturn, ports, state
<1>6. CASE TalkAbortT5
  BY <1>6 DEF TalkAbortT5, TalkReturn, state
<1>7. CASE TalkAbortT6
  BY <1>7 DEF TalkAbortT6, TalkReturn, state
<1>8. CASE TalkByte
  BY <1>8 DEF TalkByte, TalkGo, irq, state
<1>9. CASE DataTalk
  BY <1>9 DEF DataTalk, irq, state
<1>13. CASE \E b \in BOOLEAN : TalkFlag(b)
  BY <1>13 DEF TalkFlag, irq, state, Roles, Talks, Pending
<1>14. CASE DataFlagTalk
  BY <1>14 DEF DataFlagTalk, irq, state
<1>10. CASE TalkHandshake
  BY <1>10 DEF TalkHandshake, TalkGo, irq, state
<1>11. CASE \E b \in BOOLEAN : TalkNext(b)
  BY <1>11 DEF TalkNext, ports, irq, state, Turned, Roles, Talks, Pending, RoleCycle, Late
<1>12. CASE \E b \in BOOLEAN : TalkRefill(b)
  BY <1>12 DEF TalkRefill, TalkGo, irq, state
<1> QED
  BY <1>1, <1>2, <1>3, <1>4, <1>5, <1>6, <1>7, <1>8, <1>9, <1>10, <1>11, <1>12,
     <1>13, <1>14
     DEF TalkStep

\* The interrupt ends the transfer.
LEMMA InterruptTalk == Known /\ RoleInv /\ TalkInv /\ AtnInterrupt => TalkInv'
<1> SUFFICES ASSUME Known, RoleInv, TalkInv, AtnInterrupt PROVE TalkInv'
  OBVIOUS
<1>1. /\ edge = TRUE /\ edge' = FALSE
      /\ te' = "listen" /\ nrfd' = FALSE /\ ndac' = TRUE /\ ATN_received' = TRUE
      /\ UNCHANGED <<pc, dav, IFCreceived, ListenActive, TalkingDevice, cmd, cpc,
                     cyc, k, ATN, IFC, cDAV, cNRFD, cNDAC, role, owed, setting>>
  BY DEF AtnInterrupt, state, lines, Known, LineTypes
<1> QED
  BY <1>1 DEF TalkInv, Handshake, Count, RoleInv, EdgeShape, Known, LineTypes, CyclePlaces

\* Every step of the device.
LEMMA DeviceStepTalk ==
  Known /\ RoleInv /\ TalkInv /\ (DeviceStep \/ AtnInterrupt) => TalkInv'
  BY MainStep, CommandTalk, ListenTalk, TalkTalk, InterruptTalk DEF DeviceStep

\* After the cycle of a TALK the device waits for the end of ATN, or missed it.
LEMMA ReleaseTalk ==
  ASSUME Known, RoleInv, TalkInv, setting \in Settings, ReleaseATN PROVE TalkInv'
<1>0. Ended
  BY EndedAt
<1>1. cyc[1] = "TALK" => pc \in {"cpoll", "secwait", "main"}
  <2> SUFFICES ASSUME cyc[1] = "TALK", pc \in {"process", "close", "openwait"} PROVE FALSE
    BY <1>0 DEF Ended
  <2>1. k = 2 /\ cyc[2] \in {"DATA", "DATA15"}
    BY <1>0 DEF Ended, Known, CycleWords, CyclePlaces, Unaddressed, RoleInv, LineShape
  <2>2. cmd = cyc[k]
    BY <1>0 DEF Ended, RoleInv, DeviceRoles, Commanded, Executing
  <2> QED
    BY <2>1, <2>2 DEF RoleInv, DeviceRoles, DeviceShape
<1> QED
  BY <1>0, <1>1 DEF Ended, TalkInv, Handshake, Count, Rest, Talking, Sending, CyclePlaces

\* Every step of the controller: it takes a byte only in the wait for NDAC.
LEMMA HostTalk ==
  Known /\ RoleInv /\ TalkInv /\ setting \in Settings /\ (HostStep \/ HostChoice)
  => TalkInv'
<1> SUFFICES ASSUME Known, RoleInv, TalkInv, setting \in Settings, HostStep \/ HostChoice
             PROVE  TalkInv'
  OBVIOUS
<1>0. Rest
  BY HostRest
<1> USE <1>0, ReactsAt
    DEF TalkInv, Handshake, Count, Offering, Preparing, Talking, Sending, CyclePlaces, Rest,
    Host,
        RoleInv, DeviceRoles, IfcShape, DeviceShape, Noticed, Commanded, Released, LineShape,
        Known, PortTypes, IrqTypes, StateTypes, LineTypes, Delays, Polls, Long, Leaves,
        Aborted,
        DAV, NDAC, NRFD
<1>1. CASE Acknowledged
  BY <1>1 DEF Acknowledged, lines
<1>2. CASE NotPresent
  BY <1>2 DEF NotPresent, busNRFD, busNDAC, Turned, Late
<1>3. CASE PutByte
  BY <1>3 DEF PutByte
<1>4. CASE CommandTaken
  BY <1>4 DEF CommandTaken
<1>5. CASE ReleaseATN
  BY <1>5, ReleaseTalk
<1>6. CASE HostSent
  BY <1>6 DEF HostSent
<1>7. CASE HostReceive
  <2>1. CASE HostLine("hl1", ~busDAV, "hl2", FALSE, FALSE)
    <3>1. pc = "t5"
      <4>1. te \in {"listen", "talk"} /\ cDAV = TRUE /\ dav \in BOOLEAN /\ IFC = TRUE
        BY <2>1 DEF Dirs, HostLine
      <4>2. te = "talk" /\ dav = FALSE
        BY <2>1, <4>1 DEF HostLine, busDAV
      <4> QED
        BY <2>1, <4>1, <4>2 DEF HostLine, DavLow, Valid
    <3> QED
      BY <1>7, <2>1, <3>1 DEF HostReceive, HostLine
  <2>2. CASE HostLine("hl3", busDAV, "hl0", FALSE, FALSE)
    <3>1. pc \in {"cpoll", "main", "t1"}
      BY <2>2 DEF HostLine, busDAV
    <3> QED
      BY <1>7, <2>2, <3>1 DEF HostReceive, HostLine
  <2> QED
    BY <1>7, <2>1, <2>2 DEF HostReceive
<1>8. CASE HostTakes
  <2>1. pc = "t6"
    BY <1>8 DEF HostTakes, HostLine
  <2> QED
    BY <1>8, <2>1 DEF HostTakes, HostLine
<1>9. CASE ReleaseIFC
  BY <1>9 DEF ReleaseIFC
<1>10. CASE \E c \in Cycles : AssertATN(c)
  BY <1>10 DEF AssertATN, Settled, Roles, Talks, Pending
<1>11. CASE HostSend
  BY <1>11 DEF HostSend, lines
<1>12. CASE HostReady
  BY <1>12 DEF HostReady, HostLine
<1>13. CASE \E b \in BOOLEAN : AssertIFC(b)
  BY <1>13 DEF AssertIFC
<1> QED
  BY <1>1, <1>2, <1>3, <1>4, <1>5, <1>6, <1>7, <1>8, <1>9, <1>10, <1>11, <1>12,
     <1>13 DEF HostStep, HostChoice

\* Every step keeps it.
LEMMA TalkStepInv == BusInv /\ RoleInv /\ TalkInv /\ [Next]_vars => TalkInv'
<1> SUFFICES ASSUME BusInv, RoleInv, TalkInv, [Next]_vars PROVE TalkInv'
  OBVIOUS
<1>1. Known /\ setting \in Settings
  BY BusKnown DEF BusInv, TypeOK
<1>2. CASE Next
  BY <1>1, <1>2, DeviceStepTalk, HostTalk DEF Next
<1>3. CASE UNCHANGED vars
  BY <1>3 DEF vars, ports, irq, state, host, lines, TalkInv, Handshake, Count
<1> QED
  BY <1>2, <1>3

-----------------------------------------------------------------------------
(* Characters received.  On a board without IFC a command or a name is     *)
(* complete at UNLISTEN: the characters in the buffer are those that the   *)
(* controller sent since LISTEN, but for one that is still to be stored.   *)

Flagged == command_received = TRUE \/ open_active = TRUE

\* The controller is through with a character that RxChar does not have yet.
Owing == pc = "store" \/ (pc = "racc" /\ cpc # "hsd")
Least(n) == IF n < CmdSize THEN n ELSE CmdSize

\* The listen loop and the controller, in step.
Reception ==
  /\ IFC = TRUE /\ pc # "ifcwait"
  /\ pc \in {"racc", "rglitch"} => ATN = TRUE /\ ATN_received = FALSE /\ edge = FALSE
  /\ pc = "racc" => cpc \in {"hsd", "hs0"}
  /\ pc = "rglitch" => cpc = "hsd"
  /\ pc \in Listening => ListenActive = TRUE /\ (mode = "chars" <=> Flagged)
  /\ pc \in Listening /\ ATN = TRUE =>
       cpc \in {"hs0", "hsw", "hsd"} /\ (Flagged => cyc[2] # "DATA")
  /\ cpc \in CyclePlaces /\ (k = 2 \/ cpc = "rel") /\ role = "listener" => sent = 0
  /\ pc \in {"secwait", "openwait"} /\ ListenActive = TRUE =>
       sent = 0 /\ cyc[1] = "LISTEN" /\ cyc[2] = cmd

\* What is in the buffer.  While it is in use no other cycle than UNLISTEN comes.
Buffer ==
  /\ ~Flagged => command_length = 0
  /\ Flagged =>
       /\ ListenActive = TRUE
       /\ cpc \in CyclePlaces /\ pc # "process" => cyc[1] = "UNLISTEN"
       /\ cpc \in {"hs0", "hsw", "hsd"} => pc \in Listening
       /\ pc \notin {"secwait", "openwait", "close"}
       /\ Owing => sent >= 1 /\ command_length = Least(sent - 1)
       /\ ~Owing => command_length = Least(sent)

ByteInv == Reception /\ Buffer

\* handle_ieee488 empties the buffer with the command, and uses it for nothing else.
LEMMA CommandBytes ==
  ASSUME Known, RoleInv, ByteInv, Main, CommandStep PROVE ByteInv'
<1> USE DEF ByteInv, Reception, Buffer, Flagged, Owing, Listening, CyclePlaces, Main,
        RoleInv, DeviceRoles, DeviceShape, Noticed, Commanded, Released, LineShape,
        Roles, Listens, Pending, Executing, CycleWords, Unaddressed, Secondaries,
        Known, PortTypes, IrqTypes, StateTypes, LineTypes, At, Goto, Skip, SetLines
<1>1. CASE HandleIfc
  BY <1>1 DEF HandleIfc, IfcShape
<1>2. CASE HandleAtn
  BY <1>2 DEF HandleAtn, EnterCommands, ports, state
<1>3. CASE IfcWait
  BY <1>3 DEF IfcWait
<1>4. CASE CommandNdac
  BY <1>4 DEF CommandNdac, irq, state
<1>5. CASE CommandReady
  BY <1>5 DEF CommandReady, irq, state
<1>6. CASE CommandAbort
  BY <1>6 DEF CommandAbort, ieee488_BusIdle, ports, state
<1>7. CASE CommandByte
  BY <1>7 DEF CommandByte, irq
<1>8. CASE CommandAccepted
  BY <1>8 DEF CommandAccepted, ports, state, irq
<1>9. CASE Unlisten
  BY <1>9 DEF Unlisten, ieee488_BusIdle, irq, state
<1>10. CASE Process
  BY <1>10 DEF Process, ports, irq
<1>11. CASE Untalk
  BY <1>11 DEF Untalk, ieee488_BusIdle, irq
<1>12. CASE Address
  BY <1>12 DEF Address, ports, irq
<1>13. CASE Ignore
  BY <1>13 DEF Ignore, ports, irq, state
<1>14. CASE CloseBegin
  BY <1>14 DEF CloseBegin, ports, irq, state
<1>15. CASE Close
  BY <1>15 DEF Close, ports, irq
<1>16. CASE WaitAtn
  BY <1>16 DEF WaitAtn, ports, irq, state, RoleCycle
<1> QED
  BY <1>1, <1>2, <1>3, <1>4, <1>5, <1>6, <1>7, <1>8, <1>9, <1>10, <1>11, <1>12,
     <1>13, <1>14, <1>15, <1>16 DEF CommandStep

\* The first character of a command or a name: the buffer is empty, as it should be.
LEMMA OpenBytes ==
  ASSUME Known, RoleInv, ByteInv, Main, OpenName PROVE ByteInv'
<1>1. /\ ~Flagged /\ command_length = 0 /\ pc = "openwait" /\ ATN = TRUE /\ IFC = TRUE
      /\ command_received = FALSE /\ open_active = FALSE /\ cmd \in {"OPEN", "OPEN15"}
      /\ ListenActive \in BOOLEAN
      /\ UNCHANGED <<ATN_received, ListenActive, command_length, cmd>>
  BY DEF OpenName, At, irq, ByteInv, Reception, Buffer, Flagged, Known, LineTypes, StateTypes,
     RoleInv, DeviceRoles, DeviceShape
<1>2. CASE ListenActive = TRUE
  <2>1. /\ pc' = "r1" /\ mode' = "chars" /\ open_active' = TRUE
    BY <1>1, <1>2 DEF OpenName, Goto
  <2>2. /\ sent = 0 /\ cyc[2] = cmd /\ cpc = "hs0"
    BY <1>1, <1>2 DEF ByteInv, Reception, RoleInv, DeviceRoles, Released, Roles, Listens,
       Pending
  <2>3. Least(0) = 0
    BY IeeeAssumption DEF Least
  <2> QED
    BY <1>1, <1>2, <2>1, <2>2, <2>3 DEF Main, ByteInv, Reception, Buffer, Flagged, Owing,
       Listening, CyclePlaces
<1>3. CASE ListenActive = FALSE
  <2>1. /\ pc' = "c1" /\ open_active' = FALSE /\ command_received' = FALSE
    BY <1>1, <1>3 DEF OpenName, Goto
  <2> QED
    BY <1>1, <1>3, <2>1 DEF Main, ByteInv, Reception, Buffer, Flagged, Owing,
       Listening, CyclePlaces
<1> QED
  BY <1>1, <1>2, <1>3

\* DATA to a listener: only channel 15 collects characters, from the first on.
LEMMA LoopBytes ==
  ASSUME Known, RoleInv, ByteInv, Main, NEW b \in BOOLEAN, ListenLoop(b) PROVE ByteInv'
<1>1. /\ ~Flagged /\ command_length = 0 /\ pc = "secwait" /\ ATN = TRUE /\ IFC = TRUE
      /\ command_received = FALSE /\ open_active = FALSE /\ cmd \in {"DATA", "DATA15"}
      /\ ListenActive = TRUE /\ pc' = "r1" /\ open_active' = FALSE
      /\ UNCHANGED <<ATN_received, ListenActive, command_length, cmd>>
  BY DEF ListenLoop, At, Goto, irq, ByteInv, Reception, Buffer, Flagged, Known, LineTypes,
     StateTypes, RoleInv, DeviceRoles, DeviceShape
<1>2. /\ sent = 0 /\ cyc[2] = cmd /\ cpc = "hs0"
  BY <1>1 DEF ByteInv, Reception, RoleInv, DeviceRoles, Released, Roles, Listens, Pending
<1>3. /\ command_received' = TRUE <=> cmd = "DATA15"
      /\ mode' = "chars" <=> cmd = "DATA15"
  BY <1>1 DEF ListenLoop
<1>4. Least(0) = 0
  BY IeeeAssumption DEF Least
<1> QED
  BY <1>1, <1>2, <1>3, <1>4 DEF Main, ByteInv, Reception, Buffer, Flagged, Owing,
     Listening, CyclePlaces

\* ieee488_ListenLoop stores every character once.
LEMMA ListenBytes ==
  ASSUME Known, RoleInv, ByteInv, Main, HostTypes, ListenStep PROVE ByteInv'
<1> USE DEF ByteInv, Reception, Buffer, Flagged, Owing, Listening, CyclePlaces, Main,
        RoleInv, DeviceRoles, DeviceShape, Noticed, Commanded, Released, LineShape,
        Roles, Listens, Pending, Executing, CycleWords, Unaddressed, Secondaries,
        Known, PortTypes, IrqTypes, StateTypes, LineTypes, At, Goto, Skip, SetLines
<1>1. CASE OpenName
  BY <1>1, OpenBytes
<1>2. CASE OpenIfc
  BY <1>2 DEF OpenIfc, ports, state
<1>3. CASE NotAddressed
  BY <1>3 DEF NotAddressed, ports, irq, state
<1>4. CASE \E b \in BOOLEAN : ListenLoop(b)
  BY <1>4, LoopBytes
<1>5. CASE RxReady
  BY <1>5 DEF RxReady, irq, state
<1>6. CASE RxNdac
  BY <1>6 DEF RxNdac, irq, state
<1>7. CASE RxAbort
  BY <1>7 DEF RxAbort, ports, state
<1>8. CASE RxByte
  BY <1>8 DEF RxByte, irq, state, DAV
<1>9. CASE RxTaken
  BY <1>9 DEF RxTaken, irq, state, DAV
<1>10. CASE RxEnd
  BY <1>10 DEF RxEnd, irq, state, DAV
<1>11. CASE \E b \in BOOLEAN : Store(b)
  BY <1>11, IeeeAssumption DEF Store, ports, HostTypes, Least
<1> QED
  BY <1>1, <1>2, <1>3, <1>4, <1>5, <1>6, <1>7, <1>8, <1>9, <1>10, <1>11 DEF ListenStep

\* ieee488_TalkLoop does not touch the buffer.
LEMMA TalkBytes ==
  ASSUME Known, RoleInv, ByteInv, Main, TalkStep PROVE ByteInv'
<1> USE DEF ByteInv, Reception, Buffer, Flagged, Owing, Listening, CyclePlaces, Main,
        Known, PortTypes, IrqTypes, StateTypes, LineTypes, At, Goto, Skip, SetLines
<1>1. CASE TalkNoBuffer
  BY <1>1 DEF TalkNoBuffer, ieee488_BusIdle, irq, state
<1>2. CASE TalkLoop
  BY <1>2 DEF TalkLoop, CtrlPortsTalk, irq, state
<1>3. CASE TalkIfc
  BY <1>3 DEF TalkIfc, TalkReturn, CheckIFC, ports, state
<1>4. CASE TalkAbortIdle
  BY <1>4 DEF TalkAbortIdle, TalkReturn, ieee488_BusIdle, state
<1>5. CASE TalkAbort
  BY <1>5 DEF TalkAbort, TalkReturn, ports, state
<1>6. CASE TalkAbortT5
  BY <1>6 DEF TalkAbortT5, TalkReturn, state
<1>7. CASE TalkAbortT6
  BY <1>7 DEF TalkAbortT6, TalkReturn, state
<1>8. CASE TalkByte
  BY <1>8 DEF TalkByte, TalkGo, irq, state
<1>9. CASE DataTalk
  BY <1>9 DEF DataTalk, irq, state
<1>13. CASE \E b \in BOOLEAN : TalkFlag(b)
  BY <1>13 DEF TalkFlag, irq, state
<1>14. CASE DataFlagTalk
  BY <1>14 DEF DataFlagTalk, irq, state
<1>10. CASE TalkHandshake
  BY <1>10 DEF TalkHandshake, TalkGo, irq, state
<1>11. CASE \E b \in BOOLEAN : TalkNext(b)
  BY <1>11 DEF TalkNext, ports, irq, state
<1>12. CASE \E b \in BOOLEAN : TalkRefill(b)
  BY <1>12 DEF TalkRefill, TalkGo, irq, state
<1> QED
  BY <1>1, <1>2, <1>3, <1>4, <1>5, <1>6, <1>7, <1>8, <1>9, <1>10, <1>11, <1>12,
     <1>13, <1>14
     DEF TalkStep

\* Nor does the interrupt, and none is due between the bytes of a handshake.
LEMMA InterruptBytes == ASSUME Known, RoleInv, ByteInv, AtnInterrupt PROVE ByteInv'
<1>1. /\ edge = TRUE /\ edge' = FALSE
      /\ te' = "listen" /\ nrfd' = FALSE /\ ndac' = TRUE /\ ATN_received' = TRUE
      /\ UNCHANGED <<pc, dav, IFCreceived, ListenActive, TalkingDevice, cmd, cpc,
                     command_received, open_active, command_length, mode, sent,
                     cyc, k, ATN, IFC, cDAV, cNRFD, cNDAC, role, setting>>
  BY DEF AtnInterrupt, state, lines, Known, LineTypes
<1> QED
  BY <1>1 DEF ByteInv, Reception, Buffer, Flagged, Owing

\* A command byte does not make the controller forget characters in use.
LEMMA TakenBytes ==
  ASSUME Known, RoleInv, ByteInv, HostTypes, CommandTaken PROVE ByteInv'
<1>0. Taken
  BY TakenAt DEF HostTypes
<1>1. /\ sent' = IF cyc[k] = "LISTEN" THEN 0 ELSE sent
      /\ UNCHANGED <<command_received, open_active, command_length, mode>>
      /\ UNCHANGED <<pc, ATN_received, ListenActive, cmd>>
  BY <1>0 DEF Taken, Rest, CommandTaken, Host, Device, state
<1>2. Flagged => cyc[k] # "LISTEN" /\ k = 1
  BY <1>0 DEF Taken, ByteInv, Buffer, CyclePlaces, Known, CycleWords, Secondaries
<1>3. role' = "listener" => sent' = 0
  <2>1. CASE cyc[k] = "LISTEN"
    BY <1>1, <2>1
  <2>2. CASE cyc[k] # "LISTEN"
    <3>1. role' = "listener" => role = "listener" /\ cyc[k] # "UNLISTEN"
      BY <1>0, <2>2 DEF Taken, RoleAfter
    <3>2. role = "listener" /\ cyc[k] # "UNLISTEN" => k = 2
      BY <1>0 DEF Taken, RoleInv, RoleCycle, CyclePlaces, Known, CycleWords
    <3> QED
      BY <1>0, <1>1, <2>2, <3>1, <3>2 DEF Taken, ByteInv, Reception, CyclePlaces
  <2> QED
    BY <2>1, <2>2
<1>4. Reception'
  BY <1>0, <1>1, <1>3 DEF Taken, ByteInv, Reception, Listening, CyclePlaces, Flagged
<1>5. Buffer'
  BY <1>0, <1>1, <1>2 DEF Taken, ByteInv, Buffer, Flagged, Owing, CyclePlaces, Least
<1> QED
  BY <1>4, <1>5 DEF ByteInv

\* No data follow the UNLISTEN of a buffer in use.
LEMMA ReleaseBytes ==
  ASSUME Known, RoleInv, ByteInv, HostTypes, ReleaseATN PROVE ByteInv'
<1>0. Ended
  BY EndedAt DEF HostTypes
<1>1. /\ UNCHANGED <<command_received, open_active, command_length, mode>>
      /\ UNCHANGED <<pc, ATN_received, ListenActive, cmd>>
  BY <1>0 DEF Ended, Rest, ReleaseATN, Host, Device, state
<1>2. Flagged => Follows = "idle"
  <2> SUFFICES ASSUME Flagged PROVE Follows = "idle"
    OBVIOUS
  <2>1. cyc[1] = "UNLISTEN" \/ pc = "process"
    BY <1>0 DEF Ended, ByteInv, Buffer, CyclePlaces
  <2>2. pc = "process" => cyc[k] = "UNLISTEN"
    BY <1>0 DEF Ended, RoleInv, DeviceRoles, DeviceShape, Commanded, Executing
  <2> QED
    BY <1>0, <2>1, <2>2 DEF Ended, Known, CycleWords, CyclePlaces, Secondaries
<1> QED
  BY <1>0, <1>1, <1>2 DEF Ended, ByteInv, Reception, Buffer, Flagged, Owing, Listening,
     CyclePlaces

\* The controller is through with a character: the device owes it to the buffer.
LEMMA SentBytes ==
  ASSUME Known, RoleInv, ByteInv, HostTypes, HostSent PROVE ByteInv'
<1>1. /\ cpc = "hsd" /\ cpc' = "hs0" /\ cDAV' = TRUE
      /\ UNCHANGED <<edge, cyc, k, ATN, IFC, role>>
      /\ sent' = IF Counted THEN sent + 1 ELSE sent
      /\ UNCHANGED <<command_received, open_active, command_length, mode>>
      /\ UNCHANGED <<pc, ATN_received, ListenActive, cmd>>
      /\ IFC = TRUE /\ ATN = TRUE /\ cDAV = FALSE
  BY DEF HostSent, Host, Device, state, irq, RoleInv, LineShape, CyclePlaces, Known, LineTypes
<1>2. pc \in {"main", "racc"}
  BY <1>1, ReactsAt DEF HostSent, HostTypes, RoleInv, DeviceRoles, DeviceShape, Released,
     Listening,
     Polls, Long, Leaves, DAV
<1>3. Flagged => pc = "racc" /\ sent' = sent + 1
  <2> SUFFICES ASSUME Flagged PROVE pc = "racc" /\ sent' = sent + 1
    OBVIOUS
  <2>1. pc = "racc" /\ ListenActive = TRUE /\ cyc[2] # "DATA"
    BY <1>1, <1>2 DEF ByteInv, Reception, Buffer, Listening
  <2>2. role = "listener"
    BY <1>1, <2>1 DEF RoleInv, DeviceRoles, Roles, Listens, Pending
  <2> QED
    BY <1>1, <2>1, <2>2 DEF Counted
<1>4. Reception'
  BY <1>1, <1>2 DEF ByteInv, Reception, Listening, CyclePlaces, Flagged
<1>5. Flagged => sent' >= 1 /\ sent' - 1 = sent
  BY <1>3 DEF HostTypes
<1>6. Buffer'
  BY <1>1, <1>2, <1>3, <1>5 DEF ByteInv, Buffer, Flagged, Owing, Listening, CyclePlaces
<1> QED
  BY <1>4, <1>6 DEF ByteInv

\* Every step of the controller.
LEMMA HostBytes ==
  ASSUME Known, RoleInv, ByteInv, HostTypes, HasIFC = FALSE, HostStep \/ HostChoice
  PROVE  ByteInv'
<1>0. /\ Rest
      /\ UNCHANGED <<command_received, open_active, command_length, mode>>
      /\ setting \in Settings
  BY HostRest, HostDevice DEF Device, state, HostTypes
<1> USE <1>0, ReactsAt
    DEF ByteInv, Reception, Buffer, Flagged, Owing, Listening, CyclePlaces, Rest, Host,
        RoleInv, DeviceRoles, DeviceShape, Noticed, Commanded, Released, LineShape,
        Roles, Listens, Pending,
        Known, PortTypes, IrqTypes, StateTypes, LineTypes, Delays, Polls, Long, Leaves,
        Aborted,
        DAV
<1>1. CASE Acknowledged
  BY <1>1 DEF Acknowledged, lines
<1>2. CASE NotPresent
  BY <1>2 DEF NotPresent, busNRFD, busNDAC, Turned, Late
<1>3. CASE PutByte
  BY <1>3 DEF PutByte
<1>4. CASE CommandTaken
  BY <1>4, TakenBytes
<1>5. CASE ReleaseATN
  BY <1>5, ReleaseBytes
<1>6. CASE HostSent
  BY <1>6, SentBytes
<1>7. CASE HostReceive
  BY <1>7 DEF HostReceive, HostLine
<1>8. CASE HostTakes
  BY <1>8 DEF HostTakes, HostLine
<1>9. CASE ReleaseIFC
  BY <1>9 DEF ReleaseIFC
<1>10. CASE \E c \in Cycles : AssertATN(c)
  BY <1>10 DEF AssertATN, Settled
<1>11. CASE HostSend
  BY <1>11 DEF HostSend, lines
<1>12. CASE HostReady
  BY <1>12 DEF HostReady, HostLine
<1>13. CASE \E b \in BOOLEAN : AssertIFC(b)
  BY <1>13 DEF AssertIFC
<1> QED
  BY <1>1, <1>2, <1>3, <1>4, <1>5, <1>6, <1>7, <1>8, <1>9, <1>10, <1>11, <1>12,
     <1>13 DEF HostStep, HostChoice

\* Only a board with IFC sees it.
ByteIfc == HasIFC = FALSE => ByteInv

\* The board and its timing do not change.
LEMMA SettingStays == BusInv /\ [Next]_vars => setting' = setting
<1>1. DeviceStep /\ BusInv => setting' = setting
  BY BusKnown, MainStep DEF Main
<1>2. HostStep \/ HostChoice => setting' = setting
  BY HostRest DEF Rest
<1>3. AtnInterrupt => setting' = setting
  BY DEF AtnInterrupt
<1>4. UNCHANGED vars => setting' = setting
  BY DEF vars, host
<1> QED
  BY <1>1, <1>2, <1>3, <1>4 DEF Next

\* Every step keeps it.
LEMMA ByteStep == BusInv /\ RoleInv /\ ByteIfc /\ [Next]_vars => ByteIfc'
<1> SUFFICES ASSUME BusInv, RoleInv, ByteInv, [Next]_vars, HasIFC = FALSE PROVE ByteInv'
  BY SettingStays DEF ByteIfc, HasIFC
<1>1. Known /\ HostTypes
  BY BusKnown
<1>2. CASE DeviceStep
  BY <1>1, <1>2, MainStep, CommandBytes, ListenBytes, TalkBytes DEF DeviceStep
<1>3. CASE AtnInterrupt
  BY <1>1, <1>3, InterruptBytes
<1>4. CASE HostStep \/ HostChoice
  BY <1>1, <1>4, HostBytes
<1>5. CASE UNCHANGED vars
  BY <1>5 DEF vars, ports, irq, state, host, lines, ByteInv, Reception, Buffer, Flagged, Owing
<1> QED
  BY <1>2, <1>3, <1>4, <1>5 DEF Next

\* A command or a name that is executed is what the controller sent, and no byte
\* that the controller took is sent again.
THEOREM BytesExactHolds == Spec => []BytesExact
<1>1. Init => TalkInv /\ ByteIfc
  <2>1. Init => TalkInv
    BY DEF Init, TalkInv, Handshake, Count, Talking, Sending, CyclePlaces
  <2>2. Init => ByteInv
    BY DEF Init, ByteInv, Reception, Buffer, Flagged, Listening, CyclePlaces
  <2> QED
    BY <2>1, <2>2 DEF ByteIfc
<1>2. BusInv /\ TalkInv /\ ByteIfc => BytesExact
  <2> SUFFICES ASSUME BusInv, TalkInv, ByteIfc PROVE BytesExact
    OBVIOUS
  <2>1. NoByteTwice
    BY DEF NoByteTwice, TalkInv, Count
  <2>2. CommandIntact
    <3> SUFFICES ASSUME ~HasIFC, pc = "process", command_received \/ open_active
                 PROVE  command_length = IF sent < CmdSize THEN sent ELSE CmdSize
      BY DEF CommandIntact
    <3>1. HasIFC = FALSE /\ Flagged
      BY IeeeAssumption, BusKnown DEF Known, HostTypes, StateTypes, HasIFC, Flagged
    <3> QED
      BY <3>1 DEF ByteIfc, ByteInv, Buffer, Owing, Least
  <2> QED
    BY <2>1, <2>2 DEF BytesExact
<1> QED
  BY <1>1, <1>2, InitBus, InitRoles, BusStep, RoleStep, TalkStepInv, ByteStep, PTL DEF Spec
===============================================================================
