------------------------------- MODULE IecBus -------------------------------
(***************************************************************************)
(* The serial bus of iec.c: devices that run iec_mainloop with its byte    *)
(* transfer routines and the ATN interrupt, and a computer that behaves    *)
(* like the ROM of a C64, with or without JiffyDOS.                        *)
(*                                                                         *)
(* A device is a record: pc is the place in the code, clk and data what it *)
(* does to the lines (TRUE: released).  A byte has Bits bits; a bit on the *)
(* line is told by its byte and its number.  What a command or a callback  *)
(* of a buffer does is in Channels; here it is a place where time passes.  *)
(* DolphinDOS transfers and JiffyDOS's LOAD protocol are left out.         *)
(*                                                                         *)
(* Timing: a loop of the firmware that polls the bus is faster than the    *)
(* computer, which moves on only when each device waits for a line or is   *)
(* busy; delays of the firmware are longer than a loop of the computer.    *)
(***************************************************************************)
EXTENDS Integers, Sequences, FiniteSets

CONSTANTS Devices,      \* device_address of each device
          Bits,         \* bits of a byte
          CmdSize,      \* CONFIG_COMMAND_BUFFER_SIZE
          FileSize,     \* bound: bytes in a file that is read
          Setups        \* bound: the devices that are on, the channels the computer
                        \* uses, the bytes it sends after LISTEN, how often it is reset

ASSUME IecAssumption ==
  /\ {CmdSize, FileSize} \subseteq Nat \ {0} /\ Bits \in Nat \ {0, 1}
  /\ Setups \subseteq [on : SUBSET Devices, codes : SUBSET {"open", "data", "command", "close", "talk"},
                      bytes : Nat \ {0}, resets : Nat]

VARIABLES dev,      \* the devices
          host,     \* the computer
          garbled,  \* a device has taken bits of different bytes for one (history)
          absent,   \* the computer found no device although one is awake (history)
          mail,     \* the command each device has got and not yet executed (history)
          heard,    \* the last byte the computer has got of each open file (history)
          upset,    \* a device has left or joined the bus in the middle of a request (history)
          resets,
          setup

vars == <<dev, host, garbled, absent, mail, heard, upset, resets, setup>>

None == [c |-> "none", a |-> 0]

ATN  == host.atn
CLK  == host.clk /\ \A a \in Devices : dev[a].clk
DATA == host.data /\ \A a \in Devices : dev[a].data

-----------------------------------------------------------------------------
(* A device.  The next steps of the device a, in the place it is in, are a *)
(* set: empty while it waits.                                              *)

When(c, r) == IF c THEN {r} ELSE {}
Or(c, r, s) == IF c THEN {r} ELSE s

\* iec_check_atn, in a loop: what it changes, and the rest of the loop.
Leaves(d) == d.act = ATN
Left(d) == IF d.act THEN [d EXCEPT !.pc = "process", !.val = <<>>, !.act = FALSE, !.cmd = None]
                    ELSE [d EXCEPT !.pc = "found", !.val = <<>>]
Unless(d, s) == Or(Leaves(d), Left(d), s)

InGetc == {"rdy", "all", "low", "eoi", "eoi2", "bit", "pulse", "hold", "jrx", "jtx"}

\* A byte is whole if its bits are those of one byte in their order.
Whole(val) == \E i \in DOMAIN val : val = [j \in 1 .. Bits |-> [byte |-> val[i].byte, n |-> j]]

\* BUS_ATNACTIVE, after iec_getc
Command(a, d, b) ==
  LET e == [d EXCEPT !.cmd = b]
  IN  CASE b.c = "unlisten" -> [e EXCEPT !.role = IF @ = "listen" THEN "idle" ELSE @, !.pc = "finish"]
        [] b.c = "untalk"   -> [e EXCEPT !.role = IF @ = "talk" THEN "idle" ELSE @, !.pc = "finish"]
        [] b.c \in {"listen", "talk"} /\ b.a = a -> [e EXCEPT !.role = b.c, !.pc = "forme"]
        [] b.c \in {"open", "data", "command"} -> [e EXCEPT !.sa = b.c, !.pc = "finish"]
        [] b.c = "close" -> [e EXCEPT !.sa = b.c, !.pc = "close"]
        [] OTHER -> [e EXCEPT !.pc = "notforme"]

\* A byte for the command buffer: the channel is 15, or it is the name of a file.
ToCommand(d) == d.cmd.c \in {"open", "command", "none"}

Receive(d) == [d EXCEPT !.pc = IF "JIFFY" \in d.flags THEN "jrx" ELSE "rdy",
                        !.data = @ \/ "JIFFY" \in d.flags]

\* The loop of iec_listen_handler; a buffer that is full is written.
Keep(d, b) ==
  IF ToCommand(d)
    THEN {[Receive(d) EXCEPT !.text = IF Len(@) < CmdSize THEN Append(@, b) ELSE @,
                             !.flags = IF "EOI" \in d.flags THEN @ \cup {"CMD"} ELSE @]}
    ELSE {[e EXCEPT !.rx = Append(@, b)] : e \in {Receive(d), [d EXCEPT !.pc = "flush"]}}

\* The end of iec_getc: DATA is pulled until the device is ready for more.
Taken(a, d) ==
  LET e == [d EXCEPT !.data = FALSE, !.val = <<>>]
      b == d.val[1].byte
  IN  IF d.act THEN {Command(a, e, b)} ELSE Keep(e, b)

Noise == [c |-> "noise", a |-> 0]

\* jiffy_receive while the computer sends no byte.  With ATN low it pulls DATA
\* and ends when the clock rises; a computer that was reset leaves the clock
\* high, which looks like a byte with EOI, again and again (noted once).
jiffy_receive(d) ==
  IF ATN THEN IF host.pc = "free" /\ \A i \in DOMAIN (d.text \o d.rx) : (d.text \o d.rx)[i] # Noise
              THEN Keep([d EXCEPT !.flags = @ \cup {"EOI"}], Noise) ELSE {}
  ELSE Or(CLK, [d EXCEPT !.pc = "found"], When(d.data, [d EXCEPT !.data = FALSE]))

\* The computer takes its time: EOI before a byte, JiffyDOS before its last bit.
Slow == host.pc \in {"eoi1", "eoi2"}
Asks == host.pc = "jiffy"

\* The clock falls after a bit.
Fall(a, d) ==
  Unless(d, IF CLK THEN {} ELSE IF Len(d.val) < Bits THEN {[d EXCEPT !.pc = "bit"]} ELSE Taken(a, d))

\* _iec_getc
getc(a, d) ==
  CASE d.pc = "rdy" -> Unless(d, When(CLK, [d EXCEPT !.pc = "all", !.data = TRUE]))
    [] d.pc = "all" -> When(DATA, [d EXCEPT !.pc = "low"])
    [] d.pc = "low" -> Unless(d, Or(~CLK, [d EXCEPT !.pc = "bit"],
                                    When(Slow \/ host.pc = "free", [d EXCEPT !.pc = "eoi", !.data = FALSE])))
    [] d.pc = "eoi" -> When(host.pc # "eoi1", [d EXCEPT !.pc = "eoi2", !.data = TRUE])
    [] d.pc = "eoi2" -> Unless(d, When(~CLK, [d EXCEPT !.pc = "bit", !.flags = @ \cup {"EOI"}]))
    [] d.pc = "bit" ->
         Or(CLK, [d EXCEPT !.pc = "hold", !.val = Append(@, [byte |-> host.byte, n |-> host.bit])],
            When(Asks /\ d.act /\ Len(d.val) = Bits - 1 /\ "JIFFY" \notin d.flags
                   /\ d.val[1].byte.c \in {"listen", "talk"} /\ d.val[1].byte.a = a,
                 [d EXCEPT !.pc = "pulse", !.data = FALSE, !.flags = @ \cup {"JIFFY"}]))
    [] d.pc = "pulse" -> When(~Asks, [d EXCEPT !.pc = "bit", !.data = TRUE])
    [] d.pc = "hold" -> Fall(a, d)
    [] d.pc = "jrx" -> jiffy_receive(d)
    [] OTHER -> {}

Final(d) == d.left = 1

\* iec_putc up to the bits, and after them: the byte counts as sent when the
\* computer has pulled DATA.
putc(d) ==
  CASE d.pc = "putc" -> Unless(d, {IF "JIFFY" \in d.flags THEN [d EXCEPT !.pc = "jtx", !.data = TRUE, !.clk = TRUE]
                                   ELSE [d EXCEPT !.pc = "put1", !.clk = TRUE, !.eoi = Final(d) \/ DATA]})
    [] d.pc = "put1" -> Unless(d, When(DATA, IF d.eoi THEN [d EXCEPT !.pc = "put2"]
                                             ELSE [d EXCEPT !.pc = "put3", !.clk = FALSE]))
    [] d.pc = "put2" -> Unless(d, When(~DATA, [d EXCEPT !.pc = "put3", !.clk = FALSE]))
    [] d.pc = "put3" -> Unless(d, When(DATA, [d EXCEPT !.pc = "tx"]))
    [] d.pc = "tx" -> Or(~DATA, [d EXCEPT !.pc = "cleanup"],
                         When(host.pc \notin {"r2", "take"}, [d EXCEPT !.pc = "ack"]))
    [] d.pc = "jtx" -> Unless(d, When(DATA /\ host.pc \notin {"j1", "jread"}, [d EXCEPT !.pc = "ack"]))
    [] d.pc = "ack" -> Unless(d, When(~DATA, [d EXCEPT !.pc = "sent"]))
    [] OTHER -> {}

\* Mistake: the position is not moved before the next block is read.
Sent_block(d) ==
  LET e == [d EXCEPT !.left = @ - 1]
  IN  IF Final(d) THEN {[e EXCEPT !.pc = "cleanup"]} ELSE {[e EXCEPT !.pc = "putc"], [d EXCEPT !.pc = "refill"]}

\* iec_talk_handler after a byte: the end of the file, the next byte, or first
\* the next block of it.
Sent(d) ==
  LET e == [d EXCEPT !.left = @ - 1]
  IN  IF Final(d) THEN {[e EXCEPT !.pc = "cleanup"]} ELSE {[e EXCEPT !.pc = "putc"], [e EXCEPT !.pc = "refill"]}

\* Mistake: without a file the handler ends without BUS_CLEANUP.
talk_handler_empty(d) ==
  CASE d.pc = "talk" -> When(host.pc # "turn", [d EXCEPT !.pc = IF d.left > 0 THEN "putc" ELSE "idle"])
    [] d.pc = "sent" -> Sent(d)
    [] OTHER -> {}

\* iec_talk_handler
talk_handler(d) ==
  CASE d.pc = "talk" -> When(host.pc # "turn", [d EXCEPT !.pc = IF d.left > 0 THEN "putc" ELSE "cleanup"])
    [] d.pc = "sent" -> Sent(d)
    [] OTHER -> {}

\* Mistake: the role outlives the ATN sequence it was given in.
FoundAtn_role(d) ==
  [d EXCEPT !.pc = "sync1", !.clk = TRUE, !.data = FALSE, !.irq = FALSE, !.act = TRUE,
            !.flags = @ \ {"EOI", "JIFFY"}, !.rx = <<>>]

\* BUS_FOUNDATN
FoundAtn(d) ==
  [d EXCEPT !.pc = "sync1", !.clk = TRUE, !.data = FALSE, !.irq = FALSE, !.role = "idle", !.act = TRUE,
            !.flags = @ \ {"EOI", "JIFFY"}, !.rx = <<>>]

\* BUS_CLEANUP
Cleanup(d) == [d EXCEPT !.irq = TRUE, !.clk = TRUE, !.data = TRUE, !.act = FALSE,
                        !.pc = IF "CMD" \in d.flags THEN "work" ELSE "idle"]

\* BUS_NOTFORME
NotForMe(d) == [d EXCEPT !.irq = FALSE, !.clk = TRUE, !.data = TRUE, !.pc = "finish"]

\* BUS_ATNPROCESS
AtnProcess(d) ==
  LET e == [d EXCEPT !.irq = TRUE, !.act = FALSE]
  IN  CASE d.role = "listen" -> IF ToCommand(d) \/ d.write THEN Receive(e)
                                                         ELSE [e EXCEPT !.pc = "cleanup"]
        [] d.role = "talk" -> [e EXCEPT !.pc = "talk", !.data = TRUE, !.clk = FALSE]
        [] OTHER -> [e EXCEPT !.pc = "cleanup"]

\* The states of iec_mainloop.  The clock loops of BUS_FOUNDATN end when the
\* computer is ready to send.
mainloop(d) ==
  CASE d.pc = "idle" -> When(~ATN, [d EXCEPT !.pc = "found"])
    [] d.pc = "found" -> {FoundAtn(d)}
    [] d.pc = "sync1" -> When(~CLK \/ host.pc # "attend",
                              [d EXCEPT !.pc = "sync2", !.act = @ /\ ~ATN])
    [] d.pc = "sync2" -> When(CLK, [d EXCEPT !.pc = IF d.act /\ ~ATN THEN "rdy" ELSE "process"])
    [] d.pc = "forme" -> {[d EXCEPT !.pc = IF ATN THEN "process" ELSE "rdy"]}
    [] d.pc = "notforme" -> {NotForMe(d)}
    [] d.pc = "finish" -> When(ATN, [d EXCEPT !.pc = "process"])
    [] d.pc = "process" -> {AtnProcess(d)}
    [] d.pc = "cleanup" -> {Cleanup(d)}
    [] OTHER -> {}

Steps(a) == mainloop(dev[a]) \cup getc(a, dev[a]) \cup talk_handler(dev[a]) \cup putc(dev[a])

\* The computer moves on when the devices wait or are busy.
Quiet == \A a \in Devices : Steps(a) = {}

Step(a) ==
  /\ \E d \in Steps(a) : dev' = [dev EXCEPT ![a] = d]
  /\ garbled' = (garbled \/ (dev[a].pc = "hold" /\ ~Leaves(dev[a]) /\ dev'[a].val = <<>> /\ ~Whole(dev[a].val)))
  /\ UNCHANGED <<host, absent, mail, heard, upset, resets, setup>>

\* A device leaves or joins the bus in the middle of something: ATN is active or
\* the computer waits for the device to take the next byte.
Upset == upset' = (upset \/ ~ATN \/ host.pc = "ready")

\* buf->refill while writing: if it fails the buffer is gone.
Flush(a) ==
  /\ dev[a].pc = "flush"
  /\ \/ dev' = [dev EXCEPT ![a] = Receive(@)] /\ UNCHANGED upset
     \/ dev' = [dev EXCEPT ![a].pc = "process", ![a].write = FALSE] /\ Upset
  /\ UNCHANGED <<host, garbled, absent, mail, heard, resets, setup>>

\* buf->refill while reading
Refill(a) ==
  /\ dev[a].pc = "refill"
  /\ \/ dev' = [dev EXCEPT ![a].pc = "putc"] /\ UNCHANGED upset
     \/ dev' = [dev EXCEPT ![a].pc = "cleanup", ![a].left = 0] /\ Upset
  /\ UNCHANGED <<host, garbled, absent, mail, heard, resets, setup>>

\* CLOSE, while ATN is active or has been
Close(a) ==
  /\ dev[a].pc = "close"
  /\ \/ dev' = [dev EXCEPT ![a].pc = "forme", ![a].write = FALSE, ![a].left = 0] /\ UNCHANGED upset
     \/ dev' = [dev EXCEPT ![a].pc = "cleanup", ![a].write = FALSE, ![a].left = 0] /\ Upset
  /\ UNCHANGED <<host, garbled, absent, mail, heard, resets, setup>>

Files == {[write |-> FALSE, left |-> FileSize], [write |-> TRUE, left |-> 0],
          [write |-> FALSE, left |-> 0]}

\* The commands of BUS_CLEANUP: parse_doscommand, or file_open that opens the
\* file for reading, for writing or not at all
Work(a) ==
  LET e == [dev[a] EXCEPT !.pc = "idle", !.text = <<>>, !.flags = @ \ {"CMD"}]
  IN  /\ dev[a].pc = "work"
      /\ \/ dev[a].sa = "command" /\ dev' = [dev EXCEPT ![a] = e] /\ UNCHANGED heard
         \/ /\ dev[a].sa # "command" /\ heard' = [heard EXCEPT ![a] = 0]
            /\ \E f \in Files : dev' = [dev EXCEPT ![a] = [e EXCEPT !.write = f.write, !.left = f.left]]
      /\ mail' = [mail EXCEPT ![a] = <<>>]
      /\ UNCHANGED <<host, garbled, absent, upset, resets, setup>>

\* handle_lcd and handle_buttons in BUS_IDLE take their time.
Button(a) ==
  /\ dev[a].pc = "idle" /\ ATN
  /\ dev' = [dev EXCEPT ![a].pc = "button"]
  /\ UNCHANGED <<host, garbled, absent, mail, heard, upset, resets, setup>>

Released(a) == dev' = [dev EXCEPT ![a].pc = "idle"] /\ dev[a].pc = "button"
                 /\ UNCHANGED <<host, garbled, absent, mail, heard, upset, resets, setup>>

\* menu puts the bus to sleep, and wakes it.
iec_sleep(a) ==
  /\ \/ dev[a].pc = "button" /\ dev' = [dev EXCEPT ![a].pc = "asleep", ![a].irq = FALSE,
                                                   ![a].data = TRUE, ![a].clk = TRUE]
     \/ dev[a].pc = "asleep" /\ dev' = [dev EXCEPT ![a].pc = "idle", ![a].irq = TRUE]
  /\ Upset
  /\ UNCHANGED <<host, garbled, absent, mail, heard, resets, setup>>

-----------------------------------------------------------------------------
(* The computer.  The KERNAL holds back each byte it sends without ATN, so *)
(* that the last one goes with EOI.  pc names the line it waits for.       *)

Code(c, a) == [c |-> c, a |-> a]

\* A LISTEN with a secondary address, or a TALK of the file
Request(a, c) == IF c = "talk" THEN <<Code("talk", a), Code("data", 0)>> ELSE <<Code("listen", a), Code(c, 0)>>

Idle(fast) == [pc |-> "free", atn |-> TRUE, clk |-> TRUE, data |-> TRUE, request |-> <<>>, list |-> <<>>,
               byte |-> None, bit |-> 0, n |-> 0, eoi |-> FALSE, jiffy |-> FALSE, fast |-> fast]

\* After the last byte, and after an error, the lines are released.
Release(h) == Idle(h.fast)

Talking(h) == h.request[1].c = "talk"
Target(h) == h.request[1].a

\* ATN is pulled for a list of commands.
Call(h, list) ==
  [h EXCEPT !.pc = "attend", !.atn = FALSE, !.data = TRUE, !.list = Tail(list), !.byte = Head(list), !.eoi = FALSE]

\* After a byte: the next one, or ATN is released: end, turnaround or data.
Acked(h) ==
  CASE h.atn -> [h EXCEPT !.n = @ + 1, !.pc = IF h.eoi THEN "bye" ELSE "more"]
    [] ~h.atn /\ h.list # <<>> -> [h EXCEPT !.list = Tail(@), !.byte = Head(h.list), !.pc = "send"]
    [] ~h.atn /\ h.list = <<>> /\ h.byte.c \in {"unlisten", "untalk"} -> Release(h)
    [] OTHER -> IF Talking(h) THEN [h EXCEPT !.atn = TRUE, !.data = FALSE, !.clk = TRUE, !.pc = "turn"]
                              ELSE [h EXCEPT !.atn = TRUE, !.pc = "more"]

\* The next byte of data, if there is one.
More(h) ==
  {[h EXCEPT !.pc = IF h.jiffy THEN "jsend" ELSE "send", !.byte = Code("byte", h.n + 1), !.eoi = last] :
     last \in {b \in BOOLEAN : h.request[2].c # "close" /\ (b \/ h.n + 1 < setup.bytes)}}
   \cup When(h.n = 0, [h EXCEPT !.pc = "bye"])

\* Sending a byte, bit by bit
Sending(h) ==
  CASE h.pc = "attend" -> {[h EXCEPT !.clk = FALSE, !.pc = "send"]}
    [] h.pc = "send" -> {IF DATA THEN Release(h) ELSE [h EXCEPT !.clk = TRUE, !.pc = "ready"]}
    [] h.pc = "ready" -> When(DATA, IF h.eoi THEN [h EXCEPT !.pc = "eoi1"]
                                    ELSE [h EXCEPT !.clk = FALSE, !.pc = "low", !.bit = 1])
    [] h.pc = "eoi1" -> When(~DATA, [h EXCEPT !.pc = "eoi2"])
    [] h.pc = "eoi2" -> When(DATA, [h EXCEPT !.clk = FALSE, !.pc = "low", !.bit = 1])
    [] h.pc = "low" -> {IF h.fast /\ ~h.atn /\ h.bit = Bits THEN [h EXCEPT !.pc = "jiffy"]
                                                            ELSE [h EXCEPT !.clk = TRUE, !.pc = "high"]}
    [] h.pc = "jiffy" -> {[h EXCEPT !.jiffy = @ \/ ~DATA, !.pc = "jiffy2"]}
    [] h.pc = "jiffy2" -> {[h EXCEPT !.clk = TRUE, !.pc = "high"]}
    [] h.pc = "high" -> {[h EXCEPT !.clk = FALSE, !.pc = IF h.bit < Bits THEN "low" ELSE "ack",
                                   !.bit = IF h.bit < Bits THEN @ + 1 ELSE 0]}
    [] h.pc = "ack" -> {IF DATA THEN Release(h) ELSE Acked(h)}
    [] h.pc = "more" -> More(h)
    [] OTHER -> {}

\* Receiving a byte up to its bits; two time-outs in a row are an error.
Receiving(h) ==
  CASE h.pc = "turn" -> When(~CLK, [h EXCEPT !.pc = IF h.jiffy THEN "j1" ELSE "r1"])
    [] h.pc = "r1" -> When(CLK, [h EXCEPT !.data = TRUE, !.pc = "r2", !.eoi = FALSE])
    [] h.pc = "r2" -> {IF ~CLK THEN [h EXCEPT !.pc = "take"]
                       ELSE IF h.eoi THEN Release(h) ELSE [h EXCEPT !.data = FALSE, !.pc = "r3"]}
    [] h.pc = "r3" -> {[h EXCEPT !.data = TRUE, !.pc = "r2", !.eoi = TRUE]}
    [] h.pc = "j1" -> When(CLK, [h EXCEPT !.data = TRUE, !.pc = "jread"])
    [] h.pc = "got" -> IF h.eoi THEN {[h EXCEPT !.data = TRUE, !.pc = "bye"]}
                       ELSE {[h EXCEPT !.pc = "bye"], [h EXCEPT !.pc = IF h.jiffy THEN "j1" ELSE "r1"]}
    [] OTHER -> {}

\* A name or a command that is complete is in the mail.
Post(h) ==
  mail' = IF h.eoi /\ ~Talking(h) /\ h.request[2].c \in {"open", "command"}
          THEN [mail EXCEPT ![Target(h)] = [i \in 1 .. h.n + 1 |-> Code("byte", i)]] ELSE mail

Computer ==
  /\ host.pc # "free" /\ Quiet
  /\ \E h \in Sending(host) \cup Receiving(host) : host' = h
  /\ IF host.pc = "ack" /\ host.atn /\ ~DATA THEN Post(host) ELSE UNCHANGED mail
  /\ absent' = (absent \/ (host.pc = "send" /\ ~host.atn /\ DATA /\ \E a \in Devices : dev[a].pc \notin {"asleep", "off"}))
  /\ UNCHANGED <<dev, garbled, heard, upset, resets, setup>>

\* The interrupt of each device that waits or works answers when ATN is pulled.
ATN_HANDLER == dev' = [a \in Devices |-> IF dev[a].irq /\ dev[a].pc \notin InGetc
                                         THEN [dev[a] EXCEPT !.data = FALSE] ELSE dev[a]]

\* A computer takes longer to start than a device for a callback.
Booted == resets > 0 => \A a \in Devices : dev[a].pc \notin {"flush", "refill", "close", "work"}

Begin ==
  /\ host.pc = "free" /\ Quiet /\ Booted
  /\ \E a \in setup.on, c \in setup.codes :
       host' = Call([host EXCEPT !.request = Request(a, c)], Request(a, c))
  /\ ATN_HANDLER
  /\ upset' = FALSE /\ garbled' = FALSE /\ absent' = FALSE
  /\ UNCHANGED <<mail, heard, resets, setup>>

End ==
  /\ host.pc = "bye" /\ Quiet
  /\ host' = Call(host, <<Code(IF Talking(host) THEN "untalk" ELSE "unlisten", 0)>>)
  /\ ATN_HANDLER
  /\ UNCHANGED <<garbled, absent, mail, heard, upset, resets, setup>>

\* A byte read from device a, and the acknowledgement
Take(a) ==
  /\ host.pc = "take" /\ dev[a].pc = "tx" /\ Quiet
  /\ dev' = [dev EXCEPT ![a].pc = "ack"]
  /\ host' = [host EXCEPT !.data = FALSE, !.pc = "got", !.n = @ + 1]
  /\ heard' = [heard EXCEPT ![a] = FileSize - dev[a].left + 1]
  /\ UNCHANGED <<garbled, absent, mail, upset, resets, setup>>

\* The same with JiffyDOS, where the end is told with the byte
JiffyRead(a) ==
  /\ host.pc = "jread" /\ dev[a].pc = "jtx" /\ Quiet
  /\ dev' = [dev EXCEPT ![a].pc = "ack", ![a].clk = Final(dev[a])]
  /\ host' = [host EXCEPT !.data = FALSE, !.pc = "got", !.n = @ + 1, !.eoi = Final(dev[a])]
  /\ heard' = [heard EXCEPT ![a] = FileSize - dev[a].left + 1]
  /\ UNCHANGED <<garbled, absent, mail, upset, resets, setup>>

\* A byte sent to device a with JiffyDOS
JiffySend(a) ==
  /\ host.pc = "jsend" /\ dev[a].pc = "jrx" /\ Quiet
  /\ \E d \in Keep([dev[a] EXCEPT !.flags = IF host.eoi THEN @ \cup {"EOI"} ELSE @ \ {"EOI"}, !.data = FALSE],
                   host.byte) :
       dev' = [dev EXCEPT ![a] = d]
  /\ host' = Acked(host)
  /\ Post(host)
  /\ UNCHANGED <<garbled, absent, heard, upset, resets, setup>>

\* With JiffyDOS there is no one to take or to give a byte.
JiffyError ==
  /\ Quiet /\ DATA
  /\ \/ host.pc = "jsend" /\ \A a \in Devices : dev[a].pc # "jrx"
     \/ host.pc = "jread" /\ \A a \in Devices : dev[a].pc # "jtx"
  /\ host' = Release(host)
  /\ UNCHANGED <<dev, garbled, absent, mail, heard, upset, resets, setup>>

\* The computer is reset and lets go of the bus.
Reset ==
  /\ host.pc # "free" /\ resets < setup.resets
  /\ host' = Release(host) /\ resets' = resets + 1
  /\ UNCHANGED <<dev, garbled, absent, mail, heard, upset, setup>>

-----------------------------------------------------------------------------
Drive == [pc |-> "idle", act |-> FALSE, cmd |-> None, role |-> "idle", sa |-> "none", flags |-> {},
          clk |-> TRUE, data |-> TRUE, irq |-> TRUE, val |-> <<>>, text |-> <<>>, rx |-> <<>>,
          write |-> FALSE, left |-> 0, eoi |-> FALSE]

Init ==
  /\ setup \in Setups
  /\ dev = [a \in Devices |-> IF a \in setup.on THEN Drive ELSE [Drive EXCEPT !.pc = "off", !.irq = FALSE]]
  /\ \E fast \in BOOLEAN : host = Idle(fast)
  /\ garbled = FALSE /\ absent = FALSE /\ upset = FALSE /\ resets = 0
  /\ mail = [a \in Devices |-> <<>>] /\ heard = [a \in Devices |-> 0]

Next ==
  \/ \E a \in Devices : Step(a)
  \/ \E a \in Devices : Flush(a)
  \/ \E a \in Devices : Refill(a)
  \/ \E a \in Devices : Close(a)
  \/ \E a \in Devices : Work(a)
  \/ \E a \in Devices : Button(a)
  \/ \E a \in Devices : Released(a)
  \/ \E a \in Devices : iec_sleep(a)
  \/ Computer
  \/ Begin
  \/ End
  \/ \E a \in Devices : Take(a)
  \/ \E a \in Devices : JiffyRead(a)
  \/ \E a \in Devices : JiffySend(a)
  \/ JiffyError
  \/ Reset

\* A device and its callbacks run on; the computer does not stop in the middle.
Fairness ==
  /\ WF_vars(\E a \in Devices : Step(a))
  /\ \A a \in Devices : WF_vars(Flush(a) \/ Refill(a) \/ Close(a) \/ Work(a) \/ Released(a))
  /\ WF_vars(Computer \/ End \/ JiffyError \/ \E a \in Devices : Take(a) \/ JiffyRead(a) \/ JiffySend(a))

Spec == Init /\ [][Next]_vars /\ Fairness

-----------------------------------------------------------------------------
(* Properties.                                                             *)

Places == InGetc \cup {"idle", "found", "sync1", "sync2", "forme", "notforme", "finish", "process", "cleanup",
                       "talk", "sent", "putc", "put1", "put2", "put3", "tx", "ack",
                       "flush", "refill", "close", "work", "button", "asleep", "off"}

Codes == [c : {"none", "noise", "listen", "talk", "unlisten", "untalk", "open", "data", "command", "close"},
          a : Devices \cup {0}] \cup [c : {"byte"}, a : 1 .. setup.bytes]

\* The devices and the computer are in a place of their code; buffers hold no
\* more than they can.
TypeOK ==
  /\ \A a \in Devices :
       /\ dev[a].pc \in Places /\ dev[a].role \in {"idle", "listen", "talk"} /\ dev[a].cmd \in Codes
       /\ dev[a].flags \subseteq {"EOI", "CMD", "JIFFY"} /\ dev[a].left \in 0 .. FileSize
       /\ dev[a].val \in Seq([byte : Codes, n : 0 .. Bits]) /\ Len(dev[a].val) <= Bits
       /\ dev[a].text \in Seq(Codes) /\ Len(dev[a].text) <= CmdSize
       /\ {dev[a].act, dev[a].clk, dev[a].data, dev[a].irq, dev[a].write, dev[a].eoi} \subseteq BOOLEAN
       /\ heard[a] \in 0 .. FileSize /\ Len(mail[a]) <= setup.bytes
  /\ host.byte \in Codes /\ host.bit \in 0 .. Bits /\ host.n \in 0 .. setup.bytes + FileSize
  /\ {host.atn, host.clk, host.data, host.eoi, host.jiffy, host.fast, garbled, absent, upset} \subseteq BOOLEAN
  /\ resets \in 0 .. setup.resets

Calm == ~upset /\ resets = 0

\* What a device takes for a byte (_iec_getc) is one byte of the computer, from
\* its first bit to its last, although devices get to the bus at different
\* times after a command, a button or a reset of the computer.
BytesWhole == ~upset => ~garbled

\* A device that is awake is always found: while its main loop is busy the ATN
\* interrupt, or DATA held since the last byte, answers for it.
DevicePresent == ~upset => ~absent

\* A device executes the command or name that it was sent, cut to the size of
\* the command buffer, and nothing of an earlier one (iec_listen_handler,
\* BUS_CLEANUP).
Cut(m) == SubSeq(m, 1, IF Len(m) < CmdSize THEN Len(m) ELSE CmdSize)
CommandWhole == Calm => \A a \in Devices : dev[a].pc = "work" => dev[a].text = Cut(mail[a])

\* A command that was acknowledged is executed before the device is idle again.
CommandDone ==
  Calm => \A a \in Devices : dev[a].pc = "idle" /\ host.pc = "free" => mail[a] = <<>> /\ dev[a].text = <<>>

\* Between two bytes the device has got what the computer has sent, in order.
StreamIntact ==
  ~upset /\ host.pc = "more" /\ host.request[2].c = "data" =>
    dev[Target(host)].rx = [i \in 1 .. host.n |-> Code("byte", i)]

\* The computer gets each byte of a file once and in order, over any number of
\* TALKs: the position of the device is behind the last byte the computer has.
InByte == {"ack", "sent"}
TalkOnce ==
  Calm => \A a \in Devices : dev[a].left > 0 /\ dev[a].pc \notin InByte => heard[a] = FileSize - dev[a].left

\* While data are sent no other device takes part.
RolesAgree ==
  ~upset /\ host.atn /\ host.pc \notin {"free", "bye"} =>
    \A a \in Devices \ {Target(host)} : dev[a].role = "idle"

\* A device that waits for ATN does not hold a line.
IdleLinesFree ==
  Calm => \A a \in Devices : dev[a].pc = "idle" /\ ATN => dev[a].clk /\ dev[a].data

\* The computer gets to the end of what it does, whatever the devices are busy
\* with, unless one leaves or joins the bus while ATN is active.
Ends == host.pc # "free" ~> (host.pc = "free" \/ upset)

\* Computer and devices agree on the bus: command bytes arrive whole at every
\* device, an ATN is always answered, only the addressed device has a role, and
\* an idle device holds no line.
BusAgreed == TypeOK /\ BytesWhole /\ DevicePresent /\ RolesAgree /\ IdleLinesFree

\* Data survive every interruption by ATN: a command is executed whole and
\* once, a file arrives byte by byte, and a byte is sent again exactly if the
\* computer has not taken it.
DataIntact == CommandWhole /\ CommandDone /\ StreamIntact /\ TalkOnce
=============================================================================
