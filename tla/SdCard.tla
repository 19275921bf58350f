------------------------------- MODULE SdCard -------------------------------
(***************************************************************************)
(* The driver of sdcard.c: initialisation, reading and writing of cards in *)
(* one or two slots over SPI.  The cards are outside: they answer commands *)
(* after their kind, may be pulled or inserted at any moment, and the line *)
(* garbles a command or a block now and then.                              *)
(*                                                                         *)
(* op is the call in progress.  op.cmd is the command that send_command is *)
(* about to send, and op.pc the place behind it.  A sector is Scale bytes  *)
(* long.  Speed, LED and the padding clocks are left out; so is the first  *)
(* GO_IDLE_STATE to all cards, whose frame is too short to be accepted.    *)
(***************************************************************************)
EXTENDS Integers, Sequences, FiniteSets

CONSTANTS MAX_CARDS,   \* slots
          Sectors,     \* sectors of a card
          Scale,       \* bytes of a sector
          Retries,     \* CONFIG_SD_AUTO_RETRIES
          Stock,       \* cards for each slot: kind, protected, working
          MaxOps,      \* bound: calls
          MaxNoise,    \* bound: garbled transfers
          MaxSwaps,    \* bound: insertions and removals
          Polls        \* bound: answers within CARD_TIMEOUT_TICKS

ASSUME SdAssumption ==
  /\ {MAX_CARDS, Sectors, Scale, Retries} \subseteq Nat \ {0} /\ {MaxOps, MaxNoise, MaxSwaps, Polls} \subseteq Nat
  /\ Stock \in [0 .. MAX_CARDS - 1 -> SUBSET [kind : {"MMC", "SD", "SDHC"}, wp : BOOLEAN, fault : {"none", "idle", "volts"}]]

VARIABLES slots,       \* the card in each slot
          cardtype,    \* CARD_MMCSD or CARD_SDHC
          disk_state,
          sel,         \* the device selected on the SPI bus
          op,          \* the call in progress
          mounted,     \* the drives whose last initialisation was successful
          missed,      \* disk_state became DISK_OK over a change (history)
          misled,      \* drives with an SDHC card not recognised as such (history)
          count,       \* calls so far, also what a write writes
          noise, swaps

vars == <<slots, cardtype, disk_state, sel, op, mounted, missed, misled, count, noise, swaps>>

Drives == 0 .. MAX_CARDS - 1
Empty == [kind |-> "none", wp |-> FALSE, fault |-> "none", state |-> "raw", crc |-> FALSE, data |-> <<>>]
None == "none"
SPIDEV_NONE == 0

-----------------------------------------------------------------------------
(* A card.  Its answer to a command is a pair of its next state and R1;    *)
(* "idle" and "ready" are the two answers without an error.                *)

Present(d) == slots[d] # Empty
Ready(d) == Present(d) /\ slots[d].state = "ready"

Answer(card, r) == [card |-> card, res |-> r]

Block(card, arg) == IF card.kind = "SDHC" THEN arg ELSE arg \div Scale
Valid(card, arg) == (card.kind = "SDHC" \/ arg % Scale = 0) /\ Block(card, arg) \in 0 .. Sectors - 1

\* Power-up may take any time.
Start(card) == {Answer(card, "idle"), Answer([card EXCEPT !.state = "ready"], "ready")}

Answers(card, cmd, arg) ==
  CASE cmd = "GO_IDLE_STATE" ->
         {IF card.fault = "idle" THEN Answer(card, "ready")
          ELSE Answer([card EXCEPT !.state = "idle", !.crc = FALSE], "idle")}
    [] cmd = "SEND_IF_COND" -> {Answer(card, IF card.kind = "SDHC" THEN "idle" ELSE "illegal")}
    [] cmd = "APP_CMD" -> {Answer(card, IF card.kind = "MMC" THEN "illegal" ELSE card.state)}
    [] cmd = "SD_SEND_OP_COND" -> Start(card)
    [] cmd = "SEND_OP_COND" -> IF card.state = "ready" THEN {Answer(card, "ready")} ELSE Start(card)
    [] cmd = "READ_OCR" -> {Answer(card, card.state)}
    [] cmd = "CRC_ON_OFF" -> {Answer([card EXCEPT !.crc = TRUE], card.state)}
    [] cmd = "SET_BLOCKLEN" -> {Answer(card, card.state)}
    [] OTHER -> {Answer(card, IF card.state # "ready" THEN "illegal"
                              ELSE IF Valid(card, arg) THEN "ready" ELSE "parameter")}

\* What comes back from slot d: nothing if it is empty or its card not yet in
\* SPI mode.
Reply(d, cmd, arg) ==
  IF ~Present(d) THEN {Answer(Empty, "none")}
  ELSE IF slots[d].state = "raw" /\ cmd # "GO_IDLE_STATE" THEN {Answer(slots[d], "none")}
  ELSE Answers(slots[d], cmd, arg)

\* A garbled command: noticed by a card that checks, and by each for the first.
Garbled(d, cmd) ==
  IF ~Present(d) THEN {} ELSE
  {Answer(slots[d], IF slots[d].crc THEN "crc" ELSE IF slots[d].state = "raw" THEN "none" ELSE "illegal")}

-----------------------------------------------------------------------------
(* The driver.                                                             *)

NoOp == [pc |-> "free", kind |-> "none", drv |-> 0, sector |-> 0, n |-> 0, sec |-> 0, errors |-> 0,
         cmd |-> None, arg |-> 0, cerr |-> 0, tries |-> 0, time |-> 0, res |-> None, buf |-> <<>>]

\* send_command is about to send.
Send(o, cmd, arg, pc) == [o EXCEPT !.cmd = cmd, !.arg = arg, !.cerr = 0, !.pc = pc, !.res = None]

\* A call returns.
Return(o, r) == [o EXCEPT !.pc = "done", !.cmd = None, !.res = r]

sd_status(d) == IF Present(d) THEN IF slots[d].wp THEN "PROTECT" ELSE "OK" ELSE "NODISK"

\* The loop of send_command: a command that the card has not understood is sent
\* again, and so is one without an answer (ones, which include the bit of a CRC
\* error).
send_command ==
  /\ op.cmd # None
  /\ \E garble \in {g \in BOOLEAN : g => noise < MaxNoise} :
       /\ noise' = noise + (IF garble THEN 1 ELSE 0)
       /\ \E a \in IF garble THEN Garbled(op.drv, op.cmd) ELSE Reply(op.drv, op.cmd, op.arg) :
            /\ slots' = [slots EXCEPT ![op.drv] = a.card]
            /\ IF a.res \in {"crc", "none"}
                 THEN /\ sel' = SPIDEV_NONE
                      /\ op' = IF op.cerr + 1 < Retries THEN [op EXCEPT !.cerr = @ + 1]
                                                       ELSE [op EXCEPT !.cmd = None, !.res = a.res]
                 ELSE /\ sel' = op.drv + 1
                      /\ op' = [op EXCEPT !.cmd = None, !.res = a.res]
  /\ UNCHANGED <<cardtype, disk_state, mounted, missed, misled, count, swaps>>

-----------------------------------------------------------------------------
(* sd_initialize.  A step is what follows an answer, up to the next        *)
(* command; the card is deselected by then.                                *)

NotSd(o) == Send([o EXCEPT !.time = 0], "SEND_OP_COND", 0, "mmc")

\* Mistake: failed attempts are not counted.
Again_forever(o) == Send(o, "GO_IDLE_STATE", 0, "idle")

\* The label retry, for another attempt
Again(o) == IF o.tries = 1 THEN Return(o, "NOINIT") ELSE Send([o EXCEPT !.tries = @ - 1], "GO_IDLE_STATE", 0, "idle")

Timeout(o) == o.time = Polls

After(o) ==
  CASE o.pc = "idle" -> IF o.res = "none" THEN Return(o, "NOINIT")
                        ELSE IF o.res # "idle" THEN Again(o)
                        ELSE Send(o, "SEND_IF_COND", 0, "cond")
    [] o.pc = "cond" -> IF o.res = "idle" /\ (~Present(o.drv) \/ slots[o.drv].fault = "volts")
                        THEN Return(o, "NODISK") ELSE Send(o, "APP_CMD", 0, "app")
    [] o.pc = "app" -> IF o.res = "idle" THEN Send(o, "SD_SEND_OP_COND", 0, "sd") ELSE NotSd(o)
    [] o.pc = "sd" -> IF o.res = "idle" /\ ~Timeout(o) THEN Send([o EXCEPT !.time = @ + 1], "APP_CMD", 0, "app")
                      ELSE IF o.res = "ready" THEN Send(o, "READ_OCR", 0, "ocr") ELSE NotSd(o)
    [] o.pc = "ocr" -> NotSd(o)
    [] o.pc = "mmc" -> IF o.res = "ready" THEN Send(o, "CRC_ON_OFF", 0, "crc")
                       ELSE IF Timeout(o) THEN Return(o, "NOINIT")
                       ELSE Send([o EXCEPT !.time = @ + 1], "SEND_OP_COND", 0, "mmc")
    [] o.pc = "crc" -> IF o.res \in {"idle", "ready"} THEN Send(o, "SET_BLOCKLEN", 0, "len") ELSE Return(o, "NODISK")
    [] o.pc = "len" -> Return(o, IF o.res = "ready" THEN sd_status(o.drv) ELSE "NOINIT")

Initialising == op.pc \in {"idle", "cond", "app", "sd", "ocr", "mmc", "crc", "len"} /\ op.cmd = None

Retried == op.pc = "idle" /\ op'.cmd = "GO_IDLE_STATE"

\* The type after a step: reset at retry, read from the OCR (a missing card reads
\* as ones).
Known(o) ==
  CASE Retried -> "MMCSD"
    [] o.pc = "ocr" /\ o.res \in {"idle", "ready"} /\ (~Present(o.drv) \/ slots[o.drv].kind = "SDHC") -> "SDHC"
    [] OTHER -> cardtype[o.drv]

Success == op.pc = "len" /\ op.res = "ready"

sd_initialize ==
  /\ Initialising
  /\ op' = After(op) /\ sel' = SPIDEV_NONE
  /\ cardtype' = [cardtype EXCEPT ![op.drv] = Known(op)]
  /\ disk_state' = IF Retried THEN "ERROR" ELSE IF Success THEN "OK" ELSE disk_state
  /\ mounted' = IF Success /\ Present(op.drv) THEN mounted \cup {op.drv} ELSE mounted
  /\ missed' = (missed \/ (Success /\ \E d \in mounted' : ~Ready(d)))
  /\ misled' = IF op.pc # "mmc" /\ op'.pc = "mmc" /\ slots[op.drv].kind = "SDHC" /\ Known(op) # "SDHC" THEN misled \cup {op.drv} ELSE misled
  /\ UNCHANGED <<slots, count, noise, swaps>>

-----------------------------------------------------------------------------
(* sd_read and sd_write, sector by sector.                                 *)

\* The address of the current sector, in bytes unless the card is SDHC
Address(o) == IF cardtype[o.drv] = "SDHC" THEN o.sector + o.sec ELSE o.sector * Scale + o.sec * Scale

Transfer(o) == IF o.kind = "read" THEN Send(o, "READ_SINGLE_BLOCK", Address(o), "read")
                                  ELSE Send(o, "WRITE_BLOCK", Address(o), "write")

\* The end of the loop over errors, and of the one over sectors
Repeat(o) == IF o.errors + 1 < Retries THEN Transfer([o EXCEPT !.errors = @ + 1]) ELSE Return(o, "ERROR")
NextSector(o) == IF o.sec + 1 < o.n THEN Transfer([o EXCEPT !.sec = @ + 1, !.errors = 0]) ELSE Return(o, "OK")

\* The command was not accepted.
Refused ==
  /\ op.pc \in {"read", "write"} /\ op.cmd = None /\ op.res # "ready"
  /\ op' = Return(op, "ERROR") /\ sel' = SPIDEV_NONE /\ disk_state' = "ERROR"
  /\ UNCHANGED <<slots, cardtype, mounted, missed, misled, count, noise, swaps>>

Accepted(pc) == op.pc = pc /\ op.cmd = None /\ op.res = "ready"

\* The start token does not come within the time.
NoToken ==
  /\ Accepted("read")
  /\ \/ ~Ready(op.drv) /\ UNCHANGED noise
     \/ noise < MaxNoise /\ noise' = noise + 1
  /\ op' = Return(op, "ERROR") /\ sel' = SPIDEV_NONE /\ disk_state' = "ERROR"
  /\ UNCHANGED <<slots, cardtype, mounted, missed, misled, count, swaps>>

\* A block of data arrives; if its CRC is wrong it is read again.
sd_read ==
  /\ Accepted("read") /\ Ready(op.drv)
  /\ \/ op' = NextSector([op EXCEPT !.buf = Append(@, slots[op.drv].data[Block(slots[op.drv], op.arg)])]) /\ UNCHANGED noise
     \/ noise < MaxNoise /\ noise' = noise + 1 /\ op' = Repeat(op)
  /\ sel' = SPIDEV_NONE
  /\ UNCHANGED <<slots, cardtype, disk_state, mounted, missed, misled, count, swaps>>

\* The card has the block.
Stored(d) == slots' = [slots EXCEPT ![d].data[Block(slots[d], op.arg)] = count]

\* A block is sent; the card may not get it, or its answer may be lost.
sd_write ==
  /\ Accepted("write")
  /\ \/ Ready(op.drv) /\ Stored(op.drv) /\ op' = [op EXCEPT !.pc = "busy"] /\ sel' = sel /\ UNCHANGED noise
     \/ ~Ready(op.drv) /\ op' = Repeat(op) /\ sel' = SPIDEV_NONE /\ UNCHANGED <<slots, noise>>
     \/ /\ noise < MaxNoise /\ noise' = noise + 1 /\ op' = Repeat(op) /\ sel' = SPIDEV_NONE
        /\ UNCHANGED slots \/ (Ready(op.drv) /\ Stored(op.drv))
  /\ UNCHANGED <<cardtype, disk_state, mounted, missed, misled, count, swaps>>

\* The card is no longer busy, or is gone.
Written ==
  /\ op.pc = "busy"
  /\ op' = NextSector(op) /\ sel' = SPIDEV_NONE
  /\ UNCHANGED <<slots, cardtype, disk_state, mounted, missed, misled, count, noise, swaps>>

-----------------------------------------------------------------------------
(* The calls, and the cards.                                               *)

Returned == op.pc \in {"free", "done"}

\* Mistake: the type of the last card is kept.
CallInit_kept(d) ==
  /\ Returned /\ count < MaxOps /\ count' = count + 1
  /\ IF d \notin Drives \/ (d \in Drives /\ ~Present(d))
       THEN /\ op' = Return([NoOp EXCEPT !.kind = "init"], "NODISK")
            /\ mounted' = mounted \ {d} /\ UNCHANGED disk_state
       ELSE /\ op' = Send([NoOp EXCEPT !.kind = "init", !.drv = d, !.tries = 3], "GO_IDLE_STATE", 0, "idle")
            /\ disk_state' = "ERROR" /\ mounted' = mounted \ {d}
  /\ misled' = misled \ {d}
  /\ UNCHANGED <<slots, cardtype, sel, missed, noise, swaps>>

CallInit(d) ==
  /\ Returned /\ count < MaxOps /\ count' = count + 1
  /\ IF d \notin Drives \/ (d \in Drives /\ ~Present(d))
       THEN /\ op' = Return([NoOp EXCEPT !.kind = "init"], "NODISK")
            /\ mounted' = mounted \ {d} /\ UNCHANGED <<cardtype, disk_state>>
       ELSE /\ op' = Send([NoOp EXCEPT !.kind = "init", !.drv = d, !.tries = 3], "GO_IDLE_STATE", 0, "idle")
            /\ cardtype' = [cardtype EXCEPT ![d] = "MMCSD"] /\ disk_state' = "ERROR" /\ mounted' = mounted \ {d}
  /\ misled' = misled \ {d}
  /\ UNCHANGED <<slots, sel, missed, noise, swaps>>

\* FatFs reads and writes only drives it has mounted and that have a card.
CallRead(d, s, n) ==
  /\ Returned /\ count < MaxOps /\ count' = count + 1 /\ d \in mounted /\ Present(d)
  /\ op' = Transfer([NoOp EXCEPT !.kind = "read", !.drv = d, !.sector = s, !.n = n])
  /\ UNCHANGED <<slots, cardtype, disk_state, sel, mounted, missed, misled, noise, swaps>>

\* Mistake: the switch of a protected card is not looked at.
CallWrite_wp(d, s, n) ==
  /\ Returned /\ count < MaxOps /\ count' = count + 1 /\ d \in mounted /\ Present(d)
  /\ op' = Transfer([NoOp EXCEPT !.kind = "write", !.drv = d, !.sector = s, !.n = n])
  /\ UNCHANGED <<slots, cardtype, disk_state, sel, mounted, missed, misled, noise, swaps>>

CallWrite(d, s, n) ==
  /\ Returned /\ count < MaxOps /\ count' = count + 1 /\ d \in mounted /\ Present(d)
  /\ op' = LET o == [NoOp EXCEPT !.kind = "write", !.drv = d, !.sector = s, !.n = n]
           IN  IF slots[d].wp THEN Return(o, "WRPRT") ELSE Transfer(o)
  /\ UNCHANGED <<slots, cardtype, disk_state, sel, mounted, missed, misled, noise, swaps>>

\* A new card, not yet in SPI mode
Card(c) == [kind |-> c.kind, wp |-> c.wp, fault |-> c.fault, state |-> "raw", crc |-> FALSE,
            data |-> [s \in 0 .. Sectors - 1 |-> 0]]

\* A card is pulled or inserted; the interrupt notes it.
SD_CHANGE_HANDLER(d) ==
  /\ swaps < MaxSwaps /\ swaps' = swaps + 1
  /\ \/ Present(d) /\ slots' = [slots EXCEPT ![d] = Empty] /\ disk_state' = "REMOVED"
     \/ ~Present(d) /\ disk_state' = "CHANGED" /\ \E c \in Stock[d] : slots' = [slots EXCEPT ![d] = Card(c)]
  /\ UNCHANGED <<cardtype, sel, op, mounted, missed, misled, count, noise>>

Init ==
  /\ slots \in {f \in [Drives -> {Empty} \cup UNION {{Card(c) : c \in Stock[d]} : d \in Drives}] :
                   \A d \in Drives : f[d] = Empty \/ \E c \in Stock[d] : f[d] = Card(c)}
  /\ cardtype = [d \in Drives |-> "MMCSD"] /\ disk_state = "OK" /\ sel = SPIDEV_NONE /\ op = NoOp
  /\ mounted = {} /\ missed = FALSE /\ misled = {} /\ count = 0 /\ noise = 0 /\ swaps = 0

Next ==
  \/ send_command
  \/ sd_initialize
  \/ Refused
  \/ NoToken
  \/ sd_read
  \/ sd_write
  \/ Written
  \/ \E d \in 0 .. MAX_CARDS : CallInit(d)
  \/ \E d \in Drives, s \in 0 .. Sectors - 1, n \in 1 .. 2 : s + n <= Sectors /\ CallRead(d, s, n)
  \/ \E d \in Drives, s \in 0 .. Sectors - 1, n \in 1 .. 2 : s + n <= Sectors /\ CallWrite(d, s, n)
  \/ \E d \in Drives : SD_CHANGE_HANDLER(d)
  \/ Returned /\ count = MaxOps /\ UNCHANGED vars

\* The driver does not stop, and a card is not busy for ever.
Spec == Init /\ [][Next]_vars
          /\ WF_vars(send_command \/ sd_initialize \/ Refused \/ NoToken \/ sd_read \/ sd_write \/ Written)

-----------------------------------------------------------------------------
(* Properties.                                                             *)

Cards == [kind : {"none", "MMC", "SD", "SDHC"}, wp : BOOLEAN, fault : {"none", "idle", "volts"},
          state : {"raw", "idle", "ready"}, crc : BOOLEAN,
          data : [0 .. Sectors - 1 -> 0 .. MaxOps] \cup {<<>>}]

\* Retries and polls stay below their limits, and only existing drives are used.
TypeOK ==
  /\ slots \in [Drives -> Cards] /\ cardtype \in [Drives -> {"MMCSD", "SDHC"}]
  /\ disk_state \in {"OK", "CHANGED", "REMOVED", "ERROR"} /\ mounted \subseteq Drives
  /\ op.drv \in Drives /\ op.errors \in 0 .. Retries - 1 /\ op.cerr \in 0 .. Retries - 1
  /\ op.tries \in 0 .. 3 /\ op.time \in 0 .. Polls /\ op.sec \in 0 .. 1 /\ Len(op.buf) <= 2

\* A card that is ready, and is not taken for an older one
Right(d) == Ready(d) /\ d \notin misled

Done(kind, res) == op.pc = "done" /\ op.kind = kind /\ op.res = res

\* A read without error has returned what is on the card, in every sector,
\* whatever was garbled on the way and however the card is addressed.
ReadTrue ==
  Done("read", "OK") /\ Right(op.drv) =>
    \A i \in 1 .. op.n : op.buf[i] = slots[op.drv].data[op.sector + i - 1]

\* A write without error is on the card, in every sector.
WriteTrue ==
  Done("write", "OK") /\ Right(op.drv) =>
    \A i \in 1 .. op.n : slots[op.drv].data[op.sector + i - 1] = count

\* No card is selected when a call has returned, by whichever path.
Deselected == Returned => sel = SPIDEV_NONE

\* A card that was initialised without error is ready, checks CRCs and is
\* addressed the right way, unless it has been changed since.
InitSound ==
  \A d \in mounted : Right(d) => slots[d].crc /\ (cardtype[d] = "SDHC") = (slots[d].kind = "SDHC")

\* The main loop gets to know that a card in use was changed (disk_state), unless
\* the change was during an initialisation.
ChangeNoticed == Returned /\ disk_state = "OK" => missed \/ \A d \in mounted : Ready(d)

\* A card changes only in the sectors of a write to it, and never if protected.
OnlyWritten ==
  [][\A d \in Drives \ misled : Ready(d) /\ slots'[d].state = "ready" =>
       \A s \in 0 .. Sectors - 1 : slots'[d].data[s] # slots[d].data[s] =>
         op.kind = "write" /\ op.drv = d /\ s \in op.sector .. op.sector + op.n - 1 /\ ~slots[d].wp]_vars

\* A call returns, whatever the card does not answer.
Ends == ~Returned ~> Returned

\* A call that returns success has moved the right sectors, cards of the right
\* type are addressed the right way, no card stays selected, and a change of
\* cards is noticed.
DriverSound == TypeOK /\ ReadTrue /\ WriteTrue /\ Deselected /\ InitSound /\ ChangeNoticed
=============================================================================
