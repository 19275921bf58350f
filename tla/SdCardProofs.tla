---------------------------- MODULE SdCardProofs ----------------------------
(***************************************************************************)
(* The driver of the cards is sound for every number of slots, sectors,    *)
(* retries, calls, garbled transfers and swaps, whatever cards there are.  *)
(*                                                                         *)
(* DriverInv is the inductive invariant.  Its heart is that a card which   *)
(* was changed is "raw" until the next initialisation of its slot: what    *)
(* the driver has found out about a slot need only hold of a card that is  *)
(* awake.                                                                  *)
(***************************************************************************)
EXTENDS SdCard, TLAPS

Starting == {"idle", "cond", "app", "sd", "ocr"}
Started == {"mmc", "crc", "len"}
Moving == {"read", "write", "busy"}

Commands == {"GO_IDLE_STATE", "SEND_IF_COND", "APP_CMD", "SD_SEND_OP_COND", "SEND_OP_COND", "READ_OCR",
             "CRC_ON_OFF", "SET_BLOCKLEN", "READ_SINGLE_BLOCK", "WRITE_BLOCK"}
Results == {"idle", "ready", "illegal", "parameter", "crc", "none",
            "OK", "PROTECT", "NODISK", "NOINIT", "ERROR", "WRPRT"}

Errors == 0 .. Retries - 1
Places == Starting \cup Started \cup Moving \cup {"free", "done"}

Calls == [pc : Places, kind : {"none", "init", "read", "write"},
          drv : Drives, sector : Nat, n : 0 .. 2, sec : 0 .. 1, errors : Errors,
          cmd : Commands \cup {None}, arg : Nat, cerr : Errors, tries : 0 .. 3, time : 0 .. Polls,
          res : Results, buf : Seq(0 .. MaxOps)]

\* Cards that are not Empty
RealCards == [kind : {"MMC", "SD", "SDHC"}, wp : BOOLEAN, fault : {"none", "idle", "volts"},
              state : {"raw", "idle", "ready"}, crc : BOOLEAN, data : [0 .. Sectors - 1 -> 0 .. MaxOps]]

Typed ==
  /\ slots \in [Drives -> {Empty} \cup RealCards] /\ cardtype \in [Drives -> {"MMCSD", "SDHC"}]
  /\ disk_state \in {"OK", "CHANGED", "REMOVED", "ERROR"} /\ mounted \subseteq Drives
  /\ op \in Calls /\ missed \in BOOLEAN /\ count \in 0 .. MaxOps

\* A card that has entered SPI mode, and is not taken for an older one
Awake(d) == Present(d) /\ slots[d].state # "raw" /\ d \notin misled

TypeRight(d) == (cardtype[d] = "SDHC") = (slots[d].kind = "SDHC")

\* What each place in the driver says of the call
CallShape ==
  /\ op.pc \in Starting \cup Started => op.kind = "init" /\ op.tries # 0 /\ op.drv \notin mounted
  /\ op.cmd # None => op.pc \in Starting \cup Started \cup {"read", "write"}
  /\ op.cmd = "GO_IDLE_STATE" => op.pc = "idle"
  /\ op.pc = "crc" => op.cmd \in {None, "CRC_ON_OFF"}
  /\ op.pc \in Moving => op.cmd \in {None, "READ_SINGLE_BLOCK", "WRITE_BLOCK"}
  /\ op.sector + op.n <= Sectors /\ Len(op.buf) <= op.n
  /\ op.pc \in Moving => /\ op.kind = IF op.pc = "read" THEN "read" ELSE "write"
                         /\ op.drv \in mounted /\ op.sec < op.n /\ op.arg = Address(op)
  /\ op.pc = "read" => Len(op.buf) = op.sec

\* What the initialisation in progress has found out, and that of each
\* mounted drive
InitKnows ==
  /\ op.pc \in Starting => cardtype[op.drv] = "MMCSD"
  /\ op.pc \in Started /\ Awake(op.drv) => TypeRight(op.drv)
  /\ op.pc = "crc" /\ op.cmd = None /\ op.res \in {"idle", "ready"} /\ Awake(op.drv) => slots[op.drv].crc
  /\ op.pc = "len" /\ Awake(op.drv) => slots[op.drv].crc
  /\ \A d \in mounted : Awake(d) => slots[d].crc /\ TypeRight(d)

\* A change is noticed even while a call is in progress.
Noticed == disk_state = "OK" => missed \/ \A d \in mounted : Ready(d)

\* The card that has accepted a command has the sector, and is not protected.
Permitted ==
  /\ op.pc \in {"read", "write"} /\ op.cmd = None /\ op.res = "ready" /\ Ready(op.drv) => Valid(slots[op.drv], op.arg)
  /\ op.pc \in {"write", "busy"} /\ Ready(op.drv) => ~slots[op.drv].wp

\* The sectors moved so far are right.
Moved ==
  Right(op.drv) =>
    /\ op.pc = "read" \/ Done("read", "OK") => \A i \in 1 .. Len(op.buf) : op.buf[i] = slots[op.drv].data[op.sector + i - 1]
    /\ op.pc \in {"write", "busy"} => \A i \in 1 .. op.sec : slots[op.drv].data[op.sector + i - 1] = count
    /\ op.pc = "busy" => slots[op.drv].data[op.sector + op.sec] = count
    /\ Done("write", "OK") => \A i \in 1 .. op.n : slots[op.drv].data[op.sector + i - 1] = count

\* A read that is complete has every sector.
Complete == Done("read", "OK") => Len(op.buf) = op.n

DriverInv == Typed /\ CallShape /\ InitKnows /\ Noticed /\ Permitted /\ Moved /\ Complete /\ Deselected

-----------------------------------------------------------------------------
(* The records of calls that the driver's steps make.                      *)

\* Call p is for the same drive and sectors as o, and as far as o.
SameCall(o, p) ==
  /\ p.kind = o.kind /\ p.drv = o.drv /\ p.sector = o.sector /\ p.n = o.n /\ p.sec = o.sec /\ p.buf = o.buf
  /\ p.tries = o.tries

\* The constants are numbers.
LEMMA Numbers ==
  /\ MAX_CARDS \in Nat /\ MAX_CARDS > 0 /\ Sectors \in Nat /\ Sectors > 0
  /\ Scale \in Nat /\ Scale > 0 /\ Retries \in Nat /\ Retries > 0
  /\ MaxOps \in Nat /\ Polls \in Nat
<1>1. {MAX_CARDS, Sectors, Scale, Retries} \subseteq Nat \ {0} /\ {MaxOps, MaxNoise, MaxSwaps, Polls} \subseteq Nat
  BY SdAssumption
<1> QED  BY <1>1

\* No call is a call.
LEMMA NoOpIsCall == NoOp \in Calls
BY Numbers DEF NoOp, Calls, Errors, Drives, None, Places, Commands, Results

\* A command about to be sent changes nothing else of the call.
LEMMA SendFacts ==
  ASSUME NEW o \in Calls, NEW cmd \in Commands, NEW arg \in Nat, NEW pc \in Places
  PROVE  LET p == Send(o, cmd, arg, pc)
         IN  p \in Calls /\ SameCall(o, p) /\ p.pc = pc /\ p.cmd = cmd /\ p.arg = arg /\ p.res = None
<1>1. 0 \in Errors
  BY Numbers DEF Errors
<1> QED  BY <1>1 DEF Send, Calls, SameCall, None, Results

\* So does the return from a call.
LEMMA ReturnFacts ==
  ASSUME NEW o \in Calls, NEW r \in Results
  PROVE  LET p == Return(o, r)
         IN  p \in Calls /\ SameCall(o, p) /\ p.pc = "done" /\ p.cmd = None /\ p.res = r
BY DEF Return, Calls, SameCall, None, Places

\* The address is a number.
LEMMA AddressNat ==
  ASSUME NEW o \in Calls
  PROVE  Address(o) \in Nat
<1>1. o.sector \in Nat /\ o.sec \in Nat
  BY DEF Calls
<1>2. \A a \in Nat : a * Scale \in Nat
  BY Numbers
<1>3. o.sector * Scale \in Nat /\ o.sec * Scale \in Nat
  BY <1>1, <1>2
<1> QED  BY <1>1, <1>3 DEF Address

\* The command that moves the next sector, at its address
LEMMA TransferFacts ==
  ASSUME NEW o \in Calls, o.kind \in {"read", "write"}
  PROVE  LET p == Transfer(o)
         IN  /\ p \in Calls /\ SameCall(o, p) /\ p.pc = o.kind /\ p.arg = Address(o) /\ Address(p) = Address(o)
             /\ p.cmd \in {"READ_SINGLE_BLOCK", "WRITE_BLOCK"}
<1>1. Address(o) \in Nat
  BY AddressNat
<1>2. ASSUME NEW cmd \in {"READ_SINGLE_BLOCK", "WRITE_BLOCK"}, NEW pc \in {"read", "write"}
      PROVE  LET p == Send(o, cmd, Address(o), pc)
             IN  /\ p \in Calls /\ SameCall(o, p) /\ p.pc = pc /\ p.arg = Address(o) /\ Address(p) = Address(o)
                 /\ p.cmd = cmd
  <2>1. cmd \in Commands /\ pc \in Places
    BY DEF Commands, Places, Moving
  <2> QED  BY <1>1, <2>1, SendFacts DEF SameCall, Address
<1> QED  BY <1>2 DEF Transfer

\* The loop over errors repeats the sector or gives up.
LEMMA RepeatFacts ==
  ASSUME NEW o \in Calls, o.kind \in {"read", "write"}
  PROVE  LET p == Repeat(o)
         IN  /\ p \in Calls /\ SameCall(o, p)
             /\ \/ p.pc = o.kind /\ p.arg = Address(p) /\ p.cmd \in {"READ_SINGLE_BLOCK", "WRITE_BLOCK"}
                \/ p.pc = "done" /\ p.cmd = None /\ p.res = "ERROR"
<1>1. CASE o.errors + 1 < Retries
  <2> DEFINE q == [o EXCEPT !.errors = @ + 1]
  <2>1. q \in Calls /\ SameCall(o, q)
    <3>1. o.errors \in Errors
      BY DEF Calls
    <3>2. o.errors + 1 \in Errors
      BY <1>1, <3>1, Numbers DEF Errors
    <3> QED  BY <3>2 DEF Calls, SameCall
  <2> HIDE DEF q
  <2>2. Repeat(o) = Transfer(q)
    BY <1>1 DEF Repeat, q
  <2> QED  BY <2>1, <2>2, TransferFacts DEF SameCall
<1>2. CASE ~(o.errors + 1 < Retries)
  <2>1. Repeat(o) = Return(o, "ERROR")
    BY <1>2 DEF Repeat
  <2> QED  BY <2>1, ReturnFacts DEF Results
<1> QED  BY <1>1, <1>2

\* The loop over sectors goes on to the next one or ends.
LEMMA NextSectorFacts ==
  ASSUME NEW o \in Calls, o.kind \in {"read", "write"}, o.sec < o.n
  PROVE  LET p == NextSector(o)
         IN  /\ p \in Calls /\ p.kind = o.kind /\ p.drv = o.drv /\ p.sector = o.sector /\ p.n = o.n /\ p.buf = o.buf
             /\ \/ /\ p.pc = o.kind /\ p.arg = Address(p) /\ p.cmd \in {"READ_SINGLE_BLOCK", "WRITE_BLOCK"}
                   /\ p.sec = o.sec + 1 /\ p.sec < p.n
                \/ p.pc = "done" /\ p.cmd = None /\ p.res = "OK" /\ p.sec = o.sec /\ o.sec + 1 = o.n
<1>1. CASE o.sec + 1 < o.n
  <2> DEFINE q == [o EXCEPT !.sec = @ + 1, !.errors = 0]
  <2>1. /\ q \in Calls /\ q.kind = o.kind /\ q.drv = o.drv /\ q.sector = o.sector /\ q.n = o.n /\ q.buf = o.buf
        /\ q.sec = o.sec + 1
    <3>1. o.sec \in 0 .. 1 /\ o.n \in 0 .. 2
      BY DEF Calls
    <3>2. 0 \in Errors /\ o.sec + 1 \in 0 .. 1
      BY <1>1, <3>1, Numbers DEF Errors
    <3> QED  BY <3>2 DEF Calls
  <2> HIDE DEF q
  <2>2. NextSector(o) = Transfer(q)
    BY <1>1 DEF NextSector, q
  <2> QED  BY <1>1, <2>1, <2>2, TransferFacts DEF SameCall
<1>2. CASE ~(o.sec + 1 < o.n)
  <2>1. NextSector(o) = Return(o, "OK")
    BY <1>2 DEF NextSector
  <2>2. o.sec + 1 = o.n
    BY <1>2 DEF Calls
  <2> QED  BY <2>1, <2>2, ReturnFacts DEF Results, SameCall
<1> QED  BY <1>1, <1>2

-----------------------------------------------------------------------------
(* The cards.                                                              *)

\* Exactly an empty slot has no kind of card.
LEMMA CardFacts ==
  ASSUME NEW c \in {Empty} \cup RealCards
  PROVE  /\ c = Empty <=> c.kind = "none"
         /\ c = Empty <=> c \notin RealCards
<1>1. Empty \notin RealCards /\ Empty.kind = "none"
  BY DEF Empty, RealCards
<1>2. c \in RealCards => c.kind # "none"
  BY DEF RealCards
<1> QED  BY <1>1, <1>2

\* The cards may have new data, and nothing else.
SameCards ==
  /\ slots' \in [Drives -> {Empty} \cup RealCards]
  /\ \A d \in Drives : /\ slots'[d] = Empty <=> slots[d] = Empty
                       /\ slots'[d].kind = slots[d].kind /\ slots'[d].state = slots[d].state
                       /\ slots'[d].crc = slots[d].crc /\ slots'[d].wp = slots[d].wp

\* A step that leaves the cards alone is a special case.
LEMMA UnchangedCards ==
  ASSUME Typed, slots' = slots
  PROVE  SameCards
BY DEF Typed, SameCards

\* Bytes to sectors and back
LEMMA Scaled ==
  ASSUME NEW a \in Nat, NEW b \in Nat
  PROVE  /\ (a * Scale + b * Scale) \div Scale = a + b
         /\ (a * Scale + b * Scale) % Scale = 0
<1>1. Scale \in Nat /\ Scale > 0
  BY Numbers
<1>2. a * Scale + b * Scale = (a + b) * Scale
  BY <1>1
<1>3. ASSUME NEW c \in Nat
      PROVE  (c * Scale) \div Scale = c /\ (c * Scale) % Scale = 0
  BY <1>1
<1> QED  BY <1>2, <1>3

-----------------------------------------------------------------------------
(* Calls that move sectors.                                                *)

\* A step of a call that does not initialise and changes no more than data of the
\* cards keeps what is known about them.
LEMMA QuietInv ==
  ASSUME Typed, InitKnows, Noticed, SameCards, UNCHANGED <<cardtype, mounted, missed, misled>>,
         disk_state' \in {disk_state, "ERROR"}, count' \in 0 .. MaxOps,
         op' \in Calls, op'.pc \notin Starting \cup Started
  PROVE  Typed' /\ InitKnows' /\ Noticed'
<1>1. Typed'
  BY DEF Typed, SameCards
<1>2. InitKnows'
  BY DEF InitKnows, Awake, Present, TypeRight, Starting, Started, SameCards, Typed
<1>3. Noticed'
  BY DEF Noticed, Ready, Present, SameCards, Typed
<1> QED  BY <1>1, <1>2, <1>3

\* Once a sector has failed for good, the call returns the error: Refused, NoToken.
LEMMA FailInv ==
  ASSUME DriverInv, op.pc \in Moving, op' = Return(op, "ERROR"), sel' = SPIDEV_NONE,
         disk_state' = "ERROR", UNCHANGED <<slots, cardtype, mounted, missed, misled, count>>
  PROVE  DriverInv'
<1>1. op \in Calls /\ "ERROR" \in Results
  BY DEF DriverInv, Typed, Results
<1>2. op' \in Calls /\ SameCall(op, op') /\ op'.pc = "done" /\ op'.cmd = None /\ op'.res = "ERROR"
  BY <1>1, ReturnFacts
<1>3. Typed' /\ InitKnows' /\ Noticed'
  <2>1. count' \in 0 .. MaxOps /\ op'.pc \notin Starting \cup Started
    BY <1>2 DEF DriverInv, Typed, Starting, Started
  <2> QED  BY <1>2, <2>1, QuietInv, UnchangedCards DEF DriverInv
<1>4. CallShape'
  BY <1>2 DEF DriverInv, CallShape, SameCall, Starting, Started, Moving, None
<1>5. Permitted' /\ Moved' /\ Complete' /\ Deselected'
  BY <1>2 DEF Permitted, Moved, Complete, Deselected, Done
<1> QED  BY <1>3, <1>4, <1>5 DEF DriverInv

\* A sector that failed is tried again or given up; the card may have it already.
LEMMA RepeatInv ==
  ASSUME DriverInv, op.pc \in {"read", "write"}, op' = Repeat(op), sel' = SPIDEV_NONE, SameCards,
         \/ slots' = slots
         \/ op.pc = "write" /\ \A s \in 0 .. Sectors - 1 : slots'[op.drv].data[s] \in {slots[op.drv].data[s], count},
         UNCHANGED <<cardtype, disk_state, mounted, missed, misled, count>>
  PROVE  DriverInv'
<1>1. op \in Calls /\ op.kind = op.pc /\ op.drv \in Drives
  BY DEF DriverInv, Typed, CallShape, Moving, Calls
<1>2. /\ op' \in Calls /\ SameCall(op, op')
      /\ \/ op'.pc = op.kind /\ op'.arg = Address(op') /\ op'.cmd \in {"READ_SINGLE_BLOCK", "WRITE_BLOCK"}
         \/ op'.pc = "done" /\ op'.cmd = None /\ op'.res = "ERROR"
  BY <1>1, RepeatFacts
<1>3. Typed' /\ InitKnows' /\ Noticed'
  <2>1. count' \in 0 .. MaxOps /\ op'.pc \notin Starting \cup Started
    BY <1>1, <1>2 DEF DriverInv, Typed, Starting, Started
  <2> QED  BY <1>2, <2>1, QuietInv DEF DriverInv
<1>4. CallShape'
  BY <1>1, <1>2 DEF DriverInv, CallShape, SameCall, Starting, Started, Moving, None, Address
<1>5. Permitted' /\ Complete' /\ Deselected'
  BY <1>1, <1>2 DEF DriverInv, Permitted, Complete, Deselected, Done, SameCall, Ready, Present, Returned, None, SameCards
<1>6. Right(op.drv)' => Right(op.drv)
  BY <1>1, <1>2 DEF Right, Ready, Present, SameCards, SameCall
<1>7. Moved'
  <2>1. CASE slots' = slots
    BY <1>1, <1>2, <1>6, <2>1 DEF DriverInv, Moved, Done, SameCall
  <2>2. CASE op.pc = "write" /\ \A s \in 0 .. Sectors - 1 : slots'[op.drv].data[s] \in {slots[op.drv].data[s], count}
    <3> SUFFICES ASSUME Right(op.drv), NEW i \in 1 .. op.sec
                 PROVE  slots'[op.drv].data[op.sector + i - 1] = count
      BY <1>1, <1>2, <1>6, <2>2 DEF Moved, Done, SameCall
    <3>1. slots[op.drv].data[op.sector + i - 1] = count
      BY <2>2 DEF DriverInv, Moved
    <3>2. op.sector + i - 1 \in 0 .. Sectors - 1
      <4>1. op.sector \in Nat /\ op.n \in Nat /\ op.sec \in Nat
        BY <1>1 DEF Calls
      <4>2. op.sec < op.n /\ op.sector + op.n <= Sectors
        BY <2>2 DEF DriverInv, CallShape, Moving
      <4> QED  BY <4>1, <4>2, Numbers
    <3> QED  BY <2>2, <3>1, <3>2
  <2> QED  BY <2>1, <2>2
<1> QED  BY <1>3, <1>4, <1>5, <1>7 DEF DriverInv

\* A card that is awake in a mounted drive takes the address as the driver means it.
LEMMA Addressed ==
  ASSUME DriverInv, op.pc \in Moving, Right(op.drv)
  PROVE  Block(slots[op.drv], op.arg) = op.sector + op.sec
<1>1. op \in Calls /\ op.drv \in mounted /\ op.arg = Address(op) /\ TypeRight(op.drv)
  BY DEF DriverInv, Typed, CallShape, InitKnows, Right, Ready, Awake
<1>2. op.sector \in Nat /\ op.sec \in Nat
  BY <1>1 DEF Calls
<1> QED  BY <1>1, <1>2, Scaled DEF TypeRight, Block, Address

\* A block that arrives is appended to what was read, and is the right one.
LEMMA ReadInv == DriverInv /\ sd_read => DriverInv'
<1> SUFFICES ASSUME DriverInv, sd_read PROVE DriverInv'
  OBVIOUS
<1>1. op \in Calls /\ op.pc = "read" /\ op.kind = "read" /\ Ready(op.drv) /\ op.sec < op.n /\ Len(op.buf) = op.sec
  BY DEF sd_read, Accepted, DriverInv, Typed, CallShape, Moving
<1>2. CASE op' = Repeat(op)
  BY <1>1, <1>2, RepeatInv, UnchangedCards DEF sd_read, DriverInv
<1> DEFINE x == slots[op.drv].data[Block(slots[op.drv], op.arg)]
           q == [op EXCEPT !.buf = Append(@, x)]
<1>3. CASE op' = NextSector(q)
  <2>1. x \in 0 .. MaxOps
    <3>1. Valid(slots[op.drv], op.arg)
      BY <1>1 DEF DriverInv, Permitted, sd_read, Accepted
    <3>2. slots[op.drv] \in RealCards
      BY <1>1, CardFacts DEF DriverInv, Ready, Present, Calls, Typed
    <3> QED  BY <3>1, <3>2 DEF Valid, RealCards
  <2>2. Right(op.drv) => x = slots[op.drv].data[op.sector + op.sec]
    BY <1>1, Addressed DEF Moving
  <2> HIDE DEF x
  <2>3. /\ q \in Calls /\ q.kind = "read" /\ q.drv = op.drv /\ q.sector = op.sector /\ q.n = op.n /\ q.sec = op.sec
        /\ q.buf = Append(op.buf, x)
    <3>1. op.buf \in Seq(0 .. MaxOps)
      BY <1>1 DEF Calls
    <3>2. Append(op.buf, x) \in Seq(0 .. MaxOps)
      BY <2>1, <3>1
    <3> QED  BY <1>1, <3>2 DEF Calls
  <2> HIDE DEF q
  <2>4. /\ op' \in Calls /\ op'.kind = "read" /\ op'.drv = op.drv /\ op'.sector = op.sector /\ op'.n = op.n
        /\ op'.buf = Append(op.buf, x)
        /\ \/ /\ op'.pc = "read" /\ op'.arg = Address(op') /\ op'.cmd \in {"READ_SINGLE_BLOCK", "WRITE_BLOCK"}
              /\ op'.sec = op.sec + 1 /\ op'.sec < op'.n
           \/ op'.pc = "done" /\ op'.cmd = None /\ op'.res = "OK" /\ op'.sec = op.sec /\ op.sec + 1 = op.n
    BY <1>1, <1>3, <2>3, NextSectorFacts
  <2>5. Len(op'.buf) = op.sec + 1 /\ op.sec \in Nat /\ op.n \in Nat /\ op.buf \in Seq(0 .. MaxOps)
    BY <1>1, <2>1, <2>4 DEF Calls
  <2>6. Typed' /\ InitKnows' /\ Noticed'
    <3>1. count' \in 0 .. MaxOps /\ op'.pc \notin Starting \cup Started /\ disk_state' = disk_state
      BY <2>4 DEF DriverInv, Typed, Starting, Started, sd_read
    <3>2. UNCHANGED <<slots, cardtype, mounted, missed, misled>>
      BY DEF sd_read
    <3> QED  BY <2>4, <3>1, <3>2, QuietInv, UnchangedCards DEF DriverInv
  <2>7. CallShape'
    BY <1>1, <2>4, <2>5 DEF DriverInv, CallShape, Starting, Started, Moving, None, Address, sd_read
  <2>8. Permitted' /\ Complete' /\ Deselected'
    BY <2>4, <2>5 DEF Permitted, Complete, Deselected, Done, Returned, None, sd_read
  <2>9. Moved'
    <3> SUFFICES ASSUME Right(op.drv), NEW i \in 1 .. Len(op'.buf)
                 PROVE  op'.buf[i] = slots[op.drv].data[op.sector + i - 1]
      BY <2>4 DEF Moved, Done, Right, Ready, Present, sd_read
    <3>1. op.sector \in Nat
      BY <1>1 DEF Calls
    <3>2. CASE i = op.sec + 1
      BY <1>1, <2>2, <2>4, <2>5, <3>1, <3>2
    <3>3. CASE i \in 1 .. op.sec
      <4>1. op'.buf[i] = op.buf[i]
        BY <1>1, <2>4, <2>5, <3>3
      <4> QED  BY <1>1, <3>3, <4>1 DEF DriverInv, Moved
    <3> QED  BY <2>5, <3>2, <3>3
  <2> QED  BY <2>6, <2>7, <2>8, <2>9 DEF DriverInv
<1> QED  BY <1>2, <1>3 DEF sd_read

\* What the card does with an accepted block: it has the sector, and only that
\* sector changes.
LEMMA StoredFacts ==
  ASSUME DriverInv, Accepted("write"), Ready(op.drv), Stored(op.drv)
  PROVE  /\ SameCards
         /\ \A s \in 0 .. Sectors - 1 :
              slots'[op.drv].data[s] = IF s = Block(slots[op.drv], op.arg) THEN count ELSE slots[op.drv].data[s]
         /\ \A d \in Drives \ {op.drv} : slots'[d] = slots[d]
<1> DEFINE b == Block(slots[op.drv], op.arg)
           c == slots[op.drv]
           e == [c EXCEPT !.data = [c.data EXCEPT ![b] = count]]
<1>1. op.drv \in Drives /\ count \in 0 .. MaxOps /\ slots \in [Drives -> {Empty} \cup RealCards]
  BY DEF DriverInv, Typed, Calls
<1>2. Valid(c, op.arg) /\ c \in RealCards
  BY <1>1, CardFacts DEF DriverInv, Permitted, Accepted, Ready, Present
<1>3. b \in 0 .. Sectors - 1 /\ c.data \in [0 .. Sectors - 1 -> 0 .. MaxOps]
  BY <1>2 DEF Valid, RealCards
<1>4. slots' = [slots EXCEPT ![op.drv] = e]
  BY DEF Stored
<1> HIDE DEF b
<1>5. [c.data EXCEPT ![b] = count] \in [0 .. Sectors - 1 -> 0 .. MaxOps]
  BY <1>1, <1>3
<1>6. /\ e \in RealCards /\ e.kind = c.kind /\ e.state = c.state /\ e.crc = c.crc /\ e.wp = c.wp
      /\ e.data = [c.data EXCEPT ![b] = count]
  BY <1>2, <1>5 DEF RealCards
<1> HIDE DEF c, e
<1>7. slots'[op.drv] = e /\ \A d \in Drives \ {op.drv} : slots'[d] = slots[d]
  BY <1>1, <1>4
<1>8. slots' \in [Drives -> {Empty} \cup RealCards]
  BY <1>1, <1>4, <1>6
<1>9. e # Empty /\ c # Empty
  BY <1>2, <1>6, CardFacts
<1> QED  BY <1>1, <1>3, <1>6, <1>7, <1>8, <1>9 DEF SameCards, b, c

\* A block that was sent is on the card, or is sent again.
LEMMA WriteInv == DriverInv /\ sd_write => DriverInv'
<1> SUFFICES ASSUME DriverInv, sd_write PROVE DriverInv'
  OBVIOUS
<1>1. op \in Calls /\ op.pc = "write" /\ op.kind = "write" /\ op.sec < op.n /\ op.drv \in Drives
  BY DEF sd_write, Accepted, DriverInv, Typed, CallShape, Moving, Calls
<1>2. CASE op' = Repeat(op) /\ sel' = SPIDEV_NONE /\ slots' = slots
  BY <1>1, <1>2, RepeatInv, UnchangedCards DEF sd_write, DriverInv
<1>3. CASE op' = Repeat(op) /\ sel' = SPIDEV_NONE /\ Ready(op.drv) /\ Stored(op.drv)
  <2>1. SameCards /\ \A s \in 0 .. Sectors - 1 : slots'[op.drv].data[s] \in {slots[op.drv].data[s], count}
    BY <1>3, StoredFacts DEF sd_write
  <2> QED  BY <1>1, <1>3, <2>1, RepeatInv DEF sd_write
<1>4. CASE Ready(op.drv) /\ Stored(op.drv) /\ op' = [op EXCEPT !.pc = "busy"] /\ sel' = sel
  <2>1. /\ SameCards
        /\ \A s \in 0 .. Sectors - 1 :
             slots'[op.drv].data[s] = IF s = Block(slots[op.drv], op.arg) THEN count ELSE slots[op.drv].data[s]
    BY <1>4, StoredFacts DEF sd_write
  <2>2. op' \in Calls /\ SameCall(op, op') /\ op'.pc = "busy" /\ op'.cmd = op.cmd /\ op'.arg = op.arg
    BY <1>1, <1>4 DEF Calls, SameCall, Places, Moving
  <2>3. Typed' /\ InitKnows' /\ Noticed'
    <3>1. count' \in 0 .. MaxOps /\ op'.pc \notin Starting \cup Started /\ disk_state' = disk_state
      BY <2>2 DEF DriverInv, Typed, Starting, Started, sd_write
    <3> QED  BY <2>1, <2>2, <3>1, QuietInv DEF DriverInv, sd_write
  <2>4. CallShape'
    BY <1>1, <2>2 DEF DriverInv, CallShape, SameCall, Starting, Started, Moving, None, Address, sd_write, Accepted
  <2>5. Permitted' /\ Complete' /\ Deselected'
    BY <1>1, <2>1, <2>2 DEF DriverInv, Permitted, Complete, Deselected, Done, SameCall, Ready, Present, Returned, SameCards
  <2>6. Moved'
    <3> SUFFICES ASSUME Right(op.drv), NEW i \in 1 .. op.sec + 1
                 PROVE  slots'[op.drv].data[op.sector + i - 1] = count
      <4>1. Right(op.drv)' => Right(op.drv)
        BY <1>1, <2>1, <2>2 DEF Right, Ready, Present, SameCards, SameCall, sd_write
      <4>2. op.sec \in Nat /\ op.sector \in Nat /\ op.sector + (op.sec + 1) - 1 = op.sector + op.sec
        BY <1>1 DEF Calls
      <4>3. op.sec + 1 \in 1 .. op.sec + 1 /\ 1 .. op.sec \subseteq 1 .. op.sec + 1
        BY <4>2
      <4> QED  BY <2>2, <4>1, <4>2, <4>3 DEF Moved, Done, SameCall, sd_write
    <3>1. op.sector \in Nat /\ op.n \in Nat /\ op.sec \in Nat
      BY <1>1 DEF Calls
    <3>2. op.sector + op.n <= Sectors
      BY DEF DriverInv, CallShape
    <3>3. op.sector + i - 1 \in 0 .. Sectors - 1
      BY <1>1, <3>1, <3>2, Numbers
    <3>4. Block(slots[op.drv], op.arg) = op.sector + op.sec
      BY <1>1, Addressed DEF Moving
    <3>5. CASE i = op.sec + 1
      BY <2>1, <3>1, <3>3, <3>4, <3>5
    <3>6. CASE i \in 1 .. op.sec
      <4>1. slots[op.drv].data[op.sector + i - 1] = count
        BY <1>1, <3>6 DEF DriverInv, Moved
      <4> QED  BY <2>1, <3>3, <4>1
    <3> QED  BY <3>1, <3>5, <3>6
  <2> QED  BY <2>3, <2>4, <2>5, <2>6 DEF DriverInv
<1> QED  BY <1>2, <1>3, <1>4 DEF sd_write

\* The next sector is written, or the call returns.
LEMMA WrittenInv == DriverInv /\ Written => DriverInv'
<1> SUFFICES ASSUME DriverInv, Written PROVE DriverInv'
  OBVIOUS
<1>1. op \in Calls /\ op.pc = "busy" /\ op.kind = "write" /\ op.sec < op.n
  BY DEF Written, DriverInv, Typed, CallShape, Moving
<1>2. /\ op' \in Calls /\ op'.kind = "write" /\ op'.drv = op.drv /\ op'.sector = op.sector /\ op'.n = op.n
      /\ op'.buf = op.buf
      /\ \/ /\ op'.pc = "write" /\ op'.arg = Address(op') /\ op'.cmd \in {"READ_SINGLE_BLOCK", "WRITE_BLOCK"}
            /\ op'.sec = op.sec + 1 /\ op'.sec < op'.n
         \/ op'.pc = "done" /\ op'.cmd = None /\ op'.res = "OK" /\ op'.sec = op.sec /\ op.sec + 1 = op.n
  BY <1>1, NextSectorFacts DEF Written
<1>3. Typed' /\ InitKnows' /\ Noticed'
  <2>1. count' \in 0 .. MaxOps /\ op'.pc \notin Starting \cup Started /\ disk_state' = disk_state
    BY <1>2 DEF DriverInv, Typed, Starting, Started, Written
  <2> QED  BY <1>2, <2>1, QuietInv, UnchangedCards DEF DriverInv, Written
<1>4. CallShape'
  BY <1>1, <1>2 DEF DriverInv, CallShape, Starting, Started, Moving, None, Address, Written
<1>5. Permitted' /\ Complete' /\ Deselected'
  BY <1>1, <1>2 DEF DriverInv, Permitted, Complete, Deselected, Done, Ready, Present, Returned, None, Written
<1>6. Moved'
  <2> SUFFICES ASSUME Right(op.drv), NEW i \in 1 .. op.sec + 1
               PROVE  slots[op.drv].data[op.sector + i - 1] = count
    BY <1>2 DEF Moved, Done, Right, Ready, Present, Written
  <2>1. op.sector \in Nat /\ op.sec \in Nat
    BY <1>1 DEF Calls
  <2>2. CASE i = op.sec + 1
    BY <1>1, <2>1, <2>2 DEF DriverInv, Moved
  <2>3. CASE i \in 1 .. op.sec
    BY <1>1, <2>3 DEF DriverInv, Moved
  <2> QED  BY <2>1, <2>2, <2>3
<1> QED  BY <1>3, <1>4, <1>5, <1>6 DEF DriverInv

\* A command that is not accepted, or a token that does not come, ends the call.
LEMMA RefusedInv == DriverInv /\ (Refused \/ NoToken) => DriverInv'
<1>1. DriverInv /\ Refused => DriverInv'
  BY FailInv DEF Refused, Moving
<1>2. DriverInv /\ NoToken => DriverInv'
  BY FailInv DEF NoToken, Accepted, Moving
<1> QED  BY <1>1, <1>2

\* The start of a read or of a write to a card that is not protected
LEMMA BeginInv ==
  ASSUME DriverInv, Returned, NEW o \in Calls, o.kind \in {"read", "write"}, op' = Transfer(o),
         o.drv \in mounted, o.sec = 0, o.n # 0, o.buf = <<>>, o.sector + o.n <= Sectors,
         o.kind = "write" => ~slots[o.drv].wp, count' \in 0 .. MaxOps,
         UNCHANGED <<slots, cardtype, disk_state, sel, mounted, missed, misled>>
  PROVE  DriverInv'
<1>1. /\ op' \in Calls /\ SameCall(o, op') /\ op'.pc = o.kind /\ op'.arg = Address(op')
      /\ op'.cmd \in {"READ_SINGLE_BLOCK", "WRITE_BLOCK"}
  BY TransferFacts
<1>2. Typed' /\ InitKnows' /\ Noticed'
  <2>1. op'.pc \notin Starting \cup Started
    BY <1>1 DEF Starting, Started
  <2> QED  BY <1>1, <2>1, QuietInv, UnchangedCards DEF DriverInv
<1>3. CallShape'
  BY <1>1 DEF CallShape, SameCall, Starting, Started, Moving, None, Address, Calls
<1>4. Permitted' /\ Complete' /\ Deselected'
  BY <1>1 DEF Permitted, Complete, Deselected, Done, SameCall, Ready, Present, Returned, None
<1>5. Moved'
  BY <1>1 DEF Moved, Done, SameCall
<1> QED  BY <1>2, <1>3, <1>4, <1>5 DEF DriverInv

\* A call that returns at once has changed nothing.
LEMMA AtOnceInv ==
  ASSUME DriverInv, Returned, NEW o \in Calls, NEW r \in Results \ {"OK"}, op' = Return(o, r),
         o.sector + o.n <= Sectors, o.buf = <<>>, count' \in 0 .. MaxOps,
         NEW D, mounted' = mounted \ D, misled' = misled \ D,
         UNCHANGED <<slots, cardtype, disk_state, sel, missed>>
  PROVE  DriverInv'
<1>1. op' \in Calls /\ SameCall(o, op') /\ op'.pc = "done" /\ op'.cmd = None /\ op'.res = r
  BY ReturnFacts
<1>2. Typed'
  BY <1>1 DEF DriverInv, Typed
<1>3. InitKnows' /\ Noticed'
  BY <1>1 DEF DriverInv, InitKnows, Noticed, Awake, TypeRight, Ready, Present, Starting, Started
<1>4. CallShape'
  BY <1>1, Numbers DEF CallShape, SameCall, Starting, Started, Moving, None, Calls
<1>5. Permitted' /\ Complete' /\ Deselected' /\ Moved'
  BY <1>1 DEF DriverInv, Permitted, Complete, Deselected, Moved, Done, Returned
<1> QED  BY <1>2, <1>3, <1>4, <1>5 DEF DriverInv

\* A read begins.
LEMMA CallReadInv ==
  ASSUME NEW d \in Drives, NEW s \in 0 .. Sectors - 1, NEW n \in 1 .. 2, s + n <= Sectors,
         DriverInv, CallRead(d, s, n)
  PROVE  DriverInv'
<1> DEFINE o == [NoOp EXCEPT !.kind = "read", !.drv = d, !.sector = s, !.n = n]
<1>1. s \in Nat /\ n \in 0 .. 2 /\ n # 0
  BY Numbers
<1>2. /\ o \in Calls /\ o.kind = "read" /\ o.drv = d /\ o.sector = s /\ o.n = n /\ o.sec = 0 /\ o.buf = <<>>
  BY <1>1, NoOpIsCall DEF Calls, NoOp
<1>3. op' = Transfer(o) /\ count' \in 0 .. MaxOps
  BY Numbers DEF CallRead, DriverInv, Typed
<1> HIDE DEF o
<1> QED  BY <1>1, <1>2, <1>3, BeginInv DEF CallRead

\* A write begins, or is refused because the card is protected.
LEMMA CallWriteInv ==
  ASSUME NEW d \in Drives, NEW s \in 0 .. Sectors - 1, NEW n \in 1 .. 2, s + n <= Sectors,
         DriverInv, CallWrite(d, s, n)
  PROVE  DriverInv'
<1> DEFINE o == [NoOp EXCEPT !.kind = "write", !.drv = d, !.sector = s, !.n = n]
<1>1. s \in Nat /\ n \in 0 .. 2 /\ n # 0
  BY Numbers
<1>2. /\ o \in Calls /\ o.kind = "write" /\ o.drv = d /\ o.sector = s /\ o.n = n /\ o.sec = 0 /\ o.buf = <<>>
  BY <1>1, NoOpIsCall DEF Calls, NoOp
<1>3. op' = IF slots[d].wp THEN Return(o, "WRPRT") ELSE Transfer(o)
  BY DEF CallWrite
<1>4. count' \in 0 .. MaxOps
  BY Numbers DEF CallWrite, DriverInv, Typed
<1> HIDE DEF o
<1>5. CASE slots[d].wp
  <2>1. "WRPRT" \in Results \ {"OK"}
    BY DEF Results
  <2>2. mounted' = mounted \ {} /\ misled' = misled \ {}
    BY DEF CallWrite
  <2> QED  BY <1>2, <1>3, <1>4, <1>5, <2>1, <2>2, AtOnceInv DEF CallWrite
<1>6. CASE ~slots[d].wp
  BY <1>1, <1>2, <1>3, <1>4, <1>6, BeginInv DEF CallWrite
<1> QED  BY <1>5, <1>6

-----------------------------------------------------------------------------
(* Initialisation.                                                         *)

\* An initialisation begins: nothing is taken as known about the drive.
LEMMA CallInitInv ==
  ASSUME NEW d \in 0 .. MAX_CARDS, DriverInv, CallInit(d)
  PROVE  DriverInv'
<1>1. count' \in 0 .. MaxOps
  BY Numbers DEF CallInit, DriverInv, Typed
<1>2. CASE d \notin Drives \/ (d \in Drives /\ ~Present(d))
  <2> DEFINE o == [NoOp EXCEPT !.kind = "init"]
  <2>1. o \in Calls /\ o.n = 0 /\ o.sector = 0 /\ o.buf = <<>> /\ "NODISK" \in Results \ {"OK"}
    BY NoOpIsCall DEF Calls, NoOp, Results
  <2>2. op' = Return(o, "NODISK") /\ mounted' = mounted \ {d} /\ UNCHANGED <<cardtype, disk_state>>
    BY <1>2 DEF CallInit
  <2>3. o.sector + o.n <= Sectors
    BY <2>1, Numbers
  <2> HIDE DEF o
  <2> QED  BY <1>1, <2>1, <2>2, <2>3, AtOnceInv DEF CallInit
<1>3. CASE d \in Drives /\ Present(d)
  <2> DEFINE o == [NoOp EXCEPT !.kind = "init", !.drv = d, !.tries = 3]
  <2>1. o \in Calls /\ o.n = 0 /\ o.sector = 0 /\ o.buf = <<>> /\ o.kind = "init" /\ o.drv = d /\ o.tries = 3
    <3>1. 3 \in 0 .. 3
      OBVIOUS
    <3> QED  BY <1>3, <3>1, NoOpIsCall DEF Calls, NoOp
  <2>2. /\ op' = Send(o, "GO_IDLE_STATE", 0, "idle") /\ mounted' = mounted \ {d}
        /\ cardtype' = [cardtype EXCEPT ![d] = "MMCSD"] /\ disk_state' = "ERROR"
    BY <1>3 DEF CallInit
  <2> HIDE DEF o
  <2>3. /\ op' \in Calls /\ SameCall(o, op') /\ op'.pc = "idle" /\ op'.cmd = "GO_IDLE_STATE"
    <3>1. "GO_IDLE_STATE" \in Commands /\ 0 \in Nat /\ "idle" \in Places
      BY DEF Commands, Places, Starting
    <3> QED  BY <2>1, <2>2, <3>1, SendFacts
  <2>4. Typed'
    BY <1>1, <1>3, <2>2, <2>3 DEF DriverInv, Typed, CallInit
  <2>5. InitKnows' /\ Noticed'
    <3>1. cardtype'[d] = "MMCSD" /\ \A e \in mounted' : e \in mounted /\ cardtype'[e] = cardtype[e]
      BY <1>3, <2>2 DEF DriverInv, Typed
    <3>2. \A e \in mounted' : Awake(e)' => Awake(e)
      BY <2>2 DEF Awake, Present, CallInit
    <3> QED  BY <2>1, <2>2, <2>3, <3>1, <3>2 DEF DriverInv, InitKnows, Noticed, TypeRight, Starting, Started, SameCall, CallInit
  <2>6. CallShape'
    BY <2>1, <2>2, <2>3, Numbers DEF CallShape, SameCall, Starting, Started, Moving, None
  <2>7. Permitted' /\ Complete' /\ Deselected' /\ Moved'
    BY <2>3 DEF Permitted, Complete, Deselected, Moved, Done, Returned
  <2> QED  BY <2>4, <2>5, <2>6, <2>7 DEF DriverInv
<1> QED  BY <1>2, <1>3

\* What a card answers leaves its kind and its data alone.  Only GO_IDLE_STATE wakes
\* it or turns its CRCs off, and reading and writing commands leave all alone.
LEMMA ReplyFacts ==
  ASSUME Typed, NEW d \in Drives, NEW cmd \in Commands, NEW arg \in Nat, NEW garble \in BOOLEAN,
         NEW a \in IF garble THEN Garbled(d, cmd) ELSE Reply(d, cmd, arg)
  PROVE  /\ a.card \in {Empty} \cup RealCards /\ a.res \in Results
         /\ a.card = Empty <=> slots[d] = Empty
         /\ a.card.kind = slots[d].kind /\ a.card.wp = slots[d].wp /\ a.card.data = slots[d].data
         /\ cmd # "GO_IDLE_STATE" => /\ a.card.state = "raw" <=> slots[d].state = "raw"
                                     /\ slots[d].crc => a.card.crc
         /\ cmd = "CRC_ON_OFF" /\ a.res \in {"idle", "ready"} => a.card.crc
         /\ cmd \in {"READ_SINGLE_BLOCK", "WRITE_BLOCK"} =>
              /\ a.card = slots[d]
              /\ a.res = "ready" => slots[d].state = "ready" /\ Valid(slots[d], arg)
<1> DEFINE c == slots[d]
<1>1. c \in {Empty} \cup RealCards
  BY DEF Typed
<1>2. CASE garble
  <2>1. a = Answer(c, IF c.crc THEN "crc" ELSE IF c.state = "raw" THEN "none" ELSE "illegal")
    BY <1>2 DEF Garbled
  <2> QED  BY <1>1, <2>1 DEF Answer, Results
<1>3. CASE ~garble /\ ~Present(d)
  <2>1. a = Answer(Empty, "none") /\ c = Empty
    BY <1>3 DEF Reply, Present
  <2> QED  BY <2>1 DEF Answer, Results
<1>4. CASE ~garble /\ Present(d) /\ c.state = "raw" /\ cmd # "GO_IDLE_STATE"
  <2>1. a = Answer(c, "none")
    BY <1>4 DEF Reply
  <2> QED  BY <1>1, <2>1 DEF Answer, Results
<1>5. CASE ~garble /\ Present(d) /\ ~(c.state = "raw" /\ cmd # "GO_IDLE_STATE")
  <2>1. a \in Answers(c, cmd, arg) /\ c \in RealCards
    BY <1>1, <1>5 DEF Reply, Present
  <2> HIDE DEF c
  <2>2. ASSUME NEW st \in {"raw", "idle", "ready"}, NEW b \in BOOLEAN
        PROVE  LET e == [c EXCEPT !.state = st, !.crc = b]
               IN  /\ e \in RealCards /\ e.kind = c.kind /\ e.wp = c.wp /\ e.data = c.data
                   /\ e.state = st /\ e.crc = b
    BY <2>1 DEF RealCards
  <2>3. ASSUME NEW st \in {"raw", "idle", "ready"}
        PROVE  LET e == [c EXCEPT !.state = st]
               IN  /\ e \in RealCards /\ e.kind = c.kind /\ e.wp = c.wp /\ e.data = c.data
                   /\ e.state = st /\ e.crc = c.crc
    BY <2>1 DEF RealCards
  <2>4. LET e == [c EXCEPT !.crc = TRUE]
        IN  /\ e \in RealCards /\ e.kind = c.kind /\ e.wp = c.wp /\ e.data = c.data
            /\ e.state = c.state /\ e.crc = TRUE
    BY <2>1 DEF RealCards
  <2>5. c.state \in {"raw", "idle", "ready"} /\ c # Empty
    BY <2>1, CardFacts DEF RealCards
  <2>6. \A e \in RealCards : e # Empty
    BY CardFacts
  <2>7. CASE cmd = "GO_IDLE_STATE"
    <3>1. a = Answer(c, "ready") \/ a = Answer([c EXCEPT !.state = "idle", !.crc = FALSE], "idle")
      BY <2>1, <2>7 DEF Answers
    <3> DEFINE e == [c EXCEPT !.state = "idle", !.crc = FALSE]
    <3>2. a.card \in {c, e} /\ a.res \in Results
      BY <3>1 DEF Answer, Results
    <3>3. e \in RealCards /\ e.kind = c.kind /\ e.wp = c.wp /\ e.data = c.data
      BY <2>2
    <3> HIDE DEF e
    <3> QED  BY <2>1, <2>5, <2>6, <2>7, <3>2, <3>3 DEF c
  <2>8. CASE cmd \in {"SEND_IF_COND", "APP_CMD", "READ_OCR", "SET_BLOCKLEN"}
    <3>1. \E r \in {"idle", "illegal", c.state} : a = Answer(c, r)
      BY <2>1, <2>8 DEF Answers
    <3>2. c.state # "raw"
      BY <1>5, <2>8 DEF c
    <3> QED  BY <2>1, <2>5, <2>8, <3>1, <3>2 DEF Answer, Results, c
  <2>9. CASE cmd \in {"SD_SEND_OP_COND", "SEND_OP_COND"}
    <3>1. c.state # "raw"
      BY <1>5, <2>9 DEF c
    <3>2. a \in {Answer(c, "idle"), Answer(c, "ready"), Answer([c EXCEPT !.state = "ready"], "ready")}
      BY <2>1, <2>9 DEF Answers, Start
    <3> DEFINE e == [c EXCEPT !.state = "ready"]
    <3>3. a.card \in {c, e} /\ a.res \in Results
      BY <3>2 DEF Answer, Results
    <3>4. e \in RealCards /\ e.kind = c.kind /\ e.wp = c.wp /\ e.data = c.data /\ e.state = "ready" /\ e.crc = c.crc
      BY <2>3
    <3> HIDE DEF e
    <3> QED  BY <2>1, <2>5, <2>6, <2>9, <3>1, <3>3, <3>4 DEF c
  <2>10. CASE cmd = "CRC_ON_OFF"
    <3>1. a = Answer([c EXCEPT !.crc = TRUE], c.state)
      BY <2>1, <2>10 DEF Answers
    <3>2. c.state # "raw"
      BY <1>5, <2>10 DEF c
    <3> QED  BY <2>1, <2>4, <2>5, <2>6, <2>10, <3>1, <3>2 DEF Answer, Results, c
  <2>11. CASE cmd \in {"READ_SINGLE_BLOCK", "WRITE_BLOCK"}
    <3>1. a = Answer(c, IF c.state # "ready" THEN "illegal" ELSE IF Valid(c, arg) THEN "ready" ELSE "parameter")
      BY <2>1, <2>11 DEF Answers
    <3> QED  BY <2>1, <2>5, <2>11, <3>1 DEF Answer, Results, c
  <2> QED  BY <2>7, <2>8, <2>9, <2>10, <2>11 DEF Commands
<1> QED  BY <1>2, <1>3, <1>4, <1>5

\* An answer, or none, to the command of the call in progress
LEMMA SendCommandInv == DriverInv /\ send_command => DriverInv'
<1> SUFFICES ASSUME DriverInv, send_command PROVE DriverInv'
  OBVIOUS
<1>1. /\ op \in Calls /\ op.drv \in Drives /\ op.cmd \in Commands /\ op.arg \in Nat /\ op.cmd # None
      /\ slots \in [Drives -> {Empty} \cup RealCards] /\ Typed
  BY DEF send_command, DriverInv, Typed, Calls
<1> DEFINE d == op.drv
<1> DEFINE Outcome(a) ==
        /\ slots' = [slots EXCEPT ![d] = a.card]
        /\ IF a.res \in {"crc", "none"}
             THEN /\ sel' = SPIDEV_NONE
                  /\ op' = IF op.cerr + 1 < Retries THEN [op EXCEPT !.cerr = @ + 1]
                                                   ELSE [op EXCEPT !.cmd = None, !.res = a.res]
             ELSE /\ sel' = op.drv + 1
                  /\ op' = [op EXCEPT !.cmd = None, !.res = a.res]
<1>2. PICK garble \in BOOLEAN : \E a \in IF garble THEN Garbled(d, op.cmd) ELSE Reply(d, op.cmd, op.arg) : Outcome(a)
  BY DEF send_command
<1>0. PICK a \in IF garble THEN Garbled(d, op.cmd) ELSE Reply(d, op.cmd, op.arg) : Outcome(a)
  BY <1>2
<1>3. UNCHANGED <<cardtype, disk_state, mounted, missed, misled, count>>
  BY DEF send_command
<1>4. /\ a.card \in {Empty} \cup RealCards /\ a.res \in Results
      /\ a.card = Empty <=> slots[d] = Empty
      /\ a.card.kind = slots[d].kind /\ a.card.wp = slots[d].wp /\ a.card.data = slots[d].data
      /\ op.cmd # "GO_IDLE_STATE" => /\ a.card.state = "raw" <=> slots[d].state = "raw"
                                     /\ slots[d].crc => a.card.crc
      /\ op.cmd = "CRC_ON_OFF" /\ a.res \in {"idle", "ready"} => a.card.crc
      /\ op.cmd \in {"READ_SINGLE_BLOCK", "WRITE_BLOCK"} =>
           /\ a.card = slots[d]
           /\ a.res = "ready" => slots[d].state = "ready" /\ Valid(slots[d], op.arg)
  BY <1>1, ReplyFacts
<1>5. /\ op' \in Calls /\ SameCall(op, op') /\ op'.pc = op.pc /\ op'.arg = op.arg
      /\ op'.cmd = op.cmd \/ (op'.cmd = None /\ op'.res = a.res)
  <2>1. CASE op' = [op EXCEPT !.cmd = None, !.res = a.res]
    BY <1>1, <1>4, <2>1 DEF Calls, SameCall
  <2>2. CASE op.cerr + 1 < Retries /\ op' = [op EXCEPT !.cerr = @ + 1]
    <3>1. op.cerr + 1 \in Errors
      BY <1>1, <2>2, Numbers DEF Calls, Errors
    <3> QED  BY <1>1, <2>2, <3>1 DEF Calls, SameCall
  <2> QED  BY <1>0, <2>1, <2>2
<1>6. /\ slots'[d] = a.card /\ \A e \in Drives \ {d} : slots'[e] = slots[e]
      /\ slots' \in [Drives -> {Empty} \cup RealCards]
  BY <1>0, <1>1, <1>4
<1>7. op.pc \in Starting \cup Started \cup {"read", "write"}
  BY <1>1 DEF DriverInv, CallShape
<1> HIDE DEF d
<1>8. Typed'
  BY <1>1, <1>3, <1>5, <1>6 DEF Typed
<1>9. CallShape'
  <2>1. Address(op)' = Address(op)
    BY <1>3, <1>5 DEF SameCall, Address
  <2>2. op'.cmd \in {op.cmd, None} /\ op'.pc = op.pc /\ op'.arg = op.arg
    BY <1>5
  <2> QED  BY <1>3, <1>5, <2>1, <2>2 DEF DriverInv, CallShape, SameCall, None
<1>10. InitKnows'
  <2>1. ASSUME NEW e \in Drives, op.cmd # "GO_IDLE_STATE" \/ e # op.drv
        PROVE  (Awake(e)' => Awake(e)) /\ (slots[e].crc => slots'[e].crc) /\ slots'[e].kind = slots[e].kind
    BY <1>3, <1>4, <1>6, <2>1 DEF Awake, Present, d
  <2>2. op'.pc = op.pc /\ op'.drv = op.drv /\ cardtype' = cardtype /\ mounted' = mounted
    BY <1>3, <1>5 DEF SameCall
  <2>3. op.pc \in Starting => cardtype'[op.drv] = "MMCSD"
    BY <2>2 DEF DriverInv, InitKnows
  <2>4. op.pc \in Started /\ Awake(op.drv)' => TypeRight(op.drv)'
    BY <1>1, <2>1, <2>2 DEF DriverInv, InitKnows, TypeRight, CallShape, Started
  <2>5. op.pc = "crc" /\ op'.cmd = None /\ op'.res \in {"idle", "ready"} => slots'[op.drv].crc
    BY <1>1, <1>4, <1>5, <1>6 DEF DriverInv, CallShape, d
  <2>6. op.pc = "len" /\ Awake(op.drv)' => slots'[op.drv].crc
    BY <1>1, <2>1, <2>2 DEF DriverInv, InitKnows, CallShape
  <2>7. ASSUME NEW e \in mounted, Awake(e)' PROVE slots'[e].crc /\ TypeRight(e)'
    <3>1. e \in Drives /\ (op.cmd # "GO_IDLE_STATE" \/ e # op.drv)
      BY <1>1 DEF Typed, DriverInv, CallShape, Starting
    <3> QED  BY <2>1, <2>2, <2>7, <3>1 DEF DriverInv, InitKnows, TypeRight
  <2> QED  BY <2>2, <2>3, <2>4, <2>5, <2>6, <2>7 DEF InitKnows, Awake, TypeRight, Present
<1>11. \A e \in mounted : e \in Drives /\ slots'[e] = slots[e]
  <2>1. op.drv \in mounted => op.cmd \in {"READ_SINGLE_BLOCK", "WRITE_BLOCK"}
    BY <1>1, <1>7 DEF DriverInv, CallShape, Moving
  <2> QED  BY <1>1, <1>4, <1>6, <2>1 DEF Typed, d
<1>12. Noticed'
  BY <1>3, <1>11 DEF DriverInv, Noticed, Ready, Present
<1>13. CASE op.pc \in {"read", "write"}
  <2>1. op.cmd \in {"READ_SINGLE_BLOCK", "WRITE_BLOCK"} /\ op.drv \in mounted /\ slots'[op.drv] = slots[op.drv]
    BY <1>1, <1>11, <1>13 DEF DriverInv, CallShape, Moving
  <2>2. Permitted'
    BY <1>1, <1>4, <1>5, <1>13, <2>1 DEF DriverInv, Permitted, Ready, Present, SameCall, d
  <2>3. Moved' /\ Complete' /\ Deselected'
    BY <1>3, <1>5, <1>13, <2>1 DEF DriverInv, Moved, Complete, Deselected, Done, Returned, Right, Ready, Present, SameCall
  <2> QED  BY <1>8, <1>9, <1>10, <1>12, <2>2, <2>3 DEF DriverInv
<1>14. CASE op.pc \in Starting \cup Started
  <2>1. Permitted' /\ Moved' /\ Complete' /\ Deselected'
    BY <1>5, <1>14 DEF Permitted, Moved, Complete, Deselected, Done, Returned, Starting, Started
  <2> QED  BY <1>8, <1>9, <1>10, <1>12, <2>1 DEF DriverInv
<1> QED  BY <1>7, <1>13, <1>14

\* Call p is the one that follows o in the initialisation, with the command cmd.
Follows(o, p, cmd, pc) ==
  /\ p \in Calls /\ p.kind = o.kind /\ p.drv = o.drv /\ p.sector = o.sector /\ p.n = o.n /\ p.sec = o.sec
  /\ p.buf = o.buf /\ p.tries # 0 /\ p.cmd = cmd /\ p.pc = pc

\* The commands of the initialisation, with time and attempts counted
LEMMA FollowsFacts ==
  ASSUME NEW o \in Calls, o.tries # 0, NEW cmd \in Commands, NEW pc \in Places
  PROVE  /\ Follows(o, Send(o, cmd, 0, pc), cmd, pc)
         /\ \A t \in 0 .. Polls : Follows(o, Send([o EXCEPT !.time = t], cmd, 0, pc), cmd, pc)
         /\ o.tries # 1 => Follows(o, Send([o EXCEPT !.tries = @ - 1], cmd, 0, pc), cmd, pc)
<1>1. Follows(o, Send(o, cmd, 0, pc), cmd, pc)
  BY SendFacts DEF Follows, SameCall
<1>2. ASSUME NEW t \in 0 .. Polls
      PROVE  Follows(o, Send([o EXCEPT !.time = t], cmd, 0, pc), cmd, pc)
  <2> DEFINE q == [o EXCEPT !.time = t]
  <2>1. q \in Calls /\ SameCall(o, q)
    BY DEF Calls, SameCall
  <2> HIDE DEF q
  <2>2. Follows(o, Send(q, cmd, 0, pc), cmd, pc)
    BY <2>1, SendFacts DEF Follows, SameCall
  <2> QED  BY <2>2 DEF q
<1>3. ASSUME o.tries # 1
      PROVE  Follows(o, Send([o EXCEPT !.tries = @ - 1], cmd, 0, pc), cmd, pc)
  <2> DEFINE q == [o EXCEPT !.tries = @ - 1]
  <2>1. o.tries - 1 \in 0 .. 3 /\ o.tries - 1 # 0
    <3>1. o.tries \in 0 .. 3
      BY DEF Calls
    <3> QED  BY <1>3, <3>1
  <2>2. /\ q \in Calls /\ q.kind = o.kind /\ q.drv = o.drv /\ q.sector = o.sector /\ q.n = o.n /\ q.sec = o.sec
        /\ q.buf = o.buf /\ q.tries # 0
    BY <2>1 DEF Calls
  <2> HIDE DEF q
  <2>3. Follows(o, Send(q, cmd, 0, pc), cmd, pc)
    BY <2>2, SendFacts DEF Follows, SameCall
  <2> QED  BY <2>3 DEF q
<1> QED  BY <1>1, <1>2, <1>3

\* The order of the initialisation's commands, and the ways in which it ends
LEMMA AfterFacts ==
  ASSUME NEW o \in Calls, o.pc \in Starting \cup Started, o.tries # 0
  PROVE  LET p == After(o)
         IN  \/ \E r \in Results : p = Return(o, r)
             \/ /\ o.pc = "idle" /\ (Follows(o, p, "GO_IDLE_STATE", "idle") \/ Follows(o, p, "SEND_IF_COND", "cond"))
             \/ /\ o.pc = "cond" /\ Follows(o, p, "APP_CMD", "app")
             \/ /\ o.pc = "app" /\ Follows(o, p, "SD_SEND_OP_COND", "sd")
             \/ /\ o.pc = "sd" /\ (Follows(o, p, "APP_CMD", "app") \/ Follows(o, p, "READ_OCR", "ocr"))
             \/ /\ o.pc \in {"app", "sd", "ocr", "mmc"} /\ Follows(o, p, "SEND_OP_COND", "mmc")
             \/ /\ o.pc = "mmc" /\ Follows(o, p, "CRC_ON_OFF", "crc")
             \/ /\ o.pc = "crc" /\ o.res \in {"idle", "ready"} /\ Follows(o, p, "SET_BLOCKLEN", "len")
<1> DEFINE p == After(o)
<1>1. \A cmd \in Commands, pc \in Places :
         /\ Follows(o, Send(o, cmd, 0, pc), cmd, pc)
         /\ \A t \in 0 .. Polls : Follows(o, Send([o EXCEPT !.time = t], cmd, 0, pc), cmd, pc)
         /\ o.tries # 1 => Follows(o, Send([o EXCEPT !.tries = @ - 1], cmd, 0, pc), cmd, pc)
  BY FollowsFacts
<1>2. /\ {"GO_IDLE_STATE", "SEND_IF_COND", "APP_CMD", "SD_SEND_OP_COND", "READ_OCR", "SEND_OP_COND", "CRC_ON_OFF",
          "SET_BLOCKLEN"} \subseteq Commands
      /\ {"idle", "cond", "app", "sd", "ocr", "mmc", "crc", "len"} \subseteq Places
      /\ {"NOINIT", "NODISK", "OK", "PROTECT"} \subseteq Results
  BY DEF Commands, Places, Results, Starting, Started
<1>3. Follows(o, NotSd(o), "SEND_OP_COND", "mmc")
  <2>1. 0 \in 0 .. Polls
    BY Numbers
  <2> QED  BY <1>1, <1>2, <2>1 DEF NotSd
<1>4. ~Timeout(o) => o.time + 1 \in 0 .. Polls
  <2>1. o.time \in 0 .. Polls
    BY DEF Calls
  <2> QED  BY <2>1, Numbers DEF Timeout
<1>5. CASE o.pc = "idle"
  <2>1. p = Return(o, "NOINIT") \/ p = Again(o) \/ p = Send(o, "SEND_IF_COND", 0, "cond")
    BY <1>5 DEF After
  <2>2. p = Return(o, "NOINIT") \/ p = Send(o, "SEND_IF_COND", 0, "cond")
          \/ (o.tries # 1 /\ p = Send([o EXCEPT !.tries = @ - 1], "GO_IDLE_STATE", 0, "idle"))
    BY <2>1 DEF Again
  <2> QED  BY <1>1, <1>2, <1>5, <2>2
<1>6. CASE o.pc = "cond"
  <2>1. p = Return(o, "NODISK") \/ p = Send(o, "APP_CMD", 0, "app")
    BY <1>6 DEF After
  <2> QED  BY <1>1, <1>2, <1>6, <2>1
<1>7. CASE o.pc = "app"
  <2>1. p = NotSd(o) \/ p = Send(o, "SD_SEND_OP_COND", 0, "sd")
    BY <1>7 DEF After
  <2> QED  BY <1>1, <1>2, <1>3, <1>7, <2>1
<1>8. CASE o.pc = "sd"
  <2>1. \/ ~Timeout(o) /\ p = Send([o EXCEPT !.time = o.time + 1], "APP_CMD", 0, "app")
        \/ p = Send(o, "READ_OCR", 0, "ocr") \/ p = NotSd(o)
    BY <1>8 DEF After
  <2> QED  BY <1>1, <1>2, <1>3, <1>4, <1>8, <2>1
<1>9. CASE o.pc = "ocr"
  BY <1>3, <1>9 DEF After
<1>10. CASE o.pc = "mmc"
  <2>1. \/ p = Send(o, "CRC_ON_OFF", 0, "crc") \/ p = Return(o, "NOINIT")
        \/ ~Timeout(o) /\ p = Send([o EXCEPT !.time = o.time + 1], "SEND_OP_COND", 0, "mmc")
    BY <1>10 DEF After
  <2> QED  BY <1>1, <1>2, <1>4, <1>10, <2>1
<1>11. CASE o.pc = "crc"
  <2>1. (o.res \in {"idle", "ready"} /\ p = Send(o, "SET_BLOCKLEN", 0, "len")) \/ p = Return(o, "NODISK")
    BY <1>11 DEF After
  <2> QED  BY <1>1, <1>2, <1>11, <2>1
<1>12. CASE o.pc = "len"
  <2>1. \E r \in {"OK", "PROTECT", "NODISK", "NOINIT"} : p = Return(o, r)
    BY <1>12 DEF After, sd_status
  <2> QED  BY <1>2, <2>1
<1> QED  BY <1>5, <1>6, <1>7, <1>8, <1>9, <1>10, <1>11, <1>12 DEF Starting, Started

\* A step of the initialisation: what it finds out holds, and it is successful only
\* with what is needed for a mounted drive.
LEMMA InitialiseInv == DriverInv /\ sd_initialize => DriverInv'
<1> SUFFICES ASSUME DriverInv, sd_initialize PROVE DriverInv'
  OBVIOUS
<1>0. PICK d \in Drives : d = op.drv
  BY DEF DriverInv, Typed, Calls
<1>1. /\ op \in Calls /\ d \in Drives /\ op.pc \in Starting \cup Started /\ op.tries # 0 /\ op.kind = "init"
      /\ op.cmd = None /\ d \notin mounted
  BY <1>0 DEF DriverInv, Typed, CallShape, sd_initialize, Initialising, Starting, Started
<1>2. /\ op' \in Calls /\ op'.kind = "init" /\ op'.drv = d /\ op'.sector = op.sector /\ op'.n = op.n
      /\ op'.buf = op.buf
      /\ \/ op'.pc = "done" /\ op'.cmd = None
         \/ /\ op'.tries # 0
            /\ <<op.pc, op'.pc, op'.cmd>> \in {<<"idle", "idle", "GO_IDLE_STATE">>, <<"idle", "cond", "SEND_IF_COND">>,
                 <<"cond", "app", "APP_CMD">>, <<"app", "sd", "SD_SEND_OP_COND">>, <<"sd", "app", "APP_CMD">>,
                 <<"sd", "ocr", "READ_OCR">>, <<"app", "mmc", "SEND_OP_COND">>, <<"sd", "mmc", "SEND_OP_COND">>,
                 <<"ocr", "mmc", "SEND_OP_COND">>, <<"mmc", "mmc", "SEND_OP_COND">>, <<"mmc", "crc", "CRC_ON_OFF">>,
                 <<"crc", "len", "SET_BLOCKLEN">>}
            /\ op.pc = "crc" => op.res \in {"idle", "ready"}
  <2>1. op' = After(op)
    BY <1>0 DEF sd_initialize
  <2>2. CASE \E r \in Results : op' = Return(op, r)
    BY <1>0, <1>1, <2>2, ReturnFacts DEF SameCall
  <2>3. CASE ~\E r \in Results : op' = Return(op, r)
    BY <1>0, <1>1, <2>1, <2>3, AfterFacts DEF Follows
  <2> QED  BY <2>2, <2>3
<1> DEFINE k == Known(op)
<1>3. /\ sel' = SPIDEV_NONE /\ slots' = slots /\ count' = count
      /\ cardtype' = [cardtype EXCEPT ![d] = k]
  BY <1>0 DEF sd_initialize
<1>4. /\ k \in {"MMCSD", "SDHC"}
      /\ op.pc \in Starting \ {"ocr"} => k = "MMCSD"
      /\ op.pc = "ocr" => k = "MMCSD" \/ ~Present(d) \/ slots[d].kind = "SDHC"
      /\ op.pc \in Started => k = cardtype[d]
  <2>1. cardtype[d] \in {"MMCSD", "SDHC"} /\ (op.pc \in Starting => cardtype[d] = "MMCSD")
    BY <1>0, <1>1 DEF DriverInv, Typed, InitKnows
  <2> QED  BY <1>0, <2>1 DEF Known, Retried, Starting, Started
<1> HIDE DEF k
<1>5. /\ cardtype' \in [Drives -> {"MMCSD", "SDHC"}] /\ cardtype'[d] = k
      /\ \A e \in Drives \ {d} : cardtype'[e] = cardtype[e]
  BY <1>0, <1>1, <1>3, <1>4 DEF DriverInv, Typed
<1>6. mounted' = mounted \/ (mounted' = mounted \cup {d} /\ op.pc = "len" /\ op'.pc = "done")
  BY <1>0, <1>1, <1>2 DEF sd_initialize, Success
<1>7. Typed'
  <2>1. disk_state' \in {"OK", "CHANGED", "REMOVED", "ERROR"}
    BY DEF sd_initialize, DriverInv, Typed
  <2>2. missed' \in BOOLEAN
    BY <1>0 DEF sd_initialize
  <2> QED  BY <1>0, <1>1, <1>2, <1>3, <1>5, <1>6, <2>1, <2>2 DEF DriverInv, Typed
<1>8. CallShape'
  BY <1>0, <1>1, <1>2, <1>6 DEF DriverInv, CallShape, Starting, Started, Moving, None
<1>9. \A e \in Drives : Awake(e)' => Awake(e)
  BY <1>0, <1>3 DEF Awake, Present, sd_initialize
<1>10. Awake(d)' /\ op'.pc \in Started => TypeRight(d)'
  <2>1. CASE op.pc \in Started
    BY <1>0, <1>1, <1>3, <1>4, <1>5, <1>9, <2>1 DEF DriverInv, InitKnows, TypeRight
  <2>2. CASE op.pc \in Starting /\ op'.pc \in Started
    <3>1. op.pc # "mmc" /\ op'.pc = "mmc"
      BY <1>0, <1>2, <2>2 DEF Starting, Started
    <3>2. Awake(d)' => Present(d) /\ ~(slots[d].kind = "SDHC" /\ k # "SDHC")
      BY <1>0, <1>3, <3>1 DEF Awake, Present, sd_initialize, k
    <3> QED  BY <1>0, <1>3, <1>4, <1>5, <2>2, <3>2 DEF TypeRight, Starting
  <2> QED  BY <1>0, <1>1, <2>1, <2>2
<1>11. InitKnows'
  <2>1. op'.pc \in Starting => cardtype'[d] = "MMCSD"
    BY <1>0, <1>2, <1>4, <1>5 DEF Starting, Started
  <2>2. op'.pc = "crc" => op'.cmd # None
    BY <1>0, <1>2 DEF None
  <2>3. op'.pc = "len" /\ Awake(d)' => slots'[d].crc
    BY <1>0, <1>1, <1>2, <1>3, <1>9 DEF DriverInv, InitKnows
  <2>4. ASSUME NEW e \in mounted', Awake(e)' PROVE slots'[e].crc /\ TypeRight(e)'
    <3>1. CASE e \in mounted
      <4>1. e \in Drives \ {d}
        BY <1>0, <1>1, <3>1 DEF DriverInv, Typed
      <4> QED  BY <1>0, <1>3, <1>5, <1>9, <2>4, <3>1, <4>1 DEF DriverInv, InitKnows, TypeRight
    <3>2. CASE e = d /\ op.pc = "len"
      <4>1. Awake(d) /\ cardtype'[d] = cardtype[d]
        BY <1>0, <1>1, <1>4, <1>5, <1>9, <2>4, <3>2 DEF Started
      <4> QED  BY <1>0, <1>3, <3>2, <4>1 DEF DriverInv, InitKnows, TypeRight, Started
    <3> QED  BY <1>6, <3>1, <3>2
  <2> QED  BY <1>0, <1>2, <1>10, <2>1, <2>2, <2>3, <2>4 DEF InitKnows
<1>12. Noticed'
  <2>1. CASE Success
    BY <1>0, <1>3, <2>1 DEF sd_initialize, Noticed, Ready, Present
  <2>2. CASE ~Success
    BY <1>0, <1>3, <2>2 DEF sd_initialize, DriverInv, Typed, Noticed, Ready, Present
  <2> QED  BY <2>1, <2>2
<1>13. Permitted' /\ Moved' /\ Complete' /\ Deselected'
  BY <1>0, <1>2, <1>3 DEF Permitted, Moved, Complete, Deselected, Done
<1> QED  BY <1>7, <1>8, <1>11, <1>12, <1>13 DEF DriverInv

-----------------------------------------------------------------------------
(* Cards that are pulled or inserted, and the theorems.                    *)

\* A card that has just been inserted is one that can be.
LEMMA CardIsReal ==
  ASSUME NEW d \in Drives, NEW c \in Stock[d]
  PROVE  Card(c) \in RealCards /\ Card(c).state = "raw"
<1>1. c \in [kind : {"MMC", "SD", "SDHC"}, wp : BOOLEAN, fault : {"none", "idle", "volts"}]
  BY SdAssumption DEF Drives
<1>2. [s \in 0 .. Sectors - 1 |-> 0] \in [0 .. Sectors - 1 -> 0 .. MaxOps]
  BY Numbers
<1> QED  BY <1>1, <1>2 DEF Card, RealCards

\* The interrupt may come at any time: the slot has no card that is awake then.
LEMMA ChangeInv ==
  ASSUME NEW d \in Drives, DriverInv, SD_CHANGE_HANDLER(d)
  PROVE  DriverInv'
<1>1. /\ slots' \in [Drives -> {Empty} \cup RealCards] /\ slots'[d].state = "raw"
      /\ \A e \in Drives \ {d} : slots'[e] = slots[e]
      /\ disk_state' \in {"REMOVED", "CHANGED"}
  <2>1. CASE slots' = [slots EXCEPT ![d] = Empty] /\ disk_state' = "REMOVED"
    BY <2>1 DEF DriverInv, Typed, Empty
  <2>2. ASSUME NEW c \in Stock[d], slots' = [slots EXCEPT ![d] = Card(c)], disk_state' = "CHANGED"
        PROVE  /\ slots' \in [Drives -> {Empty} \cup RealCards] /\ slots'[d].state = "raw"
               /\ \A e \in Drives \ {d} : slots'[e] = slots[e]
    BY <2>2, CardIsReal DEF DriverInv, Typed
  <2> QED  BY <2>1, <2>2 DEF SD_CHANGE_HANDLER
<1>2. UNCHANGED <<cardtype, sel, op, mounted, missed, misled, count>>
  BY DEF SD_CHANGE_HANDLER
<1>3. Typed' /\ op.drv \in Drives /\ mounted \subseteq Drives
  BY <1>1, <1>2 DEF DriverInv, Typed, Calls
<1>4. ASSUME NEW e \in Drives, slots'[e].state # "raw"
      PROVE  slots'[e] = slots[e]
  BY <1>1, <1>4
<1>5. CallShape'
  BY <1>2 DEF DriverInv, CallShape, Address
<1>6. InitKnows'
  BY <1>2, <1>3, <1>4 DEF DriverInv, InitKnows, Awake, Present, TypeRight
<1>7. Noticed'
  BY <1>1 DEF Noticed
<1>8. Permitted' /\ Moved'
  <2>1. Ready(op.drv)' => Ready(op.drv) /\ slots'[op.drv] = slots[op.drv]
    BY <1>2, <1>3, <1>4 DEF Ready, Present
  <2> QED  BY <1>2, <2>1 DEF DriverInv, Permitted, Moved, Right, Done
<1>9. Complete' /\ Deselected'
  BY <1>2 DEF DriverInv, Complete, Deselected, Done, Returned
<1> QED  BY <1>3, <1>5, <1>6, <1>7, <1>8, <1>9 DEF DriverInv

\* It holds at first,
LEMMA DriverInvInit == Init => DriverInv
<1> SUFFICES ASSUME Init PROVE DriverInv
  OBVIOUS
<1>1. slots \in [Drives -> {Empty} \cup RealCards]
  <2>1. \A d \in Drives : slots[d] \in {Empty} \cup RealCards
    BY CardIsReal DEF Init
  <2>2. \E S : slots \in [Drives -> S]
    BY DEF Init
  <2> QED  BY <2>1, <2>2
<1>2. Typed
  <2>1. op \in Calls /\ missed \in BOOLEAN /\ mounted \subseteq Drives
    BY NoOpIsCall DEF Init
  <2>2. count \in 0 .. MaxOps
    BY Numbers DEF Init
  <2>3. cardtype \in [Drives -> {"MMCSD", "SDHC"}] /\ disk_state = "OK"
    BY DEF Init
  <2> QED  BY <1>1, <2>1, <2>2, <2>3 DEF Typed
<1>3. CallShape /\ InitKnows
  BY Numbers DEF Init, CallShape, InitKnows, NoOp, Starting, Started, Moving, None
<1>4. Noticed /\ Permitted /\ Moved /\ Complete /\ Deselected
  BY DEF Init, Noticed, Permitted, Moved, Complete, Deselected, Done, NoOp
<1> QED  BY <1>2, <1>3, <1>4 DEF DriverInv

\* and every step keeps it.
LEMMA DriverInvNext == DriverInv /\ [Next]_vars => DriverInv'
<1> SUFFICES ASSUME DriverInv, [Next]_vars PROVE DriverInv'
  OBVIOUS
<1>1. CASE send_command
  BY <1>1, SendCommandInv
<1>2. CASE sd_initialize
  BY <1>2, InitialiseInv
<1>3. CASE Refused \/ NoToken
  BY <1>3, RefusedInv
<1>4. CASE sd_read
  BY <1>4, ReadInv
<1>5. CASE sd_write
  BY <1>5, WriteInv
<1>6. CASE Written
  BY <1>6, WrittenInv
<1>7. CASE \E d \in 0 .. MAX_CARDS : CallInit(d)
  BY <1>7, CallInitInv
<1>8. CASE \E d \in Drives, s \in 0 .. Sectors - 1, n \in 1 .. 2 : s + n <= Sectors /\ CallRead(d, s, n)
  BY <1>8, CallReadInv
<1>9. CASE \E d \in Drives, s \in 0 .. Sectors - 1, n \in 1 .. 2 : s + n <= Sectors /\ CallWrite(d, s, n)
  BY <1>9, CallWriteInv
<1>10. CASE \E d \in Drives : SD_CHANGE_HANDLER(d)
  BY <1>10, ChangeInv
<1>11. CASE UNCHANGED vars
  <2>1. Typed' /\ CallShape'
    BY <1>11 DEF vars, DriverInv, Typed, CallShape, Address
  <2>2. InitKnows' /\ Noticed'
    BY <1>11 DEF vars, DriverInv, InitKnows, Noticed, Awake, TypeRight, Ready, Present
  <2>3. Permitted' /\ Moved' /\ Complete' /\ Deselected'
    BY <1>11 DEF vars, DriverInv, Permitted, Moved, Complete, Deselected, Done, Right, Ready, Present, Returned
  <2> QED  BY <2>1, <2>2, <2>3 DEF DriverInv
<1> QED  BY <1>1, <1>2, <1>3, <1>4, <1>5, <1>6, <1>7, <1>8, <1>9, <1>10, <1>11 DEF Next

\* It implies what is promised.
LEMMA DriverInvSound == DriverInv => DriverSound
<1> SUFFICES ASSUME DriverInv PROVE DriverSound
  OBVIOUS
<1>1. RealCards \subseteq Cards /\ Empty \in Cards
  BY DEF RealCards, Cards, Empty
<1>2. TypeOK
  <2>1. op.buf \in Seq(0 .. MaxOps) /\ op.n \in 0 .. 2 /\ Len(op.buf) <= op.n
    BY DEF DriverInv, Typed, Calls, CallShape
  <2>2. Len(op.buf) <= 2
    BY <2>1
  <2>3. slots \in [Drives -> Cards]
    BY <1>1 DEF DriverInv, Typed
  <2> QED  BY <2>2, <2>3 DEF DriverInv, Typed, TypeOK, Calls, Errors
<1>3. ReadTrue /\ WriteTrue
  BY DEF DriverInv, Moved, Complete, ReadTrue, WriteTrue, Done
<1>4. InitSound
  BY DEF DriverInv, InitKnows, InitSound, TypeRight, Awake, Right, Ready
<1>5. ChangeNoticed
  BY DEF DriverInv, Noticed, ChangeNoticed
<1> QED  BY <1>2, <1>3, <1>4, <1>5 DEF DriverInv, DriverSound

\* Whatever the cards, the noise and the moments of changes: a read or a write that
\* returns success has moved the right sectors, a mounted card is addressed the right
\* way, no card stays selected after a call, and disk_state tells of a change.
THEOREM DriverCorrect == Spec => []DriverSound
<1>1. Spec => Init /\ [][Next]_vars
  BY PTL DEF Spec
<1>2. Init => DriverInv
  BY DriverInvInit
<1>3. DriverInv /\ [Next]_vars => DriverInv'
  BY DriverInvNext
<1>4. DriverInv => DriverSound
  BY DriverInvSound
<1> QED  BY <1>1, <1>2, <1>3, <1>4, PTL

\* A step of the driver changes, of a card that is addressed the right way, no sector
\* but those of the write in progress, and none if the card is protected.
LEMMA StepOnlyWritten ==
  ASSUME DriverInv, [Next]_vars, NEW d \in Drives \ misled, Ready(d), slots'[d].state = "ready",
         NEW s \in 0 .. Sectors - 1, slots'[d].data[s] # slots[d].data[s]
  PROVE  op.kind = "write" /\ op.drv = d /\ s \in op.sector .. op.sector + op.n - 1 /\ ~slots[d].wp
<1>1. op \in Calls /\ op.drv \in Drives /\ Typed
  BY DEF DriverInv, Typed, Calls
<1>2. ~send_command
  <2> SUFFICES ASSUME send_command PROVE FALSE
    OBVIOUS
  <2>1. PICK garble \in BOOLEAN :
          \E a \in IF garble THEN Garbled(op.drv, op.cmd) ELSE Reply(op.drv, op.cmd, op.arg) :
             slots' = [slots EXCEPT ![op.drv] = a.card]
    BY DEF send_command
  <2>2. PICK a \in IF garble THEN Garbled(op.drv, op.cmd) ELSE Reply(op.drv, op.cmd, op.arg) :
             slots' = [slots EXCEPT ![op.drv] = a.card]
    BY <2>1
  <2>3. op.cmd \in Commands /\ op.arg \in Nat
    BY <1>1 DEF send_command, Calls
  <2>4. a.card.data = slots[op.drv].data
    BY <1>1, <2>3, ReplyFacts
  <2> QED  BY <1>1, <2>2, <2>4 DEF Typed
<1>3. ASSUME NEW e \in Drives, SD_CHANGE_HANDLER(e) PROVE FALSE
  <2>1. slots' # slots => e = d
    BY <1>1, <1>3 DEF SD_CHANGE_HANDLER, Typed
  <2>2. slots' = [slots EXCEPT ![d] = Empty]
    BY <1>3, <2>1 DEF SD_CHANGE_HANDLER, Ready
  <2> QED  BY <1>1, <2>2 DEF Empty, Typed
<1>4. sd_write /\ Ready(op.drv) /\ Stored(op.drv)
  BY <1>2, <1>3 DEF Next, vars, sd_initialize, Refused, NoToken, sd_read, sd_write, Written, CallInit, CallRead, CallWrite
<1>5. Accepted("write") /\ op.pc = "write"
  BY <1>4 DEF sd_write, Accepted
<1>6. d = op.drv /\ s = Block(slots[op.drv], op.arg)
  BY <1>4, <1>5, StoredFacts
<1>7. Right(op.drv)
  BY <1>6 DEF Right
<1>8. s = op.sector + op.sec
  BY <1>5, <1>6, <1>7, Addressed DEF Moving
<1>9. op.kind = "write" /\ op.sec < op.n /\ ~slots[op.drv].wp
  BY <1>4, <1>5 DEF DriverInv, CallShape, Permitted, Moving
<1>10. op.sector \in Nat /\ op.sec \in Nat /\ op.n \in Nat
  BY <1>1 DEF Calls
<1> QED  BY <1>6, <1>8, <1>9, <1>10

\* No step ever changes a sector that no write is for.
THEOREM OnlyWrittenHolds == Spec => OnlyWritten
<1> DEFINE Kept == \A d \in Drives \ misled : Ready(d) /\ slots'[d].state = "ready" =>
                     \A s \in 0 .. Sectors - 1 : slots'[d].data[s] # slots[d].data[s] =>
                       op.kind = "write" /\ op.drv = d /\ s \in op.sector .. op.sector + op.n - 1 /\ ~slots[d].wp
<1>1. Spec => Init /\ [][Next]_vars
  BY PTL DEF Spec
<1>2. Init => DriverInv
  BY DriverInvInit
<1>3. DriverInv /\ [Next]_vars => DriverInv'
  BY DriverInvNext
<1>4. DriverInv /\ [Next]_vars => [Kept]_vars
  BY StepOnlyWritten
<1>5. [][Kept]_vars => OnlyWritten
  BY DEF OnlyWritten
<1> HIDE DEF Kept
<1> QED  BY <1>1, <1>2, <1>3, <1>4, <1>5, PTL
=============================================================================
