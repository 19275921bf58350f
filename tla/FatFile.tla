------------------------------- MODULE FatFile -------------------------------
(***************************************************************************)
(* One channel on one file of a FAT partition: the host opens it to read,  *)
(* write, append or as a relative file, sends and fetches bytes, positions *)
(* with P and closes it.  One action is what the device does for one byte  *)
(* or one command.                                                         *)
(***************************************************************************)
EXTENDS FatBuffer

CONSTANTS Chars,        \* bytes the host sends
          Far,          \* bound: the offset up to which the host reads on
          Lengths,      \* record lengths the host uses
          Offsets       \* bound: offsets and records the host positions to

ASSUME FatFileAssumption == /\ Chars \subseteq 0 .. 255
                            /\ Lengths \subseteq 1 .. Payload
                            /\ Offsets \subseteq Nat
                            /\ Far \in Nat

VARIABLES ch,           \* the buffer with its file handle
          type,         \* type of the file on the medium
          header,       \* record length in the header of a REL file
          got,          \* the byte fetched last
          lost,         \* P has left the file (history)
          sent,         \* the record the host is writing or wrote (history)
          last          \* the byte the host sent last on this channel

vars == <<ch, type, header, got, lost, sent, last>>

Nothing == [byte |-> Junk, eoi |-> FALSE]

\* The calls of FatFs that can fail, in reading and in writing.
ReadFaults  == {"none", "read", "lseek"}
WriteFaults == ReadFaults \cup {"write", "fill"}
SeekFaults  == IF ch.dirty THEN WriteFaults ELSE ReadFaults
Rel     == ch.recordlen # 0
NoRecord == [at |-> 0, bytes |-> <<>>]

Init == /\ ch = Closed(<<>>)
        /\ type = "none"
        /\ header = 0
        /\ got = Nothing
        /\ lost = FALSE
        /\ sent = NoRecord
        /\ last = Junk

-----------------------------------------------------------------------------
(* file_open, with the file not existing or of the right type.             *)

OpenRead(fault) ==
  /\ ~ch.allocated /\ type = "seq"
  /\ ch' = fat_open_read(ch.file, fault)
  /\ UNCHANGED <<type, header, got, lost, sent, last>>

OpenWrite ==
  /\ ~ch.allocated /\ type = "none"
  /\ ch' = fat_open_write(<<>>)
  /\ type' = "seq"
  /\ UNCHANGED <<header, got, lost, sent, last>>

OpenAppend ==
  /\ ~ch.allocated /\ type = "seq"
  /\ ch' = fat_open_write(ch.file)
  /\ UNCHANGED <<type, header, got, lost, sent, last>>

OpenRel(length, fault) ==
  /\ ~ch.allocated
  /\ \/ type = "rel" /\ UNCHANGED <<type, header>>
     \/ type = "none" /\ length # 0 /\ type' = "rel" /\ header' = length
  /\ ch' = fat_open_rel(ch.file, header', length, fault)
  /\ UNCHANGED <<got, lost, sent, last>>

Scratch ==
  /\ ~ch.allocated /\ type # "none"
  /\ ch' = Closed(<<>>)
  /\ type' = "none" /\ header' = 0
  /\ UNCHANGED <<got, lost, sent, last>>

\* Forget what a closed channel has no use for.
After(c) == IF c.allocated THEN UNCHANGED <<lost, sent, last>>
                           ELSE lost' = FALSE /\ sent' = NoRecord /\ last' = Junk

Close(fault) ==
  /\ ch.allocated
  /\ ch' = fat_file_close(ch, fault)
  /\ got' = Nothing /\ lost' = FALSE /\ sent' = NoRecord /\ last' = Junk
  /\ UNCHANGED <<type, header>>

-----------------------------------------------------------------------------
\* Mistake: a full buffer is not marked for flushing.
Store_no_mustflush(c, b) ==
  [c EXCEPT !.data[c.position] = b, !.dirty = TRUE,
            !.lastused = Max({@, c.position}), !.position = (@ + 1) % W]

\* A byte goes into the buffer.
Store(c, b) ==
  [c EXCEPT !.data[c.position] = b,
            !.dirty     = TRUE,
            !.lastused  = Max({@, c.position}),
            !.position  = (@ + 1) % W,
            !.mustflush = @ \/ c.position + 1 = W]

\* What the host means the record to be: what is on the medium before the
\* first byte it sends, and the bytes it has sent.
Sent(c, b) ==
  IF c.dirty THEN [sent EXCEPT !.bytes = Append(@, b)]
  ELSE [at    |-> c.fptr,
        bytes |-> Append(SubSeq(c.file, c.fptr + 1, c.fptr + c.position - 2), b)]

\* iec_listen_handler, ieee488_ListenLoop.  Bound: a host that does not send
\* the same byte twice in a row shows every loss and every change of order.
Listen(b, eoi, fault) ==
  /\ ch.allocated /\ ch.write
  /\ b # last
  /\ ch.mustflush \/ (Rel /\ eoi) \/ fault = "none"
  /\ LET f == IF ch.mustflush THEN refill(ch, fault) ELSE ch
         s == Store(f, b)
     IN  /\ ch' = IF ~f.allocated THEN f
                  ELSE IF Rel /\ eoi THEN refill(s, fault) ELSE s
         /\ sent' = IF ~ch'.allocated \/ ~Rel THEN NoRecord ELSE Sent(f, b)
  /\ last' = IF ch'.allocated THEN b ELSE Junk
  /\ got' = Nothing /\ lost' = FALSE
  /\ UNCHANGED <<type, header>>

\* iec_talk_handler, ieee488_TalkLoop.  A host that turns to reading has ended
\* what it sent with EOI.
Talk(fault) ==
  /\ ch.allocated /\ ch.read
  /\ ~ch.dirty
  /\ ch.fptr <= Far
  /\ ch.position >= ch.lastused \/ fault = "none"
  /\ got' = [byte |-> ch.data[ch.position],
              eoi  |-> ch.position = ch.lastused /\ ch.sendeoi]
  /\ LET n == [ch EXCEPT !.position = (@ + 1) % W]
     IN  ch' = IF ch.position < ch.lastused THEN n
               ELSE IF ch.sendeoi /\ ~Rel THEN [n EXCEPT !.read = FALSE]
               ELSE refill(n, fault)
  /\ After(ch')
  /\ UNCHANGED <<type, header>>

-----------------------------------------------------------------------------
\* parse_position.  record and pos count from 1, 0 stands for 1; a regular
\* file takes an offset.
PositionRel(record, pos, fault) ==
  /\ ch.allocated /\ Rel
  /\ pos <= ch.recordlen
  /\ LET r == IF record = 0 THEN 0 ELSE record - 1
         i == IF pos = 0 THEN 0 ELSE pos - 1
     IN  ch' = fat_file_seek(ch, r * ch.recordlen, i, fault)
  /\ got' = Nothing /\ After(ch')
  /\ UNCHANGED <<type, header>>

PositionFile(offset, fault) ==
  /\ ch.allocated /\ ~Rel
  /\ ch' = fat_file_seek(ch, offset, 0, fault)
  /\ got' = Nothing
  /\ lost' = (ch'.allocated /\ ch.read /\ offset > Len(ch.file))
  /\ last' = IF ch'.allocated THEN last ELSE Junk
  /\ UNCHANGED <<type, header, sent>>

Next ==
  \/ OpenWrite \/ OpenAppend \/ Scratch
  \/ \E fault \in ReadFaults :
       \/ OpenRead(fault) \/ Talk(fault)
       \/ \E length \in Lengths \cup {0} : OpenRel(length, fault)
  \/ \E fault \in WriteFaults \cup {"close"} : Close(fault)
  \/ \E fault \in WriteFaults, b \in Chars, eoi \in BOOLEAN : Listen(b, eoi, fault)
  \/ \E fault \in SeekFaults, n \in Offsets :
       \/ PositionFile(n, fault)
       \/ \E pos \in 0 .. Payload : PositionRel(n, pos, fault)

Spec == Init /\ [][Next]_vars
-----------------------------------------------------------------------------
(* The sequential file that the host sees.                                 *)

Pending == [i \in 1 .. (IF ch.mustflush THEN ch.lastused
                                       ELSE ch.position - 1) - 1
             |-> ch.data[i + 1]]
Written == IF ch.dirty
             THEN ch.file \o Repeat(0, ch.fptr - Len(ch.file)) \o Pending
             ELSE ch.file

Mode == IF ~ch.allocated THEN "closed"
        ELSE IF Rel THEN "rel"
        ELSE IF ch.write THEN "write"
        ELSE IF ~ch.read THEN "done"
        ELSE IF lost THEN "lost" ELSE "read"

Host == INSTANCE CbmFile WITH
  content   <- IF Mode = "write" THEN Written ELSE ch.file,
  mode      <- Mode,
  next      <- CASE Mode = "read" -> ch.fptr + ch.position - 1
                 [] Mode = "write" -> IF ch.dirty THEN Len(Written) + 1
                                                  ELSE ch.fptr + 1
                 [] OTHER -> 0

-----------------------------------------------------------------------------
(* Properties.                                                             *)

Byte == 0 .. 255

\* Positions stay in the data area and the file on the medium.
TypeOK ==
  /\ ch.data \in [Area -> Byte \cup {Junk}]
  /\ ch.position \in Area /\ ch.lastused \in Area
  /\ ch.file \in Seq(Byte \cup {Junk})
  /\ Len(ch.file) <= Cap
  /\ got.byte \in Byte \cup {Junk}

\* The channel implements a sequential file: across buffer boundaries, flushes
\* and refills the host's bytes arrive in order, and it gets each byte once
\* with EOI at the last one.
ImplementsSequential == Host!Spec

\* A record as the medium holds it.
Image(bytes) == [i \in 1 .. ch.recordlen |-> IF i <= Len(bytes) THEN bytes[i] ELSE 0]

\* Once a record has been written back it is what the host sent: the bytes
\* from where the pointer was, zeros after them, the old ones before.
RecordStored ==
  ch.allocated /\ Rel /\ ~ch.dirty /\ sent # NoRecord
  => /\ sent.at + ch.recordlen <= Len(ch.file)
     /\ SubSeq(ch.file, sent.at + 1, sent.at + ch.recordlen) = Image(sent.bytes)

\* Writing to a record changes no other; the records up to a new one come out
\* empty.  (A full buffer and the byte after it can be two records.)
RecordIsolated ==
  [][LET n    == ch.recordlen
         mine == ch.fptr + 1 .. ch.fptr + (IF ch.mustflush THEN 2 * n ELSE n)
     IN  Rel /\ ch'.allocated
         => /\ Len(ch'.file) >= Len(ch.file)
            /\ \A i \in 1 .. Len(ch'.file) :
                 \/ i \in mine
                 \/ ch'.file[i] = IF i <= Len(ch.file) THEN ch.file[i]
                                  ELSE IF i % n = 1 % n THEN FF ELSE 0
    ]_vars

\* After P the pointer is at the byte given, if there is such a record.  The code
\* does not keep this in a record that ends in zeros.
PositionExact ==
  [][\A n \in Offsets \ {0}, pos \in 1 .. Payload :
       PositionRel(n, pos, "none") /\ ch'.allocated
         /\ n * ch.recordlen <= Len(ch'.file)
       => ch'.position = pos + 1]_vars

\* The fields of the buffer stay in range, and a record that has been written
\* back holds what the host sent to it.
RecordsRight == TypeOK /\ RecordStored
=============================================================================
