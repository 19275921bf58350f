---------------------------- MODULE FatFileProofs ----------------------------
(***************************************************************************)
(* A channel on a file of a FAT partition implements CbmFile, for every     *)
(* size of the data area and of the medium and for all offsets.            *)
(***************************************************************************)
EXTENDS FatFile, SequenceTheorems, WellFoundedInduction, TLAPS

-----------------------------------------------------------------------------
(* The invariant.                                                          *)

Cell == Byte \cup {Junk}

Chan == [allocated : BOOLEAN, read : BOOLEAN, write : BOOLEAN, dirty : BOOLEAN,
         mustflush : BOOLEAN, sendeoi : BOOLEAN, recordlen : 0 .. Payload,
         fptr : Nat, position : Area, lastused : Area, data : [Area -> Cell],
         refill : {"callback_dummy", "fat_file_read", "fat_file_write", "fat_file_sync"},
         fh : Nat, file : Seq(Cell), size : Nat]

\* The handle is in the file, and the file on the medium.
OnMedium(c) == Len(c.file) <= Cap /\ c.fh <= Len(c.file) /\ c.size <= Len(c.file)

\* What is between the pointers of a buffer that was filled at fptr: the data
\* of the file, and an end of file where the file ends.
Loaded(c) ==
  /\ c.fptr <= c.fh
  /\ c.lastused = IF c.fh = c.fptr THEN 2 ELSE c.fh - c.fptr + 1
  /\ c.position \in 2 .. c.lastused
  /\ c.sendeoi <=> c.fh = Len(c.file)
  /\ c.fh = c.fptr => c.fh = Len(c.file) /\ c.data[2] = CR
  /\ \A i \in 2 .. c.fh - c.fptr + 1 : c.data[i] = c.file[c.fptr + i - 1]

\* A channel for reading, at the end of the file or not.
ReadShape(c) ==
  /\ c.refill = "fat_file_read" /\ ~c.write /\ ~c.dirty /\ ~c.mustflush
  /\ c.size = Len(c.file) /\ c.lastused >= 2

\* A channel for writing: the bytes not yet written are up to position, or fill
\* the data area, and belong at fptr.
WriteShape(c) ==
  /\ c.refill = "fat_file_write" /\ c.write /\ ~c.read
  /\ c.fh = Len(c.file) /\ c.fptr >= Len(c.file)
  /\ IF c.mustflush THEN c.dirty /\ c.position = 0 /\ c.lastused = W - 1
     ELSE IF c.dirty THEN c.position \in 3 .. W - 1 /\ c.lastused = c.position - 1
     ELSE c.position = 2 /\ c.lastused = 2

RelShape(c) == c.refill = "fat_file_sync" /\ c.write /\ c.read

ChannelOK(c) ==
  /\ c \in Chan /\ OnMedium(c)
  /\ IF ~c.allocated THEN c = Closed(c.file)
     ELSE IF c.recordlen # 0 THEN RelShape(c)
     ELSE ReadShape(c) \/ WriteShape(c)

FileInv ==
  /\ ChannelOK(ch)
  /\ type \in {"none", "seq", "rel"} /\ (type = "rel" => header \in Lengths)
  /\ got.byte \in Cell
  /\ lost \in BOOLEAN /\ (lost => ch.allocated)
  /\ Mode = "read" => Loaded(ch)

-----------------------------------------------------------------------------
(* Numbers and sequences.                                                  *)

\* The sizes the assumptions leave, and the bytes of the code.
LEMMA Sizes ==
  /\ W \in Nat /\ W >= 3 /\ Cap \in Nat
  /\ Payload = W - 2 /\ Payload \in Nat /\ Payload >= 1 /\ Area = 0 .. W - 1
  /\ CR \in Cell /\ FF \in Cell /\ Junk \in Cell /\ 0 \in Cell
BY FatBufferAssumption DEF Payload, Area, CR, FF, Junk, Cell, Byte

\* Min of two numbers, as the code takes it.
LEMMA MinOfTwo ==
  ASSUME NEW a \in Int, NEW b \in Int
  PROVE  Min({a, b}) = IF a <= b THEN a ELSE b
<1>1. CASE a <= b
  <2>1. \A x \in {a, b} : (\A y \in {a, b} : x <= y) => x = a
    BY <1>1
  <2>2. a \in {a, b} /\ \A y \in {a, b} : a <= y
    BY <1>1
  <2> QED  BY <1>1, <2>1, <2>2 DEF Min
<1>2. CASE ~(a <= b)
  <2>1. \A x \in {a, b} : (\A y \in {a, b} : x <= y) => x = b
    BY <1>2
  <2>2. b \in {a, b} /\ \A y \in {a, b} : b <= y
    BY <1>2
  <2> QED  BY <1>2, <2>1, <2>2 DEF Min
<1> QED  BY <1>1, <1>2

\* Max of two numbers.
LEMMA MaxOfTwo ==
  ASSUME NEW a \in Int, NEW b \in Int
  PROVE  Max({a, b}) = IF a >= b THEN a ELSE b
<1>1. CASE a >= b
  <2>1. \A x \in {a, b} : (\A y \in {a, b} : x >= y) => x = a
    BY <1>1
  <2>2. a \in {a, b} /\ \A y \in {a, b} : a >= y
    BY <1>1
  <2> QED  BY <1>1, <2>1, <2>2 DEF Max
<1>2. CASE ~(a >= b)
  <2>1. \A x \in {a, b} : (\A y \in {a, b} : x >= y) => x = b
    BY <1>2
  <2>2. b \in {a, b} /\ \A y \in {a, b} : b >= y
    BY <1>2
  <2> QED  BY <1>2, <2>1, <2>2 DEF Max
<1> QED  BY <1>1, <1>2

\* Max of a set of naturals with a bound, such as the bytes used in a record, is
\* a member of it.
LEMMA MaxIsMember ==
  ASSUME NEW b \in Nat, NEW S \in SUBSET (0 .. b), S # {}
  PROVE  Max(S) \in S
<1> DEFINE T == {b - x : x \in S}
<1>1. T \in SUBSET Nat /\ T # {}
  <2>1. \A x \in S : b - x \in Nat
    OBVIOUS
  <2>2. \E x \in S : b - x \in T
    OBVIOUS
  <2> QED  BY <2>1, <2>2
<1> HIDE DEF T
<1>2. PICK t \in T : \A y \in T : ~ (<<y, t>> \in OpToRel(<, Nat))
  BY <1>1, WFMin, NatLessThanWellFounded
<1>3. PICK x \in S : t = b - x
  BY <1>2 DEF T
<1>4. ASSUME NEW z \in S, ~(x >= z) PROVE FALSE
  <2>1. b - z \in T /\ b - z \in Nat /\ t \in Nat /\ b - z < t
    <3>1. z \in Nat /\ x \in Nat /\ z <= b /\ x < z /\ x <= b
      BY <1>4
    <3>2. b - z \in T
      BY DEF T
    <3> QED  BY <1>3, <3>1, <3>2
  <2> DEFINE y == b - z
  <2>2. y \in T /\ y \in Nat /\ y < t
    BY <2>1
  <2> HIDE DEF y
  <2>3. <<y, t>> \in Nat \X Nat /\ <<y, t>>[1] = y /\ <<y, t>>[2] = t
    BY <2>1, <2>2
  <2>4. <<y, t>>[1] < <<y, t>>[2]
    BY <2>2, <2>3
  <2>5. <<y, t>> \in {ss \in Nat \X Nat : ss[1] < ss[2]}
    BY <2>3, <2>4
  <2> QED  BY <1>2, <2>2, <2>5 DEF OpToRel
<1>5. \A z \in S : x >= z
  BY <1>4
<1> QED  BY <1>3, <1>5 DEF Max

\* A function on 1..n is a sequence of length n.
LEMMA SeqOfFunction ==
  ASSUME NEW S, NEW n \in Nat, NEW f \in [1 .. n -> S]
  PROVE  f \in Seq(S) /\ Len(f) = n
<1>1. f \in Seq(S)
  BY SeqDef
<1>2. DOMAIN f = 1 .. n /\ DOMAIN f = 1 .. Len(f) /\ Len(f) \in Nat
  BY <1>1, LenProperties
<1> QED  BY <1>1, <1>2

\* Repeat gives a sequence of one byte.
LEMMA RepeatSeq ==
  ASSUME NEW b \in Cell, NEW n \in Nat
  PROVE  /\ Repeat(b, n) \in Seq(Cell) /\ Len(Repeat(b, n)) = n
         /\ \A i \in 1 .. n : Repeat(b, n)[i] = b
<1>1. Repeat(b, n) \in [1 .. n -> Cell]
  BY DEF Repeat
<1>2. \A i \in 1 .. n : Repeat(b, n)[i] = b
  BY DEF Repeat
<1> QED  BY <1>1, <1>2, SeqOfFunction

\* The first n bytes of a file.
LEMMA PrefixSeq ==
  ASSUME NEW s \in Seq(Cell), NEW n \in Nat, n <= Len(s)
  PROVE  /\ SubSeq(s, 1, n) \in Seq(Cell) /\ Len(SubSeq(s, 1, n)) = n
         /\ \A i \in 1 .. n : SubSeq(s, 1, n)[i] = s[i]
<1>1. Len(s) \in Nat /\ \A i \in 1 .. n : s[i] \in Cell
  BY LenProperties, ElementOfSeq
<1>2. /\ SubSeq(s, 1, n) \in Seq(Cell)
      /\ Len(SubSeq(s, 1, n)) = IF 1 <= n THEN n - 1 + 1 ELSE 0
      /\ \A i \in 1 .. n - 1 + 1 : SubSeq(s, 1, n)[i] = s[1 + i - 1]
  BY <1>1, SubSeqProperties
<1> QED  BY <1>2

\* o is s with t over it from offset at.
Overwritten(s, at, t, o) ==
  /\ o \in Seq(Cell)
  /\ Len(o) = IF at + Len(t) >= Len(s) THEN at + Len(t) ELSE Len(s)
  /\ \A i \in 1 .. Len(o) :
       o[i] = IF i <= at THEN s[i] ELSE IF i <= at + Len(t) THEN t[i - at] ELSE s[i]

\* Overwrite, byte for byte.
LEMMA OverwriteSeq ==
  ASSUME NEW s \in Seq(Cell), NEW t \in Seq(Cell), NEW at \in Nat, at <= Len(s)
  PROVE  Overwritten(s, at, t, Overwrite(s, at, t))
<1> DEFINE a == SubSeq(s, 1, at)
           m == at + Len(t) + 1
           z == SubSeq(s, m, Len(s))
<1>1. Len(s) \in Nat /\ Len(t) \in Nat /\ (\A i \in 1 .. Len(s) : s[i] \in Cell)
      /\ m \in Nat /\ m >= 1 /\ m = at + Len(t) + 1
  BY LenProperties, ElementOfSeq
<1>2. a \in Seq(Cell) /\ Len(a) = at /\ \A i \in 1 .. at : a[i] = s[i]
  BY PrefixSeq
<1> HIDE DEF a, m
<1>3. /\ z \in Seq(Cell) /\ Len(z) = (IF m <= Len(s) THEN Len(s) - m + 1 ELSE 0)
      /\ \A i \in 1 .. Len(s) - m + 1 : z[i] = s[m + i - 1]
  <2>1. \A i \in m .. Len(s) : s[i] \in Cell
    BY <1>1
  <2> QED  BY <1>1, <2>1, SubSeqProperties
<1> HIDE DEF z
<1> DEFINE u == a \o t
<1>4. /\ u \in Seq(Cell) /\ Len(u) = at + Len(t)
      /\ \A i \in 1 .. at + Len(t) : u[i] = IF i <= at THEN a[i] ELSE t[i - at]
  BY <1>2, ConcatProperties
<1> HIDE DEF u
<1> DEFINE o == u \o z
<1>5. /\ o \in Seq(Cell) /\ Len(o) = at + Len(t) + Len(z)
      /\ \A i \in 1 .. at + Len(t) + Len(z) :
           o[i] = IF i <= at + Len(t) THEN u[i] ELSE z[i - (at + Len(t))]
  <2>1. /\ o \in Seq(Cell) /\ Len(o) = Len(u) + Len(z)
        /\ \A i \in 1 .. Len(u) + Len(z) : o[i] = IF i <= Len(u) THEN u[i] ELSE z[i - Len(u)]
    BY <1>3, <1>4, ConcatProperties
  <2> HIDE DEF o
  <2> QED  BY <1>4, <2>1
<1>6. o = Overwrite(s, at, t)
  BY DEF Overwrite, a, z, m, u
<1> HIDE DEF o
<1>9. /\ m = at + Len(t) + 1 /\ Len(s) \in Nat /\ Len(t) \in Nat
      /\ Len(z) = (IF m <= Len(s) THEN Len(s) - m + 1 ELSE 0) /\ Len(o) = at + Len(t) + Len(z)
  BY <1>1, <1>3, <1>5
<1>7. Len(o) = IF at + Len(t) >= Len(s) THEN at + Len(t) ELSE Len(s)
  <2>1. CASE m <= Len(s)
    BY <1>9, <2>1
  <2>2. CASE ~(m <= Len(s))
    BY <1>9, <2>2
  <2> QED  BY <2>1, <2>2
<1>8. ASSUME NEW i \in 1 .. Len(o)
      PROVE  o[i] = IF i <= at THEN s[i] ELSE IF i <= at + Len(t) THEN t[i - at] ELSE s[i]
  <2>1. CASE i <= at + Len(t)
    BY <1>1, <1>2, <1>4, <1>5, <2>1
  <2>2. CASE i > at + Len(t)
    <3>4. i - (at + Len(t)) \in 1 .. Len(z) /\ i \in 1 .. at + Len(t) + Len(z) /\ m <= Len(s)
      <4>1. Len(z) \in Nat /\ i \in Int /\ 1 <= i /\ i <= at + Len(t) + Len(z) /\ Len(t) \in Nat /\ i > at + Len(t)
        <5>1. Len(z) \in Nat /\ Len(o) \in Nat
          BY <1>3, <1>5, LenProperties
        <5>2. i \in Int /\ 1 <= i /\ i <= Len(o)
          BY <5>1
        <5> QED  BY <1>9, <2>2, <5>1, <5>2
      <4>2. m <= Len(s)
        <5> SUFFICES ASSUME ~(m <= Len(s)) PROVE FALSE
          OBVIOUS
        <5>1. Len(z) = 0
          BY <1>9
        <5> QED  BY <4>1, <5>1
      <4> QED  BY <4>1, <4>2
    <3>1. o[i] = z[i - (at + Len(t))] /\ i - (at + Len(t)) \in 1 .. Len(z) /\ m <= Len(s)
      BY <1>9, <1>5, <2>2, <3>4
    <3>2. z[i - (at + Len(t))] = s[m + (i - (at + Len(t))) - 1]
      BY <1>1, <1>3, <3>1
    <3>3. m + (i - (at + Len(t))) - 1 = i
      BY <1>1
    <3> QED  BY <1>1, <2>2, <3>1, <3>2, <3>3
  <2> QED  BY <1>1, <2>1, <2>2
<1>10. Overwritten(s, at, t, o)
  BY <1>5, <1>7, <1>8 DEF Overwritten
<1> QED  BY <1>6, <1>10

-----------------------------------------------------------------------------
(* The calls of FatFs.                                                     *)

\* A closed channel, by whichever path
LEMMA ClosedOK ==
  ASSUME NEW f \in Seq(Cell), Len(f) <= Cap
  PROVE  ChannelOK(Closed(f)) /\ Closed(f).file = f /\ ~Closed(f).allocated
<1>1. Len(f) \in Nat
  BY LenProperties
<1>2. Pristine(f) \in Chan /\ Pristine(f).file = f /\ Pristine(f).fh = 0 /\ Pristine(f).size = Len(f)
  BY <1>1, Sizes DEF Pristine, Chan
<1>3. Closed(f) \in Chan /\ Closed(f).file = f /\ Closed(f).fh = 0 /\ Closed(f).size = Len(f)
      /\ Closed(f).allocated = FALSE
  BY <1>2 DEF Closed, Chan
<1> QED  BY <1>1, <1>3 DEF ChannelOK, OnMedium

\* free_buffer without f_close leaves what the directory entry records.
LEMMA AbortOK ==
  ASSUME NEW c \in Chan, OnMedium(c)
  PROVE  /\ Abort(c) = Closed(SubSeq(c.file, 1, c.size))
         /\ SubSeq(c.file, 1, c.size) \in Seq(Cell) /\ Len(SubSeq(c.file, 1, c.size)) = c.size
         /\ \A i \in 1 .. c.size : SubSeq(c.file, 1, c.size)[i] = c.file[i]
         /\ c.size = Len(c.file) => SubSeq(c.file, 1, c.size) = c.file
         /\ ChannelOK(Abort(c))
<1>1. c.file \in Seq(Cell) /\ c.size \in Nat /\ c.size <= Len(c.file) /\ Len(c.file) <= Cap
      /\ Len(c.file) \in Nat
  BY LenProperties DEF Chan, OnMedium
<1>2. /\ SubSeq(c.file, 1, c.size) \in Seq(Cell) /\ Len(SubSeq(c.file, 1, c.size)) = c.size
      /\ \A i \in 1 .. c.size : SubSeq(c.file, 1, c.size)[i] = c.file[i]
  BY <1>1, PrefixSeq
<1>3. c.size = Len(c.file) => SubSeq(c.file, 1, c.size) = c.file
  BY <1>1, SubSeqFull
<1>4. c.size <= Cap
  BY <1>1, Sizes
<1>5. Abort(c) = Closed(SubSeq(c.file, 1, c.size))
  BY DEF Abort
<1>6. ChannelOK(Closed(SubSeq(c.file, 1, c.size)))
  BY <1>2, <1>4, ClosedOK
<1> QED  BY <1>2, <1>3, <1>5, <1>6

\* What f_lseek does: it moves the handle and stretches the file with what is
\* on the medium.
Sought(c, ofs, q) ==
  /\ q \in Chan /\ OnMedium(q)
  /\ q = [c EXCEPT !.fh = q.fh, !.file = q.file]
  /\ ofs <= Len(c.file) => q.fh = ofs /\ q.file = c.file
  /\ ofs > Len(c.file) /\ Writable(c) =>
       /\ q.fh = IF ofs <= Cap THEN ofs ELSE Cap
       /\ Len(q.file) = q.fh
       /\ \A i \in 1 .. Len(c.file) : q.file[i] = c.file[i]
       /\ \A i \in Len(c.file) + 1 .. Len(q.file) : q.file[i] = Junk

\* f_lseek on a file on the medium
LEMMA LseekEffect ==
  ASSUME NEW c \in Chan, OnMedium(c), NEW ofs \in Nat
  PROVE  Sought(c, ofs, f_lseek(c, ofs))
<1> DEFINE q == f_lseek(c, ofs)
<1>1. c.file \in Seq(Cell) /\ Len(c.file) \in Nat /\ Len(c.file) <= Cap /\ Cap \in Nat
      /\ c.size <= Len(c.file) /\ c.size \in Nat /\ Junk \in Cell
  BY LenProperties, Sizes DEF Chan, OnMedium
<1> DEFINE to == IF Writable(c) THEN Min({ofs, Cap}) ELSE Min({ofs, Len(c.file)})
           more == Repeat(Junk, to - Len(c.file))
           f == IF to > Len(c.file) THEN c.file \o more ELSE c.file
<1>2. to = IF Writable(c) THEN (IF ofs <= Cap THEN ofs ELSE Cap)
           ELSE (IF ofs <= Len(c.file) THEN ofs ELSE Len(c.file))
  BY <1>1, MinOfTwo
<1>3. q = [c EXCEPT !.fh = to, !.file = f]
  BY DEF f_lseek
<1> HIDE DEF q
<1> HIDE DEF to
<1>4. to \in Nat /\ to <= Cap /\ (~Writable(c) => to <= Len(c.file))
  BY <1>1, <1>2
<1>5. ASSUME to > Len(c.file)
      PROVE  /\ f \in Seq(Cell) /\ Len(f) = to
             /\ \A i \in 1 .. Len(c.file) : f[i] = c.file[i]
             /\ \A i \in Len(c.file) + 1 .. to : f[i] = Junk
  <2>1. to - Len(c.file) \in Nat /\ Len(c.file) + (to - Len(c.file)) = to
    BY <1>1, <1>4, <1>5
  <2>2. /\ more \in Seq(Cell) /\ Len(more) = to - Len(c.file)
        /\ \A i \in 1 .. to - Len(c.file) : more[i] = Junk
    BY <1>1, <2>1, RepeatSeq
  <2> HIDE DEF more
  <2>3. /\ c.file \o more \in Seq(Cell) /\ Len(c.file \o more) = Len(c.file) + Len(more)
        /\ \A i \in 1 .. Len(c.file) + Len(more) : (c.file \o more)[i] =
             IF i <= Len(c.file) THEN c.file[i] ELSE more[i - Len(c.file)]
    BY <1>1, <2>2, ConcatProperties
  <2>4. f = c.file \o more
    BY <1>5
  <2> HIDE DEF f
  <2>5. \A i \in 1 .. Len(c.file) : f[i] = c.file[i]
    BY <1>1, <2>1, <2>2, <2>3, <2>4
  <2>6. ASSUME NEW i \in Len(c.file) + 1 .. to PROVE f[i] = Junk
    <3>1. i \in 1 .. to /\ ~(i <= Len(c.file)) /\ i - Len(c.file) \in 1 .. to - Len(c.file)
      BY <1>1, <1>4
    <3> QED  BY <2>1, <2>2, <2>3, <2>4, <3>1
  <2> QED  BY <2>1, <2>2, <2>3, <2>4, <2>5, <2>6
<1>6. ~(to > Len(c.file)) => f = c.file
  OBVIOUS
<1> HIDE DEF f
<1>7. f \in Seq(Cell) /\ Len(f) \in Nat /\ to <= Len(f) /\ Len(c.file) <= Len(f) /\ Len(f) <= Cap
  <2>1. CASE to > Len(c.file)
    BY <1>1, <1>4, <1>5, <2>1
  <2>2. CASE ~(to > Len(c.file))
    BY <1>1, <1>4, <1>6, <2>2
  <2> QED  BY <2>1, <2>2
<1>8. q \in Chan /\ q.fh = to /\ q.file = f /\ q.size = c.size
  BY <1>3, <1>4, <1>7 DEF Chan
<1>9. OnMedium(q)
  BY <1>1, <1>7, <1>8 DEF OnMedium
<1>10. ofs <= Len(c.file) => to = ofs /\ ~(to > Len(c.file))
  BY <1>1, <1>2
<1>11. ofs > Len(c.file) /\ Writable(c) =>
         /\ to = IF ofs <= Cap THEN ofs ELSE Cap
         /\ to > Len(c.file) \/ (to = Len(c.file) /\ ~(to > Len(c.file)))
  BY <1>1, <1>2
<1>12. ofs > Len(c.file) /\ Writable(c) =>
         /\ Len(f) = to
         /\ \A i \in 1 .. Len(c.file) : f[i] = c.file[i]
         /\ \A i \in Len(c.file) + 1 .. Len(f) : f[i] = Junk
  <2>1. CASE to > Len(c.file)
    BY <1>5, <2>1
  <2>2. CASE ~(to > Len(c.file))
    BY <1>1, <1>6, <1>11, <2>2
  <2> QED  BY <2>1, <2>2
<1>13. q = [c EXCEPT !.fh = q.fh, !.file = q.file]
  BY <1>3, <1>8
<1>14. Sought(c, ofs, q)
  BY <1>6, <1>8, <1>9, <1>10, <1>11, <1>12, <1>13 DEF Sought
<1> QED  BY <1>14 DEF q

-----------------------------------------------------------------------------
(* The callbacks.                                                          *)

\* What no callback changes while the channel stays open
Same(c, q) ==
  /\ q.allocated = c.allocated /\ q.read = c.read /\ q.write = c.write
  /\ q.recordlen = c.recordlen /\ q.refill = c.refill /\ q.size = c.size

\* The buffer is loaded from the handle on.
Refilled(c, q) ==
  /\ c.refill # "fat_file_write"
  /\ q \in Chan /\ OnMedium(q) /\ Same(c, q)
  /\ q.file = c.file /\ q.dirty = c.dirty /\ q.mustflush = c.mustflush
  /\ q.fptr = c.fh /\ q.fh >= c.fh /\ q.position = 2
  /\ c.recordlen = 0 => Loaded(q) /\ q.lastused >= 2

\* fat_file_read frees the buffer or loads it.
LEMMA ReadEffect ==
  ASSUME NEW c \in Chan, OnMedium(c), NEW fault
  PROVE  fat_file_read(c, fault) = Abort(c) \/ Refilled(c, fat_file_read(c, fault))
<1> DEFINE q == fat_file_read(c, fault)
<1> SUFFICES ASSUME ~(fault = "read" \/ c.refill = "fat_file_write")
             PROVE  Refilled(c, q)
  BY DEF fat_file_read
<1> DEFINE n == IF c.recordlen # 0 THEN c.recordlen ELSE Payload
           k == Min({n, Len(c.file) - c.fh})
           d == [i \in Area |->
                   IF i \in 2 .. k + 1 THEN c.file[c.fh + i - 1]
                   ELSE IF k = 0 /\ i = 2
                     THEN IF c.recordlen # 0 THEN FF ELSE CR
                     ELSE c.data[i]]
           top == (IF k = 0 THEN 1 ELSE k) + 1
           used == IF c.recordlen = 0 THEN top ELSE Max({1} \cup {i \in 2 .. top : d[i] # 0})
           eoi == \/ k < Payload
                  \/ c.fh + k = Len(c.file)
                  \/ c.recordlen # 0
<1>1. q = [c EXCEPT !.fptr = c.fh, !.fh = @ + k, !.data = d, !.position = 2,
                    !.lastused = used, !.sendeoi = eoi]
  BY DEF fat_file_read
<1> HIDE DEF q
<1>2. /\ c.file \in Seq(Cell) /\ Len(c.file) \in Nat /\ c.fh \in Nat /\ c.fh <= Len(c.file)
      /\ c.recordlen \in 0 .. Payload /\ c.data \in [Area -> Cell] /\ c.size <= Len(c.file)
      /\ Len(c.file) <= Cap /\ c.size \in Nat
  BY LenProperties DEF Chan, OnMedium
<1>3. n \in Nat /\ n >= 1 /\ n <= Payload /\ (c.recordlen = 0 => n = Payload)
  BY <1>2, Sizes
<1> HIDE DEF n
<1>4. k = IF n <= Len(c.file) - c.fh THEN n ELSE Len(c.file) - c.fh
  BY <1>2, <1>3, MinOfTwo
<1> HIDE DEF k
<1>5. /\ k \in Nat /\ k <= Payload /\ k + 1 \in Area /\ c.fh + k <= Len(c.file)
      /\ (k < n => c.fh + k = Len(c.file))
  <2>1. /\ k \in Nat /\ k <= Payload /\ c.fh + k <= Len(c.file)
        /\ (k < n => c.fh + k = Len(c.file))
    <3>1. CASE n <= Len(c.file) - c.fh
      BY <1>2, <1>3, <1>4, <3>1, Sizes
    <3>2. CASE ~(n <= Len(c.file) - c.fh)
      BY <1>2, <1>3, <1>4, <3>2, Sizes
    <3> QED  BY <3>1, <3>2
  <2> QED  BY <2>1, Sizes
<1>6. d \in [Area -> Cell]
  <2>1. ASSUME NEW i \in Area, i \in 2 .. k + 1 PROVE c.file[c.fh + i - 1] \in Cell
    <3>1. c.fh + i - 1 \in 1 .. Len(c.file)
      BY <1>2, <1>5, <2>1
    <3> QED  BY <1>2, <3>1, ElementOfSeq
  <2> QED  BY <1>2, <2>1, Sizes
<1>7. /\ \A i \in 2 .. k + 1 : d[i] = c.file[c.fh + i - 1]
      /\ k = 0 /\ c.recordlen = 0 => d[2] = CR
  <2>1. \A i \in 2 .. k + 1 : i \in Area
    BY <1>5, Sizes
  <2>2. 2 \in Area
    BY Sizes
  <2> QED  BY <2>1, <2>2
<1> HIDE DEF d
<1>8. top \in Nat /\ top >= 2 /\ top \in Area /\ top = IF k = 0 THEN 2 ELSE k + 1
  BY <1>5, Sizes
<1> HIDE DEF top
<1>9. used \in Area /\ (c.recordlen = 0 => used = top)
  <2>1. CASE c.recordlen = 0
    BY <1>8, <2>1
  <2>2. CASE c.recordlen # 0
    <3> DEFINE S == {1} \cup {i \in 2 .. top : d[i] # 0}
    <3>1. S \in SUBSET (0 .. top) /\ S # {}
      BY <1>8
    <3>2. used = Max(S)
      BY <2>2
    <3> HIDE DEF S, used
    <3>3. used \in 0 .. top
      BY <1>8, <3>1, <3>2, MaxIsMember
    <3> QED  BY <1>8, <2>2, <3>3, Sizes
  <2> QED  BY <2>1, <2>2
<1>10. eoi \in BOOLEAN /\ (c.recordlen = 0 => (eoi <=> c.fh + k = Len(c.file)))
  BY <1>3, <1>5
<1> HIDE DEF used, eoi
<1>11. 2 \in Area /\ c.fh + k \in Nat
  BY <1>2, <1>5, Sizes
<1>12. q \in Chan
  BY <1>1, <1>2, <1>6, <1>9, <1>10, <1>11 DEF Chan
<1>13. /\ q.file = c.file /\ q.dirty = c.dirty /\ q.mustflush = c.mustflush
       /\ q.fptr = c.fh /\ q.position = 2 /\ q.fh = c.fh + k /\ q.size = c.size
       /\ q.data = d /\ q.lastused = used /\ q.sendeoi = eoi
       /\ q.allocated = c.allocated /\ q.read = c.read /\ q.write = c.write
       /\ q.recordlen = c.recordlen /\ q.refill = c.refill
  BY <1>1 DEF Chan
<1>14. OnMedium(q) /\ Same(c, q)
  BY <1>2, <1>5, <1>13 DEF OnMedium, Same
<1>15. ASSUME c.recordlen = 0 PROVE Loaded(q) /\ q.lastused >= 2
  <2>1. q.fptr <= q.fh /\ q.lastused >= 2 /\ q.position \in 2 .. q.lastused
    BY <1>2, <1>5, <1>8, <1>9, <1>13, <1>15
  <2>2. q.fh = q.fptr <=> k = 0
    BY <1>2, <1>5, <1>13
  <2>3. q.lastused = IF q.fh = q.fptr THEN 2 ELSE q.fh - q.fptr + 1
    BY <1>2, <1>5, <1>8, <1>9, <1>13, <1>15, <2>2
  <2>4. q.sendeoi <=> q.fh = Len(q.file)
    BY <1>10, <1>13, <1>15
  <2>5. q.fh = q.fptr => q.fh = Len(q.file) /\ q.data[2] = CR
    BY <1>3, <1>5, <1>7, <1>13, <1>15, <2>2
  <2>6. q.fh - q.fptr + 1 = k + 1
    BY <1>2, <1>5, <1>13
  <2>7. \A i \in 2 .. q.fh - q.fptr + 1 : q.data[i] = q.file[q.fptr + i - 1]
    BY <1>7, <1>13, <2>6
  <2> QED  BY <2>1, <2>3, <2>4, <2>5, <2>7 DEF Loaded
<1>16. q.fh >= c.fh
  BY <1>2, <1>5, <1>13
<1> QED  BY <1>12, <1>13, <1>14, <1>15, <1>16 DEF Refilled

\* The bytes that write_data sends to the file
Used(c)  == IF c.mustflush THEN c.lastused ELSE (c.position - 1) % W
Top(c)   == IF c.recordlen # 0 THEN c.recordlen + 1 ELSE Used(c)
Bytes(c) == [i \in 1 .. Top(c) - 1 |-> memset_record(c, Used(c))[i + 1]]

\* A buffer with something to send: a record, or what the host wrote.
Sends(c) == c.recordlen # 0 \/ Used(c) >= 1

\* What write_data sends fits in the data area.
LEMMA BytesSeq ==
  ASSUME NEW c \in Chan, Sends(c)
  PROVE  /\ memset_record(c, Used(c)) \in [Area -> Cell]
         /\ Bytes(c) \in Seq(Cell) /\ Len(Bytes(c)) = Top(c) - 1 /\ Top(c) - 1 \in Nat
<1>1. Used(c) \in Area
  <2>1. c.lastused \in Area /\ c.position \in Int /\ W \in Nat /\ W > 0
    BY Sizes DEF Chan
  <2>2. (c.position - 1) % W \in 0 .. W - 1
    BY <2>1
  <2> QED  BY <2>1, <2>2, Sizes DEF Used
<1>2. Top(c) \in Area /\ Top(c) >= 1
  BY <1>1, Sizes DEF Top, Sends, Chan
<1>3. memset_record(c, Used(c)) \in [Area -> Cell]
  BY Sizes DEF memset_record, Chan
<1>4. Top(c) - 1 \in Nat /\ \A i \in 1 .. Top(c) - 1 : i + 1 \in Area
  BY <1>2, Sizes
<1>5. Bytes(c) \in [1 .. Top(c) - 1 -> Cell]
  BY <1>3, <1>4 DEF Bytes
<1> QED  BY <1>3, <1>4, <1>5, SeqOfFunction

\* write_data frees the buffer, with nothing or with a part of the data written,
WroteLess(c, q) ==
  \/ q = Closed(c.file)
  \/ \E n \in Nat : /\ n < Len(Bytes(c)) /\ c.fh + n <= Cap
                    /\ q = Closed(Overwrite(c.file, c.fh, SubSeq(Bytes(c), 1, n)))

\* or writes the data at the handle and empties the buffer.
WroteAll(c, q) ==
  /\ c.fh + Len(Bytes(c)) <= Cap
  /\ q = [c EXCEPT !.data = memset_record(c, Used(c)),
                   !.file = Overwrite(c.file, c.fh, Bytes(c)),
                   !.fh = c.fh + Len(Bytes(c)), !.fptr = c.fh + Len(Bytes(c)),
                   !.dirty = FALSE, !.mustflush = FALSE,
                   !.position = 2, !.lastused = 2]

\* write_data does one of the two.
LEMMA WriteDataEffect ==
  ASSUME NEW c \in Chan, OnMedium(c), Sends(c), NEW fault
  PROVE  WroteLess(c, write_data(c, fault)) \/ WroteAll(c, write_data(c, fault))
<1> DEFINE q == write_data(c, fault)
<1> DEFINE b == Bytes(c)
           d == memset_record(c, Used(c))
           n == Min({Len(b), Cap - c.fh})
           w == [c EXCEPT !.data = d, !.file = Overwrite(@, c.fh, SubSeq(b, 1, n)), !.fh = @ + n]
<1>1. /\ c.file \in Seq(Cell) /\ Len(c.file) \in Nat /\ c.fh \in Nat /\ c.fh <= Len(c.file)
      /\ Len(c.file) <= Cap /\ Cap \in Nat
  BY LenProperties, Sizes DEF Chan, OnMedium
<1>2. b \in Seq(Cell) /\ Len(b) \in Nat
  BY BytesSeq, LenProperties
<1>3. q = IF fault = "write" THEN f_close(c)
          ELSE IF n < Len(b) THEN f_close(w)
          ELSE [w EXCEPT !.dirty = FALSE, !.mustflush = FALSE,
                         !.position = 2, !.lastused = 2, !.fptr = w.fh]
  BY DEF write_data, Bytes, Used, Top
<1> HIDE DEF b, d, q
<1>4. n = IF Len(b) <= Cap - c.fh THEN Len(b) ELSE Cap - c.fh
  BY <1>1, <1>2, MinOfTwo
<1> HIDE DEF n
<1>5. n \in Nat /\ n <= Len(b) /\ c.fh + n <= Cap
  <2>1. CASE Len(b) <= Cap - c.fh
    BY <1>1, <1>2, <1>4, <2>1
  <2>2. CASE ~(Len(b) <= Cap - c.fh)
    BY <1>1, <1>2, <1>4, <2>2
  <2> QED  BY <2>1, <2>2
<1>6. CASE fault = "write"
  BY <1>3, <1>6 DEF f_close, WroteLess, q
<1>7. CASE fault # "write" /\ n < Len(b)
  <2>1. w.file = Overwrite(c.file, c.fh, SubSeq(b, 1, n))
    BY DEF Chan
  <2>2. q = Closed(Overwrite(c.file, c.fh, SubSeq(b, 1, n)))
    BY <1>3, <1>7, <2>1 DEF f_close
  <2> QED  BY <1>5, <1>7, <2>2 DEF b, q, WroteLess
<1>8. CASE fault # "write" /\ ~(n < Len(b))
  <2>1. n = Len(b)
    BY <1>2, <1>5, <1>8
  <2>2. SubSeq(b, 1, n) = b
    BY <1>2, <2>1, SubSeqFull
  <2>3. w = [c EXCEPT !.data = d, !.file = Overwrite(c.file, c.fh, b), !.fh = c.fh + Len(b)]
    BY <2>1, <2>2 DEF Chan
  <2>4. q = [w EXCEPT !.dirty = FALSE, !.mustflush = FALSE,
                      !.position = 2, !.lastused = 2, !.fptr = w.fh]
    BY <1>3, <1>8
  <2> HIDE DEF w
  <2>5. w.fh = c.fh + Len(b)
    BY <2>3 DEF Chan
  <2>6. q = [c EXCEPT !.data = d, !.file = Overwrite(c.file, c.fh, b),
                      !.fh = c.fh + Len(b), !.fptr = c.fh + Len(b),
                      !.dirty = FALSE, !.mustflush = FALSE, !.position = 2, !.lastused = 2]
    BY <2>3, <2>4, <2>5 DEF Chan
  <2> QED  BY <1>5, <2>1, <2>6 DEF b, d, q, WroteAll
<1> QED  BY <1>6, <1>7, <1>8

\* What the fill loop writes
Fill(c, n) ==
  [i \in 1 .. n |-> IF c.recordlen = 0 THEN 0 ELSE EmptyRecord(c)[((i - 1) % c.recordlen) + 1]]

\* What the fill loop writes; zeros, except in a relative file.
LEMMA FillSeq ==
  ASSUME NEW c \in Chan, NEW n \in Nat
  PROVE  /\ Fill(c, n) \in Seq(Cell) /\ Len(Fill(c, n)) = n
         /\ c.recordlen = 0 => \A i \in 1 .. n : Fill(c, n)[i] = 0
<1>1. c.recordlen = 0 => Fill(c, n) \in [1 .. n -> Cell] /\ \A i \in 1 .. n : Fill(c, n)[i] = 0
  BY Sizes DEF Fill
<1>2. ASSUME c.recordlen # 0 PROVE Fill(c, n) \in [1 .. n -> Cell]
  <2>1. c.recordlen \in Nat /\ c.recordlen >= 1 /\ c.recordlen - 1 \in Nat
    BY <1>2, Sizes DEF Chan
  <2> DEFINE z == Repeat(0, c.recordlen - 1)
  <2>2. z \in Seq(Cell) /\ Len(z) = c.recordlen - 1
    BY <2>1, Sizes, RepeatSeq
  <2> HIDE DEF z
  <2>3. <<FF>> \in Seq(Cell) /\ Len(<<FF>>) = 1
    BY Sizes
  <2>4. <<FF>> \o z \in Seq(Cell) /\ Len(<<FF>> \o z) = 1 + Len(z)
    BY <2>2, <2>3, ConcatProperties
  <2>5. EmptyRecord(c) \in Seq(Cell) /\ Len(EmptyRecord(c)) = c.recordlen
    BY <2>1, <2>2, <2>4 DEF EmptyRecord, z
  <2>6. ASSUME NEW i \in 1 .. n
        PROVE  EmptyRecord(c)[((i - 1) % c.recordlen) + 1] \in Cell
    <3>1. i - 1 \in Int
      OBVIOUS
    <3>2. (i - 1) % c.recordlen \in 0 .. c.recordlen - 1
      BY <2>1, <3>1
    <3>3. ((i - 1) % c.recordlen) + 1 \in 1 .. c.recordlen
      BY <2>1, <3>2
    <3> QED  BY <2>5, <3>3, ElementOfSeq
  <2> QED  BY <1>2, <2>6 DEF Fill
<1> QED  BY <1>1, <1>2, SeqOfFunction

\* The fill loop frees the buffer, with nothing or with all of the medium filled,
\* or fills the gap.
FilledLess(c, s, gap, q) ==
  \/ q = Closed(c.file)
  \/ /\ s + gap > Cap \/ c.recordlen # 0
     /\ q = Closed(Overwrite(c.file, s, Fill(c, Cap - s)))

FilledAll(c, s, gap, q) ==
  /\ s + gap <= Cap
  /\ c.recordlen # 0 => gap % c.recordlen = 0
  /\ \E d \in [Area -> Cell], l \in Nat :
       /\ l = Len(Overwrite(c.file, s, Fill(c, gap)))
       /\ q = [c EXCEPT !.file = Overwrite(c.file, s, Fill(c, gap)),
                        !.data = d, !.fh = l, !.fptr = l]

\* The fill loop ends with the medium or with the gap.
LEMMA FilledEffect ==
  ASSUME NEW c \in Chan, OnMedium(c), NEW s \in Nat, NEW gap \in Nat, s <= Len(c.file), NEW fault
  PROVE  FilledLess(c, s, gap, Filled(c, s, gap, fault)) \/ FilledAll(c, s, gap, Filled(c, s, gap, fault))
<1> DEFINE q == Filled(c, s, gap, fault)
<1> DEFINE full == \/ s + gap > Cap
                   \/ c.recordlen # 0 /\ gap % c.recordlen # 0
           m == IF full THEN Cap - s ELSE gap
           w == [c EXCEPT !.file = Overwrite(@, s, Fill(c, m))]
           d == [i \in Area |-> IF i = 2 /\ c.recordlen # 0 THEN FF
                                ELSE IF i < 2 THEN c.data[i] ELSE 0]
<1>1. q = IF fault = "fill" THEN f_close(c)
          ELSE IF full THEN f_close(w)
          ELSE [w EXCEPT !.data = d, !.fh = Len(w.file), !.fptr = Len(w.file)]
  BY DEF Filled, Fill
<1>2. w.file = Overwrite(c.file, s, Fill(c, m)) /\ w = [c EXCEPT !.file = w.file]
  BY DEF Chan
<1>3. d \in [Area -> Cell]
  BY Sizes DEF Chan
<1> HIDE DEF w, d, q
<1>4. CASE fault = "fill"
  BY <1>1, <1>4 DEF f_close, FilledLess, q
<1>5. CASE fault # "fill" /\ full
  BY <1>1, <1>2, <1>5 DEF f_close, FilledLess, q
<1>6. CASE fault # "fill" /\ ~full
  <2>1. q = [w EXCEPT !.data = d, !.fh = Len(w.file), !.fptr = Len(w.file)] /\ m = gap
    BY <1>1, <1>6
  <2>2. s + gap <= Cap /\ (c.recordlen # 0 => gap % c.recordlen = 0)
    BY <1>6, Sizes
  <2>3. w.file = Overwrite(c.file, s, Fill(c, gap))
    BY <1>2, <2>1
  <2>4. Fill(c, gap) \in Seq(Cell)
    BY FillSeq
  <2>5. w.file \in Seq(Cell)
    BY <2>3, <2>4, OverwriteSeq DEF Chan, Overwritten
  <2>6. Len(w.file) \in Nat
    BY <2>5, LenProperties
  <2> DEFINE l == Len(w.file)
             o == w.file
  <2>7. q = [c EXCEPT !.file = o, !.data = d, !.fh = l, !.fptr = l]
    BY <1>2, <2>1 DEF Chan
  <2> HIDE DEF l, o
  <2>8. l \in Nat /\ l = Len(Overwrite(c.file, s, Fill(c, gap))) /\ o = Overwrite(c.file, s, Fill(c, gap))
    BY <2>3, <2>6 DEF l, o
  <2> QED  BY <1>3, <2>2, <2>7, <2>8 DEF FilledAll, q
<1> QED  BY <1>4, <1>5, <1>6

-----------------------------------------------------------------------------
(* Writing.                                                                *)

\* The file with the gap up to fptr and the bytes of the buffer
Full(c) == (c.file \o Repeat(0, c.fptr - Len(c.file))) \o Bytes(c)

\* f is what a failure can leave of g: a prefix, with gaps not filled.
Salvaged(f, g) == Len(f) <= Len(g) /\ \A i \in 1 .. Len(f) : f[i] \in {g[i], Junk}

\* The file as it will be, byte for byte: the old bytes, the gap, the new ones.
LEMMA FullSeq ==
  ASSUME NEW c \in Chan, Sends(c), c.fptr >= Len(c.file)
  PROVE  /\ Full(c) \in Seq(Cell) /\ Len(Full(c)) = c.fptr + Len(Bytes(c))
         /\ \A i \in 1 .. Len(Full(c)) : Full(c)[i] =
              IF i <= Len(c.file) THEN c.file[i] ELSE IF i <= c.fptr THEN 0 ELSE Bytes(c)[i - c.fptr]
<1> DEFINE f == c.file
           l == Len(c.file)
           z == Repeat(0, c.fptr - l)
           b == Bytes(c)
           u == f \o z
           o == u \o b
<1>1. f \in Seq(Cell) /\ l \in Nat /\ l = Len(f) /\ c.fptr \in Nat /\ c.fptr - l \in Nat /\ l <= c.fptr
  BY LenProperties DEF Chan
<1>2. b \in Seq(Cell) /\ Len(b) \in Nat
  BY BytesSeq, LenProperties
<1>3. z \in Seq(Cell) /\ Len(z) = c.fptr - l /\ \A i \in 1 .. c.fptr - l : z[i] = 0
  BY <1>1, Sizes, RepeatSeq
<1> HIDE DEF f, l, z, b
<1>4. /\ u \in Seq(Cell) /\ Len(u) = l + Len(z)
      /\ \A i \in 1 .. l + Len(z) : u[i] = IF i <= l THEN f[i] ELSE z[i - l]
  BY <1>1, <1>3, ConcatProperties
<1>5. l + Len(z) = c.fptr
  BY <1>1, <1>3
<1> HIDE DEF u
<1>6. /\ o \in Seq(Cell) /\ Len(o) = c.fptr + Len(b)
      /\ \A i \in 1 .. c.fptr + Len(b) : o[i] = IF i <= c.fptr THEN u[i] ELSE b[i - c.fptr]
  <2>1. /\ o \in Seq(Cell) /\ Len(o) = Len(u) + Len(b)
        /\ \A i \in 1 .. Len(u) + Len(b) : o[i] = IF i <= Len(u) THEN u[i] ELSE b[i - Len(u)]
    BY <1>2, <1>4, ConcatProperties
  <2> HIDE DEF o
  <2> QED  BY <1>4, <1>5, <2>1
<1> HIDE DEF o
<1>7. ASSUME NEW i \in 1 .. Len(o)
      PROVE  o[i] = IF i <= l THEN f[i] ELSE IF i <= c.fptr THEN 0 ELSE b[i - c.fptr]
  <2>1. i \in Nat /\ 1 <= i /\ i \in 1 .. c.fptr + Len(b)
    BY <1>1, <1>2, <1>6
  <2>2. CASE i <= l
    <3>1. i <= c.fptr /\ i \in 1 .. l + Len(z)
      BY <1>1, <1>5, <2>1, <2>2
    <3> QED  BY <1>4, <1>6, <2>1, <2>2, <3>1
  <2>3. CASE ~(i <= l) /\ i <= c.fptr
    <3>1. i \in 1 .. l + Len(z) /\ i - l \in 1 .. c.fptr - l
      BY <1>1, <1>5, <2>1, <2>3
    <3>2. o[i] = u[i] /\ u[i] = z[i - l] /\ z[i - l] = 0
      BY <1>3, <1>4, <1>6, <2>1, <2>3, <3>1
    <3> QED  BY <2>3, <3>2
  <2>4. CASE ~(i <= c.fptr)
    <3>1. ~(i <= l)
      BY <1>1, <2>1, <2>4
    <3> QED  BY <1>6, <2>1, <2>4, <3>1
  <2> QED  BY <2>2, <2>3, <2>4
<1> QED  BY <1>6, <1>7 DEF Full, o, u, z, b, f, l

\* A buffer whose bytes belong at the end of the file, or behind it
Appends(c) == c.recordlen = 0 => c.fh = Len(c.file) /\ c.fptr >= Len(c.file)

\* The file when fat_file_write has sought to fptr
Stretched(c, at) ==
  /\ at \in Chan /\ OnMedium(at) /\ at = [c EXCEPT !.fh = at.fh, !.file = at.file]
  /\ Len(c.file) <= Len(at.file)
  /\ c.recordlen = 0 =>
       /\ Len(at.file) = at.fh
       /\ at.fh = c.fptr \/ (at.fh = Cap /\ Cap < c.fptr)
       /\ \A i \in 1 .. Len(at.file) : at.file[i] = IF i <= Len(c.file) THEN c.file[i] ELSE Junk

\* fat_file_write seeks to fptr before it writes.
LEMMA StretchEffect ==
  ASSUME NEW c \in Chan, OnMedium(c), Writable(c), Appends(c),
         NEW at, at = IF c.fptr # Len(c.file) THEN f_lseek(c, c.fptr) ELSE c
  PROVE  Stretched(c, at)
<1>1. /\ c.file \in Seq(Cell) /\ Len(c.file) \in Nat /\ c.fptr \in Nat /\ Cap \in Nat
      /\ Len(c.file) <= Cap
  BY LenProperties, Sizes DEF Chan, OnMedium
<1>2. CASE c.fptr = Len(c.file)
  <2>1. at = c
    BY <1>2
  <2>2. c = [c EXCEPT !.fh = c.fh, !.file = c.file]
    BY DEF Chan
  <2> QED  BY <1>1, <1>2, <2>1, <2>2 DEF Appends, Stretched
<1>3. CASE c.fptr # Len(c.file)
  <2>1. at = f_lseek(c, c.fptr)
    BY <1>3
  <2>2. Sought(c, c.fptr, at)
    BY <1>1, <2>1, LseekEffect
  <2>3. CASE c.fptr < Len(c.file)
    <3>1. c.recordlen # 0
      BY <1>1, <2>3 DEF Appends
    <3>2. at.file = c.file /\ Len(c.file) <= Len(c.file)
      BY <1>1, <2>2, <2>3 DEF Sought
    <3> QED  BY <2>2, <3>1, <3>2 DEF Sought, Stretched
  <2>4. CASE c.fptr > Len(c.file)
    <3>1. /\ at.fh = IF c.fptr <= Cap THEN c.fptr ELSE Cap
          /\ Len(at.file) = at.fh
          /\ \A i \in 1 .. Len(c.file) : at.file[i] = c.file[i]
          /\ \A i \in Len(c.file) + 1 .. Len(at.file) : at.file[i] = Junk
      BY <2>2, <2>4 DEF Sought
    <3>2. at.fh \in Nat /\ Len(c.file) <= at.fh /\ (at.fh = c.fptr \/ (at.fh = Cap /\ Cap < c.fptr))
      BY <1>1, <2>4, <3>1
    <3>3. ASSUME NEW i \in 1 .. Len(at.file)
          PROVE  at.file[i] = IF i <= Len(c.file) THEN c.file[i] ELSE Junk
      <4>1. CASE i <= Len(c.file)
        BY <1>1, <3>1, <4>1
      <4>2. CASE ~(i <= Len(c.file))
        <5>1. i \in Len(c.file) + 1 .. Len(at.file)
          BY <1>1, <3>1, <3>2, <4>2
        <5> QED  BY <3>1, <4>2, <5>1
      <4> QED  BY <4>1, <4>2
    <3> QED  BY <2>2, <3>1, <3>2, <3>3 DEF Sought, Stretched
  <2> QED  BY <1>1, <1>3, <2>3, <2>4
<1> QED  BY <1>2, <1>3

\* A sequential file is written as far as the medium has room: a is the file up
\* to fptr or to the end of the medium, and n bytes of the buffer follow.
LEMMA WrittenPart ==
  ASSUME NEW c \in Chan, Sends(c), c.fptr >= Len(c.file),
         NEW a \in Seq(Cell), NEW n \in Nat, n <= Len(Bytes(c)), Len(c.file) <= Len(a),
         Len(a) = c.fptr \/ (n = 0 /\ Len(a) <= c.fptr),
         \A i \in 1 .. Len(a) : a[i] = IF i <= Len(c.file) THEN c.file[i] ELSE Junk,
         NEW o, o = Overwrite(a, Len(a), SubSeq(Bytes(c), 1, n))
  PROVE  /\ o \in Seq(Cell) /\ Len(o) = Len(a) + n
         /\ Salvaged(o, Full(c))
         /\ \A i \in 1 .. Len(o) : (i <= Len(c.file) \/ i > c.fptr) => o[i] = Full(c)[i]
<1> DEFINE F == Full(c)
           b == Bytes(c)
           t == SubSeq(b, 1, n)
           l == Len(c.file)
<1>1. b \in Seq(Cell) /\ Len(b) \in Nat /\ l \in Nat /\ Len(a) \in Nat /\ c.fptr \in Nat /\ l <= c.fptr
  BY BytesSeq, LenProperties DEF Chan
<1>2. t \in Seq(Cell) /\ Len(t) = n /\ \A i \in 1 .. n : t[i] = b[i]
  BY <1>1, PrefixSeq
<1>3. /\ Len(F) = c.fptr + Len(b)
      /\ \A i \in 1 .. Len(F) : F[i] =
           IF i <= l THEN c.file[i] ELSE IF i <= c.fptr THEN 0 ELSE b[i - c.fptr]
  BY FullSeq
<1> HIDE DEF F, b, t, l
<1>4. /\ o \in Seq(Cell) /\ Len(o) = Len(a) + n
      /\ \A i \in 1 .. Len(o) : o[i] = IF i <= Len(a) THEN a[i] ELSE t[i - Len(a)]
  <2>1. o = Overwrite(a, Len(a), t)
    BY DEF t, b
  <2>2. /\ o \in Seq(Cell)
        /\ Len(o) = IF Len(a) + Len(t) >= Len(a) THEN Len(a) + Len(t) ELSE Len(a)
        /\ \A i \in 1 .. Len(o) : o[i] = IF i <= Len(a) THEN a[i]
                                         ELSE IF i <= Len(a) + Len(t) THEN t[i - Len(a)] ELSE a[i]
    BY <1>1, <1>2, <2>1, OverwriteSeq, SMTT(30) DEF Overwritten
  <2>3. Len(o) = Len(a) + n
    BY <1>1, <1>2, <2>2
  <2>4. \A i \in 1 .. Len(o) : i <= Len(a) + Len(t)
    BY <1>1, <1>2, <2>3
  <2> QED  BY <2>2, <2>3, <2>4
<1>5. Len(o) <= Len(F) /\ Len(o) \in Nat /\ Len(F) \in Nat
  BY <1>1, <1>3, <1>4 DEF b
<1>6. ASSUME NEW i \in 1 .. Len(o)
      PROVE  o[i] \in {F[i], Junk} /\ ((i <= l \/ i > c.fptr) => o[i] = F[i])
  <2>1. i \in Nat /\ 1 <= i /\ i \in 1 .. Len(F) /\ i <= Len(a) + n
    BY <1>1, <1>4, <1>5
  <2>2. CASE i <= Len(a)
    <3>1. i \in 1 .. Len(a) /\ i <= c.fptr
      BY <1>1, <2>1, <2>2
    <3>2. o[i] = IF i <= l THEN c.file[i] ELSE Junk
      BY <1>4, <2>2, <3>1 DEF l
    <3> QED  BY <1>1, <1>3, <2>1, <3>1, <3>2
  <2>3. CASE i > Len(a)
    <3>1. Len(a) = c.fptr /\ ~(i <= l) /\ ~(i <= c.fptr) /\ i - c.fptr \in 1 .. n
      BY <1>1, <2>1, <2>3
    <3>2. o[i] = t[i - c.fptr] /\ t[i - c.fptr] = b[i - c.fptr]
      BY <1>1, <1>2, <1>4, <2>3, <3>1
    <3>3. F[i] = b[i - c.fptr]
      BY <1>3, <2>1, <3>1
    <3> QED  BY <3>2, <3>3
  <2> QED  BY <1>1, <2>1, <2>2, <2>3
<1>7. Salvaged(o, F)
  BY <1>5, <1>6 DEF Salvaged
<1> QED  BY <1>4, <1>6, <1>7 DEF F, l

\* What is written to a file on the medium fits on it.
LEMMA OverwriteFits ==
  ASSUME NEW s \in Seq(Cell), NEW t \in Seq(Cell), NEW at \in Nat, at <= Len(s),
         Len(s) <= Cap, at + Len(t) <= Cap
  PROVE  LET o == Overwrite(s, at, t)
         IN  o \in Seq(Cell) /\ Len(o) \in Nat /\ Len(o) <= Cap /\ Len(s) <= Len(o) /\ at + Len(t) <= Len(o)
<1>1. Len(s) \in Nat /\ Len(t) \in Nat /\ Cap \in Nat
  BY LenProperties, Sizes
<1> DEFINE o == Overwrite(s, at, t)
<1>2. o \in Seq(Cell) /\ Len(o) = IF at + Len(t) >= Len(s) THEN at + Len(t) ELSE Len(s)
  BY OverwriteSeq DEF Overwritten
<1> HIDE DEF o
<1>3. Len(o) \in Nat /\ Len(o) <= Cap /\ Len(s) <= Len(o) /\ at + Len(t) <= Len(o)
  BY <1>1, <1>2
<1> QED  BY <1>2, <1>3 DEF o

\* fat_file_write fails, and leaves a part of the data,
FlushFailed(c, q) ==
  \E f \in Seq(Cell) : /\ Len(f) <= Cap /\ q = Closed(f)
                       /\ c.recordlen = 0 => Salvaged(f, Full(c))

\* or writes all of it after a gap of zeros.
Flushed(c, q) ==
  /\ q \in Chan /\ OnMedium(q) /\ Same(c, q)
  /\ ~q.dirty /\ ~q.mustflush /\ q.position = 2 /\ q.lastused = 2
  /\ c.recordlen = 0 => q.file = Full(c) /\ q.fh = Len(q.file) /\ q.fptr = Len(q.file)

\* The buffer is written, and the gap not yet filled.
Placed(c, at, w) ==
  /\ w \in Chan /\ OnMedium(w) /\ Same(c, w)
  /\ ~w.dirty /\ ~w.mustflush /\ w.position = 2 /\ w.lastused = 2
  /\ Len(c.file) <= Len(w.file) /\ w.fptr = w.fh
  /\ c.recordlen = 0 =>
       /\ w.fh = Len(w.file) /\ w.fh = at.fh + Len(Bytes(c))
       /\ Salvaged(w.file, Full(c))
       /\ \A i \in 1 .. Len(w.file) :
            (i <= Len(c.file) \/ i > c.fptr) => w.file[i] = Full(c)[i]

\* write_data at the place to which fat_file_write has sought
LEMMA WriteAtEffect ==
  ASSUME NEW c \in Chan, OnMedium(c), Sends(c), Appends(c), NEW at, Stretched(c, at), NEW fault
  PROVE  FlushFailed(c, write_data(at, fault)) \/ Placed(c, at, write_data(at, fault))
<1> DEFINE w == write_data(at, fault)
           b == Bytes(c)
<1>1. at \in Chan /\ OnMedium(at) /\ at = [c EXCEPT !.fh = at.fh, !.file = at.file]
      /\ Len(c.file) <= Len(at.file)
  BY DEF Stretched
<1>2. /\ at.data = c.data /\ at.position = c.position /\ at.lastused = c.lastused
      /\ at.mustflush = c.mustflush /\ at.recordlen = c.recordlen /\ at.size = c.size
      /\ Same(c, at)
  BY <1>1 DEF Chan, Same
<1>3. Used(at) = Used(c) /\ Top(at) = Top(c)
  BY <1>2 DEF Used, Top
<1>4. memset_record(at, Used(at)) = memset_record(c, Used(c))
  BY <1>2, <1>3 DEF memset_record
<1>5. Bytes(at) = b /\ Sends(at)
  BY <1>2, <1>3, <1>4 DEF Bytes, Sends
<1>6. WroteLess(at, w) \/ WroteAll(at, w)
  BY <1>1, <1>5, WriteDataEffect
<1>7. /\ at.file \in Seq(Cell) /\ Len(at.file) \in Nat /\ at.fh \in Nat /\ at.fh <= Len(at.file)
      /\ Len(at.file) <= Cap /\ c.file \in Seq(Cell) /\ Len(c.file) \in Nat /\ c.fptr \in Nat
      /\ Cap \in Nat /\ c.size \in Nat /\ c.size <= Len(c.file)
  BY <1>1, LenProperties, Sizes DEF Chan, OnMedium
<1>8. b \in Seq(Cell) /\ Len(b) \in Nat /\ memset_record(c, Used(c)) \in [Area -> Cell]
  BY BytesSeq, LenProperties
<1> HIDE DEF w, b
<1>9. ASSUME c.recordlen = 0, NEW n \in Nat, n <= Len(b), at.fh + n <= Cap
      PROVE  LET o == Overwrite(at.file, at.fh, SubSeq(b, 1, n))
             IN  /\ o \in Seq(Cell) /\ Len(o) = at.fh + n
                 /\ Salvaged(o, Full(c))
                 /\ \A i \in 1 .. Len(o) : (i <= Len(c.file) \/ i > c.fptr) => o[i] = Full(c)[i]
  <2>1. /\ c.fptr >= Len(c.file) /\ at.fh = Len(at.file)
        /\ at.fh = c.fptr \/ (at.fh = Cap /\ Cap < c.fptr)
        /\ \A i \in 1 .. Len(at.file) : at.file[i] = IF i <= Len(c.file) THEN c.file[i] ELSE Junk
    BY <1>9 DEF Stretched, Appends
  <2>2. Len(at.file) = c.fptr \/ (n = 0 /\ Len(at.file) <= c.fptr)
    BY <1>7, <1>9, <2>1
  <2> DEFINE o == Overwrite(at.file, Len(at.file), SubSeq(Bytes(c), 1, n))
  <2>3. n <= Len(Bytes(c))
    BY <1>9 DEF b
  <2>4. /\ o \in Seq(Cell) /\ Len(o) = Len(at.file) + n
        /\ Salvaged(o, Full(c))
        /\ \A i \in 1 .. Len(o) : (i <= Len(c.file) \/ i > c.fptr) => o[i] = Full(c)[i]
    BY <1>1, <1>7, <2>1, <2>2, <2>3, WrittenPart
  <2>5. o = Overwrite(at.file, at.fh, SubSeq(b, 1, n))
    BY <2>1 DEF b
  <2> HIDE DEF o
  <2> QED  BY <2>1, <2>4, <2>5
<1>10. CASE w = Closed(at.file)
  <2>1. c.recordlen = 0 => Salvaged(at.file, Full(c))
    <3> SUFFICES ASSUME c.recordlen = 0 PROVE Salvaged(at.file, Full(c))
      OBVIOUS
    <3> DEFINE t == SubSeq(b, 1, 0)
               o == Overwrite(at.file, at.fh, t)
    <3>1. o \in Seq(Cell) /\ Len(o) = at.fh + 0 /\ Salvaged(o, Full(c))
      BY <1>7, <1>8, <1>9
    <3>2. at.fh = Len(at.file)
      BY DEF Stretched
    <3>3. t \in Seq(Cell) /\ Len(t) = 0
      BY <1>8, PrefixSeq
    <3> HIDE DEF t
    <3>6. Overwritten(at.file, at.fh, t, o)
      BY <1>7, <3>3, OverwriteSeq
    <3>4. \A i \in 1 .. Len(o) : o[i] = at.file[i]
      <4> HIDE DEF o
      <4>1. \A i \in 1 .. Len(o) : i <= at.fh
        BY <1>7, <3>1
      <4> QED  BY <3>6, <4>1 DEF Overwritten
    <3> HIDE DEF o
    <3>5. o = at.file
      BY <1>7, <3>1, <3>2, <3>4, SeqEqual
    <3> QED  BY <3>1, <3>5
  <2> QED  BY <1>7, <1>10, <2>1 DEF FlushFailed, w
<1>11. CASE \E n \in Nat : /\ n < Len(b) /\ at.fh + n <= Cap
                           /\ w = Closed(Overwrite(at.file, at.fh, SubSeq(b, 1, n)))
  <2>1. PICK n \in Nat : /\ n < Len(b) /\ at.fh + n <= Cap
                         /\ w = Closed(Overwrite(at.file, at.fh, SubSeq(b, 1, n)))
    BY <1>11
  <2> DEFINE o == Overwrite(at.file, at.fh, SubSeq(b, 1, n))
  <2>2. n <= Len(b)
    BY <1>8, <2>1
  <2>3. SubSeq(b, 1, n) \in Seq(Cell) /\ Len(SubSeq(b, 1, n)) = n
    BY <1>8, <2>2, PrefixSeq
  <2>4. o \in Seq(Cell) /\ Len(o) <= Cap
    BY <1>7, <2>1, <2>3, OverwriteFits
  <2>5. c.recordlen = 0 => Salvaged(o, Full(c))
    BY <1>9, <2>1, <2>2
  <2> HIDE DEF o
  <2>6. w = Closed(o)
    BY <2>1 DEF o
  <2> QED  BY <2>4, <2>5, <2>6 DEF FlushFailed, w
<1>12. CASE WroteAll(at, w)
  <2> DEFINE o == Overwrite(at.file, at.fh, b)
  <2>1. at.fh + Len(b) <= Cap
    BY <1>5, <1>12 DEF WroteAll
  <2>2. w = [at EXCEPT !.data = memset_record(c, Used(c)), !.file = o,
                       !.fh = at.fh + Len(b), !.fptr = at.fh + Len(b),
                       !.dirty = FALSE, !.mustflush = FALSE, !.position = 2, !.lastused = 2]
    BY <1>4, <1>5, <1>12 DEF WroteAll
  <2>3. /\ o \in Seq(Cell) /\ Len(o) \in Nat /\ Len(o) <= Cap /\ Len(at.file) <= Len(o)
        /\ at.fh + Len(b) <= Len(o)
    BY <1>7, <1>8, <2>1, OverwriteFits
  <2> HIDE DEF o
  <2>4. at.fh + Len(b) \in Nat /\ 2 \in Area
    BY <1>7, <1>8, Sizes
  <2>5. w \in Chan
    BY <1>1, <1>8, <2>2, <2>3, <2>4 DEF Chan
  <2>6. /\ w.file = o /\ w.fh = at.fh + Len(b) /\ w.fptr = at.fh + Len(b) /\ w.size = at.size
        /\ w.dirty = FALSE /\ w.mustflush = FALSE /\ w.position = 2 /\ w.lastused = 2
        /\ Same(at, w)
    BY <1>1, <2>2 DEF Chan, Same
  <2>7. OnMedium(w) /\ Same(c, w) /\ Len(c.file) <= Len(w.file)
    BY <1>1, <1>2, <1>7, <2>3, <2>6 DEF OnMedium, Same
  <2>8. ASSUME c.recordlen = 0
        PROVE  /\ Salvaged(w.file, Full(c)) /\ w.fh = Len(w.file)
               /\ \A i \in 1 .. Len(w.file) :
                    (i <= Len(c.file) \/ i > c.fptr) => w.file[i] = Full(c)[i]
    <3>1. SubSeq(b, 1, Len(b)) = b
      BY <1>8, SubSeqFull
    <3>2. /\ Len(o) = at.fh + Len(b) /\ Salvaged(o, Full(c))
          /\ \A i \in 1 .. Len(o) : (i <= Len(c.file) \/ i > c.fptr) => o[i] = Full(c)[i]
      <4> DEFINE u == Overwrite(at.file, at.fh, SubSeq(b, 1, Len(b)))
      <4>1. Len(b) <= Len(b)
        BY <1>8
      <4>2. /\ Len(u) = at.fh + Len(b) /\ Salvaged(u, Full(c))
            /\ \A i \in 1 .. Len(u) : (i <= Len(c.file) \/ i > c.fptr) => u[i] = Full(c)[i]
        BY <1>8, <1>9, <2>1, <2>8, <4>1
      <4>3. u = o
        BY <3>1 DEF o
      <4> HIDE DEF u
      <4> QED  BY <4>2, <4>3
    <3> QED  BY <2>6, <3>2
  <2> QED  BY <2>5, <2>6, <2>7, <2>8 DEF w, b, Placed
<1> QED  BY <1>5, <1>6, <1>10, <1>11, <1>12 DEF WroteLess, b

\* The fill loop after that
LEMMA FillEffect ==
  ASSUME NEW c \in Chan, OnMedium(c), Sends(c), Appends(c), NEW at, Stretched(c, at),
         NEW w, Placed(c, at, w), c.fptr > Len(c.file), NEW q,
         \/ FilledLess(w, Len(c.file), c.fptr - Len(c.file), q)
         \/ FilledAll(w, Len(c.file), c.fptr - Len(c.file), q)
  PROVE  FlushFailed(c, q) \/ Flushed(c, q)
<1> DEFINE l == Len(c.file)
           g == c.fptr - l
           F == Full(c)
<1>1. /\ l \in Nat /\ c.fptr \in Nat /\ l < c.fptr /\ g \in Nat /\ l + g = c.fptr /\ Cap \in Nat
      /\ l <= Cap /\ Cap - l \in Nat
  <2>1. l \in Nat /\ c.fptr \in Nat /\ Cap \in Nat /\ l <= Cap /\ l < c.fptr
    BY LenProperties, Sizes DEF Chan, OnMedium
  <2> HIDE DEF l
  <2> QED  BY <2>1
<1>2. /\ w \in Chan /\ OnMedium(w) /\ Same(c, w) /\ w.file \in Seq(Cell) /\ Len(w.file) \in Nat
      /\ l <= Len(w.file) /\ Len(w.file) <= Cap /\ w.recordlen = c.recordlen
      /\ w.size <= Len(w.file) /\ w.size \in Nat
  BY LenProperties DEF Placed, Chan, OnMedium, Same
<1>3. /\ F \in Seq(Cell) /\ Len(F) = c.fptr + Len(Bytes(c)) /\ Len(Bytes(c)) \in Nat
      /\ \A i \in 1 .. Len(F) : F[i] =
           IF i <= l THEN c.file[i] ELSE IF i <= c.fptr THEN 0 ELSE Bytes(c)[i - c.fptr]
  <2>1. c.fptr >= Len(c.file)
    BY <1>1
  <2> HIDE DEF l, g, F
  <2>2. /\ Full(c) \in Seq(Cell) /\ Len(Full(c)) = c.fptr + Len(Bytes(c))
        /\ \A i \in 1 .. Len(Full(c)) : Full(c)[i] =
             IF i <= Len(c.file) THEN c.file[i] ELSE IF i <= c.fptr THEN 0 ELSE Bytes(c)[i - c.fptr]
    BY <2>1, FullSeq
  <2>3. Len(Bytes(c)) \in Nat
    BY BytesSeq
  <2> QED  BY <2>2, <2>3 DEF F, l
<1> HIDE DEF l, g, F
<1>4. CASE q = Closed(w.file)
  <2>1. c.recordlen = 0 => Salvaged(w.file, F)
    BY DEF Placed, F
  <2> QED  BY <1>2, <1>4, <2>1 DEF FlushFailed, F
<1>5. CASE (l + g > Cap \/ w.recordlen # 0) /\ q = Closed(Overwrite(w.file, l, Fill(w, Cap - l)))
  <2> DEFINE t == Fill(w, Cap - l)
             o == Overwrite(w.file, l, t)
  <2>1. t \in Seq(Cell) /\ Len(t) = Cap - l /\ (c.recordlen = 0 => \A i \in 1 .. Cap - l : t[i] = 0)
    BY <1>1, <1>2, FillSeq
  <2> HIDE DEF t
  <2>2. Overwritten(w.file, l, t, o)
    BY <1>1, <1>2, <2>1, OverwriteSeq
  <2>3. q = Closed(o)
    BY <1>5 DEF t
  <2> HIDE DEF o
  <2>4. l + Len(t) = Cap
    BY <1>1, <2>1
  <2>5. o \in Seq(Cell) /\ Len(o) = Cap
    BY <1>1, <1>2, <2>2, <2>4 DEF Overwritten
  <2>6. ASSUME c.recordlen = 0 PROVE Salvaged(o, F)
    <3>1. Cap < c.fptr /\ Cap <= Len(F)
      BY <1>1, <1>2, <1>3, <1>5, <2>6
    <3>2. ASSUME NEW i \in 1 .. Cap PROVE o[i] = F[i]
      <4>1. i \in 1 .. Len(F) /\ i <= c.fptr /\ i <= l + Len(t)
        BY <1>1, <1>3, <2>4, <3>1
      <4>2. CASE i <= l
        <5>1. o[i] = w.file[i]
          BY <2>2, <2>5, <4>2 DEF Overwritten
        <5>2. w.file[i] = F[i]
          <6>1. i \in 1 .. Len(w.file)
            BY <1>1, <1>2, <4>2
          <6> QED  BY <2>6, <4>2, <6>1 DEF Placed, l, F
        <5> QED  BY <5>1, <5>2
      <4>3. CASE ~(i <= l)
        <5>4. i \in 1 .. Len(o) /\ i - l \in 1 .. Cap - l
          BY <1>1, <2>5, <4>3
        <5>1. o[i] = t[i - l] /\ i - l \in 1 .. Cap - l
          BY <2>2, <4>1, <4>3, <5>4 DEF Overwritten
        <5>2. t[i - l] = 0
          BY <2>1, <2>6, <5>1
        <5>3. F[i] = 0
          BY <1>3, <4>1, <4>3
        <5> QED  BY <5>1, <5>2, <5>3
      <4> QED  BY <4>2, <4>3
    <3> QED  BY <2>5, <3>1, <3>2 DEF Salvaged
  <2>7. Len(o) <= Cap
    BY <1>1, <2>5
  <2> QED  BY <2>3, <2>5, <2>6, <2>7 DEF FlushFailed, F
<1>6. CASE FilledAll(w, l, g, q)
  <2> DEFINE t == Fill(w, g)
             o == Overwrite(w.file, l, t)
  <2>1. t \in Seq(Cell) /\ Len(t) = g /\ (c.recordlen = 0 => \A i \in 1 .. g : t[i] = 0)
    BY <1>1, <1>2, FillSeq
  <2>2. PICK d \in [Area -> Cell], x \in Nat :
          /\ x = Len(o) /\ q = [w EXCEPT !.file = o, !.data = d, !.fh = x, !.fptr = x]
    BY <1>6 DEF FilledAll
  <2>3. l + g <= Cap
    BY <1>6 DEF FilledAll
  <2> HIDE DEF t
  <2>4. Overwritten(w.file, l, t, o)
    BY <1>1, <1>2, <2>1, OverwriteSeq
  <2>5. o \in Seq(Cell) /\ Len(o) <= Cap /\ Len(w.file) <= Len(o)
    <3>1. l + Len(t) <= Cap
      BY <2>1, <2>3
    <3> QED  BY <1>1, <1>2, <2>1, <3>1, OverwriteFits
  <2> HIDE DEF o
  <2>6. /\ q \in Chan /\ q.file = o /\ q.fh = x /\ q.fptr = x /\ q.size = w.size /\ Same(w, q)
        /\ q.dirty = w.dirty /\ q.mustflush = w.mustflush /\ q.position = w.position
        /\ q.lastused = w.lastused
    BY <1>2, <2>2, <2>5 DEF Chan, Same
  <2>7. OnMedium(q) /\ Same(c, q)
    BY <1>2, <2>2, <2>5, <2>6 DEF OnMedium, Same
  <2>8. ASSUME c.recordlen = 0 PROVE o = F
    <3>1. at.fh = c.fptr /\ Len(w.file) = c.fptr + Len(Bytes(c))
      BY <1>1, <2>3, <2>8 DEF Stretched, Placed
    <3>2. Len(o) = Len(F)
      BY <1>1, <1>3, <2>1, <2>4, <3>1 DEF Overwritten
    <3>3. ASSUME NEW i \in 1 .. Len(o) PROVE o[i] = F[i]
      <4>1. i \in 1 .. Len(F) /\ i \in 1 .. Len(w.file) /\ l + Len(t) = c.fptr
        BY <1>1, <1>3, <2>1, <3>1, <3>2
      <4>2. CASE i <= l \/ i > c.fptr
        <5>1. o[i] = w.file[i]
          BY <1>1, <2>4, <4>1, <4>2 DEF Overwritten
        <5>2. w.file[i] = F[i]
          BY <2>8, <4>1, <4>2 DEF Placed, l, F
        <5> QED  BY <5>1, <5>2
      <4>3. CASE ~(i <= l) /\ i <= c.fptr
        <5>1. o[i] = t[i - l] /\ i - l \in 1 .. g
          BY <1>1, <2>4, <4>1, <4>3 DEF Overwritten
        <5>2. t[i - l] = 0
          BY <2>1, <2>8, <5>1
        <5>3. F[i] = 0
          BY <1>3, <4>1, <4>3
        <5> QED  BY <5>1, <5>2, <5>3
      <4> QED  BY <1>1, <4>1, <4>2, <4>3
    <3> QED  BY <1>3, <2>5, <3>2, <3>3, SeqEqual
  <2> QED  BY <2>2, <2>6, <2>7, <2>8 DEF Flushed, Placed, F
<1> QED  BY <1>4, <1>5, <1>6 DEF FilledLess, l, g

\* fat_file_write
LEMMA FlushEffect ==
  ASSUME NEW c \in Chan, OnMedium(c), c.allocated, Writable(c), Sends(c), Appends(c), NEW fault
  PROVE  \/ FlushFailed(c, fat_file_write(c, fault))
         \/ Flushed(c, fat_file_write(c, fault))
<1> DEFINE q == fat_file_write(c, fault)
           l == Len(c.file)
           at == IF c.fptr # l THEN f_lseek(c, c.fptr) ELSE c
           w == write_data(at, fault)
<1>1. q = IF c.fptr # l /\ fault = "lseek" THEN f_close(c)
          ELSE IF w.allocated /\ c.fptr > l THEN Filled(w, l, c.fptr - l, fault)
          ELSE w
  BY DEF fat_file_write
<1>2. Stretched(c, at)
  BY StretchEffect
<1> HIDE DEF at
<1>3. FlushFailed(c, w) \/ Placed(c, at, w)
  BY <1>2, WriteAtEffect
<1> HIDE DEF q, w
<1>4. l \in Nat /\ c.fptr \in Nat /\ c.file \in Seq(Cell) /\ l <= Cap
  BY LenProperties DEF Chan, OnMedium
<1>5. CASE c.fptr # l /\ fault = "lseek"
  <2>1. q = Closed(c.file)
    BY <1>1, <1>5 DEF f_close
  <2>2. ASSUME c.recordlen = 0 PROVE Salvaged(c.file, Full(c))
    <3>1. c.fptr >= l
      BY <2>2 DEF Appends
    <3>2. /\ Len(Full(c)) = c.fptr + Len(Bytes(c)) /\ Len(Bytes(c)) \in Nat
          /\ \A i \in 1 .. Len(Full(c)) : Full(c)[i] =
               IF i <= l THEN c.file[i] ELSE IF i <= c.fptr THEN 0 ELSE Bytes(c)[i - c.fptr]
      BY <3>1, FullSeq, BytesSeq, LenProperties
    <3>3. l <= Len(Full(c)) /\ \A i \in 1 .. l : i \in 1 .. Len(Full(c)) /\ i <= l
      BY <1>4, <3>1, <3>2
    <3> QED  BY <3>2, <3>3 DEF Salvaged
  <2> QED  BY <1>4, <2>1, <2>2 DEF FlushFailed, q
<1>6. CASE ~(c.fptr # l /\ fault = "lseek") /\ FlushFailed(c, w)
  <2>1. PICK f \in Seq(Cell) : Len(f) <= Cap /\ w = Closed(f)
    BY <1>6 DEF FlushFailed
  <2>2. ~w.allocated
    BY <2>1, ClosedOK
  <2> QED  BY <1>1, <1>6, <2>2 DEF q
<1>7. CASE ~(c.fptr # l /\ fault = "lseek") /\ Placed(c, at, w)
  <2>1. w.allocated = TRUE
    BY <1>7 DEF Placed, Same, Chan
  <2>2. CASE c.fptr > l
    <3>1. q = Filled(w, l, c.fptr - l, fault)
      BY <1>1, <1>7, <2>1, <2>2
    <3>2. w \in Chan /\ OnMedium(w) /\ l <= Len(w.file) /\ c.fptr - l \in Nat
      BY <1>4, <1>7, <2>2 DEF Placed
    <3>3. FilledLess(w, l, c.fptr - l, q) \/ FilledAll(w, l, c.fptr - l, q)
      BY <1>4, <3>1, <3>2, FilledEffect
    <3>4. FlushFailed(c, q) \/ Flushed(c, q)
      BY <1>2, <1>7, <2>2, <3>3, FillEffect
    <3> QED  BY <3>4 DEF q
  <2>3. CASE ~(c.fptr > l)
    <3>1. q = w
      BY <1>1, <1>7, <2>3
    <3>2. ASSUME c.recordlen = 0 PROVE w.file = Full(c)
      <4>1. c.fptr = l /\ c.fptr >= Len(c.file)
        BY <1>4, <2>3, <3>2 DEF Appends
      <4>2. /\ Full(c) \in Seq(Cell) /\ Len(Full(c)) = c.fptr + Len(Bytes(c)) /\ Len(Bytes(c)) \in Nat
        BY <4>1, FullSeq, BytesSeq, LenProperties
      <4>3. at.fh = c.fptr
        BY <1>2, <1>4, <3>2, <4>1 DEF Stretched
      <4>4. w.file \in Seq(Cell) /\ Len(w.file) = Len(Full(c)) /\ Len(w.file) \in Nat
        BY <1>7, <3>2, <4>2, <4>3, LenProperties DEF Placed, Chan
      <4>5. \A i \in 1 .. Len(w.file) : i <= Len(c.file) \/ i > c.fptr
        BY <1>4, <4>1, <4>4
      <4>6. \A i \in 1 .. Len(w.file) : w.file[i] = Full(c)[i]
        BY <1>7, <3>2, <4>5 DEF Placed
      <4> QED  BY <4>2, <4>4, <4>6, SeqEqual
    <3>3. Flushed(c, w)
      BY <1>7, <3>2 DEF Placed, Flushed
    <3> QED  BY <3>1, <3>3 DEF q
  <2> QED  BY <2>2, <2>3
<1> QED  BY <1>3, <1>5, <1>6, <1>7

-----------------------------------------------------------------------------
(* The channel by its mode.                                                *)

\* An open channel for reading, for writing, and on a relative file
Open(c)      == c \in Chan /\ OnMedium(c) /\ c.allocated = TRUE
ReadOpen(c)  == Open(c) /\ c.recordlen = 0 /\ ReadShape(c)
WriteOpen(c) == Open(c) /\ c.recordlen = 0 /\ WriteShape(c)
RelOpen(c)   == Open(c) /\ c.recordlen # 0 /\ RelShape(c)

\* A channel that is closed, and one that a failure has closed with a part of g
Shut(q)         == \E f \in Seq(Cell) : Len(f) <= Cap /\ q = Closed(f)
ShutPart(q, g)  == \E f \in Seq(Cell) : Len(f) <= Cap /\ q = Closed(f) /\ Salvaged(f, g)

\* A channel is closed, or open in one of three ways.
LEMMA ChannelCases ==
  ASSUME NEW c
  PROVE  /\ ChannelOK(c) => (c.allocated = FALSE /\ Shut(c)) \/ ReadOpen(c) \/ WriteOpen(c) \/ RelOpen(c)
         /\ Shut(c) \/ ReadOpen(c) \/ WriteOpen(c) \/ RelOpen(c) => ChannelOK(c)
<1>1. ASSUME ChannelOK(c)
      PROVE  (c.allocated = FALSE /\ Shut(c)) \/ ReadOpen(c) \/ WriteOpen(c) \/ RelOpen(c)
  <2>1. c \in Chan /\ OnMedium(c) /\ c.allocated \in BOOLEAN /\ c.file \in Seq(Cell)
    BY <1>1 DEF ChannelOK, Chan
  <2>2. CASE c.allocated = FALSE
    BY <1>1, <2>1, <2>2 DEF ChannelOK, Shut, OnMedium
  <2>3. CASE c.allocated = TRUE
    BY <1>1, <2>1, <2>3 DEF ChannelOK, ReadOpen, WriteOpen, RelOpen, Open
  <2> QED  BY <2>1, <2>2, <2>3
<1>2. Shut(c) => ChannelOK(c)
  BY ClosedOK DEF Shut
<1>3. ReadOpen(c) \/ WriteOpen(c) \/ RelOpen(c) => ChannelOK(c)
  BY DEF ChannelOK, ReadOpen, WriteOpen, RelOpen, Open
<1> QED  BY <1>1, <1>2, <1>3

\* What a channel for writing has to send
LEMMA WriteOpenSends ==
  ASSUME NEW c, WriteOpen(c)
  PROVE  /\ Writable(c) /\ Sends(c) /\ Appends(c) /\ c.fptr >= Len(c.file)
         /\ Used(c) = (IF c.mustflush THEN c.lastused ELSE c.position - 1)
         /\ ~c.dirty => Used(c) = 1
         /\ Bytes(c) = [i \in 1 .. Used(c) - 1 |-> c.data[i + 1]]
<1>1. c \in Chan /\ c.recordlen = 0 /\ WriteShape(c)
  BY DEF WriteOpen, Open
<1>2. Writable(c) /\ Appends(c) /\ c.fptr >= Len(c.file)
  BY <1>1 DEF WriteShape, Writable, Appends
<1>3. /\ Used(c) = (IF c.mustflush THEN c.lastused ELSE c.position - 1)
      /\ Used(c) \in Area /\ Used(c) >= 1 /\ (~c.dirty => Used(c) = 1)
  <2>1. CASE c.mustflush
    BY <1>1, <2>1, Sizes DEF WriteShape, Used
  <2>2. CASE ~c.mustflush
    <3>1. c.position \in 2 .. W - 1 /\ (~c.dirty => c.position = 2)
      BY <1>1, <2>2, Sizes DEF WriteShape
    <3>2. c.position - 1 \in 0 .. W - 1
      BY <3>1, Sizes
    <3>3. (c.position - 1) % W = c.position - 1
      BY <3>2, Sizes
    <3> QED  BY <2>2, <3>1, <3>2, <3>3, Sizes DEF Used
  <2> QED  BY <2>1, <2>2
<1>4. Top(c) = Used(c)
  BY <1>1 DEF Top
<1>5. memset_record(c, Used(c)) = [i \in Area |-> c.data[i]]
  <2>1. \A i \in Area : ~(i \in Used(c) + 1 .. c.recordlen + 1)
    BY <1>1, <1>3, Sizes
  <2> QED  BY <2>1 DEF memset_record
<1>6. \A i \in 1 .. Used(c) - 1 : i + 1 \in Area
  BY <1>3, Sizes
<1>7. Bytes(c) = [i \in 1 .. Used(c) - 1 |-> c.data[i + 1]]
  BY <1>4, <1>5, <1>6 DEF Bytes
<1> QED  BY <1>2, <1>3, <1>7 DEF Sends

\* The buffer has been written to the file, or a failure has closed the channel.
Emptied(c, q) ==
  \/ ShutPart(q, Full(c))
  \/ /\ WriteOpen(q) /\ q.dirty = FALSE /\ q.mustflush = FALSE /\ q.size = c.size
     /\ q.file = Full(c) /\ q.fptr = Len(q.file)

\* fat_file_write on a sequential file
LEMMA WriteOpenFlush ==
  ASSUME NEW c, WriteOpen(c), NEW fault
  PROVE  Emptied(c, fat_file_write(c, fault))
<1> DEFINE q == fat_file_write(c, fault)
<1>1. c \in Chan /\ OnMedium(c) /\ c.allocated /\ c.recordlen = 0 /\ WriteShape(c)
  BY DEF WriteOpen, Open
<1>2. FlushFailed(c, q) \/ Flushed(c, q)
  BY <1>1, WriteOpenSends, FlushEffect
<1> HIDE DEF q
<1>3. CASE FlushFailed(c, q)
  BY <1>1, <1>3 DEF FlushFailed, ShutPart, q, Emptied
<1>4. CASE Flushed(c, q)
  <2>1. /\ q \in Chan /\ OnMedium(q) /\ Same(c, q) /\ ~q.dirty /\ ~q.mustflush
        /\ q.position = 2 /\ q.lastused = 2 /\ q.file = Full(c)
        /\ q.fh = Len(q.file) /\ q.fptr = Len(q.file)
    BY <1>1, <1>4 DEF Flushed
  <2>2. q.dirty = FALSE /\ q.mustflush = FALSE
    BY <2>1 DEF Chan
  <2>3. Len(q.file) \in Nat
    BY <2>1, LenProperties DEF Chan
  <2>4. WriteShape(q)
    BY <1>1, <2>1, <2>2, <2>3 DEF WriteShape, Same
  <2>5. Open(q) /\ q.recordlen = 0 /\ q.size = c.size
    BY <1>1, <2>1 DEF Open, Same, Chan
  <2> QED  BY <2>1, <2>2, <2>4, <2>5 DEF WriteOpen, q, Emptied
<1> QED  BY <1>2, <1>3, <1>4

\* fat_file_seek after the flush of a dirty buffer
SeekIn(w, pos, fault) ==
  IF Len(w.file) >= pos
    THEN IF fault = "lseek" THEN f_close(w) ELSE fat_file_read(f_lseek(w, pos), fault)
    ELSE [w EXCEPT !.data = [@ EXCEPT ![2] = IF w.recordlen # 0 THEN FF ELSE CR],
                   !.lastused = 2, !.fptr = pos]

\* The end of fat_file_seek: the pointer goes to a byte of the buffer.
SeekEnd(s, index) ==
  IF ~s.allocated THEN s ELSE [s EXCEPT !.position = Min({index + 2, s.lastused})]

\* fat_file_seek: a dirty buffer is written first.
LEMMA SeekDef ==
  ASSUME NEW c, NEW pos, NEW index, NEW fault,
         NEW w, w = IF c.dirty THEN fat_file_write(c, fault) ELSE c,
         NEW s, s = IF ~w.allocated THEN w ELSE SeekIn(w, pos, fault)
  PROVE  fat_file_seek(c, pos, index, fault) = SeekEnd(s, index)
BY DEF fat_file_seek, SeekIn, SeekEnd

\* fat_file_seek with nothing to write
LEMMA SeekClean ==
  ASSUME NEW c, c.dirty = FALSE, c.allocated = TRUE, NEW pos, NEW index, NEW fault
  PROVE  fat_file_seek(c, pos, index, fault) = SeekEnd(SeekIn(c, pos, fault), index)
<1> DEFINE s == SeekIn(c, pos, fault)
<1>1. c = IF c.dirty THEN fat_file_write(c, fault) ELSE c
  OBVIOUS
<1>2. s = IF ~c.allocated THEN c ELSE SeekIn(c, pos, fault)
  OBVIOUS
<1> HIDE DEF s
<1>3. fat_file_seek(c, pos, index, fault) = SeekEnd(s, index)
  BY <1>1, <1>2, SeekDef
<1> QED  BY <1>3 DEF s

\* fat_file_seek once the buffer has been written
Onward(w, pos, index, fault) ==
  IF w.allocated THEN SeekEnd(SeekIn(w, pos, fault), index) ELSE w

\* fat_file_seek with something to write
LEMMA SeekDirty ==
  ASSUME NEW c, c.dirty = TRUE, NEW pos, NEW index, NEW fault
  PROVE  fat_file_seek(c, pos, index, fault) = Onward(fat_file_write(c, fault), pos, index, fault)
<1> DEFINE w == fat_file_write(c, fault)
           s == IF ~w.allocated THEN w ELSE SeekIn(w, pos, fault)
<1>1. w = IF c.dirty THEN fat_file_write(c, fault) ELSE c
  OBVIOUS
<1> HIDE DEF w
<1>2. s = IF ~w.allocated THEN w ELSE SeekIn(w, pos, fault)
  OBVIOUS
<1> HIDE DEF s
<1>3. fat_file_seek(c, pos, index, fault) = SeekEnd(s, index)
  BY <1>1, <1>2, SeekDef
<1>4. SeekEnd(s, index) = Onward(w, pos, index, fault)
  BY <1>2 DEF SeekEnd, Onward
<1> QED  BY <1>3, <1>4 DEF w

\* The pointer at the first byte
LEMMA SeekFirst ==
  ASSUME NEW s, s.allocated = TRUE, s.lastused \in Nat, s.lastused >= 2
  PROVE  SeekEnd(s, 0) = [s EXCEPT !.position = 2]
<1>1. 0 + 2 = 2 /\ s.lastused \in Int
  OBVIOUS
<1>2. Min({2, s.lastused}) = 2
  BY <1>1, MinOfTwo
<1> QED  BY <1>1, <1>2 DEF SeekEnd

\* Where a seek past the end leaves the buffer
LEMMA SeekBeyond ==
  ASSUME NEW w, Open(w), NEW pos \in Nat, pos > Len(w.file), NEW fault
  PROVE  LET s == SeekIn(w, pos, fault)
         IN  /\ Open(s) /\ Same(w, s) /\ s.lastused = 2 /\ s.fptr = pos /\ s.file = w.file
             /\ s.fh = w.fh /\ s.dirty = w.dirty /\ s.mustflush = w.mustflush
<1> DEFINE s == SeekIn(w, pos, fault)
           d == [w.data EXCEPT ![2] = IF w.recordlen # 0 THEN FF ELSE CR]
<1>1. w \in Chan /\ OnMedium(w) /\ w.allocated = TRUE /\ Len(w.file) \in Nat
  BY LenProperties DEF Open, Chan
<1>2. d \in [Area -> Cell]
  BY <1>1, Sizes DEF Chan
<1>3. s = [w EXCEPT !.data = d, !.lastused = 2, !.fptr = pos]
  <2>1. ~(Len(w.file) >= pos)
    BY <1>1
  <2> QED  BY <2>1 DEF SeekIn
<1> HIDE DEF s, d
<1>4. 2 \in Area
  BY Sizes
<1>5. /\ s \in Chan /\ Same(w, s) /\ s.lastused = 2 /\ s.fptr = pos /\ s.file = w.file
      /\ s.fh = w.fh /\ s.dirty = w.dirty /\ s.mustflush = w.mustflush /\ s.allocated = TRUE
  BY <1>1, <1>2, <1>3, <1>4 DEF Chan, Same
<1>6. OnMedium(s)
  BY <1>1, <1>5 DEF OnMedium, Same
<1> QED  BY <1>5, <1>6 DEF Open, s

\* The buffer of a file for reading is loaded at pos, if the file goes so far.
Moved(c, pos, q) ==
  \/ q = Closed(c.file)
  \/ /\ ReadOpen(q) /\ q.read = c.read /\ q.file = c.file
     /\ pos <= Len(c.file) => Loaded(q) /\ q.fptr = pos /\ q.position = 2

\* fat_file_seek on a file for reading
LEMMA SeekRead ==
  ASSUME NEW c, ReadOpen(c), NEW pos \in Nat, NEW fault
  PROVE  Moved(c, pos, fat_file_seek(c, pos, 0, fault))
<1> DEFINE q == fat_file_seek(c, pos, 0, fault)
           at == f_lseek(c, pos)
           r == fat_file_read(at, fault)
           s == SeekIn(c, pos, fault)
<1>1. /\ c \in Chan /\ OnMedium(c) /\ c.allocated = TRUE /\ c.recordlen = 0 /\ ReadShape(c)
      /\ c.dirty = FALSE /\ c.file \in Seq(Cell) /\ Len(c.file) \in Nat /\ Len(c.file) <= Cap
  BY LenProperties DEF ReadOpen, Open, ReadShape, Chan, OnMedium
<1>2. q = SeekEnd(s, 0)
  BY <1>1, SeekClean
<1>3. Sought(c, pos, at)
  BY <1>1, LseekEffect
<1>4. r = Abort(at) \/ Refilled(at, r)
  BY <1>3, ReadEffect DEF Sought
<1>8. /\ Len(c.file) >= pos => s = IF fault = "lseek" THEN f_close(c) ELSE r
  BY DEF SeekIn
<1> HIDE DEF q, at, r, s
<1>5. CASE Len(c.file) >= pos /\ (fault = "lseek" \/ r = Abort(at))
  <2>1. at.file = c.file /\ at.size = c.size /\ at \in Chan /\ OnMedium(at)
    BY <1>1, <1>3, <1>5 DEF Sought, Chan
  <2>2. Abort(at) = Closed(c.file)
    BY <1>1, <2>1, AbortOK DEF ReadShape
  <2>3. s = Closed(c.file)
    BY <1>5, <1>8, <2>2 DEF f_close
  <2>4. ~s.allocated
    BY <1>1, <2>3, ClosedOK
  <2> QED  BY <1>2, <2>3, <2>4 DEF q, SeekEnd, Moved
<1>6. CASE Len(c.file) >= pos /\ fault # "lseek" /\ Refilled(at, r)
  <2>1. /\ at.file = c.file /\ at.fh = pos /\ at.size = c.size /\ at.recordlen = 0
        /\ at.dirty = c.dirty /\ at.mustflush = c.mustflush /\ Same(c, at)
    BY <1>1, <1>3, <1>6 DEF Sought, Chan, Same
  <2>2. /\ s = r /\ r \in Chan /\ OnMedium(r) /\ Same(c, r) /\ r.file = c.file /\ r.fptr = pos
        /\ r.position = 2 /\ Loaded(r) /\ r.lastused >= 2 /\ r.lastused \in Nat
        /\ r.dirty = FALSE /\ r.mustflush = c.mustflush
    BY <1>1, <1>6, <1>8, <2>1, Sizes DEF Refilled, Same, Chan
  <2>3. s.allocated = TRUE /\ s.lastused \in Nat /\ s.lastused >= 2
    BY <1>1, <2>2 DEF Same
  <2>4. q = [r EXCEPT !.position = 2]
    BY <1>2, <2>2, <2>3, SeekFirst
  <2>5. q = r
    BY <2>2, <2>4 DEF Chan
  <2>6. ReadShape(r) /\ Open(r) /\ r.recordlen = 0 /\ r.read = c.read
    BY <1>1, <2>2 DEF ReadShape, Open, Same
  <2> QED  BY <2>2, <2>5, <2>6 DEF ReadOpen, q, Moved
<1>7. CASE ~(Len(c.file) >= pos)
  <2>1. pos > Len(c.file) /\ 2 \in Area
    BY <1>1, <1>7, Sizes
  <2>2. Open(c)
    BY DEF ReadOpen
  <2>3. /\ Open(s) /\ Same(c, s) /\ s.lastused = 2 /\ s.file = c.file
        /\ s.fh = c.fh /\ s.dirty = c.dirty /\ s.mustflush = c.mustflush
    BY <2>1, <2>2, SeekBeyond DEF s
  <2>4. s.allocated = TRUE /\ s.lastused \in Nat /\ s.lastused >= 2
    BY <2>3 DEF Open
  <2>5. q = [s EXCEPT !.position = 2]
    BY <1>2, <2>4, SeekFirst
  <2>6. q \in Chan /\ q.lastused = 2 /\ q.allocated = TRUE /\ Same(c, q) /\ q.file = c.file
        /\ q.fh = c.fh /\ q.dirty = FALSE /\ q.mustflush = c.mustflush
    BY <1>1, <2>1, <2>3, <2>5 DEF Chan, Same, Open
  <2>7. ReadShape(q) /\ OnMedium(q) /\ q.recordlen = 0 /\ q.read = c.read
    BY <1>1, <2>6 DEF ReadShape, OnMedium, Same
  <2>8. ~(pos <= Len(c.file))
    BY <1>1, <1>7
  <2> QED  BY <2>6, <2>7, <2>8 DEF ReadOpen, Open, q, Moved
<1> QED  BY <1>4, <1>5, <1>6, <1>7

\* What is kept of the file is kept of the file with what is still to be written.
LEMMA SalvagedFull ==
  ASSUME NEW c, WriteOpen(c), NEW f \in Seq(Cell), Salvaged(f, c.file)
  PROVE  Salvaged(f, Full(c))
<1> DEFINE l == Len(c.file)
<1>1. l \in Nat /\ c.fptr \in Nat /\ c.fptr >= l /\ c \in Chan /\ Sends(c) /\ Len(f) \in Nat /\ OnMedium(c)
  BY LenProperties, WriteOpenSends DEF WriteOpen, Open, Chan
<1>2. /\ Len(Full(c)) = c.fptr + Len(Bytes(c)) /\ Len(Bytes(c)) \in Nat
      /\ \A i \in 1 .. Len(Full(c)) : Full(c)[i] =
           IF i <= l THEN c.file[i] ELSE IF i <= c.fptr THEN 0 ELSE Bytes(c)[i - c.fptr]
  BY <1>1, FullSeq, BytesSeq, LenProperties
<1>3. Len(f) <= l /\ \A i \in 1 .. Len(f) : f[i] \in {c.file[i], Junk}
  BY DEF Salvaged
<1> HIDE DEF l
<1>4. Len(f) <= Len(Full(c)) /\ \A i \in 1 .. Len(f) : i \in 1 .. Len(Full(c)) /\ i <= l
  BY <1>1, <1>2, <1>3
<1>5. \A i \in 1 .. Len(f) : Full(c)[i] = c.file[i]
  BY <1>2, <1>4
<1> QED  BY <1>3, <1>4, <1>5 DEF Salvaged

\* P takes a channel for writing with the file f past the end of the file, or
\* closes it, as f_read fails.
Jumped(f, pos, q) ==
  \/ ShutPart(q, f)
  \/ WriteOpen(q) /\ q.dirty = FALSE /\ q.file = f /\ q.fptr = pos /\ pos > Len(f)

\* fat_file_seek on a channel for writing with nothing to write
LEMMA SeekWriteClean ==
  ASSUME NEW c, WriteOpen(c), c.dirty = FALSE, NEW pos \in Nat, NEW fault
  PROVE  Jumped(c.file, pos, SeekEnd(SeekIn(c, pos, fault), 0))
<1> DEFINE s == SeekIn(c, pos, fault)
           q == SeekEnd(s, 0)
           at == f_lseek(c, pos)
           r == fat_file_read(at, fault)
<1>1. /\ c \in Chan /\ OnMedium(c) /\ c.allocated = TRUE /\ c.recordlen = 0 /\ WriteShape(c)
      /\ c.file \in Seq(Cell) /\ Len(c.file) \in Nat /\ Len(c.file) <= Cap
      /\ c.size \in Nat /\ c.size <= Len(c.file)
  BY LenProperties DEF WriteOpen, Open, Chan, OnMedium
<1>2. Len(c.file) >= pos => s = IF fault = "lseek" THEN f_close(c) ELSE r
  BY DEF SeekIn
<1>3. Sought(c, pos, at)
  BY <1>1, LseekEffect
<1>4. r = Abort(at)
  <2>1. at.refill = "fat_file_write"
    BY <1>1, <1>3 DEF Sought, Chan, WriteShape
  <2> QED  BY <2>1 DEF fat_file_read
<1> HIDE DEF q, s, at, r
<1>5. CASE Len(c.file) >= pos
  <2>1. /\ SubSeq(c.file, 1, c.size) \in Seq(Cell) /\ Len(SubSeq(c.file, 1, c.size)) = c.size
        /\ \A i \in 1 .. c.size : SubSeq(c.file, 1, c.size)[i] = c.file[i]
    BY <1>1, PrefixSeq
  <2>2. at.file = c.file /\ at.size = c.size
    BY <1>1, <1>3, <1>5 DEF Sought, Chan
  <2>3. s = Closed(c.file) \/ s = Closed(SubSeq(c.file, 1, c.size))
    BY <1>2, <1>4, <1>5, <2>2 DEF f_close, Abort
  <2>4. c.size <= Cap /\ Salvaged(c.file, c.file) /\ Salvaged(SubSeq(c.file, 1, c.size), c.file)
    BY <1>1, <2>1, Sizes DEF Salvaged
  <2>5. ShutPart(s, c.file)
    BY <1>1, <2>1, <2>3, <2>4 DEF ShutPart
  <2>6. ~s.allocated
    BY <1>1, <2>1, <2>3, <2>4, ClosedOK
  <2>7. q = s
    BY <2>6 DEF SeekEnd, q
  <2> QED  BY <2>5, <2>7 DEF q, s, Jumped
<1>6. CASE ~(Len(c.file) >= pos)
  <2>1. pos > Len(c.file) /\ 2 \in Area
    BY <1>1, <1>6, Sizes
  <2>2. Open(c)
    BY DEF WriteOpen
  <2>3. /\ Open(s) /\ Same(c, s) /\ s.lastused = 2 /\ s.file = c.file /\ s.fptr = pos
        /\ s.fh = c.fh /\ s.dirty = c.dirty /\ s.mustflush = c.mustflush
    BY <2>1, <2>2, SeekBeyond DEF s
  <2>4. s.allocated = TRUE /\ s.lastused \in Nat /\ s.lastused >= 2
    BY <2>3 DEF Open
  <2>5. q = [s EXCEPT !.position = 2]
    BY <2>4, SeekFirst DEF q
  <2>6. q \in Chan /\ q.lastused = 2 /\ q.allocated = TRUE /\ Same(c, q) /\ q.file = c.file
        /\ q.fh = c.fh /\ q.dirty = FALSE /\ q.mustflush = c.mustflush /\ q.fptr = pos
        /\ q.position = 2
    BY <1>1, <2>1, <2>3, <2>5 DEF Chan, Same, Open
  <2>7. WriteShape(q) /\ OnMedium(q) /\ q.recordlen = 0 /\ q.size = c.size
    BY <1>1, <2>1, <2>6 DEF WriteShape, OnMedium, Same
  <2> QED  BY <2>1, <2>6, <2>7 DEF WriteOpen, Open, q, s, Jumped
<1> QED  BY <1>5, <1>6

\* The file the host sees: with what is in the buffer
Seen(c) == IF c.dirty THEN Full(c) ELSE c.file

\* The same for a channel with something to write
JumpedFrom(c, pos, q) ==
  \/ ShutPart(q, Full(c))
  \/ /\ WriteOpen(q) /\ q.dirty = FALSE /\ q.fptr = pos /\ pos > Len(q.file)
     /\ q.file = Seen(c)

\* fat_file_seek on a channel for writing keeps what was written so far.
LEMMA SeekWrite ==
  ASSUME NEW c, WriteOpen(c), NEW pos \in Nat, NEW fault
  PROVE  JumpedFrom(c, pos, fat_file_seek(c, pos, 0, fault))
<1> DEFINE q == fat_file_seek(c, pos, 0, fault)
           w == fat_file_write(c, fault)
<1>1. /\ c \in Chan /\ OnMedium(c) /\ c.allocated = TRUE /\ c.recordlen = 0 /\ c.dirty \in BOOLEAN
      /\ c.file \in Seq(Cell) /\ Len(c.file) \in Nat /\ c.size \in Nat /\ c.size <= Len(c.file)
  BY LenProperties DEF WriteOpen, Open, Chan, OnMedium
<1>2. CASE c.dirty = FALSE
  <2>1. q = SeekEnd(SeekIn(c, pos, fault), 0)
    BY <1>1, <1>2, SeekClean
  <2> HIDE DEF q
  <2>2. Jumped(c.file, pos, q)
    BY <1>2, <2>1, SeekWriteClean
  <2>3. ASSUME ShutPart(q, c.file) PROVE ShutPart(q, Full(c))
    <3>1. PICK f \in Seq(Cell) : Len(f) <= Cap /\ q = Closed(f) /\ Salvaged(f, c.file)
      BY <2>3 DEF ShutPart
    <3>2. Salvaged(f, Full(c))
      BY <3>1, SalvagedFull
    <3> QED  BY <3>1, <3>2 DEF ShutPart
  <2> QED  BY <1>2, <2>2, <2>3 DEF q, Jumped, JumpedFrom, Seen
<1>3. CASE c.dirty = TRUE
  <2>1. Emptied(c, w)
    BY WriteOpenFlush
  <2>2. /\ w.allocated = FALSE => q = w
        /\ w.allocated = TRUE => q = SeekEnd(SeekIn(w, pos, fault), 0)
    <3>1. q = Onward(w, pos, 0, fault)
      BY <1>3, SeekDirty
    <3> HIDE DEF q, w
    <3> QED  BY <3>1 DEF Onward
  <2> HIDE DEF q, w
  <2>3. CASE ShutPart(w, Full(c))
    <3>1. w.allocated = FALSE
      BY <2>3, ClosedOK DEF ShutPart, Closed, Pristine
    <3> QED  BY <2>2, <2>3, <3>1 DEF q, JumpedFrom
  <2>4. CASE WriteOpen(w) /\ w.dirty = FALSE /\ w.file = Full(c)
    <3>1. w.allocated = TRUE
      BY <2>4 DEF WriteOpen, Open
    <3>2. q = SeekEnd(SeekIn(w, pos, fault), 0)
      BY <2>2, <3>1
    <3>3. Jumped(w.file, pos, q)
      BY <2>4, <3>2, SeekWriteClean
    <3> QED  BY <1>3, <2>4, <3>3 DEF q, Jumped, JumpedFrom, Seen
  <2> QED  BY <2>1, <2>3, <2>4 DEF Emptied
<1> QED  BY <1>1, <1>2, <1>3

-----------------------------------------------------------------------------
(* Relative files: the types only.                                         *)

\* A channel that is closed has no buffer.
LEMMA ShutFree ==
  ASSUME NEW q, Shut(q)
  PROVE  q.allocated = FALSE /\ ChannelOK(q)
BY ClosedOK DEF Shut, Closed, Pristine

\* A step on a relative file closes it or leaves it open.
RelStep(c, q) == Shut(q) \/ (RelOpen(q) /\ q.recordlen = c.recordlen)

\* fat_file_write on a record
LEMMA RelFlush ==
  ASSUME NEW c, RelOpen(c), NEW fault
  PROVE  RelStep(c, fat_file_write(c, fault))
<1> DEFINE q == fat_file_write(c, fault)
<1>1. c \in Chan /\ OnMedium(c) /\ c.allocated = TRUE /\ c.recordlen # 0 /\ RelShape(c)
  BY DEF RelOpen, Open
<1>2. FlushFailed(c, q) \/ Flushed(c, q)
  BY <1>1, FlushEffect DEF Writable, RelShape, Sends, Appends
<1> HIDE DEF q
<1>3. CASE FlushFailed(c, q)
  BY <1>3 DEF FlushFailed, Shut, RelStep, q
<1>4. CASE Flushed(c, q)
  BY <1>1, <1>4 DEF Flushed, RelStep, RelOpen, RelShape, Open, Same, q
<1> QED  BY <1>2, <1>3, <1>4

\* The end of fat_file_seek leaves the pointer in the buffer.
LEMMA RelEnd ==
  ASSUME NEW s, RelOpen(s), NEW index \in Nat
  PROVE  RelOpen(SeekEnd(s, index)) /\ SeekEnd(s, index).recordlen = s.recordlen
<1> DEFINE m == Min({index + 2, s.lastused})
           q == SeekEnd(s, index)
<1>1. s \in Chan /\ OnMedium(s) /\ s.allocated = TRUE /\ s.recordlen # 0 /\ RelShape(s)
      /\ s.lastused \in Area
  BY DEF RelOpen, Open, Chan
<1>2. m \in Area
  <2>1. index + 2 \in Int /\ s.lastused \in Int
    BY <1>1, Sizes
  <2>2. m = IF index + 2 <= s.lastused THEN index + 2 ELSE s.lastused
    BY <2>1, MinOfTwo
  <2> HIDE DEF m
  <2> QED  BY <1>1, <2>2, Sizes
<1>3. q = [s EXCEPT !.position = m]
  BY <1>1 DEF SeekEnd
<1> HIDE DEF m, q
<1>4. /\ q \in Chan /\ q.file = s.file /\ q.fh = s.fh /\ q.size = s.size /\ q.allocated = TRUE
      /\ q.recordlen = s.recordlen /\ q.refill = s.refill /\ q.write = s.write /\ q.read = s.read
  BY <1>1, <1>2, <1>3 DEF Chan
<1> QED  BY <1>1, <1>4 DEF RelOpen, RelShape, Open, OnMedium, q

\* fat_file_seek to a record in the file or behind it
LEMMA RelIn ==
  ASSUME NEW c, RelOpen(c), NEW pos \in Nat, NEW index \in Nat, NEW fault
  PROVE  RelStep(c, SeekEnd(SeekIn(c, pos, fault), index))
<1> DEFINE s == SeekIn(c, pos, fault)
           at == f_lseek(c, pos)
           r == fat_file_read(at, fault)
<1>1. /\ c \in Chan /\ OnMedium(c) /\ c.allocated = TRUE /\ c.recordlen # 0 /\ RelShape(c)
      /\ c.file \in Seq(Cell) /\ Len(c.file) \in Nat /\ Len(c.file) <= Cap
  BY LenProperties DEF RelOpen, Open, Chan, OnMedium
<1>2. Len(c.file) >= pos => s = IF fault = "lseek" THEN f_close(c) ELSE r
  BY DEF SeekIn
<1>3. Sought(c, pos, at)
  BY <1>1, LseekEffect
<1>4. r = Abort(at) \/ Refilled(at, r)
  BY <1>3, ReadEffect DEF Sought
<1>5. RelStep(c, s)
  <2> HIDE DEF s, at, r
  <2>1. CASE ~(Len(c.file) >= pos)
    <3>1. pos > Len(c.file) /\ Open(c)
      BY <1>1, <2>1 DEF Open
    <3>2. Open(s) /\ Same(c, s)
      BY <3>1, SeekBeyond DEF s
    <3> QED  BY <1>1, <3>2 DEF RelStep, RelOpen, RelShape, Same
  <2>2. CASE Len(c.file) >= pos /\ fault = "lseek"
    BY <1>1, <1>2, <2>2 DEF f_close, RelStep, Shut
  <2>3. CASE Len(c.file) >= pos /\ fault # "lseek" /\ r = Abort(at)
    <3>1. at \in Chan /\ OnMedium(at) /\ at.size \in Nat
      BY <1>3 DEF Sought, Chan
    <3>2. /\ r = Closed(SubSeq(at.file, 1, at.size)) /\ SubSeq(at.file, 1, at.size) \in Seq(Cell)
          /\ Len(SubSeq(at.file, 1, at.size)) = at.size
      BY <2>3, <3>1, AbortOK
    <3>3. at.size <= Cap
      BY <3>1, Sizes, LenProperties DEF OnMedium, Chan
    <3> QED  BY <1>2, <2>3, <3>2, <3>3 DEF RelStep, Shut
  <2>4. CASE Len(c.file) >= pos /\ fault # "lseek" /\ Refilled(at, r)
    <3>1. Same(c, at)
      BY <1>1, <1>3 DEF Sought, Chan, Same
    <3>2. s = r /\ r \in Chan /\ OnMedium(r) /\ Same(c, r)
      BY <1>2, <2>4, <3>1 DEF Refilled, Same
    <3> QED  BY <1>1, <3>2 DEF RelStep, RelOpen, RelShape, Open, Same
  <2> QED  BY <1>4, <2>1, <2>2, <2>3, <2>4
<1> HIDE DEF s
<1>6. CASE Shut(s)
  <2>1. SeekEnd(s, index) = s
    BY <1>6, ShutFree DEF SeekEnd
  <2> QED  BY <1>6, <2>1 DEF RelStep, s
<1>7. CASE RelOpen(s) /\ s.recordlen = c.recordlen
  <2>1. RelOpen(SeekEnd(s, index)) /\ SeekEnd(s, index).recordlen = c.recordlen
    BY <1>7, RelEnd
  <2> QED  BY <2>1 DEF RelStep, s
<1> QED  BY <1>5, <1>6, <1>7 DEF RelStep

\* fat_file_seek on a relative file
LEMMA SeekRel ==
  ASSUME NEW c, RelOpen(c), NEW pos \in Nat, NEW index \in Nat, NEW fault
  PROVE  RelStep(c, fat_file_seek(c, pos, index, fault))
<1> DEFINE w == fat_file_write(c, fault)
           q == fat_file_seek(c, pos, index, fault)
<1>1. c.allocated = TRUE /\ c.dirty \in BOOLEAN
  BY DEF RelOpen, Open, Chan
<1>2. CASE c.dirty = FALSE
  <2>1. q = SeekEnd(SeekIn(c, pos, fault), index)
    BY <1>1, <1>2, SeekClean
  <2> QED  BY <2>1, RelIn
<1>3. CASE c.dirty = TRUE
  <2>1. q = Onward(w, pos, index, fault)
    BY <1>3, SeekDirty
  <2>2. RelStep(c, w)
    BY RelFlush
  <2> HIDE DEF q, w
  <2>3. CASE Shut(w)
    <3>1. q = w
      BY <2>1, <2>3, ShutFree DEF Onward
    <3> QED  BY <2>3, <3>1 DEF RelStep, q
  <2>4. CASE RelOpen(w) /\ w.recordlen = c.recordlen
    <3>1. w.allocated = TRUE
      BY <2>4 DEF RelOpen, Open
    <3>2. q = SeekEnd(SeekIn(w, pos, fault), index)
      BY <2>1, <3>1 DEF Onward
    <3>3. RelStep(w, q)
      BY <2>4, <3>2, RelIn
    <3> QED  BY <2>4, <3>3 DEF RelStep, q
  <2> QED  BY <2>2, <2>3, <2>4 DEF RelStep
<1> QED  BY <1>1, <1>2, <1>3

\* The refill callback of a relative file: on to the next record
LEMMA RefillRel ==
  ASSUME NEW c, RelOpen(c), NEW fault
  PROVE  RelStep(c, refill(c, fault))
<1>1. refill(c, fault) = fat_file_seek(c, c.fptr + c.recordlen, 0, fault)
  BY DEF RelOpen, RelShape, refill, fat_file_sync
<1>2. c.fptr + c.recordlen \in Nat
  BY Sizes DEF RelOpen, Open, Chan
<1> QED  BY <1>1, <1>2, SeekRel

-----------------------------------------------------------------------------
(* What the host has written.                                              *)

\* A channel for writing in numbers: the place of the next byte in the buffer
LEMMA WriteOpenFacts ==
  ASSUME NEW c, WriteOpen(c)
  PROVE  /\ c \in Chan /\ OnMedium(c) /\ c.allocated = TRUE /\ c.recordlen = 0
         /\ c.refill = "fat_file_write" /\ c.write /\ ~c.read
         /\ c.file \in Seq(Cell) /\ Len(c.file) \in Nat /\ Len(c.file) <= Cap
         /\ c.fptr \in Nat /\ c.fptr >= Len(c.file) /\ c.fh = Len(c.file)
         /\ c.size \in Nat /\ c.size <= Len(c.file)
         /\ c.dirty \in BOOLEAN /\ c.mustflush \in BOOLEAN
         /\ Full(c) \in Seq(Cell) /\ Len(Full(c)) \in Nat
         /\ Len(Full(c)) = c.fptr + Len(Bytes(c)) /\ Bytes(c) \in Seq(Cell)
<1>1. c \in Chan /\ OnMedium(c) /\ c.allocated = TRUE /\ c.recordlen = 0 /\ WriteShape(c)
  BY DEF WriteOpen, Open
<1>2. Sends(c) /\ c.fptr >= Len(c.file)
  BY WriteOpenSends
<1>3. /\ Full(c) \in Seq(Cell) /\ Len(Full(c)) \in Nat
      /\ Len(Full(c)) = c.fptr + Len(Bytes(c)) /\ Bytes(c) \in Seq(Cell)
  BY <1>1, <1>2, FullSeq, BytesSeq, LenProperties
<1> QED  BY <1>1, <1>2, <1>3, LenProperties DEF WriteShape, OnMedium, Chan

\* A sequence with an empty one behind it
LEMMA NothingBehind ==
  ASSUME NEW s \in Seq(Cell), NEW t \in Seq(Cell), Len(t) = 0
  PROVE  s \o t = s
<1>1. t = << >>
  BY EmptySeq
<1> QED  BY <1>1, ConcatEmptySeq

\* With nothing to write, the file as it will be closed is the file up to fptr.
LEMMA FullClean ==
  ASSUME NEW c, WriteOpen(c), c.dirty = FALSE
  PROVE  /\ Full(c) = c.file \o Repeat(0, c.fptr - Len(c.file)) /\ Len(Full(c)) = c.fptr
         /\ c.fptr = Len(c.file) => Full(c) = c.file
<1> DEFINE z == Repeat(0, c.fptr - Len(c.file))
<1>1. /\ c.file \in Seq(Cell) /\ Bytes(c) \in Seq(Cell) /\ c.fptr \in Nat /\ Len(c.file) \in Nat
      /\ c.fptr >= Len(c.file) /\ Len(Full(c)) = c.fptr + Len(Bytes(c))
  BY WriteOpenFacts
<1>2. Len(Bytes(c)) = 0
  <2>1. Used(c) = 1 /\ Top(c) = Used(c) /\ c \in Chan /\ Sends(c)
    BY WriteOpenSends, WriteOpenFacts DEF Top
  <2> QED  BY <2>1, BytesSeq
<1>8. c.fptr - Len(c.file) \in Nat /\ 0 \in Cell
  BY <1>1, Sizes
<1>3. z \in Seq(Cell) /\ Len(z) = c.fptr - Len(c.file)
  BY <1>8, RepeatSeq
<1> HIDE DEF z
<1>4. c.file \o z \in Seq(Cell)
  BY <1>1, <1>3, ConcatProperties
<1>5. Full(c) = c.file \o z
  BY <1>1, <1>2, <1>4, NothingBehind DEF Full, z
<1>6. c.fptr = Len(c.file) => Len(z) = 0
  BY <1>1, <1>3
<1>7. c.fptr = Len(c.file) => Full(c) = c.file
  BY <1>1, <1>3, <1>5, <1>6, NothingBehind
<1>9. Len(Full(c)) = c.fptr
  BY <1>1, <1>2
<1> QED  BY <1>5, <1>7, <1>9 DEF z

\* A byte behind the second of two sequences
LEMMA AppendBehind ==
  ASSUME NEW u \in Seq(Cell), NEW t \in Seq(Cell), NEW b \in Cell
  PROVE  u \o Append(t, b) = Append(u \o t, b)
<1> DEFINE v == <<b>>
<1>1. v \in Seq(Cell) /\ u \o t \in Seq(Cell)
  BY ConcatProperties
<1>2. Append(t, b) = t \o v /\ Append(u \o t, b) = (u \o t) \o v
  BY <1>1, AppendIsConcat
<1> HIDE DEF v
<1>3. (u \o t) \o v = u \o (t \o v)
  BY <1>1, ConcatAssociative
<1> QED  BY <1>2, <1>3

\* A byte into the buffer of a channel for writing
Stored(f, b, s) ==
  /\ WriteOpen(s) /\ s.dirty = TRUE /\ s.file = f.file /\ s.fptr = f.fptr
  /\ Bytes(s) = Append(Bytes(f), b) /\ Full(s) = Append(Full(f), b)

\* Store puts the byte behind the ones before it.
LEMMA StoreWrite ==
  ASSUME NEW f, WriteOpen(f), f.mustflush = FALSE, NEW b \in Byte
  PROVE  Stored(f, b, Store(f, b))
<1> DEFINE s == Store(f, b)
           p == f.position
           d == [f.data EXCEPT ![p] = b]
<1>1. /\ f \in Chan /\ OnMedium(f) /\ f.allocated = TRUE /\ f.recordlen = 0 /\ WriteShape(f)
      /\ f.data \in [Area -> Cell] /\ f.dirty \in BOOLEAN
  BY DEF WriteOpen, Open, Chan
<1>2. /\ p \in 2 .. W - 1 /\ p \in Area /\ f.lastused \in Nat
      /\ f.lastused = (IF f.dirty THEN p - 1 ELSE 2) /\ (~f.dirty => p = 2)
  BY <1>1, Sizes DEF WriteShape, Chan
<1>3. Max({f.lastused, p}) = p
  <2>1. f.lastused \in Int /\ p \in Int /\ (f.lastused >= p => f.lastused = p)
    BY <1>2, Sizes
  <2> QED  BY <2>1, MaxOfTwo
<1>4. d \in [Area -> Cell] /\ d[p] = b /\ \A i \in Area : i # p => d[i] = f.data[i]
  BY <1>1, <1>2 DEF Cell
<1> DEFINE m == (p + 1) % W
<1>5. m = (IF p + 1 = W THEN 0 ELSE p + 1) /\ m \in Area
  <2>1. CASE p + 1 = W
    BY <2>1, Sizes
  <2>2. CASE p + 1 # W
    <3>1. p + 1 \in 0 .. W - 1
      BY <1>2, <2>2, Sizes
    <3> QED  BY <2>2, <3>1, Sizes
  <2> QED  BY <2>1, <2>2
<1>6. s = [f EXCEPT !.data = d, !.dirty = TRUE, !.lastused = p, !.position = m,
                    !.mustflush = (p + 1 = W)]
  BY <1>1, <1>3 DEF Store
<1> HIDE DEF s, p, d, m
<1>7. /\ s \in Chan /\ Same(f, s) /\ s.data = d /\ s.dirty = TRUE /\ s.lastused = p /\ s.position = m
      /\ s.mustflush = (p + 1 = W) /\ s.file = f.file /\ s.fptr = f.fptr /\ s.fh = f.fh
  <2> DEFINE e == p + 1 = W
  <2>1. e \in BOOLEAN
    OBVIOUS
  <2>2. s = [f EXCEPT !.data = d, !.dirty = TRUE, !.lastused = p, !.position = m, !.mustflush = e]
    BY <1>6
  <2> HIDE DEF e
  <2>3. s \in Chan
    BY <1>1, <1>2, <1>4, <1>5, <2>1, <2>2, ZenonT(40) DEF Chan
  <2>4. /\ s.data = d /\ s.dirty = TRUE /\ s.lastused = p /\ s.position = m
        /\ s.mustflush = e /\ s.file = f.file /\ s.fptr = f.fptr /\ s.fh = f.fh
    BY <1>1, <2>2 DEF Chan
  <2>5. Same(f, s)
    BY <1>1, <2>2 DEF Chan, Same
  <2> QED  BY <2>3, <2>4, <2>5 DEF e
<1>8. WriteShape(s)
  <2>1. s.refill = "fat_file_write" /\ s.write /\ ~s.read /\ s.fh = Len(s.file) /\ s.fptr >= Len(s.file)
    BY <1>1, <1>7 DEF WriteShape, Same
  <2>2. CASE p + 1 = W
    <3>1. s.mustflush = TRUE
      BY <1>7, <2>2
    <3>2. m = 0 /\ p = W - 1
      BY <1>2, <1>5, <2>2, Sizes
    <3> QED  BY <1>7, <2>1, <3>1, <3>2 DEF WriteShape
  <2>3. CASE p + 1 # W
    <3>1. m = p + 1 /\ m \in 3 .. W - 1 /\ p = m - 1
      BY <1>2, <1>5, <2>3, Sizes
    <3> QED  BY <1>7, <2>1, <2>3, <3>1 DEF WriteShape
  <2> QED  BY <2>2, <2>3
<1>9. WriteOpen(s)
  BY <1>1, <1>7, <1>8 DEF WriteOpen, Open, OnMedium, Same
<1>10. Used(f) = p - 1 /\ Bytes(f) = [i \in 1 .. Used(f) - 1 |-> f.data[i + 1]]
  BY WriteOpenSends DEF p
<1>11. Used(s) = p /\ Bytes(s) = [i \in 1 .. Used(s) - 1 |-> d[i + 1]]
  <2>1. Used(s) = IF s.mustflush THEN s.lastused ELSE s.position - 1
    BY <1>9, WriteOpenSends
  <2>2. Used(s) = p
    <3>1. CASE p + 1 = W
      <4>1. s.mustflush = TRUE
        BY <1>7, <3>1
      <4> QED  BY <1>7, <2>1, <4>1
    <3>2. CASE p + 1 # W
      <4>1. s.mustflush = FALSE
        BY <1>7, <3>2
      <4>2. m - 1 = p
        BY <1>2, <1>5, <3>2, Sizes
      <4> QED  BY <1>7, <2>1, <4>1, <4>2
    <3> QED  BY <3>1, <3>2
  <2> QED  BY <1>7, <1>9, <2>2, WriteOpenSends
<1>12. Bytes(s) = Append(Bytes(f), b)
  <2>1. Bytes(f) \in Seq(Cell) /\ Bytes(s) \in Seq(Cell) /\ b \in Cell
    BY <1>9, WriteOpenFacts DEF Cell
  <2>2. p \in Nat /\ p >= 2 /\ p - 1 \in Nat /\ (p - 1) - 1 \in Nat
    BY <1>2
  <2>3. Bytes(f) = [i \in 1 .. (p - 1) - 1 |-> f.data[i + 1]] /\ Bytes(s) = [i \in 1 .. p - 1 |-> d[i + 1]]
    BY <1>10, <1>11
  <2>4. Len(Bytes(f)) = (p - 1) - 1 /\ Len(Bytes(s)) = p - 1
    <3>1. DOMAIN Bytes(f) = 1 .. (p - 1) - 1 /\ DOMAIN Bytes(s) = 1 .. p - 1
      BY <2>3
    <3>2. /\ DOMAIN Bytes(f) = 1 .. Len(Bytes(f)) /\ Len(Bytes(f)) \in Nat
          /\ DOMAIN Bytes(s) = 1 .. Len(Bytes(s)) /\ Len(Bytes(s)) \in Nat
      BY <2>1, LenProperties
    <3> QED  BY <2>2, <3>1, <3>2
  <2> DEFINE a == Append(Bytes(f), b)
  <2>5. /\ a \in Seq(Cell) /\ Len(a) = Len(Bytes(f)) + 1
        /\ \A i \in 1 .. Len(Bytes(f)) : a[i] = Bytes(f)[i]
        /\ a[Len(Bytes(f)) + 1] = b
    BY <2>1, AppendProperties
  <2> HIDE DEF a
  <2>6. Len(a) = p - 1 /\ a[p - 1] = b
    <3>1. Len(Bytes(f)) + 1 = p - 1
      BY <2>2, <2>4
    <3> QED  BY <2>5, <3>1
  <2>7. ASSUME NEW i \in 1 .. p - 1 PROVE Bytes(s)[i] = a[i]
    <3>1. Bytes(s)[i] = d[i + 1]
      BY <2>3
    <3>2. CASE i = p - 1
      <4>1. i + 1 = p
        BY <2>2, <3>2
      <4> QED  BY <1>4, <2>6, <3>1, <3>2, <4>1
    <3>3. CASE i # p - 1
      <4>1. i \in 1 .. (p - 1) - 1 /\ i + 1 # p /\ i + 1 \in Area
        BY <1>2, <2>2, <3>3, Sizes
      <4>2. Bytes(f)[i] = f.data[i + 1] /\ a[i] = Bytes(f)[i]
        BY <2>3, <2>4, <2>5, <4>1
      <4> QED  BY <1>4, <3>1, <4>1, <4>2
    <3> QED  BY <3>2, <3>3
  <2>8. Bytes(s) = a
    BY <2>1, <2>4, <2>5, <2>6, <2>7, SeqEqual
  <2> QED  BY <2>8 DEF a
<1>13. Full(s) = Append(Full(f), b)
  <2> DEFINE u == f.file \o Repeat(0, f.fptr - Len(f.file))
  <2>1. Bytes(f) \in Seq(Cell) /\ Full(f) \in Seq(Cell) /\ b \in Cell
        /\ f.file \in Seq(Cell) /\ f.fptr - Len(f.file) \in Nat
    <3>1. /\ Bytes(f) \in Seq(Cell) /\ Full(f) \in Seq(Cell) /\ f.file \in Seq(Cell)
          /\ f.fptr \in Nat /\ Len(f.file) \in Nat /\ f.fptr >= Len(f.file)
      BY WriteOpenFacts
    <3>2. b \in Cell
      BY DEF Cell
    <3> QED  BY <3>1, <3>2
  <2>2. u \in Seq(Cell)
    BY <2>1, RepeatSeq, Sizes, ConcatProperties
  <2>3. Full(f) = u \o Bytes(f) /\ Full(s) = u \o Append(Bytes(f), b)
    BY <1>7, <1>12 DEF Full
  <2> HIDE DEF u
  <2> QED  BY <2>1, <2>2, <2>3, AppendBehind
<1>14. Stored(f, b, s)
  BY <1>7, <1>9, <1>12, <1>13 DEF Stored
<1> QED  BY <1>14 DEF s

\* A byte into a record
LEMMA StoreRel ==
  ASSUME NEW f, RelOpen(f), NEW b \in Byte
  PROVE  RelOpen(Store(f, b)) /\ Store(f, b).recordlen = f.recordlen
<1> DEFINE s == Store(f, b)
           p == f.position
           d == [f.data EXCEPT ![p] = b]
           m == (p + 1) % W
           u == Max({f.lastused, p})
<1>1. /\ f \in Chan /\ OnMedium(f) /\ f.allocated = TRUE /\ f.recordlen # 0 /\ RelShape(f)
      /\ f.data \in [Area -> Cell] /\ p \in Area /\ f.lastused \in Area /\ f.mustflush \in BOOLEAN
  BY DEF RelOpen, Open, Chan
<1>2. d \in [Area -> Cell]
  BY <1>1 DEF Cell
<1>3. m \in Area
  BY <1>1, Sizes
<1>4. u \in Area
  <2>1. f.lastused \in Int /\ p \in Int
    BY <1>1, Sizes
  <2> QED  BY <1>1, <2>1, MaxOfTwo
<1> DEFINE g == f.mustflush \/ p + 1 = W
<1>5. s = [f EXCEPT !.data = d, !.dirty = TRUE, !.lastused = u, !.position = m, !.mustflush = g]
  BY <1>1 DEF Store
<1>6. g \in BOOLEAN
  OBVIOUS
<1> HIDE DEF s, p, d, m, u, g
<1>7. s \in Chan /\ Same(f, s) /\ s.file = f.file /\ s.fh = f.fh
  BY <1>1, <1>2, <1>3, <1>4, <1>5, <1>6 DEF Chan, Same
<1> QED  BY <1>1, <1>7 DEF RelOpen, RelShape, Open, OnMedium, Same, s

-----------------------------------------------------------------------------
(* What the host sees of a channel c, with lost as l.                      *)

ModeOf(c, l) == IF ~c.allocated THEN "closed"
                ELSE IF c.recordlen # 0 THEN "rel"
                ELSE IF c.write THEN "write"
                ELSE IF ~c.read THEN "done"
                ELSE IF l THEN "lost" ELSE "read"

PendingOf(c) == [i \in 1 .. (IF c.mustflush THEN c.lastused ELSE c.position - 1) - 1 |-> c.data[i + 1]]
WrittenOf(c) == IF c.dirty THEN c.file \o Repeat(0, c.fptr - Len(c.file)) \o PendingOf(c) ELSE c.file

ContentOf(c, l) == IF ModeOf(c, l) = "write" THEN WrittenOf(c) ELSE c.file
NextOf(c, l) == CASE ModeOf(c, l) = "read" -> c.fptr + c.position - 1
                  [] ModeOf(c, l) = "write" -> IF c.dirty THEN Len(WrittenOf(c)) + 1 ELSE c.fptr + 1
                  [] OTHER -> 0

\* The refinement mapping, in this state and in the next
hostContent == IF Mode = "write" THEN Written ELSE ch.file
hostNext == CASE Mode = "read" -> ch.fptr + ch.position - 1
              [] Mode = "write" -> IF ch.dirty THEN Len(Written) + 1 ELSE ch.fptr + 1
              [] OTHER -> 0

\* The mapping is a function of the channel and of lost.
LEMMA HostVars ==
  /\ Mode = ModeOf(ch, lost) /\ Mode' = ModeOf(ch', lost')
  /\ hostContent = ContentOf(ch, lost) /\ hostContent' = ContentOf(ch', lost')
  /\ hostNext = NextOf(ch, lost) /\ hostNext' = NextOf(ch', lost')
<1>1. Mode = ModeOf(ch, lost) /\ Mode' = ModeOf(ch', lost')
  BY DEF Mode, Rel, ModeOf
<1>2. Written = WrittenOf(ch) /\ Written' = WrittenOf(ch')
  BY DEF Written, Pending, WrittenOf, PendingOf
<1>3. hostContent = ContentOf(ch, lost) /\ hostContent' = ContentOf(ch', lost')
  BY <1>1, <1>2 DEF hostContent, ContentOf
<1>4. hostNext = NextOf(ch, lost) /\ hostNext' = NextOf(ch', lost')
  BY <1>1, <1>2 DEF hostNext, NextOf
<1> QED  BY <1>1, <1>3, <1>4

\* What the host sees of each kind of channel
LEMMA ViewClosed ==
  ASSUME NEW c, NEW l, c.allocated = FALSE
  PROVE  ModeOf(c, l) = "closed" /\ ContentOf(c, l) = c.file /\ NextOf(c, l) = 0
BY DEF ModeOf, ContentOf, NextOf

\* ... for reading, before and after the end of the file
LEMMA ViewRead ==
  ASSUME NEW c, NEW l, ReadOpen(c)
  PROVE  /\ ModeOf(c, l) = (IF ~c.read THEN "done" ELSE IF l THEN "lost" ELSE "read")
         /\ ContentOf(c, l) = c.file
         /\ NextOf(c, l) = (IF c.read /\ ~l THEN c.fptr + c.position - 1 ELSE 0)
<1>1. c.allocated = TRUE /\ c.recordlen = 0 /\ ~c.write
  BY DEF ReadOpen, Open, ReadShape
<1>2. ModeOf(c, l) = (IF ~c.read THEN "done" ELSE IF l THEN "lost" ELSE "read")
  BY <1>1 DEF ModeOf
<1> QED  BY <1>2 DEF ContentOf, NextOf

\* ... on a relative file, of which CbmFile says nothing
LEMMA ViewRel ==
  ASSUME NEW c, NEW l, RelOpen(c)
  PROVE  ModeOf(c, l) = "rel" /\ ContentOf(c, l) = c.file /\ NextOf(c, l) = 0
<1>1. c.allocated = TRUE /\ c.recordlen # 0
  BY DEF RelOpen, Open
<1>2. ModeOf(c, l) = "rel"
  BY <1>1 DEF ModeOf
<1> QED  BY <1>2 DEF ContentOf, NextOf

\* ... for writing: the bytes in the buffer are seen as written.
LEMMA ViewWrite ==
  ASSUME NEW c, NEW l, WriteOpen(c)
  PROVE  /\ ModeOf(c, l) = "write" /\ ContentOf(c, l) = Seen(c)
         /\ NextOf(c, l) = Len(Full(c)) + 1
         /\ Seen(c) \o [i \in 1 .. NextOf(c, l) - 1 - Len(Seen(c)) |-> 0] = Full(c)
<1>1. /\ c.allocated = TRUE /\ c.recordlen = 0 /\ c.write /\ c.dirty \in BOOLEAN
      /\ c.file \in Seq(Cell) /\ Full(c) \in Seq(Cell) /\ Len(Full(c)) \in Nat
      /\ Len(c.file) \in Nat /\ c.fptr \in Nat
  BY WriteOpenFacts
<1>2. ModeOf(c, l) = "write"
  BY <1>1 DEF ModeOf
<1>3. PendingOf(c) = Bytes(c)
  BY WriteOpenSends DEF PendingOf
<1>4. c.dirty = TRUE => WrittenOf(c) = Full(c)
  BY <1>3 DEF WrittenOf, Full
<1>5. WrittenOf(c) = Seen(c)
  BY <1>1, <1>4 DEF WrittenOf, Seen
<1>6. ContentOf(c, l) = Seen(c)
  BY <1>2, <1>5 DEF ContentOf
<1>7. NextOf(c, l) = Len(Full(c)) + 1
  <2>1. CASE c.dirty = TRUE
    BY <1>2, <1>4, <2>1 DEF NextOf
  <2>2. CASE c.dirty = FALSE
    BY <1>2, <2>2, FullClean DEF NextOf
  <2> QED  BY <1>1, <2>1, <2>2
<1>8. Seen(c) \o Repeat(0, NextOf(c, l) - 1 - Len(Seen(c))) = Full(c)
  <2>1. CASE c.dirty = TRUE
    <3>1. Seen(c) = Full(c) /\ NextOf(c, l) - 1 - Len(Seen(c)) = 0
      BY <1>1, <1>7, <2>1 DEF Seen
    <3>2. Repeat(0, 0) \in Seq(Cell) /\ Len(Repeat(0, 0)) = 0
      BY RepeatSeq, Sizes
    <3> QED  BY <1>1, <3>1, <3>2, NothingBehind
  <2>2. CASE c.dirty = FALSE
    <3>1. Seen(c) = c.file /\ Len(Full(c)) = c.fptr
      BY <2>2, FullClean DEF Seen
    <3>2. NextOf(c, l) - 1 = c.fptr
      BY <1>1, <1>7, <3>1
    <3> QED  BY <2>2, <3>1, <3>2, FullClean
  <2> QED  BY <1>1, <2>1, <2>2
<1> QED  BY <1>2, <1>6, <1>7, <1>8 DEF Repeat

\* The file of a closed channel
LEMMA ShutFile ==
  ASSUME NEW f \in Seq(Cell), Len(f) <= Cap, NEW q, q = Closed(f)
  PROVE  q.file = f /\ q.allocated = FALSE /\ ChannelOK(q)
BY ClosedOK DEF Closed, Pristine

-----------------------------------------------------------------------------
(* The actions.                                                            *)

\* A step that the sequential file can take, or that it does not see
HostStep == Host!Next \/ UNCHANGED Host!vars

\* The channel after a step, with the rest of the invariant
LEMMA InvAfter ==
  ASSUME ChannelOK(ch'), type' \in {"none", "seq", "rel"}, type' = "rel" => header' \in Lengths,
         got'.byte \in Cell, lost' \in BOOLEAN, lost' => ch'.allocated,
         Mode' = "read" => Loaded(ch')
  PROVE  FileInv'
BY DEF FileInv

\* What a closed channel is
LEMMA ClosedFacts ==
  ASSUME FileInv, ~ch.allocated
  PROVE  /\ ch.allocated = FALSE /\ ch = Closed(ch.file) /\ ch.file \in Seq(Cell)
         /\ Len(ch.file) \in Nat /\ Len(ch.file) <= Cap /\ lost = FALSE /\ got.byte \in Cell
         /\ type \in {"none", "seq", "rel"} /\ (type = "rel" => header \in Lengths)
         /\ Mode = "closed" /\ hostContent = ch.file /\ hostNext = 0
<1>1. ch \in Chan /\ OnMedium(ch) /\ ch = Closed(ch.file)
  BY DEF FileInv, ChannelOK
<1>2. ch.allocated = FALSE /\ ch.file \in Seq(Cell) /\ Len(ch.file) \in Nat /\ Len(ch.file) <= Cap
  BY <1>1, LenProperties DEF Chan, OnMedium
<1>3. lost = FALSE
  BY DEF FileInv
<1>4. Mode = "closed" /\ hostContent = ch.file /\ hostNext = 0
  BY <1>2, ViewClosed, HostVars
<1> QED  BY <1>1, <1>2, <1>3, <1>4 DEF FileInv

\* fat_open_read
LEMMA DoOpenRead ==
  ASSUME FileInv, NEW fault, OpenRead(fault)
  PROVE  FileInv' /\ HostStep
<1> DEFINE c == [Pristine(ch.file) EXCEPT !.read = TRUE, !.refill = "fat_file_read"]
           q == fat_file_read(c, fault)
<1>1. /\ ch.allocated = FALSE /\ ch = Closed(ch.file) /\ ch.file \in Seq(Cell) /\ Len(ch.file) \in Nat
      /\ Len(ch.file) <= Cap /\ lost = FALSE /\ got.byte \in Cell
      /\ type \in {"none", "seq", "rel"} /\ (type = "rel" => header \in Lengths)
  BY ClosedFacts DEF OpenRead
<1>2. ch' = q /\ type' = type /\ header' = header /\ got' = got /\ lost' = lost
  BY DEF OpenRead, fat_open_read
<1>3. Pristine(ch.file) \in Chan
  BY <1>1, Sizes DEF Pristine, Chan
<1>4. /\ c \in Chan /\ c.file = ch.file /\ c.size = Len(ch.file) /\ c.fh = 0 /\ c.allocated = TRUE
      /\ c.recordlen = 0 /\ c.refill = "fat_file_read" /\ c.read = TRUE /\ c.write = FALSE
      /\ c.dirty = FALSE /\ c.mustflush = FALSE
  BY <1>3 DEF Pristine, Chan
<1>5. OnMedium(c)
  BY <1>1, <1>4 DEF OnMedium
<1> HIDE DEF c
<1>6. q = Abort(c) \/ Refilled(c, q)
  BY <1>4, <1>5, ReadEffect
<1> HIDE DEF q
<1>7. CASE q = Abort(c)
  <2>1. ch' = ch
    BY <1>1, <1>2, <1>4, <1>5, <1>7, AbortOK
  <2>2. Mode' = "closed"
    BY <1>1, <2>1, ViewClosed, HostVars
  <2>3. FileInv'
    BY <1>1, <1>2, <2>1, <2>2, InvAfter DEF FileInv
  <2>4. UNCHANGED <<hostContent, Mode, hostNext, got>>
    BY <1>2, <2>1, HostVars
  <2>5. UNCHANGED Host!vars
    BY <2>4 DEF Host!vars, hostContent, hostNext
  <2> QED  BY <2>3, <2>5 DEF HostStep
<1>8. CASE Refilled(c, q)
  <2>1. /\ q \in Chan /\ OnMedium(q) /\ Same(c, q) /\ q.file = ch.file /\ q.dirty = FALSE
        /\ q.mustflush = FALSE /\ q.fptr = 0 /\ q.position = 2 /\ Loaded(q) /\ q.lastused >= 2
    BY <1>4, <1>8 DEF Refilled
  <2>2. ReadOpen(q) /\ q.read = TRUE
    BY <1>4, <2>1 DEF ReadOpen, Open, ReadShape, Same
  <2>3. Mode' = "read" /\ hostContent' = ch.file /\ hostNext' = 1
    BY <1>1, <1>2, <2>1, <2>2, ViewRead, HostVars
  <2>4. Mode = "closed" /\ hostContent = ch.file
    BY <1>1, ViewClosed, HostVars
  <2>5. FileInv'
    BY <1>1, <1>2, <2>1, <2>2, ChannelCases, InvAfter
  <2>6. Host!Open("read", 1, hostContent)
    BY <1>2, <2>3, <2>4 DEF Host!Open, hostContent, hostNext
  <2> QED  BY <2>5, <2>6 DEF HostStep, Host!Next, hostContent
<1> QED  BY <1>6, <1>7, <1>8

\* fat_open_write, for a new file or to append
LEMMA OpenedToWrite ==
  ASSUME NEW f \in Seq(Cell), Len(f) <= Cap
  PROVE  /\ WriteOpen(fat_open_write(f)) /\ fat_open_write(f).dirty = FALSE
         /\ fat_open_write(f).file = f /\ fat_open_write(f).fptr = Len(f)
<1> DEFINE q == fat_open_write(f)
           d == [[i \in Area |-> Junk] EXCEPT ![2] = CR]
           r == Pristine(f)
<1>1. Len(f) \in Nat /\ 2 \in Area
  BY LenProperties, Sizes
<1>2. d \in [Area -> Cell]
  BY <1>1, Sizes
<1>3. r \in Chan /\ r.data = [i \in Area |-> Junk] /\ r.file = f /\ r.size = Len(f)
      /\ r.recordlen = 0 /\ r.allocated = TRUE /\ r.read = FALSE /\ r.dirty = FALSE /\ r.mustflush = FALSE
  BY <1>1, Sizes DEF Pristine, Chan
<1>4. q = [r EXCEPT !.write = TRUE, !.position = 2, !.lastused = 2, !.data = d,
                    !.refill = "fat_file_write", !.fh = Len(f), !.fptr = Len(f)]
  BY <1>3 DEF fat_open_write
<1> HIDE DEF q, d, r
<1>5. /\ q \in Chan /\ q.file = f /\ q.size = Len(f) /\ q.recordlen = 0 /\ q.allocated = TRUE
      /\ q.read = FALSE /\ q.dirty = FALSE /\ q.mustflush = FALSE /\ q.write = TRUE
      /\ q.position = 2 /\ q.lastused = 2 /\ q.refill = "fat_file_write"
      /\ q.fh = Len(f) /\ q.fptr = Len(f)
  <2>1. q \in Chan
    BY <1>1, <1>2, <1>3, <1>4, ZenonT(40) DEF Chan
  <2>2. /\ q.file = f /\ q.size = Len(f) /\ q.recordlen = 0 /\ q.allocated = TRUE
        /\ q.read = FALSE /\ q.dirty = FALSE /\ q.mustflush = FALSE
    BY <1>3, <1>4 DEF Chan
  <2>3. /\ q.write = TRUE /\ q.position = 2 /\ q.lastused = 2 /\ q.refill = "fat_file_write"
        /\ q.fh = Len(f) /\ q.fptr = Len(f)
    BY <1>3, <1>4 DEF Chan
  <2> QED  BY <2>1, <2>2, <2>3
<1>6. OnMedium(q) /\ WriteShape(q)
  BY <1>1, <1>5 DEF OnMedium, WriteShape
<1> QED  BY <1>5, <1>6 DEF WriteOpen, Open, q

\* What the host sees once the file is open for writing
LEMMA AfterOpenWrite ==
  ASSUME FileInv, ~ch.allocated, NEW f \in Seq(Cell), Len(f) <= Cap, ch' = fat_open_write(f),
         type' = "seq", UNCHANGED <<got, lost>>
  PROVE  FileInv' /\ Host!Open("write", Len(f) + 1, f)
<1>1. WriteOpen(ch') /\ ch'.dirty = FALSE /\ ch'.file = f /\ ch'.fptr = Len(f)
  BY OpenedToWrite
<1>2. lost = FALSE /\ got.byte \in Cell /\ Mode = "closed"
  BY ClosedFacts
<1>3. Mode' = "write" /\ hostContent' = Seen(ch') /\ hostNext' = Len(Full(ch')) + 1
  BY <1>1, ViewWrite, HostVars
<1>4. Seen(ch') = f /\ Full(ch') = f
  BY <1>1, FullClean DEF Seen
<1>5. ChannelOK(ch')
  BY <1>1, ChannelCases
<1>6. FileInv'
  BY <1>2, <1>3, <1>5, InvAfter
<1>7. Mode' = "write" /\ hostContent' = f /\ hostNext' = Len(f) + 1
  BY <1>3, <1>4
<1>8. Host!Open("write", Len(f) + 1, f)
  BY <1>2, <1>7 DEF Host!Open, hostContent, hostNext
<1> QED  BY <1>6, <1>8

\* file_open for writing
LEMMA DoOpenWrite ==
  ASSUME FileInv, OpenWrite
  PROVE  FileInv' /\ HostStep
<1>1. <<>> \in Seq(Cell) /\ Len(<<>>) = 0 /\ 0 <= Cap
  BY Sizes
<1>2. FileInv' /\ Host!Open("write", Len(<<>>) + 1, <<>>)
  BY <1>1, AfterOpenWrite DEF OpenWrite
<1>3. Host!Open("write", 1, <<>>)
  BY <1>1, <1>2
<1> QED  BY <1>2, <1>3 DEF HostStep, Host!Next

\* file_open to append
LEMMA DoOpenAppend ==
  ASSUME FileInv, OpenAppend
  PROVE  FileInv' /\ HostStep
<1>1. ch.file \in Seq(Cell) /\ Len(ch.file) <= Cap /\ hostContent = ch.file
  BY ClosedFacts DEF OpenAppend
<1>2. FileInv' /\ Host!Open("write", Len(ch.file) + 1, ch.file)
  BY <1>1, AfterOpenWrite DEF OpenAppend
<1>3. Host!Open("write", Len(hostContent) + 1, hostContent)
  BY <1>1, <1>2
<1> QED  BY <1>2, <1>3 DEF HostStep, Host!Next, hostContent

\* fat_open_rel
LEMMA DoOpenRel ==
  ASSUME FileInv, NEW length \in Lengths \cup {0}, NEW fault, OpenRel(length, fault)
  PROVE  FileInv' /\ HostStep
<1> DEFINE n == IF length = 0 THEN header' ELSE length
           c == [Pristine(ch.file) EXCEPT !.recordlen = n, !.read = TRUE, !.write = TRUE,
                                          !.refill = "fat_file_sync"]
           q == fat_file_read(c, fault)
<1>1. /\ ch.allocated = FALSE /\ ch = Closed(ch.file) /\ ch.file \in Seq(Cell) /\ Len(ch.file) \in Nat
      /\ Len(ch.file) <= Cap /\ lost = FALSE /\ got.byte \in Cell
      /\ type \in {"none", "seq", "rel"} /\ (type = "rel" => header \in Lengths) /\ Mode = "closed"
  BY ClosedFacts DEF OpenRel
<1>2. ch' = q /\ got' = got /\ lost' = lost
  BY DEF OpenRel, fat_open_rel
<1>3. type' = "rel" /\ header' \in Lengths /\ n \in Lengths
  BY <1>1 DEF OpenRel
<1>4. n \in 0 .. Payload /\ n # 0
  BY <1>3, FatFileAssumption, Sizes
<1> HIDE DEF n
<1>5. Pristine(ch.file) \in Chan
  BY <1>1, Sizes DEF Pristine, Chan
<1>6. /\ c \in Chan /\ c.file = ch.file /\ c.size = Len(ch.file) /\ c.fh = 0 /\ c.allocated = TRUE
      /\ c.recordlen = n /\ c.refill = "fat_file_sync" /\ c.read = TRUE /\ c.write = TRUE
  BY <1>4, <1>5 DEF Pristine, Chan
<1>7. OnMedium(c)
  BY <1>1, <1>6 DEF OnMedium
<1> HIDE DEF c
<1>8. q = Abort(c) \/ Refilled(c, q)
  BY <1>6, <1>7, ReadEffect
<1> HIDE DEF q
<1>9. CASE q = Abort(c)
  <2>1. ch' = ch
    BY <1>1, <1>2, <1>6, <1>7, <1>9, AbortOK, ZenonT(40)
  <2>2. Mode' = "closed"
    BY <1>1, <2>1, ViewClosed, HostVars
  <2>3. FileInv'
    BY <1>1, <1>2, <1>3, <2>1, <2>2, InvAfter DEF FileInv
  <2>4. UNCHANGED <<hostContent, Mode, hostNext, got>>
    BY <1>2, <2>1, HostVars
  <2>5. UNCHANGED Host!vars
    BY <2>4 DEF Host!vars, hostContent, hostNext
  <2> QED  BY <2>3, <2>5 DEF HostStep
<1>10. CASE Refilled(c, q)
  <2>1. q \in Chan /\ OnMedium(q) /\ Same(c, q)
    BY <1>10 DEF Refilled
  <2>2. RelOpen(q)
    BY <1>4, <1>6, <2>1 DEF RelOpen, Open, RelShape, Same
  <2>3. Mode' = "rel"
    BY <1>2, <2>2, ViewRel, HostVars
  <2>4. FileInv'
    BY <1>1, <1>2, <1>3, <2>2, <2>3, ChannelCases, InvAfter
  <2>5. Host!OpenRel
    BY <1>1, <2>3 DEF Host!OpenRel
  <2> QED  BY <2>4, <2>5 DEF HostStep, Host!Next
<1> QED  BY <1>8, <1>9, <1>10

\* The file is deleted.
LEMMA DoScratch ==
  ASSUME FileInv, Scratch
  PROVE  FileInv' /\ HostStep
<1>1. lost = FALSE /\ got.byte \in Cell /\ Mode = "closed" /\ hostNext = 0
  BY ClosedFacts DEF Scratch
<1>2. ch' = Closed(<<>>) /\ type' = "none" /\ got' = got /\ lost' = lost
  BY DEF Scratch
<1>3. <<>> \in Seq(Cell) /\ Len(<<>>) <= Cap
  BY Sizes
<1>4. ch'.file = <<>> /\ ch'.allocated = FALSE /\ ChannelOK(ch')
  BY <1>2, <1>3, ShutFile
<1>5. Mode' = "closed" /\ hostContent' = <<>> /\ hostNext' = 0
  BY <1>4, ViewClosed, HostVars
<1>6. FileInv'
  BY <1>1, <1>2, <1>4, <1>5, InvAfter
<1>7. Host!Scratch
  BY <1>1, <1>2, <1>5 DEF Host!Scratch, hostContent, hostNext
<1> QED  BY <1>6, <1>7 DEF HostStep, Host!Next

\* What CbmFile pads the file with is what fat_file_write fills the gap with.
LEMMA PaddedIs ==
  ASSUME WriteOpen(ch)
  PROVE  /\ Mode = "write" /\ hostContent = Seen(ch) /\ hostNext = Len(Full(ch)) + 1
         /\ Host!Padded = Full(ch)
<1>1. /\ ModeOf(ch, lost) = "write" /\ ContentOf(ch, lost) = Seen(ch)
      /\ NextOf(ch, lost) = Len(Full(ch)) + 1
      /\ Seen(ch) \o [i \in 1 .. NextOf(ch, lost) - 1 - Len(Seen(ch)) |-> 0] = Full(ch)
  BY ViewWrite
<1>2. hostContent \o [i \in 1 .. hostNext - 1 - Len(hostContent) |-> 0] = Full(ch)
  BY <1>1, HostVars
<1>3. Host!Padded = Full(ch)
  BY <1>2 DEF Host!Padded, hostContent, hostNext
<1> QED  BY <1>1, <1>3, HostVars

\* A failure while writing
LEMMA FailWrite ==
  ASSUME WriteOpen(ch), ShutPart(ch', Full(ch))
  PROVE  Host!Fail /\ ChannelOK(ch') /\ ch'.allocated = FALSE /\ Mode' = "closed"
<1>1. PICK f \in Seq(Cell) : Len(f) <= Cap /\ ch' = Closed(f) /\ Salvaged(f, Full(ch))
  BY DEF ShutPart
<1>2. ch'.file = f /\ ch'.allocated = FALSE /\ ChannelOK(ch')
  BY <1>1, ShutFile
<1>3. Mode' = "closed" /\ hostContent' = f /\ hostNext' = 0
  BY <1>2, ViewClosed, HostVars
<1>4. Mode = "write" /\ Host!Padded = Full(ch)
  BY PaddedIs
<1>5. Len(hostContent') <= Len(Host!Padded) /\ \A i \in 1 .. Len(hostContent') : hostContent'[i] \in {Host!Padded[i], Junk}
  BY <1>1, <1>3, <1>4 DEF Salvaged
<1>6. Host!Fail
  BY <1>3, <1>4, <1>5 DEF Host!Fail, hostContent, hostNext
<1> QED  BY <1>2, <1>3, <1>6

\* A failure while reading
LEMMA FailRead ==
  ASSUME ReadOpen(ch), ch' = Closed(ch.file)
  PROVE  /\ Host!Fail /\ ChannelOK(ch') /\ ch'.allocated = FALSE /\ Mode' = "closed"
         /\ Mode \in {"done", "lost", "read"} /\ hostContent' = hostContent /\ hostNext' = 0
<1>1. ch.file \in Seq(Cell) /\ Len(ch.file) <= Cap
  BY DEF ReadOpen, Open, Chan, OnMedium
<1>2. ch'.file = ch.file /\ ch'.allocated = FALSE /\ ChannelOK(ch')
  BY <1>1, ShutFile
<1>3. Mode' = "closed" /\ hostContent' = ch.file /\ hostNext' = 0
  BY <1>2, ViewClosed, HostVars
<1>4. Mode \in {"done", "lost", "read"} /\ hostContent = ch.file
  BY ViewRead, HostVars
<1>5. Host!Fail
  BY <1>3, <1>4 DEF Host!Fail, hostContent, hostNext
<1> QED  BY <1>2, <1>3, <1>4, <1>5

\* Any step on a relative file
LEMMA StepRel ==
  ASSUME RelOpen(ch), RelStep(ch, ch')
  PROVE  /\ Host!Rel /\ ChannelOK(ch') /\ Mode' \in {"rel", "closed"}
         /\ Mode' = "closed" \/ ch'.allocated = TRUE
<1>1. Mode = "rel"
  BY ViewRel, HostVars
<1>2. CASE Shut(ch')
  <2>1. ch'.allocated = FALSE /\ ChannelOK(ch')
    BY <1>2, ShutFree
  <2>2. Mode' = "closed"
    BY <2>1, ViewClosed, HostVars
  <2> QED  BY <1>1, <2>1, <2>2 DEF Host!Rel
<1>3. CASE RelOpen(ch')
  <2>1. Mode' = "rel"
    BY <1>3, ViewRel, HostVars
  <2>2. ChannelOK(ch') /\ ch'.allocated = TRUE
    BY <1>3, ChannelCases DEF RelOpen, Open
  <2> QED  BY <1>1, <2>1, <2>2 DEF Host!Rel
<1> QED  BY <1>2, <1>3 DEF RelStep

\* The channel when it is open, and the rest of the invariant
LEMMA OpenFacts ==
  ASSUME FileInv, ch.allocated
  PROVE  /\ ReadOpen(ch) \/ WriteOpen(ch) \/ RelOpen(ch)
         /\ ch \in Chan /\ OnMedium(ch) /\ ch.allocated = TRUE
         /\ type \in {"none", "seq", "rel"} /\ (type = "rel" => header \in Lengths)
         /\ lost \in BOOLEAN /\ (Mode = "read" => Loaded(ch))
<1>1. ChannelOK(ch)
  BY DEF FileInv
<1>2. ReadOpen(ch) \/ WriteOpen(ch) \/ RelOpen(ch)
  BY <1>1, ChannelCases
<1>3. ch \in Chan /\ OnMedium(ch) /\ ch.allocated = TRUE
  BY <1>2 DEF ReadOpen, WriteOpen, RelOpen, Open
<1> QED  BY <1>2, <1>3 DEF FileInv

\* fat_file_close
LEMMA DoClose ==
  ASSUME FileInv, NEW fault, Close(fault)
  PROVE  FileInv' /\ HostStep
<1> DEFINE w == IF ch.write THEN refill(ch, fault) ELSE ch
<1>1. /\ ch.allocated /\ ch' = fat_file_close(ch, fault) /\ got' = Nothing /\ lost' = FALSE
      /\ type' = type /\ header' = header
  BY DEF Close
<1>2. /\ ReadOpen(ch) \/ WriteOpen(ch) \/ RelOpen(ch)
      /\ type \in {"none", "seq", "rel"} /\ (type = "rel" => header \in Lengths)
  BY <1>1, OpenFacts
<1>3. got'.byte \in Cell /\ got' = Host!Nothing
  BY <1>1, Sizes DEF Nothing, Host!Nothing
<1>4. ch' = IF ~w.allocated THEN w ELSE IF fault = "close" THEN Abort(w) ELSE f_close(w)
  BY <1>1 DEF fat_file_close
<1>5. ASSUME ChannelOK(ch'), Mode' # "read" PROVE FileInv'
  BY <1>1, <1>2, <1>3, <1>5, InvAfter
<1>6. CASE ReadOpen(ch)
  <2>1. w = ch /\ ch.allocated = TRUE /\ ch.size = Len(ch.file) /\ ch \in Chan /\ OnMedium(ch)
    BY <1>6 DEF ReadOpen, Open, ReadShape
  <2> HIDE DEF w
  <2>2. ch' = Closed(ch.file)
    BY <1>4, <2>1, AbortOK DEF f_close
  <2>3. /\ ChannelOK(ch') /\ Mode' = "closed" /\ Mode \in {"done", "lost", "read"}
        /\ hostContent' = hostContent /\ hostNext' = 0
    BY <1>6, <2>2, FailRead
  <2>4. Host!Close
    BY <1>3, <2>3 DEF Host!Close, hostContent, hostNext
  <2> QED  BY <1>5, <2>3, <2>4 DEF HostStep, Host!Next
<1>7. CASE WriteOpen(ch)
  <2>1. w = fat_file_write(ch, fault)
    BY <1>7 DEF WriteOpen, WriteShape, refill
  <2>2. Emptied(ch, w)
    BY <1>7, <2>1, WriteOpenFlush
  <2> HIDE DEF w
  <2>3. CASE ShutPart(w, Full(ch))
    <3>1. w.allocated = FALSE
      BY <2>3, ShutFile DEF ShutPart
    <3>2. ShutPart(ch', Full(ch))
      BY <1>4, <2>3, <3>1
    <3> QED  BY <1>5, <1>7, <3>2, FailWrite DEF HostStep, Host!Next
  <2>4. CASE WriteOpen(w) /\ w.file = Full(ch)
    <3>1. /\ w.allocated = TRUE /\ w \in Chan /\ OnMedium(w) /\ w.file \in Seq(Cell)
          /\ w.size \in Nat /\ w.size <= Len(w.file) /\ Len(w.file) <= Cap /\ Len(w.file) \in Nat
      BY <2>4, WriteOpenFacts
    <3>2. CASE fault = "close"
      <4> DEFINE f == SubSeq(w.file, 1, w.size)
      <4>1. /\ Abort(w) = Closed(f) /\ f \in Seq(Cell) /\ Len(f) = w.size
            /\ \A i \in 1 .. w.size : f[i] = w.file[i]
        BY <3>1, AbortOK
      <4> HIDE DEF f
      <4>2. Salvaged(f, Full(ch)) /\ Len(f) <= Cap
        BY <2>4, <3>1, <4>1, Sizes DEF Salvaged
      <4>3. ShutPart(ch', Full(ch))
        BY <1>4, <3>1, <3>2, <4>1, <4>2 DEF ShutPart
      <4> QED  BY <1>5, <1>7, <4>3, FailWrite DEF HostStep, Host!Next
    <3>3. CASE fault # "close"
      <4>1. ch' = Closed(Full(ch)) /\ Full(ch) \in Seq(Cell) /\ Len(Full(ch)) <= Cap
        BY <1>4, <2>4, <3>1, <3>3 DEF f_close
      <4>2. ch'.file = Full(ch) /\ ch'.allocated = FALSE /\ ChannelOK(ch')
        BY <4>1, ShutFile
      <4>3. Mode' = "closed" /\ hostContent' = Full(ch) /\ hostNext' = 0
        BY <4>2, ViewClosed, HostVars
      <4>4. Mode = "write" /\ Host!Padded = Full(ch)
        BY <1>7, PaddedIs
      <4>5. Host!Close
        BY <1>3, <4>3, <4>4 DEF Host!Close, hostContent, hostNext
      <4> QED  BY <1>5, <4>2, <4>3, <4>5 DEF HostStep, Host!Next
    <3> QED  BY <3>2, <3>3
  <2> QED  BY <2>2, <2>3, <2>4 DEF Emptied
<1>8. CASE RelOpen(ch)
  <2>1. w = refill(ch, fault)
    BY <1>8 DEF RelOpen, RelShape
  <2>2. RelStep(ch, w)
    BY <1>8, <2>1, RefillRel
  <2> HIDE DEF w
  <2>3. Shut(ch')
    <3>1. CASE Shut(w)
      BY <1>4, <3>1, ShutFree
    <3>2. CASE RelOpen(w)
      <4>1. /\ w.allocated = TRUE /\ w \in Chan /\ OnMedium(w) /\ w.file \in Seq(Cell)
            /\ w.size \in Nat /\ w.size <= Len(w.file) /\ Len(w.file) <= Cap /\ Len(w.file) \in Nat
        BY <3>2, LenProperties DEF RelOpen, Open, Chan, OnMedium
      <4>2. /\ Abort(w) = Closed(SubSeq(w.file, 1, w.size)) /\ SubSeq(w.file, 1, w.size) \in Seq(Cell)
            /\ Len(SubSeq(w.file, 1, w.size)) = w.size
        BY <4>1, AbortOK
      <4>3. w.size <= Cap
        BY <4>1, Sizes
      <4> QED  BY <1>4, <4>1, <4>2, <4>3 DEF Shut, f_close
    <3> QED  BY <2>2, <3>1, <3>2 DEF RelStep
  <2>4. RelStep(ch, ch')
    BY <2>3 DEF RelStep
  <2> QED  BY <1>5, <1>8, <2>4, StepRel DEF HostStep, Host!Next
<1> QED  BY <1>2, <1>6, <1>7, <1>8

\* A byte from the host
LEMMA DoListen ==
  ASSUME FileInv, NEW b \in Chars, NEW eoi, NEW fault, Listen(b, eoi, fault)
  PROVE  FileInv' /\ HostStep
<1> DEFINE f == IF ch.mustflush THEN refill(ch, fault) ELSE ch
           s == Store(f, b)
<1>1. /\ ch.allocated /\ ch.write /\ got' = Nothing /\ lost' = FALSE /\ type' = type /\ header' = header
      /\ ch' = IF ~f.allocated THEN f ELSE IF Rel /\ eoi THEN refill(s, fault) ELSE s
  BY DEF Listen
<1>2. /\ ReadOpen(ch) \/ WriteOpen(ch) \/ RelOpen(ch)
      /\ type \in {"none", "seq", "rel"} /\ (type = "rel" => header \in Lengths)
  BY <1>1, OpenFacts
<1>3. got'.byte \in Cell /\ got' = Host!Nothing
  BY <1>1, Sizes DEF Nothing, Host!Nothing
<1>4. ASSUME ChannelOK(ch'), Mode' # "read" PROVE FileInv'
  BY <1>1, <1>2, <1>3, <1>4, InvAfter
<1>5. b \in Byte
  BY FatFileAssumption DEF Byte
<1>6. CASE ReadOpen(ch)
  BY <1>1, <1>6 DEF ReadOpen, ReadShape
<1>7. CASE WriteOpen(ch)
  <2>1. ch.recordlen = 0 /\ ch.refill = "fat_file_write" /\ ch.mustflush \in BOOLEAN /\ ch.allocated = TRUE
        /\ ~Rel
    BY <1>7, WriteOpenFacts DEF Rel
  <2>2. ch.mustflush = TRUE => f = fat_file_write(ch, fault)
    BY <2>1 DEF refill
  <2>3. ch.mustflush = TRUE => Emptied(ch, f)
    BY <1>7, <2>2, WriteOpenFlush
  <2>4. ch.mustflush = FALSE => f = ch
    OBVIOUS
  <2>5. ch' = IF ~f.allocated THEN f ELSE s
    BY <1>1, <2>1
  <2> HIDE DEF f
  <2>6. CASE ShutPart(f, Full(ch))
    <3>1. f.allocated = FALSE
      BY <2>6, ShutFile DEF ShutPart
    <3>2. ShutPart(ch', Full(ch))
      BY <2>5, <2>6, <3>1
    <3> QED  BY <1>4, <1>7, <3>2, FailWrite DEF HostStep, Host!Next
  <2>7. CASE WriteOpen(f) /\ f.mustflush = FALSE /\ Full(f) = Full(ch)
    <3>1. f.allocated = TRUE
      BY <2>7, WriteOpenFacts
    <3>2. ch' = s
      BY <2>5, <3>1
    <3>3. Stored(f, b, s)
      BY <1>5, <2>7, StoreWrite
    <3> HIDE DEF s
    <3>4. WriteOpen(ch') /\ ch'.dirty = TRUE /\ Full(ch') = Append(Full(ch), b)
      BY <2>7, <3>2, <3>3 DEF Stored
    <3>5. Mode' = "write" /\ hostContent' = Full(ch') /\ hostNext' = Len(Full(ch')) + 1
      BY <3>4, ViewWrite, HostVars DEF Seen
    <3>6. Full(ch) \in Seq(Cell) /\ b \in Cell /\ Len(Full(ch)) \in Nat
      BY <1>5, <1>7, WriteOpenFacts DEF Cell
    <3>7. Len(Full(ch')) = Len(Full(ch)) + 1
      BY <3>4, <3>6, AppendProperties
    <3>8. Mode = "write" /\ hostNext = Len(Full(ch)) + 1 /\ Host!Padded = Full(ch)
      BY <1>7, PaddedIs
    <3>9. hostNext' = hostNext + 1 /\ hostContent' = Append(Host!Padded, b)
      BY <3>4, <3>5, <3>6, <3>7, <3>8
    <3>10. Host!Put(b)
      BY <1>3, <3>5, <3>8, <3>9 DEF Host!Put, hostContent, hostNext
    <3>11. ChannelOK(ch')
      BY <3>4, ChannelCases
    <3> QED  BY <1>4, <3>5, <3>10, <3>11 DEF HostStep, Host!Next
  <2>8. CASE ch.mustflush = FALSE
    BY <1>7, <2>4, <2>7, <2>8
  <2>9. CASE ch.mustflush = TRUE
    <3>1. CASE WriteOpen(f) /\ f.dirty = FALSE /\ f.mustflush = FALSE /\ f.file = Full(ch) /\ f.fptr = Len(f.file)
      <4>1. Full(f) = Full(ch)
        BY <3>1, FullClean
      <4> QED  BY <2>7, <3>1, <4>1
    <3> QED  BY <2>3, <2>6, <2>9, <3>1 DEF Emptied
  <2> QED  BY <2>1, <2>8, <2>9
<1>8. CASE RelOpen(ch)
  <2>1. RelStep(ch, f)
    <3>1. CASE ch.mustflush
      BY <1>8, <3>1, RefillRel
    <3>2. CASE ~ch.mustflush
      BY <1>8, <3>2 DEF RelStep
    <3> QED  BY <3>1, <3>2
  <2> HIDE DEF f
  <2>2. RelStep(ch, ch')
    <3>1. CASE Shut(f)
      <4>1. ch' = f
        BY <1>1, <3>1, ShutFree
      <4> QED  BY <3>1, <4>1 DEF RelStep
    <3>2. CASE RelOpen(f) /\ f.recordlen = ch.recordlen
      <4>1. f.allocated = TRUE
        BY <3>2 DEF RelOpen, Open
      <4>2. RelOpen(s) /\ s.recordlen = ch.recordlen
        BY <1>5, <3>2, StoreRel
      <4> HIDE DEF s
      <4>3. RelStep(s, refill(s, fault))
        BY <4>2, RefillRel
      <4>4. ch' = s \/ ch' = refill(s, fault)
        BY <1>1, <4>1
      <4> QED  BY <4>2, <4>3, <4>4 DEF RelStep
    <3> QED  BY <2>1, <3>1, <3>2 DEF RelStep
  <2>3. Host!Rel /\ ChannelOK(ch') /\ Mode' \in {"rel", "closed"}
    BY <1>8, <2>2, StepRel
  <2> QED  BY <1>4, <2>3 DEF HostStep, Host!Next
<1> QED  BY <1>2, <1>6, <1>7, <1>8

\* P on a relative file
LEMMA DoPositionRel ==
  ASSUME FileInv, NEW record \in Offsets, NEW pos \in 0 .. Payload, NEW fault,
         PositionRel(record, pos, fault)
  PROVE  FileInv' /\ HostStep
<1> DEFINE r == IF record = 0 THEN 0 ELSE record - 1
           i == IF pos = 0 THEN 0 ELSE pos - 1
           at == r * ch.recordlen
<1>1. /\ ch.allocated /\ Rel /\ ch' = fat_file_seek(ch, at, i, fault) /\ got' = Nothing
      /\ After(ch') /\ type' = type /\ header' = header
  BY DEF PositionRel
<1>2. /\ ReadOpen(ch) \/ WriteOpen(ch) \/ RelOpen(ch)
      /\ type \in {"none", "seq", "rel"} /\ (type = "rel" => header \in Lengths) /\ lost \in BOOLEAN
  BY <1>1, OpenFacts
<1>3. RelOpen(ch)
  BY <1>1, <1>2 DEF Rel, ReadOpen, WriteOpen
<1>4. r \in Nat /\ i \in Nat
  BY FatFileAssumption, Sizes
<1>5. at \in Nat
  <2>1. ch.recordlen \in Nat
    BY <1>3, Sizes DEF RelOpen, Open, Chan
  <2> HIDE DEF r
  <2> QED  BY <1>4, <2>1
<1> HIDE DEF r, i, at
<1>6. RelStep(ch, ch')
  BY <1>1, <1>3, <1>4, <1>5, SeekRel
<1>7. /\ Host!Rel /\ ChannelOK(ch') /\ Mode' \in {"rel", "closed"}
      /\ Mode' = "closed" \/ ch'.allocated = TRUE
  BY <1>3, <1>6, StepRel
<1>8. got'.byte \in Cell
  BY <1>1, Sizes DEF Nothing
<1>9. lost' \in BOOLEAN /\ (lost' => ch'.allocated)
  BY <1>1, <1>2 DEF After
<1>10. FileInv'
  BY <1>1, <1>2, <1>7, <1>8, <1>9, InvAfter
<1> QED  BY <1>7, <1>10 DEF HostStep, Host!Next

\* P on a sequential file
LEMMA DoPositionFile ==
  ASSUME FileInv, NEW offset \in Offsets, NEW fault, PositionFile(offset, fault)
  PROVE  FileInv' /\ HostStep
<1>1. /\ ch.allocated /\ ~Rel /\ ch' = fat_file_seek(ch, offset, 0, fault) /\ got' = Nothing
      /\ lost' = (ch'.allocated /\ ch.read /\ offset > Len(ch.file))
      /\ type' = type /\ header' = header /\ offset \in Nat
  BY FatFileAssumption DEF PositionFile
<1>2. /\ ReadOpen(ch) \/ WriteOpen(ch)
      /\ type \in {"none", "seq", "rel"} /\ (type = "rel" => header \in Lengths)
  BY <1>1, OpenFacts DEF Rel, RelOpen
<1>3. got'.byte \in Cell /\ got' = Host!Nothing
  BY <1>1, Sizes DEF Nothing, Host!Nothing
<1>4. lost' \in BOOLEAN /\ (lost' => ch'.allocated)
  BY <1>1
<1>5. ASSUME ChannelOK(ch'), Mode' = "read" => Loaded(ch') PROVE FileInv'
  BY <1>1, <1>2, <1>3, <1>4, <1>5, InvAfter
<1>6. CASE WriteOpen(ch)
  <2>1. JumpedFrom(ch, offset, ch')
    BY <1>1, <1>6, SeekWrite
  <2>2. CASE ShutPart(ch', Full(ch))
    BY <1>5, <1>6, <2>2, FailWrite DEF HostStep, Host!Next
  <2>3. CASE WriteOpen(ch') /\ ch'.dirty = FALSE /\ ch'.fptr = offset /\ offset > Len(ch'.file) /\ ch'.file = Seen(ch)
    <3>1. Mode' = "write" /\ hostContent' = Seen(ch') /\ hostNext' = Len(Full(ch')) + 1
      BY <2>3, ViewWrite, HostVars
    <3>2. Seen(ch') = Seen(ch) /\ Len(Full(ch')) = offset
      BY <2>3, FullClean DEF Seen
    <3>3. Mode = "write" /\ hostContent = Seen(ch)
      BY <1>6, PaddedIs
    <3>4. /\ Mode = "write" /\ offset > Len(hostContent) /\ hostNext' = offset + 1
          /\ hostContent' = hostContent /\ Mode' = Mode
      BY <2>3, <3>1, <3>2, <3>3
    <3>5. Host!Seek(offset)
      BY <1>3, <3>4 DEF Host!Seek, hostContent, hostNext
    <3>6. ChannelOK(ch')
      BY <2>3, ChannelCases
    <3> QED  BY <1>5, <3>1, <3>5, <3>6 DEF HostStep, Host!Next
  <2> QED  BY <2>1, <2>2, <2>3 DEF JumpedFrom
<1>7. CASE ReadOpen(ch)
  <2>1. Moved(ch, offset, ch')
    BY <1>1, <1>7, SeekRead
  <2>2. CASE ch' = Closed(ch.file)
    BY <1>5, <1>7, <2>2, FailRead DEF HostStep, Host!Next
  <2>3. CASE /\ ReadOpen(ch') /\ ch'.read = ch.read /\ ch'.file = ch.file
             /\ offset <= Len(ch.file) => Loaded(ch') /\ ch'.fptr = offset /\ ch'.position = 2
    <3>1. ch'.allocated = TRUE /\ ch.read \in BOOLEAN /\ Len(ch.file) \in Nat
      BY <1>7, <2>3, LenProperties DEF ReadOpen, Open, Chan
    <3>2. ChannelOK(ch')
      BY <2>3, ChannelCases
    <3>3. hostContent' = hostContent /\ hostContent = ch.file
      BY <1>7, <2>3, ViewRead, HostVars
    <3>4. CASE ch.read = FALSE
      <4>1. Mode = "done" /\ hostNext = 0 /\ Mode' = "done" /\ hostNext' = 0
        BY <1>7, <2>3, <3>4, ViewRead, HostVars
      <4>2. Host!Seek(offset)
        BY <1>3, <3>3, <4>1 DEF Host!Seek, hostContent, hostNext
      <4> QED  BY <1>5, <3>2, <4>1, <4>2 DEF HostStep, Host!Next
    <3>5. CASE ch.read = TRUE /\ offset <= Len(ch.file)
      <4>6. ~(offset > Len(ch.file))
        BY <1>1, <3>1, <3>5
      <4>1. lost' = FALSE
        BY <1>1, <4>6
      <4>2. Mode \in {"read", "lost"}
        BY <1>7, <3>5, ViewRead, HostVars
      <4>3. Mode' = "read" /\ hostNext' = ch'.fptr + ch'.position - 1
        BY <2>3, <3>5, <4>1, ViewRead, HostVars
      <4>4. hostNext' = offset + 1
        BY <1>1, <2>3, <3>5, <4>3
      <4>5. Host!Seek(offset)
        BY <1>3, <3>3, <3>5, <4>2, <4>3, <4>4 DEF Host!Seek, hostContent, hostNext
      <4> QED  BY <1>5, <2>3, <3>2, <3>5, <4>5 DEF HostStep, Host!Next
    <3>6. CASE ch.read = TRUE /\ offset > Len(ch.file)
      <4>1. lost' = TRUE
        BY <1>1, <3>1, <3>6
      <4>2. Mode \in {"read", "lost"}
        BY <1>7, <3>6, ViewRead, HostVars
      <4>3. Mode' = "lost" /\ hostNext' = 0
        BY <2>3, <3>6, <4>1, ViewRead, HostVars
      <4>6. ~(offset <= Len(ch.file))
        BY <1>1, <3>1, <3>6
      <4>5. Host!Seek(offset)
        BY <1>3, <3>3, <4>2, <4>3, <4>6 DEF Host!Seek, hostContent, hostNext
      <4> QED  BY <1>5, <3>2, <4>3, <4>5 DEF HostStep, Host!Next
    <3>7. offset <= Len(ch.file) \/ offset > Len(ch.file)
      BY <1>1, <3>1
    <3> QED  BY <3>1, <3>4, <3>5, <3>6, <3>7
  <2> QED  BY <2>1, <2>2, <2>3 DEF Moved
<1> QED  BY <1>2, <1>6, <1>7

\* The channel after one byte, with the pointer one further
Stepped(c) == [c EXCEPT !.position = (@ + 1) % W]

\* Moving the pointer changes nothing else.
LEMMA SteppedFacts ==
  ASSUME NEW c \in Chan
  PROVE  /\ Stepped(c) \in Chan /\ Same(c, Stepped(c)) /\ Stepped(c).file = c.file
         /\ Stepped(c).fh = c.fh /\ Stepped(c).fptr = c.fptr /\ Stepped(c).dirty = c.dirty
         /\ Stepped(c).mustflush = c.mustflush /\ Stepped(c).lastused = c.lastused
         /\ Stepped(c).data = c.data /\ Stepped(c).sendeoi = c.sendeoi
         /\ Stepped(c).position = (c.position + 1) % W
<1>1. (c.position + 1) % W \in Area
  BY Sizes DEF Chan
<1> QED  BY <1>1 DEF Stepped, Chan, Same

\* The same for a channel for reading
LEMMA SteppedRead ==
  ASSUME NEW c, ReadOpen(c)
  PROVE  /\ ReadOpen(Stepped(c)) /\ Stepped(c).read = c.read
         /\ ReadOpen([Stepped(c) EXCEPT !.read = FALSE])
         /\ [Stepped(c) EXCEPT !.read = FALSE].read = FALSE
         /\ [Stepped(c) EXCEPT !.read = FALSE].file = c.file
<1> DEFINE n == Stepped(c)
           q == [n EXCEPT !.read = FALSE]
<1>1. c \in Chan /\ OnMedium(c) /\ c.allocated = TRUE /\ c.recordlen = 0 /\ ReadShape(c)
  BY DEF ReadOpen, Open
<1>2. /\ n \in Chan /\ Same(c, n) /\ n.file = c.file /\ n.fh = c.fh /\ n.dirty = c.dirty
      /\ n.mustflush = c.mustflush /\ n.lastused = c.lastused
  BY <1>1, SteppedFacts
<1> HIDE DEF n
<1>3. ReadOpen(n)
  BY <1>1, <1>2 DEF ReadOpen, Open, ReadShape, OnMedium, Same
<1>4. /\ q \in Chan /\ q.read = FALSE /\ q.file = n.file /\ q.fh = n.fh /\ q.dirty = n.dirty
      /\ q.mustflush = n.mustflush /\ q.lastused = n.lastused /\ q.allocated = n.allocated
      /\ q.recordlen = n.recordlen /\ q.refill = n.refill /\ q.size = n.size /\ q.write = n.write
  BY <1>2 DEF Chan
<1> HIDE DEF q
<1>5. ReadOpen(q)
  BY <1>3, <1>4 DEF ReadOpen, Open, ReadShape, OnMedium
<1> QED  BY <1>2, <1>3, <1>4, <1>5 DEF n, q, Same

\* The next block of a file for reading
Advanced(c, q) ==
  \/ q = Closed(c.file)
  \/ /\ ReadOpen(q) /\ q.read = c.read /\ q.file = c.file
     /\ Loaded(q) /\ q.fptr = c.fh /\ q.position = 2

\* fat_file_read when the host has fetched the last byte of the buffer
LEMMA RefillRead ==
  ASSUME NEW c, ReadOpen(c), NEW fault
  PROVE  Advanced(c, refill(c, fault))
<1> DEFINE q == refill(c, fault)
<1>1. c \in Chan /\ OnMedium(c) /\ c.allocated = TRUE /\ c.recordlen = 0 /\ ReadShape(c)
  BY DEF ReadOpen, Open
<1>2. q = fat_file_read(c, fault)
  BY <1>1 DEF refill, ReadShape
<1>3. q = Abort(c) \/ Refilled(c, q)
  BY <1>1, <1>2, ReadEffect
<1> HIDE DEF q
<1>4. CASE q = Abort(c)
  <2>1. q = Closed(c.file)
    BY <1>1, <1>4, AbortOK DEF ReadShape
  <2> QED  BY <2>1 DEF Advanced, q
<1>5. CASE Refilled(c, q)
  BY <1>1, <1>5 DEF Refilled, Advanced, ReadOpen, Open, ReadShape, Same, q
<1> QED  BY <1>3, <1>4, <1>5

\* The byte of the buffer that the host fetches is the n-th of the file, and the
\* buffer knows whether there is another.
ByteRight(c, n) ==
  /\ n \in Nat /\ c.position \in Nat /\ c.lastused \in Nat /\ Len(c.file) \in Nat
  /\ c.position <= c.lastused /\ c.lastused <= W - 1 /\ c.fptr \in Nat
  /\ c.position < c.lastused =>
       n < Len(c.file) /\ c.data[c.position] = c.file[n] /\ n # Len(c.file)
  /\ c.position = c.lastused /\ c.sendeoi =>
       /\ ~(n < Len(c.file))
       /\ n <= Len(c.file) => n = Len(c.file) /\ c.data[c.position] = c.file[n]
       /\ ~(n <= Len(c.file)) => c.data[c.position] = CR
  /\ c.position = c.lastused /\ ~c.sendeoi =>
       n = c.fh /\ n < Len(c.file) /\ c.data[c.position] = c.file[n] /\ n # Len(c.file)

\* What the host fetches from a loaded buffer
LEMMA LoadedByte ==
  ASSUME NEW c, ReadOpen(c), Loaded(c)
  PROVE  ByteRight(c, c.fptr + c.position - 1)
<1> DEFINE n == c.fptr + c.position - 1
<1>1. /\ c \in Chan /\ OnMedium(c) /\ c.fptr \in Nat /\ c.fh \in Nat /\ Len(c.file) \in Nat
      /\ c.lastused \in Area /\ c.position \in Area
  BY LenProperties DEF ReadOpen, Open, Chan
<1> DEFINE p == c.position
           u == c.lastused
           l == Len(c.file)
<1>2. /\ c.fptr <= c.fh /\ u = (IF c.fh = c.fptr THEN 2 ELSE c.fh - c.fptr + 1) /\ p \in 2 .. u
      /\ (c.sendeoi <=> c.fh = l) /\ (c.fh = c.fptr => c.fh = l /\ c.data[2] = CR)
      /\ \A i \in 2 .. c.fh - c.fptr + 1 : c.data[i] = c.file[c.fptr + i - 1]
  BY DEF Loaded
<1>3. c.fh <= l
  BY <1>1 DEF OnMedium
<1>4. p \in Nat /\ u \in Nat /\ u <= W - 1 /\ p >= 2 /\ p <= u
  BY <1>1, <1>2, Sizes
<1>5. n = c.fptr + p - 1 /\ n \in Nat
  BY <1>1, <1>4
<1> HIDE DEF p, u, l, n
<1>6. c.fh # c.fptr => c.data[p] = c.file[n] /\ n <= c.fh
  <2> SUFFICES ASSUME c.fh # c.fptr PROVE c.data[p] = c.file[n] /\ n <= c.fh
    OBVIOUS
  <2>1. p \in 2 .. c.fh - c.fptr + 1
    BY <1>1, <1>2, <1>4
  <2>2. n <= c.fh
    BY <1>1, <1>5, <2>1
  <2> QED  BY <1>2, <1>5, <2>1, <2>2
<1>7. ASSUME p < u PROVE n < l /\ c.data[p] = c.file[n] /\ n # l
  <2>1. c.fh # c.fptr
    BY <1>2, <1>4, <1>7
  <2>2. u = c.fh - c.fptr + 1
    BY <1>2, <2>1
  <2>3. n < c.fh
    BY <1>1, <1>4, <1>5, <1>7, <2>2
  <2>4. n < l /\ n # l
    BY <1>1, <1>3, <1>5, <2>3 DEF l
  <2> QED  BY <1>6, <2>1, <2>4
<1>8. ASSUME p = u, c.fh # c.fptr PROVE n = c.fh /\ c.data[p] = c.file[n]
  BY <1>1, <1>2, <1>4, <1>5, <1>6, <1>8
<1>9. ASSUME p = u, c.sendeoi
      PROVE  /\ ~(n < l)
             /\ n <= l => n = l /\ c.data[p] = c.file[n]
             /\ ~(n <= l) => c.data[p] = CR
  <2>1. CASE c.fh # c.fptr
    <3>1. n = l /\ c.data[p] = c.file[n] /\ l \in Nat
      BY <1>1, <1>2, <1>8, <1>9, <2>1 DEF l
    <3> QED  BY <3>1
  <2>2. CASE c.fh = c.fptr
    <3>1. p = 2 /\ c.fptr = l /\ c.data[p] = CR
      BY <1>2, <1>9, <2>2
    <3>2. n = l + 1 /\ l \in Nat
      BY <1>1, <1>5, <3>1 DEF l
    <3> QED  BY <3>1, <3>2
  <2> QED  BY <2>1, <2>2
<1>10. ASSUME p = u, ~c.sendeoi PROVE n = c.fh /\ n < l /\ c.data[p] = c.file[n] /\ n # l
  <2>1. c.fh # l /\ c.fh # c.fptr
    BY <1>2, <1>10
  <2>2. c.fh < l
    BY <1>1, <1>3, <2>1 DEF l
  <2>3. n = c.fh /\ c.data[p] = c.file[n]
    BY <1>8, <1>10, <2>1
  <2> QED  BY <2>1, <2>2, <2>3
<1>11. ByteRight(c, n)
  BY <1>1, <1>4, <1>5, <1>7, <1>9, <1>10 DEF p, u, l, ByteRight
<1> QED  BY <1>11 DEF n

\* A byte to the host from a file that is open for reading
LEMMA TalkRead ==
  ASSUME FileInv, ReadOpen(ch), ch.read = TRUE, lost = FALSE, NEW fault, Talk(fault)
  PROVE  /\ ChannelOK(ch') /\ (Mode' = "read" => Loaded(ch'))
         /\ Host!Get \/ Host!Fail
<1> DEFINE n == ch.fptr + ch.position - 1
           p == ch.position
           u == ch.lastused
           l == Len(ch.file)
<1>1. /\ ch' = IF p < u THEN Stepped(ch)
               ELSE IF ch.sendeoi /\ ~Rel THEN [Stepped(ch) EXCEPT !.read = FALSE]
               ELSE refill(Stepped(ch), fault)
      /\ got' = [byte |-> ch.data[p], eoi |-> p = u /\ ch.sendeoi]
      /\ After(ch')
  BY DEF Talk, Stepped
<1>2. /\ Mode = "read" /\ hostContent = ch.file /\ hostNext = n
  BY ViewRead, HostVars
<1>3. Loaded(ch) /\ ~Rel /\ ch \in Chan /\ ch.allocated = TRUE /\ ch.sendeoi \in BOOLEAN
  BY <1>2 DEF FileInv, ReadOpen, Open, Rel, Chan
<1>4. ByteRight(ch, n)
  BY <1>3, LoadedByte
<1>5. n = ch.fptr + p - 1
  OBVIOUS
<1> HIDE DEF n, p, u, l
<1>6. n \in Nat /\ p \in Nat /\ u \in Nat /\ l \in Nat /\ p <= u /\ u <= W - 1 /\ ch.fptr \in Nat
  BY <1>4 DEF ByteRight, p, u, l
<1>7. CASE p < u
  <2>1. ch' = Stepped(ch)
    BY <1>1, <1>7
  <2>2. ReadOpen(ch') /\ ch'.read = TRUE
    BY <2>1, SteppedRead
  <2>3. /\ ch'.file = ch.file /\ ch'.fh = ch.fh /\ ch'.fptr = ch.fptr /\ ch'.lastused = ch.lastused
        /\ ch'.data = ch.data /\ ch'.sendeoi = ch.sendeoi /\ ch'.position = (p + 1) % W
        /\ ch'.allocated = TRUE
    BY <1>3, <2>1, SteppedFacts DEF p, Same
  <2>4. ch'.position = p + 1 /\ p + 1 \in 2 .. u
    <3>1. p + 1 \in 0 .. W - 1 /\ p >= 2
      BY <1>3, <1>6, <1>7, Sizes DEF Loaded, p
    <3>2. (p + 1) % W = p + 1
      BY <3>1, Sizes
    <3> QED  BY <1>6, <1>7, <2>3, <3>1, <3>2
  <2>5. Loaded(ch')
    BY <1>3, <2>3, <2>4 DEF Loaded, u
  <2>6. lost' = FALSE
    BY <1>1, <2>3 DEF After
  <2>7. Mode' = "read" /\ hostContent' = ch.file /\ hostNext' = ch'.fptr + ch'.position - 1
    BY <2>2, <2>3, <2>6, ViewRead, HostVars
  <2>8. hostNext' = n + 1
    BY <1>5, <1>6, <2>3, <2>4, <2>7
  <2>9. n < l /\ ch.data[p] = ch.file[n] /\ n # l /\ n <= l
    BY <1>4, <1>6, <1>7 DEF ByteRight, p, u, l
  <2>10. (p = u /\ ch.sendeoi) = FALSE
    BY <1>6, <1>7
  <2>11. got' = [byte |-> ch.file[n], eoi |-> FALSE] /\ (n = l) = FALSE
    BY <1>1, <2>9, <2>10
  <2>12. got' = IF hostNext <= Len(hostContent)
                  THEN [byte |-> hostContent[hostNext], eoi |-> hostNext = Len(hostContent)]
                  ELSE [byte |-> CR, eoi |-> TRUE]
    BY <1>2, <2>9, <2>11 DEF l
  <2>13. hostNext < Len(hostContent) /\ hostNext' = hostNext + 1 /\ Mode' = Mode /\ hostContent' = hostContent
    BY <1>2, <2>7, <2>8, <2>9 DEF l
  <2>14. Host!Get
    BY <1>2, <2>12, <2>13 DEF Host!Get, hostContent, hostNext
  <2> QED  BY <2>2, <2>5, <2>14, ChannelCases
<1>8. CASE ~(p < u) /\ ch.sendeoi = TRUE
  <2>1. ch' = [Stepped(ch) EXCEPT !.read = FALSE] /\ p = u
    BY <1>1, <1>3, <1>6, <1>8
  <2>2. ReadOpen(ch') /\ ch'.read = FALSE /\ ch'.file = ch.file
    BY <2>1, SteppedRead
  <2>3. Mode' = "done" /\ hostContent' = ch.file /\ hostNext' = 0
    BY <2>2, ViewRead, HostVars
  <2>4. /\ ~(n < l) /\ (n <= l => n = l /\ ch.data[p] = ch.file[n])
        /\ ~(n <= l) => ch.data[p] = CR
    BY <1>4, <1>8, <2>1 DEF ByteRight, p, u, l
  <2>5. got' = [byte |-> ch.data[p], eoi |-> TRUE]
    BY <1>1, <1>8, <2>1
  <2>6. got' = IF hostNext <= Len(hostContent)
                 THEN [byte |-> hostContent[hostNext], eoi |-> hostNext = Len(hostContent)]
                 ELSE [byte |-> CR, eoi |-> TRUE]
    <3>1. CASE n <= l
      BY <1>2, <2>4, <2>5, <3>1 DEF l
    <3>2. CASE ~(n <= l)
      BY <1>2, <2>4, <2>5, <3>2 DEF l
    <3> QED  BY <3>1, <3>2
  <2>7. ~(hostNext < Len(hostContent)) /\ hostNext' = 0 /\ Mode' = "done" /\ hostContent' = hostContent
    BY <1>2, <2>3, <2>4 DEF l
  <2>8. Host!Get
    BY <1>2, <2>6, <2>7 DEF Host!Get, hostContent, hostNext
  <2> QED  BY <2>2, <2>3, <2>8, ChannelCases
<1>9. CASE ~(p < u) /\ ch.sendeoi = FALSE
  <2>1. ch' = refill(Stepped(ch), fault) /\ p = u
    BY <1>1, <1>6, <1>9
  <2>2. ReadOpen(Stepped(ch)) /\ Stepped(ch).read = TRUE /\ Stepped(ch).file = ch.file /\ Stepped(ch).fh = ch.fh
    BY <1>3, SteppedRead, SteppedFacts
  <2>3. Advanced(Stepped(ch), ch')
    BY <2>1, <2>2, RefillRead
  <2>4. CASE ch' = Closed(ch.file)
    BY <2>4, FailRead
  <2>5. CASE /\ ReadOpen(ch') /\ ch'.read = TRUE /\ ch'.file = ch.file
             /\ Loaded(ch') /\ ch'.fptr = ch.fh /\ ch'.position = 2
    <3>1. ch'.allocated = TRUE
      BY <2>5 DEF ReadOpen, Open
    <3>2. lost' = FALSE
      BY <1>1, <3>1 DEF After
    <3>3. Mode' = "read" /\ hostContent' = ch.file /\ hostNext' = ch'.fptr + ch'.position - 1
      BY <2>5, <3>2, ViewRead, HostVars
    <3>4. n = ch.fh /\ n < l /\ ch.data[p] = ch.file[n] /\ n # l
      BY <1>4, <1>9, <2>1 DEF ByteRight, p, u, l
    <3>5. hostNext' = n + 1 /\ n <= l
      BY <1>6, <2>5, <3>3, <3>4
    <3>6. got' = [byte |-> ch.file[n], eoi |-> FALSE] /\ (n = l) = FALSE
      BY <1>1, <1>9, <3>4
    <3>7. got' = IF hostNext <= Len(hostContent)
                   THEN [byte |-> hostContent[hostNext], eoi |-> hostNext = Len(hostContent)]
                   ELSE [byte |-> CR, eoi |-> TRUE]
      BY <1>2, <3>5, <3>6 DEF l
    <3>8. hostNext < Len(hostContent) /\ hostNext' = hostNext + 1 /\ Mode' = Mode /\ hostContent' = hostContent
      BY <1>2, <3>3, <3>4, <3>5 DEF l
    <3>9. Host!Get
      BY <1>2, <3>7, <3>8 DEF Host!Get, hostContent, hostNext
    <3> QED  BY <2>5, <3>9, ChannelCases
  <2> QED  BY <2>2, <2>3, <2>4, <2>5 DEF Advanced
<1> QED  BY <1>3, <1>7, <1>8, <1>9

\* A byte to the host after P has left the file: any byte
LEMMA TalkLost ==
  ASSUME FileInv, ReadOpen(ch), ch.read = TRUE, lost = TRUE, NEW fault, Talk(fault)
  PROVE  /\ ChannelOK(ch') /\ Mode' # "read"
         /\ Host!GetLost \/ Host!Fail
<1>1. /\ \/ ch' = Stepped(ch)
         \/ ch' = [Stepped(ch) EXCEPT !.read = FALSE]
         \/ ch' = refill(Stepped(ch), fault)
      /\ After(ch')
  BY DEF Talk, Stepped
<1>2. Mode = "lost" /\ hostContent = ch.file /\ hostNext = 0 /\ ch \in Chan
  BY ViewRead, HostVars DEF ReadOpen, Open
<1>3. ReadOpen(Stepped(ch)) /\ Stepped(ch).read = TRUE /\ Stepped(ch).file = ch.file
  BY <1>2, SteppedRead, SteppedFacts
<1>4. ASSUME ReadOpen(ch'), ch'.file = ch.file, ch'.read \in BOOLEAN
      PROVE  ChannelOK(ch') /\ Mode' # "read" /\ Host!GetLost
  <2>1. ch'.allocated = TRUE
    BY <1>4 DEF ReadOpen, Open
  <2>2. lost' = TRUE
    BY <1>1, <2>1 DEF After
  <2>3. Mode' \in {"lost", "done"} /\ hostContent' = ch.file /\ hostNext' = 0
    BY <1>4, <2>2, ViewRead, HostVars
  <2>4. Host!GetLost
    BY <1>2, <2>3 DEF Host!GetLost, hostContent, hostNext
  <2> QED  BY <1>4, <2>3, <2>4, ChannelCases
<1>5. CASE ch' = Stepped(ch)
  BY <1>3, <1>4, <1>5
<1>6. CASE ch' = [Stepped(ch) EXCEPT !.read = FALSE]
  <2>1. ReadOpen(ch') /\ ch'.read = FALSE /\ ch'.file = ch.file
    BY <1>6, SteppedRead
  <2> QED  BY <1>4, <2>1
<1>7. CASE ch' = refill(Stepped(ch), fault)
  <2>1. Advanced(Stepped(ch), ch')
    BY <1>3, <1>7, RefillRead
  <2>2. CASE ch' = Closed(ch.file)
    BY <2>2, FailRead
  <2>3. CASE ReadOpen(ch') /\ ch'.read = TRUE /\ ch'.file = ch.file
    BY <1>4, <2>3
  <2> QED  BY <1>3, <2>1, <2>2, <2>3 DEF Advanced
<1> QED  BY <1>1, <1>5, <1>6, <1>7

\* A byte to the host
LEMMA DoTalk ==
  ASSUME FileInv, NEW fault, Talk(fault)
  PROVE  FileInv' /\ HostStep
<1>1. /\ ch.allocated /\ ch.read /\ got'.byte = ch.data[ch.position] /\ After(ch')
      /\ type' = type /\ header' = header
  BY DEF Talk
<1>2. /\ ReadOpen(ch) \/ WriteOpen(ch) \/ RelOpen(ch)
      /\ ch \in Chan /\ type \in {"none", "seq", "rel"} /\ (type = "rel" => header \in Lengths)
      /\ lost \in BOOLEAN
  BY <1>1, OpenFacts
<1>3. got'.byte \in Cell
  BY <1>1, <1>2 DEF Chan
<1>4. lost' \in BOOLEAN /\ (lost' => ch'.allocated)
  BY <1>1, <1>2 DEF After
<1>5. ASSUME ChannelOK(ch'), Mode' = "read" => Loaded(ch') PROVE FileInv'
  BY <1>1, <1>2, <1>3, <1>4, <1>5, InvAfter
<1>6. CASE ReadOpen(ch)
  <2>1. ch.read = TRUE
    BY <1>1, <1>2 DEF Chan
  <2>2. CASE lost = FALSE
    BY <1>5, <1>6, <2>1, <2>2, TalkRead DEF HostStep, Host!Next
  <2>3. CASE lost = TRUE
    BY <1>5, <1>6, <2>1, <2>3, TalkLost DEF HostStep, Host!Next
  <2> QED  BY <1>2, <2>2, <2>3
<1>7. CASE WriteOpen(ch)
  BY <1>1, <1>7, WriteOpenFacts
<1>8. CASE RelOpen(ch)
  <2> DEFINE n == Stepped(ch)
  <2>1. /\ n \in Chan /\ Same(ch, n) /\ n.file = ch.file /\ n.fh = ch.fh
    BY <1>2, SteppedFacts
  <2>2. ch' = n \/ ch' = refill(n, fault)
    <3>1. Rel
      BY <1>8 DEF Rel, RelOpen
    <3> QED  BY <3>1 DEF Talk, Stepped
  <2> HIDE DEF n
  <2>3. RelOpen(n) /\ n.recordlen = ch.recordlen
    BY <1>8, <2>1 DEF RelOpen, RelShape, Open, OnMedium, Same
  <2>4. RelStep(ch, ch')
    <3>1. RelStep(n, refill(n, fault))
      BY <2>3, RefillRel
    <3> QED  BY <2>2, <2>3, <3>1 DEF RelStep
  <2>5. Host!Rel /\ ChannelOK(ch') /\ Mode' \in {"rel", "closed"}
    BY <1>8, <2>4, StepRel
  <2> QED  BY <1>5, <2>5 DEF HostStep, Host!Next
<1> QED  BY <1>2, <1>6, <1>7, <1>8

-----------------------------------------------------------------------------
(* Records.                                                                *)

Divides(n, x) == \E k \in Int : x = n * k

\* A multiple of n that is smaller than n is 0.
LEMMA SmallMultiple ==
  ASSUME NEW n \in Nat, n > 0, NEW k \in Int, n * k > - n, n * k < n
  PROVE  k = 0
<1>1. CASE k >= 1
  <2>1. n * (k - 1) >= 0
    BY <1>1
  <2> QED  BY <2>1
<1>2. CASE k <= -1
  <2>1. n * (-1 - k) >= 0
    BY <1>2
  <2> QED  BY <2>1
<1> QED  BY <1>1, <1>2

\* Numbers with the same remainder
LEMMA ModDivides ==
  ASSUME NEW n \in Nat, n > 0, NEW x \in Int, NEW y \in Int
  PROVE  (x % n = y % n) <=> Divides(n, x - y)
<1> DEFINE a == x \div n
           b == y \div n
           r == x % n
           s == y % n
<1>1. /\ r \in 0 .. n - 1 /\ x = n * a + r /\ a \in Int
      /\ s \in 0 .. n - 1 /\ y = n * b + s /\ b \in Int
  OBVIOUS
<1> HIDE DEF a, b, r, s
<1>2. ASSUME r = s PROVE Divides(n, x - y)
  <2>1. x - y = n * (a - b) /\ a - b \in Int
    BY <1>1, <1>2
  <2> QED  BY <2>1 DEF Divides
<1>3. ASSUME Divides(n, x - y) PROVE r = s
  <2>1. PICK k \in Int : x - y = n * k
    BY <1>3 DEF Divides
  <2> DEFINE m == k - a + b
  <2>2. n * m = r - s
    BY <1>1, <2>1
  <2>3. n * m > - n /\ n * m < n /\ m \in Int
    BY <1>1, <2>2
  <2> HIDE DEF m
  <2>4. m = 0
    BY <2>3, SmallMultiple
  <2> QED  BY <1>1, <2>2, <2>4
<1> QED  BY <1>2, <1>3 DEF r, s

\* Remainder 0
LEMMA ModZero ==
  ASSUME NEW n \in Nat, n > 0, NEW x \in Int
  PROVE  (x % n = 0) <=> Divides(n, x)
<1>1. 0 % n = 0 /\ x - 0 = x /\ 0 \in Int
  OBVIOUS
<1>2. (x % n = 0 % n) <=> Divides(n, x - 0)
  BY <1>1, ModDivides
<1> QED  BY <1>1, <1>2

\* Sums and differences of multiples
LEMMA DividesSum ==
  ASSUME NEW n \in Nat, NEW x \in Int, NEW y \in Int, Divides(n, x)
  PROVE  /\ Divides(n, y) <=> Divides(n, x + y)
         /\ Divides(n, y) <=> Divides(n, x - y)
<1>1. PICK k \in Int : x = n * k
  BY DEF Divides
<1>2. ASSUME NEW j \in Int, y = n * j PROVE Divides(n, x + y) /\ Divides(n, x - y)
  <2>1. x + y = n * (k + j) /\ x - y = n * (k - j) /\ k + j \in Int /\ k - j \in Int
    BY <1>1, <1>2
  <2> QED  BY <2>1 DEF Divides
<1>3. ASSUME NEW j \in Int, x + y = n * j PROVE Divides(n, y)
  <2>1. y = n * (j - k) /\ j - k \in Int
    BY <1>1, <1>3
  <2> QED  BY <2>1 DEF Divides
<1>4. ASSUME NEW j \in Int, x - y = n * j PROVE Divides(n, y)
  <2>1. y = n * (k - j) /\ k - j \in Int
    BY <1>1, <1>4
  <2> QED  BY <2>1 DEF Divides
<1> QED  BY <1>2, <1>3, <1>4 DEF Divides

\* The byte at place i of a file of empty records
Blank(i, n) == IF i % n = 1 % n THEN FF ELSE 0

\* g is f with bytes lo to hi replaced, and empty records up to them.
Grown(f, g, lo, hi, n) ==
  /\ Len(f) <= Len(g)
  /\ \A i \in 1 .. Len(g) :
       i \in lo .. hi \/ g[i] = IF i <= Len(f) THEN f[i] ELSE Blank(i, n)

\* What the fill loop writes behind s bytes: empty records, if it starts between
\* two records.
LEMMA FillBlank ==
  ASSUME NEW c \in Chan, c.recordlen # 0, NEW gap \in Nat, NEW s \in Nat, Divides(c.recordlen, s)
  PROVE  \A j \in 1 .. gap : Fill(c, gap)[j] = Blank(s + j, c.recordlen)
<1> DEFINE n == c.recordlen
           z == Repeat(0, n - 1)
<1>1. n \in Nat /\ n > 0 /\ n >= 1 /\ n - 1 \in Nat
  BY Sizes DEF Chan
<1>2. z \in Seq(Cell) /\ Len(z) = n - 1 /\ \A i \in 1 .. n - 1 : z[i] = 0
  BY <1>1, Sizes, RepeatSeq
<1> HIDE DEF z
<1>3. <<FF>> \in Seq(Cell) /\ Len(<<FF>>) = 1 /\ <<FF>>[1] = FF
  BY Sizes
<1>4. /\ Len(<<FF>> \o z) = n
      /\ \A i \in 1 .. n : (<<FF>> \o z)[i] = IF i <= 1 THEN <<FF>>[i] ELSE z[i - 1]
  BY <1>1, <1>2, <1>3, ConcatProperties
<1>5. \A i \in 1 .. n : EmptyRecord(c)[i] = IF i = 1 THEN FF ELSE 0
  <2>1. \A i \in 1 .. n : i # 1 => i - 1 \in 1 .. n - 1
    BY <1>1
  <2> QED  BY <1>1, <1>2, <1>3, <1>4, <2>1 DEF EmptyRecord, z
<1>6. SUFFICES ASSUME NEW j \in 1 .. gap
               PROVE  Fill(c, gap)[j] = Blank(s + j, n)
  OBVIOUS
<1>7. j \in Int /\ j - 1 \in Int /\ s + j \in Int /\ s \in Int
  OBVIOUS
<1> DEFINE m == (j - 1) % n
<1>8. m \in 0 .. n - 1
  BY <1>1, <1>7
<1>9. Fill(c, gap)[j] = EmptyRecord(c)[m + 1]
  BY DEF Fill
<1>10. m = 0 <=> Divides(n, j - 1)
  <2> HIDE DEF n
  <2> QED  BY <1>1, <1>7, ModZero
<1>11. (s + j) % n = 1 % n <=> Divides(n, j - 1)
  <2> DEFINE a == s + j
             b == j - 1
  <2>1. a \in Int /\ b \in Int /\ a - 1 = s + b /\ 1 \in Int
    BY <1>7
  <2> HIDE DEF a, b, n
  <2>2. (a % n = 1 % n) <=> Divides(n, a - 1)
    BY <1>1, <2>1, ModDivides
  <2>3. Divides(n, b) <=> Divides(n, s + b)
    BY <1>1, <1>7, <2>1, DividesSum DEF n
  <2>4. (a % n = 1 % n) <=> Divides(n, b)
    BY <2>1, <2>2, <2>3
  <2> QED  BY <2>4 DEF a, b
<1> HIDE DEF m, n
<1>12. m + 1 \in 1 .. n /\ (m + 1 = 1 <=> m = 0)
  BY <1>1, <1>8
<1>13. EmptyRecord(c)[m + 1] = IF m = 0 THEN FF ELSE 0
  BY <1>5, <1>12
<1> QED  BY <1>9, <1>10, <1>11, <1>13 DEF Blank

\* One change after another
LEMMA GrownTwice ==
  ASSUME NEW f \in Seq(Cell), NEW g \in Seq(Cell), NEW h \in Seq(Cell), NEW n \in Nat,
         NEW lo \in Nat, NEW hi \in Nat, NEW up \in Nat, hi <= up, lo <= hi + 1,
         Grown(f, g, lo, hi, n), Grown(g, h, hi + 1, up, n)
  PROVE  Grown(f, h, lo, up, n)
<1>1. Len(f) \in Nat /\ Len(g) \in Nat /\ Len(h) \in Nat
  BY LenProperties
<1>2. Len(f) <= Len(h)
  BY <1>1 DEF Grown
<1>3. ASSUME NEW i \in 1 .. Len(h), ~(i \in lo .. up)
      PROVE  h[i] = IF i <= Len(f) THEN f[i] ELSE Blank(i, n)
  <2>1. ~(i \in lo .. hi) /\ ~(i \in hi + 1 .. up)
    BY <1>3
  <2>2. h[i] = IF i <= Len(g) THEN g[i] ELSE Blank(i, n)
    BY <2>1 DEF Grown
  <2>3. CASE i <= Len(g)
    <3>1. i \in 1 .. Len(g)
      BY <1>1, <2>3
    <3>2. g[i] = IF i <= Len(f) THEN f[i] ELSE Blank(i, n)
      BY <2>1, <3>1 DEF Grown
    <3> QED  BY <2>2, <2>3, <3>2
  <2>4. CASE ~(i <= Len(g))
    <3>1. ~(i <= Len(f))
      BY <1>1, <2>4 DEF Grown
    <3> QED  BY <2>2, <2>4, <3>1
  <2> QED  BY <2>3, <2>4
<1> QED  BY <1>2, <1>3 DEF Grown

\* Where the record of a relative file is: at a multiple of its length, and where
\* fat_file_write will find it even if it need not seek.
RecordPlace(c) == Divides(c.recordlen, c.fptr) /\ (c.fptr = Len(c.file) => c.fh = Len(c.file))

\* fat_file_write has sought to the record.
AtRecord(c, at) ==
  /\ at \in Chan /\ OnMedium(at) /\ Same(c, at)
  /\ IF c.fptr <= Len(c.file) THEN at.file = c.file /\ at.fh = c.fptr
     ELSE /\ at.fh = IF c.fptr <= Cap THEN c.fptr ELSE Cap
          /\ Len(at.file) = at.fh /\ Len(c.file) <= at.fh
          /\ \A i \in 1 .. Len(c.file) : at.file[i] = c.file[i]

\* The first step of fat_file_write on a record
LEMMA RecordSought ==
  ASSUME NEW c, RelOpen(c), RecordPlace(c),
         NEW at, at = IF c.fptr # Len(c.file) THEN f_lseek(c, c.fptr) ELSE c
  PROVE  AtRecord(c, at)
<1>1. /\ c \in Chan /\ OnMedium(c) /\ Writable(c) /\ c.fptr \in Nat
      /\ Len(c.file) \in Nat /\ Len(c.file) <= Cap
  BY LenProperties DEF RelOpen, Open, RelShape, Writable, Chan, OnMedium
<1>2. CASE c.fptr = Len(c.file)
  BY <1>1, <1>2 DEF AtRecord, RecordPlace, Same
<1>3. CASE c.fptr # Len(c.file)
  <2>1. Sought(c, c.fptr, at)
    BY <1>1, <1>3, LseekEffect
  <2>2. at \in Chan /\ OnMedium(at)
    BY <2>1 DEF Sought
  <2>3. Same(c, at)
    BY <1>1, <2>1 DEF Sought, Chan, Same
  <2>4. CASE c.fptr < Len(c.file)
    <3>1. c.fptr <= Len(c.file)
      BY <1>1, <2>4
    <3> QED  BY <2>1, <2>2, <2>3, <3>1 DEF AtRecord, Sought
  <2>5. CASE c.fptr > Len(c.file)
    <3>1. ~(c.fptr <= Len(c.file))
      BY <1>1, <2>5
    <3>2. /\ at.fh = IF c.fptr <= Cap THEN c.fptr ELSE Cap
          /\ Len(at.file) = at.fh
          /\ \A i \in 1 .. Len(c.file) : at.file[i] = c.file[i]
      BY <1>1, <2>1, <2>5 DEF Sought
    <3>3. Len(c.file) <= at.fh
      BY <1>1, <2>5, <3>2, Sizes
    <3> QED  BY <2>2, <2>3, <3>1, <3>2, <3>3 DEF AtRecord
  <2> QED  BY <1>1, <1>3, <2>4, <2>5
<1> QED  BY <1>2, <1>3

\* A closed channel is not allocated.
LEMMA ClosedFree ==
  ASSUME NEW f
  PROVE  Closed(f).allocated = FALSE
BY DEF Closed, Pristine

\* The record is written at the place of the record.
LEMMA RecordWritten ==
  ASSUME NEW c, RelOpen(c), NEW at, AtRecord(c, at), NEW fault,
         NEW w, w = write_data(at, fault), w.allocated
  PROVE  /\ w \in Chan /\ OnMedium(w) /\ Same(c, w)
         /\ c.fptr + c.recordlen <= Cap /\ Len(c.file) <= Len(w.file)
         /\ c.fptr > Len(c.file) => Len(w.file) = c.fptr + c.recordlen
         /\ \A i \in 1 .. Len(w.file) : i <= c.fptr /\ i <= Len(c.file) => w.file[i] = c.file[i]
         /\ \A i \in 1 .. Len(w.file) : i > c.fptr + c.recordlen => i <= Len(c.file) /\ w.file[i] = c.file[i]
<1> DEFINE n == c.recordlen
           b == Bytes(at)
           o == Overwrite(at.file, at.fh, b)
           d == memset_record(at, Used(at))
           t == at.fh + Len(b)
<1>1. /\ c \in Chan /\ n \in Nat /\ n >= 1 /\ c.fptr \in Nat /\ c.file \in Seq(Cell)
      /\ Len(c.file) \in Nat /\ Len(c.file) <= Cap /\ Cap \in Nat
  BY Sizes, LenProperties DEF RelOpen, Open, Chan, OnMedium
<1>2. /\ at \in Chan /\ OnMedium(at) /\ Same(c, at) /\ at.recordlen = n
      /\ at.file \in Seq(Cell) /\ at.fh \in Nat /\ at.fh <= Len(at.file) /\ Len(at.file) \in Nat
      /\ Len(at.file) <= Cap
  BY LenProperties DEF AtRecord, Same, Chan, OnMedium
<1>3. Sends(at)
  BY <1>1, <1>2 DEF Sends
<1>4. b \in Seq(Cell) /\ Len(b) = n /\ d \in [Area -> Cell]
  <2>1. Top(at) = n + 1
    BY <1>1, <1>2 DEF Top
  <2>2. /\ d \in [Area -> Cell]
        /\ b \in Seq(Cell) /\ Len(b) = Top(at) - 1
    BY <1>2, <1>3, BytesSeq
  <2> QED  BY <1>1, <2>1, <2>2
<1>5. WroteLess(at, w) \/ WroteAll(at, w)
  BY <1>2, <1>3, WriteDataEffect
<1>6. ~WroteLess(at, w)
  BY ClosedFree DEF WroteLess
<1>7. /\ t <= Cap
      /\ w = [at EXCEPT !.data = d, !.file = o, !.fh = t, !.fptr = t,
                        !.dirty = FALSE, !.mustflush = FALSE, !.position = 2, !.lastused = 2]
  BY <1>5, <1>6 DEF WroteAll
<1>8. Overwritten(at.file, at.fh, b, o)
  BY <1>2, <1>4, OverwriteSeq
<1>9. /\ o \in Seq(Cell) /\ Len(o) \in Nat /\ Len(o) <= Cap /\ Len(at.file) <= Len(o) /\ t <= Len(o)
  BY <1>2, <1>4, <1>7, OverwriteFits
<1> HIDE DEF b, o, d, t
<1>10. t \in Nat /\ t = at.fh + n /\ 2 \in Area
  BY <1>1, <1>2, <1>4, Sizes DEF t
<1>11. /\ w \in Chan /\ w.file = o /\ w.fh = t /\ Same(at, w)
  <2>1. w \in Chan
    BY <1>2, <1>4, <1>7, <1>9, <1>10 DEF Chan
  <2>2. w.file = o /\ w.fh = t
    BY <1>2, <1>7 DEF Chan
  <2>3. Same(at, w)
    BY <1>2, <1>7 DEF Chan, Same
  <2> QED  BY <2>1, <2>2, <2>3
<1>12. OnMedium(w) /\ Same(c, w)
  <2>1. Same(c, w)
    BY <1>2, <1>11 DEF Same
  <2>2. w.size <= Len(at.file) /\ w.size \in Nat
    BY <1>2, <1>11 DEF OnMedium, Same, Chan
  <2> QED  BY <1>2, <1>9, <1>11, <2>1, <2>2 DEF OnMedium
<1>13. at.fh = c.fptr /\ c.fptr + n <= Cap
  BY <1>1, <1>7, <1>10 DEF AtRecord
<1>14. Len(c.file) <= Len(at.file) /\ \A i \in 1 .. Len(c.file) : at.file[i] = c.file[i]
  BY <1>1, <1>2 DEF AtRecord
<1>15. /\ Len(o) = IF c.fptr + n >= Len(at.file) THEN c.fptr + n ELSE Len(at.file)
       /\ \A i \in 1 .. Len(o) :
            o[i] = IF i <= c.fptr THEN at.file[i] ELSE IF i <= c.fptr + n THEN b[i - c.fptr] ELSE at.file[i]
  BY <1>4, <1>8, <1>13 DEF Overwritten
<1>16. c.fptr > Len(c.file) => Len(o) = c.fptr + n
  <2>1. c.fptr > Len(c.file) => Len(at.file) = c.fptr
    BY <1>1, <1>13 DEF AtRecord
  <2> QED  BY <1>1, <1>15, <2>1
<1>17. ASSUME NEW i \in 1 .. Len(o), i <= c.fptr, i <= Len(c.file)
       PROVE  o[i] = c.file[i]
  <2>1. i \in 1 .. Len(c.file)
    BY <1>1, <1>17
  <2> QED  BY <1>14, <1>15, <1>17, <2>1
<1>18. ASSUME NEW i \in 1 .. Len(o), i > c.fptr + n
       PROVE  i <= Len(c.file) /\ o[i] = c.file[i]
  <2>1. i <= Len(at.file) /\ ~(i <= c.fptr) /\ ~(i <= c.fptr + n)
    BY <1>1, <1>2, <1>9, <1>15, <1>18
  <2>2. o[i] = at.file[i]
    BY <1>15, <2>1
  <2>3. c.fptr <= Len(c.file)
    BY <1>1, <1>9, <1>16, <1>18
  <2>4. at.file = c.file
    BY <2>3 DEF AtRecord
  <2> QED  BY <2>1, <2>2, <2>4
<1>19. Len(c.file) <= Len(o)
  BY <1>1, <1>2, <1>9, <1>14
<1> QED  BY <1>11, <1>12, <1>13, <1>16, <1>17, <1>18, <1>19

\* fat_file_write on a record changes this record only, and puts empty records
\* before it.
LEMMA RecordFlush ==
  ASSUME NEW c, RelOpen(c), RecordPlace(c), NEW fault,
         NEW q, q = fat_file_write(c, fault), q.allocated
  PROVE  Grown(c.file, q.file, c.fptr + 1, c.fptr + c.recordlen, c.recordlen)
<1> DEFINE n == c.recordlen
           l == Len(c.file)
           at == IF c.fptr # l THEN f_lseek(c, c.fptr) ELSE c
           w == write_data(at, fault)
           gap == c.fptr - l
<1>1. /\ c \in Chan /\ n \in Nat /\ n >= 1 /\ c.fptr \in Nat /\ c.file \in Seq(Cell) /\ l \in Nat
      /\ n # 0 /\ l <= Cap
  BY Sizes, LenProperties DEF RelOpen, Open, Chan, OnMedium
<1>2. AtRecord(c, at)
  BY RecordSought
<1>3. q = IF c.fptr # l /\ fault = "lseek" THEN f_close(c)
          ELSE IF w.allocated /\ c.fptr > l THEN Filled(w, l, gap, fault) ELSE w
  BY DEF fat_file_write
<1>4. ~(c.fptr # l /\ fault = "lseek") /\ w.allocated
  BY <1>3, ClosedFree DEF f_close
<1>5. q = IF c.fptr > l THEN Filled(w, l, gap, fault) ELSE w
  BY <1>3, <1>4
<1>6. /\ w \in Chan /\ OnMedium(w) /\ Same(c, w)
      /\ c.fptr + n <= Cap /\ l <= Len(w.file)
      /\ c.fptr > l => Len(w.file) = c.fptr + n
      /\ \A i \in 1 .. Len(w.file) : i <= c.fptr /\ i <= l => w.file[i] = c.file[i]
      /\ \A i \in 1 .. Len(w.file) : i > c.fptr + n => i <= l /\ w.file[i] = c.file[i]
  BY <1>2, <1>4, RecordWritten
<1>7. w.file \in Seq(Cell) /\ Len(w.file) \in Nat /\ w.recordlen = n
  BY <1>6, LenProperties DEF Chan, Same
<1> HIDE DEF w, at
<1>8. CASE ~(c.fptr > l)
  <2>1. q = w
    BY <1>5, <1>8
  <2>2. ASSUME NEW i \in 1 .. Len(w.file), ~(i \in c.fptr + 1 .. c.fptr + n)
        PROVE  w.file[i] = IF i <= l THEN c.file[i] ELSE Blank(i, n)
    <3>1. (i <= c.fptr /\ i <= l) \/ i > c.fptr + n
      BY <1>1, <1>7, <1>8, <2>2
    <3>2. i <= l /\ w.file[i] = c.file[i]
      BY <1>6, <3>1
    <3> QED  BY <3>2
  <2> QED  BY <1>6, <2>1, <2>2 DEF Grown
<1>9. CASE c.fptr > l
  <2> DEFINE z == Fill(w, gap)
             o == Overwrite(w.file, l, z)
  <2>1. gap \in Nat /\ gap >= 1
    BY <1>1, <1>9
  <2>2. FilledLess(w, l, gap, q) \/ FilledAll(w, l, gap, q)
    BY <1>1, <1>5, <1>6, <1>9, <2>1, FilledEffect
  <2>3. ~FilledLess(w, l, gap, q)
    BY ClosedFree DEF FilledLess
  <2>4. gap % n = 0 /\ q.file = o
    BY <1>1, <1>6, <1>7, <2>2, <2>3 DEF FilledAll, Chan
  <2>5. z \in Seq(Cell) /\ Len(z) = gap
    BY <1>6, <2>1, FillSeq
  <2>6. Overwritten(w.file, l, z, o)
    BY <1>1, <1>6, <1>7, <2>5, OverwriteSeq
  <2>7. Divides(n, l)
    <3>1. gap \in Int /\ n > 0
      BY <1>1, <2>1
    <3> HIDE DEF gap, n
    <3>2. Divides(n, gap)
      BY <1>1, <2>4, <3>1, ModZero
    <3>3. Divides(n, c.fptr) /\ c.fptr \in Int /\ l \in Int
      BY <1>1 DEF RecordPlace, n
    <3>4. Divides(n, c.fptr - l)
      BY <3>2 DEF gap
    <3> HIDE DEF l
    <3> QED  BY <1>1, <3>3, <3>4, DividesSum
  <2>8. \A j \in 1 .. gap : z[j] = Blank(l + j, n)
    <3>1. w.recordlen # 0 /\ Divides(w.recordlen, l)
      BY <1>1, <1>7, <2>7
    <3>2. \A j \in 1 .. gap : Fill(w, gap)[j] = Blank(l + j, w.recordlen)
      BY <1>1, <1>6, <2>1, <3>1, FillBlank
    <3> QED  BY <1>7, <3>2
  <2> HIDE DEF z, o
  <2>9. l + gap = c.fptr
    BY <1>1
  <2>10. /\ Len(o) = c.fptr + n
         /\ \A i \in 1 .. Len(o) : o[i] = IF i <= l THEN w.file[i] ELSE IF i <= c.fptr THEN z[i - l] ELSE w.file[i]
    BY <1>1, <1>6, <1>9, <2>5, <2>6, <2>9 DEF Overwritten
  <2>11. ASSUME NEW i \in 1 .. Len(o), ~(i \in c.fptr + 1 .. c.fptr + n)
         PROVE  o[i] = IF i <= l THEN c.file[i] ELSE Blank(i, n)
    <3>1. i <= c.fptr
      BY <1>1, <2>10, <2>11
    <3>2. CASE i <= l
      <4>1. i \in 1 .. Len(w.file)
        BY <1>1, <1>6, <1>7, <3>2
      <4>2. w.file[i] = c.file[i]
        BY <1>6, <3>1, <3>2, <4>1
      <4> QED  BY <2>10, <3>2, <4>2
    <3>3. CASE ~(i <= l)
      <4>1. i - l \in 1 .. gap /\ l + (i - l) = i
        BY <1>1, <2>9, <3>1, <3>3
      <4>2. z[i - l] = Blank(l + (i - l), n)
        BY <2>8, <4>1
      <4> QED  BY <2>10, <3>1, <3>3, <4>1, <4>2
    <3> QED  BY <3>2, <3>3
  <2>12. l <= Len(o)
    BY <1>1, <1>9, <2>10
  <2> QED  BY <2>4, <2>11, <2>12 DEF Grown
<1> QED  BY <1>8, <1>9

\* A record buffer moved to pos, with the file as it was
AtPlace(c, pos, q) ==
  /\ RelOpen(q) /\ q.recordlen = c.recordlen /\ q.file = c.file /\ q.fptr = pos
  /\ q.fptr = Len(q.file) => q.fh = Len(q.file)

\* fat_file_seek to a record does not change the file.
LEMMA SeekPlace ==
  ASSUME NEW c, RelOpen(c), NEW pos \in Nat, NEW index \in Nat, NEW fault,
         NEW q, q = SeekEnd(SeekIn(c, pos, fault), index), q.allocated
  PROVE  AtPlace(c, pos, q)
<1> DEFINE s == SeekIn(c, pos, fault)
           at == f_lseek(c, pos)
           r == fat_file_read(at, fault)
<1>1. /\ c \in Chan /\ OnMedium(c) /\ c.allocated = TRUE /\ c.recordlen # 0 /\ RelShape(c)
      /\ Len(c.file) \in Nat
  BY LenProperties DEF RelOpen, Open, Chan
<1>2. RelStep(c, q)
  BY RelIn
<1>3. RelOpen(q) /\ q.recordlen = c.recordlen
  BY <1>2, ShutFree DEF RelStep
<1>4. Len(c.file) >= pos => s = IF fault = "lseek" THEN f_close(c) ELSE r
  BY DEF SeekIn
<1>5. Sought(c, pos, at)
  BY <1>1, LseekEffect
<1>6. r = Abort(at) \/ Refilled(at, r)
  BY <1>5, ReadEffect DEF Sought
<1>7. s.allocated
  BY DEF SeekEnd
<1> DEFINE m == Min({index + 2, s.lastused})
<1>8. q = [s EXCEPT !.position = m]
  BY <1>7 DEF SeekEnd
<1> HIDE DEF s, at, r, m
<1>9. s \in Chan /\ s.file = c.file /\ s.fptr = pos /\ (s.fptr = Len(s.file) => s.fh = Len(s.file))
  <2>1. CASE ~(Len(c.file) >= pos)
    <3>1. pos > Len(c.file) /\ Open(c)
      BY <1>1, <2>1 DEF Open
    <3>2. Open(s) /\ s.fptr = pos /\ s.file = c.file
      BY <3>1, SeekBeyond DEF s
    <3>3. s.fptr # Len(s.file)
      BY <1>1, <3>1, <3>2
    <3> QED  BY <3>2, <3>3 DEF Open
  <2>2. CASE Len(c.file) >= pos
    <3>1. s = r /\ Refilled(at, r)
      BY <1>4, <1>6, <1>7, <2>2, ClosedFree DEF f_close, Abort
    <3>2. at.fh = pos /\ at.file = c.file
      BY <1>1, <1>5, <2>2 DEF Sought
    <3>3. s \in Chan /\ OnMedium(s) /\ s.file = c.file /\ s.fptr = pos /\ s.fh >= pos
      BY <3>1, <3>2 DEF Refilled
    <3>4. s.fh \in Nat /\ s.fh <= Len(s.file) /\ Len(s.file) \in Nat
      BY <1>1, <3>3 DEF OnMedium, Chan
    <3>5. s.fptr = Len(s.file) => s.fh = Len(s.file)
      BY <3>3, <3>4
    <3> QED  BY <3>3, <3>5
  <2> QED  BY <2>1, <2>2
<1>10. q.file = s.file /\ q.fptr = s.fptr /\ q.fh = s.fh
  BY <1>8, <1>9 DEF Chan
<1> QED  BY <1>3, <1>9, <1>10 DEF AtPlace

\* The record at fptr is written, if anything is, and the buffer moved to pos.
RecordStep(c, pos, q) ==
  /\ RelOpen(q) /\ q.recordlen = c.recordlen /\ q.fptr = pos /\ RecordPlace(q)
  /\ Grown(c.file, q.file, c.fptr + 1, c.fptr + c.recordlen, c.recordlen)

\* A file that has not changed
LEMMA GrownNot ==
  ASSUME NEW f \in Seq(Cell), NEW lo, NEW hi, NEW n
  PROVE  Grown(f, f, lo, hi, n)
<1>1. Len(f) \in Nat
  BY LenProperties
<1> QED  BY <1>1 DEF Grown

\* fat_file_seek to a record
LEMMA SeekRecord ==
  ASSUME NEW c, RelOpen(c), RecordPlace(c), NEW pos \in Nat, Divides(c.recordlen, pos),
         NEW index \in Nat, NEW fault,
         NEW q, q = fat_file_seek(c, pos, index, fault), q.allocated
  PROVE  RecordStep(c, pos, q)
<1>1. c.allocated = TRUE /\ c.dirty \in BOOLEAN /\ c.file \in Seq(Cell)
  BY DEF RelOpen, Open, Chan
<1>2. CASE c.dirty = FALSE
  <2>1. q = SeekEnd(SeekIn(c, pos, fault), index)
    BY <1>1, <1>2, SeekClean
  <2>2. AtPlace(c, pos, q)
    BY <2>1, SeekPlace
  <2> QED  BY <1>1, <2>2, GrownNot DEF AtPlace, RecordStep, RecordPlace
<1>3. CASE c.dirty = TRUE
  <2> DEFINE w == fat_file_write(c, fault)
  <2>1. q = Onward(w, pos, index, fault)
    BY <1>3, SeekDirty
  <2>2. RelStep(c, w)
    BY RelFlush
  <2>3. w.allocated
    BY <2>1 DEF Onward
  <2>4. Grown(c.file, w.file, c.fptr + 1, c.fptr + c.recordlen, c.recordlen)
    BY <2>3, RecordFlush
  <2> HIDE DEF w
  <2>5. RelOpen(w) /\ w.recordlen = c.recordlen
    BY <2>2, <2>3, ShutFree DEF RelStep
  <2>6. q = SeekEnd(SeekIn(w, pos, fault), index)
    BY <2>1, <2>3 DEF Onward
  <2>7. AtPlace(w, pos, q)
    BY <2>5, <2>6, SeekPlace
  <2> QED  BY <2>4, <2>5, <2>7 DEF AtPlace, RecordStep, RecordPlace
<1> QED  BY <1>1, <1>2, <1>3

\* The refill callback of a relative file: the next record
LEMMA RefillRecord ==
  ASSUME NEW c, RelOpen(c), RecordPlace(c), NEW fault,
         NEW q, q = refill(c, fault), q.allocated
  PROVE  RecordStep(c, c.fptr + c.recordlen, q)
<1>1. q = fat_file_seek(c, c.fptr + c.recordlen, 0, fault)
  BY DEF RelOpen, RelShape, refill, fat_file_sync
<1>2. c.fptr \in Nat /\ c.recordlen \in Nat
  BY Sizes DEF RelOpen, Open, Chan
<1> DEFINE n == c.recordlen
<1>3. Divides(n, n)
  <2> HIDE DEF n
  <2>1. n = n * 1 /\ 1 \in Int
    BY <1>2 DEF n
  <2> QED  BY <2>1 DEF Divides
<1>4. Divides(n, c.fptr)
  BY DEF RecordPlace
<1>5. Divides(n, c.fptr + n)
  <2>1. n \in Nat /\ n \in Int /\ c.fptr \in Int
    BY <1>2
  <2> HIDE DEF n
  <2> QED  BY <1>3, <1>4, <2>1, DividesSum
<1>6. c.fptr + c.recordlen \in Nat
  BY <1>2
<1> QED  BY <1>1, <1>5, <1>6, SeekRecord

\* Store leaves the record where it is.
LEMMA StorePlace ==
  ASSUME NEW f, RelOpen(f), NEW b \in Byte
  PROVE  Store(f, b).file = f.file /\ Store(f, b).fptr = f.fptr /\ Store(f, b).fh = f.fh
<1>1. f \in Chan
  BY DEF RelOpen, Open
<1> QED  BY <1>1 DEF Store, Chan

\* The bytes of the file that belong to the record of the buffer, and to the next
\* one if the buffer is full.
RecordStepAll(c, q) ==
  /\ RelOpen(q) /\ q.recordlen = c.recordlen /\ RecordPlace(q)
  /\ Grown(c.file, q.file, c.fptr + 1,
           c.fptr + (IF c.mustflush THEN 2 * c.recordlen ELSE c.recordlen), c.recordlen)

\* A change of one record is a change of one or two.
LEMMA OneOrTwo ==
  ASSUME NEW c, RelOpen(c), NEW pos, NEW q, RecordStep(c, pos, q)
  PROVE  RecordStepAll(c, q)
<1> DEFINE n == c.recordlen
           up == IF c.mustflush THEN 2 * n ELSE n
<1>1. c.fptr \in Nat /\ n \in Nat /\ c.mustflush \in BOOLEAN
  BY Sizes DEF RelOpen, Open, Chan
<1>2. n <= up /\ up \in Nat
  BY <1>1
<1> HIDE DEF up
<1>3. \A i \in Int : i \in c.fptr + 1 .. c.fptr + n => i \in c.fptr + 1 .. c.fptr + up
  BY <1>1, <1>2
<1>4. Grown(c.file, q.file, c.fptr + 1, c.fptr + up, n)
  BY <1>3 DEF Grown, RecordStep
<1> QED  BY <1>4 DEF RecordStep, RecordStepAll, up

\* An open relative file
LEMMA RelIsOpen ==
  ASSUME NEW c, ChannelOK(c), c.recordlen # 0
  PROVE  RelOpen(c)
<1>1. c.allocated
  BY DEF ChannelOK, Closed, Pristine
<1> QED  BY <1>1, ChannelCases DEF ReadOpen, WriteOpen

\* A step of Listen on a relative file: a full buffer is written before the byte is
\* stored, the record after it if the byte comes with EOI.
LEMMA ListenRecord ==
  ASSUME RelOpen(ch), RecordPlace(ch), NEW b \in Chars, NEW eoi, NEW fault,
         Listen(b, eoi, fault), ch'.allocated
  PROVE  RecordStepAll(ch, ch')
<1> DEFINE n == ch.recordlen
           f == IF ch.mustflush THEN refill(ch, fault) ELSE ch
           s == Store(f, b)
<1>1. ch' = IF ~f.allocated THEN f ELSE IF Rel /\ eoi THEN refill(s, fault) ELSE s
  BY DEF Listen
<1>2. f.allocated
  BY <1>1
<1>3. b \in Byte
  BY FatFileAssumption DEF Byte
<1>4. /\ ch.mustflush \in BOOLEAN /\ ch.file \in Seq(Cell) /\ ch.fptr \in Nat
      /\ n \in Nat /\ n >= 1
  BY Sizes DEF RelOpen, Open, Chan
<1>5. ch.mustflush = TRUE => RecordStep(ch, ch.fptr + n, f)
  BY <1>2, RefillRecord
<1>6. ch.mustflush = FALSE => f = ch
  OBVIOUS
<1> HIDE DEF f
<1>7. RelOpen(f) /\ RecordPlace(f) /\ f.recordlen = n
  BY <1>4, <1>5, <1>6 DEF RecordStep
<1>8. /\ RelOpen(s) /\ s.recordlen = n /\ s.file = f.file /\ s.fptr = f.fptr /\ s.fh = f.fh
  BY <1>3, <1>7, StoreRel, StorePlace
<1> HIDE DEF s
<1>9. RecordPlace(s)
  BY <1>7, <1>8 DEF RecordPlace
<1>10. ch' = s \/ ch' = refill(s, fault)
  BY <1>1, <1>2
<1>11. s.file \in Seq(Cell) /\ ch'.file \in Seq(Cell) /\ RelOpen(ch') /\ ch'.recordlen = n /\ RecordPlace(ch')
       /\ Grown(s.file, ch'.file, s.fptr + 1, s.fptr + n, n)
  <2>1. s.file \in Seq(Cell)
    BY <1>8 DEF RelOpen, Open, Chan
  <2>2. CASE ch' = s
    BY <1>8, <1>9, <2>1, <2>2, GrownNot
  <2>3. CASE ch' = refill(s, fault)
    <3>1. RecordStep(s, s.fptr + s.recordlen, ch')
      BY <1>8, <1>9, <2>3, RefillRecord
    <3> QED  BY <1>8, <2>1, <3>1 DEF RecordStep, RelOpen, Open, Chan
  <2> QED  BY <1>10, <2>2, <2>3
<1>12. CASE ch.mustflush = FALSE
  <2>1. s.file = ch.file /\ s.fptr = ch.fptr
    BY <1>6, <1>8, <1>12
  <2> QED  BY <1>11, <1>12, <2>1 DEF RecordStepAll
<1>13. CASE ch.mustflush = TRUE
  <2> DEFINE lo == ch.fptr + 1
             hi == ch.fptr + n
             up == ch.fptr + 2 * n
  <2>1. s.fptr = hi /\ Grown(ch.file, s.file, lo, hi, n)
    BY <1>5, <1>8, <1>13 DEF RecordStep
  <2>2. lo \in Nat /\ hi \in Nat /\ up \in Nat /\ hi <= up /\ lo <= hi + 1 /\ hi + n = up
    BY <1>4
  <2> HIDE DEF lo, hi, up
  <2>3. Grown(s.file, ch'.file, hi + 1, up, n)
    BY <1>11, <2>1, <2>2
  <2>4. Grown(ch.file, ch'.file, lo, up, n)
    BY <1>4, <1>11, <2>1, <2>2, <2>3, GrownTwice
  <2> QED  BY <1>11, <1>13, <2>4 DEF RecordStepAll, lo, up
<1> QED  BY <1>4, <1>12, <1>13

\* A byte fetched from a relative file, with the next record at the end of one
LEMMA TalkRecord ==
  ASSUME RelOpen(ch), RecordPlace(ch), NEW fault, Talk(fault), ch'.allocated
  PROVE  RecordStepAll(ch, ch')
<1> DEFINE n == Stepped(ch)
<1>1. ch \in Chan /\ ch.file \in Seq(Cell)
  BY DEF RelOpen, Open, Chan
<1>2. /\ n \in Chan /\ Same(ch, n) /\ n.file = ch.file /\ n.fh = ch.fh /\ n.fptr = ch.fptr
  BY <1>1, SteppedFacts
<1>3. ch' = n \/ ch' = refill(n, fault)
  <2>1. Rel
    BY DEF Rel, RelOpen
  <2> QED  BY <2>1 DEF Talk, Stepped
<1> HIDE DEF n
<1>4. RelOpen(n) /\ n.recordlen = ch.recordlen /\ RecordPlace(n)
  BY <1>2 DEF RelOpen, RelShape, Open, OnMedium, Same, RecordPlace
<1>5. CASE ch' = n
  <2>1. RecordStep(ch, ch.fptr, ch')
    BY <1>1, <1>2, <1>4, <1>5, GrownNot DEF RecordStep
  <2> QED  BY <2>1, OneOrTwo
<1>6. CASE ch' = refill(n, fault)
  <2>1. RecordStep(n, n.fptr + n.recordlen, ch')
    BY <1>4, <1>6, RefillRecord
  <2>2. RecordStep(ch, n.fptr + n.recordlen, ch')
    BY <1>2, <1>4, <2>1 DEF RecordStep
  <2> QED  BY <2>2, OneOrTwo
<1> QED  BY <1>3, <1>5, <1>6

\* P on a relative file
LEMMA PositionRecord ==
  ASSUME RelOpen(ch), RecordPlace(ch), NEW record \in Offsets, NEW pos \in 0 .. Payload, NEW fault,
         PositionRel(record, pos, fault), ch'.allocated
  PROVE  RecordStepAll(ch, ch')
<1> DEFINE r == IF record = 0 THEN 0 ELSE record - 1
           i == IF pos = 0 THEN 0 ELSE pos - 1
           n == ch.recordlen
           at == r * n
<1>1. ch' = fat_file_seek(ch, at, i, fault)
  BY DEF PositionRel
<1>2. r \in Nat /\ i \in Nat /\ n \in Nat
  BY FatFileAssumption, Sizes DEF RelOpen, Open, Chan
<1> HIDE DEF r, i
<1>3. at \in Nat /\ at = n * r /\ r \in Int
  <2> HIDE DEF n
  <2> QED  BY <1>2
<1>4. Divides(n, at)
  BY <1>3 DEF Divides
<1> HIDE DEF at
<1>5. RecordStep(ch, at, ch')
  BY <1>1, <1>2, <1>3, <1>4, SeekRecord
<1> QED  BY <1>5, OneOrTwo

\* A relative file is opened at its first record.
LEMMA OpenRecord ==
  ASSUME FileInv, NEW length \in Lengths \cup {0}, NEW fault, OpenRel(length, fault), ch'.allocated
  PROVE  RecordPlace(ch')
<1> DEFINE n == IF length = 0 THEN header' ELSE length
           c == [Pristine(ch.file) EXCEPT !.recordlen = n, !.read = TRUE, !.write = TRUE,
                                          !.refill = "fat_file_sync"]
           q == fat_file_read(c, fault)
<1>1. /\ ch.file \in Seq(Cell) /\ Len(ch.file) \in Nat /\ Len(ch.file) <= Cap
      /\ (type = "rel" => header \in Lengths)
  BY ClosedFacts DEF OpenRel
<1>2. ch' = q
  BY DEF OpenRel, fat_open_rel
<1>3. n \in Lengths
  BY <1>1 DEF OpenRel
<1> HIDE DEF n
<1>4. n \in 0 .. Payload
  <2>1. n \in 1 .. Payload
    BY <1>3, FatFileAssumption
  <2> QED  BY <2>1, Sizes
<1>5. Pristine(ch.file) \in Chan
  BY <1>1, Sizes DEF Pristine, Chan
<1>6. c \in Chan /\ c.file = ch.file /\ c.size = Len(ch.file) /\ c.fh = 0 /\ c.recordlen = n
  BY <1>4, <1>5 DEF Pristine, Chan
<1>7. OnMedium(c)
  BY <1>1, <1>6 DEF OnMedium
<1> HIDE DEF c
<1>8. q = Abort(c) \/ Refilled(c, q)
  BY <1>6, <1>7, ReadEffect
<1>9. Refilled(c, q)
  BY <1>2, <1>8, ClosedFree DEF Abort
<1> HIDE DEF q
<1>10. q \in Chan /\ OnMedium(q) /\ q.file = ch.file /\ q.fptr = 0 /\ q.recordlen = n
  BY <1>6, <1>9 DEF Refilled, Same
<1>11. q.fh \in Nat /\ q.fh <= Len(q.file)
  BY <1>10 DEF OnMedium, Chan
<1>12. q.fptr = Len(q.file) => q.fh = Len(q.file)
  BY <1>1, <1>10, <1>11
<1>13. Divides(n, 0)
  <2>1. n \in Int
    BY <1>4, Sizes
  <2>2. 0 = n * 0 /\ 0 \in Int
    BY <2>1
  <2> QED  BY <2>2 DEF Divides
<1> QED  BY <1>2, <1>10, <1>12, <1>13 DEF RecordPlace

\* A file opened for reading has no records.
LEMMA OpenPlain ==
  ASSUME FileInv, NEW fault, OpenRead(fault), ch'.allocated
  PROVE  ch'.recordlen = 0
<1> DEFINE c == [Pristine(ch.file) EXCEPT !.read = TRUE, !.refill = "fat_file_read"]
           q == fat_file_read(c, fault)
<1>1. ch.file \in Seq(Cell) /\ Len(ch.file) \in Nat /\ Len(ch.file) <= Cap
  BY ClosedFacts DEF OpenRead
<1>2. ch' = q
  BY DEF OpenRead, fat_open_read
<1>3. Pristine(ch.file) \in Chan
  BY <1>1, Sizes DEF Pristine, Chan
<1>4. c \in Chan /\ c.file = ch.file /\ c.size = Len(ch.file) /\ c.fh = 0 /\ c.recordlen = 0
  BY <1>3 DEF Pristine, Chan
<1>5. OnMedium(c)
  BY <1>1, <1>4 DEF OnMedium
<1> HIDE DEF c
<1>6. q = Abort(c) \/ Refilled(c, q)
  BY <1>4, <1>5, ReadEffect
<1>7. Refilled(c, q)
  BY <1>2, <1>6, ClosedFree DEF Abort
<1> QED  BY <1>2, <1>4, <1>7 DEF Refilled, Same

\* CLOSE leaves no channel open.
LEMMA CloseFrees ==
  ASSUME NEW fault, Close(fault)
  PROVE  ~ch'.allocated
BY ClosedFree DEF Close, fat_file_close, Abort, f_close

\* A relative file is opened by OpenRel only.
LEMMA RelFrom ==
  ASSUME HostStep, Mode' = "rel"
  PROVE  Mode \in {"rel", "closed"}
<1>1. CASE UNCHANGED Host!vars
  BY <1>1 DEF Host!vars
<1>2. CASE Host!Next
  BY <1>2 DEF Host!Next, Host!Open, Host!OpenRel, Host!Rel, Host!Scratch, Host!Get, Host!GetLost,
              Host!Fail, Host!Close, Host!Put, Host!Seek
<1> QED  BY <1>1, <1>2 DEF HostStep

RecordInv == FileInv /\ (Rel => RecordPlace(ch))

\* Every step keeps the place of the record and changes no other.
LEMMA RecordNext ==
  ASSUME RecordInv, FileInv', HostStep, [Next]_vars
  PROVE  /\ Rel' => RecordPlace(ch')
         /\ Rel /\ ch'.allocated => RecordStepAll(ch, ch')
<1>1. FileInv /\ ChannelOK(ch) /\ ChannelOK(ch')
  BY DEF RecordInv, FileInv
<1>2. ASSUME Rel, ch'.allocated PROVE RecordStepAll(ch, ch')
  <2>1. RelOpen(ch) /\ RecordPlace(ch) /\ ch.allocated = TRUE
    BY <1>1, <1>2, RelIsOpen DEF Rel, RecordInv, RelOpen, Open
  <2>2. CASE UNCHANGED vars
    <3>1. ch' = ch /\ ch.file \in Seq(Cell)
      BY <2>1, <2>2 DEF vars, RelOpen, Open, Chan
    <3>2. RecordStep(ch, ch.fptr, ch')
      BY <2>1, <3>1, GrownNot DEF RecordStep
    <3> QED  BY <2>1, <3>2, OneOrTwo
  <2>3. ASSUME NEW fault \in ReadFaults, Talk(fault) PROVE RecordStepAll(ch, ch')
    BY <1>2, <2>1, <2>3, TalkRecord
  <2>4. ASSUME NEW fault \in WriteFaults, NEW b \in Chars, NEW eoi \in BOOLEAN, Listen(b, eoi, fault)
        PROVE  RecordStepAll(ch, ch')
    BY <1>2, <2>1, <2>4, ListenRecord
  <2>5. ASSUME NEW fault \in SeekFaults, NEW n \in Offsets, NEW pos \in 0 .. Payload,
               PositionRel(n, pos, fault)
        PROVE  RecordStepAll(ch, ch')
    BY <1>2, <2>1, <2>5, PositionRecord
  <2>6. ASSUME NEW fault, Close(fault) PROVE FALSE
    BY <1>2, <2>6, CloseFrees
  <2>7. ASSUME NEW fault, NEW n, PositionFile(n, fault) PROVE FALSE
    BY <1>2, <2>7 DEF PositionFile
  <2>8. /\ ~OpenWrite /\ ~OpenAppend /\ ~Scratch /\ \A fault \in ReadFaults : ~OpenRead(fault)
        /\ \A fault \in ReadFaults, length \in Lengths \cup {0} : ~OpenRel(length, fault)
    BY <2>1 DEF OpenWrite, OpenAppend, Scratch, OpenRead, OpenRel
  <2> QED  BY <2>2, <2>3, <2>4, <2>5, <2>6, <2>7, <2>8 DEF Next
<1>3. ASSUME Rel' PROVE RecordPlace(ch')
  <2>1. RelOpen(ch') /\ ch'.allocated = TRUE
    BY <1>1, <1>3, RelIsOpen DEF Rel, RelOpen, Open
  <2>2. CASE Rel
    BY <1>2, <2>1, <2>2 DEF RecordStepAll
  <2>3. CASE ~Rel
    <3>1. Mode' = "rel"
      BY <2>1, ViewRel, HostVars
    <3>2. Mode = "closed"
      BY <2>3, <3>1, RelFrom DEF Mode
    <3>3. ~ch.allocated
      BY <2>3, <3>2 DEF Mode
    <3>4. ASSUME NEW fault \in ReadFaults, NEW length \in Lengths \cup {0}, OpenRel(length, fault)
          PROVE  RecordPlace(ch')
      BY <1>1, <2>1, <3>4, OpenRecord
    <3>5. ch' # ch
      BY <2>1, <3>3
    <3>6. ch'.recordlen # 0
      BY <1>3 DEF Rel
    <3>7. ~OpenWrite /\ ~OpenAppend /\ ~Scratch
      BY <2>1, <3>6, ClosedFree DEF OpenWrite, OpenAppend, Scratch, fat_open_write, Pristine
    <3>8. ASSUME NEW fault, OpenRead(fault) PROVE FALSE
      <4>1. ch'.recordlen = 0
        BY <1>1, <2>1, <3>8, OpenPlain
      <4> QED  BY <3>6, <4>1
    <3>9. /\ \A fault : ~Talk(fault) /\ ~Close(fault)
          /\ \A fault, b, eoi : ~Listen(b, eoi, fault)
          /\ \A fault, n : ~PositionFile(n, fault)
          /\ \A fault, n, pos : ~PositionRel(n, pos, fault)
      BY <3>3 DEF Talk, Close, Listen, PositionFile, PositionRel
    <3> QED  BY <3>4, <3>5, <3>7, <3>8, <3>9 DEF Next, vars
  <2> QED  BY <2>2, <2>3
<1> QED  BY <1>2, <1>3

-----------------------------------------------------------------------------
(* The theorems.                                                           *)

\* A new channel is closed, and its file empty.
LEMMA InvInit ==
  ASSUME Init
  PROVE  FileInv /\ Host!Init
<1>1. <<>> \in Seq(Cell) /\ Len(<<>>) <= Cap
  BY Sizes
<1>2. ch = Closed(<<>>) /\ type = "none" /\ got = Nothing /\ lost = FALSE
  BY DEF Init
<1>3. ch.file = <<>> /\ ch.allocated = FALSE /\ ChannelOK(ch)
  BY <1>1, <1>2, ShutFile
<1>4. Mode = "closed" /\ hostContent = <<>> /\ hostNext = 0
  BY <1>3, ViewClosed, HostVars
<1>5. FileInv
  BY <1>2, <1>3, <1>4, Sizes DEF FileInv, Nothing
<1>6. Host!Init
  BY <1>2, <1>4 DEF Host!Init, hostContent, hostNext, Nothing, Host!Nothing
<1> QED  BY <1>5, <1>6

\* Every step keeps the invariant and is a step of the sequential file, or one
\* that the host does not see.
LEMMA InvNext ==
  ASSUME FileInv, [Next]_vars
  PROVE  FileInv' /\ HostStep
<1>1. CASE UNCHANGED vars
  <2>1. ch' = ch /\ type' = type /\ header' = header /\ got' = got /\ lost' = lost
    BY <1>1 DEF vars
  <2>2. UNCHANGED <<hostContent, Mode, hostNext, got>>
    BY <2>1, HostVars
  <2>3. FileInv'
    BY <2>1, <2>2, InvAfter DEF FileInv
  <2>4. UNCHANGED Host!vars
    BY <2>2 DEF Host!vars, hostContent, hostNext
  <2> QED  BY <2>3, <2>4 DEF HostStep
<1>2. CASE OpenWrite
  BY <1>2, DoOpenWrite
<1>3. CASE OpenAppend
  BY <1>3, DoOpenAppend
<1>4. CASE Scratch
  BY <1>4, DoScratch
<1>5. ASSUME NEW fault \in ReadFaults, OpenRead(fault) PROVE FileInv' /\ HostStep
  BY <1>5, DoOpenRead
<1>6. ASSUME NEW fault \in ReadFaults, Talk(fault) PROVE FileInv' /\ HostStep
  BY <1>6, DoTalk
<1>7. ASSUME NEW fault \in ReadFaults, NEW length \in Lengths \cup {0}, OpenRel(length, fault)
      PROVE  FileInv' /\ HostStep
  BY <1>7, DoOpenRel
<1>8. ASSUME NEW fault \in WriteFaults \cup {"close"}, Close(fault) PROVE FileInv' /\ HostStep
  BY <1>8, DoClose
<1>9. ASSUME NEW fault \in WriteFaults, NEW b \in Chars, NEW eoi \in BOOLEAN, Listen(b, eoi, fault)
      PROVE  FileInv' /\ HostStep
  BY <1>9, DoListen
<1>10. ASSUME NEW fault \in SeekFaults, NEW n \in Offsets, PositionFile(n, fault)
       PROVE  FileInv' /\ HostStep
  BY <1>10, DoPositionFile
<1>11. ASSUME NEW fault \in SeekFaults, NEW n \in Offsets, NEW pos \in 0 .. Payload,
              PositionRel(n, pos, fault)
       PROVE  FileInv' /\ HostStep
  BY <1>11, DoPositionRel
<1> QED
  BY <1>1, <1>2, <1>3, <1>4, <1>5, <1>6, <1>7, <1>8, <1>9, <1>10, <1>11 DEF Next

\* The positions of the buffer stay in the data area and the file on the medium,
\* whatever the calls of FatFs return.
THEOREM FileTypesHold == Spec => []TypeOK
<1>1. Init => FileInv
  BY InvInit
<1>2. FileInv /\ [Next]_vars => FileInv'
  BY InvNext
<1>3. FileInv => TypeOK
  BY DEF FileInv, ChannelOK, OnMedium, Chan, Cell, TypeOK
<1> QED  BY <1>1, <1>2, <1>3, PTL DEF Spec

\* A channel on a FAT file implements the sequential file the host expects: its
\* bytes come back in order across the ends of the buffer, EOI comes with the
\* last byte, a gap reads as zeros and an error keeps a part of what was sent.
THEOREM ImplementsSequentialHolds == Spec => ImplementsSequential
<1>1. Init => FileInv /\ Host!Init
  BY InvInit
<1>2. FileInv /\ [Next]_vars => FileInv'
  BY InvNext
<1>3. FileInv /\ [Next]_vars => [Host!Next]_(Host!vars)
  BY InvNext DEF HostStep
<1> QED  BY <1>1, <1>2, <1>3, PTL DEF Spec, ImplementsSequential, Host!Spec

\* Writing to a record of a relative file changes no other record, and the
\* records that come into being before it are empty.
THEOREM RecordIsolatedHolds == Spec => RecordIsolated
<1>1. Init => RecordInv
  <2>1. Init => ~Rel
    BY DEF Init, Rel, Closed, Pristine
  <2> QED  BY <2>1, InvInit DEF RecordInv
<1>2. RecordInv /\ [Next]_vars => RecordInv'
  BY InvNext, RecordNext DEF RecordInv
<1> DEFINE n == ch.recordlen
           mine == ch.fptr + 1 .. ch.fptr + (IF ch.mustflush THEN 2 * n ELSE n)
           Isolated == Rel /\ ch'.allocated
                         => /\ Len(ch'.file) >= Len(ch.file)
                            /\ \A i \in 1 .. Len(ch'.file) :
                                 \/ i \in mine
                                 \/ ch'.file[i] = IF i <= Len(ch.file) THEN ch.file[i]
                                                  ELSE IF i % n = 1 % n THEN FF ELSE 0
<1>3. RecordInv /\ [Next]_vars => Isolated
  <2> SUFFICES ASSUME RecordInv, [Next]_vars, Rel, ch'.allocated
               PROVE  Isolated
    OBVIOUS
  <2>1. FileInv' /\ HostStep
    BY InvNext DEF RecordInv
  <2>2. RecordStepAll(ch, ch')
    BY <2>1, RecordNext
  <2>3. Len(ch.file) \in Nat /\ Len(ch'.file) \in Nat
    BY <2>1, LenProperties DEF RecordInv, FileInv, ChannelOK, Chan
  <2> QED  BY <2>2, <2>3 DEF RecordStepAll, Grown, Blank
<1> HIDE DEF Isolated
<1>4. RecordIsolated <=> [][Isolated]_vars
  BY DEF RecordIsolated, Isolated
<1> QED  BY <1>1, <1>2, <1>3, <1>4, PTL DEF Spec
=============================================================================
