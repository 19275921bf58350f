------------------------------ MODULE FatBuffer ------------------------------
(***************************************************************************)
(* A file on the FAT file system behind the 256-byte buffer of a channel:  *)
(* the callbacks of fatops.c as operators on one value, the buffer with    *)
(* its file handle.  The data area is scaled from 256 to W bytes; as in    *)
(* the code positions are bytes that wrap at W, the first two bytes of the *)
(* area are not used for data, and 0 means that the position has wrapped.  *)
(*                                                                         *)
(* Offsets in the file are counted from the end of the [PSUR]00 or REL     *)
(* header, which every use in fatops.c subtracts again.  The error channel *)
(* is left out: an error that ends the transfer frees the buffer.  fault   *)
(* names the call of FatFs that fails, if one does.                        *)
(***************************************************************************)
EXTENDS Integers, Sequences, FiniteSetsExt

CONSTANTS W,          \* size of the data area, 256 in the code
          Cap         \* bytes the medium has room for in one file

ASSUME FatBufferAssumption == W \in 3 .. 256 /\ Cap \in Nat

CR   == 13
FF   == 255
Junk == -1            \* what memory or a new cluster happens to hold

Payload == W - 2
Area    == 0 .. W - 1

Repeat(b, n) == [i \in 1 .. n |-> b]

\* The sequence s with t written over it from offset at, at <= Len(s).
Overwrite(s, at, t) ==
  SubSeq(s, 1, at) \o t \o SubSeq(s, at + Len(t) + 1, Len(s))

-----------------------------------------------------------------------------
(* A buffer with the handle of a file.  refill names the callback.  file   *)
(* is the file as the handle sees it, of which the directory entry records *)
(* the first size bytes: the entry is brought up to date by f_close.       *)

Pristine(file) ==
  [allocated |-> TRUE, read |-> FALSE, write |-> FALSE, dirty |-> FALSE,
   mustflush |-> FALSE, sendeoi |-> FALSE, recordlen |-> 0, fptr |-> 0,
   position |-> 0, lastused |-> 0, data |-> [i \in Area |-> Junk],
   refill |-> "callback_dummy", fh |-> 0, file |-> file, size |-> Len(file)]

\* A channel that is not open.
Closed(file) == [Pristine(file) EXCEPT !.allocated = FALSE]

\* free_buffer, with f_close before it or without.
Abort(c)   == Closed(SubSeq(c.file, 1, c.size))
f_close(c) == Closed(c.file)

Writable(c) == c.refill \in {"fat_file_write", "fat_file_sync"}

\* f_lseek stretches a file that is open for writing.
f_lseek(c, ofs) ==
  LET to == IF Writable(c) THEN Min({ofs, Cap}) ELSE Min({ofs, Len(c.file)})
  IN  [c EXCEPT !.fh   = to,
                !.file = IF to > Len(@) THEN @ \o Repeat(Junk, to - Len(@)) ELSE @]

-----------------------------------------------------------------------------
\* A file opened for writing only has no FA_READ: f_read fails.
fat_file_read(c, fault) ==
  IF fault = "read" \/ c.refill = "fat_file_write" THEN Abort(c)
  ELSE LET n == IF c.recordlen # 0 THEN c.recordlen ELSE Payload
           k == Min({n, Len(c.file) - c.fh})
           d == [i \in Area |->
                   IF i \in 2 .. k + 1 THEN c.file[c.fh + i - 1]
                   ELSE IF k = 0 /\ i = 2
                     THEN IF c.recordlen # 0 THEN FF ELSE CR
                     ELSE c.data[i]]
           last == (IF k = 0 THEN 1 ELSE k) + 1
       IN  [c EXCEPT
             !.fptr     = c.fh,
             !.fh       = @ + k,
             !.data     = d,
             !.position = 2,
             !.lastused = IF c.recordlen = 0 THEN last
                          ELSE Max({1} \cup {i \in 2 .. last : d[i] # 0}),
             !.sendeoi  = \/ k < Payload
                          \/ c.fh + k = Len(c.file)
                          \/ c.recordlen # 0]

\* Mistake: a shorter record leaves the rest of the old one.
memset_nothing(c, used) == c.data

\* The data area with a record padded with zeros.
memset_record(c, used) ==
  [i \in Area |-> IF i \in used + 1 .. c.recordlen + 1 THEN 0 ELSE c.data[i]]

\* A record is written whole, and cut off at its length.
write_data(c, fault) ==
  LET used  == IF c.mustflush THEN c.lastused ELSE (c.position - 1) % W
      d     == memset_record(c, used)
      last  == IF c.recordlen # 0 THEN c.recordlen + 1 ELSE used
      bytes == [i \in 1 .. last - 1 |-> d[i + 1]]
      n     == Min({Len(bytes), Cap - c.fh})
      w     == [c EXCEPT !.data = d,
                         !.file = Overwrite(@, c.fh, SubSeq(bytes, 1, n)),
                         !.fh   = @ + n]
  IN  IF fault = "write" THEN f_close(c)
      ELSE IF n < Len(bytes) THEN f_close(w)
      ELSE [w EXCEPT !.dirty = FALSE, !.mustflush = FALSE,
                     !.position = 2, !.lastused = 2, !.fptr = w.fh]

\* Mistake: the mark of an empty record is left out.
EmptyRecord_zeros(c) == Repeat(0, c.recordlen)

EmptyRecord(c) == <<FF>> \o Repeat(0, c.recordlen - 1)

\* The fill loop of fat_file_write: gap bytes from offset size, in whole
\* records or in blocks.  The unsigned counter steps over 0 when the gap is
\* not a multiple of the record length; the loop then ends with the medium,
\* as it does when f_lseek could not stretch the file so far.
Filled(c, size, gap, fault) ==
  LET full  == \/ size + gap > Cap
               \/ c.recordlen # 0 /\ gap % c.recordlen # 0
      bytes == [i \in 1 .. (IF full THEN Cap - size ELSE gap) |->
                  IF c.recordlen = 0 THEN 0 ELSE EmptyRecord(c)[((i - 1) % c.recordlen) + 1]]
      w     == [c EXCEPT !.file = Overwrite(@, size, bytes)]
  IN  IF fault = "fill" THEN f_close(c)
      ELSE IF full THEN f_close(w)
      ELSE [w EXCEPT
             !.data = [i \in Area |-> IF i = 2 /\ c.recordlen # 0 THEN FF
                                      ELSE IF i < 2 THEN c.data[i] ELSE 0],
             !.fh   = Len(w.file),
             !.fptr = Len(w.file)]

fat_file_write(c, fault) ==
  LET size == Len(c.file)
      at   == IF c.fptr # size THEN f_lseek(c, c.fptr) ELSE c
      w    == write_data(at, fault)
  IN  IF c.fptr # size /\ fault = "lseek" THEN f_close(c)
      ELSE IF w.allocated /\ c.fptr > size THEN Filled(w, size, c.fptr - size, fault)
      ELSE w

fat_file_seek(c, position, index, fault) ==
  LET w == IF c.dirty THEN fat_file_write(c, fault) ELSE c
      s == IF ~w.allocated THEN w
           ELSE IF Len(w.file) >= position
             THEN IF fault = "lseek" THEN f_close(w)
                  ELSE fat_file_read(f_lseek(w, position), fault)
             ELSE [w EXCEPT !.data[2]  = IF w.recordlen # 0 THEN FF ELSE CR,
                            !.lastused = 2,
                            !.fptr     = position]
  IN  IF ~s.allocated THEN s
      ELSE [s EXCEPT !.position = Min({index + 2, s.lastused})]

fat_file_sync(c, fault) == fat_file_seek(c, c.fptr + c.recordlen, 0, fault)

\* The refill callback of the buffer.
refill(c, fault) ==
  CASE c.refill = "fat_file_read"  -> fat_file_read(c, fault)
    [] c.refill = "fat_file_write" -> fat_file_write(c, fault)
    [] c.refill = "fat_file_sync"  -> fat_file_sync(c, fault)
    [] OTHER -> c

fat_file_close(c, fault) ==
  LET w == IF c.write THEN refill(c, fault) ELSE c
  IN  IF ~w.allocated THEN w
      ELSE IF fault = "close" THEN Abort(w) ELSE f_close(w)

-----------------------------------------------------------------------------
(* The open functions.                                                     *)

fat_open_read(file, fault) ==
  fat_file_read([Pristine(file) EXCEPT !.read = TRUE,
                                       !.refill = "fat_file_read"], fault)

\* For a new file, file is <<>>; for append it is what there is.
\* The CR never reaches the file: see Close in CbmFile.
fat_open_write(file) ==
  [Pristine(file) EXCEPT
    !.write = TRUE, !.position = 2, !.lastused = 2, !.data[2] = CR,
    !.refill = "fat_file_write", !.fh = Len(file), !.fptr = Len(file)]

\* header is the record length the file was created with.
fat_open_rel(file, header, length, fault) ==
  fat_file_read([Pristine(file) EXCEPT
                  !.recordlen = IF length = 0 THEN header ELSE length,
                  !.read = TRUE, !.write = TRUE,
                  !.refill = "fat_file_sync"], fault)
=============================================================================
