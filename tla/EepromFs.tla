------------------------------ MODULE EepromFs ------------------------------
(***************************************************************************)
(* The file system in the unused EEPROM (eeprom-fs.c) under the callbacks  *)
(* of eefs-ops.c, with a power failure between any two EEPROM writes.      *)
(*                                                                         *)
(* A directory entry is a row of cells in the order in which write_entry   *)
(* writes them.  A name entry holds Links sectors, name, size, flags and   *)
(* the next entry; a list entry has two more sectors in the cells of name  *)
(* and size (12 + 16 + 2 and 30 bytes in the code).  A data byte is a tag, *)
(* the name its file was created with, and the offset it was written for.  *)
(***************************************************************************)
EXTENDS Integers, Sequences, FiniteSetsExt

CONSTANTS Names,          \* file names, numbers below 255
          ENTRIES,        \* EEPROMFS_ENTRIES
          SECTOR_COUNT,
          SECTORSIZE,     \* EEPROMFS_SECTORSIZE
          Links,          \* sectors in a name entry
          Chunk,          \* bytes in a full buffer
          MaxSize,        \* bound: the length of a file
          MaxOps,         \* bound: operations on the directory
          MaxFailures     \* bound: power failures within an operation

ASSUME EepromFsAssumption ==
  /\ Names \subseteq 1 .. 254
  /\ ENTRIES \in 1 .. 254 /\ SECTOR_COUNT \in 1 .. 254
  /\ SECTORSIZE \in 2 .. 256 /\ Links \in 1 .. 250
  /\ Chunk \in 1 .. 254 /\ MaxSize \in Nat /\ MaxOps \in Nat /\ MaxFailures \in Nat

VARIABLES ee,       \* the EEPROM: dir and data
          ram,      \* used_sectors, used_entries, free_sectors
          fh,       \* the file handle in the buffer of the open file
          error,    \* what the last operation returned
          got,      \* the bytes read last (history)
          expect,   \* the length and first name of each file (history)
          unsure,   \* names whose contents are not promised (history)
          ops,      \* operations on the directory so far
          failures, \* power failures so far
          damaged   \* a power failure left a link to an erased entry, an appended
                    \* file needed a new sector, or the EEPROM was formatted
                    \* under a file open for writing (history)

vars == <<ee, ram, fh, error, got, expect, unsure, ops, failures, damaged>>

FF      == 255
Absent  == [size |-> -1, tag |-> 0]
Torn    == 0            \* a name of which some bytes have been written
Erased  == <<0, 0>>
NAME    == Links + 1
SIZE    == Links + 2
FLAGS   == Links + 3
NEXT    == Links + 4
Cells   == 1 .. NEXT
Entries == 0 .. ENTRIES - 1
Sectors == 0 .. SECTOR_COUNT - 1

EEFS_FLAG_LISTENTRY == 2

-----------------------------------------------------------------------------
(* A device d is the EEPROM with the RAM bitmaps; past is every state the  *)
(* EEPROM went through since the operation began.                          *)

Device == [dir |-> ee.dir, data |-> ee.data, past |-> {ee},
           sectors |-> ram.sectors, entries |-> ram.entries,
           free |-> ram.free, asserted |-> TRUE]

EE(d) == [dir |-> d.dir, data |-> d.data]

deleted(entry) == entry[FLAGS] = FF

\* An erased entry has all flags set.
curentry_is_listentry(entry) == entry[FLAGS] \in {EEFS_FLAG_LISTENTRY, FF}

curentry_max_sectors(entry) ==
  IF curentry_is_listentry(entry) THEN Links + 2 ELSE Links

\* Mistake: flags and link are written before the rest.
write_entry_flags_first(d, index, entry) ==
  LET Upto(k) == [c \in Cells |-> IF c >= NEXT - k THEN entry[c] ELSE d.dir[index][c]]
  IN  [d EXCEPT !.dir[index] = entry,
                !.past = @ \cup {[dir  |-> [d.dir EXCEPT ![index] = Upto(k)],
                                  data |-> d.data] : k \in Cells}]

\* Only cells that differ are written, from the first to the last.  A new name
\* over an old one takes several writes.
write_entry(d, index, entry) ==
  LET Upto(k) == [c \in Cells |-> IF c <= k THEN entry[c] ELSE d.dir[index][c]]
      half    == IF /\ entry[NAME] # d.dir[index][NAME] /\ d.dir[index][NAME] # FF
                    /\ ~curentry_is_listentry(d.dir[index])
                   THEN {[Upto(Links) EXCEPT ![NAME] = Torn]} ELSE {}
  IN  [d EXCEPT !.dir[index] = entry,
                !.past = @ \cup {[dir  |-> [d.dir EXCEPT ![index] = e], data |-> d.data]
                                 : e \in half \cup {Upto(k) : k \in Cells}}]

write_byte(d, sector, offset, b) ==
  LET w == [d EXCEPT !.data[sector][offset] = b]
  IN  [w EXCEPT !.past = @ \cup {EE(w)}]

\* Assumes that the state of the sector flips.
mark_sector(d, sector, used) ==
  [d EXCEPT !.sectors  = IF used THEN @ \cup {sector} ELSE @ \ {sector},
            !.free     = (IF used THEN @ - 1 ELSE @ + 1) % 256,
            !.asserted = @ /\ (sector \in d.sectors) # used]

\* The first element of 0 .. n - 1 outside used, from start and round once.
NextFree(used, start, n) ==
  LET free == (0 .. n - 1) \ used
  IN  IF free = {} THEN FF
      ELSE IF \E x \in free : x >= start THEN Min({x \in free : x >= start})
      ELSE Min(free)

\* start is FF after an append to an empty file: the bit read is not one of
\* the bitmap.  If it is clear, FF is "free", otherwise the search starts at 0
\* (and does not end if nothing is free; that outcome is left out).
next_free_sector(d, start, stray) ==
  IF start # FF THEN NextFree(d.sectors, start, SECTOR_COUNT)
  ELSE IF stray THEN NextFree(d.sectors, 0, SECTOR_COUNT)
  ELSE FF

next_free_entry(d, start) == NextFree(d.entries, start, ENTRIES)

find_entry(d, name) ==
  LET found == {i \in Entries : /\ ~deleted(d.dir[i])
                                /\ ~curentry_is_listentry(d.dir[i])
                                /\ d.dir[i][NAME] = name}
  IN  IF found = {} THEN FF ELSE Min(found)

\* Mistake: a list entry is scanned like a name entry.
eepromfs_init_short(e) ==
  LET live == {i \in Entries : ~deleted(e.dir[i])}
      used == UNION {{e.dir[i][c] : c \in 1 .. Links} \ {FF} : i \in live}
  IN  [sectors |-> used, entries |-> live, free |-> SECTOR_COUNT - Cardinality(used),
       asserted |-> TRUE]

\* What eepromfs_init makes of an EEPROM.
eepromfs_init(e) ==
  LET live     == {i \in Entries : ~deleted(e.dir[i])}
      Used(i)  == {e.dir[i][c] : c \in 1 .. curentry_max_sectors(e.dir[i])} \ {FF}
      marks    == {x \in live \X Cells : /\ x[2] <= curentry_max_sectors(e.dir[x[1]])
                                         /\ e.dir[x[1]][x[2]] # FF}
  IN  [sectors  |-> UNION {Used(i) : i \in live},
       entries  |-> live,
       free     |-> (SECTOR_COUNT - Cardinality(marks)) % 256,
       asserted |-> Cardinality(marks) = Cardinality(UNION {Used(i) : i \in live})]

-----------------------------------------------------------------------------
(* Operations on the device.  Each yields the device d, the handle h and   *)
(* an error code.                                                          *)

Result(d, h, err) == [d |-> d, h |-> h, err |-> err]

Closed == [mode |-> "closed", name |-> 0, tag |-> 0, size |-> 0, offset |-> 0, entry |-> 0,
           sector |-> 0, soffset |-> 0, cur |-> 0, sindex |-> 0, grown |-> FALSE]

Tag(name) == IF expect[name] = Absent THEN name ELSE expect[name].tag

NewEntry(name) ==
  [c \in Cells |-> CASE c = NAME -> name [] c = SIZE -> 0 [] c = FLAGS -> 0 [] OTHER -> FF]

open_write(d, name) ==
  LET free == next_free_entry(d, 0)
  IN  IF find_entry(d, name) # FF THEN Result(d, Closed, "FILEEXISTS")
      ELSE IF free = FF THEN Result(d, Closed, "DIRFULL")
      ELSE Result(write_entry([d EXCEPT !.entries = @ \cup {free}], free, NewEntry(name)),
                  [Closed EXCEPT !.mode = "write", !.name = name, !.tag = name, !.entry = free,
                                 !.cur = free, !.sindex = -1],
                  "OK")

open_read(d, name) ==
  LET i == find_entry(d, name)
  IN  IF i = FF THEN Result(d, Closed, "FILENOTFOUND")
      ELSE Result(d, [Closed EXCEPT !.mode = "read", !.name = name, !.tag = Tag(name),
                                    !.entry = i,
                                    !.size = d.dir[i][SIZE], !.sector = d.dir[i][1],
                                    !.cur = i], "OK")

\* The last entry of the chain that starts at i; links may lead to erased entries.
LastEntry(d, i) ==
  LET step[k \in 0 .. ENTRIES] ==
        IF k = 0 THEN i
        ELSE LET j == step[k - 1]
             IN  IF d.dir[j][NEXT] = FF THEN j ELSE d.dir[j][NEXT]
  IN  step[ENTRIES]

\* cur_sindex stays 0.
open_append(d, name) ==
  LET i     == find_entry(d, name)
      last  == LastEntry(d, i)
      entry == d.dir[last]
      full  == {c \in 1 .. curentry_max_sectors(entry) :
                  \A b \in 1 .. c : entry[b] # FF}
      size  == d.dir[i][SIZE]
  IN  IF i = FF THEN Result(d, Closed, "FILENOTFOUND")
      ELSE Result(d, [Closed EXCEPT !.mode = "write", !.name = name, !.tag = Tag(name),
                                    !.entry = i, !.size = size, !.offset = size,
                                    !.soffset = size % SECTORSIZE,
                                    !.sector = entry[Max({1} \cup full)],
                                    !.cur = last, !.grown = TRUE], "OK")

\* A new sector for the handle: a link to another entry first, if the current
\* one is full.
AllocateSector(d, h, stray) ==
  LET sector == next_free_sector(d, h.sector, stray)
      entry  == d.dir[h.cur]
      h1     == [h EXCEPT !.sector = sector, !.sindex = @ + 1]
      full   == h1.sindex >= curentry_max_sectors(entry)
      list   == next_free_entry(d, h.cur)
      linked == write_entry([d EXCEPT !.entries = @ \cup {list}], h.cur,
                            [entry EXCEPT ![NEXT] = list])
      blank  == [c \in Cells |-> IF c = FLAGS THEN EEFS_FLAG_LISTENTRY ELSE FF]
      Note(x, index, e, hh) ==
        Result(write_entry(mark_sector(x, sector, TRUE), index,
                           [e EXCEPT ![hh.sindex + 1] = sector]), hh, "OK")
  IN  IF sector = FF THEN Result(d, h, "DISKFULL")
      ELSE IF ~full THEN Note(d, h.cur, entry, h1)
      ELSE IF list = FF THEN Result(d, h1, "DIRFULL")
      ELSE Note(linked, list, blank, [h1 EXCEPT !.cur = list, !.sindex = 0])

\* One byte of the loop of eepromfs_write, which does the same in pieces of a
\* sector.
WriteByte(r, stray) ==
  IF r.err # "OK" THEN r
  ELSE LET a == IF r.h.soffset = 0 THEN AllocateSector(r.d, r.h, stray) ELSE r
       IN  IF a.err # "OK" THEN a
           ELSE Result(write_byte(a.d, a.h.sector, a.h.soffset, <<a.h.tag, a.h.offset>>),
                       [a.h EXCEPT !.size    = @ + 1, !.offset = @ + 1,
                                   !.soffset = (@ + 1) % SECTORSIZE],
                       "OK")

eepromfs_write(d, h, n, stray) ==
  LET after[k \in 0 .. n] ==
        IF k = 0 THEN Result(d, h, "OK") ELSE WriteByte(after[k - 1], stray)
  IN  after[n]

\* Mistake: the chain is not followed from entry to entry.
NextSector_one_entry(d, h) ==
  LET i == (h.sindex + 1) % curentry_max_sectors(d.dir[h.cur])
  IN  [h EXCEPT !.sindex = i, !.sector = d.dir[h.cur][i + 1]]

\* The handle at the next sector of the file.
NextSector(d, h) ==
  LET over == h.sindex + 1 >= curentry_max_sectors(d.dir[h.cur])
      cur  == IF over THEN d.dir[h.cur][NEXT] ELSE h.cur
      i    == IF over THEN 0 ELSE h.sindex + 1
  IN  [h EXCEPT !.cur = cur, !.sindex = i,
                !.sector = IF cur = FF THEN FF ELSE d.dir[cur][i + 1]]

\* A sector number FF leads out of the data area; so do asserts that fail.
ReadByte(d, r) ==
  IF r.h.sector = FF THEN [r EXCEPT !.bytes = Append(@, Erased), !.ok = FALSE]
  ELSE LET h == [r.h EXCEPT !.offset = @ + 1, !.soffset = (@ + 1) % SECTORSIZE]
       IN  [r EXCEPT !.bytes = Append(@, d.data[r.h.sector][r.h.soffset]),
                     !.h = IF h.offset # h.size /\ h.soffset = 0
                             THEN NextSector(d, h) ELSE h]

eepromfs_read(d, h, n) ==
  LET len == Min({n, h.size - h.offset})
      after[k \in 0 .. len] ==
        IF k = 0 THEN [h |-> h, bytes |-> <<>>, ok |-> TRUE]
                 ELSE ReadByte(d, after[k - 1])
  IN  after[len]

eepromfs_close(d, h) ==
  IF h.mode # "write" THEN d
  ELSE write_entry(d, h.entry, [d.dir[h.entry] EXCEPT ![SIZE] = h.size])

eepromfs_rename(d, old, new) ==
  LET i == find_entry(d, old)
  IN  IF find_entry(d, new) # FF THEN Result(d, fh, "FILEEXISTS")
      ELSE IF i = FF THEN Result(d, fh, "FILENOTFOUND")
      ELSE Result(write_entry(d, i, [d.dir[i] EXCEPT ![NAME] = new]), fh, "OK")

\* One turn of the loop of eepromfs_delete: free the sectors of entry i up to
\* the first gap and erase it.  used_entries is left alone.
FreeEntry(d, i) ==
  LET max   == curentry_max_sectors(d.dir[i])
      count == Max({0} \cup {c \in 1 .. max : \A b \in 1 .. c : d.dir[i][b] # FF})
      freed[k \in 0 .. count] ==
        IF k = 0 THEN d ELSE mark_sector(freed[k - 1], d.dir[i][k], FALSE)
  IN  write_entry(freed[count], i, [c \in Cells |-> FF])

eepromfs_delete(d, name) ==
  LET first == find_entry(d, name)
      after[k \in 0 .. ENTRIES] ==
        IF k = 0 THEN [d |-> d, i |-> first]
        ELSE LET r == after[k - 1]
             IN  IF r.i = FF THEN r
                 ELSE [d |-> FreeEntry(r.d, r.i), i |-> r.d.dir[r.i][NEXT]]
  IN  IF first = FF THEN Result(d, fh, "FILENOTFOUND")
      ELSE Result(after[ENTRIES].d, fh, "OK")

\* The directory that eepromfs_readdir lists.
eepromfs_readdir(e) ==
  {<<e.dir[i][NAME], e.dir[i][SIZE]>> :
     i \in {j \in Entries : ~deleted(e.dir[j]) /\ ~curentry_is_listentry(e.dir[j])}}

Blank == [dir  |-> [i \in Entries |-> [c \in Cells |-> FF]],
          data |-> [s \in Sectors |-> [o \in 0 .. SECTORSIZE - 1 |-> Erased]]]

-----------------------------------------------------------------------------
(* The operations as the host sees them.                                   *)

Init ==
  /\ ee = Blank
  /\ ram = eepromfs_init(Blank)
  /\ fh = Closed
  /\ error = "OK"
  /\ got = <<>>
  /\ expect = [n \in Names |-> Absent]
  /\ unsure = {}
  /\ ops = 0 /\ failures = 0 /\ damaged = FALSE

RAM(d) == [sectors |-> d.sectors, entries |-> d.entries, free |-> d.free,
           asserted |-> d.asserted]

\* A link that a power failure has left before the entry it leads to.
Dangling(e) == \E i \in Entries : /\ ~deleted(e.dir[i])
                                  /\ e.dir[i][NEXT] # FF
                                  /\ e.dir[e.dir[i][NEXT]][FLAGS] # EEFS_FLAG_LISTENTRY

\* A file that is open for writing has no length yet.
Unclosed == IF fh.mode = "write" THEN {fh.name} ELSE {}

\* eefsops_init at start or after a card change: all buffers are gone.
Restart(e, touched) ==
  /\ ee' = e
  /\ ram' = eepromfs_init(e)
  /\ fh' = Closed
  /\ error' = "OK" /\ got' = <<>>
  /\ damaged' = (damaged \/ Dangling(e) \/ (fh.grown /\ e.dir # ee.dir))
  /\ unsure' = unsure \cup touched \cup Unclosed
  /\ UNCHANGED expect

\* The operation with result r runs to its end, or the power fails in it and
\* what becomes of the files touched is not promised.
Finish(r, new, doubt, touched) ==
  \/ /\ ee' = EE(r.d) /\ ram' = RAM(r.d)
     /\ fh' = r.h
     /\ error' = r.err
     /\ expect' = new
     /\ unsure' = unsure \cup doubt
     /\ damaged' = (damaged \/ (fh.grown /\ r.d.sectors # ram.sectors))
     /\ got' = <<>> /\ UNCHANGED failures
  \/ /\ failures < MaxFailures /\ failures' = failures + 1
     /\ \E e \in r.d.past : Restart(e, touched)

\* eefs_open_write
OpenWrite(n) ==
  /\ fh = Closed
  /\ LET r == open_write(Device, n)
     IN  Finish(r, IF r.err = "OK" THEN [expect EXCEPT ![n] = [size |-> 0, tag |-> n]] ELSE expect, {}, {n})

OpenAppend(n) ==
  /\ fh = Closed
  /\ Finish(open_append(Device, n), expect, {}, {n})

\* eefs_open_read
OpenRead(n) ==
  /\ fh = Closed
  /\ Finish(open_read(Device, n), expect, {}, {})

\* The files of which a write may go wrong: an appended one that needs another
\* sector, for which cur_sindex is not set.
Doubt(r) == IF fh.grown /\ r.d.sectors # ram.sectors THEN {fh.name} ELSE {}

\* Does an operation still find the entry it opened?
Lost == fh.mode = "write" /\ (deleted(ee.dir[fh.entry]) \/ ee.dir[fh.entry][NAME] # fh.name)

Grown(r) ==
  IF Lost THEN expect
  ELSE [expect EXCEPT ![fh.name] = [size |-> r.h.size, tag |-> fh.tag]]

\* eefs_refill_write: an error closes the file and frees the buffer.
Write(stray) ==
  /\ fh.mode = "write" /\ fh.size + Chunk <= MaxSize
  /\ stray => fh.sector = FF
  /\ LET r == eepromfs_write(Device, fh, Chunk, stray)
         c == Result(eepromfs_close(r.d, r.h), Closed, r.err)
     IN  Finish(IF r.err = "OK" THEN r ELSE c,
                Grown(r),
                Doubt(r), {fh.name})

\* eefs_cleanup_write: the rest of the buffer, then eepromfs_close.
CloseWrite(n, stray) ==
  /\ fh.mode = "write" /\ fh.size + n <= MaxSize
  /\ stray => fh.sector = FF
  /\ LET r == eepromfs_write(Device, fh, n, stray)
     IN  Finish(Result(eepromfs_close(r.d, r.h), Closed, r.err),
                Grown(r),
                Doubt(r), {fh.name})

\* eefs_refill_read
Read ==
  /\ fh.mode = "read" /\ fh.offset < fh.size
  /\ LET r == eepromfs_read(Device, fh, Chunk)
     IN  fh' = r.h /\ got' = r.bytes
  /\ UNCHANGED <<ee, ram, error, expect, unsure, failures, damaged>>

CloseRead ==
  /\ fh.mode = "read"
  /\ fh' = Closed /\ got' = <<>>
  /\ UNCHANGED <<ee, ram, error, expect, unsure, failures, damaged>>

\* eefs_delete; the file may be open.
Delete(n) ==
  LET r == eepromfs_delete(Device, n)
  IN  Finish(r, IF r.err = "OK" THEN [expect EXCEPT ![n] = Absent] ELSE expect,
             IF fh.name = n THEN {n} ELSE {}, {n})

\* eefs_rename
Rename(old, new) ==
  LET r == eepromfs_rename(Device, old, new)
  IN  Finish(r, IF r.err = "OK" THEN [expect EXCEPT ![new] = expect[old], ![old] = Absent]
                ELSE expect,
             IF old \in unsure \/ fh.name = old THEN {old, new} ELSE {}, {old, new})

\* eefs_format, in words of four bytes; cut off, anything may be left.  An
\* open file stays open.
Format ==
  /\ ee' = Blank /\ ram' = eepromfs_init(Blank)
  /\ expect' = [n \in Names |-> Absent]
  /\ unsure' = IF fh = Closed THEN {} ELSE {fh.name}
  /\ damaged' = (fh.mode = "write")
  /\ error' = "OK" /\ got' = <<>>
  /\ UNCHANGED fh

\* A damaged directory is followed no further: only a format helps.
Next ==
  \/ /\ ~damaged /\ ops < MaxOps /\ ops' = ops + 1
     /\ \/ \E n \in Names : OpenWrite(n) \/ OpenAppend(n) \/ Delete(n)
        \/ \E old \in Names : \E new \in Names \ {old} : Rename(old, new)
  \/ /\ ~damaged /\ UNCHANGED ops
     /\ \/ \E n \in Names : OpenRead(n)
        \/ \E stray \in BOOLEAN : Write(stray)
        \/ \E n \in 0 .. Chunk, stray \in BOOLEAN : CloseWrite(n, stray)
        \/ Read
        \/ CloseRead
  \/ Restart(ee, {}) /\ UNCHANGED <<ops, failures>>
  \/ Format /\ UNCHANGED <<ops, failures>>

Spec == Init /\ [][Next]_vars

-----------------------------------------------------------------------------
TypeOK ==
  /\ ram.sectors \subseteq Sectors /\ ram.entries \subseteq Entries /\ ram.free \in 0 .. 255
  /\ fh.mode \in {"closed", "read", "write"} /\ fh.size \in 0 .. MaxSize
  /\ error \in {"OK", "FILEEXISTS", "FILENOTFOUND", "DIRFULL", "DISKFULL"}
  /\ unsure \subseteq Names

Live == {i \in Entries : ~deleted(ee.dir[i])}

Owned(i) == {c \in 1 .. curentry_max_sectors(ee.dir[i]) : ee.dir[i][c] # FF}

\* mark_sector always flips a sector, as its assert says, also when the bitmaps
\* are built from an EEPROM that a power failure has left half written, unless
\* the chain was damaged: by a power failure between a link and the entry it
\* leads to, or by an append that needs a new sector, as cur_sindex is not set.
MarksFlip == damaged \/ ram.asserted

\* No sector belongs to two places of the directory, whatever was interrupted,
\* so no file is ever written over another.
NoCrossLink ==
  damaged \/ \A i, j \in Live : \A c \in Owned(i), b \in Owned(j) :
    ee.dir[i][c] = ee.dir[j][b] => <<i, c>> = <<j, b>>

\* A sector of a file is never free for the next one, and free_sectors counts
\* exactly the others: BLOCKS FREE of the directory is true.
SectorsReserved ==
  damaged \/
  /\ \A i \in Live : \A c \in Owned(i) : ee.dir[i][c] \in ram.sectors
  /\ ram.free = SECTOR_COUNT - Cardinality(ram.sectors)

\* Nothing stays allocated for files that are gone, unless a power failure or
\* an append that cur_sindex spoils came in between.
NoLeak ==
  unsure = {} /\ fh = Closed =>
    ram.sectors = UNION {{ee.dir[i][c] : c \in Owned(i)} : i \in Live}

\* A file that no power failure has touched is read back with its own bytes in
\* their order and to its full length, whatever happened to the others.
ReadBack ==
  fh.mode = "read" /\ fh.name \notin unsure =>
    /\ fh.size = expect[fh.name].size
    /\ \A k \in 1 .. Len(got) : got[k] = <<fh.tag, fh.offset - Len(got) + k - 1>>

\* The directory shows each closed file once, with the length that was written,
\* and none that was deleted.
DirectoryTrue ==
  fh = Closed /\ ~damaged =>
    \A n \in Names \ unsure :
      {x \in eepromfs_readdir(ee) : x[1] = n} =
        IF expect[n] = Absent THEN {} ELSE {<<n, expect[n].size>>}

\* Directory, sector lists and the bitmaps in RAM agree through every order of
\* writes, appends, deletions and restarts, and after a loss of power between
\* two EEPROM writes: a sector belongs to one file, is reserved while it does
\* and is free again afterwards.
Consistent == TypeOK /\ MarksFlip /\ NoCrossLink /\ SectorsReserved /\ NoLeak
=============================================================================
