----------------------------- MODULE FatVolume -----------------------------
(***************************************************************************)
(* The volumes of ff.c: sectors on the cards, the one sector buffer that   *)
(* all volumes share, cluster chains and directory tables.                 *)
(*                                                                         *)
(* An operation works on a value d: the cards, the buffer (FSBUF), the     *)
(* FATFS objects, and what the last call left behind: ok, val (a cluster), *)
(* dj and obj (places in a directory), res (an FRESULT).  d.io is the      *)
(* number of accesses that still succeed, or Forever; when it is 0 an      *)
(* access fails, and with d.dead all later ones.                           *)
(*                                                                         *)
(* A FAT sector has fmt.per entries, a directory sector three slots and a  *)
(* data sector three units.  A long name takes one slot before the slot of *)
(* the file.                                                               *)
(***************************************************************************)
EXTENDS Integers, Sequences, FiniteSetsExt, TLC

CONSTANT Long       \* the names that do not fit into 8.3 characters

VARIABLE fmt        \* the volumes: type, number, geometry

Forever == -1
EOC     == 99       \* the mark of a last cluster
Unknown == 98       \* free_clust after a mount without FSInfo

FAT32 == fmt.type = 32

Per == 3            \* slots in a directory sector, units in a data sector

fsi_sector == fmt.boot + 1
fatbase    == fmt.boot + (IF FAT32 THEN 2 ELSE 1)
sects_fat  == (fmt.max + fmt.per - 1) \div fmt.per
rootbase   == fatbase + 2 * sects_fat
database   == rootbase + fmt.root \div Per
Clusters   == 2 .. fmt.max - 1

clust2sect(c) == IF c \in Clusters THEN (c - 2) * fmt.csize + database ELSE 0

\* A place in a directory, from the cluster dir on, 0 for the root.
l_opendir(v, dir) ==
  LET c == IF dir = 0 /\ FAT32 THEN 2 ELSE dir
  IN  [v |-> v, sclust |-> c, clust |-> c, sect |-> IF c = 0 THEN rootbase ELSE clust2sect(c),
       index |-> 0]

\* Slots of a directory; key is the 8.3 name: a name and a number.
Vacant(kind) == [kind |-> kind, key |-> <<0, 0>>, clust |-> 0, size |-> 0]
EndSlot == Vacant("end")
Deleted == Vacant("deleted")

Zeros == [i \in 0 .. Per - 1 |-> EndSlot]

-----------------------------------------------------------------------------
Ok(d) == [d EXCEPT !.ok = TRUE]
Fail(d, res) == [d EXCEPT !.ok = FALSE, !.res = res]

\* The next call, if the last one went well.
Then(d, Op(_)) == IF d.ok THEN Op(d) ELSE d

\* A call that failed because of the card.
Hard(d) == IF d.ok THEN d ELSE Fail(d, "RW_ERROR")

Access(d) ==
  [d EXCEPT !.ok = d.io # 0, !.hit = @ \/ d.io = 0,
            !.io = CASE d.io > 0 -> d.io - 1
                     [] d.io = 0 /\ ~d.dead -> Forever
                     [] OTHER -> d.io]

disk_write(d, v, s, data) == Then(Access(d), LAMBDA e : [e EXCEPT !.card[v][s] = data])

\* What a read that fails has left in its buffer is not known.
disk_read(d) == LET Spoil(e) == [e EXCEPT !.buf.bad = @ \/ ~e.ok] IN Spoil(Access(d))

\* Mistake: the copy of the FAT is not written.
WriteBack_one_copy(d) ==
  IF ~d.buf.dirty THEN Ok(d)
  ELSE Then(disk_write(d, d.buf.v, d.buf.sect, d.buf.data),
            LAMBDA e : [e EXCEPT !.buf.dirty = FALSE])

\* A changed sector is written; a sector of the FAT also to the copy, and
\* nobody looks whether that works.
WriteBack(d) ==
  LET Copy(e) == IF e.buf.sect < fatbase + sects_fat
                   THEN Ok(disk_write(e, e.buf.v, e.buf.sect + sects_fat, e.buf.data)) ELSE e
  IN  IF ~d.buf.dirty THEN Ok(d)
      ELSE Then(disk_write(d, d.buf.v, d.buf.sect, d.buf.data),
                LAMBDA e : Copy([e EXCEPT !.buf.dirty = FALSE]))

\* The buffer gets the sector, or is only written back if it is 0.
move_window(d, v, s) ==
  LET Load(e) == IF s = 0 THEN e
                 ELSE Then(disk_read(e), LAMBDA x : [x EXCEPT
                        !.buf = [v |-> v, sect |-> s, data |-> x.card[v][s], dirty |-> FALSE,
                                 bad |-> FALSE]])
  IN  IF d.buf.sect = s /\ d.buf.v = v THEN Ok(d) ELSE Then(WriteBack(d), Load)

FsInfo(d, v) == <<d.fs[v].free, d.fs[v].last>>

\* The buffer is written even if nothing has changed.  The FSInfo sector is
\* built in the buffer, which is sector 0 from then on.
sync(d, v) ==
  LET Info(e) ==
        IF FAT32 /\ e.fs[v].flag
          THEN Ok(disk_write([e EXCEPT !.buf.sect = 0, !.buf.data = FsInfo(e, v),
                                       !.fs[v].flag = FALSE], v, fsi_sector, FsInfo(e, v)))
          ELSE e
  IN  Hard(Then(move_window([d EXCEPT !.buf.dirty = TRUE], v, 0), Info))

-----------------------------------------------------------------------------
(* Cluster chains                                                          *)

FatSector(c) == fatbase + c \div fmt.per

\* val is the entry, 1 on errors.
get_cluster(d, v, c) ==
  LET Get(e) == [e EXCEPT !.val = IF e.ok THEN e.buf.data[c % fmt.per] ELSE 1]
  IN  IF c \in Clusters THEN Get(move_window(d, v, FatSector(c))) ELSE [d EXCEPT !.val = 1]

put_cluster(d, v, c, x) ==
  Then(move_window(d, v, FatSector(c)),
       LAMBDA e : [e EXCEPT !.buf.data[c % fmt.per] = x, !.buf.dirty = TRUE])

\* free_clust, if it is known; one less than 0 it is not known any more.
Recount(d, v, n) ==
  IF d.fs[v].free = Unknown THEN d
  ELSE [d EXCEPT !.fs[v].free = IF @ + n < 0 THEN Unknown ELSE @ + n, !.fs[v].flag = TRUE]

RECURSIVE remove_chain(_, _, _)

remove_chain(d, v, c) ==
  LET Free(e, next) == Then(put_cluster(e, v, c, 0),
                            LAMBDA x : remove_chain(Recount(x, v, 1), v, next))
      Try(e) == IF e.val = 1 THEN [e EXCEPT !.ok = FALSE] ELSE Free(e, e.val)
  IN  IF c \in Clusters THEN Try(get_cluster(d, v, c)) ELSE Ok(d)

\* val is the first free cluster behind c, 0 if there is none back to the start.
RECURSIVE NextFree(_, _, _, _)
NextFree(d, v, c, start) ==
  LET n == IF c + 1 >= fmt.max THEN 2 ELSE c + 1
      Try(e) == CASE e.val = 0 -> [e EXCEPT !.val = n]
                  [] e.val = 1 -> e
                  [] e.val > 1 /\ n = start -> [e EXCEPT !.val = 0]
                  [] OTHER -> NextFree(e, v, n, start)
  IN  IF c + 1 >= fmt.max /\ start < 2 THEN [d EXCEPT !.val = 0] ELSE Try(get_cluster(d, v, n))

\* The new cluster n is marked, then linked to c.
Take(d, v, c, n) ==
  LET Link(e) == IF c = 0 THEN e ELSE put_cluster(e, v, c, n)
      Used(e) == IF e.ok THEN Recount([e EXCEPT !.val = n, !.fs[v].last = n], v, -1)
                         ELSE [e EXCEPT !.val = 1]
  IN  Used(Then(put_cluster(d, v, n, EOC), Link))

\* val is the cluster after c, new if need be: 0 when the card is full, 1 on
\* errors.
create_chain(d, v, c) ==
  LET hint == IF d.fs[v].last = 0 \/ d.fs[v].last >= fmt.max THEN 1 ELSE d.fs[v].last
      New(e) == IF e.val < 2 THEN e ELSE Take(e, v, c, e.val)
      From(e) == New(NextFree(e, v, e.val, e.val))
      Stretch(e) == CASE e.val < 2 -> [e EXCEPT !.val = 1]
                      [] e.val \in Clusters -> e
                      [] OTHER -> From([e EXCEPT !.val = IF c = 0 THEN hint ELSE c])
  IN  Stretch(IF c = 0 THEN [d EXCEPT !.val = EOC] ELSE get_cluster(d, v, c))

-----------------------------------------------------------------------------
(* Directories                                                             *)

Slot(d) == d.buf.data[d.dj.index % Per]
SetSlot(d, s) == [d EXCEPT !.buf.data[d.dj.index % Per] = s, !.buf.dirty = TRUE]

\* ok is FALSE at the end of the table, and on errors.
next_dir_entry(d) ==
  LET i == d.dj.index + 1
      To(e, c) == [e EXCEPT !.ok = TRUE, !.dj.clust = c, !.dj.sect = clust2sect(c), !.dj.index = i]
      Follow(e) == IF e.val \in Clusters THEN To(e, e.val) ELSE [e EXCEPT !.ok = FALSE]
  IN  CASE i % Per # 0 -> [d EXCEPT !.ok = TRUE, !.dj.index = i]
        [] i % Per = 0 /\ d.dj.clust = 0 /\ i >= fmt.root -> [d EXCEPT !.ok = FALSE]
        [] i % Per = 0 /\ d.dj.clust # 0 /\ (i \div Per) % fmt.csize = 0 ->
             Follow(get_cluster(d, d.dj.v, d.dj.clust))
        [] OTHER -> [d EXCEPT !.ok = TRUE, !.dj.sect = @ + 1, !.dj.index = i]

Window(d) == Hard(move_window(d, d.dj.v, d.dj.sect))

\* The search for the long name n, or the 8.3 name key if n is 0.  obj becomes
\* the place of the first slot of the entry and len the number of slots before
\* the last; run counts slots of long names that agree.
RECURSIVE Trace(_, _, _)
Trace(d, n, key) ==
  LET Mark(e) == IF ~e.store THEN e
                 ELSE [e EXCEPT !.obj = e.dj, !.store = FALSE, !.len = IF n = 0 THEN 0 ELSE @]
      Next(e) == IF e.ok THEN Trace(e, n, key)
                 ELSE Fail([e EXCEPT !.len = IF n = 0 THEN 0 ELSE @], "NO_FILE")
      Pass(e, s) ==
        CASE s.kind = "deleted" -> [e EXCEPT !.store = TRUE]
          [] s.kind = "lfn" /\ n = 0 -> [e EXCEPT !.len = @ + 1]
          [] s.kind = "lfn" /\ n # 0 -> [e EXCEPT !.run = IF s.key[1] = n THEN @ + 1 ELSE 9]
          [] OTHER -> [e EXCEPT !.store = TRUE, !.run = 0]
      Found(e, s) == s.kind \in {"file", "dir", "dot"} /\ IF n = 0 THEN s.key = key ELSE e.run = 1
      Look(e, s) == CASE s.kind = "end" -> Fail(e, "NO_FILE")
                      [] Found(e, s) -> [e EXCEPT !.key = s.key, !.res = "OK"]
                      [] OTHER -> Next(next_dir_entry(Pass(e, s)))
  IN  Then(Window(d), LAMBDA e : Look(Mark(e), Slot(e)))

Key(n) == <<n, 0>>

trace_path(d, v, dir, n, key) ==
  Trace([d EXCEPT !.dj = l_opendir(v, dir), !.store = TRUE, !.run = 0, !.ok = TRUE,
                  !.len = IF n = 0 THEN 0 ELSE 1], n, key)

\* A path that the user has typed.
TraceName(d, v, dir, n) ==
  trace_path(d, v, dir, IF n \in Long THEN n ELSE 0, IF n \in Long THEN Key(0) ELSE Key(n))

\* A table without room gets one more cluster, which is cleared on the card.
\* The entry starts at save if some slots at its end were free.
Stretch(d, save, entries) ==
  LET v == d.dj.v
      Clear(e, c) ==
        LET s == clust2sect(c)
            Rest(x) == IF fmt.csize = 1 THEN x
                       ELSE Then(x, LAMBDA y : disk_write(y, v, s + 1, Zeros))
            Back(x) == IF entries = 0
                         THEN [x EXCEPT !.dj.index = 0, !.dj.sect = s, !.dj.clust = c]
                         ELSE [move_window(x, v, save.sect) EXCEPT !.dj = save]
        IN  Then(Rest(disk_write([e EXCEPT !.buf.sect = s, !.buf.data = Zeros], v, s, Zeros)),
                 LAMBDA x : Back([x EXCEPT !.buf.dirty = TRUE]))
      Expand(e) == CASE e.val = 0 -> Fail(e, "DENIED")
                     [] e.val = 1 -> Fail(e, "RW_ERROR")
                     [] OTHER -> Hard(Then(move_window(e, v, 0), LAMBDA x : Clear(x, e.val)))
  IN  IF d.dj.sclust = 0 THEN Fail(d, "DENIED") ELSE Expand(create_chain(Ok(d), v, d.dj.clust))

\* The search for need free slots one after the other.
RECURSIVE Reserve(_, _, _, _)
Reserve(d, need, entries, save) ==
  LET Next(e, n, s) == IF e.ok THEN Reserve(e, need, n, s) ELSE Stretch(e, s, n)
      Try(e) ==
        LET n == IF Slot(e).kind \in {"end", "deleted"} THEN entries + 1 ELSE 0
            s == IF entries = 0 THEN e.dj ELSE save
        IN  IF n = need THEN [e EXCEPT !.dj = s] ELSE Next(next_dir_entry(e), n, s)
  IN  Then(Window(d), Try)

reserve_direntry(d, n) ==
  LET start == l_opendir(d.dj.v, d.dj.sclust)
  IN  Reserve([d EXCEPT !.dj = start, !.ok = TRUE], IF n \in Long THEN 2 ELSE 1, 0, start)

\* res is EXIST if a slot has the 8.3 name.
RECURSIVE chk_filename(_, _)

chk_filename(d, key) ==
  LET Next(e) == IF e.ok THEN chk_filename(e, key) ELSE Ok(e)
      Look(e) == CASE Slot(e).kind = "end" -> e
                   [] Slot(e).kind \in {"file", "dir", "dot"} /\ Slot(e).key = key -> Fail(e, "EXIST")
                   [] OTHER -> Next(next_dir_entry(e))
  IN  Then(Window(d), Look)

\* An 8.3 name for a long one: the number grows until the name is new, and
\* also when the directory could not be read.
RECURSIVE ShortName(_, _)
ShortName(d, k) ==
  LET Try(e) == IF e.ok THEN [e EXCEPT !.key = <<0, k>>] ELSE ShortName(e, k + 1)
  IN  IF k > 9 THEN Fail(d, "EXIST")
      ELSE Try(chk_filename([d EXCEPT !.dj = l_opendir(d.dj.v, d.dj.sclust), !.ok = TRUE], <<0, k>>))

\* The slot of a long name; dj and the buffer are left at the next one.
add_direntry(d, n) ==
  LET Name(e)  == SetSlot(e, [EndSlot EXCEPT !.kind = "lfn", !.key = Key(n)])
      Place(e) == Then(Then(Then(Window([e EXCEPT !.dj = d.dj]), Name), next_dir_entry), Window)
  IN  Hard(Then(ShortName(d, 1), Place))

\* A new entry for n at dj: the slot of its 8.3 name is s, which dj and the
\* buffer are left at.
NewEntry(d, n, s) ==
  LET Put(e) == SetSlot(e, [s EXCEPT !.key = e.key])
  IN  IF n \in Long THEN Then(add_direntry(d, n), Put) ELSE Put([d EXCEPT !.key = Key(n)])
=============================================================================
