------------------------------- MODULE FatFs -------------------------------
(***************************************************************************)
(* The calls of ff.c, made by fatops.c and doscmd.c as commands of the     *)
(* host ask for them, on the volumes of FatVolume: files, directories and  *)
(* mounting, with accesses that fail, losses of power and cards that are   *)
(* changed.                                                                *)
(*                                                                         *)
(* d.fp is the file object of a call.  sum, in an open file, is what the   *)
(* host has written to it or found in it.                                  *)
(***************************************************************************)
EXTENDS FatVolume, SequencesExt

CONSTANTS Formats,      \* small volumes; bounds: channels, names, units of a file and of its
                        \* header, units written at once, where the host positions to, how
                        \* files are opened, failures (of accesses or power, changed cards)
          MaxOps,       \* bound: operations
          AfterFailure, \* bound: operations after a failure
          MaxIo         \* bound: accesses before the one that fails

ASSUME FatFsAssumption ==
  /\ \A f \in Formats : /\ f.type \in {16, 32} /\ f.boot \in Nat /\ f.vols \in Nat \ {0}
                        /\ f.per \in Nat \ {0} /\ f.csize \in Nat \ {0} /\ f.max > 3
                        /\ f.names \subseteq Nat \ {0} /\ f.most \in Nat
                        /\ f.root % Per = 0 /\ (f.type = 32) = (f.root = 0)
  /\ {MaxOps, AfterFailure, MaxIo} \subseteq Nat

VARIABLES card,     \* the sectors of each volume
          buf,      \* static_buf, the window
          fs,       \* FATFS: last_clust, free_clust, fsi_flag of each volume
          ready,    \* fatops_init has run since the start, or the last change of a card
          cwd,      \* current_dir of each partition
          file,     \* the files that are open
          want,     \* what each file should contain (history)
          misread,  \* a read has returned something else (history)
          stray,    \* f_write went on without a sector (history)
          damaged,  \* what the device does from here on is not followed (history)
          failed,   \* an access has failed (history)
          ops, failures

vars == <<fmt, card, buf, fs, ready, cwd, file, want, misread, stray, damaged, failed, ops, failures>>

Vols == 1 .. fmt.vols
Handles == 1 .. fmt.handles    \* channels

Unsure == <<-2>>
Folder == <<-3>>
Closed == [key |-> <<0, 0, 0>>]

-----------------------------------------------------------------------------
(* Files                                                                   *)

FileAt(d, v, mode) ==
  LET s == Slot(d)
  IN  [d EXCEPT !.fp = [v |-> v, dsect |-> d.buf.sect, dslot |-> d.dj.index % Per, mode |-> mode,
                        written |-> FALSE, error |-> FALSE, org |-> s.clust, size |-> s.size,
                        ptr |-> 0, left |-> 1, clust |-> 0, sect |-> 0]]

\* The result of sync is not looked at.
Created(d, v) == [Ok(sync(FileAt(d, v, "w"), v)) EXCEPT !.fp.written = TRUE]

MakeFile(d, v, n) ==
  LET Entry(e) == NewEntry(e, n, Vacant("file"))
  IN  Then(Then(reserve_direntry(d, n), Entry), LAMBDA e : Created(e, v))

\* FA_CREATE_NEW
f_open_new(d, v, dir, n) ==
  LET Look(e) == CASE e.ok -> Fail(e, "EXIST")
                   [] ~e.ok /\ e.res = "NO_FILE" -> MakeFile(e, v, n)
                   [] OTHER -> e
  IN  Look(TraceName(d, v, dir, n))

\* FA_CREATE_ALWAYS on a file that exists: the next search for a free cluster
\* starts where the file did.
Resize(d, v) ==
  LET at == d.buf.sect
      rs == Slot(d).clust
      Empty(e) == SetSlot(e, [Slot(e) EXCEPT !.clust = 0, !.size = 0])
      Hint(e) == [e EXCEPT !.fs[v].last = IF rs = 0 THEN fmt.max ELSE rs - 1]
  IN  Then(Hard(Then(remove_chain(Empty(d), v, rs), LAMBDA e : move_window(e, v, at))), Hint)

f_open_always(d, v, dir, n) ==
  LET Look(e) == CASE e.ok /\ Slot(e).kind = "file" ->
                        Then(Resize(e, v), LAMBDA x : Created(x, v))
                   [] e.ok /\ Slot(e).kind # "file" -> Fail(e, "IS_DIRECTORY")
                   [] ~e.ok /\ e.res = "NO_FILE" -> MakeFile(e, v, n)
                   [] OTHER -> e
  IN  Look(TraceName(d, v, dir, n))

\* FA_OPEN_EXISTING, with the 8.3 name that f_readdir has found
f_open(d, v, dir, key, mode) ==
  LET Look(e) == IF Slot(e).kind = "file" THEN FileAt(e, v, mode) ELSE Fail(e, "NO_FILE")
  IN  Then(trace_path(d, v, dir, 0, key), Look)

\* The call fails, and so do all later ones with this file.
Abort(d) == Fail([d EXCEPT !.fp.error = TRUE], "RW_ERROR")

Usable(d, Op(_)) == IF d.fp.error THEN Fail(d, "RW_ERROR") ELSE Op(Ok(d))

\* At the start of a sector: the next one of the cluster, or the first of the
\* cluster in val.  left is the number of sectors up to the end of the cluster.
InCluster(d)  == [d EXCEPT !.fp.left = @ - 1, !.fp.sect = @ + 1]
NewCluster(d) == [d EXCEPT !.fp.clust = d.val, !.fp.sect = clust2sect(d.val),
                           !.fp.left = fmt.csize]

\* Units of the sector from ptr on, for a transfer of n units.
Fraction(d, n) == Min({Per - (d.fp.ptr % Per), n})

\* At the start of a sector the file object moves on and the window is written
\* back.  Follow leaves the next cluster in val: 0 on a full card, 1 on errors.
Advance(d, Follow(_)) ==
  LET To(e) == IF e.val \in Clusters THEN NewCluster(e) ELSE e
      Next == IF d.fp.left > 1 THEN [InCluster(d) EXCEPT !.val = 2] ELSE To(Follow(d))
      Flush(e) == CASE e.val = 0 -> [e EXCEPT !.fp.left = 0]
                    [] e.val = 1 \/ e.val >= fmt.max -> Abort(e)
                    [] OTHER -> move_window(e, e.fp.v, 0)
  IN  IF d.fp.ptr % Per # 0 THEN [d EXCEPT !.val = 2] ELSE Flush(Next)

RECURSIVE Fetch(_, _)
Fetch(d, n) ==
  LET k == Fraction(d, n)
      from == d.fp.ptr % Per
      Valid(e) == [e EXCEPT !.val = IF @ = 0 THEN 1 ELSE @]
      Follow(e) == Valid(IF e.fp.ptr = 0 THEN [e EXCEPT !.val = e.fp.org]
                         ELSE get_cluster(e, e.fp.v, e.fp.clust))
      Copy(e) == IF ~e.ok THEN Abort(e)
                 ELSE Fetch([e EXCEPT !.got = @ \o [i \in 1 .. k |-> e.buf.data[from + i - 1]],
                                      !.fp.ptr = @ + k], n - k)
  IN  IF n = 0 THEN d
      ELSE Copy(Then(Advance(d, Follow), LAMBDA e : move_window(e, e.fp.v, e.fp.sect)))

\* No caller reads a sector or more at a time.
f_read(d, n) == Usable(d, LAMBDA e : Fetch([e EXCEPT !.got = <<>>], Min({n, e.fp.size - e.fp.ptr})))

\* Whole sectors go to the card without the buffer, as far as the cluster goes.
Direct(d, us) ==
  LET v == d.fp.v
      s == d.fp.sect
      k == Min({Len(us) \div Per, d.fp.left})
      Sector(i) == [j \in 0 .. Per - 1 |-> us[Per * i + j + 1]]
  IN  Then(Access(d), LAMBDA e :
        [e EXCEPT !.card[v] = [x \in DOMAIN @ |-> IF x \in s .. s + k - 1 THEN Sector(x - s) ELSE @[x]],
                  !.fp.left = @ - (k - 1), !.fp.sect = @ + (k - 1), !.fp.ptr = @ + k * Per])

\* Part of a sector goes to the buffer, over what the sector held.
Partial(d, us) ==
  LET k == Fraction(d, Len(us))
      from == d.fp.ptr % Per
      Copy(e) == [e EXCEPT !.buf.data = [i \in DOMAIN @ |-> IF i \in from .. from + k - 1
                                                             THEN us[i - from + 1] ELSE @[i]],
                           !.buf.dirty = TRUE, !.fp.ptr = @ + k]
  IN  Then(move_window(d, d.fp.v, d.fp.sect), Copy)

\* The cluster to write to: the first, a new first, or the one after the last.
Grown(d) ==
  LET First(e) == [e EXCEPT !.fp.org = IF e.fp.ptr = 0 THEN e.val ELSE @]
  IN  IF d.fp.ptr = 0 /\ d.fp.org # 0 THEN [d EXCEPT !.val = d.fp.org]
      ELSE First(create_chain(d, d.fp.v, IF d.fp.ptr = 0 THEN 0 ELSE d.fp.clust))

\* The units us; when the card is full fewer of them, and left is 0.  If that
\* happens twice left goes below 0, and the units to whatever sector comes next.
RECURSIVE Store(_, _)
Store(d, us) ==
  LET Rest(e) == IF e.ok THEN Store(e, SubSeq(us, e.fp.ptr - d.fp.ptr + 1, Len(us))) ELSE Abort(e)
      Put(e) == IF Len(us) >= Per /\ e.fp.ptr % Per = 0 THEN Direct(e, us) ELSE Partial(e, us)
      Full(e) == IF e.val = 0 THEN Ok(e) ELSE Rest(Then(e, Put))
  IN  CASE us = <<>> -> d
        [] us # <<>> /\ d.fp.ptr % Per = 0 /\ d.fp.left = 0 -> [d EXCEPT !.stray = TRUE]
        [] OTHER -> Full(Advance(d, Grown))

f_write(d, us) ==
  LET Grow(e) == [e EXCEPT !.fp.size = Max({@, e.fp.ptr}), !.fp.written = TRUE]
  IN  Usable(d, LAMBDA e : Then(Store(e, us), Grow))

\* Mistake: the size is written, the first cluster is not.
f_sync_size(d) ==
  LET v == d.fp.v
      Entry(e) == [e EXCEPT !.buf.data[e.fp.dslot].size = e.fp.size, !.fp.written = FALSE]
  IN  IF ~d.fp.written THEN Ok(d)
      ELSE Then(Then(Hard(Then(move_window(d, v, 0), LAMBDA e : move_window(e, v, e.fp.dsect))), Entry),
                LAMBDA e : sync(e, v))

f_sync(d) ==
  LET v == d.fp.v
      Entry(e) == [e EXCEPT !.buf.data[e.fp.dslot].size = e.fp.size,
                            !.buf.data[e.fp.dslot].clust = e.fp.org, !.fp.written = FALSE]
  IN  IF ~d.fp.written THEN Ok(d)
      ELSE Then(Then(Hard(Then(move_window(d, v, 0), LAMBDA e : move_window(e, v, e.fp.dsect))), Entry),
                LAMBDA e : sync(e, v))

f_close(d) == f_sync(d)

\* From the cluster in val, ofs units ahead; ptr is at the start of the cluster.
RECURSIVE Skip(_, _)
Skip(d, ofs) ==
  LET size == fmt.csize * Per
      Here(e, o) == [e EXCEPT !.ok = TRUE, !.fp.ptr = @ + o, !.val = o]
      Follow(e) == CASE e.val = 0 -> Here(e, size)
                     [] e.val \in Clusters -> Skip([e EXCEPT !.fp.ptr = @ + size], ofs - size)
                     [] OTHER -> Abort(e)
      At(e) == IF ofs <= size THEN Here(e, ofs)
               ELSE Follow(IF e.fp.mode = "r" THEN get_cluster(e, e.fp.v, e.fp.clust)
                           ELSE create_chain(e, e.fp.v, e.fp.clust))
  IN  At([d EXCEPT !.fp.clust = d.val])

\* The sector of the unit before ofs, an offset in the cluster: -1 at its start.
Land(d, ofs) ==
  LET off == (ofs - 1) \div Per
  IN  [d EXCEPT !.fp.sect = clust2sect(d.fp.clust) + off, !.fp.left = fmt.csize - off]

\* A file without a cluster on a full card is left at its start with a sector
\* that means nothing.
f_lseek(d, ofs) ==
  LET v == d.fp.v
      size == fmt.csize * Per
      to == IF d.fp.mode = "r" THEN Min({ofs, d.fp.size}) ELSE ofs
      near == d.fp.ptr > 0 /\ to \div size = (d.fp.ptr - 1) \div size
      on == d.fp.ptr > 0 /\ to > d.fp.ptr
      base == IF on THEN ((d.fp.ptr - 1) \div size) * size ELSE 0
      Ends(e) == IF e.fp.ptr > e.fp.size
                   THEN [e EXCEPT !.fp.size = e.fp.ptr, !.fp.written = TRUE] ELSE e
      Start(e) == CASE on -> [e EXCEPT !.val = e.fp.clust]
                    [] ~on /\ e.fp.org # 0 -> [e EXCEPT !.val = e.fp.org]
                    [] OTHER -> create_chain(e, v, 0)
      Hold(e) == [e EXCEPT !.fp.org = IF @ = 0 THEN e.val ELSE @, !.fp.ptr = base]
      Go(e) == CASE e.val = 1 -> Abort(e)
                 [] e.val = 0 -> [e EXCEPT !.stray = TRUE]
                 [] OTHER -> Skip(Hold(e), to - base)
      From(e) == CASE to = 0 -> [e EXCEPT !.fp.ptr = 0, !.fp.left = 1]
                   [] to > 0 /\ near -> Land([e EXCEPT !.fp.ptr = to], to % size)
                   [] OTHER -> Then(Go(Start(e)), LAMBDA x : Land(x, x.val))
      Move(e) == IF e.ok THEN Then(From(e), Ends) ELSE Abort(e)
  IN  Usable(d, LAMBDA e : IF e.fp.ptr = ofs THEN e ELSE Move(move_window(e, v, 0)))

-----------------------------------------------------------------------------
(* Directories                                                             *)

RECURSIVE Occupied(_)

\* ok is FALSE if the directory at dj holds anything from dj.index on.
Occupied(d) ==
  LET Next(e) == IF e.ok THEN Occupied(e) ELSE Ok(e)
      Look(e) == CASE Slot(e).kind = "end" -> e
                   [] Slot(e).kind \in {"file", "dir", "dot"} -> Fail(e, "DIR_NOT_EMPTY")
                   [] OTHER -> Next(next_dir_entry(e))
  IN  Then(Window(d), Look)

\* The n + 1 slots of the entry that starts at obj.  f_unlink does not look for
\* a slot behind the last one, f_rename does and fails at the end of the table.
RECURSIVE Erase(_, _, _)
Erase(d, n, beyond) ==
  LET Next(e) == IF n = 0 /\ ~beyond THEN e
                 ELSE Then(Hard(next_dir_entry(e)), LAMBDA x : IF n = 0 THEN x
                                                                ELSE Erase(x, n - 1, beyond))
      Mark(e) == SetSlot(e, Deleted)
  IN  Then(Window(d), LAMBDA e : Next(Mark(e)))

\* The entry at obj, then the chain.
Unlist(d, v, c) ==
  LET Chain(e) == Hard(remove_chain(e, v, c))
  IN  Then(Then(Erase([d EXCEPT !.dj = d.obj], d.len, FALSE), Chain), LAMBDA e : sync(e, v))

f_unlink(d, v, dir, n) ==
  LET Start(e, c) == [e EXCEPT !.dj.clust = c, !.dj.sect = clust2sect(c), !.dj.index = 2]
      Look(e, s) == IF s.kind = "dir" THEN Then(Occupied(Start(e, s.clust)), LAMBDA x : Unlist(x, v, s.clust))
                    ELSE Unlist(e, v, s.clust)
  IN  Then(TraceName(d, v, dir, n), LAMBDA e : Look(e, Slot(e)))

Dot(c) == [Vacant("dot") EXCEPT !.clust = c]

Dots(c, up) == [i \in 0 .. Per - 1 |-> CASE i = 0 -> [Dot(c) EXCEPT !.key = <<0, -1>>]
                                         [] i = 1 -> [Dot(up) EXCEPT !.key = <<0, -2>>]
                                         [] OTHER -> EndSlot]

f_mkdir(d, v, dir, n) ==
  LET up == IF FAT32 /\ dir = 2 THEN 0 ELSE dir
      Table(e, c) ==
        LET s == clust2sect(c)
            Clear(x, i) == Then(x, LAMBDA y : disk_write(y, v, s + i, Zeros))
            Fill(x) == FoldLeft(Clear, [x EXCEPT !.buf.data = Zeros], [i \in 1 .. fmt.csize - 1 |-> i])
            Top(x) == [x EXCEPT !.buf.data = Dots(c, up), !.buf.dirty = TRUE]
        IN  Hard(Then(Then(move_window(e, v, s), Fill), Top))
      Name(e, c, at) == Then(Then(Hard(move_window(e, v, at)),
                                  LAMBDA x : NewEntry(x, n, [Vacant("dir") EXCEPT !.clust = c])),
                             LAMBDA x : sync(x, v))
      Alloc(e, at) == CASE e.val = 0 -> Fail(e, "DENIED")
                        [] e.val = 1 -> Fail(e, "RW_ERROR")
                        [] OTHER -> Then(Table(e, e.val), LAMBDA x : Name(x, e.val, at))
      Make(e) == Alloc(create_chain(e, v, 0), e.buf.sect)
      Look(e) == CASE e.ok -> Fail(e, "EXIST")
                   [] ~e.ok /\ e.res = "NO_FILE" -> Then(reserve_direntry(e, n), Make)
                   [] OTHER -> e
  IN  Look(TraceName(d, v, dir, n))

\* The new entry, then the old one is found again and erased.
Renamed(d, v, dir, n, m, s) ==
  LET New(e) == Then(reserve_direntry(e, m), LAMBDA x : NewEntry(x, m, s))
      Old(e) == Erase([e EXCEPT !.dj = e.obj], e.len, TRUE)
  IN  Then(Then(New(d), LAMBDA e : Old(TraceName(e, v, dir, n))), LAMBDA e : sync(e, v))

f_rename(d, v, dir, n, m) ==
  LET Look(e, s) == CASE e.ok -> Fail(e, "EXIST")
                      [] ~e.ok /\ e.res = "NO_FILE" -> Renamed([e EXCEPT !.ok = TRUE], v, dir, n, m, s)
                      [] OTHER -> e
  IN  Then(TraceName(d, v, dir, n), LAMBDA e : Look(TraceName(e, v, dir, m), Slot(e)))

\* f_readdir until the entry with the name n is found; key is its 8.3 name.
f_readdir(d, v, dir, n) == TraceName(d, v, dir, n)

\* Free entries of the FAT are counted from sector to sector.
RECURSIVE Count(_, _, _, _)
Count(d, v, c, n) ==
  LET Add(e) == IF e.ok THEN Count(e, v, c + 1, n + (IF e.buf.data[c % fmt.per] = 0 THEN 1 ELSE 0))
                ELSE Fail(e, "RW_ERROR")
  IN  IF c = fmt.max THEN [Ok(d) EXCEPT !.val = n] ELSE Add(move_window(d, v, FatSector(c)))

l_getfree(d, v) ==
  LET Known(e) == [e EXCEPT !.fs[v].free = e.val, !.fs[v].flag = FAT32]
  IN  IF d.fs[v].free <= fmt.max - 2 THEN [d EXCEPT !.val = d.fs[v].free]
      ELSE Then(Count(d, v, 0, 0), Known)

-----------------------------------------------------------------------------
(* Mounting                                                                *)

Boot == <<-7>>

\* Mistake: the numbers of a volume survive its card.
Mount_kept(d, v) ==
  LET Info(e) == IF FAT32 /\ e.fs[v].free = Unknown
                   THEN [e EXCEPT !.fs[v] = [free |-> e.buf.data[1], last |-> e.buf.data[2], flag |-> FALSE]]
                   ELSE e
  IN  Then(move_window(d, v, fmt.boot), LAMBDA e :
           IF FAT32 THEN Then(move_window(e, v, fsi_sector), Info) ELSE e)

\* One volume of fatops_init.  Sector 0 is read to the buffer after the buffer
\* has been written back, without its copy if it is in the FAT of this volume:
\* the FATFS object is empty by then.
Mount(d, v) ==
  LET none == [free |-> Unknown, last |-> 0, flag |-> FALSE]
      Flush(e) == IF e.buf.dirty /\ e.buf.v = v
                    THEN Then(disk_write(e, v, e.buf.sect, e.buf.data), LAMBDA x : [x EXCEPT !.buf.dirty = FALSE])
                    ELSE move_window(e, v, 0)
      Zero(e) == Then(disk_read(e), LAMBDA x : [x EXCEPT !.buf.sect = 0, !.buf.data = Boot])
      Part(e) == IF fmt.boot = 0 THEN e
                 ELSE Then(Then(e, disk_read), LAMBDA x : move_window(x, v, fmt.boot))
      Info(e) == [e EXCEPT !.fs[v].free = e.buf.data[1], !.fs[v].last = e.buf.data[2]]
      Type(e) == IF FAT32 THEN Ok(Then(move_window(e, v, fsi_sector), Info)) ELSE e
  IN  Then(Part(Then(Flush([d EXCEPT !.fs[v] = none]), Zero)), Type)

\* On a card with a partition table the loop goes on with the partitions that do
\* not exist: each time the table is read to the buffer, which goes on as the
\* sector it was.
Probe(d) ==
  IF fmt.boot = 0 THEN d ELSE LET Table(e) == [e EXCEPT !.buf.data = Boot] IN Ok(Then(disk_read(d), Table))

fatops_init(d) == Probe(FoldLeft(Mount, d, [v \in Vols |-> v]))

-----------------------------------------------------------------------------
\* A card that has just been formatted; a FAT32 root directory is cluster 2.
Blank ==
  LET Fat(s) == [i \in 0 .. fmt.per - 1 |->
                   LET c == s * fmt.per + i
                   IN  IF c < 2 \/ c >= fmt.max \/ (c = 2 /\ FAT32) THEN EOC ELSE 0]
      free == fmt.max - 3
  IN  [s \in 0 .. database + (fmt.max - 2) * fmt.csize - 1 |->
         CASE s \in {0, fmt.boot} -> Boot
           [] FAT32 /\ s = fsi_sector -> <<free, 2>>
           [] s \in fatbase .. rootbase - 1 -> Fat((s - fatbase) % sects_fat)
           [] OTHER -> Zeros]

\* The window at power on.
Off == [v |-> 0, sect |-> 0, data |-> Boot, dirty |-> FALSE, bad |-> FALSE]
NoFs == [v \in Vols |-> [free |-> Unknown, last |-> 0, flag |-> FALSE]]

Open == {h \in Handles : file[h] # Closed}

\* How the accesses of an operation go: all well, one fails, or from one on
\* there is no power.  Operations that only read are followed when all is well.
Well == [io |-> Forever, dead |-> FALSE]
Fates == {Well} \cup (IF failures < fmt.failures THEN [io : 0 .. MaxIo, dead : BOOLEAN] ELSE {})

Machine(fate, cards, window, objects) ==
  [card |-> cards, buf |-> window, fs |-> objects, io |-> fate.io, dead |-> fate.dead, hit |-> FALSE,
   ok |-> TRUE, val |-> 0, res |-> "OK", got |-> <<>>, fp |-> Closed, stray |-> FALSE,
   dj |-> [v |-> 0, sclust |-> 0, clust |-> 0, sect |-> 0, index |-> 0],
   obj |-> [v |-> 0, sclust |-> 0, clust |-> 0, sect |-> 0, index |-> 0],
   len |-> 0, run |-> 0, store |-> FALSE, key |-> Key(0), cwd |-> cwd, risk |-> FALSE]

Device(fate) == Machine(fate, card, buf, fs)

Init ==
  /\ fmt \in Formats
  /\ card = [v \in Vols |-> Blank] /\ buf = Off /\ fs = NoFs /\ ready = FALSE
  /\ cwd = [v \in Vols |-> 0]
  /\ file = [h \in Handles |-> Closed]
  /\ want = [k \in {} |-> <<>>]
  /\ misread = FALSE /\ stray = FALSE /\ damaged = FALSE /\ failed = FALSE
  /\ ops = 0 /\ failures = 0

Writing(k) == \E h \in Open : file[h].key = k /\ file[h].mode # "r"

\* What is known of the files when the device has stopped in an operation on
\* those in touched.
Recovered(touched) ==
  LET loose == touched \cup {file[h].key : h \in {x \in Open : file[x].mode # "r"}}
  IN  [k \in DOMAIN want \cup touched |-> IF k \in loose THEN Unsure ELSE want[k]]

\* The effects of an operation that leaves the device d.  When the power goes
\* all but the cards is lost.
Finish(n, d, files, wants, touched) ==
  LET off == d.dead /\ d.hit
  IN  /\ d.io >= 0 \/ d.dead => d.hit
      /\ card' = d.card /\ ready' = ~off
      /\ buf' = IF off THEN Off ELSE d.buf
      /\ fs' = IF off THEN NoFs ELSE d.fs
      /\ cwd' = IF off THEN [v \in Vols |-> 0] ELSE d.cwd
      /\ file' = IF off THEN [h \in Handles |-> Closed] ELSE files
      /\ want' = IF off \/ (d.hit /\ ~d.ok) THEN Recovered(touched) ELSE wants
      /\ stray' = (stray \/ d.stray)
      /\ damaged' = (d.stray \/ d.risk \/ (d.buf.bad /\ ~off))
      /\ failed' = (failed \/ d.hit)
      /\ failures' = IF d.hit THEN failures + 1 ELSE failures
      /\ ops' = IF d.hit THEN Max({ops + n, MaxOps - AfterFailure}) ELSE ops + n
      /\ UNCHANGED fmt

Goes    == ~damaged /\ ready
Command == Goes /\ ops < MaxOps

Place(v, n) == <<v, cwd[v], n>>
Put(k, x) == [i \in DOMAIN want \cup {k} |-> IF i = k THEN x ELSE want[i]]
Drop(k)   == [i \in DOMAIN want \ {k} |-> want[i]]

\* The channels are alike: the first one is taken.
Free(h) == h \notin Open /\ \A x \in Handles \ Open : h <= x

\* The units an operation writes tell the volume, the name and the place.
Fresh(k, from, n) == [i \in 1 .. n |-> 100 * k[1] + 10 * k[3] + from + i]

\* An open file after a call.
Held(h, d, sum) == [file EXCEPT ![h] = IF d.ok THEN [d.fp EXCEPT !.sum = sum]
                                       ELSE [file[h] EXCEPT !.error = d.fp.error]]

Opened(h, d, k, sum) == IF d.ok THEN [file EXCEPT ![h] = d.fp @@ [key |-> k, sum |-> sum]] ELSE file

\* fat_open_write and fat_open_rel on a new file.  A file with a header starts
\* with it; a header that does not fit on the card is no error.
Create(h, v, n, header) ==
  /\ Command /\ Free(h) /\ Place(v, n) \notin DOMAIN want
  /\ \E fate \in Fates, k \in {Place(v, n)}, us \in {Fresh(Place(v, n), 0, header)} :
     \E d \in {Then(f_open_new(Device(fate), v, cwd[v], n), LAMBDA e : f_write(e, us))} :
       Finish(1, d, Opened(h, d, k, SubSeq(us, 1, d.fp.ptr)), IF d.ok THEN Put(k, Unsure) ELSE want, {k})
  /\ UNCHANGED misread

\* fat_open_read, fat_open_write to append, fat_open_rel and the mount of an
\* image, on a file that exists: the name is looked up first.
Reopen(h, v, n, mode) ==
  /\ Command /\ Free(h)
  /\ \E k \in {Place(v, n)} :
       /\ k \in DOMAIN want /\ want[k] \notin {Unsure, Folder}
       /\ ~Writing(k) /\ (mode # "r" => \A x \in Open : file[x].key # k)
       /\ \E fate \in Fates :
          \E d \in {Then(Then(f_readdir(Device(fate), v, cwd[v], n),
                              LAMBDA e : f_open(e, v, cwd[v], e.key, mode)),
                         LAMBDA e : IF mode = "w" THEN f_lseek(e, e.fp.size) ELSE e)} :
            Finish(1, d, Opened(h, d, k, want[k]), want, {})
  /\ UNCHANGED misread

\* write_data: a file that does not fit on the card is closed.
write_data(d, us) ==
  LET All(e) == IF e.fp.ptr = d.fp.ptr + Len(us) THEN e ELSE Fail(e, "DISK_FULL")
      Shut(e) == IF e.ok THEN e ELSE Fail(f_close(e), e.res)
  IN  Shut(Then(f_write(d, us), All))

\* The file after write_data; sum is what it should contain.
Wrote(n, h, d, sum, known) ==
  Finish(n, d, IF d.ok THEN [file EXCEPT ![h] = [d.fp EXCEPT !.sum = sum]]
               ELSE [file EXCEPT ![h] = Closed],
         Put(file[h].key, IF known THEN sum ELSE Unsure), {file[h].key})

Write(h, n) ==
  /\ Goes /\ file[h].mode = "w" /\ Len(file[h].sum) + n <= fmt.most
  /\ \E fate \in Fates, f \in {file[h]}, us \in {Fresh(file[h].key, Len(file[h].sum), n)} :
     \E d \in {write_data([Device(fate) EXCEPT !.fp = f], us)} :
       Wrote(0, h, d, f.sum \o SubSeq(us, 1, d.fp.ptr - f.ptr), ~d.hit /\ ~d.ok)
  /\ UNCHANGED misread

\* image_write, or fat_file_write on a relative file: a unit at ofs, zeros up to
\* there if the file is shorter, and f_sync for an image.
WriteAt(h, ofs) ==
  /\ Goes /\ file[h].mode = "rw" /\ ofs < fmt.most
  /\ \E fate \in Fates, f \in {file[h]}, us \in {Fresh(file[h].key, ofs + 50, 1)} :
     \E gap \in {[i \in 1 .. Max({0, ofs - f.size}) |-> 0]} :
     \E sum \in {[i \in 1 .. Max({f.size, ofs + 1}) |-> IF i = ofs + 1 THEN us[1] ELSE (f.sum \o gap)[i]]} :
     \E steps \in {IF gap = <<>> THEN <<<<ofs, us>>>>
                  ELSE <<<<ofs, us>>, <<f.size, gap>>, <<ofs + 1, <<>>>>>>} :
     \E d \in {FoldLeft(LAMBDA e, x : Then(Then(e, LAMBDA y : f_lseek(y, x[1])),
                                           LAMBDA y : write_data(y, x[2])),
                       [Device(fate) EXCEPT !.fp = f], steps)} :
     \E e \in {Then(d, f_sync)} : Wrote(0, h, e, sum, e.ok)
  /\ UNCHANGED misread

Slice(s, ofs, n) == SubSeq(s, ofs + 1, Min({Len(s), ofs + n}))

\* fat_file_read, fat_file_seek and image_read, which stay in the file.
Read(h, ofs, n) ==
  /\ Goes /\ file[h].mode # "w" /\ ofs <= file[h].size
  /\ \E fate \in {Well}, f \in {file[h]} :
     \E d \in {Then(f_lseek([Device(fate) EXCEPT !.fp = f], ofs), LAMBDA e : f_read(e, n))} :
       /\ Finish(0, d, Held(h, d, f.sum), want, {})
       /\ misread' = (misread \/ (d.ok /\ ~d.hit /\ d.got # Slice(f.sum, ofs, n)))

Close(h) ==
  /\ Goes
  /\ \E fate \in Fates, f \in {file[h]} :
     \E d \in {f_close([Device(fate) EXCEPT !.fp = f])} :
       Finish(0, d, [file EXCEPT ![h] = Closed],
              CASE f.mode = "r" -> want
                [] f.mode # "r" /\ d.ok /\ ~f.error -> Put(f.key, f.sum)
                [] OTHER -> Put(f.key, Unsure), {f.key})
  /\ UNCHANGED misread

\* save_capbuffer: a file on the first partition is made again, written with one
\* call and closed; nobody looks whether that works.
SaveCapture(n, len) ==
  /\ Command
  /\ \E k \in {Place(1, n)} :
       /\ \A x \in Open : file[x].key # k
       /\ k \in DOMAIN want => want[k] # Folder
       /\ \E fate \in Fates, us \in {Fresh(k, 0, len)} :
          \E d \in {Then(f_open_always(Device(fate), 1, cwd[1], n), LAMBDA e : f_write(e, us))} :
          \E e \in {IF d.fp = Closed THEN d ELSE [f_close(Ok(d)) EXCEPT !.ok = @ /\ d.ok]} :
            Finish(1, e, file, CASE e.ok -> Put(k, SubSeq(us, 1, e.fp.ptr))
                                 [] ~e.ok /\ d.fp # Closed -> Put(k, Unsure)
                                 [] OTHER -> want, {k})
  /\ UNCHANGED misread

\* fat_delete; nobody looks whether the file is open.
Unlink(v, n) ==
  /\ Command
  /\ \E k \in {Place(v, n)}, fate \in Fates :
     \E d \in {f_unlink(Device(fate), v, cwd[v], n)} :
       /\ k \in DOMAIN want /\ \A x \in Open : file[x].key # k
       /\ Finish(1, d, file, IF d.ok THEN Drop(k) ELSE want, {k})
  /\ UNCHANGED misread

\* A failure in the middle leaves two names for one file.  An entry in the last
\* slot of the table is renamed with an error.
Rename(v, n, m) ==
  /\ Command
  /\ \E k \in {Place(v, n)}, new \in {Place(v, m)}, fate \in Fates :
     \E d \in {f_rename(Device(fate), v, cwd[v], n, m)} :
       /\ k \in DOMAIN want /\ new \notin DOMAIN want /\ \A x \in Open : file[x].key # k
       /\ Finish(1, [d EXCEPT !.risk = d.hit], file,
                 CASE d.ok -> [i \in (DOMAIN want \cup {new}) \ {k} |->
                                 IF i = new THEN want[k] ELSE want[i]]
                   [] ~d.ok /\ d.res = "RW_ERROR" -> Recovered({k, new})
                   [] OTHER -> want, {k, new})
  /\ UNCHANGED misread

MkDir(v, n) ==
  /\ Command /\ Place(v, n) \notin DOMAIN want
  /\ \E k \in {Place(v, n)}, fate \in Fates :
     \E d \in {f_mkdir(Device(fate), v, l_opendir(v, cwd[v]).sclust, n)} :
       Finish(1, d, file, IF d.ok THEN Put(k, Folder) ELSE want, {k})
  /\ UNCHANGED misread

\* fat_chdir
ChDir(v, n) ==
  /\ Command /\ Place(v, n) \in DOMAIN want /\ want[Place(v, n)] = Folder
  /\ \E fate \in {Well} :
     \E d \in {f_readdir(Device(fate), v, cwd[v], n)} :
       Finish(1, IF d.ok THEN [d EXCEPT !.cwd[v] = Slot(d).clust] ELSE d, file, want, {})
  /\ UNCHANGED misread

ChDirUp(v) ==
  /\ Command /\ cwd[v] # 0
  /\ \E fate \in {Well} :
     \E d \in {trace_path(Device(fate), v, cwd[v], 0, <<0, -2>>)} :
       Finish(1, IF d.ok THEN [d EXCEPT !.cwd[v] = Slot(d).clust] ELSE d, file, want, {})
  /\ UNCHANGED misread

\* fat_freeblocks
GetFree(v) ==
  /\ Command
  /\ \E fate \in {Well} : \E d \in {l_getfree(Device(fate), v)} : Finish(1, d, file, want, {})
  /\ UNCHANGED misread

\* At the start, or when BUS_CLEANUP finds that the card has been out.
Start ==
  /\ ~ready /\ ready' = TRUE
  /\ \E d \in {fatops_init(Device(Well))} : card' = d.card /\ buf' = d.buf /\ fs' = d.fs
  /\ UNCHANGED <<fmt, cwd, file, want, misread, stray, damaged, failed, ops, failures>>

Interrupted ==
  /\ Goes /\ failures < fmt.failures /\ failures' = failures + 1 /\ ready' = FALSE
  /\ cwd' = [v \in Vols |-> 0] /\ file' = [h \in Handles |-> Closed]
  /\ ops' = Max({ops, MaxOps - AfterFailure})
  /\ UNCHANGED <<fmt, misread, stray>>

\* The card is taken out, and put in again or another one in its place.  Open
\* files are dropped; the window is kept, and written to the card that is in.
\* That is a failure if something was left to write: a window, an entry, or the
\* FSInfo sector after a command that allocated a cluster and then gave up.
CardChange(same) ==
  /\ Interrupted
  /\ card' = IF same THEN card ELSE [v \in Vols |-> Blank]
  /\ want' = IF same THEN Recovered({}) ELSE [k \in {} |-> <<>>]
  /\ damaged' = (~same /\ buf.dirty)
  /\ failed' = (failed \/ Open # {} \/ buf.dirty \/ \E v \in Vols : fs[v].flag)
  /\ UNCHANGED <<buf, fs>>

\* A loss of power while nothing is going on.
PowerLoss ==
  /\ Interrupted
  /\ buf' = Off /\ fs' = NoFs /\ want' = Recovered({}) /\ failed' = TRUE
  /\ UNCHANGED <<card, damaged>>

Next ==
  \/ \E h \in Handles, v \in Vols, n \in fmt.names, header \in fmt.headers : Create(h, v, n, header)
  \/ \E h \in Handles, v \in Vols, n \in fmt.names, mode \in fmt.modes : Reopen(h, v, n, mode)
  \/ \E h \in Open : Write(h, 2)
  \/ \E h \in Open, ofs \in fmt.offsets : WriteAt(h, ofs)
  \/ \E h \in Open : \E ofs \in fmt.offsets \cup {file[h].ptr} : Read(h, ofs, 2)
  \/ \E h \in Open : Close(h)
  \/ \E n \in fmt.names, len \in fmt.dumps : SaveCapture(n, len)
  \/ \E v \in Vols, n \in fmt.names : Unlink(v, n)
  \/ \E v \in Vols, n, m \in fmt.names : Rename(v, n, m)
  \/ \E v \in Vols, n \in fmt.names : MkDir(v, n)
  \/ \E v \in Vols, n \in fmt.names : ChDir(v, n)
  \/ \E v \in Vols : ChDirUp(v)
  \/ \E v \in Vols : GetFree(v)
  \/ \E same \in BOOLEAN : CardChange(same)
  \/ PowerLoss
  \/ Start

Spec == Init /\ [][Next]_vars

-----------------------------------------------------------------------------
(* The volumes as the program sees them: the window over the card.         *)

Sector(v, s) == IF buf.dirty /\ buf.v = v /\ buf.sect = s THEN buf.data ELSE card[v][s]
Fat(v, c) == Sector(v, FatSector(c))[c % fmt.per]

RECURSIVE Chain(_, _, _)
Chain(v, c, left) ==
  IF c \notin Clusters \/ left = 0 THEN <<>> ELSE <<c>> \o Chain(v, Fat(v, c), left - 1)

Clusts(v, c) == Chain(v, c, fmt.max)

\* The sectors of a cluster chain.
Sectors(v, c) ==
  FlattenSeq([i \in 1 .. Len(Clusts(v, c)) |->
                [j \in 1 .. fmt.csize |-> clust2sect(Clusts(v, c)[i]) + j - 1]])

TableSectors(v, c) == IF c = 0 /\ ~FAT32 THEN [i \in 1 .. fmt.root \div Per |-> rootbase + i - 1]
                      ELSE Sectors(v, IF c = 0 THEN 2 ELSE c)

\* The slots of a directory up to its end.
RECURSIVE UpToEnd(_)
UpToEnd(s) == IF s = <<>> \/ s[1].kind = "end" THEN <<>> ELSE <<s[1]>> \o UpToEnd(Tail(s))

Table(v, c) ==
  UpToEnd(FlattenSeq([i \in DOMAIN TableSectors(v, c) |->
                        [j \in 1 .. Per |-> Sector(v, TableSectors(v, c)[i])[j - 1]]]))

\* The entries of the table t of the directory c.  An entry with an 8.3 name
\* made up for a long one has the name of the slot before it.
Listing(c, t) ==
  {[dir |-> c, slot |-> i, kind |-> t[i].kind, key |-> t[i].key, clust |-> t[i].clust,
    size |-> t[i].size, name |-> IF t[i].key[1] # 0 \/ i = 1 THEN t[i].key[1] ELSE t[i - 1].key[1]] :
     i \in {j \in DOMAIN t : t[j].kind \in {"file", "dir"}}}

RECURSIVE View(_, _, _)
View(v, c, left) ==
  LET Below(list) == list \cup UNION {View(v, e.clust, left - 1) : e \in {x \in list : x.kind = "dir"}}
  IN  IF left = 0 THEN {} ELSE Below(Listing(c, Table(v, c)))

\* Directories are nested at most as deep as there are operations.
All(v) == View(v, 0, MaxOps + 1)

\* The first cluster of an entry, which is only in the file object while the
\* file is open.
Head1(v, e) ==
  LET own == {h \in Open : file[h].key = <<v, e.dir, e.name>> /\ file[h].mode # "r"}
  IN  IF own = {} THEN e.clust ELSE file[CHOOSE h \in own : TRUE].org

Chains(v) == {<<e.dir, e.slot, Clusts(v, Head1(v, e))>> : e \in All(v)}
             \cup (IF FAT32 THEN {<<0, 0, Clusts(v, 2)>>} ELSE {})

Contents(v, e) ==
  LET s == Sectors(v, e.clust)
      units == FlattenSeq([i \in DOMAIN s |-> [j \in 1 .. Per |-> Sector(v, s[i])[j - 1]]])
  IN  Slice(units, 0, e.size)

-----------------------------------------------------------------------------
\* The window, the FATFS objects and the file objects stay in their ranges.
TypeOK ==
  /\ buf.v \in Vols \cup {0} /\ buf.sect \in DOMAIN card[1]
  /\ \A v \in Vols : (failed \/ fs[v].free \in 0 .. fmt.max - 2 \cup {Unknown}) /\ cwd[v] \in Clusters \cup {0}
  /\ \A h \in Open : /\ file[h].ptr \in 0 .. file[h].size /\ file[h].left \in 0 .. fmt.csize + 1
                     /\ file[h].org \in {0, 1} \cup Clusters

\* No cluster is in two chains or twice in one, and every cluster of a chain is
\* marked as used up to the last, also after a loss of power at any access: no
\* file is ever written over another or over a directory.
NoCrossLink ==
  damaged \/ \A v \in Vols : \E cs \in {Chains(v)} :
    /\ \A x, y \in cs : x # y => ToSet(x[3]) \cap ToSet(y[3]) = {}
    /\ \A x \in cs : /\ \A i, j \in DOMAIN x[3] : x[3][i] = x[3][j] => i = j
                     /\ x[3] # <<>> => Fat(v, x[3][Len(x[3])]) = EOC

\* As long as no access fails every used cluster is in the chain of a file or a
\* directory: deleting, replacing and failing on a full card give back all.
NoLostCluster ==
  damaged \/ failed \/ \A v \in Vols :
    {c \in Clusters : Fat(v, c) # 0} \subseteq UNION {ToSet(x[3]) : x \in Chains(v)}

\* free_clust, once known, is the number of free clusters, also when it comes
\* from the FSInfo sector of an earlier mount.
FreeCountTrue ==
  damaged \/ failed \/ ~ready \/ \A v \in Vols :
    fs[v].free # Unknown => fs[v].free = Cardinality({c \in Clusters : Fat(v, c) = 0})

\* The two FATs on the card agree between operations.
CopiesAgree ==
  damaged \/ failed \/ \A v \in Vols : \A s \in fatbase .. fatbase + sects_fat - 1 :
    card[v][s] = card[v][s + sects_fat]

\* As long as no access fails a window that is not to be written back shows its
\* sector of its volume, whoever has written to the card last.  (Not if it is
\* said to be a boot or an FSInfo sector: fatops_init leaves the partition table
\* there.)
WindowTrue ==
  damaged \/ failed \/ ~ready \/ buf.dirty \/ buf.sect < fatbase \/ buf.data = card[buf.v][buf.sect]

\* No operation writes to the boot sector or the partition table, and nothing but
\* the numbers of its volume is ever written to an FSInfo sector.
SystemIntact ==
  damaged \/ \A v \in Vols : /\ card[v][0] = Boot /\ card[v][fmt.boot] = Boot
                             /\ FAT32 => Len(card[v][fsi_sector]) = 2

\* Each file that was closed without an error is found under its name with all
\* that was written to it, whatever happens to other files and even if the
\* power is lost during an operation on another file.
FilesIntact ==
  damaged \/ \A v \in Vols : \E all \in {All(v)} :
    \A k \in {x \in DOMAIN want : x[1] = v /\ want[x] # Unsure /\ ~Writing(x)} :
      \E e \in all : /\ e.dir = k[2] /\ e.name = k[3]
                    /\ IF want[k] = Folder THEN e.kind = "dir"
                       ELSE e.kind = "file" /\ e.size = Len(want[k]) /\ Contents(v, e) = want[k]

\* As long as no access fails the entries of a directory have different names and
\* different 8.3 names, however names were made up for long ones.  (A directory
\* whose chain cannot be read looks as if it ended, and gets a second entry.)
NamesUnique ==
  damaged \/ failed \/ \A v \in Vols : \E all \in {All(v)} :
    \A x, y \in all : x.dir = y.dir /\ x # y => x.name # y.name /\ x.key # y.key

\* f_read returns what was written, from any position and while other files use
\* the window.
ReadBack == ~misread

\* write_data writes to the sectors of the file: f_write never goes on with a
\* file that has not got a sector.
NoStrayWrite == ~stray

\* The FAT is consistent for the next command: no cluster in two chains, none
\* lost, and the free count that is kept beside the FAT is exact.
Consistent == TypeOK /\ NoCrossLink /\ NoLostCluster /\ FreeCountTrue

\* The one sector buffer that FAT, directories, data and all volumes share
\* never holds or writes the wrong sector: both copies of the FAT agree, a clean
\* window equals its sector, and boot and FSInfo sectors stay what they are.
WindowSound == CopiesAgree /\ WindowTrue /\ SystemIntact

\* Files are found under their names and read back as written, also those
\* nobody was writing when the storage failed or power was lost.
FilesRight == ReadBack /\ NamesUnique /\ FilesIntact
=============================================================================
