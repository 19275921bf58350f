----------------------------- MODULE DiskImage -----------------------------
(***************************************************************************)
(* Files and directories in a disk image: the file operations of d64ops.c  *)
(* on the sectors and the BAM of ImageBam, with a card access that fails   *)
(* and a loss of power between any two accesses.                           *)
(*                                                                         *)
(* A directory sector has one entry and a sector one unit of file data, a  *)
(* number that tells who wrote it.  A unit fills its sector.               *)
(***************************************************************************)
EXTENDS ImageBam, SequencesExt

CONSTANTS Formats,      \* small image types
          Names,        \* file names
          Handles,      \* channels open for writing
          MaxOps,       \* bound: operations
          MaxFailures,  \* bound: accesses that fail, losses of power
          MaxIo         \* bound: accesses before the one that fails

ASSUME DiskImageAssumption ==
  /\ \A f \in Formats : f.kind \in {"D41", "D71", "D81", "DNP"} /\ f.dir \in 1 .. f.last
  /\ MaxOps \in Nat /\ MaxFailures \in Nat /\ MaxIo \in Nat

VARIABLES img,      \* the image on the card
          bam,      \* bam_buffer and bam_buffer2
          cache,    \* errorcache
          cwd,      \* current_dir: the first directory sector or its header
          file,     \* the buffers of the files open for writing
          error,    \* current_error after the last operation
          idle,     \* BUS_CLEANUP has run since the last operation
          want,     \* what each file should contain (history)
          tail,     \* the sector of an unclosed file that is not written yet (history)
          cut,      \* files that ended with DISK FULL (history)
          trusted,  \* a sector with an error byte was read as good (history)
          silent,   \* a full sector had no successor and no error was set (history)
          damaged,  \* the directory and the BAM may disagree from here on (history)
          failed,   \* a card access has failed (history)
          ops, failures

vars == <<fmt, img, bam, cache, cwd, file, error, idle, want, tail, cut, trusted, silent,
          damaged, failed, ops, failures>>

Absent == <<-1>>
Unsure == <<-2>>
Folder == <<-3>>

\* A sector of zeros is the last one of a chain, an empty directory sector and
\* a BAM sector without free sectors.
Cleared(image, at) ==
  LET b == Bam(image, at)
      i == WithBam(image, [b EXCEPT !.free = [t \in DOMAIN @ |-> {}],
                                    !.cnt = [t \in DOMAIN @ |-> 0]])
  IN  WithHeader(WithEntry(WithUnit(WithLink(i, at, End), at, 0), at, Empty), at, NoHeader)

\* The contents of the buffer of a file in its sector.
Stored(image, f, next) ==
  WithLink(WithUnit(WithHeader(WithEntry(image, f.at, Empty), f.at, NoHeader), f.at, f.unit),
           f.at, next)

-----------------------------------------------------------------------------
(* The directory                                                           *)

Root == IF DNP THEN <<1, 1>> ELSE <<fmt.dir, fmt.start>>

\* A DNP directory starts at the sector its header points to; find_empty_entry
\* does not look whether the header could be read.
d64_opendir(d, dir) ==
  LET Start(e) == [e EXCEPT !.at = IF e.ok THEN Link(e.img, dir) ELSE dir]
  IN  IF DNP THEN Start(image_read(d)) ELSE [d EXCEPT !.ok = TRUE, !.at = dir]

read_entry(d) == image_read(d)

\* An entry is written with the link of its sector, as it was read.
write_entry(d, at, entry) == image_write(d, WithEntry(d.img, at, entry))

\* The entry after the one at d.at: n is FALSE behind the last one.
nextdirentry(d) ==
  LET Follow(e, l) == CASE l = End -> [e EXCEPT !.n = FALSE]
                        [] InRange(l) -> read_entry([e EXCEPT !.at = l, !.n = TRUE])
                        [] OTHER -> set_error(e, "TS")
  IN  Then(checked_read(d, d.at), LAMBDA e : Follow(e, Link(e.img, d.at)))

RECURSIVE Scan(_, _)
Scan(d, name) ==
  IF ~d.ok \/ ~d.n \/ Entry(d.img, d.at).name = name THEN d ELSE Scan(nextdirentry(d), name)

\* nextdirentry until an entry with the name, or with none, is found.
FindEntry(d, dir, name) == Scan([read_entry(d64_opendir(d, dir)) EXCEPT !.n = TRUE], name)

\* The entry of the parent directory counts the sectors of a DNP directory.
CountInParent(d, dir) ==
  LET Up(i) == Header(i, dir).entry
      Add(e) == image_write(e, WithEntry(e.img, Up(e.img), [Entry(e.img, Up(e.img)) EXCEPT
                                                               !.blocks = @ + 1]))
  IN  IF ~DNP THEN Ok(d)
      ELSE Then(image_read(d), LAMBDA e : IF Up(e.img) = End THEN e ELSE Then(image_read(e), Add))

\* What a failure here leaves behind, the BAM and the directory disagree on.
Risky(d) == [d EXCEPT !.lost = @ \/ ~d.ok]

\* A new directory sector: link, BAM, block count, then its contents.
Extend(d, dir, last) ==
  LET Linked(e)  == image_write(e, WithLink(e.img, last, e.at))
      Alloc(e)   == allocate_sector(e, e.at)
      Counted(e) == CountInParent(e, dir)
      Clear(e)   == image_write(e, Cleared(e.img, e.at))
  IN  Then(Then(d, Linked), LAMBDA e : Risky(Then(Then(Alloc(e), Counted), Clear)))

find_empty_entry(d, dir) ==
  Then(FindEntry(d, dir, 0),
       LAMBDA e : IF e.n THEN e ELSE Extend(get_next_sector(e, e.at), dir, e.at))

-----------------------------------------------------------------------------
(* Reading and writing files                                               *)

\* The units from at to the last sector, added to d.got: d64_read again and
\* again.
RECURSIVE d64_read(_, _)
d64_read(d, at) ==
  LET More(e) == IF Link(e.img, at) = End \/ Len(e.got) > Cardinality(Sectors)
                   THEN [e EXCEPT !.at = at] ELSE d64_read(e, Link(e.img, at))
  IN  Then(checked_read(d, at), LAMBDA e : More([e EXCEPT !.got = Append(@, Unit(e.img, at))]))

Units(s) == SelectSeq(s, LAMBDA u : u # 0)

d64_open_read(d, at) == Then(read_entry(d), LAMBDA e : d64_read(e, Entry(e.img, at).first))

\* A new file: an entry, a first sector, the entry written unclosed.  The entry
\* is left in val and the first sector in at.
OpenNew(d, dir, n) ==
  LET First(e) == get_first_sector([e EXCEPT !.val = e.at])
      Alloc(e) == allocate_sector(e, e.at)
      Write(e) == write_entry(e, e.val, [Empty EXCEPT !.name = n, !.first = e.at])
  IN  Then(Then(Then(find_empty_entry(d, dir), First), Alloc), Write)

\* The file is read to its last sector, which stays in the buffer.
OpenAppend(d, at) ==
  LET Write(e) == Ok(write_entry([e EXCEPT !.val = at], at, Entry(e.img, at)))
  IN  Then(d64_open_read(d, at), Write)

Store(d, f, next) == image_write(d, Stored(d.img, f, next))

\* A full sector: the next one is found and allocated before this one is
\* written; if there is none this is the last one (n is TRUE when it is stored)
\* and the buffer is given up.  In a DNP image get_next_sector sets no error:
\* the buffer is kept, has no sector any more and takes further bytes.
d64_write(d, f) ==
  LET Linked(g) == Then(allocate_sector(g, g.at), LAMBDA e : Store(e, f, e.at))
      Final(e)  == IF e.error = "OK" THEN [e EXCEPT !.at = End, !.n = FALSE, !.silent = TRUE]
                   ELSE [e EXCEPT !.ok = FALSE, !.n = e.ok]
      Next(g)   == IF g.ok THEN [Linked(g) EXCEPT !.n = FALSE] ELSE Final(Store(g, f, End))
  IN  Next(get_next_sector(d, f.at))

\* Mistake: the sectors written before are not counted.
d64_write_cleanup_blocks(d, f) ==
  LET Closed(e) == write_entry(e, f.entry, [Entry(e.img, f.entry) EXCEPT
                                              !.closed = TRUE, !.blocks = 1])
  IN  IF f.at = End THEN [d EXCEPT !.ok = FALSE]
      ELSE Then(Then(Store(d, f, End), read_entry), Closed)

\* A buffer without a sector is dropped, with no error of its own.
d64_write_cleanup(d, f) ==
  LET Closed(e) == write_entry(e, f.entry, [Entry(e.img, f.entry) EXCEPT
                                              !.closed = TRUE, !.blocks = f.blocks + 1])
  IN  IF f.at = End THEN [d EXCEPT !.ok = FALSE]
      ELSE Then(Then(Store(d, f, End), read_entry), Closed)

RECURSIVE FreeChain(_, _, _)

\* Each sector is freed before its link is read.
FreeChain(d, at, left) ==
  LET More(e) == IF Link(e.img, at) = End THEN e ELSE FreeChain(e, Link(e.img, at), left - 1)
  IN  CASE left = 0 -> [d EXCEPT !.ok = FALSE]
        [] left > 0 /\ ~InRange(at) -> set_error(d, "TS")
        [] OTHER -> Then(checked_read(free_sector(d, at), at), More)

d64_delete(d, at) ==
  LET Unlist(e) == write_entry(e, at, Empty)
  IN  Then(read_entry(d), LAMBDA e :
        Risky(Then(FreeChain(e, Entry(e.img, at).first, Cardinality(Sectors) + 1), Unlist)))

\* A directory of a DNP image: header and first sector, then the entry.  The
\* entry is kept in val and the header in top.
d64_mkdir(d, dir, n) ==
  LET Full(e)    == IF e.ok THEN e ELSE set_error(e, "FULL")
      Head1(e)   == Full(get_next_sector([e EXCEPT !.val = e.at], dir))
      Alloc(e)   == allocate_sector(e, e.at)
      Undo(e)    == IF e.ok THEN e
                    ELSE [free_sector(set_error(e, "FULL"), e.top) EXCEPT !.ok = FALSE]
      First(e)   == Undo(get_next_sector([e EXCEPT !.top = e.at], e.at))
      Heading(e) == image_write(e, WithHeader(WithLink(Cleared(e.img, e.top), e.top, e.at),
                                              e.top, [entry |-> e.val, up |-> dir]))
      Clear(e)   == image_write(e, Cleared(e.img, e.at))
      Write(e)   == write_entry(e, e.val, [name |-> n, first |-> e.top, blocks |-> 2,
                                           closed |-> TRUE, folder |-> TRUE])
  IN  IF ~DNP THEN set_error(d, "SYNTAX")
      ELSE Then(Then(Then(Then(Then(Then(Then(find_empty_entry(d, dir),
             Head1), Alloc), First), Alloc), Heading), Clear), Write)

-----------------------------------------------------------------------------
(* Formatting                                                              *)

\* Sectors in the order of the loops over t and s.
InOrder(set) ==
  LET Add(seq, t) == seq \o [s \in 1 .. fmt.spt[t] |-> <<t, s - 1>>]
  IN  SelectSeq(FoldLeft(Add, <<>>, [t \in Tracks |-> t]), LAMBDA x : x \in set)

\* Sectors that hold neither files nor directory entries.
System ==
  CASE fmt.kind = "D41" -> {<<fmt.dir, 0>>}
    [] fmt.kind = "D71" -> {<<fmt.dir, 0>>} \cup {x \in Sectors : x[1] = fmt.dir + fmt.half}
    [] fmt.kind = "D81" -> {<<fmt.dir, s>> : s \in 0 .. 2}
    [] fmt.kind = "DNP" -> {<<1, s>> : s \in 0 .. fmt.start - 1}

\* The first sector of the root directory.
RootDir == <<fmt.dir, fmt.start>>

d64_bam_commit(d) ==
  IF d.b2 = NULL THEN bam_buffer_flush(d)
  ELSE bam_buffer_swap(bam_buffer_flush(bam_buffer_swap(bam_buffer_flush(d))))

Invalidated(d) == [d EXCEPT !.b1.at = NULL, !.b2 = IF @ = NULL THEN NULL ELSE Invalid]

\* format_d41_image to format_dnp_image: system sectors, header, directory.
FormatType(d) ==
  LET Heading(e) == image_write(e, IF DNP THEN WithLink(Cleared(e.img, Root), Root, RootDir)
                                          ELSE e.img)
      Clear(e)   == image_write(e, Cleared(e.img, RootDir))
  IN  Then(Heading(FoldLeft(allocate_sector, d, InOrder(System \cup {RootDir}))), Clear)

\* With an id every sector is cleared, without one the directory track.
d64_format(d, id) ==
  LET Zero(e, at) == IF e.ok THEN image_write(e, Cleared(e.img, at)) ELSE e
      Area == {x \in Sectors : id \/ x[1] = fmt.dir}
      Free(e) == FormatType(FoldLeft(free_sector, e, InOrder(Sectors)))
  IN  Then(FoldLeft(Zero, Ok(Invalidated(d64_bam_commit(d))), InOrder(Area)), Free)

-----------------------------------------------------------------------------
Blank ==
  LET used == System \cup {RootDir}
      free == [t \in Tracks |-> {s \in Numbers(t) : <<t, s>> \notin used}]
      nothing == [x \in {} |-> 0]
  IN  [free |-> free, cnt |-> [t \in Tracks |-> IF DNP THEN 0 ELSE Cardinality(free[t])],
       next |-> IF DNP THEN <<1, 1>> :> RootDir ELSE nothing,
       body |-> nothing, ent |-> nothing, hdr |-> nothing]

\* d64_mount: one BAM buffer, which is empty; the error cache is invalid.
Mounted  == [b1 |-> Invalid, b2 |-> NULL]
NoErrors == [track |-> 0, bad |-> {}]

Init ==
  /\ fmt \in Formats
  /\ img = Blank
  /\ bam = Mounted
  /\ cache = NoErrors /\ cwd = Root /\ error = "OK" /\ idle = TRUE
  /\ file = [h \in Handles |-> NULL]
  /\ want = [n \in Names |-> Absent] /\ tail = [n \in Names |-> NULL]
  /\ cut = {} /\ trusted = FALSE /\ silent = FALSE /\ damaged = FALSE /\ failed = FALSE
  /\ ops = 0 /\ failures = 0

\* How the accesses of an operation go: all well, one fails, or from one on
\* there is no power.
Fates == {[io |-> Forever, dead |-> FALSE]} \cup
         (IF failures < MaxFailures THEN [io : 0 .. MaxIo, dead : BOOLEAN] ELSE {})

Device(fate) ==
  [img |-> img, b1 |-> bam.b1, b2 |-> bam.b2, cache |-> cache,
   io |-> fate.io, dead |-> fate.dead, hit |-> FALSE, ok |-> TRUE, n |-> FALSE, at |-> End,
   val |-> End, top |-> End, got |-> <<>>, error |-> "OK", lost |-> FALSE, trusted |-> trusted,
   silent |-> silent]

\* The effects of an operation that leaves the device d; a loss of power during
\* it ends everything that was only in memory.
Finish(d, files, dir, risk) ==
  LET off == d.dead /\ d.hit
  IN  /\ d.io >= 0 /\ ~d.dead => d.hit
      /\ d.dead => d.hit
      /\ img' = d.img /\ error' = d.error
      /\ bam' = IF off THEN Mounted ELSE [b1 |-> d.b1, b2 |-> d.b2]
      /\ cache' = IF off THEN NoErrors ELSE d.cache
      /\ cwd' = IF off THEN Root ELSE dir
      /\ file' = IF off THEN [h \in Handles |-> NULL] ELSE files
      /\ trusted' = d.trusted /\ silent' = d.silent
      /\ damaged' = (off \/ d.lost \/ risk)
      /\ failed' = (failed \/ d.hit)
      /\ failures' = IF d.hit THEN failures + 1 ELSE failures
      /\ UNCHANGED fmt

Command == ~damaged /\ idle /\ ops < MaxOps /\ ops' = ops + 1 /\ idle' = FALSE

\* The entry is found in the current directory.
Visible(n) == FindEntry(Device([io |-> Forever, dead |-> FALSE]), cwd, n).n

\* The channels are alike: the first one is taken.
Free(h) == file[h] = NULL /\ \A k \in Handles : file[k] = NULL => h <= k

OpenWrite(h, n) ==
  /\ Command /\ Free(h) /\ want[n] = Absent
  /\ \E fate \in Fates :
     \E d \in {Then(FindEntry(Device(fate), cwd, n), LAMBDA e : OpenNew(e, cwd, n))} :
       /\ Finish(d, IF ~d.ok THEN file ELSE
                      [file EXCEPT ![h] = [name |-> n, entry |-> d.val, at |-> d.at, id |-> ops + 1,
                                           blocks |-> 0, unit |-> 0, full |-> FALSE, sum |-> <<>>]],
                 cwd, FALSE)
       /\ want' = [want EXCEPT ![n] = IF d.ok THEN Unsure ELSE @]
       /\ tail' = [tail EXCEPT ![n] = IF d.ok THEN d.at ELSE @]
       /\ UNCHANGED cut

Writing(n) == \E h \in Handles : file[h] # NULL /\ file[h].name = n

\* A file whose name is found and whose chain has an end.
Complete(n) == want[n] \notin {Absent, Folder} /\ Visible(n) /\ ~Writing(n) /\ tail[n] = NULL

OpenAgain(h, n) ==
  /\ Command /\ Free(h) /\ Complete(n)
  /\ \E fate \in Fates :
     \E d \in {Then(FindEntry(Device(fate), cwd, n), LAMBDA e : OpenAppend(e, e.at))} :
       Finish(d, IF ~d.ok THEN file ELSE
                   [file EXCEPT ![h] = [name |-> n, entry |-> d.val, at |-> d.at, id |-> ops + 1,
                                        blocks |-> Entry(d.img, d.val).blocks - 1,
                                        unit |-> Unit(d.img, d.at), full |-> Unit(d.img, d.at) # 0,
                                        sum |-> Units(d.got)]],
              cwd, FALSE)
  /\ UNCHANGED <<want, tail, cut>>

\* One more unit from the host: a full buffer is written first.  What was
\* written before the image was full is the file's end (final).
Put(h) ==
  /\ ~damaged /\ file[h] # NULL /\ idle' = FALSE /\ UNCHANGED ops
  /\ file[h].at # End
  /\ \E fate \in Fates, f \in {file[h]} :
     \E u \in {10 * f.id + Len(f.sum)},
        d \in {IF f.full THEN d64_write(Device(fate), f) ELSE [Device(fate) EXCEPT !.at = f.at]} :
       /\ Finish(d, [file EXCEPT ![h] = IF ~d.ok THEN NULL ELSE
                       [f EXCEPT !.at = d.at, !.unit = u, !.full = TRUE, !.sum = Append(@, u),
                                 !.blocks = IF f.full THEN @ + 1 ELSE @]],
                 cwd, FALSE)
       /\ LET final == IF d.ok THEN d.at = End ELSE d.n IN
          /\ want' = [want EXCEPT ![f.name] = IF final THEN f.sum ELSE Unsure]
          /\ tail' = [tail EXCEPT ![f.name] = CASE final -> NULL
                                                [] ~final /\ d.ok /\ f.full -> d.at
                                                [] OTHER -> @]
          /\ cut' = IF final THEN cut \cup {f.name} ELSE cut

\* A second full buffer without a sector: the search from track 0 never ends
\* while the image is full; once another file has been deleted the bytes go to
\* track 0, behind the image.  The image is not followed any further.
PutBeyond(h) ==
  /\ ~damaged /\ file[h] # NULL /\ file[h].at = End
  /\ damaged' = TRUE /\ idle' = FALSE
  /\ UNCHANGED <<fmt, img, bam, cache, cwd, file, error, want, tail, cut, trusted, silent,
                 failed, ops, failures>>

Close(h) ==
  /\ ~damaged /\ file[h] # NULL /\ idle' = FALSE /\ UNCHANGED <<ops, cut>>
  /\ \E fate \in Fates, f \in {file[h]} :
     \E d \in {d64_write_cleanup(Device(fate), f)} :
       /\ Finish(d, [file EXCEPT ![h] = NULL], cwd, FALSE)
       /\ want' = [want EXCEPT ![f.name] = CASE d.ok -> f.sum
                                             [] ~d.ok /\ f.at = End -> @
                                             [] OTHER -> Unsure]
       /\ tail' = [tail EXCEPT ![f.name] = IF d.ok THEN NULL ELSE @]

\* A read of the whole file.
Load(n) ==
  /\ Command /\ want[n] \notin {Absent, Folder} /\ Visible(n)
  /\ \E fate \in Fates :
     \E d \in {Then(FindEntry(Device(fate), cwd, n), LAMBDA e : d64_open_read(e, e.at))} :
       Finish(d, file, cwd, FALSE)
  /\ UNCHANGED <<want, tail, cut>>

\* A file that was never closed has no end: its chain runs into whatever the
\* sector that was not written yet linked to before.
Scratch(n) ==
  /\ Command /\ want[n] \notin {Absent, Folder} /\ Visible(n)
  /\ \E fate \in Fates :
     \E d \in {Then(FindEntry(Device(fate), cwd, n), LAMBDA e : d64_delete(e, e.at))} :
       /\ Finish(d, file, cwd, ~Complete(n))
       /\ want' = [want EXCEPT ![n] = IF d.ok THEN Absent ELSE @]
       /\ tail' = [tail EXCEPT ![n] = IF d.ok THEN NULL ELSE @]
       /\ cut' = cut \ {n}

d64_rename(d, at, m) ==
  Then(read_entry(d), LAMBDA e : write_entry(e, at, [Entry(e.img, at) EXCEPT !.name = m]))

Rename(n, m) ==
  /\ Command /\ want[m] = Absent /\ Complete(n)
  /\ \E fate \in Fates :
     \E d \in {Then(FindEntry(Device(fate), cwd, n), LAMBDA e : d64_rename(e, e.at, m))} :
       /\ Finish(d, file, cwd, FALSE)
       /\ want' = IF d.ok THEN [want EXCEPT ![n] = Absent, ![m] = want[n]] ELSE want
       /\ cut' = IF n \in cut /\ d.ok THEN (cut \ {n}) \cup {m} ELSE cut
       /\ UNCHANGED tail

MakeDir(n) ==
  /\ Command /\ want[n] = Absent
  /\ \E fate \in Fates :
     \E d \in {d64_mkdir(Device(fate), cwd, n)} :
       /\ Finish(d, file, cwd, FALSE)
       /\ want' = [want EXCEPT ![n] = IF d.ok THEN Folder ELSE @]
       /\ UNCHANGED <<tail, cut>>

\* d64_chdir into a directory of a DNP image.
ChangeDir(n) ==
  /\ Command /\ DNP /\ want[n] = Folder /\ Visible(n)
  /\ \E fate \in Fates :
     \E d \in {Then(FindEntry(Device(fate), cwd, n), read_entry)} :
       Finish(d, file, IF d.ok THEN Entry(img, d.at).first ELSE cwd, FALSE)
  /\ UNCHANGED <<want, tail, cut>>

\* d64_chdir to the directory above; in the root the image is left instead.
ChangeDirUp ==
  /\ Command /\ Header(img, cwd).up # End
  /\ \E fate \in Fates :
     \E d \in {image_read(Device(fate))} :
       Finish(d, file, IF d.ok THEN Header(img, cwd).up ELSE cwd, FALSE)
  /\ UNCHANGED <<want, tail, cut>>

\* Files that are open are not closed, and a D71 formatted without an id keeps
\* the bits of its second side while the counters start at zero.
Format(id) ==
  /\ Command /\ cwd = Root
  /\ \E fate \in Fates :
     \E d \in {d64_format(Device(fate), id)} :
       /\ Finish(d, file, cwd, d.hit \/ (\E h \in Handles : file[h] # NULL)
                                     \/ (fmt.kind = "D71" /\ ~id))
       /\ want' = [n \in Names |-> IF d.hit THEN Unsure ELSE Absent]
       /\ tail' = [n \in Names |-> NULL] /\ cut' = {}

\* BUS_CLEANUP ends every transaction on the bus.
Commit ==
  /\ ~damaged /\ ~idle /\ idle' = TRUE /\ UNCHANGED ops
  /\ \E fate \in Fates :
     \E d \in {d64_bam_commit(Device(fate))} : Finish(d, file, cwd, FALSE)
  /\ UNCHANGED <<want, tail, cut>>

\* d64_unmount and d64_mount; user buffers are closed before.
Remount ==
  /\ Command /\ \A h \in Handles : file[h] = NULL
  /\ \E fate \in Fates :
     \E d \in {[Invalidated(d64_bam_commit(Device(fate))) EXCEPT !.cache = NoErrors]} :
       Finish(d, file, Root, FALSE)
  /\ UNCHANGED <<want, tail, cut>>

\* A loss of power while nothing is going on.
PowerLoss ==
  /\ ~damaged /\ idle /\ failures < MaxFailures /\ failures' = failures + 1
  /\ bam' = Mounted /\ cache' = NoErrors /\ cwd' = Root
  /\ file' = [h \in Handles |-> NULL] /\ error' = "OK"
  /\ UNCHANGED <<fmt, img, idle, want, tail, cut, trusted, silent, damaged, failed, ops>>

Next ==
  \/ \E h \in Handles, n \in Names : OpenWrite(h, n) \/ OpenAgain(h, n)
  \/ \E h \in Handles : Put(h) \/ PutBeyond(h) \/ Close(h)
  \/ \E n \in Names : Load(n) \/ Scratch(n) \/ MakeDir(n) \/ ChangeDir(n)
  \/ \E n, m \in Names : Rename(n, m)
  \/ \E id \in BOOLEAN : Format(id)
  \/ ChangeDirUp \/ Commit \/ Remount \/ PowerLoss

Spec == Init /\ [][Next]_vars

-----------------------------------------------------------------------------
(* The BAM as the program sees it: the buffers over the card.              *)

Buffers == {b \in {bam.b1, bam.b2} : b # NULL /\ b.at # NULL}

Seen == IF bam.b2 # NULL /\ bam.b2.at # NULL
          THEN WithBam(IF bam.b1.at # NULL THEN WithBam(img, bam.b1) ELSE img, bam.b2)
          ELSE IF bam.b1.at # NULL THEN WithBam(img, bam.b1) ELSE img

\* The sectors from x to the end of a chain, or to the sector stop.
RECURSIVE Chain(_, _, _)
Chain(x, stop, left) ==
  IF ~InRange(x) \/ left = 0 THEN <<>>
  ELSE <<x>> \o (IF x = stop THEN <<>> ELSE Chain(Link(img, x), stop, left - 1))

All == Cardinality(Sectors) + 1

\* The directories, by header or first sector, that can be reached from those
\* in heads.
RECURSIVE Folders(_)
Folders(heads) ==
  LET inside == UNION {ToSet(Chain(h, NULL, All)) : h \in heads}
      more   == heads \cup {Entry(img, x).first : x \in {y \in inside : Entry(img, y).folder}}
  IN  IF more = heads THEN heads ELSE Folders(more)

DirChains == {Chain(h, NULL, All) : h \in Folders({Root})}

Listed == {x \in UNION {ToSet(c) : c \in DirChains} : Entry(img, x) # Empty}

Files == {x \in Listed : ~Entry(img, x).folder}

FileChain(x) == Chain(Entry(img, x).first, tail[Entry(img, x).name], All)

InChains == UNION {ToSet(c) : c \in DirChains \cup {FileChain(x) : x \in Files}}

\* The buffers of open files have a sector of the image to be written to, unless
\* a DNP image was full.
TypeOK ==
  /\ error \in {"OK", "CARD", "TS", "BAD", "FULL", "SYNTAX"} /\ cwd \in Sectors
  /\ \A h \in Handles : file[h] # NULL /\ ~damaged =>
       file[h].at \in Sectors \cup (IF DNP THEN {End} ELSE {}) /\ file[h].entry \in Sectors

\* No BAM sector is in both buffers: a change is never made to one copy only.
OneCopy == bam.b2 # NULL /\ bam.b1.at # NULL => bam.b1.at # bam.b2.at

\* The sectors of an image that nothing has damaged are in one place of one
\* chain at most, none of them a system sector: no file can be written over
\* another, over the directory or over the BAM.
NoCrossLink ==
  damaged \/
  \E dirs \in {DirChains}, files \in {[x \in Files |-> FileChain(x)]} :
    /\ \A c \in dirs \cup Range(files) : IsInjective(c) /\ ToSet(c) \cap (System \ {Root}) = {}
    /\ \A x, y \in DOMAIN files : x # y => ToSet(files[x]) \cap ToSet(files[y]) = {}
    /\ \A x \in DOMAIN files, c \in dirs : ToSet(files[x]) \cap ToSet(c) = {}

\* Every sector of a chain, and the system sectors, are allocated.
SectorsReserved ==
  damaged \/ \E free \in {Seen.free} : \A x \in System \cup InChains : x[2] \notin free[x[1]]

\* Only sectors of a chain are allocated, so a full disk is full of files,
\* unless an access to the card has failed in between.
NoLostSector ==
  damaged \/ failed \/
  \E free \in {Seen.free}, used \in {System \cup InChains} :
    \A x \in Sectors : x[2] \in free[x[1]] \/ x \in used

\* The counter of every track agrees with its bits although the two are in
\* different BAM sectors on a D71: BLOCKS FREE is true.
CountersTrue ==
  damaged \/ DNP \/ \E seen \in {Seen} : \A t \in Tracks : seen.cnt[t] = Cardinality(seen.free[t])

\* At the end of a transaction the BAM on the card is the one in the buffers,
\* so power can be switched off.
CardIsCurrent == idle /\ ~damaged /\ ~failed => Seen = img

\* A closed file has exactly the units that were written to it, whatever is
\* done to other files, even if it is interrupted.
Contents(x) == LET c == FileChain(x) IN Units([i \in DOMAIN c |-> Unit(img, c[i])])

FilesIntact ==
  \A n \in Names : want[n] \notin {Absent, Unsure, Folder} /\ ~Writing(n) /\ tail[n] = NULL =>
    \E x \in Files : Entry(img, x).name = n /\ Contents(x) = want[n]

\* The directory shows each closed file and each directory with its length,
\* except a file that was being extended when the disk became full.
BlocksTrue ==
  damaged \/ failed \/
  \A x \in Listed :
    LET e == Entry(img, x)  n == e.name IN
    e.closed /\ ~Writing(n) /\ tail[n] = NULL /\ n \notin cut =>
      e.blocks = IF e.folder THEN Len(Chain(e.first, NULL, All)) ELSE Len(FileChain(x))

\* A sector that the error bytes of the image call bad is not read as good.
BadSectorsReported == failed \/ ~trusted

\* Data that does not fit into the image is reported when the buffer is written
\* (d64_write), except in a DNP image: its get_next_sector sets no error, and
\* neither do the buffer's further bytes and CLOSE.  What is lost are whole
\* sectors at the end: the file has everything that came before.
LossReported == silent => DNP

\* The image is consistent for the next command: chains do not meet, what they
\* hold is marked used, and a used sector is in a chain.
Consistent == TypeOK /\ NoCrossLink /\ SectorsReserved /\ NoLostSector

\* The BAM as d64ops.c sees it through its two buffers is one BAM: no sector is
\* held twice, counters and bits agree, and it is on the card once the bus is
\* idle.
CacheTrue == OneCopy /\ CountersTrue /\ CardIsCurrent

\* A closed file reads back as written with its size in the directory, sectors
\* with an error code are reported as bad, and only a full DNP image takes data
\* that it does not store.
FilesReadable == FilesIntact /\ BlocksTrue /\ BadSectorsReported /\ LossReported
=============================================================================
