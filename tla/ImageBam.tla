------------------------------ MODULE ImageBam ------------------------------
(***************************************************************************)
(* The sectors of a disk image and the block availability map (BAM) that   *)
(* d64ops.c keeps in one or two sector buffers.                            *)
(*                                                                         *)
(* A sector is a pair <<track, number>>.  An operation works on a device d:*)
(* the image on the card, the BAM buffers b1 and b2, the error info cache, *)
(* and what the last call left: ok, n (a count or a flag), at (a sector).  *)
(* d.io is the number of accesses to the card that still succeed, or       *)
(* Forever; when it is 0 an access fails, and with d.dead all later ones.  *)
(***************************************************************************)
EXTENDS Integers, Sequences, FiniteSetsExt, TLC

VARIABLE fmt     \* the mounted image: its type, its geometry, and whether a
                 \* second BAM buffer can be had (spare)

Forever == -1
NULL    == <<>>
End     == <<0, 0>>      \* the link of a last sector

Tracks    == 1 .. fmt.last
Numbers(t) == 0 .. fmt.spt[t] - 1
Sectors   == UNION {{t} \X Numbers(t) : t \in Tracks}

DNP == fmt.kind = "DNP"

-----------------------------------------------------------------------------
(* Access to the image file.  The image holds the bits and counters of the *)
(* BAM and, for the sectors where they are not zero, the link to the next  *)
(* sector, the unit of data, the directory entry and, for the header of a  *)
(* DNP directory, its entry and its parent.                                *)

At(f, x, zero) == IF x \in DOMAIN f THEN f[x] ELSE zero

Set(f, x, v, zero) ==
  IF v = zero THEN [y \in DOMAIN f \ {x} |-> f[y]] ELSE (x :> v) @@ f

Empty == [name |-> 0, first |-> End, blocks |-> 0, closed |-> FALSE, folder |-> FALSE]
NoHeader == [entry |-> End, up |-> End]

Link(i, x)   == At(i.next, x, End)
Unit(i, x)   == At(i.body, x, 0)
Entry(i, x)  == At(i.ent, x, Empty)
Header(i, x) == At(i.hdr, x, NoHeader)

WithLink(i, x, v)   == [i EXCEPT !.next = Set(@, x, v, End)]
WithUnit(i, x, v)   == [i EXCEPT !.body = Set(@, x, v, 0)]
WithEntry(i, x, v)  == [i EXCEPT !.ent = Set(@, x, v, Empty)]
WithHeader(i, x, v) == [i EXCEPT !.hdr = Set(@, x, v, NoHeader)]


Access(d) ==
  [d EXCEPT !.ok = d.io # 0,
            !.hit = @ \/ d.io = 0,
            !.error = IF d.io = 0 THEN "CARD" ELSE @,
            !.io = CASE d.io > 0 -> d.io - 1
                     [] d.io = 0 /\ ~d.dead -> Forever
                     [] OTHER -> d.io]

image_read(d) == Access(d)

\* The next call, if the last one went well.
Then(d, Op(_)) == IF d.ok THEN Op(d) ELSE d

image_write(d, image) == Then(Access(d), LAMBDA e : [e EXCEPT !.img = image])

Ok(d) == [d EXCEPT !.ok = TRUE]


set_error(d, e) == [d EXCEPT !.ok = FALSE, !.error = e]

\* ERROR_DISK_FULL, unless another error is set already.
DiskFull(d) == set_error(d, IF d.error = "OK" THEN "FULL" ELSE d.error)

InRange(at) == at[1] \in Tracks /\ at[2] \in Numbers(at[1])

\* The error bytes of the track are read first.  The cache is set to good
\* before that and keeps the number of the old track if the read fails.
ErrorInfo(d, at) ==
  IF ~fmt.errorinfo \/ d.cache.track = at[1] THEN Ok(d)
  ELSE Then(image_read([d EXCEPT !.cache.bad = {}]),
            LAMBDA e : [e EXCEPT !.cache =
              [track |-> at[1], bad |-> {x \in fmt.bad : x[1] = at[1]}]])

checked_read(d, at) ==
  LET Look(e)  == IF at \in e.cache.bad THEN set_error(e, "BAD") ELSE image_read(e)
      Trust(e) == [e EXCEPT !.trusted = @ \/ at \in fmt.bad]
  IN  IF InRange(at) THEN Then(Then(ErrorInfo(d, at), Look), Trust) ELSE set_error(d, "TS")

-----------------------------------------------------------------------------
(* The BAM buffers                                                         *)

\* The BAM sector that has the bits, or the counter, of a track.
BamSector(t, counter) ==
  CASE fmt.kind = "D41" -> <<fmt.dir, 0>>
    [] fmt.kind = "D71" -> IF t > fmt.half /\ ~counter THEN <<fmt.dir + fmt.half, 0>>
                                                       ELSE <<fmt.dir, 0>>
    [] fmt.kind = "D81" -> <<fmt.dir, IF t <= fmt.half THEN 1 ELSE 2>>
    [] fmt.kind = "DNP" -> <<1, 2 + t \div fmt.half>>

\* The contents of a BAM sector in the image.
Bam(image, at) ==
  [at   |-> at,
   free |-> [t \in {u \in Tracks : BamSector(u, FALSE) = at} |-> image.free[t]],
   cnt  |-> [t \in {u \in Tracks : BamSector(u, TRUE) = at} |-> image.cnt[t]],
   mustflush |-> FALSE]

WithBam(image, b) == [image EXCEPT !.free = b.free @@ @, !.cnt = b.cnt @@ @]

Invalid == [at |-> NULL, free |-> <<>>, cnt |-> <<>>, mustflush |-> FALSE]

\* mustflush is cleared even if the write fails.
bam_buffer_flush(d) ==
  LET Flushed(e) == [e EXCEPT !.b1.mustflush = FALSE, !.lost = @ \/ ~e.ok]
  IN  IF d.b1.mustflush /\ d.b1.at # NULL
        THEN Flushed(image_write(d, WithBam(d.img, d.b1))) ELSE Ok(d)

bam_buffer_swap(d) == [d EXCEPT !.b1 = d.b2, !.b2 = d.b1]

\* Mistake: the other buffer is never looked at again.
OtherBuffer_never_back(d) ==
  IF d.b2 = NULL /\ d.b1.at # NULL /\ fmt.spare THEN [d EXCEPT !.b2 = d.b1, !.b1 = Invalid] ELSE d

\* The buffer to use: the other one if it exists or can be had.
OtherBuffer(d) ==
  CASE d.b2 # NULL -> bam_buffer_swap(d)
    [] d.b2 = NULL /\ d.b1.at # NULL /\ fmt.spare -> [d EXCEPT !.b2 = d.b1, !.b1 = Invalid]
    [] OTHER -> d

\* b1 is written if it must be, and gets the sector.
ReadBam(d, at) ==
  IF d.b1.at = at THEN Ok(d)
  ELSE Then(Then(bam_buffer_flush(d), image_read), LAMBDA e : [e EXCEPT !.b1 = Bam(e.img, at)])

\* Afterwards b1 holds the sector, if ok.
move_bam_window(d, t, counter) ==
  LET at == BamSector(t, counter)
  IN  ReadBam(IF d.b1.at = at THEN d ELSE OtherBuffer(d), at)

\* n is TRUE if the sector is free; FALSE also when ok is.
is_free(d, at) ==
  LET Test(e) == [e EXCEPT !.n = e.ok /\ at[2] \in e.b1.free[at[1]]]
  IN  Test(move_bam_window(d, at[1], FALSE))

\* n is the number of free sectors of the track, 0 on errors.
sectors_free(d, t) ==
  LET Count(e) == [e EXCEPT !.n = CASE ~e.ok -> 0
                                    [] e.ok /\ DNP -> Cardinality(e.b1.free[t])
                                    [] OTHER -> e.b1.cnt[t]]
  IN  IF t \in Tracks THEN Count(move_bam_window(d, t, TRUE)) ELSE [d EXCEPT !.n = 0]

\* The counter of a track, after its bits; DNP images have none.
Recount(d, t, change, bound) ==
  LET Add(e) == CASE ~e.ok -> [e EXCEPT !.lost = TRUE]
                  [] e.ok /\ e.b1.cnt[t] = bound -> e
                  [] OTHER -> [e EXCEPT !.b1.cnt[t] = @ + change, !.b1.mustflush = TRUE]
  IN  IF DNP THEN Ok(d) ELSE Add(move_bam_window(d, t, TRUE))

allocate_sector(d, at) ==
  LET Take(e) == IF e.n THEN Recount([e EXCEPT !.b1.free[at[1]] = @ \ {at[2]},
                                               !.b1.mustflush = TRUE], at[1], -1, 0)
                        ELSE e
  IN  Take(is_free(d, at))

free_sector(d, at) ==
  LET Give(e) == IF e.ok /\ ~e.n THEN Recount([e EXCEPT !.b1.free[at[1]] = @ \cup {at[2]},
                                                        !.b1.mustflush = TRUE],
                                              at[1], 1, fmt.spt[at[1]])
                                 ELSE e
  IN  Give(is_free(d, at))

-----------------------------------------------------------------------------
(* The choice of a sector                                                  *)

\* The first free sector of a track from s on: the last loop of
\* get_first_sector.
RECURSIVE FirstFree(_, _)
FirstFree(d, at) ==
  LET Try(e) == IF e.n THEN [e EXCEPT !.at = at] ELSE FirstFree(e, <<at[1], at[2] + 1>>)
  IN  IF at[2] >= fmt.spt[at[1]] THEN DiskFull(d) ELSE Try(is_free(d, at))

\* The search on both sides of the directory; distance changes its sign.
RECURSIVE NearDirectory(_, _)
NearDirectory(d, distance) ==
  LET t == fmt.dir - distance
      Try(e) == IF e.n > 0 THEN FirstFree(e, <<t, 0>>)
                ELSE NearDirectory(e, IF distance > 0 THEN -distance ELSE 1 - distance)
  IN  IF distance >= fmt.last THEN DiskFull(d) ELSE Try(sectors_free(d, t))

\* The search of a DNP image: upwards and around, before the last track, back
\* to the start.  Without a free sector no error is set.
RECURSIVE UpFrom(_, _, _)
UpFrom(d, t, start) ==
  LET u == IF t + 1 \in {fmt.last, 256} THEN 1 ELSE t + 1
      Try(e) == CASE e.n > 0 -> [e EXCEPT !.ok = TRUE, !.at = <<t, 0>>]
                  [] e.n = 0 /\ u = start -> [e EXCEPT !.ok = FALSE]
                  [] OTHER -> UpFrom(e, u, start)
  IN  Try(sectors_free(d, t))

get_first_sector(d) ==
  IF DNP THEN Then(UpFrom(d, 2, 2), LAMBDA e : FirstFree(e, e.at)) ELSE NearDirectory(d, 1)

\* A DNP track: the next free sector, around; an error counts as a free one.
RECURSIVE Around(_, _)
Around(d, at) ==
  LET Try(e) == IF e.n \/ ~e.ok THEN [e EXCEPT !.ok = TRUE, !.at = at]
                ELSE Around(e, <<at[1], (at[2] + 1) % fmt.spt[at[1]]>>)
  IN  Try(is_free(d, at))

\* The next track with a free sector: away from the directory, then on the
\* other side of it, three times.
RECURSIVE NextTrack(_, _, _)
NextTrack(d, at, tries) ==
  LET up == at[1] + 1
      t  == CASE at[1] < fmt.dir -> at[1] - 1
              [] at[1] >= fmt.dir /\ fmt.kind = "D71" /\ up = fmt.dir + fmt.half -> up + 1
              [] OTHER -> up
      Try(e) == CASE e.n > 0 -> [e EXCEPT !.ok = TRUE, !.at = at]
                  [] e.n = 0 /\ t < 1 -> NextTrack(e, <<fmt.dir + 1, 0>>, tries + 1)
                  [] e.n = 0 /\ t > fmt.last -> NextTrack(e, <<fmt.dir - 1, 0>>, tries + 1)
                  [] OTHER -> NextTrack(e, <<t, at[2]>>, tries)
  IN  IF tries = 3 THEN DiskFull(d) ELSE Try(sectors_free(d, at[1]))

RECURSIVE FromInterleave(_, _, _)

\* Mistake: the sector at interleave distance is taken without a look.
FromInterleave_blind(d, at, tries) == [d EXCEPT !.ok = TRUE, !.at = at]

\* Up to 99 sectors are looked at.  When none is free, tries has wrapped to 255
\* and the sector looked at last is taken as if it were.
FromInterleave(d, at, tries) ==
  LET s == IF at[2] + 1 >= fmt.spt[at[1]] THEN 0 ELSE at[2] + 1
      Try(e) == CASE e.n /\ tries = 0 -> DiskFull(e)
                  [] e.n # (tries = 0) -> [e EXCEPT !.ok = TRUE, !.at = at]
                  [] OTHER -> FromInterleave(e, <<at[1], s>>, tries - 1)
  IN  Try(is_free(d, at))

AtDistance(at, distance) ==
  LET s == at[2] + distance
      r == s - fmt.spt[at[1]]
  IN  <<at[1], CASE r < 0 -> s [] r = 0 -> 0 [] OTHER -> r - 1>>

get_next_sector(d, at) ==
  LET inDir == at[1] = fmt.dir
      step  == IF inDir THEN fmt.dirstep ELSE fmt.filestep
      Search(c) == IF c.n = 0 THEN DiskFull(c)
                   ELSE Then(NextTrack(c, at, 0),
                             LAMBDA e : FromInterleave(e, AtDistance(e.at, step), 99))
  IN  IF DNP THEN Then(UpFrom(d, at[1], at[1]),
                       LAMBDA e : Around(e, IF e.at[1] = at[1] THEN at ELSE e.at))
             ELSE Search(IF inDir THEN sectors_free(d, fmt.dir) ELSE [d EXCEPT !.n = 1])
=============================================================================
