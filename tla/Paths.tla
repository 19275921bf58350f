------------------------------- MODULE Paths -------------------------------
(***************************************************************************)
(* Partitions, directories and mounted images: how a command's partition   *)
(* number, path and name pattern are resolved (parser.c), and the commands *)
(* CD, MD, RD, S, R and CP (doscmd.c), OPEN for writing (fileops.c) and    *)
(* the menu of the remote display (display.c) that act on the result.      *)
(*                                                                         *)
(* A name is a sequence of characters, "i" as the last one stands for the  *)
(* extension of an image file; upper and lower case are not told apart.    *)
(* Names and patterns are not longer than the 16 characters match_name     *)
(* looks at.  A directory lists its entries in the order of their numbers. *)
(* A volume of the card has its root as its number.  Data and sectors are  *)
(* in FatFs and DiskImage.                                                 *)
(***************************************************************************)
EXTENDS Integers, Sequences, FiniteSets, SequencesExt, FiniteSetsExt

CONSTANTS Parts,        \* FAT partitions
          W,            \* partition numbers are computed modulo W
          Card,         \* the files and directories at first
          Inputs,       \* partition, path and name of commands
          Pairs,        \* two of them, for S and R
          MaxOps        \* bound: commands

ASSUME PathsAssumption ==
  /\ {Parts, W} \subseteq Nat \ {0} /\ Parts < W /\ MaxOps \in Nat
  /\ \A p \in 1 .. Parts : p \in DOMAIN Card /\ Card[p].kind = "dir" /\ Card[p].up = 0

VARIABLES nodes,        \* entries of all directories
          partition,    \* fop, volume, current directory and image of each partition
          current_part, max_part,
          POSTMATCH,    \* flag of X*+
          error,        \* the last command reported one
          report,       \* what the last command did and was asked to do (history)
          flaws,        \* what the properties except (history)
          count

vars == <<nodes, partition, current_part, max_part, POSTMATCH, error, report, flaws, count>>

Ids == DOMAIN Card
Free == [kind |-> "free", name |-> <<>>, up |-> 0]
Nothing == [op |-> "none", got |-> {}, meant |-> {}]

\* In an image without subdirectories, in one with them, or on FAT
Fop(p) == partition[p].fop
Entries(d) == {n \in Ids : nodes[n].up = d /\ nodes[n].kind # "free" /\ d # 0}
IsDir(n) == nodes[n].kind = "dir"
Joker(s) == \E i \in DOMAIN s : s[i] \in {"*", "?"}

\* Extension
check_imageext(s) == s # <<>> /\ s[Len(s)] = "i"

-----------------------------------------------------------------------------
(* Names.                                                                  *)

Star(m) == {i \in DOMAIN m : m[i] = "*"}
StarAt(m, s) == IF Star(m) = {} THEN Len(m) + Len(s) + 1 ELSE Min(Star(m))

\* match_name: up to the first star from the front; what follows the star, with
\* X*+, from the back, but not if the name has ended before the star.
match_name(m, s, first) ==
  /\ \A i \in DOMAIN s : i < first => i \in DOMAIN m /\ m[i] \in {"?", s[i]}
  /\ IF Len(s) < first THEN Len(m) = Len(s) \/ first = Len(s) + 1
     ELSE POSTMATCH => \A k \in 0 .. Len(m) - first - 1 : m[Len(m) - k] = "?" \/ (k < Len(s) /\ m[Len(m) - k] = s[Len(s) - k])

\* next_match and first_match: the first entry, 0 if there is none
Matches(d, m) == {n \in Entries(d) : match_name(m, nodes[n].name, StarAt(m, nodes[n].name))}
First(S) == CHOOSE n \in {IF T = {} THEN 0 ELSE Min(T) : T \in {S}} : TRUE

-----------------------------------------------------------------------------
(* Paths.  An input has a partition number, a colon or not, steps (<<>> is *)
(* the root, from a double slash) and a name.                              *)

parse_partition(num) == IF num % W = 0 THEN current_part ELSE num % W

\* path_t: a partition and a directory in both file systems
At(p) == [ok |-> TRUE, error |-> "ok", part |-> p, fat |-> partition[p].fat, dxx |-> partition[p].dxx,
          hit |-> 0]
Here(path) == IF Fop(path.part) = "fat" THEN path.fat ELSE path.dxx
Moved(path, d) == IF Fop(path.part) = "fat" THEN [path EXCEPT !.fat = d] ELSE [path EXCEPT !.dxx = d]
Failed(path, e) == [path EXCEPT !.ok = FALSE, !.error = e]

\* The root of the file system; an image without subdirectories stays as it is.
RootOf(p) == IF Fop(p) = "fat" THEN partition[p].vol ELSE partition[p].image

\* One component of a path; hit is what was found there.
Component(path, step, n) ==
  IF step = <<>> THEN Moved(path, RootOf(path.part))
  ELSE IF n = 0 THEN Failed(path, "39")
  ELSE IF IsDir(n) THEN Moved(path, n) ELSE [Failed(path, "39") EXCEPT !.hit = n]

\* Mistake: every component is looked for in the directory the path starts from.
Walk_current(path, steps) ==
  LET reached[k \in 0 .. Len(steps)] ==
        IF k = 0 THEN path
        ELSE CHOOSE r \in {IF q.ok THEN Component(q, steps[k], First(Matches(Here(path), steps[k]))) ELSE [q EXCEPT !.hit = 0]
                            : q \in {reached[k - 1]}} : TRUE
  IN  reached[Len(steps)]

\* The directory at the end of a path
Walk(path, steps) ==
  LET reached[k \in 0 .. Len(steps)] ==
        IF k = 0 THEN path
        ELSE CHOOSE r \in {IF q.ok THEN Component(q, steps[k], First(Matches(Here(q), steps[k]))) ELSE [q EXCEPT !.hit = 0]
                            : q \in {reached[k - 1]}} : TRUE
  IN  reached[Len(steps)]

\* The name that is left; CD accepts an image file as the last component if the
\* text says so.
Rest(in, for_cd, r) ==
  IF r.ok THEN r @@ [name |-> IF in.steps # <<>> /\ ~in.colon THEN <<>> ELSE in.name]
  ELSE IF for_cd /\ ~in.colon /\ r.hit # 0 /\ check_imageext(in.steps[Len(in.steps)])
  THEN [r EXCEPT !.ok = TRUE, !.error = "ok"] @@ [name |-> in.steps[Len(in.steps)]]
  ELSE r @@ [name |-> <<>>]

parse_path(in, for_cd, p) ==
  IF ~for_cd /\ ~in.colon THEN At(current_part) @@ [name |-> in.name]
  ELSE IF p > max_part THEN [Failed(At(current_part), "74") EXCEPT !.part = 0] @@ [name |-> <<>>]
  ELSE Rest(in, for_cd, Walk(At(p), in.steps))

-----------------------------------------------------------------------------
(* Commands.  Steps common to them:                                        *)

\* What comes after a use of memory nothing was written to, or of clusters that are
\* not those of the directory they are taken for, is not followed.
Sound == flaws \cap {"file", "garbage", "wild", "foreign", "replaced"} = {}
Ready == count < MaxOps /\ Sound
Command(e) == error' = (e # "ok") /\ count' = count + 1
Set(p, path) == partition' = [partition EXCEPT ![p].fat = path.fat, ![p].dxx = path.dxx]
Reports(op, got, meant) == report' = [op |-> op, got |-> got, meant |-> meant]

\* chdir into entry n, 0 if there is none: a path, an error, or an image to mount.
\* An image without subdirectories reports none; one with them takes a file for a
\* directory.
Chdir(path, n) ==
  IF n = 0 THEN Failed(path, "62")
  ELSE IF Fop(path.part) = "d64" THEN Failed(path, "ok")
  ELSE IF Fop(path.part) = "dnp" \/ IsDir(n) THEN Moved(path, n)
  ELSE IF check_imageext(nodes[n].name) /\ nodes[n].kind \notin {"d64", "dnp"} THEN Failed(path, "image")
  ELSE path

Mounts(path, n) ==
  Fop(path.part) = "fat" /\ check_imageext(nodes[n].name) /\ nodes[n].kind \in {"d64", "dnp"}

\* Mistake: the root of FAT is its own parent.
chdir_up_root(path, d) ==
  IF Fop(path.part) = "fat" THEN IF d = 0 THEN Failed(path, "62") ELSE Moved(path, nodes[d].up)
  ELSE IF Fop(path.part) = "dnp" /\ d # partition[path.part].image THEN Moved(path, nodes[d].up) ELSE path

\* CD:_, the parent directory; leaving an image changes no path.
chdir_up(path, d) ==
  IF Fop(path.part) = "fat" THEN IF d \in {0, partition[path.part].vol} THEN Failed(path, "62") ELSE Moved(path, nodes[d].up)
  ELSE IF Fop(path.part) = "dnp" /\ d # partition[path.part].image THEN Moved(path, nodes[d].up) ELSE path

Leaves(path) == Fop(path.part) = "d64" \/ (Fop(path.part) = "dnp" /\ Here(path) = partition[path.part].image)

-----------------------------------------------------------------------------
(* What commands mean, said without the order of their steps.              *)

\* m matches s, with what follows a star at the end of s if X*+ is on.
Agree(p, q) == \A i \in DOMAIN p : p[i] \in {"?", q[i]}
Means(m, s, first) ==
  IF first > Len(m) THEN Len(s) = Len(m) /\ Agree(m, s)
  ELSE \E tail \in {IF POSTMATCH THEN SubSeq(m, first + 1, Len(m)) ELSE <<>>} :
         /\ Len(s) >= first - 1 + Len(tail)
         /\ Agree(SubSeq(m, 1, first - 1), s)
         /\ Agree(tail, SubSeq(s, Len(s) - Len(tail) + 1, Len(s)))

\* The directory k levels above d
Above[d \in Ids, k \in 0 .. 3] == IF k = 0 THEN d ELSE IF nodes[d].up = 0 THEN d ELSE Above[nodes[d].up, k - 1]

\* The entries that a path from directory d may mean, a root only at its beginning
MeantFrom(start, names) ==
  {n \in Ids : /\ nodes[n].kind # "free" /\ Above[n, Len(names)] = start
               /\ \A j \in DOMAIN names : \E x \in {Above[n, Len(names) - j]} :
                    x # start /\ (j < Len(names) => IsDir(x)) /\ Means(names[j], nodes[x].name, StarAt(names[j], nodes[x].name))}

Meant(p, d, steps) ==
  MeantFrom(IF steps # <<>> /\ steps[1] = <<>> THEN RootOf(p) ELSE d, SelectSeq(steps, LAMBDA x : x # <<>>))

\* A command's patterns have no text behind a star that is matched (X*+).
Plain(in) == POSTMATCH => \A m \in {in.name} \cup ToSet(in.steps) : Star(m) = {} \/ m[Len(m)] = "*"

\* Where CD is asked to go
Target(in) == IF in.steps # <<>> /\ ~in.colon THEN in.steps
              ELSE IF in.name \in {<<>>, <<"_">>} THEN in.steps ELSE Append(in.steps, in.name)

MeantBy(p, steps) == IF p > max_part THEN {} ELSE Meant(p, IF Fop(p) = "fat" THEN partition[p].fat ELSE partition[p].dxx, steps)

-----------------------------------------------------------------------------
(* CD: do_chdir, by what parse_path has left as the name.                  *)

CdFails(in, r) ==
  /\ ~r.ok
  /\ Command(r.error) /\ report' = Nothing
  /\ UNCHANGED <<nodes, partition, current_part, max_part, POSTMATCH, flaws>>

\* To the parent; out of an image, u's directory is the one it lies in.  The image
\* is left even if its file cannot be closed.
Up(r, u, meant) ==
  LET left == [partition EXCEPT ![r.part].fop = "fat", ![r.part].image = 0]
  IN  /\ \/ ~u.ok /\ UNCHANGED partition /\ Command(u.error) /\ report' = Nothing
         \/ u.ok /\ Leaves(r) /\ partition' = left /\ Command("28") /\ report' = Nothing
         \/ /\ u.ok /\ Leaves(r) /\ Command(u.error)
            /\ partition' = [left EXCEPT ![r.part].fat = u.fat, ![r.part].dxx = u.dxx]
            /\ Reports("CD", {u.fat}, {nodes[partition[r.part].image].up})
         \/ u.ok /\ ~Leaves(r) /\ Command(u.error) /\ Set(r.part, u) /\ Reports("CD", {Here(u)}, meant)
      /\ UNCHANGED <<nodes, current_part, max_part, POSTMATCH, flaws>>

CdUp(in, r) ==
  /\ r.ok /\ r.name = <<"_">>
  /\ Up(r, chdir_up(r, Here(r)),
        IF Plain(in) THEN {nodes[d].up : d \in MeantBy(r.part, in.steps)} ELSE Ids)


\* The end of do_chdir, for entry n of directory r
do_chdir(r, n, c) ==
  /\ Command(c.error)
  /\ IF ~c.ok THEN UNCHANGED partition
     ELSE IF Mounts(r, n)
     THEN partition' = [partition EXCEPT ![r.part] = [@ EXCEPT !.fop = nodes[n].kind, !.fat = r.fat, !.dxx = n, !.image = n]]
     ELSE Set(r.part, c)
  /\ flaws' = IF n # 0 /\ Fop(r.part) = "dnp" /\ ~IsDir(n) THEN flaws \cup {"file"} ELSE flaws
  /\ UNCHANGED <<nodes, current_part, max_part, POSTMATCH>>

\* A plain file of FAT is no error: CD stays in the directory of the file.
CdInto(in, r) ==
  /\ r.ok /\ r.name # <<>> /\ r.name[1] # "_"
  /\ \E n \in {First(Matches(Here(r), r.name))} : \E c \in {Chdir(r, n)} :
       /\ do_chdir(r, n, c)
       /\ IF ~c.ok \/ ~Plain(in) THEN report' = Nothing
          ELSE IF Mounts(r, n) THEN Reports("CD", {n}, MeantBy(r.part, Target(in)))
          ELSE Reports(IF Here(c) = n THEN "CD" ELSE "CD to file", {Here(c)}, MeantBy(r.part, Target(in)))

CdPath(in, r) ==
  /\ r.ok /\ r.name = <<>>
  /\ Command(IF in.steps = <<>> THEN "39" ELSE "ok")
  /\ IF in.steps = <<>> THEN UNCHANGED partition ELSE Set(r.part, r)
  /\ IF in.steps # <<>> /\ Plain(in) THEN Reports("CD", {Here(r)}, MeantBy(r.part, in.steps)) ELSE report' = Nothing
  /\ UNCHANGED <<nodes, current_part, max_part, POSTMATCH, flaws>>

\* A name that begins with the left arrow and goes on: chdir uses an entry that
\* nothing was written to.
CdGarbage(in, r) ==
  /\ r.ok /\ Len(r.name) > 1 /\ r.name[1] = "_"
  /\ report' = Nothing
  /\ \/ (\E e \in {"ok", "62"} : Command(e)) /\ UNCHANGED <<partition, flaws>>
     \/ Command("ok") /\ Fop(r.part) # "d64" /\ Set(r.part, Moved(r, 0)) /\ flaws' = flaws \cup {"garbage"}
  /\ UNCHANGED <<nodes, current_part, max_part, POSTMATCH>>

CD(in) ==
  \E r \in {parse_path(in, TRUE, parse_partition(in.num))} :
    CdFails(in, r) \/ CdUp(in, r) \/ CdInto(in, r) \/ CdPath(in, r) \/ CdGarbage(in, r)

\* The remote display: an entry of its menu, looked for in the directory that is
\* current when it is chosen; chdir's result is ignored.
display_service(m) ==
  /\ current_part <= max_part /\ report' = Nothing
  /\ \E r \in {At(current_part)} : \E n \in {First(Matches(Here(r), m))} : do_chdir(r, n, Chdir(r, n))

\* Its first entry, the parent
DisplayUp ==
  /\ current_part <= max_part
  /\ \E r \in {At(current_part)} : Up(r, chdir_up(r, Here(r)), Ids)

-----------------------------------------------------------------------------
(* MD, RD, S, R and OPEN for writing.                                      *)

\* A partition that was not found again after an error of the card can still be
\* the current one; every access to it fails.
Usable(in) == in.colon \/ current_part <= max_part

NotReady(in) ==
  /\ ~Usable(in) /\ Command("74") /\ report' = Nothing
  /\ UNCHANGED <<nodes, partition, current_part, max_part, POSTMATCH, flaws>>

Unused == {n \in Ids : nodes[n].kind = "free"}
Named(d, s) == {n \in Entries(d) : nodes[n].name = s}
Created(kind, s, d) == [nodes EXCEPT ![Min(Unused)] = [kind |-> kind, name |-> s, up |-> d]]

\* The contents of an image file go with it, those of a directory do not.
Deleted(S) ==
  LET within(n) == {m \in Ids : nodes[n].kind \in {"d64", "dnp"} /\ \E k \in 1 .. 3 : Above[m, k] = n}
  IN  [m \in Ids |-> IF \E n \in S : m \in {n} \cup within(n) THEN Free ELSE nodes[m]]

\* Only FAT looks for the name.
MkdirError(in, r) ==
  IF ~in.colon THEN "34"
  ELSE IF ~r.ok THEN r.error
  ELSE IF Fop(r.part) = "d64" THEN "31"
  ELSE IF Fop(r.part) = "fat" /\ (Joker(r.name) \/ r.name = <<>>) THEN "33"
  ELSE IF Fop(r.part) = "fat" /\ Named(r.fat, r.name) # {} THEN "63"
  ELSE IF Unused = {} THEN "72" ELSE "ok"

MD(in) ==
  \E r \in {parse_path(in, FALSE, parse_partition(in.num))} : \E e \in {MkdirError(in, r)} :
    /\ Command(e) /\ report' = Nothing
    /\ nodes' = IF e = "ok" THEN Created("dir", r.name, Here(r)) ELSE nodes
    /\ flaws' = IF e = "ok" /\ Named(Here(r), r.name) # {} THEN flaws \cup {"twice"} ELSE flaws
    /\ UNCHANGED <<partition, current_part, max_part, POSTMATCH>>

\* A partition that has lost its volume to another may be in the directory.
rmdir(n) ==
  \E e \in {IF n = 0 THEN "62" ELSE IF Entries(n) # {} THEN "63" ELSE "ok"} :
    /\ Command(e)
    /\ nodes' = IF e = "ok" THEN Deleted({n}) ELSE nodes
    /\ flaws' = IF e = "ok" /\ \E p \in max_part + 1 .. Parts : partition[p].fat = n THEN flaws \cup {"foreign"} ELSE flaws

\* RD, in the current directory of a partition whose number is not checked
RD(p, m) ==
  /\ report' = Nothing
  /\ IF p > max_part THEN Command("ok") /\ flaws' = flaws \cup {"wild"} /\ UNCHANGED nodes
     ELSE \E n \in {First({x \in Matches(Here(At(p)), m) : IsDir(x)})} : rmdir(n)
  /\ UNCHANGED <<partition, current_part, max_part, POSTMATCH>>

\* S: one name of the list.  The result of parse_path is ignored: after an error
\* the path is the part of it that was found, or the one before, and the name is
\* the one before; nothing is there before the first.
Scratch(acc, in, r) ==
  IF acc.wild \/ (~r.ok /\ ~acc.any) THEN [acc EXCEPT !.wild = TRUE]
  ELSE CHOOSE x \in {[any |-> TRUE, wild |-> FALSE, at |-> at, name |-> m, exact |-> acc.exact /\ r.ok /\ Plain(in),
                       gone |-> acc.gone \o SetToSortSeq({n \in Matches(Here(at), m) \ ToSet(acc.gone) : ~IsDir(n)}, <)]
                      : at \in {IF r.part # 0 THEN r ELSE acc.at}, m \in {IF r.ok THEN r.name ELSE acc.name}} : TRUE

\* S with the names of a list: the files in the order they are deleted in
Scratched(list) ==
  LET after[k \in 0 .. Len(list)] ==
        IF k = 0 THEN [any |-> FALSE, wild |-> FALSE, at |-> At(current_part), name |-> <<>>, exact |-> TRUE, gone |-> <<>>]
        ELSE Scratch(after[k - 1], list[k], parse_path(list[k], FALSE, parse_partition(list[k].num)))
  IN  after[Len(list)]

\* The files that a list means, and whether no path in it is a pattern
Files(list) ==
  {n \in UNION {MeantBy(parse_partition(in.num), Append(in.steps, in.name)) : in \in ToSet(list)} : ~IsDir(n)}
Definite(list) == \A in \in ToSet(list) : \A m \in ToSet(in.steps) : ~Joker(m)

\* The directories on the paths of a list, and the files in them with a name of
\* the list
Passed(in) == UNION {MeantBy(parse_partition(in.num), SubSeq(in.steps, 1, k)) : k \in 0 .. Len(in.steps)}
Spared(list, d) ==
  {n \in Entries(d) : \A in \in ToSet(list) : ~match_name(in.name, nodes[n].name, StarAt(in.name, nodes[n].name))}
Loosely(list) == UNION {Entries(d) \ Spared(list, d) : d \in UNION {Passed(in) : in \in ToSet(list)}}

\* A file that cannot be deleted ends the command.
S(list) ==
  /\ \A in \in ToSet(list) : Usable(in)
  /\ \E acc \in {Scratched(list)} : \E meant \in {IF acc.wild THEN {} ELSE IF acc.exact THEN Files(list) ELSE Loosely(list)},
     k \in 0 .. Len(acc.gone) : \E gone \in {ToSet(SubSeq(acc.gone, 1, k))} :
       /\ acc.wild => k = Len(acc.gone)
       /\ Command(IF k = Len(acc.gone) THEN "ok" ELSE "26")
       /\ nodes' = IF acc.wild THEN nodes ELSE Deleted(gone)
       /\ flaws' = IF acc.wild THEN flaws \cup {"wild"} ELSE flaws
       /\ IF acc.wild THEN report' = Nothing
          ELSE IF ~acc.exact THEN Reports("S astray", gone, meant)
          ELSE Reports("S", gone, meant \cup IF Definite(list) THEN {} ELSE gone)
  /\ UNCHANGED <<partition, current_part, max_part, POSTMATCH>>

\* R compares the directories of both names, not the partitions: the number of a
\* root is the same everywhere.
Cluster(d) == IF d \in 1 .. Parts THEN 0 ELSE d
Header(d) == IF d # 0 /\ nodes[d].kind \in {"d64", "dnp"} THEN nodes[d].kind ELSE ToString(d)
SamePlace(x, y) == Cluster(x.fat) = Cluster(y.fat) /\ Header(x.dxx) = Header(y.dxx)

\* x is the new name, y the old one; FAT looks for the new one again.
RenameError(x, y) ==
  IF ~x.ok THEN x.error
  ELSE IF ~y.ok THEN y.error
  ELSE IF ~SamePlace(x, y) THEN "62"
  ELSE IF Joker(x.name) THEN "30"
  ELSE IF x.name = <<>> THEN "34"
  ELSE IF Matches(Here(x), x.name) # {} THEN "63"
  ELSE IF Matches(Here(y), y.name) = {} THEN "62"
  ELSE IF Fop(y.part) = "fat" /\ Named(y.fat, x.name) # {} THEN "63" ELSE "ok"

\* FAT reports an error although it has renamed an entry in the last slot of its
\* directory.
R(new, old) ==
  /\ Usable(new) /\ Usable(old)
  /\ \E x \in {parse_path(new, FALSE, parse_partition(new.num))}, y \in {parse_path(old, FALSE, parse_partition(old.num))} :
     \E e \in {RenameError(x, y)} :
       IF e # "ok" THEN Command(e) /\ report' = Nothing /\ UNCHANGED <<nodes, flaws>>
       ELSE \E n \in {First(Matches(Here(y), y.name))} :
              /\ \/ Command("ok") /\ report' = Nothing
                 \/ Fop(y.part) = "fat" /\ Command("28") /\ Reports("R", {n}, Matches(Here(y), y.name))
              /\ nodes' = [nodes EXCEPT ![n].name = x.name]
              /\ flaws' = IF x.part # y.part THEN flaws \cup {"crossed"} ELSE flaws
  /\ UNCHANGED <<partition, current_part, max_part, POSTMATCH>>

\* OPEN for writing, with or without replacement.  What is replaced may be a
\* directory, the current one included; only FAT looks whether it is empty.
SaveError(r, n, replace) ==
  IF n # 0 THEN IF ~replace \/ (Fop(r.part) = "fat" /\ IsDir(n) /\ Entries(n) # {}) THEN "63" ELSE "ok"
  ELSE IF Fop(r.part) = "fat" /\ Joker(r.name) THEN "33"
  ELSE IF Unused = {} THEN "72" ELSE "ok"

Kind(r, s) == IF check_imageext(s) /\ Fop(r.part) = "fat" THEN "bad" ELSE "file"

\* Entry n is deleted if it exists; after that there may be no buffer left.
Write(r, n, buffer) ==
  /\ Command(IF buffer THEN "ok" ELSE "70")
  /\ nodes' = IF n = 0 THEN IF buffer THEN Created(Kind(r, r.name), r.name, Here(r)) ELSE nodes
              ELSE IF ~buffer THEN Deleted({n})
              ELSE [Deleted({n}) EXCEPT ![n] = [nodes[n] EXCEPT !.kind = Kind(r, nodes[n].name)]]
  /\ flaws' = IF n # 0 /\ IsDir(n) THEN flaws \cup {"replaced"} ELSE flaws
  /\ IF buffer THEN report' = Nothing ELSE Reports("save", {n} \ {0}, Matches(Here(r), r.name))

\* check_free_buffers may find none before anything is deleted.
Save(in, replace) ==
  /\ Usable(in) /\ in.name # <<>>
  /\ \E r \in {parse_path(in, FALSE, parse_partition(in.num))} :
       \/ ~r.ok /\ Command(r.error) /\ report' = Nothing /\ UNCHANGED <<nodes, flaws>>
       \/ r.ok /\ \E n \in {First(Matches(Here(r), r.name))} : \E e \in {SaveError(r, n, replace)} :
            \/ /\ \E x \in {e} \cup (IF replace /\ n # 0 THEN {"70"} ELSE {}) : x # "ok" /\ Command(x)
               /\ report' = Nothing /\ UNCHANGED <<nodes, flaws>>
            \/ e = "ok" /\ \E buffer \in BOOLEAN : Write(r, n, buffer)
  /\ UNCHANGED <<partition, current_part, max_part, POSTMATCH>>

-----------------------------------------------------------------------------
(* Partitions and the card.                                                *)

CP(num) ==
  LET p == parse_partition(num)
  IN  /\ Command(IF p > max_part THEN "77" ELSE "ok") /\ report' = Nothing
      /\ current_part' = IF p > max_part THEN current_part ELSE p
      /\ UNCHANGED <<nodes, partition, max_part, POSTMATCH, flaws>>

XStar(on) ==
  /\ Command("ok") /\ POSTMATCH' = on /\ report' = Nothing
  /\ UNCHANGED <<nodes, partition, current_part, max_part, flaws>>

\* filesystem_init(1), after an error of the card: the volumes in found are
\* mounted one after the other, images are forgotten, the directories are kept: a
\* partition with another volume than before has the number of a directory of the
\* old one, which only means something if it is the root.
CardError(found) ==
  LET m == Cardinality(found)
      Inherits(p) == p <= m /\ partition[p].fat # partition[p].vol /\ SetToSortSeq(found, <)[p] # partition[p].vol
      Next(p) == IF p > m \/ Inherits(p) THEN partition[p]
                 ELSE [partition[p] EXCEPT !.vol = SetToSortSeq(found, <)[p],
                                           !.fat = IF @ = partition[p].vol THEN SetToSortSeq(found, <)[p] ELSE @]
  IN  /\ Command("ok") /\ max_part' = m /\ report' = Nothing
      /\ partition' = [p \in 1 .. Parts |-> IF p > m + 1 THEN partition[p] ELSE [Next(p) EXCEPT !.fop = "fat", !.image = 0]]
      /\ flaws' = IF \E p \in 1 .. Parts : Inherits(p) THEN flaws \cup {"foreign"} ELSE flaws
      /\ UNCHANGED <<nodes, current_part, POSTMATCH>>

Roots == [p \in 1 .. Parts |-> [fop |-> "fat", vol |-> p, fat |-> p, dxx |-> 0, image |-> 0]]

\* filesystem_init(0), after the card was changed
CardChange ==
  /\ count < MaxOps /\ count' = count + 1 /\ error' = FALSE
  /\ nodes' = Card /\ max_part' = Parts /\ current_part' = 1
  /\ partition' = [p \in 1 .. Parts |-> [Roots[p] EXCEPT !.dxx = partition[p].dxx]]
  /\ report' = Nothing /\ flaws' = {} /\ UNCHANGED POSTMATCH

-----------------------------------------------------------------------------
Init ==
  /\ nodes = Card /\ partition = Roots /\ current_part = 1 /\ max_part = Parts
  /\ POSTMATCH \in BOOLEAN /\ error = FALSE /\ report = Nothing /\ flaws = {} /\ count = 0

Next ==
  \/ Ready /\ \E in \in Inputs : CD(in)
  \/ Ready /\ \E m \in {in.name : in \in Inputs} : display_service(m)
  \/ Ready /\ DisplayUp
  \/ Ready /\ \E in \in Inputs : NotReady(in)
  \/ Ready /\ \E in \in Inputs : MD(in)
  \/ Ready /\ \E x \in {<<in.num, in.name>> : in \in Inputs} : RD(parse_partition(x[1]), x[2])
  \/ Ready /\ \E list \in Pairs : S(list)
  \/ Ready /\ \E list \in {x \in Pairs : Len(x) = 2} : R(list[1], list[2])
  \/ Ready /\ \E in \in Inputs, replace \in BOOLEAN : Save(in, replace)
  \/ Ready /\ \E num \in {in.num : in \in Inputs} : CP(num)
  \/ Ready /\ \E on \in BOOLEAN : XStar(on)
  \/ Ready /\ \E found \in SUBSET (1 .. Parts) : CardError(found)
  \/ CardChange
  \/ count = MaxOps /\ UNCHANGED vars

Spec == Init /\ [][Next]_vars

-----------------------------------------------------------------------------
(* Properties.                                                             *)

\* The state's types; the current partition is one of the table (parse_changepart).
TypeOK ==
  /\ DOMAIN nodes = Ids /\ DOMAIN partition = 1 .. Parts
  /\ \A n \in Ids : nodes[n].kind \in {"free", "dir", "file", "d64", "dnp", "bad"} /\ nodes[n].up \in Ids \cup {0}
  /\ \A p \in 1 .. Parts : partition[p].fop \in {"fat", "d64", "dnp"} /\ partition[p].vol \in 1 .. Parts /\ {partition[p].fat, partition[p].dxx, partition[p].image} \subseteq Ids \cup {0}
  /\ current_part \in 1 .. Parts /\ max_part \in 0 .. Parts /\ {POSTMATCH, error} \subseteq BOOLEAN /\ count \in 0 .. MaxOps

\* Every partition's current directory exists and belongs to that partition, and
\* inside a mounted image it is a directory of that image, which lies in the
\* partition's FAT directory: whatever sequence of CD, RD, S, R, replacement, menu
\* choice and card errors came before (do_chdir, image_unmount, fatops_init).
\* Excepted: a directory replaced by a file, what CD takes for a directory, and a
\* volume that moved to the partition of one that was not mounted again: it has got
\* the number of a subdirectory of that one, or loses a directory that its old
\* partition still is in.
CwdExists ==
  flaws \cap {"replaced", "file", "garbage", "foreign"} = {} =>
    \A p \in 1 .. Parts :
      LET q == partition[p]
      IN  /\ q.fat # 0 /\ IsDir(q.fat) /\ Above[q.fat, 3] = q.vol
          /\ q.fop # "fat" => /\ nodes[q.image].kind = q.fop /\ nodes[q.image].up = q.fat
                              /\ \E k \in 0 .. 3 : Above[q.dxx, k] = q.image
                              /\ q.dxx # q.image => q.fop = "dnp" /\ IsDir(q.dxx)

\* No directory has two entries of one name, although R and OPEN look for a name
\* and create it in separate steps and FAT alone looks again (parse_rename,
\* file_open).  Excepted: MD in an image, and R between partitions.
NamesUnique ==
  flaws \cap {"twice", "crossed"} = {} =>
    \A n \in Ids : nodes[n].up # 0 => Named(nodes[n].up, nodes[n].name) = {n}

\* Every entry lies in a directory or an image that exists: RD and S free nothing
\* that is still reachable (parse_rmdir, parse_scratch).  Excepted: replacement of a
\* directory of an image.
NoOrphans ==
  flaws \cap {"replaced", "file"} = {} =>
    \A n \in Ids : (nodes[n].kind # "free" /\ n > Parts) =>
      nodes[n].up # 0 /\ nodes[nodes[n].up].kind \in {"dir", "d64", "dnp"}

\* CD goes only where the command says, component by component from the current
\* directory or the root of the partition it names (parse_path, do_chdir); a plain
\* file on FAT leads to the directory it lies in.
CdExact ==
  /\ report.op = "CD" => report.got \subseteq report.meant
  /\ report.op = "CD to file" => report.got \subseteq {nodes[n].up : n \in report.meant}

\* S deletes the files its patterns name and no other, and all of them if no part
\* of the path is a pattern and none of the files resists.  With a path that cannot
\* be resolved in the list, S still deletes only files with a name of the list in
\* directories on the paths of the list (parse_scratch, match_name).
ScratchExact ==
  /\ report.op = "S" => report.got \subseteq report.meant /\ (~error => report.got = report.meant)
  /\ report.op = "S astray" => report.got \subseteq report.meant


\* Directories, image mounts and current directories fit together after any
\* sequence of commands on two partitions.
TreeSound == TypeOK /\ CwdExists /\ NamesUnique /\ NoOrphans

\* CD reaches a directory that its path names, and S deletes the files that its
\* patterns name and no others.
CommandsExact == CdExact /\ ScratchExact
=============================================================================
