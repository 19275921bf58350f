--------------------------- MODULE EepromFsProofs ---------------------------
(***************************************************************************)
(* The file system in the EEPROM keeps its directory, its sector lists and *)
(* the bitmaps in RAM consistent, for every size of the EEPROM, any number *)
(* of operations and a power failure between any two writes.               *)
(***************************************************************************)
EXTENDS EepromFs, FiniteSetTheorems, WellFoundedInduction, NaturalsInduction, TLAPS

-----------------------------------------------------------------------------
(* Induction over the natural numbers, by the least counterexample, and    *)
(* the largest and smallest of a set.                                      *)

LEMMA Counting ==
  ASSUME NEW S, 0 \in S, \A k \in Nat : k \in S => k + 1 \in S
  PROVE  \A k \in Nat : k \in S
<1> DEFINE T == {k \in Nat : k \notin S}
<1> SUFFICES ASSUME T # {} PROVE FALSE
  OBVIOUS
<1>1. IsWellFoundedOn(OpToRel(<, Nat), Nat)
  BY NatLessThanWellFounded
<1>2. PICK m \in T : \A y \in T : ~(<<y, m>> \in OpToRel(<, Nat))
  BY <1>1, WFMin, Zenon
<1>3. m # 0 /\ m \in Nat
  OBVIOUS
<1>4. m - 1 \in Nat /\ m - 1 < m
  BY <1>3
<1>5. <<m - 1, m>> \in OpToRel(<, Nat)
  BY <1>3, <1>4, Zenon DEF OpToRel
<1>6. m - 1 \in S
  BY <1>2, <1>4, <1>5, Zenon
<1>7. (m - 1) + 1 = m
  BY <1>3
<1> QED
  BY <1>3, <1>4, <1>6, <1>7

\* The largest of a set of numbers up to n.
LEMMA Largest ==
  ASSUME NEW n \in Nat, NEW S \in SUBSET (0 .. n), S # {}
  PROVE  Max(S) \in S /\ \A y \in S : Max(S) >= y
<1> DEFINE P == {m \in Nat : \A T \in SUBSET (0 .. m) :
                   T # {} => \E x \in T : \A y \in T : x >= y}
<1>1. 0 \in P
  <2> SUFFICES ASSUME NEW T \in SUBSET (0 .. 0), T # {}
               PROVE  \E x \in T : \A y \in T : x >= y
    OBVIOUS
  <2>1. \A y \in T : y = 0
    OBVIOUS
  <2>2. PICK x \in T : TRUE
    OBVIOUS
  <2>3. \A y \in T : x >= y
    BY <2>1
  <2> QED BY <2>3
<1>2. ASSUME NEW m \in Nat, m \in P PROVE m + 1 \in P
  <2> SUFFICES ASSUME NEW T \in SUBSET (0 .. m + 1), T # {}
               PROVE  \E x \in T : \A y \in T : x >= y
    OBVIOUS
  <2>1. CASE m + 1 \in T
    BY <2>1
  <2>2. CASE m + 1 \notin T
    <3>1. T \in SUBSET (0 .. m)
      BY <2>2
    <3> QED BY <3>1, <1>2
  <2> QED BY <2>1, <2>2
<1>3. n \in P
  <2> HIDE DEF P
  <2> QED BY <1>1, <1>2, Counting
<1>4. \E x \in S : \A y \in S : x >= y
  BY <1>3
<1> QED
  BY <1>4, Zenon DEF Max

\* The smallest of a set of numbers.
LEMMA Smallest ==
  ASSUME NEW S \in SUBSET Nat, S # {}
  PROVE  Min(S) \in S /\ \A y \in S : Min(S) <= y
<1>1. IsWellFoundedOn(OpToRel(<, Nat), Nat)
  BY NatLessThanWellFounded
<1>2. PICK m \in S : \A y \in S : ~(<<y, m>> \in OpToRel(<, Nat))
  BY <1>1, WFMin, Zenon
<1>3. ASSUME NEW y \in S PROVE m <= y
  <2>1. CASE y < m
    <3>1. <<y, m>> \in OpToRel(<, Nat)
      BY <2>1, Zenon DEF OpToRel
    <3> QED BY <3>1, <1>2, Zenon
  <2> QED BY <2>1
<1>4. \E x \in S : \A y \in S : x <= y
  BY <1>3
<1> QED
  BY <1>4, Zenon DEF Min

-----------------------------------------------------------------------------
(* The directory D as a set of rows, with the entries E and the sectors S  *)
(* that the bitmaps call used.                                             *)

Row == {r \in [Cells -> Nat] :
          /\ r[NEXT] \in Entries \cup {FF}
          /\ r[FLAGS] \in {0, EEFS_FLAG_LISTENTRY, FF}
          /\ r[FLAGS] # FF =>
               \A c \in 1 .. curentry_max_sectors(r) : r[c] \in Sectors \cup {FF}
          /\ r[FLAGS] = 0 /\ r[NAME] \in Names => r[SIZE] \in 0 .. MaxSize}
Dirs == [Entries -> Row]

\* Cell c of row r holds a sector.
Holds(r, c) == c \in 1 .. curentry_max_sectors(r) /\ r[c] # FF

\* No sector is in two places of the rows A.
Apart(D, A) ==
  \A i, j \in A : \A c, b \in Cells :
    Holds(D[i], c) /\ Holds(D[j], b) /\ D[i][c] = D[j][b] => i = j /\ c = b

Alive(D) == {i \in Entries : D[i][FLAGS] # FF}

\* The rows that eepromfs_delete can come to: those of files, rows X, and
\* erased ones that a link still leads to.
Attached(D, E, X) ==
  {i \in E : D[i][FLAGS] # FF \/ i \in X \/ \E j \in E : D[j][NEXT] = i}

\* W is the entry of the file open for writing, which eepromfs_close goes
\* back to: no link leads there.
Linked(D, E, W) ==
  \A j \in E : D[j][NEXT] # FF =>
    D[j][NEXT] \in E /\ D[D[j][NEXT]][FLAGS] # 0 /\ D[j][NEXT] \notin W

Marked(D, A, S) == \A i \in A : \A c \in Cells : Holds(D[i], c) => D[i][c] \in S

Sound(D, E, S, X, W) ==
  /\ D \in Dirs /\ E \subseteq Entries /\ S \subseteq Sectors
  /\ X \subseteq E
  /\ W \subseteq E /\ \A i \in W : D[i][FLAGS] # EEFS_FLAG_LISTENTRY
  /\ Alive(D) \subseteq E
  /\ Linked(D, E, W)
  /\ Marked(D, Attached(D, E, X), S)
  /\ Apart(D, Attached(D, E, X))

\* The file n is shown by E as by D.
Shows(D, i, n) == D[i][FLAGS] = 0 /\ D[i][NAME] = n
Kept(D, E, n) ==
  \A i \in Entries : /\ Shows(E, i, n) <=> Shows(D, i, n)
                     /\ Shows(D, i, n) => E[i][SIZE] = D[i][SIZE]

\* A state that a power failure may leave when the operation began with D and
\* touches the files T.
Fair(D, T, e) ==
  /\ e \in Dirs
  /\ Apart(e, Alive(e))
  /\ \A n \in Names \ T : Kept(D, e, n)

-----------------------------------------------------------------------------
(* Sizes.                                                                  *)

LEMMA Consts ==
  /\ ENTRIES \in Nat /\ SECTOR_COUNT \in Nat /\ Links \in Nat /\ Links >= 1
  /\ NAME = Links + 1 /\ SIZE = Links + 2 /\ FLAGS = Links + 3 /\ NEXT = Links + 4
  /\ Cells = 1 .. Links + 4 /\ NAME \in Cells /\ SIZE \in Cells /\ FLAGS \in Cells /\ NEXT \in Cells
  /\ Entries \subseteq 0 .. 253 /\ Sectors \subseteq 0 .. 253
  /\ FF = 255 /\ FF \notin Entries /\ FF \notin Sectors /\ FF \notin Names
  /\ Torn = 0 /\ Torn \notin Names /\ Names \subseteq Nat
  /\ EEFS_FLAG_LISTENTRY = 2
  /\ MaxSize \in Nat /\ SECTORSIZE \in Nat /\ SECTORSIZE >= 2
BY EepromFsAssumption DEF NAME, SIZE, FLAGS, NEXT, Cells, Entries, Sectors, FF, Torn,
   EEFS_FLAG_LISTENTRY

\* The cells of a row.
LEMMA Fields ==
  /\ NAME \in Cells /\ SIZE \in Cells /\ FLAGS \in Cells /\ NEXT \in Cells
  /\ NAME # SIZE /\ NAME # FLAGS /\ NAME # NEXT /\ SIZE # FLAGS /\ SIZE # NEXT /\ FLAGS # NEXT
  /\ \A c \in 1 .. Links : c \in Cells /\ c \in 1 .. Links + 2 /\ c # NAME /\ c # SIZE
  /\ \A c \in 1 .. Links + 2 : c \in Cells /\ c # FLAGS /\ c # NEXT
BY Consts

LEMMA FFOutside == FF \notin Entries /\ FF \notin Sectors /\ FF \notin Names
BY Consts

LEMMA Width ==
  ASSUME NEW r, r[FLAGS] \in {0, EEFS_FLAG_LISTENTRY, FF}
  PROVE  curentry_max_sectors(r) = IF r[FLAGS] = 0 THEN Links ELSE Links + 2
BY Consts DEF curentry_max_sectors, curentry_is_listentry

LEMMA RowFacts ==
  ASSUME NEW D \in Dirs, NEW i \in Entries
  PROVE  /\ D[i] \in Row /\ D[i] \in [Cells -> Nat]
         /\ D[i][NEXT] \in Entries \cup {FF}
         /\ D[i][FLAGS] \in {0, 2, FF}
         /\ curentry_max_sectors(D[i]) = IF D[i][FLAGS] = 0 THEN Links ELSE Links + 2
BY Consts, Width DEF Dirs, Row

LEMMA WidthCells ==
  ASSUME NEW D \in Dirs, NEW i \in Entries
  PROVE  /\ curentry_max_sectors(D[i]) \in Nat
         /\ \A c \in 1 .. curentry_max_sectors(D[i]) : c \in Cells
<1>1. curentry_max_sectors(D[i]) = Links \/ curentry_max_sectors(D[i]) = Links + 2
  BY RowFacts
<1>2. Links \in Nat
  BY Consts
<1>3. (\A c \in 1 .. Links : c \in Cells) /\ \A c \in 1 .. Links + 2 : c \in Cells
  BY Fields
<1> QED BY <1>1, <1>2, <1>3

-----------------------------------------------------------------------------
(* Changes of the directory, one row at a time.                            *)

\* Rows B of e hold what rows A of D held, in T, apart from sector s at one
\* place.
Moves(D, A, e, B, T, p, q, s) ==
  \A j \in B, b \in Cells : Holds(e[j], b) =>
    \/ j = p /\ b = q /\ e[j][b] = s /\ s \in T
    \/ j \in A /\ Holds(D[j], b) /\ e[j][b] = D[j][b] /\ D[j][b] \in T

LEMMA Places ==
  ASSUME NEW D, NEW e, NEW A, NEW B, NEW S, NEW T, NEW p, NEW q, NEW s,
         Marked(D, A, S), Apart(D, A), s \notin S, Moves(D, A, e, B, T, p, q, s)
  PROVE  Marked(e, B, T) /\ Apart(e, B)
<1>1. Marked(e, B, T)
  BY DEF Marked, Moves
<1>2. Apart(e, B)
  <2> SUFFICES ASSUME NEW x \in B, NEW y \in B, NEW a \in Cells, NEW b \in Cells,
                      Holds(e[x], a), Holds(e[y], b), e[x][a] = e[y][b]
               PROVE  x = y /\ a = b
    BY DEF Apart
  <2>1. /\ x \in A /\ Holds(D[x], a) => D[x][a] \in S
        /\ y \in A /\ Holds(D[y], b) => D[y][b] \in S
    BY DEF Marked
  <2>2. x \in A /\ y \in A /\ Holds(D[x], a) /\ Holds(D[y], b) /\ D[x][a] = D[y][b]
          => x = y /\ a = b
    BY DEF Apart
  <2> QED BY <2>1, <2>2 DEF Moves
<1> QED BY <1>1, <1>2

\* A sector is noted in a free or used cell.
LEMMA NoteSector ==
  ASSUME NEW D, NEW E, NEW S, NEW W, Sound(D, E, S, {}, W),
         NEW i \in E, NEW c \in 1 .. curentry_max_sectors(D[i]), NEW s \in Sectors \ S
  PROVE  LET e == [D EXCEPT ![i] = [D[i] EXCEPT ![c] = s]]
         IN  /\ Sound(e, E, S \cup {s}, {}, W)
             /\ e[i] = [D[i] EXCEPT ![c] = s]
             /\ \A n \in Names : Kept(D, e, n)
<1> DEFINE e == [D EXCEPT ![i] = [D[i] EXCEPT ![c] = s]]
<1>1. D \in Dirs /\ i \in Entries /\ E \subseteq Entries /\ S \subseteq Sectors
  BY DEF Sound
<1>0. /\ D[i] \in Row /\ D[i] \in [Cells -> Nat]
      /\ D[i][FLAGS] \in {0, 2, FF}
      /\ curentry_max_sectors(D[i]) = IF D[i][FLAGS] = 0 THEN Links ELSE Links + 2
  BY <1>1, RowFacts
<1>2. /\ c \in Cells /\ c # NEXT /\ c # FLAGS /\ s \in Nat
      /\ D[i][FLAGS] = 0 => c # NAME /\ c # SIZE
  BY <1>0, Fields, Consts
<1>3. /\ e[i] \in [Cells -> Nat] /\ e[i][c] = s
      /\ \A b \in Cells : b # c => e[i][b] = D[i][b]
      /\ \A j \in Entries : j # i => e[j] = D[j]
  BY <1>1, <1>2, RowFacts DEF Dirs
<1>4. /\ e[i][FLAGS] = D[i][FLAGS] /\ e[i][NEXT] = D[i][NEXT]
      /\ curentry_max_sectors(e[i]) = curentry_max_sectors(D[i])
  BY <1>0, <1>2, <1>3, Width, Fields DEF EEFS_FLAG_LISTENTRY
<1>5. e[i] \in Row
  <2>1. D[i] \in Row
    BY <1>1, RowFacts
  <2>2. e[i][FLAGS] # FF =>
          \A b \in 1 .. curentry_max_sectors(e[i]) : e[i][b] \in Sectors \cup {FF}
    BY <1>0, <1>2, <1>3, <1>4, Fields DEF Row
  <2>3. e[i][FLAGS] = 0 /\ e[i][NAME] \in Names => e[i][SIZE] \in 0 .. MaxSize
    BY <1>2, <1>3, <1>4, <2>1, Fields DEF Row
  <2> QED BY <1>3, <1>4, <2>1, <2>2, <2>3 DEF Row
<1>6. e \in Dirs
  BY <1>1, <1>5 DEF Dirs
<1>7. /\ \A j \in Entries : e[j][FLAGS] = D[j][FLAGS] /\ e[j][NEXT] = D[j][NEXT]
      /\ Alive(e) = Alive(D) /\ Attached(e, E, {}) = Attached(D, E, {})
      /\ \A j \in Entries, b \in Cells :
           Holds(e[j], b) => \/ j = i /\ b = c /\ e[j][b] = s
                             \/ ~(j = i /\ b = c) /\ Holds(D[j], b) /\ e[j][b] = D[j][b]
  <2>1. \A j \in Entries : e[j][FLAGS] = D[j][FLAGS] /\ e[j][NEXT] = D[j][NEXT]
    BY <1>3, <1>4
  <2>2. \A j \in Entries, b \in Cells :
          Holds(e[j], b) => \/ j = i /\ b = c /\ e[j][b] = s
                            \/ ~(j = i /\ b = c) /\ Holds(D[j], b) /\ e[j][b] = D[j][b]
    BY <1>3, <1>4 DEF Holds
  <2>3. Alive(e) = Alive(D) /\ Attached(e, E, {}) = Attached(D, E, {})
    BY <1>1, <2>1 DEF Alive, Attached
  <2> QED BY <2>1, <2>2, <2>3
<1> HIDE DEF e
<1>8. Linked(e, E, W)
  BY <1>1, <1>7 DEF Linked, Sound
<1>9. Marked(D, Attached(D, E, {}), S) /\ Apart(D, Attached(D, E, {}))
  BY DEF Sound
<1>10. Marked(e, Attached(e, E, {}), S \cup {s}) /\ Apart(e, Attached(e, E, {}))
  <2>1. Moves(D, Attached(D, E, {}), e, Attached(e, E, {}), S \cup {s}, i, c, s)
    BY <1>1, <1>7, <1>9 DEF Attached, Marked, Moves
  <2> QED BY <1>9, <2>1, Places
<1>11. Sound(e, E, S \cup {s}, {}, W)
  BY <1>1, <1>6, <1>7, <1>8, <1>10 DEF Sound
<1>12. \A n \in Names : Kept(D, e, n)
  BY <1>2, <1>3, <1>4, Fields DEF Kept, Shows
<1> QED BY <1>1, <1>11, <1>12 DEF e, Dirs

\* A row that is read of a sound directory.
LEMMA SoundFacts ==
  ASSUME NEW D, NEW E, NEW S, NEW X, NEW W, Sound(D, E, S, X, W)
  PROVE  /\ D \in Dirs /\ E \subseteq Entries /\ S \subseteq Sectors /\ X \subseteq E
         /\ W \subseteq E
         /\ Alive(D) \subseteq Attached(D, E, X)
         /\ Marked(D, Attached(D, E, X), S) /\ Apart(D, Attached(D, E, X))
         /\ Marked(D, Alive(D), S) /\ Apart(D, Alive(D))
         /\ FF \notin S
<1>1. Alive(D) \subseteq Attached(D, E, X)
  BY DEF Sound, Alive, Attached
<1>2. Marked(D, Attached(D, E, X), S) /\ Apart(D, Attached(D, E, X))
  BY DEF Sound
<1>3. Marked(D, Alive(D), S)
  BY <1>1, <1>2 DEF Marked
<1>4. Apart(D, Alive(D))
  BY <1>1, <1>2 DEF Apart
<1> QED BY <1>1, <1>2, <1>3, <1>4, Consts DEF Sound

\* Fewer rows are looked at.
LEMMA SoundLess ==
  ASSUME NEW D, NEW E, NEW S, NEW X, NEW W, Sound(D, E, S, X, W)
  PROVE  /\ Sound(D, E, S, {}, W) /\ Sound(D, E, S, {}, {})
         /\ Sound(D, E, S, X, {})
<1>1. Attached(D, E, {}) \subseteq Attached(D, E, X)
  BY DEF Attached
<1>2. Marked(D, Attached(D, E, {}), S)
  BY <1>1 DEF Sound, Marked
<1>3. Apart(D, Attached(D, E, {}))
  BY <1>1 DEF Sound, Apart
<1>4. Linked(D, E, {})
  BY DEF Sound, Linked
<1> QED BY <1>2, <1>3, <1>4 DEF Sound

\* The cells of a row that is blank but for name, size, flags and one sector.
LEMMA BlankRow ==
  ASSUME NEW r \in [Cells -> Nat], NEW s \in Sectors \cup {FF},
         r[1] = s, \A c \in 2 .. Links : r[c] = FF, r[NEXT] \in Entries \cup {FF},
         \/ r[FLAGS] = 2 /\ r[NAME] = FF /\ r[SIZE] = FF
         \/ r[FLAGS] = 0 /\ r[SIZE] = 0
         \/ r[FLAGS] = FF
  PROVE  /\ r \in Row
         /\ r[FLAGS] # FF => \A c \in Cells : Holds(r, c) => c = 1 /\ r[c] = s
<1>1. r[FLAGS] \in {0, EEFS_FLAG_LISTENTRY, FF}
  BY DEF EEFS_FLAG_LISTENTRY
<1>2. curentry_max_sectors(r) = IF r[FLAGS] = 0 THEN Links ELSE Links + 2
  BY <1>1, Width
<1>3. r[FLAGS] # FF =>
        \A c \in 1 .. curentry_max_sectors(r) : r[c] = FF \/ (c = 1 /\ r[c] = s)
  <2> SUFFICES ASSUME r[FLAGS] # FF, NEW c \in 1 .. curentry_max_sectors(r), c # 1
               PROVE  r[c] = FF
    BY <1>1
  <2>1. c \in 2 .. Links \/ (r[FLAGS] = 2 /\ (c = NAME \/ c = SIZE))
    BY <1>1, <1>2, Consts
  <2> QED BY <2>1
<1>4. r[FLAGS] = 0 /\ r[NAME] \in Names => r[SIZE] \in 0 .. MaxSize
  BY Consts DEF FF
<1>5. r[FLAGS] # FF => \A c \in 1 .. curentry_max_sectors(r) : r[c] \in Sectors \cup {FF}
  BY <1>3
<1> QED BY <1>1, <1>3, <1>4, <1>5 DEF Row, Holds

\* An entry is linked to another, l, which holds one sector.
LinksTo(D, f, e, E, S, W, l, s) ==
  /\ f \in Dirs /\ Marked(f, Alive(f), S) /\ Apart(f, Alive(f))
  /\ f[l] = D[l] /\ D[l][FLAGS] = FF
  /\ Sound(e, E \cup {l}, S \cup {s}, {}, W)
  /\ \A n \in Names : Kept(D, f, n) /\ Kept(D, e, n)

LEMMA LinkEntry ==
  ASSUME NEW D, NEW E, NEW S, NEW W, Sound(D, E, S, {}, W),
         NEW i \in E, NEW l \in Entries \ E, NEW s \in Sectors \ S,
         NEW r \in [Cells -> Nat],
         r[1] = s, \A c \in 2 .. Links : r[c] = FF, r[NEXT] = FF,
         r[FLAGS] = 2, r[NAME] = FF, r[SIZE] = FF
  PROVE  LinksTo(D, [D EXCEPT ![i] = [D[i] EXCEPT ![NEXT] = l]],
                 [[D EXCEPT ![i] = [D[i] EXCEPT ![NEXT] = l]] EXCEPT ![l] = r], E, S, W, l, s)
<1> DEFINE f == [D EXCEPT ![i] = [D[i] EXCEPT ![NEXT] = l]]
           e == [f EXCEPT ![l] = r]
           A == Attached(D, E, {})
           B == Attached(e, E \cup {l}, {})
<1>1. /\ D \in Dirs /\ i \in Entries /\ l \in Entries /\ i # l
      /\ E \subseteq Entries /\ S \subseteq Sectors
  BY DEF Sound
<1>2. /\ D[i] \in Row /\ D[i] \in [Cells -> Nat] /\ D[l] \in Row
      /\ D[i][FLAGS] \in {0, 2, FF}
  BY <1>1, RowFacts
<1>3. D[l][FLAGS] = FF
  BY <1>1 DEF Sound, Alive
<1>4. /\ f[i] \in [Cells -> Nat] /\ f[i][NEXT] = l
      /\ \A b \in Cells : b # NEXT => f[i][b] = D[i][b]
      /\ \A j \in Entries : j # i => f[j] = D[j]
      /\ e[l] = r /\ \A j \in Entries : j # l => e[j] = f[j]
  <2>1. /\ f[i] = [D[i] EXCEPT ![NEXT] = l] /\ \A j \in Entries : j # i => f[j] = D[j]
        /\ DOMAIN f = Entries
    BY <1>1 DEF Dirs
  <2>2. e[l] = r /\ \A j \in Entries : j # l => e[j] = f[j]
    BY <1>1, <2>1
  <2>3. l \in Nat
    BY <1>1, Consts
  <2> HIDE DEF f, e
  <2> QED BY <1>2, <2>1, <2>2, <2>3, Fields
<1>5. /\ curentry_max_sectors(f[i]) = curentry_max_sectors(D[i])
      /\ f[i][FLAGS] = D[i][FLAGS]
  BY <1>2, <1>4, Width, Fields DEF EEFS_FLAG_LISTENTRY
<1>6. f[i] \in Row
  <2>1. \A c \in 1 .. curentry_max_sectors(D[i]) : c \in Cells /\ c # NEXT
    BY <1>1, RowFacts, Fields
  <2> QED BY <1>1, <1>2, <1>4, <1>5, <2>1, Fields DEF Row
<1>7. r \in Row /\ \A c \in Cells : Holds(r, c) => c = 1 /\ r[c] = s
  BY BlankRow, Consts
<1>8. f \in Dirs /\ e \in Dirs
  BY <1>1, <1>6, <1>7 DEF Dirs
<1>9. \A j \in Entries, b \in Cells : Holds(f[j], b) => Holds(D[j], b) /\ f[j][b] = D[j][b]
  <2>1. \A b \in Cells : Holds(f[i], b) => b # NEXT
    BY <1>1, <1>5, RowFacts, Fields DEF Holds
  <2> QED BY <1>4, <1>5, <2>1 DEF Holds
<1> HIDE DEF f, e
<1>10. \A j \in Entries : f[j][FLAGS] = D[j][FLAGS] /\ (j # i => f[j][NEXT] = D[j][NEXT])
  BY <1>4, <1>5
<1>11. Marked(f, Alive(f), S) /\ Apart(f, Alive(f))
  <2>1. Marked(D, Alive(D), S) /\ Apart(D, Alive(D)) /\ FF \notin S
    BY SoundFacts
  <2>2. Moves(D, Alive(D), f, Alive(f), S, i, 1, FF)
    BY <1>9, <1>10, <2>1 DEF Moves, Alive, Marked
  <2> QED BY <2>1, <2>2, Places
<1>12. B \subseteq A \cup {l}
  <2> SUFFICES ASSUME NEW j \in B, j # l PROVE j \in A
    OBVIOUS
  <2>1. j \in E /\ j \in Entries /\ e[j][FLAGS] = D[j][FLAGS]
    BY <1>1, <1>4, <1>10 DEF Attached
  <2>2. ASSUME NEW k \in E \cup {l}, e[k][NEXT] = j PROVE k \in E /\ D[k][NEXT] = j
    BY <2>1, <2>2, <1>1, <1>4, <1>10, FFOutside
  <2> QED BY <2>1, <2>2 DEF Attached
<1>13. Marked(e, B, S \cup {s}) /\ Apart(e, B)
  <2>1. Marked(D, A, S) /\ Apart(D, A)
    BY DEF Sound
  <2>2. B \subseteq Entries
    BY <1>1 DEF Attached
  <2>3. Moves(D, A, e, B, S \cup {s}, l, 1, s)
    <3> SUFFICES ASSUME NEW j \in B, NEW b \in Cells, Holds(e[j], b)
                 PROVE  \/ j = l /\ b = 1 /\ e[j][b] = s /\ s \in S \cup {s}
                        \/ /\ j \in A /\ Holds(D[j], b) /\ e[j][b] = D[j][b]
                           /\ D[j][b] \in S \cup {s}
      BY DEF Moves
    <3> HIDE DEF A, B
    <3>1. CASE j = l
      BY <3>1, <1>4, <1>7
    <3>2. CASE j # l
      BY <3>2, <1>4, <1>9, <1>12, <2>1, <2>2 DEF Marked
    <3> QED BY <3>1, <3>2
  <2> QED BY <2>1, <2>3, Places
<1>14. Linked(e, E \cup {l}, W)
  <2> SUFFICES ASSUME NEW j \in E \cup {l}, e[j][NEXT] # FF
               PROVE  /\ e[j][NEXT] \in E \cup {l} /\ e[e[j][NEXT]][FLAGS] # 0
                      /\ e[j][NEXT] \notin W
    BY DEF Linked
  <2>1. W \subseteq E /\ l \notin W
    BY DEF Sound
  <2>2. CASE j = l
    BY <2>2, <1>4
  <2>3. CASE j = i
    BY <2>3, <2>1, <1>1, <1>4
  <2>4. CASE j # i /\ j # l
    <3>1. e[j][NEXT] = D[j][NEXT] /\ j \in E
      BY <2>4, <1>1, <1>4
    <3>2. D[j][NEXT] \in E /\ D[D[j][NEXT]][FLAGS] # 0 /\ D[j][NEXT] \notin W
      BY <3>1 DEF Sound, Linked
    <3> QED BY <3>1, <3>2, <1>1, <1>4, <1>10
  <2> QED BY <2>2, <2>3, <2>4
<1>15. Alive(e) \subseteq E \cup {l}
  BY <1>1, <1>4, <1>10 DEF Sound, Alive
<1>16. Sound(e, E \cup {l}, S \cup {s}, {}, W)
  <2>1. \A k \in W : k \in Entries /\ k # l /\ e[k][FLAGS] = D[k][FLAGS]
    BY <1>1, <1>4, <1>10 DEF Sound
  <2> QED BY <1>1, <1>8, <1>13, <1>14, <1>15, <2>1 DEF Sound
<1>17. \A n \in Names : Kept(D, f, n) /\ Kept(D, e, n)
  BY <1>1, <1>3, <1>4, <1>5, Fields DEF Kept, Shows, FF
<1> QED
  <2>1. LinksTo(D, f, e, E, S, W, l, s)
    BY <1>3, <1>4, <1>8, <1>11, <1>16, <1>17, <1>1 DEF LinksTo
  <2> QED BY <2>1 DEF f, e

\* A cell that holds no sector of an attached row is written: name or size of
\* a name entry, or the size of an erased entry that no link leads to.
LEMMA SetCell ==
  ASSUME NEW D, NEW E, NEW S, NEW W, Sound(D, E, S, {}, W),
         NEW i \in E, NEW c \in {NAME, SIZE}, NEW v \in Nat,
         D[i][FLAGS] = 0 \/ (D[i][FLAGS] = FF /\ i \in W),
         D[i][FLAGS] = 0 /\ c = SIZE => v \in 0 .. MaxSize,
         D[i][FLAGS] = 0 /\ c = NAME => D[i][NAME] \in Names
  PROVE  LET e == [D EXCEPT ![i] = [D[i] EXCEPT ![c] = v]]
         IN  /\ Sound(e, E, S, {}, W)
             /\ \A n \in Names : /\ D[i][FLAGS] = 0 => n # D[i][NAME]
                                 /\ D[i][FLAGS] = 0 /\ c = NAME => n # v
                  => Kept(D, e, n)
<1> DEFINE e == [D EXCEPT ![i] = [D[i] EXCEPT ![c] = v]]
           A == Attached(D, E, {})
<1>1. D \in Dirs /\ i \in Entries /\ E \subseteq Entries /\ S \subseteq Sectors
  BY DEF Sound
<1>2. /\ D[i] \in Row /\ D[i] \in [Cells -> Nat] /\ D[i][FLAGS] \in {0, 2, FF}
      /\ curentry_max_sectors(D[i]) = IF D[i][FLAGS] = 0 THEN Links ELSE Links + 2
  BY <1>1, RowFacts
<1>3. c \in Cells /\ c # FLAGS /\ c # NEXT /\ c \notin 1 .. Links /\ NAME # SIZE
  BY Fields
<1>4. /\ e[i] \in [Cells -> Nat] /\ e[i][c] = v /\ \A b \in Cells : b # c => e[i][b] = D[i][b]
      /\ \A j \in Entries : j # i => e[j] = D[j]
  BY <1>1, <1>2, <1>3 DEF Dirs
<1>5. /\ e[i][FLAGS] = D[i][FLAGS] /\ e[i][NEXT] = D[i][NEXT]
      /\ curentry_max_sectors(e[i]) = curentry_max_sectors(D[i])
  BY <1>2, <1>3, <1>4, Width, Fields DEF EEFS_FLAG_LISTENTRY
<1>6. e[i] \in Row
  <2>1. e[i][FLAGS] # FF =>
          \A b \in 1 .. curentry_max_sectors(e[i]) : e[i][b] \in Sectors \cup {FF}
    BY <1>2, <1>3, <1>4, <1>5, Fields DEF Row
  <2>2. e[i][FLAGS] = 0 /\ e[i][NAME] \in Names => e[i][SIZE] \in 0 .. MaxSize
    BY <1>2, <1>3, <1>4, <1>5, Fields DEF Row
  <2> QED BY <1>2, <1>4, <1>5, <2>1, <2>2 DEF Row
<1>7. e \in Dirs
  BY <1>1, <1>6 DEF Dirs
<1> HIDE DEF e
<1>8. \A j \in Entries : e[j][FLAGS] = D[j][FLAGS] /\ e[j][NEXT] = D[j][NEXT]
  BY <1>4, <1>5
<1>9. Alive(e) = Alive(D) /\ Attached(e, E, {}) = A
  BY <1>1, <1>8 DEF Alive, Attached
<1>10. D[i][FLAGS] = FF => i \notin A
  BY <1>1, FFOutside DEF Sound, Attached, Linked
<1>11. Moves(D, A, e, A, S, i, c, FF)
  <2> SUFFICES ASSUME NEW j \in A, NEW b \in Cells, Holds(e[j], b)
               PROVE  Holds(D[j], b) /\ e[j][b] = D[j][b] /\ D[j][b] \in S
    BY DEF Moves
  <2>1. j \in Entries
    BY <1>1 DEF Attached
  <2>2. Holds(D[j], b) /\ e[j][b] = D[j][b]
    BY <1>2, <1>3, <1>4, <1>5, <1>10, <2>1 DEF Holds
  <2> QED BY <2>2 DEF Sound, Marked
<1>12. Marked(e, A, S) /\ Apart(e, A)
  BY <1>11, Places, SoundFacts
<1>13. Linked(e, E, W)
  BY <1>1, <1>8 DEF Sound, Linked
<1>14. Sound(e, E, S, {}, W)
  BY <1>1, <1>7, <1>8, <1>9, <1>12, <1>13 DEF Sound
<1>15. \A n \in Names : /\ D[i][FLAGS] = 0 => n # D[i][NAME]
                        /\ D[i][FLAGS] = 0 /\ c = NAME => n # v
         => Kept(D, e, n)
  BY <1>3, <1>4, <1>5, Fields DEF Kept, Shows, FF
<1> QED BY <1>14, <1>15 DEF e

\* A new name entry.
LEMMA AddName ==
  ASSUME NEW D, NEW E, NEW S, Sound(D, E, S, {}, {}),
         NEW i \in Entries \ E, NEW r \in [Cells -> Nat],
         \A c \in 1 .. Links : r[c] = FF, r[FLAGS] = 0, r[SIZE] = 0, r[NEXT] = FF
  PROVE  LET e == [D EXCEPT ![i] = r]
         IN  /\ D[i][FLAGS] = FF
             /\ Sound(e, E \cup {i}, S, {}, {i})
             /\ \A n \in Names : n # r[NAME] => Kept(D, e, n)
<1> DEFINE e == [D EXCEPT ![i] = r]
           A == Attached(D, E, {})
           B == Attached(e, E \cup {i}, {})
<1>1. D \in Dirs /\ i \in Entries /\ E \subseteq Entries /\ S \subseteq Sectors
  BY DEF Sound
<1>2. D[i][FLAGS] = FF
  BY <1>1 DEF Sound, Alive
<1>3. r \in Row /\ \A c \in Cells : ~Holds(r, c)
  <2>1. 1 \in 1 .. Links
    BY Consts
  <2>2. r \in Row /\ \A c \in Cells : Holds(r, c) => c = 1 /\ r[c] = FF
    BY <2>1, BlankRow, Consts DEF FF
  <2> QED BY <2>2 DEF Holds
<1>4. e[i] = r /\ \A j \in Entries : j # i => e[j] = D[j]
  BY <1>1 DEF Dirs
<1>5. e \in Dirs
  BY <1>1, <1>3 DEF Dirs
<1> HIDE DEF e
<1>6. Linked(e, E \cup {i}, {i})
  BY <1>1, <1>4 DEF Sound, Linked
<1>7. B \subseteq A \cup {i}
  <2> SUFFICES ASSUME NEW j \in B, j # i PROVE j \in A
    OBVIOUS
  <2>1. j \in E /\ j \in Entries /\ e[j] = D[j]
    BY <1>1, <1>4 DEF Attached
  <2>2. ASSUME NEW k \in E \cup {i}, e[k][NEXT] = j PROVE k \in E /\ D[k][NEXT] = j
    BY <2>1, <2>2, <1>1, <1>4, FFOutside
  <2> QED BY <2>1, <2>2 DEF Attached
<1>8. Marked(D, A, S) /\ Apart(D, A) /\ FF \notin S /\ B \subseteq Entries
  BY <1>1, SoundFacts DEF Attached
<1> HIDE DEF A, B
<1>9. Moves(D, A, e, B, S, i, 1, FF)
  BY <1>3, <1>4, <1>7, <1>8 DEF Moves, Marked
<1>10. Marked(e, B, S) /\ Apart(e, B)
  BY <1>8, <1>9, Places
<1>11. Alive(e) \subseteq E \cup {i}
  BY <1>1, <1>4 DEF Sound, Alive
<1>12. Sound(e, E \cup {i}, S, {}, {i})
  BY <1>1, <1>4, <1>5, <1>6, <1>10, <1>11 DEF Sound, EEFS_FLAG_LISTENTRY, B
<1>13. \A n \in Names : n # r[NAME] => Kept(D, e, n)
  BY <1>1, <1>2, <1>4 DEF Kept, Shows, FF
<1> QED BY <1>2, <1>12, <1>13 DEF e

\* An entry is erased, and the sectors up to its first gap are free.
LEMMA EraseEntry ==
  ASSUME NEW D, NEW E, NEW S, NEW W, NEW i \in E, Sound(D, E, S, {i}, W),
         NEW count \in Nat, count <= curentry_max_sectors(D[i]),
         \A b \in 1 .. count : D[i][b] # FF,
         NEW r \in [Cells -> Nat], \A c \in Cells : r[c] = FF
  PROVE  LET e == [D EXCEPT ![i] = r]
             T == S \ {D[i][b] : b \in 1 .. count}
         IN  /\ Sound(e, E, T, {D[i][NEXT]} \ {FF}, W)
             /\ \A n \in Names : (D[i][FLAGS] = 0 => n # D[i][NAME]) => Kept(D, e, n)
<1> DEFINE e == [D EXCEPT ![i] = r]
           T == S \ {D[i][b] : b \in 1 .. count}
           X == {D[i][NEXT]} \ {FF}
           A == Attached(D, E, {i})
           B == Attached(e, E, X)
<1>1. D \in Dirs /\ i \in Entries /\ E \subseteq Entries /\ S \subseteq Sectors
  BY DEF Sound
<1>2. /\ curentry_max_sectors(D[i]) = IF D[i][FLAGS] = 0 THEN Links ELSE Links + 2
      /\ \A b \in 1 .. count : b \in Cells /\ Holds(D[i], b)
  <2>1. curentry_max_sectors(D[i]) = IF D[i][FLAGS] = 0 THEN Links ELSE Links + 2
    BY <1>1, RowFacts
  <2>2. \A b \in 1 .. count : b \in Cells
    BY <2>1, Consts
  <2>3. \A b \in 1 .. count : b \in 1 .. curentry_max_sectors(D[i])
    BY <2>1, Consts
  <2> QED BY <2>1, <2>2, <2>3 DEF Holds
<1>3. r \in Row /\ r[FLAGS] = FF /\ r[NEXT] = FF /\ \A c \in Cells : ~Holds(r, c)
  <2>1. r[FLAGS] = FF /\ r[NEXT] = FF
    BY Fields
  <2>2. FF # 0
    BY DEF FF
  <2> QED BY <2>1, <2>2 DEF Row, Holds
<1>4. e[i] = r /\ \A j \in Entries : j # i => e[j] = D[j]
  BY <1>1 DEF Dirs
<1>5. e \in Dirs
  BY <1>1, <1>3 DEF Dirs
<1>6. X \subseteq E /\ X \subseteq A
  BY DEF Sound, Linked, Attached
<1> HIDE DEF e, X
<1>7. Linked(e, E, W)
  BY <1>1, <1>3, <1>4 DEF Sound, Linked, FF
<1>8. B \subseteq A
  BY <1>1, <1>3, <1>4, <1>6, FFOutside DEF Attached
<1>9. Marked(D, A, S) /\ Apart(D, A) /\ FF \notin S /\ B \subseteq Entries /\ i \in A
  BY <1>1, SoundFacts DEF Attached
<1> HIDE DEF A, B
<1>10. Moves(D, A, e, B, T, i, 1, FF)
  <2> SUFFICES ASSUME NEW j \in B, NEW b \in Cells, Holds(e[j], b)
               PROVE  j \in A /\ Holds(D[j], b) /\ e[j][b] = D[j][b] /\ D[j][b] \in T
    BY DEF Moves
  <2>1. j # i /\ e[j] = D[j] /\ j \in A
    BY <1>3, <1>4, <1>8, <1>9
  <2>2. D[j][b] \in S
    BY <2>1, <1>9 DEF Marked
  <2>3. \A k \in 1 .. count : D[i][k] # D[j][b]
    BY <2>1, <1>2, <1>9 DEF Apart
  <2> QED BY <2>1, <2>2, <2>3
<1>11. Marked(e, B, T) /\ Apart(e, B)
  BY <1>9, <1>10, Places
<1>12. Alive(e) \subseteq E
  BY <1>1, <1>3, <1>4 DEF Sound, Alive
<1>13. \A k \in W : k \in Entries /\ (e[k][FLAGS] = D[k][FLAGS] \/ e[k][FLAGS] = FF)
  BY <1>1, <1>3, <1>4 DEF Sound
<1>14. Sound(e, E, T, X, W)
  BY <1>1, <1>5, <1>6, <1>7, <1>11, <1>12, <1>13 DEF Sound, EEFS_FLAG_LISTENTRY, FF, B
<1>15. \A n \in Names : (D[i][FLAGS] = 0 => n # D[i][NAME]) => Kept(D, e, n)
  BY <1>1, <1>3, <1>4 DEF Kept, Shows, FF
<1> QED BY <1>14, <1>15 DEF e, X

-----------------------------------------------------------------------------
(* The operations on a device.                                             *)

Dev(d) == d = [dir |-> d.dir, data |-> d.data, past |-> d.past, sectors |-> d.sectors,
               entries |-> d.entries, free |-> d.free, asserted |-> d.asserted]

Counted(d) == d.free = SECTOR_COUNT - Cardinality(d.sectors) /\ d.asserted = TRUE

\* A device within an operation that began with directory D and touches the
\* files T.
Good(d, X, W, D, T) ==
  /\ Dev(d)
  /\ Sound(d.dir, d.entries, d.sectors, X, W)
  /\ Counted(d)
  /\ \A e \in d.past : Fair(D, T, e.dir)
  /\ \A n \in Names \ T : Kept(D, d.dir, n)

\* Row old of which the first k cells are overwritten.
Mixed(old, new, k) == [c \in Cells |-> IF c <= k THEN new[c] ELSE old[c]]

\* What write_entry does to d: the EEPROM goes through mixed rows.
Writes(d, w, index, entry) ==
  /\ Dev(w) /\ w.dir = [d.dir EXCEPT ![index] = entry]
  /\ w.sectors = d.sectors /\ w.entries = d.entries
  /\ w.free = d.free /\ w.asserted = d.asserted
  /\ \A e \in w.past :
       \/ e \in d.past
       \/ \E k \in Cells : e.dir = [d.dir EXCEPT ![index] = Mixed(d.dir[index], entry, k)]
       \/ /\ entry[NAME] # d.dir[index][NAME] /\ ~curentry_is_listentry(d.dir[index])
          /\ e.dir = [d.dir EXCEPT ![index] =
               [Mixed(d.dir[index], entry, Links) EXCEPT ![NAME] = Torn]]

LEMMA WriteEntry ==
  ASSUME NEW d, Dev(d), NEW index, NEW entry
  PROVE  Writes(d, write_entry(d, index, entry), index, entry)
<1> DEFINE w == write_entry(d, index, entry)
           half == IF /\ entry[NAME] # d.dir[index][NAME] /\ d.dir[index][NAME] # FF
                      /\ ~curentry_is_listentry(d.dir[index])
                     THEN {[Mixed(d.dir[index], entry, Links) EXCEPT ![NAME] = Torn]} ELSE {}
           rows == half \cup {Mixed(d.dir[index], entry, k) : k \in Cells}
           added == {[dir |-> [d.dir EXCEPT ![index] = e], data |-> d.data] : e \in rows}
<1>1. w = [d EXCEPT !.dir[index] = entry, !.past = @ \cup added]
  BY Zenon DEF write_entry, Mixed
<1> HIDE DEF w, added
<1>2. w = [dir |-> [d.dir EXCEPT ![index] = entry], data |-> d.data, past |-> d.past \cup added,
           sectors |-> d.sectors, entries |-> d.entries, free |-> d.free,
           asserted |-> d.asserted]
  BY <1>1 DEF Dev
<1>3. \A e \in added :
        \/ \E k \in Cells : e.dir = [d.dir EXCEPT ![index] = Mixed(d.dir[index], entry, k)]
        \/ /\ entry[NAME] # d.dir[index][NAME] /\ ~curentry_is_listentry(d.dir[index])
           /\ e.dir = [d.dir EXCEPT ![index] =
                [Mixed(d.dir[index], entry, Links) EXCEPT ![NAME] = Torn]]
  <2> SUFFICES ASSUME NEW e \in added
               PROVE  \/ \E k \in Cells : e.dir = [d.dir EXCEPT ![index] = Mixed(d.dir[index], entry, k)]
                      \/ /\ entry[NAME] # d.dir[index][NAME] /\ ~curentry_is_listentry(d.dir[index])
                         /\ e.dir = [d.dir EXCEPT ![index] =
                              [Mixed(d.dir[index], entry, Links) EXCEPT ![NAME] = Torn]]
    OBVIOUS
  <2>1. PICK x \in rows : e = [dir |-> [d.dir EXCEPT ![index] = x], data |-> d.data]
    BY DEF added
  <2>2. e.dir = [d.dir EXCEPT ![index] = x]
    BY <2>1
  <2>3. CASE x \in half
    BY <2>2, <2>3
  <2>4. CASE x \in {Mixed(d.dir[index], entry, k) : k \in Cells}
    BY <2>2, <2>4
  <2> QED BY <2>3, <2>4
<1> QED BY <1>2, <1>3 DEF Dev, Writes, w

\* One cell differs: the EEPROM has the old or the new directory, but for a name.
OneWrite(d, w, i, c) ==
  \A e \in w.past :
    \/ e \in d.past \/ e.dir = d.dir \/ e.dir = w.dir
    \/ /\ c = NAME /\ ~curentry_is_listentry(d.dir[i])
       /\ e.dir = [d.dir EXCEPT ![i] = [d.dir[i] EXCEPT ![NAME] = Torn]]

LEMMA WriteCell ==
  ASSUME NEW d, Dev(d), d.dir \in Dirs, NEW i \in Entries, NEW c \in Cells, NEW v
  PROVE  OneWrite(d, write_entry(d, i, [d.dir[i] EXCEPT ![c] = v]), i, c)
<1> DEFINE old == d.dir[i]
           new == [old EXCEPT ![c] = v]
           w == write_entry(d, i, new)
<1>1. old \in [Cells -> Nat] /\ d.dir = [d.dir EXCEPT ![i] = old]
  BY RowFacts DEF Dirs
<1>w. Writes(d, w, i, new)
  BY WriteEntry
<1> HIDE DEF new, w
<1>2. w.dir = [d.dir EXCEPT ![i] = new]
  BY <1>w DEF Writes
<1>3. ASSUME NEW k \in Cells PROVE Mixed(old, new, k) = old \/ Mixed(old, new, k) = new
  <2> USE DEF new
  <2>1. CASE c <= k
    BY <1>1, <2>1 DEF Mixed, Cells
  <2>2. CASE ~(c <= k)
    BY <1>1, <2>2 DEF Mixed, Cells
  <2> QED BY <2>1, <2>2
<1>4. c = NAME => Mixed(old, new, Links) = old
  BY <1>1, Consts DEF Mixed, new
<1>5. new[NAME] # old[NAME] => c = NAME
  BY <1>1, Fields DEF new
<1>6. \A e \in w.past :
        \/ e \in d.past
        \/ \E k \in Cells : e.dir = [d.dir EXCEPT ![i] = Mixed(old, new, k)]
        \/ /\ new[NAME] # old[NAME] /\ ~curentry_is_listentry(old)
           /\ e.dir = [d.dir EXCEPT ![i] = [Mixed(old, new, Links) EXCEPT ![NAME] = Torn]]
  BY <1>w DEF Writes
<1> HIDE DEF old
<1> SUFFICES \A e \in w.past :
               \/ e \in d.past \/ e.dir = d.dir \/ e.dir = w.dir
               \/ /\ c = NAME /\ ~curentry_is_listentry(old)
                  /\ e.dir = [d.dir EXCEPT ![i] = [old EXCEPT ![NAME] = Torn]]
  BY DEF w, new, old, OneWrite
<1> QED BY <1>1, <1>2, <1>3, <1>4, <1>5, <1>6

\* A sector changes its state.
LEMMA MarkSector ==
  ASSUME NEW d, Dev(d), Counted(d), d.sectors \subseteq Sectors, NEW s \in Sectors,
         NEW used \in BOOLEAN, s \in d.sectors <=> ~used
  PROVE  LET w == mark_sector(d, s, used)
         IN  /\ Dev(w) /\ Counted(w) /\ w.dir = d.dir /\ w.past = d.past /\ w.entries = d.entries
             /\ w.sectors = (IF used THEN d.sectors \cup {s} ELSE d.sectors \ {s})
<1> DEFINE w == mark_sector(d, s, used)
<1> DEFINE flips == d.asserted /\ (s \in d.sectors) # used
           S == IF used THEN d.sectors \cup {s} ELSE d.sectors \ {s}
           n == (IF used THEN d.free - 1 ELSE d.free + 1) % 256
<1>0. flips = TRUE
  <2>1. CASE used = TRUE
    BY <2>1, Zenon DEF Counted
  <2>2. CASE used = FALSE
    BY <2>2, Zenon DEF Counted
  <2> QED BY <2>1, <2>2, Zenon
<1>1. w = [d EXCEPT !.sectors = S, !.free = n, !.asserted = flips]
  BY Zenon DEF mark_sector
<1> HIDE DEF S, n, flips, w
<1>a. w = [dir |-> d.dir, data |-> d.data, past |-> d.past, sectors |-> S,
           entries |-> d.entries, free |-> n, asserted |-> TRUE]
  BY <1>0, <1>1 DEF Dev
<1>b. Dev(w) /\ w.dir = d.dir /\ w.past = d.past /\ w.entries = d.entries /\ w.sectors = S
      /\ w.free = n /\ w.asserted = TRUE
  BY <1>a DEF Dev
<1>2. IsFiniteSet(Sectors) /\ Cardinality(Sectors) = SECTOR_COUNT /\ SECTOR_COUNT \in 1 .. 254
  BY EepromFsAssumption, FS_Interval DEF Sectors
<1>3. /\ IsFiniteSet(d.sectors) /\ Cardinality(d.sectors) \in Nat
      /\ Cardinality(d.sectors) <= SECTOR_COUNT
  BY <1>2, FS_Subset, FS_CardinalityType
<1>4. CASE used
  <2>1. s \notin d.sectors /\ Cardinality(d.sectors \cup {s}) = Cardinality(d.sectors) + 1
    BY <1>3, <1>4, FS_AddElement
  <2>2. d.sectors \cup {s} \in SUBSET Sectors
    OBVIOUS
  <2>3. Cardinality(d.sectors \cup {s}) <= SECTOR_COUNT
    BY <1>2, <2>2, FS_Subset
  <2>4. n = SECTOR_COUNT - Cardinality(S) /\ S = d.sectors \cup {s}
    BY <1>2, <1>3, <1>4, <2>1, <2>3 DEF Counted, S, n
  <2> QED BY <1>b, <1>4, <2>4 DEF Counted, w
<1>5. CASE ~used
  <2>1. s \in d.sectors /\ Cardinality(d.sectors \ {s}) = Cardinality(d.sectors) - 1
    <3>1. s \in d.sectors
      BY <1>5, Zenon
    <3> QED BY <3>1, <1>3, FS_RemoveElement
  <2>2. d.sectors # {} /\ Cardinality(d.sectors) >= 1
    BY <1>3, <2>1, FS_RemoveElement, FS_CardinalityType
  <2>3. n = SECTOR_COUNT - Cardinality(S) /\ S = d.sectors \ {s}
    BY <1>2, <1>3, <1>5, <2>1, <2>2 DEF Counted, S, n
  <2> QED BY <1>b, <1>5, <2>3 DEF Counted, w
<1> QED BY <1>4, <1>5

Unmarks(d, w, s) ==
  /\ Dev(w) /\ Counted(w) /\ w.dir = d.dir /\ w.past = d.past /\ w.entries = d.entries
  /\ w.sectors = d.sectors \ {s}

LEMMA MarkFree ==
  ASSUME NEW d, Dev(d), Counted(d), d.sectors \subseteq Sectors, NEW s \in d.sectors
  PROVE  Unmarks(d, mark_sector(d, s, FALSE), s)
<1>1. s \in Sectors /\ FALSE \in BOOLEAN /\ (s \in d.sectors <=> ~FALSE)
  OBVIOUS
<1> QED BY <1>1, MarkSector, Zenon DEF Unmarks

LEMMA KeptTrans ==
  ASSUME NEW D, NEW e, NEW f, NEW n, Kept(D, e, n), Kept(e, f, n)
  PROVE  Kept(D, f, n)
BY DEF Kept

LEMMA SoundFair ==
  ASSUME NEW D, NEW T, NEW e, NEW E, NEW S, NEW X, NEW W, Sound(e, E, S, X, W),
         \A n \in Names \ T : Kept(D, e, n)
  PROVE  Fair(D, T, e)
BY SoundFacts DEF Fair

\* The first cells of a new row over a dead one: nothing is seen of it before
\* the flags are there.
LEMMA MixedNew ==
  ASSUME NEW D \in Dirs, NEW S, Marked(D, Alive(D), S), Apart(D, Alive(D)),
         NEW i \in Entries, D[i][FLAGS] = FF, NEW k \in Cells,
         NEW s \in Sectors \cup {FF}, s \notin S, NEW r \in [Cells -> Nat],
         r[1] = s, \A c \in 2 .. Links : r[c] = FF, r[NEXT] \in Entries \cup {FF},
         \/ r[FLAGS] = 2 /\ r[NAME] = FF /\ r[SIZE] = FF
         \/ r[FLAGS] = 0 /\ r[SIZE] = 0
  PROVE  LET e == [D EXCEPT ![i] = Mixed(D[i], r, k)]
         IN  /\ e \in Dirs /\ Apart(e, Alive(e))
             /\ \A n \in Names : (r[FLAGS] = 0 => n # r[NAME]) => Kept(D, e, n)
<1> DEFINE m == Mixed(D[i], r, k)
           e == [D EXCEPT ![i] = m]
<1>1. D[i] \in Row /\ D[i] \in [Cells -> Nat] /\ D[i][NEXT] \in Entries \cup {FF}
  BY RowFacts
<1>2. m \in [Cells -> Nat] /\ \A c \in Cells : m[c] = IF c <= k THEN r[c] ELSE D[i][c]
  BY <1>1 DEF Mixed
<1> HIDE DEF m
<1>3. e[i] = m /\ \A j \in Entries : j # i => e[j] = D[j]
  BY DEF Dirs
<1>4. m[FLAGS] = FF \/ \A c \in Cells : c # NEXT => m[c] = r[c]
  <2>1. CASE FLAGS <= k
    <3>1. \A c \in Cells : c # NEXT => c <= k
      BY <2>1, Consts
    <3> QED BY <3>1, <1>2
  <2>2. CASE ~(FLAGS <= k)
    BY <2>2, <1>2, Fields
  <2> QED BY <2>1, <2>2
<1>5. m[NEXT] \in Entries \cup {FF}
  BY <1>1, <1>2, Fields
<1>6. /\ m \in Row
      /\ m[FLAGS] # FF => \A c \in Cells : Holds(m, c) => c = 1 /\ m[c] = s
  <2>1. CASE m[FLAGS] = FF
    <3>1. FF # 0
      BY DEF FF
    <3> QED BY <2>1, <3>1, <1>2, <1>5 DEF Row
  <2>2. CASE m[FLAGS] # FF
    <3>1. /\ m[1] = s /\ m[FLAGS] = r[FLAGS] /\ m[NAME] = r[NAME] /\ m[SIZE] = r[SIZE]
          /\ \A c \in 2 .. Links : m[c] = FF
      <4>1. 1 \in Cells /\ 1 # NEXT /\ \A c \in 2 .. Links : c \in Cells /\ c # NEXT
        BY Consts
      <4> QED BY <4>1, <2>2, <1>4, Fields
    <3> QED BY <2>2, <3>1, <1>2, <1>5, BlankRow
  <2> QED BY <2>1, <2>2
<1>7. e \in Dirs
  BY <1>6 DEF Dirs
<1> HIDE DEF e
<1>8. Moves(D, Alive(D), e, Alive(e), S \cup {s}, i, 1, s)
  BY <1>3, <1>6 DEF Moves, Alive, Marked
<1>9. Apart(e, Alive(e))
  BY <1>8, Places
<1>10. \A n \in Names : (r[FLAGS] = 0 => n # r[NAME]) => Kept(D, e, n)
  BY <1>3, <1>4, Fields DEF Kept, Shows, FF
<1> QED BY <1>7, <1>9, <1>10 DEF e, m

\* The first cells of a row are erased.
LEMMA MixedErase ==
  ASSUME NEW D \in Dirs, NEW S, Marked(D, Alive(D), S), Apart(D, Alive(D)), FF \notin S,
         NEW i \in Entries, NEW k \in Cells,
         NEW r \in [Cells -> Nat], \A c \in Cells : r[c] = FF
  PROVE  LET e == [D EXCEPT ![i] = Mixed(D[i], r, k)]
         IN  /\ e \in Dirs /\ Apart(e, Alive(e))
             /\ \A n \in Names : (D[i][FLAGS] = 0 => n # D[i][NAME]) => Kept(D, e, n)
<1> DEFINE m == Mixed(D[i], r, k)
           e == [D EXCEPT ![i] = m]
<1>1. /\ D[i] \in Row /\ D[i] \in [Cells -> Nat] /\ D[i][NEXT] \in Entries \cup {FF}
      /\ D[i][FLAGS] \in {0, 2, FF}
      /\ curentry_max_sectors(D[i]) = IF D[i][FLAGS] = 0 THEN Links ELSE Links + 2
  BY RowFacts
<1>2. m \in [Cells -> Nat] /\ \A c \in Cells : m[c] = IF c <= k THEN FF ELSE D[i][c]
  BY <1>1 DEF Mixed, FF
<1> HIDE DEF m
<1>3. e[i] = m /\ \A j \in Entries : j # i => e[j] = D[j]
  BY DEF Dirs
<1>4. m[FLAGS] = FF \/ (m[FLAGS] = D[i][FLAGS] /\ curentry_max_sectors(m) = curentry_max_sectors(D[i]))
  BY <1>1, <1>2, Width, Fields DEF EEFS_FLAG_LISTENTRY
<1>5. m[NAME] = FF \/ (m[NAME] = D[i][NAME] /\ m[SIZE] = D[i][SIZE])
  BY <1>2, Consts
<1>6. m \in Row
  <2>1. m[NEXT] \in Entries \cup {FF}
    BY <1>1, <1>2, Fields
  <2>2. m[FLAGS] \in {0, EEFS_FLAG_LISTENTRY, FF}
    BY <1>1, <1>4 DEF EEFS_FLAG_LISTENTRY
  <2>3. m[FLAGS] # FF => \A c \in 1 .. curentry_max_sectors(m) : m[c] \in Sectors \cup {FF}
    BY <1>1, <1>2, <1>4, Fields DEF Row
  <2>4. m[FLAGS] = 0 /\ m[NAME] \in Names => m[SIZE] \in 0 .. MaxSize
    <3>1. FF # 0
      BY DEF FF
    <3> QED BY <3>1, <1>1, <1>4, <1>5, FFOutside DEF Row
  <2> QED BY <1>2, <2>1, <2>2, <2>3, <2>4 DEF Row
<1>7. e \in Dirs
  BY <1>6 DEF Dirs
<1> HIDE DEF e
<1>8. Moves(D, Alive(D), e, Alive(e), S, i, 1, FF)
  <2> SUFFICES ASSUME NEW j \in Alive(e), NEW b \in Cells, Holds(e[j], b)
               PROVE  /\ j \in Alive(D) /\ Holds(D[j], b) /\ e[j][b] = D[j][b]
                      /\ D[j][b] \in S
    BY DEF Moves
  <2>1. j \in Alive(D) /\ Holds(D[j], b) /\ e[j][b] = D[j][b]
    BY <1>2, <1>3, <1>4 DEF Alive, Holds
  <2> QED BY <2>1 DEF Marked
<1>9. Apart(e, Alive(e))
  BY <1>8, Places
<1>10. \A n \in Names : (D[i][FLAGS] = 0 => n # D[i][NAME]) => Kept(D, e, n)
  <2>1. FF # 0
    BY DEF FF
  <2> QED BY <2>1, <1>3, <1>4, <1>5, FFOutside DEF Kept, Shows
<1> QED BY <1>7, <1>9, <1>10 DEF e, m

\* A name entry is erased up to its name.
LEMMA TornErase ==
  ASSUME NEW D \in Dirs, NEW S, Marked(D, Alive(D), S), Apart(D, Alive(D)), FF \notin S,
         NEW i \in Entries, D[i][FLAGS] = 0,
         NEW r \in [Cells -> Nat], \A c \in Cells : r[c] = FF
  PROVE  LET e == [D EXCEPT ![i] = [Mixed(D[i], r, Links) EXCEPT ![NAME] = Torn]]
         IN  /\ e \in Dirs /\ Apart(e, Alive(e))
             /\ \A n \in Names : n # D[i][NAME] => Kept(D, e, n)
<1> DEFINE m == [Mixed(D[i], r, Links) EXCEPT ![NAME] = Torn]
           e == [D EXCEPT ![i] = m]
<1>1. D[i] \in [Cells -> Nat] /\ D[i][NEXT] \in Entries \cup {FF}
  BY RowFacts
<1>2. /\ m \in [Cells -> Nat] /\ m[NAME] = Torn
      /\ \A c \in Cells : c # NAME => m[c] = IF c <= Links THEN FF ELSE D[i][c]
  BY <1>1, Fields DEF Mixed, FF, Torn
<1> HIDE DEF m
<1>3. m[FLAGS] = 0 /\ m[NEXT] = D[i][NEXT]
  BY <1>2, Consts
<1>4. curentry_max_sectors(m) = Links
  BY <1>3, Width
<1>5. /\ m \in Row /\ \A c \in Cells : ~Holds(m, c)
  <2>1. \A c \in 1 .. Links : m[c] = FF
    BY <1>2, Fields
  <2>2. m[NAME] \notin Names
    BY <1>2, Consts
  <2> QED BY <1>1, <1>2, <1>3, <1>4, <2>1, <2>2 DEF Row, Holds
<1>6. e[i] = m /\ \A j \in Entries : j # i => e[j] = D[j]
  BY DEF Dirs
<1>7. e \in Dirs
  BY <1>5 DEF Dirs
<1> HIDE DEF e
<1>8. Moves(D, Alive(D), e, Alive(e), S, i, 1, FF)
  BY <1>5, <1>6 DEF Moves, Alive, Marked
<1>9. Apart(e, Alive(e))
  BY <1>8, Places
<1>10. \A n \in Names : n # D[i][NAME] => Kept(D, e, n)
  BY <1>2, <1>3, <1>6, Consts DEF Kept, Shows
<1> QED BY <1>7, <1>9, <1>10 DEF e, m

Handles == [mode : {"closed", "read", "write"}, name : Int, tag : Int, size : Int,
            offset : Int, entry : Int, sector : Int, soffset : Int, cur : Int,
            sindex : Int, grown : BOOLEAN]

LEMMA GoodFacts ==
  ASSUME NEW d, NEW X, NEW W, NEW D, NEW T, Good(d, X, W, D, T)
  PROVE  /\ Dev(d) /\ Sound(d.dir, d.entries, d.sectors, X, W) /\ Counted(d)
         /\ d.dir \in Dirs /\ d.entries \subseteq Entries /\ d.sectors \subseteq Sectors
         /\ W \subseteq d.entries
         /\ \A e \in d.past : Fair(D, T, e.dir)
         /\ \A n \in Names \ T : Kept(D, d.dir, n)
         /\ Fair(D, T, d.dir)
<1>1. Fair(D, T, d.dir)
  BY SoundFair DEF Good
<1> QED BY <1>1 DEF Good, Sound

\* eepromfs_close: the size of a file.
LEMMA SizeGood ==
  ASSUME NEW d, NEW W, NEW D, NEW T, Good(d, {}, W, D, T),
         NEW i \in W, NEW v \in 0 .. MaxSize,
         d.dir[i][FLAGS] = 0 /\ d.dir[i][NAME] \in Names => d.dir[i][NAME] \in T
  PROVE  LET w == write_entry(d, i, [d.dir[i] EXCEPT ![SIZE] = v])
         IN  /\ Good(w, {}, W, D, T)
             /\ w.dir = [d.dir EXCEPT ![i] = [d.dir[i] EXCEPT ![SIZE] = v]]
             /\ w.sectors = d.sectors /\ w.entries = d.entries
<1> DEFINE w == write_entry(d, i, [d.dir[i] EXCEPT ![SIZE] = v])
           e == [d.dir EXCEPT ![i] = [d.dir[i] EXCEPT ![SIZE] = v]]
<1>1. /\ Dev(d) /\ Sound(d.dir, d.entries, d.sectors, {}, W) /\ Counted(d) /\ d.dir \in Dirs
      /\ i \in d.entries /\ i \in Entries
  BY GoodFacts
<1>2. d.dir[i][FLAGS] = 0 \/ d.dir[i][FLAGS] = FF
  BY <1>1, RowFacts DEF Sound, EEFS_FLAG_LISTENTRY
<1>3. /\ Sound(e, d.entries, d.sectors, {}, W)
      /\ \A n \in Names : (d.dir[i][FLAGS] = 0 => n # d.dir[i][NAME]) => Kept(d.dir, e, n)
  <2>1. v \in Nat /\ SIZE \in {NAME, SIZE} /\ SIZE # NAME
    BY Consts
  <2> QED BY <1>1, <1>2, <2>1, SetCell
<1>4. \A n \in Names \ T : Kept(D, e, n)
  <2> SUFFICES ASSUME NEW n \in Names \ T PROVE Kept(D, e, n)
    OBVIOUS
  <2>1. Kept(D, d.dir, n) /\ Kept(d.dir, e, n)
    BY <1>3 DEF Good
  <2> HIDE DEF e
  <2> QED BY <2>1, KeptTrans
<1>5. Fair(D, T, e) /\ Fair(D, T, d.dir)
  <2>1. Fair(D, T, e)
    BY <1>3, <1>4, SoundFair
  <2> QED BY <2>1, GoodFacts
<1>6. Writes(d, w, i, [d.dir[i] EXCEPT ![SIZE] = v])
  BY <1>1, WriteEntry
<1>7. w.dir = e /\ Dev(w) /\ w.sectors = d.sectors /\ w.entries = d.entries /\ Counted(w)
  BY <1>1, <1>6 DEF Writes, Counted
<1>8. \A x \in w.past : x \in d.past \/ x.dir = d.dir \/ x.dir = w.dir
  <2>1. SIZE \in Cells /\ SIZE # NAME
    BY Fields
  <2>2. OneWrite(d, w, i, SIZE)
    BY <1>1, <2>1, WriteCell
  <2> QED BY <2>1, <2>2 DEF OneWrite
<1> HIDE DEF w, e
<1>9. Good(w, {}, W, D, T)
  BY <1>3, <1>4, <1>5, <1>7, <1>8 DEF Good
<1> QED BY <1>7, <1>9 DEF w, e

\* eepromfs_rename: the name of a file, which may be torn.
LEMMA NameGood ==
  ASSUME NEW d, NEW W, NEW D, NEW T, Good(d, {}, W, D, T),
         NEW i \in Entries, NEW v \in Names, d.dir[i][FLAGS] = 0,
         d.dir[i][NAME] \in Names, d.dir[i][NAME] \in T, v \in T
  PROVE  LET w == write_entry(d, i, [d.dir[i] EXCEPT ![NAME] = v])
         IN  /\ Good(w, {}, W, D, T)
             /\ w.dir = [d.dir EXCEPT ![i] = [d.dir[i] EXCEPT ![NAME] = v]]
             /\ w.sectors = d.sectors /\ w.entries = d.entries
<1> DEFINE w == write_entry(d, i, [d.dir[i] EXCEPT ![NAME] = v])
           Named(x) == [d.dir EXCEPT ![i] = [d.dir[i] EXCEPT ![NAME] = x]]
<1>1. /\ Dev(d) /\ Sound(d.dir, d.entries, d.sectors, {}, W) /\ Counted(d) /\ d.dir \in Dirs
      /\ i \in d.entries
  <2>1. 0 # FF
    BY DEF FF
  <2> QED BY <2>1, GoodFacts DEF Sound, Alive
<1>3. ASSUME NEW x \in Nat, x \in T \/ x \notin Names
      PROVE  /\ Sound(Named(x), d.entries, d.sectors, {}, W)
             /\ \A n \in Names \ T : Kept(D, Named(x), n)
  <2>1. NAME \in {NAME, SIZE} /\ SIZE # NAME
    BY Fields
  <2>2. /\ Sound(Named(x), d.entries, d.sectors, {}, W)
        /\ \A n \in Names : n # d.dir[i][NAME] /\ n # x => Kept(d.dir, Named(x), n)
    BY <1>1, <1>3, <2>1, SetCell
  <2>3. ASSUME NEW n \in Names \ T PROVE Kept(D, Named(x), n)
    <3>1. Kept(D, d.dir, n) /\ Kept(d.dir, Named(x), n)
      BY <1>3, <2>2 DEF Good
    <3> HIDE DEF Named
    <3> QED BY <3>1, KeptTrans
  <2> QED BY <2>2, <2>3
<1>4. v \in Nat /\ Torn \in Nat /\ Torn \notin Names
  BY Consts
<1>5. Fair(D, T, Named(v)) /\ Fair(D, T, Named(Torn)) /\ Fair(D, T, d.dir)
  <2> HIDE DEF Named
  <2>1. Fair(D, T, Named(v))
    BY <1>3, <1>4, SoundFair
  <2>2. Fair(D, T, Named(Torn))
    BY <1>3, <1>4, SoundFair
  <2> QED BY <2>1, <2>2, GoodFacts
<1>6. Writes(d, w, i, [d.dir[i] EXCEPT ![NAME] = v])
  BY <1>1, WriteEntry
<1>7. w.dir = Named(v) /\ Dev(w) /\ w.sectors = d.sectors /\ w.entries = d.entries /\ Counted(w)
  BY <1>1, <1>6 DEF Writes, Counted
<1>8. \A x \in w.past : x \in d.past \/ x.dir = d.dir \/ x.dir = w.dir \/ x.dir = Named(Torn)
  <2>1. NAME \in Cells
    BY Fields
  <2>2. OneWrite(d, w, i, NAME)
    BY <1>1, <2>1, WriteCell
  <2> QED BY <2>1, <2>2 DEF OneWrite
<1>9. Sound(Named(v), d.entries, d.sectors, {}, W) /\ \A n \in Names \ T : Kept(D, Named(v), n)
  BY <1>3, <1>4
<1> HIDE DEF w, Named
<1>10. Good(w, {}, W, D, T)
  BY <1>5, <1>7, <1>8, <1>9 DEF Good
<1> QED BY <1>7, <1>10 DEF w, Named

\* The first free element is free.
LEMMA NextFreeIs ==
  ASSUME NEW used, NEW start \in Int, NEW n \in Nat
  PROVE  NextFree(used, start, n) = FF \/ NextFree(used, start, n) \in (0 .. n - 1) \ used
<1> DEFINE free == (0 .. n - 1) \ used
           up == {x \in free : x >= start}
<1>1. free \in SUBSET Nat /\ up \in SUBSET Nat
  OBVIOUS
<1>2. free # {} => Min(free) \in free
  BY <1>1, Smallest
<1>3. up # {} => Min(up) \in up
  BY <1>1, Smallest
<1> QED BY <1>2, <1>3 DEF NextFree

\* A device with another set of used entries.
LEMMA SetEntries ==
  ASSUME NEW d, Dev(d), NEW E
  PROVE  LET x == [d EXCEPT !.entries = E]
         IN  /\ Dev(x) /\ x.dir = d.dir /\ x.past = d.past /\ x.sectors = d.sectors
             /\ x.entries = E /\ x.free = d.free /\ x.asserted = d.asserted
BY DEF Dev

\* open_write: a new file.
AddDev(d, i, name) == write_entry([d EXCEPT !.entries = @ \cup {i}], i, NewEntry(name))

AddedDev(d, w, i, name, D, T) ==
  /\ Good(w, {}, {i}, D, T)
  /\ w.dir = [d.dir EXCEPT ![i] = NewEntry(name)]
  /\ w.sectors = d.sectors /\ w.entries = d.entries \cup {i}

LEMMA NewEntryIs ==
  ASSUME NEW name \in Names
  PROVE  LET r == NewEntry(name)
         IN  /\ r \in [Cells -> Nat] /\ r[NAME] = name /\ r[FLAGS] = 0 /\ r[SIZE] = 0
             /\ r[NEXT] = FF /\ \A c \in 1 .. Links : r[c] = FF
<1> DEFINE r == NewEntry(name)
<1>1. \A c \in Cells : r[c] = CASE c = NAME -> name [] c = SIZE -> 0 [] c = FLAGS -> 0
                                [] OTHER -> FF
  BY DEF NewEntry
<1>2. \A c \in 1 .. Links : c \in Cells /\ c # NAME /\ c # SIZE /\ c # FLAGS
  BY Fields
<1>3. FF \in Nat /\ name \in Nat
  BY Consts
<1>4. r[NAME] = name /\ r[FLAGS] = 0 /\ r[SIZE] = 0 /\ r[NEXT] = FF
  BY <1>1, Fields
<1>5. \A c \in 1 .. Links : r[c] = FF
  BY <1>1, <1>2
<1>6. r \in [Cells -> Nat]
  BY <1>3 DEF NewEntry
<1> QED BY <1>4, <1>5, <1>6

LEMMA AddGood ==
  ASSUME NEW d, NEW D, NEW T, Good(d, {}, {}, D, T),
         NEW i \in Entries \ d.entries, NEW name \in Names, name \in T
  PROVE  AddedDev(d, AddDev(d, i, name), i, name, D, T)
<1> DEFINE w == AddDev(d, i, name)
           x == [d EXCEPT !.entries = d.entries \cup {i}]
           r == NewEntry(name)
           e == [d.dir EXCEPT ![i] = r]
<1>1. /\ Dev(d) /\ Sound(d.dir, d.entries, d.sectors, {}, {}) /\ Counted(d) /\ d.dir \in Dirs
      /\ Marked(d.dir, Alive(d.dir), d.sectors) /\ Apart(d.dir, Alive(d.dir))
      /\ FF \notin d.sectors
  BY GoodFacts, SoundFacts
<1>2. /\ r \in [Cells -> Nat] /\ r[NAME] = name /\ r[FLAGS] = 0 /\ r[SIZE] = 0 /\ r[NEXT] = FF
      /\ \A c \in 1 .. Links : r[c] = FF
  BY NewEntryIs
<1> HIDE DEF r
<1>3. /\ Dev(x) /\ x.dir = d.dir /\ x.past = d.past /\ x.sectors = d.sectors
      /\ x.entries = d.entries \cup {i} /\ x.free = d.free /\ x.asserted = d.asserted
  BY <1>1, SetEntries
<1>4. /\ d.dir[i][FLAGS] = FF
      /\ Sound(e, d.entries \cup {i}, d.sectors, {}, {i})
      /\ \A n \in Names : n # r[NAME] => Kept(d.dir, e, n)
  BY <1>1, <1>2, AddName
<1>5. \A n \in Names \ T : Kept(D, e, n)
  <2> SUFFICES ASSUME NEW n \in Names \ T PROVE Kept(D, e, n)
    OBVIOUS
  <2>1. Kept(D, d.dir, n) /\ Kept(d.dir, e, n)
    BY <1>2, <1>4 DEF Good
  <2> HIDE DEF e
  <2> QED BY <2>1, KeptTrans
<1>6. w = write_entry(x, i, r)
  BY Zenon DEF r, AddDev
<1> HIDE DEF x, w
<1>7. Writes(x, w, i, r)
  BY <1>3, <1>6, WriteEntry
<1>8. ASSUME NEW k \in Cells PROVE Fair(D, T, [d.dir EXCEPT ![i] = Mixed(d.dir[i], r, k)])
  <2> DEFINE f == [d.dir EXCEPT ![i] = Mixed(d.dir[i], r, k)]
  <2>1. 1 \in 1 .. Links /\ \A c \in 2 .. Links : c \in 1 .. Links
    BY Consts
  <2>2. /\ f \in Dirs /\ Apart(f, Alive(f))
        /\ \A n \in Names : (r[FLAGS] = 0 => n # r[NAME]) => Kept(d.dir, f, n)
    BY <1>1, <1>2, <1>4, <2>1, MixedNew
  <2> HIDE DEF f
  <2>3. ASSUME NEW n \in Names \ T PROVE Kept(D, f, n)
    <3>1. Kept(D, d.dir, n) /\ Kept(d.dir, f, n)
      BY <1>2, <2>2 DEF Good
    <3> QED BY <3>1, KeptTrans
  <2> QED BY <2>2, <2>3 DEF Fair, f
<1>9. \A p \in w.past : Fair(D, T, p.dir)
  <2>1. curentry_is_listentry(d.dir[i])
    BY <1>4 DEF curentry_is_listentry
  <2>2. \A p \in d.past : Fair(D, T, p.dir)
    BY GoodFacts
  <2> SUFFICES ASSUME NEW p \in w.past PROVE Fair(D, T, p.dir)
    OBVIOUS
  <2>3. p \in d.past \/ \E k \in Cells : p.dir = [d.dir EXCEPT ![i] = Mixed(d.dir[i], r, k)]
    <3>1. ~(r[NAME] # x.dir[i][NAME] /\ ~curentry_is_listentry(x.dir[i]))
      BY <1>3, <2>1
    <3>2. p \in x.past \/ \E k \in Cells : p.dir = [x.dir EXCEPT ![i] = Mixed(x.dir[i], r, k)]
      BY <1>7, <3>1, Zenon DEF Writes
    <3> QED BY <1>3, <3>2
  <2> QED BY <1>8, <2>2, <2>3
<1>10. w.dir = e /\ Dev(w) /\ w.sectors = d.sectors /\ w.entries = d.entries \cup {i} /\ Counted(w)
  BY <1>1, <1>3, <1>7 DEF Writes, Counted
<1> HIDE DEF e
<1>11. Good(w, {}, {i}, D, T)
  BY <1>4, <1>5, <1>9, <1>10 DEF Good
<1>12. AddedDev(d, w, i, name, D, T)
  BY <1>10, <1>11, Zenon DEF AddedDev, e, r
<1> QED BY <1>12 DEF w

\* A sector in the current entry.
NoteDev(d, i, c, s) ==
  write_entry(mark_sector(d, s, TRUE), i, [d.dir[i] EXCEPT ![c] = s])

NotedDev(d, w, i, c, s, W, D, T) ==
  /\ Good(w, {}, W, D, T)
  /\ w.dir = [d.dir EXCEPT ![i] = [d.dir[i] EXCEPT ![c] = s]]
  /\ w.sectors = d.sectors \cup {s} /\ w.entries = d.entries

LEMMA NoteGood ==
  ASSUME NEW d, NEW W, NEW D, NEW T, Good(d, {}, W, D, T),
         NEW i \in d.entries, NEW c \in 1 .. curentry_max_sectors(d.dir[i]),
         NEW s \in Sectors \ d.sectors
  PROVE  NotedDev(d, NoteDev(d, i, c, s), i, c, s, W, D, T)
<1> DEFINE w == NoteDev(d, i, c, s)
           x == mark_sector(d, s, TRUE)
           e == [d.dir EXCEPT ![i] = [d.dir[i] EXCEPT ![c] = s]]
<1>1. /\ Dev(d) /\ Sound(d.dir, d.entries, d.sectors, {}, W) /\ Counted(d) /\ d.dir \in Dirs
      /\ i \in Entries /\ d.sectors \subseteq Sectors /\ s \in Sectors /\ s \notin d.sectors
  BY GoodFacts
<1>2. /\ Dev(x) /\ Counted(x) /\ x.dir = d.dir /\ x.past = d.past /\ x.entries = d.entries
      /\ x.sectors = d.sectors \cup {s}
  BY <1>1, MarkSector
<1> HIDE DEF x
<1>3. Sound(e, d.entries, d.sectors \cup {s}, {}, W) /\ \A n \in Names : Kept(d.dir, e, n)
  BY <1>1, NoteSector
<1>4. \A n \in Names \ T : Kept(D, e, n)
  <2> SUFFICES ASSUME NEW n \in Names \ T PROVE Kept(D, e, n)
    OBVIOUS
  <2>1. Kept(D, d.dir, n) /\ Kept(d.dir, e, n)
    BY <1>3 DEF Good
  <2> HIDE DEF e
  <2> QED BY <2>1, KeptTrans
<1>5. c # NAME \/ curentry_is_listentry(d.dir[i])
  <2>1. /\ d.dir[i][FLAGS] \in {0, 2, FF}
        /\ curentry_max_sectors(d.dir[i]) = IF d.dir[i][FLAGS] = 0 THEN Links ELSE Links + 2
    BY <1>1, RowFacts
  <2>2. d.dir[i][FLAGS] # 0 => curentry_is_listentry(d.dir[i])
    BY <2>1 DEF curentry_is_listentry, EEFS_FLAG_LISTENTRY
  <2> QED BY <2>1, <2>2, Fields
<1> DEFINE y == [x.dir[i] EXCEPT ![c] = s]
<1>6. w = write_entry(x, i, y)
  BY <1>2, Zenon DEF x, NoteDev
<1> HIDE DEF w
<1>7. Writes(x, w, i, y)
  <2> HIDE DEF y
  <2> QED BY <1>2, <1>6, WriteEntry
<1>8. OneWrite(x, w, i, c) /\ c \in Cells
  <2>1. c \in Cells
    BY <1>1, RowFacts, Fields
  <2>2. OneWrite(x, write_entry(x, i, y), i, c)
    BY <1>1, <1>2, <2>1, WriteCell
  <2> QED BY <1>6, <2>1, <2>2
<1>9. w.dir = e /\ Dev(w) /\ w.sectors = d.sectors \cup {s} /\ w.entries = d.entries /\ Counted(w)
  BY <1>2, <1>7 DEF Writes, Counted
<1> HIDE DEF e
<1>10. Fair(D, T, e) /\ Fair(D, T, d.dir)
  <2>1. Fair(D, T, e)
    BY <1>3, <1>4, SoundFair
  <2> QED BY <2>1, GoodFacts
<1>11. \A p \in w.past : Fair(D, T, p.dir)
  BY <1>2, <1>5, <1>8, <1>9, <1>10, GoodFacts DEF OneWrite
<1>12. Good(w, {}, W, D, T)
  BY <1>3, <1>4, <1>9, <1>11 DEF Good
<1>13. NotedDev(d, w, i, c, s, W, D, T)
  BY <1>9, <1>12, Zenon DEF NotedDev, e
<1> QED BY <1>13 DEF w

\* What write_entry leaves in the EEPROM, with the directory spelt out.
LEMMA WritesPast ==
  ASSUME NEW x, NEW w, NEW i, NEW r, NEW D, Writes(x, w, i, r), x.dir = D,
         curentry_is_listentry(D[i])
  PROVE  \A p \in w.past :
           p \in x.past \/ \E k \in Cells : p.dir = [D EXCEPT ![i] = Mixed(D[i], r, k)]
<1> SUFFICES ASSUME NEW p \in w.past
             PROVE  p \in x.past \/ \E k \in Cells : p.dir = [D EXCEPT ![i] = Mixed(D[i], r, k)]
  OBVIOUS
<1>1. ~(r[NAME] # x.dir[i][NAME] /\ ~curentry_is_listentry(x.dir[i]))
  OBVIOUS
<1>2. p \in x.past \/ \E k \in Cells : p.dir = [x.dir EXCEPT ![i] = Mixed(x.dir[i], r, k)]
  BY <1>1, Zenon DEF Writes
<1> QED BY <1>2

ListRow(s) == [[c \in Cells |-> IF c = FLAGS THEN EEFS_FLAG_LISTENTRY ELSE FF] EXCEPT ![1] = s]

LEMMA ListRowIs ==
  ASSUME NEW s \in Sectors
  PROVE  /\ ListRow(s) \in [Cells -> Nat] /\ ListRow(s)[1] = s
         /\ \A c \in 2 .. Links : ListRow(s)[c] = FF
         /\ ListRow(s)[NEXT] = FF /\ ListRow(s)[FLAGS] = 2
         /\ ListRow(s)[NAME] = FF /\ ListRow(s)[SIZE] = FF
<1>1. /\ 1 \in Cells /\ 1 # FLAGS /\ 1 # NAME /\ 1 # SIZE /\ 1 # NEXT /\ s \in Nat /\ FF \in Nat
      /\ \A c \in 2 .. Links : c \in Cells /\ c # 1 /\ c # FLAGS
  BY Consts
<1>2. /\ ListRow(s) \in [Cells -> Nat] /\ ListRow(s)[1] = s
      /\ \A c \in Cells : c # 1 => ListRow(s)[c] = IF c = FLAGS THEN 2 ELSE FF
  BY <1>1 DEF ListRow, EEFS_FLAG_LISTENTRY
<1> QED BY <1>1, <1>2, Fields

LinkDev(d, i, l, s) ==
  write_entry(mark_sector(write_entry([d EXCEPT !.entries = @ \cup {l}], i,
                                      [d.dir[i] EXCEPT ![NEXT] = l]), s, TRUE), l, ListRow(s))

LinkedDev(d, w, i, l, s, W, D, T) ==
  /\ Good(w, {}, W, D, T)
  /\ w.dir = [[d.dir EXCEPT ![i] = [d.dir[i] EXCEPT ![NEXT] = l]] EXCEPT ![l] = ListRow(s)]
  /\ w.sectors = d.sectors \cup {s} /\ w.entries = d.entries \cup {l}

\* A sector in a new entry, to which the current one is linked first.
LEMMA LinkGood ==
  ASSUME NEW d, NEW W, NEW D, NEW T, Good(d, {}, W, D, T),
         NEW i \in d.entries, NEW l \in Entries \ d.entries, NEW s \in Sectors \ d.sectors
  PROVE  LinkedDev(d, LinkDev(d, i, l, s), i, l, s, W, D, T)
<1> DEFINE d1 == [d EXCEPT !.entries = d.entries \cup {l}]
           y == [d.dir[i] EXCEPT ![NEXT] = l]
           x == write_entry(d1, i, y)
           f == [d.dir EXCEPT ![i] = y]
           m == mark_sector(x, s, TRUE)
           r == ListRow(s)
           e == [f EXCEPT ![l] = r]
           w == write_entry(m, l, r)
<1>1. /\ Dev(d) /\ Sound(d.dir, d.entries, d.sectors, {}, W) /\ Counted(d) /\ d.dir \in Dirs
      /\ d.sectors \subseteq Sectors /\ i \in Entries
      /\ \A p \in d.past : Fair(D, T, p.dir)
      /\ Fair(D, T, d.dir)
  BY GoodFacts
<1>2. /\ Dev(d1) /\ d1.dir = d.dir /\ d1.past = d.past /\ d1.sectors = d.sectors
      /\ d1.entries = d.entries \cup {l} /\ d1.free = d.free /\ d1.asserted = d.asserted
  BY <1>1, SetEntries
<1>3. r \in [Cells -> Nat] /\ r[1] = s /\ (\A c \in 2 .. Links : r[c] = FF)
      /\ r[NEXT] = FF /\ r[FLAGS] = 2 /\ r[NAME] = FF /\ r[SIZE] = FF
  BY ListRowIs
<1> HIDE DEF r
<1>4. /\ f \in Dirs /\ Marked(f, Alive(f), d.sectors) /\ Apart(f, Alive(f))
      /\ f[l] = d.dir[l] /\ d.dir[l][FLAGS] = FF
      /\ Sound(e, d.entries \cup {l}, d.sectors \cup {s}, {}, W)
      /\ \A n \in Names : Kept(d.dir, f, n) /\ Kept(d.dir, e, n)
  <2>1. LinksTo(d.dir, f, e, d.entries, d.sectors, W, l, s)
    BY <1>1, <1>3, LinkEntry
  <2> HIDE DEF f, e
  <2> QED BY <2>1 DEF LinksTo
<1>5. w = LinkDev(d, i, l, s)
  BY Zenon DEF r, LinkDev
<1>6. Writes(d1, x, i, y) /\ OneWrite(d1, x, i, NEXT)
  <2>1. OneWrite(d1, write_entry(d1, i, [d1.dir[i] EXCEPT ![NEXT] = l]), i, NEXT)
    BY <1>1, <1>2, WriteCell, Fields
  <2>2. write_entry(d1, i, [d1.dir[i] EXCEPT ![NEXT] = l]) = x
    BY <1>2
  <2> HIDE DEF y
  <2>3. Writes(d1, x, i, y)
    BY <1>2, WriteEntry
  <2> QED BY <2>1, <2>2, <2>3
<1> HIDE DEF w, x
<1>7. /\ Dev(x) /\ Counted(x) /\ x.sectors = d.sectors /\ x.entries = d.entries \cup {l}
      /\ x.dir = f
  BY <1>1, <1>2, <1>6 DEF Writes, Counted
<1> HIDE DEF d1, y, f, e
<1>8. ASSUME NEW n \in Names \ T PROVE Kept(D, f, n) /\ Kept(D, e, n)
  <2>1. Kept(D, d.dir, n)
    BY DEF Good
  <2> QED BY <1>4, <2>1, KeptTrans
<1>9. Fair(D, T, f)
  BY <1>4, <1>8 DEF Fair
<1>10. \A p \in x.past : Fair(D, T, p.dir)
  <2>1. \A p \in x.past : p \in d1.past \/ p.dir = d1.dir \/ p.dir = x.dir
    BY <1>6, Fields DEF OneWrite
  <2> QED BY <1>1, <1>2, <1>7, <1>9, <2>1
<1>11. /\ Dev(m) /\ Counted(m) /\ m.dir = f /\ m.past = x.past
       /\ m.entries = d.entries \cup {l} /\ m.sectors = d.sectors \cup {s}
  <2>1. x.sectors \subseteq Sectors /\ s \in Sectors /\ s \notin x.sectors
    BY <1>1, <1>7
  <2>2. /\ Dev(m) /\ Counted(m) /\ m.dir = x.dir /\ m.past = x.past /\ m.entries = x.entries
        /\ m.sectors = x.sectors \cup {s}
    BY <1>7, <2>1, MarkSector
  <2> HIDE DEF m
  <2> QED BY <1>7, <2>2
<1> HIDE DEF m
<1>12. Writes(m, w, l, r)
  BY <1>11, WriteEntry DEF w
<1>13. ASSUME NEW k \in Cells PROVE Fair(D, T, [f EXCEPT ![l] = Mixed(f[l], r, k)])
  <2> DEFINE g == [f EXCEPT ![l] = Mixed(f[l], r, k)]
  <2>1. /\ g \in Dirs /\ Apart(g, Alive(g))
        /\ \A n \in Names : (r[FLAGS] = 0 => n # r[NAME]) => Kept(f, g, n)
    BY <1>3, <1>4, MixedNew
  <2> HIDE DEF g
  <2>2. ASSUME NEW n \in Names \ T PROVE Kept(D, g, n)
    BY <1>3, <1>8, <2>1, KeptTrans
  <2> QED BY <2>1, <2>2 DEF Fair, g
<1>14. \A p \in w.past : Fair(D, T, p.dir)
  <2>1. curentry_is_listentry(f[l])
    BY <1>4 DEF curentry_is_listentry
  <2>2. \A p \in w.past :
          p \in m.past \/ \E k \in Cells : p.dir = [f EXCEPT ![l] = Mixed(f[l], r, k)]
    BY <1>11, <1>12, <2>1, WritesPast
  <2> SUFFICES ASSUME NEW p \in w.past PROVE Fair(D, T, p.dir)
    OBVIOUS
  <2>3. CASE p \in m.past
    BY <1>10, <1>11, <2>3
  <2>4. CASE \E k \in Cells : p.dir = [f EXCEPT ![l] = Mixed(f[l], r, k)]
    BY <1>13, <2>4, Zenon
  <2> QED BY <2>2, <2>3, <2>4, Zenon
<1>15. w.dir = e /\ Dev(w) /\ Counted(w) /\ w.sectors = d.sectors \cup {s}
       /\ w.entries = d.entries \cup {l}
  BY <1>11, <1>12 DEF Writes, Counted, e
<1>16. Good(w, {}, W, D, T)
  BY <1>4, <1>8, <1>14, <1>15 DEF Good
<1> QED BY <1>5, <1>15, <1>16 DEF e, f, y, r, LinkedDev

-----------------------------------------------------------------------------
(* eepromfs_delete.                                                        *)

\* The sectors of a row up to the first gap.
Filled(r) == Max({0} \cup {c \in 1 .. curentry_max_sectors(r) : \A b \in 1 .. c : r[b] # FF})

LEMMA FilledIs ==
  ASSUME NEW r, curentry_max_sectors(r) \in Nat
  PROVE  /\ Filled(r) \in 0 .. curentry_max_sectors(r)
         /\ \A b \in 1 .. Filled(r) : r[b] # FF
         /\ \A c \in 1 .. curentry_max_sectors(r) :
              (\A b \in 1 .. c : r[b] # FF) => c <= Filled(r)
<1> DEFINE max == curentry_max_sectors(r)
           S == {0} \cup {c \in 1 .. max : \A b \in 1 .. c : r[b] # FF}
<1>1. S \in SUBSET (0 .. max) /\ S # {}
  OBVIOUS
<1>2. Max(S) \in S /\ \A y \in S : Max(S) >= y
  BY <1>1, Largest
<1>3. Filled(r) = Max(S)
  BY DEF Filled
<1> QED BY <1>1, <1>2, <1>3

\* The device after n turns of the inner loop.
Freed(d, i, n) ==
  LET freed[k \in 0 .. n] ==
        IF k = 0 THEN d ELSE mark_sector(freed[k - 1], d.dir[i][k], FALSE)
  IN  freed[n]

Frees(f, d, i, n) ==
  /\ f[0] = d
  /\ \A k \in 1 .. n : f[k] = mark_sector(f[k - 1], d.dir[i][k], FALSE)
  /\ Freed(d, i, n) = f[n]

LEMMA FreedUnfold ==
  ASSUME NEW d, NEW i, NEW n \in Nat
  PROVE  \E f : Frees(f, d, i, n)
<1> DEFINE Turn(x, k) == mark_sector(x, d.dir[i][k], FALSE)
           Body(f, m) == [k \in 0 .. m |->
             IF k = 0 THEN d ELSE Turn(f[k - 1], k)]
           S == {m \in Nat : \E f : f = Body(f, m)}
           freed == CHOOSE f : f = Body(f, n)
<1> HIDE DEF Turn
<1>1. 0 \in S
  <2> DEFINE g == [k \in 0 .. 0 |-> d]
  <2>1. g = Body(g, 0)
    OBVIOUS
  <2> QED BY <2>1
<1>2. ASSUME NEW m \in Nat, m \in S PROVE m + 1 \in S
  <2>1. PICK f : f = Body(f, m)
    BY <1>2
  <2> DEFINE g == [k \in 0 .. m + 1 |->
                     IF k = m + 1 THEN Turn(f[m], k) ELSE f[k]]
  <2>2. g = Body(g, m + 1)
    <3>1. ASSUME NEW k \in 0 .. m + 1
          PROVE g[k] = IF k = 0 THEN d ELSE Turn(g[k - 1], k)
      <4>1. CASE k = m + 1
        <5>1. k - 1 = m /\ m # k /\ m \in 0 .. m + 1
          BY <4>1
        <5> QED BY <4>1, <5>1
      <4>2. CASE k # m + 1
        <5>1. k \in 0 .. m /\ (k # 0 => k - 1 \in 0 .. m + 1 /\ k - 1 # m + 1)
          BY <4>2
        <5>2. f[k] = IF k = 0 THEN d ELSE Turn(f[k - 1], k)
          BY <2>1, <5>1
        <5> QED BY <4>2, <5>1, <5>2
      <4> QED BY <4>1, <4>2
    <3> QED BY <3>1
  <2>3. m + 1 \in Nat
    OBVIOUS
  <2> QED BY <2>2, <2>3, Zenon
<1>3. n \in S
  <2> HIDE DEF S
  <2> QED BY <1>1, <1>2, Counting
<1>4. freed = Body(freed, n)
  BY <1>3, Zenon
<1>5. Freed(d, i, n) = freed[n]
  BY Zenon DEF Freed, Turn
<1> HIDE DEF freed
<1>6. /\ freed[0] = d
      /\ \A k \in 1 .. n : freed[k] = Turn(freed[k - 1], k)
  <2>1. \A k \in 0 .. n : freed[k] = IF k = 0 THEN d ELSE Turn(freed[k - 1], k)
    BY <1>4
  <2> QED BY <2>1
<1> QED BY <1>5, <1>6, Zenon DEF Turn, Frees

LEMMA FreedIs ==
  ASSUME NEW d, Dev(d), Counted(d), d.sectors \subseteq Sectors, NEW i, NEW n \in Nat,
         \A b \in 1 .. n : d.dir[i][b] \in d.sectors,
         \A a, b \in 1 .. n : d.dir[i][a] = d.dir[i][b] => a = b,
         NEW w, w = Freed(d, i, n)
  PROVE  /\ Dev(w) /\ Counted(w) /\ w.dir = d.dir /\ w.past = d.past /\ w.entries = d.entries
         /\ w.sectors = d.sectors \ {d.dir[i][b] : b \in 1 .. n}
<1>0. PICK f : Frees(f, d, i, n)
  BY FreedUnfold
<1>1. /\ f[0] = d
      /\ \A k \in 1 .. n : f[k] = mark_sector(f[k - 1], d.dir[i][k], FALSE)
      /\ Freed(d, i, n) = f[n]
  BY <1>0, Zenon DEF Frees
<1> DEFINE Done(k) == d.sectors \ {d.dir[i][b] : b \in 1 .. k}
           P(k) == /\ Dev(f[k]) /\ Counted(f[k]) /\ f[k].dir = d.dir /\ f[k].past = d.past
                   /\ f[k].entries = d.entries /\ f[k].sectors = Done(k)
           S == {k \in Nat : k <= n => P(k)}
<1>2. 0 \in S
  <2>1. Done(0) = d.sectors
    OBVIOUS
  <2> QED BY <1>1, <2>1
<1>3. ASSUME NEW k \in Nat, k \in S PROVE k + 1 \in S
  <2> SUFFICES ASSUME k + 1 <= n PROVE P(k + 1)
    OBVIOUS
  <2> DEFINE s == d.dir[i][k + 1]
  <2>1. P(k) /\ k + 1 \in 1 .. n /\ (k + 1) - 1 = k
    BY <1>3
  <2>2. f[k + 1] = mark_sector(f[k], s, FALSE)
    BY <1>1, <2>1
  <2>3. s \in Done(k) /\ s \in Sectors /\ Done(k) \subseteq Sectors
    BY <2>1
  <2>4. Done(k + 1) = Done(k) \ {s}
    BY <2>1
  <2> HIDE DEF Done, s
  <2> DEFINE x == mark_sector(f[k], s, FALSE)
  <2>5. /\ Dev(x) /\ Counted(x) /\ x.dir = f[k].dir /\ x.past = f[k].past
        /\ x.entries = f[k].entries /\ x.sectors = f[k].sectors \ {s}
    <3>1. s \in f[k].sectors /\ f[k].sectors \subseteq Sectors /\ Dev(f[k]) /\ Counted(f[k])
      BY <2>1, <2>3
    <3>2. Unmarks(f[k], x, s)
      BY <3>1, MarkFree
    <3> HIDE DEF x
    <3> QED BY <3>2 DEF Unmarks
  <2> HIDE DEF x
  <2> QED BY <2>1, <2>2, <2>4, <2>5 DEF x
<1>4. P(n)
  <2>1. n \in S
    <3> HIDE DEF S
    <3> QED BY <1>2, <1>3, Counting
  <2> QED BY <2>1
<1> QED BY <1>1, <1>4

\* One turn of the outer loop.
Erases(d, w, i, W, D, T) ==
  /\ Good(w, {}, W, D, T) /\ Good(w, {d.dir[i][NEXT]} \ {FF}, W, D, T)
  /\ w.dir = [d.dir EXCEPT ![i] = [c \in Cells |-> FF]] /\ w.entries = d.entries
  /\ w.sectors = d.sectors \ {d.dir[i][b] : b \in 1 .. Filled(d.dir[i])}

LEMMA FreeGood ==
  ASSUME NEW d, NEW i \in d.entries, NEW W, NEW D, NEW T, Good(d, {i}, W, D, T),
         d.dir[i][FLAGS] = 0 /\ d.dir[i][NAME] \in Names => d.dir[i][NAME] \in T,
         NEW w, w = FreeEntry(d, i)
  PROVE  Erases(d, w, i, W, D, T)
<1> DEFINE n == Filled(d.dir[i])
           x == Freed(d, i, n)
           r == [c \in Cells |-> FF]
           e == [d.dir EXCEPT ![i] = r]
           X == {d.dir[i][NEXT]} \ {FF}
           S == d.sectors \ {d.dir[i][b] : b \in 1 .. n}
<1>1. /\ Dev(d) /\ Sound(d.dir, d.entries, d.sectors, {i}, W) /\ Counted(d) /\ d.dir \in Dirs
      /\ d.sectors \subseteq Sectors /\ i \in Entries
      /\ Marked(d.dir, Alive(d.dir), d.sectors) /\ Apart(d.dir, Alive(d.dir))
      /\ FF \notin d.sectors
      /\ \A p \in d.past : Fair(D, T, p.dir)
  BY GoodFacts, SoundFacts
<1>2. /\ curentry_max_sectors(d.dir[i]) \in Nat
      /\ \A c \in 1 .. curentry_max_sectors(d.dir[i]) : c \in Cells
  <2>1. d.dir \in Dirs /\ i \in Entries
    BY <1>1
  <2> QED BY <2>1, WidthCells
<1>3. /\ n \in Nat /\ n <= curentry_max_sectors(d.dir[i])
      /\ \A b \in 1 .. n : d.dir[i][b] # FF /\ b \in 1 .. curentry_max_sectors(d.dir[i])
  BY <1>2, FilledIs
<1>4. /\ \A b \in 1 .. n : d.dir[i][b] \in d.sectors
      /\ \A a, b \in 1 .. n : d.dir[i][a] = d.dir[i][b] => a = b
  <2>1. i \in Attached(d.dir, d.entries, {i})
    BY DEF Attached
  <2>2. \A b \in 1 .. n : b \in Cells /\ Holds(d.dir[i], b)
    BY <1>2, <1>3 DEF Holds
  <2> HIDE DEF n
  <2> QED BY <1>1, <2>1, <2>2 DEF Sound, Marked, Apart
<1> HIDE DEF n
<1>5. /\ Dev(x) /\ Counted(x) /\ x.dir = d.dir /\ x.past = d.past /\ x.entries = d.entries
      /\ x.sectors = S
  BY <1>1, <1>3, <1>4, FreedIs
<1>6. w = write_entry(x, i, r)
  BY Zenon DEF FreeEntry, Freed, Filled, n
<1> HIDE DEF x
<1>7. Writes(x, w, i, r)
  <2> HIDE DEF r
  <2> QED BY <1>5, <1>6, WriteEntry
<1>8. r \in [Cells -> Nat] /\ \A c \in Cells : r[c] = FF
  BY DEF FF
<1> HIDE DEF r
<1>9. /\ Sound(e, d.entries, S, X, W)
      /\ \A n1 \in Names : (d.dir[i][FLAGS] = 0 => n1 # d.dir[i][NAME]) => Kept(d.dir, e, n1)
  BY <1>1, <1>3, <1>8, EraseEntry
<1>10. \A n1 \in Names \ T : Kept(D, e, n1)
  <2> SUFFICES ASSUME NEW n1 \in Names \ T PROVE Kept(D, e, n1)
    OBVIOUS
  <2>1. Kept(D, d.dir, n1) /\ Kept(d.dir, e, n1)
    BY <1>9 DEF Good
  <2> HIDE DEF e
  <2> QED BY <2>1, KeptTrans
<1>11. ASSUME NEW k \in Cells PROVE Fair(D, T, [d.dir EXCEPT ![i] = Mixed(d.dir[i], r, k)])
  <2> DEFINE g == [d.dir EXCEPT ![i] = Mixed(d.dir[i], r, k)]
  <2>1. /\ g \in Dirs /\ Apart(g, Alive(g))
        /\ \A n1 \in Names : (d.dir[i][FLAGS] = 0 => n1 # d.dir[i][NAME]) => Kept(d.dir, g, n1)
    BY <1>1, <1>8, MixedErase
  <2> HIDE DEF g
  <2>2. ASSUME NEW n1 \in Names \ T PROVE Kept(D, g, n1)
    <3>1. Kept(D, d.dir, n1) /\ Kept(d.dir, g, n1)
      BY <2>1 DEF Good
    <3> QED BY <3>1, KeptTrans
  <2> QED BY <2>1, <2>2 DEF Fair, g
<1>12. ASSUME ~curentry_is_listentry(d.dir[i])
       PROVE  Fair(D, T, [d.dir EXCEPT ![i] = [Mixed(d.dir[i], r, Links) EXCEPT ![NAME] = Torn]])
  <2> DEFINE g == [d.dir EXCEPT ![i] = [Mixed(d.dir[i], r, Links) EXCEPT ![NAME] = Torn]]
  <2>1. d.dir[i][FLAGS] = 0
    BY <1>1, <1>12, RowFacts DEF curentry_is_listentry, EEFS_FLAG_LISTENTRY
  <2>2. /\ g \in Dirs /\ Apart(g, Alive(g))
        /\ \A n1 \in Names : n1 # d.dir[i][NAME] => Kept(d.dir, g, n1)
    BY <1>1, <1>8, <2>1, TornErase
  <2> HIDE DEF g
  <2>3. ASSUME NEW n1 \in Names \ T PROVE Kept(D, g, n1)
    <3>1. Kept(D, d.dir, n1) /\ Kept(d.dir, g, n1)
      BY <2>1, <2>2 DEF Good
    <3> QED BY <3>1, KeptTrans
  <2> QED BY <2>2, <2>3 DEF Fair, g
<1>13. \A p \in w.past : Fair(D, T, p.dir)
  <2> SUFFICES ASSUME NEW p \in w.past PROVE Fair(D, T, p.dir)
    OBVIOUS
  <2>1. \/ p \in x.past
        \/ \E k \in Cells : p.dir = [x.dir EXCEPT ![i] = Mixed(x.dir[i], r, k)]
        \/ /\ ~curentry_is_listentry(x.dir[i])
           /\ p.dir = [x.dir EXCEPT ![i] = [Mixed(x.dir[i], r, Links) EXCEPT ![NAME] = Torn]]
    BY <1>7, Zenon DEF Writes
  <2>2. CASE p \in x.past
    BY <1>1, <1>5, <2>2
  <2>3. CASE \E k \in Cells : p.dir = [x.dir EXCEPT ![i] = Mixed(x.dir[i], r, k)]
    BY <1>5, <1>11, <2>3
  <2>4. CASE /\ ~curentry_is_listentry(x.dir[i])
             /\ p.dir = [x.dir EXCEPT ![i] = [Mixed(x.dir[i], r, Links) EXCEPT ![NAME] = Torn]]
    BY <1>5, <1>12, <2>4
  <2> QED BY <2>1, <2>2, <2>3, <2>4, Zenon
<1>14. w.dir = e /\ Dev(w) /\ Counted(w) /\ w.sectors = S /\ w.entries = d.entries
  BY <1>5, <1>7 DEF Writes, Counted
<1> HIDE DEF e, S, X
<1>15. Good(w, X, W, D, T) /\ Good(w, {}, W, D, T)
  <2>1. Sound(e, d.entries, S, {}, W)
    BY <1>9, SoundLess
  <2> QED BY <1>9, <1>10, <1>13, <1>14, <2>1 DEF Good
<1> QED BY <1>14, <1>15, Zenon DEF Erases, e, S, X, r, n

\* The first entry of a file.
LEMMA FindIs ==
  ASSUME NEW d, d.dir \in Dirs, NEW name \in Names
  PROVE  \/ /\ find_entry(d, name) = FF
            /\ \A i \in Entries : ~Shows(d.dir, i, name)
         \/ find_entry(d, name) \in Entries /\ Shows(d.dir, find_entry(d, name), name)
<1> DEFINE found == {i \in Entries : /\ ~deleted(d.dir[i])
                                     /\ ~curentry_is_listentry(d.dir[i])
                                     /\ d.dir[i][NAME] = name}
<1>1. \A i \in Entries : i \in found <=> Shows(d.dir, i, name)
  <2> SUFFICES ASSUME NEW i \in Entries PROVE i \in found <=> Shows(d.dir, i, name)
    OBVIOUS
  <2>1. d.dir[i][FLAGS] \in {0, 2, FF}
    BY RowFacts
  <2> QED BY <2>1 DEF Shows, deleted, curentry_is_listentry, FF, EEFS_FLAG_LISTENTRY
<1>2. found \in SUBSET Nat /\ found \subseteq Entries
  <2>1. Entries \subseteq Nat
    BY Consts
  <2>2. found \subseteq Entries
    OBVIOUS
  <2> QED BY <2>1, <2>2
<1>3. find_entry(d, name) = IF found = {} THEN FF ELSE Min(found)
  BY DEF find_entry
<1> HIDE DEF found
<1>4. found # {} => Min(found) \in found
  BY <1>2, Smallest
<1> QED BY <1>1, <1>2, <1>3, <1>4

\* Rows have no gaps, and a used sector is that of a file.
Full(D, S) ==
  /\ \A i \in Alive(D), c \in Cells : Holds(D[i], c) => \A b \in 1 .. c : D[i][b] # FF
  /\ \A s \in S : \E i \in Alive(D), c \in Cells : Holds(D[i], c) /\ D[i][c] = s

LEMMA FullErase ==
  ASSUME NEW D \in Dirs, NEW S, Full(D, S), NEW i \in Entries,
         NEW r, \A c \in Cells : r[c] = FF, NEW e, e = [D EXCEPT ![i] = r]
  PROVE  Full(e, S \ {D[i][b] : b \in 1 .. Filled(D[i])})
<1>1. e[i] = r /\ \A j \in Entries : j # i => e[j] = D[j]
  BY DEF Dirs
<1>2. i \notin Alive(e) /\ \A j \in Entries : j # i => (j \in Alive(e) <=> j \in Alive(D))
  BY <1>1, Fields DEF Alive
<1>3. ASSUME i \in Alive(D), NEW c \in Cells, Holds(D[i], c) PROVE c \in 1 .. Filled(D[i])
  <2>1. curentry_max_sectors(D[i]) \in Nat
    BY RowFacts, Consts
  <2>2. c \in 1 .. curentry_max_sectors(D[i]) /\ \A b \in 1 .. c : D[i][b] # FF
    BY <1>3 DEF Holds, Full
  <2> QED BY <2>1, <2>2, FilledIs
<1>4. ASSUME NEW s \in S \ {D[i][b] : b \in 1 .. Filled(D[i])}
      PROVE  \E j \in Alive(e), c \in Cells : Holds(e[j], c) /\ e[j][c] = s
  <2>1. PICK j \in Alive(D), c \in Cells : Holds(D[j], c) /\ D[j][c] = s
    BY DEF Full
  <2>2. j # i
    BY <1>3, <2>1
  <2> QED BY <1>1, <1>2, <2>1, <2>2 DEF Alive
<1>5. \A j \in Alive(e), c \in Cells : Holds(e[j], c) => \A b \in 1 .. c : e[j][b] # FF
  <2> SUFFICES ASSUME NEW j \in Alive(e), NEW c \in Cells, Holds(e[j], c)
               PROVE  \A b \in 1 .. c : e[j][b] # FF
    OBVIOUS
  <2>1. j # i /\ j \in Alive(D) /\ e[j] = D[j]
    BY <1>1, <1>2 DEF Alive
  <2> QED BY <2>1 DEF Full
<1> QED BY <1>4, <1>5 DEF Full

DeleteTurn(r) ==
  IF r.i = FF THEN r
  ELSE [d |-> FreeEntry(r.d, r.i), i |-> r.d.dir[r.i][NEXT]]

\* The device after n turns of the outer loop.
Deleted(d, first, n) ==
  LET after[k \in 0 .. n] ==
        IF k = 0 THEN [d |-> d, i |-> first]
        ELSE LET r == after[k - 1]
             IN  IF r.i = FF THEN r
                 ELSE [d |-> FreeEntry(r.d, r.i), i |-> r.d.dir[r.i][NEXT]]
  IN  after[n]

Deletes(f, d, first, n) ==
  /\ f[0] = [d |-> d, i |-> first]
  /\ \A k \in 1 .. n : f[k] = DeleteTurn(f[k - 1])
  /\ Deleted(d, first, n) = f[n]

LEMMA DeleteUnfold ==
  ASSUME NEW d, NEW first, NEW n \in Nat
  PROVE  \E f : Deletes(f, d, first, n)
<1> DEFINE Start == [d |-> d, i |-> first]
           Body(f, m) == [k \in 0 .. m |-> IF k = 0 THEN Start ELSE DeleteTurn(f[k - 1])]
           S == {m \in Nat : \E f : f = Body(f, m)}
           after == CHOOSE f : f = Body(f, n)
<1> HIDE DEF Start
<1>1. 0 \in S
  <2> DEFINE g == [k \in 0 .. 0 |-> Start]
  <2>1. g = Body(g, 0)
    OBVIOUS
  <2> QED BY <2>1
<1>2. ASSUME NEW m \in Nat, m \in S PROVE m + 1 \in S
  <2>1. PICK f : f = Body(f, m)
    BY <1>2
  <2> DEFINE g == [k \in 0 .. m + 1 |-> IF k = m + 1 THEN DeleteTurn(f[m]) ELSE f[k]]
  <2>2. g = Body(g, m + 1)
    <3>1. ASSUME NEW k \in 0 .. m + 1
          PROVE g[k] = IF k = 0 THEN Start ELSE DeleteTurn(g[k - 1])
      BY <2>1
    <3> QED BY <3>1
  <2>3. m + 1 \in Nat
    OBVIOUS
  <2> QED BY <2>2, <2>3, Zenon
<1>3. n \in S
  <2> HIDE DEF S
  <2> QED BY <1>1, <1>2, Counting
<1>4. after = Body(after, n)
  BY <1>3, Zenon
<1>5. Deleted(d, first, n) = after[n]
  BY Zenon DEF Deleted, DeleteTurn, Start
<1> HIDE DEF after
<1>6. after[0] = Start /\ \A k \in 1 .. n : after[k] = DeleteTurn(after[k - 1])
  <2>1. \A k \in 0 .. n : after[k] = IF k = 0 THEN Start ELSE DeleteTurn(after[k - 1])
    BY <1>4
  <2> QED BY <2>1
<1> QED BY <1>5, <1>6, Zenon DEF Deletes, Start


\* The outer loop is at entry r.i, or has come to the end of the chain.
Walk(r, E, W, D, T) ==
  /\ r.i \in E \cup {FF} /\ r.d.entries = E
  /\ Good(r.d, {r.i} \ {FF}, W, D, T)
  /\ r.i # FF /\ r.d.dir[r.i][FLAGS] = 0 /\ r.d.dir[r.i][NAME] \in Names
       => r.d.dir[r.i][NAME] \in T

Wiped == [c \in Cells |-> FF]

LEMMA WipedIs == Wiped \in [Cells -> Nat] /\ \A c \in Cells : Wiped[c] = FF
BY Consts DEF Wiped

\* A turn erases entry r.i or does nothing.
Turns(r, w) ==
  \/ r.i = FF /\ w = r
  \/ /\ r.i # FF /\ w.i = r.d.dir[r.i][NEXT] /\ w.d.dir = [r.d.dir EXCEPT ![r.i] = Wiped]
     /\ w.d.sectors = r.d.sectors \ {r.d.dir[r.i][b] : b \in 1 .. Filled(r.d.dir[r.i])}

LEMMA WalkTurn ==
  ASSUME NEW r, NEW E, NEW W, NEW D, NEW T, Walk(r, E, W, D, T),
         NEW w, w = DeleteTurn(r)
  PROVE  Walk(w, E, W, D, T) /\ Turns(r, w)
<1>1. CASE r.i = FF
  BY <1>1 DEF DeleteTurn, Turns
<1>2. CASE r.i # FF
  <2> DEFINE x == FreeEntry(r.d, r.i)
  <2>1. r.i \in r.d.entries /\ {r.i} \ {FF} = {r.i} /\ Good(r.d, {r.i}, W, D, T)
    BY <1>2 DEF Walk
  <2>0. /\ x = FreeEntry(r.d, r.i)
        /\ r.d.dir[r.i][FLAGS] = 0 /\ r.d.dir[r.i][NAME] \in Names => r.d.dir[r.i][NAME] \in T
    BY <1>2 DEF Walk
  <2> HIDE DEF x
  <2>2. /\ Good(x, {r.d.dir[r.i][NEXT]} \ {FF}, W, D, T)
        /\ x.dir = [r.d.dir EXCEPT ![r.i] = [c \in Cells |-> FF]] /\ x.entries = r.d.entries
        /\ x.sectors = r.d.sectors \ {r.d.dir[r.i][b] : b \in 1 .. Filled(r.d.dir[r.i])}
    <3>1. Erases(r.d, x, r.i, W, D, T)
      BY <2>0, <2>1, FreeGood
    <3> QED BY <3>1 DEF Erases
  <2>3. w.d = x /\ w.i = r.d.dir[r.i][NEXT]
    BY <1>2, <2>0 DEF DeleteTurn
  <2>4. Turns(r, w)
    BY <1>2, <2>2, <2>3 DEF Turns, Wiped
  <2>5. /\ r.d.dir \in Dirs /\ Linked(r.d.dir, E, W) /\ E \subseteq Entries
        /\ r.i \in E /\ r.d.entries = E
    BY <2>1, GoodFacts DEF Walk, Sound
  <2>6. w.i # FF => w.i \in E /\ r.d.dir[w.i][FLAGS] # 0
    BY <2>3, <2>5 DEF Linked
  <2>7. w.i # FF => x.dir[w.i][FLAGS] # 0
    <3>1. FF # 0
      BY Consts
    <3>2. Wiped[FLAGS] = FF
      BY WipedIs, Fields
    <3> QED BY <2>2, <2>5, <2>6, <3>1, <3>2 DEF Dirs, Wiped
  <2> QED BY <2>2, <2>3, <2>4, <2>5, <2>6, <2>7 DEF Walk
<1> QED BY <1>1, <1>2

\* Rows C that no link from outside leads to.
Before(D, E, C) == C \subseteq E /\ \A j \in E : D[j][NEXT] \in C => j \in C

\* The loop has erased some rows of D, none of C.
Clear(r, D, C) ==
  r.i \notin C /\ \A j \in Entries : r.d.dir[j] = D[j] \/ (j \notin C /\ r.d.dir[j] = Wiped)

LEMMA ClearTurn ==
  ASSUME NEW r, NEW w, NEW E, NEW W, NEW D, NEW T, Walk(r, E, W, D, T), Turns(r, w),
         NEW B, NEW C, Before(B, E, C), Clear(r, B, C)
  PROVE  Clear(w, B, C)
<1>1. CASE r.i # FF
  <2>1. /\ r.d.dir \in Dirs /\ E \subseteq Entries /\ r.i \in E /\ FF \notin C
    BY <1>1, GoodFacts, FFOutside DEF Walk, Before
  <2>2. /\ w.i = r.d.dir[r.i][NEXT] /\ w.d.dir = [r.d.dir EXCEPT ![r.i] = Wiped]
    BY <1>1 DEF Turns
  <2>3. Wiped[NEXT] = FF
    BY WipedIs, Fields
  <2>4. w.i \notin C
    BY <2>1, <2>2, <2>3 DEF Clear, Before
  <2>5. \A j \in Entries : w.d.dir[j] = IF j = r.i THEN Wiped ELSE r.d.dir[j]
    BY <2>1, <2>2 DEF Dirs
  <2> QED BY <2>4, <2>5 DEF Clear
<1> QED BY <1>1 DEF Turns

LEMMA FullTurn ==
  ASSUME NEW r, NEW w, NEW E, NEW W, NEW D, NEW T, Walk(r, E, W, D, T), Turns(r, w),
         Full(r.d.dir, r.d.sectors)
  PROVE  Full(w.d.dir, w.d.sectors)
<1>1. CASE r.i # FF
  <2>1. /\ r.d.dir \in Dirs /\ E \subseteq Entries /\ r.i \in E
    BY <1>1, GoodFacts DEF Walk
  <2> QED BY <1>1, <2>1, WipedIs, FullErase DEF Turns
<1> QED BY <1>1 DEF Turns

\* eepromfs_delete
Deletion(d, w, first) ==
  /\ w.entries = d.entries /\ w.dir[first] = Wiped
  /\ Full(d.dir, d.sectors) => Full(w.dir, w.sectors)
  /\ \A j \in Entries : w.dir[j] = d.dir[j] \/ w.dir[j] = Wiped
  /\ \A C \in SUBSET d.entries :
       Before(d.dir, d.entries, C) /\ first \notin C => \A j \in C : w.dir[j] = d.dir[j]

LEMMA DeleteGood ==
  ASSUME NEW d, NEW W, NEW D, NEW T, Good(d, {}, W, D, T),
         NEW name \in T, NEW first \in Entries, Shows(d.dir, first, name),
         NEW w, w = Deleted(d, first, ENTRIES).d
  PROVE  Good(w, {}, W, D, T) /\ Deletion(d, w, first)
<1> DEFINE E == d.entries
<1>1. /\ d.dir \in Dirs /\ E \subseteq Entries /\ ENTRIES \in Nat /\ ENTRIES >= 1
      /\ Sound(d.dir, E, d.sectors, {}, W)
  BY GoodFacts, EepromFsAssumption
<1>2. PICK f : Deletes(f, d, first, ENTRIES)
  BY <1>1, DeleteUnfold
<1>3. /\ f[0] = [d |-> d, i |-> first]
      /\ \A k \in 1 .. ENTRIES : f[k] = DeleteTurn(f[k - 1])
      /\ w = f[ENTRIES].d
  BY <1>2, Zenon DEF Deletes
<1>4. first # FF /\ first \in E /\ d.dir[first][FLAGS] # FF /\ d.dir[first][FLAGS] = 0
  <2>1. 0 # FF
    BY Consts
  <2> QED BY <1>1, <2>1, FFOutside DEF Shows, Sound, Alive
<1>5. Walk(f[0], E, W, D, T)
  <2>1. Attached(d.dir, E, {first}) = Attached(d.dir, E, {})
    BY <1>4 DEF Attached
  <2>2. Sound(d.dir, E, d.sectors, {first}, W)
    BY <1>1, <1>4, <2>1 DEF Sound
  <2>3. Good(d, {first}, W, D, T)
    BY <2>2 DEF Good
  <2>4. {first} \ {FF} = {first} /\ f[0].i = first /\ f[0].d = d
    BY <1>3, <1>4
  <2> QED BY <1>4, <2>3, <2>4 DEF Walk, Shows
<1> DEFINE Safe(k) ==
             /\ Walk(f[k], E, W, D, T)
             /\ Full(d.dir, d.sectors) => Full(f[k].d.dir, f[k].d.sectors)
             /\ \A C \in SUBSET E :
                  Before(d.dir, E, C) /\ first \notin C => Clear(f[k], d.dir, C)
             /\ (k = 0 /\ f[k].i = first) \/ (k > 0 /\ f[k].d.dir[first] = Wiped)
           S == {k \in Nat : k <= ENTRIES => Safe(k)}
<1>6. 0 \in S
  <2>1. f[0].i = first /\ f[0].d = d
    BY <1>3
  <2>2. \A C \in SUBSET E : first \notin C => Clear(f[0], d.dir, C)
    BY <2>1 DEF Clear
  <2>3. Safe(0)
    <3>1. 0 = 0 /\ f[0].i = first
      BY <2>1
    <3>2. Full(d.dir, d.sectors) => Full(f[0].d.dir, f[0].d.sectors)
      BY <2>1
    <3> QED BY <1>5, <2>2, <3>1, <3>2, Zenon
  <2> HIDE DEF Safe
  <2> QED BY <2>3
<1>7. ASSUME NEW k \in Nat, k \in S PROVE k + 1 \in S
  <2> SUFFICES ASSUME k + 1 <= ENTRIES PROVE Safe(k + 1)
    OBVIOUS
  <2>1. Safe(k)
    BY <1>1, <1>7
  <2>2. f[k + 1] = DeleteTurn(f[k])
    BY <1>1, <1>3
  <2>3. Walk(f[k + 1], E, W, D, T) /\ Turns(f[k], f[k + 1])
    BY <2>1, <2>2, WalkTurn
  <2>4. Full(d.dir, d.sectors) => Full(f[k + 1].d.dir, f[k + 1].d.sectors)
    BY <2>1, <2>3, FullTurn
  <2>5. \A C \in SUBSET E :
          Before(d.dir, E, C) /\ first \notin C => Clear(f[k + 1], d.dir, C)
    BY <2>1, <2>3, ClearTurn
  <2>6. f[k + 1].d.dir[first] = Wiped
    <3>1. f[k].d.dir \in Dirs
      BY <2>1, GoodFacts DEF Walk
    <3> QED BY <1>4, <2>1, <2>3, <3>1 DEF Turns, Dirs
  <2> QED BY <2>3, <2>4, <2>5, <2>6
<1>8. Safe(ENTRIES)
  <2>1. ENTRIES \in S
    <3> HIDE DEF S
    <3> QED BY <1>1, <1>6, <1>7, Counting
  <2> QED BY <1>1, <2>1
<1>9. Walk(f[ENTRIES], E, W, D, T) /\ w.dir[first] = Wiped
  BY <1>1, <1>3, <1>8
<1>10. Full(d.dir, d.sectors) => Full(w.dir, w.sectors)
  BY <1>3, <1>8
<1>11. \A C \in SUBSET E :
         Before(d.dir, E, C) /\ first \notin C =>
           \A j \in Entries : w.dir[j] = d.dir[j] \/ (j \notin C /\ w.dir[j] = Wiped)
  BY <1>3, <1>8 DEF Clear
<1>12. Before(d.dir, E, {}) /\ {} \in SUBSET E
  BY DEF Before
<1>13. Good(w, {}, W, D, T) /\ w.entries = E
  BY <1>3, <1>9, SoundLess DEF Walk, Good
<1> QED BY <1>1, <1>9, <1>10, <1>11, <1>12, <1>13 DEF Deletion

-----------------------------------------------------------------------------
(* Writing to a file.                                                      *)

LEMMA WidthNat ==
  ASSUME NEW D \in Dirs, NEW i \in Entries
  PROVE  curentry_max_sectors(D[i]) \in Nat
<1>1. Links \in Nat
  BY Consts
<1> QED BY <1>1, RowFacts

LEMMA ResultIs ==
  ASSUME NEW d, NEW h, NEW err
  PROVE  Result(d, h, err).d = d /\ Result(d, h, err).h = h /\ Result(d, h, err).err = err
BY DEF Result

\* The current entry of handle h is filled up to its index.
Tip(D, h) ==
  /\ D[h.cur][FLAGS] # FF
  /\ \A c \in 1 .. curentry_max_sectors(D[h.cur]) : D[h.cur][c] # FF <=> c <= h.sindex + 1

\* C are the entries of the open file, or more, but of no other file.
Chain(D, E, h, C) ==
  /\ Before(D, E, C) /\ h.entry \in C /\ h.cur \in C
  /\ \A j \in C : D[j][FLAGS] = 0 => j = h.entry

Neat(d, h) ==
  /\ Full(d.dir, d.sectors) /\ Tip(d.dir, h)
  /\ \E C : Chain(d.dir, d.entries, h, C)

\* A sector is noted in the next cell.
LEMMA NoteNeat ==
  ASSUME NEW d, NEW h, Neat(d, h), d.dir \in Dirs, d.entries \subseteq Entries,
         h.cur \in Entries, h.sindex \in Int,
         h.sindex >= -1, h.sindex + 1 < curentry_max_sectors(d.dir[h.cur]),
         NEW s \in Sectors, NEW w, NEW k,
         w.dir = [d.dir EXCEPT ![h.cur] = [d.dir[h.cur] EXCEPT ![h.sindex + 2] = s]],
         w.sectors = d.sectors \cup {s}, w.entries = d.entries,
         k.cur = h.cur, k.entry = h.entry, k.sindex = h.sindex + 1
  PROVE  Neat(w, k)
<1> DEFINE D == d.dir
           i == h.cur
           c == h.sindex + 2
           e == [D EXCEPT ![i] = [D[i] EXCEPT ![c] = s]]
           m == curentry_max_sectors(D[i])
<1>1. /\ D[i] \in [Cells -> Nat] /\ D[i][FLAGS] \in {0, 2, FF}
      /\ m = IF D[i][FLAGS] = 0 THEN Links ELSE Links + 2
  BY RowFacts
<1>2. m \in Nat /\ c \in 1 .. m /\ c \in Nat
  <2>1. m \in Nat
    BY <1>1, Consts
  <2> HIDE DEF m
  <2>2. h.sindex + 1 < m
    BY DEF m
  <2> QED BY <2>1, <2>2
<1>3. c \in Cells /\ c # NEXT /\ c # FLAGS
  BY <1>1, <1>2, Fields
<1>4. /\ e[i][c] = s /\ \A b \in Cells : b # c => e[i][b] = D[i][b]
      /\ \A j \in Entries : j # i => e[j] = D[j]
  BY <1>1, <1>3 DEF Dirs
<1> HIDE DEF e
<1>5. \A j \in Entries : e[j][FLAGS] = D[j][FLAGS] /\ e[j][NEXT] = D[j][NEXT]
  BY <1>3, <1>4, Fields
<1>6. Alive(e) = Alive(D) /\ i \in Alive(D)
  BY <1>5 DEF Alive, Neat, Tip
<1>7. curentry_max_sectors(e[i]) = m
  BY <1>1, <1>5, Width DEF EEFS_FLAG_LISTENTRY
<1>8. \A b \in 1 .. m : b \in Cells /\ b \in Nat /\ (D[i][b] # FF <=> b < c)
  <2>1. \A b \in 1 .. m : b \in Cells
    BY <1>1, Fields
  <2>2. \A b \in 1 .. m : D[i][b] # FF <=> b <= h.sindex + 1
    BY DEF Neat, Tip
  <2> QED BY <1>2, <2>1, <2>2
<1>9. s # FF
  BY FFOutside
<1>10. \A b \in 1 .. m : e[i][b] # FF <=> b <= c
  BY <1>2, <1>4, <1>8, <1>9
<1>11. Tip(e, k)
  <2>1. k.sindex + 1 = c /\ k.cur = i
    OBVIOUS
  <2>2. e[i][FLAGS] # FF
    BY <1>5 DEF Neat, Tip
  <2> QED BY <1>7, <1>10, <2>1, <2>2 DEF Tip
<1>12. \A j \in Alive(e), a \in Cells : Holds(e[j], a) => \A b \in 1 .. a : e[j][b] # FF
  <2> SUFFICES ASSUME NEW j \in Alive(e), NEW a \in Cells, Holds(e[j], a), NEW b \in 1 .. a
               PROVE  e[j][b] # FF
    OBVIOUS
  <2>1. CASE j = i
    <3>1. a \in 1 .. m /\ a <= c
      BY <1>7, <1>10, <2>1 DEF Holds
    <3>2. b \in 1 .. m /\ b <= c
      BY <1>2, <3>1
    <3> QED BY <1>10, <2>1, <3>2
  <2>2. CASE j # i
    <3>1. j \in Alive(D) /\ e[j] = D[j]
      BY <1>4, <1>6, <2>2 DEF Alive
    <3> QED BY <3>1 DEF Neat, Full
  <2> QED BY <2>1, <2>2
<1>13. ASSUME NEW t \in d.sectors \cup {s}
       PROVE  \E j \in Alive(e), a \in Cells : Holds(e[j], a) /\ e[j][a] = t
  <2>1. CASE t = s
    <3>1. i \in Alive(e) /\ Holds(e[i], c) /\ e[i][c] = t
      BY <1>2, <1>4, <1>6, <1>7, <1>9, <2>1 DEF Holds
    <3> QED BY <1>3, <3>1
  <2>2. CASE t \in d.sectors
    <3>1. PICK j \in Alive(D), a \in Cells : Holds(D[j], a) /\ D[j][a] = t
      BY <2>2 DEF Neat, Full
    <3>2. j \in Entries /\ j \in Alive(e)
      BY <1>6, <3>1 DEF Alive
    <3>3. CASE j = i
      <4>1. a \in 1 .. m /\ a # c
        BY <1>2, <1>8, <3>1, <3>3 DEF Holds
      <4>2. e[i][a] = D[i][a]
        BY <1>4, <3>1, <4>1
      <4> QED BY <1>7, <3>1, <3>2, <3>3, <4>1, <4>2 DEF Holds
    <3>4. CASE j # i
      BY <1>4, <3>1, <3>2, <3>4
    <3> QED BY <3>3, <3>4
  <2> QED BY <2>1, <2>2
<1>14. Full(e, w.sectors)
  BY <1>12, <1>13 DEF Full
<1>15. \E C : Chain(e, w.entries, k, C)
  <2>1. PICK C : Chain(D, d.entries, h, C)
    BY DEF Neat
  <2>2. Chain(e, d.entries, k, C)
    <3>1. C \subseteq d.entries /\ h.entry \in C /\ h.cur \in C
      BY <2>1 DEF Chain, Before
    <3>2. \A j \in d.entries : e[j][FLAGS] = D[j][FLAGS] /\ e[j][NEXT] = D[j][NEXT]
      BY <1>5
    <3>3. Before(e, d.entries, C)
      BY <2>1, <3>2 DEF Chain, Before
    <3>4. \A j \in C : e[j][FLAGS] = 0 => j = h.entry
      BY <2>1, <3>1, <3>2 DEF Chain
    <3> QED BY <3>1, <3>3, <3>4 DEF Chain
  <2> QED BY <2>2
<1> QED BY <1>11, <1>14, <1>15 DEF Neat, e

\* A sector is noted in a new entry at the end of the chain.
LEMMA LinkNeat ==
  ASSUME NEW d, NEW h, Neat(d, h), NEW W, Sound(d.dir, d.entries, d.sectors, {}, W),
         h.cur \in d.entries, NEW s \in Sectors, NEW l \in Entries \ d.entries, NEW w, NEW k,
         w.dir = [[d.dir EXCEPT ![h.cur] = [d.dir[h.cur] EXCEPT ![NEXT] = l]]
                    EXCEPT ![l] = ListRow(s)],
         w.sectors = d.sectors \cup {s}, w.entries = d.entries \cup {l},
         k.cur = l, k.entry = h.entry, k.sindex = 0
  PROVE  Neat(w, k)
<1> DEFINE D == d.dir
           E == d.entries
           i == h.cur
           r == ListRow(s)
           e == [[D EXCEPT ![i] = [D[i] EXCEPT ![NEXT] = l]] EXCEPT ![l] = r]
<1>1. /\ D \in Dirs /\ E \subseteq Entries /\ i \in Entries /\ Alive(D) \subseteq E
      /\ Linked(D, E, W) /\ l # FF /\ l # i /\ l \notin E /\ l \in Entries
  BY FFOutside DEF Sound
<1>2. /\ D[i] \in [Cells -> Nat] /\ D[i][FLAGS] \in {0, 2, FF}
      /\ \A j \in Entries : D[j][FLAGS] \in {0, 2, FF}
  BY <1>1, RowFacts
<1>3. /\ e[l] = r /\ e[i][NEXT] = l /\ \A b \in Cells : b # NEXT => e[i][b] = D[i][b]
      /\ \A j \in Entries : j # i /\ j # l => e[j] = D[j]
  BY <1>1, <1>2, Fields DEF Dirs
<1>4. /\ r \in [Cells -> Nat] /\ r[1] = s /\ \A c \in 2 .. Links : r[c] = FF
      /\ r[NEXT] = FF /\ r[FLAGS] = 2 /\ r[NAME] = FF /\ r[SIZE] = FF
  BY ListRowIs
<1> HIDE DEF e, r
<1>5. 2 # FF /\ s # FF /\ FLAGS # NEXT /\ FLAGS \in Cells
  BY Consts
<1>6. \A j \in E : e[j][FLAGS] = D[j][FLAGS] /\ (j # i => e[j] = D[j])
  BY <1>1, <1>3, <1>5
<1>7. Alive(e) = Alive(D) \cup {l}
  BY <1>1, <1>3, <1>4, <1>5, <1>6 DEF Alive
<1>8. curentry_max_sectors(r) = Links + 2
  <2>1. r[FLAGS] \in {0, EEFS_FLAG_LISTENTRY, FF} /\ r[FLAGS] # 0
    BY <1>4 DEF EEFS_FLAG_LISTENTRY
  <2> QED BY <2>1, Width
<1>9. \A c \in 1 .. Links + 2 : r[c] # FF <=> c <= 1
  <2> SUFFICES ASSUME NEW c \in 1 .. Links + 2 PROVE r[c] # FF <=> c <= 1
    OBVIOUS
  <2>1. c = 1 \/ c \in 2 .. Links \/ c = NAME \/ c = SIZE
    BY Consts
  <2>2. NAME > 1 /\ SIZE > 1 /\ c \in Nat
    BY Consts
  <2> QED BY <1>4, <1>5, <2>1, <2>2
<1>10. Tip(e, k)
  <2>1. k.sindex + 1 = 1
    OBVIOUS
  <2> QED BY <1>3, <1>4, <1>5, <1>8, <1>9, <2>1 DEF Tip
<1>11. \A j \in E, a \in Cells : /\ Holds(e[j], a) <=> Holds(D[j], a)
                                 /\ Holds(D[j], a) => \A b \in 1 .. a : e[j][b] = D[j][b]
  <2> SUFFICES ASSUME NEW a \in Cells
               PROVE  /\ Holds(e[i], a) <=> Holds(D[i], a)
                      /\ Holds(D[i], a) => \A b \in 1 .. a : e[i][b] = D[i][b]
    BY <1>6
  <2>1. curentry_max_sectors(e[i]) = curentry_max_sectors(D[i])
    BY <1>2, <1>6, Width DEF EEFS_FLAG_LISTENTRY
  <2>2. \A b \in 1 .. curentry_max_sectors(D[i]) : b \in Cells /\ b # NEXT
    BY <1>1, RowFacts, Fields
  <2>3. curentry_max_sectors(D[i]) \in Nat
    BY <1>1, WidthNat
  <2>4. \A b \in 1 .. curentry_max_sectors(D[i]) : e[i][b] = D[i][b]
    BY <1>3, <2>2
  <2>5. Holds(e[i], a) <=> Holds(D[i], a)
    BY <2>1, <2>4 DEF Holds
  <2>6. ASSUME Holds(D[i], a), NEW b \in 1 .. a PROVE e[i][b] = D[i][b]
    <3>1. a \in 1 .. curentry_max_sectors(D[i])
      BY <2>6 DEF Holds
    <3>2. b \in 1 .. curentry_max_sectors(D[i])
      BY <2>3, <3>1
    <3> QED BY <2>4, <3>2
  <2> QED BY <2>5, <2>6
<1>12. \A j \in Alive(e), a \in Cells : Holds(e[j], a) => \A b \in 1 .. a : e[j][b] # FF
  <2> SUFFICES ASSUME NEW j \in Alive(e), NEW a \in Cells, Holds(e[j], a), NEW b \in 1 .. a
               PROVE  e[j][b] # FF
    OBVIOUS
  <2>1. CASE j = l
    <3>1. a \in 1 .. Links + 2 /\ a <= 1
      BY <1>3, <1>8, <1>9, <2>1 DEF Holds
    <3>2. b = 1
      BY <3>1
    <3> QED BY <1>3, <1>4, <1>5, <2>1, <3>2
  <2>2. CASE j # l
    <3>1. j \in Alive(D) /\ j \in E
      BY <1>1, <1>7, <2>2
    <3> QED BY <1>11, <3>1 DEF Neat, Full
  <2> QED BY <2>1, <2>2
<1>13. ASSUME NEW t \in d.sectors \cup {s}
       PROVE  \E j \in Alive(e), a \in Cells : Holds(e[j], a) /\ e[j][a] = t
  <2>1. CASE t = s
    <3>1. 1 \in 1 .. Links + 2 /\ 1 \in Cells
      BY Consts
    <3>2. l \in Alive(e) /\ Holds(e[l], 1) /\ e[l][1] = t
      BY <1>3, <1>4, <1>5, <1>7, <1>8, <2>1, <3>1 DEF Holds
    <3> QED BY <3>1, <3>2
  <2>2. CASE t \in d.sectors
    <3>1. PICK j \in Alive(D), a \in Cells : Holds(D[j], a) /\ D[j][a] = t
      BY <2>2 DEF Neat, Full
    <3>2. j \in E /\ j \in Alive(e) /\ a \in 1 .. a
      BY <1>1, <1>7, <3>1, Consts
    <3> QED BY <1>11, <3>1, <3>2
  <2> QED BY <2>1, <2>2
<1>14. Full(e, w.sectors)
  BY <1>12, <1>13 DEF Full
<1>15. \E C : Chain(e, w.entries, k, C)
  <2>1. PICK C : Chain(D, E, h, C)
    BY DEF Neat
  <2>2. C \subseteq E /\ h.entry \in C /\ i \in C
    BY <2>1 DEF Chain, Before
  <2>3. \A j \in E \cup {l} : e[j][NEXT] \in C \cup {l} => j \in C \cup {l}
    <3> SUFFICES ASSUME NEW j \in E, j # i, e[j][NEXT] \in C \cup {l} PROVE j \in C
      BY <2>2
    <3>1. e[j][NEXT] = D[j][NEXT]
      BY <1>6
    <3>2. D[j][NEXT] # l
      BY <1>1 DEF Linked
    <3> QED BY <2>1, <3>1, <3>2 DEF Chain, Before
  <2>4. \A j \in C \cup {l} : e[j][FLAGS] = 0 => j = h.entry
    BY <1>3, <1>4, <1>6, <2>1, <2>2 DEF Chain
  <2>5. Chain(e, E \cup {l}, k, C \cup {l})
    BY <2>2, <2>3, <2>4 DEF Chain, Before
  <2> QED BY <2>5
<1> QED BY <1>10, <1>14, <1>15 DEF Neat, e, r

-----------------------------------------------------------------------------
\* A handle at another sector, in the same or in another entry.
AtCell(h, s, n) == [h EXCEPT !.sector = s, !.sindex = n]
AtEntry(h, s, l, n) == [h EXCEPT !.sector = s, !.cur = l, !.sindex = n]

\* The four outcomes of AllocateSector.
Fails(d, h, a) ==
  /\ a.err \in {"DISKFULL", "DIRFULL"} /\ a.d = d
  /\ \/ a.h = h
     \/ \E s \in Sectors : a.h = AtCell(h, s, h.sindex + 1)

Notes(d, h, a) ==
  /\ a.err = "OK" /\ h.sindex + 1 < curentry_max_sectors(d.dir[h.cur])
  /\ \E s \in Sectors \ d.sectors :
       /\ a.h = AtCell(h, s, h.sindex + 1)
       /\ a.d = NoteDev(d, h.cur, h.sindex + 2, s)

Extends(d, h, a) ==
  /\ a.err = "OK"
  /\ \E s \in Sectors \ d.sectors, l \in Entries \ d.entries :
       /\ a.h = AtEntry(h, s, l, 0)
       /\ a.d = LinkDev(d, h.cur, l, s)

LEMMA AllocateIs ==
  ASSUME NEW d, NEW h \in Handles, NEW stray \in BOOLEAN, d.dir \in Dirs, h.cur \in Entries,
         NEW a, a = AllocateSector(d, h, stray)
  PROVE  Fails(d, h, a) \/ Notes(d, h, a) \/ Extends(d, h, a)
<1> DEFINE sector == next_free_sector(d, h.sector, stray)
           entry  == d.dir[h.cur]
           h1     == [h EXCEPT !.sector = sector, !.sindex = @ + 1]
           full   == h1.sindex >= curentry_max_sectors(entry)
           list   == next_free_entry(d, h.cur)
           linked == write_entry([d EXCEPT !.entries = @ \cup {list}], h.cur,
                                 [entry EXCEPT ![NEXT] = list])
           blank  == [c \in Cells |-> IF c = FLAGS THEN EEFS_FLAG_LISTENTRY ELSE FF]
           Note(x, index, e, hh) ==
             Result(write_entry(mark_sector(x, sector, TRUE), index,
                                [e EXCEPT ![hh.sindex + 1] = sector]), hh, "OK")
           h2 == [h1 EXCEPT !.cur = list, !.sindex = 0]
<1>1. a = IF sector = FF THEN Result(d, h, "DISKFULL")
          ELSE IF ~full THEN Note(d, h.cur, entry, h1)
          ELSE IF list = FF THEN Result(d, h1, "DIRFULL")
          ELSE Note(linked, list, blank, h2)
  BY Zenon DEF AllocateSector
<1>2. sector = FF \/ sector \in Sectors \ d.sectors
  <2>1. 0 \in Int /\ h.sector \in Int /\ SECTOR_COUNT \in Nat
    BY Consts DEF Handles
  <2>2. \A x \in Int : NextFree(d.sectors, x, SECTOR_COUNT) = FF
                       \/ NextFree(d.sectors, x, SECTOR_COUNT) \in Sectors \ d.sectors
    BY <2>1, NextFreeIs DEF Sectors
  <2> QED BY <2>1, <2>2 DEF next_free_sector
<1>3. list = FF \/ list \in Entries \ d.entries
  <2>1. h.cur \in Int /\ ENTRIES \in Nat
    BY Consts DEF Handles
  <2> QED BY <2>1, NextFreeIs DEF next_free_entry, Entries
<1>4. /\ h1 = AtCell(h, sector, h.sindex + 1)
      /\ h1.sindex = h.sindex + 1 /\ h.sindex \in Int
      /\ h2 = AtEntry(h, sector, list, 0) /\ h2.sindex = 0
  <2> HIDE DEF sector, list
  <2> QED BY DEF Handles, AtCell, AtEntry
<1>5. curentry_max_sectors(entry) \in Nat
  BY WidthNat
<1> HIDE DEF sector, list
<1>6. CASE sector = FF
  <2>1. a = Result(d, h, "DISKFULL")
    BY <1>1, <1>6
  <2> QED BY <2>1 DEF Fails, Result
<1>7. CASE sector # FF /\ ~full
  <2>1. a = Note(d, h.cur, entry, h1)
    BY <1>1, <1>7, Zenon
  <2>2. h1.sindex + 1 = h.sindex + 2
    BY <1>4
  <2>3. /\ a.err = "OK" /\ a.h = h1
        /\ a.d = NoteDev(d, h.cur, h.sindex + 2, sector)
    <3> DEFINE x == write_entry(mark_sector(d, sector, TRUE), h.cur,
                                [d.dir[h.cur] EXCEPT ![h1.sindex + 1] = sector])
    <3>1. a = Result(x, h1, "OK")
      BY <2>1
    <3>2. a.d = x /\ a.h = h1 /\ a.err = "OK"
      <4> HIDE DEF x, h1
      <4> QED BY <3>1, ResultIs
    <3> QED BY <2>2, <3>2, Zenon DEF NoteDev
  <2>4. h.sindex + 1 < curentry_max_sectors(d.dir[h.cur])
    BY <1>4, <1>5, <1>7
  <2>5. sector \in Sectors \ d.sectors
    BY <1>2, <1>7
  <2> QED BY <1>4, <2>3, <2>4, <2>5, Zenon DEF Notes
<1>8. CASE sector # FF /\ full /\ list = FF
  <2>1. a = Result(d, h1, "DIRFULL")
    BY <1>1, <1>8, Zenon
  <2>2. a.err = "DIRFULL" /\ a.h = h1 /\ a.d = d /\ sector \in Sectors
    BY <1>2, <1>8, <2>1 DEF Result
  <2> QED BY <1>4, <2>2 DEF Fails
<1>9. CASE sector # FF /\ full /\ list # FF
  <2>1. a = Note(linked, list, blank, h2)
    BY <1>1, <1>9, Zenon
  <2>2. h2.sindex + 1 = 1
    BY <1>4
  <2>4. /\ a.err = "OK" /\ a.h = h2
        /\ a.d = LinkDev(d, h.cur, list, sector)
    <3> DEFINE x == write_entry(mark_sector(linked, sector, TRUE), list,
                                [blank EXCEPT ![h2.sindex + 1] = sector])
    <3>1. a = Result(x, h2, "OK")
      BY <2>1
    <3>3. a.d = x /\ a.h = h2 /\ a.err = "OK"
      <4> HIDE DEF x, h2
      <4> QED BY <3>1, ResultIs
    <3>2. [blank EXCEPT ![h2.sindex + 1] = sector] = ListRow(sector)
      BY <2>2, Zenon DEF ListRow
    <3> QED BY <3>2, <3>3, Zenon DEF LinkDev
  <2> QED BY <1>2, <1>3, <1>4, <1>9, <2>4, Zenon DEF Extends
<1> QED BY <1>6, <1>7, <1>8, <1>9

-----------------------------------------------------------------------------
\* Handle k is for the same file as h.
Same(h, k) ==
  /\ k \in Handles /\ k.mode = h.mode /\ k.name = h.name /\ k.tag = h.tag
  /\ k.entry = h.entry /\ k.grown = h.grown

\* Device d and handle h have become those of r.
Steady(d, h, r, W, D, T) ==
  /\ r.err \in {"OK", "DISKFULL", "DIRFULL"}
  /\ Same(h, r.h) /\ r.h.cur \in r.d.entries /\ r.h.sindex >= -1
  /\ Good(r.d, {}, W, D, T)
  /\ d.sectors \subseteq r.d.sectors
  /\ r.d.sectors = d.sectors => r.d.dir = d.dir
  /\ Neat(d, h) => Full(r.d.dir, r.d.sectors) /\ (r.err = "OK" => Neat(r.d, r.h))

LEMMA SteadyTrans ==
  ASSUME NEW d, NEW h, NEW r, NEW a, NEW W, NEW D, NEW T, Steady(d, h, r, W, D, T),
         r.err = "OK", Steady(r.d, r.h, a, W, D, T)
  PROVE  Steady(d, h, a, W, D, T)
<1>1. Same(h, a.h)
  BY DEF Steady, Same
<1>2. d.sectors \subseteq a.d.sectors
  BY DEF Steady
<1>3. a.d.sectors = d.sectors => a.d.dir = d.dir
  BY DEF Steady
<1>4. Neat(d, h) => Full(a.d.dir, a.d.sectors) /\ (a.err = "OK" => Neat(a.d, a.h))
  BY DEF Steady
<1> QED BY <1>1, <1>2, <1>3, <1>4 DEF Steady

\* A handle at another sector.
Placed(h, k, s, cur, n) ==
  /\ Same(h, k) /\ k.sector = s /\ k.cur = cur /\ k.sindex = n /\ k.size = h.size

LEMMA PlaceHandle ==
  ASSUME NEW h \in Handles, NEW s \in Int, NEW n \in Int
  PROVE  Placed(h, AtCell(h, s, n), s, h.cur, n)
BY DEF AtCell, Placed, Same, Handles

LEMMA MoveHandle ==
  ASSUME NEW h \in Handles, NEW s \in Int, NEW l \in Int, NEW n \in Int
  PROVE  Placed(h, AtEntry(h, s, l, n), s, l, n)
BY DEF AtEntry, Placed, Same, Handles

LEMMA AllocateKeeps ==
  ASSUME NEW d, NEW h \in Handles, NEW W, NEW D, NEW T, Good(d, {}, W, D, T),
         h.cur \in d.entries, h.sindex >= -1, NEW stray \in BOOLEAN,
         NEW a, a = AllocateSector(d, h, stray)
  PROVE  Steady(d, h, a, W, D, T) /\ a.h.size = h.size
<1>1. /\ d.dir \in Dirs /\ d.entries \subseteq Entries /\ h.cur \in Entries /\ h.sindex \in Int
      /\ Sound(d.dir, d.entries, d.sectors, {}, W) /\ Sectors \subseteq Int /\ Entries \subseteq Int
  <2>1. Sectors \subseteq Int /\ Entries \subseteq Int
    BY Consts
  <2> QED BY <2>1, GoodFacts DEF Handles
<1>2. Fails(d, h, a) \/ Notes(d, h, a) \/ Extends(d, h, a)
  BY <1>1, AllocateIs
<1>3. CASE Fails(d, h, a)
  <2>1. a.err \in {"DISKFULL", "DIRFULL"} /\ a.d = d
    BY <1>3 DEF Fails
  <2>2. Same(h, a.h) /\ a.h.cur = h.cur /\ a.h.sindex >= -1 /\ a.h.size = h.size
    <3>1. CASE a.h = h
      BY <3>1 DEF Same
    <3>2. CASE \E s \in Sectors : a.h = AtCell(h, s, h.sindex + 1)
      <4>1. PICK s \in Int : a.h = AtCell(h, s, h.sindex + 1)
        BY <1>1, <3>2
      <4>2. h.sindex + 1 \in Int /\ h.sindex + 1 >= -1
        BY <1>1
      <4>3. Placed(h, a.h, s, h.cur, h.sindex + 1)
        BY <4>1, <4>2, PlaceHandle
      <4> QED BY <4>2, <4>3 DEF Placed
    <3> QED BY <1>3, <3>1, <3>2 DEF Fails
  <2>3. a.err # "OK"
    BY <2>1
  <2> QED BY <2>1, <2>2, <2>3 DEF Steady, Neat
<1>4. CASE Notes(d, h, a)
  <2>1. PICK s \in Sectors \ d.sectors :
          /\ a.h = AtCell(h, s, h.sindex + 1)
          /\ a.d = NoteDev(d, h.cur, h.sindex + 2, s)
    BY <1>4 DEF Notes
  <2>2. a.err = "OK" /\ h.sindex + 1 < curentry_max_sectors(d.dir[h.cur])
    BY <1>4 DEF Notes
  <2>3. h.sindex + 2 \in 1 .. curentry_max_sectors(d.dir[h.cur])
    <3>1. curentry_max_sectors(d.dir[h.cur]) \in Nat
      BY <1>1, WidthNat
    <3> QED BY <1>1, <2>2, <3>1
  <2>4. /\ Good(a.d, {}, W, D, T)
        /\ a.d.dir = [d.dir EXCEPT ![h.cur] = [d.dir[h.cur] EXCEPT ![h.sindex + 2] = s]]
        /\ a.d.sectors = d.sectors \cup {s} /\ a.d.entries = d.entries
    <3>1. NotedDev(d, a.d, h.cur, h.sindex + 2, s, W, D, T)
      BY <2>1, <2>3, NoteGood
    <3> QED BY <3>1 DEF NotedDev
  <2>5. /\ Same(h, a.h) /\ a.h.cur = h.cur /\ a.h.entry = h.entry
        /\ a.h.sindex = h.sindex + 1 /\ a.h.size = h.size /\ a.h.sindex >= -1
    <3>1. h.sindex + 1 \in Int /\ h.sindex + 1 >= -1 /\ s \in Int
      BY <1>1
    <3>2. Placed(h, a.h, s, h.cur, h.sindex + 1)
      BY <2>1, <3>1, PlaceHandle
    <3> QED BY <3>1, <3>2 DEF Placed, Same
  <2>6. Neat(d, h) => Neat(a.d, a.h)
    BY <1>1, <2>2, <2>4, <2>5, NoteNeat
  <2>7. d.sectors \subseteq a.d.sectors /\ a.d.sectors # d.sectors
    BY <2>4
  <2>8. a.h.cur \in a.d.entries
    BY <2>4, <2>5
  <2> QED BY <2>2, <2>4, <2>5, <2>6, <2>7, <2>8 DEF Steady, Neat
<1>5. CASE Extends(d, h, a)
  <2>1. PICK s \in Sectors \ d.sectors, l \in Entries \ d.entries :
          /\ a.h = AtEntry(h, s, l, 0)
          /\ a.d = LinkDev(d, h.cur, l, s)
    BY <1>5 DEF Extends
  <2>2. LinkedDev(d, a.d, h.cur, l, s, W, D, T)
    BY <2>1, LinkGood
  <2>3. /\ Good(a.d, {}, W, D, T)
        /\ a.d.dir = [[d.dir EXCEPT ![h.cur] = [d.dir[h.cur] EXCEPT ![NEXT] = l]]
                        EXCEPT ![l] = ListRow(s)]
        /\ a.d.sectors = d.sectors \cup {s} /\ a.d.entries = d.entries \cup {l}
    BY <2>2 DEF LinkedDev
  <2>4. /\ Same(h, a.h) /\ a.h.cur = l /\ a.h.entry = h.entry
        /\ a.h.sindex = 0 /\ a.h.size = h.size /\ a.h.sindex >= -1
    <3>1. s \in Int /\ l \in Int /\ 0 \in Int /\ 0 >= -1
      BY <1>1
    <3>2. Placed(h, a.h, s, l, 0)
      BY <2>1, <3>1, MoveHandle
    <3> QED BY <3>1, <3>2 DEF Placed, Same
  <2>5. Neat(d, h) => Neat(a.d, a.h)
    BY <1>1, <2>3, <2>4, LinkNeat
  <2>6. d.sectors \subseteq a.d.sectors /\ a.d.sectors # d.sectors
    BY <2>3
  <2>7. a.h.cur \in a.d.entries /\ a.err = "OK"
    BY <1>5, <2>3, <2>4 DEF Extends
  <2> QED BY <2>3, <2>4, <2>5, <2>6, <2>7 DEF Steady, Neat
<1> QED BY <1>2, <1>3, <1>4, <1>5

\* Data are written to a sector: the directory is left alone.
LEMMA ByteGood ==
  ASSUME NEW d, NEW W, NEW D, NEW T, Good(d, {}, W, D, T), NEW sector, NEW offset, NEW b,
         NEW w, w = write_byte(d, sector, offset, b)
  PROVE  /\ Good(w, {}, W, D, T) /\ w.dir = d.dir /\ w.sectors = d.sectors
         /\ w.entries = d.entries
<1> DEFINE data == [d.data EXCEPT ![sector] = [d.data[sector] EXCEPT ![offset] = b]]
           x == [d EXCEPT !.data = data]
<1>1. Dev(d) /\ \A e \in d.past : Fair(D, T, e.dir) /\ Fair(D, T, d.dir)
  BY GoodFacts
<1>2. w = [x EXCEPT !.past = x.past \cup {EE(x)}]
  BY Zenon DEF write_byte
<1> HIDE DEF data
<1>3. /\ x.dir = d.dir /\ x.past = d.past /\ x.sectors = d.sectors /\ x.entries = d.entries
      /\ x.free = d.free /\ x.asserted = d.asserted /\ Dev(x)
  BY <1>1 DEF Dev
<1> HIDE DEF x
<1>4. EE(x).dir = d.dir
  BY <1>3 DEF EE
<1> DEFINE e == EE(x)
<1> HIDE DEF e
<1>5. w = [x EXCEPT !.past = d.past \cup {e}]
  BY <1>2, <1>3 DEF e
<1>6. /\ w.dir = d.dir /\ w.past = d.past \cup {e} /\ w.sectors = d.sectors
      /\ w.entries = d.entries /\ w.free = d.free /\ w.asserted = d.asserted /\ Dev(w)
  BY <1>3, <1>5 DEF Dev
<1>7. \A p \in w.past : Fair(D, T, p.dir)
  BY <1>1, <1>4, <1>6, GoodFacts DEF e
<1> QED BY <1>6, <1>7 DEF Good, Counted

Advance(h) == [h EXCEPT !.size = @ + 1, !.offset = @ + 1, !.soffset = (@ + 1) % SECTORSIZE]

Advanced(h, k) ==
  Same(h, k) /\ k.size = h.size + 1 /\ k.cur = h.cur /\ k.sindex = h.sindex /\ k.sector = h.sector

LEMMA AdvanceHandle ==
  ASSUME NEW h \in Handles
  PROVE  Advanced(h, Advance(h))
<1> DEFINE so == (h.soffset + 1) % SECTORSIZE
           sz == h.size + 1
           of == h.offset + 1
           k  == [h EXCEPT !.size = sz, !.offset = of, !.soffset = so]
<1>1. so \in Int /\ sz \in Int /\ of \in Int
  <2>1. h.soffset + 1 \in Int /\ SECTORSIZE \in Nat /\ SECTORSIZE > 0
    BY Consts DEF Handles
  <2> QED BY <2>1 DEF Handles
<1>2. Advance(h) = k
  BY Zenon DEF Advance
<1> HIDE DEF so, sz, of
<1>3. k \in Handles
  BY <1>1 DEF Handles
<1>4. /\ k.mode = h.mode /\ k.name = h.name /\ k.tag = h.tag /\ k.entry = h.entry
      /\ k.grown = h.grown /\ k.size = sz /\ k.cur = h.cur /\ k.sindex = h.sindex
      /\ k.sector = h.sector
  BY DEF Handles
<1> HIDE DEF k
<1>5. Advanced(h, k)
  BY <1>3, <1>4 DEF Advanced, Same, sz
<1> QED BY <1>2, <1>5

\* One byte.
LEMMA WriteByteKeeps ==
  ASSUME NEW d, NEW h, NEW r, NEW W, NEW D, NEW T, Steady(d, h, r, W, D, T),
         NEW stray \in BOOLEAN, NEW w, w = WriteByte(r, stray)
  PROVE  Steady(d, h, w, W, D, T) /\ (w.h.size = r.h.size \/ w.h.size = r.h.size + 1)
<1>1. CASE r.err # "OK"
  BY <1>1 DEF WriteByte
<1>2. CASE r.err = "OK"
  <2> DEFINE a == IF r.h.soffset = 0 THEN AllocateSector(r.d, r.h, stray) ELSE r
             x == write_byte(a.d, a.h.sector, a.h.soffset, <<a.h.tag, a.h.offset>>)
  <2>1. w = IF a.err # "OK" THEN a ELSE Result(x, Advance(a.h), "OK")
    BY <1>2, Zenon DEF WriteByte, Advance
  <2>2. Steady(d, h, a, W, D, T) /\ a.h.size = r.h.size
    <3>1. CASE r.h.soffset = 0
      <4>1. r.h \in Handles /\ Good(r.d, {}, W, D, T) /\ r.h.cur \in r.d.entries /\ r.h.sindex >= -1
        BY DEF Steady, Same
      <4>2. a = AllocateSector(r.d, r.h, stray)
        BY <3>1, Zenon
      <4> HIDE DEF a
      <4>3. Steady(r.d, r.h, a, W, D, T) /\ a.h.size = r.h.size
        BY <4>1, <4>2, AllocateKeeps
      <4> QED BY <1>2, <4>3, SteadyTrans
    <3>2. CASE r.h.soffset # 0
      <4>1. a = r
        BY <3>2
      <4> HIDE DEF a
      <4> QED BY <4>1
    <3> QED BY <3>1, <3>2
  <2> HIDE DEF a
  <2>3. CASE a.err # "OK"
    BY <2>1, <2>2, <2>3
  <2>4. CASE a.err = "OK"
    <3>1. w.d = x /\ w.h = Advance(a.h) /\ w.err = "OK"
      <4>1. w = Result(x, Advance(a.h), "OK")
        BY <2>1, <2>4
      <4> HIDE DEF x
      <4> QED BY <4>1, ResultIs
    <3>2. Advanced(a.h, w.h)
      BY <2>2, <3>1, AdvanceHandle DEF Steady, Same
    <3>3. /\ Good(w.d, {}, W, D, T) /\ w.d.dir = a.d.dir /\ w.d.sectors = a.d.sectors
          /\ w.d.entries = a.d.entries
      BY <2>2, <3>1, ByteGood DEF Steady
    <3>4. Neat(a.d, a.h) => Neat(w.d, w.h)
      <4>1. w.h.cur = a.h.cur /\ w.h.entry = a.h.entry /\ w.h.sindex = a.h.sindex
        BY <3>2 DEF Advanced, Same
      <4> QED BY <3>3, <4>1 DEF Neat, Tip, Chain
    <3>5. Steady(a.d, a.h, w, W, D, T)
      <4>1. Same(a.h, w.h) /\ w.h.cur \in w.d.entries /\ w.h.sindex >= -1
        BY <2>2, <3>2, <3>3 DEF Advanced, Steady
      <4> QED BY <3>1, <3>3, <3>4, <4>1 DEF Steady, Neat
    <3>6. w.h.size = r.h.size + 1
      BY <2>2, <3>2 DEF Advanced
    <3> QED BY <2>2, <2>4, <3>5, <3>6, SteadyTrans
  <2> QED BY <2>3, <2>4
<1> QED BY <1>1, <1>2

Bytes(f, d, h, n, stray) ==
  /\ f[0] = Result(d, h, "OK")
  /\ \A k \in 1 .. n : f[k] = WriteByte(f[k - 1], stray)
  /\ eepromfs_write(d, h, n, stray) = f[n]

LEMMA WriteUnfold ==
  ASSUME NEW d, NEW h, NEW n \in Nat, NEW stray
  PROVE  \E f : Bytes(f, d, h, n, stray)
<1> DEFINE Start == Result(d, h, "OK")
           Body(f, m) == [k \in 0 .. m |-> IF k = 0 THEN Start ELSE WriteByte(f[k - 1], stray)]
           S == {m \in Nat : \E f : f = Body(f, m)}
           after == CHOOSE f : f = Body(f, n)
<1> HIDE DEF Start
<1>1. 0 \in S
  <2> DEFINE g == [k \in 0 .. 0 |-> Start]
  <2>1. g = Body(g, 0)
    OBVIOUS
  <2> QED BY <2>1
<1>2. ASSUME NEW m \in Nat, m \in S PROVE m + 1 \in S
  <2>1. PICK f : f = Body(f, m)
    BY <1>2
  <2> DEFINE g == [k \in 0 .. m + 1 |-> IF k = m + 1 THEN WriteByte(f[m], stray) ELSE f[k]]
  <2>2. g = Body(g, m + 1)
    <3>1. ASSUME NEW k \in 0 .. m + 1
          PROVE g[k] = IF k = 0 THEN Start ELSE WriteByte(g[k - 1], stray)
      BY <2>1
    <3> QED BY <3>1
  <2>3. m + 1 \in Nat
    OBVIOUS
  <2> QED BY <2>2, <2>3, Zenon
<1>3. n \in S
  <2> HIDE DEF S
  <2> QED BY <1>1, <1>2, Counting
<1>4. after = Body(after, n)
  BY <1>3, Zenon
<1>5. eepromfs_write(d, h, n, stray) = after[n]
  BY Zenon DEF eepromfs_write, Start
<1> HIDE DEF after
<1>6. after[0] = Start /\ \A k \in 1 .. n : after[k] = WriteByte(after[k - 1], stray)
  <2>1. \A k \in 0 .. n : after[k] = IF k = 0 THEN Start ELSE WriteByte(after[k - 1], stray)
    BY <1>4
  <2> QED BY <2>1
<1> QED BY <1>5, <1>6, Zenon DEF Bytes, Start

\* eepromfs_write
LEMMA WriteKeeps ==
  ASSUME NEW d, NEW h \in Handles, NEW W, NEW D, NEW T, Good(d, {}, W, D, T),
         h.cur \in d.entries, h.sindex >= -1, NEW n \in Nat, NEW stray \in BOOLEAN,
         NEW r, r = eepromfs_write(d, h, n, stray)
  PROVE  Steady(d, h, r, W, D, T) /\ h.size <= r.h.size /\ r.h.size <= h.size + n
<1>1. PICK f : Bytes(f, d, h, n, stray)
  BY WriteUnfold
<1>2. /\ f[0] = Result(d, h, "OK")
      /\ \A k \in 1 .. n : f[k] = WriteByte(f[k - 1], stray)
      /\ r = f[n]
  BY <1>1, Zenon DEF Bytes
<1>3. h.size \in Int /\ \A k : Steady(d, h, f[k], W, D, T) => f[k].h.size \in Int
  BY DEF Steady, Same, Handles
<1> DEFINE Safe(k) == /\ Steady(d, h, f[k], W, D, T)
                      /\ h.size <= f[k].h.size /\ f[k].h.size <= h.size + k
           S == {k \in Nat : k <= n => Safe(k)}
<1>4. Safe(0)
  <2>1. f[0].d = d /\ f[0].h = h /\ f[0].err = "OK"
    BY <1>2, ResultIs
  <2>2. Steady(d, h, f[0], W, D, T)
    BY <2>1 DEF Steady, Same, Neat
  <2> QED BY <1>3, <2>1, <2>2
<1>5. ASSUME NEW k \in Nat, k \in S PROVE k + 1 \in S
  <2> SUFFICES ASSUME k + 1 <= n PROVE Safe(k + 1)
    OBVIOUS
  <2>1. Safe(k)
    BY <1>5
  <2>2. f[k + 1] = WriteByte(f[k], stray)
    BY <1>2
  <2>3. Steady(d, h, f[k + 1], W, D, T)
        /\ (f[k + 1].h.size = f[k].h.size \/ f[k + 1].h.size = f[k].h.size + 1)
    BY <2>1, <2>2, WriteByteKeeps
  <2>4. f[k].h.size \in Int
    BY <1>3, <2>1
  <2> QED BY <1>3, <2>1, <2>3, <2>4
<1>6. n \in S
  <2>1. 0 \in S
    <3> HIDE DEF Safe
    <3> QED BY <1>4
  <2> HIDE DEF S
  <2> QED BY <1>5, <2>1, Counting
<1> QED BY <1>2, <1>6

-----------------------------------------------------------------------------
(* Reading a file.                                                         *)

\* The fields of a handle; reading changes the position only.
Records(V) == [mode : V, name : V, tag : V, size : V, offset : V, entry : V, sector : V,
               soffset : V, cur : V, sindex : V, grown : V]
Shape(h) == \E V : h \in Records(V)

Moved(h, k) ==
  /\ Shape(k) /\ k.mode = h.mode /\ k.name = h.name /\ k.size = h.size /\ k.grown = h.grown
  /\ k.offset \in Int

LEMMA Onward ==
  ASSUME NEW h, Shape(h), NEW of \in Int, NEW so
  PROVE  Moved(h, [h EXCEPT !.offset = of, !.soffset = so])
<1> DEFINE k == [h EXCEPT !.offset = of, !.soffset = so]
<1>1. PICK V : h \in Records(V)
  BY DEF Shape
<1>2. k \in Records(V \cup {of, so})
  <2>1. h \in Records(V \cup {of, so})
    BY <1>1 DEF Records
  <2> QED BY <2>1 DEF Records
<1>3. /\ k.mode = h.mode /\ k.name = h.name /\ k.size = h.size /\ k.grown = h.grown
      /\ k.offset = of
  BY <1>1 DEF Records
<1> HIDE DEF k
<1>4. Moved(h, k)
  BY <1>2, <1>3 DEF Moved, Shape
<1> QED BY <1>4 DEF k

LEMMA Around ==
  ASSUME NEW h, Shape(h), h.offset \in Int, NEW cur, NEW i, NEW s
  PROVE  Moved(h, [h EXCEPT !.cur = cur, !.sindex = i, !.sector = s])
<1> DEFINE k == [h EXCEPT !.cur = cur, !.sindex = i, !.sector = s]
<1>1. PICK V : h \in Records(V)
  BY DEF Shape
<1>2. k \in Records(V \cup {cur, i, s})
  <2>1. h \in Records(V \cup {cur, i, s})
    BY <1>1 DEF Records
  <2> QED BY <2>1 DEF Records
<1>3. /\ k.mode = h.mode /\ k.name = h.name /\ k.size = h.size /\ k.grown = h.grown
      /\ k.offset = h.offset
  BY <1>1 DEF Records
<1> HIDE DEF k
<1>4. Moved(h, k)
  BY <1>2, <1>3 DEF Moved, Shape
<1> QED BY <1>4 DEF k

LEMMA ReadByteKeeps ==
  ASSUME NEW d, NEW r, r = [h |-> r.h, bytes |-> r.bytes, ok |-> r.ok],
         Shape(r.h), r.h.offset \in Int, NEW w, w = ReadByte(d, r)
  PROVE  w = [h |-> w.h, bytes |-> w.bytes, ok |-> w.ok] /\ Moved(r.h, w.h)
<1>0. Moved(r.h, r.h)
  BY DEF Moved
<1>1. CASE r.h.sector = FF
  <2> DEFINE b == Append(r.bytes, Erased)
  <2>1. w = [r EXCEPT !.bytes = b, !.ok = FALSE]
    BY <1>1, Zenon DEF ReadByte
  <2> HIDE DEF b
  <2>2. w = [h |-> w.h, bytes |-> w.bytes, ok |-> w.ok] /\ w.h = r.h
    BY <2>1
  <2> QED BY <1>0, <2>2
<1>2. CASE r.h.sector # FF
  <2> DEFINE h == [r.h EXCEPT !.offset = @ + 1, !.soffset = (@ + 1) % SECTORSIZE]
             b == Append(r.bytes, d.data[r.h.sector][r.h.soffset])
             k == IF h.offset # h.size /\ h.soffset = 0 THEN NextSector(d, h) ELSE h
  <2>1. w = [r EXCEPT !.bytes = b, !.h = k]
    BY <1>2, Zenon DEF ReadByte
  <2>2. Moved(r.h, h)
    <3> DEFINE of == r.h.offset + 1
               so == (r.h.soffset + 1) % SECTORSIZE
    <3>1. of \in Int /\ h = [r.h EXCEPT !.offset = of, !.soffset = so]
      OBVIOUS
    <3> HIDE DEF of, so, h
    <3> QED BY <3>1, Onward
  <2> HIDE DEF b, h
  <2>3. Moved(h, NextSector(d, h))
    <3> DEFINE over == h.sindex + 1 >= curentry_max_sectors(d.dir[h.cur])
               cur  == IF over THEN d.dir[h.cur][NEXT] ELSE h.cur
               i    == IF over THEN 0 ELSE h.sindex + 1
               s    == IF cur = FF THEN FF ELSE d.dir[cur][i + 1]
    <3>1. NextSector(d, h) = [h EXCEPT !.cur = cur, !.sindex = i, !.sector = s]
      BY Zenon DEF NextSector
    <3> HIDE DEF cur, i, s
    <3>2. Shape(h) /\ h.offset \in Int
      BY <2>2 DEF Moved
    <3>3. Moved(h, [h EXCEPT !.cur = cur, !.sindex = i, !.sector = s])
      BY <3>2, Around
    <3> QED BY <3>1, <3>3
  <2>4. Moved(r.h, k)
    BY <2>2, <2>3 DEF Moved
  <2> HIDE DEF k
  <2>5. w = [h |-> w.h, bytes |-> w.bytes, ok |-> w.ok] /\ w.h = k
    BY <2>1
  <2> QED BY <2>4, <2>5
<1> QED BY <1>1, <1>2

Gets(f, d, h, n, r) ==
  /\ f[0] = [h |-> h, bytes |-> <<>>, ok |-> TRUE]
  /\ \A k \in 1 .. n : f[k] = ReadByte(d, f[k - 1])
  /\ r = f[n]

LEMMA ReadUnfold ==
  ASSUME NEW d, NEW h, NEW m, Min({m, h.size - h.offset}) \in Nat
  PROVE  \E f : Gets(f, d, h, Min({m, h.size - h.offset}), eepromfs_read(d, h, m))
<1> DEFINE n == Min({m, h.size - h.offset})
           Start == [h |-> h, bytes |-> <<>>, ok |-> TRUE]
           Body(f, q) == [k \in 0 .. q |-> IF k = 0 THEN Start ELSE ReadByte(d, f[k - 1])]
           S == {q \in Nat : \E f : f = Body(f, q)}
           after == CHOOSE f : f = Body(f, n)
<1> HIDE DEF Start
<1>1. 0 \in S
  <2> DEFINE g == [k \in 0 .. 0 |-> Start]
  <2>1. g = Body(g, 0)
    OBVIOUS
  <2> QED BY <2>1
<1>2. ASSUME NEW q \in Nat, q \in S PROVE q + 1 \in S
  <2>1. PICK f : f = Body(f, q)
    BY <1>2
  <2> DEFINE g == [k \in 0 .. q + 1 |-> IF k = q + 1 THEN ReadByte(d, f[q]) ELSE f[k]]
  <2>2. g = Body(g, q + 1)
    <3>1. ASSUME NEW k \in 0 .. q + 1
          PROVE g[k] = IF k = 0 THEN Start ELSE ReadByte(d, g[k - 1])
      BY <2>1
    <3> QED BY <3>1
  <2>3. q + 1 \in Nat
    OBVIOUS
  <2> QED BY <2>2, <2>3, Zenon
<1>3. n \in S
  <2> HIDE DEF S
  <2>1. n \in Nat
    OBVIOUS
  <2> HIDE DEF n
  <2> QED BY <1>1, <1>2, <2>1, Counting
<1>4. after = Body(after, n)
  <2> HIDE DEF n
  <2> QED BY <1>3, Zenon
<1>5. eepromfs_read(d, h, m) = after[n]
  BY Zenon DEF eepromfs_read, Start
<1> HIDE DEF after
<1>6. after[0] = Start /\ \A k \in 1 .. n : after[k] = ReadByte(d, after[k - 1])
  <2>0. n \in Nat
    OBVIOUS
  <2> HIDE DEF n
  <2>1. \A k \in 0 .. n : after[k] = IF k = 0 THEN Start ELSE ReadByte(d, after[k - 1])
    BY <1>4
  <2> QED BY <2>0, <2>1
<1> QED BY <1>5, <1>6, Zenon DEF Gets, Start

\* eepromfs_read
LEMMA ReadKeeps ==
  ASSUME NEW d, NEW h, Shape(h), h.offset \in Int, h.size \in Int, h.offset < h.size,
         NEW m \in Nat, NEW r, r = eepromfs_read(d, h, m)
  PROVE  Moved(h, r.h)
<1> DEFINE n == Min({m, h.size - h.offset})
<1>1. n \in Nat
  <2>1. h.size - h.offset \in Nat
    OBVIOUS
  <2>2. {m, h.size - h.offset} \in SUBSET Nat /\ {m, h.size - h.offset} # {}
    BY <2>1
  <2>3. n \in {m, h.size - h.offset}
    BY <2>2, Smallest
  <2> QED BY <2>2, <2>3
<1>2. PICK f : Gets(f, d, h, n, r)
  BY <1>1, ReadUnfold
<1> HIDE DEF n
<1>3. /\ f[0] = [h |-> h, bytes |-> <<>>, ok |-> TRUE]
      /\ \A k \in 1 .. n : f[k] = ReadByte(d, f[k - 1])
      /\ r = f[n]
  BY <1>2, Zenon DEF Gets
<1> DEFINE Safe(k) == /\ f[k] = [h |-> f[k].h, bytes |-> f[k].bytes, ok |-> f[k].ok]
                      /\ Moved(h, f[k].h)
           S == {k \in Nat : k <= n => Safe(k)}
<1>4. Safe(0)
  BY <1>3 DEF Moved
<1>5. ASSUME NEW k \in Nat, k \in S PROVE k + 1 \in S
  <2> SUFFICES ASSUME k + 1 <= n PROVE Safe(k + 1)
    OBVIOUS
  <2>1. Safe(k)
    BY <1>1, <1>5
  <2>2. f[k + 1] = ReadByte(d, f[k])
    BY <1>1, <1>3
  <2>3. /\ f[k + 1] = [h |-> f[k + 1].h, bytes |-> f[k + 1].bytes, ok |-> f[k + 1].ok]
        /\ Moved(f[k].h, f[k + 1].h)
    BY <2>1, <2>2, ReadByteKeeps DEF Moved
  <2>4. Moved(h, f[k + 1].h)
    BY <2>1, <2>3 DEF Moved
  <2> QED BY <2>3, <2>4
<1>6. n \in S
  <2>1. 0 \in S
    <3> HIDE DEF Safe
    <3> QED BY <1>4
  <2> HIDE DEF S
  <2> QED BY <1>1, <1>5, <2>1, Counting
<1> QED BY <1>1, <1>3, <1>6

-----------------------------------------------------------------------------
(* Opening a file.                                                         *)

LEMMA ClosedIs ==
  /\ Closed \in Handles /\ Closed.mode = "closed" /\ Closed.grown = FALSE /\ Closed.name = 0
  /\ Closed.size = 0 /\ Closed.sindex = 0
BY DEF Closed, Handles

LEMMA Ints ==
  Entries \subseteq Int /\ Names \subseteq Int /\ 0 .. MaxSize \subseteq Int /\ SECTORSIZE \in Nat
  /\ SECTORSIZE > 0
<1>1. Entries \subseteq Int /\ 0 .. MaxSize \subseteq Int
  BY DEF Entries
<1>2. Names \subseteq Int /\ SECTORSIZE \in Nat /\ SECTORSIZE > 0
  BY Consts
<1> QED BY <1>1, <1>2

LEMMA HandleShape ==
  ASSUME NEW h \in Handles
  PROVE  Shape(h) /\ h.offset \in Int
<1>1. h \in Records({"closed", "read", "write"} \cup Int \cup BOOLEAN)
  BY DEF Handles, Records
<1> QED BY <1>1 DEF Shape, Handles

\* The end of a chain.
Ends(f, d, i) ==
  /\ f[0] = i
  /\ \A k \in 1 .. ENTRIES :
       f[k] = IF d.dir[f[k - 1]][NEXT] = FF THEN f[k - 1] ELSE d.dir[f[k - 1]][NEXT]
  /\ LastEntry(d, i) = f[ENTRIES]

LEMMA LastUnfold ==
  ASSUME NEW d, NEW i
  PROVE  \E f : Ends(f, d, i)
<1> DEFINE Turn(j) == IF d.dir[j][NEXT] = FF THEN j ELSE d.dir[j][NEXT]
           n == ENTRIES
           Body(f, m) == [k \in 0 .. m |-> IF k = 0 THEN i ELSE Turn(f[k - 1])]
           S == {m \in Nat : \E f : f = Body(f, m)}
           after == CHOOSE f : f = Body(f, n)
<1>0. n \in Nat
  BY Consts
<1> HIDE DEF n, Turn
<1>1. 0 \in S
  <2> DEFINE g == [k \in 0 .. 0 |-> i]
  <2>1. g = Body(g, 0)
    OBVIOUS
  <2> QED BY <2>1
<1>2. ASSUME NEW m \in Nat, m \in S PROVE m + 1 \in S
  <2>1. PICK f : f = Body(f, m)
    BY <1>2
  <2> DEFINE g == [k \in 0 .. m + 1 |-> IF k = m + 1 THEN Turn(f[m]) ELSE f[k]]
  <2>2. g = Body(g, m + 1)
    <3>1. ASSUME NEW k \in 0 .. m + 1
          PROVE g[k] = IF k = 0 THEN i ELSE Turn(g[k - 1])
      BY <2>1
    <3> QED BY <3>1
  <2>3. m + 1 \in Nat
    OBVIOUS
  <2> QED BY <2>2, <2>3, Zenon
<1>3. n \in S
  <2> HIDE DEF S
  <2> QED BY <1>0, <1>1, <1>2, Counting
<1>4. after = Body(after, n)
  BY <1>3, Zenon
<1>5. LastEntry(d, i) = after[n]
  BY Zenon DEF LastEntry, Turn, n
<1> HIDE DEF after
<1>6. after[0] = i /\ \A k \in 1 .. n : after[k] = Turn(after[k - 1])
  <2>1. \A k \in 0 .. n : after[k] = IF k = 0 THEN i ELSE Turn(after[k - 1])
    BY <1>4
  <2> QED BY <1>0, <2>1
<1> QED BY <1>5, <1>6, Zenon DEF Ends, Turn, n

LEMMA LastIn ==
  ASSUME NEW d, NEW W, Sound(d.dir, d.entries, d.sectors, {}, W), NEW i \in d.entries
  PROVE  LastEntry(d, i) \in d.entries
<1>1. PICK f : Ends(f, d, i)
  BY LastUnfold
<1>2. /\ f[0] = i /\ LastEntry(d, i) = f[ENTRIES]
      /\ \A k \in 1 .. ENTRIES :
           f[k] = IF d.dir[f[k - 1]][NEXT] = FF THEN f[k - 1] ELSE d.dir[f[k - 1]][NEXT]
  BY <1>1, Zenon DEF Ends
<1>3. ENTRIES \in Nat /\ Linked(d.dir, d.entries, W)
  BY Consts DEF Sound
<1> DEFINE S == {k \in Nat : k <= ENTRIES => f[k] \in d.entries}
<1>4. 0 \in S
  BY <1>2
<1>5. ASSUME NEW k \in Nat, k \in S PROVE k + 1 \in S
  <2> SUFFICES ASSUME k + 1 <= ENTRIES PROVE f[k + 1] \in d.entries
    OBVIOUS
  <2>1. f[k] \in d.entries
    BY <1>3, <1>5
  <2>2. f[k + 1] = IF d.dir[f[k]][NEXT] = FF THEN f[k] ELSE d.dir[f[k]][NEXT]
    BY <1>2, <1>3
  <2> QED BY <1>3, <2>1, <2>2 DEF Linked
<1>6. ENTRIES \in S
  <2> HIDE DEF S
  <2> QED BY <1>3, <1>4, <1>5, Counting
<1> QED BY <1>2, <1>3, <1>6

\* The handle of an opened file.
Opens(d, r, name, mode) ==
  \/ /\ r.err = "FILENOTFOUND" /\ r.d = d /\ r.h = Closed
     /\ \A i \in Entries : ~Shows(d.dir, i, name)
  \/ /\ r.err = "OK" /\ r.d = d /\ r.h \in Handles
     /\ r.h.mode = mode /\ r.h.name = name
     /\ r.h.entry \in Entries /\ Shows(d.dir, r.h.entry, name)
     /\ r.h.size = d.dir[r.h.entry][SIZE] /\ r.h.size \in 0 .. MaxSize
     /\ r.h.cur \in d.entries /\ r.h.sindex = 0
     /\ mode = "write" => r.h.grown = TRUE
     /\ mode = "read" => r.h.grown = FALSE

\* The row of a file that is found.
LEMMA FoundRow ==
  ASSUME NEW d, NEW W, Sound(d.dir, d.entries, d.sectors, {}, W), NEW name \in Names,
         NEW i, i = find_entry(d, name), i # FF
  PROVE  /\ i \in Entries /\ i \in d.entries /\ Shows(d.dir, i, name)
         /\ d.dir[i][SIZE] \in 0 .. MaxSize /\ d.dir[i][1] \in Nat
<1>1. d.dir \in Dirs /\ Alive(d.dir) \subseteq d.entries
  BY DEF Sound
<1>2. i \in Entries /\ Shows(d.dir, i, name)
  BY <1>1, FindIs
<1>3. 0 # FF /\ 1 \in Cells
  BY Consts
<1>4. d.dir[i] \in Row /\ d.dir[i] \in [Cells -> Nat]
  BY <1>1, <1>2, RowFacts
<1>5. i \in d.entries
  BY <1>1, <1>2, <1>3 DEF Alive, Shows
<1>6. d.dir[i][SIZE] \in 0 .. MaxSize
  BY <1>2, <1>4 DEF Row, Shows
<1> QED BY <1>2, <1>3, <1>4, <1>5, <1>6

LEMMA OpenReadIs ==
  ASSUME NEW d, NEW W, Sound(d.dir, d.entries, d.sectors, {}, W), NEW name \in Names,
         Tag(name) \in Int, NEW r, r = open_read(d, name)
  PROVE  Opens(d, r, name, "read")
<1> DEFINE i == find_entry(d, name)
           t == Tag(name)
           z == d.dir[i][SIZE]
           s == d.dir[i][1]
           h == [Closed EXCEPT !.mode = "read", !.name = name, !.tag = t, !.entry = i,
                               !.size = z, !.sector = s, !.cur = i]
<1>1. r = IF i = FF THEN Result(d, Closed, "FILENOTFOUND") ELSE Result(d, h, "OK")
  BY Zenon DEF open_read
<1>2. CASE i = FF
  <2>1. \A j \in Entries : ~Shows(d.dir, j, name)
    BY <1>2, FindIs, FFOutside DEF Sound
  <2> QED BY <1>1, <1>2, <2>1, ResultIs DEF Opens
<1>3. CASE i # FF
  <2>1. /\ i \in Entries /\ i \in d.entries /\ Shows(d.dir, i, name)
        /\ z \in 0 .. MaxSize /\ s \in Nat
    BY <1>3, FoundRow
  <2>2. i \in Int /\ name \in Int /\ z \in Int /\ s \in Int /\ t \in Int
    <3>1. t \in Int
      OBVIOUS
    <3> HIDE DEF i, z, s, t
    <3> QED BY <2>1, <3>1, Ints
  <2>4. r.err = "OK" /\ r.d = d /\ r.h = h
    <3> HIDE DEF h
    <3> QED BY <1>1, <1>3, ResultIs
  <2> HIDE DEF h, t, s, i
  <2>5. h \in Handles
    <3> HIDE DEF z
    <3> QED BY <2>2, ClosedIs DEF Handles, h
  <2>6. /\ h.mode = "read" /\ h.name = name /\ h.entry = i /\ h.size = z /\ h.cur = i
        /\ h.sindex = 0 /\ h.grown = FALSE
    <3> HIDE DEF z
    <3> QED BY ClosedIs DEF Handles, h
  <2> QED BY <2>1, <2>4, <2>5, <2>6 DEF Opens
<1> QED BY <1>2, <1>3

LEMMA OpenAppendIs ==
  ASSUME NEW d, NEW W, Sound(d.dir, d.entries, d.sectors, {}, W), NEW name \in Names,
         Tag(name) \in Int, NEW r, r = open_append(d, name)
  PROVE  Opens(d, r, name, "write")
<1> DEFINE i    == find_entry(d, name)
           t    == Tag(name)
           last == LastEntry(d, i)
           row  == d.dir[last]
           full == {c \in 1 .. curentry_max_sectors(row) : \A b \in 1 .. c : row[b] # FF}
           z    == d.dir[i][SIZE]
           so   == z % SECTORSIZE
           s    == row[Max({1} \cup full)]
           h    == [Closed EXCEPT !.mode = "write", !.name = name, !.tag = t,
                                  !.entry = i, !.size = z, !.offset = z,
                                  !.soffset = so, !.sector = s,
                                  !.cur = last, !.grown = TRUE]
<1>1. r = IF i = FF THEN Result(d, Closed, "FILENOTFOUND") ELSE Result(d, h, "OK")
  BY Zenon DEF open_append
<1>2. CASE i = FF
  <2>1. \A j \in Entries : ~Shows(d.dir, j, name)
    BY <1>2, FindIs, FFOutside DEF Sound
  <2> QED BY <1>1, <1>2, <2>1, ResultIs DEF Opens
<1>3. CASE i # FF
  <2>1. /\ i \in Entries /\ i \in d.entries /\ Shows(d.dir, i, name) /\ z \in 0 .. MaxSize
    BY <1>3, FoundRow
  <2>2. last \in d.entries /\ last \in Entries
    <3>1. d.entries \subseteq Entries
      BY DEF Sound
    <3> QED BY <2>1, <3>1, LastIn
  <2>3. s \in Nat
    <3>1. /\ row \in [Cells -> Nat]
          /\ curentry_max_sectors(row) = IF row[FLAGS] = 0 THEN Links ELSE Links + 2
      BY <2>2, RowFacts DEF Sound
    <3> HIDE DEF row
    <3>2. Links + 2 \in Nat /\ 1 \in 0 .. Links + 2 /\ Links \in Nat
      BY Consts
    <3>3. \A c \in {1} \cup full : c \in Cells /\ c \in 0 .. Links + 2
      BY <3>1, <3>2, Consts
    <3>4. {1} \cup full \in SUBSET (0 .. Links + 2) /\ {1} \cup full # {}
      BY <3>3
    <3> HIDE DEF full
    <3>5. Max({1} \cup full) \in {1} \cup full
      BY <3>2, <3>4, Largest
    <3> QED BY <3>1, <3>3, <3>5
  <2>4. i \in Int /\ name \in Int /\ z \in Int /\ s \in Int /\ t \in Int /\ so \in Int /\ last \in Int
    <3>1. i \in Int /\ name \in Int /\ z \in Int /\ last \in Int /\ SECTORSIZE \in Nat /\ SECTORSIZE > 0
      BY <2>1, <2>2, Ints
    <3> HIDE DEF z, i, s, t, last
    <3>2. so \in Int
      BY <3>1
    <3> QED BY <2>3, <3>1, <3>2 DEF t
  <2>6. r.err = "OK" /\ r.d = d /\ r.h = h
    <3> HIDE DEF h
    <3> QED BY <1>1, <1>3, ResultIs
  <2> HIDE DEF h, t, s, i, so, last
  <2>7. h \in Handles
    <3> HIDE DEF z
    <3> QED BY <2>4, ClosedIs DEF Handles, h
  <2>8. /\ h.mode = "write" /\ h.name = name /\ h.entry = i /\ h.size = z /\ h.cur = last
        /\ h.sindex = 0 /\ h.grown = TRUE
    <3> HIDE DEF z
    <3> QED BY ClosedIs DEF Handles, h
  <2> QED BY <2>1, <2>2, <2>6, <2>7, <2>8 DEF Opens
<1> QED BY <1>2, <1>3

-----------------------------------------------------------------------------
(* eepromfs_init: the bitmaps are built from the directory.                *)

\* The cells of live rows that hold a sector, and what they hold.
MarksOf(D) == {x \in Alive(D) \X Cells : x[2] <= curentry_max_sectors(D[x[1]]) /\ D[x[1]][x[2]] # FF}
SectorsOf(D) == UNION {{D[i][c] : c \in 1 .. curentry_max_sectors(D[i])} \ {FF} : i \in Alive(D)}

LEMMA InitUnfold ==
  ASSUME NEW e, e.dir \in Dirs
  PROVE  LET m == eepromfs_init(e)
         IN  /\ m.entries = Alive(e.dir) /\ m.sectors = SectorsOf(e.dir)
             /\ m.free = (SECTOR_COUNT - Cardinality(MarksOf(e.dir))) % 256
             /\ m.asserted = (Cardinality(MarksOf(e.dir)) = Cardinality(SectorsOf(e.dir)))
<1>1. {i \in Entries : ~deleted(e.dir[i])} = Alive(e.dir)
  BY DEF Alive, deleted
<1> DEFINE live == {i \in Entries : ~deleted(e.dir[i])}
           used == UNION {{e.dir[i][c] : c \in 1 .. curentry_max_sectors(e.dir[i])} \ {FF} : i \in live}
           marks == {x \in live \X Cells : /\ x[2] <= curentry_max_sectors(e.dir[x[1]])
                                           /\ e.dir[x[1]][x[2]] # FF}
           free == (SECTOR_COUNT - Cardinality(marks)) % 256
           same == Cardinality(marks) = Cardinality(used)
<1>2. eepromfs_init(e) = [sectors |-> used, entries |-> live, free |-> free, asserted |-> same]
  BY Zenon DEF eepromfs_init
<1>3. used = SectorsOf(e.dir) /\ marks = MarksOf(e.dir)
  BY <1>1, Zenon DEF SectorsOf, MarksOf
<1> DEFINE m == eepromfs_init(e)
<1>4. m.entries = live /\ m.sectors = used /\ m.free = free /\ m.asserted = same
  <2> HIDE DEF used, live, free, same, m
  <2> QED BY <1>2 DEF m
<1> QED BY <1>1, <1>3, <1>4, Zenon

LEMMA SectorsAre ==
  ASSUME NEW D \in Dirs
  PROVE  /\ \A s : s \in SectorsOf(D) <=> \E i \in Alive(D), c \in Cells : Holds(D[i], c) /\ D[i][c] = s
         /\ SectorsOf(D) \subseteq Sectors
<1>0. \A i \in Alive(D) : \A c \in 1 .. curentry_max_sectors(D[i]) : c \in Cells
  <2> SUFFICES ASSUME NEW i \in Alive(D), NEW c \in 1 .. curentry_max_sectors(D[i])
               PROVE  c \in Cells
    OBVIOUS
  <2>1. curentry_max_sectors(D[i]) = IF D[i][FLAGS] = 0 THEN Links ELSE Links + 2
    BY RowFacts DEF Alive
  <2> QED BY <2>1, Fields
<1>1. ASSUME NEW s PROVE s \in SectorsOf(D) <=> \E i \in Alive(D), c \in Cells : Holds(D[i], c) /\ D[i][c] = s
  BY <1>0 DEF SectorsOf, Holds
<1>2. ASSUME NEW s \in SectorsOf(D) PROVE s \in Sectors
  <2>1. PICK i \in Alive(D), c \in Cells : Holds(D[i], c) /\ D[i][c] = s
    BY <1>1
  <2>2. D[i] \in Row /\ D[i][FLAGS] # FF
    BY RowFacts DEF Alive
  <2> QED BY <2>1, <2>2 DEF Row, Holds
<1> QED BY <1>1, <1>2

LEMMA MarksFinite ==
  ASSUME NEW D
  PROVE  IsFiniteSet(MarksOf(D)) /\ Cardinality(MarksOf(D)) \in Nat
<1>1. IsFiniteSet(Entries) /\ IsFiniteSet(Cells)
  <2>1. ENTRIES - 1 \in Int /\ NEXT \in Int /\ 0 \in Int /\ 1 \in Int
    BY Consts
  <2> QED BY <2>1, FS_Interval DEF Entries, Cells
<1>2. IsFiniteSet(Alive(D))
  BY <1>1, FS_Subset DEF Alive
<1>3. IsFiniteSet(Alive(D) \X Cells)
  BY <1>1, <1>2, FS_Product
<1>4. MarksOf(D) \in SUBSET (Alive(D) \X Cells)
  BY DEF MarksOf
<1> QED BY <1>3, <1>4, FS_Subset, FS_CardinalityType

\* Every mark is a sector of its own.
LEMMA MarksCount ==
  ASSUME NEW D \in Dirs, Apart(D, Alive(D))
  PROVE  Cardinality(MarksOf(D)) = Cardinality(SectorsOf(D))
<1> DEFINE M == MarksOf(D)
           S == SectorsOf(D)
           f == [x \in M |-> D[x[1]][x[2]]]
<1>1. ASSUME NEW x \in M
      PROVE  /\ x[1] \in Alive(D) /\ x[2] \in Cells /\ x = <<x[1], x[2]>> /\ Holds(D[x[1]], x[2])
             /\ D[x[1]][x[2]] \in S
  <2>1. x \in Alive(D) \X Cells /\ x[2] <= curentry_max_sectors(D[x[1]]) /\ D[x[1]][x[2]] # FF
    BY DEF MarksOf
  <2>2. x[1] \in Alive(D) /\ x[2] \in Cells /\ x = <<x[1], x[2]>>
    BY <2>1
  <2>3. x[2] \in 1 .. curentry_max_sectors(D[x[1]])
    <3>1. curentry_max_sectors(D[x[1]]) \in Nat
      BY <2>2, WidthNat DEF Alive
    <3>2. x[2] \in Nat /\ x[2] >= 1
      BY <2>2, Consts
    <3> QED BY <2>1, <3>1, <3>2
  <2>4. Holds(D[x[1]], x[2])
    BY <2>1, <2>3 DEF Holds
  <2> QED BY <2>2, <2>4, SectorsAre
<1>2. ASSUME NEW s \in S PROVE \E x \in M : D[x[1]][x[2]] = s
  <2>1. PICK i \in Alive(D), c \in Cells : Holds(D[i], c) /\ D[i][c] = s
    BY SectorsAre
  <2> DEFINE x == <<i, c>>
  <2>2. x[1] = i /\ x[2] = c /\ x \in Alive(D) \X Cells
    OBVIOUS
  <2>3. c <= curentry_max_sectors(D[i]) /\ D[i][c] # FF
    BY <2>1 DEF Holds
  <2>4. x \in M
    BY <2>2, <2>3 DEF MarksOf
  <2> QED BY <2>1, <2>2, <2>4
<1>3. ASSUME NEW x \in M, NEW y \in M, D[x[1]][x[2]] = D[y[1]][y[2]] PROVE x = y
  <2>1. /\ x[1] \in Alive(D) /\ x[2] \in Cells /\ x = <<x[1], x[2]>> /\ Holds(D[x[1]], x[2])
        /\ y[1] \in Alive(D) /\ y[2] \in Cells /\ y = <<y[1], y[2]>> /\ Holds(D[y[1]], y[2])
    BY <1>1
  <2>2. x[1] = y[1] /\ x[2] = y[2]
    BY <1>3, <2>1 DEF Apart
  <2> QED BY <2>1, <2>2
<1> HIDE DEF M, S
<1>4. f \in [M -> S] /\ DOMAIN f = M /\ \A x \in M : f[x] = D[x[1]][x[2]]
  BY <1>1
<1> HIDE DEF f
<1>5. f \in Injection(M, S)
  BY <1>3, <1>4 DEF Injection, IsInjective
<1>6. f \in Surjection(M, S)
  BY <1>2, <1>4 DEF Surjection
<1>7. ExistsBijection(M, S)
  BY <1>5, <1>6 DEF ExistsBijection, Bijection
<1>8. IsFiniteSet(M)
  BY MarksFinite DEF M
<1>9. Cardinality(S) = Cardinality(M)
  BY <1>7, <1>8, FS_Bijection
<1> QED BY <1>9 DEF M, S

\* The bitmaps after a start.
Booted(D, m) ==
  /\ m.entries = Alive(D) /\ m.sectors = SectorsOf(D) /\ m.sectors \subseteq Sectors
  /\ m.free \in 0 .. 255
  /\ Apart(D, Alive(D)) => m.free = SECTOR_COUNT - Cardinality(m.sectors) /\ m.asserted = TRUE

LEMMA Boots ==
  ASSUME NEW e, e.dir \in Dirs
  PROVE  Booted(e.dir, eepromfs_init(e))
<1> DEFINE D == e.dir
           m == eepromfs_init(e)
           k == Cardinality(MarksOf(D))
<1>1. /\ m.entries = Alive(D) /\ m.sectors = SectorsOf(D)
      /\ m.free = (SECTOR_COUNT - k) % 256
      /\ m.asserted = (k = Cardinality(SectorsOf(D)))
  BY InitUnfold, Zenon
<1>2. SectorsOf(D) \subseteq Sectors
  BY SectorsAre
<1>3. k \in Nat
  BY MarksFinite
<1>4. SECTOR_COUNT \in 1 .. 254
  BY EepromFsAssumption
<1> HIDE DEF m, k
<1>5. m.free \in 0 .. 255
  <2>1. SECTOR_COUNT - k \in Int
    BY <1>3, <1>4
  <2> QED BY <1>1, <2>1
<1>6. ASSUME Apart(D, Alive(D))
      PROVE  m.free = SECTOR_COUNT - Cardinality(m.sectors) /\ m.asserted = TRUE
  <2>1. k = Cardinality(SectorsOf(D))
    BY <1>6, MarksCount DEF k
  <2>2. m.asserted = TRUE
    BY <1>1, <2>1, Zenon
  <2>3. IsFiniteSet(Sectors) /\ Cardinality(Sectors) = SECTOR_COUNT
    BY <1>4, FS_Interval DEF Sectors
  <2>4. k <= SECTOR_COUNT
    BY <1>2, <2>1, <2>3, FS_Subset
  <2>5. (SECTOR_COUNT - k) % 256 = SECTOR_COUNT - k
    BY <1>3, <1>4, <2>4
  <2> QED BY <1>1, <2>1, <2>2, <2>5
<1> QED BY <1>1, <1>2, <1>5, <1>6 DEF Booted, m

\* No link leads to an erased entry or to a file: the directory is sound.
LEMMA BootSound ==
  ASSUME NEW e, e.dir \in Dirs, Apart(e.dir, Alive(e.dir)), ~Dangling(e),
         NEW m, Booted(e.dir, m)
  PROVE  Sound(e.dir, m.entries, m.sectors, {}, {})
<1> DEFINE D == e.dir
<1>1. m.entries = Alive(D) /\ m.sectors = SectorsOf(D) /\ m.sectors \subseteq Sectors
  BY DEF Booted
<1>2. Linked(D, Alive(D), {})
  <2> SUFFICES ASSUME NEW j \in Alive(D), D[j][NEXT] # FF
               PROVE  D[j][NEXT] \in Alive(D) /\ D[D[j][NEXT]][FLAGS] # 0
    BY DEF Linked
  <2>1. j \in Entries /\ ~deleted(D[j]) /\ D[j][NEXT] \in Entries
    BY RowFacts DEF Alive, deleted
  <2>2. D[D[j][NEXT]][FLAGS] = EEFS_FLAG_LISTENTRY
    BY <2>1 DEF Dangling
  <2>3. EEFS_FLAG_LISTENTRY # FF /\ EEFS_FLAG_LISTENTRY # 0
    BY Consts
  <2> QED BY <2>1, <2>2, <2>3 DEF Alive
<1>3. Attached(D, Alive(D), {}) = Alive(D)
  <2>1. ASSUME NEW i \in Alive(D) PROVE D[i][FLAGS] # FF
    BY DEF Alive
  <2> QED BY <2>1 DEF Attached
<1>4. Marked(D, Alive(D), SectorsOf(D))
  BY SectorsAre DEF Marked
<1>5. Alive(D) \subseteq Entries
  BY DEF Alive
<1> QED BY <1>1, <1>2, <1>3, <1>4, <1>5 DEF Sound

-----------------------------------------------------------------------------
(* The inductive invariant.                                                *)

Errors == {"OK", "FILEEXISTS", "FILENOTFOUND", "DIRFULL", "DISKFULL"}

Typed ==
  /\ ee.dir \in Dirs
  /\ ram.sectors \subseteq Sectors /\ ram.entries \subseteq Entries /\ ram.free \in 0 .. 255
  /\ error \in Errors /\ unsure \subseteq Names /\ damaged \in BOOLEAN
  /\ expect \in [Names -> [size : Int, tag : Int]]

HandleOK(h) ==
  \/ h = Closed
  \/ /\ h.mode = "read" /\ Shape(h) /\ h.offset \in Int /\ h.name \in Names
     /\ h.size \in 0 .. MaxSize /\ h.grown = FALSE
  \/ /\ h.mode = "write" /\ h \in Handles /\ h.name \in Names
     /\ h.size \in 0 .. MaxSize /\ h.sindex >= -1

Writer(h) == IF h.mode = "write" THEN {h.entry} ELSE {}

\* Directory D and the bitmaps m agree.  The entry of the open file is still
\* its own, or that of a file u of which nothing is promised.
Intact(D, m, h, u) ==
  /\ Sound(D, m.entries, m.sectors, {}, Writer(h)) /\ Counted(m)
  /\ h.mode = "write" => /\ h.cur \in m.entries
                         /\ \A n \in Names : Shows(D, h.entry, n) => n = h.name \/ n \in u

\* Nothing is allocated in vain, and a file that is written ends at its handle.
Tidy(D, m, h) ==
  /\ Full(D, m.sectors)
  /\ h.mode = "write" /\ h.grown = FALSE =>
       Tip(D, h) /\ \E C : Chain(D, m.entries, h, C)

\* The file n is in the directory as expected: x.
Listed(D, h, x, n) ==
  IF x = Absent THEN /\ \A i \in Entries : ~Shows(D, i, n)
                     /\ ~(h.mode = "write" /\ h.name = n)
  ELSE \E i \in Entries : /\ \A j \in Entries : Shows(D, j, n) <=> j = i
                          /\ IF h.mode = "write" /\ h.name = n
                               THEN h.entry = i /\ h.size = x.size
                               ELSE D[i][SIZE] = x.size

IInv ==
  /\ Typed /\ HandleOK(fh)
  /\ ~damaged => Intact(ee.dir, ram, fh, unsure)
  /\ ~damaged /\ unsure = {} => Tidy(ee.dir, ram, fh)
  /\ damaged => NoLeak
  /\ ~damaged => \A n \in Names \ unsure : Listed(ee.dir, fh, expect[n], n)

-----------------------------------------------------------------------------
(* A start, after a power failure or not.                                  *)

\* No sector is allocated to no file after a start.
LEMMA BootNoLeak ==
  ASSUME NEW D \in Dirs, NEW m, Booted(D, m)
  PROVE  m.sectors = UNION {{D[i][c] : c \in {b \in 1 .. curentry_max_sectors(D[i]) : D[i][b] # FF}} :
                              i \in {j \in Entries : ~deleted(D[j])}}
<1>1. m.sectors = SectorsOf(D)
  BY DEF Booted
<1>2. {j \in Entries : ~deleted(D[j])} = Alive(D)
  BY DEF Alive, deleted
<1>3. SectorsOf(D) = UNION {{D[i][c] : c \in {b \in 1 .. curentry_max_sectors(D[i]) : D[i][b] # FF}} :
                              i \in Alive(D)}
  BY DEF SectorsOf
<1> QED BY <1>1, <1>2, <1>3

LEMMA BootTidy ==
  ASSUME NEW D \in Dirs, NEW m, Booted(D, m), NEW S, Full(D, S)
  PROVE  Full(D, m.sectors)
<1>1. \A s \in m.sectors : \E i \in Alive(D), c \in Cells : Holds(D[i], c) /\ D[i][c] = s
  BY SectorsAre DEF Booted
<1> QED BY <1>1 DEF Full

LEMMA KeptListed ==
  ASSUME NEW D, NEW e, NEW h, NEW k, NEW x, NEW n, Listed(D, h, x, n), Kept(D, e, n),
         ~(h.mode = "write" /\ h.name = n), ~(k.mode = "write" /\ k.name = n)
  PROVE  Listed(e, k, x, n)
<1>1. CASE x = Absent
  BY <1>1 DEF Listed, Kept
<1>2. CASE x # Absent
  <2>1. PICK i \in Entries : (\A j \in Entries : Shows(D, j, n) <=> j = i) /\ D[i][SIZE] = x.size
    BY <1>2 DEF Listed
  <2>2. (\A j \in Entries : Shows(e, j, n) <=> j = i) /\ e[i][SIZE] = x.size
    BY <2>1 DEF Kept
  <2> QED BY <1>2, <2>2 DEF Listed
<1> QED BY <1>1, <1>2

LEMMA RestartInv ==
  ASSUME IInv, NEW e, NEW touched, Restart(e, touched), touched \subseteq Names, e.dir \in Dirs,
         ~damaged => Fair(ee.dir, unsure \cup touched, e.dir),
         touched = {} => e.dir = ee.dir
  PROVE  IInv'
<1> DEFINE D == e.dir
           m == eepromfs_init(e)
<1>1. Booted(D, m)
  BY Boots
<1> HIDE DEF m
<1>2. /\ ee' = e /\ ram' = m /\ fh' = Closed /\ error' = "OK" /\ expect' = expect
      /\ damaged' = (damaged \/ Dangling(e) \/ (fh.grown /\ e.dir # ee.dir))
      /\ unsure' = unsure \cup touched \cup Unclosed
  BY DEF Restart, m
<1>3. /\ HandleOK(Closed) /\ Writer(Closed) = {} /\ Closed.mode # "write"
  BY ClosedIs DEF HandleOK, Writer
<1>4. Unclosed \subseteq Names /\ \A n \in Names \ Unclosed : ~(fh.mode = "write" /\ fh.name = n)
  BY DEF IInv, HandleOK, Unclosed, Closed
<1>5. Typed'
  <2>1. m.sectors \subseteq Sectors /\ m.entries \subseteq Entries /\ m.free \in 0 .. 255
    BY <1>1 DEF Booted, Alive
  <2>2. damaged' \in BOOLEAN
    BY <1>2
  <2> QED BY <1>2, <1>4, <2>1, <2>2 DEF Typed, IInv, Errors
<1>6. ~damaged' => ~damaged /\ ~Dangling(e)
  BY <1>2
<1>7. ~damaged' => Intact(D, m, Closed, unsure')
  <2> SUFFICES ASSUME ~damaged' PROVE Intact(D, m, Closed, unsure')
    OBVIOUS
  <2>1. Apart(D, Alive(D))
    BY <1>6 DEF Fair
  <2>2. Sound(D, m.entries, m.sectors, {}, {})
    BY <1>1, <1>6, <2>1, BootSound
  <2>3. Counted(m)
    BY <1>1, <2>1 DEF Booted, Counted
  <2> QED BY <1>3, <2>2, <2>3 DEF Intact
<1>8. ~damaged' /\ unsure' = {} => Tidy(D, m, Closed)
  <2> SUFFICES ASSUME ~damaged', unsure' = {} PROVE Tidy(D, m, Closed)
    OBVIOUS
  <2>1. unsure = {} /\ touched = {} /\ ~damaged
    BY <1>2, <1>6
  <2>2. Full(D, ram.sectors)
    BY <2>1 DEF IInv, Tidy
  <2> QED BY <1>1, <1>3, <2>2, BootTidy DEF Tidy
<1>9. NoLeak'
  BY <1>1, <1>2, BootNoLeak DEF NoLeak, Owned, Live
<1>10. ~damaged' => \A n \in Names \ unsure' : Listed(D, Closed, expect[n], n)
  <2> SUFFICES ASSUME ~damaged', NEW n \in Names \ unsure' PROVE Listed(D, Closed, expect[n], n)
    OBVIOUS
  <2>1. n \notin unsure /\ n \notin touched /\ n \notin Unclosed /\ n \in Names
    BY <1>2
  <2>2. Listed(ee.dir, fh, expect[n], n) /\ Kept(ee.dir, D, n)
    BY <1>6, <2>1 DEF IInv, Fair
  <2> QED BY <1>3, <1>4, <2>1, <2>2, KeptListed
<1> QED BY <1>2, <1>3, <1>5, <1>7, <1>8, <1>9, <1>10 DEF IInv

-----------------------------------------------------------------------------
(* An operation begins with the state and ends with device d and handle h. *)

LEMMA DeviceIs ==
  /\ Dev(Device) /\ Device.dir = ee.dir /\ Device.past = {ee} /\ Device.sectors = ram.sectors
  /\ Device.entries = ram.entries /\ Device.free = ram.free
BY DEF Device, Dev

LEMMA StateIs ==
  ASSUME NEW d
  PROVE  /\ EE(d).dir = d.dir /\ RAM(d).sectors = d.sectors /\ RAM(d).entries = d.entries
         /\ RAM(d).free = d.free /\ RAM(d).asserted = d.asserted
BY DEF EE, RAM

LEMMA StartGood ==
  ASSUME IInv, ~damaged
  PROVE  Good(Device, {}, Writer(fh), ee.dir, {})
<1>1. Sound(ee.dir, ram.entries, ram.sectors, {}, Writer(fh)) /\ Counted(ram)
  BY DEF IInv, Intact
<1>2. \A n \in Names : Kept(ee.dir, ee.dir, n)
  BY DEF Kept
<1>3. Fair(ee.dir, {}, ee.dir)
  BY <1>1, <1>2, SoundFair
<1>4. Counted(Device)
  <2>1. Device.asserted = TRUE
    BY DEF Device
  <2> QED BY <1>1, <2>1, DeviceIs DEF Counted
<1> QED BY <1>1, <1>2, <1>3, <1>4, DeviceIs DEF Good

LEMMA GoodMore ==
  ASSUME NEW d, NEW X, NEW W, NEW D, NEW T, Good(d, X, W, D, T), NEW V, T \subseteq V
  PROVE  Good(d, X, W, D, V)
BY DEF Good, Fair

LEMMA GoodLess ==
  ASSUME NEW d, NEW W, NEW D, NEW T, Good(d, {}, W, D, T)
  PROVE  Good(d, {}, {}, D, T)
BY SoundLess DEF Good

\* What is left to show when an operation ends.
Ending(d, h, err, new, u) ==
  /\ \E W, T : Good(d, {}, W, ee.dir, T) /\ Writer(h) \subseteq W
  /\ HandleOK(h) /\ err \in Errors /\ u \subseteq Names
  /\ new \in [Names -> [size : Int, tag : Int]]
  /\ h.mode = "write" => /\ h.cur \in d.entries
                         /\ \A n \in Names : Shows(d.dir, h.entry, n) => n = h.name \/ n \in u
  /\ u = {} => Tidy(d.dir, d, h)
  /\ \A n \in Names \ u : Listed(d.dir, h, new[n], n)

LEMMA SoundSmaller ==
  ASSUME NEW D, NEW E, NEW S, NEW W, NEW V, Sound(D, E, S, {}, W), V \subseteq W
  PROVE  Sound(D, E, S, {}, V)
<1>1. Linked(D, E, V)
  BY DEF Sound, Linked
<1> QED BY <1>1 DEF Sound

\* The operation comes to its end: nothing is promised of the damaged.
LEMMA EndInv ==
  ASSUME IInv, ~damaged, NEW d, NEW h, NEW err, NEW new, NEW u,
         ee' = EE(d), ram' = RAM(d), fh' = h, error' = err, expect' = new, unsure' = u,
         damaged' \in BOOLEAN, Typed',  HandleOK(h),
         damaged' => u # {} \/ h.mode = "write",
         ~damaged' => Ending(d, h, err, new, u)
  PROVE  IInv'
<1>1. ee'.dir = d.dir /\ ram'.sectors = d.sectors /\ ram'.entries = d.entries
      /\ ram'.free = d.free /\ ram'.asserted = d.asserted
  BY StateIs
<1>2. CASE damaged'
  <2>1. unsure' # {} \/ fh'.mode = "write"
    BY <1>2
  <2>2. fh'.mode = "write" => fh' # Closed
    BY ClosedIs
  <2>3. NoLeak'
    BY <2>1, <2>2 DEF NoLeak
  <2> QED BY <1>2, <2>3 DEF IInv
<1>3. CASE ~damaged'
  <2>1. PICK W, T : Good(d, {}, W, ee.dir, T) /\ Writer(h) \subseteq W
    BY <1>3 DEF Ending
  <2>2. Sound(d.dir, d.entries, d.sectors, {}, Writer(h)) /\ Counted(d)
    BY <2>1, GoodFacts, SoundSmaller
  <2>3. Intact(ee'.dir, ram', fh', unsure')
    BY <1>1, <1>3, <2>2 DEF Intact, Ending, Counted
  <2>4. unsure' = {} => Tidy(ee'.dir, ram', fh')
    BY <1>1, <1>3 DEF Tidy, Ending
  <2>5. \A n \in Names \ unsure' : Listed(ee'.dir, fh', expect'[n], n)
    BY <1>1, <1>3 DEF Ending
  <2> QED BY <1>3, <2>3, <2>4, <2>5 DEF IInv
<1> QED BY <1>2, <1>3

\* The power fails in an operation.
LEMMA FailInv ==
  ASSUME IInv, ~damaged, NEW d, NEW W, NEW touched, NEW T, Good(d, {}, W, ee.dir, T),
         T \subseteq unsure \cup touched, touched \subseteq Names, touched = {} => d.past = {ee},
         \E e \in d.past : Restart(e, touched)
  PROVE  IInv'
<1>1. PICK e \in d.past : Restart(e, touched)
  OBVIOUS
<1>2. Good(d, {}, W, ee.dir, unsure \cup touched)
  BY GoodMore
<1>3. Fair(ee.dir, unsure \cup touched, e.dir)
  BY <1>2 DEF Good
<1>4. e.dir \in Dirs
  BY <1>3 DEF Fair
<1>5. touched = {} => e.dir = ee.dir
  OBVIOUS
<1> QED BY <1>1, <1>3, <1>4, <1>5, RestartInv

\* The operation changed nothing.
LEMMA SameInv ==
  ASSUME IInv, ~damaged, NEW r, r.d = Device, r.h = fh, r.err \in Errors,
         NEW doubt, doubt \subseteq Names, NEW touched, touched \subseteq Names,
         Finish(r, expect, doubt, touched)
  PROVE  IInv'
<1>0. Good(Device, {}, Writer(fh), ee.dir, {})
  BY StartGood
<1>1. CASE \E e \in r.d.past : Restart(e, touched)
  <2>1. r.d.past = {ee} /\ {} \subseteq unsure \cup touched
    BY DeviceIs
  <2> QED BY <1>0, <1>1, <2>1, FailInv
<1>2. CASE /\ ee' = EE(r.d) /\ ram' = RAM(r.d) /\ fh' = r.h /\ error' = r.err
           /\ expect' = expect /\ unsure' = unsure \cup doubt
           /\ damaged' = (damaged \/ (fh.grown /\ r.d.sectors # ram.sectors))
  <2> DEFINE u == unsure \cup doubt
  <2>1. damaged' = FALSE
    BY <1>2, DeviceIs
  <2>2. ee'.dir = ee.dir /\ ram'.sectors = ram.sectors /\ ram'.entries = ram.entries
        /\ ram'.free = ram.free
    BY <1>2, StateIs, DeviceIs
  <2>3. Typed'
    BY <1>2, <2>1, <2>2 DEF Typed, IInv
  <2>4. Intact(ee.dir, ram, fh, unsure)
    BY DEF IInv
  <2>5. u = {} => Tidy(ee.dir, Device, fh)
    BY DeviceIs DEF IInv, Tidy
  <2>6. Ending(Device, fh, r.err, expect, u)
    <3>1. fh.mode = "write" => /\ fh.cur \in Device.entries
             /\ \A n \in Names : Shows(Device.dir, fh.entry, n) => n = fh.name \/ n \in u
      BY <2>4, DeviceIs DEF Intact
    <3>2. \A n \in Names \ u : Listed(Device.dir, fh, expect[n], n)
      BY DeviceIs DEF IInv
    <3>3. u \subseteq Names /\ expect \in [Names -> [size : Int, tag : Int]] /\ HandleOK(fh)
      BY DEF IInv, Typed
    <3> HIDE DEF u
    <3> QED BY <1>0, <2>5, <3>1, <3>2, <3>3, DeviceIs DEF Ending
  <2>7. HandleOK(fh)
    BY DEF IInv
  <2> QED BY <1>2, <2>1, <2>3, <2>6, <2>7, EndInv
<1> QED BY <1>1, <1>2 DEF Finish

\* An erased EEPROM, and the bitmaps that eepromfs_init makes of it.
Empty(D, m) ==
  /\ D \in Dirs /\ m.sectors \subseteq Sectors /\ m.entries \subseteq Entries /\ m.free \in 0 .. 255
  /\ Sound(D, m.entries, m.sectors, {}, {}) /\ Counted(m) /\ Full(D, m.sectors)
  /\ \A i \in Entries, n \in Names : ~Shows(D, i, n)

LEMMA BlankIs == Empty(Blank.dir, eepromfs_init(Blank))
<1> DEFINE D == Blank.dir
           m == eepromfs_init(Blank)
<1>2. D = [i \in Entries |-> [c \in Cells |-> FF]]
  BY DEF Blank
<1> HIDE DEF D
<1>3. \A i \in Entries : D[i][FLAGS] = FF /\ D[i] = Wiped
  BY <1>2, Fields DEF Wiped
<1>4. D \in Dirs
  <2>1. FF \in Nat /\ FF # 0
    BY Consts
  <2>2. Wiped \in Row
    BY <2>1, WipedIs, Fields DEF Row
  <2> QED BY <1>2, <2>2 DEF Dirs, Wiped
<1>5. Alive(D) = {}
  BY <1>3 DEF Alive
<1>6. Booted(D, m)
  BY <1>4, Boots DEF D
<1> HIDE DEF m
<1>7. ~Dangling(Blank) /\ Apart(D, Alive(D))
  BY <1>3, <1>5 DEF Dangling, deleted, Apart, D
<1>8. Sound(D, m.entries, m.sectors, {}, {})
  BY <1>4, <1>6, <1>7, BootSound DEF D
<1>9. m.sectors \subseteq Sectors /\ m.entries \subseteq Entries /\ m.free \in 0 .. 255
  BY <1>5, <1>6 DEF Booted
<1>10. Counted(m)
  BY <1>6, <1>7 DEF Booted, Counted
<1>11. Full(D, m.sectors)
  <2>1. m.sectors = {}
    BY <1>4, <1>5, <1>6, SectorsAre DEF Booted
  <2> QED BY <1>5, <2>1 DEF Full
<1>12. \A i \in Entries, n \in Names : ~Shows(D, i, n)
  <2>1. 0 # FF
    BY Consts
  <2> QED BY <1>3, <2>1 DEF Shows
<1>13. Empty(D, m)
  BY <1>4, <1>8, <1>9, <1>10, <1>11, <1>12 DEF Empty
<1> QED BY <1>13 DEF D, m

LEMMA EmptyIs ==
  ASSUME NEW D, NEW m, Empty(D, m), NEW h, h.mode # "write", NEW u
  PROVE  /\ Intact(D, m, h, u) /\ Tidy(D, m, h) /\ \A n \in Names : Listed(D, h, Absent, n)
BY DEF Empty, Intact, Tidy, Listed, Writer

LEMMA InitInv == Init => IInv
<1> SUFFICES ASSUME Init PROVE IInv
  OBVIOUS
<1>1. /\ ee = Blank /\ ram = eepromfs_init(Blank) /\ fh = Closed /\ error = "OK"
      /\ expect = [n \in Names |-> Absent] /\ unsure = {} /\ damaged = FALSE
  BY DEF Init
<1>2. Empty(ee.dir, ram) /\ fh.mode # "write"
  BY <1>1, BlankIs, ClosedIs
<1>3. Typed
  <2>1. Absent \in [size : Int, tag : Int]
    BY DEF Absent
  <2> QED BY <1>1, <1>2, <2>1 DEF Typed, Errors, Empty
<1>4. /\ Intact(ee.dir, ram, fh, unsure) /\ Tidy(ee.dir, ram, fh)
      /\ \A n \in Names : Listed(ee.dir, fh, Absent, n)
  BY <1>2, EmptyIs
<1>5. \A n \in Names : Listed(ee.dir, fh, expect[n], n)
  BY <1>1, <1>4
<1>6. HandleOK(fh)
  BY <1>1 DEF HandleOK
<1> QED BY <1>1, <1>3, <1>4, <1>5, <1>6 DEF IInv


LEMMA GoodTypes ==
  ASSUME NEW d, NEW W, NEW D, NEW T, Good(d, {}, W, D, T)
  PROVE  /\ d.dir \in Dirs /\ d.sectors \subseteq Sectors /\ d.entries \subseteq Entries
         /\ d.free \in 0 .. 255
<1>1. /\ d.dir \in Dirs /\ d.sectors \subseteq Sectors /\ d.entries \subseteq Entries
      /\ d.free = SECTOR_COUNT - Cardinality(d.sectors)
  BY GoodFacts DEF Counted
<1>2. SECTOR_COUNT \in 1 .. 254
  BY EepromFsAssumption
<1>3. IsFiniteSet(Sectors) /\ Cardinality(Sectors) = SECTOR_COUNT
  BY <1>2, FS_Interval DEF Sectors
<1>4. Cardinality(d.sectors) \in Nat /\ Cardinality(d.sectors) <= SECTOR_COUNT
  BY <1>1, <1>3, FS_Subset, FS_CardinalityType
<1> QED BY <1>1, <1>2, <1>4

\* What an operation with result r has to show.
Outcome(r, new, doubt, touched) ==
  /\ \E W, T : Good(r.d, {}, W, ee.dir, T) /\ T \subseteq unsure \cup touched
  /\ touched \subseteq Names /\ (touched = {} => r.d.past = {ee}) /\ doubt \subseteq Names
  /\ HandleOK(r.h) /\ r.err \in Errors /\ new \in [Names -> [size : Int, tag : Int]]
  /\ fh.grown /\ r.d.sectors # ram.sectors => doubt # {} \/ r.h.mode = "write"
  /\ ~(fh.grown /\ r.d.sectors # ram.sectors)
       => Ending(r.d, r.h, r.err, new, unsure \cup doubt)

\* It comes to its end, or the power fails.
LEMMA FinishInv ==
  ASSUME IInv, ~damaged, NEW r, NEW new, NEW doubt, NEW touched,
         Outcome(r, new, doubt, touched), Finish(r, new, doubt, touched)
  PROVE  IInv'
<1>0. PICK W, T : Good(r.d, {}, W, ee.dir, T) /\ T \subseteq unsure \cup touched
  BY DEF Outcome
<1>1. CASE \E e \in r.d.past : Restart(e, touched)
  BY <1>0, <1>1, FailInv DEF Outcome
<1>2. CASE /\ ee' = EE(r.d) /\ ram' = RAM(r.d) /\ fh' = r.h /\ error' = r.err
           /\ expect' = new /\ unsure' = unsure \cup doubt
           /\ damaged' = (damaged \/ (fh.grown /\ r.d.sectors # ram.sectors))
  <2>1. damaged' \in BOOLEAN /\ (damaged' <=> fh.grown /\ r.d.sectors # ram.sectors)
    BY <1>2
  <2>2. ee'.dir = r.d.dir /\ ram'.sectors = r.d.sectors /\ ram'.entries = r.d.entries
        /\ ram'.free = r.d.free
    BY <1>2, StateIs
  <2>3. Typed'
    BY <1>0, <1>2, <2>1, <2>2, GoodTypes DEF Typed, IInv, Outcome
  <2>4. damaged' => unsure \cup doubt # {} \/ r.h.mode = "write"
    BY <2>1 DEF Outcome
  <2>5. ~damaged' => Ending(r.d, r.h, r.err, new, unsure \cup doubt)
    BY <2>1 DEF Outcome
  <2> DEFINE u == unsure \cup doubt
  <2> HIDE DEF u
  <2>6. unsure' = u /\ (damaged' => u # {} \/ r.h.mode = "write")
        /\ (~damaged' => Ending(r.d, r.h, r.err, new, u))
    BY <1>2, <2>4, <2>5 DEF u
  <2> QED BY <1>2, <2>1, <2>3, <2>6, EndInv DEF Outcome
<1> QED BY <1>1, <1>2 DEF Finish

-----------------------------------------------------------------------------
(* The operations.                                                         *)

LEMMA ExpectIs ==
  ASSUME Typed, NEW n \in Names
  PROVE  Tag(n) \in Int /\ expect[n] \in [size : Int, tag : Int]
<1>1. expect[n] \in [size : Int, tag : Int] /\ n \in Int
  BY Ints DEF Typed
<1> QED BY <1>1 DEF Tag

LEMMA OpenReadInv ==
  ASSUME IInv, ~damaged, NEW n \in Names, OpenRead(n)
  PROVE  IInv'
<1> DEFINE r == open_read(Device, n)
<1>1. fh = Closed /\ Finish(r, expect, {}, {})
  BY DEF OpenRead
<1>2. Good(Device, {}, {}, ee.dir, {}) /\ Sound(Device.dir, Device.entries, Device.sectors, {}, {})
  BY <1>1, StartGood, GoodFacts, ClosedIs DEF Writer
<1>3. Opens(Device, r, n, "read")
  BY <1>2, ExpectIs, OpenReadIs DEF IInv
<1> HIDE DEF r
<1>4. CASE r.err = "FILENOTFOUND" /\ r.d = Device /\ r.h = Closed
  <2>1. r.err \in Errors /\ {} \subseteq Names
    BY <1>4 DEF Errors
  <2> QED BY <1>1, <1>4, <2>1, SameInv
<1>5. CASE /\ r.err = "OK" /\ r.d = Device /\ r.h \in Handles
           /\ r.h.mode = "read" /\ r.h.name = n /\ r.h.size \in 0 .. MaxSize
           /\ r.h.grown = FALSE
  <2>1. HandleOK(r.h)
    BY <1>5, HandleShape DEF HandleOK
  <2>2. r.d.dir = ee.dir /\ r.d.sectors = ram.sectors /\ r.d.past = {ee}
    BY <1>5, DeviceIs
  <2>3. r.h.mode # "write" /\ fh.mode # "write"
    BY <1>1, <1>5, ClosedIs
  <2>4. \A k \in Names \ unsure : Listed(ee.dir, r.h, expect[k], k)
    BY <2>3 DEF IInv, Listed
  <2>5. unsure = {} => Tidy(ee.dir, r.d, r.h)
    BY <2>2, <2>3 DEF IInv, Tidy
  <2>6. /\ Good(r.d, {}, {}, ee.dir, {}) /\ Writer(r.h) \subseteq {} /\ r.err \in Errors
        /\ unsure \cup {} = unsure
        /\ unsure \subseteq Names /\ expect \in [Names -> [size : Int, tag : Int]]
    BY <1>2, <1>5, <2>3 DEF Writer, Errors, IInv, Typed
  <2>7. Ending(r.d, r.h, r.err, expect, unsure \cup {})
    BY <2>1, <2>2, <2>3, <2>4, <2>5, <2>6 DEF Ending
  <2>8. Outcome(r, expect, {}, {})
    BY <2>1, <2>2, <2>6, <2>7 DEF Outcome
  <2> QED BY <1>1, <2>8, FinishInv
<1> QED BY <1>3, <1>4, <1>5 DEF Opens

LEMMA OpenAppendInv ==
  ASSUME IInv, ~damaged, NEW n \in Names, OpenAppend(n)
  PROVE  IInv'
<1> DEFINE r == open_append(Device, n)
<1>1. fh = Closed /\ Finish(r, expect, {}, {n})
  BY DEF OpenAppend
<1>2. Good(Device, {}, {}, ee.dir, {}) /\ Sound(Device.dir, Device.entries, Device.sectors, {}, {})
  BY <1>1, StartGood, GoodFacts, ClosedIs DEF Writer
<1>3. Opens(Device, r, n, "write")
  BY <1>2, ExpectIs, OpenAppendIs DEF IInv
<1> HIDE DEF r
<1>4. CASE r.err = "FILENOTFOUND" /\ r.d = Device /\ r.h = Closed
  <2>1. r.err \in Errors /\ {} \subseteq Names /\ {n} \subseteq Names
    BY <1>4 DEF Errors
  <2> QED BY <1>1, <1>4, <2>1, SameInv
<1>5. CASE /\ r.err = "OK" /\ r.d = Device /\ r.h \in Handles
           /\ r.h.mode = "write" /\ r.h.name = n
           /\ r.h.entry \in Entries /\ Shows(Device.dir, r.h.entry, n)
           /\ r.h.size = Device.dir[r.h.entry][SIZE] /\ r.h.size \in 0 .. MaxSize
           /\ r.h.cur \in Device.entries /\ r.h.sindex = 0 /\ r.h.grown = TRUE
  <2> DEFINE i == r.h.entry
             W == {i}
  <2>1. HandleOK(r.h)
    BY <1>5 DEF HandleOK
  <2>2. r.d.dir = ee.dir /\ r.d.sectors = ram.sectors /\ r.d.entries = ram.entries
    BY <1>5, DeviceIs
  <2>3. Shows(ee.dir, i, n) /\ r.h.size = ee.dir[i][SIZE]
    BY <1>5, DeviceIs
  <2>4. Good(r.d, {}, W, ee.dir, {})
    <3>1. Sound(ee.dir, ram.entries, ram.sectors, {}, {})
      BY <1>2, DeviceIs
    <3>2. 0 # FF /\ 0 # EEFS_FLAG_LISTENTRY /\ ee.dir[i][FLAGS] = 0
      BY <2>3, Consts DEF Shows
    <3>3. i \in ram.entries
      BY <1>5, <3>1, <3>2 DEF Sound, Alive
    <3>4. Linked(ee.dir, ram.entries, W)
      BY <3>1, <3>2 DEF Sound, Linked
    <3>5. Sound(ee.dir, ram.entries, ram.sectors, {}, W)
      BY <3>1, <3>2, <3>3, <3>4 DEF Sound
    <3> QED BY <1>2, <1>5, <2>2, <3>5 DEF Good
  <2>5. \A k \in Names \ unsure : Listed(ee.dir, r.h, expect[k], k)
    <3> SUFFICES ASSUME NEW k \in Names \ unsure PROVE Listed(ee.dir, r.h, expect[k], k)
      OBVIOUS
    <3>1. Listed(ee.dir, fh, expect[k], k) /\ fh.mode # "write"
      BY <1>1, ClosedIs DEF IInv
    <3>2. CASE k # n
      BY <1>5, <3>1, <3>2 DEF Listed
    <3>3. CASE k = n
      <4>1. expect[n] # Absent
        BY <1>5, <2>3, <3>1, <3>3 DEF Listed
      <4>2. PICK j \in Entries : (\A l \in Entries : Shows(ee.dir, l, n) <=> l = j)
                                 /\ ee.dir[j][SIZE] = expect[n].size
        BY <3>1, <3>3, <4>1 DEF Listed
      <4>3. i = j
        BY <1>5, <2>3, <4>2
      <4> QED BY <1>5, <2>3, <3>3, <4>1, <4>2, <4>3 DEF Listed
    <3> QED BY <3>2, <3>3
  <2>6. unsure = {} => Tidy(ee.dir, r.d, r.h)
    BY <1>5, <2>2 DEF IInv, Tidy
  <2>7. /\ Writer(r.h) \subseteq W /\ r.err \in Errors /\ unsure \cup {} = unsure
        /\ unsure \subseteq Names /\ expect \in [Names -> [size : Int, tag : Int]]
    BY <1>5 DEF Writer, Errors, IInv, Typed
  <2>8. \A k \in Names : Shows(ee.dir, i, k) => k = n
    BY <2>3 DEF Shows
  <2> HIDE DEF W
  <2>9. Ending(r.d, r.h, r.err, expect, unsure \cup {})
    BY <1>5, <2>1, <2>2, <2>4, <2>5, <2>6, <2>7, <2>8 DEF Ending
  <2>10. {n} \subseteq Names /\ {n} # {} /\ {} \subseteq Names /\ {} \subseteq unsure \cup {n}
    OBVIOUS
  <2>11. ~(fh.grown /\ r.d.sectors # ram.sectors)
    BY <2>2
  <2>12. Outcome(r, expect, {}, {n})
    BY <2>1, <2>4, <2>7, <2>9, <2>10, <2>11 DEF Outcome
  <2> QED BY <1>1, <2>12, FinishInv
<1> QED BY <1>3, <1>4, <1>5 DEF Opens

\* The handle of a new file.
NewHandle(name, i) ==
  [Closed EXCEPT !.mode = "write", !.name = name, !.tag = name, !.entry = i,
                 !.cur = i, !.sindex = -1]

Fresh(h, name, i) ==
  /\ h \in Handles /\ h.mode = "write" /\ h.name = name /\ h.size = 0
  /\ h.entry = i /\ h.cur = i /\ h.sindex = -1 /\ h.grown = FALSE

LEMMA NewHandleIs ==
  ASSUME NEW name \in Names, NEW i \in Entries
  PROVE  Fresh(NewHandle(name, i), name, i)
<1> DEFINE h == NewHandle(name, i)
<1>1. name \in Int /\ i \in Int /\ -1 \in Int
  BY Ints
<1>2. h \in Handles
  BY <1>1, ClosedIs DEF NewHandle, Handles
<1>3. /\ h.mode = "write" /\ h.name = name /\ h.size = 0
      /\ h.entry = i /\ h.cur = i /\ h.sindex = -1 /\ h.grown = FALSE
  BY DEF NewHandle, Closed
<1> QED BY <1>2, <1>3 DEF Fresh

\* The directory with a new file.
LEMMA AddTidy ==
  ASSUME NEW D, NEW E, NEW S, Sound(D, E, S, {}, {}), Full(D, S), NEW i \in Entries \ E,
         NEW name \in Names, NEW h, h.cur = i, h.entry = i, h.sindex = -1,
         NEW e, e = [D EXCEPT ![i] = NewEntry(name)]
  PROVE  /\ Full(e, S) /\ Tip(e, h) /\ \E C : Chain(e, E \cup {i}, h, C)
<1> DEFINE r == NewEntry(name)
<1>1. /\ r[FLAGS] = 0 /\ r[NEXT] = FF /\ \A c \in 1 .. Links : r[c] = FF
  BY NewEntryIs
<1>2. D \in Dirs /\ E \subseteq Entries /\ Alive(D) \subseteq E /\ Linked(D, E, {}) /\ 0 # FF
  BY Consts DEF Sound
<1>3. e[i] = r /\ \A j \in Entries : j # i => e[j] = D[j]
  BY <1>2 DEF Dirs
<1> HIDE DEF r
<1>4. Alive(e) = Alive(D) \cup {i} /\ i \notin Alive(D)
  BY <1>1, <1>2, <1>3 DEF Alive
<1>5. curentry_max_sectors(r) = Links
  BY <1>1, Width
<1>6. \A c \in Cells : ~Holds(e[i], c)
  BY <1>1, <1>3, <1>5 DEF Holds
<1>7. \A j \in Alive(e), c \in Cells : Holds(e[j], c) => j \in Alive(D) /\ e[j] = D[j]
  BY <1>3, <1>4, <1>6 DEF Alive
<1>8. Full(e, S)
  <2>1. \A j \in Alive(e), c \in Cells : Holds(e[j], c) => \A b \in 1 .. c : e[j][b] # FF
    BY <1>7 DEF Full
  <2>2. ASSUME NEW s \in S PROVE \E j \in Alive(e), c \in Cells : Holds(e[j], c) /\ e[j][c] = s
    <3>1. PICK j \in Alive(D), c \in Cells : Holds(D[j], c) /\ D[j][c] = s
      BY DEF Full
    <3>2. j \in Alive(e) /\ e[j] = D[j]
      BY <1>3, <1>4 DEF Alive
    <3> QED BY <3>1, <3>2
  <2> QED BY <2>1, <2>2 DEF Full
<1>9. Tip(e, h)
  <2>1. \A c \in 1 .. Links : ~(c <= h.sindex + 1)
    OBVIOUS
  <2> QED BY <1>1, <1>2, <1>3, <1>5, <2>1 DEF Tip
<1>10. Chain(e, E \cup {i}, h, {i})
  <2>1. \A j \in E : e[j][NEXT] # i
    BY <1>2, <1>3, FFOutside DEF Linked
  <2> QED BY <2>1 DEF Chain, Before
<1> QED BY <1>8, <1>9, <1>10

LEMMA OpenWriteInv ==
  ASSUME IInv, ~damaged, NEW n \in Names, OpenWrite(n)
  PROVE  IInv'
<1> DEFINE d == Device
           r == open_write(d, n)
           i == next_free_entry(d, 0)
           x == [size |-> 0, tag |-> n]
           new == IF r.err = "OK" THEN [expect EXCEPT ![n] = x] ELSE expect
<1>1. fh = Closed /\ Finish(r, new, {}, {n})
  BY DEF OpenWrite
<1>2. Good(d, {}, {}, ee.dir, {}) /\ Sound(d.dir, d.entries, d.sectors, {}, {}) /\ d.dir \in Dirs
  BY <1>1, StartGood, GoodFacts, ClosedIs DEF Writer
<1>3. r = IF find_entry(d, n) # FF THEN Result(d, Closed, "FILEEXISTS")
          ELSE IF i = FF THEN Result(d, Closed, "DIRFULL")
          ELSE Result(AddDev(d, i, n), NewHandle(n, i), "OK")
  BY Zenon DEF open_write, AddDev, NewHandle
<1>0. i = FF \/ i \in Entries \ d.entries
  <2>1. 0 \in Int /\ ENTRIES \in Nat
    BY Consts
  <2> QED BY <2>1, NextFreeIs DEF next_free_entry, Entries
<1> HIDE DEF r, i, x
<1>4. CASE find_entry(d, n) # FF \/ i = FF
  <2>1. r.d = d /\ r.h = Closed /\ r.err \in {"FILEEXISTS", "DIRFULL"}
    BY <1>3, <1>4, ResultIs
  <2>2. r.err \in Errors /\ {} \subseteq Names /\ {n} \subseteq Names /\ r.err # "OK"
    BY <2>1 DEF Errors
  <2>3. Finish(r, expect, {}, {n})
    BY <1>1, <2>2
  <2> QED BY <1>1, <2>1, <2>2, <2>3, SameInv
<1>5. CASE find_entry(d, n) = FF /\ i # FF
  <2>1. r.d = AddDev(d, i, n) /\ r.h = NewHandle(n, i) /\ r.err = "OK"
    BY <1>3, <1>5, ResultIs
  <2>2. i \in Entries \ d.entries
    BY <1>0, <1>5
  <2>3. Good(d, {}, {}, ee.dir, {n})
    BY <1>2, GoodMore
  <2>4. AddedDev(d, r.d, i, n, ee.dir, {n})
    BY <2>1, <2>2, <2>3, AddGood
  <2>5. /\ Good(r.d, {}, {i}, ee.dir, {n}) /\ r.d.dir = [d.dir EXCEPT ![i] = NewEntry(n)]
        /\ r.d.sectors = d.sectors /\ r.d.entries = d.entries \cup {i}
    BY <2>4 DEF AddedDev
  <2>6. /\ r.h \in Handles /\ r.h.mode = "write" /\ r.h.name = n /\ r.h.size = 0
        /\ r.h.entry = i /\ r.h.cur = i /\ r.h.sindex = -1 /\ r.h.grown = FALSE
    <3>1. Fresh(NewHandle(n, i), n, i)
      BY <2>2, NewHandleIs
    <3>2. Fresh(r.h, n, i)
      BY <2>1, <3>1
    <3> QED BY <3>2 DEF Fresh
  <2>7. HandleOK(r.h)
    <3>1. 0 \in 0 .. MaxSize
      BY Consts
    <3> QED BY <2>6, <3>1 DEF HandleOK
  <2>8. unsure = {} => Tidy(r.d.dir, r.d, r.h)
    <3> SUFFICES ASSUME unsure = {} PROVE Tidy(r.d.dir, r.d, r.h)
      OBVIOUS
    <3>1. Full(d.dir, d.sectors)
      BY DeviceIs DEF IInv, Tidy
    <3>2. /\ Full(r.d.dir, d.sectors) /\ Tip(r.d.dir, r.h)
          /\ \E C : Chain(r.d.dir, d.entries \cup {i}, r.h, C)
      <4> HIDE DEF d
      <4> QED BY <1>2, <2>2, <2>5, <2>6, <3>1, AddTidy
    <3> QED BY <2>5, <3>2 DEF Tidy
  <2>9. /\ r.d.dir[i] = NewEntry(n) /\ \A j \in Entries : j # i => r.d.dir[j] = d.dir[j]
    BY <1>2, <2>2, <2>5 DEF Dirs
  <2>10. NewEntry(n)[FLAGS] = 0 /\ NewEntry(n)[NAME] = n
    BY NewEntryIs
  <2>11. \A k \in Names : Shows(r.d.dir, i, k) => k = n
    BY <2>9, <2>10 DEF Shows
  <2>12. x \in [size : Int, tag : Int] /\ x # Absent /\ x.size = 0
    <3>1. n \in Int
      BY Ints
    <3>2. x.size = 0 /\ Absent.size = -1
      BY DEF x, Absent
    <3> QED BY <3>1, <3>2 DEF x
  <2>13. new = [expect EXCEPT ![n] = x] /\ expect \in [Names -> [size : Int, tag : Int]]
    BY <2>1 DEF IInv, Typed
  <2> HIDE DEF new
  <2>14. new \in [Names -> [size : Int, tag : Int]] /\ new[n] = x
         /\ \A k \in Names : k # n => new[k] = expect[k]
    BY <2>12, <2>13
  <2>15. \A k \in Names \ unsure : Listed(r.d.dir, r.h, new[k], k)
    <3> SUFFICES ASSUME NEW k \in Names \ unsure PROVE Listed(r.d.dir, r.h, new[k], k)
      OBVIOUS
    <3>1. CASE k = n
      <4>1. \A j \in Entries : Shows(r.d.dir, j, n) <=> j = i
        BY <1>2, <1>5, <2>9, <2>10, FindIs, FFOutside DEF Shows
      <4> QED BY <2>2, <2>6, <2>12, <2>14, <3>1, <4>1 DEF Listed
    <3>2. CASE k # n
      <4>1. Kept(ee.dir, r.d.dir, k)
        BY <2>5, <3>2 DEF Good
      <4>2. Listed(ee.dir, fh, expect[k], k) /\ fh.mode # "write"
        BY <1>1, ClosedIs DEF IInv
      <4>3. Listed(r.d.dir, r.h, expect[k], k)
        BY <2>6, <3>2, <4>1, <4>2, KeptListed
      <4> QED BY <2>14, <3>2, <4>3
    <3> QED BY <3>1, <3>2
  <2>16. /\ Writer(r.h) \subseteq {i} /\ r.err \in Errors /\ unsure \cup {} = unsure
         /\ unsure \subseteq Names /\ r.h.cur \in r.d.entries
    BY <2>1, <2>5, <2>6 DEF Writer, Errors, IInv, Typed
  <2>17. Ending(r.d, r.h, r.err, new, unsure \cup {})
    BY <2>5, <2>6, <2>7, <2>8, <2>11, <2>14, <2>15, <2>16 DEF Ending
  <2>18. r.d.sectors = ram.sectors
    BY <2>5, DeviceIs
  <2>19. Outcome(r, new, {}, {n})
    BY <2>5, <2>7, <2>14, <2>16, <2>17, <2>18 DEF Outcome
  <2>20. Finish(r, new, {}, {n})
    BY <1>1
  <2> QED BY <2>19, <2>20, FinishInv
<1> QED BY <1>4, <1>5

-----------------------------------------------------------------------------
(* Writing and closing a file.                                             *)

\* What is known of the file open for writing.
LEMMA WriterIs ==
  ASSUME IInv, fh.mode = "write"
  PROVE  /\ fh \in Handles /\ fh.name \in Names /\ fh.size \in 0 .. MaxSize /\ fh.sindex >= -1
         /\ Writer(fh) = {fh.entry}
BY ClosedIs DEF IInv, HandleOK, Writer

Written(r, n) ==
  /\ Steady(Device, fh, r, Writer(fh), ee.dir, {})
  /\ fh.size <= r.h.size /\ r.h.size <= fh.size + n

LEMMA WrittenIs ==
  ASSUME IInv, ~damaged, fh.mode = "write", NEW n \in Nat, NEW stray \in BOOLEAN
  PROVE  Written(eepromfs_write(Device, fh, n, stray), n)
<1> DEFINE r == eepromfs_write(Device, fh, n, stray)
           D == ee.dir
           W == Writer(fh)
           T == {}
<1>1. Good(Device, {}, W, D, T)
  BY StartGood
<1>2. fh.cur \in Device.entries
  BY DeviceIs DEF IInv, Intact
<1> HIDE DEF D, W, T
<1>3. Steady(Device, fh, r, W, D, T) /\ fh.size <= r.h.size /\ r.h.size <= fh.size + n
  BY <1>1, <1>2, WriterIs, WriteKeeps
<1> QED BY <1>3 DEF Written, D, W, T

\* eepromfs_close
Shut(x, w, h, W, D, T) ==
  /\ Good(w, {}, W, D, T)
  /\ w.dir = [x.dir EXCEPT ![h.entry] = [x.dir[h.entry] EXCEPT ![SIZE] = h.size]]
  /\ w.sectors = x.sectors /\ w.entries = x.entries

LEMMA CloseGood ==
  ASSUME NEW x, NEW W, NEW D, NEW T, Good(x, {}, W, D, T), NEW h, h.mode = "write",
         h.entry \in W, h.size \in 0 .. MaxSize,
         \A k \in Names : Shows(x.dir, h.entry, k) => k \in T
  PROVE  Shut(x, eepromfs_close(x, h), h, W, D, T)
<1> DEFINE i == h.entry
           v == h.size
           w == write_entry(x, i, [x.dir[i] EXCEPT ![SIZE] = v])
<1>1. eepromfs_close(x, h) = w
  BY Zenon DEF eepromfs_close
<1>2. x.dir[i][FLAGS] = 0 /\ x.dir[i][NAME] \in Names => x.dir[i][NAME] \in T
  BY DEF Shows
<1>3. i \in W /\ v \in 0 .. MaxSize
  OBVIOUS
<1> HIDE DEF i, v
<1>4. /\ Good(w, {}, W, D, T)
      /\ w.dir = [x.dir EXCEPT ![i] = [x.dir[i] EXCEPT ![SIZE] = v]]
      /\ w.sectors = x.sectors /\ w.entries = x.entries
  BY <1>2, <1>3, SizeGood
<1> QED BY <1>1, <1>4 DEF Shut, i, v

\* A row with another name or size, which are no sectors in it.
Altered(D, e, i, f, v) == e = [D EXCEPT ![i] = [D[i] EXCEPT ![f] = v]]

LEMMA FieldTidy ==
  ASSUME NEW D \in Dirs, NEW S, Full(D, S), NEW i \in Entries,
         D[i][FLAGS] = 0 \/ D[i][FLAGS] = FF, NEW f \in {NAME, SIZE}, NEW v,
         NEW e, Altered(D, e, i, f, v)
  PROVE  Full(e, S)
<1>1. /\ \A j \in Entries : j # i => e[j] = D[j]
      /\ \A c \in Cells : c # f => e[i][c] = D[i][c]
  <2>1. D[i] \in [Cells -> Nat]
    BY RowFacts
  <2> QED BY <2>1 DEF Dirs, Altered
<1>2. \A j \in Entries : e[j][FLAGS] = D[j][FLAGS]
  BY <1>1, Fields
<1>3. Alive(e) = Alive(D) /\ Alive(D) \subseteq Entries
  BY <1>2 DEF Alive
<1>4. i \in Alive(D) => curentry_max_sectors(D[i]) = Links /\ curentry_max_sectors(e[i]) = Links
  <2>1. i \in Alive(D) => D[i][FLAGS] = 0 /\ e[i][FLAGS] = 0
    BY <1>2 DEF Alive
  <2>2. \A q : q[FLAGS] = 0 => curentry_max_sectors(q) = Links
    BY Width
  <2> QED BY <2>1, <2>2
<1>5. \A c \in 1 .. Links : c \in Cells /\ e[i][c] = D[i][c]
  BY <1>1, Fields
<1>6. ASSUME NEW j \in Alive(D)
      PROVE  /\ \A c \in Cells : Holds(e[j], c) <=> Holds(D[j], c)
             /\ \A c \in Cells : Holds(D[j], c) => \A b \in 1 .. c : e[j][b] = D[j][b]
  <2>1. CASE j # i
    BY <1>1, <1>3, <2>1
  <2>2. CASE j = i
    <3>1. \A c \in Cells : Holds(e[j], c) <=> Holds(D[j], c)
      BY <1>4, <1>5, <2>2 DEF Holds
    <3>2. \A c \in Cells : Holds(D[j], c) => \A b \in 1 .. c : b \in 1 .. Links
      BY <1>4, <2>2, WidthNat DEF Holds
    <3> QED BY <1>5, <2>2, <3>1, <3>2
  <2> QED BY <2>1, <2>2
<1>7. \A c \in Cells : c \in 1 .. c
  BY DEF Cells
<1>8. \A j \in Alive(e), c \in Cells : Holds(e[j], c) => \A b \in 1 .. c : e[j][b] # FF
  BY <1>3, <1>6 DEF Full
<1>9. \A s \in S : \E j \in Alive(e), c \in Cells : Holds(e[j], c) /\ e[j][c] = s
  BY <1>3, <1>6, <1>7 DEF Full
<1> QED BY <1>8, <1>9 DEF Full

\* The directory after the bytes are written shows what it did.
LEMMA WrittenKept ==
  ASSUME NEW r, NEW n, Written(r, n)
  PROVE  /\ Good(r.d, {}, Writer(fh), ee.dir, {})
         /\ \A k \in Names : Kept(ee.dir, r.d.dir, k)
         /\ \A k \in Names, i \in Entries : Shows(r.d.dir, i, k) <=> Shows(ee.dir, i, k)
<1>1. Good(r.d, {}, Writer(fh), ee.dir, {})
  BY DEF Written, Steady
<1>2. \A k \in Names : Kept(ee.dir, r.d.dir, k)
  BY <1>1 DEF Good
<1> QED BY <1>1, <1>2 DEF Kept

\* The entry of the open file.
LEMMA EntryIs ==
  ASSUME IInv, ~damaged, fh.mode = "write"
  PROVE  fh.entry \in Entries /\ fh.entry \in ram.entries
<1>1. Sound(ee.dir, ram.entries, ram.sectors, {}, Writer(fh))
  BY DEF IInv, Intact
<1> QED BY <1>1, WriterIs DEF Sound

\* The file that is written is not lost.
LEMMA Found ==
  ASSUME IInv, ~damaged, fh.mode = "write", fh.name \notin unsure
  PROVE  /\ ~Lost /\ expect[fh.name] # Absent /\ fh.size = expect[fh.name].size
         /\ \A j \in Entries : Shows(ee.dir, j, fh.name) <=> j = fh.entry
<1> DEFINE k == fh.name
<1>1. Listed(ee.dir, fh, expect[k], k)
  BY WriterIs DEF IInv
<1>2. expect[k] # Absent
  BY <1>1 DEF Listed
<1>3. PICK i \in Entries : /\ \A j \in Entries : Shows(ee.dir, j, k) <=> j = i
                           /\ fh.entry = i /\ fh.size = expect[k].size
  BY <1>1, <1>2 DEF Listed
<1>4. Shows(ee.dir, fh.entry, k)
  BY <1>3
<1>5. 0 # FF
  BY Consts
<1>6. ~Lost
  BY <1>4, <1>5 DEF Lost, deleted, Shows
<1> QED BY <1>2, <1>3, <1>6

LEMMA GrownIs ==
  ASSUME IInv, fh.mode = "write", NEW r, NEW n, Written(r, n), r.h.size \in Nat
  PROVE  /\ Grown(r) \in [Names -> [size : Int, tag : Int]]
         /\ \A k \in Names : k # fh.name => Grown(r)[k] = expect[k]
         /\ ~Lost => Grown(r)[fh.name] # Absent /\ Grown(r)[fh.name].size = r.h.size
<1> DEFINE x == [size |-> r.h.size, tag |-> fh.tag]
<1>1. fh.tag \in Int /\ fh.name \in Names
  BY WriterIs DEF Handles
<1>2. x \in [size : Int, tag : Int] /\ x # Absent /\ x.size = r.h.size
  <2>1. x.size = r.h.size /\ Absent.size = -1
    BY DEF Absent
  <2>2. x # Absent
    BY <2>1
  <2> QED BY <1>1, <2>1, <2>2
<1>3. Grown(r) = IF Lost THEN expect ELSE [expect EXCEPT ![fh.name] = x]
  BY Zenon DEF Grown
<1>4. expect \in [Names -> [size : Int, tag : Int]]
  BY DEF IInv, Typed
<1> HIDE DEF x
<1> QED BY <1>1, <1>2, <1>3, <1>4

\* Nothing is left over if the file was not spoilt.
LEMMA WrittenFull ==
  ASSUME IInv, ~damaged, unsure = {}, fh.mode = "write", NEW r, NEW n, Written(r, n),
         ~(fh.grown /\ r.d.sectors # ram.sectors)
  PROVE  Full(r.d.dir, r.d.sectors) /\ (fh.grown = FALSE /\ r.err = "OK" => Neat(r.d, r.h))
<1>1. Tidy(ee.dir, ram, fh) /\ fh.grown \in BOOLEAN
  BY WriterIs DEF IInv, Handles
<1>2. CASE fh.grown = FALSE
  <2>1. Neat(Device, fh)
    BY <1>1, <1>2, DeviceIs DEF Tidy, Neat
  <2> QED BY <2>1 DEF Written, Steady
<1>3. CASE fh.grown = TRUE
  <2>1. r.d.sectors = Device.sectors
    BY <1>3, DeviceIs
  <2>2. r.d.dir = Device.dir
    BY <2>1 DEF Written, Steady
  <2> QED BY <1>1, <1>3, <2>1, <2>2, DeviceIs DEF Tidy
<1> QED BY <1>1, <1>2, <1>3

LEMMA DoubtIs ==
  ASSUME IInv, fh.mode = "write", NEW r
  PROVE  /\ Doubt(r) \subseteq Names
         /\ fh.grown /\ r.d.sectors # ram.sectors => Doubt(r) # {}
         /\ ~(fh.grown /\ r.d.sectors # ram.sectors) => unsure \cup Doubt(r) = unsure
BY WriterIs DEF Doubt

\* The file stays open.
LEMMA WriteOutcome ==
  ASSUME IInv, ~damaged, fh.mode = "write", NEW n \in Nat, fh.size + n <= MaxSize,
         NEW r, Written(r, n), r.err = "OK"
  PROVE  Outcome(r, Grown(r), Doubt(r), {fh.name})
<1> DEFINE new == Grown(r)
<1>1. /\ fh \in Handles /\ fh.name \in Names /\ fh.size \in 0 .. MaxSize
      /\ Writer(fh) = {fh.entry} /\ fh.entry \in Entries
  BY WriterIs, EntryIs
<1>2. /\ r.h \in Handles /\ r.h.mode = "write" /\ r.h.name = fh.name /\ r.h.entry = fh.entry
      /\ r.h.grown = fh.grown /\ r.h.cur \in r.d.entries /\ r.h.sindex >= -1
  BY DEF Written, Steady, Same
<1>3. r.h.size \in 0 .. MaxSize
  <2>1. r.h.size \in Int /\ MaxSize \in Nat /\ fh.size <= r.h.size /\ r.h.size <= fh.size + n
    BY <1>2, Consts DEF Handles, Written
  <2> QED BY <1>1, <2>1
<1>4. HandleOK(r.h) /\ Writer(r.h) = Writer(fh)
  BY <1>1, <1>2, <1>3 DEF HandleOK, Writer
<1>5. /\ new \in [Names -> [size : Int, tag : Int]]
      /\ \A k \in Names : k # fh.name => new[k] = expect[k]
      /\ ~Lost => new[fh.name] # Absent /\ new[fh.name].size = r.h.size
  <2>1. r.h.size \in Nat
    BY <1>3
  <2> QED BY <2>1, GrownIs
<1> HIDE DEF new
<1>6. /\ Good(r.d, {}, Writer(fh), ee.dir, {})
      /\ \A k \in Names : Kept(ee.dir, r.d.dir, k)
      /\ \A k \in Names, i \in Entries : Shows(r.d.dir, i, k) <=> Shows(ee.dir, i, k)
  BY WrittenKept
<1>7. ASSUME ~(fh.grown /\ r.d.sectors # ram.sectors)
      PROVE  Ending(r.d, r.h, r.err, new, unsure)
  <2>1. unsure = {} => Tidy(r.d.dir, r.d, r.h)
    BY <1>2, <1>7, WrittenFull DEF Tidy, Neat
  <2>2. \A k \in Names : Shows(r.d.dir, r.h.entry, k) => k = r.h.name \/ k \in unsure
    BY <1>1, <1>2, <1>6 DEF IInv, Intact
  <2>3. ASSUME NEW k \in Names \ unsure PROVE Listed(r.d.dir, r.h, new[k], k)
    <3>1. CASE k # fh.name
      <4>1. Listed(ee.dir, fh, expect[k], k) /\ Kept(ee.dir, r.d.dir, k)
        BY <1>6 DEF IInv
      <4>2. Listed(r.d.dir, r.h, expect[k], k)
        BY <1>2, <3>1, <4>1, KeptListed
      <4> QED BY <1>5, <3>1, <4>2
    <3>2. CASE k = fh.name
      <4>1. ~Lost /\ \A j \in Entries : Shows(ee.dir, j, fh.name) <=> j = fh.entry
        BY <3>2, Found
      <4>2. \A j \in Entries : Shows(r.d.dir, j, fh.name) <=> j = fh.entry
        BY <1>1, <1>6, <4>1
      <4> QED BY <1>1, <1>2, <1>5, <3>2, <4>1, <4>2 DEF Listed
    <3> QED BY <3>1, <3>2
  <2>4. r.err \in Errors /\ unsure \subseteq Names
    BY DEF Errors, IInv, Typed
  <2> QED BY <1>2, <1>4, <1>5, <1>6, <2>1, <2>2, <2>3, <2>4 DEF Ending
<1>8. ~(fh.grown /\ r.d.sectors # ram.sectors) => Ending(r.d, r.h, r.err, new, unsure \cup Doubt(r))
  BY <1>7, DoubtIs
<1>9. r.err \in Errors /\ {} \subseteq unsure \cup {fh.name} /\ {fh.name} # {} /\ {fh.name} \subseteq Names
  BY <1>1 DEF Errors
<1>10. Doubt(r) \subseteq Names
  BY DoubtIs
<1>11. \E V, U : Good(r.d, {}, V, ee.dir, U) /\ U \subseteq unsure \cup {fh.name}
  BY <1>6, <1>9
<1>12. Outcome(r, new, Doubt(r), {fh.name})
  BY <1>2, <1>4, <1>5, <1>8, <1>9, <1>10, <1>11 DEF Outcome
<1> QED BY <1>12 DEF new

\* The file is closed.
LEMMA CloseOutcome ==
  ASSUME IInv, ~damaged, fh.mode = "write", NEW n \in Nat, fh.size + n <= MaxSize,
         NEW r, Written(r, n), NEW c, c = Result(eepromfs_close(r.d, r.h), Closed, r.err)
  PROVE  Outcome(c, Grown(r), Doubt(r), {fh.name})
<1> DEFINE new == Grown(r)
           T == {fh.name} \cup unsure
           D == ee.dir
           W == Writer(fh)
<1>0. c.d = eepromfs_close(r.d, r.h) /\ c.h = Closed /\ c.err = r.err
  BY ResultIs
<1>1. /\ fh \in Handles /\ fh.name \in Names /\ fh.size \in 0 .. MaxSize
      /\ W = {fh.entry} /\ fh.entry \in Entries
  BY WriterIs, EntryIs
<1>2. /\ r.h \in Handles /\ r.h.mode = "write" /\ r.h.name = fh.name /\ r.h.entry = fh.entry
      /\ r.h.grown = fh.grown /\ r.err \in Errors
  BY DEF Written, Steady, Same, Errors
<1>3. r.h.size \in 0 .. MaxSize
  <2>1. r.h.size \in Int /\ MaxSize \in Nat /\ fh.size <= r.h.size /\ r.h.size <= fh.size + n
    BY <1>2, Consts DEF Handles, Written
  <2> QED BY <1>1, <2>1
<1>5. /\ new \in [Names -> [size : Int, tag : Int]]
      /\ \A k \in Names : k # fh.name => new[k] = expect[k]
      /\ ~Lost => new[fh.name] # Absent /\ new[fh.name].size = r.h.size
  <2>1. r.h.size \in Nat
    BY <1>3
  <2> QED BY <2>1, GrownIs
<1> HIDE DEF new
<1>6. /\ Good(r.d, {}, W, D, {})
      /\ \A k \in Names : Kept(ee.dir, r.d.dir, k)
      /\ \A k \in Names, i \in Entries : Shows(r.d.dir, i, k) <=> Shows(ee.dir, i, k)
  BY WrittenKept
<1>7. Good(r.d, {}, W, D, T)
  BY <1>6, GoodMore
<1>8. \A k \in Names : Shows(r.d.dir, r.h.entry, k) => k \in T
  BY <1>1, <1>2, <1>6 DEF IInv, Intact
<1>9. r.h.entry \in W
  BY <1>1, <1>2
<1>10. T \subseteq unsure \cup {fh.name} /\ T \subseteq Names /\ {fh.name} # {} /\ {fh.name} \subseteq Names
       /\ fh.name \in T /\ unsure \subseteq T
  BY <1>1 DEF IInv, Typed
<1>11. \A k \in Names : k # fh.name /\ k \notin unsure => k \notin T
  OBVIOUS
<1> HIDE DEF T, D, W
<1>12. Shut(r.d, c.d, r.h, W, D, T)
  BY <1>0, <1>2, <1>3, <1>7, <1>8, <1>9, CloseGood
<1>13. /\ Good(c.d, {}, W, D, T) /\ c.d.sectors = r.d.sectors
       /\ c.d.dir = [r.d.dir EXCEPT ![fh.entry] = [r.d.dir[fh.entry] EXCEPT ![SIZE] = r.h.size]]
  BY <1>2, <1>12 DEF Shut
<1>14. r.d.dir \in Dirs /\ (r.d.dir[fh.entry][FLAGS] = 0 \/ r.d.dir[fh.entry][FLAGS] = FF)
  <2>1. r.d.dir \in Dirs /\ Sound(r.d.dir, r.d.entries, r.d.sectors, {}, W)
    BY <1>6, GoodFacts
  <2>2. r.d.dir[fh.entry][FLAGS] # EEFS_FLAG_LISTENTRY
    BY <1>2, <1>9, <2>1 DEF Sound
  <2> QED BY <1>1, <2>1, <2>2, RowFacts DEF EEFS_FLAG_LISTENTRY
<1>15. /\ \A j \in Entries, k \in Names : Shows(c.d.dir, j, k) <=> Shows(r.d.dir, j, k)
       /\ c.d.dir[fh.entry][SIZE] = r.h.size
  <2>1. r.d.dir[fh.entry] \in [Cells -> Nat]
    BY <1>1, <1>14, RowFacts
  <2>2. /\ \A j \in Entries : j # fh.entry => c.d.dir[j] = r.d.dir[j]
        /\ c.d.dir[fh.entry] = [r.d.dir[fh.entry] EXCEPT ![SIZE] = r.h.size]
    BY <1>1, <1>13, <1>14 DEF Dirs
  <2>3. /\ c.d.dir[fh.entry][SIZE] = r.h.size /\ c.d.dir[fh.entry][FLAGS] = r.d.dir[fh.entry][FLAGS]
        /\ c.d.dir[fh.entry][NAME] = r.d.dir[fh.entry][NAME]
    BY <2>1, <2>2, Fields
  <2> QED BY <2>2, <2>3 DEF Shows
<1>16. ASSUME ~(fh.grown /\ r.d.sectors # ram.sectors)
       PROVE  Ending(c.d, Closed, c.err, new, unsure)
  <2>1. unsure = {} => Tidy(c.d.dir, c.d, Closed)
    <3> SUFFICES ASSUME unsure = {} PROVE Tidy(c.d.dir, c.d, Closed)
      OBVIOUS
    <3>1. Full(r.d.dir, r.d.sectors)
      BY <1>16, WrittenFull
    <3>2. SIZE \in {NAME, SIZE}
      OBVIOUS
    <3>3. Full(c.d.dir, r.d.sectors)
      <4>1. Altered(r.d.dir, c.d.dir, fh.entry, SIZE, r.h.size)
        BY <1>13 DEF Altered
      <4> QED BY <1>1, <1>14, <3>1, <3>2, <4>1, FieldTidy
    <3> QED BY <1>13, <3>3, ClosedIs DEF Tidy
  <2>2. ASSUME NEW k \in Names \ unsure PROVE Listed(c.d.dir, Closed, new[k], k)
    <3>1. CASE k # fh.name
      <4>1. Listed(ee.dir, fh, expect[k], k)
        BY DEF IInv
      <4>2. Kept(ee.dir, c.d.dir, k)
        BY <1>11, <1>13, <3>1 DEF Good, D
      <4>3. Closed.mode # "write"
        BY ClosedIs
      <4>4. Listed(c.d.dir, Closed, expect[k], k)
        BY <3>1, <4>1, <4>2, <4>3, KeptListed
      <4> QED BY <1>5, <3>1, <4>4
    <3>2. CASE k = fh.name
      <4>1. ~Lost /\ \A j \in Entries : Shows(ee.dir, j, fh.name) <=> j = fh.entry
        BY <3>2, Found
      <4>2. \A j \in Entries : Shows(c.d.dir, j, fh.name) <=> j = fh.entry
        BY <1>1, <1>6, <1>15, <4>1
      <4> QED BY <1>1, <1>5, <1>15, <3>2, <4>1, <4>2, ClosedIs DEF Listed
    <3> QED BY <3>1, <3>2
  <2>3. Writer(Closed) \subseteq W /\ Closed.mode # "write" /\ HandleOK(Closed) /\ c.err \in Errors
        /\ unsure \subseteq Names
    BY <1>0, <1>2, ClosedIs DEF Writer, HandleOK, IInv, Typed
  <2> QED BY <1>5, <1>13, <2>1, <2>2, <2>3 DEF Ending, D
<1>17. ~(fh.grown /\ c.d.sectors # ram.sectors) => Ending(c.d, c.h, c.err, new, unsure \cup Doubt(r))
  BY <1>0, <1>13, <1>16, DoubtIs
<1>18. /\ Doubt(r) \subseteq Names
       /\ fh.grown /\ c.d.sectors # ram.sectors => Doubt(r) # {}
  BY <1>13, DoubtIs
<1>19. HandleOK(c.h) /\ c.err \in Errors
  BY <1>0, <1>2 DEF HandleOK
<1>20. \E V, U : Good(c.d, {}, V, ee.dir, U) /\ U \subseteq unsure \cup {fh.name}
  BY <1>10, <1>13 DEF D
<1>21. Outcome(c, new, Doubt(r), {fh.name})
  BY <1>5, <1>10, <1>17, <1>18, <1>19, <1>20 DEF Outcome
<1> QED BY <1>21 DEF new

LEMMA WriteInv ==
  ASSUME IInv, ~damaged, NEW stray \in BOOLEAN, Write(stray)
  PROVE  IInv'
<1> DEFINE r == eepromfs_write(Device, fh, Chunk, stray)
           c == Result(eepromfs_close(r.d, r.h), Closed, r.err)
<1>1. /\ fh.mode = "write" /\ fh.size + Chunk <= MaxSize
      /\ Finish(IF r.err = "OK" THEN r ELSE c, Grown(r), Doubt(r), {fh.name})
  BY Zenon DEF Write
<1>2. Chunk \in Nat
  BY EepromFsAssumption
<1>3. Written(r, Chunk)
  BY <1>1, <1>2, WrittenIs
<1> HIDE DEF r
<1>4. CASE r.err = "OK"
  <2>1. Outcome(r, Grown(r), Doubt(r), {fh.name})
    BY <1>1, <1>2, <1>3, <1>4, WriteOutcome
  <2>2. Finish(r, Grown(r), Doubt(r), {fh.name})
    BY <1>1, <1>4
  <2> QED BY <2>1, <2>2, FinishInv
<1>5. CASE r.err # "OK"
  <2>1. Outcome(c, Grown(r), Doubt(r), {fh.name})
    <3> DEFINE x == c
    <3> HIDE DEF x
    <3>1. x = Result(eepromfs_close(r.d, r.h), Closed, r.err)
      BY DEF x
    <3>2. Outcome(x, Grown(r), Doubt(r), {fh.name})
      BY <1>1, <1>2, <1>3, <3>1, CloseOutcome
    <3> QED BY <3>2 DEF x
  <2>2. Finish(c, Grown(r), Doubt(r), {fh.name})
    BY <1>1, <1>5
  <2> HIDE DEF c
  <2> QED BY <2>1, <2>2, FinishInv
<1> QED BY <1>4, <1>5

LEMMA CloseWriteInv ==
  ASSUME IInv, ~damaged, NEW n \in 0 .. Chunk, NEW stray \in BOOLEAN, CloseWrite(n, stray)
  PROVE  IInv'
<1> DEFINE r == eepromfs_write(Device, fh, n, stray)
           c == Result(eepromfs_close(r.d, r.h), Closed, r.err)
<1>1. /\ fh.mode = "write" /\ fh.size + n <= MaxSize
      /\ Finish(c, Grown(r), Doubt(r), {fh.name})
  BY Zenon DEF CloseWrite
<1>2. n \in Nat
  BY EepromFsAssumption
<1>3. Written(r, n)
  BY <1>1, <1>2, WrittenIs
<1> HIDE DEF r
<1>4. c = Result(eepromfs_close(r.d, r.h), Closed, r.err)
  OBVIOUS
<1> HIDE DEF c
<1>5. Outcome(c, Grown(r), Doubt(r), {fh.name})
  BY <1>1, <1>2, <1>3, <1>4, CloseOutcome
<1> QED BY <1>1, <1>5, FinishInv

-----------------------------------------------------------------------------
(* Deleting and renaming.                                                  *)

LEMMA KeptSame ==
  ASSUME NEW D, NEW e, NEW h, NEW x, NEW n, Listed(D, h, x, n), Kept(D, e, n)
  PROVE  Listed(e, h, x, n)
<1>1. CASE x = Absent
  BY <1>1 DEF Listed, Kept
<1>2. CASE x # Absent
  <2>1. PICK i \in Entries : /\ \A j \in Entries : Shows(D, j, n) <=> j = i
                             /\ IF h.mode = "write" /\ h.name = n
                                  THEN h.entry = i /\ h.size = x.size
                                  ELSE D[i][SIZE] = x.size
    BY <1>2 DEF Listed
  <2>2. (\A j \in Entries : Shows(e, j, n) <=> j = i) /\ e[i][SIZE] = D[i][SIZE]
    BY <2>1 DEF Kept
  <2> QED BY <1>2, <2>1, <2>2 DEF Listed
<1> QED BY <1>1, <1>2

\* The open file keeps its end when another is deleted.
LEMMA DeleteTidy ==
  ASSUME NEW d, NEW w, NEW first, Deletion(d, w, first), NEW h, Neat(d, h),
         d.dir \in Dirs, d.entries \subseteq Entries, first \in Entries,
         d.dir[first][FLAGS] = 0, first # h.entry
  PROVE  Tip(w.dir, h) /\ \E C : Chain(w.dir, w.entries, h, C)
<1>1. PICK C : Chain(d.dir, d.entries, h, C)
  BY DEF Neat
<1>2. /\ Before(d.dir, d.entries, C) /\ h.entry \in C /\ h.cur \in C /\ C \in SUBSET d.entries
      /\ \A j \in C : d.dir[j][FLAGS] = 0 => j = h.entry
  BY <1>1 DEF Chain, Before
<1>3. first \notin C
  BY <1>2
<1>4. \A j \in C : w.dir[j] = d.dir[j]
  BY <1>2, <1>3 DEF Deletion
<1>5. Tip(w.dir, h)
  BY <1>2, <1>4 DEF Tip, Neat
<1>6. w.entries = d.entries /\ \A j \in Entries : w.dir[j] = d.dir[j] \/ w.dir[j] = Wiped
  BY DEF Deletion
<1>7. FF \notin C /\ Wiped[NEXT] = FF
  BY <1>2, FFOutside, WipedIs, Fields
<1>8. \A j \in w.entries : w.dir[j][NEXT] \in C => j \in C
  BY <1>2, <1>6, <1>7 DEF Before
<1>9. Chain(w.dir, w.entries, h, C)
  BY <1>2, <1>4, <1>6, <1>8 DEF Chain, Before
<1> QED BY <1>5, <1>9

Erasing(n, i, w) ==
  Good(w, {}, Writer(fh), ee.dir, {n}) /\ Deletion(Device, w, i)

LEMMA DeleteIs ==
  ASSUME IInv, ~damaged, NEW n \in Names, NEW r, r = eepromfs_delete(Device, n)
  PROVE  \/ r.d = Device /\ r.h = fh /\ r.err = "FILENOTFOUND"
         \/ /\ r.h = fh /\ r.err = "OK"
            /\ \E i \in Entries : Shows(ee.dir, i, n) /\ Erasing(n, i, r.d)
<1> DEFINE i == find_entry(Device, n)
           w == Deleted(Device, i, ENTRIES).d
           W == Writer(fh)
           D == ee.dir
           T == {n}
           U == {}
<1>1. r = IF i = FF THEN Result(Device, fh, "FILENOTFOUND") ELSE Result(w, fh, "OK")
  BY Zenon DEF eepromfs_delete, Deleted
<1>2. \/ i = FF
      \/ i \in Entries /\ Shows(Device.dir, i, n)
  <2>1. Device.dir \in Dirs
    BY DeviceIs DEF IInv, Typed
  <2> QED BY <2>1, FindIs
<1>3. Good(Device, {}, W, D, U) /\ U \subseteq T /\ n \in T /\ Device.dir = ee.dir
  BY StartGood, DeviceIs
<1>4. w = Deleted(Device, i, ENTRIES).d
  OBVIOUS
<1>5. Erasing(n, i, w) <=> Good(w, {}, W, D, T) /\ Deletion(Device, w, i)
  BY DEF Erasing
<1> HIDE DEF i, w, W, D, T, U
<1>6. Good(Device, {}, W, D, T)
  BY <1>3, GoodMore
<1>7. CASE i = FF
  BY <1>1, <1>7, ResultIs
<1>8. CASE i # FF
  <2>1. i \in Entries /\ Shows(Device.dir, i, n)
    BY <1>2, <1>8
  <2>2. Good(w, {}, W, D, T) /\ Deletion(Device, w, i)
    BY <1>3, <1>4, <1>6, <2>1, DeleteGood
  <2>3. r.d = w /\ r.h = fh /\ r.err = "OK"
    BY <1>1, <1>8, ResultIs
  <2> QED BY <1>3, <1>5, <2>1, <2>2, <2>3
<1> QED BY <1>7, <1>8

\* Only a file open for writing is grown.
LEMMA GrownWrite ==
  ASSUME IInv, fh.grown
  PROVE  fh.mode = "write"
BY ClosedIs DEF IInv, HandleOK

LEMMA DeleteInv ==
  ASSUME IInv, ~damaged, NEW n \in Names, Delete(n)
  PROVE  IInv'
<1> DEFINE r == eepromfs_delete(Device, n)
           new == IF r.err = "OK" THEN [expect EXCEPT ![n] = Absent] ELSE expect
           doubt == IF fh.name = n THEN {n} ELSE {}
<1>1. Finish(r, new, doubt, {n})
  BY Zenon DEF Delete
<1>2. \/ r.d = Device /\ r.h = fh /\ r.err = "FILENOTFOUND"
      \/ /\ r.h = fh /\ r.err = "OK"
         /\ \E i \in Entries : Shows(ee.dir, i, n) /\ Erasing(n, i, r.d)
  BY DeleteIs
<1> HIDE DEF r
<1>3. doubt \subseteq Names /\ {n} \subseteq Names /\ {n} # {} /\ {n} \subseteq unsure \cup {n}
      /\ (doubt = {} => fh.name # n) /\ (n \notin doubt => fh.name # n)
  OBVIOUS
<1> HIDE DEF doubt
<1>4. CASE r.d = Device /\ r.h = fh /\ r.err = "FILENOTFOUND"
  <2>1. r.err \in Errors /\ Finish(r, expect, doubt, {n})
    BY <1>1, <1>4 DEF Errors
  <2> QED BY <1>3, <1>4, <2>1, SameInv
<1>5. CASE /\ r.h = fh /\ r.err = "OK"
           /\ \E i \in Entries : Shows(ee.dir, i, n) /\ Erasing(n, i, r.d)
  <2> DEFINE u == unsure \cup doubt
  <2>1. PICK i \in Entries : Shows(ee.dir, i, n) /\ Erasing(n, i, r.d)
    BY <1>5
  <2>2. Good(r.d, {}, Writer(fh), ee.dir, {n}) /\ Deletion(Device, r.d, i)
    BY <2>1 DEF Erasing
  <2>3. /\ r.d.entries = ram.entries /\ r.d.dir[i] = Wiped
        /\ Full(ee.dir, ram.sectors) => Full(r.d.dir, r.d.sectors)
        /\ \A j \in Entries : r.d.dir[j] = ee.dir[j] \/ r.d.dir[j] = Wiped
    BY <2>2, DeviceIs DEF Deletion
  <2>4. \A k : ~(Wiped[FLAGS] = 0 /\ Wiped[NAME] = k)
    <3>1. 0 # FF /\ Wiped[FLAGS] = FF
      BY Consts, WipedIs, Fields
    <3> QED BY <3>1
  <2>5. \A j \in Entries : \A k \in Names : Shows(r.d.dir, j, k) => Shows(ee.dir, j, k) /\ j # i
    BY <2>3, <2>4 DEF Shows
  <2>6. expect \in [Names -> [size : Int, tag : Int]] /\ Absent \in [size : Int, tag : Int]
    BY DEF IInv, Typed, Absent
  <2>7. new = [expect EXCEPT ![n] = Absent]
    BY <1>5
  <2> HIDE DEF new
  <2>8. /\ new \in [Names -> [size : Int, tag : Int]] /\ new[n] = Absent
        /\ \A k \in Names : k # n => new[k] = expect[k]
    BY <2>6, <2>7
  <2>9. fh.mode = "write" =>
           /\ fh.cur \in r.d.entries
           /\ \A k \in Names : Shows(r.d.dir, fh.entry, k) => k = fh.name \/ k \in u
    BY <2>3, <2>5, EntryIs DEF IInv, Intact
  <2>10. u = {} => Tidy(r.d.dir, r.d, fh)
    <3> SUFFICES ASSUME u = {} PROVE Tidy(r.d.dir, r.d, fh)
      OBVIOUS
    <3>1. unsure = {} /\ fh.name # n
      BY <1>3
    <3>2. Tidy(ee.dir, ram, fh)
      BY <3>1 DEF IInv
    <3>3. Full(r.d.dir, r.d.sectors)
      BY <2>3, <3>2 DEF Tidy
    <3>4. ASSUME fh.mode = "write", fh.grown = FALSE
          PROVE  Tip(r.d.dir, fh) /\ \E C : Chain(r.d.dir, r.d.entries, fh, C)
      <4>1. Neat(Device, fh)
        BY <3>2, <3>4, DeviceIs DEF Tidy, Neat
      <4>2. Device.dir \in Dirs /\ Device.entries \subseteq Entries /\ Device.dir[i][FLAGS] = 0
        BY <2>1, DeviceIs DEF IInv, Typed, Shows
      <4>3. fh.entry # i
        BY <2>1, <3>1, <3>4 DEF IInv, Intact
      <4> QED BY <2>2, <4>1, <4>2, <4>3, DeleteTidy
    <3> QED BY <3>3, <3>4 DEF Tidy
  <2>11. ASSUME NEW k \in Names \ u PROVE Listed(r.d.dir, fh, new[k], k)
    <3>1. Listed(ee.dir, fh, expect[k], k)
      BY DEF IInv
    <3>2. CASE k # n
      <4>1. Kept(ee.dir, r.d.dir, k)
        BY <2>2, <3>2 DEF Good
      <4>2. Listed(r.d.dir, fh, expect[k], k)
        BY <3>1, <4>1, KeptSame
      <4> QED BY <2>8, <3>2, <4>2
    <3>3. CASE k = n
      <4>1. \A j \in Entries : Shows(ee.dir, j, n) => j = i
        BY <2>1, <3>1, <3>3 DEF Listed
      <4>2. \A j \in Entries : ~Shows(r.d.dir, j, n)
        BY <2>5, <4>1
      <4>3. fh.name # n
        BY <1>3, <3>3
      <4> QED BY <2>8, <3>3, <4>2, <4>3 DEF Listed
    <3> QED BY <3>2, <3>3
  <2>12. u \subseteq Names /\ r.err \in Errors /\ HandleOK(fh)
    BY <1>3, <1>5 DEF IInv, Typed, Errors
  <2> HIDE DEF u
  <2>13. Ending(r.d, r.h, r.err, new, u)
    BY <1>5, <2>2, <2>8, <2>9, <2>10, <2>11, <2>12 DEF Ending
  <2>14. \E V, U : Good(r.d, {}, V, ee.dir, U) /\ U \subseteq unsure \cup {n}
    BY <1>3, <2>2
  <2>15. fh.grown => r.h.mode = "write"
    BY <1>5, GrownWrite
  <2>16. Outcome(r, new, doubt, {n})
    BY <1>3, <1>5, <2>8, <2>12, <2>13, <2>14, <2>15 DEF Outcome, u
  <2>17. Finish(r, new, doubt, {n})
    BY <1>1
  <2> QED BY <2>16, <2>17, FinishInv
<1> QED BY <1>2, <1>4, <1>5

Renaming(old, new, i, w) ==
  /\ Good(w, {}, Writer(fh), ee.dir, {old, new})
  /\ Altered(ee.dir, w.dir, i, NAME, new)
  /\ w.sectors = ram.sectors /\ w.entries = ram.entries

LEMMA RenameIs ==
  ASSUME IInv, ~damaged, NEW old \in Names, NEW new \in Names,
         NEW r, r = eepromfs_rename(Device, old, new)
  PROVE  \/ r.d = Device /\ r.h = fh /\ r.err \in {"FILEEXISTS", "FILENOTFOUND"}
         \/ /\ r.h = fh /\ r.err = "OK" /\ \A j \in Entries : ~Shows(ee.dir, j, new)
            /\ \E i \in Entries : Shows(ee.dir, i, old) /\ Renaming(old, new, i, r.d)
<1> DEFINE i == find_entry(Device, old)
           q == find_entry(Device, new)
           d == Device
           w == write_entry(d, i, [d.dir[i] EXCEPT ![NAME] = new])
           W == Writer(fh)
           D == ee.dir
           T == {old, new}
           U == {}
<1>1. r = IF q # FF THEN Result(d, fh, "FILEEXISTS")
          ELSE IF i = FF THEN Result(d, fh, "FILENOTFOUND") ELSE Result(w, fh, "OK")
  BY Zenon DEF eepromfs_rename
<1>2. /\ d.dir = ee.dir /\ d.sectors = ram.sectors /\ d.entries = ram.entries
      /\ d.dir \in Dirs
  BY DeviceIs DEF IInv, Typed
<1>3. i = FF \/ (i \in Entries /\ Shows(d.dir, i, old))
  BY <1>2, FindIs
<1>4. q = FF => \A j \in Entries : ~Shows(ee.dir, j, new)
  BY <1>2, FindIs, FFOutside
<1>5. Good(d, {}, W, D, U) /\ U \subseteq T /\ old \in T /\ new \in T
  BY StartGood
<1>6. \A x : Renaming(old, new, i, x) <=>
               /\ Good(x, {}, W, D, T) /\ x.sectors = ram.sectors /\ x.entries = ram.entries
               /\ Altered(ee.dir, x.dir, i, NAME, new)
  BY DEF Renaming
<1> HIDE DEF i, q, d, W, D, T, U
<1>7. Good(d, {}, W, D, T)
  BY <1>5, GoodMore
<1>8. CASE q # FF \/ i = FF
  BY <1>1, <1>8, ResultIs DEF d
<1>9. CASE q = FF /\ i # FF
  <2>1. i \in Entries /\ d.dir[i][FLAGS] = 0 /\ d.dir[i][NAME] \in Names /\ d.dir[i][NAME] \in T
        /\ Shows(ee.dir, i, old)
    BY <1>2, <1>3, <1>5, <1>9 DEF Shows
  <2>2. /\ Good(w, {}, W, D, T)
        /\ w.dir = [d.dir EXCEPT ![i] = [d.dir[i] EXCEPT ![NAME] = new]]
        /\ w.sectors = d.sectors /\ w.entries = d.entries
    BY <1>5, <1>7, <2>1, NameGood
  <2> HIDE DEF w
  <2>3. Altered(ee.dir, w.dir, i, NAME, new)
    BY <1>2, <2>2 DEF Altered
  <2>4. Renaming(old, new, i, w)
    BY <1>2, <1>6, <2>2, <2>3
  <2>5. r.d = w /\ r.h = fh /\ r.err = "OK"
    BY <1>1, <1>9, ResultIs
  <2> QED BY <1>4, <1>9, <2>1, <2>4, <2>5
<1> QED BY <1>8, <1>9

\* The open file keeps its end when another is renamed.
LEMMA RenameTidy ==
  ASSUME NEW D \in Dirs, NEW E, E \subseteq Entries, NEW i \in Entries, NEW v, NEW e,
         Altered(D, e, i, NAME, v), D[i][FLAGS] = 0,
         NEW h, h.entry # i, Tip(D, h), NEW C, Chain(D, E, h, C)
  PROVE  Tip(e, h) /\ Chain(e, E, h, C)
<1>1. i \notin C /\ C \subseteq Entries /\ h.cur \in C
  BY DEF Chain, Before
<1>2. D[i] \in [Cells -> Nat]
  BY RowFacts
<1>3. /\ \A j \in Entries : j # i => e[j] = D[j]
      /\ \A j \in Entries : e[j][NEXT] = D[j][NEXT]
  BY <1>2, Fields DEF Dirs, Altered
<1>4. \A j \in C : e[j] = D[j]
  BY <1>1, <1>3
<1>5. Tip(e, h)
  BY <1>1, <1>4 DEF Tip
<1>6. Before(e, E, C)
  BY <1>3 DEF Chain, Before
<1> QED BY <1>4, <1>5, <1>6 DEF Chain

LEMMA RenameInv ==
  ASSUME IInv, ~damaged, NEW old \in Names, NEW new \in Names \ {old}, Rename(old, new)
  PROVE  IInv'
<1> DEFINE r == eepromfs_rename(Device, old, new)
           x == IF r.err = "OK" THEN [expect EXCEPT ![new] = expect[old], ![old] = Absent]
                ELSE expect
           doubt == IF old \in unsure \/ fh.name = old THEN {old, new} ELSE {}
           both == {old, new}
<1>1. Finish(r, x, doubt, both)
  BY Zenon DEF Rename
<1>2. \/ r.d = Device /\ r.h = fh /\ r.err \in {"FILEEXISTS", "FILENOTFOUND"}
      \/ /\ r.h = fh /\ r.err = "OK" /\ \A j \in Entries : ~Shows(ee.dir, j, new)
         /\ \E i \in Entries : Shows(ee.dir, i, old) /\ Renaming(old, new, i, r.d)
  BY RenameIs
<1> HIDE DEF r
<1>3. doubt \subseteq Names /\ both \subseteq Names /\ both # {} /\ both \subseteq unsure \cup both
  OBVIOUS
<1>4. /\ (old \in unsure \/ fh.name = old) => (old \in doubt /\ new \in doubt)
      /\ \A k \in Names : k # old /\ k # new => k \notin both
  OBVIOUS
<1> HIDE DEF doubt
<1>5. CASE r.d = Device /\ r.h = fh /\ r.err \in {"FILEEXISTS", "FILENOTFOUND"}
  <2>1. r.err \in Errors /\ Finish(r, expect, doubt, both)
    BY <1>1, <1>5 DEF Errors
  <2> HIDE DEF both
  <2> QED BY <1>3, <1>5, <2>1, SameInv
<1>6. CASE /\ r.h = fh /\ r.err = "OK" /\ \A j \in Entries : ~Shows(ee.dir, j, new)
           /\ \E i \in Entries : Shows(ee.dir, i, old) /\ Renaming(old, new, i, r.d)
  <2> DEFINE u == unsure \cup doubt
  <2>1. PICK i \in Entries : Shows(ee.dir, i, old) /\ Renaming(old, new, i, r.d)
    BY <1>6
  <2>2. /\ Good(r.d, {}, Writer(fh), ee.dir, both)
        /\ r.d.sectors = ram.sectors /\ r.d.entries = ram.entries
        /\ Altered(ee.dir, r.d.dir, i, NAME, new)
    BY <2>1 DEF Renaming
  <2> HIDE DEF both
  <2>3. /\ \A j \in Entries : j # i => r.d.dir[j] = ee.dir[j]
        /\ r.d.dir[i][NAME] = new /\ r.d.dir[i][FLAGS] = 0
        /\ r.d.dir[i][SIZE] = ee.dir[i][SIZE]
    <3>1. ee.dir \in Dirs /\ ee.dir[i] \in [Cells -> Nat]
      BY RowFacts DEF IInv, Typed
    <3>2. /\ \A j \in Entries : j # i => r.d.dir[j] = ee.dir[j]
          /\ r.d.dir[i] = [ee.dir[i] EXCEPT ![NAME] = new]
      BY <2>2, <3>1 DEF Dirs, Altered
    <3>3. ee.dir[i][FLAGS] = 0
      BY <2>1 DEF Shows
    <3> QED BY <3>1, <3>2, <3>3, Fields
  <2>4. /\ Shows(r.d.dir, i, new) /\ \A k : Shows(r.d.dir, i, k) => k = new
        /\ \A j \in Entries : j # i => \A k : Shows(r.d.dir, j, k) <=> Shows(ee.dir, j, k)
    BY <2>3 DEF Shows
  <2>5. expect \in [Names -> [size : Int, tag : Int]] /\ Absent \in [size : Int, tag : Int]
        /\ expect[old] \in [size : Int, tag : Int]
    BY DEF IInv, Typed, Absent
  <2>6. x = [expect EXCEPT ![new] = expect[old], ![old] = Absent]
    BY <1>6
  <2> HIDE DEF x
  <2>7. /\ x \in [Names -> [size : Int, tag : Int]] /\ x[old] = Absent /\ x[new] = expect[old]
        /\ \A k \in Names : k # old /\ k # new => x[k] = expect[k]
    BY <2>5, <2>6
  <2>8. fh.mode = "write" =>
           /\ fh.cur \in r.d.entries
           /\ \A k \in Names : Shows(r.d.dir, fh.entry, k) => k = fh.name \/ k \in u
    <3> SUFFICES ASSUME fh.mode = "write", NEW k \in Names, Shows(r.d.dir, fh.entry, k)
                 PROVE  fh.cur \in r.d.entries /\ (k = fh.name \/ k \in u)
      <4>1. fh.mode = "write" => fh.cur \in r.d.entries
        BY <2>2 DEF IInv, Intact
      <4> QED BY <4>1
    <3>1. /\ fh.cur \in ram.entries /\ fh.entry \in Entries
          /\ \A l \in Names : Shows(ee.dir, fh.entry, l) => l = fh.name \/ l \in unsure
      BY EntryIs DEF IInv, Intact
    <3>2. CASE fh.entry = i
      <4>1. old = fh.name \/ old \in unsure
        BY <2>1, <3>1, <3>2
      <4> QED BY <1>4, <2>2, <2>4, <3>1, <3>2, <4>1
    <3>3. CASE fh.entry # i
      BY <2>2, <2>4, <3>1, <3>3
    <3> QED BY <3>2, <3>3
  <2>9. u = {} => Tidy(r.d.dir, r.d, fh)
    <3> SUFFICES ASSUME u = {} PROVE Tidy(r.d.dir, r.d, fh)
      OBVIOUS
    <3>1. unsure = {} /\ fh.name # old
      BY <1>4
    <3>2. Tidy(ee.dir, ram, fh)
      BY <3>1 DEF IInv
    <3>3. ee.dir \in Dirs /\ ram.entries \subseteq Entries /\ ee.dir[i][FLAGS] = 0
          /\ NAME \in {NAME, SIZE}
      BY <2>1 DEF IInv, Typed, Shows
    <3>4. Full(r.d.dir, r.d.sectors)
      <4>1. Full(ee.dir, ram.sectors)
        BY <3>2 DEF Tidy
      <4> QED BY <2>2, <3>3, <4>1, FieldTidy
    <3>5. ASSUME fh.mode = "write", fh.grown = FALSE
          PROVE  Tip(r.d.dir, fh) /\ \E C : Chain(r.d.dir, r.d.entries, fh, C)
      <4>1. fh.entry # i
        BY <2>1, <3>1, <3>5 DEF IInv, Intact
      <4>2. PICK C : Tip(ee.dir, fh) /\ Chain(ee.dir, ram.entries, fh, C)
        BY <3>2, <3>5 DEF Tidy
      <4>3. Tip(r.d.dir, fh) /\ Chain(r.d.dir, ram.entries, fh, C)
        BY <2>2, <3>3, <4>1, <4>2, RenameTidy
      <4> QED BY <2>2, <4>3
    <3> QED BY <3>4, <3>5 DEF Tidy
  <2>10. ASSUME NEW k \in Names \ u PROVE Listed(r.d.dir, fh, x[k], k)
    <3>1. Listed(ee.dir, fh, expect[k], k)
      BY DEF IInv
    <3>2. CASE k # old /\ k # new
      <4>1. Kept(ee.dir, r.d.dir, k)
        BY <1>4, <2>2, <3>2 DEF Good
      <4>2. Listed(r.d.dir, fh, expect[k], k)
        BY <3>1, <4>1, KeptSame
      <4> QED BY <2>7, <3>2, <4>2
    <3>3. CASE k = old
      <4>1. \A j \in Entries : Shows(ee.dir, j, old) => j = i
        BY <2>1, <3>1, <3>3 DEF Listed
      <4>2. \A j \in Entries : ~Shows(r.d.dir, j, old)
        BY <2>4, <4>1
      <4>3. fh.name # old
        BY <1>4, <3>3
      <4> QED BY <2>7, <3>3, <4>2, <4>3 DEF Listed
    <3>4. CASE k = new
      <4>1. old \notin unsure /\ fh.name # old
        BY <1>4, <3>4
      <4>2. Listed(ee.dir, fh, expect[old], old)
        BY <4>1 DEF IInv
      <4>3. expect[old] # Absent /\ ee.dir[i][SIZE] = expect[old].size
        BY <2>1, <4>1, <4>2 DEF Listed
      <4>4. ~(fh.mode = "write" /\ fh.name = new)
        BY <1>6, <3>1, <3>4 DEF Listed
      <4>5. \A j \in Entries : Shows(r.d.dir, j, new) <=> j = i
        BY <1>6, <2>4
      <4> QED BY <2>3, <2>7, <3>4, <4>3, <4>4, <4>5 DEF Listed
    <3> QED BY <3>2, <3>3, <3>4
  <2>11. u \subseteq Names /\ r.err \in Errors /\ HandleOK(fh)
    BY <1>3, <1>6 DEF IInv, Typed, Errors
  <2> HIDE DEF u
  <2>12. Ending(r.d, r.h, r.err, x, u)
    BY <1>6, <2>2, <2>7, <2>8, <2>9, <2>10, <2>11 DEF Ending
  <2>13. \E V, U : Good(r.d, {}, V, ee.dir, U) /\ U \subseteq unsure \cup both
    BY <1>3, <2>2
  <2>14. Outcome(r, x, doubt, both)
    BY <1>3, <1>6, <2>2, <2>7, <2>11, <2>12, <2>13 DEF Outcome, u
  <2>15. Finish(r, x, doubt, both)
    BY <1>1
  <2> QED BY <2>14, <2>15, FinishInv
<1> QED BY <1>2, <1>5, <1>6

-----------------------------------------------------------------------------
(* Reading, formatting and the rest.                                       *)

\* Only a handle that is not for writing changes.
LEMMA ReaderInv ==
  ASSUME IInv, ~damaged, fh.mode # "write", NEW k, HandleOK(k), k.mode # "write", fh' = k,
         UNCHANGED <<ee, ram, error, expect, unsure, damaged>>
  PROVE  IInv'
<1>1. Typed'
  BY DEF IInv, Typed
<1>2. Intact(ee.dir, ram, k, unsure)
  BY DEF IInv, Intact, Writer
<1>3. unsure = {} => Tidy(ee.dir, ram, k)
  BY DEF IInv, Tidy
<1>4. \A n \in Names \ unsure : Listed(ee.dir, k, expect[n], n)
  BY DEF IInv, Listed
<1> QED BY <1>1, <1>2, <1>3, <1>4 DEF IInv

LEMMA ReadInv ==
  ASSUME IInv, ~damaged, Read
  PROVE  IInv'
<1> DEFINE r == eepromfs_read(Device, fh, Chunk)
<1>1. /\ fh.mode = "read" /\ fh.offset < fh.size /\ fh' = r.h
      /\ UNCHANGED <<ee, ram, error, expect, unsure, damaged>>
  BY DEF Read
<1>2. /\ Shape(fh) /\ fh.offset \in Int /\ fh.name \in Names
      /\ fh.size \in 0 .. MaxSize /\ fh.grown = FALSE
  BY <1>1, ClosedIs DEF IInv, HandleOK
<1>3. fh.size \in Int /\ Chunk \in Nat
  BY <1>2, EepromFsAssumption
<1>4. Moved(fh, r.h)
  BY <1>1, <1>2, <1>3, ReadKeeps
<1> HIDE DEF r
<1>5. HandleOK(r.h) /\ r.h.mode # "write"
  BY <1>1, <1>2, <1>4 DEF Moved, HandleOK
<1> QED BY <1>1, <1>5, ReaderInv

LEMMA CloseReadInv ==
  ASSUME IInv, ~damaged, CloseRead
  PROVE  IInv'
<1>1. HandleOK(Closed) /\ Closed.mode # "write"
  BY ClosedIs DEF HandleOK
<1> QED BY <1>1, ReaderInv DEF CloseRead

LEMMA FormatInv ==
  ASSUME IInv, Format
  PROVE  IInv'
<1>1. /\ ee' = Blank /\ ram' = eepromfs_init(Blank) /\ expect' = [n \in Names |-> Absent]
      /\ unsure' = IF fh = Closed THEN {} ELSE {fh.name}
      /\ damaged' = (fh.mode = "write") /\ error' = "OK" /\ fh' = fh
  BY DEF Format
<1>2. Empty(ee'.dir, ram')
  BY <1>1, BlankIs
<1>3. HandleOK(fh) /\ (fh # Closed => fh.name \in Names)
  BY DEF IInv, HandleOK
<1>4. Typed'
  <2>1. Absent \in [size : Int, tag : Int]
    BY DEF Absent
  <2>2. unsure' \subseteq Names /\ damaged' \in BOOLEAN
    BY <1>1, <1>3
  <2> QED BY <1>1, <1>2, <2>1, <2>2 DEF Typed, Errors, Empty
<1>5. CASE fh.mode = "write"
  <2>1. fh # Closed /\ damaged'
    BY <1>1, <1>5, ClosedIs
  <2>2. NoLeak'
    BY <1>1, <2>1 DEF NoLeak
  <2> QED BY <1>1, <1>3, <1>4, <2>1, <2>2 DEF IInv
<1>6. CASE fh.mode # "write"
  <2>1. damaged' = FALSE
    BY <1>1, <1>6
  <2>2. /\ Intact(ee'.dir, ram', fh, unsure') /\ Tidy(ee'.dir, ram', fh)
        /\ \A n \in Names : Listed(ee'.dir, fh, Absent, n)
    BY <1>2, <1>6, EmptyIs
  <2>3. \A n \in Names : Listed(ee'.dir, fh', expect'[n], n)
    BY <1>1, <2>2
  <2> QED BY <1>1, <1>3, <1>4, <2>1, <2>2, <2>3 DEF IInv
<1> QED BY <1>5, <1>6

LEMMA PlainRestartInv ==
  ASSUME IInv, Restart(ee, {})
  PROVE  IInv'
<1> DEFINE e == ee
           none == {}
<1>1. e.dir \in Dirs
  BY DEF IInv, Typed
<1>2. ASSUME ~damaged PROVE Fair(ee.dir, unsure \cup none, e.dir)
  <2>1. Good(Device, {}, Writer(fh), ee.dir, {})
    BY <1>2, StartGood
  <2>2. Fair(ee.dir, {}, Device.dir)
    BY <2>1, GoodFacts
  <2>3. Device.dir = ee.dir
    BY DeviceIs
  <2> QED BY <2>2, <2>3 DEF Fair
<1>3. Restart(e, none) /\ none \subseteq Names /\ e.dir = ee.dir
  OBVIOUS
<1> HIDE DEF e, none
<1> QED BY <1>1, <1>2, <1>3, RestartInv

LEMMA NextInv ==
  ASSUME IInv, [Next]_vars
  PROVE  IInv'
<1>1. CASE UNCHANGED vars
  BY <1>1 DEF vars, IInv, Typed, NoLeak, Live, Owned
<1>2. CASE Next
  <2>1. ASSUME ~damaged, NEW n \in Names, OpenWrite(n) \/ OpenAppend(n) \/ Delete(n) \/ OpenRead(n)
        PROVE  IInv'
    BY <2>1, OpenWriteInv, OpenAppendInv, DeleteInv, OpenReadInv
  <2>2. ASSUME ~damaged, NEW old \in Names, NEW new \in Names \ {old}, Rename(old, new)
        PROVE  IInv'
    BY <2>2, RenameInv
  <2>3. ASSUME ~damaged, NEW stray \in BOOLEAN, Write(stray)
        PROVE  IInv'
    BY <2>3, WriteInv
  <2>4. ASSUME ~damaged, NEW n \in 0 .. Chunk, NEW stray \in BOOLEAN, CloseWrite(n, stray)
        PROVE  IInv'
    BY <2>4, CloseWriteInv
  <2>5. ASSUME ~damaged, Read \/ CloseRead
        PROVE  IInv'
    BY <2>5, ReadInv, CloseReadInv
  <2>6. ASSUME Restart(ee, {}) \/ Format
        PROVE  IInv'
    BY <2>6, PlainRestartInv, FormatInv
  <2> QED BY <1>2, <2>1, <2>2, <2>3, <2>4, <2>5, <2>6 DEF Next
<1> QED BY <1>1, <1>2

\* The inductive invariant holds throughout.
LEMMA InvHolds == Spec => []IInv
<1>1. IInv /\ [Next]_vars => IInv'
  BY NextInv
<1> QED BY InitInv, <1>1, PTL DEF Spec

LEMMA InvConsistent == IInv => Consistent
<1> SUFFICES ASSUME IInv PROVE Consistent
  OBVIOUS
<1> DEFINE D == ee.dir
<1>1. TypeOK
  <2>1. ram.sectors \subseteq Sectors /\ ram.entries \subseteq Entries /\ ram.free \in 0 .. 255
        /\ error \in Errors /\ unsure \subseteq Names
    BY DEF IInv, Typed
  <2>2. 0 \in 0 .. MaxSize
    BY Consts
  <2>3. fh.mode \in {"closed", "read", "write"} /\ fh.size \in 0 .. MaxSize
    BY <2>2, ClosedIs DEF IInv, HandleOK
  <2> QED BY <2>1, <2>3 DEF TypeOK, Errors
<1>2. D \in Dirs
  BY DEF IInv, Typed
<1>3. Live = Alive(D) /\ Alive(D) \subseteq Entries
  BY DEF Live, deleted, Alive
<1>4. \A i \in Live : \A c : c \in Owned(i) <=> c \in Cells /\ Holds(D[i], c)
  <2> SUFFICES ASSUME NEW i \in Live, NEW c PROVE c \in Owned(i) <=> c \in Cells /\ Holds(D[i], c)
    OBVIOUS
  <2>1. c \in 1 .. curentry_max_sectors(D[i]) => c \in Cells
    BY <1>2, <1>3, WidthCells
  <2> QED BY <2>1 DEF Owned, Holds
<1>5. CASE damaged
  BY <1>1, <1>5 DEF IInv, Consistent, MarksFlip, NoCrossLink, SectorsReserved
<1>6. CASE ~damaged
  <2>1. Sound(D, ram.entries, ram.sectors, {}, Writer(fh)) /\ Counted(ram)
    BY <1>6 DEF IInv, Intact
  <2>2. Marked(D, Alive(D), ram.sectors) /\ Apart(D, Alive(D))
    BY <2>1, SoundFacts
  <2>3. MarksFlip
    BY <2>1 DEF MarksFlip, Counted
  <2>4. NoCrossLink
    <3>1. ASSUME NEW i \in Live, NEW j \in Live, NEW c \in Owned(i), NEW b \in Owned(j),
                 ee.dir[i][c] = ee.dir[j][b]
          PROVE  i = j /\ c = b
      <4>1. i \in Alive(D) /\ j \in Alive(D)
        BY <1>3
      <4>2. c \in Cells /\ Holds(D[i], c) /\ b \in Cells /\ Holds(D[j], b) /\ D[i][c] = D[j][b]
        BY <1>4, <3>1
      <4> HIDE DEF D
      <4> QED BY <2>2, <4>1, <4>2 DEF Apart
    <3> QED BY <3>1 DEF NoCrossLink
  <2>5. SectorsReserved
    <3>1. \A i \in Live : \A c \in Owned(i) : D[i][c] \in ram.sectors
      BY <1>3, <1>4, <2>2 DEF Marked
    <3>2. ram.free = SECTOR_COUNT - Cardinality(ram.sectors)
      BY <2>1 DEF Counted
    <3> QED BY <3>1, <3>2 DEF SectorsReserved
  <2>6. NoLeak
    <3> SUFFICES ASSUME unsure = {}
                 PROVE  ram.sectors = UNION {{D[i][c] : c \in Owned(i)} : i \in Live}
      BY DEF NoLeak
    <3>1. Full(D, ram.sectors)
      BY <1>6 DEF IInv, Tidy
    <3>2. ASSUME NEW s \in ram.sectors
          PROVE  s \in UNION {{D[i][c] : c \in Owned(i)} : i \in Live}
      <4>1. PICK i \in Alive(D), c \in Cells : Holds(D[i], c) /\ D[i][c] = s
        BY <3>1 DEF Full
      <4>2. i \in Live /\ c \in Owned(i)
        BY <1>3, <1>4, <4>1
      <4> QED BY <4>1, <4>2
    <3>3. \A i \in Live : \A c \in Owned(i) : D[i][c] \in ram.sectors
      BY <1>3, <1>4, <2>2 DEF Marked
    <3>4. UNION {{D[i][c] : c \in Owned(i)} : i \in Live} \subseteq ram.sectors
      BY <3>3
    <3> QED BY <3>2, <3>4
  <2> QED BY <1>1, <2>3, <2>4, <2>5, <2>6 DEF Consistent
<1> QED BY <1>5, <1>6

LEMMA InvDirectory == IInv => DirectoryTrue
<1> SUFFICES ASSUME IInv, fh = Closed, ~damaged, NEW n \in Names \ unsure
             PROVE  {x \in eepromfs_readdir(ee) : x[1] = n} =
                      IF expect[n] = Absent THEN {} ELSE {<<n, expect[n].size>>}
  BY DEF DirectoryTrue
<1> DEFINE D == ee.dir
           N == {j \in Entries : ~deleted(D[j]) /\ ~curentry_is_listentry(D[j])}
           L == {<<D[i][NAME], D[i][SIZE]>> : i \in N}
<1>1. eepromfs_readdir(ee) = L
  BY Zenon DEF eepromfs_readdir
<1>2. \A i \in Entries : i \in N /\ D[i][NAME] = n <=> Shows(D, i, n)
  <2> SUFFICES ASSUME NEW i \in Entries PROVE i \in N /\ D[i][NAME] = n <=> Shows(D, i, n)
    OBVIOUS
  <2>1. D[i][FLAGS] \in {0, 2, FF}
    BY RowFacts DEF IInv, Typed
  <2> QED BY <2>1 DEF Shows, deleted, curentry_is_listentry, FF, EEFS_FLAG_LISTENTRY
<1>3. Listed(D, fh, expect[n], n) /\ fh.mode # "write"
  BY ClosedIs DEF IInv
<1>4. \A x \in L : x[1] = n => \E i \in Entries : Shows(D, i, n) /\ x = <<n, D[i][SIZE]>>
  <2> SUFFICES ASSUME NEW x \in L, x[1] = n
               PROVE  \E i \in Entries : Shows(D, i, n) /\ x = <<n, D[i][SIZE]>>
    OBVIOUS
  <2>1. PICK i \in N : x = <<D[i][NAME], D[i][SIZE]>>
    OBVIOUS
  <2>2. D[i][NAME] = n
    BY <2>1
  <2> QED BY <1>2, <2>1, <2>2
<1>5. CASE expect[n] = Absent
  <2>1. \A i \in Entries : ~Shows(D, i, n)
    BY <1>3, <1>5 DEF Listed
  <2>2. \A x \in L : x[1] # n
    BY <1>4, <2>1
  <2> QED BY <1>1, <1>5, <2>2
<1>6. CASE expect[n] # Absent
  <2>1. PICK i \in Entries : /\ \A j \in Entries : Shows(D, j, n) <=> j = i
                             /\ D[i][SIZE] = expect[n].size
    BY <1>3, <1>6 DEF Listed
  <2> DEFINE y == <<n, expect[n].size>>
  <2>2. y \in L /\ y[1] = n
    <3>1. i \in N /\ D[i][NAME] = n
      BY <1>2, <2>1
    <3> QED BY <2>1, <3>1
  <2>3. \A x \in L : x[1] = n => x = y
    BY <1>4, <2>1
  <2> HIDE DEF y, L
  <2>4. {x \in L : x[1] = n} = {y}
    BY <2>2, <2>3
  <2> QED BY <1>1, <1>6, <2>4 DEF y
<1> QED BY <1>5, <1>6

-----------------------------------------------------------------------------

\* Directory, sector lists and bitmaps agree, for every size of the EEPROM and
\* every number of operations and power failures: mark_sector always flips a
\* bit, no sector is in two files or in a file and free, and BLOCKS FREE counts
\* the others, unless the directory is damaged in one of the three known ways;
\* and no sector is lost unless a power failure or such an append came before.
THEOREM ConsistentHolds == Spec => []Consistent
BY InvHolds, InvConsistent, PTL

\* While the directory is not damaged eepromfs_readdir lists every closed file
\* of which something is promised once and with its length, and none that was
\* deleted or renamed.
THEOREM DirectoryTrueHolds == Spec => []DirectoryTrue
BY InvHolds, InvDirectory, PTL
=============================================================================
