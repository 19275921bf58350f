----------------------------- MODULE ChannelsAddr -----------------------------
(***************************************************************************)
(* The secondary addresses of Channels: each of 1..14 leads find_buffer to *)
(* one buffer, a chain has one active member whatever moves it, and a      *)
(* closed channel keeps no buffer.                                         *)
(***************************************************************************)
EXTENDS ChannelsProofs

-----------------------------------------------------------------------------
(* What the addresses of a pool satisfy.                                   *)

\* Buffer i is allocated and carries address x.
Holds(p, i, x) == p.buf[i].allocated /\ p.buf[i].secondary = x

\* Buffers of one large buffer.
SameChain(p, i, j) == Large(p, i) /\ Large(p, j) /\ p.buf[i].first = p.buf[j].first

\* A user buffer in no chain carries an address of the host.
PlainAddress(p) ==
  \A i \in Slots :
    p.buf[i].allocated /\ p.buf[i].secondary < BUFFER_SEC_SYSTEM /\ ~Large(p, i)
      => p.buf[i].secondary \in 0 .. 14

\* No two buffers carry one of the addresses 1..14.
UniqueAddress(p) ==
  \A x \in 1 .. 14 : \A i, j \in Slots : Holds(p, i, x) /\ Holds(p, j, x) => i = j

\* Member a is the active one of i's chain.
ActiveMember(p, i, a) ==
  /\ SameChain(p, i, a)
  /\ p.buf[a].secondary \in 0 .. 14
  /\ \A j \in Slots : SameChain(p, i, j) /\ j # a =>
       p.buf[j].secondary = BUFFER_SEC_CHAIN - p.buf[a].secondary

\* Every chain has one.
OneActive(p) == \A i \in Slots : Large(p, i) => \E a \in Slots : ActiveMember(p, i, a)

\* The addresses 1..14 in use belong to the channels O.
OwnedAddress(p, O) == \A x \in 1 .. 14 : \A i \in Slots : Holds(p, i, x) => x \in O

Addressed(p, O) ==
  PlainAddress(p) /\ UniqueAddress(p) /\ OneActive(p) /\ OwnedAddress(p, O)

-----------------------------------------------------------------------------
(* Changes that keep the addresses.                                        *)

\* q has some of p's buffers, whole chains of them, under their addresses.
Kept(p, q) ==
  \A i \in Slots : q.buf[i].allocated =>
    /\ p.buf[i].allocated
    /\ q.buf[i].secondary = p.buf[i].secondary
    /\ Large(q, i) <=> Large(p, i)
    /\ Large(p, i) => q.buf[i].first = p.buf[i].first
    /\ \A j \in Slots : SameChain(p, i, j) => q.buf[j].allocated

\* The members of a chain that is left are the members it had.
LEMMA KeptChain ==
  ASSUME NEW p, NEW q, Kept(p, q), NEW i \in Slots, NEW j \in Slots, Large(q, i)
  PROVE  /\ Large(p, i)
         /\ SameChain(q, i, j) <=> SameChain(p, i, j)
<1>1. q.buf[i].allocated
  BY DEF Large
<1>2. Large(p, i) /\ q.buf[i].first = p.buf[i].first
  BY <1>1 DEF Kept
<1>3. ASSUME SameChain(q, i, j) PROVE SameChain(p, i, j)
  <2>1. q.buf[j].allocated /\ Large(q, j) /\ q.buf[i].first = q.buf[j].first
    BY <1>3 DEF SameChain, Large
  <2>2. Large(p, j) /\ q.buf[j].first = p.buf[j].first
    BY <2>1 DEF Kept
  <2>3. QED
    BY <1>2, <2>1, <2>2 DEF SameChain
<1>4. ASSUME SameChain(p, i, j) PROVE SameChain(q, i, j)
  <2>1. q.buf[j].allocated
    BY <1>1, <1>4 DEF Kept
  <2>2. Large(p, j) /\ p.buf[i].first = p.buf[j].first
    BY <1>4 DEF SameChain
  <2>3. Large(q, j) /\ q.buf[j].first = p.buf[j].first
    BY <2>1, <2>2 DEF Kept
  <2>4. QED
    BY <1>2, <2>2, <2>3 DEF SameChain
<1>5. QED
  BY <1>2, <1>3, <1>4

\* Such a change may be followed by another.
LEMMA KeptTransitive ==
  ASSUME NEW p, NEW q, NEW r, Kept(p, q), Kept(q, r)
  PROVE  Kept(p, r)
<1>1. SUFFICES ASSUME NEW i \in Slots, r.buf[i].allocated
               PROVE  /\ p.buf[i].allocated
                      /\ r.buf[i].secondary = p.buf[i].secondary
                      /\ Large(r, i) <=> Large(p, i)
                      /\ Large(p, i) => r.buf[i].first = p.buf[i].first
                      /\ \A j \in Slots : SameChain(p, i, j) => r.buf[j].allocated
  BY DEF Kept
<1>2. /\ q.buf[i].allocated /\ r.buf[i].secondary = q.buf[i].secondary
      /\ Large(r, i) <=> Large(q, i)
      /\ Large(q, i) => r.buf[i].first = q.buf[i].first
      /\ \A j \in Slots : SameChain(q, i, j) => r.buf[j].allocated
  BY <1>1 DEF Kept
<1>3. /\ p.buf[i].allocated /\ q.buf[i].secondary = p.buf[i].secondary
      /\ Large(q, i) <=> Large(p, i)
      /\ Large(p, i) => q.buf[i].first = p.buf[i].first
  BY <1>2 DEF Kept
<1>4. ASSUME NEW j \in Slots, SameChain(p, i, j) PROVE r.buf[j].allocated
  <2>1. Large(q, i)
    BY <1>3, <1>4 DEF SameChain
  <2>2. SameChain(q, i, j)
    BY <1>4, <2>1, KeptChain
  <2>3. QED
    BY <1>2, <2>2
<1>5. QED
  BY <1>2, <1>3, <1>4

\* It keeps the addresses as they should be.
LEMMA KeptAddressed ==
  ASSUME NEW p, NEW q, NEW O, Addressed(p, O), Kept(p, q)
  PROVE  Addressed(q, O)
<1>1. \A i \in Slots : \A x : Holds(q, i, x) => Holds(p, i, x)
  BY DEF Kept, Holds
<1>2. PlainAddress(q)
  BY DEF Addressed, PlainAddress, Kept
<1>3. UniqueAddress(q) /\ OwnedAddress(q, O)
  BY <1>1 DEF Addressed, UniqueAddress, OwnedAddress
<1>4. ASSUME NEW i \in Slots, Large(q, i)
      PROVE  \E a \in Slots : ActiveMember(q, i, a)
  <2>1. Large(p, i)
    BY <1>4, KeptChain
  <2>2. PICK a \in Slots : ActiveMember(p, i, a)
    BY <2>1 DEF Addressed, OneActive
  <2>3. \A j \in Slots : SameChain(q, i, j) <=> SameChain(p, i, j)
    BY <1>4, KeptChain
  <2>4. \A j \in Slots : SameChain(q, i, j) => q.buf[j].secondary = p.buf[j].secondary
    BY DEF SameChain, Large, Kept
  <2>5. SameChain(q, i, a) /\ q.buf[a].secondary = p.buf[a].secondary
    BY <2>2, <2>3, <2>4 DEF ActiveMember
  <2>6. ActiveMember(q, i, a)
    BY <2>2, <2>3, <2>4, <2>5 DEF ActiveMember
  <2>7. QED
    BY <2>6
<1>5. QED
  BY <1>2, <1>3, <1>4 DEF Addressed, OneActive

\* q is p with the buffers M freed.
Frees(p, q, M) == \A i \in Slots : IF i \in M THEN q.buf[i].allocated = FALSE
                                             ELSE q.buf[i] = p.buf[i]

\* Freeing whole chains.
LEMMA FreedKept ==
  ASSUME NEW p, NEW q, NEW M, WholeChains(p, M), Frees(p, q, M)
  PROVE  Kept(p, q)
<1>1. ASSUME NEW i \in Slots, q.buf[i].allocated
      PROVE  i \notin M /\ q.buf[i] = p.buf[i] /\ (Large(q, i) <=> Large(p, i))
  BY <1>1 DEF Large, Frees
<1>2. ASSUME NEW i \in Slots, q.buf[i].allocated, NEW j \in Slots, SameChain(p, i, j)
      PROVE  q.buf[j].allocated
  <2>1. j \notin M
    BY <1>1, <1>2 DEF SameChain, WholeChains
  <2>2. QED
    BY <1>2, <2>1 DEF SameChain, Large, Frees
<1>3. QED
  BY <1>1, <1>2 DEF Kept

\* free_buffers of whole chains.
LEMMA FreeKept ==
  ASSUME NEW p, PoolInv(p), NEW M \in SUBSET Slots, WholeChains(p, M)
  PROVE  Kept(p, free_buffers(p, M))
<1> DEFINE q == free_buffers(p, M)
<1>1. /\ \A i \in 0 .. BufferCount : i \notin M => q.buf[i] = p.buf[i]
      /\ \A i \in M : q.buf[i].allocated = FALSE
  BY FreeInv
<1> HIDE DEF q
<1>2. Frees(p, q, M)
  <2>1. \A i \in Slots : i \in 0 .. BufferCount
    BY BufferCountAssumption DEF Slots
  <2>2. QED
    BY <1>1, <2>1 DEF Frees
<1>3. Kept(p, q)
  BY <1>2, FreedKept
<1>4. QED
  BY <1>3 DEF q

\* free_buffer of a buffer in no chain.
LEMMA FreeOneKept ==
  ASSUME NEW p, PoolInv(p), NEW i \in Slots, ~Large(p, i)
  PROVE  Kept(p, free_buffer(p, i))
<1>1. {i} \in SUBSET Slots /\ WholeChains(p, {i})
  BY FreedSetsAreWhole
<1>2. QED
  BY <1>1, FreeKept DEF free_buffer

\* BUS_CLEANUP.
LEMMA EndCommandKept ==
  ASSUME NEW p, PoolInv(p)
  PROVE  Kept(p, EndCommand(p))
<1>1. FMB_UNSTICKY(p) \in SUBSET Slots /\ WholeChains(p, FMB_UNSTICKY(p))
  BY FreedSetsAreWhole
<1>2. Kept(p, free_buffers(p, FMB_UNSTICKY(p)))
  BY <1>1, FreeKept
<1>3. Kept(p, p)
  BY DEF Kept, SameChain, Large
<1>4. QED
  BY <1>2, <1>3 DEF EndCommand

\* A change of flags.
LEMMA FlagsKept ==
  ASSUME NEW p, NEW q, OnlyDirtyChanged(p, q)
  PROVE  Kept(p, q)
<1>1. \A i \in Slots : Large(q, i) <=> Large(p, i)
  BY DEF OnlyDirtyChanged, Large
<1>2. QED
  BY <1>1 DEF Kept, OnlyDirtyChanged, SameChain, Large

\* A change to a buffer in no chain that keeps its address.
LEMMA PlainKept ==
  ASSUME NEW p, NEW q, NEW i \in Slots, SameBut(p, q, i), ~Large(p, i), ~Large(q, i),
         q.buf[i].allocated =>
           p.buf[i].allocated /\ q.buf[i].secondary = p.buf[i].secondary
  PROVE  Kept(p, q)
<1>1. \A k \in Slots : Large(q, k) <=> Large(p, k)
  BY DEF SameBut, Large
<1>2. \A k, j \in Slots : SameChain(p, k, j) => j # i /\ p.buf[j].allocated
  BY DEF SameChain, Large
<1>3. QED
  BY <1>1, <1>2 DEF Kept, SameBut

-----------------------------------------------------------------------------
(* Changes that set an address.                                            *)

\* A buffer in no chain gets address 0, a system address, or the address of a
\* channel that has no other buffer.
LEMMA SetAddress ==
  ASSUME NEW p, NEW q, NEW O, Addressed(p, O), NEW i \in Slots,
         SameBut(p, q, i), ~Large(p, i), ~Large(q, i),
         q.buf[i].secondary < BUFFER_SEC_SYSTEM => q.buf[i].secondary \in 0 .. 14,
         \A x \in 1 .. 14 : Holds(q, i, x) =>
           x \in O /\ \A k \in Slots : k # i => ~Holds(p, k, x)
  PROVE  Addressed(q, O)
<1>1. \A k \in Slots : Large(q, k) <=> Large(p, k)
  BY DEF SameBut, Large
<1>2. PlainAddress(q)
  BY <1>1 DEF Addressed, PlainAddress, SameBut
<1>3. \A k \in Slots : k # i => \A x : Holds(q, k, x) <=> Holds(p, k, x)
  BY DEF SameBut, Holds
<1>4. UniqueAddress(q)
  BY <1>3 DEF Addressed, UniqueAddress
<1>5. OwnedAddress(q, O)
  BY <1>3 DEF Addressed, OwnedAddress
<1>6. \A k, j \in Slots : SameChain(q, k, j) <=> SameChain(p, k, j)
  BY <1>1 DEF SameChain, SameBut
<1>7. \A k, j \in Slots : SameChain(p, k, j) => q.buf[j].secondary = p.buf[j].secondary
  BY DEF SameChain, SameBut
<1>8. ASSUME NEW k \in Slots, Large(q, k)
      PROVE  \E a \in Slots : ActiveMember(q, k, a)
  <2>1. PICK a \in Slots : ActiveMember(p, k, a)
    BY <1>1, <1>8 DEF Addressed, OneActive
  <2>2. SameChain(q, k, a) /\ q.buf[a].secondary = p.buf[a].secondary
    BY <1>6, <1>7, <2>1 DEF ActiveMember
  <2>3. ActiveMember(q, k, a)
    BY <1>6, <1>7, <2>1, <2>2 DEF ActiveMember
  <2>4. QED
    BY <2>3
<1>9. QED
  BY <1>2, <1>4, <1>5, <1>8 DEF Addressed, OneActive

\* More channels are open.
LEMMA MoreOwners ==
  ASSUME NEW p, NEW O, NEW O2, Addressed(p, O), O \subseteq O2
  PROVE  Addressed(p, O2)
BY DEF Addressed, OwnedAddress

\* Where nobody carries sa, nobody carries its chain address either.
LEMMA NoChainAddress ==
  ASSUME NEW p, NEW O, Addressed(p, O), NEW sa \in 1 .. 14,
         \A i \in Slots : ~Holds(p, i, sa)
  PROVE  \A i \in Slots : ~Holds(p, i, BUFFER_SEC_CHAIN - sa)
<1>1. SUFFICES ASSUME NEW i \in Slots, p.buf[i].allocated, p.buf[i].secondary = 99 - sa
               PROVE  FALSE
  BY DEF Holds, BUFFER_SEC_CHAIN
<1>2. p.buf[i].secondary < 100 /\ p.buf[i].secondary \notin 0 .. 14
  BY <1>1
<1>3. Large(p, i)
  BY <1>1, <1>2 DEF Addressed, PlainAddress, BUFFER_SEC_SYSTEM
<1>4. PICK a \in Slots : ActiveMember(p, i, a)
  BY <1>3 DEF Addressed, OneActive
<1>5. a # i /\ p.buf[a].secondary \in 0 .. 14 /\ p.buf[a].allocated
  BY <1>2, <1>4 DEF ActiveMember, SameChain, Large
<1>6. p.buf[i].secondary = 99 - p.buf[a].secondary
  <2>1. SameChain(p, i, i)
    BY <1>3 DEF SameChain
  <2>2. QED
    BY <1>4, <1>5, <2>1 DEF ActiveMember, BUFFER_SEC_CHAIN
<1>7. p.buf[a].secondary = sa
  BY <1>1, <1>5, <1>6
<1>8. QED
  BY <1>5, <1>7 DEF Holds

\* A new chain for a channel that has no buffer.
LEMMA ChainAddress ==
  ASSUME NEW p, NEW O, Addressed(p, O), PoolInv(p), NEW r, NEW R, NEW s, NEW sa \in 0 .. 14,
         AddsChain(p, r, R, s, sa), sa \in 1 .. 14 => sa \in O,
         \A i \in Slots : sa \in 1 .. 14 => ~Holds(p, i, sa)
  PROVE  Addressed(r, O)
<1>1. /\ s \in R /\ s \in Slots /\ Large(r, s) /\ r.buf[s].first = s
      /\ r.buf[s].secondary = sa /\ ~p.buf[s].allocated
  BY DEF AddsChain
<1>2. \A i \in Slots : i \notin R => r.buf[i] = p.buf[i] /\ (Large(r, i) <=> Large(p, i))
  BY DEF AddsChain, Large
<1>3. \A i \in R : Large(r, i) /\ ~Large(p, i) /\ r.buf[i].first = s
  BY DEF AddsChain, Large
<1>4. ASSUME NEW i \in R, i # s PROVE r.buf[i].secondary = 99 - sa
  BY <1>4 DEF AddsChain, BUFFER_SEC_CHAIN
<1>5. PlainAddress(r)
  BY <1>2, <1>3 DEF Addressed, PlainAddress
<1>6. ASSUME NEW x \in 1 .. 14, NEW i \in Slots, Holds(r, i, x)
      PROVE  (i = s /\ x = sa) \/ (i \notin R /\ Holds(p, i, x))
  <2>1. CASE i \in R
    BY <1>1, <1>4, <1>6, <2>1 DEF Holds
  <2>2. CASE i \notin R
    BY <1>2, <1>6, <2>2 DEF Holds
  <2>3. QED
    BY <2>1, <2>2
<1>7. UniqueAddress(r)
  BY <1>6 DEF Addressed, UniqueAddress
<1>8. OwnedAddress(r, O)
  BY <1>6 DEF Addressed, OwnedAddress
<1>9. \A i \in Slots : Large(p, i) => i \notin R /\ p.buf[i].first # s
  BY <1>1, <1>3 DEF PoolInv, FirstLinks, Large
<1>10. ASSUME NEW i \in Slots, Large(r, i)
       PROVE  \E a \in Slots : ActiveMember(r, i, a)
  <2>1. CASE i \in R
    <3>1. SameChain(r, i, s)
      BY <1>1, <1>3, <2>1 DEF SameChain
    <3>2. ASSUME NEW j \in Slots, SameChain(r, i, j), j # s
          PROVE  r.buf[j].secondary = BUFFER_SEC_CHAIN - r.buf[s].secondary
      <4>1. j \in R
        BY <1>2, <1>3, <1>9, <2>1, <3>2 DEF SameChain
      <4>2. QED
        BY <1>1, <1>4, <3>2, <4>1 DEF BUFFER_SEC_CHAIN
    <3>3. ActiveMember(r, i, s)
      BY <1>1, <3>1, <3>2 DEF ActiveMember
    <3>4. QED
      BY <1>1, <3>3
  <2>2. CASE i \notin R
    <3>1. Large(p, i) /\ r.buf[i] = p.buf[i]
      BY <1>2, <1>10, <2>2
    <3>2. PICK a \in Slots : ActiveMember(p, i, a)
      BY <3>1 DEF Addressed, OneActive
    <3>3. ASSUME NEW j \in Slots
          PROVE  /\ SameChain(r, i, j) <=> SameChain(p, i, j)
                 /\ SameChain(p, i, j) => r.buf[j].secondary = p.buf[j].secondary
      BY <1>2, <1>3, <1>9, <3>1 DEF SameChain
    <3>4. SameChain(r, i, a) /\ r.buf[a].secondary = p.buf[a].secondary
      BY <3>2, <3>3 DEF ActiveMember
    <3>5. ActiveMember(r, i, a)
      BY <3>2, <3>3, <3>4 DEF ActiveMember
    <3>6. QED
      BY <3>5
  <2>3. QED
    BY <2>1, <2>2
<1>11. QED
  BY <1>5, <1>7, <1>8, <1>10 DEF Addressed, OneActive

\* Activate moves the address of i to j and changes nothing else.
LEMMA ActivateFields ==
  ASSUME NEW p, PoolInv(p), NEW i \in Slots, NEW j \in Slots,
         p.buf[i].secondary \in 0 .. 14
  PROVE  LET q == Activate(p, i, j)
         IN  /\ q.buf[j].secondary = p.buf[i].secondary
             /\ i # j => q.buf[i].secondary = 99 - p.buf[i].secondary
             /\ \A k \in Slots : /\ k \notin {i, j} => q.buf[k] = p.buf[k]
                                 /\ q.buf[k].allocated = p.buf[k].allocated
                                 /\ q.buf[k].first = p.buf[k].first
                                 /\ q.buf[k].cleanup = p.buf[k].cleanup
<1> DEFINE q == Activate(p, i, j)
           sec == p.buf[i].secondary
           y == (BUFFER_SEC_CHAIN - sec) % 256
<1>1. p \in Pool /\ \A k \in Slots : k \in 0 .. BufferCount
  BY BufferCountAssumption DEF PoolInv, Slots
<1>2. y = 99 - sec
  BY DEF BUFFER_SEC_CHAIN
<1>3. sec \in 0 .. 255 /\ y \in 0 .. 255
  BY <1>2
<1>4. \A k \in Slots : q.buf[k] = IF k = j THEN [p.buf[k] EXCEPT !.secondary = sec]
                                  ELSE IF k = i THEN [p.buf[k] EXCEPT !.secondary = y]
                                  ELSE p.buf[k]
  BY <1>1 DEF Activate, Pool
<1> HIDE DEF q, y
<1>5. \A k \in Slots : p.buf[k] \in Buffer
  BY <1>1, PoolFields
<1>6. ASSUME NEW k \in Slots, NEW x \in 0 .. 255
      PROVE  LET d == [p.buf[k] EXCEPT !.secondary = x]
             IN  /\ d.secondary = x /\ d.allocated = p.buf[k].allocated
                 /\ d.first = p.buf[k].first /\ d.cleanup = p.buf[k].cleanup
  BY <1>5, SetSecondary
<1>7. ASSUME NEW k \in Slots
      PROVE  /\ k \notin {i, j} => q.buf[k] = p.buf[k]
             /\ q.buf[k].allocated = p.buf[k].allocated
             /\ q.buf[k].first = p.buf[k].first
             /\ q.buf[k].cleanup = p.buf[k].cleanup
  <2>1. CASE k = j
    <3>1. q.buf[k] = [p.buf[k] EXCEPT !.secondary = sec]
      BY <1>4, <2>1
    <3>2. QED
      BY <1>3, <1>6, <2>1, <3>1
  <2>2. CASE k # j /\ k = i
    <3>1. q.buf[k] = [p.buf[k] EXCEPT !.secondary = y]
      BY <1>4, <2>2
    <3>2. QED
      BY <1>3, <1>6, <2>2, <3>1
  <2>3. CASE k # j /\ k # i
    BY <1>4, <2>3
  <2>4. QED
    BY <2>1, <2>2, <2>3
<1>8. q.buf[j].secondary = sec
  <2>1. q.buf[j] = [p.buf[j] EXCEPT !.secondary = sec]
    BY <1>4
  <2>2. QED
    BY <1>3, <1>6, <2>1
<1>9. ASSUME i # j PROVE q.buf[i].secondary = y
  <2>1. q.buf[i] = [p.buf[i] EXCEPT !.secondary = y]
    BY <1>4, <1>9
  <2>2. QED
    BY <1>3, <1>6, <2>1
<1>10. QED
  BY <1>2, <1>7, <1>8, <1>9 DEF q

\* directbuffer_refill, B-P: the address moves within its chain.
LEMMA ActivateAddress ==
  ASSUME NEW p, NEW O, Addressed(p, O), PoolInv(p), NEW i \in Slots, NEW j \in Slots,
         p.buf[i].allocated, p.buf[i].secondary \in 0 .. 14,
         i = j \/ SameChain(p, i, j)
  PROVE  Addressed(Activate(p, i, j), O)
<1> DEFINE q == Activate(p, i, j)
           sec == p.buf[i].secondary
<1>1. /\ q.buf[j].secondary = sec
      /\ i # j => q.buf[i].secondary = 99 - sec
      /\ \A k \in Slots : /\ k \notin {i, j} => q.buf[k] = p.buf[k]
                          /\ q.buf[k].allocated = p.buf[k].allocated
                          /\ q.buf[k].first = p.buf[k].first
                          /\ q.buf[k].cleanup = p.buf[k].cleanup
  BY ActivateFields
<1> HIDE DEF q
<1>2. \A k, m \in Slots : (Large(q, k) <=> Large(p, k))
                          /\ (SameChain(q, k, m) <=> SameChain(p, k, m))
  BY <1>1 DEF Large, SameChain
<1>3. CASE i = j
  <2>1. \A k \in Slots : q.buf[k].secondary = p.buf[k].secondary
    BY <1>1, <1>3
  <2>2. Kept(p, q)
    BY <1>1, <1>2, <2>1 DEF Kept, SameChain, Large
  <2>3. QED
    BY <2>2, KeptAddressed DEF q
<1>4. CASE i # j
  <2>1. SameChain(p, i, j) /\ p.buf[j].allocated
    BY <1>4 DEF SameChain, Large
  <2>2. ActiveMember(p, i, i)
    <3>1. PICK a \in Slots : ActiveMember(p, i, a)
      BY <2>1 DEF Addressed, OneActive, SameChain
    <3>2. SameChain(p, i, i)
      BY <2>1 DEF SameChain
    <3>3. a = i
      BY <3>1, <3>2 DEF ActiveMember, BUFFER_SEC_CHAIN
    <3>4. QED
      BY <3>1, <3>3
  <2>3. PlainAddress(q)
    <3>1. \A k \in Slots : ~Large(p, k) => k \notin {i, j}
      BY <2>1 DEF SameChain
    <3>2. QED
      BY <1>1, <1>2, <3>1 DEF Addressed, PlainAddress
  <2>4. ASSUME NEW x \in 1 .. 14, NEW k \in Slots, Holds(q, k, x)
        PROVE  (k = j /\ x = sec) \/ (k # i /\ Holds(p, k, x))
    <3>1. k # i
      BY <1>1, <1>4, <2>4 DEF Holds
    <3>2. QED
      BY <1>1, <2>4, <3>1 DEF Holds
  <2>5. \A x \in 1 .. 14 : x = sec => Holds(p, i, x)
    BY DEF Holds
  <2>6. UniqueAddress(q)
    BY <2>4, <2>5 DEF Addressed, UniqueAddress
  <2>7. OwnedAddress(q, O)
    BY <2>4, <2>5 DEF Addressed, OwnedAddress
  <2>8. ASSUME NEW k \in Slots, Large(q, k)
        PROVE  \E a \in Slots : ActiveMember(q, k, a)
    <3>1. CASE SameChain(p, i, k)
      <4>1. SameChain(q, k, j)
        <5>1. SameChain(p, k, j)
          BY <2>1, <3>1 DEF SameChain
        <5>2. QED
          BY <1>2, <5>1
      <4>2. ASSUME NEW m \in Slots, SameChain(q, k, m), m # j
            PROVE  q.buf[m].secondary = BUFFER_SEC_CHAIN - q.buf[j].secondary
        <5>1. SameChain(p, i, m)
          BY <1>2, <3>1, <4>2 DEF SameChain
        <5>2. m # i => p.buf[m].secondary = 99 - sec
          BY <2>2, <5>1 DEF ActiveMember, BUFFER_SEC_CHAIN
        <5>3. q.buf[m].secondary = 99 - sec
          BY <1>1, <1>4, <4>2, <5>2
        <5>4. QED
          BY <1>1, <5>3 DEF BUFFER_SEC_CHAIN
      <4>3. ActiveMember(q, k, j)
        BY <1>1, <4>1, <4>2 DEF ActiveMember
      <4>4. QED
        BY <4>3
    <3>2. CASE ~SameChain(p, i, k)
      <4>1. PICK a \in Slots : ActiveMember(p, k, a)
        BY <1>2, <2>8 DEF Addressed, OneActive
      <4>2. \A m \in Slots : SameChain(p, k, m) => q.buf[m] = p.buf[m]
        BY <1>1, <2>1, <3>2 DEF SameChain
      <4>3. SameChain(q, k, a) /\ q.buf[a].secondary = p.buf[a].secondary
        BY <1>2, <4>1, <4>2 DEF ActiveMember
      <4>4. ActiveMember(q, k, a)
        BY <1>2, <4>1, <4>2, <4>3 DEF ActiveMember
      <4>5. QED
        BY <4>4
    <3>3. QED
      BY <3>1, <3>2
  <2>9. Addressed(q, O)
    BY <2>3, <2>6, <2>7, <2>8 DEF Addressed, OneActive
  <2>10. QED
    BY <2>9 DEF q
<1>5. QED
  BY <1>3, <1>4

-----------------------------------------------------------------------------
(* The callbacks and the operations on a channel.                          *)

\* buf->refill(buf).
LEMMA RefillAddressed ==
  ASSUME NEW p, NEW B, Good(p, B), NEW O, Addressed(p, O), NEW i \in Slots,
         p.buf[i].allocated, p.buf[i].secondary \in 0 .. 14, NEW fault
  PROVE  Addressed(refill(p, i, fault), O)
<1> DEFINE q == refill(p, i, fault)
<1>1. PoolInv(p) /\ NextLinks(p) /\ FirstLinks(p) /\ SingleLinks(p)
  BY DEF Good, PoolInv
<1>2. CASE p.buf[i].refill = "directbuffer_refill"
  <2> DEFINE j == IF p.buf[i].next = NULL THEN p.buf[i].first ELSE p.buf[i].next
  <2>1. q = Activate(p, i, j)
    BY <1>2 DEF refill, directbuffer_refill
  <2>2. j \in Slots /\ (i = j \/ SameChain(p, i, j))
    <3>1. CASE p.buf[i].next # NULL
      <4>1. j = i + 1 /\ i + 1 \in Slots
        BY <1>1, <3>1 DEF NextLinks
      <4>2. SameChain(p, i, i + 1)
        BY <1>1, <3>1 DEF NextLinks, SameChain
      <4>3. QED
        BY <4>1, <4>2
    <3>2. CASE p.buf[i].next = NULL /\ Large(p, i)
      <4>1. j = p.buf[i].first
        BY <3>2
      <4>2. j \in Slots /\ Large(p, j) /\ p.buf[j].first = p.buf[i].first
        BY <1>1, <3>2, <4>1 DEF FirstLinks
      <4> HIDE DEF j
      <4>3. QED
        BY <3>2, <4>2 DEF SameChain
    <3>3. CASE p.buf[i].next = NULL /\ ~Large(p, i)
      BY <1>1, <1>2, <3>3 DEF SingleLinks
    <3>4. QED
      BY <3>1, <3>2, <3>3
  <2> HIDE DEF j
  <2>3. QED
    BY <1>1, <2>1, <2>2, ActivateAddress
<1>3. CASE p.buf[i].refill # "directbuffer_refill"
  <2>1. ~Large(p, i)
    BY <1>1, <1>3, OtherRefillIsPlain
  <2>2. q = free_buffer(p, i) \/ q = mark_buffer_clean(p, i) \/ q = p
    BY <1>3 DEF refill
  <2>3. Kept(p, free_buffer(p, i))
    BY <1>1, <2>1, FreeOneKept
  <2>4. Kept(p, mark_buffer_clean(p, i))
    BY <1>1, MarkCleanInv, FlagsKept
  <2>5. QED
    BY <2>2, <2>3, <2>4, KeptAddressed
<1>4. QED
  BY <1>2, <1>3

\* buf->cleanup(buf) on a user buffer.
LEMMA CleanupKept ==
  ASSUME NEW p, NEW B, Good(p, B), NEW i \in Slots, p.buf[i].allocated,
         p.buf[i].secondary < BUFFER_SEC_SYSTEM, NEW fault
  PROVE  Kept(p, cleanup(p, i, fault))
<1> DEFINE q == cleanup(p, i, fault)
           m == mark_buffer_clean(p, i)
           c == [p EXCEPT !.buf[i].cleanup = "callback_dummy"]
<1>1. PoolInv(p)
  BY DEF Good
<1>2. CASE Large(p, i)
  <2>1. q = free_buffers(p, ChainOf(p, i))
    BY <1>2 DEF cleanup, Large, largebuffer_cleanup
  <2>2. WholeChains(p, ChainOf(p, i)) /\ ChainOf(p, i) \in SUBSET Slots
    <3>1. ChainOf(p, i) \in SUBSET Slots
      BY DEF ChainOf
    <3>2. QED
      BY <1>1, <1>2, <3>1, ChainIsWhole DEF PoolInv
  <2>3. QED
    BY <1>1, <2>1, <2>2, FreeKept
<1>3. CASE ~Large(p, i)
  <2>1. \/ q = free_buffer(p, i)
        \/ q = [m EXCEPT !.buf[i].cleanup = "callback_dummy"]
        \/ q = free_buffer(c, i)
        \/ q = p
    BY <1>3 DEF cleanup, Large
  <2>2. Kept(p, p)
    BY DEF Kept, SameChain, Large
  <2>3. Kept(p, free_buffer(p, i))
    BY <1>1, <1>3, FreeOneKept
  <2>4. Kept(p, free_buffer(c, i))
    <3>1. /\ Good(c, B) /\ ~Large(c, i) /\ SameBut(p, c, i)
          /\ c.buf[i].secondary = p.buf[i].secondary
      BY <1>3, DummyCleanupGood
    <3> HIDE DEF c
    <3>2. Kept(p, c)
      BY <1>3, <3>1, PlainKept
    <3>3. Kept(c, free_buffer(c, i))
      BY <3>1, FreeOneKept DEF Good
    <3>4. QED
      BY <3>2, <3>3, KeptTransitive
  <2>5. Kept(p, [m EXCEPT !.buf[i].cleanup = "callback_dummy"])
    <3>1. PoolInv(m) /\ BamsKept(p, m, {}) /\ OnlyDirtyChanged(p, m)
      BY <1>1, MarkCleanInv
    <3> HIDE DEF m
    <3>2. Good(m, B) /\ Kept(p, m)
      BY <3>1, KeptIsGood, FlagsKept
    <3>3. m.buf[i].allocated /\ ~Large(m, i)
      BY <1>3, <3>1 DEF OnlyDirtyChanged, Large
    <3> DEFINE d == [m EXCEPT !.buf[i].cleanup = "callback_dummy"]
    <3>4. ~Large(d, i) /\ SameBut(m, d, i) /\ d.buf[i].secondary = m.buf[i].secondary
      BY <3>2, <3>3, DummyCleanupGood
    <3> HIDE DEF d
    <3>5. Kept(m, d)
      BY <3>3, <3>4, PlainKept
    <3>6. Kept(p, d)
      BY <3>2, <3>5, KeptTransitive
    <3>7. QED
      BY <3>6 DEF d
  <2>6. QED
    BY <2>1, <2>2, <2>3, <2>4, <2>5
<1>4. QED
  BY <1>2, <1>3

\* Closing a channel frees its buffers and keeps the others.
LEMMA CloseAddress ==
  ASSUME NEW p, NEW B, Good(p, B), NEW O, Addressed(p, O), NEW sa \in 0 .. 14, NEW fault
  PROVE  LET r == cleanup_and_free(p, sa, fault)
         IN  /\ Addressed(r, O)
             /\ \A i \in Slots : sa \in 1 .. 14 => ~Holds(r, i, sa)
<1> DEFINE b == find_buffer(p, sa)
           r == cleanup_and_free(p, sa, fault)
<1>1. CASE b = NULL
  <2>1. r = p
    BY <1>1 DEF cleanup_and_free
  <2>2. \A i \in Slots : ~Holds(p, i, sa)
    BY <1>1, HolderIsFound DEF Holds
  <2>3. QED
    BY <2>1, <2>2
<1>2. CASE b # NULL
  <2>1. b \in Slots /\ p.buf[b].allocated /\ p.buf[b].secondary = sa /\ b \notin B
    BY <1>2, FindUser
  <2>2. p.buf[b].secondary < BUFFER_SEC_SYSTEM
    BY <2>1 DEF BUFFER_SEC_SYSTEM
  <2>3. r = free_buffer(cleanup(p, b, fault), b)
    BY <1>2 DEF cleanup_and_free
  <2> HIDE DEF b
  <2> DEFINE c == cleanup(p, b, fault)
  <2>4. Good(c, B) /\ ~Large(c, b) /\ Kept(p, c)
    BY <2>1, <2>2, CleanupGood, CleanupKept
  <2> HIDE DEF c
  <2>5. Kept(c, free_buffer(c, b)) /\ free_buffer(c, b).buf[b].allocated = FALSE
    BY <2>1, <2>4, FreeOneKept, FreeOneGood DEF Good
  <2>6. Kept(p, r) /\ r.buf[b].allocated = FALSE
    BY <2>3, <2>4, <2>5, KeptTransitive DEF c
  <2> HIDE DEF r
  <2>7. ASSUME NEW i \in Slots, sa \in 1 .. 14, Holds(r, i, sa) PROVE FALSE
    <3>1. Holds(p, i, sa) /\ Holds(p, b, sa)
      BY <2>1, <2>6, <2>7 DEF Kept, Holds
    <3>2. i = b
      BY <2>1, <2>7, <3>1 DEF Addressed, UniqueAddress
    <3>3. QED
      BY <2>6, <2>7, <3>2 DEF Holds
  <2>8. Addressed(r, O)
    BY <2>6, KeptAddressed
  <2>9. QED
    BY <2>7, <2>8 DEF r
<1>3. QED
  BY <1>1, <1>2

\* free_multiple_buffers(FMB_USER_CLEAN) leaves no user buffer.
LEMMA FreeUserAddress ==
  ASSUME NEW p, NEW B, Good(p, B), NEW O, Addressed(p, O), NEW fails
  PROVE  LET r == free_user_clean(p, fails)
         IN  Addressed(r, O) /\ Users(r) = {}
<1> DEFINE r == free_user_clean(p, fails)
           M == FMB_USER(p)
<1>1. /\ \A i \in Slots : i \notin M => r.buf[i] = p.buf[i]
      /\ \A i \in M : r.buf[i].allocated = FALSE
  <2>1. UsersFreed(p, free_user_clean(p, fails), B)
    BY FreeUserCleanIs
  <2>2. QED
    BY <2>1 DEF UsersFreed
<1>2. M = Users(p)
  BY DEF FMB_USER, Selected, Users
<1>3. WholeChains(p, M)
  BY FreedSetsAreWhole DEF Good
<1> HIDE DEF r, M
<1>4. Frees(p, r, M)
  BY <1>1 DEF Frees
<1>5. Kept(p, r)
  BY <1>3, <1>4, FreedKept
<1>6. Users(r) = {}
  BY <1>2, <1>4 DEF Frees, Users
<1>7. QED
  BY <1>5, <1>6, KeptAddressed DEF r

-----------------------------------------------------------------------------
(* New buffers.                                                            *)

\* Channel sa may get a buffer: it is 0, or open and without one.
Vacant(p, O, sa) == sa \in 1 .. 14 => sa \in O /\ \A i \in Slots : ~Holds(p, i, sa)

\* alloc_buffer's buffer is on secondary 0.
LEMMA AllocAddressed ==
  ASSUME NEW p, NEW B, Good(p, B), FirstFree(p) # NULL, NEW O, Addressed(p, O)
  PROVE  LET q == alloc_buffer(p)
         IN  /\ Addressed(q, O)
             /\ \A sa \in 0 .. 14 : Vacant(p, O, sa) => Vacant(q, O, sa)
<1> DEFINE i == FirstFree(p)
           q == alloc_buffer(p)
<1>1. i \in Slots /\ q.buf[i] = FreshBuffer(0, NULL, NULL) /\ SameBut(p, q, i)
  BY AllocGood DEF SameBut
<1>2. ~Large(p, i)
  BY FirstFreeSlot DEF Large
<1> HIDE DEF i, q
<1>3. ~Large(q, i) /\ q.buf[i].secondary = 0
  <2>1. ~Large(q, i)
    BY <1>1, FreshIsPlain
  <2>2. q.buf[i].secondary = 0
    BY <1>1 DEF FreshBuffer
  <2>3. QED
    BY <2>1, <2>2
<1>4. \A x \in 1 .. 14 : ~Holds(q, i, x)
  BY <1>3 DEF Holds
<1>5. Addressed(q, O)
  BY <1>1, <1>2, <1>3, <1>4, SetAddress
<1>6. \A k \in Slots : \A x \in 1 .. 14 : Holds(q, k, x) => Holds(p, k, x)
  BY <1>1, <1>4 DEF SameBut, Holds
<1>7. QED
  BY <1>5, <1>6 DEF Vacant, q

\* A plain buffer on secondary 0 becomes the buffer of a vacant channel.
LEMMA ChannelAddressed ==
  ASSUME NEW p, NEW q, NEW O, Addressed(p, O), NEW i \in Slots, ~Large(p, i),
         NEW sa \in 0 .. 14, Vacant(p, O, sa), ChannelBuffer(q, i, sa), SameBut(p, q, i)
  PROVE  Addressed(q, O)
<1>1. ~Large(q, i) /\ q.buf[i].secondary = sa
  BY DEF ChannelBuffer
<1>2. \A x \in 1 .. 14 : Holds(q, i, x) =>
        x \in O /\ \A k \in Slots : k # i => ~Holds(p, k, x)
  BY <1>1 DEF Holds, Vacant
<1>3. QED
  BY <1>1, <1>2, SetAddress

\* Writing a clean plain user buffer over a fresh one.
LEMMA OverFresh ==
  ASSUME NEW p, NEW B, Good(p, B), NEW i \in Slots, p.buf[i] = FreshBuffer(0, NULL, NULL),
         NEW b \in Buffer, b.allocated, b.dirty = FALSE, b.secondary \in 0 .. 14,
         b.cleanup = "callback_dummy", b.next = NULL, b.refill = "callback_dummy"
  PROVE  LET q == [p EXCEPT !.buf[i] = b]
         IN  Good(q, B) /\ ChannelBuffer(q, i, b.secondary) /\ SameBut(p, q, i)
<1> DEFINE q == [p EXCEPT !.buf[i] = b]
<1>1. p \in Pool /\ i \in 0 .. BufferCount
  BY BufferCountAssumption DEF Good, PoolInv, Slots
<1>2. q \in Pool /\ q.active = p.active /\ q.buf = [p.buf EXCEPT ![i] = b]
  BY <1>1 DEF Pool
<1> HIDE DEF q
<1>3. Writes(p, q, i, b)
  BY <1>1, <1>2 DEF Writes, Pool
<1>4. /\ p.buf[i].allocated /\ ~Large(p, i) /\ p.buf[i].dirty = FALSE
      /\ p.buf[i].secondary < BUFFER_SEC_SYSTEM
  BY FreshIsPlain
<1>5. b.cleanup # "largebuffer_cleanup" /\ b.refill # "directbuffer_refill"
  OBVIOUS
<1>6. Good(q, B) /\ ChannelBuffer(q, i, b.secondary) /\ SameBut(p, q, i)
  BY <1>3, <1>4, <1>5, SetUserGood
<1>7. QED
  BY <1>6 DEF q

\* Every outcome of an open function.
LEMMA OpenResultAddressed ==
  ASSUME NEW p, NEW B, Good(p, B), FirstFree(p) # NULL, NEW O, Addressed(p, O),
         NEW sa \in 0 .. 14, Vacant(p, O, sa), NEW kind \in Kinds,
         NEW outcome \in {"ok", "refused", "unreadable"}
  PROVE  Addressed(OpenResult(p, sa, kind, outcome), O)
<1> DEFINE i == FirstFree(p)
           q == alloc_buffer(p)
           c == Configure(q, i, sa, kind)
           b == [FreshBuffer(sa, NULL, NULL) EXCEPT !.read = kind = "directory"]
           d == [q EXCEPT !.buf[i] = b]
<1>1. /\ Good(q, B) /\ i \in Slots /\ q.buf[i] = FreshBuffer(0, NULL, NULL)
      /\ Addressed(q, O) /\ Vacant(q, O, sa)
  BY AllocGood, AllocAddressed
<1>2. /\ outcome = "ok" => OpenResult(p, sa, kind, outcome) = c
      /\ outcome = "refused" => OpenResult(p, sa, kind, outcome) = d
      /\ outcome = "unreadable" => OpenResult(p, sa, kind, outcome) = free_buffer(c, i)
  BY DEF OpenResult
<1>3. /\ b \in Buffer /\ b.allocated /\ b.dirty = FALSE /\ b.secondary = sa
      /\ b.cleanup = "callback_dummy" /\ b.next = NULL /\ b.refill = "callback_dummy"
  <2>1. (kind = "directory") \in BOOLEAN
    OBVIOUS
  <2>2. sa \in 0 .. 255
    OBVIOUS
  <2>3. QED
    BY <2>1, <2>2 DEF FreshBuffer, Buffer, Refills, Cleanups
<1> HIDE DEF i, q, b
<1>4. /\ q.buf[i].allocated /\ ~Large(q, i) /\ q.buf[i].dirty = FALSE
      /\ q.buf[i].secondary < BUFFER_SEC_SYSTEM
  BY <1>1, FreshIsPlain
<1>5. Good(c, B) /\ ChannelBuffer(c, i, sa) /\ SameBut(q, c, i)
  BY <1>1, <1>4, ConfigureGood
<1> HIDE DEF c
<1>6. Addressed(c, O)
  BY <1>1, <1>4, <1>5, ChannelAddressed
<1>7. Addressed(d, O)
  <2>1. ChannelBuffer(d, i, b.secondary) /\ SameBut(q, d, i)
    BY <1>1, <1>3, OverFresh
  <2> HIDE DEF d
  <2>2. QED
    BY <1>1, <1>3, <1>4, <2>1, ChannelAddressed
<1>8. Addressed(free_buffer(c, i), O)
  <2>1. Kept(c, free_buffer(c, i))
    BY <1>1, <1>5, FreeOneKept DEF ChannelBuffer, Good
  <2>2. QED
    BY <1>6, <2>1, KeptAddressed
<1>9. QED
  BY <1>2, <1>6, <1>7, <1>8

\* Every outcome of COPY: its buffers are on secondary 0.
LEMMA CopyResultAddressed ==
  ASSUME NEW p, NEW B, Good(p, B), FirstFree(p) # NULL, NEW O, Addressed(p, O),
         NEW outcome \in CopyOutcomes
  PROVE  Addressed(CopyResult(p, outcome), O)
<1> DEFINE s == FirstFree(p)
           q == alloc_buffer(p)
           d == FirstFree(q)
           a == alloc_buffer(q)
           r == Configure(a, d, 0, "fat_write")
           t == Configure(r, s, 0, "fat_read")
<1>1. /\ Good(q, B) /\ s \in Slots /\ q.buf[s] = FreshBuffer(0, NULL, NULL)
      /\ Addressed(q, O)
  BY AllocGood, AllocAddressed
<1>2. /\ d = NULL => CopyResult(p, outcome) = q
      /\ d # NULL =>
           /\ outcome \in {"done", "no_source"} =>
                CopyResult(p, outcome) = free_buffer(r, d)
           /\ outcome = "read_error" => CopyResult(p, outcome) = free_buffers(t, {s, d})
           /\ outcome = "write_error" =>
                CopyResult(p, outcome) = free_buffer(cleanup(t, s, "none"), d)
  BY DEF CopyResult
<1> HIDE DEF s, q
<1>3. CASE d = NULL
  BY <1>1, <1>2, <1>3
<1>4. CASE d # NULL
  <2>1. /\ Good(a, B) /\ d \in Slots /\ a.buf[d] = FreshBuffer(0, NULL, NULL)
        /\ SameBut(q, a, d) /\ Addressed(a, O)
    BY <1>1, <1>4, AllocGood, AllocAddressed DEF SameBut
  <2>2. d # s
    <3>1. ~q.buf[d].allocated
      BY <1>4, FirstFreeSlot
    <3>2. q.buf[s].allocated
      BY <1>1, FreshIsPlain
    <3>3. QED
      BY <3>1, <3>2
  <2>3. {"fat_write", "fat_read"} \subseteq Kinds /\ 0 \in 0 .. 14
    BY DEF Kinds, Profile
  <2>4. a.buf[s] = FreshBuffer(0, NULL, NULL)
    BY <1>1, <2>1, <2>2 DEF SameBut
  <2>5. \A x : Vacant(x, O, 0)
    BY DEF Vacant
  <2> HIDE DEF a, d
  <2>6. Good(r, B) /\ ChannelBuffer(r, d, 0) /\ SameBut(a, r, d) /\ Addressed(r, O)
    <3>1. /\ a.buf[d].allocated /\ ~Large(a, d) /\ a.buf[d].dirty = FALSE
          /\ a.buf[d].secondary < BUFFER_SEC_SYSTEM
      BY <2>1, FreshIsPlain
    <3>2. Good(r, B) /\ ChannelBuffer(r, d, 0) /\ SameBut(a, r, d)
      BY <2>1, <2>3, <3>1, ConfigureGood
    <3> HIDE DEF r
    <3>3. QED
      BY <2>1, <2>3, <2>5, <3>1, <3>2, ChannelAddressed
  <2> HIDE DEF r
  <2>7. r.buf[s] = FreshBuffer(0, NULL, NULL)
    BY <1>1, <2>2, <2>4, <2>6 DEF SameBut
  <2>8. Good(t, B) /\ ChannelBuffer(t, s, 0) /\ SameBut(r, t, s) /\ Addressed(t, O)
    <3>1. /\ r.buf[s].allocated /\ ~Large(r, s) /\ r.buf[s].dirty = FALSE
          /\ r.buf[s].secondary < BUFFER_SEC_SYSTEM
      BY <1>1, <2>7, FreshIsPlain
    <3>2. Good(t, B) /\ ChannelBuffer(t, s, 0) /\ SameBut(r, t, s)
      BY <1>1, <2>3, <2>6, <3>1, ConfigureGood
    <3> HIDE DEF t
    <3>3. QED
      BY <1>1, <2>3, <2>5, <2>6, <3>1, <3>2, ChannelAddressed
  <2> HIDE DEF t
  <2>9. ~Large(r, d) /\ ~Large(t, d) /\ ~Large(t, s)
    <3>1. t.buf[d] = r.buf[d]
      BY <2>1, <2>2, <2>8 DEF SameBut
    <3>2. QED
      BY <2>6, <2>8, <3>1 DEF ChannelBuffer, Large
  <2>10. Addressed(free_buffer(r, d), O)
    BY <2>1, <2>6, <2>9, FreeOneKept, KeptAddressed DEF Good
  <2>11. Addressed(free_buffers(t, {s, d}), O)
    <3> DEFINE M == {s, d}
    <3>1. M \in SUBSET Slots /\ \A i \in M : ~Large(t, i)
      BY <1>1, <2>1, <2>9
    <3> HIDE DEF M
    <3>2. PoolInv(t) /\ WholeChains(t, M)
      BY <2>8, <3>1, FreedSetsAreWhole DEF Good
    <3>3. Addressed(free_buffers(t, M), O)
      BY <2>8, <3>1, <3>2, FreeKept, KeptAddressed
    <3>4. QED
      BY <3>3 DEF M
  <2>12. Addressed(free_buffer(cleanup(t, s, "none"), d), O)
    <3> DEFINE c == cleanup(t, s, "none")
    <3>1. t.buf[s].allocated /\ t.buf[s].secondary < BUFFER_SEC_SYSTEM
      BY <2>8 DEF ChannelBuffer, BUFFER_SEC_SYSTEM
    <3>2. Good(c, B) /\ Kept(t, c)
      BY <1>1, <2>8, <3>1, CleanupGood, CleanupKept
    <3>3. ~Large(c, d)
      BY <1>1, <2>1, <2>2, <2>8, <2>9, <3>1, PlainCleanupElsewhere
    <3> HIDE DEF c
    <3>4. Kept(c, free_buffer(c, d))
      BY <2>1, <3>2, <3>3, FreeOneKept DEF Good
    <3>5. Kept(t, free_buffer(c, d))
      BY <3>2, <3>4, KeptTransitive
    <3>6. QED
      BY <2>8, <3>5, KeptAddressed DEF c
  <2>13. outcome \in {"done", "no_source", "read_error", "write_error"}
    BY DEF CopyOutcomes
  <2>14. QED
    BY <1>2, <1>4, <2>10, <2>11, <2>12, <2>13 DEF d, r, t, a
<1>5. QED
  BY <1>3, <1>4

\* The buffer N works in.
LEMMA FormatAddressed ==
  ASSUME NEW p, NEW B, Good(p, B), FirstFree(p) # NULL, NEW O, Addressed(p, O)
  PROVE  Addressed(mark_buffer_dirty(
                     [alloc_buffer(p) EXCEPT
                        !.buf[FirstFree(p)] = [FreshBuffer(0, NULL, NULL) EXCEPT
                                                 !.write = TRUE]], FirstFree(p)), O)
<1> DEFINE i == FirstFree(p)
           q == alloc_buffer(p)
           b == [FreshBuffer(0, NULL, NULL) EXCEPT !.write = TRUE]
           r == [q EXCEPT !.buf[i] = b]
<1>1. /\ Good(q, B) /\ i \in Slots /\ q.buf[i] = FreshBuffer(0, NULL, NULL)
      /\ Addressed(q, O)
  BY AllocGood, AllocAddressed
<1>2. /\ b \in Buffer /\ b.allocated = TRUE /\ b.dirty = FALSE /\ b.secondary = 0
      /\ b.cleanup = "callback_dummy" /\ b.next = NULL /\ b.refill = "callback_dummy"
  <2>1. 0 \in 0 .. 255
    OBVIOUS
  <2>2. QED
    BY <2>1 DEF FreshBuffer, Buffer, Refills, Cleanups
<1> HIDE DEF i, q, b
<1>3. Good(r, B) /\ ChannelBuffer(r, i, 0) /\ SameBut(q, r, i)
  <2>1. b.secondary \in 0 .. 14 /\ b.allocated
    BY <1>2
  <2>2. QED
    BY <1>1, <1>2, <2>1, OverFresh
<1> HIDE DEF r
<1>4. Addressed(r, O)
  <2>1. Vacant(q, O, 0) /\ 0 \in 0 .. 14
    BY DEF Vacant
  <2>2. ~Large(q, i)
    BY <1>1, FreshIsPlain
  <2>3. QED
    BY <1>1, <1>3, <2>1, <2>2, ChannelAddressed
<1>5. PoolInv(r) /\ r.buf[i].allocated
  BY <1>3 DEF Good, ChannelBuffer
<1>6. Kept(r, mark_buffer_dirty(r, i))
  BY <1>1, <1>5, MarkDirtyInv, FlagsKept
<1>7. Addressed(mark_buffer_dirty(r, i), O)
  BY <1>4, <1>6, KeptAddressed
<1>8. QED
  BY <1>7 DEF i, q, b, r

\* A new system buffer: a BAM buffer or the capture buffer of M-W.
LEMMA SystemAddressed ==
  ASSUME NEW p, PoolInv(p), NEW O, Addressed(p, O), FirstFree(p) # NULL,
         NEW b \in Buffer, b.secondary \in {BUFFER_SYS_BAM, BUFFER_SYS_CAPTURE1},
         b.cleanup # "largebuffer_cleanup"
  PROVE  Addressed([alloc_system_buffer(p) EXCEPT !.buf[FirstFree(p)] = b], O)
<1> DEFINE i == FirstFree(p)
           q == [alloc_system_buffer(p) EXCEPT !.buf[i] = b]
<1>1. i \in Slots /\ ~Large(p, i) /\ p \in Pool
  BY FirstFreeSlot DEF PoolInv, Large
<1>2. Writes(p, q, i, b)
  BY <1>1, SystemWrites
<1> HIDE DEF i, q
<1>3. SameBut(p, q, i) /\ q.buf[i] = b
  BY <1>2, BufferCountAssumption DEF Writes, SameBut, Slots
<1>4. ~Large(q, i) /\ q.buf[i].secondary \in {101, 102}
  BY <1>3 DEF Large, BUFFER_SYS_BAM, BUFFER_SYS_CAPTURE1
<1>5. \A x \in 1 .. 14 : ~Holds(q, i, x)
  BY <1>4 DEF Holds
<1>6. ~(q.buf[i].secondary < BUFFER_SEC_SYSTEM)
  BY <1>4 DEF BUFFER_SEC_SYSTEM
<1>7. Addressed(q, O)
  BY <1>1, <1>3, <1>4, <1>5, <1>6, SetAddress
<1>8. QED
  BY <1>7 DEF i, q

-----------------------------------------------------------------------------
(* The actions.                                                            *)

\* Ending a command keeps the addresses.
LEMMA EndCommandAddressed ==
  ASSUME NEW p, NEW B, Good(p, B), NEW O, Addressed(p, O)
  PROVE  Addressed(EndCommand(p), O)
BY EndCommandKept, KeptAddressed DEF Good

\* file_open from "Grab a buffer" on.
LEMMA OpenOnAddressed ==
  ASSUME NEW p, NEW B, Good(p, B), NEW O, Addressed(p, O), NEW sa \in 0 .. 14,
         Vacant(p, O, sa), NEW kind \in Kinds,
         NEW outcome \in {"ok", "refused", "unreadable"}, OpenOn(p, sa, kind, outcome)
  PROVE  Addressed(pool', O)
<1>1. CASE FirstFree(p) = NULL
  <2>1. pool' = EndCommand(p)
    BY <1>1 DEF OpenOn
  <2>2. QED
    BY <2>1, EndCommandAddressed
<1>2. CASE FirstFree(p) # NULL
  <2>1. pool' = EndCommand(OpenResult(p, sa, kind, outcome))
    BY <1>2 DEF OpenOn
  <2>2. /\ Good(OpenResult(p, sa, kind, outcome), B)
        /\ Addressed(OpenResult(p, sa, kind, outcome), O)
    BY <1>2, OpenResultGood, OpenResultAddressed
  <2>3. QED
    BY <2>1, <2>2, EndCommandAddressed
<1>3. QED
  BY <1>1, <1>2

\* OPEN.
LEMMA OpenAddressed ==
  ASSUME Inv, Addressed(pool, opened), NEW sa \in SAs, Open(sa)
  PROVE  Addressed(pool', opened') /\ opened' = opened \cup {sa}
<1>1. PICK fault \in Faults :
        \/ OpenRejected(sa, fault)
        \/ \E count \in ChainSizes : OpenLarge(sa, count, fault)
        \/ \E kind \in Kinds, outcome \in {"ok", "refused", "unreadable"} :
             \/ OpenExisting(sa, kind, outcome, fault)
             \/ \E name \in Names : \/ OpenNew(sa, name, kind, outcome, fault)
                                    \/ OpenReplace(sa, name, kind, outcome, fault)
  BY FaultIsKnown DEF Open
<1> DEFINE p == cleanup_and_free(pool, sa, fault)
           O == opened \cup {sa}
<1>2. sa \in 0 .. 14
  BY HostAddress
<1>3. opened' = O
  BY <1>1 DEF OpenRejected, OpenLarge, OpenExisting, OpenNew, OpenReplace, OpenOn
<1>4. Good(pool, Bams)
  BY DEF Inv
<1>5. Good(p, Bams) /\ Addressed(p, O) /\ Vacant(p, O, sa)
  <2>1. Good(p, Bams)
    BY <1>2, <1>4, CleanupAndFreeGood
  <2>2. Addressed(p, opened) /\ \A i \in Slots : sa \in 1 .. 14 => ~Holds(p, i, sa)
    BY <1>2, <1>4, CloseAddress
  <2> HIDE DEF p
  <2>3. Addressed(p, O)
    BY <2>2, MoreOwners
  <2>4. QED
    BY <2>1, <2>2, <2>3 DEF Vacant
<1>6. Addressed(EndCommand(p), O)
  <2> HIDE DEF p, O
  <2>1. QED
    BY <1>5, EndCommandAddressed
<1>7. CASE OpenRejected(sa, fault)
  BY <1>3, <1>6, <1>7 DEF OpenRejected
<1>8. ASSUME NEW count \in ChainSizes, OpenLarge(sa, count, fault)
      PROVE  Addressed(pool', O)
  <2>1. count \in 1 .. 255
    BY HostAddress
  <2>2. CASE FirstRun(p, count) = NULL
    <3>1. pool' = EndCommand(p)
      BY <1>8, <2>2 DEF OpenLarge
    <3>2. QED
      BY <1>6, <3>1
  <2>3. CASE FirstRun(p, count) # NULL
    <3> DEFINE r == LargePool(p, sa, count)
               s == FirstRun(p, count)
               R == s .. s + count - 1
    <3>1. pool' = EndCommand(r)
      BY <1>8, <2>3 DEF OpenLarge, LargePool
    <3> HIDE DEF p, O
    <3>2. Good(r, Bams) /\ AddsChain(p, r, R, s, sa)
      BY <1>2, <1>5, <2>1, <2>3, LargePoolGood
    <3> HIDE DEF r, s, R
    <3>3. /\ PoolInv(p) /\ (sa \in 1 .. 14 => sa \in O)
          /\ \A i \in Slots : sa \in 1 .. 14 => ~Holds(p, i, sa)
      BY <1>5 DEF Good, Vacant
    <3>4. Addressed(r, O)
      BY <1>2, <1>5, <3>2, <3>3, ChainAddress
    <3>5. QED
      BY <3>1, <3>2, <3>4, EndCommandAddressed
  <2>4. QED
    BY <2>2, <2>3
<1>9. ASSUME NEW kind \in Kinds, NEW outcome \in {"ok", "refused", "unreadable"},
             \/ OpenExisting(sa, kind, outcome, fault)
             \/ \E name \in Names : \/ OpenNew(sa, name, kind, outcome, fault)
                                    \/ OpenReplace(sa, name, kind, outcome, fault)
      PROVE  Addressed(pool', O)
  <2>1. OpenOn(p, sa, kind, outcome) \/ pool' = EndCommand(p)
    BY <1>9 DEF OpenExisting, OpenNew, OpenReplace
  <2> HIDE DEF p, O
  <2>2. QED
    BY <1>2, <1>5, <1>6, <2>1, OpenOnAddressed
<1>10. QED
  BY <1>1, <1>3, <1>7, <1>8, <1>9

\* CLOSE of one channel.
LEMMA CloseChannelAddressed ==
  ASSUME Inv, Addressed(pool, opened), NEW sa \in SAs, NEW fault,
         CloseChannel(sa, fault)
  PROVE  /\ Addressed(pool', opened') /\ opened' = opened \ {sa}
         /\ \A i \in Slots : sa \in 1 .. 14 => ~Holds(pool', i, sa)
<1>1. Good(pool, Bams) /\ sa \in 0 .. 14
  BY HostAddress DEF Inv
<1>2. pool' = cleanup_and_free(pool, sa, fault) /\ opened' = opened \ {sa}
  BY DEF CloseChannel
<1>3. /\ Addressed(pool', opened)
      /\ \A i \in Slots : sa \in 1 .. 14 => ~Holds(pool', i, sa)
  BY <1>1, <1>2, CloseAddress
<1>4. OwnedAddress(pool', opened \ {sa})
  BY <1>3 DEF Addressed, OwnedAddress
<1>5. Addressed(pool', opened')
  BY <1>2, <1>3, <1>4 DEF Addressed
<1>6. QED
  BY <1>2, <1>3, <1>5

\* LISTEN data.
LEMMA ListenByteAddressed ==
  ASSUME Inv, NEW O, Addressed(pool, O), NEW sa \in 0 .. 14, NEW full \in BOOLEAN,
         NEW eoi \in BOOLEAN, NEW fault, ListenByte(sa, full, eoi, fault)
  PROVE  Addressed(pool', O)
<1> DEFINE b  == find_buffer(pool, sa)
           p1 == IF full THEN refill(pool, b, fault) ELSE pool
           b1 == find_buffer(p1, sa)
           p2 == mark_buffer_dirty(p1, b1)
<1>1. b # NULL /\ pool' = CASE full /\ ~p1.buf[b].allocated -> p1
                   [] OTHER -> IF eoi /\ p2.buf[b1].refill = "fat_file_sync"
                                 THEN refill(p2, b1, fault) ELSE p2
  BY DEF ListenByte
<1>2. Good(pool, Bams)
  BY DEF Inv
<1>3. b \in Slots /\ pool.buf[b].allocated /\ pool.buf[b].secondary = sa
  BY <1>1, <1>2, FindUser
<1>4. /\ Good(p1, Bams) /\ Addressed(p1, O)
      /\ b1 # NULL \/ (full /\ ~p1.buf[b].allocated)
  <2> DEFINE r == refill(pool, b, fault)
  <2>1. CASE full
    <3>1. pool.buf[b].secondary \in 0 .. 14
      BY <1>3
    <3> HIDE DEF b
    <3>2. /\ Good(r, Bams) /\ Addressed(r, O)
          /\ \/ find_buffer(r, pool.buf[b].secondary) # NULL
             \/ r.buf[b].allocated = FALSE
      BY <1>2, <1>3, <3>1, RefillGood, RefillAddressed
    <3>3. p1 = r
      BY <2>1
    <3> HIDE DEF r, p1
    <3>4. QED
      BY <1>3, <2>1, <3>2, <3>3
  <2>2. CASE ~full
    <3>1. p1 = pool
      BY <2>2
    <3>2. QED
      BY <1>1, <1>2, <3>1
  <2>3. QED
    BY <2>1, <2>2
<1> HIDE DEF p1
<1>5. CASE full /\ ~p1.buf[b].allocated
  BY <1>1, <1>4, <1>5
<1>6. CASE ~(full /\ ~p1.buf[b].allocated)
  <2>1. b1 # NULL
    BY <1>4, <1>6
  <2>2. b1 \in Slots /\ p1.buf[b1].allocated /\ p1.buf[b1].secondary \in 0 .. 14
    BY <1>4, <2>1, FindUser
  <2>3. pool' = IF eoi /\ p2.buf[b1].refill = "fat_file_sync"
                  THEN refill(p2, b1, fault) ELSE p2
    BY <1>1, <1>6
  <2> HIDE DEF b1, b
  <2>4. /\ Good(p2, Bams) /\ p2.buf[b1].allocated
        /\ p2.buf[b1].secondary \in 0 .. 14
    BY <1>4, <2>2, MarkDirtyGood
  <2>5. Kept(p1, p2)
    BY <1>4, <2>2, MarkDirtyInv, FlagsKept DEF Good
  <2> HIDE DEF p2
  <2>6. Addressed(p2, O)
    BY <1>4, <2>5, KeptAddressed
  <2>7. Addressed(refill(p2, b1, fault), O)
    BY <2>2, <2>4, <2>6, RefillAddressed
  <2>8. QED
    BY <2>3, <2>6, <2>7
<1>7. QED
  BY <1>5, <1>6

\* Clearing a read flag moves no address.
LEMMA ReadOffKept ==
  ASSUME NEW p, PoolInv(p), NEW i \in Slots
  PROVE  Kept(p, [p EXCEPT !.buf[i].read = FALSE])
<1> DEFINE b == [p.buf[i] EXCEPT !.read = FALSE]
           q == [p EXCEPT !.buf[i] = b]
<1>1. p \in Pool /\ i \in 0 .. BufferCount /\ \A k \in Slots : k \in 0 .. BufferCount
  BY BufferCountAssumption DEF PoolInv, Slots
<1>2. p.buf[i] \in Buffer
  BY <1>1, PoolFields
<1>3. /\ b.cleanup = p.buf[i].cleanup /\ b.allocated = p.buf[i].allocated
      /\ b.secondary = p.buf[i].secondary /\ b.refill = p.buf[i].refill
      /\ b.first = p.buf[i].first /\ b.next = p.buf[i].next
      /\ b.sticky = p.buf[i].sticky
  BY <1>2, SetReadFlag
<1>4. [p EXCEPT !.buf[i].read = FALSE] = q
  OBVIOUS
<1> HIDE DEF b
<1>5. q.buf[i] = b /\ \A k \in Slots : k # i => q.buf[k] = p.buf[k]
  BY <1>1 DEF Pool
<1> HIDE DEF q
<1>6. OnlyDirtyChanged(p, q)
  BY <1>3, <1>5 DEF OnlyDirtyChanged
<1>7. QED
  BY <1>4, <1>6, FlagsKept

\* TALK data.
LEMMA TalkBlockAddressed ==
  ASSUME Inv, NEW O, Addressed(pool, O), NEW sa \in 0 .. 14, NEW last \in BOOLEAN,
         NEW fault, TalkBlock(sa, last, fault)
  PROVE  Addressed(pool', O)
<1> DEFINE b == find_buffer(pool, sa)
<1>1. b # NULL /\ (pool' = [pool EXCEPT !.buf[b].read = FALSE]
                    \/ pool' = refill(pool, b, fault))
  BY DEF TalkBlock
<1>2. Good(pool, Bams) /\ PoolInv(pool)
  BY DEF Inv, Good
<1>3. b \in Slots /\ pool.buf[b].allocated /\ pool.buf[b].secondary \in 0 .. 14
  BY <1>1, <1>2, FindUser
<1> HIDE DEF b
<1>4. Addressed(refill(pool, b, fault), O)
  BY <1>2, <1>3, RefillAddressed
<1>5. Addressed([pool EXCEPT !.buf[b].read = FALSE], O)
  BY <1>2, <1>3, ReadOffKept, KeptAddressed
<1>6. QED
  BY <1>1, <1>4, <1>5

\* LISTEN and TALK data.
LEMMA TransferAddressed ==
  ASSUME Inv, Addressed(pool, opened), NEW sa \in SAs, Transfer(sa)
  PROVE  Addressed(pool', opened') /\ opened' = opened
<1>1. PICK fault \in Faults, e \in BOOLEAN :
        \/ \E full \in BOOLEAN : ListenByte(sa, full, e, fault)
        \/ TalkBlock(sa, e, fault)
  BY DEF Transfer
<1>2. opened' = opened /\ sa \in 0 .. 14
  BY <1>1, HostAddress DEF ListenByte, TalkBlock
<1>3. Addressed(pool', opened)
  BY <1>1, <1>2, ListenByteAddressed, TalkBlockAddressed
<1>4. QED
  BY <1>2, <1>3

\* P on the channel of a REL file.
LEMMA RecordPositionAddressed ==
  ASSUME Inv, Addressed(pool, opened), NEW sa \in SAs, NEW fault \in Faults,
         RecordPosition(sa, fault)
  PROVE  Addressed(pool', opened') /\ opened' = opened
<1> DEFINE b == find_buffer(pool, sa)
<1>1. Good(pool, Bams) /\ sa \in 0 .. 14
  BY HostAddress DEF Inv
<1>2. b # NULL /\ opened' = opened /\ pool' = EndCommand(refill(pool, b, fault))
  BY DEF RecordPosition
<1>3. b \in Slots /\ pool.buf[b].allocated /\ pool.buf[b].secondary \in 0 .. 14
  BY <1>1, <1>2, FindUser
<1> HIDE DEF b
<1>4. Good(refill(pool, b, fault), Bams) /\ Addressed(refill(pool, b, fault), opened)
  BY <1>1, <1>3, RefillGood, RefillAddressed
<1>5. QED
  BY <1>2, <1>4, EndCommandAddressed

\* B-P and the D commands on a direct access buffer's own address.
LEMMA BufferPositionAddressed ==
  ASSUME Inv, Addressed(pool, opened), NEW i \in 0 .. BufferCount, NEW j,
         BufferPosition(pool.buf[i].secondary, j), ~astray'
  PROVE  Addressed(pool', opened') /\ opened' = opened
<1> DEFINE a == pool.buf[i].secondary
           b == find_buffer(pool, a)
           q == Activate(pool, b, j)
<1>1. Good(pool, Bams) /\ PoolInv(pool) /\ pool \in Pool
  BY DEF Inv, Good, PoolInv
<1>2. /\ b # NULL /\ opened' = opened /\ pool' = EndCommand(q)
      /\ j = b \/ (/\ pool.buf[b].refill = "directbuffer_refill"
                   /\ a < SecondaryCommand /\ j \in ChainOf(pool, b))
  BY DEF BufferPosition
<1>3. a \in 0 .. 255
  BY <1>1 DEF Pool, Buffer
<1> HIDE DEF a
<1>4. b \in 0 .. BufferCount
  BY <1>2, FindBufferHolds
<1>5. PoolInv(q) /\ Addressed(q, opened)
  <2>1. CASE j = b
    <3> HIDE DEF b
    <3>1. q = pool
      BY <1>1, <1>4, <2>1, ActivateSame
    <3>2. QED
      BY <1>1, <3>1
  <2>2. CASE j # b
    <3>1. a \in 0 .. 14
      BY <1>2, <1>3, <2>2 DEF SecondaryCommand
    <3>2. b \in Slots /\ pool.buf[b].allocated /\ pool.buf[b].secondary \in 0 .. 14
      BY <1>1, <1>2, <3>1, FindUser
    <3> HIDE DEF b
    <3>3. /\ Large(pool, b) /\ Large(pool, j) /\ j \in Slots
          /\ pool.buf[j].first = pool.buf[b].first
          /\ pool.buf[j].allocated /\ pool.buf[j].secondary < BUFFER_SEC_SYSTEM
      BY <1>1, <1>2, <2>2, <3>2, OtherMember
    <3>4. SameChain(pool, b, j)
      BY <3>3 DEF SameChain
    <3>5. QED
      BY <1>1, <3>2, <3>3, <3>4, ActivateInv, ActivateAddress
  <2>3. QED
    BY <2>1, <2>2
<1> HIDE DEF q
<1>6. QED
  BY <1>2, <1>5, EndCommandKept, KeptAddressed

\* CLOSE 15 and IFC.
LEMMA CloseAllAddressed ==
  ASSUME Inv, Addressed(pool, opened), NEW fails, CloseAll(fails)
  PROVE  Addressed(pool', opened') /\ Users(pool') = {}
<1> DEFINE p == free_user_clean(pool, fails)
<1>1. Addressed(p, opened) /\ Users(p) = {}
  BY FreeUserAddress DEF Inv
<1>2. pool' = p /\ opened' = {}
  BY DEF CloseAll
<1> HIDE DEF p
<1>3. OwnedAddress(p, {})
  <2>1. \A x \in 1 .. 14 : x < BUFFER_SEC_SYSTEM
    BY DEF BUFFER_SEC_SYSTEM
  <2>2. QED
    BY <1>1, <2>1 DEF OwnedAddress, Holds, Users
<1>4. QED
  BY <1>1, <1>2, <1>3 DEF Addressed

\* I, UJ, S, C: the channels the host has open stay its own.
LEMMA DosAddressed ==
  ASSUME Inv, Addressed(pool, opened),
         \/ \E fails \in SUBSET (FMB_USER(pool) \cap CanFail(pool)) :
              \E ready \in BOOLEAN : Initialize(ready, fails)
         \/ Reset
         \/ \E name \in Names : \/ \E outcome \in CopyOutcomes : Copy(name, outcome)
                                \/ Scratch(name)
  PROVE  Addressed(pool', opened') /\ opened' = opened
<1>1. Good(pool, Bams) /\ PoolInv(pool) /\ Addressed(EndCommand(pool), opened)
  BY EndCommandAddressed DEF Inv, Good
<1>2. opened' = opened
  BY DEF Initialize, Reset, Copy, Scratch
<1>3. ASSUME NEW fails, NEW ready \in BOOLEAN, Initialize(ready, fails)
      PROVE  Addressed(pool', opened)
  <2> DEFINE p == free_user_clean(pool, fails)
  <2>1. Good(p, Bams) /\ Addressed(p, opened)
    BY <1>1, FreeUserCleanGood, FreeUserAddress
  <2>2. pool' = EndCommand(p) \/ pool' = EndCommand(pool)
    BY <1>3 DEF Initialize
  <2> HIDE DEF p
  <2>3. QED
    BY <1>1, <2>1, <2>2, EndCommandAddressed
<1>4. ASSUME Reset PROVE Addressed(pool', opened)
  <2> DEFINE M == FMB_USER(pool)
  <2>1. M \in SUBSET Slots /\ WholeChains(pool, M)
    BY <1>1, FreedSetsAreWhole
  <2>2. pool' = EndCommand(free_buffers(pool, M))
    BY <1>4 DEF Reset
  <2> HIDE DEF M
  <2>3. PoolInv(free_buffers(pool, M)) /\ Addressed(free_buffers(pool, M), opened)
    BY <1>1, <2>1, FreeInv, FreeKept, KeptAddressed
  <2>4. QED
    BY <2>2, <2>3, EndCommandKept, KeptAddressed
<1>5. ASSUME NEW name \in Names, NEW outcome \in CopyOutcomes, Copy(name, outcome)
      PROVE  Addressed(pool', opened)
  <2>1. pool' = EndCommand(IF FirstFree(pool) = NULL THEN pool
                           ELSE CopyResult(pool, outcome))
    BY <1>5 DEF Copy
  <2>2. FirstFree(pool) # NULL => /\ Good(CopyResult(pool, outcome), Bams)
                                  /\ Addressed(CopyResult(pool, outcome), opened)
    BY <1>1, CopyResultGood, CopyResultAddressed
  <2>3. QED
    BY <1>1, <2>1, <2>2, EndCommandAddressed
<1>6. ASSUME NEW name \in Names, Scratch(name) PROVE Addressed(pool', opened)
  BY <1>1, <1>6 DEF Scratch
<1>7. QED
  BY <1>2, <1>3, <1>4, <1>5, <1>6

\* A BAM buffer changes no user's address.
LEMMA BamAllocAddressed ==
  ASSUME NEW p, PoolInv(p), NEW O, Addressed(p, O), FirstFree(p) # NULL
  PROVE  Addressed(bam_buffer_alloc(p), O)
<1> DEFINE b == [FreshBuffer(BUFFER_SYS_BAM, NULL, NULL) EXCEPT
                   !.cleanup = "bam_buffer_flush", !.sticky = TRUE]
<1>1. /\ b \in Buffer /\ b.secondary = BUFFER_SYS_BAM
      /\ b.cleanup # "largebuffer_cleanup"
  <2>1. BUFFER_SYS_BAM \in 0 .. 255
    BY DEF BUFFER_SYS_BAM
  <2>2. QED
    BY <2>1 DEF FreshBuffer, Buffer, Refills, Cleanups
<1>2. bam_buffer_alloc(p) = [alloc_system_buffer(p) EXCEPT !.buf[FirstFree(p)] = b]
  BY DEF bam_buffer_alloc
<1> HIDE DEF b
<1>3. QED
  BY <1>1, <1>2, SystemAddressed

\* MD and N on a disk image, and M-W.
LEMMA WorkBufferAddressed ==
  ASSUME Inv, Addressed(pool, opened),
         (\E format \in BOOLEAN : ImageWork(format)) \/ MemWriteCapture
  PROVE  Addressed(pool', opened') /\ opened' = opened
<1> DEFINE i == FirstFree(pool)
           a == alloc_buffer(pool)
           d == mark_buffer_dirty([a EXCEPT !.buf[i] = [FreshBuffer(0, NULL, NULL)
                                                          EXCEPT !.write = TRUE]], i)
           b == [FreshBuffer(BUFFER_SYS_CAPTURE1, NULL, NULL) EXCEPT !.sticky = TRUE]
           c == [alloc_system_buffer(pool) EXCEPT !.buf[i] = b]
<1>1. Good(pool, Bams) /\ PoolInv(pool) /\ opened' = opened
  BY DEF Inv, Good, ImageWork, MemWriteCapture
<1>2. \E q \in {a, d, c, pool} : pool' = EndCommand(q) /\ (i = NULL => q = pool)
  BY DEF ImageWork, MemWriteCapture
<1>3. i # NULL => Good(a, Bams) /\ Addressed(a, opened)
  BY <1>1, AllocGood, AllocAddressed
<1>4. i # NULL => Good(d, Bams) /\ Addressed(d, opened)
  BY <1>1, FormatGood, FormatAddressed
<1>5. i # NULL => Good(c, Bams) /\ Addressed(c, opened)
  <2>1. /\ b \in Buffer /\ b.secondary = BUFFER_SYS_CAPTURE1
        /\ b.cleanup # "largebuffer_cleanup"
    <3>1. BUFFER_SYS_CAPTURE1 \in 0 .. 255
      BY DEF BUFFER_SYS_CAPTURE1
    <3>2. QED
      BY <3>1 DEF FreshBuffer, Buffer, Refills, Cleanups
  <2>2. i # NULL => Good(c, Bams)
    BY <1>1, CaptureGood
  <2> HIDE DEF b
  <2>3. i # NULL => Addressed(c, opened)
    BY <1>1, <2>1, SystemAddressed
  <2>4. QED
    BY <2>2, <2>3
<1> HIDE DEF a, d, c
<1>6. Addressed(pool', opened)
  BY <1>1, <1>2, <1>3, <1>4, <1>5, EndCommandAddressed
<1>7. QED
  BY <1>1, <1>6

\* Freeing the BAM buffers.
LEMMA FreeBamsAddressed ==
  ASSUME NEW p, NEW B, Good(p, B), NEW M \in SUBSET Slots, M \subseteq B,
         NEW O, Addressed(p, O)
  PROVE  Addressed(free_buffers(p, M), O) /\ PoolInv(free_buffers(p, M))
<1>1. \A i \in M : ~Large(p, i)
  BY BamIsPlain
<1>2. PoolInv(p) /\ WholeChains(p, M)
  BY <1>1, FreedSetsAreWhole DEF Good
<1>3. QED
  BY <1>2, FreeInv, FreeKept, KeptAddressed

\* CD into an image.
LEMMA MountAddressed ==
  ASSUME Inv, Addressed(pool, opened), NEW part \in Partitions, NEW valid \in BOOLEAN,
         NEW fails, Mount(part, valid, fails)
  PROVE  Addressed(pool', opened') /\ opened' = opened
<1> DEFINE p == free_user_clean(pool, fails)
<1>1. Good(p, Bams) /\ Addressed(p, opened)
  BY FreeUserCleanGood, FreeUserAddress DEF Inv
<1>2. /\ opened' = opened
      /\ \/ pool' = EndCommand(p)
         \/ pool' = EndCommand(bam_buffer_alloc(p)) /\ FirstFree(p) # NULL
  BY DEF Mount
<1> HIDE DEF p
<1>3. FirstFree(p) # NULL =>
        /\ Good(bam_buffer_alloc(p), Bams \cup {FirstFree(p)})
        /\ Addressed(bam_buffer_alloc(p), opened)
  BY <1>1, BamAllocGood, BamAllocAddressed DEF Good
<1>4. QED
  BY <1>1, <1>2, <1>3, EndCommandAddressed

\* CD_ out of an image.
LEMMA UnmountAddressed ==
  ASSUME Inv, Addressed(pool, opened), NEW part \in Partitions, NEW fails,
         Unmount(part, fails)
  PROVE  Addressed(pool', opened') /\ opened' = opened
<1> DEFINE p == free_user_clean(pool, fails)
<1>1. Good(p, Bams) /\ Addressed(p, opened) /\ Bams \in SUBSET Slots
  BY FreeUserCleanGood, FreeUserAddress, BamSlotOrNull DEF Inv
<1>2. /\ opened' = opened
      /\ pool' = EndCommand(p) \/ pool' = EndCommand(free_buffers(p, Bams))
  BY DEF Unmount, Bams
<1> HIDE DEF p
<1>3. Addressed(free_buffers(p, Bams), opened) /\ PoolInv(free_buffers(p, Bams))
  BY <1>1, FreeBamsAddressed
<1>4. /\ Addressed(EndCommand(p), opened)
      /\ Addressed(EndCommand(free_buffers(p, Bams)), opened)
  BY <1>1, <1>3, EndCommandKept, KeptAddressed DEF Good
<1>5. QED
  BY <1>2, <1>4

\* move_bam_window.
LEMMA MoveBamWindowAddressed ==
  ASSUME Inv, Addressed(pool, opened), MoveBamWindow
  PROVE  Addressed(pool', opened') /\ opened' = opened
<1>1. PoolInv(pool)
  BY DEF Inv, Good
<1>2. /\ opened' = opened
      /\ pool' = pool \/ (pool' = bam_buffer_alloc(pool) /\ FirstFree(pool) # NULL)
  BY DEF MoveBamWindow
<1>3. QED
  BY <1>1, <1>2, BamAllocAddressed

\* The LEDs carry no address.
LEMMA LedsKept ==
  ASSUME NEW p, NEW q, q.buf = p.buf
  PROVE  Kept(p, q)
BY DEF Kept, SameChain, Large

\* A card change.
LEMMA CardChangeAddressed ==
  ASSUME Inv, Addressed(pool, opened), NEW changed \in BOOLEAN, CardChange(changed)
  PROVE  Addressed(pool', opened') /\ opened' = opened
<1> DEFINE p == [pool EXCEPT !.busy_led = TRUE]
           q == IF changed THEN free_buffers(p, FMB_ALL(p)) ELSE p
           r == free_buffers(q, Bams)
<1>1. Good(pool, Bams) /\ Bams \in SUBSET Slots
  BY BamSlotOrNull DEF Inv
<1>2. opened' = opened /\ (pool' = update_leds(r) \/ pool' = r)
  BY DEF CardChange, Bams
<1>3. p \in Pool /\ p.buf = pool.buf /\ p.active = pool.active
  BY <1>1 DEF Good, PoolInv, Pool
<1> HIDE DEF p
<1>4. Good(p, Bams) /\ Addressed(p, opened)
  BY <1>1, <1>3, LedsGood, LedsKept, KeptAddressed
<1>5. PoolInv(q) /\ Addressed(q, opened) /\ \A i \in Bams : ~Large(q, i)
  <2>1. CASE changed
    <3> DEFINE M == FMB_ALL(p)
    <3>1. PoolInv(p) /\ M \in SUBSET Slots /\ WholeChains(p, M)
      BY <1>4, FreedSetsAreWhole DEF Good
    <3>2. \A i \in Bams : i \in M
      BY <1>4 DEF Good, BamSlots, FMB_ALL, Selected
    <3> HIDE DEF M
    <3> DEFINE f == free_buffers(p, M)
    <3>3. PoolInv(f) /\ Addressed(f, opened)
      BY <1>4, <3>1, FreeInv, FreeKept, KeptAddressed
    <3>4. \A i \in Bams : f.buf[i].allocated = FALSE
      BY <3>1, <3>2, FreedIsFree
    <3>5. q = f
      BY <2>1 DEF M
    <3> HIDE DEF f, q
    <3>6. QED
      BY <3>3, <3>4, <3>5 DEF Large
  <2>2. CASE ~changed
    <3>1. q = p
      BY <2>2
    <3>2. QED
      BY <1>4, <3>1, BamIsPlain DEF Good
  <2>3. QED
    BY <2>1, <2>2
<1> HIDE DEF q
<1>6. PoolInv(r) /\ Addressed(r, opened)
  <2>1. WholeChains(q, Bams)
    BY <1>1, <1>5, FreedSetsAreWhole
  <2>2. QED
    BY <1>1, <1>5, <2>1, FreeInv, FreeKept, KeptAddressed
<1> HIDE DEF r
<1>7. Addressed(update_leds(r), opened)
  BY <1>6, UpdateLedsType, LedsKept, KeptAddressed DEF PoolInv
<1>8. QED
  BY <1>2, <1>6, <1>7

-----------------------------------------------------------------------------
(* The theorems.                                                           *)

AddressInv == Inv /\ Addressed(pool, opened)

\* What a handler does to the channels: it closes one, closes all, or keeps the
\* ones that are open.
LEMMA HandlerStep ==
  ASSUME AddressInv, Handler
  PROVE  /\ Addressed(pool', opened')
         /\ \/ opened \subseteq opened'
            \/ Users(pool') = {}
            \/ \E sa \in SAs : /\ opened' = opened \ {sa}
                               /\ \A i \in Slots : sa \in 1 .. 14 => ~Holds(pool', i, sa)
<1>1. Inv /\ Addressed(pool, opened)
  BY DEF AddressInv
<1>2. ASSUME NEW sa \in SAs,
             Open(sa) \/ Transfer(sa) \/ \E fault \in Faults : RecordPosition(sa, fault)
      PROVE  Addressed(pool', opened') /\ opened \subseteq opened'
  BY <1>1, <1>2, OpenAddressed, TransferAddressed, RecordPositionAddressed
<1>3. ASSUME NEW sa \in SAs, NEW fault, CloseChannel(sa, fault)
      PROVE  /\ Addressed(pool', opened') /\ opened' = opened \ {sa}
             /\ \A i \in Slots : sa \in 1 .. 14 => ~Holds(pool', i, sa)
  BY <1>1, <1>3, CloseChannelAddressed
<1>4. ASSUME NEW fails, CloseAll(fails)
      PROVE  Addressed(pool', opened') /\ Users(pool') = {}
  BY <1>1, <1>4, CloseAllAddressed
<1>5. ASSUME NEW fails, NEW part \in Partitions,
             (\E valid \in BOOLEAN : Mount(part, valid, fails)) \/ Unmount(part, fails)
      PROVE  Addressed(pool', opened') /\ opened' = opened
  BY <1>1, <1>5, MountAddressed, UnmountAddressed
<1>6. ASSUME \/ \E fails \in SUBSET (FMB_USER(pool) \cap CanFail(pool)) :
                  \E ready \in BOOLEAN : Initialize(ready, fails)
             \/ Reset
             \/ \E name \in Names : \/ \E outcome \in CopyOutcomes : Copy(name, outcome)
                                    \/ Scratch(name)
      PROVE  Addressed(pool', opened') /\ opened' = opened
  BY <1>1, <1>6, DosAddressed
<1>7. ASSUME \/ \E format \in BOOLEAN : ImageWork(format)
             \/ MemWriteCapture
             \/ MoveBamWindow
             \/ \E changed \in BOOLEAN : CardChange(changed)
      PROVE  Addressed(pool', opened') /\ opened' = opened
  BY <1>1, <1>7, WorkBufferAddressed, MoveBamWindowAddressed, CardChangeAddressed
<1>8. QED
  BY <1>2, <1>3, <1>4, <1>5, <1>6, <1>7, Zenon DEF Handler

\* Nothing is allocated at power-on.
LEMMA InitAddress == pool = buffers_init => Addressed(pool, opened)
<1>1. SUFFICES ASSUME pool = buffers_init PROVE Addressed(pool, opened)
  OBVIOUS
<1>2. \A i \in Slots : pool.buf[i] = ZeroBuffer
  BY <1>1, BufferCountAssumption DEF buffers_init, Slots, ErrorBuffer
<1>3. \A i \in Slots : pool.buf[i].allocated = FALSE
  BY <1>2 DEF ZeroBuffer
<1>4. QED
  BY <1>3 DEF Addressed, PlainAddress, UniqueAddress, OneActive, OwnedAddress, Holds, Large

\* The same in the next state: the drive is switched off and on.
LEMMA PowerOnAddress == ASSUME PowerOn PROVE Addressed(pool', opened') /\ Users(pool') = {}
<1>1. \A i \in Slots : pool'.buf[i] = ZeroBuffer
  BY BufferCountAssumption DEF PowerOn, buffers_init, Slots, ErrorBuffer
<1>2. \A i \in Slots : pool'.buf[i].allocated = FALSE
  BY <1>1 DEF ZeroBuffer
<1>3. QED
  BY <1>2 DEF Addressed, PlainAddress, UniqueAddress, OneActive, OwnedAddress, Holds, Large,
              Users

\* The addresses, unless a B-P has gone astray.
SafeAddress == Safe /\ (astray \/ Addressed(pool, opened))

\* What any step does.
LEMMA AddressStep ==
  ASSUME SafeAddress, ~astray, Next, ~astray'
  PROVE  /\ Addressed(pool', opened')
         /\ \/ opened \subseteq opened'
            \/ Users(pool') = {}
            \/ \E sa \in SAs : /\ opened' = opened \ {sa}
                               /\ \A i \in Slots : sa \in 1 .. 14 => ~Holds(pool', i, sa)
<1>1. AddressInv /\ Inv /\ Addressed(pool, opened)
  BY DEF SafeAddress, Safe, AddressInv
<1>2. CASE Handler
  BY <1>1, <1>2, HandlerStep
<1>3. ASSUME NEW i \in 0 .. BufferCount, NEW j, BufferPosition(pool.buf[i].secondary, j)
      PROVE  Addressed(pool', opened') /\ opened \subseteq opened'
  BY <1>1, <1>3, BufferPositionAddressed
<1>4. CASE PowerOn
  BY <1>4, PowerOnAddress
<1>5. QED
  BY <1>2, <1>3, <1>4 DEF Next

\* It holds initially.
LEMMA InitSafeAddress == Init => SafeAddress
BY InitSafe, InitAddress DEF SafeAddress, Init

\* Every step keeps it.
LEMMA NextSafeAddress == SafeAddress /\ [Next]_vars => SafeAddress'
<1>1. SUFFICES ASSUME SafeAddress, [Next]_vars PROVE SafeAddress'
  OBVIOUS
<1>2. Safe'
  BY <1>1, NextSafe DEF SafeAddress
<1>3. astray' \/ Addressed(pool', opened')
  <2>1. CASE Next /\ ~astray
    BY <1>1, <2>1, AddressStep
  <2>2. CASE Next /\ astray
    BY <2>2, PowerOnAddress DEF Next
  <2>3. CASE UNCHANGED vars
    BY <1>1, <2>3 DEF SafeAddress, vars
  <2>4. QED
    BY <1>1, <2>1, <2>2, <2>3
<1>4. (astray \/ Addressed(pool, opened))'
  BY <1>3
<1>5. QED
  BY <1>2, <1>4 DEF SafeAddress

\* A buffer that answers to a user's address is in a slot.
LEMMA HolderSlot ==
  ASSUME NEW p, PoolInv(p), NEW x \in Int, x # 15, NEW i \in Holders(p, x)
  PROVE  i \in Slots /\ Holds(p, i, x)
<1>1. i \in 0 .. BufferCount /\ p.buf[i].allocated /\ p.buf[i].secondary = x
  BY DEF Holders
<1>2. p.buf[BufferCount].secondary = 15
  BY DEF PoolInv, OneCommandChannel, ErrorChannel, ErrorBuffer, SecondaryCommand
<1>3. i # BufferCount
  BY <1>1, <1>2
<1>4. QED
  BY <1>1, <1>3, BufferCountAssumption DEF Slots, Holds

\* The member of a chain is found from its head.
LEMMA ChainFinds ==
  ASSUME NEW p, PoolInv(p), NEW i \in Slots, NEW j \in Slots, SameChain(p, i, j)
  PROVE  j \in ChainOf(p, i)
<1>1. Large(p, j) /\ p.buf[j].first = p.buf[i].first
  BY DEF SameChain
<1>2. /\ p.buf[j].first \in Slots /\ p.buf[j].first <= j
      /\ \A k \in p.buf[j].first .. j - 1 : p.buf[k].next = k + 1
  BY <1>1 DEF PoolInv, FirstLinks
<1>3. QED
  BY <1>1, <1>2, BufferCountAssumption DEF ChainOf, Slots

\* What the invariant says of the addresses.
LEMMA AddressImplies == SafeAddress => OneActiveBuffer /\ NoOrphanBuffer
<1>1. SUFFICES ASSUME SafeAddress, ~astray PROVE OneActiveBuffer /\ NoOrphanBuffer
  BY DEF OneActiveBuffer, NoOrphanBuffer
<1>2. PoolInv(pool) /\ Addressed(pool, opened)
  BY <1>1 DEF SafeAddress, Safe, Inv, Good
<1>3. UniqueChannel
  <2>1. ASSUME NEW sa \in 1 .. 14, NEW i \in Holders(pool, sa), NEW j \in Holders(pool, sa)
        PROVE  i = j
    <3>1. sa \in Int /\ sa # 15
      OBVIOUS
    <3>2. i \in Slots /\ j \in Slots /\ Holds(pool, i, sa) /\ Holds(pool, j, sa)
      BY <1>2, <3>1, HolderSlot
    <3>3. QED
      BY <1>2, <3>2 DEF Addressed, UniqueAddress
  <2>2. QED
    BY <2>1 DEF UniqueChannel
<1>4. ASSUME NEW i \in Allocated(pool), pool.buf[i].cleanup = "largebuffer_cleanup"
      PROVE  \E a \in ChainOf(pool, i) :
               /\ i \in ChainOf(pool, i)
               /\ pool.buf[a].secondary < SecondaryCommand
               /\ \A j \in ChainOf(pool, i) :
                    /\ pool.buf[j].allocated
                    /\ pool.buf[j].cleanup = "largebuffer_cleanup"
                    /\ pool.buf[j].first = pool.buf[i].first
                    /\ j # a =>
                         pool.buf[j].secondary = BUFFER_SEC_CHAIN - pool.buf[a].secondary
  <2>1. i \in Slots /\ Large(pool, i) /\ NextLinks(pool) /\ FirstLinks(pool)
    BY <1>2, <1>4 DEF Allocated, Large, PoolInv
  <2>2. PICK a \in Slots : ActiveMember(pool, i, a)
    BY <1>2, <2>1 DEF Addressed, OneActive
  <2>3. a \in ChainOf(pool, i) /\ i \in ChainOf(pool, i)
    BY <1>2, <2>1, <2>2, ChainFinds, ChainIsWhole DEF ActiveMember
  <2>4. pool.buf[a].secondary < SecondaryCommand
    BY <2>2 DEF ActiveMember, SecondaryCommand
  <2>5. ASSUME NEW j \in ChainOf(pool, i)
        PROVE  /\ pool.buf[j].allocated
               /\ pool.buf[j].cleanup = "largebuffer_cleanup"
               /\ pool.buf[j].first = pool.buf[i].first
               /\ j # a =>
                    pool.buf[j].secondary = BUFFER_SEC_CHAIN - pool.buf[a].secondary
    <3>1. j \in Slots /\ Large(pool, j) /\ pool.buf[j].first = pool.buf[i].first
      BY <2>1, ChainMembers
    <3>2. SameChain(pool, i, j)
      BY <2>1, <3>1 DEF SameChain
    <3>3. QED
      BY <2>2, <3>1, <3>2 DEF ActiveMember, Large
  <2>6. QED
    BY <2>3, <2>4, <2>5
<1>5. OneActiveBuffer
  BY <1>3, <1>4 DEF OneActiveBuffer, LargeBuffersIntact, ChainsIntact
<1>6. ASSUME NEW i \in Users(pool)
      PROVE  LET s == pool.buf[i].secondary
             IN  \/ s \in {0, BUFFER_SEC_CHAIN}
                 \/ s \in opened
                 \/ BUFFER_SEC_CHAIN - s \in opened
  <2> DEFINE s == pool.buf[i].secondary
  <2>1. i \in Slots /\ pool.buf[i].allocated /\ s < BUFFER_SEC_SYSTEM
    BY DEF Users
  <2>2. ASSUME NEW k \in Slots, pool.buf[k].allocated, pool.buf[k].secondary \in 0 .. 14
        PROVE  pool.buf[k].secondary = 0 \/ pool.buf[k].secondary \in opened
    BY <1>2, <2>2 DEF Addressed, OwnedAddress, Holds
  <2>3. CASE ~Large(pool, i)
    BY <1>2, <2>1, <2>2, <2>3 DEF Addressed, PlainAddress
  <2>4. CASE Large(pool, i)
    <3>1. PICK a \in Slots : ActiveMember(pool, i, a)
      BY <1>2, <2>1, <2>4 DEF Addressed, OneActive
    <3>2. /\ pool.buf[a].allocated /\ pool.buf[a].secondary \in 0 .. 14
          /\ i = a \/ s = 99 - pool.buf[a].secondary
      BY <2>1, <2>4, <3>1 DEF ActiveMember, SameChain, Large, BUFFER_SEC_CHAIN
    <3>3. pool.buf[a].secondary = 0 \/ pool.buf[a].secondary \in opened
      BY <2>2, <3>2
    <3>4. CASE i = a
      BY <3>3, <3>4
    <3>5. CASE s = 99 - pool.buf[a].secondary
      <4>1. 99 - s = pool.buf[a].secondary
        BY <3>2, <3>5
      <4>2. QED
        BY <3>3, <3>5, <4>1 DEF BUFFER_SEC_CHAIN
    <3>6. QED
      BY <3>2, <3>4, <3>5
  <2>5. QED
    BY <2>3, <2>4
<1>7. NoOrphanBuffer
  BY <1>6 DEF NoOrphanBuffer
<1>8. QED
  BY <1>5, <1>7

\* find_buffer's first match is the only one for 1..14, and every chain keeps
\* one active member: OPEN replaces what the channel had, refill and B-P hand
\* the address on within the chain, and no error path frees part of one.  Only a
\* B-P on a file's channel or on an inactive member's address ends that.
THEOREM OneActiveBufferHolds == Spec => []OneActiveBuffer
<1>1. SafeAddress => OneActiveBuffer
  BY AddressImplies
<1>2. QED
  BY <1>1, InitSafeAddress, NextSafeAddress, PTL DEF Spec

\* No user buffer outlives its channel, secondary 0 and its chains aside: the
\* error paths of the callbacks, CLOSE and the card changes leave none behind;
\* a B-P that goes astray may.
THEOREM NoOrphanBufferHolds == Spec => []NoOrphanBuffer
<1>1. SafeAddress => NoOrphanBuffer
  BY AddressImplies
<1>2. QED
  BY <1>1, InitSafeAddress, NextSafeAddress, PTL DEF Spec

\* What CloseReleases says of one step.
Released == ~astray => \A sa \in (opened \ opened') \ {0} :
              Holders(pool', sa) \cup Holders(pool', BUFFER_SEC_CHAIN - sa) = {}

\* CLOSE of one channel, or of all, leaves no buffer that answers to a closed
\* channel or waits in its chain; no other step closes one.
LEMMA CloseStep == SafeAddress /\ [Next]_vars => Released \/ UNCHANGED vars
<1>1. SUFFICES ASSUME SafeAddress, Next, ~astray, NEW sa \in (opened \ opened') \ {0}
               PROVE  Holders(pool', sa) \cup Holders(pool', BUFFER_SEC_CHAIN - sa) = {}
  BY DEF Released
<1>2. opened \subseteq SAs /\ ~astray'
  <2>1. TypeOK
    BY <1>1 DEF SafeAddress, Safe
  <2>2. \A x, j : BufferPosition(x, j) => opened' = opened
    BY DEF BufferPosition
  <2>3. QED
    BY <1>1, <2>1, <2>2 DEF TypeOK, Next, PowerOn
<1>3. sa \in 1 .. 14
  BY <1>1, <1>2, HostAddress
<1>4. PoolInv(pool') /\ Addressed(pool', opened')
  <2>1. (PoolInv(pool) /\ Addressed(pool, opened))'
    BY <1>1, <1>2, NextSafeAddress DEF SafeAddress, Safe, Inv, Good
  <2>2. QED
    BY <2>1 DEF PoolInv
<1>5. \A i \in Slots : ~Holds(pool', i, sa)
  <2>1. CASE Users(pool') = {}
    <3>1. sa < BUFFER_SEC_SYSTEM
      BY <1>3 DEF BUFFER_SEC_SYSTEM
    <3>2. QED
      BY <2>1, <3>1 DEF Users, Holds
  <2>2. ASSUME NEW x \in SAs, opened' = opened \ {x},
               \A i \in Slots : x \in 1 .. 14 => ~Holds(pool', i, x)
        PROVE  \A i \in Slots : ~Holds(pool', i, sa)
    <3>1. sa = x
      BY <1>1, <2>2
    <3>2. QED
      BY <1>3, <2>2, <3>1
  <2>3. QED
    BY <1>1, <1>2, <2>1, <2>2, AddressStep
<1>6. \A i \in Slots : ~Holds(pool', i, BUFFER_SEC_CHAIN - sa)
  BY <1>3, <1>4, <1>5, NoChainAddress
<1>7. sa \in Int /\ sa # 15 /\ BUFFER_SEC_CHAIN - sa \in Int /\ BUFFER_SEC_CHAIN - sa # 15
  BY <1>3 DEF BUFFER_SEC_CHAIN
<1>8. Holders(pool', sa) = {}
  BY <1>4, <1>5, <1>7, HolderSlot
<1>9. Holders(pool', BUFFER_SEC_CHAIN - sa) = {}
  BY <1>4, <1>6, <1>7, HolderSlot
<1>10. QED
  BY <1>8, <1>9

\* A channel the host has closed has no buffer.
THEOREM CloseReleasesHolds == Spec => CloseReleases
<1>1. SafeAddress /\ [Next]_vars => [Released]_vars
  BY CloseStep
<1>2. Spec => [][Released]_vars
  BY <1>1, InitSafeAddress, NextSafeAddress, PTL DEF Spec
<1>3. CloseReleases <=> [][Released]_vars
  BY DEF CloseReleases, Released
<1>4. QED
  BY <1>2, <1>3
=============================================================================
