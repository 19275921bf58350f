--------------------------- MODULE BufferPoolProofs ---------------------------
(***************************************************************************)
(* Facts about the operators of BufferPool, and that they keep PoolInv, for *)
(* every BufferCount.                                                      *)
(***************************************************************************)
EXTENDS BufferPool, FiniteSetTheorems, WellFoundedInduction, TLAPS

-----------------------------------------------------------------------------
(* The minimum of a set of naturals, as First uses it.                     *)

\* Min, as FirstFree, FirstRun and find_buffer use it, is a member of its set
\* and a lower bound of it.
LEMMA MinOfNats ==
  ASSUME NEW S \in SUBSET Nat, S # {}
  PROVE  /\ Min(S) \in S
         /\ \A y \in S : Min(S) <= y
<1>1. \E x \in S : \A y \in S : ~ (<<y, x>> \in OpToRel(<, Nat))
  BY WFMin, NatLessThanWellFounded
<1>2. PICK x \in S : \A y \in S : ~ (<<y, x>> \in OpToRel(<, Nat))
  BY <1>1
<1>3. ASSUME NEW y \in S, ~(x <= y) PROVE FALSE
  <2>1. y \in Nat /\ x \in Nat /\ y < x
    BY <1>3
  <2>2. <<y, x>> \in Nat \X Nat /\ <<y, x>>[1] = y /\ <<y, x>>[2] = x
    BY <2>1
  <2>3. <<y, x>>[1] < <<y, x>>[2]
    BY <2>1, <2>2
  <2>4. <<y, x>> \in {ss \in Nat \X Nat : ss[1] < ss[2]}
    BY <2>2, <2>3
  <2>5. QED
    BY <1>2, <2>4 DEF OpToRel
<1>4. QED
  BY <1>3 DEF Min

\* First returns NULL exactly for the empty set, otherwise its first element.
LEMMA FirstOfSlots ==
  ASSUME NEW S \in SUBSET (0 .. BufferCount)
  PROVE  /\ (First(S) = NULL) <=> (S = {})
         /\ S # {} => First(S) \in S /\ \A y \in S : First(S) <= y
<1>1. CASE S = {}
  BY <1>1 DEF First
<1>2. CASE S # {}
  <2>1. S \in SUBSET Nat
    BY BufferCountAssumption
  <2>2. Min(S) \in S /\ \A y \in S : Min(S) <= y
    BY <1>2, <2>1, MinOfNats
  <2>3. Min(S) # NULL
    BY <2>1, <2>2 DEF NULL
  <2>4. QED
    BY <1>2, <2>2, <2>3 DEF First
<1>3. QED
  BY <1>1, <1>2

\* FirstFree is a free slot, or NULL when there is none.
LEMMA FirstFreeSlot ==
  ASSUME NEW p, FirstFree(p) # NULL
  PROVE  FirstFree(p) \in Slots /\ ~p.buf[FirstFree(p)].allocated
<1>1. FreeSlots(p) \in SUBSET (0 .. BufferCount)
  BY BufferCountAssumption DEF FreeSlots, Slots
<1>2. FirstFree(p) \in FreeSlots(p)
  BY <1>1, FirstOfSlots DEF FirstFree
<1>3. QED
  BY <1>2 DEF FreeSlots

\* FirstRun is the start of a run of count free slots, or NULL.
LEMMA FirstRunSlots ==
  ASSUME NEW p, NEW count \in Nat, FirstRun(p, count) # NULL
  PROVE  /\ FirstRun(p, count) \in Slots
         /\ FirstRun(p, count) + count <= BufferCount
         /\ \A i \in FirstRun(p, count) .. FirstRun(p, count) + count - 1 :
              i \in Slots /\ ~p.buf[i].allocated
<1> DEFINE R == {s \in Slots : s + count <= BufferCount
                         /\ s .. s + count - 1 \subseteq FreeSlots(p)}
<1>1. R \in SUBSET (0 .. BufferCount)
  BY BufferCountAssumption DEF Slots
<1>2. FirstRun(p, count) = First(R)
  BY DEF FirstRun
<1>3. FirstRun(p, count) \in R
  BY <1>1, <1>2, FirstOfSlots
<1>4. QED
  BY <1>3 DEF FreeSlots

\* find_buffer returns a buffer that holds the secondary address, or NULL.
LEMMA FindBufferHolds ==
  ASSUME NEW p, NEW sa, find_buffer(p, sa) # NULL
  PROVE  /\ find_buffer(p, sa) \in 0 .. BufferCount
         /\ p.buf[find_buffer(p, sa)].allocated
         /\ p.buf[find_buffer(p, sa)].secondary = sa
<1>1. Holders(p, sa) \in SUBSET (0 .. BufferCount)
  BY DEF Holders
<1>2. find_buffer(p, sa) \in Holders(p, sa)
  BY <1>1, FirstOfSlots DEF find_buffer
<1>3. QED
  BY <1>2 DEF Holders

\* find_buffer returns NULL only when no buffer holds the secondary address.
LEMMA FindBufferNull ==
  ASSUME NEW p, NEW sa, find_buffer(p, sa) = NULL
  PROVE  Holders(p, sa) = {}
<1>1. Holders(p, sa) \in SUBSET (0 .. BufferCount)
  BY DEF Holders
<1>2. QED
  BY <1>1, FirstOfSlots DEF find_buffer

-----------------------------------------------------------------------------
(* Types.                                                                  *)

\* The slots are finite, and so are the sets the counters count.
LEMMA FinitePool ==
  ASSUME NEW p
  PROVE  /\ IsFiniteSet(Slots)
         /\ IsFiniteSet(Users(p)) /\ IsFiniteSet(Dirty(p))
         /\ Cardinality(Users(p)) \in Nat /\ Cardinality(Dirty(p)) \in Nat
<1>1. IsFiniteSet(Slots)
  BY FS_Interval, BufferCountAssumption DEF Slots
<1>2. Users(p) \subseteq Slots /\ Dirty(p) \subseteq Slots
  BY DEF Users, Dirty
<1>3. IsFiniteSet(Users(p)) /\ IsFiniteSet(Dirty(p))
  BY <1>1, <1>2, FS_Subset
<1>4. QED
  BY <1>1, <1>3, FS_CardinalityType

\* buffers_init gives a pool whose counters are exact.
LEMMA InitPool == buffers_init \in Pool /\ CountsAgree(buffers_init)
<1>1. buffers_init \in Pool
  <2>1. ZeroBuffer \in Buffer
    BY DEF Buffer, ZeroBuffer, Refills, Cleanups
  <2>2. ErrorChannel \in Buffer
    BY DEF ErrorChannel, Buffer, Refills, Cleanups, SecondaryCommand
  <2>3. [i \in 0 .. BufferCount |->
            IF i = ErrorBuffer THEN ErrorChannel ELSE ZeroBuffer]
          \in [0 .. BufferCount -> Buffer]
    BY <2>1, <2>2
  <2>4. QED
    BY <2>3 DEF buffers_init, Pool
<1>2. Users(buffers_init) = {} /\ Dirty(buffers_init) = {}
  BY BufferCountAssumption
  DEF buffers_init, Users, Dirty, ZeroBuffer, Slots, ErrorBuffer
<1>3. buffers_init.active = 0
  BY DEF buffers_init
<1>4. QED
  BY <1>1, <1>2, <1>3, FS_EmptySet DEF CountsAgree

\* The LEDs aside, update_leds changes nothing.
LEMMA UpdateLedsType ==
  ASSUME NEW p \in Pool
  PROVE  /\ update_leds(p) \in Pool
         /\ update_leds(p).buf = p.buf
         /\ update_leds(p).active = p.active
BY DEF update_leds, Pool

\* A change that keeps, for every slot, whether it is allocated, whether it is
\* dirty and whether it is a user buffer, keeps the counters exact.
LEMMA SameCounts ==
  ASSUME NEW p, NEW q, CountsAgree(p), q.active = p.active,
         \A i \in Slots :
           /\ q.buf[i].allocated = p.buf[i].allocated
           /\ p.buf[i].allocated =>
                /\ q.buf[i].dirty = p.buf[i].dirty
                /\ (q.buf[i].secondary < BUFFER_SEC_SYSTEM)
                     = (p.buf[i].secondary < BUFFER_SEC_SYSTEM)
  PROVE  CountsAgree(q)
<1>1. Users(q) = Users(p)
  BY DEF Users
<1>2. Dirty(q) = Dirty(p)
  BY DEF Dirty
<1>3. QED
  BY <1>1, <1>2 DEF CountsAgree

\* A change of one buffer and of active_buffers is a change of the pool.
LEMMA SetBufferType ==
  ASSUME NEW p \in Pool, NEW q, NEW i \in 0 .. BufferCount, NEW b \in Buffer,
         q.buf = [p.buf EXCEPT ![i] = b]
  PROVE  /\ q.buf \in [0 .. BufferCount -> Buffer]
         /\ q.buf[i] = b
         /\ \A k \in 0 .. BufferCount : k # i => q.buf[k] = p.buf[k]
BY DEF Pool

\* A fresh buffer is a buffer.
LEMMA FreshBufferType ==
  ASSUME NEW s \in 0 .. 255, NEW f \in Slots \cup {NULL},
         NEW n \in Slots \cup {NULL}
  PROVE  FreshBuffer(s, f, n) \in Buffer
BY DEF FreshBuffer, Buffer, Refills, Cleanups

\* alloc_system_buffer fills the first free slot and counts nothing.
LEMMA AllocSystem ==
  ASSUME NEW p \in Pool, CountsAgree(p), FirstFree(p) # NULL
  PROVE  LET q == alloc_system_buffer(p)
         IN  /\ q \in Pool /\ CountsAgree(q)
             /\ q.buf = [p.buf EXCEPT ![FirstFree(p)] =
                           FreshBuffer(BUFFER_SEC_SYSTEM, NULL, NULL)]
             /\ q.active = p.active
<1> DEFINE i == FirstFree(p)
           b == FreshBuffer(BUFFER_SEC_SYSTEM, NULL, NULL)
           q == alloc_system_buffer(p)
<1>1. i \in Slots /\ ~p.buf[i].allocated /\ i \in 0 .. BufferCount
  BY FirstFreeSlot, BufferCountAssumption DEF Slots
<1>2. /\ b \in Buffer
      /\ b.dirty = FALSE /\ b.secondary = 100
  <2>1. BUFFER_SEC_SYSTEM \in 0 .. 255
    BY DEF BUFFER_SEC_SYSTEM
  <2>2. b \in Buffer
    BY <2>1, FreshBufferType
  <2>3. QED
    BY <2>2 DEF FreshBuffer, BUFFER_SEC_SYSTEM
<1>3. q = [p EXCEPT !.buf[i] = b]
  BY DEF alloc_system_buffer, alloc_specific_buffer
<1> HIDE DEF b, i, q
<1>4. /\ q.buf = [p.buf EXCEPT ![i] = b] /\ q.active = p.active
      /\ q.busy_led = p.busy_led /\ q.dirty_led = p.dirty_led
      /\ DOMAIN q = DOMAIN p
  BY <1>3 DEF Pool
<1>5. q \in Pool
  BY <1>1, <1>2, <1>3 DEF Pool
<1>6. \A k \in Slots : k # i => q.buf[k] = p.buf[k]
  BY <1>1, <1>4, BufferCountAssumption DEF Pool, Slots
<1>7. q.buf[i] = b
  BY <1>1, <1>4 DEF Pool
<1>8. Users(q) = Users(p) /\ Dirty(q) = Dirty(p)
  <2>1. i \notin Users(p) /\ i \notin Dirty(p)
    BY <1>1 DEF Users, Dirty
  <2>2. i \notin Users(q) /\ i \notin Dirty(q)
    BY <1>2, <1>7 DEF Users, Dirty, BUFFER_SEC_SYSTEM
  <2>3. QED
    BY <1>6, <2>1, <2>2 DEF Users, Dirty
<1>9. QED
  BY <1>4, <1>5, <1>8 DEF CountsAgree, b, i, q

\* The arithmetic of a uint8_t: adding before or after the reduction.
LEMMA ByteAdd ==
  ASSUME NEW n \in Int, NEW d \in Int
  PROVE  /\ ((n % 256) + d) % 256 = (n + d) % 256
         /\ n % 256 \in 0 .. 255
OBVIOUS

\* A pool, field by field.
LEMMA PoolRecord ==
  ASSUME NEW b \in [0 .. BufferCount -> Buffer], NEW a \in 0 .. 255,
         NEW x \in BOOLEAN, NEW y \in BOOLEAN
  PROVE  [buf |-> b, active |-> a, busy_led |-> x, dirty_led |-> y] \in Pool
BY DEF Pool

\* The fields of a pool.
LEMMA PoolFields ==
  ASSUME NEW p \in Pool
  PROVE  /\ p.buf \in [0 .. BufferCount -> Buffer] /\ p.active \in 0 .. 255
         /\ p.busy_led \in BOOLEAN /\ p.dirty_led \in BOOLEAN
         /\ p = [buf |-> p.buf, active |-> p.active,
                 busy_led |-> p.busy_led, dirty_led |-> p.dirty_led]
BY DEF Pool

\* The scalar fields of a pool.
LEMMA PoolActive ==
  ASSUME NEW p \in Pool
  PROVE  p.active \in Int /\ p.busy_led \in BOOLEAN /\ p.dirty_led \in BOOLEAN
<1>1. p.active \in 0 .. 255
  BY PoolFields
<1>2. p.active \in Int
  BY <1>1
<1>3. QED
  BY <1>2, PoolFields

\* alloc_buffer fills the first free slot with a user buffer and counts it.
LEMMA AllocBuffer ==
  ASSUME NEW p \in Pool, CountsAgree(p), FirstFree(p) # NULL
  PROVE  LET q == alloc_buffer(p)
         IN  /\ q \in Pool /\ CountsAgree(q)
             /\ q.buf = [p.buf EXCEPT ![FirstFree(p)] = FreshBuffer(0, NULL, NULL)]
<1> DEFINE i == FirstFree(p)
           b == FreshBuffer(0, NULL, NULL)
           q == alloc_buffer(p)
<1>1. i \in Slots /\ ~p.buf[i].allocated /\ i \in 0 .. BufferCount
  BY FirstFreeSlot, BufferCountAssumption DEF Slots
<1>3. b \in Buffer /\ b.allocated = TRUE /\ b.dirty = FALSE /\ b.secondary = 0
  <2>1. b \in Buffer
    BY FreshBufferType
  <2>2. QED
    BY <2>1 DEF FreshBuffer
<1>4. q = [p EXCEPT !.buf[i] = b, !.active = (@ + 1) % 256, !.busy_led = TRUE]
  BY DEF alloc_buffer
<1> HIDE DEF b, i, q
<1>5. q = [buf |-> [p.buf EXCEPT ![i] = b], active |-> (p.active + 1) % 256,
           busy_led |-> TRUE, dirty_led |-> p.dirty_led]
  BY <1>4 DEF Pool
<1>6. q.buf = [p.buf EXCEPT ![i] = b] /\ q.active = (p.active + 1) % 256
  BY <1>5
<1>7. q \in Pool
  <2>1. [p.buf EXCEPT ![i] = b] \in [0 .. BufferCount -> Buffer]
    BY <1>1, <1>3, PoolFields
  <2>2. p.active + 1 \in Int /\ p.dirty_led \in BOOLEAN
    <3>1. p.active \in Int /\ p.dirty_led \in BOOLEAN
      BY PoolActive
    <3>2. QED
      BY <3>1
  <2>3. (p.active + 1) % 256 \in 0 .. 255
    BY <2>2, ByteAdd
  <2>4. QED
    BY <1>5, <2>1, <2>2, <2>3, PoolRecord
<1>8. (\A k \in Slots : k # i => q.buf[k] = p.buf[k]) /\ q.buf[i] = b
  <2>1. q.buf[i] = b /\ \A k \in 0 .. BufferCount : k # i => q.buf[k] = p.buf[k]
    <3>1. p.buf \in [0 .. BufferCount -> Buffer]
      BY PoolFields
    <3>2. QED
      BY <1>1, <1>6, <3>1
  <2>2. \A k \in Slots : k \in 0 .. BufferCount
    BY BufferCountAssumption DEF Slots
  <2>3. QED
    BY <2>1, <2>2
<1>9. i \notin Users(p) /\ Users(q) = Users(p) \cup {i} /\ Dirty(q) = Dirty(p)
  <2>1. i \notin Users(p) /\ i \notin Dirty(p) /\ i \in Users(q) /\ i \notin Dirty(q)
    BY <1>1, <1>3, <1>8 DEF Users, Dirty, BUFFER_SEC_SYSTEM
  <2>2. QED
    BY <1>1, <1>8, <2>1 DEF Users, Dirty
<1>10. Cardinality(Users(q)) = Cardinality(Users(p)) + 1
  BY <1>9, FS_AddElement, FinitePool
<1>11. CountsAgree(q)
  BY <1>6, <1>9, <1>10, FinitePool, ByteAdd DEF CountsAgree
<1>12. QED
  BY <1>6, <1>7, <1>11 DEF b, i, q

\* The size of a finite set without one of its subsets.
LEMMA CardinalityMinus ==
  ASSUME NEW S, NEW T, IsFiniteSet(S), T \subseteq S
  PROVE  Cardinality(S \ T) = Cardinality(S) - Cardinality(T)
<1>1. S \cap T = T
  OBVIOUS
<1>2. QED
  BY <1>1, FS_Difference

\* free_buffers frees the allocated members of M and takes each off the count
\* of users, and off the count of dirty buffers when it is dirty.
LEMMA FreeBuffers ==
  ASSUME NEW p \in Pool, CountsAgree(p), NEW M \in SUBSET Slots,
         \A i \in Slots : p.buf[i].allocated => p.buf[i].secondary # SecondaryCommand
  PROVE  LET q == free_buffers(p, M)
         IN  /\ q \in Pool /\ CountsAgree(q)
             /\ \A i \in 0 .. BufferCount :
                  q.buf[i] = IF i \in M /\ p.buf[i].allocated
                               THEN [ZeroBuffer EXCEPT !.dirty = p.buf[i].dirty]
                               ELSE p.buf[i]
<1> DEFINE q == free_buffers(p, M)
           F == {i \in M : p.buf[i].allocated /\ p.buf[i].secondary # SecondaryCommand}
           D == {i \in F : p.buf[i].dirty}
           U == {i \in F : p.buf[i].secondary < BUFFER_SEC_SYSTEM}
           bs == [i \in 0 .. BufferCount |->
                    IF i \in F THEN [ZeroBuffer EXCEPT !.dirty = p.buf[i].dirty]
                               ELSE p.buf[i]]
           a == (p.active - 16 * Cardinality(D) - Cardinality(U)) % 256
           r == [p EXCEPT !.buf = bs, !.active = a]
<1>1. F = {i \in M : p.buf[i].allocated} /\ F \subseteq Slots
  OBVIOUS
<1>2. CASE F = {}
  <2>1. q = p
    BY <1>2 DEF free_buffers
  <2>2. \A i \in M : ~p.buf[i].allocated
    BY <1>1, <1>2
  <2>3. QED
    BY <2>1, <2>2
<1>3. CASE F # {}
  <2>1. q = update_leds(r)
    BY <1>3 DEF free_buffers
  <2>2. bs \in [0 .. BufferCount -> Buffer]
    <3>1. ASSUME NEW i \in 0 .. BufferCount
          PROVE  [ZeroBuffer EXCEPT !.dirty = p.buf[i].dirty] \in Buffer
      <4>1. ZeroBuffer \in Buffer
        BY DEF ZeroBuffer, Buffer, Refills, Cleanups
      <4>2. p.buf[i].dirty \in BOOLEAN
        BY DEF Pool, Buffer
      <4>3. QED
        BY <4>1, <4>2 DEF Buffer
    <3>2. \A i \in 0 .. BufferCount : p.buf[i] \in Buffer
      BY DEF Pool
    <3>3. QED
      BY <3>1, <3>2
  <2>3. IsFiniteSet(D) /\ IsFiniteSet(U) /\ D \subseteq Dirty(p) /\ U \subseteq Users(p)
        /\ Cardinality(D) \in Nat /\ Cardinality(U) \in Nat
    <3>1. D \subseteq Dirty(p) /\ U \subseteq Users(p)
      BY <1>1 DEF Dirty, Users
    <3>2. QED
      BY <3>1, FinitePool, FS_Subset, FS_CardinalityType
  <2>4. a \in 0 .. 255
    <3>1. p.active \in Int
      BY PoolActive
    <3>2. p.active - 16 * Cardinality(D) - Cardinality(U) \in Int
      BY <2>3, <3>1
    <3>3. QED
      BY <3>2, ByteAdd
  <2> HIDE DEF a, bs, D, U, F
  <2>5. r \in Pool /\ r.buf = bs /\ r.active = a
    BY <2>2, <2>4 DEF Pool
  <2> HIDE DEF r, q
  <2>6. q \in Pool /\ q.buf = bs /\ q.active = a
    BY <2>1, <2>5, UpdateLedsType
  <2>7. Users(q) = Users(p) \ U /\ Dirty(q) = Dirty(p) \ D
    <3>1. ASSUME NEW i \in Slots
          PROVE  /\ i \in F => q.buf[i].allocated = FALSE
                 /\ i \notin F => q.buf[i] = p.buf[i]
      <4>1. i \in 0 .. BufferCount
        BY BufferCountAssumption DEF Slots
      <4>2. QED
        BY <2>6, <4>1 DEF bs, ZeroBuffer
    <3>2. Users(q) = Users(p) \ U
      BY <3>1, <1>1 DEF Users, U
    <3>3. Dirty(q) = Dirty(p) \ D
      BY <3>1, <1>1 DEF Dirty, D
    <3>4. QED
      BY <3>2, <3>3
  <2>8. /\ Cardinality(Users(q)) = Cardinality(Users(p)) - Cardinality(U)
        /\ Cardinality(Dirty(q)) = Cardinality(Dirty(p)) - Cardinality(D)
    <3>1. IsFiniteSet(Users(p)) /\ IsFiniteSet(Dirty(p))
      BY FinitePool
    <3>2. Cardinality(Users(p) \ U) = Cardinality(Users(p)) - Cardinality(U)
      BY <2>3, <3>1, CardinalityMinus
    <3>3. Cardinality(Dirty(p) \ D) = Cardinality(Dirty(p)) - Cardinality(D)
      BY <2>3, <3>1, CardinalityMinus
    <3>4. QED
      BY <2>7, <3>2, <3>3
  <2>9. CountsAgree(q)
    BY <2>3, <2>6, <2>8, FinitePool, ByteAdd DEF CountsAgree, a
  <2>10. QED
    BY <1>1, <2>6, <2>9 DEF bs, q, F
<1>4. QED
  BY <1>2, <1>3
-----------------------------------------------------------------------------
(* The chains.                                                             *)

\* Only a member of a chain has a next buffer.
LEMMA PlainHasNoNext ==
  ASSUME NEW p, NextLinks(p), NEW i \in Slots, ~Large(p, i)
  PROVE  p.buf[i].next = NULL
BY DEF NextLinks

\* The slot before one that lies behind another.
LEMMA Between ==
  ASSUME NEW a \in Slots, NEW b \in Slots, NEW c \in Slots, a < b, b <= c
  PROVE  b - 1 \in a .. c - 1 /\ b - 1 \in Slots /\ b - 1 + 1 = b
BY BufferCountAssumption DEF Slots

\* The members ChainOf finds are large buffers that share the head of i.
LEMMA ChainMembers ==
  ASSUME NEW p, NextLinks(p), FirstLinks(p), NEW i \in Slots, Large(p, i),
         NEW j \in ChainOf(p, i)
  PROVE  j \in Slots /\ Large(p, j) /\ p.buf[j].first = p.buf[i].first
<1> DEFINE f == p.buf[i].first
           g == p.buf[j].first
<1>1. f \in Slots /\ Large(p, f) /\ p.buf[f].first = f
  BY DEF FirstLinks
<1>2. j \in Slots /\ j >= f /\ \A k \in f .. j - 1 : p.buf[k].next = k + 1
  BY DEF ChainOf
<1>3. CASE j = f
  BY <1>1, <1>3
<1>4. CASE j # f
  <2>1. j - 1 \in f .. j - 1 /\ j - 1 \in Slots
    BY <1>1, <1>2, <1>4, BufferCountAssumption DEF Slots
  <2>2. p.buf[j - 1].next = j /\ j # NULL
    BY <1>2, <2>1 DEF Slots, NULL
  <2>3. Large(p, j)
    <3>1. p.buf[j - 1].next = j - 1 + 1 /\ Large(p, j - 1 + 1)
      BY <2>1, <2>2 DEF NextLinks
    <3>2. j - 1 + 1 = j
      BY <1>2 DEF Slots
    <3>3. QED
      BY <3>1, <3>2
  <2>4. /\ g \in Slots /\ g <= j /\ Large(p, g) /\ p.buf[g].first = g
        /\ \A k \in g .. j - 1 : p.buf[k].next = k + 1
    BY <1>2, <2>3 DEF FirstLinks
  <2>5. ASSUME NEW h \in Slots, h - 1 \in Slots, p.buf[h - 1].next = h
        PROVE  p.buf[h].first # h
    <3>1. h - 1 + 1 = h /\ h # NULL
      BY <2>5 DEF Slots, NULL
    <3>2. Large(p, h - 1) /\ p.buf[h].first = p.buf[h - 1].first
      BY <2>5, <3>1 DEF NextLinks
    <3>3. p.buf[h - 1].first \in Slots /\ p.buf[h - 1].first <= h - 1
      BY <2>5, <3>2 DEF FirstLinks
    <3>4. QED
      BY <2>5, <3>2, <3>3 DEF Slots
  <2> f \in Slots /\ g \in Slots /\ j \in Slots /\ g <= j /\ f <= j
    BY <1>1, <1>2, <2>4 DEF Slots
  <2> HIDE DEF f, g
  <2>6. ~(g < f)
    <3>1. SUFFICES ASSUME g < f PROVE FALSE
      OBVIOUS
    <3>2. f - 1 \in g .. j - 1 /\ f - 1 \in Slots /\ f - 1 + 1 = f
      BY <3>1, Between DEF Slots
    <3>3. p.buf[f - 1].next = f
      BY <2>4, <3>2
    <3>4. QED
      BY <1>1, <2>5, <3>2, <3>3
  <2>7. ~(f < g)
    <3>1. SUFFICES ASSUME f < g PROVE FALSE
      OBVIOUS
    <3>2. g - 1 \in f .. j - 1 /\ g - 1 \in Slots /\ g - 1 + 1 = g
      BY <3>1, Between DEF Slots
    <3>3. p.buf[g - 1].next = g
      BY <1>2, <3>2
    <3>4. QED
      BY <2>4, <2>5, <3>2, <3>3
  <2>8. f = g
    BY <1>1, <2>4, <2>6, <2>7 DEF Slots
  <2>9. QED
    BY <1>2, <2>3, <2>8 DEF f, g
<1>5. QED
  BY <1>3, <1>4

\* A set of buffers that holds all of a chain or nothing of it.
WholeChains(p, M) ==
  \A i \in Slots : Large(p, i) => (i \in M <=> p.buf[i].first \in M)

\* A chain is a whole chain.
LEMMA ChainIsWhole ==
  ASSUME NEW p, NextLinks(p), FirstLinks(p), NEW i \in Slots, Large(p, i)
  PROVE  WholeChains(p, ChainOf(p, i)) /\ i \in ChainOf(p, i)
<1> DEFINE f == p.buf[i].first
<1>1. f \in Slots /\ i \in ChainOf(p, i) /\ f \in ChainOf(p, i)
  BY DEF FirstLinks, ChainOf, Slots
<1>2. ASSUME NEW k \in Slots, Large(p, k), k \in ChainOf(p, i)
      PROVE  p.buf[k].first \in ChainOf(p, i)
  BY <1>1, <1>2, ChainMembers
<1>3. ASSUME NEW k \in Slots, Large(p, k), p.buf[k].first \in ChainOf(p, i)
      PROVE  k \in ChainOf(p, i)
  <2> DEFINE g == p.buf[k].first
  <2>1. g \in Slots /\ p.buf[g].first = g
    BY <1>3 DEF FirstLinks
  <2>2. p.buf[g].first = f
    BY <1>3, ChainMembers
  <2>3. k \in ChainOf(p, k)
    BY <1>3 DEF FirstLinks, ChainOf, Slots
  <2>4. ChainOf(p, k) = ChainOf(p, i)
    BY <2>1, <2>2 DEF ChainOf
  <2>5. QED
    BY <2>3, <2>4
<1>4. QED
  BY <1>1, <1>2, <1>3 DEF WholeChains

-----------------------------------------------------------------------------
(* Changes that leave the use of every buffer as it is.                    *)

BamSlots(p) == {i \in Slots : p.buf[i].allocated /\ p.buf[i].secondary = BUFFER_SYS_BAM}
StickyBams(p) == {i \in BamSlots(p) : p.buf[i].sticky = TRUE}

\* The buffers in M aside, q has the BAM buffers of p.
BamsKept(p, q, M) == /\ BamSlots(q) = BamSlots(p) \ M
                     /\ StickyBams(q) = StickyBams(p) \ M

\* q has the buffers of p, in the same use: allocated, user and chain buffers
\* are the same.
SameUse(p, q) ==
  /\ q \in Pool
  /\ q.buf[ErrorBuffer] = p.buf[ErrorBuffer]
  /\ \A i \in Slots :
       /\ q.buf[i].allocated = p.buf[i].allocated
       /\ q.buf[i].next = p.buf[i].next
       /\ p.buf[i].allocated =>
            /\ (q.buf[i].secondary < BUFFER_SEC_SYSTEM)
                 = (p.buf[i].secondary < BUFFER_SEC_SYSTEM)
            /\ q.buf[i].secondary # SecondaryCommand
            /\ Large(q, i) = Large(p, i)
            /\ Large(p, i) => /\ q.buf[i].first = p.buf[i].first
                              /\ q.buf[i].refill = p.buf[i].refill
                              /\ q.buf[i].sticky = p.buf[i].sticky
            /\ q.buf[i].refill = "directbuffer_refill" /\ ~Large(p, i) =>
                 q.buf[i].first = i /\ q.buf[i].secondary < BUFFER_SEC_SYSTEM

\* Such a change keeps the invariant when the count is right afterwards.
LEMMA SameUseInv ==
  ASSUME NEW p, PoolInv(p), NEW q, SameUse(p, q), CountsAgree(q)
  PROVE  PoolInv(q)
<1>1. \A i \in Slots : Large(q, i) = Large(p, i)
  BY DEF SameUse, Large
<1>3. OneCommandChannel(q)
  BY DEF SameUse, PoolInv, OneCommandChannel
<1>4. NextLinks(q)
  BY <1>1 DEF SameUse, PoolInv, NextLinks, Large
<1>5. FirstLinks(q)
  <2>1. SUFFICES ASSUME NEW i \in Slots, Large(q, i)
                 PROVE  /\ q.buf[i].first \in Slots /\ q.buf[i].first <= i
                        /\ Large(q, q.buf[i].first)
                        /\ q.buf[q.buf[i].first].first = q.buf[i].first
                        /\ \A k \in q.buf[i].first .. i - 1 : q.buf[k].next = k + 1
                        /\ q.buf[i].refill = "directbuffer_refill"
                        /\ q.buf[i].sticky = TRUE
                        /\ q.buf[i].secondary < BUFFER_SEC_SYSTEM
    BY DEF FirstLinks
  <2> DEFINE f == p.buf[i].first
  <2>2. Large(p, i) /\ p.buf[i].allocated
    BY <1>1, <2>1 DEF Large
  <2>3. /\ f \in Slots /\ f <= i /\ Large(p, f) /\ p.buf[f].first = f
        /\ \A k \in f .. i - 1 : p.buf[k].next = k + 1
        /\ p.buf[i].refill = "directbuffer_refill"
        /\ p.buf[i].sticky = TRUE
        /\ p.buf[i].secondary < BUFFER_SEC_SYSTEM
    BY <2>2 DEF PoolInv, FirstLinks
  <2>4. /\ q.buf[i].first = f /\ q.buf[i].refill = "directbuffer_refill"
        /\ q.buf[i].sticky = TRUE
        /\ q.buf[i].secondary < BUFFER_SEC_SYSTEM
    BY <2>2, <2>3 DEF SameUse
  <2>5. Large(q, f) /\ q.buf[f].first = f
    BY <1>1, <2>3 DEF SameUse, Large
  <2>6. ASSUME NEW k \in f .. i - 1 PROVE q.buf[k].next = k + 1
    <3>1. k \in Slots
      BY <2>3, <2>6, BufferCountAssumption DEF Slots
    <3>2. QED
      BY <2>3, <2>6, <3>1 DEF SameUse
  <2>7. QED
    BY <2>3, <2>4, <2>5, <2>6
<1>6. SingleLinks(q)
  BY <1>1 DEF SameUse, PoolInv, SingleLinks
<1>7. QED
  BY <1>3, <1>4, <1>5, <1>6 DEF PoolInv, SameUse

\* So does a change that does not touch active_buffers or a dirty flag.
LEMMA SameUseSameCount ==
  ASSUME NEW p, PoolInv(p), NEW q, SameUse(p, q), q.active = p.active,
         \A i \in Slots : p.buf[i].allocated => q.buf[i].dirty = p.buf[i].dirty
  PROVE  PoolInv(q)
<1>1. CountsAgree(p)
  BY DEF PoolInv
<1>2. CountsAgree(q)
  BY <1>1, SameCounts DEF SameUse
<1>3. QED
  BY <1>2, SameUseInv

\* A buffer that is in no chain before and after changes no chain.
LEMMA PlainSlot ==
  ASSUME NEW p, PoolInv(p), NEW q \in Pool, CountsAgree(q), NEW i \in Slots,
         ~Large(p, i), ~Large(q, i), q.buf[i].next = NULL,
         q.buf[i].allocated => q.buf[i].secondary # SecondaryCommand,
         q.buf[i].allocated /\ q.buf[i].refill = "directbuffer_refill" =>
           q.buf[i].first = i /\ q.buf[i].secondary < BUFFER_SEC_SYSTEM,
         \A k \in 0 .. BufferCount : k # i => q.buf[k] = p.buf[k]
  PROVE  PoolInv(q)
<1>1. \A k \in Slots : /\ k # i => q.buf[k] = p.buf[k]
                       /\ Large(q, k) = Large(p, k)
  BY BufferCountAssumption DEF Slots, Large
<1>2. OneCommandChannel(q)
  BY <1>1, BufferCountAssumption DEF OneCommandChannel, PoolInv, ErrorBuffer, Slots
<1>3. NextLinks(q)
  BY <1>1 DEF NextLinks, PoolInv
<1>4. FirstLinks(q)
  <2>1. SUFFICES ASSUME NEW j \in Slots, Large(q, j)
                 PROVE  /\ q.buf[j].first \in Slots /\ q.buf[j].first <= j
                        /\ Large(q, q.buf[j].first)
                        /\ q.buf[q.buf[j].first].first = q.buf[j].first
                        /\ \A k \in q.buf[j].first .. j - 1 : q.buf[k].next = k + 1
                        /\ q.buf[j].refill = "directbuffer_refill"
                        /\ q.buf[j].sticky = TRUE
                        /\ q.buf[j].secondary < BUFFER_SEC_SYSTEM
    BY DEF FirstLinks
  <2> DEFINE f == p.buf[j].first
  <2>2. Large(p, j) /\ j # i /\ q.buf[j] = p.buf[j]
    BY <1>1, <2>1
  <2>3. /\ f \in Slots /\ f <= j /\ Large(p, f) /\ p.buf[f].first = f
        /\ \A k \in f .. j - 1 : p.buf[k].next = k + 1
        /\ p.buf[j].refill = "directbuffer_refill"
        /\ p.buf[j].sticky = TRUE
        /\ p.buf[j].secondary < BUFFER_SEC_SYSTEM
    BY <2>2 DEF PoolInv, FirstLinks
  <2>4. Large(q, f) /\ f # i /\ q.buf[f] = p.buf[f]
    BY <1>1, <2>3
  <2>5. ASSUME NEW k \in f .. j - 1 PROVE q.buf[k].next = k + 1
    <3>1. k \in Slots /\ k + 1 # NULL
      BY <2>3, <2>5, BufferCountAssumption DEF Slots, NULL
    <3>2. p.buf[k].next = k + 1
      BY <2>3, <2>5
    <3>3. k # i
      BY <3>1, <3>2, PlainHasNoNext DEF PoolInv
    <3>4. QED
      BY <1>1, <3>1, <3>2, <3>3
  <2>6. QED
    BY <2>2, <2>3, <2>4, <2>5
<1>5. SingleLinks(q)
  BY <1>1 DEF SingleLinks, PoolInv
<1>6. QED
  BY <1>2, <1>3, <1>4, <1>5 DEF PoolInv

\* alloc_buffer keeps the invariant.
LEMMA AllocBufferInv ==
  ASSUME NEW p, PoolInv(p), FirstFree(p) # NULL
  PROVE  LET q == alloc_buffer(p)
         IN  /\ PoolInv(q) /\ FirstFree(p) \in Slots
             /\ q.buf = [p.buf EXCEPT ![FirstFree(p)] = FreshBuffer(0, NULL, NULL)]
             /\ BamsKept(p, q, {})
<1> DEFINE q == alloc_buffer(p)
           i == FirstFree(p)
           b == FreshBuffer(0, NULL, NULL)
<1>1. i \in Slots /\ ~p.buf[i].allocated /\ i \in 0 .. BufferCount
  BY FirstFreeSlot, BufferCountAssumption DEF Slots
<1>2. /\ b.secondary = 0 /\ b.refill = "callback_dummy" /\ b.next = NULL
      /\ b.cleanup = "callback_dummy"
  BY DEF FreshBuffer
<1>3. p \in Pool /\ CountsAgree(p)
  BY DEF PoolInv
<1>4. q \in Pool /\ CountsAgree(q) /\ q.buf = [p.buf EXCEPT ![i] = b]
  BY <1>3, AllocBuffer
<1> HIDE DEF q, i, b
<1>5. q.buf[i] = b /\ \A k \in 0 .. BufferCount : k # i => q.buf[k] = p.buf[k]
  BY <1>1, <1>3, <1>4 DEF Pool
<1>6. PoolInv(q)
  <2>1. ~Large(p, i) /\ ~Large(q, i)
    BY <1>1, <1>2, <1>5 DEF Large
  <2>2. /\ q.buf[i].next = NULL
        /\ q.buf[i].secondary # SecondaryCommand
        /\ q.buf[i].refill # "directbuffer_refill"
    BY <1>2, <1>5 DEF SecondaryCommand
  <2>3. QED
    BY <1>1, <1>4, <1>5, <2>1, <2>2, PlainSlot
<1>7. BamsKept(p, q, {})
  <2>1. i \notin BamSlots(p) /\ i \notin BamSlots(q)
    BY <1>1, <1>2, <1>5 DEF BamSlots, StickyBams, BamsKept, BUFFER_SYS_BAM
  <2>2. \A k \in Slots : k # i => q.buf[k] = p.buf[k]
    BY <1>5, BufferCountAssumption DEF Slots
  <2>3. QED
    BY <2>1, <2>2 DEF BamSlots, StickyBams, BamsKept
<1>8. QED
  BY <1>1, <1>4, <1>6, <1>7 DEF q, i, b

\* Writing the fields of an allocated buffer that is in no chain keeps the
\* invariant while it stays a user buffer, or stays a system buffer.
LEMMA SetPlain ==
  ASSUME NEW p, PoolInv(p), NEW i \in Slots, p.buf[i].allocated, ~Large(p, i),
         NEW b \in Buffer, b.allocated, b.dirty = p.buf[i].dirty,
         (b.secondary < BUFFER_SEC_SYSTEM) = (p.buf[i].secondary < BUFFER_SEC_SYSTEM),
         b.secondary # SecondaryCommand,
         b.cleanup # "largebuffer_cleanup", b.next = NULL,
         b.refill = "directbuffer_refill" =>
           b.first = i /\ b.secondary < BUFFER_SEC_SYSTEM
  PROVE  LET q == [p EXCEPT !.buf[i] = b]
         IN  /\ PoolInv(q)
             /\ q.buf = [p.buf EXCEPT ![i] = b]
<1> DEFINE q == [p EXCEPT !.buf[i] = b]
<1>1. p \in Pool /\ i \in 0 .. BufferCount /\ CountsAgree(p)
  BY BufferCountAssumption DEF PoolInv, Slots
<1>2. q \in Pool /\ q.active = p.active /\ q.buf = [p.buf EXCEPT ![i] = b]
  BY <1>1 DEF Pool
<1> HIDE DEF q
<1>3. q.buf[i] = b /\ \A k \in 0 .. BufferCount : k # i => q.buf[k] = p.buf[k]
  BY <1>1, <1>2 DEF Pool
<1>4. \A k \in Slots : k # i => q.buf[k] = p.buf[k]
  BY <1>3, BufferCountAssumption DEF Slots
<1>5. CountsAgree(q)
  <2>1. \A k \in Slots :
          /\ q.buf[k].allocated = p.buf[k].allocated
          /\ p.buf[k].allocated =>
               /\ q.buf[k].dirty = p.buf[k].dirty
               /\ (q.buf[k].secondary < BUFFER_SEC_SYSTEM)
                    = (p.buf[k].secondary < BUFFER_SEC_SYSTEM)
    <3>1. b.allocated = TRUE /\ p.buf[i].allocated = TRUE
      BY <1>1 DEF Pool, Buffer
    <3>2. QED
      BY <1>3, <1>4, <3>1
  <2>2. QED
    BY <1>1, <1>2, <2>1, SameCounts
<1>6. ~Large(q, i)
  BY <1>3 DEF Large
<1>7. PoolInv(q)
  BY <1>2, <1>3, <1>5, <1>6, PlainSlot
<1>8. QED
  BY <1>2, <1>7 DEF q

\* free_buffers keeps the invariant when it takes whole chains.
LEMMA FreeInv ==
  ASSUME NEW p, PoolInv(p), NEW M \in SUBSET Slots, WholeChains(p, M)
  PROVE  LET q == free_buffers(p, M)
         IN  /\ PoolInv(q)
             /\ \A i \in 0 .. BufferCount : i \notin M => q.buf[i] = p.buf[i]
             /\ \A i \in M : q.buf[i].allocated = FALSE
             /\ BamsKept(p, q, M)
<1> DEFINE q == free_buffers(p, M)
<1>1. /\ p \in Pool /\ CountsAgree(p)
      /\ \A i \in Slots : p.buf[i].allocated => p.buf[i].secondary # SecondaryCommand
  BY DEF PoolInv, OneCommandChannel
<1>2. /\ q \in Pool /\ CountsAgree(q)
      /\ \A i \in 0 .. BufferCount :
           q.buf[i] = IF i \in M /\ p.buf[i].allocated
                        THEN [ZeroBuffer EXCEPT !.dirty = p.buf[i].dirty]
                        ELSE p.buf[i]
  BY <1>1, FreeBuffers
<1> HIDE DEF q
<1>3. ASSUME NEW i \in Slots
      PROVE  /\ i \notin M => q.buf[i] = p.buf[i]
             /\ i \in M => q.buf[i].allocated = FALSE /\ q.buf[i].next = NULL
  <2>1. i \in 0 .. BufferCount /\ p.buf[i] \in Buffer
    BY <1>1, BufferCountAssumption DEF Slots, Pool
  <2>2. CASE i \in M /\ p.buf[i].allocated
    BY <1>2, <2>1, <2>2 DEF ZeroBuffer
  <2>3. CASE i \in M /\ ~p.buf[i].allocated
    <3>1. q.buf[i] = p.buf[i] /\ p.buf[i].allocated \in BOOLEAN
      BY <1>2, <2>1, <2>3 DEF Buffer
    <3>2. p.buf[i].next = NULL
      BY <2>3, PlainHasNoNext DEF PoolInv, Large
    <3>3. QED
      BY <2>3, <3>1, <3>2
  <2>4. CASE i \notin M
    BY <1>2, <2>1, <2>4
  <2>5. QED
    BY <2>2, <2>3, <2>4
<1>4. \A i \in Slots : Large(q, i) <=> (Large(p, i) /\ i \notin M)
  BY <1>3 DEF Large
<1>5. OneCommandChannel(q)
  <2>1. ErrorBuffer \in 0 .. BufferCount /\ ErrorBuffer \notin M
    BY BufferCountAssumption DEF ErrorBuffer, Slots
  <2>2. q.buf[ErrorBuffer] = ErrorChannel
    BY <1>2, <2>1 DEF PoolInv, OneCommandChannel
  <2>3. QED
    BY <1>1, <1>3, <2>2 DEF OneCommandChannel
<1>6. NextLinks(q)
  <2>1. SUFFICES ASSUME NEW i \in Slots, q.buf[i].next # NULL
                 PROVE  /\ Large(q, i)
                        /\ q.buf[i].next = i + 1 /\ i + 1 \in Slots
                        /\ Large(q, i + 1)
                        /\ q.buf[i + 1].first = q.buf[i].first
    BY DEF NextLinks
  <2>2. i \notin M /\ q.buf[i] = p.buf[i]
    BY <1>3, <2>1
  <2>3. /\ Large(p, i) /\ p.buf[i].next = i + 1 /\ i + 1 \in Slots
        /\ Large(p, i + 1) /\ p.buf[i + 1].first = p.buf[i].first
    BY <2>1, <2>2 DEF PoolInv, NextLinks
  <2>4. i + 1 \notin M
    BY <2>2, <2>3 DEF WholeChains
  <2>5. QED
    BY <1>3, <1>4, <2>2, <2>3, <2>4
<1>7. FirstLinks(q)
  <2>1. SUFFICES ASSUME NEW j \in Slots, Large(q, j)
                 PROVE  /\ q.buf[j].first \in Slots /\ q.buf[j].first <= j
                        /\ Large(q, q.buf[j].first)
                        /\ q.buf[q.buf[j].first].first = q.buf[j].first
                        /\ \A k \in q.buf[j].first .. j - 1 : q.buf[k].next = k + 1
                        /\ q.buf[j].refill = "directbuffer_refill"
                        /\ q.buf[j].sticky = TRUE
                        /\ q.buf[j].secondary < BUFFER_SEC_SYSTEM
    BY DEF FirstLinks
  <2> DEFINE f == p.buf[j].first
  <2>2. Large(p, j) /\ j \notin M /\ q.buf[j] = p.buf[j]
    BY <1>3, <1>4, <2>1
  <2>3. /\ f \in Slots /\ f <= j /\ Large(p, f) /\ p.buf[f].first = f
        /\ \A k \in f .. j - 1 : p.buf[k].next = k + 1
        /\ p.buf[j].refill = "directbuffer_refill"
        /\ p.buf[j].sticky = TRUE
        /\ p.buf[j].secondary < BUFFER_SEC_SYSTEM
    BY <2>2 DEF PoolInv, FirstLinks
  <2>4. f \notin M /\ q.buf[f] = p.buf[f] /\ Large(q, f)
    BY <1>3, <1>4, <2>2, <2>3 DEF WholeChains
  <2>5. ASSUME NEW k \in f .. j - 1 PROVE q.buf[k].next = k + 1
    <3>1. k \in Slots /\ k + 1 # NULL
      BY <2>3, <2>5, BufferCountAssumption DEF Slots, NULL
    <3>2. p.buf[k].next = k + 1
      BY <2>3, <2>5
    <3>3. Large(p, k)
      BY <3>1, <3>2 DEF PoolInv, NextLinks
    <3>4. k \in ChainOf(p, j)
      BY <2>3, <2>5, <3>1, BufferCountAssumption DEF ChainOf, Slots
    <3>5. p.buf[k].first = f
      BY <2>2, <3>4, ChainMembers DEF PoolInv
    <3>6. k \notin M
      BY <2>4, <3>1, <3>3, <3>5 DEF WholeChains
    <3>7. QED
      BY <1>3, <3>1, <3>2, <3>6
  <2>6. QED
    BY <2>2, <2>3, <2>4, <2>5
<1>8. SingleLinks(q)
  BY <1>3, <1>4 DEF SingleLinks, PoolInv
<1>9. PoolInv(q)
  BY <1>2, <1>5, <1>6, <1>7, <1>8 DEF PoolInv
<1>10. BamsKept(p, q, M)
  BY <1>3 DEF BamSlots, StickyBams, BamsKept
<1>11. \A i \in 0 .. BufferCount : i \notin M => q.buf[i] = p.buf[i]
  BY <1>2
<1>12. QED
  BY <1>3, <1>9, <1>10, <1>11 DEF q

\* The sets the callers free hold whole chains: a buffer in no chain, the user
\* buffers, all buffers, and the buffers that are not sticky.
LEMMA FreedSetsAreWhole ==
  ASSUME NEW p, PoolInv(p)
  PROVE  /\ \A M \in SUBSET Slots : (\A i \in M : ~Large(p, i)) => WholeChains(p, M)
         /\ FMB_USER(p) \subseteq Slots /\ WholeChains(p, FMB_USER(p))
         /\ FMB_ALL(p) \subseteq Slots /\ WholeChains(p, FMB_ALL(p))
         /\ FMB_UNSTICKY(p) \subseteq Slots /\ WholeChains(p, FMB_UNSTICKY(p))
<1>1. \A i \in Slots : Large(p, i) =>
        /\ p.buf[i].first \in Slots /\ Large(p, p.buf[i].first)
        /\ p.buf[i].sticky = TRUE /\ p.buf[i].secondary < BUFFER_SEC_SYSTEM
  BY DEF PoolInv, FirstLinks
<1>2. ASSUME NEW M \in SUBSET Slots, \A i \in M : ~Large(p, i)
      PROVE  WholeChains(p, M)
  BY <1>1, <1>2 DEF WholeChains
<1>3. FMB_USER(p) \subseteq Slots /\ WholeChains(p, FMB_USER(p))
  BY <1>1 DEF WholeChains, FMB_USER, Selected, Large
<1>4. FMB_ALL(p) \subseteq Slots /\ WholeChains(p, FMB_ALL(p))
  BY <1>1 DEF WholeChains, FMB_ALL, Selected, Large
<1>5. FMB_UNSTICKY(p) \subseteq Slots /\ WholeChains(p, FMB_UNSTICKY(p))
  BY <1>1 DEF WholeChains, FMB_UNSTICKY, Selected, Large
<1>6. QED
  BY <1>2, <1>3, <1>4, <1>5

-----------------------------------------------------------------------------
(* Dirty marks.                                                            *)

\* Clearing the dirty flags of C and taking them off the count.
LEMMA CleanCounts ==
  ASSUME NEW p \in Pool, CountsAgree(p), NEW q, NEW C \in SUBSET Slots,
         \A i \in C : p.buf[i].allocated /\ q.buf[i].dirty = FALSE,
         \A i \in Slots :
           /\ q.buf[i].allocated = p.buf[i].allocated
           /\ q.buf[i].secondary = p.buf[i].secondary
           /\ i \notin C => q.buf[i].dirty = p.buf[i].dirty,
         q.active = (p.active - 16 * Cardinality({i \in C : p.buf[i].dirty})) % 256
  PROVE  CountsAgree(q) /\ q.active \in 0 .. 255
<1> DEFINE D == {i \in C : p.buf[i].dirty}
<1>1. Users(q) = Users(p)
  BY DEF Users
<1>2. D \subseteq Dirty(p) /\ Dirty(q) = Dirty(p) \ D
  BY DEF Dirty
<1>3. IsFiniteSet(D) /\ Cardinality(D) \in Nat
  BY <1>2, FinitePool, FS_Subset, FS_CardinalityType
<1> HIDE DEF D
<1>4. Cardinality(Dirty(q)) = Cardinality(Dirty(p)) - Cardinality(D)
  <2>1. IsFiniteSet(Dirty(p))
    BY FinitePool
  <2>2. Cardinality(Dirty(p) \ D) = Cardinality(Dirty(p)) - Cardinality(D)
    BY <1>2, <2>1, CardinalityMinus
  <2>3. QED
    BY <1>2, <2>2, Zenon
<1>5. q.active = (p.active - 16 * Cardinality(D)) % 256
  BY DEF D
<1>6. CountsAgree(q)
  BY <1>1, <1>3, <1>4, <1>5, FinitePool, ByteAdd DEF CountsAgree
<1>7. p.active - 16 * Cardinality(D) \in Int
  <2>1. p.active \in Int
    BY PoolActive
  <2>2. QED
    BY <1>3, <2>1
<1>8. QED
  BY <1>5, <1>6, <1>7, ByteAdd

\* The dirty flag aside, q has the buffers of p.
OnlyDirtyChanged(p, q) ==
  \A k \in Slots : /\ q.buf[k].allocated = p.buf[k].allocated
                   /\ q.buf[k].secondary = p.buf[k].secondary
                   /\ q.buf[k].first = p.buf[k].first
                   /\ q.buf[k].next = p.buf[k].next
                   /\ q.buf[k].refill = p.buf[k].refill
                   /\ q.buf[k].cleanup = p.buf[k].cleanup
                   /\ q.buf[k].sticky = p.buf[k].sticky

\* Such a change leaves every buffer in its use.
LEMMA OnlyDirtySameUse ==
  ASSUME NEW p, PoolInv(p), NEW q \in Pool, OnlyDirtyChanged(p, q),
         q.buf[ErrorBuffer] = p.buf[ErrorBuffer]
  PROVE  SameUse(p, q) /\ BamsKept(p, q, {})
<1>1. \A k \in Slots : Large(q, k) = Large(p, k)
  BY DEF OnlyDirtyChanged, Large
<1>2. \A k \in Slots : p.buf[k].allocated => p.buf[k].secondary # SecondaryCommand
  BY DEF PoolInv, OneCommandChannel
<1>3. \A k \in Slots :
        p.buf[k].allocated /\ p.buf[k].refill = "directbuffer_refill" /\ ~Large(p, k)
          => p.buf[k].first = k /\ p.buf[k].secondary < BUFFER_SEC_SYSTEM
  BY DEF PoolInv, SingleLinks
<1>4. BamsKept(p, q, {})
  BY DEF OnlyDirtyChanged, BamSlots, StickyBams, BamsKept
<1>5. QED
  BY <1>1, <1>2, <1>3, <1>4 DEF OnlyDirtyChanged, SameUse

\* Setting the secondary address of a buffer.
LEMMA SetSecondary ==
  ASSUME NEW c \in Buffer, NEW x \in 0 .. 255
  PROVE  LET d == [c EXCEPT !.secondary = x]
         IN  /\ d \in Buffer /\ d.secondary = x
             /\ d.allocated = c.allocated /\ d.dirty = c.dirty
             /\ d.first = c.first /\ d.next = c.next
             /\ d.refill = c.refill /\ d.cleanup = c.cleanup
             /\ d.sticky = c.sticky
BY DEF Buffer

\* Setting the dirty flag of a buffer.
LEMMA SetDirtyFlag ==
  ASSUME NEW c \in Buffer, NEW x \in BOOLEAN
  PROVE  /\ [c EXCEPT !.dirty = x] \in Buffer
         /\ [c EXCEPT !.dirty = x].dirty = x
BY DEF Buffer

\* mark_buffer_dirty keeps the invariant and leaves every other flag alone.
LEMMA MarkDirtyInv ==
  ASSUME NEW p, PoolInv(p), NEW i \in Slots, p.buf[i].allocated
  PROVE  LET q == mark_buffer_dirty(p, i)
         IN  /\ PoolInv(q) /\ BamsKept(p, q, {})
             /\ OnlyDirtyChanged(p, q)
<1> DEFINE q == mark_buffer_dirty(p, i)
           b == [p.buf[i] EXCEPT !.dirty = TRUE]
<1>1. p \in Pool /\ CountsAgree(p) /\ i \in 0 .. BufferCount
  BY BufferCountAssumption DEF PoolInv, Slots
<1>2. CASE p.buf[i].dirty
  <2>1. q = p
    BY <1>2 DEF mark_buffer_dirty
  <2>2. QED
    BY <2>1 DEF OnlyDirtyChanged, BamsKept
<1>3. CASE ~p.buf[i].dirty
  <2>1. q = [p EXCEPT !.buf[i].dirty = TRUE, !.active = (@ + 16) % 256,
                      !.dirty_led = TRUE]
    BY <1>3 DEF mark_buffer_dirty
  <2>2. b \in Buffer /\ b.dirty = TRUE
    <3>1. p.buf[i] \in Buffer
      BY <1>1, PoolFields
    <3>2. QED
      BY <3>1, SetDirtyFlag
  <2> HIDE DEF q
  <2>3. q = [buf |-> [p.buf EXCEPT ![i] = b], active |-> (p.active + 16) % 256,
             busy_led |-> p.busy_led, dirty_led |-> TRUE]
    BY <1>1, <2>1 DEF Pool
  <2>4. q.buf = [p.buf EXCEPT ![i] = b] /\ q.active = (p.active + 16) % 256
    BY <2>3
  <2>5. q \in Pool
    <3>1. [p.buf EXCEPT ![i] = b] \in [0 .. BufferCount -> Buffer]
      BY <1>1, <2>2, PoolFields
    <3>2. p.active \in Int /\ p.busy_led \in BOOLEAN
      BY <1>1, PoolActive
    <3>3. p.active + 16 \in Int
      BY <3>2
    <3>4. (p.active + 16) % 256 \in 0 .. 255
      BY <3>3, ByteAdd
    <3>5. QED
      BY <2>3, <3>1, <3>2, <3>4, PoolRecord
  <2>6. q.buf[i] = b /\ \A k \in 0 .. BufferCount : k # i => q.buf[k] = p.buf[k]
    BY <1>1, <2>4 DEF Pool
  <2>7. OnlyDirtyChanged(p, q)
    <3>1. \A k \in Slots : k \in 0 .. BufferCount /\ p.buf[k] \in Buffer
      BY <1>1, BufferCountAssumption DEF Pool, Slots
    <3>2. QED
      BY <2>6, <3>1 DEF Buffer, OnlyDirtyChanged
  <2>8. i \notin Dirty(p) /\ Dirty(q) = Dirty(p) \cup {i} /\ Users(q) = Users(p)
    <3>1. i \notin Dirty(p) /\ i \in Dirty(q)
      BY <1>3, <2>2, <2>6, <2>7 DEF Dirty, OnlyDirtyChanged
    <3>2. \A k \in Slots : k # i => q.buf[k] = p.buf[k]
      BY <2>6, BufferCountAssumption DEF Slots
    <3>3. Dirty(q) = Dirty(p) \cup {i}
      BY <3>1, <3>2 DEF Dirty
    <3>4. QED
      BY <2>7, <3>1, <3>3 DEF Users, OnlyDirtyChanged
  <2>9. Cardinality(Dirty(q)) = Cardinality(Dirty(p)) + 1
    BY <2>8, FS_AddElement, FinitePool
  <2>10. CountsAgree(q)
    BY <1>1, <2>4, <2>8, <2>9, FinitePool, ByteAdd DEF CountsAgree
  <2>11. q.buf[ErrorBuffer] = p.buf[ErrorBuffer]
    BY <2>6, BufferCountAssumption DEF ErrorBuffer, Slots
  <2>12. SameUse(p, q) /\ BamsKept(p, q, {})
    BY <2>5, <2>7, <2>11, OnlyDirtySameUse
  <2>13. QED
    BY <2>7, <2>10, <2>12, SameUseInv DEF q
<1>4. QED
  BY <1>2, <1>3

\* mark_buffer_clean keeps the invariant and leaves every other flag alone.
LEMMA MarkCleanInv ==
  ASSUME NEW p, PoolInv(p), NEW i \in Slots, p.buf[i].allocated
  PROVE  LET q == mark_buffer_clean(p, i)
         IN  /\ PoolInv(q) /\ BamsKept(p, q, {})
             /\ OnlyDirtyChanged(p, q)
<1> DEFINE q == mark_buffer_clean(p, i)
           b == [p.buf[i] EXCEPT !.dirty = FALSE]
           a == (p.active - 16) % 256
<1>1. p \in Pool /\ CountsAgree(p) /\ i \in 0 .. BufferCount
  BY BufferCountAssumption DEF PoolInv, Slots
<1>2. CASE ~p.buf[i].dirty
  <2>1. q = p
    BY <1>2 DEF mark_buffer_clean
  <2>2. QED
    BY <2>1 DEF OnlyDirtyChanged, BamsKept
<1>3. CASE p.buf[i].dirty
  <2>1. q = [p EXCEPT !.buf[i].dirty = FALSE, !.active = a,
                      !.dirty_led = IF a \div 16 = 0 THEN FALSE ELSE @]
    BY <1>3 DEF mark_buffer_clean
  <2>2. b \in Buffer /\ b.dirty = FALSE
    <3>1. p.buf[i] \in Buffer
      BY <1>1, PoolFields
    <3>2. QED
      BY <3>1, SetDirtyFlag
  <2>3. a \in 0 .. 255 /\ p.active \in Int /\ p.busy_led \in BOOLEAN
        /\ (IF a \div 16 = 0 THEN FALSE ELSE p.dirty_led) \in BOOLEAN
    <3>1. p.active \in Int /\ p.busy_led \in BOOLEAN /\ p.dirty_led \in BOOLEAN
      BY <1>1, PoolActive
    <3>2. p.active - 16 \in Int
      BY <3>1
    <3>3. a \in 0 .. 255
      BY <3>2, ByteAdd
    <3>4. QED
      BY <3>1, <3>3
  <2> HIDE DEF q, a
  <2>4. q = [buf |-> [p.buf EXCEPT ![i] = b], active |-> a, busy_led |-> p.busy_led,
             dirty_led |-> IF a \div 16 = 0 THEN FALSE ELSE p.dirty_led]
    BY <1>1, <2>1 DEF Pool
  <2>5. q.buf = [p.buf EXCEPT ![i] = b] /\ q.active = a
    BY <2>4
  <2>6. q \in Pool
    <3>1. [p.buf EXCEPT ![i] = b] \in [0 .. BufferCount -> Buffer]
      BY <1>1, <2>2, PoolFields
    <3>2. QED
      BY <2>3, <2>4, <3>1, PoolRecord
  <2>7. q.buf[i] = b /\ \A k \in 0 .. BufferCount : k # i => q.buf[k] = p.buf[k]
    BY <1>1, <2>5 DEF Pool
  <2>8. OnlyDirtyChanged(p, q)
    <3>1. \A k \in Slots : k \in 0 .. BufferCount /\ p.buf[k] \in Buffer
      BY <1>1, BufferCountAssumption DEF Pool, Slots
    <3>2. QED
      BY <2>7, <3>1 DEF Buffer, OnlyDirtyChanged
  <2>9. CountsAgree(q)
    <3>1. {k \in {i} : p.buf[k].dirty} = {i}
      BY <1>3
    <3>2. Cardinality({k \in {i} : p.buf[k].dirty}) = 1
      BY <3>1, FS_Singleton, Zenon
    <3>3. q.active = (p.active - 16 * Cardinality({k \in {i} : p.buf[k].dirty})) % 256
      <4>1. q.active = (p.active - 16 * 1) % 256
        BY <2>3, <2>5 DEF a
      <4>2. QED
        BY <3>2, <4>1, Zenon
    <3>4. \A k \in Slots : k # i => q.buf[k].dirty = p.buf[k].dirty
      BY <2>7, BufferCountAssumption DEF Slots
    <3>5. \A k \in Slots : /\ q.buf[k].allocated = p.buf[k].allocated
                           /\ q.buf[k].secondary = p.buf[k].secondary
                           /\ k \notin {i} => q.buf[k].dirty = p.buf[k].dirty
      BY <2>8, <3>4 DEF OnlyDirtyChanged
    <3>6. \A k \in {i} : p.buf[k].allocated /\ q.buf[k].dirty = FALSE
      BY <2>2, <2>7
    <3>7. {i} \in SUBSET Slots
      OBVIOUS
    <3>8. QED
      BY <1>1, <3>3, <3>5, <3>6, <3>7, CleanCounts
  <2>10. q.buf[ErrorBuffer] = p.buf[ErrorBuffer]
    BY <2>7, BufferCountAssumption DEF ErrorBuffer, Slots
  <2>11. SameUse(p, q) /\ BamsKept(p, q, {})
    BY <2>6, <2>8, <2>10, OnlyDirtySameUse
  <2>12. QED
    BY <2>8, <2>9, <2>11, SameUseInv DEF q
<1>4. QED
  BY <1>2, <1>3

-----------------------------------------------------------------------------
(* Large buffers.                                                          *)

\* Passing the address sa of a direct access buffer to another user buffer of
\* its chain keeps the invariant: both stay user buffers.
LEMMA ActivateInv ==
  ASSUME NEW p, PoolInv(p), NEW i \in Slots, NEW j \in Slots,
         p.buf[i].allocated, p.buf[i].secondary \in 0 .. 14,
         p.buf[j].allocated, p.buf[j].secondary < BUFFER_SEC_SYSTEM
  PROVE  LET q == Activate(p, i, j)
         IN  /\ PoolInv(q) /\ BamsKept(p, q, {})
             /\ q.buf[j].allocated /\ q.buf[j].secondary = p.buf[i].secondary
<1> DEFINE sec == p.buf[i].secondary
           q == Activate(p, i, j)
           other == (BUFFER_SEC_CHAIN - sec) % 256
           bs == [k \in 0 .. BufferCount |->
                    IF k = j THEN [p.buf[k] EXCEPT !.secondary = sec]
                    ELSE IF k = i THEN [p.buf[k] EXCEPT !.secondary = other]
                    ELSE p.buf[k]]
<1>1. p \in Pool /\ CountsAgree(p) /\ i \in 0 .. BufferCount /\ j \in 0 .. BufferCount
  BY BufferCountAssumption DEF PoolInv, Slots
<1>2. /\ other \in 0 .. 255 /\ other \in Int /\ other >= 85 /\ other < 100
      /\ sec \in 0 .. 255 /\ sec \in Int /\ sec >= 0 /\ sec <= 14
  BY DEF BUFFER_SEC_CHAIN
<1>3. q = [p EXCEPT !.buf = bs]
  BY DEF Activate
<1> HIDE DEF other, q, sec
<1>4. \A k \in 0 .. BufferCount : p.buf[k] \in Buffer
  BY <1>1, PoolFields
<1>5. \A k \in 0 .. BufferCount :
        /\ [p.buf[k] EXCEPT !.secondary = sec] \in Buffer
        /\ [p.buf[k] EXCEPT !.secondary = other] \in Buffer
  BY <1>2, <1>4, SetSecondary
<1>6. bs \in [0 .. BufferCount -> Buffer]
  BY <1>4, <1>5
<1>7. q \in Pool /\ q.buf = bs /\ q.active = p.active
  BY <1>1, <1>3, <1>6 DEF Pool
<1>8. \A k \in 0 .. BufferCount :
        /\ q.buf[k].allocated = p.buf[k].allocated
        /\ q.buf[k].dirty = p.buf[k].dirty
        /\ q.buf[k].first = p.buf[k].first
        /\ q.buf[k].next = p.buf[k].next
        /\ q.buf[k].refill = p.buf[k].refill
        /\ q.buf[k].cleanup = p.buf[k].cleanup
        /\ q.buf[k].sticky = p.buf[k].sticky
        /\ k # i /\ k # j => q.buf[k] = p.buf[k]
        /\ k = j => q.buf[k].secondary = sec
        /\ k = i /\ k # j => q.buf[k].secondary = other
  <2>1. SUFFICES ASSUME NEW k \in 0 .. BufferCount
                 PROVE  /\ q.buf[k].allocated = p.buf[k].allocated
                        /\ q.buf[k].dirty = p.buf[k].dirty
                        /\ q.buf[k].first = p.buf[k].first
                        /\ q.buf[k].next = p.buf[k].next
                        /\ q.buf[k].refill = p.buf[k].refill
                        /\ q.buf[k].cleanup = p.buf[k].cleanup
                        /\ q.buf[k].sticky = p.buf[k].sticky
                        /\ k # i /\ k # j => q.buf[k] = p.buf[k]
                        /\ k = j => q.buf[k].secondary = sec
                        /\ k = i /\ k # j => q.buf[k].secondary = other
    OBVIOUS
  <2>2. q.buf[k] = IF k = j THEN [p.buf[k] EXCEPT !.secondary = sec]
                   ELSE IF k = i THEN [p.buf[k] EXCEPT !.secondary = other]
                   ELSE p.buf[k]
    BY <1>7
  <2>3. CASE k = j
    <3>1. p.buf[k] \in Buffer /\ q.buf[k] = [p.buf[k] EXCEPT !.secondary = sec]
      BY <1>4, <2>2, <2>3
    <3>2. QED
      BY <1>2, <2>3, <3>1 DEF Buffer
  <2>4. CASE k = i /\ k # j
    <3>1. p.buf[k] \in Buffer /\ q.buf[k] = [p.buf[k] EXCEPT !.secondary = other]
      BY <1>4, <2>2, <2>4
    <3>2. QED
      BY <1>2, <2>4, <3>1 DEF Buffer
  <2>5. CASE k # i /\ k # j
    BY <2>2, <2>5
  <2>6. QED
    BY <2>3, <2>4, <2>5
<1> HIDE DEF bs
<1>9. \A k \in Slots : Large(q, k) = Large(p, k)
  BY <1>8, BufferCountAssumption DEF Large, Slots
<1>10. \A k \in Slots : p.buf[k].allocated =>
         /\ (q.buf[k].secondary < BUFFER_SEC_SYSTEM)
              = (p.buf[k].secondary < BUFFER_SEC_SYSTEM)
         /\ q.buf[k].secondary # SecondaryCommand
         /\ (q.buf[k].secondary = BUFFER_SYS_BAM) = (p.buf[k].secondary = BUFFER_SYS_BAM)
  <2>1. SUFFICES ASSUME NEW k \in Slots, p.buf[k].allocated
                 PROVE  /\ (q.buf[k].secondary < 100) = (p.buf[k].secondary < 100)
                        /\ q.buf[k].secondary # 15
                        /\ (q.buf[k].secondary = 101) = (p.buf[k].secondary = 101)
    BY DEF BUFFER_SEC_SYSTEM, SecondaryCommand, BUFFER_SYS_BAM
  <2>2. k \in 0 .. BufferCount /\ p.buf[k].secondary # 15
    BY <2>1, BufferCountAssumption DEF PoolInv, OneCommandChannel, SecondaryCommand, Slots
  <2>3. CASE k # i /\ k # j
    BY <1>8, <2>2, <2>3
  <2>4. CASE k = j
    <3>1. q.buf[k].secondary = sec /\ p.buf[k].secondary < 100
          /\ p.buf[k].secondary \in Int
      <4>1. p.buf[k].secondary \in 0 .. 255
        BY <1>4, <2>2 DEF Buffer
      <4>2. q.buf[k].secondary = sec
        BY <1>8, <2>2, <2>4
      <4>3. p.buf[k].secondary < 100
        BY <2>4 DEF BUFFER_SEC_SYSTEM
      <4>4. QED
        BY <4>1, <4>2, <4>3
    <3>2. QED
      BY <1>2, <3>1
  <2>5. CASE k = i /\ k # j
    <3>1. q.buf[k].secondary = other /\ p.buf[k].secondary = sec
      BY <1>8, <2>2, <2>5 DEF sec
    <3>2. QED
      BY <1>2, <3>1
  <2>6. QED
    BY <2>3, <2>4, <2>5
<1>11. q.buf[ErrorBuffer] = p.buf[ErrorBuffer]
  BY <1>8, BufferCountAssumption DEF ErrorBuffer, Slots
<1>12. SameUse(p, q)
  <2>1. \A k \in Slots : k \in 0 .. BufferCount
    BY BufferCountAssumption DEF Slots
  <2>2. \A k \in Slots :
          p.buf[k].allocated /\ p.buf[k].refill = "directbuffer_refill" /\ ~Large(p, k)
            => p.buf[k].first = k /\ p.buf[k].secondary < BUFFER_SEC_SYSTEM
    BY DEF PoolInv, SingleLinks
  <2>3. QED
    BY <1>7, <1>8, <1>9, <1>10, <1>11, <2>1, <2>2 DEF SameUse
<1>13. PoolInv(q)
  <2>1. \A k \in Slots : q.buf[k].dirty = p.buf[k].dirty
    BY <1>8, BufferCountAssumption DEF Slots
  <2>2. QED
    BY <1>7, <1>12, <2>1, SameUseSameCount
<1>14. BamsKept(p, q, {})
  <2>1. \A k \in Slots : q.buf[k].allocated = p.buf[k].allocated
    BY <1>12 DEF SameUse
  <2>2. \A k \in Slots : q.buf[k].sticky = p.buf[k].sticky
    BY <1>8, BufferCountAssumption DEF Slots
  <2>3. QED
    BY <1>8, <1>10, <2>1, <2>2 DEF BamSlots, StickyBams, BamsKept
<1>15. QED
  BY <1>1, <1>8, <1>13, <1>14 DEF q, sec

\* The size of a run of slots.
LEMMA RunSize ==
  ASSUME NEW s \in Int, NEW count \in Int, count >= 1
  PROVE  /\ IsFiniteSet(s .. s + count - 1)
         /\ Cardinality(s .. s + count - 1) = count
<1> DEFINE e == s + count - 1
<1>1. e \in Int /\ ~(s > e) /\ e - s + 1 = count
  OBVIOUS
<1> HIDE DEF e
<1>2. IsFiniteSet(s .. e) /\ Cardinality(s .. e) = count
  BY <1>1, FS_Interval
<1>3. QED
  BY <1>2 DEF e

\* The size of a finite set and a disjoint other one.
LEMMA CardinalityPlus ==
  ASSUME NEW S, NEW T, IsFiniteSet(S), IsFiniteSet(T), S \cap T = {}
  PROVE  Cardinality(S \cup T) = Cardinality(S) + Cardinality(T)
<1>1. Cardinality(S) \in Nat /\ Cardinality(T) \in Nat /\ Cardinality({}) = 0
  BY FS_CardinalityType, FS_EmptySet
<1>2. Cardinality(S \cup T) = Cardinality(S) + Cardinality(T) - Cardinality(S \cap T)
  BY FS_Union
<1>3. Cardinality(S \cap T) = 0
  BY <1>1, Zenon
<1>4. QED
  BY <1>1, <1>2, <1>3

\* A new chain in a run of free slots keeps the invariant.
LEMMA NewChain ==
  ASSUME NEW p, PoolInv(p), NEW r \in Pool, NEW s \in Slots, NEW count \in 1 .. 255,
         s + count <= BufferCount,
         \A i \in s .. s + count - 1 : ~p.buf[i].allocated,
         \A i \in s .. s + count - 1 :
           /\ r.buf[i].allocated = TRUE /\ r.buf[i].dirty = FALSE
           /\ r.buf[i].sticky = TRUE
           /\ r.buf[i].cleanup = "largebuffer_cleanup"
           /\ r.buf[i].refill = "directbuffer_refill"
           /\ r.buf[i].first = s
           /\ r.buf[i].next = IF i = s + count - 1 THEN NULL ELSE i + 1
           /\ r.buf[i].secondary < BUFFER_SEC_SYSTEM
           /\ r.buf[i].secondary # SecondaryCommand,
         \A i \in 0 .. BufferCount : i \notin s .. s + count - 1 => r.buf[i] = p.buf[i],
         r.active = (p.active + count) % 256
  PROVE  PoolInv(r) /\ BamsKept(p, r, {})
<1> DEFINE R == s .. s + count - 1
<1>1. p \in Pool /\ CountsAgree(p)
  BY DEF PoolInv
<1>2. /\ s \in Int /\ count \in Int /\ s >= 0 /\ count >= 1 /\ BufferCount \in Int
      /\ R \subseteq Slots /\ s \in R
      /\ \A i \in R : i \in Int /\ i >= s /\ i <= s + count - 1
  BY BufferCountAssumption DEF Slots
<1>3. \A i \in Slots : i \in 0 .. BufferCount /\ i \in Int
  BY BufferCountAssumption DEF Slots
<1>4. \A i \in Slots : /\ i \notin R => r.buf[i] = p.buf[i]
                       /\ Large(r, i) <=> (Large(p, i) \/ i \in R)
                       /\ i \in R => ~Large(p, i) /\ p.buf[i].next = NULL
  <2>1. \A i \in Slots : i \notin R => r.buf[i] = p.buf[i]
    BY <1>3
  <2>2. \A i \in R : Large(r, i) /\ ~Large(p, i)
    BY <1>2 DEF Large
  <2>3. \A i \in R : p.buf[i].next = NULL
    BY <1>2, <2>2, PlainHasNoNext DEF PoolInv
  <2>4. QED
    BY <2>1, <2>2, <2>3 DEF Large
<1>5. CountsAgree(r)
  <2>1. Users(r) = Users(p) \cup R /\ Users(p) \cap R = {} /\ Dirty(r) = Dirty(p)
    <3>1. \A i \in R : i \in Users(r) /\ i \notin Users(p)
                         /\ i \notin Dirty(r) /\ i \notin Dirty(p)
      BY <1>2 DEF Users, Dirty
    <3>2. \A i \in Slots \ R : (i \in Users(r)) = (i \in Users(p))
                                 /\ (i \in Dirty(r)) = (i \in Dirty(p))
      BY <1>4 DEF Users, Dirty
    <3>3. Users(r) \subseteq Slots /\ Users(p) \subseteq Slots
          /\ Dirty(r) \subseteq Slots /\ Dirty(p) \subseteq Slots
      BY DEF Users, Dirty
    <3> HIDE DEF R
    <3>4. QED
      BY <1>2, <3>1, <3>2, <3>3
  <2>2. IsFiniteSet(R) /\ Cardinality(R) = count
    BY <1>2, RunSize
  <2>3. IsFiniteSet(Users(p)) /\ Cardinality(Users(p)) \in Nat
        /\ Cardinality(Dirty(p)) \in Nat
    BY FinitePool
  <2> HIDE DEF R
  <2>4. Cardinality(Users(r)) = Cardinality(Users(p)) + count
    BY <1>2, <2>1, <2>2, <2>3, CardinalityPlus
  <2>5. QED
    BY <1>1, <1>2, <2>1, <2>3, <2>4, ByteAdd DEF CountsAgree
<1>6. OneCommandChannel(r)
  <2>1. ErrorBuffer \in 0 .. BufferCount /\ ErrorBuffer \notin R
    BY <1>2 DEF ErrorBuffer
  <2>2. r.buf[ErrorBuffer] = ErrorChannel
    BY <2>1 DEF PoolInv, OneCommandChannel
  <2>3. QED
    BY <1>4, <2>2 DEF PoolInv, OneCommandChannel
<1>7. NextLinks(r)
  <2>1. SUFFICES ASSUME NEW i \in Slots, r.buf[i].next # NULL
                 PROVE  /\ Large(r, i)
                        /\ r.buf[i].next = i + 1 /\ i + 1 \in Slots
                        /\ Large(r, i + 1)
                        /\ r.buf[i + 1].first = r.buf[i].first
    BY DEF NextLinks
  <2>2. CASE i \in R
    <3>1. i # s + count - 1 /\ r.buf[i].next = i + 1 /\ r.buf[i].first = s
      BY <2>1, <2>2
    <3>2. i + 1 \in R
      BY <1>2, <2>2, <3>1
    <3>3. QED
      BY <1>2, <1>4, <2>2, <3>1, <3>2
  <2>3. CASE i \notin R
    <3>1. r.buf[i] = p.buf[i]
      BY <1>4, <2>3
    <3>2. /\ Large(p, i) /\ p.buf[i].next = i + 1 /\ i + 1 \in Slots
          /\ Large(p, i + 1) /\ p.buf[i + 1].first = p.buf[i].first
      BY <2>1, <3>1 DEF PoolInv, NextLinks
    <3>3. i + 1 \notin R
      BY <1>4, <3>2
    <3>4. QED
      BY <1>4, <3>1, <3>2, <3>3
  <2>4. QED
    BY <2>2, <2>3
<1>8. FirstLinks(r)
  <2>1. SUFFICES ASSUME NEW j \in Slots, Large(r, j)
                 PROVE  /\ r.buf[j].first \in Slots /\ r.buf[j].first <= j
                        /\ Large(r, r.buf[j].first)
                        /\ r.buf[r.buf[j].first].first = r.buf[j].first
                        /\ \A k \in r.buf[j].first .. j - 1 : r.buf[k].next = k + 1
                        /\ r.buf[j].refill = "directbuffer_refill"
                        /\ r.buf[j].sticky = TRUE
                        /\ r.buf[j].secondary < BUFFER_SEC_SYSTEM
    BY DEF FirstLinks
  <2>2. CASE j \in R
    <3>1. r.buf[j].first = s /\ s <= j /\ Large(r, s) /\ r.buf[s].first = s
      BY <1>2, <1>4, <2>2
    <3>2. ASSUME NEW k \in s .. j - 1 PROVE r.buf[k].next = k + 1
      <4>1. k \in R /\ k # s + count - 1
        BY <1>2, <2>2, <3>2
      <4>2. QED
        BY <4>1
    <3>3. QED
      BY <2>2, <3>1, <3>2
  <2>3. CASE j \notin R
    <3> DEFINE f == p.buf[j].first
    <3>1. r.buf[j] = p.buf[j] /\ Large(p, j)
      BY <1>4, <2>1, <2>3
    <3>2. /\ f \in Slots /\ f <= j /\ Large(p, f) /\ p.buf[f].first = f
          /\ \A k \in f .. j - 1 : p.buf[k].next = k + 1
          /\ p.buf[j].refill = "directbuffer_refill"
          /\ p.buf[j].sticky = TRUE
          /\ p.buf[j].secondary < BUFFER_SEC_SYSTEM
      BY <3>1 DEF PoolInv, FirstLinks
    <3>3. f \notin R /\ r.buf[f] = p.buf[f] /\ Large(r, f)
      BY <1>4, <3>2
    <3>4. ASSUME NEW k \in f .. j - 1 PROVE r.buf[k].next = k + 1
      <4>1. k \in Slots /\ k + 1 # NULL
        BY <3>2, <3>4, BufferCountAssumption DEF Slots, NULL
      <4>2. p.buf[k].next = k + 1
        BY <3>2, <3>4
      <4>3. QED
        BY <1>4, <4>1, <4>2
    <3>5. QED
      BY <3>1, <3>2, <3>3, <3>4
  <2>4. QED
    BY <2>2, <2>3
<1>9. SingleLinks(r)
  BY <1>4 DEF SingleLinks, PoolInv
<1>10. BamsKept(p, r, {})
  <2>1. \A i \in R : i \notin BamSlots(r) /\ i \notin BamSlots(p)
    <3>1. \A i \in R : r.buf[i].secondary < 100
      BY DEF BUFFER_SEC_SYSTEM
    <3>2. QED
      BY <1>2, <3>1 DEF BamSlots, StickyBams, BamsKept, BUFFER_SYS_BAM
  <2>2. QED
    BY <1>4, <2>1 DEF BamSlots, StickyBams, BamsKept
<1>11. QED
  BY <1>5, <1>6, <1>7, <1>8, <1>9, <1>10 DEF PoolInv
=============================================================================
