---------------------------- MODULE ChannelsProofs ----------------------------
(***************************************************************************)
(* Every handler of Channels keeps the pool's invariant, for every size of *)
(* the pool, every set of secondary addresses, names, partitions and chain *)
(* sizes, and for both buses; then one lemma for each group of actions,    *)
(* and the theorems.                                                       *)
(***************************************************************************)
EXTENDS Channels, BufferPoolProofs

\* A pool that keeps PoolInv and whose BAM buffers are B, all sticky.
Good(p, B) == PoolInv(p) /\ BamSlots(p) = B /\ StickyBams(p) = B

-----------------------------------------------------------------------------
(* Operations on the pool.                                                 *)

\* A change that keeps the BAM buffers keeps a pool good.
LEMMA KeptIsGood ==
  ASSUME NEW p, NEW q, NEW B, Good(p, B), PoolInv(q), BamsKept(p, q, {})
  PROVE  Good(q, B)
BY DEF Good, BamsKept

\* Freeing user buffers of whole chains.
LEMMA FreeUsersGood ==
  ASSUME NEW p, NEW B, Good(p, B), NEW M \in SUBSET Slots, WholeChains(p, M),
         \A i \in M : i \notin B
  PROVE  /\ Good(free_buffers(p, M), B)
         /\ \A i \in 0 .. BufferCount : i \notin M => free_buffers(p, M).buf[i] = p.buf[i]
         /\ \A i \in M : free_buffers(p, M).buf[i].allocated = FALSE
<1> DEFINE q == free_buffers(p, M)
<1>1. PoolInv(p)
  BY DEF Good
<1>2. /\ PoolInv(q) /\ BamsKept(p, q, M)
      /\ \A i \in 0 .. BufferCount : i \notin M => q.buf[i] = p.buf[i]
      /\ \A i \in M : q.buf[i].allocated = FALSE
  BY <1>1, FreeInv
<1>3. Good(q, B)
  BY <1>2 DEF Good, BamsKept
<1>4. QED
  BY <1>2, <1>3

\* What free_buffers was asked to free is free.
LEMMA FreedIsFree ==
  ASSUME NEW p, PoolInv(p), NEW M \in SUBSET Slots, WholeChains(p, M), NEW i \in M
  PROVE  free_buffers(p, M).buf[i].allocated = FALSE
BY FreeInv

\* Freeing one user buffer that is in no chain.
LEMMA FreeOneGood ==
  ASSUME NEW p, NEW B, Good(p, B), NEW i \in Slots, ~Large(p, i), i \notin B
  PROVE  /\ Good(free_buffer(p, i), B)
         /\ free_buffer(p, i).buf[i].allocated = FALSE
         /\ \A k \in 0 .. BufferCount : k # i => free_buffer(p, i).buf[k] = p.buf[k]
<1>1. {i} \in SUBSET Slots /\ WholeChains(p, {i})
  BY FreedSetsAreWhole DEF Good
<1>2. QED
  BY <1>1, FreeUsersGood DEF free_buffer

\* free_buffer leaves the other buffers alone.
LEMMA FreeElsewhere ==
  ASSUME NEW p, PoolInv(p), NEW i \in Slots, ~Large(p, i),
         NEW k \in 0 .. BufferCount, k # i
  PROVE  free_buffer(p, i).buf[k] = p.buf[k]
<1>1. {i} \in SUBSET Slots /\ WholeChains(p, {i}) /\ k \notin {i}
  BY FreedSetsAreWhole
<1>2. QED
  BY <1>1, FreeInv DEF free_buffer

\* The garbage collection of BUS_CLEANUP spares the BAM buffers.
LEMMA EndCommandGood ==
  ASSUME NEW p, NEW B, Good(p, B)
  PROVE  Good(EndCommand(p), B)
<1>1. FMB_UNSTICKY(p) \in SUBSET Slots /\ WholeChains(p, FMB_UNSTICKY(p))
  BY FreedSetsAreWhole DEF Good
<1>2. \A i \in FMB_UNSTICKY(p) : i \notin B
  BY DEF Good, StickyBams, FMB_UNSTICKY, Selected
<1>3. QED
  BY <1>1, <1>2, FreeUsersGood DEF EndCommand

\* A user buffer is no BAM buffer.
LEMMA UserIsNoBam ==
  ASSUME NEW p, NEW B, Good(p, B), NEW i \in Slots,
         p.buf[i].allocated => p.buf[i].secondary < BUFFER_SEC_SYSTEM
  PROVE  i \notin B
BY DEF Good, BamSlots, BUFFER_SEC_SYSTEM, BUFFER_SYS_BAM

\* find_buffer finds a user buffer for an address of the host.
LEMMA FindUser ==
  ASSUME NEW p, NEW B, Good(p, B), NEW sa \in 0 .. 14, find_buffer(p, sa) # NULL
  PROVE  /\ find_buffer(p, sa) \in Slots
         /\ p.buf[find_buffer(p, sa)].allocated
         /\ p.buf[find_buffer(p, sa)].secondary = sa
         /\ find_buffer(p, sa) \notin B
<1> DEFINE b == find_buffer(p, sa)
<1>1. b \in 0 .. BufferCount /\ p.buf[b].allocated /\ p.buf[b].secondary = sa
  BY FindBufferHolds
<1> HIDE DEF b
<1>2. p.buf[ErrorBuffer].secondary = 15
  BY DEF Good, PoolInv, OneCommandChannel, ErrorChannel, SecondaryCommand
<1>3. b # BufferCount
  BY <1>1, <1>2 DEF ErrorBuffer
<1>4. b \in Slots
  BY <1>1, <1>3, BufferCountAssumption DEF Slots
<1>5. p.buf[b].secondary < BUFFER_SEC_SYSTEM
  BY <1>1 DEF BUFFER_SEC_SYSTEM
<1>6. b \notin B
  BY <1>4, <1>5, UserIsNoBam
<1>7. QED
  BY <1>1, <1>4, <1>6 DEF b

\* A buffer that holds an address is found.
LEMMA HolderIsFound ==
  ASSUME NEW p, NEW sa, NEW i \in Slots, p.buf[i].allocated, p.buf[i].secondary = sa
  PROVE  find_buffer(p, sa) # NULL
<1>1. i \in Holders(p, sa)
  BY BufferCountAssumption DEF Holders, Slots
<1>2. QED
  BY <1>1, FindBufferNull

\* directbuffer_refill moves the address within the chain.
LEMMA DirectRefillGood ==
  ASSUME NEW p, NEW B, Good(p, B), NEW i \in Slots, p.buf[i].allocated,
         p.buf[i].secondary \in 0 .. 14, p.buf[i].refill = "directbuffer_refill"
  PROVE  /\ Good(directbuffer_refill(p, i), B)
         /\ find_buffer(directbuffer_refill(p, i), p.buf[i].secondary) # NULL
<1> DEFINE j == IF p.buf[i].next = NULL THEN p.buf[i].first ELSE p.buf[i].next
<1>1. j \in Slots /\ p.buf[j].allocated /\ p.buf[j].secondary < BUFFER_SEC_SYSTEM
  <2>1. NextLinks(p) /\ FirstLinks(p) /\ SingleLinks(p)
    BY DEF Good, PoolInv
  <2>2. CASE p.buf[i].next # NULL
    <3>1. i + 1 \in Slots /\ Large(p, i + 1) /\ j = i + 1
      BY <2>1, <2>2 DEF NextLinks
    <3>2. p.buf[i + 1].secondary < BUFFER_SEC_SYSTEM
      BY <2>1, <3>1 DEF FirstLinks
    <3>3. QED
      BY <3>1, <3>2 DEF Large
  <2>3. CASE p.buf[i].next = NULL /\ Large(p, i)
    <3>1. j \in Slots /\ Large(p, j)
      BY <2>1, <2>3 DEF FirstLinks
    <3>2. p.buf[j].secondary < BUFFER_SEC_SYSTEM
      BY <2>1, <3>1 DEF FirstLinks
    <3>3. QED
      BY <3>1, <3>2 DEF Large
  <2>4. CASE p.buf[i].next = NULL /\ ~Large(p, i)
    <3>1. j = i /\ p.buf[i].secondary < BUFFER_SEC_SYSTEM
      BY <2>1, <2>4 DEF SingleLinks
    <3>2. QED
      BY <3>1
  <2>5. QED
    BY <2>2, <2>3, <2>4
<1>2. directbuffer_refill(p, i) = Activate(p, i, j)
  BY DEF directbuffer_refill
<1> HIDE DEF j
<1> DEFINE q == Activate(p, i, j)
<1>3. PoolInv(p)
  BY DEF Good
<1>4. /\ PoolInv(q) /\ BamsKept(p, q, {})
      /\ q.buf[j].allocated /\ q.buf[j].secondary = p.buf[i].secondary
  BY <1>1, <1>3, ActivateInv
<1> HIDE DEF q
<1>5. Good(q, B)
  BY <1>4, KeptIsGood
<1>6. find_buffer(q, p.buf[i].secondary) # NULL
  BY <1>1, <1>4, HolderIsFound
<1>7. QED
  BY <1>2, <1>5, <1>6 DEF q

\* The members of a chain have directbuffer_refill for callback.
LEMMA OtherRefillIsPlain ==
  ASSUME NEW p, PoolInv(p), NEW i \in Slots, p.buf[i].refill # "directbuffer_refill"
  PROVE  ~Large(p, i)
BY DEF PoolInv, FirstLinks

\* buf->refill(buf): the pool stays good, and the channel keeps a buffer
\* unless the callback has freed it.
LEMMA RefillGood ==
  ASSUME NEW p, NEW B, Good(p, B), NEW i \in Slots, p.buf[i].allocated,
         p.buf[i].secondary \in 0 .. 14, NEW fault
  PROVE  LET q == refill(p, i, fault)
         IN  /\ Good(q, B)
             /\ \/ find_buffer(q, p.buf[i].secondary) # NULL
                \/ q.buf[i].allocated = FALSE
<1> DEFINE q == refill(p, i, fault)
           sa == p.buf[i].secondary
<1>1. PoolInv(p) /\ i \notin B
  <2>1. p.buf[i].secondary < BUFFER_SEC_SYSTEM
    BY DEF BUFFER_SEC_SYSTEM
  <2>2. QED
    BY <2>1, UserIsNoBam DEF Good
<1>2. CASE p.buf[i].refill = "directbuffer_refill"
  <2>1. q = directbuffer_refill(p, i)
    BY <1>2 DEF refill
  <2>2. QED
    BY <1>2, <2>1, DirectRefillGood
<1>3. CASE p.buf[i].refill # "directbuffer_refill"
  <2>1. ~Large(p, i)
    BY <1>1, <1>3, OtherRefillIsPlain
  <2>2. q = free_buffer(p, i) \/ q = mark_buffer_clean(p, i) \/ q = p
    BY <1>3 DEF refill
  <2>3. CASE q = free_buffer(p, i)
    <3>1. Good(free_buffer(p, i), B) /\ free_buffer(p, i).buf[i].allocated = FALSE
      BY <1>1, <2>1, FreeOneGood
    <3>2. QED
      BY <2>3, <3>1
  <2>4. CASE q = mark_buffer_clean(p, i)
    <3>1. PoolInv(q) /\ BamsKept(p, q, {}) /\ OnlyDirtyChanged(p, q)
      BY <1>1, <2>4, MarkCleanInv
    <3> HIDE DEF q
    <3>2. q.buf[i].allocated /\ q.buf[i].secondary = sa
      BY <3>1 DEF OnlyDirtyChanged
    <3>3. find_buffer(q, sa) # NULL
      BY <3>2, HolderIsFound
    <3>4. QED
      BY <3>1, <3>3, KeptIsGood DEF q
  <2>5. CASE q = p
    <3>1. find_buffer(p, sa) # NULL
      BY HolderIsFound
    <3>2. QED
      BY <2>5, <3>1
  <2>6. QED
    BY <2>2, <2>3, <2>4, <2>5
<1>4. QED
  BY <1>2, <1>3

\* q has the buffers of p in all slots but i.
SameBut(p, q, i) == \A k \in Slots : k # i => q.buf[k] = p.buf[k]

\* Replacing the cleanup callback of a buffer in no chain by the dummy.
LEMMA DummyCleanupGood ==
  ASSUME NEW p, NEW B, Good(p, B), NEW i \in Slots, p.buf[i].allocated, ~Large(p, i)
  PROVE  LET q == [p EXCEPT !.buf[i].cleanup = "callback_dummy"]
         IN  /\ Good(q, B) /\ q.buf[i].allocated /\ ~Large(q, i)
             /\ q.buf[i].secondary = p.buf[i].secondary /\ SameBut(p, q, i)
<1> DEFINE b == [p.buf[i] EXCEPT !.cleanup = "callback_dummy"]
           q == [p EXCEPT !.buf[i] = b]
<1>1. PoolInv(p) /\ p \in Pool /\ i \in 0 .. BufferCount
  BY BufferCountAssumption DEF Good, PoolInv, Slots
<1>2. p.buf[i] \in Buffer
  BY <1>1, PoolFields
<1>3. /\ b \in Buffer /\ b.cleanup = "callback_dummy"
      /\ b.allocated = p.buf[i].allocated /\ b.dirty = p.buf[i].dirty
      /\ b.secondary = p.buf[i].secondary /\ b.refill = p.buf[i].refill
      /\ b.first = p.buf[i].first /\ b.next = p.buf[i].next
      /\ b.sticky = p.buf[i].sticky
  BY <1>2 DEF Buffer, Cleanups
<1>4. [p EXCEPT !.buf[i].cleanup = "callback_dummy"] = q
  OBVIOUS
<1> HIDE DEF b, q
<1>5. /\ b.next = NULL /\ b.secondary # SecondaryCommand /\ b.allocated
      /\ b.cleanup # "largebuffer_cleanup"
      /\ b.refill = "directbuffer_refill" =>
           b.first = i /\ b.secondary < BUFFER_SEC_SYSTEM
  <2>1. p.buf[i].next = NULL
    BY <1>1, PlainHasNoNext DEF PoolInv
  <2>2. QED
    BY <1>1, <1>3, <2>1 DEF PoolInv, OneCommandChannel, SingleLinks
<1>6. PoolInv(q) /\ q.buf = [p.buf EXCEPT ![i] = b]
  BY <1>1, <1>3, <1>5, SetPlain DEF q
<1>7. q.buf[i] = b /\ \A k \in Slots : k # i => q.buf[k] = p.buf[k]
  BY <1>1, <1>6, BufferCountAssumption DEF Pool, Slots
<1>8. BamsKept(p, q, {})
  <2>1. \A k \in Slots : /\ q.buf[k].allocated = p.buf[k].allocated
                         /\ q.buf[k].secondary = p.buf[k].secondary
                         /\ q.buf[k].sticky = p.buf[k].sticky
    BY <1>3, <1>7
  <2>2. QED
    BY <2>1 DEF BamsKept, BamSlots, StickyBams
<1>9. Good(q, B)
  BY <1>6, <1>8, KeptIsGood
<1>10. QED
  BY <1>3, <1>4, <1>5, <1>7, <1>9 DEF Large, SameBut

\* buf->cleanup(buf) on a user buffer, and the buffer is no chain's afterwards.
LEMMA CleanupGood ==
  ASSUME NEW p, NEW B, Good(p, B), NEW i \in Slots, p.buf[i].allocated,
         p.buf[i].secondary < BUFFER_SEC_SYSTEM, NEW fault
  PROVE  Good(cleanup(p, i, fault), B) /\ ~Large(cleanup(p, i, fault), i)
<1> DEFINE q == cleanup(p, i, fault)
<1>1. PoolInv(p) /\ i \notin B
  BY UserIsNoBam DEF Good
<1>2. CASE Large(p, i)
  <2>1. q = free_buffers(p, ChainOf(p, i))
    BY <1>2 DEF cleanup, Large, largebuffer_cleanup
  <2>2. WholeChains(p, ChainOf(p, i)) /\ i \in ChainOf(p, i)
    BY <1>1, <1>2, ChainIsWhole DEF PoolInv
  <2>3. ChainOf(p, i) \in SUBSET Slots
    BY DEF ChainOf
  <2>4. ASSUME NEW j \in ChainOf(p, i) PROVE j \notin B
    <3>1. j \in Slots /\ Large(p, j)
      BY <1>1, <1>2, <2>4, ChainMembers DEF PoolInv
    <3>2. p.buf[j].secondary < BUFFER_SEC_SYSTEM
      BY <1>1, <3>1 DEF PoolInv, FirstLinks
    <3>3. QED
      BY <3>1, <3>2, UserIsNoBam
  <2>5. Good(q, B) /\ q.buf[i].allocated = FALSE
    <3> DEFINE M == ChainOf(p, i)
               r == free_buffers(p, M)
    <3>1. M \in SUBSET Slots /\ WholeChains(p, M) /\ \A j \in M : j \notin B
      BY <2>2, <2>3, <2>4
    <3>2. i \in M /\ q = r
      BY <2>1, <2>2
    <3> HIDE DEF M, q
    <3>3. Good(r, B)
      BY <3>1, FreeUsersGood
    <3>4. r.buf[i].allocated = FALSE
      BY <1>1, <3>1, <3>2, FreedIsFree
    <3>5. QED
      BY <3>2, <3>3, <3>4
  <2>6. QED
    BY <2>5 DEF Large
<1>3. CASE ~Large(p, i)
  <2>1. \/ q = free_buffer(p, i)
        \/ q = [mark_buffer_clean(p, i) EXCEPT !.buf[i].cleanup = "callback_dummy"]
        \/ q = free_buffer([p EXCEPT !.buf[i].cleanup = "callback_dummy"], i)
        \/ q = p
    BY <1>3 DEF cleanup, Large
  <2>2. CASE q = free_buffer(p, i)
    <3>1. Good(free_buffer(p, i), B) /\ free_buffer(p, i).buf[i].allocated = FALSE
      BY <1>1, <1>3, FreeOneGood
    <3>2. QED
      BY <2>2, <3>1 DEF Large
  <2>3. CASE q = [mark_buffer_clean(p, i) EXCEPT !.buf[i].cleanup = "callback_dummy"]
    <3> DEFINE c == mark_buffer_clean(p, i)
    <3>1. PoolInv(c) /\ BamsKept(p, c, {}) /\ OnlyDirtyChanged(p, c)
      BY <1>1, MarkCleanInv
    <3> HIDE DEF c
    <3>2. Good(c, B)
      BY <3>1, KeptIsGood
    <3>3. c.buf[i].allocated /\ ~Large(c, i)
      BY <1>3, <3>1 DEF OnlyDirtyChanged, Large
    <3>4. QED
      BY <2>3, <3>2, <3>3, DummyCleanupGood DEF c
  <2>4. CASE q = free_buffer([p EXCEPT !.buf[i].cleanup = "callback_dummy"], i)
    <3> DEFINE c == [p EXCEPT !.buf[i].cleanup = "callback_dummy"]
    <3>1. Good(c, B) /\ ~Large(c, i)
      BY <1>3, DummyCleanupGood
    <3> HIDE DEF c
    <3>2. Good(free_buffer(c, i), B) /\ free_buffer(c, i).buf[i].allocated = FALSE
      BY <1>1, <3>1, FreeOneGood
    <3>3. QED
      BY <2>4, <3>2 DEF c, Large
  <2>5. CASE q = p
    BY <1>3, <2>5
  <2>6. QED
    BY <2>1, <2>2, <2>3, <2>4, <2>5
<1>4. QED
  BY <1>2, <1>3

\* The cleanup of a plain buffer turns no other buffer into a member of a chain.
LEMMA PlainCleanupElsewhere ==
  ASSUME NEW p, NEW B, Good(p, B), NEW i \in Slots, p.buf[i].allocated, ~Large(p, i),
         NEW k \in Slots, k # i, ~Large(p, k), NEW fault
  PROVE  ~Large(cleanup(p, i, fault), k)
<1> DEFINE q == cleanup(p, i, fault)
           c == [p EXCEPT !.buf[i].cleanup = "callback_dummy"]
           m == mark_buffer_clean(p, i)
<1>1. PoolInv(p) /\ k \in 0 .. BufferCount
  BY BufferCountAssumption DEF Good, Slots
<1>2. \/ q = free_buffer(p, i)
      \/ q = [m EXCEPT !.buf[i].cleanup = "callback_dummy"]
      \/ q = free_buffer(c, i)
      \/ q = p
  BY DEF cleanup, Large
<1>3. CASE q = free_buffer(p, i)
  <2>1. free_buffer(p, i).buf[k] = p.buf[k]
    BY <1>1, FreeElsewhere
  <2>2. QED
    BY <1>3, <2>1 DEF Large
<1>4. CASE q = [m EXCEPT !.buf[i].cleanup = "callback_dummy"]
  <2>1. PoolInv(m) /\ BamsKept(p, m, {}) /\ OnlyDirtyChanged(p, m)
    BY <1>1, MarkCleanInv
  <2> HIDE DEF m
  <2>2. Good(m, B) /\ m.buf[i].allocated /\ ~Large(m, i) /\ ~Large(m, k)
    BY <2>1, KeptIsGood DEF OnlyDirtyChanged, Large
  <2> DEFINE r == [m EXCEPT !.buf[i].cleanup = "callback_dummy"]
  <2>3. SameBut(m, r, i)
    BY <2>2, DummyCleanupGood
  <2> HIDE DEF r
  <2>4. ~Large(r, k)
    BY <2>2, <2>3 DEF SameBut, Large
  <2>5. QED
    BY <1>4, <2>4 DEF r
<1>5. CASE q = free_buffer(c, i)
  <2>1. Good(c, B) /\ ~Large(c, i) /\ SameBut(p, c, i)
    BY DummyCleanupGood
  <2> HIDE DEF c
  <2>2. free_buffer(c, i).buf[k] = c.buf[k]
    BY <1>1, <2>1, FreeElsewhere DEF Good
  <2>3. QED
    BY <1>5, <2>1, <2>2 DEF SameBut, Large
<1>6. CASE q = p
  BY <1>6
<1>7. QED
  BY <1>2, <1>3, <1>4, <1>5, <1>6

\* Closing a channel keeps the pool good.
LEMMA CleanupAndFreeGood ==
  ASSUME NEW p, NEW B, Good(p, B), NEW sa \in 0 .. 14, NEW fault
  PROVE  Good(cleanup_and_free(p, sa, fault), B)
<1> DEFINE b == find_buffer(p, sa)
<1>1. CASE b = NULL
  BY <1>1 DEF cleanup_and_free
<1>2. CASE b # NULL
  <2>1. b \in Slots /\ p.buf[b].allocated /\ p.buf[b].secondary = sa /\ b \notin B
    BY <1>2, FindUser
  <2>2. p.buf[b].secondary < BUFFER_SEC_SYSTEM
    BY <2>1 DEF BUFFER_SEC_SYSTEM
  <2>3. cleanup_and_free(p, sa, fault) = free_buffer(cleanup(p, b, fault), b)
    BY <1>2 DEF cleanup_and_free
  <2> HIDE DEF b
  <2>4. Good(cleanup(p, b, fault), B) /\ ~Large(cleanup(p, b, fault), b)
    BY <2>1, <2>2, CleanupGood
  <2>5. Good(free_buffer(cleanup(p, b, fault), b), B)
    BY <2>1, <2>4, FreeOneGood
  <2>6. QED
    BY <2>3, <2>5
<1>3. QED
  BY <1>1, <1>2

\* Clearing the dirty flag and the cleanup callback of a buffer.
LEMMA FlushedBuffer ==
  ASSUME NEW c \in Buffer
  PROVE  LET d == [c EXCEPT !.dirty = FALSE, !.cleanup = "callback_dummy"]
         IN  /\ d \in Buffer /\ d.dirty = FALSE /\ d.cleanup = "callback_dummy"
             /\ d.allocated = c.allocated /\ d.secondary = c.secondary
             /\ d.first = c.first /\ d.next = c.next
             /\ d.refill = c.refill /\ d.sticky = c.sticky
BY DEF Buffer, Cleanups

\* free_multiple_buffers(FMB_USER_CLEAN) keeps the pool good, whichever of the
\* cleanup callbacks fail or are skipped, and leaves the system buffers.
UsersFreed(p, r, B) ==
  /\ Good(r, B)
  /\ \A i \in Slots : i \notin FMB_USER(p) => r.buf[i] = p.buf[i]
  /\ \A i \in FMB_USER(p) : r.buf[i].allocated = FALSE

LEMMA FreeUserCleanIs ==
  ASSUME NEW p, NEW B, Good(p, B), NEW fails
  PROVE  UsersFreed(p, free_user_clean(p, fails), B)
<1> DEFINE M == FMB_USER(p)
           C == {i \in Cleaned(M, fails) \ fails : p.buf[i].cleanup = "fat_file_close"}
           bs == [i \in 0 .. BufferCount |->
                    IF i \in C THEN [p.buf[i] EXCEPT !.dirty = FALSE,
                                                     !.cleanup = "callback_dummy"]
                               ELSE p.buf[i]]
           a == (p.active - 16 * Cardinality({i \in C : p.buf[i].dirty})) % 256
           q == [p EXCEPT !.buf = bs, !.active = a]
<1>1. PoolInv(p) /\ p \in Pool /\ CountsAgree(p)
  BY DEF Good, PoolInv
<1>2. free_user_clean(p, fails) = free_buffers(q, M)
  BY DEF free_user_clean
<1>3. /\ C \in SUBSET Slots /\ \A i \in C : p.buf[i].allocated /\ ~Large(p, i)
      /\ M \in SUBSET Slots /\ WholeChains(p, M) /\ \A i \in M : i \notin B
      /\ C \subseteq M
  <2>1. M \in SUBSET Slots /\ WholeChains(p, M)
    BY <1>1, FreedSetsAreWhole
  <2>2. /\ C \in SUBSET Slots /\ C \subseteq M
        /\ \A i \in C : p.buf[i].allocated /\ ~Large(p, i)
    BY <2>1 DEF Cleaned, FMB_USER, Selected, Large
  <2>3. \A i \in M : i \in Slots /\ p.buf[i].secondary < BUFFER_SEC_SYSTEM
    BY DEF FMB_USER, Selected
  <2>4. QED
    BY <2>1, <2>2, <2>3, UserIsNoBam
<1> HIDE DEF C, M
<1>4. \A i \in 0 .. BufferCount : p.buf[i] \in Buffer
  BY <1>1, PoolFields
<1>5. bs \in [0 .. BufferCount -> Buffer]
  BY <1>4, FlushedBuffer
<1>6. ASSUME NEW i \in 0 .. BufferCount
      PROVE  /\ bs[i].allocated = p.buf[i].allocated
             /\ bs[i].secondary = p.buf[i].secondary
             /\ bs[i].first = p.buf[i].first /\ bs[i].next = p.buf[i].next
             /\ bs[i].refill = p.buf[i].refill /\ bs[i].sticky = p.buf[i].sticky
             /\ i \notin C => bs[i] = p.buf[i]
             /\ i \in C => bs[i].dirty = FALSE /\ bs[i].cleanup = "callback_dummy"
  <2>1. p.buf[i] \in Buffer
    BY <1>4
  <2>2. CASE i \in C
    <3>1. bs[i] = [p.buf[i] EXCEPT !.dirty = FALSE, !.cleanup = "callback_dummy"]
      BY <2>2
    <3>2. QED
      BY <2>1, <2>2, <3>1 DEF Buffer
  <2>3. CASE i \notin C
    BY <2>3
  <2>4. QED
    BY <2>2, <2>3
<1> HIDE DEF bs, a
<1>7. a \in 0 .. 255
  <2> DEFINE D == {i \in C : p.buf[i].dirty}
  <2>1. D \subseteq Slots
    BY <1>3
  <2>2. Cardinality(D) \in Nat
    BY <2>1, FinitePool, FS_Subset, FS_CardinalityType
  <2>3. p.active \in Int
    BY <1>1, PoolActive
  <2>4. a = (p.active - 16 * Cardinality(D)) % 256
    BY DEF a
  <2> HIDE DEF D
  <2>5. p.active - 16 * Cardinality(D) \in Int
    BY <2>2, <2>3
  <2>6. QED
    BY <2>4, <2>5, ByteAdd
<1>8. q \in Pool /\ q.buf = bs /\ q.active = a
  BY <1>1, <1>5, <1>7 DEF Pool
<1> HIDE DEF q
<1>9. ASSUME NEW i \in Slots
      PROVE  /\ q.buf[i].allocated = p.buf[i].allocated
             /\ q.buf[i].secondary = p.buf[i].secondary
             /\ q.buf[i].first = p.buf[i].first /\ q.buf[i].next = p.buf[i].next
             /\ q.buf[i].refill = p.buf[i].refill /\ q.buf[i].sticky = p.buf[i].sticky
             /\ i \notin C => q.buf[i] = p.buf[i]
             /\ i \in C => q.buf[i].dirty = FALSE /\ q.buf[i].cleanup = "callback_dummy"
  <2>1. i \in 0 .. BufferCount
    BY BufferCountAssumption DEF Slots
  <2>2. QED
    BY <1>6, <1>8, <2>1
<1>10. CountsAgree(q)
  <2>1. \A i \in C : p.buf[i].allocated /\ q.buf[i].dirty = FALSE
    BY <1>3, <1>9
  <2>2. \A i \in Slots : /\ q.buf[i].allocated = p.buf[i].allocated
                         /\ q.buf[i].secondary = p.buf[i].secondary
                         /\ i \notin C => q.buf[i].dirty = p.buf[i].dirty
    BY <1>9
  <2>3. q.active = (p.active - 16 * Cardinality({i \in C : p.buf[i].dirty})) % 256
    BY <1>8 DEF a
  <2>4. C \in SUBSET Slots
    BY <1>3
  <2>5. QED
    BY <1>1, <2>1, <2>2, <2>3, <2>4, CleanCounts
<1>11. \A i \in Slots : Large(q, i) = Large(p, i)
  BY <1>3, <1>9 DEF Large
<1>12. SameUse(p, q)
  <2>1. q.buf[ErrorBuffer] = p.buf[ErrorBuffer]
    <3>1. ErrorBuffer \in 0 .. BufferCount /\ ErrorBuffer \notin C
      BY <1>3, BufferCountAssumption DEF ErrorBuffer, Slots
    <3>2. QED
      BY <1>6, <1>8, <3>1
  <2>2. \A i \in Slots :
          /\ p.buf[i].allocated => p.buf[i].secondary # SecondaryCommand
          /\ p.buf[i].allocated /\ p.buf[i].refill = "directbuffer_refill"
               /\ ~Large(p, i)
             => p.buf[i].first = i /\ p.buf[i].secondary < BUFFER_SEC_SYSTEM
    BY <1>1 DEF PoolInv, OneCommandChannel, SingleLinks
  <2>3. \A i \in Slots : /\ q.buf[i].allocated = p.buf[i].allocated
                         /\ q.buf[i].secondary = p.buf[i].secondary
                         /\ q.buf[i].first = p.buf[i].first
                         /\ q.buf[i].next = p.buf[i].next
                         /\ q.buf[i].refill = p.buf[i].refill
                         /\ q.buf[i].sticky = p.buf[i].sticky
    BY <1>9
  <2>4. QED
    BY <1>8, <1>11, <2>1, <2>2, <2>3 DEF SameUse
<1>13. PoolInv(q)
  BY <1>1, <1>10, <1>12, SameUseInv
<1>14. BamsKept(p, q, {})
  <2>1. \A i \in Slots : /\ q.buf[i].allocated = p.buf[i].allocated
                         /\ q.buf[i].secondary = p.buf[i].secondary
                         /\ q.buf[i].sticky = p.buf[i].sticky
    BY <1>9
  <2>2. QED
    BY <2>1 DEF BamsKept, BamSlots, StickyBams
<1>15. Good(q, B)
  BY <1>13, <1>14, KeptIsGood
<1>16. WholeChains(q, M)
  <2>1. \A i \in Slots : q.buf[i].first = p.buf[i].first
    BY <1>9
  <2>2. QED
    BY <1>3, <1>11, <2>1 DEF WholeChains
<1>17. /\ Good(free_buffers(q, M), B)
       /\ \A i \in 0 .. BufferCount : i \notin M => free_buffers(q, M).buf[i] = q.buf[i]
       /\ \A i \in M : free_buffers(q, M).buf[i].allocated = FALSE
  <2>1. M \in SUBSET Slots /\ \A i \in M : i \notin B
    BY <1>3
  <2>2. QED
    BY <1>15, <1>16, <2>1, FreeUsersGood, Zenon
<1>18. \A i \in Slots : i \notin M => free_buffers(q, M).buf[i] = p.buf[i]
  <2>1. \A i \in Slots : i \in 0 .. BufferCount
    BY BufferCountAssumption DEF Slots
  <2>2. QED
    BY <1>3, <1>9, <1>17, <2>1
<1>19. QED
  BY <1>2, <1>17, <1>18 DEF q, M, UsersFreed

LEMMA FreeUserCleanGood ==
  ASSUME NEW p, NEW B, Good(p, B), NEW fails
  PROVE  LET r == free_user_clean(p, fails)
         IN  /\ Good(r, B)
             /\ \A i \in Slots : i \notin FMB_USER(p) => r.buf[i] = p.buf[i]
             /\ \A i \in FMB_USER(p) : r.buf[i].allocated = FALSE
<1>1. UsersFreed(p, free_user_clean(p, fails), B)
  BY FreeUserCleanIs
<1>2. QED
  BY <1>1 DEF UsersFreed

\* alloc_buffer keeps the pool good and hands out a clean plain user buffer.
LEMMA AllocGood ==
  ASSUME NEW p, NEW B, Good(p, B), FirstFree(p) # NULL
  PROVE  LET i == FirstFree(p)
             q == alloc_buffer(p)
         IN  /\ Good(q, B) /\ i \in Slots
             /\ q.buf[i] = FreshBuffer(0, NULL, NULL)
             /\ \A k \in Slots : k # i => q.buf[k] = p.buf[k]
<1> DEFINE i == FirstFree(p)
           q == alloc_buffer(p)
           b == FreshBuffer(0, NULL, NULL)
<1>1. PoolInv(p) /\ p \in Pool
  BY DEF Good, PoolInv
<1>2. PoolInv(q) /\ i \in Slots /\ q.buf = [p.buf EXCEPT ![i] = b] /\ BamsKept(p, q, {})
  BY <1>1, AllocBufferInv
<1> HIDE DEF i, q, b
<1>3. Good(q, B)
  BY <1>2, KeptIsGood
<1>4. q.buf[i] = b /\ \A k \in Slots : k # i => q.buf[k] = p.buf[k]
  BY <1>1, <1>2, BufferCountAssumption DEF Pool, Slots
<1>5. QED
  BY <1>2, <1>3, <1>4 DEF i, q, b

\* q is p with b in slot i.
Writes(p, q, i, b) == /\ q \in Pool /\ q.active = p.active /\ q.buf[i] = b
                      /\ \A k \in 0 .. BufferCount : k # i => q.buf[k] = p.buf[k]

\* Buffer i is a plain buffer of channel sa.
ChannelBuffer(p, i, sa) ==
  p.buf[i].allocated /\ ~Large(p, i) /\ p.buf[i].secondary = sa

\* A clean plain user buffer may be made another clean plain user buffer.
LEMMA SetUserGood ==
  ASSUME NEW p, NEW B, Good(p, B), NEW i \in Slots, p.buf[i].allocated, ~Large(p, i),
         p.buf[i].secondary < BUFFER_SEC_SYSTEM, p.buf[i].dirty = FALSE,
         NEW b \in Buffer, b.allocated, b.dirty = FALSE, b.secondary \in 0 .. 14,
         b.cleanup # "largebuffer_cleanup", b.next = NULL,
         b.refill = "directbuffer_refill" => b.first = i,
         NEW q, Writes(p, q, i, b)
  PROVE  /\ Good(q, B) /\ ChannelBuffer(q, i, b.secondary) /\ SameBut(p, q, i)
<1>1. PoolInv(p) /\ p \in Pool /\ i \notin B /\ CountsAgree(p)
  BY UserIsNoBam DEF Good, PoolInv
<1>2. b.secondary < BUFFER_SEC_SYSTEM /\ b.secondary # SecondaryCommand
  BY DEF BUFFER_SEC_SYSTEM, SecondaryCommand
<1>3. /\ q.buf[i] = b /\ q \in Pool /\ q.active = p.active
      /\ \A k \in Slots : k # i => q.buf[k] = p.buf[k]
      /\ \A k \in 0 .. BufferCount : k # i => q.buf[k] = p.buf[k]
  BY BufferCountAssumption DEF Writes, Slots
<1>4. ~Large(q, i)
  BY <1>3 DEF Large
<1>5. CountsAgree(q)
  <2>1. b.allocated = TRUE /\ p.buf[i].allocated = TRUE
    <3>1. i \in 0 .. BufferCount
      BY BufferCountAssumption DEF Slots
    <3>2. QED
      BY <1>1, <3>1 DEF Pool, Buffer
  <2>2. \A k \in Slots :
          /\ q.buf[k].allocated = p.buf[k].allocated
          /\ p.buf[k].allocated =>
               /\ q.buf[k].dirty = p.buf[k].dirty
               /\ (q.buf[k].secondary < BUFFER_SEC_SYSTEM)
                    = (p.buf[k].secondary < BUFFER_SEC_SYSTEM)
    <3>1. /\ q.buf[i].allocated = p.buf[i].allocated
          /\ q.buf[i].dirty = p.buf[i].dirty
          /\ (q.buf[i].secondary < BUFFER_SEC_SYSTEM)
               = (p.buf[i].secondary < BUFFER_SEC_SYSTEM)
      BY <1>2, <1>3, <2>1
    <3>2. QED
      BY <1>3, <3>1
  <2>3. QED
    BY <1>1, <1>3, <2>2, SameCounts
<1>6. PoolInv(q)
  <2>1. /\ q.buf[i].next = NULL /\ q.buf[i].secondary # SecondaryCommand
        /\ q.buf[i].refill = "directbuffer_refill" =>
             q.buf[i].first = i /\ q.buf[i].secondary < BUFFER_SEC_SYSTEM
    BY <1>2, <1>3
  <2>2. QED
    BY <1>1, <1>3, <1>4, <1>5, <2>1, PlainSlot
<1>7. BamsKept(p, q, {})
  <2>1. i \notin BamSlots(p)
    BY <1>1 DEF Good
  <2>2. i \notin BamSlots(q)
    BY <1>2, <1>3 DEF BamSlots, BUFFER_SEC_SYSTEM, BUFFER_SYS_BAM
  <2>3. QED
    BY <1>3, <2>1, <2>2 DEF BamsKept, BamSlots, StickyBams
<1>8. Good(q, B)
  BY <1>6, <1>7, KeptIsGood
<1>9. QED
  BY <1>3, <1>4, <1>8 DEF ChannelBuffer, SameBut

\* A kind of open file.
LEMMA ProfileFields ==
  ASSUME NEW kind \in Kinds
  PROVE  /\ Profile[kind].read \in BOOLEAN /\ Profile[kind].write \in BOOLEAN
         /\ Profile[kind].refill \in Refills /\ Profile[kind].cleanup \in Cleanups
         /\ Profile[kind].cleanup # "largebuffer_cleanup"
         /\ Profile[kind].refill = "directbuffer_refill" => kind = "direct"
<1>1. kind \in {"fat_read", "fat_write", "fat_rel", "d64_read", "d64_write",
                "directory", "direct"}
  BY DEF Kinds, Profile
<1>2. CASE kind = "fat_read"
  BY <1>2 DEF Profile, Refills, Cleanups
<1>3. CASE kind = "fat_write"
  BY <1>3 DEF Profile, Refills, Cleanups
<1>4. CASE kind = "fat_rel"
  BY <1>4 DEF Profile, Refills, Cleanups
<1>5. CASE kind = "d64_read"
  BY <1>5 DEF Profile, Refills, Cleanups
<1>6. CASE kind = "d64_write"
  BY <1>6 DEF Profile, Refills, Cleanups
<1>7. CASE kind = "directory"
  BY <1>7 DEF Profile, Refills, Cleanups
<1>8. CASE kind = "direct"
  BY <1>8 DEF Profile, Refills, Cleanups
<1>9. QED
  BY <1>1, <1>2, <1>3, <1>4, <1>5, <1>6, <1>7, <1>8

\* Configure turns a fresh buffer into the buffer of a channel.
LEMMA ConfigureGood ==
  ASSUME NEW p, NEW B, Good(p, B), NEW i \in Slots, p.buf[i].allocated, ~Large(p, i),
         p.buf[i].secondary < BUFFER_SEC_SYSTEM, p.buf[i].dirty = FALSE,
         NEW sa \in 0 .. 14, NEW kind \in Kinds
  PROVE  LET q == Configure(p, i, sa, kind)
         IN  Good(q, B) /\ ChannelBuffer(q, i, sa) /\ SameBut(p, q, i)
<1> DEFINE b == [allocated |-> TRUE, secondary |-> sa, dirty |-> FALSE, sticky |-> TRUE,
                 read   |-> Profile[kind].read,   write   |-> Profile[kind].write,
                 refill |-> Profile[kind].refill, cleanup |-> Profile[kind].cleanup,
                 first  |-> IF kind = "direct" THEN i ELSE NULL, next |-> NULL]
           q == Configure(p, i, sa, kind)
<1>1. q = [p EXCEPT !.buf[i] = b]
  BY DEF Configure
<1>2. /\ b \in Buffer /\ b.allocated /\ b.dirty = FALSE /\ b.secondary = sa
      /\ b.cleanup = Profile[kind].cleanup /\ b.next = NULL
      /\ b.refill = Profile[kind].refill
      /\ kind = "direct" => b.first = i
  BY ProfileFields DEF Buffer
<1> HIDE DEF b, q
<1>3. b.cleanup # "largebuffer_cleanup" /\ b.secondary \in 0 .. 14
      /\ (b.refill = "directbuffer_refill" => b.first = i)
  BY <1>2, ProfileFields
<1>4. Writes(p, q, i, b)
  <2>1. p \in Pool /\ i \in 0 .. BufferCount
    BY BufferCountAssumption DEF Good, PoolInv, Slots
  <2>2. q \in Pool /\ q.active = p.active /\ q.buf = [p.buf EXCEPT ![i] = b]
    BY <1>1, <1>2, <2>1 DEF Pool
  <2>3. QED
    BY <2>1, <2>2 DEF Writes, Pool
<1>5. Good(q, B) /\ ChannelBuffer(q, i, b.secondary) /\ SameBut(p, q, i)
  BY <1>2, <1>3, <1>4, SetUserGood
<1>6. QED
  BY <1>2, <1>5 DEF q

\* A fresh buffer is clean, plain and a user's.
LEMMA FreshIsPlain ==
  ASSUME NEW p, NEW i \in Slots, p.buf[i] = FreshBuffer(0, NULL, NULL)
  PROVE  /\ p.buf[i].allocated /\ ~Large(p, i) /\ p.buf[i].dirty = FALSE
         /\ p.buf[i].secondary < BUFFER_SEC_SYSTEM
BY DEF FreshBuffer, Large, BUFFER_SEC_SYSTEM

\* Every outcome of an open function leaves the pool good.
LEMMA OpenResultGood ==
  ASSUME NEW p, NEW B, Good(p, B), FirstFree(p) # NULL, NEW sa \in 0 .. 14,
         NEW kind \in Kinds, NEW outcome \in {"ok", "refused", "unreadable"}
  PROVE  Good(OpenResult(p, sa, kind, outcome), B)
<1> DEFINE i == FirstFree(p)
           q == alloc_buffer(p)
           c == Configure(q, i, sa, kind)
           b == [FreshBuffer(sa, NULL, NULL) EXCEPT !.read = kind = "directory"]
<1>1. Good(q, B) /\ i \in Slots /\ q.buf[i] = FreshBuffer(0, NULL, NULL)
  BY AllocGood
<1>2. /\ outcome = "ok" => OpenResult(p, sa, kind, outcome) = c
      /\ outcome = "refused" => OpenResult(p, sa, kind, outcome) = [q EXCEPT !.buf[i] = b]
      /\ outcome = "unreadable" => OpenResult(p, sa, kind, outcome) = free_buffer(c, i)
  BY DEF OpenResult
<1>3. /\ b \in Buffer /\ b.allocated /\ b.dirty = FALSE /\ b.secondary = sa
      /\ b.cleanup = "callback_dummy" /\ b.next = NULL /\ b.refill = "callback_dummy"
  <2>1. (kind = "directory") \in BOOLEAN
    OBVIOUS
  <2>2. sa \in 0 .. 255
    OBVIOUS
  <2>3. QED
    BY <2>1, <2>2 DEF FreshBuffer, Buffer, Refills, Cleanups
<1> HIDE DEF i, q, b
<1>4. /\ q.buf[i].allocated /\ ~Large(q, i) /\ q.buf[i].dirty = FALSE
      /\ q.buf[i].secondary < BUFFER_SEC_SYSTEM
  BY <1>1, FreshIsPlain
<1>5. Good(c, B) /\ ChannelBuffer(c, i, sa)
  BY <1>1, <1>4, ConfigureGood
<1> HIDE DEF c
<1>6. CASE outcome = "ok"
  BY <1>2, <1>5, <1>6
<1>7. CASE outcome = "refused"
  <2>1. b.cleanup # "largebuffer_cleanup" /\ b.refill # "directbuffer_refill"
        /\ b.secondary \in 0 .. 14
    BY <1>3
  <2> DEFINE r == [q EXCEPT !.buf[i] = b]
  <2>2. Writes(q, r, i, b)
    <3>1. q \in Pool /\ i \in 0 .. BufferCount
      BY <1>1, BufferCountAssumption DEF Good, PoolInv, Slots
    <3>2. r \in Pool /\ r.active = q.active /\ r.buf = [q.buf EXCEPT ![i] = b]
      BY <1>3, <3>1 DEF Pool
    <3> HIDE DEF r
    <3>3. QED
      BY <3>1, <3>2 DEF Writes, Pool
  <2> HIDE DEF r
  <2>3. Good(r, B)
    BY <1>1, <1>3, <1>4, <2>1, <2>2, SetUserGood
  <2>4. QED
    BY <1>2, <1>7, <2>3 DEF r
<1>8. CASE outcome = "unreadable"
  <2>1. c.buf[i].secondary < BUFFER_SEC_SYSTEM /\ ~Large(c, i)
    BY <1>5 DEF ChannelBuffer, BUFFER_SEC_SYSTEM
  <2>2. i \notin B
    BY <1>1, <1>5, <2>1, UserIsNoBam
  <2>3. Good(free_buffer(c, i), B)
    BY <1>1, <1>5, <2>1, <2>2, FreeOneGood
  <2>4. QED
    BY <1>2, <1>8, <2>3
<1>9. QED
  BY <1>6, <1>7, <1>8

\* Every outcome of COPY leaves the pool good.
LEMMA CopyResultGood ==
  ASSUME NEW p, NEW B, Good(p, B), FirstFree(p) # NULL, NEW outcome \in CopyOutcomes
  PROVE  Good(CopyResult(p, outcome), B)
<1> DEFINE s == FirstFree(p)
           q == alloc_buffer(p)
           d == FirstFree(q)
           a == alloc_buffer(q)
           r == Configure(a, d, 0, "fat_write")
           t == Configure(r, s, 0, "fat_read")
<1>1. Good(q, B) /\ s \in Slots /\ q.buf[s] = FreshBuffer(0, NULL, NULL)
  BY AllocGood
<1>2. /\ d = NULL => CopyResult(p, outcome) = q
      /\ d # NULL =>
           /\ outcome \in {"done", "no_source"} =>
                CopyResult(p, outcome) = free_buffer(r, d)
           /\ outcome = "read_error" => CopyResult(p, outcome) = free_buffers(t, {s, d})
           /\ outcome = "write_error" =>
                CopyResult(p, outcome) = free_buffer(cleanup(t, s, "none"), d)
  BY DEF CopyResult
<1> HIDE DEF s, q
<1>3. CASE d = NULL
  BY <1>1, <1>2, <1>3
<1>4. CASE d # NULL
  <2>1. /\ Good(a, B) /\ d \in Slots /\ a.buf[d] = FreshBuffer(0, NULL, NULL)
        /\ SameBut(q, a, d)
    BY <1>1, <1>4, AllocGood DEF SameBut
  <2>2. d # s
    <3>1. ~q.buf[d].allocated
      BY <1>4, FirstFreeSlot
    <3>2. q.buf[s].allocated
      BY <1>1, FreshIsPlain
    <3>3. QED
      BY <3>1, <3>2
  <2>3. {"fat_write", "fat_read"} \subseteq Kinds /\ 0 \in 0 .. 14
    BY DEF Kinds, Profile
  <2>4. a.buf[s] = FreshBuffer(0, NULL, NULL)
    BY <1>1, <2>1, <2>2 DEF SameBut
  <2> HIDE DEF a, d
  <2>5. Good(r, B) /\ ChannelBuffer(r, d, 0) /\ SameBut(a, r, d)
    <3>1. /\ a.buf[d].allocated /\ ~Large(a, d) /\ a.buf[d].dirty = FALSE
          /\ a.buf[d].secondary < BUFFER_SEC_SYSTEM
      BY <2>1, FreshIsPlain
    <3>2. QED
      BY <2>1, <2>3, <3>1, ConfigureGood
  <2> HIDE DEF r
  <2>6. r.buf[s] = FreshBuffer(0, NULL, NULL)
    BY <1>1, <2>2, <2>4, <2>5 DEF SameBut
  <2>7. Good(t, B) /\ ChannelBuffer(t, s, 0) /\ SameBut(r, t, s)
    <3>1. /\ r.buf[s].allocated /\ ~Large(r, s) /\ r.buf[s].dirty = FALSE
          /\ r.buf[s].secondary < BUFFER_SEC_SYSTEM
      BY <1>1, <2>6, FreshIsPlain
    <3>2. QED
      BY <1>1, <2>3, <2>5, <3>1, ConfigureGood
  <2> HIDE DEF t
  <2>8. /\ ~Large(r, d) /\ r.buf[d].allocated /\ r.buf[d].secondary < BUFFER_SEC_SYSTEM
        /\ d \notin B
    <3>1. ~Large(r, d) /\ r.buf[d].allocated /\ r.buf[d].secondary < BUFFER_SEC_SYSTEM
      BY <2>5 DEF ChannelBuffer, BUFFER_SEC_SYSTEM
    <3>2. QED
      BY <2>1, <2>5, <3>1, UserIsNoBam
  <2>9. /\ ~Large(t, d) /\ ~Large(t, s) /\ s \notin B /\ t.buf[s].allocated
        /\ t.buf[s].secondary < BUFFER_SEC_SYSTEM
    <3>1. t.buf[d] = r.buf[d]
      BY <2>1, <2>2, <2>7 DEF SameBut
    <3>2. ~Large(t, d)
      BY <2>8, <3>1 DEF Large
    <3>3. ~Large(t, s) /\ t.buf[s].allocated /\ t.buf[s].secondary < BUFFER_SEC_SYSTEM
      BY <2>7 DEF ChannelBuffer, BUFFER_SEC_SYSTEM
    <3>4. s \notin B
      BY <1>1, <2>7, <3>3, UserIsNoBam
    <3>5. QED
      BY <3>2, <3>3, <3>4
  <2>10. Good(free_buffer(r, d), B)
    BY <2>1, <2>5, <2>8, FreeOneGood
  <2>11. Good(free_buffers(t, {s, d}), B)
    <3> DEFINE M == {s, d}
    <3>1. M \in SUBSET Slots /\ (\A i \in M : ~Large(t, i)) /\ \A i \in M : i \notin B
      BY <1>1, <2>1, <2>8, <2>9
    <3> HIDE DEF M
    <3>2. WholeChains(t, M)
      BY <2>7, <3>1, FreedSetsAreWhole DEF Good
    <3>3. Good(free_buffers(t, M), B)
      BY <2>7, <3>1, <3>2, FreeUsersGood
    <3>4. QED
      BY <3>3 DEF M
  <2>12. Good(free_buffer(cleanup(t, s, "none"), d), B)
    <3> DEFINE c == cleanup(t, s, "none")
    <3>1. Good(c, B) /\ ~Large(c, s)
      BY <1>1, <2>7, <2>9, CleanupGood
    <3>2. ~Large(c, d)
      BY <1>1, <2>1, <2>2, <2>7, <2>9, PlainCleanupElsewhere
    <3> HIDE DEF c
    <3>3. Good(free_buffer(c, d), B)
      BY <2>1, <2>8, <3>1, <3>2, FreeOneGood
    <3>4. QED
      BY <3>3 DEF c
  <2>13. outcome \in {"done", "no_source", "read_error", "write_error"}
    BY DEF CopyOutcomes
  <2>14. QED
    BY <1>2, <1>4, <2>10, <2>11, <2>12, <2>13 DEF d, r, t, a
<1>5. QED
  BY <1>3, <1>4

-----------------------------------------------------------------------------
(* System buffers.                                                         *)

\* A new sticky system buffer in a free slot.
LEMMA SystemGood ==
  ASSUME NEW p, NEW B, Good(p, B), NEW i \in Slots, ~p.buf[i].allocated,
         NEW b \in Buffer, b.allocated = TRUE, b.dirty = FALSE, b.sticky = TRUE,
         b.secondary \in {BUFFER_SYS_BAM, BUFFER_SYS_CAPTURE1},
         b.cleanup # "largebuffer_cleanup", b.next = NULL,
         b.refill # "directbuffer_refill",
         NEW q, Writes(p, q, i, b)
  PROVE  Good(q, IF b.secondary = BUFFER_SYS_BAM THEN B \cup {i} ELSE B)
<1>1. PoolInv(p) /\ p \in Pool /\ CountsAgree(p) /\ i \notin B /\ ~Large(p, i)
  BY DEF Good, PoolInv, BamSlots, Large
<1>2. /\ ~(b.secondary < BUFFER_SEC_SYSTEM) /\ b.secondary # SecondaryCommand
  BY DEF BUFFER_SEC_SYSTEM, SecondaryCommand, BUFFER_SYS_BAM, BUFFER_SYS_CAPTURE1
<1>3. /\ q.buf[i] = b /\ q \in Pool /\ q.active = p.active
      /\ \A k \in Slots : k # i => q.buf[k] = p.buf[k]
      /\ \A k \in 0 .. BufferCount : k # i => q.buf[k] = p.buf[k]
  BY BufferCountAssumption DEF Writes, Slots
<1>4. ~Large(q, i)
  BY <1>3 DEF Large
<1>5. CountsAgree(q)
  <2>1. i \notin Users(p) /\ i \notin Dirty(p) /\ i \notin Users(q) /\ i \notin Dirty(q)
    BY <1>2, <1>3 DEF Users, Dirty
  <2>2. Users(q) = Users(p) /\ Dirty(q) = Dirty(p)
    BY <1>3, <2>1 DEF Users, Dirty
  <2>3. QED
    BY <1>1, <1>3, <2>2 DEF CountsAgree
<1>6. PoolInv(q)
  <2>1. /\ q.buf[i].next = NULL /\ q.buf[i].secondary # SecondaryCommand
        /\ q.buf[i].refill # "directbuffer_refill"
    BY <1>2, <1>3
  <2>2. QED
    BY <1>1, <1>3, <1>4, <1>5, <2>1, PlainSlot
<1>7. CASE b.secondary = BUFFER_SYS_BAM
  <2>1. i \in BamSlots(q) /\ i \in StickyBams(q)
    BY <1>3, <1>7 DEF BamSlots, StickyBams
  <2>2. BamSlots(q) = B \cup {i} /\ StickyBams(q) = B \cup {i}
    BY <1>1, <1>3, <2>1 DEF Good, BamSlots, StickyBams
  <2>3. QED
    BY <1>6, <1>7, <2>2 DEF Good
<1>8. CASE b.secondary # BUFFER_SYS_BAM
  <2>1. i \notin BamSlots(q) /\ i \notin StickyBams(q)
    BY <1>3, <1>8 DEF BamSlots, StickyBams
  <2>2. BamSlots(q) = B /\ StickyBams(q) = B
    BY <1>1, <1>3, <2>1 DEF Good, BamSlots, StickyBams
  <2>3. QED
    BY <1>6, <1>8, <2>2 DEF Good
<1>9. QED
  BY <1>7, <1>8

\* alloc_system_buffer followed by filling in the buffer.
LEMMA SystemWrites ==
  ASSUME NEW p \in Pool, NEW i \in Slots, i = FirstFree(p), NEW b \in Buffer
  PROVE  Writes(p, [alloc_system_buffer(p) EXCEPT !.buf[i] = b], i, b)
<1> DEFINE f == FreshBuffer(BUFFER_SEC_SYSTEM, NULL, NULL)
           a == [p EXCEPT !.buf[i] = f]
           q == [a EXCEPT !.buf[i] = b]
<1>1. [alloc_system_buffer(p) EXCEPT !.buf[i] = b] = q
  BY DEF alloc_system_buffer, alloc_specific_buffer
<1>2. i \in 0 .. BufferCount
  BY BufferCountAssumption DEF Slots
<1>3. f \in Buffer
  <2>1. BUFFER_SEC_SYSTEM \in 0 .. 255
    BY DEF BUFFER_SEC_SYSTEM
  <2>2. QED
    BY <2>1, FreshBufferType
<1> HIDE DEF f
<1>4. a \in Pool /\ a.active = p.active /\ a.buf = [p.buf EXCEPT ![i] = f]
  BY <1>2, <1>3 DEF Pool
<1> HIDE DEF a
<1>5. q \in Pool /\ q.active = a.active /\ q.buf = [a.buf EXCEPT ![i] = b]
  BY <1>2, <1>4 DEF Pool
<1> HIDE DEF q
<1>6. q.buf[i] = b /\ \A k \in 0 .. BufferCount : k # i => q.buf[k] = p.buf[k]
  BY <1>2, <1>4, <1>5 DEF Pool
<1>7. Writes(p, q, i, b)
  BY <1>4, <1>5, <1>6 DEF Writes
<1>8. QED
  BY <1>1, <1>7

\* bam_buffer_alloc adds a BAM buffer.
LEMMA BamAllocGood ==
  ASSUME NEW p, NEW B, Good(p, B), FirstFree(p) # NULL
  PROVE  /\ Good(bam_buffer_alloc(p), B \cup {FirstFree(p)})
         /\ FirstFree(p) \in Slots /\ FirstFree(p) \notin B
<1> DEFINE i == FirstFree(p)
           b == [FreshBuffer(BUFFER_SYS_BAM, NULL, NULL) EXCEPT
                   !.cleanup = "bam_buffer_flush", !.sticky = TRUE]
           q == [alloc_system_buffer(p) EXCEPT !.buf[i] = b]
<1>1. i \in Slots /\ ~p.buf[i].allocated /\ p \in Pool
  BY FirstFreeSlot DEF Good, PoolInv
<1>2. bam_buffer_alloc(p) = q
  BY DEF bam_buffer_alloc
<1>3. /\ b \in Buffer /\ b.allocated = TRUE /\ b.dirty = FALSE /\ b.sticky = TRUE
      /\ b.secondary = BUFFER_SYS_BAM /\ b.cleanup = "bam_buffer_flush"
      /\ b.next = NULL /\ b.refill = "callback_dummy"
  <2>1. BUFFER_SYS_BAM \in 0 .. 255
    BY DEF BUFFER_SYS_BAM
  <2>2. QED
    BY <2>1 DEF FreshBuffer, Buffer, Refills, Cleanups
<1> HIDE DEF b, i
<1>4. Writes(p, q, i, b)
  BY <1>1, <1>3, SystemWrites DEF i
<1> HIDE DEF q
<1>5. /\ b.secondary \in {BUFFER_SYS_BAM, BUFFER_SYS_CAPTURE1}
      /\ b.cleanup # "largebuffer_cleanup" /\ b.refill # "directbuffer_refill"
  BY <1>3
<1>6. Good(q, IF b.secondary = BUFFER_SYS_BAM THEN B \cup {i} ELSE B)
  BY <1>1, <1>3, <1>4, <1>5, SystemGood
<1>7. i \notin B
  BY <1>1 DEF Good, BamSlots
<1>8. QED
  BY <1>1, <1>2, <1>3, <1>6, <1>7 DEF i

\* The capture buffer of M-W is no BAM buffer.
LEMMA CaptureGood ==
  ASSUME NEW p, NEW B, Good(p, B), FirstFree(p) # NULL
  PROVE  Good([alloc_system_buffer(p) EXCEPT
                 !.buf[FirstFree(p)] = [FreshBuffer(BUFFER_SYS_CAPTURE1, NULL, NULL)
                                          EXCEPT !.sticky = TRUE]], B)
<1> DEFINE i == FirstFree(p)
           b == [FreshBuffer(BUFFER_SYS_CAPTURE1, NULL, NULL) EXCEPT !.sticky = TRUE]
           q == [alloc_system_buffer(p) EXCEPT !.buf[i] = b]
<1>1. i \in Slots /\ ~p.buf[i].allocated /\ p \in Pool
  BY FirstFreeSlot DEF Good, PoolInv
<1>3. /\ b \in Buffer /\ b.allocated = TRUE /\ b.dirty = FALSE /\ b.sticky = TRUE
      /\ b.secondary = BUFFER_SYS_CAPTURE1 /\ b.cleanup = "callback_dummy"
      /\ b.next = NULL /\ b.refill = "callback_dummy"
  <2>1. BUFFER_SYS_CAPTURE1 \in 0 .. 255
    BY DEF BUFFER_SYS_CAPTURE1
  <2>2. QED
    BY <2>1 DEF FreshBuffer, Buffer, Refills, Cleanups
<1> HIDE DEF b, i
<1>4. Writes(p, q, i, b)
  BY <1>1, <1>3, SystemWrites DEF i
<1> HIDE DEF q
<1>5. /\ b.secondary \in {BUFFER_SYS_BAM, BUFFER_SYS_CAPTURE1}
      /\ b.cleanup # "largebuffer_cleanup" /\ b.refill # "directbuffer_refill"
      /\ b.secondary # BUFFER_SYS_BAM
  BY <1>3 DEF BUFFER_SYS_BAM, BUFFER_SYS_CAPTURE1
<1>6. Good(q, IF b.secondary = BUFFER_SYS_BAM THEN B \cup {i} ELSE B)
  BY <1>1, <1>3, <1>4, <1>5, SystemGood
<1>7. Good(q, B)
  BY <1>5, <1>6
<1>8. QED
  BY <1>7 DEF i, q, b

\* Freeing plain buffers, BAM buffers included.
LEMMA FreePlainGood ==
  ASSUME NEW p, NEW B, Good(p, B), NEW M \in SUBSET Slots, \A i \in M : ~Large(p, i)
  PROVE  Good(free_buffers(p, M), B \ M)
<1>1. PoolInv(p) /\ WholeChains(p, M)
  BY FreedSetsAreWhole DEF Good
<1>2. PoolInv(free_buffers(p, M)) /\ BamsKept(p, free_buffers(p, M), M)
  BY <1>1, FreeInv
<1>3. QED
  BY <1>2 DEF Good, BamsKept

\* A BAM buffer is in no chain.
LEMMA BamIsPlain ==
  ASSUME NEW p, NEW B, Good(p, B), NEW i \in B
  PROVE  i \in Slots /\ ~Large(p, i)
<1>1. i \in Slots /\ p.buf[i].secondary = 101
  BY DEF Good, BamSlots, BUFFER_SYS_BAM
<1>2. ASSUME Large(p, i) PROVE FALSE
  <2>1. p.buf[i].secondary < 100
    BY <1>1, <1>2 DEF Good, PoolInv, FirstLinks, BUFFER_SEC_SYSTEM
  <2>2. QED
    BY <1>1, <2>1
<1>3. QED
  BY <1>1, <1>2

\* The LEDs are no part of the invariant.
LEMMA LedsGood ==
  ASSUME NEW p, NEW B, Good(p, B), NEW q \in Pool, q.buf = p.buf, q.active = p.active
  PROVE  Good(q, B)
<1>1. /\ Users(q) = Users(p) /\ Dirty(q) = Dirty(p)
      /\ BamSlots(q) = BamSlots(p) /\ StickyBams(q) = StickyBams(p)
  BY DEF Users, Dirty, BamSlots, StickyBams
<1>2. \A i : Large(q, i) = Large(p, i)
  BY DEF Large
<1>3. PoolInv(q)
  BY <1>1, <1>2 DEF Good, PoolInv, CountsAgree, OneCommandChannel, NextLinks,
                    FirstLinks, SingleLinks
<1>4. QED
  BY <1>1, <1>3 DEF Good

-----------------------------------------------------------------------------
(* Opening a large buffer.                                                 *)

\* The pool OpenLarge leaves when it finds the buffers.
LargePool(p, sa, count) ==
  LET s == FirstRun(p, count)
      q == alloc_linked_buffers(p, count)
  IN  [q EXCEPT !.buf = [i \in 0 .. BufferCount |->
                           IF i \in s .. s + count - 1
                             THEN LargeBuffer(q.buf[i], i, sa) ELSE q.buf[i]]]

\* r is p with a chain in the free slots R, whose first, s, answers to sa.
AddsChain(p, r, R, s, sa) ==
  /\ s \in R /\ s \in Slots
  /\ \A i \in R : /\ ~p.buf[i].allocated
                  /\ Large(r, i) /\ r.buf[i].first = s
                  /\ r.buf[i].secondary = IF i = s THEN sa ELSE BUFFER_SEC_CHAIN - sa
  /\ \A i \in Slots : i \notin R => r.buf[i] = p.buf[i]

\* It is good, and p with a new chain.
LEMMA LargePoolGood ==
  ASSUME NEW p, NEW B, Good(p, B), NEW sa \in 0 .. 14, NEW count \in 1 .. 255,
         FirstRun(p, count) # NULL
  PROVE  /\ Good(LargePool(p, sa, count), B)
         /\ LET s == FirstRun(p, count)
            IN  AddsChain(p, LargePool(p, sa, count), s .. s + count - 1, s, sa)
<1> DEFINE s == FirstRun(p, count)
           last == s + count - 1
           R == s .. s + count - 1
           link(i) == IF i = last THEN NULL ELSE i + 1
           bs == [i \in 0 .. BufferCount |->
                    IF i \in s .. last THEN FreshBuffer(0, s, link(i)) ELSE p.buf[i]]
           a == (p.active + count) % 256
           q == [p EXCEPT !.buf = bs, !.active = a, !.busy_led = TRUE]
           cs == [i \in 0 .. BufferCount |->
                    IF i \in s .. s + count - 1
                      THEN LargeBuffer(q.buf[i], i, sa) ELSE q.buf[i]]
           r == [q EXCEPT !.buf = cs]
<1>1. p \in Pool /\ PoolInv(p)
  BY DEF Good, PoolInv
<1>2. q = alloc_linked_buffers(p, count)
  BY DEF alloc_linked_buffers
<1>3. r = LargePool(p, sa, count)
  <2> HIDE DEF q
  <2>1. QED
    BY <1>2, Zenon DEF LargePool
<1>4. /\ s \in Slots /\ s + count <= BufferCount
      /\ \A i \in R : i \in Slots /\ ~p.buf[i].allocated
  BY FirstRunSlots
<1> HIDE DEF s
<1>5. \A i \in R : i \in 0 .. BufferCount /\ link(i) \in Slots \cup {NULL}
  BY <1>4, BufferCountAssumption DEF Slots
<1>6. bs \in [0 .. BufferCount -> Buffer]
  <2>1. ASSUME NEW i \in 0 .. BufferCount, i \in R
        PROVE  FreshBuffer(0, s, link(i)) \in Buffer
    <3>1. 0 \in 0 .. 255 /\ s \in Slots \cup {NULL} /\ link(i) \in Slots \cup {NULL}
      BY <1>4, <1>5, <2>1
    <3> HIDE DEF link
    <3>2. QED
      BY <3>1, FreshBufferType
  <2>2. \A i \in 0 .. BufferCount : p.buf[i] \in Buffer
    BY <1>1, PoolFields
  <2>3. QED
    BY <2>1, <2>2
<1>7. a \in 0 .. 255
  <2>1. p.active \in Int
    BY <1>1, PoolActive
  <2>2. p.active + count \in Int
    BY <2>1
  <2>3. QED
    BY <2>2, ByteAdd
<1>8. \A i \in R : bs[i] = FreshBuffer(0, s, link(i))
  BY <1>5
<1>9. \A i \in 0 .. BufferCount : i \notin R => bs[i] = p.buf[i]
  OBVIOUS
<1> HIDE DEF bs, a, link
<1>10. q \in Pool /\ q.buf = bs /\ q.active = a
  BY <1>1, <1>6, <1>7 DEF Pool
<1> HIDE DEF q
<1>11. ASSUME NEW i \in R
       PROVE  /\ LargeBuffer(q.buf[i], i, sa) \in Buffer
              /\ LET c == LargeBuffer(q.buf[i], i, sa)
                 IN  /\ c.allocated = TRUE /\ c.dirty = FALSE /\ c.sticky = TRUE
                     /\ c.cleanup = "largebuffer_cleanup"
                     /\ c.refill = "directbuffer_refill"
                     /\ c.first = s /\ c.next = link(i)
                     /\ c.secondary < BUFFER_SEC_SYSTEM
                     /\ c.secondary # SecondaryCommand
                     /\ c.secondary = IF i = s THEN sa ELSE BUFFER_SEC_CHAIN - sa
  <2>1. q.buf[i].first = s /\ q.buf[i].next = link(i)
    <3>1. q.buf[i] = FreshBuffer(0, s, link(i))
      BY <1>8, <1>10
    <3>2. QED
      BY <3>1 DEF FreshBuffer
  <2>2. s \in Slots \cup {NULL} /\ link(i) \in Slots \cup {NULL}
    BY <1>4, <1>5
  <2> DEFINE x == IF i = q.buf[i].first THEN sa ELSE BUFFER_SEC_CHAIN - sa
  <2>3. x \in 0 .. 255 /\ x < BUFFER_SEC_SYSTEM /\ x # SecondaryCommand
    BY DEF BUFFER_SEC_CHAIN, BUFFER_SEC_SYSTEM, SecondaryCommand
  <2>6. x = IF i = s THEN sa ELSE BUFFER_SEC_CHAIN - sa
    BY <2>1
  <2> HIDE DEF x
  <2>4. LargeBuffer(q.buf[i], i, sa) =
          [allocated |-> TRUE, secondary |-> x, dirty |-> FALSE, sticky |-> TRUE,
           read |-> TRUE, write |-> TRUE, refill |-> "directbuffer_refill",
           cleanup |-> "largebuffer_cleanup", first |-> s, next |-> link(i)]
    BY <2>1 DEF LargeBuffer, x
  <2>5. QED
    BY <2>2, <2>3, <2>4, <2>6 DEF Buffer, Refills, Cleanups
<1>12. cs \in [0 .. BufferCount -> Buffer]
  <2>1. \A i \in 0 .. BufferCount : q.buf[i] \in Buffer
    BY <1>10, PoolFields
  <2>2. \A i \in R : LargeBuffer(q.buf[i], i, sa) \in Buffer
    BY <1>11
  <2>3. QED
    BY <2>1, <2>2
<1>13. \A i \in R : cs[i] = LargeBuffer(q.buf[i], i, sa)
  BY <1>5
<1>14. \A i \in 0 .. BufferCount : i \notin R => cs[i] = p.buf[i]
  BY <1>9, <1>10
<1> HIDE DEF cs
<1>15. r \in Pool /\ r.buf = cs /\ r.active = a
  BY <1>10, <1>12 DEF Pool
<1> HIDE DEF r
<1>16. PoolInv(r) /\ BamsKept(p, r, {})
  <2>1. ASSUME NEW i \in s .. s + count - 1
        PROVE  /\ r.buf[i].allocated = TRUE /\ r.buf[i].dirty = FALSE
               /\ r.buf[i].sticky = TRUE
               /\ r.buf[i].cleanup = "largebuffer_cleanup"
               /\ r.buf[i].refill = "directbuffer_refill"
               /\ r.buf[i].first = s
               /\ r.buf[i].next = IF i = s + count - 1 THEN NULL ELSE i + 1
               /\ r.buf[i].secondary < BUFFER_SEC_SYSTEM
               /\ r.buf[i].secondary # SecondaryCommand
    <3>1. r.buf[i] = LargeBuffer(q.buf[i], i, sa)
      BY <1>13, <1>15
    <3>2. link(i) = IF i = s + count - 1 THEN NULL ELSE i + 1
      BY DEF link
    <3>3. QED
      BY <1>11, <3>1, <3>2
  <2>2. \A i \in 0 .. BufferCount : i \notin s .. s + count - 1 => r.buf[i] = p.buf[i]
    BY <1>14, <1>15
  <2>3. \A i \in s .. s + count - 1 : ~p.buf[i].allocated
    BY <1>4
  <2>4. r.active = (p.active + count) % 256
    BY <1>15 DEF a
  <2>5. QED
    BY <1>1, <1>4, <1>15, <2>1, <2>2, <2>3, <2>4, NewChain
<1>17. AddsChain(p, r, R, s, sa)
  <2>1. s \in R
    BY <1>4 DEF Slots
  <2>2. \A i \in R : /\ Large(r, i) /\ r.buf[i].first = s
                    /\ r.buf[i].secondary = IF i = s THEN sa ELSE BUFFER_SEC_CHAIN - sa
    <3>1. ASSUME NEW i \in R
          PROVE  /\ Large(r, i) /\ r.buf[i].first = s
                 /\ r.buf[i].secondary = IF i = s THEN sa ELSE BUFFER_SEC_CHAIN - sa
      <4>1. r.buf[i] = LargeBuffer(q.buf[i], i, sa)
        BY <1>13, <1>15
      <4>2. QED
        BY <1>11, <4>1 DEF Large
    <3>2. QED
      BY <3>1
  <2>3. \A i \in Slots : i \notin R => r.buf[i] = p.buf[i]
    <3>1. \A i \in Slots : i \in 0 .. BufferCount
      BY BufferCountAssumption DEF Slots
    <3>2. QED
      BY <1>14, <1>15, <3>1
  <2>4. QED
    BY <1>4, <2>1, <2>2, <2>3 DEF AddsChain
<1>18. QED
  BY <1>3, <1>16, <1>17, KeptIsGood DEF s

\* The buffer N works in: a dirty write buffer on secondary 0.
LEMMA FormatGood ==
  ASSUME NEW p, NEW B, Good(p, B), FirstFree(p) # NULL
  PROVE  Good(mark_buffer_dirty(
                [alloc_buffer(p) EXCEPT
                   !.buf[FirstFree(p)] = [FreshBuffer(0, NULL, NULL) EXCEPT
                                            !.write = TRUE]], FirstFree(p)), B)
<1> DEFINE i == FirstFree(p)
           q == alloc_buffer(p)
           b == [FreshBuffer(0, NULL, NULL) EXCEPT !.write = TRUE]
           r == [q EXCEPT !.buf[i] = b]
<1>1. Good(q, B) /\ i \in Slots /\ q.buf[i] = FreshBuffer(0, NULL, NULL)
  BY AllocGood
<1>2. /\ b \in Buffer /\ b.allocated = TRUE /\ b.dirty = FALSE /\ b.secondary = 0
      /\ b.cleanup = "callback_dummy" /\ b.next = NULL /\ b.refill = "callback_dummy"
  <2>1. 0 \in 0 .. 255
    OBVIOUS
  <2>2. QED
    BY <2>1 DEF FreshBuffer, Buffer, Refills, Cleanups
<1> HIDE DEF i, q, b
<1>3. /\ q.buf[i].allocated /\ ~Large(q, i) /\ q.buf[i].dirty = FALSE
      /\ q.buf[i].secondary < BUFFER_SEC_SYSTEM
  BY <1>1, FreshIsPlain
<1>4. Writes(q, r, i, b)
  <2>1. q \in Pool /\ i \in 0 .. BufferCount
    BY <1>1, BufferCountAssumption DEF Good, PoolInv, Slots
  <2>2. r \in Pool /\ r.active = q.active /\ r.buf = [q.buf EXCEPT ![i] = b]
    BY <1>2, <2>1 DEF Pool
  <2> HIDE DEF r
  <2>3. QED
    BY <2>1, <2>2 DEF Writes, Pool
<1> HIDE DEF r
<1>5. /\ b.cleanup # "largebuffer_cleanup" /\ b.refill # "directbuffer_refill"
      /\ b.secondary \in 0 .. 14 /\ b.allocated
  BY <1>2
<1>6. Good(r, B) /\ ChannelBuffer(r, i, b.secondary)
  BY <1>1, <1>2, <1>3, <1>4, <1>5, SetUserGood
<1>7. PoolInv(mark_buffer_dirty(r, i)) /\ BamsKept(r, mark_buffer_dirty(r, i), {})
  BY <1>1, <1>6, MarkDirtyInv DEF Good, ChannelBuffer
<1>8. Good(mark_buffer_dirty(r, i), B)
  BY <1>6, <1>7, KeptIsGood
<1>9. QED
  BY <1>8 DEF i, q, b, r

-----------------------------------------------------------------------------
(* The invariant of the specification.                                     *)

\* The types of everything but the pool.
RestOK == /\ opened \subseteq SAs
          /\ files \subseteq Names
          /\ error \in {"OK", "NO_CHANNEL", "OTHER"}
          /\ mounted \subseteq Partitions
          /\ bam \in [buffer : Slots \cup {NULL}, buffer2 : Slots \cup {NULL},
                      refcount : 0 .. 255]
          /\ skipped \subseteq Slots

\* What BamPointersExact says of the two pointers.
PointersOK == /\ bam.buffer = NULL => bam.buffer2 = NULL
              /\ bam.buffer # NULL => bam.buffer # bam.buffer2

Inv == RestOK /\ PointersOK /\ Good(pool, Bams)

\* Inv is TypeOK and PoolInvariant.
LEMMA InvImplies == Inv => (astray \in BOOLEAN => TypeOK) /\ PoolInvariant
<1>1. SUFFICES ASSUME Inv PROVE (astray \in BOOLEAN => TypeOK) /\ PoolInvariant
  OBVIOUS
<1>2. PoolInv(pool) /\ BamSlots(pool) = Bams /\ StickyBams(pool) = Bams
  BY <1>1 DEF Inv, Good
<1>3. astray \in BOOLEAN => TypeOK
  BY <1>1, <1>2 DEF Inv, RestOK, TypeOK, PoolInv
<1>4. BamPointersExact
  BY <1>1, <1>2 DEF Inv, PointersOK, BamPointersExact, BamSlots
<1>5. \A i \in Bams : pool.buf[i].sticky = TRUE
  BY <1>2 DEF StickyBams
<1>6. QED
  BY <1>2, <1>3, <1>4, <1>5 DEF PoolInvariant

\* It holds initially.
LEMMA InitInv == Init => Inv
<1>1. SUFFICES ASSUME Init PROVE Inv
  OBVIOUS
<1>2. RestOK /\ PointersOK /\ Bams = {}
  <2>1. bam = [buffer |-> NULL, buffer2 |-> NULL, refcount |-> 0]
    BY <1>1 DEF Init
  <2>2. Bams = {} /\ PointersOK
    BY <2>1 DEF Bams, PointersOK
  <2>3. QED
    BY <1>1, <2>1, <2>2 DEF Init, RestOK
<1>3. \A i \in Slots : pool.buf[i] = ZeroBuffer
  BY <1>1, BufferCountAssumption DEF Init, buffers_init, Slots, ErrorBuffer
<1>4. pool.buf[ErrorBuffer] = ErrorChannel
  BY <1>1, BufferCountAssumption DEF Init, buffers_init, ErrorBuffer
<1>5. \A i \in Slots : /\ pool.buf[i].allocated = FALSE /\ pool.buf[i].next = NULL
                       /\ ~Large(pool, i)
  BY <1>3 DEF ZeroBuffer, Large
<1>6. PoolInv(pool)
  <2>1. pool \in Pool /\ CountsAgree(pool)
    BY <1>1, InitPool DEF Init
  <2>2. OneCommandChannel(pool) /\ NextLinks(pool) /\ FirstLinks(pool) /\ SingleLinks(pool)
    BY <1>4, <1>5 DEF OneCommandChannel, NextLinks, FirstLinks, SingleLinks
  <2>3. QED
    BY <2>1, <2>2 DEF PoolInv
<1>7. BamSlots(pool) = {} /\ StickyBams(pool) = {}
  BY <1>5 DEF BamSlots, StickyBams
<1>8. QED
  BY <1>2, <1>6, <1>7 DEF Inv, Good

\* An action that leaves the BAM pointers alone.
LEMMA SameBamInv ==
  ASSUME Inv, RestOK', bam' = bam, Good(pool', Bams)
  PROVE  Inv'
<1>1. Bams' = Bams /\ PointersOK'
  BY DEF Inv, Bams, PointersOK
<1>2. QED
  BY <1>1 DEF Inv, Good, PoolInv

-----------------------------------------------------------------------------
(* The actions.                                                            *)

\* A host address.
LEMMA HostAddress == SAs \subseteq 0 .. 14 /\ ChainSizes \subseteq 1 .. 255
BY ChannelsAssumption

\* A cleanup fails or does not.
LEMMA FaultIsKnown == \A sa : CleanupFaults(sa) \subseteq Faults
BY DEF CleanupFaults, Faults

\* file_open from "Grab a buffer" on.
LEMMA OpenOnGood ==
  ASSUME NEW p, NEW B, Good(p, B), NEW sa \in SAs, NEW kind \in Kinds,
         NEW outcome \in {"ok", "refused", "unreadable"},
         OpenOn(p, sa, kind, outcome)
  PROVE  Good(pool', B)
<1>1. sa \in 0 .. 14
  BY HostAddress
<1>2. CASE FirstFree(p) = NULL
  <2>1. pool' = EndCommand(p)
    BY <1>2 DEF OpenOn
  <2>2. QED
    BY <2>1, EndCommandGood
<1>3. CASE FirstFree(p) # NULL
  <2>1. pool' = EndCommand(OpenResult(p, sa, kind, outcome))
    BY <1>3 DEF OpenOn
  <2>2. Good(OpenResult(p, sa, kind, outcome), B)
    BY <1>1, <1>3, OpenResultGood
  <2>3. QED
    BY <2>1, <2>2, EndCommandGood
<1>4. QED
  BY <1>2, <1>3

\* The actions of OPEN keep Inv.
LEMMA OpenInv ==
  ASSUME Inv, NEW sa \in SAs, Open(sa)
  PROVE  Inv'
<1>1. PICK fault \in Faults :
        \/ OpenRejected(sa, fault)
        \/ \E count \in ChainSizes : OpenLarge(sa, count, fault)
        \/ \E kind \in Kinds, outcome \in {"ok", "refused", "unreadable"} :
             \/ OpenExisting(sa, kind, outcome, fault)
             \/ \E name \in Names : \/ OpenNew(sa, name, kind, outcome, fault)
                                    \/ OpenReplace(sa, name, kind, outcome, fault)
  BY FaultIsKnown DEF Open
<1> DEFINE p == cleanup_and_free(pool, sa, fault)
<1>2. sa \in 0 .. 14
  BY HostAddress
<1>3. Good(p, Bams) /\ Good(EndCommand(p), Bams)
  <2>1. Good(pool, Bams)
    BY DEF Inv
  <2>2. Good(p, Bams)
    BY <1>2, <2>1, CleanupAndFreeGood
  <2> HIDE DEF p
  <2>3. QED
    BY <2>2, EndCommandGood
<1>4. RestOK
  BY DEF Inv
<1>5. CASE OpenRejected(sa, fault)
  <2>1. RestOK' /\ bam' = bam /\ pool' = EndCommand(p)
    BY <1>4, <1>5 DEF OpenRejected, RestOK
  <2>2. QED
    BY <1>3, <2>1, SameBamInv
<1>6. CASE \E count \in ChainSizes : OpenLarge(sa, count, fault)
  <2>1. PICK count \in ChainSizes : OpenLarge(sa, count, fault)
    BY <1>6
  <2>2. RestOK' /\ bam' = bam
    BY <1>4, <2>1 DEF OpenLarge, RestOK
  <2>3. count \in 1 .. 255
    BY HostAddress
  <2>4. CASE FirstRun(p, count) = NULL
    <3>1. pool' = EndCommand(p)
      BY <2>1, <2>4 DEF OpenLarge
    <3>2. QED
      BY <1>3, <2>2, <3>1, SameBamInv
  <2>5. CASE FirstRun(p, count) # NULL
    <3>1. pool' = EndCommand(LargePool(p, sa, count))
      BY <2>1, <2>5 DEF OpenLarge, LargePool
    <3> HIDE DEF p
    <3>2. Good(LargePool(p, sa, count), Bams)
      BY <1>2, <1>3, <2>3, <2>5, LargePoolGood
    <3>3. Good(pool', Bams)
      BY <3>1, <3>2, EndCommandGood
    <3>4. QED
      BY <2>2, <3>3, SameBamInv
  <2>6. QED
    BY <2>4, <2>5
<1>7. ASSUME NEW kind \in Kinds, NEW outcome \in {"ok", "refused", "unreadable"},
             \/ OpenExisting(sa, kind, outcome, fault)
             \/ \E name \in Names : \/ OpenNew(sa, name, kind, outcome, fault)
                                    \/ OpenReplace(sa, name, kind, outcome, fault)
      PROVE  Inv'
  <2>1. CASE OpenExisting(sa, kind, outcome, fault)
    <3>1. OpenOn(p, sa, kind, outcome) /\ files' = files
      BY <2>1 DEF OpenExisting
    <3> HIDE DEF p
    <3>2. RestOK' /\ bam' = bam
      BY <1>4, <3>1 DEF OpenOn, RestOK
    <3>3. Good(pool', Bams)
      BY <1>3, <3>1, OpenOnGood
    <3>4. QED
      BY <3>2, <3>3, SameBamInv
  <2>2. ASSUME NEW name \in Names, OpenNew(sa, name, kind, outcome, fault)
        PROVE  Inv'
    <3>1. OpenOn(p, sa, kind, outcome) /\ files' \subseteq Names
      BY <1>4, <2>2 DEF OpenNew, RestOK
    <3> HIDE DEF p
    <3>2. RestOK' /\ bam' = bam
      BY <1>4, <3>1 DEF OpenOn, RestOK
    <3>3. Good(pool', Bams)
      BY <1>3, <3>1, OpenOnGood
    <3>4. QED
      BY <3>2, <3>3, SameBamInv
  <2>3. ASSUME NEW name \in Names, OpenReplace(sa, name, kind, outcome, fault)
        PROVE  Inv'
    <3>1. CASE check_free_buffers(p)
      <4>1. OpenOn(p, sa, kind, outcome) /\ files' \subseteq Names
        BY <1>4, <2>3, <3>1 DEF OpenReplace, RestOK
      <4> HIDE DEF p
      <4>2. RestOK' /\ bam' = bam
        BY <1>4, <4>1 DEF OpenOn, RestOK
      <4>3. Good(pool', Bams)
        BY <1>3, <4>1, OpenOnGood
      <4>4. QED
        BY <4>2, <4>3, SameBamInv
    <3>2. CASE ~check_free_buffers(p)
      <4>1. RestOK' /\ bam' = bam /\ pool' = EndCommand(p)
        BY <1>4, <2>3, <3>2 DEF OpenReplace, RestOK
      <4>2. QED
        BY <1>3, <4>1, SameBamInv
    <3>3. QED
      BY <3>1, <3>2
  <2>4. QED
    BY <1>7, <2>1, <2>2, <2>3
<1>8. QED
  BY <1>1, <1>5, <1>6, <1>7

\* CLOSE of one channel.
LEMMA CloseChannelInv ==
  ASSUME Inv, NEW sa \in SAs, NEW fault, CloseChannel(sa, fault)
  PROVE  Inv'
<1>1. Good(pool, Bams) /\ sa \in 0 .. 14
  BY HostAddress DEF Inv
<1>2. Good(pool', Bams)
  BY <1>1, CleanupAndFreeGood DEF CloseChannel
<1>3. RestOK' /\ bam' = bam
  BY DEF Inv, RestOK, CloseChannel
<1>4. QED
  BY <1>2, <1>3, SameBamInv

\* Clearing the read flag of a buffer.
LEMMA SetReadFlag ==
  ASSUME NEW c \in Buffer
  PROVE  LET d == [c EXCEPT !.read = FALSE]
         IN  /\ d \in Buffer /\ d.cleanup = c.cleanup
             /\ d.allocated = c.allocated /\ d.secondary = c.secondary
             /\ d.dirty = c.dirty /\ d.first = c.first /\ d.next = c.next
             /\ d.refill = c.refill /\ d.sticky = c.sticky
<1> DEFINE d == [c EXCEPT !.read = FALSE]
<1>1. d \in Buffer
  BY DEF Buffer
<1>2. /\ d.cleanup = c.cleanup /\ d.secondary = c.secondary
      /\ d.first = c.first /\ d.next = c.next /\ d.refill = c.refill
  BY DEF Buffer
<1>3. d.allocated = c.allocated /\ d.dirty = c.dirty /\ d.sticky = c.sticky
  BY DEF Buffer
<1>4. QED
  BY <1>1, <1>2, <1>3

\* It keeps the pool good when the buffer is in no chain.
LEMMA ReadOffGood ==
  ASSUME NEW p, NEW B, Good(p, B), NEW i \in Slots, p.buf[i].allocated, ~Large(p, i)
  PROVE  Good([p EXCEPT !.buf[i].read = FALSE], B)
<1> DEFINE b == [p.buf[i] EXCEPT !.read = FALSE]
           q == [p EXCEPT !.buf[i] = b]
<1>1. PoolInv(p) /\ p \in Pool /\ i \in 0 .. BufferCount
  BY BufferCountAssumption DEF Good, PoolInv, Slots
<1>2. p.buf[i] \in Buffer
  BY <1>1, PoolFields
<1>3. /\ b \in Buffer /\ b.cleanup = p.buf[i].cleanup
      /\ b.allocated = p.buf[i].allocated /\ b.dirty = p.buf[i].dirty
      /\ b.secondary = p.buf[i].secondary /\ b.refill = p.buf[i].refill
      /\ b.first = p.buf[i].first /\ b.next = p.buf[i].next
      /\ b.sticky = p.buf[i].sticky
  BY <1>2, SetReadFlag
<1>4. [p EXCEPT !.buf[i].read = FALSE] = q
  OBVIOUS
<1> HIDE DEF b, q
<1>5. /\ b.next = NULL /\ b.secondary # SecondaryCommand /\ b.allocated
      /\ b.cleanup # "largebuffer_cleanup"
      /\ b.refill = "directbuffer_refill" =>
           b.first = i /\ b.secondary < BUFFER_SEC_SYSTEM
  <2>1. p.buf[i].next = NULL
    BY <1>1, PlainHasNoNext DEF PoolInv
  <2>2. QED
    BY <1>1, <1>3, <2>1 DEF PoolInv, OneCommandChannel, SingleLinks, Large
<1>6. PoolInv(q) /\ q.buf = [p.buf EXCEPT ![i] = b]
  BY <1>1, <1>3, <1>5, SetPlain DEF q
<1>7. q.buf[i] = b /\ \A k \in Slots : k # i => q.buf[k] = p.buf[k]
  BY <1>1, <1>6, BufferCountAssumption DEF Pool, Slots
<1>8. BamsKept(p, q, {})
  <2>1. \A k \in Slots : /\ q.buf[k].allocated = p.buf[k].allocated
                         /\ q.buf[k].secondary = p.buf[k].secondary
                         /\ q.buf[k].sticky = p.buf[k].sticky
    BY <1>3, <1>7
  <2>2. QED
    BY <2>1 DEF BamsKept, BamSlots, StickyBams
<1>9. QED
  BY <1>4, <1>6, <1>8, KeptIsGood

\* mark_buffer_dirty on a channel's buffer, which stays the channel's.
LEMMA MarkDirtyGood ==
  ASSUME NEW p, NEW B, Good(p, B), NEW i \in Slots, p.buf[i].allocated,
         p.buf[i].secondary \in 0 .. 14
  PROVE  /\ Good(mark_buffer_dirty(p, i), B)
         /\ mark_buffer_dirty(p, i).buf[i].allocated
         /\ mark_buffer_dirty(p, i).buf[i].secondary \in 0 .. 14
<1> DEFINE q == mark_buffer_dirty(p, i)
<1>1. PoolInv(q) /\ BamsKept(p, q, {}) /\ OnlyDirtyChanged(p, q)
  BY MarkDirtyInv DEF Good
<1> HIDE DEF q
<1>2. Good(q, B)
  BY <1>1, KeptIsGood
<1>3. q.buf[i].allocated /\ q.buf[i].secondary \in 0 .. 14
  BY <1>1 DEF OnlyDirtyChanged
<1>4. QED
  BY <1>2, <1>3 DEF q

\* LISTEN data: the flush of a full buffer, the byte, the REL synchronization.
LEMMA ListenByteGood ==
  ASSUME Good(pool, Bams), NEW sa \in 0 .. 14, NEW full \in BOOLEAN,
         NEW eoi \in BOOLEAN, NEW fault, ListenByte(sa, full, eoi, fault)
  PROVE  Good(pool', Bams)
<1> DEFINE b  == find_buffer(pool, sa)
           p1 == IF full THEN refill(pool, b, fault) ELSE pool
           b1 == find_buffer(p1, sa)
           p2 == mark_buffer_dirty(p1, b1)
<1>1. b # NULL /\ pool' = CASE full /\ ~p1.buf[b].allocated -> p1
                   [] OTHER -> IF eoi /\ p2.buf[b1].refill = "fat_file_sync"
                                 THEN refill(p2, b1, fault) ELSE p2
  BY DEF ListenByte
<1>2. b \in Slots /\ pool.buf[b].allocated /\ pool.buf[b].secondary = sa
  BY <1>1, FindUser
<1>3. Good(p1, Bams) /\ (b1 # NULL \/ (full /\ ~p1.buf[b].allocated))
  <2> DEFINE r == refill(pool, b, fault)
  <2>1. CASE full
    <3>1. pool.buf[b].secondary \in 0 .. 14
      BY <1>2
    <3> HIDE DEF b
    <3>2. /\ Good(r, Bams)
          /\ \/ find_buffer(r, pool.buf[b].secondary) # NULL
             \/ r.buf[b].allocated = FALSE
      BY <1>2, <3>1, RefillGood
    <3>3. p1 = r
      BY <2>1
    <3> HIDE DEF r, p1
    <3>4. QED
      BY <1>2, <2>1, <3>2, <3>3
  <2>2. CASE ~full
    <3>1. p1 = pool
      BY <2>2
    <3>2. QED
      BY <1>1, <3>1
  <2>3. QED
    BY <2>1, <2>2
<1> HIDE DEF p1
<1>4. CASE full /\ ~p1.buf[b].allocated
  BY <1>1, <1>3, <1>4
<1>5. CASE ~(full /\ ~p1.buf[b].allocated)
  <2>1. b1 # NULL
    BY <1>3, <1>5
  <2>2. b1 \in Slots /\ p1.buf[b1].allocated /\ p1.buf[b1].secondary \in 0 .. 14
    BY <1>3, <2>1, FindUser
  <2>3. pool' = IF eoi /\ p2.buf[b1].refill = "fat_file_sync"
                  THEN refill(p2, b1, fault) ELSE p2
    BY <1>1, <1>5
  <2> HIDE DEF b1, b
  <2>4. /\ Good(p2, Bams) /\ p2.buf[b1].allocated
        /\ p2.buf[b1].secondary \in 0 .. 14
    BY <1>3, <2>2, MarkDirtyGood
  <2> HIDE DEF p2
  <2>5. Good(refill(p2, b1, fault), Bams)
    BY <2>2, <2>4, RefillGood
  <2>6. QED
    BY <2>3, <2>4, <2>5
<1>6. QED
  BY <1>4, <1>5

\* TALK data.
LEMMA TalkBlockGood ==
  ASSUME Good(pool, Bams), NEW sa \in 0 .. 14, NEW last \in BOOLEAN, NEW fault,
         TalkBlock(sa, last, fault)
  PROVE  Good(pool', Bams)
<1> DEFINE b == find_buffer(pool, sa)
<1>1. b # NULL /\ pool' = IF last /\ pool.buf[b].refill \notin {"fat_file_sync",
                                                       "directbuffer_refill"}
                   THEN [pool EXCEPT !.buf[b].read = FALSE]
                   ELSE refill(pool, b, fault)
  BY DEF TalkBlock
<1>2. b \in Slots /\ pool.buf[b].allocated /\ pool.buf[b].secondary \in 0 .. 14
  BY <1>1, FindUser
<1> HIDE DEF b
<1>3. Good(refill(pool, b, fault), Bams)
  BY <1>2, RefillGood
<1>4. CASE pool.buf[b].refill # "directbuffer_refill"
  <2>1. ~Large(pool, b)
    BY <1>2, <1>4, OtherRefillIsPlain DEF Good
  <2>2. Good([pool EXCEPT !.buf[b].read = FALSE], Bams)
    BY <1>2, <2>1, ReadOffGood
  <2>3. QED
    BY <1>1, <1>3, <2>2
<1>5. CASE pool.buf[b].refill = "directbuffer_refill"
  BY <1>1, <1>3, <1>5
<1>6. QED
  BY <1>4, <1>5

\* LISTEN and TALK data.
LEMMA TransferInv ==
  ASSUME Inv, NEW sa \in SAs, Transfer(sa)
  PROVE  Inv'
<1>1. Good(pool, Bams) /\ sa \in 0 .. 14
  BY HostAddress DEF Inv
<1>2. PICK fault \in Faults, e \in BOOLEAN :
        \/ \E full \in BOOLEAN : ListenByte(sa, full, e, fault)
        \/ TalkBlock(sa, e, fault)
  BY DEF Transfer
<1>3. Good(pool', Bams)
  BY <1>1, <1>2, ListenByteGood, TalkBlockGood
<1>4. RestOK' /\ bam' = bam
  BY <1>2 DEF Inv, RestOK, ListenByte, TalkBlock
<1>5. QED
  BY <1>3, <1>4, SameBamInv

\* P on the channel of a REL file.
LEMMA RecordPositionInv ==
  ASSUME Inv, NEW sa \in SAs, NEW fault \in Faults, RecordPosition(sa, fault)
  PROVE  Inv'
<1> DEFINE b == find_buffer(pool, sa)
<1>1. Good(pool, Bams) /\ sa \in 0 .. 14
  BY HostAddress DEF Inv
<1>2. RestOK' /\ bam' = bam
  BY DEF Inv, RestOK, RecordPosition
<1>3. b # NULL /\ pool' = EndCommand(refill(pool, b, fault))
  BY DEF RecordPosition
<1>4. b \in Slots /\ pool.buf[b].allocated /\ pool.buf[b].secondary \in 0 .. 14
  BY <1>1, <1>3, FindUser
<1> HIDE DEF b
<1>5. Good(refill(pool, b, fault), Bams)
  BY <1>1, <1>4, RefillGood
<1>6. Good(pool', Bams)
  BY <1>3, <1>5, EndCommandGood
<1>7. QED
  BY <1>2, <1>6, SameBamInv

\* Another member of a direct access buffer's chain: there is a chain.
LEMMA OtherMember ==
  ASSUME NEW p, PoolInv(p), NEW b \in Slots, p.buf[b].allocated,
         p.buf[b].refill = "directbuffer_refill", NEW j \in ChainOf(p, b), j # b
  PROVE  /\ Large(p, b) /\ Large(p, j) /\ j \in Slots
         /\ p.buf[j].first = p.buf[b].first
         /\ p.buf[j].allocated /\ p.buf[j].secondary < BUFFER_SEC_SYSTEM
<1>1. NextLinks(p) /\ FirstLinks(p) /\ SingleLinks(p)
  BY DEF PoolInv
<1>2. Large(p, b)
  <2>1. CASE ~Large(p, b)
    <3>1. p.buf[b].first = b
      BY <1>1, <2>1 DEF SingleLinks
    <3>2. j \in Slots /\ j >= b /\ \A k \in b .. j - 1 : p.buf[k].next = k + 1
      BY <3>1 DEF ChainOf
    <3>3. b \in b .. j - 1 /\ b + 1 # NULL
      BY <3>2, BufferCountAssumption DEF Slots, NULL
    <3>4. p.buf[b].next # NULL
      BY <3>2, <3>3
    <3>5. QED
      BY <1>1, <3>4 DEF NextLinks
  <2>2. QED
    BY <2>1
<1>3. j \in Slots /\ Large(p, j) /\ p.buf[j].first = p.buf[b].first
  BY <1>1, <1>2, ChainMembers
<1>4. QED
  BY <1>1, <1>2, <1>3 DEF FirstLinks, Large

\* Activating the active buffer changes nothing.
LEMMA ActivateSame ==
  ASSUME NEW p \in Pool, NEW b \in 0 .. BufferCount
  PROVE  Activate(p, b, b) = p
<1> DEFINE bs == [k \in 0 .. BufferCount |->
                    IF k = b THEN [p.buf[k] EXCEPT !.secondary = p.buf[b].secondary]
                    ELSE IF k = b
                      THEN [p.buf[k] EXCEPT !.secondary =
                              (BUFFER_SEC_CHAIN - p.buf[b].secondary) % 256]
                    ELSE p.buf[k]]
<1>1. Activate(p, b, b) = [p EXCEPT !.buf = bs]
  BY DEF Activate
<1>2. p.buf[b] \in Buffer /\ p.buf \in [0 .. BufferCount -> Buffer]
  BY DEF Pool
<1>3. [p.buf[b] EXCEPT !.secondary = p.buf[b].secondary] = p.buf[b]
  BY <1>2 DEF Buffer
<1>4. \A k \in 0 .. BufferCount : bs[k] = p.buf[k]
  BY <1>3
<1>5. bs = p.buf
  BY <1>2, <1>4
<1> HIDE DEF bs
<1>6. QED
  BY <1>1, <1>5 DEF Pool

\* B-P and the D commands, as long as they find what they expect.
LEMMA BufferPositionInv ==
  ASSUME Inv, NEW i \in 0 .. BufferCount, NEW j,
         BufferPosition(pool.buf[i].secondary, j), ~astray'
  PROVE  Inv'
<1> DEFINE a == pool.buf[i].secondary
           b == find_buffer(pool, a)
<1>1. Good(pool, Bams) /\ PoolInv(pool) /\ pool \in Pool
  BY DEF Inv, Good, PoolInv
<1>2. RestOK' /\ bam' = bam
  BY DEF Inv, RestOK, BufferPosition
<1>3. /\ b # NULL /\ pool' = EndCommand(Activate(pool, b, j))
      /\ j = b \/ (/\ pool.buf[b].refill = "directbuffer_refill"
                   /\ a < SecondaryCommand /\ j \in ChainOf(pool, b))
  BY DEF BufferPosition
<1>4. a \in 0 .. 255
  BY <1>1 DEF Pool, Buffer
<1> HIDE DEF a
<1>5. b \in 0 .. BufferCount
  BY <1>3, FindBufferHolds
<1>6. CASE j = b
  <2> HIDE DEF b
  <2>1. Activate(pool, b, j) = pool
    BY <1>1, <1>5, <1>6, ActivateSame
  <2>2. QED
    BY <1>1, <1>2, <1>3, <2>1, EndCommandGood, SameBamInv
<1>7. CASE j # b
  <2>1. a \in 0 .. 14
    BY <1>3, <1>4, <1>7 DEF SecondaryCommand
  <2>2. b \in Slots /\ pool.buf[b].allocated /\ pool.buf[b].secondary \in 0 .. 14
    BY <1>1, <1>3, <2>1, FindUser
  <2> HIDE DEF b
  <2>3. j \in Slots /\ pool.buf[j].allocated /\ pool.buf[j].secondary < BUFFER_SEC_SYSTEM
    BY <1>1, <1>3, <1>7, <2>2, OtherMember
  <2>4. PoolInv(Activate(pool, b, j)) /\ BamsKept(pool, Activate(pool, b, j), {})
    BY <1>1, <2>2, <2>3, ActivateInv
  <2>5. Good(Activate(pool, b, j), Bams)
    BY <1>1, <2>4, KeptIsGood
  <2>6. QED
    BY <1>2, <1>3, <2>5, EndCommandGood, SameBamInv
<1>8. QED
  BY <1>6, <1>7

\* Skipped only names slots.
LEMMA SkippedSlots == ASSUME NEW fails PROVE Skipped(pool, fails) \subseteq Slots
BY DEF Skipped, FMB_USER, Selected

\* CLOSE 15 and I.
LEMMA CloseAllInv ==
  ASSUME Inv, NEW fails,
         CloseAll(fails) \/ \E ready \in BOOLEAN : Initialize(ready, fails)
  PROVE  Inv'
<1> DEFINE p == free_user_clean(pool, fails)
<1>1. Good(p, Bams) /\ Good(pool, Bams)
  BY FreeUserCleanGood DEF Inv
<1>2. pool' = p \/ pool' = EndCommand(p) \/ pool' = EndCommand(pool)
  BY DEF CloseAll, Initialize
<1> HIDE DEF p
<1>3. Good(pool', Bams)
  BY <1>1, <1>2, EndCommandGood
<1>4. RestOK' /\ bam' = bam
  BY SkippedSlots DEF Inv, RestOK, CloseAll, Initialize
<1>5. QED
  BY <1>3, <1>4, SameBamInv

\* UJ: free_multiple_buffers(FMB_USER).
LEMMA ResetInv ==
  ASSUME Inv, Reset
  PROVE  Inv'
<1> DEFINE M == FMB_USER(pool)
<1>1. Good(pool, Bams) /\ PoolInv(pool)
  BY DEF Inv, Good
<1>2. M \in SUBSET Slots /\ WholeChains(pool, M)
  BY <1>1, FreedSetsAreWhole
<1>3. \A i \in M : i \notin Bams
  <2>1. \A i \in M : i \in Slots /\ pool.buf[i].secondary < BUFFER_SEC_SYSTEM
    BY DEF FMB_USER, Selected
  <2>2. QED
    BY <1>1, <2>1, UserIsNoBam
<1>4. Good(free_buffers(pool, M), Bams)
  <2> HIDE DEF M
  <2>1. QED
    BY <1>1, <1>2, <1>3, FreeUsersGood
<1>5. Good(pool', Bams)
  BY <1>4, EndCommandGood DEF Reset
<1>6. RestOK' /\ bam' = bam
  BY DEF Inv, RestOK, Reset
<1>7. QED
  BY <1>5, <1>6, SameBamInv

\* C and S.
LEMMA CopyScratchInv ==
  ASSUME Inv, NEW name \in Names,
         (\E outcome \in CopyOutcomes : Copy(name, outcome)) \/ Scratch(name)
  PROVE  Inv'
<1>1. Good(pool, Bams)
  BY DEF Inv
<1>2. RestOK' /\ bam' = bam
  BY DEF Inv, RestOK, Copy, Scratch
<1>3. ASSUME NEW outcome \in CopyOutcomes, Copy(name, outcome)
      PROVE  Good(pool', Bams)
  <2>1. pool' = EndCommand(IF FirstFree(pool) = NULL THEN pool
                           ELSE CopyResult(pool, outcome))
    BY <1>3 DEF Copy
  <2>2. FirstFree(pool) # NULL => Good(CopyResult(pool, outcome), Bams)
    BY <1>1, CopyResultGood
  <2>3. QED
    BY <1>1, <2>1, <2>2, EndCommandGood
<1>4. ASSUME Scratch(name) PROVE Good(pool', Bams)
  BY <1>1, <1>4, EndCommandGood DEF Scratch
<1>5. QED
  BY <1>2, <1>3, <1>4, SameBamInv

\* MD and N on a disk image, and M-W.
LEMMA WorkBufferInv ==
  ASSUME Inv, (\E format \in BOOLEAN : ImageWork(format)) \/ MemWriteCapture
  PROVE  Inv'
<1> DEFINE i == FirstFree(pool)
           a == alloc_buffer(pool)
           d == mark_buffer_dirty([a EXCEPT !.buf[i] = [FreshBuffer(0, NULL, NULL)
                                                          EXCEPT !.write = TRUE]], i)
           c == [alloc_system_buffer(pool) EXCEPT
                   !.buf[i] = [FreshBuffer(BUFFER_SYS_CAPTURE1, NULL, NULL)
                                 EXCEPT !.sticky = TRUE]]
<1>1. Good(pool, Bams)
  BY DEF Inv
<1>2. RestOK' /\ bam' = bam
  BY DEF Inv, RestOK, ImageWork, MemWriteCapture
<1>3. \E q \in {a, d, c, pool} : pool' = EndCommand(q) /\ (i = NULL => q = pool)
  BY DEF ImageWork, MemWriteCapture
<1>4. i # NULL => Good(a, Bams)
  BY <1>1, AllocGood
<1>5. i # NULL => Good(d, Bams)
  BY <1>1, FormatGood
<1>6. i # NULL => Good(c, Bams)
  BY <1>1, CaptureGood
<1> HIDE DEF a, d, c
<1>7. Good(pool', Bams)
  BY <1>1, <1>3, <1>4, <1>5, <1>6, EndCommandGood
<1>8. QED
  BY <1>2, <1>7, SameBamInv

-----------------------------------------------------------------------------
(* The actions that move the BAM pointers.                                 *)

\* What is left to show of an action that does.
LEMMA NewBamInv ==
  ASSUME NEW B, RestOK', PointersOK', Bams' = B, Good(pool', B)
  PROVE  Inv'
BY DEF Inv, Good, PoolInv

\* The BAM pointers are null or slots.
LEMMA BamSlotOrNull ==
  ASSUME RestOK
  PROVE  /\ bam.buffer \in Slots \cup {NULL} /\ bam.buffer2 \in Slots \cup {NULL}
         /\ bam.refcount \in 0 .. 255 /\ Bams \in SUBSET Slots /\ NULL \notin Slots
BY DEF RestOK, Bams, Slots, NULL

\* CD into an image.
LEMMA MountInv ==
  ASSUME Inv, NEW part \in Partitions, NEW valid \in BOOLEAN, NEW fails,
         Mount(part, valid, fails)
  PROVE  Inv'
<1> DEFINE p == free_user_clean(pool, fails)
           i == FirstFree(p)
           alloc == valid /\ bam.buffer = NULL
<1>1. RestOK /\ PointersOK /\ Good(pool, Bams)
  BY DEF Inv
<1>2. Good(p, Bams)
  BY <1>1, FreeUserCleanGood
<1>3. skipped' \subseteq Slots /\ opened' = opened /\ files' = files
  BY SkippedSlots DEF Mount
<1>4. CASE ~valid \/ (alloc /\ i = NULL)
  <2>1. /\ pool' = EndCommand(p) /\ bam' = bam /\ mounted' = mounted
        /\ error' \in {"OK", "NO_CHANNEL", "OTHER"}
    BY <1>4 DEF Mount
  <2> HIDE DEF p
  <2>2. Good(pool', Bams)
    BY <1>2, <2>1, EndCommandGood
  <2>3. RestOK'
    BY <1>1, <1>3, <2>1 DEF RestOK
  <2>4. QED
    BY <2>1, <2>2, <2>3, SameBamInv
<1>5. CASE ~(~valid \/ (alloc /\ i = NULL))
  <2>1. /\ pool' = EndCommand(IF alloc THEN bam_buffer_alloc(p) ELSE p)
        /\ bam' = [buffer |-> IF alloc THEN i ELSE bam.buffer,
                   buffer2 |-> bam.buffer2, refcount |-> (bam.refcount + 1) % 256]
        /\ mounted' = mounted \cup {part} /\ error' = "OK"
    BY <1>5 DEF Mount
  <2>2. /\ bam.buffer \in Slots \cup {NULL} /\ bam.buffer2 \in Slots \cup {NULL}
        /\ bam.refcount \in 0 .. 255 /\ NULL \notin Slots
    BY <1>1, BamSlotOrNull
  <2>3. (bam.refcount + 1) % 256 \in 0 .. 255
    BY <2>2
  <2> HIDE DEF p
  <2>4. CASE alloc
    <3>1. i # NULL
      BY <1>5, <2>4
    <3>2. /\ Good(bam_buffer_alloc(p), Bams \cup {i})
          /\ i \in Slots /\ i \notin Bams
      BY <1>2, <3>1, BamAllocGood
    <3> HIDE DEF i
    <3>3. bam.buffer = NULL /\ bam.buffer2 = NULL /\ Bams = {}
      BY <1>1, <2>4 DEF PointersOK, Bams
    <3>4. bam' = [buffer |-> i, buffer2 |-> NULL,
                  refcount |-> (bam.refcount + 1) % 256]
      BY <2>1, <2>4, <3>3
    <3>5. bam'.buffer = i /\ bam'.buffer2 = NULL
      BY <3>4
    <3>6. Bams' = Bams \cup {i} /\ PointersOK'
      BY <2>2, <3>2, <3>3, <3>5 DEF Bams, PointersOK
    <3>7. RestOK'
      BY <1>1, <1>3, <2>1, <2>3, <3>2, <3>4 DEF RestOK
    <3>8. Good(pool', Bams \cup {i})
      BY <2>1, <2>4, <3>2, EndCommandGood
    <3>9. QED
      BY <3>6, <3>7, <3>8, NewBamInv
  <2>5. CASE ~alloc
    <3>1. bam' = [buffer |-> bam.buffer, buffer2 |-> bam.buffer2,
                  refcount |-> (bam.refcount + 1) % 256]
      BY <2>1, <2>5
    <3>2. bam'.buffer = bam.buffer /\ bam'.buffer2 = bam.buffer2
      BY <3>1
    <3>3. Bams' = Bams /\ PointersOK'
      BY <1>1, <3>2 DEF Bams, PointersOK
    <3>4. RestOK'
      BY <1>1, <1>3, <2>1, <2>2, <2>3, <3>1 DEF RestOK
    <3>5. Good(pool', Bams)
      BY <1>2, <2>1, <2>5, EndCommandGood
    <3>6. QED
      BY <3>3, <3>4, <3>5, NewBamInv
  <2>6. QED
    BY <2>4, <2>5
<1>6. QED
  BY <1>4, <1>5

\* CD_ out of an image.
LEMMA UnmountInv ==
  ASSUME Inv, NEW part \in Partitions, NEW fails, Unmount(part, fails)
  PROVE  Inv'
<1> DEFINE p == free_user_clean(pool, fails)
           n == (bam.refcount - 1) % 256
<1>1. RestOK /\ PointersOK /\ Good(pool, Bams)
  BY DEF Inv
<1>2. Good(p, Bams)
  BY <1>1, FreeUserCleanGood
<1>3. /\ skipped' \subseteq Slots /\ opened' = opened /\ files' = files
      /\ error' \in {"OK", "OTHER"} /\ mounted' = mounted \ {part}
  BY SkippedSlots DEF Unmount
<1>4. /\ bam.buffer \in Slots \cup {NULL} /\ bam.buffer2 \in Slots \cup {NULL}
      /\ bam.refcount \in 0 .. 255 /\ Bams \in SUBSET Slots /\ NULL \notin Slots
  BY <1>1, BamSlotOrNull
<1>5. n \in 0 .. 255
  BY <1>4
<1>6. /\ pool' = EndCommand(IF n # 0 THEN free_buffers(p, Bams) ELSE p)
      /\ bam' = IF n # 0
                  THEN [buffer |-> NULL, buffer2 |-> NULL, refcount |-> n]
                  ELSE [buffer |-> bam.buffer, buffer2 |-> bam.buffer2,
                        refcount |-> n]
  BY DEF Unmount, Bams
<1> HIDE DEF p, n
<1>7. CASE n # 0
  <2>1. bam' = [buffer |-> NULL, buffer2 |-> NULL, refcount |-> n]
    BY <1>6, <1>7
  <2>2. Bams' = {} /\ PointersOK'
    BY <2>1 DEF Bams, PointersOK
  <2>3. RestOK'
    BY <1>1, <1>3, <1>5, <2>1 DEF RestOK
  <2>4. \A i \in Bams : ~Large(p, i)
    BY <1>2, BamIsPlain
  <2>5. Good(free_buffers(p, Bams), Bams \ Bams)
    BY <1>2, <1>4, <2>4, FreePlainGood
  <2>6. Good(free_buffers(p, Bams), {})
    BY <2>5
  <2>7. Good(pool', {})
    BY <1>6, <1>7, <2>6, EndCommandGood
  <2>8. QED
    BY <2>2, <2>3, <2>7, NewBamInv
<1>8. CASE n = 0
  <2>1. bam' = [buffer |-> bam.buffer, buffer2 |-> bam.buffer2, refcount |-> n]
    BY <1>6, <1>8
  <2>2. bam'.buffer = bam.buffer /\ bam'.buffer2 = bam.buffer2
    BY <2>1
  <2>3. Bams' = Bams /\ PointersOK'
    BY <1>1, <2>2 DEF Bams, PointersOK
  <2>4. RestOK'
    BY <1>1, <1>3, <1>4, <1>5, <2>1 DEF RestOK
  <2>5. Good(pool', Bams)
    BY <1>2, <1>6, <1>8, EndCommandGood
  <2>6. QED
    BY <2>3, <2>4, <2>5, NewBamInv
<1>9. QED
  BY <1>7, <1>8

\* move_bam_window.
LEMMA MoveBamWindowInv ==
  ASSUME Inv, MoveBamWindow
  PROVE  Inv'
<1> DEFINE i == FirstFree(pool)
<1>1. RestOK /\ PointersOK /\ Good(pool, Bams)
  BY DEF Inv
<1>2. /\ bam.buffer \in Slots \cup {NULL} /\ bam.buffer2 \in Slots \cup {NULL}
      /\ bam.refcount \in 0 .. 255 /\ Bams \in SUBSET Slots /\ NULL \notin Slots
  BY <1>1, BamSlotOrNull
<1>3. /\ skipped' = {} /\ opened' = opened /\ files' = files
      /\ error' = error /\ mounted' = mounted /\ bam.buffer # NULL
  BY DEF MoveBamWindow
<1>4. CASE bam.buffer2 = NULL /\ i = NULL
  <2>1. pool' = pool /\ bam' = bam
    BY <1>4 DEF MoveBamWindow
  <2>2. RestOK'
    BY <1>1, <1>3, <2>1 DEF RestOK
  <2>3. QED
    BY <1>1, <2>1, <2>2, SameBamInv
<1>5. CASE bam.buffer2 = NULL /\ i # NULL
  <2>1. /\ pool' = bam_buffer_alloc(pool)
        /\ bam' = [buffer |-> i, buffer2 |-> bam.buffer, refcount |-> bam.refcount]
    BY <1>5 DEF MoveBamWindow
  <2>2. Good(bam_buffer_alloc(pool), Bams \cup {i}) /\ i \in Slots /\ i \notin Bams
    BY <1>1, <1>5, BamAllocGood
  <2> HIDE DEF i
  <2>3. bam'.buffer = i /\ bam'.buffer2 = bam.buffer
    BY <2>1
  <2>4. Bams' = Bams \cup {i} /\ PointersOK'
    BY <1>2, <1>3, <1>5, <2>2, <2>3 DEF Bams, PointersOK
  <2>5. RestOK'
    BY <1>1, <1>2, <1>3, <2>1, <2>2 DEF RestOK
  <2>6. Good(pool', Bams \cup {i})
    BY <2>1, <2>2
  <2>7. QED
    BY <2>4, <2>5, <2>6, NewBamInv
<1>6. CASE bam.buffer2 # NULL
  <2>1. /\ pool' = pool
        /\ bam' = [buffer |-> bam.buffer2, buffer2 |-> bam.buffer,
                   refcount |-> bam.refcount]
    BY <1>6 DEF MoveBamWindow
  <2>2. bam'.buffer = bam.buffer2 /\ bam'.buffer2 = bam.buffer
    BY <2>1
  <2>3. Bams' = Bams /\ PointersOK'
    BY <1>1, <1>3, <1>6, <2>2 DEF Bams, PointersOK
  <2>4. RestOK'
    BY <1>1, <1>2, <1>3, <2>1 DEF RestOK
  <2>5. QED
    BY <1>1, <2>1, <2>3, <2>4, NewBamInv
<1>7. QED
  BY <1>4, <1>5, <1>6

\* A card change.
LEMMA CardChangeInv ==
  ASSUME Inv, NEW changed \in BOOLEAN, CardChange(changed)
  PROVE  Inv'
<1> DEFINE p == [pool EXCEPT !.busy_led = TRUE]
           q == IF changed THEN free_buffers(p, FMB_ALL(p)) ELSE p
           r == free_buffers(q, Bams)
<1>1. RestOK /\ PointersOK /\ Good(pool, Bams)
  BY DEF Inv
<1>2. /\ pool' = IF Bus = "IEC" THEN update_leds(r) ELSE r
      /\ bam' = [buffer |-> NULL, buffer2 |-> NULL, refcount |-> 0]
      /\ mounted' = {} /\ skipped' = {} /\ opened' = opened /\ error' = error
      /\ files' \subseteq Names
  BY <1>1 DEF CardChange, Bams, RestOK
<1>3. Bams' = {} /\ PointersOK'
  BY <1>2 DEF Bams, PointersOK
<1>4. RestOK'
  <2>1. 0 \in 0 .. 255
    OBVIOUS
  <2>2. QED
    BY <1>1, <1>2, <2>1 DEF RestOK
<1>5. Good(p, Bams)
  <2>1. pool \in Pool
    BY <1>1 DEF Good, PoolInv
  <2>2. p \in Pool /\ p.buf = pool.buf /\ p.active = pool.active
    BY <2>1 DEF Pool
  <2> HIDE DEF p
  <2>3. QED
    BY <1>1, <2>2, LedsGood
<1> HIDE DEF p
<1>6. Bams \in SUBSET Slots
  BY <1>1, BamSlotOrNull
<1>7. CASE changed
  <2> DEFINE M == FMB_ALL(p)
  <2>1. PoolInv(p) /\ M \in SUBSET Slots /\ WholeChains(p, M)
    BY <1>5, FreedSetsAreWhole DEF Good
  <2>2. \A i \in Bams : i \in M
    BY <1>5 DEF Good, BamSlots, FMB_ALL, Selected
  <2> HIDE DEF M
  <2>3. PoolInv(free_buffers(p, M)) /\ BamsKept(p, free_buffers(p, M), M)
    BY <2>1, FreeInv
  <2>4. Good(free_buffers(p, M), {})
    BY <1>5, <2>2, <2>3 DEF Good, BamsKept
  <2>5. q = free_buffers(p, M)
    BY <1>7 DEF M
  <2> HIDE DEF q
  <2>6. \A i \in Bams : ~Large(q, i)
    <3>1. ASSUME NEW i \in Bams PROVE ~Large(q, i)
      <4>1. free_buffers(p, M).buf[i].allocated = FALSE
        BY <2>1, <2>2, FreedIsFree
      <4>2. QED
        BY <2>5, <4>1 DEF Large
    <3>2. QED
      BY <3>1
  <2>7. Good(r, {} \ Bams)
    BY <1>6, <2>4, <2>5, <2>6, FreePlainGood
  <2>8. Good(r, {})
    BY <2>7
  <2> HIDE DEF r
  <2>9. Good(update_leds(r), {})
    BY <2>8, UpdateLedsType, LedsGood DEF Good, PoolInv
  <2>10. QED
    BY <1>2, <1>3, <1>4, <2>8, <2>9, NewBamInv
<1>8. CASE ~changed
  <2>1. q = p
    BY <1>8
  <2>2. \A i \in Bams : ~Large(p, i)
    BY <1>5, BamIsPlain
  <2>3. Good(free_buffers(p, Bams), Bams \ Bams)
    BY <1>5, <1>6, <2>2, FreePlainGood
  <2>4. Good(r, {})
    BY <2>1, <2>3
  <2> HIDE DEF r
  <2>5. Good(update_leds(r), {})
    BY <2>4, UpdateLedsType, LedsGood DEF Good, PoolInv
  <2>6. QED
    BY <1>2, <1>3, <1>4, <2>4, <2>5, NewBamInv
<1>9. QED
  BY <1>7, <1>8

-----------------------------------------------------------------------------
(* The theorems.                                                           *)

\* Every handler but B-P keeps Inv.
LEMMA HandlerInv == Inv /\ Handler => Inv'
<1>1. SUFFICES ASSUME Inv, Handler PROVE Inv'
  OBVIOUS
<1>2. ASSUME NEW sa \in SAs,
             \/ Open(sa)
             \/ \E fault \in CleanupFaults(sa) : CloseChannel(sa, fault)
             \/ \E fault \in Faults : RecordPosition(sa, fault)
             \/ Transfer(sa)
      PROVE  Inv'
  BY <1>1, <1>2, OpenInv, CloseChannelInv, TransferInv, RecordPositionInv
<1>3. ASSUME NEW fails,
             CloseAll(fails) \/ \E ready \in BOOLEAN : Initialize(ready, fails)
      PROVE  Inv'
  BY <1>1, <1>3, CloseAllInv
<1>4. ASSUME NEW fails, NEW part \in Partitions,
             (\E valid \in BOOLEAN : Mount(part, valid, fails)) \/ Unmount(part, fails)
      PROVE  Inv'
  BY <1>1, <1>4, MountInv, UnmountInv
<1>5. ASSUME NEW name \in Names,
             (\E outcome \in CopyOutcomes : Copy(name, outcome)) \/ Scratch(name)
      PROVE  Inv'
  BY <1>1, <1>5, CopyScratchInv
<1>6. ASSUME \/ Reset
             \/ \E format \in BOOLEAN : ImageWork(format)
             \/ MemWriteCapture
             \/ MoveBamWindow
             \/ \E changed \in BOOLEAN : CardChange(changed)
      PROVE  Inv'
  BY <1>1, <1>6, ResetInv, WorkBufferInv, MoveBamWindowInv, CardChangeInv
<1>7. QED
  BY <1>1, <1>2, <1>3, <1>4, <1>5, <1>6 DEF Handler

\* A pool that keeps its type through free_buffers, whatever its addresses are.
LEMMA FreePool ==
  ASSUME NEW p \in Pool, NEW M \in SUBSET Slots
  PROVE  free_buffers(p, M) \in Pool
<1> DEFINE F == {i \in M : p.buf[i].allocated /\ p.buf[i].secondary # SecondaryCommand}
           D == {i \in F : p.buf[i].dirty}
           U == {i \in F : p.buf[i].secondary < BUFFER_SEC_SYSTEM}
           bs == [i \in 0 .. BufferCount |->
                    IF i \in F THEN [ZeroBuffer EXCEPT !.dirty = p.buf[i].dirty]
                               ELSE p.buf[i]]
           a == (p.active - 16 * Cardinality(D) - Cardinality(U)) % 256
           r == [p EXCEPT !.buf = bs, !.active = a]
<1>1. free_buffers(p, M) = IF F = {} THEN p ELSE update_leds(r)
  BY DEF free_buffers
<1>2. bs \in [0 .. BufferCount -> Buffer]
  <2>1. ASSUME NEW i \in 0 .. BufferCount
        PROVE  p.buf[i] \in Buffer /\ [ZeroBuffer EXCEPT !.dirty = p.buf[i].dirty] \in Buffer
    <3>1. ZeroBuffer \in Buffer
      BY DEF ZeroBuffer, Buffer, Refills, Cleanups
    <3>2. p.buf[i] \in Buffer /\ p.buf[i].dirty \in BOOLEAN
      BY DEF Pool, Buffer
    <3>3. QED
      BY <3>1, <3>2 DEF Buffer
  <2>2. QED
    BY <2>1
<1>3. Cardinality(D) \in Nat /\ Cardinality(U) \in Nat
  <2>1. D \subseteq Slots /\ U \subseteq Slots /\ IsFiniteSet(Slots)
    BY FinitePool
  <2>2. QED
    BY <2>1, FS_Subset, FS_CardinalityType
<1>4. a \in 0 .. 255
  <2>1. p.active \in Int
    BY PoolActive
  <2>2. p.active - 16 * Cardinality(D) - Cardinality(U) \in Int
    BY <1>3, <2>1
  <2>3. QED
    BY <2>2, ByteAdd
<1> HIDE DEF a, bs, D, U, F
<1>5. r \in Pool
  BY <1>2, <1>4 DEF Pool
<1> HIDE DEF r
<1>6. QED
  BY <1>1, <1>5, UpdateLedsType

\* Types hold even after a B-P has gone astray: it writes addresses.
LEMMA BufferPositionType ==
  ASSUME TypeOK, NEW i \in 0 .. BufferCount, NEW j, BufferPosition(pool.buf[i].secondary, j)
  PROVE  TypeOK'
<1> DEFINE b == find_buffer(pool, pool.buf[i].secondary)
           sec == pool.buf[b].secondary
           other == (BUFFER_SEC_CHAIN - sec) % 256
           bs == [k \in 0 .. BufferCount |->
                    IF k = j THEN [pool.buf[k] EXCEPT !.secondary = sec]
                    ELSE IF k = b THEN [pool.buf[k] EXCEPT !.secondary = other]
                    ELSE pool.buf[k]]
           q == Activate(pool, b, j)
<1>1. pool \in Pool /\ pool' = EndCommand(q) /\ b \in 0 .. BufferCount
  BY FindBufferHolds DEF TypeOK, BufferPosition
<1>2. q = [pool EXCEPT !.buf = bs]
  BY DEF Activate
<1> HIDE DEF b, q
<1>3. sec \in 0 .. 255
  BY <1>1 DEF Pool, Buffer
<1>4. other \in 0 .. 255
  <2>1. BUFFER_SEC_CHAIN - sec \in Int
    BY <1>3 DEF BUFFER_SEC_CHAIN
  <2>2. QED
    BY <2>1, ByteAdd
<1> HIDE DEF sec, other
<1>5. bs \in [0 .. BufferCount -> Buffer]
  <2>1. ASSUME NEW k \in 0 .. BufferCount
        PROVE  /\ pool.buf[k] \in Buffer
               /\ [pool.buf[k] EXCEPT !.secondary = sec] \in Buffer
               /\ [pool.buf[k] EXCEPT !.secondary = other] \in Buffer
    <3>1. pool.buf[k] \in Buffer
      BY <1>1 DEF Pool
    <3>2. QED
      BY <1>3, <1>4, <3>1, SetSecondary
  <2>2. QED
    BY <2>1
<1> HIDE DEF bs
<1>6. q \in Pool
  BY <1>1, <1>2, <1>5 DEF Pool
<1>7. EndCommand(q) \in Pool
  BY <1>6, FreePool DEF EndCommand, FMB_UNSTICKY, Selected
<1>8. /\ opened' = opened /\ files' = files /\ error' = error /\ mounted' = mounted
      /\ bam' = bam /\ skipped' = {} /\ astray' \in BOOLEAN
  BY DEF BufferPosition
<1>9. QED
  BY <1>1, <1>7, <1>8 DEF TypeOK

\* Switching the drive off and on.
LEMMA PowerOnInv == ASSUME files \subseteq Names, PowerOn PROVE Inv'
<1>1. (files \in SUBSET Names)'
  BY DEF PowerOn
<1>2. (Init => Inv)'
  BY InitInv, PTL
<1>3. Init'
  BY <1>1 DEF PowerOn, Init
<1>4. QED
  BY <1>2, <1>3

\* What holds in every state: the types, and Inv unless a B-P has gone astray.
Safe == TypeOK /\ (astray \/ Inv)

\* Inv and astray give the types.
LEMMA InvIsSafe == Inv /\ astray \in BOOLEAN => Safe
BY InvImplies DEF Safe

\* Safe holds initially.
LEMMA InitSafe == Init => Safe
BY InitInv, InvIsSafe DEF Init

\* Every step keeps it.
LEMMA NextSafe == Safe /\ [Next]_vars => Safe'
<1>1. SUFFICES ASSUME Safe, [Next]_vars PROVE Safe'
  OBVIOUS
<1>2. TypeOK /\ astray \in BOOLEAN /\ files \subseteq Names
  BY <1>1 DEF Safe, TypeOK
<1>3. Inv' /\ (astray \in BOOLEAN)' => Safe'
  BY InvIsSafe, PTL
<1>4. CASE ~astray /\ Handler /\ UNCHANGED astray
  BY <1>1, <1>2, <1>3, <1>4, HandlerInv DEF Safe
<1>5. ASSUME ~astray, NEW i \in 0 .. BufferCount, NEW j,
             BufferPosition(pool.buf[i].secondary, j)
      PROVE  Safe'
  <2>1. TypeOK'
    BY <1>2, <1>5, BufferPositionType
  <2>2. astray' \/ Inv'
    BY <1>1, <1>5, BufferPositionInv DEF Safe
  <2>3. QED
    BY <2>1, <2>2 DEF Safe
<1>6. CASE PowerOn
  BY <1>2, <1>3, <1>6, PowerOnInv DEF PowerOn
<1>7. CASE UNCHANGED vars
  <2>1. Inv => Inv'
    <3>1. Inv => RestOK' /\ bam' = bam /\ pool' = pool
      BY <1>7 DEF Inv, RestOK, vars
    <3>2. QED
      BY <3>1, SameBamInv DEF Inv
  <2>2. TypeOK' /\ astray' = astray
    BY <1>2, <1>7 DEF TypeOK, vars
  <2>3. QED
    BY <1>1, <2>1, <2>2 DEF Safe
<1>8. QED
  BY <1>1, <1>4, <1>5, <1>6, <1>7 DEF Next

\* The invariant holds in every state the handlers can reach, as long as no B-P
\* has gone astray: the counter is exact, next and first pointers describe
\* whole chains, only the error buffer answers to 15, and the BAM pointers are
\* the sticky BAM buffers of the pool.
THEOREM PoolInvariantHolds == Spec => []PoolInvariant
<1>1. Safe => PoolInvariant
  BY InvImplies DEF Safe, PoolInvariant
<1>2. QED
  BY <1>1, InitSafe, NextSafe, PTL DEF Spec

\* Type correctness of the channels' state.
THEOREM TypeCorrect == Spec => []TypeOK
<1>1. Safe => TypeOK
  BY DEF Safe
<1>2. QED
  BY <1>1, InitSafe, NextSafe, PTL DEF Spec

\* active_buffers is exact, modulo 256, after every handler: no path of the
\* callbacks frees a buffer twice, forgets a dirty mark or moves an address
\* between a user and a system buffer; only a B-P that goes astray may.
THEOREM ActiveBuffersCorrect == Spec => []ActiveBuffersExact
<1>1. PoolInvariant => ActiveBuffersExact
  BY DEF PoolInvariant, PoolInv, ActiveBuffersExact
<1>2. QED
  BY <1>1, PoolInvariantHolds, PTL

\* d64ops.c never keeps a pointer to a buffer that is free or another's, and
\* never loses one, unless a B-P has gone astray.
THEOREM BamPointersCorrect == Spec => []BamPointersExact
<1>1. PoolInvariant => BamPointersExact
  BY DEF PoolInvariant, BamPointersExact
<1>2. QED
  BY <1>1, PoolInvariantHolds, PTL
=============================================================================
