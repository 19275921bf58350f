------------------------------ MODULE BufferPool ------------------------------
(***************************************************************************)
(* The buffer pool of src/src/buffers.c: CONFIG_BUFFER_COUNT data buffers  *)
(* plus the error channel's, the byte active_buffers that counts the user  *)
(* buffers in its low nibble and the dirty ones in its high nibble, and    *)
(* the BUSY and DIRTY LEDs driven from it.  The module has no variable: a  *)
(* pool is a value p, and every function of buffers.c is an operator from  *)
(* pools to pools.  The data bytes and the positions in them are left to   *)
(* module ByteStream.                                                      *)
(***************************************************************************)
EXTENDS Integers, FiniteSets, FiniteSetsExt

CONSTANT BufferCount    \* CONFIG_BUFFER_COUNT: 6, 15 or 32 in the shipped builds

\* A chain of buffers and the count of the users both have to fit a uint8_t.
ASSUME BufferCountAssumption == BufferCount \in 1 .. 254

NULL        == -1
Slots       == 0 .. BufferCount - 1
ErrorBuffer == BufferCount              \* ERRORBUFFER_IDX

BUFFER_SEC_SYSTEM   == 100
BUFFER_SYS_BAM      == 101
BUFFER_SYS_CAPTURE1 == 102
BUFFER_SEC_CHAIN    == 99
SecondaryCommand    == 15

\* The callbacks a buffer can carry, named for the function they point to.
Refills  == {"none", "callback_dummy", "set_ok_message", "fat_file_read",
             "fat_file_write", "fat_file_sync", "d64_read", "d64_write",
             "dir_refill", "directbuffer_refill"}
Cleanups == {"none", "callback_dummy", "fat_file_close", "d64_write_cleanup",
             "largebuffer_cleanup", "bam_buffer_flush"}

Buffer == [allocated : BOOLEAN, secondary : 0 .. 255, dirty : BOOLEAN,
           sticky : BOOLEAN, read : BOOLEAN, write : BOOLEAN,
           refill : Refills, cleanup : Cleanups,
           first : Slots \cup {NULL}, next : Slots \cup {NULL}]

\* memset(..., 0, ...)
ZeroBuffer == [allocated |-> FALSE, secondary |-> 0, dirty |-> FALSE,
               sticky |-> FALSE, read |-> FALSE, write |-> FALSE,
               refill |-> "none", cleanup |-> "none",
               first |-> NULL, next |-> NULL]

\* A zeroed buffer, allocated, with the dummy callbacks.
FreshBuffer(secondary, first, next) ==
  [allocated |-> TRUE, secondary |-> secondary, dirty |-> FALSE,
   sticky |-> FALSE, read |-> FALSE, write |-> FALSE,
   refill |-> "callback_dummy", cleanup |-> "callback_dummy",
   first |-> first, next |-> next]

\* The error channel's buffer, which is never allocated nor freed.
ErrorChannel ==
  [allocated |-> TRUE, secondary |-> SecondaryCommand, dirty |-> FALSE,
   sticky |-> FALSE, read |-> TRUE, write |-> TRUE,
   refill |-> "set_ok_message", cleanup |-> "callback_dummy",
   first |-> NULL, next |-> NULL]

Pool == [buf : [0 .. BufferCount -> Buffer], active : 0 .. 255,
         busy_led : BOOLEAN, dirty_led : BOOLEAN]

Allocated(p) == {i \in Slots : p.buf[i].allocated}
FreeSlots(p) == {i \in Slots : ~p.buf[i].allocated}
Users(p)     == {i \in Slots : p.buf[i].allocated
                                 /\ p.buf[i].secondary < BUFFER_SEC_SYSTEM}
Dirty(p)     == {i \in Slots : p.buf[i].allocated /\ p.buf[i].dirty}

\* The first element of a set of slots, NULL when there is none.
First(S) == IF S = {} THEN NULL ELSE Min(S)

-----------------------------------------------------------------------------
(* buffers_init; main() turns the LEDs off once start-up is done.          *)
buffers_init ==
  [buf       |-> [i \in 0 .. BufferCount |->
                    IF i = ErrorBuffer THEN ErrorChannel ELSE ZeroBuffer],
   active    |-> 0, busy_led |-> FALSE, dirty_led |-> FALSE]

update_leds(p) == [p EXCEPT !.busy_led  = p.active # 0,
                            !.dirty_led = p.active \div 16 # 0]

-----------------------------------------------------------------------------
(* Allocation.  The callers test for a free slot (FirstFree(p) = NULL) and *)
(* raise NO CHANNEL themselves, so that the operators return only a pool.  *)

FirstFree(p) == First(FreeSlots(p))

alloc_specific_buffer(p, i) ==
  [p EXCEPT !.buf[i] = FreshBuffer(BUFFER_SEC_SYSTEM, NULL, NULL)]

\* The buffer alloc_system_buffer returns is FirstFree(p).
alloc_system_buffer(p) == alloc_specific_buffer(p, FirstFree(p))

\* The same buffer, but on secondary 0 and counted.
alloc_buffer(p) ==
  [p EXCEPT !.buf[FirstFree(p)] = FreshBuffer(0, NULL, NULL),
            !.active = (@ + 1) % 256,
            !.busy_led = TRUE]

\* The first run of count free slots, NULL when there is none.
FirstRun(p, count) ==
  First({s \in Slots : s + count <= BufferCount
                         /\ s .. s + count - 1 \subseteq FreeSlots(p)})

\* Mistake: the last buffer of the chain is not terminated with NULL.
alloc_linked_unterminated(p, count) ==
  LET start == FirstRun(p, count)
  IN  [p EXCEPT
        !.buf = [i \in 0 .. BufferCount |->
                   IF i \in start .. start + count - 1
                     THEN FreshBuffer(0, start, i + 1)
                     ELSE p.buf[i]],
        !.active = (@ + count) % 256,
        !.busy_led = TRUE]

alloc_linked_buffers(p, count) ==
  LET start == FirstRun(p, count)
      last  == start + count - 1
  IN  [p EXCEPT
        !.buf = [i \in 0 .. BufferCount |->
                   IF i \in start .. last
                     THEN FreshBuffer(0, start, IF i = last THEN NULL ELSE i + 1)
                     ELSE p.buf[i]],
        !.active = (@ + count) % 256,
        !.busy_led = TRUE]

\* Mistake: the replace path does not look for a free buffer.
check_nothing(p) == TRUE

\* check_free_buffers() reads the low nibble of active_buffers only.
check_free_buffers(p) == p.active % 16 < BufferCount

-----------------------------------------------------------------------------
(* Release.                                                                *)

\* Mistake: the dirty flag of a freed buffer is not taken off the count.
free_buffers_forget_dirty(p, M) ==
  LET F == {i \in M : p.buf[i].allocated /\ p.buf[i].secondary # SecondaryCommand}
  IN  IF F = {} THEN p
      ELSE update_leds(
             [p EXCEPT
               !.buf = [i \in 0 .. BufferCount |->
                          IF i \in F THEN [ZeroBuffer EXCEPT !.dirty = p.buf[i].dirty]
                                     ELSE p.buf[i]],
               !.active = (@ - Cardinality({i \in F : p.buf[i].secondary
                                                        < BUFFER_SEC_SYSTEM}))
                          % 256])

\* free_buffer on each member of M, in the order of the slots: buffers that
\* are free, or belong to the command channel, are skipped.  free_buffer
\* clears nothing but allocated; the model keeps the dirty flag, which counts
\* in active_buffers, and forgets the other fields of a free buffer, which
\* nothing reads before alloc_specific_buffer's memset.
free_buffers(p, M) ==
  LET F == {i \in M : p.buf[i].allocated /\ p.buf[i].secondary # SecondaryCommand}
  IN  IF F = {} THEN p
      ELSE update_leds(
             [p EXCEPT
               !.buf = [i \in 0 .. BufferCount |->
                          IF i \in F THEN [ZeroBuffer EXCEPT !.dirty = p.buf[i].dirty]
                                     ELSE p.buf[i]],
               !.active = (@ - 16 * Cardinality({i \in F : p.buf[i].dirty})
                             - Cardinality({i \in F : p.buf[i].secondary
                                                        < BUFFER_SEC_SYSTEM}))
                          % 256])

free_buffer(p, i) == free_buffers(p, {i})

\* The buffers free_multiple_buffers selects.
Selected(p, freeSystem, freeSticky) ==
  {i \in Slots : /\ p.buf[i].allocated
                 /\ freeSystem \/ p.buf[i].secondary < BUFFER_SEC_SYSTEM
                 /\ freeSticky \/ ~p.buf[i].sticky}

FMB_USER(p)     == Selected(p, FALSE, TRUE)
FMB_ALL(p)      == Selected(p, TRUE, TRUE)
FMB_UNSTICKY(p) == Selected(p, TRUE, FALSE)

\* With FMB_CLEAN: "res = res || cleanup()" calls no cleanup after the first
\* that fails.  fails is the set of buffers whose cleanup would fail.
Cleaned(M, fails) ==
  {i \in M : \A j \in M \cap fails : i <= j}

-----------------------------------------------------------------------------
(* Lookup and marks.                                                       *)

Holders(p, secondary) ==
  {i \in 0 .. BufferCount : p.buf[i].allocated /\ p.buf[i].secondary = secondary}

find_buffer(p, secondary) == First(Holders(p, secondary))

mark_buffer_dirty(p, i) ==
  IF p.buf[i].dirty THEN p
  ELSE [p EXCEPT !.buf[i].dirty = TRUE,
                 !.active = (@ + 16) % 256,
                 !.dirty_led = TRUE]

mark_buffer_clean(p, i) ==
  IF ~p.buf[i].dirty THEN p
  ELSE LET a == (p.active - 16) % 256
       IN  [p EXCEPT !.buf[i].dirty = FALSE,
                     !.active = a,
                     !.dirty_led = IF a \div 16 = 0 THEN FALSE ELSE @]

-----------------------------------------------------------------------------
(* Large buffers: chains of linked buffers, one of which carries the real  *)
(* secondary address and the others BUFFER_SEC_CHAIN minus it (fileops.c). *)

\* The buffers reached from the first one through the next pointers.
ChainOf(p, i) ==
  LET f == p.buf[i].first
  IN  {j \in Slots : j >= f /\ \A k \in f .. j - 1 : p.buf[k].next = k + 1}

\* Mistake: the buffer that was active keeps its secondary address.
Activate_both(p, i, j) ==
  [p EXCEPT !.buf[j].secondary = p.buf[i].secondary]

\* Make j the member of i's chain that answers to i's secondary address.
Activate(p, i, j) ==
  LET sec == p.buf[i].secondary
  IN  [p EXCEPT !.buf =
         [k \in 0 .. BufferCount |->
            IF k = j THEN [p.buf[k] EXCEPT !.secondary = sec]
            ELSE IF k = i
              THEN [p.buf[k] EXCEPT !.secondary = (BUFFER_SEC_CHAIN - sec) % 256]
            ELSE p.buf[k]]]

directbuffer_refill(p, i) ==
  Activate(p, i, IF p.buf[i].next = NULL THEN p.buf[i].first ELSE p.buf[i].next)

\* Mistake: only the active buffer of the chain is freed.
largebuffer_cleanup_one(p, i) == free_buffer(p, i)

largebuffer_cleanup(p, i) == free_buffers(p, ChainOf(p, i))

-----------------------------------------------------------------------------
(* What the counters of the pool should say.                               *)

\* active_buffers is the number of user buffers plus sixteen times the
\* number of dirty buffers, in the arithmetic of a uint8_t (buffers.c:44).
CountsAgree(p) ==
  p.active = (Cardinality(Users(p)) + 16 * Cardinality(Dirty(p))) % 256

\* The LEDs say what led.c:39-41 promises: BUSY when a user buffer is
\* allocated, DIRTY when a buffer is dirty.
LedsAgree(p) == /\ p.busy_led  = (Users(p) # {})
                /\ p.dirty_led = (Dirty(p) # {})

\* Every member of a chain is allocated and shares its first; exactly one
\* carries a secondary address, the others BUFFER_SEC_CHAIN minus it.
ChainsIntact(p) ==
  \A i \in Allocated(p) : p.buf[i].cleanup = "largebuffer_cleanup" =>
    \E a \in ChainOf(p, i) :
      /\ i \in ChainOf(p, i)
      /\ p.buf[a].secondary < SecondaryCommand
      /\ \A j \in ChainOf(p, i) :
           /\ p.buf[j].allocated
           /\ p.buf[j].cleanup = "largebuffer_cleanup"
           /\ p.buf[j].first = p.buf[i].first
           /\ j # a => p.buf[j].secondary = BUFFER_SEC_CHAIN - p.buf[a].secondary

-----------------------------------------------------------------------------
(* What keeps the counters and the chains right from one operation to the  *)
(* next: the invariant of a pool that the proofs carry.                    *)

Large(p, i) == p.buf[i].allocated /\ p.buf[i].cleanup = "largebuffer_cleanup"

\* A next pointer leads from a member of a chain to its neighbour in the pool.
NextLinks(p) ==
  \A i \in Slots : p.buf[i].next # NULL =>
    /\ Large(p, i)
    /\ p.buf[i].next = i + 1 /\ i + 1 \in Slots
    /\ Large(p, i + 1)
    /\ p.buf[i + 1].first = p.buf[i].first

\* A first pointer leads to the head of the chain, from which the next
\* pointers lead back; the members are sticky direct access user buffers.
FirstLinks(p) ==
  \A i \in Slots : Large(p, i) =>
    /\ p.buf[i].first \in Slots /\ p.buf[i].first <= i
    /\ Large(p, p.buf[i].first)
    /\ p.buf[p.buf[i].first].first = p.buf[i].first
    /\ \A k \in p.buf[i].first .. i - 1 : p.buf[k].next = k + 1
    /\ p.buf[i].refill = "directbuffer_refill"
    /\ p.buf[i].sticky = TRUE
    /\ p.buf[i].secondary < BUFFER_SEC_SYSTEM

\* A direct access buffer that is no chain is its own first.
SingleLinks(p) ==
  \A i \in Slots :
    p.buf[i].allocated /\ p.buf[i].refill = "directbuffer_refill" =>
      Large(p, i) \/ (p.buf[i].first = i /\ p.buf[i].secondary < BUFFER_SEC_SYSTEM)

\* Only the error channel's buffer answers to secondary address 15.
OneCommandChannel(p) ==
  /\ p.buf[ErrorBuffer] = ErrorChannel
  /\ \A i \in Slots : p.buf[i].allocated => p.buf[i].secondary # SecondaryCommand

PoolInv(p) == /\ p \in Pool
              /\ CountsAgree(p)
              /\ OneCommandChannel(p)
              /\ NextLinks(p)
              /\ FirstLinks(p)
              /\ SingleLinks(p)
=============================================================================
