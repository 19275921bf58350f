------------------------------- MODULE Channels -------------------------------
(***************************************************************************)
(* The DOS layer's use of the buffer pool: what each bus command (OPEN,    *)
(* CLOSE, LISTEN and TALK data, the DOS commands, a card change, an IFC)   *)
(* does to the buffers, and so to the channels the host has open.          *)
(*                                                                         *)
(* The main loop runs every handler to completion before it looks at the   *)
(* bus again and no interrupt handler touches the pool, so a handler is    *)
(* one action.  Paths, names and bytes are abstracted: a file is a member  *)
(* of Names, and whether a buffer is full or an access to the medium fails *)
(* is a choice of the environment.                                         *)
(***************************************************************************)
EXTENDS BufferPool

CONSTANTS Bus,          \* "IEC" (iec_mainloop) or "IEEE" (ieee_mainloop)
          SAs,          \* secondary addresses the host uses
          Names,        \* file names
          Partitions,   \* partitions that may mount a disk image
          ChainSizes    \* sizes n the host asks for with "##n"

ASSUME ChannelsAssumption ==
  /\ Bus \in {"IEC", "IEEE"}
  /\ SAs \subseteq 0 .. 14
  /\ ChainSizes \subseteq 1 .. 255     \* a byte, any character but '0'
  /\ IsFiniteSet(Partitions)

VARIABLES pool,       \* buffers[], active_buffers and the LEDs
          opened,     \* channels the host has opened and not yet closed
          files,      \* names present on the medium
          error,      \* current_error: OK, NO_CHANNEL or another
          mounted,    \* partitions whose fop is d64ops
          bam,        \* bam_buffer, bam_buffer2, bam_refcount of d64ops.c
          skipped,    \* history: buffers the last step freed with FMB_CLEAN
                      \* without calling their cleanup
          astray      \* history: B-P or a D command has followed pointers that
                      \* are none, or moved the address of an inactive buffer
vars == <<pool, opened, files, error, mounted, bam, skipped, astray>>

Faults == {"none", "io"}

-----------------------------------------------------------------------------
(* The callbacks.                                                          *)

\* What an open function leaves in the buffer it was given.
Profile ==
  [fat_read  |-> [read |-> TRUE,  write |-> FALSE,
                  refill |-> "fat_file_read",  cleanup |-> "fat_file_close"],
   fat_write |-> [read |-> FALSE, write |-> TRUE,
                  refill |-> "fat_file_write", cleanup |-> "fat_file_close"],
   fat_rel   |-> [read |-> TRUE,  write |-> TRUE,
                  refill |-> "fat_file_sync",  cleanup |-> "fat_file_close"],
   d64_read  |-> [read |-> TRUE,  write |-> FALSE,
                  refill |-> "d64_read",       cleanup |-> "callback_dummy"],
   d64_write |-> [read |-> FALSE, write |-> TRUE,
                  refill |-> "d64_write",      cleanup |-> "d64_write_cleanup"],
   directory |-> [read |-> TRUE,  write |-> FALSE,
                  refill |-> "dir_refill",     cleanup |-> "callback_dummy"],
   direct    |-> [read |-> TRUE,  write |-> TRUE,
                  refill |-> "directbuffer_refill",
                  cleanup |-> "callback_dummy"]]

\* Buffer i, fresh from alloc_buffer, becomes the sticky buffer of channel sa
\* with the given profile.
Configure(p, i, sa, kind) ==
  [p EXCEPT !.buf[i] =
     [allocated |-> TRUE, secondary |-> sa, dirty |-> FALSE, sticky |-> TRUE,
      read   |-> Profile[kind].read,   write   |-> Profile[kind].write,
      refill |-> Profile[kind].refill, cleanup |-> Profile[kind].cleanup,
      first  |-> IF kind = "direct" THEN i ELSE NULL, next |-> NULL]]

\* buf->refill(buf): a failure has freed the buffer, except that the dummy
\* and the direct buffer's callback cannot fail.
refill(p, i, fault) ==
  CASE p.buf[i].refill = "directbuffer_refill" -> directbuffer_refill(p, i)
    [] p.buf[i].refill \in {"fat_file_write", "fat_file_sync", "d64_write"} ->
         IF fault = "io" THEN free_buffer(p, i) ELSE mark_buffer_clean(p, i)
    [] p.buf[i].refill \in {"fat_file_read", "d64_read", "dir_refill"} ->
         IF fault = "io" THEN free_buffer(p, i) ELSE p
    [] OTHER -> p

\* buf->cleanup(buf).  fat_file_close flushes a write buffer with its refill,
\* which frees the buffer when it fails; d64_write_cleanup frees it on success.
cleanup(p, i, fault) ==
  CASE p.buf[i].cleanup = "fat_file_close" ->
         IF p.buf[i].write /\ fault = "io" THEN free_buffer(p, i)
         ELSE [mark_buffer_clean(p, i) EXCEPT !.buf[i].cleanup = "callback_dummy"]
    [] p.buf[i].cleanup = "d64_write_cleanup" ->
         IF fault = "io" THEN p
         ELSE free_buffer([p EXCEPT !.buf[i].cleanup = "callback_dummy"], i)
    [] p.buf[i].cleanup = "largebuffer_cleanup" -> largebuffer_cleanup(p, i)
    [] OTHER -> p

CanFail(p) == {i \in Slots : p.buf[i].cleanup \in {"fat_file_close",
                                                    "d64_write_cleanup"}}

\* Mistake: the buffer is cleaned up but not freed, as the comment of
\* fat_file_close (fatops.c:551) would make one believe it is.
cleanup_only(p, sa, fault) ==
  LET b == find_buffer(p, sa)
  IN  IF b = NULL THEN p ELSE cleanup(p, b, fault)

\* Close channel sa: cleanup_and_free_buffer(find_buffer(sa)).
cleanup_and_free(p, sa, fault) ==
  LET b == find_buffer(p, sa)
  IN  IF b = NULL THEN p ELSE free_buffer(cleanup(p, b, fault), b)

\* free_multiple_buffers(FMB_USER_CLEAN) when the cleanups of fails fail.
\* Every selected buffer ends up free; the ones FAT could flush are clean.
free_user_clean(p, fails) ==
  LET M == FMB_USER(p)
      C == {i \in Cleaned(M, fails) \ fails : p.buf[i].cleanup = "fat_file_close"}
      q == [p EXCEPT
             !.buf = [i \in 0 .. BufferCount |->
                        IF i \in C
                          THEN [p.buf[i] EXCEPT !.dirty = FALSE,
                                                !.cleanup = "callback_dummy"]
                          ELSE p.buf[i]],
             !.active = (@ - 16 * Cardinality({i \in C : p.buf[i].dirty})) % 256]
  IN  free_buffers(q, M)

\* Selected buffers with something to clean up whose callback is not called.
Skipped(p, fails) ==
  {i \in FMB_USER(p) \cap CanFail(p) : i \notin Cleaned(FMB_USER(p), fails)}

\* Mistake: no garbage collection.
EndCommand_no_gc(p) == p

\* What the main loop does after a command: BUS_CLEANUP of iec_mainloop
\* collects the buffers that are not sticky, ieee_mainloop does not.
EndCommand(p) == IF Bus = "IEC" THEN free_buffers(p, FMB_UNSTICKY(p)) ELSE p

-----------------------------------------------------------------------------
Init == /\ pool = buffers_init
        /\ opened = {}
        /\ files \in SUBSET Names
        /\ error = "OK"
        /\ mounted = {}
        /\ bam = [buffer |-> NULL, buffer2 |-> NULL, refcount |-> 0]
        /\ skipped = {}
        /\ astray = FALSE

-----------------------------------------------------------------------------
(* OPEN: file_open.  A buffer that already holds the channel is closed     *)
(* first, whatever the name turns out to be.                               *)

\* The name does not parse, does not match, or may not be opened this way.
OpenRejected(sa, fault) ==
  /\ pool'   = EndCommand(cleanup_and_free(pool, sa, fault))
  /\ opened' = opened \cup {sa}
  /\ error'  = "OTHER"
  /\ skipped' = {}
  /\ UNCHANGED <<files, mounted, bam>>

\* The buffer after an open function has worked on it: configured, left as
\* allocated because the file could not be opened, or freed because its
\* first block could not be read.
OpenResult(p, sa, kind, outcome) ==
  LET i == FirstFree(p)
      q == alloc_buffer(p)
  IN  CASE outcome = "ok"         -> Configure(q, i, sa, kind)
        [] outcome = "refused"    ->
             [q EXCEPT !.buf[i] = [FreshBuffer(sa, NULL, NULL)
                                     EXCEPT !.read = kind = "directory"]]
        [] outcome = "unreadable" -> free_buffer(Configure(q, i, sa, kind), i)

ReadAtOpen == {"fat_read", "fat_rel", "d64_read", "d64_write"}
Outcomes(kind) == CASE kind = "direct" -> {"ok"}
                    [] kind \in ReadAtOpen -> {"ok", "refused", "unreadable"}
                    [] OTHER -> {"ok", "refused"}

\* file_open from "Grab a buffer" on, p being the pool at that point.
OpenOn(p, sa, kind, outcome) ==
  /\ outcome \in Outcomes(kind)
  /\ pool'   = EndCommand(IF FirstFree(p) = NULL THEN p
                          ELSE OpenResult(p, sa, kind, outcome))
  /\ error'  = IF FirstFree(p) = NULL THEN "NO_CHANNEL"
               ELSE IF outcome = "ok" THEN "OK" ELSE "OTHER"
  /\ opened' = opened \cup {sa}
  /\ skipped' = {}
  /\ UNCHANGED <<mounted, bam>>

\* An existing file, a directory or a single direct access buffer.
OpenExisting(sa, kind, outcome, fault) ==
  /\ kind \in {"fat_read", "fat_rel", "directory", "direct"}
                \cup (IF mounted = {} THEN {} ELSE {"d64_read"})
  /\ kind \in {"fat_read", "fat_rel", "d64_read"} => files # {}
  /\ OpenOn(cleanup_and_free(pool, sa, fault), sa, kind, outcome)
  /\ UNCHANGED files

WriteKinds == {"fat_write"} \cup (IF mounted = {} THEN {} ELSE {"d64_write"})

\* A new file.
OpenNew(sa, name, kind, outcome, fault) ==
  /\ kind \in WriteKinds
  /\ name \notin files
  /\ LET p == cleanup_and_free(pool, sa, fault)
     IN  /\ OpenOn(p, sa, kind, outcome)
         /\ files' = IF FirstFree(p) # NULL /\ outcome = "ok"
                       THEN files \cup {name} ELSE files

\* "@name": the old file is deleted before the buffer is allocated.
OpenReplace(sa, name, kind, outcome, fault) ==
  /\ kind \in WriteKinds
  /\ name \in files
  /\ LET p == cleanup_and_free(pool, sa, fault)
     IN  IF check_free_buffers(p)
           THEN /\ OpenOn(p, sa, kind, outcome)
                /\ files' = IF FirstFree(p) # NULL /\ outcome = "ok"
                              THEN files ELSE files \ {name}
           ELSE /\ pool' = EndCommand(p)
                /\ error' = "NO_CHANNEL"
                /\ opened' = opened \cup {sa}
                /\ skipped' = {}
                /\ UNCHANGED <<files, mounted, bam>>

\* Member i of a large buffer: only the first answers to sa.
LargeBuffer(b, i, sa) ==
  [allocated |-> TRUE,
   secondary |-> IF i = b.first THEN sa ELSE BUFFER_SEC_CHAIN - sa,
   dirty |-> FALSE, sticky |-> TRUE, read |-> TRUE, write |-> TRUE,
   refill |-> "directbuffer_refill", cleanup |-> "largebuffer_cleanup",
   first |-> b.first, next |-> b.next]

\* "##n": a chain of n buffers, the first of which answers to sa.
OpenLarge(sa, count, fault) ==
  LET p == cleanup_and_free(pool, sa, fault)
      s == FirstRun(p, count)
      q == alloc_linked_buffers(p, count)
  IN  /\ pool' = EndCommand(
           IF s = NULL THEN p
           ELSE [q EXCEPT !.buf =
                   [i \in 0 .. BufferCount |->
                      IF i \in s .. s + count - 1
                        THEN LargeBuffer(q.buf[i], i, sa) ELSE q.buf[i]]])
      /\ error' = IF s = NULL THEN "NO_CHANNEL" ELSE "OK"
      /\ opened' = opened \cup {sa}
      /\ skipped' = {}
      /\ UNCHANGED <<files, mounted, bam>>

-----------------------------------------------------------------------------
(* CLOSE.                                                                  *)

CloseChannel(sa, fault) ==
  /\ pool'   = cleanup_and_free(pool, sa, fault)
  /\ opened' = opened \ {sa}
  /\ skipped' = {}
  /\ UNCHANGED <<files, error, mounted, bam>>

\* CLOSE 15, and an IFC on the IEEE bus.
CloseAll(fails) ==
  /\ pool'    = free_user_clean(pool, fails)
  /\ opened'  = {}
  /\ skipped' = Skipped(pool, fails)
  /\ UNCHANGED <<files, error, mounted, bam>>

-----------------------------------------------------------------------------
(* LISTEN and TALK data on an open channel.                                *)

\* One data byte: a full buffer (full) is flushed first, and the buffer is
\* looked up again because a chain has moved on to its next member; a REL
\* record is synchronized on EOI.
ListenByte(sa, full, eoi, fault) ==
  LET b  == find_buffer(pool, sa)
      p1 == IF full THEN refill(pool, b, fault) ELSE pool
      b1 == find_buffer(p1, sa)
      p2 == mark_buffer_dirty(p1, b1)
  IN  /\ b # NULL /\ pool.buf[b].write
      /\ pool' = CASE full /\ ~p1.buf[b].allocated -> p1
                   [] OTHER -> IF eoi /\ p2.buf[b1].refill = "fat_file_sync"
                                 THEN refill(p2, b1, fault) ELSE p2
      /\ skipped' = {}
      /\ UNCHANGED <<opened, files, error, mounted, bam>>

\* The last byte of the buffer has been sent: the transfer ends at the end of
\* the file (last), except for REL records and direct buffers, which go on.
TalkBlock(sa, last, fault) ==
  LET b == find_buffer(pool, sa)
  IN  /\ b # NULL /\ pool.buf[b].read
      /\ pool' = IF last /\ pool.buf[b].refill \notin {"fat_file_sync",
                                                       "directbuffer_refill"}
                   THEN [pool EXCEPT !.buf[b].read = FALSE]
                   ELSE refill(pool, b, fault)
      /\ skipped' = {}
      /\ UNCHANGED <<opened, files, error, mounted, bam>>

-----------------------------------------------------------------------------
(* DOS commands.                                                           *)

\* B-P and the D commands choose the member of a chain that answers to a.  They
\* take any number for a and any buffer that has it: of one that is no direct
\* access buffer they read size, first and next from whatever the file, the
\* directory or the BAM keeps in that place.  Its address becomes 99 - a and
\* some byte of the memory a: the address of buffer j, or none in the pool
\* (NULL).  If size happens to be 1 nothing is changed (j = b).
BufferPosition(a, j) ==
  LET b == find_buffer(pool, a)
      direct == pool.buf[b].refill = "directbuffer_refill"
  IN  /\ b # NULL
      /\ direct => j \in ChainOf(pool, b)
      /\ pool' = EndCommand(Activate(pool, b, j))
      /\ astray' = (j # b /\ ~(direct /\ a < SecondaryCommand))
      /\ skipped' = {}
      /\ UNCHANGED <<opened, files, error, mounted, bam>>

\* P: the seek callback of a REL file flushes a dirty record first.
RecordPosition(sa, fault) ==
  LET b == find_buffer(pool, sa)
  IN  /\ b # NULL /\ pool.buf[b].refill = "fat_file_sync"
      /\ pool' = EndCommand(refill(pool, b, fault))
      /\ error' = IF fault = "io" THEN "OTHER" ELSE "OK"
      /\ skipped' = {}
      /\ UNCHANGED <<opened, files, mounted, bam>>

\* I: free_multiple_buffers(FMB_USER_CLEAN), unless the medium is not ready.
Initialize(ready, fails) ==
  /\ pool'    = EndCommand(IF ready THEN free_user_clean(pool, fails) ELSE pool)
  /\ skipped' = IF ready THEN Skipped(pool, fails) ELSE {}
  /\ error'   = IF ready THEN "OK" ELSE "OTHER"
  /\ UNCHANGED <<opened, files, mounted, bam>>

\* UJ: free_multiple_buffers(FMB_USER), nothing is cleaned up.
Reset ==
  /\ pool'   = EndCommand(free_buffers(pool, FMB_USER(pool)))
  /\ skipped' = {}
  /\ error'  = "OTHER"
  /\ UNCHANGED <<opened, files, mounted, bam>>

\* C: the two buffers are on secondary 0 while the command runs.  The target
\* is freed on every path.  The source is freed only by a failed read; it
\* stays allocated, pristine after a completed copy (it is freed and
\* allocated again for a next source), open and sticky after a failed write.
CopyResult(p, outcome) ==
  LET s == FirstFree(p)
      q == alloc_buffer(p)
      d == FirstFree(q)
      r == Configure(alloc_buffer(q), d, 0, "fat_write")
  IN  IF d = NULL THEN q
      ELSE CASE outcome \in {"done", "no_source"} -> free_buffer(r, d)
             [] outcome = "read_error" ->
                  free_buffers(Configure(r, s, 0, "fat_read"), {s, d})
             [] outcome = "write_error" ->
                  free_buffer(cleanup(Configure(r, s, 0, "fat_read"), s, "none"), d)

Copy(name, outcome) ==
  /\ files # {} /\ name \notin files
  /\ pool'  = EndCommand(IF FirstFree(pool) = NULL THEN pool
                         ELSE CopyResult(pool, outcome))
  /\ error' = IF Cardinality(FreeSlots(pool)) < 2 THEN "NO_CHANNEL"
              ELSE IF outcome = "done" THEN "OK" ELSE "OTHER"
  /\ files' = IF Cardinality(FreeSlots(pool)) < 2 \/ outcome = "no_source"
                THEN files ELSE files \cup {name}
  /\ skipped' = {}
  /\ UNCHANGED <<opened, mounted, bam>>

\* MD and N on a disk image work in a buffer they do not free; the one of N
\* is a dirty write buffer.
ImageWork(format) ==
  /\ mounted # {} /\ bam.buffer # NULL
  /\ LET i == FirstFree(pool)
         q == alloc_buffer(pool)
     IN  pool' = EndCommand(
                   IF i = NULL THEN pool
                   ELSE IF format
                     THEN mark_buffer_dirty(
                            [q EXCEPT !.buf[i] = [FreshBuffer(0, NULL, NULL) EXCEPT
                                                    !.write = TRUE]], i)
                     ELSE q)
  /\ error' = IF FirstFree(pool) = NULL THEN "NO_CHANNEL" ELSE "OK"
  /\ skipped' = {}
  /\ UNCHANGED <<opened, files, mounted, bam>>

\* S: no buffer is involved.
Scratch(name) ==
  /\ name \in files
  /\ files' = files \ {name}
  /\ pool'  = EndCommand(pool)
  /\ error' = "OTHER"
  /\ skipped' = {}
  /\ UNCHANGED <<opened, mounted, bam>>

\* M-W of a loader whose code is captured keeps a system buffer (IEC builds).
MemWriteCapture ==
  /\ Bus = "IEC"
  /\ LET i == FirstFree(pool)
     IN  /\ pool' = EndCommand(
                      IF i = NULL THEN pool
                      ELSE [alloc_system_buffer(pool) EXCEPT
                              !.buf[i] = [FreshBuffer(BUFFER_SYS_CAPTURE1, NULL, NULL)
                                            EXCEPT !.sticky = TRUE]])
         /\ error' = IF i = NULL THEN "NO_CHANNEL" ELSE error
  /\ skipped' = {}
  /\ UNCHANGED <<opened, files, mounted, bam>>

-----------------------------------------------------------------------------
(* Disk images: the BAM buffers are sticky system buffers.                 *)

\* bam_buffer_alloc on slot FirstFree(p).
bam_buffer_alloc(p) ==
  [alloc_system_buffer(p) EXCEPT
     !.buf[FirstFree(p)] = [FreshBuffer(BUFFER_SYS_BAM, NULL, NULL) EXCEPT
                              !.cleanup = "bam_buffer_flush", !.sticky = TRUE]]

\* CD into an image file: fat_chdir and d64_mount.  valid: the file opens
\* and has the size of a disk image.
Mount(part, valid, fails) ==
  LET p     == free_user_clean(pool, fails)
      alloc == valid /\ bam.buffer = NULL
      i     == FirstFree(p)
  IN  /\ part \notin mounted
      /\ IF ~valid \/ (alloc /\ i = NULL)
           THEN /\ pool' = EndCommand(p)
                /\ error' = IF valid THEN "NO_CHANNEL" ELSE "OTHER"
                /\ UNCHANGED <<mounted, bam>>
           ELSE /\ pool' = EndCommand(IF alloc THEN bam_buffer_alloc(p) ELSE p)
                /\ bam' = [buffer |-> IF alloc THEN i ELSE bam.buffer,
                           buffer2 |-> bam.buffer2,
                           refcount |-> (bam.refcount + 1) % 256]
                /\ mounted' = mounted \cup {part}
                /\ error' = "OK"
      /\ skipped' = Skipped(pool, fails)
      /\ UNCHANGED <<opened, files>>

\* CD_ or a disk swap: image_unmount and d64_unmount, whose test frees the
\* BAM buffers when the decremented count is NOT zero.
Unmount(part, fails) ==
  LET p == free_user_clean(pool, fails)
      n == (bam.refcount - 1) % 256
  IN  /\ part \in mounted
      /\ mounted' = mounted \ {part}
      /\ pool' = EndCommand(IF n # 0
                              THEN free_buffers(p, {bam.buffer, bam.buffer2} \ {NULL})
                              ELSE p)
      /\ bam' = IF n # 0
                  THEN [buffer |-> NULL, buffer2 |-> NULL, refcount |-> n]
                  ELSE [buffer |-> bam.buffer, buffer2 |-> bam.buffer2,
                        refcount |-> n]
      /\ error' \in {"OK", "OTHER"}      \* f_close of the image may fail
      /\ skipped' = Skipped(pool, fails)
      /\ UNCHANGED <<opened, files>>

\* move_bam_window needs a BAM sector other than the one in bam_buffer: it
\* allocates the second buffer if it can and swaps the two.
MoveBamWindow ==
  LET i == FirstFree(pool)
  IN  /\ mounted # {} /\ bam.buffer # NULL
      /\ IF bam.buffer2 = NULL
           THEN IF i = NULL THEN UNCHANGED <<pool, bam>>
                ELSE /\ pool' = bam_buffer_alloc(pool)
                     /\ bam' = [buffer |-> i, buffer2 |-> bam.buffer,
                                refcount |-> bam.refcount]
           ELSE /\ bam' = [buffer |-> bam.buffer2, buffer2 |-> bam.buffer,
                           refcount |-> bam.refcount]
                /\ UNCHANGED pool
      /\ skipped' = {}
      /\ UNCHANGED <<opened, files, error, mounted>>

\* Mistake: filesystem_init does not call d64_invalidate.
CardChange_stale_bam(changed) ==
  LET p == [pool EXCEPT !.busy_led = TRUE]
      q == IF changed THEN free_buffers(p, FMB_ALL(p)) ELSE p
  IN  /\ pool' = IF Bus = "IEC" THEN update_leds(q) ELSE q
      /\ mounted' = {}
      /\ files' \in IF changed THEN SUBSET Names ELSE {files}
      /\ skipped' = {}
      /\ UNCHANGED <<opened, error, bam>>

\* A card change or a card error seen by the main loop.  changed: the card is
\* another one, every buffer is dropped.  filesystem_init ends in
\* d64_invalidate.  Only iec_mainloop brings the LEDs up to date afterwards.
CardChange(changed) ==
  LET p == [pool EXCEPT !.busy_led = TRUE]
      q == IF changed THEN free_buffers(p, FMB_ALL(p)) ELSE p
      r == free_buffers(q, {bam.buffer, bam.buffer2} \ {NULL})
  IN  /\ pool' = IF Bus = "IEC" THEN update_leds(r) ELSE r
      /\ bam'  = [buffer |-> NULL, buffer2 |-> NULL, refcount |-> 0]
      /\ mounted' = {}
      /\ files' \in IF changed THEN SUBSET Names ELSE {files}
      /\ skipped' = {}
      /\ UNCHANGED <<opened, error>>

\* main(): the drive is switched off and on.
PowerOn ==
  /\ pool' = buffers_init /\ opened' = {} /\ error' = "OK" /\ mounted' = {}
  /\ bam' = [buffer |-> NULL, buffer2 |-> NULL, refcount |-> 0]
  /\ skipped' = {} /\ astray' = FALSE
  /\ UNCHANGED files

-----------------------------------------------------------------------------
Kinds == DOMAIN Profile

\* Whether the cleanup of the channel's buffer, if it has a medium to write to,
\* fails.
CleanupFaults(sa) ==
  IF find_buffer(pool, sa) \in CanFail(pool) THEN Faults ELSE {"none"}

Open(sa) ==
  \E fault \in CleanupFaults(sa) :
    \/ OpenRejected(sa, fault)
    \/ \E count \in ChainSizes : OpenLarge(sa, count, fault)
    \/ \E kind \in Kinds, outcome \in {"ok", "refused", "unreadable"} :
         \/ OpenExisting(sa, kind, outcome, fault)
         \/ \E name \in Names : \/ OpenNew(sa, name, kind, outcome, fault)
                                \/ OpenReplace(sa, name, kind, outcome, fault)

Transfer(sa) ==
  \E fault \in Faults, b \in BOOLEAN :
    \/ \E full \in BOOLEAN : ListenByte(sa, full, b, fault)
    \/ TalkBlock(sa, b, fault)

CopyOutcomes == {"done", "no_source", "read_error", "write_error"}

\* Every handler but B-P.
Handler ==
  \/ \E sa \in SAs : \/ Open(sa)
                     \/ \E fault \in CleanupFaults(sa) : CloseChannel(sa, fault)
                     \/ \E fault \in Faults : RecordPosition(sa, fault)
                     \/ Transfer(sa)
  \/ \E fails \in SUBSET (FMB_USER(pool) \cap CanFail(pool)) :
       \/ CloseAll(fails)
       \/ \E ready \in BOOLEAN : Initialize(ready, fails)
       \/ \E part \in Partitions : \/ \E valid \in BOOLEAN : Mount(part, valid, fails)
                                   \/ Unmount(part, fails)
  \/ Reset
  \/ \E name \in Names : \/ \E outcome \in CopyOutcomes : Copy(name, outcome)
                         \/ Scratch(name)
  \/ \E format \in BOOLEAN : ImageWork(format)
  \/ MemWriteCapture
  \/ MoveBamWindow
  \/ \E changed \in BOOLEAN : CardChange(changed)

\* What the handlers do to a pool with a misplaced address is not followed: the
\* memory behind it may be overwritten.  The user switches the drive off.
Next ==
  \/ ~astray /\ Handler /\ UNCHANGED astray
  \/ ~astray /\ \E i \in 0 .. BufferCount, j \in NULL .. BufferCount :
                  BufferPosition(pool.buf[i].secondary, j)
  \/ PowerOn

Spec == Init /\ [][Next]_vars
-----------------------------------------------------------------------------
(* Properties.                                                             *)

Bams == {bam.buffer, bam.buffer2} \ {NULL}

\* The pool, the channels and the BAM pointers have their types.
TypeOK == /\ pool \in Pool
          /\ opened \subseteq SAs
          /\ files \subseteq Names
          /\ error \in {"OK", "NO_CHANNEL", "OTHER"}
          /\ mounted \subseteq Partitions
          /\ bam \in [buffer : Slots \cup {NULL}, buffer2 : Slots \cup {NULL},
                      refcount : 0 .. 255]
          /\ skipped \subseteq Slots
          /\ astray \in BOOLEAN

(* B-P spoils the pool when it is used on a channel that is no direct      *)
(* access buffer, or on the address of an inactive buffer: the properties  *)
(* hold as long as that has not happened since power-on (astray).          *)

\* active_buffers counts the user and the dirty buffers after every command,
\* on every error path of the callbacks (buffers.c:44, free_buffer).
ActiveBuffersExact == astray \/ CountsAgree(pool)

\* The BUSY and DIRTY LEDs show what update_leds documents (led.c:39-41).
LedsShowPool == LedsAgree(pool)

\* No two buffers answer to one of the secondary addresses 1..14, so
\* find_buffer's "first match" is the only match.  (Secondary 0 is shared
\* with the buffers DOS commands work in.)
UniqueChannel ==
  \A sa \in 1 .. 14 : \A i, j \in Holders(pool, sa) : i = j

\* A large buffer is one chain of which exactly one member is active, however
\* often directbuffer_refill and B-P have moved it.
LargeBuffersIntact == ChainsIntact(pool)

\* bam_buffer and bam_buffer2 point to distinct allocated BAM buffers, and no
\* BAM buffer is left in the pool that they do not point to.
BamPointersExact ==
  astray \/
  /\ bam.buffer = NULL => bam.buffer2 = NULL
  /\ bam.buffer # NULL => bam.buffer # bam.buffer2
  /\ Bams = {i \in Slots : /\ pool.buf[i].allocated
                           /\ pool.buf[i].secondary = BUFFER_SYS_BAM}

\* Every user buffer outside secondary 0 and its chains belongs to a channel
\* the host has open: CLOSE, errors and card changes leave no buffer behind.
\* (CLOSE 0 may find the buffer a failed COPY left on secondary 0 instead of
\* the channel's own.)
NoOrphanBuffer ==
  astray \/ \A i \in Users(pool) :
    LET s == pool.buf[i].secondary
    IN  \/ s \in {0, BUFFER_SEC_CHAIN}
        \/ s \in opened
        \/ BUFFER_SEC_CHAIN - s \in opened

\* Whatever is allocated once a command is done was made sticky on purpose:
\* temporaries "get freed [...] at the end of the IEC mainloop"
\* (doc/buffers.txt:10-14).
TemporariesFreed == \A i \in Allocated(pool) : pool.buf[i].sticky

\* While an image is mounted its BAM can be held: bam_buffer exists.  The code does
\* not keep this with two images: d64_unmount frees it with the first.
BamAvailable == mounted # {} => bam.buffer # NULL

\* An OPEN that replaces a file does not delete it and then fail for want of
\* a buffer (the check at fileops.c:1001-1005), unless a system buffer is in the
\* pool: active_buffers does not count the BAM and capture buffers, so with one
\* of them the check passes although nothing is free.  Otherwise only an
\* exchanged card, which also empties the pool, takes files away under a NO
\* CHANNEL error.
ReplaceKeepsFile ==
  [][error' = "NO_CHANNEL" =>
       \/ files \subseteq files'
       \/ Allocated(pool) # Users(pool)
       \/ Allocated(pool') = {}]_vars

\* free_multiple_buffers(FMB_..._CLEAN) calls the cleanup of each buffer it
\* frees (doc/buffers.txt:33-34, buffers.c:228-230).  The code does not keep this:
\* after one failure it calls no further cleanup.
EveryCleanupCalled == skipped = {}

\* Once the host has closed a channel no buffer answers to it or waits in its
\* chain.
CloseReleases ==
  [][~astray =>
       \A sa \in (opened \ opened') \ {0} :
         Holders(pool', sa) \cup Holders(pool', BUFFER_SEC_CHAIN - sa) = {}]_vars

\* With no channel open and no image mounted the host can open one: some
\* buffer is free.  The code does not keep this: a COPY that ends in a write error
\* leaves its source buffer behind.
IdleHasFreeBuffer ==
  opened = {} /\ mounted = {} => FreeSlots(pool) # {}

\* The inductive invariant of the proofs.  The counters stay exact only while
\* directbuffer_refill and B-P pass an address on between user buffers, so it
\* holds the links of the chains; d64_unmount and d64_invalidate break no chain
\* because the BAM pointers are exact, and BUS_CLEANUP spares the BAM buffers
\* because they are sticky.
PoolInvariant == astray \/ (/\ PoolInv(pool)
                           /\ BamPointersExact
                           /\ \A i \in Bams : pool.buf[i].sticky = TRUE)

\* A channel has one buffer that answers to it, also when it is a chain of
\* buffers whose active member B-P, directbuffer_refill and errors move
\* (UniqueChannel and LargeBuffersIntact).
OneActiveBuffer == astray \/ (UniqueChannel /\ LargeBuffersIntact)

\* Between two commands of the IEC main loop nothing is left over: the LEDs
\* show what the pool holds, temporary buffers have been collected, and every
\* user buffer outside secondary 0 belongs to a channel the host has open.
PoolTidy == astray \/ (LedsShowPool /\ TemporariesFreed /\ NoOrphanBuffer)
=============================================================================
