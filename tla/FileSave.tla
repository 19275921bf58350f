------------------------------ MODULE FileSave ------------------------------
(***************************************************************************)
(* The fast loaders' counterparts that save a file: save_fc3,               *)
(* save_ar6_1581, write_file_by_name (Sam's Journey) and save_dolphin.      *)
(* The computer sends the file in the protocol's form, the handler collects *)
(* bytes in the buffer of channel 1 and calls refill when it is full.       *)
(* refill is fat_file_write, or d64_write for a file in an image.           *)
(***************************************************************************)
EXTENDS FileScripts

CONSTANTS
    Savers,         \* the handlers of this instance
    Contents,       \* what the computer saves
    MaxWriteFails   \* how often a write fails

VARIABLES
    saver,      \* the handler that runs, or "none"
    todo,       \* bytes the computer has yet to send, each with its end mark
    content,    \* what it wants to save
    rx,         \* the handler: what it waits for, bytes left, last block,
                \* refill tried before this byte, data bytes received
    wbuf,       \* the buffer: data, position, lastused, mustflush, open (allocated)
    image,      \* the file is in a disk image
    chain_end,  \* the image is full and the file has its last sector: "no",
                \* "told" by an error, or "silent" (a DNP image)
    stored,     \* what has been written to the file
    werror,     \* current_error # 0
    cut,        \* the computer has left before the end
    wfails

savevars == <<saver, todo, content, rx, wbuf, image, chain_end, stored, werror, cut, wfails>>

---------------------------------------------------------------------------
(* The computer: what it sends for content c. *)

Plain(s) == [i \in DOMAIN s |-> [v |-> s[i], eoi |-> FALSE]]

Blocks(c) == (Len(c) + W - 3) \div (W - 2)

Block(c, k) == SubSeq(c, (k - 1) * (W - 2) + 1,
                      IF k * (W - 2) < Len(c) THEN k * (W - 2) ELSE Len(c))

\* A block for each sector; the last one has its length in front.
stream_fc3(c) ==
    Plain(FlattenSeq([k \in 1 .. Blocks(c) |->
              <<IF k < Blocks(c) THEN 0 ELSE Len(Block(c, k)) + 1>> \o Block(c, k)]))

\* Whole sectors with their link; the last one names the first unused byte.
stream_ar6(c) ==
    Plain(FlattenSeq([k \in 1 .. Blocks(c) |->
              <<IF k < Blocks(c) THEN 1 ELSE 0, Len(Block(c, k)) + 2>> \o Block(c, k)
              \o [i \in 1 .. W - 2 - Len(Block(c, k)) |-> 0]]))

stream_sams(c) ==
    Plain(FlattenSeq([k \in 1 .. Blocks(c) |-> <<Len(Block(c, k))>> \o Block(c, k)]) \o <<0>>)

\* CLOCK is high with the last byte.
stream_dolphin(c) == [i \in DOMAIN c |-> [v |-> c[i], eoi |-> i = Len(c)]]

Stream(s, c) == CASE s = "save_fc3"     -> stream_fc3(c)
                  [] s = "save_ar6"     -> stream_ar6(c)
                  [] s = "write_sams"   -> stream_sams(c)
                  [] s = "save_dolphin" -> stream_dolphin(c)

---------------------------------------------------------------------------
(* The buffer. *)

\* What a new file's buffer holds.
CR == 13 % W

Part(b, n) == [i \in 1 .. n |-> b.data[i + 1]]

\* What refill writes: write_data takes the length from position unless the
\* buffer is full, d64_write always stores whole sectors.
Flushed(b) ==
    IF image THEN Part(b, W - 2)
    ELSE Part(b, IF b.mustflush THEN b.lastused - 1 ELSE (b.position - 2) % W)

\* What the cleanup callback writes, and d64_write if there is no other sector.
Rest(b) == IF image THEN Part(b, b.lastused - 1) ELSE Flushed(b)

\* The buffer after refill; d64_write puts the link to the next sector in it.
Emptied(b, link) ==
    [b EXCEPT !.position = 2, !.lastused = IF image THEN 1 ELSE 2, !.mustflush = FALSE,
              !.data = IF image THEN [@ EXCEPT ![0] = link] ELSE @]

\* f_write on a card that is full or fails: some of the bytes, not all.
Beginnings(s) == {SubSeq(s, 1, k) : k \in 0 .. Len(s) - 1}

\* Mistake: a position that wraps is not noticed.
Put_no_wrap(b, v) ==
    [b EXCEPT !.data[b.position] = v, !.lastused = IF @ < b.position THEN b.position ELSE @,
              !.position = IF @ = W - 1 THEN 2 ELSE @ + 1]

\* A byte goes to the buffer, which is full when position wraps.
Put(b, v) ==
    [b EXCEPT !.data[b.position] = v,
              !.lastused = IF @ < b.position THEN b.position ELSE @,
              !.position = (@ + 1) % W,
              !.mustflush = @ \/ b.position = W - 1]

\* The state of the handler after byte v of a block.
save_fc3(v) ==
    IF rx.want = "size" THEN [rx EXCEPT !.want = "data", !.last = v # 0,
                                        !.left = IF v = 0 THEN W - 2 ELSE v - 1]
    ELSE [rx EXCEPT !.left = @ - 1,
                    !.want = IF rx.left > 1 THEN "data" ELSE IF rx.last THEN "end" ELSE "size"]

write_file_by_name(v) ==
    IF rx.want = "size" THEN [rx EXCEPT !.want = IF v = 0 THEN "end" ELSE "data", !.left = v]
    ELSE [rx EXCEPT !.left = @ - 1, !.want = IF rx.left > 1 THEN "data" ELSE "size"]

NextRx(t) == CASE saver = "save_fc3"     -> save_fc3(t.v)
               [] saver = "write_sams"   -> write_file_by_name(t.v)
               [] saver = "save_dolphin" -> [rx EXCEPT !.want = IF t.eoi THEN "end" ELSE @]
               [] saver = "save_ar6"     -> [rx EXCEPT !.left = @ - 1]

SaveInit ==
    /\ saver = "none"
    /\ todo = <<>> /\ content = <<>> /\ stored = <<>>
    /\ rx = [of |-> "none", want |-> "end", left |-> 0, last |-> FALSE, tried |-> FALSE, n |-> 0]
    /\ wbuf = [data |-> [i \in Byte |-> 0], position |-> 2, lastused |-> 2,
               mustflush |-> FALSE, open |-> FALSE]
    /\ image = FALSE /\ chain_end = "no" /\ werror = FALSE /\ cut = FALSE
    /\ wfails = 0

\* The file is open for writing on channel 1, the handler starts.
Save(s, c, im) ==
    /\ saver = "none"
    /\ saver' = s /\ content' = c /\ todo' = Stream(s, c) /\ stored' = <<>>
    /\ rx' = [of |-> s, want |-> IF s \in {"save_fc3", "write_sams"} THEN "size" ELSE "data",
              left |-> W, last |-> FALSE, tried |-> FALSE, n |-> 0]
    /\ wbuf' = [data |-> [i \in Byte |-> IF i = 2 THEN CR ELSE 0], position |-> 2, lastused |-> 2,
                mustflush |-> FALSE, open |-> TRUE]
    /\ image' = im /\ chain_end' = "no" /\ werror' = FALSE /\ cut' = FALSE /\ wfails' = 0

\* The handler calls refill: save_ar6_1581 with a whole sector, the others
\* before the byte that does not fit any more.
RefillDue ==
    /\ saver # "none" /\ rx.want = "data"
    /\ IF saver = "save_ar6" THEN rx.left = 0 ELSE rx.left > 0 /\ wbuf.mustflush /\ ~rx.tried

ReceiveByte ==
    /\ saver # "none" /\ todo # <<>> /\ ~RefillDue
    /\ rx.want = "size" \/ (rx.want = "data" /\ rx.left > 0)
    /\ todo' = Tail(todo)
    /\ rx' = [NextRx(Head(todo)) EXCEPT !.tried = FALSE, !.n = IF rx.want = "data" THEN @ + 1 ELSE @]
    /\ wbuf' = IF saver = "save_ar6"
               THEN [wbuf EXCEPT !.data[W - rx.left] = Head(todo).v]
               ELSE IF rx.want = "size" THEN wbuf ELSE Put(wbuf, Head(todo).v)
    /\ UNCHANGED <<saver, content, image, chain_end, stored, werror, cut, wfails>>

\* The buffer that refill gets: save_ar6_1581 sets position from the link.
Filled ==
    IF saver = "save_ar6"
    THEN [wbuf EXCEPT !.position = IF wbuf.data[0] = 0 THEN wbuf.data[1] ELSE 0]
    ELSE wbuf

\* After refill: save_ar6_1581 stops on an error, and looks for the end mark in
\* the link that d64_write has changed; save_dolphin returns on an error; the
\* other two do not look at the result.
Refilled(failed, b) ==
    /\ wbuf' = b
    /\ rx' = CASE saver = "save_ar6" ->
                    [rx EXCEPT !.left = W, !.want = IF failed \/ b.data[0] = 0 THEN "end" ELSE "data"]
               [] saver = "save_dolphin" /\ failed -> [rx EXCEPT !.want = "end"]
               [] OTHER -> [rx EXCEPT !.tried = TRUE]
    /\ UNCHANGED <<saver, todo, content, image, cut>>

\* refill writes to the file.  d64_write does not look at allocated: it works
\* for a buffer that an earlier failure has freed as well.
Writable == chain_end = "no" /\ (image \/ wbuf.open)

Flush ==
    /\ RefillDue /\ Writable
    /\ stored' = stored \o Flushed(Filled)
    /\ Refilled(FALSE, Emptied(Filled, 1))
    /\ UNCHANGED <<chain_end, werror, wfails>>

WriteFails ==
    /\ wfails < MaxWriteFails
    /\ wfails' = wfails + 1

\* refill fails and frees the buffer; position and mustflush stay.
FlushFails ==
    /\ RefillDue /\ Writable /\ WriteFails
    /\ werror' = TRUE
    /\ \E s \in IF image THEN {<<>>} ELSE Beginnings(Flushed(Filled)) : stored' = stored \o s
    /\ Refilled(TRUE, [Filled EXCEPT !.open = FALSE])
    /\ UNCHANGED chain_end

\* The image is full: this sector becomes the file's last one.  A DNP image
\* gives no error, and the buffer stays allocated.
FlushFull(end) ==
    /\ RefillDue /\ Writable /\ image /\ WriteFails
    /\ chain_end' = end
    /\ stored' = stored \o Rest(Filled)
    /\ werror' = (werror \/ end = "told")
    /\ Refilled(end = "told",
                [Emptied(Filled, 0) EXCEPT !.open = IF end = "told" THEN FALSE ELSE @])

\* refill again without a sector to write to, or without a file (f_close has
\* cleared fs): nothing reaches the file.  In a full DNP image the search for a
\* sector does not end, and neither does refill.
FlushLost ==
    /\ RefillDue /\ ~Writable /\ chain_end # "silent"
    /\ \E b \in {wbuf} \cup (IF image THEN {Emptied(wbuf, 1)} ELSE {}) : Refilled(TRUE, b)
    /\ UNCHANGED <<chain_end, stored, werror, wfails>>

\* getbyte sees ATN (Sam's Journey): the handler ends, without an error.
AbortSave ==
    /\ saver = "write_sams" /\ todo # <<>> /\ ~RefillDue /\ rx.want # "end"
    /\ cut' = TRUE
    /\ rx' = [rx EXCEPT !.want = "end"]
    /\ UNCHANGED <<saver, todo, content, wbuf, image, chain_end, stored, werror, wfails>>

\* The cleanup callback is called, and writes: cleanup_and_free_buffer calls it
\* for a freed buffer too, and only fat_file_close looks at allocated; the CLOSE
\* that ends save_dolphin finds no buffer that has been freed.
Cleaned == chain_end = "no" /\ (wbuf.open \/ (image /\ saver # "save_dolphin"))

EndSave ==
    /\ saver # "none" /\ rx.want = "end"
    /\ saver' = "none"
    /\ wbuf' = [wbuf EXCEPT !.open = FALSE]
    /\ \/ /\ stored' = IF Cleaned THEN stored \o Rest(wbuf) ELSE stored
          /\ UNCHANGED <<werror, wfails>>
       \/ /\ Cleaned /\ WriteFails
          /\ werror' = TRUE
          /\ \E s \in IF image THEN {<<>>} ELSE Beginnings(Rest(wbuf)) \cup {<<>>} :
                stored' = stored \o s
    /\ UNCHANGED <<todo, content, rx, image, chain_end, cut>>

SaveNext ==
    \/ \E s \in Savers, c \in Contents, im \in BOOLEAN : Save(s, c, im)
    \/ ReceiveByte \/ Flush \/ FlushFails \/ FlushLost
    \/ \E end \in {"told", "silent"} : FlushFull(end)
    \/ AbortSave \/ EndSave

SaveFairness == WF_savevars(ReceiveByte \/ Flush \/ FlushLost \/ EndSave)

SaveSpec == SaveInit /\ [][SaveNext]_savevars /\ SaveFairness

---------------------------------------------------------------------------
(* Properties. *)

\* What is in the file when the handler has ended without an error: all that
\* arrived; in an image the carriage return of a new buffer if nothing did.
Arrived == IF ~cut THEN content
           ELSE IF image /\ rx.n = 0 THEN <<CR>> ELSE SubSeq(content, 1, rx.n)

\* Once a handler has ended without an error, the file holds exactly what the
\* computer has sent, with a full last sector or without.  (d64_write does not
\* report that a DNP image is full.)
SavedExactly == saver = "none" /\ ~werror /\ chain_end # "silent" => stored = Arrived

\* save_ar6_1581 in an image: d64_write puts a link into the sector that the
\* handler then looks at for the end mark, and it waits for another one.
EndMarkLost == image /\ saver = "save_ar6"

\* The content with up to n bytes left out.
Shortened[n \in 0 .. MaxWriteFails] ==
    IF n = 0 THEN {content}
    ELSE Shortened[n - 1] \cup {RemoveAt(c, i) : c \in Shortened[n - 1], i \in 1 .. Len(content) - n + 1}

\* Whatever fails, what the file has is the beginning of what was sent: never a
\* byte twice, out of order or from an earlier sector.  save_fc3 and
\* write_file_by_name go on after an error: in an image refill then succeeds
\* again, and the byte received after each failure, stored at position 0 or 1,
\* is missing in the middle.  (A third failure in a row would put a byte over
\* the sector's first: MaxWriteFails is at most 2.)
SavedInOrder ==
    \/ IsPrefix(stored, content)
    \/ image /\ cut /\ stored = <<CR>>
    \/ EndMarkLost /\ IsPrefix(content, stored)
    \/ /\ image /\ rx.of \in {"save_fc3", "write_sams"} /\ werror
       /\ \E c \in Shortened[wfails] : IsPrefix(stored, c)

\* refill does not return.
SearchStuck == RefillDue /\ chain_end = "silent"

\* A handler that has all bytes returns, unless its sector's end mark is lost
\* or a DNP image is full.
SaveEnds == (saver # "none" /\ ~EndMarkLost) ~> (saver = "none" \/ SearchStuck)

\* What a fast saver stores is what the computer sent, in its order: all of it
\* if no error is reported, and after an error no byte that was not sent there.
SavesRight == SavedExactly /\ SavedInOrder
=============================================================================
