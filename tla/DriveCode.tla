------------------------------ MODULE DriveCode ------------------------------
(***************************************************************************)
(* How the drive recognizes the fast loader a computer uploads: M-W sums up *)
(* a CRC over the blocks, a table says which loader has that CRC, and M-E   *)
(* calls the handler for the loader and the address (handle_memwrite,       *)
(* run_loader of doscmd.c).  A part of the upload of GEOS is captured.      *)
(*                                                                         *)
(* A program is uploaded in blocks.  The CRC is the sequence of the blocks  *)
(* it was made from: two sequences with the same CRC are not modelled.      *)
(***************************************************************************)
EXTENDS Integers, Sequences, SequencesExt

CONSTANTS
    Programs,    \* Programs[p]: its blocks, where it is detected and started
    NONE,        \* FL_NONE
    MaxBlocks,   \* M-W commands the computer sends
    MaxExec      \* M-E commands

Program == DOMAIN Programs

\* A program is detected by one of its blocks.  If a part of it is captured, that
\* begins in this block: handle_memwrite copies from it without a look at where
\* it lies.
ASSUME CodeAssumption ==
    /\ NONE \notin Program
    /\ \A p \in Program :
         /\ {Programs[p].blocks, Programs[p].detect, Programs[p].capture} \subseteq Nat
         /\ Programs[p].detect \in 1 .. Programs[p].blocks
         /\ Programs[p].capture \in {0, Programs[p].detect}

VARIABLES
    datacrc,     \* blocks since datacrc was 0xffff
    detected_loader,
    previous_loader,
    capture,     \* bytes of the upload that are still to be captured: where
                 \* the next one lies, how many remain, and the buffer's data
    uploaded,    \* the computer: the program it is uploading, blocks sent, and
                 \* whether the CRC was new at its first block
    ran,         \* handler that M-E has called last, for which upload, and
                 \* whether it was a repeated call
    keyed,       \* what the handler found in the capture buffer
    abandoned,   \* an upload was given up after it had been detected
    wild,        \* a block was copied through a NULL pointer: nothing is known
                 \* of the drive any more
    blocks, execs

codevars == <<datacrc, detected_loader, previous_loader, capture, uploaded, ran, keyed, abandoned,
              wild, blocks, execs>>

NoCapture == [active |-> FALSE, address |-> 0, remain |-> 0, data |-> <<>>]

\* fl_crc_table: the loader with this CRC.
fl_crc_table(crc) ==
    LET hit == {p \in Program : crc = [i \in 1 .. Programs[p].detect |-> <<p, i>>]}
    IN  IF hit = {} THEN NONE ELSE CHOOSE p \in hit : TRUE

\* Blocks that the capture takes: from block capture to the last one.
Key(p) == [i \in 1 .. Programs[p].blocks - Programs[p].capture + 1 |-> <<p, Programs[p].capture + i - 1>>]

CodeInit ==
    /\ datacrc = <<>>
    /\ detected_loader = NONE /\ previous_loader = NONE
    /\ capture = NoCapture
    /\ uploaded = [program |-> NONE, sent |-> 0, fresh |-> FALSE]
    /\ ran = [handler |-> NONE, upload |-> uploaded, again |-> FALSE]
    /\ keyed = <<>>
    /\ abandoned = FALSE /\ wild = FALSE
    /\ blocks = 0 /\ execs = 0

\* What lies in the command buffer where a block is copied from a wrong offset
Wrong == <<NONE, 0>>

\* capture_fl_data: the next bytes are in this block, which is not checked: in a
\* block from elsewhere dataofs and bytes wrap, and up to all that remains, n
\* blocks, is copied from a wrong place.  The last byte ends the capture.
capture_fl_data(c, address, block, n) ==
    LET bytes == IF address = c.address THEN 1 ELSE n
    IN  [active |-> c.remain > bytes, address |-> c.address + bytes, remain |-> c.remain - bytes,
         data |-> IF address = c.address THEN Append(c.data, block)
                  ELSE c.data \o [j \in 1 .. n |-> Wrong]]

\* Mistake: the loader that ran before is still remembered.
handle_memwrite_previous(p, i, ok, n) ==
    LET crc == Append(datacrc, <<p, i>>)
        loader == fl_crc_table(crc)
    IN  /\ datacrc' = crc
        /\ detected_loader' = IF loader = NONE THEN detected_loader ELSE loader
        /\ UNCHANGED <<capture, previous_loader, wild>>

\* Block i of program p arrives: no loader that was detected before is
\* forgotten; a capture that runs takes the block, then one that starts with it
\* does.  If alloc_system_buffer fails (not ok) the bytes are copied all the same.
handle_memwrite(p, i, ok, n) ==
    LET crc == Append(datacrc, <<p, i>>)
        loader == fl_crc_table(crc)
        running == IF capture.active THEN capture_fl_data(capture, i, <<p, i>>, n) ELSE capture
        starts == loader # NONE /\ ~running.active /\ Programs[loader].capture > 0
        begun == [active |-> TRUE, address |-> Programs[loader].capture,
                  remain |-> Len(Key(loader)), data |-> <<>>]
    IN  /\ previous_loader' = NONE
        /\ datacrc' = crc
        /\ detected_loader' = IF loader = NONE THEN detected_loader ELSE loader
        /\ capture' = IF starts /\ ok THEN capture_fl_data(begun, i, <<p, i>>, n) ELSE running
        /\ wild' = (starts /\ ~ok)

\* The computer sends the next block of its program.
MemWrite(p, i, ok, n) ==
    /\ blocks < MaxBlocks
    /\ blocks' = blocks + 1
    /\ i = 1 \/ (uploaded.program = p /\ uploaded.sent = i - 1)
    /\ i <= Programs[p].blocks
    /\ handle_memwrite(p, i, ok, n)
    /\ uploaded' = [program |-> p, sent |-> i,
                    fresh |-> IF i = 1 THEN datacrc = <<>> ELSE uploaded.fresh]
    /\ abandoned' = (abandoned \/ (i = 1 /\ (detected_loader # NONE \/ capture.active)))
    /\ UNCHANGED <<ran, keyed, execs>>

\* M-W to a port of the drive or to its device address: no part of a program.
MemWriteIgnored ==
    /\ blocks < MaxBlocks
    /\ blocks' = blocks + 1
    /\ UNCHANGED <<datacrc, detected_loader, previous_loader, capture, uploaded, ran, keyed,
                   abandoned, wild, execs>>

\* Without a new upload the loader before is meant.  load_geos_s1 frees the
\* buffer with the captured bytes.
run_loader(address) ==
    LET d == IF detected_loader = NONE THEN previous_loader ELSE detected_loader
    IN  /\ ran' = [handler |-> IF d # NONE /\ Programs[d].start = address THEN d ELSE NONE,
                   upload |-> uploaded, again |-> detected_loader = NONE]
        /\ keyed' = capture.data
        /\ capture' = IF ran'.handler = NONE \/ Programs[ran'.handler].capture = 0 THEN capture
                      ELSE [capture EXCEPT !.data = <<>>]
        /\ datacrc' = <<>>
        /\ previous_loader' = d
        /\ detected_loader' = NONE

\* M-E for the uploaded program.
MemExecute ==
    /\ execs < MaxExec
    /\ execs' = execs + 1
    /\ uploaded.program # NONE
    /\ uploaded.sent = Programs[uploaded.program].blocks
    /\ run_loader(Programs[uploaded.program].start)
    /\ UNCHANGED <<uploaded, abandoned, wild, blocks>>

\* OPEN of another file starts a new CRC.
OpenResets ==
    /\ datacrc # <<>>
    /\ datacrc' = <<>>
    /\ abandoned' = (abandoned \/ detected_loader # NONE \/ capture.active)
    /\ uploaded' = [uploaded EXCEPT !.fresh = FALSE]
    /\ UNCHANGED <<detected_loader, previous_loader, capture, ran, keyed, wild, blocks, execs>>

CodeNext ==
    /\ ~wild
    /\ \/ \E p \in Program : \E i \in 1 .. Programs[p].blocks, ok \in BOOLEAN, n \in 0 .. capture.remain :
             MemWrite(p, i, ok, n)
       \/ MemWriteIgnored \/ MemExecute \/ OpenResets

---------------------------------------------------------------------------
(* Properties. *)

\* M-E never calls the handler of another program than the one in the drive,
\* neither at first nor later, if the computer does not leave a detected
\* program for another one.
RightLoader == ~abandoned => ran.handler \in {NONE, ran.upload.program}

\* A program whose upload begins with a new CRC is recognized, also when M-E
\* comes again, whatever was uploaded and given up before.
Recognized == ran.upload.fresh => ran.handler = ran.upload.program

\* load_geos_s1 finds the key of the upload: all its bytes, in their order.
\* (If there was no buffer for it nothing is known any more: wild.)
KeyCaptured ==
    (~abandoned /\ ~ran.again /\ ran.handler # NONE /\ Programs[ran.handler].capture > 0)
    => keyed = Key(ran.handler)

\* M-E runs the handler of the program that was uploaded, it is found for
\* every known program, and the bytes that are its key are the uploaded ones.
RightHandler == RightLoader /\ Recognized /\ KeyCaptured
==============================================================================
