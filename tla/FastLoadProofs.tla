--------------------------- MODULE FastLoadProofs ---------------------------
(***************************************************************************)
(* The drive runs the right fast loader, for every table of programs and   *)
(* every number of M-W and M-E commands: RightHandler of DriveCode is an   *)
(* invariant of the fast loaders.                                          *)
(*                                                                         *)
(* Three invariants go side by side.  Detected: as long as no detected     *)
(* program was left for another one, what the drive remembers is the       *)
(* program being uploaded.  Summed: an upload that began with a new CRC is *)
(* the CRC's whole history.  Capturing: the captured blocks are a run that *)
(* ends at the last block sent.                                            *)
(***************************************************************************)
EXTENDS FastLoad, TLAPS

UploadBlock == (Program \cup {NONE}) \X Nat
Capture == [active : BOOLEAN, address : Nat, remain : Int, data : Seq(UploadBlock)]

\* s holds the n blocks of program p from block from on.
BlocksOf(s, p, from, n) == s \in Seq(UploadBlock) /\ Len(s) = n /\ \A j \in 1 .. n : s[j] = <<p, from + j - 1>>

CodeTyped ==
    /\ datacrc \in Seq(UploadBlock)
    /\ detected_loader \in Program \cup {NONE} /\ previous_loader \in Program \cup {NONE}
    /\ uploaded \in [program : Program \cup {NONE}, sent : Nat, fresh : BOOLEAN]
    /\ uploaded.program # NONE => uploaded.sent \in 1 .. Programs[uploaded.program].blocks
    /\ ran \in [handler : Program \cup {NONE},
                upload : [program : Program \cup {NONE}, sent : Nat, fresh : BOOLEAN], again : BOOLEAN]
    /\ capture \in Capture
    /\ abandoned \in BOOLEAN

\* The loaders in mind are the program that is uploaded.
Detected ==
    ~abandoned => /\ detected_loader \in {NONE, uploaded.program}
                  /\ previous_loader \in {NONE, uploaded.program}
                  /\ detected_loader # NONE => uploaded.sent >= Programs[detected_loader].detect

\* An upload with a new CRC is detected in time, and remembered once it was run.
Summed ==
    uploaded.fresh =>
      /\ uploaded.program # NONE
      /\ LET p == uploaded.program
         IN  \/ /\ BlocksOf(datacrc, p, 1, uploaded.sent)
                /\ uploaded.sent >= Programs[p].detect => detected_loader = p
             \/ /\ datacrc = <<>> /\ uploaded.sent = Programs[p].blocks
                /\ detected_loader = NONE /\ previous_loader = p

\* The captured part of program p after n blocks, and what is still to come
Captured(c, p, n) ==
    /\ BlocksOf(c.data, p, Programs[p].capture, (n + 1) - Programs[p].capture)
    /\ c.address = n + 1 /\ c.remain = Programs[p].blocks - n
    /\ c.active <=> n < Programs[p].blocks

Capturing ==
    ~abandoned /\ ~wild =>
                  IF detected_loader # NONE /\ Programs[detected_loader].capture > 0
                  THEN Captured(capture, detected_loader, uploaded.sent)
                  ELSE ~capture.active

CodeInv == CodeTyped /\ Detected /\ Summed /\ Capturing /\ RightHandler

-----------------------------------------------------------------------------
(* The blocks of a program.                                                *)

\* What the table of programs is assumed to hold, for one program
LEMMA ProgramFacts ==
  ASSUME NEW p \in Program
  PROVE  /\ Programs[p].blocks \in Nat /\ Programs[p].detect \in Nat /\ Programs[p].capture \in Nat
         /\ 1 <= Programs[p].detect /\ Programs[p].detect <= Programs[p].blocks /\ p # NONE
         /\ Programs[p].capture \in {0, Programs[p].detect}
BY CodeAssumption

\* One block more makes a longer run.
LEMMA BlocksOfAppend ==
  ASSUME NEW s, NEW p \in Program, NEW from \in Nat, NEW n \in Nat, BlocksOf(s, p, from, n)
  PROVE  BlocksOf(Append(s, <<p, from + n>>), p, from, n + 1)
<1>1. s \in Seq(UploadBlock) /\ Len(s) = n /\ <<p, from + n>> \in UploadBlock
  BY DEF BlocksOf, UploadBlock
<1>2. Append(s, <<p, from + n>>) \in Seq(UploadBlock) /\ Len(Append(s, <<p, from + n>>)) = n + 1
  BY <1>1
<1>3. ASSUME NEW j \in 1 .. n + 1
      PROVE  Append(s, <<p, from + n>>)[j] = <<p, from + j - 1>>
  <2>1. CASE j = n + 1
    BY <1>1, <2>1
  <2>2. CASE j \in 1 .. n
    BY <1>1, <2>2 DEF BlocksOf
  <2>3. j = n + 1 \/ j \in 1 .. n
    OBVIOUS
  <2> QED  BY <2>1, <2>2, <2>3
<1> QED  BY <1>2, <1>3 DEF BlocksOf

\* No block is a run of none.
LEMMA BlocksOfEmpty ==
  ASSUME NEW p \in Program, NEW from \in Nat
  PROVE  BlocksOf(<<>>, p, from, 0)
BY DEF BlocksOf

\* A run is the sequence of its blocks.
LEMMA BlocksOfIs ==
  ASSUME NEW s, NEW p \in Program, NEW from \in Nat, NEW n \in Nat, BlocksOf(s, p, from, n)
  PROVE  s = [j \in 1 .. n |-> <<p, from + j - 1>>]
<1>1. s \in Seq(UploadBlock) /\ Len(s) = n /\ \A j \in 1 .. n : s[j] = <<p, from + j - 1>>
  BY DEF BlocksOf
<1>2. s = [j \in 1 .. Len(s) |-> s[j]]
  BY <1>1
<1> QED  BY <1>1, <1>2

\* The CRC after a block is in the table only if it is the block with which the
\* program is detected, and every block before it was summed up.
LEMMA TableFacts ==
  ASSUME NEW crc \in Seq(UploadBlock), NEW p \in Program, NEW i \in Nat,
         NEW new, new = Append(crc, <<p, i>>), NEW named, named = fl_crc_table(new)
  PROVE  /\ named \in {NONE, p}
         /\ named = p => i = Programs[p].detect /\ Len(crc) = i - 1
         /\ BlocksOf(new, p, 1, i) /\ i = Programs[p].detect => named = p
<1> DEFINE hit == {q \in Program : new = [j \in 1 .. Programs[q].detect |-> <<q, j>>]}
<1>1. new \in Seq(UploadBlock) /\ Len(new) = Len(crc) + 1 /\ new[Len(new)] = <<p, i>> /\ Len(crc) \in Nat
  BY DEF UploadBlock
<1>2. ASSUME NEW q \in hit
      PROVE  q = p /\ i = Programs[p].detect /\ Len(crc) = i - 1
  <2>1. new = [j \in 1 .. Programs[q].detect |-> <<q, j>>] /\ q \in Program
    OBVIOUS
  <2>2. Programs[q].detect \in Nat /\ Programs[q].detect >= 1
    BY <2>1, ProgramFacts
  <2>3. Len(new) = Programs[q].detect
    BY <2>1, <2>2
  <2>4. new[Programs[q].detect] = <<q, Programs[q].detect>>
    BY <2>1, <2>2
  <2> QED  BY <1>1, <2>2, <2>3, <2>4
<1>3. named = IF hit = {} THEN NONE ELSE CHOOSE q \in hit : TRUE
  BY DEF fl_crc_table
<1>4. hit # {} => named \in hit
  <2> HIDE DEF hit
  <2> QED  BY <1>3
<1>5. BlocksOf(new, p, 1, i) /\ i = Programs[p].detect => p \in hit
  <2> SUFFICES ASSUME BlocksOf(new, p, 1, i), i = Programs[p].detect PROVE p \in hit
    OBVIOUS
  <2>1. new = [j \in 1 .. Len(new) |-> new[j]] /\ Len(new) = i
    BY DEF BlocksOf
  <2>2. \A j \in 1 .. i : new[j] = <<p, j>>
    BY DEF BlocksOf
  <2>3. new = [j \in 1 .. i |-> <<p, j>>]
    BY <2>1, <2>2
  <2> QED  BY <2>3
<1>6. NONE # p
  BY ProgramFacts
<1> HIDE DEF hit
<1> QED  BY <1>2, <1>3, <1>4, <1>5, <1>6

-----------------------------------------------------------------------------
(* The commands.                                                           *)

\* Whatever is captured are blocks.
LEMMA CaptureTyped ==
  ASSUME NEW c \in Capture, NEW i \in Nat, NEW x \in UploadBlock, NEW n \in Nat
  PROVE  capture_fl_data(c, i, x, n) \in Capture
<1> DEFINE bytes == IF i = c.address THEN 1 ELSE n
           more == c.remain > bytes
           data == IF i = c.address THEN Append(c.data, x) ELSE c.data \o [j \in 1 .. n |-> Wrong]
<1>1. Append(c.data, x) \in Seq(UploadBlock)
  BY DEF Capture
<1>2. c.data \o [j \in 1 .. n |-> Wrong] \in Seq(UploadBlock)
  <2>1. Wrong \in UploadBlock
    BY DEF Wrong, UploadBlock
  <2>2. [j \in 1 .. n |-> Wrong] \in Seq(UploadBlock)
    BY <2>1
  <2> QED  BY <2>2 DEF Capture
<1>3. more \in BOOLEAN /\ bytes \in Nat
  OBVIOUS
<1>4. data \in Seq(UploadBlock)
  BY <1>1, <1>2
<1>5. capture_fl_data(c, i, x, n)
        = [active |-> more, address |-> c.address + bytes, remain |-> c.remain - bytes, data |-> data]
  BY DEF capture_fl_data
<1> HIDE DEF bytes, more, data
<1>6. c.address + bytes \in Nat /\ c.remain - bytes \in Int
  BY <1>3 DEF Capture
<1> QED  BY <1>3, <1>4, <1>5, <1>6 DEF Capture

\* The parts of Captured, with the arithmetic left as it is
LEMMA CapturedParts ==
  ASSUME NEW c, NEW p, NEW n
  PROVE  Captured(c, p, n) <=>
           /\ BlocksOf(c.data, p, Programs[p].capture, (n + 1) - Programs[p].capture)
           /\ c.address = n + 1 /\ c.remain = Programs[p].blocks - n
           /\ c.active <=> n < Programs[p].blocks
BY Zenon DEF Captured

\* One block further, the capture has that block too.
LEMMA CaptureBlock ==
  ASSUME NEW p \in Program, NEW i \in Nat, Programs[p].capture > 0, i <= Programs[p].blocks,
         i >= Programs[p].capture, NEW n \in Nat, NEW c \in Capture, Captured(c, p, i - 1)
  PROVE  Captured(capture_fl_data(c, i, <<p, i>>, n), p, i)
<1> DEFINE d == capture_fl_data(c, i, <<p, i>>, n)
           k == Programs[p].capture
           b == Programs[p].blocks
           more == c.remain > 1
<1>1. k \in Nat /\ k > 0 /\ b \in Nat /\ k <= b
  BY ProgramFacts
<1>2. c.address = i /\ c.remain = b - (i - 1) /\ BlocksOf(c.data, p, k, ((i - 1) + 1) - k)
  BY <1>1 DEF Captured
<1>3. d = [active |-> more, address |-> i + 1, remain |-> c.remain - 1, data |-> Append(c.data, <<p, i>>)]
  BY <1>2 DEF capture_fl_data
<1>4. (more <=> i < b) /\ c.remain - 1 = b - i
  <2> HIDE DEF b
  <2> QED  BY <1>1, <1>2
<1> HIDE DEF more, d
<1>5. BlocksOf(Append(c.data, <<p, i>>), p, k, (i + 1) - k)
  <2>1. i - k \in Nat /\ k + (i - k) = i /\ ((i - 1) + 1) - k = i - k /\ (i - k) + 1 = (i + 1) - k
    BY <1>1
  <2>2. BlocksOf(c.data, p, k, i - k)
    BY <1>2, <2>1
  <2>3. BlocksOf(Append(c.data, <<p, i>>), p, k, (i - k) + 1)
    BY <1>1, <2>1, <2>2, BlocksOfAppend
  <2> QED  BY <2>1, <2>3
<1>6. /\ d.address = i + 1 /\ d.remain = b - i /\ (d.active <=> i < b)
      /\ d.data = Append(c.data, <<p, i>>)
  BY <1>3, <1>4
<1>7. BlocksOf(d.data, p, k, (i + 1) - k)
  BY <1>5, <1>6
<1>8. Captured(d, p, i)
  BY <1>6, <1>7, CapturedParts, Zenon
<1> QED  BY <1>8 DEF d

\* A block of an upload
LEMMA MemWriteInv ==
  ASSUME CodeInv, ~wild, NEW p \in Program, NEW i \in 1 .. Programs[p].blocks,
         NEW ok \in BOOLEAN, NEW n \in 0 .. capture.remain, MemWrite(p, i, ok, n)
  PROVE  CodeInv'
<1> DEFINE crc == Append(datacrc, <<p, i>>)
           found == fl_crc_table(crc)
<1>1. i \in Nat /\ i >= 1 /\ i <= Programs[p].blocks /\ p # NONE
  BY ProgramFacts
<1>2. /\ datacrc \in Seq(UploadBlock) /\ detected_loader \in Program \cup {NONE}
      /\ uploaded \in [program : Program \cup {NONE}, sent : Nat, fresh : BOOLEAN]
  BY DEF CodeInv, CodeTyped
<1>3. /\ crc \in Seq(UploadBlock) /\ found \in {NONE, p}
      /\ found = p => i = Programs[p].detect /\ Len(datacrc) = i - 1
      /\ BlocksOf(crc, p, 1, i) /\ i = Programs[p].detect => found = p
  <2>1. <<p, i>> \in UploadBlock
    BY <1>1 DEF UploadBlock
  <2>2. crc \in Seq(UploadBlock)
    BY <1>2, <2>1
  <2> HIDE DEF found, crc
  <2>3. crc = Append(datacrc, <<p, i>>) /\ found = fl_crc_table(crc)
    BY DEF crc, found
  <2>4. datacrc \in Seq(UploadBlock) /\ i \in Nat
    BY <1>1, <1>2
  <2>5. /\ found \in {NONE, p}
        /\ found = p => i = Programs[p].detect /\ Len(datacrc) = i - 1
        /\ BlocksOf(crc, p, 1, i) /\ i = Programs[p].detect => found = p
    BY <2>3, <2>4, TableFacts, ZenonT(30)
  <2> QED  BY <2>2, <2>5
<1>4. /\ uploaded' = [program |-> p, sent |-> i, fresh |-> IF i = 1 THEN datacrc = <<>> ELSE uploaded.fresh]
      /\ i = 1 \/ (uploaded.program = p /\ uploaded.sent = i - 1)
      /\ abandoned' = (abandoned \/ (i = 1 /\ (detected_loader # NONE \/ capture.active)))
      /\ previous_loader' = NONE /\ datacrc' = crc
      /\ detected_loader' = IF found = NONE THEN detected_loader ELSE found
      /\ ran' = ran /\ keyed' = keyed
  BY DEF MemWrite, handle_memwrite
<1> DEFINE running == IF capture.active THEN capture_fl_data(capture, i, <<p, i>>, n) ELSE capture
           starts == found # NONE /\ ~running.active /\ Programs[found].capture > 0
           begun == [active |-> TRUE, address |-> Programs[found].capture,
                     remain |-> Len(Key(found)), data |-> <<>>]
<1>5. /\ capture' = IF starts /\ ok THEN capture_fl_data(begun, i, <<p, i>>, n) ELSE running
      /\ wild' = (starts /\ ~ok)
  BY DEF MemWrite, handle_memwrite
<1> HIDE DEF crc, found
<1>6. uploaded'.program = p /\ uploaded'.sent = i /\ uploaded'.fresh \in BOOLEAN
      /\ uploaded'.fresh = IF i = 1 THEN datacrc = <<>> ELSE uploaded.fresh
  BY <1>2, <1>4
<1>7. RightHandler'
  BY <1>4 DEF CodeInv, CodeTyped, RightHandler, RightLoader, Recognized, KeyCaptured
<1>8. Detected'
  <2> SUFFICES ASSUME ~abandoned' PROVE Detected'
    BY DEF Detected
  <2>1. ~abandoned /\ (i = 1 => detected_loader = NONE)
    BY <1>4 DEF CodeInv, CodeTyped
  <2>2. detected_loader \in {NONE, p} /\ (detected_loader = p => i - 1 >= Programs[p].detect)
    BY <1>1, <1>4, <2>1 DEF CodeInv, Detected
  <2>3. detected_loader' \in {NONE, p} /\ (detected_loader' = p => i >= Programs[p].detect)
    BY <1>1, <1>3, <1>4, <2>2, ProgramFacts
  <2> QED  BY <1>1, <1>4, <1>6, <2>3 DEF Detected
<1>9. Summed'
  <2> SUFFICES ASSUME uploaded'.fresh PROVE BlocksOf(crc, p, 1, i) /\ (i >= Programs[p].detect => detected_loader' = p)
    BY <1>1, <1>4, <1>6 DEF Summed
  <2>1. CASE i = 1
    <3>1. datacrc = <<>>
      BY <1>6, <2>1
    <3>2. BlocksOf(datacrc, p, 1, 0)
      BY <3>1, BlocksOfEmpty
    <3>3. BlocksOf(Append(datacrc, <<p, 1 + 0>>), p, 1, 0 + 1)
      BY <3>2, BlocksOfAppend
    <3>4. BlocksOf(crc, p, 1, 1)
      BY <2>1, <3>3 DEF crc
    <3> QED  BY <1>1, <1>3, <1>4, <2>1, <3>4, ProgramFacts
  <2>2. CASE i # 1
    <3>1. uploaded.fresh /\ uploaded.program = p /\ uploaded.sent = i - 1 /\ i - 1 # Programs[p].blocks
      BY <1>1, <1>4, <1>6, <2>2, ProgramFacts
    <3>2. BlocksOf(datacrc, p, 1, i - 1) /\ (i - 1 >= Programs[p].detect => detected_loader = p)
      BY <3>1 DEF CodeInv, Summed
    <3>3. BlocksOf(crc, p, 1, i)
      <4>1. i - 1 \in Nat /\ 1 + (i - 1) = i /\ (i - 1) + 1 = i
        BY <1>1
      <4> QED  BY <3>2, <4>1, BlocksOfAppend DEF crc
    <3>4. CASE i = Programs[p].detect
      BY <1>1, <1>3, <1>4, <3>3, <3>4
    <3>5. CASE i # Programs[p].detect
      BY <1>1, <1>3, <1>4, <3>2, <3>3, <3>5, ProgramFacts
    <3> QED  BY <3>3, <3>4, <3>5
  <2> QED  BY <2>1, <2>2
<1>12. n \in Nat /\ <<p, i>> \in UploadBlock /\ capture \in Capture
  BY <1>1 DEF CodeInv, CodeTyped, UploadBlock, Capture
<1>13. running \in Capture
  BY <1>1, <1>12, CaptureTyped
<1>14. ASSUME found = p, Programs[p].capture > 0
       PROVE  begun \in Capture /\ Captured(begun, p, i - 1) /\ i = Programs[p].capture
  <2> DEFINE k == Programs[p].capture
             b == Programs[p].blocks
  <2>1. k \in Nat /\ b \in Nat /\ k <= b /\ i = k
    BY <1>1, <1>3, <1>14, ProgramFacts
  <2>2. Len(Key(p)) = b - k + 1
    BY <2>1 DEF Key
  <2>3. begun = [active |-> TRUE, address |-> k, remain |-> b - k + 1, data |-> <<>>]
    BY <1>14, <2>2
  <2> HIDE DEF begun
  <2>4. begun.active /\ begun.address = k /\ begun.remain = b - k + 1 /\ begun.data = <<>>
    BY <2>3
  <2>5. BlocksOf(<<>>, p, k, 0)
    BY <2>1, BlocksOfEmpty
  <2>6. ((i - 1) + 1) - k = 0 /\ (i - 1) + 1 = k /\ b - (i - 1) = b - k + 1 /\ i - 1 < b
    BY <2>1
  <2>7. begun \in Capture
    BY <2>1, <2>3 DEF Capture
  <2> QED  BY <2>1, <2>4, <2>5, <2>6, <2>7 DEF Captured
<1>15. capture' \in Capture
  <2>1. starts => found = p /\ Programs[p].capture > 0
    BY <1>3
  <2> HIDE DEF begun, starts, running
  <2> QED  BY <1>1, <1>5, <1>12, <1>13, <1>14, <2>1, CaptureTyped
<1>16. Capturing'
  <2> SUFFICES ASSUME ~abandoned', ~wild'
               PROVE  IF detected_loader' # NONE /\ Programs[detected_loader'].capture > 0
                      THEN Captured(capture', detected_loader', uploaded'.sent)
                      ELSE ~capture'.active
    BY DEF Capturing
  <2>1. ~abandoned /\ (i = 1 => detected_loader = NONE /\ ~capture.active)
    BY <1>4 DEF CodeInv, CodeTyped
  <2>2. detected_loader' \in {NONE, p} /\ detected_loader \in {NONE, detected_loader'}
    BY <1>1, <1>3, <1>4, <1>6, <1>8, <2>1 DEF CodeInv, Detected, CodeTyped
  <2>3. CASE detected_loader' # NONE /\ Programs[detected_loader'].capture > 0
    <3>1. detected_loader' = p /\ Programs[p].capture > 0
      BY <2>2, <2>3
    <3>2. CASE detected_loader = NONE
      <4>1. found = p /\ ~capture.active
        BY <1>3, <1>4, <2>1, <3>1, <3>2 DEF CodeInv, Capturing
      <4>2. starts
        BY <1>1, <3>1, <4>1
      <4>3. ok
        BY <1>5, <4>2
      <4> HIDE DEF starts, running, begun
      <4>4. capture' = capture_fl_data(begun, i, <<p, i>>, n)
        BY <1>5, <4>2, <4>3
      <4>5. begun \in Capture /\ Captured(begun, p, i - 1) /\ i = Programs[p].capture
        BY <1>14, <3>1, <4>1
      <4>6. i >= Programs[p].capture
        BY <1>1, <4>5
      <4>7. Captured(capture', p, i)
        BY <1>1, <1>12, <3>1, <4>4, <4>5, <4>6, CaptureBlock
      <4>8. Captured(capture', detected_loader', uploaded'.sent)
        BY <1>6, <3>1, <4>7, Zenon
      <4> QED  BY <2>3, <4>8, Zenon
    <3>3. CASE detected_loader # NONE
      <4>1. detected_loader = p /\ uploaded.sent = i - 1 /\ i - 1 >= Programs[p].detect
        BY <1>1, <1>4, <2>1, <2>2, <3>3 DEF CodeInv, Detected
      <4>2. found = NONE /\ i >= Programs[p].capture /\ i - 1 < Programs[p].blocks
        BY <1>1, <1>3, <3>1, <4>1, ProgramFacts
      <4>3. Captured(capture, p, i - 1)
        <5>1. detected_loader # NONE /\ Programs[detected_loader].capture > 0 /\ Capturing
          BY <1>1, <3>1, <4>1 DEF CodeInv
        <5>2. Captured(capture, detected_loader, uploaded.sent)
          BY <2>1, <5>1, Zenon DEF Capturing
        <5> QED  BY <4>1, <5>2, Zenon
      <4>4. capture.active
        BY <4>2, <4>3 DEF Captured
      <4>5. capture' = capture_fl_data(capture, i, <<p, i>>, n)
        BY <1>5, <4>2, <4>4
      <4>6. Captured(capture', p, i)
        BY <1>1, <1>12, <3>1, <4>2, <4>3, <4>5, CaptureBlock
      <4>7. Captured(capture', detected_loader', uploaded'.sent)
        BY <1>6, <3>1, <4>6, Zenon
      <4> QED  BY <2>3, <4>7, Zenon
    <3> QED  BY <3>2, <3>3
  <2>4. CASE ~(detected_loader' # NONE /\ Programs[detected_loader'].capture > 0)
    <3>1. ~capture.active
      BY <2>1, <2>2, <2>4 DEF CodeInv, Capturing
    <3>2. ~starts
      BY <1>3, <1>4, <2>4
    <3>3. capture' = capture
      <4> HIDE DEF starts
      <4> QED  BY <1>5, <3>1, <3>2
    <3> QED  BY <2>4, <3>1, <3>3
  <2> QED  BY <2>3, <2>4
<1>10. capture' \in Capture /\ Capturing'
  BY <1>15, <1>16
<1>11. CodeTyped'
  BY <1>1, <1>2, <1>3, <1>4, <1>6, <1>10 DEF CodeInv, CodeTyped
<1> QED  BY <1>7, <1>8, <1>9, <1>10, <1>11 DEF CodeInv

\* M-E: the handler is the one of the upload, and the key is there.
LEMMA MemExecuteInv == CodeInv /\ ~wild /\ MemExecute => CodeInv'
<1> SUFFICES ASSUME CodeInv, ~wild, MemExecute PROVE CodeInv'
  OBVIOUS
<1>1. PICK p \in Program : p = uploaded.program
  BY DEF MemExecute, CodeInv, CodeTyped
<1> DEFINE d == IF detected_loader = NONE THEN previous_loader ELSE detected_loader
           h == IF d # NONE /\ Programs[d].start = Programs[p].start THEN d ELSE NONE
<1>2. /\ uploaded.sent = Programs[p].blocks /\ p # NONE
      /\ uploaded' = uploaded /\ abandoned' = abandoned
      /\ ran' = [handler |-> h, upload |-> uploaded, again |-> detected_loader = NONE]
      /\ keyed' = capture.data
      /\ datacrc' = <<>> /\ previous_loader' = d /\ detected_loader' = NONE
  BY <1>1, ProgramFacts DEF MemExecute, run_loader
<1>3. d \in Program \cup {NONE} /\ h \in {NONE, d}
  BY DEF CodeInv, CodeTyped
<1> DEFINE again == detected_loader = NONE
<1>4. ran'.handler = h /\ ran'.upload = uploaded /\ ran'.again = again
  BY <1>2
<1>5. capture' \in {capture, [capture EXCEPT !.data = <<>>]}
  BY DEF MemExecute, run_loader
<1>6. capture'.active = capture.active
      /\ capture' \in Capture
  <2>1. <<>> \in Seq(UploadBlock)
    OBVIOUS
  <2> QED  BY <1>5, <2>1 DEF CodeInv, CodeTyped, Capture
<1>7. CodeTyped'
  <2>1. again \in BOOLEAN
    OBVIOUS
  <2>2. ran' \in [handler : Program \cup {NONE},
                  upload : [program : Program \cup {NONE}, sent : Nat, fresh : BOOLEAN], again : BOOLEAN]
    <3> HIDE DEF again, h, d
    <3>1. uploaded \in [program : Program \cup {NONE}, sent : Nat, fresh : BOOLEAN]
      BY DEF CodeInv, CodeTyped
    <3>2. ran' = [handler |-> h, upload |-> uploaded, again |-> again]
      BY <1>2 DEF again
    <3> QED  BY <1>3, <2>1, <3>1, <3>2
  <2> HIDE DEF h, d
  <2> QED  BY <1>2, <1>3, <1>6, <2>2 DEF CodeInv, CodeTyped
<1>8. ~abandoned => d \in {NONE, p}
  BY <1>1 DEF CodeInv, Detected
<1>9. Detected'
  <2> HIDE DEF h, d
  <2> QED  BY <1>1, <1>2, <1>8 DEF Detected
<1>10. uploaded.fresh => d = p
  <2>1. Programs[p].blocks >= Programs[p].detect
    BY ProgramFacts
  <2> QED  BY <1>1, <1>2, <2>1 DEF CodeInv, Summed
<1>11. Summed'
  <2> HIDE DEF h, d
  <2> QED  BY <1>1, <1>2, <1>10 DEF Summed
<1>12. Capturing'
  <2> SUFFICES ASSUME ~abandoned PROVE ~capture.active
    BY <1>2, <1>6 DEF Capturing
  <2>1. Programs[p].blocks \in Nat
    BY ProgramFacts
  <2> QED  BY <1>1, <1>2, <2>1 DEF CodeInv, Capturing, Captured, Detected
<1>13. RightLoader'
  BY <1>1, <1>2, <1>3, <1>4, <1>8 DEF RightLoader
<1>14. Recognized'
  BY <1>1, <1>2, <1>4, <1>10 DEF Recognized
<1>15. KeyCaptured'
  <2> SUFFICES ASSUME ~abandoned, detected_loader # NONE, h # NONE, Programs[h].capture > 0
               PROVE  capture.data = Key(h)
    BY <1>2, <1>4 DEF KeyCaptured
  <2>1. h = p /\ detected_loader = p
    BY <1>1, <1>3, <1>8 DEF CodeInv, Detected
  <2> HIDE DEF h, d
  <2>2. Programs[p].capture \in Nat /\ Programs[p].blocks \in Nat /\ Programs[p].capture <= Programs[p].blocks
    BY <2>1, ProgramFacts
  <2>3. Captured(capture, p, Programs[p].blocks)
    BY <1>1, <1>2, <2>1 DEF CodeInv, Capturing
  <2> DEFINE k == Programs[p].capture
             n == Programs[p].blocks - Programs[p].capture + 1
  <2>4. BlocksOf(capture.data, p, k, n)
    <3>1. (Programs[p].blocks + 1) - k = n
      BY <2>2
    <3>2. BlocksOf(capture.data, p, k, (Programs[p].blocks + 1) - k)
      BY <2>3, CapturedParts, Zenon
    <3> HIDE DEF n, k
    <3> QED  BY <3>1, <3>2
  <2>5. n \in Nat
    BY <2>2
  <2>6. Key(p) = [j \in 1 .. n |-> <<p, k + j - 1>>]
    BY DEF Key
  <2> HIDE DEF n, k
  <2>7. k \in Nat
    BY <2>2 DEF k
  <2>8. capture.data = [j \in 1 .. n |-> <<p, k + j - 1>>]
    BY <2>4, <2>5, <2>7, BlocksOfIs
  <2> QED  BY <2>1, <2>6, <2>8
<1> QED  BY <1>7, <1>9, <1>11, <1>12, <1>13, <1>14, <1>15 DEF CodeInv, RightHandler

\* OPEN starts a new CRC: an upload that goes on is not a fresh one.
LEMMA OpenResetsInv == CodeInv /\ OpenResets => CodeInv'
<1> SUFFICES ASSUME CodeInv, OpenResets PROVE CodeInv'
  OBVIOUS
<1>1. /\ datacrc' = <<>> /\ uploaded' = [uploaded EXCEPT !.fresh = FALSE]
      /\ abandoned' = (abandoned \/ detected_loader # NONE \/ capture.active)
      /\ UNCHANGED <<detected_loader, previous_loader, capture, ran, keyed, wild>>
  BY DEF OpenResets
<1>2. /\ uploaded'.program = uploaded.program /\ uploaded'.sent = uploaded.sent /\ uploaded'.fresh = FALSE
      /\ uploaded' \in [program : Program \cup {NONE}, sent : Nat, fresh : BOOLEAN]
  BY <1>1 DEF CodeInv, CodeTyped
<1>3. CodeTyped'
  BY <1>1, <1>2 DEF CodeInv, CodeTyped
<1>4. ~abandoned' => ~abandoned /\ detected_loader = NONE /\ ~capture.active
  BY <1>1 DEF CodeInv, CodeTyped
<1>5. Detected' /\ Summed' /\ Capturing'
  BY <1>1, <1>2, <1>4 DEF CodeInv, Detected, Summed, Capturing
<1>6. RightHandler'
  BY <1>1, <1>4 DEF CodeInv, RightHandler, RightLoader, Recognized, KeyCaptured
<1> QED  BY <1>3, <1>5, <1>6 DEF CodeInv

\* Steps of the handlers, and commands that are no part of an upload
LEMMA CodeIdle == CodeInv /\ UNCHANGED <<datacrc, detected_loader, previous_loader, capture, uploaded, ran, keyed, abandoned, wild>> => CodeInv'
BY DEF CodeInv, CodeTyped, Detected, Summed, Capturing, Captured, RightHandler, RightLoader, Recognized, KeyCaptured

\* At first nothing is uploaded.
LEMMA CodeInvInit == CodeInit => CodeInv
<1> SUFFICES ASSUME CodeInit PROVE CodeInv
  OBVIOUS
<1>1. CodeTyped
  <2>1. NoCapture \in Capture /\ NoCapture.active = FALSE
    BY DEF NoCapture, Capture
  <2>2. uploaded \in [program : Program \cup {NONE}, sent : Nat, fresh : BOOLEAN] /\ uploaded.program = NONE
    BY DEF CodeInit
  <2>3. ran \in [handler : Program \cup {NONE},
                 upload : [program : Program \cup {NONE}, sent : Nat, fresh : BOOLEAN], again : BOOLEAN]
    BY <2>2 DEF CodeInit
  <2>4. datacrc \in Seq(UploadBlock) /\ detected_loader = NONE /\ previous_loader = NONE /\ abandoned = FALSE
    BY DEF CodeInit
  <2>5. capture \in Capture
    BY <2>1 DEF CodeInit
  <2> QED  BY <2>2, <2>3, <2>4, <2>5 DEF CodeTyped
<1>2. Detected /\ Summed /\ Capturing
  BY DEF CodeInit, Detected, Summed, Capturing, NoCapture
<1>3. RightHandler
  BY DEF CodeInit, RightHandler, RightLoader, Recognized, KeyCaptured
<1> QED  BY <1>1, <1>2, <1>3 DEF CodeInv

\* Every step of the fast loaders keeps the invariant.
LEMMA CodeInvNext == CodeInv /\ [Next]_vars => CodeInv'
<1> SUFFICES ASSUME CodeInv, [Next]_vars PROVE CodeInv'
  OBVIOUS
<1>1. CASE CodeNext
  <2>0. ~wild
    BY <1>1 DEF CodeNext
  <2>1. CASE \E p \in Program : \E i \in 1 .. Programs[p].blocks, ok \in BOOLEAN, n \in 0 .. capture.remain :
                MemWrite(p, i, ok, n)
    BY <2>0, <2>1, MemWriteInv
  <2>2. CASE MemWriteIgnored
    BY <2>2, CodeIdle DEF MemWriteIgnored
  <2>3. CASE MemExecute
    BY <2>0, <2>3, MemExecuteInv
  <2>4. CASE OpenResets
    BY <2>4, OpenResetsInv
  <2> QED  BY <1>1, <2>1, <2>2, <2>3, <2>4 DEF CodeNext
<1>2. CASE UNCHANGED codevars
  BY <1>2, CodeIdle DEF codevars
<1> QED  BY <1>1, <1>2 DEF Next, vars

\* M-E runs the handler of the program that was uploaded, finds it for every program
\* whose upload began with a new CRC, and hands it its whole key.
THEOREM RightHandlerHolds == Spec => []RightHandler
<1>1. Init => CodeInv
  BY CodeInvInit DEF Init
<1>2. CodeInv /\ [Next]_vars => CodeInv'
  BY CodeInvNext
<1>3. CodeInv => RightHandler
  BY DEF CodeInv
<1>4. Spec => Init /\ [][Next]_vars
  BY PTL DEF Spec
<1> QED  BY <1>1, <1>2, <1>3, <1>4, PTL
=============================================================================
