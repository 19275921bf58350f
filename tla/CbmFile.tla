------------------------------- MODULE CbmFile -------------------------------
(***************************************************************************)
(* What a sequential file promises the host, without buffers: the bytes it *)
(* sends are appended in order, and the bytes it fetches are the file's,   *)
(* each once, with EOI at the last one exactly.  A relative file is a      *)
(* state of its own about which nothing is said here.                      *)
(***************************************************************************)
EXTENDS Integers, Sequences

CONSTANTS Chars,      \* bytes the host sends
          Offsets,    \* bound: offsets the host positions to
          CR,         \* what an empty file, or the end of a file, reads as
          Junk        \* an arbitrary byte

VARIABLES content,    \* the file as the host wrote it
          mode,       \* closed, read, done, lost, write or rel
          next,       \* index of the byte the host fetches or sends next
          got         \* the byte fetched last, and whether it had EOI

vars == <<content, mode, next, got>>

Nothing == [byte |-> Junk, eoi |-> FALSE]

Init == content = <<>> /\ mode = "closed" /\ next = 0 /\ got = Nothing

Open(m, at, c) ==
  /\ mode = "closed"
  /\ mode' = m
  /\ next' = at
  /\ content' = c
  /\ UNCHANGED got

Scratch == mode = "closed" /\ content' = <<>> /\ UNCHANGED <<mode, next, got>>

\* The file up to the byte the host writes next.
Padded == content \o [i \in 1 .. next - 1 - Len(content) |-> 0]

Put(b) ==
  /\ mode = "write"
  /\ content' = Append(Padded, b)
  /\ next' = next + 1
  /\ got' = Nothing
  /\ UNCHANGED mode

Get ==
  /\ mode = "read"
  /\ got' = IF next <= Len(content)
              THEN [byte |-> content[next], eoi |-> next = Len(content)]
              ELSE [byte |-> CR, eoi |-> TRUE]
  /\ IF next < Len(content) THEN next' = next + 1 /\ mode' = mode
                            ELSE next' = 0 /\ mode' = "done"
  /\ UNCHANGED content

\* P: to an offset in the file, or past its end, where what the host fetches
\* is not defined and what it writes comes after zeros.
Seek(ofs) ==
  /\ \/ mode \in {"read", "lost"} /\ content' = content
        /\ IF ofs <= Len(content) THEN mode' = "read" /\ next' = ofs + 1
                                  ELSE mode' = "lost" /\ next' = 0
     \/ mode = "done" /\ UNCHANGED <<content, mode, next>>
     \/ mode = "write" /\ ofs > Len(content) /\ next' = ofs + 1
        /\ UNCHANGED <<content, mode>>
  /\ got' = Nothing

GetLost ==
  /\ mode = "lost"
  /\ mode' \in {"lost", "done"}
  /\ UNCHANGED <<content, next>>

\* An error ends the transfer, at once or after another byte.  Of what was
\* written a prefix is kept, in which a gap may not have been filled.
Fail ==
  /\ mode # "closed"
  /\ mode' = "closed" /\ next' = 0
  /\ IF mode = "write"
       THEN /\ Len(content') <= Len(Padded)
            /\ \A i \in 1 .. Len(content') : content'[i] \in {Padded[i], Junk}
       ELSE content' = content

\* A file that was closed before a byte was written stays empty.  The comment at
\* fatops.c:728 wants a single 0x0d byte in it; fat_file_write drops that byte
\* (position - 1 < 2), and the host sees the 0x0d only because an empty file
\* reads as one (Get).
Close ==
  /\ mode # "closed"
  /\ mode' = "closed" /\ next' = 0 /\ got' = Nothing
  /\ content' = IF mode = "write" THEN Padded ELSE content

OpenRel == mode = "closed" /\ mode' = "rel"
Rel     == mode = "rel" /\ mode' \in {"rel", "closed"}

Next ==
  \/ Open("read", 1, content)
  \/ Open("write", Len(content) + 1, content)
  \/ Open("write", 1, <<>>)
  \/ OpenRel \/ Rel \/ Scratch \/ Get \/ GetLost \/ Fail \/ Close
  \/ \E b \in Chars : Put(b)
  \/ \E ofs \in Offsets : Seek(ofs)

Spec == Init /\ [][Next]_vars
=============================================================================
