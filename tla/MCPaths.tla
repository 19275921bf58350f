------------------------------ MODULE MCPaths ------------------------------
(***************************************************************************)
(* Two FAT partitions.  On the first a directory with an image with a      *)
(* subdirectory, and two files; on the second an image without them, and   *)
(* one that cannot be mounted.  One entry is free.                         *)
(***************************************************************************)
EXTENDS Paths

Node(kind, name, up) == [kind |-> kind, name |-> name, up |-> up]
a == <<"a">>
b == <<"b">>
ai == <<"a", "i">>
bi == <<"b", "i">>
star == <<"*">>
root == <<>>
up == <<"_">>

Tree == <<Node("dir", <<>>, 0), Node("dir", <<>>, 0),
          Node("dir", a, 1), Node("file", b, 1), Node("file", b, 3),
          Node("dnp", ai, 3), Node("dir", b, 6), Node("file", a, 6),
          Node("d64", ai, 2), Node("file", b, 9), Node("bad", bi, 2), Free>>

In(num, colon, steps, name) == [num |-> num, colon |-> colon, steps |-> steps, name |-> name]

Given ==
  {In(0, FALSE, <<>>, n) : n \in {b, ai}}
    \cup {In(0, TRUE, <<>>, n) : n \in {b, up, <<"_", "a">>, <<"*", "b">>}}
    \cup {In(2, TRUE, <<>>, n) : n \in {ai, bi}}
    \cup {In(k, TRUE, <<>>, a) : k \in {3, 5}}
    \cup {In(0, TRUE, <<root>>, a), In(0, TRUE, <<a>>, b), In(0, TRUE, <<a>>, up)}
    \cup {In(1, FALSE, s, <<>>) : s \in {<<root>>, <<a, ai>>, <<a, b>>}}

Lists ==
  {<<In(0, FALSE, <<>>, b)>>, <<In(0, FALSE, <<>>, <<"*", "i">>)>>, <<In(0, TRUE, <<star>>, <<"?">>)>>, <<In(3, TRUE, <<>>, b)>>,
   <<In(0, FALSE, <<>>, <<"b", "a">>), In(0, FALSE, <<>>, b)>>, <<In(0, FALSE, <<>>, b), In(0, TRUE, <<a, b>>, a)>>,
   <<In(0, TRUE, <<a>>, a), In(0, TRUE, <<a>>, b)>>, <<In(1, TRUE, <<>>, b), In(2, TRUE, <<>>, a)>>}
=============================================================================
