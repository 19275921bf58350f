------------------------------ MODULE MCChannels ------------------------------
(* Instances of Channels for TLC.                                          *)
EXTENDS Channels, TLC

\* File names and partitions are interchangeable.
Symmetric == Permutations(Names) \cup Permutations(Partitions)

\* A pool that is not followed any further is one state, and error and skipped,
\* which no handler reads, are left out: for properties that do not read them.
Followed == IF astray THEN <<astray>> ELSE <<pool, opened, files, mounted, bam>>
=============================================================================
