---------------------------- MODULE MCDiskImage ----------------------------
\* Three or four tracks of a few sectors: the directory fills its sectors, files
\* fill the disk, and every type but D41 has more than one BAM sector.
EXTENDS DiskImage

D41 == [kind |-> "D41", last |-> 3, dir |-> 2, start |-> 1, half |-> 0, spt |-> <<2, 3, 2>>,
        filestep |-> 1, dirstep |-> 1, spare |-> TRUE, errorinfo |-> TRUE, bad |-> {<<3, 1>>}]
D71 == [kind |-> "D71", last |-> 4, dir |-> 2, start |-> 1, half |-> 2, spt |-> <<1, 3, 3, 1>>,
        filestep |-> 2, dirstep |-> 1, spare |-> TRUE, errorinfo |-> FALSE, bad |-> {}]
D81 == [kind |-> "D81", last |-> 3, dir |-> 2, start |-> 3, half |-> 2, spt |-> <<2, 5, 2>>,
        filestep |-> 1, dirstep |-> 1, spare |-> FALSE, errorinfo |-> FALSE, bad |-> {}]
DNPs == [kind |-> "DNP", last |-> 4, dir |-> 1, start |-> 5, half |-> 2, spt |-> <<7, 1, 1, 1>>,
        filestep |-> 1, dirstep |-> 1, spare |-> TRUE, errorinfo |-> FALSE, bad |-> {}]

Symmetry == Permutations(Names)

MCFormats == {D41, D71, [D71 EXCEPT !.spare = FALSE], D81, DNPs}
=============================================================================
