------------------------------ MODULE MCFatFs ------------------------------
\* A FAT16 volume with two sectors in a cluster, a FAT32 volume with FSInfo in a
\* partition, and two FAT16 volumes that share the window.  Failures are followed
\* with one file open at a time.
EXTENDS FatFs

Fat16 == [type |-> 16, boot |-> 0, per |-> 3, csize |-> 2, max |-> 4, root |-> 3, vols |-> 1,
          names |-> {1, 2}, most |-> 8, offsets |-> {7}, handles |-> 2, failures |-> 0,
          headers |-> {0, 1}, modes |-> {"r", "w", "rw"}, dumps |-> {3, 4}]
Fat32 == [type |-> 32, boot |-> 1, per |-> 3, csize |-> 1, max |-> 6, root |-> 0, vols |-> 1,
          names |-> {2, 3}, most |-> 6, offsets |-> {4}, handles |-> 2, failures |-> 0,
          headers |-> {0, 1}, modes |-> {"r", "w", "rw"}, dumps |-> {3, 4}]
Twice == [type |-> 16, boot |-> 0, per |-> 3, csize |-> 1, max |-> 4, root |-> 3, vols |-> 2,
          names |-> {1}, most |-> 4, offsets |-> {1}, handles |-> 2, failures |-> 0,
          headers |-> {0, 1}, modes |-> {"r", "w", "rw"}, dumps |-> {3, 4}]

Failing(f) == [f EXCEPT !.handles = 1, !.failures = 1]

MCFormats == {Fat16, Fat32, Twice, Failing(Fat16), Failing(Fat32), Failing(Twice)}
=============================================================================
