----------------------------- MODULE MCFastLoad -----------------------------
(* All loaders, files of every length around one and two sectors of six     *)
(* bytes, with the escape byte of G.I.Joe in them, a chain of two sectors,  *)
(* every routine for a byte with four bytes that tell all bits apart.       *)
EXTENDS FastLoad

MCFileLoaders == {"turbodisk", "fc3", "oldfreeze", "ar6", "eload1", "epyxcart", "gijoe", "n0sdos",
                  "samsjourney", "wheels_s1", "dolphin"}

MCSavers == {"save_fc3", "save_ar6", "write_sams", "save_dolphin"}

MCSectorLoaders == {"dreamload", "uload3", "mmzak", "nippon", "geos", "geos_s1", "wheels_s2"}

Text(n) == [i \in 1 .. n |-> IF i \in {4, 5, 7} THEN HexAC ELSE (i * 3) % W]

MCFiles == {Text(n) : n \in {3, 6, 7, 13}}

MCContents == {Text(n) : n \in {1, 6, 7, 12, 14}}

MCRoutines == DOMAIN Catalogue

MCLink == <<2, 0>>

MCPrograms == [geos_s1 |-> [blocks |-> 3, detect |-> 1, capture |-> 1, start |-> 1],
               mmzak   |-> [blocks |-> 2, detect |-> 2, capture |-> 0, start |-> 2],
               gijoe   |-> [blocks |-> 2, detect |-> 1, capture |-> 0, start |-> 2]]
=============================================================================
