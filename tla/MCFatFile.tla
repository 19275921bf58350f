------------------------------ MODULE MCFatFile ------------------------------
(* Instances of FatFile for TLC.                                           *)
EXTENDS FatFile
=============================================================================
