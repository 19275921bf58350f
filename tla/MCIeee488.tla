------------------------------ MODULE MCIeee488 ------------------------------
(***************************************************************************)
(* A board without IFC whose main loop is slower than the controller, and  *)
(* one with IFC whose main loop is faster.                                 *)
(***************************************************************************)
EXTENDS Ieee488

Boards == {[HasIFC |-> FALSE, Delays |-> {"main"}], [HasIFC |-> TRUE, Delays |-> {}]}
==============================================================================
