------------------------------ MODULE MCIecBus ------------------------------
(***************************************************************************)
(* Two setups: one device, all requests and a reset of the computer; and   *)
(* two devices that are sent commands, so that one works while the         *)
(* computer is busy with the other.                                        *)
(***************************************************************************)
EXTENDS IecBus

One == [on |-> {8}, codes |-> {"open", "data", "command", "close", "talk"}, bytes |-> 3, resets |-> 1]
Two == [on |-> {8, 9}, codes |-> {"command"}, bytes |-> 1, resets |-> 0]

BothSetups == {One, Two}
=============================================================================
