------------------------------ MODULE MCSdCard ------------------------------
(***************************************************************************)
(* In the first slot cards of each kind, the SD card protected, and two    *)
(* that fail to start; in the second one that works.                       *)
(***************************************************************************)
EXTENDS SdCard

Good(k) == [kind |-> k, wp |-> FALSE, fault |-> "none"]

Slots == [d \in 0 .. 1 |->
            IF d = 1 THEN {Good("SDHC")}
            ELSE {Good("MMC"), Good("SDHC"), [kind |-> "SD", wp |-> TRUE, fault |-> "none"],
                  [kind |-> "SD", wp |-> FALSE, fault |-> "idle"], [kind |-> "SDHC", wp |-> FALSE, fault |-> "volts"]}]
=============================================================================
