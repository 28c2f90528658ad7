------------------------------ MODULE MCCpswRx ------------------------------
(* The receive ring with lwIP keeping a pbuf or any number of them. *)
EXTENDS CpswRx
Surroundings == [maxHeld : {1, 4}, linkAtFetch : BOOLEAN]
=============================================================================
