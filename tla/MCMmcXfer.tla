----------------------------- MODULE MCMmcXfer -----------------------------
(* Block transfers under several combinations of faults. *)
EXTENDS MmcXfer
Faults == {{"card", "data"}, {"cmd", "stop", "data"},
           {"slow", "cmd", "data"}}
StopFault == {{"stop"}}
=============================================================================
