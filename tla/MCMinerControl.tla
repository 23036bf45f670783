---------------------------- MODULE MCMinerControl ----------------------------
(* Three calls, of Start in one goroutine and of Stop in another, in any     *)
(* order and at the same time, around one synchronisation.                   *)
EXTENDS MinerControl
=============================================================================
