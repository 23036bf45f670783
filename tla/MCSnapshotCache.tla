--------------------------- MODULE MCSnapshotCache ---------------------------
(* A chain of two blocks, a fork at block 1, and a malformed block there;    *)
(* room for one snapshot in memory, so that every second one evicts another, *)
(* and checkpoints at every second block.  One goroutine follows the chain   *)
(* while the other asks for the forks and builds on the genesis block: a     *)
(* walk meets memory, disk, the genesis block and evicted entries.           *)
EXTENDS SnapshotCache, TLC

CONSTANTS g, a1, a2, b1, c1, p1, p2

MCParent == a1 :> g @@ a2 :> a1 @@ b1 :> g @@ c1 :> g
MCHistory == g :> <<>> @@ a1 :> <<a1>> @@ a2 :> <<a1, a2>> @@ b1 :> <<b1>> @@ c1 :> <<c1>>
MCWanted == p1 :> {g, b1, c1} @@ p2 :> {a1, a2}
=============================================================================
