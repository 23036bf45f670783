--------------------------- MODULE MCSignerRotation ---------------------------
(* SignerRotation for two small networks.                                    *)
(*  - MC...: three signers, every second loop elects, no levels;             *)
(*  - MCLevel...: the levelled election, four signers, with tallies of fewer *)
(*    and of more candidates than the history has hashes for.                *)
(* A block has a low or a high hash, so that hashes come in many orders.     *)
EXTENDS SignerRotation, TLC

MCSelfVoteSigners == <<1, 2, 3>>
MCTallies == { 1 :> 4 @@ 2 :> 1 @@ 3 :> 1 @@ 4 :> 2,
               1 :> 1 @@ 2 :> 4 @@ 3 :> 20 @@ 4 :> 3,
               1 :> 3 @@ 2 :> 3,
               <<>> }
MCHashAt == [n \in 0..MaxNumber |-> {1 + n, 50 - n}]

MCLevelSigners == <<1, 2, 3, 4>>
MCLevelTallies == { [a \in 1..7 |-> 10 + a], [a \in 1..13 |-> 10], [a \in 1..14 |-> 10] }
MCLevelHashAt == [n \in 0..MaxNumber |-> IF n < 3 THEN {1 + n} ELSE {1 + n, 50 - n}]

=============================================================================
