------------------------------ MODULE MCProposals ------------------------------
(* Two proposals on which d1 may declare, in each of these networks:         *)
(*  - a side chain is added and removed;                                     *)
(*  - the share of the miner is changed twice;                               *)
(*  - the share is changed and a candidate proposed, and d1 owns exactly two *)
(*    thirds of the stake, which is not enough.                              *)
EXTENDS Proposals, TLC

CONSTANTS h1, h2, d1, d2

MCHash == {h1, h2}
MCDeclarer == {d1}
MCValidity == h1 :> 1 @@ h2 :> 1

Network(k1, v1, k2, v2, s1, s2) ==
    [kind |-> h1 :> k1 @@ h2 :> k2, value |-> h1 :> v1 @@ h2 :> v2,
     tally |-> d1 :> s1 @@ d2 :> s2]

MCSetups == { Network("scAdd", 7, "scRemove", 7, 3, 1),
              Network("reward", 700, "reward", 800, 3, 1),
              Network("reward", 700, "candidate", 0, 2, 1) }

=============================================================================
