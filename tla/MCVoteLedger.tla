----------------------------- MODULE MCVoteLedger -----------------------------
(* VoteLedger with one self vote signer g, two more voters and one candidate *)
(* nobody votes for at genesis.                                              *)
EXTENDS VoteLedger, TLC

CONSTANTS g, v1, v2, c1

MCVoter == {g, v1, v2}
MCCandidate == {g, c1}
MCSelfVoteSigners == {g}
Symmetry == Permutations({v1, v2})

=============================================================================
