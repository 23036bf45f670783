---------------------------- MODULE MCBatchLedger ----------------------------
(* BatchLedger with one self vote signer, two more voters, one new candidate. *)
EXTENDS BatchLedger, TLC

CONSTANTS g, v1, v2, c1

MCVoter == {g, v1, v2}
MCCandidate == {g, c1}
MCSelfVoteSigners == {g}
Symmetry == Permutations({v1, v2})

=============================================================================
