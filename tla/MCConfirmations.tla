---------------------------- MODULE MCConfirmations ----------------------------
(* Confirmations with four signers, of which r is in some signer queues and  *)
(* not in others, and now and then no candidate.                             *)
EXTENDS Confirmations, TLC

CONSTANTS c1, c2, c3, r

MCStable == {c1, c2, c3}
MCSigner == MCStable \cup {r}
WithAndWithout == {MCSigner, MCStable}
Symmetry == Permutations(MCStable)

=============================================================================
