------------------------------ MODULE BatchLedger ------------------------------
(***************************************************************************)
(* Two nodes replay the same headers.  One asks for the snapshot of every  *)
(* block, so apply runs once per header; the other asks once per batch     *)
(* (Alien.snapshot walks back to the nearest cached or stored ancestor),   *)
(* so apply runs once over all of its headers.  Both should hold the same  *)
(* ledger afterwards: the signer queue of the next loop is computed from   *)
(* it and verified by the other node.                                      *)
(***************************************************************************)
EXTENDS VoteOps, Sequences

CONSTANTS
    MaxNumber,          \* bound: highest block number
    MaxHeaders,         \* headers in one batch
    MaxVotes            \* bound: votes in one header

ASSUME BoundsAssumption ==
    MaxNumber \in Nat /\ MaxHeaders \in 1..MaxNumber /\ MaxVotes \in Nat

\* newSnapshot takes signers modulo len(config.SelfVoteSigners).
ASSUME SignersAssumption == SelfVoteSigners # {}

VARIABLES
    step,       \* ledger of the node that applies header by header
    batch,      \* ledger of the node that applies the batch at once
    base,       \* ledger both nodes had when the batch began
    pc,         \* "votes", "mpvotes", "compare", or "stopped" (panic or error)
    header,     \* Number of the header being replayed
    voted,      \* votes replayed from this header
    balance,    \* balances the header's votes carry
    oldVoters   \* voters before this header

vars == <<step, batch, base, pc, header, voted, balance, oldVoters>>

-----------------------------------------------------------------------------

\* The orders in which a Go map of expired votes can be walked.
Orders(S) == Bijection(1..Cardinality(S), S)

\* The ledger after the first i removals of the walk.
Removing(L, order) ==
    LET after[i \in 0..Len(order)] ==
            IF i = 0 THEN L ELSE RemoveExpired(after[i - 1], order[i])
    IN  after

\* Walking finds a missing tally: nil dereference.
RemovalPanics(L, order) ==
    \E i \in 1..Len(order) : LostTally(Removing(L, order)[i - 1], order[i])

\* removeExtraCandidate looks at snap.Number, which apply advances only at its
\* end: the batch's base decides for each of its headers.
WithoutExtra(L, extra) == [L EXCEPT !.candidates = L.candidates \ extra]

\* The copy after the last header: it takes the number of that header.
Replayed(L, extra, n) == [WithoutExtra(L, extra) EXCEPT !.number = n]

\* The ledger apply returns when the votes expire in the given order.
Finished(L, order) == DropEmptyTallies(Removing(L, order)[Len(order)])

-----------------------------------------------------------------------------

Init ==
    /\ base \in {GenesisLedger(b) : b \in [SelfVoteSigners -> Balance]}
    /\ step = base /\ batch = base
    /\ pc = "votes"
    /\ header = 1 /\ voted = 0 /\ balance = <<>>
    /\ oldVoters = DOMAIN base.voters

BalanceIs(v, s) == v \in DOMAIN balance => balance[v] = s

\* Both nodes replay a vote of the header (updateSnapshotByVotes).
ReplayVote ==
    /\ pc = "votes"
    /\ voted < MaxVotes
    /\ \E v \in Voter, c \in Candidate, s \in Balance :
          /\ s > MinVoterBalance
          /\ BalanceIs(v, s)
          /\ balance' = Put(balance, v, s)
          /\ IF LostTally(step, v) \/ LostTally(batch, v)
             THEN pc' = "stopped" /\ UNCHANGED <<step, batch>>
             ELSE /\ pc' = pc
                  /\ step' = UpdateByVote(step, v, c, s, header)
                  /\ batch' = UpdateByVote(batch, v, c, s, header)
    /\ voted' = voted + 1
    /\ UNCHANGED <<base, header, oldVoters>>

\* Both nodes replay a balance change (updateSnapshotByMPVotes), each for a
\* voter that has a vote in its own ledger.
ReplayMPVote ==
    /\ pc \in {"votes", "mpvotes"}
    /\ header > 1
    /\ \E v \in oldVoters, s \in Balance :
          /\ BalanceIs(v, s)
          /\ balance' = Put(balance, v, s)
          /\ IF LostTally(step, v) \/ LostTally(batch, v)
             THEN pc' = "stopped" /\ UNCHANGED <<step, batch>>
             ELSE /\ pc' = "mpvotes"
                  /\ step' = IF v \in DOMAIN step.votes
                             THEN UpdateByMPVote(step, v, s) ELSE step
                  /\ batch' = IF v \in DOMAIN batch.votes
                              THEN UpdateByMPVote(batch, v, s) ELSE batch
    /\ UNCHANGED <<base, header, voted, oldVoters>>

\* The header ends.  The stepping node finishes its apply and copies the
\* result at the next one; the other goes on with its working copy.
EndHeader ==
    /\ pc \in {"votes", "mpvotes"}
    /\ header < base.number + MaxHeaders
    /\ \E extraB \in ExtraCandidates(batch) : batch' = WithoutExtra(batch, extraB)
    /\ \E extraS \in ExtraCandidates(step) :
          LET N == Replayed(step, extraS, header) IN
          \E order \in Orders(ExpiredVoters(N)) :
             IF RemovalPanics(N, order) \/ ~TallyVerified(Finished(N, order))
             THEN pc' = "stopped" /\ step' = step
             ELSE pc' = "votes" /\ step' = Copy(Finished(N, order))
    /\ header' = header + 1
    /\ voted' = 0 /\ balance' = <<>>
    /\ oldVoters' = DOMAIN step'.voters
    /\ UNCHANGED base

\* The last header of the batch: both nodes finish.
EndBatch ==
    /\ pc \in {"votes", "mpvotes"}
    /\ header = base.number + MaxHeaders
    /\ \E extraS \in ExtraCandidates(step), extraB \in ExtraCandidates(batch) :
          LET N == Replayed(step, extraS, header)
              M == Replayed(batch, extraB, header)
          IN  \E orderS \in Orders(ExpiredVoters(N)),
                 orderB \in Orders(ExpiredVoters(M)) :
                 LET S == Finished(N, orderS)
                     B == Finished(M, orderB)
                 IN  IF \/ RemovalPanics(N, orderS) \/ ~TallyVerified(S)
                        \/ RemovalPanics(M, orderB) \/ ~TallyVerified(B)
                     THEN pc' = "stopped" /\ UNCHANGED <<step, batch>>
                     ELSE pc' = "compare" /\ step' = S /\ batch' = B
    /\ voted' = 0 /\ balance' = <<>> /\ oldVoters' = {}
    /\ UNCHANGED <<base, header>>

\* The next batch begins, for nodes that hold the same ledger.
NextBatch ==
    /\ pc = "compare"
    /\ Copy(step) = Copy(batch)
    /\ header + MaxHeaders <= MaxNumber
    /\ base' = Copy(step) /\ step' = Copy(step) /\ batch' = Copy(step)
    /\ header' = header + 1
    /\ oldVoters' = DOMAIN step.voters
    /\ pc' = "votes"
    /\ UNCHANGED <<voted, balance>>

Next ==
    \/ ReplayVote
    \/ ReplayMPVote
    \/ EndHeader
    \/ EndBatch
    \/ NextBatch

Spec == Init /\ [][Next]_vars

-----------------------------------------------------------------------------
(* Properties. *)

\* Both ledgers are ledgers (the fields of Snapshot).
TypeOK ==
    /\ IsLedger(step) /\ IsLedger(batch) /\ IsLedger(base)
    /\ pc \in {"votes", "mpvotes", "compare", "stopped"}
    /\ header \in 0..MaxNumber /\ voted \in 0..MaxVotes
    /\ IsMap(balance, Voter, Balance)
    /\ oldVoters \subseteq Voter

\* Some vote is old enough to expire before the batch ends.
ExpiryInBatch == \E v \in DOMAIN base.voters : header - base.voters[v] > Epoch

\* Unless a stake was overwritten through sharing or a vote expired inside
\* the batch, one apply over the batch and one apply per header end with the
\* same votes, tallies and voters (Snapshot.apply, copy); both remain ledgers.
BatchingTransparent ==
    /\ TypeOK
    /\ pc = "compare" /\ ~step.clobbered /\ ~batch.clobbered /\ ~ExpiryInBatch =>
          /\ step.votes = batch.votes
          /\ step.tally = batch.tally
          /\ step.voters = batch.voters

\* "Snapshot is the state of the authorization voting at a given point in
\* time": votes and tallies after the same headers do not depend on how the
\* headers were split into calls of apply, sharing of stakes aside.
SnapshotOfPointInTime ==
    pc = "compare" /\ ~step.clobbered /\ ~batch.clobbered =>
        step.votes = batch.votes /\ step.tally = batch.tally

=============================================================================
