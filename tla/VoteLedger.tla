------------------------------ MODULE VoteLedger ------------------------------
(***************************************************************************)
(* Snapshot.apply (consensus/alien/snapshot.go) as far as it works on the  *)
(* vote ledger of VoteOps.  apply copies the snapshot, replays the votes   *)
(* and the balance changes of each header on the copy, expires old votes   *)
(* once, drops empty tallies, and hands the copy out only if               *)
(* verifyTallyCnt accepts it.  The contents of a header are chosen among   *)
(* those processCustomTx can write.                                        *)
(***************************************************************************)
EXTENDS VoteOps

CONSTANTS
    MaxNumber,          \* bound: highest block number
    MaxHeaders,         \* bound: headers in one call of apply
    MaxVotes            \* bound: votes in one header

ASSUME BoundsAssumption ==
    MaxNumber \in Nat /\ MaxHeaders \in Nat /\ MaxVotes \in Nat

VARIABLES
    snap,       \* the last snapshot apply returned
    work,       \* apply's copy; equal to snap between two calls
    pc,         \* where apply is: "idle", "votes", "mpvotes", "expire", "panic"
    header,     \* Number of the header being replayed
    last,       \* Number of the last header of this call
    voted,      \* votes replayed from this header
    balance,    \* balances the header's votes carry, for the voters seen so far
    oldVoters,  \* voters before this header: processPredecessorVoter's isVoter
    expired,    \* voters whose expired vote is still to be removed
    told,       \* history: the stake the headers replayed so far gave each
                \* voter last, or else the one it had when apply was called
    err         \* the last call returned errIncorrectTallyCount

inputs == <<header, last, voted, balance, oldVoters, expired>>
vars == <<snap, work, pc, inputs, told, err>>

-----------------------------------------------------------------------------
(* apply as a state machine. *)

Init ==
    /\ snap \in {GenesisLedger(b) : b \in [SelfVoteSigners -> Balance]}
    /\ work = snap
    /\ pc = "idle"
    /\ header = 0 /\ last = 0 /\ voted = 0
    /\ balance = <<>> /\ oldVoters = {} /\ expired = {} /\ told = <<>>
    /\ err = FALSE

\* apply is called with the headers snap.number + 1 .. snap.number + count.
BeginApply ==
    /\ pc = "idle"
    /\ \E count \in 1..MaxHeaders :
          /\ snap.number + count <= MaxNumber
          /\ last' = snap.number + count
    /\ work' = Copy(snap)
    /\ header' = snap.number + 1
    /\ voted' = 0 /\ balance' = <<>> /\ oldVoters' = DOMAIN snap.voters
    /\ told' = [v \in DOMAIN snap.votes |-> snap.votes[v].stake]
    /\ pc' = "votes"
    /\ err' = FALSE
    /\ UNCHANGED <<snap, expired>>

\* All stakes of one header are balances of one state (processEventVote and
\* processPredecessorVoter read it after the block's transactions ran).
BalanceIs(v, s) == v \in DOMAIN balance => balance[v] = s

\* A vote of the header is replayed; processEventVote wrote it only if the
\* voter's balance was above MinVoterBalance.
ReplayVote ==
    /\ pc = "votes"
    /\ voted < MaxVotes
    /\ \E v \in Voter, c \in Candidate, s \in Balance :
          /\ s > MinVoterBalance
          /\ BalanceIs(v, s)
          /\ balance' = Put(balance, v, s)
          /\ told' = Put(told, v, s)
          /\ IF LostTally(work, v)
             THEN pc' = "panic" /\ work' = work
             ELSE pc' = pc /\ work' = UpdateByVote(work, v, c, s, header)
    /\ voted' = voted + 1
    /\ UNCHANGED <<snap, header, last, oldVoters, expired, err>>

\* A balance change of a voter is replayed; processPredecessorVoter wrote it
\* for a voter of the parent's snapshot, whatever the balance, but not in block 1.
ReplayMPVote ==
    /\ pc \in {"votes", "mpvotes"}
    /\ header > 1
    /\ \E v \in oldVoters \cap DOMAIN work.votes, s \in Balance :
          /\ BalanceIs(v, s)
          /\ balance' = Put(balance, v, s)
          /\ told' = Put(told, v, s)
          /\ IF LostTally(work, v)
             THEN pc' = "panic" /\ work' = work
             ELSE pc' = "mpvotes" /\ work' = UpdateByMPVote(work, v, s)
    /\ UNCHANGED <<snap, header, last, voted, oldVoters, expired, err>>

\* The end of a header: candidates over the limit go.  After the last header
\* the snapshot takes its number and the expired votes are collected.
EndHeader ==
    /\ pc \in {"votes", "mpvotes"}
    /\ \E extra \in ExtraCandidates(work) :
          LET L == [work EXCEPT !.candidates = work.candidates \ extra] IN
          \/ /\ header < last
             /\ work' = L
             /\ header' = header + 1
             /\ oldVoters' = DOMAIN L.voters
             /\ pc' = "votes"
             /\ UNCHANGED expired
          \/ /\ header = last
             /\ work' = [L EXCEPT !.number = last]
             /\ expired' = ExpiredVoters([L EXCEPT !.number = last])
             /\ pc' = "expire"
             /\ UNCHANGED <<header, oldVoters>>
    /\ voted' = 0 /\ balance' = <<>>
    /\ UNCHANGED <<snap, last, told, err>>

\* One expired vote is removed, in the order of a Go map.
ExpireVote ==
    /\ pc = "expire"
    /\ \E v \in expired :
          IF LostTally(work, v)
          THEN pc' = "panic" /\ UNCHANGED <<work, expired>>
          ELSE /\ pc' = pc
               /\ work' = RemoveExpired(work, v)
               /\ expired' = expired \ {v}
    /\ UNCHANGED <<snap, header, last, voted, balance, oldVoters, told, err>>

\* The end of apply: empty tallies go and verifyTallyCnt decides.
FinishApply ==
    /\ pc = "expire"
    /\ expired = {}
    /\ LET L == DropEmptyTallies(work) IN
       IF TallyVerified(L)
       THEN snap' = L /\ work' = L /\ err' = FALSE
       ELSE snap' = snap /\ work' = snap /\ err' = TRUE
    /\ pc' = "idle"
    /\ header' = 0 /\ last' = 0 /\ voted' = 0
    /\ balance' = <<>> /\ oldVoters' = {} /\ told' = <<>>
    /\ UNCHANGED expired

Next ==
    \/ BeginApply
    \/ ReplayVote
    \/ ReplayMPVote
    \/ EndHeader
    \/ ExpireVote
    \/ FinishApply

Spec == Init /\ [][Next]_vars

-----------------------------------------------------------------------------
(* Properties. *)

\* Every variable has its type (the maps of Snapshot and apply's locals).
TypeOK ==
    /\ IsLedger(snap) /\ IsLedger(work)
    /\ pc \in {"idle", "votes", "mpvotes", "expire", "panic"}
    /\ header \in Nat /\ last \in Nat /\ voted \in Nat
    /\ IsMap(balance, Voter, Balance)
    /\ oldVoters \subseteq Voter /\ expired \subseteq Voter
    /\ IsMap(told, Voter, Int)
    /\ err \in BOOLEAN

\* Votes and Voters name the same addresses, in the copy apply works on as
\* well: updateSnapshotByVotes, updateSnapshotByMPVotes and the expiry of
\* votes keep the two maps in step at every point of apply.
VotesMatchVoters ==
    /\ DOMAIN snap.votes = DOMAIN snap.voters
    /\ DOMAIN work.votes = DOMAIN work.voters

\* As long as no tally update hit a stake it shares its big.Int with, Tally is
\* the exact sum of Votes at every point of apply: a candidate without a tally
\* has only votes of zero stake.  Sharing is the only source of a wrong tally.
ExactUnlessClobbered ==
    ~work.clobbered =>
        \A c \in Candidate :
            StakeFor(work, c) = IF c \in DOMAIN work.tally
                                THEN work.tally[c] ELSE 0

\* The votes of a snapshot that no tally counts, though they have a stake.
Uncounted(L) ==
    {v \in DOMAIN L.votes : L.votes[v].stake # 0 /\ L.votes[v].candidate \notin DOMAIN L.tally}

\* verifyTallyCnt lets no overwritten stake through: in a snapshot that apply
\* returns, every voter has the stake its last vote or balance change carried,
\* or the one it had before the call, whatever sharing did to it on the way.
\* Only if each stake was counted in a tally when apply was called: a fresh
\* tally for votes that have lost theirs starts without their stakes, and
\* taking one of them out of it later is not noticed.
AcceptedStakesTrue ==
    [][snap' # snap /\ Uncounted(snap) = {} =>
          \A v \in DOMAIN snap'.votes : snap'.votes[v].stake = told[v]]_vars

\* verifyTallyCnt rejects only headers whose votes met a shared stake.
ErrorOnlyFromSharing ==
    [][err' /\ ~err => work.clobbered]_vars

\* The votes of a returned snapshot are either all within the Epoch or the
\* old ones are kept because fewer than MaxSignerCount voters would remain
\* (updateSnapshotForExpired): never a partial removal.
NoStaleVotes ==
    LET old == {v \in DOMAIN snap.voters : snap.number - snap.voters[v] > Epoch}
    IN  old # {} => Cardinality(DOMAIN snap.voters \ old) < MaxSignerCount

\* A voter leaves the snapshot only when its vote is older than Epoch, and a
\* snapshot that loses voters still has at least MaxSignerCount of them
\* (updateSnapshotForExpired, over a whole call of apply).
ExpiryIsJustified ==
    [][\A v \in DOMAIN snap.voters \ DOMAIN snap'.voters :
          /\ snap'.number - snap.voters[v] > Epoch
          /\ Cardinality(DOMAIN snap'.voters) >= MaxSignerCount]_snap

\* verifyTallyCnt as the assertion it is: apply never ends with
\* errIncorrectTallyCount on headers that honest processing wrote.
NeverIncorrectTallyCount == ~err

\* updateSnapshotByVotes, updateSnapshotByMPVotes and the expiry always find
\* the tally of a voter's last vote when no stake was overwritten by sharing.
LastVoteTallied == pc = "panic" => work.clobbered

=============================================================================
