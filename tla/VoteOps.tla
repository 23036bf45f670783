-------------------------------- MODULE VoteOps --------------------------------
(***************************************************************************)
(* The vote ledger of an alien Snapshot (consensus/alien/snapshot.go): the *)
(* maps Votes, Tally, Voters and Candidates, and the operations of apply   *)
(* on them, as operators from ledgers to ledgers.                          *)
(*                                                                         *)
(* Stakes are *big.Int in the code, and a first vote for a candidate makes *)
(* Tally[candidate] and Votes[voter].Stake the SAME big.Int (:753, :759).  *)
(* "shared" is the set of voters whose stake is the cell of their          *)
(* candidate's tally; adding to the tally then changes that stake too.     *)
(* copy() allocates every number anew and ends all sharing.                *)
(*                                                                         *)
(* Addresses are members of Voter and Candidate.  candidateNeedPD is       *)
(* false, its value in alien.go.                                           *)
(***************************************************************************)
EXTENDS Integers, FiniteSets, Functions, FiniteSetsExt

CONSTANTS
    Voter,              \* addresses that send vote transactions
    Candidate,          \* addresses that are voted for
    SelfVoteSigners,    \* config.SelfVoteSigners: vote for themselves at genesis
    Balance,            \* balances an account can have
    MinVoterBalance,    \* config.MinVoterBalance
    MaxSignerCount,     \* config.MaxSignerCount
    Epoch,              \* config.Epoch: validity of a vote in blocks
    LCRS,               \* loops between two recalculations of the signers
    CandidateMaxLen     \* candidateMaxLen

ASSUME ConstantsAssumption ==
    /\ SelfVoteSigners \subseteq Voter \cap Candidate
    /\ IsFiniteSet(Voter) /\ IsFiniteSet(Candidate)
    /\ Balance \subseteq Nat
    /\ MinVoterBalance \in Nat
    /\ MaxSignerCount \in Nat \ {0}
    /\ Epoch \in Nat
    /\ LCRS \in Nat \ {0}
    /\ CandidateMaxLen \in Nat

-----------------------------------------------------------------------------
(* Finite maps, as Go uses them. *)

IsMap(m, K, X) == DOMAIN m \subseteq K /\ m \in [DOMAIN m -> X]

\* m[k] = x
Put(m, k, x) == [i \in DOMAIN m \cup {k} |-> IF i = k THEN x ELSE m[i]]

\* delete(m, k) for every k in K
Del(m, K) == Restrict(m, DOMAIN m \ K)

-----------------------------------------------------------------------------
(* The ledger and the operations on it. *)

Vote == [candidate : Candidate, stake : Int]

LedgerFields ==
    {"number", "votes", "tally", "voters", "candidates", "shared", "clobbered"}

\* The fields of Snapshot this module keeps, with the sharing of big.Ints;
\* "clobbered" is history: a tally update has overwritten somebody's stake.
IsLedger(L) ==
    /\ DOMAIN L = LedgerFields
    /\ L.number \in Nat
    /\ IsMap(L.votes, Voter, Vote)
    /\ IsMap(L.tally, Candidate, Int)
    /\ IsMap(L.voters, Voter, Nat)
    /\ L.candidates \subseteq Candidate
    /\ L.shared \subseteq DOMAIN L.votes
    /\ L.clobbered \in BOOLEAN

VotersOf(L, c) == {v \in DOMAIN L.votes : L.votes[v].candidate = c}

\* Sum of the stakes that vote for c.
StakeFor(L, c) == MapThenSumSet(LAMBDA v : L.votes[v].stake, VotersOf(L, c))

\* newSnapshot: every self vote signer votes for itself with its balance.
GenesisLedger(stakeOf) ==
    [ number     |-> 0,
      votes      |-> [v \in SelfVoteSigners |->
                         [candidate |-> v, stake |-> stakeOf[v]]],
      tally      |-> [v \in SelfVoteSigners |-> stakeOf[v]],
      voters     |-> [v \in SelfVoteSigners |-> 0],
      candidates |-> SelfVoteSigners,
      shared     |-> {},
      clobbered  |-> FALSE ]

\* copy: no number of the copy is shared with anything.
Copy(L) == [L EXCEPT !.shared = {}]

\* The voters whose stake is the cell of c's tally.
SharersOf(L, c) == {v \in L.shared : L.votes[v].candidate = c}

\* Tally[c].Add(Tally[c], d) in place, on behalf of voter v; the new value is
\* seen through every shared stake.
AddTally(L, v, c, d) ==
    LET t == L.tally[c] + d IN
    [L EXCEPT
        !.tally = [L.tally EXCEPT ![c] = t],
        !.votes = [w \in DOMAIN L.votes |->
                      IF w \in SharersOf(L, c)
                      THEN [candidate |-> c, stake |-> t]
                      ELSE L.votes[w]],
        !.clobbered = L.clobbered \/ SharersOf(L, c) \ {v} # {}]

\* Tally[last vote's candidate] does not exist: Sub panics on a nil *big.Int.
LostTally(L, v) ==
    /\ v \in DOMAIN L.votes
    /\ L.votes[v].candidate \notin DOMAIN L.tally

\* Take the last vote of v, if there is one, out of the tally.
TakeBack(L, v) ==
    IF v \in DOMAIN L.votes
    THEN AddTally(L, v, L.votes[v].candidate, -L.votes[v].stake)
    ELSE L

\* Mutant: the vote is stored under the candidate's address.
UpdateByVoteWrongKey(L, v, c, stake, number) ==
    LET T == TakeBack(L, v)
        A == IF c \notin DOMAIN T.tally
             THEN [T EXCEPT !.tally = Put(T.tally, c, stake)]
             ELSE AddTally(T, v, c, stake)
    IN  [A EXCEPT
            !.votes  = Put(A.votes, c, [candidate |-> c, stake |-> stake]),
            !.voters = Put(A.voters, v, number)]

\* Mutant: the voter's last vote stays in the tally.
UpdateByVoteKeepsLast(L, v, c, stake, number) ==
    LET A == IF c \notin DOMAIN L.tally
             THEN [L EXCEPT !.tally = Put(L.tally, c, stake)]
             ELSE AddTally(L, v, c, stake)
    IN  [A EXCEPT
            !.votes  = Put(A.votes, v, [candidate |-> c, stake |-> stake]),
            !.voters = Put(A.voters, v, number)]

\* One iteration of updateSnapshotByVotes.
UpdateByVote(L, v, c, stake, number) ==
    LET T == TakeBack(L, v)
        fresh == c \notin DOMAIN T.tally
        A == IF fresh THEN [T EXCEPT !.tally = Put(T.tally, c, stake),
                                     !.candidates = T.candidates \cup {c}]
                      ELSE AddTally(T, v, c, stake)
    IN  [A EXCEPT
            !.votes  = Put(A.votes, v, [candidate |-> c, stake |-> stake]),
            !.voters = Put(A.voters, v, number),
            !.shared = IF fresh THEN A.shared \cup {v} ELSE A.shared \ {v}]

\* Mutant: the new balance is added without taking the old one back.
UpdateByMPVoteAdds(L, v, stake) ==
    LET c == L.votes[v].candidate
        A == AddTally(L, v, c, stake)
    IN  [A EXCEPT
            !.votes  = Put(A.votes, v, [candidate |-> c, stake |-> stake]),
            !.shared = A.shared \ {v}]

\* One iteration of updateSnapshotByMPVotes, for a voter that has a vote.
UpdateByMPVote(L, v, stake) ==
    LET c == L.votes[v].candidate
        A == AddTally(TakeBack(L, v), v, c, stake)
    IN  [A EXCEPT
            !.votes  = Put(A.votes, v, [candidate |-> c, stake |-> stake]),
            !.shared = A.shared \ {v}]

\* Mutant: votes expire one block early.
ExpiredVotersEarly(L) ==
    LET old == {v \in DOMAIN L.voters : L.number - L.voters[v] >= Epoch}
    IN  IF Cardinality(DOMAIN L.voters) - Cardinality(old) >= MaxSignerCount
        THEN old ELSE {}

\* Mutant: votes expire a loop early.
ExpiredVotersLoopEarly(L) ==
    LET old == {v \in DOMAIN L.voters :
                   L.number + MaxSignerCount - L.voters[v] > Epoch}
    IN  IF Cardinality(DOMAIN L.voters) - Cardinality(old) >= MaxSignerCount
        THEN old ELSE {}

\* Mutant: nothing is removed when exactly MaxSignerCount voters would remain.
ExpiredVotersStrict(L) ==
    LET old == {v \in DOMAIN L.voters : L.number - L.voters[v] > Epoch}
    IN  IF Cardinality(DOMAIN L.voters) - Cardinality(old) > MaxSignerCount
        THEN old ELSE {}

\* The votes updateSnapshotForExpired removes: none if too few voters are left.
ExpiredVoters(L) ==
    LET old == {v \in DOMAIN L.voters :
                   v \in DOMAIN L.votes /\ L.number - L.voters[v] > Epoch}
    IN  IF Cardinality(DOMAIN L.voters) - Cardinality(old) >= MaxSignerCount
        THEN old ELSE {}

\* Mutant: the voter stays in Voters.
RemoveExpiredKeepsVoter(L, v) ==
    LET c == L.votes[v].candidate
        T == TakeBack(L, v)
    IN  [T EXCEPT
            !.tally  = IF T.tally[c] = 0 THEN Del(T.tally, {c}) ELSE T.tally,
            !.votes  = Del(T.votes, {v}),
            !.shared = T.shared \ {v}]

\* One iteration of the removal loop of updateSnapshotForExpired.
RemoveExpired(L, v) ==
    LET c == L.votes[v].candidate
        T == TakeBack(L, v)
    IN  [T EXCEPT
            !.tally  = IF T.tally[c] = 0 THEN Del(T.tally, {c}) ELSE T.tally,
            !.votes  = Del(T.votes, {v}),
            !.voters = Del(T.voters, {v}),
            !.shared = IF T.tally[c] = 0
                       THEN T.shared \ SharersOf(T, c) ELSE T.shared \ {v}]

\* updateSnapshotForExpired, "remove 0 stake tally".
DropEmptyTallies(L) ==
    LET empty == {c \in DOMAIN L.tally : L.tally[c] <= 0} IN
    [L EXCEPT !.tally  = Del(L.tally, empty),
              !.shared = {v \in L.shared : L.votes[v].candidate \notin empty}]

\* Mutant: only the presence of votes is verified, not their sum.
TallyVerifiedNoSum(L) == \A c \in DOMAIN L.tally : VotersOf(L, c) # {}

\* verifyTallyCnt: each tally is the sum of the votes for it.
TallyVerified(L) ==
    \A c \in DOMAIN L.tally :
        VotersOf(L, c) # {} /\ L.tally[c] = StakeFor(L, c)

\* The candidates removeExtraCandidate may drop: all but CandidateMaxLen of
\* the tallied addresses.  Which ones depends on stake and credit.
ExtraCandidates(L) ==
    IF /\ (L.number + 1) % (MaxSignerCount * LCRS) = 0
       /\ Cardinality(L.candidates) > CandidateMaxLen
       /\ Cardinality(DOMAIN L.tally) > CandidateMaxLen
    THEN {x \in SUBSET DOMAIN L.tally :
             Cardinality(x) = Cardinality(DOMAIN L.tally) - CandidateMaxLen}
    ELSE {{}}

=============================================================================
