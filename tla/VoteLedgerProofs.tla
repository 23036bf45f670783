--------------------------- MODULE VoteLedgerProofs ---------------------------
(***************************************************************************)
(* Proofs about VoteLedger: its type invariant, that Votes and Voters name *)
(* the same addresses, that only shared stakes make a tally wrong or apply *)
(* fail, that verifyTallyCnt lets no overwritten stake through, and what   *)
(* the expiry of votes guarantees over a whole call of apply.              *)
(***************************************************************************)
EXTENDS VoteLedger, VoteOpsProofs

-----------------------------------------------------------------------------
(* The inductive invariant. *)

\* While headers are replayed, the copy still has the number of snap.
Replaying ==
    pc \in {"votes", "mpvotes"} =>
        /\ snap.number < header /\ header <= last
        /\ work.number = snap.number
        /\ expired = {}
        /\ \A v \in DOMAIN work.voters : work.voters[v] <= header

\* While votes expire: either the ones still to be removed are all the old
\* ones, or none is removed because too few voters would remain.
Expiring ==
    pc = "expire" =>
        /\ work.number = last /\ snap.number < last
        /\ \A v \in DOMAIN work.voters : work.voters[v] <= last
        /\ \/ /\ expired = Old(work)
              /\ Cardinality(DOMAIN work.voters \ Old(work)) >= MaxSignerCount
           \/ /\ expired = {}
              /\ DOMAIN snap.voters \subseteq DOMAIN work.voters
              /\ Cardinality(DOMAIN work.voters \ Old(work)) < MaxSignerCount

\* A voter of snap is in the copy with a vote at least as new, or it expired.
VotersCarried ==
    pc \in {"votes", "mpvotes", "expire"} =>
        \A v \in DOMAIN snap.voters :
            \/ v \in DOMAIN work.voters /\ snap.voters[v] <= work.voters[v]
            \/ pc = "expire" /\ last - snap.voters[v] > Epoch

Idle ==
    pc = "idle" => work = snap /\ expired = {}

SnapVotersPast ==
    \A v \in DOMAIN snap.voters : snap.voters[v] <= snap.number

IInv ==
    /\ TypeOK
    /\ VotesMatchVoters
    /\ NoStaleVotes
    /\ SnapVotersPast
    /\ Idle
    /\ Replaying
    /\ Expiring
    /\ VotersCarried

-----------------------------------------------------------------------------
(* The invariant is inductive. *)

\* The genesis snapshot satisfies the invariant.
LEMMA InitInv == Init => IInv
<1> SUFFICES ASSUME Init PROVE IInv
  OBVIOUS
<1>1. PICK b \in [SelfVoteSigners -> Balance] : snap = GenesisLedger(b)
  BY DEF Init
<1>2. IsLedger(snap) /\ snap.number = 0
  BY <1>1, GenesisIsLedger
<1>3. /\ DOMAIN snap.votes = DOMAIN snap.voters
      /\ \A v \in DOMAIN snap.voters : snap.voters[v] = 0
  BY <1>1, GenesisIsLedger
<1>4. TypeOK
  BY <1>2, EmptyMap DEF Init, TypeOK
<1>5. {v \in DOMAIN snap.voters : snap.number - snap.voters[v] > Epoch} = {}
  BY <1>2, <1>3, ConstantsAssumption
<1> QED
  BY <1>2, <1>3, <1>4, <1>5
     DEF Init, IInv, VotesMatchVoters, NoStaleVotes, SnapVotersPast, Idle, Replaying, Expiring, VotersCarried

\* Copying the snapshot at the start of apply preserves the invariant.
LEMMA BeginApplyInv == IInv /\ BeginApply => IInv'
<1> SUFFICES ASSUME IInv, BeginApply PROVE IInv'
  OBVIOUS
<1> USE ConstantsAssumption
<1>1. PICK count \in 1..MaxHeaders : last' = snap.number + count
  BY DEF BeginApply
<1>2. /\ IsLedger(work') /\ work'.number = snap.number
      /\ work'.votes = snap.votes /\ work'.voters = snap.voters
  BY DEF BeginApply, Copy, IInv, TypeOK, IsLedger, LedgerFields
<1>3. snap.number \in Nat /\ last' \in Nat /\ header' = snap.number + 1
  BY <1>1 DEF BeginApply, IInv, TypeOK, IsLedger
<1>4. TypeOK'
  <2>1. oldVoters' \subseteq Voter
    BY DEF BeginApply, IInv, TypeOK, IsLedger, IsMap
  <2>2. /\ IsLedger(snap') /\ pc' = "votes" /\ voted' = 0
        /\ balance' = <<>> /\ expired' = expired /\ err' = FALSE
    BY DEF BeginApply, IInv, TypeOK
  <2>3. IsMap(balance', Voter, Balance) /\ expired \subseteq Voter
    BY <2>2, EmptyMap DEF IInv, TypeOK
  <2>4. err' \in BOOLEAN
    BY <2>2, Zenon
  <2>5. IsMap(told', Voter, Int)
    <3>1. /\ DOMAIN snap.votes \subseteq Voter
          /\ \A v \in DOMAIN snap.votes : snap.votes[v].stake \in Int
      BY DEF IInv, TypeOK, IsLedger, IsMap, Vote
    <3>2. told' = [v \in DOMAIN snap.votes |-> snap.votes[v].stake]
      BY DEF BeginApply
    <3> QED
      BY <3>1, <3>2 DEF IsMap
  <2> QED
    BY <1>2, <1>3, <2>1, <2>2, <2>3, <2>4, <2>5 DEF TypeOK
<1>5. \A v \in DOMAIN snap.voters :
         snap.voters[v] \in Nat /\ snap.voters[v] <= snap.number
  BY DEF IInv, TypeOK, IsLedger, IsMap, SnapVotersPast
<1>6. Replaying' /\ VotersCarried'
  BY <1>1, <1>2, <1>3, <1>5
     DEF BeginApply, Replaying, VotersCarried, IInv, Idle
<1> QED
  BY <1>2, <1>4, <1>6
     DEF BeginApply, IInv, VotesMatchVoters, NoStaleVotes, SnapVotersPast, Idle, Expiring

\* A replay step that leaves the number and keeps votes at least as new as
\* they were preserves the invariant.
LEMMA ReplayInv ==
    ASSUME IInv, pc \in {"votes", "mpvotes"},
           UNCHANGED <<snap, header, last, oldVoters, expired, err>>,
           pc' \in {"votes", "mpvotes", "panic"},
           IsLedger(work'), voted' \in Nat, IsMap(balance', Voter, Balance),
           IsMap(told', Voter, Int),
           work'.number = work.number,
           DOMAIN work'.votes = DOMAIN work'.voters,
           DOMAIN work.voters \subseteq DOMAIN work'.voters,
           \A v \in DOMAIN work'.voters :
              \/ work'.voters[v] = header
              \/ v \in DOMAIN work.voters /\ work'.voters[v] = work.voters[v]
    PROVE  IInv'
<1>1. TypeOK'
  BY DEF IInv, TypeOK
<1>2. VotesMatchVoters' /\ NoStaleVotes' /\ SnapVotersPast'
  BY DEF IInv, VotesMatchVoters, NoStaleVotes, SnapVotersPast
<1>3. header \in Nat /\ \A v \in DOMAIN work.voters : work.voters[v] <= header
  BY DEF IInv, TypeOK, Replaying
<1>4. Replaying'
  BY <1>3 DEF IInv, Replaying
<1>5. VotersCarried'
  <2> SUFFICES ASSUME pc' \in {"votes", "mpvotes"}, NEW v \in DOMAIN snap.voters
               PROVE  v \in DOMAIN work'.voters
                      /\ snap.voters[v] <= work'.voters[v]
    BY DEF VotersCarried
  <2>1. v \in DOMAIN work.voters /\ snap.voters[v] <= work.voters[v]
    BY DEF IInv, VotersCarried
  <2>2. work.voters[v] <= header
    BY <1>3, <2>1
  <2>3. snap.voters[v] \in Nat /\ work.voters[v] \in Nat
    BY <2>1 DEF IInv, TypeOK, IsLedger, IsMap
  <2> QED
    BY <1>3, <2>1, <2>2, <2>3
<1> QED
  BY <1>1, <1>2, <1>4, <1>5 DEF IInv, Idle, Expiring

\* A vote of a header preserves the invariant, or ends in a nil tally.
LEMMA ReplayVoteInv == IInv /\ ReplayVote => IInv'
<1> SUFFICES ASSUME IInv, ReplayVote PROVE IInv'
  OBVIOUS
<1>1. PICK v \in Voter, c \in Candidate, s \in Balance :
         /\ balance' = Put(balance, v, s)
         /\ told' = Put(told, v, s)
         /\ IF LostTally(work, v)
            THEN pc' = "panic" /\ work' = work
            ELSE pc' = pc /\ work' = UpdateByVote(work, v, c, s, header)
  BY DEF ReplayVote
<1>2. /\ pc = "votes" /\ voted' = voted + 1
      /\ UNCHANGED <<snap, header, last, oldVoters, expired, err>>
  BY DEF ReplayVote
<1>3. s \in Nat /\ header \in Nat /\ IsLedger(work) /\ voted' \in Nat
      /\ IsMap(balance, Voter, Balance) /\ IsMap(told, Voter, Int)
  BY <1>2, ConstantsAssumption DEF IInv, TypeOK
<1>4. IsMap(balance', Voter, Balance) /\ IsMap(told', Voter, Int)
  <2>1. IsMap(balance', Voter, Balance)
    BY <1>1, <1>3, PutMap
  <2>2. IsMap(told', Voter, Int)
    <3>1. s \in Int
      BY <1>3
    <3> QED
      BY <1>1, <1>3, <3>1, PutMap
  <2> QED
    BY <2>1, <2>2
<1>5. DOMAIN work.votes = DOMAIN work.voters
  BY DEF IInv, VotesMatchVoters
<1>6. CASE LostTally(work, v)
  BY <1>1, <1>2, <1>3, <1>4, <1>5, <1>6, ReplayInv
<1>7. CASE ~LostTally(work, v)
  <2>1. /\ IsLedger(work') /\ work'.number = work.number
        /\ DOMAIN work'.votes = DOMAIN work.votes \cup {v}
        /\ work'.voters = Put(work.voters, v, header)
    BY <1>1, <1>3, <1>7, UpdateByVoteLedger
  <2>2. /\ DOMAIN work'.voters = DOMAIN work.voters \cup {v}
        /\ \A w \in DOMAIN work'.voters :
              \/ work'.voters[w] = header
              \/ w \in DOMAIN work.voters /\ work'.voters[w] = work.voters[w]
    BY <2>1 DEF Put
  <2> QED
    BY <1>1, <1>2, <1>3, <1>4, <1>5, <1>7, <2>1, <2>2, ReplayInv
<1> QED
  BY <1>6, <1>7

\* A balance change of a header preserves the invariant, or ends in a nil tally.
LEMMA ReplayMPVoteInv == IInv /\ ReplayMPVote => IInv'
<1> SUFFICES ASSUME IInv, ReplayMPVote PROVE IInv'
  OBVIOUS
<1>1. PICK v \in oldVoters \cap DOMAIN work.votes, s \in Balance :
         /\ balance' = Put(balance, v, s)
         /\ told' = Put(told, v, s)
         /\ IF LostTally(work, v)
            THEN pc' = "panic" /\ work' = work
            ELSE pc' = "mpvotes" /\ work' = UpdateByMPVote(work, v, s)
  BY DEF ReplayMPVote
<1>2. /\ pc \in {"votes", "mpvotes"} /\ voted' = voted
      /\ UNCHANGED <<snap, header, last, oldVoters, expired, err>>
  BY DEF ReplayMPVote
<1>3. s \in Nat /\ v \in Voter /\ IsLedger(work) /\ voted' \in Nat
      /\ IsMap(balance, Voter, Balance) /\ IsMap(told, Voter, Int)
  BY <1>2, ConstantsAssumption DEF IInv, TypeOK
<1>4. IsMap(balance', Voter, Balance) /\ IsMap(told', Voter, Int)
  <2>1. IsMap(balance', Voter, Balance)
    BY <1>1, <1>3, PutMap
  <2>2. IsMap(told', Voter, Int)
    <3>1. s \in Int
      BY <1>3
    <3> QED
      BY <1>1, <1>3, <3>1, PutMap
  <2> QED
    BY <2>1, <2>2
<1>5. DOMAIN work.votes = DOMAIN work.voters
  BY DEF IInv, VotesMatchVoters
<1>6. CASE LostTally(work, v)
  BY <1>1, <1>2, <1>3, <1>4, <1>5, <1>6, ReplayInv
<1>7. CASE ~LostTally(work, v)
  <2>1. /\ IsLedger(work') /\ work'.number = work.number
        /\ DOMAIN work'.votes = DOMAIN work.votes
        /\ work'.voters = work.voters
    BY <1>1, <1>3, <1>7, UpdateByMPVoteLedger
  <2> QED
    BY <1>1, <1>2, <1>3, <1>4, <1>5, <1>7, <2>1, ReplayInv
<1> QED
  BY <1>6, <1>7

\* The end of a header, which may start the expiry, preserves the invariant.
LEMMA EndHeaderInv == IInv /\ EndHeader => IInv'
<1> SUFFICES ASSUME IInv, EndHeader PROVE IInv'
  OBVIOUS
<1> USE ConstantsAssumption
<1>1. PICK extra \in ExtraCandidates(work) :
         LET L == [work EXCEPT !.candidates = work.candidates \ extra] IN
          \/ /\ header < last
             /\ work' = L
             /\ header' = header + 1
             /\ oldVoters' = DOMAIN L.voters
             /\ pc' = "votes"
             /\ UNCHANGED expired
          \/ /\ header = last
             /\ work' = [L EXCEPT !.number = last]
             /\ expired' = ExpiredVoters([L EXCEPT !.number = last])
             /\ pc' = "expire"
             /\ UNCHANGED <<header, oldVoters>>
  BY DEF EndHeader
<1> DEFINE L == [work EXCEPT !.candidates = work.candidates \ extra]
           N == [L EXCEPT !.number = last]
<1>2. /\ pc \in {"votes", "mpvotes"} /\ voted' = 0 /\ balance' = <<>>
      /\ UNCHANGED <<snap, last, told, err>>
  BY DEF EndHeader
<1>3. /\ IsLedger(snap) /\ IsLedger(work) /\ header \in Nat /\ last \in Nat
      /\ IsMap(balance', Voter, Balance) /\ err' \in BOOLEAN
      /\ IsMap(told, Voter, Int)
      /\ oldVoters \subseteq Voter /\ expired \subseteq Voter
  BY <1>2, EmptyMap DEF IInv, TypeOK
<1>4. /\ IsLedger(L) /\ L.number = work.number
      /\ L.votes = work.votes /\ L.voters = work.voters
  BY <1>3 DEF IsLedger, LedgerFields
<1>5. /\ IsLedger(N) /\ N.number = last
      /\ N.votes = work.votes /\ N.voters = work.voters
  BY <1>3, <1>4 DEF IsLedger, LedgerFields
<1>6. /\ DOMAIN work.votes = DOMAIN work.voters
      /\ DOMAIN work.voters \subseteq Voter
  BY <1>3 DEF IInv, VotesMatchVoters, IsLedger, IsMap
<1>7. /\ snap.number < header /\ header <= last /\ work.number = snap.number
      /\ expired = {}
      /\ \A v \in DOMAIN work.voters :
            work.voters[v] \in Nat /\ work.voters[v] <= header
  BY <1>2, <1>3 DEF IInv, Replaying, IsLedger, IsMap
<1>8. \A v \in DOMAIN snap.voters :
         v \in DOMAIN work.voters /\ snap.voters[v] <= work.voters[v]
  BY <1>2 DEF IInv, VotersCarried
<1>9. NoStaleVotes' /\ SnapVotersPast'
  BY <1>2 DEF IInv, NoStaleVotes, SnapVotersPast
<1> HIDE DEF L, N
<1>10. CASE /\ header < last /\ work' = L /\ header' = header + 1
            /\ oldVoters' = DOMAIN L.voters /\ pc' = "votes"
            /\ UNCHANGED expired
  <2>1. TypeOK'
    BY <1>2, <1>3, <1>4, <1>6, <1>10 DEF TypeOK
  <2>2. VotesMatchVoters'
    BY <1>2, <1>4, <1>6, <1>10 DEF IInv, VotesMatchVoters
  <2>3. snap.number \in Nat
    BY <1>3 DEF IsLedger
  <2>4. Replaying'
    BY <1>2, <1>3, <1>4, <1>7, <1>10, <2>3 DEF Replaying
  <2>5. VotersCarried'
    BY <1>2, <1>4, <1>8, <1>10 DEF VotersCarried
  <2> QED
    BY <1>9, <1>10, <2>1, <2>2, <2>4, <2>5 DEF IInv, Idle, Expiring
<1>11. CASE /\ header = last /\ work' = N /\ expired' = ExpiredVoters(N)
            /\ pc' = "expire" /\ UNCHANGED <<header, oldVoters>>
  <2>1. \/ /\ ExpiredVoters(N) = Old(N)
           /\ Cardinality(DOMAIN N.voters \ Old(N)) >= MaxSignerCount
        \/ /\ ExpiredVoters(N) = {}
           /\ Cardinality(DOMAIN N.voters \ Old(N)) < MaxSignerCount
    BY <1>5, <1>6, ExpiredAllOrNone
  <2>2. ExpiredVoters(N) \subseteq Voter
    BY <1>5, <1>6, <2>1 DEF Old
  <2>3. TypeOK'
    BY <1>2, <1>3, <1>5, <1>11, <2>2 DEF TypeOK
  <2>4. VotesMatchVoters'
    BY <1>2, <1>5, <1>6, <1>11 DEF IInv, VotesMatchVoters
  <2>5. DOMAIN snap.voters \subseteq DOMAIN N.voters
    BY <1>5, <1>8
  <2>6. Expiring'
    BY <1>2, <1>5, <1>7, <1>11, <2>1, <2>5 DEF Expiring, Old
  <2>7. VotersCarried'
    BY <1>2, <1>5, <1>8, <1>11 DEF VotersCarried
  <2> QED
    BY <1>9, <1>11, <2>3, <2>4, <2>6, <2>7 DEF IInv, Idle, Replaying
<1> QED
  BY <1>1, <1>10, <1>11 DEF L, N

\* The removal of one expired vote preserves the invariant.
LEMMA ExpireVoteInv == IInv /\ ExpireVote => IInv'
<1> SUFFICES ASSUME IInv, ExpireVote PROVE IInv'
  OBVIOUS
<1> USE ConstantsAssumption
<1>1. PICK v \in expired :
         IF LostTally(work, v)
         THEN pc' = "panic" /\ UNCHANGED <<work, expired>>
         ELSE /\ pc' = pc
              /\ work' = RemoveExpired(work, v)
              /\ expired' = expired \ {v}
  BY DEF ExpireVote
<1>2. /\ pc = "expire"
      /\ UNCHANGED <<snap, header, last, voted, balance, oldVoters, told, err>>
  BY DEF ExpireVote
<1>3. NoStaleVotes' /\ SnapVotersPast'
  BY <1>2 DEF IInv, NoStaleVotes, SnapVotersPast
<1>4. /\ IsLedger(snap) /\ IsLedger(work) /\ last \in Nat
      /\ expired \subseteq Voter
      /\ DOMAIN work.votes = DOMAIN work.voters
  BY DEF IInv, TypeOK, VotesMatchVoters
<1>5. CASE LostTally(work, v)
  <2>1. TypeOK'
    BY <1>1, <1>2, <1>5 DEF IInv, TypeOK
  <2>2. VotesMatchVoters'
    BY <1>1, <1>2, <1>5 DEF IInv, VotesMatchVoters
  <2> QED
    BY <1>1, <1>3, <1>5, <2>1, <2>2
       DEF IInv, Idle, Replaying, Expiring, VotersCarried
<1>6. CASE ~LostTally(work, v)
  <2>1. /\ expired = Old(work)
        /\ Cardinality(DOMAIN work.voters \ Old(work)) >= MaxSignerCount
        /\ work.number = last /\ snap.number < last
        /\ \A w \in DOMAIN work.voters : work.voters[w] <= last
    BY <1>1, <1>2 DEF IInv, Expiring
  <2>2. v \in DOMAIN work.voters /\ last - work.voters[v] > Epoch
    BY <1>1, <2>1 DEF Old
  <2>3. /\ IsLedger(work') /\ work'.number = last
        /\ DOMAIN work'.votes = DOMAIN work.votes \ {v}
        /\ work'.voters = Del(work.voters, {v})
    <3>1. v \in DOMAIN work.votes
      BY <1>4, <2>2
    <3>2. work' = RemoveExpired(work, v)
      BY <1>1, <1>6
    <3>3. /\ IsLedger(RemoveExpired(work, v))
          /\ RemoveExpired(work, v).number = work.number
          /\ DOMAIN RemoveExpired(work, v).votes = DOMAIN work.votes \ {v}
          /\ RemoveExpired(work, v).voters = Del(work.voters, {v})
      BY <1>4, <1>6, <3>1, RemoveExpiredLedger
    <3> QED
      BY <2>1, <3>2, <3>3
  <2>4. /\ DOMAIN work'.voters = DOMAIN work.voters \ {v}
        /\ \A w \in DOMAIN work.voters \ {v} : work'.voters[w] = work.voters[w]
    BY <2>3 DEF Del, Restrict
  <2>5. TypeOK'
    BY <1>1, <1>2, <1>6, <2>3 DEF IInv, TypeOK
  <2>6. VotesMatchVoters'
    BY <1>2, <1>4, <2>3, <2>4 DEF IInv, VotesMatchVoters
  <2>7. /\ expired' = Old(work')
        /\ DOMAIN work'.voters \ Old(work') = DOMAIN work.voters \ Old(work)
    BY <1>1, <1>6, <2>1, <2>2, <2>3, <2>4 DEF Old
  <2>8. Expiring'
    BY <1>1, <1>2, <1>6, <2>1, <2>3, <2>4, <2>7 DEF Expiring
  <2>9. VotersCarried'
    <3> SUFFICES ASSUME NEW w \in DOMAIN snap.voters
                 PROVE  \/ /\ w \in DOMAIN work'.voters
                           /\ snap.voters[w] <= work'.voters[w]
                        \/ last - snap.voters[w] > Epoch
      BY <1>1, <1>2, <1>6 DEF VotersCarried
    <3>1. \/ w \in DOMAIN work.voters /\ snap.voters[w] <= work.voters[w]
          \/ last - snap.voters[w] > Epoch
      BY <1>2 DEF IInv, VotersCarried
    <3>2. /\ snap.voters[w] \in Nat
          /\ w \in DOMAIN work.voters => work.voters[w] \in Nat
      BY <1>4 DEF IsLedger, IsMap
    <3>3. CASE w = v
      BY <1>4, <2>2, <3>1, <3>2, <3>3
    <3>4. CASE w # v
      BY <2>4, <3>1, <3>4
    <3> QED
      BY <3>3, <3>4
  <2>10. pc' = "expire"
    BY <1>1, <1>2, <1>6
  <2>11. Idle' /\ Replaying'
    BY <2>10 DEF Idle, Replaying
  <2> QED
    BY <1>3, <2>5, <2>6, <2>8, <2>9, <2>11 DEF IInv
<1> QED
  BY <1>5, <1>6

\* What FinishApply makes of snap, for the invariant and for ExpiryIsJustified.
LEMMA FinishedSnap ==
    ASSUME IInv, FinishApply
    PROVE  \/ snap' = snap /\ work' = snap
           \/ /\ IsLedger(snap') /\ work' = snap'
              /\ snap'.number = last
              /\ snap'.votes = work.votes /\ snap'.voters = work.voters
              /\ TallyVerified(snap')
              /\ \A c \in DOMAIN snap'.tally : snap'.tally[c] > 0
<1> DEFINE L == DropEmptyTallies(work)
<1>1. CASE TallyVerified(L)
  <2>1. snap' = L /\ work' = L
    BY <1>1 DEF FinishApply
  <2>2. IsLedger(work) /\ work.number = last
    BY DEF FinishApply, IInv, TypeOK, Expiring
  <2>3. /\ IsLedger(L) /\ L.number = work.number
        /\ L.votes = work.votes /\ L.voters = work.voters
        /\ \A c \in DOMAIN L.tally : L.tally[c] > 0
    BY <2>2, DropEmptyLedger
  <2> HIDE DEF L
  <2> QED
    BY <1>1, <2>1, <2>2, <2>3
<1>2. CASE ~TallyVerified(L)
  BY <1>2 DEF FinishApply
<1> QED
  BY <1>1, <1>2

\* The end of apply, accepted or not by verifyTallyCnt, preserves the invariant.
LEMMA FinishApplyInv == IInv /\ FinishApply => IInv'
<1> SUFFICES ASSUME IInv, FinishApply PROVE IInv'
  OBVIOUS
<1> USE ConstantsAssumption
<1>1. /\ pc = "expire" /\ expired = {} /\ pc' = "idle" /\ expired' = {}
      /\ header' = 0 /\ last' = 0 /\ voted' = 0
      /\ balance' = <<>> /\ oldVoters' = {} /\ told' = <<>>
  BY DEF FinishApply
<1>2. err' \in BOOLEAN
  <2>1. CASE TallyVerified(DropEmptyTallies(work))
    BY <2>1, Zenon DEF FinishApply
  <2>2. CASE ~TallyVerified(DropEmptyTallies(work))
    BY <2>2, Zenon DEF FinishApply
  <2> QED
    BY <2>1, <2>2
<1>3. IsMap(balance', Voter, Balance) /\ IsMap(told', Voter, Int)
  BY <1>1, EmptyMap
<1>4. /\ IsLedger(snap) /\ IsLedger(work)
      /\ DOMAIN snap.votes = DOMAIN snap.voters
      /\ DOMAIN work.votes = DOMAIN work.voters
  BY DEF IInv, TypeOK, VotesMatchVoters
<1>5. Idle' /\ Replaying' /\ Expiring' /\ VotersCarried'
      <=> work' = snap'
  BY <1>1 DEF Idle, Replaying, Expiring, VotersCarried
<1>6. CASE snap' = snap /\ work' = snap
  <2>1. TypeOK' /\ VotesMatchVoters'
    BY <1>1, <1>2, <1>3, <1>4, <1>6 DEF TypeOK, VotesMatchVoters
  <2>2. NoStaleVotes' /\ SnapVotersPast'
    BY <1>6 DEF IInv, NoStaleVotes, SnapVotersPast
  <2> QED
    BY <1>5, <1>6, <2>1, <2>2 DEF IInv
<1>7. CASE /\ IsLedger(snap') /\ work' = snap'
           /\ snap'.number = last
           /\ snap'.votes = work.votes /\ snap'.voters = work.voters
           /\ TallyVerified(snap')
           /\ \A c \in DOMAIN snap'.tally : snap'.tally[c] > 0
  <2>1. TypeOK' /\ VotesMatchVoters'
    BY <1>1, <1>2, <1>3, <1>4, <1>7 DEF TypeOK, VotesMatchVoters
  <2>3. SnapVotersPast'
    BY <1>1, <1>7 DEF IInv, Expiring, SnapVotersPast
  <2>4. NoStaleVotes'
    <3>1. \/ Old(work) = {}
          \/ Cardinality(DOMAIN work.voters \ Old(work)) < MaxSignerCount
      BY <1>1 DEF IInv, Expiring
    <3>2. work.number = last
      BY <1>1 DEF IInv, Expiring
    <3>3. Old(work) = {v \in DOMAIN snap'.voters :
                          snap'.number - snap'.voters[v] > Epoch}
      BY <1>7, <3>2 DEF Old
    <3> QED
      BY <1>7, <3>1, <3>3 DEF NoStaleVotes
  <2> QED
    BY <1>5, <1>7, <2>1, <2>3, <2>4 DEF IInv
<1> QED
  BY <1>6, <1>7, FinishedSnap

\* Every step of apply preserves the invariant.
LEMMA NextInv == IInv /\ [Next]_vars => IInv'
<1> SUFFICES ASSUME IInv, [Next]_vars PROVE IInv'
  OBVIOUS
<1>1. CASE UNCHANGED vars
  BY <1>1 DEF vars, inputs, IInv, TypeOK, VotesMatchVoters,
              NoStaleVotes, SnapVotersPast, Idle, Replaying, Expiring, VotersCarried, Old
<1> QED
  BY <1>1, BeginApplyInv, ReplayVoteInv, ReplayMPVoteInv, EndHeaderInv,
     ExpireVoteInv, FinishApplyInv DEF Next

\* IInv holds in every state of every behaviour of the vote ledger.
THEOREM LedgerInv == Spec => []IInv
  BY InitInv, NextInv, PTL DEF Spec

-----------------------------------------------------------------------------
(* Sums of stakes. *)

\* The invariant about sums, for the snapshot and for apply's copy.
SumsInv == Sound(snap) /\ Sound(work)

\* The genesis ledger is sound.
LEMMA InitSums == Init => SumsInv
  BY InitInv, GenesisSound DEF Init, SumsInv, IInv, TypeOK

\* Every step of apply keeps both ledgers sound.
LEMMA NextSums == IInv /\ IInv' /\ SumsInv /\ [Next]_vars => SumsInv'
<1> SUFFICES ASSUME IInv, IInv', SumsInv, [Next]_vars PROVE SumsInv'
  OBVIOUS
<1>1. /\ IsLedger(snap) /\ IsLedger(work) /\ IsLedger(snap') /\ IsLedger(work')
      /\ header \in Nat
  BY DEF IInv, TypeOK
<1>2. Sound(snap) /\ Sound(work)
  BY DEF SumsInv
<1>3. CASE UNCHANGED vars
  BY <1>2, <1>3 DEF vars, SumsInv
<1>4. CASE BeginApply
  <2>1. snap' = snap /\ work' = Copy(snap)
    BY <1>4 DEF BeginApply
  <2>2. /\ work'.votes = snap.votes /\ work'.tally = snap.tally
        /\ work'.clobbered = snap.clobbered
    BY <1>1, <2>1 DEF Copy, IsLedger, LedgerFields
  <2>3. Sound(work')
    BY <1>1, <1>2, <2>2, SameSound
  <2> QED
    BY <1>2, <2>1, <2>3 DEF SumsInv
<1>5. CASE ReplayVote
  <2>1. PICK v \in Voter, c \in Candidate, s \in Balance :
           \/ work' = work
           \/ ~LostTally(work, v) /\ work' = UpdateByVote(work, v, c, s, header)
    BY <1>5 DEF ReplayVote
  <2>2. s \in Nat /\ snap' = snap
    BY <1>5, ConstantsAssumption DEF ReplayVote
  <2>3. CASE work' = work
    BY <1>2, <2>2, <2>3 DEF SumsInv
  <2>4. CASE ~LostTally(work, v) /\ work' = UpdateByVote(work, v, c, s, header)
    <3>1. Sound(work')
      <4> DEFINE U == UpdateByVote(work, v, c, s, header)
      <4>1. IsLedger(work) /\ ~LostTally(work, v) /\ s \in Nat /\ header \in Nat
        BY <1>1, <2>2, <2>4
      <4>2. Sound(U)
        BY <1>2, <4>1, UpdateByVoteSound
      <4> QED
        BY <2>4, <4>2
    <3> QED
      BY <1>2, <2>2, <3>1 DEF SumsInv
  <2> QED
    BY <2>1, <2>3, <2>4
<1>6. CASE ReplayMPVote
  <2>1. PICK v \in DOMAIN work.votes, s \in Balance :
           \/ work' = work
           \/ ~LostTally(work, v) /\ work' = UpdateByMPVote(work, v, s)
    BY <1>6 DEF ReplayMPVote
  <2>2. s \in Nat /\ snap' = snap
    BY <1>6, ConstantsAssumption DEF ReplayMPVote
  <2>3. CASE work' = work
    BY <1>2, <2>2, <2>3 DEF SumsInv
  <2>4. CASE ~LostTally(work, v) /\ work' = UpdateByMPVote(work, v, s)
    <3>1. Sound(work')
      BY <1>1, <1>2, <2>2, <2>4, UpdateByMPVoteSound
    <3> QED
      BY <1>2, <2>2, <3>1 DEF SumsInv
  <2> QED
    BY <2>1, <2>3, <2>4
<1>7. CASE EndHeader
  <2>1. PICK extra \in ExtraCandidates(work) :
           LET L == [work EXCEPT !.candidates = work.candidates \ extra] IN
           work' = L \/ work' = [L EXCEPT !.number = last]
    BY <1>7 DEF EndHeader
  <2>2. /\ work'.votes = work.votes /\ work'.tally = work.tally
        /\ work'.clobbered = work.clobbered
    BY <1>1, <2>1 DEF IsLedger, LedgerFields
  <2>3. Sound(work') /\ snap' = snap
    BY <1>1, <1>2, <1>7, <2>2, SameSound DEF EndHeader
  <2> QED
    BY <1>2, <2>3 DEF SumsInv
<1>8. CASE ExpireVote
  <2>1. PICK v \in expired :
           \/ work' = work
           \/ ~LostTally(work, v) /\ work' = RemoveExpired(work, v)
    BY <1>8 DEF ExpireVote
  <2>2. snap' = snap /\ pc = "expire"
    BY <1>8 DEF ExpireVote
  <2>3. CASE work' = work
    BY <1>2, <2>2, <2>3 DEF SumsInv
  <2>4. CASE ~LostTally(work, v) /\ work' = RemoveExpired(work, v)
    <3>0. v \in DOMAIN work.votes
      BY <2>2 DEF IInv, Expiring, Old, VotesMatchVoters
    <3>1. ~work'.clobbered => ~work.clobbered /\ Revoted(work, work', v)
      BY <1>1, <2>4, <3>0, RemoveExpiredExact
    <3>2. v \notin DOMAIN work'.votes
      <4>1. DOMAIN RemoveExpired(work, v).votes = DOMAIN work.votes \ {v}
        BY <1>1, <2>4, <3>0, RemoveExpiredLedger
      <4> QED
        BY <2>4, <4>1
    <3>3. Sound(work')
      BY <1>1, <1>2, <3>1, <3>2, RevotedSound
    <3> QED
      BY <1>2, <2>2, <3>3 DEF SumsInv
  <2> QED
    BY <2>1, <2>3, <2>4
<1>9. CASE FinishApply
  <2>1. Sound(DropEmptyTallies(work))
    BY <1>1, <1>2, DropEmptySound
  <2>2. \/ snap' = DropEmptyTallies(work) /\ work' = DropEmptyTallies(work)
        \/ snap' = snap /\ work' = snap
    BY <1>9 DEF FinishApply
  <2> QED
    BY <1>2, <2>1, <2>2 DEF SumsInv
<1> QED
  BY <1>3, <1>4, <1>5, <1>6, <1>7, <1>8, <1>9 DEF Next

\* SumsInv holds in every state of every behaviour of the vote ledger.
THEOREM LedgerSums == Spec => []SumsInv
  BY InitSums, NextSums, LedgerInv, PTL DEF Spec

-----------------------------------------------------------------------------
(* The results. *)

\* Whatever votes and balance changes the headers carry, the maps of the
\* snapshot and the locals of apply keep their types.
THEOREM TypeCorrect == Spec => []TypeOK
<1>1. IInv => TypeOK
  BY DEF IInv
<1> QED
  BY <1>1, LedgerInv, PTL

\* Votes and Voters never get out of step, at any point of apply.
THEOREM VotesAndVotersAgree == Spec => []VotesMatchVoters
<1>1. IInv => VotesMatchVoters
  BY DEF IInv
<1> QED
  BY <1>1, LedgerInv, PTL

\* Expiry is all or nothing: old votes survive a call of apply only when their
\* removal would leave fewer than MaxSignerCount voters.
THEOREM ExpiryAllOrNothing == Spec => []NoStaleVotes
<1>1. IInv => NoStaleVotes
  BY DEF IInv
<1> QED
  BY <1>1, LedgerInv, PTL

\* Across a whole call of apply, a voter disappears only because its vote is
\* older than Epoch, and never below MaxSignerCount voters.
THEOREM OnlyOldVotersLeave == Spec => ExpiryIsJustified
<1> DEFINE Step == \A v \in DOMAIN snap.voters \ DOMAIN snap'.voters :
                      /\ snap'.number - snap.voters[v] > Epoch
                      /\ Cardinality(DOMAIN snap'.voters) >= MaxSignerCount
<1>1. ASSUME IInv, [Next]_vars PROVE [Step]_snap
  <2>1. CASE snap' = snap
    BY <2>1
  <2>2. CASE snap' # snap
    <3>1. FinishApply
      BY <1>1, <2>2 DEF Next, vars, BeginApply, ReplayVote, ReplayMPVote,
                        EndHeader, ExpireVote
    <3>2. snap'.number = last /\ snap'.voters = work.voters
      BY <1>1, <2>2, <3>1, FinishedSnap
    <3>3. /\ pc = "expire" /\ expired = {}
          /\ DOMAIN work.voters \subseteq Voter
      BY <1>1, <3>1 DEF FinishApply, IInv, TypeOK, IsLedger, IsMap
    <3> SUFFICES ASSUME NEW v \in DOMAIN snap.voters \ DOMAIN work.voters
                 PROVE  /\ last - snap.voters[v] > Epoch
                        /\ Cardinality(DOMAIN work.voters) >= MaxSignerCount
      BY <3>2
    <3>4. last - snap.voters[v] > Epoch
      BY <1>1, <3>3 DEF IInv, VotersCarried
    <3>5. /\ Old(work) = {}
          /\ Cardinality(DOMAIN work.voters \ Old(work)) >= MaxSignerCount
      BY <1>1, <3>3 DEF IInv, Expiring
    <3>6. DOMAIN work.voters \ Old(work) = DOMAIN work.voters
      BY <3>5
    <3> QED
      BY <3>4, <3>5, <3>6
  <2> QED
    BY <2>1, <2>2
<1>2. Spec => [][Step]_snap
  BY <1>1, LedgerInv, PTL DEF Spec
<1> QED
  BY <1>2 DEF ExpiryIsJustified

\* At every point of apply, a copy in which no update has overwritten a shared
\* stake has tallies that are the exact sums of its votes.
THEOREM TallyIsSumOfVotes == Spec => []ExactUnlessClobbered
<1>1. SumsInv => ExactUnlessClobbered
  BY DEF SumsInv, Sound, Exact, TallyOf, ExactUnlessClobbered
<1> QED
  BY <1>1, LedgerSums, PTL

\* apply ends with errIncorrectTallyCount only when an update has overwritten
\* a shared stake: an exact copy always passes verifyTallyCnt.
THEOREM RejectedOnlyFromSharing == Spec => ErrorOnlyFromSharing
<1> DEFINE Step == err' /\ ~err => work.clobbered
<1>1. ASSUME IInv, SumsInv, [Next]_vars PROVE [Step]_vars
  <2> SUFFICES ASSUME err', ~err, ~work.clobbered, vars' # vars PROVE FALSE
    OBVIOUS
  <2>1. FinishApply
    BY <1>1 DEF Next, vars, BeginApply, ReplayVote, ReplayMPVote, EndHeader,
                ExpireVote
  <2>2. TallyVerified(DropEmptyTallies(work))
    BY <1>1, DropEmptySound DEF SumsInv, IInv, TypeOK
  <2>3. err' = FALSE
    BY <2>1, <2>2 DEF FinishApply
  <2> QED
    BY <2>3
<1>2. Spec => [][Step]_vars
  BY <1>1, LedgerInv, LedgerSums, PTL DEF Spec
<1> QED
  BY <1>2 DEF ErrorOnlyFromSharing

-----------------------------------------------------------------------------
(* Overwritten stakes. *)

\* If every stake was counted when apply was called, told are the stakes the
\* votes of the copy were given; and as long as headers are replayed, a vote
\* whose candidate has no tally was given none.
StakesInv ==
    Uncounted(snap) = {} =>
        /\ pc \in {"votes", "mpvotes", "expire"} =>
              Trusted(work, told) /\ DOMAIN work.votes \subseteq DOMAIN told
        /\ pc \in {"votes", "mpvotes"} =>
              \A v \in DOMAIN work.votes :
                 work.votes[v].candidate \notin DOMAIN work.tally => told[v] = 0

\* Every step of apply keeps it.
LEMMA NextStakes == IInv /\ IInv' /\ StakesInv /\ [Next]_vars => StakesInv'
<1> SUFFICES ASSUME IInv, IInv', StakesInv, [Next]_vars,
                    Uncounted(snap') = {}, pc' \in {"votes", "mpvotes", "expire"}
             PROVE  /\ Trusted(work', told')
                    /\ DOMAIN work'.votes \subseteq DOMAIN told'
                    /\ pc' \in {"votes", "mpvotes"} =>
                          \A v \in DOMAIN work'.votes :
                             work'.votes[v].candidate \notin DOMAIN work'.tally
                                => told'[v] = 0
  BY DEF StakesInv
<1>1. /\ IsLedger(snap) /\ IsLedger(work) /\ IsLedger(snap') /\ IsLedger(work')
      /\ header \in Nat
  BY DEF IInv, TypeOK
<1>2. ASSUME snap' = snap, pc \in {"votes", "mpvotes", "expire"}
      PROVE  /\ Trusted(work, told) /\ Linked(work)
             /\ DOMAIN work.votes \subseteq DOMAIN told
             /\ pc \in {"votes", "mpvotes"} =>
                   \A v \in DOMAIN work.votes :
                      work.votes[v].candidate \notin DOMAIN work.tally
                         => told[v] = 0
  BY <1>2 DEF StakesInv, Trusted
<1>3. CASE UNCHANGED vars
  <2>1. UNCHANGED <<snap, work, pc, told>>
    BY <1>3 DEF vars
  <2> QED
    BY <1>2, <2>1
<1>4. CASE BeginApply
  <2>1. /\ snap' = snap /\ work' = Copy(snap)
        /\ told' = [v \in DOMAIN snap.votes |-> snap.votes[v].stake]
    BY <1>4 DEF BeginApply
  <2>2. work'.votes = snap.votes /\ work'.tally = snap.tally /\ work'.shared = {}
    BY <1>1, <2>1 DEF Copy, IsLedger, LedgerFields
  <2>3. \A v \in DOMAIN snap.votes : told'[v] = snap.votes[v].stake /\ told'[v] \in Int
    BY <1>1, <2>1 DEF IsLedger, IsMap, Vote
  <2>4. Trusted(work', told')
    BY <2>2, <2>3 DEF Trusted, Linked
  <2>5. \A v \in DOMAIN work'.votes :
           work'.votes[v].candidate \notin DOMAIN work'.tally => told'[v] = 0
    BY <2>1, <2>2, <2>3 DEF Uncounted
  <2> QED
    BY <2>1, <2>2, <2>4, <2>5
<1>5. CASE ReplayVote
  <2>1. PICK v \in Voter, c \in Candidate, s \in Balance :
           /\ told' = Put(told, v, s)
           /\ ~LostTally(work, v) /\ work' = UpdateByVote(work, v, c, s, header)
    BY <1>5 DEF ReplayVote
  <2>2. s \in Nat /\ snap' = snap /\ pc = "votes"
    BY <1>5, ConstantsAssumption DEF ReplayVote
  <2>3. /\ Trusted(work, told) /\ Linked(work)
        /\ DOMAIN work.votes \subseteq DOMAIN told
        /\ \A w \in DOMAIN work.votes :
              work.votes[w].candidate \notin DOMAIN work.tally => told[w] = 0
    BY <1>2, <2>2
  <2>4. /\ Changed(work, work', v)
        /\ DOMAIN work'.tally = DOMAIN work.tally \cup {c}
        /\ work'.votes[v] = [candidate |-> c, stake |-> s]
    <3> DEFINE U == UpdateByVote(work, v, c, s, header)
    <3>1. /\ Changed(work, U, v) /\ DOMAIN U.tally = DOMAIN work.tally \cup {c}
          /\ U.votes[v] = [candidate |-> c, stake |-> s]
      BY <1>1, <2>1, <2>2, <2>3, UpdateByVoteChanged
    <3> HIDE DEF U
    <3> QED
      BY <2>1, <3>1 DEF U
  <2>5. /\ DOMAIN work'.votes \ {v} = DOMAIN work.votes \ {v}
        /\ \A w \in DOMAIN work.votes \ {v} :
              work'.votes[w].candidate = work.votes[w].candidate
        /\ v \in work'.shared => work'.votes[v].candidate \notin DOMAIN work.tally
    BY <2>4 DEF Changed
  <2>6. told'[v] = s /\ \A w \in DOMAIN work.votes \ {v} : told'[w] = told[w]
    BY <2>1, <2>3 DEF Put
  <2>7. Trusted(work', told')
    <3>1. work'.votes[v].stake = s
      BY <2>4
    <3> QED
      BY <1>1, <2>2, <2>3, <2>4, <2>5, <2>6, <3>1, ChangedTrusted
  <2>8. \A w \in DOMAIN work'.votes :
           work'.votes[w].candidate \notin DOMAIN work'.tally => told'[w] = 0
    BY <2>3, <2>4, <2>5, <2>6
  <2>9. DOMAIN work'.votes \subseteq DOMAIN told'
    BY <2>1, <2>3, <2>5 DEF Put
  <2> QED
    BY <2>7, <2>8, <2>9
<1>6. CASE ReplayMPVote
  <2>1. PICK v \in DOMAIN work.votes, s \in Balance :
           /\ told' = Put(told, v, s)
           /\ ~LostTally(work, v) /\ work' = UpdateByMPVote(work, v, s)
    BY <1>6 DEF ReplayMPVote
  <2>2. s \in Nat /\ snap' = snap /\ pc \in {"votes", "mpvotes"}
    BY <1>6, ConstantsAssumption DEF ReplayMPVote
  <2>3. /\ Trusted(work, told) /\ Linked(work)
        /\ DOMAIN work.votes \subseteq DOMAIN told
        /\ \A w \in DOMAIN work.votes :
              work.votes[w].candidate \notin DOMAIN work.tally => told[w] = 0
    BY <1>2, <2>2
  <2>4. /\ Changed(work, work', v) /\ v \notin work'.shared
        /\ DOMAIN work'.tally = DOMAIN work.tally
        /\ work'.votes[v] = [candidate |-> work.votes[v].candidate, stake |-> s]
    <3> DEFINE U == UpdateByMPVote(work, v, s)
    <3>1. /\ Changed(work, U, v) /\ v \notin U.shared
          /\ DOMAIN U.tally = DOMAIN work.tally
          /\ U.votes[v] = [candidate |-> work.votes[v].candidate, stake |-> s]
      BY <1>1, <2>1, <2>2, <2>3, UpdateByMPVoteChanged
    <3> HIDE DEF U
    <3> QED
      BY <2>1, <3>1 DEF U
  <2>5. /\ DOMAIN work'.votes \ {v} = DOMAIN work.votes \ {v}
        /\ \A w \in DOMAIN work.votes \ {v} :
              work'.votes[w].candidate = work.votes[w].candidate
    BY <2>4 DEF Changed
  <2>6. told'[v] = s /\ \A w \in DOMAIN work.votes \ {v} : told'[w] = told[w]
    BY <2>1, <2>3 DEF Put
  <2>7. Trusted(work', told')
    <3>1. work'.votes[v].stake = s
      BY <2>4
    <3> QED
      BY <1>1, <2>2, <2>3, <2>4, <2>5, <2>6, <3>1, ChangedTrusted
  <2>8. \A w \in DOMAIN work'.votes :
           work'.votes[w].candidate \notin DOMAIN work'.tally => told'[w] = 0
    <3>1. work.votes[v].candidate \in DOMAIN work.tally
      BY <2>1 DEF LostTally
    <3> QED
      BY <2>3, <2>4, <2>5, <2>6, <3>1
  <2>9. DOMAIN work'.votes \subseteq DOMAIN told'
    BY <2>1, <2>3, <2>5 DEF Put
  <2> QED
    BY <2>7, <2>8, <2>9
<1>7. CASE EndHeader
  <2>1. PICK extra \in ExtraCandidates(work) :
           LET L == [work EXCEPT !.candidates = work.candidates \ extra] IN
           work' = L \/ work' = [L EXCEPT !.number = last]
    BY <1>7 DEF EndHeader
  <2>2. /\ work'.votes = work.votes /\ work'.tally = work.tally
        /\ work'.shared = work.shared
    BY <1>1, <2>1 DEF IsLedger, LedgerFields
  <2>3. snap' = snap /\ told' = told /\ pc \in {"votes", "mpvotes"}
    BY <1>7 DEF EndHeader
  <2>4. Trusted(work', told')
    BY <1>2, <2>2, <2>3 DEF Trusted, Linked, Given
  <2> QED
    BY <1>2, <2>2, <2>3, <2>4
<1>8. CASE ExpireVote
  <2>1. PICK v \in expired :
           ~LostTally(work, v) /\ work' = RemoveExpired(work, v) /\ pc' = pc
    BY <1>8 DEF ExpireVote
  <2>2. snap' = snap /\ told' = told /\ pc = "expire"
    BY <1>8 DEF ExpireVote
  <2>3. v \in DOMAIN work.votes
    BY <2>2 DEF IInv, Expiring, Old, VotesMatchVoters
  <2>4. /\ Trusted(work, told) /\ Linked(work)
        /\ DOMAIN work.votes \subseteq DOMAIN told
    BY <1>2, <2>2
  <2>5. Changed(work, work', v) /\ v \notin DOMAIN work'.votes
        /\ v \notin work'.shared
    <3> DEFINE R == RemoveExpired(work, v)
    <3>1. Changed(work, R, v) /\ v \notin DOMAIN R.votes /\ v \notin R.shared
      BY <1>1, <2>1, <2>3, <2>4, RemoveExpiredChanged
    <3> HIDE DEF R
    <3> QED
      BY <2>1, <3>1 DEF R
  <2>6. Trusted(work', told')
    BY <1>1, <2>2, <2>4, <2>5, ChangedTrusted
  <2>7. DOMAIN work'.votes \subseteq DOMAIN told'
    BY <2>2, <2>4, <2>5 DEF Changed
  <2> QED
    BY <2>1, <2>2, <2>6, <2>7
<1>9. CASE FinishApply
  BY <1>9 DEF FinishApply
<1> QED
  BY <1>3, <1>4, <1>5, <1>6, <1>7, <1>8, <1>9 DEF Next

\* StakesInv holds in every state of every behaviour of the vote ledger.
THEOREM LedgerStakes == Spec => []StakesInv
<1>1. Init => StakesInv
  BY DEF Init, StakesInv
<1> QED
  BY <1>1, NextStakes, LedgerInv, PTL DEF Spec

\* verifyTallyCnt lets no overwritten stake through: if each stake was counted
\* when apply was called, each voter of the snapshot it returns has the stake
\* it was given last, whatever the sharing of big.Ints did to the copy.
THEOREM AcceptedStakesAreTrue == Spec => AcceptedStakesTrue
<1> DEFINE Step == snap' # snap /\ Uncounted(snap) = {} =>
                      \A v \in DOMAIN snap'.votes : snap'.votes[v].stake = told[v]
<1>1. ASSUME IInv, StakesInv, [Next]_vars PROVE [Step]_vars
  <2> SUFFICES ASSUME snap' # snap, Uncounted(snap) = {}
               PROVE  \A v \in DOMAIN snap'.votes : snap'.votes[v].stake = told[v]
    OBVIOUS
  <2>1. FinishApply
    BY <1>1 DEF Next, vars, BeginApply, ReplayVote, ReplayMPVote, EndHeader,
                ExpireVote
  <2>2. TallyVerified(DropEmptyTallies(work)) /\ pc = "expire"
    BY <2>1 DEF FinishApply
  <2>3. Trusted(work, told) /\ IsLedger(work)
    BY <1>1, <2>2 DEF StakesInv, IInv, TypeOK
  <2>4. \A v \in DOMAIN work.votes : work.votes[v].stake = told[v]
    BY <2>2, <2>3, VerifiedStakes
  <2>5. snap'.votes = work.votes
    BY <1>1, <2>1, FinishedSnap
  <2> QED
    BY <2>4, <2>5
<1>2. Spec => [][Step]_vars
  BY <1>1, LedgerInv, LedgerStakes, PTL DEF Spec
<1> QED
  BY <1>2 DEF AcceptedStakesTrue

=============================================================================
