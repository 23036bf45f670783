---------------------------- MODULE VoteOpsProofs ----------------------------
(***************************************************************************)
(* What the operations of VoteOps do to a ledger: each keeps the types of  *)
(* its maps, each keeps every tally the sum of the votes for its candidate *)
(* unless it overwrites a shared stake, and stakes that were overwritten   *)
(* do not pass verifyTallyCnt.                                             *)
(***************************************************************************)
EXTENDS VoteOps, FiniteSetTheorems, WellFoundedInduction, TLAPS

\* The voters of L whose vote is older than Epoch.
Old(L) == {v \in DOMAIN L.voters : L.number - L.voters[v] > Epoch}

-----------------------------------------------------------------------------
(* Maps and ledger operations. *)

\* The empty map is a map.
LEMMA EmptyMap ==
    ASSUME NEW K, NEW X
    PROVE  IsMap(<<>>, K, X)
  BY DEF IsMap

\* Put stores x under k and leaves the rest of the map alone.
LEMMA PutMap ==
    ASSUME NEW K, NEW X, NEW m, IsMap(m, K, X), NEW k \in K, NEW x \in X
    PROVE  /\ IsMap(Put(m, k, x), K, X)
           /\ DOMAIN Put(m, k, x) = DOMAIN m \cup {k}
           /\ Put(m, k, x)[k] = x
           /\ \A i \in DOMAIN m : i # k => Put(m, k, x)[i] = m[i]
  BY DEF IsMap, Put

\* Del removes the keys of S and leaves the rest of the map alone.
LEMMA DelMap ==
    ASSUME NEW K, NEW X, NEW m, IsMap(m, K, X), NEW S
    PROVE  /\ IsMap(Del(m, S), K, X)
           /\ DOMAIN Del(m, S) = DOMAIN m \ S
           /\ \A i \in DOMAIN m \ S : Del(m, S)[i] = m[i]
  BY DEF IsMap, Del, Restrict

\* Adding to a tally changes stakes and tallies, nothing else.
LEMMA AddTallyLedger ==
    ASSUME NEW L, IsLedger(L), NEW v \in Voter, NEW c \in DOMAIN L.tally,
           NEW d \in Int
    PROVE  LET A == AddTally(L, v, c, d) IN
           /\ IsLedger(A)
           /\ DOMAIN A.tally = DOMAIN L.tally
           /\ DOMAIN A.votes = DOMAIN L.votes
           /\ \A w \in DOMAIN L.votes :
                 A.votes[w].candidate = L.votes[w].candidate
           /\ A.number = L.number /\ A.voters = L.voters
           /\ A.candidates = L.candidates /\ A.shared = L.shared
<1> DEFINE A == AddTally(L, v, c, d)
           t == L.tally[c] + d
           votes == [w \in DOMAIN L.votes |->
                        IF w \in SharersOf(L, c)
                        THEN [candidate |-> c, stake |-> t]
                        ELSE L.votes[w]]
<1>1. t \in Int /\ c \in Candidate
  BY DEF IsLedger, IsMap
<1>2. /\ DOMAIN A = LedgerFields
      /\ A.number = L.number /\ A.voters = L.voters
      /\ A.candidates = L.candidates /\ A.shared = L.shared
      /\ A.tally = [L.tally EXCEPT ![c] = t]
      /\ A.votes = votes
      /\ A.clobbered = (L.clobbered \/ SharersOf(L, c) \ {v} # {})
  BY DEF AddTally, IsLedger, LedgerFields
<1>3. IsMap(A.tally, Candidate, Int) /\ DOMAIN A.tally = DOMAIN L.tally
  BY <1>1, <1>2 DEF IsLedger, IsMap
<1>4. /\ DOMAIN votes = DOMAIN L.votes
      /\ \A w \in DOMAIN L.votes : votes[w] \in Vote
      /\ \A w \in DOMAIN L.votes : votes[w].candidate = L.votes[w].candidate
  BY <1>1 DEF IsLedger, IsMap, Vote, SharersOf
<1>5. IsMap(A.votes, Voter, Vote)
  BY <1>2, <1>4 DEF IsLedger, IsMap
<1>6. A.clobbered \in BOOLEAN
  BY <1>2 DEF IsLedger
<1>7. IsLedger(A)
  BY <1>2, <1>3, <1>4, <1>5, <1>6 DEF IsLedger
<1> QED
  BY <1>2, <1>3, <1>4, <1>7

\* Taking the last vote back keeps the ledger and its keys.
LEMMA TakeBackLedger ==
    ASSUME NEW L, IsLedger(L), NEW v \in Voter, ~LostTally(L, v)
    PROVE  LET T == TakeBack(L, v) IN
           /\ IsLedger(T)
           /\ DOMAIN T.tally = DOMAIN L.tally
           /\ DOMAIN T.votes = DOMAIN L.votes
           /\ \A w \in DOMAIN L.votes :
                 T.votes[w].candidate = L.votes[w].candidate
           /\ T.number = L.number /\ T.voters = L.voters
           /\ T.candidates = L.candidates /\ T.shared = L.shared
<1>1. CASE v \in DOMAIN L.votes
  <2>1. /\ L.votes[v].candidate \in DOMAIN L.tally
        /\ -L.votes[v].stake \in Int
    BY <1>1 DEF LostTally, IsLedger, IsMap, Vote
  <2> QED
    BY <1>1, <2>1, AddTallyLedger, SMTT(30) DEF TakeBack
<1>2. CASE v \notin DOMAIN L.votes
  BY <1>2 DEF TakeBack
<1> QED
  BY <1>1, <1>2

\* What one vote does to the ledger's keys and to Voters.
LEMMA UpdateByVoteLedger ==
    ASSUME NEW L, IsLedger(L), NEW v \in Voter, ~LostTally(L, v),
           NEW c \in Candidate, NEW s \in Nat, NEW n \in Nat
    PROVE  LET U == UpdateByVote(L, v, c, s, n) IN
           /\ IsLedger(U)
           /\ U.number = L.number
           /\ DOMAIN U.votes = DOMAIN L.votes \cup {v}
           /\ U.voters = Put(L.voters, v, n)
<1> DEFINE T == TakeBack(L, v)
           fresh == c \notin DOMAIN T.tally
           F == [T EXCEPT !.tally = Put(T.tally, c, s),
                          !.candidates = T.candidates \cup {c}]
           A == IF fresh THEN F ELSE AddTally(T, v, c, s)
           U == UpdateByVote(L, v, c, s, n)
<1>1. /\ IsLedger(T) /\ DOMAIN T.votes = DOMAIN L.votes
      /\ T.number = L.number /\ T.voters = L.voters
  BY TakeBackLedger
<1>2. /\ IsLedger(A) /\ DOMAIN A.votes = DOMAIN L.votes
      /\ A.number = L.number /\ A.voters = L.voters
  <2>1. CASE fresh
    <3>1. IsMap(Put(T.tally, c, s), Candidate, Int)
      <4>1. IsMap(T.tally, Candidate, Int) /\ s \in Int
        BY <1>1 DEF IsLedger
      <4> QED
        BY <4>1, PutMap
    <3>2. /\ DOMAIN F = LedgerFields
          /\ F.tally = Put(T.tally, c, s)
          /\ F.candidates = T.candidates \cup {c}
          /\ F.number = T.number /\ F.votes = T.votes /\ F.voters = T.voters
          /\ F.shared = T.shared /\ F.clobbered = T.clobbered
      BY <1>1 DEF IsLedger, LedgerFields
    <3>3. IsLedger(F)
      BY <1>1, <3>1, <3>2 DEF IsLedger
    <3> QED
      BY <1>1, <2>1, <3>2, <3>3
  <2>2. CASE ~fresh
    BY <1>1, <2>2, AddTallyLedger
  <2> QED
    BY <2>1, <2>2
<1> DEFINE vote == [candidate |-> c, stake |-> s]
           shared == IF fresh THEN A.shared \cup {v} ELSE A.shared \ {v}
<1> HIDE DEF A, fresh
<1>3. vote \in Vote /\ IsMap(A.votes, Voter, Vote)
  BY <1>2 DEF Vote, IsLedger
<1> HIDE DEF vote
<1>4. /\ IsMap(Put(A.votes, v, vote), Voter, Vote)
      /\ DOMAIN Put(A.votes, v, vote) = DOMAIN L.votes \cup {v}
  <2>1. IsMap(Put(A.votes, v, vote), Voter, Vote)
    BY <1>3, PutMap
  <2>2. DOMAIN Put(A.votes, v, vote) = DOMAIN L.votes \cup {v}
    BY <1>2 DEF Put
  <2> QED
    BY <2>1, <2>2
<1>5. IsMap(Put(A.voters, v, n), Voter, Nat)
  BY <1>2, PutMap DEF IsLedger
<1>6. /\ U = [A EXCEPT !.votes = Put(A.votes, v, vote),
                       !.voters = Put(A.voters, v, n),
                       !.shared = shared]
  BY DEF UpdateByVote, A, fresh, vote
<1>7. /\ DOMAIN U = LedgerFields
      /\ U.votes = Put(A.votes, v, vote)
      /\ U.voters = Put(A.voters, v, n)
      /\ U.shared = shared
      /\ U.number = A.number /\ U.tally = A.tally
      /\ U.candidates = A.candidates /\ U.clobbered = A.clobbered
  BY <1>2, <1>6 DEF IsLedger, LedgerFields
<1>8. IsLedger(U)
  BY <1>2, <1>4, <1>5, <1>7 DEF IsLedger
<1> QED
  BY <1>2, <1>4, <1>7, <1>8

\* A balance change leaves the keys and Voters alone.
LEMMA UpdateByMPVoteLedger ==
    ASSUME NEW L, IsLedger(L), NEW v \in DOMAIN L.votes, ~LostTally(L, v),
           NEW s \in Nat
    PROVE  LET U == UpdateByMPVote(L, v, s) IN
           /\ IsLedger(U)
           /\ U.number = L.number
           /\ DOMAIN U.votes = DOMAIN L.votes
           /\ U.voters = L.voters
<1> DEFINE c == L.votes[v].candidate
           T == TakeBack(L, v)
           A == AddTally(T, v, c, s)
           vote == [candidate |-> c, stake |-> s]
           U == UpdateByMPVote(L, v, s)
<1>1. v \in Voter /\ c \in Candidate /\ c \in DOMAIN L.tally
  BY DEF LostTally, IsLedger, IsMap, Vote
<1>2. /\ IsLedger(T) /\ DOMAIN T.votes = DOMAIN L.votes
      /\ DOMAIN T.tally = DOMAIN L.tally
      /\ T.number = L.number /\ T.voters = L.voters
  BY <1>1, TakeBackLedger
<1> HIDE DEF T
<1>3. /\ IsLedger(A) /\ DOMAIN A.votes = DOMAIN L.votes
      /\ A.number = L.number /\ A.voters = L.voters
  BY <1>1, <1>2, AddTallyLedger
<1>4. U = [A EXCEPT !.votes = Put(A.votes, v, vote),
                    !.shared = A.shared \ {v}]
  BY DEF UpdateByMPVote, T
<1>5. vote \in Vote /\ IsMap(A.votes, Voter, Vote)
  BY <1>1, <1>3 DEF Vote, IsLedger
<1> HIDE DEF A, vote
<1>6. /\ IsMap(Put(A.votes, v, vote), Voter, Vote)
      /\ DOMAIN Put(A.votes, v, vote) = DOMAIN L.votes
  <2>1. IsMap(Put(A.votes, v, vote), Voter, Vote)
    BY <1>1, <1>5, PutMap
  <2>2. DOMAIN Put(A.votes, v, vote) = DOMAIN L.votes
    BY <1>3 DEF Put
  <2> QED
    BY <2>1, <2>2
<1>7. /\ DOMAIN U = LedgerFields
      /\ U.votes = Put(A.votes, v, vote)
      /\ U.shared = A.shared \ {v}
      /\ U.number = A.number /\ U.tally = A.tally /\ U.voters = A.voters
      /\ U.candidates = A.candidates /\ U.clobbered = A.clobbered
  BY <1>3, <1>4 DEF IsLedger, LedgerFields
<1>8. IsLedger(U)
  BY <1>3, <1>6, <1>7 DEF IsLedger
<1> QED
  BY <1>3, <1>6, <1>7, <1>8

\* The removal of an expired vote removes its voter from both maps.
LEMMA RemoveExpiredLedger ==
    ASSUME NEW L, IsLedger(L), NEW v \in DOMAIN L.votes, ~LostTally(L, v)
    PROVE  LET R == RemoveExpired(L, v) IN
           /\ IsLedger(R)
           /\ R.number = L.number
           /\ DOMAIN R.votes = DOMAIN L.votes \ {v}
           /\ R.voters = Del(L.voters, {v})
<1> DEFINE c == L.votes[v].candidate
           T == TakeBack(L, v)
           R == RemoveExpired(L, v)
           tally == IF T.tally[c] = 0 THEN Del(T.tally, {c}) ELSE T.tally
           shared == IF T.tally[c] = 0
                     THEN T.shared \ SharersOf(T, c) ELSE T.shared \ {v}
<1>1. v \in Voter /\ c \in Candidate
  BY DEF IsLedger, IsMap, Vote
<1>2. /\ IsLedger(T) /\ DOMAIN T.votes = DOMAIN L.votes
      /\ T.votes[v].candidate = c
      /\ T.number = L.number /\ T.voters = L.voters
  BY <1>1, TakeBackLedger
<1>3. R = [T EXCEPT !.tally = tally,
                    !.votes = Del(T.votes, {v}),
                    !.voters = Del(T.voters, {v}),
                    !.shared = shared]
  BY DEF RemoveExpired
<1> HIDE DEF T, c
<1>4. /\ IsMap(T.votes, Voter, Vote) /\ IsMap(T.voters, Voter, Nat)
      /\ IsMap(T.tally, Candidate, Int)
  BY <1>2 DEF IsLedger
<1>5. IsMap(tally, Candidate, Int)
  BY <1>4, DelMap
<1>6. IsMap(Del(T.votes, {v}), Voter, Vote)
      /\ DOMAIN Del(T.votes, {v}) = DOMAIN L.votes \ {v}
  <2>1. IsMap(Del(T.votes, {v}), Voter, Vote)
    BY <1>4, DelMap
  <2>2. DOMAIN Del(T.votes, {v}) = DOMAIN L.votes \ {v}
    BY <1>2 DEF Del, Restrict
  <2> QED
    BY <2>1, <2>2
<1>7. IsMap(Del(T.voters, {v}), Voter, Nat)
  BY <1>4, DelMap
<1>8. shared \subseteq DOMAIN L.votes \ {v}
  BY <1>2 DEF IsLedger, SharersOf
<1> HIDE DEF tally, shared
<1>9. /\ DOMAIN R = LedgerFields
      /\ R.tally = tally
      /\ R.votes = Del(T.votes, {v}) /\ R.voters = Del(T.voters, {v})
      /\ R.shared = shared
      /\ R.number = T.number
      /\ R.candidates = T.candidates /\ R.clobbered = T.clobbered
  BY <1>2, <1>3 DEF IsLedger, LedgerFields
<1>10. IsLedger(R)
  BY <1>2, <1>5, <1>6, <1>7, <1>8, <1>9 DEF IsLedger
<1> QED
  BY <1>2, <1>6, <1>9, <1>10

\* Dropping empty tallies leaves only positive ones and touches no vote.
LEMMA DropEmptyLedger ==
    ASSUME NEW L, IsLedger(L)
    PROVE  LET D == DropEmptyTallies(L) IN
           /\ IsLedger(D)
           /\ D.number = L.number /\ D.votes = L.votes /\ D.voters = L.voters
           /\ \A c \in DOMAIN D.tally : D.tally[c] > 0
<1> DEFINE D == DropEmptyTallies(L)
           empty == {c \in DOMAIN L.tally : L.tally[c] <= 0}
           shared == {v \in L.shared : L.votes[v].candidate \notin empty}
<1>1. IsMap(L.tally, Candidate, Int) /\ shared \subseteq DOMAIN L.votes
  BY DEF IsLedger
<1>2. /\ IsMap(Del(L.tally, empty), Candidate, Int)
      /\ DOMAIN Del(L.tally, empty) = DOMAIN L.tally \ empty
      /\ \A c \in DOMAIN L.tally \ empty : Del(L.tally, empty)[c] = L.tally[c]
  <2>1. IsMap(Del(L.tally, empty), Candidate, Int)
    BY <1>1, DelMap
  <2>2. /\ DOMAIN Del(L.tally, empty) = DOMAIN L.tally \ empty
        /\ \A c \in DOMAIN L.tally \ empty :
              Del(L.tally, empty)[c] = L.tally[c]
    BY DEF Del, Restrict
  <2> QED
    BY <2>1, <2>2
<1>3. \A c \in DOMAIN L.tally \ empty : L.tally[c] > 0
  BY <1>1 DEF IsMap
<1>4. D = [L EXCEPT !.tally = Del(L.tally, empty), !.shared = shared]
  BY DEF DropEmptyTallies
<1> HIDE DEF empty, shared
<1>5. /\ DOMAIN D = LedgerFields
      /\ D.tally = Del(L.tally, empty) /\ D.shared = shared
      /\ D.number = L.number /\ D.votes = L.votes /\ D.voters = L.voters
      /\ D.candidates = L.candidates /\ D.clobbered = L.clobbered
  BY <1>4 DEF IsLedger, LedgerFields
<1>6. IsLedger(D)
  BY <1>1, <1>2, <1>5 DEF IsLedger
<1> QED
  BY <1>2, <1>3, <1>5, <1>6

\* The genesis snapshot is a ledger.
LEMMA GenesisIsLedger ==
    ASSUME NEW b \in [SelfVoteSigners -> Balance]
    PROVE  LET G == GenesisLedger(b) IN
           /\ IsLedger(G)
           /\ G.number = 0 /\ ~G.clobbered
           /\ DOMAIN G.votes = SelfVoteSigners
           /\ DOMAIN G.voters = SelfVoteSigners
           /\ \A v \in SelfVoteSigners : G.voters[v] = 0
<1> USE ConstantsAssumption
<1> DEFINE G == GenesisLedger(b)
           votes == [v \in SelfVoteSigners |->
                        [candidate |-> v, stake |-> b[v]]]
           tally == [v \in SelfVoteSigners |-> b[v]]
           voters == [v \in SelfVoteSigners |-> 0]
<1>0. \A v \in SelfVoteSigners : b[v] \in Nat /\ v \in Voter /\ v \in Candidate
  OBVIOUS
<1>1. IsMap(votes, Voter, Vote) /\ DOMAIN votes = SelfVoteSigners
  <2>1. \A v \in SelfVoteSigners : [candidate |-> v, stake |-> b[v]] \in Vote
    BY <1>0 DEF Vote
  <2>2. DOMAIN votes = SelfVoteSigners /\ votes \in [SelfVoteSigners -> Vote]
    BY <2>1
  <2> QED
    BY <1>0, <2>2 DEF IsMap
<1>2. IsMap(tally, Candidate, Int) /\ IsMap(voters, Voter, Nat)
  <2>1. /\ DOMAIN tally = SelfVoteSigners /\ tally \in [SelfVoteSigners -> Int]
        /\ DOMAIN voters = SelfVoteSigners /\ voters \in [SelfVoteSigners -> Nat]
    BY <1>0
  <2> QED
    BY <1>0, <2>1 DEF IsMap
<1>3. /\ DOMAIN G = LedgerFields
      /\ G.number = 0 /\ G.votes = votes /\ G.tally = tally
      /\ G.voters = voters /\ G.candidates = SelfVoteSigners
      /\ G.shared = {} /\ G.clobbered = FALSE
  BY DEF GenesisLedger, LedgerFields
<1>4. DOMAIN voters = SelfVoteSigners /\ \A v \in SelfVoteSigners : voters[v] = 0
  OBVIOUS
<1> HIDE DEF G, votes, tally, voters
<1>5. G.clobbered \in BOOLEAN /\ ~G.clobbered
  BY <1>3, Zenon
<1>6. IsLedger(G)
  BY <1>1, <1>2, <1>3, <1>5 DEF IsLedger
<1> QED
  BY <1>1, <1>3, <1>4, <1>5, <1>6 DEF G

\* Voters is finite, so the arithmetic of updateSnapshotForExpired on the
\* lengths is the arithmetic of sets.
LEMMA VoterCounts ==
    ASSUME NEW D, D \subseteq Voter, NEW S, S \subseteq D
    PROVE  /\ IsFiniteSet(D) /\ IsFiniteSet(S)
           /\ Cardinality(D \ S) \in Nat
           /\ Cardinality(D \ S) = Cardinality(D) - Cardinality(S)
<1>1. IsFiniteSet(D) /\ IsFiniteSet(S)
  BY ConstantsAssumption, FS_Subset
<1>2. Cardinality(D) \in Nat /\ Cardinality(S) \in Nat
  BY <1>1, FS_CardinalityType
<1>3. Cardinality(D \ S) = Cardinality(D) - Cardinality(D \cap S)
  BY <1>1, FS_Difference
<1>4. D \cap S = S /\ IsFiniteSet(D \ S)
  BY <1>1, FS_Difference
<1> QED
  BY <1>1, <1>2, <1>3, <1>4, FS_CardinalityType

\* What is collected as expired: all old votes or nothing.
LEMMA ExpiredAllOrNone ==
    ASSUME NEW L, IsLedger(L), DOMAIN L.votes = DOMAIN L.voters
    PROVE  \/ /\ ExpiredVoters(L) = Old(L)
              /\ Cardinality(DOMAIN L.voters \ Old(L)) >= MaxSignerCount
           \/ /\ ExpiredVoters(L) = {}
              /\ Cardinality(DOMAIN L.voters \ Old(L)) < MaxSignerCount
<1>1. Old(L) \subseteq DOMAIN L.voters /\ DOMAIN L.voters \subseteq Voter
  BY DEF Old, IsLedger, IsMap
<1>2. /\ Cardinality(DOMAIN L.voters \ Old(L)) \in Nat
      /\ Cardinality(DOMAIN L.voters \ Old(L))
            = Cardinality(DOMAIN L.voters) - Cardinality(Old(L))
  BY <1>1, VoterCounts
<1>3. Old(L) = {v \in DOMAIN L.voters :
                   v \in DOMAIN L.votes /\ L.number - L.voters[v] > Epoch}
  BY DEF Old
<1>4. ExpiredVoters(L) =
         IF Cardinality(DOMAIN L.voters) - Cardinality(Old(L)) >= MaxSignerCount
         THEN Old(L) ELSE {}
  BY <1>3 DEF ExpiredVoters
<1> QED
  BY <1>2, <1>4, ConstantsAssumption

-----------------------------------------------------------------------------
(* Sums of stakes.  StakeFor folds over a set; what is needed of it follows  *)
(* from minimal counterexamples among the subsets of the set.                *)

\* A nonempty set of subsets of a finite set has a minimal member.
LEMMA MinimalSet ==
    ASSUME NEW S, IsFiniteSet(S), NEW B, B \subseteq SUBSET S, B # {}
    PROVE  \E T \in B : \A U \in B : U \subseteq T => U = T
<1> DEFINE R == StrictSubsetOrdering(S)
<1>1. IsWellFoundedOn(R, SUBSET S)
  BY FS_StrictSubsetOrderingWellFounded, FS_FiniteSubsetsOfFinite
<1>2. R = {ss \in (SUBSET S) \X (SUBSET S) :
              ss[1] \subseteq ss[2] /\ ss[1] # ss[2]}
  BY DEF StrictSubsetOrdering
<1> HIDE DEF R
<1>3. PICK T \in B : \A U \in B : ~(<<U, T>> \in R)
  BY <1>1, WFMin
<1>4. \A U \in B : U \subseteq T /\ U # T => <<U, T>> \in R
  BY <1>2
<1>5. \A U \in B : U \subseteq T => U = T
  BY <1>3, <1>4, Zenon
<1> QED
  BY <1>5, Zenon

\* g gives the sum of f over each subset of S, in whatever order it is added.
Additive(g, f, S) ==
    /\ g \in [SUBSET S -> Int]
    /\ g[{}] = 0
    /\ \A T \in SUBSET S : \A x \in T : g[T] = f[x] + g[T \ {x}]

\* Every function with integer values has its sums over a finite set.
LEMMA AdditiveExists ==
    ASSUME NEW S, IsFiniteSet(S), NEW f, \A x \in S : f[x] \in Int
    PROVE  \E g : Additive(g, f, S)
<1> DEFINE Bad == {T \in SUBSET S : ~\E g : Additive(g, f, T)}
<1> SUFFICES ASSUME Bad # {} PROVE FALSE
  OBVIOUS
<1>1. PICK T \in Bad : \A U \in Bad : U \subseteq T => U = T
  <2>1. Bad \subseteq SUBSET S
    OBVIOUS
  <2> HIDE DEF Bad
  <2> QED
    BY <2>1, MinimalSet
<1>2. T # {}
  <2> SUFFICES ASSUME T = {} PROVE FALSE
    OBVIOUS
  <2> DEFINE g == [U \in SUBSET T |-> 0]
  <2>1. Additive(g, f, T)
    BY DEF Additive
  <2> HIDE DEF g
  <2> QED
    BY <2>1
<1>3. PICK x \in T : TRUE
  BY <1>2
<1>4. PICK h : Additive(h, f, T \ {x})
  BY <1>1, <1>3
<1> DEFINE g == [U \in SUBSET T |-> IF x \in U THEN f[x] + h[U \ {x}] ELSE h[U]]
<1>5. f[x] \in Int /\ \A U \in SUBSET T : x \notin U => U \in SUBSET (T \ {x})
  BY <1>1
<1>6. \A U \in SUBSET T : U \ {x} \in SUBSET (T \ {x})
  OBVIOUS
<1>7. g \in [SUBSET T -> Int]
  BY <1>4, <1>5, <1>6 DEF Additive
<1>8. g[{}] = 0
  BY <1>4 DEF Additive
<1>9. ASSUME NEW U \in SUBSET T, NEW y \in U PROVE g[U] = f[y] + g[U \ {y}]
  <2>0. U \ {y} \in SUBSET T
    OBVIOUS
  <2>1. CASE y = x
    BY <2>0, <2>1, <1>6
  <2>2. CASE y # x /\ x \notin U
    <3>1. g[U] = h[U] /\ g[U \ {y}] = h[U \ {y}]
      BY <2>0, <2>2
    <3> QED
      BY <3>1, <2>2, <1>4, <1>5 DEF Additive
  <2>3. CASE y # x /\ x \in U
    <3>1. g[U] = f[x] + h[U \ {x}] /\ g[U \ {y}] = f[x] + h[(U \ {y}) \ {x}]
      BY <2>0, <2>3
    <3>2. y \in U \ {x} /\ (U \ {x}) \ {y} = (U \ {y}) \ {x}
      BY <2>3
    <3>3. h[U \ {x}] = f[y] + h[(U \ {y}) \ {x}]
      BY <3>2, <1>4, <1>6 DEF Additive
    <3>4. f[y] \in Int /\ h[(U \ {y}) \ {x}] \in Int
      BY <1>1, <1>4, <1>6, <2>0 DEF Additive
    <3> HIDE DEF g
    <3> QED
      BY <3>1, <3>3, <3>4, <1>5
  <2> QED
    BY <2>1, <2>2, <2>3
<1>10. Additive(g, f, T)
  <2> HIDE DEF g
  <2> QED
    BY <1>7, <1>8, <1>9 DEF Additive
<1> HIDE DEF g
<1> QED
  BY <1>1, <1>10

\* h sums f over subsets of S, each time in some order.
Peels(h, f, S) ==
    /\ h[{}] = 0
    /\ \A T \in SUBSET S : T # {} => \E x \in T : h[T] = f[x] + h[T \ {x}]

\* The order does not matter: there is only one sum.
LEMMA SumUnique ==
    ASSUME NEW S, IsFiniteSet(S), NEW f, NEW g, Additive(g, f, S),
           NEW h, Peels(h, f, S)
    PROVE  \A T \in SUBSET S : h[T] = g[T]
<1> DEFINE Bad == {T \in SUBSET S : h[T] # g[T]}
<1> SUFFICES ASSUME Bad # {} PROVE FALSE
  OBVIOUS
<1>1. PICK T \in Bad : \A U \in Bad : U \subseteq T => U = T
  <2>1. Bad \subseteq SUBSET S
    OBVIOUS
  <2> HIDE DEF Bad
  <2> QED
    BY <2>1, MinimalSet
<1>2. T # {}
  BY <1>1 DEF Additive, Peels
<1>3. PICK x \in T : h[T] = f[x] + h[T \ {x}]
  BY <1>2 DEF Peels
<1>4. T \ {x} \notin Bad
  BY <1>1
<1>5. h[T \ {x}] = g[T \ {x}]
  BY <1>4
<1>6. g[T] = f[x] + g[T \ {x}]
  BY DEF Additive
<1> QED
  BY <1>3, <1>5, <1>6

\* Sums of naturals are naturals.
LEMMA SumNat ==
    ASSUME NEW S, IsFiniteSet(S), NEW f, NEW g, Additive(g, f, S),
           \A x \in S : f[x] \in Nat
    PROVE  \A T \in SUBSET S : g[T] \in Nat
<1> DEFINE Bad == {T \in SUBSET S : g[T] \notin Nat}
<1> SUFFICES ASSUME Bad # {} PROVE FALSE
  OBVIOUS
<1>1. PICK T \in Bad : \A U \in Bad : U \subseteq T => U = T
  <2>1. Bad \subseteq SUBSET S
    OBVIOUS
  <2> HIDE DEF Bad
  <2> QED
    BY <2>1, MinimalSet
<1>2. T # {}
  <2>1. g[T] \notin Nat
    BY <1>1
  <2>2. g[{}] \in Nat
    BY DEF Additive
  <2> QED
    BY <2>1, <2>2, Zenon
<1>3. PICK x \in T : TRUE
  BY <1>2
<1>4. T \ {x} \notin Bad
  BY <1>1
<1>5. g[T] = f[x] + g[T \ {x}] /\ g[T \ {x}] \in Nat
  BY <1>4 DEF Additive
<1> QED
  BY <1>5

\* What StakeFor needs of a ledger.
HasStakes(L) ==
    /\ IsFiniteSet(DOMAIN L.votes)
    /\ \A v \in DOMAIN L.votes : L.votes[v].stake \in Int

StakesOf(L) == [v \in DOMAIN L.votes |-> L.votes[v].stake]

\* StakeFor, a fold in the order of CHOOSE, is the sum of the stakes.
LEMMA StakeForAdditive ==
    ASSUME NEW L, HasStakes(L), NEW c
    PROVE  \E g : /\ Additive(g, StakesOf(L), VotersOf(L, c))
                  /\ StakeFor(L, c) = g[VotersOf(L, c)]
<1> DEFINE S == VotersOf(L, c)
           f == StakesOf(L)
           Rec(h) == h = [s \in SUBSET S |->
                            IF s = {} THEN 0
                            ELSE L.votes[CHOOSE x \in s : TRUE].stake
                                 + h[s \ {CHOOSE x \in s : TRUE}]]
           iter == CHOOSE h : Rec(h)
<1>1. StakeFor(L, c) = iter[S]
  BY DEF StakeFor, MapThenSumSet, MapThenFoldSet
<1>2. /\ IsFiniteSet(S) /\ S \subseteq DOMAIN L.votes
      /\ \A x \in S : f[x] = L.votes[x].stake /\ f[x] \in Int
  BY FS_Subset DEF VotersOf, HasStakes, StakesOf
<1> HIDE DEF S, f
<1>3. PICK g : Additive(g, f, S)
  BY <1>2, AdditiveExists
<1>4. Rec(g)
  <2>2. ASSUME NEW s \in SUBSET S
        PROVE  g[s] = IF s = {} THEN 0
                      ELSE L.votes[CHOOSE x \in s : TRUE].stake
                           + g[s \ {CHOOSE x \in s : TRUE}]
    <3>1. CASE s = {}
      BY <1>3, <3>1 DEF Additive
    <3>2. CASE s # {}
      <4> DEFINE y == CHOOSE x \in s : TRUE
      <4>1. y \in s
        BY <3>2
      <4> HIDE DEF y
      <4>2. g[s] = f[y] + g[s \ {y}] /\ f[y] = L.votes[y].stake
        BY <1>2, <1>3, <4>1 DEF Additive
      <4> QED
        BY <3>2, <4>2 DEF y
    <3> QED
      BY <3>1, <3>2
  <2>3. g \in [SUBSET S -> Int]
    BY <1>3 DEF Additive
  <2> QED
    BY <2>2, <2>3
<1>5. Rec(iter)
  <2> HIDE DEF Rec
  <2> QED BY <1>4
<1> HIDE DEF iter
<1>6. Peels(iter, f, S)
  <2>1. iter[{}] = 0
    BY <1>5
  <2>2. ASSUME NEW T \in SUBSET S, T # {}
        PROVE  \E x \in T : iter[T] = f[x] + iter[T \ {x}]
    <3>1. (CHOOSE x \in T : TRUE) \in T
      BY <2>2
    <3>2. iter[T] = L.votes[CHOOSE x \in T : TRUE].stake
                                 + iter[T \ {CHOOSE x \in T : TRUE}]
      BY <2>2, <1>5
    <3> QED BY <3>1, <3>2, <1>2
  <2> QED BY <2>1, <2>2 DEF Peels
<1>7. iter[S] = g[S]
  BY <1>2, <1>3, <1>6, SumUnique
<1> QED
  BY <1>1, <1>3, <1>7 DEF S, f

\* An additive function restricted to fewer elements still peels.
LEMMA AdditivePeels ==
    ASSUME NEW S, NEW f, NEW g, Additive(g, f, S), NEW R \in SUBSET S
    PROVE  Peels(g, f, R)
  BY DEF Additive, Peels

\* No votes, no stake; and stakes that are naturals add up to one.
LEMMA StakeForNat ==
    ASSUME NEW L, HasStakes(L), NEW c
    PROVE  /\ StakeFor(L, c) \in Int
           /\ VotersOf(L, c) = {} => StakeFor(L, c) = 0
           /\ (\A v \in DOMAIN L.votes : L.votes[v].stake \in Nat)
                 => StakeFor(L, c) \in Nat
<1> DEFINE S == VotersOf(L, c)
           f == StakesOf(L)
<1>1. PICK g : Additive(g, f, S) /\ StakeFor(L, c) = g[S]
  BY StakeForAdditive
<1>2. /\ IsFiniteSet(S)
      /\ \A v \in S : v \in DOMAIN L.votes /\ f[v] = L.votes[v].stake
  BY FS_Subset DEF VotersOf, HasStakes, StakesOf
<1>3. StakeFor(L, c) \in Int /\ (S = {} => StakeFor(L, c) = 0)
  BY <1>1 DEF Additive
<1>4. ASSUME \A v \in DOMAIN L.votes : L.votes[v].stake \in Nat
      PROVE  StakeFor(L, c) \in Nat
  <2>1. \A v \in S : f[v] \in Nat
    BY <1>2, <1>4
  <2> HIDE DEF S, f
  <2> QED
    BY <1>1, <1>2, <2>1, SumNat
<1> QED
  BY <1>3, <1>4

\* The ledger without the vote of v, and what v's vote adds to candidate c.
Without(L, v) == [votes |-> [w \in DOMAIN L.votes \ {v} |-> L.votes[w]]]
LastStake(L, v, c) == IF v \in VotersOf(L, c) THEN L.votes[v].stake ELSE 0

\* The stake for c is v's part of it and that of the others.
LEMMA StakeForSplit ==
    ASSUME NEW L, HasStakes(L), NEW v, NEW c
    PROVE  /\ StakeFor(L, c) = LastStake(L, v, c) + StakeFor(Without(L, v), c)
           /\ LastStake(L, v, c) \in Int
           /\ StakeFor(Without(L, v), c) \in Int
<1> DEFINE W == Without(L, v)
           S == VotersOf(L, c)
           R == VotersOf(W, c)
<1>1. W.votes = [w \in DOMAIN L.votes \ {v} |-> L.votes[w]]
  BY DEF Without
<1>2. HasStakes(W)
  BY <1>1, FS_Subset DEF HasStakes
<1>3. /\ R = S \ {v}
      /\ \A w \in R : StakesOf(W)[w] = StakesOf(L)[w]
      /\ IsFiniteSet(R)
  BY <1>1, FS_Subset DEF VotersOf, StakesOf, HasStakes
<1>4. PICK g : Additive(g, StakesOf(L), S) /\ StakeFor(L, c) = g[S]
  BY StakeForAdditive
<1> HIDE DEF W
<1>5. PICK h : Additive(h, StakesOf(W), R) /\ StakeFor(W, c) = h[R]
  BY <1>2, StakeForAdditive
<1>6. \A x \in S : StakesOf(L)[x] = L.votes[x].stake /\ L.votes[x].stake \in Int
  BY DEF StakesOf, VotersOf, HasStakes
<1> HIDE DEF S, R
<1>7. Additive(h, StakesOf(L), R)
  BY <1>3, <1>5 DEF Additive
<1>8. Peels(g, StakesOf(L), R)
  BY <1>3, <1>4, AdditivePeels
<1>9. g[R] = h[R]
  BY <1>3, <1>7, <1>8, SumUnique
<1>10. h[R] \in Int /\ (v \in S => g[S] = StakesOf(L)[v] + g[R])
  BY <1>3, <1>4, <1>5 DEF Additive
<1>11. CASE v \in S
  BY <1>4, <1>5, <1>6, <1>9, <1>10, <1>11 DEF LastStake, W, S
<1>12. CASE v \notin S
  <2>1. R = S
    BY <1>3, <1>12
  <2> QED
    BY <2>1, <1>4, <1>5, <1>9, <1>10, <1>12 DEF LastStake, W, S
<1> QED
  BY <1>11, <1>12

\* The tally of c; a candidate without a tally has none.
TallyOf(L, c) == IF c \in DOMAIN L.tally THEN L.tally[c] ELSE 0

\* Each tally is the sum of the votes for its candidate.
Exact(L) == \A c \in Candidate : StakeFor(L, c) = TallyOf(L, c)

\* U is L with another vote of v, or none, and tallies changed to match.
Revoted(L, U, v) ==
    /\ DOMAIN U.votes \ {v} = DOMAIN L.votes \ {v}
    /\ \A w \in DOMAIN L.votes \ {v} : U.votes[w] = L.votes[w]
    /\ \A c \in Candidate : TallyOf(U, c) - LastStake(U, v, c)
                          = TallyOf(L, c) - LastStake(L, v, c)

\* Stakes and tallies of a ledger are integers.
LEMMA LedgerHasStakes ==
    ASSUME NEW L, IsLedger(L)
    PROVE  HasStakes(L) /\ \A c : TallyOf(L, c) \in Int
<1>1. /\ DOMAIN L.votes \subseteq Voter
      /\ \A v \in DOMAIN L.votes : L.votes[v] \in Vote
  BY DEF IsLedger, IsMap
<1>2. HasStakes(L)
  BY <1>1, FS_Subset, ConstantsAssumption DEF HasStakes, Vote
<1>3. \A c : TallyOf(L, c) \in Int
  BY DEF IsLedger, IsMap, TallyOf
<1> QED
  BY <1>2, <1>3

\* Tallies that change as the vote of v does stay exact.
LEMMA RevotedExact ==
    ASSUME NEW L, IsLedger(L), NEW U, IsLedger(U), NEW v,
           Revoted(L, U, v), Exact(L)
    PROVE  Exact(U)
<1>1. Without(U, v) = Without(L, v)
  BY DEF Revoted, Without
<1> SUFFICES ASSUME NEW c \in Candidate PROVE StakeFor(U, c) = TallyOf(U, c)
  BY DEF Exact
<1>2. /\ StakeFor(L, c) = LastStake(L, v, c) + StakeFor(Without(L, v), c)
      /\ StakeFor(U, c) = LastStake(U, v, c) + StakeFor(Without(U, v), c)
      /\ LastStake(L, v, c) \in Int /\ LastStake(U, v, c) \in Int
      /\ StakeFor(Without(L, v), c) \in Int
  BY LedgerHasStakes, StakeForSplit
<1>3. TallyOf(U, c) \in Int /\ TallyOf(L, c) \in Int
  BY LedgerHasStakes
<1>4. TallyOf(U, c) - LastStake(U, v, c) = TallyOf(L, c) - LastStake(L, v, c)
  BY DEF Revoted
<1>5. StakeFor(L, c) = TallyOf(L, c)
  BY DEF Exact
<1> QED
  BY <1>1, <1>2, <1>3, <1>4, <1>5

-----------------------------------------------------------------------------
(* Exact tallies. *)

\* Adding to a tally on behalf of v, unless it hits a stake of somebody else.
LEMMA AddTallyExact ==
    ASSUME NEW L, IsLedger(L), NEW v \in Voter, NEW c \in DOMAIN L.tally,
           NEW d \in Int, ~AddTally(L, v, c, d).clobbered
    PROVE  LET A == AddTally(L, v, c, d) IN
           /\ ~L.clobbered
           /\ \A w \in DOMAIN L.votes \ {v} : A.votes[w] = L.votes[w]
           /\ A.tally = [L.tally EXCEPT ![c] = L.tally[c] + d]
<1> DEFINE A == AddTally(L, v, c, d)
           t == L.tally[c] + d
           votes == [w \in DOMAIN L.votes |->
                        IF w \in SharersOf(L, c)
                        THEN [candidate |-> c, stake |-> t]
                        ELSE L.votes[w]]
<1>1. /\ A.tally = [L.tally EXCEPT ![c] = t]
      /\ A.votes = votes
      /\ A.clobbered = (L.clobbered \/ SharersOf(L, c) \ {v} # {})
  BY DEF AddTally, IsLedger, LedgerFields
<1>2. ~L.clobbered /\ SharersOf(L, c) \ {v} = {}
  BY <1>1, Zenon
<1> QED
  BY <1>1, <1>2

\* Taking back the last vote of v lowers the tally of its candidate by it.
LEMMA TakeBackExact ==
    ASSUME NEW L, IsLedger(L), NEW v \in Voter, ~LostTally(L, v),
           ~TakeBack(L, v).clobbered
    PROVE  LET T == TakeBack(L, v) IN
           /\ ~L.clobbered
           /\ \A w \in DOMAIN L.votes \ {v} : T.votes[w] = L.votes[w]
           /\ \A c \in Candidate :
                 TallyOf(T, c) = TallyOf(L, c) - LastStake(L, v, c)
<1>1. CASE v \in DOMAIN L.votes
  <2> DEFINE c0 == L.votes[v].candidate
             s0 == L.votes[v].stake
  <2>1. c0 \in DOMAIN L.tally /\ s0 \in Int /\ -s0 \in Int
    BY <1>1 DEF LostTally, IsLedger, IsMap, Vote
  <2>2. TakeBack(L, v) = AddTally(L, v, c0, -s0)
    BY <1>1 DEF TakeBack
  <2>3. \A c \in Candidate : LastStake(L, v, c) = IF c = c0 THEN s0 ELSE 0
    BY <1>1 DEF LastStake, VotersOf
  <2>4. L.tally \in [DOMAIN L.tally -> Int]
    BY DEF IsLedger, IsMap
  <2> HIDE DEF c0, s0
  <2> DEFINE T == AddTally(L, v, c0, -s0)
  <2>5. /\ ~L.clobbered
        /\ \A w \in DOMAIN L.votes \ {v} : T.votes[w] = L.votes[w]
        /\ T.tally = [L.tally EXCEPT ![c0] = L.tally[c0] + (-s0)]
    BY <2>1, <2>2, AddTallyExact
  <2> HIDE DEF T
  <2>6. ASSUME NEW c \in Candidate
        PROVE  TallyOf(T, c) = TallyOf(L, c) - LastStake(L, v, c)
    <3>1. CASE c = c0
      BY <3>1, <2>1, <2>3, <2>4, <2>5 DEF TallyOf
    <3>2. CASE c # c0
      BY <3>2, <2>1, <2>3, <2>4, <2>5 DEF TallyOf
    <3> QED
      BY <3>1, <3>2
  <2> QED
    BY <2>2, <2>5, <2>6 DEF T
<1>2. CASE v \notin DOMAIN L.votes
  <2>1. TakeBack(L, v) = L
    BY <1>2 DEF TakeBack
  <2>2. \A c \in Candidate : LastStake(L, v, c) = 0
    BY <1>2 DEF LastStake, VotersOf
  <2>3. \A c \in Candidate : TallyOf(L, c) \in Int
    BY LedgerHasStakes
  <2> QED
    BY <2>1, <2>2, <2>3
<1> QED
  BY <1>1, <1>2

\* A vote stored for v after its last one was taken back.
LEMMA StoredVote ==
    ASSUME NEW L, IsLedger(L), NEW U, IsLedger(U), NEW A, NEW v \in Voter,
           NEW c \in Candidate, NEW s \in Int,
           \A w \in DOMAIN L.votes \ {v} : A.votes[w] = L.votes[w],
           DOMAIN A.votes = DOMAIN L.votes,
           U.votes = Put(A.votes, v, [candidate |-> c, stake |-> s]),
           \A d \in Candidate :
              TallyOf(U, d) = (TallyOf(L, d) - LastStake(L, v, d))
                              + (IF d = c THEN s ELSE 0)
    PROVE  Revoted(L, U, v)
<1>1. /\ DOMAIN U.votes = DOMAIN L.votes \cup {v}
      /\ U.votes[v].candidate = c /\ U.votes[v].stake = s
      /\ \A w \in DOMAIN L.votes \ {v} : U.votes[w] = L.votes[w]
  BY DEF Put
<1>2. \A d \in Candidate : LastStake(U, v, d) = IF d = c THEN s ELSE 0
  BY <1>1 DEF LastStake, VotersOf
<1>3. \A d \in Candidate : TallyOf(U, d) - LastStake(U, v, d)
                         = TallyOf(L, d) - LastStake(L, v, d)
  <2> TAKE d \in Candidate
  <2>1. TallyOf(L, d) \in Int /\ LastStake(L, v, d) \in Int
    BY LedgerHasStakes, StakeForSplit
  <2>2. CASE d = c
    BY <2>1, <2>2, <1>2
  <2>3. CASE d # c
    BY <2>1, <2>3, <1>2
  <2> QED
    BY <2>2, <2>3
<1> QED
  BY <1>1, <1>3 DEF Revoted

\* Adding s to the tally of c changes TallyOf there and nowhere else.
LEMMA AddedTally ==
    ASSUME NEW T, IsLedger(T), NEW A, NEW c \in DOMAIN T.tally, NEW s \in Int,
           A.tally = [T.tally EXCEPT ![c] = T.tally[c] + s]
    PROVE  \A d \in Candidate :
              TallyOf(A, d) = TallyOf(T, d) + (IF d = c THEN s ELSE 0)
<1>1. T.tally \in [DOMAIN T.tally -> Int]
  BY DEF IsLedger, IsMap
<1> TAKE d \in Candidate
<1>2. CASE d = c
  BY <1>1, <1>2 DEF TallyOf
<1>3. CASE d # c
  BY <1>1, <1>3 DEF TallyOf
<1> QED
  BY <1>2, <1>3

\* A vote counts: the tallies change as the votes do.
LEMMA UpdateByVoteExact ==
    ASSUME NEW L, IsLedger(L), NEW v \in Voter, ~LostTally(L, v),
           NEW c \in Candidate, NEW s \in Nat, NEW n \in Nat,
           ~UpdateByVote(L, v, c, s, n).clobbered
    PROVE  LET U == UpdateByVote(L, v, c, s, n) IN
           /\ ~L.clobbered
           /\ Revoted(L, U, v)
           /\ U.votes[v].stake = s
           /\ U.votes = Put(L.votes, v, [candidate |-> c, stake |-> s])
<1> DEFINE T == TakeBack(L, v)
           fresh == c \notin DOMAIN T.tally
           F == [T EXCEPT !.tally = Put(T.tally, c, s),
                          !.candidates = T.candidates \cup {c}]
           A == IF fresh THEN F ELSE AddTally(T, v, c, s)
           vote == [candidate |-> c, stake |-> s]
           U == UpdateByVote(L, v, c, s, n)
<1>1. IsLedger(T) /\ DOMAIN T.votes = DOMAIN L.votes
  BY TakeBackLedger
<1>2. IsLedger(U)
  BY UpdateByVoteLedger
<1>3. U = [A EXCEPT !.votes = Put(A.votes, v, vote),
                    !.voters = Put(A.voters, v, n),
                    !.shared = IF fresh THEN A.shared \cup {v}
                               ELSE A.shared \ {v}]
  BY DEF UpdateByVote
<1>4. /\ DOMAIN F = LedgerFields
      /\ F.tally = Put(T.tally, c, s)
      /\ F.votes = T.votes /\ F.clobbered = T.clobbered
  BY <1>1 DEF IsLedger, LedgerFields
<1>5. DOMAIN A = LedgerFields /\ DOMAIN A.votes = DOMAIN L.votes
  <2>1. CASE fresh
    BY <2>1, <1>1, <1>4
  <2>2. CASE ~fresh
    BY <2>2, <1>1, AddTallyLedger DEF IsLedger
  <2> QED
    BY <2>1, <2>2
<1>6. /\ U.votes = Put(A.votes, v, vote)
      /\ U.tally = A.tally /\ U.clobbered = A.clobbered
  <2> HIDE DEF A, fresh, vote, U
  <2> QED
    BY <1>3, <1>5 DEF LedgerFields
<1>7. ~A.clobbered
  <2> HIDE DEF A, U
  <2>1. ~U.clobbered
    BY DEF U
  <2> QED
    BY <1>6, <2>1, Zenon
<1>8. /\ ~T.clobbered
      /\ \A w \in DOMAIN L.votes \ {v} : A.votes[w] = T.votes[w]
      /\ \A d \in Candidate :
            TallyOf(A, d) = TallyOf(T, d) + (IF d = c THEN s ELSE 0)
  <2>1. CASE fresh
    <3>1. A = F
      BY <2>1
    <3>2. ~T.clobbered
      BY <3>1, <1>4, <1>7, Zenon
    <3>3. T.tally \in [DOMAIN T.tally -> Int]
      BY <1>1 DEF IsLedger, IsMap
    <3> HIDE DEF A, F, T
    <3>4. \A d \in Candidate :
            TallyOf(A, d) = TallyOf(T, d) + (IF d = c THEN s ELSE 0)
      BY <2>1, <3>1, <3>3, <1>4 DEF TallyOf, Put
    <3> QED
      BY <3>1, <3>2, <3>4, <1>4
  <2>2. CASE ~fresh
    <3>1. A = AddTally(T, v, c, s) /\ c \in DOMAIN T.tally /\ s \in Int
      BY <2>2
    <3> HIDE DEF A, T
    <3>2. /\ ~T.clobbered
          /\ \A w \in DOMAIN T.votes \ {v} : A.votes[w] = T.votes[w]
          /\ A.tally = [T.tally EXCEPT ![c] = T.tally[c] + s]
      BY <3>1, <1>1, <1>7, AddTallyExact
    <3> QED
      BY <3>1, <3>2, <1>1, AddedTally
  <2> QED
    BY <2>1, <2>2
<1>9. /\ ~L.clobbered
      /\ \A w \in DOMAIN L.votes \ {v} : T.votes[w] = L.votes[w]
      /\ \A d \in Candidate : TallyOf(T, d) = TallyOf(L, d) - LastStake(L, v, d)
  BY <1>8, TakeBackExact
<1> HIDE DEF A, T, U
<1>10. \A d \in Candidate : TallyOf(U, d) = (TallyOf(L, d) - LastStake(L, v, d))
                                        + (IF d = c THEN s ELSE 0)
  BY <1>6, <1>8, <1>9 DEF TallyOf
<1>11. \A w \in DOMAIN L.votes \ {v} : A.votes[w] = L.votes[w]
  BY <1>8, <1>9
<1>12. Revoted(L, U, v)
  BY <1>2, <1>5, <1>6, <1>10, <1>11, StoredVote
<1>13. U.votes[v].stake = s
  BY <1>6 DEF Put
<1> HIDE DEF vote
<1>14. U.votes = Put(L.votes, v, vote)
  BY <1>5, <1>6, <1>11 DEF Put
<1> QED
  BY <1>9, <1>12, <1>13, <1>14 DEF U, vote

\* So does a change of balance.
LEMMA UpdateByMPVoteExact ==
    ASSUME NEW L, IsLedger(L), NEW v \in DOMAIN L.votes, ~LostTally(L, v),
           NEW s \in Nat, ~UpdateByMPVote(L, v, s).clobbered
    PROVE  LET U == UpdateByMPVote(L, v, s) IN
           /\ ~L.clobbered
           /\ Revoted(L, U, v)
           /\ U.votes[v].stake = s
           /\ U.votes = Put(L.votes, v,
                        [candidate |-> L.votes[v].candidate, stake |-> s])
<1> DEFINE c == L.votes[v].candidate
           T == TakeBack(L, v)
           A == AddTally(T, v, c, s)
           vote == [candidate |-> c, stake |-> s]
           U == UpdateByMPVote(L, v, s)
<1>1. v \in Voter /\ c \in Candidate /\ c \in DOMAIN L.tally
  BY DEF LostTally, IsLedger, IsMap, Vote
<1>2. /\ IsLedger(T)
      /\ DOMAIN T.votes = DOMAIN L.votes /\ DOMAIN T.tally = DOMAIN L.tally
  BY <1>1, TakeBackLedger
<1>3. IsLedger(U)
  BY UpdateByMPVoteLedger
<1>4. U = [A EXCEPT !.votes = Put(A.votes, v, vote), !.shared = A.shared \ {v}]
  BY DEF UpdateByMPVote
<1> HIDE DEF c, T
<1>5. DOMAIN A = LedgerFields /\ DOMAIN A.votes = DOMAIN L.votes
  BY <1>1, <1>2, AddTallyLedger DEF IsLedger
<1> HIDE DEF A, vote, U
<1>6. /\ U.votes = Put(A.votes, v, vote)
      /\ U.tally = A.tally /\ U.clobbered = A.clobbered
  BY <1>4, <1>5 DEF LedgerFields
<1>7. ~A.clobbered
  <2>1. ~U.clobbered
    BY DEF U
  <2> QED
    BY <1>6, <2>1, Zenon
<1>8. /\ ~T.clobbered
      /\ \A w \in DOMAIN T.votes \ {v} : A.votes[w] = T.votes[w]
      /\ A.tally = [T.tally EXCEPT ![c] = T.tally[c] + s]
  BY <1>1, <1>2, <1>7, AddTallyExact DEF A
<1>9. /\ ~L.clobbered
      /\ \A w \in DOMAIN L.votes \ {v} : T.votes[w] = L.votes[w]
      /\ \A d \in Candidate : TallyOf(T, d) = TallyOf(L, d) - LastStake(L, v, d)
  BY <1>1, <1>8, TakeBackExact DEF T
<1>10. \A d \in Candidate : TallyOf(U, d) = (TallyOf(L, d) - LastStake(L, v, d))
                                        + (IF d = c THEN s ELSE 0)
  <2>1. \A d \in Candidate :
            TallyOf(A, d) = TallyOf(T, d) + (IF d = c THEN s ELSE 0)
    BY <1>1, <1>2, <1>8, AddedTally
  <2> QED
    BY <2>1, <1>6, <1>9 DEF TallyOf
<1>11. \A w \in DOMAIN L.votes \ {v} : A.votes[w] = L.votes[w]
  BY <1>2, <1>8, <1>9
<1>12. Revoted(L, U, v)
  BY <1>1, <1>3, <1>5, <1>6, <1>10, <1>11, StoredVote DEF vote
<1>13. U.votes[v].stake = s
  BY <1>1, <1>6 DEF Put, vote
<1>14. U.votes = Put(L.votes, v, vote)
  BY <1>5, <1>6, <1>11 DEF Put
<1> QED
  BY <1>9, <1>12, <1>13, <1>14 DEF U, vote, c

\* And the removal of an expired vote.
LEMMA RemoveExpiredExact ==
    ASSUME NEW L, IsLedger(L), NEW v \in DOMAIN L.votes, ~LostTally(L, v),
           ~RemoveExpired(L, v).clobbered
    PROVE  LET R == RemoveExpired(L, v) IN
           ~L.clobbered /\ Revoted(L, R, v)
<1> DEFINE c == L.votes[v].candidate
           T == TakeBack(L, v)
           R == RemoveExpired(L, v)
           tally == IF T.tally[c] = 0 THEN Del(T.tally, {c}) ELSE T.tally
<1>1. v \in Voter /\ c \in Candidate /\ c \in DOMAIN L.tally
  BY DEF IsLedger, IsMap, Vote, LostTally
<1>2. /\ IsLedger(T)
      /\ DOMAIN T.votes = DOMAIN L.votes /\ DOMAIN T.tally = DOMAIN L.tally
  BY <1>1, TakeBackLedger
<1>3. R = [T EXCEPT !.tally = tally,
                    !.votes = Del(T.votes, {v}),
                    !.voters = Del(T.voters, {v}),
                    !.shared = IF T.tally[c] = 0
                               THEN T.shared \ SharersOf(T, c)
                               ELSE T.shared \ {v}]
  BY DEF RemoveExpired
<1> HIDE DEF T, tally, c
<1>4. R.tally = tally /\ R.votes = Del(T.votes, {v}) /\ R.clobbered = T.clobbered
  BY <1>2, <1>3 DEF IsLedger, LedgerFields
<1> HIDE DEF R
<1>5. ~T.clobbered
  <2>1. ~R.clobbered
    BY DEF R
  <2> QED
    BY <1>4, <2>1, Zenon
<1>6. /\ ~L.clobbered
      /\ \A w \in DOMAIN L.votes \ {v} : T.votes[w] = L.votes[w]
      /\ \A d \in Candidate : TallyOf(T, d) = TallyOf(L, d) - LastStake(L, v, d)
  BY <1>1, <1>5, TakeBackExact DEF T
<1>7. /\ DOMAIN R.votes = DOMAIN L.votes \ {v}
      /\ \A w \in DOMAIN L.votes \ {v} : R.votes[w] = L.votes[w]
  BY <1>2, <1>4, <1>6 DEF Del, Restrict
<1>8. \A d \in Candidate : LastStake(R, v, d) = 0
  BY <1>7 DEF LastStake, VotersOf
<1>9. \A d \in Candidate : TallyOf(R, d) = TallyOf(T, d)
  BY <1>1, <1>2, <1>4 DEF TallyOf, tally, Del, Restrict
<1>10. \A d \in Candidate : TallyOf(R, d) - LastStake(R, v, d)
                         = TallyOf(L, d) - LastStake(L, v, d)
  <2> TAKE d \in Candidate
  <2>1. TallyOf(L, d) \in Int /\ LastStake(L, v, d) \in Int
    BY LedgerHasStakes, StakeForSplit
  <2> QED
    BY <2>1, <1>6, <1>8, <1>9
<1> QED
  BY <1>6, <1>7, <1>10 DEF Revoted, R

\* Unless a stake was overwritten, tallies are sums of votes and no stake is
\* negative.
Sound(L) ==
    ~L.clobbered =>
        Exact(L) /\ \A v \in DOMAIN L.votes : L.votes[v].stake \in Nat

\* A ledger with the same votes and tallies is as sound.
LEMMA SameSound ==
    ASSUME NEW L, IsLedger(L), NEW U, IsLedger(U), Sound(L),
           U.votes = L.votes, U.tally = L.tally, U.clobbered = L.clobbered
    PROVE  Sound(U)
<1> SUFFICES ASSUME ~U.clobbered
             PROVE  Exact(U) /\ \A v \in DOMAIN U.votes : U.votes[v].stake \in Nat
  BY DEF Sound
<1>1. ~L.clobbered
  BY Zenon
<1>2. Exact(L) /\ \A v \in DOMAIN L.votes : L.votes[v].stake \in Nat
  BY <1>1 DEF Sound
<1>3. \A v : Revoted(L, U, v)
  BY DEF Revoted, TallyOf, LastStake, VotersOf
<1> QED
  BY <1>2, <1>3, RevotedExact

\* A new vote of v keeps a ledger sound.
LEMMA RevotedSound ==
    ASSUME NEW L, IsLedger(L), NEW U, IsLedger(U), Sound(L), NEW v,
           ~U.clobbered => /\ ~L.clobbered
                           /\ Revoted(L, U, v)
                           /\ v \in DOMAIN U.votes => U.votes[v].stake \in Nat
    PROVE  Sound(U)
<1> SUFFICES ASSUME ~U.clobbered
             PROVE  Exact(U) /\ \A w \in DOMAIN U.votes : U.votes[w].stake \in Nat
  BY DEF Sound
<1>1. Exact(L) /\ \A w \in DOMAIN L.votes : L.votes[w].stake \in Nat
  BY DEF Sound
<1>2. \A w \in DOMAIN U.votes : U.votes[w].stake \in Nat
  BY <1>1 DEF Revoted
<1> QED
  BY <1>1, <1>2, RevotedExact

\* A vote leaves a sound ledger sound; unless it overwrites a shared stake, it
\* changes no vote but that of v.
LEMMA UpdateByVoteSound ==
    ASSUME NEW L, IsLedger(L), Sound(L), NEW v \in Voter, ~LostTally(L, v),
           NEW c \in Candidate, NEW s \in Nat, NEW n \in Nat
    PROVE  LET U == UpdateByVote(L, v, c, s, n) IN
           /\ Sound(U)
           /\ ~U.clobbered =>
                 /\ ~L.clobbered
                 /\ U.votes = Put(L.votes, v, [candidate |-> c, stake |-> s])
<1> DEFINE U == UpdateByVote(L, v, c, s, n)
<1>1. IsLedger(U)
  BY UpdateByVoteLedger
<1>2. ASSUME ~U.clobbered
      PROVE  /\ ~L.clobbered
             /\ Revoted(L, U, v)
             /\ U.votes[v].stake = s
             /\ U.votes = Put(L.votes, v, [candidate |-> c, stake |-> s])
  BY <1>2, UpdateByVoteExact
<1> HIDE DEF U
<1>3. ~U.clobbered => /\ ~L.clobbered
                      /\ Revoted(L, U, v)
                      /\ v \in DOMAIN U.votes => U.votes[v].stake \in Nat
  BY <1>2
<1>4. Sound(U)
  BY <1>1, <1>3, RevotedSound
<1> QED
  BY <1>2, <1>4 DEF U

\* And so does a change of balance.
LEMMA UpdateByMPVoteSound ==
    ASSUME NEW L, IsLedger(L), Sound(L), NEW v \in DOMAIN L.votes,
           ~LostTally(L, v), NEW s \in Nat
    PROVE  LET U == UpdateByMPVote(L, v, s) IN
           /\ Sound(U)
           /\ ~U.clobbered =>
                 /\ ~L.clobbered
                 /\ U.votes = Put(L.votes, v, [candidate |-> L.votes[v].candidate,
                                               stake |-> s])
<1> DEFINE U == UpdateByMPVote(L, v, s)
           vote == [candidate |-> L.votes[v].candidate, stake |-> s]
<1>1. IsLedger(U)
  BY UpdateByMPVoteLedger
<1>2. ASSUME ~U.clobbered
      PROVE  /\ ~L.clobbered
             /\ Revoted(L, U, v)
             /\ U.votes[v].stake = s
             /\ U.votes = Put(L.votes, v, vote)
  BY <1>2, UpdateByMPVoteExact
<1> HIDE DEF U, vote
<1>3. ~U.clobbered => /\ ~L.clobbered
                      /\ Revoted(L, U, v)
                      /\ v \in DOMAIN U.votes => U.votes[v].stake \in Nat
  BY <1>2
<1>4. Sound(U)
  BY <1>1, <1>3, RevotedSound
<1> QED
  BY <1>2, <1>4 DEF U, vote

\* Dropping empty tallies keeps a ledger sound, and verifyTallyCnt accepts it.
LEMMA DropEmptySound ==
    ASSUME NEW L, IsLedger(L), Sound(L)
    PROVE  /\ Sound(DropEmptyTallies(L))
           /\ ~L.clobbered => TallyVerified(DropEmptyTallies(L))
<1> DEFINE D == DropEmptyTallies(L)
           empty == {c \in DOMAIN L.tally : L.tally[c] <= 0}
<1>1. IsLedger(D) /\ D.votes = L.votes /\ \A c \in DOMAIN D.tally : D.tally[c] > 0
  BY DropEmptyLedger
<1>2. /\ D.tally = Del(L.tally, empty) /\ D.clobbered = L.clobbered
      /\ L.tally \in [DOMAIN L.tally -> Int] /\ DOMAIN L.tally \subseteq Candidate
  BY DEF DropEmptyTallies, IsLedger, LedgerFields, IsMap
<1>3. DOMAIN D.tally = DOMAIN L.tally \ empty
      /\ \A c \in DOMAIN D.tally : D.tally[c] = L.tally[c]
  BY <1>2 DEF Del, Restrict
<1> HIDE DEF D
<1>4. ASSUME ~L.clobbered PROVE Exact(D) /\ TallyVerified(D)
  <2>1. Exact(L) /\ \A v \in DOMAIN L.votes : L.votes[v].stake \in Nat
    BY <1>4 DEF Sound
  <2>2. \A c \in Candidate : TallyOf(L, c) \in Nat
    BY <2>1, LedgerHasStakes, StakeForNat DEF Exact
  <2>3. \A c \in Candidate : TallyOf(D, c) = TallyOf(L, c)
    BY <1>2, <1>3, <2>2 DEF TallyOf
  <2>4. \A v : Revoted(L, D, v)
    BY <1>1, <2>3 DEF Revoted, LastStake, VotersOf
  <2>5. Exact(D)
    BY <1>1, <2>1, <2>4, RevotedExact
  <2>6. ASSUME NEW c \in DOMAIN D.tally
        PROVE  VotersOf(D, c) # {} /\ D.tally[c] = StakeFor(D, c)
    <3>1. c \in Candidate /\ D.tally[c] > 0
      BY <1>1, <1>2, <1>3
    <3>2. D.tally[c] = StakeFor(D, c)
      BY <2>5, <3>1 DEF Exact, TallyOf
    <3>3. StakeFor(D, c) # 0
      BY <3>1, <3>2
    <3> QED
      BY <1>1, <3>2, <3>3, LedgerHasStakes, StakeForNat
  <2> QED
    BY <2>5, <2>6 DEF TallyVerified
<1>5. Sound(D)
  <2> SUFFICES ASSUME ~D.clobbered
               PROVE  /\ Exact(D)
                      /\ \A v \in DOMAIN D.votes : D.votes[v].stake \in Nat
    BY DEF Sound
  <2>1. ~L.clobbered
    BY <1>2, Zenon
  <2> QED
    BY <1>1, <1>4, <2>1 DEF Sound
<1> QED
  BY <1>4, <1>5 DEF D

\* At genesis each candidate has its own vote.
LEMMA GenesisSound ==
    ASSUME NEW b \in [SelfVoteSigners -> Balance], IsLedger(GenesisLedger(b))
    PROVE  Sound(GenesisLedger(b))
<1> DEFINE L == GenesisLedger(b)
<1>1. /\ L.votes = [v \in SelfVoteSigners |-> [candidate |-> v, stake |-> b[v]]]
      /\ L.tally = [v \in SelfVoteSigners |-> b[v]]
  BY DEF GenesisLedger
<1> HIDE DEF L
<1>0. IsFiniteSet(SelfVoteSigners) /\ \A v \in SelfVoteSigners : b[v] \in Nat
  <2>1. SelfVoteSigners \in SUBSET Voter /\ IsFiniteSet(Voter)
    BY ConstantsAssumption
  <2>2. \A v \in SelfVoteSigners : b[v] \in Nat
    BY ConstantsAssumption
  <2> QED
    BY <2>1, <2>2, FS_Subset
<1>2. \A v \in DOMAIN L.votes : L.votes[v].stake \in Nat
  BY <1>0, <1>1
<1>3. ASSUME NEW c \in Candidate PROVE StakeFor(L, c) = TallyOf(L, c)
  <2> DEFINE W == Without(L, c)
  <2>1. /\ StakeFor(L, c) = LastStake(L, c, c) + StakeFor(W, c)
        /\ LastStake(L, c, c) \in Int
    BY LedgerHasStakes, StakeForSplit DEF L
  <2>2. W.votes = [v \in SelfVoteSigners \ {c} |->
                      [candidate |-> v, stake |-> b[v]]]
    BY <1>1 DEF Without
  <2>3. HasStakes(W)
    <3>1. IsFiniteSet(SelfVoteSigners \ {c})
      BY <1>0, FS_Subset
    <3> QED
      BY <1>0, <2>2, <3>1 DEF HasStakes
  <2>4. VotersOf(W, c) = {}
    BY <2>2 DEF VotersOf
  <2>5. StakeFor(W, c) = 0
    BY <2>3, <2>4, StakeForNat
  <2>6. LastStake(L, c, c) = TallyOf(L, c)
    BY <1>1 DEF LastStake, VotersOf, TallyOf
  <2> QED
    BY <2>1, <2>5, <2>6
<1> QED
  BY <1>2, <1>3 DEF Sound, Exact, L

-----------------------------------------------------------------------------
(* Shared stakes.  A voter that shares its stake with the tally of its       *)
(* candidate always sees that tally; the others keep the stake they gave.    *)

\* Votes for c without stake add nothing.
LEMMA StakeForZero ==
    ASSUME NEW L, HasStakes(L), NEW c,
           \A v \in VotersOf(L, c) : L.votes[v].stake = 0
    PROVE  StakeFor(L, c) = 0
<1> DEFINE S == VotersOf(L, c)
           f == StakesOf(L)
           z == [U \in SUBSET S |-> 0]
<1>1. PICK g : Additive(g, f, S) /\ StakeFor(L, c) = g[S]
  BY StakeForAdditive
<1>2. IsFiniteSet(S) /\ \A v \in S : f[v] = 0
  BY FS_Subset DEF VotersOf, HasStakes, StakesOf
<1> HIDE DEF S, f
<1>3. Additive(z, f, S)
  BY <1>2 DEF Additive
<1>4. z[S] = 0
  OBVIOUS
<1> HIDE DEF z
<1>5. Peels(z, f, S)
  BY <1>3, AdditivePeels
<1>6. z[S] = g[S]
  BY <1>1, <1>2, <1>5, SumUnique
<1> QED
  BY <1>1, <1>4, <1>6

\* The same stakes for c have the same sum.
LEMMA StakeForSame ==
    ASSUME NEW L, HasStakes(L), NEW U, HasStakes(U), NEW c,
           VotersOf(U, c) = VotersOf(L, c),
           \A v \in VotersOf(L, c) : U.votes[v].stake = L.votes[v].stake
    PROVE  StakeFor(U, c) = StakeFor(L, c)
<1> DEFINE S == VotersOf(L, c)
<1>1. PICK g : Additive(g, StakesOf(L), S) /\ StakeFor(L, c) = g[S]
  BY StakeForAdditive
<1>2. PICK h : Additive(h, StakesOf(U), S) /\ StakeFor(U, c) = h[S]
  BY StakeForAdditive
<1>3. IsFiniteSet(S) /\ \A v \in S : StakesOf(U)[v] = StakesOf(L)[v]
  BY FS_Subset DEF VotersOf, HasStakes, StakesOf
<1> HIDE DEF S
<1>4. Additive(h, StakesOf(L), S)
  BY <1>2, <1>3 DEF Additive
<1>5. Peels(h, StakesOf(L), S)
  BY <1>4, AdditivePeels
<1>6. h[S] = g[S]
  BY <1>1, <1>3, <1>5, SumUnique
<1> QED
  BY <1>1, <1>2, <1>6

\* A voter with a shared stake has a tally, and sees its value.
Linked(L) ==
    \A w \in L.shared :
        /\ L.votes[w].candidate \in DOMAIN L.tally
        /\ L.votes[w].stake = L.tally[L.votes[w].candidate]

\* Adding to a tally changes it and the stakes shared with it, no other.
LEMMA AddTallyLinked ==
    ASSUME NEW L, IsLedger(L), Linked(L), NEW v \in Voter,
           NEW c \in DOMAIN L.tally, NEW d \in Int
    PROVE  LET A == AddTally(L, v, c, d) IN
           /\ Linked(A)
           /\ A.shared = L.shared
           /\ A.tally = [L.tally EXCEPT ![c] = L.tally[c] + d]
           /\ DOMAIN A.votes = DOMAIN L.votes
           /\ \A w \in DOMAIN L.votes : A.votes[w].candidate = L.votes[w].candidate
           /\ \A w \in DOMAIN L.votes \ L.shared : A.votes[w] = L.votes[w]
<1> DEFINE A == AddTally(L, v, c, d)
           t == L.tally[c] + d
           votes == [w \in DOMAIN L.votes |->
                        IF w \in SharersOf(L, c)
                        THEN [candidate |-> c, stake |-> t]
                        ELSE L.votes[w]]
<1>1. /\ A.tally = [L.tally EXCEPT ![c] = t]
      /\ A.votes = votes /\ A.shared = L.shared
  BY DEF AddTally, IsLedger, LedgerFields
<1>2. L.shared \subseteq DOMAIN L.votes
  BY DEF IsLedger
<1> HIDE DEF A
<1>3. /\ DOMAIN A.votes = DOMAIN L.votes
      /\ \A w \in DOMAIN L.votes : A.votes[w].candidate = L.votes[w].candidate
      /\ \A w \in DOMAIN L.votes \ L.shared : A.votes[w] = L.votes[w]
  BY <1>1 DEF SharersOf
<1>4. Linked(A)
  <2> SUFFICES ASSUME NEW w \in L.shared
               PROVE  /\ A.votes[w].candidate \in DOMAIN A.tally
                      /\ A.votes[w].stake = A.tally[A.votes[w].candidate]
    BY <1>1 DEF Linked
  <2>1. /\ L.votes[w].candidate \in DOMAIN L.tally
        /\ L.votes[w].stake = L.tally[L.votes[w].candidate]
    BY DEF Linked
  <2>2. A.votes[w].candidate = L.votes[w].candidate
    BY <1>2, <1>3
  <2>3. CASE L.votes[w].candidate = c
    BY <1>1, <1>2, <2>1, <2>2, <2>3 DEF SharersOf
  <2>4. CASE L.votes[w].candidate # c
    BY <1>1, <1>2, <2>1, <2>2, <2>4 DEF SharersOf
  <2> QED
    BY <2>3, <2>4
<1> QED
  BY <1>1, <1>3, <1>4 DEF A

\* Taking back the last vote of v lowers the tally of its candidate by the
\* stake it has, be it overwritten or not.
LEMMA TakeBackLinked ==
    ASSUME NEW L, IsLedger(L), Linked(L), NEW v \in Voter, ~LostTally(L, v)
    PROVE  LET T == TakeBack(L, v) IN
           /\ Linked(T)
           /\ T.shared = L.shared
           /\ DOMAIN T.votes = DOMAIN L.votes /\ DOMAIN T.tally = DOMAIN L.tally
           /\ \A w \in DOMAIN L.votes : T.votes[w].candidate = L.votes[w].candidate
           /\ \A w \in DOMAIN L.votes \ L.shared : T.votes[w] = L.votes[w]
           /\ \A d \in Candidate :
                 TallyOf(T, d) = TallyOf(L, d) - LastStake(L, v, d)
<1>1. CASE v \in DOMAIN L.votes
  <2> DEFINE c0 == L.votes[v].candidate
             s0 == L.votes[v].stake
             T == AddTally(L, v, c0, -s0)
  <2>1. c0 \in DOMAIN L.tally /\ s0 \in Int /\ -s0 \in Int
    BY <1>1 DEF LostTally, IsLedger, IsMap, Vote
  <2>2. TakeBack(L, v) = T
    BY <1>1 DEF TakeBack
  <2>3. \A d \in Candidate : LastStake(L, v, d) = IF d = c0 THEN s0 ELSE 0
    BY <1>1 DEF LastStake, VotersOf
  <2> HIDE DEF c0, s0
  <2>4. /\ Linked(T)
        /\ T.shared = L.shared
        /\ T.tally = [L.tally EXCEPT ![c0] = L.tally[c0] + (-s0)]
        /\ DOMAIN T.votes = DOMAIN L.votes
        /\ \A w \in DOMAIN L.votes : T.votes[w].candidate = L.votes[w].candidate
        /\ \A w \in DOMAIN L.votes \ L.shared : T.votes[w] = L.votes[w]
    BY <2>1, AddTallyLinked
  <2> HIDE DEF T
  <2>5. L.tally \in [DOMAIN L.tally -> Int] /\ DOMAIN T.tally = DOMAIN L.tally
    BY <2>4 DEF IsLedger, IsMap
  <2>6. ASSUME NEW d \in Candidate
        PROVE  TallyOf(T, d) = TallyOf(L, d) - LastStake(L, v, d)
    <3>1. CASE d = c0
      BY <3>1, <2>1, <2>3, <2>4, <2>5 DEF TallyOf
    <3>2. CASE d # c0
      BY <3>2, <2>1, <2>3, <2>4, <2>5 DEF TallyOf
    <3> QED
      BY <3>1, <3>2
  <2> QED
    BY <2>2, <2>4, <2>5, <2>6
<1>2. CASE v \notin DOMAIN L.votes
  <2>1. TakeBack(L, v) = L
    BY <1>2 DEF TakeBack
  <2>2. \A d \in Candidate : LastStake(L, v, d) = 0 /\ TallyOf(L, d) \in Int
    BY <1>2, LedgerHasStakes DEF LastStake, VotersOf
  <2> QED
    BY <2>1, <2>2
<1> QED
  BY <1>1, <1>2

\* U is L with another vote of v, or none, sharing included: who shares a
\* stake with a tally sees it change, who does not keeps the vote it has, and
\* v gets a shared stake only with a tally that is new.
Changed(L, U, v) ==
    /\ Linked(U)
    /\ DOMAIN U.votes \ {v} = DOMAIN L.votes \ {v}
    /\ \A w \in DOMAIN L.votes \ {v} :
          /\ U.votes[w].candidate = L.votes[w].candidate
          /\ w \notin L.shared => U.votes[w] = L.votes[w]
    /\ \A d \in Candidate : TallyOf(U, d) - LastStake(U, v, d)
                          = TallyOf(L, d) - LastStake(L, v, d)
    /\ U.shared \ {v} \subseteq L.shared
    /\ \A w \in (L.shared \ U.shared) \ {v} :
          U.votes[w].stake = 0 /\ TallyOf(U, L.votes[w].candidate) = 0
    /\ v \in U.shared => U.votes[v].candidate \notin DOMAIN L.tally

\* A vote is such a change.
LEMMA UpdateByVoteChanged ==
    ASSUME NEW L, IsLedger(L), Linked(L), NEW v \in Voter, ~LostTally(L, v),
           NEW c \in Candidate, NEW s \in Nat, NEW n \in Nat
    PROVE  LET U == UpdateByVote(L, v, c, s, n) IN
           /\ Changed(L, U, v)
           /\ DOMAIN U.tally = DOMAIN L.tally \cup {c}
           /\ U.votes[v] = [candidate |-> c, stake |-> s]
<1> DEFINE T == TakeBack(L, v)
           fresh == c \notin DOMAIN T.tally
           F == [T EXCEPT !.tally = Put(T.tally, c, s),
                          !.candidates = T.candidates \cup {c}]
           A == IF fresh THEN F ELSE AddTally(T, v, c, s)
           vote == [candidate |-> c, stake |-> s]
           U == UpdateByVote(L, v, c, s, n)
<1>1. IsLedger(T)
  BY TakeBackLedger
<1>2. /\ Linked(T) /\ T.shared = L.shared
      /\ DOMAIN T.votes = DOMAIN L.votes /\ DOMAIN T.tally = DOMAIN L.tally
      /\ \A w \in DOMAIN L.votes : T.votes[w].candidate = L.votes[w].candidate
      /\ \A w \in DOMAIN L.votes \ L.shared : T.votes[w] = L.votes[w]
      /\ \A d \in Candidate : TallyOf(T, d) = TallyOf(L, d) - LastStake(L, v, d)
  BY TakeBackLinked
<1>3. U = [A EXCEPT !.votes = Put(A.votes, v, vote),
                    !.voters = Put(A.voters, v, n),
                    !.shared = IF fresh THEN A.shared \cup {v}
                               ELSE A.shared \ {v}]
  BY DEF UpdateByVote
<1>4. /\ DOMAIN F = LedgerFields
      /\ F.tally = Put(T.tally, c, s)
      /\ F.votes = T.votes /\ F.shared = T.shared
  BY <1>1 DEF IsLedger, LedgerFields
<1>5. T.tally \in [DOMAIN T.tally -> Int] /\ T.shared \subseteq DOMAIN T.votes
  BY <1>1 DEF IsLedger, IsMap
<1> HIDE DEF T, F
<1>6. /\ DOMAIN A = LedgerFields /\ Linked(A) /\ A.shared = T.shared
      /\ DOMAIN A.votes = DOMAIN T.votes
      /\ DOMAIN A.tally = DOMAIN T.tally \cup {c}
      /\ \A w \in DOMAIN T.votes : A.votes[w].candidate = T.votes[w].candidate
      /\ \A w \in DOMAIN T.votes \ T.shared : A.votes[w] = T.votes[w]
      /\ \A d \in Candidate :
            TallyOf(A, d) = TallyOf(T, d) + (IF d = c THEN s ELSE 0)
      /\ fresh => A.tally[c] = s
  <2>1. CASE fresh
    <3>1. A = F
      BY <2>1
    <3>2. DOMAIN A.tally = DOMAIN T.tally \cup {c} /\ A.tally[c] = s
      BY <1>4, <3>1 DEF Put
    <3>3. Linked(A)
      BY <1>2, <1>4, <2>1, <3>1 DEF Linked, Put
    <3>4. \A d \in Candidate :
            TallyOf(A, d) = TallyOf(T, d) + (IF d = c THEN s ELSE 0)
      BY <1>4, <1>5, <2>1, <3>1 DEF TallyOf, Put
    <3> QED
      BY <1>4, <3>1, <3>2, <3>3, <3>4
  <2>2. CASE ~fresh
    <3>1. A = AddTally(T, v, c, s) /\ c \in DOMAIN T.tally /\ s \in Int
      BY <2>2
    <3> DEFINE B == AddTally(T, v, c, s)
    <3>2. /\ Linked(B) /\ B.shared = T.shared
          /\ B.tally = [T.tally EXCEPT ![c] = T.tally[c] + s]
          /\ DOMAIN B.votes = DOMAIN T.votes
          /\ \A w \in DOMAIN T.votes : B.votes[w].candidate = T.votes[w].candidate
          /\ \A w \in DOMAIN T.votes \ T.shared : B.votes[w] = T.votes[w]
      BY <1>1, <1>2, <3>1, AddTallyLinked
    <3>3. DOMAIN B = LedgerFields
      BY <1>1, <3>1, AddTallyLedger DEF IsLedger
    <3> HIDE DEF B
    <3>4. \A d \in Candidate :
            TallyOf(B, d) = TallyOf(T, d) + (IF d = c THEN s ELSE 0)
      BY <1>1, <3>1, <3>2, AddedTally
    <3>5. DOMAIN B.tally = DOMAIN T.tally \cup {c}
      BY <3>1, <3>2
    <3> QED
      BY <2>2, <3>1, <3>2, <3>3, <3>4, <3>5 DEF B
  <2> QED
    BY <2>1, <2>2
<1> HIDE DEF A, U, fresh
<1>7. /\ U.votes = Put(A.votes, v, vote) /\ U.tally = A.tally
      /\ U.shared = IF fresh THEN A.shared \cup {v} ELSE A.shared \ {v}
  BY <1>3, <1>6 DEF LedgerFields
<1>8. /\ DOMAIN U.votes = DOMAIN L.votes \cup {v}
      /\ U.votes[v] = vote
      /\ \A w \in DOMAIN L.votes \ {v} : U.votes[w] = A.votes[w]
  BY <1>2, <1>6, <1>7 DEF Put
<1>9. vote.candidate = c /\ vote.stake = s
  OBVIOUS
<1> HIDE DEF vote
<1>10. Linked(U)
  <2> SUFFICES ASSUME NEW w \in U.shared
               PROVE  /\ U.votes[w].candidate \in DOMAIN U.tally
                      /\ U.votes[w].stake = U.tally[U.votes[w].candidate]
    BY DEF Linked
  <2>1. CASE w = v
    <3>1. fresh
      BY <1>7, <2>1
    <3> QED
      BY <1>6, <1>7, <1>8, <1>9, <2>1, <3>1
  <2>2. CASE w # v
    <3>1. w \in A.shared /\ w \in DOMAIN L.votes \ {v}
      BY <1>2, <1>5, <1>6, <1>7, <2>2
    <3> QED
      BY <1>6, <1>7, <1>8, <3>1 DEF Linked
  <2> QED
    BY <2>1, <2>2
<1>11. ASSUME NEW d \in Candidate
       PROVE  TallyOf(U, d) - LastStake(U, v, d) = TallyOf(L, d) - LastStake(L, v, d)
  <2>1. /\ TallyOf(U, d) = (TallyOf(L, d) - LastStake(L, v, d))
                           + (IF d = c THEN s ELSE 0)
    BY <1>2, <1>6, <1>7 DEF TallyOf
  <2>2. LastStake(U, v, d) = IF d = c THEN s ELSE 0
    BY <1>8, <1>9 DEF LastStake, VotersOf
  <2>3. TallyOf(L, d) \in Int /\ LastStake(L, v, d) \in Int
    BY LedgerHasStakes, StakeForSplit
  <2>4. CASE d = c
    BY <2>1, <2>2, <2>3, <2>4
  <2>5. CASE d # c
    BY <2>1, <2>2, <2>3, <2>5
  <2> QED
    BY <2>4, <2>5
<1>12. \A w \in DOMAIN L.votes \ {v} :
          /\ U.votes[w].candidate = L.votes[w].candidate
          /\ w \notin L.shared => U.votes[w] = L.votes[w]
  BY <1>2, <1>6, <1>8
<1>13. /\ U.shared \ {v} \subseteq L.shared /\ (L.shared \ U.shared) \ {v} = {}
       /\ v \in U.shared => U.votes[v].candidate \notin DOMAIN L.tally
  BY <1>2, <1>6, <1>7, <1>8, <1>9 DEF fresh
<1>14. Changed(L, U, v)
  BY <1>8, <1>10, <1>11, <1>12, <1>13 DEF Changed
<1> QED
  BY <1>2, <1>6, <1>7, <1>8, <1>14 DEF U, vote

\* So is a change of balance.
LEMMA UpdateByMPVoteChanged ==
    ASSUME NEW L, IsLedger(L), Linked(L), NEW v \in DOMAIN L.votes,
           ~LostTally(L, v), NEW s \in Nat
    PROVE  LET U == UpdateByMPVote(L, v, s) IN
           /\ Changed(L, U, v)
           /\ DOMAIN U.tally = DOMAIN L.tally
           /\ U.votes[v] = [candidate |-> L.votes[v].candidate, stake |-> s]
           /\ v \notin U.shared
<1> DEFINE c == L.votes[v].candidate
           T == TakeBack(L, v)
           A == AddTally(T, v, c, s)
           vote == [candidate |-> c, stake |-> s]
           U == UpdateByMPVote(L, v, s)
<1>0. v \in Voter /\ c \in Candidate /\ c \in DOMAIN L.tally /\ s \in Int
  BY DEF LostTally, IsLedger, IsMap, Vote
<1>1. IsLedger(T)
  BY <1>0, TakeBackLedger
<1>2. /\ Linked(T) /\ T.shared = L.shared
      /\ DOMAIN T.votes = DOMAIN L.votes /\ DOMAIN T.tally = DOMAIN L.tally
      /\ \A w \in DOMAIN L.votes : T.votes[w].candidate = L.votes[w].candidate
      /\ \A w \in DOMAIN L.votes \ L.shared : T.votes[w] = L.votes[w]
      /\ \A d \in Candidate : TallyOf(T, d) = TallyOf(L, d) - LastStake(L, v, d)
  BY <1>0, TakeBackLinked
<1>3. U = [A EXCEPT !.votes = Put(A.votes, v, vote), !.shared = A.shared \ {v}]
  BY DEF UpdateByMPVote
<1> HIDE DEF c, T
<1>4. /\ Linked(A) /\ A.shared = T.shared
      /\ A.tally = [T.tally EXCEPT ![c] = T.tally[c] + s]
      /\ DOMAIN A.votes = DOMAIN T.votes
      /\ \A w \in DOMAIN T.votes : A.votes[w].candidate = T.votes[w].candidate
      /\ \A w \in DOMAIN T.votes \ T.shared : A.votes[w] = T.votes[w]
  BY <1>0, <1>1, <1>2, AddTallyLinked
<1>5. DOMAIN A = LedgerFields
  BY <1>0, <1>1, <1>2, AddTallyLedger DEF IsLedger
<1>6. T.shared \subseteq DOMAIN T.votes
  BY <1>1 DEF IsLedger
<1> HIDE DEF A, U
<1>7. /\ U.votes = Put(A.votes, v, vote) /\ U.tally = A.tally
      /\ U.shared = A.shared \ {v}
  BY <1>3, <1>5 DEF LedgerFields
<1>8. /\ DOMAIN U.votes = DOMAIN L.votes
      /\ U.votes[v] = vote
      /\ \A w \in DOMAIN L.votes \ {v} : U.votes[w] = A.votes[w]
  BY <1>2, <1>4, <1>7 DEF Put
<1>9. vote.candidate = c /\ vote.stake = s
  OBVIOUS
<1> HIDE DEF vote
<1>10. Linked(U)
  BY <1>2, <1>4, <1>6, <1>7, <1>8 DEF Linked
<1>11. ASSUME NEW d \in Candidate
       PROVE  TallyOf(U, d) - LastStake(U, v, d) = TallyOf(L, d) - LastStake(L, v, d)
  <2>0. TallyOf(A, d) = TallyOf(T, d) + (IF d = c THEN s ELSE 0)
    BY <1>0, <1>1, <1>2, <1>4, AddedTally
  <2>1. /\ TallyOf(U, d) = (TallyOf(L, d) - LastStake(L, v, d))
                           + (IF d = c THEN s ELSE 0)
    BY <1>2, <1>7, <2>0 DEF TallyOf
  <2>2. LastStake(U, v, d) = IF d = c THEN s ELSE 0
    BY <1>8, <1>9 DEF LastStake, VotersOf
  <2>3. TallyOf(L, d) \in Int /\ LastStake(L, v, d) \in Int
    BY LedgerHasStakes, StakeForSplit
  <2>4. CASE d = c
    BY <1>0, <2>1, <2>2, <2>3, <2>4
  <2>5. CASE d # c
    BY <2>1, <2>2, <2>3, <2>5
  <2> QED
    BY <2>4, <2>5
<1>12. \A w \in DOMAIN L.votes \ {v} :
          /\ U.votes[w].candidate = L.votes[w].candidate
          /\ w \notin L.shared => U.votes[w] = L.votes[w]
  BY <1>2, <1>4, <1>8
<1>13. /\ U.shared \ {v} \subseteq L.shared /\ (L.shared \ U.shared) \ {v} = {}
       /\ v \notin U.shared
  BY <1>2, <1>4, <1>7
<1>14. Changed(L, U, v)
  BY <1>8, <1>10, <1>11, <1>12, <1>13 DEF Changed
<1>15. DOMAIN U.tally = DOMAIN L.tally
  BY <1>2, <1>4, <1>7
<1> QED
  BY <1>8, <1>13, <1>14, <1>15 DEF U, vote, c

\* And the removal of an expired vote.
LEMMA RemoveExpiredChanged ==
    ASSUME NEW L, IsLedger(L), Linked(L), NEW v \in DOMAIN L.votes,
           ~LostTally(L, v)
    PROVE  LET R == RemoveExpired(L, v) IN
           Changed(L, R, v) /\ v \notin DOMAIN R.votes /\ v \notin R.shared
<1> DEFINE c == L.votes[v].candidate
           T == TakeBack(L, v)
           R == RemoveExpired(L, v)
           tally == IF T.tally[c] = 0 THEN Del(T.tally, {c}) ELSE T.tally
           shared == IF T.tally[c] = 0
                     THEN T.shared \ SharersOf(T, c) ELSE T.shared \ {v}
<1>0. v \in Voter /\ c \in Candidate /\ c \in DOMAIN L.tally
  BY DEF LostTally, IsLedger, IsMap, Vote
<1>1. IsLedger(T)
  BY <1>0, TakeBackLedger
<1>2. /\ Linked(T) /\ T.shared = L.shared
      /\ DOMAIN T.votes = DOMAIN L.votes /\ DOMAIN T.tally = DOMAIN L.tally
      /\ \A w \in DOMAIN L.votes : T.votes[w].candidate = L.votes[w].candidate
      /\ \A w \in DOMAIN L.votes \ L.shared : T.votes[w] = L.votes[w]
      /\ \A d \in Candidate : TallyOf(T, d) = TallyOf(L, d) - LastStake(L, v, d)
  BY <1>0, TakeBackLinked
<1>3. R = [T EXCEPT !.tally = tally,
                    !.votes = Del(T.votes, {v}),
                    !.voters = Del(T.voters, {v}),
                    !.shared = shared]
  BY DEF RemoveExpired
<1>4. T.votes[v].candidate = c
  BY <1>2
<1> HIDE DEF T, tally, shared, c, R
<1>5. R.tally = tally /\ R.votes = Del(T.votes, {v}) /\ R.shared = shared
  BY <1>1, <1>3 DEF IsLedger, LedgerFields
<1>6. /\ DOMAIN R.votes = DOMAIN L.votes \ {v}
      /\ \A w \in DOMAIN L.votes \ {v} : R.votes[w] = T.votes[w]
  BY <1>2, <1>5 DEF Del, Restrict
<1>7. /\ v \notin R.shared /\ R.shared \subseteq T.shared
      /\ T.shared \subseteq DOMAIN T.votes
  BY <1>1, <1>4, <1>5 DEF shared, SharersOf, IsLedger
<1>8. Linked(R)
  <2> SUFFICES ASSUME NEW w \in R.shared
               PROVE  /\ R.votes[w].candidate \in DOMAIN R.tally
                      /\ R.votes[w].stake = R.tally[R.votes[w].candidate]
    BY DEF Linked
  <2>1. /\ w \in T.shared /\ w \in DOMAIN L.votes \ {v}
        /\ R.votes[w] = T.votes[w]
    BY <1>2, <1>6, <1>7
  <2>2. /\ T.votes[w].candidate \in DOMAIN T.tally
        /\ T.votes[w].stake = T.tally[T.votes[w].candidate]
    BY <1>2, <2>1 DEF Linked
  <2>3. CASE T.tally[c] = 0
    <3>1. T.votes[w].candidate # c
      BY <1>5, <2>1, <2>3 DEF shared, SharersOf
    <3> QED
      BY <1>5, <2>1, <2>2, <2>3, <3>1 DEF tally, Del, Restrict
  <2>4. CASE T.tally[c] # 0
    BY <1>5, <2>1, <2>2, <2>4 DEF tally
  <2> QED
    BY <2>3, <2>4
<1>9. \A d \in Candidate : LastStake(R, v, d) = 0
  BY <1>6 DEF LastStake, VotersOf
<1>10. \A d \in Candidate : TallyOf(R, d) = TallyOf(T, d)
  BY <1>0, <1>2, <1>5 DEF TallyOf, tally, Del, Restrict
<1>11. \A d \in Candidate : TallyOf(R, d) - LastStake(R, v, d)
                         = TallyOf(L, d) - LastStake(L, v, d)
  <2> TAKE d \in Candidate
  <2>1. TallyOf(L, d) \in Int /\ LastStake(L, v, d) \in Int
    BY LedgerHasStakes, StakeForSplit
  <2> QED
    BY <2>1, <1>2, <1>9, <1>10
<1>12. ASSUME NEW w \in (L.shared \ R.shared) \ {v}
       PROVE  R.votes[w].stake = 0 /\ TallyOf(R, L.votes[w].candidate) = 0
  <2>1. T.tally[c] = 0 /\ T.votes[w].candidate = c
    BY <1>2, <1>5, <1>12 DEF shared, SharersOf
  <2>2. w \in T.shared /\ w \in DOMAIN L.votes \ {v}
    BY <1>2, <1>7, <1>12
  <2>3. R.votes[w] = T.votes[w] /\ T.votes[w].stake = 0 /\ L.votes[w].candidate = c
    BY <1>2, <1>6, <2>1, <2>2 DEF Linked
  <2>4. TallyOf(R, c) = 0
    BY <1>0, <1>2, <1>10, <2>1 DEF TallyOf
  <2> QED
    BY <2>3, <2>4
<1>13. \A w \in DOMAIN L.votes \ {v} :
          /\ R.votes[w].candidate = L.votes[w].candidate
          /\ w \notin L.shared => R.votes[w] = L.votes[w]
  BY <1>2, <1>6
<1>14. Changed(L, R, v)
  BY <1>2, <1>6, <1>7, <1>8, <1>11, <1>12, <1>13 DEF Changed
<1> QED
  BY <1>6, <1>7, <1>14 DEF R

\* The votes of L with the stakes t instead of their own.
Given(L, t) ==
    [votes |-> [v \in DOMAIN L.votes |->
                   [candidate |-> L.votes[v].candidate, stake |-> t[v]]]]

\* t are the stakes the voters of L gave: those that share no tally still have
\* them, and a tally that is shared, by one voter then, counts them right.
Trusted(L, t) ==
    /\ Linked(L)
    /\ \A v \in DOMAIN L.votes : t[v] \in Int
    /\ \A v \in DOMAIN L.votes \ L.shared : L.votes[v].stake = t[v]
    /\ \A u \in L.shared :
          /\ L.votes[u].stake = StakeFor(Given(L, t), L.votes[u].candidate)
          /\ \A w \in DOMAIN L.votes :
                L.votes[w].candidate = L.votes[u].candidate
                   => t[w] \in Nat /\ (w \in L.shared => w = u)

\* What the votes of Given(L, t) are.
LEMMA GivenVotes ==
    ASSUME NEW L, IsLedger(L), NEW t, \A v \in DOMAIN L.votes : t[v] \in Int
    PROVE  /\ HasStakes(Given(L, t))
           /\ DOMAIN Given(L, t).votes = DOMAIN L.votes
           /\ \A v \in DOMAIN L.votes :
                 /\ Given(L, t).votes[v].candidate = L.votes[v].candidate
                 /\ Given(L, t).votes[v].stake = t[v]
           /\ \A c : VotersOf(Given(L, t), c) = VotersOf(L, c)
<1>1. IsFiniteSet(DOMAIN L.votes)
  BY LedgerHasStakes DEF HasStakes
<1> QED
  BY <1>1 DEF Given, HasStakes, VotersOf

\* A stake is at most the sum of natural stakes it is part of.
LEMMA StakeInSum ==
    ASSUME NEW L, HasStakes(L), NEW c, NEW v \in VotersOf(L, c),
           \A w \in VotersOf(L, c) : L.votes[w].stake \in Nat
    PROVE  L.votes[v].stake <= StakeFor(L, c)
<1> DEFINE S == VotersOf(L, c)
           f == StakesOf(L)
<1>1. PICK g : Additive(g, f, S) /\ StakeFor(L, c) = g[S]
  BY StakeForAdditive
<1>2. /\ IsFiniteSet(S) /\ \A w \in S : f[w] \in Nat
      /\ f[v] = L.votes[v].stake
  BY FS_Subset DEF VotersOf, HasStakes, StakesOf
<1> HIDE DEF f
<1>3. g[S \ {v}] \in Nat
  BY <1>1, <1>2, SumNat
<1>4. g[S] = f[v] + g[S \ {v}]
  BY <1>1 DEF Additive
<1> QED
  BY <1>1, <1>2, <1>3, <1>4

\* A change of v's vote that carries its stake to U keeps the stakes trusted.
LEMMA ChangedTrusted ==
    ASSUME NEW L, IsLedger(L), NEW U, IsLedger(U), NEW v, Changed(L, U, v),
           NEW t, Trusted(L, t), NEW r,
           \A w \in DOMAIN U.votes \ {v} : r[w] = t[w],
           v \in DOMAIN U.votes => r[v] \in Nat /\ U.votes[v].stake = r[v],
           v \in U.shared =>
              \A w \in DOMAIN L.votes :
                 L.votes[w].candidate = U.votes[v].candidate => t[w] = 0
    PROVE  Trusted(U, r)
<1> DEFINE P == Given(L, t)
           Q == Given(U, r)
<1>1. /\ Linked(L) /\ Linked(U)
      /\ DOMAIN U.votes \ {v} = DOMAIN L.votes \ {v}
      /\ \A w \in DOMAIN L.votes \ {v} :
            /\ U.votes[w].candidate = L.votes[w].candidate
            /\ w \notin L.shared => U.votes[w] = L.votes[w]
      /\ L.shared \subseteq DOMAIN L.votes /\ U.shared \subseteq DOMAIN U.votes
      /\ U.shared \ {v} \subseteq L.shared
      /\ \A w \in DOMAIN L.votes : L.votes[w].candidate \in Candidate
      /\ \A w \in DOMAIN U.votes : U.votes[w].candidate \in Candidate
  BY DEF Changed, Trusted, IsLedger, IsMap, Vote
<1>2. /\ \A w \in DOMAIN L.votes : t[w] \in Int
      /\ \A w \in DOMAIN L.votes \ L.shared : L.votes[w].stake = t[w]
  BY DEF Trusted
<1>3. \A w \in DOMAIN U.votes : r[w] \in Int
  BY <1>1, <1>2
<1>4. /\ HasStakes(P) /\ HasStakes(Q)
      /\ DOMAIN P.votes = DOMAIN L.votes /\ DOMAIN Q.votes = DOMAIN U.votes
      /\ \A w \in DOMAIN L.votes :
            /\ P.votes[w].candidate = L.votes[w].candidate
            /\ P.votes[w].stake = t[w]
      /\ \A w \in DOMAIN U.votes :
            /\ Q.votes[w].candidate = U.votes[w].candidate
            /\ Q.votes[w].stake = r[w]
  <2>1. /\ HasStakes(P) /\ DOMAIN P.votes = DOMAIN L.votes
        /\ \A w \in DOMAIN L.votes :
              /\ P.votes[w].candidate = L.votes[w].candidate
              /\ P.votes[w].stake = t[w]
    BY <1>2, GivenVotes
  <2>2. /\ HasStakes(Q) /\ DOMAIN Q.votes = DOMAIN U.votes
        /\ \A w \in DOMAIN U.votes :
              /\ Q.votes[w].candidate = U.votes[w].candidate
              /\ Q.votes[w].stake = r[w]
    BY <1>3, GivenVotes
  <2> QED
    BY <2>1, <2>2
<1>5. Without(Q, v) = Without(P, v)
  <2>1. \A w \in DOMAIN L.votes \ {v} : Q.votes[w] = P.votes[w]
    BY <1>1 DEF Given
  <2> HIDE DEF P, Q
  <2> QED
    BY <1>1, <1>4, <2>1 DEF Without
<1> HIDE DEF P, Q
<1>6. ASSUME NEW d \in Candidate
      PROVE  /\ StakeFor(P, d) = LastStake(P, v, d) + StakeFor(Without(P, v), d)
             /\ StakeFor(Q, d) = LastStake(Q, v, d) + StakeFor(Without(P, v), d)
             /\ LastStake(P, v, d) \in Int /\ LastStake(Q, v, d) \in Int
             /\ StakeFor(Without(P, v), d) \in Int
             /\ LastStake(Q, v, d) = LastStake(U, v, d)
             /\ TallyOf(L, d) \in Int /\ TallyOf(U, d) \in Int
             /\ LastStake(L, v, d) \in Int
             /\ TallyOf(U, d) - LastStake(U, v, d)
                   = TallyOf(L, d) - LastStake(L, v, d)
  <2>1. LastStake(Q, v, d) = LastStake(U, v, d)
    BY <1>4 DEF LastStake, VotersOf
  <2>2. /\ StakeFor(P, d) = LastStake(P, v, d) + StakeFor(Without(P, v), d)
        /\ LastStake(P, v, d) \in Int /\ StakeFor(Without(P, v), d) \in Int
    BY <1>4, StakeForSplit
  <2>3. /\ StakeFor(Q, d) = LastStake(Q, v, d) + StakeFor(Without(P, v), d)
        /\ LastStake(Q, v, d) \in Int
    BY <1>4, <1>5, StakeForSplit
  <2>4. /\ TallyOf(L, d) \in Int /\ TallyOf(U, d) \in Int
        /\ LastStake(L, v, d) \in Int
    BY LedgerHasStakes, StakeForSplit
  <2>5. TallyOf(U, d) - LastStake(U, v, d) = TallyOf(L, d) - LastStake(L, v, d)
    BY DEF Changed
  <2> QED
    BY <2>1, <2>2, <2>3, <2>4, <2>5
\* A tally that some other voter of L shares still counts right.
<1>7. ASSUME NEW u \in L.shared, u # v
      PROVE  LET d == L.votes[u].candidate IN
             /\ TallyOf(U, d) = StakeFor(Q, d)
             /\ \A w \in DOMAIN U.votes :
                   U.votes[w].candidate = d
                      => r[w] \in Nat /\ (w \in L.shared => w = u \/ w = v)
  <2> DEFINE d == L.votes[u].candidate
  <2>1. /\ d \in Candidate /\ TallyOf(L, d) = StakeFor(P, d)
        /\ \A w \in DOMAIN L.votes :
              L.votes[w].candidate = d => t[w] \in Nat /\ (w \in L.shared => w = u)
    BY <1>1, <1>7 DEF Trusted, Linked, TallyOf, P
  <2> HIDE DEF d
  <2>2. LastStake(P, v, d) = LastStake(L, v, d)
    <3>1. CASE v \in DOMAIN L.votes /\ L.votes[v].candidate = d
      <4>1. v \notin L.shared
        BY <1>7, <2>1, <3>1
      <4>2. L.votes[v].stake = t[v]
        BY <1>2, <3>1, <4>1
      <4> QED
        BY <1>4, <3>1, <4>2 DEF LastStake, VotersOf
    <3>2. CASE ~(v \in DOMAIN L.votes /\ L.votes[v].candidate = d)
      BY <1>4, <3>2 DEF LastStake, VotersOf
    <3> QED
      BY <3>1, <3>2
  <2>3. TallyOf(U, d) = StakeFor(Q, d)
    BY <1>6, <2>1, <2>2
  <2>4. \A w \in DOMAIN U.votes :
           U.votes[w].candidate = d
              => r[w] \in Nat /\ (w \in L.shared => w = u \/ w = v)
    BY <1>1, <2>1
  <2> QED
    BY <2>3, <2>4 DEF d
<1>8. ASSUME NEW w \in DOMAIN U.votes \ U.shared PROVE U.votes[w].stake = r[w]
  <2>1. CASE w = v
    BY <2>1
  <2>2. CASE w # v /\ w \notin L.shared
    BY <1>1, <1>2, <2>2
  <2>3. CASE w # v /\ w \in L.shared
    <3> DEFINE d == L.votes[w].candidate
    <3>1. /\ U.votes[w].stake = 0 /\ TallyOf(U, d) = 0
          /\ U.votes[w].candidate = d
      BY <1>1, <1>8, <2>3 DEF Changed
    <3>2. /\ TallyOf(U, d) = StakeFor(Q, d)
          /\ \A x \in DOMAIN U.votes : U.votes[x].candidate = d => r[x] \in Nat
      BY <1>7, <2>3
    <3> HIDE DEF d
    <3>3. w \in VotersOf(Q, d) /\ \A x \in VotersOf(Q, d) : Q.votes[x].stake \in Nat
      BY <1>4, <3>1, <3>2 DEF VotersOf
    <3>4. Q.votes[w].stake <= StakeFor(Q, d)
      BY <1>4, <3>3, StakeInSum
    <3>5. r[w] = 0
      BY <1>4, <3>1, <3>2, <3>3, <3>4
    <3> QED
      BY <3>1, <3>5
  <2> QED
    BY <2>1, <2>2, <2>3
<1>9. ASSUME NEW u \in U.shared
      PROVE  LET d == U.votes[u].candidate IN
             /\ U.votes[u].stake = StakeFor(Q, d)
             /\ \A w \in DOMAIN U.votes :
                   U.votes[w].candidate = d => r[w] \in Nat /\ (w \in U.shared => w = u)
  <2> DEFINE d == U.votes[u].candidate
  <2>1. u \in DOMAIN U.votes /\ d \in Candidate /\ U.votes[u].stake = TallyOf(U, d)
    BY <1>1 DEF Linked, TallyOf
  <2>2. CASE u # v
    <3>1. u \in L.shared /\ L.votes[u].candidate = d
      BY <1>1, <2>1, <2>2
    <3>2. /\ TallyOf(U, d) = StakeFor(Q, d)
          /\ \A w \in DOMAIN U.votes :
                U.votes[w].candidate = d
                   => r[w] \in Nat /\ (w \in L.shared => w = u \/ w = v)
      BY <1>7, <2>2, <3>1
    <3>3. d \in DOMAIN L.tally
      BY <1>1, <3>1 DEF Linked
    <3>4. v \in U.shared => U.votes[v].candidate # d
      BY <3>3 DEF Changed
    <3> HIDE DEF d
    <3>5. \A w \in DOMAIN U.votes :
             U.votes[w].candidate = d => r[w] \in Nat /\ (w \in U.shared => w = u)
      BY <1>1, <3>2, <3>4
    <3> QED
      BY <2>1, <3>2, <3>5 DEF d
  <2>3. CASE u = v
    <3>1. \A w \in DOMAIN L.votes : L.votes[w].candidate = d => t[w] = 0
      BY <2>3
    <3>2. d \notin DOMAIN L.tally
      BY <2>3 DEF Changed
    <3>3. U.votes[v].stake = r[v] /\ r[v] \in Nat
      BY <2>1, <2>3
    <3>4. U.votes[v].candidate = d
      BY <2>3
    <3> HIDE DEF d
    <3>5. StakeFor(Without(P, v), d) = 0
      <4> DEFINE W == Without(P, v)
      <4>1. W.votes = [w \in DOMAIN L.votes \ {v} |-> P.votes[w]]
        BY <1>4 DEF Without
      <4> HIDE DEF W
      <4>2. HasStakes(W)
        BY <1>4, <4>1, FS_Subset DEF HasStakes
      <4>3. \A w \in VotersOf(W, d) : W.votes[w].stake = 0
        BY <1>4, <3>1, <4>1 DEF VotersOf
      <4> QED
        BY <4>2, <4>3, StakeForZero DEF W
    <3>6. LastStake(Q, v, d) = r[v]
      BY <1>4, <2>1, <2>3, <3>4 DEF LastStake, VotersOf
    <3>7. StakeFor(Q, d) = r[v]
      BY <1>6, <2>1, <3>3, <3>5, <3>6
    <3>8. \A w \in DOMAIN U.votes : U.votes[w].candidate = d => r[w] \in Nat
      BY <1>1, <3>1, <3>3
    <3>9. \A w \in U.shared : U.votes[w].candidate = d => w = v
      BY <1>1, <3>2 DEF Linked
    <3> QED
      BY <2>3, <3>3, <3>7, <3>8, <3>9 DEF d
  <2> QED
    BY <2>2, <2>3
<1> QED
  BY <1>1, <1>3, <1>8, <1>9 DEF Trusted, Q

\* Stakes that verifyTallyCnt accepts are those that were given.
LEMMA VerifiedStakes ==
    ASSUME NEW L, IsLedger(L), NEW t, Trusted(L, t),
           TallyVerified(DropEmptyTallies(L))
    PROVE  \A v \in DOMAIN L.votes : L.votes[v].stake = t[v]
<1> SUFFICES ASSUME NEW v \in L.shared PROVE L.votes[v].stake = t[v]
  BY DEF Trusted
<1> DEFINE c == L.votes[v].candidate
           P == Given(L, t)
           D == DropEmptyTallies(L)
           empty == {x \in DOMAIN L.tally : L.tally[x] <= 0}
<1>1. /\ v \in DOMAIN L.votes /\ c \in DOMAIN L.tally
      /\ L.votes[v].stake = L.tally[c] /\ L.tally[c] = StakeFor(P, c)
      /\ \A w \in DOMAIN L.votes :
            L.votes[w].candidate = c => t[w] \in Nat /\ (w \in L.shared => w = v)
      /\ \A w \in DOMAIN L.votes : t[w] \in Int
      /\ \A w \in DOMAIN L.votes \ L.shared : L.votes[w].stake = t[w]
  BY DEF Trusted, Linked, IsLedger
<1>2. /\ HasStakes(P) /\ HasStakes(L) /\ VotersOf(P, c) = VotersOf(L, c)
      /\ DOMAIN P.votes = DOMAIN L.votes
      /\ \A w \in DOMAIN L.votes : /\ P.votes[w].candidate = L.votes[w].candidate
                                   /\ P.votes[w].stake = t[w]
  BY <1>1, GivenVotes, LedgerHasStakes
<1>3. /\ D.votes = L.votes
      /\ DOMAIN D.tally = DOMAIN L.tally \ empty
      /\ \A x \in DOMAIN D.tally : D.tally[x] = L.tally[x]
  BY DEF DropEmptyTallies, Del, Restrict, IsLedger, LedgerFields
<1>4. L.tally[c] \in Int
  BY <1>1 DEF IsLedger, IsMap
<1>5. TallyVerified(D)
  OBVIOUS
<1>6. v \in VotersOf(L, c)
  BY <1>1 DEF VotersOf
<1> HIDE DEF c, P, D
<1>7. CASE L.tally[c] <= 0
  <2>1. v \in VotersOf(P, c) /\ \A w \in VotersOf(P, c) : P.votes[w].stake \in Nat
    BY <1>1, <1>2, <1>6 DEF VotersOf
  <2>2. P.votes[v].stake <= StakeFor(P, c)
    BY <1>2, <2>1, StakeInSum
  <2> QED
    BY <1>1, <1>2, <1>4, <1>7, <2>1, <2>2
<1>8. CASE L.tally[c] > 0
  <2>1. c \in DOMAIN D.tally
    BY <1>1, <1>3, <1>4, <1>8
  <2>2. L.tally[c] = StakeFor(D, c)
    BY <1>3, <1>5, <2>1 DEF TallyVerified
  <2>3. StakeFor(D, c) = StakeFor(L, c)
    <3>1. HasStakes(D) /\ VotersOf(D, c) = VotersOf(L, c)
      BY <1>2, <1>3 DEF HasStakes, VotersOf
    <3> QED
      BY <1>2, <1>3, <3>1, StakeForSame
  <2> DEFINE W == Without(L, v)
             V == Without(P, v)
  <2>4. /\ StakeFor(L, c) = LastStake(L, v, c) + StakeFor(W, c)
        /\ StakeFor(W, c) \in Int /\ LastStake(L, v, c) \in Int
    BY <1>2, StakeForSplit
  <2>5. /\ StakeFor(P, c) = LastStake(P, v, c) + StakeFor(V, c)
        /\ StakeFor(V, c) \in Int /\ LastStake(P, v, c) \in Int
    BY <1>2, StakeForSplit
  <2>6. LastStake(L, v, c) = L.votes[v].stake /\ LastStake(P, v, c) = t[v]
    BY <1>1, <1>2, <1>6 DEF LastStake
  <2>7. StakeFor(V, c) = StakeFor(W, c)
    <3>1. /\ W.votes = [w \in DOMAIN L.votes \ {v} |-> L.votes[w]]
          /\ V.votes = [w \in DOMAIN L.votes \ {v} |-> P.votes[w]]
      BY <1>2 DEF Without
    <3> HIDE DEF W, V
    <3>2. IsFiniteSet(DOMAIN L.votes \ {v})
      BY <1>2, FS_Subset DEF HasStakes
    <3>3. HasStakes(W) /\ HasStakes(V)
      BY <1>2, <3>1, <3>2 DEF HasStakes
    <3>4. VotersOf(V, c) = VotersOf(W, c)
      BY <1>2, <3>1 DEF VotersOf
    <3>5. \A w \in VotersOf(W, c) : V.votes[w].stake = W.votes[w].stake
      BY <1>1, <1>2, <3>1 DEF VotersOf
    <3> QED
      BY <3>3, <3>4, <3>5, StakeForSame
  <2> HIDE DEF W, V
  <2>8. StakeFor(W, c) = 0
    BY <1>1, <1>4, <2>2, <2>3, <2>4, <2>6
  <2>9. StakeFor(P, c) = t[v]
    BY <2>5, <2>6, <2>7, <2>8
  <2> QED
    BY <1>1, <2>9
<1> QED
  BY <1>4, <1>7, <1>8

=============================================================================
