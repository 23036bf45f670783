--------------------------- MODULE BatchLedgerProofs ---------------------------
(***************************************************************************)
(* Proofs about BatchLedger: both ledgers keep their types whatever the    *)
(* order in which expired votes are removed, and a batch applied at once   *)
(* and the same headers applied one by one give the same votes, tallies    *)
(* and voters unless a stake was overwritten or a vote expired on the way. *)
(*                                                                         *)
(* The two ledgers agree on votes and voters all along, but not on the     *)
(* tallies: the stepping node drops an empty tally at the end of a header, *)
(* the other one at the end of the batch.  That the dropped tallies are    *)
(* the same in the end is because both ledgers are Sound: a tally is the   *)
(* sum of the votes, so equal votes have equal tallies.                    *)
(***************************************************************************)
EXTENDS BatchLedger, VoteOpsProofs, SequenceTheorems

-----------------------------------------------------------------------------
(* The inductive invariant. *)

Replaying == pc \in {"votes", "mpvotes"}

\* Where the two nodes are in the batch.
Numbers ==
    /\ base.number + MaxHeaders <= MaxNumber
    /\ base.number < header /\ header <= base.number + MaxHeaders
    /\ pc = "compare" => step.number = header

\* Nobody has voted in a later block, and somebody always has.
VotersPast ==
    /\ DOMAIN base.voters # {}
    /\ DOMAIN step.voters # {} /\ DOMAIN batch.voters # {}
    /\ \A v \in DOMAIN base.voters : base.voters[v] <= base.number
    /\ \A v \in DOMAIN step.voters : step.voters[v] <= header

SumsInv == Sound(step) /\ Sound(batch)

\* What the property excepts.
Plain == ~step.clobbered /\ ~batch.clobbered /\ ~ExpiryInBatch

\* A voter has the vote it had at the beginning of the batch, or a later one.
VotersKept ==
    \A v \in DOMAIN step.voters :
        \/ v \in DOMAIN base.voters /\ base.voters[v] <= step.voters[v]
        \/ base.number < step.voters[v]

\* Equal votes all along; equal tallies once both have dropped empty ones.
Agreement ==
    (Replaying \/ pc = "compare") /\ Plain =>
        /\ step.votes = batch.votes
        /\ step.voters = batch.voters
        /\ VotersKept
        /\ pc = "compare" => step.tally = batch.tally

IInv ==
    /\ TypeOK
    /\ Numbers
    /\ VotersPast
    /\ SumsInv
    /\ Agreement

-----------------------------------------------------------------------------
(* The walk over the expired votes. *)

\* A nonempty set of naturals has a least element.
LEMMA LeastExists ==
    ASSUME NEW S, S \subseteq Nat, S # {}
    PROVE  \E i \in S : \A j \in S : i <= j
<1> DEFINE R == OpToRel(<, Nat)
<1>1. IsWellFoundedOn(R, Nat)
  BY NatLessThanWellFounded
<1>2. R = {ss \in Nat \X Nat : ss[1] < ss[2]}
  BY DEF OpToRel
<1> HIDE DEF R
<1>3. PICK x \in S : \A y \in S : ~(<<y, x>> \in R)
  BY <1>1, WFMin
<1>4. \A y \in S : y < x => <<y, x>> \in R
  BY <1>2
<1>5. \A y \in S : ~(y < x)
  BY <1>3, <1>4, Zenon
<1> QED
  BY <1>5

\* An order names every expired vote once.
LEMMA OrderOfSet ==
    ASSUME NEW S, IsFiniteSet(S), NEW order \in Orders(S)
    PROVE  /\ Len(order) \in Nat
           /\ order \in [1..Len(order) -> S]
           /\ \A i, j \in 1..Len(order) : order[i] = order[j] => i = j
           /\ \A v \in S : \E i \in 1..Len(order) : order[i] = v
           /\ S = {} => Len(order) = 0
<1> DEFINE n == Cardinality(S)
<1>1. n \in Nat /\ (S = {} => n = 0)
  BY FS_CardinalityType, FS_EmptySet
<1>2. /\ order \in [1..n -> S]
      /\ \A i, j \in 1..n : order[i] = order[j] => i = j
      /\ \A v \in S : \E i \in 1..n : order[i] = v
  BY DEF Orders, Bijection, Injection, Surjection, IsInjective
<1> HIDE DEF n
<1>3. order \in Seq(S)
  BY <1>1, <1>2, SeqDef
<1>4. Len(order) \in Nat /\ DOMAIN order = 1..Len(order)
  BY <1>3, LenProperties
<1>5. 1..Len(order) = 1..n
  BY <1>2, <1>4
<1>6. Len(order) = n
  <2> DEFINE k == Len(order)
  <2>1. k \in Nat /\ n \in Nat
    BY <1>1, <1>4
  <2> HIDE DEF k
  <2>2. ASSUME k < n PROVE FALSE
    <3>1. n \in 1..n /\ n \notin 1..k
      BY <2>1, <2>2
    <3> QED
      BY <1>5, <3>1 DEF k
  <2>3. ASSUME n < k PROVE FALSE
    <3>1. k \in 1..k /\ k \notin 1..n
      BY <2>1, <2>3
    <3> QED
      BY <1>5, <3>1 DEF k
  <2> QED
    BY <2>1, <2>2, <2>3 DEF k
<1> QED
  BY <1>1, <1>2, <1>6

\* after is the ledger after 0, 1, ... and m removals.
Walks(after, L, order, m) ==
    after = [i \in 0..m |->
                IF i = 0 THEN L ELSE RemoveExpired(after[i - 1], order[i])]

\* There is a walk of every length.
LEMMA WalkExists ==
    ASSUME NEW L, NEW order, NEW n \in Nat
    PROVE  \E after : Walks(after, L, order, n)
<1> DEFINE Bad == {m \in Nat : ~\E after : Walks(after, L, order, m)}
<1> SUFFICES ASSUME Bad # {} PROVE FALSE
  OBVIOUS
<1>1. PICK m \in Bad : \A k \in Bad : m <= k
  <2>1. Bad \subseteq Nat
    OBVIOUS
  <2> HIDE DEF Bad
  <2> QED
    BY <2>1, LeastExists
<1>2. m # 0
  <2> SUFFICES ASSUME m = 0 PROVE FALSE
    OBVIOUS
  <2> DEFINE g == [i \in 0..0 |-> L]
  <2>1. Walks(g, L, order, 0)
    BY DEF Walks
  <2> HIDE DEF g
  <2> QED
    BY <1>1, <2>1
<1>3. m - 1 \in Nat /\ m - 1 \notin Bad
  BY <1>1, <1>2
<1>4. PICK h : Walks(h, L, order, m - 1)
  BY <1>3
<1> DEFINE g == [i \in 0..m |-> IF i = m THEN RemoveExpired(h[m - 1], order[m])
                                         ELSE h[i]]
<1>5. \A i \in 0..m - 1 :
         h[i] = IF i = 0 THEN L ELSE RemoveExpired(h[i - 1], order[i])
  BY <1>4, <1>3 DEF Walks
<1>6. \A i \in 0..m - 1 : g[i] = h[i]
  BY <1>1, <1>3
<1>7. \A i \in 0..m :
         g[i] = IF i = 0 THEN L ELSE RemoveExpired(g[i - 1], order[i])
  <2> TAKE i \in 0..m
  <2>1. CASE i = m
    <3>1. g[i] = RemoveExpired(h[m - 1], order[m]) /\ g[m - 1] = h[m - 1]
      BY <1>2, <1>3, <1>6, <2>1
    <3> HIDE DEF g
    <3> QED
      BY <1>2, <2>1, <3>1
  <2>2. CASE i # m
    <3>1. i \in 0..m - 1 /\ (i # 0 => i - 1 \in 0..m - 1)
      BY <1>3, <2>2
    <3> HIDE DEF g
    <3> QED
      BY <1>5, <1>6, <3>1
  <2> QED
    BY <2>1, <2>2
<1>8. Walks(g, L, order, m)
  <2>1. DOMAIN g = 0..m /\ g = [i \in 0..m |-> g[i]]
    OBVIOUS
  <2> HIDE DEF g
  <2> QED
    BY <1>7, <2>1 DEF Walks
<1> HIDE DEF g
<1> QED
  BY <1>1, <1>8

\* Removing is such a walk.
LEMMA RemovingWalks ==
    ASSUME NEW L, NEW order, Len(order) \in Nat
    PROVE  LET after == Removing(L, order) IN
           /\ after[0] = L
           /\ \A i \in 1..Len(order) :
                 after[i] = RemoveExpired(after[i - 1], order[i])
<1> DEFINE n == Len(order)
           after == Removing(L, order)
<1>1. \E g : Walks(g, L, order, n)
  BY WalkExists
<1>2. after = CHOOSE g : Walks(g, L, order, n)
  BY DEF Removing, Walks
<1>3. Walks(after, L, order, n)
  BY <1>1, <1>2
<1> HIDE DEF after
<1>4. \A i \in 0..n :
         after[i] = IF i = 0 THEN L ELSE RemoveExpired(after[i - 1], order[i])
  BY <1>3 DEF Walks
<1> QED
  BY <1>4 DEF after

\* The walk of an accepted order keeps the ledger a ledger, and sound, and
\* removes exactly the voters it meets.
LEMMA WalkLedger ==
    ASSUME NEW L, IsLedger(L), Sound(L),
           NEW S, IsFiniteSet(S), S \subseteq DOMAIN L.votes,
           NEW order \in Orders(S), ~RemovalPanics(L, order)
    PROVE  LET R == Removing(L, order)[Len(order)] IN
           /\ IsLedger(R) /\ Sound(R)
           /\ R.number = L.number
           /\ DOMAIN R.voters = DOMAIN L.voters \ S
           /\ \A v \in DOMAIN R.voters : R.voters[v] = L.voters[v]
           /\ ~R.clobbered => ~L.clobbered
<1> DEFINE n == Len(order)
           after == Removing(L, order)
           Met(i) == {order[j] : j \in 1..i}
           Good(i) ==
               /\ IsLedger(after[i]) /\ Sound(after[i])
               /\ after[i].number = L.number
               /\ DOMAIN after[i].votes = DOMAIN L.votes \ Met(i)
               /\ DOMAIN after[i].voters = DOMAIN L.voters \ Met(i)
               /\ \A v \in DOMAIN after[i].voters : after[i].voters[v] = L.voters[v]
               /\ ~after[i].clobbered => ~L.clobbered
<1>1. /\ n \in Nat /\ order \in [1..n -> S]
      /\ \A i, j \in 1..n : order[i] = order[j] => i = j
      /\ \A v \in S : \E i \in 1..n : order[i] = v
  BY OrderOfSet
<1>2. /\ after[0] = L
      /\ \A i \in 1..n : after[i] = RemoveExpired(after[i - 1], order[i])
  BY <1>1, RemovingWalks
<1>3. \A i \in 1..n : ~LostTally(after[i - 1], order[i])
  BY DEF RemovalPanics
<1> HIDE DEF after
<1>4. Good(0)
  BY <1>2
<1>5. ASSUME NEW i \in 1..n, Good(i - 1) PROVE Good(i)
  <2> DEFINE P == after[i - 1]
             R == after[i]
             v == order[i]
  <2>1. R = RemoveExpired(P, v) /\ ~LostTally(P, v)
    BY <1>2, <1>3
  <2>2. v \notin Met(i - 1) /\ Met(i) = Met(i - 1) \cup {v}
    BY <1>1
  <2>3. v \in DOMAIN P.votes
    BY <1>1, <1>5, <2>2
  <2> HIDE DEF P, R, v, Met
  <2>4. /\ IsLedger(P) /\ Sound(P) /\ P.number = L.number
        /\ DOMAIN P.votes = DOMAIN L.votes \ Met(i - 1)
        /\ DOMAIN P.voters = DOMAIN L.voters \ Met(i - 1)
        /\ \A w \in DOMAIN P.voters : P.voters[w] = L.voters[w]
        /\ ~P.clobbered => ~L.clobbered
    BY <1>5 DEF P
  <2>5. /\ IsLedger(R) /\ R.number = P.number
        /\ DOMAIN R.votes = DOMAIN P.votes \ {v}
        /\ R.voters = Del(P.voters, {v})
    BY <2>1, <2>3, <2>4, RemoveExpiredLedger
  <2>6. /\ DOMAIN R.voters = DOMAIN P.voters \ {v}
        /\ \A w \in DOMAIN R.voters : R.voters[w] = P.voters[w]
    BY <2>5 DEF Del, Restrict
  <2>7. ~R.clobbered => ~P.clobbered /\ Revoted(P, R, v)
    BY <2>1, <2>3, <2>4, RemoveExpiredExact
  <2>8. v \notin DOMAIN R.votes
    BY <2>5
  <2>9. Sound(R)
    BY <2>4, <2>5, <2>7, <2>8, RevotedSound
  <2>10. ~R.clobbered => ~L.clobbered
    BY <2>4, <2>7
  <2>11. /\ DOMAIN R.votes = DOMAIN L.votes \ Met(i)
         /\ DOMAIN R.voters = DOMAIN L.voters \ Met(i)
         /\ \A w \in DOMAIN R.voters : R.voters[w] = L.voters[w]
    BY <2>2, <2>4, <2>5, <2>6
  <2> QED
    BY <2>4, <2>5, <2>9, <2>10, <2>11 DEF R
<1> HIDE DEF Good
<1>6. Good(n)
  <2> DEFINE Bad == {i \in 0..n : ~Good(i)}
  <2> SUFFICES ASSUME Bad # {} PROVE FALSE
    BY <1>1
  <2>1. PICK i \in Bad : \A j \in Bad : i <= j
    <3>1. Bad \subseteq Nat
      BY <1>1
    <3> HIDE DEF Bad
    <3> QED
      BY <3>1, LeastExists
  <2>2. i \in 1..n /\ i - 1 \in 0..n
    BY <1>1, <1>4, <2>1
  <2>3. Good(i - 1)
    BY <2>1, <2>2
  <2> QED
    BY <1>5, <2>1, <2>2, <2>3
<1>7. Met(n) = S
  BY <1>1
<1> QED
  BY <1>6, <1>7 DEF Good, after

-----------------------------------------------------------------------------
(* The end of apply. *)

\* Removing candidates and taking a number leaves votes and tallies alone.
LEMMA ReplayedLedger ==
    ASSUME NEW L, IsLedger(L), Sound(L), NEW extra, NEW n \in Nat
    PROVE  /\ LET W == WithoutExtra(L, extra) IN
              /\ IsLedger(W) /\ Sound(W)
              /\ W.number = L.number /\ W.votes = L.votes
              /\ W.voters = L.voters /\ W.clobbered = L.clobbered
           /\ LET N == Replayed(L, extra, n) IN
              /\ IsLedger(N) /\ Sound(N)
              /\ N.number = n /\ N.votes = L.votes /\ N.tally = L.tally
              /\ N.voters = L.voters /\ N.clobbered = L.clobbered
<1> DEFINE W == WithoutExtra(L, extra)
           N == Replayed(L, extra, n)
<1>1. /\ DOMAIN W = LedgerFields
      /\ W.number = L.number /\ W.votes = L.votes /\ W.tally = L.tally
      /\ W.voters = L.voters /\ W.candidates = L.candidates \ extra
      /\ W.shared = L.shared /\ W.clobbered = L.clobbered
  BY DEF WithoutExtra, IsLedger, LedgerFields
<1>2. N = [W EXCEPT !.number = n]
  BY DEF Replayed
<1> HIDE DEF W
<1>3. IsLedger(W)
  BY <1>1 DEF IsLedger
<1>4. /\ DOMAIN N = LedgerFields
      /\ N.number = n /\ N.votes = L.votes /\ N.tally = L.tally
      /\ N.voters = L.voters /\ N.candidates = L.candidates \ extra
      /\ N.shared = L.shared /\ N.clobbered = L.clobbered
  BY <1>1, <1>2 DEF LedgerFields
<1> HIDE DEF N
<1>5. IsLedger(N)
  BY <1>4 DEF IsLedger
<1>6. Sound(W) /\ Sound(N)
  BY <1>1, <1>3, <1>4, <1>5, SameSound
<1> QED
  BY <1>1, <1>3, <1>4, <1>5, <1>6 DEF W, N

\* The votes that expire are votes, and never all of them.
LEMMA ExpiredSome ==
    ASSUME NEW L, IsLedger(L), DOMAIN L.voters # {}
    PROVE  /\ ExpiredVoters(L) \subseteq DOMAIN L.votes
           /\ IsFiniteSet(ExpiredVoters(L))
           /\ DOMAIN L.voters \ ExpiredVoters(L) # {}
           /\ (\A v \in DOMAIN L.voters : L.number - L.voters[v] <= Epoch)
                 => ExpiredVoters(L) = {}
<1> DEFINE old == {v \in DOMAIN L.voters :
                     v \in DOMAIN L.votes /\ L.number - L.voters[v] > Epoch}
<1>1. old \subseteq DOMAIN L.voters /\ DOMAIN L.voters \subseteq Voter
  BY DEF IsLedger, IsMap
<1>2. /\ IsFiniteSet(old)
      /\ Cardinality(DOMAIN L.voters \ old) \in Nat
      /\ Cardinality(DOMAIN L.voters \ old)
            = Cardinality(DOMAIN L.voters) - Cardinality(old)
  BY <1>1, VoterCounts
<1>3. ExpiredVoters(L) =
         IF Cardinality(DOMAIN L.voters) - Cardinality(old) >= MaxSignerCount
         THEN old ELSE {}
  BY DEF ExpiredVoters
<1>4. old \subseteq DOMAIN L.votes
  OBVIOUS
<1>5. (\A v \in DOMAIN L.voters : L.number - L.voters[v] <= Epoch) => old = {}
  <2>1. \A v \in DOMAIN L.voters : L.number \in Nat /\ L.voters[v] \in Nat
    BY DEF IsLedger, IsMap
  <2> QED
    BY <2>1, ConstantsAssumption
<1> HIDE DEF old
<1>6. DOMAIN L.voters \ old = {} => Cardinality(DOMAIN L.voters \ old) = 0
  BY FS_EmptySet
<1>7. CASE Cardinality(DOMAIN L.voters) - Cardinality(old) >= MaxSignerCount
  <2>1. ExpiredVoters(L) = old
    BY <1>3, <1>7
  <2>2. DOMAIN L.voters \ old # {}
    BY <1>2, <1>6, <1>7, ConstantsAssumption
  <2> QED
    BY <1>2, <1>4, <1>5, <2>1, <2>2
<1>8. CASE ~(Cardinality(DOMAIN L.voters) - Cardinality(old) >= MaxSignerCount)
  <2>1. ExpiredVoters(L) = {}
    BY <1>3, <1>8
  <2> QED
    BY <2>1, FS_EmptySet
<1> QED
  BY <1>7, <1>8

\* What apply returns: a sound ledger with some of the voters; and all of the
\* votes, with the tallies that are not empty, when none is too old.
LEMMA FinishedLedger ==
    ASSUME NEW L, IsLedger(L), Sound(L), DOMAIN L.voters # {},
           NEW order \in Orders(ExpiredVoters(L)), ~RemovalPanics(L, order)
    PROVE  LET F == Finished(L, order) IN
           /\ IsLedger(F) /\ Sound(F)
           /\ F.number = L.number
           /\ DOMAIN F.voters # {}
           /\ \A v \in DOMAIN F.voters :
                 v \in DOMAIN L.voters /\ F.voters[v] = L.voters[v]
           /\ ~F.clobbered => ~L.clobbered
           /\ \A c \in DOMAIN F.tally : F.tally[c] > 0
           /\ (\A v \in DOMAIN L.voters : L.number - L.voters[v] <= Epoch)
                 => F.votes = L.votes /\ F.voters = L.voters
<1> DEFINE S == ExpiredVoters(L)
           R == Removing(L, order)[Len(order)]
           F == DropEmptyTallies(R)
<1>1. /\ S \subseteq DOMAIN L.votes /\ IsFiniteSet(S)
      /\ DOMAIN L.voters \ S # {}
      /\ (\A v \in DOMAIN L.voters : L.number - L.voters[v] <= Epoch) => S = {}
  BY ExpiredSome
<1>2. /\ IsLedger(R) /\ Sound(R)
      /\ R.number = L.number
      /\ DOMAIN R.voters = DOMAIN L.voters \ S
      /\ \A v \in DOMAIN R.voters : R.voters[v] = L.voters[v]
      /\ ~R.clobbered => ~L.clobbered
  BY <1>1, WalkLedger
<1>3. S = {} => R = L
  BY <1>1, OrderOfSet, RemovingWalks
<1> HIDE DEF S, R
<1>4. /\ IsLedger(F) /\ Sound(F)
      /\ F.number = R.number /\ F.votes = R.votes /\ F.voters = R.voters
      /\ \A c \in DOMAIN F.tally : F.tally[c] > 0
  BY <1>2, DropEmptyLedger, DropEmptySound
<1>5. F.clobbered = R.clobbered
  BY <1>2 DEF DropEmptyTallies, IsLedger, LedgerFields
<1>6. Finished(L, order) = F
  BY DEF Finished, R
<1> HIDE DEF F
<1>7. ~F.clobbered => ~L.clobbered
  BY <1>2, <1>5, Zenon
<1>8. S = {} => F.votes = L.votes /\ F.voters = L.voters
  BY <1>3, <1>4
<1> QED
  BY <1>1, <1>2, <1>4, <1>6, <1>7, <1>8

\* Sound ledgers with the same votes have the same tallies, once the empty
\* ones are gone.
LEMMA SameTallies ==
    ASSUME NEW S, IsLedger(S), Sound(S), ~S.clobbered,
           NEW B, IsLedger(B), Sound(B), ~B.clobbered,
           S.votes = B.votes,
           \A c \in DOMAIN S.tally : S.tally[c] > 0,
           \A c \in DOMAIN B.tally : B.tally[c] > 0
    PROVE  S.tally = B.tally
<1>1. ASSUME NEW c \in Candidate PROVE TallyOf(S, c) = TallyOf(B, c)
  <2>1. /\ StakeFor(S, c) = LastStake(S, 0, c) + StakeFor(Without(S, 0), c)
        /\ StakeFor(B, c) = LastStake(B, 0, c) + StakeFor(Without(B, 0), c)
    BY LedgerHasStakes, StakeForSplit
  <2>2. Without(S, 0) = Without(B, 0) /\ LastStake(S, 0, c) = LastStake(B, 0, c)
    BY DEF Without, LastStake, VotersOf
  <2>3. StakeFor(S, c) = StakeFor(B, c)
    BY <2>1, <2>2
  <2>4. Exact(S) /\ Exact(B)
    BY DEF Sound
  <2> QED
    BY <2>3, <2>4 DEF Exact
<1>2. /\ DOMAIN S.tally \subseteq Candidate /\ S.tally \in [DOMAIN S.tally -> Int]
      /\ DOMAIN B.tally \subseteq Candidate /\ B.tally \in [DOMAIN B.tally -> Int]
  BY DEF IsLedger, IsMap
<1>3. DOMAIN S.tally = DOMAIN B.tally
  BY <1>1, <1>2 DEF TallyOf
<1>4. \A c \in DOMAIN S.tally : S.tally[c] = B.tally[c]
  BY <1>1, <1>2, <1>3 DEF TallyOf
<1> QED
  BY <1>2, <1>3, <1>4

-----------------------------------------------------------------------------
(* The invariant is inductive. *)

\* Two nodes at genesis satisfy it.
LEMMA InitInv == Init => IInv
<1> SUFFICES ASSUME Init PROVE IInv
  OBVIOUS
<1>1. PICK b \in [SelfVoteSigners -> Balance] : base = GenesisLedger(b)
  BY DEF Init
<1>2. /\ IsLedger(base) /\ base.number = 0
      /\ DOMAIN base.voters = SelfVoteSigners
      /\ \A v \in DOMAIN base.voters : base.voters[v] = 0
  BY <1>1, GenesisIsLedger
<1>3. step = base /\ batch = base /\ pc = "votes" /\ header = 1
  BY DEF Init
<1>4. TypeOK
  BY <1>2, <1>3, EmptyMap, BoundsAssumption, ConstantsAssumption DEF Init, TypeOK
<1>5. Numbers
  BY <1>2, <1>3, BoundsAssumption DEF Numbers
<1>6. VotersPast
  BY <1>2, <1>3, SignersAssumption DEF VotersPast
<1>7. SumsInv
  BY <1>1, <1>2, <1>3, GenesisSound DEF SumsInv
<1>8. Agreement
  BY <1>2, <1>3 DEF Agreement, VotersKept
<1> QED
  BY <1>4, <1>5, <1>6, <1>7, <1>8 DEF IInv

\* Both nodes count a vote of the header.
LEMMA ReplayVoteInv == IInv /\ ReplayVote => IInv'
<1> SUFFICES ASSUME IInv, ReplayVote PROVE IInv'
  OBVIOUS
<1>1. PICK v \in Voter, c \in Candidate, s \in Balance :
         /\ balance' = Put(balance, v, s)
         /\ IF LostTally(step, v) \/ LostTally(batch, v)
            THEN pc' = "stopped" /\ UNCHANGED <<step, batch>>
            ELSE /\ pc' = pc
                 /\ step' = UpdateByVote(step, v, c, s, header)
                 /\ batch' = UpdateByVote(batch, v, c, s, header)
  BY DEF ReplayVote
<1>2. /\ pc = "votes" /\ voted' = voted + 1 /\ voted < MaxVotes
      /\ base' = base /\ header' = header /\ oldVoters' = oldVoters
  BY DEF ReplayVote
<1>3. /\ IsLedger(step) /\ IsLedger(batch) /\ IsLedger(base)
      /\ header \in 0..MaxNumber /\ voted \in 0..MaxVotes
      /\ IsMap(balance, Voter, Balance) /\ oldVoters \subseteq Voter
  BY DEF IInv, TypeOK
<1>4. s \in Nat /\ header \in Nat /\ MaxVotes \in Nat
  BY <1>3, ConstantsAssumption, BoundsAssumption
<1>5. IsMap(balance', Voter, Balance) /\ voted' \in 0..MaxVotes
  <2>1. IsMap(Put(balance, v, s), Voter, Balance)
    BY <1>3, PutMap
  <2> QED
    BY <1>1, <1>2, <1>3, <1>4, <2>1
<1>6. CASE pc' = "stopped" /\ step' = step /\ batch' = batch
  BY <1>2, <1>3, <1>5, <1>6
     DEF IInv, TypeOK, Numbers, VotersPast, SumsInv, Agreement, Replaying
<1>7. CASE /\ ~LostTally(step, v) /\ ~LostTally(batch, v)
           /\ pc' = pc
           /\ step' = UpdateByVote(step, v, c, s, header)
           /\ batch' = UpdateByVote(batch, v, c, s, header)
  <2>1. Sound(step) /\ Sound(batch)
    BY DEF IInv, SumsInv
  <2>2. /\ IsLedger(step') /\ step'.number = step.number
        /\ step'.voters = Put(step.voters, v, header)
    BY <1>3, <1>4, <1>7, UpdateByVoteLedger
  <2>3. IsLedger(batch') /\ batch'.voters = Put(batch.voters, v, header)
    BY <1>3, <1>4, <1>7, UpdateByVoteLedger
  <2>4. /\ Sound(step')
        /\ ~step'.clobbered =>
              /\ ~step.clobbered
              /\ step'.votes = Put(step.votes, v, [candidate |-> c, stake |-> s])
    BY <1>3, <1>4, <1>7, <2>1, UpdateByVoteSound
  <2>5. /\ Sound(batch')
        /\ ~batch'.clobbered =>
              /\ ~batch.clobbered
              /\ batch'.votes = Put(batch.votes, v, [candidate |-> c, stake |-> s])
    BY <1>3, <1>4, <1>7, <2>1, UpdateByVoteSound
  <2>6. /\ DOMAIN step'.voters = DOMAIN step.voters \cup {v}
        /\ step'.voters[v] = header
        /\ \A w \in DOMAIN step.voters \ {v} : step'.voters[w] = step.voters[w]
    BY <2>2 DEF Put
  <2>7. TypeOK'
    BY <1>2, <1>3, <1>5, <1>7, <2>2, <2>3 DEF IInv, TypeOK
  <2>8. Numbers'
    BY <1>2, <1>7, <2>2 DEF IInv, Numbers
  <2>9. VotersPast'
    <3>1. DOMAIN batch'.voters # {}
      BY <2>3 DEF Put
    <3> QED
      BY <1>2, <1>4, <2>6, <3>1 DEF IInv, VotersPast
  <2>10. SumsInv'
    BY <2>4, <2>5 DEF SumsInv
  <2>11. Agreement'
    <3> SUFFICES ASSUME Plain'
                 PROVE  /\ step'.votes = batch'.votes
                        /\ step'.voters = batch'.voters
                        /\ VotersKept'
      BY <1>2, <1>7 DEF Agreement
    <3>1. Plain
      BY <1>2, <2>4, <2>5 DEF Plain, ExpiryInBatch
    <3>2. step.votes = batch.votes /\ step.voters = batch.voters /\ VotersKept
      BY <1>2, <3>1 DEF IInv, Agreement, Replaying
    <3>3. step'.votes = batch'.votes
      BY <2>4, <2>5, <3>2 DEF Plain
    <3>4. step'.voters = batch'.voters
      BY <2>2, <2>3, <3>2
    <3>5. VotersKept'
      <4>1. base.number < header
        BY DEF IInv, Numbers
      <4> QED
        BY <1>2, <2>6, <3>2, <4>1 DEF VotersKept
    <3> QED
      BY <3>3, <3>4, <3>5
  <2> QED
    BY <2>7, <2>8, <2>9, <2>10, <2>11 DEF IInv
<1> QED
  BY <1>1, <1>6, <1>7

\* A node replays a change of balance, if the voter has a vote.
ReplayedMPVote(L, v, s) == IF v \in DOMAIN L.votes
                           THEN UpdateByMPVote(L, v, s) ELSE L

LEMMA ReplayedMPVoteLedger ==
    ASSUME NEW L, IsLedger(L), Sound(L), NEW v \in Voter, ~LostTally(L, v),
           NEW s \in Nat
    PROVE  LET U == ReplayedMPVote(L, v, s) IN
           /\ IsLedger(U) /\ Sound(U)
           /\ U.number = L.number /\ U.voters = L.voters
           /\ ~U.clobbered =>
                 /\ ~L.clobbered
                 /\ U.votes = IF v \in DOMAIN L.votes
                              THEN Put(L.votes, v,
                                       [candidate |-> L.votes[v].candidate,
                                        stake |-> s])
                              ELSE L.votes
<1>1. CASE v \in DOMAIN L.votes
  <2> DEFINE U == UpdateByMPVote(L, v, s)
  <2>1. IsLedger(U) /\ U.number = L.number /\ U.voters = L.voters
    BY <1>1, UpdateByMPVoteLedger
  <2>2. /\ Sound(U)
        /\ ~U.clobbered =>
              /\ ~L.clobbered
              /\ U.votes = Put(L.votes, v, [candidate |-> L.votes[v].candidate,
                                            stake |-> s])
    BY <1>1, UpdateByMPVoteSound
  <2>3. ReplayedMPVote(L, v, s) = U
    BY <1>1 DEF ReplayedMPVote
  <2> HIDE DEF U
  <2> QED
    BY <1>1, <2>1, <2>2, <2>3
<1>2. CASE v \notin DOMAIN L.votes
  BY <1>2 DEF ReplayedMPVote
<1> QED
  BY <1>1, <1>2

\* Both nodes count a change of balance.
LEMMA ReplayMPVoteInv == IInv /\ ReplayMPVote => IInv'
<1> SUFFICES ASSUME IInv, ReplayMPVote PROVE IInv'
  OBVIOUS
<1>1. PICK v \in oldVoters, s \in Balance :
         /\ balance' = Put(balance, v, s)
         /\ IF LostTally(step, v) \/ LostTally(batch, v)
            THEN pc' = "stopped" /\ UNCHANGED <<step, batch>>
            ELSE /\ pc' = "mpvotes"
                 /\ step' = ReplayedMPVote(step, v, s)
                 /\ batch' = ReplayedMPVote(batch, v, s)
  BY DEF ReplayMPVote, ReplayedMPVote
<1>2. /\ pc \in {"votes", "mpvotes"} /\ voted' = voted
      /\ base' = base /\ header' = header /\ oldVoters' = oldVoters
  BY DEF ReplayMPVote
<1>3. /\ IsLedger(step) /\ IsLedger(batch) /\ IsLedger(base)
      /\ header \in 0..MaxNumber /\ voted \in 0..MaxVotes
      /\ IsMap(balance, Voter, Balance) /\ oldVoters \subseteq Voter
  BY DEF IInv, TypeOK
<1>4. s \in Nat /\ v \in Voter
  BY <1>3, ConstantsAssumption
<1>5. IsMap(balance', Voter, Balance)
  <2>1. IsMap(Put(balance, v, s), Voter, Balance)
    BY <1>3, <1>4, PutMap
  <2> QED
    BY <1>1, <2>1
<1>6. CASE pc' = "stopped" /\ step' = step /\ batch' = batch
  BY <1>2, <1>3, <1>5, <1>6
     DEF IInv, TypeOK, Numbers, VotersPast, SumsInv, Agreement, Replaying
<1>7. CASE /\ ~LostTally(step, v) /\ ~LostTally(batch, v)
           /\ pc' = "mpvotes"
           /\ step' = ReplayedMPVote(step, v, s)
           /\ batch' = ReplayedMPVote(batch, v, s)
  <2>1. Sound(step) /\ Sound(batch)
    BY DEF IInv, SumsInv
  <2> DEFINE With(votes) == IF v \in DOMAIN votes
                            THEN Put(votes, v, [candidate |-> votes[v].candidate,
                                                stake |-> s])
                            ELSE votes
  <2>2. /\ IsLedger(step') /\ Sound(step')
        /\ step'.number = step.number /\ step'.voters = step.voters
        /\ ~step'.clobbered => ~step.clobbered /\ step'.votes = With(step.votes)
    BY <1>3, <1>4, <1>7, <2>1, ReplayedMPVoteLedger
  <2>3. /\ IsLedger(batch') /\ Sound(batch') /\ batch'.voters = batch.voters
        /\ ~batch'.clobbered => ~batch.clobbered /\ batch'.votes = With(batch.votes)
    BY <1>3, <1>4, <1>7, <2>1, ReplayedMPVoteLedger
  <2> HIDE DEF With
  <2>4. TypeOK'
    BY <1>2, <1>3, <1>5, <1>7, <2>2, <2>3 DEF TypeOK
  <2>5. Numbers' /\ VotersPast' /\ SumsInv'
    BY <1>2, <1>7, <2>2, <2>3 DEF IInv, Numbers, VotersPast, SumsInv
  <2>6. Agreement'
    <3> SUFFICES ASSUME Plain'
                 PROVE  /\ step'.votes = batch'.votes
                        /\ step'.voters = batch'.voters
                        /\ VotersKept'
      BY <1>7 DEF Agreement
    <3>1. Plain
      BY <1>2, <2>2, <2>3 DEF Plain, ExpiryInBatch
    <3>2. step.votes = batch.votes /\ step.voters = batch.voters /\ VotersKept
      BY <1>2, <3>1 DEF IInv, Agreement, Replaying
    <3>3. step'.votes = batch'.votes
      BY <2>2, <2>3, <3>2 DEF Plain
    <3> QED
      BY <1>2, <2>2, <2>3, <3>2, <3>3 DEF VotersKept
  <2> QED
    BY <2>4, <2>5, <2>6 DEF IInv
<1> QED
  BY <1>1, <1>6, <1>7

\* No vote in the stepping node's ledger is too old, unless one of the base is.
LEMMA NoneExpires ==
    ASSUME IInv, Replaying, Plain
    PROVE  \A v \in DOMAIN step.voters : header - step.voters[v] <= Epoch
<1>1. /\ IsLedger(step) /\ IsLedger(base) /\ header \in Nat
  BY BoundsAssumption DEF IInv, TypeOK
<1>2. /\ base.number \in Nat
      /\ \A v \in DOMAIN step.voters : step.voters[v] \in Nat
      /\ \A v \in DOMAIN base.voters : base.voters[v] \in Nat
  BY <1>1 DEF IsLedger, IsMap
<1>3. \A v \in DOMAIN base.voters :
         header - base.voters[v] <= Epoch /\ base.voters[v] <= base.number
  BY <1>1, <1>2, ConstantsAssumption DEF IInv, VotersPast, Plain, ExpiryInBatch
<1>4. PICK w \in DOMAIN base.voters : TRUE
  BY DEF IInv, VotersPast
<1>5. header - base.number <= Epoch
  BY <1>1, <1>2, <1>3, <1>4, ConstantsAssumption
<1>6. VotersKept
  BY DEF IInv, Agreement
<1> TAKE v \in DOMAIN step.voters
<1>7. CASE v \in DOMAIN base.voters /\ base.voters[v] <= step.voters[v]
  BY <1>1, <1>2, <1>3, <1>7, ConstantsAssumption
<1>8. CASE base.number < step.voters[v]
  BY <1>1, <1>2, <1>5, <1>8, ConstantsAssumption
<1> QED
  BY <1>6, <1>7, <1>8 DEF VotersKept

\* A copy has everything but the sharing.
LEMMA CopyLedger ==
    ASSUME NEW L, IsLedger(L), Sound(L)
    PROVE  LET C == Copy(L) IN
           /\ IsLedger(C) /\ Sound(C)
           /\ C.number = L.number /\ C.votes = L.votes /\ C.tally = L.tally
           /\ C.voters = L.voters /\ C.clobbered = L.clobbered
<1> DEFINE C == Copy(L)
<1>1. /\ DOMAIN C = LedgerFields
      /\ C.number = L.number /\ C.votes = L.votes /\ C.tally = L.tally
      /\ C.voters = L.voters /\ C.candidates = L.candidates
      /\ C.shared = {} /\ C.clobbered = L.clobbered
  BY DEF Copy, IsLedger, LedgerFields
<1> HIDE DEF C
<1>2. IsLedger(C)
  BY <1>1 DEF IsLedger
<1>3. Sound(C)
  BY <1>1, <1>2, SameSound
<1> QED
  BY <1>1, <1>2, <1>3 DEF C

\* The stepping node finishes a header, the other one goes on.
LEMMA EndHeaderInv == IInv /\ EndHeader => IInv'
<1> SUFFICES ASSUME IInv, EndHeader PROVE IInv'
  OBVIOUS
<1>1. PICK extraB : batch' = WithoutExtra(batch, extraB)
  BY DEF EndHeader
<1>2. PICK extraS \in ExtraCandidates(step) :
         LET N == Replayed(step, extraS, header) IN
         \E order \in Orders(ExpiredVoters(N)) :
            IF RemovalPanics(N, order) \/ ~TallyVerified(Finished(N, order))
            THEN pc' = "stopped" /\ step' = step
            ELSE pc' = "votes" /\ step' = Copy(Finished(N, order))
  BY DEF EndHeader
<1> DEFINE N == Replayed(step, extraS, header)
<1>3. PICK order \in Orders(ExpiredVoters(N)) :
            IF RemovalPanics(N, order) \/ ~TallyVerified(Finished(N, order))
            THEN pc' = "stopped" /\ step' = step
            ELSE pc' = "votes" /\ step' = Copy(Finished(N, order))
  BY <1>2
<1>4. /\ pc \in {"votes", "mpvotes"} /\ header < base.number + MaxHeaders
      /\ header' = header + 1 /\ voted' = 0 /\ balance' = <<>>
      /\ oldVoters' = DOMAIN step'.voters /\ base' = base
  BY DEF EndHeader
<1>5. /\ IsLedger(step) /\ IsLedger(batch) /\ IsLedger(base)
      /\ header \in Nat /\ MaxVotes \in Nat /\ MaxNumber \in Nat
      /\ base.number \in Nat /\ MaxHeaders \in Nat
  BY BoundsAssumption DEF IInv, TypeOK, IsLedger
<1>6. /\ IsLedger(batch') /\ Sound(batch')
      /\ batch'.votes = batch.votes /\ batch'.voters = batch.voters
      /\ batch'.clobbered = batch.clobbered
  BY <1>1, <1>5, ReplayedLedger DEF IInv, SumsInv
<1>7. /\ IsLedger(N) /\ Sound(N) /\ N.number = header
      /\ N.votes = step.votes /\ N.voters = step.voters
      /\ N.clobbered = step.clobbered
  BY <1>5, ReplayedLedger DEF IInv, SumsInv
<1> HIDE DEF N
<1>8. header' \in 0..MaxNumber /\ voted' \in 0..MaxVotes
      /\ IsMap(balance', Voter, Balance)
  BY <1>4, <1>5, EmptyMap DEF IInv, Numbers
<1>9. CASE pc' = "stopped" /\ step' = step
  <2>1. TypeOK'
    BY <1>4, <1>5, <1>6, <1>8, <1>9 DEF TypeOK, IsLedger, IsMap
  <2>2. Numbers'
    BY <1>4, <1>5, <1>9 DEF IInv, Numbers
  <2>3. VotersPast'
    <3>1. \A v \in DOMAIN step.voters : step.voters[v] \in Nat
      BY <1>5 DEF IsLedger, IsMap
    <3> QED
      BY <1>4, <1>5, <1>6, <1>9, <3>1 DEF IInv, VotersPast
  <2>4. SumsInv' /\ Agreement'
    BY <1>6, <1>9 DEF IInv, SumsInv, Agreement, Replaying
  <2> QED
    BY <2>1, <2>2, <2>3, <2>4 DEF IInv
<1>10. CASE /\ ~RemovalPanics(N, order)
            /\ pc' = "votes" /\ step' = Copy(Finished(N, order))
  <2> DEFINE F == Finished(N, order)
  <2>1. /\ IsLedger(F) /\ Sound(F)
        /\ F.number = N.number /\ DOMAIN F.voters # {}
        /\ \A v \in DOMAIN F.voters :
              v \in DOMAIN N.voters /\ F.voters[v] = N.voters[v]
        /\ ~F.clobbered => ~N.clobbered
        /\ (\A v \in DOMAIN N.voters : N.number - N.voters[v] <= Epoch)
              => F.votes = N.votes /\ F.voters = N.voters
    <3>1. DOMAIN N.voters # {}
      BY <1>7 DEF IInv, VotersPast
    <3> QED
      BY <1>7, <1>10, <3>1, FinishedLedger
  <2> HIDE DEF F
  <2>2. /\ IsLedger(step') /\ Sound(step')
        /\ step'.votes = F.votes /\ step'.voters = F.voters
        /\ step'.clobbered = F.clobbered
    BY <1>10, <2>1, CopyLedger DEF F
  <2>3. TypeOK'
    BY <1>4, <1>5, <1>6, <1>8, <1>10, <2>2 DEF TypeOK, IsLedger, IsMap
  <2>4. Numbers'
    BY <1>4, <1>5, <1>10 DEF IInv, Numbers
  <2>5. VotersPast'
    <3>1. \A v \in DOMAIN step.voters : step.voters[v] \in Nat
      BY <1>5 DEF IsLedger, IsMap
    <3> QED
      BY <1>4, <1>5, <1>6, <1>7, <2>1, <2>2, <3>1 DEF IInv, VotersPast
  <2>6. SumsInv'
    BY <1>6, <2>2 DEF SumsInv
  <2>7. Agreement'
    <3> SUFFICES ASSUME Plain'
                 PROVE  /\ step'.votes = batch'.votes
                        /\ step'.voters = batch'.voters
                        /\ VotersKept'
      BY <1>10 DEF Agreement
    <3>1. ~step.clobbered /\ ~batch.clobbered
      BY <1>6, <1>7, <2>1, <2>2, Zenon DEF Plain
    <3>2. ~ExpiryInBatch
      <4>1. \A v \in DOMAIN base.voters : base.voters[v] \in Nat
        BY <1>5 DEF IsLedger, IsMap
      <4> QED
        BY <1>4, <1>5, <4>1, ConstantsAssumption DEF Plain, ExpiryInBatch
    <3>3. Plain /\ Replaying
      BY <1>4, <3>1, <3>2 DEF Plain, Replaying
    <3>4. step.votes = batch.votes /\ step.voters = batch.voters /\ VotersKept
      BY <3>3 DEF IInv, Agreement
    <3>5. step'.votes = step.votes /\ step'.voters = step.voters
      BY <1>7, <2>1, <2>2, <3>3, NoneExpires
    <3> QED
      BY <1>4, <1>6, <3>4, <3>5 DEF VotersKept
  <2> QED
    BY <2>3, <2>4, <2>5, <2>6, <2>7 DEF IInv
<1> QED
  BY <1>3, <1>9, <1>10

\* Both nodes finish the batch.
LEMMA EndBatchInv == IInv /\ EndBatch => IInv'
<1> SUFFICES ASSUME IInv, EndBatch PROVE IInv'
  OBVIOUS
<1>1. PICK extraS \in ExtraCandidates(step), extraB \in ExtraCandidates(batch) :
         LET N == Replayed(step, extraS, header)
             M == Replayed(batch, extraB, header)
         IN  \E orderS \in Orders(ExpiredVoters(N)),
                orderB \in Orders(ExpiredVoters(M)) :
                LET S == Finished(N, orderS)
                    B == Finished(M, orderB)
                IN  IF \/ RemovalPanics(N, orderS) \/ ~TallyVerified(S)
                       \/ RemovalPanics(M, orderB) \/ ~TallyVerified(B)
                    THEN pc' = "stopped" /\ UNCHANGED <<step, batch>>
                    ELSE pc' = "compare" /\ step' = S /\ batch' = B
  BY DEF EndBatch
<1> DEFINE N == Replayed(step, extraS, header)
           M == Replayed(batch, extraB, header)
<1>2. PICK orderS \in Orders(ExpiredVoters(N)), orderB \in Orders(ExpiredVoters(M)) :
         \/ pc' = "stopped" /\ step' = step /\ batch' = batch
         \/ /\ ~RemovalPanics(N, orderS) /\ ~RemovalPanics(M, orderB)
            /\ pc' = "compare"
            /\ step' = Finished(N, orderS) /\ batch' = Finished(M, orderB)
  BY <1>1
<1>3. /\ pc \in {"votes", "mpvotes"} /\ header = base.number + MaxHeaders
      /\ header' = header /\ base' = base
      /\ voted' = 0 /\ balance' = <<>> /\ oldVoters' = {}
  BY DEF EndBatch
<1>4. /\ IsLedger(step) /\ IsLedger(batch) /\ IsLedger(base)
      /\ header \in 0..MaxNumber /\ header \in Nat /\ MaxVotes \in Nat
  BY BoundsAssumption DEF IInv, TypeOK
<1>5. /\ voted' \in 0..MaxVotes /\ IsMap(balance', Voter, Balance)
      /\ oldVoters' \subseteq Voter
  BY <1>3, <1>4, EmptyMap
<1>6. /\ IsLedger(N) /\ Sound(N) /\ N.number = header
      /\ N.votes = step.votes /\ N.voters = step.voters
      /\ N.clobbered = step.clobbered
  BY <1>4, ReplayedLedger DEF IInv, SumsInv
<1>7. /\ IsLedger(M) /\ Sound(M) /\ M.number = header
      /\ M.votes = batch.votes /\ M.voters = batch.voters
      /\ M.clobbered = batch.clobbered
  BY <1>4, ReplayedLedger DEF IInv, SumsInv
<1> HIDE DEF N, M
<1>8. CASE pc' = "stopped" /\ step' = step /\ batch' = batch
  BY <1>3, <1>4, <1>5, <1>8
     DEF IInv, TypeOK, Numbers, VotersPast, SumsInv, Agreement, Replaying
<1>9. CASE /\ ~RemovalPanics(N, orderS) /\ ~RemovalPanics(M, orderB)
           /\ pc' = "compare"
           /\ step' = Finished(N, orderS) /\ batch' = Finished(M, orderB)
  <2>1. DOMAIN N.voters # {} /\ DOMAIN M.voters # {}
    BY <1>6, <1>7 DEF IInv, VotersPast
  <2>2. /\ IsLedger(step') /\ Sound(step')
        /\ step'.number = N.number /\ DOMAIN step'.voters # {}
        /\ \A v \in DOMAIN step'.voters :
              v \in DOMAIN N.voters /\ step'.voters[v] = N.voters[v]
        /\ ~step'.clobbered => ~N.clobbered
        /\ \A c \in DOMAIN step'.tally : step'.tally[c] > 0
        /\ (\A v \in DOMAIN N.voters : N.number - N.voters[v] <= Epoch)
              => step'.votes = N.votes /\ step'.voters = N.voters
    BY <1>6, <1>9, <2>1, FinishedLedger
  <2>3. /\ IsLedger(batch') /\ Sound(batch') /\ DOMAIN batch'.voters # {}
        /\ ~batch'.clobbered => ~M.clobbered
        /\ \A c \in DOMAIN batch'.tally : batch'.tally[c] > 0
        /\ (\A v \in DOMAIN M.voters : M.number - M.voters[v] <= Epoch)
              => batch'.votes = M.votes /\ batch'.voters = M.voters
    BY <1>7, <1>9, <2>1, FinishedLedger
  <2>4. TypeOK'
    BY <1>3, <1>4, <1>5, <1>9, <2>2, <2>3 DEF TypeOK
  <2>5. Numbers' /\ VotersPast' /\ SumsInv'
    BY <1>3, <1>6, <2>2, <2>3 DEF IInv, Numbers, VotersPast, SumsInv
  <2>6. Agreement'
    <3> SUFFICES ASSUME Plain'
                 PROVE  /\ step'.votes = batch'.votes
                        /\ step'.voters = batch'.voters
                        /\ VotersKept'
                        /\ step'.tally = batch'.tally
      BY DEF Agreement
    <3>1. ~step'.clobbered /\ ~batch'.clobbered
      BY DEF Plain
    <3>2. Plain /\ Replaying
      BY <1>3, <1>6, <1>7, <2>2, <2>3 DEF Plain, Replaying, ExpiryInBatch
    <3>3. step.votes = batch.votes /\ step.voters = batch.voters /\ VotersKept
      BY <3>2 DEF IInv, Agreement
    <3>4. \A v \in DOMAIN step.voters : header - step.voters[v] <= Epoch
      BY <3>2, NoneExpires
    <3>5. step'.votes = step.votes /\ step'.voters = step.voters
      BY <1>6, <2>2, <3>4
    <3>6. batch'.votes = step.votes /\ batch'.voters = step.voters
      BY <1>7, <2>3, <3>3, <3>4
    <3>7. step'.tally = batch'.tally
      BY <2>2, <2>3, <3>1, <3>5, <3>6, SameTallies
    <3> QED
      BY <1>3, <3>3, <3>5, <3>6, <3>7 DEF VotersKept
  <2> QED
    BY <2>4, <2>5, <2>6 DEF IInv
<1> QED
  BY <1>2, <1>8, <1>9

\* The next batch begins with one ledger for both.
LEMMA NextBatchInv == IInv /\ NextBatch => IInv'
<1> SUFFICES ASSUME IInv, NextBatch PROVE IInv'
  OBVIOUS
<1>1. /\ pc = "compare" /\ header + MaxHeaders <= MaxNumber
      /\ base' = Copy(step) /\ step' = Copy(step) /\ batch' = Copy(step)
      /\ header' = header + 1 /\ oldVoters' = DOMAIN step.voters
      /\ pc' = "votes" /\ voted' = voted /\ balance' = balance
  BY DEF NextBatch
<1>2. /\ IsLedger(step) /\ header \in Nat
      /\ MaxHeaders \in Nat \ {0} /\ MaxNumber \in Nat
      /\ step.number = header
  BY <1>1, BoundsAssumption DEF IInv, TypeOK, Numbers
<1>3. /\ IsLedger(Copy(step)) /\ Sound(Copy(step))
      /\ Copy(step).number = header /\ Copy(step).voters = step.voters
  BY <1>2, CopyLedger DEF IInv, SumsInv
<1>4. TypeOK'
  <2>1. DOMAIN step.voters \subseteq Voter
    BY <1>2 DEF IsLedger, IsMap
  <2> QED
    BY <1>1, <1>2, <1>3, <2>1 DEF IInv, TypeOK
<1>5. Numbers'
  BY <1>1, <1>2, <1>3 DEF Numbers
<1>6. VotersPast'
  <2>1. \A v \in DOMAIN step.voters : step.voters[v] \in Nat
    BY <1>2 DEF IsLedger, IsMap
  <2> QED
    BY <1>1, <1>2, <1>3, <2>1 DEF IInv, VotersPast
<1>7. SumsInv'
  BY <1>1, <1>3 DEF SumsInv
<1>8. Agreement'
  <2>1. \A v \in DOMAIN step.voters : step.voters[v] \in Nat
    BY <1>2 DEF IsLedger, IsMap
  <2> QED
    BY <1>1, <1>3, <2>1 DEF Agreement, VotersKept
<1> QED
  BY <1>4, <1>5, <1>6, <1>7, <1>8 DEF IInv

\* Every step keeps the invariant.
LEMMA NextInv == IInv /\ [Next]_vars => IInv'
<1> SUFFICES ASSUME IInv, [Next]_vars PROVE IInv'
  OBVIOUS
<1>1. CASE UNCHANGED vars
  BY <1>1 DEF vars, IInv, TypeOK, Numbers, VotersPast, SumsInv, Agreement,
              Replaying, Plain, ExpiryInBatch, VotersKept
<1> QED
  BY <1>1, ReplayVoteInv, ReplayMPVoteInv, EndHeaderInv, EndBatchInv,
     NextBatchInv DEF Next

-----------------------------------------------------------------------------
(* Results. *)

\* A node that applies its headers one by one and a node that applies them in
\* one call of apply have, at the end of the batch, the same votes, tallies and
\* voters, and both have ledgers, unless a stake was overwritten through
\* sharing or a vote expired in the batch (Snapshot.apply, copy).
THEOREM BatchesAgree == Spec => []BatchingTransparent
<1>1. Init => IInv
  BY InitInv
<1>2. IInv /\ [Next]_vars => IInv'
  BY NextInv
<1>3. IInv => BatchingTransparent
  BY DEF IInv, Agreement, Plain, BatchingTransparent
<1> QED
  BY <1>1, <1>2, <1>3, PTL DEF Spec

=============================================================================
