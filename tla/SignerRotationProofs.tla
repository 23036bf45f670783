------------------------- MODULE SignerRotationProofs -------------------------
(***************************************************************************)
(* Proofs about SignerRotation, for any number of signers, any levels, any *)
(* tallies and hashes and any delays of blocks: what the end of a loop     *)
(* does to the signers, that the schedule never runs ahead of the chain,   *)
(* when the election can read hashes that are not kept, and that           *)
(* whoever is reported missing inside a loop did miss a turn.              *)
(*                                                                         *)
(* The inductive invariant adds three facts to TypeOK: the loop start is   *)
(* computed from the number alone (LoopPace), a panic has its cause still  *)
(* at hand (PanicAtEnd), and inside a loop the coinbase of the head is the *)
(* signer in turn at its time (HeadInTurn), which is where                 *)
(* getSignerMissing starts from.                                           *)
(*                                                                         *)
(* A ranking is a CHOOSE by the number of members that come before; that   *)
(* it lists every candidate once, in order, is RankingLists, the result    *)
(* the properties of elections rest on.                                    *)
(*                                                                         *)
(* At the end, proofs about MinerControl, which starts and stops what      *)
(* seals in these turns, for any number of users and calls: the goroutines *)
(* and stop tokens of the agent stay balanced, and no seal is left that    *)
(* nobody can tell to quit.                                                *)
(***************************************************************************)
EXTENDS SignerRotation, MinerControl, FiniteSetTheorems, FunctionTheorems, SequenceTheorems, TLAPS

-----------------------------------------------------------------------------
(* Rankings. *)

\* There are n numbers up to n.
LEMMA UpTo ==
    ASSUME NEW n \in Nat
    PROVE  IsFiniteSet(1..n) /\ Cardinality(1..n) = n
  BY FS_Interval

\* A function on 1..n is a sequence.
LEMMA FunSeq ==
    ASSUME NEW S, NEW n \in Nat, NEW f \in [1..n -> S]
    PROVE  f \in Seq(S) /\ Len(f) = n
  OBVIOUS

\* Joining two sequences.
LEMMA Joined ==
    ASSUME NEW S, NEW a \in Seq(S), NEW b \in Seq(S)
    PROVE  a \o b \in Seq(S) /\ Len(a \o b) = Len(a) + Len(b)
  OBVIOUS

\* R, a set of pairs, is a strict total order on S.
StrictOrder(R, S) ==
    /\ \A x \in S : <<x, x>> \notin R
    /\ \A x, y \in S : x # y => <<x, y>> \in R \/ <<y, x>> \in R
    /\ \A x, y, z \in S : <<x, y>> \in R /\ <<y, z>> \in R => <<x, z>> \in R

\* The members of S that come before x.
Below(R, S, x) == {y \in S : <<y, x>> \in R}

\* order lists S as R puts it: what Ranked chooses.
IsRanking(order, R, S) ==
    /\ order \in [1..Cardinality(S) -> S]
    /\ \A i \in 1..Cardinality(S) : Cardinality(Below(R, S, order[i])) = i - 1

\* The number of members before x grows along the order, below the size of S.
LEMMA RankGrows ==
    ASSUME NEW S, IsFiniteSet(S), NEW R, StrictOrder(R, S), NEW x \in S
    PROVE  /\ IsFiniteSet(Below(R, S, x))
           /\ Cardinality(Below(R, S, x)) \in 0..(Cardinality(S) - 1)
           /\ \A y \in S : <<x, y>> \in R =>
                 Cardinality(Below(R, S, x)) < Cardinality(Below(R, S, y))
<1>1. Below(R, S, x) \in SUBSET S /\ x \notin Below(R, S, x)
  BY DEF Below, StrictOrder
<1>2. /\ IsFiniteSet(Below(R, S, x))
      /\ Cardinality(Below(R, S, x)) <= Cardinality(S)
      /\ Cardinality(Below(R, S, x)) # Cardinality(S)
  BY <1>1, FS_Subset
<1>3. /\ Cardinality(S) \in Nat /\ Cardinality(Below(R, S, x)) \in Nat
  BY <1>2, FS_CardinalityType
<1>4. ASSUME NEW y \in S, <<x, y>> \in R
      PROVE  Cardinality(Below(R, S, x)) < Cardinality(Below(R, S, y))
  <2>1. /\ Below(R, S, x) \in SUBSET Below(R, S, y)
        /\ Below(R, S, x) # Below(R, S, y)
    BY <1>1, <1>4 DEF Below, StrictOrder
  <2>2. IsFiniteSet(Below(R, S, y))
    <3>1. Below(R, S, y) \in SUBSET S
      BY DEF Below
    <3> QED
      BY <3>1, FS_Subset
  <2>3. /\ Cardinality(Below(R, S, x)) <= Cardinality(Below(R, S, y))
        /\ Cardinality(Below(R, S, x)) # Cardinality(Below(R, S, y))
    BY <2>1, <2>2, FS_Subset
  <2>4. Cardinality(Below(R, S, y)) \in Nat
    BY <2>2, FS_CardinalityType
  <2> QED
    BY <1>3, <2>3, <2>4
<1> QED
  BY <1>2, <1>3, <1>4

\* For every place there is a member with that many before it.
LEMMA RankExists ==
    ASSUME NEW S, IsFiniteSet(S), NEW R, StrictOrder(R, S),
           NEW i \in 1..Cardinality(S)
    PROVE  \E x \in S : Cardinality(Below(R, S, x)) = i - 1
<1> DEFINE n == Cardinality(S)
           rank == [x \in S |-> Cardinality(Below(R, S, x))]
<1>1. n \in Nat
  BY FS_CardinalityType
<1>2. rank \in [S -> 0..(n - 1)]
  BY RankGrows
<1>3. ASSUME NEW x \in S, NEW y \in S, rank[x] = rank[y] PROVE x = y
  <2>1. /\ <<x, y>> \in R => rank[x] < rank[y]
        /\ <<y, x>> \in R => rank[y] < rank[x]
    BY RankGrows
  <2>2. rank[x] \in 0..(n - 1) /\ rank[y] \in 0..(n - 1)
    BY <1>2
  <2> HIDE DEF rank
  <2>3. <<x, y>> \notin R /\ <<y, x>> \notin R
    BY <1>1, <1>3, <2>1, <2>2
  <2> QED
    BY <2>3 DEF StrictOrder
<1>4. rank \in Injection(S, 0..(n - 1))
  BY <1>2, <1>3 DEF Injection, IsInjective
<1> HIDE DEF rank
<1>5. IsFiniteSet(0..(n - 1)) /\ Cardinality(0..(n - 1)) = n
  <2> HIDE DEF n
  <2>1. 0 \in Int /\ n - 1 \in Int
    BY <1>1
  <2> QED
    BY <1>1, <2>1, FS_Interval
<1>6. rank \in Surjection(S, 0..(n - 1))
  BY <1>4, <1>5, FS_Injection
<1>7. i - 1 \in 0..(n - 1)
  BY <1>1
<1>8. \E x \in S : rank[x] = i - 1
  BY <1>6, <1>7 DEF Surjection
<1> QED
  BY <1>8 DEF rank

\* A ranking lists every member once, in order.
LEMMA RankingLists ==
    ASSUME NEW S, IsFiniteSet(S), NEW R, StrictOrder(R, S),
           NEW order, IsRanking(order, R, S)
    PROVE  /\ order \in Bijection(1..Cardinality(S), S)
           /\ \A i, j \in 1..Cardinality(S) :
                 i < j => <<order[i], order[j]>> \in R
<1> DEFINE n == Cardinality(S)
<1>1. n \in Nat /\ order \in [1..n -> S]
  BY FS_CardinalityType DEF IsRanking
<1>2. \A i \in 1..n : Cardinality(Below(R, S, order[i])) = i - 1
  BY DEF IsRanking
<1>3. \A i, j \in 1..n : order[i] = order[j] => i = j
  BY <1>1, <1>2
<1>4. order \in Injection(1..n, S)
  BY <1>1, <1>3 DEF Injection, IsInjective
<1>5. IsFiniteSet(1..n) /\ Cardinality(1..n) = n
  BY <1>1, UpTo
<1>6. order \in Surjection(1..n, S)
  BY <1>4, <1>5, FS_Injection
<1>7. ASSUME NEW i \in 1..n, NEW j \in 1..n, i < j
      PROVE  <<order[i], order[j]>> \in R
  <2>1. order[i] \in S /\ order[j] \in S /\ order[i] # order[j]
    BY <1>1, <1>3, <1>7
  <2>2. <<order[j], order[i]>> \in R => j - 1 < i - 1
    BY <1>2, <2>1, RankGrows
  <2> QED
    BY <1>7, <2>1, <2>2 DEF StrictOrder
<1> QED
  BY <1>4, <1>6, <1>7 DEF Bijection

-----------------------------------------------------------------------------
(* The rankings of the code. *)

IsTally(t) ==
    /\ IsFiniteSet(DOMAIN t) /\ DOMAIN t \subseteq Addr
    /\ t \in [DOMAIN t -> Nat]

IsPunished(p) == DOMAIN p \subseteq Addr /\ p \in [DOMAIN p -> Nat]

TallyOrder(t, p) ==
    {q \in (DOMAIN t) \X (DOMAIN t) : TallyBefore(t, p, q[1], q[2])}

\* TallySlice: more weighted stake first, and every candidate once.
LEMMA TallyRanked ==
    ASSUME NEW t, IsTally(t), NEW p, IsPunished(p)
    PROVE  /\ StrictOrder(TallyOrder(t, p), DOMAIN t)
           /\ IsRanking(TallyRanking(t, p), TallyOrder(t, p), DOMAIN t)
<1> DEFINE S == DOMAIN t
           R == TallyOrder(t, p)
           w(a) == Weighted(t, p, a)
<1>1. \A a \in S : w(a) \in Int
  <2>1. \A a : CreditWeight(p, a) \in Int
    BY QueueAssumption DEF CreditWeight, IsPunished
  <2>2. \A a \in S : t[a] \in Int
    BY DEF IsTally
  <2> QED
    BY <2>1, <2>2 DEF Weighted
<1>2. S \subseteq Nat
  BY RotationAssumption DEF IsTally
<1>3. \A a, b \in S : <<a, b>> \in R <=> w(a) > w(b) \/ (w(a) = w(b) /\ a > b)
  BY DEF TallyOrder, TallyBefore
<1> HIDE DEF R
<1>4. StrictOrder(R, S)
  <2> HIDE DEF w
  <2> QED
    BY <1>1, <1>2, <1>3 DEF StrictOrder
<1>5. IsFiniteSet(S)
  BY DEF IsTally
<1>6. TallyRanking(t, p) =
         [i \in 1..Cardinality(S) |->
            CHOOSE x \in S : Cardinality({y \in S : TallyBefore(t, p, y, x)}) = i - 1]
  BY DEF TallyRanking, Ranked
<1>7. \A x \in S : {y \in S : TallyBefore(t, p, y, x)} = Below(R, S, x)
  BY DEF Below, R, TallyOrder
<1>8. ASSUME NEW i \in 1..Cardinality(S)
      PROVE  /\ TallyRanking(t, p)[i] \in S
             /\ Cardinality(Below(R, S, TallyRanking(t, p)[i])) = i - 1
  <2> DEFINE P(x) == Cardinality({y \in S : TallyBefore(t, p, y, x)}) = i - 1
  <2>1. \E x \in S : Cardinality(Below(R, S, x)) = i - 1
    BY <1>4, <1>5, RankExists
  <2>2. \E x \in S : P(x)
    BY <1>7, <2>1
  <2>3. TallyRanking(t, p)[i] = CHOOSE x \in S : P(x)
    BY <1>6
  <2> HIDE DEF P
  <2>4. TallyRanking(t, p)[i] \in S /\ P(TallyRanking(t, p)[i])
    BY <2>2, <2>3
  <2> QED
    BY <1>7, <2>4 DEF P
<1>9. IsRanking(TallyRanking(t, p), R, S)
  BY <1>6, <1>8 DEF IsRanking
<1> QED
  BY <1>4, <1>9 DEF R

SignerItem == [addr : Addr, hash : Nat]

\* SignerSlice: sorting by hash is a permutation of the items.
LEMMA SortedByHash ==
    ASSUME NEW items \in Seq(SignerItem), NEW m \in Nat, Len(items) <= m,
           NEW tie \in Ties(m)
    PROVE  \E order \in Bijection(DOMAIN items, DOMAIN items) :
              SignersByHash(items, tie) = [i \in DOMAIN items |-> items[order[i]]]
<1> DEFINE S == DOMAIN items
           Before(i, j) == \/ items[i].hash > items[j].hash
                           \/ items[i].hash = items[j].hash /\ tie[i] < tie[j]
           R == {q \in S \X S : Before(q[1], q[2])}
           order == [i \in 1..Cardinality(S) |->
                        CHOOSE x \in S : Cardinality({y \in S : Before(y, x)}) = i - 1]
<1>1. Len(items) \in Nat /\ S = 1..Len(items)
  OBVIOUS
<1>2. IsFiniteSet(S) /\ Cardinality(S) = Len(items)
  BY <1>1, UpTo
<1>3. \A i \in S : items[i].hash \in Int /\ tie[i] \in Int
  <2>1. \A i \in S : items[i] \in SignerItem
    OBVIOUS
  <2>2. tie \in [1..m -> 1..m] /\ \A i \in S : i \in 1..m
    BY <1>1 DEF Ties
  <2> QED
    BY <2>1, <2>2 DEF SignerItem
<1>4. \A i, j \in S : tie[i] = tie[j] => i = j
  <2>1. DOMAIN tie = 1..m /\ IsInjective(tie)
    BY DEF Ties
  <2>2. \A i \in S : i \in 1..m
    BY <1>1
  <2> HIDE DEF S
  <2> QED
    BY <2>1, <2>2 DEF IsInjective
<1>5. \A i, j \in S : <<i, j>> \in R <=> Before(i, j)
  OBVIOUS
<1>6. StrictOrder(R, S)
  <2> DEFINE h(i) == items[i].hash
  <2>1. \A i, j \in S : <<i, j>> \in R <=> h(i) > h(j) \/ (h(i) = h(j) /\ tie[i] < tie[j])
    BY <1>5
  <2>2. \A i \in S : h(i) \in Int /\ tie[i] \in Int
    BY <1>3
  <2> HIDE DEF R, S, h
  <2> QED
    BY <1>4, <2>1, <2>2 DEF StrictOrder
<1>7. SignersByHash(items, tie) = [i \in S |-> items[order[i]]]
  BY DEF SignersByHash, Ranked
<1>8. \A x \in S : {y \in S : Before(y, x)} = Below(R, S, x)
  BY DEF Below
<1> HIDE DEF R
<1>9. ASSUME NEW i \in 1..Cardinality(S)
      PROVE  order[i] \in S /\ Cardinality(Below(R, S, order[i])) = i - 1
  <2> DEFINE P(x) == Cardinality({y \in S : Before(y, x)}) = i - 1
  <2>1. \E x \in S : Cardinality(Below(R, S, x)) = i - 1
    BY <1>2, <1>6, RankExists
  <2>2. \E x \in S : P(x)
    BY <1>8, <2>1
  <2>3. order[i] = CHOOSE x \in S : P(x)
    OBVIOUS
  <2> HIDE DEF P, order
  <2>4. order[i] \in S /\ P(order[i])
    BY <2>2, <2>3
  <2> QED
    BY <1>8, <2>4 DEF P
<1>10. IsRanking(order, R, S)
  BY <1>9 DEF IsRanking
<1>11. order \in Bijection(1..Cardinality(S), S)
  <2> HIDE DEF order, S
  <2> QED
    BY <1>2, <1>6, <1>10, RankingLists
<1> HIDE DEF order
<1> QED
  BY <1>1, <1>2, <1>7, <1>11

-----------------------------------------------------------------------------
(* The slice of signers and the queue made of it. *)

IsSnap(s) ==
    /\ s.number \in Nat
    /\ s.signers \in Seq(Addr) /\ Len(s.signers) = MaxSignerCount
    /\ s.history \in Seq(Nat)
    /\ IsPunished(s.punished) /\ IsTally(s.tally)

\* A slice of indexable length has a hash for each of its addresses.
LEMMA ItemSlice ==
    ASSUME NEW s, IsSnap(s), NEW addrs \in Seq(Addr),
           Len(addrs) <= Len(s.history)
    PROVE  /\ Item(s, addrs) \in Seq(SignerItem)
           /\ Len(Item(s, addrs)) = Len(addrs)
           /\ \A i \in 1..Len(addrs) : Item(s, addrs)[i].addr = addrs[i]
<1> DEFINE I == Item(s, addrs)
           n == Len(addrs)
           h(i) == s.history[Len(s.history) + 1 - i]
<1>1. n \in Nat /\ DOMAIN addrs = 1..n /\ Len(s.history) \in Nat
  BY DEF IsSnap
<1>2. \A i \in 1..n : addrs[i] \in Addr
  BY <1>1
<1>3. \A i \in 1..n : h(i) \in Nat
  <2> TAKE i \in 1..n
  <2>1. Len(s.history) + 1 - i \in 1..Len(s.history)
    BY <1>1
  <2> QED
    BY <2>1, SMTT(30) DEF IsSnap
<1>4. I = [i \in 1..n |-> [addr |-> addrs[i], hash |-> h(i)]]
  BY <1>1 DEF Item
<1> HIDE DEF h, I
<1>5. I \in [1..n -> SignerItem]
  BY <1>2, <1>3, <1>4 DEF SignerItem
<1>6. I \in Seq(SignerItem) /\ Len(I) = n
  BY <1>1, <1>5, FunSeq
<1>7. \A i \in 1..n : I[i].addr = addrs[i]
  BY <1>4
<1> QED
  BY <1>6, <1>7 DEF I

\* No tie is broken otherwise than by place.
LEMMA InOrderTies ==
    ASSUME NEW m \in Nat
    PROVE  InOrder(m) \in Ties(m)
  BY DEF InOrder, Ties, IsInjective

\* Sorting keeps the items and their number.
LEMMA SortedSlice ==
    ASSUME NEW items \in Seq(SignerItem), NEW m \in Nat, Len(items) <= m,
           NEW tie \in Ties(m)
    PROVE  /\ SignersByHash(items, tie) \in Seq(SignerItem)
           /\ Len(SignersByHash(items, tie)) = Len(items)
<1> DEFINE n == Len(items)
<1>1. PICK order \in Bijection(DOMAIN items, DOMAIN items) :
         SignersByHash(items, tie) = [i \in DOMAIN items |-> items[order[i]]]
  BY SortedByHash
<1>2. n \in Nat /\ DOMAIN items = 1..n
  OBVIOUS
<1>3. order \in [1..n -> 1..n]
  BY <1>2 DEF Bijection, Injection
<1>4. SignersByHash(items, tie) \in [1..n -> SignerItem]
  BY <1>1, <1>2, <1>3
<1> QED
  BY <1>2, <1>4, FunSeq

\* The first n items by hash.
LEMMA TakenSlice ==
    ASSUME NEW items \in Seq(SignerItem), NEW n \in Nat, n <= Len(items)
    PROVE  /\ TakeByHash(items, n) \in Seq(SignerItem)
           /\ Len(TakeByHash(items, n)) = n
<1> DEFINE sorted == SignersByHash(items, InOrder(Len(items)))
<1>1. sorted \in Seq(SignerItem) /\ Len(sorted) = Len(items)
  BY SortedSlice, InOrderTies
<1>2. TakeByHash(items, n) = SubSeq(sorted, 1, n)
  BY DEF TakeByHash
<1> HIDE DEF sorted
<1> QED
  BY <1>1, <1>2

\* The ranking of a tally is a sequence of its candidates.
LEMMA RankingSeq ==
    ASSUME NEW t, IsTally(t), NEW p, IsPunished(p)
    PROVE  /\ TallyRanking(t, p) \in Seq(Addr)
           /\ Len(TallyRanking(t, p)) = Cardinality(DOMAIN t)
           /\ Cardinality(DOMAIN t) \in Nat
<1>1. Cardinality(DOMAIN t) \in Nat
  BY FS_CardinalityType DEF IsTally
<1>2. TallyRanking(t, p) \in [1..Cardinality(DOMAIN t) -> DOMAIN t]
  BY TallyRanked DEF IsRanking
<1>3. TallyRanking(t, p) \in [1..Cardinality(DOMAIN t) -> Addr]
  BY <1>2 DEF IsTally
<1> QED
  BY <1>1, <1>3, FunSeq

\* Part of a sequence of addresses.
LEMMA PartSeq ==
    ASSUME NEW q \in Seq(Addr), NEW lo \in Nat, NEW hi \in Nat, lo <= hi,
           hi <= Len(q)
    PROVE  /\ SubSeq(q, lo + 1, hi) \in Seq(Addr)
           /\ Len(SubSeq(q, lo + 1, hi)) = hi - lo
  OBVIOUS

\* A levelled election elects OfficialMax signers.
LEMMA LevelledSliceType ==
    ASSUME NEW s, IsSnap(s), Levelled(s), ~QueuePanics(s)
    PROVE  /\ LevelledSlice(s) \in Seq(SignerItem)
           /\ Len(LevelledSlice(s)) = MaxSignerCount
<1> DEFINE q == TallyRanking(s.tally, s.punished)
           n == Cardinality(DOMAIN s.tally)
           r1 == SubSeq(q, 1, FirstLevel)
           r2 == SubSeq(q, FirstLevel + 1, SecondLevel)
           r3 == SubSeq(q, SecondLevel + 1, ThirdLevel)
           r4 == SubSeq(q, ThirdLevel + 1, n)
<1>1. q \in Seq(Addr) /\ Len(q) = n /\ n \in Nat
  BY RankingSeq DEF IsSnap
<1>2. n > ThirdLevel /\ MaxSignerCount = OfficialMax
  BY DEF Levelled
<1>3. /\ FirstLevel <= Len(s.history)
      /\ SecondLevel - FirstLevel <= Len(s.history)
      /\ ThirdLevel - SecondLevel <= Len(s.history)
      /\ n - ThirdLevel <= Len(s.history)
  BY DEF QueuePanics, Indexable
<1> HIDE DEF q, n
<1>4. /\ r1 \in Seq(Addr) /\ Len(r1) = FirstLevel
      /\ r2 \in Seq(Addr) /\ Len(r2) = SecondLevel - FirstLevel
      /\ r3 \in Seq(Addr) /\ Len(r3) = ThirdLevel - SecondLevel
      /\ r4 \in Seq(Addr) /\ Len(r4) = n - ThirdLevel
  <2>1. r1 \in Seq(Addr) /\ Len(r1) = FirstLevel
    BY <1>1, <1>2, QueueAssumption
  <2> QED
    BY <2>1, <1>1, <1>2, QueueAssumption, PartSeq
<1> HIDE DEF r1, r2, r3, r4
<1>5. /\ Item(s, r1) \in Seq(SignerItem) /\ Len(Item(s, r1)) = FirstLevel
      /\ Item(s, r2) \in Seq(SignerItem) /\ Len(Item(s, r2)) = SecondLevel - FirstLevel
      /\ Item(s, r3) \in Seq(SignerItem) /\ Len(Item(s, r3)) = ThirdLevel - SecondLevel
      /\ Item(s, r4) \in Seq(SignerItem) /\ Len(Item(s, r4)) = n - ThirdLevel
  BY <1>3, <1>4, ItemSlice
<1> DEFINE i1 == Item(s, r1)
           i2 == TakeByHash(Item(s, r2), SecondTake)
           i3 == TakeByHash(Item(s, r3), ThirdTake)
           i4 == TakeByHash(Item(s, r4), 1)
<1>6. /\ i2 \in Seq(SignerItem) /\ Len(i2) = SecondTake
      /\ i3 \in Seq(SignerItem) /\ Len(i3) = ThirdTake
      /\ i4 \in Seq(SignerItem) /\ Len(i4) = 1
  <2>1. /\ SecondTake \in Nat /\ SecondTake <= SecondLevel - FirstLevel
        /\ ThirdTake \in Nat /\ ThirdTake <= ThirdLevel - SecondLevel
        /\ 1 \in Nat /\ 1 <= n - ThirdLevel
    BY <1>1, <1>2, QueueAssumption
  <2>2. i2 \in Seq(SignerItem) /\ Len(i2) = SecondTake
    BY <1>5, <2>1, TakenSlice
  <2>3. i3 \in Seq(SignerItem) /\ Len(i3) = ThirdTake
    BY <1>5, <2>1, TakenSlice
  <2>4. i4 \in Seq(SignerItem) /\ Len(i4) = 1
    BY <1>5, <2>1, TakenSlice
  <2> QED
    BY <2>2, <2>3, <2>4
<1>7. LevelledSlice(s) = i1 \o i2 \o i3 \o i4
  BY <1>1 DEF LevelledSlice, q, r1, r2, r3, r4
<1>8. i1 \in Seq(SignerItem) /\ Len(i1) = FirstLevel
  BY <1>5
<1> HIDE DEF i1, i2, i3, i4
<1> DEFINE j2 == i1 \o i2
           j3 == j2 \o i3
<1>9. j2 \in Seq(SignerItem) /\ Len(j2) = FirstLevel + SecondTake
  BY <1>6, <1>8, Joined
<1> HIDE DEF j2
<1>10. j3 \in Seq(SignerItem) /\ Len(j3) = FirstLevel + SecondTake + ThirdTake
  BY <1>6, <1>9, Joined
<1> HIDE DEF j3
<1>11. LevelledSlice(s) \in Seq(SignerItem) /\ Len(LevelledSlice(s)) = OfficialMax
  <2>1. LevelledSlice(s) = j3 \o i4
    BY <1>7 DEF j2, j3
  <2>2. /\ j3 \o i4 \in Seq(SignerItem)
        /\ Len(j3 \o i4) = FirstLevel + SecondTake + ThirdTake + 1
    <3>1. j3 \o i4 \in Seq(SignerItem) /\ Len(j3 \o i4) = Len(j3) + Len(i4)
      BY <1>6, <1>10, Joined
    <3> QED
      BY <1>6, <1>10, <3>1
  <2> QED
    BY <2>1, <2>2, QueueAssumption
<1> QED
  BY <1>2, <1>11

\* What createSignerQueue sorts at the end of a loop: MaxSignerCount signers or
\* fewer, each with a hash.
LEMMA SliceType ==
    ASSUME NEW s, IsSnap(s), ~QueuePanics(s)
    PROVE  /\ SignerSlice(s) \in Seq(SignerItem)
           /\ Len(SignerSlice(s)) <= MaxSignerCount
<1>1. CASE Levelled(s)
  BY <1>1, LevelledSliceType, QueueAssumption DEF SignerSlice
<1>2. CASE ~Levelled(s) /\ IsElection(s)
  <2> DEFINE q == TallyRanking(s.tally, s.punished)
             c == Cardinality(DOMAIN s.tally)
             n == IF MaxSignerCount > c THEN c ELSE MaxSignerCount
             r == SubSeq(q, 1, n)
  <2>1. q \in Seq(Addr) /\ Len(q) = c /\ c \in Nat
    BY RankingSeq DEF IsSnap
  <2>2. n \in Nat /\ n <= c /\ n <= MaxSignerCount
    BY <2>1, QueueAssumption
  <2>3. n <= Len(s.history)
    BY <1>2 DEF QueuePanics, Indexable
  <2>4. SignerSlice(s) = Item(s, r)
    BY <1>2, <2>1 DEF SignerSlice
  <2> HIDE DEF q, n
  <2>5. r \in Seq(Addr) /\ Len(r) = n
    BY <2>1, <2>2
  <2> HIDE DEF r
  <2> QED
    BY <2>2, <2>3, <2>4, <2>5, ItemSlice
<1>3. CASE ~Levelled(s) /\ ~IsElection(s)
  <2>1. SignerSlice(s) = Item(s, s.signers)
    BY <1>3 DEF SignerSlice
  <2>2. s.signers \in Seq(Addr) /\ Len(s.signers) <= Len(s.history) /\ Len(s.signers) = MaxSignerCount
    BY <1>3 DEF QueuePanics, Indexable, IsSnap
  <2> QED
    BY <2>1, <2>2, ItemSlice, QueueAssumption
<1> QED
  BY <1>1, <1>2, <1>3

\* The new queue: MaxSignerCount places, filled in turn.
LEMMA QueueType ==
    ASSUME NEW s, IsSnap(s), ~QueuePanics(s), SignerSlice(s) # <<>>,
           NEW tie \in Ties(MaxSignerCount)
    PROVE  LET sorted == SignersByHash(SignerSlice(s), tie) IN
           /\ CreateSignerQueue(s, tie) \in [1..MaxSignerCount -> Addr]
           /\ sorted \in Seq(SignerItem) /\ Len(sorted) = Len(SignerSlice(s))
           /\ Len(sorted) > 0
           /\ \A i \in 1..MaxSignerCount : CreateSignerQueue(s, tie)[i]
                 = sorted[((i - 1) % Len(sorted)) + 1].addr
<1> DEFINE slice == SignerSlice(s)
           sorted == SignersByHash(slice, tie)
           n == Len(sorted)
<1>1. slice \in Seq(SignerItem) /\ Len(slice) <= MaxSignerCount
  BY SliceType
<1>2. MaxSignerCount \in Nat
  BY QueueAssumption
<1>3. sorted \in Seq(SignerItem) /\ n = Len(slice)
  BY <1>1, <1>2, SortedSlice
<1>4. n \in Nat /\ n > 0
  BY <1>1, <1>3, EmptySeq
<1>5. sorted # <<>>
  BY <1>4
<1>6. CreateSignerQueue(s, tie) = [i \in 1..MaxSignerCount |-> sorted[((i - 1) % n) + 1].addr]
  BY <1>5 DEF CreateSignerQueue
<1> HIDE DEF sorted
<1>7. ASSUME NEW i \in 1..MaxSignerCount PROVE sorted[((i - 1) % n) + 1].addr \in Addr
  <2>1. ((i - 1) % n) + 1 \in 1..n
    BY <1>2, <1>4
  <2>2. sorted[((i - 1) % n) + 1] \in SignerItem
    BY <1>3, <2>1
  <2> QED
    BY <2>2 DEF SignerItem
<1> QED
  BY <1>3, <1>4, <1>6, <1>7 DEF sorted

-----------------------------------------------------------------------------
(* Misses and punishment. *)

\* Numbers in their order.
LEMMA NumberOrder ==
    ASSUME NEW S, S \subseteq Int
    PROVE  StrictOrder({q \in S \X S : q[1] < q[2]}, S)
  BY DEF StrictOrder

\* Ranking numbers lists them all.
LEMMA RankedNumbers ==
    ASSUME NEW S, S \subseteq Int, IsFiniteSet(S)
    PROVE  /\ Ranked(S, <) \in [1..Cardinality(S) -> S]
           /\ Cardinality(S) \in Nat
<1> DEFINE R == {q \in S \X S : q[1] < q[2]}
<1>1. StrictOrder(R, S)
  BY NumberOrder
<1>2. \A x \in S : {y \in S : y < x} = Below(R, S, x)
  BY DEF Below
<1> HIDE DEF R
<1>3. Ranked(S, <) = [i \in 1..Cardinality(S) |->
                        CHOOSE x \in S : Cardinality({y \in S : y < x}) = i - 1]
  BY DEF Ranked
<1>4. ASSUME NEW i \in 1..Cardinality(S)
      PROVE  (CHOOSE x \in S : Cardinality({y \in S : y < x}) = i - 1) \in S
  <2>1. \E x \in S : Cardinality(Below(R, S, x)) = i - 1
    BY <1>1, RankExists
  <2>2. \E x \in S : Cardinality({y \in S : y < x}) = i - 1
    BY <1>2, <2>1
  <2> QED
    BY <2>2
<1> QED
  BY <1>3, <1>4, FS_CardinalityType

\* The first place of a queue with an address in X, or the place after its end.
LEMMA FirstPlace ==
    ASSUME NEW queue \in Seq(Addr), NEW X
    PROVE  \E i \in 1..(Len(queue) + 1) :
              /\ i <= Len(queue) => queue[i] \in X
              /\ \A j \in 1..(i - 1) : queue[j] \notin X
<1> DEFINE n == Len(queue)
           S == {i \in 1..(n + 1) : i <= n => queue[i] \in X}
           R == {q \in S \X S : q[1] < q[2]}
<1>1. n \in Nat /\ n + 1 \in Nat
  OBVIOUS
<1>2. S \subseteq Int /\ S \in SUBSET (1..(n + 1)) /\ n + 1 \in S
  BY <1>1
<1>3. IsFiniteSet(S)
  <2> HIDE DEF n, S
  <2> QED
    BY <1>1, <1>2, UpTo, FS_Subset
<1>4. StrictOrder(R, S)
  <2> HIDE DEF S
  <2> QED
    BY <1>2, NumberOrder
<1>5. Cardinality(S) \in Nat /\ Cardinality(S) # 0
  <2> HIDE DEF S
  <2> QED
    BY <1>2, <1>3, FS_CardinalityType, FS_EmptySet
<1>6. PICK x \in S : Cardinality(Below(R, S, x)) = 0
  <2> HIDE DEF S, R
  <2>1. 1 \in 1..Cardinality(S)
    BY <1>5
  <2>2. \E x \in S : Cardinality(Below(R, S, x)) = 1 - 1
    BY <1>3, <1>4, <2>1, RankExists
  <2> QED
    BY <2>2
<1>7. Below(R, S, x) = {}
  <2> HIDE DEF S, R
  <2> QED
    BY <1>3, <1>4, <1>6, RankGrows, FS_EmptySet
<1>8. \A j \in S : ~(j < x)
  BY <1>7 DEF Below
<1>9. \A j \in 1..(x - 1) : queue[j] \notin X
  BY <1>1, <1>8
<1> QED
  BY <1>9

\* getSignerMissing reports addresses of the queue.
LEMMA MissingType ==
    ASSUME NEW queue \in Seq(Addr), NEW last, NEW current
    PROVE  GetSignerMissing(last, current, queue) \in Seq(Addr)
<1> DEFINE n == Len(queue)
           P(i) == /\ i <= n => queue[i] = last
                   /\ \A j \in 1..(i - 1) : ~(queue[j] = last)
           Q(i) == /\ i <= n => queue[i] # last /\ queue[i] = current
                   /\ \A j \in 1..(i - 1) : ~(queue[j] # last /\ queue[j] = current)
           from == CHOOSE i \in 1..(n + 1) : P(i)
           stop == CHOOSE i \in 1..(n + 1) : Q(i)
           S == {i \in (from + 1)..(stop - 1) : queue[i] # last}
           order == Ranked(S, <)
<1>1. from \in 1..(n + 1)
  <2>1. \E i \in 1..(n + 1) : /\ i <= n => queue[i] \in {last}
                              /\ \A j \in 1..(i - 1) : queue[j] \notin {last}
    BY FirstPlace
  <2>2. \E i \in 1..(n + 1) : P(i)
    BY <2>1
  <2> HIDE DEF P
  <2> QED
    BY <2>2
<1>2. stop \in 1..(n + 1)
  <2>1. \E i \in 1..(n + 1) :
           /\ i <= n => queue[i] \in {current} \ {last}
           /\ \A j \in 1..(i - 1) : queue[j] \notin {current} \ {last}
    BY FirstPlace
  <2>2. \E i \in 1..(n + 1) : Q(i)
    BY <2>1
  <2> HIDE DEF Q
  <2> QED
    BY <2>2
<1>3. GetSignerMissing(last, current, queue) = [k \in DOMAIN order |-> queue[order[k]]]
  BY DEF GetSignerMissing
<1> HIDE DEF from, stop
<1>4. S \subseteq Int /\ S \in SUBSET (1..n) /\ n \in Nat
  BY <1>1, <1>2
<1> HIDE DEF S
<1>5. IsFiniteSet(S)
  BY <1>4, UpTo, FS_Subset
<1>6. order \in [1..Cardinality(S) -> S] /\ Cardinality(S) \in Nat
  BY <1>4, <1>5, RankedNumbers
<1> HIDE DEF order
<1>7. \A i \in S : queue[i] \in Addr
  BY <1>4
<1>8. [k \in DOMAIN order |-> queue[order[k]]] \in [1..Cardinality(S) -> Addr]
  BY <1>6, <1>7
<1> QED
  BY <1>3, <1>6, <1>8, FunSeq

\* Lowering keeps counts positive.
LEMMA LowerType ==
    ASSUME NEW p, IsPunished(p), NEW A, NEW n \in Nat
    PROVE  /\ IsPunished(Lower(p, A, n))
           /\ DOMAIN p \subseteq A =>
                 Lower(p, A, n) \in [DOMAIN Lower(p, A, n) -> Nat \ {0}]
<1> DEFINE keep == {a \in DOMAIN p : a \in A => p[a] > n}
           L == Lower(p, A, n)
<1>1. L = [a \in keep |-> IF a \in A THEN p[a] - n ELSE p[a]]
  BY DEF Lower
<1>2. \A a \in DOMAIN p : p[a] \in Nat
  BY DEF IsPunished
<1>3. \A a \in keep : L[a] \in Nat /\ (a \in A => L[a] \in Nat \ {0})
  BY <1>1, <1>2
<1> QED
  BY <1>1, <1>3 DEF IsPunished

\* Punished keeps its type: no count of zero is stored.
LEMMA PunishType ==
    ASSUME NEW p, IsPunished(p), NEW miss \in Seq(Addr), NEW a
    PROVE  LET U == UpdateForPunish(p, miss, a) IN
           IsPunished(U) /\ U \in [DOMAIN U -> Nat \ {0}]
<1> DEFINE times(b) == Cardinality({i \in DOMAIN miss : miss[i] = b})
           old(b) == IF b \in DOMAIN p THEN p[b] ELSE 0
           more == [b \in DOMAIN p \cup ToSet(miss) |->
                       old(b) + MissingCredit * times(b)]
           signed == Lower(more, {a}, SignCredit)
<1>1. /\ MissingCredit \in Nat /\ SignCredit \in Nat /\ AutoCredit \in Nat
  BY QueueAssumption
<1>2. \A b : times(b) \in Nat
  <2> TAKE b
  <2>1. IsFiniteSet(DOMAIN miss)
    BY UpTo
  <2>2. IsFiniteSet({i \in DOMAIN miss : miss[i] = b})
    BY <2>1, FS_Subset
  <2> QED
    BY <2>2, FS_CardinalityType
<1>3. \A b : old(b) \in Nat
  BY DEF IsPunished
<1>4. ToSet(miss) \subseteq Addr
  BY DEF ToSet
<1> HIDE DEF times, old
<1>5. IsPunished(more)
  <2>1. \A b : old(b) + MissingCredit * times(b) \in Nat
    BY <1>1, <1>2, <1>3
  <2> QED
    BY <1>4, <2>1 DEF IsPunished
<1>6. UpdateForPunish(p, miss, a) = Lower(signed, DOMAIN signed, AutoCredit)
  BY DEF UpdateForPunish, times, old
<1> HIDE DEF more
<1>7. IsPunished(signed)
  BY <1>1, <1>5, LowerType
<1> HIDE DEF signed
<1> QED
  BY <1>1, <1>6, <1>7, LowerType

-----------------------------------------------------------------------------
(* Remainders. *)

\* A multiple of m by a positive number is not below m.
LEMMA MultipleGrows ==
    ASSUME NEW m \in Nat \ {0}, NEW d \in Int, d >= 1
    PROVE  m * d \in Int /\ m * d >= m
<1>1. d - 1 \in Nat
  OBVIOUS
<1>2. \A x, y \in Nat : x * y \in Nat
  OBVIOUS
<1>3. m * (d - 1) \in Nat /\ m * d = m * (d - 1) + m
  BY <1>1, <1>2
<1> QED
  BY <1>3

\* The remainder is determined by the division.
LEMMA RemainderIs ==
    ASSUME NEW a \in Nat, NEW m \in Nat \ {0}, NEW q \in Int, NEW r \in 0..(m - 1),
           a = m * q + r
    PROVE  a % m = r
<1> DEFINE q2 == a \div m
           r2 == a % m
<1>1. q2 \in Int /\ r2 \in 0..(m - 1) /\ a = m * q2 + r2
  OBVIOUS
<1> HIDE DEF q2, r2
<1>2. m * (q - q2) = r2 - r /\ m * (q2 - q) = r - r2
  BY <1>1
<1>3. ~(q - q2 >= 1)
  <2> SUFFICES ASSUME q - q2 >= 1 PROVE FALSE
    OBVIOUS
  <2>1. m * (q - q2) >= m
    BY <1>1, MultipleGrows
  <2> QED
    BY <1>1, <1>2, <2>1
<1>4. ~(q2 - q >= 1)
  <2> SUFFICES ASSUME q2 - q >= 1 PROVE FALSE
    OBVIOUS
  <2>1. m * (q2 - q) >= m
    BY <1>1, MultipleGrows
  <2> QED
    BY <1>1, <1>2, <2>1
<1>5. q = q2
  BY <1>1, <1>3, <1>4
<1> QED
  BY <1>1, <1>5 DEF r2

\* Counting on: the remainder grows by one or starts anew.
LEMMA NextRemainder ==
    ASSUME NEW n \in Nat, NEW m \in Nat \ {0}
    PROVE  /\ n % m \in 0..(m - 1)
           /\ (n + 1) % m = 0 => n % m = m - 1
           /\ (n + 1) % m # 0 => (n + 1) % m = (n % m) + 1
<1> DEFINE q == n \div m
           r == n % m
<1>1. q \in Int /\ r \in 0..(m - 1) /\ n = m * q + r /\ n + 1 \in Nat
  OBVIOUS
<1> HIDE DEF q, r
<1>2. CASE r < m - 1
  <2>1. r + 1 \in 0..(m - 1) /\ n + 1 = m * q + (r + 1)
    BY <1>1, <1>2
  <2>2. (n + 1) % m = r + 1
    BY <1>1, <2>1, RemainderIs
  <2> QED
    BY <1>1, <2>2 DEF r
<1>3. CASE r = m - 1
  <2>1. n + 1 = m * (q + 1) + 0 /\ 0 \in 0..(m - 1) /\ q + 1 \in Int
    BY <1>1, <1>3
  <2>2. (n + 1) % m = 0
    BY <1>1, <2>1, RemainderIs
  <2> QED
    BY <1>1, <1>3, <2>2 DEF r
<1> QED
  BY <1>1, <1>2, <1>3

\* A positive number that m divides is not below m.
LEMMA DividedBy ==
    ASSUME NEW n \in Nat \ {0}, NEW m \in Nat \ {0}, n % m = 0
    PROVE  n >= m
<1> SUFFICES ASSUME n < m PROVE FALSE
  OBVIOUS
<1>1. n \in 0..(m - 1) /\ n = m * 0 + n /\ 0 \in Int
  OBVIOUS
<1>2. n % m = n
  BY <1>1, RemainderIs
<1> QED
  BY <1>2

-----------------------------------------------------------------------------
(* The inductive invariant. *)

\* The loop start is where the schedule puts it: one period per block since
\* the genesis timestamp, for the blocks of the loops that have ended.
LoopPace ==
    loopStart = GenesisTimestamp + Period * (number - (number % MaxSignerCount))

\* A node that has panicked did so at the end of a loop.
PanicAtEnd == failed = "panic" => EndsLoop /\ QueuePanics(Snap)

\* Inside a loop the signer of the head is the one whose turn it was.
HeadInTurn ==
    number > 0 /\ number % MaxSignerCount # 0 =>
        coinbase = TurnOf(signers, loopStart, time)

IInv == TypeOK /\ LoopPace /\ PanicAtEnd /\ HeadInTurn

\* The snapshot that the election sees has its type.
LEMMA SnapType ==
    ASSUME TypeOK
    PROVE  /\ IsSnap(Snap)
           /\ Snap.number = number /\ Snap.signers = signers
           /\ Snap.history = history /\ Snap.punished = punished
           /\ Snap.tally = tally
<1>1. /\ Snap.number = number /\ Snap.signers = signers
      /\ Snap.history = history /\ Snap.punished = punished
      /\ Snap.tally = tally
  BY DEF Snap
<1>2. number \in Nat /\ MaxSignerCount \in Nat
  BY QueueAssumption, RotationAssumption DEF TypeOK
<1>3. signers \in Seq(Addr) /\ Len(signers) = MaxSignerCount
  BY <1>2, FunSeq DEF TypeOK
<1>4. IsPunished(punished)
  BY DEF IsPunished, TypeOK
<1>5. IsTally(tally)
  BY RotationAssumption DEF IsTally, TypeOK
<1>6. history \in Seq(Nat)
  BY DEF TypeOK
<1> QED
  BY <1>1, <1>2, <1>3, <1>4, <1>5, <1>6 DEF IsSnap

\* The invariant holds at the genesis block.
LEMMA InitInv == Init => IInv
<1> SUFFICES ASSUME Init PROVE IInv
  OBVIOUS
<1> USE DEF Init
<1> DEFINE n == Len(SelfVoteSigners)
<1>1. n \in Nat \ {0} /\ MaxSignerCount \in Nat \ {0} /\ 0 \in 0..MaxNumber
  BY RotationAssumption, QueueAssumption
<1>2. signers \in [1..MaxSignerCount -> Addr]
  <2>1. \A i \in 1..MaxSignerCount : ((i - 1) % n) + 1 \in 1..n
    BY <1>1
  <2>2. \A i \in 1..n : SelfVoteSigners[i] \in Addr
    BY RotationAssumption
  <2> QED
    BY <2>1, <2>2
<1>3. history \in Seq(Nat) /\ Len(history) = 1
  <2>1. PICK h \in HashAt[0] : history = <<h>>
    OBVIOUS
  <2>2. h \in Nat
    BY <1>1, RotationAssumption
  <2> QED
    BY <2>1, <2>2
<1>4. Len(history) = IF number + 1 < 2 * MaxSignerCount THEN number + 1
                     ELSE 2 * MaxSignerCount
  BY <1>1, <1>3
<1>5. DOMAIN punished \subseteq Addr /\ punished \in [DOMAIN punished -> Nat \ {0}]
  OBVIOUS
<1>6. TypeOK
  BY <1>1, <1>2, <1>3, <1>4, <1>5, RotationAssumption DEF TypeOK
<1>7. LoopPace
  <2>1. 0 % MaxSignerCount = 0
    BY <1>1
  <2>2. Period * 0 = 0
    BY QueueAssumption
  <2> QED
    BY <2>1, <2>2, RotationAssumption DEF LoopPace
<1>8. PanicAtEnd
  BY DEF PanicAtEnd
<1>9. HeadInTurn
  BY DEF HeadInTurn
<1> QED
  BY <1>6, <1>7, <1>8, <1>9 DEF IInv

\* The next loop starts where the schedule puts it.
LEMMA NextLoopPace ==
    ASSUME IInv
    PROVE  /\ NextLoopStart \in Nat
           /\ NextLoopStart = GenesisTimestamp
                + Period * ((number + 1) - ((number + 1) % MaxSignerCount))
<1> DEFINE m == MaxSignerCount
           r == number % m
           x == number - r
<1>1. /\ number \in Nat /\ m \in Nat \ {0} /\ Period \in Nat
      /\ loopStart \in Nat /\ GenesisTimestamp \in Nat
  BY QueueAssumption, RotationAssumption DEF IInv, TypeOK
<1>2. loopStart = GenesisTimestamp + Period * x
  BY DEF IInv, LoopPace
<1>3. /\ r \in 0..(m - 1)
      /\ (number + 1) % m = 0 => r = m - 1
      /\ (number + 1) % m # 0 => (number + 1) % m = r + 1
  BY <1>1, NextRemainder
<1>4. CASE EndsLoop
  <2>1. (number + 1) % m = 0 /\ NextLoopStart = loopStart + Period * m
    BY <1>4 DEF EndsLoop, NextLoopStart
  <2>2. (number + 1) - 0 = x + m
    BY <1>1, <1>3, <2>1
  <2>3. x \in Int /\ Period * (x + m) = Period * x + Period * m /\ Period * m \in Nat
    <3>1. x \in Int
      BY <1>1, <1>3
    <3> HIDE DEF x, m
    <3>2. \A a, b, c \in Int : a * (b + c) = a * b + a * c
      OBVIOUS
    <3>3. \A a, b \in Nat : a * b \in Nat
      OBVIOUS
    <3> QED
      BY <1>1, <3>1, <3>2, <3>3
  <2> HIDE DEF x
  <2> QED
    BY <1>1, <1>2, <2>1, <2>2, <2>3
<1>5. CASE ~EndsLoop
  <2>1. (number + 1) % m # 0 /\ NextLoopStart = loopStart
    BY <1>5 DEF EndsLoop, NextLoopStart
  <2>2. (number + 1) - ((number + 1) % m) = x
    BY <1>1, <1>3, <2>1
  <2> QED
    BY <1>1, <1>2, <2>1, <2>2
<1> QED
  BY <1>4, <1>5

\* The history gains a hash and keeps at most two loops of them.
LEMMA PushedHash ==
    ASSUME TypeOK, NEW h \in Nat
    PROVE  /\ PushHash(h) \in Seq(Nat)
           /\ Len(PushHash(h)) = IF (number + 1) + 1 < 2 * MaxSignerCount
                                 THEN (number + 1) + 1 ELSE 2 * MaxSignerCount
<1> DEFINE m == 2 * MaxSignerCount
           n == Len(history)
           tail == SubSeq(history, 2, m)
<1>1. /\ m \in Nat /\ m >= 2 /\ number \in Nat
      /\ history \in Seq(Nat) /\ n \in Nat
      /\ n = IF number + 1 < m THEN number + 1 ELSE m
  <2>1. number \in Nat /\ MaxSignerCount \in Nat \ {0}
    BY QueueAssumption, RotationAssumption DEF TypeOK
  <2>2. history \in Seq(Nat) /\ n = IF number + 1 < m THEN number + 1 ELSE m
    BY DEF TypeOK
  <2>3. n \in Nat
    BY <2>2
  <2> HIDE DEF n
  <2> QED
    BY <2>1, <2>2, <2>3
<1>2. <<h>> \in Seq(Nat) /\ Len(<<h>>) = 1
  OBVIOUS
<1> HIDE DEF m
<1>3. CASE n >= m
  <2>1. PushHash(h) = tail \o <<h>>
    BY <1>3 DEF PushHash, m
  <2>2. tail \in Seq(Nat) /\ Len(tail) = m - 1
    BY <1>1, <1>3
  <2> HIDE DEF tail
  <2>3. tail \o <<h>> \in Seq(Nat) /\ Len(tail \o <<h>>) = Len(tail) + 1
    BY <1>2, <2>2, Joined
  <2> QED
    BY <1>1, <1>3, <2>1, <2>2, <2>3 DEF m
<1>4. CASE ~(n >= m)
  <2>1. PushHash(h) = history \o <<h>>
    BY <1>4 DEF PushHash, m
  <2>2. history \o <<h>> \in Seq(Nat) /\ Len(history \o <<h>>) = n + 1
    BY <1>1, <1>2, Joined
  <2> QED
    BY <1>1, <1>4, <2>1, <2>2 DEF m
<1> QED
  BY <1>3, <1>4

\* The signer in turn is in the queue, also when the difference has wrapped.
LEMMA TurnType ==
    ASSUME TypeOK, NEW t \in Nat
    PROVE  TurnOf(signers, loopStart, t) \in Addr
<1> DEFINE x == (t - loopStart) % Word
           y == x \div Period
           z == y % MaxSignerCount
<1>1. /\ Word \in Nat \ {0} /\ Period \in Nat \ {0} /\ loopStart \in Nat
      /\ MaxSignerCount \in Nat \ {0}
  BY QueueAssumption DEF TypeOK
<1>2. x \in Nat
  BY <1>1
<1> HIDE DEF x
<1>3. y \in Nat
  BY <1>1, <1>2
<1> HIDE DEF y
<1>4. z + 1 \in 1..MaxSignerCount
  BY <1>1, <1>3
<1>5. Len(signers) = MaxSignerCount /\ signers \in [1..MaxSignerCount -> Addr]
  BY <1>1, FunSeq DEF TypeOK
<1>6. TurnOf(signers, loopStart, t) = signers[z + 1]
  BY <1>5 DEF TurnOf, x, y
<1> HIDE DEF z
<1> QED
  BY <1>4, <1>5, <1>6

\* A header is not earlier than the count down allows.
LEMMA EarliestType ==
    ASSUME TypeOK
    PROVE  Earliest \in Nat
<1>1. time \in Nat
  BY DEF TypeOK
<1>2. Period \in Nat
  BY QueueAssumption
<1>3. GenesisTimestamp \in Nat /\ StartEarly \in Nat /\ StartEarly <= GenesisTimestamp
  BY RotationAssumption
<1> QED
  BY <1>1, <1>2, <1>3 DEF Earliest

\* A block keeps the types.
LEMMA BlockInv ==
    ASSUME IInv, Block
    PROVE  IInv'
<1>1. TypeOK
  BY DEF IInv
<1>2. PICK delay \in Delays, h \in HashAt[number + 1],
           tie \in IF EndsLoop /\ Levelled(Snap) THEN Ties(MaxSignerCount)
                   ELSE {InOrder(MaxSignerCount)} :
         LET t == Earliest + delay
             signer == TurnOf(signers, loopStart, t)
             miss == IF number = 0 THEN <<>>
                     ELSE GetSignerMissing(coinbase, signer, signers)
         IN  /\ time' = t
             /\ coinbase' = signer
             /\ missing' = miss
             /\ signers' = IF EndsLoop THEN CreateSignerQueue(Snap, tie)
                           ELSE signers
             /\ loopStart' = NextLoopStart
             /\ history' = PushHash(h)
             /\ punished' = UpdateForPunish(punished, miss, signer)
  BY DEF Block
<1> DEFINE t == Earliest + delay
           signer == TurnOf(signers, loopStart, t)
           miss == IF number = 0 THEN <<>>
                   ELSE GetSignerMissing(coinbase, signer, signers)
<1>3. /\ failed = "no" /\ number < MaxNumber
      /\ EndsLoop => ~QueuePanics(Snap) /\ SignerSlice(Snap) # <<>>
      /\ number' = number + 1 /\ tally' \in Tallies /\ failed' = failed
  BY DEF Block
<1>4. number \in Nat /\ MaxNumber \in Nat /\ MaxSignerCount \in Nat \ {0}
  BY <1>1, RotationAssumption, QueueAssumption DEF TypeOK
<1>5. number + 1 \in 0..MaxNumber
  BY <1>3, <1>4
<1>6. t \in Nat
  <2>1. Earliest \in Nat
    BY <1>1, EarliestType
  <2>2. delay \in Nat
    BY RotationAssumption
  <2> QED
    BY <2>1, <2>2
<1> HIDE DEF t
<1>7. signer \in Addr /\ signer \in Nat
  <2>1. signer \in Addr
    BY <1>1, <1>6, TurnType
  <2> QED
    BY <2>1, RotationAssumption
<1> HIDE DEF signer
<1>8. signers \in Seq(Addr) /\ signers \in [1..MaxSignerCount -> Addr]
  BY <1>1, <1>4, FunSeq DEF TypeOK
<1>9. miss \in Seq(Addr)
  BY <1>8, MissingType
<1> HIDE DEF miss
<1>10. signers' \in [1..MaxSignerCount -> Addr]
  <2>1. CASE EndsLoop
    <3>1. tie \in Ties(MaxSignerCount)
      BY <1>4, InOrderTies
    <3>2. IsSnap(Snap)
      BY <1>1, SnapType
    <3>3. CreateSignerQueue(Snap, tie) \in [1..MaxSignerCount -> Addr]
      BY <1>3, <2>1, <3>1, <3>2, QueueType
    <3> QED
      BY <1>2, <2>1, <3>3
  <2>2. CASE ~EndsLoop
    BY <1>2, <1>8, <2>2
  <2> QED
    BY <2>1, <2>2
<1>11. loopStart' \in Nat /\ LoopPace'
  <2>1. loopStart' = NextLoopStart
    BY <1>2
  <2> QED
    BY <1>3, <2>1, NextLoopPace DEF LoopPace
<1>12. /\ history' \in Seq(Nat)
       /\ Len(history') = IF (number + 1) + 1 < 2 * MaxSignerCount
                          THEN (number + 1) + 1 ELSE 2 * MaxSignerCount
  <2>1. h \in Nat
    BY <1>5, RotationAssumption
  <2>2. history' = PushHash(h)
    BY <1>2
  <2> QED
    BY <1>1, <2>1, <2>2, PushedHash
<1>13. DOMAIN punished' \subseteq Addr /\ punished' \in [DOMAIN punished' -> Nat \ {0}]
  <2>1. punished' = UpdateForPunish(punished, miss, signer)
    BY <1>2 DEF miss, signer, t
  <2>2. IsPunished(punished)
    BY <1>1 DEF TypeOK, IsPunished
  <2>3. LET U == UpdateForPunish(punished, miss, signer) IN
        IsPunished(U) /\ U \in [DOMAIN U -> Nat \ {0}]
    BY <1>9, <2>2, PunishType
  <2> QED
    BY <2>1, <2>3 DEF IsPunished
<1>14. time' \in Nat /\ coinbase' \in Nat /\ missing' \in Seq(Addr)
  BY <1>2, <1>6, <1>7, <1>9 DEF miss, signer, t
<1>15. failed' \in {"no", "empty", "panic"}
  BY <1>3
<1>16. TypeOK'
  BY <1>3, <1>5, <1>10, <1>11, <1>12, <1>13, <1>14, <1>15 DEF TypeOK
<1>17. PanicAtEnd'
  BY <1>3 DEF PanicAtEnd
<1>18. HeadInTurn'
  <2> SUFFICES ASSUME (number + 1) % MaxSignerCount # 0
               PROVE  coinbase' = TurnOf(signers', loopStart', time')
    BY <1>3 DEF HeadInTurn
  <2>1. ~EndsLoop
    BY DEF EndsLoop
  <2>2. signers' = signers /\ loopStart' = loopStart
    BY <1>2, <2>1 DEF NextLoopStart
  <2>3. coinbase' = signer /\ time' = t
    BY <1>2 DEF signer, t
  <2> QED
    BY <2>2, <2>3 DEF signer
<1> QED
  BY <1>11, <1>16, <1>17, <1>18 DEF IInv

\* A step that leaves the chain as it is keeps the invariant, if it does not
\* claim a panic that is not there.
LEMMA SameChain ==
    ASSUME IInv, failed' \in {"no", "empty", "panic"},
           failed' = "panic" => EndsLoop /\ QueuePanics(Snap),
           UNCHANGED <<number, time, coinbase, missing, loopStart, signers,
                       history, punished, tally>>
    PROVE  IInv'
<1>1. TypeOK'
  BY DEF IInv, TypeOK
<1>2. LoopPace'
  BY DEF IInv, LoopPace
<1>3. EndsLoop' = EndsLoop
  BY DEF EndsLoop
<1>4. QueuePanics(Snap)' = QueuePanics(Snap)
  BY DEF QueuePanics, Levelled, IsElection, Indexable, Snap
<1>5. PanicAtEnd'
  BY <1>3, <1>4 DEF PanicAtEnd
<1>6. HeadInTurn'
  BY DEF IInv, HeadInTurn, TurnOf
<1> QED
  BY <1>1, <1>2, <1>5, <1>6 DEF IInv

\* Every step keeps the invariant.
LEMMA NextInv ==
    ASSUME IInv, [Next]_vars
    PROVE  IInv'
<1>1. CASE Block
  BY <1>1, BlockInv
<1>2. CASE NoSigners
  BY <1>2, SameChain DEF NoSigners
<1>3. CASE HistoryPanic
  BY <1>3, SameChain DEF HistoryPanic
<1>4. CASE UNCHANGED vars
  <2>1. failed' = failed
    BY <1>4 DEF vars
  <2>2. failed \in {"no", "empty", "panic"} /\ (failed = "panic" => EndsLoop /\ QueuePanics(Snap))
    BY DEF IInv, TypeOK, PanicAtEnd
  <2>3. UNCHANGED <<number, time, coinbase, missing, loopStart, signers,
                    history, punished, tally>>
    BY <1>4 DEF vars
  <2> QED
    BY <2>1, <2>2, <2>3, SameChain
<1> QED
  BY <1>1, <1>2, <1>3, <1>4 DEF Next

\* The invariant: types, the pace of loops, the cause of a panic and the turn of
\* the head (Finalize, verifySeal, apply).
THEOREM RotationInv == Spec => []IInv
<1>1. IInv /\ [Next]_vars => IInv'
  BY NextInv
<1> QED
  BY <1>1, InitInv, PTL DEF Spec

-----------------------------------------------------------------------------
(* The theorems. *)

\* When block 1 is not earlier than the genesis timestamp, inturn never
\* subtracts a loop start from an earlier time.
THEOREM TurnsNeverWrap == Spec => []NoWrapAfterStart
<1>1. IInv => NoWrapAfterStart
  <2> SUFFICES ASSUME IInv, number > 0,
                      time >= GenesisTimestamp + (number - 1) * Period
               PROVE  Earliest >= loopStart
    BY DEF IInv, NoWrapAfterStart
  <2> DEFINE r == number % MaxSignerCount
  <2>1. number \in Nat \ {0} /\ MaxSignerCount \in Nat \ {0}
    BY QueueAssumption, RotationAssumption DEF IInv, TypeOK
  <2>2. Period \in Nat /\ GenesisTimestamp \in Nat
    BY QueueAssumption, RotationAssumption
  <2>3. time \in Nat
    BY DEF IInv, TypeOK
  <2>4. r \in Nat /\ number - r \in Int
    BY <2>1
  <2>5. loopStart = GenesisTimestamp + Period * (number - r)
    BY DEF IInv, LoopPace
  <2>6. Earliest = time + Period
    BY <2>1 DEF Earliest
  <2> HIDE DEF r
  <2>7. /\ Period * (number - r) = Period * number - Period * r
        /\ (number - 1) * Period = Period * number - Period
        /\ Period * r \in Nat /\ Period * number \in Nat
    <3>1. \A x, y \in Nat : x * y \in Nat
      OBVIOUS
    <3> QED
      BY <2>1, <2>2, <2>4, <3>1
  <2> QED
    BY <2>2, <2>3, <2>5, <2>6, <2>7
<1> QED
  BY <1>1, RotationInv, PTL

\* Two loops have passed before an election that is not every loop's.
LEMMA TwoLoops ==
    ASSUME TypeOK, IsElection(Snap), LCRS > 1
    PROVE  Len(history) = 2 * MaxSignerCount
<1> DEFINE m == MaxSignerCount * LCRS
<1>1. number \in Nat /\ MaxSignerCount \in Nat \ {0} /\ LCRS \in Nat
  BY QueueAssumption, RotationAssumption DEF TypeOK
<1>2. /\ LCRS - 2 \in Nat /\ MaxSignerCount * (LCRS - 2) \in Nat
      /\ m = MaxSignerCount * (LCRS - 2) + 2 * MaxSignerCount
  <2>1. LCRS - 2 \in Nat
    BY <1>1
  <2>2. \A x, y \in Nat : x * y \in Nat
    OBVIOUS
  <2> QED
    BY <1>1, <2>1, <2>2
<1>3. m \in Nat \ {0} /\ m >= 2 * MaxSignerCount
  BY <1>1, <1>2
<1>4. (number + 1) % m = 0
  BY DEF IsElection, Snap
<1> HIDE DEF m
<1>5. number + 1 >= m
  <2>1. number + 1 \in Nat \ {0}
    BY <1>1
  <2> QED
    BY <1>3, <1>4, <2>1, DividedBy
<1>6. Len(history) = IF number + 1 < 2 * MaxSignerCount THEN number + 1
                     ELSE 2 * MaxSignerCount
  BY DEF TypeOK
<1> QED
  BY <1>1, <1>3, <1>5, <1>6

\* createSignerQueue reads hashes that are not kept only in the last level of a
\* levelled election that has too many candidates for it.
THEOREM PanicsBeyondWindow == Spec => []PanicOnlyBeyondWindow
<1>1. IInv => PanicOnlyBeyondWindow
  <2> SUFFICES ASSUME IInv, failed = "panic", LCRS > 1,
                      ThirdLevel <= 2 * MaxSignerCount
               PROVE  Levelled(Snap)
                      /\ Cardinality(DOMAIN tally) > ThirdLevel + 2 * MaxSignerCount
    BY DEF PanicOnlyBeyondWindow
  <2> DEFINE m == MaxSignerCount
             n == Len(history)
             c == Cardinality(DOMAIN tally)
  <2>1. TypeOK /\ EndsLoop /\ QueuePanics(Snap)
    BY DEF IInv, PanicAtEnd
  <2>2. number \in Nat /\ m \in Nat \ {0}
    BY <2>1, QueueAssumption, RotationAssumption DEF TypeOK
  <2>3. n >= m /\ n \in Nat
    <3>1. number + 1 >= m
      <4>1. number + 1 \in Nat \ {0} /\ (number + 1) % m = 0
        BY <2>1, <2>2 DEF EndsLoop
      <4> QED
        BY <2>2, <4>1, DividedBy
    <3>2. n = IF number + 1 < 2 * MaxSignerCount THEN number + 1
              ELSE 2 * MaxSignerCount
      BY <2>1 DEF TypeOK
    <3> HIDE DEF n
    <3> QED
      BY <2>2, <3>1, <3>2
  <2>4. c \in Nat
    BY <2>1, FS_CardinalityType, RotationAssumption DEF TypeOK
  <2>5. Snap.history = history /\ Snap.tally = tally /\ Len(Snap.signers) = m
    BY <2>1, SnapType DEF IsSnap
  <2>6. Levelled(Snap)
    <3> SUFFICES ASSUME ~Levelled(Snap) PROVE FALSE
      OBVIOUS
    <3>1. ~Indexable(Snap, IF m > c THEN c ELSE m) \/ ~Indexable(Snap, m)
      BY <2>1, <2>5 DEF QueuePanics
    <3> HIDE DEF m, c, n
    <3> QED
      BY <2>2, <2>3, <2>4, <2>5, <3>1 DEF Indexable, n
  <2>7. n = 2 * m
    BY <2>1, <2>6, TwoLoops DEF Levelled
  <2>8. \/ ~(FirstLevel <= n) \/ ~(SecondLevel - FirstLevel <= n)
        \/ ~(ThirdLevel - SecondLevel <= n) \/ ~(c - ThirdLevel <= n)
    BY <2>1, <2>5, <2>6 DEF QueuePanics, Indexable
  <2>9. /\ FirstLevel \in Nat /\ SecondLevel \in Nat /\ ThirdLevel \in Nat
        /\ FirstLevel <= SecondLevel /\ SecondLevel <= ThirdLevel
    BY QueueAssumption
  <2> HIDE DEF m, c, n
  <2> QED
    BY <2>2, <2>4, <2>6, <2>7, <2>8, <2>9 DEF m, c
<1> QED
  BY <1>1, RotationInv, PTL

-----------------------------------------------------------------------------
(* What the end of a loop does to the signers. *)

\* A number that grows is a block's.
LEMMA BlockStep ==
    ASSUME IInv, [Next]_vars, number' # number, EndsLoop
    PROVE  /\ IsSnap(Snap) /\ ~QueuePanics(Snap) /\ SignerSlice(Snap) # <<>>
           /\ \E tie \in Ties(MaxSignerCount) :
                 signers' = CreateSignerQueue(Snap, tie)
<1>1. Block
  BY DEF Next, NoSigners, HistoryPanic, vars
<1>2. InOrder(MaxSignerCount) \in Ties(MaxSignerCount)
  BY InOrderTies, QueueAssumption
<1>3. \E tie \in Ties(MaxSignerCount) : signers' = CreateSignerQueue(Snap, tie)
  BY <1>1, <1>2 DEF Block
<1> QED
  BY <1>1, <1>3, SnapType DEF Block, IInv

\* The queue is the slice, reordered and repeated.
LEMMA QueueRepeats ==
    ASSUME IInv, [Next]_vars, number' # number, EndsLoop
    PROVE  LET slice == SignerSlice(Snap)
               n == Len(slice)
           IN  /\ slice \in Seq(SignerItem) /\ n \in 1..MaxSignerCount
               /\ signers' \in [1..MaxSignerCount -> Addr]
               /\ \E order \in Bijection(1..n, 1..n) :
                     \A i \in 1..MaxSignerCount :
                        /\ ((i - 1) % n) + 1 \in 1..n
                        /\ signers'[i] = slice[order[((i - 1) % n) + 1]].addr
<1> DEFINE slice == SignerSlice(Snap)
           n == Len(slice)
<1>1. IsSnap(Snap) /\ ~QueuePanics(Snap) /\ SignerSlice(Snap) # <<>>
  BY BlockStep
<1>2. PICK tie \in Ties(MaxSignerCount) : signers' = CreateSignerQueue(Snap, tie)
  BY BlockStep
<1> DEFINE sorted == SignersByHash(slice, tie)
<1>3. MaxSignerCount \in Nat
  BY QueueAssumption
<1>4. slice \in Seq(SignerItem) /\ n <= MaxSignerCount
  BY <1>1, SliceType
<1>5. /\ signers' \in [1..MaxSignerCount -> Addr]
      /\ Len(sorted) = n /\ n > 0
      /\ \A i \in 1..MaxSignerCount :
            signers'[i] = sorted[((i - 1) % Len(sorted)) + 1].addr
  BY <1>1, <1>2, QueueType
<1> HIDE DEF slice
<1>6. n \in Nat /\ DOMAIN slice = 1..n
  BY <1>4
<1>7. PICK order \in Bijection(DOMAIN slice, DOMAIN slice) :
         sorted = [i \in DOMAIN slice |-> slice[order[i]]]
  BY <1>3, <1>4, SortedByHash
<1> HIDE DEF sorted, n
<1>8. n \in 1..MaxSignerCount
  BY <1>3, <1>4, <1>5, <1>6 DEF n
<1>9. ASSUME NEW i \in 1..MaxSignerCount
      PROVE  /\ ((i - 1) % n) + 1 \in 1..n
             /\ signers'[i] = slice[order[((i - 1) % n) + 1]].addr
  <2>1. ((i - 1) % n) + 1 \in 1..n
    BY <1>3, <1>8
  <2>2. signers'[i] = sorted[((i - 1) % n) + 1].addr
    BY <1>5
  <2> DEFINE k == ((i - 1) % n) + 1
  <2> HIDE DEF k
  <2>3. sorted[k] = slice[order[k]]
    BY <1>6, <1>7, <2>1 DEF k
  <2> QED
    BY <2>1, <2>2, <2>3 DEF k
<1>10. order \in Bijection(1..n, 1..n)
  BY <1>6, <1>7
<1>11. /\ slice \in Seq(SignerItem) /\ n \in 1..MaxSignerCount
       /\ signers' \in [1..MaxSignerCount -> Addr]
       /\ \E o \in Bijection(1..n, 1..n) :
             \A i \in 1..MaxSignerCount :
                /\ ((i - 1) % n) + 1 \in 1..n
                /\ signers'[i] = slice[o[((i - 1) % n) + 1]].addr
  BY <1>4, <1>5, <1>8, <1>9, <1>10
<1> QED
  BY <1>11 DEF n, slice

\* The places in J that a queue gives to a.
Places(queue, J, a) == {i \in J : queue[i] = a}

\* Reordering changes no count.
LEMMA CountMoved ==
    ASSUME NEW J, IsFiniteSet(J), NEW f \in Bijection(J, J), NEW g, NEW h, NEW a,
           \A i \in J : h[i] = g[f[i]]
    PROVE  Cardinality(Places(g, J, a)) = Cardinality(Places(h, J, a))
<1> DEFINE A == {i \in J : h[i] = a}
           B == {j \in J : g[j] = a}
           F == [i \in A |-> f[i]]
<1>1. /\ \A i \in J : f[i] \in J
      /\ \A i, j \in J : f[i] = f[j] => i = j
      /\ \A j \in J : \E i \in J : f[i] = j
  BY Fun_BijectionProperties
<1>2. F \in [A -> B]
  BY <1>1
<1>3. \A i, j \in A : F[i] = F[j] => i = j
  BY <1>1
<1>4. \A j \in B : \E i \in A : F[i] = j
  BY <1>1
<1>5. F \in Bijection(A, B)
  BY <1>2, <1>3, <1>4, Fun_IsInj, Fun_IsSurj DEF Bijection
<1>6. ExistsBijection(A, B)
  BY <1>5 DEF ExistsBijection
<1>7. IsFiniteSet(A)
  BY FS_Subset
<1> HIDE DEF A, B
<1>8. Cardinality(B) = Cardinality(A)
  BY <1>6, <1>7, FS_Bijection
<1> QED
  BY <1>8 DEF A, B, Places

\* At the end of a loop without an election createSignerQueue only reorders the
\* signers, however sort.Sort treats equal hashes.
THEOREM LoopsOnlyReorder == Spec => RotationPermutes
<1>1. ASSUME IInv, [Next]_vars, EndsLoop, ~IsElection(Snap), number' # number
      PROVE  \A a \in Addr : Cardinality({i \in DOMAIN signers : signers[i] = a})
                     = Cardinality({i \in DOMAIN signers' : signers'[i] = a})
  <2> DEFINE m == MaxSignerCount
             slice == SignerSlice(Snap)
  <2>1. /\ IsSnap(Snap) /\ ~QueuePanics(Snap)
        /\ Snap.signers = signers /\ Snap.history = history
    BY <1>1, BlockStep, SnapType DEF IInv
  <2>2. signers \in Seq(Addr) /\ Len(signers) = m /\ m \in Nat \ {0}
    BY <2>1, QueueAssumption DEF IsSnap
  <2>3. slice = Item(Snap, signers) /\ Len(signers) <= Len(Snap.history)
    BY <1>1, <2>1 DEF SignerSlice, QueuePanics, Indexable, Levelled
  <2>4. Len(slice) = m /\ \A i \in 1..m : slice[i].addr = signers[i]
    BY <2>1, <2>2, <2>3, ItemSlice
  <2>5. /\ signers' \in [1..m -> Addr]
        /\ \E order \in Bijection(1..m, 1..m) :
              \A i \in 1..m : signers'[i] = slice[order[((i - 1) % m) + 1]].addr
    BY <1>1, <2>4, QueueRepeats
  <2> HIDE DEF slice
  <2>6. PICK order \in Bijection(1..m, 1..m) :
           \A i \in 1..m : signers'[i] = slice[order[((i - 1) % m) + 1]].addr
    BY <2>5
  <2>7. \A i \in 1..m : signers'[i] = signers[order[i]]
    <3> TAKE i \in 1..m
    <3>1. ((i - 1) % m) + 1 = i
      <4>1. i - 1 \in 0..(m - 1) /\ i - 1 \in Nat /\ i - 1 = m * 0 + (i - 1) /\ 0 \in Int
        BY <2>2
      <4>2. (i - 1) % m = i - 1
        BY <2>2, <4>1, RemainderIs
      <4> QED
        BY <4>2
    <3>2. order[i] \in 1..m
      BY DEF Bijection, Injection
    <3> QED
      BY <2>4, <2>6, <3>1, <3>2, SMTT(30)
  <2>8. DOMAIN signers = 1..m /\ DOMAIN signers' = 1..m
    BY <2>2, <2>5
  <2>9. IsFiniteSet(1..m)
    BY <2>2, UpTo
  <2> TAKE a \in Addr
  <2> HIDE DEF m
  <2>10. Cardinality({j \in 1..m : signers[j] = a})
            = Cardinality({i \in 1..m : signers'[i] = a})
    <3> DEFINE J == 1..m
               next == signers'
    <3>1. IsFiniteSet(J) /\ order \in Bijection(J, J) /\ \A i \in J : next[i] = signers[order[i]]
      BY <2>7, <2>9
    <3> HIDE DEF J, next
    <3>2. Cardinality(Places(signers, J, a)) = Cardinality(Places(next, J, a))
      BY <3>1, CountMoved
    <3> QED
      BY <3>2 DEF J, next, Places
  <2> QED
    BY <2>8, <2>10
<1> QED
  BY <1>1, RotationInv, PTL DEF Spec, RotationPermutes

\* The places of the k-th of n signers in a queue of m places.
Slots(m, n, k) == {i \in 1..m : ((i - 1) % n) + 1 = k}

\* Filling a queue in turn gives everyone nearly the same number of places.
LEMMA SlotsNear ==
    ASSUME NEW m \in Nat, NEW n \in 1..m, NEW k \in 1..n, NEW l \in 1..n
    PROVE  /\ IsFiniteSet(Slots(m, n, k))
           /\ Cardinality(Slots(m, n, k)) <= Cardinality(Slots(m, n, l)) + 1
<1> DEFINE A == Slots(m, n, k)
           B == Slots(m, n, l)
           C == A \ {k}
           F == [i \in C |-> i - n + l - k]
<1>1. IsFiniteSet(A) /\ IsFiniteSet(B)
  <2>1. IsFiniteSet(1..m) /\ A \in SUBSET (1..m) /\ B \in SUBSET (1..m)
    BY UpTo DEF Slots
  <2> QED
    BY <2>1, FS_Subset
<1>2. ASSUME NEW i \in C
      PROVE  F[i] \in B
  <2> DEFINE d == (i - 1) \div n
             j == i - n + l - k
  <2>1. i \in 1..m /\ i # k /\ (i - 1) % n = k - 1
    BY DEF Slots
  <2>2. n \in Nat \ {0} /\ k \in Nat /\ l \in Nat
    OBVIOUS
  <2>3. d \in Int /\ i - 1 = n * d + (k - 1) /\ d >= 0
    BY <2>1, <2>2
  <2> HIDE DEF d
  <2>4. d # 0
    BY <2>1, <2>2, <2>3
  <2>5. d >= 1 /\ d - 1 \in Nat
    BY <2>3, <2>4
  <2>6. n * d >= n /\ n * d \in Int
    BY <2>2, <2>3, <2>5, MultipleGrows
  <2>7. j \in 1..m
    BY <2>1, <2>2, <2>3, <2>6
  <2>8. j - 1 = n * (d - 1) + (l - 1)
    <3>1. n * (d - 1) = n * d - n
      BY <2>2, <2>3
    <3> QED
      BY <2>1, <2>2, <2>3, <2>6, <3>1
  <2>9. (j - 1) % n = l - 1
    <3>1. j - 1 \in Nat /\ l - 1 \in 0..(n - 1) /\ d - 1 \in Int
      BY <2>2, <2>5, <2>7
    <3> HIDE DEF j
    <3> QED
      BY <2>2, <2>8, <3>1, RemainderIs
  <2>10. ((j - 1) % n) + 1 = l
    BY <2>2, <2>9
  <2> QED
    BY <2>7, <2>10 DEF Slots
<1>3. F \in [C -> B]
  BY <1>2
<1>4. \A i, j \in C : F[i] = F[j] => i = j
  BY DEF Slots
<1> HIDE DEF F, A, B
<1>5. F \in Injection(C, B)
  BY <1>3, <1>4, Fun_IsInj
<1>6. IsFiniteSet(C) /\ Cardinality(C) <= Cardinality(B)
  BY <1>1, <1>5, FS_Injection
<1>7. Cardinality(C) = IF k \in A THEN Cardinality(A) - 1 ELSE Cardinality(A)
  BY <1>1, FS_RemoveElement
<1>8. Cardinality(A) \in Nat /\ Cardinality(B) \in Nat /\ Cardinality(C) \in Nat
  BY <1>1, <1>6, FS_CardinalityType
<1> QED
  BY <1>1, <1>6, <1>7, <1>8 DEF A, B

\* A queue of m places filled in turn with the first n of a ranking q.
FilledFrom(queue, m, q, n) ==
    /\ queue \in [1..m -> Addr]
    /\ \E order \in Bijection(1..n, 1..n) :
          \A i \in 1..m : /\ ((i - 1) % n) + 1 \in 1..n
                          /\ queue[i] = q[order[((i - 1) % n) + 1]]

\* Such a queue holds exactly these, nearly equally often.
LEMMA FilledHolds ==
    ASSUME NEW m \in Nat, NEW n \in 1..m, NEW queue, NEW q,
           FilledFrom(queue, m, q, n),
           \A i, j \in 1..n : q[i] = q[j] => i = j
    PROVE  /\ ToSet(queue) = {q[k] : k \in 1..n}
           /\ \A a, b \in ToSet(queue) :
                 Cardinality(Places(queue, 1..m, a))
                    <= Cardinality(Places(queue, 1..m, b)) + 1
<1>1. PICK order \in Bijection(1..n, 1..n) :
         \A i \in 1..m : /\ ((i - 1) % n) + 1 \in 1..n
                         /\ queue[i] = q[order[((i - 1) % n) + 1]]
  BY DEF FilledFrom
<1>2. DOMAIN queue = 1..m /\ n \in Nat \ {0} /\ \A k \in 1..n : k \in 1..m
  BY DEF FilledFrom
<1>3. /\ \A k \in 1..n : order[k] \in 1..n
      /\ \A j, k \in 1..n : order[j] = order[k] => j = k
      /\ \A j \in 1..n : \E k \in 1..n : order[k] = j
  <2>1. order \in [1..n -> 1..n] /\ IsInjective(order)
    BY DEF Bijection, Injection
  <2>2. \A j \in 1..n : \E k \in 1..n : order[k] = j
    BY DEF Bijection, Surjection
  <2>3. \A j, k \in 1..n : order[j] = order[k] => j = k
    BY <2>1 DEF IsInjective
  <2> QED
    BY <2>1, <2>2, <2>3
<1>4. \A k \in 1..n : queue[k] = q[order[k]]
  <2> TAKE k \in 1..n
  <2>1. k - 1 \in 0..(n - 1) /\ k - 1 \in Nat /\ k - 1 = n * 0 + (k - 1) /\ 0 \in Int
    BY <1>2
  <2>2. (k - 1) % n = k - 1
    BY <1>2, <2>1, RemainderIs
  <2>3. ((k - 1) % n) + 1 = k
    BY <2>2
  <2> QED
    BY <1>1, <1>2, <2>3
<1>5. ToSet(queue) = {queue[i] : i \in 1..m}
  BY <1>2 DEF ToSet
<1>6. \A i \in 1..m : \E k \in 1..n : queue[i] = q[order[k]]
  BY <1>1
<1>7. ToSet(queue) = {q[k] : k \in 1..n}
  <2>1. \A k \in 1..n : \E i \in 1..m : q[k] = queue[i]
    <3> TAKE k \in 1..n
    <3>1. PICK i \in 1..n : order[i] = k
      BY <1>3
    <3>2. queue[i] = q[k] /\ i \in 1..m
      BY <1>2, <1>4, <3>1
    <3> QED
      BY <3>2
  <2>2. \A i \in 1..m : \E k \in 1..n : queue[i] = q[k]
    BY <1>3, <1>6
  <2> QED
    BY <1>5, <2>1, <2>2, SMTT(30)
<1>8. \A a \in ToSet(queue) : \E k \in 1..n : a = q[order[k]]
  BY <1>5, <1>6
<1>9. ASSUME NEW k \in 1..n
      PROVE  Places(queue, 1..m, q[order[k]]) = Slots(m, n, k)
  <2> DEFINE p(i) == ((i - 1) % n) + 1
  <2>1. \A i \in 1..m : p(i) \in 1..n /\ queue[i] = q[order[p(i)]]
    BY <1>1
  <2>2. Slots(m, n, k) = {i \in 1..m : p(i) = k}
    BY DEF Slots
  <2> HIDE DEF p
  <2>3. \A i \in 1..m : queue[i] = q[order[k]] <=> p(i) = k
    <3> SUFFICES ASSUME NEW i \in 1..m, queue[i] = q[order[k]] PROVE p(i) = k
      BY <2>1
    <3>1. p(i) \in 1..n /\ q[order[p(i)]] = q[order[k]]
      BY <2>1
    <3>2. order[p(i)] \in 1..n /\ order[k] \in 1..n
      BY <1>3, <3>1
    <3>3. order[p(i)] = order[k]
      BY <3>1, <3>2
    <3> QED
      BY <1>3, <3>1, <3>3
  <2> QED
    BY <2>2, <2>3 DEF Places
<1>10. ASSUME NEW a \in ToSet(queue), NEW b \in ToSet(queue)
       PROVE  Cardinality(Places(queue, 1..m, a))
                 <= Cardinality(Places(queue, 1..m, b)) + 1
  <2>1. PICK k \in 1..n : a = q[order[k]]
    BY <1>8
  <2>2. PICK l \in 1..n : b = q[order[l]]
    BY <1>8
  <2> QED
    BY <1>9, <2>1, <2>2, SlotsNear
<1> QED
  BY <1>7, <1>10

\* How many an election without levels takes.
Seats == LET c == Cardinality(DOMAIN tally) IN
         IF MaxSignerCount > c THEN c ELSE MaxSignerCount

\* An election without levels fills the queue from the top of the ranking.
LEMMA Elected ==
    ASSUME IInv, [Next]_vars, number' # number,
           EndsLoop, IsElection(Snap), ~Levelled(Snap)
    PROVE  LET q == TallyRanking(tally, punished)
               c == Cardinality(DOMAIN tally)
           IN  /\ c \in Nat /\ Seats \in 1..MaxSignerCount /\ Seats <= c
               /\ q \in [1..c -> DOMAIN tally]
               /\ \A i, j \in 1..c : q[i] = q[j] => i = j
               /\ \A a \in DOMAIN tally : \E i \in 1..c : q[i] = a
               /\ \A i, j \in 1..c :
                     i < j => TallyBefore(tally, punished, q[i], q[j])
               /\ FilledFrom(signers', MaxSignerCount, q, Seats)
<1> DEFINE q == TallyRanking(tally, punished)
           c == Cardinality(DOMAIN tally)
           m == MaxSignerCount
           n == Seats
           r == SubSeq(q, 1, n)
           slice == SignerSlice(Snap)
           R == TallyOrder(tally, punished)
<1>1. /\ IsSnap(Snap) /\ ~QueuePanics(Snap)
      /\ Snap.history = history /\ Snap.punished = punished /\ Snap.tally = tally
  BY BlockStep, SnapType DEF IInv
<1>2. IsTally(tally) /\ IsPunished(punished) /\ m \in Nat \ {0}
  BY <1>1, QueueAssumption DEF IsSnap
<1>3. q \in Seq(Addr) /\ Len(q) = c /\ c \in Nat
  BY <1>2, RankingSeq
<1>4. IsFiniteSet(DOMAIN tally) /\ StrictOrder(R, DOMAIN tally) /\ IsRanking(q, R, DOMAIN tally)
  BY <1>2, TallyRanked DEF IsTally
<1>5. /\ q \in Bijection(1..c, DOMAIN tally)
      /\ \A i, j \in 1..c : i < j => <<q[i], q[j]>> \in R
  BY <1>4, RankingLists
<1>6. /\ q \in [1..c -> DOMAIN tally] /\ IsInjective(q)
      /\ \A a \in DOMAIN tally : \E i \in 1..c : q[i] = a
  BY <1>5 DEF Bijection, Injection, Surjection
<1>7. \A i, j \in 1..c : q[i] = q[j] => i = j
  BY <1>6 DEF IsInjective
<1>8. \A i, j \in 1..c : i < j => TallyBefore(tally, punished, q[i], q[j])
  BY <1>5 DEF TallyOrder
<1>9. n \in Nat /\ n <= c /\ n <= m
  BY <1>2, <1>3 DEF Seats
<1>10. n <= Len(Snap.history)
  BY <1>1 DEF QueuePanics, Indexable, Seats
<1>11. slice = Item(Snap, r)
  BY <1>1, <1>3 DEF SignerSlice, Seats
<1> HIDE DEF q, n, c
<1>12. r \in Seq(Addr) /\ Len(r) = n /\ \A i \in 1..n : r[i] = q[i]
  BY <1>3, <1>9
<1> HIDE DEF r
<1>13. Len(slice) = n /\ \A i \in 1..n : slice[i].addr = q[i]
  BY <1>1, <1>10, <1>11, <1>12, ItemSlice
<1>14. /\ n \in 1..m /\ signers' \in [1..m -> Addr]
       /\ \E order \in Bijection(1..n, 1..n) :
             \A i \in 1..m :
                /\ ((i - 1) % n) + 1 \in 1..n
                /\ signers'[i] = slice[order[((i - 1) % n) + 1]].addr
  BY <1>13, QueueRepeats
<1> HIDE DEF slice
<1>15. PICK order \in Bijection(1..n, 1..n) :
          \A i \in 1..m :
             /\ ((i - 1) % n) + 1 \in 1..n
             /\ signers'[i] = slice[order[((i - 1) % n) + 1]].addr
  BY <1>14
<1>16. \A k \in 1..n : order[k] \in 1..n
  BY DEF Bijection, Injection
<1>17. FilledFrom(signers', m, q, n)
  <2>1. \A i \in 1..m : /\ ((i - 1) % n) + 1 \in 1..n
                         /\ signers'[i] = q[order[((i - 1) % n) + 1]]
    BY <1>13, <1>15, <1>16
  <2>2. signers' \in [1..m -> Addr]
    BY <1>14
  <2> QED
    BY <2>1, <2>2 DEF FilledFrom
<1> QED
  BY <1>3, <1>6, <1>7, <1>8, <1>9, <1>14, <1>17 DEF q, c, n

\* Those elected: the first of the ranking, and all seats are filled when
\* someone is left out.
LEMMA ElectedFirst ==
    ASSUME IInv, [Next]_vars, number' # number,
           EndsLoop, IsElection(Snap), ~Levelled(Snap)
    PROVE  /\ ToSet(signers') \subseteq DOMAIN tally
           /\ \A a \in ToSet(signers'), b \in DOMAIN tally \ ToSet(signers') :
                 /\ TallyBefore(tally, punished, a, b)
                 /\ Cardinality(ToSet(signers')) = MaxSignerCount
           /\ \A a, b \in ToSet(signers') :
                 Cardinality(Places(signers', 1..MaxSignerCount, a))
                    <= Cardinality(Places(signers', 1..MaxSignerCount, b)) + 1
<1> DEFINE q == TallyRanking(tally, punished)
           c == Cardinality(DOMAIN tally)
           m == MaxSignerCount
           n == Seats
           E == ToSet(signers')
           next == signers'
<1>1. /\ c \in Nat /\ n \in 1..m /\ n <= c
      /\ q \in [1..c -> DOMAIN tally]
      /\ \A i, j \in 1..c : q[i] = q[j] => i = j
      /\ \A a \in DOMAIN tally : \E i \in 1..c : q[i] = a
      /\ \A i, j \in 1..c : i < j => TallyBefore(tally, punished, q[i], q[j])
      /\ FilledFrom(next, m, q, n)
  BY Elected
<1>2. m \in Nat /\ n = IF m > c THEN c ELSE m
  BY QueueAssumption DEF Seats
<1> HIDE DEF q, c, n, m
<1>3. \A k \in 1..n : k \in 1..c
  BY <1>1, <1>2
<1>4. \A i, j \in 1..n : q[i] = q[j] => i = j
  BY <1>1, <1>3
<1> HIDE DEF next
<1>5. /\ ToSet(next) = {q[k] : k \in 1..n}
      /\ \A a, b \in ToSet(next) :
            Cardinality(Places(next, 1..m, a)) <= Cardinality(Places(next, 1..m, b)) + 1
  BY <1>1, <1>2, <1>4, FilledHolds
<1>6. E = {q[k] : k \in 1..n}
  BY <1>5 DEF next
<1> HIDE DEF E
<1>7. E \subseteq DOMAIN tally
  BY <1>1, <1>3, <1>6
<1>8. ASSUME NEW a \in E, NEW b \in DOMAIN tally \ E
      PROVE  TallyBefore(tally, punished, a, b) /\ Cardinality(E) = m
  <2>1. PICK i \in 1..n : a = q[i]
    BY <1>6
  <2>2. PICK j \in 1..c : b = q[j]
    BY <1>1
  <2>3. j \notin 1..n
    BY <1>6, <2>2
  <2>4. i < j /\ n = m
    BY <1>1, <1>2, <2>3
  <2>5. TallyBefore(tally, punished, a, b)
    BY <1>1, <1>3, <2>1, <2>2, <2>4
  <2>6. Cardinality(E) = n
    <3> DEFINE F == [k \in 1..n |-> q[k]]
    <3>1. F \in [1..n -> E] /\ (\A x, y \in 1..n : F[x] = F[y] => x = y)
      BY <1>4, <1>6
    <3>2. \A e \in E : \E x \in 1..n : F[x] = e
      BY <1>6
    <3> HIDE DEF F
    <3>3. F \in Bijection(1..n, E)
      BY <3>1, <3>2, Fun_IsInj, Fun_IsSurj DEF Bijection
    <3>4. ExistsBijection(1..n, E) /\ n \in Nat
      BY <1>1, <1>2, <3>3 DEF ExistsBijection
    <3> QED
      BY <3>4, FS_CountingElements
  <2> QED
    BY <2>4, <2>5, <2>6
<1> QED
  BY <1>5, <1>7, <1>8 DEF E, next, m

\* An election without levels takes the top of the weighted ranking and shares
\* the turns out evenly (buildTallySlice, createSignerQueue).
THEOREM ElectionTakesTop == Spec => ElectsTopStake
<1>1. ASSUME IInv, [Next]_vars, EndsLoop, IsElection(Snap), ~Levelled(Snap),
             number' # number
      PROVE  LET elected == ToSet(signers')
                 turns(a) == Cardinality({i \in DOMAIN signers' : signers'[i] = a})
             IN  /\ elected \subseteq DOMAIN tally
                 /\ \A a \in elected, b \in DOMAIN tally \ elected :
                       /\ TallyBefore(tally, punished, a, b)
                       /\ Cardinality(elected) = MaxSignerCount
                 /\ \A a, b \in elected : turns(a) <= turns(b) + 1
  <2>1. DOMAIN signers' = 1..MaxSignerCount
    BY <1>1, Elected DEF FilledFrom
  <2>2. \A a : Places(signers', 1..MaxSignerCount, a)
                  = {i \in DOMAIN signers' : signers'[i] = a}
    BY <2>1 DEF Places
  <2> QED
    BY <1>1, <2>2, ElectedFirst
<1> QED
  BY <1>1, RotationInv, PTL DEF Spec, ElectsTopStake

\* Multiplying keeps the order of naturals.
LEMMA ProductGrows ==
    ASSUME NEW a \in Nat, NEW x \in Nat, NEW y \in Nat, x <= y
    PROVE  a * x \in Nat /\ a * x <= a * y
<1>1. \A u, v \in Nat : u * v \in Nat
  OBVIOUS
<1>2. y - x \in Nat /\ a * (y - x) = a * y - a * x
  OBVIOUS
<1>3. a * x \in Nat /\ a * y \in Nat /\ a * (y - x) \in Nat
  BY <1>1, <1>2
<1> QED
  BY <1>2, <1>3

\* A stake is weighted with a credit between the minimal and the full one.
LEMMA WeightBounds ==
    ASSUME NEW t, IsTally(t), NEW p, IsPunished(p), NEW a \in DOMAIN t
    PROVE  /\ Weighted(t, p, a) \in Nat
           /\ t[a] * MinCredit <= Weighted(t, p, a)
           /\ Weighted(t, p, a) <= t[a] * FullCredit
           /\ t[a] * MinCredit \in Nat /\ t[a] * FullCredit \in Nat
<1> DEFINE w == CreditWeight(p, a)
<1>1. MinCredit \in Nat /\ FullCredit \in Nat /\ MinCredit < FullCredit
  BY QueueAssumption
<1>2. w \in Nat /\ MinCredit <= w /\ w <= FullCredit
  <2>1. CASE a \notin DOMAIN p
    BY <1>1, <2>1 DEF CreditWeight
  <2>2. CASE a \in DOMAIN p
    <3>1. p[a] \in Nat
      BY <2>2 DEF IsPunished
    <3> QED
      BY <1>1, <2>2, <3>1 DEF CreditWeight
  <2> QED
    BY <2>1, <2>2
<1>3. t[a] \in Nat
  BY DEF IsTally
<1>4. Weighted(t, p, a) = t[a] * w
  BY DEF Weighted
<1> HIDE DEF w
<1>5. /\ t[a] * MinCredit \in Nat /\ t[a] * MinCredit <= t[a] * w
      /\ t[a] * w \in Nat /\ t[a] * w <= t[a] * FullCredit
  BY <1>1, <1>2, <1>3, ProductGrows
<1>6. t[a] * FullCredit \in Nat
  <2>1. \A u, v \in Nat : u * v \in Nat
    OBVIOUS
  <2> QED
    BY <1>1, <1>3, <2>1
<1> QED
  BY <1>4, <1>5, <1>6

\* Punishment never costs a candidate its seat whose minimal credit outweighs
\* all but MaxSignerCount - 1 others (buildTallySlice).
THEOREM PunishedKeepSeat == Spec => DominantStaysIn
<1>1. ASSUME IInv, [Next]_vars, EndsLoop, IsElection(Snap), ~Levelled(Snap),
             number' # number, NEW a \in DOMAIN tally,
             Cardinality({b \in DOMAIN tally \ {a} :
                             tally[b] * FullCredit >= tally[a] * MinCredit})
                < MaxSignerCount
      PROVE  a \in ToSet(signers')
  <2> DEFINE E == ToSet(signers')
             B == {b \in DOMAIN tally \ {a} :
                      tally[b] * FullCredit >= tally[a] * MinCredit}
  <2> SUFFICES ASSUME a \notin E PROVE FALSE
    OBVIOUS
  <2>1. IsTally(tally) /\ IsPunished(punished)
    BY <1>1, BlockStep, SnapType DEF IInv, IsSnap
  <2>2. /\ E \subseteq DOMAIN tally
        /\ \A e \in E : /\ TallyBefore(tally, punished, e, a)
                        /\ Cardinality(E) = MaxSignerCount
    BY <1>1, ElectedFirst
  <2>3. E # {}
    <3>1. signers' \in [1..MaxSignerCount -> Addr] /\ MaxSignerCount \in Nat \ {0}
      BY <1>1, Elected, QueueAssumption DEF FilledFrom
    <3>2. 1 \in DOMAIN signers'
      BY <3>1
    <3> QED
      BY <3>2 DEF ToSet
  <2> HIDE DEF E
  <2>4. ASSUME NEW e \in E PROVE e \in B
    <3>1. e \in DOMAIN tally /\ e # a
      BY <2>2
    <3>2. Weighted(tally, punished, e) >= Weighted(tally, punished, a)
      <4>1. Weighted(tally, punished, e) \in Nat /\ Weighted(tally, punished, a) \in Nat
        BY <2>1, <3>1, WeightBounds
      <4>2. TallyBefore(tally, punished, e, a)
        BY <2>2
      <4> QED
        BY <4>1, <4>2 DEF TallyBefore
    <3>3. tally[e] * FullCredit >= tally[a] * MinCredit
      <4>1. /\ Weighted(tally, punished, e) <= tally[e] * FullCredit
            /\ tally[a] * MinCredit <= Weighted(tally, punished, a)
            /\ Weighted(tally, punished, e) \in Nat /\ Weighted(tally, punished, a) \in Nat
            /\ tally[e] * FullCredit \in Nat /\ tally[a] * MinCredit \in Nat
        BY <2>1, <3>1, WeightBounds
      <4> QED
        BY <3>2, <4>1
    <3> QED
      BY <3>1, <3>3
  <2>5. IsFiniteSet(B)
    BY <2>1, FS_Subset DEF IsTally
  <2>6. Cardinality(B) < MaxSignerCount
    BY <1>1
  <2> HIDE DEF B
  <2>7. E \in SUBSET B
    BY <2>4
  <2>8. Cardinality(E) <= Cardinality(B) /\ IsFiniteSet(E)
    BY <2>5, <2>7, FS_Subset
  <2>9. Cardinality(E) \in Nat /\ Cardinality(B) \in Nat
    BY <2>5, <2>8, FS_CardinalityType
  <2>10. Cardinality(E) = MaxSignerCount
    BY <2>2, <2>3
  <2> QED
    BY <2>6, <2>8, <2>9, <2>10
<1>2. IInv /\ [Next]_vars =>
         (EndsLoop /\ IsElection(Snap) /\ ~Levelled(Snap) /\ number' # number =>
            \A a \in DOMAIN tally :
               Cardinality({b \in DOMAIN tally \ {a} :
                               tally[b] * FullCredit >= tally[a] * MinCredit})
                  < MaxSignerCount
               => a \in ToSet(signers'))
  BY <1>1
<1> QED
  BY <1>2, RotationInv, PTL DEF Spec, DominantStaysIn

-----------------------------------------------------------------------------
(* The levels of an election. *)

\* part holds n different ones of the ranks lo + 1 .. hi of q; f says which.
Drawn(part, q, lo, hi, n, f) ==
    /\ part \in Seq(SignerItem) /\ Len(part) = n
    /\ f \in [1..n -> (lo + 1)..hi]
    /\ \A i, j \in 1..n : f[i] = f[j] => i = j
    /\ \A i \in 1..n : part[i].addr = q[f[i]]

\* Taking the first n by hash draws n of a level.
LEMMA LevelDrawn ==
    ASSUME NEW s, IsSnap(s), NEW q \in Seq(Addr), NEW lo \in Nat, NEW hi \in Nat,
           lo <= hi, hi <= Len(q), hi - lo <= Len(s.history),
           NEW n \in Nat, n <= hi - lo
    PROVE  \E f : Drawn(TakeByHash(Item(s, SubSeq(q, lo + 1, hi)), n), q, lo, hi, n, f)
<1> DEFINE r == SubSeq(q, lo + 1, hi)
           items == Item(s, r)
           k == hi - lo
           tie == InOrder(Len(items))
           sorted == SignersByHash(items, tie)
           part == TakeByHash(items, n)
<1>1. r \in Seq(Addr) /\ Len(r) = k
  BY PartSeq
<1>2. k \in Nat /\ \A i \in 1..k : r[i] = q[lo + i]
  OBVIOUS
<1> HIDE DEF r
<1>3. items \in Seq(SignerItem) /\ Len(items) = k /\ \A i \in 1..k : items[i].addr = r[i]
  <2>1. Len(r) <= Len(s.history)
    BY <1>1
  <2>2. /\ items \in Seq(SignerItem) /\ Len(items) = Len(r)
        /\ \A i \in 1..Len(r) : items[i].addr = r[i]
    BY <1>1, <2>1, ItemSlice
  <2> QED
    BY <1>1, <2>2
<1> HIDE DEF items
<1>4. /\ tie \in Ties(Len(items)) /\ Len(items) \in Nat
      /\ DOMAIN items = 1..k /\ Len(items) <= Len(items)
  BY <1>2, <1>3, InOrderTies
<1>4a. part = SubSeq(sorted, 1, n)
  BY DEF TakeByHash
<1> HIDE DEF tie, k
<1>5. PICK order \in Bijection(DOMAIN items, DOMAIN items) :
         sorted = [i \in DOMAIN items |-> items[order[i]]]
  BY <1>3, <1>4, SortedByHash
<1>6. sorted \in Seq(SignerItem) /\ Len(sorted) = k
  BY <1>3, <1>4, SortedSlice
<1> HIDE DEF sorted, part
<1>7. n <= k
  BY DEF k
<1>8. part \in Seq(SignerItem) /\ Len(part) = n /\ \A i \in 1..n : part[i] = sorted[i]
  BY <1>2, <1>4a, <1>6, <1>7
<1>9. order \in [1..k -> 1..k] /\ \A i, j \in 1..k : order[i] = order[j] => i = j
  <2>1. order \in [1..k -> 1..k] /\ IsInjective(order)
    BY <1>4 DEF Bijection, Injection
  <2> QED
    BY <2>1 DEF IsInjective
<1> DEFINE f == [i \in 1..n |-> lo + order[i]]
<1>10. \A i \in 1..n : i \in 1..k
  BY <1>2, <1>7
<1>11. \A i \in 1..n : order[i] \in 1..k
  BY <1>9, <1>10
<1>12. f \in [1..n -> (lo + 1)..hi]
  BY <1>2, <1>11 DEF k
<1>13. ASSUME NEW i \in 1..n, NEW j \in 1..n, f[i] = f[j] PROVE i = j
  <2>1. order[i] \in Int /\ order[j] \in Int /\ lo + order[i] = lo + order[j]
    BY <1>11, <1>13
  <2>2. order[i] = order[j]
    BY <2>1
  <2> QED
    BY <1>9, <1>10, <2>2
<1>14. ASSUME NEW i \in 1..n PROVE part[i].addr = q[f[i]]
  <2>1. part[i] = items[order[i]]
    BY <1>4, <1>5, <1>8, <1>10
  <2>2. items[order[i]].addr = r[order[i]]
    BY <1>3, <1>11
  <2>3. r[order[i]] = q[lo + order[i]]
    BY <1>2, <1>11
  <2> QED
    BY <2>1, <2>2, <2>3
<1>15. Drawn(part, q, lo, hi, n, f)
  BY <1>8, <1>12, <1>13, <1>14 DEF Drawn
<1> QED
  BY <1>15 DEF part, items, r

\* The first level is taken as it is.
LEMMA FirstDrawn ==
    ASSUME NEW s, IsSnap(s), NEW q \in Seq(Addr), NEW hi \in Nat,
           hi <= Len(q), hi <= Len(s.history)
    PROVE  \E f : Drawn(Item(s, SubSeq(q, 1, hi)), q, 0, hi, hi, f)
<1> DEFINE r == SubSeq(q, 1, hi)
           items == Item(s, r)
           f == [i \in 1..hi |-> i]
<1>1. r \in Seq(Addr) /\ Len(r) = hi /\ \A i \in 1..hi : r[i] = q[i]
  OBVIOUS
<1> HIDE DEF r
<1>2. items \in Seq(SignerItem) /\ Len(items) = hi /\ \A i \in 1..hi : items[i].addr = r[i]
  <2>1. Len(r) <= Len(s.history)
    BY <1>1
  <2>2. /\ items \in Seq(SignerItem) /\ Len(items) = Len(r)
        /\ \A i \in 1..Len(r) : items[i].addr = r[i]
    BY <1>1, <2>1, ItemSlice
  <2> QED
    BY <1>1, <2>2
<1> HIDE DEF items
<1>3. f \in [1..hi -> (0 + 1)..hi]
  OBVIOUS
<1>4. Drawn(items, q, 0, hi, hi, f)
  BY <1>1, <1>2, <1>3 DEF Drawn
<1> QED
  BY <1>4 DEF items, r

\* h is f on the first n places and g on the next k.
Continues(h, f, n, g, k) ==
    /\ \A i \in 1..n : h[i] = f[i]
    /\ \A i \in (n + 1)..(n + k) : h[i] = g[i - n]

\* Two levels, one below the other.
LEMMA JoinDrawn ==
    ASSUME NEW q, NEW lo \in Nat, NEW mid \in Nat, NEW hi \in Nat,
           lo <= mid, mid <= hi, NEW n \in Nat, NEW k \in Nat,
           NEW A, NEW f, Drawn(A, q, lo, mid, n, f),
           NEW B, NEW g, Drawn(B, q, mid, hi, k, g)
    PROVE  \E h : Drawn(A \o B, q, lo, hi, n + k, h) /\ Continues(h, f, n, g, k)
<1> DEFINE h == [i \in 1..(n + k) |-> IF i <= n THEN f[i] ELSE g[i - n]]
<1>1. /\ A \in Seq(SignerItem) /\ Len(A) = n /\ f \in [1..n -> (lo + 1)..mid]
      /\ \A i, j \in 1..n : f[i] = f[j] => i = j
      /\ \A i \in 1..n : A[i].addr = q[f[i]]
  BY DEF Drawn
<1>2. /\ B \in Seq(SignerItem) /\ Len(B) = k /\ g \in [1..k -> (mid + 1)..hi]
      /\ \A i, j \in 1..k : g[i] = g[j] => i = j
      /\ \A i \in 1..k : B[i].addr = q[g[i]]
  BY DEF Drawn
<1>3. A \o B \in Seq(SignerItem) /\ Len(A \o B) = n + k
  <2>1. A \in Seq(SignerItem) /\ B \in Seq(SignerItem)
    BY <1>1, <1>2
  <2>2. A \o B \in Seq(SignerItem) /\ Len(A \o B) = Len(A) + Len(B)
    BY <2>1, Joined
  <2> QED
    BY <1>1, <1>2, <2>2
<1>4. \A i \in 1..n : i \in 1..(n + k) /\ h[i] = f[i] /\ f[i] \in (lo + 1)..mid /\ (A \o B)[i] = A[i]
  BY <1>1, <1>2
<1>5. \A i \in (n + 1)..(n + k) :
         /\ i \in 1..(n + k) /\ i - n \in 1..k /\ h[i] = g[i - n]
         /\ g[i - n] \in (mid + 1)..hi /\ (A \o B)[i] = B[i - n]
  <2> TAKE i \in (n + 1)..(n + k)
  <2>1. i \in 1..(n + k) /\ i - n \in 1..k /\ ~(i <= n)
    OBVIOUS
  <2>2. g[i - n] \in (mid + 1)..hi
    BY <1>2, <2>1
  <2>3. (A \o B)[i] = B[i - n]
    BY <1>1, <1>2, <2>1, SMTT(30)
  <2> QED
    BY <2>1, <2>2, <2>3
<1>6. \A i \in 1..(n + k) : i \in 1..n \/ i \in (n + 1)..(n + k)
  OBVIOUS
<1> HIDE DEF h
<1>7. ASSUME NEW i \in 1..(n + k) PROVE h[i] \in (lo + 1)..hi
  <2>1. CASE i \in 1..n
    <3>1. h[i] = f[i] /\ f[i] \in (lo + 1)..mid
      BY <1>4, <2>1
    <3> QED
      BY <3>1
  <2>2. CASE i \in (n + 1)..(n + k)
    <3>1. h[i] = g[i - n] /\ g[i - n] \in (mid + 1)..hi
      BY <1>5, <2>2
    <3> QED
      BY <3>1
  <2> QED
    BY <1>6, <2>1, <2>2
<1>8. h \in [1..(n + k) -> (lo + 1)..hi]
  BY <1>7 DEF h
<1>9. ASSUME NEW i \in 1..(n + k), NEW j \in 1..(n + k), h[i] = h[j]
      PROVE  i = j
  <2>1. CASE i \in 1..n /\ j \in 1..n
    BY <1>1, <1>4, <1>9, <2>1
  <2>2. CASE i \in (n + 1)..(n + k) /\ j \in (n + 1)..(n + k)
    <3>1. i - n \in 1..k /\ j - n \in 1..k /\ g[i - n] = g[j - n]
      BY <1>5, <1>9, <2>2
    <3>2. i - n = j - n
      BY <1>2, <3>1
    <3> QED
      BY <3>2
  <2>3. CASE i \in 1..n /\ j \in (n + 1)..(n + k)
    <3>1. h[i] \in (lo + 1)..mid /\ h[j] \in (mid + 1)..hi
      BY <1>4, <1>5, <2>3
    <3> QED
      BY <1>9, <3>1
  <2>4. CASE i \in (n + 1)..(n + k) /\ j \in 1..n
    <3>1. h[j] \in (lo + 1)..mid /\ h[i] \in (mid + 1)..hi
      BY <1>4, <1>5, <2>4
    <3> QED
      BY <1>9, <3>1
  <2> QED
    BY <1>6, <2>1, <2>2, <2>3, <2>4
<1>10. ASSUME NEW i \in 1..(n + k) PROVE (A \o B)[i].addr = q[h[i]]
  <2>1. CASE i \in 1..n
    BY <1>1, <1>4, <2>1
  <2>2. CASE i \in (n + 1)..(n + k)
    <3>1. i - n \in 1..k /\ h[i] = g[i - n] /\ (A \o B)[i] = B[i - n]
      BY <1>5, <2>2
    <3>2. B[i - n].addr = q[g[i - n]]
      BY <1>2, <3>1
    <3> QED
      BY <3>1, <3>2
  <2> QED
    BY <1>6, <2>1, <2>2
<1>11. Drawn(A \o B, q, lo, hi, n + k, h)
  BY <1>3, <1>8, <1>9, <1>10 DEF Drawn
<1>12. Continues(h, f, n, g, k)
  BY <1>4, <1>5 DEF Continues
<1> QED
  BY <1>11, <1>12

\* The places in 1..m that order takes to a + 1 .. b.
Into(order, m, a, b) == {i \in 1..m : order[i] \in (a + 1)..b}

\* A permutation takes as many places to an interval as the interval has.
LEMMA CountInto ==
    ASSUME NEW m \in Nat, NEW order \in Bijection(1..m, 1..m),
           NEW a \in Nat, NEW b \in Nat, a <= b, b <= m
    PROVE  Cardinality(Into(order, m, a, b)) = b - a
<1> DEFINE A == {i \in 1..m : order[i] \in (a + 1)..b}
           B == (a + 1)..b
           F == [i \in A |-> order[i]]
<1>1. /\ order \in [1..m -> 1..m] /\ IsInjective(order)
      /\ \A j \in 1..m : \E i \in 1..m : order[i] = j
  BY DEF Bijection, Injection, Surjection
<1>2. \A i, j \in 1..m : order[i] = order[j] => i = j
  BY <1>1 DEF IsInjective
<1>3. F \in [A -> B] /\ \A i, j \in A : F[i] = F[j] => i = j
  BY <1>2
<1>4. \A j \in B : \E i \in A : F[i] = j
  <2> TAKE j \in B
  <2>1. j \in 1..m
    OBVIOUS
  <2>2. PICK i \in 1..m : order[i] = j
    BY <1>1, <2>1
  <2> QED
    BY <2>2
<1>5. IsFiniteSet(A)
  <2>1. IsFiniteSet(1..m) /\ A \in SUBSET (1..m)
    BY UpTo
  <2> QED
    BY <2>1, FS_Subset
<1>6. Cardinality(B) = b - a
  <2>1. Cardinality((a + 1)..b) = IF a + 1 > b THEN 0 ELSE b - (a + 1) + 1
    BY FS_Interval
  <2> QED
    BY <2>1
<1> HIDE DEF A, B, F
<1>7. F \in Bijection(A, B)
  BY <1>3, <1>4, Fun_IsInj, Fun_IsSurj DEF Bijection
<1>8. ExistsBijection(A, B)
  BY <1>7 DEF ExistsBijection
<1>9. Cardinality(B) = Cardinality(A)
  BY <1>5, <1>8, FS_Bijection
<1> QED
  BY <1>6, <1>9 DEF A, Into

\* Which ranks of the tally a levelled slice is drawn from.
LEMMA LevelsDrawn ==
    ASSUME NEW s, IsSnap(s), Levelled(s), ~QueuePanics(s)
    PROVE  LET q == TallyRanking(s.tally, s.punished)
               c == Cardinality(DOMAIN s.tally)
               n2 == FirstLevel + SecondTake
               n3 == FirstLevel + SecondTake + ThirdTake
           IN  \E h : /\ Drawn(LevelledSlice(s), q, 0, c, MaxSignerCount, h)
                      /\ \A i \in 1..FirstLevel : h[i] \in 1..FirstLevel
                      /\ \A i \in (FirstLevel + 1)..n2 :
                            h[i] \in (FirstLevel + 1)..SecondLevel
                      /\ \A i \in (n2 + 1)..n3 : h[i] \in (SecondLevel + 1)..ThirdLevel
                      /\ h[MaxSignerCount] \in (ThirdLevel + 1)..c
<1> DEFINE q == TallyRanking(s.tally, s.punished)
           c == Cardinality(DOMAIN s.tally)
           n1 == FirstLevel
           n2 == FirstLevel + SecondTake
           n3 == FirstLevel + SecondTake + ThirdTake
           p1 == Item(s, SubSeq(q, 1, FirstLevel))
           p2 == TakeByHash(Item(s, SubSeq(q, FirstLevel + 1, SecondLevel)), SecondTake)
           p3 == TakeByHash(Item(s, SubSeq(q, SecondLevel + 1, ThirdLevel)), ThirdTake)
           p4 == TakeByHash(Item(s, SubSeq(q, ThirdLevel + 1, c)), 1)
<1>1. q \in Seq(Addr) /\ Len(q) = c /\ c \in Nat
  BY RankingSeq DEF IsSnap
<1>2. c > ThirdLevel /\ MaxSignerCount = OfficialMax
  BY DEF Levelled
<1>3. /\ FirstLevel <= Len(s.history)
      /\ SecondLevel - FirstLevel <= Len(s.history)
      /\ ThirdLevel - SecondLevel <= Len(s.history)
      /\ c - ThirdLevel <= Len(s.history)
  BY DEF QueuePanics, Indexable
<1>4. LevelledSlice(s) = ((p1 \o p2) \o p3) \o p4
  BY <1>1 DEF LevelledSlice
<1>5. /\ FirstLevel \in Nat /\ SecondLevel \in Nat /\ ThirdLevel \in Nat
      /\ SecondTake \in Nat /\ ThirdTake \in Nat
      /\ FirstLevel <= SecondLevel /\ SecondLevel <= ThirdLevel
      /\ SecondTake <= SecondLevel - FirstLevel
      /\ ThirdTake <= ThirdLevel - SecondLevel
      /\ n2 \in Nat /\ n3 \in Nat /\ n3 = n2 + ThirdTake
      /\ n3 + 1 = OfficialMax
      /\ 0 \in Nat /\ 0 <= FirstLevel /\ 0 <= SecondLevel /\ 0 <= ThirdLevel
  BY QueueAssumption
<1>6. /\ FirstLevel <= Len(q) /\ SecondLevel <= Len(q) /\ ThirdLevel <= Len(q)
      /\ ThirdLevel <= c /\ c <= Len(q) /\ 1 \in Nat /\ 1 <= c - ThirdLevel
  BY <1>1, <1>2, <1>5
<1>7. PICK f1 : Drawn(p1, q, 0, FirstLevel, n1, f1)
  BY <1>1, <1>3, <1>5, <1>6, FirstDrawn
<1>8. PICK f2 : Drawn(p2, q, FirstLevel, SecondLevel, SecondTake, f2)
  BY <1>1, <1>3, <1>5, <1>6, LevelDrawn
<1>9. PICK f3 : Drawn(p3, q, SecondLevel, ThirdLevel, ThirdTake, f3)
  BY <1>1, <1>3, <1>5, <1>6, LevelDrawn
<1>10. PICK f4 : Drawn(p4, q, ThirdLevel, c, 1, f4)
  BY <1>1, <1>3, <1>5, <1>6, LevelDrawn
<1> HIDE DEF p1, p2, p3, p4, q, c
<1>11. PICK g2 : /\ Drawn(p1 \o p2, q, 0, SecondLevel, n2, g2)
                 /\ Continues(g2, f1, FirstLevel, f2, SecondTake)
  BY <1>5, <1>7, <1>8, JoinDrawn
<1> DEFINE j2 == p1 \o p2
<1>12. Drawn(j2, q, 0, SecondLevel, n2, g2)
  BY <1>11
<1> HIDE DEF j2
<1>13. PICK g3 : /\ Drawn(j2 \o p3, q, 0, ThirdLevel, n2 + ThirdTake, g3)
                 /\ Continues(g3, g2, n2, f3, ThirdTake)
  <2> HIDE DEF n2
  <2> QED
    BY <1>5, <1>9, <1>12, JoinDrawn
<1> DEFINE j3 == j2 \o p3
<1>14. Drawn(j3, q, 0, ThirdLevel, n3, g3)
  BY <1>5, <1>13
<1> HIDE DEF j3
<1>15. PICK g4 : /\ Drawn(j3 \o p4, q, 0, c, n3 + 1, g4)
                 /\ Continues(g4, g3, n3, f4, 1)
  <2> HIDE DEF n3
  <2> QED
    BY <1>1, <1>5, <1>6, <1>10, <1>14, JoinDrawn
<1>16. Drawn(LevelledSlice(s), q, 0, c, MaxSignerCount, g4)
  <2>1. LevelledSlice(s) = j3 \o p4
    BY <1>4 DEF j3, j2
  <2>2. n3 + 1 = MaxSignerCount
    BY <1>2, <1>5
  <2> HIDE DEF n3
  <2> QED
    BY <1>15, <2>1, <2>2
<1>17. \A i \in 1..n1 : g4[i] \in 1..FirstLevel
  <2> TAKE i \in 1..n1
  <2>1. i \in 1..n2 /\ i \in 1..n3
    BY <1>5
  <2>2. g4[i] = f1[i]
    BY <1>11, <1>13, <1>15, <2>1 DEF Continues
  <2>3. f1 \in [1..n1 -> (0 + 1)..FirstLevel]
    BY <1>7 DEF Drawn
  <2>4. f1[i] \in (0 + 1)..FirstLevel
    BY <2>3
  <2> QED
    BY <2>2, <2>4
<1>18. \A i \in (n1 + 1)..n2 : g4[i] \in (FirstLevel + 1)..SecondLevel
  <2> TAKE i \in (n1 + 1)..n2
  <2>1. i \in 1..n2 /\ i \in 1..n3 /\ i - n1 \in 1..SecondTake
    BY <1>5
  <2>2. g4[i] = f2[i - n1]
    BY <1>11, <1>13, <1>15, <2>1 DEF Continues
  <2>3. f2 \in [1..SecondTake -> (FirstLevel + 1)..SecondLevel]
    BY <1>8 DEF Drawn
  <2> QED
    BY <2>1, <2>2, <2>3
<1>19. \A i \in (n2 + 1)..n3 : g4[i] \in (SecondLevel + 1)..ThirdLevel
  <2> TAKE i \in (n2 + 1)..n3
  <2>1. i \in 1..n3 /\ i - n2 \in 1..ThirdTake /\ i \in (n2 + 1)..(n2 + ThirdTake)
    BY <1>5
  <2>2. g4[i] = f3[i - n2]
    BY <1>13, <1>15, <2>1 DEF Continues
  <2>3. f3 \in [1..ThirdTake -> (SecondLevel + 1)..ThirdLevel]
    BY <1>9 DEF Drawn
  <2> QED
    BY <2>1, <2>2, <2>3
<1>20. g4[MaxSignerCount] \in (ThirdLevel + 1)..c
  <2>1. MaxSignerCount = n3 + 1 /\ MaxSignerCount - n3 = 1
    BY <1>2, <1>5
  <2>2. MaxSignerCount \in (n3 + 1)..(n3 + 1)
    BY <1>5, <2>1
  <2>3. g4[MaxSignerCount] = f4[1]
    BY <1>15, <2>1, <2>2 DEF Continues
  <2>4. f4 \in [1..1 -> (ThirdLevel + 1)..c]
    BY <1>10 DEF Drawn
  <2> QED
    BY <2>3, <2>4
<1> QED
  BY <1>16, <1>17, <1>18, <1>19, <1>20 DEF q, c

\* The places a queue gives to the ranks lo + 1 .. hi of a ranking.
LevelPlaces(queue, q, lo, hi) ==
    {i \in DOMAIN queue : \E k \in (lo + 1)..hi : q[k] = queue[i]}

\* queue is the ranks h of q, reordered; q has c different members.
ByRanks(queue, m, q, c, h, order) ==
    /\ \A i, j \in 1..c : q[i] = q[j] => i = j
    /\ DOMAIN queue = 1..m
    /\ \A i \in 1..m : order[i] \in 1..m /\ queue[i] = q[h[order[i]]]
    /\ \A i \in 1..m : h[i] \in 1..c

\* The ranks lo + 1 .. hi are at a + 1 .. b.
LevelAt(h, m, lo, hi, a, b) ==
    \A i \in 1..m : h[i] \in (lo + 1)..hi <=> i \in (a + 1)..b

\* A level has as many places in the queue as it has in the slice.
LEMMA LevelCount ==
    ASSUME NEW m \in Nat, NEW c \in Nat, NEW q, NEW h, NEW queue,
           NEW order \in Bijection(1..m, 1..m), ByRanks(queue, m, q, c, h, order),
           NEW lo \in Nat, NEW hi \in Nat, lo <= hi, hi <= c,
           NEW a \in Nat, NEW b \in Nat, a <= b, b <= m,
           LevelAt(h, m, lo, hi, a, b)
    PROVE  Cardinality(LevelPlaces(queue, q, lo, hi)) = b - a
<1>1. ASSUME NEW i \in 1..m
      PROVE  (\E k \in (lo + 1)..hi : q[k] = queue[i]) <=> order[i] \in (a + 1)..b
  <2>1. order[i] \in 1..m /\ queue[i] = q[h[order[i]]] /\ h[order[i]] \in 1..c
    BY DEF ByRanks
  <2>2. h[order[i]] \in (lo + 1)..hi <=> order[i] \in (a + 1)..b
    BY <2>1 DEF LevelAt
  <2>3. ASSUME NEW k \in (lo + 1)..hi, q[k] = queue[i]
        PROVE  h[order[i]] \in (lo + 1)..hi
    <3>1. k \in 1..c
      OBVIOUS
    <3>2. k = h[order[i]]
      BY <2>1, <2>3, <3>1 DEF ByRanks
    <3> QED
      BY <3>2
  <2>4. h[order[i]] \in (lo + 1)..hi => \E k \in (lo + 1)..hi : q[k] = queue[i]
    BY <2>1
  <2> QED
    BY <2>2, <2>3, <2>4
<1>2. LevelPlaces(queue, q, lo, hi) = Into(order, m, a, b)
  BY <1>1 DEF LevelPlaces, Into, ByRanks
<1> QED
  BY <1>2, CountInto

\* The queue of a levelled election, by ranks.
LEMMA LevelledQueue ==
    ASSUME IInv, [Next]_vars, number' # number, EndsLoop, Levelled(Snap)
    PROVE  LET q == TallyRanking(tally, punished) IN
           /\ IsInjective(signers') /\ Len(q) = Cardinality(DOMAIN tally)
           /\ Cardinality(LevelPlaces(signers', q, 0, FirstLevel)) = FirstLevel
           /\ Cardinality(LevelPlaces(signers', q, FirstLevel, SecondLevel)) = SecondTake
           /\ Cardinality(LevelPlaces(signers', q, SecondLevel, ThirdLevel)) = ThirdTake
           /\ Cardinality(LevelPlaces(signers', q, ThirdLevel, Len(q))) = 1
<1> DEFINE q == TallyRanking(tally, punished)
           c == Cardinality(DOMAIN tally)
           m == MaxSignerCount
           n2 == FirstLevel + SecondTake
           n3 == FirstLevel + SecondTake + ThirdTake
           slice == SignerSlice(Snap)
           next == signers'
           R == TallyOrder(tally, punished)
<1>1. /\ IsSnap(Snap) /\ ~QueuePanics(Snap)
      /\ Snap.punished = punished /\ Snap.tally = tally
  BY BlockStep, SnapType DEF IInv
<1>2. IsTally(tally) /\ IsPunished(punished)
  BY <1>1 DEF IsSnap
<1>3. Len(q) = c /\ c \in Nat
  BY <1>2, RankingSeq
<1>4. /\ IsFiniteSet(DOMAIN tally) /\ StrictOrder(R, DOMAIN tally)
      /\ IsRanking(q, R, DOMAIN tally)
  BY <1>2, TallyRanked DEF IsTally
<1>5. q \in Bijection(1..c, DOMAIN tally)
  BY <1>4, RankingLists
<1>6. \A i, j \in 1..c : q[i] = q[j] => i = j
  <2>1. q \in [1..c -> DOMAIN tally] /\ IsInjective(q)
    BY <1>5 DEF Bijection, Injection
  <2> QED
    BY <2>1 DEF IsInjective
<1>7. slice = LevelledSlice(Snap)
  BY DEF SignerSlice
<1>8. PICK h : /\ Drawn(slice, q, 0, c, m, h)
               /\ \A i \in 1..FirstLevel : h[i] \in 1..FirstLevel
               /\ \A i \in (FirstLevel + 1)..n2 : h[i] \in (FirstLevel + 1)..SecondLevel
               /\ \A i \in (n2 + 1)..n3 : h[i] \in (SecondLevel + 1)..ThirdLevel
               /\ h[m] \in (ThirdLevel + 1)..c
  BY <1>1, <1>7, LevelsDrawn
<1>9. c > ThirdLevel /\ m = OfficialMax
  BY <1>1 DEF Levelled
<1>10. /\ FirstLevel \in Nat /\ SecondLevel \in Nat /\ ThirdLevel \in Nat
       /\ SecondTake \in Nat /\ ThirdTake \in Nat
       /\ FirstLevel <= SecondLevel /\ SecondLevel <= ThirdLevel
       /\ m \in Nat /\ n2 \in Nat /\ n3 \in Nat /\ m = n3 + 1
       /\ n3 = n2 + ThirdTake /\ n2 = FirstLevel + SecondTake
  BY <1>9, QueueAssumption
<1>11. /\ Len(slice) = m /\ h \in [1..m -> (0 + 1)..c]
       /\ \A i, j \in 1..m : h[i] = h[j] => i = j
       /\ \A i \in 1..m : slice[i].addr = q[h[i]]
  BY <1>8 DEF Drawn
<1>12. \A i \in 1..m : h[i] \in 1..c
  BY <1>11
<1>13. /\ next \in [1..m -> Addr]
       /\ \E order \in Bijection(1..m, 1..m) :
             \A i \in 1..m : next[i] = slice[order[((i - 1) % m) + 1]].addr
  <2>1. LET w == SignerSlice(Snap)
            n == Len(w)
        IN  /\ next \in [1..m -> Addr]
            /\ \E order \in Bijection(1..n, 1..n) :
                  \A i \in 1..m : next[i] = w[order[((i - 1) % n) + 1]].addr
    BY QueueRepeats
  <2> QED
    BY <1>11, <2>1
<1>14. PICK order \in Bijection(1..m, 1..m) :
          \A i \in 1..m : next[i] = slice[order[((i - 1) % m) + 1]].addr
  BY <1>13
<1> HIDE DEF slice, next, q, c
<1>15. order \in [1..m -> 1..m] /\ \A i, j \in 1..m : order[i] = order[j] => i = j
  <2>1. order \in [1..m -> 1..m] /\ IsInjective(order)
    BY DEF Bijection, Injection
  <2> QED
    BY <2>1 DEF IsInjective
<1>16. \A i \in 1..m : order[i] \in 1..m /\ next[i] = q[h[order[i]]]
  <2> TAKE i \in 1..m
  <2>1. ((i - 1) % m) + 1 = i
    <3>1. /\ i - 1 \in 0..(m - 1) /\ i - 1 \in Nat /\ i - 1 = m * 0 + (i - 1)
          /\ 0 \in Int /\ m \in Nat \ {0}
      BY <1>10
    <3>2. (i - 1) % m = i - 1
      BY <3>1, RemainderIs
    <3> QED
      BY <3>2
  <2>2. order[i] \in 1..m
    BY <1>15
  <2>3. next[i] = slice[order[((i - 1) % m) + 1]].addr
    BY <1>14
  <2>4. next[i] = slice[order[i]].addr
    BY <2>1, <2>3
  <2> QED
    BY <1>11, <2>2, <2>4
<1>17. IsInjective(next)
  <2>1. ASSUME NEW i \in 1..m, NEW j \in 1..m, next[i] = next[j] PROVE i = j
    <3>1. order[i] \in 1..m /\ order[j] \in 1..m /\ q[h[order[i]]] = q[h[order[j]]]
      BY <1>16, <2>1
    <3>2. h[order[i]] = h[order[j]]
      BY <1>6, <1>12, <3>1
    <3>3. order[i] = order[j]
      BY <1>11, <3>1, <3>2
    <3> QED
      BY <1>15, <3>3
  <2>2. DOMAIN next = 1..m
    BY <1>13
  <2> QED
    BY <2>1, <2>2 DEF IsInjective
<1>18. DOMAIN next = 1..m
  BY <1>13
<1> HIDE DEF m, n2, n3
<1>18a. ByRanks(next, m, q, c, h, order)
  BY <1>6, <1>12, <1>16, <1>18 DEF ByRanks
<1>19. \A i \in 1..m : \/ i \in 1..FirstLevel \/ i \in (FirstLevel + 1)..n2
                       \/ i \in (n2 + 1)..n3 \/ i = m
  BY <1>10
<1>20. ASSUME NEW i \in 1..m
       PROVE  /\ h[i] \in (0 + 1)..FirstLevel <=> i \in (0 + 1)..FirstLevel
              /\ h[i] \in (FirstLevel + 1)..SecondLevel <=> i \in (FirstLevel + 1)..n2
              /\ h[i] \in (SecondLevel + 1)..ThirdLevel <=> i \in (n2 + 1)..n3
              /\ h[i] \in (ThirdLevel + 1)..c <=> i \in (n3 + 1)..m
  <2>1. CASE i \in 1..FirstLevel
    <3>1. h[i] \in 1..FirstLevel
      BY <1>8, <2>1
    <3> QED
      BY <1>3, <1>10, <2>1, <3>1
  <2>2. CASE i \in (FirstLevel + 1)..n2
    <3>1. h[i] \in (FirstLevel + 1)..SecondLevel
      BY <1>8, <2>2
    <3> QED
      BY <1>3, <1>10, <2>2, <3>1
  <2>3. CASE i \in (n2 + 1)..n3
    <3>1. h[i] \in (SecondLevel + 1)..ThirdLevel
      BY <1>8, <2>3
    <3> QED
      BY <1>3, <1>10, <2>3, <3>1
  <2>4. CASE i = m
    <3>1. h[i] \in (ThirdLevel + 1)..c
      BY <1>8, <2>4
    <3> QED
      BY <1>3, <1>10, <2>4, <3>1
  <2> QED
    BY <1>19, <2>1, <2>2, <2>3, <2>4
<1>21. Cardinality(LevelPlaces(next, q, 0, FirstLevel)) = FirstLevel - 0
  <2>1. 0 \in Nat /\ 0 <= FirstLevel /\ FirstLevel <= c /\ FirstLevel <= m
    BY <1>3, <1>9, <1>10
  <2>2. LevelAt(h, m, 0, FirstLevel, 0, FirstLevel)
    BY <1>20 DEF LevelAt
  <2> QED
    BY <1>3, <1>10, <1>18a, <2>1, <2>2, LevelCount
<1>22. Cardinality(LevelPlaces(next, q, FirstLevel, SecondLevel)) = n2 - FirstLevel
  <2>1. FirstLevel <= n2 /\ n2 <= m /\ SecondLevel <= c
    BY <1>3, <1>9, <1>10
  <2>2. LevelAt(h, m, FirstLevel, SecondLevel, FirstLevel, n2)
    BY <1>20 DEF LevelAt
  <2> QED
    BY <1>3, <1>10, <1>18a, <2>1, <2>2, LevelCount
<1>23. Cardinality(LevelPlaces(next, q, SecondLevel, ThirdLevel)) = n3 - n2
  <2>1. n2 <= n3 /\ n3 <= m /\ ThirdLevel <= c
    BY <1>3, <1>9, <1>10
  <2>2. LevelAt(h, m, SecondLevel, ThirdLevel, n2, n3)
    BY <1>20 DEF LevelAt
  <2> QED
    BY <1>3, <1>10, <1>18a, <2>1, <2>2, LevelCount
<1>24. Cardinality(LevelPlaces(next, q, ThirdLevel, c)) = m - n3
  <2>1. n3 <= m /\ m <= m /\ ThirdLevel <= c /\ c <= c
    BY <1>3, <1>9, <1>10
  <2>2. LevelAt(h, m, ThirdLevel, c, n3, m)
    BY <1>20 DEF LevelAt
  <2> QED
    BY <1>3, <1>10, <1>18a, <2>1, <2>2, LevelCount
<1>25. FirstLevel - 0 = FirstLevel /\ n2 - FirstLevel = SecondTake /\ n3 - n2 = ThirdTake /\ m - n3 = 1
  BY <1>10
<1> QED
  BY <1>3, <1>17, <1>21, <1>22, <1>23, <1>24, <1>25 DEF q, c, next

\* A levelled election takes the whole first level, its share of each lower one
\* and nobody twice (createSignerQueue).
THEOREM LevelsFillShares == Spec => LevelsKeepShares
<1>1. ASSUME IInv, [Next]_vars, EndsLoop, Levelled(Snap), number' # number
      PROVE  LET ranking == TallyRanking(tally, punished)
                 fromLevel(lo, hi) == Cardinality({i \in DOMAIN signers' :
                    \E k \in (lo + 1)..hi : ranking[k] = signers'[i]})
             IN  /\ IsInjective(signers')
                 /\ fromLevel(0, FirstLevel) = FirstLevel
                 /\ fromLevel(FirstLevel, SecondLevel) = SecondTake
                 /\ fromLevel(SecondLevel, ThirdLevel) = ThirdTake
                 /\ fromLevel(ThirdLevel, Len(ranking)) = 1
  BY <1>1, LevelledQueue DEF LevelPlaces
<1> QED
  BY <1>1, RotationInv, PTL DEF Spec, LevelsKeepShares

-----------------------------------------------------------------------------
(* Who is reported missing. *)

\* With the last signer at x and the current one at y of a queue, whatever
\* getSignerMissing reports is after x and, unless they are the same, before y.
Between(queue, m, x, y) ==
    \A i \in DOMAIN GetSignerMissing(queue[x], queue[y], queue) :
        \E j \in (x + 1)..m :
            /\ GetSignerMissing(queue[x], queue[y], queue)[i] = queue[j]
            /\ x # y => j < y

\* What getSignerMissing reports lies between the place of the last signer and
\* that of the current one, or the end of the queue if they are the same.
LEMMA MissingBetween ==
    ASSUME NEW m \in Nat, NEW queue \in [1..m -> Addr], IsInjective(queue),
           NEW x \in 1..m, NEW y \in 1..m
    PROVE  Between(queue, m, x, y)
<1> DEFINE last == queue[x]
           current == queue[y]
           P(k) == /\ k <= m => queue[k] = last
                   /\ \A j \in 1..(k - 1) : ~(queue[j] = last)
           Q(k) == /\ k <= m => queue[k] # last /\ queue[k] = current
                   /\ \A j \in 1..(k - 1) : ~(queue[j] # last /\ queue[j] = current)
           from == CHOOSE k \in 1..(m + 1) : P(k)
           stop == CHOOSE k \in 1..(m + 1) : Q(k)
           S == {k \in (from + 1)..(stop - 1) : queue[k] # last}
           order == Ranked(S, <)
<1>1. queue \in Seq(Addr) /\ Len(queue) = m
  BY FunSeq
<1>2. \A j, k \in 1..m : queue[j] = queue[k] => j = k
  BY DEF IsInjective
<1>3. GetSignerMissing(last, current, queue) = [k \in DOMAIN order |-> queue[order[k]]]
  BY <1>1 DEF GetSignerMissing
<1> SUFFICES ASSUME NEW i \in DOMAIN GetSignerMissing(last, current, queue)
             PROVE  \E j \in (x + 1)..m :
                       /\ GetSignerMissing(last, current, queue)[i] = queue[j]
                       /\ x # y => j < y
  BY DEF Between
<1>4. from = x
  <2>1. P(x) /\ x \in 1..(m + 1)
    BY <1>2
  <2>2. ASSUME NEW k \in 1..(m + 1), P(k) PROVE k = x
    <3>1. ~(x \in 1..(k - 1))
      BY <2>2
    <3>2. k <= x /\ k \in 1..m
      BY <3>1
    <3> QED
      BY <1>2, <2>2, <3>2
  <2> HIDE DEF P
  <2> QED
    BY <2>1, <2>2
<1>5. CASE x = y
  <2>1. Q(m + 1) /\ m + 1 \in 1..(m + 1)
    BY <1>5
  <2>2. \E k \in 1..(m + 1) : Q(k)
    BY <2>1
  <2> HIDE DEF Q
  <2>3. stop \in 1..(m + 1)
    BY <2>2
  <2> HIDE DEF stop, from
  <2>4. S \subseteq (x + 1)..m /\ S \in SUBSET (1..m) /\ S \subseteq Int
    BY <1>4, <2>3
  <2> HIDE DEF S
  <2>5. IsFiniteSet(S)
    BY <2>4, UpTo, FS_Subset
  <2>6. order \in [1..Cardinality(S) -> S]
    BY <2>4, <2>5, RankedNumbers
  <2> HIDE DEF order
  <2>7. order[i] \in S /\ GetSignerMissing(last, current, queue)[i] = queue[order[i]]
    BY <1>3, <2>6
  <2> QED
    BY <1>5, <2>4, <2>7
<1>6. CASE x # y
  <2>1. Q(y) /\ y \in 1..(m + 1)
    BY <1>2, <1>6
  <2>2. ASSUME NEW k \in 1..(m + 1), Q(k) PROVE k = y
    <3>1. queue[y] # last
      BY <1>2, <1>6
    <3>2. ~(y \in 1..(k - 1))
      BY <2>2, <3>1
    <3>3. k <= y /\ k \in 1..m
      BY <3>2
    <3> QED
      BY <1>2, <2>2, <3>3
  <2> HIDE DEF Q
  <2>3. stop = y
    BY <2>1, <2>2
  <2> HIDE DEF stop, from
  <2>4. S \subseteq (x + 1)..(y - 1) /\ S \in SUBSET (1..m) /\ S \subseteq Int
    BY <1>4, <2>3
  <2> HIDE DEF S
  <2>5. IsFiniteSet(S)
    BY <2>4, UpTo, FS_Subset
  <2>6. order \in [1..Cardinality(S) -> S]
    BY <2>4, <2>5, RankedNumbers
  <2> HIDE DEF order
  <2>7. order[i] \in S /\ GetSignerMissing(last, current, queue)[i] = queue[order[i]]
    BY <1>3, <2>6
  <2>8. order[i] \in (x + 1)..m /\ order[i] < y
    <3>1. order[i] \in (x + 1)..(y - 1)
      BY <2>4, <2>7
    <3> HIDE DEF order
    <3> QED
      BY <3>1
  <2> QED
    BY <2>7, <2>8
<1> QED
  BY <1>5, <1>6

\* Turns e later, in the same loop of the queue.
LEMMA LaterTurn ==
    ASSUME NEW m \in Nat \ {0}, NEW k \in Nat, NEW e \in Nat, (k % m) + e < m
    PROVE  (k + e) % m = (k % m) + e
<1> DEFINE q == k \div m
           r == k % m
<1>1. q \in Int /\ r \in 0..(m - 1) /\ k = m * q + r
  OBVIOUS
<1> HIDE DEF q, r
<1>2. r + e \in 0..(m - 1) /\ k + e = m * q + (r + e) /\ k + e \in Nat
  BY <1>1 DEF r
<1>3. (k + e) % m = r + e
  BY <1>1, <1>2, RemainderIs
<1> QED
  BY <1>3 DEF r

\* A period later is a slot later.
LEMMA DivGrows ==
    ASSUME NEW p \in Nat \ {0}, NEW a \in Nat, NEW b \in Nat, b >= a + p
    PROVE  (a \div p) < (b \div p)
<1> DEFINE u == a \div p
           v == b \div p
           r == a % p
           s == b % p
<1>1. /\ u \in Int /\ r \in 0..(p - 1) /\ a = p * u + r
      /\ v \in Int /\ s \in 0..(p - 1) /\ b = p * v + s
  OBVIOUS
<1> HIDE DEF u, v, r, s
<1> SUFFICES ASSUME ~(u < v) PROVE FALSE
  BY DEF u, v
<1>2. u = v \/ u - v >= 1
  BY <1>1
<1>3. CASE u = v
  BY <1>1, <1>3
<1>4. CASE u - v >= 1
  <2>1. p * (u - v) >= p /\ p * (u - v) = p * u - p * v
    BY <1>1, <1>4, MultipleGrows
  <2> QED
    BY <1>1, <2>1
<1> QED
  BY <1>2, <1>3, <1>4

\* The same, for times counted from the start of a loop.
LEMMA SlotLater ==
    ASSUME NEW p \in Nat \ {0}, NEW s \in Nat, NEW t \in Nat, NEW u \in Nat,
           t >= s, u >= t + p
    PROVE  ((t - s) \div p) < ((u - s) \div p)
<1> DEFINE a == t - s
           b == u - s
<1>1. a \in Nat /\ b \in Nat /\ b >= a + p
  OBVIOUS
<1> HIDE DEF a, b
<1>2. (a \div p) < (b \div p)
  BY <1>1, DivGrows
<1> QED
  BY <1>2 DEF a, b

\* The turn of a time that does not wrap.
LEMMA TurnAt ==
    ASSUME TypeOK, NEW t \in Nat, loopStart <= t, t < Word
    PROVE  LET k == (t - loopStart) \div Period IN
           /\ k \in Nat
           /\ (k % MaxSignerCount) + 1 \in 1..MaxSignerCount
           /\ TurnOf(signers, loopStart, t) = signers[(k % MaxSignerCount) + 1]
<1> DEFINE d == t - loopStart
           k == d \div Period
<1>1. /\ Word \in Nat \ {0} /\ Period \in Nat \ {0} /\ loopStart \in Nat
      /\ MaxSignerCount \in Nat \ {0}
  BY QueueAssumption DEF TypeOK
<1>2. d \in 0..(Word - 1) /\ d \in Nat /\ d = Word * 0 + d /\ 0 \in Int
  BY <1>1
<1>3. Len(signers) = MaxSignerCount
  BY <1>1, FunSeq DEF TypeOK
<1>4. d % Word = d
  <2> HIDE DEF d
  <2> QED
    BY <1>1, <1>2, RemainderIs
<1>5. TurnOf(signers, loopStart, t) = signers[(k % MaxSignerCount) + 1]
  BY <1>3, <1>4 DEF TurnOf
<1> HIDE DEF d
<1>6. k \in Nat
  BY <1>1, <1>2
<1> HIDE DEF k
<1>7. (k % MaxSignerCount) + 1 \in 1..MaxSignerCount
  BY <1>1, <1>6
<1> QED
  BY <1>5, <1>6, <1>7 DEF k, d

\* As long as times are below Word, 2^64 seconds in the code, getSignerMissing
\* reports inside a loop only signers that let a slot pass after the parent.
THEOREM ReportedHaveMissed == Spec /\ [](time < Word) => MissingIsMissed
<1>1. ASSUME IInv, [Next]_vars, time < Word, time' < Word,
             number > 0, number' # number, number % MaxSignerCount # 0,
             IsInjective(signers), time >= loopStart,
             NEW i \in DOMAIN missing'
      PROVE  Missed(missing'[i], time, time')
  <2> DEFINE m == MaxSignerCount
             k == (time - loopStart) \div Period
             l == (time' - loopStart) \div Period
             x == (k % m) + 1
             y == (l % m) + 1
  <2>1. Block /\ TypeOK /\ TypeOK'
    BY <1>1, BlockInv DEF Next, NoSigners, HistoryPanic, vars, IInv
  <2>2. /\ time \in Nat /\ time' \in Nat /\ loopStart \in Nat /\ number \in Nat \ {0}
        /\ Period \in Nat \ {0} /\ m \in Nat \ {0}
    <3>1. time \in Nat /\ loopStart \in Nat /\ number \in Nat
      BY <2>1, RotationAssumption DEF TypeOK
    <3>2. time' \in Nat
      BY <2>1 DEF TypeOK
    <3>3. Period \in Nat \ {0} /\ m \in Nat \ {0}
      BY QueueAssumption
    <3>4. number > 0
      BY <1>1
    <3> QED
      BY <3>1, <3>2, <3>3, <3>4
  <2>3. PICK delay \in Delays :
           /\ time' = Earliest + delay
           /\ coinbase' = TurnOf(signers, loopStart, time')
           /\ missing' = GetSignerMissing(coinbase, coinbase', signers)
    BY <2>1, <2>2 DEF Block
  <2>4. time' >= time + Period
    <3>1. delay \in Nat
      BY RotationAssumption
    <3>2. Earliest = time + Period
      BY <2>2 DEF Earliest
    <3> QED
      BY <2>2, <2>3, <3>1, <3>2
  <2>5. /\ k \in Nat /\ x \in 1..m /\ TurnOf(signers, loopStart, time) = signers[x]
    BY <1>1, <2>1, <2>2, TurnAt
  <2>6. /\ l \in Nat /\ y \in 1..m /\ TurnOf(signers, loopStart, time') = signers[y]
    <3>1. loopStart <= time'
      BY <1>1, <2>2, <2>4
    <3> QED
      BY <1>1, <2>1, <2>2, <3>1, TurnAt
  <2>7. k < l
    <3>1. time >= loopStart
      BY <1>1
    <3> QED
      BY <2>2, <2>4, <3>1, SlotLater
  <2>8. coinbase = signers[x] /\ coinbase' = signers[y]
    BY <1>1, <2>3, <2>5, <2>6 DEF IInv, HeadInTurn
  <2>9. signers \in [1..m -> Addr] /\ m \in Nat
    BY <2>1, <2>2 DEF TypeOK
  <2> HIDE DEF x, y
  <2>10. Between(signers, m, x, y)
    BY <1>1, <2>5, <2>6, <2>9, MissingBetween
  <2>11. PICK j \in (x + 1)..m : missing'[i] = signers[j] /\ (x # y => j < y)
    BY <2>3, <2>8, <2>10 DEF Between
  <2> DEFINE e == j - x
  <2>12. e \in Nat /\ e >= 1 /\ x + e = j /\ j \in 1..m
    BY <2>2, <2>5, <2>11
  <2> HIDE DEF k, l, e
  <2>13. \A n \in Nat : n <= e => (k + n) % m = (k % m) + n
    <3> TAKE n \in Nat
    <3> HAVE n <= e
    <3>1. (k % m) + n < m
      BY <2>2, <2>5, <2>12 DEF x
    <3> QED
      BY <2>2, <2>5, <3>1, LaterTurn
  <2>14. k + e < l
    <3> SUFFICES ASSUME l <= k + e PROVE FALSE
      BY <2>5, <2>6, <2>12
    <3> DEFINE n == l - k
    <3>1. n \in Nat /\ n >= 1 /\ n <= e /\ l = k + n
      BY <2>5, <2>6, <2>7, <2>12
    <3> HIDE DEF n
    <3>2. l % m = (k % m) + n
      BY <2>13, <3>1
    <3>3. y = x + n
      BY <2>2, <2>5, <3>1, <3>2 DEF x, y
    <3> QED
      BY <2>5, <2>11, <2>12, <3>1, <3>3
  <2>15. ((k + e) % m) + 1 = j
    <3>1. (k + e) % m = (k % m) + e
      BY <2>12, <2>13
    <3> QED
      BY <2>2, <2>5, <2>12, <3>1 DEF x
  <2>16. k + e \in SlotsBetween(time, time')
    <3>1. k + e \in (k + 1)..(l - 1) /\ k + e >= 0
      BY <2>5, <2>6, <2>12, <2>14
    <3> QED
      BY <3>1 DEF SlotsBetween, k, l
  <2>17. signers[((k + e) % m) + 1] = missing'[i]
    BY <2>11, <2>15
  <2> QED
    BY <2>16, <2>17 DEF Missed
<1>2. IInv /\ (time < Word) /\ (time < Word)' /\ [Next]_vars =>
         [number > 0 /\ number' # number /\ number % MaxSignerCount # 0
          /\ IsInjective(signers) /\ time >= loopStart =>
             \A i \in DOMAIN missing' : Missed(missing'[i], time, time')]_vars
  BY <1>1
<1> QED
  BY <1>2, RotationInv, PTL DEF Spec, MissingIsMissed

-----------------------------------------------------------------------------
(* MinerControl: the inductive invariant.                                  *)

\* The labels at which a goroutine holds worker.mu.
Holding == {"t.agent", "t.token", "t.drain", "t.done", "c.push"}

\* worker.mu is held exactly there, so by one goroutine at a time.
Exclusion == \A t \in Threads : mu = t <=> pc[t] \in Holding

\* An agent with a token still to be sent has been marked as stopped, and
\* cannot be started before the token is sent.
TokenOfStopped == \A t \in Threads : pc[t] = "t.token" => ~isMining

\* At most one seal has not been told to quit, the one quitCurrentOp is for.
SealsQuit == seals \subseteq {quit} /\ (seals # {} => updaters > 0)

Types ==
    /\ mining \in BOOLEAN /\ canStart \in BOOLEAN /\ shouldStart \in BOOLEAN
    /\ shallStart \in BOOLEAN /\ atMining \in BOOLEAN
    /\ isMining \in BOOLEAN /\ workCh \in BOOLEAN /\ stopCh \in BOOLEAN
    /\ pc \in [Threads -> Labels]
    /\ mu \in Threads \cup {None}
    /\ updaters \in Int
    /\ seals \subseteq Channels
    /\ quit \in Channels \cup {None}
    /\ calls \in 0..MaxCalls /\ wish \in {"start", "stop"}

Pending == \E t \in Threads : pc[t] = "t.token"

Balance ==
    updaters = (IF isMining THEN 1 ELSE 0) + (IF stopCh THEN 1 ELSE 0)
                 + (IF Pending THEN 1 ELSE 0)

MinerInv ==
    /\ Types
    /\ Exclusion
    /\ TokenOfStopped
    /\ Balance
    /\ SealsQuit

-----------------------------------------------------------------------------
(* Steps outside the sections of worker.mu. *)

LEMMA ThreadFacts ==
    /\ None \notin Threads /\ "sync" \in Threads /\ "update" \in Threads
    /\ Users \subseteq Threads /\ Starters \cup Stoppers = Users
    /\ \A t \in Users : t # "sync" /\ t # "update"
BY ControlAssumption DEF Threads, Users

LEMMA MinerInitInv == MinerInit => MinerInv
<1> SUFFICES ASSUME MinerInit PROVE MinerInv
    OBVIOUS
<1>1. pc \in [Threads -> {"idle", "y.start", "c.mu"}]
    BY DEF MinerInit
<1>2. pc \in [Threads -> Labels]
    BY <1>1 DEF Labels
<1>3. Types
    <2>1. /\ mining \in BOOLEAN /\ canStart \in BOOLEAN /\ shouldStart \in BOOLEAN
          /\ shallStart \in BOOLEAN /\ atMining \in BOOLEAN
          /\ isMining \in BOOLEAN /\ workCh \in BOOLEAN /\ stopCh \in BOOLEAN
        BY Zenon DEF MinerInit
    <2>2. /\ mu = None /\ quit = None /\ seals = {} /\ updaters \in Int
          /\ calls \in 0..MaxCalls /\ wish = "stop"
        BY ControlAssumption DEF MinerInit
    <2> QED BY <1>2, <2>1, <2>2, Zenon DEF Types
<1>4. \A t \in Threads : pc[t] \notin Holding /\ mu # t
    BY <1>1, ThreadFacts DEF Holding, MinerInit
<1>5. Exclusion /\ TokenOfStopped /\ ~Pending
    BY <1>4 DEF Exclusion, TokenOfStopped, Pending, Holding
<1> QED BY <1>3, <1>5 DEF MinerInit, MinerInv, Balance, SealsQuit

\* A step of t between two labels outside those sections changes flags only.
LEMMA OutsideInv ==
    ASSUME MinerInv, NEW t \in Threads, NEW to \in Labels \ Holding,
           pc[t] \notin Holding, pc' = [pc EXCEPT ![t] = to],
           UNCHANGED <<mu, atMining, agent>>,
           mining' \in BOOLEAN, canStart' \in BOOLEAN, shouldStart' \in BOOLEAN,
           shallStart' \in BOOLEAN, calls' \in 0..MaxCalls, wish' \in {"start", "stop"}
    PROVE  MinerInv'
<1>1. pc \in [Threads -> Labels]
    BY DEF MinerInv, Types
<1>2. Types'
    BY <1>1 DEF MinerInv, Types, agent
<1>3. \A s \in Threads : pc'[s] = IF s = t THEN to ELSE pc[s]
    BY <1>1
<1>4. \A s \in Threads : (pc'[s] \in Holding <=> pc[s] \in Holding)
                         /\ (pc'[s] = "t.token" <=> pc[s] = "t.token")
    BY <1>3 DEF Holding
<1>5. Exclusion'
    BY <1>4 DEF MinerInv, Exclusion
<1>6. TokenOfStopped' /\ (Pending' <=> Pending)
    BY <1>4 DEF MinerInv, TokenOfStopped, Pending, agent
<1>7. Balance'
    BY <1>6 DEF MinerInv, Balance, agent
<1> QED BY <1>2, <1>5, <1>6, <1>7 DEF MinerInv, SealsQuit, agent

LEMMA CallInv == ASSUME MinerInv, NEW t \in Users, Call(t) PROVE MinerInv'
<1>1. t \in Threads
    BY ThreadFacts
<1>2. calls' \in 0..MaxCalls /\ wish' \in {"start", "stop"}
    BY ControlAssumption DEF Call, MinerInv, Types
<1>3. PICK to \in {"s.should", "t.worker"} : pc[t] = "idle" /\ pc' = [pc EXCEPT ![t] = to]
    BY DEF Call, Step
<1>4. to \in Labels \ Holding /\ pc[t] \notin Holding
    BY <1>3 DEF Labels, Holding
<1>5. /\ UNCHANGED <<mu, atMining, agent>>
      /\ mining' \in BOOLEAN /\ canStart' \in BOOLEAN
      /\ shouldStart' \in BOOLEAN /\ shallStart' \in BOOLEAN
    BY DEF Call, flags, MinerInv, Types
<1> QED BY <1>1, <1>2, <1>3, <1>4, <1>5, OutsideInv

\* The steps of Start and Stop that only read or write flags.
FlagStep(t) ==
    \/ StartShould(t) \/ StartEtherbase(t) \/ StartCan(t) \/ StartMining(t)
    \/ StopMining(t) \/ StopShould(t)

LEMMA FlagInv == ASSUME MinerInv, NEW t \in Threads, FlagStep(t) PROVE MinerInv'
<1>1. PICK to \in {"s.etherbase", "s.can", "s.mining", "s.worker", "t.should",
                   "idle", "y.exit", "y.should"} :
          /\ pc[t] \in {"s.should", "s.etherbase", "s.can", "s.mining", "t.mining", "t.should"}
          /\ pc' = [pc EXCEPT ![t] = to]
    <2>1. CASE StartShould(t) BY <2>1 DEF StartShould, Step
    <2>2. CASE StartEtherbase(t) BY <2>2 DEF StartEtherbase, Step
    <2>3. CASE StartCan(t) BY <2>3 DEF StartCan, Step, AfterStart
    <2>4. CASE StartMining(t) BY <2>4 DEF StartMining, Step
    <2>5. CASE StopMining(t) BY <2>5 DEF StopMining, Step
    <2>6. CASE StopShould(t) BY <2>6 DEF StopShould, Step, AfterStop
    <2> QED BY <2>1, <2>2, <2>3, <2>4, <2>5, <2>6 DEF FlagStep
<1>2. to \in Labels \ Holding /\ pc[t] \notin Holding
    BY <1>1 DEF Labels, Holding
<1>3. /\ UNCHANGED <<mu, atMining, agent>>
      /\ mining' \in BOOLEAN /\ canStart' \in BOOLEAN
      /\ shouldStart' \in BOOLEAN /\ shallStart' \in BOOLEAN
      /\ calls' = calls /\ wish' = wish
    BY DEF FlagStep, StartShould, StartEtherbase, StartCan, StartMining, StopMining,
           StopShould, flags, user, MinerInv, Types
<1>4. calls' \in 0..MaxCalls /\ wish' \in {"start", "stop"}
    BY <1>3 DEF MinerInv, Types
<1> QED BY <1>1, <1>2, <1>3, <1>4, OutsideInv

\* Miner.update, apart from the Start and the Stop it calls.
SyncStep == SyncStarts \/ SyncEnds \/ Sync

LEMMA SyncInv == ASSUME MinerInv, SyncStep PROVE MinerInv'
<1>1. PICK to \in {"y.check", "t.worker", "y.syncing", "y.can", "y.clear", "s.should",
                   "y.exit"} :
          /\ pc["sync"] \in {"y.start", "y.check", "y.should", "y.syncing", "y.can", "y.clear"}
          /\ pc' = [pc EXCEPT !["sync"] = to]
    <2>1. CASE SyncStarts BY <2>1 DEF SyncStarts, Step
    <2>2. CASE SyncEnds BY <2>2 DEF SyncEnds, Step
    <2>3. CASE SyncCheck BY <2>3 DEF SyncCheck, Step
    <2>4. CASE SyncShould BY <2>4 DEF SyncShould, Step
    <2>5. CASE SyncCan BY <2>5 DEF SyncCan, Step
    <2>6. CASE SyncClear BY <2>6 DEF SyncClear, Step
    <2> QED BY <2>1, <2>2, <2>3, <2>4, <2>5, <2>6 DEF SyncStep, Sync
<1>2. to \in Labels \ Holding /\ pc["sync"] \notin Holding
    BY <1>1 DEF Labels, Holding
<1>3. /\ UNCHANGED <<mu, atMining, agent>>
      /\ mining' \in BOOLEAN /\ canStart' \in BOOLEAN
      /\ shouldStart' \in BOOLEAN /\ shallStart' \in BOOLEAN
      /\ calls' = calls /\ wish' = wish
    BY DEF SyncStep, Sync, SyncStarts, SyncEnds, SyncCheck, SyncShould, SyncCan, SyncClear,
           flags, user, MinerInv, Types
<1>4. calls' \in 0..MaxCalls /\ wish' \in {"start", "stop"}
    BY <1>3 DEF MinerInv, Types
<1> QED BY <1>1, <1>2, <1>3, <1>4, ThreadFacts, OutsideInv

-----------------------------------------------------------------------------
(* Steps that take or release worker.mu, or are taken with it. *)

\* While t holds worker.mu, or nobody does, no other goroutine is in a section.
LEMMA Alone ==
    ASSUME MinerInv, NEW t \in Threads, mu = t \/ mu = None
    PROVE  \A s \in Threads : s # t => pc[s] \notin Holding
BY ThreadFacts DEF MinerInv, Exclusion

\* A step of t to the label `to' that takes, keeps or releases worker.mu.
SectionStep(t, to) ==
    /\ mu = t \/ mu = None
    /\ pc' = [pc EXCEPT ![t] = to]
    /\ mu' = IF to \in Holding THEN t ELSE None
    /\ UNCHANGED <<flags, user, seals, quit>>

BooleansAfter ==
    /\ atMining' \in BOOLEAN /\ isMining' \in BOOLEAN
    /\ workCh' \in BOOLEAN /\ stopCh' \in BOOLEAN

\* The balance after it: t is the only goroutine that can be at a token.
BalanceAfter(to) ==
    /\ updaters' \in Int /\ updaters' >= updaters
    /\ to = "t.token" => ~isMining'
    /\ updaters' = (IF isMining' THEN 1 ELSE 0) + (IF stopCh' THEN 1 ELSE 0)
                     + (IF to = "t.token" THEN 1 ELSE 0)

LEMMA SectionInv ==
    ASSUME MinerInv, NEW t \in Threads, NEW to \in Labels,
           SectionStep(t, to), BooleansAfter, BalanceAfter(to)
    PROVE  MinerInv'
<1>1. pc \in [Threads -> Labels] /\ updaters \in Int
    BY DEF MinerInv, Types
<1>2. /\ mu = t \/ mu = None
      /\ pc' = [pc EXCEPT ![t] = to]
      /\ mu' = IF to \in Holding THEN t ELSE None
      /\ UNCHANGED <<mining, canStart, shouldStart, shallStart, calls, wish, seals, quit>>
    BY DEF SectionStep, flags, user
<1>3. Types'
    <2>1. pc' \in [Threads -> Labels] /\ mu' \in Threads \cup {None}
        BY <1>1, <1>2
    <2>2. updaters' \in Int
        BY DEF BalanceAfter
    <2>3. /\ mining' \in BOOLEAN /\ canStart' \in BOOLEAN /\ shouldStart' \in BOOLEAN
          /\ shallStart' \in BOOLEAN
          /\ seals' \subseteq Channels /\ quit' \in Channels \cup {None}
          /\ calls' \in 0..MaxCalls /\ wish' \in {"start", "stop"}
        BY <1>2, Zenon DEF MinerInv, Types
    <2> QED BY <2>1, <2>2, <2>3, Zenon DEF Types, BooleansAfter
<1>4. \A s \in Threads : pc'[s] = IF s = t THEN to ELSE pc[s]
    BY <1>1, <1>2
<1>5. \A s \in Threads : pc'[s] \in Holding => s = t
    BY <1>2, <1>4, Alone
<1>6. Exclusion'
    BY <1>2, <1>4, <1>5, ThreadFacts DEF Exclusion
<1>7. Pending' <=> to = "t.token"
    BY <1>4, <1>5 DEF Pending, Holding
<1>8. TokenOfStopped'
    BY <1>4, <1>5 DEF TokenOfStopped, Holding, BalanceAfter
<1>9. Balance'
    BY <1>7 DEF Balance, BalanceAfter
<1>10. SealsQuit'
    BY <1>1, <1>2 DEF MinerInv, SealsQuit, BalanceAfter
<1> QED BY <1>3, <1>6, <1>8, <1>9, <1>10 DEF MinerInv

\* The balance, for a step of t that is alone.
LEMMA AloneBalance ==
    ASSUME MinerInv, NEW t \in Threads, mu = t \/ mu = None
    PROVE  /\ updaters = (IF isMining THEN 1 ELSE 0) + (IF stopCh THEN 1 ELSE 0)
                           + (IF pc[t] = "t.token" THEN 1 ELSE 0)
           /\ pc[t] = "t.token" => ~isMining
           /\ isMining \in BOOLEAN /\ stopCh \in BOOLEAN /\ workCh \in BOOLEAN
           /\ atMining \in BOOLEAN /\ updaters \in Int
<1>1. Pending <=> pc[t] = "t.token"
    BY Alone DEF Pending, Holding
<1> QED BY <1>1 DEF MinerInv, Balance, TokenOfStopped, Types

\* A goroutine at a label of Holding holds worker.mu.
LEMMA Holder ==
    ASSUME MinerInv, NEW t \in Threads, pc[t] \in Holding
    PROVE  mu = t
BY DEF MinerInv, Exclusion

LEMMA StartWorkerInv == ASSUME MinerInv, NEW t \in Threads, StartWorker(t) PROVE MinerInv'
<1>1. /\ mu = None /\ pc[t] = "s.worker" /\ pc' = [pc EXCEPT ![t] = "c.mu"]
      /\ atMining' = TRUE /\ isMining' = TRUE
      /\ updaters' = IF isMining THEN updaters ELSE updaters + 1
      /\ UNCHANGED <<flags, mu, workCh, stopCh, seals, quit, user>>
    BY DEF StartWorker, Step
<1>2. "c.mu" \in Labels /\ "c.mu" \notin Holding /\ pc[t] # "t.token"
    BY <1>1 DEF Labels, Holding
<1>3. SectionStep(t, "c.mu")
    BY <1>1, <1>2 DEF SectionStep
<1>4. BooleansAfter
    BY <1>1, Zenon DEF BooleansAfter, MinerInv, Types
<1>5. BalanceAfter("c.mu")
    <2>1. updaters \in Int /\ updaters = (IF isMining THEN 1 ELSE 0) + (IF stopCh THEN 1 ELSE 0)
        BY <1>1, <1>2, AloneBalance
    <2>2. updaters' = 1 + (IF stopCh THEN 1 ELSE 0) /\ updaters' >= updaters
        BY <1>1, <2>1
    <2> QED BY <1>1, <2>2 DEF BalanceAfter
<1> QED BY <1>2, <1>3, <1>4, <1>5, SectionInv

LEMMA StopWorkerInv == ASSUME MinerInv, NEW t \in Threads, StopWorker(t) PROVE MinerInv'
<1> DEFINE to == IF atMining THEN "t.agent" ELSE "t.mining"
<1>1. /\ mu = None /\ pc[t] = "t.worker" /\ pc' = [pc EXCEPT ![t] = to]
      /\ mu' = IF atMining THEN t ELSE None
      /\ UNCHANGED <<flags, user, atMining, isMining, workCh, stopCh, updaters, seals, quit>>
    BY DEF StopWorker, Step, agent
<1>2. /\ to \in Labels /\ (to \in Holding <=> atMining) /\ to # "t.token"
      /\ pc[t] # "t.token"
    BY <1>1 DEF Labels, Holding
<1> HIDE DEF to
<1>3. SectionStep(t, to)
    BY <1>1, <1>2 DEF SectionStep
<1>4. BooleansAfter
    BY <1>1, Zenon DEF BooleansAfter, MinerInv, Types
<1>5. BalanceAfter(to)
    <2>1. updaters \in Int /\ updaters = (IF isMining THEN 1 ELSE 0) + (IF stopCh THEN 1 ELSE 0)
        BY <1>1, <1>2, AloneBalance
    <2> QED BY <1>1, <1>2, <2>1 DEF BalanceAfter
<1> QED BY <1>2, <1>3, <1>4, <1>5, SectionInv

LEMMA StopAgentInv == ASSUME MinerInv, NEW t \in Threads, StopAgent(t) PROVE MinerInv'
<1> DEFINE to == IF isMining THEN "t.token" ELSE "t.done"
<1>1. /\ pc[t] = "t.agent" /\ pc' = [pc EXCEPT ![t] = to] /\ isMining' = FALSE
      /\ UNCHANGED <<flags, user, mu, atMining, workCh, stopCh, updaters, seals, quit>>
    BY DEF StopAgent, Step
<1>2. to \in Labels /\ to \in Holding /\ (to = "t.token" <=> isMining) /\ pc[t] \in Holding
    BY <1>1 DEF Labels, Holding
<1> HIDE DEF to
<1>3. mu = t
    BY <1>2, Holder
<1>4. SectionStep(t, to)
    BY <1>1, <1>2, <1>3 DEF SectionStep
<1>5. BooleansAfter
    BY <1>1, Zenon DEF BooleansAfter, MinerInv, Types
<1>6. BalanceAfter(to)
    <2>1. updaters \in Int /\ updaters = (IF isMining THEN 1 ELSE 0) + (IF stopCh THEN 1 ELSE 0)
        BY <1>1, <1>3, AloneBalance
    <2> QED BY <1>1, <1>2, <2>1 DEF BalanceAfter
<1> QED BY <1>2, <1>4, <1>5, <1>6, SectionInv

LEMMA StopTokenInv == ASSUME MinerInv, NEW t \in Threads, StopToken(t) PROVE MinerInv'
<1>1. /\ ~stopCh /\ pc[t] = "t.token" /\ pc' = [pc EXCEPT ![t] = "t.drain"] /\ stopCh' = TRUE
      /\ UNCHANGED <<flags, user, mu, atMining, isMining, workCh, updaters, seals, quit>>
    BY DEF StopToken, Step
<1>2. "t.drain" \in Labels /\ "t.drain" \in Holding /\ pc[t] \in Holding
    BY <1>1 DEF Labels, Holding
<1>3. mu = t
    BY <1>2, Holder
<1>4. SectionStep(t, "t.drain")
    BY <1>1, <1>2, <1>3 DEF SectionStep
<1>5. BooleansAfter
    BY <1>1, Zenon DEF BooleansAfter, MinerInv, Types
<1>6. BalanceAfter("t.drain")
    <2>1. updaters = 1 /\ ~isMining
        BY <1>1, <1>3, AloneBalance
    <2> QED BY <1>1, <2>1 DEF BalanceAfter
<1> QED BY <1>2, <1>4, <1>5, <1>6, SectionInv

\* The steps that leave the balance alone: the work in the channel is dropped,
\* worker.mu is released, work is committed.
LEMMA BalanceKept ==
    ASSUME MinerInv, NEW t \in Threads, NEW to, mu = t \/ mu = None,
           pc[t] # "t.token", to # "t.token", UNCHANGED <<isMining, stopCh, updaters>>
    PROVE  BalanceAfter(to)
<1>1. updaters \in Int /\ updaters = (IF isMining THEN 1 ELSE 0) + (IF stopCh THEN 1 ELSE 0)
    BY AloneBalance
<1> QED BY <1>1 DEF BalanceAfter

LEMMA StopDrainInv == ASSUME MinerInv, NEW t \in Threads, StopDrain(t) PROVE MinerInv'
<1>1. /\ pc[t] = "t.drain" /\ pc' = [pc EXCEPT ![t] = "t.done"] /\ workCh' = FALSE
      /\ UNCHANGED <<flags, user, mu, atMining, isMining, stopCh, updaters, seals, quit>>
    BY DEF StopDrain, Step
<1>2. "t.done" \in Labels /\ "t.done" \in Holding /\ pc[t] \in Holding
    BY <1>1 DEF Labels, Holding
<1>3. mu = t
    BY <1>2, Holder
<1>4. SectionStep(t, "t.done")
    BY <1>1, <1>2, <1>3 DEF SectionStep
<1>5. BooleansAfter
    BY <1>1, Zenon DEF BooleansAfter, MinerInv, Types
<1>6. BalanceAfter("t.done")
    BY <1>1, <1>3, BalanceKept
<1> QED BY <1>2, <1>4, <1>5, <1>6, SectionInv

LEMMA StopDoneInv == ASSUME MinerInv, NEW t \in Threads, StopDone(t) PROVE MinerInv'
<1>1. /\ pc[t] = "t.done" /\ pc' = [pc EXCEPT ![t] = "t.mining"]
      /\ atMining' = FALSE /\ mu' = None
      /\ UNCHANGED <<flags, user, isMining, workCh, stopCh, updaters, seals, quit>>
    BY DEF StopDone, Step, agent
<1>2. "t.mining" \in Labels /\ "t.mining" \notin Holding /\ pc[t] \in Holding
    BY <1>1 DEF Labels, Holding
<1>3. mu = t
    BY <1>2, Holder
<1>4. SectionStep(t, "t.mining")
    BY <1>1, <1>2, <1>3 DEF SectionStep
<1>5. BooleansAfter
    BY <1>1, Zenon DEF BooleansAfter, MinerInv, Types
<1>6. BalanceAfter("t.mining")
    BY <1>1, <1>3, BalanceKept
<1> QED BY <1>2, <1>4, <1>5, <1>6, SectionInv

LEMMA CommitLockInv == ASSUME MinerInv, NEW t \in Threads, CommitLock(t) PROVE MinerInv'
<1>1. /\ mu = None /\ pc[t] = "c.mu" /\ pc' = [pc EXCEPT ![t] = "c.push"] /\ mu' = t
      /\ UNCHANGED <<flags, user, atMining, isMining, workCh, stopCh, updaters, seals, quit>>
    BY DEF CommitLock, Step, agent
<1>2. "c.push" \in Labels /\ "c.push" \in Holding
    BY DEF Labels, Holding
<1>3. SectionStep(t, "c.push")
    BY <1>1, <1>2 DEF SectionStep
<1>4. BooleansAfter
    BY <1>1, Zenon DEF BooleansAfter, MinerInv, Types
<1>5. BalanceAfter("c.push")
    BY <1>1, BalanceKept
<1> QED BY <1>2, <1>3, <1>4, <1>5, SectionInv

LEMMA CommitFailInv == ASSUME MinerInv, NEW t \in Threads, CommitFail(t) PROVE MinerInv'
<1> DEFINE to == AfterCommit(t)
<1>1. /\ pc[t] = "c.push" /\ pc' = [pc EXCEPT ![t] = to] /\ mu' = None
      /\ UNCHANGED <<flags, user, atMining, isMining, workCh, stopCh, updaters, seals, quit>>
    BY DEF CommitFail, Step, agent
<1>2. to \in Labels /\ to \notin Holding /\ to # "t.token" /\ pc[t] \in Holding
    BY <1>1 DEF Labels, Holding, AfterCommit, AfterStart
<1> HIDE DEF to
<1>3. mu = t
    BY <1>2, Holder
<1>4. SectionStep(t, to)
    BY <1>1, <1>2, <1>3 DEF SectionStep
<1>5. BooleansAfter
    BY <1>1, Zenon DEF BooleansAfter, MinerInv, Types
<1>6. BalanceAfter(to)
    BY <1>1, <1>2, <1>3, BalanceKept
<1> QED BY <1>2, <1>4, <1>5, <1>6, SectionInv

LEMMA CommitPushInv == ASSUME MinerInv, NEW t \in Threads, CommitPush(t) PROVE MinerInv'
<1> DEFINE to == AfterCommit(t)
<1>1. /\ pc[t] = "c.push" /\ pc' = [pc EXCEPT ![t] = to] /\ mu' = None
      /\ workCh' = (workCh \/ atMining)
      /\ UNCHANGED <<flags, user, atMining, isMining, stopCh, updaters, seals, quit>>
    BY DEF CommitPush, Step
<1>2. to \in Labels /\ to \notin Holding /\ to # "t.token" /\ pc[t] \in Holding
    BY <1>1 DEF Labels, Holding, AfterCommit, AfterStart
<1> HIDE DEF to
<1>3. mu = t
    BY <1>2, Holder
<1>4. SectionStep(t, to)
    BY <1>1, <1>2, <1>3 DEF SectionStep
<1>5. BooleansAfter
    BY <1>1, Zenon DEF BooleansAfter, MinerInv, Types
<1>6. BalanceAfter(to)
    BY <1>1, <1>2, <1>3, BalanceKept
<1> QED BY <1>2, <1>4, <1>5, <1>6, SectionInv

-----------------------------------------------------------------------------
(* The agent. *)

\* A goroutine of the agent leaves with the token it takes.
TokensMatch ==
    \/ stopCh' = stopCh /\ updaters' = updaters
    \/ stopCh /\ ~stopCh' /\ updaters' = updaters - 1

\* A step of the agent leaves the goroutines that call it where they are.
LEMMA AgentInv ==
    ASSUME MinerInv, UNCHANGED <<flags, pc, mu, atMining, isMining, user>>,
           workCh' \in BOOLEAN, stopCh' \in BOOLEAN, updaters' \in Int,
           seals' \subseteq Channels, quit' \in Channels \cup {None},
           TokensMatch, SealsQuit'
    PROVE  MinerInv'
<1>1. Types'
    BY DEF MinerInv, Types, flags, user
<1>2. Exclusion' /\ TokenOfStopped' /\ (Pending' <=> Pending)
    BY DEF MinerInv, Exclusion, TokenOfStopped, Pending
<1>3. Balance'
    <2>1. CASE stopCh' = stopCh /\ updaters' = updaters
        BY <1>2, <2>1 DEF MinerInv, Balance
    <2>2. CASE stopCh /\ ~stopCh' /\ updaters' = updaters - 1
        <3>1. updaters' = (IF isMining THEN 1 ELSE 0) + (IF Pending THEN 1 ELSE 0)
            BY <2>2 DEF MinerInv, Balance
        <3> QED BY <1>2, <2>2, <3>1 DEF Balance
    <2> QED BY <2>1, <2>2 DEF TokensMatch
<1> QED BY <1>1, <1>2, <1>3 DEF MinerInv

LEMMA AgentWorkInv == ASSUME MinerInv, AgentWork PROVE MinerInv'
<1>1. seals \subseteq {quit}
    BY DEF MinerInv, SealsQuit
<1>2. \E c \in Channels : c \notin seals \cup {quit}
    BY <1>1 DEF Channels
<1>3. quit' \in Channels /\ seals' = {quit'}
    BY <1>1, <1>2 DEF AgentWork
<1>4. updaters > 0 /\ workCh' = FALSE /\ UNCHANGED <<updaters, stopCh>>
      /\ UNCHANGED <<flags, pc, mu, atMining, isMining, user>>
    BY DEF AgentWork
<1>5. updaters \in Int /\ stopCh \in BOOLEAN
    BY DEF MinerInv, Types
<1>6. SealsQuit'
    BY <1>3, <1>4 DEF SealsQuit
<1>7. TokensMatch /\ workCh' \in BOOLEAN /\ stopCh' \in BOOLEAN /\ updaters' \in Int
    BY <1>4, <1>5 DEF TokensMatch
<1>8. seals' \subseteq Channels
    BY <1>3
<1> QED BY <1>3, <1>4, <1>6, <1>7, <1>8, AgentInv

LEMMA AgentStopInv == ASSUME MinerInv, AgentStop PROVE MinerInv'
<1>1. seals \subseteq {quit} /\ seals' = seals \ {quit}
    BY DEF MinerInv, SealsQuit, AgentStop
<1>2. seals' = {}
    BY <1>1
<1>3. /\ stopCh /\ stopCh' = FALSE /\ quit' = None /\ updaters' = updaters - 1
      /\ UNCHANGED <<flags, pc, mu, atMining, isMining, workCh, user>>
    BY DEF AgentStop
<1>4. updaters \in Int /\ workCh \in BOOLEAN
    BY DEF MinerInv, Types
<1>5. SealsQuit'
    BY <1>2 DEF SealsQuit
<1>6. TokensMatch
    BY <1>3, Zenon DEF TokensMatch
<1>9. updaters' \in Int
    BY <1>3, <1>4
<1>7. workCh' \in BOOLEAN /\ stopCh' \in BOOLEAN
    BY <1>3, <1>4, Zenon
<1>8. seals' \subseteq Channels /\ quit' \in Channels \cup {None}
    BY <1>2, <1>3
<1> QED BY <1>3, <1>5, <1>6, <1>7, <1>8, <1>9, AgentInv

LEMMA SealReturnInv == ASSUME MinerInv, NEW c \in Channels, SealReturn(c) PROVE MinerInv'
<1>1. /\ seals' = seals \ {c}
      /\ UNCHANGED <<flags, pc, mu, atMining, isMining, workCh, stopCh, updaters, quit, user>>
    BY DEF SealReturn
<1>2. /\ updaters \in Int /\ workCh \in BOOLEAN /\ stopCh \in BOOLEAN
      /\ seals \subseteq Channels /\ quit \in Channels \cup {None}
    BY DEF MinerInv, Types
<1>3. SealsQuit'
    BY <1>1 DEF MinerInv, SealsQuit
<1>4. TokensMatch
    BY <1>1 DEF TokensMatch
<1> QED BY <1>1, <1>2, <1>3, <1>4, AgentInv

-----------------------------------------------------------------------------
(* The theorems. *)

LEMMA MinerNextInv == MinerInv /\ [MinerNext]_minerVars => MinerInv'
<1> SUFFICES ASSUME MinerInv, [MinerNext]_minerVars PROVE MinerInv'
    OBVIOUS
<1>1. CASE \E t \in Users : Call(t)
    BY <1>1, CallInv
<1>2. CASE \E t \in Threads : Proceed(t) \/ CommitFail(t)
    <2>1. PICK t \in Threads : Proceed(t) \/ CommitFail(t)
        BY <1>2
    <2>2. CASE FlagStep(t) BY <2>2, FlagInv
    <2>3. CASE StartWorker(t) BY <2>3, StartWorkerInv
    <2>4. CASE StopWorker(t) BY <2>4, StopWorkerInv
    <2>5. CASE StopAgent(t) BY <2>5, StopAgentInv
    <2>6. CASE StopToken(t) BY <2>6, StopTokenInv
    <2>7. CASE StopDrain(t) BY <2>7, StopDrainInv
    <2>8. CASE StopDone(t) BY <2>8, StopDoneInv
    <2>9. CASE CommitLock(t) BY <2>9, CommitLockInv
    <2>10. CASE CommitPush(t) BY <2>10, CommitPushInv
    <2>11. CASE CommitFail(t) BY <2>11, CommitFailInv
    <2> QED
        BY <2>1, <2>2, <2>3, <2>4, <2>5, <2>6, <2>7, <2>8, <2>9, <2>10, <2>11
        DEF Proceed, FlagStep
<1>3. CASE SyncStep
    BY <1>3, SyncInv
<1>4. CASE AgentWork BY <1>4, AgentWorkInv
<1>5. CASE AgentStop BY <1>5, AgentStopInv
<1>6. CASE \E c \in Channels : SealReturn(c)
    BY <1>6, SealReturnInv
<1>7. CASE UNCHANGED minerVars
    BY <1>7 DEF minerVars, flags, agent, user, MinerInv, Types, Exclusion, TokenOfStopped, Balance,
                Pending, SealsQuit
<1> QED BY <1>1, <1>2, <1>3, <1>4, <1>5, <1>6, <1>7 DEF MinerNext, SyncStep

LEMMA MinerInductive == MinerSpec => []MinerInv
<1> QED BY MinerInitInv, MinerNextInv, PTL DEF MinerSpec

\* However calls of Start and Stop, by any number of users, interleave with
\* each other, the synchronisation and the agent: the goroutines in
\* CpuAgent.update match the tokens in its stop channel, and there are at most
\* two of them.
THEOREM GoroutinesBalanced == MinerSpec => []UpdatersBalanced
<1>1. MinerInv => UpdatersBalanced
    <2> SUFFICES ASSUME MinerInv PROVE UpdatersBalanced
        OBVIOUS
    <2>1. Pending => ~isMining
        BY DEF MinerInv, Pending, TokenOfStopped
    <2>2. updaters \in 0..2
        BY <2>1 DEF MinerInv, Balance
    <2>3. seals = {} \/ seals = {quit}
        BY DEF MinerInv, SealsQuit
    <2>4. Cardinality(seals) <= 1
        <3>1. CASE seals = {}
            BY <3>1, FS_EmptySet
        <3>2. CASE seals = {quit}
            <4>1. Cardinality({quit}) = 1
                BY FS_Singleton
            <4> QED BY <3>2, <4>1
        <3> QED BY <2>3, <3>1, <3>2
    <2>5. MinerTypeOK
        BY <2>2, <2>4 DEF MinerInv, Types, MinerTypeOK
    <2> QED BY <2>5 DEF MinerInv, Balance, Pending, UpdatersBalanced
<1> QED BY <1>1, MinerInductive, PTL

\* A seal that was not told to quit is always the one quitCurrentOp belongs to,
\* and a goroutine is left in CpuAgent.update that will tell it.
THEOREM EverySealCanBeStopped == MinerSpec => []NoOrphanSeal
<1>1. MinerInv => NoOrphanSeal
    BY DEF MinerInv, SealsQuit, NoOrphanSeal
<1> QED BY <1>1, MinerInductive, PTL

=============================================================================
