--------------------------- MODULE ProposalsProofs ---------------------------
(***************************************************************************)
(* Proofs about Proposals: for every chain, validity, stake and order of   *)
(* Go's maps, if proposals come one per block and are decided one per      *)
(* block, a snapshot is a function of the chain, and the share of the      *)
(* miner is what the chain decided unless a header was applied twice or    *)
(* not at all.  The invariant says what every snapshot in memory and on    *)
(* disk holds; one lemma per step of apply takes it past a proposal, a     *)
(* declare and a decision, and inductions take it along the loops.         *)
(***************************************************************************)
EXTENDS Proposals, FiniteSetTheorems, SequenceTheorems, WellFoundedInduction, TLAPS

-----------------------------------------------------------------------------
(* The inductive invariant. *)

Header == [proposals : Seq(Hash), declares : Seq(Declare)]

PropsOf(n) == ToSet(chain[n].proposals)

\* Headers hold proposals and declares, and no proposal comes twice.
ChainOK ==
    /\ chain \in Seq(Header)
    /\ Len(chain) <= MaxNumber
    /\ \A n, m \in DOMAIN chain : \A h \in PropsOf(n) : h \in PropsOf(m) => n = m

Entry ==
    [of : Hash, received : 1..MaxNumber,
     declares : SUBSET [by : Declarer, decision : {"yes", "no"}]]

\* Every hash has a cell, every cell a proposal.
Typed(s) ==
    /\ DOMAIN s.data \subseteq Hash /\ s.data \in [DOMAIN s.data -> Entry]
    /\ DOMAIN s.cell \subseteq Hash /\ s.cell \in [DOMAIN s.cell -> DOMAIN s.data]
    /\ s.sc \subseteq {ValueOf[h] : h \in Hash}

\* What apply works on.
IsWork(s) ==
    /\ DOMAIN s = {"cell", "data", "sc", "reward"}
    /\ Typed(s)
    /\ s.reward \in Nat

\* The declare at p comes no later than the j-th of block m.
Upto(p, m, j) == p[1] < m \/ (p[1] = m /\ p[2] <= j)

\* D are the first declares of the candidates on h up to there.
Polled(D, h, m, j) ==
    /\ \A e \in D : /\ e.by \in Candidate
                    /\ \E p \in Declared : /\ FirstBy(p, e.by, h) /\ Upto(p, m, j)
                                           /\ DeclareAt(p).decision = e.decision
    /\ \A p \in Declared : \A a \in Candidate :
          Counts(p, a, h) /\ Upto(p, m, j) => \E e \in D : e.by = a

\* Each hash has its own cell, which holds the proposal as the chain has it.
Right(s, S, k, m, j) ==
    /\ DOMAIN s.cell = S
    /\ \A h \in S : /\ s.cell[h] = h
                    /\ s.data[h].of = h
                    /\ s.data[h].received = ProposedAt(h)
                    /\ Polled(s.data[h].declares, h, m, j)
    /\ s.sc = SideChainsOf(k)

\* A snapshot of block n.
GoodSnap(s, n) ==
    /\ DOMAIN s = {"number", "cell", "data", "sc"}
    /\ s.number = n
    /\ Typed(s)
    /\ Separate(n) => Right(s, OpenOrPassed(n), n, n + 1, 0)

DiskOK ==
    /\ DOMAIN disk \subseteq 0..Len(chain) /\ 0 \in DOMAIN disk
    /\ \A n \in DOMAIN disk : GoodSnap(disk[n], n)
    /\ snap.number = 0 /\ events = 0 => DOMAIN disk = {0}

RewardOK ==
    /\ reward \in Nat
    /\ once /\ Separate(snap.number) => reward = RewardOfChain(snap.number)

IInv ==
    /\ setup \in Setups
    /\ ChainOK
    /\ snap.number \in 0..Len(chain) /\ GoodSnap(snap, snap.number)
    /\ DiskOK
    /\ RewardOK
    /\ once \in BOOLEAN /\ events \in 0..MaxEvents

-----------------------------------------------------------------------------
(* The chain. *)

\* What the assumption says of the proposals in force.
LEMMA SetupFacts ==
    ASSUME setup \in Setups
    PROVE  /\ KindOf \in [Hash -> {"reward", "scAdd", "scRemove", "candidate"}]
           /\ ValueOf \in [Hash -> Nat]
           /\ Tally \in [DOMAIN Tally -> Nat \ {0}]
           /\ IsFiniteSet(DOMAIN Tally)
           /\ IsFiniteSet(Hash)
           /\ Validity \in [Hash -> Nat \ {0}]
           /\ Candidate \subseteq Declarer
           /\ DefaultReward \in Nat /\ MaxNumber \in Nat
  BY ProposalsAssumption DEF ProposalsAssumption, KindOf, ValueOf, Tally

\* A proposal is in the one block ProposedAt names.
LEMMA ChainFacts ==
    ASSUME ChainOK
    PROVE  /\ Len(chain) \in Nat /\ DOMAIN chain = 1..Len(chain)
           /\ Len(chain) <= MaxNumber
           /\ \A n \in DOMAIN chain :
                 /\ chain[n].proposals \in Seq(Hash)
                 /\ chain[n].declares \in Seq(Declare)
                 /\ Len(chain[n].declares) \in Nat
                 /\ DOMAIN chain[n].declares = 1..Len(chain[n].declares)
           /\ \A n \in DOMAIN chain : \A h \in PropsOf(n) :
                 h \in Proposed /\ ProposedAt(h) = n
           /\ \A h \in Proposed :
                 /\ h \in Hash /\ ProposedAt(h) \in DOMAIN chain
                 /\ h \in PropsOf(ProposedAt(h))
<1>1. /\ chain \in Seq(Header)
      /\ Len(chain) <= MaxNumber
  BY DEF ChainOK
<1>2. Len(chain) \in Nat /\ DOMAIN chain = 1..Len(chain)
  BY <1>1, LenProperties
<1>3. \A n \in DOMAIN chain : chain[n] \in Header
  BY <1>1, <1>2, ElementOfSeq
<1>4. \A n \in DOMAIN chain :
         /\ chain[n].proposals \in Seq(Hash)
         /\ chain[n].declares \in Seq(Declare)
  BY <1>3 DEF Header
<1>5. \A n \in DOMAIN chain :
         /\ Len(chain[n].declares) \in Nat
         /\ DOMAIN chain[n].declares = 1..Len(chain[n].declares)
  BY <1>4, LenProperties
<1>6. \A n \in DOMAIN chain : PropsOf(n) \subseteq Hash
  <2> TAKE n \in DOMAIN chain
  <2> DEFINE q == chain[n].proposals
  <2>1. q \in Seq(Hash)
    BY <1>4
  <2> HIDE DEF q
  <2>2. \A i \in DOMAIN q : q[i] \in Hash
    BY <2>1, LenProperties, ElementOfSeq
  <2> QED
    BY <2>2 DEF PropsOf, ToSet, q
<1>7. \A h : h \in Proposed <=> \E n \in DOMAIN chain : h \in PropsOf(n)
  BY DEF Proposed, PropsOf
<1>8. \A h : ProposedAt(h) = CHOOSE n \in DOMAIN chain : h \in PropsOf(n)
  BY DEF ProposedAt, PropsOf
<1>9. \A h \in Proposed :
         ProposedAt(h) \in DOMAIN chain /\ h \in PropsOf(ProposedAt(h))
  BY <1>7, <1>8
<1>10. \A n, m \in DOMAIN chain : \A h \in PropsOf(n) : h \in PropsOf(m) => n = m
  BY DEF ChainOK
<1>11. \A n \in DOMAIN chain : \A h \in PropsOf(n) :
          h \in Proposed /\ ProposedAt(h) = n
  BY <1>7, <1>9, <1>10
<1> QED
  BY <1>1, <1>2, <1>4, <1>5, <1>6, <1>9, <1>11

\* A proposal is decided two blocks after it came, or later.
LEMMA DecidedFacts ==
    ASSUME ChainOK, setup \in Setups, NEW h \in Proposed
    PROVE  /\ h \in Hash
           /\ ProposedAt(h) \in Nat /\ ProposedAt(h) >= 1
           /\ ProposedAt(h) <= Len(chain)
           /\ Validity[h] \in Nat /\ Validity[h] >= 1
           /\ DecidedAt(h) = ProposedAt(h) + Validity[h] + 1
           /\ DecidedAt(h) \in Nat /\ DecidedAt(h) > ProposedAt(h)
<1>1. h \in Hash /\ ProposedAt(h) \in 1..Len(chain) /\ Len(chain) \in Nat
  BY ChainFacts
<1>2. Validity[h] \in Nat \ {0}
  BY <1>1, SetupFacts
<1> HIDE DEF ProposedAt
<1> QED
  BY <1>1, <1>2 DEF DecidedAt

\* A declare has a block and a place in it.
LEMMA DeclaredFacts ==
    ASSUME ChainOK
    PROVE  /\ \A p \in Declared :
                 /\ p = <<p[1], p[2]>>
                 /\ p[1] \in DOMAIN chain /\ p[1] \in Nat
                 /\ p[2] \in 1..Len(chain[p[1]].declares) /\ p[2] \in Nat
                 /\ p[2] >= 1
                 /\ DeclareAt(p) \in Declare
           /\ \A n \in DOMAIN chain : \A i \in 1..Len(chain[n].declares) :
                 <<n, i>> \in Declared
<1>1. /\ Len(chain) \in Nat /\ DOMAIN chain = 1..Len(chain)
      /\ \A n \in DOMAIN chain :
            /\ chain[n].declares \in Seq(Declare)
            /\ Len(chain[n].declares) \in Nat
            /\ DOMAIN chain[n].declares = 1..Len(chain[n].declares)
  BY ChainFacts
<1>2. Declared = UNION {{n} \X (1..Len(chain[n].declares)) : n \in DOMAIN chain}
  BY <1>1 DEF Declared
<1>3. ASSUME NEW p \in Declared
      PROVE  /\ p = <<p[1], p[2]>>
             /\ p[1] \in DOMAIN chain /\ p[1] \in Nat
             /\ p[2] \in 1..Len(chain[p[1]].declares) /\ p[2] \in Nat
             /\ p[2] >= 1
             /\ DeclareAt(p) \in Declare
  <2>1. PICK n \in DOMAIN chain : p \in {n} \X (1..Len(chain[n].declares))
    BY <1>2
  <2>2. /\ p = <<p[1], p[2]>>
        /\ p[1] = n /\ p[2] \in 1..Len(chain[n].declares)
    BY <2>1
  <2>3. DeclareAt(p) = chain[n].declares[p[2]]
    BY <2>2 DEF DeclareAt
  <2>4. chain[n].declares[p[2]] \in Declare
    BY <1>1, <2>2, ElementOfSeq
  <2> QED
    BY <1>1, <2>1, <2>2, <2>3, <2>4
<1>4. \A n \in DOMAIN chain : \A i \in 1..Len(chain[n].declares) :
         <<n, i>> \in Declared
  BY <1>2
<1> QED
  BY <1>3, <1>4

-----------------------------------------------------------------------------
(* Minimal counterexamples, and sums of stake. *)

\* A nonempty set of naturals has a least element.
LEMMA LeastExists ==
    ASSUME NEW S, S \subseteq Nat, S # {}
    PROVE  \E i \in S : \A j \in S : i <= j
<1> DEFINE R == OpToRel(<, Nat)
<1>1. IsWellFoundedOn(R, Nat)
  BY NatLessThanWellFounded
<1>2. R = {ss \in Nat \X Nat : ss[1] < ss[2]}
  BY DEF OpToRel
<1> HIDE DEF R
<1>3. PICK x \in S : \A y \in S : ~(<<y, x>> \in R)
  BY <1>1, WFMin
<1>4. \A y \in S : y < x => <<y, x>> \in R
  BY <1>2
<1>5. \A y \in S : ~(y < x)
  BY <1>3, <1>4, Zenon
<1> QED
  BY <1>5

\* A nonempty set of subsets of a finite set has a minimal member.
LEMMA MinimalSet ==
    ASSUME NEW S, IsFiniteSet(S), NEW B, B \subseteq SUBSET S, B # {}
    PROVE  \E T \in B : \A U \in B : U \subseteq T => U = T
<1> DEFINE R == StrictSubsetOrdering(S)
<1>1. IsWellFoundedOn(R, SUBSET S)
  BY FS_StrictSubsetOrderingWellFounded, FS_FiniteSubsetsOfFinite
<1>2. R = {ss \in (SUBSET S) \X (SUBSET S) :
              ss[1] \subseteq ss[2] /\ ss[1] # ss[2]}
  BY DEF StrictSubsetOrdering
<1> HIDE DEF R
<1>3. PICK T \in B : \A U \in B : ~(<<U, T>> \in R)
  BY <1>1, WFMin
<1>4. \A U \in B : U \subseteq T /\ U # T => <<U, T>> \in R
  BY <1>2
<1>5. \A U \in B : U \subseteq T => U = T
  BY <1>3, <1>4, Zenon
<1> QED
  BY <1>5, Zenon

\* g gives the sum of f over each subset of S, in whatever order it is added.
Additive(g, f, S) ==
    /\ g \in [SUBSET S -> Int]
    /\ g[{}] = 0
    /\ \A T \in SUBSET S : \A x \in T : g[T] = f[x] + g[T \ {x}]

\* Every function with integer values has its sums over a finite set.
LEMMA AdditiveExists ==
    ASSUME NEW S, IsFiniteSet(S), NEW f, \A x \in S : f[x] \in Int
    PROVE  \E g : Additive(g, f, S)
<1> DEFINE Bad == {T \in SUBSET S : ~\E g : Additive(g, f, T)}
<1> SUFFICES ASSUME Bad # {} PROVE FALSE
  OBVIOUS
<1>1. PICK T \in Bad : \A U \in Bad : U \subseteq T => U = T
  <2>1. Bad \subseteq SUBSET S
    OBVIOUS
  <2> HIDE DEF Bad
  <2> QED
    BY <2>1, MinimalSet
<1>2. T # {}
  <2> SUFFICES ASSUME T = {} PROVE FALSE
    OBVIOUS
  <2> DEFINE g == [U \in SUBSET T |-> 0]
  <2>1. Additive(g, f, T)
    BY DEF Additive
  <2> HIDE DEF g
  <2> QED
    BY <2>1
<1>3. PICK x \in T : TRUE
  BY <1>2
<1>4. PICK h : Additive(h, f, T \ {x})
  BY <1>1, <1>3
<1> DEFINE g == [U \in SUBSET T |-> IF x \in U THEN f[x] + h[U \ {x}] ELSE h[U]]
<1>5. f[x] \in Int /\ \A U \in SUBSET T : x \notin U => U \in SUBSET (T \ {x})
  BY <1>1
<1>6. \A U \in SUBSET T : U \ {x} \in SUBSET (T \ {x})
  OBVIOUS
<1>7. g \in [SUBSET T -> Int]
  BY <1>4, <1>5, <1>6 DEF Additive
<1>8. g[{}] = 0
  BY <1>4 DEF Additive
<1>9. ASSUME NEW U \in SUBSET T, NEW y \in U PROVE g[U] = f[y] + g[U \ {y}]
  <2>0. U \ {y} \in SUBSET T
    OBVIOUS
  <2>1. CASE y = x
    BY <2>0, <2>1, <1>6
  <2>2. CASE y # x /\ x \notin U
    <3>1. g[U] = h[U] /\ g[U \ {y}] = h[U \ {y}]
      BY <2>0, <2>2
    <3> QED
      BY <3>1, <2>2, <1>4, <1>5 DEF Additive
  <2>3. CASE y # x /\ x \in U
    <3>1. g[U] = f[x] + h[U \ {x}] /\ g[U \ {y}] = f[x] + h[(U \ {y}) \ {x}]
      BY <2>0, <2>3
    <3>2. y \in U \ {x} /\ (U \ {x}) \ {y} = (U \ {y}) \ {x}
      BY <2>3
    <3>3. h[U \ {x}] = f[y] + h[(U \ {y}) \ {x}]
      BY <3>2, <1>4, <1>6 DEF Additive
    <3>4. f[y] \in Int /\ h[(U \ {y}) \ {x}] \in Int
      BY <1>1, <1>4, <1>6, <2>0 DEF Additive
    <3> HIDE DEF g
    <3> QED
      BY <3>1, <3>3, <3>4, <1>5
  <2> QED
    BY <2>1, <2>2, <2>3
<1>10. Additive(g, f, T)
  <2> HIDE DEF g
  <2> QED
    BY <1>7, <1>8, <1>9 DEF Additive
<1> HIDE DEF g
<1> QED
  BY <1>1, <1>10

\* Stake adds up to an integer, in whatever order the fold takes it.
LEMMA StakeType ==
    ASSUME setup \in Setups, NEW A
    PROVE  StakeOf(A) \in Int
<1> DEFINE S == A \cap DOMAIN Tally
           Rec(h) == h = [s \in SUBSET S |->
                            IF s = {} THEN 0
                            ELSE Tally[CHOOSE x \in s : TRUE]
                                 + h[s \ {CHOOSE x \in s : TRUE}]]
           iter == CHOOSE h : Rec(h)
<1>1. StakeOf(A) = iter[S]
  BY DEF StakeOf, MapThenSumSet, MapThenFoldSet
<1>2. IsFiniteSet(S) /\ \A x \in S : Tally[x] \in Int
  BY SetupFacts, FS_Subset
<1> HIDE DEF S
<1>3. PICK g : Additive(g, Tally, S)
  BY <1>2, AdditiveExists
<1>4. Rec(g)
  <2>2. ASSUME NEW s \in SUBSET S
        PROVE  g[s] = IF s = {} THEN 0
                      ELSE Tally[CHOOSE x \in s : TRUE]
                           + g[s \ {CHOOSE x \in s : TRUE}]
    <3>1. CASE s = {}
      BY <1>3, <3>1 DEF Additive
    <3>2. CASE s # {}
      <4> DEFINE y == CHOOSE x \in s : TRUE
      <4>1. y \in s
        BY <3>2
      <4> HIDE DEF y
      <4>2. g[s] = Tally[y] + g[s \ {y}]
        BY <1>3, <4>1 DEF Additive
      <4> QED
        BY <3>2, <4>2 DEF y
    <3> QED
      BY <3>1, <3>2
  <2>3. g \in [SUBSET S -> Int]
    BY <1>3 DEF Additive
  <2> QED
    BY <2>2, <2>3
<1>5. Rec(iter)
  <2> HIDE DEF Rec
  <2> QED BY <1>4
<1> HIDE DEF iter
<1> DEFINE Bad == {T \in SUBSET S : iter[T] \notin Int}
<1>6. Bad = {}
  <2> SUFFICES ASSUME Bad # {} PROVE FALSE
    OBVIOUS
  <2>1. PICK T \in Bad : \A U \in Bad : U \subseteq T => U = T
    <3>1. Bad \subseteq SUBSET S
      OBVIOUS
    <3> HIDE DEF Bad
    <3> QED
      BY <1>2, <3>1, MinimalSet
  <2>2. T # {}
    <3>1. iter[{}] \in Int
      BY <1>5
    <3>2. iter[T] \notin Int
      BY <2>1
    <3> QED
      BY <3>1, <3>2, Zenon
  <2> DEFINE y == CHOOSE x \in T : TRUE
  <2>3. y \in T /\ y \in S
    BY <2>1, <2>2
  <2>4. iter[T] = Tally[y] + iter[T \ {y}]
    BY <1>5, <2>1, <2>2
  <2> HIDE DEF y
  <2>5. T \ {y} \in SUBSET S /\ T \ {y} \notin Bad
    BY <2>1, <2>3
  <2>6. iter[T \ {y}] \in Int /\ Tally[y] \in Int
    BY <1>2, <2>3, <2>5
  <2> QED
    BY <2>1, <2>4, <2>6
<1>7. iter[S] \in Int
  BY <1>6
<1> QED
  BY <1>1, <1>7

\* Rounding two thirds down asks for as much as not rounding at all.
LEMMA TwoThirds ==
    ASSUME NEW a \in Int, NEW b \in Int
    PROVE  a > (b * 2) \div 3 <=> 3 * a > 2 * b
  OBVIOUS

-----------------------------------------------------------------------------
(* Declares. *)

\* There is only one first declare.
LEMMA OneFirst ==
    ASSUME ChainOK, NEW p \in Declared, NEW q \in Declared, NEW a, NEW h,
           FirstBy(p, a, h), FirstBy(q, a, h)
    PROVE  p = q
<1>1. ~Before(p, q) /\ ~Before(q, p)
  BY DEF FirstBy
<1>2. /\ p = <<p[1], p[2]>> /\ p[1] \in Nat /\ p[2] \in Nat
      /\ q = <<q[1], q[2]>> /\ q[1] \in Nat /\ q[2] \in Nat
  BY DeclaredFacts
<1>3. p[1] = q[1] /\ p[2] = q[2]
  BY <1>1, <1>2 DEF Before
<1> QED
  BY <1>2, <1>3

\* When all declares that count are in, those who are recorded with a yes are
\* those who said yes.
LEMMA YesVotes ==
    ASSUME ChainOK, NEW D, NEW h, NEW m, NEW j, Polled(D, h, m, j),
           \A p \in Declared : \A a : Counts(p, a, h) => Upto(p, m, j)
    PROVE  {d.by : d \in {e \in D : e.decision = "yes"}}
               = {a \in Candidate : SaysYes(a, h)}
<1>1. ASSUME NEW e \in D, e.decision = "yes"
      PROVE  e.by \in Candidate /\ SaysYes(e.by, h)
  BY <1>1 DEF Polled, SaysYes
<1>2. ASSUME NEW a \in Candidate, SaysYes(a, h)
      PROVE  \E e \in D : e.decision = "yes" /\ e.by = a
  <2>1. PICK p \in Declared : FirstBy(p, a, h) /\ DeclareAt(p).decision = "yes"
    BY <1>2 DEF SaysYes
  <2>2. Counts(p, a, h)
    BY <2>1 DEF FirstBy
  <2>3. Upto(p, m, j)
    BY <2>2
  <2>4. PICK e \in D : e.by = a
    BY <2>2, <2>3 DEF Polled
  <2>5. PICK q \in Declared :
           FirstBy(q, e.by, h) /\ DeclareAt(q).decision = e.decision
    BY DEF Polled
  <2>6. p = q
    BY <2>1, <2>4, <2>5, OneFirst
  <2> QED
    BY <2>1, <2>4, <2>5, <2>6
<1> QED
  BY <1>1, <1>2

\* So the code's count passes a proposal exactly if the chain approves it.
LEMMA PassesIfApproved ==
    ASSUME setup \in Setups, NEW D, NEW h,
           {d.by : d \in {e \in D : e.decision = "yes"}}
               = {a \in Candidate : SaysYes(a, h)}
    PROVE  Passes(D) <=> Approved(h)
<1> DEFINE Y == {a \in Candidate : SaysYes(a, h)}
<1>1. Passes(D) <=> StakeOf(Y) > (StakeOf(DOMAIN Tally) * 2) \div 3
  BY DEF Passes
<1>2. Approved(h) <=> 3 * StakeOf(Y) > 2 * StakeOf(DOMAIN Tally)
  BY DEF Approved
<1>3. StakeOf(Y) \in Int /\ StakeOf(DOMAIN Tally) \in Int
  BY StakeType
<1> HIDE DEF Y
<1> QED
  BY <1>1, <1>2, <1>3, TwoThirds

-----------------------------------------------------------------------------
(* A header's proposals. *)

\* The proposals a block decides on are still held while it is applied.
Held(n) ==
    {h \in Proposed : ProposedAt(h) <= n /\ (DecidedAt(h) >= n \/ Approved(h))}

\* What updateSnapshotByProposals does to the fields.
ReceivedCell(s, props) ==
    [h \in DOMAIN s.cell \cup ToSet(props) |->
        IF h \in ToSet(props) THEN Last(props) ELSE s.cell[h]]

ReceivedData(s, props, n) ==
    [c \in DOMAIN s.data \cup {Last(props)} |->
        IF c = Last(props) THEN [of |-> Last(props), received |-> n, declares |-> {}]
        ELSE s.data[c]]

ReceivedFrom(R, s, props, n) ==
    /\ DOMAIN R = DOMAIN s /\ R.sc = s.sc /\ R.reward = s.reward
    /\ R.cell = ReceivedCell(s, props)
    /\ R.data = ReceivedData(s, props, n)

LEMMA ReceiveFields ==
    ASSUME NEW s, IsWork(s), NEW props, props # <<>>, NEW n
    PROVE  ReceivedFrom(UpdateByProposals(s, props, n), s, props, n)
<1> DEFINE C == ReceivedCell(s, props)
           D == ReceivedData(s, props, n)
<1>1. UpdateByProposals(s, props, n) = [s EXCEPT !.cell = C, !.data = D]
  BY DEF UpdateByProposals, ReceivedCell, ReceivedData
<1>2. DOMAIN s = {"cell", "data", "sc", "reward"}
  BY DEF IsWork
<1> HIDE DEF C, D
<1> QED
  BY <1>1, <1>2 DEF ReceivedFrom, C, D

\* The last proposal of a header is one of its proposals.
LEMMA LastProposal ==
    ASSUME ChainOK, NEW n \in DOMAIN chain
    PROVE  /\ PropsOf(n) \subseteq Hash
           /\ chain[n].proposals = <<>> => PropsOf(n) = {}
           /\ chain[n].proposals # <<>> => Last(chain[n].proposals) \in PropsOf(n)
<1> DEFINE q == chain[n].proposals
<1>1. q \in Seq(Hash)
  BY ChainFacts
<1> HIDE DEF q
<1>2. PropsOf(n) = {q[i] : i \in DOMAIN q}
  BY DEF PropsOf, ToSet, q
<1>3. Len(q) \in Nat /\ DOMAIN q = 1..Len(q) /\ (q # <<>> => Len(q) >= 1)
  BY <1>1, LenProperties, EmptySeq
<1>4. \A i \in DOMAIN q : q[i] \in Hash
  BY <1>1, <1>3, ElementOfSeq
<1>5. q # <<>> => Last(q) \in PropsOf(n)
  BY <1>2, <1>3 DEF Last
<1>6. q = <<>> => PropsOf(n) = {}
  BY <1>2
<1> QED
  BY <1>2, <1>4, <1>5, <1>6 DEF q

LEMMA WorkReceive ==
    ASSUME ChainOK, setup \in Setups, NEW n \in DOMAIN chain, NEW s, IsWork(s)
    PROVE  IsWork(UpdateByProposals(s, chain[n].proposals, n))
<1> DEFINE q == chain[n].proposals
           R == UpdateByProposals(s, q, n)
           z == Last(q)
           P == PropsOf(n)
<1>1. CASE q = <<>>
  BY <1>1 DEF UpdateByProposals
<1>2. CASE q # <<>>
  <2>1. P \subseteq Hash /\ z \in P /\ P = ToSet(q)
    BY <1>2, LastProposal DEF PropsOf
  <2>2. n \in 1..MaxNumber
    BY ChainFacts, SetupFacts
  <2>3. /\ DOMAIN R = DOMAIN s /\ R.sc = s.sc /\ R.reward = s.reward
        /\ R.cell = [h \in DOMAIN s.cell \cup P |-> IF h \in P THEN z ELSE s.cell[h]]
        /\ R.data = [c \in DOMAIN s.data \cup {z} |->
                        IF c = z THEN [of |-> z, received |-> n, declares |-> {}]
                        ELSE s.data[c]]
    <3>1. ReceivedFrom(R, s, q, n)
      BY <1>2, ReceiveFields
    <3> HIDE DEF R, P, q
    <3> QED
      BY <2>1, <3>1 DEF ReceivedFrom, ReceivedCell, ReceivedData, q
  <2> HIDE DEF R, z, P, q
  <2>4. [of |-> z, received |-> n, declares |-> {}] \in Entry
    BY <2>1, <2>2 DEF Entry
  <2>5. /\ DOMAIN s.data \subseteq Hash /\ s.data \in [DOMAIN s.data -> Entry]
        /\ DOMAIN s.cell \subseteq Hash /\ s.cell \in [DOMAIN s.cell -> DOMAIN s.data]
    BY DEF IsWork, Typed
  <2>6. DOMAIN R.data = DOMAIN s.data \cup {z} /\ DOMAIN R.cell = DOMAIN s.cell \cup P
    BY <2>3
  <2>7. R.data \in [DOMAIN R.data -> Entry]
    BY <2>3, <2>4, <2>5
  <2>8. R.cell \in [DOMAIN R.cell -> DOMAIN R.data]
    BY <2>3, <2>5, <2>6
  <2>9. Typed(R)
    BY <2>1, <2>3, <2>5, <2>6, <2>7, <2>8 DEF IsWork, Typed
  <2>10. IsWork(R)
    BY <2>3, <2>9 DEF IsWork
  <2> QED
    BY <2>10 DEF R, q
<1> QED
  BY <1>1, <1>2

\* After its proposals a header holds what the last one did and its own.
LEMMA RightReceive ==
    ASSUME ChainOK, setup \in Setups, NEW n \in DOMAIN chain, Separate(n),
           NEW s, IsWork(s), Right(s, OpenOrPassed(n - 1), n - 1, n, 0)
    PROVE  Right(UpdateByProposals(s, chain[n].proposals, n), Held(n), n - 1, n, 0)
<1> DEFINE q == chain[n].proposals
           R == UpdateByProposals(s, q, n)
           z == Last(q)
           P == PropsOf(n)
           O == OpenOrPassed(n - 1)
<1>1. n \in Nat /\ \A h \in Proposed : ProposedAt(h) \in Nat /\ DecidedAt(h) \in Nat
                                       /\ ProposedAt(h) < DecidedAt(h)
  BY ChainFacts, DecidedFacts
<1>2. \A h \in P : h \in Proposed /\ ProposedAt(h) = n
  BY ChainFacts
<1>3. \A h \in Proposed : ProposedAt(h) = n => h \in P
  BY ChainFacts
<1>4. O \cup P = Held(n)
  <2>1. \A h \in O : h \in Held(n)
    BY <1>1 DEF OpenOrPassed, Held
  <2>2. \A h \in P : h \in Held(n)
    BY <1>1, <1>2 DEF Held
  <2>3. \A h \in Held(n) : h \in O \/ h \in P
    BY <1>1, <1>3 DEF OpenOrPassed, Held
  <2> HIDE DEF O, P
  <2> QED
    BY <2>1, <2>2, <2>3
<1>5. \A h \in O : h \notin P
  BY <1>1, <1>2 DEF OpenOrPassed
<1>6. CASE q = <<>>
  <2>1. P = {} /\ R = s
    BY <1>6, LastProposal DEF UpdateByProposals
  <2>2. O = Held(n)
    BY <1>4, <2>1
  <2> QED
    BY <2>1, <2>2
<1>7. CASE q # <<>>
  <2>1. z \in P /\ P = ToSet(q)
    BY <1>7, LastProposal DEF PropsOf
  <2>2. P = {z}
    <3>1. ASSUME NEW h \in P, h # z PROVE FALSE
      <4>1. /\ h \in Proposed /\ ProposedAt(h) = n
            /\ z \in Proposed /\ ProposedAt(z) = n
        BY <1>2, <2>1
      <4> HIDE DEF z, P
      <4> QED
        BY <1>1, <3>1, <4>1 DEF Separate
    <3> QED
      BY <2>1, <3>1
  <2>3. /\ R.sc = s.sc
        /\ R.cell = [h \in DOMAIN s.cell \cup P |-> IF h \in P THEN z ELSE s.cell[h]]
        /\ R.data = [c \in DOMAIN s.data \cup {z} |->
                        IF c = z THEN [of |-> z, received |-> n, declares |-> {}]
                        ELSE s.data[c]]
    <3>1. ReceivedFrom(R, s, q, n)
      BY <1>7, ReceiveFields
    <3> HIDE DEF R, P, q
    <3> QED
      BY <2>1, <3>1 DEF ReceivedFrom, ReceivedCell, ReceivedData, q
  <2>4. /\ DOMAIN s.cell = O /\ s.sc = SideChainsOf(n - 1)
        /\ \A h \in O : /\ s.cell[h] = h
                        /\ s.data[h].of = h
                        /\ s.data[h].received = ProposedAt(h)
                        /\ Polled(s.data[h].declares, h, n, 0)
    BY DEF Right
  <2>5. \A h \in O : s.cell[h] \in DOMAIN s.data
    <3>1. s.cell \in [DOMAIN s.cell -> DOMAIN s.data] /\ DOMAIN s.cell = O
      BY <2>4 DEF IsWork, Typed
    <3> HIDE DEF O
    <3> QED
      BY <3>1
  <2>6. Polled({}, z, n, 0)
    <3>1. ASSUME NEW p \in Declared, NEW a \in Candidate,
                 Counts(p, a, z), Upto(p, n, 0)
          PROVE  FALSE
      <4>1. ProposedAt(z) <= p[1] /\ ProposedAt(z) = n
        BY <1>2, <2>1, <3>1 DEF Counts
      <4>2. p[1] \in Nat /\ p[2] \in Nat /\ p[2] >= 1
        BY DeclaredFacts
      <4> HIDE DEF z
      <4> QED
        BY <1>1, <3>1, <4>1, <4>2 DEF Upto
    <3> HIDE DEF z
    <3> QED
      BY <3>1 DEF Polled
  <2>7. ProposedAt(z) = n
    BY <1>2, <2>1
  <2> HIDE DEF R, z, P, O, q
  <2>8. DOMAIN R.cell = Held(n)
    BY <1>4, <2>3, <2>4
  <2>9. ASSUME NEW h \in Held(n)
        PROVE  /\ R.cell[h] = h
               /\ R.data[h].of = h
               /\ R.data[h].received = ProposedAt(h)
               /\ Polled(R.data[h].declares, h, n, 0)
    <3>1. CASE h = z
      <4>1. R.cell[h] = h /\ R.data[h] = [of |-> z, received |-> n, declares |-> {}]
        BY <1>4, <2>2, <2>3, <2>4, <3>1
      <4> QED
        BY <2>6, <2>7, <3>1, <4>1
    <3>2. CASE h # z
      <4>1. h \in O
        BY <1>4, <2>2, <3>2
      <4>2. R.cell[h] = h
        BY <2>2, <2>3, <2>4, <3>2, <4>1
      <4>3. h \in DOMAIN s.data
        BY <2>4, <2>5, <4>1
      <4>4. R.data[h] = s.data[h]
        BY <2>3, <3>2, <4>3
      <4> QED
        BY <2>4, <4>1, <4>2, <4>4
    <3> QED
      BY <3>1, <3>2
  <2>10. Right(R, Held(n), n - 1, n, 0)
    BY <2>3, <2>4, <2>8, <2>9 DEF Right
  <2> QED
    BY <2>10 DEF R, q
<1> QED
  BY <1>6, <1>7

-----------------------------------------------------------------------------
(* A header's declares. *)

\* An accepted declare changes what the cell of its proposal holds.
DeclaredFrom(R, s, d) ==
    /\ DOMAIN R = DOMAIN s
    /\ R.cell = s.cell /\ R.sc = s.sc /\ R.reward = s.reward
    /\ R.data = [c \in DOMAIN s.data |->
                    IF c = s.cell[d.hash] THEN WithDeclare(At(s, d.hash), d)
                    ELSE s.data[c]]

LEMMA DeclareFields ==
    ASSUME NEW s, IsWork(s), NEW d, NEW n
    PROVE  /\ Accepts(s, d, n) => DeclaredFrom(AddDeclare(s, d, n), s, d)
           /\ ~Accepts(s, d, n) => AddDeclare(s, d, n) = s
<1>1. CASE Accepts(s, d, n)
  <2> DEFINE D == [s.data EXCEPT ![s.cell[d.hash]] = WithDeclare(At(s, d.hash), d)]
             R == AddDeclare(s, d, n)
  <2>1. R = [s EXCEPT !.data = D]
    BY <1>1 DEF AddDeclare
  <2>2. DOMAIN s = {"cell", "data", "sc", "reward"}
    BY DEF IsWork
  <2>3. D = [c \in DOMAIN s.data |->
                IF c = s.cell[d.hash] THEN WithDeclare(At(s, d.hash), d)
                ELSE s.data[c]]
    OBVIOUS
  <2> HIDE DEF D, R
  <2>4. DOMAIN R = DOMAIN s /\ R.cell = s.cell /\ R.sc = s.sc
        /\ R.reward = s.reward /\ R.data = D
    BY <2>1, <2>2
  <2>5. DeclaredFrom(R, s, d)
    BY <2>3, <2>4 DEF DeclaredFrom
  <2> QED
    BY <1>1, <2>5 DEF R
<1>2. CASE ~Accepts(s, d, n)
  BY <1>2 DEF AddDeclare
<1> QED
  BY <1>1, <1>2

\* What an entry becomes.
LEMMA WithDeclareFields ==
    ASSUME NEW x \in Entry, NEW d \in Declare
    PROVE  /\ WithDeclare(x, d) \in Entry
           /\ WithDeclare(x, d).of = x.of
           /\ WithDeclare(x, d).received = x.received
           /\ WithDeclare(x, d).declares
                  = x.declares \cup {[by |-> d.by, decision |-> d.decision]}
<1>1. d.by \in Declarer /\ d.decision \in {"yes", "no"}
  BY DEF Declare
<1>2. [by |-> d.by, decision |-> d.decision]
          \in [by : Declarer, decision : {"yes", "no"}]
  BY <1>1
<1> QED
  BY <1>2 DEF WithDeclare, Entry

LEMMA WorkDeclare ==
    ASSUME NEW s, IsWork(s), NEW d \in Declare, NEW n
    PROVE  /\ IsWork(AddDeclare(s, d, n))
           /\ AddDeclare(s, d, n).reward = s.reward
<1> DEFINE R == AddDeclare(s, d, n)
<1>1. CASE ~Accepts(s, d, n)
  BY <1>1 DEF AddDeclare
<1>2. CASE Accepts(s, d, n)
  <2>1. DeclaredFrom(R, s, d)
    BY <1>2, DeclareFields
  <2>2. /\ DOMAIN s.data \subseteq Hash /\ s.data \in [DOMAIN s.data -> Entry]
        /\ DOMAIN s.cell \subseteq Hash /\ s.cell \in [DOMAIN s.cell -> DOMAIN s.data]
    BY DEF IsWork, Typed
  <2>3. d.hash \in DOMAIN s.cell
    BY <1>2 DEF Accepts
  <2>4. At(s, d.hash) \in Entry
    BY <2>2, <2>3 DEF At
  <2>5. WithDeclare(At(s, d.hash), d) \in Entry
    BY <2>4, WithDeclareFields
  <2> HIDE DEF R
  <2>6. R.data \in [DOMAIN R.data -> Entry] /\ DOMAIN R.data = DOMAIN s.data
    BY <2>1, <2>2, <2>5 DEF DeclaredFrom
  <2>7. IsWork(R) /\ R.reward = s.reward
    BY <2>1, <2>2, <2>6 DEF DeclaredFrom, IsWork, Typed
  <2> QED
    BY <2>7 DEF R
<1> QED
  BY <1>1, <1>2

\* One more declare of the header: its sender's first one on an open proposal
\* is recorded, any other one is not.
LEMMA RightDeclare ==
    ASSUME ChainOK, setup \in Setups, NEW n \in DOMAIN chain,
           NEW i \in 1..Len(chain[n].declares),
           NEW s, IsWork(s), Right(s, Held(n), n - 1, n, i - 1)
    PROVE  Right(AddDeclare(s, chain[n].declares[i], n), Held(n), n - 1, n, i)
<1> DEFINE d == chain[n].declares[i]
           R == AddDeclare(s, d, n)
           p == <<n, i>>
           S == Held(n)
<1>1. /\ n \in Nat /\ i \in Nat /\ i >= 1
      /\ p \in Declared /\ p[1] = n /\ p[2] = i
      /\ d \in Declare
  <2>1. /\ Len(chain) \in Nat /\ DOMAIN chain = 1..Len(chain)
        /\ Len(chain[n].declares) \in Nat
        /\ chain[n].declares \in Seq(Declare)
    BY ChainFacts
  <2>2. chain[n].declares[i] \in Declare
    BY <2>1, ElementOfSeq
  <2>3. p \in Declared
    BY DeclaredFacts
  <2> QED
    BY <2>1, <2>2, <2>3
<1>2. DeclareAt(p) = d
  BY DEF DeclareAt
<1>3. \A q \in Declared : Upto(q, n, i) => Upto(q, n, i - 1) \/ q = p
  <2> TAKE q \in Declared
  <2>1. q = <<q[1], q[2]>> /\ q[1] \in Nat /\ q[2] \in Nat
    BY DeclaredFacts
  <2>2. CASE q[1] = n /\ q[2] = i
    BY <2>1, <2>2
  <2>3. CASE ~(q[1] = n /\ q[2] = i)
    BY <1>1, <2>1, <2>3 DEF Upto
  <2> QED
    BY <2>2, <2>3
<1>4. \A q \in Declared : Upto(q, n, i - 1) => Upto(q, n, i)
  BY <1>1, DeclaredFacts DEF Upto
<1>5. \A q \in Declared : Before(q, p) => Upto(q, n, i - 1)
  BY <1>1, DeclaredFacts DEF Before, Upto
<1>6. Upto(p, n, i)
  BY <1>1 DEF Upto
<1>7. /\ DOMAIN s.cell = S /\ s.sc = SideChainsOf(n - 1)
      /\ \A h \in S : /\ s.cell[h] = h
                      /\ s.data[h].of = h
                      /\ s.data[h].received = ProposedAt(h)
                      /\ Polled(s.data[h].declares, h, n, i - 1)
  BY DEF Right
<1>8. \A h \in S : h \in DOMAIN s.data /\ s.data[h] \in Entry
  <2>1. s.cell \in [S -> DOMAIN s.data] /\ s.data \in [DOMAIN s.data -> Entry]
    BY <1>7 DEF IsWork, Typed
  <2>2. \A h \in S : s.cell[h] = h
    BY <1>7
  <2> HIDE DEF S
  <2> QED
    BY <2>1, <2>2
<1>9. \A h \in S : /\ h \in Proposed /\ ProposedAt(h) <= n
                   /\ DecidedAt(h) = ProposedAt(h) + Validity[h] + 1
                   /\ ProposedAt(h) \in Nat /\ Validity[h] \in Nat
  BY DecidedFacts DEF Held
<1>10. \A h \in S : At(s, h) = s.data[h]
  BY <1>7 DEF At
<1> HIDE DEF p, d, S
<1>11. CASE Accepts(s, d, n)
  <2> DEFINE g == d.hash
  <2>1. /\ g \in S /\ d.by \in Candidate
        /\ s.data[g].received + Validity[s.data[g].of] >= n
        /\ \A e \in s.data[g].declares : e.by # d.by
    BY <1>7, <1>10, <1>11 DEF Accepts
  <2>2. s.cell[g] = g /\ s.data[g] \in Entry /\ At(s, g) = s.data[g]
    BY <1>7, <1>8, <1>10, <2>1
  <2>3. Counts(p, d.by, g)
    <3>1. ProposedAt(g) + Validity[g] >= n
      BY <1>7, <2>1
    <3> QED
      BY <1>1, <1>2, <1>9, <2>1, <3>1 DEF Counts
  <2>4. Polled(s.data[g].declares, g, n, i - 1)
    BY <1>7, <2>1
  <2>5. FirstBy(p, d.by, g)
    <3>1. ASSUME NEW q \in Declared, Counts(q, d.by, g), Before(q, p) PROVE FALSE
      <4>1. Upto(q, n, i - 1)
        BY <1>5, <3>1
      <4>2. \E e \in s.data[g].declares : e.by = d.by
        BY <2>1, <2>4, <3>1, <4>1 DEF Polled
      <4> QED
        BY <2>1, <4>2
    <3> QED
      BY <2>3, <3>1 DEF FirstBy
  <2> DEFINE new == [by |-> d.by, decision |-> d.decision]
             E == s.data[g].declares \cup {new}
  <2>6. Polled(E, g, n, i)
    <3>1. ASSUME NEW e \in E
          PROVE  /\ e.by \in Candidate
                 /\ \E q \in Declared : /\ FirstBy(q, e.by, g) /\ Upto(q, n, i)
                                        /\ DeclareAt(q).decision = e.decision
      <4>1. CASE e = new
        <5>1. e.by = d.by /\ e.decision = d.decision
          BY <4>1
        <5> QED
          BY <1>1, <1>2, <1>6, <2>1, <2>5, <5>1
      <4>2. CASE e \in s.data[g].declares
        BY <1>4, <2>4, <4>2 DEF Polled
      <4> QED
        BY <4>1, <4>2
    <3>2. ASSUME NEW q \in Declared, NEW a \in Candidate,
                 Counts(q, a, g), Upto(q, n, i)
          PROVE  \E e \in E : e.by = a
      <4>1. CASE Upto(q, n, i - 1)
        BY <2>4, <3>2, <4>1 DEF Polled
      <4>2. CASE q = p
        <5>1. a = d.by
          BY <1>2, <3>2, <4>2 DEF Counts
        <5>2. new.by = a /\ new \in E
          BY <5>1
        <5> HIDE DEF new, E
        <5> QED
          BY <5>2
      <4> QED
        BY <1>3, <3>2, <4>1, <4>2
    <3> HIDE DEF E
    <3> QED
      BY <3>1, <3>2 DEF Polled
  <2>7. ASSUME NEW h \in S, h # g PROVE Polled(s.data[h].declares, h, n, i)
    <3>1. Polled(s.data[h].declares, h, n, i - 1)
      BY <1>7
    <3>2. \A a : ~Counts(p, a, h)
      BY <1>2, <2>7 DEF Counts
    <3> QED
      BY <1>3, <1>4, <3>1, <3>2 DEF Polled
  <2>8. DeclaredFrom(R, s, d)
    BY <1>11, DeclareFields
  <2>9. /\ WithDeclare(s.data[g], d).of = g
        /\ WithDeclare(s.data[g], d).received = ProposedAt(g)
        /\ WithDeclare(s.data[g], d).declares = E
    BY <1>1, <1>7, <2>1, <2>2, WithDeclareFields
  <2> HIDE DEF R, E
  <2>10. \A h \in S : R.data[h] = IF h = g THEN WithDeclare(s.data[g], d)
                                  ELSE s.data[h]
    BY <1>8, <2>2, <2>8 DEF DeclaredFrom
  <2>11. DOMAIN R.cell = S /\ R.sc = SideChainsOf(n - 1)
    BY <1>7, <2>8 DEF DeclaredFrom
  <2>12. ASSUME NEW h \in S
         PROVE  /\ R.cell[h] = h
                /\ R.data[h].of = h
                /\ R.data[h].received = ProposedAt(h)
                /\ Polled(R.data[h].declares, h, n, i)
    <3>1. R.cell[h] = h
      BY <1>7, <2>8 DEF DeclaredFrom
    <3>2. CASE h = g
      BY <2>6, <2>9, <2>10, <3>1, <3>2
    <3>3. CASE h # g
      <4>1. R.data[h] = s.data[h]
        BY <2>10, <3>3
      <4> QED
        BY <1>7, <2>7, <3>1, <3>3, <4>1
    <3> QED
      BY <3>2, <3>3
  <2>13. Right(R, S, n - 1, n, i)
    BY <2>11, <2>12 DEF Right
  <2> QED
    BY <2>13 DEF R, S, d
<1>12. CASE ~Accepts(s, d, n)
  <2>1. ASSUME NEW h \in S PROVE Polled(s.data[h].declares, h, n, i)
    <3>1. Polled(s.data[h].declares, h, n, i - 1)
      BY <1>7
    <3>2. ASSUME NEW a \in Candidate, Counts(p, a, h)
          PROVE  \E e \in s.data[h].declares : e.by = a
      <4>1. h = d.hash /\ a = d.by /\ n < DecidedAt(h)
        BY <1>1, <1>2, <3>2 DEF Counts
      <4>2. /\ d.hash \in DOMAIN s.cell
            /\ At(s, d.hash).received + Validity[At(s, d.hash).of] >= n
        <5>1. At(s, h).received = ProposedAt(h) /\ At(s, h).of = h
          BY <1>7, <1>10
        <5>2. ProposedAt(h) + Validity[h] >= n
          BY <1>1, <1>9, <4>1
        <5> QED
          BY <1>7, <4>1, <5>1, <5>2
      <4>3. ~(\A e \in At(s, d.hash).declares : e.by # d.by)
        BY <1>12, <4>1, <4>2 DEF Accepts
      <4> QED
        BY <1>10, <4>1, <4>3
    <3> QED
      BY <1>3, <1>4, <3>1, <3>2 DEF Polled
  <2>2. R = s
    BY <1>12 DEF AddDeclare
  <2> HIDE DEF R
  <2>3. Right(R, S, n - 1, n, i)
    BY <1>7, <2>1, <2>2 DEF Right
  <2> QED
    BY <2>3 DEF R, S, d
<1> QED
  BY <1>11, <1>12

-----------------------------------------------------------------------------
(* What the chain has decided, block by block. *)

\* The share depends on the block through what has passed alone.
LEMMA ShareOfPassed ==
    ASSUME NEW m, NEW n, Passed(n, "reward") = Passed(m, "reward")
    PROVE  RewardOfChain(n) = RewardOfChain(m)
<1> DEFINE Share(P) ==
              IF P = {} THEN DefaultReward
              ELSE ValueOf[CHOOSE h \in P : \A g \in P : DecidedAt(g) <= DecidedAt(h)]
<1>1. /\ RewardOfChain(n) = Share(Passed(n, "reward"))
      /\ RewardOfChain(m) = Share(Passed(m, "reward"))
  BY DEF RewardOfChain
<1> HIDE DEF Share
<1> QED
  BY <1>1

\* Only what is decided at block n is new; when nothing is, nothing changes.
LEMMA NothingDecided ==
    ASSUME ChainOK, setup \in Setups, NEW n \in Nat,
           \A h \in Proposed : DecidedAt(h) # n
    PROVE  /\ SideChainsOf(n) = SideChainsOf(n - 1)
           /\ RewardOfChain(n) = RewardOfChain(n - 1)
<1>1. ASSUME NEW k PROVE Passed(n, k) = Passed(n - 1, k)
  <2>1. \A h \in Proposed : DecidedAt(h) <= n <=> DecidedAt(h) <= n - 1
    BY DecidedFacts
  <2> QED
    BY <2>1 DEF Passed
<1>2. Passed(n, "scAdd") = Passed(n - 1, "scAdd")
      /\ Passed(n, "scRemove") = Passed(n - 1, "scRemove")
      /\ Passed(n, "reward") = Passed(n - 1, "reward")
  BY <1>1
<1>3. SideChainsOf(n) = SideChainsOf(n - 1)
  BY <1>2, Zenon DEF SideChainsOf
<1> QED
  BY <1>2, <1>3, ShareOfPassed

\* One proposal is decided: it passes, or nothing changes.
LEMMA OneDecided ==
    ASSUME ChainOK, setup \in Setups, NEW n \in Nat, Separate(n),
           NEW z \in Proposed, DecidedAt(z) = n, NEW k
    PROVE  /\ Passed(n, k) = Passed(n - 1, k)
                 \cup (IF KindOf[z] = k /\ Approved(z) THEN {z} ELSE {})
           /\ \A g \in Passed(n - 1, k) : g \in Proposed /\ DecidedAt(g) < n
           /\ \A g \in Passed(n, k) : DecidedAt(g) <= n
<1>1. \A h \in Proposed :
         /\ ProposedAt(h) \in Nat /\ DecidedAt(h) \in Nat
         /\ ProposedAt(h) < DecidedAt(h)
  BY DecidedFacts
<1>2. \A h \in Proposed : DecidedAt(h) = n => h = z
  <2> SUFFICES ASSUME NEW h \in Proposed, DecidedAt(h) = n, h # z PROVE FALSE
    OBVIOUS
  <2>1. ProposedAt(h) <= n /\ ProposedAt(z) <= n
    BY <1>1
  <2> QED
    BY <2>1 DEF Separate
<1>3. \A h \in Proposed : DecidedAt(h) <= n <=> DecidedAt(h) <= n - 1 \/ h = z
  BY <1>1, <1>2
<1>4. ASSUME NEW h
      PROVE  h \in Passed(n, k) <=>
                h \in Passed(n - 1, k) \/ (h = z /\ KindOf[z] = k /\ Approved(z))
  BY <1>3 DEF Passed
<1>5. \A g \in Passed(n - 1, k) : g \in Proposed /\ DecidedAt(g) < n
  BY <1>1 DEF Passed
<1>6. \A g \in Passed(n, k) : DecidedAt(g) <= n
  BY DEF Passed
<1> QED
  BY <1>4, <1>5, <1>6

\* Nothing of another kind changes the side chains.
LEMMA SideChainsKept ==
    ASSUME ChainOK, setup \in Setups, NEW n \in Nat, Separate(n),
           NEW z \in Proposed, DecidedAt(z) = n,
           ~Approved(z) \/ KindOf[z] \notin {"scAdd", "scRemove"}
    PROVE  SideChainsOf(n) = SideChainsOf(n - 1)
<1>1. Passed(n, "scAdd") = Passed(n - 1, "scAdd")
  <2>1. ~(KindOf[z] = "scAdd" /\ Approved(z))
    OBVIOUS
  <2> QED
    BY <2>1, OneDecided
<1>2. Passed(n, "scRemove") = Passed(n - 1, "scRemove")
  <2>1. ~(KindOf[z] = "scRemove" /\ Approved(z))
    OBVIOUS
  <2> QED
    BY <2>1, OneDecided
<1> QED
  BY <1>1, <1>2, Zenon DEF SideChainsOf

LEMMA SideChainAdded ==
    ASSUME ChainOK, setup \in Setups, NEW n \in Nat, Separate(n),
           NEW z \in Proposed, DecidedAt(z) = n,
           Approved(z), KindOf[z] = "scAdd"
    PROVE  SideChainsOf(n) = SideChainsOf(n - 1) \cup {ValueOf[z]}
<1> DEFINE A == Passed(n - 1, "scAdd")
           B == Passed(n - 1, "scRemove")
           Gone(g) == \E r \in B : ValueOf[r] = ValueOf[g] /\ DecidedAt(r) > DecidedAt(g)
<1>1. Passed(n, "scAdd") = A \cup {z}
  BY OneDecided
<1>2. Passed(n, "scRemove") = B
  <2>1. ~(KindOf[z] = "scRemove" /\ Approved(z))
    OBVIOUS
  <2> QED
    BY <2>1, OneDecided
<1>3. \A r \in B : r \in Proposed /\ DecidedAt(r) < n
  BY OneDecided
<1>4. ~Gone(z)
  <2>1. \A r \in B : ~(DecidedAt(r) > DecidedAt(z))
    BY <1>3, DecidedFacts
  <2> QED
    BY <2>1
<1>5. SideChainsOf(n) = {ValueOf[h] : h \in {g \in A \cup {z} : ~Gone(g)}}
  BY <1>1, <1>2 DEF SideChainsOf
<1>6. SideChainsOf(n - 1) = {ValueOf[h] : h \in {g \in A : ~Gone(g)}}
  BY DEF SideChainsOf
<1> HIDE DEF A, Gone
<1> QED
  BY <1>4, <1>5, <1>6

LEMMA SideChainRemoved ==
    ASSUME ChainOK, setup \in Setups, NEW n \in Nat, Separate(n),
           NEW z \in Proposed, DecidedAt(z) = n,
           Approved(z), KindOf[z] = "scRemove"
    PROVE  SideChainsOf(n) = SideChainsOf(n - 1) \ {ValueOf[z]}
<1> DEFINE A == Passed(n - 1, "scAdd")
           B == Passed(n - 1, "scRemove")
           Gone(g) == \E r \in B : ValueOf[r] = ValueOf[g] /\ DecidedAt(r) > DecidedAt(g)
           GoneNow(g) == \E r \in B \cup {z} :
                            ValueOf[r] = ValueOf[g] /\ DecidedAt(r) > DecidedAt(g)
<1>1. Passed(n, "scAdd") = A
  <2>1. ~(KindOf[z] = "scAdd" /\ Approved(z))
    OBVIOUS
  <2> QED
    BY <2>1, OneDecided
<1>2. Passed(n, "scRemove") = B \cup {z}
  BY OneDecided
<1>3. \A g \in A : g \in Proposed /\ DecidedAt(g) < n
  BY OneDecided
<1>4. \A g \in A : GoneNow(g) <=> Gone(g) \/ ValueOf[g] = ValueOf[z]
  <2>1. \A g \in A : DecidedAt(z) > DecidedAt(g)
    BY <1>3, DecidedFacts
  <2> HIDE DEF A, B
  <2> QED
    BY <2>1
<1>5. SideChainsOf(n) = {ValueOf[h] : h \in {g \in A : ~GoneNow(g)}}
  BY <1>1, <1>2 DEF SideChainsOf
<1>6. SideChainsOf(n - 1) = {ValueOf[h] : h \in {g \in A : ~Gone(g)}}
  BY DEF SideChainsOf
<1> HIDE DEF A, Gone, GoneNow
<1> QED
  BY <1>4, <1>5, <1>6

\* The share changes with an approved proposal about it, and only then.
LEMMA ShareDecided ==
    ASSUME ChainOK, setup \in Setups, NEW n \in Nat, Separate(n),
           NEW z \in Proposed, DecidedAt(z) = n
    PROVE  RewardOfChain(n) = IF KindOf[z] = "reward" /\ Approved(z)
                              THEN ValueOf[z] ELSE RewardOfChain(n - 1)
<1> DEFINE A == Passed(n - 1, "reward")
           P == Passed(n, "reward")
<1>1. CASE KindOf[z] = "reward" /\ Approved(z)
  <2>1. P = A \cup {z} /\ \A g \in A : g \in Proposed /\ DecidedAt(g) < n
    BY <1>1, OneDecided
  <2> DEFINE y == CHOOSE h \in P : \A g \in P : DecidedAt(g) <= DecidedAt(h)
  <2>2. z \in P /\ \A g \in P : DecidedAt(g) <= DecidedAt(z)
    <3>1. DecidedAt(z) \in Nat
      BY DecidedFacts
    <3>2. \A g \in A : DecidedAt(g) \in Nat
      BY <2>1, DecidedFacts
    <3> HIDE DEF A, P
    <3> QED
      BY <2>1, <3>1, <3>2
  <2>3. y \in P /\ DecidedAt(z) <= DecidedAt(y)
    <3> HIDE DEF P
    <3>1. \E h \in P : \A g \in P : DecidedAt(g) <= DecidedAt(h)
      BY <2>2
    <3>2. y \in P /\ \A g \in P : DecidedAt(g) <= DecidedAt(y)
      BY <3>1
    <3> QED
      BY <2>2, <3>2
  <2> HIDE DEF y
  <2>4. y = z
    <3>1. \A g \in A : DecidedAt(g) \in Nat /\ DecidedAt(g) < n
      BY <2>1, DecidedFacts
    <3> HIDE DEF A, P
    <3> QED
      BY <2>1, <2>3, <3>1
  <2>5. P # {}
    BY <2>2
  <2>6. RewardOfChain(n) = ValueOf[y]
    BY <2>5 DEF RewardOfChain, y
  <2> QED
    BY <1>1, <2>4, <2>6
<1>2. CASE ~(KindOf[z] = "reward" /\ Approved(z))
  <2>1. P = A
    BY <1>2, OneDecided
  <2>2. RewardOfChain(n) = RewardOfChain(n - 1)
    BY <2>1, ShareOfPassed
  <2> QED
    BY <1>2, <2>2
<1> QED
  BY <1>1, <1>2

-----------------------------------------------------------------------------
(* A header's decisions. *)

\* What a passed proposal p changes.
EffectOn(R, s, p) ==
    /\ DOMAIN R = DOMAIN s /\ R.cell = s.cell /\ R.data = s.data
    /\ KindOf[p] = "scAdd" => R.sc = s.sc \cup {ValueOf[p]}
    /\ KindOf[p] = "scRemove" => R.sc = s.sc \ {ValueOf[p]}
    /\ KindOf[p] \notin {"scAdd", "scRemove"} => R.sc = s.sc
    /\ R.reward = IF KindOf[p] = "reward" THEN ValueOf[p] ELSE s.reward

LEMMA EffectFields ==
    ASSUME setup \in Setups, NEW s, IsWork(s), NEW p \in Hash
    PROVE  EffectOn(Effect(s, p), s, p)
<1>1. DOMAIN s = {"cell", "data", "sc", "reward"}
  BY DEF IsWork
<1>2. KindOf[p] \in {"reward", "scAdd", "scRemove", "candidate"}
  BY SetupFacts
<1> DEFINE R == Effect(s, p)
<1>3. CASE KindOf[p] = "reward"
  <2>1. R = [s EXCEPT !.reward = ValueOf[p]]
    BY <1>3 DEF Effect
  <2> HIDE DEF R
  <2>2. EffectOn(R, s, p)
    BY <1>1, <1>3, <2>1 DEF EffectOn
  <2> QED
    BY <2>2 DEF R
<1>4. CASE KindOf[p] = "scAdd"
  <2>1. R = [s EXCEPT !.sc = s.sc \cup {ValueOf[p]}]
    BY <1>4 DEF Effect
  <2> HIDE DEF R
  <2>2. EffectOn(R, s, p)
    BY <1>1, <1>4, <2>1 DEF EffectOn
  <2> QED
    BY <2>2 DEF R
<1>5. CASE KindOf[p] = "scRemove"
  <2>1. R = [s EXCEPT !.sc = s.sc \ {ValueOf[p]}]
    BY <1>5 DEF Effect
  <2> HIDE DEF R
  <2>2. EffectOn(R, s, p)
    BY <1>1, <1>5, <2>1 DEF EffectOn
  <2> QED
    BY <2>2 DEF R
<1>6. CASE KindOf[p] = "candidate"
  <2>1. R = s
    BY <1>6 DEF Effect
  <2> HIDE DEF R
  <2>2. EffectOn(R, s, p)
    BY <1>1, <1>6, <2>1 DEF EffectOn
  <2> QED
    BY <2>2 DEF R
<1> QED
  BY <1>2, <1>3, <1>4, <1>5, <1>6

\* A proposal that fails leaves the map.
DroppedFrom(R, s, h) ==
    /\ DOMAIN R = DOMAIN s /\ R.data = s.data
    /\ R.sc = s.sc /\ R.reward = s.reward
    /\ R.cell = [g \in DOMAIN s.cell \ {h} |-> s.cell[g]]

LEMMA DropFields ==
    ASSUME NEW s, IsWork(s), NEW h
    PROVE  DroppedFrom([s EXCEPT !.cell = Restrict(s.cell, DOMAIN s.cell \ {h})], s, h)
<1> DEFINE C == [g \in DOMAIN s.cell \ {h} |-> s.cell[g]]
           R == [s EXCEPT !.cell = C]
<1>1. DOMAIN s = {"cell", "data", "sc", "reward"}
  BY DEF IsWork
<1>2. Restrict(s.cell, DOMAIN s.cell \ {h}) = C
  BY DEF Restrict
<1> HIDE DEF C
<1>3. DOMAIN R = DOMAIN s /\ R.data = s.data
      /\ R.sc = s.sc /\ R.reward = s.reward /\ R.cell = C
  BY <1>1
<1> HIDE DEF R
<1>4. DroppedFrom(R, s, h)
  BY <1>3 DEF DroppedFrom, C
<1> QED
  BY <1>2, <1>4 DEF R

\* The proposal under key h is decided at block n.
Due(s, h, n) ==
    h \in DOMAIN s.cell /\ At(s, h).received + Validity[At(s, h).of] + 1 = n

LEMMA DecideFields ==
    ASSUME setup \in Setups, NEW s, IsWork(s), NEW h, NEW n
    PROVE  /\ ~Due(s, h, n) => Decide(s, h, n) = s
           /\ Due(s, h, n) /\ Passes(At(s, h).declares) =>
                 EffectOn(Decide(s, h, n), s, At(s, h).of)
           /\ Due(s, h, n) /\ ~Passes(At(s, h).declares) =>
                 DroppedFrom(Decide(s, h, n), s, h)
<1>1. CASE ~Due(s, h, n)
  BY <1>1 DEF Due, Decide
<1>2. CASE Due(s, h, n)
  <2>1. At(s, h) \in Entry
    BY <1>2 DEF Due, IsWork, Typed, At
  <2>2. At(s, h).of \in Hash
    BY <2>1 DEF Entry
  <2>3. CASE Passes(At(s, h).declares)
    <3>1. Decide(s, h, n) = Effect(s, At(s, h).of)
      BY <1>2, <2>3 DEF Due, Decide
    <3>2. EffectOn(Effect(s, At(s, h).of), s, At(s, h).of)
      BY <2>2, EffectFields
    <3>3. EffectOn(Decide(s, h, n), s, At(s, h).of)
      BY <3>1, <3>2, Zenon
    <3> QED
      BY <1>2, <2>3, <3>3, Zenon
  <2>4. CASE ~Passes(At(s, h).declares)
    <3>1. Decide(s, h, n) = [s EXCEPT !.cell = Restrict(s.cell, DOMAIN s.cell \ {h})]
      BY <1>2, <2>4 DEF Due, Decide
    <3>2. DroppedFrom([s EXCEPT !.cell = Restrict(s.cell, DOMAIN s.cell \ {h})], s, h)
      BY DropFields, Zenon
    <3>3. DroppedFrom(Decide(s, h, n), s, h)
      BY <3>1, <3>2, Zenon
    <3> QED
      BY <1>2, <2>4, <3>3, Zenon
  <2> QED
    BY <1>2, <2>3, <2>4
<1> QED
  BY <1>1, <1>2

\* A decision moves no proposal to another cell and changes no cell.
Within(R, s) ==
    /\ R.data = s.data
    /\ DOMAIN R.cell \subseteq DOMAIN s.cell
    /\ \A g \in DOMAIN R.cell : R.cell[g] = s.cell[g]

LEMMA WorkDecide ==
    ASSUME setup \in Setups, NEW s, IsWork(s), NEW h, NEW n
    PROVE  IsWork(Decide(s, h, n)) /\ Within(Decide(s, h, n), s)
<1> DEFINE R == Decide(s, h, n)
<1>1. /\ DOMAIN s.data \subseteq Hash /\ s.data \in [DOMAIN s.data -> Entry]
      /\ DOMAIN s.cell \subseteq Hash /\ s.cell \in [DOMAIN s.cell -> DOMAIN s.data]
      /\ s.sc \subseteq {ValueOf[g] : g \in Hash}
      /\ DOMAIN s = {"cell", "data", "sc", "reward"} /\ s.reward \in Nat
  BY DEF IsWork, Typed
<1>2. CASE ~Due(s, h, n)
  <2>1. R = s
    BY <1>2, DecideFields
  <2> QED
    BY <2>1 DEF Within
<1>3. CASE Due(s, h, n) /\ Passes(At(s, h).declares)
  <2> DEFINE p == At(s, h).of
  <2>1. EffectOn(R, s, p)
    BY <1>3, DecideFields
  <2>2. p \in Hash
    <3>1. At(s, h) \in Entry
      BY <1>1, <1>3 DEF Due, At
    <3> QED
      BY <3>1 DEF Entry
  <2>3. ValueOf[p] \in Nat
    BY <2>2, SetupFacts
  <2> HIDE DEF R, p
  <2>4. R.cell = s.cell /\ R.data = s.data /\ DOMAIN R = DOMAIN s
    BY <2>1 DEF EffectOn
  <2>5. R.reward \in Nat
    BY <1>1, <2>1, <2>3 DEF EffectOn
  <2>6. R.sc \subseteq {ValueOf[g] : g \in Hash}
    <3>1. R.sc = s.sc \/ R.sc = s.sc \cup {ValueOf[p]} \/ R.sc = s.sc \ {ValueOf[p]}
      BY <2>1 DEF EffectOn
    <3> QED
      BY <1>1, <2>2, <3>1
  <2>7. IsWork(R)
    BY <1>1, <2>4, <2>5, <2>6 DEF IsWork, Typed
  <2>8. Within(R, s)
    BY <2>4 DEF Within
  <2> QED
    BY <2>7, <2>8 DEF R
<1>4. CASE Due(s, h, n) /\ ~Passes(At(s, h).declares)
  <2>1. DroppedFrom(R, s, h)
    BY <1>4, DecideFields
  <2> HIDE DEF R
  <2>2. R.data = s.data /\ DOMAIN R = DOMAIN s /\ R.sc = s.sc /\ R.reward = s.reward
    BY <2>1 DEF DroppedFrom
  <2>3. /\ DOMAIN R.cell = DOMAIN s.cell \ {h}
        /\ \A g \in DOMAIN R.cell : R.cell[g] = s.cell[g]
        /\ R.cell \in [DOMAIN R.cell -> DOMAIN R.data]
    BY <1>1, <2>1 DEF DroppedFrom
  <2>4. IsWork(R)
    BY <1>1, <2>2, <2>3 DEF IsWork, Typed
  <2>5. Within(R, s)
    BY <2>2, <2>3 DEF Within
  <2> QED
    BY <2>4, <2>5 DEF R
<1> QED
  BY <1>2, <1>3, <1>4

\* When the header is done the next one begins.
LEMMA PolledOn ==
    ASSUME ChainOK, NEW n \in DOMAIN chain, NEW D, NEW h,
           Polled(D, h, n, Len(chain[n].declares))
    PROVE  Polled(D, h, n + 1, 0)
<1>1. n \in Nat
  BY ChainFacts
<1>2. \A p \in Declared : Upto(p, n, Len(chain[n].declares)) <=> Upto(p, n + 1, 0)
  <2> TAKE p \in Declared
  <2>1. /\ p[1] \in Nat /\ p[2] \in Nat /\ p[2] >= 1
        /\ p[2] \in 1..Len(chain[p[1]].declares) /\ p[1] \in DOMAIN chain
    BY DeclaredFacts
  <2>2. CASE p[1] = n
    <3>1. p[2] <= Len(chain[n].declares)
      <4>1. Len(chain[n].declares) \in Nat
        BY ChainFacts
      <4>2. p[2] \in 1..Len(chain[n].declares)
        BY <2>1, <2>2
      <4> QED
        BY <4>1, <4>2
    <3> QED
      BY <1>1, <2>1, <2>2, <3>1 DEF Upto
  <2>3. CASE p[1] # n
    BY <1>1, <2>1, <2>3 DEF Upto
  <2> QED
    BY <2>2, <2>3
<1> QED
  BY <1>2 DEF Polled

\* Decisions are due when the chain says so.
LEMMA DueAtDecided ==
    ASSUME ChainOK, setup \in Setups, NEW n \in DOMAIN chain, NEW k, NEW m, NEW j,
           NEW s, IsWork(s), Right(s, Held(n), k, m, j), NEW h
    PROVE  Due(s, h, n) <=> h \in Held(n) /\ DecidedAt(h) = n
<1>1. DOMAIN s.cell = Held(n)
  BY DEF Right
<1>2. ASSUME h \in Held(n) PROVE Due(s, h, n) <=> DecidedAt(h) = n
  <2>1. h \in Proposed
    BY <1>2 DEF Held
  <2>2. DecidedAt(h) = ProposedAt(h) + Validity[h] + 1
    BY <2>1, DecidedFacts
  <2>3. At(s, h) = s.data[h] /\ s.data[h].of = h /\ s.data[h].received = ProposedAt(h)
    BY <1>2 DEF Right, At
  <2> QED
    BY <1>1, <1>2, <2>2, <2>3 DEF Due
<1> QED
  BY <1>1, <1>2 DEF Due

\* No proposal is decided by this block.
LEMMA RightUndecided ==
    ASSUME ChainOK, setup \in Setups, NEW n \in DOMAIN chain,
           NEW s, IsWork(s), Right(s, Held(n), n - 1, n, Len(chain[n].declares)),
           \A h \in Held(n) : DecidedAt(h) # n
    PROVE  /\ Right(s, OpenOrPassed(n), n, n + 1, 0)
           /\ RewardOfChain(n) = RewardOfChain(n - 1)
<1>1. n \in Nat /\ \A h \in Proposed : /\ ProposedAt(h) \in Nat /\ DecidedAt(h) \in Nat
                                       /\ ProposedAt(h) < DecidedAt(h)
  BY ChainFacts, DecidedFacts
<1>2. \A h \in Proposed : DecidedAt(h) # n
  BY <1>1 DEF Held
<1>3. SideChainsOf(n) = SideChainsOf(n - 1) /\ RewardOfChain(n) = RewardOfChain(n - 1)
  BY <1>1, <1>2, NothingDecided
<1>4. Held(n) = OpenOrPassed(n)
  <2>1. \A h \in Proposed : DecidedAt(h) >= n <=> DecidedAt(h) > n
    BY <1>1, <1>2
  <2> QED
    BY <2>1 DEF Held, OpenOrPassed
<1>5. \A h \in Held(n) : Polled(s.data[h].declares, h, n + 1, 0)
  BY PolledOn DEF Right
<1>6. Right(s, OpenOrPassed(n), n, n + 1, 0)
  BY <1>3, <1>4, <1>5 DEF Right
<1> QED
  BY <1>3, <1>6

\* One is: it passes if the chain approves it, with its effect, or it goes.
LEMMA RightDecided ==
    ASSUME ChainOK, setup \in Setups, NEW n \in DOMAIN chain, Separate(n),
           NEW s, IsWork(s), Right(s, Held(n), n - 1, n, Len(chain[n].declares)),
           NEW z \in Held(n), DecidedAt(z) = n
    PROVE  /\ Right(Decide(s, z, n), OpenOrPassed(n), n, n + 1, 0)
           /\ s.reward = RewardOfChain(n - 1) =>
                 Decide(s, z, n).reward = RewardOfChain(n)
<1> DEFINE R == Decide(s, z, n)
           D == s.data[z].declares
<1>1. /\ n \in Nat /\ z \in Proposed /\ z \in Hash
      /\ \A h \in Proposed : /\ ProposedAt(h) \in Nat /\ DecidedAt(h) \in Nat
                             /\ ProposedAt(h) < DecidedAt(h)
  BY ChainFacts, DecidedFacts DEF Held
<1>2. /\ DOMAIN s.cell = Held(n) /\ s.sc = SideChainsOf(n - 1)
      /\ \A h \in Held(n) : /\ s.cell[h] = h
                            /\ s.data[h].of = h
                            /\ s.data[h].received = ProposedAt(h)
                            /\ Polled(s.data[h].declares, h, n, Len(chain[n].declares))
  BY DEF Right
<1>3. At(s, z) = s.data[z] /\ At(s, z).of = z /\ Due(s, z, n)
  BY <1>2, DueAtDecided DEF At
<1>4. Passes(D) <=> Approved(z)
  <2>1. Polled(D, z, n, Len(chain[n].declares))
    BY <1>2
  <2>2. ASSUME NEW p \in Declared, NEW a, Counts(p, a, z)
        PROVE  Upto(p, n, Len(chain[n].declares))
    <3>1. p[1] < n
      BY <2>2 DEF Counts
    <3> QED
      BY <3>1 DEF Upto
  <2>3. {d.by : d \in {e \in D : e.decision = "yes"}}
            = {a \in Candidate : SaysYes(a, z)}
    <3> HIDE DEF D
    <3> QED
      BY <2>1, <2>2, YesVotes
  <2> QED
    BY <2>3, PassesIfApproved
<1>5. \A h \in Proposed : DecidedAt(h) = n => h = z
  <2> SUFFICES ASSUME NEW h \in Proposed, DecidedAt(h) = n, h # z PROVE FALSE
    OBVIOUS
  <2>1. ProposedAt(h) <= n /\ ProposedAt(z) <= n
    BY <1>1
  <2> QED
    BY <1>1, <2>1 DEF Separate
<1>6. \A h \in Held(n) : h # z => h \in OpenOrPassed(n)
  <2>1. \A h \in Held(n) : h # z =>
           h \in Proposed /\ ProposedAt(h) <= n /\ (DecidedAt(h) > n \/ Approved(h))
    BY <1>1, <1>5 DEF Held
  <2> QED
    BY <2>1 DEF OpenOrPassed
<1>7. \A h \in OpenOrPassed(n) : h \in Held(n)
  BY <1>1 DEF OpenOrPassed, Held
<1>8. z \in OpenOrPassed(n) <=> Approved(z)
  BY <1>1 DEF OpenOrPassed
<1>9. \A h \in Held(n) : Polled(s.data[h].declares, h, n + 1, 0)
  BY <1>2, PolledOn
<1>10. CASE Approved(z)
  <2>1. EffectOn(R, s, z)
    BY <1>3, <1>4, <1>10, DecideFields
  <2>2. Held(n) = OpenOrPassed(n)
    BY <1>6, <1>7, <1>8, <1>10
  <2> HIDE DEF R
  <2>3. R.sc = SideChainsOf(n)
    <3>1. CASE KindOf[z] = "scAdd"
      <4>1. R.sc = s.sc \cup {ValueOf[z]}
        BY <2>1, <3>1 DEF EffectOn
      <4> QED
        BY <1>1, <1>2, <1>10, <3>1, <4>1, SideChainAdded
    <3>2. CASE KindOf[z] = "scRemove"
      <4>1. R.sc = s.sc \ {ValueOf[z]}
        BY <2>1, <3>2 DEF EffectOn
      <4> QED
        BY <1>1, <1>2, <1>10, <3>2, <4>1, SideChainRemoved
    <3>3. CASE KindOf[z] \notin {"scAdd", "scRemove"}
      <4>1. R.sc = s.sc
        BY <2>1, <3>3 DEF EffectOn
      <4> QED
        BY <1>1, <1>2, <3>3, <4>1, SideChainsKept
    <3> QED
      BY <3>1, <3>2, <3>3
  <2>4. Right(R, OpenOrPassed(n), n, n + 1, 0)
    BY <1>2, <1>9, <2>1, <2>2, <2>3 DEF Right, EffectOn
  <2>5. s.reward = RewardOfChain(n - 1) => R.reward = RewardOfChain(n)
    <3>1. R.reward = IF KindOf[z] = "reward" THEN ValueOf[z] ELSE s.reward
      BY <2>1 DEF EffectOn
    <3>2. RewardOfChain(n) = IF KindOf[z] = "reward" THEN ValueOf[z]
                             ELSE RewardOfChain(n - 1)
      BY <1>1, <1>10, ShareDecided
    <3> QED
      BY <3>1, <3>2
  <2> QED
    BY <2>4, <2>5 DEF R
<1>11. CASE ~Approved(z)
  <2>1. DroppedFrom(R, s, z)
    BY <1>3, <1>4, <1>11, DecideFields
  <2>2. OpenOrPassed(n) = Held(n) \ {z}
    BY <1>6, <1>7, <1>8, <1>11
  <2> HIDE DEF R
  <2>3. R.sc = SideChainsOf(n)
    <3>1. R.sc = s.sc
      BY <2>1 DEF DroppedFrom
    <3> QED
      BY <1>1, <1>2, <1>11, <3>1, SideChainsKept
  <2>4. DOMAIN R.cell = OpenOrPassed(n)
    BY <1>2, <2>1, <2>2 DEF DroppedFrom
  <2>5. \A h \in OpenOrPassed(n) : R.cell[h] = s.cell[h] /\ R.data[h] = s.data[h]
    BY <1>2, <2>1, <2>2 DEF DroppedFrom
  <2>6. Right(R, OpenOrPassed(n), n, n + 1, 0)
    BY <1>2, <1>7, <1>9, <2>3, <2>4, <2>5 DEF Right
  <2>7. s.reward = RewardOfChain(n - 1) => R.reward = RewardOfChain(n)
    <3>1. R.reward = s.reward
      BY <2>1 DEF DroppedFrom
    <3>2. RewardOfChain(n) = RewardOfChain(n - 1)
      BY <1>1, <1>11, ShareDecided
    <3> QED
      BY <3>1, <3>2
  <2> QED
    BY <2>6, <2>7 DEF R
<1> QED
  BY <1>10, <1>11

-----------------------------------------------------------------------------
(* The loops of apply, as walks of a given length. *)

\* after is what s becomes after 0, 1, ... and m declares of header n.
DeclareWalk(after, s, n, m) ==
    after = [i \in 0..m |-> IF i = 0 THEN s
                            ELSE AddDeclare(after[i - 1], chain[n].declares[i], n)]

\* There is one of every length.
LEMMA DeclareWalkExists ==
    ASSUME NEW s, NEW n, NEW m \in Nat
    PROVE  \E after : DeclareWalk(after, s, n, m)
<1> DEFINE Bad == {k \in Nat : ~\E after : DeclareWalk(after, s, n, k)}
<1> SUFFICES ASSUME Bad # {} PROVE FALSE
  OBVIOUS
<1>1. PICK k \in Bad : \A j \in Bad : k <= j
  <2>1. Bad \subseteq Nat
    OBVIOUS
  <2> HIDE DEF Bad
  <2> QED
    BY <2>1, LeastExists
<1>2. k # 0
  <2> SUFFICES ASSUME k = 0 PROVE FALSE
    OBVIOUS
  <2> DEFINE g == [i \in 0..0 |-> s]
  <2>1. DeclareWalk(g, s, n, 0)
    BY DEF DeclareWalk
  <2> HIDE DEF g
  <2> QED
    BY <1>1, <2>1
<1>3. k - 1 \in Nat /\ k - 1 \notin Bad
  BY <1>1, <1>2
<1>4. PICK h : DeclareWalk(h, s, n, k - 1)
  BY <1>3
<1> DEFINE g == [i \in 0..k |-> IF i = k
                                 THEN AddDeclare(h[k - 1], chain[n].declares[k], n)
                                 ELSE h[i]]
<1>5. \A i \in 0..k - 1 : h[i] =
         IF i = 0 THEN s ELSE AddDeclare(h[i - 1], chain[n].declares[i], n)
  BY <1>4, <1>3 DEF DeclareWalk
<1>6. \A i \in 0..k - 1 : g[i] = h[i]
  BY <1>1, <1>3
<1>7. \A i \in 0..k : g[i] =
         IF i = 0 THEN s ELSE AddDeclare(g[i - 1], chain[n].declares[i], n)
  <2> TAKE i \in 0..k
  <2>1. CASE i = k
    <3>1. g[i] = AddDeclare(h[k - 1], chain[n].declares[k], n) /\ g[k - 1] = h[k - 1]
      BY <1>2, <1>3, <1>6, <2>1
    <3> HIDE DEF g
    <3> QED
      BY <1>2, <2>1, <3>1
  <2>2. CASE i # k
    <3>1. i \in 0..k - 1 /\ (i # 0 => i - 1 \in 0..k - 1)
      BY <1>3, <2>2
    <3> HIDE DEF g
    <3> QED
      BY <1>5, <1>6, <3>1
  <2> QED
    BY <2>1, <2>2
<1>8. DeclareWalk(g, s, n, k)
  <2>1. DOMAIN g = 0..k /\ g = [i \in 0..k |-> g[i]]
    OBVIOUS
  <2> HIDE DEF g
  <2> QED
    BY <1>7, <2>1 DEF DeclareWalk
<1> HIDE DEF g
<1> QED
  BY <1>1, <1>8


\* after is what s becomes after 0, 1, ... and m keys of the walk over the map.
DecideWalk(after, s, n, order, m) ==
    after = [i \in 0..m |-> IF i = 0 THEN s ELSE Decide(after[i - 1], order[i], n)]

\* There is one of every length.
LEMMA DecideWalkExists ==
    ASSUME NEW s, NEW n, NEW order, NEW m \in Nat
    PROVE  \E after : DecideWalk(after, s, n, order, m)
<1> DEFINE Bad == {k \in Nat : ~\E after : DecideWalk(after, s, n, order, k)}
<1> SUFFICES ASSUME Bad # {} PROVE FALSE
  OBVIOUS
<1>1. PICK k \in Bad : \A j \in Bad : k <= j
  <2>1. Bad \subseteq Nat
    OBVIOUS
  <2> HIDE DEF Bad
  <2> QED
    BY <2>1, LeastExists
<1>2. k # 0
  <2> SUFFICES ASSUME k = 0 PROVE FALSE
    OBVIOUS
  <2> DEFINE g == [i \in 0..0 |-> s]
  <2>1. DecideWalk(g, s, n, order, 0)
    BY DEF DecideWalk
  <2> HIDE DEF g
  <2> QED
    BY <1>1, <2>1
<1>3. k - 1 \in Nat /\ k - 1 \notin Bad
  BY <1>1, <1>2
<1>4. PICK h : DecideWalk(h, s, n, order, k - 1)
  BY <1>3
<1> DEFINE g == [i \in 0..k |-> IF i = k THEN Decide(h[k - 1], order[k], n) ELSE h[i]]
<1>5. \A i \in 0..k - 1 : h[i] =
         IF i = 0 THEN s ELSE Decide(h[i - 1], order[i], n)
  BY <1>4, <1>3 DEF DecideWalk
<1>6. \A i \in 0..k - 1 : g[i] = h[i]
  BY <1>1, <1>3
<1>7. \A i \in 0..k : g[i] =
         IF i = 0 THEN s ELSE Decide(g[i - 1], order[i], n)
  <2> TAKE i \in 0..k
  <2>1. CASE i = k
    <3>1. g[i] = Decide(h[k - 1], order[k], n) /\ g[k - 1] = h[k - 1]
      BY <1>2, <1>3, <1>6, <2>1
    <3> HIDE DEF g
    <3> QED
      BY <1>2, <2>1, <3>1
  <2>2. CASE i # k
    <3>1. i \in 0..k - 1 /\ (i # 0 => i - 1 \in 0..k - 1)
      BY <1>3, <2>2
    <3> HIDE DEF g
    <3> QED
      BY <1>5, <1>6, <3>1
  <2> QED
    BY <2>1, <2>2
<1>8. DecideWalk(g, s, n, order, k)
  <2>1. DOMAIN g = 0..k /\ g = [i \in 0..k |-> g[i]]
    OBVIOUS
  <2> HIDE DEF g
  <2> QED
    BY <1>7, <2>1 DEF DecideWalk
<1> HIDE DEF g
<1> QED
  BY <1>1, <1>8


\* after is what s becomes up to each header from its own to the m-th.
HeaderWalk(after, s, r, order, m) ==
    after = [i \in s.number..m |-> IF i = s.number THEN Working(s, r)
                                   ELSE ApplyHeader(after[i - 1], i, order)]

\* There is one of every length.
LEMMA HeaderWalkExists ==
    ASSUME NEW s, NEW r, NEW order, s.number \in Nat, NEW m \in Nat, m >= s.number
    PROVE  \E after : HeaderWalk(after, s, r, order, m)
<1> DEFINE Bad == {k \in Nat : k >= s.number /\ ~\E after : HeaderWalk(after, s, r, order, k)}
<1> SUFFICES ASSUME Bad # {} PROVE FALSE
  OBVIOUS
<1>1. PICK k \in Bad : \A j \in Bad : k <= j
  <2>1. Bad \subseteq Nat
    OBVIOUS
  <2> HIDE DEF Bad
  <2> QED
    BY <2>1, LeastExists
<1>2. k # s.number
  <2> SUFFICES ASSUME k = s.number PROVE FALSE
    OBVIOUS
  <2> DEFINE g == [i \in s.number..s.number |-> Working(s, r)]
  <2>1. HeaderWalk(g, s, r, order, s.number)
    BY DEF HeaderWalk
  <2> HIDE DEF g
  <2> QED
    BY <1>1, <2>1
<1>3. k - 1 \in Nat /\ k - 1 >= s.number /\ k - 1 \notin Bad
  BY <1>1, <1>2
<1>4. PICK h : HeaderWalk(h, s, r, order, k - 1)
  BY <1>3
<1> DEFINE g == [i \in s.number..k |-> IF i = k THEN ApplyHeader(h[k - 1], k, order)
                                    ELSE h[i]]
<1>5. \A i \in s.number..k - 1 : h[i] =
         IF i = s.number THEN Working(s, r) ELSE ApplyHeader(h[i - 1], i, order)
  BY <1>4, <1>3 DEF HeaderWalk
<1>6. \A i \in s.number..k - 1 : g[i] = h[i]
  BY <1>1, <1>3
<1>7. \A i \in s.number..k : g[i] =
         IF i = s.number THEN Working(s, r) ELSE ApplyHeader(g[i - 1], i, order)
  <2> TAKE i \in s.number..k
  <2>1. CASE i = k
    <3>1. g[i] = ApplyHeader(h[k - 1], k, order) /\ g[k - 1] = h[k - 1]
      BY <1>2, <1>3, <1>6, <2>1
    <3> HIDE DEF g
    <3> QED
      BY <1>2, <2>1, <3>1
  <2>2. CASE i # k
    <3>1. i \in s.number..k - 1 /\ (i # s.number => i - 1 \in s.number..k - 1)
      BY <1>3, <2>2
    <3> HIDE DEF g
    <3> QED
      BY <1>5, <1>6, <3>1
  <2> QED
    BY <2>1, <2>2
<1>8. HeaderWalk(g, s, r, order, k)
  <2>1. DOMAIN g = s.number..k /\ g = [i \in s.number..k |-> g[i]]
    OBVIOUS
  <2> HIDE DEF g
  <2> QED
    BY <1>7, <2>1 DEF HeaderWalk
<1> HIDE DEF g
<1> QED
  BY <1>1, <1>8


LEMMA DeclaringWalks ==
    ASSUME NEW s, NEW n, Len(chain[n].declares) \in Nat
    PROVE  LET after == Declaring(s, n) IN
           /\ after[0] = s
           /\ \A i \in 1..Len(chain[n].declares) :
                 after[i] = AddDeclare(after[i - 1], chain[n].declares[i], n)
<1> DEFINE m == Len(chain[n].declares)
           after == Declaring(s, n)
<1>1. \E g : DeclareWalk(g, s, n, m)
  BY DeclareWalkExists
<1>2. after = CHOOSE g : DeclareWalk(g, s, n, m)
  BY DEF Declaring, DeclareWalk
<1>3. DeclareWalk(after, s, n, m)
  BY <1>1, <1>2
<1> HIDE DEF after
<1>4. \A i \in 0..m :
         after[i] = IF i = 0 THEN s
                    ELSE AddDeclare(after[i - 1], chain[n].declares[i], n)
  BY <1>3 DEF DeclareWalk
<1> QED
  BY <1>4 DEF after

LEMMA DecidingWalks ==
    ASSUME NEW s, NEW n, NEW order, Len(order) \in Nat
    PROVE  LET after == Deciding(s, n, order) IN
           /\ after[0] = s
           /\ \A i \in 1..Len(order) : after[i] = Decide(after[i - 1], order[i], n)
<1> DEFINE m == Len(order)
           after == Deciding(s, n, order)
<1>1. \E g : DecideWalk(g, s, n, order, m)
  BY DecideWalkExists
<1>2. after = CHOOSE g : DecideWalk(g, s, n, order, m)
  BY DEF Deciding, DecideWalk
<1>3. DecideWalk(after, s, n, order, m)
  BY <1>1, <1>2
<1> HIDE DEF after
<1>4. \A i \in 0..m :
         after[i] = IF i = 0 THEN s ELSE Decide(after[i - 1], order[i], n)
  BY <1>3 DEF DecideWalk
<1> QED
  BY <1>4 DEF after

LEMMA ReplayingWalks ==
    ASSUME NEW s, s.number \in Nat, NEW r, NEW order, NEW last \in Nat, last >= s.number
    PROVE  LET after == Replaying(s, r, last, order) IN
           /\ after[s.number] = Working(s, r)
           /\ \A n \in s.number + 1..last :
                 after[n] = ApplyHeader(after[n - 1], n, order)
<1> DEFINE after == Replaying(s, r, last, order)
<1>1. \E g : HeaderWalk(g, s, r, order, last)
  BY HeaderWalkExists
<1>2. after = CHOOSE g : HeaderWalk(g, s, r, order, last)
  BY DEF Replaying, HeaderWalk
<1>3. HeaderWalk(after, s, r, order, last)
  BY <1>1, <1>2
<1> HIDE DEF after
<1>4. \A n \in s.number..last :
         after[n] = IF n = s.number THEN Working(s, r)
                    ELSE ApplyHeader(after[n - 1], n, order)
  BY <1>3 DEF HeaderWalk
<1> QED
  BY <1>4 DEF after

-----------------------------------------------------------------------------
(* What the loops do. *)

\* An order of the map names every hash once.
LEMMA OrderOfHashes ==
    ASSUME NEW order \in Orders, setup \in Setups
    PROVE  /\ Len(order) \in Nat
           /\ order \in [1..Len(order) -> Hash]
           /\ \A i, j \in 1..Len(order) : order[i] = order[j] => i = j
           /\ \A v \in Hash : \E i \in 1..Len(order) : order[i] = v
<1> DEFINE n == Cardinality(Hash)
<1>1. n \in Nat
  BY SetupFacts, FS_CardinalityType
<1>2. /\ order \in [1..n -> Hash]
      /\ \A i, j \in 1..n : order[i] = order[j] => i = j
      /\ \A v \in Hash : \E i \in 1..n : order[i] = v
  BY DEF Orders, Bijection, Injection, Surjection, IsInjective
<1> HIDE DEF n
<1>3. order \in Seq(Hash)
  BY <1>1, <1>2, SeqDef
<1>4. Len(order) \in Nat /\ DOMAIN order = 1..Len(order)
  BY <1>3, LenProperties
<1>5. 1..Len(order) = 1..n
  BY <1>2, <1>4
<1>6. Len(order) = n
  <2> DEFINE k == Len(order)
  <2>1. k \in Nat /\ n \in Nat
    BY <1>1, <1>4
  <2> HIDE DEF k
  <2>2. ASSUME k < n PROVE FALSE
    <3>1. n \in 1..n /\ n \notin 1..k
      BY <2>1, <2>2
    <3> QED
      BY <1>5, <3>1 DEF k
  <2>3. ASSUME n < k PROVE FALSE
    <3>1. k \in 1..k /\ k \notin 1..n
      BY <2>1, <2>3
    <3> QED
      BY <1>5, <3>1 DEF k
  <2> QED
    BY <2>1, <2>2, <2>3 DEF k
<1> QED
  BY <1>1, <1>2, <1>6

\* All declares of a header.
LEMMA AfterDeclares ==
    ASSUME ChainOK, setup \in Setups, NEW n \in DOMAIN chain, NEW s, IsWork(s)
    PROVE  LET R == Declaring(s, n)[Len(chain[n].declares)] IN
           /\ IsWork(R)
           /\ R.reward = s.reward
           /\ Right(s, Held(n), n - 1, n, 0) =>
                 Right(R, Held(n), n - 1, n, Len(chain[n].declares))
<1> DEFINE m == Len(chain[n].declares)
           after == Declaring(s, n)
           Good(i) == /\ IsWork(after[i])
                      /\ after[i].reward = s.reward
                      /\ Right(s, Held(n), n - 1, n, 0) =>
                            Right(after[i], Held(n), n - 1, n, i)
<1>1. m \in Nat /\ \A i \in 1..m : chain[n].declares[i] \in Declare
  <2>1. m \in Nat /\ chain[n].declares \in Seq(Declare)
    BY ChainFacts
  <2> QED
    BY <2>1, ElementOfSeq
<1>2. /\ after[0] = s
      /\ \A i \in 1..m :
            after[i] = AddDeclare(after[i - 1], chain[n].declares[i], n)
  BY <1>1, DeclaringWalks
<1> HIDE DEF after
<1>3. Good(0)
  BY <1>2
<1>4. ASSUME NEW i \in 1..m, Good(i - 1) PROVE Good(i)
  <2> DEFINE P == after[i - 1]
             Q == after[i]
             d == chain[n].declares[i]
  <2>1. Q = AddDeclare(P, d, n) /\ d \in Declare
    BY <1>1, <1>2
  <2>2. /\ IsWork(P) /\ P.reward = s.reward
        /\ Right(s, Held(n), n - 1, n, 0) => Right(P, Held(n), n - 1, n, i - 1)
    BY <1>4
  <2> HIDE DEF P, Q
  <2>3. IsWork(Q) /\ Q.reward = s.reward
    <3> HIDE DEF d
    <3> QED
      BY <2>1, <2>2, WorkDeclare
  <2>4. ASSUME Right(s, Held(n), n - 1, n, 0) PROVE Right(Q, Held(n), n - 1, n, i)
    BY <2>1, <2>2, <2>4, RightDeclare
  <2> QED
    BY <2>3, <2>4 DEF Q
<1> HIDE DEF Good
<1>5. Good(m)
  <2> DEFINE Bad == {i \in 0..m : ~Good(i)}
  <2> SUFFICES ASSUME Bad # {} PROVE FALSE
    BY <1>1
  <2>1. PICK i \in Bad : \A j \in Bad : i <= j
    <3>1. Bad \subseteq Nat
      BY <1>1
    <3> HIDE DEF Bad
    <3> QED
      BY <3>1, LeastExists
  <2>2. i \in 1..m /\ i - 1 \in 0..m
    BY <1>1, <1>3, <2>1
  <2>3. Good(i - 1)
    BY <2>1, <2>2
  <2> QED
    BY <1>4, <2>1, <2>2, <2>3
<1> QED
  BY <1>5 DEF Good, after

\* What a decision leaves is due exactly if it was before.
LEMMA DueWithin ==
    ASSUME NEW R, NEW s, Within(R, s), NEW h, NEW n, Due(R, h, n)
    PROVE  Due(s, h, n)
<1>1. h \in DOMAIN R.cell /\ h \in DOMAIN s.cell /\ At(R, h) = At(s, h)
  BY DEF Due, Within, At
<1> QED
  BY <1>1 DEF Due

\* A proposal that has been decided is not decided again in the same header,
\* and the others are not due.
LEMMA WalkSettles ==
    ASSUME setup \in Setups, NEW s, IsWork(s), NEW n, NEW order \in Orders,
           NEW z \in Hash, \A h : Due(s, h, n) => h = z
    PROVE  Deciding(s, n, order)[Len(order)] = Decide(s, z, n)
<1> DEFINE m == Len(order)
           after == Deciding(s, n, order)
           R == Decide(s, z, n)
           Met(i) == \E j \in 1..i : order[j] = z
           Good(i) == after[i] = IF Met(i) THEN R ELSE s
<1>1. /\ m \in Nat /\ order \in [1..m -> Hash]
      /\ \A i, j \in 1..m : order[i] = order[j] => i = j
      /\ \A v \in Hash : \E i \in 1..m : order[i] = v
  BY OrderOfHashes
<1>2. after[0] = s /\ \A i \in 1..m : after[i] = Decide(after[i - 1], order[i], n)
  BY <1>1, DecidingWalks
<1> HIDE DEF after
<1>3. Good(0)
  BY <1>2
<1>4. \A h : h # z => Decide(s, h, n) = s
  BY DecideFields
<1>5. \A h : h # z => Decide(R, h, n) = R
  <2>1. IsWork(R) /\ Within(R, s)
    BY WorkDecide
  <2> HIDE DEF R
  <2>2. \A h : Due(R, h, n) => h = z
    BY <2>1, DueWithin
  <2> QED
    BY <2>1, <2>2, DecideFields
<1> HIDE DEF R
<1>6. ASSUME NEW i \in 1..m, Good(i - 1) PROVE Good(i)
  <2>1. after[i] = Decide(after[i - 1], order[i], n)
    BY <1>2
  <2>2. i \in Nat /\ i >= 1 /\ i <= m
    BY <1>1
  <2>3. CASE order[i] = z
    <3>1. ~Met(i - 1)
      BY <1>1, <2>2, <2>3
    <3>2. Met(i)
      BY <2>2, <2>3
    <3>3. after[i - 1] = s
      BY <1>6, <3>1
    <3> QED
      BY <2>1, <2>3, <3>2, <3>3 DEF R
  <2>4. CASE order[i] # z
    <3>1. Met(i) <=> Met(i - 1)
      BY <2>2, <2>4
    <3> HIDE DEF Met
    <3>2. CASE Met(i)
      BY <1>5, <1>6, <2>1, <2>4, <3>1, <3>2
    <3>3. CASE ~Met(i)
      BY <1>4, <1>6, <2>1, <2>4, <3>1, <3>3
    <3> QED
      BY <3>2, <3>3
  <2> QED
    BY <2>3, <2>4
<1>7. Met(m)
  BY <1>1
<1> HIDE DEF Good
<1>8. Good(m)
  <2> DEFINE Bad == {i \in 0..m : ~Good(i)}
  <2> SUFFICES ASSUME Bad # {} PROVE FALSE
    BY <1>1
  <2>1. PICK i \in Bad : \A j \in Bad : i <= j
    <3>1. Bad \subseteq Nat
      BY <1>1
    <3> HIDE DEF Bad
    <3> QED
      BY <3>1, LeastExists
  <2>2. i \in 1..m /\ i - 1 \in 0..m
    BY <1>1, <1>3, <2>1
  <2>3. Good(i - 1)
    BY <2>1, <2>2
  <2> QED
    BY <1>6, <2>1, <2>2, <2>3
<1> HIDE DEF Met
<1> QED
  BY <1>7, <1>8 DEF Good, after, R

\* Whatever the decisions, the types are kept.
LEMMA WalkWork ==
    ASSUME setup \in Setups, NEW s, IsWork(s), NEW n, NEW order \in Orders
    PROVE  IsWork(Deciding(s, n, order)[Len(order)])
<1> DEFINE m == Len(order)
           after == Deciding(s, n, order)
<1>1. m \in Nat
  BY OrderOfHashes
<1>2. after[0] = s /\ \A i \in 1..m : after[i] = Decide(after[i - 1], order[i], n)
  BY <1>1, DecidingWalks
<1> HIDE DEF after
<1> DEFINE Bad == {i \in 0..m : ~IsWork(after[i])}
<1>3. Bad = {}
  <2> SUFFICES ASSUME Bad # {} PROVE FALSE
    OBVIOUS
  <2>1. PICK i \in Bad : \A j \in Bad : i <= j
    <3>1. Bad \subseteq Nat
      BY <1>1
    <3> HIDE DEF Bad
    <3> QED
      BY <3>1, LeastExists
  <2>2. i \in 1..m /\ i - 1 \in 0..m
    BY <1>1, <1>2, <2>1
  <2>3. IsWork(after[i - 1])
    BY <2>1, <2>2
  <2>4. after[i] = Decide(after[i - 1], order[i], n)
    BY <1>2, <2>2
  <2> QED
    BY <2>1, <2>3, <2>4, WorkDecide
<1> QED
  BY <1>1, <1>3 DEF after

\* All decisions of a header.
LEMMA AfterDecisions ==
    ASSUME ChainOK, setup \in Setups, NEW n \in DOMAIN chain, Separate(n),
           NEW s, IsWork(s), NEW order \in Orders,
           Right(s, Held(n), n - 1, n, Len(chain[n].declares))
    PROVE  LET R == Deciding(s, n, order)[Len(order)] IN
           /\ Right(R, OpenOrPassed(n), n, n + 1, 0)
           /\ s.reward = RewardOfChain(n - 1) => R.reward = RewardOfChain(n)
<1>1. \A h : Due(s, h, n) <=> h \in Held(n) /\ DecidedAt(h) = n
  BY DueAtDecided
<1>2. \A h \in Held(n) : h \in Proposed /\ h \in Hash /\ ProposedAt(h) <= n
  BY DecidedFacts DEF Held
<1>3. CASE \E z \in Held(n) : DecidedAt(z) = n
  <2>1. PICK z \in Held(n) : DecidedAt(z) = n
    BY <1>3
  <2>2. \A h : Due(s, h, n) => h = z
    <3> SUFFICES ASSUME NEW h, Due(s, h, n), h # z PROVE FALSE
      OBVIOUS
    <3>1. h \in Held(n) /\ DecidedAt(h) = n
      BY <1>1
    <3> QED
      BY <1>2, <2>1, <3>1 DEF Separate
  <2>3. Deciding(s, n, order)[Len(order)] = Decide(s, z, n)
    BY <1>2, <2>2, WalkSettles
  <2>4. /\ Right(Decide(s, z, n), OpenOrPassed(n), n, n + 1, 0)
        /\ s.reward = RewardOfChain(n - 1) =>
              Decide(s, z, n).reward = RewardOfChain(n)
    BY <2>1, RightDecided
  <2> QED
    BY <2>3, <2>4
<1>4. CASE \A z \in Held(n) : DecidedAt(z) # n
  <2> DEFINE m == Len(order)
             after == Deciding(s, n, order)
  <2>1. \A h : Decide(s, h, n) = s
    BY <1>1, <1>4, DecideFields
  <2>2. m \in Nat
    BY OrderOfHashes
  <2>3. after[0] = s /\ \A i \in 1..m : after[i] = Decide(after[i - 1], order[i], n)
    BY <2>2, DecidingWalks
  <2> HIDE DEF after
  <2> DEFINE Bad == {i \in 0..m : after[i] # s}
  <2>4. Bad = {}
    <3> SUFFICES ASSUME Bad # {} PROVE FALSE
      OBVIOUS
    <3>1. PICK i \in Bad : \A j \in Bad : i <= j
      <4>1. Bad \subseteq Nat
        BY <2>2
      <4> HIDE DEF Bad
      <4> QED
        BY <4>1, LeastExists
    <3>2. i \in 1..m /\ i - 1 \in 0..m
      BY <2>2, <2>3, <3>1
    <3>3. after[i - 1] = s
      BY <3>1, <3>2
    <3> QED
      BY <2>1, <2>3, <3>1, <3>2, <3>3
  <2>5. after[m] = s
    BY <2>2, <2>4
  <2>6. /\ Right(s, OpenOrPassed(n), n, n + 1, 0)
        /\ RewardOfChain(n) = RewardOfChain(n - 1)
    BY <1>4, RightUndecided
  <2> QED
    BY <2>5, <2>6 DEF after
<1> QED
  BY <1>3, <1>4

-----------------------------------------------------------------------------
(* apply. *)

LEMMA ReceiveKeepsShare ==
    ASSUME NEW s, IsWork(s), NEW props, NEW n
    PROVE  UpdateByProposals(s, props, n).reward = s.reward
<1>1. CASE props = <<>>
  BY <1>1 DEF UpdateByProposals
<1>2. CASE props # <<>>
  <2>1. ReceivedFrom(UpdateByProposals(s, props, n), s, props, n)
    BY <1>2, ReceiveFields
  <2> QED
    BY <2>1 DEF ReceivedFrom
<1> QED
  BY <1>1, <1>2

\* A header takes what the one before it left to what the chain says.
LEMMA AfterHeader ==
    ASSUME ChainOK, setup \in Setups, NEW n \in DOMAIN chain, NEW s, IsWork(s),
           NEW order \in Orders
    PROVE  LET R == ApplyHeader(s, n, order) IN
           /\ IsWork(R)
           /\ Separate(n) /\ Right(s, OpenOrPassed(n - 1), n - 1, n, 0) =>
                 /\ Right(R, OpenOrPassed(n), n, n + 1, 0)
                 /\ s.reward = RewardOfChain(n - 1) => R.reward = RewardOfChain(n)
<1> DEFINE m == Len(chain[n].declares)
           P == UpdateByProposals(s, chain[n].proposals, n)
           Q == Declaring(P, n)[m]
           R == Deciding(Q, n, order)[Len(order)]
<1>1. ApplyHeader(s, n, order) = R
  BY DEF ApplyHeader
<1>2. IsWork(P) /\ P.reward = s.reward
  BY WorkReceive, ReceiveKeepsShare
<1>3. ASSUME Separate(n), Right(s, OpenOrPassed(n - 1), n - 1, n, 0)
      PROVE  Right(P, Held(n), n - 1, n, 0)
  BY <1>3, RightReceive
<1> HIDE DEF P
<1>4. /\ IsWork(Q) /\ Q.reward = s.reward
      /\ Right(P, Held(n), n - 1, n, 0) => Right(Q, Held(n), n - 1, n, m)
  <2>1. /\ IsWork(Q) /\ Q.reward = P.reward
        /\ Right(P, Held(n), n - 1, n, 0) => Right(Q, Held(n), n - 1, n, m)
    BY <1>2, AfterDeclares
  <2> QED
    BY <1>2, <2>1
<1> HIDE DEF Q
<1>5. IsWork(R)
  BY <1>4, WalkWork
<1>6. ASSUME Separate(n), Right(s, OpenOrPassed(n - 1), n - 1, n, 0)
      PROVE  /\ Right(R, OpenOrPassed(n), n, n + 1, 0)
             /\ s.reward = RewardOfChain(n - 1) => R.reward = RewardOfChain(n)
  <2>1. Right(Q, Held(n), n - 1, n, m)
    BY <1>3, <1>4, <1>6
  <2>2. /\ Right(R, OpenOrPassed(n), n, n + 1, 0)
        /\ Q.reward = RewardOfChain(n - 1) => R.reward = RewardOfChain(n)
    BY <1>4, <1>6, <2>1, AfterDecisions
  <2> QED
    BY <1>4, <2>2
<1> HIDE DEF R
<1> QED
  BY <1>1, <1>5, <1>6

\* What was separate up to a block was so before.
LEMMA SeparateBefore ==
    ASSUME ChainOK, NEW n \in Nat, NEW m \in Nat, m <= n, Separate(n)
    PROVE  Separate(m)
<1>1. \A h \in Proposed : ProposedAt(h) <= m => ProposedAt(h) <= n
  <2>1. \A h \in Proposed : ProposedAt(h) \in Nat
    BY ChainFacts
  <2> QED
    BY <2>1
<1> QED
  BY <1>1 DEF Separate

\* A copy gives every hash its own cell, with what it had.
CopyOf(C, s) ==
    /\ C.cell = [h \in DOMAIN s.cell |-> h]
    /\ C.data = [h \in DOMAIN s.cell |-> At(s, h)]
    /\ C.sc = s.sc

LEMMA CopyIsRight ==
    ASSUME NEW s, Typed(s), NEW C, CopyOf(C, s)
    PROVE  /\ Typed(C)
           /\ \A S, k, m, j : Right(s, S, k, m, j) => Right(C, S, k, m, j)
<1>1. /\ DOMAIN s.data \subseteq Hash /\ s.data \in [DOMAIN s.data -> Entry]
      /\ DOMAIN s.cell \subseteq Hash /\ s.cell \in [DOMAIN s.cell -> DOMAIN s.data]
  BY DEF Typed
<1>2. \A h \in DOMAIN s.cell : At(s, h) \in Entry
  BY <1>1 DEF At
<1>3. /\ DOMAIN C.cell = DOMAIN s.cell /\ DOMAIN C.data = DOMAIN s.cell
      /\ \A h \in DOMAIN s.cell : C.cell[h] = h /\ C.data[h] = At(s, h)
      /\ C.sc = s.sc
  BY DEF CopyOf
<1>4. C.data \in [DOMAIN C.data -> Entry]
  BY <1>2 DEF CopyOf
<1>5. C.cell \in [DOMAIN C.cell -> DOMAIN C.data]
  BY DEF CopyOf
<1>6. Typed(C)
  BY <1>1, <1>3, <1>4, <1>5 DEF Typed
<1>7. ASSUME NEW S, NEW k, NEW m, NEW j, Right(s, S, k, m, j)
      PROVE  Right(C, S, k, m, j)
  <2>1. \A h \in S : C.cell[h] = h /\ C.data[h] = s.data[h]
    BY <1>3, <1>7 DEF Right, At
  <2> QED
    BY <1>3, <1>7, <2>1 DEF Right
<1> QED
  BY <1>6, <1>7

LEMMA CopyFields ==
    ASSUME NEW s, DOMAIN s = {"number", "cell", "data", "sc"}
    PROVE  /\ CopyOf(CopyProposals(s), s)
           /\ DOMAIN CopyProposals(s) = DOMAIN s
           /\ CopyProposals(s).number = s.number
<1> DEFINE C == [h \in DOMAIN s.cell |-> h]
           D == [h \in DOMAIN s.cell |-> At(s, h)]
           R == CopyProposals(s)
<1>1. R = [s EXCEPT !.cell = C, !.data = D]
  BY DEF CopyProposals
<1> HIDE DEF C, D, R
<1>2. /\ R.cell = C /\ R.data = D /\ R.sc = s.sc
      /\ DOMAIN R = DOMAIN s /\ R.number = s.number
  BY <1>1
<1>3. CopyOf(R, s)
  BY <1>2 DEF CopyOf, C, D
<1> QED
  BY <1>2, <1>3 DEF R

\* A stored snapshot is as good as the one it copies.
LEMMA CopyGood ==
    ASSUME NEW s, NEW n, GoodSnap(s, n)
    PROVE  GoodSnap(CopyProposals(s), n)
<1> DEFINE C == CopyProposals(s)
<1>1. CopyOf(C, s) /\ DOMAIN C = DOMAIN s /\ C.number = s.number
  BY CopyFields DEF GoodSnap
<1> HIDE DEF C
<1>2. /\ Typed(C)
      /\ \A S, k, m, j : Right(s, S, k, m, j) => Right(C, S, k, m, j)
  BY <1>1, CopyIsRight DEF GoodSnap
<1>3. GoodSnap(C, n)
  BY <1>1, <1>2 DEF GoodSnap
<1> QED
  BY <1>3 DEF C

\* What apply begins with.
LEMMA WorkingIsRight ==
    ASSUME NEW s, NEW n, GoodSnap(s, n), NEW r \in Nat
    PROVE  /\ IsWork(Working(s, r))
           /\ Working(s, r).reward = r
           /\ Separate(n) => Right(Working(s, r), OpenOrPassed(n), n, n + 1, 0)
<1> DEFINE C == CopyProposals(s)
           W == Working(s, r)
<1>1. CopyOf(C, s)
  BY CopyFields DEF GoodSnap
<1>2. /\ DOMAIN W = {"cell", "data", "sc", "reward"}
      /\ W.cell = C.cell /\ W.data = C.data /\ W.sc = s.sc /\ W.reward = r
  BY DEF Working
<1> HIDE DEF C, W
<1>3. CopyOf(W, s)
  BY <1>1, <1>2 DEF CopyOf
<1>4. /\ Typed(W)
      /\ \A S, k, m, j : Right(s, S, k, m, j) => Right(W, S, k, m, j)
  BY <1>3, CopyIsRight DEF GoodSnap
<1>5. IsWork(W)
  BY <1>2, <1>4 DEF IsWork
<1> QED
  BY <1>2, <1>4, <1>5 DEF GoodSnap, W

\* apply takes a good snapshot to a good one, and the share with it.
LEMMA Applied ==
    ASSUME ChainOK, setup \in Setups, NEW s, NEW a \in Nat, GoodSnap(s, a),
           NEW last \in a + 1..Len(chain), NEW r \in Nat, NEW order \in Orders
    PROVE  LET A == Apply(s, r, last, order) IN
           /\ GoodSnap(A.snap, last)
           /\ A.reward \in Nat
           /\ Separate(last) /\ r = RewardOfChain(a) => A.reward = RewardOfChain(last)
<1> DEFINE after == Replaying(s, r, last, order)
           Good(n) ==
              /\ IsWork(after[n])
              /\ Separate(n) =>
                    /\ Right(after[n], OpenOrPassed(n), n, n + 1, 0)
                    /\ r = RewardOfChain(a) => after[n].reward = RewardOfChain(n)
<1>1. s.number = a /\ last \in Nat /\ last >= a
      /\ Len(chain) \in Nat /\ DOMAIN chain = 1..Len(chain)
  BY ChainFacts DEF GoodSnap
<1>2. /\ after[a] = Working(s, r)
      /\ \A n \in a + 1..last : after[n] = ApplyHeader(after[n - 1], n, order)
  BY <1>1, ReplayingWalks
<1> HIDE DEF after
<1>3. Good(a)
  BY <1>2, WorkingIsRight
<1>4. ASSUME NEW n \in a + 1..last, Good(n - 1) PROVE Good(n)
  <2> DEFINE P == after[n - 1]
             Q == after[n]
  <2>1. Q = ApplyHeader(P, n, order) /\ n \in DOMAIN chain
    BY <1>1, <1>2
  <2>2. n \in Nat /\ n - 1 \in Nat /\ (n - 1) + 1 = n
    BY <1>1
  <2>3. /\ IsWork(P)
        /\ Separate(n - 1) =>
              /\ Right(P, OpenOrPassed(n - 1), n - 1, n, 0)
              /\ r = RewardOfChain(a) => P.reward = RewardOfChain(n - 1)
    BY <1>4, <2>2
  <2> HIDE DEF P, Q
  <2>4. /\ IsWork(Q)
        /\ Separate(n) /\ Right(P, OpenOrPassed(n - 1), n - 1, n, 0) =>
              /\ Right(Q, OpenOrPassed(n), n, n + 1, 0)
              /\ P.reward = RewardOfChain(n - 1) => Q.reward = RewardOfChain(n)
    BY <2>1, <2>3, AfterHeader
  <2>5. Separate(n) => Separate(n - 1)
    BY <2>2, SeparateBefore
  <2> QED
    BY <2>3, <2>4, <2>5 DEF Q
<1> HIDE DEF Good
<1>5. Good(last)
  <2> DEFINE Bad == {n \in a..last : ~Good(n)}
  <2> SUFFICES ASSUME Bad # {} PROVE FALSE
    BY <1>1
  <2>1. PICK n \in Bad : \A j \in Bad : n <= j
    <3>1. Bad \subseteq Nat
      BY <1>1
    <3> HIDE DEF Bad
    <3> QED
      BY <3>1, LeastExists
  <2>2. n \in a + 1..last /\ n - 1 \in a..last
    BY <1>1, <1>3, <2>1
  <2>3. Good(n - 1)
    BY <2>1, <2>2
  <2> QED
    BY <1>4, <2>1, <2>2, <2>3
<1> DEFINE D == after[last]
           A == Apply(s, r, last, order)
<1>6. /\ IsWork(D)
      /\ Separate(last) =>
            /\ Right(D, OpenOrPassed(last), last, last + 1, 0)
            /\ r = RewardOfChain(a) => D.reward = RewardOfChain(last)
  BY <1>5 DEF Good
<1>7. A = [snap |-> [number |-> last, cell |-> D.cell, data |-> D.data, sc |-> D.sc],
           reward |-> D.reward]
  BY DEF Apply, after
<1> HIDE DEF A, D
<1>8. /\ DOMAIN A.snap = {"number", "cell", "data", "sc"}
      /\ A.snap.number = last
      /\ A.snap.cell = D.cell /\ A.snap.data = D.data /\ A.snap.sc = D.sc
      /\ A.reward = D.reward
  BY <1>7
<1>9. Typed(A.snap)
  BY <1>6, <1>8 DEF IsWork, Typed
<1>10. Separate(last) => Right(A.snap, OpenOrPassed(last), last, last + 1, 0)
  BY <1>6, <1>8 DEF Right
<1>11. GoodSnap(A.snap, last)
  BY <1>8, <1>9, <1>10 DEF GoodSnap
<1>12. A.reward \in Nat
  BY <1>6, <1>8 DEF IsWork
<1> QED
  BY <1>6, <1>8, <1>11, <1>12 DEF A

-----------------------------------------------------------------------------
(* The steps. *)

\* Nothing has been proposed or decided up to the genesis block.
GenesisFacts ==
    /\ Separate(0) /\ OpenOrPassed(0) = {} /\ SideChainsOf(0) = {}
    /\ RewardOfChain(0) = DefaultReward

LEMMA Genesis == ChainOK /\ setup \in Setups => GenesisFacts
<1> SUFFICES ASSUME ChainOK, setup \in Setups PROVE GenesisFacts
  OBVIOUS
<1>1. \A h \in Proposed : ~(ProposedAt(h) <= 0) /\ ~(DecidedAt(h) <= 0)
  BY DecidedFacts
<1>2. Separate(0)
  BY <1>1 DEF Separate
<1>3. OpenOrPassed(0) = {}
  BY <1>1 DEF OpenOrPassed
<1>4. \A k : Passed(0, k) = {}
  BY <1>1 DEF Passed
<1>5. SideChainsOf(0) = {} /\ RewardOfChain(0) = DefaultReward
  BY <1>4 DEF SideChainsOf, RewardOfChain
<1> QED
  BY <1>2, <1>3, <1>5 DEF GenesisFacts

LEMMA GenesisNext == (ChainOK /\ setup \in Setups)' => GenesisFacts'
  BY Genesis, PTL

\* Snapshots and the share are about the chain and the network alone.
LEMMA ChainKept ==
    ASSUME chain' = chain, setup' = setup
    PROVE  /\ ChainOK' <=> ChainOK
           /\ \A n : Separate(n)' <=> Separate(n)
           /\ \A n : RewardOfChain(n)' = RewardOfChain(n)
           /\ \A s, n : GoodSnap(s, n)' <=> GoodSnap(s, n)
<1>1. ChainOK' <=> ChainOK
  BY DEF ChainOK, Header, PropsOf
<1>2. ASSUME NEW n PROVE Separate(n)' <=> Separate(n)
  BY DEF Separate, ProposedAt, DecidedAt, Proposed
<1>3. ASSUME NEW n PROVE RewardOfChain(n)' = RewardOfChain(n)
  BY DEF ProposedAt, DecidedAt, Proposed, RewardOfChain, Passed, Approved, KindOf,
         ValueOf, StakeOf, Tally, MapThenSumSet, MapThenFoldSet, SaysYes, FirstBy,
         Counts, Declared, DeclareAt, Before
<1>4. ASSUME NEW s, NEW n PROVE GoodSnap(s, n)' <=> GoodSnap(s, n)
  BY DEF Separate, ProposedAt, DecidedAt, Proposed, Passed, Approved, KindOf,
         ValueOf, StakeOf, Tally, MapThenSumSet, MapThenFoldSet, SaysYes, FirstBy,
         Counts, Declared, DeclareAt, Before, GoodSnap, Right, Typed, Entry,
         OpenOrPassed, Polled, Upto, SideChainsOf
<1> QED
  BY <1>1, <1>2, <1>3, <1>4

\* A bounded set of block numbers has a last one.
LEMMA LastExists ==
    ASSUME NEW b \in Nat, NEW S, S \subseteq 0..b, S # {}
    PROVE  Max(S) \in S /\ \A n \in S : n <= Max(S)
<1> DEFINE T == {b - n : n \in S}
<1>1. T \subseteq Nat /\ T # {}
  <2>1. ASSUME NEW n \in S PROVE b - n \in Nat
    <3>1. n \in 0..b
      OBVIOUS
    <3> QED
      BY <3>1
  <2> QED
    BY <2>1
<1>2. PICK t \in T : \A u \in T : t <= u
  <2> HIDE DEF T
  <2> QED
    BY <1>1, LeastExists
<1>3. PICK m \in S : t = b - m
  BY <1>2
<1>4. \A n \in S : b - m <= b - n
  BY <1>2, <1>3
<1>5. ASSUME NEW n \in S PROVE m >= n
  <2>1. n \in 0..b /\ m \in 0..b /\ b - m <= b - n
    BY <1>4
  <2> QED
    BY <2>1
<1>6. \E x \in S : \A y \in S : x >= y
  BY <1>5
<1>7. Max(S) = CHOOSE x \in S : \A y \in S : x >= y
  BY DEF Max
<1>8. Max(S) \in S /\ \A y \in S : Max(S) >= y
  BY <1>6, <1>7
<1> QED
  BY <1>8

\* store keeps a disk of good snapshots.
LEMMA StoredGood ==
    ASSUME ChainOK, DiskOK, NEW n \in 0..Len(chain), NEW s, GoodSnap(s, n)
    PROVE  /\ DOMAIN Stored(s) \subseteq 0..Len(chain) /\ 0 \in DOMAIN Stored(s)
           /\ \A m \in DOMAIN Stored(s) : GoodSnap(Stored(s)[m], m)
<1>1. s.number = n
  BY DEF GoodSnap
<1>2. /\ DOMAIN disk \subseteq 0..Len(chain) /\ 0 \in DOMAIN disk
      /\ \A m \in DOMAIN disk : GoodSnap(disk[m], m)
  BY DEF DiskOK
<1>3. CASE s.number % CheckpointInterval = 0
  <2> DEFINE C == CopyProposals(s)
  <2>1. GoodSnap(C, n)
    BY CopyGood
  <2> HIDE DEF C
  <2>2. Stored(s) = [m \in DOMAIN disk \cup {n} |-> IF m = n THEN C ELSE disk[m]]
    BY <1>1, <1>3 DEF Stored, C
  <2> QED
    BY <1>2, <2>1, <2>2
<1>4. CASE s.number % CheckpointInterval # 0
  BY <1>2, <1>4 DEF Stored
<1> QED
  BY <1>3, <1>4

LEMMA InitIInv == Init => IInv
<1> SUFFICES ASSUME Init PROVE IInv
  OBVIOUS
<1>1. ChainOK
  <2>1. <<>> \in Seq(Header) /\ Len(<<>>) = 0 /\ DOMAIN <<>> = {}
    BY EmptySeq
  <2>2. 0 <= MaxNumber
    BY ProposalsAssumption DEF ProposalsAssumption
  <2> QED
    BY <2>1, <2>2 DEF Init, ChainOK
<1>2. setup \in Setups /\ Len(chain) = 0
  BY DEF Init
<1>3. GenesisFacts
  BY <1>1, <1>2, Genesis
<1>4. GoodSnap(EmptySnap, 0)
  <2>1. /\ DOMAIN EmptySnap = {"number", "cell", "data", "sc"}
        /\ EmptySnap.number = 0 /\ DOMAIN EmptySnap.cell = {}
        /\ DOMAIN EmptySnap.data = {} /\ EmptySnap.sc = {}
    BY DEF EmptySnap
  <2>2. Typed(EmptySnap)
    BY DEF Typed, EmptySnap
  <2>3. Right(EmptySnap, OpenOrPassed(0), 0, 0 + 1, 0)
    BY <1>3, <2>1 DEF Right, GenesisFacts
  <2> QED
    BY <2>1, <2>2, <2>3 DEF GoodSnap
<1>5. snap = EmptySnap /\ snap.number = 0
  BY DEF Init, EmptySnap
<1>6. DiskOK
  BY <1>2, <1>4 DEF Init, DiskOK
<1>7. RewardOK
  BY <1>3, <1>5, ProposalsAssumption DEF Init, RewardOK, GenesisFacts, ProposalsAssumption
<1>8. once \in BOOLEAN /\ events \in 0..MaxEvents
  BY ProposalsAssumption DEF Init, ProposalsAssumption
<1>9. snap.number \in 0..Len(chain) /\ GoodSnap(snap, snap.number)
  BY <1>2, <1>4, <1>5
<1> QED
  BY <1>1, <1>2, <1>6, <1>7, <1>8, <1>9 DEF IInv

\* A chain that grows keeps what is known of the genesis block.
LEMMA AddHeaderIInv == IInv /\ AddHeader => IInv'
<1> SUFFICES ASSUME IInv, AddHeader PROVE IInv'
  OBVIOUS
<1>1. PICK k \in 0..Cardinality(Hash), m \in 0..MaxDeclares :
         \E props \in Injection(1..k, Hash \ Proposed), decls \in [1..m -> Declare] :
            chain' = Append(chain, [proposals |-> props, declares |-> decls])
  BY DEF AddHeader
<1>2. PICK props \in Injection(1..k, Hash \ Proposed), decls \in [1..m -> Declare] :
         chain' = Append(chain, [proposals |-> props, declares |-> decls])
  BY <1>1
<1> DEFINE hdr == [proposals |-> props, declares |-> decls]
<1>3. /\ snap.number = 0 /\ events = 0 /\ Len(chain) < MaxNumber
      /\ UNCHANGED <<setup, snap, disk, reward, once, events>>
  BY DEF AddHeader
<1>4. /\ setup \in Setups /\ ChainOK /\ GoodSnap(snap, 0) /\ DiskOK /\ RewardOK
      /\ once \in BOOLEAN /\ events \in 0..MaxEvents
  BY <1>3 DEF IInv
<1>5. props \in [1..k -> Hash \ Proposed]
  BY DEF Injection
<1>6. hdr \in Header
  <2>1. props \in Seq(Hash) /\ decls \in Seq(Declare)
    BY <1>5, SeqDef
  <2> QED
    BY <2>1 DEF Header
<1>7. /\ Len(chain) \in Nat /\ DOMAIN chain = 1..Len(chain) /\ chain \in Seq(Header)
      /\ MaxNumber \in Nat
  BY <1>4, ChainFacts, SetupFacts DEF ChainOK
<1> HIDE DEF hdr
<1>8. /\ chain' \in Seq(Header) /\ Len(chain') = Len(chain) + 1
      /\ DOMAIN chain' = 1..Len(chain) + 1
      /\ \A n \in 1..Len(chain) : chain'[n] = chain[n]
      /\ chain'[Len(chain) + 1] = hdr
  <2>1. chain' = Append(chain, hdr)
    BY <1>2 DEF hdr
  <2> QED
    BY <1>6, <1>7, <2>1, AppendProperties, LenProperties
<1>9. ChainOK'
  <2> DEFINE P(n) == ToSet(chain'[n].proposals)
             z == Len(chain) + 1
  <2>1. \A n \in 1..Len(chain) : P(n) = PropsOf(n) /\ P(n) \subseteq Proposed
    BY <1>7, <1>8 DEF PropsOf, Proposed
  <2>2. \A h \in P(z) : h \notin Proposed
    <3>1. P(z) = {props[i] : i \in 1..k}
      <4>1. chain'[z].proposals = props /\ DOMAIN props = 1..k
        BY <1>5, <1>8 DEF hdr
      <4> QED
        BY <4>1 DEF ToSet
    <3> HIDE DEF P
    <3> QED
      BY <1>5, <3>1
  <2>3. \A n, j \in 1..Len(chain) : \A h \in PropsOf(n) : h \in PropsOf(j) => n = j
    BY <1>4, <1>7 DEF ChainOK
  <2>4. \A n \in DOMAIN chain' : n \in 1..Len(chain) \/ n = z
    BY <1>7, <1>8
  <2> HIDE DEF P, z
  <2>5. \A n, j \in DOMAIN chain' : \A h \in P(n) : h \in P(j) => n = j
    BY <2>1, <2>2, <2>3, <2>4
  <2>6. Len(chain') <= MaxNumber
    BY <1>3, <1>7, <1>8
  <2> QED
    BY <1>8, <2>5, <2>6 DEF ChainOK, PropsOf, P, Header
<1>10. GenesisFacts /\ GenesisFacts'
  BY <1>3, <1>4, <1>9, Genesis, GenesisNext
<1>11. ASSUME NEW s, GoodSnap(s, 0) PROVE GoodSnap(s, 0)'
  <2>1. Right(s, {}, 0, 0 + 1, 0)
    BY <1>10, <1>11 DEF GoodSnap, GenesisFacts
  <2>2. DOMAIN s.cell = {} /\ s.sc = {}
    BY <1>10, <2>1 DEF Right, GenesisFacts
  <2>3. Right(s, OpenOrPassed(0), 0, 0 + 1, 0)'
    BY <1>10, <2>2 DEF Right, GenesisFacts
  <2>4. Typed(s)'
    BY <1>3, <1>11 DEF GoodSnap, Typed, Entry, ValueOf
  <2>5. DOMAIN s = {"number", "cell", "data", "sc"} /\ s.number = 0
    BY <1>11 DEF GoodSnap
  <2> QED
    BY <2>3, <2>4, <2>5 DEF GoodSnap
<1>12. snap' = snap /\ snap'.number = 0 /\ GoodSnap(snap, snap.number)'
  BY <1>3, <1>4, <1>11
<1>13. DiskOK'
  <2>1. DOMAIN disk = {0} /\ GoodSnap(disk[0], 0)
    BY <1>3, <1>4 DEF DiskOK
  <2>2. GoodSnap(disk[0], 0)'
    BY <1>3, <1>11, <2>1
  <2>3. disk' = disk /\ 0 \in 0..Len(chain')
    BY <1>3, <1>7, <1>8
  <2> QED
    BY <2>1, <2>2, <2>3 DEF DiskOK
<1>14. RewardOK'
  <2>1. reward \in Nat /\ (once => reward = DefaultReward)
    BY <1>3, <1>4, <1>10 DEF RewardOK, GenesisFacts
  <2> QED
    BY <1>3, <1>10, <1>12, <2>1 DEF RewardOK, GenesisFacts
<1>15. snap'.number \in 0..Len(chain')
  BY <1>7, <1>8, <1>12
<1> QED
  BY <1>3, <1>4, <1>9, <1>12, <1>13, <1>14, <1>15 DEF IInv

LEMMA AdvanceIInv == IInv /\ Advance => IInv'
<1> SUFFICES ASSUME IInv, Advance PROVE IInv'
  OBVIOUS
<1>1. PICK last \in (snap.number + 1)..Len(chain), order \in Orders :
         LET done == Apply(snap, reward, last, order) IN
         snap' = done.snap /\ reward' = done.reward /\ disk' = Stored(done.snap)
  BY DEF Advance
<1>2. UNCHANGED <<setup, chain, once, events>>
  BY DEF Advance
<1> DEFINE done == Apply(snap, reward, last, order)
           a == snap.number
<1>3. /\ setup \in Setups /\ ChainOK /\ a \in 0..Len(chain) /\ GoodSnap(snap, a)
      /\ DiskOK /\ RewardOK /\ once \in BOOLEAN /\ events \in 0..MaxEvents
  BY DEF IInv
<1>4. a \in Nat /\ last \in Nat /\ last >= 1 /\ last \in 0..Len(chain)
      /\ Len(chain) \in Nat /\ a <= last
  BY <1>3, ChainFacts
<1>5. /\ GoodSnap(done.snap, last) /\ done.reward \in Nat
      /\ Separate(last) /\ reward = RewardOfChain(a) =>
            done.reward = RewardOfChain(last)
  BY <1>3, <1>4, Applied DEF RewardOK
<1>6. /\ DOMAIN Stored(done.snap) \subseteq 0..Len(chain)
      /\ 0 \in DOMAIN Stored(done.snap)
      /\ \A m \in DOMAIN Stored(done.snap) : GoodSnap(Stored(done.snap)[m], m)
  <2> HIDE DEF done
  <2> QED
    BY <1>3, <1>4, <1>5, StoredGood
<1>7. snap' = done.snap /\ reward' = done.reward /\ disk' = Stored(done.snap)
  BY <1>1
<1> HIDE DEF done
<1>8. snap'.number = last
  BY <1>5, <1>7 DEF GoodSnap
<1>9. /\ ChainOK'
      /\ \A n : Separate(n)' <=> Separate(n)
      /\ \A n : RewardOfChain(n)' = RewardOfChain(n)
      /\ \A s, n : GoodSnap(s, n)' <=> GoodSnap(s, n)
  BY <1>2, <1>3, ChainKept
<1>10. GoodSnap(snap, snap.number)'
  BY <1>5, <1>7, <1>8, <1>9
<1>11. DiskOK'
  BY <1>2, <1>4, <1>6, <1>7, <1>8, <1>9 DEF DiskOK
<1>12. RewardOK'
  <2>1. ASSUME once, Separate(last) PROVE reward' = RewardOfChain(last)
    <3>1. Separate(a)
      BY <1>3, <1>4, <2>1, SeparateBefore
    <3> QED
      BY <1>3, <1>5, <1>7, <2>1, <3>1 DEF RewardOK
  <2> QED
    BY <1>2, <1>5, <1>7, <1>8, <1>9, <2>1 DEF RewardOK
<1> QED
  BY <1>2, <1>3, <1>4, <1>8, <1>9, <1>10, <1>11, <1>12 DEF IInv

LEMMA RestartIInv == IInv /\ Restart => IInv'
<1> SUFFICES ASSUME IInv, Restart PROVE IInv'
  OBVIOUS
<1> DEFINE m == Max(DOMAIN disk)
<1>1. /\ events < MaxEvents /\ snap' = disk[m] /\ reward' = DefaultReward
      /\ once' = (m = 0) /\ events' = events + 1
      /\ UNCHANGED <<setup, chain, disk>>
  BY DEF Restart
<1>2. /\ setup \in Setups /\ ChainOK /\ DiskOK /\ events \in 0..MaxEvents
  BY DEF IInv
<1>3. Len(chain) \in Nat /\ DefaultReward \in Nat /\ MaxEvents \in Nat
  BY <1>2, ChainFacts, ProposalsAssumption DEF ProposalsAssumption
<1>4. m \in DOMAIN disk
  <2>1. DOMAIN disk \subseteq 0..Len(chain) /\ DOMAIN disk # {}
    BY <1>2 DEF DiskOK
  <2> QED
    BY <1>3, <2>1, LastExists
<1> HIDE DEF m
<1>5. GoodSnap(disk[m], m) /\ m \in 0..Len(chain)
  BY <1>2, <1>4 DEF DiskOK
<1>6. snap'.number = m
  BY <1>1, <1>5 DEF GoodSnap
<1>7. /\ ChainOK'
      /\ \A n : RewardOfChain(n)' = RewardOfChain(n)
      /\ \A s, n : GoodSnap(s, n)' <=> GoodSnap(s, n)
  BY <1>1, <1>2, ChainKept
<1>8. GoodSnap(snap, snap.number)'
  BY <1>1, <1>5, <1>6, <1>7
<1>9. events' \in 0..MaxEvents /\ events' # 0
  BY <1>1, <1>2, <1>3
<1>10. DiskOK'
  BY <1>1, <1>2, <1>7, <1>9 DEF DiskOK
<1>11. RewardOK'
  <2>1. RewardOfChain(0) = DefaultReward
    BY <1>2, Genesis DEF GenesisFacts
  <2> QED
    BY <1>1, <1>3, <1>6, <1>7, <2>1 DEF RewardOK
<1>12. once' \in BOOLEAN
  BY <1>1
<1> QED
  BY <1>1, <1>2, <1>5, <1>6, <1>7, <1>8, <1>9, <1>10, <1>11, <1>12 DEF IInv

LEMMA QueryOldIInv == IInv /\ QueryOld => IInv'
<1> SUFFICES ASSUME IInv, QueryOld PROVE IInv'
  OBVIOUS
<1>1. PICK last \in 1..(snap.number - 1), order \in Orders :
         LET from == Max({n \in DOMAIN disk : n <= last})
             done == Apply(disk[from], reward, last, order)
         IN  from < last /\ reward' = done.reward /\ disk' = Stored(done.snap)
  BY DEF QueryOld
<1>2. /\ events < MaxEvents /\ once' = FALSE /\ events' = events + 1
      /\ UNCHANGED <<setup, chain, snap>>
  BY DEF QueryOld
<1> DEFINE known == {n \in DOMAIN disk : n <= last}
           from == Max(known)
           done == Apply(disk[from], reward, last, order)
<1>3. /\ setup \in Setups /\ ChainOK /\ snap.number \in 0..Len(chain)
      /\ GoodSnap(snap, snap.number)
      /\ DiskOK /\ RewardOK /\ events \in 0..MaxEvents
  BY DEF IInv
<1>4. /\ Len(chain) \in Nat /\ snap.number \in Nat /\ last \in Nat
      /\ last \in 0..Len(chain) /\ MaxEvents \in Nat
  BY <1>3, ChainFacts, ProposalsAssumption DEF ProposalsAssumption
<1>5. from \in DOMAIN disk
  <2>1. known \subseteq 0..Len(chain) /\ 0 \in known
    BY <1>3, <1>4 DEF DiskOK
  <2>2. from \in known
    <3> HIDE DEF known
    <3> QED
      BY <1>4, <2>1, LastExists
  <2> QED
    BY <2>2
<1>6. from < last /\ reward' = done.reward /\ disk' = Stored(done.snap)
  BY <1>1
<1> HIDE DEF from, known
<1>7. GoodSnap(disk[from], from) /\ from \in Nat /\ last \in from + 1..Len(chain)
  BY <1>3, <1>4, <1>5, <1>6 DEF DiskOK
<1>8. GoodSnap(done.snap, last) /\ done.reward \in Nat
  BY <1>3, <1>7, Applied DEF RewardOK
<1> HIDE DEF done
<1>9. /\ DOMAIN disk' \subseteq 0..Len(chain) /\ 0 \in DOMAIN disk'
      /\ \A m \in DOMAIN disk' : GoodSnap(disk'[m], m)
  BY <1>3, <1>4, <1>6, <1>8, StoredGood
<1>10. ChainOK' /\ \A s, n : GoodSnap(s, n)' <=> GoodSnap(s, n)
  BY <1>2, <1>3, ChainKept
<1>11. GoodSnap(snap, snap.number)'
  BY <1>2, <1>3, <1>10
<1>12. events' \in 0..MaxEvents /\ events' # 0
  BY <1>2, <1>3, <1>4
<1>13. DiskOK'
  BY <1>2, <1>9, <1>10, <1>12 DEF DiskOK
<1>14. RewardOK'
  BY <1>2, <1>6, <1>8 DEF RewardOK
<1>15. once' \in BOOLEAN
  BY <1>2
<1> QED
  BY <1>2, <1>3, <1>10, <1>11, <1>12, <1>13, <1>14, <1>15 DEF IInv

LEMMA Stutter == IInv /\ UNCHANGED vars => IInv'
<1> SUFFICES ASSUME IInv, UNCHANGED vars PROVE IInv'
  OBVIOUS
<1>1. /\ chain' = chain /\ setup' = setup /\ snap' = snap /\ disk' = disk
      /\ reward' = reward /\ once' = once /\ events' = events
  BY DEF vars
<1>2. /\ ChainOK' <=> ChainOK
      /\ \A n : Separate(n)' <=> Separate(n)
      /\ \A n : RewardOfChain(n)' = RewardOfChain(n)
      /\ \A s, n : GoodSnap(s, n)' <=> GoodSnap(s, n)
  BY <1>1, ChainKept
<1>3. DiskOK'
  BY <1>1, <1>2 DEF IInv, DiskOK
<1>4. RewardOK'
  BY <1>1, <1>2 DEF IInv, RewardOK
<1> QED
  BY <1>1, <1>2, <1>3, <1>4 DEF IInv

-----------------------------------------------------------------------------
(* The theorems. *)

\* IInv is inductive: every snapshot in memory and on disk is what the chain
\* says of its block, and so is the share in a process that applied each
\* header once (apply, copy, store, loadSnapshot).
THEOREM ProposalsInv == Spec => []IInv
<1>1. IInv /\ [Next]_vars => IInv'
  BY AddHeaderIInv, AdvanceIInv, RestartIInv, QueryOldIInv, Stutter DEF Next
<1> QED
  BY InitIInv, <1>1, PTL DEF Spec

LEMMA GoodIsSnap ==
    ASSUME IInv, NEW s, NEW n \in 0..Len(chain), GoodSnap(s, n)
    PROVE  IsSnap(s) /\ s.number = n
<1>1. s.number = n /\ Typed(s)
  BY DEF GoodSnap
<1>2. n \in 0..MaxNumber
  BY ChainFacts, SetupFacts DEF IInv
<1>3. ASSUME NEW h \in DOMAIN s.cell
      PROVE  At(s, h) \in [of : Hash, received : 1..MaxNumber,
                           declares : SUBSET [by : Declarer, decision : {"yes", "no"}]]
  <2>1. s.cell[h] \in DOMAIN s.data /\ s.data \in [DOMAIN s.data -> Entry]
    BY <1>1 DEF Typed
  <2>2. At(s, h) \in Entry
    BY <2>1 DEF At
  <2> QED
    BY <2>2 DEF Entry
<1> QED
  BY <1>1, <1>2, <1>3 DEF IsSnap, Typed

\* If proposals come and are decided one per block, a snapshot holds the open
\* and the passed proposals and the side chains of the passed ones, whatever
\* the batches, the order of the maps and the restarts
\* (updateSnapshotByProposals, updateSnapshotByDeclares,
\* calculateProposalResult, copy, store).
THEOREM SnapshotsFollowChain == Spec => []ProposalsFollowChain
<1>1. IInv => ProposalsFollowChain
  <2> SUFFICES ASSUME IInv PROVE ProposalsFollowChain
    OBVIOUS
  <2>1. snap.number \in 0..Len(chain) /\ GoodSnap(snap, snap.number)
    BY DEF IInv
  <2>2. IsSnap(snap)
    BY <2>1, GoodIsSnap
  <2>3. \A n \in DOMAIN disk : IsSnap(disk[n]) /\ disk[n].number = n
    <3>1. \A n \in DOMAIN disk : n \in 0..Len(chain) /\ GoodSnap(disk[n], n)
      BY DEF IInv, DiskOK
    <3> QED
      BY <3>1, GoodIsSnap
  <2>4. snap.number <= Len(chain)
    BY <2>1, ChainFacts DEF IInv
  <2>5. TypeOK
    BY <2>2, <2>3, <2>4 DEF IInv, TypeOK, RewardOK
  <2>6. Separate(snap.number) =>
           /\ DOMAIN snap.cell = OpenOrPassed(snap.number)
           /\ snap.sc = SideChainsOf(snap.number)
    BY <2>1 DEF GoodSnap, Right
  <2> QED
    BY <2>5, <2>6 DEF ProposalsFollowChain
<1> QED
  BY <1>1, ProposalsInv, PTL

\* On such a chain, a process that applies every header, and each once, uses
\* the share the chain has decided on (minerRewardPerThousand).
THEOREM ShareFollowsChain == Spec => []RewardFollowsChain
<1>1. IInv => RewardFollowsChain
  BY DEF IInv, RewardOK, RewardFollowsChain
<1> QED
  BY <1>1, ProposalsInv, PTL

=============================================================================
