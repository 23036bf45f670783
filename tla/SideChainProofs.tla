--------------------------- MODULE SideChainProofs ---------------------------
(***************************************************************************)
(* Proofs about SideChain: which blocks of side chains are confirmed,      *)
(* scored and paid, for every set of side chains, sealers, branches,       *)
(* offers and confirmations of any content.  The invariant Inv relates the *)
(* snapshot to all that was taken and scored so far.                       *)
(*                                                                         *)
(* At the end, proofs about HeaderTime, by which a side chain asks whose   *)
(* turn it is: for every chain, period and sequence of changes, a search   *)
(* under which no block is replaced finds the block in whose period the    *)
(* time falls, and nothing else.                                           *)
(***************************************************************************)
EXTENDS SideChain, HeaderTime, FiniteSetTheorems, WellFoundedInduction, TLAPS

-----------------------------------------------------------------------------
(* Sums.  SumOf folds over the domain of a function; what is needed of it    *)
(* follows from minimal counterexamples among the subsets of the domain.     *)

\* A nonempty set of subsets of a finite set has a minimal member.
LEMMA MinimalSet ==
    ASSUME NEW S, IsFiniteSet(S), NEW B, B \subseteq SUBSET S, B # {}
    PROVE  \E T \in B : \A U \in B : U \subseteq T => U = T
<1> DEFINE R == StrictSubsetOrdering(S)
<1>1. IsWellFoundedOn(R, SUBSET S)
  BY FS_StrictSubsetOrderingWellFounded, FS_FiniteSubsetsOfFinite
<1>2. R = {ss \in (SUBSET S) \X (SUBSET S) :
              ss[1] \subseteq ss[2] /\ ss[1] # ss[2]}
  BY DEF StrictSubsetOrdering
<1> HIDE DEF R
<1>3. PICK T \in B : \A U \in B : ~(<<U, T>> \in R)
  BY <1>1, WFMin
<1>4. \A U \in B : U \subseteq T /\ U # T => <<U, T>> \in R
  BY <1>2
<1>5. \A U \in B : U \subseteq T => U = T
  BY <1>3, <1>4, Zenon
<1> QED
  BY <1>5, Zenon

\* g gives the sum of f over each subset of S, in whatever order it is added.
Additive(g, f, S) ==
    /\ g \in [SUBSET S -> Int]
    /\ g[{}] = 0
    /\ \A T \in SUBSET S : \A x \in T : g[T] = f[x] + g[T \ {x}]

\* Every function with integer values has its sums over a finite set.
LEMMA AdditiveExists ==
    ASSUME NEW S, IsFiniteSet(S), NEW f, \A x \in S : f[x] \in Int
    PROVE  \E g : Additive(g, f, S)
<1> DEFINE Bad == {T \in SUBSET S : ~\E g : Additive(g, f, T)}
<1> SUFFICES ASSUME Bad # {} PROVE FALSE
  OBVIOUS
<1>1. PICK T \in Bad : \A U \in Bad : U \subseteq T => U = T
  <2>1. Bad \subseteq SUBSET S
    OBVIOUS
  <2> HIDE DEF Bad
  <2> QED
    BY <2>1, MinimalSet
<1>2. T # {}
  <2> SUFFICES ASSUME T = {} PROVE FALSE
    OBVIOUS
  <2> DEFINE g == [U \in SUBSET T |-> 0]
  <2>1. Additive(g, f, T)
    BY DEF Additive
  <2> HIDE DEF g
  <2> QED
    BY <2>1
<1>3. PICK x \in T : TRUE
  BY <1>2
<1>4. PICK h : Additive(h, f, T \ {x})
  BY <1>1, <1>3
<1> DEFINE g == [U \in SUBSET T |-> IF x \in U THEN f[x] + h[U \ {x}] ELSE h[U]]
<1>5. f[x] \in Int /\ \A U \in SUBSET T : x \notin U => U \in SUBSET (T \ {x})
  BY <1>1
<1>6. \A U \in SUBSET T : U \ {x} \in SUBSET (T \ {x})
  OBVIOUS
<1>7. g \in [SUBSET T -> Int]
  BY <1>4, <1>5, <1>6 DEF Additive
<1>8. g[{}] = 0
  BY <1>4 DEF Additive
<1>9. ASSUME NEW U \in SUBSET T, NEW y \in U PROVE g[U] = f[y] + g[U \ {y}]
  <2>0. U \ {y} \in SUBSET T
    OBVIOUS
  <2>1. CASE y = x
    BY <2>0, <2>1, <1>6
  <2>2. CASE y # x /\ x \notin U
    <3>1. g[U] = h[U] /\ g[U \ {y}] = h[U \ {y}]
      BY <2>0, <2>2
    <3> QED
      BY <3>1, <2>2, <1>4, <1>5 DEF Additive
  <2>3. CASE y # x /\ x \in U
    <3>1. g[U] = f[x] + h[U \ {x}] /\ g[U \ {y}] = f[x] + h[(U \ {y}) \ {x}]
      BY <2>0, <2>3
    <3>2. y \in U \ {x} /\ (U \ {x}) \ {y} = (U \ {y}) \ {x}
      BY <2>3
    <3>3. h[U \ {x}] = f[y] + h[(U \ {y}) \ {x}]
      BY <3>2, <1>4, <1>6 DEF Additive
    <3>4. f[y] \in Int /\ h[(U \ {y}) \ {x}] \in Int
      BY <1>1, <1>4, <1>6, <2>0 DEF Additive
    <3> HIDE DEF g
    <3> QED
      BY <3>1, <3>3, <3>4, <1>5
  <2> QED
    BY <2>1, <2>2, <2>3
<1>10. Additive(g, f, T)
  <2> HIDE DEF g
  <2> QED
    BY <1>7, <1>8, <1>9 DEF Additive
<1> HIDE DEF g
<1> QED
  BY <1>1, <1>10

\* h sums f over subsets of S, each time in some order.
Peels(h, f, S) ==
    /\ h[{}] = 0
    /\ \A T \in SUBSET S : T # {} => \E x \in T : h[T] = f[x] + h[T \ {x}]

\* The order does not matter: there is only one sum.
LEMMA SumUnique ==
    ASSUME NEW S, IsFiniteSet(S), NEW f, NEW g, Additive(g, f, S),
           NEW h, Peels(h, f, S)
    PROVE  \A T \in SUBSET S : h[T] = g[T]
<1> DEFINE Bad == {T \in SUBSET S : h[T] # g[T]}
<1> SUFFICES ASSUME Bad # {} PROVE FALSE
  OBVIOUS
<1>1. PICK T \in Bad : \A U \in Bad : U \subseteq T => U = T
  <2>1. Bad \subseteq SUBSET S
    OBVIOUS
  <2> HIDE DEF Bad
  <2> QED
    BY <2>1, MinimalSet
<1>2. T # {}
  BY <1>1 DEF Additive, Peels
<1>3. PICK x \in T : h[T] = f[x] + h[T \ {x}]
  BY <1>2 DEF Peels
<1>4. T \ {x} \notin Bad
  BY <1>1
<1>5. h[T \ {x}] = g[T \ {x}]
  BY <1>4
<1>6. g[T] = f[x] + g[T \ {x}]
  BY DEF Additive
<1> QED
  BY <1>3, <1>5, <1>6

\* Sums of naturals are naturals.
LEMMA SumNat ==
    ASSUME NEW S, IsFiniteSet(S), NEW f, NEW g, Additive(g, f, S),
           \A x \in S : f[x] \in Nat
    PROVE  \A T \in SUBSET S : g[T] \in Nat
<1> DEFINE Bad == {T \in SUBSET S : g[T] \notin Nat}
<1> SUFFICES ASSUME Bad # {} PROVE FALSE
  OBVIOUS
<1>1. PICK T \in Bad : \A U \in Bad : U \subseteq T => U = T
  <2>1. Bad \subseteq SUBSET S
    OBVIOUS
  <2> HIDE DEF Bad
  <2> QED
    BY <2>1, MinimalSet
<1>2. T # {}
  <2>1. g[T] \notin Nat
    BY <1>1
  <2>2. g[{}] \in Nat
    BY DEF Additive
  <2> QED
    BY <2>1, <2>2, Zenon
<1>3. PICK x \in T : TRUE
  BY <1>2
<1>4. T \ {x} \notin Bad
  BY <1>1
<1>5. g[T] = f[x] + g[T \ {x}] /\ g[T \ {x}] \in Nat
  BY <1>4 DEF Additive
<1> QED
  BY <1>5

\* An additive function restricted to fewer elements still peels.
LEMMA AdditivePeels ==
    ASSUME NEW S, NEW f, NEW g, Additive(g, f, S), NEW R \in SUBSET S
    PROVE  Peels(g, f, R)
  BY DEF Additive, Peels

\* SumOf, a fold in the order of CHOOSE, is the sum of the values.
LEMMA SumOfAdditive ==
    ASSUME NEW f, IsFiniteSet(DOMAIN f), \A x \in DOMAIN f : f[x] \in Int
    PROVE  \E g : Additive(g, f, DOMAIN f) /\ SumOf(f) = g[DOMAIN f]
<1> DEFINE S == DOMAIN f
           Rec(h) == h = [s \in SUBSET S |->
                            IF s = {} THEN 0
                            ELSE f[CHOOSE x \in s : TRUE]
                                 + h[s \ {CHOOSE x \in s : TRUE}]]
           iter == CHOOSE h : Rec(h)
<1>1. SumOf(f) = iter[S]
  BY DEF SumOf, MapThenSumSet, MapThenFoldSet
<1>2. IsFiniteSet(S) /\ \A x \in S : f[x] \in Int
  OBVIOUS
<1> HIDE DEF S
<1>3. PICK g : Additive(g, f, S)
  BY <1>2, AdditiveExists
<1>4. Rec(g)
  <2>2. ASSUME NEW s \in SUBSET S
        PROVE  g[s] = IF s = {} THEN 0
                      ELSE f[CHOOSE x \in s : TRUE]
                           + g[s \ {CHOOSE x \in s : TRUE}]
    <3>1. CASE s = {}
      BY <1>3, <3>1 DEF Additive
    <3>2. CASE s # {}
      <4> DEFINE y == CHOOSE x \in s : TRUE
      <4>1. y \in s
        BY <3>2
      <4> HIDE DEF y
      <4>2. g[s] = f[y] + g[s \ {y}]
        BY <1>3, <4>1 DEF Additive
      <4> QED
        BY <3>2, <4>2 DEF y
    <3> QED
      BY <3>1, <3>2
  <2>3. g \in [SUBSET S -> Int]
    BY <1>3 DEF Additive
  <2> QED
    BY <2>2, <2>3
<1>5. Rec(iter)
  <2> HIDE DEF Rec
  <2> QED BY <1>4
<1> HIDE DEF iter
<1>6. Peels(iter, f, S)
  <2>1. iter[{}] = 0
    BY <1>5
  <2>2. ASSUME NEW T \in SUBSET S, T # {}
        PROVE  \E x \in T : iter[T] = f[x] + iter[T \ {x}]
    <3>1. (CHOOSE x \in T : TRUE) \in T
      BY <2>2
    <3>2. iter[T] = f[CHOOSE x \in T : TRUE] + iter[T \ {CHOOSE x \in T : TRUE}]
      BY <2>2, <1>5
    <3> QED BY <3>1, <3>2
  <2> QED BY <2>1, <2>2 DEF Peels
<1>7. iter[S] = g[S]
  BY <1>2, <1>3, <1>6, SumUnique
<1> QED
  BY <1>1, <1>3, <1>7 DEF S

\* Sums of integers are integers, of naturals naturals, of nothing zero.
LEMMA SumOfType ==
    ASSUME NEW f, IsFiniteSet(DOMAIN f), \A x \in DOMAIN f : f[x] \in Int
    PROVE  /\ SumOf(f) \in Int
           /\ DOMAIN f = {} => SumOf(f) = 0
           /\ (\A x \in DOMAIN f : f[x] \in Nat) => SumOf(f) \in Nat
<1>1. PICK g : Additive(g, f, DOMAIN f) /\ SumOf(f) = g[DOMAIN f]
  BY SumOfAdditive
<1>2. SumOf(f) \in Int /\ (DOMAIN f = {} => SumOf(f) = 0)
  BY <1>1 DEF Additive
<1>3. (\A x \in DOMAIN f : f[x] \in Nat) => SumOf(f) \in Nat
  BY <1>1, SumNat
<1> QED
  BY <1>2, <1>3

\* Terms that are zero can be left out.
LEMMA SumOfZeros ==
    ASSUME NEW f, IsFiniteSet(DOMAIN f), \A x \in DOMAIN f : f[x] \in Int,
           NEW h, DOMAIN h \subseteq DOMAIN f,
           \A x \in DOMAIN h : h[x] = f[x],
           \A x \in DOMAIN f \ DOMAIN h : f[x] = 0
    PROVE  SumOf(f) = SumOf(h)
<1> DEFINE S == DOMAIN f
           R == DOMAIN h
<1>1. IsFiniteSet(R) /\ R \subseteq S /\ \A x \in R : h[x] \in Int
  BY FS_Subset
<1>2. PICK g : Additive(g, f, S) /\ SumOf(f) = g[S]
  BY SumOfAdditive
<1>3. PICK k : Additive(k, h, R) /\ SumOf(h) = k[R]
  BY <1>1, SumOfAdditive
<1>4. Additive(k, f, R)
  BY <1>1, <1>3 DEF Additive
<1>5. Peels(g, f, R)
  BY <1>1, <1>2, AdditivePeels
<1>6. g[R] = k[R]
  BY <1>1, <1>4, <1>5, SumUnique
<1>7. g[S] = g[R]
  <2> DEFINE Bad == {T \in SUBSET S : g[T] # g[T \cap R]}
  <2> HIDE DEF S, R
  <2>z. \A x \in S \ R : f[x] = 0
    BY DEF S, R
  <2> SUFFICES ASSUME Bad # {} PROVE FALSE
    <3>1. S \in SUBSET S /\ S \cap R = R
      BY <1>1
    <3> QED
      BY <3>1
  <2>0. IsFiniteSet(S)
    BY DEF S
  <2>1. PICK T \in Bad : \A U \in Bad : U \subseteq T => U = T
    <3>1. Bad \subseteq SUBSET S
      OBVIOUS
    <3> HIDE DEF Bad
    <3> QED
      BY <2>0, <3>1, MinimalSet
  <2>2. T \in SUBSET S /\ g[T] # g[T \cap R]
    BY <2>1
  <2>3. PICK x \in T : x \notin R
    BY <2>2
  <2>4. T \ {x} \notin Bad /\ T \ {x} \in SUBSET S
    BY <2>1, <2>2
  <2>5. g[T \ {x}] = g[(T \ {x}) \cap R] /\ (T \ {x}) \cap R = T \cap R
    BY <2>3, <2>4
  <2>6. g[T] = f[x] + g[T \ {x}] /\ f[x] = 0 /\ g[T \ {x}] \in Int
    BY <1>2, <2>2, <2>3, <2>4, <2>z DEF Additive
  <2>7. g[T] = g[T \ {x}]
    BY <2>6
  <2>8. g[T] = g[T \cap R]
    BY <2>5, <2>7
  <2> QED
    BY <2>2, <2>8
<1> QED
  BY <1>2, <1>3, <1>6, <1>7

\* x divided by d, with a remainder below d.
LEMMA DivRest ==
    ASSUME NEW x \in Nat, NEW d \in Nat, d > 0
    PROVE  /\ x \div d \in Nat
           /\ d * (x \div d) <= x /\ x < d * (x \div d) + d
  BY SMTT(30)

-----------------------------------------------------------------------------
(* Numbers and finite sets. *)

\* A nonempty set of naturals has a least element.
LEMMA LeastExists ==
    ASSUME NEW S, S \subseteq Nat, S # {}
    PROVE  \E i \in S : \A j \in S : i <= j
<1> DEFINE R == OpToRel(<, Nat)
<1>1. IsWellFoundedOn(R, Nat)
  BY NatLessThanWellFounded
<1>2. R = {ss \in Nat \X Nat : ss[1] < ss[2]}
  BY DEF OpToRel
<1> HIDE DEF R
<1>3. PICK x \in S : \A y \in S : ~(<<y, x>> \in R)
  BY <1>1, WFMin
<1>4. \A y \in S : y < x => <<y, x>> \in R
  BY <1>2
<1>5. \A y \in S : ~(y < x)
  BY <1>3, <1>4, Zenon
<1> QED
  BY <1>5

\* The values of a function on a finite set are finitely many.
LEMMA RangeFinite ==
    ASSUME NEW f, IsFiniteSet(DOMAIN f)
    PROVE  IsFiniteSet(Range(f))
<1> DEFINE g == [x \in DOMAIN f |-> f[x]]
<1>1. g \in Surjection(DOMAIN f, Range(f))
  BY DEF Surjection, Range
<1> HIDE DEF g
<1> QED
  BY <1>1, FS_Surjection

LEMMA PairFinite == \A x, y : IsFiniteSet({x, y})
<1> TAKE x, y
<1>1. IsFiniteSet({x}) /\ IsFiniteSet({y})
  BY FS_Singleton, Zenon
<1>2. IsFiniteSet({x} \cup {y})
  BY <1>1, FS_Union, Zenon
<1>3. {x, y} = {x} \cup {y}
  OBVIOUS
<1> QED
  BY <1>2, <1>3

\* Max is the greatest member of a finite set of integers.
LEMMA MaxIs ==
    ASSUME NEW S, IsFiniteSet(S), S # {}, \A x \in S : x \in Int
    PROVE  Max(S) \in S /\ Max(S) \in Int /\ \A y \in S : y <= Max(S)
<1>m. \A B \in SUBSET SUBSET S : B # {} => \E T \in B : \A U \in B : U \subseteq T => U = T
  BY MinimalSet
<1> DEFINE Tops(T) == \E x \in T : \A y \in T : x >= y
           Bad == {T \in SUBSET S : T # {} /\ ~Tops(T)}
<1>1. Bad = {}
  <2> SUFFICES ASSUME Bad # {} PROVE FALSE
    OBVIOUS
  <2>1. PICK T \in Bad : \A U \in Bad : U \subseteq T => U = T
    <3>1. Bad \subseteq SUBSET S
      OBVIOUS
    <3> HIDE DEF Bad
    <3> QED
      BY <1>m, <3>1
  <2>2. T \in SUBSET S /\ T # {} /\ ~Tops(T)
    BY <2>1
  <2>3. PICK x \in T : x \in Int
    BY <2>2
  <2>4. CASE T \ {x} = {}
    <3>1. \A y \in T : x >= y
      BY <2>3, <2>4
    <3> QED
      BY <2>2, <2>3, <3>1
  <2>5. CASE T \ {x} # {}
    <3>1. Tops(T \ {x})
      <4>1. T \ {x} \in SUBSET S /\ T \ {x} \subseteq T /\ T \ {x} # T
        BY <2>2, <2>3
      <4> HIDE DEF Tops
      <4> QED
        BY <2>1, <2>5, <4>1
    <3>2. PICK z \in T \ {x} : \A y \in T \ {x} : z >= y
      BY <3>1
    <3>3. z \in Int /\ \A y \in T : y = x \/ z >= y
      BY <2>2, <3>2
    <3>4. CASE z >= x
      BY <2>2, <3>3, <3>4
    <3>5. CASE ~(z >= x)
      <4>1. \A y \in T : y \in Int
        BY <2>2
      <4>2. \A y \in T : x >= y
        BY <2>3, <3>3, <3>5, <4>1
      <4> QED
        BY <2>2, <2>3, <4>2
    <3> QED
      BY <3>4, <3>5
  <2> QED
    BY <2>4, <2>5
<1>2. Tops(S)
  <2>1. S \in SUBSET S
    OBVIOUS
  <2> HIDE DEF Tops
  <2> QED
    BY <1>1, <2>1
<1>3. Max(S) \in S /\ \A y \in S : Max(S) >= y
  BY <1>2 DEF Max
<1> QED
  BY <1>3

\* Min, where the least member is known.
LEMMA MinIs ==
    ASSUME NEW S, S \subseteq Int, NEW v \in S, \A y \in S : v <= y
    PROVE  Min(S) = v
<1>1. Min(S) \in S /\ \A y \in S : Min(S) =< y
  BY DEF Min
<1>2. Min(S) =< v /\ v =< Min(S) /\ Min(S) \in Int /\ v \in Int
  BY <1>1
<1> QED
  BY <1>2

-----------------------------------------------------------------------------
(* Amounts. *)

\* Halving ends in a natural number.
LEMMA RshNat ==
    ASSUME NEW x \in Nat, NEW k \in Nat
    PROVE  Rsh(x, k) \in Nat
<1> DEFINE Rec(h) == h = [i \in 0..k |-> IF i = 0 THEN x ELSE h[i - 1] \div 2]
           halved == CHOOSE h : Rec(h)
           Steps(g, n) == /\ g \in [0..n -> Nat] /\ g[0] = x
                          /\ \A i \in 1..n : g[i] = g[i - 1] \div 2
           Bad == {n \in Nat : ~\E g : Steps(g, n)}
<1>1. Rsh(x, k) = halved[k]
  BY DEF Rsh
<1>2. Bad = {}
  <2> SUFFICES ASSUME Bad # {} PROVE FALSE
    OBVIOUS
  <2>1. PICK n \in Bad : \A m \in Bad : n <= m
    <3>1. Bad \subseteq Nat
      OBVIOUS
    <3> HIDE DEF Bad
    <3> QED
      BY <3>1, LeastExists
  <2>2. n # 0
    <3> SUFFICES ASSUME n = 0 PROVE FALSE
      OBVIOUS
    <3> DEFINE g == [i \in 0..0 |-> x]
    <3>1. Steps(g, 0)
      OBVIOUS
    <3> HIDE DEF g, Steps
    <3> QED
      BY <2>1, <3>1
  <2>3. n \in Nat /\ n - 1 \in Nat /\ ~(n <= n - 1)
    BY <2>2
  <2>4. n - 1 \notin Bad
    <3> HIDE DEF Bad
    <3> QED
      BY <2>1, <2>3
  <2>5. PICK g : Steps(g, n - 1)
    BY <2>3, <2>4
  <2> DEFINE f == [i \in 0..n |-> IF i = n THEN g[n - 1] \div 2 ELSE g[i]]
  <2>6. g[n - 1] \div 2 \in Nat
    <3>1. g[n - 1] \in Nat
      BY <2>3, <2>5
    <3> QED
      BY <3>1
  <2>7. \A i \in 0..(n - 1) : f[i] = g[i] /\ g[i] \in Nat
    BY <2>3, <2>5
  <2>8. f[n] = g[n - 1] \div 2
    BY <2>3
  <2>9. f \in [0..n -> Nat] /\ f[0] = x
    BY <2>3, <2>5, <2>6, <2>7
  <2> HIDE DEF f
  <2>10. ASSUME NEW i \in 1..n PROVE f[i] = f[i - 1] \div 2
    <3>1. CASE i = n
      BY <2>3, <2>7, <2>8, <3>1
    <3>2. CASE i # n
      BY <2>3, <2>5, <2>7, <3>2
    <3> QED
      BY <3>1, <3>2
  <2>11. Steps(f, n)
    BY <2>9, <2>10
  <2> HIDE DEF Steps
  <2> QED
    BY <2>1, <2>11
<1>3. PICK g : Steps(g, k)
  <2> HIDE DEF Steps
  <2> QED
    BY <1>2
<1>4. Rec(g)
  BY <1>3
<1>5. Rec(halved)
  <2> HIDE DEF Rec
  <2> QED
    BY <1>4
<1> HIDE DEF halved
<1>6. halved[0] = x /\ \A i \in 1..k : halved[i] = halved[i - 1] \div 2
  <2>1. \A i \in 0..k : halved[i] = IF i = 0 THEN x ELSE halved[i - 1] \div 2
    BY <1>5
  <2> QED
    BY <2>1
<1> DEFINE Wrong == {i \in 0..k : halved[i] \notin Nat}
<1>7. Wrong = {}
  <2> SUFFICES ASSUME Wrong # {} PROVE FALSE
    OBVIOUS
  <2>1. PICK i \in Wrong : \A j \in Wrong : i <= j
    <3>1. Wrong \subseteq Nat
      OBVIOUS
    <3> HIDE DEF Wrong
    <3> QED
      BY <3>1, LeastExists
  <2>2. i \in 1..k /\ i - 1 \in 0..k /\ ~(i <= i - 1)
    BY <1>6, <2>1
  <2>3. i - 1 \notin Wrong
    <3> HIDE DEF Wrong
    <3> QED
      BY <2>1, <2>2
  <2>4. halved[i - 1] \in Nat /\ halved[i] = halved[i - 1] \div 2
    BY <1>6, <2>2, <2>3
  <2>5. halved[i] \in Nat
    BY <2>4
  <2> QED
    BY <2>1, <2>5
<1> QED
  BY <1>1, <1>7

\* The reward of a block and its two parts are naturals.
LEMMA RewardParts ==
    ASSUME NEW n \in Nat
    PROVE  /\ BlockReward(n) \in Nat /\ MinerReward(n) \in Nat
           /\ BlockReward(n) - MinerReward(n) \in Nat
<1>1. n \div BlocksPerYear \in Nat
  BY RewardsAssumption, DivRest
<1>2. BlockReward(n) \in Nat
  BY <1>1, RshNat, RewardsAssumption DEF BlockReward
<1> DEFINE b == BlockReward(n)
           p == MinerRewardPerThousand
           q == b * p
<1> HIDE DEF b
<1>3. b \in Nat /\ p \in Nat /\ p <= 1000
  BY <1>2, RewardsAssumption DEF b
<1>4. q \in Nat /\ q <= 1000 * b
  <2>1. b * p <= b * 1000
    BY <1>3
  <2> QED
    BY <1>3, <2>1
<1> HIDE DEF q
<1>5. q \div 1000 \in Nat /\ 1000 * (q \div 1000) <= q
  BY <1>4, DivRest
<1>6. q \div 1000 <= b
  BY <1>3, <1>4, <1>5
<1> QED
  BY <1>2, <1>3, <1>5, <1>6 DEF MinerReward, b, q

\* RewardBase is positive.
LEMMA BaseIs ==
    ASSUME NEW f, IsFiniteSet(DOMAIN f), \A h \in DOMAIN f : f[h] \in Nat
    PROVE  RewardBase(f) \in Nat /\ RewardBase(f) > 0
<1>1. SumOf(f) \in Nat
  BY SumOfType
<1> DEFINE S == {1000, SumOf(f)}
<1>2. IsFiniteSet(S) /\ S # {} /\ \A x \in S : x \in Int /\ x \in Nat
  <2>1. IsFiniteSet(S)
    <3> DEFINE k == 1000
    <3> HIDE DEF k
    <3>1. IsFiniteSet({k, SumOf(f)})
      BY PairFinite
    <3> QED
      BY <3>1 DEF k
  <2>4. S # {} /\ \A x \in S : x \in Int /\ x \in Nat
    BY <1>1
  <2> HIDE DEF S
  <2> QED
    BY <2>1, <2>4
<1>3. Max(S) \in S /\ \A y \in S : y <= Max(S)
  <2> HIDE DEF S
  <2> QED
    BY <1>2, MaxIs
<1>4. Max(S) \in Nat /\ 1000 <= Max(S)
  BY <1>1, <1>3
<1> QED
  BY <1>4 DEF RewardBase

\* A reward is a natural number, and there is none for a score of zero.
LEMMA SingleNat ==
    ASSUME NEW score \in Nat, NEW per \in Nat, NEW base \in Nat, base > 0,
           NEW m \in Nat
    PROVE  /\ SingleReward(score, per, base, m) \in Nat
           /\ SingleReward(0, per, base, m) = 0
<1>1. score * per \in Nat /\ 0 * per = 0
  OBVIOUS
<1>2. (score * per) \div base \in Nat
  BY <1>1, DivRest
<1>3. 0 \div base = 0
  OBVIOUS
<1>4. ((score * per) \div base) * m \in Nat
  BY <1>2
<1>5. ((0 * per) \div base) * m = 0
  BY <1>1, <1>3
<1> QED
  BY <1>4, <1>5 DEF SingleReward

-----------------------------------------------------------------------------
(* What the nodes of the side chains send. *)

\* A list of blocks with their sealers.
IsInfo(i) ==
    \E k \in Nat :
        /\ DOMAIN i = 1..k /\ Len(i) = k
        /\ \A j \in 1..k : i[j][1] \in Int

LEMMA LenIs ==
    ASSUME NEW n \in Nat, NEW f, f = [j \in 1..n |-> f[j]]
    PROVE  DOMAIN f = 1..n /\ Len(f) = n
  OBVIOUS

\* getLastLoopInfo lists blocks before the header it starts from.
LEMMA LoopInfoIs ==
    ASSUME NEW h \in Hash, NEW b \in Branches[h], NEW n \in DOMAIN b,
           LastLoopInfo(b, n) # <<>>
    PROVE  IsInfo(LastLoopInfo(b, n))
<1> DEFINE walk == {m \in DOMAIN b : m < n /\ m >= n - 2 * MaxSignerCount}
           ends == {m \in walk : Place(b, m) > Place(b, m + 1)}
           loop == {m \in walk : Cardinality({e \in ends : e >= m}) = 1}
           info == LastLoopInfo(b, n)
           k == Cardinality(loop)
<1>1. info = [i \in 1..k |->
                LET m == (Max(loop) - i) + 1 IN <<m, b[m].coinbase>>]
  BY DEF LastLoopInfo
<1>2. PICK last \in Nat : DOMAIN b = 0..last
  BY SideChainAssumption
<1>3. IsFiniteSet(loop) /\ \A m \in loop : m \in Nat /\ m \in Int /\ m < n
  <2>1. IsFiniteSet(0..last)
    BY <1>2, FS_Interval
  <2>2. loop \in SUBSET (0..last)
    BY <1>2
  <2>3. \A m \in loop : m \in Nat /\ m \in Int /\ m < n
    BY <1>2
  <2> HIDE DEF loop
  <2> QED
    BY <2>1, <2>2, <2>3, FS_Subset
<1> HIDE DEF loop, info
<1>4. k \in Nat
  BY <1>3, FS_CardinalityType
<1>5. DOMAIN info = 1..k /\ Len(info) = k
  <2>1. info = [j \in 1..k |-> info[j]]
    BY <1>1
  <2> HIDE DEF k
  <2> QED
    BY <1>4, <2>1, LenIs
<1>6. k # 0
  <2> SUFFICES ASSUME k = 0 PROVE FALSE
    OBVIOUS
  <2>1. info = <<>>
    BY <1>1
  <2> QED
    BY <2>1 DEF info
<1>7. loop # {}
  BY <1>6, FS_EmptySet
<1>8. Max(loop) \in Int /\ Max(loop) < n
  <2>1. Max(loop) \in loop
    BY <1>3, <1>7, MaxIs
  <2> QED
    BY <1>3, <2>1
<1>9. \A j \in 1..k : info[j][1] = (Max(loop) - j) + 1
  BY <1>1
<1> HIDE DEF k
<1>11. IsInfo(info)
  BY <1>4, <1>5, <1>8, <1>9 DEF IsInfo
<1> QED
  BY <1>11 DEF info

\* What a confirmation says.
LEMMA SentFacts ==
    ASSUME NEW c \in Sent
    PROVE  c.hash \in Hash /\ c.number \in Nat /\ IsInfo(c.info)
<1> DEFINE Confirming == UNION {UNION {UNION {Confirms(h, b, n) : n \in DOMAIN b \ {0}}
                                     : b \in Branches[h]} : h \in Hash}
<1>0. CASE c \in Unfounded
  <2>1. /\ c.hash \in Hash /\ c.number \in Nat /\ c.info \in Seq(Nat \X Coinbase)
    BY <1>0, SideChainAssumption
  <2>2. IsInfo(c.info)
    BY <2>1 DEF IsInfo
  <2> QED
    BY <2>1, <2>2
<1> SUFFICES ASSUME c \in Confirming
             PROVE  c.hash \in Hash /\ c.number \in Nat /\ IsInfo(c.info)
  BY <1>0 DEF Sent
<1>1. PICK h \in Hash : \E b \in Branches[h] : \E n \in DOMAIN b \ {0} : c \in Confirms(h, b, n)
  OBVIOUS
<1>2. PICK b \in Branches[h] : \E n \in DOMAIN b \ {0} : c \in Confirms(h, b, n)
  BY <1>1
<1>3. PICK n \in DOMAIN b : c \in Confirms(h, b, n)
  BY <1>2
<1>4. /\ c = [hash |-> h, by |-> b[n].coinbase, number |-> n, info |-> LastLoopInfo(b, n)]
      /\ LastLoopInfo(b, n) # <<>>
  BY <1>3 DEF Confirms
<1>5. n \in Nat
  BY SideChainAssumption
<1>6. c.hash = h /\ c.number = n /\ c.info = LastLoopInfo(b, n)
  BY <1>4
<1> QED
  BY <1>4, <1>5, <1>6, LoopInfoIs

\* The confirmations are finitely many.
LEMMA SentFinite == IsFiniteSet(Sent)
<1> DEFINE ofBranch(h, b) == UNION {Confirms(h, b, n) : n \in DOMAIN b \ {0}}
           ofChain(h) == UNION {ofBranch(h, b) : b \in Branches[h]}
<1>1. ASSUME NEW h \in Hash, NEW b \in Branches[h] PROVE IsFiniteSet(ofBranch(h, b))
  <2> DEFINE f == [n \in DOMAIN b \ {0} |-> Confirms(h, b, n)]
  <2>1. PICK last \in Nat : DOMAIN b = 0..last
    BY SideChainAssumption
  <2>2. IsFiniteSet(DOMAIN f)
    <3>1. IsFiniteSet(0..last) /\ DOMAIN f \in SUBSET (0..last)
      BY <2>1, FS_Interval
    <3> HIDE DEF f
    <3> QED
      BY <3>1, FS_Subset
  <2>3. \A T \in Range(f) : IsFiniteSet(T)
    <3> SUFFICES ASSUME NEW n PROVE IsFiniteSet(Confirms(h, b, n))
      BY DEF Range
    <3>1. PICK c : Confirms(h, b, n) = {c} \/ Confirms(h, b, n) = {}
      BY DEF Confirms
    <3> QED
      BY <3>1, FS_Singleton, FS_EmptySet
  <2>4. ofBranch(h, b) = UNION Range(f)
    BY DEF Range
  <2> HIDE DEF f, ofBranch
  <2>5. IsFiniteSet(Range(f))
    BY <2>2, RangeFinite
  <2> QED
    BY <2>3, <2>4, <2>5, FS_UNION
<1> HIDE DEF ofBranch
<1>2. ASSUME NEW h \in Hash PROVE IsFiniteSet(ofChain(h))
  <2> DEFINE f == [b \in Branches[h] |-> ofBranch(h, b)]
  <2>1. IsFiniteSet(DOMAIN f)
    BY SideChainAssumption
  <2>2. \A T \in Range(f) : IsFiniteSet(T)
    BY <1>1 DEF Range
  <2>3. ofChain(h) = UNION Range(f)
    BY DEF Range
  <2> HIDE DEF f, ofChain
  <2>4. IsFiniteSet(Range(f))
    BY <2>1, RangeFinite
  <2> QED
    BY <2>2, <2>3, <2>4, FS_UNION
<1> HIDE DEF ofChain
<1> DEFINE f == [h \in Hash |-> ofChain(h)]
<1>3. IsFiniteSet(DOMAIN f)
  BY SideChainAssumption
<1>4. \A T \in Range(f) : IsFiniteSet(T)
  BY <1>2 DEF Range
<1>5. Sent = Unfounded \cup UNION Range(f)
  BY DEF Sent, Range, ofChain, ofBranch
<1> HIDE DEF f
<1>6. IsFiniteSet(Range(f))
  BY <1>3, RangeFinite
<1>7. IsFiniteSet(UNION Range(f)) /\ IsFiniteSet(Unfounded)
  BY <1>4, <1>6, FS_UNION, SideChainAssumption
<1> QED
  BY <1>5, <1>7, FS_Union

\* A block carries finitely many confirmations.
LEMMA CarriedFinite ==
    ASSUME NEW C \in Carried
    PROVE  C \subseteq Sent /\ IsFiniteSet(C)
<1>1. C \in SUBSET Sent
  BY DEF Carried, kSubset
<1> QED
  BY <1>1, SentFinite, FS_Subset

-----------------------------------------------------------------------------
(* The records of confirmations. *)

\* A snapshot has three maps.
IsSnap(s) ==
    s = [coinbase |-> s.coinbase, reward |-> s.reward,
         confirmation |-> s.confirmation]

\* A record holds confirmations of its side chain above the last confirmed
\* block.
IsRecord(r, h) ==
    /\ r \in [record : SUBSET Sent, last : Nat, max : Nat,
              count : Nat, reward : Nat]
    /\ \A c \in r.record : c.hash = h /\ c.number \in (r.last + 1)..r.max

IsConf(conf) ==
    /\ DOMAIN conf \subseteq Hash
    /\ \A h \in DOMAIN conf : IsRecord(conf[h], h)

\* A quorum is not empty.
LEMMA QuorumPositive == MinConfirmed \in Nat /\ MinConfirmed > 0
<1>1. MaxSignerCount \in Nat /\ MaxSignerCount >= 2
  BY SideChainAssumption
<1> QED
  BY <1>1 DEF MinConfirmed

\* The last block of a list is one of its blocks.
LEMMA InfoIs ==
    ASSUME NEW i, IsInfo(i), Len(i) > 0
    PROVE  /\ Last(i)[1] \in Numbers(i)
           /\ \A m \in Numbers(i) : m \in Int
<1>1. PICK k \in Nat : /\ DOMAIN i = 1..k /\ Len(i) = k
                       /\ \A j \in 1..k : i[j][1] \in Int
  BY DEF IsInfo
<1>2. Last(i) = i[k] /\ k \in DOMAIN i
  BY <1>1 DEF Last
<1> QED
  BY <1>1, <1>2 DEF Numbers

\* The loops of a record that count are the ones that a quorum listed, and the
\* confirmed block is the last one before or the last block of one of them.
LEMMA ConfirmedIs ==
    ASSUME NEW h, NEW r, IsRecord(r, h)
    PROVE  /\ ConfirmedInfos(r) = Listed(r.record, MinConfirmed)
           /\ IsFiniteSet(ConfirmedInfos(r))
           /\ \A i \in ConfirmedInfos(r) :
                 \E c \in r.record : i = c.info /\ IsInfo(i)
           /\ ConfirmedNumber(r) \in Nat /\ ConfirmedNumber(r) >= r.last
           /\ \/ ConfirmedNumber(r) = r.last
              \/ \E i \in ConfirmedInfos(r) :
                    /\ ConfirmedNumber(r) = Last(i)[1]
                    /\ ConfirmedNumber(r) \in Numbers(i)
<1> DEFINE infos == ConfirmedInfos(r)
           ends == {r.last} \cup {Last(i)[1] : i \in infos}
<1>1. /\ r.record \subseteq Sent /\ r.last \in Nat /\ r.max \in Nat
        /\ \A c \in r.record : c.hash = h /\ c.number \in (r.last + 1)..r.max
  BY DEF IsRecord
<1>2. {c \in r.record : c.number \in (r.last + 1)..r.max} = r.record
  BY <1>1
<1>3. infos = Listed(r.record, MinConfirmed)
  BY <1>2 DEF ConfirmedInfos
<1>4. infos \subseteq {c.info : c \in r.record}
  BY <1>3 DEF Listed
<1>5. \A i \in infos : \E c \in r.record : i = c.info /\ IsInfo(i)
  <2>1. TAKE i \in infos
  <2>2. PICK c \in r.record : i = c.info
    BY <1>4
  <2> QED
    BY <2>2, <1>1, SentFacts
<1>6. IsFiniteSet(infos)
  <2> DEFINE f == [c \in r.record |-> c.info]
  <2>1. IsFiniteSet(r.record)
    BY <1>1, SentFinite, FS_Subset
  <2>2. IsFiniteSet(Range(f))
    BY <2>1, RangeFinite
  <2>3. infos \subseteq Range(f)
    BY <1>4 DEF Range
  <2> QED
    BY <2>2, <2>3, FS_Subset
<1>7. \A i \in infos : Last(i)[1] \in Int /\ Last(i)[1] \in Numbers(i)
  <2>1. TAKE i \in infos
  <2>2. IsInfo(i)
    BY <1>5
  <2>3. Len(i) >= MinConfirmed /\ MinConfirmed \in Nat /\ MinConfirmed > 0
    BY <1>3, QuorumPositive DEF Listed
  <2>4. Len(i) > 0
    BY <2>2, <2>3 DEF IsInfo
  <2> QED
    BY <2>2, <2>4, InfoIs
<1>8. IsFiniteSet(ends)
  <2> DEFINE f == [i \in infos |-> Last(i)[1]]
  <2>1. IsFiniteSet(Range(f))
    BY <1>6, RangeFinite
  <2>2. Range(f) = {Last(i)[1] : i \in infos}
    BY DEF Range
  <2>3. IsFiniteSet({r.last})
    BY FS_Singleton
  <2> QED
    BY <2>1, <2>2, <2>3, FS_Union
<1>9. \A x \in ends : x \in Int
  BY <1>1, <1>7
<1>10. ConfirmedNumber(r) = Max(ends)
  BY DEF ConfirmedNumber
<1>11. Max(ends) \in ends /\ Max(ends) \in Int /\ r.last <= Max(ends)
  <2>1. ends # {} /\ r.last \in ends
    OBVIOUS
  <2> HIDE DEF ends
  <2> QED
    BY <2>1, <1>8, <1>9, MaxIs
<1>12. ConfirmedNumber(r) \in Nat /\ ConfirmedNumber(r) >= r.last
  BY <1>1, <1>10, <1>11
<1> QED
  BY <1>3, <1>5, <1>6, <1>7, <1>10, <1>11, <1>12

\* Closing a record drops what is not above the confirmed block.
LEMMA ClosedIs ==
    ASSUME NEW h, NEW r, IsRecord(r, h)
    PROVE  /\ IsRecord(Closed(r), h)
           /\ Closed(r).last = ConfirmedNumber(r)
           /\ Closed(r).record = {c \in r.record : c.number > ConfirmedNumber(r)}
           /\ Closed(r).count = r.count /\ Closed(r).reward = r.reward
<1> DEFINE cn == ConfirmedNumber(r)
           keep == {c \in r.record : c.number \notin (r.last + 1)..cn}
<1>1. /\ r \in [record : SUBSET Sent, last : Nat, max : Nat,
                count : Nat, reward : Nat]
        /\ \A c \in r.record : c.hash = h /\ c.number \in (r.last + 1)..r.max
  BY DEF IsRecord
<1>2. cn \in Nat /\ cn >= r.last
  BY ConfirmedIs
<1>3. keep = {c \in r.record : c.number > cn}
  BY <1>1, <1>2
<1>4. Closed(r) = [record |-> keep, last |-> cn, max |-> r.max,
                   count |-> r.count, reward |-> r.reward]
  <2>1. Closed(r) = [r EXCEPT !.record = keep, !.last = cn]
    BY DEF Closed
  <2> HIDE DEF keep, cn
  <2> QED
    BY <1>1, <2>1
<1>6. \A c \in keep : c.hash = h /\ c.number \in (cn + 1)..r.max
  BY <1>1, <1>2, <1>3
<1> HIDE DEF cn, keep
<1>7. keep \subseteq Sent
  BY <1>1 DEF keep
<1>8. IsRecord(Closed(r), h)
  BY <1>1, <1>2, <1>4, <1>6, <1>7 DEF IsRecord
<1> QED
  BY <1>3, <1>4, <1>8 DEF cn

\* A setting changes coinbases only.
LEMMA SetIs ==
    ASSUME NEW s, IsSnap(s), NEW e
    PROVE  /\ IsSnap(SetSCCoinbase(s, e))
           /\ SetSCCoinbase(s, e).confirmation = s.confirmation
           /\ SetSCCoinbase(s, e).reward = s.reward
<1>1. CASE e.kind = "set"
  <2> DEFINE m == Put(s.coinbase, <<e.signer, e.hash>>, e.coinbase)
  <2>1. SetSCCoinbase(s, e) = [s EXCEPT !.coinbase = m]
    BY <1>1 DEF SetSCCoinbase
  <2> HIDE DEF m
  <2>2. SetSCCoinbase(s, e) = [coinbase |-> m, reward |-> s.reward,
                               confirmation |-> s.confirmation]
    BY <2>1 DEF IsSnap
  <2> QED
    BY <2>2 DEF IsSnap
<1>2. CASE e.kind # "set"
  BY <1>2 DEF SetSCCoinbase
<1> QED
  BY <1>1, <1>2

\* Confirmations that count are added to the record of their side chain.
LEMMA AddIs ==
    ASSUME NEW s, IsSnap(s), IsConf(s.confirmation),
           NEW C, C \subseteq Sent, IsFiniteSet(C)
    PROVE  LET t == AddConfirms(s, C) IN
           /\ IsSnap(t) /\ t.coinbase = s.coinbase /\ t.reward = s.reward
           /\ DOMAIN t.confirmation = DOMAIN s.confirmation
           /\ IsConf(t.confirmation)
           /\ \A h \in DOMAIN s.confirmation :
                 /\ t.confirmation[h].last = s.confirmation[h].last
                 /\ t.confirmation[h].record = s.confirmation[h].record
                       \cup {c \in C : c.hash = h /\ Accepts(s, c)}
<1> DEFINE conf == s.confirmation
           new(h) == {c \in C : c.hash = h /\ Accepts(s, c)}
           upper(h) == Max({conf[h].max} \cup {c.number : c \in new(h)})
           both(h) == conf[h].record \cup new(h)
           added == [h \in DOMAIN conf |->
                       Recorded(conf[h], new(h))]
           t == AddConfirms(s, C)
<1>1. t = [s EXCEPT !.confirmation = added]
  BY DEF AddConfirms
<1>2. \A h \in DOMAIN conf :
        /\ added[h] = [record |-> both(h), last |-> conf[h].last,
                       max |-> upper(h), count |-> conf[h].count,
                       reward |-> conf[h].reward]
        /\ IsRecord(added[h], h)
  <2> TAKE h \in DOMAIN conf
  <2> DEFINE nums == {conf[h].max} \cup {c.number : c \in new(h)}
             r == conf[h]
  <2>1. /\ r \in [record : SUBSET Sent, last : Nat, max : Nat,
                  count : Nat, reward : Nat]
            /\ \A c \in r.record : c.hash = h /\ c.number \in (r.last + 1)..r.max
    BY DEF IsConf, IsRecord
  <2>2. new(h) \subseteq Sent
    OBVIOUS
  <2>3. \A c \in new(h) : c.number \in Nat /\ c.number > r.last /\ c.hash = h
    BY <2>2, SentFacts DEF Accepts
  <2>4. IsFiniteSet(nums)
    <3> DEFINE f == [c \in new(h) |-> c.number]
    <3>1. IsFiniteSet(new(h))
      BY FS_Subset
    <3>2. IsFiniteSet(Range(f))
      BY <3>1, RangeFinite
    <3>3. Range(f) = {c.number : c \in new(h)}
      BY DEF Range
    <3>4. IsFiniteSet({r.max})
      BY FS_Singleton
    <3> QED
      BY <3>2, <3>3, <3>4, FS_Union
  <2>5. \A x \in nums : x \in Nat
    BY <2>1, <2>3
  <2>6. r.max \in nums /\ \A c \in new(h) : c.number \in nums
    OBVIOUS
  <2>7. upper(h) \in nums /\ \A x \in nums : x <= upper(h)
    <3>1. upper(h) = Max(nums)
      OBVIOUS
    <3> HIDE DEF nums, upper
    <3>2. nums # {} /\ \A x \in nums : x \in Int
      BY <2>5, <2>6
    <3> QED
      BY <3>1, <3>2, <2>4, MaxIs
  <2>8. upper(h) \in Nat /\ r.max <= upper(h)
        /\ \A c \in new(h) : c.number <= upper(h)
    BY <2>5, <2>6, <2>7
  <2>9. added[h] = [record |-> both(h), last |-> r.last, max |-> upper(h),
                    count |-> r.count, reward |-> r.reward]
    <3>1. added[h] = [r EXCEPT !.record = both(h), !.max = upper(h)]
      BY DEF Recorded
    <3> HIDE DEF both, upper, r, added
    <3> QED
      BY <2>1, <3>1
  <2> HIDE DEF upper, added, r
  <2>10. both(h) \subseteq Sent
    BY <2>1, <2>2 DEF r
  <2>11. \A c \in both(h) : c.hash = h /\ c.number \in (r.last + 1)..upper(h)
    <3>1. \A c \in new(h) : c.hash = h /\ c.number \in (r.last + 1)..upper(h)
      BY <2>1, <2>3, <2>8
    <3>2. \A c \in r.record : c.hash = h /\ c.number \in (r.last + 1)..upper(h)
      BY <2>1, <2>8
    <3> QED
      BY <3>1, <3>2 DEF r
  <2> HIDE DEF both
  <2>12. IsRecord(added[h], h)
    BY <2>1, <2>8, <2>9, <2>10, <2>11 DEF IsRecord
  <2> QED
    BY <2>9, <2>12 DEF r
<1>3. DOMAIN added = DOMAIN conf
  OBVIOUS
<1> HIDE DEF added, upper, both
<1>4. t = [coinbase |-> s.coinbase, reward |-> s.reward, confirmation |-> added]
  BY <1>1 DEF IsSnap
<1>5. IsSnap(t) /\ t.coinbase = s.coinbase /\ t.reward = s.reward
      /\ t.confirmation = added
  BY <1>4 DEF IsSnap
<1>6. IsConf(added)
  BY <1>2, <1>3 DEF IsConf
<1>7. \A h \in DOMAIN conf :
        /\ added[h].last = conf[h].last
        /\ added[h].record = both(h)
  <2> TAKE h \in DOMAIN conf
  <2>1. added[h] = [record |-> both(h), last |-> conf[h].last,
                    max |-> upper(h), count |-> conf[h].count,
                    reward |-> conf[h].reward]
    BY <1>2, Zenon
  <2> QED
    BY <2>1
<1> QED
  BY <1>3, <1>5, <1>6, <1>7 DEF both

-----------------------------------------------------------------------------
(* Scores. *)

\* The share of a block is never negative, whatever its place.
LEMMA ShareNat ==
    ASSUME NEW place, NEW count \in Nat
    PROVE  CurrentBlockReward(place, count) \in Nat
<1> DEFINE period == Min({count, 6})
           table == SCCurrentBlockReward
<1>1. period \in 0..6
  <2>1. CASE count <= 6
    <3>1. period = count
      BY <2>1, MinIs
    <3> QED
      BY <2>1, <3>1
  <2>2. CASE count > 6
    <3>1. period = 6
      BY <2>2, MinIs
    <3> QED
      BY <3>1
  <2> QED
    BY <2>1, <2>2
<1>2. \A p \in 1..6 : \A q \in DOMAIN table[p] : table[p][q] \in Nat
  <2> TAKE p \in 1..6
  <2>1. CASE p = 1
    BY <2>1 DEF SCCurrentBlockReward
  <2>2. CASE p = 2
    BY <2>2 DEF SCCurrentBlockReward
  <2>3. CASE p = 3
    BY <2>3 DEF SCCurrentBlockReward
  <2>4. CASE p = 4
    BY <2>4 DEF SCCurrentBlockReward
  <2>5. CASE p = 5
    BY <2>5 DEF SCCurrentBlockReward
  <2>6. CASE p = 6
    BY <2>6 DEF SCCurrentBlockReward
  <2> QED
    BY <2>1, <2>2, <2>3, <2>4, <2>5, <2>6
<1>3. CurrentBlockReward(place, count) =
        IF period = 0 THEN 0
        ELSE IF place \notin DOMAIN table[period] THEN 0
        ELSE table[period][place]
  BY DEF CurrentBlockReward
<1> HIDE DEF period, table
<1> QED
  BY <1>1, <1>2, <1>3

\* Scores are natural numbers.
LEMMA ScoresNat ==
    ASSUME NEW who, IsFiniteSet(DOMAIN who), NEW count \in Nat
    PROVE  \A a \in DOMAIN Scores(who, count) : Scores(who, count)[a] \in Nat
<1> DEFINE blocks(a) == {m \in DOMAIN who : who[m] = a}
           shares(a) == [n \in blocks(a) |->
                           CurrentBlockReward(InRow(who, n), count)]
<1>1. Scores(who, count) = [a \in Range(who) |-> SumOf(shares(a))]
  BY DEF Scores
<1>2. \A a : SumOf(shares(a)) \in Nat
  <2> TAKE a
  <2>1. IsFiniteSet(blocks(a)) /\ DOMAIN shares(a) = blocks(a)
    BY FS_Subset
  <2>2. \A n \in DOMAIN shares(a) : shares(a)[n] \in Nat
    BY ShareNat
  <2> HIDE DEF shares, blocks
  <2>3. \A n \in DOMAIN shares(a) : shares(a)[n] \in Int
    BY <2>2
  <2> QED
    BY <2>1, <2>2, <2>3, SumOfType
<1> HIDE DEF shares
<1> QED
  BY <1>1, <1>2

\* Every order walks all the loops.
LEMMA OrderAll ==
    ASSUME NEW S, IsFiniteSet(S), NEW order \in SetToSeqs(S)
    PROVE  \A x \in S : \E k \in DOMAIN order : order[k] = x
<1> DEFINE c == Cardinality(S)
           D == 1..c
<1>1. c \in Nat
  BY FS_CardinalityType
<1>2. order \in [D -> S] /\ \A i, j \in D : i # j => order[i] # order[j]
  BY DEF SetToSeqs
<1>3. order \in Injection(D, S)
  BY <1>2, Zenon DEF Injection, IsInjective
<1>4. Cardinality(D) = c
  BY <1>1, FS_Interval
<1> HIDE DEF D
<1>5. order \in Surjection(D, S)
  BY <1>3, <1>4, FS_Injection
<1> QED
  BY <1>5, <1>2, Zenon DEF Surjection

\* The blocks that are scored are the passed ones that a quorum listed, in
\* whatever order the loops are walked.
LEMMA WhoIs ==
    ASSUME NEW h, NEW r, IsRecord(r, h), NEW order,
           \A i \in ConfirmedInfos(r) : \E k \in DOMAIN order : order[k] = i
    PROVE  LET who == ConfirmedCoinbase(r, order) IN
           /\ DOMAIN who = ((r.last + 1)..ConfirmedNumber(r)) \cap
                 UNION {Numbers(i) : i \in Listed(r.record, MinConfirmed)}
           /\ IsFiniteSet(DOMAIN who)
           /\ who # <<>> <=> ConfirmedNumber(r) > r.last
<1> DEFINE infos == ConfirmedInfos(r)
           cn == ConfirmedNumber(r)
           lists(n) == {k \in DOMAIN order :
                          order[k] \in infos /\ n \in Numbers(order[k])}
           D == {m \in (r.last + 1)..cn : lists(m) # {}}
           who == ConfirmedCoinbase(r, order)
<1>1. who = [n \in D |-> SealerIn(order[Max(lists(n))], n)]
  BY DEF ConfirmedCoinbase
<1>2. infos = Listed(r.record, MinConfirmed)
  BY ConfirmedIs
<1>3. \A m : lists(m) # {} <=> m \in UNION {Numbers(i) : i \in infos}
  <2> TAKE m
  <2>1. ASSUME NEW i \in infos, m \in Numbers(i) PROVE lists(m) # {}
    BY <2>1
  <2> QED
    BY <2>1
<1>4. D = ((r.last + 1)..cn) \cap UNION {Numbers(i) : i \in infos}
  BY <1>3
<1>5. r.last \in Nat /\ cn \in Nat /\ cn >= r.last /\ r.max \in Nat
  BY ConfirmedIs DEF IsRecord
<1>6. cn \in Int
  BY <1>5
<1> HIDE DEF infos, cn
<1>7. DOMAIN who = D
  BY <1>1
<1>8. IsFiniteSet(D)
  <2>1. r.last + 1 \in Int
    BY <1>5
  <2>2. IsFiniteSet((r.last + 1)..cn)
    BY <2>1, <1>6, FS_Interval
  <2> QED
    BY <1>4, <2>2, FS_Subset
<1>9. ASSUME cn > r.last PROVE who # <<>>
  <2>1. PICK i \in infos : cn \in Numbers(i)
    BY <1>9, <1>5, ConfirmedIs DEF infos, cn
  <2>2. cn \in D
    BY <2>1, <1>4, <1>5, <1>6, <1>9
  <2> HIDE DEF D, who
  <2> QED
    BY <2>2, <1>7
<1>10. ASSUME ~(cn > r.last) PROVE who = <<>>
  <2>1. (r.last + 1)..cn = {}
    BY <1>5, <1>6, <1>10
  <2>2. D = {}
    BY <2>1, <1>4
  <2> HIDE DEF D, lists
  <2> QED
    BY <2>2, <1>1
<1> HIDE DEF D, who
<1> QED
  BY <1>2, <1>4, <1>7, <1>8, <1>9, <1>10 DEF infos, cn, who

-----------------------------------------------------------------------------
(* Numbers of unsigned width. *)

LEMMA UnsignedIs ==
    ASSUME NEW x \in Int, -Word < x, x < Word
    PROVE  Unsigned(x) = IF x >= 0 THEN x ELSE x + Word
<1>1. Word \in Nat /\ Word > 0
  BY SideChainAssumption DEF ExpiredLoops
<1>2. CASE x >= 0
  <2>1. x % Word = x
    BY <1>1, <1>2, SMTT(30)
  <2> QED
    BY <1>2, <2>1 DEF Unsigned
<1>3. CASE x < 0
  <2>1. x % Word = x + Word
    BY <1>1, <1>3, SMTT(30)
  <2> QED
    BY <1>3, <2>1 DEF Unsigned
<1> QED
  BY <1>2, <1>3

\* Records older than six loops go, and so does every record before the end of
\* the sixth loop.
LEMMA ExpiredIs ==
    ASSUME NEW e \in Nat, NEW n \in Nat, e <= n, n < Word
    PROVE  Expired(e, n) <=> \/ n < ExpiredLoops * MaxSignerCount
                             \/ e < n - ExpiredLoops * MaxSignerCount
<1> DEFINE six == ExpiredLoops * MaxSignerCount
<1>1. Word \in Nat /\ six \in Nat /\ Word > six
  BY SideChainAssumption DEF ExpiredLoops
<1> HIDE DEF six
<1>2. n - six \in Int /\ -Word < n - six /\ n - six < Word
  BY <1>1
<1>3. Unsigned(n - six) = IF n - six >= 0 THEN n - six ELSE (n - six) + Word
  BY <1>2, UnsignedIs
<1>4. Expired(e, n) <=> e < Unsigned(n - six)
  BY DEF Expired, six
<1>5. Expired(e, n) <=> (n < six \/ e < n - six)
  BY <1>1, <1>3, <1>4
<1> QED
  BY <1>5 DEF six

-----------------------------------------------------------------------------
(* What a header does to the snapshot. *)

\* There is a row of scores for side chain h and the end x of a loop.
Row(rew, h, x) == h \in DOMAIN rew /\ x \in DOMAIN rew[h]

\* Blocks of side chain h are newly confirmed.
Fresh(conf, h) ==
    h \in DOMAIN conf /\ ConfirmedNumber(conf[h]) > conf[h].last

\* The rewards t of a snapshot after the end of loop n, from the rewards s
\* before it: new scores come in, and expired ones go.
Turned(t, s, conf, n, order) ==
    /\ \A h \in Hash : \A x :
          Row(t, h, x) <=> /\ ~Expired(x, n)
                           /\ Row(s, h, x) \/ (Fresh(conf, h) /\ x = n)
    /\ \A h \in Hash : \A x :
          Row(t, h, x) =>
             t[h][x] = IF Fresh(conf, h) /\ x = n
                       THEN Scores(ConfirmedCoinbase(conf[h], order), conf[h].count)
                       ELSE s[h][x]

\* No map of rewards has an empty entry.
NoEmpty(rew) == DOMAIN rew \subseteq Hash /\ \A h \in DOMAIN rew : rew[h] # <<>>

LEMMA UpdateIs ==
    ASSUME NEW s, IsSnap(s), IsConf(s.confirmation), NEW n, NEW order
    PROVE  LET t == UpdateSCConfirmation(s, n, order)
               conf == s.confirmation IN
           /\ IsSnap(t) /\ t.coinbase = s.coinbase
           /\ t.confirmation = [h \in DOMAIN conf |-> Closed(conf[h])]
           /\ NoEmpty(t.reward)
           /\ Turned(t.reward, s.reward, conf, n, order)
<1> DEFINE conf == s.confirmation
           old(h) == IF h \in DOMAIN s.reward THEN s.reward[h] ELSE <<>>
           fresh(h) == Scores(ConfirmedCoinbase(conf[h], order), conf[h].count)
           rows(h) ==
             IF h \in DOMAIN conf /\ ConfirmedNumber(conf[h]) > conf[h].last
             THEN Put(old(h), n, fresh(h)) ELSE old(h)
           all == [h \in Hash |->
                     Restrict(rows(h), {e \in DOMAIN rows(h) : ~Expired(e, n)})]
           rew == [h \in {g \in Hash : all[g] # <<>>} |-> all[h]]
           shut == [h \in DOMAIN conf |-> Closed(conf[h])]
           t == UpdateSCConfirmation(s, n, order)
<1>1. t = [s EXCEPT !.confirmation = shut, !.reward = rew]
  BY DEF UpdateSCConfirmation
<1>2. \A h \in Hash : \A x :
        /\ x \in DOMAIN all[h] <=> /\ ~Expired(x, n)
                                   /\ Row(s.reward, h, x)
                                      \/ (Fresh(conf, h) /\ x = n)
        /\ x \in DOMAIN all[h] =>
              all[h][x] = IF Fresh(conf, h) /\ x = n
                          THEN fresh(h) ELSE s.reward[h][x]
  <2> TAKE h \in Hash
  <2> TAKE x
  <2>1. all[h] = [e \in {y \in DOMAIN rows(h) : ~Expired(y, n)} |-> rows(h)[e]]
    BY DEF Restrict
  <2> HIDE DEF all, fresh
  <2>2. x \in DOMAIN old(h) <=> Row(s.reward, h, x)
    BY DEF Row
  <2>3. x \in DOMAIN old(h) => old(h)[x] = s.reward[h][x]
    OBVIOUS
  <2>4. CASE Fresh(conf, h)
    <3>1. rows(h) = Put(old(h), n, fresh(h))
      BY <2>4 DEF Fresh
    <3> HIDE DEF old, rows
    <3>2. /\ DOMAIN rows(h) = DOMAIN old(h) \cup {n}
          /\ x \in DOMAIN rows(h) =>
                rows(h)[x] = IF x = n THEN fresh(h) ELSE old(h)[x]
      BY <3>1 DEF Put
    <3> QED
      BY <2>1, <2>2, <2>3, <2>4, <3>2
  <2>5. CASE ~Fresh(conf, h)
    <3>1. rows(h) = old(h)
      BY <2>5 DEF Fresh
    <3> HIDE DEF old, rows
    <3> QED
      BY <2>1, <2>2, <2>3, <2>5, <3>1
  <2> QED
    BY <2>4, <2>5
<1> HIDE DEF all, fresh, old, rows
<1>3. \A h \in Hash : \A x : Row(rew, h, x) <=> x \in DOMAIN all[h]
  <2> TAKE h \in Hash
  <2>1. CASE all[h] = <<>>
    BY <2>1 DEF Row
  <2>2. CASE all[h] # <<>>
    BY <2>2 DEF Row
  <2> QED
    BY <2>1, <2>2
<1>4. \A h \in DOMAIN rew : rew[h] = all[h]
  OBVIOUS
<1>5. NoEmpty(rew)
  BY DEF NoEmpty
<1> HIDE DEF rew, shut
<1>6. Turned(rew, s.reward, conf, n, order)
  <2>1. \A h \in Hash : \A x :
          Row(rew, h, x) <=> /\ ~Expired(x, n)
                             /\ Row(s.reward, h, x) \/ (Fresh(conf, h) /\ x = n)
    BY <1>2, <1>3
  <2>2. \A h \in Hash : \A x :
          Row(rew, h, x) => rew[h][x] = IF Fresh(conf, h) /\ x = n
                                        THEN fresh(h) ELSE s.reward[h][x]
    <3> SUFFICES ASSUME NEW h \in Hash, NEW x, Row(rew, h, x)
                 PROVE  rew[h][x] = IF Fresh(conf, h) /\ x = n
                                    THEN fresh(h) ELSE s.reward[h][x]
      OBVIOUS
    <3>1. rew[h] = all[h] /\ x \in DOMAIN all[h]
      BY <1>3, <1>4 DEF Row
    <3> QED
      BY <3>1, <1>2
  <2> QED
    BY <2>1, <2>2 DEF Turned, fresh
<1>7. t = [coinbase |-> s.coinbase, reward |-> rew, confirmation |-> shut]
  BY <1>1 DEF IsSnap
<1>8. IsSnap(t) /\ t.coinbase = s.coinbase /\ t.reward = rew
      /\ t.confirmation = shut
  BY <1>7 DEF IsSnap
<1> QED
  BY <1>5, <1>6, <1>8 DEF shut

\* A proposal adds or removes one side chain and leaves the others.
LEMMA ProposalIs ==
    ASSUME NEW s, IsSnap(s), IsConf(s.confirmation), NEW e,
           e.kind = "add" => e.hash \in Hash /\ e.offer \in Offers
    PROVE  LET t == ByProposal(s, e) IN
           /\ IsSnap(t) /\ t.coinbase = s.coinbase /\ t.reward = s.reward
           /\ IsConf(t.confirmation)
           /\ \A h \in DOMAIN s.confirmation \cap DOMAIN t.confirmation :
                 t.confirmation[h] = s.confirmation[h]
           /\ \A h \in DOMAIN t.confirmation \ DOMAIN s.confirmation :
                 t.confirmation[h].record = {} /\ t.confirmation[h].last = 0
<1> DEFINE conf == s.confirmation
           t == ByProposal(s, e)
<1>1. CASE e.kind = "add" /\ e.hash \notin DOMAIN conf
  <2> DEFINE new == NewRecord(e.offer)
             with == Put(conf, e.hash, new)
  <2>1. t = [s EXCEPT !.confirmation = with]
    BY <1>1 DEF ByProposal
  <2>2. /\ DOMAIN with = DOMAIN conf \cup {e.hash}
        /\ with[e.hash] = new
        /\ \A h \in DOMAIN conf : with[h] = conf[h]
    BY <1>1 DEF Put
  <2>3. new = [record |-> {}, last |-> 0, max |-> 0,
               count |-> e.offer.count, reward |-> e.offer.reward]
    BY DEF NewRecord
  <2>4. e.offer.count \in Nat /\ e.offer.reward \in Nat
    BY <1>1, SideChainAssumption
  <2> HIDE DEF new, with
  <2>5. IsRecord(new, e.hash) /\ new.record = {} /\ new.last = 0
    BY <2>3, <2>4 DEF IsRecord
  <2>6. IsConf(with)
    BY <1>1, <2>2, <2>5 DEF IsConf
  <2>7. t = [coinbase |-> s.coinbase, reward |-> s.reward,
             confirmation |-> with]
    BY <2>1 DEF IsSnap
  <2>8. IsSnap(t) /\ t.coinbase = s.coinbase /\ t.reward = s.reward
        /\ t.confirmation = with
    BY <2>7 DEF IsSnap
  <2> QED
    BY <2>2, <2>5, <2>6, <2>8
<1>2. CASE e.kind = "remove"
  <2> DEFINE rest == Restrict(conf, DOMAIN conf \ {e.hash})
  <2>1. t = [s EXCEPT !.confirmation = rest]
    BY <1>2 DEF ByProposal
  <2>2. DOMAIN rest \subseteq DOMAIN conf /\ \A h \in DOMAIN rest : rest[h] = conf[h]
    BY DEF Restrict
  <2> HIDE DEF rest
  <2>3. IsConf(rest)
    BY <2>2 DEF IsConf
  <2>4. t = [coinbase |-> s.coinbase, reward |-> s.reward,
             confirmation |-> rest]
    BY <2>1 DEF IsSnap
  <2>5. IsSnap(t) /\ t.coinbase = s.coinbase /\ t.reward = s.reward
        /\ t.confirmation = rest
    BY <2>4 DEF IsSnap
  <2> QED
    BY <2>2, <2>3, <2>5
<1>3. CASE ~(e.kind = "add" /\ e.hash \notin DOMAIN conf) /\ e.kind # "remove"
  <2>1. t = s
    BY <1>3 DEF ByProposal
  <2> QED
    BY <2>1
<1> QED
  BY <1>1, <1>2, <1>3

\* A signer that leaves changes coinbases only.
LEMMA ExpiryIs ==
    ASSUME NEW s, IsSnap(s), NEW e
    PROVE  LET t == ByExpiry(s, e) IN
           /\ IsSnap(t) /\ t.reward = s.reward
           /\ t.confirmation = s.confirmation
           /\ DOMAIN t.coinbase \subseteq DOMAIN s.coinbase
           /\ \A p \in DOMAIN t.coinbase : t.coinbase[p] = s.coinbase[p]
<1> DEFINE t == ByExpiry(s, e)
<1>1. CASE e.kind = "gone"
  <2> DEFINE rest == Restrict(s.coinbase,
                              {p \in DOMAIN s.coinbase : p[1] # e.signer})
  <2>1. t = [s EXCEPT !.coinbase = rest]
    BY <1>1 DEF ByExpiry
  <2>2. /\ DOMAIN rest \subseteq DOMAIN s.coinbase
        /\ \A p \in DOMAIN rest : rest[p] = s.coinbase[p]
    BY DEF Restrict
  <2> HIDE DEF rest
  <2>3. t = [coinbase |-> rest, reward |-> s.reward,
             confirmation |-> s.confirmation]
    BY <2>1 DEF IsSnap
  <2> QED
    BY <2>2, <2>3 DEF IsSnap
<1>2. CASE e.kind # "gone"
  BY <1>2 DEF ByExpiry
<1> QED
  BY <1>1, <1>2

\* Coinbases are set by signers of the main chain for known side chains.
IsCoinbases(m) ==
    DOMAIN m \subseteq Signer \X Hash /\ \A p \in DOMAIN m : m[p] \in Coinbase

\* What the proofs use of the events of a block.
IsEvent(e) ==
    /\ e.kind = "add" => e.hash \in Hash /\ e.offer \in Offers
    /\ e.kind = "set" => /\ e.signer \in Signer /\ e.hash \in Hash
                         /\ e.coinbase \in Coinbase
    /\ e.kind # "none" => events # MaxEvents

LEMMA EventsAre == \A e \in Events : IsEvent(e)
<1> SUFFICES ASSUME NEW e \in Events PROVE IsEvent(e)
  OBVIOUS
<1>1. CASE e = [kind |-> "none"]
  BY <1>1 DEF IsEvent
<1>2. CASE e # [kind |-> "none"]
  <2>1. events # MaxEvents
    BY <1>2 DEF Events
  <2>2. \/ \E t \in Settings : e = [kind |-> "set", signer |-> t.signer,
                                    hash |-> t.hash, coinbase |-> t.coinbase]
        \/ e \in [kind : {"gone"}, signer : Leavers]
        \/ e \in [kind : {"add"}, hash : Hash, offer : Offers]
        \/ e \in [kind : {"remove"}, hash : DOMAIN snap.confirmation]
    BY <1>2, <2>1 DEF Events
  <2>3. ASSUME NEW t \in Settings,
               e = [kind |-> "set", signer |-> t.signer,
                    hash |-> t.hash, coinbase |-> t.coinbase]
        PROVE  IsEvent(e)
    BY <2>1, <2>3, SideChainAssumption DEF IsEvent
  <2>4. CASE e \in [kind : {"gone"}, signer : Leavers]
    BY <2>1, <2>4 DEF IsEvent
  <2>5. CASE e \in [kind : {"add"}, hash : Hash, offer : Offers]
    BY <2>1, <2>5 DEF IsEvent
  <2>6. CASE e \in [kind : {"remove"}, hash : DOMAIN snap.confirmation]
    BY <2>1, <2>6 DEF IsEvent
  <2> QED
    BY <2>2, <2>3, <2>4, <2>5, <2>6
<1> QED
  BY <1>1, <1>2

LEMMA SetCoinbases ==
    ASSUME NEW s, IsSnap(s), IsCoinbases(s.coinbase), NEW e, IsEvent(e)
    PROVE  IsCoinbases(SetSCCoinbase(s, e).coinbase)
<1>1. CASE e.kind = "set"
  <2> DEFINE k == <<e.signer, e.hash>>
             m == Put(s.coinbase, k, e.coinbase)
  <2>1. SetSCCoinbase(s, e) = [s EXCEPT !.coinbase = m]
    BY <1>1 DEF SetSCCoinbase
  <2>2. k \in Signer \X Hash /\ e.coinbase \in Coinbase
    BY <1>1 DEF IsEvent
  <2> HIDE DEF k
  <2>3. IsCoinbases(m)
    BY <2>2 DEF IsCoinbases, Put
  <2> HIDE DEF m
  <2>4. SetSCCoinbase(s, e).coinbase = m
    BY <2>1 DEF IsSnap
  <2> QED
    BY <2>3, <2>4
<1>2. CASE e.kind # "set"
  BY <1>2 DEF SetSCCoinbase
<1> QED
  BY <1>1, <1>2

\* The whole of apply, for the part about side chains.
LEMMA ApplyIs ==
    ASSUME NEW s, IsSnap(s), IsConf(s.confirmation), IsCoinbases(s.coinbase),
           NoEmpty(s.reward), NEW C, C \subseteq Sent, IsFiniteSet(C),
           NEW e, IsEvent(e), NEW n, NEW order
    PROVE  LET conf == AddConfirms(SetSCCoinbase(s, e), C).confirmation
               t == ApplyHeader(s, n, C, e, order) IN
           /\ IsConf(conf) /\ DOMAIN conf = DOMAIN s.confirmation
           /\ \A h \in DOMAIN conf :
                 /\ conf[h].last = s.confirmation[h].last
                 /\ conf[h].record = s.confirmation[h].record \cup
                       {c \in C : c.hash = h /\ Accepts(SetSCCoinbase(s, e), c)}
           /\ IsSnap(t) /\ IsCoinbases(t.coinbase)
           /\ IsConf(t.confirmation)
           /\ \A h \in DOMAIN conf \cap DOMAIN t.confirmation :
                 t.confirmation[h] = IF EndsLoop(n) THEN Closed(conf[h])
                                     ELSE conf[h]
           /\ \A h \in DOMAIN t.confirmation \ DOMAIN conf :
                 t.confirmation[h].record = {} /\ t.confirmation[h].last = 0
           /\ NoEmpty(t.reward)
           /\ IF EndsLoop(n) THEN Turned(t.reward, s.reward, conf, n, order)
              ELSE t.reward = s.reward
<1> DEFINE u == SetSCCoinbase(s, e)
           v == AddConfirms(u, C)
           conf == v.confirmation
           w == BySCConfirm(u, C, n, order)
           x == ByProposal(w, e)
           t == ApplyHeader(s, n, C, e, order)
<1>1. t = ByExpiry(x, e)
  BY DEF ApplyHeader
<1>2. /\ IsSnap(u) /\ u.confirmation = s.confirmation /\ u.reward = s.reward
      /\ IsCoinbases(u.coinbase)
  BY SetIs, SetCoinbases
<1>3. /\ IsSnap(v) /\ v.coinbase = u.coinbase /\ v.reward = u.reward
      /\ DOMAIN conf = DOMAIN u.confirmation /\ IsConf(conf)
      /\ \A h \in DOMAIN u.confirmation :
            /\ conf[h].last = u.confirmation[h].last
            /\ conf[h].record = u.confirmation[h].record
                  \cup {c \in C : c.hash = h /\ Accepts(u, c)}
  <2> HIDE DEF u
  <2> QED
    BY <1>2, AddIs
<1> HIDE DEF u, conf
<1>4. /\ IsSnap(w) /\ w.coinbase = v.coinbase
      /\ w.confirmation = [h \in DOMAIN conf |->
                             IF EndsLoop(n) THEN Closed(conf[h]) ELSE conf[h]]
      /\ NoEmpty(w.reward)
      /\ IF EndsLoop(n) THEN Turned(w.reward, s.reward, conf, n, order)
         ELSE w.reward = s.reward
  <2>1. CASE EndsLoop(n)
    <3>1. w = UpdateSCConfirmation(v, n, order)
      BY <2>1 DEF BySCConfirm
    <3>2. IsConf(v.confirmation)
      BY <1>3 DEF conf
    <3> HIDE DEF v
    <3>3. /\ IsSnap(w) /\ w.coinbase = v.coinbase
          /\ w.confirmation = [h \in DOMAIN conf |-> Closed(conf[h])]
          /\ NoEmpty(w.reward)
          /\ Turned(w.reward, v.reward, conf, n, order)
      BY <1>3, <3>1, <3>2, UpdateIs DEF conf
    <3> HIDE DEF w
    <3> QED
      BY <1>2, <1>3, <2>1, <3>3
  <2>2. CASE ~EndsLoop(n)
    <3>1. w = v
      BY <2>2 DEF BySCConfirm
    <3>2. conf = [h \in DOMAIN conf |-> conf[h]]
      <4> DEFINE f == [h \in DOMAIN u.confirmation |->
                         Recorded(u.confirmation[h],
                                  {c \in C : c.hash = h /\ Accepts(u, c)})]
      <4>1. v = [u EXCEPT !.confirmation = f]
        BY DEF AddConfirms
      <4>2. f = [h \in DOMAIN f |-> f[h]]
        OBVIOUS
      <4> HIDE DEF f
      <4>3. conf = f
        BY <4>1, <1>2 DEF conf, IsSnap
      <4> QED
        BY <4>2, <4>3
    <3> HIDE DEF v, w
    <3> QED
      BY <1>2, <1>3, <2>2, <3>1, <3>2 DEF conf
  <2> QED
    BY <2>1, <2>2
<1> HIDE DEF v, w
<1>5. IsConf(w.confirmation) /\ DOMAIN w.confirmation = DOMAIN conf
  BY <1>3, <1>4, ClosedIs DEF IsConf
<1>6. /\ IsSnap(x) /\ x.coinbase = w.coinbase /\ x.reward = w.reward
      /\ IsConf(x.confirmation)
      /\ \A h \in DOMAIN w.confirmation \cap DOMAIN x.confirmation :
            x.confirmation[h] = w.confirmation[h]
      /\ \A h \in DOMAIN x.confirmation \ DOMAIN w.confirmation :
            x.confirmation[h].record = {} /\ x.confirmation[h].last = 0
  BY <1>4, <1>5, ProposalIs DEF IsEvent
<1> HIDE DEF x
<1>7. /\ IsSnap(t) /\ t.reward = x.reward
      /\ t.confirmation = x.confirmation
      /\ DOMAIN t.coinbase \subseteq DOMAIN x.coinbase
      /\ \A p \in DOMAIN t.coinbase : t.coinbase[p] = x.coinbase[p]
  BY <1>1, <1>6, ExpiryIs
<1> HIDE DEF t
<1>8. IsCoinbases(t.coinbase)
  <2>1. x.coinbase = u.coinbase
    BY <1>3, <1>4, <1>6
  <2> QED
    BY <1>2, <1>7, <2>1 DEF IsCoinbases
<1>9. \A h \in DOMAIN conf \cap DOMAIN t.confirmation :
        t.confirmation[h] = IF EndsLoop(n) THEN Closed(conf[h]) ELSE conf[h]
  <2> TAKE h \in DOMAIN conf \cap DOMAIN t.confirmation
  <2>1. t.confirmation[h] = w.confirmation[h]
    BY <1>5, <1>6, <1>7
  <2> QED
    BY <2>1, <1>4
<1>10. \A h \in DOMAIN t.confirmation \ DOMAIN conf :
         t.confirmation[h].record = {} /\ t.confirmation[h].last = 0
  BY <1>5, <1>6, <1>7
<1>11. /\ NoEmpty(t.reward)
       /\ IF EndsLoop(n) THEN Turned(t.reward, s.reward, conf, n, order)
          ELSE t.reward = s.reward
  BY <1>4, <1>6, <1>7
<1>12. /\ DOMAIN conf = DOMAIN s.confirmation
       /\ \A h \in DOMAIN conf :
             /\ conf[h].last = s.confirmation[h].last
             /\ conf[h].record = s.confirmation[h].record \cup
                   {c \in C : c.hash = h /\ Accepts(u, c)}
  BY <1>2, <1>3
<1>13. IsConf(conf) /\ IsSnap(t) /\ IsConf(t.confirmation)
  BY <1>3, <1>6, <1>7
<1> QED
  BY <1>8, <1>9, <1>10, <1>11, <1>12, <1>13 DEF conf, v, u, t

-----------------------------------------------------------------------------
(* The inductive invariant. *)

\* Numbers of blocks and events stay in their bounds.
Counters ==
    /\ start \in Starts /\ number \in start..(start + MaxBlocks)
    /\ events \in 0..MaxEvents /\ split \in BOOLEAN

\* The three maps of the snapshot are well formed.
Maps ==
    /\ IsSnap(snap) /\ IsConf(snap.confirmation) /\ IsCoinbases(snap.coinbase)
    /\ NoEmpty(snap.reward)

\* Rows of scores end a loop, the sixth or a later one.
Rows ==
    \A h \in DOMAIN snap.reward : \A x \in DOMAIN snap.reward[h] :
        /\ x \in Nat /\ EndsLoop(x)
        /\ ExpiredLoops * MaxSignerCount <= x /\ x <= number
        /\ \A a \in DOMAIN snap.reward[h][x] : snap.reward[h][x][a] \in Nat

\* Scores that are not due yet are still in the snapshot, unless they are of
\* the first six loops, and the snapshot has no others of the last two loops.
Waiting ==
    \A h \in Hash :
        /\ \A x \in DOMAIN given[h] :
              /\ x \in Nat /\ x <= number
              /\ x + DelayLoops * MaxSignerCount >= number
              /\ x >= ExpiredLoops * MaxSignerCount =>
                    Row(snap.reward, h, x) /\ snap.reward[h][x] = given[h][x]
        /\ h \in DOMAIN snap.reward =>
              \A x \in DOMAIN snap.reward[h] :
                 x + DelayLoops * MaxSignerCount >= number => x \in DOMAIN given[h]

\* The record of a side chain has every confirmation taken above its last
\* confirmed block, and each came from a coinbase.
Recording ==
    \A h \in DOMAIN snap.confirmation :
        LET r == snap.confirmation[h] IN
        /\ {c \in accepted[h] : c.number > r.last} = r.record
        /\ \A c \in r.record : c.by \in Coinbase

\* Blocks up to the last confirmed one are scored once, others not yet.
Scoring ==
    \A h \in DOMAIN snap.confirmation : \A m \in DOMAIN scored[h] :
        m \in Int /\ m <= snap.confirmation[h].last /\ scored[h][m] = 1

Inv == Counters /\ Maps /\ Rows /\ Waiting /\ Recording /\ Scoring

\* Each order in which the loops may be walked has them all.
LEMMA OrdersAll ==
    ASSUME NEW n, EndsLoop(n), NEW conf, IsConf(conf), NEW order \in Orders(n, conf)
    PROVE  /\ IsFiniteSet(DOMAIN order) /\ \A k \in DOMAIN order : k \in Int
           /\ \A h \in DOMAIN conf : \A i \in ConfirmedInfos(conf[h]) :
                 \E k \in DOMAIN order : order[k] = i
<1> DEFINE of(h) == ConfirmedInfos(conf[h])
           S == UNION {of(h) : h \in DOMAIN conf}
<1>1. order \in SetToSeqs(S)
  BY DEF Orders
<1>2. \A h \in DOMAIN conf : IsFiniteSet(of(h))
  BY ConfirmedIs DEF IsConf
<1>3. IsFiniteSet(DOMAIN conf)
  BY SideChainAssumption, FS_Subset DEF IsConf
<1>4. IsFiniteSet({of(h) : h \in DOMAIN conf})
  <2> DEFINE f == [h \in DOMAIN conf |-> of(h)]
  <2>1. IsFiniteSet(Range(f))
    BY <1>3, RangeFinite
  <2>2. Range(f) = {of(h) : h \in DOMAIN conf}
    BY DEF Range
  <2> QED
    BY <2>1, <2>2
<1>5. IsFiniteSet(S)
  BY <1>2, <1>4, FS_UNION
<1>6. \A h \in DOMAIN conf : \A i \in of(h) : i \in S
  OBVIOUS
<1> HIDE DEF S
<1>7. DOMAIN order = 1..Cardinality(S) /\ Cardinality(S) \in Nat
  BY <1>1, <1>5, FS_CardinalityType DEF SetToSeqs
<1>8. IsFiniteSet(1..Cardinality(S))
  BY <1>7, FS_Interval
<1>9. \A x \in S : \E k \in DOMAIN order : order[k] = x
  BY <1>1, <1>5, OrderAll
<1> QED
  BY <1>6, <1>7, <1>8, <1>9

\* What a block does, in the terms of the invariant.
Stepped(conf, C, e, order) ==
    LET n == number + 1
        fresh(h) == EndsLoop(n) /\ Fresh(conf, h)
        listed(h) == UNION {Numbers(i) : i \in Listed(conf[h].record, MinConfirmed)}
        passed(h) == IF EndsLoop(n)
                     THEN (conf[h].last + 1)..ConfirmedNumber(conf[h]) ELSE {}
    IN
    /\ start' = start /\ number' = n /\ events' \in 0..MaxEvents
    /\ n \in Nat /\ n \in start..(start + MaxBlocks) /\ n < Word
    /\ split' = (Cardinality(Range(Outcomes(n, conf))) > 1)
    /\ IsConf(conf) /\ DOMAIN conf = DOMAIN snap.confirmation
    /\ \A h \in DOMAIN conf :
          /\ conf[h].last = snap.confirmation[h].last
          /\ conf[h].record = snap.confirmation[h].record \cup
                {c \in C : c.hash = h /\ Accepts(SetSCCoinbase(snap, e), c)}
    /\ Maps'
    /\ \A h \in DOMAIN conf \cap DOMAIN snap'.confirmation :
          snap'.confirmation[h] = IF EndsLoop(n) THEN Closed(conf[h]) ELSE conf[h]
    /\ \A h \in DOMAIN snap'.confirmation \ DOMAIN conf :
          snap'.confirmation[h].record = {} /\ snap'.confirmation[h].last = 0
    /\ IF EndsLoop(n) THEN Turned(snap'.reward, snap.reward, conf, n, order)
       ELSE snap'.reward = snap.reward
    /\ EndsLoop(n) => \A h \in DOMAIN conf : \A i \in ConfirmedInfos(conf[h]) :
                         \E k \in DOMAIN order : order[k] = i
    /\ \A h \in DOMAIN conf : accepted'[h] = conf[h].record
    /\ \A h \in Hash \ DOMAIN conf : accepted'[h] = {} /\ scored'[h] = <<>>
    /\ \A h \in DOMAIN conf :
          LET new == passed(h) \cap listed(h) IN
          /\ DOMAIN scored'[h] = DOMAIN scored[h] \cup new
          /\ \A m \in DOMAIN scored'[h] :
                scored'[h][m] = (IF m \in DOMAIN scored[h] THEN scored[h][m] ELSE 0)
                                + (IF m \in new THEN 1 ELSE 0)
    /\ \A h \in Hash : \A x :
          /\ x \in DOMAIN given'[h] <=>
                \/ x \in DOMAIN given[h] /\ x + DelayLoops * MaxSignerCount >= n
                \/ fresh(h) /\ x = n
          /\ x \in DOMAIN given'[h] =>
                given'[h][x] =
                   IF fresh(h) /\ x = n
                   THEN Scores(ConfirmedCoinbase(conf[h], order), conf[h].count)
                   ELSE given[h][x]

LEMMA BlockIs ==
    ASSUME Inv, Block
    PROVE  \E C \in Carried, e \in Events : \E order :
              Stepped(Counted(e, C), C, e, order)
<1> DEFINE n == number + 1
<1>1. PICK C \in Carried, e \in Events :
        \E conf \in {Counted(e, C)} : \E outcomes \in {Outcomes(n, conf)} :
          \E order \in DOMAIN outcomes :
             /\ snap' = ApplyHeader(snap, n, C, e, order)
             /\ Note(n, conf, outcomes, order,
                     {c \in C : Accepts(SetSCCoinbase(snap, e), c)})
             /\ events' = IF e.kind = "none" THEN events ELSE events + 1
  BY DEF Block
<1> DEFINE conf == Counted(e, C)
           outcomes == Outcomes(n, conf)
           u == SetSCCoinbase(snap, e)
           taken == {c \in C : Accepts(u, c)}
<1>2. PICK order \in DOMAIN outcomes :
        /\ snap' = ApplyHeader(snap, n, C, e, order)
        /\ Note(n, conf, outcomes, order, taken)
        /\ events' = IF e.kind = "none" THEN events ELSE events + 1
  BY <1>1
<1> DEFINE fresh(h) == EndsLoop(n) /\ Fresh(conf, h)
           listed(h) == UNION {Numbers(i) : i \in Listed(conf[h].record, MinConfirmed)}
           passed(h) == IF EndsLoop(n)
                        THEN (conf[h].last + 1)..ConfirmedNumber(conf[h]) ELSE {}
           who(h) == outcomes[order][h]
<1>3. /\ start \in Starts /\ start \in Nat /\ MaxBlocks \in Nat
      /\ number \in start..(start + MaxBlocks) /\ start + MaxBlocks < Word
      /\ events \in 0..MaxEvents /\ MaxEvents \in Nat /\ Word \in Nat
  BY SideChainAssumption DEF Inv, Counters
<1>4. number' = n /\ start' = start /\ number < start + MaxBlocks
  BY DEF Block
<1>5. n \in Nat /\ n \in start..(start + MaxBlocks) /\ n < Word
  BY <1>3, <1>4
<1>6. IsEvent(e)
  BY EventsAre
<1>7. events' \in 0..MaxEvents
  BY <1>2, <1>3, <1>6 DEF IsEvent
<1>8. C \subseteq Sent /\ IsFiniteSet(C)
  BY CarriedFinite
<1>9. IsSnap(snap) /\ IsConf(snap.confirmation) /\ IsCoinbases(snap.coinbase)
      /\ NoEmpty(snap.reward)
  BY DEF Inv, Maps
<1>10. conf = AddConfirms(u, C).confirmation
  BY DEF Counted
<1> HIDE DEF n, conf
<1>11. /\ IsConf(conf) /\ DOMAIN conf = DOMAIN snap.confirmation
       /\ \A h \in DOMAIN conf :
             /\ conf[h].last = snap.confirmation[h].last
             /\ conf[h].record = snap.confirmation[h].record \cup
                   {c \in C : c.hash = h /\ Accepts(u, c)}
       /\ IsSnap(snap') /\ IsCoinbases(snap'.coinbase)
       /\ IsConf(snap'.confirmation)
       /\ \A h \in DOMAIN conf \cap DOMAIN snap'.confirmation :
             snap'.confirmation[h] = IF EndsLoop(n) THEN Closed(conf[h])
                                     ELSE conf[h]
       /\ \A h \in DOMAIN snap'.confirmation \ DOMAIN conf :
             snap'.confirmation[h].record = {} /\ snap'.confirmation[h].last = 0
       /\ NoEmpty(snap'.reward)
       /\ IF EndsLoop(n) THEN Turned(snap'.reward, snap.reward, conf, n, order)
          ELSE snap'.reward = snap.reward
  BY <1>2, <1>6, <1>8, <1>9, <1>10, ApplyIs
<1>12. Maps'
  BY <1>11 DEF Maps, IsSnap, IsConf, IsCoinbases, NoEmpty
<1>13. EndsLoop(n) => \A h \in DOMAIN conf : \A i \in ConfirmedInfos(conf[h]) :
                         \E k \in DOMAIN order : order[k] = i
  <2>1. order \in Orders(n, conf)
    BY <1>2 DEF Outcomes
  <2> QED
    BY <1>11, <2>1, OrdersAll
<1>14. \A h \in DOMAIN conf :
         who(h) = IF EndsLoop(n) THEN ConfirmedCoinbase(conf[h], order) ELSE <<>>
  BY <1>2 DEF Outcomes
<1>15. \A h \in DOMAIN conf :
         /\ DOMAIN who(h) = passed(h) \cap listed(h)
         /\ who(h) # <<>> <=> fresh(h)
  <2> TAKE h \in DOMAIN conf
  <2>1. CASE EndsLoop(n)
    <3>1. IsRecord(conf[h], h)
      BY <1>11 DEF IsConf
    <3>2. \A i \in ConfirmedInfos(conf[h]) : \E k \in DOMAIN order : order[k] = i
      BY <1>13, <2>1
    <3>3. who(h) = ConfirmedCoinbase(conf[h], order)
      BY <1>14, <2>1
    <3> DEFINE r == conf[h]
               cc == ConfirmedCoinbase(r, order)
    <3>4. /\ DOMAIN cc = ((r.last + 1)..ConfirmedNumber(r)) \cap
                UNION {Numbers(i) : i \in Listed(r.record, MinConfirmed)}
          /\ cc # <<>> <=> ConfirmedNumber(r) > r.last
      <4> HIDE DEF r
      <4>1. IsRecord(r, h)
            /\ \A i \in ConfirmedInfos(r) : \E k \in DOMAIN order : order[k] = i
        BY <3>1, <3>2 DEF r
      <4> QED
        BY <4>1, WhoIs
    <3>5. passed(h) = (r.last + 1)..ConfirmedNumber(r)
      BY <2>1
    <3>6. fresh(h) <=> ConfirmedNumber(r) > r.last
      BY <2>1 DEF Fresh
    <3> HIDE DEF cc, passed, fresh
    <3>7. who(h) = cc
      BY <3>3 DEF cc
    <3> QED
      BY <3>4, <3>5, <3>6, <3>7
  <2>2. CASE ~EndsLoop(n)
    BY <1>14, <2>2
  <2> QED
    BY <2>1, <2>2
<1> HIDE DEF outcomes, fresh, passed, listed
<1>16. split' = (Cardinality(Range(outcomes)) > 1)
  BY <1>2 DEF Note
<1>17. \A h \in DOMAIN conf : accepted'[h] = conf[h].record
  <2> TAKE h \in DOMAIN conf
  <2>1. h \in Hash
    BY <1>11 DEF IsConf
  <2>2. accepted'[h] = {c \in taken : c.hash = h} \cup
                       {c \in accepted[h] : c.number > snap.confirmation[h].last}
    BY <1>2, <2>1 DEF Note
  <2>3. {c \in accepted[h] : c.number > snap.confirmation[h].last}
           = snap.confirmation[h].record
    BY <1>11 DEF Inv, Recording
  <2>4. conf[h].record = snap.confirmation[h].record \cup
                         {c \in C : c.hash = h /\ Accepts(u, c)}
    BY <1>11
  <2> HIDE DEF u
  <2> QED
    BY <2>2, <2>3, <2>4
<1>18. \A h \in Hash \ DOMAIN conf : accepted'[h] = {} /\ scored'[h] = <<>>
  BY <1>2 DEF Note
<1>19. \A h \in DOMAIN conf :
         /\ DOMAIN scored'[h] = DOMAIN scored[h] \cup (passed(h) \cap listed(h))
         /\ \A m \in DOMAIN scored'[h] :
               scored'[h][m] = (IF m \in DOMAIN scored[h] THEN scored[h][m] ELSE 0)
                               + (IF m \in passed(h) \cap listed(h) THEN 1 ELSE 0)
  <2> TAKE h \in DOMAIN conf
  <2>1. h \in Hash
    BY <1>11 DEF IsConf
  <2>2. scored'[h] = [m \in DOMAIN scored[h] \cup DOMAIN who(h) |->
                        (IF m \in DOMAIN scored[h] THEN scored[h][m] ELSE 0)
                        + IF m \in DOMAIN who(h) THEN 1 ELSE 0]
    BY <1>2, <2>1 DEF Note
  <2> QED
    BY <2>2, <1>15
<1>20. \A h \in Hash : \A x :
         /\ x \in DOMAIN given'[h] <=>
               \/ x \in DOMAIN given[h] /\ x + DelayLoops * MaxSignerCount >= n
               \/ fresh(h) /\ x = n
         /\ x \in DOMAIN given'[h] =>
               given'[h][x] =
                  IF fresh(h) /\ x = n
                  THEN Scores(ConfirmedCoinbase(conf[h], order), conf[h].count)
                  ELSE given[h][x]
  <2> TAKE h \in Hash
  <2> DEFINE waits == Restrict(given[h], {l \in DOMAIN given[h] :
                                  l + DelayLoops * MaxSignerCount >= n})
  <2>1. given'[h] = IF h \in DOMAIN conf /\ who(h) # <<>>
                    THEN Put(waits, n, Scores(who(h), conf[h].count))
                    ELSE waits
    BY <1>2 DEF Note
  <2>2. fresh(h) <=> h \in DOMAIN conf /\ who(h) # <<>>
    BY <1>15 DEF fresh, Fresh
  <2>3. /\ DOMAIN waits = {l \in DOMAIN given[h] :
                             l + DelayLoops * MaxSignerCount >= n}
        /\ \A x \in DOMAIN waits : waits[x] = given[h][x]
    BY DEF Restrict
  <2> HIDE DEF waits
  <2>4. CASE fresh(h)
    <3>1. who(h) = ConfirmedCoinbase(conf[h], order)
      BY <1>14, <2>2, <2>4 DEF fresh
    <3> DEFINE sc == Scores(ConfirmedCoinbase(conf[h], order), conf[h].count)
    <3>2. given'[h] = Put(waits, n, sc)
      BY <2>1, <2>2, <2>4, <3>1
    <3> HIDE DEF sc
    <3>3. \A x : /\ x \in DOMAIN given'[h] <=> x \in DOMAIN waits \/ x = n
                 /\ x \in DOMAIN given'[h] =>
                       given'[h][x] = IF x = n THEN sc ELSE waits[x]
      BY <3>2 DEF Put
    <3> QED
      BY <2>3, <2>4, <3>3 DEF sc
  <2>5. CASE ~fresh(h)
    BY <2>1, <2>2, <2>3, <2>5
  <2> QED
    BY <2>4, <2>5
<1>21. Stepped(conf, C, e, order)
  BY <1>4, <1>5, <1>7, <1>11, <1>12, <1>13, <1>16, <1>17, <1>18, <1>19, <1>20, Zenon
     DEF Stepped, n, outcomes, fresh, passed, listed, u
<1> QED
  BY <1>21 DEF conf

LEMMA InitInv == Init => Inv
<1> SUFFICES ASSUME Init PROVE Inv
  OBVIOUS
<1>1. PICK offer \in Offers :
        snap = [coinbase |-> InitialCoinbase, reward |-> <<>>,
                confirmation |-> [h \in Hash |-> NewRecord(offer)]]
  BY DEF Init
<1> DEFINE new == NewRecord(offer)
<1>2. /\ snap.coinbase = InitialCoinbase /\ snap.reward = <<>>
      /\ snap.confirmation = [h \in Hash |-> new]
  BY <1>1
<1>3. DOMAIN snap.reward = {}
  BY <1>2
<1>4. offer.count \in Nat /\ offer.reward \in Nat
  BY SideChainAssumption
<1>5. /\ new.record = {} /\ new.last = 0
      /\ \A h : IsRecord(new, h)
  BY <1>4 DEF NewRecord, IsRecord
<1> HIDE DEF new
<1>6. IsSnap(snap) /\ IsConf(snap.confirmation)
  BY <1>1, <1>2, <1>5 DEF IsSnap, IsConf, new
<1>7. IsCoinbases(snap.coinbase)
  BY <1>2, SideChainAssumption DEF IsCoinbases
<1>8. Maps
  BY <1>3, <1>6, <1>7 DEF Maps, NoEmpty
<1>9. Counters
  <2>1. start \in Nat /\ number = start /\ MaxBlocks \in Nat
        /\ MaxEvents \in Nat /\ events = 0 /\ split = FALSE
    BY SideChainAssumption DEF Init
  <2>2. number \in start..(start + MaxBlocks) /\ events \in 0..MaxEvents
    BY <2>1
  <2> QED
    BY <2>1, <2>2, Zenon DEF Init, Counters
<1>10. Rows
  BY <1>3 DEF Rows
<1>11. \A h \in Hash : given[h] = <<>> /\ scored[h] = <<>> /\ accepted[h] = {}
  BY DEF Init
<1>12. Waiting
  <2>1. \A h \in Hash : DOMAIN given[h] = {}
    BY <1>11
  <2> QED
    BY <2>1, <1>3 DEF Waiting
<1>13. Recording
  BY <1>2, <1>5, <1>11 DEF Recording
<1>14. Scoring
  <2>1. \A h \in Hash : DOMAIN scored[h] = {}
    BY <1>11
  <2> QED
    BY <2>1, <1>2 DEF Scoring
<1> QED
  BY <1>8, <1>9, <1>10, <1>12, <1>13, <1>14 DEF Inv

\* Rows of scores stay as the invariant says.
LEMMA StepRows ==
    ASSUME Inv, NEW conf, NEW C, NEW e, NEW order, Stepped(conf, C, e, order)
    PROVE  Rows' /\ Waiting'
<1> DEFINE n == number + 1
           six == ExpiredLoops * MaxSignerCount
           two == DelayLoops * MaxSignerCount
           rew == snap.reward
           turned(h, x) == EndsLoop(n) /\ Fresh(conf, h) /\ x = n
           sc(h) == Scores(ConfirmedCoinbase(conf[h], order), conf[h].count)
<1>1. /\ number' = n /\ n \in Nat /\ n < Word
      /\ IsConf(conf)
      /\ IF EndsLoop(n) THEN Turned(snap'.reward, rew, conf, n, order)
         ELSE snap'.reward = rew
      /\ EndsLoop(n) => \A h \in DOMAIN conf : \A i \in ConfirmedInfos(conf[h]) :
                           \E k \in DOMAIN order : order[k] = i
      /\ Maps'
  BY DEF Stepped
<1>2. \A h \in Hash : \A x :
        /\ x \in DOMAIN given'[h] <=>
              (x \in DOMAIN given[h] /\ x + two >= n) \/ turned(h, x)
        /\ x \in DOMAIN given'[h] =>
              given'[h][x] = IF turned(h, x) THEN sc(h) ELSE given[h][x]
  BY DEF Stepped
<1>3. six \in Nat /\ two \in Nat /\ two <= six
  BY SideChainAssumption DEF ExpiredLoops, DelayLoops
<1>4. number \in Nat
  BY SideChainAssumption DEF Inv, Counters
<1>5. \A h \in Hash : \A x : Row(rew, h, x) =>
        /\ x \in Nat /\ EndsLoop(x) /\ six <= x /\ x <= number
        /\ \A a \in DOMAIN rew[h][x] : rew[h][x][a] \in Nat
  BY DEF Inv, Rows, Row
<1>6. \A h \in Hash : \A x \in DOMAIN given[h] :
        /\ x \in Nat /\ x <= number /\ x + two >= number
        /\ x >= six => Row(rew, h, x) /\ rew[h][x] = given[h][x]
  BY DEF Inv, Waiting
<1>7. \A h \in Hash : \A x :
        Row(rew, h, x) /\ x + two >= number => x \in DOMAIN given[h]
  BY DEF Inv, Waiting, Row
<1>8. \A x \in Nat : x <= n => (Expired(x, n) <=> n < six \/ x < n - six)
  BY <1>1, ExpiredIs
<1> HIDE DEF six, two
\* Rows after the step.
<1>9. \A h \in Hash : \A x :
        /\ Row(snap'.reward, h, x) <=>
              \/ Row(rew, h, x) /\ (EndsLoop(n) => ~Expired(x, n))
              \/ turned(h, x) /\ ~Expired(x, n)
        /\ Row(snap'.reward, h, x) =>
              snap'.reward[h][x] = IF turned(h, x) THEN sc(h) ELSE rew[h][x]
  <2>1. CASE EndsLoop(n)
    <3>1. Turned(snap'.reward, rew, conf, n, order)
      BY <1>1, <2>1
    <3> HIDE DEF n
    <3> QED
      BY <2>1, <3>1 DEF Turned
  <2>2. CASE ~EndsLoop(n)
    <3>1. snap'.reward = rew
      BY <1>1, <2>2
    <3> QED
      BY <2>2, <3>1
  <2> QED
    BY <2>1, <2>2
<1>10. \A h \in Hash : EndsLoop(n) /\ Fresh(conf, h) =>
         \A a \in DOMAIN sc(h) : sc(h)[a] \in Nat
  <2> SUFFICES ASSUME NEW h \in Hash, EndsLoop(n), Fresh(conf, h)
               PROVE  \A a \in DOMAIN sc(h) : sc(h)[a] \in Nat
    OBVIOUS
  <2> DEFINE who == ConfirmedCoinbase(conf[h], order)
  <2>1. h \in DOMAIN conf /\ IsRecord(conf[h], h)
    BY <1>1 DEF Fresh, IsConf
  <2>2. \A i \in ConfirmedInfos(conf[h]) : \E k \in DOMAIN order : order[k] = i
    BY <1>1, <2>1
  <2>3. IsFiniteSet(DOMAIN who)
    BY <2>1, <2>2, WhoIs
  <2>4. conf[h].count \in Nat
    BY <2>1 DEF IsRecord
  <2> HIDE DEF who
  <2>5. \A a \in DOMAIN Scores(who, conf[h].count) : Scores(who, conf[h].count)[a] \in Nat
    BY <2>3, <2>4, ScoresNat
  <2> QED
    BY <2>5 DEF who
<1> HIDE DEF sc
<1>11. ASSUME NEW h \in Hash, NEW x, Row(snap'.reward, h, x)
       PROVE  /\ x \in Nat /\ EndsLoop(x) /\ six <= x /\ x <= n
              /\ \A a \in DOMAIN snap'.reward[h][x] : snap'.reward[h][x][a] \in Nat
  <2>1. CASE turned(h, x)
    <3>1. x = n /\ EndsLoop(n) /\ Fresh(conf, h)
      BY <2>1
    <3>2. ~Expired(n, n)
      BY <1>9, <1>11, <2>1
    <3>3. ~(n < six)
      BY <1>1, <1>8, <3>2
    <3>4. snap'.reward[h][x] = sc(h)
      BY <1>9, <1>11, <2>1
    <3>5. six <= x /\ x <= n /\ x \in Nat
      BY <3>1, <3>3, <1>1, <1>3
    <3> HIDE DEF n
    <3> QED
      BY <3>1, <3>4, <3>5, <1>10
  <2>2. CASE ~turned(h, x)
    <3>1. Row(rew, h, x) /\ snap'.reward[h][x] = rew[h][x]
      BY <1>9, <1>11, <2>2
    <3>2. /\ x \in Nat /\ EndsLoop(x) /\ six <= x /\ x <= number
          /\ \A a \in DOMAIN rew[h][x] : rew[h][x][a] \in Nat
      BY <1>5, <3>1
    <3>3. x <= n
      BY <3>2, <1>4
    <3> QED
      BY <3>1, <3>2, <3>3
  <2> QED
    BY <2>1, <2>2
<1>12. DOMAIN snap'.reward \subseteq Hash
  BY <1>1 DEF Maps, NoEmpty
<1>13. Rows'
  <2>1. \A h \in DOMAIN snap'.reward : \A x \in DOMAIN snap'.reward[h] :
          Row(snap'.reward, h, x)
    BY DEF Row
  <2> HIDE DEF n
  <2> QED
    BY <1>1, <1>11, <1>12, <2>1 DEF Rows, six
<1>14. ASSUME NEW h \in Hash, NEW x \in DOMAIN given'[h]
       PROVE  /\ x \in Nat /\ x <= n /\ x + two >= n
              /\ x >= six => Row(snap'.reward, h, x)
                             /\ snap'.reward[h][x] = given'[h][x]
  <2>1. CASE turned(h, x)
    <3>1. x = n /\ x \in Nat /\ x <= n /\ x + two >= n
      BY <2>1, <1>1, <1>3
    <3>2. x >= six => ~Expired(x, n)
      BY <3>1, <1>3, <1>8
    <3>3. given'[h][x] = sc(h)
      BY <1>2, <2>1
    <3> HIDE DEF n
    <3>4. x >= six => Row(snap'.reward, h, x) /\ snap'.reward[h][x] = sc(h)
      BY <1>9, <2>1, <3>2
    <3> QED
      BY <3>1, <3>3, <3>4
  <2>2. CASE ~turned(h, x)
    <3>1. x \in DOMAIN given[h] /\ x + two >= n /\ given'[h][x] = given[h][x]
      BY <1>2, <2>2
    <3>2. /\ x \in Nat /\ x <= number /\ x <= n
          /\ x >= six => Row(rew, h, x) /\ rew[h][x] = given[h][x]
      BY <1>4, <1>6, <3>1
    <3>3. x >= six => ~Expired(x, n)
      BY <1>1, <1>3, <1>8, <3>1, <3>2
    <3> HIDE DEF n
    <3>4. x >= six => Row(snap'.reward, h, x)
      BY <1>9, <3>2, <3>3
    <3>5. x >= six => snap'.reward[h][x] = rew[h][x]
      BY <1>9, <2>2, <3>4
    <3> QED
      BY <3>1, <3>2, <3>4, <3>5
  <2> QED
    BY <2>1, <2>2
<1>15. ASSUME NEW h \in Hash, NEW x, Row(snap'.reward, h, x), x + two >= n
       PROVE  x \in DOMAIN given'[h]
  <2>1. CASE turned(h, x)
    BY <1>2, <2>1
  <2>2. CASE ~turned(h, x)
    <3>1. Row(rew, h, x)
      BY <1>9, <1>15, <2>2
    <3>2. x \in Nat
      BY <1>5, <3>1
    <3>3. x + two >= number
      BY <1>3, <1>4, <1>15, <3>2
    <3>4. x \in DOMAIN given[h]
      BY <1>7, <3>1, <3>3
    <3> QED
      BY <1>2, <1>15, <3>4
  <2> QED
    BY <2>1, <2>2
<1>16. Waiting'
  <2>1. \A h \in DOMAIN snap'.reward : \A x \in DOMAIN snap'.reward[h] :
          Row(snap'.reward, h, x)
    BY DEF Row
  <2>2. number' = n
    BY <1>1
  <2>3. \A h \in Hash : \A x \in DOMAIN given'[h] :
          /\ x \in Nat /\ x <= n /\ x + two >= n
          /\ x >= six => h \in DOMAIN snap'.reward /\ x \in DOMAIN snap'.reward[h]
                         /\ snap'.reward[h][x] = given'[h][x]
    BY <1>14 DEF Row
  <2>4. \A h \in Hash : h \in DOMAIN snap'.reward =>
          \A x \in DOMAIN snap'.reward[h] : x + two >= n => x \in DOMAIN given'[h]
    BY <1>15, <2>1
  <2> HIDE DEF n
  <2> QED
    BY <2>2, <2>3, <2>4 DEF Waiting, six, two, Row
<1> QED
  BY <1>13, <1>16

\* The confirmations that a block counts came from coinbases.
LEMMA StepSealers ==
    ASSUME Inv, NEW conf, NEW C, NEW e \in Events, NEW order,
           Stepped(conf, C, e, order)
    PROVE  \A h \in DOMAIN conf : \A c \in conf[h].record : c.by \in Coinbase
<1> SUFFICES ASSUME NEW h \in DOMAIN conf, NEW c \in conf[h].record
             PROVE  c.by \in Coinbase
  OBVIOUS
<1> DEFINE u == SetSCCoinbase(snap, e)
<1>1. h \in DOMAIN snap.confirmation
      /\ (c \in snap.confirmation[h].record \/ Accepts(u, c))
  BY DEF Stepped
<1>2. CASE c \in snap.confirmation[h].record
  BY <1>1, <1>2 DEF Inv, Recording
<1>3. CASE Accepts(u, c)
  <2>1. IsCoinbases(u.coinbase)
    BY EventsAre, SetCoinbases DEF Inv, Maps
  <2>2. PICK p \in DOMAIN u.coinbase : u.coinbase[p] = c.by
    BY <1>3 DEF Accepts, isSideChainCoinbase
  <2> QED
    BY <2>1, <2>2 DEF IsCoinbases
<1> QED
  BY <1>1, <1>2, <1>3

\* Records and scored blocks stay as the invariant says.
LEMMA StepRecords ==
    ASSUME Inv, NEW conf, NEW C, NEW e \in Events, NEW order,
           Stepped(conf, C, e, order)
    PROVE  Recording' /\ Scoring'
<1> DEFINE n == number + 1
           u == SetSCCoinbase(snap, e)
           old == snap.confirmation
           now == snap'.confirmation
           cn(h) == ConfirmedNumber(conf[h])
           listed(h) == UNION {Numbers(i) : i \in Listed(conf[h].record, MinConfirmed)}
           passed(h) == IF EndsLoop(n) THEN (conf[h].last + 1)..cn(h) ELSE {}
           new(h) == passed(h) \cap listed(h)
<1>1. /\ IsConf(conf) /\ DOMAIN conf = DOMAIN old
      /\ \A h \in DOMAIN conf :
            /\ conf[h].last = old[h].last
            /\ conf[h].record = old[h].record \cup
                  {c \in C : c.hash = h /\ Accepts(u, c)}
      /\ Maps'
  BY DEF Stepped
<1>2. /\ \A h \in DOMAIN conf \cap DOMAIN now :
            now[h] = IF EndsLoop(n) THEN Closed(conf[h]) ELSE conf[h]
      /\ \A h \in DOMAIN now \ DOMAIN conf : now[h].record = {} /\ now[h].last = 0
  BY DEF Stepped
<1>3. /\ \A h \in DOMAIN conf : accepted'[h] = conf[h].record
      /\ \A h \in Hash \ DOMAIN conf : accepted'[h] = {} /\ scored'[h] = <<>>
  BY DEF Stepped
<1>4. \A h \in DOMAIN conf :
        /\ DOMAIN scored'[h] = DOMAIN scored[h] \cup new(h)
        /\ \A m \in DOMAIN scored'[h] :
              scored'[h][m] = (IF m \in DOMAIN scored[h] THEN scored[h][m] ELSE 0)
                              + (IF m \in new(h) THEN 1 ELSE 0)
  BY DEF Stepped
<1>5. DOMAIN now \subseteq Hash
  BY <1>1 DEF Maps, IsConf
<1>6. \A h \in DOMAIN conf : \A c \in conf[h].record : c.by \in Coinbase
  BY StepSealers
<1> HIDE DEF u
\* Side chain by side chain.
<1>7. ASSUME NEW h \in DOMAIN now
      PROVE  /\ {c \in accepted'[h] : c.number > now[h].last} = now[h].record
             /\ \A c \in now[h].record : c.by \in Coinbase
             /\ \A m \in DOMAIN scored'[h] :
                   m \in Int /\ m <= now[h].last /\ scored'[h][m] = 1
  <2>1. CASE h \notin DOMAIN conf
    <3>1. accepted'[h] = {} /\ scored'[h] = <<>> /\ now[h].record = {}
      BY <1>2, <1>3, <1>5, <1>7, <2>1
    <3>2. DOMAIN scored'[h] = {}
      BY <3>1
    <3> QED
      BY <3>1, <3>2
  <2>2. CASE h \in DOMAIN conf
    <3>1. IsRecord(conf[h], h)
      BY <1>1, <2>2 DEF IsConf
    <3>2. /\ conf[h].last \in Nat /\ conf[h].last = old[h].last
          /\ \A c \in conf[h].record : c.number \in (conf[h].last + 1)..conf[h].max
          /\ conf[h].max \in Nat
      BY <1>1, <2>2, <3>1 DEF IsRecord
    <3>3. cn(h) \in Nat /\ cn(h) >= conf[h].last
      BY <3>1, ConfirmedIs
    <3>4. \A m \in DOMAIN scored[h] :
            m \in Int /\ m <= old[h].last /\ scored[h][m] = 1
      BY <1>1, <2>2 DEF Inv, Scoring
    <3>5. accepted'[h] = conf[h].record
      BY <1>3, <2>2
    <3>6. \A m \in DOMAIN scored'[h] :
            /\ m \in DOMAIN scored[h] \/ m \in new(h)
            /\ scored'[h][m] = (IF m \in DOMAIN scored[h] THEN scored[h][m] ELSE 0)
                               + (IF m \in new(h) THEN 1 ELSE 0)
      BY <1>4, <2>2
    <3>7. CASE EndsLoop(n)
      <4>1. now[h] = Closed(conf[h])
        BY <1>2, <1>7, <2>2, <3>7
      <4>2. /\ now[h].last = cn(h)
            /\ now[h].record = {c \in conf[h].record : c.number > cn(h)}
        BY <3>1, <4>1, ClosedIs
      <4>3. \A m \in new(h) : m \in Int /\ conf[h].last < m /\ m <= cn(h)
        BY <3>2, <3>3, <3>7
      <4> HIDE DEF new, cn
      <4>4. cn(h) \in Int /\ conf[h].last <= cn(h)
        BY <3>2, <3>3
      <4>5. \A m \in DOMAIN scored'[h] :
              m \in Int /\ m <= cn(h) /\ scored'[h][m] = 1
        <5> TAKE m \in DOMAIN scored'[h]
        <5>1. CASE m \in new(h)
          <6>1. m \notin DOMAIN scored[h]
            BY <3>2, <3>4, <4>3, <5>1
          <6> QED
            BY <3>6, <4>3, <5>1, <6>1
        <5>2. CASE m \notin new(h)
          <6>1. m \in DOMAIN scored[h]
            BY <3>6, <5>2
          <6>2. scored'[h][m] = 1
            BY <3>4, <3>6, <5>2, <6>1
          <6>3. m \in Int /\ m <= cn(h)
            BY <3>2, <3>4, <4>4, <6>1
          <6> QED
            BY <6>2, <6>3
        <5> QED
          BY <5>1, <5>2
      <4> QED
        BY <1>6, <2>2, <3>5, <4>2, <4>5
    <3>8. CASE ~EndsLoop(n)
      <4>1. now[h] = conf[h]
        BY <1>2, <1>7, <2>2, <3>8
      <4>2. new(h) = {}
        BY <3>8
      <4> HIDE DEF new
      <4>3. \A m \in DOMAIN scored'[h] :
              m \in Int /\ m <= conf[h].last /\ scored'[h][m] = 1
        BY <3>2, <3>4, <3>6, <4>2
      <4>4. {c \in conf[h].record : c.number > conf[h].last} = conf[h].record
        BY <3>2
      <4> QED
        BY <1>6, <2>2, <3>5, <4>1, <4>3, <4>4
    <3> QED
      BY <3>7, <3>8
  <2> QED
    BY <2>1, <2>2
<1>8. Recording'
  BY <1>7 DEF Recording
<1>9. Scoring'
  BY <1>7 DEF Scoring
<1> QED
  BY <1>8, <1>9

LEMMA StepInv == Inv /\ [Next]_vars => Inv'
<1> SUFFICES ASSUME Inv, [Next]_vars PROVE Inv'
  OBVIOUS
<1>1. CASE Block
  <2>1. PICK C \in Carried, e \in Events :
          \E order : Stepped(Counted(e, C), C, e, order)
    BY <1>1, BlockIs
  <2>2. PICK order : Stepped(Counted(e, C), C, e, order)
    BY <2>1
  <2> DEFINE conf == Counted(e, C)
  <2>3. Stepped(conf, C, e, order)
    BY <2>2
  <2> HIDE DEF conf
  <2>4. Rows' /\ Waiting' /\ Recording' /\ Scoring'
    BY <2>3, StepRows, StepRecords
  <2>5. Maps'
    BY <2>3 DEF Stepped
  <2>6. Counters'
    <3>1. /\ start' = start /\ number' = number + 1
          /\ number + 1 \in start..(start + MaxBlocks)
          /\ events' \in 0..MaxEvents
      BY <2>3 DEF Stepped
    <3> DEFINE k == Cardinality(Range(Outcomes(number + 1, conf)))
    <3>2. split' \in BOOLEAN
      <4>1. split' = (k > 1)
        BY <2>3 DEF Stepped
      <4> HIDE DEF k
      <4>2. (k > 1) \in BOOLEAN
        OBVIOUS
      <4> QED
        BY <4>1, <4>2, Zenon
    <3>3. start \in Starts
      BY DEF Inv, Counters
    <3> QED
      BY <3>1, <3>2, <3>3, Zenon DEF Counters
  <2> QED
    BY <2>4, <2>5, <2>6 DEF Inv
<1>2. CASE UNCHANGED vars
  BY <1>2 DEF vars, Inv, Counters, Maps, Rows, Waiting, Recording, Scoring
<1> QED
  BY <1>1, <1>2 DEF Next

\* The snapshot's records, rewards and the scores still to be paid agree with
\* what was taken, counted and scored, in every reachable state.
THEOREM SideChainInv == Spec => []Inv
<1> QED
  BY InitInv, StepInv, PTL DEF Spec

-----------------------------------------------------------------------------
(* Invariants. *)

LEMMA InvType == Inv => TypeOK
<1> SUFFICES ASSUME Inv PROVE TypeOK
  OBVIOUS
<1>1. /\ start \in Starts /\ number \in start..(start + MaxBlocks)
      /\ events \in 0..MaxEvents /\ split \in BOOLEAN
  BY DEF Inv, Counters
<1>2. DOMAIN snap.coinbase \subseteq Signer \X Hash
      /\ DOMAIN snap.confirmation \subseteq Hash
  BY DEF Inv, Maps, IsCoinbases, IsConf
<1>3. \A h \in DOMAIN snap.confirmation :
        /\ snap.confirmation[h].last \in Nat /\ snap.confirmation[h].max \in Nat
        /\ \A c \in snap.confirmation[h].record :
              c.number \in (snap.confirmation[h].last + 1)..snap.confirmation[h].max
  BY DEF Inv, Maps, IsConf, IsRecord
<1>4. \A h \in DOMAIN snap.reward :
        /\ snap.reward[h] # <<>>
        /\ \A e \in DOMAIN snap.reward[h] : EndsLoop(e) /\ e <= number
  BY DEF Inv, Maps, NoEmpty, Rows
<1> QED
  BY <1>1, <1>2, <1>3, <1>4, Zenon DEF TypeOK

\* What the snapshot pays for is what was given and is due.
LEMMA DueIs ==
    ASSUME Inv, NEW h \in Hash
    PROVE  LET e == number - DelayLoops * MaxSignerCount
               p == PaidLoop(number + 1) IN
           /\ Row(snap.reward, h, p) <=>
                 e >= ExpiredLoops * MaxSignerCount /\ e \in DOMAIN given[h]
           /\ Row(snap.reward, h, p) =>
                 /\ snap.reward[h][p] = given[h][e]
                 /\ \A a \in DOMAIN given[h][e] : given[h][e][a] \in Nat
<1> DEFINE six == ExpiredLoops * MaxSignerCount
           two == DelayLoops * MaxSignerCount
           e == number - two
           p == PaidLoop(number + 1)
           rew == snap.reward
<1>1. /\ six \in Nat /\ two \in Nat /\ two <= six
      /\ Word \in Nat /\ Word > six
  BY SideChainAssumption DEF ExpiredLoops, DelayLoops
<1>2. number \in Nat /\ number < Word
  BY SideChainAssumption DEF Inv, Counters
<1>3. \A x : Row(rew, h, x) =>
        /\ x \in Nat /\ six <= x /\ x <= number
        /\ \A a \in DOMAIN rew[h][x] : rew[h][x][a] \in Nat
  BY DEF Inv, Rows, Row
<1>4. /\ \A x \in DOMAIN given[h] :
            x >= six => Row(rew, h, x) /\ rew[h][x] = given[h][x]
      /\ \A x : Row(rew, h, x) /\ x + two >= number => x \in DOMAIN given[h]
  BY DEF Inv, Waiting, Row
<1>5. p = Unsigned(((number + 1) - 1) - two)
  BY DEF PaidLoop
<1> HIDE DEF six, two, p
<1>6. ((number + 1) - 1) - two = e /\ e \in Int /\ -Word < e /\ e < Word
  BY <1>1, <1>2
<1>7. p = IF e >= 0 THEN e ELSE e + Word
  BY <1>5, <1>6, UnsignedIs
<1>8. ASSUME Row(rew, h, p)
      PROVE  /\ e >= six /\ e \in DOMAIN given[h]
             /\ rew[h][p] = given[h][e]
             /\ \A a \in DOMAIN given[h][e] : given[h][e][a] \in Nat
  <2>1. p \in Nat /\ six <= p /\ p <= number
    BY <1>3, <1>8
  <2>2. p = e
    BY <1>1, <1>2, <1>6, <1>7, <2>1
  <2>3. e >= six /\ e + two >= number
    BY <1>1, <1>2, <2>1, <2>2
  <2> HIDE DEF e
  <2>4. e \in DOMAIN given[h]
    BY <1>4, <1>8, <2>2, <2>3
  <2>5. rew[h][e] = given[h][e]
    BY <1>4, <2>3, <2>4
  <2> QED
    BY <1>3, <1>8, <2>2, <2>3, <2>4, <2>5
<1>9. ASSUME e >= six, e \in DOMAIN given[h] PROVE Row(rew, h, p)
  <2>1. p = e
    BY <1>1, <1>6, <1>7, <1>9
  <2> QED
    BY <1>4, <1>9, <2>1
<1> QED
  BY <1>8, <1>9 DEF six, two, p

LEMMA InvPaid == Inv => PaidAsScored
<1> SUFFICES ASSUME Inv PROVE PaidAsScored
  OBVIOUS
<1> DEFINE e == number - DelayLoops * MaxSignerCount
           conf == snap.confirmation
           p == PaidLoop(number + 1)
           reward == MinerReward(number + 1)
           asked == [h \in DOMAIN conf |-> conf[h].reward]
           base == RewardBase(asked)
           due(a) == {h \in DOMAIN conf : e >= ExpiredLoops * MaxSignerCount
                         /\ e \in DOMAIN given[h] /\ a \in DOMAIN given[h][e]}
           score(h, a) == IF h \in DOMAIN snap.reward
                             /\ p \in DOMAIN snap.reward[h]
                             /\ a \in DOMAIN snap.reward[h][p]
                          THEN snap.reward[h][p][a] ELSE 0
           pays(a) == [h \in DOMAIN conf |->
                         SingleReward(score(h, a), conf[h].reward, base, reward)]
           owed(a) == [h \in due(a) |->
                         SingleReward(given[h][e][a], conf[h].reward, base, reward)]
<1>1. \A h \in DOMAIN conf : h \in Hash /\ conf[h].reward \in Nat
  BY DEF Inv, Maps, IsConf, IsRecord
<1>2. IsFiniteSet(DOMAIN conf)
  BY <1>1, SideChainAssumption, FS_Subset
<1>3. reward \in Nat
  <2>1. number + 1 \in Nat
    BY SideChainAssumption DEF Inv, Counters
  <2> QED
    BY <2>1, RewardParts
<1>4. base \in Nat /\ base > 0
  <2>1. DOMAIN asked = DOMAIN conf /\ \A h \in DOMAIN asked : asked[h] \in Nat
    BY <1>1
  <2> HIDE DEF asked
  <2> QED
    BY <1>2, <2>1, BaseIs
<1> HIDE DEF base, reward
<1>5. \A h \in DOMAIN conf : \A a :
        /\ h \in due(a) => score(h, a) = given[h][e][a] /\ given[h][e][a] \in Nat
        /\ h \notin due(a) => score(h, a) = 0
  <2> SUFFICES ASSUME NEW h \in DOMAIN conf, NEW a
               PROVE  /\ h \in due(a) => score(h, a) = given[h][e][a]
                                         /\ given[h][e][a] \in Nat
                      /\ h \notin due(a) => score(h, a) = 0
    OBVIOUS
  <2>1. /\ Row(snap.reward, h, p) <=>
              e >= ExpiredLoops * MaxSignerCount /\ e \in DOMAIN given[h]
        /\ Row(snap.reward, h, p) =>
              /\ snap.reward[h][p] = given[h][e]
              /\ \A b \in DOMAIN given[h][e] : given[h][e][b] \in Nat
    BY <1>1, DueIs
  <2> HIDE DEF e, p
  <2> QED
    BY <2>1 DEF Row
<1> HIDE DEF e, p, due, score
<1>6. ASSUME NEW a PROVE SumOf(pays(a)) = SumOf(owed(a))
  <2>1. due(a) \subseteq DOMAIN conf
    BY DEF due
  <2>2. \A h \in DOMAIN conf : pays(a)[h] \in Nat
    <3> TAKE h \in DOMAIN conf
    <3>1. score(h, a) \in Nat
      BY <1>5
    <3> QED
      BY <1>1, <1>3, <1>4, <3>1, SingleNat
  <2>3. \A h \in due(a) : owed(a)[h] = pays(a)[h]
    BY <1>5, <2>1
  <2>4. \A h \in DOMAIN conf \ due(a) : pays(a)[h] = 0
    <3> TAKE h \in DOMAIN conf \ due(a)
    <3>1. score(h, a) = 0
      BY <1>5
    <3>2. SingleReward(0, conf[h].reward, base, reward) = 0
      <4>1. conf[h].reward \in Nat
        BY <1>1
      <4> QED
        BY <1>3, <1>4, <4>1, SingleNat
    <3> QED
      BY <3>1, <3>2
  <2>5. DOMAIN pays(a) = DOMAIN conf /\ DOMAIN owed(a) = due(a)
    OBVIOUS
  <2> HIDE DEF pays, owed
  <2>6. \A h \in DOMAIN pays(a) : pays(a)[h] \in Int
    BY <2>2, <2>5
  <2> QED
    BY <1>2, <2>1, <2>3, <2>4, <2>5, <2>6, SumOfZeros
<1>7. \A a \in Coinbase : SCReward(snap, number + 1)[a] = SumOf(pays(a))
  BY DEF SCReward, score, p, base, asked, reward
<1>8. \A a \in Coinbase : SCReward(snap, number + 1)[a] = SumOf(owed(a))
  BY <1>6, <1>7
<1>9. TypeOK
  BY InvType
<1> QED
  BY <1>8, <1>9, Zenon DEF PaidAsScored, e, due, base, asked, reward

\* Every variable has its type, and each block pays the coinbases of the side
\* chains for exactly the scores given two loops before its parent
\* (updateSCConfirmation, calculateSCReward).
THEOREM ScoresArePaid == Spec => []PaidAsScored
<1> QED
  BY SideChainInv, InvPaid, PTL

-----------------------------------------------------------------------------
(* Action properties. *)

LEMMA StepQuorum ==
    Inv /\ [Next]_vars =>
        [\A h \in DOMAIN snap.confirmation \cap DOMAIN snap'.confirmation :
            LET from == snap.confirmation[h].last
                to == snap'.confirmation[h].last
            IN  \/ to = from
                \/ to > from /\ \E i \in Listed(accepted'[h], MinConfirmed) :
                                    to = Last(i)[1]]_vars
<1> SUFFICES ASSUME Inv, Block,
                    NEW h \in DOMAIN snap.confirmation \cap DOMAIN snap'.confirmation
             PROVE  \/ snap'.confirmation[h].last = snap.confirmation[h].last
                    \/ /\ snap'.confirmation[h].last > snap.confirmation[h].last
                       /\ \E i \in Listed(accepted'[h], MinConfirmed) :
                             snap'.confirmation[h].last = Last(i)[1]
  BY DEF Next
<1>1. PICK C \in Carried, e \in Events :
        \E order : Stepped(Counted(e, C), C, e, order)
  BY BlockIs
<1>2. PICK order : Stepped(Counted(e, C), C, e, order)
  BY <1>1
<1> DEFINE conf == Counted(e, C)
           n == number + 1
           r == conf[h]
           cn == ConfirmedNumber(r)
<1>3. Stepped(conf, C, e, order)
  BY <1>2
<1> HIDE DEF conf
<1>4. /\ h \in DOMAIN conf /\ IsConf(conf)
      /\ r.last = snap.confirmation[h].last
      /\ snap'.confirmation[h] = IF EndsLoop(n) THEN Closed(r) ELSE r
      /\ accepted'[h] = r.record
  BY <1>3 DEF Stepped
<1>5. IsRecord(r, h)
  BY <1>4 DEF IsConf
<1> HIDE DEF r
<1>6. CASE EndsLoop(n)
  <2>1. snap'.confirmation[h].last = cn
    BY <1>4, <1>5, <1>6, ClosedIs
  <2>2. /\ cn \in Nat /\ cn >= r.last /\ r.last \in Nat
        /\ ConfirmedInfos(r) = Listed(r.record, MinConfirmed)
        /\ cn = r.last \/ \E i \in ConfirmedInfos(r) : cn = Last(i)[1]
    BY <1>5, ConfirmedIs DEF IsRecord
  <2>3. cn = r.last \/ cn > r.last
    BY <2>2
  <2> HIDE DEF cn
  <2> QED
    BY <1>4, <2>1, <2>2, <2>3
<1>7. CASE ~EndsLoop(n)
  BY <1>4, <1>7
<1> QED
  BY <1>6, <1>7

LEMMA StepScored ==
    Inv /\ Inv' /\ [Next]_vars =>
        [\A h \in DOMAIN snap.confirmation \cap DOMAIN snap'.confirmation :
            LET passed == (snap.confirmation[h].last + 1)..snap'.confirmation[h].last
                listed == UNION {Numbers(i) : i \in Listed(accepted'[h], MinConfirmed)}
            IN  /\ DOMAIN scored'[h] = DOMAIN scored[h] \cup (listed \cap passed)
                /\ \A m \in DOMAIN scored'[h] : scored'[h][m] = 1]_vars
<1> SUFFICES ASSUME Inv, Inv', Block,
                    NEW h \in DOMAIN snap.confirmation \cap DOMAIN snap'.confirmation
             PROVE  /\ DOMAIN scored'[h] = DOMAIN scored[h] \cup
                          ((UNION {Numbers(i) : i \in Listed(accepted'[h], MinConfirmed)})
                           \cap ((snap.confirmation[h].last + 1)
                                   ..snap'.confirmation[h].last))
                    /\ \A m \in DOMAIN scored'[h] : scored'[h][m] = 1
  BY DEF Next
<1>1. PICK C \in Carried, e \in Events :
        \E order : Stepped(Counted(e, C), C, e, order)
  BY BlockIs
<1>2. PICK order : Stepped(Counted(e, C), C, e, order)
  BY <1>1
<1> DEFINE conf == Counted(e, C)
           n == number + 1
           r == conf[h]
           cn == ConfirmedNumber(r)
           listed == UNION {Numbers(i) : i \in Listed(r.record, MinConfirmed)}
           passed == IF EndsLoop(n) THEN (r.last + 1)..cn ELSE {}
<1>3. Stepped(conf, C, e, order)
  BY <1>2
<1> HIDE DEF conf
<1>4. /\ h \in DOMAIN conf /\ IsConf(conf)
      /\ r.last = snap.confirmation[h].last
      /\ snap'.confirmation[h] = IF EndsLoop(n) THEN Closed(r) ELSE r
      /\ accepted'[h] = r.record
  BY <1>3 DEF Stepped
<1>5. DOMAIN scored'[h] = DOMAIN scored[h] \cup (passed \cap listed)
  BY <1>3, <1>4 DEF Stepped
<1>6. IsRecord(r, h)
  BY <1>4 DEF IsConf
<1>7. r.last \in Nat
  BY <1>6 DEF IsRecord
<1> HIDE DEF r
<1>8. passed = (r.last + 1)..snap'.confirmation[h].last
  <2>1. CASE EndsLoop(n)
    <3>1. snap'.confirmation[h].last = cn
      BY <1>4, <1>6, <2>1, ClosedIs
    <3> QED
      BY <2>1, <3>1
  <2>2. CASE ~EndsLoop(n)
    <3>1. snap'.confirmation[h].last = r.last
      BY <1>4, <2>2
    <3>2. (r.last + 1)..r.last = {}
      BY <1>7
    <3> QED
      BY <2>2, <3>1, <3>2
  <2> QED
    BY <2>1, <2>2
<1>9. \A m \in DOMAIN scored'[h] : scored'[h][m] = 1
  BY DEF Inv, Scoring
<1> HIDE DEF passed
<1> QED
  BY <1>4, <1>5, <1>8, <1>9

\* The last confirmed block of a side chain only advances, and only to the
\* oldest block of a loop that a quorum listed (calculateConfirmedNumber).
THEOREM QuorumConfirms == Spec => ConfirmedByQuorum
<1> QED
  BY SideChainInv, StepQuorum, PTL DEF Spec, ConfirmedByQuorum

\* Blocks that the last confirmed block passes are scored once if a quorum has
\* listed them, others never (updateSCConfirmation).
THEOREM ScoresOnce == Spec => ScoredOnce
<1> QED
  BY SideChainInv, StepScored, PTL DEF Spec, ScoredOnce

LEMMA WhoFunction ==
    ASSUME NEW r, NEW order
    PROVE  LET who == ConfirmedCoinbase(r, order) IN
           who = [m \in DOMAIN who |-> who[m]]
<1> DEFINE infos == ConfirmedInfos(r)
           lists(n) == {k \in DOMAIN order :
                          order[k] \in infos /\ n \in Numbers(order[k])}
           D == {n \in (r.last + 1)..ConfirmedNumber(r) : lists(n) # {}}
           whose(n) == SealerIn(order[Max(lists(n))], n)
<1>1. ConfirmedCoinbase(r, order) = [n \in D |-> whose(n)]
  BY DEF ConfirmedCoinbase
<1> HIDE DEF D, whose
<1> QED
  BY <1>1

\* The sealer that is scored for a block is the one some confirmed loop names.
LEMMA WhoAt ==
    ASSUME NEW r, NEW order, IsFiniteSet(DOMAIN order),
           \A k \in DOMAIN order : k \in Int,
           NEW m \in DOMAIN ConfirmedCoinbase(r, order)
    PROVE  \E i \in ConfirmedInfos(r) :
              m \in Numbers(i) /\ ConfirmedCoinbase(r, order)[m] = SealerIn(i, m)
<1> DEFINE infos == ConfirmedInfos(r)
           lists(n) == {k \in DOMAIN order :
                          order[k] \in infos /\ n \in Numbers(order[k])}
           D == {n \in (r.last + 1)..ConfirmedNumber(r) : lists(n) # {}}
<1>1. ConfirmedCoinbase(r, order) = [n \in D |-> SealerIn(order[Max(lists(n))], n)]
  BY DEF ConfirmedCoinbase
<1>2. m \in D /\ ConfirmedCoinbase(r, order)[m] = SealerIn(order[Max(lists(m))], m)
  BY <1>1
<1>3. Max(lists(m)) \in lists(m)
  <2> DEFINE S == lists(m)
  <2>1. S \subseteq DOMAIN order /\ S # {}
    BY <1>2
  <2> HIDE DEF S
  <2>2. IsFiniteSet(S) /\ \A x \in S : x \in Int
    BY <2>1, FS_Subset
  <2>3. Max(S) \in S
    BY <2>1, <2>2, MaxIs
  <2> QED
    BY <2>3 DEF S
<1> DEFINE i == order[Max(lists(m))]
<1>4. i \in infos /\ m \in Numbers(i)
  BY <1>3
<1> HIDE DEF i
<1> QED
  BY <1>2, <1>4 DEF i

\* Two quorums of the coinbases that sent something meet, or there are enough of
\* these for two.
LEMMA QuorumsMeet ==
    ASSUME NEW S, IsFiniteSet(S), NEW I, I \subseteq S, NEW J, J \subseteq S,
           NEW q \in Nat, Cardinality(I) >= q, Cardinality(J) >= q
    PROVE  I \cap J # {} \/ Cardinality(S) >= 2 * q
<1> SUFFICES ASSUME I \cap J = {} PROVE Cardinality(S) >= 2 * q
  OBVIOUS
<1>1. IsFiniteSet(I) /\ IsFiniteSet(J)
  BY FS_Subset
<1>2. IsFiniteSet(I \cup J)
      /\ Cardinality(I \cup J) = Cardinality(I) + Cardinality(J) - Cardinality(I \cap J)
  BY <1>1, FS_Union
<1>3. Cardinality(I \cap J) = 0
  BY FS_EmptySet
<1>4. Cardinality(I \cup J) <= Cardinality(S)
  <2>1. I \cup J \in SUBSET S
    OBVIOUS
  <2> QED
    BY <2>1, FS_Subset
<1>5. /\ Cardinality(I) \in Nat /\ Cardinality(J) \in Nat
      /\ Cardinality(I \cup J) \in Nat /\ Cardinality(S) \in Nat
  BY <1>1, <1>2, FS_CardinalityType
<1> QED
  BY <1>2, <1>3, <1>4, <1>5

\* Two quorums listed contradicting loops of side chain h, as far as C tells.
TwoQuorums(C) ==
    \E i, j \in {c.info : c \in C} :
        LET I == ListedBy(C, i)
            J == ListedBy(C, j)
        IN  /\ Conflict(i, j)
            /\ Cardinality(I) >= MinConfirmed /\ Cardinality(J) >= MinConfirmed
            /\ \/ I \cap J # {}
               \/ Cardinality({c.by : c \in C}) >= 2 * MinConfirmed

LEMMA StepSplit ==
    Inv /\ [Next]_vars => [split' => \E h \in Hash : TwoQuorums(accepted'[h])]_vars
<1> SUFFICES ASSUME Inv, Block, split'
             PROVE  \E h \in Hash : TwoQuorums(accepted'[h])
  BY DEF Next
<1>1. PICK C \in Carried, e \in Events :
        \E order : Stepped(Counted(e, C), C, e, order)
  BY BlockIs
<1>2. PICK order : Stepped(Counted(e, C), C, e, order)
  BY <1>1
<1> DEFINE conf == Counted(e, C)
           n == number + 1
           out == Outcomes(n, conf)
<1>3. Stepped(conf, C, e, order)
  BY <1>2
<1> HIDE DEF conf
<1>4. /\ IsConf(conf)
      /\ \A h \in DOMAIN conf : accepted'[h] = conf[h].record
      /\ split' = (Cardinality(Range(out)) > 1)
  BY <1>3 DEF Stepped
<1>5. \A h \in DOMAIN conf : \A c \in conf[h].record : c.by \in Coinbase
  BY <1>3, StepSealers
<1>6. PICK p \in DOMAIN out : \E q \in DOMAIN out : out[p] # out[q]
  <2> SUFFICES ASSUME \A p \in DOMAIN out : \A q \in DOMAIN out : out[p] = out[q]
               PROVE  FALSE
    OBVIOUS
  <2>1. Cardinality(Range(out)) > 1
    BY <1>4, Zenon
  <2> HIDE DEF out
  <2>2. CASE DOMAIN out = {}
    <3>1. Range(out) = {}
      BY <2>2 DEF Range
    <3> QED
      BY <2>1, <3>1, FS_EmptySet
  <2>3. CASE DOMAIN out # {}
    <3>1. PICK p \in DOMAIN out : TRUE
      BY <2>3
    <3>2. Range(out) = {out[p]}
      BY <3>1 DEF Range
    <3>3. Cardinality({out[p]}) = 1
      BY FS_Singleton
    <3> QED
      BY <2>1, <3>2, <3>3
  <2> QED
    BY <2>2, <2>3
<1>7. PICK q \in DOMAIN out : out[p] # out[q]
  BY <1>6
<1>8. /\ p \in Orders(n, conf) /\ q \in Orders(n, conf)
      /\ out[p] = [h \in DOMAIN conf |->
                     IF EndsLoop(n) THEN ConfirmedCoinbase(conf[h], p) ELSE <<>>]
      /\ out[q] = [h \in DOMAIN conf |->
                     IF EndsLoop(n) THEN ConfirmedCoinbase(conf[h], q) ELSE <<>>]
  BY DEF Outcomes
<1> HIDE DEF out, n
<1>9. EndsLoop(n)
  BY <1>7, <1>8
<1>10. PICK h \in DOMAIN conf : ConfirmedCoinbase(conf[h], p) # ConfirmedCoinbase(conf[h], q)
  BY <1>7, <1>8, <1>9
<1> DEFINE r == conf[h]
           one == ConfirmedCoinbase(r, p)
           two == ConfirmedCoinbase(r, q)
<1>11. h \in Hash /\ IsRecord(r, h) /\ accepted'[h] = r.record
       /\ \A c \in r.record : c.by \in Coinbase
  BY <1>4, <1>5 DEF IsConf
<1>12. /\ IsFiniteSet(DOMAIN p) /\ \A k \in DOMAIN p : k \in Int
       /\ IsFiniteSet(DOMAIN q) /\ \A k \in DOMAIN q : k \in Int
       /\ \A i \in ConfirmedInfos(r) : \E k \in DOMAIN p : p[k] = i
       /\ \A i \in ConfirmedInfos(r) : \E k \in DOMAIN q : q[k] = i
  BY <1>4, <1>8, <1>9, OrdersAll
<1> HIDE DEF r
<1>13. DOMAIN one = DOMAIN two
  <2> DEFINE D == ((r.last + 1)..ConfirmedNumber(r)) \cap
                  UNION {Numbers(i) : i \in Listed(r.record, MinConfirmed)}
  <2>1. DOMAIN one = D
    BY <1>11, <1>12, WhoIs
  <2>2. DOMAIN two = D
    BY <1>11, <1>12, WhoIs
  <2> QED
    BY <2>1, <2>2
<1>14. one # two
  BY <1>10 DEF r
<1>15. PICK m \in DOMAIN one : one[m] # two[m]
  <2>1. one = [m \in DOMAIN one |-> one[m]] /\ two = [m \in DOMAIN two |-> two[m]]
    BY WhoFunction
  <2> HIDE DEF one, two
  <2> QED
    BY <1>13, <1>14, <2>1
<1>16. PICK i \in ConfirmedInfos(r) : m \in Numbers(i) /\ one[m] = SealerIn(i, m)
  BY <1>12, WhoAt
<1>17. PICK j \in ConfirmedInfos(r) : m \in Numbers(j) /\ two[m] = SealerIn(j, m)
  BY <1>12, <1>13, WhoAt
<1> HIDE DEF one, two
<1>18. Conflict(i, j)
  BY <1>15, <1>16, <1>17 DEF Conflict
<1> DEFINE I == ListedBy(r.record, i)
           J == ListedBy(r.record, j)
           S == {c.by : c \in r.record}
<1>19. /\ i \in {c.info : c \in r.record} /\ j \in {c.info : c \in r.record}
       /\ Cardinality(I) >= MinConfirmed /\ Cardinality(J) >= MinConfirmed
  <2>1. i \in Listed(r.record, MinConfirmed) /\ j \in Listed(r.record, MinConfirmed)
    BY <1>11, ConfirmedIs
  <2> QED
    BY <2>1 DEF Listed
<1>20. I \subseteq S /\ J \subseteq S
  BY DEF ListedBy
<1>21. IsFiniteSet(S)
  <2>1. S \in SUBSET Coinbase
    BY <1>11
  <2> HIDE DEF S
  <2> QED
    BY <2>1, FS_Subset, SideChainAssumption
<1> HIDE DEF I, J, S
<1>22. I \cap J # {} \/ Cardinality(S) >= 2 * MinConfirmed
  BY <1>19, <1>20, <1>21, QuorumsMeet, QuorumPositive
<1>23. TwoQuorums(r.record)
  BY <1>18, <1>19, <1>22, Zenon DEF TwoQuorums, I, J, S
<1> QED
  BY <1>11, <1>23

\* Nodes score the same headers differently only if two quorums of coinbases
\* listed loops that contradict each other; a coinbase listed both, or enough
\* of them for two quorums sent confirmations, for any number of coinbases
\* (calculateConfirmedNumber, confirmedCoinbase).
THEOREM SplitNeedsTwoQuorums == Spec => SplitOnlyByTwoQuorums
<1>1. Inv /\ [Next]_vars => [split' => \E h \in Hash : TwoQuorums(accepted'[h])]_vars
  BY StepSplit
<1> QED
  BY <1>1, SideChainInv, PTL DEF Spec, SplitOnlyByTwoQuorums, TwoQuorums

-----------------------------------------------------------------------------
(* HeaderTime: the chains of block times.  A search runs in an RPC of the  *)
(* main chain and has no variable in common with the snapshot.             *)

\* What a chain is: numbers from 0 to its head, times a period apart.
LEMMA ChainFacts ==
    ASSUME NEW c \in Chains
    PROVE  /\ HeadOf(c) \in Nat /\ DOMAIN c = 0..HeadOf(c)
           /\ \A n \in DOMAIN c : c[n] \in Nat
           /\ \A n \in DOMAIN c : n > 0 => c[n] >= c[n - 1] + Period
           /\ Period \in Nat /\ Period > 0 /\ TrantorBlock \in Nat
<1>1. PICK last \in DOMAIN c : last \in Nat /\ DOMAIN c = 0..last
    BY HeaderTimeAssumption
<1>2. \A n \in DOMAIN c : n + 1 \notin DOMAIN c <=> n = last
    BY <1>1
<1>3. HeadOf(c) = last
    BY <1>1, <1>2 DEF HeadOf
<1> QED BY <1>1, <1>3, HeaderTimeAssumption

\* Along a chain times grow by at least a period per block.
LEMMA TimesGrow ==
    ASSUME NEW c \in Chains, NEW m \in DOMAIN c, NEW n \in DOMAIN c, m < n
    PROVE  c[m] + Period <= c[n]
<1> DEFINE Bad == {k \in DOMAIN c : m < k /\ c[k] < c[m] + Period}
<1>1. SUFFICES ASSUME Bad # {} PROVE FALSE
    BY ChainFacts
<1>2. Bad \subseteq Nat
    BY ChainFacts
<1>3. PICK k \in Bad : \A j \in Bad : k <= j
    <2> HIDE DEF Bad
    <2> QED BY <1>1, <1>2, LeastExists
<1>c. /\ HeadOf(c) \in Nat /\ DOMAIN c = 0..HeadOf(c) /\ Period \in Nat
      /\ \A i \in DOMAIN c : c[i] \in Nat
      /\ \A i \in DOMAIN c : i > 0 => c[i] >= c[i - 1] + Period
    BY ChainFacts
<1>4. /\ k \in Nat /\ m \in Nat /\ k \in DOMAIN c /\ m < k /\ c[k] < c[m] + Period
      /\ k - 1 \in DOMAIN c /\ c[k] >= c[k - 1] + Period
      /\ c[k] \in Nat /\ c[k - 1] \in Nat /\ c[m] \in Nat
    BY <1>c
<1>5. CASE k - 1 = m
    BY <1>4, <1>5, <1>c
<1>6. CASE k - 1 # m
    <2>1. m < k - 1
        BY <1>4, <1>6
    <2>2. k - 1 \notin Bad
        <3> HIDE DEF Bad
        <3> QED BY <1>3, <1>4
    <2>3. ~(c[k - 1] < c[m] + Period)
        BY <1>4, <2>1, <2>2
    <2> QED BY <2>3, <1>4, <1>c
<1> QED BY <1>5, <1>6

-----------------------------------------------------------------------------
(* The inductive invariant of a search. *)

Calling == pc \in {"search", "found", "unknown"}

\* While no block is replaced, the chain still has every block up to the head
\* the search began with, and the header in hand is one of them.
HeaderOnChain ==
    Calling /\ stable /\ pc # "unknown" =>
        /\ top \in DOMAIN chain /\ TrantorBlock <= top
        /\ header.number \in TrantorBlock..top
        /\ header = At(chain, header.number)
        /\ maxN <= top
        /\ top = TrantorBlock => header.number = top

\* A block that is looked for and was not read yet lies strictly inside the
\* range, or is TrantorBlock.
NotPassed ==
    pc = "search" /\ stable =>
        \A n \in TrantorBlock..top :
            Within(At(chain, n), target) =>
                \/ n = TrantorBlock \/ n = header.number
                \/ minN < n /\ n < maxN

SearchInv ==
    /\ SearchExact
    /\ minN \in Nat /\ maxN \in Nat /\ top \in Nat
    /\ HeaderOnChain
    /\ NotPassed

-----------------------------------------------------------------------------
(* The steps of a search. *)

\* The next number to look at lies strictly inside the range.
LEMMA NextInRange ==
    ASSUME SearchTypeOK, minN \in Nat, maxN \in Nat, minN <= maxN, ~Exhausted
    PROVE  NextN \in Nat /\ minN < NextN /\ NextN < maxN
<1> DEFINE guess == ((target - header.time) \div Period) + header.number
<1>1. guess \in Int
    <2>1. target \in Nat /\ header.time \in Nat /\ header.number \in Nat
          /\ Period \in Nat /\ Period > 0
        BY HeaderTimeAssumption DEF SearchTypeOK
    <2>2. target - header.time \in Int
        BY <2>1
    <2>3. (target - header.time) \div Period \in Int
        BY <2>1, <2>2
    <2> QED BY <2>1, <2>3
<1> HIDE DEF guess
<1>2. NextN = IF guess >= maxN \/ guess <= minN THEN (maxN + minN) \div 2 ELSE guess
    BY DEF NextN, guess
<1>3. minN + 2 <= maxN
    BY DEF Exhausted
<1> QED BY <1>1, <1>2, <1>3

\* At most one block has a time in its period.
LEMMA HitUnique ==
    ASSUME NEW c \in Chains, NEW t \in Nat, NEW m \in DOMAIN c, NEW n \in DOMAIN c,
           Within(At(c, m), t), Within(At(c, n), t)
    PROVE  m = n
<1>1. /\ c[m] <= t /\ t < c[m] + Period
      /\ c[n] <= t /\ t < c[n] + Period
    BY DEF Within, At
<1>2. c[m] \in Nat /\ c[n] \in Nat /\ Period \in Nat /\ m \in Nat /\ n \in Nat
    BY ChainFacts
<1>3. ~(m < n) /\ ~(n < m)
    BY <1>1, <1>2, TimesGrow
<1> QED BY <1>2, <1>3

LEMMA SearchInitInv == SearchInit => SearchInv
<1> SUFFICES ASSUME SearchInit PROVE SearchInv
    OBVIOUS
<1>1. chain \in Chains /\ 0 \in DOMAIN chain /\ chain[0] \in Nat
    BY ChainFacts DEF SearchInit
<1> QED BY <1>1, HeaderTimeAssumption
        DEF SearchInit, SearchInv, SearchExact, SearchTypeOK, At, HeaderOnChain, NotPassed, Calling

LEMMA AskInv == SearchInv /\ Ask => SearchInv'
<1> SUFFICES ASSUME SearchInv, Ask PROVE SearchInv'
    OBVIOUS
<1> DEFINE h == HeadOf(chain)
<1>1. /\ chain \in Chains /\ h \in Nat /\ DOMAIN chain = 0..h
      /\ \A n \in DOMAIN chain : chain[n] \in Nat
      /\ TrantorBlock \in Nat /\ Period \in Nat /\ Targets \subseteq Nat
    BY ChainFacts, HeaderTimeAssumption DEF SearchInv, SearchExact, SearchTypeOK
<1>2. /\ header' = At(chain, h) /\ header'.number = h /\ header'.time = chain[h]
      /\ minN' = TrantorBlock /\ maxN' = h /\ top' = h /\ chain' = chain
      /\ stable' = TRUE /\ changes' = changes /\ target' \in Targets
      /\ pc' = IF Refuses(header', target') THEN "unknown" ELSE "search"
    BY DEF Ask, At
<1> HIDE DEF h
<1>3. pc' = "search" => TrantorBlock <= h
    BY <1>1, <1>2 DEF Refuses
<1>4. SearchTypeOK'
    BY <1>1, <1>2, <1>3 DEF SearchInv, SearchExact, SearchTypeOK
<1>5. ASSUME pc' = "unknown", NEW n \in TrantorBlock..h, Within(At(chain, n), target')
      PROVE  FALSE
    <2>1. n \in DOMAIN chain /\ h \in DOMAIN chain /\ target' \in Nat
        BY <1>1, <1>2
    <2>2. chain[n] <= chain[h]
        BY <2>1, <1>1, TimesGrow
    <2>3. target' < chain[n] + Period
        BY <1>5 DEF Within, At
    <2>4. h < TrantorBlock \/ target' > chain[h] + Period
        BY <1>2, <1>5 DEF Refuses
    <2> QED BY <2>1, <2>2, <2>3, <2>4, <1>1
<1>6. SearchExact'
    <2>1. pc' # "found"
        BY <1>2
    <2> QED BY <1>2, <1>4, <1>5, <2>1 DEF SearchExact
<1>7. HeaderOnChain'
    BY <1>1, <1>2, <1>3 DEF HeaderOnChain, Calling
<1>8. NotPassed'
    BY <1>1, <1>2 DEF NotPassed
<1> QED BY <1>1, <1>2, <1>6, <1>7, <1>8 DEF SearchInv

\* Found: the header in hand is the one looked for, and there is no other.
LEMMA FoundInv == SearchInv /\ Found => SearchInv'
<1> SUFFICES ASSUME SearchInv, Found PROVE SearchInv'
    OBVIOUS
<1>1. /\ pc = "search" /\ pc' = "found" /\ Within(header, target)
      /\ UNCHANGED <<chain, target, header, minN, maxN, changes, top, stable>>
    BY DEF Found
<1>2. SearchTypeOK'
    BY <1>1 DEF SearchInv, SearchExact, SearchTypeOK
<1>3. ASSUME stable
      PROVE  {n \in TrantorBlock..top : n \in DOMAIN chain /\ Within(At(chain, n), target)}
                = {header.number}
    <2>1. /\ top \in DOMAIN chain /\ header.number \in TrantorBlock..top
          /\ header = At(chain, header.number)
        BY <1>1, <1>3 DEF SearchInv, HeaderOnChain, Calling
    <2>2. chain \in Chains /\ target \in Nat
        BY HeaderTimeAssumption DEF SearchInv, SearchExact, SearchTypeOK
    <2>3. header.number \in DOMAIN chain /\ Within(At(chain, header.number), target)
        BY <1>1, <2>1, <2>2, ChainFacts
    <2>4. ASSUME NEW n \in DOMAIN chain, Within(At(chain, n), target)
          PROVE  n = header.number
        BY <2>2, <2>3, <2>4, HitUnique
    <2> QED BY <2>1, <2>3, <2>4
<1>4. SearchExact'
    BY <1>1, <1>2, <1>3 DEF SearchExact
<1>5. HeaderOnChain' /\ NotPassed'
    BY <1>1 DEF SearchInv, HeaderOnChain, NotPassed, Calling
<1> QED BY <1>1, <1>4, <1>5 DEF SearchInv

\* GiveUp: nothing is left inside the range, and its header is on the chain.
LEMMA GiveUpInv == SearchInv /\ GiveUp => SearchInv'
<1> SUFFICES ASSUME SearchInv, GiveUp PROVE SearchInv'
    OBVIOUS
<1>1. /\ pc = "search" /\ pc' = "unknown" /\ ~Within(header, target)
      /\ Exhausted \/ NextN \notin DOMAIN chain
      /\ UNCHANGED <<chain, target, header, minN, maxN, changes, top, stable>>
    BY DEF GiveUp
<1>2. SearchTypeOK'
    BY <1>1 DEF SearchInv, SearchExact, SearchTypeOK
<1>3. SearchTypeOK /\ chain \in Chains /\ minN \in Nat /\ maxN \in Nat /\ minN <= maxN
    BY <1>1 DEF SearchInv, SearchExact, SearchTypeOK
<1>4. ASSUME stable
      PROVE  LET hits == {n \in TrantorBlock..top :
                             n \in DOMAIN chain /\ Within(At(chain, n), target)}
             IN  hits \subseteq {TrantorBlock} /\ top \notin hits
    <2>1. /\ top \in DOMAIN chain /\ TrantorBlock <= top
          /\ header = At(chain, header.number) /\ maxN <= top
          /\ top = TrantorBlock => header.number = top
        BY <1>1, <1>4 DEF SearchInv, HeaderOnChain, Calling
    <2>2. Exhausted
        <3> SUFFICES ASSUME ~Exhausted PROVE NextN \in DOMAIN chain
            BY <1>1
        <3> QED BY <1>3, <2>1, NextInRange, ChainFacts
    <2>3. ASSUME NEW n \in TrantorBlock..top, Within(At(chain, n), target)
          PROVE  n = TrantorBlock /\ n # header.number
        <3>1. n # header.number
            BY <1>1, <2>1, <2>3
        <3>2. n \in Int /\ ~(minN < n /\ n < maxN)
            BY <1>3, <2>2, ChainFacts DEF Exhausted
        <3> QED BY <1>1, <1>4, <2>3, <3>1, <3>2 DEF SearchInv, NotPassed
    <2> QED BY <2>1, <2>3
<1>5. SearchExact'
    BY <1>1, <1>2, <1>4 DEF SearchExact
<1>6. HeaderOnChain' /\ NotPassed'
    BY <1>1 DEF HeaderOnChain, NotPassed
<1> QED BY <1>1, <1>5, <1>6 DEF SearchInv

\* Probe: the range is cut where the new header lies, and no block looked for
\* is cut off, since times grow along the chain.
LEMMA ProbeInv == SearchInv /\ Probe => SearchInv'
<1> SUFFICES ASSUME SearchInv, Probe PROVE SearchInv'
    OBVIOUS
<1>1. /\ pc = "search" /\ pc' = "search" /\ ~Within(header, target) /\ ~Exhausted
      /\ NextN \in DOMAIN chain /\ header' = At(chain, NextN)
      /\ UNCHANGED <<chain, target, changes, top, stable>>
    BY DEF Probe
<1>2. SearchTypeOK /\ chain \in Chains /\ minN \in Nat /\ maxN \in Nat
      /\ TrantorBlock <= minN /\ minN <= maxN /\ target \in Nat
    BY <1>1, HeaderTimeAssumption DEF SearchInv, SearchExact, SearchTypeOK
<1>3. NextN \in Nat /\ minN < NextN /\ NextN < maxN
    BY <1>1, <1>2, NextInRange
<1>4. header'.number = NextN /\ header'.time = chain[NextN] /\ chain[NextN] \in Nat
    BY <1>1, <1>2, ChainFacts DEF At
<1>5. \/ chain[NextN] >= target /\ maxN' = NextN /\ minN' = minN
      \/ chain[NextN] < target /\ minN' = NextN /\ maxN' = maxN
    <2>1. IF header'.time >= target
          THEN maxN' = (IF NextN < maxN THEN NextN ELSE maxN) /\ minN' = minN
          ELSE minN' = (IF NextN > minN THEN NextN ELSE minN) /\ maxN' = maxN
        BY DEF Probe
    <2> HIDE DEF NextN
    <2> QED BY <2>1, <1>2, <1>3, <1>4
<1> HIDE DEF NextN
<1>6. SearchTypeOK'
    <2>1. TrantorBlock <= minN' /\ minN' <= maxN'
        BY <1>2, <1>3, <1>5, ChainFacts
    <2> QED BY <1>1, <1>3, <1>4, <2>1 DEF SearchInv, SearchExact, SearchTypeOK
<1>7. SearchExact'
    BY <1>1, <1>6 DEF SearchExact
<1>8. HeaderOnChain'
    <2> SUFFICES ASSUME stable
                 PROVE  /\ top \in DOMAIN chain /\ TrantorBlock <= top
                        /\ NextN \in TrantorBlock..top /\ maxN' <= top
                        /\ top # TrantorBlock
        BY <1>1, <1>4 DEF HeaderOnChain, Calling
    <2>1. top \in DOMAIN chain /\ TrantorBlock <= top /\ maxN <= top
        BY <1>1 DEF SearchInv, HeaderOnChain, Calling
    <2> QED BY <2>1, <1>2, <1>3, <1>5, ChainFacts
<1>9. NotPassed'
    <2> SUFFICES ASSUME stable, NEW n \in TrantorBlock..top, Within(At(chain, n), target)
                 PROVE  n = TrantorBlock \/ n = NextN \/ (minN' < n /\ n < maxN')
        BY <1>1, <1>4 DEF NotPassed
    <2>1. top \in DOMAIN chain /\ header = At(chain, header.number)
        BY <1>1 DEF SearchInv, HeaderOnChain, Calling
    <2>2. n = TrantorBlock \/ (minN < n /\ n < maxN)
        BY <1>1, <2>1 DEF SearchInv, NotPassed
    <2>3. n \in DOMAIN chain /\ n \in Nat /\ chain[n] \in Nat /\ Period \in Nat
        BY <2>1, <1>2, ChainFacts
    <2>4. chain[n] <= target /\ target < chain[n] + Period
        BY DEF Within, At
    <2>5. CASE chain[NextN] >= target /\ maxN' = NextN /\ minN' = minN
        <3>1. ~(NextN < n)
            BY <1>1, <1>2, <1>4, <2>3, <2>4, <2>5, TimesGrow, ChainFacts
        <3> QED BY <3>1, <2>2, <2>3, <2>5, <1>3
    <2>6. CASE chain[NextN] < target /\ minN' = NextN /\ maxN' = maxN
        <3>1. ~(n < NextN)
            BY <1>1, <1>2, <1>4, <2>3, <2>4, <2>6, TimesGrow
        <3> QED BY <3>1, <2>2, <2>3, <2>6, <1>3
    <2> QED BY <1>5, <2>5, <2>6
<1>10. minN' \in Nat /\ maxN' \in Nat /\ top' \in Nat
    BY <1>1, <1>2, <1>3, <1>5 DEF SearchInv
<1> QED BY <1>7, <1>8, <1>9, <1>10 DEF SearchInv

\* ChangeChain: the part of the chain a stable search depends on stays.
LEMMA ChangeInv == SearchInv /\ ChangeChain => SearchInv'
<1> SUFFICES ASSUME SearchInv, ChangeChain PROVE SearchInv'
    OBVIOUS
<1>1. PICK c \in Chains : /\ chain' = c
                          /\ stable' = (stable /\ \A n \in 0..top :
                                n \in DOMAIN c \cap DOMAIN chain /\ c[n] = chain[n])
    BY DEF ChangeChain
<1>2. /\ changes < MaxChanges /\ changes' = changes + 1
      /\ UNCHANGED <<pc, target, header, minN, maxN, top>>
    BY DEF ChangeChain
<1>3. stable' \in BOOLEAN
    BY <1>1, Zenon
<1>4. SearchTypeOK'
    BY <1>1, <1>2, <1>3, HeaderTimeAssumption DEF SearchInv, SearchExact, SearchTypeOK
<1>5. ASSUME stable'
      PROVE  /\ stable
             /\ \A n \in 0..top : n \in DOMAIN chain /\ n \in DOMAIN c /\ c[n] = chain[n]
    BY <1>1, <1>5
<1>6. TrantorBlock \in Nat /\ top \in Nat
    BY HeaderTimeAssumption DEF SearchInv
<1>7. ASSUME stable' PROVE \A n \in TrantorBlock..top : At(c, n) = At(chain, n)
    BY <1>5, <1>6, <1>7 DEF At
<1>8. ASSUME stable'
      PROVE  {n \in TrantorBlock..top : n \in DOMAIN c /\ Within(At(c, n), target)} =
             {n \in TrantorBlock..top : n \in DOMAIN chain /\ Within(At(chain, n), target)}
    BY <1>5, <1>6, <1>7, <1>8
<1>9. SearchExact'
    BY <1>1, <1>2, <1>4, <1>5, <1>8 DEF SearchInv, SearchExact
<1>10. HeaderOnChain'
    <2> SUFFICES ASSUME Calling, pc # "unknown", stable'
                 PROVE  /\ top \in DOMAIN c /\ TrantorBlock <= top
                        /\ header.number \in TrantorBlock..top
                        /\ header = At(c, header.number)
                        /\ maxN <= top
                        /\ top = TrantorBlock => header.number = top
        BY <1>1, <1>2 DEF HeaderOnChain, Calling
    <2>1. /\ TrantorBlock <= top /\ header.number \in TrantorBlock..top
          /\ header = At(chain, header.number) /\ maxN <= top
          /\ top = TrantorBlock => header.number = top
        BY <1>5 DEF SearchInv, HeaderOnChain
    <2>2. top \in DOMAIN c
        BY <1>5, <1>6
    <2> QED BY <1>7, <2>1, <2>2
<1>11. NotPassed'
    BY <1>1, <1>2, <1>5, <1>7 DEF SearchInv, NotPassed
<1> QED BY <1>2, <1>9, <1>10, <1>11 DEF SearchInv

LEMMA ReturnInv == SearchInv /\ Return => SearchInv'
BY DEF Return, SearchInv, SearchExact, SearchTypeOK, HeaderOnChain, NotPassed, Calling

\* For every chain and every number of changes: unless a block is replaced
\* under it, GetSnapshotByHeaderTime finds the block in whose period the time
\* falls, if there is one, and nothing else; TrantorBlock is the exception.
THEOREM SearchIsExact == SearchSpec => []SearchExact
<1>1. SearchInit => SearchInv
    BY SearchInitInv
<1>2. SearchInv /\ [SearchNext]_searchVars => SearchInv'
    <2> SUFFICES ASSUME SearchInv, [SearchNext]_searchVars PROVE SearchInv'
        OBVIOUS
    <2>1. CASE Ask BY <2>1, AskInv
    <2>2. CASE Found BY <2>2, FoundInv
    <2>3. CASE GiveUp BY <2>3, GiveUpInv
    <2>4. CASE Probe BY <2>4, ProbeInv
    <2>5. CASE ChangeChain BY <2>5, ChangeInv
    <2>6. CASE Return BY <2>6, ReturnInv
    <2>7. CASE UNCHANGED searchVars
        BY <2>7 DEF searchVars, SearchInv, SearchExact, SearchTypeOK, HeaderOnChain, NotPassed, Calling
    <2> QED BY <2>1, <2>2, <2>3, <2>4, <2>5, <2>6, <2>7 DEF SearchNext, Search
<1>3. SearchInv => SearchExact
    BY DEF SearchInv
<1> QED BY <1>1, <1>2, <1>3, PTL DEF SearchSpec

=============================================================================
