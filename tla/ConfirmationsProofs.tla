------------------------- MODULE ConfirmationsProofs -------------------------
(***************************************************************************)
(* Proofs about Confirmations: ConfirmedBlockNumber never goes back once   *)
(* the chain is long enough, it is always supported then, no confirmed     *)
(* block is overlooked, and forgetting old confirmations does not depend   *)
(* on how headers are grouped into calls of apply.                         *)
(*                                                                         *)
(* At the end, proofs about WorkerLoops, the goroutines that send the      *)
(* confirm transactions and seal the blocks, for channels of any capacity  *)
(* and chains of any length: the locks are held where the code takes them  *)
(* and nowhere else, and the two ways the loops can jam are for good.      *)
(***************************************************************************)
EXTENDS Confirmations, WorkerLoops, FiniteSetTheorems, WellFoundedInduction, TLAPS

-----------------------------------------------------------------------------
(* Lemmas. *)

\* A nonempty set of naturals up to n has a greatest element.
LEMMA GreatestExists ==
    ASSUME NEW n \in Nat, NEW S, S \subseteq 0..n, S # {}
    PROVE  \E i \in S : \A j \in S : j <= i
<1> DEFINE T == {n - i : i \in S}
<1> DEFINE R == OpToRel(<, Nat)
<1>1. T \subseteq Nat /\ T # {}
    <2> HIDE DEF R
    <2>1. \A i \in S : n - i \in Nat
        OBVIOUS
    <2>2. \E i \in S : n - i \in T
        OBVIOUS
    <2> QED BY <2>1, <2>2
<1>2. IsWellFoundedOn(R, Nat)
    BY NatLessThanWellFounded
<1> HIDE DEF T
<1>3. PICK x \in T : \A y \in T : ~(<<y, x>> \in R)
    <2> HIDE DEF R
    <2> QED BY <1>1, <1>2, WFMin
<1>4. \A y \in T : x <= y
    <2>1. R = {ss \in Nat \X Nat : ss[1] < ss[2]}
        BY DEF OpToRel
    <2> HIDE DEF R
    <2>2. \A y \in T : y < x => <<y, x>> \in R
        BY <1>1, <2>1
    <2>3. \A y \in T : ~(y < x)
        BY <1>3, <2>2, Zenon
    <2>4. x \in Nat /\ \A y \in T : y \in Nat
        BY <1>1, <1>3
    <2> QED BY <2>3, <2>4
<1>5. PICK i \in S : x = n - i
    BY DEF T
<1>6. ASSUME NEW j \in S PROVE j <= i
    <2>1. n - j \in T
        BY DEF T
    <2> QED BY <2>1, <1>4, <1>5
<1> QED BY <1>6

\* The signers of C that confirm block b.
New(C, b) == {c.signer : c \in {d \in C : d.block = b}}

\* What a number subtraction in range returns, and where the search ends.
LEMMA UintFacts ==
    /\ \A x \in Nat : Uint(x) = x
    /\ Quorum \in Nat /\ Quorum <= MaxSignerCount
    /\ \A n \in Nat : n >= Quorum - 1 => Low(n) = n - Quorum + 1
    /\ \A n \in 0..MaxNumber : n < Quorum - 1 => Low(n) > n
<1>1. MaxSignerCount \in Nat /\ MaxSignerCount > 0
      /\ Word \in Nat /\ Word > MaxNumber + MaxSignerCount /\ MaxNumber \in Nat
    BY ConfirmationsAssumption
<1>2. Quorum \in Nat /\ Quorum <= MaxSignerCount
    BY <1>1 DEF Quorum
<1> QED BY <1>1, <1>2 DEF Uint, Low

\* getLastConfirmedBlockNumber: the result lies at or above the end of the
\* search, at or above every confirmed block, and is one or the other.
LEMMA GetLastFacts ==
    ASSUME NEW n \in 0..MaxNumber, NEW m, IsConfirmations(m)
    PROVE  LET g == GetLastConfirmed(n, m) IN
           /\ g \in 0..n
           /\ n >= Quorum - 1 =>
                /\ g = n \/ g >= n - Quorum + 1
                /\ \A i \in DOMAIN m :
                      i <= n /\ Cardinality(m[i]) > Quorum => i <= g
                /\ \/ g = n - Quorum + 1
                   \/ Quorum = 0 /\ g = n
                   \/ g \in DOMAIN m /\ Cardinality(m[g]) > Quorum
<1> DEFINE hits == ConfirmedAbove(n, m)
<1>1. MaxNumber \in Nat /\ n \in Nat /\ Low(n) \in Nat
    <2>1. MaxSignerCount \in Nat /\ Word \in Nat
          /\ Word > MaxNumber + MaxSignerCount /\ MaxNumber \in Nat
        BY ConfirmationsAssumption
    <2>2. Quorum \in Nat /\ Quorum <= MaxSignerCount
        BY UintFacts
    <2> QED BY <2>1, <2>2 DEF Low, Uint
<1>2. hits \subseteq 0..n
    BY <1>1 DEF ConfirmedAbove, IsConfirmations
<1>3. CASE hits # {}
    <2>1. \E i \in hits : \A j \in hits : j <= i
        <3> HIDE DEF hits
        <3> QED BY <1>1, <1>2, <1>3, GreatestExists
    <2> DEFINE g == GetLastConfirmed(n, m)
    <2>2. g \in hits /\ \A j \in hits : j <= g
        BY <1>3, <2>1 DEF GetLastConfirmed
    <2>3. g \in 0..n /\ g > Low(n) /\ g \in DOMAIN m /\ Cardinality(m[g]) > Quorum
        BY <2>2, <1>2 DEF ConfirmedAbove
    <2>4. \A i \in DOMAIN m : i <= n /\ Cardinality(m[i]) > Quorum => i <= g
        <3> SUFFICES ASSUME NEW i \in DOMAIN m, i <= n, Cardinality(m[i]) > Quorum
                     PROVE  i <= g
            OBVIOUS
        <3>1. i \in Nat
            BY <1>1 DEF IsConfirmations
        <3>2. CASE i > Low(n)
            BY <2>2, <3>2 DEF ConfirmedAbove
        <3>3. CASE ~(i > Low(n))
            BY <2>3, <3>1, <3>3, <1>1
        <3> QED BY <3>2, <3>3
    <2> HIDE DEF g
    <2>5. n >= Quorum - 1 => g >= n - Quorum + 1
        BY <2>3, <1>1, UintFacts
    <2> QED BY <2>3, <2>4, <2>5 DEF g
<1>4. CASE hits = {}
    <2> DEFINE g == GetLastConfirmed(n, m)
    <2>1. g = IF n > Low(n) THEN Low(n) ELSE n
        BY <1>4 DEF GetLastConfirmed
    <2>2. \A i \in DOMAIN m : i <= n /\ Cardinality(m[i]) > Quorum => i <= Low(n)
        BY <1>1, <1>4 DEF ConfirmedAbove, IsConfirmations
    <2> HIDE DEF g, hits
    <2>3. g \in 0..n
        BY <2>1, <1>1
    <2>4. ASSUME n >= Quorum - 1
          PROVE  /\ g = n \/ g >= n - Quorum + 1
                 /\ g = n - Quorum + 1 \/ (Quorum = 0 /\ g = n)
        BY <2>1, <2>4, <1>1, UintFacts
    <2>5. \A i \in DOMAIN m : i <= n /\ Cardinality(m[i]) > Quorum => i <= g
        BY <2>1, <2>2, <1>1 DEF IsConfirmations
    <2> QED BY <2>3, <2>4, <2>5 DEF g
<1> QED BY <1>3, <1>4

\* updateSnapshotByConfirmations keeps the type and only adds.
LEMMA UpdateFacts ==
    ASSUME NEW m, IsConfirmations(m),
           NEW C, C \subseteq [signer : Signer, block : 1..MaxNumber]
    PROVE  LET u == UpdateByConfirmations(m, C) IN
           /\ IsConfirmations(u)
           /\ DOMAIN u = DOMAIN m \cup {c.block : c \in C}
           /\ \A b \in DOMAIN u : u[b] = Confirmers(m, b) \cup New(C, b)
<1> DEFINE u == UpdateByConfirmations(m, C)
<1>1. /\ DOMAIN u = DOMAIN m \cup {c.block : c \in C}
      /\ \A b \in DOMAIN u : u[b] = Confirmers(m, b) \cup New(C, b)
    BY DEF UpdateByConfirmations, New
<1>2. \A b : Confirmers(m, b) \subseteq Signer /\ New(C, b) \subseteq Signer
    BY DEF Confirmers, New, IsConfirmations
<1>3. DOMAIN u \subseteq 1..MaxNumber
    BY <1>1 DEF IsConfirmations
<1>4. u \in [DOMAIN u -> SUBSET Signer]
    <2>1. u = [b \in DOMAIN u |-> u[b]]
        BY DEF UpdateByConfirmations
    <2> HIDE DEF u
    <2>2. \A b \in DOMAIN u : u[b] \in SUBSET Signer
        BY <1>1, <1>2
    <2> QED BY <2>1, <2>2
<1> QED BY <1>1, <1>3, <1>4 DEF IsConfirmations

-----------------------------------------------------------------------------
(* The inductive invariant. *)

\* The confirmations of the header being built are of recent blocks, by
\* addresses in the signer queue of the block.
ExtraFromQueue ==
    \A c \in extra : /\ c.block \in 1..number
                     /\ (number + 1) - c.block <= MaxSignerCount
                     /\ c.signer \in queue[c.block]

\* So are those received, and none of them is of the head itself.
ReceivedFromQueue ==
    \A b \in DOMAIN received :
        /\ b \in 1..(number - 1)
        /\ received[b] \subseteq queue[b]

\* m is what was received, up to old blocks.
Kept(m) ==
    /\ DOMAIN m \subseteq DOMAIN received
    /\ \A b \in DOMAIN m : m[b] = received[b]
    /\ \A b \in DOMAIN received : number - b <= MaxSignerCount => b \in DOMAIN m

\* Wherever the call of apply began, its copy has all that is not old.
BaseKept == Kept(base)

\* What the head's ConfirmedBlockNumber is.
ConfirmedFacts ==
    /\ number = 0 => confirmed = 0
    /\ number > 0 => confirmed \in 0..(number - 1)
    /\ number > 0 /\ number >= Quorum =>
          \/ confirmed = number - Quorum
          \/ Quorum = 0 /\ confirmed = number - 1
          \/ confirmed \in DOMAIN received /\ Cardinality(received[confirmed]) > Quorum

ConfirmInv ==
    TypeOK /\ ExpiryTransparent /\ BaseKept /\ ExtraFromQueue /\ ReceivedFromQueue
    /\ ConfirmedFacts /\ ConfirmedIsLast

\* The invariant holds at genesis.
LEMMA InitInv == Init => ConfirmInv
<1> SUFFICES ASSUME Init PROVE ConfirmInv
    OBVIOUS
<1>1. MaxNumber \in Nat
    BY ConfirmationsAssumption
<1>2. /\ IsConfirmations(confirmations) /\ IsConfirmations(base)
      /\ IsConfirmations(received) /\ candidates \subseteq Signer
    BY ConfirmationsAssumption DEF Init, IsConfirmations
<1>3. failed \in BOOLEAN
    BY Zenon DEF Init
<1>4. TypeOK
    BY <1>1, <1>2, <1>3 DEF Init, TypeOK
<1>5. ExpiryTransparent
    BY DEF Init, ExpiryTransparent, Restrict
<1>6. BaseKept
    BY DEF Init, BaseKept, Kept
<1> QED BY <1>4, <1>5, <1>6, UintFacts
    DEF Init, ConfirmInv, ExtraFromQueue, ReceivedFromQueue, ConfirmedFacts, ConfirmedIsLast

\* Including one more confirmation preserves the invariant.
LEMMA IncludePreserves ==
    ASSUME ConfirmInv, IncludeConfirm
    PROVE  ConfirmInv'
<1> USE DEF ConfirmInv
<1>1. PICK s \in Signer, b \in 0..MaxNumber :
          extra' = IF ConfirmAccepted(s, b)
                   THEN extra \cup {[signer |-> s, block |-> b]} ELSE extra
    BY DEF IncludeConfirm
<1>2. UNCHANGED <<number, queue, candidates, confirmed, confirmations, base,
                  received, failed>>
    BY DEF IncludeConfirm
<1>3. /\ number \in 0..MaxNumber /\ MaxSignerCount \in Nat
      /\ extra \subseteq [signer : Signer, block : 1..MaxNumber]
      /\ MaxNumber \in Nat
    BY ConfirmationsAssumption DEF TypeOK
<1>4. \A c \in extra' :
          c \in [signer : Signer, block : 1..MaxNumber]
          /\ c.block \in 1..number /\ c.signer \in queue[c.block]
          /\ (number + 1) - c.block <= MaxSignerCount
    BY <1>1, <1>3, UintFacts DEF ConfirmAccepted, ExtraFromQueue
<1>5. TypeOK'
    BY <1>2, <1>4 DEF TypeOK, IsConfirmations
<1>6. ExtraFromQueue'
    BY <1>2, <1>4 DEF ExtraFromQueue
<1>7. (ExpiryTransparent /\ BaseKept /\ ReceivedFromQueue /\ ConfirmedFacts
        /\ ConfirmedIsLast)'
    BY <1>2 DEF ExpiryTransparent, BaseKept, Kept, ReceivedFromQueue, ConfirmedFacts, ConfirmedIsLast
<1> QED BY <1>5, <1>6, <1>7

\* A copy of what was received, old blocks aside, is still one when a block's
\* confirmations are added to both.
LEMMA UpdateKept ==
    ASSUME ConfirmInv, NEW m, IsConfirmations(m), Kept(m)
    PROVE  LET all == UpdateByConfirmations(m, extra)
               now == UpdateByConfirmations(received, extra)
           IN  /\ IsConfirmations(all)
               /\ DOMAIN all \subseteq DOMAIN now
               /\ \A b \in DOMAIN all : all[b] = now[b]
               /\ \A b \in DOMAIN now :
                     number - b <= MaxSignerCount => b \in DOMAIN all
<1> USE DEF ConfirmInv
<1> DEFINE all == UpdateByConfirmations(m, extra)
           now == UpdateByConfirmations(received, extra)
<1>1. /\ IsConfirmations(all)
      /\ DOMAIN all = DOMAIN m \cup {c.block : c \in extra}
      /\ \A b \in DOMAIN all : all[b] = Confirmers(m, b) \cup New(extra, b)
    BY UpdateFacts DEF TypeOK
<1>2. /\ DOMAIN now = DOMAIN received \cup {c.block : c \in extra}
      /\ \A b \in DOMAIN now : now[b] = Confirmers(received, b) \cup New(extra, b)
    BY UpdateFacts DEF TypeOK
<1> HIDE DEF all, now
<1>3. \A b \in {c.block : c \in extra} :
          b \in Nat /\ number - b <= MaxSignerCount
    BY ConfirmationsAssumption DEF ExtraFromQueue, TypeOK
<1>4. \A b \in DOMAIN all : Confirmers(m, b) = Confirmers(received, b)
    BY <1>1, <1>3 DEF Kept, Confirmers
<1> QED BY <1>1, <1>2, <1>4 DEF Kept, all, now

\* What a block does to the confirmations, in terms of those received.
LEMMA BlockFacts ==
    ASSUME ConfirmInv, Block
    PROVE  LET all == UpdateByConfirmations(confirmations, extra) IN
           /\ number \in 0..(MaxNumber - 1) /\ number' = number + 1
           /\ MaxNumber \in Nat /\ MaxSignerCount \in Nat
           /\ confirmed' = GetLastConfirmed(number, all)
           /\ IsConfirmations(all) /\ IsConfirmations(received')
           /\ DOMAIN all \subseteq 1..number
           /\ DOMAIN received' = DOMAIN received \cup {c.block : c \in extra}
           /\ \A b \in DOMAIN received : received[b] \subseteq received'[b]
           /\ \A b \in DOMAIN received' :
                 /\ b \in 1..number
                 /\ received'[b] \subseteq queue[b]
           /\ \A b : number - b <= MaxSignerCount =>
                 /\ b \in DOMAIN received' => b \in DOMAIN all
                 /\ b \in DOMAIN all => b \in DOMAIN received' /\ all[b] = received'[b]
<1> USE DEF ConfirmInv
<1> DEFINE all == UpdateByConfirmations(confirmations, extra)
<1>1. /\ number \in 0..(MaxNumber - 1) /\ number' = number + 1
      /\ MaxNumber \in Nat /\ MaxSignerCount \in Nat
      /\ confirmed' = GetLastConfirmed(number, all)
      /\ received' = UpdateByConfirmations(received, extra)
    BY ConfirmationsAssumption DEF Block, TypeOK
<1>2. /\ IsConfirmations(all)
      /\ DOMAIN all \subseteq DOMAIN received'
      /\ \A b \in DOMAIN all : all[b] = received'[b]
      /\ \A b \in DOMAIN received' : number - b <= MaxSignerCount => b \in DOMAIN all
    <2>1. IsConfirmations(confirmations) /\ Kept(confirmations)
        BY DEF TypeOK, Kept, ExpiryTransparent, Restrict
    <2> QED BY <1>1, <2>1, UpdateKept
<1>3. /\ IsConfirmations(received')
      /\ DOMAIN received' = DOMAIN received \cup {c.block : c \in extra}
      /\ \A b \in DOMAIN received' : received'[b] = Confirmers(received, b) \cup New(extra, b)
    BY <1>1, UpdateFacts DEF TypeOK
<1> HIDE DEF all
<1>6. \A b \in DOMAIN received' :
          b \in 1..number /\ received'[b] \subseteq queue[b]
    <2> SUFFICES ASSUME NEW b \in DOMAIN received'
                 PROVE  b \in 1..number /\ received'[b] \subseteq queue[b]
        OBVIOUS
    <2>1. b \in 1..number
        BY <1>1, <1>3 DEF ReceivedFromQueue, ExtraFromQueue
    <2>2. New(extra, b) \subseteq queue[b]
        BY DEF New, ExtraFromQueue
    <2>3. Confirmers(received, b) \subseteq queue[b]
        BY DEF Confirmers, ReceivedFromQueue
    <2> QED BY <2>1, <2>2, <2>3, <1>3
<1>7. \A b : number - b <= MaxSignerCount =>
          /\ b \in DOMAIN received' => b \in DOMAIN all
          /\ b \in DOMAIN all => b \in DOMAIN received' /\ all[b] = received'[b]
    BY <1>2
<1>8. DOMAIN all \subseteq 1..number
    BY <1>2, <1>6
<1>9. \A b \in DOMAIN received : received[b] \subseteq received'[b]
    BY <1>3 DEF Confirmers
<1> QED BY <1>1, <1>2, <1>3, <1>6, <1>7, <1>8, <1>9 DEF all

\* A confirmer set has at least the members of a smaller one.
LEMMA MoreConfirmers ==
    ASSUME NEW A, NEW B, A \subseteq B, B \subseteq Signer
    PROVE  Cardinality(A) \in Nat /\ Cardinality(B) \in Nat
           /\ Cardinality(A) <= Cardinality(B)
<1>1. IsFiniteSet(B)
    BY ConfirmationsAssumption, FS_Subset
<1> QED BY <1>1, FS_Subset, FS_CardinalityType

\* The ConfirmedBlockNumber of a new block.
LEMMA BlockConfirms ==
    ASSUME ConfirmInv, Block
    PROVE  /\ confirmed' \in 0..number
           /\ number + 1 >= Quorum =>
                /\ confirmed' = number \/ confirmed' >= number - Quorum + 1
                /\ \A b \in DOMAIN received' :
                      Cardinality(received'[b]) > Quorum => b <= confirmed'
                /\ \/ confirmed' = number - Quorum + 1
                   \/ Quorum = 0 /\ confirmed' = number
                   \/ confirmed' \in DOMAIN received'
                      /\ Cardinality(received'[confirmed']) > Quorum
<1> DEFINE all == UpdateByConfirmations(confirmations, extra)
<1>1. /\ number \in 0..MaxNumber /\ MaxSignerCount \in Nat
      /\ IsConfirmations(all) /\ DOMAIN all \subseteq 1..number
      /\ confirmed' = GetLastConfirmed(number, all)
    BY BlockFacts
<1>2. /\ \A b \in DOMAIN received' : b \in 1..number
      /\ \A b : number - b <= MaxSignerCount =>
            /\ b \in DOMAIN received' => b \in DOMAIN all
            /\ b \in DOMAIN all => b \in DOMAIN received' /\ all[b] = received'[b]
    BY BlockFacts
<1>3. Quorum \in Nat /\ Quorum <= MaxSignerCount
    BY UintFacts
<1> HIDE DEF all
<1> DEFINE g == GetLastConfirmed(number, all)
<1>4. /\ g \in 0..number
      /\ number >= Quorum - 1 =>
            /\ g = number \/ g >= number - Quorum + 1
            /\ \A b \in DOMAIN all : b <= number /\ Cardinality(all[b]) > Quorum => b <= g
            /\ \/ g = number - Quorum + 1
               \/ Quorum = 0 /\ g = number
               \/ g \in DOMAIN all /\ Cardinality(all[g]) > Quorum
    BY <1>1, GetLastFacts
<1> HIDE DEF g
<1>5. confirmed' = g
    BY <1>1 DEF g
<1> SUFFICES ASSUME number + 1 >= Quorum
             PROVE  /\ g = number \/ g >= number - Quorum + 1
                    /\ \A b \in DOMAIN received' :
                          Cardinality(received'[b]) > Quorum => b <= g
                    /\ \/ g = number - Quorum + 1
                       \/ Quorum = 0 /\ g = number
                       \/ g \in DOMAIN received' /\ Cardinality(received'[g]) > Quorum
    BY <1>4, <1>5
<1>6. number >= Quorum - 1
    BY <1>1, <1>3
<1>7. ASSUME NEW b \in DOMAIN received', Cardinality(received'[b]) > Quorum
      PROVE  b <= g
    <2>1. b \in 1..number
        BY <1>2
    <2>2. CASE number - b <= MaxSignerCount
        BY <1>2, <1>4, <1>6, <1>7, <2>1, <2>2
    <2>3. CASE ~(number - b <= MaxSignerCount)
        BY <1>1, <1>3, <1>4, <1>6, <2>1, <2>3
    <2> QED BY <2>2, <2>3
<1>8. \/ g = number - Quorum + 1
      \/ Quorum = 0 /\ g = number
      \/ g \in DOMAIN received' /\ Cardinality(received'[g]) > Quorum
    <2>1. g \in 0..number /\ (g = number \/ g >= number - Quorum + 1)
        BY <1>4, <1>6
    <2>2. number - g <= MaxSignerCount
        BY <2>1, <1>1, <1>3
    <2> QED BY <1>2, <1>4, <1>6, <2>2
<1> QED BY <1>4, <1>6, <1>7, <1>8

\* A block preserves the invariant.
LEMMA BlockPreserves ==
    ASSUME ConfirmInv, Block
    PROVE  ConfirmInv'
<1> USE DEF ConfirmInv
<1>1. /\ number \in 0..(MaxNumber - 1) /\ number' = number + 1
      /\ MaxNumber \in Nat /\ MaxSignerCount \in Nat
      /\ IsConfirmations(received')
      /\ \A b \in DOMAIN received' :
            b \in 1..number /\ received'[b] \subseteq queue[b]
    BY BlockFacts
<1>2. PICK q \in Queues :
          queue' = [b \in 1..(number + 1) |-> IF b = number + 1 THEN q ELSE queue[b]]
    BY DEF Block
<1>3. queue' \in [1..number' -> SUBSET Signer]
    <2>1. q \in SUBSET Signer /\ queue \in [1..number -> SUBSET Signer]
        BY ConfirmationsAssumption DEF TypeOK
    <2> QED BY <1>1, <1>2, <2>1
<1>4. \A b \in 1..number : queue'[b] = queue[b]
    BY <1>1, <1>2
<1>5. extra' = {} /\ failed' = failed /\ candidates' \subseteq Signer
    BY ConfirmationsAssumption DEF Block
<1>6. /\ ExpiryTransparent' /\ BaseKept'
      /\ IsConfirmations(confirmations') /\ IsConfirmations(base')
    <2>0. PICK all : all = UpdateByConfirmations(base, extra)
        OBVIOUS
    <2>1. /\ confirmations' = ExpireConfirmations(all, number + 1)
          /\ base' = all \/ base' = confirmations'
          /\ IsConfirmations(all)
          /\ DOMAIN all \subseteq 1..number
          /\ DOMAIN all \subseteq DOMAIN received'
          /\ \A b \in DOMAIN all : all[b] = received'[b]
          /\ \A b \in DOMAIN received' :
                number - b <= MaxSignerCount => b \in DOMAIN all
        <3>1. /\ confirmations' = ExpireConfirmations(all, number + 1)
              /\ base' = all \/ base' = confirmations'
              /\ received' = UpdateByConfirmations(received, extra)
            BY <2>0 DEF Block
        <3>2. IsConfirmations(base) /\ Kept(base)
            BY DEF TypeOK, BaseKept
        <3> QED BY <1>1, <2>0, <3>1, <3>2, UpdateKept
    <2> DEFINE keep == {b \in DOMAIN received' : (number + 1) - b <= MaxSignerCount}
    <2>2. \A b \in 1..number : Uint((number + 1) - b) = (number + 1) - b
        BY <1>1, UintFacts
    <2>3. {b \in DOMAIN all : ~(Uint((number + 1) - b) > MaxSignerCount)}
            = {b \in DOMAIN all : (number + 1) - b <= MaxSignerCount}
        BY <1>1, <2>1, <2>2
    <2>4. {b \in DOMAIN all : (number + 1) - b <= MaxSignerCount} = keep
        BY <1>1, <2>1
    <2>5. confirmations' = [b \in keep |-> all[b]]
        <3>1. confirmations' = ExpireConfirmations(all, number + 1)
            BY <2>1
        <3>2. ExpireConfirmations(all, number + 1) = Restrict(all,
                 {b \in DOMAIN all : ~(Uint((number + 1) - b) > MaxSignerCount)})
            BY Zenon DEF ExpireConfirmations
        <3> HIDE DEF keep
        <3>3. ExpireConfirmations(all, number + 1) = Restrict(all, keep)
            BY <2>3, <2>4, <3>2, Zenon
        <3> QED BY <3>1, <3>3 DEF Restrict
    <2>6. \A b \in keep : all[b] = received'[b] /\ b \in DOMAIN all
        BY <1>1, <2>1
    <2>7. confirmations' = [b \in keep |-> received'[b]]
        <3> HIDE DEF keep
        <3> QED BY <2>5, <2>6
    <2>8. ExpiryTransparent'
        BY <1>1, <2>7 DEF ExpiryTransparent, Restrict
    <2>9. IsConfirmations(confirmations')
        BY <1>1, <2>7 DEF IsConfirmations
    <2>10. /\ DOMAIN confirmations' = keep
           /\ \A b \in keep : confirmations'[b] = received'[b]
        <3> HIDE DEF keep
        <3> QED BY <2>7
    <2>11. BaseKept'
        <3>1. CASE base' = all
            BY <1>1, <2>1, <3>1 DEF BaseKept, Kept
        <3>2. CASE base' = confirmations'
            BY <1>1, <2>10, <3>2 DEF BaseKept, Kept
        <3> QED BY <2>1, <3>1, <3>2
    <2> QED BY <2>1, <2>8, <2>9, <2>11
<1>7. confirmed' \in 0..number
    BY BlockConfirms
<1>8. TypeOK'
    <2>1. failed' \in BOOLEAN
        BY <1>5, Zenon DEF TypeOK
    <2>2. number' \in 0..MaxNumber /\ confirmed' \in 0..MaxNumber
        BY <1>1, <1>7
    <2> QED BY <1>1, <1>3, <1>5, <1>6, <2>1, <2>2 DEF TypeOK
<1>9. ExtraFromQueue' /\ ReceivedFromQueue'
    BY <1>1, <1>4, <1>5 DEF ExtraFromQueue, ReceivedFromQueue
<1>10. ConfirmedFacts' /\ ConfirmedIsLast'
    <2>1. Quorum \in Nat
        BY UintFacts
    <2>2. number' >= Quorum =>
             /\ \A b \in DOMAIN received' :
                   Cardinality(received'[b]) > Quorum => b <= confirmed'
             /\ \/ confirmed' = number' - Quorum
                \/ Quorum = 0 /\ confirmed' = number' - 1
                \/ confirmed' \in DOMAIN received'
                   /\ Cardinality(received'[confirmed']) > Quorum
        BY <1>1, <2>1, BlockConfirms
    <2> QED BY <1>1, <1>7, <2>2 DEF ConfirmedFacts, ConfirmedIsLast
<1> QED BY <1>6, <1>8, <1>9, <1>10

\* Every step preserves the invariant.
LEMMA NextPreserves == ConfirmInv /\ [Next]_vars => ConfirmInv'
<1> SUFFICES ASSUME ConfirmInv, [Next]_vars PROVE ConfirmInv'
    OBVIOUS
<1>1. CASE IncludeConfirm
    BY <1>1, IncludePreserves
<1>2. CASE Block
    BY <1>2, BlockPreserves
<1>3. CASE NilSnapshot
    <2>1. /\ number' = number /\ queue' = queue /\ extra' = extra
          /\ confirmed' = confirmed /\ confirmations' = confirmations
          /\ received' = received /\ base' = base /\ candidates' = candidates
        BY <1>3 DEF NilSnapshot
    <2>2. failed' \in BOOLEAN
        BY <1>3, Zenon DEF NilSnapshot
    <2>3. TypeOK'
        BY <2>1, <2>2 DEF ConfirmInv, TypeOK, IsConfirmations
    <2> QED BY <2>1, <2>3
        DEF ConfirmInv, ExpiryTransparent, BaseKept, Kept, ExtraFromQueue,
            ReceivedFromQueue, ConfirmedFacts, ConfirmedIsLast
<1>4. CASE UNCHANGED vars
    <2>1. /\ number' = number /\ queue' = queue /\ extra' = extra
          /\ confirmed' = confirmed /\ confirmations' = confirmations
          /\ received' = received /\ base' = base /\ candidates' = candidates
        BY <1>4 DEF vars
    <2>2. failed' \in BOOLEAN
        BY <1>4, Zenon DEF vars, ConfirmInv, TypeOK
    <2>3. TypeOK'
        BY <2>1, <2>2 DEF ConfirmInv, TypeOK, IsConfirmations
    <2> QED BY <2>1, <2>3
        DEF ConfirmInv, ExpiryTransparent, BaseKept, Kept, ExtraFromQueue,
            ReceivedFromQueue, ConfirmedFacts, ConfirmedIsLast
<1> QED BY <1>1, <1>2, <1>3, <1>4 DEF Next

\* So it always holds.
LEMMA ConfirmInvariant == Spec => []ConfirmInv
BY InitInv, NextPreserves, PTL DEF Spec

-----------------------------------------------------------------------------
(* Theorems. *)

\* Every variable keeps its type: a confirmation is only ever recorded for a
\* block between 1 and the head (processEventConfirm, apply).
THEOREM ConfirmationTypes == Spec => []TypeOK
<1>1. ConfirmInv => TypeOK
    BY DEF ConfirmInv
<1> QED BY <1>1, ConfirmInvariant, PTL

\* Confirmations is exactly what was received for the last MaxSignerCount
\* blocks, so updateSnapshotForExpired may run once per call of apply.
THEOREM ExpiryIsTransparent == Spec => []ExpiryTransparent
<1>1. ConfirmInv => ExpiryTransparent
    BY DEF ConfirmInv
<1> QED BY <1>1, ConfirmInvariant, PTL

\* getLastConfirmedBlockNumber overlooks no block that enough signers
\* confirmed, once the chain has Quorum blocks.
THEOREM LastConfirmedFound == Spec => []ConfirmedIsLast
<1>1. ConfirmInv => ConfirmedIsLast
    BY DEF ConfirmInv
<1> QED BY <1>1, ConfirmInvariant, PTL

\* From block Quorum on, the ConfirmedBlockNumber of a header has Quorum blocks
\* on top of it or more than Quorum confirmers from its own signer queue.
THEOREM ConfirmedHasSupport == Spec => []ConfirmedSupported
<1>1. ConfirmInv => ConfirmedSupported
    <2> SUFFICES ASSUME ConfirmInv, number >= Quorum
                 PROVE  Supported(confirmed)
        BY DEF ConfirmedSupported
    <2>1. Quorum \in Nat /\ number \in Nat
        BY UintFacts DEF ConfirmInv, TypeOK
    <2>2. CASE number = 0
        BY <2>1, <2>2 DEF ConfirmInv, ConfirmedFacts, Supported
    <2>3. CASE number > 0 /\ confirmed = number - Quorum
        BY <2>1, <2>3 DEF Supported
    <2>4. CASE number > 0 /\ Quorum = 0 /\ confirmed = number - 1
        BY <2>1, <2>4 DEF Supported
    <2>5. CASE confirmed \in DOMAIN received /\ Cardinality(received[confirmed]) > Quorum
        <3>1. /\ confirmed \in 1..number
              /\ received[confirmed] \subseteq queue[confirmed]
            BY <2>1, <2>5 DEF ConfirmInv, ReceivedFromQueue
        <3>2. Confirmers(received, confirmed) \cap queue[confirmed]
                = received[confirmed]
            BY <3>1, <2>5 DEF Confirmers
        <3> QED BY <3>1, <3>2, <2>5 DEF Supported
    <2> QED BY <2>1, <2>2, <2>3, <2>4, <2>5 DEF ConfirmInv, ConfirmedFacts
<1> QED BY <1>1, ConfirmInvariant, PTL

\* Once the chain has Quorum blocks, no step takes ConfirmedBlockNumber back.
THEOREM ConfirmedNeverBack == Spec => ConfirmedMonotone
<1>1. ConfirmInv /\ [Next]_vars => [number >= Quorum => confirmed' >= confirmed]_vars
    <2> SUFFICES ASSUME ConfirmInv, Next, number >= Quorum
                 PROVE  confirmed' >= confirmed
        OBVIOUS
    <2>1. Quorum \in Nat /\ number \in Nat /\ confirmed \in Nat
        BY UintFacts DEF ConfirmInv, TypeOK
    <2>2. CASE IncludeConfirm \/ NilSnapshot
        BY <2>1, <2>2 DEF IncludeConfirm, NilSnapshot
    <2>3. CASE Block
        <3>1. /\ confirmed' \in 0..number
              /\ confirmed' = number \/ confirmed' >= number - Quorum + 1
              /\ \A b \in DOMAIN received' :
                    Cardinality(received'[b]) > Quorum => b <= confirmed'
            BY <2>1, <2>3, BlockConfirms
        <3>2. CASE number = 0
            BY <3>1, <3>2 DEF ConfirmInv, ConfirmedFacts
        <3>3. CASE number > 0 /\ confirmed = number - Quorum
            BY <3>1, <3>3, <2>1
        <3>4. CASE number > 0 /\ Quorum = 0 /\ confirmed = number - 1
            BY <3>1, <3>4, <2>1
        <3>5. CASE confirmed \in DOMAIN received
                   /\ Cardinality(received[confirmed]) > Quorum
            <4>1. /\ confirmed \in DOMAIN received'
                  /\ received[confirmed] \subseteq received'[confirmed]
                  /\ received'[confirmed] \subseteq Signer
                BY <2>3, <3>5, BlockFacts DEF IsConfirmations
            <4>2. Cardinality(received'[confirmed]) > Quorum
                BY <4>1, <3>5, <2>1, MoreConfirmers
            <4> QED BY <3>1, <4>1, <4>2, <2>1
        <3> QED BY <2>1, <3>2, <3>3, <3>4, <3>5 DEF ConfirmInv, ConfirmedFacts
    <2> QED BY <2>2, <2>3 DEF Next
<1> QED BY <1>1, ConfirmInvariant, PTL DEF Spec, ConfirmedMonotone

-----------------------------------------------------------------------------
(* WorkerLoops: the inductive invariant.                                   *)

Labels == {"idle", "select", "range", "commit", "lock", "push",
           "receive", "write", "post", "unlock"}
Blocks == 0..MaxHead

\* The labels at which a goroutine holds receiveBlockMu.
Receiving(t) ==
    \/ pc[t] \in {"lock", "push", "write", "post", "unlock"}
    \/ t = "wait" /\ pc[t] = "commit"

Exclusion ==
    /\ \A t \in Threads : mu = t <=> pc[t] = "push"
    /\ \A t \in Threads : recvMu = t <=> Receiving(t)

\* Each goroutine stays in its own part of the code; a block is written only
\* for a result that is not nil, and only work that was built is pushed.
Roles ==
    /\ \A t \in Starters \cup {"update"} :
          pc[t] \in {"idle", "select", "commit", "lock", "push"}
    /\ pc["wait"] \in {"range", "receive", "write", "post", "commit", "unlock"}
    /\ pc["wait"] = "write" => work["wait"] \in Blocks
    /\ \A t \in Threads : pc[t] = "push" => work[t] \in Blocks

Flags ==
    /\ busy \in BOOLEAN /\ atMining \in BOOLEAN /\ mustCommit \in BOOLEAN
    /\ importing \in BOOLEAN

Data ==
    /\ recv \in Seq(Blocks \cup {None}) /\ Len(recv) <= RecvSize
    /\ workCh \in Seq(Blocks) /\ Len(workCh) <= 1
    /\ seals \in [Blocks -> 0..Many]
    /\ head \in Blocks /\ headCh \in 0..HeadChanSize

Control ==
    /\ pc \in [Threads -> Labels]
    /\ work \in [Threads -> Blocks \cup {None}]
    /\ mu \in Threads \cup {None} /\ recvMu \in Threads \cup {None}
    /\ Exclusion
    /\ Roles

LoopsInv == Control /\ Data /\ Flags

\* Nobody holds a lock that is free.
LEMMA FreeLocks ==
    ASSUME Control
    PROVE  /\ mu = None => \A t \in Threads : pc[t] # "push"
           /\ recvMu = None => \A t \in Threads : ~Receiving(t)
           /\ \A t \in Threads : Receiving(t) => \A s \in Threads : Receiving(s) => s = t
BY LoopsAssumption DEF Control, Exclusion, Threads

LEMMA LoopsInitInv == LoopsInit => LoopsInv
<1> SUFFICES ASSUME LoopsInit PROVE LoopsInv
    OBVIOUS
<1>1. /\ \A t \in Starters : pc[t] = "idle"
      /\ pc["update"] = "select" /\ pc["wait"] = "range"
      /\ pc \in [Threads -> Labels] /\ work \in [Threads -> Blocks \cup {None}]
    BY LoopsAssumption DEF LoopsInit, Threads, Labels
<1>2. Control
    BY <1>1, LoopsAssumption DEF LoopsInit, Control, Exclusion, Receiving, Roles, Threads
<1>3. Data
    BY LoopsAssumption DEF LoopsInit, Data, Blocks
<1>4. Flags
    BY Zenon DEF LoopsInit, Flags
<1> QED BY <1>2, <1>3, <1>4 DEF LoopsInv

-----------------------------------------------------------------------------
(* The control state.  A step of one goroutine. *)

LEMMA CommitControl ==
    ASSUME LoopsInv, NEW t \in Threads, Commit(t) \/ CommitFail(t)
    PROVE  Control'
<1> USE DEF Threads, Labels
<1>1. pc \in [Threads -> Labels] /\ work \in [Threads -> Blocks \cup {None}] /\ head \in Blocks
    BY DEF LoopsInv, Control, Data
<1>2. t \in Starters \cup {"update"} /\ t # "wait"
    BY FreeLocks, LoopsAssumption DEF LoopsInv, Control, Roles, Receiving, Commit, CommitLockRecv, CommitBuild, CommitPush,
         CommitFail, Step
<1>3. CASE CommitLockRecv(t)
    BY <1>1, <1>2, <1>3, FreeLocks, LoopsAssumption
       DEF CommitLockRecv, Step, Goto, locks, LoopsInv, Control, Exclusion, Receiving, Roles
<1>4. CASE CommitBuild(t)
    BY <1>1, <1>2, <1>4, FreeLocks, LoopsAssumption
       DEF CommitBuild, Step, Goto, Set, locks, LoopsInv, Control, Exclusion, Receiving, Roles
<1>5. CASE CommitPush(t)
    BY <1>1, <1>2, <1>5, FreeLocks, LoopsAssumption
       DEF CommitPush, Step, Goto, Set, AfterCommit, LoopsInv, Control, Exclusion, Receiving, Roles
<1>6. CASE CommitFail(t)
    BY <1>1, <1>2, <1>6, FreeLocks, LoopsAssumption
       DEF CommitFail, Step, Goto, AfterCommit, LoopsInv, Control, Exclusion, Receiving, Roles
<1> QED BY <1>3, <1>4, <1>5, <1>6 DEF Commit

LEMMA WaitControl == ASSUME LoopsInv, Wait PROVE Control'
<1> USE DEF Threads, Labels
<1>1. pc \in [Threads -> Labels] /\ work \in [Threads -> Blocks \cup {None}] /\ head \in Blocks
      /\ recv \in Seq(Blocks \cup {None})
    BY DEF LoopsInv, Control, Data
<1>2. CASE WaitTake
    <2>1. Head(recv) \in Blocks \cup {None}
        BY <1>1, <1>2 DEF WaitTake
    <2> QED BY <1>1, <1>2, <2>1
            DEF WaitTake, Step, Goto, Set, locks, LoopsInv, Control, Exclusion, Receiving, Roles
<1>3. CASE ReceiveLock
    BY <1>1, <1>3, FreeLocks, LoopsAssumption
       DEF ReceiveLock, Step, Goto, LoopsInv, Control, Exclusion, Receiving, Roles
<1>4. CASE WriteCanon
    BY <1>1, <1>4 DEF WriteCanon, Goto, locks, LoopsInv, Control, Exclusion, Receiving, Roles
<1>5. CASE WriteSide
    BY <1>1, <1>5 DEF WriteSide, Goto, locks, LoopsInv, Control, Exclusion, Receiving, Roles
<1>6. CASE WriteFail
    BY <1>1, <1>6 DEF WriteFail, Step, Goto, locks, LoopsInv, Control, Exclusion, Receiving, Roles
<1>7. CASE PostHead
    BY <1>1, <1>7 DEF PostHead, Step, Goto, locks, LoopsInv, Control, Exclusion, Receiving, Roles
<1>8. CASE ReceiveUnlock
    BY <1>1, <1>8, FreeLocks, LoopsAssumption
       DEF ReceiveUnlock, Step, Goto, Set, LoopsInv, Control, Exclusion, Receiving, Roles
<1> QED BY <1>2, <1>3, <1>4, <1>5, <1>6, <1>7, <1>8 DEF Wait

\* Steps by which no goroutine of the worker changes lock, work or label,
\* except that a Start begins to commit, or update does.
LEMMA OtherControl ==
    ASSUME LoopsInv, UNCHANGED <<work, locks>>,
           \/ UNCHANGED pc
           \/ \E t \in Starters : pc[t] = "idle" /\ Goto(t, "commit")
           \/ pc["update"] = "select" /\ Goto("update", "commit")
    PROVE  Control'
<1>1. pc \in [Threads -> Labels]
    BY DEF LoopsInv, Control
<1> QED BY <1>1 DEF Goto, locks, LoopsInv, Control, Exclusion, Receiving, Roles, Threads, Labels

LEMMA NextControl == ASSUME LoopsInv, [LoopsNext]_loopsVars PROVE Control'
<1>1. CASE \E t \in Threads : Commit(t) \/ CommitFail(t)
    BY <1>1, CommitControl
<1>2. CASE Wait
    BY <1>2, WaitControl
<1>3. CASE (\E t \in Starters : Start(t)) \/ Stop \/ Update \/ UpdateOther \/ Quiet \/ TakeWork \/ Import \/ ImportPost
           \/ (\E w \in 0..MaxHead : SealReturn(w)) \/ UNCHANGED loopsVars
    <2>1. UNCHANGED <<work, locks>>
        BY <1>3 DEF Start, Stop, Update, UpdateHead, UpdatePeriod, UpdateOther, Quiet, TakeWork,
                    Import, ImportPost, SealReturn, loopsVars
    <2>2. \/ UNCHANGED pc
          \/ \E t \in Starters : pc[t] = "idle" /\ Goto(t, "commit")
          \/ pc["update"] = "select" /\ Goto("update", "commit")
        BY <1>3 DEF Start, Stop, Update, UpdateHead, UpdatePeriod, UpdateOther, Quiet, TakeWork,
                    Import, ImportPost, SealReturn, loopsVars, Step
    <2> QED BY <2>1, <2>2, OtherControl
<1> QED BY <1>1, <1>2, <1>3 DEF LoopsNext

-----------------------------------------------------------------------------
(* The channels, the seals and the head of the chain. *)

LEMMA CommitData ==
    ASSUME LoopsInv, NEW t \in Threads, Commit(t) \/ CommitFail(t)
    PROVE  Data'
<1>1. UNCHANGED <<recv, seals, head, headCh>>
    BY DEF Commit, CommitLockRecv, CommitBuild, CommitPush, CommitFail, agent, chain
<1>2. workCh' \in Seq(Blocks) /\ Len(workCh') <= 1
    <2>1. CASE CommitPush(t) /\ atMining
        <3>1. work[t] \in Blocks /\ workCh' = <<work[t]>>
            BY <2>1 DEF LoopsInv, Control, Roles, CommitPush, Step
        <3> QED BY <3>1
    <2>2. CASE UNCHANGED workCh
        BY <2>2 DEF LoopsInv, Data
    <2> QED BY <2>1, <2>2 DEF Commit, CommitLockRecv, CommitBuild, CommitPush, CommitFail, agent
<1> QED BY <1>1, <1>2 DEF LoopsInv, Data

LEMMA WaitData == ASSUME LoopsInv, Wait PROVE Data'
<1>1. UNCHANGED <<workCh, seals>>
    BY DEF Wait, WaitTake, ReceiveLock, WriteCanon, WriteSide, WriteFail, PostHead, ReceiveUnlock,
           agent
<1>2. recv' \in Seq(Blocks \cup {None}) /\ Len(recv') <= RecvSize
    <2>1. CASE WaitTake
        <3>1. recv' = Tail(recv) /\ recv # <<>> /\ recv \in Seq(Blocks \cup {None})
              /\ Len(recv) <= RecvSize
            BY <2>1 DEF WaitTake, LoopsInv, Data
        <3>2. recv' \in Seq(Blocks \cup {None}) /\ Len(recv') = Len(recv) - 1
            BY <3>1
        <3> QED BY <3>1, <3>2, LoopsAssumption
    <2>2. CASE UNCHANGED recv
        BY <2>2 DEF LoopsInv, Data
    <2> QED BY <2>1, <2>2 DEF Wait, WaitTake, ReceiveLock, WriteCanon, WriteSide, WriteFail,
                              PostHead, ReceiveUnlock
<1>3. head' \in Blocks
    <2>1. CASE WriteCanon
        <3>1. work["wait"] \in Blocks
            BY <2>1 DEF WriteCanon, LoopsInv, Control, Roles
        <3> QED BY <2>1, <3>1, LoopsAssumption DEF WriteCanon, Blocks
    <2>2. CASE UNCHANGED head
        BY <2>2 DEF LoopsInv, Data
    <2> QED BY <2>1, <2>2 DEF Wait, WaitTake, ReceiveLock, WriteCanon, WriteSide, WriteFail,
                              PostHead, ReceiveUnlock, chain
<1>4. headCh' \in 0..HeadChanSize
    <2>1. CASE PostHead
        BY <2>1, LoopsAssumption DEF PostHead, LoopsInv, Data
    <2>2. CASE UNCHANGED headCh
        BY <2>2 DEF LoopsInv, Data
    <2> QED BY <2>1, <2>2 DEF Wait, WaitTake, ReceiveLock, WriteCanon, WriteSide, WriteFail,
                              PostHead, ReceiveUnlock, chain
<1> QED BY <1>1, <1>2, <1>3, <1>4 DEF LoopsInv, Data

LEMMA NextData == ASSUME LoopsInv, [LoopsNext]_loopsVars PROVE Data'
<1>0. Data
    BY DEF LoopsInv
<1>1. CASE \E t \in Threads : Commit(t) \/ CommitFail(t)
    BY <1>1, CommitData
<1>2. CASE Wait
    BY <1>2, WaitData
<1>3. CASE Stop
    BY <1>0, <1>3 DEF Stop, Data, chain
<1>4. CASE UpdateHead
    BY <1>0, <1>4, LoopsAssumption DEF UpdateHead, Data, agent
<1>5. CASE (\E t \in Starters : Start(t)) \/ UpdatePeriod \/ UpdateOther \/ Quiet \/ UNCHANGED loopsVars
    <2>1. UNCHANGED <<recv, workCh, seals, head, headCh>>
        BY <1>5 DEF Start, UpdatePeriod, UpdateOther, Quiet, loopsVars, agent, chain
    <2> QED BY <1>0, <2>1 DEF Data
<1>6. CASE TakeWork
    <2>1. Head(workCh) \in Blocks
        BY <1>0, <1>6 DEF TakeWork, Data
    <2>2. seals' \in [Blocks -> 0..Many]
        BY <1>0, <1>6, <2>1, LoopsAssumption DEF TakeWork, Data
    <2> QED BY <1>0, <1>6, <2>2 DEF TakeWork, Data, chain
<1>7. CASE \E w \in 0..MaxHead : SealReturn(w)
    <2>1. PICK w \in Blocks : SealReturn(w)
        BY <1>7 DEF Blocks
    <2>2. PICK r \in Blocks \cup {None} : recv' = Append(recv, r)
        BY <2>1 DEF SealReturn
    <2>3. Len(recv) < RecvSize /\ recv \in Seq(Blocks \cup {None})
        BY <1>0, <2>1 DEF SealReturn, Data
    <2>4. recv' \in Seq(Blocks \cup {None}) /\ Len(recv') = Len(recv) + 1
        BY <2>2, <2>3
    <2>5. Len(recv') <= RecvSize
        BY <2>3, <2>4, LoopsAssumption
    <2>6. PICK left \in {seals[w] - 1} \cup (IF seals[w] = Many THEN {Many} ELSE {}) :
               seals' = [seals EXCEPT ![w] = left]
        BY <2>1 DEF SealReturn
    <2>7. seals' \in [Blocks -> 0..Many]
        <3>1. left \in 0..Many
            BY <1>0, <2>1, <2>6, LoopsAssumption DEF SealReturn, Data
        <3> QED BY <1>0, <2>6, <3>1 DEF Data
    <2> QED BY <1>0, <2>1, <2>4, <2>5, <2>7 DEF SealReturn, Data, chain
<1>8. CASE Import
    BY <1>0, <1>8, LoopsAssumption DEF Import, Data, Blocks, agent
<1>9. CASE ImportPost
    BY <1>0, <1>9, LoopsAssumption DEF ImportPost, Data, agent
<1> QED BY <1>1, <1>2, <1>3, <1>4, <1>5, <1>6, <1>7, <1>8, <1>9 DEF LoopsNext, Update

LEMMA NextFlags == ASSUME LoopsInv, [LoopsNext]_loopsVars PROVE Flags'
BY Zenon DEF LoopsInv, Flags, LoopsNext, loopsVars, Start, Stop, Commit, CommitLockRecv, CommitBuild, CommitPush,
   CommitFail, Update, UpdateHead, UpdatePeriod, UpdateOther, Quiet, Wait, WaitTake, ReceiveLock,
   WriteCanon, WriteSide, WriteFail, PostHead, ReceiveUnlock, TakeWork, SealReturn, Import,
   ImportPost, chain

LEMMA LoopsInductive == LoopsSpec => []LoopsInv
<1>1. LoopsInv /\ [LoopsNext]_loopsVars => LoopsInv'
    BY NextControl, NextData, NextFlags DEF LoopsInv
<1> QED BY <1>1, LoopsInitInv, PTL DEF LoopsSpec

-----------------------------------------------------------------------------
(* The theorems. *)

\* Every state of worker.go's loops is well formed: receiveBlockMu and mu are
\* each held exactly in the sections that take them, by one goroutine at a
\* time, and no channel holds more than its capacity.
THEOREM LocksHeldWhereTaken == LoopsSpec => []LoopsTypeOK
<1>1. LoopsInv => LoopsTypeOK
    BY DEF LoopsInv, Control, Data, Flags, Exclusion, Receiving, Labels, Blocks, LoopsTypeOK
<1> QED BY <1>1, LoopsInductive, PTL

\* A jam is never undone by any goroutine, agent or importer.
JamsAreForGood ==
    [][/\ Relocked => Relocked'
       /\ ChannelJam => ChannelJam']_loopsVars

\* Once wait has committed from inside receiveBlock, or has to post to a full
\* chainHeadCh while update waits for receiveBlockMu, it stays there for ever.
THEOREM NoWayOutOfAJam == LoopsSpec => JamsAreForGood
<1>1. ASSUME LoopsInv, [LoopsNext]_loopsVars, Relocked PROVE Relocked'
    <2>1. recvMu = "wait" /\ recvMu # None /\ pc["wait"] = "commit"
        BY <1>1, LoopsAssumption DEF Relocked, LoopsInv, Control, Exclusion, Receiving, Threads
    <2>2. pc'["wait"] = pc["wait"]
        BY <1>1, <2>1 DEF LoopsInv, Control, Threads, LoopsNext, loopsVars, Start, Stop, Commit, CommitLockRecv,
           CommitBuild, CommitPush, CommitFail, Update, UpdateHead, UpdatePeriod, UpdateOther,
           Quiet, Wait, WaitTake, ReceiveLock, WriteCanon, WriteSide, WriteFail, PostHead,
           ReceiveUnlock, TakeWork, SealReturn, Import, ImportPost, Step, Goto
    <2> QED BY <2>1, <2>2 DEF Relocked
<1>2. ASSUME LoopsInv, [LoopsNext]_loopsVars, ChannelJam PROVE ChannelJam'
    <2>1. /\ recvMu = "wait" /\ recvMu # None
          /\ pc["wait"] = "post" /\ pc["update"] = "commit" /\ headCh = HeadChanSize
        BY <1>2, LoopsAssumption DEF ChannelJam, LoopsInv, Control, Exclusion, Receiving, Threads
    <2>2. pc'["wait"] = pc["wait"] /\ pc'["update"] = pc["update"] /\ headCh' = headCh
        BY <1>2, <2>1, LoopsAssumption DEF LoopsInv, Control, Threads, LoopsNext, loopsVars, Start, Stop, Commit,
           CommitLockRecv, CommitBuild, CommitPush, CommitFail, Update, UpdateHead, UpdatePeriod,
           UpdateOther, Quiet, Wait, WaitTake, ReceiveLock, WriteCanon, WriteSide, WriteFail,
           PostHead, ReceiveUnlock, TakeWork, SealReturn, Import, ImportPost, Step, Goto, chain
    <2> QED BY <2>1, <2>2 DEF ChannelJam
<1>3. LoopsInv /\ [LoopsNext]_loopsVars => [(Relocked => Relocked') /\ (ChannelJam => ChannelJam')]_loopsVars
    BY <1>1, <1>2
<1> QED BY <1>3, LoopsInductive, PTL DEF LoopsSpec, JamsAreForGood

=============================================================================
