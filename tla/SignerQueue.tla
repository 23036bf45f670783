----------------------------- MODULE SignerQueue -----------------------------
(***************************************************************************)
(* Who signs: the credit-weighted ranking of the tallied candidates, the   *)
(* election of a signer queue at the end of a loop (signer_queue.go), the  *)
(* turn of a signer (Snapshot.inturn), the signers a header reports as     *)
(* missing (getSignerMissing) and their punishment.                        *)
(*                                                                         *)
(* Addresses and hashes are naturals, compared as the code compares their  *)
(* bytes.  Sequences start at 1: HistoryHash[len-1-i] is history[Len - i]. *)
(***************************************************************************)
EXTENDS Integers, Sequences, FiniteSets, Functions, SequencesExt

CONSTANTS
    MaxSignerCount,     \* config.MaxSignerCount
    LCRS,               \* loops between two elections from the tally
    Period,             \* config.Period, in seconds
    Word,               \* 2^64 in the code: inturn subtracts modulo Word
    FullCredit,         \* defaultFullCredit
    MissingCredit,      \* missingPublishCredit
    SignCredit,         \* signRewardCredit
    AutoCredit,         \* autoRewardCredit
    MinCredit,          \* minCalSignerQueueCredit
    OfficialMax,        \* defaultOfficialMaxSignerCount
    FirstLevel,         \* defaultOfficialFirstLevelCount: all are elected
    SecondLevel,        \* defaultOfficialSecondLevelCount
    SecondTake,         \* how many of the second level are elected
    ThirdLevel,         \* defaultOfficialThirdLevelCount
    ThirdTake           \* how many of the third level are elected

ASSUME QueueAssumption ==
    /\ MaxSignerCount \in Nat \ {0} /\ LCRS \in Nat \ {0}
    /\ Period \in Nat /\ Period > 1 /\ Word \in Nat \ {0}
    /\ FullCredit \in Nat /\ MissingCredit \in Nat /\ SignCredit \in Nat
    /\ AutoCredit \in Nat /\ MinCredit \in Nat /\ MinCredit < FullCredit
    /\ OfficialMax \in Nat /\ FirstLevel \in Nat /\ SecondTake \in Nat
    /\ ThirdTake \in Nat /\ SecondLevel \in Nat /\ ThirdLevel \in Nat
    /\ FirstLevel + SecondTake <= SecondLevel
    /\ SecondLevel + ThirdTake <= ThirdLevel
    /\ FirstLevel + SecondTake + ThirdTake + 1 = OfficialMax

-----------------------------------------------------------------------------
(* Ranking. *)

\* S in the order in which Before puts it (a strict total order on S).
Ranked(S, Before(_, _)) ==
    [i \in 1..Cardinality(S) |->
        CHOOSE x \in S : Cardinality({y \in S : Before(y, x)}) = i - 1]

\* Mutant: credit can fall below the minimum.
CreditWeightNoFloor(punished, a) ==
    IF a \notin DOMAIN punished THEN FullCredit
    ELSE FullCredit - punished[a]

\* buildTallySlice: what a candidate's stake is multiplied by.
CreditWeight(punished, a) ==
    IF a \notin DOMAIN punished THEN FullCredit
    ELSE IF punished[a] > FullCredit - MinCredit THEN MinCredit
    ELSE FullCredit - punished[a]

Weighted(tally, punished, a) == tally[a] * CreditWeight(punished, a)

\* TallySlice.Less: more weighted stake first, then the greater address.
TallyBefore(tally, punished, a, b) ==
    LET x == Weighted(tally, punished, a)
        y == Weighted(tally, punished, b)
    IN  x > y \/ (x = y /\ a > b)

TallyRanking(tally, punished) ==
    LET Before(a, b) == TallyBefore(tally, punished, a, b)
    IN  Ranked(DOMAIN tally, Before)

\* SignerSlice.Less: the greater hash first.  sort.Sort is not stable: "tie"
\* says how it leaves items with equal hashes.
SignersByHash(items, tie) ==
    LET Before(i, j) == \/ items[i].hash > items[j].hash
                        \/ items[i].hash = items[j].hash /\ tie[i] < tie[j]
        order == Ranked(DOMAIN items, Before)
    IN  [i \in DOMAIN items |-> items[order[i]]]

\* Every way in which n items may be left by sort.Sort.
Ties(n) == {t \in [1..n -> 1..n] : IsInjective(t)}
InOrder(n) == [i \in 1..n |-> i]

-----------------------------------------------------------------------------
(* Election.  A snapshot s has number, signers, history, punished, tally.   *)

\* Item i of a slice gets the i-th youngest hash of the history.
Item(s, addrs) ==
    [i \in DOMAIN addrs |->
        [addr |-> addrs[i], hash |-> s.history[Len(s.history) + 1 - i]]]

\* The history is long enough for a slice of n items; indexing panics if not.
Indexable(s, n) == n <= Len(s.history)

IsElection(s) == (s.number + 1) % (MaxSignerCount * LCRS) = 0

\* The branch for the official number of signers.
Levelled(s) ==
    /\ IsElection(s)
    /\ MaxSignerCount = OfficialMax
    /\ Cardinality(DOMAIN s.tally) >= MaxSignerCount
    /\ Cardinality(DOMAIN s.tally) > ThirdLevel

TakeByHash(items, n) == SubSeq(SignersByHash(items, InOrder(Len(items))), 1, n)

\* Mutant: the second level starts inside the first.
LevelledSliceOverlap(s) ==
    LET ranking == TallyRanking(s.tally, s.punished)
        last == SubSeq(ranking, ThirdLevel + 1, Len(ranking))
    IN  Item(s, SubSeq(ranking, 1, FirstLevel))
        \o TakeByHash(Item(s, SubSeq(ranking, FirstLevel, SecondLevel)), SecondTake)
        \o TakeByHash(Item(s, SubSeq(ranking, SecondLevel + 1, ThirdLevel)), ThirdTake)
        \o TakeByHash(Item(s, last), 1)

\* The whole first level, and the rest by lot: the youngest hashes decide.
LevelledSlice(s) ==
    LET ranking == TallyRanking(s.tally, s.punished)
        last == SubSeq(ranking, ThirdLevel + 1, Len(ranking))
    IN  Item(s, SubSeq(ranking, 1, FirstLevel))
        \o TakeByHash(Item(s, SubSeq(ranking, FirstLevel + 1, SecondLevel)), SecondTake)
        \o TakeByHash(Item(s, SubSeq(ranking, SecondLevel + 1, ThirdLevel)), ThirdTake)
        \o TakeByHash(Item(s, last), 1)

\* Mutant: the lowest ranked candidates are elected.
SignerSliceLowest(s) ==
    IF Levelled(s) THEN LevelledSlice(s)
    ELSE IF IsElection(s)
    THEN LET ranking == TallyRanking(s.tally, s.punished)
             n == IF MaxSignerCount > Len(ranking) THEN Len(ranking)
                  ELSE MaxSignerCount
         IN  Item(s, SubSeq(ranking, Len(ranking) - n + 1, Len(ranking)))
    ELSE Item(s, s.signers)

\* Mutant: a loop without an election keeps only the first signer.
SignerSliceShort(s) ==
    IF Levelled(s) THEN LevelledSlice(s)
    ELSE IF IsElection(s)
    THEN LET ranking == TallyRanking(s.tally, s.punished)
             n == IF MaxSignerCount > Len(ranking) THEN Len(ranking)
                  ELSE MaxSignerCount
         IN  Item(s, SubSeq(ranking, 1, n))
    ELSE Item(s, SubSeq(s.signers, 1, 1))

\* The signers of the next loop with the hashes that will order them.
SignerSlice(s) ==
    IF Levelled(s) THEN LevelledSlice(s)
    ELSE IF IsElection(s)
    THEN LET ranking == TallyRanking(s.tally, s.punished)
             n == IF MaxSignerCount > Len(ranking) THEN Len(ranking)
                  ELSE MaxSignerCount
         IN  Item(s, SubSeq(ranking, 1, n))
    ELSE Item(s, s.signers)

\* createSignerQueue indexes the history beyond its start.
QueuePanics(s) ==
    IF Levelled(s)
    THEN ~Indexable(s, FirstLevel) \/ ~Indexable(s, SecondLevel - FirstLevel)
         \/ ~Indexable(s, ThirdLevel - SecondLevel)
         \/ ~Indexable(s, Cardinality(DOMAIN s.tally) - ThirdLevel)
    ELSE IF IsElection(s)
    THEN LET c == Cardinality(DOMAIN s.tally) IN
         ~Indexable(s, IF MaxSignerCount > c THEN c ELSE MaxSignerCount)
    ELSE ~Indexable(s, Len(s.signers))

\* createSignerQueue: <<>> stands for errSignerQueueEmpty.
CreateSignerQueue(s, tie) ==
    LET sorted == SignersByHash(SignerSlice(s), tie)
    IN  IF sorted = <<>> THEN <<>>
        ELSE [i \in 1..MaxSignerCount |->
                 sorted[((i - 1) % Len(sorted)) + 1].addr]

-----------------------------------------------------------------------------
(* Turns, misses, punishment. *)

\* inturn: the queue position of time t.  The difference is a uint64 and wraps
\* when t lies before the start of the loop.
TurnOf(queue, loopStart, t) ==
    queue[((((t - loopStart) % Word) \div Period) % Len(queue)) + 1]

\* Mutant: the walk does not stop at the current signer.
GetSignerMissingAll(lastSigner, currentSigner, queue) ==
    LET from == CHOOSE i \in 1..(Len(queue) + 1) :
                   /\ i <= Len(queue) => queue[i] = lastSigner
                   /\ \A j \in 1..(i - 1) : queue[j] # lastSigner
        order == Ranked({i \in (from + 1)..Len(queue) :
                            queue[i] \notin {lastSigner, currentSigner}}, <)
    IN  [k \in DOMAIN order |-> queue[order[k]]]

\* getSignerMissing: the queue between the first lastSigner and the first
\* currentSigner.  When both are the same the walk never stops.
GetSignerMissing(lastSigner, currentSigner, queue) ==
    LET first(P(_)) == CHOOSE i \in 1..(Len(queue) + 1) :
                          /\ i <= Len(queue) => P(queue[i])
                          /\ \A j \in 1..(i - 1) : ~P(queue[j])
        from == first(LAMBDA a : a = lastSigner)
        stop == first(LAMBDA a : a # lastSigner /\ a = currentSigner)
        order == Ranked({i \in (from + 1)..(stop - 1) : queue[i] # lastSigner}, <)
    IN  [k \in DOMAIN order |-> queue[order[k]]]

\* Subtract n from the count of the addresses in A; a count of n or less goes.
Lower(punished, A, n) ==
    LET keep == {a \in DOMAIN punished : a \in A => punished[a] > n}
    IN  [a \in keep |-> IF a \in A THEN punished[a] - n ELSE punished[a]]

\* updateSnapshotForPunish.
UpdateForPunish(punished, missing, coinbase) ==
    LET times(a) == Cardinality({i \in DOMAIN missing : missing[i] = a})
        old(a) == IF a \in DOMAIN punished THEN punished[a] ELSE 0
        more == [a \in DOMAIN punished \cup ToSet(missing) |->
                    old(a) + MissingCredit * times(a)]
        signed == Lower(more, {coinbase}, SignCredit)
    IN  Lower(signed, DOMAIN signed, AutoCredit)

=============================================================================
