---------------------------- MODULE SignerRotation ----------------------------
(***************************************************************************)
(* One chain of the main network, block by block: Finalize fills a header  *)
(* (time, loop start, signer queue, missing signers), Seal lets exactly    *)
(* the signer in turn sign it, verifySeal checks it, and Snapshot.apply    *)
(* takes it over (signers, loop start, history of hashes, punishments).    *)
(*                                                                         *)
(* A block's delay after its earliest time and its hash are inputs.        *)
(* The tally belongs to VoteLedger; here votes may change it to any member *)
(* of Tallies with every block.                                            *)
(***************************************************************************)
EXTENDS SignerQueue

CONSTANTS
    Addr,               \* addresses, as naturals
    HashAt,             \* the hashes, as naturals, a block may have, by number
    SelfVoteSigners,    \* config.SelfVoteSigners, a sequence
    Tallies,            \* the tallies the ledger may show
    GenesisTimestamp,   \* config.GenesisTimestamp
    StartEarly,         \* seconds before it at which Prepare lets block 1 go
    Delays,             \* bound: seconds a block may come after its earliest time
    MaxNumber           \* bound: highest block number

ASSUME RotationAssumption ==
    /\ Addr \subseteq Nat
    /\ HashAt \in [0..MaxNumber -> (SUBSET Nat) \ {{}}]
    /\ \A m, n \in 0..MaxNumber : m # n => HashAt[m] \cap HashAt[n] = {}
    /\ SelfVoteSigners \in Seq(Addr) /\ SelfVoteSigners # <<>>
    /\ \A t \in Tallies : /\ DOMAIN t \subseteq Addr /\ IsFiniteSet(DOMAIN t)
                          /\ t \in [DOMAIN t -> Nat]
    /\ GenesisTimestamp \in Nat /\ StartEarly \in Nat
    /\ StartEarly <= GenesisTimestamp
    /\ Delays \subseteq Nat /\ MaxNumber \in Nat

VARIABLES
    number,     \* Number of the head and of its snapshot
    time,       \* Time of the head
    coinbase,   \* Coinbase of the head
    missing,    \* SignerMissing of the head
    loopStart,  \* LoopStartTime
    signers,    \* SignerQueue of the head = Signers of its snapshot
    history,    \* HistoryHash
    punished,   \* Punished
    tally,      \* Tally
    failed      \* Finalize ended without a block: "no", "empty", "panic"

vars == <<number, time, coinbase, missing, loopStart, signers, history,
          punished, tally, failed>>

Snap == [number |-> number, signers |-> signers, history |-> history,
         punished |-> punished, tally |-> tally]

-----------------------------------------------------------------------------

\* newSnapshot; the genesis header has time 0.
Init ==
    /\ number = 0 /\ time = 0
    /\ coinbase = 0 /\ missing = <<>>
    /\ loopStart = GenesisTimestamp
    /\ signers = [i \in 1..MaxSignerCount |->
                     SelfVoteSigners[((i - 1) % Len(SelfVoteSigners)) + 1]]
    /\ history \in {<<h>> : h \in HashAt[0]}
    /\ punished = <<>>
    /\ tally \in Tallies
    /\ failed = "no"

\* The earliest Time that Finalize gives the next header: one period after its
\* parent (later if the clock is), and not before Prepare's count down for block
\* 1 is over.  Verification asks less, that a header be no earlier than its
\* parent (alien.go:327); headers not made by Finalize are left out.
Earliest ==
    LET next == time + Period
        start == GenesisTimestamp - StartEarly
    IN  IF number = 0 /\ start > next THEN start ELSE next

EndsLoop == (number + 1) % MaxSignerCount = 0

\* Mutant: one slot too many per loop.
NextLoopStartLate ==
    IF EndsLoop THEN loopStart + Period * (MaxSignerCount + 1) ELSE loopStart

\* Finalize: the start of the next loop is computed, not measured.
NextLoopStart ==
    IF EndsLoop THEN loopStart + Period * MaxSignerCount ELSE loopStart

\* Mutant: one hash too few is kept.
PushHashShort(h) ==
    IF Len(history) >= MaxSignerCount
    THEN SubSeq(history, 2, MaxSignerCount) \o <<h>>
    ELSE history \o <<h>>

\* apply: at most two loops of hashes are kept.
PushHash(h) ==
    IF Len(history) >= 2 * MaxSignerCount
    THEN SubSeq(history, 2, 2 * MaxSignerCount) \o <<h>>
    ELSE history \o <<h>>

\* A block is produced, sealed, verified and applied.
Block ==
    /\ failed = "no"
    /\ number < MaxNumber
    /\ EndsLoop => ~QueuePanics(Snap) /\ SignerSlice(Snap) # <<>>
    /\ \E delay \in Delays, h \in HashAt[number + 1],
          tie \in IF EndsLoop /\ Levelled(Snap) THEN Ties(MaxSignerCount)
                  ELSE {InOrder(MaxSignerCount)} :
          LET t == Earliest + delay
              signer == TurnOf(signers, loopStart, t)
              miss == IF number = 0 THEN <<>>
                      ELSE GetSignerMissing(coinbase, signer, signers)
          IN  /\ time' = t
              /\ coinbase' = signer
              /\ missing' = miss
              /\ signers' = IF EndsLoop THEN CreateSignerQueue(Snap, tie)
                            ELSE signers
              /\ loopStart' = NextLoopStart
              /\ history' = PushHash(h)
              /\ punished' = UpdateForPunish(punished, miss, signer)
    /\ number' = number + 1
    /\ tally' \in Tallies
    /\ failed' = failed

\* Finalize returns errSignerQueueEmpty: nobody is tallied at an election.
NoSigners ==
    /\ failed = "no"
    /\ number < MaxNumber
    /\ EndsLoop /\ ~QueuePanics(Snap) /\ SignerSlice(Snap) = <<>>
    /\ failed' = "empty"
    /\ UNCHANGED <<number, time, coinbase, missing, loopStart, signers,
                   history, punished, tally>>

\* createSignerQueue reads the history out of range.
HistoryPanic ==
    /\ failed = "no"
    /\ number < MaxNumber
    /\ EndsLoop /\ QueuePanics(Snap)
    /\ failed' = "panic"
    /\ UNCHANGED <<number, time, coinbase, missing, loopStart, signers,
                   history, punished, tally>>

Next == Block \/ NoSigners \/ HistoryPanic

Spec == Init /\ [][Next]_vars

-----------------------------------------------------------------------------
(* Properties. *)

\* Every variable has its type; a queue has MaxSignerCount entries, no
\* punishment of zero is stored, and the history holds the last blocks, up to
\* two loops of them (Signers, HistoryHash, Punished).
TypeOK ==
    /\ number \in 0..MaxNumber /\ time \in Nat /\ loopStart \in Nat
    /\ coinbase \in Nat /\ missing \in Seq(Addr)
    /\ signers \in [1..MaxSignerCount -> Addr]
    /\ history \in Seq(Nat)
    /\ Len(history) = IF number + 1 < 2 * MaxSignerCount THEN number + 1
                      ELSE 2 * MaxSignerCount
    /\ DOMAIN punished \subseteq Addr /\ punished \in [DOMAIN punished -> Nat \ {0}]
    /\ tally \in Tallies
    /\ failed \in {"no", "empty", "panic"}

\* A loop that ends without an election only reorders its signers.
RotationPermutes ==
    [][EndsLoop /\ ~IsElection(Snap) /\ number' # number =>
          \A a \in Addr : Cardinality({i \in DOMAIN signers : signers[i] = a})
                        = Cardinality({i \in DOMAIN signers' : signers'[i] = a})]_vars

\* An election without levels takes the best weighted candidates, all of them
\* if there are fewer than MaxSignerCount, and gives each nearly the same
\* number of turns.
ElectsTopStake ==
    [][EndsLoop /\ IsElection(Snap) /\ ~Levelled(Snap) /\ number' # number =>
          LET elected == ToSet(signers')
              turns(a) == Cardinality({i \in DOMAIN signers' : signers'[i] = a})
          IN  /\ elected \subseteq DOMAIN tally
              /\ \A a \in elected, b \in DOMAIN tally \ elected :
                    /\ TallyBefore(tally, punished, a, b)
                    /\ Cardinality(elected) = MaxSignerCount
              /\ \A a, b \in elected : turns(a) <= turns(b) + 1]_vars

\* Punishment never costs a candidate its seat when even its minimal credit
\* outweighs all but MaxSignerCount - 1 of the others at full credit.
DominantStaysIn ==
    [][EndsLoop /\ IsElection(Snap) /\ ~Levelled(Snap) /\ number' # number =>
          \A a \in DOMAIN tally :
              Cardinality({b \in DOMAIN tally \ {a} :
                              tally[b] * FullCredit >= tally[a] * MinCredit})
                 < MaxSignerCount
              => a \in ToSet(signers')]_vars

\* With levels: the whole first level is elected, nobody twice, and each lower
\* level fills exactly its share of the queue.
LevelsKeepShares ==
    [][EndsLoop /\ Levelled(Snap) /\ number' # number =>
          LET ranking == TallyRanking(tally, punished)
              fromLevel(lo, hi) == Cardinality({i \in DOMAIN signers' :
                 \E k \in (lo + 1)..hi : ranking[k] = signers'[i]})
          IN  /\ IsInjective(signers')
              /\ fromLevel(0, FirstLevel) = FirstLevel
              /\ fromLevel(FirstLevel, SecondLevel) = SecondTake
              /\ fromLevel(SecondLevel, ThirdLevel) = ThirdTake
              /\ fromLevel(ThirdLevel, Len(ranking)) = 1]_vars

\* The slots of the parent's schedule strictly between two times; the slot of
\* a time before the loop started is negative.
SlotsBetween(s, t) ==
    {k \in ((s - loopStart) \div Period + 1)..((t - loopStart) \div Period - 1) :
        k >= 0}

Missed(a, s, t) ==
    \E k \in SlotsBetween(s, t) : signers[(k % MaxSignerCount) + 1] = a

\* Inside a loop of distinct signers, getSignerMissing reports only signers
\* that had a slot after the parent and let it pass.
MissingIsMissed ==
    [][number > 0 /\ number' # number /\ number % MaxSignerCount # 0 /\ IsInjective(signers)
       /\ time >= loopStart =>
          \A i \in DOMAIN missing' : Missed(missing'[i], time, time')]_vars

\* "Get the signer missing from last signer till header.Coinbase": at every
\* block, a reported signer had a slot after the parent and let it pass.
PunishedOnlyIfMissed ==
    [][number > 0 /\ number' # number =>
          \A i \in DOMAIN missing' : Missed(missing'[i], time, time')]_vars

\* If block 1 is not earlier than the genesis timestamp, the subtraction in
\* inturn never wraps: the next header is never before the start of its loop.
NoWrapAfterStart ==
    /\ TypeOK
    /\ number > 0 /\ time >= GenesisTimestamp + (number - 1) * Period
          => Earliest >= loopStart

\* createSignerQueue reads the history out of range only in the last level of a
\* levelled election, when more candidates are left for it than two loops have
\* blocks; the other levels and the other branches are always in range.
PanicOnlyBeyondWindow ==
    failed = "panic" /\ LCRS > 1 /\ ThirdLevel <= 2 * MaxSignerCount =>
        Levelled(Snap)
        /\ Cardinality(DOMAIN tally) > ThirdLevel + 2 * MaxSignerCount

\* An election always finds the hashes it indexes ("choose 1 from last").
HistorySuffices == failed # "panic"

=============================================================================
