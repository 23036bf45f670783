---------------------------- MODULE Confirmations ----------------------------
(***************************************************************************)
(* Block confirmation.  Every miner keeps sending transactions that        *)
(* confirm its current head (sendConfirmTx); the producer of a block turns *)
(* the ones it includes into confirmations (processEventConfirm), computes *)
(* the ConfirmedBlockNumber of its header (getLastConfirmedBlockNumber),   *)
(* and every node records the confirmations in its snapshot (apply), which *)
(* forgets them once they are old.                                         *)
(*                                                                         *)
(* A transaction may be late, repeated or lost, so a block may carry any   *)
(* confirm transactions.  Signer queues change only at the end of a loop   *)
(* and are otherwise arbitrary: see SignerRotation.  Votes make candidates *)
(* and removeExtraCandidate drops them, in which block depends on how the  *)
(* headers are grouped into calls of apply (see VoteLedger); here they are *)
(* arbitrary.  A call of apply may begin at any block and end at the head. *)
(***************************************************************************)
EXTENDS Integers, FiniteSets, Functions

CONSTANTS
    Signer,             \* addresses that send confirm transactions
    CandidateSets,      \* possible sets of candidates (Candidates)
    Queues,             \* possible signer queues, each as a set of addresses
    MaxSignerCount,     \* config.MaxSignerCount
    Word,               \* 2^64: the numbers a uint64 can hold
    MaxNumber,          \* bound: highest block number
    MaxConfirms         \* bound: confirmations in the chain and the next block

ASSUME ConfirmationsAssumption ==
    /\ IsFiniteSet(Signer)
    /\ CandidateSets \subseteq SUBSET Signer
    /\ Queues \subseteq SUBSET Signer
    /\ MaxSignerCount \in Nat \ {0}
    /\ MaxNumber \in Nat /\ MaxConfirms \in Nat
    /\ Word \in Nat /\ Word > MaxNumber + MaxSignerCount

VARIABLES
    number,         \* Number of the head
    queue,          \* SignerQueue of each header, by block number
    candidates,     \* Candidates of the head's snapshot (isCandidate)
    extra,          \* CurrentBlockConfirmations of the header being built
    confirmed,      \* ConfirmedBlockNumber of the head = ConfirmedNumber
    confirmations,  \* Confirmations of the head's snapshot
    base,           \* Confirmations of the copy on which the call of apply that
                    \* ends with the next header will replay that header
    received,       \* history: every confirmation ever applied
    failed          \* the producer ran into a nil snapshot

vars == <<number, queue, candidates, extra, confirmed, confirmations, base,
          received, failed>>

-----------------------------------------------------------------------------
(* Operators. *)

\* The result of a uint64 subtraction whose exact result is x.
Uint(x) == IF x < 0 THEN x + Word ELSE x

Quorum == (MaxSignerCount * 2) \div 3

Confirmers(m, b) == IF b \in DOMAIN m THEN m[b] ELSE {}

\* Mutant: a new confirmation replaces the earlier ones.
UpdateByConfirmationsReplaces(m, C) ==
    [b \in DOMAIN m \cup {c.block : c \in C} |->
        IF \E c \in C : c.block = b
        THEN {c.signer : c \in {d \in C : d.block = b}} ELSE m[b]]

\* updateSnapshotByConfirmations; the scan for the address makes a list of
\* confirmers a set.
UpdateByConfirmations(m, C) ==
    [b \in DOMAIN m \cup {c.block : c \in C} |->
        Confirmers(m, b) \cup {c.signer : c \in {d \in C : d.block = b}}]

\* Mutant: only the block that is one too old now is looked for, which is
\* enough for calls of apply with one header.
ExpireConfirmationsNewest(m, n) ==
    Restrict(m, {b \in DOMAIN m : ~(Uint(n - b) = MaxSignerCount + 1)})

\* updateSnapshotForExpired, "deal the expired confirmation".
ExpireConfirmations(m, n) ==
    Restrict(m, {b \in DOMAIN m : ~(Uint(n - b) > MaxSignerCount)})

\* Where getLastConfirmedBlockNumber stops looking; it wraps for a short chain.
Low(n) == Uint(n - Quorum + 1)

\* The blocks it looks at that more than Quorum signers confirmed.
ConfirmedAbove(n, m) ==
    {i \in DOMAIN m : i > Low(n) /\ i <= n /\ Cardinality(m[i]) > Quorum}

\* Mutant: the search ends one block too early.
GetLastConfirmedShort(n, m) ==
    LET hits == ConfirmedAbove(n, m) \ {Low(n) + 1} IN
    IF hits # {} THEN CHOOSE i \in hits : \A j \in hits : j <= i
    ELSE IF n > Low(n) THEN Low(n) ELSE n

\* getLastConfirmedBlockNumber of a snapshot with number n and, the new ones
\* included, confirmations m.  When the loop is not entered, i is still n.
GetLastConfirmed(n, m) ==
    LET hits == ConfirmedAbove(n, m) IN
    IF hits # {} THEN CHOOSE i \in hits : \A j \in hits : j <= i
    ELSE IF n > Low(n) THEN Low(n) ELSE n

\* Mutant: the signer queue of the block is not looked at.
ConfirmAcceptedAnyQueue(s, b) ==
    s \in candidates /\ ~(Uint(number + 1 - b) > MaxSignerCount) /\ b \in 1..number

\* Mutant: whether the confirmed header is known is not looked at.
ConfirmAcceptedUnknown(s, b) ==
    s \in candidates /\ ~(Uint(number + 1 - b) > MaxSignerCount)

\* processEventConfirm for block number + 1, called for candidates only: the
\* confirmed block is recent, known, not the genesis block (whose extra data
\* does not decode), and the sender is in its signer queue.
ConfirmAccepted(s, b) ==
    /\ s \in candidates
    /\ ~(Uint(number + 1 - b) > MaxSignerCount)
    /\ b \in 1..number
    /\ s \in queue[b]

-----------------------------------------------------------------------------

Init ==
    /\ number = 0
    /\ queue = [b \in {} |-> {}]
    /\ candidates \in CandidateSets
    /\ extra = {}
    /\ confirmed = 0
    /\ confirmations = [b \in {} |-> {}]
    /\ base = [b \in {} |-> {}]
    /\ received = [b \in {} |-> {}]
    /\ failed = FALSE

\* Who confirmed which block so far.
Applied == {p \in (DOMAIN received) \X Signer : p[2] \in received[p[1]]}

\* The block under construction includes a confirm transaction; the sender may
\* confirm any number, old or not yet reached.
IncludeConfirm ==
    /\ ~failed
    /\ number > 0 /\ number < MaxNumber
    /\ Cardinality(extra) + Cardinality(Applied) < MaxConfirms
    /\ \E s \in Signer, b \in 0..MaxNumber :
          extra' = IF ConfirmAccepted(s, b)
                   THEN extra \cup {[signer |-> s, block |-> b]} ELSE extra
    /\ UNCHANGED <<number, queue, candidates, confirmed, confirmations, base,
                   received, failed>>

\* processCustomTx of block 1 has no snapshot: isCandidate of the sender
\* dereferences nil.
NilSnapshot ==
    /\ ~failed
    /\ number = 0
    /\ failed' = TRUE
    /\ UNCHANGED <<number, queue, candidates, extra, confirmed, confirmations,
                   base, received>>

\* The block is finalized with the confirmations of its parent's snapshot, and
\* sealed, with the signer queue of its parent or, at the end of a loop, a new
\* one.  A call of apply that began at an earlier block replays it and forgets
\* what is old; the next block is replayed by this call or by a new one.
Block ==
    /\ ~failed
    /\ number < MaxNumber
    /\ LET n == number + 1
           all == UpdateByConfirmations(base, extra)
       IN  /\ number' = n
           /\ confirmed' = GetLastConfirmed(number,
                              UpdateByConfirmations(confirmations, extra))
           /\ confirmations' = ExpireConfirmations(all, n)
           /\ base' \in {all, confirmations'}
           /\ received' = UpdateByConfirmations(received, extra)
           /\ \E q \in Queues :
                 /\ n > 1 /\ n % MaxSignerCount # 0 => q = queue[number]
                 /\ queue' = [b \in 1..n |-> IF b = n THEN q ELSE queue[b]]
    /\ candidates' \in CandidateSets
    /\ extra' = {}
    /\ failed' = failed

Next == IncludeConfirm \/ NilSnapshot \/ Block

Spec == Init /\ [][Next]_vars

-----------------------------------------------------------------------------
(* Properties. *)

IsConfirmations(m) ==
    DOMAIN m \subseteq 1..MaxNumber /\ m \in [DOMAIN m -> SUBSET Signer]

\* Every variable has its type (Confirmations, ConfirmedNumber).
TypeOK ==
    /\ number \in 0..MaxNumber
    /\ queue \in [1..number -> SUBSET Signer]
    /\ candidates \subseteq Signer
    /\ extra \subseteq [signer : Signer, block : 1..MaxNumber]
    /\ confirmed \in 0..MaxNumber
    /\ IsConfirmations(confirmations) /\ IsConfirmations(base)
    /\ IsConfirmations(received)
    /\ failed \in BOOLEAN

\* However many headers a node replays in one call of apply, which forgets old
\* confirmations once per call, it ends with the same Confirmations: those of
\* the last MaxSignerCount blocks, complete.
ExpiryTransparent ==
    confirmations = Restrict(received,
        {b \in DOMAIN received : number - b <= MaxSignerCount})

\* Once the chain is longer than Quorum blocks, ConfirmedBlockNumber never
\* goes back, although confirmations expire (getLastConfirmedBlockNumber).
ConfirmedMonotone ==
    [][number >= Quorum => confirmed' >= confirmed]_vars

\* The block b is confirmed by enough signers of its own signer queue, or
\* Quorum blocks are on top of it.
Supported(b) ==
    \/ number - b >= Quorum
    \/ b \in 1..number
       /\ Cardinality(Confirmers(received, b) \cap queue[b]) > Quorum

\* From block Quorum on, the ConfirmedBlockNumber of a header is supported
\* (getLastConfirmedBlockNumber, processEventConfirm).
ConfirmedSupported == number >= Quorum => Supported(confirmed)

\* No block that is supported by confirmations in time is overlooked: a block
\* that enough signers confirmed lies at or below ConfirmedBlockNumber.
ConfirmedIsLast ==
    number >= Quorum =>
        \A b \in DOMAIN received :
            b < number /\ Cardinality(received[b]) > Quorum => b <= confirmed

=============================================================================
