------------------------------ MODULE SideChain ------------------------------
(***************************************************************************)
(* How the main chain confirms and rewards the blocks of side chains       *)
(* (consensus/alien snapshot.go, custom_tx.go, alien.go).                  *)
(*                                                                         *)
(* The sealer of a side chain block sends a transaction to the main chain  *)
(* that lists the blocks of the loop before it (mcConfirmBlock,            *)
(* getLastLoopInfo).  The main chain keeps these confirmations, counts     *)
(* them at the end of each of its own loops, scores the blocks it takes as *)
(* confirmed and pays for the scores two loops later out of the miner's    *)
(* reward.                                                                 *)
(*                                                                         *)
(* The side chain is given as the branches it may have; which blocks are   *)
(* ever sealed makes no difference, since a confirmation is sent before    *)
(* its block is signed.  A node sends one confirmation per number, but the *)
(* number it sent last, lcsc, is only in memory and is not kept when the   *)
(* RPC call timed out: a transaction may be sent again, and it reaches a   *)
(* block after any delay and in any order.  So a block of the main chain   *)
(* may carry any confirmation of any branch.  Nor does the main chain look *)
(* at what a confirmation says: there may be others, of any content.       *)
(*                                                                         *)
(* Blocks are past TrantorBlock.  Votes, tallies and proposals belong to   *)
(* other modules: here a block may carry any decision on a side chain, and *)
(* any signer may lose its settings because its tally is gone.  The model  *)
(* starts where the side chains have just been added.                      *)
(***************************************************************************)
EXTENDS Rewards, Sequences, SequencesExt, TLC

CONSTANTS
    Signer,             \* signers of the main chain
    Hash,               \* side chains
    Coinbase,           \* sealers of the side chains
    InitialCoinbase,    \* SCCoinbase at the start: [Signer \X Hash -> Coinbase]
    Branches,           \* [Hash -> branches: functions from block numbers to
                        \*          [coinbase, slot]]
    Unfounded,          \* confirmations that no branch accounts for
    Leavers,            \* signers that may lose their place
    Settings,           \* [signer, hash, coinbase] of set coinbase transactions
    Offers,             \* [count, reward] per period a proposal may give
    MaxSignerCount,
    Word,               \* 2^64 in the code: unsigned numbers wrap here
    Starts,             \* numbers of the block the model starts from
    MaxBlocks,          \* bound: blocks of the main chain after the start
    MaxCarrying,        \* bound: of these, the first may carry confirmations
    MaxEvents,          \* bound: decisions and changes of coinbases
    MaxConfirms         \* bound: confirm transactions in a block

DelayLoops == 2             \* scRewardDelayLoopCount
ExpiredLoops == 6           \* scRewardExpiredLoopCount
UnconfirmLoops == 3         \* scUnconfirmLoop

\* minConfirmedSignerCount.
MinConfirmed == (2 * MaxSignerCount) \div 3

ASSUME SideChainAssumption ==
    /\ MaxSignerCount \in Nat \ {0, 1}
    /\ IsFiniteSet(Hash) /\ IsFiniteSet(Coinbase)
    /\ DOMAIN InitialCoinbase \subseteq Signer \X Hash
    /\ \A p \in DOMAIN InitialCoinbase : InitialCoinbase[p] \in Coinbase
    /\ Leavers \subseteq Signer
    /\ Settings \subseteq [signer : Signer, hash : Hash, coinbase : Coinbase]
    /\ Offers \subseteq [count : Nat, reward : Nat]
    /\ \A h \in Hash : IsFiniteSet(Branches[h])
    /\ \A h \in Hash : \A b \in Branches[h] :
          \E last \in DOMAIN b : last \in Nat /\ DOMAIN b = 0..last
    /\ IsFiniteSet(Unfounded)
    /\ Unfounded \subseteq [hash : Hash, by : Coinbase, number : Nat,
                            info : Seq(Nat \X Coinbase)]
    /\ MaxBlocks \in Nat /\ MaxCarrying \in Nat /\ MaxEvents \in Nat /\ MaxConfirms \in Nat
    /\ Starts \subseteq Nat
    /\ Word \in Nat /\ Word > ExpiredLoops * MaxSignerCount
    /\ \A s \in Starts : s + MaxBlocks < Word

VARIABLES
    start,      \* the block the model started from
    number,     \* the newest block of the main chain
    snap,       \* SCCoinbase, SCConfirmation and SCAllReward of its snapshot
    events,     \* decisions and changes of coinbases so far
    accepted,   \* by side chain: confirmations taken, of blocks not passed yet
    scored,     \* by side chain: how often each block was scored
    given,      \* by side chain and end of a loop: scores given and not due yet
    split       \* nodes may have scored the newest header differently

vars == <<start, number, snap, events, accepted, scored, given, split>>

\* Map f with value v for key k.
Put(f, k, v) == [x \in DOMAIN f \cup {k} |-> IF x = k THEN v ELSE f[x]]

-----------------------------------------------------------------------------
(* The side chain's node. *)

\* Place of a block in the loop of the main chain that its time falls in.
Place(b, n) == b[n].slot % MaxSignerCount

\* getLastLoopInfo: walking back from header h, at most two loops, the blocks
\* between the first and the second time the place rises.  The numbers fall
\* along the sequence.
LastLoopInfo(b, h) ==
    LET walk == {n \in DOMAIN b : n < h /\ n >= h - 2 * MaxSignerCount}
        ends == {n \in walk : Place(b, n) > Place(b, n + 1)}
        loop == {n \in walk : Cardinality({e \in ends : e >= n}) = 1}
    IN  [i \in 1..Cardinality(loop) |->
            LET n == (Max(loop) - i) + 1 IN <<n, b[n].coinbase>>]

\* mcConfirmBlock: the confirmation of block n of branch b, none in the first
\* loops and none if no loop has ended on the way back.
Confirms(h, b, n) ==
    IF n > MaxSignerCount * UnconfirmLoops /\ LastLoopInfo(b, n) # <<>>
    THEN {[hash |-> h, by |-> b[n].coinbase, number |-> n, info |-> LastLoopInfo(b, n)]}
    ELSE {}

\* The confirm transactions there may be: Seal sends those of the branches,
\* and processSCEventConfirm takes any number and list from anyone.
Sent == Unfounded \cup
        UNION {UNION {UNION {Confirms(h, b, n) : n \in DOMAIN b \ {0}}
                        : b \in Branches[h]} : h \in Hash}

-----------------------------------------------------------------------------
(* The snapshot of the main chain. *)

\* updateSnapshotBySetSCCoinbase.
SetSCCoinbase(s, e) ==
    IF e.kind = "set"
    THEN [s EXCEPT !.coinbase = Put(@, <<e.signer, e.hash>>, e.coinbase)]
    ELSE s

isSideChainCoinbase(s, h, a) ==
    \E p \in DOMAIN s.coinbase : p[2] = h /\ s.coinbase[p] = a

\* A confirmation counts if it comes from a coinbase of a known side chain
\* and is about a block after the last confirmed one.
Accepts(s, c) ==
    /\ isSideChainCoinbase(s, c.hash, c.by)
    /\ c.hash \in DOMAIN s.confirmation
    /\ c.number > s.confirmation[c.hash].last

\* The record of a side chain with the confirmations of set C added.
Recorded(rec, C) ==
    [rec EXCEPT !.record = @ \cup C, !.max = Max({@} \cup {c.number : c \in C})]

\* updateSnapshotBySCConfirm, its loop.
AddConfirms(s, C) ==
    [s EXCEPT !.confirmation = [h \in DOMAIN @ |->
        Recorded(@[h], {c \in C : c.hash = h /\ Accepts(s, c)})]]

\* The coinbases that listed loop i.
ListedBy(C, i) == {c.by : c \in {d \in C : d.info = i}}

\* Mutant: one coinbase fewer is enough.
ListedByFewer(C, count) ==
    {i \in {c.info : c \in C} :
        Len(i) >= count /\ Cardinality(ListedBy(C, i)) + 1 >= count}

\* The loops that at least "count" different coinbases of C listed.
Listed(C, count) ==
    {i \in {c.info : c \in C} :
        Len(i) >= count /\ Cardinality(ListedBy(C, i)) >= count}

\* calculateConfirmedNumber: what is recorded after the last confirmed block.
ConfirmedInfos(rec) ==
    Listed({c \in rec.record : c.number \in (rec.last + 1)..rec.max},
           MinConfirmed)

\* Mutant: the first block of a confirmed loop counts, not the last listed.
ConfirmedNumberFirst(rec) ==
    Max({rec.last} \cup {Head(i)[1] : i \in ConfirmedInfos(rec)})

ConfirmedNumber(rec) ==
    Max({rec.last} \cup {Last(i)[1] : i \in ConfirmedInfos(rec)})

Numbers(i) == {i[k][1] : k \in DOMAIN i}

\* Who sealed block n according to list i: the last entry for it counts.
SealerIn(i, n) == i[Max({k \in DOMAIN i : i[k][1] = n})][2]

\* confirmedCoinbase: Go walks the confirmed loops in any order, and the one
\* that comes last overwrites the others.
ConfirmedCoinbase(rec, order) ==
    LET infos == ConfirmedInfos(rec)
        lists(n) == {k \in DOMAIN order :
                        order[k] \in infos /\ n \in Numbers(order[k])}
    IN  [n \in {m \in (rec.last + 1)..ConfirmedNumber(rec) : lists(m) # {}} |->
            SealerIn(order[Max(lists(n))], n)]

\* Place of block n in the row of blocks of its sealer.
InRow(who, n) ==
    Cardinality({m \in DOMAIN who : m <= n /\
        \A k \in DOMAIN who : m <= k /\ k <= n => who[k] = who[n]})

\* The scores that updateSCConfirmation gives for newly confirmed blocks.
Scores(who, count) ==
    [a \in Range(who) |->
        SumOf([n \in {m \in DOMAIN who : who[m] = a} |->
                  CurrentBlockReward(InRow(who, n), count)])]

\* Numbers of unsigned width.
Unsigned(x) == x % Word

\* Mutant: records are kept for as long as the reward is delayed, less one.
ExpiredSoon(e, n) == e < Unsigned(n - (DelayLoops - 1) * MaxSignerCount)

\* A record of scores that updateSCConfirmation clears.  Before the end of the
\* sixth loop the difference wraps, and every record is older than it.
Expired(e, n) == e < Unsigned(n - ExpiredLoops * MaxSignerCount)

\* Mutant: all confirmations go, also those of blocks not reached yet.
ClosedAll(rec) ==
    [rec EXCEPT !.record = {}, !.last = ConfirmedNumber(rec)]

\* Confirmations up to the confirmed block are dropped.
Closed(rec) ==
    [rec EXCEPT !.record = {c \in @ : c.number \notin
                               (rec.last + 1)..ConfirmedNumber(rec)},
                !.last = ConfirmedNumber(rec)]

\* updateSCConfirmation at the end n of a loop.
UpdateSCConfirmation(s, n, order) ==
    LET conf == s.confirmation
        old(h) == IF h \in DOMAIN s.reward THEN s.reward[h] ELSE <<>>
        rows(h) ==
            IF h \in DOMAIN conf /\ ConfirmedNumber(conf[h]) > conf[h].last
            THEN Put(old(h), n,
                     Scores(ConfirmedCoinbase(conf[h], order), conf[h].count))
            ELSE old(h)
        all == [h \in Hash |->
                  Restrict(rows(h), {e \in DOMAIN rows(h) : ~Expired(e, n)})]
    IN  [s EXCEPT
           !.confirmation = [h \in DOMAIN conf |-> Closed(conf[h])],
           !.reward = [h \in {g \in Hash : all[g] # <<>>} |-> all[h]]]

EndsLoop(n) == (n + 1) % MaxSignerCount = 0

\* updateSnapshotBySCConfirm: confirmations, and the count at a loop's end.
BySCConfirm(s, C, n, order) ==
    LET t == AddConfirms(s, C) IN
    IF EndsLoop(n) THEN UpdateSCConfirmation(t, n, order) ELSE t

\* SCRecord of a new side chain.
NewRecord(offer) == [record |-> {}, last |-> 0, max |-> 0,
                     count |-> offer.count, reward |-> offer.reward]

\* calculateProposalResult: a passed proposal adds or removes a side chain.
ByProposal(s, e) ==
    CASE e.kind = "add" /\ e.hash \notin DOMAIN s.confirmation ->
            [s EXCEPT !.confirmation = Put(@, e.hash, NewRecord(e.offer))]
      [] e.kind = "remove" ->
            [s EXCEPT !.confirmation = Restrict(@, DOMAIN @ \ {e.hash})]
      [] OTHER -> s

\* removeExtraCandidate and updateSnapshotForExpired: a signer that leaves
\* takes its coinbases with it.
ByExpiry(s, e) ==
    IF e.kind = "gone"
    THEN [s EXCEPT !.coinbase =
            Restrict(@, {p \in DOMAIN @ : p[1] # e.signer})]
    ELSE s

\* apply, for the part of the snapshot that is about side chains.
ApplyHeader(s, n, C, e, order) ==
    ByExpiry(ByProposal(BySCConfirm(SetSCCoinbase(s, e), C, n, order), e), e)

-----------------------------------------------------------------------------
(* The block of the main chain. *)

\* calculateSCReward: the end of the loop whose scores block n pays, seen from
\* the snapshot of its parent.
PaidLoop(n) == Unsigned((n - 1) - DelayLoops * MaxSignerCount)

\* calculateSCReward for block n: scores of side chains still confirmed.
SCReward(s, n) ==
    LET conf == s.confirmation
        base == RewardBase([h \in DOMAIN conf |-> conf[h].reward])
        score(h, a) ==
            IF h \in DOMAIN s.reward
               /\ PaidLoop(n) \in DOMAIN s.reward[h]
               /\ a \in DOMAIN s.reward[h][PaidLoop(n)]
            THEN s.reward[h][PaidLoop(n)][a] ELSE 0
    IN  [a \in Coinbase |->
            SumOf([h \in DOMAIN conf |->
                      SingleReward(score(h, a), conf[h].reward, base, MinerReward(n))])]

\* What a block may carry besides confirmations.
Events ==
    {[kind |-> "none"]} \cup
    IF events = MaxEvents THEN {} ELSE
      {[kind |-> "set", signer |-> t.signer, hash |-> t.hash,
        coinbase |-> t.coinbase] : t \in Settings} \cup
      [kind : {"gone"}, signer : Leavers] \cup
      [kind : {"add"}, hash : Hash, offer : Offers] \cup
      [kind : {"remove"}, hash : DOMAIN snap.confirmation]

\* The records that a header counts, and the orders in which Go may walk the
\* loops confirmed in them.
Counted(e, C) == AddConfirms(SetSCCoinbase(snap, e), C).confirmation
Orders(n, conf) ==
    IF EndsLoop(n)
    THEN SetToSeqs(UNION {ConfirmedInfos(conf[h]) : h \in DOMAIN conf})
    ELSE {<<>>}

\* By order and side chain: who is found to have sealed the confirmed blocks.
Outcomes(n, conf) ==
    [o \in Orders(n, conf) |-> [h \in DOMAIN conf |->
        IF EndsLoop(n) THEN ConfirmedCoinbase(conf[h], o) ELSE <<>>]]

\* Bookkeeping for the properties: the confirmations taken, what was scored
\* and how often, and whether another order would have found other sealers.
\* A side chain that is removed starts anew.
Note(n, conf, outcomes, order, taken) ==
    LET who(h) == outcomes[order][h]
        times(h, m) == IF m \in DOMAIN scored[h] THEN scored[h][m] ELSE 0
        waits(h) == Restrict(given[h], {l \in DOMAIN given[h] :
                                 l + DelayLoops * MaxSignerCount >= n})
    IN  /\ accepted' = [h \in Hash |-> IF h \in DOMAIN conf
              THEN {c \in taken : c.hash = h} \cup
                   {c \in accepted[h] : c.number > snap.confirmation[h].last}
              ELSE {}]
        /\ scored' = [h \in Hash |-> IF h \in DOMAIN conf
              THEN [m \in DOMAIN scored[h] \cup DOMAIN who(h) |->
                       times(h, m) + IF m \in DOMAIN who(h) THEN 1 ELSE 0]
              ELSE <<>>]
        /\ given' = [h \in Hash |-> IF h \in DOMAIN conf /\ who(h) # <<>>
              THEN Put(waits(h), n, Scores(who(h), conf[h].count))
              ELSE waits(h)]
        /\ split' = (Cardinality(Range(outcomes)) > 1)

\* The confirm transactions a block may carry.
Carried ==
    UNION {kSubset(k, Sent) : k \in
             0..(IF number < start + MaxCarrying THEN MaxConfirms ELSE 0)}

\* apply of the header of the next block.
Block ==
    LET n == number + 1 IN
    /\ number < start + MaxBlocks
    /\ \E C \in Carried, e \in Events :
          \E conf \in {Counted(e, C)} : \E outcomes \in {Outcomes(n, conf)} :
             \E order \in DOMAIN outcomes :
                /\ snap' = ApplyHeader(snap, n, C, e, order)
                /\ Note(n, conf, outcomes, order,
                        {c \in C : Accepts(SetSCCoinbase(snap, e), c)})
                /\ events' = IF e.kind = "none" THEN events ELSE events + 1
    /\ number' = n
    /\ UNCHANGED start

Init ==
    /\ start \in Starts
    /\ number = start
    /\ \E offer \in Offers :
          snap = [coinbase |-> InitialCoinbase, reward |-> <<>>,
                  confirmation |-> [h \in Hash |-> NewRecord(offer)]]
    /\ events = 0
    /\ accepted = [h \in Hash |-> {}]
    /\ scored = [h \in Hash |-> <<>>]
    /\ given = [h \in Hash |-> <<>>]
    /\ split = FALSE

Next == Block

Spec == Init /\ [][Next]_vars

-----------------------------------------------------------------------------
(* Properties. *)

\* Every variable has its type (SCRecord, SCReward).
TypeOK ==
    /\ start \in Starts /\ number \in start..(start + MaxBlocks)
    /\ DOMAIN snap.coinbase \subseteq Signer \X Hash
    /\ DOMAIN snap.confirmation \subseteq Hash
    /\ \A h \in DOMAIN snap.confirmation :
          LET r == snap.confirmation[h] IN
          /\ r.last \in Nat /\ r.max \in Nat
          /\ \A c \in r.record : c.number \in (r.last + 1)..r.max
    /\ \A h \in DOMAIN snap.reward :
          /\ snap.reward[h] # <<>>
          /\ \A e \in DOMAIN snap.reward[h] : EndsLoop(e) /\ e <= number
    /\ events \in 0..MaxEvents /\ split \in BOOLEAN

\* The last confirmed block of a side chain never goes back while the side
\* chain stays, and what it advances to is the last listed block of a loop that
\* at least two thirds of MaxSignerCount coinbases listed alike, whatever else
\* they sent (calculateConfirmedNumber, updateSCConfirmation).
ConfirmedByQuorum ==
    [][\A h \in DOMAIN snap.confirmation \cap DOMAIN snap'.confirmation :
        LET from == snap.confirmation[h].last
            to == snap'.confirmation[h].last
        IN  \/ to = from
            \/ to > from /\ \E i \in Listed(accepted'[h], MinConfirmed) :
                                to = Last(i)[1]]_vars

\* When the last confirmed block of a side chain advances, the blocks it
\* passes are scored if a quorum has listed them, whenever its confirmations
\* came; blocks it passed before are never scored again, and those ahead not
\* yet (updateSnapshotBySCConfirm, updateSCConfirmation).
ScoredOnce ==
    [][\A h \in DOMAIN snap.confirmation \cap DOMAIN snap'.confirmation :
        LET passed == (snap.confirmation[h].last + 1)..snap'.confirmation[h].last
            listed == UNION {Numbers(i) : i \in Listed(accepted'[h], MinConfirmed)}
        IN  /\ DOMAIN scored'[h] = DOMAIN scored[h] \cup (listed \cap passed)
            /\ \A m \in DOMAIN scored'[h] : scored'[h][m] = 1]_vars

\* The next block pays each coinbase for exactly the scores given two loops
\* before its parent, if the side chain is still there and the scores were not
\* given in the first six loops of the main chain; scores of those loops are
\* never paid (updateSCConfirmation's expiry, calculateSCReward).
PaidAsScored ==
    LET e == number - DelayLoops * MaxSignerCount
        conf == snap.confirmation
        reward == MinerReward(number + 1)
        base == RewardBase([h \in DOMAIN conf |-> conf[h].reward])
        due(a) == {h \in DOMAIN conf : e >= ExpiredLoops * MaxSignerCount
                      /\ e \in DOMAIN given[h] /\ a \in DOMAIN given[h][e]}
        single(h, a) == SingleReward(given[h][e][a], conf[h].reward, base, reward)
    IN  /\ TypeOK
        /\ \A a \in Coinbase :
              SCReward(snap, number + 1)[a] = SumOf([h \in due(a) |-> single(h, a)])

\* "need to deal with sum of record.RewardPerPeriod for all side chain is larger
\* than 100% situation" (snapshot.go:907): what a block pays to side chains never
\* exceeds the reward of its miner, which it is taken from.
SideRewardsCovered ==
    SumOf(SCReward(snap, number + 1)) <= MinerReward(number + 1)

\* Two lists name different sealers for a block.
Conflict(i, j) == \E n \in Numbers(i) \cap Numbers(j) : SealerIn(i, n) # SealerIn(j, n)

\* Nodes can score the same headers differently, because Go walks a map in any
\* order, only if two quorums of coinbases listed loops that contradict each
\* other, and then a coinbase has listed both, or so many coinbases have sent
\* confirmations that two quorums need none in common: their number is not
\* limited by MaxSignerCount (calculateConfirmedNumber).
SplitOnlyByTwoQuorums ==
    [][split' =>
        \E h \in Hash : \E i, j \in {c.info : c \in accepted'[h]} :
            LET I == ListedBy(accepted'[h], i)
                J == ListedBy(accepted'[h], j)
            IN  /\ Conflict(i, j)
                /\ Cardinality(I) >= MinConfirmed /\ Cardinality(J) >= MinConfirmed
                /\ \/ I \cap J # {}
                   \/ Cardinality({c.by : c \in accepted'[h]}) >= 2 * MinConfirmed]_vars

=============================================================================
