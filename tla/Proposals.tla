------------------------------ MODULE Proposals ------------------------------
(***************************************************************************)
(* Proposals and declares (consensus/alien/snapshot.go) on a node that     *)
(* follows a chain.  The node replays the headers with Snapshot.apply, in  *)
(* batches of any size, stores checkpoints and may restart from them; an   *)
(* API call may replay old headers once more.  Nodes agree on proposals if *)
(* what a node holds is a function of the chain alone.                     *)
(*                                                                         *)
(* Proposals maps the hash of a proposal to a pointer.  The pointer stored *)
(* by updateSnapshotByProposals is the address of the loop variable (:676),*)
(* one and the same for all proposals of a header: "cell" maps a hash to a *)
(* cell and "data" a cell to what it holds.  copy() gives each hash a cell *)
(* of its own.  The passed share of the miner is no part of the snapshot   *)
(* but a variable of the process, minerRewardPerThousand.                  *)
(*                                                                         *)
(* Candidates and tallies belong to VoteLedger and are fixed here.         *)
(* candidateNeedPD is false, so proposals about candidates have no effect. *)
(***************************************************************************)
EXTENDS Integers, Sequences, FiniteSets, Functions, SequencesExt, FiniteSetsExt

CONSTANTS
    Hash,               \* hashes of proposal transactions
    Validity,           \* [Hash -> Nat]: ValidationLoopCnt * MaxSignerCount
    Setups,             \* what the proposals may be about and who holds stake
    Declarer,           \* addresses that send declare transactions
    Candidate,          \* the candidates among them
    DefaultReward,      \* minerRewardPerThousand when a process starts
    CheckpointInterval, \* checkpointInterval
    MaxNumber,          \* bound: highest block number
    MaxDeclares,        \* bound: declares in the chain
    MaxEvents           \* bound: restarts and API calls

ASSUME ProposalsAssumption ==
    /\ Validity \in [Hash -> Nat \ {0}]
    /\ \A s \in Setups :
          /\ s.kind \in [Hash -> {"reward", "scAdd", "scRemove", "candidate"}]
          /\ s.value \in [Hash -> Nat]
          /\ s.tally \in [DOMAIN s.tally -> Nat \ {0}]
          /\ IsFiniteSet(DOMAIN s.tally)
    /\ IsFiniteSet(Hash)
    /\ Candidate \subseteq Declarer
    /\ DefaultReward \in Nat /\ CheckpointInterval \in Nat \ {0}
    /\ MaxNumber \in Nat /\ MaxDeclares \in Nat /\ MaxEvents \in Nat

\* A declare transaction; Decision is true for "yes".
Declare == [hash : Hash, by : Declarer, decision : {"yes", "no"}]

VARIABLES
    setup,      \* kind and value of each proposal, and Tally
    chain,      \* the headers: their proposals and declares, in order
    snap,       \* the snapshot of the head the node has reached
    disk,       \* stored snapshots by number
    reward,     \* minerRewardPerThousand of the process
    once,       \* the process has applied every header, and each once
    events      \* restarts and API calls so far

vars == <<setup, chain, snap, disk, reward, once, events>>

KindOf == setup.kind    \* ProposalType
ValueOf == setup.value  \* MinerRewardPerThousand or SCHash
Tally == setup.tally    \* stake of the tallied addresses

-----------------------------------------------------------------------------
(* Snapshots and what apply does to them.  While a header is applied the    *)
(* process variable travels with the snapshot, as field reward.             *)

EmptySnap ==
    [number |-> 0, cell |-> [h \in {} |-> h], data |-> [h \in {} |-> h], sc |-> {}]

\* What the pointer stored for hash h points to.
At(s, h) == s.data[s.cell[h]]

\* copy: every hash gets a cell of its own.
CopyProposals(s) ==
    [s EXCEPT !.cell = [h \in DOMAIN s.cell |-> h],
              !.data = [h \in DOMAIN s.cell |-> At(s, h)]]

\* updateSnapshotByProposals: one cell, which ends with the last proposal.
UpdateByProposals(s, props, n) ==
    IF props = <<>> THEN s
    ELSE LET loopVar == Last(props) IN
         [s EXCEPT
            !.cell = [h \in DOMAIN s.cell \cup ToSet(props) |->
                         IF h \in ToSet(props) THEN loopVar ELSE s.cell[h]],
            !.data = [c \in DOMAIN s.data \cup {loopVar} |->
                         IF c = loopVar
                         THEN [of |-> loopVar, received |-> n, declares |-> {}]
                         ELSE s.data[c]]]

\* Mutant: a declare is accepted one block after the end of the validity.
AcceptsLate(s, d, n) ==
    /\ d.hash \in DOMAIN s.cell
    /\ At(s, d.hash).received + Validity[At(s, d.hash).of] + 1 >= n
    /\ d.by \in Candidate
    /\ \A e \in At(s, d.hash).declares : e.by # d.by

\* updateSnapshotByDeclares: the proposal is known and still open, the sender
\* a candidate that has not declared on it yet.
Accepts(s, d, n) ==
    /\ d.hash \in DOMAIN s.cell
    /\ At(s, d.hash).received + Validity[At(s, d.hash).of] >= n
    /\ d.by \in Candidate
    /\ \A e \in At(s, d.hash).declares : e.by # d.by

\* Proposal p with the declare appended.
WithDeclare(p, d) ==
    [p EXCEPT !.declares = p.declares \cup {[by |-> d.by, decision |-> d.decision]}]

AddDeclare(s, d, n) ==
    IF Accepts(s, d, n)
    THEN [s EXCEPT !.data = [s.data EXCEPT ![s.cell[d.hash]] =
                                WithDeclare(At(s, d.hash), d)]]
    ELSE s

StakeOf(A) == MapThenSumSet(LAMBDA a : Tally[a], A \cap DOMAIN Tally)

\* More than two thirds of all stake, rounded down, declared yes.
Passes(declares) ==
    StakeOf({d.by : d \in {e \in declares : e.decision = "yes"}})
        > (StakeOf(DOMAIN Tally) * 2) \div 3

\* Mutant: only the first change of the share is taken over.
EffectRewardOnce(s, p) ==
    CASE KindOf[p] = "reward"    -> [s EXCEPT !.reward =
                                       IF @ = DefaultReward THEN ValueOf[p] ELSE @]
      [] KindOf[p] = "scAdd"     -> [s EXCEPT !.sc = s.sc \cup {ValueOf[p]}]
      [] KindOf[p] = "scRemove"  -> [s EXCEPT !.sc = s.sc \ {ValueOf[p]}]
      [] KindOf[p] = "candidate" -> s

\* What a passed proposal p changes.
Effect(s, p) ==
    CASE KindOf[p] = "reward"    -> [s EXCEPT !.reward = ValueOf[p]]
      [] KindOf[p] = "scAdd"     -> [s EXCEPT !.sc = s.sc \cup {ValueOf[p]}]
      [] KindOf[p] = "scRemove"  -> [s EXCEPT !.sc = s.sc \ {ValueOf[p]}]
      [] KindOf[p] = "candidate" -> s

\* One iteration of calculateProposalResult, for key h.
Decide(s, h, n) ==
    IF h \in DOMAIN s.cell /\ At(s, h).received + Validity[At(s, h).of] + 1 = n
    THEN IF Passes(At(s, h).declares) THEN Effect(s, At(s, h).of)
         ELSE [s EXCEPT !.cell = Restrict(s.cell, DOMAIN s.cell \ {h})]
    ELSE s

\* The declares of header n, one after the other.
Declaring(s, n) ==
    LET after[i \in 0..Len(chain[n].declares)] ==
            IF i = 0 THEN s ELSE AddDeclare(after[i - 1], chain[n].declares[i], n)
    IN  after

\* calculateProposalResult: the walk over the map Proposals, in Go's order.
Deciding(s, n, order) ==
    LET after[i \in 0..Len(order)] ==
            IF i = 0 THEN s ELSE Decide(after[i - 1], order[i], n)
    IN  after

ApplyHeader(s, n, order) ==
    LET received == UpdateByProposals(s, chain[n].proposals, n)
        declared == Declaring(received, n)[Len(chain[n].declares)]
    IN  Deciding(declared, n, order)[Len(order)]

Orders == Bijection(1..Cardinality(Hash), Hash)

\* What apply works on: a copy of the snapshot, and the process variable.
Working(s, r) ==
    [cell |-> CopyProposals(s).cell, data |-> CopyProposals(s).data,
     sc |-> s.sc, reward |-> r]

\* The headers up to last.  A key is due in one header, so one order stands
\* for the walks of all headers.
Replaying(s, r, last, order) ==
    LET after[n \in s.number..last] ==
            IF n = s.number THEN Working(s, r)
            ELSE ApplyHeader(after[n - 1], n, order)
    IN  after

\* apply; the number advances at the end.
Apply(s, r, last, order) ==
    LET done == Replaying(s, r, last, order)[last]
    IN  [snap |-> [number |-> last, cell |-> done.cell, data |-> done.data,
                   sc |-> done.sc],
         reward |-> done.reward]

-----------------------------------------------------------------------------

Init ==
    /\ setup \in Setups
    /\ chain = <<>>
    /\ snap = EmptySnap
    /\ disk = [n \in {0} |-> EmptySnap]
    /\ reward = DefaultReward
    /\ once = TRUE
    /\ events = 0

Proposed == UNION {ToSet(chain[n].proposals) : n \in DOMAIN chain}
Declared == UNION {{n} \X DOMAIN chain[n].declares : n \in DOMAIN chain}

\* The chain grows.  processCustomTx writes proposals and declares of
\* candidates; in block 1 it has no snapshot to ask for candidates.  apply
\* reads no header ahead, so it is enough to replay chains from their start.
AddHeader ==
    /\ snap.number = 0 /\ events = 0
    /\ Len(chain) < MaxNumber
    /\ \E k \in 0..Cardinality(Hash), m \in 0..MaxDeclares :
          /\ chain = <<>> => k = 0 /\ m = 0
          /\ Cardinality(Declared) + m <= MaxDeclares
          /\ \E props \in Injection(1..k, Hash \ Proposed),
                decls \in [1..m -> Declare] :
                chain' = Append(chain, [proposals |-> props, declares |-> decls])
    /\ UNCHANGED <<setup, snap, disk, reward, once, events>>

\* snapshot: the result of apply is stored if it is a checkpoint.
Stored(s) ==
    IF s.number % CheckpointInterval = 0
    THEN [n \in DOMAIN disk \cup {s.number} |->
             IF n = s.number THEN CopyProposals(s) ELSE disk[n]]
    ELSE disk

\* The headers up to a later one are applied in one call.
Advance ==
    /\ \E last \in (snap.number + 1)..Len(chain), order \in Orders :
          LET done == Apply(snap, reward, last, order) IN
          /\ snap' = done.snap
          /\ reward' = done.reward
          /\ disk' = Stored(done.snap)
    /\ UNCHANGED <<setup, chain, once, events>>

\* The process ends and starts again; the newest stored snapshot is loaded.
Restart ==
    /\ events < MaxEvents
    /\ snap' = disk[Max(DOMAIN disk)]
    /\ reward' = DefaultReward
    /\ once' = (Max(DOMAIN disk) = 0)
    /\ events' = events + 1
    /\ UNCHANGED <<setup, chain, disk>>

\* An API call asks for the snapshot of an old block that is no longer cached:
\* headers are applied to the nearest stored snapshot, the head's is not touched.
QueryOld ==
    /\ events < MaxEvents
    /\ \E last \in 1..(snap.number - 1), order \in Orders :
          LET from == Max({n \in DOMAIN disk : n <= last})
              done == Apply(disk[from], reward, last, order)
          IN  /\ from < last
              /\ reward' = done.reward
              /\ disk' = Stored(done.snap)
    /\ once' = FALSE
    /\ events' = events + 1
    /\ UNCHANGED <<setup, chain, snap>>

Next == AddHeader \/ Advance \/ Restart \/ QueryOld

Spec == Init /\ [][Next]_vars

-----------------------------------------------------------------------------
(* What the chain says, without snapshots, cells and batches. *)

ProposedAt(h) == CHOOSE n \in DOMAIN chain : h \in ToSet(chain[n].proposals)
DecidedAt(h) == ProposedAt(h) + Validity[h] + 1

DeclareAt(p) == chain[p[1]].declares[p[2]]

\* The declare at p is a's on h, while h was open.
Counts(p, a, h) ==
    /\ DeclareAt(p).hash = h /\ DeclareAt(p).by = a
    /\ ProposedAt(h) <= p[1] /\ p[1] < DecidedAt(h)

Before(q, p) == q[1] < p[1] \/ (q[1] = p[1] /\ q[2] < p[2])

\* a's first declare on h while h was open is at p.
FirstBy(p, a, h) ==
    Counts(p, a, h) /\ ~\E q \in Declared : Counts(q, a, h) /\ Before(q, p)

SaysYes(a, h) ==
    \E p \in Declared : FirstBy(p, a, h) /\ DeclareAt(p).decision = "yes"

\* Three times the stake that said yes exceeds twice all stake.
Approved(h) ==
    3 * StakeOf({a \in Candidate : SaysYes(a, h)}) > 2 * StakeOf(DOMAIN Tally)

\* The proposals decided and approved up to block n, of a kind.
Passed(n, kind) ==
    {h \in Proposed : KindOf[h] = kind /\ DecidedAt(h) <= n /\ Approved(h)}

\* No two proposals came, or were decided, in one block up to n.
Separate(n) ==
    \A g, h \in Proposed :
        g # h /\ ProposedAt(g) <= n /\ ProposedAt(h) <= n =>
            ProposedAt(g) # ProposedAt(h) /\ DecidedAt(g) # DecidedAt(h)

-----------------------------------------------------------------------------
(* Properties. *)

IsSnap(s) ==
    /\ s.number \in 0..MaxNumber
    /\ DOMAIN s.cell \subseteq Hash
    /\ \A h \in DOMAIN s.cell :
          At(s, h) \in [of : Hash, received : 1..MaxNumber,
                        declares : SUBSET [by : Declarer, decision : {"yes", "no"}]]
    /\ s.sc \subseteq {ValueOf[h] : h \in Hash}

\* Every variable has its type (Proposals, SCConfirmation).
TypeOK ==
    /\ setup \in Setups
    /\ snap.number <= Len(chain)
    /\ IsSnap(snap) /\ \A n \in DOMAIN disk : IsSnap(disk[n]) /\ disk[n].number = n
    /\ reward \in Nat /\ once \in BOOLEAN /\ events \in 0..MaxEvents

\* The proposals a snapshot of block n holds: the open and the passed ones.
OpenOrPassed(n) ==
    {h \in Proposed : ProposedAt(h) <= n /\ (DecidedAt(h) > n \/ Approved(h))}

\* The side chains added and not removed since.
SideChainsOf(n) ==
    {ValueOf[h] : h \in {g \in Passed(n, "scAdd") :
        ~\E r \in Passed(n, "scRemove") :
            ValueOf[r] = ValueOf[g] /\ DecidedAt(r) > DecidedAt(g)}}

\* If proposals come one per block, a snapshot holds the open and the passed
\* ones and the side chains of the passed ones, whatever the batches of apply
\* and the restarts were (updateSnapshotByProposals, updateSnapshotByDeclares,
\* calculateProposalResult, copy, store).
ProposalsFollowChain ==
    /\ TypeOK
    /\ Separate(snap.number) =>
          /\ DOMAIN snap.cell = OpenOrPassed(snap.number)
          /\ snap.sc = SideChainsOf(snap.number)

\* The miner's share the chain has decided on up to block n.
RewardOfChain(n) ==
    LET passed == Passed(n, "reward") IN
    IF passed = {} THEN DefaultReward
    ELSE ValueOf[CHOOSE h \in passed : \A g \in passed : DecidedAt(g) <= DecidedAt(h)]

\* A process that applies every header of such a chain, and each once, uses
\* the share decided on (minerRewardPerThousand).
RewardFollowsChain ==
    Separate(snap.number) /\ once => reward = RewardOfChain(snap.number)

\* "not only candidate add/remove , current signer can proposal for params
\* modify like percentage of reward distribution": a node that has reached a
\* block uses the share decided on, after a restart or an API call too.
RewardModified ==
    Separate(snap.number) => reward = RewardOfChain(snap.number)

=============================================================================
