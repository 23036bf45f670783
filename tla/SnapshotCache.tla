---------------------------- MODULE SnapshotCache ----------------------------
(***************************************************************************)
(* Alien.snapshot (consensus/alien/alien.go): the snapshot of a block is   *)
(* looked up in the memory of recent snapshots and, at checkpoints, on     *)
(* disk; otherwise the caller walks back to a block whose snapshot is      *)
(* there, or to the genesis block, whose snapshot it makes, and applies    *)
(* the headers it passed.  Several goroutines do this at once, no lock is  *)
(* held from one step to the next, the memory is bounded, and a crash      *)
(* takes the memory and every call but leaves the disk.  A call also ends  *)
(* with an error when a header is malformed, when the votes do not add up  *)
(* to the tally after apply, and when a snapshot cannot be stored.         *)
(*                                                                         *)
(* A snapshot is the sequence of headers that were applied to the genesis  *)
(* snapshot, and whether that one was made with the votes of the genesis   *)
(* signers: only Finalize of block 1 knows them.  What applying a header   *)
(* does, and when the votes do not add up, is the subject of VoteLedger,   *)
(* BatchLedger and Proposals.                                              *)
(*                                                                         *)
(* A process is a node, whose miner builds work before any peer or user is *)
(* served (newWorker), or an import of blocks from a file, without miner.  *)
(***************************************************************************)
EXTENDS Integers, Sequences, FiniteSets, Functions

CONSTANTS
    Blocks,             \* hashes of headers, of every fork
    Genesis,            \* the hash of block 0
    Parent,             \* ParentHash of every block but Genesis
    History,            \* the headers above Genesis that lead to a block
    Malformed,          \* headers with a wrong seal, coinbase or extra data
    Callers,            \* goroutines that call snapshot
    Wanted,             \* bound: the blocks each of them may ask for
    CheckpointInterval, \* checkpointInterval
    CacheSize,          \* inMemorySnapshots
    MaxCrashes          \* bound: crashes and exits of the process

ASSUME CacheAssumption ==
    /\ Genesis \in Blocks
    /\ Parent \in [Blocks \ {Genesis} -> Blocks]
    /\ History \in [Blocks -> Seq(Blocks)]
    /\ History[Genesis] = <<>>
    /\ \A b \in Blocks \ {Genesis} : History[b] = Append(History[Parent[b]], b)
    /\ Malformed \subseteq Blocks \ {Genesis}
    /\ Wanted \in [Callers -> SUBSET Blocks]
    /\ CheckpointInterval \in Nat \ {0}
    /\ CacheSize \in Nat \ {0}
    /\ MaxCrashes \in Nat

VARIABLES
    mode,     \* "down", "boot" (node, first work under way), "node", "import"
    known,    \* the headers in the chain database
    recents,  \* a.recents, by hash
    disk,     \* stored snapshots, by hash
    call,     \* the call of each caller
    tainted,  \* a process worked for others without a genesis snapshot on disk
    crashes

vars == <<mode, known, recents, disk, call, tainted, crashes>>

Number(h) == Len(History[h])
IsCheckpoint(h) == Number(h) % CheckpointInterval = 0

Snapshot == [hash : Blocks, applied : Seq(Blocks), votes : BOOLEAN]

(* None of the headers that lead to a block is malformed. *)
Sound(h) == \A i \in DOMAIN History[h] : History[h][i] \notin Malformed

(* The genesis snapshot, made with the genesis votes or without. *)
NewSnapshot(withVotes) == [hash |-> Genesis, applied |-> <<>>, votes |-> withVotes]

ApplyHeader(s, h) == [s EXCEPT !.hash = h, !.applied = Append(@, h)]

(* The number of the header must follow the number of the snapshot. *)
Applicable(s, h) == Number(h) = Number(s.hash) + 1

(* What the memory may be after Add: an entry makes room when it is full. *)
Added(cache, s) ==
    IF s.hash \in DOMAIN cache \/ Cardinality(DOMAIN cache) < CacheSize
    THEN {[h \in DOMAIN cache \cup {s.hash} |-> IF h = s.hash THEN s ELSE cache[h]]}
    ELSE { [h \in (DOMAIN cache \ {v}) \cup {s.hash} |-> IF h = s.hash THEN s ELSE cache[h]]
           : v \in DOMAIN cache }

Stored(s) == [h \in DOMAIN disk \cup {s.hash} |-> IF h = s.hash THEN s ELSE disk[h]]

Empty == [h \in {} |-> NewSnapshot(FALSE)]
NoCall == [pc |-> "idle"]

(* A call: the block it is for, the block the walk is at, the explicit     *)
(* parents that are left, the headers passed, the snapshot found, and      *)
(* whether genesis votes were given.                                       *)
Asking(h, parents, withVotes) ==
    [pc |-> "look", want |-> h, hash |-> h, parents |-> parents, headers |-> <<>>,
     snap |-> NewSnapshot(FALSE), votes |-> withVotes]

Free(p) == call[p].pc \in {"idle", "done", "failed"}

Init ==
    /\ mode = "down"
    /\ known = {Genesis}
    /\ recents = Empty
    /\ disk = Empty
    /\ call = [p \in Callers |-> NoCall]
    /\ tainted = FALSE
    /\ crashes = 0

-----------------------------------------------------------------------------
(* The process and the chain database around the engine. *)

Boot(m) ==
    /\ mode = "down"
    /\ mode' = m
    /\ tainted' = (tainted \/ (m = "import" /\ Genesis \notin DOMAIN disk))
    /\ UNCHANGED <<known, recents, disk, call, crashes>>

(* The first commitNewWork has returned, with work or with an error: RPC   *)
(* and networking start.                                                   *)
Serve ==
    /\ mode = "boot"
    /\ \E p \in Callers : call[p].pc \in {"done", "failed"}
    /\ mode' = "node"
    /\ tainted' = (tainted \/ (Genesis \notin DOMAIN disk /\ \E p \in Callers : call[p].pc = "failed"))
    /\ UNCHANGED <<known, recents, disk, call, crashes>>

(* A block enters the chain.  It has been verified, so the snapshot of its *)
(* parent has been made, and with it the genesis snapshot.                 *)
Learn(b) ==
    /\ mode \in {"node", "import"}
    /\ b \notin known
    /\ Parent[b] \in known
    /\ Sound(Parent[b])
    /\ Genesis \in DOMAIN disk
    /\ known' = known \cup {b}
    /\ UNCHANGED <<mode, recents, disk, call, tainted, crashes>>

Crash ==
    /\ mode # "down"
    /\ crashes < MaxCrashes
    /\ crashes' = crashes + 1
    /\ mode' = "down"
    /\ recents' = Empty
    /\ call' = [p \in Callers |-> NoCall]
    /\ UNCHANGED <<known, disk, tainted>>

-----------------------------------------------------------------------------
(* The callers. *)

Ask(p, h, parents, withVotes) ==
    /\ Free(p)
    /\ call' = [call EXCEPT ![p] = Asking(h, parents, withVotes)]
    /\ UNCHANGED <<mode, known, recents, disk, tainted, crashes>>

(* Finalize on top of a known block; genesis votes only for block 1.  A    *)
(* starting node does nothing else; an import has verified the block first.*)
AskFinalize(p, h) ==
    /\ \/ mode = "boot" /\ \A q \in Callers : call[q].pc = "idle"
       \/ mode = "node"
       \/ mode = "import" /\ Genesis \in DOMAIN disk
    /\ h \in known
    /\ Ask(p, h, <<>>, h = Genesis)

(* verifyHeader of a child of h: the parents of the same batch are given,  *)
(* whether or not they were found valid.                                   *)
AskVerify(p, h, i) ==
    /\ mode \in {"node", "import"}
    /\ i <= Number(h) \/ h \in known
    /\ Ask(p, h, SubSeq(History[h], i, Number(h)), FALSE)

(* API.GetSnapshot and its like, and Seal. *)
AskKnown(p, h) ==
    /\ mode = "node"
    /\ h \in known
    /\ Ask(p, h, <<>>, FALSE)

-----------------------------------------------------------------------------
(* The body of Alien.snapshot. *)

(* The walk is over: its parents and votes are not looked at any more. *)
Found(p, s) ==
    call' = [call EXCEPT ![p].pc = "apply", ![p].snap = s,
                         ![p].parents = <<>>, ![p].votes = FALSE]
Fail(p, why) ==
    call' = [call EXCEPT ![p] = [pc |-> "failed", want |-> call[p].want, why |-> why]]

OnDisk(h) == IsCheckpoint(h) /\ h \in DOMAIN disk

(* Mutant of Gather: the headers stay in the order of the walk. *)
GatherUnreversed(p) ==
    LET c == call[p]
        header == IF c.parents # <<>> THEN c.parents[Len(c.parents)] ELSE c.hash
    IN  IF IF c.parents # <<>> THEN header = c.hash ELSE header \in known
        THEN call' = [call EXCEPT
                        ![p].hash = Parent[header],
                        ![p].parents = IF @ # <<>> THEN SubSeq(@, 1, Len(@) - 1) ELSE @,
                        ![p].headers = Append(@, header)]
        ELSE Fail(p, "missing")

(* No snapshot here: take the header and go on with its parent. *)
Gather(p) ==
    LET c == call[p]
        header == IF c.parents # <<>> THEN c.parents[Len(c.parents)] ELSE c.hash
    IN  IF IF c.parents # <<>> THEN header = c.hash ELSE header \in known
        THEN call' = [call EXCEPT
                        ![p].hash = Parent[header],
                        ![p].parents = IF @ # <<>> THEN SubSeq(@, 1, Len(@) - 1) ELSE @,
                        ![p].headers = <<header>> \o @]
        ELSE Fail(p, "missing")

(* One turn of the loop: memory, disk, genesis, or one header back. *)
Look(p) ==
    /\ call[p].pc = "look"
    /\ LET h == call[p].hash IN
         CASE h \in DOMAIN recents -> Found(p, recents[h])
           [] h \notin DOMAIN recents /\ OnDisk(h) -> Found(p, disk[h])
           [] h \notin DOMAIN recents /\ ~OnDisk(h) /\ h = Genesis ->
                call' = [call EXCEPT ![p].pc = "create"]
           [] OTHER -> Gather(p)
    /\ UNCHANGED <<mode, known, recents, disk, tainted, crashes>>

(* Mutant of Create: the genesis snapshot is not stored. *)
CreateUnstored(p) ==
    /\ call[p].pc = "create"
    /\ Found(p, NewSnapshot(call[p].votes))
    /\ UNCHANGED <<mode, known, recents, disk, tainted, crashes>>

(* At block zero: make the snapshot and store it. *)
Create(p) ==
    /\ call[p].pc = "create"
    /\ disk' = Stored(NewSnapshot(call[p].votes))
    /\ Found(p, NewSnapshot(call[p].votes))
    /\ UNCHANGED <<mode, known, recents, tainted, crashes>>

(* Mutant of Apply: the snapshot in memory is changed, not a copy of it. *)
ApplyInPlace(p) ==
    /\ call[p].pc = "apply"
    /\ call[p].headers # <<>>
    /\ LET s == ApplyHeader(call[p].snap, Head(call[p].headers)) IN
         /\ call' = [call EXCEPT ![p].snap = s, ![p].headers = Tail(@)]
         /\ recents' = [h \in DOMAIN recents |-> IF h = call[p].snap.hash THEN s ELSE recents[h]]
    /\ UNCHANGED <<mode, known, disk, tainted, crashes>>

(* One header of apply's loop, on a copy of the snapshot.  An error takes  *)
(* the copy with it.                                                       *)
Apply(p) ==
    /\ call[p].pc = "apply"
    /\ call[p].headers # <<>>
    /\ LET h == Head(call[p].headers) IN
         CASE ~Applicable(call[p].snap, h) -> Fail(p, "chain")
           [] Applicable(call[p].snap, h) /\ h \in Malformed -> Fail(p, "malformed")
           [] OTHER -> call' = [call EXCEPT ![p].snap = ApplyHeader(@, h), ![p].headers = Tail(@)]
    /\ UNCHANGED <<mode, known, recents, disk, tainted, crashes>>

Return(p) == call' = [call EXCEPT ![p] = [pc |-> "done", want |-> call[p].want, snap |-> call[p].snap]]

(* recents.Add; a new checkpoint, one the walk did not begin at, remains   *)
(* to be stored.                                                           *)
Remember(p) ==
    /\ call[p].pc = "apply"
    /\ call[p].headers = <<>>
    /\ recents' \in Added(recents, call[p].snap)
    /\ IF IsCheckpoint(call[p].snap.hash) /\ call[p].hash # call[p].want
       THEN call' = [call EXCEPT ![p].pc = "store"]
       ELSE Return(p)
    /\ UNCHANGED <<mode, known, disk, tainted, crashes>>

Store(p) ==
    /\ call[p].pc = "store"
    /\ disk' = Stored(call[p].snap)
    /\ Return(p)
    /\ UNCHANGED <<mode, known, recents, tainted, crashes>>

(* The errors that may come at any time: store fails, of the genesis       *)
(* snapshot or of a checkpoint that recents already has.                   *)
StoreFails(p) ==
    /\ call[p].pc \in {"create", "store"}
    /\ Fail(p, "disk")
    /\ UNCHANGED <<mode, known, recents, disk, tainted, crashes>>

(* verifyTallyCnt, after apply has gone through its headers. *)
Miscount(p) ==
    /\ call[p].pc = "apply"
    /\ call[p].headers = <<>> /\ call[p].hash # call[p].want
    /\ Fail(p, "count")
    /\ UNCHANGED <<mode, known, recents, disk, tainted, crashes>>

Step(p) == Look(p) \/ Create(p) \/ Apply(p) \/ Remember(p) \/ Store(p)

Request(p) ==
    \E h \in Wanted[p] :
        \/ AskFinalize(p, h)
        \/ \E i \in 1..(Number(h) + 1) : AskVerify(p, h, i)
        \/ AskKnown(p, h)

Next ==
    \/ \E m \in {"boot", "import"} : Boot(m)
    \/ Serve
    \/ \E b \in Blocks \ {Genesis} : Learn(b)
    \/ Crash
    \/ \E p \in Callers : Request(p) \/ Step(p) \/ StoreFails(p) \/ Miscount(p)

Safe == Init /\ [][Next]_vars

(* A goroutine inside snapshot runs on: it waits for no one.  An error     *)
(* need never come.                                                        *)
Spec == Safe /\ \A p \in Callers : WF_vars(Step(p))

-----------------------------------------------------------------------------
(* The state of a call as SnapshotService has it. *)
ServiceView(p) ==
    CASE call[p].pc = "idle" -> [state |-> "idle"]
      [] call[p].pc = "failed" -> [state |-> "refused", want |-> call[p].want, why |-> call[p].why]
      [] call[p].pc = "done" ->
            [state |-> "answered", want |-> call[p].want, applied |-> call[p].snap.applied]
      [] OTHER -> [state |-> "waiting", want |-> call[p].want]

Service == INSTANCE SnapshotService WITH service <- [p \in Callers |-> ServiceView(p)]

(* Every call, whatever the other callers, evictions, failed stores and    *)
(* crashes did, is answered with the state of its block and of no other,   *)
(* which no header that apply refuses leads to, or is refused for one of   *)
(* the reasons the code has, never because apply was given headers that do *)
(* not follow each other, and does return: Alien.snapshot implements the   *)
(* service its callers rely on.                                            *)
ImplementsService == Service!Spec

-----------------------------------------------------------------------------
Walk == [pc : {"look", "create", "apply", "store"}, want : Blocks, hash : Blocks,
         parents : Seq(Blocks), headers : Seq(Blocks), snap : Snapshot,
         votes : BOOLEAN]

Errors == {"missing", "chain", "malformed", "count", "disk"}

Calls == {NoCall} \cup Walk \cup [pc : {"failed"}, want : Blocks, why : Errors]
           \cup [pc : {"done"}, want : Blocks, snap : Snapshot]

(* Types; the memory of recent snapshots never grows past its size, and    *)
(* only checkpoints are on disk.                                           *)
TypeOK ==
    /\ mode \in {"down", "boot", "node", "import"}
    /\ known \subseteq Blocks /\ Genesis \in known
    /\ DOMAIN recents \subseteq Blocks /\ DOMAIN disk \subseteq Blocks
    /\ recents \in [DOMAIN recents -> Snapshot]
    /\ disk \in [DOMAIN disk -> Snapshot]
    /\ Cardinality(DOMAIN recents) <= CacheSize
    /\ \A h \in DOMAIN disk : IsCheckpoint(h)
    /\ call \in [Callers -> Calls]
    /\ tainted \in BOOLEAN
    /\ crashes \in 0..MaxCrashes

(* A snapshot that went through the headers of its own block only. *)
Faithful(s, h) == s.hash = h /\ s.applied = History[h] /\ Sound(h)

(* Whatever is remembered, stored or returned for a block is the state of  *)
(* that block, also when a call failed half way: apply itself only         *)
(* compares numbers, so that no fork's header is applied to another fork's *)
(* snapshot rests on the walk.  And the memory of recent snapshots stays   *)
(* within its size (TypeOK).                                               *)
SnapshotsFaithful ==
    /\ TypeOK
    /\ \A h \in DOMAIN recents : Faithful(recents[h], h)
    /\ \A h \in DOMAIN disk : Faithful(disk[h], h)
    /\ \A p \in Callers : call[p].pc = "done" => Faithful(call[p].snap, call[p].want)

(* Unless blocks were imported into an empty database, or the first work   *)
(* of a node could not store the genesis snapshot, every snapshot descends *)
(* from one that has the votes of the genesis signers: also after a crash  *)
(* at any point of the first start, and although every caller but Finalize *)
(* of block 1 would make the genesis snapshot without them.                *)
GenesisVotesKept ==
    ~tainted => /\ \A h \in DOMAIN recents : recents[h].votes
                /\ \A h \in DOMAIN disk : disk[h].votes
                /\ \A p \in Callers : call[p].pc = "done" => call[p].snap.votes

(* "genesisVotes write direct into snapshot, which number is 1"            *)
(* (alien.go:704): every genesis snapshot that is stored has them.         *)
GenesisVotesWritten == Genesis \in DOMAIN disk => disk[Genesis].votes

=============================================================================
