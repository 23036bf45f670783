----------------------------- MODULE WorkerLoops -----------------------------
(***************************************************************************)
(* The loops of the worker (miner/worker.go): update commits new work for  *)
(* every new head and for every period, wait writes sealed blocks to the   *)
(* chain, and every call of Miner.Start, in a goroutine of its own         *)
(* (eth/backend.go:368), commits work as well.  commitNewWork and          *)
(* receiveBlock take receiveBlockMu, commitNewWork then mu; neither lock   *)
(* is reentrant.  recv and chainHeadCh are bounded channels.               *)
(*                                                                         *)
(* A piece of work is the number of the block it is built on.  While it is *)
(* sealed, a block of the same number by someone else may become the head: *)
(* the chain then keeps one of the two by lot (core/blockchain.go:963).    *)
(* The agent (MinerControl) takes the work it is given; of its seals, also *)
(* those it has told to quit may still return a block.  The chain and its  *)
(* event feeds are go-ethereum's.                                          *)
(***************************************************************************)
EXTENDS Integers, Sequences, FiniteSets

CONSTANTS
    None,
    Starters,     \* goroutines that call Start
    HeadChanSize, \* chainHeadChanSize
    RecvSize,     \* resultQueueSize
    MaxHead,      \* bound: number of the highest block
    Many          \* bound: seals of one piece of work are counted up to here,
                  \* and Many stands for any number from there on

ASSUME LoopsAssumption ==
    /\ HeadChanSize \in Nat \ {0}
    /\ RecvSize \in Nat \ {0}
    /\ MaxHead \in Nat
    /\ None \notin 0..MaxHead
    /\ Many \in Nat \ {0}
    /\ {"update", "wait"} \cap Starters = {}
    /\ None \notin Starters \cup {"update", "wait"}

Threads == Starters \cup {"update", "wait"}

VARIABLES
    pc,          \* where each goroutine is
    work,        \* its piece of work, or the result it handles
    mu,          \* who holds worker.mu
    recvMu,      \* who holds receiveBlockMu
    busy,        \* update took another event less than a period ago
    atMining,    \* worker.mining
    mustCommit,  \* mustCommitNewWork of wait
    recv,        \* sealed pieces of work, None for a nil result
    workCh,      \* the agent's channel, of capacity 1
    seals,       \* how often each piece of work is being sealed
    head,        \* number of the head of the chain
    headCh,      \* events in chainHeadCh
    importing    \* an importer has an event of a new head to post

locks == <<mu, recvMu>>
agent == <<workCh, seals>>
chain == <<head, headCh, importing>>
loopsVars == <<pc, work, locks, busy, atMining, mustCommit, recv, agent, chain>>

LoopsInit ==
    /\ pc = [t \in Threads |-> CASE t = "update" -> "select" [] t = "wait" -> "range"
                                 [] OTHER -> "idle"]
    /\ work = [t \in Threads |-> None]
    /\ mu = None /\ recvMu = None
    /\ busy = FALSE /\ atMining = FALSE /\ mustCommit = TRUE /\ recv = <<>>
    /\ workCh = <<>> /\ seals = [w \in 0..MaxHead |-> 0]
    /\ head = 0 /\ headCh = 0 /\ importing = FALSE

Goto(t, l) == pc' = [pc EXCEPT ![t] = l]
Step(t, from, to) == pc[t] = from /\ Goto(t, to)
Set(t, w) == work' = [work EXCEPT ![t] = w]

-----------------------------------------------------------------------------
(* worker.start and stop, under mu; the agent starts and stops with it. *)

Start(t) ==
    /\ mu = None
    /\ Step(t, "idle", "commit")
    /\ atMining' = TRUE
    /\ UNCHANGED <<work, locks, mustCommit, recv, agent, chain, busy>>

Stop ==
    /\ mu = None
    /\ atMining
    /\ atMining' = FALSE
    /\ workCh' = <<>>
    /\ UNCHANGED <<pc, work, locks, mustCommit, recv, seals, chain, busy>>

-----------------------------------------------------------------------------
(* commitNewWork *)

AfterCommit(t) == IF t \in Starters THEN "idle" ELSE "select"

CommitLockRecv(t) ==
    /\ recvMu = None
    /\ Step(t, "commit", "lock")
    /\ recvMu' = t
    /\ UNCHANGED <<work, mu, atMining, mustCommit, recv, agent, chain, busy>>

(* With both locks, the block is built on the head of that moment. *)
CommitBuild(t) ==
    /\ mu = None
    /\ Step(t, "lock", "push")
    /\ mu' = t
    /\ Set(t, head)
    /\ UNCHANGED <<recvMu, atMining, mustCommit, recv, agent, chain, busy>>

(* Mutant of CommitFail: the early return leaves receiveBlockMu locked. *)
CommitFailLocked(t) ==
    /\ mu = None
    /\ Step(t, "lock", AfterCommit(t))
    /\ UNCHANGED <<work, locks, atMining, mustCommit, recv, agent, chain, busy>>

(* Prepare, makeCurrent or Finalize fails: nothing is pushed. *)
CommitFail(t) ==
    /\ mu = None
    /\ Step(t, "lock", AfterCommit(t))
    /\ recvMu' = None
    /\ UNCHANGED <<work, mu, atMining, mustCommit, recv, agent, chain, busy>>

(* push, if mining, waits for room in the agent's channel. *)
CommitPush(t) ==
    /\ Step(t, "push", AfterCommit(t))
    /\ IF atMining THEN workCh = <<>> /\ workCh' = <<work[t]>> ELSE UNCHANGED workCh
    /\ mu' = None /\ recvMu' = None
    /\ Set(t, None)
    /\ UNCHANGED <<atMining, mustCommit, recv, seals, chain, busy>>

-----------------------------------------------------------------------------
(* update *)

UpdateHead ==
    /\ headCh > 0
    /\ Step("update", "select", "commit")
    /\ headCh' = headCh - 1
    /\ UNCHANGED <<work, locks, atMining, mustCommit, recv, agent, head, importing, busy>>

(* Mutant of UpdatePeriod: without the retry, only for a worker at rest. *)
UpdatePeriodIdle ==
    /\ headCh = 0 /\ ~busy /\ ~atMining
    /\ Step("update", "select", "commit")
    /\ UNCHANGED <<work, locks, atMining, mustCommit, recv, agent, chain, busy>>

(* The period has passed without an event: time.After begins anew with     *)
(* every turn of the loop.                                                 *)
UpdatePeriod ==
    /\ headCh = 0 /\ ~busy
    /\ Step("update", "select", "commit")
    /\ UNCHANGED <<work, locks, atMining, mustCommit, recv, agent, chain, busy>>

(* A transaction or a side block comes: no work is committed for it. *)
UpdateOther ==
    /\ pc["update"] = "select"
    /\ ~busy
    /\ busy' = TRUE
    /\ UNCHANGED <<pc, work, locks, atMining, mustCommit, recv, agent, chain>>

(* Almost a period passes in which no other one comes. *)
Quiet ==
    /\ busy
    /\ busy' = FALSE
    /\ UNCHANGED <<pc, work, locks, atMining, mustCommit, recv, agent, chain>>

-----------------------------------------------------------------------------
(* wait and receiveBlock *)

WaitTake ==
    /\ recv # <<>>
    /\ Step("wait", "range", "receive")
    /\ Set("wait", Head(recv))
    /\ recv' = Tail(recv)
    /\ UNCHANGED <<locks, atMining, mustCommit, agent, chain, busy>>

(* A nil result is done with here. *)
ReceiveLock ==
    /\ recvMu = None
    /\ Step("wait", "receive", IF work["wait"] = None THEN "unlock" ELSE "write")
    /\ recvMu' = "wait"
    /\ UNCHANGED <<work, mu, atMining, mustCommit, recv, agent, chain, busy>>

(* WriteBlockWithState makes the block the head: its event is posted.      *)
WriteCanon ==
    /\ pc["wait"] = "write"
    /\ head <= work["wait"] + 1
    /\ work["wait"] < MaxHead
    /\ Goto("wait", "post")
    /\ head' = work["wait"] + 1
    /\ mustCommit' = FALSE
    /\ UNCHANGED <<work, locks, atMining, recv, agent, headCh, importing, busy>>

(* The block is on a side chain: work is committed from here, with         *)
(* receiveBlockMu held.                                                    *)
WriteSide ==
    /\ pc["wait"] = "write"
    /\ work["wait"] + 1 <= head
    /\ Goto("wait", IF mustCommit THEN "commit" ELSE "unlock")
    /\ UNCHANGED <<work, locks, atMining, mustCommit, recv, agent, chain, busy>>

WriteFail ==
    /\ Step("wait", "write", "unlock")
    /\ UNCHANGED <<work, locks, atMining, mustCommit, recv, agent, chain, busy>>

(* PostChainEvents waits for room in chainHeadCh, receiveBlockMu held. *)
PostHead ==
    /\ headCh < HeadChanSize
    /\ Step("wait", "post", "unlock")
    /\ headCh' = headCh + 1
    /\ UNCHANGED <<work, locks, atMining, mustCommit, recv, agent, head, importing, busy>>

ReceiveUnlock ==
    /\ Step("wait", "unlock", "range")
    /\ recvMu' = None
    /\ Set("wait", None)
    /\ UNCHANGED <<mu, atMining, mustCommit, recv, agent, chain, busy>>

-----------------------------------------------------------------------------
(* The agent: it takes the work, and a seal returns its block or nothing. *)

(* Mutant of TakeWork: work is only taken when no seal is in progress. *)
TakeWorkWaits ==
    /\ workCh # <<>>
    /\ \A w \in 0..MaxHead : seals[w] = 0
    /\ seals' = [seals EXCEPT ![Head(workCh)] = 1]
    /\ workCh' = <<>>
    /\ UNCHANGED <<pc, work, locks, atMining, mustCommit, recv, chain, busy>>

TakeWork ==
    /\ workCh # <<>>
    /\ seals' = [seals EXCEPT ![Head(workCh)] = IF @ < Many THEN @ + 1 ELSE Many]
    /\ workCh' = <<>>
    /\ UNCHANGED <<pc, work, locks, atMining, mustCommit, recv, chain, busy>>

SealReturn(w) ==
    /\ seals[w] > 0
    /\ Len(recv) < RecvSize
    /\ \E left \in {seals[w] - 1} \cup (IF seals[w] = Many THEN {Many} ELSE {}) :
          seals' = [seals EXCEPT ![w] = left]
    /\ \E r \in {w, None} : recv' = Append(recv, r)
    /\ UNCHANGED <<pc, work, locks, atMining, mustCommit, workCh, chain, busy>>

(* Blocks of other signers: a new head, then its event. *)
Import ==
    /\ ~importing
    /\ head < MaxHead
    /\ head' = head + 1
    /\ importing' = TRUE
    /\ UNCHANGED <<pc, work, locks, atMining, mustCommit, recv, agent, headCh, busy>>

ImportPost ==
    /\ importing
    /\ headCh < HeadChanSize
    /\ headCh' = headCh + 1
    /\ importing' = FALSE
    /\ UNCHANGED <<pc, work, locks, atMining, mustCommit, recv, agent, head, busy>>

-----------------------------------------------------------------------------
Commit(t) == CommitLockRecv(t) \/ CommitBuild(t) \/ CommitPush(t)
Update == UpdateHead \/ UpdatePeriod
Wait == WaitTake \/ ReceiveLock \/ WriteCanon \/ WriteSide \/ WriteFail \/ PostHead \/ ReceiveUnlock

LoopsNext ==
    \/ \E t \in Starters : Start(t)
    \/ Stop
    \/ \E t \in Threads : Commit(t) \/ CommitFail(t)
    \/ Update \/ UpdateOther \/ Quiet
    \/ Wait
    \/ TakeWork \/ \E w \in 0..MaxHead : SealReturn(w)
    \/ Import \/ ImportPost

(* Goroutines run on, and Go's mutex hands itself to whoever waits long:   *)
(* strong fairness for what takes a lock.  The engine does not fail for    *)
(* ever, and the agent takes its work (MuReleased of MinerControl).        *)
(* Starts, stops, imports and the end of a seal may never come, and        *)
(* transactions may come in every period.                                  *)
Fairness ==
    /\ \A t \in Starters \cup {"update"} : SF_loopsVars(Commit(t)) /\ SF_loopsVars(CommitBuild(t))
    /\ WF_loopsVars(Update) /\ WF_loopsVars(Quiet) /\ SF_loopsVars(Wait)
    /\ WF_loopsVars(TakeWork) /\ WF_loopsVars(ImportPost)

LoopsSpec == LoopsInit /\ [][LoopsNext]_loopsVars /\ Fairness

-----------------------------------------------------------------------------
(* Types; receiveBlockMu and mu are held exactly in the sections of the    *)
(* code that take them, by one goroutine at a time.                        *)
LoopsTypeOK ==
    /\ pc \in [Threads -> {"idle", "select", "range", "commit", "lock", "push",
                           "receive", "write", "post", "unlock"}]
    /\ work \in [Threads -> 0..MaxHead \cup {None}]
    /\ \A t \in Threads :
         /\ mu = t <=> pc[t] = "push"
         /\ recvMu = t <=> \/ pc[t] \in {"lock", "push", "write", "post", "unlock"}
                           \/ t = "wait" /\ pc[t] = "commit"
    /\ busy \in BOOLEAN /\ atMining \in BOOLEAN /\ mustCommit \in BOOLEAN /\ importing \in BOOLEAN
    /\ recv \in Seq(0..MaxHead \cup {None}) /\ Len(recv) <= RecvSize
    /\ workCh \in Seq(0..MaxHead) /\ Len(workCh) <= 1
    /\ seals \in [0..MaxHead -> 0..Many]
    /\ head \in 0..MaxHead /\ headCh \in 0..HeadChanSize

(* wait waits for the lock it holds itself. *)
Relocked == pc["wait"] = "commit"

(* wait waits for room in the channel that only update empties, and update *)
(* waits for the lock that wait holds.                                     *)
ChannelJam == pc["wait"] = "post" /\ headCh = HeadChanSize /\ pc["update"] = "commit"

(* No goroutine of the worker is held up for good in any other way: unless *)
(* wait has jammed, receiveBlockMu becomes free again and again.           *)
JamsOnlyTwoWays == []<>(recvMu = None \/ Relocked \/ ChannelJam)

(* While the worker is mining, the head of the moment is worked on again   *)
(* and again, by its event or by the retry of the period, also if seals    *)
(* never end, unless wait has jammed or other events come in every period  *)
(* and keep the retry from ever being due.  Imports come at any time but   *)
(* end at MaxHead: if there always was a newer head before the work on the *)
(* last one is taken, no head would be worked on.                          *)
WorkFollowsHead == []<>(~atMining \/ seals[head] > 0 \/ busy \/ Relocked \/ ChannelJam)

(* "try to seal block in each period, even no new block received in dpos"  *)
(* (worker.go:293): update goes on to commit work again and again.         *)
TriesEachPeriod == []<>(pc["update"] = "lock")
=============================================================================
