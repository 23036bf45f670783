----------------------------- MODULE MinerControl -----------------------------
(***************************************************************************)
(* Starting and stopping the miner (miner/miner.go, agent.go and the part  *)
(* of worker.go between them).  Every call of Miner.Start runs in a        *)
(* goroutine of its own (eth/backend.go:368), calls of Stop in the one of  *)
(* their RPC, and Miner.update starts and stops the miner around the       *)
(* first synchronisation; they share atomic flags and, in worker.start     *)
(* and stop, worker.mu.  worker.update commits work again and again.  The  *)
(* agent receives work and stops through channels of capacity 1; an old    *)
(* goroutine of its update loop may still be there when a new one starts.  *)
(*                                                                         *)
(* What a piece of work is and what happens to a sealed block is left to   *)
(* WorkerLoops.  Of the seals in progress those matter whose stop channel  *)
(* has not been closed; the others return by themselves.                   *)
(***************************************************************************)
EXTENDS Integers, FiniteSets

CONSTANTS
    Starters,   \* goroutines that run Miner.Start for a user
    Stoppers,   \* goroutines that run Miner.Stop for a user
    None,
    MaxCalls    \* bound: calls of Start and Stop

Users == Starters \cup Stoppers

ASSUME ControlAssumption ==
    /\ MaxCalls \in Nat
    /\ {"sync", "update"} \cap Users = {}
    /\ None \notin Users \cup {"sync", "update"}

Threads == Users \cup {"sync", "update"}

(* Names of stop channels: enough for one to be new when a seal begins. *)
Channels == 1..3

VARIABLES
    mining, canStart, shouldStart,  \* Miner: the atomic flags
    shallStart,  \* the local shouldStart of Miner.update
    pc,          \* where each goroutine is
    mu,          \* who holds worker.mu
    atMining,    \* worker.mining
    isMining,    \* CpuAgent.isMining
    workCh,      \* CpuAgent.workCh holds a piece of work (capacity 1)
    stopCh,      \* CpuAgent.stop holds a token (capacity 1)
    updaters,    \* goroutines in CpuAgent.update
    seals,       \* the open stop channels of the seals in progress
    quit,        \* quitCurrentOp
    calls,       \* calls of Start and Stop so far
    wish         \* what the last of them was

flags == <<mining, canStart, shouldStart, shallStart>>
agent == <<isMining, workCh, stopCh, updaters, seals, quit>>
user == <<calls, wish>>
minerVars == <<flags, pc, mu, atMining, agent, user>>

MinerInit ==
    /\ mining = FALSE /\ canStart = TRUE /\ shouldStart = FALSE /\ shallStart = FALSE
    /\ pc = [t \in Threads |-> CASE t = "sync" -> "y.start"
                                 [] t = "update" -> "c.mu" [] OTHER -> "idle"]
    /\ mu = None /\ atMining = FALSE
    /\ isMining = FALSE /\ workCh = FALSE /\ stopCh = FALSE /\ updaters = 0
    /\ seals = {} /\ quit = None
    /\ calls = 0 /\ wish = "stop"

Step(t, from, to) == pc[t] = from /\ pc' = [pc EXCEPT ![t] = to]

-----------------------------------------------------------------------------
(* Miner.Start and Miner.Stop, by a user or by Miner.update. *)

(* Where a goroutine goes on after Start, Stop and commitNewWork. *)
AfterStart(t) == IF t \in Users THEN "idle" ELSE "y.exit"
AfterStop(t) == IF t \in Users THEN "idle" ELSE "y.should"
AfterCommit(t) == IF t = "update" THEN "c.mu" ELSE AfterStart(t)

Call(t) ==
    /\ calls < MaxCalls
    /\ calls' = calls + 1
    /\ \/ t \in Starters /\ Step(t, "idle", "s.should") /\ wish' = "start"
       \/ t \in Stoppers /\ Step(t, "idle", "t.worker") /\ wish' = "stop"
    /\ UNCHANGED <<flags, mu, atMining, agent>>

StartShould(t) ==
    /\ Step(t, "s.should", "s.etherbase")
    /\ shouldStart' = TRUE
    /\ UNCHANGED <<mining, canStart, shallStart, mu, atMining, agent, user>>

(* setEtherbase takes and releases mu. *)
StartEtherbase(t) ==
    /\ mu = None
    /\ Step(t, "s.etherbase", "s.can")
    /\ UNCHANGED <<flags, mu, atMining, agent, user>>

(* "Network syncing, will start miner afterwards" *)
StartCan(t) ==
    /\ Step(t, "s.can", IF canStart THEN "s.mining" ELSE AfterStart(t))
    /\ UNCHANGED <<flags, mu, atMining, agent, user>>

StartMining(t) ==
    /\ Step(t, "s.mining", "s.worker")
    /\ mining' = TRUE
    /\ UNCHANGED <<canStart, shouldStart, shallStart, mu, atMining, agent, user>>

(* Mutant of StartWorker: the agent starts without looking at isMining. *)
StartWorkerTwice(t) ==
    /\ mu = None
    /\ Step(t, "s.worker", "c.mu")
    /\ atMining' = TRUE
    /\ isMining' = TRUE
    /\ updaters' = updaters + 1
    /\ UNCHANGED <<flags, mu, workCh, stopCh, seals, quit, user>>

(* worker.start and CpuAgent.Start, under mu; commitNewWork follows. *)
StartWorker(t) ==
    /\ mu = None
    /\ Step(t, "s.worker", "c.mu")
    /\ atMining' = TRUE
    /\ isMining' = TRUE
    /\ updaters' = IF isMining THEN updaters ELSE updaters + 1
    /\ UNCHANGED <<flags, mu, workCh, stopCh, seals, quit, user>>

(* worker.stop takes mu; the agent is stopped if the worker is mining. *)
StopWorker(t) ==
    /\ mu = None
    /\ Step(t, "t.worker", IF atMining THEN "t.agent" ELSE "t.mining")
    /\ mu' = IF atMining THEN t ELSE None
    /\ UNCHANGED <<flags, atMining, agent, user>>

(* CpuAgent.Stop: the swap of isMining, *)
StopAgent(t) ==
    /\ Step(t, "t.agent", IF isMining THEN "t.token" ELSE "t.done")
    /\ isMining' = FALSE
    /\ UNCHANGED <<flags, mu, atMining, workCh, stopCh, updaters, seals, quit, user>>

(* the token, which waits for an earlier one to be taken, *)
StopToken(t) ==
    /\ ~stopCh
    /\ Step(t, "t.token", "t.drain")
    /\ stopCh' = TRUE
    /\ UNCHANGED <<flags, mu, atMining, isMining, workCh, updaters, seals, quit, user>>

(* and the work left in the channel. *)
StopDrain(t) ==
    /\ Step(t, "t.drain", "t.done")
    /\ workCh' = FALSE
    /\ UNCHANGED <<flags, mu, atMining, isMining, stopCh, updaters, seals, quit, user>>

StopDone(t) ==
    /\ Step(t, "t.done", "t.mining")
    /\ atMining' = FALSE
    /\ mu' = None
    /\ UNCHANGED <<flags, agent, user>>

StopMining(t) ==
    /\ Step(t, "t.mining", "t.should")
    /\ mining' = FALSE
    /\ UNCHANGED <<canStart, shouldStart, shallStart, mu, atMining, agent, user>>

StopShould(t) ==
    /\ Step(t, "t.should", AfterStop(t))
    /\ shouldStart' = FALSE
    /\ UNCHANGED <<mining, canStart, shallStart, mu, atMining, agent, user>>

-----------------------------------------------------------------------------
(* Miner.update, for the one synchronisation it follows. *)

(* StartEvent *)
SyncStarts ==
    /\ Step("sync", "y.start", "y.check")
    /\ canStart' = FALSE
    /\ UNCHANGED <<mining, shouldStart, shallStart, mu, atMining, agent, user>>

SyncCheck ==
    /\ Step("sync", "y.check", IF mining THEN "t.worker" ELSE "y.syncing")
    /\ UNCHANGED <<flags, mu, atMining, agent, user>>

(* Mutant of SyncShould: the wish is not kept over the Stop. *)
SyncShouldForgets ==
    /\ Step("sync", "y.should", "y.syncing")
    /\ UNCHANGED <<flags, mu, atMining, agent, user>>

SyncShould ==
    /\ Step("sync", "y.should", "y.syncing")
    /\ shouldStart' = TRUE
    /\ UNCHANGED <<mining, canStart, shallStart, mu, atMining, agent, user>>

(* DoneEvent or FailedEvent *)
SyncEnds ==
    /\ Step("sync", "y.syncing", "y.can")
    /\ shallStart' = shouldStart
    /\ UNCHANGED <<mining, canStart, shouldStart, mu, atMining, agent, user>>

SyncCan ==
    /\ Step("sync", "y.can", "y.clear")
    /\ canStart' = TRUE
    /\ UNCHANGED <<mining, shouldStart, shallStart, mu, atMining, agent, user>>

SyncClear ==
    /\ Step("sync", "y.clear", IF shallStart THEN "s.should" ELSE "y.exit")
    /\ shouldStart' = FALSE
    /\ UNCHANGED <<mining, canStart, shallStart, mu, atMining, agent, user>>

-----------------------------------------------------------------------------
(* worker.commitNewWork, as far as mu and the agent go: by Start, and by   *)
(* worker.update for ever.                                                 *)

CommitLock(t) ==
    /\ mu = None
    /\ Step(t, "c.mu", "c.push")
    /\ mu' = t
    /\ UNCHANGED <<flags, atMining, agent, user>>

(* Prepare, the state of the parent, the pool or Finalize fails: nothing   *)
(* is pushed.                                                              *)
CommitFail(t) ==
    /\ Step(t, "c.push", AfterCommit(t))
    /\ mu' = None
    /\ UNCHANGED <<flags, atMining, agent, user>>

(* push waits for room in the agent's channel, with mu held.  Nothing is   *)
(* pushed if the worker is not mining.                                     *)
CommitPush(t) ==
    /\ Step(t, "c.push", AfterCommit(t))
    /\ atMining => ~workCh
    /\ workCh' = (workCh \/ atMining)
    /\ mu' = None
    /\ UNCHANGED <<flags, atMining, isMining, stopCh, updaters, seals, quit, user>>

-----------------------------------------------------------------------------
(* CpuAgent.update and mine *)

(* Mutant of AgentWork: work is only taken when no seal is in progress. *)
AgentWorkWaits ==
    /\ updaters > 0
    /\ workCh /\ seals = {}
    /\ workCh' = FALSE
    /\ quit' = CHOOSE c \in Channels : c # quit
    /\ seals' = {quit'}
    /\ UNCHANGED <<flags, pc, mu, atMining, isMining, stopCh, updaters, user>>

(* New work: the seal in progress is told to quit and another one begins. *)
AgentWork ==
    /\ updaters > 0
    /\ workCh
    /\ workCh' = FALSE
    /\ quit' = CHOOSE c \in Channels : c \notin seals \cup {quit}
    /\ seals' = (seals \ {quit}) \cup {quit'}
    /\ UNCHANGED <<flags, pc, mu, atMining, isMining, stopCh, updaters, user>>

(* Mutant of AgentStop: the seal in progress is not told. *)
AgentStopSilent ==
    /\ updaters > 0
    /\ stopCh
    /\ stopCh' = FALSE
    /\ quit' = None
    /\ updaters' = updaters - 1
    /\ UNCHANGED <<flags, pc, mu, atMining, isMining, workCh, seals, user>>

(* Mutant of AgentStop: a token is only taken when no seal is in progress. *)
AgentStopWaits ==
    /\ updaters > 0
    /\ stopCh /\ seals = {}
    /\ stopCh' = FALSE
    /\ quit' = None
    /\ updaters' = updaters - 1
    /\ UNCHANGED <<flags, pc, mu, atMining, isMining, workCh, seals, user>>

AgentStop ==
    /\ updaters > 0
    /\ stopCh
    /\ stopCh' = FALSE
    /\ seals' = seals \ {quit}
    /\ quit' = None
    /\ updaters' = updaters - 1
    /\ UNCHANGED <<flags, pc, mu, atMining, isMining, workCh, user>>

(* Seal returns by itself, with a block or an error. *)
SealReturn(c) ==
    /\ c \in seals
    /\ seals' = seals \ {c}
    /\ UNCHANGED <<flags, pc, mu, atMining, isMining, workCh, stopCh, updaters, quit, user>>

-----------------------------------------------------------------------------
(* The steps of Start, Stop and commitNewWork in a goroutine t, but for    *)
(* the failure of commitNewWork, which nothing forces.                     *)
Proceed(t) ==
    \/ StartShould(t) \/ StartEtherbase(t) \/ StartCan(t) \/ StartMining(t) \/ StartWorker(t)
    \/ StopWorker(t) \/ StopAgent(t) \/ StopToken(t) \/ StopDrain(t) \/ StopDone(t)
    \/ StopMining(t) \/ StopShould(t)
    \/ CommitLock(t) \/ CommitPush(t)

Sync == SyncCheck \/ SyncShould \/ SyncCan \/ SyncClear

MinerNext ==
    \/ \E t \in Users : Call(t)
    \/ \E t \in Threads : Proceed(t) \/ CommitFail(t)
    \/ SyncStarts \/ SyncEnds \/ Sync
    \/ AgentWork \/ AgentStop
    \/ \E c \in Channels : SealReturn(c)

(* Goroutines run on, and Go's mutex hands itself to whoever waits long:   *)
(* strong fairness for what takes mu.  A synchronisation that began ends.  *)
(* Calls may never come, and a seal may take for ever.                     *)
Fairness ==
    /\ \A t \in Threads : SF_minerVars(Proceed(t))
    /\ WF_minerVars(Sync) /\ WF_minerVars(SyncEnds)
    /\ WF_minerVars(AgentWork) /\ WF_minerVars(AgentStop)

MinerSpec == MinerInit /\ [][MinerNext]_minerVars /\ Fairness

-----------------------------------------------------------------------------
Labels == { "idle", "s.should", "s.etherbase", "s.can", "s.mining", "s.worker",
            "t.worker", "t.agent", "t.token", "t.drain", "t.done", "t.mining", "t.should",
            "y.start", "y.check", "y.should", "y.syncing", "y.can", "y.clear", "y.exit",
            "c.mu", "c.push" }

(* Types; there is never more than one seal that was not told to quit, nor *)
(* more than two goroutines in CpuAgent.update.                            *)
MinerTypeOK ==
    /\ mining \in BOOLEAN /\ canStart \in BOOLEAN /\ shouldStart \in BOOLEAN
    /\ shallStart \in BOOLEAN /\ atMining \in BOOLEAN
    /\ isMining \in BOOLEAN /\ workCh \in BOOLEAN /\ stopCh \in BOOLEAN
    /\ pc \in [Threads -> Labels]
    /\ mu \in Threads \cup {None}
    /\ updaters \in 0..2
    /\ seals \subseteq Channels /\ Cardinality(seals) <= 1
    /\ quit \in Channels \cup {None}
    /\ calls \in 0..MaxCalls /\ wish \in {"start", "stop"}

(* Goroutines in CpuAgent.update and tokens in its stop channel match,     *)
(* however calls of Start and Stop follow each other: one goroutine is     *)
(* left while the agent is mining and none when it is not, once the tokens *)
(* are taken, although a new one may take the token meant for an old one.  *)
(* So there are never more than two of them (MinerTypeOK).                 *)
UpdatersBalanced ==
    /\ MinerTypeOK
    /\ updaters = (IF isMining THEN 1 ELSE 0) + (IF stopCh THEN 1 ELSE 0)
                    + (IF \E t \in Threads : pc[t] = "t.token" THEN 1 ELSE 0)

(* The seal that has not been told to quit is the one the agent will tell  *)
(* next, and there is someone to do so.                                    *)
NoOrphanSeal == \A c \in seals : quit = c /\ updaters > 0

(* worker.mu is always released: push waits for the agent with mu held,    *)
(* and so does the token of Stop, but an agent that is mining takes its    *)
(* work, also right after a Stop and a Start.                              *)
MuReleased == []<>(mu = None)

(* An agent that is told to stop and not started again leaves no goroutine *)
(* in update and no seal that was not told to quit.                        *)
StopEmptiesAgent == ~isMining ~> ((updaters = 0 /\ seals = {}) \/ isMining)

(* A miner that Miner.update stops for the synchronisation mines again     *)
(* after it, whoever calls Start meanwhile, unless a user's Stop is or     *)
(* comes under way.                                                        *)
MiningResumes ==
    (pc["sync"] = "y.should") ~>
        \/ atMining /\ pc["sync"] = "y.exit"
        \/ \E t \in Users : pc[t] \in {"t.worker", "t.agent", "t.token", "t.drain", "t.done",
                                       "t.mining", "t.should"}

(* "Stop the miner" (eth/api.go:162): when every call has returned and the *)
(* last one was Stop, nothing is mined.                                    *)
StopHonoured ==
    (wish = "stop" /\ \A t \in Users \cup {"sync"} : pc[t] \in {"idle", "y.start", "y.exit"})
        => ~atMining
=============================================================================
