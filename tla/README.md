# A TLA+ development for gttc's alien consensus engine

`gttc` is a go-ethereum fork. Its own code is the delegated proof of stake engine in
`gttc/consensus/alien` and the hooks that drive it from `gttc/miner`; the rest of the tree is
go-ethereum 1.8.9, and `gttc-base` is an older copy of the same program. This project models the
engine: what a *snapshot* of the chain holds, how headers change it, how signers are chosen and
scheduled, how blocks are confirmed, how proposals are decided, how snapshots are cached, how side
chains are confirmed and rewarded, and how the miner's goroutines drive it all.

## 1. Inventory

| Component | State it keeps | Operations | Hard behaviour |
|---|---|---|---|
| Vote ledger (`snapshot.go`) | `Votes`, `Tally`, `Voters`, `Candidates` | `apply`, `updateSnapshotByVotes`, `updateSnapshotByMPVotes`, `updateSnapshotForExpired`, `verifyTallyCnt`, `removeExtraCandidate` | `*big.Int` cells shared between two maps; work done once per call instead of once per header; map entries that are gone when they are used |
| Signer queue (`signer_queue.go`) | `Signers`, `HistoryHash`, `Punished` | `buildTallySlice`, `createSignerQueue`, `verifySignerQueue`, `updateSnapshotForPunish` | indices into the history of hashes, ties, levels |
| Schedule (`alien.go`) | header time, `LoopStartTime`, `SignerQueue` in the header | `Prepare`, `Finalize`, `Seal`, `verifyHeader`, `verifySeal`, `inturn`, `getSignerMissing` | wall clocks, missed slots, unsigned subtraction, loop boundaries |
| Block confirmation (`snapshot.go`, `custom_tx.go`, `miner/worker.go`) | `Confirmations`, `ConfirmedNumber` | `sendConfirmTx`, `processEventConfirm`, `updateSnapshotByConfirmations`, `getLastConfirmedBlockNumber` | delayed and duplicated confirm transactions, window arithmetic |
| Proposals (`snapshot.go`, `custom_tx.go`) | `Proposals`, `Candidates`, `SCConfirmation`, the process-wide `minerRewardPerThousand` | `processEventProposal`, `processEventDeclare`, `updateSnapshotByProposals`, `updateSnapshotByDeclares`, `calculateProposalResult` | iteration order of Go maps, state outside the snapshot, restart |
| Snapshot cache (`alien.go`) | LRU `recents`, database checkpoints | `snapshot`, `store`, `loadSnapshot`, `newSnapshot` | who creates the genesis snapshot, crash between two checkpoints |
| Side chain confirmation (`snapshot.go`) | `SCConfirmation`, `SCCoinbase`, `SCAllReward` | `updateSnapshotBySCConfirm`, `calculateConfirmedNumber`, `updateSCConfirmation`, `calculateSCReward` | unsigned underflow in expiry windows |
| Side chain engine (`alien.go`, `cross_chain.go`) | `lcsc`, the `mc*` globals | `mcInturn`, `mcConfirmBlock`, `getLastLoopInfo` | RPC time-outs, confirmation sent before the block is sealed |
| Rewards (`alien.go`) | balances | `accumulateRewards`, `calculateVoteReward`, `calculateSCReward` | percentages and thousandths in one product, division by zero |
| Miner hooks (`miner/`) | current work, agents | `commitNewWork`, `push`, `update`, `mine`, `wait` | stop racing a seal, stale work |
| Header time search (`api.go`) | none | `GetSnapshotByHeaderTime` | interpolation search at the boundaries |

How they interact. A producer's `Prepare` and `Finalize` read the snapshot of the parent
(`Alien.snapshot`), turn the custom transactions of the block into votes, confirmations, proposals
and declares in the header (`processCustomTx`), and add the signer queue, the missing signers and the
confirmed number. `Seal` lets the signer in turn sign. Every node verifies the header against its own
snapshot (`verifySeal`) and later replays it with `Snapshot.apply`. Whatever two nodes compute
differently in `apply` makes one of them reject the other's next queue: almost every property below
is a form of *the snapshot is a function of the chain*.

What makes each component correct:

- vote ledger: `Votes`, `Voters` and `Tally` stay in step at every point of `apply`; the result does
  not depend on how headers are split into calls; votes expire all or none, and never below a loop of
  voters;
- signer queue and schedule: an election takes the best weighted candidates, a loop without one only
  reorders; only signers that let a slot pass are punished; slot arithmetic never wraps; the history
  window is long enough for its readers;
- block confirmation: the confirmed number is supported, is the last supported one, and never goes
  back;
- proposals: what is open, passed and in effect follows from the chain alone, on every node, whatever
  it cached and whenever it restarted;
- snapshot cache: a call of `Alien.snapshot` is answered with the state of its own block and of no other
  fork's, or refused for a reason that is true, whatever is cached, evicted or lost in a crash, and it does
  return; every snapshot descends from one that has the genesis votes;
- side chains: only a quorum confirms, each block is scored once however its confirmations arrive, scores
  are paid two loops later and nodes score alike;
- rewards: what side chains are paid follows from their scores, and is covered by the reward it is taken from;
- miner: no lock is held for good, goroutines and stop tokens stay balanced, no seal is left that nobody
  can stop, mining resumes after a synchronisation, and the head of the moment is worked on;
- header time search: exact, and it returns even when the chain changes under it.

The hazards behind these properties are listed, each at its line, in `PROJECT.json`.

## 2. Modules

| Module | Models | State | Actions |
|---|---|---|---|
| `VoteOps` | the operations of `snapshot.go` on the ledger, as operators from ledgers to ledgers | – | – |
| `VoteOpsProofs` | lemmas: what each operation of `VoteOps` does to keys, types and sums | | |
| `VoteLedger` | one node inside `Snapshot.apply` | returned snapshot, working copy, position in the call, stakes told by the headers | `BeginApply`, `ReplayVote`, `ReplayMPVote`, `EndHeader`, `ExpireVote`, `FinishApply` |
| `VoteLedgerProofs` | theorems on `VoteLedger` | | |
| `BatchLedger` | two nodes on the same headers, one `apply` per header against one per batch | a ledger per node and the common base | `ReplayVote`, `ReplayMPVote`, `EndHeader`, `EndBatch`, `NextBatch` |
| `BatchLedgerProofs` | theorems on `BatchLedger` | | |
| `SignerQueue` | ranking, election, turn, missing signers, punishment, as operators | – | – |
| `SignerRotation` | one chain, block by block: `Finalize`, `Seal`, `verifySeal`, `apply` of schedule and punishment | head, queue, loop start, history, punishments, tally | `Block`, `NoSigners`, `HistoryPanic` |
| `SignerRotationProofs` | theorems on `SignerRotation` and the rankings of `SignerQueue`; those on `MinerControl` | | |
| `Confirmations` | confirm transactions, `Confirmations`, `ConfirmedBlockNumber` | head, queues by block, candidates, confirmations of the snapshot and of the copy the next header is replayed on, all that were ever received | `IncludeConfirm`, `NilSnapshot`, `Block` |
| `ConfirmationsProofs` | theorems on `Confirmations`; those on `WorkerLoops` | | |
| `Proposals` | proposals, declares and decisions on a node that replays in batches, restarts, answers API calls | the chain, the node's snapshot, its database, the process variable | `AddHeader`, `Advance`, `Restart`, `QueryOld` |
| `ProposalsProofs` | theorems on `Proposals` | | |
| `SnapshotService` | what `Alien.snapshot` promises: the abstract specification | known headers, one call per caller, why it was refused | `Learn`, `Ask`, `Answer`, `Refuse`, `Crash` |
| `SnapshotCache` | `Alien.snapshot` as it is, with its callers and the process around it | memory, disk, the local variables of each call | `Boot`, `Serve`, `Learn`, `Crash`, `AskFinalize`, `AskVerify`, `AskKnown`, `Look`, `Create`, `Apply`, `Remember`, `Store`, `StoreFails`, `Miscount` |
| `SnapshotCacheProofs` | theorems on `SnapshotCache`, among them that it implements `SnapshotService` | | |
| `Rewards` | the miner's reward and what side chains get of it, as operators | – | – |
| `SideChain` | side chain confirmations on the main chain, from what side chain sealers send to what blocks pay | coinbases, records and scores of the snapshot | `Block` |
| `SideChainProofs` | theorems on `SideChain` and the sums of `Rewards`; those on `HeaderTime` | | |
| `MinerControl` | `Miner.Start`, `Stop`, `update` (synchronisation), `worker.start`/`stop`, `commitNewWork` as far as `mu` goes, the agent | atomic flags, `mu`, channels, goroutines, seals | one per atomic step: `StartShould` ... `StopShould`, `Sync...`, `Commit...`, `Agent...`, `SealReturn` |
| `WorkerLoops` | `update`, `wait`, `receiveBlock`, `commitNewWork` | program counters, both locks, bounded channels, head | `Start`, `Stop`, `Commit...`, `Update...`, `Wait...`, `Write...`, `PostHead`, `TakeWork`, `SealReturn`, `Import`, `ImportPost` |
| `HeaderTime` | the search of `GetSnapshotByHeaderTime` over a chain that changes | chain, header in hand, range | `Ask`, `Found`, `GiveUp`, `Probe`, `ChangeChain`, `Return` |
| `MC...` | small instances for TLC | | |

`VoteLedger` and `BatchLedger` share `VoteOps`, and their proofs share `VoteOpsProofs`; `SignerRotation` extends `SignerQueue`. The ledger
meets the schedule through `Tally`: `SignerRotation` lets it change to any member of a set with each
block. `Confirmations` meets the schedule through signer queues, which change at loop ends only.
`SnapshotCache` implements `SnapshotService` (`INSTANCE ... WITH`, `ImplementsService`); what it treats as a
sequence of applied headers is what `VoteLedger`, `BatchLedger` and `Proposals` compute from them. `SideChain`
extends `Rewards` and composes the sealers of side chains, the snapshot of the main chain and the rewards
of its blocks. `WorkerLoops` relies on the agent taking its work, which `MinerControl` shows (`MuReleased`).
Two components that have nothing to do with each other share a proof module here and there; the definitions
of the smaller one then carry its name (`LoopsInit`, `SearchNext`, `MinerNext`).

Points of translation that a reader of the code will look for:

- **Shared big integers.** The first vote for a candidate stores one `*big.Int` as `Tally[c]` and as
  the voter's `Stake` (`snapshot.go:753`, `:759`), so a later vote for `c` in the same call changes the first
  voter's stake. `VoteOps` keeps the set `shared` of voters whose stake is their candidate's tally
  cell; `AddTally` writes through it and `Copy` ends it. `clobbered` is a history variable: it says
  that such a write has hit somebody else's stake.
- **Nil tallies.** `Sub` on a tally that is gone is a nil dereference; the ledger then has
  `pc = "panic"` and stops.
- **Go maps.** Where the code walks a map and the order can matter, the model chooses the order
  (`ExpireVote`, `Orders` of `BatchLedger` and `Proposals`). `sort.Sort` is unstable: `Ties` of
  `SignerQueue`.
- **Unsigned arithmetic.** `TurnOf` and `Uint` of `Confirmations` subtract modulo `Word`.
- **Pointers to a loop variable.** `updateSnapshotByProposals` stores `&proposal` (`snapshot.go:676`); with
  the Go versions the repository builds with (`.travis.yml`), all proposals of a header share one
  cell. `Proposals` keeps `cell` (hash to cell) and `data` (cell to contents); `CopyProposals` gives every
  hash its own.
- **Process state.** `minerRewardPerThousand` is a variable of the process: `reward` of `Proposals`.
- **Locks and channels.** Each step of `MinerControl` and `WorkerLoops` lies between two operations another
  goroutine can see: an atomic load or store, a lock, a channel. A section under a lock that waits for
  nothing is one step. Go's mutexes are not reentrant: `CommitLockRecv("wait")` is never enabled while
  `wait` holds `receiveBlockMu` itself.
- **Seals.** A seal that was told to quit may still return a block (`SealReturn` of `WorkerLoops`); of the
  seals in progress `MinerControl` keeps those that were not told. `WorkerLoops` counts the seals of one piece
  of work up to `Many`, which stands for any number from there on: a seal that returns may leave `Many`.
- **Errors of `snapshot`.** A call fails when a header is missing, when `apply` meets a header it cannot decode
  or whose seal is not its coinbase's (`Malformed`, `snapshot.go:291-302`), when `verifyTallyCnt` fails after
  it (`Miscount`: what makes it fail is `VoteLedger`'s subject, so here it may after any header), and when a
  snapshot cannot be stored (`StoreFails`, `alien.go:374`, `:424`). The reason is part of the refusal in
  `SnapshotService`. The number check of `apply` is modelled too and has no counterpart there: the
  refinement shows that it never fails.
- **Goroutines of Start.** Each RPC call of Start has its own (`eth/backend.go:368`): `Starters` of `MinerControl`
  and `WorkerLoops` are any set.
- **Candidates and batches of confirmations.** `processEventConfirm` asks whether the sender is a candidate of the
  parent's snapshot. Votes add candidates and `removeExtraCandidate` drops them, so with each block of
  `Confirmations` they may become any set of `CandidateSets`. A call of `apply` expires confirmations once, at its
  end; `base` is the copy on which the call that will end with the next header replays it, with or
  without an expiry after the head, so calls may cover any number of headers.
- **Crashes.** `Crash` of `SnapshotCache` may fall between any two steps of any call, also between
  `recents.Add` and `store`; the disk stays.
- **Side chain blocks.** A confirmation is sent before its block is signed, so `SideChain` lets the main chain
  carry any confirmation of any branch, again and again, in any order. `processSCEventConfirm` does not look
  at what a confirmation says either, so there are `Unfounded` ones: any number and list, from anyone.
- **Abstractions.** Addresses and hashes are model values or small naturals; parsing of transaction
  data, RLP, signatures and logging are left out. `candidateNeedPD` is `false`, its value in `alien.go`.
  `removeExtraCandidate` of the ledger may drop any candidates of the right number: which ones is the
  business of the ranking in `SignerQueue`.
- `told` (`VoteLedger`), `received` (`Confirmations`) and `once` (`Proposals`) are history variables; no action's guard, apart
  from the bounds, reads them.

## 3. Runs

The type invariant is a property of its own in `ledger` and `confirm` (`TypeOK`) and in `workerloops`
(`LoopsTypeOK`); elsewhere it is the
first conjunct of a main invariant (`BatchingTransparent`, `NoWrapAfterStart`, `ProposalsFollowChain`,
`SnapshotsFaithful`, `UpdatersBalanced`, `PaidAsScored`, `SearchExact`).

**Fairness.** The ledger, schedule, confirmation, proposal and side chain modules have none: nobody has to
send a transaction or produce a block, and their properties are safety or action properties. The other
four state what Go's scheduler gives: a goroutine that can take a step takes it (`WF`), and a goroutine
that waits for a `sync.Mutex` gets it in the end, since the mutex is handed to a waiter that has waited for a
millisecond (Go 1.9 and later; `SF` for the steps that take a lock). A synchronisation that began ends, and in
`WorkerLoops` the engine does not fail for ever. Nothing is assumed of calls of `Start` and `Stop`, of
imports, of transactions, of the end of a seal, or of crashes.

**Deadlock** is checked in `snapcache`, `minercontrol` and `headertime`, where someone can always go on. The other
systems may stop: a bounded chain ends, and `WorkerLoops` really jams (`JamsOnlyTwoWays`).

| Run | Instance and bounds | Shows |
|---|---|---|
| `ledger` | 3 voters, 2 candidates, balances 0 and 1, 3 blocks, up to 2 headers per call, 2 votes per header, `Epoch` 1 | `VotesMatchVoters`, `AcceptedStakesTrue`, `ExactUnlessClobbered`, `NoStaleVotes`, `ErrorOnlyFromSharing`, `ExpiryIsJustified` at every point of a call |
| `batch` | the same network with `Epoch` 2, batches of 2 headers, 4 blocks | `BatchingTransparent`, when neither node stops |
| `rotation` | 3 signers and a 4th candidate, an election every second loop, 6 blocks, delays of 0, 1 and 4 s, period 3 s, two possible hashes per block | `RotationPermutes`, `ElectsTopStake`, `DominantStaysIn`, `MissingIsMissed`, `NoWrapAfterStart` |
| `rotation_levels` | 4 signers as the official number, levels of 1, 2, 2 and the rest; 7, 13 and 14 candidates; 8 blocks | `LevelsKeepShares`, `PanicOnlyBeyondWindow` |
| `confirm` | 4 signers of which 1 is at times not in the queue and at times no candidate, quorum 3, 8 blocks, 5 confirmations of any block by anyone, calls of `apply` of any length | `ConfirmedSupported`, `ConfirmedIsLast`, `ConfirmedMonotone`, `ExpiryTransparent` |
| `proposals` | 2 proposals, 3 networks (side chain added and removed; share changed twice; a declarer with exactly two thirds), 5 blocks, 2 declares, 1 restart or API call | `ProposalsFollowChain`, `RewardFollowsChain` |
| `snapcache` | a chain of 2 blocks, a fork, a malformed block, 2 concurrent callers of which one asks for the chain and one for genesis and forks, a memory of 1 snapshot, a checkpoint every 2 blocks, any number of failing stores and counts, 1 crash or exit, node and import | `SnapshotsFaithful`, `GenesisVotesKept`, `ImplementsService` |
| `minercontrol` | 1 goroutine that calls `Start`, 1 that calls `Stop`, 3 calls, 1 synchronisation, `worker.update` for ever | `UpdatersBalanced`, `NoOrphanSeal`, `MuReleased`, `StopEmptiesAgent`, `MiningResumes` |
| `workerloops` | channels of capacity 1, heads up to 2, 1 goroutine that calls `Start` | `LoopsTypeOK`, `JamsOnlyTwoWays`, `WorkFollowsHead` |
| `sidechain` | 4 signers and coinbases, quorum 2, 1 side chain with two branches and an unfounded confirmation of two coinbases, 12 blocks of the main chain from block 14 on, of which 7 carry a confirmation, 2 decisions or changes of coinbases | `ConfirmedByQuorum`, `ScoredOnce`, `PaidAsScored`, `SplitOnlyByTwoQuorums` |
| `headertime` | chains of up to 5 blocks with gaps of 2 and 5 s, period 2 s, every target time, 1 change of the chain | `SearchExact`, `CallReturns` |

Why the bounds are enough for the cases meant. `ledger`: sharing needs two votes for a candidate
without a tally in one call, expiry with `Epoch` 1 happens from block 2 on, and 3 voters against
`MaxSignerCount` 2 make both outcomes of the all-or-none rule reachable. `batch`: two batches, so that
a batch starts from a ledger that itself came out of one; with `Epoch` 2 votes of the first batch expire in the
second, at its end or inside it, and those that do not expire inside a batch meet the antecedent. `rotation`: two loops give one reordering and
one election with a history that is still shorter than two loops, punishments that reach the credit
floor, and times before and after the start of a loop. `rotation_levels`: the smallest numbers with
four non-empty levels; 13 candidates are the most and 14 one more than the history serves. `confirm`: a
confirmation of block 1 expires at block 7 (`Number - b > 5`), which leaves a block after it to be replayed on a copy
from before; 4 confirmations make a block confirmed and a fifth repeats one. `proposals`: proposals of blocks 2 and 3 with a validity of 1
are decided in blocks 4 and 5, checkpoints lie at 2 and 4, so a restart can fall before, between and
after the decisions. `snapcache`: with a memory of 1 every second answer evicts, the forks part at block 1,
the number check alone would let block 2 be applied to either, only one of them reaches a checkpoint, and one crash is
enough to lose what was remembered and not stored; which caller asks for which block (`Wanted`) is a bound that
keeps the liveness check small, and any two of a walk forward, a walk on the fork and the making of the genesis
snapshot still run side by side. `minercontrol`: three calls give
Start-Stop-Start and Stop between two Starts, each overlapping the synchronisation and an old goroutine of
the agent. `workerloops`: capacity 1 makes full channels a matter of one event, and two heads give a seal on an
old one; with two goroutines that call `Start` and one head, TLC finds the same three properties hold. `WorkFollowsHead`
says that the work catches up with the head; imports come at any time, but they end at `MaxHead`, since blocks
that always come faster than work is committed would leave each head behind. `sidechain`: from block 14 the six loops before which the expiry wraps end inside the run, and the
scores given before and after fall due in it; two branches make contradicting quorums possible, and four coinbases
against a quorum of two make them possible with and without a common member.
`headertime`: five blocks leave the interpolation wrong on both sides and the range used up.

### Findings

`proposals_restart` checks one sentence of the code, that proposals modify "percentage of reward distribution"
(`custom_tx.go:113`), and TLC finds it violated: a restart, or an API call that replays old headers, changes the
share a node computes rewards with.

### Statements that do not hold

These sentences are stated next to the properties and are in no cfg. Each is violated under the constants of the
run named: with the name added to its cfg, TLC shows how.

| Statement | Add to | Sentence | What happens |
|---|---|---|---|
| `NeverIncorrectTallyCount` | `MCVoteLedger.cfg` | `errIncorrectTallyCount` is for wrong tallies (`snapshot.go:57`) | two votes that share a cell and a re-vote make `apply` reject headers that honest producers wrote |
| `LastVoteTallied` | `MCVoteLedger.cfg` | "update Votes, Tally, Voters data" (`snapshot.go:745`) | a balance that falls to zero removes the tally and leaves the vote; the voter's next vote, balance change or expiry dereferences nil |
| `SnapshotOfPointInTime` | `MCBatchLedger.cfg` | "Snapshot is the state of the authorization voting at a given point in time." (`snapshot.go:80`) | votes expire once per call, so different splits of the same headers give different ledgers |
| `PunishedOnlyIfMissed` | `MCSignerRotation.cfg` | "Get the signer missing from last signer till header.Coinbase" (`alien.go:940`) | across a loop boundary, or when a signer seals twice, signers without a slot are reported and punished |
| `HistorySuffices` | `MCSignerRotationLevel.cfg` | "choose 1 from last" (`signer_queue.go:149`) | the last level takes one hash per candidate and runs out of history |
| `GenesisVotesWritten` | `MCSnapshotCache.cfg` | "genesisVotes write direct into snapshot, which number is 1" (`alien.go:704`) | an import into an empty database verifies block 1 first and stores a genesis snapshot without them; so does the first caller after a node whose first store failed |
| `SideRewardsCovered` | `MCSideChain.cfg` | "need to deal with sum of record.RewardPerPeriod for all side chain is larger than 100% situation" (`snapshot.go:907`); "base on RewardPerPeriod(/100)" (`snapshot.go:925`) | scores are percentages (`snapshot.go:69`) and are multiplied by thousandths and the miner's reward without the division by 100 (`snapshot.go:928-931`): a side chain that asks for a tenth of the miner's reward is paid several times that reward |
| `StopHonoured` | `MCMinerControl.cfg` | "Stop the miner" (`eth/api.go:162`) | a Stop between the steps of a Start finds a worker that is not mining yet; the Start goes on |
| `TriesEachPeriod` | `MCWorkerLoops.cfg` | "try to seal block in each period, even no new block received in dpos" (`worker.go:293`) | `receiveBlock` commits work for a side block with the lock held that `commitNewWork` takes, or posts a head into a full channel with it; or other events restart the timer in every period |

Four more disagreements are visible in the models and are excluded by the antecedent of a property
instead of having a run: a shared cell can make `apply` return a snapshot in which a vote of positive stake has
no tally, and from then on a wrong stake may be accepted (`AcceptedStakesTrue` asks that no stake is `Uncounted`
when `apply` is called: a sharer that leaves takes the tally to zero, it is dropped, and the other vote's stake stays
uncounted; a later call gives the candidate a fresh tally, shared with a new voter, and a change of the uncounted
vote's balance is written into the new voter's stake, unnoticed); block 1 may be dated two
seconds before the loop start, so the subtraction in `inturn` wraps (antecedent of `NoWrapAfterStart`); in
the first blocks the search for the confirmed block is not entered and the parent is called confirmed
(`number >= Quorum`); two proposals of one header are stored under two hashes with the data of the last
(`Separate`).

## 4. Proofs

TLAPS checks the theorems below for all values of the constants that satisfy the modules' assumptions, the
bounds included: any number of signers, voters, callers, users and blocks, any stakes, hashes, delays and
capacities. The assumptions: addresses, candidates and proposals are finitely many, counts and
periods are positive, hashes of different blocks differ, a block's history is its parent's and the block, `None` is
no thread and no block, and the block times of a chain are at least a period apart. The last holds for the
blocks that `Finalize` makes (`alien.go:693`) and is not enforced: `verifyCascadingFields` (`alien.go:327`) only rejects
times that go backwards. It is an assumption of `HeaderTime`, and the guard `Earliest` in `SignerRotation`;
what these modules show is about chains made by nodes that run this code.

**`VoteOpsProofs`** has one lemma per operator of `VoteOps`, which says what it does to the keys of the maps,
to the types and to the sums, for both ledgers below. A ledger is `Sound` if no stake is negative and, unless
a stake was overwritten, every tally is the sum of its votes. `apply` adds and subtracts one stake at a time, so
the proof needs that a fold over the voters of a candidate changes by one term when one vote does
(`Revoted`); the fold is unwound one member at a time, over finite sets that have no smaller counterexample.
A second group of lemmas (`Linked`, `Changed`, `Trusted`) follows single stakes through shared cells. That stakes stay natural is needed because `DropEmptyTallies` removes tallies that are not positive, and a
sum of zero has to mean that all its terms are.

**`VoteLedgerProofs`.** `IInv` is inductive. Beyond the properties it is for, it says where `apply` is:
between calls the copy is the snapshot (`Idle`); while headers are replayed, numbers and voters' last
blocks are in order (`Replaying`, `SnapVotersPast`); while votes expire, `expired` holds old voters only, all
that are left, and enough others remain (`Expiring`); and a voter of the snapshot is still in the copy,
no older, or has gone because it was older than `Epoch` (`VotersCarried`). Without the last two neither
`NoStaleVotes` nor `ExpiryIsJustified` is inductive: both are decided when the votes are collected and
hold only when the last one is gone. That tallies are sums is
a second invariant, `SumsInv`: snapshot and copy are `Sound`. A third, `StakesInv`, is about stakes that sharing has
overwritten. A stake is wrong only while its voter shares the tally cell of its candidate, and then it *is* that
tally. Only the vote that makes a tally shares it, so a candidate has one sharer at most, and a fresh tally is made
only for a candidate whose other votes were given no stake. Hence the tally is the sum of the stakes the headers told
(`Trusted`): the sharer's wrong stake equals that sum, and `verifyTallyCnt`, which adds the wrong stake to the
true ones of the others, accepts only if these are zero, in which case the stake is right (`VerifiedStakes`).
This is `AcceptedStakesAreTrue`: what `apply` hands out is what the headers said, although the code overwrites stakes on
the way; it needs `Uncounted(snap) = {}`, as section 3 explains. Proved besides: `TypeCorrect`, `VotesAndVotersAgree`,
`ExpiryAllOrNothing`, `OnlyOldVotersLeave`, `TallyIsSumOfVotes`, `RejectedOnlyFromSharing`.

**`BatchLedgerProofs`.** `BatchesAgree` is `BatchingTransparent` for any network, batch and number of blocks: two
nodes that applied the same headers, one call per header against one call per batch, have the same votes,
tallies and voters, unless a stake was overwritten or a vote expired on the way. The votes agree all along
(`Agreement`), the tallies do not: the node that steps drops an empty tally after each header, the other one
at the end of the batch. They are equal when both have finished because both ledgers are `Sound`, so equal votes
have equal sums, and a dropped tally is one whose sum is zero. Two facts about time are needed.
`VotersKept`: a voter has the vote it had when the batch began, a later one, or one from inside the
batch, so if no vote of the beginning gets old enough to expire, none does on either node; and
`VotersPast`: somebody always has a vote, since the votes that expire are never all of them. The latter
needs a first voter, hence the assumption that `SelfVoteSigners` is not empty; without signers the queue could
not be built either (`snapshot.go:152` takes a remainder by their number). The walk over expired votes is a
recursive function. Its existence is proved by a smallest counterexample (`WalkExists`), after which its equation
can be used; the theorem holds for every order of Go's map.

**`ConfirmationsProofs`.** `ConfirmInv` is the conjunction of `TypeOK`, `ExpiryTransparent`, `ConfirmedIsLast`
and four parts they need: pending and received confirmations come from signers of the confirmed
block's own queue (`ExtraFromQueue`, `ReceivedFromQueue`), the confirmed number is bounded and, once
the chain is long enough, supported (`ConfirmedFacts`), and the copy the next header will be replayed on has all that
was received for the last blocks and nothing that was not (`BaseKept`), wherever the call began. The heart of the argument is that the search
looks back `Quorum` blocks while confirmations are kept for `MaxSignerCount` of them, and `Quorum` is
smaller: whatever the search can see has not expired, so searching `Confirmations` is searching all
that was received. `ConfirmedMonotone` follows because a block once found stays found until the lower
end of the search has passed it. Proved: `ConfirmationTypes`, `ExpiryIsTransparent`, `LastConfirmedFound`,
`ConfirmedHasSupport`, `ConfirmedNeverBack`.

The same module proves two theorems on `WorkerLoops`, for any number of goroutines that call `Start`. `LoopsInv` ties both locks to labels and each goroutine to its part of the code. `LocksHeldWhereTaken`
is `LoopsTypeOK`. `NoWayOutOfAJam` proves the unbounded half of `JamsOnlyTwoWays`: once `wait` has committed from
inside `receiveBlock`, or has to post into a full channel that only `update` empties while `update` waits for
`receiveBlockMu`, no step of anybody changes that, for channels of any capacity.

**`SignerRotationProofs`.** `IInv` adds three facts to `TypeOK`. `LoopPace`: the loop start is a function of the
number, `Period` seconds per block, so a block that keeps its earliest time can never be before it; this is
`NoWrapAfterStart`. `PanicAtEnd`: a node that has panicked still has the cause at hand, which leaves counting how
many hashes of the last two loops an election reads. `HeadInTurn`: inside a loop the coinbase of the head is the
signer in turn at its time; without it nothing is known of the slot `getSignerMissing` counts from. The four
properties of elections are about one step; what they need is the ranking. `RankingLists` shows that the
`CHOOSE`n ranking of a finite set under a strict total order lists every member once, and in order, ties
included; `LoopsOnlyReorder`, `ElectionTakesTop`, `PunishedKeepSeat` and `LevelsFillShares` count positions with
bijections from there. `ReportedHaveMissed` assumes `[](time < Word)`: times fit in an unsigned word, which
the code takes for granted; the runs' times do. Proved besides: `TurnsNeverWrap`, `PanicsBeyondWindow`.

The same module proves two theorems on `MinerControl`. `worker.mu` is held exactly at the labels inside its sections
(`Exclusion`), so at most one goroutine has a stop token to send, and its agent is marked as stopped
(`TokenOfStopped`). Then the goroutines in `CpuAgent.update` are `isMining`, plus a token in the channel, plus a
token on its way (`Balance`), which bounds them by two; and a seal that runs is the one `quitCurrentOp` stops,
with a goroutine left that will do it (`SealsQuit`). Proved for any number of users and calls:
`GoroutinesBalanced`, `EverySealCanBeStopped`.

**`ProposalsProofs`.** The properties say that what a node holds is a function of the chain; their reference reads
the chain alone and knows neither cells nor batches. `IInv` extends this to everything a later step may start
from: the snapshot of the head and each one on disk is what the chain says of *its* block (`GoodSnap`,
`DiskOK`), so a restart or an API call may begin at any of them, and a process that has applied every header once
has the share of the head (`RewardOK`). The properties speak of keys and side chains only; to know how a
proposal will be decided, `Right` adds that each hash has a cell of its own, with the block it came in and one
declare of every candidate that declared while it was open, the first one (`Polled`). First
declares are unique, so the stake the code adds up is the stake of the candidates that said yes (`YesVotes`), and
rounding two thirds down makes no difference to "more than" (`TwoThirds`). `Right` is taken over the parts of a
header one after the other: `RightReceive`, `RightDeclare`, `RightUndecided` and `RightDecided`. The last is
where the hypothesis of the properties is used: if no two proposals come or are decided in one block
(`Separate`), at most one key is due, so every order in which Go walks the map makes the same one decision
(`WalkSettles`), and the loop variable's cell is not shared. The loops of `apply` are
recursive functions; that they exist is shown for each by a smallest counterexample (`DeclareWalkExists`,
`DecideWalkExists`, `HeaderWalkExists`). Proved for every chain, stake, validity, division into batches, checkpoint
interval, restart and API call, with finitely many hashes and tallied addresses: `SnapshotsFollowChain`,
`ShareFollowsChain`.

**`SnapshotCacheProofs`.** `IInv` says what the local variables of `Alien.snapshot` mean on the tree of blocks. A
walk back has gathered headers that lead from the block it is at to the block asked for (`Linked`), and the
parents given to it are the last headers on the path to that block (`Explicit`); a walk forward has a good
snapshot and the headers from there on; memory and disk hold good snapshots under the right hashes, the disk
at checkpoints only. `FaithfulSnapshots` follows at once. `VotesOfGenesisKept` needs a second invariant: until
a genesis snapshot is on disk, only the first `Finalize` has worked, with nothing known but the genesis block
(`Untouched`), so nobody can have made the genesis snapshot without votes, unless that first work could not store it
and the node went on (`tainted`). `CacheImplementsService` maps the
steps: the last step of a call answers; a header that is neither known nor given, a malformed header, a wrong count
and a failing store refuse, each with its reason; everything else stutters. The service says what a reason means
for the path to the block, and answers only paths without a malformed header; both follow from `IInv`, as does that
the number check of `apply` never fails. It is the safety half of `ImplementsService`.

**`SideChainProofs`.** `Inv` relates the snapshot to what happened. The record of a side chain has exactly the
confirmations taken above its last confirmed block (`Recording`), so counting the record is counting all that
was taken: `QuorumConfirms`. Blocks up to the last confirmed one have been scored at most once, those above
never (`Scoring`); with the lemma that every order of Go's map finds a sealer for the same blocks (`WhoIs`,
`OrdersAll`), this is `ScoresOnce`. Rows of scores in the snapshot are of the sixth loop or a later one
(`Rows`), since before it the subtraction in the expiry wraps around and clears everything; scores not
due yet are in the snapshot unless they are that old, and nothing else is there for the last two loops
(`Waiting`). `ScoresArePaid` follows by leaving out of the sum the side chains whose term is zero. The sums are
folds in the order of `CHOOSE`: `SumOfAdditive` shows that they do not depend on it, by a minimal counterexample
among the subsets of the domain. `SplitNeedsTwoQuorums`: if two orders of the map give a block different sealers, two
lists that a quorum each has sent contradict each other (`StepSplit`). Two quorums of a set smaller than their sum
have a common member (`QuorumsMeet`); so either a coinbase has listed both, or there are at least twice a quorum of
them. The latter is possible: a quorum is two thirds of `MaxSignerCount`, while every candidate may set a coinbase, and
then two disjoint quorums split the nodes although nobody has contradicted himself. The proofs assume of the constants that side chains, coinbases and branches are finitely
many and that a word holds more than six loops.

The same module proves `HeaderTime` correct. `SearchInv`: while no block under the search is replaced, the header in hand is on the chain
(`HeaderOnChain`), and a block that is looked for and has not been read lies strictly inside the range
(`NotPassed`), whatever the interpolation guesses; times grow by at least a period per block, so at most one
block can be meant. `SearchIsExact` is `SearchExact` for every chain and every number of changes.

**Only model-checked.** Every invariant of the passing runs is stated by a theorem. Liveness (`MuReleased`, `StopEmptiesAgent`,
`MiningResumes`, the half of `JamsOnlyTwoWays` that says something comes to pass, `WorkFollowsHead`,
`CallReturns`, the fairness of `ImplementsService`) and `ENABLED` are outside the prover's reach and stay with TLC.
The library's induction theorems take an operator as a parameter and cannot be used either; where a loop of the
code had to be followed, the proofs look for a smallest counterexample in a set instead.

## 5. Not modelled

- go-ethereum itself: chain, state, transaction pool, EVM, networking, wallets, RLP, signatures.
  Nearly all of the repository's lines are this library code and its older copy; the project follows the
  engine and the miner hooks.
- Of the snapshot cache: reads of the database that fail (`loadSnapshot`'s error is a miss, as if the checkpoint were
  not there) and a genesis header that fails its verification (`alien.go:369`). That a sealed header can be malformed
  for `apply` is taken from the code: `verifySeal` compares the signer with the queue, `apply` with the coinbase.
- Of the rewards: the voters' shares (`calculateVoteReward`, with its division by a sum of stakes that may be zero),
  the refund of gas, and the balances.
- Forks outside the snapshot cache, the side chains and the header search: the other modules follow one
  chain. `processEventConfirm` reads the confirmed header from the canonical chain, which differs from the
  block's own chain during a reorganisation.
- Of the side chain engine: `mcInturn`, the RPC calls and their time-outs, the data races on the `mc*`
  variables; main and side chain have one period, so `getLastLoopInfo` walks two loops.
- Of the miner: uncles, the pending snapshot, the choice of transactions, `Register` and `Unregister`.
- Of the header time search: what is done with the block once it is found.
- Whether a panic is recovered by the code around the engine.

## 6. Plan

In this order:

1. The ledger against an abstract specification of voting, on top of `SumsInv`.
2. Forks: two chains over `Confirmations` and `SignerRotation`; the side chain engine's process variables.
