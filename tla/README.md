# A TLA+ verification project for RiposteLinear

RiposteLinear is a sharded Riposte-style anonymous write relay. Clients upload
secret-shared writes in timed epochs; when an epoch ends, the two servers of
each shard combine their tables and publish the plaintext. This directory
models the parts of the program (`src/`) whose correctness depends on the order
in which processes, timers and failing calls meet, checks them with TLC on small
instances, and proves the central invariants with TLAPS for all instances.

## 1. The system

```
 clients --Upload1/2/3--> coordinator(s) --RPC--> shard leader (server 0) -- follower (server 1)
                              |   ^                     |  control loop (1 goroutine)
            lease, epoch,     |   | polls, applies      |  -> completed-upload queue (memory | SQS+S3)
            shard config      v   |                     |  -> 16 workers -> ledger, Prepare/Commit on both servers
                        control store   autoscaler      |  -> epoch timer -> finishEpoch -> dump, reveal, publish
```

| component | state | operations | talks to |
|---|---|---|---|
| leader control loop (`db/server.go`, `runLeaderControl`) | epoch id and state, admitted sessions, merge waiters, timer, last result, peer state | one command at a time: start, abort, upload 1 to 3, begin/complete merge, queue drained | RPC handlers, workers and finishers through `controlCh` |
| completed-upload queue (`db/ingestion_queue.go`, `db/ingestion_sqs.go`) | available and in-flight messages | Enqueue, Receive, Ack, Stats | control loop, workers; SQS redelivers |
| completed-upload ledger (`db/completed_upload_ledger*.go`) | per message: processing lease with TTL, or committed | BeginProcessing, CompleteProcessing | workers; memory map or DynamoDB |
| ingestion workers (`processRequest`, `processIngestionJob`) | the job at hand | receive, read-lock, begin, Prepare x2, Commit x2, complete, ack, notify | queue, ledger, both servers, control loop |
| slot tables (`db/table.go`, `Prepare`, `Commit`, `DumpTable`) | per server: pending queries, tables | XOR a write in, dump | workers, finisher (RPC) |
| merge and publication (`finishEpoch`, `sendMergeRequest`) | dumped tables, plaintext, result files | wait for the barrier, dump, reveal, store, write file | control loop, both servers |
| coordinator (`coordinator/`) | role, lease, epoch, shard configuration, RPC clients | StartEpoch fan-out, upload routing, completion timer, lease renewal | control store, shards |
| control store (`controlstore/`) | lease with fencing token, epoch record, epoch cycle, shard configurations, upload sessions | acquire/renew, start/complete, conditional transitions | all coordinators |
| scaling and autoscaler (`coordinator/scaling*.go`, `autoscaler/`) | recommendation, poller state | recommend, apply, skip between epochs | coordinator, control store |
| standby health and promotion (`coordinator/shard_promotion.go`, ...) | health snapshot, active pair per shard | probe, promote | shards, control store |
| client (`client/client.go`) | one upload | three calls, retry at another coordinator | coordinator |
| cryptography, transport, start-up | - | - | - |

What makes it hard:

* **Concurrency.** One control goroutine, 16 workers, a finisher per fired timer,
  an RWMutex between workers and finisher, and RPC fan-outs that return at the
  first error while the other call is still under way.
* **Timers.** The timer's command names no epoch; a timer that fired just before
  an abort reaches the control loop in the next epoch.
* **Unreliable delivery.** SQS delivers a message again when it was not deleted
  in time; processing leases expire under slow workers; `Prepare` is not
  idempotent (it XORs).
* **Partial failure.** Any call may fail after it took effect. A failing fan-out
  leaves one server with a write and the other without.
* **Ordering.** The queue drains, sessions finish and the timer fires in any
  order, and the merge must start exactly once and not too early.
* **Moving leases and lost answers.** Two coordinators read the lease, the epoch
  and the configuration in one call and write in another; the autoscaler gives up
  calls that the coordinator still executes; clients begin an upload anew, under a
  new uuid, when a shard has lost their session.
* **Replicas.** Every upload is sent to two queues in turn, health is probed by
  three threads, and a promotion changes the store first and one coordinator's
  RPC client later.
* **Readings that are not exact.** `getItem` of the DynamoDB store asks for no
  consistent read, so that a read may return an earlier value; several readings
  hide an error behind a default (cycle idle, epoch 0, version 1); the lengths of
  SQS queues are approximate, and zero when they cannot be read.

What makes each component correct: a merge runs once, and only when nothing it
must contain is outstanding (control loop, finisher); no accepted upload is
lost and none is applied twice (queue, ledger, workers); the two tables that are
dumped belong together (barrier); a completed epoch has its own result file
(publication); only one coordinator acts (lease); a failed start leaves nothing
behind (coordinator); uploads of an epoch see one shard configuration and a
recommendation is applied once (scaling); a request is queued at most once and its
session is known everywhere (routing, client); a promoted pair has what was
accepted (standby).
`PROJECT.json` lists the hazards line by line, with the properties that cover
them.

## 2. Modules

| module | models | extends |
|---|---|---|
| `UploadQueue` | the completed-upload queue, both backends | |
| `UploadLedger` | the ledger, both backends | `UploadQueue` |
| `SlotTables` | tables and pending queries of the two servers | `UploadQueue` |
| `EpochControl` | one operator per command of the leader's control loop | `UploadQueue` |
| `Shard` | composition: control loop, workers, finishers, timeouts, failures; properties | the four above |
| `FencedLease` | abstract specification: what the coordinators' lease promises | |
| `CoordinatorLease` | lease of the control store, roles, tickers and RPC handlers of the coordinators; properties | instantiates `FencedLease` |
| `ControlStore` | epoch record, epoch cycle, shard configurations, recommendations: the conditional writes of both stores | |
| `EpochCycle` | composition: coordinators, shards as they see them, store and autoscaler between and around epochs; properties | `ControlStore` |
| `UploadRouting` | clients, Upload1 to Upload3 in the coordinators, session store; properties | |
| `Promotion` | the two pairs of a shard, their queues, health monitor, automatic check, operator's promotion; properties | |
| `DatasetScale` | the scaling policy as functions | |
| `ShardMap` | shard maps as functions: validation, construction, routing, comparison | `DatasetScale` |
| `ShardTopology` | the life of the shard configuration over epochs, applications, promotions and restarts; properties | `ShardMap` |
| `MCShard`, `MCLease`, `MCEpochCycle`, `MCUploadRouting`, `MCPromotion`, `MCShardTopology` | TLC instances | the module named |
| `ShardTypeProofs`, `ShardControlProofs`, `ShardDataProofs` | theorems | `Shard` |
| `LeaseProofs` | theorems | `CoordinatorLease` |
| `CycleProofs` | theorems | `EpochCycle` |
| `RoutingProofs` | theorems | `UploadRouting` |
| `PromotionProofs` | theorems | `Promotion` |
| `ScaleProofs` | theorems | `ShardTopology` |

The modules meet at interfaces that one of them has in detail and the others as one
step. `Shard` is a shard leader from the inside; to `EpochCycle` a shard is its
epoch id and state, to `UploadRouting` also its open sessions. `CoordinatorLease`
says how the lease moves; the others have a variable or constant for its holder.
`EpochCycle` says in which order an epoch opens and closes, `UploadRouting` takes
that order as its environment.

### State and actions against the code

*Queue.* `available` and `inflight` are sets of messages; a message is the pair
(uuid, epoch id) because the ledger key, the tables and every guard look at
nothing else. `Backend` selects the memory queue or SQS; it selects the matching
ledger as well (`"sqs"` means SQS with the DynamoDB ledger). `VisibilityTimeout`
is SQS's redelivery, `DrainedReadings` is what `Stats` may answer: exact for the
memory queue, anything for SQS, whose counters are approximate and whose errors
are reported as an empty queue.

*Ledger.* A record is none, processing or committed, with the number of the
attempt that holds the lease and whether its TTL has passed. `LedgerBeginStale`
is the path of the DynamoDB ledger in which the eventually consistent re-read
shows an expired lease and `BeginProcessing` returns neither a lease nor an error.

*Tables.* `writes[s][u]` counts how often the share of `u` was XORed into the
tables of server `s`; odd means visible. The plaintext is readable when both
servers show the same writes. `DumpTable` leaves the counts alone, because
`CopyToAndClear` clears the merged table and not the local tables.

*Control loop.* `epoch`, `sessions`, `lastResult`, `peerState` are the fields of
`leaderControlRuntime`; `mergeWaiters` is the set of finishers with
`fin[r] = "waiting"`. A run is one successful start; its timer and its
`finishEpoch` goroutine share the program counter `fin[r]`. Each command is one
step because one goroutine handles it without releasing control; it includes the
trailing `startMergeIfDrained`. `admitted`, `acked`, `aborted` and `closed` are
history variables that only properties read.

*Workers.* `wpc[w]` is the place in `processIngestionJob`. Each external call
(ledger, RPC, queue, control loop) is a step; fan-outs keep the set of servers
whose answer is awaited in `todo`. A failed call, and the calls that were under
way when the worker returned, go to `late`; each of them is executed later or
lost. `faults` counts failures.

*Finisher.* `run`, `lock`, `merge`: `Lock` of the RWMutex is two steps (asked,
granted) because a waiting writer keeps new readers out.

*Coordinator lease.* `lease` is the store's lease item; whether its TTL has passed
is the flag `live`, since callers pass their own clocks and a clock that is ahead
or behind judges the lease like a call made a little later or earlier. `role` and
`held` (the fencing token of `c.lease`) belong to a coordinator. Its ticker and
its RPC and timer threads each have a place `pc[c][t]`: the decision is read in
one actor call, the store is called, and the answer is committed in another actor
call, and everything may happen in between, including `Stop` and a restart under
the same holder id (the default id contains the process id, a configured one does
not). A call that fails may have been executed: for a renewal the store looks the
same either way, for an acquisition `AcquireRefused` includes the grant whose
answer is lost. An answer "lease held" leaves the role of a running coordinator
alone, because active has no transition to passive and
`commitPassiveRoleIfEligible` returns for stale; `passive` is reached at start-up
only. `Write` stands for the control-store writes behind `requireCoordinatorLease`;
`EpochCycle` has what they write. `lastWrite` and `owner` are history
variables. `FencedLease` keeps only the owner of every token, the last token and
the token each coordinator works with.

*Control store.* Each conditional write is a pair of operators: the condition
(`StartEpochAllowed`, `PutShardConfigAllowed`, ...) and the effect. The two backends
differ where the code does: `Backend` selects the condition of `StartEpoch` (the
memory store has none) and whether it rewrites the version of the configuration. Of a
shard configuration the model keeps version, number of shards and the shards whose
pairs are swapped. `ValidEpochCycleTransition` is the table of
`controlstore/epoch_cycle.go`. `former` has the values that the epoch, the
configuration, the last recommendation and the cycle had before: with DynamoDB a
read returns any of them or the present one. The values an error is hidden behind
(no cycle, no epoch, version 1) are the first of them. `PutEpochCycleTransition` of
DynamoDB makes such a read itself before its conditional write, and an old value has
a transition refused that the item's state allows (`PutEpochCycleTransitionMisled`).

*Epochs and scaling.* `call[c][t]` is a handler in coordinator `c`: its place and
what it carries from one store, shard or actor call to the next. `StartEpoch` goes
through the cycle check, the actor's decision, the configuration, one shard after
the other, the lease, the snapshot, the store's epoch, the cycle and the actor's
commit; from any of them an error leads to `AbortStarted`, which aborts the shards
started so far and nothing else. The thread `Timer` runs the completion:
decision, lease, actor, store, recommendation, cycle. `Apply...`, `Skip...` and
`Promote...` are the handlers of the three administrative calls. `auto` is one
round of `evaluateOnce`; its RPCs run in `AutoRpcs` of the coordinator it is
configured with, and go on after `AutoTimesOut`. `Fault` is a call that returns an
error with or without effect. `Misread` is a read of DynamoDB that returns something
else than what is stored; every read of the cycle, the epoch, the configuration and
the recommendation has that branch (`Sees`), and a restarted coordinator may dial the
shards of an old configuration, or of the whole inventory. `TakeOver` moves the lease, `Crash` ends a
coordinator's handlers and memory. `committed`, `ran` and `applied` are history.

*Upload routing and client.* A client has one call under way, so `client[k]` holds
its loop and the handler that serves it. Each call of an upload may go to another
coordinator, as behind a load balancer; the client in `client/` keeps one
connection, a special case. The sessions are in the store (`stored`, `record`) and
in the coordinators' caches; the epoch of the session is compared with the store's
epoch before the shard is called. `metrics` is the holder's count of accepted
uploads; recording it compares epochs again. An error is one of five classes:
`no_epoch`, `standby`, `bogus` (no coordinator knows the session), `lost` (the shard
does not, "Shard session lost") and `other`. The client's loop begins the upload anew
after `lost` and ends at any other error (`Retryable`). The shards open
and close epochs on their own, are restarted or promoted (`ShardReplaced`), and the
number of shards changes between epochs; only the holder dials the shards that are
added, so another coordinator may have no client for the shard of a row. With DynamoDB
the epoch, the configuration and the session may be read late (`Read`): an epoch that
is over passes for open, and a session just put is not found. `StartFails` is a
`StartEpoch` that fails after the store's, at the transition of the cycle: the shards
are aborted (`ShardAborts`), the open epoch stays in the store, and the memory store
lets the next one begin over it.

*Standby and promotion.* A shard has two pairs, `A` and `B`; `config.active` is the
one the store names. An accepted upload goes to the standby's queue and then to the
active one (`SendToStandby`, `SendToActive`); a failure of either is an error to the
client, with what was sent staying sent. A pair's ingestion is one step per upload
(`Process`), which may report an error, and the report is never withdrawn, as
`recordIngestionError` in the code. `thread[c][t]` is the health monitor, the
automatic check or the operator's handler. The operator's handler reads the
configuration it will change (`PromoteShardStandby`); then, as the other two,
it refreshes the health of the shard: read the configuration once more to know the
standby (`Refreshes`), ask the active and the standby pair, commit the snapshot. It
evaluates the snapshot of the moment; the automatic check does so in one actor
command (`AutoEvaluates`: count failures up to the threshold, require a baseline,
cool down) and reads the configuration to be changed afterwards (`AutoProposes`).
Both dial, put the configuration and replace the client. Each reading of the
configuration may be a former one (`GetShardConfig`), and `refreshShardHealth` takes
the inventory, which is the first one, if it fails. What a pair answers about its queue
may be wrong either way (`Stats`). A `PutShardConfig` that is answered with an error
may have taken effect (`LostAnswer`); either way the handler returns and the client is
kept (`PutsConfig`). The promoted pair takes the replica role `active` at the next
`StartEpoch`.

*Scaling policy, shard maps and topology.* `ComputeNextDatasetScale`, `RouteShard`,
`BuildShards` and `InventoryContains` are the functions of those names; densities
are compared as products of integers. `ShardTopology` runs them one after the other:
`Start` is the constructor (seed or accept the stored configuration, resolve and
validate the policy, dial the shards), `CompleteEpoch` the recommendation for any
load, `Apply` and `Promote` the two writers of the configuration, `Stop` a crash.

## 3. Runs

| run | bounds | checks | result |
|---|---|---|---|
| `memory` | `MCShard`: 2 uploads, 2 workers, 2 starts, ids 0 and 1, no failing call, fair | `TypeOK`, `MergeExclusive`, `ClosingHasWaiter`, `SessionKeepsRun`, `ReadableResult`, `ClosedRunIsComplete`, `EpochEnds`, `AckedIsApplied` | pass, 179,133 states |
| `sqs` | `MCShard`: 1 upload, 2 workers, 2 attempts, 2 failing calls, redelivery, expiry, symmetry | `NoUploadLost`, `CommittedOnBoth`, `CompletedHasResult`, `AtMostOnce` | pass, 841,169 states |
| `lease` | `MCLease`: 2 coordinators, 1 RPC thread each, 2 grants, 1 stop, fair | `LeaseInv`, `ImplementsFencedLease`, `LeaseIsRecovered` | pass, 215,082 states |
| `cycle_scale` | `MCEpochCycle`: DynamoDB, 2 coordinators, an operator who starts and skips, an autoscaler with 2 calls under way, 1 to 2 shards, 2 epochs, 3 versions, 2 starts, 2 mishaps: faults, misreads, time-outs, take-overs, crashes | `TypeOK`, `RecommendationFitsConfig`, `StartedEpochIsConsistent`, `OpenEpochWasStarted`, `HolderReachesShards`, `ShardCountFixedInEpoch`, `NewConfigNewVersion` | pass, 1,687,767 states |
| `cycle_operators` | `MCEpochCycle`: DynamoDB, 1 coordinator, an operator who starts, applies, skips and promotes beside the autoscaler, 1 epoch, 3 versions, 1 mishap, fair | `AppliedOnce`, `EpochsAreDecided` | pass, 208,219 states |
| `routing` | `MCUploadRouting`: DynamoDB, 1 client that changes coordinators, 2 coordinators, 1 to 2 shards, 2 epochs, 1 request, 3 uuids, 2 mishaps: faults, misreads, crashes, shards restarted or promoted, fair | `TypeOK`, `AcceptedOnce`, `NeverOvercounted`, `NoBogusUUID`, `RequestsEnd` | pass, 1,085,753 states |
| `promotion_auto` | `MCPromotion`: 1 upload, 1 coordinator with monitor and automatic check, threshold 2, 1 fault, 1 pair stops, 1 wrong or old reading or lost answer, fair | `TypeOK`, `ActiveHasAccepted`, `PromotedWasDrained`, `DownActiveIsReplaced` | pass, 1,834,466 states |
| `promotion_takeover` | `MCPromotion`: 1 upload, 2 coordinators with an operator each, 1 pair stops, 1 take-over, 1 wrong or old reading or lost answer | `ActiveHasAccepted`, `PromotedIsCaughtUp`, `HolderUsesActive` | pass, 7,347,367 states |
| `topology_maps` | `MCShardTopology`: 4 shards given out of order, 2 with a standby, height 2, loads 0 to 26, 5 versions | `EveryRowRouted`, `RestartAccepted`, `WithinBudget`, `NoFlapping` | pass, 82,773 states |
| `drain` | `MCShard`: 2 uploads, 1 start | `AcceptedIsPublished` | violated, finding 1 |
| `republish` | `MCShard`: 1 upload, 2 starts | `PublishedOnce` | violated, finding 2 |
| `lease_fence` | `MCLease`: 2 coordinators, 2 grants, no stop | `MutationsAreFenced` | violated, finding 3 |

*Why these bounds.* They are the smallest in which the hazards occur. Shard: two
starts let a stale timer of the first run meet the second one and let an aborted
session survive; two workers let a redelivered message be processed twice at once;
two attempts let a lease be taken over; two failing calls let a redelivered job fail
again. Ids include repeated ones because the coordinator reuses the id of a start
that it had to abort. Lease: two grants are a take-over and its return; the lease
neither expires nor loses its holder after the last grant, which for
`LeaseIsRecovered` says that the renewals of a running holder are in time from some
point on (renew interval < TTL, `validateCoordinatorLeaseConfig`). Cycle: two epochs
and one growth let a recommendation of the first epoch meet the second; two
autoscaler calls let one that was given up run beside its successor; two mishaps
(`MaxMishaps` bounds them together) let an error meet an error in the roll-back, a
misread meet a take-over, a crash follow a time-out. `cycle_operators` has one mishap:
after it `EpochsAreDecided` asks nothing more unless it was a time-out, and `AppliedOnce`
is proved for any number. Routing: three uuids let an upload begin three times; two
coordinators and a crash let the session's cache be lost; one shard at first
(`SeedShards`) lets the count grow and shrink back and old counts be read either way.
Promotion: one upload can be confirmed, queued or lost at each pair independently;
threshold 2 lets a status call fail between two failures; one mishap is a standby that
passes for drained, a former configuration, or a write that took effect unnoticed. Topology: four shards let a promoted
pair be left out by a shrink and come back, and loads to 26 pass the upper
threshold of three shards. Deadlock is not checked: a system in which nobody starts
an epoch, sends an upload or calls for a promotion may rest, and the bounds end the
behaviours.

*Conditions in properties.* Some hold only where the code provides them, and say so.
`AtMostOnce`: no call failed and no processing lease of the upload expired; SQS with
either applies a write twice (see below). `ReadableResult`: no call failed, since a
write that a failed fan-out left out, or left behind, may be missing at one server.
`ClosedRunIsComplete`: the memory backend, with any failures, because SQS's counters
may report an empty queue too early.
`ExactReads` of `EpochCycle`, `UploadRouting` and `Promotion`: no misread so far. The
memory store is always read exactly; of DynamoDB and SQS the code asks no such thing,
so that with them these properties are about behaviours in which it happens to be so.
`OpenEpochWasStarted`: no error, no crash, and `OneStart`: `ExactReads` and one
`StartEpoch` at a time under one holder of the lease, which is what the epoch cycle
serialises.
`RecommendationFitsConfig`, `ShardCountFixedInEpoch`, `NewConfigNewVersion`:
`Unattended`, which is `OneStart` and no operator who applies or promotes; faults,
crashes, skips and calls the autoscaler gave up remain. `HolderReachesShards`: the
lease did not move, `ExactReads`. `EpochsAreDecided`: until a call fails, a reading is
not exact, the lease moves or a coordinator crashes; time-outs remain.
`NoBogusUUID`: no failing call, since a failing read of the
session store gets the same answer, and `ExactReads`. `NeverOvercounted`: `ExactReads`.
`ActiveHasAccepted`: `SwitchedOnce`, that is until the pairs are switched back.
`PromotedWasDrained`: `SwitchedOnce` and `ExactReads`; `PromotedIsCaughtUp`
also needs that one thread of a coordinator probes. `HolderUsesActive`: no take-over,
no lost answer of a write, and `SwitchedOnce` or not both the automatic check and an
operator.

What holds whatever is read: a started epoch is consistent with its snapshot
(`StartedEpochIsConsistent`), a recommendation becomes one configuration
(`AppliedOnce`), a request is queued once and ends (`AcceptedOnce`, `RequestsEnd`),
confirmed uploads are with the active pair although its standby passed for drained by
mistake (`ActiveHasAccepted`), a pair that is down is replaced (`DownActiveIsReplaced`),
and old readings of the configuration alone do not part the holder from the active pair
(`HolderUsesActive`) nor let an undrained standby be promoted (`PromotedWasDrained`:
`ExactReads` of `Promotion` is about queue lengths only). What the code
does where a condition fails is listed under "What the models show beyond the runs".

*Fairness* (`FairSpec`). Shard: weak fairness for every step of a worker and a
finisher that is not a failure, since the Go scheduler runs every runnable goroutine
and a due timer fires; strong fairness for `RLock`, since an RWMutex grants waiting
readers when the writer unlocks; weak fairness for the client's Upload2 and Upload3,
an assumption, since the leader never expires a session and without it an epoch stays
Closing. Lease: weak fairness for a running coordinator's ticker, strong fairness for
a successful acquisition (the store does not fail the call for ever), weak fairness
for the expiry of a lease whose holder is gone. EpochCycle: a handler that was called
runs on, timers fire, a shard's merge ends, the autoscaler polls. UploadRouting: a
handler and the client's loop run on. Promotion: weak fairness for each thread (tickers
fire, calls return), for the workers and for the end of the cooldown; none for the
sends of an upload. A step that may go wrong has a branch in which it does not, so
fairness forces no fault, misread or lost answer; where only a misread would enable a
step, as the poll of the autoscaler, that branch is excluded. Nothing is owed to starts, aborts, failures, operators,
take-overs, crashes, time-outs and, in UploadRouting, epochs.

Each property has a mutant in `PROJECT.json`: a variant of one definition with a
plausible bug (the operators named `X_...` next to `X`) under which TLC finds the
property violated.

### Findings

1. *Accepted uploads can miss their epoch's result* (run `drain`).
   `beginEpochMergeCommand` (`src/db/server.go:223`) starts the merge at once when
   no session is open and does not ask whether the queue is drained, as the Closing
   path does. An upload whose Upload3 succeeded and that is still queued appears
   only in the next result. `src/report/main.tex:102` promises that all writes
   accepted for an epoch are "published as part of that epoch's result".
2. *Writes are published again in every later epoch* (run `republish`).
   `CopyToAndClear` (`src/db/table.go:84`) does not clear the local tables.
   `src/report/main.tex:102`: writes accepted for an epoch are "published as part of
   that epoch's result"; they are published with all later ones, too.
3. *Control-state writes are not fenced* (run `lease_fence`). `StartEpoch`,
   `CompleteEpoch` and `PutShardConfig` of the control store take no fencing token
   (`src/controlstore/dynamodb.go:279`). A coordinator whose lease expires and is
   taken over after `requireCoordinatorLease` returned still writes.
   `src/docs/failover.md:161`: "an old token cannot renew or mutate control state
   after a newer holder takes over". The first half holds (`LeaseInv`), the second
   does not.

### What the models show beyond the runs

Behaviours of the code met while the properties were found. Each can be reproduced
by dropping the condition named or changing the constants named.

* *A shard count can change in an open epoch.* An apply that finds the cycle in
  `scaling_in_progress` joins it, whoever set it (`src/coordinator/coordinator.go:918`).
  If that was a concurrent skip, the skip ends, an epoch is started, and the apply then
  writes the new count under it (`cycle_operators` with `SkipRpcs = {r2}`,
  `ApplyRpcs = {r3}`, `MaxEpoch = MaxStarts = 2`, and `ShardCountFixedInEpoch` without
  `Unattended`).
  `src/docs/dynamic-scaling.md:4` excludes it.
* *Two StartEpochs pass the cycle's check together.* `StartEpoch` looks at the cycle
  first and moves it last (`src/coordinator/coordinator.go:685-750`), so two calls, or
  the calls of two holders, may both pass. `RecommendationFitsConfig`,
  `OpenEpochWasStarted` and `ShardCountFixedInEpoch` fail without their condition with
  `StartRpcs = {r1, r2}`, or with `MaxStarts = 4`, `MaxEpoch = 3`.
* *Two configurations of one version.* `PutShardConfig` accepts an equal version
  (`src/controlstore/dynamodb.go:482`), so an apply and a promotion that read the same
  configuration both write, and the second wins (`NewConfigNewVersion` without
  `Unattended` in `cycle_operators` with `PromoteRpcs = {r3}`).
* *A standby coordinator has no clients for added shards*: only the coordinator that
  applies dials them (`src/coordinator/coordinator.go:718`; `HolderReachesShards`
  after a take-over).
* *The gate of StartEpoch opens when it cannot be read*: `epochCycleState` answers idle
  on an error (`src/coordinator/epoch_cycle.go:13`), and DynamoDB may answer with a
  state from before the apply began. An epoch then starts while a recommendation is
  applied, and the count changes under it (`ShardCountFixedInEpoch`,
  `RecommendationFitsConfig` without `ExactReads`).
* *A transition can be refused although nothing failed*: `PutEpochCycleTransition` of
  DynamoDB compares with a read that may be old (`src/controlstore/dynamodb.go:646-655`).
  Between the two transitions of a skip or an apply that leaves the cycle in
  `scaling_in_progress` (`EpochsAreDecided`), at the end of `StartEpoch` an open epoch
  in the store (`OpenEpochWasStarted`).
* *A session can be unknown to the next coordinator*, as `GetSession` may be answered
  from before it was put (`NoBogusUUID` without `ExactReads`), which ends the client.
* *Uploads can be counted in an epoch that did not take them*: on an old configuration
  after a shrink, an upload is routed to a shard that no longer takes part and still
  closes the epoch before (`NeverOvercounted` without `ExactReads`).
* *A failed StartEpoch leaves an open epoch in the store* when the error comes after
  the store's StartEpoch (`OpenEpochWasStarted` with a fault). The cycle's
  table lets `failed` go to `ready_for_next_epoch`, but nothing in the program makes
  that transition, so no epoch follows a failed one.
* *A session can be accepted in another epoch of its shard*: the coordinator compares
  epochs before the call, the shard only checks that it is active
  (`src/coordinator/coordinator.go:544`). `NeverOvercounted` therefore counts by the
  epoch of the shard.
* *A promoted pair refuses uploads until the next StartEpoch* with an error that
  clients do not retry (`src/db/server.go:297`).
* *An older probe can replace a newer one* (`src/coordinator/coordinator_health.go:114`):
  `PromotedIsCaughtUp` fails with the monitor beside an operator. On an old probe a
  second promotion, of another thread or of another coordinator, switches back to a
  pair without the latest uploads: drop `SwitchedOnce` and check `ActiveHasAccepted`
  with `Threads = {auto, admin}`, or `PromotedWasDrained` with
  `Threads = {monitor, auto}`, `FailureThreshold = 1`, `MaxFaults = 2`.
* *The other coordinator keeps the old active pair* after a promotion
  (`src/coordinator/shard_promotion.go:207`; `HolderUsesActive` after a take-over). So
  does the coordinator that promoted, if its `PutShardConfig` took effect and was
  answered with an error (`src/coordinator/shard_promotion.go:148`; `used.lost`).
* *A standby with queued uploads can be promoted*, when SQS's counters, or the zeroes
  that stand for an error, call its queue empty (`src/db/ingestion_sqs.go:261`;
  `PromotedWasDrained` without `ExactReads`). The uploads stay in its queue.
* *An inventory whose ids are not in the order of its rows is refused at a restart*
  after the first application, because `buildShardConfigFromInventory` sorts by id
  and gives out rows anew (`src/coordinator/shard_config.go:216`).
* *Thresholds that are close together flap*: validation accepts any up density above the
  down density; with up = 2, down = 1, multiplier = 2 the same load grows and shrinks
  in turn (`NoFlapping`).
* *A shrink can raise the count*, when `-scaling-min-shards` is above the current
  number (`src/coordinator/scaling.go:148`).
* *An application undoes a promotion in the configuration*, since it takes the pairs
  of the inventory, but keeps the client (`src/coordinator/scaling_apply.go:84`);
  `EveryRowRouted` therefore allows either pair.
* *SQS can apply a write twice*, after an expired processing lease or a failed
  Prepare: the second attempt XORs again.

## 4. Proofs

For every value of the constants (assumptions: the named `ASSUME`s of the modules,
which say that bounds are natural numbers, markers are not values, and flags are what
the program's own validation lets through):

| theorem | states | module |
|---|---|---|
| `TypeCorrect` | `Spec => []TypeOK` | `ShardTypeProofs` |
| `MergeIsExclusive` | `Spec => []MergeExclusive` | `ShardControlProofs` |
| `ClosingIsAwaited` | `Spec => []ClosingHasWaiter` | `ShardControlProofs` |
| `SessionsKeepTheirRun` | `Spec => []SessionKeepsRun` | `ShardControlProofs` |
| `CompletedIsPublished` | `Spec => []CompletedHasResult` | `ShardControlProofs` |
| `CommitMeansWritten` | `Spec => []CommittedOnBoth` | `ShardDataProofs` |
| `UploadsAreKept` | `Spec => []NoUploadLost` | `ShardDataProofs` |
| `WritesAtMostOnce` | `Spec => []AtMostOnce` | `ShardDataProofs` |
| `MemoryNeverRepeats` | `Spec => []MemoryWritesOnce`: with the memory queue no server applies an upload twice, whatever fails | `ShardDataProofs` |
| `PublishInvariant` | `Spec => []PublishInv`: no worker is in a job while tables are dumped and combined | `ShardDataProofs` |
| `ResultsAreReadable` | `Spec => []ReadableResult` | `ShardDataProofs` |
| `ClosedRunsAreComplete` | `Spec => []ClosedRunIsComplete` | `ShardDataProofs` |
| `LeaseInvariant` | `Spec => []LeaseInv` | `LeaseProofs` |
| `LeaseIsFenced` | `Spec => ImplementsFencedLease` | `LeaseProofs` |
| `CycleTypeCorrect` | `Spec => []TypeOK` | `CycleProofs` |
| `StartedIsConsistent` | `Spec => []StartedEpochIsConsistent` | `CycleProofs` |
| `RecommendationAppliedOnce` | `Spec => []AppliedOnce` | `CycleProofs` |
| `ShardsAreReached` | `Spec => []HolderReachesShards` | `CycleProofs` |
| `OpenEpochsWereStarted` | `Spec => []OpenEpochWasStarted` | `CycleProofs` |
| `RecommendationsFit` | `Spec => []RecommendationFitsConfig` | `CycleProofs` |
| `CountIsFixedInEpoch` | `Spec => ShardCountFixedInEpoch` | `CycleProofs` |
| `VersionsNameConfigs` | `Spec => NewConfigNewVersion` | `CycleProofs` |
| `RoutingTypeCorrect` | `Spec => []TypeOK` | `RoutingProofs` |
| `RequestsAcceptedOnce` | `Spec => []AcceptedOnce` | `RoutingProofs` |
| `SessionsAreKnown` | `Spec => []NoBogusUUID` | `RoutingProofs` |
| `LoadIsNeverOvercounted` | `Spec => []NeverOvercounted` | `RoutingProofs` |
| `PromotionTypeCorrect` | `Spec => []TypeOK` | `PromotionProofs` |
| `AcceptedIsAtActive` | `Spec => []ActiveHasAccepted` | `PromotionProofs` |
| `PromotedHadCommitted` | `Spec => []PromotedWasDrained` | `PromotionProofs` |
| `PromotedHadCaughtUp` | `Spec => []PromotedIsCaughtUp` | `PromotionProofs` |
| `HolderTalksToActive` | `Spec => []HolderUsesActive` | `PromotionProofs` |
| `BudgetKept` | `Spec => []WithinBudget`, if a cap is given | `ScaleProofs` |
| `ScaleDoesNotFlap` | `Spec => []NoFlapping`, if up > down * multiplier | `ScaleProofs` |
| `EveryRowIsRouted` | `Spec => []EveryRowRouted` | `ScaleProofs` |
| `StoredMapsAreValid` | `Spec => []StoredMapIsValid`: the stored map passes `validateShardMap` | `ScaleProofs` |
| `RestartsAreAccepted` | `Spec => []RestartAccepted`, if ids are in row order and the first start is accepted | `ScaleProofs` |

*Types.* `TypeOK` is inductive together with `WorkerHasMsg`: a worker that is not
receiving has a message. There is one lemma per component, which `TypeStep`
combines.

*Merge.* `MergeExclusive` alone is not inductive, because `startMergeIfDrained`
picks the finisher among the waiters. `MergeInv` adds that finishers wait exactly
in Closing, that a merger exists at most once and only in Merging, and that runs
not yet started are idle.

*Sessions.* `SessionInv` says that an open session belongs to the current run
while that run can still take it (Active or Closing), or to an aborted run;
merging with a session open is thereby excluded.

*Results.* `ResultInv` follows the result of the merge from the file written
under the mutex to `lastResult`: between `merged` and Completed the path names
the epoch, whose id no other command can change in the meantime.

*Data.* `DataInv` says that a committed message is written on both servers, and
what each place in `processIngestionJob` has established by then: while a worker
awaits Prepare answers, the servers not in `todo` hold the write; from Commit on
both do; a worker that is about to ack holds a committed message. Writes are
never taken back (`WritesKept`), commits never withdrawn (`CommitsKept`), and a
message leaves the queue only by an Ack of a committed one (`QueueKept`), so an
accepted upload is kept.

*One message.* `MessageInv`: with the memory queue, or as long as no call failed, the
messages of an upload in queue, ledger and workers are one message and its session is
over (`OneMessage`; a failed Enqueue may have enqueued and be repeated in a later epoch);
the memory queue hands it to one worker, whose `BeginProcessing` is the first
(`DeliveredOnce`).

*At most once.* `AtMostOnce` counts the attempts of all workers, so `OnceInv` says where a
write can come from: a worker that awaits Prepare answers of the upload, of which there is
one at most, or a call left behind; and there is neither once the server has the write
(`OneSource`). Before the first ledger record nothing was sent (`Untried`). The
theorem's conditions make the ledger refuse every later worker; with the memory queue there
is no later worker, which is `MemoryNeverRepeats`.

*The barrier.* `PublishInv`: while a finisher merges, that is from the write lock to the
combined result, no worker holds the read lock, and dumps exist in a merge only. It holds
whatever fails; calls that a worker left behind hold no lock.

*Readable results.* `BalanceInv` compares the servers as long as no call failed: outside
of the jobs under way both applied an upload equally often, and one may be ahead by as
many jobs as have its Prepare answer and not the other's. This difference is a cardinality, so the proof
needs finitely many workers (`WorkersAssumption`; `Server.Initialize` starts a fixed
number). At the barrier there is no such job, hence the two dumps agree and combine
to rows that can be read.

*Closed runs.* `ClosedInv`: when a run leaves Closing on the memory backend, the queue
is empty and nothing is in flight, so every upload the run accepted is committed, by
`DataInv` written at both servers and by `OnceInv` written once; no new one is accepted before the next start, and
the dumps and the result are taken from these tables.

*Lease.* `LeaseInv` is inductive as it stands. Its last conjunct is what the
refinement needs: while the ticker has an uncommitted acquisition, its token was
granted to this coordinator and is not older than the one held. It is kept
because only the ticker acquires and a renewal never replaces the held token
(`commitRenewedLease` compares it); `QuietStep` and `MoveOnly` cover the many
steps that touch neither the store nor a held token. Each grant is then a `Grant`
of `FencedLease`, `CommitAcquiredLease` a `Learn`, `Stop` a `Forget`, and all
other steps stutter. The result holds for any number of coordinators, RPC
threads, grants and restarts.

*Epochs and scaling: types.* `CycleTypeInv` adds to `TypeOK` what a handler carries at
each place (`HandlerOK`: which thread may be there, that the configuration or the
recommendation it will write is one, that its epoch is chosen) and that stored
recommendations and open epochs are complete; `former` holds values of the type of its
items, and an epoch or configuration read from it is as good as a present one
(`FormerOK`, `Remembers`). A handler moves by `Goto`, by `Return`
or by new contents; `GotoMoved`, `ReturnMoved` and `SetMoved` treat these once, and
`...Profile` lemmas say which places and variables each handler can touch.

*A started epoch is consistent.* `StartedInv` follows the fan-out: a `StartEpoch` past
shard n has its epoch in `ran` of the shards 1 to n, past the snapshot its
configuration is the snapshot of its epoch. History and snapshots only grow, so
neither a second `StartEpoch` of that id nor a take-over can undo it. It does not matter
which configuration was read, as the fan-out and the snapshot use the same one.

*Applied once.* `AppliedInv`: of an epoch there is one recommendation among those
stored, formerly stored, carried and applied (`Known`), since its record is immutable; and what an apply
carries or wrote is a function of the recommendation alone (`Outcome`: the version is the
recommendation's plus one, because the versions are compared; the count is the target).

*The holder reaches the shards.* `HolderInv`: until the first take-over only the
holder acts, and while readings are exact a handler that is about to write a configuration has dialled its
shards or carries the count of the stored one.

*An open epoch was started.* `GateInv`: from its look at the cycle to its own
transition a `StartEpoch` finds the cycle settled, because no other transition leaves a
settled state (`SettledStays`) and no other `StartEpoch` runs. With exact readings
`CyclePut` is then not refused, and without an error the handler that opened the epoch reaches its commit.

*Scaling without operators.* `ScalingInv` says that the state of the cycle is a lock.
"active" belongs to the `StartEpoch` about to commit, then to the open epoch in the
coordinator's memory, then to the timer that reports it, one at a time (`ForEpoch`);
"scaling_in_progress", or "failed" after the autoscaler gave up, to the one that applies
or skips (`Owns`, `AutoOwns`), and a dry run owns nothing. With it, what handlers carry
fits the store (`Carries`): the configuration of a `StartEpoch`, the count and version
of a report, an apply's proposal of the next version, and that no epoch is open under
an apply that has looked. The write of a configuration is then the only change of it,
by the one owner, between epochs (`ScalingPuts`, `ConfigStep`), from which the three
theorems follow. All of it holds for both backends and over faults, crashes and calls
that were given up, as long as readings are exact (`Unattended`): the cycle is a lock
only for those who see it.

*Routing.* `RoutingInv` is `TypeOK` and `SessionsRouted`: a client inside a handler has
a request, and one inside a session has a uuid whose record names a shard; without it
the steps at the shard would have no shard to type. One lemma per action, with
`ClientUpdated`, `GotoTyped` and `FailsTyped` for the moves they share.

*Accepted once.* `AcceptedOnce` is kept by the order of the client's loop: only
`Upload3AtShard` adds to `accepted`, and what follows it is not repeated. `OnceInv`
adds that an accepted request is not after the client's current one, and that if it is
the current one, the client is past that call (`Over`). A client that
begins again (`Fails` with a retryable error) is therefore one that has not been
accepted. The result holds for any number of clients, coordinators, shards, faults,
crashes and restarts.

*Known sessions.* `SessionInv`: the uuids of two sessions under way differ, so a handler
deletes only its own session, and without a failing call or a misread (`Clean`) a session
is in the store until its own Upload3 has been answered; caches may be lost at any time.

*Counting.* `NeverOvercounted` compares a count with a set. `LoadInv` has three parts and
holds while readings are exact. `CountInv` bounds the count by the
accepted uploads of the epoch that no handler is still about to count; a handler that
counts moves one upload across (`AnsweredInv` says there is one, of the right epoch), and
`EpochInv` says why the epoch is right: no shard is ahead of the coordinator's epoch,
an upload that was routed in the open epoch goes to a shard that takes part in it, and
an open session of the open epoch is at a shard in that epoch.

*Promotion.* `SwitchInv` numbers the configurations, those that handlers carry
included: version 1 is A, version 2 is B, and until then everything runs at A; so a
former configuration is known by its version (`Former`, `ReadNumbered`). `CopyInv`: an
upload confirmed by A was sent to B before. `HealthInv`: as long as queue lengths are
read right, a probe that calls the standby fit was of B, when B had committed everything
confirmed by then, and commits are not withdrawn; it is carried along the thread, the
snapshot of the coordinator and the promotion. `ActiveHasAccepted` needs only `SwitchInv`
and `CopyInv`, which is why it holds whatever the probes said. `ProbeInv` adds, for a
thread that probes alone, that the probe is its own. `HolderInv` keeps promotions with
the first holder until a take-over and ties the RPC client to the configuration until
the answer to a write is lost.

*Budget.* `BudgetInv`: the policy's cap is the flag's, a running coordinator has
validated its policy against the number of shards, and the last recommendation is
within the cap. The middle part makes `ComputeNextDatasetScale` stay below the cap
(`CeilBound`, `ScaleWithinBudget`); it survives `Apply` because a map is built with as
many shards as were recommended (`BuildLength`). The theorem assumes an explicit cap
(`-scaling-max-shards`): without one the cap is the number of shards at the start.

*Hysteresis.* `HysteresisInv`: both remembered recommendations are justified by the flags
(`Justified`: a grow has the load above the upper threshold of the count it started
from, a shrink below the lower one, and each changes the count by at most the
multiplier), and the latest was computed for the count the one before reached. Two
opposite ones of one load would need up <= down * multiplier.

*Maps.* What sorting the inventory returns seems to ask for induction over data. It is
avoided: a shard's place is one more than the number of shards that come before it, which
is an injection of 1 .. n into itself and therefore a permutation (`SortingExists`), and
the two inductions that are left (rows without gap start at multiples of `Height`, an
increasing permutation is the identity) take the least counterexample (`LeastNumber`).
`MapInv` then says that the stored map has its i-th shard at rows (i - 1) * `Height` to
i * `Height` - 1, under different ids, with the pairs of the inventory in either role, and
that the clients of a running coordinator cover it with pairs of their shards. Routing is
division by `Height` (`RowIsRouted`). The same invariant gives that `validateShardMap` accepts every stored
map, which is why `Start` and `InventoryContains` do not repeat it.

*Restarts.* `RestartInv`: the inventory contains the stored map, the flags accept its size
(`Fits`), and they will accept the size that is recommended, also when it is applied by a
later coordinator with another resolved policy. `IdsFollowRows` is needed: without it the
map that is built by id has other rows than the inventory (see above).

Only model-checked:

* the liveness properties `EpochEnds`, `AckedIsApplied`, `LeaseIsRecovered`,
  `EpochsAreDecided`, `RequestsEnd`, `DownActiveIsReplaced`: TLAPS does not reason about
  fairness.

Every safety property of a passing run is also proved.

## 5. Not modelled

* *Cryptography and proofs* (`prf/`, `prg/`, `mulproof/`, `db/encrypt.go`, `db/proof.go`): the
  models treat a share as valid or not present. Malformed uploads make handlers panic.
* *RPC transport, TLS keys, flags and start-up*: no protocol of their own. Flags
  appear as constants with the assumptions that their validation establishes.
* *Payload encoding* of SQS messages and the S3 objects; a worker that cannot read one
  is a failing job.
* *Restarts of a shard.* The tables live in memory and a restarted server loses them
  while the DynamoDB ledger remembers its commits; there is no recovery to model
  beyond the loss. `UploadRouting` has the restart as clients see it. In `Promotion` a
  stopped pair does not come back.
* *Admission semaphores and statistics*: they delay and count, and no decision reads
  them.
* *Code that is never called*: `SetAccepting`, the ingestion queue in `controlstore/`,
  the client's retry on overload (no server returns that error).
* *Autoscaler*: `-min-recommendation-epoch` and the mode without apply.
* *Scaling policy*: float64 densities; integer thresholds agree with them.
* *Shard*: a `Prepare` is one step although it works row by row. The barrier keeps
  dumps away from it except for calls left behind by a failed fan-out, and the
  properties about the contents of results are checked without failing calls. An error
  of `Receive` only delays a worker and is not an action; a stale first read of the
  DynamoDB ledger that answers "busy" is an instance of `LedgerBeginFails`.
* *Lease*: the length of the TTL and of the renew interval.
