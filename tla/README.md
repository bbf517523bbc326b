# A verification of Low-Latency-FaaS

Low-Latency-FaaS runs chains of network functions (NFs) as a service. A Go
controller starts *SGroups* (the instances of one chain, one Kubernetes pod per
NF) on workers, hands their threads to a scheduler in the worker's kernel
(*CooperativeSched*), assigns the flows a switch reports to SGroups, and moves
SGroups between CPU cores as their traffic comes and goes. This directory holds
TLA+ modules of the controller, the TLC runs that check them, and proofs for
TLAPS. Paths below are relative to `src/`.

## 1. Inventory

| Component | State | Operations | Hard behaviours | What makes it correct |
|---|---|---|---|---|
| **SGroup start-up and readiness barrier** (`controller/background.go`, `sgroup.go`, `worker.go`, `controller.go`) | `w.freeSGroups`, `w.sgroups`, `w.sgroupConns`, `w.sgroupTarget`, `insStartupPool`, the port pool; `sg.instances`, `isComplete`, `isReady`, `sg.mutex`; `ins.sg`, `ins.tid`, `ins.port` | `getFreeSGroup`, `createSGroup`, `createInstance`, `AppendInstance`, `destroySGroup`, `InstanceSetUp`, `preprocessBeforeReady` | creator and RPC handlers race for the last check; a barrier polled under a mutex the scheduler wants; a failing build undone while its pods may still report; lock-free appends | no wake-up lost; each SGroup crosses once, when all are up; a taken SGroup is ready or free again in the end |
| **Run time: CPU scheduler, cores, activity** (`schedule.go`, `core.go`, `sgroup.go`, `worker.go`, `load_balance.go`, `grpc/scheduler.go`) | `core.sGroups`; `sg.coreID`, `isReady`, `isActive`, `isSched`, `idleSampleCnt`; CooperativeSched's own table | `noPackingScheduleOnce`, `getIdleCore`, `attachSGroup`, `detachSGroup`, `SetActive`, `UpdateTrafficInfo` | activity changes in the middle of a visit; RPCs that fail, or time out after taking effect; core 1's list changed by several goroutines | no core but core 1 lists two SGroups; controller and CooperativeSched agree; idle SGroups get detached, active ones run |
| **Worker life cycle** (`worker.go`, `background.go`, `controller.go`) | the free list's backing pods, PCIe and port pools, `w.wg`, `w.op` | `createFreeSGroup` goroutines, CLI `CreateSGroup`/`DestroySGroup`, `Close` | CLI calls without `sgMutex`, destroy of a deployed SGroup, goroutines that outlive `Close`, `Close` waiting for the scheduler | a SGroup is free or deployed, never both; ports and PCIe indices are not shared; `Close` ends |
| **Index pool, instance pool** (`utils/index_pool.go`, `utils/min_heap.go`, `controller/pool.go`) | a heap of free indices; port to instance map | `GetNextAvailable`, `Free`; `add`, `remove`, `get` | exhaustion (`-1`), a double free | an index has one owner; the smallest free one is given |
| **DAGs and flowlets** (`dag.go`, `flowlet.go`) | `NFMap`, edges, `chains`, `isActive`, flowlets | `AddNF`, `ConnectNFs`, `Activate`, `AddFlow`, `Match` | indices at the boundary, cycles, several chains | `chains` is the path of the DAG; a flow is matched to a DAG that has it |
| **Flow assignment** (`load_balance.go`) | reads the above | `UpdateFlow`, `findAvailableSGroup`, `assignFlow` | test-then-act on activity; blocked by a SGroup at the barrier; a chain rebuilt while builders read it | a flow gets a SGroup of its DAG with its whole chain, active or being built; the call returns |
| **Measurement and shutdown** (`sys_measure.go`, `controller.go`) | logger state 0/1/2, snapshots | `RunFaaSLogger`, `StopFaaSLogger`, `GetUsageByDuration`, `Close` | a stop before the start; busy waits; workers that hang or fail while others end | a file shows its own test; nil means closed; `Close` returns |
| **Metron mode** (`metron.go`) | per-worker SGroup index, flow counters | `metronGetFreeSGroup`, `metronStartUp` | cores found and filled without a lock; a failing build that keeps its core; a poll that ends too early or on another's SGroup | a core per SGroup, one announcement of each, every scale-up ends |
| **Instance RPC and back-off** (`instance.go`, `utils/backoff.go`) | retry counter | `setBatch`, `setCycles`, `ForAttempt` | growth and cap of the delay; two users of one connection | all trials are made; the time a mutex is held is bounded |
| **gRPC, Kubernetes client, CLI, configuration** (`grpc/`, `kubectl/`, `cli/`, `main.go`, `utils/cluster_info.go`) | connections | marshalling, I/O, parsing | late and failing calls | appear as outcomes of the actions above |
| **OpenFlow handler** (`of_script/faas_flow_handler.py`) | `_flows`, `_flows_table_entries`, the switch's table | packet-in, UpdateFlow and its answer, time-outs | packets before the rule is in; an entry that timed out in the switch only; a failed UpdateFlow | a live flow gets a rule in the end, and one SGroup |
| **P4 switch controller** (`p4_script/`) | table entries | insert per reported flow | repeated reports | one entry per flow |
| **Traffic generators, profiling** (`bess_script/`, `profile.go`) | none | none | none | not modelled |

How they interact. A packet of an unknown flow makes the switch call
`UpdateFlow`. The controller picks a ready SGroup of the flow's DAG, or takes a
free SGroup and starts a `createSGroup` goroutine, which deploys pods through
Kubernetes. Each pod's NF reports its thread id by `InstanceSetUp`, keyed by its
host port. Creator and handlers both call `preprocessBeforeReady`; the one that
finds the chain complete joins the worker's barrier and, once all have joined,
registers the chain with CooperativeSched and makes the SGroup ready on core 1.
From then on `UpdateFlow` makes it active, traffic reports
(`UpdateTrafficInfo`) make it idle again, and the worker's scheduler goroutine,
every 100ms, attaches and detaches it by RPCs to CooperativeSched.

Locks: `w.sgMutex` protects the free and deployed lists and is held by a pass
of the scheduler from start to end; `sg.mutex` protects one SGroup and is held
by `preprocessBeforeReady` across its barrier and RPCs; `w.upMutex` protects the
barrier's list. The cores' lists and `dag.sgroups` have no lock.

## 2. Plan

Ordered by importance; each module is parameterised and written without
`RECURSIVE` where a proof is intended. (The loops of `IndexPool` and the delays
of `InstanceRpc` are recursive functions on the natural numbers, so that modules
with theorems may use them.)

| # | Module(s) | Status | Runs | Theorems |
|---|---|---|---|---|
| 1 | `ReadinessBarrier` (abstract), `SGroupStartup`, `MCSGroupStartup`, `SGroupStartupProofs` | done | `StartupSafety`, `StartupLive`, `StaleTid`, `LostAppend` | all its safety invariants, and the refinement |
| 2 | `CoreSched`, `MCCoreSched`, `CoreSchedProofs` | done but for the command line's attach and detach, which run beside a pass, and the schedulers the loop does not call | `SchedSafety`, `SchedLive`, `PackedActive`, `BusyIdleCore` | all its safety invariants |
| 3 | `WorkerLifecycle`, `MCWorkerLifecycle`, `WorkerLifecycleProofs`, with 4 | done | `Lifecycle` | all its safety invariants, and the refinement of `SetPool` |
| 4 | `SetPool` (abstract), `IndexPool` (the heap), `IndexPoolProofs` | done, as operators of 3 | `Lifecycle` (`PCIePool`) | `GetTakesLeast`, `FreeAdds`; the rest with 3 |
| 5 | `Dag` | done, as operators of 7 | `FlowAssign` | with 7 |
| 6 | `ControllerClose`, `MCControllerClose`, `ControllerCloseProofs`: the logger with the controller's `Close` | done | `Close` | all its safety invariants |
| 7 | `FlowAssign`, `MCFlowAssign`, `FlowAssignProofs`: flow handler, `UpdateFlow`, DAG activation, commands | done | `FlowAssign` | all its safety invariants |
| 8 | `Metron`, `InstanceRpc`, `MCMetron`, `MetronProofs` | done | `Metron` | all its safety invariants |
| 9 | back-off | done, in `InstanceRpc` | `Metron` (`HoldBound`) | with 8 |

`ListLemmas` holds what the proofs share: lists without duplicates and their
lengths, the states of a loop, and the induction it takes.

What is left, in this order: the command line's `attach` and `detach` beside the
scheduler's pass in `CoreSched`, and what becomes of its invariants then; a
history variable for consecutive idle samples; the boundary index of
`connectNFs` and the limit of pending SGroups, as properties.

## 3. The modules and the code

### SGroupStartup

The processes are one creator goroutine per SGroup (`createSGroup`, started by
`UpdateFlow`), one `InstanceSetUp` handler per pod, and the worker's scheduler
goroutine, of which only the locking matters here. `pc` says where each is.

| Code | Actions |
|---|---|
| `getFreeSGroup`, then `createSGroup` (`UpdateFlow` in a goroutine, `ActivateDAG` one after the other) | `GetFreeSGroup` |
| `createInstance`, once per NF | `CreateDeployment` or `FailDeployment`, `PoolAdd` |
| `AppendInstance` | `AppendInstance` |
| the error path: `destroySGroup` | `Reset`, `PutBack` |
| the rest of `createSGroup` | `Deploy`, `Complete` |
| `InstanceSetUp` | `InstanceSetUp` (look-up and tid), `ReadSg` |
| `preprocessBeforeReady` | `Lock`, `Check`, `Connect`, `PassBarrier`, `SetReady` |
| a pass of the scheduler | `BeginPass`, `Visit`, `EndPass` |

A step ends where another goroutine can see the difference: at each lock and
unlock, and between reading and storing a slice that has no lock (`dag.sgroups`,
core 1's list: `snapshot` is the copy). `isComplete`, `tid` and `ins.sg` are
read and written without `sg.mutex` by the code, so they change in steps of
their own. `handled` is the handler's local `ins`: a handler works on the
instance it looked up even if the port has a new owner since.

Abstractions: a tid is the pod that sent it. Errors of `SetupChain` and
`AttachChain` are only logged, so they do not appear here (they do in
`CoreSched`). `sgMutex` is held across steps by the scheduler only; a section
of other code that takes it and gives it back at once is one step, enabled
when it is free. The manager pod that holds a free SGroup's PCIe device is not
modelled: free SGroups exist from the start. `DeleteDeployment` does not wait
for the pod to be gone, so a pod may report after its SGroup was reset. The
pods of the instance bound how often builds can be repeated.

### ReadinessBarrier

What the start-up promises without pods, threads or locks: SGroups are free,
being built, deployed, or released; one is released when all deployed are up.
`SGroupStartup` implements it under `phase <- Phase`, `up <- deployed and all
tids known` (`ImplementsBarrier`).

### CoreSched

The scheduler goroutine walks `w.sgroups`; `pc`, `pos`, `job`, `target` are its
place in `noPackingScheduleOnce` and `attachSGroup`. `Leave`, `Park` and `Run`
are the outcomes of a visit's tests; `RemoveSGroup` to `DetachChain` are the
steps of attaching and detaching, in the code's order, an error ending the
visit where it ends the code's. `stage` is where `preprocessBeforeReady` of each
SGroup is, from the moment it found the chain complete and up (`Join`): the
barrier (`AllConnected`, `Release`), then what `SGroupStartup` leaves out,
`SetupChain`, `AttachChain` to core 1, the list of core 1, readiness. From
`Join` to the end it has `sg.mutex` (`Locked`), so that a pass that comes to the
SGroup waits with `sgMutex`, at a shut barrier too. `known` and `running` are
CooperativeSched's state (a program outside this repository, modelled from its
RPCs): which chains it has, and on which core it runs each.

An RPC succeeds, is refused (the chain is unknown), is `lost`, or is `late`: it
takes effect and the caller sees a time-out (the clients use a deadline of one
second); `overdue` is a history variable, the SGroups whose last placement was
such a call. `FindInactive` and `SetActive` are the two steps of `UpdateFlow` on a
ready SGroup; `UpdateTrafficInfo` is a report of the egress instance, with or
without traffic and queued packets.

`getIdleCore` ranges over a Go map, so it may return any core with an empty
list, and core 1 is among them. The lists of the other cores are changed by the
scheduler only; core 1's list is read and stored in two steps, since the
goroutines of start-up append to it without a lock.

`idleSampleCnt` stops at `MIN_IDLE_DURATION` in the model; in the code it grows,
but it is only compared with that number.

### WorkerLifecycle, IndexPool, SetPool

One worker from `NewFaaSController` to the end of `Worker.Close`. `creator`,
`builder` and `destroyer` say where the goroutines of each SGroup are, `main`
where the command line is, from the two FREE_SGROUP messages of
`createAllFreeSGroups` to the last wait of `Close`.

| Code | Actions |
|---|---|
| `RunFreeSGroupFactory` | `Factory` |
| `createFreeSGroup` | `StartFreeSGroup`, `NewSGroup`, `AppendFreeSGroup` |
| `UpdateFlow`, `createSGroup` | `TakeFreeSGroup`, `CreateNF`, `DestroySGroup` after a failure, `ListSGroup`, `Complete` |
| `InstanceSetUp`, `preprocessBeforeReady` | `InstanceSetUp`, `Preprocess`, `LeaveBarrier` |
| `ScheduleLoop`, as far as it takes locks | `SchedulerStep`, `VisitNext` |
| `NewWorker`, `createSched` | `CreateAllFreeSGroups`, `CreateSched` |
| `Worker.Close` | `Quit`, `KillSched`, `DestroyAllSGroups`, `DestroyAllFreeSGroups` |
| `destroyFreeSGroup` | `DeleteManager`, `FreeIndex` |

A Kubernetes call succeeds (`Created`, `Deleted`), is refused, or takes effect
although its answer is lost: `CreateDeployment` then retries against its own
deployment, gets AlreadyExists for 20 s and fails. `GetPodStatusByName` answers
"NotExist" for a failed List too. The poll of `destroyFreeSGroup` ends when
the pod is gone or after 20 s (`impatient`).

`IndexPool` is `utils/index_pool.go` and `container/heap` as operators on a
sequence: sift up, sift down, and the linear `Contain` before `Free`. A loop is
the function of the number of rounds it has made (`UpRounds`, `DownRounds`), a
round that finds it over changes nothing, and it is read after as many rounds as
it can need. The worker's `pciePool` is one; `PCIePool` says that the pool and
its users together are a `SetPool`. A chain has one NF here, and the host ports, which
`SGroupStartup` has, are left out.

### ControllerClose

`FaaSController.Close` (a goroutine per worker and one for `StopFaaSLogger`;
`Select` returns at the first error, then `os.Exit`), and the logger.
`LogSample` is the body of its loop after a snapshot that asked the workers one
by one (`AskWorker`, each under the worker's `sgMutex`), `EndPeriod` the pause
with the acknowledgement of a stop. The store keeps one bit per sample, whether
it had traffic; durations and core usages are the number of the test they were
computed in, which is all "metrics of its own test" needs. `Worker.Close` is
`CloseWorker`: it may hold the mutex, for ever too, and may fail, as
`WorkerLifecycle` shows it can.

### Dag, FlowAssign

`Dag` has the operations of `dag.go` and `flowlet.go` on records. `Activate`
is several steps of `FlowAssign`, `BeginActivate` (clears the chains), a
`WalkOn` per NF of the walk and `EndActivate`, because builders range over
`dag.chains` without a lock meanwhile; `ReadChain` may therefore see any prefix.

`FlowAssign` follows a packet: `PacketIn` (`handle_ipv4_pkt`, whose `known` and
`entry` are `_flows` and `_flows_table_entries`), `UpdateFlow` in two steps
(`MatchDAG` or `Background`, then `FindAvailableSGroup` or `ScaleUp`, with a
wait for the mutex of a SGroup at the barrier between), `Answer` and `Install`.
`ExpireRule` is the switch's idle time-out, `Age` the handler's, `Reconnect`
the rules lost with the connection. Beside it run the commands of the command
line (`Exp`, `DeployNF`, `ConnectNFs`, `Activate`, `AddRead` and `AddTake`,
`DestroySGroup`, `FlowCommand`) and the starters of `ActivateDAG` (`Spawn`,
`Starter`). `createSGroup` and the barrier are those of `SGroupStartup` cut down
to what flows and commands see.

The free list is Go's: a backing array and a length (`freeArray`, `freeLen`),
since `append` to a shortened slice overwrites what another process may have
read. `byHand` becomes true when `rm` put a deployed SGroup in the free list, or
an `add` was overtaken between reading the list and shortening it; nothing is
explored beyond, since the code then breaks what every property rests on
(section 7).

### Metron, InstanceRpc

`InstanceRpc` is an instance's `connect`, `setCycles` and `setBatch`, a trial
a step: it succeeds or fails, and a failure waits for the back-off. Its users
are `preprocessBeforeReady` (under `sg.mutex`) and the commands (under
`w.sgMutex`): no lock keeps them apart, and a failed connect stores nil for
both. `waited` adds up the longest delays and time-outs, in tenths of a second;
the delay (`ForAttempt`) doubles with each attempt (`Grown`) up to `MaxDelay`, and
`Delays` is the sum of the first ones.

`Metron` composes it with the option "metron": `UpdatePort` lists the port's
worker's SGroups, `LookAt` takes them one by one, `ChooseWorker`, `FindCore`,
`AddToCore` and `CreateSGroup` start one more, `Announce` or `StopPolling` end
the poll. `FindCore` and `AddToCore` are two steps because the code takes no
lock for them. Loads are a choice. Announcing is a counter; the messages to the
OpenFlow controller end there.

## 4. Runs

| Run | Question | Instance | Result |
|---|---|---|---|
| `StartupSafety` | is the barrier safe, is no last check lost, is a failed build undone? | 2 SGroups with chains of 2 NFs and 1, 3 pods, 3 ports, one failing deployment, repeated reports; 1.2M states | pass |
| `StartupLive` | does a taken SGroup always get ready or free again; is the start-up a `ReadinessBarrier`? | 2 SGroups with one NF, 2 pods, one failing deployment; 105K states | pass |
| `StaleTid` | is the tid of a ready SGroup's instance its own? | as `StartupSafety` | violated |
| `LostAppend` | is every ready SGroup in core 1's list? | 2 SGroups with one NF, no failure | violated |
| `SchedSafety` | does anything pack a core; do the two views agree? | 2 SGroups, 3 cores, 1 flow handler, two samples to idle, queue reports, two failing calls of either kind, also during start-up; 603K states, symmetry | pass |
| `SchedLive` | is an idle SGroup detached and an active one run, in the end? | 3 SGroups, deployed in one order, 2 cores, one call lost or answered late; 722K states | pass |
| `PackedActive` | is an active SGroup alone on its core? | 2 SGroups, 3 cores, no failure | violated |
| `BusyIdleCore` | does a core `getIdleCore` returns run nothing? | 2 SGroups, 3 cores, one lost call | violated |
| `Lifecycle` | has a SGroup or PCIe device two owners; what does `Close` leave behind; does it return? | 2 SGroups, 3 devices, one Kubernetes call that fails or loses its answer; 120K states | pass |
| `Close` | do files hold their own test; does nil mean closed; does `Close` return? | 2 workers, 2 tests, 2 idle samples to end one, metrics from 3 samples on; 36K states | pass |
| `FlowAssign` | is a SGroup given out twice; does a rule point to the flow's chain; do calls and flows end well? | 1 worker, 2 SGroups, one `exp` flow and one typed background flow, 2 commands, one failing build or reconnection; 143K states | pass |
| `Metron` | do SGroups share a core; is a ready one announced once; are trials and waits bounded; do scale-ups end? | 2 workers with 2 SGroups and 1, one start-up, one handler with 2 reports, 2 trials to connect and 1 to call, 2 failing trials, one command, one failing build; 192K states | pass |

The properties are next to their comments at the end of each module.

**Why the bounds are enough.** Two SGroups are what every race here takes: one
that waits at the barrier and one that is created or visited meanwhile, two
appends, two chains on one core. A chain of two NFs makes a reset free some
ports and keep others, and makes "all tids known" more than one report; three
pods allow a failed build and a rebuild on the same port. One failing deployment
(`MaxFailures`) reaches the error path after the first or the second NF.
`RepeatReports` lets a pod report again at any time. Three cores are core 1
and two to choose from, so that a core can be reserved while another is freed;
two failing calls (`MaxFaults`) allow one on the way to a core and one on the
way back; `MIN_IDLE_DURATION` 2 makes the counter matter. `SchedLive` needs
three SGroups, one that waits at the barrier for a second one while the pass
should serve a third, and two cores, so that the worker runs out of them when
one SGroup runs and another is parked: without any one of the exceptions of
`IdleIsDetached` and `ActiveRuns` TLC finds a counterexample in this instance.
Its SGroups are deployed in one order (`InOrder`): the others are the same up to
names, and no fairness speaks of deployment. `StartupMayFail` is false there,
since a chain CooperativeSched never learned of would never run: the code logs
the error of `SetupChain` and does not retry. Symmetry is used in `SchedSafety`
alone, which checks invariants.

`Lifecycle`: three devices give the heap an element to sift; two SGroups can be
created, built and destroyed at once, and a freed index can be reused while
the old pod is still there. `Close`: two tests are one to be stale and one to
show it; with 2 idle samples and 3 for metrics a test can be too short, just
long enough, or interrupted by one idle sample. `FlowAssign`: with two SGroups a
flow finds one ready or being built while the other is taken; two commands
activate a DAG and change it, or make a second one (that of `add`). Two users
multiply the states and add only commands on the other's DAG. `Metron`: the
start-up and the handler are the two processes that can race for a core, a
SGroup or an announcement; worker 1 has a second SGroup and core, worker 2 is
the other choice; the RPCs of one SGroup (`Detailed`) are followed trial by
trial, those of the others end at once. A failing trial and a last one differ
with two trials to connect; with one to call the first failure is the last.

**Deadlock** is checked in the runs of the start-up and of the scheduler.
(In the start-up model the scheduler always has a pass to take, once a SGroup is
deployed; before that some SGroup is free or being built.) The other four
models stop where the program does: after `os.Exit` in `Lifecycle` and
`Close`, after the nil pointer in `Metron`; and `FlowAssign` and `Metron` when
the bounded commands, reports and failures are used up.

## 5. Fairness

`SGroupStartup`: goroutines are scheduled by Go, and a waiter on a `sync.Mutex`
is not starved, since the mutex turns to first-in first-out hand-off after one
millisecond: strong fairness on the steps that wait for a lock. The barrier is
polled with a pause, and a poll may miss an instant at which it is open: weak
fairness only. A pod whose tid is unknown reports in the end (Kubernetes
restarts it). Nothing is assumed of flows.

`CoreSched`: weak fairness for the scheduler, the goroutines that make SGroups
ready, whose poll of the barrier sees it open if it stays open, and the second
step of `UpdateFlow`. A visit is disabled while the SGroup's mutex is held, and
fairness gives it nothing then. Pods need not report (`Join` is not fair), so
the barrier may stay shut and the pass wait in front of it for ever:
`BarrierShut` is an exception of both liveness properties, and once the barrier
stays open each mutex is released for good. Calls fail finitely often. Nothing is
assumed of flows and reports, so both properties speak of SGroups that stay
idle, or active. `ActiveRuns` has one more exception, a worker that is out of
cores again and again when it comes to the SGroup (`OutOfCores`): the code
leaves the SGroup to the next pass, and takes no core from another.

`WorkerLifecycle` and `ControllerClose`: weak fairness for each goroutine.
Nothing is assumed of the user, of new flows, of pods that report or end; in
`ControllerClose` a worker whose clean-up has its mutex may keep it for ever.
`CloseReturns` therefore names the hangs the code has, as conditions that stay
true from some point on: a SGroup at a shut barrier, a worker that keeps its
mutex, a sample that waits for it, a logger that started after the request to
stop and overwrote it.

`FlowAssign`: weak fairness for goroutines, commands under way, reports and the
passing of time; strong fairness for packets, since the handler is busy with
other flows now and then while packets keep coming.

`Metron`: weak fairness for calls under way and strong for a scale-up, which
competes with a command for the worker's mutex. Pods need not report: the poll
ends after 20 s.

## 6. Proofs

`tlapm` proves, from the named assumptions (`ConstAssumption`, in `Metron`
`MetronAssumption` and `RpcAssumption`: finite disjoint sets, positive bounds,
and in `Metron` and `FlowAssign` that each SGroup is in one worker's free list
once):

| Theorem | Property |
|---|---|
| `SGroupStartupProofs!TypeCorrect` | `TypeOK` |
| `MutualExclusion` | `LockedPreprocess` |
| `JoinsOnce` | `JoinsBarrierOnce` |
| `BarrierSafe` | `BarrierOpensWhenAllUp` |
| `FreeClean` | `FreeIsClean` |
| `NoLostReadinessHolds` | `NoLostReadiness` |
| `SGroupStartupProofs!Implements` | `ImplementsBarrier` |
| `CoreSchedProofs!TypeCorrect` | `TypeOK` |
| `NothingPacked` | `NoPacking` |
| `SameView` | `ViewsAgree` |
| `Exclusive` | `ExclusiveUnlessFailed` |
| `WorkerLifecycleProofs!OneHolder` | `OnePlace` |
| `WorkerLifecycleProofs!TypeCorrect` | `TypeOK` |
| `OneManagerPerDevice` | `DeviceHasOneManager` |
| `ClosesClean` | `CleanClose` |
| `PoolIsAbstractPool` | `PCIePool` |
| `IndexPoolProofs!GetTakesLeast` | (what `GetNextAvailable` does) |
| `IndexPoolProofs!FreeAdds` | (what `Free` does) |
| `ControllerCloseProofs!TypeCorrect` | `TypeOK` |
| `CutIsExact` | `FileIsTheTest` |
| `OwnMetrics` | `FileHasOwnMetrics` |
| `NilMeansDone` | `CloseNil` |
| `FlowAssignProofs!TypeCorrect` | `TypeOK` |
| `SGroupHasOneOwner` | `OneOwner` |
| `RuleLeadsToItsDAG` | `RuleServes` |
| `ChainIsWhole` | `WholeChain` |
| `MetronProofs!EnoughTrials` | `RetriesEnough` |
| `CoresApart` | `CoreExclusive` |
| `ToldOnce` | `AnnouncedOnce` |
| `HoldIsBounded` | `HoldBound` |
| `CrashesAfterFailures` | `CrashNeedsFailures` |
| `MetronProofs!TypeCorrect` | `TypeOK` |

**The start-up.** `IInv` has four parts, each needed by the next. `LocalInv`
types the processes' locals (a process in `preprocessBeforeReady` has an
instance with a SGroup). `LockedPreprocess` gives one process per SGroup
between check and return. `BuildInv` ties a creator's place to the SGroup: free
means taken by nobody, complete means deployed with the whole chain. `ConnInv`
says that the SGroups in `sgroupConns` are those that are ready or with a
process at the barrier, listed once, complete and up, and that a process past
the check deals with one that is complete, up and not yet ready. Then
`BarrierSafe` is counting: the list has no duplicate, so its length is the
cardinality of a subset of the deployed SGroups, whose cardinality the target
is; equal counts mean equal sets. `NoLostReadiness` needs one more invariant,
`ChainInv`: each instance of a SGroup has it as its `ins.sg`. So the handler
that stores the last tid of a complete chain finds the SGroup in `ins.sg`, and
the creator, which sets `isComplete`, checks afterwards; and for each step that
could take away the last witness the proof looks at what it does instead:
`Check` returns early only if the SGroup is not complete, not up or ready.

**The refinement.** A SGroup's phase follows from three facts that exclude
each other (`Phases`): released (ready, or a process past the barrier has it),
deployed, free, and building otherwise. Each action keeps two of them for all
SGroups and moves the third for one, or moves nothing and is a stutter. The two
steps that need more are a report that completes a chain, where `ChainInv` makes
the SGroup that comes up the one of the instance, and `PassBarrier`, where
`OpensWhenAllUp` says that all deployed SGroups are up.

**The scheduler.** `PlaceInv` is inductive and holds whatever calls fail: only
a SGroup that is ready has a core (`ReadyInv`); while the pass is on its way to
a core other than 1 that core's list stays empty, and after the removal the
SGroup is in no list but core 1's (`ReservedInv`). Both are needed for
`NoPacking`: the addition makes a list of one, and the SGroup's new id makes no
other list wrong. `RunInv` speaks of the time before the first failure: chains
are known once set up, those starting run on core 1, the SGroup being added
runs where it is added (`StartInv`); the views agree (`AgreeInv`); a chain on a
core other than 1 is in its list or is being moved (`ListedInv`). Two chains on
one such core would both be in its list, against `NoPacking`.

**The life cycle.** `OnePlace` is not inductive: a builder that gives a SGroup
back must know that nobody destroys it. `ListsInv` says that the two lists are
without duplicates and disjoint, `ListedInv` that a listed SGroup is made, is
not being destroyed and its builder has listed it, `HandsInv` that who builds or
destroys a SGroup found it made and that a builder that has not listed it yet
is alone with it. The other theorems each add a part. `LoopInv` counts: the two
FREE_SGROUP messages that were not read stand for the SGroups not made yet, so
no more than two SGroups ever exist, and a pool of at least two indices is not
empty when a creator asks (`NeverEmpty`). `PoolInv` has every index in the pool or with
one SGroup, and `IndexInv` says from when to when a SGroup has one; with the
heap's theorems they make each step of the worker a step of `SetPool` or a
stutter. `PodsInv` says which pods must exist, `DeviceInv` that, while no call
failed and nobody lost patience, a manager's pod runs under an index that its
SGroup still has; two pods with one device would be two SGroups with one index.
For `CleanClose`, `CleanInv` follows, while no call failed, each SGroup that was
made, its pods and its index to the list or the goroutine that has to delete
them, and `Joined` says that `Close` has waited for the destroyers; what is left
is still listed or in the hands of a goroutine `Close` did not wait for
(`Missed`).

**The heap.** A heap that is sifted is an induction. tlapm cannot use the
library's induction theorems, which take a predicate; `ListLemmas!Induction`
takes the set of the numbers at which the statement holds instead, and rests on
the least number outside of it (`LeastNumber`, from the well-foundedness of the
order on the natural numbers). `LoopExists` gives the states of a loop from
those of its rounds. In a round of `HeapUp` or `HeapDown` the slice keeps its
numbers (`SwapKeeps`) and its order but for one element, which moves towards
the root, or the leaves (`UpRoundKeeps`, `DownRoundKeeps`); so it stops in the
rounds allowed, and then the order is whole. In a heap the first element is the
least (`RootIsLeast`), which is what a pop takes.

**The logger.** `FileIsTheTest` needs to know where the idle tail of an open
test begins: `TestInv` says that its first sample had traffic and so had the
one just before the last `idleCounter` samples. Cutting `IdleSamples` off then
leaves the test. `CloseNil` rests on `StopInv`: the logger acknowledges, and
`StopFaaSLogger` returns, only when the logger has returned.

**Flows.** `IInv` has the types, and until something is removed by hand five
parts (`Kept`). `OwnInv` says where a SGroup is: below the length of its
worker's free list, in `w.sgroups`, or with one process; nowhere twice. A step
takes the last of the list, writes behind it, or appends to `w.sgroups`, and
`OwnTake`, `OwnPut` and `OwnDeploy` say that each moves one SGroup. `BuildInv`
orders deployment, linking and readiness: a process at `link` is the one that
deployed the SGroup, no other works on it, and a SGroup in a DAG is complete.
`CountInv` makes the barrier's counters cardinalities, so that `conns` cannot
exceed `target` (`TypeOK`). `ChainInv` is about time: a DAG that was not
activated again has its whole chain from the moment it is active, everyone who
builds for it found it active, so what he has read is the chain for good, and
`append` to the empty list of a SGroup that was not deployed gives that chain.
`RuleInv` follows a rule's SGroup from the scan that found it, or the process
that builds it, to the DAG (`ServesStay`): who links a SGroup is, by `OwnInv` and
`LinkInv`, the process the rule relied on.

**Metron.** `RpcInv`: for an instance only one user calls, each trial so far
was a failure, so that running out of trials takes as many; a second user's
failed connect is what breaks this, and is noted in `shared`. `OwnInv`: a SGroup
is free, in the hands of one process, or deployed. `CoreInv`: unless two
processes were at a core at once, the core about to be filled is empty and
reserved for one process, and a SGroup with a core is in that core's list.
`ReadyInv` and `OnceInv` order set-up, readiness and announcement, and say
that, unless a build failed, the process that polls a SGroup is the one that
took it. `HoldInv` (for `HoldBound`) says that, while no command uses an
instance too, the counter of its back-off is the number of the trial, so that
the mutex was held for the trials' time-outs and the delays between them;
`DelaySums` and `DelaysGrow` add those up by induction. `UsedInv` counts: a core
in use has a SGroup that is pinned, or a build has failed; when no core is
left the SGroup that needs one is not pinned, so that a crash takes more failed
builds than the worker has cores beyond its SGroups. For the types, `MoreTypes`
has the deployed lists without duplicates too: their lengths are numbers of
different SGroups, and there are finitely many of those, since each is in one
worker's first list (`FewSGroups`).

**Model-checked only.** Liveness (`TakenIsReadyOrFree`, `IdleIsDetached`,
`ActiveRuns`, `CloseReturns` of both modules, `UpdateFlowReturns`,
`FlowRecovers`, `ScaleUpEnds`), which is beyond the proof system: it rests on
fairness, that is on ENABLED. Every invariant and the two refinements the
passing runs check are proved.

## 7. Where code and comments disagree

Four runs end in a counterexample to what a comment of the code says; the
entries under "findings" in `PROJECT.json` quote them.

* `StaleTid`: a pod of a failed build reports late, by a port that has a new
  owner, which gets the stranger's tid and may make its SGroup ready.
* `LostAppend`: two goroutines leave the barrier and append to core 1's list at
  the same time; one SGroup is lost from it. (Its coreID is still 1, so the
  placement on the other cores does not suffer: `NoPacking` holds.)
* `PackedActive`: a SGroup made active between its readiness and its first
  visit is "scheduled" already, on core 1, and stays there.
* `BusyIdleCore`: after a lost `AttachChain` the controller has forgotten the
  core on which the chain still runs, and offers it as idle.

The other modules state their properties with the exceptions the code has. Met
on the way, each at an action or a condition of a property:

* Life cycle. A creation whose answer is lost leaves a pod nobody knows
  (`kubectl/deploy.go:342-363`; `CleanClose` speaks of runs without it).
  Creators and builders are not waited for, so what they make during `Close`
  stays (`Missed`). `Close` resets a SGroup that still has to join the barrier,
  which is then shut for ever (`AtShutBarrier`). Fewer PCIe devices than the two
  SGroups made at the start give the index -1 (`ConstAssumption` excludes it).
* Shutdown. `Close` returns at the first error while other workers are still
  being cleaned; a second failing worker's goroutine stays at the unbuffered
  channel. A logger that first runs after `StopFaaSLogger` overwrites the
  request (`StopLost`). A test too short for metrics is written with the
  duration of an earlier one (`FileHasOwnMetrics`).
* Run time. A late answer can leave `isSched` wrong for good (`Misled`): an
  attachment that took effect, of a SGroup that turns idle before the next pass,
  runs on, since the pass detaches only what is scheduled; a detachment, of one
  that turns active again, is never attached. While a SGroup waits at the barrier
  the pass waits too, and no other SGroup of the worker is attached or detached
  (`BarrierShut`).
* Flows and commands. `rm` is documented to remove a free SGroup
  (`DestroySGroup`), but finds only deployed ones and leaves them in
  `w.sgroups`, the DAG and the barrier's target with `isReady` set: the next use
  of the SGroup never joins, and the barrier is shut. `add` of a chain of
  several NFs never works. `ActivateDAG` ignores the error of `Activate` and
  starts SGroups of an empty or old chain (`WholeChain`). A flow whose first
  `UpdateFlow` fails is ignored for ever (`FlowRecovers`). A failed build
  leaves the rules that point to its SGroup (`RuleServes`). An index one too
  large passes `connectNFs`, and a cycle keeps `Activate` from returning.
* Metron. A failing build leaves its SGroup in a core's list, so cores run out
  and a nil SGroup is read (`CrashNeedsFailures`); it also leaves two processes
  polling one SGroup (`AnnouncedOnce`). With one worker the search for another
  one does not end (`MetronAssumption` excludes it). The commands use an
  instance under a lock other than the one `instance.go:12-14` asks for.

## 8. Not modelled

`PROJECT.json` lists every component with its status. Left out for good: gRPC
marshalling and the Redis client, deployment specifications and the printing of
lists, CLI parsing, the cluster file, ICMP and ARP in the flow handler, the P4
switch controller (an alternative with a table of its own, on which the
controller does not rely), traffic generators and profiles. Nothing calls
`SGroupPool`, `InstancePool.remove`, `findAvailableSGroup`, the instances'
statistics RPCs and the schedulers other than `noPackingScheduleOnce`.

In `CoreSched` and `FlowAssign` the arithmetic of load and batch sizes is left
out: it changes no placement, and the choice among ready SGroups is any of
them. The command line's `attach` and `detach`, which call the same functions
beside a pass, are left to extend `CoreSched`. In `Metron` the identity of
SGroups at the OpenFlow controller (the PCIe index, which two workers may both
have) and `Worker.Close` are left out. In `FlowAssign` at most a few commands
are typed, and nothing after a `rm` or an overtaken `add` is explored. The limit
of 20 pending SGroups of `ActivateDAG` is not reached by its instances.
