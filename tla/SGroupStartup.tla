---------------------------- MODULE SGroupStartup ----------------------------
(***************************************************************************)
(* The start-up of SGroups on one worker (controller/background.go         *)
(* createSGroup, controller/worker.go, controller/sgroup.go                *)
(* preprocessBeforeReady, controller/controller.go InstanceSetUp).         *)
(*                                                                         *)
(* UpdateFlow takes a free SGroup and starts a goroutine that creates one  *)
(* pod per NF of the chain; ActivateDAG takes them all, one after the      *)
(* other.  Each pod, once up, calls InstanceSetUp to report the thread id  *)
(* of its NF.  The SGroup becomes ready in                                 *)
(* preprocessBeforeReady, which the creator and every InstanceSetUp        *)
(* handler call: under the SGroup's mutex, the first caller to see the     *)
(* chain complete and every tid known joins a barrier over all the         *)
(* SGroups of the worker, then hands the chain to CooperativeSched.  The   *)
(* scheduler goroutine meanwhile holds the worker's sgMutex while it       *)
(* visits each SGroup under that SGroup's mutex.                           *)
(*                                                                         *)
(* Processes: one creator per SGroup (a SGroup has one, since it is taken  *)
(* out of the free list), one InstanceSetUp handler per pod (the pod has   *)
(* at most one call outstanding) and the scheduler goroutine.              *)
(***************************************************************************)
EXTENDS Naturals, Sequences, FiniteSets, Functions

CONSTANTS
    SGroups,      \* the SGroups of the worker
    Pods,         \* pods (and their Instance objects) that may be created
    Ports,        \* host ports of instancePortPool
    ChainLen,     \* number of NFs of the chain each SGroup is built for
    MaxFailures,  \* bound: how often CreateDeployment may fail
    RepeatReports, \* bound: whether pods whose tid is known report again
    Scheduler,    \* the worker's scheduler goroutine
    None          \* nil, an unset tid, an unlocked mutex

Procs == SGroups \cup Pods

ASSUME ConstAssumption ==
    /\ IsFiniteSet(SGroups) /\ IsFiniteSet(Pods)
    /\ SGroups \cap Pods = {}
    /\ Scheduler \notin Procs
    /\ None \notin Procs \cup Ports \cup {Scheduler}
    /\ Ports \subseteq Nat
    /\ ChainLen \in [SGroups -> Nat \ {0}]
    /\ MaxFailures \in Nat
    /\ RepeatReports \in BOOLEAN

VARIABLES
    freeSGroups,     \* w.freeSGroups
    sgroups,         \* w.sgroups
    sgroupConns,     \* w.sgroupConns, the SGroups that joined the barrier
    sgroupTarget,    \* w.sgroupTarget
    sgMutex,         \* the holder of w.sgMutex across steps
    scan,            \* the SGroups the scheduler's pass has yet to visit
    usedPorts,       \* the ports taken from w.instancePortPool
    insStartupPool,  \* w.insStartupPool: port -> instance
    created,         \* pods whose deployment was created
    failures,        \* CreateDeployment calls that failed
    port,            \* ins.port
    insSg,           \* ins.sg
    tid,             \* ins.tid: the pod that sent it
    fresh,           \* creator's local |ins|, not yet appended
    instances,       \* sg.instances
    isComplete,      \* sg.isComplete
    isReady,         \* sg.isReady
    sgLock,          \* the holder of sg.mutex across steps
    dagSGroups,      \* dag.sgroups
    idleCore,        \* w.cores[1].sGroups
    snapshot,        \* a goroutine's copy of a list it is appending to
    handled,         \* a handler's local |ins|
    pc               \* where each process is

poolVars   == <<usedPorts, insStartupPool, created, failures, port, fresh>>
workerVars == <<freeSGroups, sgroups, sgroupConns, sgroupTarget>>
schedVars  == <<sgMutex, scan>>
listVars   == <<dagSGroups, idleCore, snapshot>>
sgVars     == <<instances, isComplete, isReady>>
insVars    == <<insSg, tid, handled>>
vars == <<poolVars, workerVars, schedVars, listVars, sgVars, insVars, sgLock, pc>>

-----------------------------------------------------------------------------
Init ==
    /\ freeSGroups = SGroups
    /\ sgroups = {} /\ sgroupConns = <<>> /\ sgroupTarget = 0
    /\ sgMutex = None /\ scan = {}
    /\ usedPorts = {} /\ created = {} /\ failures = 0
    /\ insStartupPool = [n \in Ports |-> None]
    /\ port = [p \in Pods |-> None]
    /\ insSg = [p \in Pods |-> None]
    /\ tid = [p \in Pods |-> None]
    /\ handled = [p \in Pods |-> None]
    /\ fresh = [g \in SGroups |-> None]
    /\ instances = [g \in SGroups |-> <<>>]
    /\ isComplete = [g \in SGroups |-> FALSE]
    /\ isReady = [g \in SGroups |-> FALSE]
    /\ sgLock = [g \in SGroups |-> None]
    /\ dagSGroups = {} /\ idleCore = {}
    /\ snapshot = [q \in Procs |-> {}]
    /\ pc = [q \in Procs |-> "none"]

Goto(q, label) == pc' = [pc EXCEPT ![q] = label]

\* The goroutine of process q ends: the creator's, or the handler's, which
\* answers its call.
Return(q) ==
    /\ Goto(q, IF q \in SGroups THEN "done" ELSE "none")
    /\ handled' = [p \in Pods |-> IF p = q THEN None ELSE handled[p]]

\* The SGroup whose preprocessBeforeReady process q is in.
SgOf(q) == IF q \in SGroups THEN q ELSE insSg[handled[q]]

-----------------------------------------------------------------------------
(* The creator of SGroup g. *)

\* UpdateFlow: getFreeSGroup under sgMutex, then go createSGroup.  ActivateDAG
\* does the same, in an order and at times of its own.
GetFreeSGroup(g) ==
    /\ pc[g] = "none" /\ sgMutex = None
    /\ g \in freeSGroups
    /\ freeSGroups' = freeSGroups \ {g}
    /\ Goto(g, "create")
    /\ UNCHANGED <<sgroups, sgroupConns, sgroupTarget, poolVars, schedVars,
                   listVars, sgVars, insVars, sgLock>>

\* Pods differ only by name: any one not created yet stands for the new pod.
NewPod == CHOOSE p \in Pods : p \notin created

\* Mutant: the instance is told the index of its port in the pool.
CreateOffByOnePort(g) ==
    /\ pc[g] = "create" /\ created # Pods
    /\ \E n \in Ports \ usedPorts : LET p == NewPod IN
        /\ \A m \in Ports \ usedPorts : n <= m
        /\ created' = created \cup {p}
        /\ usedPorts' = usedPorts \cup {n}
        /\ port' = [port EXCEPT ![p] = n - 1]
        /\ fresh' = [fresh EXCEPT ![g] = p]
    /\ Goto(g, "pool")
    /\ UNCHANGED <<insStartupPool, failures, workerVars, schedVars, listVars,
                   sgVars, insVars, sgLock>>

\* createInstance: the smallest free port, then the deployment.
CreateDeployment(g) ==
    /\ pc[g] = "create" /\ created # Pods
    /\ \E n \in Ports \ usedPorts : LET p == NewPod IN
        /\ \A m \in Ports \ usedPorts : n <= m
        /\ created' = created \cup {p}
        /\ usedPorts' = usedPorts \cup {n}
        /\ port' = [port EXCEPT ![p] = n]
        /\ fresh' = [fresh EXCEPT ![g] = p]
    /\ Goto(g, "pool")
    /\ UNCHANGED <<insStartupPool, failures, workerVars, schedVars, listVars,
                   sgVars, insVars, sgLock>>

\* createInstance: CreateDeployment returned an error; the port is freed.
FailDeployment(g) ==
    /\ pc[g] = "create" /\ failures < MaxFailures
    /\ failures' = failures + 1
    /\ Goto(g, "reset")
    /\ UNCHANGED <<usedPorts, insStartupPool, created, port, fresh, workerVars,
                   schedVars, listVars, sgVars, insVars, sgLock>>

\* createInstance: the pool entry of the port is overwritten.
PoolAdd(g) ==
    /\ pc[g] = "pool"
    /\ insStartupPool' = [insStartupPool EXCEPT ![port[fresh[g]]] = fresh[g]]
    /\ Goto(g, "append")
    /\ UNCHANGED <<usedPorts, created, failures, port, fresh, workerVars,
                   schedVars, listVars, sgVars, insVars, sgLock>>

\* AppendInstance, under sg.mutex; then the loop continues or ends.
AppendInstance(g) ==
    /\ pc[g] = "append" /\ sgLock[g] = None
    /\ insSg' = [insSg EXCEPT ![fresh[g]] = g]
    /\ instances' = [instances EXCEPT ![g] = Append(@, fresh[g])]
    /\ fresh' = [fresh EXCEPT ![g] = None]
    /\ Goto(g, IF Len(instances[g]) + 1 = ChainLen[g] THEN "deploy" ELSE "create")
    /\ UNCHANGED <<usedPorts, insStartupPool, created, failures, port,
                   workerVars, schedVars, listVars, isComplete,
                   isReady, tid, handled, sgLock>>

\* Mutant: Reset deletes the deployments but keeps sg.instances.
ResetKeepsInstances(g) ==
    /\ pc[g] = "reset" /\ sgLock[g] = None
    /\ usedPorts' = usedPorts \ {port[p] : p \in Range(instances[g])}
    /\ Goto(g, "putback")
    /\ UNCHANGED <<insStartupPool, created, failures, port, fresh, workerVars,
                   schedVars, listVars, sgVars, insVars, sgLock>>

\* destroySGroup, first half: Reset destroys the instances under sg.mutex.
\* DeleteDeployment may fail for some of them, whose ports stay taken.  The
\* pool entries stay, and so does ins.sg.
Reset(g) ==
    /\ pc[g] = "reset" /\ sgLock[g] = None
    /\ \E deleted \in SUBSET Range(instances[g]) :
        usedPorts' = usedPorts \ {port[p] : p \in deleted}
    /\ instances' = [instances EXCEPT ![g] = <<>>]
    /\ Goto(g, "putback")
    /\ UNCHANGED <<insStartupPool, created, failures, port, fresh, workerVars,
                   schedVars, listVars, isComplete, isReady, insVars, sgLock>>

\* destroySGroup, second half: back to the free list under sgMutex.
PutBack(g) ==
    /\ pc[g] = "putback" /\ sgMutex = None
    /\ freeSGroups' = freeSGroups \cup {g}
    /\ Goto(g, "none")
    /\ UNCHANGED <<sgroups, sgroupConns, sgroupTarget, poolVars, schedVars,
                   listVars, sgVars, insVars, sgLock>>

\* createSGroup: add to w.sgroups and raise the barrier, under sgMutex.  Then
\* dag.sgroups = append(dag.sgroups, sg), which holds no lock: the slice is
\* read here and stored in the next step.
Deploy(g) ==
    /\ pc[g] = "deploy" /\ sgMutex = None
    /\ sgroups' = sgroups \cup {g}
    /\ sgroupTarget' = sgroupTarget + 1
    /\ snapshot' = [snapshot EXCEPT ![g] = dagSGroups]
    /\ Goto(g, "complete")
    /\ UNCHANGED <<freeSGroups, sgroupConns, poolVars, schedVars, dagSGroups,
                   idleCore, sgVars, insVars, sgLock>>

\* createSGroup: the slice is stored and isComplete is set without sg.mutex.
CompleteThen(g, label) ==
    /\ pc[g] = "complete"
    /\ dagSGroups' = snapshot[g] \cup {g}
    /\ snapshot' = [snapshot EXCEPT ![g] = {}]
    /\ isComplete' = [isComplete EXCEPT ![g] = TRUE]
    /\ Goto(g, label)
    /\ UNCHANGED <<poolVars, workerVars, schedVars, idleCore, instances,
                   isReady, insVars, sgLock>>

\* Mutant: the creator leaves the check to the InstanceSetUp handlers.
CompleteWithoutCheck(g) == CompleteThen(g, "done")

\* The creator calls preprocessBeforeReady.
Complete(g) == CompleteThen(g, "lock")

-----------------------------------------------------------------------------
(* The InstanceSetUp handler of pod p. *)

\* The pod reports its tid with its port; the instance is looked up by port
\* and given the tid (one step: the look-up only picks the instance, and
\* nothing reads a tid by port).  A call that finds no instance is rejected
\* and changes nothing.
InstanceSetUp(p) ==
    /\ pc[p] = "none" /\ p \in created
    /\ RepeatReports \/ tid[p] = None
    /\ insStartupPool[port[p]] # None
    /\ LET ins == insStartupPool[port[p]] IN
        /\ handled' = [handled EXCEPT ![p] = ins]
        /\ tid' = [tid EXCEPT ![ins] = p]
    /\ Goto(p, "readSg")
    /\ UNCHANGED <<poolVars, workerVars, schedVars, listVars, sgVars, insSg,
                   sgLock>>

\* Mutant: the handler leaves the check to the creator.
ReadSgWithoutCheck(p) ==
    /\ pc[p] = "readSg"
    /\ Return(p)
    /\ UNCHANGED <<poolVars, workerVars, schedVars, listVars, sgVars, insSg,
                   tid, sgLock>>

\* if ins.sg != nil { ins.sg.preprocessBeforeReady() }
ReadSg(p) ==
    /\ pc[p] = "readSg"
    /\ IF insSg[handled[p]] # None THEN Goto(p, "lock") /\ UNCHANGED handled
                                    ELSE Return(p)
    /\ UNCHANGED <<poolVars, workerVars, schedVars, listVars, sgVars, insSg,
                   tid, sgLock>>

-----------------------------------------------------------------------------
(* preprocessBeforeReady, in process q. *)

Lock(q) ==
    /\ pc[q] = "lock" /\ sgLock[SgOf(q)] = None
    /\ sgLock' = [sgLock EXCEPT ![SgOf(q)] = q]
    /\ Goto(q, "check")
    /\ UNCHANGED <<poolVars, workerVars, schedVars, listVars, sgVars, insVars>>

AllUp(g) == \A p \in Range(instances[g]) : tid[p] # None

\* The caller goes on with the lock held, or returns and unlocks.
CheckIf(q, go) ==
    /\ pc[q] = "check"
    /\ IF go THEN Goto(q, "connect") /\ UNCHANGED <<handled, sgLock>>
             ELSE /\ Return(q)
                  /\ sgLock' = [sgLock EXCEPT ![SgOf(q)] = None]
    /\ UNCHANGED <<poolVars, workerVars, schedVars, listVars, sgVars, insSg, tid>>

\* Mutants: the early return does not unlock; the tids are not looked at;
\* duplicated calls are not ignored.
CheckNoUnlock(q) ==
    /\ pc[q] = "check"
    /\ IF isComplete[SgOf(q)] /\ ~isReady[SgOf(q)] /\ AllUp(SgOf(q))
       THEN Goto(q, "connect") /\ UNCHANGED handled
       ELSE Return(q)
    /\ UNCHANGED <<poolVars, workerVars, schedVars, listVars, sgVars, insSg,
                   tid, sgLock>>
CheckNoTids(q)   == CheckIf(q, isComplete[SgOf(q)] /\ ~isReady[SgOf(q)])
CheckNotReady(q) == CheckIf(q, isComplete[SgOf(q)] /\ AllUp(SgOf(q)))

\* The caller that finds the chain complete, not ready and every tid known
\* goes on; any other returns.  (One step for the loop over the tids: a tid
\* never goes back to unset, so the loop sees what its last read sees.)
Check(q) ==
    LET g == SgOf(q) IN CheckIf(q, isComplete[g] /\ ~isReady[g] /\ AllUp(g))

\* The runtime configuration was sent (errors are only logged); the SGroup
\* joins the barrier under upMutex.
Connect(q) ==
    /\ pc[q] = "connect"
    /\ sgroupConns' = Append(sgroupConns, SgOf(q))
    /\ Goto(q, "wait")
    /\ UNCHANGED <<freeSGroups, sgroups, sgroupTarget, poolVars, schedVars,
                   listVars, sgVars, insVars, sgLock>>

\* isAllSGroupsConnected, polled with sg.mutex held.
isAllSGroupsConnected == Len(sgroupConns) = sgroupTarget

\* SetupChain and AttachChain, whose errors are only logged.  Whatever they
\* return, core.addSGroup is next: it reads the list of core 1, without a
\* lock, and stores it in the next step.
NotifyScheduler(q) ==
    /\ pc[q] = "wait"
    /\ snapshot' = [snapshot EXCEPT ![q] = idleCore]
    /\ Goto(q, "release")
    /\ UNCHANGED <<poolVars, workerVars, schedVars, dagSGroups, idleCore,
                   sgVars, insVars, sgLock>>

\* Mutant: the barrier is not waited for.
PassWithoutWaiting(q) == NotifyScheduler(q)

PassBarrier(q) == isAllSGroupsConnected /\ NotifyScheduler(q)

\* The list is stored; coreID = 1, isReady = isSched = true; the deferred
\* Unlock releases sg.mutex.
SetReady(q) ==
    /\ pc[q] = "release"
    /\ idleCore' = snapshot[q] \cup {SgOf(q)}
    /\ snapshot' = [snapshot EXCEPT ![q] = {}]
    /\ isReady' = [isReady EXCEPT ![SgOf(q)] = TRUE]
    /\ sgLock' = [sgLock EXCEPT ![SgOf(q)] = None]
    /\ Return(q)
    /\ UNCHANGED <<poolVars, workerVars, schedVars, dagSGroups, instances,
                   isComplete, insSg, tid>>

-----------------------------------------------------------------------------
(* The scheduler goroutine: a pass holds sgMutex and calls IsReady, which   *)
(* needs sg.mutex, on each SGroup.  What it does with a ready SGroup is in  *)
(* CoreSched and leaves the variables of this module alone, except core 1's *)
(* list, from which it takes SGroups it moves.  The other walks over        *)
(* w.sgroups (countPendingSGroups, GetPktLoad, the logger's) lock in the    *)
(* same way, one at a time: the scheduler stands for them too.              *)

\* A pass over no SGroup is over at once and is left out.
BeginPass ==
    /\ sgMutex = None /\ sgroups # {}
    /\ sgMutex' = Scheduler /\ scan' = sgroups
    /\ UNCHANGED <<poolVars, workerVars, listVars, sgVars, insVars, sgLock, pc>>

Visit(g) ==
    /\ sgMutex = Scheduler
    /\ g \in scan /\ sgLock[g] = None
    /\ scan' = scan \ {g}
    /\ UNCHANGED <<sgMutex, poolVars, workerVars, listVars, sgVars, insVars,
                   sgLock, pc>>

EndPass ==
    /\ sgMutex = Scheduler /\ scan = {}
    /\ sgMutex' = None
    /\ UNCHANGED <<scan, poolVars, workerVars, listVars, sgVars, insVars,
                   sgLock, pc>>

-----------------------------------------------------------------------------
Create(g) ==
    \/ CreateDeployment(g) \/ FailDeployment(g) \/ PoolAdd(g)
    \/ AppendInstance(g) \/ Reset(g) \/ PutBack(g)
    \/ Deploy(g) \/ Complete(g)

SetUp(p) == InstanceSetUp(p) \/ ReadSg(p)

Preprocess(q) ==
    \/ Lock(q) \/ Check(q) \/ Connect(q)
    \/ PassBarrier(q) \/ SetReady(q)

ScheduleOnce == BeginPass \/ EndPass \/ \E g \in SGroups : Visit(g)

Next ==
    \/ \E g \in SGroups : GetFreeSGroup(g) \/ Create(g)
    \/ \E p \in Pods : SetUp(p)
    \/ \E q \in Procs : Preprocess(q)
    \/ ScheduleOnce

Spec == Init /\ [][Next]_vars

(* Fairness.  Goroutines are scheduled, and a mutex waiter is not starved   *)
(* (a Go mutex turns to FIFO hand-off after 1ms): SF where steps wait for   *)
(* a lock.  The barrier is polled, and a poll may miss a moment at which it *)
(* is open: WF.  A pod whose tid is not known yet reports in the end.  No   *)
(* flow has to arrive: GetFreeSGroup has no fairness.  The conditions are   *)
(* on sets of processes, which is weaker than one per process and enough,   *)
(* since only the scheduler and repeated reports take infinitely many steps.*)
Progress ==
    \/ \E g \in SGroups : Create(g)
    \/ \E p \in Pods : ReadSg(p) \/ (tid[p] = None /\ InstanceSetUp(p))
    \/ \E q \in Procs : Lock(q) \/ Check(q) \/ Connect(q) \/ SetReady(q)

Fairness ==
    /\ SF_vars(Progress)
    /\ WF_vars(\E q \in Procs : PassBarrier(q))
    /\ SF_vars(\E g \in SGroups : Visit(g))
    /\ WF_vars(EndPass)

FairSpec == Spec /\ Fairness

-----------------------------------------------------------------------------
(* Properties. *)

CreatorLabels == {"none", "create", "pool", "append", "reset", "putback",
                  "deploy", "complete", "done"}
HandlerLabels == {"none", "readSg"}
InLock        == {"check", "connect", "wait", "release"}
Labels        == CreatorLabels \cup HandlerLabels \cup InLock \cup {"lock"}

\* Every variable stays in its range: ports and pods in the tables, SGroups
\* in the lists, and a lock is held by a process or by nobody.
TypeOK ==
    /\ freeSGroups \subseteq SGroups /\ sgroups \subseteq SGroups
    /\ sgroupConns \in Seq(SGroups) /\ sgroupTarget \in Nat
    /\ sgMutex \in {None, Scheduler} /\ scan \subseteq SGroups
    /\ usedPorts \subseteq Ports /\ created \subseteq Pods /\ failures \in Nat
    /\ insStartupPool \in [Ports -> Pods \cup {None}]
    /\ port \in [Pods -> Ports \cup {None}]
    /\ insSg \in [Pods -> SGroups \cup {None}]
    /\ tid \in [Pods -> Pods \cup {None}]
    /\ handled \in [Pods -> Pods \cup {None}]
    /\ fresh \in [SGroups -> Pods \cup {None}]
    /\ instances \in [SGroups -> Seq(Pods)]
    /\ isComplete \in [SGroups -> BOOLEAN] /\ isReady \in [SGroups -> BOOLEAN]
    /\ sgLock \in [SGroups -> Procs \cup {None}]
    /\ dagSGroups \subseteq SGroups /\ idleCore \subseteq SGroups
    /\ snapshot \in [Procs -> SUBSET SGroups]
    /\ pc \in [Procs -> Labels]

\* preprocessBeforeReady runs under sg.mutex from its check to its return: a
\* process inside it holds the lock of its SGroup, and whoever holds a lock
\* is inside.  Creator and handlers never do the hand-over of one SGroup
\* at the same time, though handlers keep arriving.
LockedPreprocess ==
    \A g \in SGroups, q \in Procs :
        sgLock[g] = q <=> pc[q] \in InLock /\ SgOf(q) = g

\* When the count of w.sgroupConns reaches w.sgroupTarget, and so a poll of
\* the barrier succeeds, every SGroup in w.sgroups has its whole chain and
\* every tid of it: CooperativeSched is called for none before all are up.
BarrierOpensWhenAllUp ==
    isAllSGroupsConnected =>
        \A g \in sgroups : Len(instances[g]) = ChainLen[g] /\ AllUp(g)

\* A SGroup joins the barrier at most once, and never before it is counted
\* in the target: a second join would open the barrier one SGroup early, a
\* join too early would keep it shut for those who wait.
JoinsBarrierOnce ==
    /\ IsInjective(sgroupConns)
    /\ Range(sgroupConns) \subseteq sgroups

\* No wake-up is lost between the creator, which sets isComplete without the
\* lock and checks, and the last InstanceSetUp, which stores the tid without
\* the lock, reads ins.sg and checks: once the chain is complete and all its
\* tids are known, someone who will see it has yet to check.
NoLostReadiness ==
    \A g \in SGroups :
        isComplete[g] /\ AllUp(g) /\ g \notin Range(sgroupConns) =>
            \E q \in Procs :
                \/ pc[q] \in {"lock", "check", "connect"} /\ SgOf(q) = g
                \/ q \in Pods /\ pc[q] = "readSg" /\ insSg[handled[q]] = g

\* A SGroup in the free list, also one put back after a failed build, holds
\* no instance, takes no part in the barrier and is neither complete nor
\* ready: the next DAG to take it starts from nothing.
FreeIsClean ==
    \A g \in freeSGroups :
        /\ pc[g] = "none" /\ instances[g] = <<>>
        /\ ~isComplete[g] /\ ~isReady[g]
        /\ g \notin sgroups /\ g \notin Range(sgroupConns)

\* ReadinessBarrier's state: a SGroup is released from the moment a process
\* passes the barrier with it.
Phase(g) ==
    IF isReady[g] \/ \E q \in Procs :
            pc[q] = "release" /\ SgOf(q) = g
    THEN "released"
    ELSE IF g \in sgroups THEN "deployed"
    ELSE IF g \in freeSGroups THEN "free" ELSE "building"

Abstract == INSTANCE ReadinessBarrier WITH
    phase <- [g \in SGroups |-> Phase(g)],
    up <- {g \in sgroups : AllUp(g)}

\* The start-up implements ReadinessBarrier: each SGroup is released once,
\* at an instant when every SGroup deployed on the worker is up.
ImplementsBarrier == Abstract!Spec

\* A SGroup taken for a flow does not get stuck: it becomes ready, or its
\* build fails and it is in the free list again.  The barrier is polled with
\* sg.mutex held while the scheduler, holding sgMutex, waits for that mutex
\* and creators wait for sgMutex.
TakenIsReadyOrFree ==
    \A g \in SGroups : pc[g] = "create" ~> (isReady[g] \/ g \in freeSGroups)

\* core.go: "|sGroups| contains all sgroups managed by this core."  A SGroup
\* whose coreID was set to 1 when it became ready is in core 1's list.
IdleCoreHoldsReady ==
    \A g \in SGroups : isReady[g] => g \in idleCore

\* worker.go, createInstance: "The controller waits for its |tid| sent from
\* its NF thread."  The tids of a ready SGroup came from its own pods.
TidFromOwnThread ==
    \A g \in SGroups : isReady[g] =>
        \A p \in Range(instances[g]) : tid[p] = p
=============================================================================
