--------------------------- MODULE WorkerLifecycle ---------------------------
(***************************************************************************)
(* The life of one worker under the faas option, from NewFaaSController to *)
(* Worker.Close: its SGroup factory, the goroutines that create and        *)
(* destroy free SGroups and the pods of each, the pool of PCIe indices     *)
(* and its users, CooperativeSched's pod, and the shutdown that has to      *)
(* find everything (controller/worker.go, controller/background.go,        *)
(* utils/index_pool.go).                                                   *)
(*                                                                         *)
(* Goroutines: the command line, which starts the worker and closes it;    *)
(* the factory and the scheduler loop, which Close stops by a message and  *)
(* waits for; a creator and a destroyer per free SGroup, a builder per     *)
(* UpdateFlow that takes one, and the InstanceSetUp handlers of the pods,  *)
(* none of which anybody waits for.  The gRPC server is never stopped, so  *)
(* UpdateFlow and InstanceSetUp arrive during Close too.                   *)
(*                                                                         *)
(* A chain has one NF, and a host port belongs to its SGroup.  The start-  *)
(* up of a chain is modelled in detail in SGroupStartup, ports included,   *)
(* and the scheduler's pass in CoreSched; here they are the steps that     *)
(* take locks, join or open the barrier, or own a pod.                     *)
(***************************************************************************)
EXTENDS IndexPool, FiniteSets, Functions

CONSTANTS
    SGroups,      \* the SGroup each creator goroutine would make
    NumPCIe,      \* len(w.pcie)
    MaxFailures,  \* bound: Kubernetes calls that fail or whose answer is lost
    None

FreeAtStart == 2   \* FREE_SGROUP messages createAllFreeSGroups sends

\* One PCIe device fewer than messages and GetNextAvailable answers -1, with
\* which createInstance indexes w.pcie.
ASSUME ConstAssumption ==
    /\ IsFiniteSet(SGroups) /\ Cardinality(SGroups) >= FreeAtStart
    /\ NumPCIe \in Nat /\ NumPCIe >= FreeAtStart
    /\ MaxFailures \in Nat
    /\ None \notin SGroups \cup Int

VARIABLES
    main,         \* where the command line's goroutine is
    op,           \* the channel w.op
    schedOp,      \* whether SHUTDOWN is in the channel w.schedOp
    wg,           \* w.wg
    schedLoop,    \* whether ScheduleLoop has yet to return
    scan,         \* the SGroups its pass has yet to visit
    sgMutex,      \* who holds w.sgMutex across steps
    freeSGroups, sgroups,   \* the worker's two slices
    sgroupConns,  \* len(w.sgroupConns)
    sgroupTarget, \* w.sgroupTarget
    pciePool,     \* w.pciePool, the slice of its heap
    creator, builder, destroyer,  \* the goroutines of each SGroup
    pcie,         \* sg.pcieIdx, while the SGroup or its creator has it
    hasIns,       \* sg.instances is not empty
    tid,          \* the NF's thread id is known
    isComplete, isReady,
    sgLock,       \* whether a goroutine at the barrier holds sg.mutex
    pods,         \* pods of the deployments Kubernetes has
    dying,        \* those whose deployment is deleted
    failures,     \* Kubernetes calls that failed so far
    impatient     \* a destroyer stopped polling before the pod was gone

loopVars  == <<op, schedOp, wg, schedLoop, scan>>
listVars  == <<freeSGroups, sgroups>>
barVars   == <<sgroupConns, sgroupTarget, isReady, sgLock>>
poolVars  == <<pciePool, pcie>>
chainVars == <<hasIns, tid, isComplete>>
goVars    == <<creator, builder, destroyer>>
k8sVars   == <<pods, dying, failures, impatient>>
vars == <<main, loopVars, sgMutex, listVars, barVars, poolVars,
          chainVars, goVars, k8sVars>>

Init ==
    /\ main = "start"
    \* faasInit: both loops are running.
    /\ op = <<>> /\ schedOp = FALSE /\ wg = 2 /\ schedLoop = TRUE /\ scan = <<>>
    /\ sgMutex = None /\ freeSGroups = <<>> /\ sgroups = <<>>
    /\ sgroupConns = 0 /\ sgroupTarget = 0
    /\ isReady = [g \in SGroups |-> FALSE] /\ sgLock = [g \in SGroups |-> FALSE]
    /\ pciePool = NewIndexPool(0, NumPCIe) /\ pcie = [g \in SGroups |-> None]
    /\ hasIns = [g \in SGroups |-> FALSE] /\ tid = [g \in SGroups |-> FALSE]
    /\ isComplete = [g \in SGroups |-> FALSE]
    /\ creator = [g \in SGroups |-> "none"]
    /\ builder = [g \in SGroups |-> "none"]
    /\ destroyer = [g \in SGroups |-> "none"]
    /\ pods = {} /\ dying = {} /\ failures = 0 /\ impatient = FALSE

-----------------------------------------------------------------------------
(* Kubernetes. *)

\* The deployment of a SGroup's manager or NF, or of CooperativeSched.
Pod(kind, g) == <<kind, g>>
Exists(p) == p \in pods \ dying

\* CreateDeployment succeeds, at the first call or by a retry once an older
\* deployment of this name is gone.
Created(p) ==
    /\ ~Exists(p)
    /\ pods' = pods \cup {p} /\ dying' = dying \ {p}
    /\ UNCHANGED <<failures, impatient>>

\* A call has no effect and fails.
Refused ==
    /\ failures < MaxFailures /\ failures' = failures + 1
    /\ UNCHANGED <<pods, dying, impatient>>

\* Every call of the 20 s fails; or the first one took effect and its answer
\* was lost, after which the name exists and every retry fails, then and later.
NotCreated(p) ==
    \/ Exists(p) /\ UNCHANGED k8sVars
    \/ ~Exists(p) /\ Refused
    \/ /\ ~Exists(p) /\ failures < MaxFailures /\ failures' = failures + 1
       /\ pods' = pods \cup {p} /\ dying' = dying \ {p}
       /\ UNCHANGED impatient

\* DeleteDeployment is accepted: the pod ends some time later.
Deleted(p) ==
    /\ dying' = dying \cup {p} /\ UNCHANGED <<pods, failures, impatient>>

\* What GetPodStatusByName says of a pod that is gone; a list that cannot be
\* read looks the same.
NotExist(p) == p \notin pods

\* When an NF's pod ends is of no consequence to anyone.
PodEnds(p) ==
    /\ p[1] = "prim"
    /\ pods' = pods \ {p} /\ dying' = dying \ {p}
    /\ UNCHANGED <<main, loopVars, sgMutex, listVars, barVars, poolVars,
                   chainVars, goVars, failures, impatient>>

Step(q, g, label) == q[g] = label
Go(q, g, label) == [q EXCEPT ![g] = label]

-----------------------------------------------------------------------------
(* The factory and the creators. *)

\* SGroups no creator was started for: any stands for the next.
Unmade == {g \in SGroups : creator[g] = "none"}

\* RunFreeSGroupFactory: one message.  There is a SGroup for each (ConstAssumption).
Factory ==
    /\ op # <<>> /\ op' = Tail(op)
    /\ IF Head(op) = "free"
       THEN /\ Unmade # {} /\ UNCHANGED wg
            /\ creator' = Go(creator, CHOOSE g \in Unmade : TRUE, "start")
       ELSE wg' = wg - 1 /\ UNCHANGED creator
    /\ UNCHANGED <<schedOp, schedLoop, scan, main, sgMutex, listVars, barVars,
                   poolVars, chainVars, builder, destroyer, k8sVars>>

\* createFreeSGroup: the smallest PCIe index.
StartFreeSGroup(g) ==
    /\ Step(creator, g, "start") /\ creator' = Go(creator, g, "create")
    /\ pcie' = [pcie EXCEPT ![g] = NextAvailable(pciePool)]
    /\ pciePool' = AfterGet(pciePool)
    /\ UNCHANGED <<main, loopVars, sgMutex, listVars, barVars,
                   chainVars, builder, destroyer, k8sVars>>

\* The manager's pod is there, or newSGroup answers nil and the index goes back.
NewSGroup(g) ==
    /\ Step(creator, g, "create")
    /\ \/ /\ Created(Pod("prim", g))
          /\ creator' = Go(creator, g, "append")
          /\ UNCHANGED poolVars
       \/ /\ NotCreated(Pod("prim", g))
          /\ creator' = Go(creator, g, "done")
          /\ pciePool' = Free(pciePool, pcie[g])
          /\ pcie' = [pcie EXCEPT ![g] = None]
    /\ UNCHANGED <<main, loopVars, sgMutex, listVars, barVars, chainVars,
                   builder, destroyer>>

\* The pod runs, or 20 s are over: the SGroup is free either way.
AppendFreeSGroup(g) ==
    /\ Step(creator, g, "append") /\ sgMutex = None
    /\ freeSGroups' = Append(freeSGroups, g)
    /\ creator' = Go(creator, g, "done")
    /\ UNCHANGED <<sgroups, main, loopVars, sgMutex, barVars, poolVars,
                   chainVars, builder, destroyer, k8sVars>>

-----------------------------------------------------------------------------
(* UpdateFlow's scale-up: a builder, and the handlers of its pod. *)

\* main starts the gRPC server when NewFaaSController has returned.
ServerIsUp == main \notin {"start", "sched"}

\* Mutant: the SGroup stays in the free list.
TakeNotRemoved(g) ==
    /\ ServerIsUp /\ sgMutex = None /\ freeSGroups # <<>> /\ g = Last(freeSGroups)
    /\ Step(builder, g, "none") /\ builder' = Go(builder, g, "create")
    /\ UNCHANGED <<freeSGroups, sgroups, main, loopVars, sgMutex,
                   barVars, poolVars, chainVars, creator, destroyer, k8sVars>>

\* getFreeSGroup, then go createSGroup.  Bound: not while a builder whose SGroup
\* Close has already reset is at its last step.
TakeFreeSGroup(g) ==
    /\ ServerIsUp /\ sgMutex = None /\ freeSGroups # <<>> /\ g = Last(freeSGroups)
    /\ Step(builder, g, "none")
    /\ freeSGroups' = Front(freeSGroups)
    /\ builder' = Go(builder, g, "create")
    /\ UNCHANGED <<sgroups, main, loopVars, sgMutex, barVars,
                   poolVars, chainVars, creator, destroyer, k8sVars>>

\* createInstance and AppendInstance.
CreateNF(g) ==
    /\ Step(builder, g, "create") /\ ~sgLock[g]
    /\ \/ /\ Created(Pod("nf", g))
          /\ hasIns' = [hasIns EXCEPT ![g] = TRUE]
          /\ tid' = [tid EXCEPT ![g] = FALSE]
          /\ builder' = Go(builder, g, "list")
       \/ /\ NotCreated(Pod("nf", g))
          /\ builder' = Go(builder, g, "undo")
          /\ UNCHANGED <<hasIns, tid>>
    /\ UNCHANGED <<isComplete, main, loopVars, sgMutex, listVars,
                   barVars, poolVars, creator, destroyer>>

\* destroySGroup after a failure: back to the free list.  The chain has no
\* other NF whose pod Reset would delete.
DestroySGroup(g) ==
    /\ Step(builder, g, "undo") /\ sgMutex = None /\ ~sgLock[g]
    /\ freeSGroups' = Append(freeSGroups, g)
    /\ builder' = Go(builder, g, "none")
    /\ UNCHANGED <<sgroups, main, loopVars, sgMutex, barVars, poolVars,
                   chainVars, creator, destroyer, k8sVars>>

ListSGroup(g) ==
    /\ Step(builder, g, "list") /\ sgMutex = None
    /\ sgroups' = Append(sgroups, g)
    /\ sgroupTarget' = sgroupTarget + 1
    /\ builder' = Go(builder, g, "finish")
    /\ UNCHANGED <<freeSGroups, sgroupConns, isReady, sgLock, main, loopVars,
                   sgMutex, poolVars, chainVars, creator, destroyer, k8sVars>>

\* preprocessBeforeReady, with what its caller just set: the SGroup joins the
\* barrier and its goroutine keeps sg.mutex, or returns.  A SGroup whose
\* instances Reset removed has no thread id missing.  The caller that finds the
\* mutex taken will find the SGroup ready, if it ever gets it.
Preprocess(g) ==
    /\ IF ~sgLock[g] /\ isComplete'[g] /\ ~isReady[g] /\ (hasIns[g] => tid'[g])
       THEN /\ sgLock' = [sgLock EXCEPT ![g] = TRUE]
            /\ sgroupConns' = sgroupConns + 1
       ELSE UNCHANGED <<sgLock, sgroupConns>>
    /\ UNCHANGED <<sgroupTarget, isReady, hasIns>>

\* The end of createSGroup.
Complete(g) ==
    /\ Step(builder, g, "finish")
    /\ isComplete' = [isComplete EXCEPT ![g] = TRUE] /\ UNCHANGED tid
    /\ Preprocess(g)
    /\ builder' = Go(builder, g, "none")
    /\ UNCHANGED <<main, loopVars, sgMutex, listVars, poolVars, creator, destroyer,
                   k8sVars>>

\* The pod reports its thread id, which it may still do while it ends.
InstanceSetUp(g) ==
    /\ ~tid[g] /\ Pod("nf", g) \in pods
    /\ tid' = [tid EXCEPT ![g] = TRUE] /\ UNCHANGED isComplete
    /\ Preprocess(g)
    /\ UNCHANGED <<main, loopVars, sgMutex, listVars, poolVars, goVars, k8sVars>>

\* isAllSGroupsConnected: the SGroup is ready and its mutex free.
LeaveBarrier(g) ==
    /\ sgLock[g] /\ sgroupConns = sgroupTarget
    /\ sgLock' = [sgLock EXCEPT ![g] = FALSE]
    /\ isReady' = [isReady EXCEPT ![g] = TRUE]
    /\ UNCHANGED <<sgroupConns, sgroupTarget, main, loopVars, sgMutex, listVars,
                   poolVars, chainVars, goVars, k8sVars>>

-----------------------------------------------------------------------------
(* The scheduler loop. *)

\* Mutant: the last SGroup of a pass does not give sgMutex back.
PassKeepsMutex ==
    /\ scan' = Tail(scan) /\ UNCHANGED sgMutex

\* The pass visits the next SGroup, and gives sgMutex back after the last.
VisitNext ==
    /\ scan' = Tail(scan)
    /\ sgMutex' = IF Len(scan) = 1 THEN None ELSE sgMutex

\* A pass holds sgMutex and asks every SGroup under that SGroup's mutex.  One
\* that finds no SGroup is no step.
SchedulerStep ==
    /\ \/ /\ schedLoop /\ scan = <<>> /\ ~schedOp /\ sgMutex = None
          /\ sgroups # <<>>
          /\ scan' = sgroups /\ sgMutex' = "sched"
          /\ UNCHANGED <<schedOp, wg, schedLoop>>
       \/ /\ scan # <<>> /\ ~sgLock[Head(scan)] /\ VisitNext
          /\ UNCHANGED <<schedOp, wg, schedLoop>>
       \/ /\ scan = <<>> /\ schedOp
          /\ schedOp' = FALSE /\ wg' = wg - 1 /\ schedLoop' = FALSE
          /\ UNCHANGED <<scan, sgMutex>>
    /\ UNCHANGED <<op, main, listVars, barVars, poolVars, chainVars,
                   goVars, k8sVars>>

-----------------------------------------------------------------------------
(* The command line: start, quit. *)

\* createAllFreeSGroups only sends.
CreateAllFreeSGroups ==
    /\ main = "start" /\ main' = "sched"
    /\ op' = op \o [i \in 1..FreeAtStart |-> "free"]
    /\ UNCHANGED <<schedOp, wg, schedLoop, scan, sgMutex, listVars,
                   barVars, poolVars, chainVars, goVars, k8sVars>>

\* createSched, whose error is dropped.  Whether the pod answers in 30 s only
\* decides if KillSched will fail.
CreateSched ==
    /\ main = "sched" /\ main' = "cli"
    /\ Created(Pod("sched", None)) \/ Refused
    /\ UNCHANGED <<loopVars, sgMutex, listVars, barVars, poolVars, chainVars, goVars>>

\* quit: Worker.Close sends both messages and waits for the two loops.
Quit ==
    /\ main = "cli" /\ main' = "wait"
    /\ op' = Append(op, "shutdown") /\ schedOp' = TRUE
    /\ UNCHANGED <<wg, schedLoop, scan, sgMutex, listVars, barVars,
                   poolVars, chainVars, goVars, k8sVars>>

\* KillSched, whose error only makes Close's result (ControllerClose), and
\* destroyInstance(w.sched), whose error is dropped.
KillSched ==
    /\ main = "wait" /\ wg = 0 /\ main' = "clean"
    /\ LET p == Pod("sched", None) IN
       IF p \in pods THEN Deleted(p) \/ Refused ELSE UNCHANGED k8sVars
    /\ UNCHANGED <<loopVars, sgMutex, listVars, barVars, poolVars,
                   chainVars, goVars>>

LockToClean ==
    /\ main = "clean" /\ sgMutex = None
    /\ main' = "reset" /\ sgMutex' = "main"
    /\ UNCHANGED <<loopVars, listVars, barVars, poolVars,
                   chainVars, goVars, k8sVars>>

\* Reset under sg.mutex: an instance whose deployment cannot be deleted is
\* forgotten all the same.
Reset(g) ==
    /\ ~sgLock[g]
    /\ hasIns' = [hasIns EXCEPT ![g] = FALSE]
    /\ IF hasIns[g] THEN Deleted(Pod("nf", g)) \/ Refused ELSE UNCHANGED k8sVars

\* Mutant: a SGroup that is reset is not put in the free list.
DropAfterReset ==
    LET g == Last(sgroups) IN
    /\ main = "reset" /\ sgroups # <<>> /\ Reset(g)
    /\ sgroups' = Front(sgroups) /\ UNCHANGED freeSGroups
    /\ UNCHANGED <<main, sgMutex>>

\* destroyAllSGroups: from the end of the slice to its start.
DestroyLast ==
    LET g == Last(sgroups) IN
    /\ main = "reset" /\ sgroups # <<>> /\ Reset(g)
    /\ sgroups' = Front(sgroups) /\ freeSGroups' = Append(freeSGroups, g)
    /\ UNCHANGED <<main, sgMutex>>

DestroyAllSGroups ==
    /\ \/ DestroyLast
       \/ /\ main = "reset" /\ sgroups = <<>>
          /\ main' = "free" /\ sgMutex' = None
          /\ UNCHANGED <<hasIns, listVars, k8sVars>>
    /\ UNCHANGED <<tid, isComplete, loopVars, barVars,
                   poolVars, goVars>>

\* destroyAllFreeSGroups: a goroutine per free SGroup, and sgMutex until the
\* last of them is done.
DestroyAllFreeSGroups ==
    /\ \/ /\ main = "free" /\ sgMutex = None
          /\ main' = "join" /\ sgMutex' = "main"
          /\ freeSGroups' = <<>>
          /\ destroyer' = [g \in SGroups |-> IF g \in Range(freeSGroups)
                                             THEN "delete" ELSE destroyer[g]]
       \/ /\ main = "join" /\ \A g \in SGroups : destroyer[g] \in {"none", "done"}
          /\ main' = "closed" /\ sgMutex' = None
          /\ UNCHANGED <<freeSGroups, destroyer>>
    /\ UNCHANGED <<sgroups, creator, builder, loopVars, barVars,
                   poolVars, chainVars, k8sVars>>

\* destroyFreeSGroup: a failed deletion ends it, and the PCIe index stays taken.
DeleteManager(g) ==
    /\ Step(destroyer, g, "delete")
    /\ \/ Deleted(Pod("prim", g)) /\ destroyer' = Go(destroyer, g, "poll")
       \/ Refused /\ destroyer' = Go(destroyer, g, "done")
    /\ UNCHANGED <<main, loopVars, sgMutex, listVars, barVars,
                   poolVars, chainVars, creator, builder>>

\* Mutant: the index is freed without a wait for the pod.
FreeWithoutPoll(g) ==
    /\ Step(destroyer, g, "poll")
    /\ UNCHANGED impatient
    /\ pciePool' = Free(pciePool, pcie[g])
    /\ pcie' = [pcie EXCEPT ![g] = None]
    /\ destroyer' = Go(destroyer, g, "done")

\* The poll ends when the pod does not exist, or after 20 s.
FreeIndex(g) ==
    /\ Step(destroyer, g, "poll")
    /\ impatient' = (impatient \/ ~NotExist(Pod("prim", g)))
    /\ pciePool' = Free(pciePool, pcie[g])
    /\ pcie' = [pcie EXCEPT ![g] = None]
    /\ destroyer' = Go(destroyer, g, "done")

EndDestroyer(g) ==
    /\ FreeIndex(g)
    /\ UNCHANGED <<main, loopVars, sgMutex, listVars, barVars, chainVars,
                   creator, builder, pods, dying, failures>>

-----------------------------------------------------------------------------
CommandLine ==
    \/ CreateAllFreeSGroups \/ CreateSched \/ KillSched \/ LockToClean
    \/ DestroyAllSGroups \/ DestroyAllFreeSGroups

Goroutine(g) ==
    \/ StartFreeSGroup(g) \/ NewSGroup(g) \/ AppendFreeSGroup(g)
    \/ CreateNF(g) \/ DestroySGroup(g) \/ ListSGroup(g) \/ Complete(g)
    \/ LeaveBarrier(g) \/ DeleteManager(g) \/ EndDestroyer(g)

\* Close is followed by os.Exit.
Next ==
    /\ main # "closed"
    /\ \/ CommandLine \/ Quit \/ Factory \/ SchedulerStep
       \/ \E g \in SGroups : Goroutine(g) \/ TakeFreeSGroup(g) \/ InstanceSetUp(g)
       \/ \E p \in dying : PodEnds(p)

\* The Go scheduler runs every goroutine that can go on.  Nothing is assumed of
\* the user, of new flows, of the pods that report, nor of those that end.
Spec ==
    /\ Init /\ [][Next]_vars
    /\ WF_vars(CommandLine) /\ WF_vars(Factory) /\ WF_vars(SchedulerStep)
    /\ \A g \in SGroups : WF_vars(Goroutine(g))

-----------------------------------------------------------------------------
(* Properties. *)

Procs == {"none", "start", "create", "append", "done", "list", "finish", "undo",
          "delete", "poll"}

\* Every variable has the values the Go declarations allow: the slices hold
\* SGroups, indices come from their pools, and a lock has at most one holder.
TypeOK ==
    /\ main \in {"start", "sched", "cli", "wait", "clean", "reset", "free", "join",
                 "closed"}
    /\ op \in Seq({"free", "shutdown"}) /\ schedOp \in BOOLEAN /\ wg \in 0..2
    /\ schedLoop \in BOOLEAN
    /\ {freeSGroups, sgroups, scan} \subseteq Seq(SGroups)
    /\ sgMutex \in {None, "sched", "main"}
    /\ pciePool \in Seq(0..NumPCIe - 1)
    /\ pcie \in [SGroups -> (0..NumPCIe - 1) \cup {None}]
    /\ \A m \in {creator, builder, destroyer} : m \in [SGroups -> Procs]
    /\ \A m \in {hasIns, tid, isComplete, isReady, sgLock} : m \in [SGroups -> BOOLEAN]
    /\ {sgroupConns, sgroupTarget} \subseteq Nat
    /\ dying \subseteq pods
    /\ failures \in 0..MaxFailures /\ impatient \in BOOLEAN

Pool == INSTANCE SetPool WITH
    Indices <- 0..NumPCIe - 1,
    free <- Range(pciePool),
    held <- {pcie[g] : g \in SGroups} \ {None}

\* The worker's use of pciePool implements the abstract pool: a creator is given
\* the smallest index nobody has, an index is freed by the SGroup that has it
\* and only once, and no SGroup shares its index (index_pool.go, with
\* createFreeSGroup and destroyFreeSGroup as its callers).
PCIePool == Pool!Spec

\* A SGroup is in one place only: the free list, w.sgroups, or the hands of one
\* goroutine.  getFreeSGroup promises its caller that nobody else acquires the
\* SGroup (worker.go:276-277); no build, failure or Close breaks that.
OnePlace ==
    /\ IsInjective(freeSGroups \o sgroups)
    /\ \A g \in Range(freeSGroups) :
          creator[g] = "done" /\ builder[g] \in {"none", "finish"}
                              /\ destroyer[g] = "none"
    /\ \A g \in Range(sgroups) :
          builder[g] \in {"none", "finish"} /\ destroyer[g] = "none"

\* A manager's pod has its PCIe device for itself: an index goes back only when
\* its pod is gone, unless Kubernetes failed or took longer than the 20 s
\* of the poll.
DeviceHasOneManager ==
    failures = 0 /\ ~impatient =>
        \A p, q \in {r \in pods : r[1] = "prim"} :
            pcie[p[2]] # None /\ (pcie[p[2]] = pcie[q[2]] => p = q)

\* SGroups whose creator or builder overtook Close, or that reached a list
\* after Close had emptied it.
Missed ==
    Range(freeSGroups \o sgroups)
        \cup {g \in SGroups : creator[g] \notin {"none", "done"} \/ builder[g] # "none"}

\* When Close returns, everything it could find is deleted and given back: a
\* deployment that is left belongs to a SGroup a goroutine was creating or
\* building meanwhile, or Kubernetes refused a call.
CleanClose ==
    main = "closed" /\ failures = 0 =>
        /\ \A p \in pods \ dying : p[2] \in Missed
        /\ \A g \in SGroups \ Missed : pcie[g] = None

\* A SGroup at the barrier while another counted one never joins.
AtShutBarrier == sgroupConns # sgroupTarget /\ \E g \in SGroups : sgLock[g]

\* Close returns, whatever Kubernetes answers and whatever the goroutines nobody
\* waits for do, unless a SGroup stays at the barrier for ever: then the
\* scheduler or destroyAllSGroups waits for its mutex.
CloseReturns == (main = "wait") ~> (main = "closed" \/ []AtShutBarrier)
=============================================================================
