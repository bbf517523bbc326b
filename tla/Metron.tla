-------------------------------- MODULE Metron --------------------------------
(***************************************************************************)
(* The controller with the option "metron" (controller/metron.go, and      *)
(* metronCreateSGroup of controller/background.go): no scheduler, no       *)
(* barrier, a core for each SGroup.  The switch controller reports         *)
(* overloaded ports (UpdatePort); the handler starts a SGroup for every    *)
(* overloaded one of the port's worker and announces it to the switch      *)
(* controller when it is ready.  metronStartUp does the same for an        *)
(* activated DAG.                                                         *)
(*                                                                         *)
(* Handlers run concurrently, and nothing but getFreeSGroup and the lists  *)
(* of SGroups is locked.  A SGroup becomes ready under sg.mutex, during    *)
(* RPCs to its instance (InstanceRpc).                                     *)
(***************************************************************************)
EXTENDS InstanceRpc, Sequences

CONSTANTS
    Workers,
    FreeAtStart,   \* each worker's free SGroups
    Cores,         \* each worker's cores
    Startups,      \* the goroutines of metronStartUp, one for an active DAG
    Handlers,      \* handlers of UpdatePort
    MaxReports,    \* bound: reports of overloaded ports
    MaxFailures    \* bound: builds that fail

\* With one worker metronGetFreeSGroup looks for a second one for ever.  A worker
\* has a core for each of its SGroups, and every SGroup is one worker's.
ASSUME MetronAssumption ==
    /\ IsFiniteSet(Workers) /\ Cardinality(Workers) >= 2
    /\ FreeAtStart \in [Workers -> Seq(SGroups)]
    /\ \A w \in Workers : Len(FreeAtStart[w]) <= Cardinality(Cores[w])
    /\ \A g \in SGroups : \E w \in Workers, i \in 1..Cardinality(SGroups) :
          i \in DOMAIN FreeAtStart[w] /\ FreeAtStart[w][i] = g
    /\ \A v, w \in Workers : \A i \in DOMAIN FreeAtStart[v], j \in DOMAIN FreeAtStart[w] :
          FreeAtStart[v][i] = FreeAtStart[w][j] => v = w /\ i = j
    /\ MaxReports \in Nat /\ MaxFailures \in Nat
    /\ Startups \cap Handlers = {}

Procs == Handlers \cup Startups
\* sg.worker
Home == [g \in SGroups |-> CHOOSE w \in Workers :
             \E i \in DOMAIN FreeAtStart[w] : FreeAtStart[w][i] = g]

VARIABLES
    freeSGroups, sgroups,  \* of each worker
    coreSGroups,           \* core.sGroups
    coreID,
    isReady,
    proc,       \* each process: label, its list of SGroups to look at, the one it
                \* took, the core it found
    announced,  \* how often ofctl was told of a SGroup
    crashed,    \* a nil pointer was dereferenced: the controller is gone
    reports, failures,
    raced       \* history: two processes found the same core idle

listVars == <<freeSGroups, sgroups>>
coreVars == <<coreSGroups, coreID>>
ctlVars  == <<announced, crashed, reports, failures, raced>>
vars == <<rpcVars, listVars, coreVars, isReady, proc, ctlVars>>

NoProc == [at |-> "none", list |-> <<>>, sg |-> None, core |-> None]

\* Activated DAGs: metronStartUp has just been called.
Init ==
    /\ RpcInit
    /\ freeSGroups = FreeAtStart /\ sgroups = [w \in Workers |-> <<>>]
    /\ coreSGroups = [w \in Workers |-> [c \in Cores[w] |-> {}]]
    /\ coreID = [g \in SGroups |-> None] /\ isReady = [g \in SGroups |-> FALSE]
    /\ proc = [p \in Procs |-> IF p \in Startups THEN [NoProc EXCEPT !.at = "choose"]
                               ELSE NoProc]
    /\ announced = [g \in SGroups |-> 0] /\ crashed = FALSE
    /\ reports = 0 /\ failures = 0 /\ raced = FALSE

At(p, label) == proc[p].at = label
Goto(p, label) == proc' = [proc EXCEPT ![p].at = label]

\* sg.mutex is held while the SGroup's cycles are set, sgMutex while a command
\* sets those of one of the worker's SGroups.
Locked(g) == Calling(g)
WorkerLocked(w) == rpc[Console].ins # None /\ Home[rpc[Console].ins] = w

-----------------------------------------------------------------------------
(* metronScaleUp and metronStartUp. *)

\* Where p goes on: the rest of a handler's list.
Finish(p) == proc' = [proc EXCEPT ![p] =
                 [at |-> IF @.list = <<>> THEN "none" ELSE "look", list |-> @.list,
                  sg |-> None, core |-> None]]

\* UpdatePort, metronProcessWorker: the handler ranges over w.sgroups.
UpdatePort(p, w) ==
    /\ p \in Handlers /\ At(p, "none") /\ reports < MaxReports /\ sgroups[w] # <<>>
    /\ reports' = reports + 1
    /\ proc' = [proc EXCEPT ![p].at = "look", ![p].list = sgroups[w]]
    /\ UNCHANGED <<rpcVars, listVars, coreVars, isReady, announced, crashed, failures,
                   raced>>

\* metronIsOverloaded waits for sg.mutex; the load is any.
LookAt(p) ==
    LET rest == Tail(proc[p].list) IN
    /\ At(p, "look") /\ ~Locked(Head(proc[p].list))
    /\ \/ proc' = [proc EXCEPT ![p].at = "choose", ![p].list = rest]
       \/ proc' = [proc EXCEPT ![p].at = IF rest = <<>> THEN "none" ELSE "look",
                               ![p].list = rest]
    /\ UNCHANGED <<rpcVars, listVars, coreVars, isReady, ctlVars>>

\* Mutant: the SGroup stays in the list.
KeepLast(s) == s

DropLast(s) == SubSeq(s, 1, Len(s) - 1)

\* GetPktLoad of a worker returns.
Measurable(w) == ~WorkerLocked(w) /\ \A i \in DOMAIN sgroups[w] : ~Locked(sgroups[w][i])

\* metronGetFreeSGroup: GetPktLoad of two workers takes sgMutex and the mutex of
\* each SGroup, getFreeSGroup the last free SGroup of the less loaded one, if any.
ChooseWorker(p) ==
    /\ At(p, "choose")
    /\ \E w, other \in Workers :
          /\ w # other /\ Measurable(w) /\ Measurable(other)
          /\ IF freeSGroups[w] = <<>>
             THEN Finish(p) /\ UNCHANGED freeSGroups
             ELSE LET s == freeSGroups[w] IN
                  /\ freeSGroups' = [freeSGroups EXCEPT ![w] = DropLast(s)]
                  /\ proc' = [proc EXCEPT ![p].at = "core", ![p].sg = s[Len(s)]]
    /\ UNCHANGED <<rpcVars, sgroups, coreVars, isReady, ctlVars>>

\* Mutant: a core with one SGroup is taken for idle.
IdleOrSingle(w) == {c \in Cores[w] : Cardinality(coreSGroups[w][c]) <= 1}

IdleCores(w) == {c \in Cores[w] : coreSGroups[w][c] = {}}

\* getIdleCore, without a lock: any idle core.  Without one the SGroup is dropped,
\* and its worker looked up through the nil pointer.
FindCore(p) ==
    LET w == Home[proc[p].sg] IN
    /\ At(p, "core")
    /\ IF IdleCores(w) = {}
       THEN crashed' = TRUE /\ UNCHANGED <<proc, raced>>
       ELSE \E c \in IdleCores(w) :
               /\ proc' = [proc EXCEPT ![p].at = "add", ![p].core = c]
               /\ raced' = (raced \/ \E q \in Procs \ {p} :
                              At(q, "add") /\ proc[q].core = c /\ Home[proc[q].sg] = w)
               /\ UNCHANGED crashed
    /\ UNCHANGED <<rpcVars, listVars, coreVars, isReady, announced, reports, failures>>

\* SetCoreID and addSGroup.  An append of another process to the same core at the
\* same time may be lost, or make this one lost.
AddToCore(p) ==
    LET g    == proc[p].sg
        w    == Home[g]
        core == proc[p].core
    IN
    /\ At(p, "add") /\ Goto(p, "build")
    /\ coreID' = [coreID EXCEPT ![g] = core]
    /\ \E lost \in IF \E q \in Procs \ {p} : /\ At(q, "add") /\ proc[q].core = core
                                             /\ Home[proc[q].sg] = w
                   THEN BOOLEAN ELSE {FALSE} :
          coreSGroups' = IF lost THEN coreSGroups
                         ELSE [coreSGroups EXCEPT ![w][core] = @ \cup {g}]
    /\ UNCHANGED <<rpcVars, listVars, isReady, ctlVars>>

\* metronCreateSGroup: the deployment fails and destroySGroup frees the SGroup,
\* which stays in its core's list; or the SGroup is added to w.sgroups (and to its
\* DAG's, which Metron does not read).  The caller polls either way.
CreateSGroup(p) ==
    LET g == proc[p].sg
        w == Home[g]
    IN
    /\ At(p, "build") /\ ~WorkerLocked(w) /\ Goto(p, "poll")
    /\ \/ /\ failures < MaxFailures /\ failures' = failures + 1
          /\ freeSGroups' = [freeSGroups EXCEPT ![w] = Append(@, g)]
          /\ UNCHANGED sgroups
       \/ /\ sgroups' = [sgroups EXCEPT ![w] = Append(@, g)]
          /\ UNCHANGED <<freeSGroups, failures>>
    /\ UNCHANGED <<rpcVars, coreVars, isReady, announced, crashed, reports, raced>>

Deployed(g) == \E i \in DOMAIN sgroups[Home[g]] : sgroups[Home[g]][i] = g

\* Mutant: the poll does not ask.
AnyState(g) == TRUE

IsReady(g) == isReady[g]

\* The poll finds the SGroup ready and announces it ...
Announce(p) ==
    LET g == proc[p].sg IN
    /\ At(p, "poll") /\ ~Locked(g) /\ IsReady(g) /\ Finish(p)
    /\ announced' = [announced EXCEPT ![g] = @ + 1]
    /\ UNCHANGED <<rpcVars, listVars, coreVars, isReady, crashed, reports, failures, raced>>

\* Mutant: the poll has no end.
PollOn(p) == FALSE

TimeIsUp(p) == TRUE

\* ... or 20 s have passed, and nobody will announce it.
StopPolling(p) ==
    /\ At(p, "poll") /\ ~Locked(proc[p].sg) /\ TimeIsUp(p) /\ Finish(p)
    /\ UNCHANGED <<rpcVars, listVars, coreVars, isReady, ctlVars>>

-----------------------------------------------------------------------------
(* A SGroup becomes ready; the commands. *)

\* preprocessBeforeReady, when its pod has reported: adjustRuntimeConfig sets the
\* cycles of the instance, the chain's one NF, a "bypass" ...
Preprocess(g) ==
    /\ Deployed(g) /\ ~isReady[g] /\ ~Locked(g)
    /\ IF g \in Detailed THEN StartRpc(g, g) /\ UNCHANGED isReady
       ELSE isReady' = [isReady EXCEPT ![g] = TRUE] /\ UNCHANGED rpcVars
    /\ UNCHANGED <<listVars, coreVars, proc, ctlVars>>

\* ... and goes on whether or not that worked.
SetUpStep(g) ==
    /\ RpcStep(g)
    /\ isReady' = [isReady EXCEPT ![g] = (rpc'[g].at = "none")]
    /\ UNCHANGED <<listVars, coreVars, proc, ctlVars>>

\* The commands "cycle" and "batch" for an instance that is in the pool.
StartCommand(g) ==
    /\ Deployed(g) /\ StartRpc(Console, g)
    /\ UNCHANGED <<listVars, coreVars, isReady, proc, ctlVars>>

CommandStep ==
    /\ RpcStep(Console) /\ UNCHANGED <<listVars, coreVars, isReady, proc, ctlVars>>

-----------------------------------------------------------------------------
Scale(p) ==
    \/ LookAt(p) \/ ChooseWorker(p) \/ FindCore(p) \/ AddToCore(p) \/ CreateSGroup(p)
    \/ Announce(p) \/ StopPolling(p)

Next ==
    /\ ~crashed
    /\ \/ \E p \in Procs : Scale(p) \/ \E w \in Workers : UpdatePort(p, w)
       \/ \E g \in SGroups : Preprocess(g) \/ SetUpStep(g) \/ StartCommand(g)
       \/ CommandStep

\* Goroutines and calls under way go on.  Pods need not report, nobody has to
\* type, and a command for one worker after the other starves no one: SF.
Spec ==
    /\ Init /\ [][Next]_vars
    /\ \A p \in Procs : SF_vars(Scale(p))
    /\ \A g \in SGroups : WF_vars(SetUpStep(g))
    /\ WF_vars(CommandStep)

-----------------------------------------------------------------------------
(* Properties. *)

\* Every variable has its type.
TypeOK ==
    /\ RpcTypeOK
    /\ \A w \in Workers : /\ freeSGroups[w] \in Seq(SGroups) /\ sgroups[w] \in Seq(SGroups)
                          /\ Len(freeSGroups[w]) + Len(sgroups[w]) <= Cardinality(SGroups)
    /\ \A w \in Workers : coreSGroups[w] \in [Cores[w] -> SUBSET SGroups]
    /\ \A g \in SGroups : coreID[g] \in Cores[Home[g]] \cup {None}
    /\ isReady \in [SGroups -> BOOLEAN]
    /\ \A p \in Procs : /\ proc[p].at \in {"none", "look", "choose", "core", "add",
                                           "build", "poll"}
                        /\ proc[p].sg \in SGroups \cup {None}
    /\ announced \in [SGroups -> Nat] /\ crashed \in BOOLEAN /\ raced \in BOOLEAN
    /\ reports \in 0..MaxReports /\ failures \in 0..MaxFailures

\* Two deployed SGroups are pinned to the same core only if two handlers found it
\* idle at the same time (metron.go:68-69 picks "an idle core").
CoreExclusive ==
    ~raced => \A g, h \in SGroups :
        Deployed(g) /\ Deployed(h) /\ g # h /\ Home[g] = Home[h] => coreID[g] # coreID[h]

\* The controller runs into the nil pointer only after builds have failed: each
\* leaves its SGroup in the list of a core, which is lost for good.
CrashNeedsFailures ==
    crashed => \E w \in Workers :
        failures > Cardinality(Cores[w]) - Len(FreeAtStart[w])

\* A SGroup is announced when it is ready, and once, unless a build has failed: its
\* caller goes on polling the SGroup, which another may have built by then.
AnnouncedOnce ==
    \A g \in SGroups : /\ announced[g] > 0 => isReady[g] /\ Deployed(g)
                       /\ failures = 0 => announced[g] <= 1

\* Every report and the start-up come to an end, however long pods, RPCs and
\* commands take.
ScaleUpEnds == \A p \in Procs : ~At(p, "none") ~> (At(p, "none") \/ crashed)
=============================================================================
