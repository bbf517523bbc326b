------------------------------ MODULE CoreSched ------------------------------
(***************************************************************************)
(* The run time of the SGroups of one worker: the per-worker scheduler     *)
(* goroutine (controller/schedule.go noPackingScheduleOnce), the placement *)
(* of SGroups on cores (sgroup.go and worker.go attachSGroup, detachSGroup,*)
(* core.go) and their activity (SetActive, UpdateTrafficInfo).             *)
(*                                                                         *)
(* Every 100ms the scheduler visits the worker's SGroups.  One that turned *)
(* idle is moved to core 1 and detached there, one that turned active is   *)
(* attached to a core with an empty list.  The controller keeps its view   *)
(* (cores' lists, coreID, isSched); CooperativeSched on the worker has its *)
(* own, changed by RPCs that can fail, or time out after taking effect.    *)
(*                                                                         *)
(* Processes: the scheduler, for each SGroup the goroutine that makes it   *)
(* ready, from the barrier on (SGroupStartup has what comes before), and   *)
(* UpdateFlow handlers.                                                    *)
(* Statistics reports come at any time, and take effect in one step under  *)
(* sg.mutex.                                                               *)
(***************************************************************************)
EXTENDS Naturals, Sequences, FiniteSets

CONSTANTS
    SGroups,         \* the SGroups of the worker
    Cores,           \* its cores
    IdleCore,        \* kFaaSIdleCoreID
    Flows,           \* UpdateFlow handlers
    MIN_IDLE_DURATION,
    SupportQueueLength,
    FaultKinds,      \* how a scheduler's RPC may fail: "lost", "late"
    MaxFaults,       \* bound: how many RPCs fail
    StartupMayFail,  \* bound: whether the RPCs of the start-up are among them
    Scheduler,
    None

ASSUME ConstAssumption ==
    /\ IsFiniteSet(SGroups) /\ IsFiniteSet(Cores)
    /\ IdleCore \in Cores
    /\ Scheduler \notin SGroups
    /\ None \notin SGroups \cup Cores
    /\ MIN_IDLE_DURATION \in Nat \ {0}
    /\ SupportQueueLength \in BOOLEAN /\ StartupMayFail \in BOOLEAN
    /\ FaultKinds \subseteq {"lost", "late"}
    /\ MaxFaults \in Nat

VARIABLES
    sgroups,       \* w.sgroups, in the order of deployment
    cores,         \* core.sGroups of each core
    coreID,        \* sg.coreID
    isReady, isActive, isSched, idleSampleCnt,
    stage,         \* where the goroutine that makes a SGroup ready is
    pc, pos, job, target,  \* the scheduler's pass: label, index in w.sgroups,
                           \* why and where it attaches the SGroup
    snapshot,      \* a process's copy of core 1's list while it changes it
    pending,       \* the SGroup an UpdateFlow handler is about to activate
    known,         \* CooperativeSched has the chain (SetupChain)
    running,       \* the core CooperativeSched runs the chain on
    faults,        \* RPCs that failed
    overdue        \* history: SGroups whose last placement by CooperativeSched
                   \* was a call that took effect but was answered late

passVars  == <<pc, pos, job, target>>
sgVars    == <<isReady, isActive, isSched, idleSampleCnt, coreID>>
schedVars == <<known, running, faults, overdue>>
vars == <<sgroups, cores, sgVars, stage, passVars, snapshot, pending, schedVars>>

-----------------------------------------------------------------------------
Init ==
    /\ sgroups = <<>> /\ cores = [c \in Cores |-> {}]
    /\ coreID = [g \in SGroups |-> None]
    /\ isReady = [g \in SGroups |-> FALSE]
    /\ isActive = [g \in SGroups |-> FALSE]
    /\ isSched = [g \in SGroups |-> FALSE]
    /\ idleSampleCnt = [g \in SGroups |-> 0]
    /\ stage = [g \in SGroups |-> "free"]
    /\ pc = "sleep" /\ pos = 1 /\ job = "run" /\ target = IdleCore
    /\ snapshot = [q \in SGroups \cup {Scheduler} |-> {}]
    /\ pending = [f \in Flows |-> None]
    /\ known = [g \in SGroups |-> FALSE]
    /\ running = [g \in SGroups |-> None]
    /\ faults = 0 /\ overdue = {}

\* sg.mutex is held by the goroutine that makes g ready, the wait at the
\* barrier included.
Locked(g) == stage[g] \in {"barrier", "setup", "attach", "add", "store", "ready"}

\* An RPC that places chain g: it succeeds, or its
\* request is lost, or its answer comes late, after it took effect.  A chain
\* CooperativeSched does not know is refused.
Outcomes(g, mayFail) ==
    (IF known[g] THEN {"ok"} ELSE {"refused"}) \cup
    (IF mayFail /\ faults < MaxFaults THEN FaultKinds ELSE {})

Rpc(g, core, outcome) ==
    /\ running' = IF known[g] /\ outcome # "lost"
                  THEN [running EXCEPT ![g] = core] ELSE running
    /\ faults' = IF outcome \in FaultKinds THEN faults + 1 ELSE faults
    /\ overdue' = CASE outcome = "ok"   -> overdue \ {g}
                    [] outcome = "late" -> overdue \cup {g}
                    [] OTHER            -> overdue
    /\ UNCHANGED known

-----------------------------------------------------------------------------
(* A SGroup is deployed and becomes ready: createSGroup, and                *)
(* preprocessBeforeReady from where it has found the chain complete and up. *)

\* w.sgroups grows under sgMutex, which a pass holds from start to end.
Deploy(g) ==
    /\ stage[g] = "free" /\ pc = "sleep"
    /\ stage' = [stage EXCEPT ![g] = "deployed"]
    /\ sgroups' = Append(sgroups, g)
    /\ UNCHANGED <<cores, sgVars, passVars, snapshot, pending, schedVars>>

\* The chain is complete and its pods have reported: the goroutine takes sg.mutex,
\* adds the SGroup to sgroupConns and waits.  Pods need not report.
Join(g) ==
    /\ stage[g] = "deployed"
    /\ stage' = [stage EXCEPT ![g] = "barrier"]
    /\ UNCHANGED <<sgroups, cores, sgVars, passVars, snapshot, pending, schedVars>>

\* isAllSGroupsConnected: sgroupConns is as long as sgroupTarget, the number of
\* SGroups deployed.
AllConnected == \A g \in SGroups : stage[g] # "deployed"

Release(g) ==
    /\ stage[g] = "barrier" /\ AllConnected
    /\ stage' = [stage EXCEPT ![g] = "setup"]
    /\ UNCHANGED <<sgroups, cores, sgVars, passVars, snapshot, pending, schedVars>>

\* SetupChain registers the chain, detached; an error is only logged.
SetupChain(g) ==
    /\ stage[g] = "setup"
    /\ \E outcome \in {"ok"} \cup
            (IF StartupMayFail /\ faults < MaxFaults THEN FaultKinds ELSE {}) :
        /\ known' = [known EXCEPT ![g] = outcome # "lost"]
        /\ faults' = IF outcome = "ok" THEN faults ELSE faults + 1
    /\ stage' = [stage EXCEPT ![g] = "attach"]
    /\ UNCHANGED <<sgroups, cores, sgVars, passVars, snapshot, pending, running,
                   overdue>>

\* AttachChain to core 1; an error is only logged.
FirstAttach(g) ==
    /\ stage[g] = "attach"
    /\ \E outcome \in Outcomes(g, StartupMayFail) : Rpc(g, IdleCore, outcome)
    /\ stage' = [stage EXCEPT ![g] = "add"]
    /\ UNCHANGED <<sgroups, cores, sgVars, passVars, snapshot, pending>>

\* core.addSGroup without a lock: the list is read, then stored.
AddRead(g) ==
    /\ stage[g] = "add"
    /\ snapshot' = [snapshot EXCEPT ![g] = cores[IdleCore]]
    /\ stage' = [stage EXCEPT ![g] = "store"]
    /\ UNCHANGED <<sgroups, cores, sgVars, passVars, pending, schedVars>>

AddStore(g) ==
    /\ stage[g] = "store"
    /\ cores' = [cores EXCEPT ![IdleCore] = snapshot[g] \cup {g}]
    /\ snapshot' = [snapshot EXCEPT ![g] = {}]
    /\ stage' = [stage EXCEPT ![g] = "ready"]
    /\ UNCHANGED <<sgroups, sgVars, passVars, pending, schedVars>>

SetReady(g) ==
    /\ stage[g] = "ready"
    /\ coreID' = [coreID EXCEPT ![g] = IdleCore]
    /\ isReady' = [isReady EXCEPT ![g] = TRUE]
    /\ isSched' = [isSched EXCEPT ![g] = TRUE]
    /\ stage' = [stage EXCEPT ![g] = "done"]
    /\ UNCHANGED <<sgroups, cores, isActive, idleSampleCnt, passVars, snapshot,
                   pending, schedVars>>

-----------------------------------------------------------------------------
(* Activity. *)

\* UpdateFlow picks a ready SGroup and finds it inactive.  (One it finds
\* active it just returns.)
FindInactive(f, g) ==
    /\ pending[f] = None
    /\ isReady[g] /\ ~isActive[g]
    /\ pending' = [pending EXCEPT ![f] = g]
    /\ UNCHANGED <<sgroups, cores, sgVars, stage, passVars, snapshot, schedVars>>

SetActive(f) ==
    /\ pending[f] # None
    /\ isActive' = [isActive EXCEPT ![pending[f]] = TRUE]
    /\ idleSampleCnt' = [idleSampleCnt EXCEPT ![pending[f]] = 0]
    /\ pending' = [pending EXCEPT ![f] = None]
    /\ UNCHANGED <<sgroups, cores, isReady, isSched, coreID, stage, passVars,
                   snapshot, schedVars>>

\* Mutant: ">" for ">=".
CountPastBound(g) ==
    LET n == idleSampleCnt[g] + 1
    IN /\ idleSampleCnt' = [idleSampleCnt EXCEPT ![g] = n]
       /\ isActive' = [isActive EXCEPT ![g] = n <= MIN_IDLE_DURATION]

\* A sample without traffic counts; the MIN_IDLE_DURATION-th makes the
\* SGroup idle.  (The count stops at that bound: it is only compared to it.)
CountIdle(g) ==
    LET n == IF idleSampleCnt[g] < MIN_IDLE_DURATION
             THEN idleSampleCnt[g] + 1 ELSE idleSampleCnt[g]
    IN /\ idleSampleCnt' = [idleSampleCnt EXCEPT ![g] = n]
       /\ isActive' = [isActive EXCEPT ![g] = n < MIN_IDLE_DURATION]

\* UpdateTrafficInfo, after the egress instance of g reported: |rate| and
\* |queue| say whether packets arrive and whether they are queued.
UpdateTrafficInfo(g, rate, queue) ==
    /\ stage[g] # "free" /\ ~Locked(g)
    /\ \/ /\ isActive[g] /\ ~rate
          /\ SupportQueueLength => ~queue
          /\ CountIdle(g)
       \/ /\ ~isActive[g] /\ SupportQueueLength /\ queue
          /\ isActive' = [isActive EXCEPT ![g] = TRUE]
          /\ UNCHANGED idleSampleCnt
    /\ UNCHANGED <<sgroups, cores, isReady, isSched, coreID, stage, passVars,
                   snapshot, pending, schedVars>>

-----------------------------------------------------------------------------
(* The scheduler's pass, under sgMutex.  Only the scheduler writes coreID   *)
(* and isSched of a ready SGroup and the lists of the cores other than 1.   *)

Cur == sgroups[pos]
Pass(label) == pc' = label /\ UNCHANGED pos
NextSGroup  == pc' = "visit" /\ pos' = pos + 1

BeginPass ==
    /\ pc = "sleep"
    /\ pc' = "visit" /\ pos' = 1
    /\ UNCHANGED <<sgroups, cores, sgVars, stage, job, target, snapshot,
                   pending, schedVars>>

EndPass ==
    /\ pc = "visit" /\ pos > Len(sgroups)
    /\ pc' = "sleep" /\ pos' = 1
    /\ UNCHANGED <<sgroups, cores, sgVars, stage, job, target, snapshot,
                   pending, schedVars>>

Visiting(g) == pc = "visit" /\ pos <= Len(sgroups) /\ g = Cur /\ ~Locked(g)

\* Mutant: a core with one SGroup counts as idle.
IdleCoresOffByOne == {c \in Cores : Cardinality(cores[c]) <= 1}

\* getIdleCore: any core whose list is empty, core 1 included.
IdleCores == {c \in Cores : cores[c] = {}}

\* Nothing to do: not ready, idle and detached, or active and scheduled; or
\* active while the worker runs out of cores.
Leave(g) ==
    /\ Visiting(g)
    /\ \/ ~isReady[g]
       \/ isActive[g] = isSched[g]
       \/ isActive[g] /\ IdleCores = {}
    /\ NextSGroup
    /\ UNCHANGED <<sgroups, cores, sgVars, stage, job, target, snapshot,
                   pending, schedVars>>

\* An idle SGroup still scheduled is attached to core 1, if it is not there,
\* and then detached.
Park(g) ==
    /\ Visiting(g)
    /\ isReady[g] /\ ~isActive[g] /\ isSched[g]
    /\ job' = "park" /\ target' = IdleCore
    /\ Pass(IF coreID[g] = IdleCore THEN "detach" ELSE "remove")
    /\ UNCHANGED <<sgroups, cores, sgVars, stage, snapshot, pending, schedVars>>

\* Mutant: an active SGroup goes to any core that is not the idle core.
RunOnAnyCore(g) ==
    /\ Visiting(g)
    /\ isReady[g] /\ isActive[g] /\ ~isSched[g]
    /\ job' = "run" /\ target' \in Cores \ {IdleCore}
    /\ Pass("remove")
    /\ UNCHANGED <<sgroups, cores, sgVars, stage, snapshot, pending, schedVars>>

\* An active SGroup not scheduled is attached to an idle core.
Run(g) ==
    /\ Visiting(g)
    /\ isReady[g] /\ isActive[g] /\ ~isSched[g]
    /\ job' = "run" /\ target' \in IdleCores
    /\ Pass("remove")
    /\ UNCHANGED <<sgroups, cores, sgVars, stage, snapshot, pending, schedVars>>

\* w.attachSGroup: prevCore.removeSGroup.  Core 1's list is also changed by
\* the goroutines that make SGroups ready: read here, stored in the next step.
RemoveSGroup ==
    /\ pc = "remove"
    /\ IF coreID[Cur] = IdleCore
       THEN /\ snapshot' = [snapshot EXCEPT ![Scheduler] = cores[IdleCore]]
            /\ Pass("removeStore") /\ UNCHANGED cores
       ELSE /\ cores' = [cores EXCEPT ![coreID[Cur]] = @ \ {Cur}]
            /\ Pass("attach") /\ UNCHANGED snapshot
    /\ UNCHANGED <<sgroups, sgVars, stage, job, target, pending, schedVars>>

RemoveStore ==
    /\ pc = "removeStore"
    /\ cores' = [cores EXCEPT ![IdleCore] = snapshot[Scheduler] \ {Cur}]
    /\ snapshot' = [snapshot EXCEPT ![Scheduler] = {}]
    /\ Pass("attach")
    /\ UNCHANGED <<sgroups, sgVars, stage, job, target, pending, schedVars>>

\* Mutant: the error is logged and the SGroup added all the same.
AttachIgnoresErrors ==
    /\ pc = "attach"
    /\ \E outcome \in Outcomes(Cur, TRUE) : Rpc(Cur, target, outcome)
    /\ Pass("add")
    /\ UNCHANGED <<sgroups, cores, sgVars, stage, job, target, snapshot, pending>>

\* AttachChain.  On an error the visit ends, with the SGroup in no list.
AttachChain ==
    /\ pc = "attach"
    /\ \E outcome \in Outcomes(Cur, TRUE) :
        /\ Rpc(Cur, target, outcome)
        /\ IF outcome = "ok" THEN Pass("add") ELSE NextSGroup
    /\ UNCHANGED <<sgroups, cores, sgVars, stage, job, target, snapshot, pending>>

\* What follows core.addSGroup: SetCoreID, SetSched, and the detachment of
\* an idle SGroup.
Attached ==
    /\ coreID' = [coreID EXCEPT ![Cur] = target]
    /\ isSched' = [isSched EXCEPT ![Cur] = TRUE]
    /\ IF job = "park" THEN Pass("detach") ELSE NextSGroup

AddSGroup ==
    /\ pc = "add"
    /\ IF target = IdleCore
       THEN /\ snapshot' = [snapshot EXCEPT ![Scheduler] = cores[IdleCore]]
            /\ Pass("addStore") /\ UNCHANGED <<cores, coreID, isSched>>
       ELSE /\ cores' = [cores EXCEPT ![target] = @ \cup {Cur}]
            /\ Attached /\ UNCHANGED snapshot
    /\ UNCHANGED <<sgroups, isReady, isActive, idleSampleCnt, stage, job,
                   target, pending, schedVars>>

AddStoreOnIdle ==
    /\ pc = "addStore"
    /\ cores' = [cores EXCEPT ![IdleCore] = snapshot[Scheduler] \cup {Cur}]
    /\ snapshot' = [snapshot EXCEPT ![Scheduler] = {}]
    /\ Attached
    /\ UNCHANGED <<sgroups, isReady, isActive, idleSampleCnt, stage, job,
                   target, pending, schedVars>>

\* DetachChain and SetSched(false).
DetachThen(sched) ==
    /\ pc = "detach"
    /\ \E outcome \in Outcomes(Cur, TRUE) :
        /\ Rpc(Cur, None, outcome)
        /\ isSched' = IF outcome = "ok" THEN [isSched EXCEPT ![Cur] = sched]
                                        ELSE isSched
    /\ NextSGroup
    /\ UNCHANGED <<sgroups, cores, isReady, isActive, idleSampleCnt, coreID,
                   stage, job, target, snapshot, pending>>

\* Mutant: isSched is not reset.
DetachKeepsSched == DetachThen(TRUE)

DetachChain == DetachThen(FALSE)

-----------------------------------------------------------------------------
Startup(g) ==
    \/ Release(g) \/ SetupChain(g) \/ FirstAttach(g)
    \/ AddRead(g) \/ AddStore(g) \/ SetReady(g)

ScheduleOnce ==
    \/ BeginPass \/ EndPass
    \/ \E g \in SGroups : Leave(g) \/ Park(g) \/ Run(g)
    \/ RemoveSGroup \/ RemoveStore \/ AttachChain
    \/ AddSGroup \/ AddStoreOnIdle \/ DetachChain

Next ==
    \/ \E g \in SGroups : Deploy(g) \/ Join(g) \/ Startup(g)
    \/ \E f \in Flows, g \in SGroups : FindInactive(f, g)
    \/ \E f \in Flows : SetActive(f)
    \/ \E g \in SGroups, rate, queue \in BOOLEAN :
            UpdateTrafficInfo(g, rate, queue)
    \/ ScheduleOnce

Spec == Init /\ [][Next]_vars

(* Fairness: goroutines that can take a step take it in the end.  A mutex   *)
(* of a SGroup is held by its start-up only, once, so weak fairness will do *)
(* for the steps that wait for it, which are disabled as long as it is held.*)
(* Nothing is assumed of flows, of reports, and of the pods a Join needs: a *)
(* barrier may stay shut, and a pass that waits there goes no further.      *)
Fairness ==
    /\ WF_vars(ScheduleOnce)
    /\ WF_vars(\E g \in SGroups : Startup(g))
    /\ WF_vars(\E f \in Flows : SetActive(f))

FairSpec == Spec /\ Fairness

-----------------------------------------------------------------------------
(* Properties. *)

Labels == {"sleep", "visit", "remove", "removeStore", "attach", "add",
           "addStore", "detach"}
Stages == {"free", "deployed", "barrier", "setup", "attach", "add", "store", "ready", "done"}

\* Every variable stays in its range, and inside a visit the scheduler is at
\* a SGroup of the worker.
TypeOK ==
    /\ sgroups \in Seq(SGroups)
    /\ cores \in [Cores -> SUBSET SGroups]
    /\ coreID \in [SGroups -> Cores \cup {None}]
    /\ isReady \in [SGroups -> BOOLEAN] /\ isActive \in [SGroups -> BOOLEAN]
    /\ isSched \in [SGroups -> BOOLEAN]
    /\ idleSampleCnt \in [SGroups -> 0 .. MIN_IDLE_DURATION]
    /\ stage \in [SGroups -> Stages]
    /\ pc \in Labels /\ pos \in Nat \ {0}
    /\ job \in {"run", "park"} /\ target \in Cores
    /\ pc \notin {"sleep", "visit"} => pos <= Len(sgroups)
    /\ snapshot \in [SGroups \cup {Scheduler} -> SUBSET SGroups]
    /\ pending \in [Flows -> SGroups \cup {None}]
    /\ known \in [SGroups -> BOOLEAN]
    /\ running \in [SGroups -> Cores \cup {None}]
    /\ faults \in Nat /\ overdue \subseteq SGroups

\* The scheduler is between removing g from its old core and writing down
\* the new one.
Moving(g) ==
    /\ pc \in {"attach", "removeStore", "add", "addStore", "detach"}
    /\ g = Cur

\* noPackingScheduleOnce packs nothing, whatever calls fail: a core other
\* than core 1 lists at most one SGroup, and that SGroup has its id.
NoPacking ==
    \A c \in Cores \ {IdleCore} : \A g \in cores[c] :
        cores[c] = {g} /\ coreID[g] = c

\* As long as no call has failed, the controller and CooperativeSched agree
\* on each ready SGroup the scheduler is not just moving: it runs if it is
\* scheduled, and on the core with its id.
ViewsAgree ==
    faults = 0 =>
        \A g \in SGroups : isReady[g] /\ ~Moving(g) =>
            running[g] = IF isSched[g] THEN coreID[g] ELSE None

\* ... and no two chains run on the same core, core 1 excepted.
ExclusiveCore ==
    \A g, h \in SGroups :
        g # h /\ running[g] = running[h] => running[g] \in {None, IdleCore}

ExclusiveUnlessFailed == faults = 0 => ExclusiveCore

\* A SGroup holds its mutex at the barrier while one that is deployed is not up.
\* The pass that reaches it waits in IsReady, with sgMutex.
BarrierShut == (\E g \in SGroups : stage[g] = "barrier") /\ ~AllConnected

\* A call that was answered late has left isSched wrong: attachSGroup returned
\* before SetSched(true), or detachSGroup before SetSched(false).
Misled(g) == g \in overdue /\ (isSched[g] <=> running[g] = None)

\* A visit finds g active and not scheduled, and no core for it.
OutOfCores(g) == Leave(g) /\ isReady[g] /\ isActive[g] /\ ~isSched[g]

\* A SGroup that stays idle is detached, in both views, though calls get lost or
\* are answered late now and then; unless a barrier stays shut, or a late answer
\* to its attachment is never made up for.
IdleIsDetached ==
    \A g \in SGroups :
        <>[](isReady[g] /\ ~isActive[g]) =>
            \/ <>[](~isSched[g] /\ running[g] = None)
            \/ <>[]BarrierShut \/ <>[]Misled(g)

\* A SGroup that stays active runs, in both views, with the same exceptions; or
\* the worker is out of cores again and again when it is visited.
ActiveRuns ==
    \A g \in SGroups :
        <>[](isReady[g] /\ isActive[g]) =>
            \/ <>[](isSched[g] /\ running[g] # None)
            \/ <>[]BarrierShut \/ <>[]Misled(g)
            \/ []<><<OutOfCores(g)>>_vars

\* schedule.go: "|sg| is ready and active. Schedule the sg with one idle CPU
\* core."  When a pass leaves an active SGroup where it is scheduled, no
\* other chain runs on that core.
ActiveOnOwnCore ==
    [][\A g \in SGroups : Leave(g) /\ isReady[g] /\ isActive[g] /\ isSched[g] =>
            \A h \in SGroups \ {g} : running[h] # coreID[g]]_vars

\* schedule.go, getIdleCore: "The CPU core does not run any NF chains."  (Core
\* 1 aside, where chains run before they are first detached.)
IdleCoreRunsNothing ==
    [][\A g \in SGroups : Run(g) /\ target' # IdleCore =>
            \A h \in SGroups : running[h] # target']_vars
=============================================================================
