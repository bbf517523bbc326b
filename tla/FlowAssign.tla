------------------------------ MODULE FlowAssign ------------------------------
(***************************************************************************)
(* From a packet to a chain, and back: the flow handler of the OpenFlow    *)
(* switch (of_script/faas_flow_handler.py), UpdateFlow on the controller   *)
(* (grpc/grpc_server.go, controller/load_balance.go), the DAGs it matches  *)
(* flows with (Dag), the SGroups it finds or starts, and the command line  *)
(* beside it (cli/executor.go): activation of a DAG, SGroups created and   *)
(* destroyed by hand.                                                      *)
(*                                                                         *)
(* Processes: the switch's handler, which asks about one flow at a time    *)
(* and waits; the command line, which runs one command at a time; a        *)
(* builder for each SGroup UpdateFlow takes; a starter per worker while a  *)
(* DAG is activated; the goroutines of the instances' reports.  The last   *)
(* three are SGroupStartup's; here createSGroup is cut down to what flows  *)
(* and commands can see, and the worker's sgMutex, which SGroupStartup     *)
(* shows to be released again, is taken for one step.                      *)
(***************************************************************************)
EXTENDS Dag

CONSTANTS
    Users,
    Workers, SGroups,
    FreeAtStart,   \* each worker's free SGroups, in the order they were made
    Flows,         \* that arrive at the switch: src, dstPort, and the worker
                   \* background traffic to this port goes to, or None
    TypedFlows,    \* that are typed on the command line
    ExpFlowlet,    \* the flowlet of the "exp" commands
    MaxCommands,   \* bound: commands typed
    MaxNFs,        \* bound: NFs of a DAG
    MaxFaults,     \* bound: builds that fail, and reconnections of the switch
    None

Switch  == "switch"
Console == "console"
Callers == {Switch, Console}              \* run UpdateFlow

\* Every SGroup is one worker's.
ASSUME ConstAssumption ==
    /\ IsFiniteSet(Workers) /\ IsFiniteSet(SGroups) /\ IsFiniteSet(Flows)
    /\ FreeAtStart \in [Workers -> Seq(SGroups)]
    /\ \A g \in SGroups : \E w \in Workers, i \in 1..Cardinality(SGroups) :
          i \in DOMAIN FreeAtStart[w] /\ FreeAtStart[w][i] = g
    /\ \A v, w \in Workers : \A i \in DOMAIN FreeAtStart[v], j \in DOMAIN FreeAtStart[w] :
          FreeAtStart[v][i] = FreeAtStart[w][j] => v = w /\ i = j
    /\ \A f \in Flows \cup TypedFlows : f.background \in Workers \cup {None}
    /\ {MaxCommands, MaxNFs, MaxFaults} \subseteq Nat
    /\ Workers \cap SGroups = {} /\ None \notin Users \cup Workers \cup SGroups
    /\ Console \notin Workers \cup SGroups \cup {None}

\* sg.worker
Home == [g \in SGroups |-> CHOOSE w \in Workers :
             \E i \in DOMAIN FreeAtStart[w] : FreeAtStart[w][i] = g]
Procs == SGroups \cup Workers \cup {Console}   \* run createSGroup

VARIABLES
    dags,          \* c.dags; a user without NFs has newDAG
    cmd,           \* where the command line is
    cmdUser,       \* the DAG it activates
    added,         \* SGroup and list length "add" has read
    commands,
    proc,          \* each process of createSGroup: label, SGroup, DAG, chain
    freeArray, freeLen,    \* w.freeSGroups: the array under the slice, its length
    sgroups, conns, target, \* w.sgroups, len(w.sgroupConns), w.sgroupTarget
    instances, isComplete, isReady, dagOf,  \* of each SGroup
    sgLock,        \* whether a goroutine at the barrier holds sg.mutex
    call,          \* each caller of UpdateFlow: label, flow, DAG
    known,         \* self._flows
    entry,         \* self._flows_table_entries: none, fresh or older than 60 s
    rule,          \* the switch's own table
    faults,        \* failed builds and reconnections
    failed,        \* history: SGroups of which a build has failed
    renewed,       \* history: DAGs activated again, or in vain
    byHand         \* history: rm was used, or add was overtaken

cmdVars  == <<cmd, cmdUser, added, commands>>
freeVars == <<freeArray, freeLen>>
barVars  == <<conns, target, isReady, sgLock>>
sgVars   == <<sgroups, instances, isComplete, dagOf>>
swVars   == <<known, entry, rule>>
histVars == <<faults, failed, renewed, byHand>>
vars == <<dags, cmdVars, proc, freeVars, barVars, sgVars, call, swVars, histVars>>

Idle == [at |-> "none", sg |-> None, dag |-> None, chain |-> <<>>]
NoCall == [at |-> "none", flow |-> None, dag |-> None]

\* All free SGroups are made (WorkerLifecycle), no DAG exists.
Init ==
    /\ dags = [u \in Users |-> newDAG]
    /\ cmd = "idle" /\ cmdUser = None /\ added = <<None, 0>> /\ commands = 0
    /\ proc = [p \in Procs |-> Idle]
    /\ freeArray = FreeAtStart /\ freeLen = [w \in Workers |-> Len(FreeAtStart[w])]
    /\ sgroups = [w \in Workers |-> <<>>]
    /\ conns = [w \in Workers |-> 0] /\ target = [w \in Workers |-> 0]
    /\ instances = [g \in SGroups |-> <<>>] /\ dagOf = [g \in SGroups |-> None]
    /\ isComplete = [g \in SGroups |-> FALSE]
    /\ isReady = [g \in SGroups |-> FALSE] /\ sgLock = [g \in SGroups |-> FALSE]
    /\ call = [c \in Callers |-> NoCall]
    /\ known = {} /\ entry = [f \in Flows |-> "none"] /\ rule = [f \in Flows |-> None]
    /\ faults = 0 /\ failed = {} /\ renewed = {} /\ byHand = FALSE

-----------------------------------------------------------------------------
(* The list of free SGroups of a worker. *)

Free(w) == SubSeq(freeArray[w], 1, freeLen[w])

\* Mutant: the SGroup stays in the list.
KeepLength(w) == freeLen

Shorten(w) == [freeLen EXCEPT ![w] = @ - 1]

\* getFreeSGroup takes the last one.
TakeFree(w, g) ==
    /\ freeLen[w] > 0 /\ g = freeArray[w][freeLen[w]]
    /\ freeLen' = Shorten(w) /\ UNCHANGED freeArray

\* append writes behind the slice, over what a shorter slice left in the array.
PutFree(g) ==
    LET w == Home[g]
        n == freeLen[w] + 1
    IN
    /\ freeArray' = [freeArray EXCEPT ![w] =
           IF n <= Len(@) THEN [@ EXCEPT ![n] = g] ELSE Append(@, g)]
    /\ freeLen' = [freeLen EXCEPT ![w] = n]

-----------------------------------------------------------------------------
(* createSGroup, run by process p. *)

At(p, label) == proc[p].at = label
Goto(p, label) == proc' = [proc EXCEPT ![p].at = label]

\* The range over dag.chains reads the slice once.  The goroutine of UpdateFlow does
\* so while the command line goes on, and may see what Activate has so far; starters
\* and "add", for which the command line waits, at once.
ReadChain(p) ==
    /\ At(p, "start")
    /\ proc' = [proc EXCEPT ![p].at = "build", ![p].chain = dags[proc[p].dag].chains]
    /\ UNCHANGED <<dags, cmdVars, freeVars, barVars, sgVars, call, swVars, histVars>>

Where(p) == IF p \in Workers THEN "take" ELSE "none"

\* Where process p goes on when createSGroup returns.
Return(p) == proc' = [proc EXCEPT ![p] = [Idle EXCEPT !.at = Where(p),
                          !.dag = IF p \in Workers THEN cmdUser ELSE None]]

\* Reset: the flags isReady and isComplete stay.
Reset(g) ==
    /\ ~sgLock[g]
    /\ instances' = [instances EXCEPT ![g] = <<>>]
    /\ dagOf' = [dagOf EXCEPT ![g] = None]

\* A createInstance fails: destroySGroup.
FailBuild(p) ==
    LET g == proc[p].sg IN
    /\ At(p, "build") /\ proc[p].chain # <<>> /\ faults < MaxFaults
    /\ Reset(g) /\ PutFree(g) /\ Return(p)
    /\ faults' = faults + 1 /\ failed' = failed \cup {g}
    /\ UNCHANGED <<dags, cmdVars, barVars, sgroups, isComplete, call, swVars,
                   renewed, byHand>>

\* All instances are created and appended; then w.sgroups and the barrier's target
\* change under sgMutex.
Deploy(p) ==
    LET g == proc[p].sg
        w == Home[g]
    IN
    /\ At(p, "build") /\ ~sgLock[g] /\ Goto(p, "link")
    /\ instances' = [instances EXCEPT ![g] = @ \o proc[p].chain]
    /\ sgroups' = [sgroups EXCEPT ![w] = Append(@, g)]
    /\ target' = [target EXCEPT ![w] = @ + 1]
    /\ UNCHANGED <<dags, cmdVars, freeVars, conns, isReady, sgLock, isComplete,
                   dagOf, call, swVars, histVars>>

\* dag.sgroups = append(dag.sgroups, sg) without a lock: an append of another
\* process at the same line may be lost, or overwrite this one.
Link(p) ==
    LET g == proc[p].sg
        u == proc[p].dag
        others == \E q \in Procs \ {p} : At(q, "link") /\ proc[q].dag = u
    IN
    /\ At(p, "link") /\ Return(p)
    /\ IF u = None THEN UNCHANGED dags
       ELSE \E lost \in IF others THEN BOOLEAN ELSE {FALSE} :
               dags' = IF lost THEN dags
                       ELSE [dags EXCEPT ![u].sgroups = @ \cup {g}]
    /\ dagOf' = [dagOf EXCEPT ![g] = u]
    /\ isComplete' = [isComplete EXCEPT ![g] = TRUE]
    /\ UNCHANGED <<cmdVars, freeVars, barVars, sgroups, instances, call,
                   swVars, histVars>>

\* Mutant: a ready SGroup is handled again.
MayJoinAgain(g) == isComplete[g]

MayJoin(g) == isComplete[g] /\ ~isReady[g]

\* Mutant: the SGroup does not add itself to w.sgroupConns.
NotConnected(w) == conns

Connected(w) == [conns EXCEPT ![w] = @ + 1]

\* preprocessBeforeReady, called by createSGroup or by the report of the last of
\* the pods, takes sg.mutex and adds the SGroup to w.sgroupConns ...
JoinBarrier(g) ==
    /\ MayJoin(g) /\ ~sgLock[g]
    /\ sgLock' = [sgLock EXCEPT ![g] = TRUE]
    /\ conns' = Connected(Home[g])
    /\ UNCHANGED <<dags, cmdVars, proc, freeVars, target, isReady, sgVars, call,
                   swVars, histVars>>

\* ... and polls until all deployed SGroups of the worker have.
OpenBarrier(g) ==
    /\ sgLock[g] /\ conns[Home[g]] = target[Home[g]]
    /\ sgLock' = [sgLock EXCEPT ![g] = FALSE]
    /\ isReady' = [isReady EXCEPT ![g] = TRUE]
    /\ UNCHANGED <<dags, cmdVars, proc, freeVars, conns, target, sgVars, call,
                   swVars, histVars>>

createSGroup(p) ==
    ReadChain(p) \/ FailBuild(p) \/ Deploy(p) \/ Link(p)

-----------------------------------------------------------------------------
(* UpdateFlow, run by the switch's handler or the command "flow". *)

\* The handler installs a rule, which replaces an older one, and notes it.
Install(f, g) ==
    /\ rule' = [rule EXCEPT ![f] = g]
    /\ entry' = [entry EXCEPT ![f] = "fresh"]

\* The answer: a SGroup (its worker's port and its MAC address), or an error.
\* On an error the handler's stub raises, and nothing else happens.  Who is
\* answered with a ready SGroup also makes it active (CoreSched).
Answer(c, g) ==
    /\ call' = [call EXCEPT ![c] = NoCall]
    /\ IF c = Switch /\ g # None THEN Install(call[c].flow, g)
       ELSE UNCHANGED <<rule, entry>>
    /\ cmd' = IF c = Console THEN "idle" ELSE cmd
    /\ UNCHANGED <<cmdUser, added, commands, known>>

Deployed(g) == \E i \in DOMAIN sgroups[Home[g]] : sgroups[Home[g]][i] = g

Asking(c, label) == call[c].at = label

\* Background traffic: the worker's first SGroup, ready or not.  IsActive waits
\* for its mutex.
Background(c) ==
    LET f == call[c].flow IN
    /\ Asking(c, "match") /\ f.background # None
    /\ sgroups[f.background] # <<>> /\ ~sgLock[Head(sgroups[f.background])]
    /\ Answer(c, Head(sgroups[f.background]))
    /\ UNCHANGED <<dags, proc, freeVars, barVars, sgVars, histVars>>

\* The first DAG that matches, in the order of a map: any.
MatchDAG(c) ==
    LET f == call[c].flow
        matching == {u \in Users : Match(dags[u], f)}
    IN
    /\ Asking(c, "match")
    /\ f.background # None => sgroups[f.background] = <<>>
    /\ \/ matching = {} /\ Answer(c, None)
       \/ \E u \in matching :
             IF dags[u].isActive
             THEN /\ call' = [call EXCEPT ![c].at = "scan", ![c].dag = u]
                  /\ UNCHANGED <<cmdVars, swVars>>
             ELSE Answer(c, None)
    /\ UNCHANGED <<dags, proc, freeVars, barVars, sgVars, histVars>>

\* Mutant: the SGroups of all DAGs.
AllSGroups(u) == {g \in SGroups : Deployed(g)}

SGroupsOf(u) == dags[u].sgroups

\* findAvailableSGroupHighLoadFirst looks at all SGroups of the DAG twice, first
\* for one with a short queue: IsReady waits for the mutex of each in turn, here
\* until all are free.  Which of the ready ones it takes, or whether it finds all
\* overloaded, depends on the load: any.
FindAvailableSGroup(c) ==
    LET list == SGroupsOf(call[c].dag) IN
    /\ Asking(c, "scan") /\ \A g \in list : ~sgLock[g]
    /\ \E g \in list : isReady[g] /\ Answer(c, g)
    /\ UNCHANGED <<dags, proc, freeVars, barVars, sgVars, histVars>>

\* None of them will do: getFreeSGroup, workers in any order, and go createSGroup.
ScaleUp(c) ==
    /\ Asking(c, "scan") /\ \A g \in SGroupsOf(call[c].dag) : ~sgLock[g]
    /\ \/ \E w \in Workers, g \in SGroups :
             /\ TakeFree(w, g) /\ At(g, "none") /\ Answer(c, g)
             /\ proc' = [proc EXCEPT ![g] = [at |-> "start", sg |-> g,
                                             dag |-> call[c].dag, chain |-> <<>>]]
       \/ /\ \A w \in Workers : freeLen[w] = 0
          /\ Answer(c, None) /\ UNCHANGED <<freeVars, proc>>
    /\ UNCHANGED <<dags, barVars, sgVars, histVars>>

UpdateFlow(c) == Background(c) \/ MatchDAG(c) \/ FindAvailableSGroup(c) \/ ScaleUp(c)

-----------------------------------------------------------------------------
(* The switch and its flow handler. *)

\* Mutant: a flow with an entry is never asked about again.
AskOnce(f) == f \notin known

\* A flow is asked about when it is new, or its entry is older than the idle
\* time-out; else the packet is dropped, also when the first call failed.
MustAsk(f) == f \notin known \/ entry[f] = "old"

\* A packet for which the switch has no rule.
PacketIn(f) ==
    /\ rule[f] = None /\ Asking(Switch, "none") /\ MustAsk(f)
    /\ known' = known \cup {f}
    /\ call' = [call EXCEPT ![Switch] = [NoCall EXCEPT !.at = "match", !.flow = f]]
    /\ UNCHANGED <<dags, cmdVars, proc, freeVars, barVars, sgVars, entry, rule,
                   histVars>>

\* The rule's idle time-out, not before the entry is 60 s old.
ExpireRule(f) ==
    /\ rule[f] # None /\ rule' = [rule EXCEPT ![f] = None]
    /\ entry' = [entry EXCEPT ![f] = "old"]
    /\ UNCHANGED <<dags, cmdVars, proc, freeVars, barVars, sgVars, call, known, histVars>>

\* 60 s after a rule that is lost was installed.
Age(f) ==
    /\ rule[f] = None /\ entry[f] = "fresh" /\ entry' = [entry EXCEPT ![f] = "old"]
    /\ UNCHANGED <<dags, cmdVars, proc, freeVars, barVars, sgVars, call, known, rule,
                   histVars>>

\* switch_features_handler deletes all rules; the handler's tables stay.
Reconnect ==
    /\ faults < MaxFaults /\ faults' = faults + 1
    /\ rule' = [f \in Flows |-> None]
    /\ UNCHANGED <<dags, cmdVars, proc, freeVars, barVars, sgVars, call, known, entry,
                   failed, renewed, byHand>>

-----------------------------------------------------------------------------
(* The command line. *)

Type(next) ==
    /\ cmd = "idle" /\ commands < MaxCommands
    /\ commands' = commands + 1 /\ cmd' = next

\* deploy, connect: NFs and edges are read by the command line only.
DeployNF(u) ==
    /\ Type("idle") /\ Len(dags[u].next) < MaxNFs
    /\ dags' = [dags EXCEPT ![u] = addNF(@)]
    /\ UNCHANGED <<cmdUser, added, proc, freeVars, barVars, sgVars, call, swVars, histVars>>

ConnectNFs(u) ==
    /\ Type("idle")
    /\ \E up, down \in NFs(dags[u]) :
          /\ Len(dags[u].next[up]) < 2     \* bound: two successors
          /\ dags' = [dags EXCEPT ![u] = connectNFs(@, up, down)]
    /\ UNCHANGED <<cmdUser, added, proc, freeVars, barVars, sgVars, call, swVars, histVars>>

\* exp: two NFs, an edge, a flowlet, and then activate.
Exp(u) ==
    LET n == Len(dags[u].next) IN
    /\ Type("activate") /\ cmdUser' = u /\ n + 2 <= MaxNFs
    /\ dags' = [dags EXCEPT ![u] =
           addFlow(connectNFs(addNF(addNF(@)), n + 1, n + 2), ExpFlowlet)]
    /\ UNCHANGED <<added, proc, freeVars, barVars, sgVars, call, swVars, histVars>>

Activate(u) ==
    /\ Type("activate") /\ cmdUser' = u /\ dags[u].flowlets # {}
    /\ UNCHANGED <<dags, added, proc, freeVars, barVars, sgVars, call, swVars, histVars>>

\* Mutant: the DAG is active before its chain is there.
EarlyActive(dag) == [dag EXCEPT !.chains = <<>>, !.isActive = TRUE]

ClearChains(dag) == [dag EXCEPT !.chains = <<>>]

\* DAG.Activate drops the chain and walks the graph anew; without a single
\* ingress it fails, which ActivateDAG does not look at.
BeginActivate ==
    /\ cmd = "activate"
    /\ IF HasIngress(dags[cmdUser])
       THEN /\ cmd' = "walk"
            /\ dags' = [dags EXCEPT ![cmdUser] = ClearChains(@)]
            /\ renewed' = IF dags[cmdUser].isActive THEN renewed \cup {cmdUser} ELSE renewed
       ELSE cmd' = "spawn" /\ renewed' = renewed \cup {cmdUser} /\ UNCHANGED dags
    /\ UNCHANGED <<cmdUser, added, commands, proc, freeVars, barVars, sgVars, call,
                   swVars, faults, failed, byHand>>

\* Bound: a chain that goes round a cycle grows up to the number of NFs.
WalkOn ==
    LET dag == dags[cmdUser] IN
    /\ cmd = "walk" /\ Len(dag.chains) < Len(dag.next)
    /\ \E nf \in NFs(dag) :
          Curr(dag, nf) /\ dags' = [dags EXCEPT ![cmdUser] = AppendNF(@, nf)]
    /\ UNCHANGED <<cmdVars, proc, freeVars, barVars, sgVars, call, swVars, histVars>>

EndActivate ==
    /\ cmd = "walk" /\ WalkEnds(dags[cmdUser]) /\ cmd' = "spawn"
    /\ dags' = [dags EXCEPT ![cmdUser].isActive = TRUE]
    /\ UNCHANGED <<cmdUser, added, commands, proc, freeVars, barVars, sgVars, call,
                   swVars, histVars>>

\* ActivateDAG: a starter on each worker, which the command line waits for.
Spawn ==
    /\ cmd = "spawn" /\ cmd' = "wait"
    /\ proc' = [p \in Procs |-> IF p \in Workers
                                THEN [Idle EXCEPT !.at = "take", !.dag = cmdUser]
                                ELSE proc[p]]
    /\ UNCHANGED <<dags, cmdUser, added, commands, freeVars, barVars, sgVars, call,
                   swVars, histVars>>

\* It takes free SGroups until there is none.  countPendingSGroups is far below
\* its limit of 20.
Starter(w) ==
    /\ At(w, "take")
    /\ IF freeLen[w] = 0
       THEN proc' = [proc EXCEPT ![w] = Idle] /\ UNCHANGED freeVars
       ELSE \E g \in SGroups :
               /\ TakeFree(w, g)
               /\ proc' = [proc EXCEPT ![w].at = "build", ![w].sg = g,
                                       ![w].chain = dags[proc[w].dag].chains]
    /\ UNCHANGED <<dags, cmdVars, barVars, sgVars, call, swVars, histVars>>

EndCommand ==
    /\ \/ cmd = "wait" /\ \A w \in Workers : At(w, "none")
       \/ cmd = "adding" /\ At(Console, "none")
    /\ cmd' = "idle" /\ cmdUser' = None
    /\ UNCHANGED <<dags, added, commands, proc, freeVars, barVars, sgVars, call,
                   swVars, histVars>>

\* add, for a new DAG of one NF (two are not connected, and are refused): the list
\* is read and cut without sgMutex.
AddRead(w) ==
    /\ Type("add") /\ freeLen[w] > 0
    /\ added' = <<freeArray[w][freeLen[w]], freeLen[w]>>
    /\ UNCHANGED <<dags, cmdUser, proc, freeVars, barVars, sgVars, call, swVars, histVars>>

AddTake ==
    LET g == added[1]
        w == Home[g]
    IN
    /\ cmd = "add" /\ cmd' = "adding" /\ added' = <<None, 0>>
    /\ freeLen' = [freeLen EXCEPT ![w] = added[2] - 1] /\ UNCHANGED freeArray
    /\ proc' = [proc EXCEPT ![Console] = [Idle EXCEPT !.at = "build", !.sg = g,
                                                  !.chain = <<1>>]]
    /\ byHand' = (byHand \/ freeLen[w] # added[2] \/ freeArray[w][added[2]] # g)
    /\ UNCHANGED <<dags, cmdUser, commands, barVars, sgVars, call, swVars, faults,
                   failed, renewed>>

\* rm finds deployed SGroups only, and leaves them in w.sgroups and in the DAG.
DestroySGroup(g) ==
    /\ Type("idle") /\ Deployed(g)
    /\ Reset(g) /\ PutFree(g) /\ byHand' = TRUE
    /\ UNCHANGED <<dags, cmdUser, added, proc, barVars, sgroups, isComplete, call,
                   swVars, faults, failed, renewed>>

FlowCommand(f) ==
    /\ Type("flow")
    /\ call' = [call EXCEPT ![Console] = [NoCall EXCEPT !.at = "match", !.flow = f]]
    /\ UNCHANGED <<dags, cmdUser, added, proc, freeVars, barVars, sgVars, swVars, histVars>>

Command ==
    \/ \E u \in Users : DeployNF(u) \/ ConnectNFs(u) \/ Exp(u) \/ Activate(u)
    \/ \E w \in Workers : AddRead(w)
    \/ \E g \in SGroups : DestroySGroup(g)
    \/ \E f \in TypedFlows : FlowCommand(f)

RunCommand == BeginActivate \/ WalkOn \/ EndActivate \/ Spawn \/ AddTake \/ EndCommand

-----------------------------------------------------------------------------
\* Bound: what happens after byHand is not explored.
Next ==
    /\ ~byHand
    /\ \/ Command \/ RunCommand \/ Reconnect
       \/ \E c \in Callers : UpdateFlow(c)
       \/ \E p \in Procs : createSGroup(p)
       \/ \E w \in Workers : Starter(w)
       \/ \E g \in SGroups : JoinBarrier(g) \/ OpenBarrier(g)
       \/ \E f \in Flows : PacketIn(f) \/ Age(f) \/ ExpireRule(f)

\* Goroutines run, pods report, time passes and packets keep coming.  Nobody has
\* to type, fail, reconnect or stop sending.
Spec ==
    /\ Init /\ [][Next]_vars
    /\ WF_vars(RunCommand)
    /\ \A c \in Callers : WF_vars(UpdateFlow(c))
    /\ \A p \in Procs : WF_vars(createSGroup(p))
    /\ \A w \in Workers : WF_vars(Starter(w))
    /\ \A g \in SGroups : WF_vars(JoinBarrier(g)) /\ WF_vars(OpenBarrier(g))
    /\ \A f \in Flows : SF_vars(PacketIn(f)) /\ WF_vars(Age(f))

-----------------------------------------------------------------------------
(* Properties. *)

\* Every variable has its type; no SGroup is counted at the barrier twice.
TypeOK ==
    /\ \A u \in Users : /\ dags[u].isActive \in BOOLEAN
                        /\ dags[u].sgroups \subseteq SGroups
    /\ cmd \in {"idle", "activate", "walk", "spawn", "wait", "add", "adding", "flow"}
    /\ cmdUser \in Users \cup {None} /\ commands \in 0..MaxCommands
    /\ \A p \in Procs :
          /\ proc[p].at \in {"none", "take", "start", "build", "link"}
          /\ proc[p].sg \in SGroups \cup {None} /\ proc[p].dag \in Users \cup {None}
    /\ \A w \in Workers : freeLen[w] \in 0..Len(freeArray[w]) /\ conns[w] \in 0..target[w]
    /\ {isComplete, isReady, sgLock} \subseteq [SGroups -> BOOLEAN]
    /\ dagOf \in [SGroups -> Users \cup {None}]
    /\ \A c \in Callers : call[c].at \in {"none", "match", "scan"}
    /\ known \subseteq Flows /\ entry \in [Flows -> {"none", "fresh", "old"}]
    /\ rule \in [Flows -> SGroups \cup {None}]

\* Processes that have taken SGroup g and not yet deployed it.
Owners(g) == {p \in Procs : proc[p].sg = g /\ proc[p].at \in {"start", "build"}}

\* A SGroup is free, being built by one process, or deployed, once, as long as
\* nothing was removed by hand and no "add" was overtaken by another process
\* (worker.go:274-277: "No one else should acquire |sg| at the same time").
OneOwner ==
    ~byHand => \A g \in SGroups :
        LET inFree == {i \in 1..freeLen[Home[g]] : freeArray[Home[g]][i] = g}
            placed == {i \in DOMAIN sgroups[Home[g]] : sgroups[Home[g]][i] = g}
        IN Cardinality(inFree) + Cardinality(Owners(g)) + Cardinality(placed) = 1

\* The switch sends a flow to a SGroup that serves, or is being built for, a DAG
\* the flow belongs to.  A build that fails takes this away: the rule stays, and
\* the SGroup may be built for another user; so do "rm" and an overtaken "add".
RuleServes ==
    \A f \in Flows : LET g == rule[f] IN
        g # None /\ f.background = None /\ g \notin failed /\ ~byHand =>
            \E u \in Users :
                /\ \E flowlet \in dags[u].flowlets : flowlet.dstPort \in {Wildcard, f.dstPort}
                /\ \/ dagOf[g] = u
                   \/ \E p \in Procs : proc[p].sg = g /\ proc[p].dag = u

\* A SGroup that flows are sent to runs the whole chain of its DAG, unless the DAG
\* was activated again or in vain: then it may keep the old chain or, when it was
\* built while Activate walked the graph, the first part of the new one, or have
\* no NF at all, because ActivateDAG starts SGroups whatever Activate returned.
WholeChain ==
    \A u \in Users \ renewed : \A g \in dags[u].sgroups :
        ~byHand => instances[g] = dags[u].chains /\ instances[g] # <<>>

\* A call of UpdateFlow returns, although it waits for the mutexes of SGroups at
\* the barrier, unless "rm" or an overtaken "add" has left a barrier shut.
UpdateFlowReturns ==
    \A c \in Callers : (call[c].at # "none") ~> (call[c].at = "none" \/ byHand)

\* A flow that ever had a rule has one again, or the handler asks again, however
\* the rule was lost and whatever the last answer was.  Only a flow whose first
\* call failed is ignored for ever.
FlowRecovers ==
    \A f \in Flows :
        (entry[f] # "none" /\ rule[f] = None)
            ~> (rule[f] # None \/ call[Switch].flow = f \/ byHand)
=============================================================================
