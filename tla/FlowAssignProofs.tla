--------------------------- MODULE FlowAssignProofs ---------------------------
(***************************************************************************)
(* Proofs about FlowAssign, for every number of workers, SGroups, users,   *)
(* flows and commands: no SGroup is given out twice, and a flow's rule     *)
(* points to a SGroup that runs the whole chain of a DAG of the flow.      *)
(***************************************************************************)
EXTENDS FlowAssign, ListLemmas

(* The types of the variables, and of the locals where they are used. *)

Holding == {"start", "build"}
Busy == Holding \cup {"link"}
Labels == Busy \cup {"none", "take"}
Commands == {"idle", "activate", "walk", "spawn", "wait", "add", "adding", "flow"}
Activating == {"activate", "walk", "spawn", "wait"}

ProcRecord == [at : Labels, sg : SGroups \cup {None}, dag : Users \cup {None},
               chain : Seq(Nat)]
CallRecord == [at : {"none", "match", "scan"}, flow : Flows \cup TypedFlows \cup {None},
               dag : Users \cup {None}]
DagRecord  == [next : Seq(Seq(Nat)), flowlets : SUBSET {ExpFlowlet}, chains : Seq(Nat),
               sgroups : SUBSET SGroups, isActive : BOOLEAN]

DagTypes == dags \in [Users -> DagRecord]

ListTypes ==
    /\ freeArray \in [Workers -> Seq(SGroups)] /\ freeLen \in [Workers -> Nat]
    /\ \A w \in Workers : freeLen[w] <= Len(freeArray[w])
    /\ sgroups \in [Workers -> Seq(SGroups)]

\* The command line activates one DAG at a time and keeps what "add" has read.
CmdTypes ==
    /\ cmd \in Commands /\ cmdUser \in Users \cup {None} /\ commands \in 0..MaxCommands
    /\ cmd \in Activating => cmdUser \in Users
    /\ cmd = "add" => added[1] \in SGroups /\ added[2] \in 1..Len(freeArray[Home[added[1]]])

\* A goroutine of UpdateFlow has the SGroup it is named after; starters run while
\* the command line waits for them, "add" builds while it waits for that.
ProcTypes ==
    /\ proc \in [Procs -> ProcRecord]
    /\ \A p \in Procs : proc[p].at \in Busy => proc[p].sg \in SGroups
    /\ \A g \in SGroups :
          proc[g].at # "none" => proc[g].at \in Busy /\ proc[g].sg = g /\ proc[g].dag \in Users
    /\ \A w \in Workers :
          proc[w].at # "none" => proc[w].at # "start" /\ cmd = "wait" /\ proc[w].dag = cmdUser
    /\ proc[Console].at # "none" =>
          proc[Console].at \in {"build", "link"} /\ cmd = "adding" /\ proc[Console].dag = None

CallTypes ==
    /\ call \in [Callers -> CallRecord]
    /\ \A c \in Callers : /\ call[c].at # "none" => call[c].flow \in Flows \cup TypedFlows
                          /\ call[c].at = "scan" => call[c].dag \in Users
    /\ call[Switch].at # "none" => call[Switch].flow \in Flows
    /\ call[Console].at # "none" => cmd = "flow"

SgTypes ==
    /\ isComplete \in [SGroups -> BOOLEAN] /\ isReady \in [SGroups -> BOOLEAN]
    /\ sgLock \in [SGroups -> BOOLEAN] /\ byHand \in BOOLEAN
    /\ instances \in [SGroups -> Seq(Nat)] /\ dagOf \in [SGroups -> Users \cup {None}]
    /\ target \in [Workers -> Nat] /\ conns \in [Workers -> Nat]

SwitchTypes ==
    /\ known \subseteq Flows /\ entry \in [Flows -> {"none", "fresh", "old"}]
    /\ rule \in [Flows -> SGroups \cup {None}]

Types == DagTypes /\ ListTypes /\ CmdTypes /\ ProcTypes /\ CallTypes /\ SgTypes /\ SwitchTypes

-----------------------------------------------------------------------------
(* What holds until something is removed by hand or an "add" is overtaken. *)

InFree(g) == \E i \in 1..freeLen[Home[g]] : freeArray[Home[g]][i] = g
Holds(p, g) == proc[p].sg = g /\ proc[p].at \in Holding

\* A SGroup is in one of three places, and there once.
OwnInv ==
    /\ \A w \in Workers : \A i, j \in 1..freeLen[w] :
          /\ Home[freeArray[w][i]] = w
          /\ freeArray[w][i] = freeArray[w][j] => i = j
    /\ \A w \in Workers : /\ IsInjective(sgroups[w])
                          /\ \A g \in Range(sgroups[w]) : Home[g] = w
    /\ \A g \in SGroups : InFree(g) \/ Deployed(g) \/ \E p \in Procs : Holds(p, g)
    /\ \A g \in SGroups : InFree(g) => ~Deployed(g) /\ \A p \in Procs : ~Holds(p, g)
    /\ \A p \in Procs, g \in SGroups :
          Holds(p, g) => ~Deployed(g) /\ \A q \in Procs : Holds(q, g) => q = p

\* The process that links a SGroup is the one that deployed it.
LinkInv ==
    \A p \in Procs : proc[p].at = "link" =>
        /\ Deployed(proc[p].sg) /\ ~isComplete[proc[p].sg]
        /\ \A q \in Procs : proc[q].at = "link" /\ proc[q].sg = proc[p].sg => q = p

\* The flags and fields of a SGroup follow its way: deployed, complete, joined.
FlagInv ==
    \A g \in SGroups : /\ isReady[g] \/ sgLock[g] => isComplete[g]
                       /\ isComplete[g] => Deployed(g)
                       /\ ~isComplete[g] => dagOf[g] = None
                       /\ ~Deployed(g) => instances[g] = <<>>

LinkedInv == \A u \in Users : \A g \in dags[u].sgroups : isComplete[g] /\ dagOf[g] = u

BuildInv == LinkInv /\ FlagInv /\ LinkedInv

Joined(w) == {g \in SGroups : Home[g] = w /\ (isReady[g] \/ sgLock[g])}

\* The barrier counts the SGroups that have joined, and those that will.
CountInv ==
    \A w \in Workers : target[w] = Len(sgroups[w]) /\ conns[w] = Cardinality(Joined(w))

\* The chain of a DAG activated once is whole and final before anyone reads it.
ChainInv ==
    /\ \A u \in Users \ renewed :
          dags[u].isActive => dags[u].chains # <<>> /\ ~(cmd = "walk" /\ cmdUser = u)
    /\ cmd \in {"spawn", "wait"} /\ cmdUser \notin renewed => dags[cmdUser].isActive
    /\ \A c \in Callers : call[c].at = "scan" => dags[call[c].dag].isActive
    /\ \A g \in SGroups : proc[g].at # "none" => dags[proc[g].dag].isActive
    /\ \A p \in Procs : proc[p].dag \in Users \ renewed =>
          /\ proc[p].at = "build" => proc[p].chain = dags[proc[p].dag].chains
          /\ proc[p].at = "link"  => instances[proc[p].sg] = dags[proc[p].dag].chains
    /\ \A u \in Users \ renewed : \A g \in dags[u].sgroups :
          dags[u].isActive /\ instances[g] = dags[u].chains

Takes(u, f) == \E flowlet \in dags[u].flowlets : flowlet.dstPort \in {Wildcard, f.dstPort}
Serves(g, u) ==
    dagOf[g] = u \/ \E p \in Procs : proc[p].sg = g /\ proc[p].dag = u /\ proc[p].at \in Busy

\* Who looks for a SGroup does so in a DAG of the flow, and a rule keeps its SGroup
\* as that goes from hand to hand.
RuleInv ==
    /\ \A c \in Callers : call[c].at = "scan" => Takes(call[c].dag, call[c].flow)
    /\ \A f \in Flows :
          rule[f] # None /\ f.background = None /\ rule[f] \notin failed =>
              \E u \in Users : Takes(u, f) /\ Serves(rule[f], u)

Kept == OwnInv /\ BuildInv /\ CountInv /\ ChainInv /\ RuleInv

IInv == Types /\ (\A w \in Workers : conns[w] <= target[w]) /\ (~byHand => Kept)

-----------------------------------------------------------------------------
(* The first state. *)

\* The worker of a SGroup.
LEMMA Homes ==
  /\ \A g \in SGroups : /\ Home[g] \in Workers
                        /\ \E i \in DOMAIN FreeAtStart[Home[g]] : FreeAtStart[Home[g]][i] = g
  /\ \A w \in Workers : /\ IsInjective(FreeAtStart[w])
                        /\ \A i \in DOMAIN FreeAtStart[w] :
                              FreeAtStart[w][i] \in SGroups /\ Home[FreeAtStart[w][i]] = w
  <1> USE ConstAssumption DEF ConstAssumption
  <1>1. ASSUME NEW g \in SGroups
        PROVE  /\ Home[g] \in Workers
               /\ \E i \in DOMAIN FreeAtStart[Home[g]] : FreeAtStart[Home[g]][i] = g
    <2>1. \E w \in Workers : \E i \in DOMAIN FreeAtStart[w] : FreeAtStart[w][i] = g OBVIOUS
    <2>2. Home[g] = CHOOSE w \in Workers :
                       \E i \in DOMAIN FreeAtStart[w] : FreeAtStart[w][i] = g
      BY DEF Home
    <2> QED BY <2>1, <2>2
  <1>2. ASSUME NEW w \in Workers PROVE IsInjective(FreeAtStart[w])
    BY <1>2 DEF IsInjective
  <1>3. ASSUME NEW w \in Workers, NEW i \in DOMAIN FreeAtStart[w]
        PROVE  FreeAtStart[w][i] \in SGroups /\ Home[FreeAtStart[w][i]] = w
    <2>1. FreeAtStart[w][i] \in SGroups
      <3>1. FreeAtStart[w] \in Seq(SGroups) OBVIOUS
      <3> QED BY <3>1, ElementOfSeq, LenProperties
    <2> QED BY <2>1, <1>1
  <1> QED BY <1>1, <1>2, <1>3

\* All SGroups are free and nothing runs.
LEMMA Starts == Init => IInv
  <1> SUFFICES ASSUME Init PROVE IInv OBVIOUS
  <1> USE DEF Init
  <1>1. /\ \A w \in Workers : FreeAtStart[w] \in Seq(SGroups) /\ Len(FreeAtStart[w]) \in Nat
                              /\ DOMAIN FreeAtStart[w] = 1..Len(FreeAtStart[w])
        /\ <<>> \in Seq(Nat) /\ <<>> \in Seq(SGroups) /\ <<>> \in Seq(Seq(Nat))
    BY ConstAssumption, LenProperties DEF ConstAssumption
  <1>2. \A p \in Procs : proc[p].at = "none" /\ proc[p].sg = None /\ proc[p].dag = None
    BY DEF Idle
  <1>3. \A c \in Callers : call[c].at = "none" BY DEF NoCall
  <1>4. Types
    <2>1. DagTypes
      <3>1. newDAG \in DagRecord BY <1>1 DEF newDAG, DagRecord
      <3> QED BY <3>1 DEF DagTypes
    <2>2. ListTypes BY <1>1, ConstAssumption DEF ListTypes, ConstAssumption
    <2>3. CmdTypes BY ConstAssumption DEF CmdTypes, Commands, Activating, ConstAssumption
    <2>4. ProcTypes
      <3>1. Idle \in ProcRecord BY <1>1 DEF Idle, ProcRecord, Labels
      <3>2. SGroups \subseteq Procs /\ Workers \subseteq Procs /\ Console \in Procs
        BY DEF Procs
      <3> QED BY <1>2, <3>1, <3>2 DEF ProcTypes, Busy, Holding
    <2>5. CallTypes
      <3>1. NoCall \in CallRecord BY DEF NoCall, CallRecord
      <3>2. Switch \in Callers /\ Console \in Callers BY DEF Callers
      <3> QED BY <1>3, <3>1, <3>2 DEF CallTypes
    <2>6. SgTypes BY <1>1 DEF SgTypes
    <2>7. SwitchTypes BY DEF SwitchTypes
    <2> QED BY <2>1, <2>2, <2>3, <2>4, <2>5, <2>6, <2>7 DEF Types
  <1>5. /\ \A g \in SGroups : ~Deployed(g) /\ InFree(g)
        /\ \A p \in Procs, g \in SGroups : ~Holds(p, g)
    <2>1. ASSUME NEW g \in SGroups PROVE ~Deployed(g) /\ InFree(g)
      BY <1>1, Homes DEF Deployed, InFree
    <2> QED BY <1>2, <2>1 DEF Holds, Holding
  <1>6. OwnInv
    <2>1. ASSUME NEW w \in Workers, NEW i \in 1..freeLen[w], NEW j \in 1..freeLen[w]
          PROVE  /\ Home[freeArray[w][i]] = w
                 /\ freeArray[w][i] = freeArray[w][j] => i = j
      BY <1>1, Homes DEF IsInjective
    <2>2. ASSUME NEW w \in Workers
          PROVE  IsInjective(sgroups[w]) /\ \A g \in Range(sgroups[w]) : Home[g] = w
      BY DEF IsInjective, Range
    <2> QED BY <1>5, <2>1, <2>2 DEF OwnInv
  <1>7. BuildInv BY <1>2, <1>5 DEF BuildInv, LinkInv, FlagInv, LinkedInv, newDAG
  <1>8. CountInv
    <2>1. \A w \in Workers : Joined(w) = {} BY DEF Joined
    <2> QED BY <2>1, FS_EmptySet DEF CountInv
  <1>9. ChainInv
    <2>1. \A u \in Users : ~dags[u].isActive /\ dags[u].sgroups = {} BY DEF newDAG
    <2>2. SGroups \subseteq Procs BY DEF Procs
    <2> QED BY <1>2, <1>3, <2>1, <2>2 DEF ChainInv
  <1>10. RuleInv BY <1>3 DEF RuleInv
  <1> QED BY <1>4, <1>6, <1>7, <1>8, <1>9, <1>10 DEF IInv, Kept

-----------------------------------------------------------------------------
(* Which steps change what. *)

DagStep ==
    \/ \E p \in Procs : Link(p)
    \/ \E u \in Users : DeployNF(u) \/ ConnectNFs(u) \/ Exp(u)
    \/ BeginActivate \/ WalkOn \/ EndActivate

ListStep ==
    \/ \E p \in Procs : FailBuild(p) \/ Deploy(p)
    \/ \E c \in Callers : ScaleUp(c)
    \/ \E w \in Workers : Starter(w)
    \/ \E g \in SGroups : DestroySGroup(g)
    \/ AddTake

ProcStep ==
    \/ \E p \in Procs : createSGroup(p)
    \/ \E c \in Callers : ScaleUp(c)
    \/ \E w \in Workers : Starter(w)
    \/ Spawn \/ AddTake

SGroupStep ==
    \/ \E p \in Procs : FailBuild(p) \/ Deploy(p) \/ Link(p)
    \/ \E g \in SGroups : DestroySGroup(g) \/ JoinBarrier(g) \/ OpenBarrier(g)

CallStep ==
    \/ \E c \in Callers : UpdateFlow(c)
    \/ \E f \in Flows : PacketIn(f)
    \/ \E f \in TypedFlows : FlowCommand(f)

SwitchStep ==
    \/ \E c \in Callers : UpdateFlow(c)
    \/ \E f \in Flows : PacketIn(f) \/ Age(f) \/ ExpireRule(f)
    \/ Reconnect

\* Every other step leaves these variables alone.
LEMMA Untouched ==
  ASSUME Next
  PROVE  /\ DagStep \/ UNCHANGED dags
         /\ ListStep \/ UNCHANGED <<freeArray, freeLen, sgroups, target>>
         /\ ProcStep \/ UNCHANGED proc
         /\ SGroupStep \/ UNCHANGED <<isComplete, isReady, sgLock, instances, dagOf, conns, target>>
         /\ (\E p \in Procs : FailBuild(p)) \/ UNCHANGED failed
         /\ BeginActivate \/ UNCHANGED renewed
         /\ CallStep \/ UNCHANGED call
         /\ SwitchStep \/ UNCHANGED <<known, entry, rule>>
         /\ AddTake \/ (\E g \in SGroups : DestroySGroup(g)) \/ UNCHANGED byHand
  <1> USE DEF cmdVars, freeVars, barVars, sgVars, swVars, histVars
  <1> DEFINE Goal ==
         /\ DagStep \/ UNCHANGED dags
         /\ ListStep \/ UNCHANGED <<freeArray, freeLen, sgroups, target>>
         /\ ProcStep \/ UNCHANGED proc
         /\ SGroupStep \/ UNCHANGED <<isComplete, isReady, sgLock, instances, dagOf, conns, target>>
         /\ (\E p \in Procs : FailBuild(p)) \/ UNCHANGED failed
         /\ BeginActivate \/ UNCHANGED renewed
         /\ CallStep \/ UNCHANGED call
         /\ SwitchStep \/ UNCHANGED <<known, entry, rule>>
         /\ AddTake \/ (\E g \in SGroups : DestroySGroup(g)) \/ UNCHANGED byHand
  <1>1. CASE Command
    <2>1. ASSUME NEW u \in Users, DeployNF(u) \/ ConnectNFs(u) \/ Exp(u) PROVE Goal
      BY <2>1 DEF DagStep, DeployNF, ConnectNFs, Exp
    <2>2. ASSUME NEW g \in SGroups, DestroySGroup(g) PROVE Goal
      BY <2>2 DEF ListStep, SGroupStep, DestroySGroup
    <2>3. ASSUME NEW u \in Users, Activate(u) PROVE Goal BY <2>3 DEF Activate
    <2>4. ASSUME NEW w \in Workers, AddRead(w) PROVE Goal BY <2>4 DEF AddRead
    <2>5. ASSUME NEW f \in TypedFlows, FlowCommand(f) PROVE Goal BY <2>5 DEF FlowCommand, CallStep
    <2> QED BY <1>1, <2>1, <2>2, <2>3, <2>4, <2>5 DEF Command
  <1>2. CASE RunCommand
    <2>1. CASE BeginActivate BY <2>1 DEF DagStep, BeginActivate
    <2>2. CASE WalkOn BY <2>2 DEF DagStep, WalkOn
    <2>3. CASE EndActivate BY <2>3 DEF DagStep, EndActivate
    <2>4. CASE Spawn BY <2>4 DEF ProcStep, Spawn
    <2>5. CASE AddTake BY <2>5 DEF ProcStep, ListStep, AddTake
    <2>6. CASE EndCommand BY <2>6 DEF EndCommand
    <2> QED BY <1>2, <2>1, <2>2, <2>3, <2>4, <2>5, <2>6 DEF RunCommand
  <1>3. ASSUME NEW c \in Callers, UpdateFlow(c) PROVE Goal
    <2>0. CallStep /\ SwitchStep BY <1>3 DEF CallStep, SwitchStep
    <2>1. CASE ScaleUp(c) BY <2>0, <2>1 DEF ProcStep, ListStep, ScaleUp
    <2>2. CASE Background(c) BY <2>0, <2>2 DEF Background
    <2>3. CASE MatchDAG(c) BY <2>0, <2>3 DEF MatchDAG
    <2>4. CASE FindAvailableSGroup(c) BY <2>0, <2>4 DEF FindAvailableSGroup
    <2> QED BY <1>3, <2>1, <2>2, <2>3, <2>4 DEF UpdateFlow
  <1>4. ASSUME NEW p \in Procs, createSGroup(p) PROVE Goal
    <2>1. ProcStep BY <1>4 DEF ProcStep
    <2>2. CASE ReadChain(p) BY <2>1, <2>2 DEF ReadChain
    <2>3. CASE FailBuild(p) BY <2>1, <2>3 DEF FailBuild, SGroupStep, ListStep
    <2>4. CASE Deploy(p) BY <2>1, <2>4 DEF Deploy, SGroupStep, ListStep
    <2>5. CASE Link(p) BY <2>1, <2>5 DEF Link, SGroupStep, DagStep
    <2> QED BY <1>4, <2>2, <2>3, <2>4, <2>5 DEF createSGroup
  <1>5. ASSUME NEW w \in Workers, Starter(w) PROVE Goal
    BY <1>5 DEF Starter, ProcStep, ListStep
  <1>6. ASSUME NEW g \in SGroups, JoinBarrier(g) \/ OpenBarrier(g) PROVE Goal
    BY <1>6 DEF JoinBarrier, OpenBarrier, SGroupStep
  <1>7. ASSUME Reconnect \/ \E f \in Flows : PacketIn(f) \/ Age(f) \/ ExpireRule(f) PROVE Goal
    BY <1>7 DEF Reconnect, PacketIn, Age, ExpireRule, CallStep, SwitchStep
  <1> QED BY <1>1, <1>2, <1>3, <1>4, <1>5, <1>6, <1>7 DEF Next

-----------------------------------------------------------------------------
(* Types. *)

\* What the operations of a DAG change, and what they keep.
LEMMA DagOperations ==
  ASSUME NEW dag \in DagRecord
  PROVE  /\ NFs(dag) = 1..Len(dag.next) /\ Len(dag.next) \in Nat
         /\ addNF(dag) \in DagRecord /\ Len(addNF(dag).next) = Len(dag.next) + 1
         /\ addFlow(dag, ExpFlowlet) \in DagRecord
         /\ \A up \in NFs(dag), down \in Nat : connectNFs(dag, up, down) \in DagRecord
         /\ \A nf \in NFs(dag) : AppendNF(dag, nf) \in DagRecord
         /\ ClearChains(dag) \in DagRecord
  <1>1. /\ dag.next \in Seq(Seq(Nat)) /\ dag.chains \in Seq(Nat)
        /\ DOMAIN dag.next = 1..Len(dag.next) /\ Len(dag.next) \in Nat
    BY LenProperties DEF DagRecord
  <1>2. addNF(dag) \in DagRecord /\ Len(addNF(dag).next) = Len(dag.next) + 1
    <2>1. <<>> \in Seq(Nat) OBVIOUS
    <2>2. Append(dag.next, <<>>) \in Seq(Seq(Nat)) /\ Len(Append(dag.next, <<>>)) = Len(dag.next) + 1
      BY <1>1, <2>1, AppendProperties
    <2>3. addNF(dag).next = Append(dag.next, <<>>) BY DEF addNF, DagRecord
    <2> QED BY <2>2, <2>3 DEF addNF, DagRecord
  <1>3. addFlow(dag, ExpFlowlet) \in DagRecord BY DEF addFlow, DagRecord
  <1>4. ASSUME NEW up \in NFs(dag), NEW down \in Nat PROVE connectNFs(dag, up, down) \in DagRecord
    <2>1. dag.next[up] \in Seq(Nat) BY <1>1, ElementOfSeq DEF NFs
    <2>2. Append(dag.next[up], down) \in Seq(Nat) BY <2>1, AppendProperties
    <2>3. [dag.next EXCEPT ![up] = Append(@, down)] \in Seq(Seq(Nat))
      BY <1>1, <2>2, ExceptSeq DEF NFs
    <2> QED BY <2>3 DEF connectNFs, DagRecord
  <1>5. ASSUME NEW nf \in NFs(dag) PROVE AppendNF(dag, nf) \in DagRecord
    <2>1. nf \in Nat BY <1>1 DEF NFs
    <2>2. Append(dag.chains, nf) \in Seq(Nat) BY <1>1, <2>1, AppendProperties
    <2> QED BY <2>2 DEF AppendNF, DagRecord
  <1>6. ClearChains(dag) \in DagRecord
    <2>1. <<>> \in Seq(Nat) OBVIOUS
    <2> QED BY <2>1 DEF ClearChains, DagRecord
  <1> QED BY <1>1, <1>2, <1>3, <1>4, <1>5, <1>6 DEF NFs

\* A graph grows, a chain is walked, SGroups are linked.
LEMMA DagTypesNext == Types /\ Next => DagTypes'
  <1> SUFFICES ASSUME Types, Next, DagStep PROVE DagTypes'
    BY Untouched DEF Types, DagTypes
  <1>0. /\ dags \in [Users -> DagRecord]
        /\ cmd \in Activating => cmdUser \in Users
    BY DEF Types, DagTypes, CmdTypes
  <1>1. ASSUME NEW p \in Procs, Link(p) PROVE DagTypes'
    <2>1. CASE UNCHANGED dags BY <1>0, <2>1 DEF DagTypes
    <2>2. CASE /\ proc[p].dag # None
               /\ dags' = [dags EXCEPT ![proc[p].dag].sgroups = @ \cup {proc[p].sg}]
      <3>1. proc[p].dag \in Users /\ proc[p].sg \in SGroups
        BY <1>1, <2>2 DEF Types, ProcTypes, ProcRecord, Link, At, Busy
      <3> DEFINE dag == [dags[proc[p].dag] EXCEPT !.sgroups = @ \cup {proc[p].sg}]
      <3>2. dag \in DagRecord BY <1>0, <3>1 DEF DagRecord
      <3>3. dags' = [dags EXCEPT ![proc[p].dag] = dag] BY <2>2
      <3> QED BY <1>0, <3>2, <3>3 DEF DagTypes
    <2> QED BY <1>1, <2>1, <2>2 DEF Link
  <1>2. ASSUME NEW u \in Users, DeployNF(u) \/ ConnectNFs(u) \/ Exp(u) PROVE DagTypes'
    <2>1. CASE DeployNF(u) BY <1>0, <2>1, DagOperations DEF DeployNF, DagTypes
    <2>2. CASE ConnectNFs(u)
      <3>1. PICK up \in NFs(dags[u]), down \in NFs(dags[u]) :
               dags' = [dags EXCEPT ![u] = connectNFs(@, up, down)]
        BY <2>2 DEF ConnectNFs
      <3>2. down \in Nat BY <1>0, DagOperations
      <3>3. connectNFs(dags[u], up, down) \in DagRecord BY <1>0, <3>2, DagOperations
      <3> QED BY <1>0, <3>1, <3>3 DEF DagTypes
    <2>3. CASE Exp(u)
      <3> DEFINE n == Len(dags[u].next)
                 added1 == addNF(dags[u])
                 added2 == addNF(added1)
                 linked == connectNFs(added2, n + 1, n + 2)
      <3>1. added1 \in DagRecord /\ Len(added1.next) = n + 1 /\ n \in Nat
        BY <1>0, DagOperations
      <3>2. added2 \in DagRecord /\ Len(added2.next) = n + 2
        BY ONLY <3>1, DagOperations
      <3>3. n + 1 \in NFs(added2) /\ n + 2 \in Nat BY <3>1, <3>2, DagOperations
      <3> HIDE DEF added2, n
      <3>4. linked \in DagRecord BY ONLY <3>2, <3>3, DagOperations
      <3> HIDE DEF linked
      <3>5. addFlow(linked, ExpFlowlet) \in DagRecord BY ONLY <3>4, DagOperations
      <3>6. dags' = [dags EXCEPT ![u] = addFlow(linked, ExpFlowlet)]
        BY <2>3 DEF Exp, linked, added2, n
      <3> QED BY <1>0, <3>5, <3>6 DEF DagTypes
    <2> QED BY <1>2, <2>1, <2>2, <2>3
  <1>3. CASE BeginActivate
    <2>1. cmdUser \in Users BY <1>0, <1>3 DEF BeginActivate, Activating
    <2> QED BY <1>0, <1>3, <2>1, DagOperations DEF BeginActivate, DagTypes
  <1>4. CASE WalkOn
    <2>1. cmdUser \in Users BY <1>0, <1>4 DEF WalkOn, Activating
    <2> QED BY <1>0, <1>4, <2>1, DagOperations DEF WalkOn, DagTypes
  <1>5. CASE EndActivate
    <2>1. cmdUser \in Users BY <1>0, <1>5 DEF EndActivate, Activating
    <2>2. [dags[cmdUser] EXCEPT !.isActive = TRUE] \in DagRecord BY <1>0, <2>1 DEF DagRecord
    <2> QED BY <1>0, <1>5, <2>1, <2>2 DEF EndActivate, DagTypes
  <1> QED BY <1>1, <1>2, <1>3, <1>4, <1>5 DEF DagStep

\* An append to the free list puts the SGroup behind the others.
LEMMA PutsBehind ==
  ASSUME ListTypes, NEW g \in SGroups, PutFree(g)
  PROVE  LET w == Home[g]
             n == freeLen[w] + 1
         IN  /\ w \in Workers /\ n \in Nat
             /\ freeArray' \in [Workers -> Seq(SGroups)] /\ freeLen' \in [Workers -> Nat]
             /\ freeLen'[w] = n /\ n <= Len(freeArray'[w]) /\ freeArray'[w][n] = g
             /\ \A i \in 1..freeLen[w] : freeArray'[w][i] = freeArray[w][i]
             /\ \A v \in Workers \ {w} : freeLen'[v] = freeLen[v] /\ freeArray'[v] = freeArray[v]
             /\ \A v \in Workers : Len(freeArray[v]) <= Len(freeArray'[v])
  <1> DEFINE w == Home[g]
             s == freeArray[w]
             n == freeLen[w] + 1
             t == IF n <= Len(s) THEN [s EXCEPT ![n] = g] ELSE Append(s, g)
  <1>1. /\ w \in Workers /\ s \in Seq(SGroups) /\ n \in Nat \ {0} /\ n <= Len(s) + 1
        /\ freeLen[w] \in Nat /\ \A v \in Workers : Len(freeArray[v]) \in Nat
    BY Homes, LenProperties DEF ListTypes
  <1>2. freeArray' = [freeArray EXCEPT ![w] = t] /\ freeLen' = [freeLen EXCEPT ![w] = n]
    BY DEF PutFree
  <1> HIDE DEF w
  <1>3. t \in Seq(SGroups) /\ Len(s) <= Len(t) /\ n <= Len(t) /\ t[n] = g
        /\ \A i \in 1..freeLen[w] : t[i] = s[i]
    <2>1. CASE n <= Len(s)
      <3>1. n \in 1..Len(s) BY <1>1, <2>1
      <3>2. t = [s EXCEPT ![n] = g] BY <2>1
      <3> HIDE DEF s, t, n
      <3>3. /\ t \in Seq(SGroups) /\ Len(t) = Len(s)
            /\ \A j \in 1..Len(s) : t[j] = IF j = n THEN g ELSE s[j]
        BY <3>1, <3>2, <1>1, ExceptSeq
      <3> QED BY <3>1, <3>3, <1>1 DEF n
    <2>2. CASE ~(n <= Len(s))
      <3>1. n = Len(s) + 1 /\ t = Append(s, g) BY <1>1, <2>2
      <3> HIDE DEF s, t
      <3>2. /\ t \in Seq(SGroups) /\ Len(t) = Len(s) + 1
            /\ \A i \in 1..Len(s) : t[i] = s[i]
            /\ t[Len(s) + 1] = g
        BY <3>1, <1>1, AppendProperties
      <3> QED BY <3>1, <3>2, <1>1
    <2> QED BY <2>1, <2>2
  <1> HIDE DEF t, n
  <1>4. /\ freeArray'[w] = t /\ freeLen'[w] = n
        /\ \A v \in Workers \ {w} : freeLen'[v] = freeLen[v] /\ freeArray'[v] = freeArray[v]
        /\ freeArray' \in [Workers -> Seq(SGroups)] /\ freeLen' \in [Workers -> Nat]
    BY <1>1, <1>2, <1>3 DEF ListTypes
  <1>5. ASSUME NEW v \in Workers PROVE Len(freeArray[v]) <= Len(freeArray'[v])
    <2>1. CASE v = w BY <2>1, <1>3, <1>4
    <2>2. CASE v # w
      <3>1. Len(freeArray[v]) \in Nat /\ freeArray'[v] = freeArray[v] BY <2>2, <1>1, <1>4
      <3> QED BY ONLY <3>1
    <2> QED BY <2>1, <2>2
  <1> QED BY <1>1, <1>3, <1>4, <1>5 DEF w, n

\* getFreeSGroup finds a SGroup and leaves the list one shorter.
LEMMA TakesLast ==
  ASSUME ListTypes, NEW w \in Workers, NEW g, TakeFree(w, g)
  PROVE  /\ g \in SGroups /\ freeLen[w] \in 1..Len(freeArray[w]) /\ g = freeArray[w][freeLen[w]]
         /\ freeArray' = freeArray /\ freeLen' = [freeLen EXCEPT ![w] = @ - 1]
         /\ freeLen' \in [Workers -> Nat]
  <1>1. freeArray[w] \in Seq(SGroups) /\ freeLen[w] \in Nat /\ Len(freeArray[w]) \in Nat
    BY LenProperties DEF ListTypes
  <1>2. freeLen[w] \in 1..Len(freeArray[w]) BY <1>1 DEF TakeFree, ListTypes
  <1>3. g \in SGroups BY <1>1, <1>2, ElementOfSeq DEF TakeFree
  <1> QED BY <1>1, <1>2, <1>3 DEF TakeFree, Shorten, ListTypes

\* Slices are no longer than their arrays, whoever cuts them.
LEMMA ListTypesNext == Types /\ Next => ListTypes'
  <1> SUFFICES ASSUME Types, Next, ListStep PROVE ListTypes'
    BY Untouched DEF Types, ListTypes
  <1>0. /\ ListTypes /\ \A w \in Workers : freeArray[w] \in Seq(SGroups)
        /\ \A w \in Workers : freeLen[w] \in Nat /\ Len(freeArray[w]) \in Nat
        /\ \A p \in Procs : proc[p].at \in Busy => proc[p].sg \in SGroups
    BY LenProperties DEF Types, ListTypes, ProcTypes
  <1>1. ASSUME NEW g \in SGroups, PutFree(g), UNCHANGED sgroups PROVE ListTypes'
    BY <1>0, <1>1, PutsBehind DEF ListTypes
  <1>2. ASSUME NEW w \in Workers, NEW g, TakeFree(w, g), UNCHANGED sgroups PROVE ListTypes'
    <2>1. /\ freeArray' = freeArray /\ freeLen' \in [Workers -> Nat]
          /\ freeLen' = [freeLen EXCEPT ![w] = @ - 1]
      BY <1>0, <1>2, TakesLast
    <2>2. \A v \in Workers : freeLen'[v] <= Len(freeArray'[v])
      BY <1>0, <2>1 DEF ListTypes
    <2> QED BY <1>0, <1>2, <2>1, <2>2 DEF ListTypes
  <1>3. ASSUME NEW p \in Procs, FailBuild(p) PROVE ListTypes'
    BY <1>0, <1>1, <1>3 DEF FailBuild, At, Busy, Holding
  <1>4. ASSUME NEW p \in Procs, Deploy(p) PROVE ListTypes'
    <2>1. proc[p].sg \in SGroups BY <1>0, <1>4 DEF Deploy, At, Busy, Holding
    <2>2. Append(sgroups[Home[proc[p].sg]], proc[p].sg) \in Seq(SGroups)
      BY <1>0, <2>1, Homes, AppendProperties DEF ListTypes
    <2> QED BY <1>0, <1>4, <2>1, <2>2 DEF Deploy, ListTypes, freeVars
  <1>5. ASSUME NEW c \in Callers, ScaleUp(c) PROVE ListTypes'
    <2>1. CASE UNCHANGED freeVars BY <1>0, <1>5, <2>1 DEF ScaleUp, ListTypes, freeVars, sgVars
    <2>2. CASE \E w \in Workers, g \in SGroups : TakeFree(w, g)
      BY <1>2, <1>5, <2>2 DEF ScaleUp, sgVars
    <2> QED BY <1>5, <2>1, <2>2 DEF ScaleUp
  <1>6. ASSUME NEW w \in Workers, Starter(w) PROVE ListTypes'
    <2>1. CASE UNCHANGED freeVars BY <1>0, <1>6, <2>1 DEF Starter, ListTypes, freeVars, sgVars
    <2>2. CASE \E g \in SGroups : TakeFree(w, g) BY <1>2, <1>6, <2>2 DEF Starter, sgVars
    <2> QED BY <1>6, <2>1, <2>2 DEF Starter
  <1>7. ASSUME NEW g \in SGroups, DestroySGroup(g) PROVE ListTypes'
    BY <1>1, <1>7 DEF DestroySGroup
  <1>8. CASE AddTake
    <2> DEFINE w == Home[added[1]]
    <2>1. /\ added[1] \in SGroups /\ added[2] \in 1..Len(freeArray[w])
          /\ freeLen' = [freeLen EXCEPT ![w] = added[2] - 1]
          /\ UNCHANGED <<freeArray, sgroups>>
      BY <1>8 DEF AddTake, Types, CmdTypes, sgVars
    <2>2. w \in Workers BY <2>1, Homes
    <2> HIDE DEF w
    <2>3. added[2] \in Nat /\ added[2] >= 1 /\ added[2] <= Len(freeArray[w])
      BY <1>0, <2>1, <2>2
    <2> QED BY <1>0, <2>1, <2>2, <2>3 DEF ListTypes
  <1> QED BY <1>3, <1>4, <1>5, <1>6, <1>7, <1>8 DEF ListStep

\* The array under a slice never gets shorter.
LEMMA ArraysGrow ==
  ASSUME Types, Next
  PROVE  \A w \in Workers : Len(freeArray[w]) <= Len(freeArray'[w])
  <1> DEFINE Goal == \A w \in Workers : Len(freeArray[w]) <= Len(freeArray'[w])
  <1>0. /\ ListTypes /\ \A w \in Workers : Len(freeArray[w]) \in Nat
        /\ \A p \in Procs : proc[p].at \in Busy => proc[p].sg \in SGroups
    BY LenProperties DEF Types, ListTypes, ProcTypes
  <1>1. ASSUME NEW g \in SGroups, PutFree(g) PROVE Goal BY <1>0, <1>1, PutsBehind
  <1>2. ASSUME UNCHANGED freeArray PROVE Goal BY <1>0, <1>2
  <1>3. ASSUME NEW p \in Procs, FailBuild(p) PROVE Goal
    BY <1>0, <1>1, <1>3 DEF FailBuild, At, Busy, Holding
  <1>4. ASSUME NEW g \in SGroups, DestroySGroup(g) PROVE Goal BY <1>1, <1>4 DEF DestroySGroup
  <1>5. ASSUME NEW p \in Procs, Deploy(p) PROVE UNCHANGED freeArray
    BY <1>5 DEF Deploy, freeVars
  <1>6. ASSUME NEW c \in Callers, ScaleUp(c) PROVE UNCHANGED freeArray
    BY <1>6 DEF ScaleUp, TakeFree, freeVars
  <1>7. ASSUME NEW w \in Workers, Starter(w) PROVE UNCHANGED freeArray
    BY <1>7 DEF Starter, TakeFree, freeVars
  <1>8. ASSUME AddTake PROVE UNCHANGED freeArray BY <1>8 DEF AddTake
  <1> QED BY Untouched, <1>2, <1>3, <1>4, <1>5, <1>6, <1>7, <1>8 DEF ListStep

\* The answer to a typed flow ends the command.
LEMMA Answers ==
  ASSUME Types, NEW c \in Callers, UpdateFlow(c)
  PROVE  /\ call[c].at # "none"
         /\ UNCHANGED <<cmdUser, added, commands, known>>
         /\ \/ /\ UNCHANGED <<cmd, rule, entry>> /\ call[c].at = "match"
               /\ \E u \in Users : /\ Match(dags[u], call[c].flow) /\ dags[u].isActive
                                   /\ call' = [call EXCEPT ![c].at = "scan", ![c].dag = u]
            \/ /\ call' = [call EXCEPT ![c] = NoCall]
               /\ cmd' = IF c = Console THEN "idle" ELSE cmd
  <1>1. ASSUME NEW g, Answer(c, g)
        PROVE  /\ UNCHANGED <<cmdUser, added, commands, known>>
               /\ call' = [call EXCEPT ![c] = NoCall]
               /\ cmd' = IF c = Console THEN "idle" ELSE cmd
    BY <1>1 DEF Answer
  <1>2. CASE Background(c) BY <1>1, <1>2 DEF Background, Asking
  <1>3. CASE FindAvailableSGroup(c) BY <1>1, <1>3 DEF FindAvailableSGroup, Asking
  <1>4. CASE ScaleUp(c) BY <1>1, <1>4 DEF ScaleUp, Asking
  <1>5. CASE MatchDAG(c)
    <2>1. CASE Answer(c, None) BY <1>1, <1>5, <2>1 DEF MatchDAG, Asking
    <2>2. CASE ~Answer(c, None) BY <1>5, <2>2 DEF MatchDAG, Asking, cmdVars, swVars
    <2> QED BY <2>1, <2>2
  <1> QED BY <1>2, <1>3, <1>4, <1>5 DEF UpdateFlow

\* Other processes than the command line and its calls leave it alone.
LEMMA CommandSteps ==
  ASSUME Next
  PROVE  \/ Command \/ RunCommand \/ \E c \in Callers : UpdateFlow(c)
         \/ UNCHANGED cmdVars
  <1>1. ASSUME NEW p \in Procs, createSGroup(p) PROVE UNCHANGED cmdVars
    BY <1>1 DEF createSGroup, ReadChain, FailBuild, Deploy, Link
  <1>2. ASSUME NEW w \in Workers, Starter(w) PROVE UNCHANGED cmdVars BY <1>2 DEF Starter
  <1>3. ASSUME NEW g \in SGroups, JoinBarrier(g) \/ OpenBarrier(g) PROVE UNCHANGED cmdVars
    BY <1>3 DEF JoinBarrier, OpenBarrier
  <1>4. ASSUME Reconnect \/ \E f \in Flows : PacketIn(f) \/ Age(f) \/ ExpireRule(f)
        PROVE  UNCHANGED cmdVars
    BY <1>4 DEF Reconnect, PacketIn, Age, ExpireRule
  <1> QED BY <1>1, <1>2, <1>3, <1>4 DEF Next

\* The command line knows what it is doing.
LEMMA CmdTypesNext == IInv /\ Next => CmdTypes'
  <1> SUFFICES ASSUME IInv, Next PROVE CmdTypes' OBVIOUS
  <1> USE DEF Commands, Activating
  <1>0. /\ CmdTypes /\ OwnInv /\ ListTypes /\ MaxCommands \in Nat
        /\ \A w \in Workers : Len(freeArray[w]) \in Nat /\ Len(freeArray[w]) <= Len(freeArray'[w])
        /\ \A w \in Workers : freeLen[w] \in Nat /\ freeArray'[w] \in Seq(SGroups)
        /\ \A w \in Workers : Len(freeArray'[w]) \in Nat
    <2>1. Types /\ ListTypes' BY ListTypesNext DEF IInv
    <2> QED BY <2>1, ArraysGrow, LenProperties, ConstAssumption
            DEF IInv, Types, Kept, ListTypes, Next, ConstAssumption
  <1>1. ASSUME NEW g \in SGroups, NEW n \in 1..Len(freeArray[Home[g]])
        PROVE  n \in 1..Len(freeArray'[Home[g]])
    <2>1. /\ Len(freeArray[Home[g]]) \in Nat /\ Len(freeArray'[Home[g]]) \in Nat
          /\ Len(freeArray[Home[g]]) <= Len(freeArray'[Home[g]])
      BY <1>0, Homes
    <2> QED BY ONLY <2>1, n \in 1..Len(freeArray[Home[g]])
  <1>2. CASE UNCHANGED cmdVars BY <1>0, <1>1, <1>2 DEF CmdTypes, cmdVars
  <1>3. CASE Command
    <2>1. commands' \in 0..MaxCommands
      <3>1. \E next : Type(next)
        BY <1>3 DEF Command, DeployNF, ConnectNFs, Exp, Activate, AddRead, DestroySGroup,
                FlowCommand
      <3> QED BY <3>1, <1>0 DEF Type, CmdTypes
    <2>2. ASSUME NEW w \in Workers, AddRead(w) PROVE CmdTypes'
      <3>1. /\ cmd' = "add" /\ cmdUser' = cmdUser /\ freeLen[w] \in 1..Len(freeArray[w])
            /\ added' = <<freeArray[w][freeLen[w]], freeLen[w]>> /\ freeArray' = freeArray
        BY <1>0, <2>2 DEF AddRead, Type, freeVars, ListTypes
      <3>2. freeArray[w][freeLen[w]] \in SGroups
        BY <1>0, <3>1, ElementOfSeq DEF ListTypes
      <3>3. Home[freeArray[w][freeLen[w]]] = w BY <1>0, <3>1 DEF OwnInv
      <3> QED BY <1>0, <2>1, <3>1, <3>2, <3>3 DEF CmdTypes
    <2>3. ASSUME NEW u \in Users, DeployNF(u) \/ ConnectNFs(u) \/ Exp(u) \/ Activate(u)
          PROVE  CmdTypes'
      BY <1>0, <2>1, <2>3 DEF DeployNF, ConnectNFs, Exp, Activate, Type, CmdTypes
    <2>4. ASSUME NEW g \in SGroups, DestroySGroup(g) PROVE CmdTypes'
      BY <1>0, <2>1, <2>4 DEF DestroySGroup, Type, CmdTypes
    <2>5. ASSUME NEW f \in TypedFlows, FlowCommand(f) PROVE CmdTypes'
      BY <1>0, <2>1, <2>5 DEF FlowCommand, Type, CmdTypes
    <2> QED BY <1>3, <2>2, <2>3, <2>4, <2>5 DEF Command
  <1>4. CASE RunCommand
    BY <1>0, <1>4 DEF RunCommand, BeginActivate, WalkOn, EndActivate, Spawn, AddTake, EndCommand,
           CmdTypes, cmdVars
  <1>5. ASSUME NEW c \in Callers, UpdateFlow(c) PROVE CmdTypes'
    <2>1. /\ UNCHANGED <<cmdUser, added, commands>>
          /\ cmd' \in {"idle", cmd}
      BY <1>5, Answers DEF IInv
    <2> QED BY <1>0, <1>1, <2>1 DEF CmdTypes
  <1> QED BY CommandSteps, <1>2, <1>3, <1>4, <1>5

\* Who is who.
LEMMA Names ==
  /\ SGroups \subseteq Procs /\ Workers \subseteq Procs /\ Console \in Procs
  /\ Console \notin SGroups /\ Console \notin Workers /\ SGroups \cap Workers = {}
  /\ None \notin SGroups /\ None \notin Workers /\ None \notin Users
  /\ Switch \in Callers /\ Console \in Callers /\ Switch # Console
  /\ \A p \in Procs : p \in SGroups \/ p \in Workers \/ p = Console
  /\ \A c \in Callers : c = Switch \/ c = Console
  BY ConstAssumption DEF ConstAssumption, Procs, Callers, Switch, Console

\* The command line waits until those it waits for are done.
LEMMA Waiting ==
  ASSUME Types, Next
  PROVE  /\ cmd = "wait" => \/ UNCHANGED <<cmd, cmdUser>>
                            \/ UNCHANGED proc /\ \A w \in Workers : proc[w].at = "none"
         /\ cmd = "adding" => UNCHANGED cmd \/ (UNCHANGED proc /\ proc[Console].at = "none")
  <1>1. CASE Command
    BY <1>1 DEF Command, DeployNF, ConnectNFs, Exp, Activate, AddRead, DestroySGroup,
               FlowCommand, Type
  <1>2. CASE RunCommand
    BY <1>2 DEF RunCommand, BeginActivate, WalkOn, EndActivate, Spawn, AddTake, EndCommand, At
  <1>3. ASSUME NEW c \in Callers, UpdateFlow(c) PROVE cmd \notin {"wait", "adding"} \/ UNCHANGED <<cmd, cmdUser>>
    BY <1>3, Answers DEF Types, CallTypes
  <1>4. CASE UNCHANGED cmdVars BY <1>4 DEF cmdVars
  <1> QED BY CommandSteps, <1>1, <1>2, <1>3, <1>4

\* Processes have their names' SGroups, and their commands run.
LEMMA ProcTypesNext == IInv /\ Next => ProcTypes'
  <1> SUFFICES ASSUME IInv, Next PROVE ProcTypes' OBVIOUS
  <1> USE Names DEF Busy, Holding
  <1>0. /\ Types /\ ProcTypes /\ proc \in [Procs -> ProcRecord]
        /\ \A p \in Procs : proc[p].at \in Labels /\ proc[p] \in ProcRecord
        /\ \A u \in Users : dags[u].chains \in Seq(Nat)
        /\ cmdUser \in Users \cup {None}
    BY DEF IInv, Types, ProcTypes, ProcRecord, DagTypes, DagRecord, CmdTypes
  <1>1. CASE UNCHANGED proc BY <1>0, <1>1, Waiting DEF ProcTypes
  \* One process moves.
  <1>2. ASSUME NEW p \in Procs, NEW r \in ProcRecord, proc' = [proc EXCEPT ![p] = r],
               r.at \in Busy => r.sg \in SGroups,
               p \in SGroups => r.at = "none" \/ (r.at \in Busy /\ r.sg = p /\ r.dag \in Users),
               p \in Workers => /\ r.at # "start"
                                /\ r.at # "none" => cmd' = "wait" /\ r.dag = cmdUser',
               p = Console => r.at = "none" \/ (/\ r.at \in {"build", "link"}
                                                /\ cmd' = "adding" /\ r.dag = None),
               cmd = "wait" => UNCHANGED <<cmd, cmdUser>>,
               cmd = "adding" => UNCHANGED cmd
        PROVE  ProcTypes'
    <2>1. proc' \in [Procs -> ProcRecord] /\ proc'[p] = r BY <1>0, <1>2
    <2>2. \A q \in Procs \ {p} : proc'[q] = proc[q] BY <1>0, <1>2
    <2>3. \A q \in Procs : proc'[q].at \in Busy => proc'[q].sg \in SGroups
      BY <1>0, <1>2, <2>1, <2>2 DEF ProcTypes
    <2>4. \A g \in SGroups : proc'[g].at # "none" =>
             proc'[g].at \in Busy /\ proc'[g].sg = g /\ proc'[g].dag \in Users
      BY <1>0, <1>2, <2>1, <2>2 DEF ProcTypes
    <2>5. \A w \in Workers : proc'[w].at # "none" =>
             proc'[w].at # "start" /\ cmd' = "wait" /\ proc'[w].dag = cmdUser'
      BY <1>0, <1>2, <2>1, <2>2 DEF ProcTypes
    <2>6. proc'[Console].at # "none" =>
             proc'[Console].at \in {"build", "link"} /\ cmd' = "adding" /\ proc'[Console].dag = None
      BY <1>0, <1>2, <2>1, <2>2 DEF ProcTypes
    <2> QED BY <2>1, <2>3, <2>4, <2>5, <2>6 DEF ProcTypes
  <1>3. ASSUME NEW p \in Procs, At(p, "build") \/ At(p, "link"), Return(p),
               UNCHANGED cmdVars
        PROVE  ProcTypes'
    <2> DEFINE r == [Idle EXCEPT !.at = Where(p), !.dag = IF p \in Workers THEN cmdUser ELSE None]
    <2>1. /\ r \in ProcRecord /\ r.at = Where(p)
          /\ r.dag = IF p \in Workers THEN cmdUser ELSE None
      BY <1>0, EmptySeq DEF Idle, ProcRecord, Labels, Where
    <2>2. proc' = [proc EXCEPT ![p] = r] BY <1>3 DEF Return
    <2> HIDE DEF r
    <2>3. p \in Workers => cmd = "wait" BY <1>0, <1>3 DEF ProcTypes, At
    <2> QED BY <1>2, <1>3, <2>1, <2>2, <2>3 DEF Where, cmdVars
  <1>4. ASSUME NEW p \in Procs, createSGroup(p) PROVE ProcTypes'
    <2>1. CASE ReadChain(p)
      <3> DEFINE r == [proc[p] EXCEPT !.at = "build", !.chain = dags[proc[p].dag].chains]
      <3>1. p \in SGroups /\ proc[p].sg = p /\ proc[p].dag \in Users
        BY <1>0, <2>1 DEF ProcTypes, ReadChain, At
      <3>a. "build" \in Labels /\ proc[p] \in ProcRecord /\ dags[proc[p].dag].chains \in Seq(Nat)
        BY <1>0, <3>1 DEF Labels
      <3>2. r \in ProcRecord /\ r.at = "build" /\ r.sg = p /\ r.dag = proc[p].dag
        BY ONLY <3>1, <3>a DEF ProcRecord
      <3>3. proc' = [proc EXCEPT ![p] = r] /\ UNCHANGED cmdVars BY <2>1 DEF ReadChain
      <3> HIDE DEF r
      <3> QED BY <1>2, <3>1, <3>2, <3>3 DEF cmdVars
    <2>2. CASE FailBuild(p) BY <1>3, <2>2 DEF FailBuild
    <2>3. CASE Deploy(p)
      <3> DEFINE r == [proc[p] EXCEPT !.at = "link"]
      <3>1. r \in ProcRecord /\ r.at = "link" /\ r.sg = proc[p].sg /\ r.dag = proc[p].dag
        BY <1>0 DEF ProcRecord, Labels
      <3>2. proc' = [proc EXCEPT ![p] = r] /\ UNCHANGED cmdVars BY <2>3 DEF Deploy, Goto
      <3> HIDE DEF r
      <3>3. proc[p].at = "build" BY <2>3 DEF Deploy, At
      <3> QED BY <1>0, <1>2, <3>1, <3>2, <3>3 DEF cmdVars, ProcTypes
    <2>4. CASE Link(p) BY <1>3, <2>4 DEF Link
    <2> QED BY <1>4, <2>1, <2>2, <2>3, <2>4 DEF createSGroup
  <1>5. ASSUME NEW c \in Callers, ScaleUp(c) PROVE ProcTypes'
    <2> SUFFICES ASSUME ~UNCHANGED proc PROVE ProcTypes' BY <1>1
    <2>1. PICK g \in SGroups :
             proc' = [proc EXCEPT ![g] = [at |-> "start", sg |-> g, dag |-> call[c].dag,
                                          chain |-> <<>>]]
      BY <1>5 DEF ScaleUp
    <2>2. call[c].dag \in Users BY <1>0, <1>5 DEF Types, CallTypes, ScaleUp, Asking
    <2> DEFINE r == [at |-> "start", sg |-> g, dag |-> call[c].dag, chain |-> <<>>]
    <2>3. r \in ProcRecord /\ r.at = "start" /\ r.sg = g /\ r.dag \in Users
      BY <2>2, EmptySeq DEF ProcRecord, Labels
    <2>4. /\ cmd = "wait" => UNCHANGED <<cmd, cmdUser>>
          /\ cmd = "adding" => UNCHANGED cmd
      BY <1>0, <1>5, Answers DEF UpdateFlow, Types, CallTypes
    <2>5. proc' = [proc EXCEPT ![g] = r] BY <2>1
    <2> HIDE DEF r
    <2> QED BY <1>2, <2>3, <2>4, <2>5
  <1>6. ASSUME NEW w \in Workers, Starter(w) PROVE ProcTypes'
    <2>0. /\ cmd = "wait" /\ proc[w].dag = cmdUser /\ cmdUser \in Users /\ UNCHANGED cmdVars
      BY <1>0, <1>6 DEF Starter, ProcTypes, At, Types, CmdTypes, Activating
    <2>1. CASE proc' = [proc EXCEPT ![w] = Idle]
      <3>1. Idle \in ProcRecord /\ Idle.at = "none" BY EmptySeq DEF Idle, ProcRecord, Labels
      <3> HIDE DEF Idle
      <3> QED BY <1>2, <2>0, <2>1, <3>1 DEF cmdVars
    <2>2. CASE \E g \in SGroups : proc' = [proc EXCEPT ![w].at = "build", ![w].sg = g,
                                       ![w].chain = dags[proc[w].dag].chains]
      <3>1. PICK g \in SGroups : proc' = [proc EXCEPT ![w].at = "build", ![w].sg = g,
                                       ![w].chain = dags[proc[w].dag].chains]
        BY <2>2
      <3> DEFINE r == [proc[w] EXCEPT !.at = "build", !.sg = g, !.chain = dags[proc[w].dag].chains]
      <3>2. r \in ProcRecord /\ r.at = "build" /\ r.sg = g /\ r.dag = cmdUser
        <4>1. dags[proc[w].dag].chains \in Seq(Nat) BY <1>0, <2>0
        <4>2. proc[w] \in ProcRecord BY <1>0
        <4> HIDE DEF ProcTypes
        <4> QED BY <4>1, <4>2, <2>0 DEF ProcRecord, Labels
      <3>3. proc' = [proc EXCEPT ![w] = r] BY <3>1
      <3> HIDE DEF r
      <3> QED BY <1>2, <2>0, <3>2, <3>3 DEF cmdVars
    <2> QED BY <1>6, <2>1, <2>2 DEF Starter
  <1>7. CASE Spawn
    <2> DEFINE r == [Idle EXCEPT !.at = "take", !.dag = cmdUser]
    <2>1. cmd = "spawn" /\ cmd' = "wait" /\ cmdUser' = cmdUser BY <1>7 DEF Spawn
    <2>2. r \in ProcRecord /\ r.at = "take" /\ r.dag = cmdUser
      BY <1>0, EmptySeq DEF Idle, ProcRecord, Labels
    <2>3. proc' = [p \in Procs |-> IF p \in Workers THEN r ELSE proc[p]] BY <1>7 DEF Spawn
    <2> HIDE DEF r
    <2>4. \A p \in Procs : proc'[p] = IF p \in Workers THEN r ELSE proc[p] BY <2>3
    <2>5. proc' \in [Procs -> ProcRecord] BY <1>0, <2>2, <2>3
    <2> QED BY <1>0, <2>1, <2>2, <2>4, <2>5 DEF ProcTypes
  <1>8. CASE AddTake
    <2> DEFINE r == [Idle EXCEPT !.at = "build", !.sg = added[1], !.chain = <<1>>]
    <2>1. /\ cmd = "add" /\ cmd' = "adding" /\ added[1] \in SGroups
          /\ proc' = [proc EXCEPT ![Console] = r]
      BY <1>0, <1>8 DEF AddTake, Types, CmdTypes
    <2>2. r \in ProcRecord /\ r.at = "build" /\ r.sg = added[1] /\ r.dag = None
      <3>1. <<1>> \in Seq(Nat) OBVIOUS
      <3> QED BY <2>1, <3>1 DEF Idle, ProcRecord, Labels
    <2> HIDE DEF r
    <2> QED BY <1>2, <2>1, <2>2
  <1> QED BY Untouched, <1>1, <1>4, <1>5, <1>6, <1>7, <1>8 DEF ProcStep

\* Calls of UpdateFlow are about flows and go on with a DAG.
LEMMA CallTypesNext == IInv /\ Next => CallTypes'
  <1> SUFFICES ASSUME IInv, Next PROVE CallTypes' OBVIOUS
  <1> USE Names
  <1>0. /\ CallTypes /\ Types /\ call \in [Callers -> CallRecord]
        /\ \A c \in Callers : call[c] \in CallRecord
        /\ NoCall \in CallRecord /\ NoCall.at = "none"
    BY DEF IInv, Types, CallTypes, CallRecord, NoCall
  <1>1. CASE UNCHANGED call
    <2>1. cmd = "flow" => cmd' = "flow" \/ \E c \in Callers : UpdateFlow(c)
      <3>1. CASE Command
        BY <3>1 DEF Command, DeployNF, ConnectNFs, Exp, Activate, AddRead, DestroySGroup,
               FlowCommand, Type
      <3>2. CASE RunCommand
        BY <3>2 DEF RunCommand, BeginActivate, WalkOn, EndActivate, Spawn, AddTake, EndCommand
      <3> QED BY CommandSteps, <3>1, <3>2 DEF cmdVars
    <2>2. ASSUME NEW c \in Callers, UpdateFlow(c) PROVE FALSE
      <3>1. /\ call[c].at # "none"
            /\ \/ call[c].at = "match" /\ \E u \in Users : call' = [call EXCEPT ![c].at = "scan", ![c].dag = u]
               \/ call' = [call EXCEPT ![c] = NoCall]
        BY <1>0, <2>2, Answers
      <3>2. call'[c].at # call[c].at BY <1>0, <3>1 DEF CallRecord
      <3> QED BY <1>1, <3>2
    <2> QED BY <1>0, <1>1, <2>1, <2>2 DEF CallTypes
  <1>2. ASSUME NEW c \in Callers, UpdateFlow(c) PROVE CallTypes'
    <2>1. CASE call' = [call EXCEPT ![c] = NoCall] /\ cmd' = IF c = Console THEN "idle" ELSE cmd
      <3>1. \A d \in Callers : call'[d] = IF d = c THEN NoCall ELSE call[d] BY <1>0, <2>1
      <3>2. call' \in [Callers -> CallRecord] BY <1>0, <2>1
      <3> HIDE DEF NoCall
      <3> QED BY <1>0, <2>1, <3>1, <3>2 DEF CallTypes
    <2>2. CASE /\ call[c].at = "match" /\ cmd' = cmd
               /\ \E u \in Users : call' = [call EXCEPT ![c].at = "scan", ![c].dag = u]
      <3>1. PICK u \in Users : call' = [call EXCEPT ![c].at = "scan", ![c].dag = u] BY <2>2
      <3> DEFINE r == [call[c] EXCEPT !.at = "scan", !.dag = u]
      <3>2. r \in CallRecord /\ r.at = "scan" /\ r.dag = u /\ r.flow = call[c].flow
        BY <1>0 DEF CallRecord
      <3>3. call' = [call EXCEPT ![c] = r] BY <3>1
      <3> HIDE DEF r
      <3>4. \A d \in Callers : call'[d] = IF d = c THEN r ELSE call[d] BY <1>0, <3>3
      <3>5. call' \in [Callers -> CallRecord] BY <1>0, <3>2, <3>3
      <3> QED BY <1>0, <2>2, <3>2, <3>4, <3>5 DEF CallTypes
    <2> QED BY <1>0, <1>2, <2>1, <2>2, Answers
  <1>3. ASSUME NEW c \in Callers, NEW f \in Flows \cup TypedFlows,
               c = Switch => f \in Flows, c = Console => cmd' = "flow",
               c = Switch => cmd' = cmd,
               call' = [call EXCEPT ![c] = [NoCall EXCEPT !.at = "match", !.flow = f]]
        PROVE  CallTypes'
    <2> DEFINE r == [NoCall EXCEPT !.at = "match", !.flow = f]
    <2>1. r \in CallRecord /\ r.at = "match" /\ r.flow = f BY DEF NoCall, CallRecord
    <2>2. call' = [call EXCEPT ![c] = r] BY <1>3
    <2> HIDE DEF r
    <2>3. \A d \in Callers : call'[d] = IF d = c THEN r ELSE call[d] BY <1>0, <2>2
    <2>4. call' \in [Callers -> CallRecord] BY <1>0, <2>1, <2>2
    <2> QED BY <1>0, <1>3, <2>1, <2>3, <2>4 DEF CallTypes
  <1>4. ASSUME NEW f \in Flows, PacketIn(f) PROVE CallTypes'
    BY <1>3, <1>4 DEF PacketIn, cmdVars
  <1>5. ASSUME NEW f \in TypedFlows, FlowCommand(f) PROVE CallTypes'
    BY <1>3, <1>5 DEF FlowCommand, Type
  <1> QED BY Untouched, <1>1, <1>2, <1>4, <1>5 DEF CallStep

\* Flags stay flags, and who is answered is given a SGroup.
LEMMA SgTypesNext == IInv /\ Next => SgTypes' /\ SwitchTypes'
  <1> SUFFICES ASSUME IInv, Next PROVE SgTypes' /\ SwitchTypes' OBVIOUS
  <1> USE DEF Busy, Holding
  <1>0. /\ SgTypes /\ SwitchTypes /\ ListTypes /\ CallTypes /\ DagTypes /\ BOOLEAN = {TRUE, FALSE}
        /\ \A p \in Procs : /\ proc[p].at \in Busy => proc[p].sg \in SGroups
                            /\ proc[p].chain \in Seq(Nat) /\ proc[p].dag \in Users \cup {None}
        /\ \A g \in SGroups : Home[g] \in Workers
    BY Homes DEF IInv, Types, ProcTypes, ProcRecord
  <1>1. byHand' \in BOOLEAN
    BY <1>0, Untouched DEF AddTake, DestroySGroup, SgTypes
  <1>2. SgTypes'
    <2>1. CASE UNCHANGED <<isComplete, isReady, sgLock, instances, dagOf, conns, target>>
      BY <1>0, <1>1, <2>1 DEF SgTypes
    <2>2. ASSUME NEW g \in SGroups, Reset(g),
                 UNCHANGED <<isComplete, isReady, sgLock, conns, target>>
          PROVE  SgTypes'
      BY <1>0, <1>1, <2>2, EmptySeq DEF SgTypes, Reset
    <2>3. ASSUME NEW p \in Procs, FailBuild(p) PROVE SgTypes'
      <3>1. proc[p].sg \in SGroups BY <1>0, <2>3 DEF FailBuild, At
      <3> QED BY <2>2, <2>3, <3>1 DEF FailBuild, barVars
    <2>4. ASSUME NEW p \in Procs, Deploy(p) PROVE SgTypes'
      <3>1. proc[p].sg \in SGroups BY <1>0, <2>4 DEF Deploy, At
      <3>2. instances[proc[p].sg] \o proc[p].chain \in Seq(Nat)
        BY <1>0, <3>1, ConcatProperties DEF SgTypes
      <3> QED BY <1>0, <1>1, <2>4, <3>1, <3>2 DEF Deploy, SgTypes
    <2>5. ASSUME NEW p \in Procs, Link(p) PROVE SgTypes'
      <3>1. proc[p].sg \in SGroups BY <1>0, <2>5 DEF Link, At
      <3> QED BY <1>0, <1>1, <2>5, <3>1 DEF Link, SgTypes, barVars
    <2>6. ASSUME NEW g \in SGroups, DestroySGroup(g) PROVE SgTypes'
      BY <2>2, <2>6 DEF DestroySGroup, barVars
    <2>7. ASSUME NEW g \in SGroups, JoinBarrier(g) \/ OpenBarrier(g) PROVE SgTypes'
      <3>1. CASE JoinBarrier(g)
        <4>1. conns' = [conns EXCEPT ![Home[g]] = @ + 1] /\ sgLock' = [sgLock EXCEPT ![g] = TRUE]
          BY <3>1 DEF JoinBarrier, Connected
        <4>2. conns' \in [Workers -> Nat] BY <1>0, <4>1 DEF SgTypes
        <4> QED BY <1>0, <1>1, <3>1, <4>1, <4>2 DEF JoinBarrier, SgTypes, sgVars
      <3>2. CASE OpenBarrier(g) BY <1>0, <1>1, <3>2 DEF OpenBarrier, SgTypes, sgVars
      <3> QED BY <2>7, <3>1, <3>2
    <2> QED BY Untouched, <2>1, <2>3, <2>4, <2>5, <2>6, <2>7 DEF SGroupStep
  <1>3. SwitchTypes'
    <2>1. ASSUME NEW c \in Callers, NEW g \in SGroups \cup {None}, Answer(c, g),
                 call[c].at # "none"
          PROVE  SwitchTypes'
      <3>1. CASE c = Switch /\ g # None
        BY <1>0, <2>1, <3>1 DEF Answer, Install, SwitchTypes, CallTypes
      <3>2. CASE ~(c = Switch /\ g # None) BY <1>0, <2>1, <3>2 DEF Answer, SwitchTypes
      <3> QED BY <3>1, <3>2
    <2>2. ASSUME NEW c \in Callers, UpdateFlow(c) PROVE SwitchTypes'
      <3>1. call[c].at # "none" BY <2>2, Answers DEF IInv
      <3>2. CASE Background(c)
        <4> DEFINE w == call[c].flow.background
        <4>1. /\ Answer(c, Head(sgroups[w])) /\ w # None /\ sgroups[w] # <<>>
          BY <3>2 DEF Background
        <4>2. w \in Workers
          BY <1>0, <3>1, <4>1, ConstAssumption DEF CallTypes, ConstAssumption
        <4>3. Head(sgroups[w]) \in SGroups
          BY <1>0, <4>1, <4>2, HeadTailProperties DEF ListTypes
        <4> QED BY <2>1, <3>1, <4>1, <4>3
      <3>3. CASE MatchDAG(c)
        <4>1. CASE Answer(c, None) BY <2>1, <3>1, <4>1
        <4>2. CASE ~Answer(c, None) BY <1>0, <3>3, <4>2 DEF MatchDAG, swVars, SwitchTypes
        <4> QED BY <4>1, <4>2
      <3>4. CASE FindAvailableSGroup(c)
        <4>1. call[c].dag \in Users BY <1>0, <3>4 DEF FindAvailableSGroup, Asking, CallTypes
        <4>2. SGroupsOf(call[c].dag) \subseteq SGroups
          BY <1>0, <4>1 DEF SGroupsOf, DagTypes, DagRecord
        <4> QED BY <2>1, <3>1, <3>4, <4>2 DEF FindAvailableSGroup
      <3>5. CASE ScaleUp(c) BY <2>1, <3>1, <3>5 DEF ScaleUp
      <3> QED BY <2>2, <3>2, <3>3, <3>4, <3>5 DEF UpdateFlow
    <2>3. ASSUME Reconnect \/ \E f \in Flows : PacketIn(f) \/ Age(f) \/ ExpireRule(f)
          PROVE  SwitchTypes'
      BY <1>0, <2>3 DEF Reconnect, PacketIn, Age, ExpireRule, SwitchTypes
    <2> QED BY <1>0, Untouched, <2>2, <2>3 DEF SwitchStep, SwitchTypes
  <1> QED BY <1>2, <1>3

-----------------------------------------------------------------------------
(* One owner. *)

\* Nobody takes or gives a SGroup.
LEMMA OwnFrame ==
  ASSUME OwnInv, UNCHANGED <<freeArray, freeLen, sgroups>>,
         \A p \in Procs : \A g \in SGroups : Holds(p, g)' <=> Holds(p, g)
  PROVE  OwnInv'
  <1>1. \A g \in SGroups : (InFree(g)' <=> InFree(g)) /\ (Deployed(g)' <=> Deployed(g))
    BY DEF InFree, Deployed
  <1> QED BY <1>1 DEF OwnInv

\* A process that has none takes the last free SGroup.
LEMMA OwnTake ==
  ASSUME OwnInv, ListTypes, NEW w \in Workers, NEW g, TakeFree(w, g), UNCHANGED sgroups,
         NEW p \in Procs, \A h \in SGroups : ~Holds(p, h),
         \A q \in Procs : \A h \in SGroups : Holds(q, h)' <=> Holds(q, h) \/ (q = p /\ h = g)
  PROVE  OwnInv'
  <1> DEFINE n == freeLen[w]
  <1>1. /\ g \in SGroups /\ n \in 1..Len(freeArray[w]) /\ g = freeArray[w][n]
        /\ freeArray' = freeArray /\ freeLen'[w] = n - 1
        /\ \A v \in Workers \ {w} : freeLen'[v] = freeLen[v]
    BY TakesLast DEF ListTypes
  <1>2. n \in Nat \ {0} /\ \A v \in Workers : freeLen[v] \in Nat
    BY <1>1, LenProperties DEF ListTypes
  <1> HIDE DEF n
  <1>3. Home[g] = w /\ InFree(g)
    <2>1. n \in 1..freeLen[w] BY <1>2 DEF n
    <2>2. Home[g] = w BY <1>1, <2>1 DEF OwnInv
    <2> QED BY <1>1, <2>1, <2>2 DEF InFree
  <1>4. \A h \in SGroups : Deployed(h)' <=> Deployed(h) BY DEF Deployed
  <1>5. ASSUME NEW h \in SGroups PROVE InFree(h)' <=> InFree(h) /\ h # g
    <2>1. CASE Home[h] # w
      <3>1. freeLen'[Home[h]] = freeLen[Home[h]] BY <1>1, <2>1, Homes
      <3> QED BY <1>1, <1>3, <2>1, <3>1 DEF InFree
    <2>2. CASE Home[h] = w
      <3>1. InFree(h)' <=> \E i \in 1..(n - 1) : freeArray[w][i] = h BY <1>1, <2>2 DEF InFree
      <3>2. InFree(h) <=> \E i \in 1..n : freeArray[w][i] = h BY <2>2 DEF InFree, n
      <3>3. \A i \in 1..n : freeArray[w][i] = g => i = n BY <1>1, <1>2 DEF OwnInv, n
      <3>4. \A i : i \in 1..(n - 1) <=> i \in 1..n /\ i # n BY <1>2
      <3> QED BY <1>1, <3>1, <3>2, <3>3, <3>4
    <2> QED BY <2>1, <2>2
  <1>6. ASSUME NEW v \in Workers, NEW i \in 1..freeLen'[v], NEW j \in 1..freeLen'[v]
        PROVE  /\ Home[freeArray'[v][i]] = v
               /\ freeArray'[v][i] = freeArray'[v][j] => i = j
    <2>1. i \in 1..freeLen[v] /\ j \in 1..freeLen[v] BY <1>1, <1>2, <1>6 DEF n
    <2> QED BY <1>1, <2>1 DEF OwnInv
  <1>7. \A h \in SGroups : InFree(h)' \/ Deployed(h)' \/ \E q \in Procs : Holds(q, h)'
    BY <1>4, <1>5 DEF OwnInv
  <1>8. \A h \in SGroups : InFree(h)' => ~Deployed(h)' /\ \A q \in Procs : ~Holds(q, h)'
    BY <1>4, <1>5 DEF OwnInv
  <1>9. \A q \in Procs, h \in SGroups :
           Holds(q, h)' => ~Deployed(h)' /\ \A x \in Procs : Holds(x, h)' => x = q
    BY <1>3, <1>4 DEF OwnInv
  <1>10. \A v \in Workers : /\ IsInjective(sgroups'[v])
                            /\ \A h \in Range(sgroups'[v]) : Home[h] = v
    BY DEF OwnInv
  <1> QED BY <1>6, <1>7, <1>8, <1>9, <1>10 DEF OwnInv

\* The process that holds a SGroup gives it back.
LEMMA OwnPut ==
  ASSUME OwnInv, ListTypes, NEW g \in SGroups, PutFree(g), UNCHANGED sgroups,
         NEW p \in Procs, Holds(p, g),
         \A q \in Procs : \A h \in SGroups : Holds(q, h)' <=> Holds(q, h) /\ q # p
  PROVE  OwnInv'
  <1> DEFINE w == Home[g]
             n == freeLen[w] + 1
  <1>1. /\ w \in Workers /\ n \in Nat
        /\ freeLen'[w] = n /\ freeArray'[w][n] = g
        /\ \A i \in 1..freeLen[w] : freeArray'[w][i] = freeArray[w][i]
        /\ \A v \in Workers \ {w} : freeLen'[v] = freeLen[v] /\ freeArray'[v] = freeArray[v]
    BY PutsBehind
  <1>2. \A v \in Workers : freeLen[v] \in Nat BY DEF ListTypes
  <1>a. \A i : i \in 1..n <=> i \in 1..freeLen[w] \/ i = n BY <1>1, <1>2
  <1>b. ~InFree(g) BY DEF OwnInv
  <1>c. \A i \in 1..freeLen[w] : freeArray[w][i] # g BY <1>b DEF InFree
  <1> HIDE DEF n, w
  <1>4. \A h \in SGroups : Deployed(h)' <=> Deployed(h) BY DEF Deployed
  <1>5. ASSUME NEW h \in SGroups PROVE InFree(h)' <=> InFree(h) \/ h = g
    <2>1. CASE Home[h] # w
      <3>1. freeLen'[Home[h]] = freeLen[Home[h]] /\ freeArray'[Home[h]] = freeArray[Home[h]]
        BY <1>1, <2>1, Homes
      <3> QED BY <2>1, <3>1 DEF InFree, w
    <2>2. CASE Home[h] = w
      <3>1. InFree(h)' <=> \E i \in 1..n : freeArray'[w][i] = h BY <1>1, <2>2 DEF InFree
      <3>2. InFree(h) <=> \E i \in 1..freeLen[w] : freeArray[w][i] = h BY <2>2 DEF InFree
      <3> QED BY <1>1, <1>a, <3>1, <3>2
    <2> QED BY <2>1, <2>2
  <1>6. ASSUME NEW v \in Workers, NEW i \in 1..freeLen'[v], NEW j \in 1..freeLen'[v]
        PROVE  /\ Home[freeArray'[v][i]] = v
               /\ freeArray'[v][i] = freeArray'[v][j] => i = j
    <2>1. CASE v # w BY <1>1, <2>1, <1>6 DEF OwnInv
    <2>2. CASE v = w
      <3>1. i \in 1..n /\ j \in 1..n BY <1>1, <1>6, <2>2
      <3>2. \A k \in 1..freeLen[w] : Home[freeArray'[w][k]] = w BY <1>1 DEF OwnInv
      <3>3. \A k, l \in 1..freeLen[w] : freeArray'[w][k] = freeArray'[w][l] => k = l
        BY <1>1 DEF OwnInv
      <3>4. \A k \in 1..freeLen[w] : freeArray'[w][k] # freeArray'[w][n] BY <1>1, <1>c
      <3>5. Home[freeArray'[w][n]] = w BY <1>1 DEF w
      <3> QED BY <2>2, <1>a, <3>1, <3>2, <3>3, <3>4, <3>5
    <2> QED BY <2>1, <2>2
  <1>7. \A h \in SGroups : InFree(h)' \/ Deployed(h)' \/ \E q \in Procs : Holds(q, h)'
    <2>1. \A h \in SGroups : Holds(p, h) => h = g BY DEF Holds
    <2> QED BY <1>4, <1>5, <2>1 DEF OwnInv
  <1>8. \A h \in SGroups : InFree(h)' => ~Deployed(h)' /\ \A q \in Procs : ~Holds(q, h)'
    BY <1>4, <1>5 DEF OwnInv
  <1>9. \A q \in Procs, h \in SGroups :
           Holds(q, h)' => ~Deployed(h)' /\ \A x \in Procs : Holds(x, h)' => x = q
    BY <1>4 DEF OwnInv
  <1>10. \A v \in Workers : /\ IsInjective(sgroups'[v])
                            /\ \A h \in Range(sgroups'[v]) : Home[h] = v
    BY DEF OwnInv
  <1> QED BY <1>6, <1>7, <1>8, <1>9, <1>10 DEF OwnInv

\* A SGroup is deployed when it is in the range of its worker's list.
LEMMA DeployedInRange ==
  ASSUME ListTypes, NEW g \in SGroups
  PROVE  Deployed(g) <=> g \in Range(sgroups[Home[g]])
  BY DEF Deployed, Range

\* The process that holds a SGroup deploys it.
LEMMA OwnDeploy ==
  ASSUME OwnInv, ListTypes, ListTypes', NEW g \in SGroups, UNCHANGED <<freeArray, freeLen>>,
         sgroups' = [sgroups EXCEPT ![Home[g]] = Append(@, g)],
         NEW p \in Procs, Holds(p, g),
         \A q \in Procs : \A h \in SGroups : Holds(q, h)' <=> Holds(q, h) /\ q # p
  PROVE  OwnInv' /\ \A h \in SGroups : Deployed(h)' <=> Deployed(h) \/ h = g
  <1> DEFINE w == Home[g]
  <1>1. /\ w \in Workers /\ sgroups[w] \in Seq(SGroups)
        /\ sgroups'[w] = Append(sgroups[w], g)
        /\ \A v \in Workers \ {w} : sgroups'[v] = sgroups[v]
    BY Homes DEF ListTypes
  <1>2. IsInjective(sgroups[w]) /\ g \notin Range(sgroups[w])
    BY <1>1, DeployedInRange DEF OwnInv
  <1>3. /\ IsInjective(sgroups'[w]) /\ Range(sgroups'[w]) = Range(sgroups[w]) \cup {g}
    BY <1>1, <1>2, AppendFresh
  <1> HIDE DEF w
  <1>4. ASSUME NEW h \in SGroups PROVE Deployed(h)' <=> Deployed(h) \/ h = g
    <2>0. Deployed(h)' <=> h \in Range(sgroups'[Home[h]]) BY DEF Deployed, Range
    <2>1. CASE Home[h] = w BY <1>3, <2>0, <2>1, DeployedInRange
    <2>2. CASE Home[h] # w
      <3>1. h # g /\ sgroups'[Home[h]] = sgroups[Home[h]] BY <1>1, <2>2, Homes DEF w
      <3> QED BY <2>0, <3>1, DeployedInRange
    <2> QED BY <2>1, <2>2
  <1>5. \A h \in SGroups : InFree(h)' <=> InFree(h) BY DEF InFree
  <1>6. \A v \in Workers : /\ IsInjective(sgroups'[v])
                           /\ \A h \in Range(sgroups'[v]) : Home[h] = v
    BY <1>1, <1>3 DEF OwnInv, w
  <1>7. \A h \in SGroups : InFree(h)' \/ Deployed(h)' \/ \E q \in Procs : Holds(q, h)'
    <2>1. \A h \in SGroups : Holds(p, h) => h = g BY DEF Holds
    <2> QED BY <1>4, <1>5, <2>1 DEF OwnInv
  <1>8. \A h \in SGroups : InFree(h)' => ~Deployed(h)' /\ \A q \in Procs : ~Holds(q, h)'
    BY <1>4, <1>5 DEF OwnInv
  <1>9. \A q \in Procs, h \in SGroups :
           Holds(q, h)' => ~Deployed(h)' /\ \A x \in Procs : Holds(x, h)' => x = q
    BY <1>4 DEF OwnInv
  <1> QED BY <1>4, <1>6, <1>7, <1>8, <1>9 DEF OwnInv

\* When the record of one process changes, so does what it holds.
LEMMA HoldsChange ==
  ASSUME Types, NEW p \in Procs, NEW r, proc' = [proc EXCEPT ![p] = r]
  PROVE  /\ \A q \in Procs \ {p} : proc'[q] = proc[q]
         /\ proc'[p] = r
         /\ \A q \in Procs : \A h : Holds(q, h)' <=>
               IF q = p THEN r.sg = h /\ r.at \in Holding ELSE Holds(q, h)
  BY DEF Types, ProcTypes, Holds

\* The record of a process that returns.
LEMMA Returned ==
  ASSUME Types, NEW p \in Procs, Return(p)
  PROVE  /\ proc' = [proc EXCEPT ![p] = proc'[p]]
         /\ proc'[p].at = Where(p) /\ proc'[p].at \in {"take", "none"}
         /\ proc'[p].dag = IF p \in Workers THEN cmdUser ELSE None
  <1> DEFINE r == [Idle EXCEPT !.at = Where(p), !.dag = IF p \in Workers THEN cmdUser ELSE None]
  <1>1. proc' = [proc EXCEPT ![p] = r] BY DEF Return
  <1>2. proc'[p] = r BY <1>1 DEF Types, ProcTypes
  <1>3. r.at = Where(p) /\ r.dag = IF p \in Workers THEN cmdUser ELSE None BY DEF Idle
  <1> QED BY <1>1, <1>2, <1>3 DEF Where

\* No step but those by hand gives a SGroup two owners, or takes a deployed one away.
LEMMA OwnNext ==
  ASSUME IInv, Next, ~byHand'
  PROVE  OwnInv' /\ \A h \in SGroups : Deployed(h) => Deployed(h)'
  <1> DEFINE Goal == OwnInv' /\ \A h \in SGroups : Deployed(h) => Deployed(h)'
  <1> USE Names DEF Holding
  <1>0. /\ OwnInv /\ ListTypes /\ ListTypes' /\ Types
        /\ proc \in [Procs -> ProcRecord] /\ \A p \in Procs : proc[p] \in ProcRecord
        /\ \A p \in Procs : proc[p].at \in Busy => proc[p].sg \in SGroups
    BY ListTypesNext DEF IInv, Kept, Next, Types, ProcTypes
  <1>1. ASSUME UNCHANGED <<freeArray, freeLen, sgroups>>,
               \A p \in Procs : \A g \in SGroups : Holds(p, g)' <=> Holds(p, g)
        PROVE  Goal
    BY <1>0, <1>1, OwnFrame DEF Deployed
  <1>2. ASSUME NEW w \in Workers, NEW g \in SGroups, TakeFree(w, g), UNCHANGED sgroups,
               NEW p \in Procs, proc[p].at \notin Holding,
               NEW r, proc' = [proc EXCEPT ![p] = r], r.sg = g, r.at \in Holding
        PROVE  Goal
    <2>1. \A q \in Procs : \A h \in SGroups : Holds(q, h)' <=> Holds(q, h) \/ (q = p /\ h = g)
      BY <1>0, <1>2, HoldsChange DEF Holds
    <2>2. \A h \in SGroups : ~Holds(p, h) BY <1>2 DEF Holds
    <2>3. OwnInv' BY <1>0, <1>2, <2>1, <2>2, OwnTake
    <2> QED BY <1>2, <2>3 DEF Deployed
  <1>3. ASSUME NEW p \in Procs, createSGroup(p) PROVE Goal
    <2>1. CASE ReadChain(p)
      <3> DEFINE r == [proc[p] EXCEPT !.at = "build", !.chain = dags[proc[p].dag].chains]
      <3>1. r.sg = proc[p].sg /\ r.at = "build" BY <1>0 DEF ProcRecord
      <3>2. proc' = [proc EXCEPT ![p] = r] /\ proc[p].at = "start" BY <2>1 DEF ReadChain, At
      <3> HIDE DEF r
      <3> QED BY <1>0, <1>1, <2>1, <3>1, <3>2, HoldsChange DEF ReadChain, Holds, freeVars, sgVars
    <2>2. CASE FailBuild(p)
      <3> DEFINE g == proc[p].sg
      <3>1. /\ g \in SGroups /\ Holds(p, g) /\ PutFree(g) /\ UNCHANGED sgroups
        BY <1>0, <2>2 DEF FailBuild, At, Holds, Busy
      <3>2. Return(p) BY <2>2 DEF FailBuild
      <3>3. \A q \in Procs : \A h \in SGroups : Holds(q, h)' <=> Holds(q, h) /\ q # p
        BY <1>0, <3>2, Returned, HoldsChange
      <3>4. OwnInv' BY <1>0, <3>1, <3>3, OwnPut
      <3> QED BY <3>1, <3>4 DEF Deployed
    <2>3. CASE Deploy(p)
      <3> DEFINE g == proc[p].sg
                 r == [proc[p] EXCEPT !.at = "link"]
      <3>1. /\ g \in SGroups /\ Holds(p, g) /\ UNCHANGED <<freeArray, freeLen>>
            /\ sgroups' = [sgroups EXCEPT ![Home[g]] = Append(@, g)]
        BY <1>0, <2>3 DEF Deploy, At, Holds, Busy, freeVars
      <3>2. proc' = [proc EXCEPT ![p] = r] /\ r.at = "link"
        BY <1>0, <2>3 DEF Deploy, Goto, ProcRecord
      <3> HIDE DEF r
      <3>3. \A q \in Procs : \A h \in SGroups : Holds(q, h)' <=> Holds(q, h) /\ q # p
        <4>1. \A q \in Procs : \A h : Holds(q, h)' <=>
                 IF q = p THEN r.sg = h /\ r.at \in Holding ELSE Holds(q, h)
          BY <1>0, <3>2, HoldsChange
        <4> QED BY <4>1, <3>2
      <3> HIDE DEF g
      <3>4. OwnInv /\ ListTypes /\ ListTypes' /\ p \in Procs BY <1>0
      <3> QED BY ONLY <3>1, <3>3, <3>4, OwnDeploy
    <2>4. CASE Link(p)
      <3>1. /\ Return(p) /\ proc[p].at = "link" /\ UNCHANGED <<freeArray, freeLen, sgroups>>
        BY <2>4 DEF Link, At, freeVars
      <3>2. \A q \in Procs : \A h \in SGroups : Holds(q, h)' <=> Holds(q, h)
        BY <1>0, <3>1, Returned, HoldsChange DEF Holds
      <3> QED BY <1>1, <3>1, <3>2
    <2> QED BY <1>3, <2>1, <2>2, <2>3, <2>4 DEF createSGroup
  <1>4. CASE UNCHANGED proc /\ UNCHANGED <<freeArray, freeLen, sgroups>>
    BY <1>1, <1>4 DEF Holds
  <1>5. ASSUME NEW c \in Callers, ScaleUp(c) PROVE Goal
    <2>1. CASE UNCHANGED freeVars /\ UNCHANGED proc
      BY <1>4, <1>5, <2>1 DEF ScaleUp, freeVars, sgVars
    <2>2. ASSUME NEW w \in Workers, NEW g \in SGroups, TakeFree(w, g), At(g, "none"),
                 proc' = [proc EXCEPT ![g] = [at |-> "start", sg |-> g,
                                              dag |-> call[c].dag, chain |-> <<>>]]
          PROVE  Goal
      BY <1>2, <1>5, <2>2 DEF ScaleUp, sgVars, At
    <2> QED BY <1>5, <2>1, <2>2 DEF ScaleUp
  <1>6. ASSUME NEW w \in Workers, Starter(w) PROVE Goal
    <2>0. UNCHANGED sgroups /\ proc[w].at = "take" BY <1>6 DEF Starter, sgVars, At
    <2>1. CASE proc' = [proc EXCEPT ![w] = Idle] /\ UNCHANGED freeVars
      <3>1. Idle.at = "none" BY DEF Idle
      <3> QED BY <1>0, <1>1, <2>0, <2>1, <3>1, HoldsChange DEF Holds, freeVars
    <2>2. ASSUME NEW g \in SGroups, TakeFree(w, g),
                 proc' = [proc EXCEPT ![w].at = "build", ![w].sg = g,
                                      ![w].chain = dags[proc[w].dag].chains]
          PROVE  Goal
      <3> DEFINE r == [proc[w] EXCEPT !.at = "build", !.sg = g,
                                      !.chain = dags[proc[w].dag].chains]
      <3>1. r.at = "build" /\ r.sg = g BY <1>0 DEF ProcRecord
      <3>2. proc' = [proc EXCEPT ![w] = r] BY <2>2
      <3> HIDE DEF r
      <3>3. w \in Procs /\ proc[w].at \notin Holding /\ r.at \in Holding BY <2>0, <3>1
      <3>4. UNCHANGED sgroups BY <2>0
      <3>5. TakeFree(w, g) BY <2>2
      <3> QED BY ONLY <1>2, <3>1, <3>2, <3>3, <3>4, <3>5
    <2> QED BY <1>6, <2>1, <2>2 DEF Starter
  <1>7. CASE Spawn
    <2>1. /\ UNCHANGED <<freeArray, freeLen, sgroups>> /\ cmd = "spawn"
          /\ proc' = [p \in Procs |-> IF p \in Workers THEN [Idle EXCEPT !.at = "take", !.dag = cmdUser]
                                      ELSE proc[p]]
      BY <1>7 DEF Spawn, freeVars, sgVars
    <2>2. [Idle EXCEPT !.at = "take", !.dag = cmdUser].at = "take" BY DEF Idle
    <2>3. \A w \in Workers : proc[w].at = "none" BY <1>0, <2>1 DEF Types, ProcTypes
    <2>4. \A p \in Procs : \A g \in SGroups : Holds(p, g)' <=> Holds(p, g)
      BY <2>1, <2>2, <2>3 DEF Holds
    <2> QED BY <1>1, <2>1, <2>4
  <1>8. CASE AddTake
    <2> DEFINE g == added[1]
               w == Home[g]
               r == [Idle EXCEPT !.at = "build", !.sg = g, !.chain = <<1>>]
    <2>1. /\ cmd = "add" /\ UNCHANGED freeArray /\ UNCHANGED sgroups
          /\ freeLen' = [freeLen EXCEPT ![w] = added[2] - 1]
          /\ proc' = [proc EXCEPT ![Console] = r]
          /\ freeLen[w] = added[2] /\ freeArray[w][added[2]] = g
      BY <1>8 DEF AddTake, sgVars
    <2>2. g \in SGroups /\ added[2] \in 1..Len(freeArray[w]) BY <1>0, <2>1 DEF Types, CmdTypes
    <2>3. r.at = "build" /\ r.sg = g BY DEF Idle
    <2>4. w \in Workers /\ Len(freeArray[w]) \in Nat BY <1>0, <2>2, Homes, LenProperties DEF ListTypes
    <2> HIDE DEF r, w
    <2>5. TakeFree(w, g) BY <2>1, <2>2, <2>4 DEF TakeFree, Shorten
    <2>6. proc[Console].at = "none" BY <1>0, <2>1 DEF Types, ProcTypes
    <2> QED BY <1>2, <2>1, <2>2, <2>3, <2>4, <2>5, <2>6
  <1>9. ASSUME NEW g \in SGroups, DestroySGroup(g) PROVE FALSE BY <1>9 DEF DestroySGroup
  <1> QED BY Untouched, <1>3, <1>4, <1>5, <1>6, <1>7, <1>8, <1>9 DEF ListStep, ProcStep, createSGroup

-----------------------------------------------------------------------------
(* From deployed to ready. *)

\* What happens to a DAG in one step.
LEMMA DagChanges ==
  ASSUME Types, Next, NEW u \in Users
  PROVE  /\ dags[u].flowlets \subseteq dags'[u].flowlets
         /\ dags[u].isActive => dags'[u].isActive
         /\ \/ dags'[u].sgroups = dags[u].sgroups
            \/ \E p \in Procs : /\ Link(p) /\ proc[p].dag = u
                                /\ dags'[u].sgroups = dags[u].sgroups \cup {proc[p].sg}
         /\ \/ dags'[u].chains = dags[u].chains /\ dags'[u].isActive = dags[u].isActive
            \/ cmdUser = u /\ (BeginActivate \/ WalkOn \/ EndActivate)
  <1> DEFINE Same == /\ dags'[u].flowlets = dags[u].flowlets
                     /\ dags'[u].isActive = dags[u].isActive
                     /\ dags'[u].chains = dags[u].chains
             Goal ==
         /\ dags[u].flowlets \subseteq dags'[u].flowlets
         /\ dags[u].isActive => dags'[u].isActive
         /\ \/ dags'[u].sgroups = dags[u].sgroups
            \/ \E p \in Procs : /\ Link(p) /\ proc[p].dag = u
                                /\ dags'[u].sgroups = dags[u].sgroups \cup {proc[p].sg}
         /\ \/ dags'[u].chains = dags[u].chains /\ dags'[u].isActive = dags[u].isActive
            \/ cmdUser = u /\ (BeginActivate \/ WalkOn \/ EndActivate)
  <1>0. /\ dags \in [Users -> DagRecord] /\ dags[u] \in DagRecord
        /\ \A dag \in DagRecord : /\ dag.next \in Seq(Seq(Nat))
                                  /\ DOMAIN dag = {"next", "flowlets", "chains", "sgroups", "isActive"}
        /\ cmd \in Activating => cmdUser \in Users
    BY DEF Types, DagTypes, DagRecord, CmdTypes
  <1>1. CASE dags'[u] = dags[u] BY <1>1
  <1>2. ASSUME NEW p \in Procs, Link(p) PROVE Goal
    <2>1. CASE dags' = [dags EXCEPT ![proc[p].dag].sgroups = @ \cup {proc[p].sg}]
      <3>1. CASE proc[p].dag = u
        <4>1. dags'[u] = [dags[u] EXCEPT !.sgroups = @ \cup {proc[p].sg}] BY <1>0, <2>1, <3>1
        <4>2. Same /\ dags'[u].sgroups = dags[u].sgroups \cup {proc[p].sg}
          BY <1>0, <4>1 DEF DagRecord
        <4> QED BY <1>2, <3>1, <4>2
      <3>2. CASE proc[p].dag # u BY <1>0, <1>1, <2>1, <3>2
      <3> QED BY <3>1, <3>2
    <2> QED BY <1>1, <1>2, <2>1 DEF Link
  <1>3. ASSUME NEW v \in Users, DeployNF(v) \/ ConnectNFs(v) \/ Exp(v) PROVE Goal
    <2>1. \A dag \in DagRecord :
             /\ addNF(dag).flowlets = dag.flowlets /\ addNF(dag).isActive = dag.isActive
             /\ addNF(dag).chains = dag.chains /\ addNF(dag).sgroups = dag.sgroups
      BY DEF addNF, DagRecord
    <2>2. \A dag \in DagRecord, up, down \in Nat : LET d == connectNFs(dag, up, down) IN
             /\ d.flowlets = dag.flowlets /\ d.isActive = dag.isActive
             /\ d.chains = dag.chains /\ d.sgroups = dag.sgroups
      BY DEF connectNFs, DagRecord
    <2>3. \A dag \in DagRecord : LET d == addFlow(dag, ExpFlowlet) IN
             /\ dag.flowlets \subseteq d.flowlets /\ d.isActive = dag.isActive
             /\ d.chains = dag.chains /\ d.sgroups = dag.sgroups
      BY DEF addFlow, DagRecord
    <2>4. CASE v # u BY <1>0, <1>1, <1>3, <2>4 DEF DeployNF, ConnectNFs, Exp
    <2>5. CASE v = u /\ DeployNF(u)
      <3>1. dags'[u] = addNF(dags[u]) BY <1>0, <2>5 DEF DeployNF
      <3> QED BY <1>0, <2>1, <3>1
    <2>6. CASE v = u /\ ConnectNFs(u)
      <3>1. PICK up \in NFs(dags[u]), down \in NFs(dags[u]) : dags'[u] = connectNFs(dags[u], up, down)
        BY <1>0, <2>6 DEF ConnectNFs
      <3>2. NFs(dags[u]) = 1..Len(dags[u].next) /\ Len(dags[u].next) \in Nat
        BY ONLY <1>0, DagOperations
      <3>3. up \in Nat /\ down \in Nat BY <3>1, <3>2
      <3> QED BY <1>0, <2>2, <3>1, <3>3
    <2>7. CASE v = u /\ Exp(u)
      <3> DEFINE n == Len(dags[u].next)
                 added1 == addNF(dags[u])
                 added2 == addNF(added1)
                 linked == connectNFs(added2, n + 1, n + 2)
      <3>1. dags'[u] = addFlow(linked, ExpFlowlet) BY <1>0, <2>7 DEF Exp
      <3>2. added1 \in DagRecord /\ added2 \in DagRecord /\ n \in Nat
            /\ Len(added2.next) = n + 2 /\ NFs(added2) = 1..Len(added2.next)
        <4>1. added1 \in DagRecord /\ n \in Nat /\ Len(added1.next) = n + 1
          BY <1>0, DagOperations
        <4> HIDE DEF added1, n
        <4>2. added2 \in DagRecord /\ Len(added2.next) = Len(added1.next) + 1
          BY ONLY <4>1, DagOperations
        <4> HIDE DEF added2
        <4>3. NFs(added2) = 1..Len(added2.next) BY ONLY <4>2, DagOperations
        <4> QED BY <4>1, <4>2, <4>3
      <3> HIDE DEF n
      <3>3. n + 1 \in NFs(added2) /\ n + 1 \in Nat /\ n + 2 \in Nat BY <3>2
      <3>4. linked \in DagRecord BY ONLY <3>2, <3>3, DagOperations
      <3>5. /\ added2.flowlets = dags[u].flowlets /\ added2.isActive = dags[u].isActive
            /\ added2.chains = dags[u].chains /\ added2.sgroups = dags[u].sgroups
        BY ONLY <1>0, <2>1, <3>2
      <3> HIDE DEF added2
      <3>6. /\ linked.flowlets = dags[u].flowlets /\ linked.isActive = dags[u].isActive
            /\ linked.chains = dags[u].chains /\ linked.sgroups = dags[u].sgroups
        BY ONLY <3>2, <3>3, <3>5, <2>2
      <3> HIDE DEF linked
      <3>7. /\ dags[u].flowlets \subseteq dags'[u].flowlets /\ dags'[u].isActive = dags[u].isActive
            /\ dags'[u].chains = dags[u].chains /\ dags'[u].sgroups = dags[u].sgroups
        BY ONLY <3>1, <3>4, <3>6, <2>3
      <3> QED BY <3>7
    <2> QED BY <1>3, <2>4, <2>5, <2>6, <2>7
  <1>4. CASE BeginActivate
    <2>1. CASE u # cmdUser BY <1>0, <1>1, <1>4, <2>1 DEF BeginActivate
    <2>2. CASE u = cmdUser /\ dags' = [dags EXCEPT ![cmdUser] = ClearChains(@)]
      <3>1. dags'[u] = ClearChains(dags[u]) BY <1>0, <2>2
      <3>2. /\ dags'[u].flowlets = dags[u].flowlets /\ dags'[u].isActive = dags[u].isActive
            /\ dags'[u].sgroups = dags[u].sgroups
        BY <1>0, <3>1 DEF ClearChains, DagRecord
      <3> QED BY <1>4, <2>2, <3>2
    <2> QED BY <1>1, <1>4, <2>1, <2>2 DEF BeginActivate
  <1>5. CASE WalkOn
    <2>1. CASE u # cmdUser BY <1>0, <1>1, <1>5, <2>1 DEF WalkOn
    <2>2. CASE u = cmdUser
      <3>1. PICK nf : dags'[u] = AppendNF(dags[u], nf) BY <1>0, <1>5, <2>2 DEF WalkOn
      <3>2. /\ dags'[u].flowlets = dags[u].flowlets /\ dags'[u].isActive = dags[u].isActive
            /\ dags'[u].sgroups = dags[u].sgroups
        BY <1>0, <3>1 DEF AppendNF, DagRecord
      <3> QED BY <1>5, <2>2, <3>2
    <2> QED BY <2>1, <2>2
  <1>6. CASE EndActivate
    <2>1. CASE u # cmdUser BY <1>0, <1>1, <1>6, <2>1 DEF EndActivate
    <2>2. CASE u = cmdUser
      <3>1. dags'[u] = [dags[u] EXCEPT !.isActive = TRUE] BY <1>0, <1>6, <2>2 DEF EndActivate
      <3>2. /\ dags'[u].flowlets = dags[u].flowlets /\ dags'[u].isActive
            /\ dags'[u].sgroups = dags[u].sgroups
        BY <1>0, <3>1 DEF DagRecord
      <3> QED BY <1>6, <2>2, <3>2
    <2> QED BY <2>1, <2>2
  <1> QED BY Untouched, <1>1, <1>2, <1>3, <1>4, <1>5, <1>6 DEF DagStep

\* Only Deploy lists a SGroup, and makes a process link it next.
LEMMA DeployOnly ==
  ASSUME Types, Next
  PROVE  \/ \E p \in Procs : Deploy(p)
         \/ /\ UNCHANGED <<sgroups, target>>
            /\ \A p \in Procs : proc'[p].at = "link" => proc'[p] = proc[p]
  <1> DEFINE Goal == /\ UNCHANGED <<sgroups, target>>
                     /\ \A p \in Procs : proc'[p].at = "link" => proc'[p] = proc[p]
  <1> USE Names
  <1>0. /\ proc \in [Procs -> ProcRecord] /\ \A p \in Procs : proc[p] \in ProcRecord
    BY DEF Types, ProcTypes
  <1>1. ASSUME UNCHANGED <<sgroups, target>>, NEW p \in Procs, NEW r,
               proc' = [proc EXCEPT ![p] = r], r.at # "link"
        PROVE  Goal
    BY <1>0, <1>1
  <1>2. ASSUME UNCHANGED <<sgroups, target, proc>> PROVE Goal BY <1>2
  <1>3. ASSUME NEW p \in Procs, Return(p), UNCHANGED <<sgroups, target>> PROVE Goal
    <2>1. proc' = [proc EXCEPT ![p] = proc'[p]] /\ proc'[p].at # "link" BY <1>3, Returned
    <2> QED BY <1>1, <1>3, <2>1
  <1>4. ASSUME NEW p \in Procs, FailBuild(p) \/ Link(p) PROVE Goal
    BY <1>3, <1>4 DEF FailBuild, Link, barVars
  <1>5. ASSUME NEW p \in Procs, ReadChain(p) PROVE Goal
    <2> DEFINE r == [proc[p] EXCEPT !.at = "build", !.chain = dags[proc[p].dag].chains]
    <2>1. r.at = "build" BY <1>0 DEF ProcRecord
    <2>2. proc' = [proc EXCEPT ![p] = r] /\ UNCHANGED <<sgroups, target>>
      BY <1>5 DEF ReadChain, sgVars, barVars
    <2> HIDE DEF r
    <2> QED BY <1>1, <2>1, <2>2
  <1>6. ASSUME NEW c \in Callers, ScaleUp(c) PROVE Goal
    <2>1. UNCHANGED <<sgroups, target>> BY <1>6 DEF ScaleUp, sgVars, barVars
    <2>2. ASSUME NEW g \in SGroups,
                 proc' = [proc EXCEPT ![g] = [at |-> "start", sg |-> g, dag |-> call[c].dag,
                                              chain |-> <<>>]]
          PROVE  Goal
      BY <1>1, <2>1, <2>2
    <2> QED BY <1>2, <1>6, <2>1, <2>2 DEF ScaleUp
  <1>7. ASSUME NEW w \in Workers, Starter(w) PROVE Goal
    <2>1. UNCHANGED <<sgroups, target>> BY <1>7 DEF Starter, sgVars, barVars
    <2>2. CASE proc' = [proc EXCEPT ![w] = Idle]
      <3>1. Idle.at = "none" BY DEF Idle
      <3> QED BY <1>1, <2>1, <2>2, <3>1
    <2>3. CASE ~(proc' = [proc EXCEPT ![w] = Idle])
      <3>1. PICK g \in SGroups : proc' = [proc EXCEPT ![w].at = "build", ![w].sg = g,
                                                      ![w].chain = dags[proc[w].dag].chains]
        BY <1>7, <2>3 DEF Starter
      <3> DEFINE r == [proc[w] EXCEPT !.at = "build", !.sg = g, !.chain = dags[proc[w].dag].chains]
      <3>2. r.at = "build" BY <1>0 DEF ProcRecord
      <3>3. proc' = [proc EXCEPT ![w] = r] BY <3>1
      <3> HIDE DEF r
      <3> QED BY <1>1, <2>1, <3>2, <3>3
    <2> QED BY <2>2, <2>3
  <1>8. CASE Spawn
    <2>1. [Idle EXCEPT !.at = "take", !.dag = cmdUser].at = "take" BY DEF Idle
    <2> QED BY <1>8, <2>1 DEF Spawn, sgVars, barVars
  <1>9. CASE AddTake
    <2> DEFINE r == [Idle EXCEPT !.at = "build", !.sg = added[1], !.chain = <<1>>]
    <2>1. r.at = "build" BY DEF Idle
    <2>2. proc' = [proc EXCEPT ![Console] = r] /\ UNCHANGED <<sgroups, target>>
      BY <1>9 DEF AddTake, sgVars, barVars
    <2> HIDE DEF r
    <2> QED BY <1>1, <2>1, <2>2
  <1>10. ASSUME NEW g \in SGroups, DestroySGroup(g) PROVE UNCHANGED <<sgroups, target>>
    BY <1>10 DEF DestroySGroup, barVars
  <1>11. ASSUME ~ProcStep PROVE Goal \/ \E p \in Procs : Deploy(p)
    <2>1. UNCHANGED proc BY <1>11, Untouched
    <2>2. UNCHANGED <<sgroups, target>> \/ \E p \in Procs : Deploy(p)
      <3>1. (\E g \in SGroups : DestroySGroup(g)) \/ UNCHANGED <<sgroups, target>>
        BY <1>11, Untouched DEF ListStep, ProcStep, createSGroup
      <3> QED BY <3>1, <1>10
    <2> QED BY <1>2, <2>1, <2>2
  <1> QED BY <1>4, <1>5, <1>6, <1>7, <1>8, <1>9, <1>11 DEF ProcStep, createSGroup

\* A SGroup is complete when it is linked, joins when complete, and stays deployed.
LEMMA BuildNext ==
  ASSUME IInv, Next, ~byHand'
  PROVE  BuildInv'
  <1> USE Names DEF Holding, Busy
  <1>0. /\ OwnInv /\ LinkInv /\ FlagInv /\ LinkedInv /\ ListTypes /\ ListTypes' /\ Types /\ SgTypes
        /\ \A p \in Procs : proc[p].at \in Busy => proc[p].sg \in SGroups
        /\ \A p \in Procs : proc[p] \in ProcRecord
        /\ \A u \in Users : dags[u].sgroups \subseteq SGroups
        /\ \A g \in SGroups : Deployed(g) => Deployed(g)'
        /\ proc \in [Procs -> ProcRecord]
    BY ListTypesNext, OwnNext DEF IInv, Kept, BuildInv, Next, Types, ProcTypes, DagTypes, DagRecord
  \* Nobody is deployed, and what is linked has been.
  <1>1. ASSUME \A p \in Procs : proc'[p].at = "link" => proc'[p] = proc[p],
               UNCHANGED isComplete
        PROVE  LinkInv'
    <2> SUFFICES ASSUME NEW p \in Procs, proc'[p].at = "link"
                 PROVE  /\ Deployed(proc[p].sg)' /\ ~isComplete'[proc'[p].sg]
                        /\ \A q \in Procs : proc'[q].at = "link" /\ proc'[q].sg = proc'[p].sg
                                             => q = p
      BY DEF LinkInv
    <2>1. proc'[p] = proc[p] /\ proc[p].sg \in SGroups BY <1>0, <1>1
    <2>2. Deployed(proc[p].sg) /\ ~isComplete[proc[p].sg] BY <1>0, <2>1 DEF LinkInv
    <2>3. ASSUME NEW q \in Procs, proc'[q].at = "link", proc'[q].sg = proc'[p].sg PROVE q = p
      <3>1. proc'[q] = proc[q] BY <1>1, <2>3
      <3> QED BY <1>0, <2>1, <2>3, <3>1 DEF LinkInv
    <2>4. Deployed(proc[p].sg)'
      <3>1. PICK h \in SGroups : h = proc[p].sg BY <2>1
      <3>2. Deployed(h) BY <2>2, <3>1
      <3>3. Deployed(h)' BY <1>0, <3>2
      <3> QED BY <2>1, <3>1, <3>3 DEF Deployed
    <2> QED BY <1>1, <2>1, <2>2, <2>3, <2>4
  <1>2. ASSUME \A p \in Procs : ~Link(p), UNCHANGED <<isComplete, dagOf>>
        PROVE  LinkedInv'
    <2>1. \A u \in Users : dags'[u].sgroups = dags[u].sgroups BY <1>0, <1>2, DagChanges
    <2> QED BY <1>0, <1>2, <2>1 DEF LinkedInv
  <1>3. ASSUME NEW p \in Procs, Deploy(p) PROVE BuildInv'
    <2> DEFINE g == proc[p].sg
               r == [proc[p] EXCEPT !.at = "link"]
    <2>1. /\ proc[p].at = "build" /\ g \in SGroups /\ Holds(p, g)
          /\ sgroups' = [sgroups EXCEPT ![Home[g]] = Append(@, g)]
          /\ instances' = [instances EXCEPT ![g] = @ \o proc[p].chain]
          /\ UNCHANGED <<freeArray, freeLen, isComplete, isReady, sgLock, dagOf, dags>>
      BY <1>0, <1>3 DEF Deploy, At, Holds, freeVars
    <2>2. proc' = [proc EXCEPT ![p] = r] /\ r.at = "link" /\ r.sg = g
      BY <1>0, <1>3 DEF Deploy, Goto, ProcRecord
    <2> HIDE DEF r, g
    <2>3. \A q \in Procs : \A h : Holds(q, h)' <=>
             IF q = p THEN r.sg = h /\ r.at \in Holding ELSE Holds(q, h)
      BY <1>0, <2>2, HoldsChange
    <2>4. \A h \in SGroups : Deployed(h)' <=> Deployed(h) \/ h = g
      <3>1. \A q \in Procs : \A h \in SGroups : Holds(q, h)' <=> Holds(q, h) /\ q # p
        BY <2>2, <2>3
      <3>2. OwnInv /\ ListTypes /\ ListTypes' /\ p \in Procs BY <1>0
      <3> QED BY ONLY <2>1, <3>1, <3>2, OwnDeploy
    <2>5. ~Deployed(g) /\ ~isComplete[g] BY <1>0, <2>1 DEF OwnInv, FlagInv
    <2>6. \A q \in Procs : proc'[q] = IF q = p THEN r ELSE proc[q] BY <1>0, <2>2
    <2>7. LinkInv'
      <3>1. \A q \in Procs : proc[q].at = "link" => proc[q].sg # g
        BY <1>0, <2>5 DEF LinkInv
      <3>2. \A q \in Procs : proc'[q].at = "link" =>
               IF q = p THEN proc'[q].sg = g ELSE proc'[q] = proc[q] /\ proc[q].sg # g
        BY <2>2, <2>6, <3>1
      <3>3. ASSUME NEW q \in Procs, proc'[q].at = "link"
            PROVE  /\ \E h \in SGroups : /\ proc'[q].sg = h /\ Deployed(h)'
                                          /\ ~isComplete'[h]
                   /\ \A x \in Procs : proc'[x].at = "link" /\ proc'[x].sg = proc'[q].sg => x = q
        <4>1. CASE q = p BY <2>1, <2>4, <2>5, <3>2, <3>3, <4>1
        <4>2. CASE q # p
          <5>1. proc'[q] = proc[q] /\ proc[q].at = "link" /\ proc[q].sg \in SGroups
            BY <1>0, <3>2, <3>3, <4>2
          <5>2. Deployed(proc[q].sg) /\ ~isComplete[proc[q].sg] BY <1>0, <5>1 DEF LinkInv
          <5>3. \A x \in Procs : proc'[x].at = "link" /\ proc'[x].sg = proc'[q].sg => x = q
            BY <1>0, <3>2, <4>2, <5>1 DEF LinkInv
          <5> QED BY <2>1, <2>4, <5>1, <5>2, <5>3
        <4> QED BY <4>1, <4>2
      <3> QED BY <3>3 DEF LinkInv, Deployed
    <2>8. FlagInv' BY <1>0, <2>1, <2>4, <2>5 DEF FlagInv, SgTypes
    <2>9. LinkedInv' BY <1>0, <2>1 DEF LinkedInv
    <2> QED BY <2>7, <2>8, <2>9 DEF BuildInv
  <1> SUFFICES ASSUME ~\E p \in Procs : Deploy(p) PROVE BuildInv' BY <1>3
  <1>4. /\ UNCHANGED <<sgroups, target>>
        /\ \A p \in Procs : proc'[p].at = "link" => proc'[p] = proc[p]
        /\ \A g \in SGroups : Deployed(g)' <=> Deployed(g)
    BY <1>0, DeployOnly DEF Deployed
  <1>5. ASSUME UNCHANGED isComplete PROVE LinkInv' BY <1>1, <1>4, <1>5
  <1>6. ASSUME NEW p \in Procs, FailBuild(p) PROVE BuildInv'
    <2> DEFINE g == proc[p].sg
    <2>1. /\ proc[p].at = "build" /\ g \in SGroups /\ Holds(p, g)
          /\ UNCHANGED <<isComplete, isReady, sgLock, dags>>
          /\ instances' = [instances EXCEPT ![g] = <<>>]
          /\ dagOf' = [dagOf EXCEPT ![g] = None]
      BY <1>0, <1>6 DEF FailBuild, At, Holds, Reset, barVars
    <2> HIDE DEF g
    <2>2. ~Deployed(g) /\ ~isComplete[g] BY <1>0, <2>1 DEF OwnInv, FlagInv
    <2>3. FlagInv' BY <1>0, <1>4, <2>1, <2>2 DEF FlagInv, SgTypes
    <2>4. LinkedInv' BY <1>0, <2>1, <2>2 DEF LinkedInv, SgTypes
    <2> QED BY <1>5, <2>1, <2>3, <2>4 DEF BuildInv
  <1>7. ASSUME NEW p \in Procs, Link(p) PROVE BuildInv'
    <2> DEFINE g == proc[p].sg
               v == proc[p].dag
    <2>1. /\ proc[p].at = "link" /\ g \in SGroups /\ Deployed(g) /\ ~isComplete[g]
          /\ isComplete' = [isComplete EXCEPT ![g] = TRUE]
          /\ dagOf' = [dagOf EXCEPT ![g] = v]
          /\ UNCHANGED <<isReady, sgLock, instances>>
      BY <1>0, <1>7 DEF Link, At, barVars, LinkInv
    <2>2. LinkInv'
      <3>1. proc'[p].at # "link" BY <1>0, <1>7, Returned DEF Link
      <3>2. ASSUME NEW q \in Procs, proc'[q].at = "link"
            PROVE  /\ proc[q].at = "link" /\ proc'[q] = proc[q]
                   /\ proc[q].sg \in SGroups \ {g}
        BY <1>0, <1>4, <2>1, <3>1, <3>2 DEF LinkInv
      <3>3. ASSUME NEW q \in Procs, proc'[q].at = "link"
            PROVE  /\ \E h \in SGroups : /\ proc'[q].sg = h /\ Deployed(h)'
                                          /\ ~isComplete'[h]
                   /\ \A x \in Procs : proc'[x].at = "link" /\ proc'[x].sg = proc'[q].sg => x = q
        <4>1. Deployed(proc[q].sg) /\ ~isComplete[proc[q].sg] BY <1>0, <3>2, <3>3 DEF LinkInv
        <4>2. \A x \in Procs : proc'[x].at = "link" /\ proc'[x].sg = proc'[q].sg => x = q
          BY <1>0, <3>2, <3>3 DEF LinkInv
        <4>3. isComplete'[proc[q].sg] = isComplete[proc[q].sg]
          BY <1>0, <2>1, <3>2, <3>3 DEF SgTypes
        <4> QED BY <1>4, <3>2, <3>3, <4>1, <4>2, <4>3
      <3> QED BY <3>3 DEF LinkInv, Deployed
    <2>3. FlagInv' BY <1>0, <1>4, <2>1 DEF FlagInv, SgTypes
    <2>4. LinkedInv'
      <3>1. \A u \in Users : \A h \in dags[u].sgroups : h # g /\ isComplete'[h] /\ dagOf'[h] = u
        BY <1>0, <2>1 DEF LinkedInv, SgTypes
      <3>2. \/ dags' = dags
            \/ v # None /\ dags' = [dags EXCEPT ![v].sgroups = @ \cup {g}]
        BY <1>7 DEF Link
      <3>3. \A u \in Users : \A h \in dags'[u].sgroups : h \in dags[u].sgroups \/ (u = v /\ h = g)
        BY <1>0, <3>2 DEF Types, DagTypes, DagRecord
      <3> QED BY <1>0, <2>1, <3>1, <3>3 DEF LinkedInv, SgTypes
    <2> QED BY <2>2, <2>3, <2>4 DEF BuildInv
  <1>8. ASSUME NEW g \in SGroups, JoinBarrier(g) \/ OpenBarrier(g) PROVE BuildInv'
    <2>1. UNCHANGED <<isComplete, dagOf, instances, dags>>
      BY <1>8 DEF JoinBarrier, OpenBarrier, sgVars
    <2>2. isComplete[g] BY <1>0, <1>8 DEF JoinBarrier, OpenBarrier, MayJoin, FlagInv
    <2>3. \A h \in SGroups : isReady'[h] \/ sgLock'[h] => isComplete[h]
      <3>1. CASE JoinBarrier(g) BY <1>0, <2>2, <3>1 DEF JoinBarrier, SgTypes, FlagInv
      <3>2. CASE OpenBarrier(g) BY <1>0, <2>2, <3>2 DEF OpenBarrier, SgTypes, FlagInv
      <3> QED BY <1>8, <3>1, <3>2
    <2>4. FlagInv' BY <1>0, <1>4, <2>1, <2>3 DEF FlagInv
    <2>5. LinkedInv' BY <1>0, <2>1 DEF LinkedInv
    <2> QED BY <1>5, <2>1, <2>4, <2>5 DEF BuildInv
  <1>9. ASSUME NEW g \in SGroups, DestroySGroup(g) PROVE FALSE BY <1>9 DEF DestroySGroup
  <1>10. ASSUME ~SGroupStep PROVE BuildInv'
    <2>1. UNCHANGED <<isComplete, isReady, sgLock, instances, dagOf>> BY <1>10, Untouched
    <2>2. FlagInv' BY <1>0, <1>4, <2>1 DEF FlagInv
    <2> QED BY <1>2, <1>5, <1>10, <2>1, <2>2 DEF SGroupStep, BuildInv
  <1> QED BY <1>6, <1>7, <1>8, <1>9, <1>10 DEF SGroupStep

-----------------------------------------------------------------------------
(* The barrier's counters. *)

\* SGroups that joined are those that are ready or hold their mutex.
LEMMA CountNext ==
  ASSUME IInv, Next, ~byHand'
  PROVE  CountInv'
  <1> USE Names
  <1>0. /\ CountInv /\ ListTypes /\ SgTypes /\ IsFiniteSet(SGroups) /\ Types /\ FlagInv
        /\ \A p \in Procs : proc[p].at \in Busy => proc[p].sg \in SGroups
        /\ \A w \in Workers : sgroups[w] \in Seq(SGroups) /\ target[w] \in Nat /\ conns[w] \in Nat
        /\ \A w \in Workers : IsFiniteSet(Joined(w))
    <2>1. IsFiniteSet(SGroups) BY ConstAssumption DEF ConstAssumption
    <2>2. \A w \in Workers : IsFiniteSet(Joined(w)) BY <2>1, FS_Subset DEF Joined
    <2> QED BY <2>1, <2>2 DEF IInv, Kept, BuildInv, Next, Types, ProcTypes, ListTypes, SgTypes
  <1>1. ASSUME NEW w \in Workers PROVE target'[w] = Len(sgroups'[w])
    <2>1. CASE UNCHANGED <<sgroups, target>> BY <1>0, <2>1 DEF CountInv
    <2>2. ASSUME NEW p \in Procs, Deploy(p) PROVE target'[w] = Len(sgroups'[w])
      <3>1. PICK g \in SGroups : g = proc[p].sg BY <1>0, <2>2 DEF Deploy, At, Busy, Holding
      <3>2. /\ sgroups' = [sgroups EXCEPT ![Home[g]] = Append(@, g)]
            /\ target' = [target EXCEPT ![Home[g]] = @ + 1]
        BY <2>2, <3>1 DEF Deploy
      <3>3. Len(Append(sgroups[w], g)) = Len(sgroups[w]) + 1 BY <1>0, AppendProperties
      <3>4. CASE Home[g] = w
        <4>1. sgroups'[w] = Append(sgroups[w], g) /\ target'[w] = target[w] + 1
          BY <3>2, <3>4 DEF IInv, Types, ListTypes, SgTypes
        <4> QED BY <1>0, <3>3, <4>1 DEF CountInv
      <3>5. CASE Home[g] # w
        <4>1. sgroups'[w] = sgroups[w] /\ target'[w] = target[w]
          BY <3>2, <3>5 DEF IInv, Types, ListTypes, SgTypes
        <4> QED BY <1>0, <4>1 DEF CountInv
      <3> QED BY <3>4, <3>5
    <2> QED BY <1>0, <2>1, <2>2, DeployOnly
  <1>2. ASSUME NEW w \in Workers PROVE conns'[w] = Cardinality(Joined(w))'
    <2>0. conns[w] = Cardinality(Joined(w)) BY <1>0 DEF CountInv
    <2>1. CASE UNCHANGED <<conns, isReady, sgLock>> BY <2>0, <2>1 DEF Joined
    <2>2. ASSUME NEW g \in SGroups, JoinBarrier(g) PROVE conns'[w] = Cardinality(Joined(w))'
      <3>1. /\ ~isReady[g] /\ ~sgLock[g]
            /\ conns' = [conns EXCEPT ![Home[g]] = @ + 1]
            /\ isReady' = isReady /\ sgLock' = [sgLock EXCEPT ![g] = TRUE]
        BY <2>2 DEF JoinBarrier, MayJoin, Connected
      <3>2. CASE Home[g] = w
        <4>1. Joined(w)' = Joined(w) \cup {g} /\ g \notin Joined(w)
          BY <1>0, <3>1, <3>2 DEF Joined, SgTypes
        <4>2. conns'[w] = conns[w] + 1 BY <1>0, <3>1, <3>2 DEF SgTypes
        <4> HIDE DEF Joined
        <4>3. Cardinality(Joined(w) \cup {g}) = Cardinality(Joined(w)) + 1
          BY <1>0, <4>1, FS_AddElement
        <4> QED BY <2>0, <4>1, <4>2, <4>3
      <3>3. CASE Home[g] # w
        <4>1. Joined(w)' = Joined(w) BY <1>0, <3>1, <3>3 DEF Joined, SgTypes
        <4>2. conns'[w] = conns[w] BY <1>0, <3>1, <3>3 DEF SgTypes
        <4> QED BY <2>0, <4>1, <4>2
      <3> QED BY <3>2, <3>3
    <2>3. ASSUME NEW g \in SGroups, OpenBarrier(g) PROVE conns'[w] = Cardinality(Joined(w))'
      <3>1. /\ sgLock[g] /\ conns' = conns
            /\ isReady' = [isReady EXCEPT ![g] = TRUE] /\ sgLock' = [sgLock EXCEPT ![g] = FALSE]
        BY <2>3 DEF OpenBarrier
      <3>2. Joined(w)' = Joined(w) BY <1>0, <3>1 DEF Joined, SgTypes
      <3> QED BY <2>0, <3>1, <3>2
    <2>4. ASSUME NEW p \in Procs, FailBuild(p) \/ Deploy(p) \/ Link(p)
          PROVE  UNCHANGED <<conns, isReady, sgLock>>
      BY <2>4 DEF FailBuild, Deploy, Link, barVars
    <2>5. ASSUME NEW g \in SGroups, DestroySGroup(g) PROVE FALSE BY <2>5 DEF DestroySGroup
    <2> QED BY Untouched, <2>1, <2>2, <2>3, <2>4, <2>5 DEF SGroupStep
  <1> QED BY <1>1, <1>2 DEF CountInv

\* Who joins has been deployed.
LEMMA JoinedAtMost ==
  ASSUME ListTypes', OwnInv', BuildInv', CountInv'
  PROVE  \A w \in Workers : conns'[w] <= target'[w]
  <1> SUFFICES ASSUME NEW w \in Workers PROVE conns'[w] <= target'[w] OBVIOUS
  <1>1. sgroups'[w] \in Seq(SGroups) /\ IsInjective(sgroups'[w]) BY DEF ListTypes, OwnInv
  <1>2. IsFiniteSet(Range(sgroups'[w])) /\ Cardinality(Range(sgroups'[w])) = Len(sgroups'[w])
    BY <1>1, LenIsCardinality
  <1>3. Joined(w)' \subseteq Range(sgroups'[w])
    <2>1. ASSUME NEW g \in Joined(w)' PROVE Deployed(g)' /\ Home[g] = w
      BY <2>1 DEF Joined, BuildInv, FlagInv
    <2> QED BY <2>1 DEF Deployed, Range
  <1>4. Cardinality(Joined(w)') <= Len(sgroups'[w]) BY <1>2, <1>3, FS_Subset
  <1>5. target'[w] = Len(sgroups'[w]) /\ conns'[w] = Cardinality(Joined(w)') BY DEF CountInv
  <1> QED BY <1>4, <1>5

-----------------------------------------------------------------------------
(* Chains. *)

\* What becomes of a process of createSGroup.
LEMMA ProcMoves ==
  ASSUME Types, Next, NEW p \in Procs
  PROVE  \/ proc'[p] = proc[p]
         \/ (FailBuild(p) \/ Link(p)) /\ proc'[p].at \in {"take", "none"}
         \/ Deploy(p) /\ proc'[p] = [proc[p] EXCEPT !.at = "link"]
         \/ /\ ReadChain(p)
            /\ proc'[p] = [proc[p] EXCEPT !.at = "build", !.chain = dags[proc[p].dag].chains]
         \/ /\ proc[p].at \notin Busy
            /\ \/ proc'[p].at \in {"take", "none"}
               \/ /\ p \in SGroups /\ proc'[p].at = "start"
                  /\ \E c \in Callers : call[c].at = "scan" /\ proc'[p].dag = call[c].dag
               \/ proc'[p].at = "build" /\ proc'[p].dag = None
               \/ /\ p \in Workers /\ Starter(p) /\ proc'[p].at = "build"
                  /\ proc'[p].dag = proc[p].dag /\ proc'[p].chain = dags[proc[p].dag].chains
  <1> DEFINE Goal ==
         \/ proc'[p] = proc[p]
         \/ (FailBuild(p) \/ Link(p)) /\ proc'[p].at \in {"take", "none"}
         \/ Deploy(p) /\ proc'[p] = [proc[p] EXCEPT !.at = "link"]
         \/ /\ ReadChain(p)
            /\ proc'[p] = [proc[p] EXCEPT !.at = "build", !.chain = dags[proc[p].dag].chains]
         \/ /\ proc[p].at \notin Busy
            /\ \/ proc'[p].at \in {"take", "none"}
               \/ /\ p \in SGroups /\ proc'[p].at = "start"
                  /\ \E c \in Callers : call[c].at = "scan" /\ proc'[p].dag = call[c].dag
               \/ proc'[p].at = "build" /\ proc'[p].dag = None
               \/ /\ p \in Workers /\ Starter(p) /\ proc'[p].at = "build"
                  /\ proc'[p].dag = proc[p].dag /\ proc'[p].chain = dags[proc[p].dag].chains
  <1> USE Names
  <1>0. /\ proc \in [Procs -> ProcRecord] /\ proc[p] \in ProcRecord
        /\ \A w \in Workers : proc[w].at # "none" => cmd = "wait"
        /\ proc[Console].at # "none" => cmd = "adding"
    BY DEF Types, ProcTypes
  <1>1. ASSUME NEW q \in Procs, NEW r, proc' = [proc EXCEPT ![q] = r]
        PROVE  proc'[p] = IF p = q THEN r ELSE proc[p]
    BY <1>0, <1>1
  <1>2. ASSUME NEW q \in Procs, FailBuild(q) \/ Link(q) PROVE Goal
    <2>1. /\ proc' = [proc EXCEPT ![q] = proc'[q]] /\ proc'[q].at \in {"take", "none"}
      BY <1>2, Returned DEF FailBuild, Link
    <2> QED BY <1>1, <1>2, <2>1
  <1>3. ASSUME NEW q \in Procs, ReadChain(q) PROVE Goal
    <2> DEFINE r == [proc[q] EXCEPT !.at = "build", !.chain = dags[proc[q].dag].chains]
    <2>1. proc' = [proc EXCEPT ![q] = r] BY <1>3 DEF ReadChain
    <2>2. proc'[p] = IF p = q THEN r ELSE proc[p] BY <1>1, <2>1
    <2> QED BY <1>3, <2>2
  <1>4. ASSUME NEW q \in Procs, Deploy(q) PROVE Goal
    <2> DEFINE r == [proc[q] EXCEPT !.at = "link"]
    <2>1. proc' = [proc EXCEPT ![q] = r] BY <1>4 DEF Deploy, Goto
    <2>2. proc'[p] = IF p = q THEN r ELSE proc[p] BY <1>1, <2>1
    <2> QED BY <1>4, <2>2
  <1>5. ASSUME NEW c \in Callers, ScaleUp(c) PROVE Goal
    <2>1. CASE UNCHANGED proc BY <2>1
    <2>2. CASE ~UNCHANGED proc
      <3>1. PICK g \in SGroups :
               /\ At(g, "none") /\ call[c].at = "scan"
               /\ proc' = [proc EXCEPT ![g] = [at |-> "start", sg |-> g, dag |-> call[c].dag,
                                               chain |-> <<>>]]
        BY <1>5, <2>2 DEF ScaleUp, Asking
      <3>2. proc'[p] = IF p = g THEN [at |-> "start", sg |-> g, dag |-> call[c].dag, chain |-> <<>>]
                                ELSE proc[p]
        BY <1>1, <3>1
      <3> QED BY <3>1, <3>2 DEF At, Busy, Holding
    <2> QED BY <2>1, <2>2
  <1>6. ASSUME NEW w \in Workers, Starter(w) PROVE Goal
    <2>0. proc[w].at \notin Busy BY <1>6 DEF Starter, At, Busy, Holding
    <2>1. CASE proc' = [proc EXCEPT ![w] = Idle]
      <3>1. proc'[p] = IF p = w THEN Idle ELSE proc[p] BY <1>1, <2>1
      <3> QED BY <2>0, <3>1 DEF Idle
    <2>2. CASE ~(proc' = [proc EXCEPT ![w] = Idle])
      <3>1. PICK g \in SGroups : proc' = [proc EXCEPT ![w].at = "build", ![w].sg = g,
                                                      ![w].chain = dags[proc[w].dag].chains]
        BY <1>6, <2>2 DEF Starter
      <3> DEFINE r == [proc[w] EXCEPT !.at = "build", !.sg = g, !.chain = dags[proc[w].dag].chains]
      <3>2. proc' = [proc EXCEPT ![w] = r] BY <3>1
      <3>3. proc'[p] = IF p = w THEN r ELSE proc[p] BY <1>1, <3>2
      <3>4. proc[w] \in ProcRecord BY <1>0
      <3>5. r.at = "build" /\ r.dag = proc[w].dag /\ r.chain = dags[proc[w].dag].chains
        BY <3>4 DEF ProcRecord
      <3> HIDE DEF r
      <3> QED BY <1>6, <2>0, <3>3, <3>5
    <2> QED BY <2>1, <2>2
  <1>7. CASE Spawn
    <2>1. CASE p \in Workers
      <3>1. proc'[p] = [Idle EXCEPT !.at = "take", !.dag = cmdUser] BY <1>7, <2>1 DEF Spawn
      <3>2. proc'[p].at = "take" BY <3>1 DEF Idle
      <3>3. proc[p].at = "none" BY <1>0, <1>7, <2>1 DEF Spawn
      <3> QED BY <3>2, <3>3 DEF Busy, Holding
    <2>2. CASE p \notin Workers BY <1>7, <2>2 DEF Spawn
    <2> QED BY <2>1, <2>2
  <1>8. CASE AddTake
    <2> DEFINE r == [Idle EXCEPT !.at = "build", !.sg = added[1], !.chain = <<1>>]
    <2>1. r.at = "build" /\ r.dag = None BY DEF Idle
    <2>2. proc' = [proc EXCEPT ![Console] = r] BY <1>8 DEF AddTake
    <2>3. proc[Console].at = "none" BY <1>0, <1>8 DEF AddTake
    <2> HIDE DEF r
    <2>4. proc'[p] = IF p = Console THEN r ELSE proc[p] BY <1>1, <2>2
    <2> QED BY <2>1, <2>3, <2>4 DEF Busy, Holding
  <1> QED BY Untouched, <1>2, <1>3, <1>4, <1>5, <1>6, <1>7, <1>8 DEF ProcStep, createSGroup

\* How the command line comes to walk, and to start SGroups.
LEMMA Activation ==
  ASSUME Types, Next
  PROVE  /\ renewed \subseteq renewed'
         /\ cmd' = "walk" => \/ cmd = "walk" /\ cmdUser' = cmdUser
                             \/ BeginActivate /\ cmdUser' = cmdUser
         /\ cmd' \in {"spawn", "wait"} =>
               /\ cmdUser' = cmdUser
               /\ \/ cmd \in {"spawn", "wait"}
                  \/ EndActivate
                  \/ cmdUser \in renewed'
  <1>1. CASE Command
    BY <1>1, Untouched DEF Command, DeployNF, ConnectNFs, Exp, Activate, AddRead, DestroySGroup,
                           FlowCommand, Type, histVars
  <1>2. CASE RunCommand
    <2>1. CASE BeginActivate BY <2>1 DEF BeginActivate
    <2>2. CASE ~BeginActivate
      BY <1>2, <2>2, Untouched
      DEF RunCommand, WalkOn, EndActivate, Spawn, AddTake, EndCommand, cmdVars, histVars
    <2> QED BY <2>1, <2>2
  <1>3. ASSUME NEW c \in Callers, UpdateFlow(c), ~RunCommand
        PROVE  /\ renewed' = renewed
               /\ cmd' = "idle" \/ UNCHANGED <<cmd, cmdUser>>
    <2>1. renewed' = renewed BY <1>3, Untouched DEF RunCommand
    <2>2. cmd' = "idle" \/ UNCHANGED <<cmd, cmdUser>> BY <1>3, Answers
    <2> QED BY <2>1, <2>2
  <1>4. ASSUME UNCHANGED cmdVars, ~RunCommand
        PROVE  renewed' = renewed /\ UNCHANGED <<cmd, cmdUser>>
    BY <1>4, Untouched DEF cmdVars, RunCommand
  <1> QED BY CommandSteps, <1>1, <1>2, <1>3, <1>4

\* The chain of a DAG activated once does not change any more.
LEMMA ChainStays ==
  ASSUME Types, ChainInv, Next, NEW u \in Users, u \notin renewed'
  PROVE  /\ u \notin renewed
         /\ dags[u].isActive => dags'[u].isActive /\ dags'[u].chains = dags[u].chains
         /\ dags'[u].isActive /\ ~dags[u].isActive =>
               EndActivate /\ cmdUser = u /\ dags'[u].chains # <<>>
  <1>0. u \notin renewed BY Activation
  <1>1. CASE dags'[u].chains = dags[u].chains /\ dags'[u].isActive = dags[u].isActive
    BY <1>0, <1>1
  <1>2. CASE cmdUser = u /\ BeginActivate
    <2>1. CASE ~HasIngress(dags[u]) BY <1>2, <2>1 DEF BeginActivate
    <2>2. CASE HasIngress(dags[u])
      <3>1. ~dags[u].isActive BY <1>2, <2>2 DEF BeginActivate
      <3>2. dags'[u] = ClearChains(dags[u]) BY <1>2, <2>2 DEF BeginActivate, Types, DagTypes
      <3>3. ~dags'[u].isActive BY <3>1, <3>2 DEF ClearChains, Types, DagTypes, DagRecord
      <3> QED BY <1>0, <3>1, <3>3
    <2> QED BY <2>1, <2>2
  <1>3. CASE cmdUser = u /\ WalkOn
    <2>1. ~dags[u].isActive BY <1>0, <1>3 DEF WalkOn, ChainInv
    <2>2. PICK nf \in NFs(dags[u]) : dags' = [dags EXCEPT ![u] = AppendNF(@, nf)]
      BY <1>3 DEF WalkOn
    <2>3. dags'[u].isActive = dags[u].isActive
      BY <2>2 DEF AppendNF, Types, DagTypes, DagRecord
    <2> QED BY <1>0, <2>1, <2>3
  <1>4. CASE cmdUser = u /\ EndActivate
    <2>1. ~dags[u].isActive BY <1>0, <1>4 DEF EndActivate, ChainInv
    <2>2. dags'[u].chains = dags[u].chains
      BY <1>4 DEF EndActivate, Types, DagTypes, DagRecord
    <2>3. dags[u].chains # <<>> BY <1>4 DEF EndActivate, WalkEnds
    <2> QED BY <1>0, <1>4, <2>1, <2>2, <2>3
  <1> QED BY DagChanges, <1>1, <1>2, <1>3, <1>4

\* Who builds a SGroup does so for an active DAG.
LEMMA BuildsActive ==
  ASSUME Types, ChainInv, NEW p \in Procs, proc[p].at # "none", proc[p].dag \in Users \ renewed
  PROVE  dags[proc[p].dag].isActive
  <1>1. CASE p \in SGroups BY <1>1 DEF ChainInv
  <1>2. CASE p \in Workers BY <1>2 DEF ChainInv, Types, ProcTypes
  <1>3. CASE p = Console BY <1>3, Names DEF Types, ProcTypes
  <1> QED BY <1>1, <1>2, <1>3, Names

\* Nobody reads a chain before it is whole, and no step changes one that was read.
LEMMA ChainNext ==
  ASSUME IInv, Next, ~byHand'
  PROVE  ChainInv'
  <1> USE Names
  <1>0. /\ Types /\ Types' /\ OwnInv /\ OwnInv' /\ BuildInv /\ BuildInv' /\ ChainInv
        /\ renewed \subseteq renewed' /\ cmdUser \in Users \cup {None}
        /\ \A p \in Procs : proc[p] \in ProcRecord /\ proc'[p] \in ProcRecord
        /\ \A p \in Procs : proc[p].at \in Busy => proc[p].sg \in SGroups
    <2>1. Types' BY DagTypesNext, ListTypesNext, CmdTypesNext, ProcTypesNext, CallTypesNext, SgTypesNext
                 DEF IInv, Types
    <2>2. Types /\ OwnInv /\ BuildInv /\ ChainInv BY DEF IInv, Kept, Next
    <2> QED BY <2>1, <2>2, OwnNext, BuildNext, Activation DEF Types, ProcTypes, CmdTypes
  <1>1. \A u \in Users \ renewed' :
           /\ u \notin renewed
           /\ dags[u].isActive => dags'[u].isActive /\ dags'[u].chains = dags[u].chains
           /\ dags'[u].isActive /\ ~dags[u].isActive =>
                 EndActivate /\ cmdUser = u /\ dags'[u].chains # <<>>
    BY <1>0, ChainStays
  <1>2. \A u \in Users : dags[u].isActive => dags'[u].isActive BY <1>0, DagChanges
  <1>3. ASSUME NEW u \in Users \ renewed', dags'[u].isActive
        PROVE  dags'[u].chains # <<>> /\ ~(cmd' = "walk" /\ cmdUser' = u)
    <2>1. CASE dags[u].isActive
      <3>1. dags'[u].chains # <<>> BY <1>0, <1>1, <2>1 DEF ChainInv
      <3>2. ASSUME cmd' = "walk", cmdUser' = u PROVE FALSE
        <4>1. ~(cmd = "walk" /\ cmdUser = u) BY <1>0, <1>1, <2>1 DEF ChainInv
        <4>2. BeginActivate /\ cmdUser = u BY <1>0, <3>2, <4>1, Activation
        <4>3. u \in renewed' BY <2>1, <4>2 DEF BeginActivate
        <4> QED BY <4>3
      <3> QED BY <3>1, <3>2
    <2>2. CASE ~dags[u].isActive
      <3>1. EndActivate /\ dags'[u].chains # <<>> BY <1>1, <1>3, <2>2
      <3>2. cmd' = "spawn" BY <3>1 DEF EndActivate
      <3> QED BY <3>1, <3>2
    <2> QED BY <2>1, <2>2
  <1>4. ASSUME cmd' \in {"spawn", "wait"}, cmdUser' \notin renewed'
        PROVE  dags'[cmdUser'].isActive
    <2>1. cmdUser' = cmdUser /\ cmdUser \in Users
      BY <1>0, <1>4, Activation DEF Types, CmdTypes, Activating
    <2>2. CASE cmd \in {"spawn", "wait"} BY <1>0, <1>2, <1>4, <2>1, <2>2 DEF ChainInv
    <2>3. CASE EndActivate BY <1>0, <2>1, <2>3 DEF EndActivate, Types, DagTypes, DagRecord
    <2> QED BY <1>0, <1>4, <2>1, <2>2, <2>3, Activation
  <1>5. ASSUME NEW c \in Callers, call'[c].at = "scan" PROVE dags'[call'[c].dag].isActive
    <2>1. CASE call'[c] = call[c]
      BY <1>0, <1>2, <1>5, <2>1 DEF ChainInv, Types, CallTypes
    <2>2. ASSUME NEW d \in Callers, UpdateFlow(d), call'[c] # call[c]
          PROVE  dags'[call'[c].dag].isActive
      <3>1. PICK u \in Users : dags[u].isActive /\ call' = [call EXCEPT ![d].at = "scan", ![d].dag = u]
        BY <1>0, <1>5, <2>2, Answers DEF NoCall, Types, CallTypes
      <3>2. call'[c].dag = u BY <1>0, <2>2, <3>1 DEF Types, CallTypes, CallRecord
      <3> QED BY <1>2, <3>1, <3>2
    <2>3. ASSUME NEW f \in Flows, PacketIn(f) PROVE call'[c] = call[c] \/ call'[c].at = "match"
      BY <1>0, <2>3 DEF PacketIn, NoCall, Types, CallTypes
    <2>4. ASSUME NEW f \in TypedFlows, FlowCommand(f) PROVE call'[c] = call[c] \/ call'[c].at = "match"
      BY <1>0, <2>4 DEF FlowCommand, NoCall, Types, CallTypes
    <2> QED BY <1>5, <2>1, <2>2, <2>3, <2>4, Untouched DEF CallStep
  <1>6. ASSUME NEW g \in SGroups, proc'[g].at # "none" PROVE dags'[proc'[g].dag].isActive
    <2>1. CASE proc[g].at # "none" /\ proc'[g].dag = proc[g].dag
      BY <1>0, <1>2, <2>1 DEF ChainInv, Types, ProcTypes
    <2>2. ASSUME NEW c \in Callers, call[c].at = "scan", proc'[g].dag = call[c].dag
          PROVE  dags'[proc'[g].dag].isActive
      BY <1>0, <1>2, <2>2 DEF ChainInv, Types, CallTypes
    <2>3. proc'[g].at \in Busy /\ proc'[g].dag \in Users BY <1>0, <1>6 DEF Types, ProcTypes
    <2>4. ASSUME Deploy(g) \/ ReadChain(g) PROVE proc[g].at # "none"
      BY <2>4 DEF Deploy, ReadChain, At
    <2>5. CASE proc'[g] = proc[g] BY <1>6, <2>1, <2>5
    <2>6. CASE Deploy(g) /\ proc'[g] = [proc[g] EXCEPT !.at = "link"]
      BY <1>0, <2>1, <2>4, <2>6 DEF ProcRecord
    <2>7. CASE /\ ReadChain(g)
               /\ proc'[g] = [proc[g] EXCEPT !.at = "build", !.chain = dags[proc[g].dag].chains]
      BY <1>0, <2>1, <2>4, <2>7 DEF ProcRecord
    <2> QED BY <1>0, <2>2, <2>3, <2>5, <2>6, <2>7, ProcMoves DEF Busy, Holding
  \* Only who holds a SGroup touches its instances.
  <1>7. ASSUME NEW g \in SGroups, Deployed(g) PROVE instances'[g] = instances[g]
    <2>1. ASSUME NEW p \in Procs, FailBuild(p) \/ Deploy(p) PROVE instances'[g] = instances[g]
      <3>1. proc[p].sg \in SGroups /\ Holds(p, proc[p].sg)
        BY <1>0, <2>1 DEF FailBuild, Deploy, At, Busy, Holding, Holds
      <3>2. proc[p].sg # g BY <1>0, <1>7, <3>1 DEF OwnInv
      <3> QED BY <1>0, <2>1, <3>2 DEF FailBuild, Deploy, Reset, Types, SgTypes
    <2>2. ASSUME (\E p \in Procs : Link(p)) \/ \E h \in SGroups : JoinBarrier(h) \/ OpenBarrier(h)
          PROVE  instances' = instances
      BY <2>2 DEF Link, JoinBarrier, OpenBarrier, sgVars
    <2>3. ASSUME NEW h \in SGroups, DestroySGroup(h) PROVE FALSE BY <2>3 DEF DestroySGroup
    <2> QED BY <2>1, <2>2, <2>3, Untouched DEF SGroupStep
  <1>8. ASSUME NEW p \in Procs, proc'[p].dag \in Users \ renewed'
        PROVE  /\ proc'[p].at = "build" => proc'[p].chain = dags'[proc'[p].dag].chains
               /\ proc'[p].at = "link"  => instances'[proc'[p].sg] = dags'[proc'[p].dag].chains
    <2> DEFINE Goal == /\ proc'[p].at = "build" => proc'[p].chain = dags'[proc'[p].dag].chains
                       /\ proc'[p].at = "link"  =>
                             instances'[proc'[p].sg] = dags'[proc'[p].dag].chains
    <2>1. CASE proc'[p] = proc[p]
      <3>1. proc[p].dag \in Users \ renewed BY <1>1, <1>8, <2>1
      <3>2. ASSUME proc[p].at # "none" PROVE dags'[proc[p].dag].chains = dags[proc[p].dag].chains
        <4>1. dags[proc[p].dag].isActive BY <1>0, <3>1, <3>2, BuildsActive
        <4> QED BY <1>1, <1>8, <2>1, <4>1
      <3>3. ASSUME proc[p].at = "link" PROVE instances'[proc[p].sg] = instances[proc[p].sg]
        BY <1>0, <1>7, <3>3 DEF BuildInv, LinkInv, Busy
      <3> QED BY <1>0, <2>1, <3>1, <3>2, <3>3 DEF ChainInv
    <2>2. CASE Deploy(p) /\ proc'[p] = [proc[p] EXCEPT !.at = "link"]
      <3> DEFINE g == proc[p].sg
      <3>1. /\ proc[p].at = "build" /\ g \in SGroups /\ dags' = dags
            /\ instances' = [instances EXCEPT ![g] = @ \o proc[p].chain]
        BY <1>0, <2>2 DEF Deploy, At, Busy, Holding
      <3>2. instances[g] = <<>>
        <4>1. Holds(p, g) BY <3>1 DEF Holds, Holding
        <4> QED BY <1>0, <3>1, <4>1 DEF OwnInv, BuildInv, FlagInv
      <3>3. proc[p].chain \in Seq(Nat) BY <1>0 DEF ProcRecord
      <3>4. <<>> \o proc[p].chain = proc[p].chain BY <3>3
      <3>5. instances'[g] = proc[p].chain BY <1>0, <3>1, <3>2, <3>4 DEF Types, SgTypes
      <3>6. proc'[p].at = "link" /\ proc'[p].sg = g /\ proc'[p].dag = proc[p].dag
        BY <1>0, <2>2 DEF ProcRecord
      <3>7. proc[p].chain = dags[proc[p].dag].chains
        BY <1>0, <1>1, <1>8, <3>1, <3>6 DEF ChainInv
      <3> QED BY <3>1, <3>5, <3>6, <3>7
    <2>3. CASE /\ ReadChain(p)
               /\ proc'[p] = [proc[p] EXCEPT !.at = "build", !.chain = dags[proc[p].dag].chains]
      <3>1. dags' = dags BY <2>3 DEF ReadChain
      <3>2. /\ proc'[p].at = "build" /\ proc'[p].dag = proc[p].dag
            /\ proc'[p].chain = dags[proc[p].dag].chains
        BY <1>0, <2>3 DEF ProcRecord
      <3> QED BY <3>1, <3>2
    <2>4. CASE /\ p \in Workers /\ Starter(p) /\ proc'[p].at = "build"
               /\ proc'[p].dag = proc[p].dag /\ proc'[p].chain = dags[proc[p].dag].chains
      BY <2>4 DEF Starter
    <2> QED BY <1>0, <1>8, <2>1, <2>2, <2>3, <2>4, ProcMoves
  <1>9. ASSUME NEW u \in Users \ renewed', NEW g \in dags'[u].sgroups
        PROVE  dags'[u].isActive /\ instances'[g] = dags'[u].chains
    <2>1. u \notin renewed BY <1>1
    <2>2. CASE g \in dags[u].sgroups
      <3>1. g \in SGroups /\ Deployed(g) /\ dags[u].isActive /\ instances[g] = dags[u].chains
        BY <1>0, <2>1, <2>2 DEF ChainInv, BuildInv, LinkedInv, FlagInv, Types, DagTypes, DagRecord
      <3> QED BY <1>1, <1>7, <3>1
    <2>3. CASE g \notin dags[u].sgroups
      <3>1. PICK p \in Procs : Link(p) /\ proc[p].dag = u /\ g = proc[p].sg
        BY <1>0, <1>9, <2>3, DagChanges
      <3>2. proc[p].at = "link" /\ instances[g] = dags[u].chains
        BY <1>0, <2>1, <3>1 DEF Link, At, ChainInv
      <3>3. dags[u].isActive BY <1>0, <2>1, <3>1, <3>2, BuildsActive
      <3>4. instances' = instances BY <3>1 DEF Link
      <3> QED BY <1>1, <3>2, <3>3, <3>4
    <2> QED BY <2>2, <2>3
  <1> QED BY <1>3, <1>4, <1>5, <1>6, <1>8, <1>9 DEF ChainInv

-----------------------------------------------------------------------------
(* Rules. *)

\* A DAG a flow belongs to takes it also after the step.
LEMMA TakesStay ==
  ASSUME Types, Next, NEW u \in Users, NEW f
  PROVE  /\ Match(dags[u], f) => Takes(u, f)
         /\ Takes(u, f) => Takes(u, f)'
  <1>1. dags[u].flowlets \subseteq dags'[u].flowlets BY DagChanges
  <1> QED BY <1>1 DEF Takes, Match, FlowletMatch

\* A SGroup serves its DAG until a build of it fails: it goes from the process that
\* builds it to the DAG.
LEMMA ServesStay ==
  ASSUME IInv, Next, ~byHand', NEW g \in SGroups, NEW u \in Users, Serves(g, u), g \notin failed'
  PROVE  Serves(g, u)'
  <1> USE Names DEF Busy, Holding
  <1>0. /\ Types /\ OwnInv /\ BuildInv
        /\ \A p \in Procs : proc[p] \in ProcRecord
        /\ \A p \in Procs : proc[p].at \in Busy => proc[p].sg \in SGroups
    BY DEF IInv, Kept, Next, Types, ProcTypes
  <1>1. ASSUME NEW p \in Procs, FailBuild(p) PROVE proc[p].sg \in SGroups \ {g}
    <2>1. proc[p].sg \in SGroups BY <1>0, <1>1 DEF FailBuild, At
    <2>2. proc[p].sg \in failed' BY <1>1 DEF FailBuild
    <2> QED BY <2>1, <2>2
  <1>2. ASSUME NEW p \in Procs, Link(p)
        PROVE  proc[p].sg \in SGroups /\ dagOf' = [dagOf EXCEPT ![proc[p].sg] = proc[p].dag]
               /\ proc[p].at = "link"
    BY <1>0, <1>2 DEF Link, At
  \* Who links a SGroup is the only one that works on it.
  <1>3. ASSUME NEW p \in Procs, Link(p), proc[p].sg = g PROVE dagOf'[g] = u
    <2>1. Deployed(g) /\ ~isComplete[g] BY <1>0, <1>2, <1>3 DEF BuildInv, LinkInv
    <2>2. dagOf[g] = None BY <1>0, <2>1 DEF BuildInv, FlagInv
    <2>3. PICK q \in Procs : proc[q].sg = g /\ proc[q].dag = u /\ proc[q].at \in Busy
      BY <2>2 DEF Serves
    <2>4. q = p
      <3>1. CASE proc[q].at \in Holding BY <1>0, <2>1, <2>3, <3>1 DEF Holds, OwnInv
      <3>2. CASE proc[q].at = "link" BY <1>0, <1>2, <1>3, <2>3, <3>2 DEF BuildInv, LinkInv
      <3> QED BY <2>3, <3>1, <3>2
    <2> QED BY <1>0, <1>2, <1>3, <2>3, <2>4 DEF Types, SgTypes
  <1>4. CASE dagOf[g] = u
    <2>1. dagOf'[g] = u
      <3>1. ASSUME NEW p \in Procs, FailBuild(p) PROVE dagOf'[g] = u
        BY <1>0, <1>1, <1>4, <3>1 DEF FailBuild, Reset, Types, SgTypes
      <3>2. ASSUME NEW p \in Procs, Link(p) PROVE dagOf'[g] = u
        BY <1>0, <1>2, <1>3, <1>4, <3>2 DEF Types, SgTypes
      <3>3. ASSUME (\E p \in Procs : Deploy(p))
                   \/ \E h \in SGroups : JoinBarrier(h) \/ OpenBarrier(h)
            PROVE  dagOf' = dagOf
        BY <3>3 DEF Deploy, JoinBarrier, OpenBarrier, sgVars
      <3>4. ASSUME NEW h \in SGroups, DestroySGroup(h) PROVE FALSE BY <3>4 DEF DestroySGroup
      <3> QED BY <1>4, <3>1, <3>2, <3>3, <3>4, Untouched DEF SGroupStep
    <2> QED BY <2>1 DEF Serves
  <1>5. ASSUME NEW p \in Procs, proc[p].sg = g, proc[p].dag = u, proc[p].at \in Busy
        PROVE  Serves(g, u)'
    <2>1. CASE proc'[p] = proc[p] BY <1>5, <2>1 DEF Serves
    <2>2. CASE Link(p) BY <1>3, <1>5, <2>2 DEF Serves
    <2>3. CASE FailBuild(p) BY <1>1, <1>5, <2>3
    <2>4. CASE proc'[p] = [proc[p] EXCEPT !.at = "link"]
      <3>1. proc'[p].at = "link" /\ proc'[p].sg = g /\ proc'[p].dag = u
        BY <1>0, <1>5, <2>4 DEF ProcRecord
      <3> QED BY <3>1 DEF Serves
    <2>5. CASE proc'[p] = [proc[p] EXCEPT !.at = "build", !.chain = dags[proc[p].dag].chains]
      <3>1. proc'[p].at = "build" /\ proc'[p].sg = g /\ proc'[p].dag = u
        BY <1>0, <1>5, <2>5 DEF ProcRecord
      <3> QED BY <3>1 DEF Serves
    <2> QED BY <1>0, <1>5, <2>1, <2>2, <2>3, <2>4, <2>5, ProcMoves
  <1> QED BY <1>4, <1>5 DEF Serves

\* The handler learns of a SGroup from a call that scanned a DAG of the flow.
LEMMA RuleNext ==
  ASSUME IInv, Next, ~byHand'
  PROVE  RuleInv'
  <1> USE Names
  <1>0. /\ Types /\ BuildInv /\ RuleInv
        /\ \A c \in Callers : call[c] \in CallRecord
        /\ call \in [Callers -> CallRecord] /\ rule \in [Flows -> SGroups \cup {None}]
    BY DEF IInv, Kept, Next, Types, CallTypes, SwitchTypes
  <1>1. ASSUME NEW c \in Callers, call'[c].at = "scan" PROVE Takes(call[c].dag, call[c].flow)'
    <2>1. CASE call'[c] = call[c]
      <3>1. PICK u \in Users, f \in Flows \cup TypedFlows : u = call[c].dag /\ f = call[c].flow
        BY <1>0, <1>1, <2>1 DEF Types, CallTypes
      <3>2. Takes(u, f) BY <1>0, <1>1, <2>1, <3>1 DEF RuleInv
      <3>3. Takes(u, f)' BY <1>0, <3>2, TakesStay
      <3> QED BY <2>1, <3>1, <3>3 DEF Takes
    <2>2. ASSUME NEW d \in Callers, UpdateFlow(d), call'[c] # call[c]
          PROVE  Takes(call[c].dag, call[c].flow)'
      <3>1. PICK u \in Users : /\ Match(dags[u], call[d].flow)
                               /\ call' = [call EXCEPT ![d].at = "scan", ![d].dag = u]
        BY <1>0, <1>1, <2>2, Answers DEF NoCall
      <3>2. c = d /\ call'[c].dag = u /\ call'[c].flow = call[c].flow
        BY <1>0, <2>2, <3>1 DEF CallRecord
      <3>3. PICK f : f = call[c].flow OBVIOUS
      <3>4. Takes(u, f)' BY <1>0, <3>1, <3>2, <3>3, TakesStay
      <3> QED BY <3>2, <3>3, <3>4 DEF Takes
    <2>3. ASSUME NEW f \in Flows, PacketIn(f) PROVE call'[c] = call[c] \/ call'[c].at = "match"
      BY <1>0, <2>3 DEF PacketIn, NoCall
    <2>4. ASSUME NEW f \in TypedFlows, FlowCommand(f) PROVE call'[c] = call[c] \/ call'[c].at = "match"
      BY <1>0, <2>4 DEF FlowCommand, NoCall
    <2> QED BY <1>1, <2>1, <2>2, <2>3, <2>4, Untouched DEF CallStep
  <1>2. ASSUME NEW f \in Flows, NEW g \in SGroups, rule'[f] = g, f.background = None, g \notin failed'
        PROVE  \E u \in Users : Takes(u, f)' /\ Serves(g, u)'
    <2>1. CASE rule[f] = g
      <3>1. g \notin failed
        BY <1>2, Untouched DEF FailBuild
      <3>2. PICK u \in Users : Takes(u, f) /\ Serves(g, u) BY <1>0, <1>2, <2>1, <3>1 DEF RuleInv
      <3>3. Takes(u, f)' BY <1>0, <3>2, TakesStay
      <3>4. Serves(g, u)' BY <1>2, <3>2, ServesStay
      <3> QED BY <3>3, <3>4
    <2>2. CASE rule[f] # g
      <3>1. UpdateFlow(Switch) /\ Answer(Switch, g) /\ call[Switch].flow = f
        <4>1. ASSUME NEW c \in Callers, UpdateFlow(c)
              PROVE  c = Switch /\ Answer(Switch, g) /\ call[Switch].flow = f
          <5>1. PICK h : Answer(c, h)
            BY <1>2, <2>2, <4>1 DEF UpdateFlow, Background, MatchDAG, FindAvailableSGroup, ScaleUp, swVars
          <5>2. c = Switch /\ rule' = [rule EXCEPT ![call[c].flow] = h] BY <1>2, <2>2, <5>1 DEF Answer, Install
          <5>3. call[c].flow = f /\ h = g BY <1>0, <1>2, <2>2, <5>2
          <5> QED BY <5>1, <5>2, <5>3
        <4>2. ASSUME NEW h \in Flows, PacketIn(h) \/ Age(h) PROVE FALSE
          BY <1>2, <2>2, <4>2 DEF PacketIn, Age
        <4>3. ASSUME NEW h \in Flows, ExpireRule(h) PROVE FALSE
          BY <1>0, <1>2, <2>2, <4>3 DEF ExpireRule
        <4>4. ASSUME Reconnect PROVE FALSE BY <1>2, <4>4 DEF Reconnect
        <4> QED BY <1>2, <2>2, <4>1, <4>2, <4>3, <4>4, Untouched DEF SwitchStep
      <3>2. Asking(Switch, "scan") /\ (FindAvailableSGroup(Switch) \/ ScaleUp(Switch))
        <4>1. ~Background(Switch) BY <1>2, <3>1 DEF Background
        <4>2. ~MatchDAG(Switch)
          BY <1>2, <2>2 DEF MatchDAG, Answer, swVars
        <4> QED BY <3>1, <4>1, <4>2 DEF UpdateFlow, FindAvailableSGroup, ScaleUp
      <3>3. PICK u \in Users : u = call[Switch].dag /\ Takes(u, f)
        BY <1>0, <3>1, <3>2 DEF RuleInv, Asking, Types, CallTypes
      <3>4. Takes(u, f)' BY <1>0, <3>3, TakesStay
      <3>5. \A h : Answer(Switch, h) /\ h # None => h = g
        BY <1>0, <1>2, <2>2, <3>1 DEF Answer, Install, CallTypes, Types
      <3>6. CASE FindAvailableSGroup(Switch)
        <4>1. PICK h \in SGroupsOf(u) : Answer(Switch, h) BY <3>3, <3>6 DEF FindAvailableSGroup
        <4>2. h \in SGroups /\ dagOf[h] = u
          BY <1>0, <4>1 DEF SGroupsOf, BuildInv, LinkedInv, Types, DagTypes, DagRecord
        <4>3. h = g BY <3>5, <4>1, <4>2
        <4>4. Serves(g, u)' BY <1>2, <4>2, <4>3, ServesStay DEF Serves
        <4> QED BY <3>4, <4>4
      <3>7. CASE ScaleUp(Switch)
        <4>1. PICK h \in SGroups \cup {None} :
                 /\ Answer(Switch, h)
                 /\ h # None => proc' = [proc EXCEPT ![h] = [at |-> "start", sg |-> h,
                                                    dag |-> call[Switch].dag, chain |-> <<>>]]
          BY <3>7 DEF ScaleUp
        <4>2. h = g
          <5>1. h # None BY <1>2, <2>2, <4>1 DEF Answer
          <5> QED BY <3>5, <4>1, <5>1
        <4>3. proc'[g] = [at |-> "start", sg |-> g, dag |-> u, chain |-> <<>>]
          BY <1>0, <3>3, <4>1, <4>2 DEF Types, ProcTypes
        <4>4. Serves(g, u)' BY <4>3 DEF Serves, Busy, Holding
        <4> QED BY <3>4, <4>4
      <3> QED BY <3>2, <3>6, <3>7
    <2> QED BY <2>1, <2>2
  <1>3. rule' \in [Flows -> SGroups \cup {None}] BY SgTypesNext DEF SwitchTypes
  <1>4. \A f \in Flows : rule'[f] # None => rule'[f] \in SGroups BY <1>3
  <1> QED BY <1>1, <1>2, <1>4 DEF RuleInv, Takes, Serves

-----------------------------------------------------------------------------
(* The invariant and what it says. *)

\* Also the step that ends by hand leaves the barrier's counters alone.
LEMMA CountersByHand ==
  ASSUME IInv, Next, byHand'
  PROVE  \A w \in Workers : conns'[w] <= target'[w]
  <1>1. AddTake \/ \E g \in SGroups : DestroySGroup(g)
    BY Untouched DEF Next, IInv, Types, SgTypes
  <1>2. UNCHANGED <<conns, target>> BY <1>1 DEF AddTake, DestroySGroup, barVars
  <1> QED BY <1>2 DEF IInv

\* IInv is inductive.
LEMMA Inductive == IInv /\ [Next]_vars => IInv'
  <1>1. ASSUME IInv, Next PROVE IInv'
    <2>1. Types'
      BY <1>1, DagTypesNext, ListTypesNext, CmdTypesNext, ProcTypesNext, CallTypesNext, SgTypesNext
      DEF IInv, Types
    <2>2. ASSUME ~byHand' PROVE Kept' /\ \A w \in Workers : conns'[w] <= target'[w]
      <3>1. /\ OwnInv' /\ BuildInv' /\ CountInv' /\ ChainInv' /\ RuleInv'
        BY <1>1, <2>2, OwnNext, BuildNext, CountNext, ChainNext, RuleNext
      <3>2. \A w \in Workers : conns'[w] <= target'[w]
        BY <2>1, <3>1, JoinedAtMost DEF Types
      <3> QED BY <3>1, <3>2 DEF Kept
    <2> QED BY <1>1, <2>1, <2>2, CountersByHand DEF IInv
  <1>2. ASSUME IInv, UNCHANGED vars PROVE IInv'
    <2> USE <1>2 DEF vars, cmdVars, freeVars, barVars, sgVars, swVars, histVars
    <2>1. Types'
      BY DEF IInv, Types, DagTypes, ListTypes, CmdTypes, ProcTypes, CallTypes, SgTypes, SwitchTypes
    <2>2. OwnInv' <=> OwnInv BY DEF OwnInv, InFree, Deployed, Holds
    <2>3. BuildInv' <=> BuildInv BY DEF BuildInv, LinkInv, FlagInv, LinkedInv, Deployed
    <2>4. CountInv' <=> CountInv BY DEF CountInv, Joined
    <2>5. ChainInv' <=> ChainInv BY DEF ChainInv
    <2>6. RuleInv' <=> RuleInv BY DEF RuleInv, Takes, Serves
    <2> QED BY <2>1, <2>2, <2>3, <2>4, <2>5, <2>6 DEF IInv, Kept
  <1> QED BY <1>1, <1>2

\* It holds in every reachable state.
LEMMA Invariance == Spec => []IInv
  BY Starts, Inductive, PTL DEF Spec

\* Every variable has its type, and no SGroup is counted at the barrier twice.
THEOREM TypeCorrect == Spec => []TypeOK
  <1>1. IInv => TypeOK
    <2> SUFFICES ASSUME IInv PROVE TypeOK OBVIOUS
    <2> USE DEF IInv, Types
    <2>1. \A u \in Users : dags[u].isActive \in BOOLEAN /\ dags[u].sgroups \subseteq SGroups
      BY DEF DagTypes, DagRecord
    <2>2. /\ cmd \in Commands /\ cmdUser \in Users \cup {None} /\ commands \in 0..MaxCommands
      BY DEF CmdTypes
    <2>3. \A p \in Procs : /\ proc[p].at \in {"none", "take", "start", "build", "link"}
                           /\ proc[p].sg \in SGroups \cup {None} /\ proc[p].dag \in Users \cup {None}
      BY DEF ProcTypes, ProcRecord, Labels, Busy, Holding
    <2>4. \A w \in Workers : freeLen[w] \in 0..Len(freeArray[w])
      BY LenProperties DEF ListTypes
    <2>5. \A w \in Workers : conns[w] \in 0..target[w] BY DEF SgTypes
    <2>6. /\ {isComplete, isReady, sgLock} \subseteq [SGroups -> BOOLEAN]
          /\ dagOf \in [SGroups -> Users \cup {None}]
      BY DEF SgTypes
    <2>7. \A c \in Callers : call[c].at \in {"none", "match", "scan"} BY DEF CallTypes, CallRecord
    <2>8. known \subseteq Flows /\ entry \in [Flows -> {"none", "fresh", "old"}]
          /\ rule \in [Flows -> SGroups \cup {None}]
      BY DEF SwitchTypes
    <2> QED BY <2>1, <2>2, <2>3, <2>4, <2>5, <2>6, <2>7, <2>8 DEF TypeOK, Commands
  <1> QED BY <1>1, Invariance, PTL

\* A SGroup is free, being built by one process or deployed, and there once, until one
\* is removed by hand or an "add" is overtaken.
THEOREM SGroupHasOneOwner == Spec => []OneOwner
  <1>1. IInv => OneOwner
    <2> SUFFICES ASSUME IInv, ~byHand, NEW g \in SGroups
                 PROVE  LET inFree == {i \in 1..freeLen[Home[g]] : freeArray[Home[g]][i] = g}
                            placed == {i \in DOMAIN sgroups[Home[g]] : sgroups[Home[g]][i] = g}
                        IN Cardinality(inFree) + Cardinality(Owners(g)) + Cardinality(placed) = 1
      BY DEF OneOwner
    <2> DEFINE inFree == {i \in 1..freeLen[Home[g]] : freeArray[Home[g]][i] = g}
               placed == {i \in DOMAIN sgroups[Home[g]] : sgroups[Home[g]][i] = g}
    <2>0. OwnInv /\ Home[g] \in Workers BY Homes DEF IInv, Kept
    <2>1. /\ inFree = {} \/ \E i : inFree = {i}
          /\ inFree # {} <=> InFree(g)
      BY <2>0 DEF OwnInv, InFree
    <2>2. /\ placed = {} \/ \E i : placed = {i}
          /\ placed # {} <=> Deployed(g)
      <3>1. \A i, j \in placed : i = j BY <2>0 DEF OwnInv, IsInjective
      <3>2. placed # {} <=> Deployed(g) BY DEF Deployed
      <3>3. ASSUME NEW i \in placed PROVE placed = {i} BY <3>1
      <3> QED BY <3>2, <3>3
    <2>3. Owners(g) = {p \in Procs : Holds(p, g)} BY DEF Owners, Holds, Holding
    <2>4. /\ Owners(g) = {} \/ \E p : Owners(g) = {p}
          /\ Owners(g) # {} <=> \E p \in Procs : Holds(p, g)
      BY <2>0, <2>3 DEF OwnInv
    <2> HIDE DEF inFree, placed
    <2>5. \/ inFree # {} /\ Owners(g) = {} /\ placed = {}
          \/ inFree = {} /\ Owners(g) # {} /\ placed = {}
          \/ inFree = {} /\ Owners(g) = {} /\ placed # {}
      BY <2>0, <2>1, <2>2, <2>4 DEF OwnInv
    <2>6. Cardinality({}) = 0 /\ \A x : Cardinality({x}) = 1 BY FS_EmptySet, FS_Singleton
    <2>7. /\ inFree # {} => Cardinality(inFree) = 1
          /\ Owners(g) # {} => Cardinality(Owners(g)) = 1
          /\ placed # {} => Cardinality(placed) = 1
      BY <2>1, <2>2, <2>4, <2>6
    <2>8. Cardinality(inFree) + Cardinality(Owners(g)) + Cardinality(placed) = 1
      BY <2>5, <2>6, <2>7
    <2> QED BY <2>8 DEF inFree, placed
  <1> QED BY <1>1, Invariance, PTL

\* The switch sends a flow to a SGroup that serves, or is being built for, a DAG the
\* flow belongs to.
THEOREM RuleLeadsToItsDAG == Spec => []RuleServes
  <1>1. IInv => RuleServes BY DEF IInv, Kept, RuleInv, RuleServes, Takes, Serves
  <1> QED BY <1>1, Invariance, PTL

\* A SGroup of a DAG activated once runs the whole chain of the DAG.
THEOREM ChainIsWhole == Spec => []WholeChain
  <1>1. IInv => WholeChain BY DEF IInv, Kept, ChainInv, WholeChain
  <1> QED BY <1>1, Invariance, PTL
==============================================================================
