----------------------------- MODULE MetronProofs -----------------------------
(***************************************************************************)
(* Theorems of Metron, for any number of workers, cores, SGroups, handlers,*)
(* trials and failures: the trials of RPCs (RetriesEnough) and how long    *)
(* they hold a mutex (HoldBound), the cores SGroups are pinned to          *)
(* (CoreExclusive) and what it takes to run out of them                    *)
(* (CrashNeedsFailures), the announcements (AnnouncedOnce), the types.     *)
(***************************************************************************)
EXTENDS Metron, ListLemmas

AllCores == UNION {Cores[w] : w \in Workers}
Holding  == {"core", "add", "build"}
Labels   == Holding \cup {"none", "look", "choose", "poll"}
HasSGroup(p) == proc[p].at \in Holding \cup {"poll"}

Record   == [at : Labels, list : Seq(SGroups), sg : SGroups \cup {None},
             core : AllCores \cup {None}]

\* Types, as far as the invariants need them.
RpcTypes ==
    /\ rpc \in [Callers -> [at : {"none", "connect", "call", "done"},
                            ins : SGroups \cup {None}, try : Nat]]
    /\ rpcFaults \in Nat /\ connected \in [SGroups -> BOOLEAN]

ProcTypes ==
    /\ proc \in [Procs -> Record]
    /\ \A p \in Procs : /\ HasSGroup(p) => proc[p].sg \in SGroups
                        /\ proc[p].at = "look" => proc[p].list # <<>>
                        /\ proc[p].at = "add" => proc[p].core \in Cores[Home[proc[p].sg]]

ListTypes ==
    /\ freeSGroups \in [Workers -> Seq(SGroups)] /\ sgroups \in [Workers -> Seq(SGroups)]
    /\ failures \in Nat

SetUpTypes == isReady \in [SGroups -> BOOLEAN] /\ announced \in [SGroups -> Nat]

CoreTypes ==
    /\ coreID \in [SGroups -> AllCores \cup {None}]
    /\ coreSGroups = [w \in Workers |-> coreSGroups[w]]
    /\ \A w \in Workers : coreSGroups[w] \in [Cores[w] -> SUBSET SGroups]

\* Two users of an instance are noted; the other one's connection stays, and each
\* of its trials that failed was a failure.
RpcInv ==
    /\ \A u \in Callers : /\ rpc[u].at # "none" => rpc[u].ins \in SGroups
                          /\ u # Console /\ rpc[u].at # "none" => rpc[u].ins = u
                          /\ rpc[u].at = "none" => rpc[u].ins = None
    /\ \A u, v \in Callers :
          u # v /\ rpc[u].ins = rpc[v].ins /\ rpc[u].ins # None => rpc[u].ins \in shared
    /\ \A u \in Callers : rpc[u].ins # None /\ rpc[u].ins \notin shared =>
          /\ rpc[u].at = "call" => connected[rpc[u].ins]
          /\ rpc[u].at \in {"connect", "call"} => rpc[u].try <= rpcFaults
    /\ RetriesEnough

\* Free, in the hands of one process, or deployed.
Free(g) == g \in Range(freeSGroups[Home[g]])
Holds(p, g) == proc[p].at \in Holding /\ proc[p].sg = g
OwnInv ==
    /\ \A w \in Workers : IsInjective(freeSGroups[w])
    /\ \A w \in Workers, g \in SGroups : g \in Range(freeSGroups[w]) => Home[g] = w
    /\ \A g \in SGroups : Free(g) => ~Deployed(g) /\ \A p \in Procs : ~Holds(p, g)
    /\ \A g \in SGroups, p \in Procs : Holds(p, g) =>
          ~Deployed(g) /\ \A q \in Procs : Holds(q, g) => q = p

\* Unless two processes met at a core: the core a process is about to fill is
\* empty and its own, and SGroups that have theirs are in its list and alone.
SameCore(p, q) ==
    /\ proc[q].at = "add" /\ proc[q].core = proc[p].core
    /\ Home[proc[q].sg] = Home[proc[p].sg]
Pinned(g) == Deployed(g) \/ \E p \in Procs : proc[p].at = "build" /\ proc[p].sg = g
CoreInv ==
    ~raced =>
        /\ \A p \in Procs : proc[p].at = "add" =>
              /\ coreSGroups[Home[proc[p].sg]][proc[p].core] = {}
              /\ \A q \in Procs : SameCore(p, q) => q = p
        /\ \A g \in SGroups : Pinned(g) =>
              coreID[g] \in Cores[Home[g]] /\ g \in coreSGroups[Home[g]][coreID[g]]
        /\ \A g, h \in SGroups :
              Pinned(g) /\ Pinned(h) /\ g # h /\ Home[g] = Home[h] => coreID[g] # coreID[h]

\* A SGroup is set up once, after it was deployed, and announced after that.
ReadyInv ==
    \A g \in SGroups : /\ Calling(g) => Deployed(g) /\ ~isReady[g]
                       /\ isReady[g] => Deployed(g)
                       /\ announced[g] > 0 => isReady[g]

\* Unless a build failed, a process that polls is the one that will announce.
OnceInv ==
    failures = 0 =>
        /\ \A p, q \in Procs :
              HasSGroup(p) /\ HasSGroup(q) /\ proc[p].sg = proc[q].sg => p = q
        /\ \A p \in Procs : HasSGroup(p) => ~Free(proc[p].sg) /\ announced[proc[p].sg] = 0
        /\ \A g \in SGroups : announced[g] <= 1

IInv ==
    /\ RpcTypes /\ ProcTypes /\ ListTypes /\ SetUpTypes /\ CoreTypes
    /\ RpcInv /\ OwnInv /\ CoreInv /\ ReadyInv /\ OnceInv

-----------------------------------------------------------------------------
(* The calls to instances. *)

\* A step of an RPC: trials are counted, and other users' calls are left alone.
LEMMA Trials ==
  ASSUME RpcTypes, RpcInv, NEW u \in Callers, RpcStep(u)
  PROVE  /\ RpcTypes' /\ RpcInv'
         /\ rpc[u].at # "none" /\ \A v \in Callers \ {u} : rpc'[v] = rpc[v]
  <1> DEFINE g == rpc[u].ins
             Most(at) == IF at = "connect" THEN MaxRpcConnTrials ELSE MaxRpcCallTrials
  <1> USE RpcAssumption DEF RpcAssumption
  <1>0. rpc[u].at # "none" BY DEF RpcStep, TryConnect, TryCall, EndRpc
  <1>1. g \in SGroups BY <1>0 DEF RpcInv
  <1> SUFFICES RpcTypes' /\ RpcInv'
    <2>1. \A v \in Callers \ {u} : rpc'[v] = rpc[v]
      BY DEF RpcTypes, RpcStep, TryConnect, TryCall, EndRpc, FailTrial, EndTrials
    <2> QED BY <1>0, <2>1
  \* What a failed trial leaves, whichever it is.
  <1>2. ASSUME rpc[u].at \in {"connect", "call"},
               \/ /\ rpc[u].try + 1 >= Most(rpc[u].at) /\ rpc' = [rpc EXCEPT ![u].at = "done"]
                  /\ gaveUp' \in {gaveUp, gaveUp \cup {<<g, rpc[u].at>>}}
               \/ rpc' = [rpc EXCEPT ![u].try = @ + 1] /\ gaveUp' = gaveUp,
               \A h \in SGroups \ {g} : connected'[h] = connected[h],
               connected' \in [SGroups -> BOOLEAN],
               rpc[u].at = "call" => connected'[g] = connected[g],
               rpcFaults' = rpcFaults + 1 \/ (g \in shared /\ rpcFaults' = rpcFaults),
               shared' = shared
        PROVE  RpcTypes' /\ RpcInv'
    <2> DEFINE label == rpc[u].at
    <2>1. /\ \/ /\ rpc[u].try + 1 >= Most(label) /\ rpc' = [rpc EXCEPT ![u].at = "done"]
                /\ gaveUp' \in {gaveUp, gaveUp \cup {<<g, label>>}}
             \/ rpc' = [rpc EXCEPT ![u].try = @ + 1] /\ gaveUp' = gaveUp
          /\ label \in {"connect", "call"}
      BY <1>2
    <2> HIDE DEF label
    <2>2. RpcTypes' BY <1>2, <2>1 DEF RpcTypes
    <2>3. /\ rpc'[u].ins = g /\ rpc'[u].at \in {label, "done"}
          /\ rpc'[u].at = label => rpc'[u].try = rpc[u].try + 1
          /\ \A v \in Callers \ {u} : rpc'[v] = rpc[v]
      BY <2>1, <1>2 DEF RpcTypes, label
    <2>4. /\ rpcFaults' >= rpcFaults /\ rpcFaults \in Nat /\ rpcFaults' \in Nat
          /\ rpc[u].try \in Nat
      BY <1>2 DEF RpcTypes
    <2>5. g \in shared \/ rpc[u].try <= rpcFaults BY <1>1, <1>2 DEF RpcInv
    <2>6. g \in shared \/ rpc[u].try + 1 <= rpcFaults' BY <1>2, <2>4, <2>5
    <2>7. \A v \in Callers \ {u} : rpc[v].ins = g => g \in shared
      BY <1>1 DEF RpcInv
    <2>8. RetriesEnough'
      <3> SUFFICES ASSUME NEW t \in gaveUp', t[1] \notin shared
                   PROVE  rpcFaults' >= IF t[2] = "connect" THEN MaxRpcConnTrials
                                                            ELSE MaxRpcCallTrials
        BY <1>2 DEF RetriesEnough
      <3>1. CASE t \in gaveUp
        <4>1. rpcFaults >= IF t[2] = "connect" THEN MaxRpcConnTrials ELSE MaxRpcCallTrials
          BY <3>1 DEF RpcInv, RetriesEnough
        <4> QED BY <4>1, <2>4
      <3>2. CASE t \notin gaveUp
        <4>1. t = <<g, label>> /\ rpc[u].try + 1 >= Most(label) BY <3>2, <2>1
        <4> QED BY <4>1, <2>4, <2>6, <1>2 DEF RpcTypes
      <3> QED BY <3>1, <3>2
    <2>9. \A v \in Callers : /\ rpc'[v].at # "none" => rpc'[v].ins \in SGroups
                             /\ v # Console /\ rpc'[v].at # "none" => rpc'[v].ins = v
                             /\ rpc'[v].at = "none" => rpc'[v].ins = None
      BY <2>3, <1>0, <1>1, <1>2, <2>1 DEF RpcInv
    <2>10. \A v, x \in Callers : v # x /\ rpc'[v].ins = rpc'[x].ins /\ rpc'[v].ins # None
              => rpc'[v].ins \in shared'
      BY <2>3, <2>7, <1>2 DEF RpcInv
    <2>11. \A v \in Callers : rpc'[v].ins # None /\ rpc'[v].ins \notin shared' =>
              /\ rpc'[v].at = "call" => connected'[rpc'[v].ins]
              /\ rpc'[v].at \in {"connect", "call"} => rpc'[v].try <= rpcFaults'
      <3> SUFFICES ASSUME NEW v \in Callers, rpc'[v].ins # None, rpc'[v].ins \notin shared
                   PROVE  /\ rpc'[v].at = "call" => connected'[rpc'[v].ins]
                          /\ rpc'[v].at \in {"connect", "call"} => rpc'[v].try <= rpcFaults'
        BY <1>2
      <3>1. CASE v = u
        BY <3>1, <2>3, <2>6, <2>1, <1>1, <1>2 DEF RpcInv, label
      <3>2. CASE v # u
        <4>1. rpc'[v] = rpc[v] /\ rpc[v].ins # g BY <3>2, <2>3, <2>7
        <4>2. rpc[v].at # "none" /\ rpc[v].ins \in SGroups BY <4>1 DEF RpcInv
        <4>3. connected'[rpc[v].ins] = connected[rpc[v].ins] BY <4>1, <4>2, <1>2
        <4>4. /\ rpc[v].at = "call" => connected[rpc[v].ins]
              /\ rpc[v].at \in {"connect", "call"} => rpc[v].try <= rpcFaults
          BY <4>1, <4>2 DEF RpcInv
        <4>5. rpc[v].try \in Nat BY DEF RpcTypes
        <4> QED BY <4>1, <4>3, <4>4, <4>5, <2>4
      <3> QED BY <3>1, <3>2
    <2> QED BY <2>2, <2>8, <2>9, <2>10, <2>11 DEF RpcInv
  <1>3. ASSUME NEW label \in {"call", "done"}, rpc[u].at # "none",
               rpc' = [rpc EXCEPT ![u].at = label] \/ rpc' = [rpc EXCEPT ![u].at = label, ![u].try = 0],
               label = "call" => connected'[g] /\ rpc'[u].try = 0,
               \A h \in SGroups : connected[h] => connected'[h],
               connected' \in [SGroups -> BOOLEAN],
               UNCHANGED <<rpcFaults, gaveUp, shared>>
        PROVE  RpcTypes' /\ RpcInv'
    <2>1. RpcTypes' BY <1>3 DEF RpcTypes
    <2>2. /\ rpc'[u].ins = g /\ rpc'[u].at = label
          /\ \A v \in Callers \ {u} : rpc'[v] = rpc[v]
      BY <1>3 DEF RpcTypes
    <2>3. RetriesEnough' BY <1>3 DEF RpcInv, RetriesEnough
    <2>4. \A v \in Callers : /\ rpc'[v].at # "none" => rpc'[v].ins \in SGroups
                             /\ v # Console /\ rpc'[v].at # "none" => rpc'[v].ins = v
                             /\ rpc'[v].at = "none" => rpc'[v].ins = None
      BY <2>2, <1>0, <1>1 DEF RpcInv
    <2>5. \A v, x \in Callers : v # x /\ rpc'[v].ins = rpc'[x].ins /\ rpc'[v].ins # None
              => rpc'[v].ins \in shared'
      BY <2>2, <1>3 DEF RpcInv
    <2>6. \A v \in Callers : rpc'[v].ins # None /\ rpc'[v].ins \notin shared' =>
              /\ rpc'[v].at = "call" => connected'[rpc'[v].ins]
              /\ rpc'[v].at \in {"connect", "call"} => rpc'[v].try <= rpcFaults'
      <3> SUFFICES ASSUME NEW v \in Callers, rpc'[v].ins # None, rpc'[v].ins \notin shared
                   PROVE  /\ rpc'[v].at = "call" => connected'[rpc'[v].ins]
                          /\ rpc'[v].at \in {"connect", "call"} => rpc'[v].try <= rpcFaults
        BY <1>3
      <3>1. CASE v = u BY <3>1, <2>2, <1>3 DEF RpcTypes
      <3>2. CASE v # u
        <4>1. rpc'[v] = rpc[v] BY <3>2, <2>2
        <4>2. rpc[v].at # "none" /\ rpc[v].ins \in SGroups BY <4>1 DEF RpcInv
        <4> QED BY <4>1, <4>2, <1>3 DEF RpcInv
      <3> QED BY <3>1, <3>2
    <2> QED BY <2>1, <2>3, <2>4, <2>5, <2>6 DEF RpcInv
  <1>4. CASE TryConnect(u)
    <2>1. rpc[u].at = "connect" /\ shared' = shared BY <1>4 DEF TryConnect
    <2>2. CASE connected' = [connected EXCEPT ![g] = TRUE]
               /\ rpc' = [rpc EXCEPT ![u].at = "call", ![u].try = 0]
               /\ UNCHANGED <<rpcFaults, gaveUp>>
      <3>1. /\ connected' \in [SGroups -> BOOLEAN] /\ connected'[g]
            /\ \A h \in SGroups : connected[h] => connected'[h]
        BY <1>1, <2>2 DEF RpcTypes
      <3>2. rpc'[u].try = 0 BY <2>2 DEF RpcTypes
      <3> QED BY <1>3, <2>1, <2>2, <3>1, <3>2
    <2>3. CASE Fault /\ connected' = [connected EXCEPT ![g] = FALSE]
               /\ FailTrial(u, MaxRpcConnTrials, ConnTimeout)
      <3>1. /\ connected' \in [SGroups -> BOOLEAN]
            /\ \A h \in SGroups \ {g} : connected'[h] = connected[h]
        BY <1>1, <2>3 DEF RpcTypes
      <3>2. rpcFaults' = rpcFaults + 1 BY <2>3 DEF Fault
      <3>3. \/ /\ rpc[u].try + 1 >= Most(rpc[u].at) /\ rpc' = [rpc EXCEPT ![u].at = "done"]
               /\ gaveUp' \in {gaveUp, gaveUp \cup {<<g, rpc[u].at>>}}
            \/ rpc' = [rpc EXCEPT ![u].try = @ + 1] /\ gaveUp' = gaveUp
        BY <2>1, <2>3 DEF FailTrial, LastTrial, EndTrials
      <3> HIDE DEF Most
      <3> QED BY <1>2, <2>1, <3>1, <3>2, <3>3
    <2> QED BY <1>4, <2>2, <2>3 DEF TryConnect
  <1>5. CASE TryCall(u)
    <2>1. rpc[u].at = "call" /\ UNCHANGED <<connected, shared>> BY <1>5 DEF TryCall
    <2>2. connected \in [SGroups -> BOOLEAN] BY DEF RpcTypes
    <2>3. CASE EndTrials(u) /\ UNCHANGED <<rpcFaults, gaveUp>>
      <3>1. rpc' = [rpc EXCEPT ![u].at = "done"] BY <2>3 DEF EndTrials
      <3> QED BY <1>3, <2>1, <2>2, <2>3, <3>1
    <2>4. CASE (IF connected[g] THEN Fault ELSE UNCHANGED rpcFaults)
               /\ FailTrial(u, MaxRpcCallTrials, ReqTimeout)
      <3>1. rpcFaults' = rpcFaults + 1 \/ (g \in shared /\ rpcFaults' = rpcFaults)
        <4>1. CASE connected[g]
          <5>1. Fault BY <4>1, <2>4, Zenon
          <5>2. rpcFaults' = rpcFaults + 1 BY ONLY <5>1 DEF Fault
          <5> QED BY <5>2
        <4>2. CASE ~connected[g]
          <5>1. g \in shared BY <1>1, <2>1, <4>2 DEF RpcInv
          <5> QED BY <2>4, <4>2, <5>1
        <4> QED BY <4>1, <4>2
      <3>2. \/ /\ rpc[u].try + 1 >= Most(rpc[u].at) /\ rpc' = [rpc EXCEPT ![u].at = "done"]
               /\ gaveUp' \in {gaveUp, gaveUp \cup {<<g, rpc[u].at>>}}
            \/ rpc' = [rpc EXCEPT ![u].try = @ + 1] /\ gaveUp' = gaveUp
        BY <2>1, <2>4 DEF FailTrial, LastTrial, EndTrials
      <3> HIDE DEF Most
      <3> QED BY <1>2, <2>1, <2>2, <3>1, <3>2
    <2> QED BY <1>5, <2>3, <2>4 DEF TryCall
  <1>6. CASE EndRpc(u)
    <2>1. rpc' = [rpc EXCEPT ![u] = NoRpc] /\ UNCHANGED <<connected, rpcFaults, gaveUp, shared>>
      BY <1>6 DEF EndRpc
    <2>2. RpcTypes' BY <2>1 DEF RpcTypes, NoRpc
    <2>3. rpc'[u] = NoRpc /\ \A v \in Callers \ {u} : rpc'[v] = rpc[v] BY <2>1 DEF RpcTypes
    <2> QED BY <2>1, <2>2, <2>3 DEF RpcInv, NoRpc, RetriesEnough
  <1> QED BY <1>4, <1>5, <1>6 DEF RpcStep

\* setCycles starts with its first trial.
LEMMA Begins ==
  ASSUME RpcTypes, RpcInv, NEW u \in Callers, NEW g \in SGroups, StartRpc(u, g),
         u = Console \/ u = g
  PROVE  /\ RpcTypes' /\ RpcInv'
         /\ rpc'[u].at # "none" /\ \A v \in Callers \ {u} : rpc'[v] = rpc[v]
  <1> USE RpcAssumption DEF RpcAssumption
  <1> DEFINE r == [at |-> IF connected[g] THEN "call" ELSE "connect", ins |-> g, try |-> 0]
  <1>1. /\ rpc' = [rpc EXCEPT ![u] = r] /\ rpc[u].at = "none"
        /\ UNCHANGED <<connected, rpcFaults, gaveUp>> /\ shared \subseteq shared'
        /\ \A v \in Callers \ {u} : rpc[v].ins = g => g \in shared'
    BY DEF StartRpc, Calling
  <1>2. RpcTypes' BY <1>1 DEF RpcTypes
  <1>3. rpc'[u] = r /\ \A v \in Callers \ {u} : rpc'[v] = rpc[v] BY <1>1 DEF RpcTypes
  <1>4. RpcInv'
    <2>1. RetriesEnough' BY <1>1 DEF RpcInv, RetriesEnough
    <2>2. \A v, x \in Callers : v # x /\ rpc'[v].ins = rpc'[x].ins /\ rpc'[v].ins # None
              => rpc'[v].ins \in shared'
      BY <1>1, <1>3 DEF RpcInv
    <2>3. \A v \in Callers : rpc'[v].ins # None /\ rpc'[v].ins \notin shared' =>
              /\ rpc'[v].at = "call" => connected'[rpc'[v].ins]
              /\ rpc'[v].at \in {"connect", "call"} => rpc'[v].try <= rpcFaults'
      BY <1>1, <1>3 DEF RpcInv, RpcTypes
    <2>4. \A v \in Callers : /\ rpc'[v].at # "none" => rpc'[v].ins \in SGroups
                             /\ v # Console /\ rpc'[v].at # "none" => rpc'[v].ins = v
                             /\ rpc'[v].at = "none" => rpc'[v].ins = None
      BY <1>3 DEF RpcInv
    <2> QED BY <2>1, <2>2, <2>3, <2>4 DEF RpcInv
  <1> QED BY <1>2, <1>3, <1>4

-----------------------------------------------------------------------------
(* The steps of Metron. *)

\* The worker of a SGroup.
LEMMA Homes ==
  /\ \A g \in SGroups : Home[g] \in Workers /\ g \in Range(FreeAtStart[Home[g]])
  /\ \A w \in Workers : /\ IsInjective(FreeAtStart[w])
                        /\ \A g \in Range(FreeAtStart[w]) : g \in SGroups /\ Home[g] = w
  <1> USE MetronAssumption DEF MetronAssumption
  <1>1. ASSUME NEW g \in SGroups
        PROVE  /\ Home[g] \in Workers
               /\ \E i \in DOMAIN FreeAtStart[Home[g]] : FreeAtStart[Home[g]][i] = g
    <2>1. \E w \in Workers : \E i \in DOMAIN FreeAtStart[w] : FreeAtStart[w][i] = g OBVIOUS
    <2>2. Home[g] = CHOOSE w \in Workers :
                       \E i \in DOMAIN FreeAtStart[w] : FreeAtStart[w][i] = g
      BY DEF Home
    <2> QED BY <2>1, <2>2
  <1>2. ASSUME NEW w \in Workers PROVE IsInjective(FreeAtStart[w])
    BY <1>2 DEF IsInjective
  <1>3. ASSUME NEW w \in Workers, NEW g \in Range(FreeAtStart[w])
        PROVE  g \in SGroups /\ Home[g] = w
    <2>1. PICK i \in DOMAIN FreeAtStart[w] : g = FreeAtStart[w][i] BY DEF Range
    <2>2. FreeAtStart[w] \in Seq(SGroups) OBVIOUS
    <2>3. g \in SGroups BY <2>1, <2>2, ElementOfSeq, LenProperties
    <2> QED BY <2>1, <2>3, <1>1
  <1>4. \A g \in SGroups : g \in Range(FreeAtStart[Home[g]]) BY <1>1 DEF Range
  <1> QED BY <1>1, <1>2, <1>3, <1>4

\* The first state.
LEMMA Starts ==
  ASSUME Init
  PROVE  IInv
  <1> USE RpcAssumption, MetronAssumption, Homes DEF Init, RpcInit
  <1>1. RpcTypes BY DEF RpcTypes, RpcAssumption, NoRpc
  <1>2. ProcTypes
    <2>1. NoProc \in Record /\ [NoProc EXCEPT !.at = "choose"] \in Record
      <3>1. <<>> \in Seq(SGroups) /\ None \in SGroups \cup {None}
            /\ None \in AllCores \cup {None}
        BY ONLY EmptySeq
      <3> QED BY ONLY <3>1 DEF Record, NoProc, Labels
    <2>2. proc \in [Procs -> Record] BY <2>1
    <2>3. \A q \in Procs : proc[q].at \in {"none", "choose"} BY DEF NoProc
    <2> QED BY <2>2, <2>3 DEF ProcTypes, Holding, HasSGroup
  <1>3. ListTypes /\ SetUpTypes BY DEF ListTypes, SetUpTypes, MetronAssumption
  <1>4. CoreTypes BY DEF CoreTypes
  <1>5. RpcInv BY DEF RpcInv, RetriesEnough, NoRpc
  <1>6. /\ \A g \in SGroups : ~Deployed(g)
        /\ \A q \in Procs : proc[q].at \in {"none", "choose"}
    BY DEF Deployed, NoProc
  <1>7. OwnInv BY <1>6 DEF OwnInv, Free, Holds, Holding
  <1>8. CoreInv BY <1>6 DEF CoreInv, Pinned
  <1>9. ReadyInv BY DEF ReadyInv, Calling, NoRpc, Callers
  <1>10. OnceInv
    <2>1. \A q \in Procs : ~HasSGroup(q) BY <1>6 DEF HasSGroup, Holding
    <2>2. \A g \in SGroups : announced[g] = 0 OBVIOUS
    <2> QED BY <2>1, <2>2 DEF OnceInv
  <1> QED BY <1>1, <1>2, <1>3, <1>4, <1>5, <1>7, <1>8, <1>9, <1>10 DEF IInv

\* Steps of processes leave the RPCs alone.
LEMMA RpcFrame ==
  ASSUME RpcTypes, RpcInv, UNCHANGED rpcVars
  PROVE  RpcTypes' /\ RpcInv'
  BY DEF rpcVars, RpcTypes, RpcInv, RetriesEnough

\* A process without a SGroup it builds goes on without one; it may announce the
\* SGroup it polled.
LEMMA Leaves ==
  ASSUME IInv, NEW p \in Procs, proc[p].at \notin Holding,
         proc' \in [Procs -> Record], \A q \in Procs \ {p} : proc'[q] = proc[q],
         proc'[p].at \in {"none", "look", "choose"},
         proc'[p].at = "look" => proc'[p].list # <<>>,
         UNCHANGED <<rpcVars, listVars, coreVars, isReady, failures, raced>>,
         \/ announced' = announced
         \/ /\ HasSGroup(p) /\ isReady[proc[p].sg]
            /\ announced' = [announced EXCEPT ![proc[p].sg] = @ + 1]
  PROVE  IInv'
  <1> USE DEF IInv
  <1>1. RpcTypes' /\ RpcInv' BY RpcFrame
  <1>2. ProcTypes' /\ ~HasSGroup(p)' BY DEF ProcTypes, coreVars, HasSGroup, Holding
  <1>3. ListTypes' /\ SetUpTypes' /\ CoreTypes'
    BY DEF ListTypes, SetUpTypes, CoreTypes, listVars, coreVars, ProcTypes
  <1>4. /\ \A g : Deployed(g)' <=> Deployed(g)
        /\ \A g : Free(g)' <=> Free(g)
        /\ \A q \in Procs : \A g : Holds(q, g)' <=> Holds(q, g)
        /\ \A g : Calling(g)' <=> Calling(g)
    BY DEF Deployed, Free, Holds, Holding, Calling, listVars, rpcVars
  <1>5. OwnInv' BY <1>4 DEF OwnInv, listVars
  <1>6. CoreInv'
    <2>1. \A q \in Procs : /\ (proc'[q].at = "add" <=> proc[q].at = "add")
                           /\ (proc'[q].at = "build" <=> proc[q].at = "build")
                           /\ (proc[q].at \in Holding => proc'[q] = proc[q])
      BY DEF Holding
    <2>2. \A q, x \in Procs : proc[q].at = "add" => (SameCore(q, x)' <=> SameCore(q, x))
      BY <2>1 DEF SameCore, Holding
    <2>3. \A g : Pinned(g)' <=> Pinned(g) BY <2>1, <1>4 DEF Pinned, Holding
    <2> QED BY <2>1, <2>2, <2>3 DEF CoreInv, coreVars, Holding
  <1>7. ReadyInv' BY <1>4 DEF ReadyInv, SetUpTypes, ProcTypes
  <1>8. OnceInv'
    <2>1. \A q \in Procs : HasSGroup(q)' => HasSGroup(q) /\ q # p /\ proc'[q] = proc[q]
      BY <1>2 DEF HasSGroup
    <2> SUFFICES ASSUME failures = 0 PROVE OnceInv' BY DEF OnceInv
    <2>2. \A q \in Procs : HasSGroup(q) /\ q # p =>
             ~Free(proc[q].sg) /\ announced'[proc[q].sg] = 0
      BY DEF OnceInv, SetUpTypes, ProcTypes
    <2>3. \A g \in SGroups : announced'[g] <= 1 BY DEF OnceInv, SetUpTypes, ProcTypes
    <2>4. \A q, x \in Procs :
             HasSGroup(q)' /\ HasSGroup(x)' /\ proc'[q].sg = proc'[x].sg => q = x
      BY <2>1 DEF OnceInv
    <2> QED BY <1>4, <2>1, <2>2, <2>3, <2>4 DEF OnceInv
  <1> QED BY <1>1, <1>2, <1>3, <1>5, <1>6, <1>7, <1>8

\* Tail of a list, for SMT.
LEMMA Rests ==
  ASSUME NEW l \in Seq(SGroups), l # <<>>
  PROVE  Tail(l) \in Seq(SGroups)
  BY HeadTailProperties

\* A scale-up goes on with the next SGroup of its list, or ends.
LEMMA Finishes ==
  ASSUME ProcTypes, NEW p \in Procs, Finish(p)
  PROVE  /\ proc' \in [Procs -> Record] /\ \A q \in Procs \ {p} : proc'[q] = proc[q]
         /\ proc'[p].at \in {"none", "look"}
         /\ proc'[p].at = "look" => proc'[p].list # <<>>
  <1> DEFINE at == IF proc[p].list = <<>> THEN "none" ELSE "look"
             r  == [at |-> at, list |-> proc[p].list, sg |-> None, core |-> None]
  <1>1. proc' = [proc EXCEPT ![p] = r] BY DEF Finish
  <1>2. proc[p] \in Record /\ proc \in [Procs -> Record] BY DEF ProcTypes
  <1>3. r \in Record BY <1>2 DEF Record, Labels
  <1>4. /\ r.at \in {"none", "look"} /\ r.list = proc[p].list
        /\ r.at = "look" => proc[p].list # <<>>
    OBVIOUS
  <1> HIDE DEF r
  <1>5. proc'[p] = r BY <1>1, <1>2
  <1> QED BY <1>1, <1>2, <1>3, <1>4, <1>5

\* metronProcessWorker looks at a SGroup of its list.
LEMMA LookAtStep ==
  ASSUME IInv, NEW p \in Procs, LookAt(p)
  PROVE  IInv'
  <1>1. proc[p] \in Record /\ proc \in [Procs -> Record] /\ proc[p].list # <<>>
        /\ proc[p].at = "look"
    BY DEF IInv, ProcTypes, LookAt, At
  <1>2. Tail(proc[p].list) \in Seq(SGroups) BY <1>1, Rests DEF Record
  <1>3. proc' \in [Procs -> Record] /\ \A q \in Procs \ {p} : proc'[q] = proc[q]
    BY <1>1, <1>2 DEF LookAt, Record, Labels
  <1>4. /\ proc'[p].at \in {"none", "look", "choose"}
        /\ proc'[p].at = "look" => proc'[p].list # <<>>
    BY <1>1 DEF LookAt, Record
  <1>5. UNCHANGED <<rpcVars, listVars, coreVars, isReady, failures, raced, announced>>
    BY DEF LookAt, ctlVars
  <1> QED BY <1>1, <1>3, <1>4, <1>5, Leaves DEF Holding

\* A report of an overloaded port.
LEMMA UpdatePortStep ==
  ASSUME IInv, NEW p \in Procs, NEW w \in Workers, UpdatePort(p, w)
  PROVE  IInv'
  <1>1. /\ proc[p] \in Record /\ proc \in [Procs -> Record] /\ proc[p].at = "none"
        /\ sgroups[w] \in Seq(SGroups) /\ sgroups[w] # <<>>
    BY DEF IInv, ProcTypes, ListTypes, UpdatePort, At
  <1>2. proc' = [proc EXCEPT ![p].at = "look", ![p].list = sgroups[w]]
    BY DEF UpdatePort
  <1>3. proc' \in [Procs -> Record] /\ \A q \in Procs \ {p} : proc'[q] = proc[q]
    BY <1>1, <1>2 DEF Record, Labels
  <1>4. proc'[p].at = "look" /\ proc'[p].list # <<>> BY <1>1, <1>2 DEF Record
  <1>5. UNCHANGED <<rpcVars, listVars, coreVars, isReady, failures, raced, announced>>
    BY DEF UpdatePort
  <1> QED BY <1>1, <1>3, <1>4, <1>5, Leaves DEF Holding

\* The poll for readiness ends, with an announcement or without.
LEMMA PollEnds ==
  ASSUME IInv, NEW p \in Procs, Announce(p) \/ StopPolling(p)
  PROVE  IInv'
  <1>1. proc[p].at = "poll" /\ Finish(p) BY DEF Announce, StopPolling, At
  <1>2. /\ proc' \in [Procs -> Record] /\ \A q \in Procs \ {p} : proc'[q] = proc[q]
        /\ proc'[p].at \in {"none", "look", "choose"}
        /\ proc'[p].at = "look" => proc'[p].list # <<>>
    BY <1>1, Finishes DEF IInv
  <1>3. UNCHANGED <<rpcVars, listVars, coreVars, isReady, failures, raced>>
    BY DEF Announce, StopPolling, ctlVars
  <1>4. \/ announced' = announced
        \/ /\ HasSGroup(p) /\ isReady[proc[p].sg]
           /\ announced' = [announced EXCEPT ![proc[p].sg] = @ + 1]
    BY <1>1 DEF Announce, StopPolling, ctlVars, IsReady, HasSGroup
  <1> QED BY <1>1, <1>2, <1>3, <1>4, Leaves DEF Holding

\* A free SGroup gets a process that builds it.
LEMMA ChooseStep ==
  ASSUME IInv, NEW p \in Procs, ChooseWorker(p)
  PROVE  IInv'
  <1>1. proc[p].at = "choose"
        /\ UNCHANGED <<rpcVars, sgroups, coreVars, isReady, ctlVars>>
    BY DEF ChooseWorker, At
  <1>2. CASE Finish(p) /\ UNCHANGED freeSGroups
    <2>1. /\ proc' \in [Procs -> Record] /\ \A q \in Procs \ {p} : proc'[q] = proc[q]
          /\ proc'[p].at \in {"none", "look", "choose"}
          /\ proc'[p].at = "look" => proc'[p].list # <<>>
      BY <1>2, Finishes DEF IInv
    <2>2. UNCHANGED <<rpcVars, listVars, coreVars, isReady, failures, raced, announced>>
      BY <1>1, <1>2 DEF ctlVars, listVars
    <2> QED BY <1>1, <2>1, <2>2, Leaves DEF Holding
  <1>3. ASSUME NEW w \in Workers, freeSGroups[w] # <<>>,
               freeSGroups' = [freeSGroups EXCEPT ![w] = DropLast(freeSGroups[w])],
               proc' = [proc EXCEPT ![p].at = "core",
                                    ![p].sg = freeSGroups[w][Len(freeSGroups[w])]]
        PROVE  IInv'
    <2> DEFINE s == freeSGroups[w]
               g == Last(s)
    <2>1. s \in Seq(SGroups) /\ IsInjective(s) BY DEF IInv, ListTypes, OwnInv
    <2>2. /\ g \in SGroups /\ g \in Range(s) /\ DropLast(s) \in Seq(SGroups)
          /\ IsInjective(DropLast(s)) /\ Range(DropLast(s)) = Range(s) \ {g}
      BY <1>3, <2>1, FrontAndLast DEF DropLast, Front
    <2>3. g = s[Len(s)] BY DEF Last
    <2> HIDE DEF g
    <2>4. Home[g] = w /\ Free(g) BY <2>2 DEF IInv, OwnInv, Free
    <2>5. /\ freeSGroups'[w] = DropLast(s)
          /\ \A v \in Workers \ {w} : freeSGroups'[v] = freeSGroups[v]
          /\ freeSGroups' \in [Workers -> Seq(SGroups)]
      BY <1>3, <2>2 DEF IInv, ListTypes
    <2>6. /\ proc' \in [Procs -> Record] /\ \A q \in Procs \ {p} : proc'[q] = proc[q]
          /\ proc'[p].at = "core" /\ proc'[p].sg = g
      <3>1. proc \in [Procs -> Record] BY DEF IInv, ProcTypes
      <3>2. proc' = [proc EXCEPT ![p] = [proc[p] EXCEPT !.at = "core", !.sg = g]]
        BY <1>3, <2>3
      <3>3. [proc[p] EXCEPT !.at = "core", !.sg = g] \in Record
        BY <2>2, <3>1 DEF Record, Labels, Holding
      <3>4. proc'[p] = [proc[p] EXCEPT !.at = "core", !.sg = g] BY <3>1, <3>2
      <3>5. proc'[p].at = "core" /\ proc'[p].sg = g BY <3>1, <3>4 DEF Record
      <3> QED BY <3>1, <3>2, <3>3, <3>5
    <2>7. /\ \A h : Deployed(h)' <=> Deployed(h)
          /\ \A h : Calling(h)' <=> Calling(h)
          /\ \A h \in SGroups : Free(h)' <=> Free(h) /\ h # g
          /\ \A q \in Procs : \A h : Holds(q, h)' <=> Holds(q, h) \/ (q = p /\ h = g)
      <3>1. \A h \in SGroups : Free(h)' <=> Free(h) /\ h # g
        BY <2>2, <2>4, <2>5, Homes DEF Free
      <3>2. \A q \in Procs : \A h : Holds(q, h)' <=> Holds(q, h) \/ (q = p /\ h = g)
        BY <2>6, <1>1 DEF Holds, Holding
      <3> QED BY <1>1, <3>1, <3>2 DEF Deployed, Calling, rpcVars
    <2>8. RpcTypes' /\ RpcInv' BY <1>1, RpcFrame DEF IInv
    <2>9. ProcTypes' BY <2>2, <2>6 DEF IInv, ProcTypes, HasSGroup, Holding
    <2>10. ListTypes' /\ SetUpTypes' /\ CoreTypes'
      BY <1>1, <2>5 DEF IInv, ListTypes, SetUpTypes, CoreTypes, coreVars, ctlVars
    <2>11. OwnInv'
      <3>1. \A v \in Workers : IsInjective(freeSGroups'[v])
        BY <2>2, <2>5 DEF IInv, OwnInv
      <3>2. \A v \in Workers, h \in SGroups : h \in Range(freeSGroups'[v]) => Home[h] = v
        BY <2>2, <2>5 DEF IInv, OwnInv
      <3>3. \A h \in SGroups : Free(h)' => ~Deployed(h)' /\ \A q \in Procs : ~Holds(q, h)'
        BY <2>7 DEF IInv, OwnInv
      <3>4. \A h \in SGroups, q \in Procs : Holds(q, h)' =>
               ~Deployed(h)' /\ \A x \in Procs : Holds(x, h)' => x = q
        BY <2>2, <2>4, <2>7 DEF IInv, OwnInv
      <3> QED BY <3>1, <3>2, <3>3, <3>4 DEF OwnInv
    <2>12. CoreInv'
      <3>1. \A q \in Procs : /\ proc'[q].at = "add" <=> proc[q].at = "add"
                             /\ proc'[q].at = "build" <=> proc[q].at = "build"
                             /\ proc[q].at \in Holding => proc'[q] = proc[q]
        BY <2>6, <1>1 DEF Holding
      <3>2. \A q, x \in Procs : proc[q].at = "add" => (SameCore(q, x)' <=> SameCore(q, x))
        BY <3>1 DEF SameCore, Holding
      <3>3. \A h : Pinned(h)' <=> Pinned(h) BY <3>1, <2>7 DEF Pinned, Holding
      <3> QED BY <1>1, <3>1, <3>2, <3>3 DEF IInv, CoreInv, coreVars, ctlVars, Holding
    <2>13. ReadyInv' BY <1>1, <2>7 DEF IInv, ReadyInv, ctlVars
    <2>14. OnceInv'
      <3>1. ~Deployed(g) /\ announced[g] = 0
        BY <2>2, <2>4 DEF IInv, OwnInv, ReadyInv, SetUpTypes
      <3>2. \A q \in Procs : HasSGroup(q)' <=> HasSGroup(q) \/ q = p
        BY <2>6 DEF HasSGroup, Holding
      <3>3. \A q \in Procs \ {p} : HasSGroup(q) /\ failures = 0 => proc[q].sg # g
        BY <2>4 DEF IInv, OnceInv
      <3>4. \A q \in Procs : HasSGroup(q) => proc[q].sg \in SGroups
        BY DEF IInv, ProcTypes
      <3>5. UNCHANGED <<announced, failures>> BY <1>1 DEF ctlVars
      <3>6. ~HasSGroup(p) BY <1>1 DEF HasSGroup, Holding
      <3> QED BY <2>2, <2>6, <2>7, <3>1, <3>2, <3>3, <3>4, <3>5, <3>6 DEF IInv, OnceInv
    <2> QED BY <2>8, <2>9, <2>10, <2>11, <2>12, <2>13, <2>14 DEF IInv
  <1> QED BY <1>2, <1>3 DEF ChooseWorker

\* The steps from "core" to "build" leave the lists alone: p keeps its SGroup.
LEMMA Builds ==
  ASSUME IInv, NEW p \in Procs, proc[p].at \in Holding,
         proc' \in [Procs -> Record], \A q \in Procs \ {p} : proc'[q] = proc[q],
         proc'[p].at \in Holding, proc'[p].sg = proc[p].sg,
         proc'[p].at = "add" => proc'[p].core \in Cores[Home[proc[p].sg]],
         CoreTypes', CoreInv',
         UNCHANGED <<rpcVars, listVars, isReady, announced, failures>>
  PROVE  IInv'
  <1> USE DEF IInv
  <1>1. RpcTypes' /\ RpcInv' BY RpcFrame
  <1>2. /\ \A q \in Procs : HasSGroup(q)' <=> HasSGroup(q)
        /\ \A q \in Procs : proc'[q].sg = proc[q].sg
        /\ \A h : Deployed(h)' <=> Deployed(h)
        /\ \A h : Free(h)' <=> Free(h)
        /\ \A h : Calling(h)' <=> Calling(h)
        /\ \A q \in Procs : \A h : Holds(q, h)' <=> Holds(q, h)
    BY DEF HasSGroup, Deployed, Free, Calling, Holds, listVars, rpcVars
  <1>3. ProcTypes' BY <1>2 DEF ProcTypes, Holding
  <1>4. ListTypes' /\ SetUpTypes' BY DEF ListTypes, SetUpTypes, listVars
  <1>5. OwnInv' BY <1>2 DEF OwnInv, listVars
  <1>6. ReadyInv' BY <1>2 DEF ReadyInv
  <1>7. OnceInv' BY <1>2 DEF OnceInv, ProcTypes
  <1> QED BY <1>1, <1>3, <1>4, <1>5, <1>6, <1>7

\* getIdleCore, for the SGroup taken.
LEMMA FindCoreStep ==
  ASSUME IInv, NEW p \in Procs, FindCore(p)
  PROVE  IInv'
  <1> DEFINE g == proc[p].sg
             w == Home[g]
  <1>1. /\ proc[p].at = "core" /\ proc[p] \in Record /\ proc \in [Procs -> Record]
        /\ g \in SGroups
        /\ UNCHANGED <<rpcVars, listVars, coreVars, isReady, announced, failures>>
    BY DEF FindCore, At, IInv, ProcTypes, HasSGroup, Holding
  <1>2. CoreTypes' BY <1>1 DEF IInv, CoreTypes, coreVars
  <1>3. CASE UNCHANGED <<proc, raced>>
    <2>1. CoreInv'
      <3>1. \A h : Pinned(h)' <=> Pinned(h) BY <1>1, <1>3 DEF Pinned, Deployed, listVars
      <3>2. \A q, x : SameCore(q, x)' <=> SameCore(q, x) BY <1>3 DEF SameCore
      <3> QED BY <1>1, <1>3, <3>1, <3>2 DEF IInv, CoreInv, coreVars
    <2> QED BY <1>1, <1>2, <1>3, <2>1, Builds DEF Holding
  <1>4. ASSUME NEW c \in IdleCores(w), proc' = [proc EXCEPT ![p].at = "add", ![p].core = c],
               raced' = (raced \/ \E q \in Procs \ {p} :
                                    At(q, "add") /\ proc[q].core = c /\ Home[proc[q].sg] = w)
        PROVE  IInv'
    <2>1. c \in Cores[w] /\ coreSGroups[w][c] = {} /\ w \in Workers
      BY <1>1, <1>4, Homes DEF IdleCores
    <2>2. c \in AllCores BY <2>1 DEF AllCores
    <2>3. /\ proc' \in [Procs -> Record] /\ \A q \in Procs \ {p} : proc'[q] = proc[q]
          /\ proc'[p].at = "add" /\ proc'[p].sg = g /\ proc'[p].core = c
      BY <1>1, <1>4, <2>2 DEF Record, Labels, Holding
    <2>4. CoreInv'
      <3> SUFFICES ASSUME ~raced' PROVE CoreInv' BY DEF CoreInv
      <3>1. /\ ~raced
            /\ \A q \in Procs \ {p} : proc[q].at = "add" /\ proc[q].core = c
                                        => Home[proc[q].sg] # w
        BY <1>4 DEF At
      <3>2. \A h : Pinned(h)' <=> Pinned(h)
        BY <1>1, <2>3 DEF Pinned, Deployed, listVars
      <3>3. ASSUME NEW q \in Procs, proc'[q].at = "add"
            PROVE  /\ coreSGroups'[Home[proc'[q].sg]][proc'[q].core] = {}
                   /\ \A x \in Procs : SameCore(q, x)' => x = q
        <4>1. CASE q = p BY <1>1, <2>1, <2>3, <3>1, <4>1 DEF SameCore, coreVars
        <4>2. CASE q # p
          <5>1. proc'[q] = proc[q] /\ coreSGroups' = coreSGroups BY <1>1, <2>3, <4>2 DEF coreVars
          <5>2. \A x \in Procs : SameCore(q, x)' => x = q
            <6>1. ~SameCore(q, p)' BY <2>3, <3>1, <3>3, <4>2, <5>1 DEF SameCore
            <6>2. \A x \in Procs \ {p} : SameCore(q, x)' => SameCore(q, x)
              BY <2>3, <5>1 DEF SameCore
            <6> QED BY <3>1, <3>3, <5>1, <6>1, <6>2 DEF IInv, CoreInv
          <5> QED BY <3>1, <3>3, <5>1, <5>2 DEF IInv, CoreInv
        <4> QED BY <4>1, <4>2
      <3> QED BY <1>1, <3>1, <3>2, <3>3 DEF IInv, CoreInv, coreVars
    <2> QED BY <1>1, <1>2, <2>1, <2>3, <2>4, Builds DEF Holding
  <1> QED BY <1>3, <1>4 DEF FindCore

\* addSGroup, in a step of its own.
LEMMA AddToCoreStep ==
  ASSUME IInv, NEW p \in Procs, AddToCore(p)
  PROVE  IInv'
  <1> DEFINE g == proc[p].sg
             w == Home[g]
             core == proc[p].core
  <1>1. /\ proc[p].at = "add" /\ proc[p] \in Record /\ proc \in [Procs -> Record]
        /\ g \in SGroups /\ core \in Cores[w]
    BY DEF AddToCore, At, IInv, ProcTypes, HasSGroup, Holding
  <1>2. /\ proc' = [proc EXCEPT ![p].at = "build"]
        /\ coreID' = [coreID EXCEPT ![g] = core]
        /\ UNCHANGED <<rpcVars, listVars, isReady, announced, failures, raced>>
    BY DEF AddToCore, Goto, ctlVars
  <1>3. w \in Workers BY <1>1, Homes
  <1>4. /\ proc' \in [Procs -> Record] /\ \A q \in Procs \ {p} : proc'[q] = proc[q]
        /\ proc'[p].at = "build" /\ proc'[p].sg = g
    BY <1>1, <1>2 DEF Record, Labels, Holding
  <1>5. /\ \/ coreSGroups' = coreSGroups
           \/ coreSGroups' = [coreSGroups EXCEPT ![w][core] = @ \cup {g}]
        /\ ~raced => coreSGroups' = [coreSGroups EXCEPT ![w][core] = @ \cup {g}]
    <2>1. PICK lost \in IF \E q \in Procs \ {p} : /\ At(q, "add") /\ proc[q].core = core
                                                  /\ Home[proc[q].sg] = w
                        THEN BOOLEAN ELSE {FALSE} :
             coreSGroups' = IF lost THEN coreSGroups
                            ELSE [coreSGroups EXCEPT ![w][core] = @ \cup {g}]
      BY DEF AddToCore
    <2>2. ASSUME ~raced
          PROVE  ~\E q \in Procs \ {p} : /\ At(q, "add") /\ proc[q].core = core
                                         /\ Home[proc[q].sg] = w
      BY <1>1, <2>2 DEF IInv, CoreInv, SameCore, At
    <2> QED BY <2>1, <2>2
  <1> DEFINE all == coreSGroups[w]
  <1>6. all \in [Cores[w] -> SUBSET SGroups] /\ coreSGroups = [v \in Workers |-> coreSGroups[v]]
    BY <1>3 DEF IInv, CoreTypes
  <1>7. CoreTypes'
    <2>1. core \in AllCores BY <1>1, <1>3 DEF AllCores
    <2>2. coreID' \in [SGroups -> AllCores \cup {None}]
      BY <1>1, <1>2, <2>1 DEF IInv, CoreTypes
    <2>3. \A v \in Workers : coreSGroups'[v] \in [Cores[v] -> SUBSET SGroups]
      <3>1. CASE coreSGroups' = coreSGroups BY <3>1 DEF IInv, CoreTypes
      <3>2. CASE coreSGroups' = [coreSGroups EXCEPT ![w][core] = @ \cup {g}]
        <4>1. coreSGroups'[w] = [all EXCEPT ![core] = @ \cup {g}] BY <1>3, <1>6, <3>2
        <4>2. [all EXCEPT ![core] = @ \cup {g}] \in [Cores[w] -> SUBSET SGroups]
          BY <1>1, <1>6
        <4>3. \A v \in Workers \ {w} : coreSGroups'[v] = coreSGroups[v] BY <1>6, <3>2
        <4> QED BY <4>1, <4>2, <4>3 DEF IInv, CoreTypes
      <3> QED BY <1>5, <3>1, <3>2
    <2>4. coreSGroups' = [v \in Workers |-> coreSGroups'[v]] BY <1>5, <1>6
    <2> QED BY <2>2, <2>3, <2>4 DEF CoreTypes
  <1>8. CoreInv'
    <2> SUFFICES ASSUME ~raced PROVE CoreInv' BY <1>2 DEF CoreInv
    <2>1. /\ coreSGroups[w][core] = {}
          /\ \A q \in Procs : SameCore(p, q) => q = p
      BY <1>1 DEF IInv, CoreInv
    <2>2. coreSGroups' = [coreSGroups EXCEPT ![w][core] = @ \cup {g}] BY <1>5
    <2>3. /\ g \in coreSGroups'[w][core]
          /\ \A v \in Workers : \A c \in Cores[v] :
                coreSGroups[v][c] \subseteq coreSGroups'[v][c]
          /\ \A v \in Workers : \A c \in Cores[v] :
                v # w \/ c # core => coreSGroups'[v][c] = coreSGroups[v][c]
      <3>1. coreSGroups'[w] = [all EXCEPT ![core] = @ \cup {g}] BY <1>3, <1>6, <2>2
      <3>2. \A v \in Workers \ {w} : coreSGroups'[v] = coreSGroups[v] BY <1>6, <2>2
      <3>3. g \in coreSGroups'[w][core] BY <1>1, <1>6, <3>1
      <3>4. ASSUME NEW v \in Workers, NEW c \in Cores[v]
            PROVE  /\ coreSGroups[v][c] \subseteq coreSGroups'[v][c]
                   /\ v # w \/ c # core => coreSGroups'[v][c] = coreSGroups[v][c]
        <4>1. CASE v = w BY <1>1, <1>6, <3>1, <4>1
        <4>2. CASE v # w BY <3>2, <4>2
        <4> QED BY <4>1, <4>2
      <3> QED BY <3>3, <3>4
    <2>4. \A h : Pinned(h)' <=> Pinned(h) \/ h = g
      BY <1>1, <1>2, <1>4 DEF Pinned, Deployed, listVars
    <2>5. \A h \in SGroups : Pinned(h) =>
             coreID[h] \in Cores[Home[h]] /\ h \in coreSGroups[Home[h]][coreID[h]]
      BY DEF IInv, CoreInv
    <2>6. coreID'[g] = core /\ \A h \in SGroups \ {g} : coreID'[h] = coreID[h]
      BY <1>1, <1>2 DEF IInv, CoreTypes
    <2>7. \A h \in SGroups : Pinned(h) /\ Home[h] = w => coreID[h] # core
      BY <2>1, <2>5
    <2>8. \A q \in Procs : proc'[q].at = "add" =>
             /\ coreSGroups'[Home[proc'[q].sg]][proc'[q].core] = {}
             /\ \A x \in Procs : SameCore(q, x)' => x = q
      <3> SUFFICES ASSUME NEW q \in Procs, proc'[q].at = "add"
                   PROVE  /\ coreSGroups'[Home[proc'[q].sg]][proc'[q].core] = {}
                          /\ \A x \in Procs : SameCore(q, x)' => x = q
        OBVIOUS
      <3>1. q # p /\ proc'[q] = proc[q] BY <1>4
      <3>2. \A x \in Procs : SameCore(q, x)' => SameCore(q, x)
        BY <1>4, <3>1 DEF SameCore
      <3>3. /\ coreSGroups[Home[proc[q].sg]][proc[q].core] = {}
            /\ \A x \in Procs : SameCore(q, x) => x = q
        BY <3>1 DEF IInv, CoreInv
      <3>4. Home[proc[q].sg] # w \/ proc[q].core # core
        BY <2>1, <3>1 DEF SameCore
      <3>5. Home[proc[q].sg] \in Workers /\ proc[q].core \in Cores[Home[proc[q].sg]]
        BY <3>1, Homes DEF IInv, ProcTypes, HasSGroup, Holding
      <3>6. \A v \in Workers : \A c \in Cores[v] :
               v # w \/ c # core => coreSGroups'[v][c] = coreSGroups[v][c]
        BY <2>3
      <3>7. coreSGroups'[Home[proc[q].sg]][proc[q].core]
               = coreSGroups[Home[proc[q].sg]][proc[q].core]
        BY <3>4, <3>5, <3>6
      <3> QED BY <3>1, <3>2, <3>3, <3>7
    <2>9. \A h \in SGroups : Pinned(h)' =>
             coreID'[h] \in Cores[Home[h]] /\ h \in coreSGroups'[Home[h]][coreID'[h]]
      BY <1>1, <2>3, <2>4, <2>5, <2>6, Homes
    <2>10. \A h, k \in SGroups :
              Pinned(h)' /\ Pinned(k)' /\ h # k /\ Home[h] = Home[k] => coreID'[h] # coreID'[k]
      BY <2>4, <2>6, <2>7 DEF IInv, CoreInv
    <2> QED BY <2>8, <2>9, <2>10 DEF CoreInv
  <1> QED BY <1>1, <1>2, <1>4, <1>7, <1>8, Builds DEF Holding

\* metronCreateSGroup deploys its SGroup, or fails.
LEMMA CreateSGroupStep ==
  ASSUME IInv, NEW p \in Procs, CreateSGroup(p)
  PROVE  IInv'
  <1> DEFINE g == proc[p].sg
             w == Home[g]
  <1>1. /\ proc[p].at = "build" /\ proc[p] \in Record /\ proc \in [Procs -> Record]
        /\ g \in SGroups /\ w \in Workers
    BY Homes DEF CreateSGroup, At, IInv, ProcTypes, HasSGroup, Holding
  <1>2. /\ proc' = [proc EXCEPT ![p].at = "poll"]
        /\ UNCHANGED <<rpcVars, coreVars, isReady, announced, raced>>
    BY DEF CreateSGroup, Goto
  <1>3. /\ proc' \in [Procs -> Record] /\ \A q \in Procs \ {p} : proc'[q] = proc[q]
        /\ proc'[p].at = "poll" /\ proc'[p].sg = g
    BY <1>1, <1>2 DEF Record, Labels, Holding
  <1>4. /\ freeSGroups[w] \in Seq(SGroups) /\ IsInjective(freeSGroups[w])
        /\ sgroups[w] \in Seq(SGroups) /\ g \notin Range(freeSGroups[w])
        /\ ~Deployed(g) /\ \A q \in Procs : Holds(q, g) => q = p
    BY <1>1 DEF IInv, ListTypes, OwnInv, Holds, Holding, Free
  <1>5. \/ /\ failures' = failures + 1 /\ sgroups' = sgroups
           /\ freeSGroups' = [freeSGroups EXCEPT ![w] = Append(@, g)]
        \/ /\ sgroups' = [sgroups EXCEPT ![w] = Append(@, g)]
           /\ UNCHANGED <<freeSGroups, failures>>
    BY DEF CreateSGroup
  <1>6. /\ RpcTypes' /\ RpcInv' /\ ProcTypes' /\ SetUpTypes' /\ CoreTypes'
        /\ \A q \in Procs : HasSGroup(q)' <=> HasSGroup(q)
        /\ \A q \in Procs : proc'[q].sg = proc[q].sg
        /\ \A q \in Procs : \A h : Holds(q, h)' <=> Holds(q, h) /\ q # p
        /\ \A h : Calling(h)' <=> Calling(h)
    <2>1. /\ \A q \in Procs : HasSGroup(q)' <=> HasSGroup(q)
          /\ \A q \in Procs : proc'[q].sg = proc[q].sg
          /\ \A q \in Procs : \A h : Holds(q, h)' <=> Holds(q, h) /\ q # p
      BY <1>1, <1>3 DEF HasSGroup, Holds, Holding
    <2>2. \A h : Calling(h)' <=> Calling(h) BY <1>2 DEF Calling, rpcVars
    <2>3. ProcTypes' BY <1>3, <2>1 DEF IInv, ProcTypes
    <2>4. SetUpTypes' /\ CoreTypes' BY <1>2 DEF IInv, SetUpTypes, CoreTypes, coreVars
    <2> QED BY <1>2, <2>1, <2>2, <2>3, <2>4, RpcFrame DEF IInv
  <1>7. \A q \in Procs : /\ proc'[q].at = "add" <=> proc[q].at = "add"
                         /\ proc'[q].at = "build" <=> proc[q].at = "build" /\ q # p
                         /\ proc'[q].at \in Holding => proc'[q] = proc[q]
    BY <1>1, <1>3 DEF Holding
  <1>8. ASSUME \A h \in SGroups : Pinned(h)' => Pinned(h)
        PROVE  CoreInv'
    <2>1. \A q, x \in Procs : proc[q].at = "add" => (SameCore(q, x)' <=> SameCore(q, x))
      BY <1>7 DEF SameCore, Holding
    <2> QED BY <1>2, <1>7, <1>8, <2>1 DEF IInv, CoreInv, coreVars, Holding
  <1>9. CASE /\ failures' = failures + 1 /\ sgroups' = sgroups
             /\ freeSGroups' = [freeSGroups EXCEPT ![w] = Append(@, g)]
    <2> DEFINE s == Append(freeSGroups[w], g)
    <2>1. s \in Seq(SGroups) /\ IsInjective(s) /\ Range(s) = Range(freeSGroups[w]) \cup {g}
      BY <1>1, <1>4, AppendFresh
    <2> HIDE DEF s
    <2>2. /\ freeSGroups'[w] = s
          /\ \A v \in Workers \ {w} : freeSGroups'[v] = freeSGroups[v]
          /\ freeSGroups' \in [Workers -> Seq(SGroups)]
      BY <1>1, <1>9, <2>1 DEF IInv, ListTypes, s
    <2>3. /\ \A h : Deployed(h)' <=> Deployed(h)
          /\ \A h \in SGroups : Free(h)' <=> Free(h) \/ h = g
      BY <1>1, <1>9, <2>1, <2>2, Homes DEF Deployed, Free
    <2>4. ListTypes' BY <1>9, <2>2 DEF IInv, ListTypes
    <2>5. OwnInv'
      <3>1. \A v \in Workers : IsInjective(freeSGroups'[v])
        BY <2>1, <2>2 DEF IInv, OwnInv
      <3>2. \A v \in Workers, h \in SGroups : h \in Range(freeSGroups'[v]) => Home[h] = v
        BY <2>1, <2>2 DEF IInv, OwnInv
      <3>3. \A h \in SGroups : Free(h)' => ~Deployed(h)' /\ \A q \in Procs : ~Holds(q, h)'
        BY <1>4, <1>6, <2>3 DEF IInv, OwnInv
      <3>4. \A h \in SGroups, q \in Procs : Holds(q, h)' =>
               ~Deployed(h)' /\ \A x \in Procs : Holds(x, h)' => x = q
        BY <1>6, <2>3 DEF IInv, OwnInv
      <3> QED BY <3>1, <3>2, <3>3, <3>4 DEF OwnInv
    <2>6. CoreInv'
      <3>1. \A h \in SGroups : Pinned(h)' => Pinned(h)
        BY <1>6, <1>7, <2>3 DEF Pinned, Holding
      <3> QED BY <1>8, <3>1
    <2>7. ReadyInv' BY <1>2, <1>6, <2>3 DEF IInv, ReadyInv
    <2>8. OnceInv'
      <3>1. failures' # 0 BY <1>9 DEF IInv, ListTypes
      <3> QED BY <3>1 DEF OnceInv
    <2> QED BY <1>6, <2>4, <2>5, <2>6, <2>7, <2>8 DEF IInv
  <1>10. CASE /\ sgroups' = [sgroups EXCEPT ![w] = Append(@, g)]
              /\ UNCHANGED <<freeSGroups, failures>>
    <2> DEFINE s == Append(sgroups[w], g)
    <2>1. /\ s \in Seq(SGroups) /\ Len(s) = Len(sgroups[w]) + 1
          /\ \A i \in 1..Len(sgroups[w]) : s[i] = sgroups[w][i]
          /\ s[Len(sgroups[w]) + 1] = g
      BY <1>1, <1>4, AppendProperties
    <2>2. /\ DOMAIN s = 1..(Len(sgroups[w]) + 1) /\ DOMAIN sgroups[w] = 1..Len(sgroups[w])
          /\ Len(sgroups[w]) \in Nat
      BY <1>4, <2>1, LenProperties
    <2> HIDE DEF s
    <2>3. /\ sgroups'[w] = s
          /\ \A v \in Workers \ {w} : sgroups'[v] = sgroups[v]
          /\ sgroups' \in [Workers -> Seq(SGroups)]
      BY <1>1, <1>10, <2>1 DEF IInv, ListTypes, s
    <2>4. \A h \in SGroups : Deployed(h)' <=> Deployed(h) \/ h = g
      <3> SUFFICES ASSUME NEW h \in SGroups PROVE Deployed(h)' <=> Deployed(h) \/ h = g
        OBVIOUS
      <3>1. CASE Home[h] # w BY <1>1, <2>3, <3>1, Homes DEF Deployed
      <3>2. CASE Home[h] = w
        <4>1. Deployed(h)' <=> \E i \in 1..(Len(sgroups[w]) + 1) : s[i] = h
          BY <2>2, <2>3, <3>2 DEF Deployed
        <4>2. Deployed(h) <=> \E i \in 1..Len(sgroups[w]) : sgroups[w][i] = h
          BY <2>2, <3>2 DEF Deployed
        <4>3. Deployed(h) => Deployed(h)'
          <5> SUFFICES ASSUME NEW i \in 1..Len(sgroups[w]), sgroups[w][i] = h
                       PROVE  Deployed(h)'
            BY <4>2
          <5>1. i \in 1..(Len(sgroups[w]) + 1) /\ s[i] = h BY <2>1, <2>2
          <5> QED BY <4>1, <5>1
        <4>4. h = g => Deployed(h)' BY <2>1, <2>2, <4>1
        <4>5. Deployed(h)' => Deployed(h) \/ h = g
          <5> SUFFICES ASSUME NEW i \in 1..(Len(sgroups[w]) + 1), s[i] = h
                       PROVE  Deployed(h) \/ h = g
            BY <4>1
          <5>1. CASE i \in 1..Len(sgroups[w]) BY <2>1, <4>2, <5>1
          <5>2. CASE i = Len(sgroups[w]) + 1 BY <2>1, <5>2
          <5> QED BY <2>2, <5>1, <5>2
        <4> QED BY <4>3, <4>4, <4>5
      <3> QED BY <3>1, <3>2
    <2>5. \A h : Free(h)' <=> Free(h) BY <1>10 DEF Free
    <2>6. ListTypes' BY <1>10, <2>3 DEF IInv, ListTypes
    <2>7. OwnInv'
      <3>1. \A h \in SGroups : Free(h)' => ~Deployed(h)' /\ \A q \in Procs : ~Holds(q, h)'
        BY <1>1, <1>4, <1>6, <2>4, <2>5 DEF IInv, OwnInv, Free
      <3>2. \A h \in SGroups, q \in Procs : Holds(q, h)' =>
               ~Deployed(h)' /\ \A x \in Procs : Holds(x, h)' => x = q
        BY <1>4, <1>6, <2>4 DEF IInv, OwnInv
      <3> QED BY <1>10, <3>1, <3>2 DEF IInv, OwnInv
    <2>8. CoreInv'
      <3>1. \A h \in SGroups : Pinned(h)' => Pinned(h)
        BY <1>1, <1>6, <1>7, <2>4 DEF Pinned, Holding
      <3> QED BY <1>8, <3>1
    <2>9. ReadyInv' BY <1>2, <1>6, <2>4 DEF IInv, ReadyInv
    <2>10. OnceInv' BY <1>2, <1>6, <1>10, <2>5 DEF IInv, OnceInv
    <2> QED BY <1>6, <2>6, <2>7, <2>8, <2>9, <2>10 DEF IInv
  <1> QED BY <1>5, <1>9, <1>10

-----------------------------------------------------------------------------
(* SGroups become ready; the commands. *)

\* A call of a SGroup's set-up or a command, which leaves the processes and the
\* lists alone: what follows for the rest of the invariant.
LEMMA Calls ==
  ASSUME IInv, RpcTypes', RpcInv', isReady' \in [SGroups -> BOOLEAN],
         \A g \in SGroups : isReady[g] => isReady'[g],
         \A g \in SGroups : Calling(g)' => Deployed(g) /\ ~isReady'[g],
         \A g \in SGroups : isReady'[g] => Deployed(g),
         UNCHANGED <<listVars, coreVars, proc, ctlVars>>
  PROVE  IInv'
  <1> USE DEF IInv, listVars, coreVars, ctlVars
  <1>1. /\ \A h : Deployed(h)' <=> Deployed(h)
        /\ \A h : Free(h)' <=> Free(h)
        /\ \A h : Pinned(h)' <=> Pinned(h)
        /\ \A q : HasSGroup(q)' <=> HasSGroup(q)
        /\ \A q, h : Holds(q, h)' <=> Holds(q, h)
        /\ \A q, x : SameCore(q, x)' <=> SameCore(q, x)
    BY DEF Deployed, Free, Pinned, Holds, HasSGroup, SameCore
  <1>2. ProcTypes' BY <1>1 DEF ProcTypes
  <1>3. ListTypes' /\ SetUpTypes' /\ CoreTypes'
    BY DEF ListTypes, SetUpTypes, CoreTypes
  <1>4. OwnInv' BY <1>1 DEF OwnInv
  <1>5. CoreInv' BY <1>1 DEF CoreInv
  <1>6. ReadyInv' BY <1>1 DEF ReadyInv
  <1>7. OnceInv' BY <1>1 DEF OnceInv
  <1> QED BY <1>2, <1>3, <1>4, <1>5, <1>6, <1>7

\* preprocessBeforeReady begins to set up the instance.
LEMMA PreprocessStep ==
  ASSUME IInv, NEW g \in SGroups, Preprocess(g)
  PROVE  IInv'
  <1>1. /\ Deployed(g) /\ ~isReady[g] /\ ~Calling(g)
        /\ UNCHANGED <<listVars, coreVars, proc, ctlVars>>
        /\ isReady \in [SGroups -> BOOLEAN]
    BY DEF Preprocess, Locked, IInv, SetUpTypes
  <1>2. CASE StartRpc(g, g) /\ UNCHANGED isReady
    <2>1. /\ RpcTypes' /\ RpcInv' /\ \A v \in Callers \ {g} : rpc'[v] = rpc[v]
      BY <1>2, Begins DEF IInv, Callers
    <2>2. \A h \in SGroups : Calling(h)' => Deployed(h) /\ ~isReady[h]
      BY <1>1, <2>1 DEF IInv, ReadyInv, Calling, Callers
    <2> QED BY <1>1, <1>2, <2>1, <2>2, Calls DEF IInv, ReadyInv
  <1>3. CASE isReady' = [isReady EXCEPT ![g] = TRUE] /\ UNCHANGED rpcVars
    <2>1. RpcTypes' /\ RpcInv' BY <1>3, RpcFrame DEF IInv
    <2>2. \A h \in SGroups : isReady'[h] = (isReady[h] \/ h = g) BY <1>1, <1>3
    <2>3. isReady' \in [SGroups -> BOOLEAN] BY <1>1, <1>3
    <2>4. \A h \in SGroups : Calling(h)' => Deployed(h) /\ ~isReady'[h]
      BY <1>1, <1>3, <2>2 DEF IInv, ReadyInv, Calling, rpcVars
    <2> QED BY <1>1, <2>1, <2>2, <2>3, <2>4, Calls DEF IInv, ReadyInv
  <1> QED BY <1>2, <1>3 DEF Preprocess

\* A trial of the set-up, or its end: the SGroup is ready.
LEMMA SetUp ==
  ASSUME IInv, NEW g \in SGroups, SetUpStep(g)
  PROVE  IInv'
  <1>1. /\ RpcStep(g) /\ isReady' = [isReady EXCEPT ![g] = (rpc'[g].at = "none")]
        /\ UNCHANGED <<listVars, coreVars, proc, ctlVars>>
        /\ isReady \in [SGroups -> BOOLEAN]
    BY DEF SetUpStep, IInv, SetUpTypes
  <1>2. /\ RpcTypes' /\ RpcInv' /\ Calling(g) /\ \A v \in Callers \ {g} : rpc'[v] = rpc[v]
    BY <1>1, Trials DEF IInv, Callers, Calling
  <1>3. Deployed(g) /\ ~isReady[g] BY <1>2 DEF IInv, ReadyInv
  <1>4. /\ isReady' \in [SGroups -> BOOLEAN]
        /\ isReady'[g] = (rpc'[g].at = "none")
        /\ \A h \in SGroups \ {g} : isReady'[h] = isReady[h]
    BY <1>1
  <1>5. \A h \in SGroups : Calling(h)' => Deployed(h) /\ ~isReady'[h]
    BY <1>2, <1>3, <1>4 DEF IInv, ReadyInv, Calling, Callers
  <1> QED BY <1>1, <1>2, <1>3, <1>4, <1>5, Calls DEF IInv, ReadyInv

\* "cycle" and "batch" beside it.
LEMMA Commands ==
  ASSUME IInv, CommandStep \/ \E g \in SGroups : StartCommand(g)
  PROVE  IInv'
  <1>1. /\ UNCHANGED <<listVars, coreVars, isReady, proc, ctlVars>>
        /\ isReady \in [SGroups -> BOOLEAN]
    BY DEF CommandStep, StartCommand, IInv, SetUpTypes
  <1>2. /\ RpcTypes' /\ RpcInv' /\ \A v \in Callers \ {Console} : rpc'[v] = rpc[v]
    <2>1. Console \in Callers BY DEF Callers
    <2>2. CASE CommandStep BY <2>1, <2>2, Trials DEF CommandStep, IInv
    <2>3. CASE \E g \in SGroups : StartCommand(g)
      BY <2>1, <2>3, Begins DEF StartCommand, IInv
    <2> QED BY <2>2, <2>3
  <1>3. \A h \in SGroups : h \in Callers \ {Console}
    BY RpcAssumption DEF RpcAssumption, Callers
  <1>4. \A h \in SGroups : Calling(h)' => Deployed(h) /\ ~isReady[h]
    BY <1>2, <1>3 DEF IInv, ReadyInv, Calling
  <1> QED BY <1>1, <1>2, <1>4, Calls DEF IInv, ReadyInv

-----------------------------------------------------------------------------
(* The theorems. *)

\* The parts of IInv hold together after every step.
LEMMA Steps ==
  ASSUME IInv, [Next]_vars
  PROVE  IInv'
  <1>1. CASE UNCHANGED vars
    BY <1>1, RpcFrame, Calls DEF vars, IInv, SetUpTypes, ReadyInv, Calling, rpcVars
  <1>2. ASSUME NEW p \in Procs, Scale(p) PROVE IInv'
    BY <1>2, LookAtStep, ChooseStep, FindCoreStep, AddToCoreStep, CreateSGroupStep, PollEnds
    DEF Scale
  <1>3. ASSUME NEW p \in Procs, NEW w \in Workers, UpdatePort(p, w) PROVE IInv'
    BY <1>3, UpdatePortStep
  <1>4. ASSUME NEW g \in SGroups, Preprocess(g) \/ SetUpStep(g) \/ StartCommand(g)
        PROVE  IInv'
    BY <1>4, PreprocessStep, SetUp, Commands
  <1>5. CASE CommandStep BY <1>5, Commands
  <1> QED BY <1>1, <1>2, <1>3, <1>4, <1>5 DEF Next

\* The invariant holds in every state.
LEMMA Invariance == Spec => []IInv
  <1>1. Init => IInv BY Starts
  <1>2. IInv /\ [Next]_vars => IInv' BY Steps
  <1> QED BY <1>1, <1>2, PTL DEF Spec

\* The set-up of an instance gives up only after as many failures as the code has
\* trials (kMaxRpcConnTrials, kMaxRpcCallTrials), unless a command used it too.
THEOREM EnoughTrials == Spec => []RetriesEnough
  <1>1. IInv => RetriesEnough BY DEF IInv, RpcInv
  <1> QED BY <1>1, Invariance, PTL

\* Two deployed SGroups of a worker have the same core only if two handlers found
\* it idle at once: FindCore and AddToCore are not one step in getIdleCore's caller.
THEOREM CoresApart == Spec => []CoreExclusive
  <1>1. IInv => CoreExclusive BY DEF IInv, CoreInv, CoreExclusive, Pinned
  <1> QED BY <1>1, Invariance, PTL

\* The switch controller hears of a SGroup that is ready, and once, unless a build
\* failed and left two processes polling the same SGroup.
THEOREM ToldOnce == Spec => []AnnouncedOnce
  <1>1. IInv => AnnouncedOnce BY DEF IInv, ReadyInv, OnceInv, AnnouncedOnce
  <1> QED BY <1>1, Invariance, PTL

-----------------------------------------------------------------------------
(* How long a set-up holds sg.mutex. *)

\* Sums of non-negative numbers, as recursive functions compute them.
LEMMA LoopOfNumbers ==
  ASSUME NEW init \in Nat, NEW step \in [Nat -> [Nat -> Nat]]
  PROVE  \E g \in [Nat -> Nat] :
            g = [n \in Nat |-> IF n = 0 THEN init ELSE step[n][g[n - 1]]]
  <1>1. PICK g : IsLoop(g, Nat, init, step) BY LoopExists, Zenon
  <1>2. g \in [Nat -> Nat] /\ g[0] = init /\ \A n \in Nat : g[n + 1] = step[n + 1][g[n]]
    BY <1>1 DEF IsLoop
  <1>3. ASSUME NEW n \in Nat
        PROVE  g[n] = IF n = 0 THEN init ELSE step[n][g[n - 1]]
    <2>1. CASE n = 0 BY <1>2, <2>1
    <2>2. CASE n # 0
      <3>1. n - 1 \in Nat /\ n - 1 + 1 = n BY <2>2
      <3> QED BY <1>2, <2>2, <3>1
    <2> QED BY <2>1, <2>2
  <1>4. g = [n \in Nat |-> IF n = 0 THEN init ELSE step[n][g[n - 1]]]
    BY <1>2, <1>3
  <1> QED BY <1>2, <1>4

\* The delay of an attempt, doubled from one to the next up to its maximum.
LEMMA DelayOfAttempt ==
  \A n \in Nat : ForAttempt(n) \in Nat
  <1> DEFINE d[n \in Nat] == IF n = 0 THEN MinDelay ELSE 2 * d[n - 1]
  <1>1. PICK step \in [Nat -> [Nat -> Nat]] : \A n, x \in Nat : step[n][x] = 2 * x
    <2>1. [n \in Nat |-> [x \in Nat |-> 2 * x]] \in [Nat -> [Nat -> Nat]] OBVIOUS
    <2> QED BY <2>1
  <1>2. PICK g \in [Nat -> Nat] :
           g = [n \in Nat |-> IF n = 0 THEN MinDelay ELSE step[n][g[n - 1]]]
    <2>1. MinDelay \in Nat BY DEF MinDelay
    <2> QED BY <2>1, LoopOfNumbers
  <1>3. g = [n \in Nat |-> IF n = 0 THEN MinDelay ELSE 2 * g[n - 1]]
    <2>1. ASSUME NEW n \in Nat PROVE g[n] = IF n = 0 THEN MinDelay ELSE 2 * g[n - 1]
      <3>1. CASE n = 0 BY <1>2, <3>1
      <3>2. CASE n # 0
        <4>1. n - 1 \in Nat BY <3>2
        <4> QED BY <1>1, <1>2, <3>2, <4>1
      <3> QED BY <3>1, <3>2
    <2> QED BY <1>2, <2>1
  <1>4. \E h : h = [n \in Nat |-> IF n = 0 THEN MinDelay ELSE 2 * h[n - 1]] BY <1>3
  <1>5. d = [n \in Nat |-> IF n = 0 THEN MinDelay ELSE 2 * d[n - 1]] BY <1>4
  <1>6. Grown = d BY DEF Grown
  <1> HIDE DEF d
  <1>7. d[0] = MinDelay /\ \A n \in Nat : d[n + 1] = 2 * d[n]
    <2>1. ASSUME NEW n \in Nat PROVE d[n + 1] = 2 * d[n]
      <3>1. PICK m \in Nat : m = n + 1 OBVIOUS
      <3>2. m # 0 /\ m - 1 = n BY <3>1
      <3>3. d[m] = 2 * d[m - 1] BY <1>5, <3>2
      <3> QED BY <3>1, <3>2, <3>3
    <2> QED BY <1>5, <2>1
  <1>8. \A n \in Nat : d[n] \in Nat
    <2> DEFINE P == {n \in Nat : d[n] \in Nat}
    <2>1. 0 \in P BY <1>7 DEF MinDelay
    <2>2. ASSUME NEW n \in Nat, n \in P PROVE n + 1 \in P
      <3>1. PICK x \in Nat : x = d[n] BY <2>2
      <3>2. PICK m \in Nat : m = n + 1 OBVIOUS
      <3>3. d[m] = 2 * x BY <1>7, <3>1, <3>2
      <3>4. 2 * x \in Nat OBVIOUS
      <3>5. d[m] \in Nat BY <3>3, <3>4
      <3> QED BY <3>2, <3>5
    <2> HIDE DEF P
    <2>3. \A n \in Nat : n \in P BY <2>1, <2>2, Induction
    <2> QED BY <2>3 DEF P
  <1> QED BY <1>6, <1>8 DEF ForAttempt, MaxDelay

\* Delays adds up the delays of the attempts.
LEMMA DelaySums ==
  /\ Delays(0) = 0
  /\ \A n \in Nat : /\ ForAttempt(n) \in Nat /\ Delays(n) \in Nat
                    /\ Delays(n + 1) = Delays(n) + ForAttempt(n)
  <1> DEFINE sum[k \in Nat] == IF k = 0 THEN 0 ELSE sum[k - 1] + ForAttempt(k - 1)
  <1>1. PICK step \in [Nat -> [Nat -> Nat]] :
           \A n, x \in Nat : n # 0 => step[n][x] = x + ForAttempt(n - 1)
    <2>1. \A n \in Nat : n # 0 => ForAttempt(n - 1) \in Nat
      <3>1. \A n \in Nat : n # 0 => n - 1 \in Nat OBVIOUS
      <3> QED BY <3>1, DelayOfAttempt
    <2>2. [n \in Nat |-> [x \in Nat |-> IF n = 0 THEN x ELSE x + ForAttempt(n - 1)]]
             \in [Nat -> [Nat -> Nat]]
      BY <2>1
    <2> QED BY <2>2
  <1>2. PICK g \in [Nat -> Nat] : g = [n \in Nat |-> IF n = 0 THEN 0 ELSE step[n][g[n - 1]]]
    BY LoopOfNumbers
  <1>3. g = [k \in Nat |-> IF k = 0 THEN 0 ELSE g[k - 1] + ForAttempt(k - 1)]
    <2>1. ASSUME NEW k \in Nat PROVE g[k] = IF k = 0 THEN 0 ELSE g[k - 1] + ForAttempt(k - 1)
      <3>1. CASE k = 0 BY <1>2, <3>1
      <3>2. CASE k # 0
        <4>1. k - 1 \in Nat /\ g[k - 1] \in Nat BY <3>2
        <4>2. g[k] = step[k][g[k - 1]] BY <1>2, <3>2
        <4>3. step[k][g[k - 1]] = g[k - 1] + ForAttempt(k - 1) BY <1>1, <3>2, <4>1
        <4> QED BY <3>2, <4>2, <4>3
      <3> QED BY <3>1, <3>2
    <2>2. DOMAIN g = Nat OBVIOUS
    <2>3. g = [k \in Nat |-> g[k]] BY <2>2
    <2> QED BY <2>1, <2>3
  <1>4. \E h : h = [k \in Nat |-> IF k = 0 THEN 0 ELSE h[k - 1] + ForAttempt(k - 1)]
    BY <1>3
  <1>5. sum = [k \in Nat |-> IF k = 0 THEN 0 ELSE sum[k - 1] + ForAttempt(k - 1)] BY <1>4
  <1>6. \A n \in Nat : Delays(n) = sum[n] BY DEF Delays
  <1> HIDE DEF sum
  <1>7. sum[0] = 0 /\ \A n \in Nat : sum[n + 1] = sum[n] + ForAttempt(n)
    <2>1. ASSUME NEW n \in Nat PROVE sum[n + 1] = sum[n] + ForAttempt(n)
      <3>1. PICK m \in Nat : m = n + 1 OBVIOUS
      <3>2. m # 0 /\ m - 1 = n BY <3>1
      <3>3. sum[m] = sum[m - 1] + ForAttempt(m - 1) BY <1>5, <3>2
      <3> QED BY <3>1, <3>2, <3>3
    <2>2. sum[0] = 0 BY <1>5
    <2> QED BY <2>1, <2>2
  <1>8. \A n \in Nat : sum[n] \in Nat
    <2> DEFINE P == {n \in Nat : sum[n] \in Nat}
    <2>1. 0 \in P BY <1>7
    <2>2. ASSUME NEW n \in Nat, n \in P PROVE n + 1 \in P
      <3>1. PICK x \in Nat, y \in Nat : x = sum[n] /\ y = ForAttempt(n)
        BY <2>2, DelayOfAttempt
      <3>2. PICK m \in Nat : m = n + 1 OBVIOUS
      <3>3. sum[m] = x + y BY <1>7, <3>1, <3>2
      <3>4. x + y \in Nat OBVIOUS
      <3>5. sum[m] \in Nat BY <3>3, <3>4
      <3> QED BY <3>2, <3>5
    <2> HIDE DEF P
    <2>3. \A n \in Nat : n \in P BY <2>1, <2>2, Induction
    <2> QED BY <2>3 DEF P
  <1>9. ASSUME NEW n \in Nat
        PROVE  /\ ForAttempt(n) \in Nat /\ Delays(n) \in Nat
               /\ Delays(n + 1) = Delays(n) + ForAttempt(n)
    <2>1. Delays(n) = sum[n] /\ Delays(n + 1) = sum[n + 1]
      <3>1. n + 1 \in Nat OBVIOUS
      <3> QED BY <1>6, <3>1
    <2> QED BY <1>7, <1>8, <2>1, DelayOfAttempt
  <1>10. Delays(0) = 0 BY <1>6, <1>7
  <1> QED BY <1>9, <1>10

\* More attempts take no less time.
LEMMA DelaysGrow ==
  ASSUME NEW m \in Nat, NEW n \in Nat, m <= n
  PROVE  Delays(m) <= Delays(n)
  <1> DEFINE P == {k \in Nat : Delays(m) <= Delays(m + k)}
  <1>1. 0 \in P
    <2>1. m + 0 = m OBVIOUS
    <2> QED BY <2>1, DelaySums
  <1>2. ASSUME NEW k \in Nat, k \in P PROVE k + 1 \in P
    <2>1. PICK d \in Nat : d = m + k OBVIOUS
    <2>2. m + (k + 1) = d + 1 BY <2>1
    <2>3. /\ Delays(d + 1) = Delays(d) + ForAttempt(d) /\ ForAttempt(d) \in Nat
          /\ Delays(d) \in Nat /\ Delays(m) \in Nat
      BY DelaySums
    <2>4. Delays(m) <= Delays(d) BY <1>2, <2>1
    <2>5. Delays(m) <= Delays(d + 1) BY <2>3, <2>4
    <2> QED BY <2>2, <2>5
  <1> HIDE DEF P
  <1>3. \A k \in Nat : k \in P BY <1>1, <1>2, Induction
  <1>4. PICK k \in Nat : m + k = n
    <2>1. n - m \in Nat /\ m + (n - m) = n OBVIOUS
    <2> QED BY <2>1
  <1>5. Delays(m) <= Delays(m + k) BY <1>3 DEF P
  <1> QED BY <1>4, <1>5

\* The longest way from the connects to the calls.
Connects == MaxRpcConnTrials * ConnTimeout + Delays(MaxRpcConnTrials - 1)

\* No number of trials takes longer than LongestHold.
LEMMA LongestHolds ==
  /\ LongestHold \in Nat /\ Connects \in Nat
  /\ \A n \in 0..MaxRpcConnTrials : n * ConnTimeout + Delays(n) <= LongestHold
  /\ \A n \in 0..(MaxRpcConnTrials - 1) :
        (n + 1) * ConnTimeout + Delays(n) <= Connects
  /\ \A n \in 0..MaxRpcCallTrials : Connects + n * ReqTimeout + Delays(n) <= LongestHold
  <1> DEFINE m == MaxRpcConnTrials
             k == MaxRpcCallTrials
             connects == m * ConnTimeout + Delays(m)
             calls == m * ConnTimeout + Delays(m - 1) + k * ReqTimeout + Delays(k)
  <1> USE DEF ConnTimeout, ReqTimeout
  <1>1. m \in Nat \ {0} /\ k \in Nat \ {0} /\ m - 1 \in Nat
    BY RpcAssumption DEF RpcAssumption
  <1>2. Delays(m) \in Nat /\ Delays(m - 1) \in Nat /\ Delays(k) \in Nat BY <1>1, DelaySums
  <1>3. /\ LongestHold \in Nat /\ connects <= LongestHold /\ calls <= LongestHold
        /\ Connects \in Nat /\ calls = Connects + k * ReqTimeout + Delays(k)
    BY <1>1, <1>2 DEF LongestHold, Connects
  <1>4. ASSUME NEW n \in 0..m PROVE n * ConnTimeout + Delays(n) <= LongestHold
    <2>1. n \in Nat /\ n <= m BY <1>1
    <2>2. Delays(n) \in Nat /\ Delays(n) <= Delays(m) BY <1>1, <2>1, DelaySums, DelaysGrow
    <2>3. n * ConnTimeout + Delays(n) <= connects BY <1>1, <1>2, <2>1, <2>2
    <2> HIDE DEF m, connects
    <2> QED BY <1>1, <1>2, <1>3, <2>1, <2>2, <2>3 DEF connects
  <1>5. ASSUME NEW n \in 0..(m - 1) PROVE (n + 1) * ConnTimeout + Delays(n) <= Connects
    <2>1. n \in Nat /\ n <= m - 1 BY <1>1
    <2>2. Delays(n) \in Nat /\ Delays(n) <= Delays(m - 1) BY <1>1, <2>1, DelaySums, DelaysGrow
    <2> QED BY <1>1, <1>2, <2>1, <2>2 DEF Connects
  <1>6. ASSUME NEW n \in 0..k PROVE Connects + n * ReqTimeout + Delays(n) <= LongestHold
    <2>1. n \in Nat /\ n <= k BY <1>1
    <2>2. Delays(n) \in Nat /\ Delays(n) <= Delays(k) BY <1>1, <2>1, DelaySums, DelaysGrow
    <2>3. Connects + n * ReqTimeout + Delays(n) <= calls BY <1>1, <1>2, <1>3, <2>1, <2>2
    <2> HIDE DEF k, m, calls
    <2> QED BY <1>1, <1>2, <1>3, <2>1, <2>2, <2>3 DEF calls
  <1> QED BY <1>3, <1>4, <1>5, <1>6

\* Types and bounds of the calls.
RpcBounds ==
    /\ attempt \in [SGroups -> Nat] /\ waited \in [SGroups -> Nat]
    /\ rpcFaults <= MaxRpcFaults /\ commands \in 0..MaxCommands
    /\ gaveUp \subseteq SGroups \X {"connect", "call"} /\ shared \subseteq SGroups
    /\ \A u \in Callers : /\ rpc[u].try <= MaxRpcConnTrials + MaxRpcCallTrials
                          /\ rpc[u].at = "connect" => rpc[u].try < MaxRpcConnTrials
                          /\ rpc[u].at = "call" => rpc[u].try < MaxRpcCallTrials

\* While no command uses its instance too, a SGroup has waited as long as its
\* trials took: the counter of the back-off is the number of the trial.
Held(g) ==
    /\ rpc[g].at = "none" => waited[g] = 0
    /\ rpc[g].at = "connect" =>
          /\ attempt[g] = rpc[g].try
          /\ waited[g] = rpc[g].try * ConnTimeout + Delays(rpc[g].try)
    /\ rpc[g].at = "call" =>
          /\ attempt[g] = rpc[g].try
          /\ waited[g] <= Connects + rpc[g].try * ReqTimeout + Delays(rpc[g].try)
    /\ waited[g] <= LongestHold
HoldInv == \A g \in SGroups \ shared : Held(g)

\* A trial of a set-up takes its time.
LEMMA TrialTakes ==
  ASSUME RpcTypes, RpcBounds, NEW g \in SGroups, rpc[g].ins = g, Held(g), RpcStep(g)
  PROVE  Held(g)'
  <1> DEFINE t == rpc[g].try
  <1> USE RpcAssumption DEF RpcAssumption
  <1>1. /\ g \in Callers /\ g # Console /\ t \in Nat
        /\ rpc[g].at \in {"none", "connect", "call", "done"}
        /\ waited[g] \in Nat /\ attempt[g] \in Nat
        /\ attempt \in [SGroups -> Nat] /\ waited \in [SGroups -> Nat]
        /\ MaxRpcConnTrials \in Nat /\ MaxRpcCallTrials \in Nat
    BY DEF RpcTypes, RpcBounds, Callers
  <1>2. CASE EndRpc(g)
    <2>1. rpc'[g] = NoRpc /\ waited'[g] = 0 BY <1>1, <1>2 DEF EndRpc, RpcTypes
    <2> QED BY <2>1, LongestHolds DEF Held, NoRpc
  <1>3. ASSUME FailTrial(g, MaxRpcConnTrials, ConnTimeout), rpc[g].at = "connect"
        PROVE  Held(g)'
    <2>1. /\ attempt'[g] = attempt[g] + 1
          /\ waited'[g] = waited[g] + (ConnTimeout + ForAttempt(attempt[g]))
      BY <1>1, <1>3 DEF FailTrial, Waits
    <2>2. /\ attempt[g] = t /\ waited[g] = t * ConnTimeout + Delays(t)
          /\ t < MaxRpcConnTrials
      BY <1>1, <1>3 DEF Held, RpcBounds
    <2>3. waited'[g] = (t + 1) * ConnTimeout + Delays(t + 1)
      BY <1>1, <2>1, <2>2, DelaySums DEF ConnTimeout
    <2>4. t + 1 \in 0..MaxRpcConnTrials BY <1>1, <2>2
    <2>5. waited'[g] <= LongestHold BY <2>3, <2>4, LongestHolds
    <2>6. \/ rpc'[g].at = "done"
          \/ rpc'[g].at = "connect" /\ rpc'[g].try = t + 1
      BY <1>1, <1>3 DEF FailTrial, EndTrials, RpcTypes
    <2> QED BY <2>1, <2>2, <2>3, <2>5, <2>6 DEF Held
  <1>4. ASSUME FailTrial(g, MaxRpcCallTrials, ReqTimeout), rpc[g].at = "call"
        PROVE  Held(g)'
    <2>1. /\ attempt'[g] = attempt[g] + 1
          /\ waited'[g] = waited[g] + (ReqTimeout + ForAttempt(attempt[g]))
      BY <1>1, <1>4 DEF FailTrial, Waits
    <2>2. /\ attempt[g] = t /\ waited[g] <= Connects + t * ReqTimeout + Delays(t)
          /\ t < MaxRpcCallTrials
      BY <1>1, <1>4 DEF Held, RpcBounds
    <2>3. waited'[g] <= Connects + (t + 1) * ReqTimeout + Delays(t + 1)
      BY <1>1, <2>1, <2>2, DelaySums, LongestHolds DEF ReqTimeout
    <2>4. t + 1 \in 0..MaxRpcCallTrials BY <1>1, <2>2
    <2>5. waited'[g] <= LongestHold
      <3>1. Connects + (t + 1) * ReqTimeout + Delays(t + 1) <= LongestHold
        BY <2>4, LongestHolds
      <3>2. /\ waited'[g] \in Nat /\ LongestHold \in Nat /\ Connects \in Nat
            /\ (t + 1) * ReqTimeout \in Nat /\ Delays(t + 1) \in Nat
        <4>1. ForAttempt(attempt[g]) \in Nat /\ t + 1 \in Nat BY <1>1, DelaySums
        <4>2. Delays(t + 1) \in Nat BY <4>1, DelaySums
        <4> QED BY <1>1, <2>1, <4>1, <4>2, LongestHolds DEF ReqTimeout
      <3> QED BY <2>3, <3>1, <3>2
    <2>6. \/ rpc'[g].at = "done"
          \/ rpc'[g].at = "call" /\ rpc'[g].try = t + 1
      BY <1>1, <1>4 DEF FailTrial, EndTrials, RpcTypes
    <2> QED BY <2>1, <2>2, <2>3, <2>5, <2>6 DEF Held
  <1>5. CASE TryConnect(g)
    <2>1. rpc[g].at = "connect" BY <1>5 DEF TryConnect
    <2>2. CASE FailTrial(g, MaxRpcConnTrials, ConnTimeout) BY <1>3, <2>1, <2>2
    <2>3. CASE /\ Reset(g) /\ Waits(g, ConnTimeout)
               /\ rpc' = [rpc EXCEPT ![g].at = "call", ![g].try = 0]
      <3>1. /\ rpc'[g].at = "call" /\ rpc'[g].try = 0 /\ attempt'[g] = 0
            /\ waited'[g] = waited[g] + ConnTimeout
        BY <1>1, <2>3 DEF Reset, Waits, RpcTypes
      <3>2. waited[g] = t * ConnTimeout + Delays(t) /\ t \in 0..(MaxRpcConnTrials - 1)
        BY <1>1, <2>1 DEF Held, RpcBounds
      <3>3. waited'[g] <= Connects
        <4>1. (t + 1) * ConnTimeout + Delays(t) <= Connects BY <3>2, LongestHolds
        <4> QED BY <1>1, <3>1, <3>2, <4>1, DelaySums DEF ConnTimeout
      <3>4. 0 * ReqTimeout + Delays(0) = 0 /\ Connects <= LongestHold
        <4>1. 0 \in 0..MaxRpcCallTrials BY <1>1
        <4>2. Connects + 0 * ReqTimeout + Delays(0) <= LongestHold BY <4>1, LongestHolds
        <4>3. Delays(0) = 0 /\ Connects \in Nat BY DelaySums, LongestHolds
        <4> QED BY <4>2, <4>3 DEF ReqTimeout
      <3>5. waited'[g] \in Nat /\ LongestHold \in Nat /\ Connects \in Nat
        BY <1>1, <3>1, LongestHolds DEF ConnTimeout
      <3>6. waited'[g] <= Connects + 0 * ReqTimeout + Delays(0)
        BY <3>3, <3>4, <3>5, DelaySums DEF ReqTimeout
      <3>7. waited'[g] <= LongestHold BY <3>3, <3>4, <3>5
      <3> QED BY <3>1, <3>6, <3>7 DEF Held
    <2> QED BY <1>5, <2>2, <2>3 DEF TryConnect
  <1>6. CASE TryCall(g)
    <2>1. rpc[g].at = "call" BY <1>6 DEF TryCall
    <2>2. CASE FailTrial(g, MaxRpcCallTrials, ReqTimeout) BY <1>4, <2>1, <2>2
    <2>3. CASE EndTrials(g) /\ Waits(g, ReqTimeout)
      <3>1. rpc'[g].at = "done" /\ waited'[g] = waited[g] + ReqTimeout
        BY <1>1, <2>3 DEF EndTrials, Waits, RpcTypes
      <3>2. /\ waited[g] <= Connects + t * ReqTimeout + Delays(t)
            /\ t + 1 \in 0..MaxRpcCallTrials
        BY <1>1, <2>1 DEF Held, RpcBounds
      <3>3. Connects + (t + 1) * ReqTimeout + Delays(t + 1) <= LongestHold
        BY <3>2, LongestHolds
      <3>4. /\ LongestHold \in Nat /\ Connects \in Nat /\ Delays(t) \in Nat
            /\ ForAttempt(t) \in Nat /\ Delays(t + 1) = Delays(t) + ForAttempt(t)
        BY <1>1, DelaySums, LongestHolds
      <3>5. waited'[g] <= LongestHold BY <1>1, <3>1, <3>2, <3>3, <3>4 DEF ReqTimeout
      <3> QED BY <3>1, <3>5 DEF Held
    <2> QED BY <1>6, <2>2, <2>3 DEF TryCall
  <1> QED BY <1>2, <1>5, <1>6 DEF RpcStep

\* Trials stay within the bounds of the code.
LEMMA TrialBounds ==
  ASSUME RpcTypes, RpcBounds, NEW u \in Callers, rpc[u].ins \in SGroups, RpcStep(u)
  PROVE  RpcBounds' /\ shared' = shared
  <1> DEFINE g == rpc[u].ins
             t == rpc[u].try
  <1> USE RpcAssumption DEF RpcAssumption
  <1>1. /\ t \in Nat /\ attempt \in [SGroups -> Nat] /\ waited \in [SGroups -> Nat]
        /\ attempt[g] \in Nat
        /\ u # Console => waited[u] \in Nat /\ u \in SGroups
        /\ rpcFaults \in Nat /\ rpcFaults <= MaxRpcFaults
        /\ {MaxRpcConnTrials, MaxRpcCallTrials} \subseteq Nat \ {0}
        /\ MaxRpcFaults \in Nat
    BY DEF RpcTypes, RpcBounds, Callers
  <1>2. ASSUME attempt' \in [SGroups -> Nat], waited' \in [SGroups -> Nat],
               rpcFaults' <= MaxRpcFaults,
               gaveUp' \subseteq SGroups \X {"connect", "call"},
               rpc'[u].try <= MaxRpcConnTrials + MaxRpcCallTrials,
               rpc'[u].at = "connect" => rpc'[u].try < MaxRpcConnTrials,
               rpc'[u].at = "call" => rpc'[u].try < MaxRpcCallTrials,
               \A v \in Callers \ {u} : rpc'[v] = rpc[v]
        PROVE  RpcBounds' /\ shared' = shared
    <2>1. UNCHANGED <<commands, shared>> BY DEF RpcStep, TryConnect, TryCall, EndRpc
    <2> QED BY <1>2, <2>1 DEF RpcBounds
  <1>3. ASSUME NEW n \in Nat, Waits(u, n) PROVE waited' \in [SGroups -> Nat]
    <2>1. CASE u = Console BY <1>1, <1>3, <2>1 DEF Waits
    <2>2. CASE u # Console
      <3>1. waited' = [waited EXCEPT ![u] = waited[u] + n] BY <1>3, <2>2 DEF Waits
      <3>2. waited[u] + n \in Nat BY <1>1, <2>2
      <3> QED BY <1>1, <3>1, <3>2
    <2> QED BY <2>1, <2>2
  <1>4. \A v \in Callers \ {u} : rpc'[v] = rpc[v]
    BY DEF RpcTypes, RpcStep, TryConnect, TryCall, EndRpc, FailTrial, EndTrials
  <1>5. rpcFaults' <= MaxRpcFaults
    BY <1>1 DEF RpcStep, TryConnect, TryCall, EndRpc, Fault
  <1>6. gaveUp \subseteq SGroups \X {"connect", "call"} BY DEF RpcBounds
  <1>7. rpc[u].at \in {"none", "connect", "call", "done"} BY DEF RpcTypes
  <1>8. ASSUME NEW max \in {MaxRpcConnTrials, MaxRpcCallTrials}, NEW time \in Nat,
               FailTrial(u, max, time),
               \/ rpc[u].at = "connect" /\ max = MaxRpcConnTrials
               \/ rpc[u].at = "call" /\ max = MaxRpcCallTrials
        PROVE  RpcBounds' /\ shared' = shared
    <2>1. attempt' \in [SGroups -> Nat]
      <3>1. attempt' = [attempt EXCEPT ![g] = attempt[g] + 1] BY <1>8 DEF FailTrial
      <3> QED BY <1>1, <3>1
    <2>2. waited' \in [SGroups -> Nat]
      <3>1. time + ForAttempt(attempt[g]) \in Nat BY <1>1, DelayOfAttempt
      <3>2. Waits(u, time + ForAttempt(attempt[g])) BY <1>8 DEF FailTrial
      <3> QED BY <1>3, <3>1, <3>2
    <2>3. gaveUp' \subseteq SGroups \X {"connect", "call"}
      BY <1>6, <1>8 DEF FailTrial
    <2>4. /\ rpc'[u].try <= MaxRpcConnTrials + MaxRpcCallTrials
          /\ rpc'[u].at = "connect" => rpc'[u].try < MaxRpcConnTrials
          /\ rpc'[u].at = "call" => rpc'[u].try < MaxRpcCallTrials
      <3>1. t <= MaxRpcConnTrials + MaxRpcCallTrials BY DEF RpcBounds
      <3>2. CASE LastTrial(t, max)
        <4>1. rpc'[u].at = "done" /\ rpc'[u].try = t
          BY <1>8, <3>2 DEF FailTrial, EndTrials, RpcTypes
        <4> QED BY <3>1, <4>1
      <3>3. CASE ~LastTrial(t, max)
        <4>1. rpc'[u].at = rpc[u].at /\ rpc'[u].try = t + 1
          BY <1>8, <3>3 DEF FailTrial, RpcTypes
        <4>2. t + 1 < max BY <1>1, <3>3 DEF LastTrial
        <4> QED BY <1>1, <1>8, <4>1, <4>2
      <3> QED BY <3>2, <3>3
    <2> QED BY <1>2, <1>4, <1>5, <2>1, <2>2, <2>3, <2>4
  <1>9. CASE TryConnect(u)
    <2>1. rpc[u].at = "connect" BY <1>9 DEF TryConnect
    <2>2. CASE FailTrial(u, MaxRpcConnTrials, ConnTimeout)
      <3>1. ConnTimeout \in Nat BY DEF ConnTimeout
      <3> QED BY <1>8, <2>1, <2>2, <3>1
    <2>3. CASE /\ Reset(g) /\ Waits(u, ConnTimeout) /\ UNCHANGED <<rpcFaults, gaveUp>>
               /\ rpc' = [rpc EXCEPT ![u].at = "call", ![u].try = 0]
      <3>1. ConnTimeout \in Nat BY DEF ConnTimeout
      <3>2. waited' \in [SGroups -> Nat] BY <1>3, <2>3, <3>1
      <3>3. attempt' \in [SGroups -> Nat] BY <1>1, <2>3 DEF Reset
      <3>4. rpc'[u].at = "call" /\ rpc'[u].try = 0 BY <2>3 DEF RpcTypes
      <3>5. 0 <= MaxRpcConnTrials + MaxRpcCallTrials /\ 0 < MaxRpcCallTrials BY <1>1
      <3>6. /\ rpc'[u].try <= MaxRpcConnTrials + MaxRpcCallTrials
            /\ rpc'[u].at # "connect" /\ rpc'[u].try < MaxRpcCallTrials
        BY <3>4, <3>5
      <3>7. gaveUp' = gaveUp BY <2>3
      <3> QED BY <1>2, <1>4, <1>5, <1>6, <3>2, <3>3, <3>6, <3>7
    <2> QED BY <1>9, <2>2, <2>3 DEF TryConnect
  <1>10. CASE TryCall(u)
    <2>1. rpc[u].at = "call" BY <1>10 DEF TryCall
    <2>2. CASE FailTrial(u, MaxRpcCallTrials, ReqTimeout)
      <3>1. ReqTimeout \in Nat BY DEF ReqTimeout
      <3> QED BY <1>8, <2>1, <2>2, <3>1
    <2>3. CASE EndTrials(u) /\ Waits(u, ReqTimeout) /\ UNCHANGED <<attempt, gaveUp>>
      <3>1. ReqTimeout \in Nat BY DEF ReqTimeout
      <3>2. waited' \in [SGroups -> Nat] BY <1>3, <2>3, <3>1
      <3>3. rpc'[u].at = "done" /\ rpc'[u].try = t BY <2>3 DEF EndTrials, RpcTypes
      <3>4. t <= MaxRpcConnTrials + MaxRpcCallTrials BY DEF RpcBounds
      <3>5. attempt' \in [SGroups -> Nat] /\ gaveUp' = gaveUp BY <1>1, <2>3
      <3>6. /\ rpc'[u].at # "connect" /\ rpc'[u].at # "call"
            /\ rpc'[u].try <= MaxRpcConnTrials + MaxRpcCallTrials
        BY <3>3, <3>4
      <3> QED BY <1>2, <1>4, <1>5, <1>6, <3>2, <3>5, <3>6
    <2> QED BY <1>10, <2>2, <2>3 DEF TryCall
  <1>11. CASE EndRpc(u)
    <2>1. rpc'[u] = NoRpc /\ UNCHANGED <<attempt, gaveUp>>
      BY <1>11 DEF EndRpc, RpcTypes
    <2>2. waited' \in [SGroups -> Nat] BY <1>1, <1>11 DEF EndRpc
    <2> QED BY <1>1, <1>2, <1>4, <1>5, <1>6, <2>1, <2>2 DEF NoRpc
  <1> QED BY <1>9, <1>10, <1>11 DEF RpcStep

\* A trial of a user: those of others go on, unless they share the instance.
LEMMA HoldStep ==
  ASSUME RpcTypes, RpcInv, RpcBounds, HoldInv, NEW u \in Callers, RpcStep(u)
  PROVE  RpcBounds' /\ HoldInv'
  <1> DEFINE g == rpc[u].ins
  <1>1. rpc[u].at # "none" /\ g \in SGroups /\ (u # Console => g = u)
    BY DEF RpcStep, TryConnect, TryCall, EndRpc, RpcInv
  <1>2. RpcBounds' /\ shared' = shared BY <1>1, TrialBounds
  <1>3. /\ \A v \in Callers \ {u} : rpc'[v] = rpc[v]
        /\ \A h \in SGroups \ {g} : attempt'[h] = attempt[h]
        /\ \A h \in SGroups \ {u} : waited'[h] = waited[h]
    <2>1. \A v \in Callers \ {u} : rpc'[v] = rpc[v] BY Trials
    <2>2. \A h \in SGroups \ {g} : attempt'[h] = attempt[h]
      BY DEF RpcBounds, RpcStep, TryConnect, TryCall, EndRpc, FailTrial, Reset
    <2>3. \A h \in SGroups \ {u} : waited'[h] = waited[h]
      BY DEF RpcBounds, RpcStep, TryConnect, TryCall, EndRpc, FailTrial, Waits
    <2> QED BY <2>1, <2>2, <2>3
  <1>4. ASSUME NEW h \in SGroups \ shared PROVE Held(h)'
    <2>1. Held(h) BY DEF HoldInv
    <2>2. CASE h = u
      <3>1. h # Console BY RpcAssumption DEF RpcAssumption
      <3>2. rpc[h].ins = h /\ RpcStep(h) BY <1>1, <2>2, <3>1
      <3> QED BY <2>1, <3>2, TrialTakes
    <2>3. CASE h # u
      <3>1. h \in Callers /\ rpc'[h] = rpc[h] /\ waited'[h] = waited[h]
        BY <1>3, <2>3 DEF Callers
      <3>2. h = g => rpc[h].at = "none"
        <4> SUFFICES ASSUME h = g, rpc[h].at # "none" PROVE FALSE OBVIOUS
        <4>1. rpc[h].ins = h
          BY <3>1, RpcAssumption DEF RpcInv, RpcAssumption
        <4>2. h # None BY RpcAssumption DEF RpcAssumption
        <4> QED BY <1>1, <2>3, <3>1, <4>1, <4>2 DEF RpcInv
      <3>3. h # g => attempt'[h] = attempt[h] BY <1>3
      <3> QED BY <2>1, <3>1, <3>2, <3>3 DEF Held
    <2> QED BY <2>2, <2>3
  <1> QED BY <1>2, <1>4 DEF HoldInv

\* A call begins: with the first trial, or beside another user's.
LEMMA HoldBegins ==
  ASSUME RpcTypes, RpcInv, RpcBounds, HoldInv, NEW u \in Callers, NEW g \in SGroups,
         StartRpc(u, g), u = Console \/ u = g
  PROVE  RpcBounds' /\ HoldInv'
  <1> DEFINE r == [at |-> IF connected[g] THEN "call" ELSE "connect", ins |-> g, try |-> 0]
  <1> USE RpcAssumption DEF RpcAssumption
  <1>1. /\ rpc' = [rpc EXCEPT ![u] = r] /\ rpc[u].at = "none"
        /\ attempt' = [attempt EXCEPT ![g] = 0] /\ UNCHANGED <<waited, rpcFaults, gaveUp>>
        /\ shared' = IF \E v \in Callers \ {u} : rpc[v].ins = g THEN shared \cup {g} ELSE shared
        /\ commands' \in {commands, commands + 1}
        /\ commands' = commands \/ commands < MaxCommands
    BY DEF StartRpc, Calling, Reset
  <1>2. /\ rpc'[u] = r /\ r.try = 0 /\ r.at \in {"call", "connect"}
        /\ \A v \in Callers \ {u} : rpc'[v] = rpc[v]
    BY <1>1 DEF RpcTypes
  <1> HIDE DEF r
  <1>3. RpcBounds'
    <2>1. attempt' \in [SGroups -> Nat] BY <1>1 DEF RpcBounds
    <2>2. commands' \in 0..MaxCommands BY <1>1 DEF RpcBounds
    <2>3. shared' \subseteq SGroups BY <1>1 DEF RpcBounds
    <2>4. \A v \in Callers : /\ rpc'[v].try <= MaxRpcConnTrials + MaxRpcCallTrials
                             /\ rpc'[v].at = "connect" => rpc'[v].try < MaxRpcConnTrials
                             /\ rpc'[v].at = "call" => rpc'[v].try < MaxRpcCallTrials
      BY <1>2 DEF RpcBounds
    <2> QED BY <1>1, <2>1, <2>2, <2>3, <2>4 DEF RpcBounds
  <1>4. ASSUME NEW h \in SGroups \ shared' PROVE Held(h)'
    <2>1. h \in SGroups \ shared /\ h \in Callers BY <1>1 DEF Callers
    <2>2. Held(h) BY <2>1 DEF HoldInv
    <2>3. CASE h = u
      <3>1. h = g /\ rpc'[h] = r /\ attempt'[h] = 0 /\ waited'[h] = 0
        BY <1>1, <1>2, <2>1, <2>2, <2>3 DEF Held, RpcBounds
      <3>2. /\ 0 * ConnTimeout + Delays(0) = 0 /\ 0 * ReqTimeout + Delays(0) = 0
            /\ 0 <= Connects /\ 0 <= LongestHold
        BY DelaySums, LongestHolds DEF ConnTimeout, ReqTimeout
      <3>3. Connects + 0 * ReqTimeout + Delays(0) = Connects
        BY DelaySums, LongestHolds DEF ReqTimeout
      <3> QED BY <1>2, <3>1, <3>2, <3>3 DEF Held
    <2>4. CASE h # u
      <3>1. rpc'[h] = rpc[h] /\ waited'[h] = waited[h] BY <1>1, <1>2, <2>1, <2>4
      <3>2. h = g => rpc[h].at = "none"
        <4> SUFFICES ASSUME h = g, rpc[h].at # "none" PROVE FALSE OBVIOUS
        <4>1. rpc[h].ins = h BY <2>1 DEF RpcInv
        <4> QED BY <1>1, <2>1, <2>4, <4>1
      <3>3. h # g => attempt'[h] = attempt[h] BY <1>1, <2>1 DEF RpcBounds
      <3> QED BY <2>2, <3>1, <3>2, <3>3 DEF Held
    <2> QED BY <2>3, <2>4
  <1> QED BY <1>3, <1>4 DEF HoldInv

\* The bounds and the waits hold in every state.
LEMMA HoldInvariance == Spec => [](RpcBounds /\ HoldInv)
  <1> USE RpcAssumption DEF RpcAssumption
  <1>1. Init => RpcBounds /\ HoldInv
    <2> SUFFICES ASSUME Init PROVE RpcBounds /\ HoldInv OBVIOUS
    <2>1. \A u \in Callers : rpc[u] = NoRpc BY DEF Init, RpcInit
    <2>2. RpcBounds BY <2>1 DEF Init, RpcInit, RpcBounds, NoRpc
    <2>3. HoldInv BY <2>1, LongestHolds DEF Init, RpcInit, HoldInv, Held, NoRpc, Callers
    <2> QED BY <2>2, <2>3
  <1>2. IInv /\ RpcBounds /\ HoldInv /\ [Next]_vars => (RpcBounds /\ HoldInv)'
    <2> SUFFICES ASSUME IInv, RpcBounds, HoldInv, [Next]_vars PROVE RpcBounds' /\ HoldInv'
      OBVIOUS
    <2>1. CASE UNCHANGED rpcVars
      BY <2>1 DEF rpcVars, RpcBounds, HoldInv, Held
    <2>2. RpcTypes /\ RpcInv BY DEF IInv
    <2>3. Console \in Callers /\ SGroups \subseteq Callers BY DEF Callers
    <2>4. ASSUME NEW p \in Procs, Scale(p) PROVE UNCHANGED rpcVars
      BY <2>4 DEF Scale, LookAt, ChooseWorker, FindCore, AddToCore, CreateSGroup,
                  Announce, StopPolling
    <2>5. ASSUME NEW p \in Procs, NEW w \in Workers, UpdatePort(p, w) PROVE UNCHANGED rpcVars
      BY <2>5 DEF UpdatePort
    <2>6. ASSUME NEW g \in SGroups, Preprocess(g) PROVE RpcBounds' /\ HoldInv'
      BY <2>1, <2>2, <2>3, <2>6, HoldBegins DEF Preprocess
    <2>7. ASSUME NEW g \in SGroups, SetUpStep(g) PROVE RpcBounds' /\ HoldInv'
      BY <2>2, <2>3, <2>7, HoldStep DEF SetUpStep
    <2>8. ASSUME NEW g \in SGroups, StartCommand(g) PROVE RpcBounds' /\ HoldInv'
      BY <2>2, <2>3, <2>8, HoldBegins DEF StartCommand
    <2>9. CASE CommandStep BY <2>2, <2>3, <2>9, HoldStep DEF CommandStep
    <2>10. CASE UNCHANGED vars BY <2>1, <2>10 DEF vars
    <2> QED BY <2>1, <2>4, <2>5, <2>6, <2>7, <2>8, <2>9, <2>10 DEF Next
  <1> QED BY <1>1, <1>2, Invariance, PTL DEF Spec

\* preprocessBeforeReady holds sg.mutex no longer than all connects, or all calls
\* after the last connect, take with their delays, unless a command uses the
\* instance at the same time.
THEOREM HoldIsBounded == Spec => []HoldBound
  <1>1. HoldInv => HoldBound BY DEF HoldInv, Held, HoldBound
  <1> QED BY <1>1, HoldInvariance, PTL

-----------------------------------------------------------------------------
(* Cores in use. *)

Used(w)     == {c \in Cores[w] : coreSGroups[w][c] # {}}
PinnedOf(w) == {g \in SGroups : Home[g] = w /\ Pinned(g)}

\* A core is used by a SGroup that is pinned, or a build has failed: its SGroup
\* stays in the core's list.
UsedInv ==
    /\ \A w \in Workers : /\ IsFiniteSet(Used(w))
                          /\ Cardinality(Used(w)) <= Cardinality(PinnedOf(w)) + failures
    /\ CrashNeedsFailures

\* A worker's SGroups are those it had at the start.
LEMMA OfWorker ==
  ASSUME NEW w \in Workers
  PROVE  /\ Len(FreeAtStart[w]) \in Nat
         /\ IsFiniteSet(Range(FreeAtStart[w]))
         /\ Cardinality(Range(FreeAtStart[w])) = Len(FreeAtStart[w])
         /\ {g \in SGroups : Home[g] = w} = Range(FreeAtStart[w])
         /\ PinnedOf(w) \subseteq Range(FreeAtStart[w])
         /\ IsFiniteSet(PinnedOf(w)) /\ Cardinality(PinnedOf(w)) \in Nat
  <1>1. FreeAtStart[w] \in Seq(SGroups) /\ IsInjective(FreeAtStart[w])
    BY Homes, MetronAssumption DEF MetronAssumption
  <1>2. /\ Len(FreeAtStart[w]) \in Nat /\ IsFiniteSet(Range(FreeAtStart[w]))
        /\ Cardinality(Range(FreeAtStart[w])) = Len(FreeAtStart[w])
    BY <1>1, LenIsCardinality, LenProperties
  <1>3. {g \in SGroups : Home[g] = w} = Range(FreeAtStart[w]) BY Homes
  <1>4. PinnedOf(w) \subseteq Range(FreeAtStart[w]) BY <1>3 DEF PinnedOf
  <1>5. IsFiniteSet(PinnedOf(w)) BY <1>2, <1>4, FS_Subset
  <1> QED BY <1>2, <1>3, <1>4, <1>5, FS_CardinalityType

\* A SGroup that is about to get a core is not pinned.
LEMMA NotPinned ==
  ASSUME IInv, NEW p \in Procs, proc[p].at \in {"core", "add"}
  PROVE  proc[p].sg \in SGroups /\ ~Pinned(proc[p].sg)
  <1>1. proc[p].sg \in SGroups /\ Holds(p, proc[p].sg)
    BY DEF IInv, ProcTypes, HasSGroup, Holds, Holding
  <1> QED BY <1>1 DEF IInv, OwnInv, Pinned, Holds, Holding

\* Steps that pin no SGroup, drop none and use no core.
LEMMA UsedFrame ==
  ASSUME UsedInv, \A g \in SGroups : Pinned(g)' <=> Pinned(g),
         UNCHANGED <<coreSGroups, failures, crashed>>
  PROVE  UsedInv'
  <1>1. \A w \in Workers : Used(w)' = Used(w) /\ PinnedOf(w)' = PinnedOf(w)
    BY DEF Used, PinnedOf
  <1> QED BY <1>1 DEF UsedInv, CrashNeedsFailures

\* The controller crashes when all cores of the worker are used, though at least
\* the SGroup that needs one is not pinned.
LEMMA UsedFindCore ==
  ASSUME IInv, UsedInv, NEW p \in Procs, FindCore(p)
  PROVE  UsedInv'
  <1> DEFINE g == proc[p].sg
             w == Home[g]
  <1>1. /\ proc[p].at = "core" /\ proc \in [Procs -> Record]
        /\ UNCHANGED <<listVars, coreVars, failures>>
    BY DEF FindCore, At, IInv, ProcTypes
  <1>2. g \in SGroups /\ ~Pinned(g) /\ w \in Workers BY <1>1, NotPinned, Homes
  <1>3. CASE crashed' = TRUE /\ UNCHANGED <<proc, raced>> /\ IdleCores(w) = {}
    <2>1. Used(w) = Cores[w] BY <1>3 DEF Used, IdleCores
    <2>2. Cardinality(Cores[w]) \in Nat
      BY <1>2, <2>1, FS_CardinalityType DEF UsedInv
    <2>3. Cardinality(Cores[w]) <= Cardinality(PinnedOf(w)) + failures
      BY <1>2, <2>1 DEF UsedInv
    <2>4. Cardinality(PinnedOf(w)) <= Len(FreeAtStart[w]) - 1
      <3> DEFINE S == Range(FreeAtStart[w])
      <3>1. g \in S /\ PinnedOf(w) \subseteq S \ {g} BY <1>2, OfWorker, Homes DEF PinnedOf
      <3>2. IsFiniteSet(S) /\ Cardinality(S) = Len(FreeAtStart[w]) BY <1>2, OfWorker
      <3>3. IsFiniteSet(S \ {g}) /\ Cardinality(S \ {g}) = Cardinality(S) - 1
        BY <3>1, <3>2, FS_RemoveElement
      <3>4. Cardinality(PinnedOf(w)) <= Cardinality(S \ {g}) BY <3>1, <3>3, FS_Subset
      <3> QED BY <3>2, <3>3, <3>4
    <2>5. failures \in Nat /\ Len(FreeAtStart[w]) \in Nat /\ Cardinality(PinnedOf(w)) \in Nat
      BY <1>2, OfWorker DEF IInv, ListTypes
    <2>6. failures > Cardinality(Cores[w]) - Len(FreeAtStart[w])
      BY <2>2, <2>3, <2>4, <2>5
    <2>7. \A v \in Workers : Used(v)' = Used(v) /\ PinnedOf(v)' = PinnedOf(v)
      BY <1>1, <1>3 DEF Used, PinnedOf, Pinned, Deployed, listVars, coreVars
    <2> QED BY <1>1, <1>2, <2>6, <2>7 DEF UsedInv, CrashNeedsFailures
  <1>4. ASSUME NEW c \in IdleCores(w), proc' = [proc EXCEPT ![p].at = "add", ![p].core = c],
               UNCHANGED crashed
        PROVE  UsedInv'
    <2>1. \A q \in Procs : /\ proc'[q].at = "build" <=> proc[q].at = "build"
                           /\ proc'[q].at = "build" => proc'[q] = proc[q]
      BY <1>1, <1>4 DEF Record
    <2>2. \A h \in SGroups : Pinned(h)' <=> Pinned(h)
      BY <1>1, <2>1 DEF Pinned, Deployed, listVars
    <2> QED BY <1>1, <1>4, <2>2, UsedFrame DEF coreVars
  <1> QED BY <1>3, <1>4 DEF FindCore

\* addSGroup uses one more core, at most, for a SGroup it pins.
LEMMA UsedAddToCore ==
  ASSUME IInv, UsedInv, NEW p \in Procs, AddToCore(p)
  PROVE  UsedInv'
  <1>0. PICK g, w, core : g = proc[p].sg /\ w = Home[g] /\ core = proc[p].core OBVIOUS
  <1>1. /\ proc[p].at = "add" /\ proc \in [Procs -> Record]
        /\ proc' = [proc EXCEPT ![p].at = "build"]
        /\ UNCHANGED <<listVars, failures, crashed>>
    BY DEF AddToCore, At, Goto, IInv, ProcTypes, ctlVars
  <1>2. g \in SGroups /\ ~Pinned(g) /\ w \in Workers BY <1>0, <1>1, NotPinned, Homes
  <1>3. /\ proc'[p].at = "build" /\ proc'[p].sg = g
        /\ \A q \in Procs \ {p} : proc'[q] = proc[q]
    BY <1>0, <1>1 DEF Record
  <1>4. \A h \in SGroups : Pinned(h)' <=> Pinned(h) \/ h = g
    BY <1>1, <1>3 DEF Pinned, Deployed, listVars
  <1>5. /\ \A v \in Workers \ {w} : Used(v)' = Used(v) /\ PinnedOf(v)' = PinnedOf(v)
        /\ PinnedOf(w)' = PinnedOf(w) \cup {g} /\ g \notin PinnedOf(w)
        /\ Used(w)' \subseteq Used(w) \cup {core}
    <2>1. \/ coreSGroups' = coreSGroups
          \/ coreSGroups' = [coreSGroups EXCEPT ![w][core] = @ \cup {g}]
      BY <1>0 DEF AddToCore
    <2>2. coreSGroups = [v \in Workers |-> coreSGroups[v]] BY DEF IInv, CoreTypes
    <2>3. \A v \in Workers \ {w} : coreSGroups'[v] = coreSGroups[v] BY <2>1, <2>2
    <2>4. \A c \in Cores[w] \ {core} : coreSGroups'[w][c] = coreSGroups[w][c]
      <3>1. coreSGroups[w] \in [Cores[w] -> SUBSET SGroups] BY <1>2 DEF IInv, CoreTypes
      <3>2. CASE coreSGroups' = coreSGroups BY <3>2
      <3>3. CASE coreSGroups' = [coreSGroups EXCEPT ![w][core] = @ \cup {g}]
        <4>1. coreSGroups'[w] = [coreSGroups[w] EXCEPT ![core] = @ \cup {g}]
          BY <1>2, <2>2, <3>3
        <4> QED BY <3>1, <4>1
      <3> QED BY <2>1, <3>2, <3>3
    <2>5. \A v \in Workers \ {w} : Used(v)' = Used(v) BY <2>3 DEF Used
    <2>6. \A v \in Workers \ {w} : PinnedOf(v)' = PinnedOf(v)
      BY <1>0, <1>2, <1>4 DEF PinnedOf
    <2>7. PinnedOf(w)' = PinnedOf(w) \cup {g} /\ g \notin PinnedOf(w)
      BY <1>0, <1>2, <1>4 DEF PinnedOf
    <2>8. Used(w)' \subseteq Used(w) \cup {core} BY <2>4 DEF Used
    <2> QED BY <2>5, <2>6, <2>7, <2>8
  <1>6. IsFiniteSet(Used(w)') /\ Cardinality(Used(w)') <= Cardinality(Used(w)) + 1
    <2>1. IsFiniteSet(Used(w)) /\ Cardinality(Used(w)) \in Nat
      BY <1>2, FS_CardinalityType DEF UsedInv
    <2> DEFINE S == Used(w) \cup {core}
    <2>2. IsFiniteSet(S) /\ Cardinality(S) \in {Cardinality(Used(w)), Cardinality(Used(w)) + 1}
      BY <2>1, FS_AddElement
    <2>3. /\ IsFiniteSet(Used(w)') /\ Cardinality(Used(w)') <= Cardinality(S)
          /\ Cardinality(Used(w)') \in Nat
      <3>1. Used(w)' \in SUBSET S BY <1>5
      <3> QED BY <2>2, <3>1, FS_Subset, FS_CardinalityType
    <2> QED BY <2>1, <2>2, <2>3
  <1>7. Cardinality(PinnedOf(w)') = Cardinality(PinnedOf(w)) + 1
    BY <1>2, <1>5, OfWorker, FS_AddElement
  <1>8. /\ Cardinality(Used(w)) \in Nat /\ Cardinality(PinnedOf(w)) \in Nat
        /\ Cardinality(Used(w)') \in Nat /\ failures \in Nat
    BY <1>2, <1>6, OfWorker, FS_CardinalityType DEF UsedInv, IInv, ListTypes
  <1>9. Cardinality(Used(w)') <= Cardinality(PinnedOf(w)') + failures
    BY <1>2, <1>6, <1>7, <1>8 DEF UsedInv
  <1> QED BY <1>1, <1>5, <1>6, <1>9 DEF UsedInv, CrashNeedsFailures

\* A build ends: its SGroup stays pinned, or it failed.
LEMMA UsedCreateSGroup ==
  ASSUME IInv, UsedInv, ~crashed, NEW p \in Procs, CreateSGroup(p)
  PROVE  UsedInv'
  <1>0. PICK g, w : g = proc[p].sg /\ w = Home[g] OBVIOUS
  <1>1. /\ proc[p].at = "build" /\ proc \in [Procs -> Record]
        /\ proc' = [proc EXCEPT ![p].at = "poll"]
        /\ UNCHANGED <<coreVars, crashed>>
    BY DEF CreateSGroup, At, Goto, IInv, ProcTypes
  <1>2. g \in SGroups /\ w \in Workers
    BY <1>0, <1>1, Homes DEF IInv, ProcTypes, HasSGroup, Holding
  <1>3. /\ proc'[p].at = "poll"
        /\ \A q \in Procs \ {p} : proc'[q] = proc[q]
    BY <1>1 DEF Record
  <1>4. \A v \in Workers : Used(v)' = Used(v) BY <1>1 DEF Used, coreVars
  <1>5. failures \in Nat BY DEF IInv, ListTypes
  <1>6. CASE failures' = failures + 1 /\ UNCHANGED sgroups
    <2>1. \A h \in SGroups : Pinned(h) => Pinned(h)' \/ h = g
      BY <1>0, <1>1, <1>3, <1>6 DEF Pinned, Deployed
    <2>2. ASSUME NEW v \in Workers
          PROVE  Cardinality(PinnedOf(v)) <= Cardinality(PinnedOf(v)') + 1
      <3> DEFINE S == PinnedOf(v)'
      <3>1. PinnedOf(v) \in SUBSET (S \cup {g}) BY <2>1 DEF PinnedOf
      <3>2. IsFiniteSet(S) /\ Cardinality(S) \in Nat
        <4>1. S \subseteq Range(FreeAtStart[v]) /\ IsFiniteSet(Range(FreeAtStart[v]))
          BY OfWorker DEF PinnedOf
        <4> QED BY <4>1, FS_Subset, FS_CardinalityType
      <3> HIDE DEF S
      <3>3. /\ IsFiniteSet(S \cup {g})
            /\ Cardinality(S \cup {g}) \in {Cardinality(S), Cardinality(S) + 1}
        BY <3>2, FS_AddElement
      <3>4. Cardinality(PinnedOf(v)) <= Cardinality(S \cup {g}) BY <3>1, <3>3, FS_Subset
      <3>5. Cardinality(PinnedOf(v)) \in Nat BY OfWorker
      <3> QED BY <3>2, <3>3, <3>4, <3>5 DEF S
    <2>3. ASSUME NEW v \in Workers
          PROVE  /\ IsFiniteSet(Used(v)')
                 /\ Cardinality(Used(v)') <= Cardinality(PinnedOf(v)') + failures'
      <3>1. IsFiniteSet(Used(v)) /\ Cardinality(Used(v)) <= Cardinality(PinnedOf(v)) + failures
        BY DEF UsedInv
      <3>2. PICK n \in Nat : n = Cardinality(Used(v)) BY <3>1, FS_CardinalityType
      <3>3. PICK k \in Nat : k = Cardinality(PinnedOf(v)) BY OfWorker
      <3>4. PICK m \in Nat : m = Cardinality(PinnedOf(v)')
        <4>1. PinnedOf(v)' \subseteq Range(FreeAtStart[v]) /\ IsFiniteSet(Range(FreeAtStart[v]))
          BY OfWorker DEF PinnedOf
        <4> QED BY <4>1, FS_Subset, FS_CardinalityType
      <3> QED BY <1>4, <1>5, <1>6, <2>2, <3>1, <3>2, <3>3, <3>4
    <2>4. CrashNeedsFailures'
      BY <1>1 DEF CrashNeedsFailures
    <2> QED BY <2>3, <2>4 DEF UsedInv
  <1>7. CASE /\ sgroups' = [sgroups EXCEPT ![w] = Append(@, g)]
             /\ UNCHANGED failures
    <2>1. \A h \in SGroups : Pinned(h)' <=> Pinned(h)
      <3>1. sgroups[w] \in Seq(SGroups) /\ sgroups \in [Workers -> Seq(SGroups)]
        BY <1>2 DEF IInv, ListTypes
      <3>2. \A h \in SGroups : Deployed(h) <=> h \in Range(sgroups[Home[h]])
        BY DEF Deployed, Range
      <3>3. \A h \in SGroups : Deployed(h)' <=> h \in Range(sgroups'[Home[h]])
        BY DEF Deployed, Range
      <3>4. Range(Append(sgroups[w], g)) = Range(sgroups[w]) \cup {g}
        BY <1>2, <3>1, RangeOfAppend
      <3>5. /\ sgroups'[w] = Append(sgroups[w], g)
            /\ \A v \in Workers \ {w} : sgroups'[v] = sgroups[v]
        BY <1>2, <1>7, <3>1
      <3>6. \A h \in SGroups : Deployed(h)' <=> Deployed(h) \/ h = g
        <4> SUFFICES ASSUME NEW h \in SGroups
                     PROVE  Deployed(h)' <=> Deployed(h) \/ h = g
          OBVIOUS
        <4>1. CASE Home[h] = w BY <3>2, <3>3, <3>4, <3>5, <4>1
        <4>2. CASE Home[h] # w
          <5>1. sgroups'[Home[h]] = sgroups[Home[h]] /\ h # g
            BY <1>0, <3>5, <4>2, Homes
          <5> QED BY <3>2, <3>3, <5>1
        <4> QED BY <4>1, <4>2
      <3> QED BY <1>0, <1>1, <1>3, <3>6 DEF Pinned
    <2> QED BY <1>1, <1>7, <2>1, UsedFrame DEF coreVars
  <1> QED BY <1>0, <1>6, <1>7 DEF CreateSGroup

\* Only "core", "add" and "build" matter to cores.
LEMMA UsedSteps ==
  ASSUME IInv, UsedInv, [Next]_vars
  PROVE  UsedInv'
  <1>1. ASSUME UNCHANGED <<sgroups, coreSGroups, failures, crashed>>,
               \A p \in Procs : proc'[p].at = "build" <=> proc[p].at = "build",
               \A p \in Procs : proc[p].at = "build" => proc'[p].sg = proc[p].sg
        PROVE  UsedInv'
    <2>1. \A g \in SGroups : Pinned(g)' <=> Pinned(g) BY <1>1 DEF Pinned, Deployed
    <2> QED BY <1>1, <2>1, UsedFrame
  <1>2. ASSUME NEW p \in Procs,
               UNCHANGED <<sgroups, coreSGroups, failures, crashed>>,
               proc[p].at # "build", proc'[p].at # "build",
               \A q \in Procs \ {p} : proc'[q] = proc[q]
        PROVE  UsedInv'
    BY <1>1, <1>2
  <1>3. proc \in [Procs -> Record] BY DEF IInv, ProcTypes
  <1>4. ASSUME NEW p \in Procs, Finish(p), proc[p].at # "build",
               UNCHANGED <<sgroups, coreSGroups, failures, crashed>>
        PROVE  UsedInv'
    <2>1. /\ \A q \in Procs \ {p} : proc'[q] = proc[q]
          /\ proc'[p].at \in {"none", "look"}
      BY <1>4, Finishes DEF IInv
    <2> QED BY <1>2, <1>4, <2>1
  <1>5. ASSUME NEW p \in Procs, LookAt(p) PROVE UsedInv'
    <2>1. /\ UNCHANGED <<sgroups, coreSGroups, failures, crashed>> /\ proc[p].at = "look"
          /\ \A q \in Procs \ {p} : proc'[q] = proc[q]
          /\ proc'[p].at \in {"choose", "none", "look"}
      BY <1>3, <1>5 DEF LookAt, At, listVars, coreVars, ctlVars, Record
    <2> QED BY <1>2, <2>1
  <1>6. ASSUME NEW p \in Procs, ChooseWorker(p) PROVE UsedInv'
    <2>1. UNCHANGED <<sgroups, coreSGroups, failures, crashed>> /\ proc[p].at = "choose"
      BY <1>6 DEF ChooseWorker, At, coreVars, ctlVars
    <2>2. CASE Finish(p) BY <1>4, <2>1, <2>2
    <2>3. ASSUME NEW g, proc' = [proc EXCEPT ![p].at = "core", ![p].sg = g] PROVE UsedInv'
      <3>1. proc'[p].at = "core" /\ \A q \in Procs \ {p} : proc'[q] = proc[q]
        BY <1>3, <2>3 DEF Record
      <3> QED BY <1>2, <2>1, <3>1
    <2> QED BY <1>6, <2>2, <2>3 DEF ChooseWorker
  <1>7. ASSUME NEW p \in Procs, Announce(p) \/ StopPolling(p) PROVE UsedInv'
    <2>1. UNCHANGED <<sgroups, coreSGroups, failures, crashed>> /\ proc[p].at = "poll"
      BY <1>7 DEF Announce, StopPolling, At, listVars, coreVars, ctlVars
    <2> QED BY <1>4, <1>7, <2>1 DEF Announce, StopPolling
  <1>8. ASSUME NEW p \in Procs, NEW w \in Workers, UpdatePort(p, w) PROVE UsedInv'
    <2>1. /\ UNCHANGED <<sgroups, coreSGroups, failures, crashed>> /\ proc[p].at = "none"
          /\ \A q \in Procs \ {p} : proc'[q] = proc[q]
          /\ proc'[p].at = "look"
      BY <1>3, <1>8 DEF UpdatePort, At, listVars, coreVars, Record
    <2> QED BY <1>2, <2>1
  <1>9. ASSUME NEW p \in Procs, ~crashed,
               FindCore(p) \/ AddToCore(p) \/ CreateSGroup(p)
        PROVE  UsedInv'
    BY <1>9, UsedFindCore, UsedAddToCore, UsedCreateSGroup
  <1>10. CASE UNCHANGED <<listVars, coreVars, proc, ctlVars>>
    BY <1>1, <1>10 DEF listVars, coreVars, ctlVars
  <1>11. ASSUME NEW g \in SGroups, Preprocess(g) \/ SetUpStep(g) \/ StartCommand(g)
         PROVE  UsedInv'
    BY <1>10, <1>11 DEF Preprocess, SetUpStep, StartCommand
  <1>12. CASE CommandStep BY <1>10, <1>12 DEF CommandStep
  <1>13. CASE UNCHANGED vars BY <1>10, <1>13 DEF vars
  <1> QED BY <1>5, <1>6, <1>7, <1>8, <1>9, <1>11, <1>12, <1>13 DEF Next, Scale

\* The controller runs into the nil pointer of getIdleCore only after more builds
\* of a worker failed than it has cores to spare.
THEOREM CrashesAfterFailures == Spec => []CrashNeedsFailures
  <1>1. Init => UsedInv
    <2> SUFFICES ASSUME Init PROVE UsedInv OBVIOUS
    <2>1. \A w \in Workers : Used(w) = {} BY DEF Init, Used
    <2>2. failures = 0 /\ ~crashed BY DEF Init
    <2>3. \A w \in Workers : Cardinality(PinnedOf(w)) \in Nat BY OfWorker
    <2>4. ASSUME NEW w \in Workers
          PROVE  IsFiniteSet(Used(w)) /\ Cardinality(Used(w)) <= Cardinality(PinnedOf(w)) + failures
      <3>1. IsFiniteSet(Used(w)) /\ Cardinality(Used(w)) = 0 BY <2>1, FS_EmptySet
      <3> QED BY <2>2, <2>3, <3>1
    <2> QED BY <2>2, <2>4 DEF UsedInv, CrashNeedsFailures
  <1>2. IInv /\ UsedInv /\ [Next]_vars => UsedInv' BY UsedSteps
  <1>3. UsedInv => CrashNeedsFailures BY DEF UsedInv
  <1> QED BY <1>1, <1>2, <1>3, Invariance, PTL DEF Spec

-----------------------------------------------------------------------------
(* Types. *)

\* A SGroup is deployed once, by its worker; what only the type invariant needs.
MoreTypes ==
    /\ \A w \in Workers : /\ IsInjective(sgroups[w])
                          /\ \A g \in Range(sgroups[w]) : Home[g] = w
    /\ \A g \in SGroups : coreID[g] \in Cores[Home[g]] \cup {None}
    /\ reports \in 0..MaxReports /\ failures \in 0..MaxFailures
    /\ crashed \in BOOLEAN /\ raced \in BOOLEAN

\* There are finitely many SGroups: each is one worker's, in a finite list.
LEMMA FewSGroups == IsFiniteSet(SGroups)
  <1> DEFINE f == [w \in Workers |-> Range(FreeAtStart[w])]
             Lists == {f[w] : w \in Workers}
  <1>1. IsFiniteSet(Workers) BY MetronAssumption DEF MetronAssumption
  <1>2. IsFiniteSet(Lists)
    <2>1. f \in Surjection(Workers, Lists) BY DEF Surjection
    <2> HIDE DEF f, Lists
    <2> QED BY <1>1, <2>1, FS_Surjection
  <1>3. \A T \in Lists : IsFiniteSet(T) BY OfWorker
  <1>4. IsFiniteSet(UNION Lists)
    <2> HIDE DEF f, Lists
    <2> QED BY <1>2, <1>3, FS_UNION
  <1>5. SGroups \in SUBSET UNION Lists
    <2>1. ASSUME NEW g \in SGroups PROVE g \in UNION Lists
      <3>1. Home[g] \in Workers /\ g \in f[Home[g]] BY Homes
      <3> QED BY <3>1
    <2> QED BY <2>1
  <1> HIDE DEF f, Lists
  <1> QED BY <1>4, <1>5, FS_Subset

\* The free and the deployed SGroups of a worker are different ones.
LEMMA ListLengths ==
  ASSUME IInv, MoreTypes, NEW w \in Workers
  PROVE  Len(freeSGroups[w]) + Len(sgroups[w]) <= Cardinality(SGroups)
  <1> DEFINE s == freeSGroups[w] \o sgroups[w]
  <1>1. /\ freeSGroups[w] \in Seq(SGroups) /\ sgroups[w] \in Seq(SGroups)
        /\ IsInjective(freeSGroups[w]) /\ IsInjective(sgroups[w])
    BY DEF IInv, ListTypes, OwnInv, MoreTypes
  <1>2. Range(freeSGroups[w]) \cap Range(sgroups[w]) = {}
    <2> SUFFICES ASSUME NEW g \in Range(freeSGroups[w]), g \in Range(sgroups[w]) PROVE FALSE
      OBVIOUS
    <2>1. g \in SGroups BY <1>1, LenProperties, ElementOfSeq DEF Range
    <2>2. Home[g] = w BY DEF MoreTypes
    <2>3. Free(g) /\ Deployed(g) BY <2>2 DEF Free, Deployed, Range
    <2> QED BY <2>1, <2>3 DEF IInv, OwnInv
  <1>3. IsInjective(s) BY <1>1, <1>2, ConcatInjective
  <1>4. s \in Seq(SGroups) /\ Len(s) = Len(freeSGroups[w]) + Len(sgroups[w])
    BY <1>1, ConcatProperties
  <1> HIDE DEF s
  <1>5. Cardinality(Range(s)) = Len(s) BY <1>3, <1>4, LenIsCardinality
  <1>6. Range(s) \in SUBSET SGroups
    <2>1. ASSUME NEW g \in Range(s) PROVE g \in SGroups
      <3>1. DOMAIN s = 1..Len(s) BY <1>4, LenProperties
      <3>2. PICK i \in 1..Len(s) : g = s[i] BY <3>1 DEF Range
      <3> QED BY <1>4, <3>2, ElementOfSeq
    <2> QED BY <2>1
  <1>7. Cardinality(Range(s)) <= Cardinality(SGroups) BY <1>6, FewSGroups, FS_Subset
  <1> QED BY <1>4, <1>5, <1>7

\* The steps of a scale-up that change the lists, cores or counters.
LEMMA MoreScale ==
  ASSUME IInv, MoreTypes, NEW p \in Procs, Scale(p)
  PROVE  MoreTypes'
  <1>1. CASE UNCHANGED <<sgroups, coreID, reports, failures, crashed, raced>>
    BY <1>1 DEF MoreTypes
  <1>2. CASE LookAt(p) \/ ChooseWorker(p) \/ Announce(p) \/ StopPolling(p)
    BY <1>1, <1>2 DEF LookAt, ChooseWorker, Announce, StopPolling, listVars, coreVars, ctlVars
  <1>3. CASE FindCore(p)
    <2>1. UNCHANGED <<sgroups, coreID, reports, failures>>
      BY <1>3 DEF FindCore, listVars, coreVars
    <2>2. crashed' \in BOOLEAN /\ raced' \in BOOLEAN
      <3>1. CASE crashed' = TRUE /\ UNCHANGED raced BY <3>1 DEF MoreTypes
      <3>2. ASSUME NEW c, UNCHANGED crashed,
                   raced' = (raced \/ \E q \in Procs \ {p} :
                               At(q, "add") /\ proc[q].core = c /\ Home[proc[q].sg] = Home[proc[p].sg])
            PROVE  crashed' \in BOOLEAN /\ raced' \in BOOLEAN
        BY <3>2 DEF MoreTypes
      <3> QED BY <1>3, <3>1, <3>2 DEF FindCore
    <2> QED BY <2>1, <2>2 DEF MoreTypes
  <1>4. CASE AddToCore(p)
    <2>1. PICK g, core : g = proc[p].sg /\ core = proc[p].core OBVIOUS
    <2>2. g \in SGroups /\ core \in Cores[Home[g]]
      BY <1>4, <2>1 DEF AddToCore, At, IInv, ProcTypes, HasSGroup, Holding
    <2>3. /\ coreID' = [coreID EXCEPT ![g] = core]
          /\ UNCHANGED <<sgroups, reports, failures, crashed, raced>>
      BY <1>4, <2>1 DEF AddToCore, listVars, ctlVars
    <2>4. \A h \in SGroups : coreID'[h] \in Cores[Home[h]] \cup {None}
      BY <2>2, <2>3 DEF MoreTypes, IInv, CoreTypes
    <2> QED BY <2>3, <2>4 DEF MoreTypes
  <1>5. CASE CreateSGroup(p)
    <2>1. PICK g, w : g = proc[p].sg /\ w = Home[g] OBVIOUS
    <2>2. /\ g \in SGroups /\ w \in Workers /\ ~Deployed(g)
      <3>1. g \in SGroups /\ Holds(p, g)
        BY <1>5, <2>1 DEF CreateSGroup, At, IInv, ProcTypes, HasSGroup, Holds, Holding
      <3> QED BY <2>1, <3>1, Homes DEF IInv, OwnInv
    <2>3. UNCHANGED <<coreID, reports, crashed, raced>>
      BY <1>5 DEF CreateSGroup, coreVars
    <2>4. CASE failures < MaxFailures /\ failures' = failures + 1 /\ UNCHANGED sgroups
      <3>1. failures' \in 0..MaxFailures
        BY <2>4, MetronAssumption DEF MoreTypes, MetronAssumption
      <3> QED BY <2>3, <2>4, <3>1 DEF MoreTypes
    <2>5. CASE sgroups' = [sgroups EXCEPT ![w] = Append(@, g)] /\ UNCHANGED failures
      <3>1. sgroups[w] \in Seq(SGroups) /\ sgroups \in [Workers -> Seq(SGroups)]
        BY <2>2 DEF IInv, ListTypes
      <3>2. g \notin Range(sgroups[w]) BY <2>1, <2>2 DEF Deployed, Range
      <3>3. /\ IsInjective(Append(sgroups[w], g))
            /\ Range(Append(sgroups[w], g)) = Range(sgroups[w]) \cup {g}
        BY <2>2, <3>1, <3>2, AppendFresh DEF MoreTypes
      <3>4. /\ sgroups'[w] = Append(sgroups[w], g)
            /\ \A v \in Workers \ {w} : sgroups'[v] = sgroups[v]
        BY <2>2, <2>5, <3>1
      <3>5. \A v \in Workers : /\ IsInjective(sgroups'[v])
                               /\ \A h \in Range(sgroups'[v]) : Home[h] = v
        <4> SUFFICES ASSUME NEW v \in Workers
                     PROVE  /\ IsInjective(sgroups'[v])
                            /\ \A h \in Range(sgroups'[v]) : Home[h] = v
          OBVIOUS
        <4>1. \A h \in Range(sgroups[v]) : Home[h] = v BY DEF MoreTypes
        <4>2. CASE v = w BY <2>1, <3>3, <3>4, <4>1, <4>2
        <4>3. CASE v # w BY <3>4, <4>1, <4>3 DEF MoreTypes
        <4> QED BY <4>2, <4>3
      <3> QED BY <2>3, <2>5, <3>5 DEF MoreTypes
    <2> QED BY <1>5, <2>1, <2>4, <2>5 DEF CreateSGroup
  <1> QED BY <1>2, <1>3, <1>4, <1>5 DEF Scale

\* The remaining types hold in every state.
LEMMA MoreInvariance == Spec => []MoreTypes
  <1>1. Init => MoreTypes
    <2> SUFFICES ASSUME Init PROVE MoreTypes OBVIOUS
    <2>1. \A w \in Workers : sgroups[w] = <<>> BY DEF Init
    <2>2. \A w \in Workers : IsInjective(sgroups[w]) /\ Range(sgroups[w]) = {}
      BY <2>1 DEF IsInjective, Range
    <2>3. \A g \in SGroups : coreID[g] \in Cores[Home[g]] \cup {None} BY DEF Init
    <2>4. reports \in 0..MaxReports /\ failures \in 0..MaxFailures
      BY MetronAssumption DEF Init, RpcInit, MetronAssumption
    <2>5. crashed \in BOOLEAN /\ raced \in BOOLEAN BY DEF Init
    <2> QED BY <2>2, <2>3, <2>4, <2>5 DEF MoreTypes
  <1>2. IInv /\ MoreTypes /\ [Next]_vars => MoreTypes'
    <2> SUFFICES ASSUME IInv, MoreTypes, [Next]_vars PROVE MoreTypes' OBVIOUS
    <2>1. CASE UNCHANGED <<sgroups, coreID, reports, failures, crashed, raced>>
      BY <2>1 DEF MoreTypes
    <2>2. ASSUME NEW p \in Procs, Scale(p) PROVE MoreTypes' BY <2>2, MoreScale
    <2>3. ASSUME NEW p \in Procs, NEW w \in Workers, UpdatePort(p, w) PROVE MoreTypes'
      <3>1. reports' \in 0..MaxReports
        BY <2>3, MetronAssumption DEF UpdatePort, MoreTypes, MetronAssumption
      <3>2. UNCHANGED <<sgroups, coreID, failures, crashed, raced>>
        BY <2>3 DEF UpdatePort, listVars, coreVars
      <3> QED BY <3>1, <3>2 DEF MoreTypes
    <2>4. ASSUME NEW g \in SGroups, Preprocess(g) \/ SetUpStep(g) \/ StartCommand(g)
          PROVE  MoreTypes'
      BY <2>1, <2>4 DEF Preprocess, SetUpStep, StartCommand, listVars, coreVars, ctlVars
    <2>5. CASE CommandStep BY <2>1, <2>5 DEF CommandStep, listVars, coreVars, ctlVars
    <2>6. CASE UNCHANGED vars BY <2>1, <2>6 DEF vars, listVars, coreVars, ctlVars
    <2> QED BY <2>2, <2>3, <2>4, <2>5, <2>6 DEF Next
  <1> QED BY <1>1, <1>2, Invariance, PTL DEF Spec

\* Every variable has its type: no worker has more SGroups, free and deployed, than
\* there are, no call makes more trials than the code, no core is another worker's.
THEOREM TypeCorrect == Spec => []TypeOK
  <1>1. IInv /\ RpcBounds /\ MoreTypes => TypeOK
    <2> SUFFICES ASSUME IInv, RpcBounds, MoreTypes PROVE TypeOK OBVIOUS
    <2>1. RpcTypeOK
      <3>1. \A u \in Callers : rpc[u].try \in 0..MaxRpcConnTrials + MaxRpcCallTrials
        BY RpcAssumption DEF IInv, RpcTypes, RpcBounds, RpcAssumption
      <3>2. rpcFaults \in 0..MaxRpcFaults
        BY RpcAssumption DEF IInv, RpcTypes, RpcBounds, RpcAssumption
      <3>3. \A u \in Callers : /\ rpc[u].at \in {"none", "connect", "call", "done"}
                               /\ rpc[u].ins \in SGroups \cup {None}
        BY DEF IInv, RpcTypes
      <3> QED BY <3>1, <3>2, <3>3 DEF RpcTypeOK, IInv, RpcTypes, RpcBounds
    <2>2. \A w \in Workers : /\ freeSGroups[w] \in Seq(SGroups) /\ sgroups[w] \in Seq(SGroups)
                             /\ Len(freeSGroups[w]) + Len(sgroups[w]) <= Cardinality(SGroups)
      BY ListLengths DEF IInv, ListTypes
    <2>3. \A p \in Procs : /\ proc[p].at \in {"none", "look", "choose", "core", "add",
                                              "build", "poll"}
                           /\ proc[p].sg \in SGroups \cup {None}
      BY DEF IInv, ProcTypes, Record, Labels, Holding
    <2> QED BY <2>1, <2>2, <2>3 DEF TypeOK, MoreTypes, IInv, CoreTypes, SetUpTypes
  <1> QED BY <1>1, Invariance, HoldInvariance, MoreInvariance, PTL
==============================================================================
