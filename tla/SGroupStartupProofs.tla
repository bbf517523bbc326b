------------------------- MODULE SGroupStartupProofs -------------------------
(***************************************************************************)
(* Proofs about SGroupStartup, for every number of SGroups, pods and ports *)
(* and every length of chain: its invariants, and that it implements       *)
(* ReadinessBarrier.                                                       *)
(***************************************************************************)
EXTENDS SGroupStartup, FiniteSetTheorems, SequenceTheorems, TLAPS

InPreprocess == {"lock"} \cup InLock

\* The local variables of the processes are set where they are used, and the
\* pod a creator has just created belongs to no SGroup yet and to no other
\* creator: what makes SgOf(q) constant while q is in preprocessBeforeReady.
LocalsOK ==
    /\ \A g \in SGroups : pc[g] \in CreatorLabels \cup InPreprocess
    /\ \A p \in Pods : pc[p] \in HandlerLabels \cup InPreprocess
    /\ \A p \in created : port[p] \in Ports
    /\ \A p \in Pods \ created : insSg[p] = None
    /\ \A g \in SGroups :
        /\ pc[g] \in {"pool", "append"} => fresh[g] # None
        /\ fresh[g] # None => /\ fresh[g] \in created /\ insSg[fresh[g]] = None
                              /\ \A h \in SGroups \ {g} : fresh[h] # fresh[g]
    /\ \A p \in Pods :
        /\ pc[p] # "none" => handled[p] \in Pods
        /\ pc[p] \in InPreprocess => insSg[handled[p]] \in SGroups

LocalInv == TypeOK /\ LocalsOK

\* All processes start with empty locals.
LEMMA LocalInvInit == Init => LocalInv
  <1> SUFFICES ASSUME Init PROVE LocalInv OBVIOUS
  <1> USE DEF Init
  <1>1. TypeOK BY ConstAssumption DEF TypeOK, Procs, Labels, CreatorLabels
  <1>2. LocalsOK
    BY ConstAssumption
    DEF LocalsOK, Procs, CreatorLabels, HandlerLabels, InPreprocess, InLock
  <1> QED BY <1>1, <1>2 DEF LocalInv

\* A process in preprocessBeforeReady is there with one SGroup.
LEMMA SgOfType ==
  ASSUME LocalInv, NEW q \in Procs, pc[q] \in InPreprocess
  PROVE  SgOf(q) \in SGroups
  BY DEF LocalInv, LocalsOK, SgOf, Procs

\* A pod's name is new as long as there is one.
LEMMA NewPodType == 
  ASSUME created \subseteq Pods, created # Pods
  PROVE  NewPod \in Pods \ created
  BY DEF NewPod

\* A process whose goroutine ends leaves its locals in order.
LEMMA ReturnType ==
  ASSUME TypeOK, NEW q \in Procs, Return(q)
  PROVE  pc' \in [Procs -> Labels] /\ handled' \in [Pods -> Pods \cup {None}]
  BY DEF TypeOK, Return, Goto, Labels, CreatorLabels, HandlerLabels

\* Ending a goroutine keeps every process's locals typed.
LEMMA ReturnLocals ==
  ASSUME LocalInv, NEW q \in Procs, Return(q),
         UNCHANGED <<port, created, insSg, fresh>>
  PROVE  LocalsOK'
  BY ConstAssumption
  DEF LocalInv, TypeOK, LocalsOK, Return, Goto, Procs, CreatorLabels,
      HandlerLabels, InPreprocess, InLock

\* Every step keeps them typed.
LEMMA LocalInvNext == LocalInv /\ [Next]_vars => LocalInv'
  <1> SUFFICES ASSUME LocalInv, [Next]_vars PROVE LocalInv' OBVIOUS
  <1> USE ConstAssumption DEF LocalInv, poolVars, workerVars, schedVars, listVars, sgVars, insVars,
          Goto, Return
  <1>1. ASSUME NEW g \in SGroups, GetFreeSGroup(g) PROVE LocalInv'
    <2>1. TypeOK' BY <1>1 DEF GetFreeSGroup, TypeOK, Labels, CreatorLabels, Procs
    <2>2. LocalsOK' BY <1>1 DEF GetFreeSGroup, TypeOK, LocalsOK, Procs,
                       CreatorLabels, InPreprocess, InLock
    <2> QED BY <2>1, <2>2
  <1>2. ASSUME NEW g \in SGroups, CreateDeployment(g) PROVE LocalInv'
    <2>0. NewPod \in Pods \ created BY <1>2, NewPodType DEF CreateDeployment, TypeOK
    <2>1. TypeOK' BY <1>2, <2>0 DEF CreateDeployment, TypeOK, Labels, CreatorLabels, Procs
    <2>2. LocalsOK' BY <1>2, <2>0 DEF CreateDeployment, TypeOK, LocalsOK, Procs,
                       CreatorLabels, InPreprocess, InLock
    <2> QED BY <2>1, <2>2
  <1>3. ASSUME NEW g \in SGroups, FailDeployment(g) PROVE LocalInv'
    <2>1. TypeOK' BY <1>3 DEF FailDeployment, TypeOK, Labels, CreatorLabels, Procs
    <2>2. LocalsOK' BY <1>3 DEF FailDeployment, TypeOK, LocalsOK, Procs,
                       CreatorLabels, InPreprocess, InLock
    <2> QED BY <2>1, <2>2
  <1>4. ASSUME NEW g \in SGroups, PoolAdd(g) PROVE LocalInv'
    <2>1. TypeOK' BY <1>4 DEF PoolAdd, TypeOK, LocalsOK, Labels, CreatorLabels, Procs
    <2>2. LocalsOK' BY <1>4 DEF PoolAdd, TypeOK, LocalsOK, Procs,
                       CreatorLabels, InPreprocess, InLock
    <2> QED BY <2>1, <2>2
  <1>5. ASSUME NEW g \in SGroups, AppendInstance(g) PROVE LocalInv'
    <2>0. fresh[g] \in Pods BY <1>5 DEF AppendInstance, TypeOK, LocalsOK
    <2>1. TypeOK'
      <3>1. Append(instances[g], fresh[g]) \in Seq(Pods) BY <2>0, AppendProperties DEF TypeOK
      <3> QED BY <1>5, <2>0, <3>1 DEF AppendInstance, TypeOK, Labels, CreatorLabels, Procs
    <2>2. LocalsOK' BY <1>5, <2>0 DEF AppendInstance, TypeOK, LocalsOK, Procs,
                       CreatorLabels, InPreprocess, InLock
    <2> QED BY <2>1, <2>2
  <1>6. ASSUME NEW g \in SGroups, Reset(g) PROVE LocalInv'
    <2>1. TypeOK'
      <3>1. usedPorts' \subseteq Ports BY <1>6 DEF Reset, TypeOK
      <3>2. instances' \in [SGroups -> Seq(Pods)]
        <4>1. <<>> \in Seq(Pods) OBVIOUS
        <4> QED BY <4>1, <1>6 DEF Reset, TypeOK
      <3>3. pc' \in [Procs -> Labels] BY <1>6 DEF Reset, TypeOK, Labels, CreatorLabels
      <3> QED BY <1>6, <3>1, <3>2, <3>3 DEF Reset, TypeOK
    <2>2. LocalsOK' BY <1>6 DEF Reset, TypeOK, LocalsOK, Procs,
                       CreatorLabels, InPreprocess, InLock
    <2> QED BY <2>1, <2>2
  <1>7. ASSUME NEW g \in SGroups, PutBack(g) PROVE LocalInv'
    <2>1. TypeOK' BY <1>7 DEF PutBack, TypeOK, Labels, CreatorLabels, Procs
    <2>2. LocalsOK' BY <1>7 DEF PutBack, TypeOK, LocalsOK, Procs,
                       CreatorLabels, InPreprocess, InLock
    <2> QED BY <2>1, <2>2
  <1>8. ASSUME NEW g \in SGroups, Deploy(g) PROVE LocalInv'
    <2>1. TypeOK' BY <1>8 DEF Deploy, TypeOK, Labels, CreatorLabels, Procs
    <2>2. LocalsOK' BY <1>8 DEF Deploy, TypeOK, LocalsOK, Procs,
                       CreatorLabels, InPreprocess, InLock
    <2> QED BY <2>1, <2>2
  <1>9. ASSUME NEW g \in SGroups, Complete(g) PROVE LocalInv'
    <2>1. TypeOK' BY <1>9 DEF Complete, CompleteThen, TypeOK, Labels, CreatorLabels, Procs
    <2>2. LocalsOK' BY <1>9 DEF Complete, CompleteThen, TypeOK, LocalsOK, Procs,
                       CreatorLabels, InPreprocess, InLock
    <2> QED BY <2>1, <2>2
  <1>10. ASSUME NEW p \in Pods, InstanceSetUp(p) PROVE LocalInv'
    <2>1. TypeOK' BY <1>10 DEF InstanceSetUp, TypeOK, LocalsOK, Labels, HandlerLabels, Procs
    <2>2. LocalsOK'
      <3>1. insStartupPool[port[p]] \in Pods
        <4>1. port[p] \in Ports BY <1>10 DEF InstanceSetUp, LocalsOK
        <4>2. insStartupPool[port[p]] # None BY <1>10 DEF InstanceSetUp
        <4> QED BY <4>1, <4>2 DEF TypeOK
      <3>2. /\ handled' = [handled EXCEPT ![p] = insStartupPool[port[p]]]
            /\ pc' = [pc EXCEPT ![p] = "readSg"]
            /\ UNCHANGED <<port, created, insSg, fresh>>
        BY <1>10 DEF InstanceSetUp
      <3> QED BY <3>1, <3>2 DEF TypeOK, LocalsOK, Procs, HandlerLabels,
              InPreprocess, InLock
    <2> QED BY <2>1, <2>2
  <1>11. ASSUME NEW p \in Pods, ReadSg(p) PROVE LocalInv'
    <2>1. CASE insSg[handled[p]] # None
      <3>1. /\ pc' = [pc EXCEPT ![p] = "lock"] /\ pc[p] = "readSg"
            /\ UNCHANGED <<poolVars, workerVars, schedVars, listVars, sgVars,
                           insVars, sgLock>>
        BY <2>1, <1>11 DEF ReadSg
      <3>2. TypeOK' BY <3>1 DEF TypeOK, Labels
      <3>3. LocalsOK' BY <2>1, <3>1 DEF TypeOK, LocalsOK, Procs, InPreprocess,
                         InLock, HandlerLabels, CreatorLabels
      <3> QED BY <3>2, <3>3
    <2>2. CASE insSg[handled[p]] = None
      <3>1. Return(p) /\ UNCHANGED <<port, created, insSg, fresh>> BY <2>2, <1>11 DEF ReadSg
      <3>2. pc' \in [Procs -> Labels] /\ handled' \in [Pods -> Pods \cup {None}]
        <4>1. p \in Procs /\ TypeOK BY DEF Procs
        <4> QED BY <3>1, <4>1, ReturnType
      <3>3. UNCHANGED <<poolVars, workerVars, schedVars, listVars, sgVars,
                        insSg, tid, sgLock>>
        BY <1>11 DEF ReadSg
      <3>4. TypeOK' BY <3>2, <3>3 DEF TypeOK
      <3>5. LocalsOK' BY <3>1, ReturnLocals DEF Procs
      <3> QED BY <3>4, <3>5
    <2> QED BY <2>1, <2>2
  <1>12. ASSUME NEW q \in Procs, Lock(q) PROVE LocalInv'
    <2>1. TypeOK' BY <1>12 DEF Lock, TypeOK, Labels, InLock, Procs
    <2>2. LocalsOK' BY <1>12 DEF Lock, TypeOK, LocalsOK, Procs,
                       HandlerLabels, CreatorLabels, InPreprocess, InLock
    <2> QED BY <2>1, <2>2
  <1>13. ASSUME NEW q \in Procs, Check(q) PROVE LocalInv'
    <2>0. SgOf(q) \in SGroups BY <1>13, SgOfType DEF Check, CheckIf, InPreprocess, InLock
    <2>1. CASE pc' = [pc EXCEPT ![q] = "connect"] /\ UNCHANGED <<handled, sgLock>>
      <3>1. TypeOK' BY <2>1, <1>13 DEF Check, CheckIf, TypeOK, Labels, InLock
      <3>2. LocalsOK' BY <2>1, <1>13 DEF Check, CheckIf, TypeOK, LocalsOK, Procs,
                         HandlerLabels, CreatorLabels, InPreprocess, InLock
      <3> QED BY <3>1, <3>2
    <2>2. CASE Return(q) /\ sgLock' = [sgLock EXCEPT ![SgOf(q)] = None]
      <3>1. TypeOK' BY <2>0, <2>2, <1>13, ReturnType DEF Check, CheckIf, TypeOK
      <3>2. LocalsOK' BY <2>2, <1>13, ReturnLocals DEF Check, CheckIf
      <3> QED BY <3>1, <3>2
    <2> QED BY <2>1, <2>2, <1>13 DEF Check, CheckIf
  <1>14. ASSUME NEW q \in Procs, Connect(q) PROVE LocalInv'
    <2>0. SgOf(q) \in SGroups BY <1>14, SgOfType DEF Connect, InPreprocess, InLock
    <2>1. TypeOK' BY <1>14, <2>0 DEF Connect, TypeOK, Labels, InLock, Procs
    <2>2. LocalsOK' BY <1>14 DEF Connect, TypeOK, LocalsOK, Procs,
                       HandlerLabels, CreatorLabels, InPreprocess, InLock
    <2> QED BY <2>1, <2>2
  <1>15. ASSUME NEW q \in Procs, PassBarrier(q) PROVE LocalInv'
    <2>1. TypeOK' BY <1>15 DEF PassBarrier, NotifyScheduler, TypeOK, Labels, InLock, Procs
    <2>2. LocalsOK' BY <1>15 DEF PassBarrier, NotifyScheduler, TypeOK, LocalsOK, Procs,
                       HandlerLabels, CreatorLabels, InPreprocess, InLock
    <2> QED BY <2>1, <2>2
  <1>16. ASSUME NEW q \in Procs, SetReady(q) PROVE LocalInv'
    <2>0. SgOf(q) \in SGroups BY <1>16, SgOfType DEF SetReady, InPreprocess, InLock
    <2>1. TypeOK' BY <1>16, <2>0 DEF SetReady, TypeOK, Labels, HandlerLabels, CreatorLabels, Procs
    <2>2. LocalsOK' BY <1>16 DEF SetReady, TypeOK, LocalsOK, Procs,
                       HandlerLabels, CreatorLabels, InPreprocess, InLock
    <2> QED BY <2>1, <2>2
  <1>17. CASE ScheduleOnce
    <2>1. /\ sgMutex' \in {None, Scheduler} /\ scan' \subseteq SGroups
          /\ UNCHANGED <<poolVars, workerVars, listVars, sgVars, insVars,
                         sgLock, pc>>
      BY <1>17 DEF ScheduleOnce, BeginPass, EndPass, Visit, TypeOK
    <2> QED BY <2>1 DEF TypeOK, LocalsOK
  <1>18. CASE UNCHANGED vars
    BY <1>18 DEF vars, TypeOK, LocalsOK
  <1> HIDE DEF LocalInv, poolVars, workerVars, schedVars, listVars, sgVars,
           insVars, Goto, Return
  <1>19. ASSUME NEW g \in SGroups, GetFreeSGroup(g) \/ Create(g) PROVE LocalInv'
    BY <1>19, <1>1, <1>2, <1>3, <1>4, <1>5, <1>6, <1>7, <1>8, <1>9 DEF Create
  <1>20. ASSUME NEW p \in Pods, SetUp(p) PROVE LocalInv'
    BY <1>20, <1>10, <1>11 DEF SetUp
  <1>21. ASSUME NEW q \in Procs, Preprocess(q) PROVE LocalInv'
    BY <1>21, <1>12, <1>13, <1>14, <1>15, <1>16 DEF Preprocess
  <1>22. CASE Next
    BY <1>22, <1>17, <1>19, <1>20, <1>21 DEF Next
  <1> QED
    BY <1>18, <1>22

\* TypeOK holds in every reachable state.
THEOREM TypeCorrect == Spec => []TypeOK
  <1>1. LocalInv => TypeOK BY DEF LocalInv
  <1> QED BY LocalInvInit, LocalInvNext, <1>1, PTL DEF Spec

-----------------------------------------------------------------------------
(* Mutual exclusion in preprocessBeforeReady. *)

\* ins.sg is set once: no step takes an instance from its SGroup.
LEMMA InsSgStable ==
  ASSUME LocalInv, [Next]_vars
  PROVE  \A p \in Pods : insSg[p] # None => insSg'[p] = insSg[p]
  <1>1. ASSUME NEW g \in SGroups, AppendInstance(g)
        PROVE  \A p \in Pods : insSg[p] # None => insSg'[p] = insSg[p]
    <2>1. /\ insSg[fresh[g]] = None
          /\ insSg' = [insSg EXCEPT ![fresh[g]] = g]
      BY <1>1 DEF AppendInstance, LocalInv, LocalsOK
    <2> QED BY <2>1 DEF LocalInv, TypeOK
  <1>2. CASE UNCHANGED insSg BY <1>2
  <1>3. (\E g \in SGroups : AppendInstance(g)) \/ UNCHANGED insSg
    BY DEF Next, vars, insVars, Create, SetUp, Preprocess, ScheduleOnce,
       GetFreeSGroup, CreateDeployment, FailDeployment, PoolAdd, Reset,
       PutBack, Deploy, Complete, CompleteThen, InstanceSetUp, ReadSg, Lock,
       Check, CheckIf, Connect, PassBarrier, NotifyScheduler, SetReady,
       BeginPass, Visit, EndPass
  <1> QED BY <1>1, <1>2, <1>3

\* What a step of process x leaves alone in the others.
FrameOf(x) ==
    /\ \A p \in Pods \ {x} : handled'[p] = handled[p]
    /\ \A p \in Pods : insSg[p] # None => insSg'[p] = insSg[p]

\* Another process in preprocessBeforeReady stays with its SGroup.
LEMMA SgOfFrame ==
  ASSUME LocalInv, NEW x \in Procs, FrameOf(x),
         NEW q \in Procs \ {x}, pc[q] \in InPreprocess
  PROVE  SgOf(q)' = SgOf(q)
  <1>1. CASE q \in SGroups BY <1>1 DEF SgOf
  <1>2. CASE q \in Pods
    <2>1. handled[q] \in Pods /\ insSg[handled[q]] \in SGroups
      BY <1>2 DEF LocalInv, LocalsOK, InPreprocess, InLock
    <2>2. handled'[q] = handled[q] BY <1>2 DEF FrameOf
    <2>3. insSg'[handled[q]] = insSg[handled[q]]
      BY <2>1, ConstAssumption DEF FrameOf, Procs
    <2>4. q \notin SGroups BY <1>2, ConstAssumption
    <2> QED BY <2>2, <2>3, <2>4 DEF SgOf
  <1> QED BY <1>1, <1>2 DEF Procs

\* So does a process whose own step leaves its |ins| alone.
LEMMA SgOfSame ==
  ASSUME LocalInv, NEW q \in Procs, pc[q] \in InPreprocess, handled' = handled,
         \A p \in Pods : insSg[p] # None => insSg'[p] = insSg[p]
  PROVE  SgOf(q)' = SgOf(q)
  <1>1. CASE q \in SGroups BY <1>1 DEF SgOf
  <1>2. CASE q \in Pods
    <2>1. handled[q] \in Pods /\ insSg[handled[q]] \in SGroups
      BY <1>2 DEF LocalInv, LocalsOK, InPreprocess, InLock
    <2>2. insSg'[handled[q]] = insSg[handled[q]]
      BY <2>1, ConstAssumption DEF Procs
    <2>3. q \notin SGroups BY <1>2, ConstAssumption
    <2> QED BY <2>2, <2>3 DEF SgOf
  <1> QED BY <1>1, <1>2 DEF Procs

\* A step that neither enters nor leaves the critical section.
LEMMA LockedStay ==
  ASSUME LocalInv, LockedPreprocess, NEW x \in Procs, FrameOf(x), NEW l,
         pc' = [pc EXCEPT ![x] = l], pc[x] \in InLock <=> l \in InLock,
         sgLock' = sgLock, pc[x] \in InLock => SgOf(x)' = SgOf(x)
  PROVE  LockedPreprocess'
  <1> SUFFICES ASSUME NEW g \in SGroups, NEW q \in Procs
               PROVE  sgLock'[g] = q <=> pc'[q] \in InLock /\ SgOf(q)' = g
    BY DEF LockedPreprocess
  <1>1. CASE q = x BY <1>1 DEF LockedPreprocess, LocalInv, TypeOK
  <1>2. CASE q # x
    <2>1. pc'[q] = pc[q] BY <1>2 DEF LocalInv, TypeOK
    <2>2. pc[q] \in InLock => SgOf(q)' = SgOf(q)
      BY <1>2, SgOfFrame DEF InPreprocess
    <2> QED BY <2>1, <2>2 DEF LockedPreprocess
  <1> QED BY <1>1, <1>2

\* A step that leaves the critical section and unlocks.
LEMMA LockedLeave ==
  ASSUME LocalInv, LockedPreprocess, NEW x \in Procs, FrameOf(x), NEW l,
         pc' = [pc EXCEPT ![x] = l], pc[x] \in InLock, l \notin InLock,
         sgLock' = [sgLock EXCEPT ![SgOf(x)] = None]
  PROVE  LockedPreprocess'
  <1>0. SgOf(x) \in SGroups BY SgOfType DEF InPreprocess
  <1>1. sgLock[SgOf(x)] = x BY <1>0 DEF LockedPreprocess
  <1> SUFFICES ASSUME NEW g \in SGroups, NEW q \in Procs
               PROVE  sgLock'[g] = q <=> pc'[q] \in InLock /\ SgOf(q)' = g
    BY DEF LockedPreprocess
  <1>2. CASE q = x
    <2>1. sgLock[g] = x => g = SgOf(x) BY DEF LockedPreprocess
    <2> QED BY <2>1, <1>0, <1>2, ConstAssumption DEF LocalInv, TypeOK
  <1>3. CASE q # x
    <2>1. pc'[q] = pc[q] BY <1>3 DEF LocalInv, TypeOK
    <2>2. pc[q] \in InLock => SgOf(q)' = SgOf(q)
      BY <1>3, SgOfFrame DEF InPreprocess
    <2>3. sgLock'[g] = q <=> sgLock[g] = q
      BY <1>0, <1>1, <1>3, ConstAssumption DEF LocalInv, TypeOK
    <2> QED BY <2>1, <2>2, <2>3 DEF LockedPreprocess
  <1> QED BY <1>2, <1>3

\* Taking the free sg.mutex and giving it back keeps one holder.
LEMMA LockedNext ==
  LocalInv /\ LockedPreprocess /\ [Next]_vars => LockedPreprocess'
  <1> SUFFICES ASSUME LocalInv, LockedPreprocess, [Next]_vars
               PROVE  LockedPreprocess'
    OBVIOUS
  <1>0. \A p \in Pods : insSg[p] # None => insSg'[p] = insSg[p] BY InsSgStable
  <1>1. ASSUME NEW x \in Procs, NEW l, Goto(x, l), UNCHANGED <<handled, sgLock>>,
               pc[x] \in InLock <=> l \in InLock
        PROVE  LockedPreprocess'
    <2>1. FrameOf(x) BY <1>0, <1>1 DEF FrameOf
    <2>2. pc[x] \in InLock => SgOf(x)' = SgOf(x)
      BY <1>0, <1>1, SgOfSame DEF InPreprocess
    <2> QED BY <1>1, <2>1, <2>2, LockedStay DEF Goto
  <1>2. ASSUME NEW g \in SGroups, GetFreeSGroup(g) \/ Create(g)
        PROVE  LockedPreprocess'
    <2>1. PICK l \in CreatorLabels \cup {"lock"} :
            Goto(g, l) /\ UNCHANGED <<handled, sgLock>>
      BY <1>2 DEF GetFreeSGroup, Create, CreateDeployment, FailDeployment,
         PoolAdd, AppendInstance, Reset, PutBack, Deploy, Complete,
         CompleteThen, insVars, CreatorLabels
    <2>2. pc[g] \notin InLock
      BY <1>2 DEF GetFreeSGroup, Create, CreateDeployment, FailDeployment,
         PoolAdd, AppendInstance, Reset, PutBack, Deploy, Complete,
         CompleteThen, InLock
    <2>3. l \notin InLock BY DEF CreatorLabels, InLock
    <2> QED BY <1>1, <2>1, <2>2, <2>3 DEF Procs
  <1>3. ASSUME NEW p \in Pods, SetUp(p) PROVE LockedPreprocess'
    <2>1. PICK l \in {"none", "readSg", "lock"} : Goto(p, l)
      BY <1>3, ConstAssumption DEF SetUp, InstanceSetUp, ReadSg, Return
    <2>2. sgLock' = sgLock /\ pc[p] \notin InLock /\ l \notin InLock
      BY <1>3 DEF SetUp, InstanceSetUp, ReadSg, InLock
    <2>3. FrameOf(p)
      BY <1>0, <1>3 DEF FrameOf, SetUp, InstanceSetUp, ReadSg, Return,
         LocalInv, TypeOK
    <2> QED BY <2>1, <2>2, <2>3, LockedStay DEF Goto, Procs
  <1>4. ASSUME NEW q \in Procs, Lock(q) PROVE LockedPreprocess'
    <2>1. SgOf(q) \in SGroups BY <1>4, SgOfType DEF Lock, InPreprocess
    <2>2. FrameOf(q) BY <1>0, <1>4 DEF FrameOf, Lock, insVars
    <2>3. SgOf(q)' = SgOf(q) BY <1>4, <1>0, SgOfSame DEF Lock, insVars, InPreprocess
    <2> SUFFICES ASSUME NEW g \in SGroups, NEW r \in Procs
                 PROVE  sgLock'[g] = r <=> pc'[r] \in InLock /\ SgOf(r)' = g
      BY DEF LockedPreprocess
    <2>4. CASE r = q
      <3>1. pc'[q] \in InLock BY <1>4 DEF Lock, Goto, InLock, LocalInv, TypeOK
      <3>2. sgLock[g] # q BY <1>4 DEF Lock, LockedPreprocess, InLock
      <3> QED BY <2>1, <2>3, <2>4, <3>1, <3>2, <1>4 DEF Lock, LocalInv, TypeOK
    <2>5. CASE r # q
      <3>1. pc'[r] = pc[r] BY <1>4, <2>5 DEF Lock, Goto, LocalInv, TypeOK
      <3>2. pc[r] \in InLock => SgOf(r)' = SgOf(r)
        BY <2>2, <2>5, SgOfFrame DEF InPreprocess
      <3>3. sgLock'[g] = r <=> sgLock[g] = r
        BY <2>1, <2>5, <1>4, ConstAssumption DEF Lock, LocalInv, TypeOK
      <3> QED BY <3>1, <3>2, <3>3 DEF LockedPreprocess
    <2> QED BY <2>4, <2>5
  <1>5. ASSUME NEW q \in Procs, Return(q), pc[q] \in InLock,
               sgLock' = [sgLock EXCEPT ![SgOf(q)] = None]
        PROVE  LockedPreprocess'
    <2>1. PICK l \in {"none", "done"} : Goto(q, l) BY <1>5 DEF Return
    <2>2. FrameOf(q) BY <1>0, <1>5 DEF FrameOf, Return, LocalInv, TypeOK
    <2>3. l \notin InLock BY DEF InLock
    <2> QED BY <1>5, <2>1, <2>2, <2>3, LockedLeave DEF Goto
  <1>6. ASSUME NEW q \in Procs, Check(q) PROVE LockedPreprocess'
    <2>1. pc[q] = "check" BY <1>6 DEF Check, CheckIf
    <2>2. CASE Goto(q, "connect") /\ UNCHANGED <<handled, sgLock>>
      BY <1>1, <2>1, <2>2 DEF InLock
    <2>3. CASE Return(q) /\ sgLock' = [sgLock EXCEPT ![SgOf(q)] = None]
      BY <1>5, <2>1, <2>3 DEF InLock
    <2> QED BY <1>6, <2>2, <2>3 DEF Check, CheckIf
  <1>7. ASSUME NEW q \in Procs, Connect(q) \/ PassBarrier(q)
        PROVE  LockedPreprocess'
    <2>1. PICK l \in {"wait", "release"} : Goto(q, l)
      BY <1>7 DEF Connect, PassBarrier, NotifyScheduler
    <2>2. pc[q] \in InLock /\ l \in InLock /\ UNCHANGED <<handled, sgLock>>
      BY <1>7 DEF Connect, PassBarrier, NotifyScheduler, InLock, insVars
    <2> QED BY <1>1, <2>1, <2>2
  <1>8. ASSUME NEW q \in Procs, SetReady(q) PROVE LockedPreprocess'
    BY <1>5, <1>8 DEF SetReady, InLock
  <1>9. CASE ScheduleOnce \/ UNCHANGED vars
    <2>1. UNCHANGED <<pc, sgLock, insVars>>
      BY <1>9 DEF ScheduleOnce, BeginPass, Visit, EndPass, vars
    <2> QED BY <2>1 DEF LockedPreprocess, SgOf, insVars
  <1> QED BY <1>2, <1>3, <1>4, <1>6, <1>7, <1>8, <1>9 DEF Next, Preprocess

\* sg.mutex excludes: of the creator and the handlers of a SGroup, one at a
\* time is between the check and the return of preprocessBeforeReady.
THEOREM MutualExclusion == Spec => []LockedPreprocess
  <1>1. Init => LockedPreprocess
    BY ConstAssumption DEF Init, LockedPreprocess, InLock, Procs
  <1> QED BY <1>1, LocalInvInit, LocalInvNext, LockedNext, PTL DEF Spec

-----------------------------------------------------------------------------
(* How far a SGroup is built, by where its creator is. *)

Deployed == {"complete", "lock", "done"} \cup InLock

BuildInv ==
    /\ \A g \in SGroups :
        /\ g \in freeSGroups => pc[g] = "none"
        /\ pc[g] \in {"none", "putback"} => instances[g] = <<>>
        /\ pc[g] \in {"create", "pool", "append"} =>
               Len(instances[g]) < ChainLen[g]
        /\ pc[g] \in {"deploy"} \cup Deployed =>
               Len(instances[g]) = ChainLen[g]
        /\ g \in sgroups <=> pc[g] \in Deployed
        /\ isComplete[g] <=> pc[g] \in Deployed \ {"complete"}
    /\ sgroupTarget = Cardinality(sgroups)

\* All SGroups start free, with no creator.
LEMMA BuildInit == Init => BuildInv
  BY ConstAssumption, FS_EmptySet DEF Init, BuildInv, Deployed, InLock, Procs

\* A step that moves creators within what BuildInv does not tell apart.
LEMMA BuildFrame ==
  ASSUME LocalInv, BuildInv,
         UNCHANGED <<workerVars, instances, isComplete>>,
         \A g \in SGroups : pc'[g] = pc[g] \/
             {pc[g], pc'[g]} \subseteq {"lock", "done"} \cup InLock
  PROVE  BuildInv'
  BY DEF BuildInv, Deployed, InLock, workerVars

\* Each step moves a SGroup and its creator together.
LEMMA BuildNext == LocalInv /\ BuildInv /\ [Next]_vars => BuildInv'
  <1> SUFFICES ASSUME LocalInv, BuildInv, [Next]_vars PROVE BuildInv' OBVIOUS
  <1> USE DEF LocalInv
  <1>0. IsFiniteSet(sgroups) /\ sgroupTarget \in Nat
    BY ConstAssumption, FS_Subset DEF TypeOK
  <1>1. ASSUME NEW g \in SGroups, GetFreeSGroup(g) PROVE BuildInv'
    <2>1. Len(<<>>) < ChainLen[g] BY ConstAssumption
    <2> QED BY <1>1, <2>1
        DEF GetFreeSGroup, Goto, BuildInv, TypeOK, Deployed, InLock, sgVars, Procs
  <1>2. ASSUME NEW g \in SGroups,
               CreateDeployment(g) \/ FailDeployment(g) \/ PoolAdd(g)
        PROVE BuildInv'
    <2>1. UNCHANGED <<workerVars, instances, isComplete>>
      BY <1>2 DEF CreateDeployment, FailDeployment, PoolAdd, sgVars
    <2>2. PICK l \in {"pool", "reset", "append"} :
            pc' = [pc EXCEPT ![g] = l]
      BY <1>2 DEF CreateDeployment, FailDeployment, PoolAdd, Goto
    <2>3. pc[g] \in {"create", "pool"}
      BY <1>2 DEF CreateDeployment, FailDeployment, PoolAdd
    <2> QED BY <2>1, <2>2, <2>3
        DEF BuildInv, TypeOK, Deployed, InLock, workerVars, Procs
  <1>3. ASSUME NEW g \in SGroups, AppendInstance(g) PROVE BuildInv'
    <2>1. fresh[g] \in Pods BY <1>3 DEF AppendInstance, TypeOK, LocalsOK
    <2>2. /\ Len(Append(instances[g], fresh[g])) = Len(instances[g]) + 1
          /\ Len(instances[g]) \in Nat
      BY <2>1, AppendProperties DEF TypeOK
    <2>3. ChainLen[g] \in Nat BY ConstAssumption
    <2>4. /\ Len(instances[g]) < ChainLen[g]
          /\ instances' = [instances EXCEPT ![g] = Append(@, fresh[g])]
          /\ UNCHANGED <<workerVars, isComplete>>
          /\ pc[g] = "append"
      BY <1>3 DEF AppendInstance, BuildInv
    <2>5. CASE Len(instances[g]) + 1 = ChainLen[g]
      <3>1. pc' = [pc EXCEPT ![g] = "deploy"] BY <1>3, <2>5 DEF AppendInstance, Goto
      <3> QED BY <2>2, <2>3, <2>4, <2>5, <3>1
          DEF BuildInv, TypeOK, Deployed, InLock, workerVars, Procs
    <2>6. CASE Len(instances[g]) + 1 # ChainLen[g]
      <3>1. pc' = [pc EXCEPT ![g] = "create"] BY <1>3, <2>6 DEF AppendInstance, Goto
      <3> QED BY <2>2, <2>3, <2>4, <2>6, <3>1
          DEF BuildInv, TypeOK, Deployed, InLock, workerVars, Procs
    <2> QED BY <2>5, <2>6
  <1>4. ASSUME NEW g \in SGroups, Reset(g) \/ PutBack(g) PROVE BuildInv'
    BY <1>4 DEF Reset, PutBack, Goto, BuildInv,
       TypeOK, Deployed, InLock, sgVars, workerVars, Procs
  <1>5. ASSUME NEW g \in SGroups, Deploy(g) PROVE BuildInv'
    <2>1. g \notin sgroups BY <1>5 DEF Deploy, BuildInv, Deployed, InLock
    <2>2. Cardinality(sgroups') = Cardinality(sgroups) + 1
      BY <1>0, <1>5, <2>1, FS_AddElement DEF Deploy
    <2> QED BY <1>5, <2>2
        DEF Deploy, Goto, BuildInv, TypeOK, Deployed, InLock, sgVars, Procs
  <1>6. ASSUME NEW g \in SGroups, Complete(g) PROVE BuildInv'
    BY <1>6 DEF Complete, CompleteThen, Goto, BuildInv,
       TypeOK, Deployed, InLock, workerVars, Procs
  <1>7. ASSUME NEW p \in Pods, SetUp(p) PROVE BuildInv'
    <2>0. PICK l : pc' = [pc EXCEPT ![p] = l]
      BY <1>7 DEF SetUp, InstanceSetUp, ReadSg, Goto, Return
    <2>1. \A g \in SGroups : pc'[g] = pc[g]
      BY <2>0, ConstAssumption DEF TypeOK, Procs
    <2>2. UNCHANGED <<workerVars, instances, isComplete>>
      BY <1>7 DEF SetUp, InstanceSetUp, ReadSg, sgVars
    <2> QED BY <2>1, <2>2, BuildFrame
  <1>8. ASSUME NEW q \in Procs, Preprocess(q), ~ Connect(q) PROVE BuildInv'
    <2>1. UNCHANGED <<workerVars, instances, isComplete>>
      BY <1>8 DEF Preprocess, Lock, Check, CheckIf, PassBarrier,
         NotifyScheduler, SetReady, sgVars
    <2>2. \A g \in SGroups : pc'[g] = pc[g] \/
             {pc[g], pc'[g]} \subseteq {"lock", "done"} \cup InLock
      <3>1. pc[q] \in {"lock"} \cup InLock
        BY <1>8 DEF Preprocess, Lock, Check, CheckIf, PassBarrier,
           NotifyScheduler, SetReady, InLock
      <3>2. PICK l \in {"done", "none"} \cup InLock :
              /\ pc' = [pc EXCEPT ![q] = l]
              /\ q \in SGroups => l # "none"
        BY <1>8 DEF Preprocess, Lock, Check, CheckIf, PassBarrier, Goto,
           Return, NotifyScheduler, SetReady, InLock
      <3> QED BY <3>1, <3>2 DEF TypeOK
    <2> QED BY <2>1, <2>2, BuildFrame
  <1>9. ASSUME NEW q \in Procs, Connect(q) PROVE BuildInv'
    BY <1>9 DEF Connect, Goto, BuildInv, TypeOK, Deployed, InLock, sgVars
  <1>10. CASE ScheduleOnce \/ UNCHANGED vars
    <2>1. UNCHANGED <<pc, workerVars, instances, isComplete>>
      BY <1>10 DEF ScheduleOnce, BeginPass, Visit, EndPass, vars, sgVars
    <2> QED BY <2>1, BuildFrame
  <1> HIDE DEF LocalInv
  <1>11. ASSUME NEW g \in SGroups, Create(g) PROVE BuildInv'
    BY <1>11, <1>2, <1>3, <1>4, <1>5, <1>6 DEF Create
  <1>12. ASSUME NEW q \in Procs, Preprocess(q) PROVE BuildInv'
    BY <1>12, <1>8, <1>9
  <1> QED BY <1>1, <1>7, <1>10, <1>11, <1>12 DEF Next

-----------------------------------------------------------------------------
(* The barrier. *)

Connecting == {"connect", "wait", "release"}

AtBarrier(g) == \E q \in Procs : pc[q] \in {"wait", "release"} /\ SgOf(q) = g

\* Who is in w.sgroupConns: the SGroups that are ready and those that a
\* process waits at the barrier with or has just passed it with.
ConnInv ==
    /\ IsInjective(sgroupConns)
    /\ \A g \in SGroups :
        /\ g \in Range(sgroupConns) <=> isReady[g] \/ AtBarrier(g)
        /\ g \in Range(sgroupConns) => isComplete[g] /\ AllUp(g)
    /\ \A q \in Procs : pc[q] \in Connecting =>
        isComplete[SgOf(q)] /\ ~isReady[SgOf(q)] /\ AllUp(SgOf(q))

IInv == LocalInv /\ LockedPreprocess /\ BuildInv /\ ConnInv

\* The barrier starts empty.
LEMMA ConnInit == Init => ConnInv
  BY ConstAssumption DEF Init, ConnInv, IsInjective, Range, AtBarrier, Connecting

\* Once a chain is complete its instances stay, and no tid is ever unset.
LEMMA UpStable ==
  ASSUME IInv, [Next]_vars, NEW g \in SGroups, isComplete[g]
  PROVE  isComplete'[g] /\ (AllUp(g) => AllUp(g)')
  <1>1. pc[g] \notin {"append", "reset"}
    BY DEF IInv, BuildInv, Deployed, InLock
  <1>2. instances'[g] = instances[g]
    <2>1. \/ instances' = instances
          \/ \E h \in SGroups : \E s : /\ pc[h] \in {"append", "reset"}
                                     /\ instances' = [instances EXCEPT ![h] = s]
      BY DEF Next, vars, sgVars, Create, SetUp, Preprocess, ScheduleOnce,
         GetFreeSGroup, CreateDeployment, FailDeployment, PoolAdd, Reset,
         AppendInstance, PutBack, Deploy, Complete, CompleteThen,
         InstanceSetUp, ReadSg, Lock, Check, CheckIf, Connect, PassBarrier,
         NotifyScheduler, SetReady, BeginPass, Visit, EndPass
    <2> QED BY <1>1, <2>1 DEF IInv, LocalInv, TypeOK
  <1>3. \A p \in Pods : tid[p] # None => tid'[p] # None
    <2>1. \/ tid' = tid
          \/ \E p \in Pods : \E n : tid' = [tid EXCEPT ![n] = p]
      BY DEF Next, vars, insVars, Create, SetUp, Preprocess, ScheduleOnce,
         GetFreeSGroup, CreateDeployment, FailDeployment, PoolAdd, Reset,
         AppendInstance, PutBack, Deploy, Complete, CompleteThen,
         InstanceSetUp, ReadSg, Lock, Check, CheckIf, Connect, PassBarrier,
         NotifyScheduler, SetReady, BeginPass, Visit, EndPass
    <2> QED BY <2>1, ConstAssumption DEF IInv, LocalInv, TypeOK, Procs
  <1>4. isComplete'[g]
    <2>1. \/ isComplete' = isComplete
          \/ \E h \in SGroups : isComplete' = [isComplete EXCEPT ![h] = TRUE]
      BY DEF Next, vars, sgVars, Create, SetUp, Preprocess, ScheduleOnce,
         GetFreeSGroup, CreateDeployment, FailDeployment, PoolAdd, Reset,
         AppendInstance, PutBack, Deploy, Complete, CompleteThen,
         InstanceSetUp, ReadSg, Lock, Check, CheckIf, Connect, PassBarrier,
         NotifyScheduler, SetReady, BeginPass, Visit, EndPass
    <2> QED BY <2>1 DEF IInv, LocalInv, TypeOK
  <1>5. \A p \in Range(instances[g]) : p \in Pods
    BY DEF IInv, LocalInv, TypeOK, Range
  <1> QED BY <1>2, <1>3, <1>4, <1>5 DEF AllUp

\* A step that moves no process to, within or from the barrier.
LEMMA ConnFrame ==
  ASSUME IInv, [Next]_vars, UNCHANGED <<sgroupConns, isReady>>,
         \A q \in Procs : /\ pc'[q] \in Connecting \/ pc[q] \in Connecting
                               => pc'[q] = pc[q]
                          /\ pc[q] \in Connecting => SgOf(q)' = SgOf(q)
  PROVE  ConnInv'
  <1>1. \A g \in SGroups : AtBarrier(g)' <=> AtBarrier(g)
    BY DEF AtBarrier, Connecting
  <1>2. \A q \in Procs : pc[q] \in Connecting => SgOf(q) \in SGroups
    BY SgOfType DEF IInv, Connecting, InPreprocess, InLock
  <1>3. IsInjective(sgroupConns)' BY DEF IInv, ConnInv
  <1>4. ASSUME NEW g \in SGroups
        PROVE  /\ (g \in Range(sgroupConns) <=> isReady[g] \/ AtBarrier(g))'
               /\ (g \in Range(sgroupConns) => isComplete[g] /\ AllUp(g))'
    BY <1>1, UpStable DEF IInv, ConnInv
  <1>5. ASSUME NEW q \in Procs, pc'[q] \in Connecting
        PROVE  (isComplete[SgOf(q)] /\ ~isReady[SgOf(q)] /\ AllUp(SgOf(q)))'
    <2>1. pc[q] \in Connecting /\ SgOf(q)' = SgOf(q) BY <1>5
    <2>2. PICK g \in SGroups : g = SgOf(q) BY <1>2, <2>1
    <2>3. isComplete[g] /\ ~isReady[g] /\ AllUp(g)
      BY <2>1, <2>2 DEF IInv, ConnInv
    <2>4. isComplete'[g] /\ ~isReady'[g] /\ AllUp(g)' BY <2>3, UpStable
    <2> QED BY <2>1, <2>2, <2>4 DEF AllUp
  <1> QED BY <1>3, <1>4, <1>5 DEF ConnInv

\* The processes other than the one that took a step.
LEMMA Others ==
  ASSUME IInv, NEW x \in Procs, FrameOf(x), NEW l, pc' = [pc EXCEPT ![x] = l],
         NEW q \in Procs \ {x}
  PROVE  /\ pc'[q] = pc[q]
         /\ pc[q] \in Connecting => SgOf(q)' = SgOf(q)
  BY SgOfFrame DEF IInv, LocalInv, TypeOK, Connecting, InPreprocess, InLock

\* Appending what a sequence does not hold keeps it without duplicates.
LEMMA AppendNew ==
  ASSUME NEW S, NEW s \in Seq(S), NEW e \in S, e \notin Range(s), IsInjective(s)
  PROVE  /\ IsInjective(Append(s, e))
         /\ Range(Append(s, e)) = Range(s) \cup {e}
  <1> DEFINE t == Append(s, e)
  <1>1. /\ t \in Seq(S) /\ Len(t) = Len(s) + 1 /\ Len(s) \in Nat
        /\ \A i \in 1 .. Len(s) : t[i] = s[i]
        /\ t[Len(s) + 1] = e
    BY AppendProperties
  <1>2. DOMAIN s = 1 .. Len(s) /\ DOMAIN t = 1 .. Len(s) + 1 BY <1>1
  <1> HIDE DEF t
  <1>3. IsInjective(t) BY <1>1, <1>2 DEF IsInjective, Range
  <1>4. Range(t) = Range(s) \cup {e} BY <1>1, <1>2 DEF Range
  <1> QED BY <1>3, <1>4 DEF t

\* What append adds to a list.
LEMMA AppendRange ==
  ASSUME NEW S, NEW s \in Seq(S), NEW e \in S
  PROVE  Range(Append(s, e)) = Range(s) \cup {e}
  <1> DEFINE t == Append(s, e)
  <1>1. /\ Len(t) = Len(s) + 1 /\ Len(s) \in Nat /\ t \in Seq(S)
        /\ \A i \in 1 .. Len(s) : t[i] = s[i]
        /\ t[Len(s) + 1] = e
    BY AppendProperties
  <1>2. DOMAIN s = 1 .. Len(s) /\ DOMAIN t = 1 .. Len(s) + 1 BY <1>1
  <1> HIDE DEF t
  <1>3. Range(t) = Range(s) \cup {e} BY <1>1, <1>2 DEF Range
  <1> QED BY <1>3 DEF t

\* What ConnInv says of a process is kept by the steps of the others that do
\* not make its SGroup ready.
LEMMA OthersConnecting ==
  ASSUME IInv, [Next]_vars, NEW x \in Procs, FrameOf(x),
         NEW l, pc' = [pc EXCEPT ![x] = l],
         NEW r \in Procs \ {x}, pc[r] \in Connecting,
         isReady'[SgOf(r)] = isReady[SgOf(r)]
  PROVE  (isComplete[SgOf(r)] /\ ~isReady[SgOf(r)] /\ AllUp(SgOf(r)))'
  <1>1. SgOf(r)' = SgOf(r) BY Others
  <1>2. PICK h \in SGroups : h = SgOf(r)
    BY SgOfType DEF IInv, Connecting, InPreprocess, InLock
  <1>3. isComplete[h] /\ ~isReady[h] /\ AllUp(h) BY <1>2 DEF IInv, ConnInv
  <1>4. isComplete'[h] /\ ~isReady'[h] /\ AllUp(h)' BY <1>2, <1>3, UpStable
  <1> QED BY <1>1, <1>2, <1>4 DEF AllUp

\* Only a process past the check joins the barrier, and once.
LEMMA ConnNext == IInv /\ [Next]_vars => ConnInv'
  <1> SUFFICES ASSUME IInv, [Next]_vars PROVE ConnInv' OBVIOUS
  <1>0. \A p \in Pods : insSg[p] # None => insSg'[p] = insSg[p]
    BY InsSgStable DEF IInv
  <1>1. ASSUME NEW x \in Procs, NEW l, pc' = [pc EXCEPT ![x] = l], FrameOf(x),
               pc[x] \notin Connecting, l \notin Connecting,
               UNCHANGED <<sgroupConns, isReady>>
        PROVE  ConnInv'
    <2>1. pc'[x] = l BY <1>1 DEF IInv, LocalInv, TypeOK
    <2> QED BY <1>1, <2>1, Others, ConnFrame
  <1>2. ASSUME NEW g \in SGroups, GetFreeSGroup(g) \/ Create(g) PROVE ConnInv'
    <2>1. PICK l \in CreatorLabels \cup {"lock"} : pc' = [pc EXCEPT ![g] = l]
      BY <1>2 DEF GetFreeSGroup, Create, CreateDeployment, FailDeployment,
         PoolAdd, AppendInstance, Reset, PutBack, Deploy, Complete,
         CompleteThen, CreatorLabels, Goto
    <2>2. pc[g] \in CreatorLabels
      BY <1>2 DEF GetFreeSGroup, Create, CreateDeployment, FailDeployment,
         PoolAdd, AppendInstance, Reset, PutBack, Deploy, Complete,
         CompleteThen, CreatorLabels
    <2>3. UNCHANGED <<sgroupConns, isReady, handled>>
      BY <1>2 DEF GetFreeSGroup, Create, CreateDeployment, FailDeployment,
         PoolAdd, AppendInstance, Reset, PutBack, Deploy, Complete,
         CompleteThen, workerVars, sgVars, insVars
    <2>4. FrameOf(g) BY <1>0, <2>3 DEF FrameOf
    <2> QED BY <1>1, <2>1, <2>2, <2>3, <2>4
        DEF CreatorLabels, Connecting, Procs
  <1>3. ASSUME NEW p \in Pods, SetUp(p) PROVE ConnInv'
    <2>1. PICK l \in {"none", "readSg", "lock"} : pc' = [pc EXCEPT ![p] = l]
      BY <1>3, ConstAssumption DEF SetUp, InstanceSetUp, ReadSg, Return, Goto
    <2>2. pc[p] \notin Connecting /\ UNCHANGED <<sgroupConns, isReady>>
      BY <1>3 DEF SetUp, InstanceSetUp, ReadSg, Connecting, workerVars, sgVars
    <2>3. FrameOf(p)
      BY <1>0, <1>3 DEF FrameOf, SetUp, InstanceSetUp, ReadSg, Return,
         IInv, LocalInv, TypeOK
    <2> QED BY <1>1, <2>1, <2>2, <2>3 DEF Connecting, Procs
  <1>4. ASSUME NEW q \in Procs, Lock(q) PROVE ConnInv'
    <2>1. FrameOf(q) BY <1>0, <1>4 DEF FrameOf, Lock, insVars
    <2> QED BY <1>1, <1>4, <2>1 DEF Lock, Goto, Connecting, workerVars, sgVars
  <1>5. ASSUME NEW q \in Procs, Check(q) PROVE ConnInv'
    <2>0. pc[q] = "check" /\ UNCHANGED <<sgroupConns, isReady>>
      BY <1>5 DEF Check, CheckIf, workerVars, sgVars
    <2>1. CASE /\ Goto(q, "connect") /\ UNCHANGED <<handled, sgLock>>
               /\ isComplete[SgOf(q)] /\ ~isReady[SgOf(q)] /\ AllUp(SgOf(q))
      <3>1. FrameOf(q) BY <1>0, <2>1 DEF FrameOf
      <3>2. PICK g \in SGroups : g = SgOf(q)
        BY <2>0, SgOfType DEF IInv, InPreprocess, InLock
      <3>3. SgOf(q)' = g
        BY <2>0, <2>1, <3>2, <1>0, SgOfSame DEF IInv, InPreprocess, InLock
      <3>4. isComplete'[g] /\ ~isReady'[g] /\ AllUp(g)'
        BY <2>0, <2>1, <3>2, UpStable
      <3>5. pc'[q] = "connect" BY <2>1 DEF Goto, IInv, LocalInv, TypeOK
      <3>6. \A h \in SGroups : AtBarrier(h)' <=> AtBarrier(h)
        BY <2>0, <2>1, <3>1, <3>5, Others DEF AtBarrier, Connecting, Goto
      <3>7. IsInjective(sgroupConns)' BY <2>0 DEF IInv, ConnInv
      <3>8. ASSUME NEW h \in SGroups
            PROVE  /\ (h \in Range(sgroupConns) <=> isReady[h] \/ AtBarrier(h))'
                   /\ (h \in Range(sgroupConns) => isComplete[h] /\ AllUp(h))'
        BY <2>0, <3>6, UpStable DEF IInv, ConnInv
      <3>9. ASSUME NEW r \in Procs, pc'[r] \in Connecting
            PROVE  (isComplete[SgOf(r)] /\ ~isReady[SgOf(r)] /\ AllUp(SgOf(r)))'
        <4>1. CASE r = q BY <3>3, <3>4, <4>1 DEF AllUp
        <4>2. CASE r # q
          <5>1. pc[r] \in Connecting
            BY <2>1, <3>1, <3>9, <4>2, Others DEF Goto
          <5> QED BY <2>0, <2>1, <3>1, <4>2, <5>1, OthersConnecting DEF Goto
        <4> QED BY <4>1, <4>2
      <3> QED BY <3>7, <3>8, <3>9 DEF ConnInv
    <2>2. CASE Return(q)
      <3>1. FrameOf(q)
        BY <1>0, <2>2 DEF FrameOf, Return, IInv, LocalInv, TypeOK
      <3> QED BY <1>1, <2>0, <2>2, <3>1 DEF Return, Goto, Connecting
    <2> QED BY <1>5, <2>1, <2>2 DEF Check, CheckIf
  <1>6. ASSUME NEW q \in Procs, Connect(q) PROVE ConnInv'
    <2>0. /\ pc[q] = "connect" /\ pc' = [pc EXCEPT ![q] = "wait"]
          /\ sgroupConns' = Append(sgroupConns, SgOf(q))
          /\ UNCHANGED <<handled, isReady>>
      BY <1>6 DEF Connect, Goto, insVars, sgVars
    <2>1. FrameOf(q) BY <1>0, <2>0 DEF FrameOf
    <2>2. PICK g \in SGroups : g = SgOf(q)
      BY <2>0, SgOfType DEF IInv, InPreprocess, InLock
    <2>3. SgOf(q)' = g
      BY <2>0, <2>2, <1>0, SgOfSame DEF IInv, InPreprocess, InLock
    <2>4. isComplete[g] /\ ~isReady[g] /\ AllUp(g)
      BY <2>0, <2>2 DEF IInv, ConnInv, Connecting
    <2>5. isComplete'[g] /\ ~isReady'[g] /\ AllUp(g)' BY <2>0, <2>4, UpStable
    <2>6. pc'[q] = "wait" BY <2>0 DEF IInv, LocalInv, TypeOK
    <2>7. g \notin Range(sgroupConns)
      <3>1. ~AtBarrier(g)
        BY <2>0, <2>2 DEF AtBarrier, IInv, LockedPreprocess, InLock
      <3> QED BY <2>4, <3>1 DEF IInv, ConnInv
    <2>8. /\ IsInjective(sgroupConns)'
          /\ Range(sgroupConns)' = Range(sgroupConns) \cup {g}
      BY <2>0, <2>2, <2>7, AppendNew DEF IInv, LocalInv, TypeOK, ConnInv
    <2>9. \A h \in SGroups : AtBarrier(h)' <=> AtBarrier(h) \/ h = g
      BY <2>0, <2>1, <2>2, <2>3, <2>6, Others DEF AtBarrier, Connecting
    <2>10. ASSUME NEW h \in SGroups
          PROVE  /\ (h \in Range(sgroupConns) <=> isReady[h] \/ AtBarrier(h))'
                 /\ (h \in Range(sgroupConns) => isComplete[h] /\ AllUp(h))'
      BY <2>0, <2>5, <2>8, <2>9, UpStable DEF IInv, ConnInv
    <2>11. ASSUME NEW r \in Procs, pc'[r] \in Connecting
          PROVE  (isComplete[SgOf(r)] /\ ~isReady[SgOf(r)] /\ AllUp(SgOf(r)))'
      <3>1. CASE r = q BY <2>3, <2>5, <3>1 DEF AllUp
      <3>2. CASE r # q
        <4>1. pc[r] \in Connecting BY <2>0, <2>1, <2>11, <3>2, Others
        <4> QED BY <2>0, <2>1, <3>2, <4>1, OthersConnecting
      <3> QED BY <3>1, <3>2
    <2> QED BY <2>8, <2>10, <2>11 DEF ConnInv
  <1>7. ASSUME NEW q \in Procs, PassBarrier(q) PROVE ConnInv'
    <2>0. /\ pc[q] = "wait" /\ pc' = [pc EXCEPT ![q] = "release"]
          /\ UNCHANGED <<handled, isReady, sgroupConns>>
      BY <1>7 DEF PassBarrier, NotifyScheduler, Goto, insVars, sgVars, workerVars
    <2>1. FrameOf(q) BY <1>0, <2>0 DEF FrameOf
    <2>2. PICK g \in SGroups : g = SgOf(q)
      BY <2>0, SgOfType DEF IInv, InPreprocess, InLock
    <2>3. SgOf(q)' = g
      BY <2>0, <2>2, <1>0, SgOfSame DEF IInv, InPreprocess, InLock
    <2>4. isComplete[g] /\ ~isReady[g] /\ AllUp(g)
      BY <2>0, <2>2 DEF IInv, ConnInv, Connecting
    <2>5. isComplete'[g] /\ ~isReady'[g] /\ AllUp(g)' BY <2>0, <2>4, UpStable
    <2>6. pc'[q] = "release" BY <2>0 DEF IInv, LocalInv, TypeOK
    <2>7. IsInjective(sgroupConns)' BY <2>0 DEF IInv, ConnInv
    <2>8. \A h \in SGroups : AtBarrier(h)' <=> AtBarrier(h)
      BY <2>0, <2>1, <2>2, <2>3, <2>6, Others DEF AtBarrier, Connecting
    <2>9. ASSUME NEW h \in SGroups
          PROVE  /\ (h \in Range(sgroupConns) <=> isReady[h] \/ AtBarrier(h))'
                 /\ (h \in Range(sgroupConns) => isComplete[h] /\ AllUp(h))'
      BY <2>0, <2>8, UpStable DEF IInv, ConnInv
    <2>10. ASSUME NEW r \in Procs, pc'[r] \in Connecting
          PROVE  (isComplete[SgOf(r)] /\ ~isReady[SgOf(r)] /\ AllUp(SgOf(r)))'
      <3>1. CASE r = q BY <2>3, <2>5, <3>1 DEF AllUp
      <3>2. CASE r # q
        <4>1. pc[r] \in Connecting BY <2>0, <2>1, <2>10, <3>2, Others
        <4> QED BY <2>0, <2>1, <3>2, <4>1, OthersConnecting
      <3> QED BY <3>1, <3>2
    <2> QED BY <2>7, <2>9, <2>10 DEF ConnInv
  <1>8. ASSUME NEW q \in Procs, SetReady(q) PROVE ConnInv'
    <2>0. /\ pc[q] = "release" /\ Return(q) /\ UNCHANGED sgroupConns
          /\ isReady' = [isReady EXCEPT ![SgOf(q)] = TRUE]
      BY <1>8 DEF SetReady, workerVars
    <2>1. FrameOf(q)
      BY <1>0, <2>0 DEF FrameOf, Return, IInv, LocalInv, TypeOK
    <2>2. PICK g \in SGroups : g = SgOf(q)
      BY <2>0, SgOfType DEF IInv, InPreprocess, InLock
    <2>3. PICK l \in {"none", "done"} : pc' = [pc EXCEPT ![q] = l]
      BY <2>0 DEF Return, Goto
    <2>4. pc'[q] \notin Connecting
      BY <2>3 DEF IInv, LocalInv, TypeOK, Connecting
    <2>5. g \in Range(sgroupConns) /\ isReady'[g]
      BY <2>0, <2>2 DEF IInv, ConnInv, AtBarrier, LocalInv, TypeOK
    <2>6. \A h \in SGroups \ {g} :
            (AtBarrier(h)' <=> AtBarrier(h)) /\ isReady'[h] = isReady[h]
      <3>1. \A r \in Procs \ {q} :
              pc'[r] = pc[r] /\ (pc[r] \in Connecting => SgOf(r)' = SgOf(r))
        BY <2>1, <2>3, Others
      <3> QED BY <2>0, <2>2, <2>4, <3>1
          DEF AtBarrier, Connecting, IInv, LocalInv, TypeOK
    <2>7. IsInjective(sgroupConns)' BY <2>0 DEF IInv, ConnInv
    <2>8. ASSUME NEW h \in SGroups
          PROVE  /\ (h \in Range(sgroupConns) <=> isReady[h] \/ AtBarrier(h))'
                 /\ (h \in Range(sgroupConns) => isComplete[h] /\ AllUp(h))'
      <3>1. (h \in Range(sgroupConns))' <=> h \in Range(sgroupConns) BY <2>0
      <3>2. (h \in Range(sgroupConns) <=> isReady[h] \/ AtBarrier(h))'
        BY <2>5, <2>6, <3>1 DEF IInv, ConnInv
      <3> QED BY <3>1, <3>2, UpStable DEF IInv, ConnInv
    <2>9. ASSUME NEW r \in Procs, pc'[r] \in Connecting
          PROVE  (isComplete[SgOf(r)] /\ ~isReady[SgOf(r)] /\ AllUp(SgOf(r)))'
      <3>1. r # q BY <2>4, <2>9
      <3>2. pc[r] \in Connecting BY <2>1, <2>3, <2>9, <3>1, Others
      <3>3. PICK h \in SGroups : h = SgOf(r)
        BY <3>2, SgOfType DEF IInv, Connecting, InPreprocess, InLock
      <3>4. h # g
        BY <2>0, <2>2, <3>1, <3>2, <3>3
        DEF IInv, LockedPreprocess, Connecting, InLock
      <3>5. isReady'[SgOf(r)] = isReady[SgOf(r)]
        BY <2>6, <3>3, <3>4
      <3> QED BY <2>1, <2>3, <3>1, <3>2, <3>5, OthersConnecting
    <2> QED BY <2>7, <2>8, <2>9 DEF ConnInv
  <1>9. CASE ScheduleOnce \/ UNCHANGED vars
    <2>1. UNCHANGED <<pc, workerVars, sgVars, insVars>>
      BY <1>9 DEF ScheduleOnce, BeginPass, Visit, EndPass, vars
    <2>2. \A q \in Procs : SgOf(q)' = SgOf(q) BY <2>1 DEF SgOf, insVars
    <2> QED BY <2>1, <2>2, ConnFrame DEF workerVars, sgVars
  <1> QED
    BY <1>2, <1>3, <1>4, <1>5, <1>6, <1>7, <1>8, <1>9 DEF Next, Preprocess

\* The conjunction is inductive.
LEMMA Inductive ==
  /\ Init => IInv
  /\ IInv /\ [Next]_vars => IInv'
  <1>1. Init => LockedPreprocess
    BY ConstAssumption DEF Init, LockedPreprocess, InLock, Procs
  <1>2. Init => IInv BY <1>1, LocalInvInit, BuildInit, ConnInit DEF IInv
  <1>3. IInv /\ [Next]_vars => IInv'
    BY LocalInvNext, LockedNext, BuildNext, ConnNext DEF IInv
  <1> QED BY <1>2, <1>3

\* The four parts hold in every state.
LEMMA InvHolds == Spec => []IInv
  BY Inductive, PTL DEF Spec

\* The SGroups that joined the barrier are deployed.
LEMMA JoinedIsDeployed == IInv => Range(sgroupConns) \subseteq sgroups
  <1> SUFFICES ASSUME IInv, NEW g \in Range(sgroupConns) PROVE g \in sgroups
    OBVIOUS
  <1>1. g \in SGroups BY DEF IInv, LocalInv, TypeOK, Range
  <1>2. isComplete[g] BY <1>1 DEF IInv, ConnInv
  <1> QED BY <1>1, <1>2 DEF IInv, BuildInv

\* Each SGroup joins the barrier at most once, after it is counted in it.
THEOREM JoinsOnce == Spec => []JoinsBarrierOnce
  <1>1. IInv => JoinsBarrierOnce
    BY JoinedIsDeployed DEF JoinsBarrierOnce, IInv, ConnInv
  <1> QED BY <1>1, InvHolds, PTL

\* Without duplicates, the length counts the elements.
LEMMA LenIsCardinality ==
  ASSUME NEW S, NEW s \in Seq(S), IsInjective(s)
  PROVE  IsFiniteSet(Range(s)) /\ Cardinality(Range(s)) = Len(s)
  <1>1. Len(s) \in Nat /\ DOMAIN s = 1 .. Len(s) OBVIOUS
  <1>2. IsFiniteSet(1 .. Len(s)) /\ Cardinality(1 .. Len(s)) = Len(s)
    BY <1>1, FS_Interval
  <1>3. s \in [1 .. Len(s) -> Range(s)] BY <1>1 DEF Range
  <1>4. s \in Surjection(1 .. Len(s), Range(s)) BY <1>1, <1>3 DEF Surjection, Range
  <1>5. s \in Injection(1 .. Len(s), Range(s)) BY <1>3 DEF Injection
  <1> QED BY <1>2, <1>4, <1>5, FS_Surjection

\* The barrier opens only when every deployed SGroup has its whole chain up:
\* the SGroups that joined are among the deployed ones, each counted once on
\* both sides, so equal counts mean equal sets.
LEMMA OpensWhenAllUp == IInv => BarrierOpensWhenAllUp
  <1> SUFFICES ASSUME IInv, isAllSGroupsConnected, NEW g \in sgroups
               PROVE  Len(instances[g]) = ChainLen[g] /\ AllUp(g)
    BY DEF BarrierOpensWhenAllUp
  <1>1. Cardinality(Range(sgroupConns)) = Cardinality(sgroups)
    BY LenIsCardinality
    DEF IInv, LocalInv, TypeOK, ConnInv, BuildInv, isAllSGroupsConnected
  <1>2. IsFiniteSet(sgroups)
    BY ConstAssumption, FS_Subset DEF IInv, LocalInv, TypeOK
  <1>3. Range(sgroupConns) = sgroups
    BY <1>1, <1>2, JoinedIsDeployed, FS_Subset
  <1>4. g \in SGroups BY DEF IInv, LocalInv, TypeOK
  <1> QED BY <1>3, <1>4 DEF IInv, BuildInv, ConnInv

\* So it is safe: CooperativeSched hears of no SGroup before all are up.
THEOREM BarrierSafe == Spec => []BarrierOpensWhenAllUp
  BY OpensWhenAllUp, InvHolds, PTL

\* A SGroup in the free list carries nothing over from an earlier build.
THEOREM FreeClean == Spec => []FreeIsClean
  <1>1. IInv => FreeIsClean
    <2> SUFFICES ASSUME IInv, NEW g \in freeSGroups
                 PROVE  /\ pc[g] = "none" /\ instances[g] = <<>>
                        /\ ~isComplete[g] /\ ~isReady[g]
                        /\ g \notin sgroups /\ g \notin Range(sgroupConns)
      BY DEF FreeIsClean
    <2>1. g \in SGroups BY DEF IInv, LocalInv, TypeOK
    <2>2. pc[g] = "none" BY <2>1 DEF IInv, BuildInv
    <2>3. instances[g] = <<>> /\ ~isComplete[g] /\ g \notin sgroups
      BY <2>1, <2>2 DEF IInv, BuildInv, Deployed, InLock
    <2> QED BY <2>1, <2>2, <2>3 DEF IInv, ConnInv
  <1> QED BY <1>1, InvHolds, PTL

-----------------------------------------------------------------------------
(* No lost readiness. *)

\* An instance in a chain knows its SGroup.
ChainInv == \A g \in SGroups : \A p \in Range(instances[g]) : insSg[p] = g

\* An instance keeps its SGroup in ins.sg while it is part of the chain.
LEMMA ChainNext == LocalInv /\ ChainInv /\ [Next]_vars => ChainInv'
  <1> SUFFICES ASSUME LocalInv, ChainInv, [Next]_vars PROVE ChainInv' OBVIOUS
  <1>0. \A p \in Pods : insSg[p] # None => insSg'[p] = insSg[p]
    BY InsSgStable
  <1>1. \A g \in SGroups : \A p \in Range(instances[g]) :
            p \in Pods /\ insSg'[p] = g
    <2> SUFFICES ASSUME NEW g \in SGroups, NEW p \in Range(instances[g])
                 PROVE  p \in Pods /\ insSg'[p] = g
      OBVIOUS
    <2>1. p \in Pods BY DEF LocalInv, TypeOK, Range
    <2>2. insSg[p] = g BY DEF ChainInv
    <2> QED BY <1>0, <2>1, <2>2, ConstAssumption DEF Procs
  <1>2. ASSUME NEW g \in SGroups, AppendInstance(g) PROVE ChainInv'
    <2>1. /\ fresh[g] \in Pods
          /\ insSg' = [insSg EXCEPT ![fresh[g]] = g]
          /\ instances' = [instances EXCEPT ![g] = Append(@, fresh[g])]
      BY <1>2 DEF AppendInstance, LocalInv, TypeOK, LocalsOK
    <2>2. insSg'[fresh[g]] = g BY <2>1 DEF LocalInv, TypeOK
    <2>3. Range(Append(instances[g], fresh[g])) = Range(instances[g]) \cup {fresh[g]}
      BY <2>1, AppendRange DEF LocalInv, TypeOK
    <2> QED BY <1>1, <2>1, <2>2, <2>3 DEF ChainInv, LocalInv, TypeOK
  <1>3. ASSUME NEW g \in SGroups, Reset(g) PROVE ChainInv'
    <2>1. instances' = [instances EXCEPT ![g] = <<>>] BY <1>3 DEF Reset
    <2>2. Range(<<>>) = {} BY DEF Range
    <2> QED BY <1>1, <2>1, <2>2 DEF ChainInv, LocalInv, TypeOK
  <1>4. CASE UNCHANGED instances BY <1>1, <1>4 DEF ChainInv
  <1>5. \/ \E g \in SGroups : AppendInstance(g) \/ Reset(g)
        \/ UNCHANGED instances
    BY DEF Next, vars, sgVars, Create, SetUp, Preprocess, ScheduleOnce,
       GetFreeSGroup, CreateDeployment, FailDeployment, PoolAdd, PutBack,
       Deploy, Complete, CompleteThen, InstanceSetUp, ReadSg, Lock, Check,
       CheckIf, Connect, PassBarrier, NotifyScheduler, SetReady, BeginPass,
       Visit, EndPass
  <1> QED BY <1>2, <1>3, <1>4, <1>5

\* Process q is on its way to see that g is ready.
WillSee(q, g) ==
    \/ pc[q] \in {"lock", "check", "connect"} /\ SgOf(q) = g
    \/ q \in Pods /\ pc[q] = "readSg" /\ insSg[handled[q]] = g

\* Others' steps leave it on its way.
LEMMA WillSeeFrame ==
  ASSUME IInv, NEW x \in Procs, FrameOf(x), NEW l, pc' = [pc EXCEPT ![x] = l],
         NEW q \in Procs \ {x}, NEW g \in SGroups, WillSee(q, g)
  PROVE  WillSee(q, g)'
  <1>1. pc'[q] = pc[q] BY DEF IInv, LocalInv, TypeOK
  <1>2. CASE pc[q] \in {"lock", "check", "connect"} /\ SgOf(q) = g
    <2>1. SgOf(q)' = SgOf(q)
      BY <1>2, SgOfFrame DEF IInv, InPreprocess, InLock
    <2> QED BY <1>1, <1>2, <2>1 DEF WillSee
  <1>3. CASE q \in Pods /\ pc[q] = "readSg" /\ insSg[handled[q]] = g
    <2>1. handled[q] \in Pods BY <1>3 DEF IInv, LocalInv, LocalsOK
    <2>2. handled'[q] = handled[q] /\ insSg'[handled[q]] = g
      BY <1>3, <2>1, ConstAssumption DEF FrameOf, Procs
    <2> QED BY <1>1, <1>3, <2>2 DEF WillSee
  <1> QED BY <1>2, <1>3 DEF WillSee

\* Its own step too, until it has joined the barrier for g.
LEMMA WillSeeStep ==
  ASSUME IInv, [Next]_vars, NEW q \in Procs, NEW g \in SGroups, WillSee(q, g),
         isComplete[g], AllUp(g), g \notin Range(sgroupConns),
         Preprocess(q) \/ (q \in Pods /\ ReadSg(q)),
         g \notin Range(sgroupConns)'
  PROVE  WillSee(q, g)'
  <1>0. \A p \in Pods : insSg[p] # None => insSg'[p] = insSg[p]
    BY InsSgStable DEF IInv
  <1>1. CASE Lock(q) /\ SgOf(q) = g
    <2>1. SgOf(q)' = g
      BY <1>0, <1>1, SgOfSame DEF Lock, IInv, InPreprocess, insVars
    <2>2. pc'[q] = "check" BY <1>1 DEF Lock, Goto, IInv, LocalInv, TypeOK
    <2> QED BY <2>1, <2>2 DEF WillSee
  <1>2. CASE Check(q) /\ SgOf(q) = g
    <2>1. ~isReady[g] BY DEF IInv, ConnInv
    <2>2. pc[q] = "check" /\ pc' = [pc EXCEPT ![q] = "connect"] /\ UNCHANGED handled
      BY <1>2, <2>1 DEF Check, CheckIf, Goto
    <2>3. SgOf(q)' = g
      BY <1>0, <1>2, <2>2, SgOfSame DEF IInv, InPreprocess, InLock
    <2>4. pc'[q] = "connect" BY <2>2 DEF IInv, LocalInv, TypeOK
    <2> QED BY <2>3, <2>4 DEF WillSee
  <1>3. CASE Connect(q) /\ SgOf(q) = g
    <2>1. sgroupConns' = Append(sgroupConns, g) BY <1>3 DEF Connect
    <2>2. g \in Range(sgroupConns)'
      BY <2>1, AppendRange DEF IInv, LocalInv, TypeOK
    <2> QED BY <2>2
  <1>4. CASE q \in Pods /\ ReadSg(q) /\ insSg[handled[q]] = g
    <2>1. g # None BY ConstAssumption DEF Procs
    <2>2. /\ pc[q] = "readSg" /\ pc' = [pc EXCEPT ![q] = "lock"]
          /\ UNCHANGED <<handled, insSg>>
      BY <1>4, <2>1 DEF ReadSg, Goto
    <2>3. q \notin SGroups BY <1>4, ConstAssumption
    <2>4. pc'[q] = "lock" BY <2>2 DEF IInv, LocalInv, TypeOK
    <2>5. SgOf(q)' = g BY <1>4, <2>2, <2>3 DEF SgOf
    <2> QED BY <2>4, <2>5 DEF WillSee
  <1> QED BY <1>1, <1>2, <1>3, <1>4
      DEF WillSee, Preprocess, Lock, Check, CheckIf, Connect, PassBarrier,
          NotifyScheduler, SetReady, ReadSg

\* A step that is not the scheduler's moves one process and leaves the
\* locals of the others alone.
LEMMA OneMoves ==
  ASSUME IInv, Next
  PROVE  \/ UNCHANGED <<pc, workerVars, sgVars, insVars>>
         \/ \E x \in Procs : /\ FrameOf(x)
                             /\ \E l \in Labels : pc' = [pc EXCEPT ![x] = l]
                             /\ \/ /\ x \in SGroups
                                   /\ GetFreeSGroup(x) \/ Create(x)
                                \/ x \in Pods /\ SetUp(x)
                                \/ Preprocess(x)
  <1>0. \A p \in Pods : insSg[p] # None => insSg'[p] = insSg[p]
    BY InsSgStable DEF IInv
  <1>1. ASSUME NEW g \in SGroups, GetFreeSGroup(g) \/ Create(g)
        PROVE  /\ FrameOf(g)
               /\ \E l \in Labels : pc' = [pc EXCEPT ![g] = l]
    <2>1. handled' = handled
      BY <1>1 DEF GetFreeSGroup, Create, CreateDeployment, FailDeployment,
         PoolAdd, AppendInstance, Reset, PutBack, Deploy, Complete,
         CompleteThen, insVars
    <2>2. \E l \in Labels : pc' = [pc EXCEPT ![g] = l]
      BY <1>1 DEF GetFreeSGroup, Create, CreateDeployment, FailDeployment,
         PoolAdd, AppendInstance, Reset, PutBack, Deploy, Complete,
         CompleteThen, Goto, Labels, CreatorLabels
    <2> QED BY <1>0, <2>1, <2>2 DEF FrameOf
  <1>2. ASSUME NEW p \in Pods, SetUp(p)
        PROVE  /\ FrameOf(p)
               /\ \E l \in Labels : pc' = [pc EXCEPT ![p] = l]
    <2>1. \A r \in Pods \ {p} : handled'[r] = handled[r]
      BY <1>2 DEF SetUp, InstanceSetUp, ReadSg, Return, IInv, LocalInv, TypeOK
    <2>2. \E l \in Labels : pc' = [pc EXCEPT ![p] = l]
      BY <1>2, ConstAssumption
      DEF SetUp, InstanceSetUp, ReadSg, Return, Goto, Labels, CreatorLabels,
          HandlerLabels
    <2> QED BY <1>0, <2>1, <2>2 DEF FrameOf
  <1>3. ASSUME NEW q \in Procs, Preprocess(q)
        PROVE  /\ FrameOf(q)
               /\ \E l \in Labels : pc' = [pc EXCEPT ![q] = l]
    <2>1. \A r \in Pods \ {q} : handled'[r] = handled[r]
      BY <1>3 DEF Preprocess, Lock, Check, CheckIf, Connect, PassBarrier,
         NotifyScheduler, SetReady, Return, insVars, IInv, LocalInv, TypeOK
    <2>2. \E l \in Labels : pc' = [pc EXCEPT ![q] = l]
      BY <1>3 DEF Preprocess, Lock, Check, CheckIf, Connect, PassBarrier,
         NotifyScheduler, SetReady, Return, Goto, Labels, CreatorLabels, InLock
    <2> QED BY <1>0, <2>1, <2>2 DEF FrameOf
  <1>4. ASSUME ScheduleOnce PROVE UNCHANGED <<pc, workerVars, sgVars, insVars>>
    BY <1>4 DEF ScheduleOnce, BeginPass, Visit, EndPass
  <1> QED BY <1>1, <1>2, <1>3, <1>4 DEF Next, Procs

\* Every step that ends a check leaves another to come, or nothing to check.
LEMMA NoLostNext ==
  IInv /\ ChainInv /\ NoLostReadiness /\ [Next]_vars => NoLostReadiness'
  <1> SUFFICES ASSUME IInv, ChainInv, NoLostReadiness, [Next]_vars,
                      NEW g \in SGroups, isComplete'[g], AllUp(g)',
                      g \notin Range(sgroupConns)'
               PROVE  \E q \in Procs : WillSee(q, g)'
    BY DEF NoLostReadiness, WillSee
  <1>1. g \notin Range(sgroupConns)
    <2>1. \/ sgroupConns' = sgroupConns
          \/ \E q \in Procs : Connect(q)
      BY DEF Next, vars, workerVars, Create, SetUp, Preprocess, ScheduleOnce,
         GetFreeSGroup, CreateDeployment, FailDeployment, PoolAdd, Reset,
         AppendInstance, PutBack, Deploy, Complete, CompleteThen,
         InstanceSetUp, ReadSg, Lock, Check, CheckIf, PassBarrier,
         NotifyScheduler, SetReady, BeginPass, Visit, EndPass
    <2>2. ASSUME NEW q \in Procs, Connect(q)
          PROVE  Range(sgroupConns)' = Range(sgroupConns) \cup {SgOf(q)}
      <3>1. SgOf(q) \in SGroups
        BY <2>2, SgOfType DEF Connect, IInv, InPreprocess, InLock
      <3> QED BY <2>2, <3>1, AppendRange DEF Connect, IInv, LocalInv, TypeOK
    <2> QED BY <2>1, <2>2
  <1>2. CASE ~isComplete[g]
    <2>1. \/ isComplete' = isComplete
          \/ \E h \in SGroups : Complete(h)
      BY DEF Next, vars, sgVars, Create, SetUp, Preprocess, ScheduleOnce,
         GetFreeSGroup, CreateDeployment, FailDeployment, PoolAdd, Reset,
         AppendInstance, PutBack, Deploy, InstanceSetUp, ReadSg, Lock, Check,
         CheckIf, Connect, PassBarrier, NotifyScheduler, SetReady, BeginPass,
         Visit, EndPass
    <2>2. PICK h \in SGroups : Complete(h) BY <1>2, <2>1
    <2>3. h = g /\ pc'[g] = "lock"
      BY <1>2, <2>2
      DEF Complete, CompleteThen, Goto, IInv, LocalInv, TypeOK, Procs
    <2>4. SgOf(g)' = g BY DEF SgOf
    <2> QED BY <2>3, <2>4 DEF WillSee, Procs
  <1>3. CASE isComplete[g] /\ ~AllUp(g)
    <2>1. PICK p \in Range(instances[g]) : tid[p] = None BY <1>3 DEF AllUp
    <2>2. p \in Pods /\ insSg[p] = g
      BY <2>1 DEF IInv, LocalInv, TypeOK, ChainInv, Range
    <2>3. pc[g] \notin {"append", "reset"}
      BY <1>3 DEF IInv, BuildInv, Deployed, InLock
    <2>4. instances'[g] = instances[g]
      <3>1. \/ instances' = instances
            \/ \E h \in SGroups : pc[h] \in {"append", "reset"}
                 /\ \E s : instances' = [instances EXCEPT ![h] = s]
        BY DEF Next, vars, sgVars, Create, SetUp, Preprocess, ScheduleOnce,
           GetFreeSGroup, CreateDeployment, FailDeployment, PoolAdd, Reset,
           AppendInstance, PutBack, Deploy, Complete, CompleteThen,
           InstanceSetUp, ReadSg, Lock, Check, CheckIf, Connect, PassBarrier,
           NotifyScheduler, SetReady, BeginPass, Visit, EndPass
      <3> QED BY <2>3, <3>1 DEF IInv, LocalInv, TypeOK
    <2>5. tid'[p] # None BY <2>1, <2>4 DEF AllUp
    <2>6. \/ tid' = tid
          \/ \E x \in Pods : InstanceSetUp(x)
      BY DEF Next, vars, insVars, Create, SetUp, Preprocess, ScheduleOnce,
         GetFreeSGroup, CreateDeployment, FailDeployment, PoolAdd, Reset,
         AppendInstance, PutBack, Deploy, Complete, CompleteThen,
         ReadSg, Lock, Check, CheckIf, Connect, PassBarrier,
         NotifyScheduler, SetReady, BeginPass, Visit, EndPass
    <2>7. PICK x \in Pods : InstanceSetUp(x) BY <2>1, <2>5, <2>6
    <2>8. /\ tid' = [tid EXCEPT ![insStartupPool[port[x]]] = x]
          /\ handled' = [handled EXCEPT ![x] = insStartupPool[port[x]]]
          /\ pc' = [pc EXCEPT ![x] = "readSg"] /\ insSg' = insSg
      BY <2>7 DEF InstanceSetUp, Goto
    <2>9. insStartupPool[port[x]] = p
      BY <2>1, <2>2, <2>5, <2>8 DEF IInv, LocalInv, TypeOK
    <2>10. handled'[x] = p /\ pc'[x] = "readSg" /\ insSg'[p] = g
      BY <2>2, <2>8, <2>9 DEF IInv, LocalInv, TypeOK, Procs
    <2> QED BY <2>10 DEF WillSee, Procs
  <1>4. CASE isComplete[g] /\ AllUp(g)
    <2>1. PICK q \in Procs : WillSee(q, g)
      BY <1>1, <1>4 DEF NoLostReadiness, WillSee
    <2>2. CASE UNCHANGED <<pc, handled, insSg>>
      BY <2>1, <2>2 DEF WillSee, SgOf
    <2>3. ASSUME NEW x \in Procs, FrameOf(x),
                 \E l \in Labels : pc' = [pc EXCEPT ![x] = l], x # q
          PROVE  WillSee(q, g)'
      BY <2>1, <2>3, WillSeeFrame
    <2>4. ASSUME \/ q \in SGroups /\ (GetFreeSGroup(q) \/ Create(q))
                 \/ q \in Pods /\ SetUp(q)
                 \/ Preprocess(q)
          PROVE  WillSee(q, g)'
      <3>1. pc[q] \in {"lock", "check", "connect", "readSg"} BY <2>1 DEF WillSee
      <3>2. ~(GetFreeSGroup(q) \/ Create(q) \/ InstanceSetUp(q))
        BY <3>1 DEF GetFreeSGroup, Create, CreateDeployment, FailDeployment,
           PoolAdd, AppendInstance, Reset, PutBack, Deploy, Complete,
           CompleteThen, InstanceSetUp
      <3>3. Preprocess(q) \/ (q \in Pods /\ ReadSg(q))
        BY <2>4, <3>2 DEF SetUp
      <3> QED BY <1>1, <1>4, <2>1, <3>3, WillSeeStep
    <2>5. CASE Next
      <3>1. CASE UNCHANGED <<pc, workerVars, sgVars, insVars>>
        BY <2>1, <2>2, <3>1 DEF insVars
      <3>2. CASE ~UNCHANGED <<pc, workerVars, sgVars, insVars>>
        BY <2>1, <2>3, <2>4, <2>5, <3>2, OneMoves
      <3> QED BY <3>1, <3>2
    <2>6. CASE UNCHANGED vars BY <2>1, <2>2, <2>6 DEF vars, insVars
    <2> QED BY <2>5, <2>6
  <1> QED BY <1>2, <1>3, <1>4

\* The hand-over between creator and handlers loses no SGroup: whoever of
\* them comes last finds the chain complete with every tid known.
THEOREM NoLostReadinessHolds == Spec => []NoLostReadiness
  <1>1. Init => ChainInv /\ NoLostReadiness
    <2>1. Range(<<>>) = {} BY DEF Range
    <2> QED BY <2>1 DEF Init, ChainInv, NoLostReadiness
  <1>2. IInv /\ ChainInv /\ [Next]_vars => ChainInv' BY ChainNext DEF IInv
  <1> QED BY <1>1, <1>2, Inductive, NoLostNext, PTL DEF Spec

-----------------------------------------------------------------------------
(* The refinement: with the invariants above, each step is a step of       *)
(* ReadinessBarrier or leaves its variables alone.                         *)

\* A process has passed the barrier with g.
Released(g) == isReady[g] \/ \E q \in Procs : pc[q] = "release" /\ SgOf(q) = g

Ups    == {g \in sgroups : AllUp(g)}
RefInv == IInv /\ ChainInv

\* The phases exclude each other.
LEMMA Phases ==
  ASSUME IInv, NEW g \in SGroups
  PROVE  /\ Released(g) => g \in sgroups
         /\ g \in sgroups => g \notin freeSGroups
         /\ Phase(g) = IF Released(g) THEN "released"
                       ELSE IF g \in sgroups THEN "deployed"
                       ELSE IF g \in freeSGroups THEN "free" ELSE "building"
  <1>1. Released(g) => g \in Range(sgroupConns)
    BY DEF Released, IInv, ConnInv, AtBarrier
  <1>2. g \in sgroups => g \notin freeSGroups
    BY DEF IInv, BuildInv, Deployed, InLock
  <1> QED BY <1>1, <1>2, JoinedIsDeployed DEF Phase, Released

\* The same of the next state.
LEMMA PhasesNext ==
  ASSUME NEW g \in SGroups
  PROVE  Phase(g)' = IF Released(g)' THEN "released"
                     ELSE IF g \in sgroups' THEN "deployed"
                     ELSE IF g \in freeSGroups' THEN "free" ELSE "building"
  BY DEF Phase, Released

\* The deployed SGroups of ReadinessBarrier are w.sgroups.
LEMMA DeployedIsListed == IInv => Abstract!Deployed = sgroups
  <1> SUFFICES ASSUME IInv, NEW g \in SGroups
               PROVE  Phase(g) \in {"deployed", "released"} <=> g \in sgroups
    BY DEF Abstract!Deployed, IInv, LocalInv, TypeOK
  <1> QED BY Phases

\* A SGroup moves from one phase to another and the others stay.
LEMMA Moves ==
  ASSUME NEW g \in SGroups, NEW from, NEW to, Phase(g) = from, Phase(g)' = to,
         \A h \in SGroups \ {g} : Phase(h)' = Phase(h)
  PROVE  Abstract!Move(g, from, to)
  BY DEF Abstract!Move

\* Nothing that ReadinessBarrier sees has changed.
LEMMA Stutters ==
  ASSUME \A h \in SGroups : Phase(h)' = Phase(h), Ups' = Ups
  PROVE  UNCHANGED <<[g \in SGroups |-> Phase(g)], {g \in sgroups : AllUp(g)}>>
  BY DEF Ups

\* A step within or without the barrier releases nobody.
LEMMA ReleasedFrame ==
  ASSUME IInv, NEW x \in Procs, FrameOf(x), NEW l, pc' = [pc EXCEPT ![x] = l],
         pc[x] # "release", l # "release", isReady' = isReady
  PROVE  \A h : Released(h)' <=> Released(h)
  <1>1. pc'[x] # "release" BY DEF IInv, LocalInv, TypeOK
  <1>2. \A q \in Procs \ {x} : /\ pc'[q] = pc[q]
                               /\ pc[q] = "release" => SgOf(q)' = SgOf(q)
    BY Others DEF Connecting
  <1> QED BY <1>1, <1>2 DEF Released

\* What the steps of a SGroup's creator, but those to and from a list, leave alone.
LEMMA CreatorStep ==
  ASSUME RefInv, RefInv', NEW g \in SGroups, GetFreeSGroup(g) \/ Create(g), FrameOf(g)
  PROVE  \/ Abstract!Next
         \/ UNCHANGED <<[h \in SGroups |-> Phase(h)], {h \in sgroups : AllUp(h)}>>
  <1> USE DEF RefInv
  <1>1. /\ \E l \in CreatorLabels \cup {"lock"} : pc' = [pc EXCEPT ![g] = l]
        /\ pc[g] \in CreatorLabels /\ UNCHANGED <<isReady, tid>>
    BY DEF GetFreeSGroup, Create, CreateDeployment, FailDeployment,
       PoolAdd, AppendInstance, Reset, PutBack, Deploy, Complete,
       CompleteThen, CreatorLabels, Goto, sgVars, insVars
  <1>2. \A h : Released(h)' <=> Released(h)
    BY <1>1, ReleasedFrame DEF CreatorLabels, Procs
  <1>3. CASE GetFreeSGroup(g)
    <2>1. /\ g \in freeSGroups /\ freeSGroups' = freeSGroups \ {g}
          /\ UNCHANGED <<sgroups, instances, tid>>
      BY <1>3 DEF GetFreeSGroup, sgVars, insVars
    <2>2. Phase(g) = "free" /\ Phase(g)' = "building" BY <1>2, <2>1, Phases, PhasesNext
    <2>3. \A h \in SGroups \ {g} : Phase(h)' = Phase(h) BY <1>2, <2>1, Phases, PhasesNext
    <2>4. Ups' = Ups BY <2>1 DEF Ups, AllUp
    <2>5. Abstract!Take(g) BY <2>2, <2>3, <2>4, Moves DEF Abstract!Take, Ups
    <2> QED BY <2>5 DEF Abstract!Next
  <1>4. CASE PutBack(g)
    <2>1. /\ pc[g] = "putback" /\ freeSGroups' = freeSGroups \cup {g}
          /\ UNCHANGED <<sgroups, instances, tid>>
      BY <1>4 DEF PutBack, sgVars, insVars
    <2>2. g \notin sgroups /\ g \notin freeSGroups
      BY <2>1 DEF IInv, BuildInv, Deployed, InLock
    <2>3. Phase(g) = "building" /\ Phase(g)' = "free" BY <1>2, <2>1, <2>2, Phases, PhasesNext
    <2>4. \A h \in SGroups \ {g} : Phase(h)' = Phase(h) BY <1>2, <2>1, Phases, PhasesNext
    <2>5. Ups' = Ups BY <2>1 DEF Ups, AllUp
    <2>6. Abstract!GiveUp(g) BY <2>3, <2>4, <2>5, Moves DEF Abstract!GiveUp, Ups
    <2> QED BY <2>6 DEF Abstract!Next
  <1>5. CASE Deploy(g)
    <2>1. /\ pc[g] = "deploy" /\ sgroups' = sgroups \cup {g}
          /\ UNCHANGED <<freeSGroups, instances, tid>>
      BY <1>5 DEF Deploy, sgVars, insVars
    <2>2. g \notin sgroups /\ g \notin freeSGroups
      BY <2>1 DEF IInv, BuildInv, Deployed, InLock
    <2>3. Phase(g) = "building" /\ Phase(g)' = "deployed"
      BY <1>2, <2>1, <2>2, Phases, PhasesNext
    <2>4. \A h \in SGroups \ {g} : Phase(h)' = Phase(h) BY <1>2, <2>1, Phases, PhasesNext
    <2>5. Ups' \in {Ups, Ups \cup {g}} BY <2>1 DEF Ups, AllUp
    <2>6. Abstract!Deploy(g) BY <2>3, <2>4, <2>5, Moves DEF Abstract!Deploy, Ups
    <2> QED BY <2>6 DEF Abstract!Next
  <1>6. CASE AppendInstance(g) \/ Reset(g)
    <2>1. /\ pc[g] \in {"append", "reset"} /\ UNCHANGED <<sgroups, freeSGroups>>
          /\ \A h \in SGroups \ {g} : instances'[h] = instances[h]
      BY <1>6 DEF AppendInstance, Reset, workerVars, IInv, LocalInv, TypeOK
    <2>2. g \notin sgroups BY <2>1 DEF IInv, BuildInv, Deployed, InLock
    <2>3. \A h \in SGroups : Phase(h)' = Phase(h) BY <1>2, <2>1, Phases, PhasesNext
    <2>4. Ups' = Ups
      BY <1>1, <2>1, <2>2 DEF Ups, AllUp, IInv, LocalInv, TypeOK
    <2> QED BY <2>3, <2>4, Stutters
  <1>7. CASE CreateDeployment(g) \/ FailDeployment(g) \/ PoolAdd(g) \/ Complete(g)
    <2>1. UNCHANGED <<sgroups, freeSGroups, instances, tid>>
      BY <1>7 DEF CreateDeployment, FailDeployment, PoolAdd, Complete,
         CompleteThen, workerVars, sgVars, insVars
    <2>2. \A h \in SGroups : Phase(h)' = Phase(h) BY <1>2, <2>1, Phases, PhasesNext
    <2>3. Ups' = Ups BY <2>1 DEF Ups, AllUp
    <2> QED BY <2>2, <2>3, Stutters
  <1> QED BY <1>3, <1>4, <1>5, <1>6, <1>7 DEF Create

\* A report makes at most one SGroup come up: the instance's.
LEMMA HandlerStep ==
  ASSUME RefInv, RefInv', NEW p \in Pods, SetUp(p), FrameOf(p)
  PROVE  \/ Abstract!Next
         \/ UNCHANGED <<[h \in SGroups |-> Phase(h)], {h \in sgroups : AllUp(h)}>>
  <1> USE DEF RefInv
  <1>1. /\ \E l \in {"none", "readSg", "lock"} : pc' = [pc EXCEPT ![p] = l]
        /\ pc[p] \in {"none", "readSg"}
        /\ UNCHANGED <<isReady, sgroups, freeSGroups, instances>>
    BY ConstAssumption DEF SetUp, InstanceSetUp, ReadSg, Return, Goto, workerVars, sgVars
  <1>2. \A h : Released(h)' <=> Released(h)
    BY <1>1, ReleasedFrame DEF Procs
  <1>3. \A h \in SGroups : Phase(h)' = Phase(h) BY <1>1, <1>2, Phases, PhasesNext
  <1>4. CASE ReadSg(p)
    <2>1. Ups' = Ups BY <1>1, <1>4 DEF ReadSg, Ups, AllUp
    <2> QED BY <1>3, <2>1, Stutters
  <1>5. CASE InstanceSetUp(p)
    <2> DEFINE ins == insStartupPool[port[p]]
    <2>1. tid' = [tid EXCEPT ![ins] = p] BY <1>5 DEF InstanceSetUp
    <2>2. p # None BY ConstAssumption DEF Procs
    <2>3. \A i \in Pods : /\ tid[i] # None => tid'[i] # None
                          /\ tid[i] = None /\ tid'[i] # None => i = ins
      BY <2>1, <2>2 DEF IInv, LocalInv, TypeOK
    <2>4. \A h \in SGroups : Range(instances[h]) \subseteq Pods
      BY DEF IInv, LocalInv, TypeOK, Range
    <2>5. \A h \in SGroups : AllUp(h) => AllUp(h)' BY <1>1, <2>3, <2>4 DEF AllUp
    <2>6. \A h \in SGroups : AllUp(h)' /\ ~AllUp(h) => insSg[ins] = h
      BY <1>1, <2>3, <2>4 DEF AllUp, ChainInv
    <2>7. sgroups \subseteq SGroups BY DEF IInv, LocalInv, TypeOK
    <2>8. CASE \E h \in sgroups : AllUp(h)' /\ ~AllUp(h)
      <3>1. PICK g \in sgroups : AllUp(g)' /\ ~AllUp(g) BY <2>8
      <3>2. Ups' = Ups \cup {g} BY <1>1, <2>5, <2>6, <2>7, <3>1 DEF Ups
      <3>3. g \in Abstract!Deployed \ Ups BY <3>1, DeployedIsListed DEF Ups
      <3>4. Abstract!ComeUp(g) BY <1>3, <3>2, <3>3 DEF Abstract!ComeUp, Ups
      <3> QED BY <2>7, <3>1, <3>4 DEF Abstract!Next
    <2>9. CASE ~\E h \in sgroups : AllUp(h)' /\ ~AllUp(h)
      <3>1. Ups' = Ups BY <1>1, <2>5, <2>7, <2>9 DEF Ups
      <3> QED BY <1>3, <3>1, Stutters
    <2> QED BY <2>8, <2>9
  <1> QED BY <1>4, <1>5 DEF SetUp

\* The barrier lets a SGroup through: it was deployed, and all are up.
LEMMA PreprocessStep ==
  ASSUME RefInv, RefInv', NEW q \in Procs, Preprocess(q), FrameOf(q),
         NEW l, pc' = [pc EXCEPT ![q] = l]
  PROVE  \/ Abstract!Next
         \/ UNCHANGED <<[h \in SGroups |-> Phase(h)], {h \in sgroups : AllUp(h)}>>
  <1> USE DEF RefInv
  <1>1. UNCHANGED <<sgroups, freeSGroups, instances, tid>>
    BY DEF Preprocess, Lock, Check, CheckIf, Connect, PassBarrier,
       NotifyScheduler, SetReady, workerVars, sgVars, insVars
  <1>2. Ups' = Ups BY <1>1 DEF Ups, AllUp
  <1>3. pc'[q] = l BY DEF IInv, LocalInv, TypeOK
  <1>4. CASE Lock(q) \/ Check(q) \/ Connect(q)
    <2>1. pc[q] # "release" /\ pc'[q] # "release" /\ isReady' = isReady
      BY <1>4, <1>3 DEF Lock, Check, CheckIf, Connect, Return, Goto, sgVars,
         IInv, LocalInv, TypeOK
    <2>2. \A h : Released(h)' <=> Released(h) BY <1>3, <2>1, ReleasedFrame
    <2>3. \A h \in SGroups : Phase(h)' = Phase(h) BY <1>1, <2>2, Phases, PhasesNext
    <2> QED BY <1>2, <2>3, Stutters
  <1>5. CASE PassBarrier(q)
    <2>0. /\ isAllSGroupsConnected /\ pc[q] = "wait" /\ pc'[q] = "release"
          /\ UNCHANGED <<isReady, handled, insSg>>
      BY <1>5 DEF PassBarrier, NotifyScheduler, Goto, sgVars, insVars,
         IInv, LocalInv, TypeOK
    <2>1. PICK g \in SGroups : g = SgOf(q)
      BY <2>0, SgOfType DEF IInv, InPreprocess, InLock
    <2>2. SgOf(q)' = g BY <2>0, <2>1 DEF SgOf
    <2>3. ~isReady[g] /\ g \in Range(sgroupConns)
      BY <2>0, <2>1 DEF IInv, ConnInv, Connecting, AtBarrier
    <2>4. ~Released(g)
      BY <2>0, <2>1, <2>3 DEF Released, IInv, LockedPreprocess, InLock
    <2>5. \A r \in Procs \ {q} : /\ pc'[r] = pc[r]
                                 /\ pc[r] = "release" => SgOf(r)' = SgOf(r)
      BY Others DEF Connecting
    <2>6. \A h \in SGroups : Released(h)' <=> Released(h) \/ h = g
      BY <2>0, <2>2, <2>5 DEF Released
    <2>7. g \in sgroups BY <2>3, JoinedIsDeployed
    <2>8. Phase(g) = "deployed" /\ Phase(g)' = "released"
      BY <1>1, <2>4, <2>6, <2>7, Phases, PhasesNext
    <2>9. \A h \in SGroups \ {g} : Phase(h)' = Phase(h) BY <1>1, <2>6, Phases, PhasesNext
    <2>10. Abstract!Deployed \subseteq Ups
      BY <2>0, OpensWhenAllUp, DeployedIsListed DEF BarrierOpensWhenAllUp, Ups
    <2>11. Abstract!Release(g)
      BY <1>2, <2>8, <2>9, <2>10, Moves DEF Abstract!Release, Ups
    <2> QED BY <2>11 DEF Abstract!Next
  <1>6. CASE SetReady(q)
    <2>0. /\ pc[q] = "release" /\ isReady' = [isReady EXCEPT ![SgOf(q)] = TRUE]
          /\ pc'[q] \in {"none", "done"}
      BY <1>6, <1>3 DEF SetReady, Return, Goto, IInv, LocalInv, TypeOK
    <2>1. PICK g \in SGroups : g = SgOf(q)
      BY <2>0, SgOfType DEF IInv, InPreprocess, InLock
    <2>2. \A r \in Procs \ {q} : /\ pc'[r] = pc[r]
                                 /\ pc[r] = "release" => SgOf(r)' = SgOf(r)
      BY Others DEF Connecting
    <2>3. isReady'[g] /\ \A h \in SGroups \ {g} : isReady'[h] = isReady[h]
      BY <2>0, <2>1 DEF IInv, LocalInv, TypeOK
    <2>4. \A h \in SGroups : Released(h)' <=> Released(h)
      BY <2>0, <2>1, <2>2, <2>3 DEF Released
    <2>5. \A h \in SGroups : Phase(h)' = Phase(h) BY <1>1, <2>4, Phases, PhasesNext
    <2> QED BY <1>2, <2>5, Stutters
  <1> QED BY <1>4, <1>5, <1>6 DEF Preprocess

\* The first state of the start-up is ReadinessBarrier's.
LEMMA InitMaps == Init => Abstract!Init
  <1> SUFFICES ASSUME Init PROVE Abstract!Init OBVIOUS
  <1>1. \A g \in SGroups : Phase(g) = "free" BY DEF Init, Phase, Procs
  <1>2. Ups = {} BY DEF Init, Ups
  <1> QED BY <1>1, <1>2 DEF Abstract!Init, Ups

\* Every step is a step of ReadinessBarrier, or a stutter.
LEMMA StepMaps ==
  ASSUME RefInv, RefInv', [Next]_vars
  PROVE  [Abstract!Next]_<<[g \in SGroups |-> Phase(g)], {g \in sgroups : AllUp(g)}>>
  <1>1. CASE UNCHANGED vars \/ UNCHANGED <<pc, workerVars, sgVars, insVars>>
    <2>1. UNCHANGED <<pc, sgroups, freeSGroups, instances, isReady, insVars>>
      BY <1>1 DEF vars, workerVars, sgVars
    <2>2. \A h \in SGroups : Phase(h)' = Phase(h) BY <2>1 DEF Phase, SgOf, insVars
    <2>3. Ups' = Ups BY <2>1 DEF Ups, AllUp, insVars
    <2> QED BY <2>2, <2>3, Stutters
  <1>2. ASSUME NEW x \in Procs, FrameOf(x), NEW l \in Labels, pc' = [pc EXCEPT ![x] = l],
               \/ x \in SGroups /\ (GetFreeSGroup(x) \/ Create(x))
               \/ x \in Pods /\ SetUp(x)
               \/ Preprocess(x)
        PROVE  [Abstract!Next]_<<[g \in SGroups |-> Phase(g)], {g \in sgroups : AllUp(g)}>>
    BY <1>2, CreatorStep, HandlerStep, PreprocessStep
  <1> QED BY <1>1, <1>2, OneMoves DEF RefInv

\* The start-up releases each SGroup once, at an instant when every deployed one is
\* up, and gives up builds only before they are deployed: what createSGroup,
\* InstanceSetUp and preprocessBeforeReady do together is ReadinessBarrier.
THEOREM Implements == Spec => ImplementsBarrier
  <1>1. Init => RefInv /\ Abstract!Init
    <2>1. Range(<<>>) = {} BY DEF Range
    <2>2. Init => ChainInv BY <2>1 DEF Init, ChainInv
    <2> QED BY <2>2, Inductive, InitMaps DEF RefInv
  <1>2. RefInv /\ [Next]_vars => RefInv'
    BY Inductive, ChainNext DEF RefInv, IInv
  <1>3. RefInv /\ RefInv' /\ [Next]_vars =>
           [Abstract!Next]_<<[g \in SGroups |-> Phase(g)], {g \in sgroups : AllUp(g)}>>
    BY StepMaps
  <1> QED BY <1>1, <1>2, <1>3, PTL DEF Spec, ImplementsBarrier, Abstract!Spec
==============================================================================
