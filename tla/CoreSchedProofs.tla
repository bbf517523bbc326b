--------------------------- MODULE CoreSchedProofs ---------------------------
(***************************************************************************)
(* Theorems of CoreSched, for any number of SGroups, cores and flows and   *)
(* any number of failing RPCs.  IInv is the inductive invariant: where the *)
(* scheduler's visit stands and what it has reserved (PlaceInv), and, as   *)
(* long as no RPC failed, what CooperativeSched does (RunInv).             *)
(***************************************************************************)
EXTENDS CoreSched, SequenceTheorems, TLAPS

\* The pass is inside the visit of a SGroup.
InVisit == pc \notin {"sleep", "visit"}

\* Stages after which CooperativeSched knows the chain, if no call failed,
\* and those between its first attachment and its readiness.
Known    == {"attach", "add", "store", "ready", "done"}
Starting == {"add", "store", "ready"}

\* A SGroup has a core from the moment it is ready; only ready SGroups are
\* visited further than the first test.
ReadyInv ==
    /\ \A g \in SGroups : isReady[g] <=> stage[g] = "done"
    /\ \A g \in SGroups : coreID[g] \in Cores <=> isReady[g]
    /\ InVisit => isReady[Cur]

\* The core picked stays empty until the SGroup is added to it, and between
\* its removal and its addition the SGroup is in no list but core 1's.
ReservedInv ==
    /\ pc \in {"remove", "removeStore", "attach", "add"} /\ target # IdleCore =>
            cores[target] = {}
    /\ pc \in {"removeStore", "attach", "add", "addStore"} =>
            \A c \in Cores \ {IdleCore} : Cur \notin cores[c]

PlaceInv == TypeOK /\ ReadyInv /\ NoPacking /\ ReservedInv

\* The chains are known, those starting run on core 1, and the SGroup being
\* added runs where it is added.
StartInv ==
    /\ \A g \in SGroups : stage[g] \in Known => known[g]
    /\ \A g \in SGroups : stage[g] \in Starting => running[g] = IdleCore
    /\ pc \in {"add", "addStore"} => running[Cur] = target

AgreeInv ==
    \A g \in SGroups : isReady[g] /\ ~Moving(g) =>
        running[g] = IF isSched[g] THEN coreID[g] ELSE None

\* A chain that runs on a core other than core 1 is in its list, or is being
\* moved, and then no other is.
ListedInv ==
    \A g \in SGroups : running[g] \in Cores \ {IdleCore} =>
        \/ g \in cores[running[g]]
        \/ /\ g = Cur /\ pc \in {"attach", "add"}
           /\ cores[running[g]] = {}

RunInv == faults = 0 => StartInv /\ AgreeInv /\ ListedInv

-----------------------------------------------------------------------------
(* Type correctness. *)

\* The SGroup visited is one of the worker's.
LEMMA CurType ==
  ASSUME TypeOK, InVisit \/ pos <= Len(sgroups)
  PROVE  Cur \in SGroups
  BY DEF TypeOK, InVisit, Cur

\* newSGroup and newWorker set every field.
LEMMA TypeInit == Init => TypeOK
  BY ConstAssumption DEF Init, TypeOK, Labels, Stages

\* An RPC changes only what CooperativeSched runs, whatever its outcome.
LEMMA RpcType ==
  ASSUME TypeOK, NEW g \in SGroups, NEW c \in Cores \cup {None}, NEW o, Rpc(g, c, o)
  PROVE  /\ running' \in [SGroups -> Cores \cup {None}] /\ known' = known
         /\ faults' \in Nat /\ overdue' \subseteq SGroups
  BY DEF TypeOK, Rpc

\* Every step of start-up, pass and flows keeps the types.
LEMMA TypeNext == TypeOK /\ [Next]_vars => TypeOK'
  <1> SUFFICES ASSUME TypeOK, [Next]_vars PROVE TypeOK'
    OBVIOUS
  <1> USE DEF TypeOK
  <1>1. ASSUME NEW g \in SGroups, Deploy(g) PROVE TypeOK'
    <2>1. sgroups' \in Seq(SGroups) BY <1>1 DEF Deploy
    <2> QED BY <1>1, <2>1 DEF Deploy, Stages, sgVars, passVars, schedVars
  <1>2. ASSUME NEW g \in SGroups, Join(g) \/ Release(g) PROVE TypeOK'
    BY <1>2 DEF Join, Release, Stages, sgVars, passVars, schedVars
  <1>3. ASSUME NEW g \in SGroups, SetupChain(g) PROVE TypeOK'
    <2>1. PICK o : /\ known' = [known EXCEPT ![g] = o # "lost"]
                   /\ faults' = IF o = "ok" THEN faults ELSE faults + 1
      BY <1>3 DEF SetupChain
    <2>2. known' \in [SGroups -> BOOLEAN] /\ faults' \in Nat BY <2>1
    <2> QED BY <1>3, <2>2 DEF SetupChain, Stages, sgVars, passVars
  <1>4. ASSUME NEW g \in SGroups, FirstAttach(g) PROVE TypeOK'
    <2>1. PICK o : Rpc(g, IdleCore, o) BY <1>4 DEF FirstAttach
    <2>2. /\ running' \in [SGroups -> Cores \cup {None}] /\ known' = known
          /\ faults' \in Nat /\ overdue' \subseteq SGroups
      BY <2>1, RpcType, ConstAssumption
    <2> QED BY <1>4, <2>2 DEF FirstAttach, Stages, sgVars, passVars
  <1>5. ASSUME NEW g \in SGroups, AddRead(g) \/ AddStore(g) PROVE TypeOK'
    <2>1. CASE AddRead(g)
      BY <2>1, ConstAssumption DEF AddRead, Stages, sgVars, passVars, schedVars
    <2>2. CASE AddStore(g)
      <3>1. /\ cores' \in [Cores -> SUBSET SGroups]
            /\ snapshot' \in [SGroups \cup {Scheduler} -> SUBSET SGroups]
            /\ stage' \in [SGroups -> Stages]
        BY <2>2, ConstAssumption DEF AddStore, Stages
      <3> QED BY <2>2, <3>1 DEF AddStore, sgVars, passVars, schedVars
    <2> QED BY <1>5, <2>1, <2>2
  <1>6. ASSUME NEW g \in SGroups, SetReady(g) PROVE TypeOK'
    BY <1>6, ConstAssumption DEF SetReady, Stages, passVars, schedVars
  <1>7. ASSUME NEW f \in Flows, NEW g \in SGroups, FindInactive(f, g) PROVE TypeOK'
    BY <1>7 DEF FindInactive, sgVars, passVars, schedVars
  <1>8. ASSUME NEW f \in Flows, SetActive(f) PROVE TypeOK'
    <2>1. pending[f] \in SGroups BY <1>8 DEF SetActive
    <2>2. idleSampleCnt' \in [SGroups -> 0 .. MIN_IDLE_DURATION]
      BY <1>8, <2>1, ConstAssumption DEF SetActive
    <2> QED BY <1>8, <2>1, <2>2 DEF SetActive, passVars, schedVars
  <1>9. ASSUME NEW g \in SGroups, NEW r \in BOOLEAN, NEW q \in BOOLEAN,
               UpdateTrafficInfo(g, r, q)
        PROVE  TypeOK'
    <2>1. /\ isActive' \in [SGroups -> BOOLEAN]
          /\ idleSampleCnt' \in [SGroups -> 0 .. MIN_IDLE_DURATION]
      <3>1. CASE CountIdle(g)
        BY <3>1, ConstAssumption DEF CountIdle
      <3>2. CASE isActive' = [isActive EXCEPT ![g] = TRUE] /\ UNCHANGED idleSampleCnt
        BY <3>2
      <3> QED BY <1>9, <3>1, <3>2 DEF UpdateTrafficInfo
    <2> QED BY <1>9, <2>1 DEF UpdateTrafficInfo, passVars, schedVars
  <1>10. CASE BeginPass \/ EndPass
    BY <1>10 DEF BeginPass, EndPass, Labels, sgVars, schedVars
  <1>11. ASSUME NEW g \in SGroups, Leave(g) \/ Park(g) \/ Run(g) PROVE TypeOK'
    BY <1>11, ConstAssumption DEF Leave, Park, Run, Visiting, Pass, NextSGroup,
       IdleCores, Labels, sgVars, schedVars
  <1>12. CASE RemoveSGroup
    <2>1. cores' \in [Cores -> SUBSET SGroups]
      <3>1. \/ cores' = cores
            \/ \E d : cores' = [cores EXCEPT ![d] = cores[d] \ {Cur}]
        BY <1>12 DEF RemoveSGroup
      <3>2. ASSUME NEW d, cores' = [cores EXCEPT ![d] = cores[d] \ {Cur}]
            PROVE  cores' \in [Cores -> SUBSET SGroups]
        <4>1. CASE d \in Cores
          <5>1. cores[d] \ {Cur} \in SUBSET SGroups BY <4>1
          <5> QED BY <3>2, <5>1
        <4>2. CASE d \notin Cores
          <5>1. cores' = cores BY <3>2, <4>2
          <5> QED BY <5>1
        <4> QED BY <4>1, <4>2
      <3> QED BY <3>1, <3>2
    <2>2. snapshot' \in [SGroups \cup {Scheduler} -> SUBSET SGroups]
      BY <1>12, ConstAssumption DEF RemoveSGroup
    <2> QED BY <1>12, <2>1, <2>2 DEF RemoveSGroup, Pass, Labels, sgVars, schedVars
  <1>13. CASE RemoveStore
    BY <1>13, ConstAssumption DEF RemoveStore, Pass, Labels, sgVars, schedVars
  <1>14. CASE AttachChain
    <2>1. PICK o : /\ Rpc(Cur, target, o)
                   /\ IF o = "ok" THEN Pass("add") ELSE NextSGroup
      BY <1>14 DEF AttachChain
    <2>2. Cur \in SGroups BY <1>14, CurType DEF AttachChain, InVisit
    <2>3. /\ running' \in [SGroups -> Cores \cup {None}] /\ known' = known
          /\ faults' \in Nat /\ overdue' \subseteq SGroups
      BY <2>1, <2>2, RpcType
    <2> QED BY <1>14, <2>1, <2>3 DEF AttachChain, Pass, NextSGroup, Labels, sgVars
  <1>15. CASE AddSGroup \/ AddStoreOnIdle
    <2>1. Cur \in SGroups
      BY <1>15, CurType DEF AddSGroup, AddStoreOnIdle, InVisit
    <2>2. /\ cores' \in [Cores -> SUBSET SGroups]
          /\ snapshot' \in [SGroups \cup {Scheduler} -> SUBSET SGroups]
      <3>1. CASE AddSGroup
        <4>1. \/ cores' = cores /\ snapshot' = [snapshot EXCEPT ![Scheduler] = cores[IdleCore]]
              \/ cores' = [cores EXCEPT ![target] = cores[target] \cup {Cur}] /\ snapshot' = snapshot
          BY <3>1 DEF AddSGroup
        <4>2. cores[IdleCore] \in SUBSET SGroups /\ cores[target] \cup {Cur} \in SUBSET SGroups
          BY <2>1, ConstAssumption
        <4> QED BY <4>1, <4>2
      <3>2. CASE AddStoreOnIdle
        BY <3>2, <2>1, ConstAssumption DEF AddStoreOnIdle
      <3> QED BY <1>15, <3>1, <3>2
    <2>3. \/ UNCHANGED <<coreID, isSched>> /\ Pass("addStore")
          \/ Attached
      BY <1>15 DEF AddSGroup, AddStoreOnIdle
    <2>4. /\ coreID' \in [SGroups -> Cores \cup {None}]
          /\ isSched' \in [SGroups -> BOOLEAN]
          /\ pc' \in Labels /\ pos' \in Nat \ {0}
          /\ pc' \notin {"sleep", "visit"} => pos' = pos
      <3>1. CASE UNCHANGED <<coreID, isSched>> /\ Pass("addStore")
        BY <3>1 DEF Pass, Labels
      <3>2. CASE Attached
        <4>1. /\ coreID' = [coreID EXCEPT ![Cur] = target]
              /\ isSched' = [isSched EXCEPT ![Cur] = TRUE]
              /\ \/ pc' = "detach" /\ pos' = pos
                 \/ pc' = "visit" /\ pos' = pos + 1
          BY <3>2 DEF Attached, Pass, NextSGroup
        <4>2. coreID' \in [SGroups -> Cores \cup {None}] BY <4>1, <2>1
        <4>3. isSched' \in [SGroups -> BOOLEAN] BY <4>1, <2>1
        <4> QED BY <4>1, <4>2, <4>3 DEF Labels
      <3> QED BY <2>3, <3>1, <3>2
    <2>5. /\ pos <= Len(sgroups)
          /\ UNCHANGED <<sgroups, isReady, isActive, idleSampleCnt, stage, job,
                         target, pending, schedVars>>
      BY <1>15 DEF AddSGroup, AddStoreOnIdle
    <2> QED BY <2>2, <2>4, <2>5 DEF schedVars
  <1>16. CASE DetachChain
    <2>1. PICK o : /\ Rpc(Cur, None, o)
                   /\ isSched' = IF o = "ok" THEN [isSched EXCEPT ![Cur] = FALSE]
                                             ELSE isSched
      BY <1>16 DEF DetachChain, DetachThen
    <2>2. Cur \in SGroups BY <1>16, CurType DEF DetachChain, DetachThen, InVisit
    <2>3. /\ running' \in [SGroups -> Cores \cup {None}] /\ known' = known
          /\ faults' \in Nat /\ overdue' \subseteq SGroups
      BY <2>1, <2>2, RpcType
    <2>4. isSched' \in [SGroups -> BOOLEAN] BY <2>1, <2>2
    <2> QED BY <1>16, <2>3, <2>4 DEF DetachChain, DetachThen, NextSGroup, Labels
  <1>17. CASE UNCHANGED vars
    BY <1>17 DEF vars, sgVars, passVars, schedVars
  <1> QED BY <1>1, <1>2, <1>3, <1>4, <1>5, <1>6, <1>7, <1>8, <1>9, <1>10, <1>11,
             <1>12, <1>13, <1>14, <1>15, <1>16, <1>17
          DEF Next, Startup, ScheduleOnce

\* The scheduler's state stays well formed; in particular a visit is always
\* at a SGroup of the worker, whatever fails.
THEOREM TypeCorrect == Spec => []TypeOK
  BY TypeInit, TypeNext, PTL DEF Spec

-----------------------------------------------------------------------------
(* Placement: the controller's lists. *)

\* What the placement depends on, apart from the attaching goroutines'
\* copies of core 1's list.
placeVars == <<sgroups, cores, coreID, isReady, isSched, stage, passVars, schedVars>>

\* Activity may change at any time, also in the middle of a visit: it moves
\* nothing.
LEMMA QuietSteps ==
  ASSUME \/ \E f \in Flows, g \in SGroups : FindInactive(f, g)
         \/ \E f \in Flows : SetActive(f)
         \/ \E g \in SGroups, rate, queue \in BOOLEAN : UpdateTrafficInfo(g, rate, queue)
         \/ UNCHANGED vars
  PROVE  UNCHANGED placeVars
  BY DEF FindInactive, SetActive, UpdateTrafficInfo, vars, placeVars, sgVars

\* Steps of the goroutine that makes g ready, up to its last.
EarlyStartup(g) ==
    Join(g) \/ Release(g) \/ SetupChain(g) \/ FirstAttach(g) \/ AddRead(g) \/ AddStore(g)

\* Start-up before its last step touches neither the pass nor a core but core 1.
LEMMA EarlySteps ==
  ASSUME TypeOK, NEW g \in SGroups, EarlyStartup(g)
  PROVE  /\ UNCHANGED <<sgroups, coreID, isReady, isSched, passVars>>
         /\ stage[g] # "done" /\ stage'[g] # "done"
         /\ \A h \in SGroups \ {g} : stage'[h] = stage[h]
         /\ \A c \in Cores \ {IdleCore} : cores'[c] = cores[c]
  <1>1. PICK l : stage' = [stage EXCEPT ![g] = l] /\ l # "done" /\ stage[g] # "done"
    BY DEF EarlyStartup, Join, Release, SetupChain, FirstAttach, AddRead, AddStore
  <1>2. cores' = cores \/ \E s : cores' = [cores EXCEPT ![IdleCore] = s]
    BY DEF EarlyStartup, Join, Release, SetupChain, FirstAttach, AddRead, AddStore
  <1>3. UNCHANGED <<sgroups, coreID, isReady, isSched, passVars>>
    BY DEF EarlyStartup, Join, Release, SetupChain, FirstAttach, AddRead, AddStore, sgVars
  <1>4. stage \in [SGroups -> Stages] /\ cores \in [Cores -> SUBSET SGroups]
    BY DEF TypeOK
  <1>5. stage'[g] # "done" /\ \A h \in SGroups \ {g} : stage'[h] = stage[h]
    BY <1>1, <1>4
  <1>6. \A c \in Cores \ {IdleCore} : cores'[c] = cores[c]
    BY <1>2, <1>4
  <1> QED BY <1>1, <1>3, <1>5, <1>6

\* Where a visit leads, and that the SGroup visited stays the same.
LEMMA CurSame ==
  ASSUME UNCHANGED <<sgroups, pos>> PROVE Cur' = Cur
  BY DEF Cur

\* At first no core lists a SGroup.
LEMMA PlaceInit == Init => PlaceInv
  <1> SUFFICES ASSUME Init PROVE PlaceInv
    OBVIOUS
  <1>1. ReadyInv BY ConstAssumption DEF Init, ReadyInv, InVisit
  <1>2. NoPacking BY DEF Init, NoPacking
  <1>3. ReservedInv BY DEF Init, ReservedInv
  <1> QED BY <1>1, <1>2, <1>3, TypeInit DEF PlaceInv

\* A SGroup has a core only from the end of preprocessBeforeReady on.
LEMMA ReadyNext == PlaceInv /\ [Next]_vars => ReadyInv'
  <1> SUFFICES ASSUME PlaceInv, [Next]_vars PROVE ReadyInv'
    OBVIOUS
  <1>0. TypeOK /\ ReadyInv /\ TypeOK' BY TypeNext DEF PlaceInv
  <1>1. ASSUME NEW g \in SGroups, Deploy(g) PROVE ReadyInv'
    <2>1. /\ pc' = "sleep" /\ stage' = [stage EXCEPT ![g] = "deployed"]
          /\ stage[g] = "free" /\ UNCHANGED <<isReady, coreID>>
      BY <1>1 DEF Deploy, sgVars, passVars
    <2> QED BY <1>0, <2>1 DEF ReadyInv, InVisit, TypeOK
  <1>2. ASSUME NEW g \in SGroups, EarlyStartup(g) PROVE ReadyInv'
    <2>1. Cur' = Cur BY <1>0, <1>2, EarlySteps, CurSame DEF passVars
    <2> QED BY <1>0, <1>2, <2>1, EarlySteps DEF ReadyInv, InVisit, passVars
  <1>3. ASSUME NEW g \in SGroups, SetReady(g) PROVE ReadyInv'
    <2>1. /\ isReady' = [isReady EXCEPT ![g] = TRUE]
          /\ coreID' = [coreID EXCEPT ![g] = IdleCore]
          /\ stage' = [stage EXCEPT ![g] = "done"]
          /\ UNCHANGED <<sgroups, pc, pos>>
      BY <1>3 DEF SetReady, passVars
    <2>2. Cur' = Cur BY <2>1, CurSame
    <2>3. \A h \in SGroups : (isReady'[h] <=> stage'[h] = "done")
                          /\ (coreID'[h] \in Cores <=> isReady'[h])
      BY <1>0, <2>1, ConstAssumption DEF ReadyInv, TypeOK
    <2>4. InVisit' => isReady'[Cur']
      <3> SUFFICES ASSUME InVisit PROVE isReady'[Cur]
        BY <2>1, <2>2 DEF InVisit
      <3>1. Cur \in SGroups BY <1>0, CurType
      <3> QED BY <1>0, <2>1, <3>1 DEF ReadyInv, TypeOK
    <2> QED BY <2>3, <2>4 DEF ReadyInv
  <1>4. ASSUME UNCHANGED placeVars PROVE ReadyInv'
    <2>1. Cur' = Cur BY <1>4, CurSame DEF placeVars, passVars
    <2> QED BY <1>0, <1>4, <2>1 DEF placeVars, passVars, ReadyInv, InVisit
  <1>5. CASE BeginPass \/ EndPass \/ \E g \in SGroups : Leave(g)
    BY <1>0, <1>5 DEF BeginPass, EndPass, Leave, NextSGroup, sgVars, ReadyInv, InVisit
  <1>6. ASSUME NEW g \in SGroups, Park(g) \/ Run(g) PROVE ReadyInv'
    <2>1. /\ isReady[g] /\ g = Cur
          /\ UNCHANGED <<sgroups, pos, isReady, coreID, stage>>
      BY <1>6 DEF Park, Run, Visiting, Pass, sgVars
    <2> QED BY <1>0, <2>1, CurSame DEF ReadyInv
  <1>7. CASE RemoveSGroup \/ RemoveStore
    <2>1. UNCHANGED <<sgroups, pos, isReady, coreID, stage>> /\ InVisit
      BY <1>7 DEF RemoveSGroup, RemoveStore, Pass, sgVars, InVisit
    <2> QED BY <1>0, <2>1, CurSame DEF ReadyInv
  <1>8. CASE AttachChain \/ DetachChain
    <2>1. /\ UNCHANGED <<sgroups, isReady, coreID, stage>> /\ InVisit
          /\ pos' = pos \/ pc' = "visit"
      BY <1>8 DEF AttachChain, DetachChain, DetachThen, Pass, NextSGroup, sgVars, InVisit
    <2> QED BY <1>0, <2>1, CurSame DEF ReadyInv, InVisit
  <1>9. CASE AddSGroup \/ AddStoreOnIdle
    <2>1. /\ UNCHANGED <<sgroups, isReady, stage>> /\ InVisit
          /\ pos' = pos \/ pc' = "visit"
          /\ coreID' = coreID \/ coreID' = [coreID EXCEPT ![Cur] = target]
      BY <1>9 DEF AddSGroup, AddStoreOnIdle, Attached, Pass, NextSGroup, InVisit
    <2>2. Cur \in SGroups /\ isReady[Cur] BY <1>0, <2>1, CurType DEF ReadyInv
    <2>3. \A h \in SGroups : coreID'[h] \in Cores <=> isReady[h]
      BY <1>0, <2>1, <2>2 DEF ReadyInv, TypeOK
    <2> QED BY <1>0, <2>1, <2>2, <2>3, CurSame DEF ReadyInv, InVisit
  <1> QED BY <1>1, <1>2, <1>3, <1>4, <1>5, <1>6, <1>7, <1>8, <1>9, QuietSteps
          DEF Next, Startup, ScheduleOnce, EarlyStartup
\* A step after which a core other than core 1 lists fewer SGroups, or the
\* same, and those it lists keep their core, packs nothing.
LEMMA NoPackingFewer ==
  ASSUME NoPacking,
         \A c \in Cores \ {IdleCore} : cores'[c] \subseteq cores[c],
         \A c \in Cores \ {IdleCore} : \A g \in cores'[c] : coreID'[g] = coreID[g]
  PROVE  NoPacking'
  BY DEF NoPacking

\* No step adds a second SGroup to a core but core 1.
LEMMA NoPackingNext == PlaceInv /\ [Next]_vars => NoPacking'
  <1> SUFFICES ASSUME PlaceInv, [Next]_vars PROVE NoPacking'
    OBVIOUS
  <1>0. TypeOK /\ ReadyInv /\ NoPacking /\ ReservedInv BY DEF PlaceInv
  <1>1. CASE UNCHANGED <<cores, coreID>>
    BY <1>0, <1>1, NoPackingFewer
  <1>2. ASSUME NEW g \in SGroups, EarlyStartup(g) PROVE NoPacking'
    BY <1>0, <1>2, EarlySteps, NoPackingFewer
  <1>3. ASSUME NEW g \in SGroups, SetReady(g) PROVE NoPacking'
    <2>1. /\ coreID' = [coreID EXCEPT ![g] = IdleCore] /\ cores' = cores
          /\ stage[g] = "ready"
      BY <1>3 DEF SetReady
    <2>2. \A c \in Cores \ {IdleCore} : g \notin cores[c]
      <3> SUFFICES ASSUME NEW c \in Cores \ {IdleCore}, g \in cores[c] PROVE FALSE
        OBVIOUS
      <3>1. coreID[g] \in Cores BY <1>0 DEF NoPacking
      <3> QED BY <1>0, <2>1, <3>1 DEF ReadyInv
    <2>3. \A c \in Cores \ {IdleCore} : \A h \in cores'[c] : coreID'[h] = coreID[h]
      BY <1>0, <2>1, <2>2 DEF TypeOK
    <2> QED BY <1>0, <2>1, <2>3, NoPackingFewer
  <1>4. CASE RemoveSGroup
    <2>1. /\ coreID' = coreID
          /\ cores' = cores \/ \E c : cores' = [cores EXCEPT ![c] = cores[c] \ {Cur}]
      BY <1>4 DEF RemoveSGroup, sgVars
    <2>2. \A c \in Cores : cores'[c] \subseteq cores[c]
      BY <1>0, <2>1 DEF TypeOK
    <2> QED BY <1>0, <2>1, <2>2, NoPackingFewer
  <1>5. CASE RemoveStore
    <2>1. coreID' = coreID /\ \A c \in Cores \ {IdleCore} : cores'[c] = cores[c]
      BY <1>0, <1>5 DEF RemoveStore, sgVars, TypeOK
    <2> QED BY <1>0, <2>1, NoPackingFewer
  <1>6. CASE AddSGroup
    <2>1. Cur \in SGroups BY <1>0, <1>6, CurType DEF AddSGroup, InVisit
    <2>2. CASE target = IdleCore
      BY <1>0, <1>6, <2>2, NoPackingFewer DEF AddSGroup
    <2>3. CASE target # IdleCore
      <3>1. /\ cores' = [cores EXCEPT ![target] = cores[target] \cup {Cur}]
            /\ coreID' = [coreID EXCEPT ![Cur] = target]
            /\ cores[target] = {}
            /\ \A c \in Cores \ {IdleCore} : Cur \notin cores[c]
        BY <1>0, <1>6, <2>3 DEF AddSGroup, Attached, ReservedInv
      <3>2. cores'[target] = {Cur} /\ coreID'[Cur] = target
        BY <1>0, <2>1, <3>1 DEF TypeOK
      <3>3. ASSUME NEW c \in Cores \ {IdleCore}, c # target
            PROVE  \A h \in cores'[c] : cores'[c] = {h} /\ coreID'[h] = c
        <4>1. cores'[c] = cores[c] /\ \A h \in cores[c] : coreID'[h] = coreID[h]
          BY <1>0, <3>1, <3>3 DEF TypeOK
        <4> QED BY <1>0, <4>1 DEF NoPacking
      <3> QED BY <3>2, <3>3 DEF NoPacking
    <2> QED BY <2>2, <2>3
  <1>7. CASE AddStoreOnIdle
    <2>1. /\ coreID' = [coreID EXCEPT ![Cur] = target]
          /\ \A c \in Cores \ {IdleCore} : cores'[c] = cores[c]
          /\ \A c \in Cores \ {IdleCore} : Cur \notin cores[c]
      BY <1>0, <1>7 DEF AddStoreOnIdle, Attached, ReservedInv, TypeOK
    <2>2. \A c \in Cores \ {IdleCore} : \A h \in cores'[c] : coreID'[h] = coreID[h]
      BY <1>0, <2>1 DEF TypeOK
    <2> QED BY <1>0, <2>1, <2>2, NoPackingFewer
  <1>8. ASSUME \/ BeginPass \/ EndPass \/ AttachChain \/ DetachChain
               \/ \E g \in SGroups : Deploy(g) \/ Leave(g) \/ Park(g) \/ Run(g)
        PROVE  UNCHANGED <<cores, coreID>>
    BY <1>8 DEF BeginPass, EndPass, AttachChain, DetachChain, DetachThen, Deploy,
       Leave, Park, Run, sgVars
  <1> QED BY <1>1, <1>2, <1>3, <1>4, <1>5, <1>6, <1>7, <1>8, QuietSteps
          DEF Next, Startup, ScheduleOnce, EarlyStartup, placeVars

\* The reservation holds after a step that neither moves the pass nor grows
\* a list other than core 1's.
LEMMA ReservedKept ==
  ASSUME ReservedInv, TypeOK, UNCHANGED <<sgroups, passVars>>,
         \A c \in Cores \ {IdleCore} : cores'[c] = cores[c]
  PROVE  ReservedInv'
  <1>1. Cur' = Cur BY CurSame DEF passVars
  <1>2. target \in Cores BY DEF TypeOK
  <1> QED BY <1>1, <1>2 DEF ReservedInv, passVars

\* The core on its way to be filled stays empty.
LEMMA ReservedNext == PlaceInv /\ [Next]_vars => ReservedInv'
  <1> SUFFICES ASSUME PlaceInv, [Next]_vars PROVE ReservedInv'
    OBVIOUS
  <1>0. TypeOK /\ ReadyInv /\ NoPacking /\ ReservedInv BY DEF PlaceInv
  <1>1. ASSUME NEW g \in SGroups, Deploy(g) PROVE ReservedInv'
    BY <1>1 DEF Deploy, passVars, ReservedInv
  <1>2. ASSUME NEW g \in SGroups, EarlyStartup(g) PROVE ReservedInv'
    BY <1>0, <1>2, EarlySteps, ReservedKept
  <1>3. ASSUME NEW g \in SGroups, SetReady(g) PROVE ReservedInv'
    BY <1>0, <1>3, ReservedKept DEF SetReady
  <1>4. ASSUME UNCHANGED placeVars PROVE ReservedInv'
    BY <1>0, <1>4, ReservedKept DEF placeVars
  <1>5. ASSUME pc' \in {"sleep", "visit", "detach"} PROVE ReservedInv'
    BY <1>5 DEF ReservedInv
  <1>6. ASSUME NEW g \in SGroups, Park(g) PROVE ReservedInv'
    BY <1>6 DEF Park, Pass, ReservedInv
  <1>7. ASSUME NEW g \in SGroups, Run(g) PROVE ReservedInv'
    BY <1>7 DEF Run, Pass, IdleCores, ReservedInv
  <1>8. CASE RemoveSGroup
    <2>1. /\ UNCHANGED <<sgroups, pos, target, coreID>> /\ pc = "remove"
          /\ pc' \in {"removeStore", "attach"} /\ Cur \in SGroups
      BY <1>0, <1>8, CurType DEF RemoveSGroup, Pass, sgVars, InVisit
    <2>2. Cur' = Cur BY <2>1, CurSame
    <2>3. \A c \in Cores : cores'[c] \subseteq cores[c]
      <3>1. cores' = cores \/ \E c : cores' = [cores EXCEPT ![c] = cores[c] \ {Cur}]
        BY <1>8 DEF RemoveSGroup
      <3> QED BY <1>0, <3>1 DEF TypeOK
    <2>4. \A c \in Cores \ {IdleCore} : Cur \notin cores'[c]
      <3> SUFFICES ASSUME NEW c \in Cores \ {IdleCore}, Cur \in cores'[c] PROVE FALSE
        OBVIOUS
      <3>1. coreID[Cur] = c BY <1>0, <2>3 DEF NoPacking
      <3>2. cores' = [cores EXCEPT ![c] = cores[c] \ {Cur}]
        BY <1>8, <3>1 DEF RemoveSGroup
      <3> QED BY <1>0, <3>2 DEF TypeOK
    <2>5. target \in Cores BY <1>0 DEF TypeOK
    <2> QED BY <1>0, <2>1, <2>2, <2>3, <2>4, <2>5 DEF ReservedInv
  <1>9. CASE RemoveStore
    <2>1. /\ UNCHANGED <<sgroups, pos, target>> /\ pc = "removeStore" /\ pc' = "attach"
          /\ \A c \in Cores \ {IdleCore} : cores'[c] = cores[c]
      BY <1>0, <1>9 DEF RemoveStore, Pass, TypeOK
    <2>2. Cur' = Cur /\ target \in Cores BY <1>0, <2>1, CurSame DEF TypeOK
    <2> QED BY <1>0, <2>1, <2>2 DEF ReservedInv
  <1>10. CASE AttachChain
    <2>1. CASE Pass("add")
      <3>1. UNCHANGED <<sgroups, pos, target, cores>> /\ pc = "attach" /\ pc' = "add"
        BY <1>10, <2>1 DEF AttachChain, Pass
      <3>2. Cur' = Cur BY <3>1, CurSame
      <3> QED BY <1>0, <3>1, <3>2 DEF ReservedInv
    <2>2. CASE NextSGroup
      BY <2>2, <1>5 DEF NextSGroup
    <2> QED BY <1>10, <2>1, <2>2 DEF AttachChain
  <1>11. CASE AddSGroup
    <2>1. CASE target = IdleCore
      <3>1. /\ UNCHANGED <<sgroups, pos, target, cores>> /\ pc = "add" /\ pc' = "addStore"
        BY <1>11, <2>1 DEF AddSGroup, Pass
      <3>2. Cur' = Cur BY <3>1, CurSame
      <3> QED BY <1>0, <3>1, <3>2 DEF ReservedInv
    <2>2. CASE target # IdleCore
      <3>1. pc' \in {"visit", "detach"}
        BY <1>11, <2>2 DEF AddSGroup, Attached, Pass, NextSGroup
      <3> QED BY <3>1, <1>5
    <2> QED BY <2>1, <2>2
  <1>12. CASE AddStoreOnIdle
    <2>1. pc' \in {"visit", "detach"}
      BY <1>12 DEF AddStoreOnIdle, Attached, Pass, NextSGroup
    <2> QED BY <2>1, <1>5
  <1>13. ASSUME \/ BeginPass \/ EndPass \/ DetachChain \/ \E g \in SGroups : Leave(g)
         PROVE  pc' \in {"sleep", "visit"}
    BY <1>13 DEF BeginPass, EndPass, DetachChain, DetachThen, Leave, NextSGroup
  <1> QED BY <1>1, <1>2, <1>3, <1>4, <1>5, <1>6, <1>7, <1>8, <1>9, <1>10, <1>11,
             <1>12, <1>13, QuietSteps
          DEF Next, Startup, ScheduleOnce, EarlyStartup

\* The three parts together are inductive.
LEMMA PlaceNext == PlaceInv /\ [Next]_vars => PlaceInv'
  <1> SUFFICES ASSUME PlaceInv, [Next]_vars PROVE PlaceInv'
    OBVIOUS
  <1>1. TypeOK BY DEF PlaceInv
  <1> QED BY <1>1, TypeNext, ReadyNext, NoPackingNext, ReservedNext DEF PlaceInv

\* They hold in every state.
LEMMA PlaceHolds == Spec => []PlaceInv
  BY PlaceInit, PlaceNext, PTL DEF Spec

\* Whatever RPCs fail or time out and whenever activity changes, no core but
\* core 1 lists two SGroups, and the one it lists has its id.
THEOREM NothingPacked == Spec => []NoPacking
  <1>1. PlaceInv => NoPacking BY DEF PlaceInv
  <1> QED BY <1>1, PlaceHolds, PTL

-----------------------------------------------------------------------------
(* What runs, as long as no call failed. *)

\* A failure is never forgotten.
LEMMA FaultsGrow ==
  ASSUME TypeOK, [Next]_vars, faults' = 0 PROVE faults = 0
  <1>1. faults' = faults \/ faults' = faults + 1
    BY DEF Next, vars, schedVars, Startup, ScheduleOnce, Deploy, Join, Release,
       SetupChain, FirstAttach, AddRead, AddStore, SetReady, FindInactive,
       SetActive, UpdateTrafficInfo, BeginPass, EndPass, Leave, Park, Run,
       RemoveSGroup, RemoveStore, AttachChain, AddSGroup, AddStoreOnIdle,
       DetachChain, DetachThen, Rpc
  <1> QED BY <1>1 DEF TypeOK

\* A call for a chain CooperativeSched knows, when no call fails.
LEMMA RpcWorks ==
  ASSUME TypeOK, NEW g \in SGroups, known[g], NEW c, NEW may \in BOOLEAN,
         NEW o \in Outcomes(g, may), Rpc(g, c, o), faults' = 0
  PROVE  o = "ok" /\ running' = [running EXCEPT ![g] = c] /\ known' = known
  <1>1. o = "ok" \/ o \in FaultKinds BY DEF Outcomes
  <1>2. o \notin FaultKinds BY DEF Rpc, TypeOK
  <1> QED BY <1>1, <1>2 DEF Rpc

\* CooperativeSched starts with no chain.
LEMMA RunInit == Init => RunInv
  <1> SUFFICES ASSUME Init PROVE RunInv
    OBVIOUS
  <1>1. StartInv BY DEF Init, StartInv, Known, Starting
  <1>2. AgreeInv BY DEF Init, AgreeInv
  <1>3. ListedInv BY ConstAssumption DEF Init, ListedInv
  <1> QED BY <1>1, <1>2, <1>3 DEF RunInv

\* When the pass is not moving a SGroup, each one that runs on a core other
\* than core 1 is in its list, and each ready one runs where it should.
LEMMA Settled ==
  ASSUME AgreeInv, ListedInv, pc \in {"sleep", "visit", "remove"}
  PROVE  /\ \A g \in SGroups : running[g] \in Cores \ {IdleCore} =>
                g \in cores[running[g]]
         /\ \A g \in SGroups : isReady[g] =>
                running[g] = IF isSched[g] THEN coreID[g] ELSE None
  BY DEF AgreeInv, ListedInv, Moving

\* Steps of a start-up.
LEMMA RunStartup ==
  ASSUME PlaceInv, StartInv, AgreeInv, ListedInv, faults' = 0,
         NEW g \in SGroups, EarlyStartup(g)
  PROVE  StartInv' /\ AgreeInv' /\ ListedInv'
  <1>0. TypeOK /\ ReadyInv BY DEF PlaceInv
  <1>1. /\ UNCHANGED <<sgroups, coreID, isReady, isSched, pc, pos, target>>
        /\ stage[g] # "done"
        /\ \A h \in SGroups \ {g} : stage'[h] = stage[h]
        /\ \A c \in Cores \ {IdleCore} : cores'[c] = cores[c]
    BY <1>0, EarlySteps DEF passVars
  <1>2. Cur' = Cur BY <1>1, CurSame
  <1>3. ~isReady[g] /\ (InVisit => g # Cur) BY <1>0, <1>1 DEF ReadyInv
  <1>4. /\ stage'[g] \in Known => known'[g]
        /\ stage'[g] \in Starting => running'[g] = IdleCore
        /\ running'[g] \in {running[g], IdleCore}
        /\ \A h \in SGroups \ {g} : known'[h] = known[h] /\ running'[h] = running[h]
    <2>1. CASE Join(g) \/ Release(g)
      BY <1>0, <2>1 DEF Join, Release, schedVars, TypeOK, Known, Starting
    <2>2. CASE SetupChain(g)
      <3>1. PICK o : /\ known' = [known EXCEPT ![g] = o # "lost"]
                     /\ faults' = IF o = "ok" THEN faults ELSE faults + 1
        BY <2>2 DEF SetupChain
      <3>2. o = "ok" BY <1>0, <3>1 DEF TypeOK
      <3> QED BY <1>0, <2>2, <3>1, <3>2 DEF SetupChain, TypeOK, Known, Starting
    <2>3. CASE FirstAttach(g)
      <3>1. known[g] BY <2>3 DEF FirstAttach, StartInv, Known
      <3>2. PICK o \in Outcomes(g, StartupMayFail) : Rpc(g, IdleCore, o)
        BY <2>3 DEF FirstAttach
      <3>3. running' = [running EXCEPT ![g] = IdleCore] /\ known' = known
        BY <1>0, <3>1, <3>2, RpcWorks, ConstAssumption
      <3> QED BY <1>0, <3>1, <3>3 DEF TypeOK
    <2>4. CASE AddRead(g) \/ AddStore(g)
      <3>1. /\ stage[g] \in {"add", "store"} /\ running' = running /\ known' = known
        BY <2>4 DEF AddRead, AddStore, schedVars
      <3> QED BY <3>1 DEF StartInv, Known, Starting
    <2> QED BY <2>1, <2>2, <2>3, <2>4 DEF EarlyStartup
  <1>5. StartInv'
    <2>1. pc \in {"add", "addStore"} => Cur \in SGroups /\ Cur # g
      BY <1>0, <1>3, CurType DEF InVisit
    <2> QED BY <1>1, <1>2, <1>4, <2>1 DEF StartInv
  <1>6. AgreeInv'
    <2> SUFFICES ASSUME NEW h \in SGroups, isReady'[h], ~Moving(h)'
                 PROVE  running'[h] = IF isSched'[h] THEN coreID'[h] ELSE None
      BY DEF AgreeInv
    <2>1. h # g /\ isReady[h] /\ ~Moving(h) BY <1>1, <1>2, <1>3 DEF Moving
    <2> QED BY <1>1, <1>4, <2>1 DEF AgreeInv
  <1>7. ListedInv'
    <2> SUFFICES ASSUME NEW h \in SGroups, running'[h] \in Cores \ {IdleCore}
                 PROVE  \/ h \in cores'[running'[h]]
                        \/ /\ h = Cur /\ pc \in {"attach", "add"}
                           /\ cores'[running'[h]] = {}
      BY <1>1, <1>2 DEF ListedInv
    <2>1. running'[h] = running[h] BY <1>4
    <2> QED BY <1>1, <2>1 DEF ListedInv
  <1> QED BY <1>5, <1>6, <1>7

\* Steps that leave what runs, and where the controller thinks it runs, as
\* it is, while the pass moves no SGroup, before or after, or the same one.
LEMMA RunKept ==
  ASSUME StartInv, AgreeInv, ListedInv,
         UNCHANGED <<cores, coreID, isReady, isSched, schedVars>>,
         \A g \in SGroups : stage'[g] \in Known \cup Starting => stage'[g] = stage[g],
         \/ pc \in {"sleep", "visit"} /\ pc' \in {"sleep", "visit", "remove", "detach"}
         \/ UNCHANGED <<sgroups, passVars>>
  PROVE  StartInv' /\ AgreeInv' /\ ListedInv'
  <1>1. CASE UNCHANGED <<sgroups, passVars>>
    <2>1. Cur' = Cur /\ UNCHANGED <<pc, target>> BY <1>1, CurSame DEF passVars
    <2>2. StartInv' BY <2>1 DEF StartInv, schedVars
    <2>3. AgreeInv' BY <2>1 DEF AgreeInv, Moving, schedVars
    <2>4. ListedInv' BY <2>1 DEF ListedInv, schedVars
    <2> QED BY <2>2, <2>3, <2>4
  <1>2. CASE pc \in {"sleep", "visit"} /\ pc' \in {"sleep", "visit", "remove", "detach"}
    <2>1. StartInv' BY <1>2 DEF StartInv, schedVars
    <2>2. AgreeInv' BY <1>2, Settled DEF AgreeInv, schedVars
    <2>3. ListedInv' BY <1>2, Settled DEF ListedInv, schedVars
    <2> QED BY <2>1, <2>2, <2>3
  <1> QED BY <1>1, <1>2

\* Steps of the pass that move a SGroup, and the last of a start-up.
LEMMA RunSetReady ==
  ASSUME PlaceInv, StartInv, AgreeInv, ListedInv, NEW g \in SGroups, SetReady(g)
  PROVE  StartInv' /\ AgreeInv' /\ ListedInv'
  <1>0. TypeOK /\ ReadyInv BY DEF PlaceInv
  <1>1. /\ UNCHANGED <<sgroups, cores, pc, pos, target, known, running>>
        /\ stage[g] = "ready" /\ stage' = [stage EXCEPT ![g] = "done"]
        /\ coreID' = [coreID EXCEPT ![g] = IdleCore]
        /\ isReady' = [isReady EXCEPT ![g] = TRUE]
        /\ isSched' = [isSched EXCEPT ![g] = TRUE]
    BY <1>0 DEF SetReady, passVars, schedVars
  <1>2. Cur' = Cur BY <1>1, CurSame
  <1>3. known[g] /\ running[g] = IdleCore
    BY <1>1 DEF StartInv, Known, Starting
  <1>4. StartInv'
    BY <1>0, <1>1, <1>2, <1>3 DEF StartInv, Known, Starting, TypeOK
  <1>5. AgreeInv'
    <2> SUFFICES ASSUME NEW h \in SGroups, isReady'[h], ~Moving(h)'
                 PROVE  running[h] = IF isSched'[h] THEN coreID'[h] ELSE None
      BY <1>1 DEF AgreeInv
    <2>1. CASE h = g BY <1>0, <1>1, <1>3, <2>1 DEF TypeOK
    <2>2. CASE h # g
      <3>1. isReady[h] /\ isSched'[h] = isSched[h] /\ coreID'[h] = coreID[h]
        BY <1>0, <1>1, <2>2 DEF TypeOK
      <3>2. ~Moving(h) BY <1>1, <1>2 DEF Moving
      <3> QED BY <3>1, <3>2 DEF AgreeInv
    <2> QED BY <2>1, <2>2
  <1>6. ListedInv' BY <1>1, <1>2 DEF ListedInv
  <1> QED BY <1>4, <1>5, <1>6

\* Taking the SGroup from its old core's list.
LEMMA RunRemove ==
  ASSUME PlaceInv, StartInv, AgreeInv, ListedInv, RemoveSGroup \/ RemoveStore
  PROVE  StartInv' /\ AgreeInv' /\ ListedInv'
  <1>0. TypeOK /\ ReadyInv /\ NoPacking BY DEF PlaceInv
  <1>1. /\ UNCHANGED <<sgroups, coreID, isReady, isSched, stage, pos, target, known, running>>
        /\ pc \in {"remove", "removeStore"} /\ pc' \in {"removeStore", "attach"}
    BY DEF RemoveSGroup, RemoveStore, Pass, sgVars, schedVars
  <1>2. Cur' = Cur BY <1>1, CurSame
  <1>3. StartInv' BY <1>1 DEF StartInv
  <1>4. AgreeInv' BY <1>1, <1>2 DEF AgreeInv, Moving
  <1>5. ListedInv'
    <2> SUFFICES ASSUME NEW g \in SGroups, running[g] \in Cores \ {IdleCore}
                 PROVE  \/ g \in cores'[running[g]]
                        \/ /\ g = Cur /\ pc' = "attach"
                           /\ cores'[running[g]] = {}
      BY <1>1, <1>2 DEF ListedInv
    <2>1. g \in cores[running[g]] BY <1>1 DEF ListedInv
    <2>2. CASE \A c \in Cores \ {IdleCore} : cores'[c] = cores[c]
      BY <2>1, <2>2
    <2>3. CASE /\ cores' = [cores EXCEPT ![coreID[Cur]] = cores[coreID[Cur]] \ {Cur}]
               /\ pc' = "attach"
      <3>1. CASE g # Cur BY <1>0, <2>1, <2>3, <3>1 DEF TypeOK
      <3>2. CASE g = Cur
        <4>1. cores[running[g]] = {g} /\ coreID[g] = running[g]
          BY <1>0, <2>1 DEF NoPacking
        <4> QED BY <1>0, <2>3, <3>2, <4>1 DEF TypeOK
      <3> QED BY <3>1, <3>2
    <2> QED BY <1>0, <2>2, <2>3 DEF RemoveSGroup, RemoveStore, Pass, TypeOK
  <1> QED BY <1>3, <1>4, <1>5

\* A SGroup in a visit is ready, and so CooperativeSched knows its chain.
LEMMA CurKnown ==
  ASSUME PlaceInv, StartInv, InVisit
  PROVE  Cur \in SGroups /\ isReady[Cur] /\ known[Cur] /\ stage[Cur] = "done"
  <1>1. Cur \in SGroups /\ isReady[Cur] BY CurType DEF PlaceInv, ReadyInv
  <1> QED BY <1>1 DEF PlaceInv, ReadyInv, StartInv, Known

\* An AttachChain that succeeds.
LEMMA RunAttach ==
  ASSUME PlaceInv, StartInv, AgreeInv, ListedInv, AttachChain, faults' = 0
  PROVE  StartInv' /\ AgreeInv' /\ ListedInv'
  <1>0. TypeOK /\ ReservedInv BY DEF PlaceInv
  <1>1. Cur \in SGroups /\ known[Cur] /\ stage[Cur] = "done"
    BY CurKnown DEF AttachChain, InVisit
  <1>2. PICK o \in Outcomes(Cur, TRUE) :
            Rpc(Cur, target, o) /\ IF o = "ok" THEN Pass("add") ELSE NextSGroup
    BY DEF AttachChain
  <1>3. /\ o = "ok" /\ running' = [running EXCEPT ![Cur] = target]
        /\ known' = known
    BY <1>0, <1>1, <1>2, RpcWorks
  <1>4. /\ UNCHANGED <<sgroups, cores, coreID, isReady, isSched, stage, pos, target>>
        /\ pc = "attach" /\ pc' = "add"
    BY <1>2, <1>3 DEF AttachChain, Pass, sgVars
  <1>5. Cur' = Cur BY <1>4, CurSame
  <1>6. StartInv'
    BY <1>0, <1>1, <1>3, <1>4, <1>5 DEF StartInv, Known, Starting, TypeOK
  <1>7. AgreeInv'
    BY <1>0, <1>1, <1>3, <1>4, <1>5 DEF AgreeInv, Moving, TypeOK
  <1>8. ListedInv'
    <2> SUFFICES ASSUME NEW g \in SGroups, running'[g] \in Cores \ {IdleCore}
                 PROVE  \/ g \in cores[running'[g]]
                        \/ g = Cur /\ cores[running'[g]] = {}
      BY <1>4, <1>5 DEF ListedInv
    <2>1. CASE g = Cur
      <3>1. running'[g] = target BY <1>0, <1>3, <2>1 DEF TypeOK
      <3> QED BY <1>0, <1>4, <2>1, <3>1 DEF ReservedInv
    <2>2. CASE g # Cur
      <3>1. running'[g] = running[g] BY <1>0, <1>3, <2>2 DEF TypeOK
      <3> QED BY <2>2, <3>1 DEF ListedInv
    <2> QED BY <2>1, <2>2
  <1> QED BY <1>6, <1>7, <1>8

\* The SGroup's new core is written down, once the lists are right.
LEMMA RunAttached ==
  ASSUME PlaceInv, StartInv, AgreeInv, pc \in {"add", "addStore"}, Attached,
         UNCHANGED <<sgroups, isReady, stage, target, schedVars>>
  PROVE  StartInv' /\ AgreeInv'
  <1>0. TypeOK BY DEF PlaceInv
  <1>1. Cur \in SGroups BY CurKnown DEF InVisit
  <1>2. /\ coreID' = [coreID EXCEPT ![Cur] = target]
        /\ isSched' = [isSched EXCEPT ![Cur] = TRUE]
        /\ pc' \in {"visit", "detach"}
        /\ pc' = "detach" => pos' = pos
        /\ running[Cur] = target
    BY DEF Attached, Pass, NextSGroup, StartInv
  <1>3. StartInv' BY <1>2 DEF StartInv, schedVars
  <1>4. AgreeInv'
    <2> SUFFICES ASSUME NEW h \in SGroups, isReady[h]
                 PROVE  running[h] = IF isSched'[h] THEN coreID'[h] ELSE None
      BY DEF AgreeInv, schedVars
    <2>1. CASE h = Cur BY <1>0, <1>2, <2>1 DEF TypeOK
    <2>2. CASE h # Cur
      <3>1. isSched'[h] = isSched[h] /\ coreID'[h] = coreID[h]
        BY <1>0, <1>2, <2>2 DEF TypeOK
      <3> QED BY <2>2, <3>1 DEF AgreeInv, Moving
    <2> QED BY <2>1, <2>2
  <1> QED BY <1>3, <1>4

\* Adding the SGroup to its new core's list.
LEMMA RunAdd ==
  ASSUME PlaceInv, StartInv, AgreeInv, ListedInv, AddSGroup \/ AddStoreOnIdle
  PROVE  StartInv' /\ AgreeInv' /\ ListedInv'
  <1>0. TypeOK BY DEF PlaceInv
  <1>1. /\ UNCHANGED <<sgroups, isReady, stage, target, schedVars>>
        /\ pc \in {"add", "addStore"}
    BY DEF AddSGroup, AddStoreOnIdle
  <1>2. CASE AddSGroup /\ target = IdleCore
    <2>1. /\ UNCHANGED <<cores, coreID, isSched, pos>> /\ pc = "add" /\ pc' = "addStore"
      BY <1>2 DEF AddSGroup, Pass
    <2>2. Cur' = Cur BY <1>1, <2>1, CurSame
    <2>3. StartInv' BY <1>1, <2>1, <2>2 DEF StartInv, schedVars
    <2>4. AgreeInv' BY <1>1, <2>1, <2>2 DEF AgreeInv, Moving, schedVars
    <2>5. ListedInv'
      <3>1. running[Cur] = IdleCore BY <1>2, <2>1 DEF StartInv
      <3> QED BY <1>1, <2>1, <3>1 DEF ListedInv, schedVars
    <2> QED BY <2>3, <2>4, <2>5
  <1>3. CASE AddStoreOnIdle \/ target # IdleCore
    <2>1. Attached BY <1>3 DEF AddSGroup, AddStoreOnIdle
    <2>2. StartInv' /\ AgreeInv' BY <1>1, <2>1, RunAttached
    <2>3. Cur \in SGroups /\ running[Cur] = target
      BY <1>1, CurKnown DEF InVisit, StartInv
    <2>4. AddStoreOnIdle => pc = "addStore" BY DEF AddStoreOnIdle
    <2>5. ListedInv'
      <3> SUFFICES ASSUME NEW g \in SGroups, running[g] \in Cores \ {IdleCore}
                   PROVE  g \in cores'[running[g]]
        BY <1>1 DEF ListedInv, schedVars
      <3>1. CASE AddStoreOnIdle
        <4>1. g \in cores[running[g]] BY <3>1, <2>4 DEF ListedInv
        <4>2. \A c \in Cores \ {IdleCore} : cores'[c] = cores[c]
          BY <1>0, <3>1 DEF AddStoreOnIdle, TypeOK
        <4> QED BY <4>1, <4>2
      <3>2. CASE AddSGroup /\ target # IdleCore
        <4>1. cores' = [cores EXCEPT ![target] = cores[target] \cup {Cur}]
          BY <3>2 DEF AddSGroup
        <4>2. g = Cur \/ g \in cores[running[g]] BY DEF ListedInv
        <4> QED BY <1>0, <2>3, <4>1, <4>2 DEF TypeOK
      <3> QED BY <1>3, <3>1, <3>2
    <2> QED BY <2>2, <2>5
  <1> QED BY <1>2, <1>3

\* A DetachChain that succeeds.
LEMMA RunDetach ==
  ASSUME PlaceInv, StartInv, AgreeInv, ListedInv, DetachChain, faults' = 0
  PROVE  StartInv' /\ AgreeInv' /\ ListedInv'
  <1>0. TypeOK BY DEF PlaceInv
  <1>1. Cur \in SGroups /\ known[Cur] /\ stage[Cur] = "done"
    BY CurKnown DEF DetachChain, DetachThen, InVisit
  <1>2. PICK o \in Outcomes(Cur, TRUE) :
            /\ Rpc(Cur, None, o)
            /\ isSched' = IF o = "ok" THEN [isSched EXCEPT ![Cur] = FALSE] ELSE isSched
    BY DEF DetachChain, DetachThen
  <1>3. /\ running' = [running EXCEPT ![Cur] = None] /\ known' = known
        /\ isSched' = [isSched EXCEPT ![Cur] = FALSE]
    BY <1>0, <1>1, <1>2, RpcWorks
  <1>4. /\ UNCHANGED <<cores, coreID, isReady, stage>>
        /\ pc = "detach" /\ pc' = "visit"
    BY DEF DetachChain, DetachThen, NextSGroup
  <1>5. StartInv'
    BY <1>0, <1>1, <1>3, <1>4 DEF StartInv, Known, Starting, TypeOK
  <1>6. AgreeInv'
    <2> SUFFICES ASSUME NEW h \in SGroups, isReady[h]
                 PROVE  running'[h] = IF isSched'[h] THEN coreID[h] ELSE None
      BY <1>4 DEF AgreeInv
    <2> QED BY <1>0, <1>3 DEF AgreeInv, Moving, TypeOK
  <1>7. ListedInv'
    <2> SUFFICES ASSUME NEW h \in SGroups, running'[h] \in Cores \ {IdleCore}
                 PROVE  h \in cores[running'[h]]
      BY <1>4 DEF ListedInv
    <2>1. running'[h] = running[h]
      BY <1>0, <1>3, ConstAssumption DEF TypeOK
    <2> QED BY <1>4, <2>1 DEF ListedInv
  <1> QED BY <1>5, <1>6, <1>7

\* Until a call fails the two views stay together.
LEMMA RunNext == PlaceInv /\ RunInv /\ [Next]_vars => RunInv'
  <1> SUFFICES ASSUME PlaceInv, RunInv, [Next]_vars, faults' = 0
               PROVE  StartInv' /\ AgreeInv' /\ ListedInv'
    BY DEF RunInv
  <1>0. TypeOK /\ faults = 0 BY FaultsGrow DEF PlaceInv
  <1>1. StartInv /\ AgreeInv /\ ListedInv BY <1>0 DEF RunInv
  <1> DEFINE Goal == StartInv' /\ AgreeInv' /\ ListedInv'
  <1>2. ASSUME NEW g \in SGroups, EarlyStartup(g) PROVE Goal
    BY <1>1, <1>2, RunStartup
  <1>3. ASSUME NEW g \in SGroups, SetReady(g) PROVE Goal
    BY <1>1, <1>3, RunSetReady
  <1>4. ASSUME NEW g \in SGroups, Deploy(g) PROVE Goal
    <2>1. /\ stage' = [stage EXCEPT ![g] = "deployed"]
          /\ pc = "sleep" /\ pc' = "sleep"
          /\ UNCHANGED <<cores, coreID, isReady, isSched, schedVars>>
      BY <1>4 DEF Deploy, sgVars, passVars
    <2>2. \A h \in SGroups : stage'[h] \in Known \cup Starting => stage'[h] = stage[h]
      BY <1>0, <2>1 DEF TypeOK, Known, Starting
    <2> QED BY <1>1, <2>1, <2>2, RunKept
  <1>5. ASSUME UNCHANGED placeVars PROVE Goal
    BY <1>1, <1>5, RunKept DEF placeVars
  <1>6. ASSUME BeginPass \/ EndPass \/ \E g \in SGroups : Leave(g) \/ Park(g) \/ Run(g)
        PROVE  Goal
    <2>1. /\ pc \in {"sleep", "visit"} /\ pc' \in {"sleep", "visit", "remove", "detach"}
          /\ UNCHANGED <<cores, coreID, isReady, isSched, stage, schedVars>>
      BY <1>6 DEF BeginPass, EndPass, Leave, Park, Run, Visiting, Pass, NextSGroup, sgVars
    <2> QED BY <1>1, <2>1, RunKept
  <1>7. ASSUME RemoveSGroup \/ RemoveStore PROVE Goal BY <1>1, <1>7, RunRemove
  <1>8. ASSUME AttachChain PROVE Goal BY <1>1, <1>8, RunAttach
  <1>9. ASSUME AddSGroup \/ AddStoreOnIdle PROVE Goal BY <1>1, <1>9, RunAdd
  <1>10. ASSUME DetachChain PROVE Goal BY <1>1, <1>10, RunDetach
  <1> QED BY <1>2, <1>3, <1>4, <1>5, <1>6, <1>7, <1>8, <1>9, <1>10, QuietSteps
          DEF Next, Startup, ScheduleOnce, EarlyStartup

\* They do so in every state.
LEMMA RunHolds == Spec => [](PlaceInv /\ RunInv)
  <1>1. Init => PlaceInv /\ RunInv BY PlaceInit, RunInit
  <1>2. PlaceInv /\ RunInv /\ [Next]_vars => (PlaceInv /\ RunInv)'
    BY PlaceNext, RunNext
  <1> QED BY <1>1, <1>2, PTL DEF Spec

\* Until a call to CooperativeSched fails, the controller and
\* CooperativeSched agree on where each ready SGroup runs.
THEOREM SameView == Spec => []ViewsAgree
  <1>1. RunInv => ViewsAgree BY DEF RunInv, AgreeInv, ViewsAgree
  <1> QED BY <1>1, RunHolds, PTL

\* Until then no two chains run on one core, core 1 excepted.
THEOREM Exclusive == Spec => []ExclusiveUnlessFailed
  <1>1. ASSUME PlaceInv, RunInv, faults = 0,
               NEW g \in SGroups, NEW h \in SGroups, g # h, running[g] = running[h]
        PROVE  running[g] \in {None, IdleCore}
    <2>1. running[g] \in Cores \cup {None} BY <1>1 DEF PlaceInv, TypeOK
    <2> SUFFICES ASSUME running[g] \in Cores \ {IdleCore} PROVE FALSE
      BY <2>1
    <2>2. ListedInv /\ NoPacking BY <1>1 DEF RunInv, PlaceInv
    <2>3. CASE g \in cores[running[g]] /\ h \in cores[running[g]]
      BY <1>1, <2>2, <2>3 DEF NoPacking
    <2>4. CASE cores[running[g]] = {}
      BY <1>1, <2>2, <2>4 DEF ListedInv
    <2> QED BY <1>1, <2>2, <2>3, <2>4 DEF ListedInv
  <1>2. PlaceInv /\ RunInv => ExclusiveUnlessFailed
    BY <1>1 DEF ExclusiveUnlessFailed, ExclusiveCore
  <1> QED BY <1>2, RunHolds, PTL
=============================================================================
