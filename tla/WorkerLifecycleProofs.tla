------------------------- MODULE WorkerLifecycleProofs -------------------------
(***************************************************************************)
(* A worker's life, for any number of SGroups, PCIe devices and failing    *)
(* Kubernetes calls: no SGroup is ever in two hands (OnePlace), the heap   *)
(* of PCIe indices is used as an abstract pool (PCIePool), no two pods     *)
(* that run share a device (DeviceHasOneManager), Close leaves only what   *)
(* it could not find (CleanClose), and every variable keeps to its type.   *)
(*                                                                         *)
(* The invariant comes in parts, each with the step that keeps it: who may *)
(* be at work on a SGroup (IInv), how many are made (LoopInv), which pods  *)
(* there must be (PodsInv), who has an index (PoolInv, IndexInv), and, as  *)
(* long as no call failed, where everything that must be deleted is        *)
(* (CleanInv, DeviceInv).                                                  *)
(***************************************************************************)
EXTENDS WorkerLifecycle, IndexPoolProofs

ListsInv ==
    /\ freeSGroups \in Seq(SGroups) /\ sgroups \in Seq(SGroups)
    /\ IsInjective(freeSGroups) /\ IsInjective(sgroups)
    /\ Range(freeSGroups) \cap Range(sgroups) = {}

Listed(g) == g \in Range(freeSGroups) \cup Range(sgroups)

\* In a list there are only SGroups that are made, that nobody destroys, and
\* whose builder, if any, has already listed them.
ListedInv ==
    \A g \in SGroups : Listed(g) =>
        creator[g] = "done" /\ builder[g] \in {"none", "finish"} /\ destroyer[g] = "none"

\* Who builds or destroys a SGroup found it made; who builds it before it is
\* listed does so alone.
HandsInv ==
    \A g \in SGroups :
        /\ builder[g] # "none" \/ destroyer[g] # "none" => creator[g] = "done"
        /\ builder[g] \in {"create", "list", "undo"} => destroyer[g] = "none"

GoTypes == {creator, builder, destroyer} \subseteq [SGroups -> Procs]

IInv == ListsInv /\ ListedInv /\ HandsInv /\ GoTypes

-----------------------------------------------------------------------------
(* Every step. *)

\* A new worker has empty lists and no goroutine.
LEMMA InitInv == Init => IInv
  <1> SUFFICES ASSUME Init PROVE IInv OBVIOUS
  <1>1. freeSGroups = <<>> /\ sgroups = <<>> BY DEF Init
  <1>2. ListsInv BY <1>1 DEF ListsInv, IsInjective, Range
  <1>3. ListedInv BY <1>1 DEF ListedInv, Listed, Range
  <1>4. HandsInv /\ GoTypes BY DEF Init, HandsInv, GoTypes, Procs
  <1> QED BY <1>2, <1>3, <1>4 DEF IInv

\* Steps of goroutines that touch no list.
LEMMA HandsStep ==
  ASSUME IInv, UNCHANGED listVars, GoTypes',
         \A g \in SGroups : Listed(g) => UNCHANGED <<creator[g], destroyer[g]>>
                                         /\ builder'[g] \in {"none", "finish"},
         HandsInv'
  PROVE  IInv'
  <1>1. ListsInv' BY DEF IInv, ListsInv, listVars
  <1>2. \A g \in SGroups : Listed(g)' <=> Listed(g) BY DEF Listed, listVars
  <1>3. ListedInv' BY <1>2 DEF IInv, ListedInv
  <1> QED BY <1>1, <1>3 DEF IInv

\* Every goroutine hands a SGroup on in one step.
LEMMA StepInv == IInv /\ [Next]_vars => IInv'
  <1> SUFFICES ASSUME IInv, [Next]_vars PROVE IInv' OBVIOUS
  <1>0. ListsInv /\ ListedInv /\ HandsInv /\ GoTypes BY DEF IInv
  \* Everything that leaves the lists and the goroutines alone.
  <1>1. ASSUME UNCHANGED <<listVars, goVars>> PROVE IInv'
    BY <1>0, <1>1 DEF IInv, ListsInv, ListedInv, HandsInv, GoTypes, Listed, listVars, goVars
  <1>2. CASE Factory
    <2>1. UNCHANGED <<listVars, builder, destroyer>> BY <1>2 DEF Factory
    <2>2. CASE Head(op) = "free"
      <3>1. PICK x \in Unmade : creator' = [creator EXCEPT ![x] = "start"]
        BY <1>2, <2>2 DEF Factory, Go
      <3>2. x \in SGroups /\ creator[x] = "none" BY DEF Unmade
      <3>3. builder[x] = "none" /\ destroyer[x] = "none" /\ ~Listed(x)
        BY <1>0, <3>2 DEF HandsInv, ListedInv
      <3>4. GoTypes'
        <4>1. creator' \in [SGroups -> Procs] BY <1>0, <3>1 DEF GoTypes, Procs
        <4> QED BY <1>0, <2>1, <4>1 DEF GoTypes
      <3>5. HandsInv' BY <1>0, <2>1, <3>1, <3>2, <3>3 DEF HandsInv, GoTypes
      <3> QED BY <1>0, <2>1, <3>1, <3>2, <3>3, <3>4, <3>5, HandsStep
                 DEF GoTypes, ListedInv, listVars
    <2>3. CASE Head(op) # "free"
      <3>1. UNCHANGED <<listVars, goVars>> BY <1>2, <2>1, <2>3 DEF Factory, goVars
      <3> QED BY <1>1, <3>1
    <2> QED BY <2>2, <2>3
  \* A creator that is not done works on a SGroup nobody else has.
  <1>3. ASSUME NEW g \in SGroups, StartFreeSGroup(g) \/ NewSGroup(g) PROVE IInv'
    <2>1. PICK label \in {"create", "append", "done"} :
             creator' = [creator EXCEPT ![g] = label]
      BY <1>3 DEF StartFreeSGroup, NewSGroup, Go
    <2>2. UNCHANGED <<listVars, builder, destroyer>> /\ creator[g] # "done"
      BY <1>3 DEF StartFreeSGroup, NewSGroup, Step
    <2>3. builder[g] = "none" /\ destroyer[g] = "none" /\ ~Listed(g)
      BY <1>0, <2>2 DEF HandsInv, ListedInv
    <2>4. GoTypes' BY <1>0, <2>1, <2>2 DEF GoTypes, Procs
    <2>5. HandsInv' BY <1>0, <2>1, <2>2, <2>3 DEF HandsInv, GoTypes
    <2> QED BY <1>0, <2>1, <2>2, <2>3, <2>4, <2>5, HandsStep
               DEF GoTypes, ListedInv, listVars
  <1>4. ASSUME NEW g \in SGroups, AppendFreeSGroup(g) PROVE IInv'
    <2>1. /\ freeSGroups' = Append(freeSGroups, g) /\ creator[g] = "append"
          /\ creator' = [creator EXCEPT ![g] = "done"]
          /\ UNCHANGED <<sgroups, builder, destroyer>>
      BY <1>4 DEF AppendFreeSGroup, Step, Go
    <2>2. builder[g] = "none" /\ destroyer[g] = "none" /\ ~Listed(g)
      BY <1>0, <2>1 DEF HandsInv, ListedInv
    <2>3. /\ freeSGroups' \in Seq(SGroups) /\ IsInjective(freeSGroups')
          /\ Range(freeSGroups') = Range(freeSGroups) \cup {g}
      BY <1>0, <2>1, <2>2, AppendFresh DEF ListsInv, Listed
    <2>4. ListsInv' BY <1>0, <2>1, <2>2, <2>3 DEF ListsInv, Listed
    <2>5. GoTypes' BY <1>0, <2>1 DEF GoTypes, Procs
    <2>6. ListedInv' BY <1>0, <2>1, <2>2, <2>3 DEF ListedInv, Listed, GoTypes
    <2>7. HandsInv' BY <1>0, <2>1, <2>2 DEF HandsInv, GoTypes
    <2> QED BY <2>4, <2>5, <2>6, <2>7 DEF IInv
  \* Taken from the end of the free list, the SGroup is in no list.
  <1>5. ASSUME NEW g \in SGroups, TakeFreeSGroup(g) PROVE IInv'
    <2>1. /\ freeSGroups # <<>> /\ g = Last(freeSGroups) /\ freeSGroups' = Front(freeSGroups)
          /\ builder' = [builder EXCEPT ![g] = "create"]
          /\ UNCHANGED <<sgroups, creator, destroyer>>
      BY <1>5 DEF TakeFreeSGroup, Step, Go
    <2>2. /\ g \in Range(freeSGroups)
          /\ freeSGroups' \in Seq(SGroups) /\ IsInjective(freeSGroups')
          /\ Range(freeSGroups') = Range(freeSGroups) \ {g}
      BY <1>0, <2>1, FrontAndLast DEF ListsInv
    <2>3. creator[g] = "done" /\ destroyer[g] = "none"
      BY <1>0, <2>2 DEF ListedInv, Listed
    <2>4. ListsInv' BY <1>0, <2>1, <2>2 DEF ListsInv
    <2>5. GoTypes' BY <1>0, <2>1 DEF GoTypes, Procs
    <2>6. g \notin Range(sgroups) BY <1>0, <2>2 DEF ListsInv
    <2>7. ListedInv' BY <1>0, <2>1, <2>2, <2>6 DEF ListedInv, Listed, GoTypes
    <2>8. HandsInv' BY <1>0, <2>1, <2>3 DEF HandsInv, GoTypes
    <2> QED BY <2>4, <2>5, <2>7, <2>8 DEF IInv
  <1>6. ASSUME NEW g \in SGroups, CreateNF(g) PROVE IInv'
    <2>1. PICK label \in {"list", "undo"} : builder' = [builder EXCEPT ![g] = label]
      BY <1>6 DEF CreateNF, Go
    <2>2. UNCHANGED <<listVars, creator, destroyer>> /\ builder[g] = "create"
      BY <1>6 DEF CreateNF, Step
    <2>3. ~Listed(g) /\ creator[g] = "done" /\ destroyer[g] = "none"
      BY <1>0, <2>2 DEF HandsInv, ListedInv
    <2>4. GoTypes' BY <1>0, <2>1, <2>2 DEF GoTypes, Procs
    <2>5. HandsInv' BY <1>0, <2>1, <2>2, <2>3 DEF HandsInv, GoTypes
    <2> QED BY <1>0, <2>1, <2>2, <2>3, <2>4, <2>5, HandsStep
               DEF GoTypes, ListedInv, listVars
  <1>7. ASSUME NEW g \in SGroups, DestroySGroup(g) PROVE IInv'
    <2>1. /\ freeSGroups' = Append(freeSGroups, g) /\ builder[g] = "undo"
          /\ builder' = [builder EXCEPT ![g] = "none"]
          /\ UNCHANGED <<sgroups, creator, destroyer>>
      BY <1>7 DEF DestroySGroup, Step, Go
    <2>2. creator[g] = "done" /\ destroyer[g] = "none" /\ ~Listed(g)
      BY <1>0, <2>1 DEF HandsInv, ListedInv
    <2>3. /\ freeSGroups' \in Seq(SGroups) /\ IsInjective(freeSGroups')
          /\ Range(freeSGroups') = Range(freeSGroups) \cup {g}
      BY <1>0, <2>1, <2>2, AppendFresh DEF ListsInv, Listed
    <2>4. ListsInv' BY <1>0, <2>1, <2>2, <2>3 DEF ListsInv, Listed
    <2>5. GoTypes' BY <1>0, <2>1 DEF GoTypes, Procs
    <2>6. ListedInv' BY <1>0, <2>1, <2>2, <2>3 DEF ListedInv, Listed, GoTypes
    <2>7. HandsInv' BY <1>0, <2>1, <2>2 DEF HandsInv, GoTypes
    <2> QED BY <2>4, <2>5, <2>6, <2>7 DEF IInv
  <1>8. ASSUME NEW g \in SGroups, ListSGroup(g) PROVE IInv'
    <2>1. /\ sgroups' = Append(sgroups, g) /\ builder[g] = "list"
          /\ builder' = [builder EXCEPT ![g] = "finish"]
          /\ UNCHANGED <<freeSGroups, creator, destroyer>>
      BY <1>8 DEF ListSGroup, Step, Go
    <2>2. creator[g] = "done" /\ destroyer[g] = "none" /\ ~Listed(g)
      BY <1>0, <2>1 DEF HandsInv, ListedInv
    <2>3. /\ sgroups' \in Seq(SGroups) /\ IsInjective(sgroups')
          /\ Range(sgroups') = Range(sgroups) \cup {g}
      BY <1>0, <2>1, <2>2, AppendFresh DEF ListsInv, Listed
    <2>4. ListsInv' BY <1>0, <2>1, <2>2, <2>3 DEF ListsInv, Listed
    <2>5. GoTypes' BY <1>0, <2>1 DEF GoTypes, Procs
    <2>6. ListedInv' BY <1>0, <2>1, <2>2, <2>3 DEF ListedInv, Listed, GoTypes
    <2>7. HandsInv' BY <1>0, <2>1, <2>2 DEF HandsInv, GoTypes
    <2> QED BY <2>4, <2>5, <2>6, <2>7 DEF IInv
  \* The builder is at its last step: the SGroup may be anywhere.
  <1>9. ASSUME NEW g \in SGroups, Complete(g) PROVE IInv'
    <2>1. /\ builder' = [builder EXCEPT ![g] = "none"]
          /\ UNCHANGED <<listVars, creator, destroyer>>
      BY <1>9 DEF Complete, Go
    <2>2. GoTypes' BY <1>0, <2>1 DEF GoTypes, Procs
    <2>3. HandsInv' BY <1>0, <2>1 DEF HandsInv, GoTypes
    <2> QED BY <1>0, <2>1, <2>2, <2>3, HandsStep DEF GoTypes, ListedInv, listVars
  <1>10. CASE DestroyLast /\ UNCHANGED goVars
    <2> DEFINE g == Last(sgroups)
    <2>1. /\ sgroups # <<>> /\ sgroups' = Front(sgroups)
          /\ freeSGroups' = Append(freeSGroups, g)
      BY <1>10 DEF DestroyLast
    <2>2. /\ g \in SGroups /\ g \in Range(sgroups)
          /\ sgroups' \in Seq(SGroups) /\ IsInjective(sgroups')
          /\ Range(sgroups') = Range(sgroups) \ {g}
      BY <1>0, <2>1, FrontAndLast DEF ListsInv
    <2> HIDE DEF g
    <2>3. g \notin Range(freeSGroups) BY <1>0, <2>2 DEF ListsInv
    <2>4. /\ freeSGroups' \in Seq(SGroups) /\ IsInjective(freeSGroups')
          /\ Range(freeSGroups') = Range(freeSGroups) \cup {g}
      BY <1>0, <2>1, <2>2, <2>3, AppendFresh DEF ListsInv
    <2>5. ListsInv' BY <1>0, <2>2, <2>4 DEF ListsInv
    <2>6. ListedInv' BY <1>0, <1>10, <2>2, <2>4 DEF ListedInv, Listed, goVars
    <2>7. HandsInv' /\ GoTypes' BY <1>0, <1>10 DEF HandsInv, GoTypes, goVars
    <2> QED BY <2>5, <2>6, <2>7 DEF IInv
  <1>11. CASE DestroyAllFreeSGroups
    <2>1. CASE main = "free"
      <3>1. /\ freeSGroups' = <<>> /\ UNCHANGED <<sgroups, creator, builder>>
            /\ destroyer' = [g \in SGroups |-> IF g \in Range(freeSGroups) THEN "delete"
                                               ELSE destroyer[g]]
        BY <1>11, <2>1 DEF DestroyAllFreeSGroups
      <3>2. Range(freeSGroups') = {} /\ IsInjective(freeSGroups')
            /\ freeSGroups' \in Seq(SGroups)
        BY <3>1 DEF Range, IsInjective
      <3>3. ListsInv' BY <1>0, <3>1, <3>2 DEF ListsInv
      <3>4. ListedInv' BY <1>0, <3>1, <3>2 DEF ListsInv, ListedInv, Listed
      <3>5. GoTypes' BY <1>0, <3>1 DEF GoTypes, Procs
      <3>6. HandsInv' BY <1>0, <3>1 DEF HandsInv, ListedInv, Listed
      <3> QED BY <3>3, <3>4, <3>5, <3>6 DEF IInv
    <2>2. CASE main # "free"
      <3>1. UNCHANGED <<listVars, goVars>>
        BY <1>11, <2>2 DEF DestroyAllFreeSGroups, listVars, goVars
      <3> QED BY <1>1, <3>1
    <2> QED BY <2>1, <2>2
  \* A destroyer's SGroup is in no list.
  <1>12. ASSUME NEW g \in SGroups, DeleteManager(g) \/ EndDestroyer(g) PROVE IInv'
    <2>1. PICK label \in {"poll", "done"} : destroyer' = [destroyer EXCEPT ![g] = label]
      BY <1>12 DEF DeleteManager, EndDestroyer, FreeIndex, Go
    <2>2. UNCHANGED <<listVars, creator, builder>> /\ destroyer[g] # "none"
      BY <1>12 DEF DeleteManager, EndDestroyer, FreeIndex, Step
    <2>3. ~Listed(g) /\ creator[g] = "done" BY <1>0, <2>2 DEF ListedInv, HandsInv
    <2>4. builder[g] \notin {"create", "list", "undo"} BY <1>0, <2>2 DEF HandsInv
    <2>5. GoTypes' BY <1>0, <2>1, <2>2 DEF GoTypes, Procs
    <2>6. HandsInv' BY <1>0, <2>1, <2>2, <2>3, <2>4 DEF HandsInv, GoTypes
    <2> QED BY <1>0, <2>1, <2>2, <2>3, <2>5, <2>6, HandsStep
               DEF GoTypes, ListedInv, listVars
  <1>13. CASE CreateAllFreeSGroups \/ CreateSched \/ KillSched \/ LockToClean \/ Quit
    BY <1>1, <1>13 DEF CreateAllFreeSGroups, CreateSched, KillSched, LockToClean, Quit
  <1>14. CASE DestroyAllSGroups
    <2>1. UNCHANGED goVars BY <1>14 DEF DestroyAllSGroups
    <2>2. DestroyLast \/ UNCHANGED listVars BY <1>14 DEF DestroyAllSGroups
    <2> QED BY <1>1, <1>10, <2>1, <2>2
  <1>15. CASE SchedulerStep BY <1>1, <1>15 DEF SchedulerStep
  <1>16. ASSUME NEW g \in SGroups, InstanceSetUp(g) \/ LeaveBarrier(g) PROVE IInv'
    BY <1>1, <1>16 DEF InstanceSetUp, LeaveBarrier
  <1>17. ASSUME NEW p \in dying, PodEnds(p) PROVE IInv' BY <1>1, <1>17 DEF PodEnds
  <1>18. CASE UNCHANGED vars BY <1>1, <1>18 DEF vars
  <1> QED
    BY <1>2, <1>3, <1>4, <1>5, <1>6, <1>7, <1>8, <1>9, <1>11, <1>12, <1>13, <1>14, <1>15,
       <1>16, <1>17, <1>18
    DEF Next, CommandLine, Goroutine

\* No SGroup is in two places, whatever Kubernetes answers and whenever Close comes
\* (getFreeSGroup: "no one else should acquire |sg| at the same time").
THEOREM OneHolder == Spec => []OnePlace
  <1>1. Spec => []IInv BY InitInv, StepInv, PTL DEF Spec
  <1>2. IInv => OnePlace
    <2> SUFFICES ASSUME IInv PROVE OnePlace OBVIOUS
    <2>1. IsInjective(freeSGroups \o sgroups) BY ConcatInjective DEF IInv, ListsInv
    <2>2. Range(freeSGroups) \subseteq SGroups /\ Range(sgroups) \subseteq SGroups
      BY RangeOfSeq DEF IInv, ListsInv
    <2> QED BY <2>1, <2>2 DEF IInv, ListedInv, Listed, OnePlace
  <1> QED BY <1>1, <1>2, PTL

-----------------------------------------------------------------------------
(* The messages of the factory, and what they start. *)

Kinds == {"free", "shutdown"}

\* n messages that ask for a SGroup, then s that stop the loop.
Messages(n, s) ==
    /\ op \in Seq(Kinds) /\ Len(op) = n + s
    /\ \A i \in 1..n : op[i] = "free"
    /\ \A i \in n + 1..n + s : op[i] = "shutdown"

\* Before quit nobody stops the loops.
Early == {"start", "sched", "cli"}

Made == SGroups \ Unmade

\* With s for the message of Close that is not read yet, wg counts the loops, and
\* the messages not read are for the SGroups not made.
LoopIs(n, s) ==
    /\ Messages(n, s)
    /\ main \in Early => s = 0 /\ ~schedOp /\ schedLoop
    /\ schedOp => schedLoop
    /\ schedOp \in BOOLEAN /\ schedLoop \in BOOLEAN
    /\ wg = (IF main \in Early \/ s = 1 THEN 1 ELSE 0) + (IF schedLoop THEN 1 ELSE 0)
    /\ main = "start" => n = 0
    /\ main = "start" \/ n = 2 => Made = {}
    /\ n = 1 => \E x \in SGroups : Made = {x}
    /\ \E x, y \in SGroups : Made \subseteq {x, y}

LoopInv == \E n \in 0..FreeAtStart : \E s \in 0..1 : LoopIs(n, s)

\* A step that leaves the messages and the loops alone and starts no creator.
LEMMA LoopSame ==
  ASSUME LoopInv, UNCHANGED <<op, schedOp, wg, schedLoop>>, main' \in Early <=> main \in Early,
         main' = "start" => main = "start",
         \A g \in SGroups : creator[g] = "none" <=> creator'[g] = "none"
  PROVE  LoopInv'
  <1>1. PICK n \in 0..FreeAtStart, s \in 0..1 : LoopIs(n, s) BY DEF LoopInv
  <1>2. Made' = Made BY DEF Made, Unmade
  <1>3. Messages(n, s)' BY <1>1 DEF LoopIs, Messages
  <1>4. LoopIs(n, s)' BY <1>1, <1>2, <1>3 DEF LoopIs
  <1> QED BY <1>4 DEF LoopInv

\* A worker starts with two loops and no message.
LEMMA LoopInit == Init => LoopInv
  <1> SUFFICES ASSUME Init PROVE LoopInv OBVIOUS
  <1>1. Made = {} BY DEF Init, Made, Unmade
  <1>2. Messages(0, 0) BY DEF Init, Messages
  <1>3. PICK x \in SGroups : TRUE
    <2>1. Cardinality(SGroups) # 0 BY ConstAssumption, FS_CardinalityType DEF FreeAtStart
    <2> QED BY <2>1, FS_EmptySet
  <1>4. main = "start" /\ ~schedOp /\ schedLoop /\ schedOp \in BOOLEAN /\ schedLoop \in BOOLEAN
        /\ wg = 2
    BY DEF Init
  <1>5. main \in Early BY <1>4 DEF Early
  <1>7. Made \subseteq {x, x} BY <1>1
  <1>8. LoopIs(0, 0) BY <1>1, <1>2, <1>4, <1>5, <1>7 DEF LoopIs
  <1> QED BY <1>8 DEF LoopInv, FreeAtStart

\* Every step.
LEMMA LoopStep == IInv /\ LoopInv /\ [Next]_vars => LoopInv'
  <1> SUFFICES ASSUME IInv, LoopInv, [Next]_vars PROVE LoopInv' OBVIOUS
  <1>0. PICK n \in 0..2, s \in 0..1 : LoopIs(n, s) BY DEF LoopInv, FreeAtStart
  <1>t. GoTypes BY DEF IInv
  <1>1. CASE Factory
    <2>1. op # <<>> /\ op' = Tail(op) /\ UNCHANGED <<main, schedOp, schedLoop>>
      BY <1>1 DEF Factory
    <2>2. op \in Seq(Kinds) /\ Len(op) = n + s BY <1>0 DEF LoopIs, Messages
    <2>3. /\ Len(op) > 0 /\ Head(op) = op[1] /\ op' \in Seq(Kinds)
          /\ Len(op') = n + s - 1 /\ \A i \in 1..n + s - 1 : op'[i] = op[i + 1]
      BY <2>1, <2>2, EmptySeq, HeadTailProperties
    <2>4. CASE n > 0
      <3>1. Head(op) = "free" BY <1>0, <2>3, <2>4 DEF LoopIs, Messages
      <3>2. PICK x \in Unmade : creator' = [creator EXCEPT ![x] = "start"] /\ wg' = wg
        BY <1>1, <3>1 DEF Factory, Go
      <3>3. x \in SGroups /\ Made' = Made \cup {x} BY <1>t, <3>2 DEF Made, Unmade, GoTypes
      <3>4. Messages(n - 1, s)'
        <4>1. \A i \in 1..n - 1 : op'[i] = "free" BY <1>0, <2>3, <2>4 DEF LoopIs, Messages
        <4>2. \A i \in n - 1 + 1..n - 1 + s : op'[i] = "shutdown"
          BY <1>0, <2>3, <2>4 DEF LoopIs, Messages
        <4> QED BY <2>3, <4>1, <4>2 DEF Messages
      <3>5. n - 1 \in 0..1 /\ n - 1 # 2 /\ main # "start" BY <1>0, <2>4 DEF LoopIs
      <3>6. n - 1 = 1 => Made' = {x} BY <1>0, <3>3, <3>5 DEF LoopIs
      <3>7. \E y, z \in SGroups : Made' \subseteq {y, z}
        <4>1. CASE n = 2 BY <1>0, <3>3, <4>1 DEF LoopIs
        <4>2. CASE n = 1 BY <1>0, <3>3, <4>2 DEF LoopIs
        <4> QED BY <2>4, <4>1, <4>2
      <3>8. LoopIs(n - 1, s)'
        BY <1>0, <2>1, <3>2, <3>3, <3>4, <3>5, <3>6, <3>7 DEF LoopIs
      <3> QED BY <3>5, <3>8 DEF LoopInv, FreeAtStart
    <2>5. CASE n = 0
      <3>1. s = 1 BY <2>2, <2>3, <2>5
      <3>2. Head(op) = "shutdown" BY <1>0, <2>3, <2>5, <3>1 DEF LoopIs, Messages
      <3>3. wg' = wg - 1 /\ UNCHANGED creator BY <1>1, <3>2 DEF Factory
      <3>4. Made' = Made BY <3>3 DEF Made, Unmade
      <3>5. Messages(0, 0)' BY <2>3, <2>5, <3>1 DEF Messages
      <3>6. main \notin Early BY <1>0, <3>1 DEF LoopIs
      <3>7. LoopIs(0, 0)'
        BY <1>0, <2>1, <2>5, <3>1, <3>3, <3>4, <3>5, <3>6 DEF LoopIs, Early
      <3> QED BY <3>7 DEF LoopInv, FreeAtStart
    <2> QED BY <2>4, <2>5
  <1>2. CASE CreateAllFreeSGroups
    <2>1. /\ main = "start" /\ main' = "sched" /\ UNCHANGED <<schedOp, wg, schedLoop, creator>>
          /\ op' = op \o [i \in 1..FreeAtStart |-> "free"]
      BY <1>2 DEF CreateAllFreeSGroups, goVars
    <2>2. n = 0 /\ s = 0 /\ Made = {} BY <1>0, <2>1 DEF LoopIs, Early
    <2>3. Len(op) = 0 /\ op \in Seq(Kinds) BY <1>0, <2>2 DEF LoopIs, Messages
    <2>4. PICK t : t = [i \in 1..FreeAtStart |-> "free"] OBVIOUS
    <2>5. t \in Seq(Kinds) /\ Len(t) = 2 /\ \A i \in 1..2 : t[i] = "free"
      <3>1. t \in [1..2 -> Kinds] /\ \A i \in 1..2 : t[i] = "free"
        BY <2>4 DEF FreeAtStart, Kinds
      <3>2. PICK k \in Nat : k = 2 /\ t \in [1..k -> Kinds] BY <3>1
      <3>3. t \in Seq(Kinds) BY <3>2, SeqDef
      <3> QED BY <3>1, <3>3, LenProperties
    <2>6. /\ op' \in Seq(Kinds) /\ Len(op') = 2
          /\ \A i \in 1..2 : op'[i] = t[i]
      <3>1. op' = op \o t BY <2>1, <2>4
      <3>2. /\ op \o t \in Seq(Kinds) /\ Len(op \o t) = 2
            /\ \A i \in 1..2 : (op \o t)[i] = t[i - 0]
        BY <2>3, <2>5, ConcatProperties
      <3> QED BY <3>1, <3>2
    <2>7. Messages(2, 0)' BY <2>5, <2>6 DEF Messages
    <2>8. Made' = {} BY <2>1, <2>2 DEF Made, Unmade
    <2>9. LoopIs(2, 0)' BY <1>0, <2>1, <2>2, <2>7, <2>8 DEF LoopIs, Early
    <2> QED BY <2>9 DEF LoopInv, FreeAtStart
  <1>3. CASE Quit
    <2>1. /\ main = "cli" /\ main' = "wait" /\ UNCHANGED <<wg, schedLoop, creator>>
          /\ op' = Append(op, "shutdown") /\ schedOp' = TRUE
      BY <1>3 DEF Quit, goVars
    <2>2. s = 0 /\ schedLoop = TRUE BY <1>0, <2>1 DEF LoopIs, Early
    <2>3. op \in Seq(Kinds) /\ Len(op) = n BY <1>0, <2>2 DEF LoopIs, Messages
    <2>4. /\ op' \in Seq(Kinds) /\ Len(op') = n + 1 /\ op'[n + 1] = "shutdown"
          /\ \A i \in 1..n : op'[i] = op[i]
      <3>1. "shutdown" \in Kinds BY DEF Kinds
      <3> QED BY <2>1, <2>3, <3>1, AppendProperties
    <2>5. Messages(n, 1)' BY <1>0, <2>4 DEF Messages, LoopIs
    <2>6. Made' = Made BY <2>1 DEF Made, Unmade
    <2>7. LoopIs(n, 1)' BY <1>0, <2>1, <2>2, <2>5, <2>6 DEF LoopIs, Early
    <2> QED BY <2>7 DEF LoopInv, FreeAtStart
  <1>4. CASE SchedulerStep
    <2>1. UNCHANGED <<main, op, creator>> BY <1>4 DEF SchedulerStep, goVars
    <2>2. CASE UNCHANGED <<schedOp, wg, schedLoop>> BY <2>1, <2>2, LoopSame
    <2>3. CASE schedOp /\ schedOp' = FALSE /\ wg' = wg - 1 /\ schedLoop' = FALSE
      <3>1. Made' = Made BY <2>1 DEF Made, Unmade
      <3>2. Messages(n, s)' BY <1>0, <2>1 DEF LoopIs, Messages
      <3>3. main \notin Early /\ schedLoop BY <1>0, <2>3 DEF LoopIs
      <3>5. main' \notin Early /\ main' # "start" BY <2>1, <3>3 DEF Early
      <3>6. wg' = (IF main' \in Early \/ s = 1 THEN 1 ELSE 0) + (IF schedLoop' THEN 1 ELSE 0)
        BY <1>0, <2>1, <2>3, <3>3, <3>5 DEF LoopIs
      <3>7. LoopIs(n, s)' BY <1>0, <2>1, <2>3, <3>1, <3>2, <3>5, <3>6 DEF LoopIs
      <3> QED BY <3>7 DEF LoopInv, FreeAtStart
    <2> QED BY <1>4, <2>2, <2>3 DEF SchedulerStep
  <1>5. CASE CreateSched \/ KillSched \/ LockToClean \/ DestroyAllSGroups \/ DestroyAllFreeSGroups
    <2>1. UNCHANGED <<op, schedOp, wg, schedLoop, creator>>
      BY <1>5 DEF CreateSched, KillSched, LockToClean, DestroyAllSGroups, DestroyLast,
                  DestroyAllFreeSGroups, loopVars, goVars
    <2>2. (main' \in Early <=> main \in Early) /\ main' # "start"
      BY <1>5 DEF CreateSched, KillSched, LockToClean, DestroyAllSGroups, DestroyLast,
                  DestroyAllFreeSGroups, Early
    <2> QED BY <2>1, <2>2, LoopSame
  <1>6. ASSUME NEW g \in SGroups, Goroutine(g) \/ TakeFreeSGroup(g) \/ InstanceSetUp(g)
        PROVE  LoopInv'
    <2>1. UNCHANGED <<op, schedOp, wg, schedLoop, main>>
      BY <1>6 DEF Goroutine, StartFreeSGroup, NewSGroup, AppendFreeSGroup, CreateNF, DestroySGroup,
                  ListSGroup, Complete, LeaveBarrier, DeleteManager, EndDestroyer,
                  TakeFreeSGroup, InstanceSetUp, loopVars
    <2>2. \A x \in SGroups : creator[x] = "none" <=> creator'[x] = "none"
      <3>1. CASE StartFreeSGroup(g) \/ NewSGroup(g) \/ AppendFreeSGroup(g)
        BY <1>t, <3>1 DEF StartFreeSGroup, NewSGroup, AppendFreeSGroup, Step, Go, GoTypes
      <3>2. CASE ~(StartFreeSGroup(g) \/ NewSGroup(g) \/ AppendFreeSGroup(g))
        <4>1. UNCHANGED creator
          BY <1>6, <3>2 DEF Goroutine, CreateNF, DestroySGroup, ListSGroup, Complete, LeaveBarrier,
                            DeleteManager, EndDestroyer, TakeFreeSGroup, InstanceSetUp, goVars
        <4> QED BY <4>1
      <3> QED BY <3>1, <3>2
    <2> QED BY <2>1, <2>2, LoopSame
  <1>7. ASSUME NEW p \in dying, PodEnds(p) PROVE LoopInv'
    BY <1>7, LoopSame DEF PodEnds, loopVars, goVars
  <1>8. CASE UNCHANGED vars BY <1>8, LoopSame DEF vars, loopVars, goVars
  <1> QED BY <1>1, <1>2, <1>3, <1>4, <1>5, <1>6, <1>7, <1>8 DEF Next, CommandLine

-----------------------------------------------------------------------------
(* SGroups in use: made, with a manager's pod nobody has deleted. *)

\* What a step does to the two lists.
FreeGains(g) == Range(freeSGroups)' = Range(freeSGroups) \cup {g}
FreeLoses(g) == g \in Range(freeSGroups) /\ Range(freeSGroups)' = Range(freeSGroups) \ {g}

\* The steps that change a list.
LEMMA ListSteps ==
  ASSUME IInv, NEW g \in SGroups
  PROVE  /\ AppendFreeSGroup(g) \/ DestroySGroup(g) => FreeGains(g) /\ UNCHANGED sgroups
         /\ TakeFreeSGroup(g) => FreeLoses(g) /\ UNCHANGED sgroups
         /\ ListSGroup(g) =>
                Range(sgroups)' = Range(sgroups) \cup {g} /\ UNCHANGED freeSGroups
  <1>0. ListsInv /\ ListedInv /\ HandsInv BY DEF IInv
  <1>1. ASSUME AppendFreeSGroup(g) \/ DestroySGroup(g)
        PROVE  FreeGains(g) /\ UNCHANGED sgroups
    <2>1. freeSGroups' = Append(freeSGroups, g) /\ UNCHANGED sgroups /\ ~Listed(g)
      BY <1>0, <1>1 DEF AppendFreeSGroup, DestroySGroup, Step, ListedInv
    <2> QED BY <1>0, <2>1, AppendFresh DEF ListsInv, Listed, FreeGains
  <1>2. ASSUME TakeFreeSGroup(g) PROVE FreeLoses(g) /\ UNCHANGED sgroups
    <2>1. /\ freeSGroups # <<>> /\ g = Last(freeSGroups) /\ freeSGroups' = Front(freeSGroups)
          /\ UNCHANGED sgroups
      BY <1>2 DEF TakeFreeSGroup
    <2> QED BY <1>0, <2>1, FrontAndLast DEF ListsInv, FreeLoses
  <1>3. ASSUME ListSGroup(g)
        PROVE  Range(sgroups)' = Range(sgroups) \cup {g} /\ UNCHANGED freeSGroups
    <2>1. sgroups' = Append(sgroups, g) /\ UNCHANGED freeSGroups /\ ~Listed(g)
      BY <1>0, <1>3 DEF ListSGroup, Step, ListedInv
    <2> QED BY <1>0, <2>1, AppendFresh DEF ListsInv, Listed
  <1> QED BY <1>1, <1>2, <1>3

\* destroyAllSGroups moves the last SGroup, which it resets.
LEMMA DestroyLastMoves ==
  ASSUME IInv, DestroyLast
  PROVE  \E g \in SGroups : /\ g \in Range(sgroups) /\ Reset(g) /\ FreeGains(g)
                            /\ Range(sgroups)' = Range(sgroups) \ {g}
                            /\ UNCHANGED <<main, sgMutex>>
  <1>0. ListsInv BY DEF IInv
  <1>1. PICK g : g = Last(sgroups) OBVIOUS
  <1>2. /\ sgroups # <<>> /\ sgroups' = Front(sgroups) /\ freeSGroups' = Append(freeSGroups, g)
        /\ Reset(g) /\ UNCHANGED <<main, sgMutex>>
    BY <1>1 DEF DestroyLast
  <1>3. g \in SGroups /\ g \in Range(sgroups) /\ Range(sgroups') = Range(sgroups) \ {g}
    BY <1>0, <1>1, <1>2, FrontAndLast DEF ListsInv
  <1>4. FreeGains(g)
    <2>1. g \notin Range(freeSGroups) BY <1>0, <1>3 DEF ListsInv
    <2> QED BY <1>0, <1>2, <1>3, <2>1, AppendFresh DEF ListsInv, FreeGains
  <1> QED BY <1>2, <1>3, <1>4

Used(g) ==
    \/ creator[g] = "append" \/ Listed(g)
    \/ builder[g] \in {"create", "list", "undo"} \/ destroyer[g] = "delete"

\* A SGroup comes into use when its manager's pod is created, and is in use until
\* the pod is deleted.
LEMMA UsedStep ==
  ASSUME IInv, [Next]_vars, NEW g \in SGroups, Used(g)'
  PROVE  \/ Used(g)
         \/ NewSGroup(g) /\ Created(Pod("prim", g))
  <1>0. ListsInv /\ ListedInv /\ HandsInv /\ GoTypes BY DEF IInv
  <1> SUFFICES ASSUME ~Used(g) PROVE NewSGroup(g) /\ Created(Pod("prim", g)) OBVIOUS
  <1>1. ASSUME UNCHANGED <<listVars, goVars>> PROVE FALSE
    BY <1>1 DEF Used, Listed, listVars, goVars
  <1>2. CASE Factory
    <2>1. UNCHANGED <<listVars, builder, destroyer>> BY <1>2 DEF Factory
    <2>2. creator'[g] # "append" \/ creator'[g] = creator[g]
      BY <1>0, <1>2 DEF Factory, Go, GoTypes, Unmade
    <2> QED BY <2>1, <2>2 DEF Used, Listed, listVars
  <1>3. ASSUME NEW x \in SGroups, StartFreeSGroup(x) PROVE FALSE
    BY <1>0, <1>3 DEF StartFreeSGroup, Step, Go, GoTypes, Used, Listed, listVars
  <1>4. ASSUME NEW x \in SGroups, NewSGroup(x) PROVE NewSGroup(g) /\ Created(Pod("prim", g))
    <2>1. UNCHANGED <<listVars, builder, destroyer>> BY <1>4 DEF NewSGroup
    <2>2. creator'[g] = "append" BY <2>1 DEF Used, Listed, listVars
    <2>3. creator[g] # "append" BY DEF Used
    <2>4. CASE Created(Pod("prim", x)) /\ creator' = Go(creator, x, "append")
      <3>1. g = x BY <1>0, <2>2, <2>3, <2>4 DEF Go, GoTypes
      <3> QED BY <1>4, <2>4, <3>1
    <2>5. CASE creator' = Go(creator, x, "done")
      BY <1>0, <2>2, <2>3, <2>5 DEF Go, GoTypes
    <2> QED BY <1>4, <2>4, <2>5 DEF NewSGroup
  <1>5. ASSUME NEW x \in SGroups, AppendFreeSGroup(x) PROVE FALSE
    <2>1. UNCHANGED <<sgroups, builder, destroyer>> /\ FreeGains(x) BY <1>5, ListSteps DEF AppendFreeSGroup
    <2>2. creator[x] = "append" /\ creator' = [creator EXCEPT ![x] = "done"]
      BY <1>5 DEF AppendFreeSGroup, Step, Go
    <2> QED BY <1>0, <2>1, <2>2 DEF Used, Listed, FreeGains, GoTypes
  <1>6. ASSUME NEW x \in SGroups, TakeFreeSGroup(x) PROVE FALSE
    <2>1. UNCHANGED <<sgroups, creator, destroyer>> /\ FreeLoses(x) BY <1>6, ListSteps DEF TakeFreeSGroup
    <2>2. builder' = [builder EXCEPT ![x] = "create"] BY <1>6 DEF TakeFreeSGroup, Go
    <2> QED BY <1>0, <2>1, <2>2 DEF Used, Listed, FreeLoses, GoTypes
  <1>7. ASSUME NEW x \in SGroups, CreateNF(x) PROVE FALSE
    <2>1. UNCHANGED <<listVars, creator, destroyer>> /\ builder[x] = "create"
      BY <1>7 DEF CreateNF, Step
    <2>2. PICK label \in {"list", "undo"} : builder' = [builder EXCEPT ![x] = label]
      BY <1>7 DEF CreateNF, Go
    <2> QED BY <1>0, <2>1, <2>2 DEF Used, Listed, GoTypes, listVars
  <1>8. ASSUME NEW x \in SGroups, DestroySGroup(x) PROVE FALSE
    <2>1. UNCHANGED <<sgroups, creator, destroyer>> /\ FreeGains(x) BY <1>8, ListSteps DEF DestroySGroup
    <2>2. builder[x] = "undo" /\ builder' = [builder EXCEPT ![x] = "none"]
      BY <1>8 DEF DestroySGroup, Step, Go
    <2> QED BY <1>0, <2>1, <2>2 DEF Used, Listed, FreeGains, GoTypes
  <1>9. ASSUME NEW x \in SGroups, ListSGroup(x) PROVE FALSE
    <2>1. /\ UNCHANGED <<freeSGroups, creator, destroyer>>
          /\ Range(sgroups)' = Range(sgroups) \cup {x}
      BY <1>9, ListSteps DEF ListSGroup
    <2>2. builder[x] = "list" /\ builder' = [builder EXCEPT ![x] = "finish"]
      BY <1>9 DEF ListSGroup, Step, Go
    <2> QED BY <1>0, <2>1, <2>2 DEF Used, Listed, GoTypes
  <1>10. ASSUME NEW x \in SGroups, Complete(x) PROVE FALSE
    <2>1. UNCHANGED <<listVars, creator, destroyer>> /\ builder' = [builder EXCEPT ![x] = "none"]
      BY <1>10 DEF Complete, Go
    <2> QED BY <1>0, <2>1 DEF Used, Listed, GoTypes, listVars
  <1>11. CASE DestroyLast /\ UNCHANGED goVars
    <2>1. PICK x \in SGroups : /\ x \in Range(sgroups) /\ FreeGains(x)
                               /\ Range(sgroups)' = Range(sgroups) \ {x}
      BY <1>11, DestroyLastMoves
    <2> QED BY <1>11, <2>1 DEF Used, Listed, FreeGains, goVars
  <1>12. CASE DestroyAllFreeSGroups
    <2>1. CASE main = "free"
      <3>1. /\ freeSGroups' = <<>> /\ UNCHANGED <<sgroups, creator, builder>>
            /\ destroyer' = [y \in SGroups |-> IF y \in Range(freeSGroups) THEN "delete"
                                               ELSE destroyer[y]]
        BY <1>12, <2>1 DEF DestroyAllFreeSGroups
      <3>2. Range(freeSGroups') = {} BY <3>1 DEF Range
      <3> QED BY <3>1, <3>2 DEF Used, Listed
    <2>2. CASE main # "free"
      <3>1. UNCHANGED <<listVars, goVars>>
        BY <1>12, <2>2 DEF DestroyAllFreeSGroups, listVars, goVars
      <3> QED BY <1>1, <3>1
    <2> QED BY <2>1, <2>2
  <1>13. ASSUME NEW x \in SGroups, DeleteManager(x) \/ EndDestroyer(x) PROVE FALSE
    <2>1. UNCHANGED <<listVars, creator, builder>>
      BY <1>13 DEF DeleteManager, EndDestroyer, FreeIndex
    <2>2. PICK label \in {"poll", "done"} : destroyer' = [destroyer EXCEPT ![x] = label]
      BY <1>13 DEF DeleteManager, EndDestroyer, FreeIndex, Go
    <2> QED BY <1>0, <2>1, <2>2 DEF Used, Listed, GoTypes, listVars
  <1>14. CASE CreateAllFreeSGroups \/ CreateSched \/ KillSched \/ LockToClean \/ Quit
    BY <1>1, <1>14 DEF CreateAllFreeSGroups, CreateSched, KillSched, LockToClean, Quit
  <1>15. CASE DestroyAllSGroups
    <2>1. UNCHANGED goVars BY <1>15 DEF DestroyAllSGroups
    <2>2. DestroyLast \/ UNCHANGED listVars BY <1>15 DEF DestroyAllSGroups
    <2> QED BY <1>1, <1>11, <2>1, <2>2
  <1>16. CASE SchedulerStep BY <1>1, <1>16 DEF SchedulerStep
  <1>17. ASSUME NEW x \in SGroups, InstanceSetUp(x) \/ LeaveBarrier(x) PROVE FALSE
    BY <1>1, <1>17 DEF InstanceSetUp, LeaveBarrier
  <1>18. ASSUME NEW p \in dying, PodEnds(p) PROVE FALSE BY <1>1, <1>18 DEF PodEnds
  <1>19. CASE UNCHANGED vars BY <1>1, <1>19 DEF vars
  <1> QED
    BY <1>2, <1>3, <1>4, <1>5, <1>6, <1>7, <1>8, <1>9, <1>10, <1>12, <1>13, <1>14, <1>15,
       <1>16, <1>17, <1>18, <1>19
    DEF Next, CommandLine, Goroutine

-----------------------------------------------------------------------------
(* Types, and which pods there must be. *)

Mains == {"start", "sched", "cli", "wait", "clean", "reset", "free", "join", "closed"}

Flags == [SGroups -> BOOLEAN]

\* The variables whose values need no other invariant.
PlainTypes ==
    /\ main \in Mains /\ scan \in Seq(SGroups) /\ sgMutex \in {None, "sched", "main"}
    /\ hasIns \in Flags /\ tid \in Flags /\ isComplete \in Flags /\ isReady \in Flags
    /\ sgLock \in Flags
    /\ sgroupConns \in Nat /\ sgroupTarget \in Nat
    /\ failures \in 0..MaxFailures /\ impatient \in BOOLEAN

\* Only pods that exist end; a SGroup in use has its manager's pod, an instance of
\* a SGroup its own.
PodsInv ==
    /\ dying \subseteq pods
    /\ \A g \in SGroups : Used(g) => Exists(Pod("prim", g))
    /\ \A g \in SGroups : hasIns[g] => Pod("nf", g) \in pods

\* A call that creates takes no pod away.
LEMMA CreateCall ==
  ASSUME NEW p, dying \subseteq pods, Created(p) \/ NotCreated(p) \/ Refused
  PROVE  /\ dying' \subseteq pods' /\ pods \subseteq pods'
         /\ \A q : Exists(q) => Exists(q)'
         /\ impatient' = impatient
         /\ failures \in 0..MaxFailures => failures' \in 0..MaxFailures
  <1>1. MaxFailures \in Nat BY ConstAssumption
  <1>2. impatient' = impatient /\ (failures' = failures \/ (failures < MaxFailures /\ failures' = failures + 1))
    BY DEF Created, NotCreated, Refused, k8sVars
  <1>3. \/ UNCHANGED <<pods, dying>>
        \/ pods' = pods \cup {p} /\ dying' = dying \ {p}
    BY DEF Created, NotCreated, Refused, k8sVars
  <1> QED BY <1>1, <1>2, <1>3 DEF Exists

\* A call that deletes makes one pod end.
LEMMA DeleteCall ==
  ASSUME NEW p \in pods, dying \subseteq pods, Deleted(p) \/ Refused
  PROVE  /\ dying' \subseteq pods' /\ pods' = pods
         /\ \A q : q # p /\ Exists(q) => Exists(q)'
         /\ impatient' = impatient
         /\ failures \in 0..MaxFailures => failures' \in 0..MaxFailures
  <1>1. MaxFailures \in Nat BY ConstAssumption
  <1>2. CASE Deleted(p) BY <1>2 DEF Deleted, Exists
  <1>3. CASE Refused BY <1>1, <1>3 DEF Refused, Exists
  <1> QED BY <1>2, <1>3

\* A new worker.
LEMMA PlainInit == Init => PlainTypes /\ PodsInv
  <1> SUFFICES ASSUME Init PROVE PlainTypes /\ PodsInv OBVIOUS
  <1>1. PlainTypes
    <2>1. <<>> \in Seq(SGroups) /\ MaxFailures \in Nat BY ConstAssumption
    <2>2. /\ main = "start" /\ scan = <<>> /\ sgMutex = None /\ sgroupConns = 0
          /\ sgroupTarget = 0 /\ failures = 0 /\ impatient = FALSE
      BY DEF Init
    <2>3. /\ hasIns \in Flags /\ tid \in Flags /\ isComplete \in Flags /\ isReady \in Flags
          /\ sgLock \in Flags
      BY DEF Init, Flags
    <2>4. main \in Mains /\ scan \in Seq(SGroups) /\ sgMutex \in {None, "sched", "main"}
      BY <2>1, <2>2 DEF Mains
    <2>5. sgroupConns \in Nat /\ sgroupTarget \in Nat /\ failures \in 0..MaxFailures
      BY <2>1, <2>2
    <2>6. impatient \in BOOLEAN BY <2>2
    <2> QED BY <2>3, <2>4, <2>5, <2>6 DEF PlainTypes
  <1>2. ASSUME NEW g \in SGroups PROVE ~Used(g) /\ ~hasIns[g]
    BY DEF Init, Used, Listed, Range
  <1> QED BY <1>1, <1>2 DEF Init, PodsInv

\* What every step but those that speak to Kubernetes leaves alone.
LEMMA PodsSame ==
  ASSUME IInv, PodsInv, [Next]_vars, UNCHANGED <<pods, dying, hasIns>>
  PROVE  PodsInv'
  <1>1. \A p : Exists(p)' <=> Exists(p) BY DEF Exists
  <1>2. \A g \in SGroups : Used(g)' => Used(g)
    <2>1. \A p : ~Created(p) BY DEF Created, Exists
    <2> QED BY <2>1, UsedStep
  <1> QED BY <1>1, <1>2 DEF PodsInv, Pod

\* A SGroup at the barrier.
LEMMA PreprocessTypes ==
  ASSUME PlainTypes, NEW g \in SGroups, Preprocess(g), isComplete' \in Flags, tid' \in Flags
  PROVE  /\ sgLock' \in Flags /\ sgroupConns' \in Nat
         /\ UNCHANGED <<sgroupTarget, isReady, hasIns>>
  <1>1. UNCHANGED <<sgroupTarget, isReady, hasIns>> BY DEF Preprocess
  <1>2. \/ sgLock' = [sgLock EXCEPT ![g] = TRUE] /\ sgroupConns' = sgroupConns + 1
        \/ UNCHANGED <<sgLock, sgroupConns>>
    BY DEF Preprocess
  <1>3. sgLock \in Flags /\ sgroupConns \in Nat BY DEF PlainTypes
  <1>4. sgLock' \in Flags BY <1>2, <1>3 DEF Flags
  <1>5. sgroupConns' \in Nat BY <1>2, <1>3
  <1> QED BY <1>1, <1>4, <1>5

\* Every step.
LEMMA PlainStep == IInv /\ PlainTypes /\ PodsInv /\ [Next]_vars => PlainTypes' /\ PodsInv'
  <1> SUFFICES ASSUME IInv, PlainTypes, PodsInv, [Next]_vars PROVE PlainTypes' /\ PodsInv'
    OBVIOUS
  <1>0. ListsInv /\ ListedInv /\ HandsInv /\ GoTypes BY DEF IInv
  <1>p. \A k, l, x, y : Pod(k, x) = Pod(l, y) <=> k = l /\ x = y BY DEF Pod
  <1>1. ASSUME UNCHANGED <<barVars, chainVars, pods, dying, failures>>,
               main' \in Mains, scan' \in Seq(SGroups), sgMutex' \in {None, "sched", "main"},
               impatient' \in BOOLEAN
        PROVE  PlainTypes' /\ PodsInv'
    <2>1. PodsInv' BY <1>1, PodsSame DEF chainVars
    <2>2. PlainTypes' BY <1>1 DEF PlainTypes, barVars, chainVars
    <2> QED BY <2>1, <2>2
  \* A call to create, of which only an answer of yes makes a manager's pod.
  <1>2. ASSUME NEW p, Created(p) \/ NotCreated(p) \/ Refused,
               UNCHANGED <<barVars, chainVars, scan, sgMutex>>, main' \in Mains
        PROVE  PlainTypes' /\ PodsInv'
    <2>1. /\ dying' \subseteq pods' /\ pods \subseteq pods' /\ \A q : Exists(q) => Exists(q)'
          /\ impatient' = impatient /\ failures' \in 0..MaxFailures
      BY <1>2, CreateCall DEF PodsInv, PlainTypes
    <2>2. ASSUME NEW g \in SGroups, Used(g)' PROVE Exists(Pod("prim", g))'
      <3>1. CASE Used(g) BY <2>1, <3>1 DEF PodsInv
      <3>2. CASE Created(Pod("prim", g)) BY <3>2 DEF Created, Exists, PodsInv
      <3> QED BY <2>2, <3>1, <3>2, UsedStep
    <2>3. PodsInv' BY <1>2, <2>1, <2>2 DEF PodsInv, chainVars, Pod
    <2>4. PlainTypes' BY <1>2, <2>1 DEF PlainTypes, barVars, chainVars
    <2> QED BY <2>3, <2>4
  \* A call to delete.
  <1>3. ASSUME NEW p \in pods, Deleted(p) \/ Refused, UNCHANGED <<barVars, tid, isComplete, scan, sgMutex>>,
               main' \in Mains, hasIns' \in Flags,
               \A g \in SGroups : hasIns'[g] => hasIns[g],
               \A g \in SGroups : Used(g)' => Used(g) /\ p # Pod("prim", g)
        PROVE  PlainTypes' /\ PodsInv'
    <2>1. /\ dying' \subseteq pods' /\ pods' = pods /\ \A q : q # p /\ Exists(q) => Exists(q)'
          /\ impatient' = impatient /\ failures' \in 0..MaxFailures
      BY <1>3, DeleteCall DEF PodsInv, PlainTypes
    <2>2. ASSUME NEW g \in SGroups, Used(g)' PROVE Exists(Pod("prim", g))'
      BY <1>3, <2>1, <2>2 DEF PodsInv
    <2>3. PodsInv' BY <1>3, <2>1, <2>2 DEF PodsInv, Pod
    <2>4. PlainTypes' BY <1>3, <2>1 DEF PlainTypes, barVars
    <2> QED BY <2>3, <2>4
  <1>4. CASE Factory
    BY <1>1, <1>4 DEF Factory, PlainTypes, barVars, chainVars, k8sVars
  <1>5. ASSUME NEW g \in SGroups, StartFreeSGroup(g) \/ AppendFreeSGroup(g) \/ TakeFreeSGroup(g)
        PROVE  PlainTypes' /\ PodsInv'
    BY <1>1, <1>5 DEF StartFreeSGroup, AppendFreeSGroup, TakeFreeSGroup, PlainTypes, loopVars,
                      k8sVars
  <1>6. ASSUME NEW g \in SGroups, NewSGroup(g) PROVE PlainTypes' /\ PodsInv'
    BY <1>2, <1>6 DEF NewSGroup, PlainTypes, loopVars
  <1>7. ASSUME NEW g \in SGroups, CreateNF(g) PROVE PlainTypes' /\ PodsInv'
    <2> DEFINE p == Pod("nf", g)
    <2>1. /\ UNCHANGED <<main, loopVars, sgMutex, barVars, isComplete>>
          /\ \/ Created(p) /\ hasIns' = [hasIns EXCEPT ![g] = TRUE] /\ tid' = [tid EXCEPT ![g] = FALSE]
             \/ NotCreated(p) /\ UNCHANGED <<hasIns, tid>>
      BY <1>7 DEF CreateNF
    <2>2. /\ dying' \subseteq pods' /\ pods \subseteq pods' /\ \A q : Exists(q) => Exists(q)'
          /\ impatient' = impatient /\ failures' \in 0..MaxFailures
      BY <2>1, CreateCall DEF PodsInv, PlainTypes
    <2>3. ASSUME NEW x \in SGroups, Used(x)' PROVE Exists(Pod("prim", x))'
      <3>1. CASE Used(x) BY <2>2, <3>1 DEF PodsInv
      <3>2. CASE Created(Pod("prim", x)) BY <3>2 DEF Created, Exists, PodsInv
      <3> QED BY <2>3, <3>1, <3>2, UsedStep
    <2>4. ASSUME NEW x \in SGroups, hasIns'[x] PROVE Pod("nf", x) \in pods'
      <3>1. CASE hasIns[x] BY <2>2, <3>1 DEF PodsInv
      <3>2. CASE ~hasIns[x]
        <4>1. Created(p) /\ x = g BY <2>1, <2>4, <3>2 DEF PlainTypes, Flags
        <4> QED BY <4>1 DEF Created
      <3> QED BY <3>1, <3>2
    <2>5. PodsInv' BY <2>2, <2>3, <2>4 DEF PodsInv
    <2>6. hasIns' \in Flags /\ tid' \in Flags BY <2>1 DEF PlainTypes, Flags
    <2> HIDE DEF p
    <2>7. PlainTypes' BY <2>1, <2>2, <2>6 DEF PlainTypes, barVars, loopVars
    <2> QED BY <2>5, <2>7
  <1>8. ASSUME NEW g \in SGroups, DestroySGroup(g) PROVE PlainTypes' /\ PodsInv'
    BY <1>1, <1>8 DEF DestroySGroup, PlainTypes, loopVars, k8sVars
  <1>9. ASSUME NEW g \in SGroups, ListSGroup(g) PROVE PlainTypes' /\ PodsInv'
    <2>1. PodsInv' BY <1>9, PodsSame DEF ListSGroup, k8sVars, chainVars
    <2>2. PlainTypes' BY <1>9 DEF ListSGroup, PlainTypes, k8sVars, chainVars, loopVars
    <2> QED BY <2>1, <2>2
  <1>10. ASSUME NEW g \in SGroups, Complete(g) \/ InstanceSetUp(g) PROVE PlainTypes' /\ PodsInv'
    <2>1. /\ Preprocess(g) /\ UNCHANGED <<main, loopVars, sgMutex, k8sVars>>
          /\ isComplete' \in Flags /\ tid' \in Flags
      BY <1>10 DEF Complete, InstanceSetUp, PlainTypes, Flags
    <2>2. sgLock' \in Flags /\ sgroupConns' \in Nat /\ UNCHANGED <<sgroupTarget, isReady, hasIns>>
      BY <2>1, PreprocessTypes
    <2>3. PodsInv' BY <2>1, <2>2, PodsSame DEF k8sVars
    <2>4. PlainTypes' BY <2>1, <2>2 DEF PlainTypes, k8sVars, loopVars
    <2> QED BY <2>3, <2>4
  <1>11. ASSUME NEW g \in SGroups, LeaveBarrier(g) PROVE PlainTypes' /\ PodsInv'
    <2>1. PodsInv' BY <1>11, PodsSame DEF LeaveBarrier, k8sVars, chainVars
    <2>2. PlainTypes' BY <1>11 DEF LeaveBarrier, PlainTypes, Flags, k8sVars, chainVars, loopVars
    <2> QED BY <2>1, <2>2
  <1>12. ASSUME NEW g \in SGroups, DeleteManager(g) PROVE PlainTypes' /\ PodsInv'
    <2>1. /\ destroyer[g] = "delete" /\ UNCHANGED <<main, loopVars, sgMutex, barVars, chainVars>>
          /\ \/ Deleted(Pod("prim", g)) /\ destroyer' = [destroyer EXCEPT ![g] = "poll"]
             \/ Refused /\ destroyer' = [destroyer EXCEPT ![g] = "done"]
      BY <1>12 DEF DeleteManager, Step, Go
    <2>2. UNCHANGED <<listVars, creator, builder>> BY <1>12 DEF DeleteManager
    <2>3. ~Listed(g) /\ creator[g] = "done" /\ builder[g] \notin {"create", "list", "undo"}
      BY <1>0, <2>1 DEF ListedInv, HandsInv
    <2>4. ~Used(g)' BY <1>0, <2>1, <2>2, <2>3 DEF Used, Listed, listVars, GoTypes
    <2>5. Pod("prim", g) \in pods BY <2>1 DEF PodsInv, Used, Exists
    <2>6. ASSUME NEW x \in SGroups, Used(x)' PROVE Used(x) /\ Pod("prim", g) # Pod("prim", x)
      <3>1. x # g BY <2>4, <2>6
      <3>2. Used(x) BY <1>0, <2>1, <2>2, <2>6, <3>1 DEF Used, Listed, listVars, GoTypes
      <3> QED BY <1>p, <3>1, <3>2
    <2>7. UNCHANGED <<barVars, tid, isComplete, scan, sgMutex>> /\ main' \in Mains /\ hasIns' = hasIns
      BY <2>1 DEF PlainTypes, loopVars, chainVars
    <2>8. hasIns' \in Flags BY <2>7 DEF PlainTypes
    <2> QED BY <1>3, <2>1, <2>5, <2>6, <2>7, <2>8
  <1>13. ASSUME NEW g \in SGroups, EndDestroyer(g) PROVE PlainTypes' /\ PodsInv'
    BY <1>1, <1>13 DEF EndDestroyer, FreeIndex, PlainTypes, loopVars
  <1>14. CASE CreateAllFreeSGroups \/ Quit \/ LockToClean
    BY <1>1, <1>14 DEF CreateAllFreeSGroups, Quit, LockToClean, PlainTypes, Mains, loopVars, k8sVars
  <1>15. CASE CreateSched
    BY <1>2, <1>15 DEF CreateSched, PlainTypes, Mains, loopVars
  <1>16. CASE KillSched
    <2>1. /\ main' = "clean" /\ UNCHANGED <<loopVars, sgMutex, listVars, barVars, chainVars, goVars>>
          /\ \/ Pod("sched", None) \in pods /\ (Deleted(Pod("sched", None)) \/ Refused)
             \/ UNCHANGED k8sVars
      BY <1>16 DEF KillSched
    <2>2. CASE UNCHANGED k8sVars
      BY <1>1, <2>1, <2>2 DEF PlainTypes, Mains, loopVars, k8sVars
    <2>3. CASE Pod("sched", None) \in pods /\ (Deleted(Pod("sched", None)) \/ Refused)
      <3>1. \A x \in SGroups : Used(x)' => Used(x)
        BY <2>1 DEF Used, Listed, listVars, goVars
      <3>2. \A x \in SGroups : Pod("sched", None) # Pod("prim", x) BY <1>p
      <3>3. hasIns' = hasIns /\ hasIns' \in Flags BY <2>1 DEF PlainTypes, chainVars
      <3>4. UNCHANGED <<barVars, tid, isComplete, scan, sgMutex>> /\ main' \in Mains
        BY <2>1 DEF loopVars, chainVars, Mains
      <3> QED BY <1>3, <2>3, <3>1, <3>2, <3>3, <3>4
    <2> QED BY <2>1, <2>2, <2>3
  <1>17. CASE DestroyAllSGroups
    <2>1. UNCHANGED <<tid, isComplete, loopVars, barVars, goVars>> BY <1>17 DEF DestroyAllSGroups
    <2>2. CASE DestroyLast
      <3>1. PICK g \in SGroups : /\ g \in Range(sgroups) /\ Reset(g) /\ FreeGains(g)
                                 /\ Range(sgroups)' = Range(sgroups) \ {g}
                                 /\ UNCHANGED <<main, sgMutex>>
        BY <2>2, DestroyLastMoves
      <3>2. hasIns' = [hasIns EXCEPT ![g] = FALSE] BY <3>1 DEF Reset
      <3>3. hasIns' \in Flags /\ \A x \in SGroups : hasIns'[x] => hasIns[x]
        BY <3>2 DEF PlainTypes, Flags
      <3>4. \A x \in SGroups : Used(x)' => Used(x)
        BY <2>1, <3>1 DEF Used, Listed, FreeGains, goVars
      <3>5. main' \in Mains /\ UNCHANGED <<barVars, tid, isComplete, scan, sgMutex>>
        BY <2>1, <3>1 DEF PlainTypes, loopVars
      <3>6. CASE hasIns[g]
        <4>1. (Deleted(Pod("nf", g)) \/ Refused) /\ Pod("nf", g) \in pods
          BY <3>1, <3>6 DEF Reset, PodsInv
        <4>2. \A x \in SGroups : Pod("nf", g) # Pod("prim", x) BY <1>p
        <4> QED BY <1>3, <3>3, <3>4, <3>5, <4>1, <4>2
      <3>7. CASE ~hasIns[g]
        <4>1. UNCHANGED k8sVars /\ hasIns' = hasIns
          BY <3>1, <3>2, <3>7 DEF Reset, PlainTypes, Flags
        <4>2. UNCHANGED chainVars BY <2>1, <4>1 DEF chainVars
        <4>3. scan' \in Seq(SGroups) /\ sgMutex' \in {None, "sched", "main"} /\ impatient' \in BOOLEAN
              /\ UNCHANGED <<pods, dying, failures>>
          BY <3>5, <4>1 DEF PlainTypes, k8sVars
        <4> QED BY <1>1, <2>1, <3>5, <4>2, <4>3
      <3> QED BY <3>6, <3>7
    <2>3. CASE main' = "free" /\ sgMutex' = None /\ UNCHANGED <<hasIns, listVars, k8sVars>>
      BY <1>1, <2>1, <2>3 DEF PlainTypes, Mains, loopVars, chainVars, k8sVars
    <2> QED BY <1>17, <2>2, <2>3 DEF DestroyAllSGroups
  <1>18. CASE DestroyAllFreeSGroups
    BY <1>1, <1>18 DEF DestroyAllFreeSGroups, PlainTypes, Mains, loopVars, k8sVars
  <1>19. CASE SchedulerStep
    <2>1. UNCHANGED <<main, barVars, chainVars, k8sVars>> BY <1>19 DEF SchedulerStep
    <2>2. scan' \in Seq(SGroups) /\ sgMutex' \in {None, "sched", "main"}
      <3>1. scan \in Seq(SGroups) /\ sgroups \in Seq(SGroups)
            /\ sgMutex \in {None, "sched", "main"}
        BY <1>0 DEF PlainTypes, ListsInv
      <3>2. scan # <<>> => Tail(scan) \in Seq(SGroups) BY <3>1, HeadTailProperties
      <3>3. \/ scan' = sgroups /\ sgMutex' = "sched"
            \/ scan # <<>> /\ scan' = Tail(scan) /\ sgMutex' \in {None, sgMutex}
            \/ UNCHANGED <<scan, sgMutex>>
        BY <1>19 DEF SchedulerStep, VisitNext
      <3> QED BY <3>1, <3>2, <3>3
    <2> QED BY <1>1, <2>1, <2>2 DEF PlainTypes, k8sVars
  <1>20. ASSUME NEW p \in dying, PodEnds(p) PROVE PlainTypes' /\ PodsInv'
    <2>1. /\ p[1] = "prim" /\ pods' = pods \ {p} /\ dying' = dying \ {p}
          /\ UNCHANGED <<main, loopVars, sgMutex, listVars, barVars, chainVars, goVars, failures, impatient>>
      BY <1>20 DEF PodEnds
    <2>2. PlainTypes' BY <2>1 DEF PlainTypes, loopVars, barVars, chainVars
    <2>3. \A x \in SGroups : Used(x)' => Used(x) BY <2>1 DEF Used, Listed, listVars, goVars
    <2>4. \A q : Exists(q) => Exists(q)' BY <2>1 DEF Exists
    <2>5. \A x \in SGroups : Pod("nf", x) # p BY <2>1 DEF Pod
    <2>6. PodsInv' BY <2>1, <2>3, <2>4, <2>5 DEF PodsInv, chainVars
    <2> QED BY <2>2, <2>6
  <1>21. CASE UNCHANGED vars
    BY <1>1, <1>21 DEF vars, PlainTypes, loopVars, barVars, chainVars, k8sVars
  <1> QED
    BY <1>4, <1>5, <1>6, <1>7, <1>8, <1>9, <1>10, <1>11, <1>12, <1>13, <1>14, <1>15,
       <1>16, <1>17, <1>18, <1>19, <1>20, <1>21
    DEF Next, CommandLine, Goroutine

-----------------------------------------------------------------------------
(* PCIe indices. *)

Indices == 0..NumPCIe - 1

Held == {pcie[g] : g \in SGroups} \ {None}

\* An index is in the pool or a SGroup has it, and one SGroup only.
PoolInv ==
    /\ IsPool(pciePool) /\ pcie \in [SGroups -> Indices \cup {None}]
    /\ Range(pciePool) \cup Held = Indices /\ Range(pciePool) \cap Held = {}
    /\ \A g, h \in SGroups : pcie[g] = pcie[h] /\ pcie[g] # None => g = h

HasIndex(g) == creator[g] = "create" \/ destroyer[g] = "poll" \/ Used(g)

\* A SGroup has an index from its creator's first step on, until the index is freed.
IndexInv ==
    \A g \in SGroups :
        /\ creator[g] \in {"none", "start"} => pcie[g] = None
        /\ HasIndex(g) => pcie[g] # None

\* What the pool gives.
LEMMA PoolGives ==
  ASSUME PoolInv, NEW g \in SGroups, pcie[g] = None, pciePool # <<>>,
         pcie' = [pcie EXCEPT ![g] = NextAvailable(pciePool)], pciePool' = AfterGet(pciePool)
  PROVE  /\ PoolInv' /\ pcie'[g] # None
         /\ \E i \in Range(pciePool) : /\ \A j \in Range(pciePool) : i <= j
                                       /\ Range(pciePool') = Range(pciePool) \ {i}
                                       /\ Held' = Held \cup {i}
  <1>1. PICK i : i = NextAvailable(pciePool) OBVIOUS
  <1>2. /\ i \in Range(pciePool) /\ \A j \in Range(pciePool) : i <= j
        /\ IsPool(pciePool') /\ Range(pciePool') = Range(pciePool) \ {i}
    BY <1>1, GetTakesLeast DEF PoolInv
  <1>3. i \in Indices /\ i \notin Held /\ i # None /\ None \notin Indices
    BY <1>2, ConstAssumption DEF PoolInv, Indices
  <1>4. pcie' = [pcie EXCEPT ![g] = i] /\ pcie \in [SGroups -> Indices \cup {None}]
    BY <1>1 DEF PoolInv
  <1>5. pcie' \in [SGroups -> Indices \cup {None}] BY <1>3, <1>4
  <1>6. \A h \in SGroups : pcie'[h] = IF h = g THEN i ELSE pcie[h] BY <1>4
  <1>7. Held' = Held \cup {i} BY <1>3, <1>6 DEF Held
  <1>8. ASSUME NEW x \in SGroups, NEW y \in SGroups, pcie'[x] = pcie'[y], pcie'[x] # None
        PROVE  x = y
    <2>1. \A h \in SGroups : pcie[h] # i BY <1>3 DEF Held
    <2> QED BY <1>6, <1>8, <2>1 DEF PoolInv
  <1>9. Range(pciePool') \cup Held' = Indices /\ Range(pciePool') \cap Held' = {}
    BY <1>2, <1>3, <1>7 DEF PoolInv
  <1>10. PoolInv' BY <1>2, <1>5, <1>8, <1>9 DEF PoolInv, Indices
  <1> QED BY <1>2, <1>3, <1>6, <1>7, <1>10

\* What the pool takes back.
LEMMA PoolTakes ==
  ASSUME PoolInv, NEW g \in SGroups, pcie[g] # None,
         pcie' = [pcie EXCEPT ![g] = None], pciePool' = Free(pciePool, pcie[g])
  PROVE  /\ PoolInv' /\ pcie[g] \in Held
         /\ Range(pciePool') = Range(pciePool) \cup {pcie[g]} /\ Held' = Held \ {pcie[g]}
  <1>1. PICK i : i = pcie[g] OBVIOUS
  <1>2. pcie \in [SGroups -> Indices \cup {None}] /\ i \in Indices /\ i \in Int /\ i \in Held
    BY <1>1 DEF PoolInv, Held, Indices
  <1>3. IsPool(pciePool') /\ Range(pciePool') = Range(pciePool) \cup {i}
    BY <1>1, <1>2, FreeAdds DEF PoolInv
  <1>4. pcie' \in [SGroups -> Indices \cup {None}] BY <1>2
  <1>5. \A h \in SGroups : pcie'[h] = IF h = g THEN None ELSE pcie[h] BY <1>2
  <1>6. \A h \in SGroups : h # g => pcie[h] # i BY <1>1 DEF PoolInv
  <1>7. Held' = Held \ {i} BY <1>1, <1>5, <1>6 DEF Held
  <1>8. \A x, y \in SGroups : pcie'[x] = pcie'[y] /\ pcie'[x] # None => x = y
    BY <1>5 DEF PoolInv
  <1>9. Range(pciePool') \cup Held' = Indices /\ Range(pciePool') \cap Held' = {}
    BY <1>2, <1>3, <1>7 DEF PoolInv
  <1>10. PoolInv' BY <1>3, <1>4, <1>8, <1>9 DEF PoolInv, Indices
  <1> QED BY <1>1, <1>2, <1>3, <1>7, <1>10

\* A creator that asks for an index is given one: there are fewer SGroups made than
\* devices (createInstance indexes w.pcie with it).
LEMMA NeverEmpty ==
  ASSUME LoopInv, PoolInv, IndexInv, NEW g \in SGroups, creator[g] = "start"
  PROVE  pciePool # <<>>
  <1> SUFFICES ASSUME pciePool = <<>> PROVE FALSE OBVIOUS
  <1>1. Range(pciePool) = {} BY DEF Range
  <1>2. 0 \in Held /\ 1 \in Held
    BY <1>1, ConstAssumption DEF PoolInv, Indices, FreeAtStart
  <1>3. PICK x \in SGroups : pcie[x] = 0 BY <1>2 DEF Held
  <1>4. PICK y \in SGroups : pcie[y] = 1 BY <1>2 DEF Held
  <1>5. None # 0 /\ None # 1 BY ConstAssumption
  <1>6. pcie[g] = None /\ x # g /\ y # g /\ x # y BY <1>3, <1>4, <1>5 DEF IndexInv
  <1>7. x \in Made /\ y \in Made /\ g \in Made
    BY <1>3, <1>4, <1>5 DEF Made, Unmade, IndexInv
  <1>8. PICK a, b \in SGroups : Made \subseteq {a, b} BY DEF LoopInv, LoopIs
  <1> QED BY <1>6, <1>7, <1>8

\* A new worker.
LEMMA IndexInit == Init => PoolInv /\ IndexInv
  <1> SUFFICES ASSUME Init PROVE PoolInv /\ IndexInv OBVIOUS
  <1>1. pciePool = NewIndexPool(0, NumPCIe) /\ pcie = [g \in SGroups |-> None] BY DEF Init
  <1>2. IsPool(pciePool) /\ Range(pciePool) = Indices
    BY <1>1, NewPool, ConstAssumption DEF Indices
  <1>3. Held = {} BY <1>1 DEF Held
  <1>4. PoolInv BY <1>1, <1>2, <1>3 DEF PoolInv
  <1>5. ASSUME NEW g \in SGroups PROVE ~HasIndex(g)
    BY DEF Init, HasIndex, Used, Listed, Range
  <1> QED BY <1>1, <1>4, <1>5 DEF IndexInv

\* Who moves a creator on.
LEMMA CreatorSteps ==
  ASSUME IInv, [Next]_vars, NEW g \in SGroups
  PROVE  \/ creator'[g] = creator[g]
         \/ creator[g] = "none" /\ creator'[g] = "start" /\ Factory
         \/ StartFreeSGroup(g) \/ NewSGroup(g) \/ AppendFreeSGroup(g)
  <1>0. creator \in [SGroups -> Procs] BY DEF IInv, GoTypes
  <1>1. CASE UNCHANGED creator BY <1>1
  <1>2. CASE Factory BY <1>0, <1>2 DEF Factory, Go, Unmade
  <1>3. ASSUME NEW x \in SGroups, StartFreeSGroup(x) \/ NewSGroup(x) \/ AppendFreeSGroup(x), x # g
        PROVE  creator'[g] = creator[g]
    BY <1>0, <1>3 DEF StartFreeSGroup, NewSGroup, AppendFreeSGroup, Go
  <1>4. CASE CommandLine
    BY <1>1, <1>4 DEF CommandLine, CreateAllFreeSGroups, CreateSched, KillSched, LockToClean,
                      DestroyAllSGroups, DestroyAllFreeSGroups, goVars
  <1>5. CASE Quit \/ SchedulerStep BY <1>1, <1>5 DEF Quit, SchedulerStep, goVars
  <1>6. ASSUME NEW x \in SGroups,
               CreateNF(x) \/ DestroySGroup(x) \/ ListSGroup(x) \/ Complete(x) \/ LeaveBarrier(x)
                 \/ DeleteManager(x) \/ EndDestroyer(x) \/ TakeFreeSGroup(x) \/ InstanceSetUp(x)
        PROVE  UNCHANGED creator
    BY <1>6 DEF CreateNF, DestroySGroup, ListSGroup, Complete, LeaveBarrier, DeleteManager,
                EndDestroyer, TakeFreeSGroup, InstanceSetUp, goVars
  <1>7. ASSUME NEW p \in dying, PodEnds(p) PROVE UNCHANGED creator BY <1>7 DEF PodEnds, goVars
  <1>8. CASE UNCHANGED vars BY <1>1, <1>8 DEF vars, goVars
  <1> QED BY <1>1, <1>2, <1>3, <1>4, <1>5, <1>6, <1>7, <1>8 DEF Next, Goroutine

\* Who moves a builder on.
LEMMA BuilderSteps ==
  ASSUME IInv, [Next]_vars, NEW g \in SGroups
  PROVE  \/ builder'[g] = builder[g]
         \/ TakeFreeSGroup(g) \/ CreateNF(g) \/ DestroySGroup(g) \/ ListSGroup(g) \/ Complete(g)
  <1>0. builder \in [SGroups -> Procs] BY DEF IInv, GoTypes
  <1>1. CASE UNCHANGED builder BY <1>1
  <1>2. CASE Factory \/ Quit \/ SchedulerStep
    BY <1>1, <1>2 DEF Factory, Quit, SchedulerStep, goVars
  <1>3. ASSUME NEW x \in SGroups, x # g,
               TakeFreeSGroup(x) \/ CreateNF(x) \/ DestroySGroup(x) \/ ListSGroup(x) \/ Complete(x)
        PROVE  builder'[g] = builder[g]
    BY <1>0, <1>3 DEF TakeFreeSGroup, CreateNF, DestroySGroup, ListSGroup, Complete, Go
  <1>4. CASE CommandLine
    BY <1>1, <1>4 DEF CommandLine, CreateAllFreeSGroups, CreateSched, KillSched, LockToClean,
                      DestroyAllSGroups, DestroyAllFreeSGroups, goVars
  <1>6. ASSUME NEW x \in SGroups,
               StartFreeSGroup(x) \/ NewSGroup(x) \/ AppendFreeSGroup(x) \/ LeaveBarrier(x)
                 \/ DeleteManager(x) \/ EndDestroyer(x) \/ InstanceSetUp(x)
        PROVE  UNCHANGED builder
    BY <1>6 DEF StartFreeSGroup, NewSGroup, AppendFreeSGroup, LeaveBarrier, DeleteManager,
                EndDestroyer, InstanceSetUp, goVars
  <1>7. ASSUME NEW p \in dying, PodEnds(p) PROVE UNCHANGED builder BY <1>7 DEF PodEnds, goVars
  <1>8. CASE UNCHANGED vars BY <1>1, <1>8 DEF vars, goVars
  <1> QED BY <1>1, <1>2, <1>3, <1>4, <1>6, <1>7, <1>8 DEF Next, Goroutine

\* Who moves a destroyer on.
LEMMA DestroyerSteps ==
  ASSUME IInv, [Next]_vars, NEW g \in SGroups
  PROVE  \/ destroyer'[g] = destroyer[g]
         \/ /\ DestroyAllFreeSGroups /\ main = "free"
            /\ g \in Range(freeSGroups) /\ destroyer'[g] = "delete"
         \/ DeleteManager(g) \/ EndDestroyer(g)
  <1>0. destroyer \in [SGroups -> Procs] BY DEF IInv, GoTypes
  <1>1. CASE UNCHANGED destroyer BY <1>1
  <1>2. CASE Factory \/ Quit \/ SchedulerStep
    BY <1>1, <1>2 DEF Factory, Quit, SchedulerStep, goVars
  <1>3. ASSUME NEW x \in SGroups, x # g, DeleteManager(x) \/ EndDestroyer(x)
        PROVE  destroyer'[g] = destroyer[g]
    BY <1>0, <1>3 DEF DeleteManager, EndDestroyer, FreeIndex, Go
  <1>4. CASE DestroyAllFreeSGroups BY <1>0, <1>4 DEF DestroyAllFreeSGroups
  <1>5. CASE CreateAllFreeSGroups \/ CreateSched \/ KillSched \/ LockToClean \/ DestroyAllSGroups
    BY <1>1, <1>5 DEF CreateAllFreeSGroups, CreateSched, KillSched, LockToClean,
                      DestroyAllSGroups, goVars
  <1>6. ASSUME NEW x \in SGroups,
               StartFreeSGroup(x) \/ NewSGroup(x) \/ AppendFreeSGroup(x) \/ LeaveBarrier(x)
                 \/ CreateNF(x) \/ DestroySGroup(x) \/ ListSGroup(x) \/ Complete(x)
                 \/ TakeFreeSGroup(x) \/ InstanceSetUp(x)
        PROVE  UNCHANGED destroyer
    BY <1>6 DEF StartFreeSGroup, NewSGroup, AppendFreeSGroup, LeaveBarrier, CreateNF, DestroySGroup,
                ListSGroup, Complete, TakeFreeSGroup, InstanceSetUp, goVars
  <1>7. ASSUME NEW p \in dying, PodEnds(p) PROVE UNCHANGED destroyer BY <1>7 DEF PodEnds, goVars
  <1>8. CASE UNCHANGED vars BY <1>1, <1>8 DEF vars, goVars
  <1> QED
    BY <1>1, <1>2, <1>3, <1>4, <1>5, <1>6, <1>7, <1>8 DEF Next, CommandLine, Goroutine

\* Who uses the pool.
LEMMA PoolSteps ==
  ASSUME [Next]_vars
  PROVE  \/ UNCHANGED poolVars
         \/ \E g \in SGroups :
               \/ StartFreeSGroup(g)
               \/ NewSGroup(g) /\ creator' = Go(creator, g, "done")
                     /\ pciePool' = Free(pciePool, pcie[g]) /\ pcie' = [pcie EXCEPT ![g] = None]
               \/ EndDestroyer(g)
  <1>1. CASE CommandLine \/ Factory \/ Quit \/ SchedulerStep
    BY <1>1 DEF CommandLine, CreateAllFreeSGroups, CreateSched, KillSched, LockToClean,
                DestroyAllSGroups, DestroyAllFreeSGroups, Factory, Quit, SchedulerStep
  <1>2. ASSUME NEW x \in SGroups,
               AppendFreeSGroup(x) \/ LeaveBarrier(x) \/ CreateNF(x) \/ DestroySGroup(x)
                 \/ ListSGroup(x) \/ Complete(x) \/ DeleteManager(x) \/ TakeFreeSGroup(x)
                 \/ InstanceSetUp(x)
        PROVE  UNCHANGED poolVars
    BY <1>2 DEF AppendFreeSGroup, LeaveBarrier, CreateNF, DestroySGroup, ListSGroup, Complete,
                DeleteManager, TakeFreeSGroup, InstanceSetUp
  <1>3. ASSUME NEW x \in SGroups, NewSGroup(x)
        PROVE  \/ UNCHANGED poolVars
               \/ /\ creator' = Go(creator, x, "done")
                  /\ pciePool' = Free(pciePool, pcie[x]) /\ pcie' = [pcie EXCEPT ![x] = None]
    BY <1>3 DEF NewSGroup
  <1>4. ASSUME NEW p \in dying, PodEnds(p) PROVE UNCHANGED poolVars BY <1>4 DEF PodEnds
  <1>5. CASE UNCHANGED vars BY <1>5 DEF vars
  <1> QED BY <1>1, <1>2, <1>3, <1>4, <1>5 DEF Next, Goroutine

\* Only StartFreeSGroup gives a SGroup an index.
LEMMA HasIndexStep ==
  ASSUME IInv, [Next]_vars, NEW g \in SGroups, HasIndex(g)'
  PROVE  HasIndex(g) \/ StartFreeSGroup(g)
  <1>0. GoTypes BY DEF IInv
  <1>1. CASE Used(g)'
    <2>1. Used(g) \/ NewSGroup(g) BY <1>1, UsedStep
    <2> QED BY <2>1 DEF HasIndex, NewSGroup, Step
  <1>2. CASE creator'[g] = "create" /\ creator[g] # "create"
    BY <1>0, <1>2, CreatorSteps DEF NewSGroup, AppendFreeSGroup, Go, GoTypes
  <1>3. CASE destroyer'[g] = "poll" /\ destroyer[g] # "poll"
    <2>1. DeleteManager(g) \/ EndDestroyer(g) BY <1>3, DestroyerSteps
    <2>2. destroyer[g] \in {"delete", "poll"}
      BY <2>1 DEF DeleteManager, EndDestroyer, FreeIndex, Step
    <2> QED BY <1>3, <2>2 DEF HasIndex, Used
  <1> QED BY <1>1, <1>2, <1>3 DEF HasIndex

\* Every step.
LEMMA IndexStep ==
  IInv /\ LoopInv /\ PoolInv /\ IndexInv /\ [Next]_vars => PoolInv' /\ IndexInv'
  <1> SUFFICES ASSUME IInv, LoopInv, PoolInv, IndexInv, [Next]_vars PROVE PoolInv' /\ IndexInv'
    OBVIOUS
  <1>0. ListedInv /\ HandsInv /\ GoTypes BY DEF IInv
  <1>c. \A g \in SGroups :
           creator'[g] \in {"none", "start"} => creator[g] \in {"none", "start"}
    BY <1>0, CreatorSteps DEF StartFreeSGroup, NewSGroup, AppendFreeSGroup, Step, Go, GoTypes
  <1>1. CASE UNCHANGED poolVars
    <2>1. PoolInv' BY <1>1 DEF PoolInv, Held, poolVars
    <2>2. ASSUME NEW g \in SGroups, HasIndex(g)' PROVE pcie'[g] # None
      <3>1. HasIndex(g) \/ StartFreeSGroup(g) BY <2>2, HasIndexStep
      <3>2. CASE HasIndex(g) BY <1>1, <3>2 DEF IndexInv, poolVars
      <3>3. CASE StartFreeSGroup(g)
        <4>1. pcie[g] = None /\ pciePool # <<>>
          BY <3>3, NeverEmpty DEF StartFreeSGroup, Step, IndexInv
        <4> QED BY <3>3, <4>1, PoolGives DEF StartFreeSGroup
      <3> QED BY <3>1, <3>2, <3>3
    <2> QED BY <1>1, <1>c, <2>1, <2>2 DEF IndexInv, poolVars
  <1>2. ASSUME NEW g \in SGroups, StartFreeSGroup(g) PROVE PoolInv' /\ IndexInv'
    <2>1. creator[g] = "start" /\ creator' = [creator EXCEPT ![g] = "create"]
      BY <1>2 DEF StartFreeSGroup, Step, Go
    <2>2. pcie[g] = None /\ pciePool # <<>> BY <2>1, NeverEmpty DEF IndexInv
    <2>3. /\ pcie' = [pcie EXCEPT ![g] = NextAvailable(pciePool)]
          /\ pciePool' = AfterGet(pciePool)
      BY <1>2 DEF StartFreeSGroup
    <2>4. PoolInv' /\ pcie'[g] # None BY <2>2, <2>3, PoolGives
    <2>5. creator'[g] = "create" BY <1>0, <2>1 DEF GoTypes
    <2>6. \A h \in SGroups : h # g => pcie'[h] = pcie[h] BY <2>3 DEF PoolInv
    <2>7. ASSUME NEW h \in SGroups, HasIndex(h)', h # g PROVE HasIndex(h)
      <3>1. ~StartFreeSGroup(h) BY <1>0, <2>1, <2>7 DEF StartFreeSGroup, Step, Go, GoTypes
      <3> QED BY <2>7, <3>1, HasIndexStep
    <2> QED BY <1>c, <2>4, <2>5, <2>6, <2>7 DEF IndexInv
  \* Both who give an index back had it, and have done with the SGroup.
  <1>3. ASSUME NEW g \in SGroups, HasIndex(g), ~HasIndex(g)',
               creator'[g] \notin {"none", "start"}, creator'[g] = creator[g] \/ creator'[g] = "done",
               \A h \in SGroups : ~StartFreeSGroup(h),
               pciePool' = Free(pciePool, pcie[g]), pcie' = [pcie EXCEPT ![g] = None]
        PROVE  PoolInv' /\ IndexInv'
    <2>1. pcie[g] # None BY <1>3 DEF IndexInv
    <2>2. PoolInv' BY <1>3, <2>1, PoolTakes
    <2>3. \A h \in SGroups : h # g => pcie'[h] = pcie[h] BY <1>3 DEF PoolInv
    <2>4. \A h \in SGroups : HasIndex(h)' => HasIndex(h) /\ h # g BY <1>3, HasIndexStep
    <2> QED BY <1>3, <1>c, <2>2, <2>3, <2>4 DEF IndexInv
  <1>4. ASSUME NEW g \in SGroups, NewSGroup(g), creator' = Go(creator, g, "done"),
               pciePool' = Free(pciePool, pcie[g]), pcie' = [pcie EXCEPT ![g] = None]
        PROVE  PoolInv' /\ IndexInv'
    <2>1. creator[g] = "create" /\ UNCHANGED <<listVars, builder, destroyer>>
      BY <1>4 DEF NewSGroup, Step
    <2>2. creator'[g] = "done" BY <1>0, <1>4 DEF Go, GoTypes
    <2>3. ~Listed(g)' /\ builder'[g] = "none" /\ destroyer'[g] = "none"
      BY <1>0, <2>1 DEF ListedInv, HandsInv, Listed, listVars
    <2>4. HasIndex(g) /\ ~HasIndex(g)' BY <2>1, <2>2, <2>3 DEF HasIndex, Used
    <2>5. ASSUME NEW h \in SGroups, StartFreeSGroup(h) PROVE FALSE
      BY <1>0, <1>4, <2>1, <2>2, <2>5 DEF StartFreeSGroup, Step, Go, GoTypes
    <2> QED BY <1>3, <1>4, <2>2, <2>4, <2>5
  <1>5. ASSUME NEW g \in SGroups, EndDestroyer(g) PROVE PoolInv' /\ IndexInv'
    <2>1. /\ destroyer[g] = "poll" /\ destroyer' = [destroyer EXCEPT ![g] = "done"]
          /\ UNCHANGED <<listVars, creator, builder>>
          /\ pciePool' = Free(pciePool, pcie[g]) /\ pcie' = [pcie EXCEPT ![g] = None]
      BY <1>5 DEF EndDestroyer, FreeIndex, Step, Go
    <2>2. destroyer'[g] = "done" BY <1>0, <2>1 DEF GoTypes
    <2>3. /\ ~Listed(g)' /\ creator'[g] = "done"
          /\ builder'[g] \notin {"create", "list", "undo"}
      BY <1>0, <2>1 DEF ListedInv, HandsInv, Listed, listVars
    <2>4. HasIndex(g) /\ ~HasIndex(g)' BY <2>1, <2>2, <2>3 DEF HasIndex, Used
    <2>5. ASSUME NEW h \in SGroups, StartFreeSGroup(h) PROVE FALSE
      BY <1>0, <2>1, <2>5 DEF StartFreeSGroup, Step, Go, GoTypes
    <2> QED BY <1>3, <2>1, <2>3, <2>4, <2>5
  <1> QED BY <1>1, <1>2, <1>4, <1>5, PoolSteps


-----------------------------------------------------------------------------
(* What Kubernetes keeps while it refuses nothing. *)

\* The deployments there may be.
PodNames ==
    pods \subseteq {Pod("prim", g) : g \in SGroups} \cup {Pod("nf", g) : g \in SGroups}
                       \cup {Pod("sched", None)}

\* Close has waited for every destroyer.
Joined == main = "closed" => \A g \in SGroups : destroyer[g] \in {"none", "done"}

\* A manager's pod runs under an index its SGroup still has.
DeviceInv ==
    failures = 0 /\ ~impatient =>
        \A g \in SGroups : Pod("prim", g) \in pods => pcie[g] # None

\* A SGroup that is made is in a list or in somebody's hands, and its pods and its
\* index are where those who have to delete them look.
Tracked(g) ==
    /\ creator[g] = "done" =>
           Listed(g) \/ builder[g] \in {"create", "list", "undo"} \/ destroyer[g] # "none"
    /\ creator[g] \in {"none", "start", "create"} => Pod("prim", g) \notin pods
    /\ destroyer[g] \in {"poll", "done"} => ~Exists(Pod("prim", g))
    /\ destroyer[g] = "done" => pcie[g] = None
    /\ Exists(Pod("nf", g)) => hasIns[g]
    /\ hasIns[g] => builder[g] = "list" \/ g \in Range(sgroups)

CleanInv ==
    failures = 0 =>
        /\ Exists(Pod("sched", None)) => main \in {"cli", "wait"}
        /\ \A g \in SGroups : Tracked(g)

\* The steps that move the command line on.
LEMMA MainSteps ==
  ASSUME [Next]_vars
  PROVE  \/ main' = main
         \/ CreateAllFreeSGroups \/ CreateSched \/ Quit \/ KillSched \/ LockToClean
         \/ DestroyAllSGroups /\ main = "reset" /\ main' = "free"
         \/ DestroyAllFreeSGroups /\ main = "free" /\ main' = "join"
         \/ DestroyAllFreeSGroups /\ main = "join" /\ main' = "closed"
                /\ UNCHANGED destroyer
                /\ \A g \in SGroups : destroyer[g] \in {"none", "done"}
  <1>1. CASE DestroyAllSGroups BY <1>1 DEF DestroyAllSGroups, DestroyLast
  <1>2. CASE DestroyAllFreeSGroups BY <1>2 DEF DestroyAllFreeSGroups
  <1>3. CASE Factory \/ SchedulerStep BY <1>3 DEF Factory, SchedulerStep
  <1>4. ASSUME NEW x \in SGroups, Goroutine(x) \/ TakeFreeSGroup(x) \/ InstanceSetUp(x)
        PROVE  main' = main
    BY <1>4 DEF Goroutine, StartFreeSGroup, NewSGroup, AppendFreeSGroup, LeaveBarrier, CreateNF,
                DestroySGroup, ListSGroup, Complete, DeleteManager, EndDestroyer, TakeFreeSGroup,
                InstanceSetUp
  <1>5. ASSUME NEW p \in dying, PodEnds(p) PROVE main' = main BY <1>5 DEF PodEnds
  <1>6. CASE UNCHANGED vars BY <1>6 DEF vars
  <1> QED BY <1>1, <1>2, <1>3, <1>4, <1>5, <1>6 DEF Next, CommandLine

\* A deployment p is new.
Born(p) == p \in pods' \ pods \/ (Exists(p)' /\ ~Exists(p))

\* A call that creates p creates nothing else.
LEMMA CallBears ==
  ASSUME NEW p, Created(p) \/ NotCreated(p) \/ Refused, NEW q, Born(q)
  PROVE  q = p
  <1>1. \/ UNCHANGED <<pods, dying>>
        \/ pods' = pods \cup {p} /\ dying' = dying \ {p}
    BY DEF Created, NotCreated, Refused, k8sVars
  <1> QED BY <1>1 DEF Born, Exists

\* The steps that make a deployment.
LEMMA BornSteps ==
  ASSUME PodsInv, [Next]_vars, NEW q, Born(q)
  PROVE  \/ \E g \in SGroups : NewSGroup(g) /\ q = Pod("prim", g)
         \/ \E g \in SGroups : CreateNF(g) /\ q = Pod("nf", g)
         \/ CreateSched /\ q = Pod("sched", None)
  <1>1. ASSUME pods' = pods, dying \subseteq dying' PROVE FALSE BY <1>1 DEF Born, Exists
  <1>2. ASSUME NEW p, Deleted(p) \/ Refused \/ UNCHANGED k8sVars PROVE FALSE
    BY <1>1, <1>2 DEF Deleted, Refused, k8sVars
  <1>3. CASE CreateSched BY <1>3, CallBears DEF CreateSched
  <1>4. ASSUME NEW g \in SGroups, NewSGroup(g) PROVE q = Pod("prim", g)
    BY <1>4, CallBears DEF NewSGroup
  <1>5. ASSUME NEW g \in SGroups, CreateNF(g) PROVE q = Pod("nf", g)
    BY <1>5, CallBears DEF CreateNF
  <1>6. ASSUME KillSched PROVE FALSE BY <1>2, <1>6 DEF KillSched
  <1>7. ASSUME DestroyAllSGroups PROVE FALSE
    BY <1>2, <1>7 DEF DestroyAllSGroups, DestroyLast, Reset
  <1>8. ASSUME NEW g \in SGroups, DeleteManager(g) PROVE FALSE BY <1>2, <1>8 DEF DeleteManager
  <1>9. ASSUME CreateAllFreeSGroups \/ LockToClean \/ DestroyAllFreeSGroups \/ Quit \/ Factory
                 \/ SchedulerStep
        PROVE  FALSE
    BY <1>2, <1>9 DEF CreateAllFreeSGroups, LockToClean, DestroyAllFreeSGroups, Quit, Factory,
                      SchedulerStep
  <1>10. ASSUME NEW g \in SGroups,
                StartFreeSGroup(g) \/ AppendFreeSGroup(g) \/ LeaveBarrier(g) \/ DestroySGroup(g)
                  \/ ListSGroup(g) \/ Complete(g) \/ TakeFreeSGroup(g) \/ InstanceSetUp(g)
         PROVE  FALSE
    BY <1>2, <1>10 DEF StartFreeSGroup, AppendFreeSGroup, LeaveBarrier, DestroySGroup, ListSGroup,
                       Complete, TakeFreeSGroup, InstanceSetUp
  <1>11. ASSUME NEW g \in SGroups, EndDestroyer(g) PROVE FALSE BY <1>1, <1>11 DEF EndDestroyer
  <1>12. ASSUME NEW p \in dying, PodEnds(p) PROVE FALSE
    <2>1. pods' = pods \ {p} /\ dying' = dying \ {p} BY <1>12 DEF PodEnds
    <2> QED BY <2>1 DEF Born, Exists
  <1>13. CASE UNCHANGED vars BY <1>2, <1>13 DEF vars
  <1> QED
    BY <1>3, <1>4, <1>5, <1>6, <1>7, <1>8, <1>9, <1>10, <1>11, <1>12, <1>13
    DEF Next, CommandLine, Goroutine

\* Failures are counted, and so are polls that gave up.
LEMMA CountSteps ==
  ASSUME PlainTypes, [Next]_vars
  PROVE  /\ failures' = failures \/ failures' = failures + 1
         /\ failures' = 0 => failures = 0 /\ ~Refused
         /\ impatient => impatient'
  <1>0. failures \in Nat BY DEF PlainTypes
  <1>1. ASSUME NEW p, Created(p) \/ NotCreated(p) \/ Refused \/ Deleted(p) \/ UNCHANGED k8sVars
        PROVE  (failures' = failures \/ failures' = failures + 1) /\ impatient' = impatient
    BY <1>1 DEF Created, NotCreated, Refused, Deleted, k8sVars
  <1>2. ASSUME CommandLine
        PROVE  (failures' = failures \/ failures' = failures + 1) /\ impatient' = impatient
    BY <1>1, <1>2 DEF CommandLine, CreateAllFreeSGroups, CreateSched, KillSched, LockToClean,
                      DestroyAllSGroups, DestroyLast, Reset, DestroyAllFreeSGroups
  <1>3. ASSUME Quit \/ Factory \/ SchedulerStep
        PROVE  (failures' = failures \/ failures' = failures + 1) /\ impatient' = impatient
    BY <1>1, <1>3 DEF Quit, Factory, SchedulerStep
  <1>4. ASSUME NEW g \in SGroups, NewSGroup(g) \/ CreateNF(g) \/ DeleteManager(g)
        PROVE  (failures' = failures \/ failures' = failures + 1) /\ impatient' = impatient
    BY <1>1, <1>4 DEF NewSGroup, CreateNF, DeleteManager
  <1>5. ASSUME NEW g \in SGroups,
               StartFreeSGroup(g) \/ AppendFreeSGroup(g) \/ LeaveBarrier(g) \/ DestroySGroup(g)
                 \/ ListSGroup(g) \/ Complete(g) \/ TakeFreeSGroup(g) \/ InstanceSetUp(g)
        PROVE  (failures' = failures \/ failures' = failures + 1) /\ impatient' = impatient
    BY <1>1, <1>5 DEF StartFreeSGroup, AppendFreeSGroup, LeaveBarrier, DestroySGroup, ListSGroup,
                      Complete, TakeFreeSGroup, InstanceSetUp
  <1>6. ASSUME NEW g \in SGroups, EndDestroyer(g)
        PROVE  failures' = failures /\ (impatient => impatient')
    BY <1>6 DEF EndDestroyer, FreeIndex
  <1>7. ASSUME NEW p \in dying, PodEnds(p) PROVE failures' = failures /\ impatient' = impatient
    BY <1>7 DEF PodEnds
  <1>8. ASSUME UNCHANGED vars
        PROVE  (failures' = failures \/ failures' = failures + 1) /\ impatient' = impatient
    BY <1>1, <1>8 DEF vars
  <1>9. (failures' = failures \/ failures' = failures + 1) /\ (impatient => impatient')
    BY <1>2, <1>3, <1>4, <1>5, <1>6, <1>7, <1>8 DEF Next, Goroutine
  <1> QED BY <1>0, <1>9 DEF Refused

\* The steps that forget an instance or remember one.
LEMMA HasInsSteps ==
  ASSUME IInv, PlainTypes, [Next]_vars, NEW g \in SGroups
  PROVE  \/ hasIns'[g] = hasIns[g]
         \/ CreateNF(g) /\ builder' = Go(builder, g, "list") /\ hasIns'[g]
         \/ DestroyLast /\ Reset(g) /\ ~hasIns'[g] /\ UNCHANGED goVars
  <1>0. hasIns \in [SGroups -> BOOLEAN] BY DEF PlainTypes, Flags
  <1>1. CASE UNCHANGED hasIns BY <1>1
  <1>2. ASSUME NEW x \in SGroups, CreateNF(x)
        PROVE  \/ hasIns'[g] = hasIns[g]
               \/ CreateNF(g) /\ builder' = Go(builder, g, "list") /\ hasIns'[g]
    BY <1>0, <1>2 DEF CreateNF
  <1>3. CASE DestroyAllSGroups
    <2>1. UNCHANGED goVars /\ (DestroyLast \/ UNCHANGED hasIns)
      BY <1>3 DEF DestroyAllSGroups
    <2>2. CASE DestroyLast
      <3>1. PICK x \in SGroups : Reset(x) BY <2>2, DestroyLastMoves
      <3>2. hasIns' = [hasIns EXCEPT ![x] = FALSE] BY <3>1 DEF Reset
      <3>3. CASE x = g BY <1>0, <2>1, <2>2, <3>1, <3>2, <3>3
      <3>4. CASE x # g BY <1>0, <3>2, <3>4
      <3> QED BY <3>3, <3>4
    <2> QED BY <1>1, <2>1, <2>2
  <1>4. CASE CreateAllFreeSGroups \/ CreateSched \/ KillSched \/ LockToClean
               \/ DestroyAllFreeSGroups \/ Quit \/ Factory \/ SchedulerStep
    BY <1>1, <1>4 DEF CreateAllFreeSGroups, CreateSched, KillSched, LockToClean,
                      DestroyAllFreeSGroups, Quit, Factory, SchedulerStep, chainVars
  <1>5. ASSUME NEW x \in SGroups,
               StartFreeSGroup(x) \/ NewSGroup(x) \/ AppendFreeSGroup(x) \/ LeaveBarrier(x)
                 \/ DestroySGroup(x) \/ ListSGroup(x) \/ Complete(x) \/ DeleteManager(x)
                 \/ EndDestroyer(x) \/ TakeFreeSGroup(x) \/ InstanceSetUp(x)
        PROVE  UNCHANGED hasIns
    BY <1>5 DEF StartFreeSGroup, NewSGroup, AppendFreeSGroup, LeaveBarrier, DestroySGroup,
                ListSGroup, Complete, DeleteManager, EndDestroyer, TakeFreeSGroup, InstanceSetUp,
                Preprocess, chainVars
  <1>6. ASSUME NEW p \in dying, PodEnds(p) PROVE UNCHANGED hasIns BY <1>6 DEF PodEnds, chainVars
  <1>7. CASE UNCHANGED vars BY <1>1, <1>7 DEF vars, chainVars
  <1> QED BY <1>1, <1>2, <1>3, <1>4, <1>5, <1>6, <1>7 DEF Next, CommandLine, Goroutine

\* A SGroup that is listed stays in the list it is in, or is in the other.
StaysListed(g) ==
    /\ Listed(g) => Listed(g)'
    /\ g \in Range(sgroups) => g \in Range(sgroups)'

\* The steps that take a SGroup out of a list.
LEMMA UnlistSteps ==
  ASSUME IInv, [Next]_vars, NEW g \in SGroups
  PROVE  /\ Listed(g) => Listed(g)' \/ TakeFreeSGroup(g) \/ destroyer'[g] = "delete"
         /\ g \in Range(sgroups) => g \in Range(sgroups)' \/ (DestroyLast /\ Reset(g))
  <1>1. ASSUME UNCHANGED listVars PROVE StaysListed(g)
    <2>1. Range(freeSGroups)' = Range(freeSGroups) /\ Range(sgroups)' = Range(sgroups)
      BY <1>1 DEF listVars
    <2> QED BY <2>1 DEF StaysListed, Listed
  <1>2. ASSUME NEW x \in SGroups, AppendFreeSGroup(x) \/ DestroySGroup(x)
        PROVE  FreeGains(x) /\ UNCHANGED sgroups
    BY <1>2, ListSteps
  <1>3. ASSUME NEW x \in SGroups, TakeFreeSGroup(x) PROVE FreeLoses(x) /\ UNCHANGED sgroups
    BY <1>3, ListSteps
  <1>4. ASSUME NEW x \in SGroups, ListSGroup(x)
        PROVE  Range(sgroups)' = Range(sgroups) \cup {x} /\ UNCHANGED freeSGroups
    BY <1>4, ListSteps
  <1>5. CASE DestroyAllSGroups
    <2>1. CASE DestroyLast
      <3>1. PICK x \in SGroups : Reset(x) /\ FreeGains(x) /\ Range(sgroups)' = Range(sgroups) \ {x}
        BY <2>1, DestroyLastMoves
      <3>2. CASE x = g
        <4>1. Listed(g)' BY <3>1, <3>2 DEF Listed, FreeGains
        <4> QED BY <2>1, <3>1, <3>2, <4>1
      <3>3. CASE x # g
        <4>1. StaysListed(g) BY <3>1, <3>3 DEF StaysListed, Listed, FreeGains
        <4> QED BY <4>1 DEF StaysListed
      <3> QED BY <3>2, <3>3
    <2> QED BY <1>1, <1>5, <2>1 DEF DestroyAllSGroups, StaysListed
  <1>6. CASE DestroyAllFreeSGroups
    <2>1. CASE main = "free"
      <3>1. /\ UNCHANGED sgroups
            /\ g \in Range(freeSGroups) => destroyer'[g] = "delete"
        BY <1>6, <2>1 DEF DestroyAllFreeSGroups
      <3>2. Range(sgroups)' = Range(sgroups) BY <3>1
      <3> QED BY <3>1, <3>2 DEF Listed
    <2>2. CASE main # "free" BY <1>1, <1>6, <2>2 DEF DestroyAllFreeSGroups, StaysListed, listVars
    <2> QED BY <2>1, <2>2
  <1>7. CASE CreateAllFreeSGroups \/ CreateSched \/ KillSched \/ LockToClean \/ Quit \/ Factory
               \/ SchedulerStep
    BY <1>1, <1>7 DEF CreateAllFreeSGroups, CreateSched, KillSched, LockToClean, Quit, Factory,
                      SchedulerStep, StaysListed
  <1>8. ASSUME NEW x \in SGroups,
               StartFreeSGroup(x) \/ NewSGroup(x) \/ LeaveBarrier(x) \/ Complete(x)
                 \/ CreateNF(x) \/ DeleteManager(x) \/ EndDestroyer(x) \/ InstanceSetUp(x)
        PROVE  UNCHANGED listVars
    BY <1>8 DEF StartFreeSGroup, NewSGroup, LeaveBarrier, CreateNF, Complete, DeleteManager,
                EndDestroyer, InstanceSetUp
  <1>9. ASSUME NEW p \in dying, PodEnds(p) PROVE UNCHANGED listVars BY <1>9 DEF PodEnds
  <1>10. CASE UNCHANGED vars BY <1>1, <1>10 DEF vars, StaysListed
  <1>11. ASSUME NEW x \in SGroups,
                AppendFreeSGroup(x) \/ DestroySGroup(x) \/ TakeFreeSGroup(x) \/ ListSGroup(x)
         PROVE  StaysListed(g) \/ (TakeFreeSGroup(g) /\ UNCHANGED sgroups)
    <2>1. CASE AppendFreeSGroup(x) \/ DestroySGroup(x)
      <3>1. FreeGains(x) /\ Range(sgroups)' = Range(sgroups) BY <1>2, <2>1
      <3> QED BY <3>1 DEF StaysListed, Listed, FreeGains
    <2>2. CASE TakeFreeSGroup(x)
      <3>1. FreeLoses(x) /\ sgroups' = sgroups /\ Range(sgroups)' = Range(sgroups)
        BY <1>3, <2>2
      <3>2. CASE x = g BY <2>2, <3>1, <3>2
      <3>3. CASE x # g
        <4>1. StaysListed(g) BY <3>1, <3>3 DEF StaysListed, Listed, FreeLoses
        <4> QED BY <4>1
      <3> QED BY <3>2, <3>3
    <2>3. CASE ListSGroup(x)
      <3>1. Range(sgroups)' = Range(sgroups) \cup {x} /\ Range(freeSGroups)' = Range(freeSGroups)
        BY <1>4, <2>3
      <3> QED BY <3>1 DEF StaysListed, Listed
    <2> QED BY <1>11, <2>1, <2>2, <2>3
  <1>12. StaysListed(g) =>
            /\ Listed(g) => Listed(g)' \/ TakeFreeSGroup(g) \/ destroyer'[g] = "delete"
            /\ g \in Range(sgroups) => g \in Range(sgroups)' \/ (DestroyLast /\ Reset(g))
    BY DEF StaysListed
  <1>13. ASSUME TakeFreeSGroup(g), UNCHANGED sgroups
         PROVE  /\ Listed(g) => Listed(g)' \/ TakeFreeSGroup(g) \/ destroyer'[g] = "delete"
                /\ g \in Range(sgroups) => g \in Range(sgroups)' \/ (DestroyLast /\ Reset(g))
    <2>1. Range(sgroups)' = Range(sgroups) BY <1>13
    <2> QED BY <1>13, <2>1
  <1> QED
    BY <1>1, <1>5, <1>6, <1>7, <1>8, <1>9, <1>10, <1>11, <1>12, <1>13 DEF Next, CommandLine, Goroutine

\* A new worker has no pods.
LEMMA CleanInit == Init => PodNames /\ Joined /\ DeviceInv /\ CleanInv
  <1> SUFFICES ASSUME Init PROVE PodNames /\ Joined /\ DeviceInv /\ CleanInv OBVIOUS
  <1>1. pods = {} /\ main = "start" BY DEF Init
  <1>2. ASSUME NEW g \in SGroups PROVE Tracked(g) BY DEF Init, Tracked, Exists
  <1> QED BY <1>1, <1>2 DEF PodNames, Joined, DeviceInv, CleanInv, Exists

\* Every step names its pods, and Close ends after its destroyers.
LEMMA NamesStep ==
  IInv /\ PodsInv /\ PodNames /\ Joined /\ [Next]_vars => PodNames' /\ Joined'
  <1> SUFFICES ASSUME IInv, PodsInv, PodNames, Joined, [Next]_vars PROVE PodNames' /\ Joined'
    OBVIOUS
  <1>1. PodNames'
    <2>1. ASSUME NEW q \in pods'
          PROVE  q \in {Pod("prim", g) : g \in SGroups} \cup {Pod("nf", g) : g \in SGroups}
                           \cup {Pod("sched", None)}
      <3>1. CASE q \in pods BY <3>1 DEF PodNames
      <3>2. CASE q \notin pods
        <4>1. Born(q) BY <3>2 DEF Born, Exists
        <4> QED BY <4>1, BornSteps
      <3> QED BY <3>1, <3>2
    <2> QED BY <2>1 DEF PodNames, Pod
  <1>2. Joined'
    <2>1. CASE main = "closed"
      <3>1. UNCHANGED vars BY <2>1 DEF Next
      <3> QED BY <2>1, <3>1 DEF Joined, vars, goVars
    <2>2. CASE main # "closed" /\ main' = "closed"
      <3>1. UNCHANGED destroyer /\ \A g \in SGroups : destroyer[g] \in {"none", "done"}
        BY <2>2, MainSteps
           DEF CreateAllFreeSGroups, CreateSched, Quit, KillSched, LockToClean
      <3> QED BY <3>1 DEF Joined
    <2> QED BY <2>1, <2>2 DEF Joined
  <1> QED BY <1>1, <1>2

\* Every step keeps the index of a pod that runs.
LEMMA DeviceStep ==
  IInv /\ PlainTypes /\ PodsInv /\ PoolInv /\ IndexInv /\ CleanInv /\ DeviceInv /\ [Next]_vars
    => DeviceInv'
  <1> SUFFICES ASSUME IInv, PlainTypes, PodsInv, PoolInv, IndexInv, CleanInv, DeviceInv,
                      [Next]_vars, failures' = 0, ~impatient',
                      NEW g \in SGroups, Pod("prim", g) \in pods'
               PROVE  pcie'[g] # None
    BY DEF DeviceInv, Pod
  <1>0. failures = 0 /\ ~impatient BY CountSteps
  <1>p. \A x, y \in SGroups : Pod("prim", x) = Pod("prim", y) => x = y BY DEF Pod
  <1>1. pcie[g] # None
    <2>1. CASE Pod("prim", g) \in pods BY <1>0, <2>1 DEF DeviceInv
    <2>2. CASE Pod("prim", g) \notin pods
      <3>1. Born(Pod("prim", g)) BY <2>2 DEF Born, Exists
      <3>2. NewSGroup(g) BY <1>p, <3>1, BornSteps DEF Pod
      <3> QED BY <3>2 DEF NewSGroup, Step, HasIndex, IndexInv
    <2> QED BY <2>1, <2>2
  <1>2. pcie \in [SGroups -> Indices \cup {None}] BY DEF PoolInv
  <1>3. ASSUME NEW x \in SGroups, StartFreeSGroup(x) PROVE pcie'[g] = pcie[g]
    <2>1. creator[x] = "start" /\ pcie' = [pcie EXCEPT ![x] = NextAvailable(pciePool)]
      BY <1>3 DEF StartFreeSGroup, Step
    <2>2. x # g BY <1>1, <2>1 DEF IndexInv
    <2> QED BY <1>2, <2>1, <2>2
  \* Who gives an index back has seen that the pod is gone, or has not made it.
  <1>4. ASSUME NEW x \in SGroups, NewSGroup(x), pcie' = [pcie EXCEPT ![x] = None],
               creator' = Go(creator, x, "done")
        PROVE  x # g
    <2>1. creator[x] = "create" /\ creator'[x] = "done"
      BY <1>4 DEF NewSGroup, Step, Go, IInv, GoTypes
    <2>2. NotCreated(Pod("prim", x)) \/ (creator' = Go(creator, x, "append"))
      BY <1>4 DEF NewSGroup
    <2>3. creator' # Go(creator, x, "append") BY <2>1 DEF Go, IInv, GoTypes
    <2>4. Pod("prim", x) \notin pods BY <1>0, <2>1 DEF CleanInv, Tracked
    <2>5. UNCHANGED <<pods, dying>>
      BY <1>0, <2>2, <2>3 DEF NotCreated, Refused, k8sVars
    <2> QED BY <2>4, <2>5
  <1>5. ASSUME NEW x \in SGroups, EndDestroyer(x)
        PROVE  x # g /\ pcie' = [pcie EXCEPT ![x] = None]
    BY <1>5 DEF EndDestroyer, FreeIndex, NotExist
  <1>6. \/ UNCHANGED pcie
        \/ \E x \in SGroups : (x # g /\ pcie' = [pcie EXCEPT ![x] = None]) \/ StartFreeSGroup(x)
    BY <1>4, <1>5, PoolSteps DEF poolVars
  <1> QED BY <1>1, <1>2, <1>3, <1>6

\* Every step hands on what Close has to find.
LEMMA CleanStep ==
  IInv /\ PlainTypes /\ PodsInv /\ PoolInv /\ CleanInv /\ [Next]_vars => CleanInv'
  <1> SUFFICES ASSUME IInv, PlainTypes, PodsInv, PoolInv, CleanInv, [Next]_vars, failures' = 0
               PROVE  /\ Exists(Pod("sched", None))' => main' \in {"cli", "wait"}
                      /\ \A g \in SGroups : Tracked(g)'
    BY DEF CleanInv, Pod
  <1>0. ListedInv /\ HandsInv /\ GoTypes BY DEF IInv
  <1>p. \A k, l, x, y : Pod(k, x) = Pod(l, y) <=> k = l /\ x = y BY DEF Pod
  <1>f. failures = 0 /\ ~Refused BY CountSteps
  <1>n. \A p : NotCreated(p) => Exists(p) /\ UNCHANGED k8sVars BY <1>f DEF NotCreated
  <1>1. ASSUME Exists(Pod("sched", None))' PROVE main' \in {"cli", "wait"}
    <2>1. CASE Exists(Pod("sched", None))
      <3>1. main \in {"cli", "wait"} BY <1>f, <2>1 DEF CleanInv
      <3>2. ~KillSched
        <4>1. KillSched => Deleted(Pod("sched", None)) BY <1>f, <2>1 DEF KillSched, Exists
        <4> QED BY <1>1, <4>1 DEF Deleted, Exists
      <3> QED BY <3>1, <3>2, MainSteps DEF CreateAllFreeSGroups, CreateSched, Quit, LockToClean
    <2>2. CASE ~Exists(Pod("sched", None))
      <3>1. Born(Pod("sched", None)) BY <1>1, <2>2 DEF Born
      <3>2. CreateSched BY <1>p, <3>1, BornSteps
      <3> QED BY <3>2 DEF CreateSched
    <2> QED BY <2>1, <2>2
  <1>2. ASSUME NEW g \in SGroups PROVE Tracked(g)'
    <2>0. Tracked(g) BY <1>f DEF CleanInv
    <2>1. ASSUME creator'[g] = "done"
          PROVE  Listed(g)' \/ builder'[g] \in {"create", "list", "undo"} \/ destroyer'[g] # "none"
      <3>1. CASE destroyer[g] # "none"
        BY <1>0, <3>1, DestroyerSteps DEF DeleteManager, EndDestroyer, FreeIndex, Go, GoTypes
      <3>2. CASE builder[g] \in {"create", "list", "undo"}
        <4>1. DestroySGroup(g) => Listed(g)' BY ListSteps DEF FreeGains, Listed
        <4>2. ListSGroup(g) => Listed(g)' BY ListSteps DEF Listed
        <4>3. CreateNF(g) => builder'[g] \in {"list", "undo"} BY <1>0 DEF CreateNF, Go, GoTypes
        <4>4. ~TakeFreeSGroup(g) /\ ~Complete(g) BY <3>2 DEF TakeFreeSGroup, Complete, Step
        <4> QED BY <3>2, <4>1, <4>2, <4>3, <4>4, BuilderSteps
      <3>3. CASE Listed(g)
        <4>1. TakeFreeSGroup(g) => builder'[g] = "create"
          BY <1>0 DEF TakeFreeSGroup, Go, GoTypes
        <4> QED BY <3>3, <4>1, UnlistSteps
      <3>4. CASE creator[g] # "done"
        <4>1. AppendFreeSGroup(g) => Listed(g)' BY ListSteps DEF FreeGains, Listed
        <4>2. ASSUME NewSGroup(g) PROVE FALSE
          <5>1. creator[g] = "create" /\ (creator' = Go(creator, g, "append") \/ NotCreated(Pod("prim", g)))
            BY <4>2 DEF NewSGroup, Step
          <5>2. creator' # Go(creator, g, "append") BY <1>0, <2>1 DEF Go, GoTypes
          <5>3. Exists(Pod("prim", g)) BY <1>n, <5>1, <5>2
          <5> QED BY <2>0, <5>1, <5>3 DEF Tracked, Exists
        <4>3. ~StartFreeSGroup(g) BY <1>0, <2>1 DEF StartFreeSGroup, Go, GoTypes
        <4> QED BY <2>1, <3>4, <4>1, <4>2, <4>3, CreatorSteps
      <3> QED BY <2>0, <3>1, <3>2, <3>3, <3>4 DEF Tracked
    <2>2. ASSUME creator'[g] \in {"none", "start", "create"}, Pod("prim", g) \in pods' PROVE FALSE
      <3>1. creator[g] \in {"none", "start", "create"}
        BY <1>0, <2>2, CreatorSteps
           DEF StartFreeSGroup, NewSGroup, AppendFreeSGroup, Step, Go, GoTypes
      <3>2. Born(Pod("prim", g)) BY <2>0, <2>2, <3>1 DEF Tracked, Born, Exists
      <3>3. NewSGroup(g) BY <1>p, <3>2, BornSteps
      <3>4. creator'[g] \in {"append", "done"} BY <1>0, <3>3 DEF NewSGroup, Go, GoTypes
      <3> QED BY <2>2, <3>4
    <2>3. ASSUME destroyer'[g] \in {"poll", "done"}, Exists(Pod("prim", g))' PROVE FALSE
      <3>1. CASE destroyer[g] \in {"poll", "done"}
        <4>1. Born(Pod("prim", g)) BY <2>0, <2>3, <3>1 DEF Tracked, Born
        <4>2. NewSGroup(g) BY <1>p, <4>1, BornSteps
        <4> QED BY <1>0, <3>1, <4>2 DEF NewSGroup, Step, HandsInv
      <3>2. CASE destroyer[g] \notin {"poll", "done"}
        <4>1. DeleteManager(g) BY <2>3, <3>2, DestroyerSteps DEF EndDestroyer, FreeIndex, Step
        <4>2. Deleted(Pod("prim", g)) BY <1>f, <4>1 DEF DeleteManager
        <4> QED BY <2>3, <4>2 DEF Deleted, Exists
      <3> QED BY <3>1, <3>2
    <2>4. ASSUME destroyer'[g] = "done" PROVE pcie'[g] = None
      <3>0. pcie \in [SGroups -> Indices \cup {None}] BY DEF PoolInv
      <3>1. CASE destroyer[g] = "done"
        <4>1. pcie[g] = None /\ creator[g] = "done" BY <1>0, <2>0, <3>1 DEF Tracked, HandsInv
        <4>2. ASSUME NEW x \in SGroups, StartFreeSGroup(x) PROVE pcie'[g] = pcie[g]
          <5>1. creator[x] = "start" /\ pcie' = [pcie EXCEPT ![x] = NextAvailable(pciePool)]
            BY <4>2 DEF StartFreeSGroup, Step
          <5>2. x # g BY <4>1, <5>1
          <5> QED BY <3>0, <5>1, <5>2
        <4>3. ASSUME NEW x \in SGroups, pcie' = [pcie EXCEPT ![x] = None] PROVE pcie'[g] = None
          BY <3>0, <4>1, <4>3
        <4>4. \/ UNCHANGED pcie
              \/ \E x \in SGroups : StartFreeSGroup(x) \/ pcie' = [pcie EXCEPT ![x] = None]
          BY PoolSteps DEF poolVars, EndDestroyer, FreeIndex
        <4> QED BY <4>1, <4>2, <4>3, <4>4
      <3>2. CASE destroyer[g] # "done"
        <4>1. ~DeleteManager(g) BY <1>0, <1>f, <2>4 DEF DeleteManager, Go, GoTypes
        <4>2. EndDestroyer(g) BY <2>4, <3>2, <4>1, DestroyerSteps
        <4> QED BY <3>0, <4>2 DEF EndDestroyer, FreeIndex
      <3> QED BY <3>1, <3>2
    <2>5. ASSUME Exists(Pod("nf", g))' PROVE hasIns'[g]
      <3>1. CASE Exists(Pod("nf", g))
        <4>1. hasIns[g] BY <2>0, <3>1 DEF Tracked
        <4>2. Reset(g) => Deleted(Pod("nf", g)) BY <1>f, <4>1 DEF Reset
        <4>3. ~Reset(g) BY <2>5, <4>2 DEF Deleted, Exists
        <4> QED BY <4>1, <4>3, HasInsSteps
      <3>2. CASE ~Exists(Pod("nf", g))
        <4>1. CreateNF(g) BY <1>p, <2>5, <3>2, BornSteps DEF Born
        <4>2. ~NotCreated(Pod("nf", g)) BY <1>n, <3>2
        <4>3. hasIns' = [hasIns EXCEPT ![g] = TRUE] BY <4>1, <4>2 DEF CreateNF
        <4> QED BY <4>3 DEF PlainTypes, Flags
      <3> QED BY <3>1, <3>2
    <2>6. ASSUME hasIns'[g] PROVE builder'[g] = "list" \/ g \in Range(sgroups)'
      <3>1. CASE builder' = Go(builder, g, "list") BY <1>0, <3>1 DEF Go, GoTypes
      <3>2. CASE hasIns'[g] = hasIns[g]
        <4>1. CASE builder[g] = "list"
          <5>1. ListSGroup(g) => g \in Range(sgroups)' BY ListSteps
          <5>2. /\ ~TakeFreeSGroup(g) /\ ~CreateNF(g) /\ ~DestroySGroup(g) /\ ~Complete(g)
            BY <4>1 DEF TakeFreeSGroup, CreateNF, DestroySGroup, Complete, Step
          <5> QED BY <4>1, <5>1, <5>2, BuilderSteps
        <4>2. CASE g \in Range(sgroups)
          <5>1. Reset(g) => ~hasIns'[g] BY DEF Reset, PlainTypes, Flags
          <5> QED BY <2>6, <4>2, <5>1, UnlistSteps
        <4> QED BY <2>0, <2>6, <3>2, <4>1, <4>2 DEF Tracked
      <3> QED BY <2>6, <3>1, <3>2, HasInsSteps
    <2> QED BY <2>1, <2>2, <2>3, <2>4, <2>5, <2>6 DEF Tracked, Pod
  <1> QED BY <1>1, <1>2

-----------------------------------------------------------------------------
(* The theorems. *)

WInv ==
    /\ IInv /\ LoopInv /\ PlainTypes /\ PodsInv /\ PoolInv /\ IndexInv
    /\ PodNames /\ Joined /\ DeviceInv /\ CleanInv

\* The parts hold together.
LEMMA WInvariance == Spec => []WInv
  <1>1. Init => WInv BY InitInv, LoopInit, PlainInit, IndexInit, CleanInit DEF WInv
  <1>2. WInv /\ [Next]_vars => WInv'
    BY StepInv, LoopStep, PlainStep, IndexStep, NamesStep, DeviceStep, CleanStep DEF WInv
  <1> QED BY <1>1, <1>2, PTL DEF Spec

\* Every variable of the worker keeps to its type.
THEOREM TypeCorrect == Spec => []TypeOK
  <1>1. ASSUME WInv PROVE TypeOK
    <2>0. ListsInv /\ GoTypes /\ LoopInv /\ PlainTypes /\ PodsInv /\ PoolInv
      BY <1>1 DEF WInv, IInv
    <2>1. PICK n \in 0..2, s \in 0..1 : LoopIs(n, s) BY <2>0 DEF LoopInv, FreeAtStart
    <2>2. op \in Seq({"free", "shutdown"}) /\ schedOp \in BOOLEAN /\ schedLoop \in BOOLEAN
      BY <2>1 DEF LoopIs, Messages, Kinds
    <2>3. wg \in 0..2 BY <2>1 DEF LoopIs
    <2>4. pciePool \in Seq(0..NumPCIe - 1)
      <3>1. pciePool \in Seq(Int) /\ Range(pciePool) \subseteq 0..NumPCIe - 1
        BY <2>0 DEF PoolInv, IsPool, Indices
      <3>2. \A i \in 1..Len(pciePool) : pciePool[i] \in 0..NumPCIe - 1
        BY <3>1, LenProperties DEF Range
      <3>3. Len(pciePool) \in Nat /\ pciePool \in [1..Len(pciePool) -> Int]
        BY <3>1, LenProperties
      <3>4. pciePool \in [1..Len(pciePool) -> 0..NumPCIe - 1] BY <3>2, <3>3
      <3> QED BY <3>3, <3>4, SeqDef
    <2>5. pcie \in [SGroups -> (0..NumPCIe - 1) \cup {None}] BY <2>0 DEF PoolInv, Indices
    <2>6. main \in {"start", "sched", "cli", "wait", "clean", "reset", "free", "join", "closed"}
      BY <2>0 DEF PlainTypes, Mains
    <2>7. {freeSGroups, sgroups, scan} \subseteq Seq(SGroups)
      BY <2>0 DEF PlainTypes, ListsInv
    <2>8. \A m \in {creator, builder, destroyer} : m \in [SGroups -> Procs] BY <2>0 DEF GoTypes
    <2>9. \A m \in {hasIns, tid, isComplete, isReady, sgLock} : m \in [SGroups -> BOOLEAN]
      BY <2>0 DEF PlainTypes, Flags
    <2>10. /\ {sgroupConns, sgroupTarget} \subseteq Nat /\ dying \subseteq pods
           /\ failures \in 0..MaxFailures /\ impatient \in BOOLEAN
           /\ sgMutex \in {None, "sched", "main"}
      BY <2>0 DEF PlainTypes, PodsInv
    <2> QED BY <2>2, <2>3, <2>4, <2>5, <2>6, <2>7, <2>8, <2>9, <2>10 DEF TypeOK
  <1> QED BY <1>1, WInvariance, PTL

\* No two managers that Kubernetes runs are on one PCIe device, and none is on a device
\* that the pool may hand out, unless a call failed or a pod outlived the 20 s of the poll.
THEOREM OneManagerPerDevice == Spec => []DeviceHasOneManager
  <1>1. ASSUME WInv, failures = 0, ~impatient,
               NEW p \in {r \in pods : r[1] = "prim"}, NEW q \in {r \in pods : r[1] = "prim"}
        PROVE  pcie[p[2]] # None /\ (pcie[p[2]] = pcie[q[2]] => p = q)
    <2>1. ASSUME NEW r \in pods, r[1] = "prim"
          PROVE  \E g \in SGroups : r = Pod("prim", g) /\ r[2] = g /\ pcie[g] # None
      <3>1. PICK g \in SGroups : r = Pod("prim", g) BY <1>1, <2>1 DEF WInv, PodNames, Pod
      <3> QED BY <1>1, <2>1, <3>1 DEF WInv, DeviceInv, Pod
    <2>2. PICK g \in SGroups : p = Pod("prim", g) /\ p[2] = g /\ pcie[g] # None BY <2>1
    <2>3. PICK h \in SGroups : q = Pod("prim", h) /\ q[2] = h /\ pcie[h] # None BY <2>1
    <2> QED BY <1>1, <2>2, <2>3 DEF WInv, PoolInv
  <1>2. WInv => DeviceHasOneManager BY <1>1 DEF DeviceHasOneManager
  <1> QED BY <1>2, WInvariance, PTL

\* Whatever Close leaves behind, it could not have found: the SGroup was being created or
\* built, or came to a list after Close had emptied it.
THEOREM ClosesClean == Spec => []CleanClose
  <1>1. ASSUME WInv, main = "closed", failures = 0
        PROVE  /\ \A p \in pods \ dying : p[2] \in Missed
               /\ \A g \in SGroups \ Missed : pcie[g] = None
    <2>0. ListsInv /\ ListedInv /\ HandsInv /\ GoTypes /\ IndexInv /\ PodNames
      BY <1>1 DEF WInv, IInv
    <2>1. ASSUME NEW g \in SGroups
          PROVE  /\ Listed(g) \/ creator[g] \notin {"none", "done"} \/ builder[g] # "none"
                        => g \in Missed
                 /\ g \notin Missed => /\ ~Listed(g) /\ creator[g] \in {"none", "done"}
                                       /\ builder[g] = "none"
      <3>1. Range(freeSGroups \o sgroups) = Range(freeSGroups) \cup Range(sgroups)
        BY <2>0, RangeConcatenation DEF ListsInv
      <3> QED BY <3>1 DEF Missed, Listed
    <2>2. ASSUME NEW g \in SGroups
          PROVE  Tracked(g) /\ destroyer[g] \in {"none", "done"}
      BY <1>1 DEF WInv, CleanInv, Joined
    <2>3. ~Exists(Pod("sched", None)) BY <1>1 DEF WInv, CleanInv
    <2>4. ASSUME NEW g \in SGroups, Exists(Pod("prim", g)) PROVE g \in Missed
      BY <2>1, <2>2, <2>4 DEF Tracked, Exists
    <2>5. ASSUME NEW g \in SGroups, Exists(Pod("nf", g)) PROVE g \in Missed
      BY <2>1, <2>2, <2>5 DEF Tracked, Listed
    <2>6. ASSUME NEW p \in pods \ dying PROVE p[2] \in Missed
      <3>1. Exists(p) BY <2>6 DEF Exists
      <3>2. PICK g \in SGroups : p = Pod("prim", g) \/ p = Pod("nf", g)
        BY <2>0, <2>3, <3>1, <2>6 DEF PodNames
      <3>3. p[2] = g BY <3>2 DEF Pod
      <3> QED BY <2>4, <2>5, <3>1, <3>2, <3>3
    <2>7. ASSUME NEW g \in SGroups, g \notin Missed PROVE pcie[g] = None
      BY <2>0, <2>1, <2>2, <2>7 DEF Tracked, IndexInv
    <2> QED BY <2>6, <2>7
  <1>2. WInv => CleanClose BY <1>1 DEF CleanClose
  <1> QED BY <1>2, WInvariance, PTL

\* What the goroutines of the worker do to its heap of PCIe indices is what a pool of
\* indices promises: each is given to one SGroup, the smallest first, and comes back once.
THEOREM PoolIsAbstractPool == Spec => PCIePool
  <1>1. Init => Pool!Init
    <2>1. ASSUME Init PROVE pciePool = NewIndexPool(0, NumPCIe) /\ \A g \in SGroups : pcie[g] = None
      BY <2>1 DEF Init
    <2>2. Range(NewIndexPool(0, NumPCIe)) = Indices BY NewPool, ConstAssumption DEF Indices
    <2> QED BY <2>1, <2>2 DEF Pool!Init, Indices
  <1>2. WInv /\ [Next]_vars => [Pool!Next]_<<Range(pciePool), {pcie[g] : g \in SGroups} \ {None}>>
    <2> SUFFICES ASSUME WInv, [Next]_vars
                 PROVE  Pool!Next \/ UNCHANGED <<Range(pciePool), Held>>
      BY DEF Held
    <2>0. IInv /\ LoopInv /\ PoolInv /\ IndexInv BY DEF WInv
    <2>1. ASSUME NEW i \in Indices, i \in Range(pciePool), \A j \in Range(pciePool) : i <= j,
                 Range(pciePool') = Range(pciePool) \ {i}, Held' = Held \cup {i}
          PROVE  Pool!Next
      BY <2>1 DEF Pool!Next, Pool!Get, Held, Indices
    <2>2. ASSUME NEW i \in Indices, i \in Held,
                 Range(pciePool') = Range(pciePool) \cup {i}, Held' = Held \ {i}
          PROVE  Pool!Next
      BY <2>2 DEF Pool!Next, Pool!Put, Held, Indices
    <2>3. ASSUME NEW g \in SGroups, StartFreeSGroup(g) PROVE Pool!Next
      <3>1. pcie[g] = None /\ pciePool # <<>>
        BY <2>0, <2>3, NeverEmpty DEF StartFreeSGroup, Step, IndexInv
      <3>2. PICK i \in Range(pciePool) : /\ \A j \in Range(pciePool) : i <= j
                                         /\ Range(pciePool') = Range(pciePool) \ {i}
                                         /\ Held' = Held \cup {i}
        BY <2>0, <2>3, <3>1, PoolGives DEF StartFreeSGroup
      <3>3. i \in Indices BY <2>0 DEF PoolInv
      <3> QED BY <2>1, <3>2, <3>3
    <2>4. ASSUME NEW g \in SGroups, HasIndex(g),
                 pciePool' = Free(pciePool, pcie[g]), pcie' = [pcie EXCEPT ![g] = None]
          PROVE  Pool!Next
      <3>1. pcie[g] # None BY <2>0, <2>4 DEF IndexInv
      <3>2. /\ pcie[g] \in Held /\ Range(pciePool') = Range(pciePool) \cup {pcie[g]}
            /\ Held' = Held \ {pcie[g]}
        BY <2>0, <2>4, <3>1, PoolTakes
      <3>3. pcie[g] \in Indices BY <2>0, <3>2 DEF PoolInv
      <3> QED BY <2>2, <3>2, <3>3
    <2>5. CASE UNCHANGED poolVars
      <3>1. Range(pciePool') = Range(pciePool) /\ Held' = Held BY <2>5 DEF poolVars, Held
      <3> QED BY <3>1
    <2>6. ASSUME NEW g \in SGroups, NewSGroup(g) \/ EndDestroyer(g) PROVE HasIndex(g)
      BY <2>6 DEF NewSGroup, EndDestroyer, FreeIndex, Step, HasIndex
    <2>7. ASSUME NEW g \in SGroups, EndDestroyer(g)
          PROVE  pciePool' = Free(pciePool, pcie[g]) /\ pcie' = [pcie EXCEPT ![g] = None]
      BY <2>7 DEF EndDestroyer, FreeIndex
    <2> QED BY <2>3, <2>4, <2>5, <2>6, <2>7, PoolSteps
  <1> QED BY <1>1, <1>2, WInvariance, PTL DEF Spec, PCIePool, Pool!Spec
==============================================================================
