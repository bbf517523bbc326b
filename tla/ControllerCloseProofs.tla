------------------------- MODULE ControllerCloseProofs -------------------------
(***************************************************************************)
(* Theorems of ControllerClose, for any number of workers, samples and     *)
(* tests.  TestInv describes an open test, from which what a file shows    *)
(* follows when the test is closed; StopInv follows the logger's state.    *)
(***************************************************************************)
EXTENDS ControllerClose, SequenceTheorems, TLAPS

\* The sample being taken may have traffic only while the bounds allow it.
TrafficInv ==
    logger = "sample" /\ traffic =>
        logIndex < MaxTests /\ (logOn => Len(snapshotStore) < MaxSamples)

\* An open test starts with traffic and ends with idleCounter samples after the
\* last one that had some; its metrics are not computed yet.
TestInv ==
    logOn =>
        /\ logIndex < MaxTests /\ usage = None /\ idleCounter < IdleSamples
        /\ idleCounter < Len(snapshotStore)
        /\ Len(snapshotStore) <= MaxSamples + idleCounter
        /\ snapshotStore[1] /\ snapshotStore[Len(snapshotStore) - idleCounter]

\* The logger says that it has stopped, and StopFaaSLogger returns, only when the
\* logger has returned.
StopInv == state = 2 \/ stopper = "done" => logger = "returned"

IInv ==
    /\ TypeOK /\ TrafficInv /\ TestInv /\ StopInv
    /\ FileIsTheTest /\ FileHasOwnMetrics /\ CloseNil

-----------------------------------------------------------------------------
(* A sample of the logger. *)

\* What IInv says of the variables only LogSample changes.
Sampled ==
    /\ snapshotStore \in Seq(BOOLEAN) /\ Len(snapshotStore) < MaxSamples + IdleSamples
    /\ logOn \in BOOLEAN /\ idleCounter \in 0..IdleSamples /\ logIndex \in 0..MaxTests
    /\ testDuration \in (0..MaxTests - 1) \cup {None}
    /\ usage \in (0..MaxTests - 1) \cup {None}
    /\ TestInv /\ FileIsTheTest /\ FileHasOwnMetrics

\* A store within its bounds and a logger in its place are all LogSample needs.
LEMMA SampledTyped == IInv => Sampled
  BY DEF IInv, Sampled, TypeOK

\* The store with the new sample, and the count of idle samples at its end.
LEMMA NextStore ==
  ASSUME IInv, logger = "sample", logOn \/ traffic,
         NEW store, store = Append(StoreNow, traffic),
         NEW idle, idle = CountIdle(IF logOn THEN idleCounter ELSE 0, traffic)
  PROVE  /\ store \in Seq(BOOLEAN) /\ idle \in 0..IdleSamples
         /\ idle < Len(store) /\ Len(store) <= MaxSamples + idle
         /\ store[1] /\ store[Len(store) - idle]
         /\ logIndex < MaxTests /\ (~logOn => idle = 0)
  <1> USE ConstAssumption DEF ConstAssumption, IInv, TypeOK
  <1>0. IdleSamples \in Nat /\ MaxSamples \in Nat OBVIOUS
  <1>1. CASE logOn
    <2> DEFINE old == snapshotStore
    <2>1. /\ old \in Seq(BOOLEAN) /\ traffic \in BOOLEAN /\ store = Append(old, traffic)
      BY <1>1 DEF StoreNow
    <2>2. /\ store \in Seq(BOOLEAN) /\ Len(store) = Len(old) + 1
          /\ \A i \in 1..Len(old) : store[i] = old[i]
          /\ store[Len(old) + 1] = traffic
      BY <2>1, AppendProperties
    <2>3. /\ logIndex < MaxTests /\ idleCounter \in 0..IdleSamples
          /\ idleCounter < IdleSamples /\ idleCounter < Len(old)
          /\ Len(old) <= MaxSamples + idleCounter
          /\ old[1] /\ old[Len(old) - idleCounter]
      BY <1>1 DEF TestInv
    <2>4. Len(old) \in Nat BY <2>1, LenProperties
    <2>5. CASE traffic
      <3>1. idle = 0 BY <2>5 DEF CountIdle
      <3>2. Len(old) < MaxSamples BY <1>1, <2>5 DEF TrafficInv
      <3>3. 1 \in 1..Len(old) BY <2>3, <2>4
      <3>4. store[1] = old[1] /\ store[Len(store) - idle] = traffic
        BY <2>2, <2>4, <3>1, <3>3
      <3>5. idle \in 0..IdleSamples /\ idle < Len(store) /\ Len(store) <= MaxSamples + idle
        BY <2>2, <2>4, <3>1, <3>2
      <3> QED BY <1>1, <2>2, <2>3, <2>5, <3>1, <3>4, <3>5
    <2>6. CASE ~traffic
      <3>1. idle = idleCounter + 1 BY <1>1, <2>6 DEF CountIdle
      <3> HIDE DEF ConstAssumption, IInv, TypeOK, old
      <3>2. Len(store) - idle = Len(old) - idleCounter BY <1>0, <2>2, <2>3, <2>4, <3>1
      <3>3. Len(old) - idleCounter \in 1..Len(old) /\ 1 \in 1..Len(old) BY <2>3, <2>4
      <3>4. store[1] = old[1] /\ store[Len(store) - idle] = old[Len(old) - idleCounter]
        BY <2>2, <3>2, <3>3
      <3>5. idle \in 0..IdleSamples /\ idle < Len(store) /\ Len(store) <= MaxSamples + idle
        BY <1>0, <2>2, <2>3, <2>4, <3>1
      <3> QED BY <1>1, <2>2, <2>3, <3>4, <3>5
    <2> QED BY <2>5, <2>6
  <1>2. CASE ~logOn
    <2>1. traffic = TRUE /\ store = Append(<<>>, traffic) BY <1>2 DEF StoreNow
    <2>2. store \in Seq(BOOLEAN) /\ Len(store) = 1 /\ store[1] = TRUE BY <2>1
    <2>3. idle = 0 BY <1>2, <2>1 DEF CountIdle
    <2>4. logIndex < MaxTests BY <2>1 DEF TrafficInv
    <2> QED BY <1>2, <2>2, <2>3, <2>4
  <1> QED BY <1>1, <1>2

\* A sample: the store grows by one, or the test ends and its idle tail is cut.
LEMMA SampleStep ==
  ASSUME IInv, LogSample
  PROVE  Sampled'
  <1> USE ConstAssumption DEF ConstAssumption
  <1>0. Sampled BY SampledTyped
  <1>1. CASE ~logOn /\ ~traffic
    <2>1. UNCHANGED testVars BY <1>1 DEF LogSample
    <2> QED BY <1>0, <2>1 DEF Sampled, testVars, TestInv, FileIsTheTest, FileHasOwnMetrics
  <1>2. CASE logOn \/ traffic
    <2> DEFINE store == Append(StoreNow, traffic)
               idle  == CountIdle(IF logOn THEN idleCounter ELSE 0, traffic)
               cut   == SubSeq(store, 1, Len(store) - IdleSamples)
    <2> HIDE DEF store, idle
    <2>1. /\ idleCounter' = idle
          /\ IF idle >= IdleSamples
             THEN /\ snapshotStore' = cut /\ ComputeKeyMetrics(cut)
                  /\ written' = File(cut)
                  /\ logIndex' = logIndex + 1 /\ logOn' = FALSE
             ELSE /\ snapshotStore' = store /\ logOn' = TRUE /\ usage' = UsageNow
                  /\ UNCHANGED <<testDuration, written, logIndex>>
      BY <1>2 DEF LogSample, store, idle
    <2>2. /\ store \in Seq(BOOLEAN) /\ idle \in 0..IdleSamples
          /\ idle < Len(store) /\ Len(store) <= MaxSamples + idle
          /\ store[1] /\ store[Len(store) - idle]
          /\ logIndex < MaxTests /\ (~logOn => idle = 0)
      BY <1>2, NextStore DEF LogSample, store, idle
    <2>3. UsageNow = None BY DEF IInv, TestInv, UsageNow
    <2>4. Len(store) \in Nat BY <2>2, LenProperties
    <2>5. CASE idle >= IdleSamples
      <3>1. idle = IdleSamples BY <2>2, <2>5
      <3>2. /\ cut \in Seq(BOOLEAN) /\ Len(cut) = Len(store) - IdleSamples
            /\ \A i \in 1..Len(cut) : cut[i] = store[i]
        <4>1. Len(store) - IdleSamples \in 1..Len(store) BY <2>2, <2>4, <3>1
        <4>2. \A i \in 1..Len(store) : store[i] \in BOOLEAN BY <2>2
        <4> QED BY <2>2, <2>4, <4>1, <4>2, SubSeqProperties
      <3>3. Len(cut) \in 1..MaxSamples BY <2>2, <2>4, <3>1, <3>2
      <3>4. cut[1] = store[1] /\ cut[Len(cut)] = store[Len(store) - idle]
        BY <3>1, <3>2, <3>3
      <3>5. cut[1] /\ cut[Len(cut)] BY <2>2, <3>4
      <3> HIDE DEF cut
      <3>6. logIndex' \in 0..MaxTests /\ logIndex \in 0..MaxTests - 1
        BY <1>0, <2>1, <2>2, <2>5 DEF Sampled
      <3>7. written' = [test |-> logIndex, samples |-> cut,
                        duration |-> testDuration', usage |-> usage']
        BY <2>1, <2>5 DEF File
      <3>8. /\ testDuration' \in (0..MaxTests - 1) \cup {None}
            /\ usage' \in {None, logIndex}
            /\ Len(cut) >= MinSamples => usage' = logIndex /\ testDuration' = logIndex
        BY <1>0, <2>1, <2>3, <2>5, <3>3, <3>6 DEF Sampled, ComputeKeyMetrics
      <3>9. FileIsTheTest' BY <3>3, <3>5, <3>7 DEF FileIsTheTest
      <3>10. FileHasOwnMetrics' BY <3>7, <3>8 DEF FileHasOwnMetrics
      <3>11. TestInv' BY <2>1, <2>5 DEF TestInv
      <3>12. logOn' \in BOOLEAN BY <2>1, <2>5, Zenon
      <3>13. /\ snapshotStore' \in Seq(BOOLEAN)
             /\ Len(snapshotStore') < MaxSamples + IdleSamples
        BY <2>1, <2>5, <3>2, <3>3
      <3>14. idleCounter' \in 0..IdleSamples BY <2>1, <2>2
      <3>15. usage' \in (0..MaxTests - 1) \cup {None} BY <3>6, <3>8
      <3> QED
        BY <3>6, <3>8, <3>9, <3>10, <3>11, <3>12, <3>13, <3>14, <3>15 DEF Sampled
    <2>6. CASE idle < IdleSamples
      <3>1. /\ snapshotStore' = store /\ logOn' = TRUE /\ usage' = None
            /\ idleCounter' = idle
            /\ UNCHANGED <<testDuration, written, logIndex>>
        BY <2>1, <2>2, <2>3, <2>6
      <3>2. TestInv' BY <2>2, <2>6, <3>1 DEF TestInv
      <3>3. FileIsTheTest' /\ FileHasOwnMetrics'
        BY <1>0, <3>1 DEF Sampled, FileIsTheTest, FileHasOwnMetrics
      <3> QED BY <1>0, <2>2, <2>4, <2>6, <3>1, <3>2, <3>3 DEF Sampled
    <2> QED BY <2>2, <2>5, <2>6
  <1> QED BY <1>1, <1>2 DEF IInv, TypeOK

-----------------------------------------------------------------------------
(* Every step. *)

\* The part of TypeOK about the processes.
Placed ==
    /\ ctl \in {"cli", "closing", "ok", "error"}
    /\ closer \in [Workers -> {"none", "run", "clean", "cleanAfterError", "send", "done"}]
    /\ stopper \in {"none", "run", "spin", "done"}
    /\ logger \in {"spawned", "sample", "sleep", "returned"} /\ state \in 0..2
    /\ unread \subseteq Workers /\ traffic \in BOOLEAN

\* The logger starts with an empty store and nothing written.
LEMMA InitInv == Init => IInv
  <1> SUFFICES ASSUME Init PROVE IInv OBVIOUS
  <1> USE ConstAssumption DEF ConstAssumption, Init
  <1>0. traffic \in BOOLEAN /\ logOn \in BOOLEAN BY Zenon
  <1>1. TypeOK BY <1>0 DEF TypeOK
  <1>2. TrafficInv /\ TestInv /\ StopInv BY DEF TrafficInv, TestInv, StopInv
  <1>3. FileIsTheTest /\ FileHasOwnMetrics /\ CloseNil
    BY DEF FileIsTheTest, FileHasOwnMetrics, CloseNil
  <1> QED BY <1>1, <1>2, <1>3 DEF IInv

\* Steps that leave the samples alone.
LEMMA SampledKept == IInv /\ UNCHANGED testVars => Sampled'
  <1> SUFFICES ASSUME IInv, UNCHANGED testVars PROVE Sampled' OBVIOUS
  <1>1. Sampled BY SampledTyped
  <1> QED BY <1>1 DEF Sampled, testVars, TestInv, FileIsTheTest, FileHasOwnMetrics

\* An invariant of three parts: where everyone is, the samples, the stop.
LEMMA StepInv == IInv /\ [Next]_vars => IInv'
  <1> SUFFICES ASSUME IInv, [Next]_vars PROVE IInv' OBVIOUS
  <1> DEFINE Stop == StopInv /\ CloseNil
  <1>0. Placed /\ TrafficInv /\ Stop /\ Sampled
    BY SampledTyped DEF IInv, TypeOK, Placed
  <1> DEFINE Goal == Placed' /\ TrafficInv' /\ Stop' /\ Sampled'
  <1>s. SUFFICES Goal
    BY DEF IInv, TypeOK, Placed, Sampled
  <1>1. ASSUME StartLogger, ctl \notin {"ok", "error"} PROVE Goal
    <2>0. traffic' \in BOOLEAN BY <1>1, Zenon DEF StartLogger
    <2>1. Placed' BY <1>0, <1>1, <2>0 DEF StartLogger, closeVars, Placed
    <2>3. TrafficInv' BY <1>1 DEF StartLogger, TrafficInv
    <2>2. Stop' BY <1>0, <1>1 DEF StartLogger, closeVars, StopInv, CloseNil
    <2> QED BY <1>1, <2>1, <2>2, <2>3, SampledKept DEF StartLogger
  <1>2. ASSUME NEW w \in Workers, AskWorker(w) PROVE Goal
    <2>1. Placed' BY <1>0, <1>2 DEF AskWorker, closeVars, Placed
    <2>2. TrafficInv' BY <1>0, <1>2 DEF AskWorker, testVars, TrafficInv
    <2>3. Stop' BY <1>0, <1>2 DEF AskWorker, closeVars, StopInv, CloseNil
    <2> QED BY <1>2, <2>1, <2>2, <2>3, SampledKept DEF AskWorker
  <1>3. ASSUME LogSample, ctl \notin {"ok", "error"} PROVE Goal
    <2>1. Placed' /\ TrafficInv' BY <1>0, <1>3 DEF LogSample, closeVars, Placed, TrafficInv
    <2>2. Stop' BY <1>0, <1>3 DEF LogSample, closeVars, StopInv, CloseNil
    <2> QED BY <1>3, <2>1, <2>2, SampleStep
  <1>4. ASSUME EndPeriod, ctl \notin {"ok", "error"} PROVE Goal
    <2>0. traffic' \in BOOLEAN
      <3>1. traffic' = traffic \/ traffic' = FALSE BY <1>4, Zenon DEF EndPeriod
      <3>2. traffic \in BOOLEAN BY <1>0 DEF Placed
      <3> QED BY <3>1, <3>2, Zenon
    <2>1. Placed' BY <1>0, <1>4, <2>0 DEF EndPeriod, Acknowledge, closeVars, Placed
    <2>2. TrafficInv' BY <1>0, <1>4 DEF EndPeriod, TrafficInv
    <2>3. Stop' BY <1>0, <1>4 DEF EndPeriod, Acknowledge, closeVars, StopInv, CloseNil
    <2> QED BY <1>4, <2>1, <2>2, <2>3, SampledKept DEF EndPeriod
  <1>5. ASSUME Quit PROVE Goal
    <2>1. Placed' BY <1>0, <1>5 DEF Quit, Placed
    <2>2. TrafficInv' BY <1>0, <1>5 DEF Quit, testVars, TrafficInv
    <2>3. Stop' BY <1>0, <1>5 DEF Quit, StopInv, CloseNil
    <2> QED BY <1>5, <2>1, <2>2, <2>3, SampledKept DEF Quit
  <1>6. ASSUME StopFaaSLogger, ctl \notin {"ok", "error"} PROVE Goal
    <2>1. Placed' BY <1>0, <1>6 DEF StopFaaSLogger, Placed
    <2>2. TrafficInv' BY <1>0, <1>6 DEF StopFaaSLogger, testVars, TrafficInv
    <2>3. Stop' BY <1>0, <1>6 DEF StopFaaSLogger, StopInv, CloseNil
    <2> QED BY <1>6, <2>1, <2>2, <2>3, SampledKept DEF StopFaaSLogger
  \* Select answers nil when the stopper is done, by which time the logger is gone.
  <1>7. ASSUME Select PROVE Goal
    <2>1. Placed' BY <1>0, <1>7 DEF Select, Placed
    <2>2. TrafficInv' BY <1>0, <1>7 DEF Select, testVars, TrafficInv
    <2>3. Stop' BY <1>0, <1>7 DEF Select, AllDone, StopInv, CloseNil
    <2> QED BY <1>7, <2>1, <2>2, <2>3, SampledKept DEF Select
  <1>8. ASSUME NEW w \in Workers, CloseWorker(w), ctl \notin {"ok", "error"}
        PROVE  Goal
    <2>1. Placed' BY <1>0, <1>8 DEF CloseWorker, Placed
    <2>2. TrafficInv' BY <1>0, <1>8 DEF CloseWorker, testVars, TrafficInv
    <2>3. Stop' BY <1>0, <1>8 DEF CloseWorker, StopInv, CloseNil
    <2> QED BY <1>8, <2>1, <2>2, <2>3, SampledKept DEF CloseWorker
  <1>9. CASE UNCHANGED vars
    <2>1. Placed' /\ TrafficInv'
      BY <1>0, <1>9 DEF vars, closeVars, testVars, Placed, TrafficInv
    <2>2. Stop' BY <1>0, <1>9 DEF vars, closeVars, StopInv, CloseNil
    <2> QED BY <1>9, <2>1, <2>2, SampledKept DEF vars
  <1> QED BY <1>1, <1>2, <1>3, <1>4, <1>5, <1>6, <1>7, <1>8, <1>9 DEF Next, Logger

\* The invariant holds in every state of Close and the logger.
LEMMA Inductive == Spec => []IInv
  BY InitInv, StepInv, PTL DEF Spec

-----------------------------------------------------------------------------
(* The theorems. *)

\* Type correctness: counters and samples stay within their bounds.
THEOREM TypeCorrect == Spec => []TypeOK
  BY Inductive, PTL DEF IInv

\* A file starts and ends with a sample that had traffic: RunFaaSLogger cuts off
\* the idle samples and no other, however long tests are.
THEOREM CutIsExact == Spec => []FileIsTheTest
  BY Inductive, PTL DEF IInv

\* A file shows no usage of another test, and no duration of another test if it
\* is long enough for metrics.
THEOREM OwnMetrics == Spec => []FileHasOwnMetrics
  BY Inductive, PTL DEF IInv

\* FaaSController.Close answers nil only after every Worker.Close and the logger.
THEOREM NilMeansDone == Spec => []CloseNil
  BY Inductive, PTL DEF IInv
=============================================================================
