--------------------------- MODULE ControllerClose ---------------------------
(***************************************************************************)
(* FaaSController.Close and the FaaSLogger it stops (controller.go,        *)
(* sys_measure.go).                                                        *)
(*                                                                         *)
(* The logger samples all workers every 500 ms, each under its sgMutex,    *)
(* opens a test at the first sample with traffic, closes it after          *)
(* IdleSamples idle ones, which it cuts off, and writes the rest to a      *)
(* file.  Close runs Worker.Close of every worker and StopFaaSLogger in    *)
(* goroutines of their own, and returns at the first error or when all are *)
(* done; os.Exit follows.  Worker.Close is modelled in WorkerLifecycle:    *)
(* here it holds the worker's sgMutex for some time, perhaps for ever, and *)
(* may end in an error.                                                    *)
(***************************************************************************)
EXTENDS Naturals, Sequences, FiniteSets

CONSTANTS
    Workers,
    IdleSamples,  \* idle samples that end a test (5 in the code)
    MinSamples,   \* samples below which no metrics are computed (10)
    MaxSamples,   \* bound: samples with traffic arrive up to this many
    MaxTests,     \* bound: tests that are started
    None          \* no value

ASSUME ConstAssumption ==
    /\ IsFiniteSet(Workers) /\ Workers # {}
    /\ {IdleSamples, MinSamples, MaxSamples, MaxTests} \subseteq Nat \ {0}
    /\ None \notin Nat

VARIABLES
    ctl,           \* where the command line is, in or after Close
    closer,        \* the goroutine of Close for each worker
    stopper,       \* the one that calls StopFaaSLogger
    logger,        \* where RunFaaSLogger is
    state,         \* l.state: 0 run, 1 stop asked for, 2 stopped
    unread,        \* workers the snapshot has yet to ask
    traffic,       \* whether the snapshot found a core in use or packets
    snapshotStore, \* l.snapshotStore: per sample, whether it had traffic
    logOn, logIndex, idleCounter,
    testDuration,  \* the test l.testDuration was computed in, or None
    usage,         \* the same for avgCoreUsage and maxCoreUsage
    written        \* the last file written, <<>> before the first

closeVars == <<ctl, closer, stopper>>
testVars  == <<snapshotStore, logOn, logIndex, idleCounter, testDuration, usage,
               written>>
vars == <<closeVars, logger, state, unread, traffic, testVars>>

Init ==
    /\ ctl = "cli" /\ closer = [w \in Workers |-> "none"] /\ stopper = "none"
    \* go c.logger.RunFaaSLogger()
    /\ logger = "spawned" /\ state = 0 /\ unread = {} /\ traffic = FALSE
    /\ snapshotStore = <<>> /\ logOn = FALSE /\ logIndex = 0 /\ idleCounter = 0
    /\ testDuration = None /\ usage = None /\ written = <<>>

-----------------------------------------------------------------------------
(* FaaSLogger. *)

\* RunFaaSLogger sets the state whatever StopFaaSLogger asked for before.
StartLogger ==
    /\ logger = "spawned" /\ logger' = "sample"
    /\ state' = 0 /\ unread' = Workers /\ traffic' = FALSE
    /\ UNCHANGED <<closeVars, testVars>>

\* Worker.Close has sgMutex from destroyAllSGroups to its end.
Locked(w) == closer[w] \in {"clean", "cleanAfterError"}

\* getPerWorkerSnapshotSummary, in any order of the map.  It may wait for ever
\* for the mutex of a SGroup at a shut barrier: the action is not fair.
AskWorker(w) ==
    /\ logger = "sample" /\ w \in unread /\ ~Locked(w)
    /\ unread' = unread \ {w}
    /\ traffic' \in {traffic,
                     traffic \/ (logIndex < MaxTests
                                 /\ (logOn => Len(snapshotStore) < MaxSamples))}
    /\ UNCHANGED <<closeVars, logger, state, testVars>>

\* Mutant: the samples of the last test are kept.
StoreKept == snapshotStore

\* The samples before this one.
StoreNow == IF logOn THEN snapshotStore ELSE <<>>

\* Mutant: the metrics of the last test are kept.
UsageKept == usage

\* A test starts with the metrics reset, all but testDuration.
UsageNow == IF logOn THEN usage ELSE None

\* Mutant: the count goes on after a sample with traffic.
CountAll(cnt, busy) == IF busy THEN cnt ELSE cnt + 1

CountIdle(cnt, busy) == IF busy THEN 0 ELSE cnt + 1

\* ComputeKeyMetrics, which a short test skips.
ComputeKeyMetrics(store) ==
    IF Len(store) < MinSamples
    THEN testDuration' = testDuration /\ usage' = UsageNow
    ELSE testDuration' = logIndex /\ usage' = logIndex

\* WriteResultsToFile, which reads the store's first element.
File(store) == [test |-> logIndex, samples |-> store,
                duration |-> testDuration', usage |-> usage']

\* What RunFaaSLogger does with a sample.
LogSample ==
    LET store == Append(StoreNow, traffic)
        idle  == CountIdle(IF logOn THEN idleCounter ELSE 0, traffic)
        cut   == SubSeq(store, 1, Len(store) - IdleSamples)
    IN
    /\ logger = "sample" /\ unread = {} /\ logger' = "sleep"
    /\ IF ~logOn /\ ~traffic THEN UNCHANGED testVars
       ELSE /\ idleCounter' = idle
            /\ IF idle >= IdleSamples
               THEN /\ snapshotStore' = cut
                    /\ ComputeKeyMetrics(cut)
                    /\ written' = File(cut)
                    /\ logIndex' = logIndex + 1 /\ logOn' = FALSE
               ELSE /\ snapshotStore' = store /\ logOn' = TRUE /\ usage' = UsageNow
                    /\ UNCHANGED <<testDuration, written, logIndex>>
    /\ UNCHANGED <<closeVars, state, unread, traffic>>

\* Mutant: the logger leaves and does not say so.
LeaveSilently == UNCHANGED state

Acknowledge == state' = 2

\* After the sleep: stop, or the next sample.
EndPeriod ==
    /\ logger = "sleep"
    /\ IF state = 1
       THEN Acknowledge /\ logger' = "returned" /\ UNCHANGED <<unread, traffic>>
       ELSE /\ logger' = "sample" /\ unread' = Workers /\ traffic' = FALSE
            /\ UNCHANGED state
    /\ UNCHANGED <<closeVars, testVars>>

-----------------------------------------------------------------------------
(* FaaSController.Close. *)

Quit ==
    /\ ctl = "cli" /\ ctl' = "closing"
    /\ closer' = [w \in Workers |-> "run"] /\ stopper' = "run"
    /\ UNCHANGED <<logger, state, unread, traffic, testVars>>

\* Worker.Close: KillSched may fail; the clean-up is done all the same, and the
\* error sent when it is over.  The channel has no buffer.
CloseWorker(w) ==
    /\ \/ closer[w] = "run" /\ closer' \in {[closer EXCEPT ![w] = "clean"],
                                            [closer EXCEPT ![w] = "cleanAfterError"]}
       \/ closer[w] = "clean" /\ closer' = [closer EXCEPT ![w] = "done"]
       \/ closer[w] = "cleanAfterError" /\ closer' = [closer EXCEPT ![w] = "send"]
    /\ UNCHANGED <<ctl, stopper, logger, state, unread, traffic, testVars>>

StopFaaSLogger ==
    /\ \/ stopper = "run" /\ stopper' = "spin" /\ state' = 1
       \/ stopper = "spin" /\ state = 2 /\ stopper' = "done" /\ UNCHANGED state
    /\ UNCHANGED <<ctl, closer, logger, unread, traffic, testVars>>

\* Mutant: wg counts the workers only.
AllWorkersDone == \A w \in Workers : closer[w] = "done"

\* wg.Wait, then close(wgDone).
AllDone == (\A w \in Workers : closer[w] = "done") /\ stopper = "done"

\* The select: everything is done, or the first error.
Select ==
    /\ ctl = "closing"
    /\ \/ AllDone /\ ctl' = "ok"
       \/ (\E w \in Workers : closer[w] = "send") /\ ctl' = "error"
    /\ UNCHANGED <<closer, stopper, logger, state, unread, traffic, testVars>>

-----------------------------------------------------------------------------
Logger == StartLogger \/ (\E w \in Workers : AskWorker(w)) \/ LogSample \/ EndPeriod

\* Close is followed by os.Exit.
Next ==
    /\ ctl \notin {"ok", "error"}
    /\ \/ Logger \/ Quit \/ StopFaaSLogger \/ Select
       \/ \E w \in Workers : CloseWorker(w)

\* The Go scheduler runs every goroutine that can go on.  The user need not
\* quit, and a worker that is being closed may hold its mutex for ever.
Spec ==
    /\ Init /\ [][Next]_vars
    /\ WF_vars(StartLogger \/ LogSample \/ EndPeriod) /\ WF_vars(StopFaaSLogger) /\ WF_vars(Select)
    /\ \A w \in Workers : WF_vars(closer[w] = "run" /\ CloseWorker(w))

-----------------------------------------------------------------------------
(* Properties. *)

\* The counters stay within their bounds and every process has a place.
TypeOK ==
    /\ ctl \in {"cli", "closing", "ok", "error"}
    /\ closer \in [Workers -> {"none", "run", "clean", "cleanAfterError", "send", "done"}]
    /\ stopper \in {"none", "run", "spin", "done"}
    /\ logger \in {"spawned", "sample", "sleep", "returned"} /\ state \in 0..2
    /\ unread \subseteq Workers /\ traffic \in BOOLEAN /\ logOn \in BOOLEAN
    /\ snapshotStore \in Seq(BOOLEAN) /\ Len(snapshotStore) < MaxSamples + IdleSamples
    /\ idleCounter \in 0..IdleSamples /\ logIndex \in 0..MaxTests
    /\ {testDuration, usage} \subseteq (0..MaxTests - 1) \cup {None}

\* The file of a test starts and ends with a sample that had traffic: the cut
\* removes the idle tail and nothing else, so the store is never empty when
\* WriteResultsToFile reads its first element (sys_measure.go:88-89, 139).
FileIsTheTest ==
    written # <<>> =>
        LET s == written.samples IN Len(s) > 0 /\ s[1] /\ s[Len(s)]

\* The metrics in a file are those of its test; a test too short for metrics
\* has none, but for the duration, which is then the one of an earlier test.
FileHasOwnMetrics ==
    written # <<>> =>
        /\ written.usage \in {None, written.test}
        /\ Len(written.samples) >= MinSamples =>
              written.usage = written.test /\ written.duration = written.test

\* Close answers nil only when every worker is closed and the logger will write
\* nothing more (controller.go:124-158).
CloseNil ==
    ctl = "ok" => (\A w \in Workers : closer[w] = "done") /\ logger = "returned"

\* The logger started after the request to stop, and overwrote it.
StopLost == stopper = "spin" /\ state = 0

\* Close returns, with or without an error, unless a worker's clean-up holds its
\* mutex for ever, the logger waits for ever on a worker, or the logger goroutine
\* first ran after the request to stop.
CloseReturns ==
    (ctl = "closing") ~>
        \/ ctl \in {"ok", "error"} \/ []StopLost
        \/ \E w \in Workers : []Locked(w) \/ [](logger = "sample" /\ w \in unread)
=============================================================================
