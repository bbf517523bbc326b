----------------------------- MODULE InstanceRpc -----------------------------
(***************************************************************************)
(* RPCs to an NF instance, with trials and back-off: setCycles, setBatch   *)
(* and connect of controller/instance.go, grpc/grpc_client.go and          *)
(* utils/backoff.go.  An instance is used by preprocessBeforeReady of its  *)
(* SGroup, under sg.mutex, and by the commands "cycle" and "batch", under  *)
(* the worker's sgMutex: nothing keeps the two apart.                      *)
(*                                                                         *)
(* The module has the variables and steps of the calls; Metron composes    *)
(* them with the SGroups.  An instance stands for its SGroup: a chain      *)
(* whose cycles are set has one.                                           *)
(***************************************************************************)
EXTENDS Naturals, FiniteSets

CONSTANTS
    SGroups,
    Console,          \* the user that runs the commands
    MaxRpcConnTrials, \* kMaxRpcConnTrials, 3 in the code
    MaxRpcCallTrials, \* kMaxRpcCallTrials, 5
    MaxRpcFaults,     \* bound: trials that fail or time out
    MaxCommands,      \* bound: commands of the user
    Detailed,         \* bound: the instances whose calls may fail or meet a command
    None

\* In units of 100 ms: Backoff.Min and Max, kGrpcConnTimeout, kGrpcReqTimeout.
MinDelay    == 1
MaxDelay    == 50
ConnTimeout == 50
ReqTimeout  == 10

ASSUME RpcAssumption ==
    /\ {MaxRpcConnTrials, MaxRpcCallTrials} \subseteq Nat \ {0}
    /\ {MaxRpcFaults, MaxCommands} \subseteq Nat /\ Detailed \subseteq SGroups
    /\ Console \notin SGroups /\ None \notin SGroups

VARIABLES
    connected,  \* ins.grpcConn is not nil
    attempt,    \* ins.backoff.attempt
    rpc,        \* each user's call: label, instance, trial
    waited,     \* the longest preprocessBeforeReady may hold sg.mutex so far
    rpcFaults, commands,
    gaveUp,     \* history: instances whose set-up ran out of trials, and of which
    shared      \* history: instances both users called at once

rpcVars == <<connected, attempt, rpc, waited, rpcFaults, commands, gaveUp,
             shared>>
Callers == SGroups \cup {Console}
NoRpc == [at |-> "none", ins |-> None, try |-> 0]

RpcInit ==
    /\ connected = [g \in SGroups |-> FALSE] /\ attempt = [g \in SGroups |-> 0]
    /\ rpc = [u \in Callers |-> NoRpc] /\ waited = [g \in SGroups |-> 0]
    /\ rpcFaults = 0 /\ commands = 0 /\ gaveUp = {} /\ shared = {}

Calling(u) == rpc[u].at # "none"

\* Min * Factor^attempt.
Grown[n \in Nat] == IF n = 0 THEN MinDelay ELSE 2 * Grown[n - 1]

\* ForAttempt without its jitter, which only shortens the delay: never more than
\* Max.
ForAttempt(n) == IF Grown[n] > MaxDelay THEN MaxDelay ELSE Grown[n]

\* Duration takes the delay of this attempt and counts it.
Waits(u, ms) == waited' = IF u = Console THEN waited ELSE [waited EXCEPT ![u] = @ + ms]

\* Mutant: the count of connect goes on.
NoReset(g) == attempt' = attempt

\* Backoff.Reset, before connect's trials and again before the calls'.
Reset(g) == attempt' = [attempt EXCEPT ![g] = 0]

\* setCycles or setBatch of instance g begins.
StartRpc(u, g) ==
    /\ ~Calling(u) /\ g \in Detailed /\ Reset(g)
    /\ IF u = Console THEN commands < MaxCommands /\ commands' = commands + 1
       ELSE UNCHANGED commands
    /\ rpc' = [rpc EXCEPT ![u] = [at |-> IF connected[g] THEN "call" ELSE "connect",
                                  ins |-> g, try |-> 0]]
    /\ shared' = IF \E v \in Callers \ {u} : rpc[v].ins = g
                 THEN shared \cup {g} ELSE shared
    /\ UNCHANGED <<connected, waited, rpcFaults, gaveUp>>

EndTrials(u) == rpc' = [rpc EXCEPT ![u].at = "done"]

\* Mutant: one trial too few.
LastTrialEarly(try, max) == try + 2 >= max

LastTrial(try, max) == try + 1 >= max

\* A trial of u fails: it sleeps, then tries again or gives up.
FailTrial(u, max, time) ==
    LET g == rpc[u].ins IN
    /\ attempt' = [attempt EXCEPT ![g] = @ + 1]
    /\ Waits(u, time + ForAttempt(attempt[g]))
    /\ IF LastTrial(rpc[u].try, max)
       THEN EndTrials(u) /\ gaveUp' = IF u = Console THEN gaveUp ELSE gaveUp \cup {<<g, rpc[u].at>>}
       ELSE /\ rpc' = [rpc EXCEPT ![u].try = @ + 1]
            /\ UNCHANGED gaveUp

Fault == rpcFaults < MaxRpcFaults /\ rpcFaults' = rpcFaults + 1

\* EstablishConnection stores the connection or, on an error, nil, also in the
\* place of one the other user has just established.
TryConnect(u) ==
    LET g == rpc[u].ins IN
    /\ rpc[u].at = "connect"
    /\ \/ /\ connected' = [connected EXCEPT ![g] = TRUE] /\ Reset(g)
          /\ rpc' = [rpc EXCEPT ![u].at = "call", ![u].try = 0]
          /\ Waits(u, ConnTimeout) /\ UNCHANGED <<rpcFaults, gaveUp>>
       \/ /\ Fault /\ connected' = [connected EXCEPT ![g] = FALSE]
          /\ FailTrial(u, MaxRpcConnTrials, ConnTimeout)
    /\ UNCHANGED <<commands, shared>>

\* A call without a connection fails at once, and no trial connects again.
TryCall(u) ==
    LET g == rpc[u].ins IN
    /\ rpc[u].at = "call"
    /\ \/ /\ connected[g] /\ EndTrials(u) /\ Waits(u, ReqTimeout)
          /\ UNCHANGED <<attempt, rpcFaults, gaveUp>>
       \/ /\ IF connected[g] THEN Fault ELSE UNCHANGED rpcFaults
          /\ FailTrial(u, MaxRpcCallTrials, ReqTimeout)
    /\ UNCHANGED <<connected, commands, shared>>

\* setCycles or setBatch returns, and the caller releases its mutex.
EndRpc(u) ==
    /\ rpc[u].at = "done" /\ rpc' = [rpc EXCEPT ![u] = NoRpc]
    /\ waited' = IF u = Console THEN waited ELSE [waited EXCEPT ![u] = 0]
    /\ UNCHANGED <<connected, attempt, rpcFaults, commands, gaveUp, shared>>

RpcStep(u) == TryConnect(u) \/ TryCall(u) \/ EndRpc(u)

-----------------------------------------------------------------------------
RpcTypeOK ==
    /\ connected \in [SGroups -> BOOLEAN] /\ attempt \in [SGroups -> Nat]
    /\ \A u \in Callers : /\ rpc[u].at \in {"none", "connect", "call", "done"}
                          /\ rpc[u].ins \in SGroups \cup {None}
                          /\ rpc[u].try \in 0..MaxRpcConnTrials + MaxRpcCallTrials
    /\ waited \in [SGroups -> Nat] /\ rpcFaults \in 0..MaxRpcFaults
    /\ commands \in 0..MaxCommands
    /\ gaveUp \subseteq SGroups \X {"connect", "call"} /\ shared \subseteq SGroups

\* The set-up of a chain gives up an instance only after as many failures as the
\* code has trials, unless a command used the instance at the same time: a failed
\* connect of one drops the connection of the other, whose trials all fail then
\* (instance.go:12-14: "Instance is not a thread-safe type").
RetriesEnough ==
    \A t \in gaveUp : t[1] \in shared \/ rpcFaults >= (IF t[2] = "connect" THEN MaxRpcConnTrials
                                                                   ELSE MaxRpcCallTrials)

\* The sum of the delays of the first n attempts.
Delays(n) == LET sum[k \in Nat] == IF k = 0 THEN 0 ELSE sum[k - 1] + ForAttempt(k - 1)
             IN sum[n]

\* All connects fail, or the last succeeds and all calls fail.
LongestHold ==
    LET connects == MaxRpcConnTrials * ConnTimeout + Delays(MaxRpcConnTrials)
        calls    == MaxRpcConnTrials * ConnTimeout + Delays(MaxRpcConnTrials - 1)
                    + MaxRpcCallTrials * ReqTimeout + Delays(MaxRpcCallTrials)
    IN IF calls > connects THEN calls ELSE connects

\* With the code's trials and time-outs sg.mutex is held at most 23.4 s for an
\* instance: longer than the 20 s for which Metron polls IsReady, which waits.
HoldBound == \A g \in SGroups \ shared : waited[g] <= LongestHold
=============================================================================
