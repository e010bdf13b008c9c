---------------------------- MODULE FanoutGroup ----------------------------
(***************************************************************************)
(* One asynchronous multi-RPC: the fan-out of one call to N servers and    *)
(* the completion group that the N completions share.                      *)
(*                                                                         *)
(*   multirpc_globalclient_asynch   (src/xmlrpc_client_global.c)           *)
(*     spawns one detached thread per server; every thread shares the      *)
(*     caller's env, the counters *requestsRequired / *requestsCompleted   *)
(*     and one pthread mutex.                                              *)
(*   performAsynch                  (src/xmlrpc_client_global.c)           *)
(*     builds the server info and calls xmlrpc_client_start_rpc, or calls  *)
(*     the user's handler directly when the shared env holds a fault.      *)
(*   xmlrpc_client_start_rpc        (src/xmlrpc_client.c)                  *)
(*     creates the call info and hands the request to the transport.       *)
(*   asynchComplete                 (src/xmlrpc_client.c)                  *)
(*     the transport's completion callback: increments the counter under   *)
(*     the mutex, then (outside it) compares the counter with the required *)
(*     count; the caller that sees them equal calls the user's completion  *)
(*     function and frees the counters and the mutex.                      *)
(*                                                                         *)
(* Each server's thread, and later the transport's callback for that       *)
(* server, is one process w \in Workers with program counter pc[w].  The   *)
(* read-modify-write of the counter is split into its load and its store,  *)
(* as the C statement compiles, so that the mutex is what makes it safe.   *)
(***************************************************************************)
EXTENDS Naturals, FiniteSets

CONSTANTS
    N,                \* number of servers: *requestsRequired at dispatch
    Required,         \* the value stored in *newRequestsRequired
    StartMayFail,     \* xmlrpc_server_info_new / start_rpc can fail
    SerialCompletion  \* the transport runs completions one at a time

ASSUME NAssumption == N \in Nat \ {0}
ASSUME RequiredAssumption == Required \in Nat
ASSUME FlagsAssumption == StartMayFail \in BOOLEAN /\ SerialCompletion \in BOOLEAN

Workers == 1..N

\* The mutex is free when its holder is NoHolder.
NoHolder == 0

VARIABLES
    pc,         \* pc[w]: where server w's thread / completion is
    completed,  \* *requestsCompleted
    mutex,      \* holder of *requestMutex, or NoHolder
    tmp,        \* tmp[w]: the value of *requestsCompleted loaded by w
    order,      \* order[w]: requestOrder of w's completion, 0 before it
    envFault,   \* env.fault_occurred of the env all threads share
    failed,     \* servers whose own setup step faulted (auxiliary)
    direct,     \* servers whose handler performAsynch called directly
    freed,      \* counters and mutex freed by asynchComplete
    fired       \* calls of the user's completion function from asynchComplete

vars == <<pc, completed, mutex, tmp, order, envFault, failed, direct,
          freed, fired>>

\* The steps of asynchComplete that touch the group's shared memory.
SharedSteps == {"lock", "load", "store", "unlock", "check", "progress", "report"}

PCs == {"unborn", "created", "checkEnv", "startRpc", "inFlight"}
         \cup SharedSteps \cup {"done"}

-----------------------------------------------------------------------------
(* Dispatch: multirpc_globalclient_asynch has allocated and zeroed the     *)
(* counters and initialised the mutex; its loop creates the threads in     *)
(* server order.                                                           *)

Init ==
    /\ pc = [w \in Workers |-> "unborn"]
    /\ completed = 0
    /\ mutex = NoHolder
    /\ tmp = [w \in Workers |-> 0]
    /\ order = [w \in Workers |-> 0]
    /\ envFault = FALSE
    /\ failed = {}
    /\ direct = {}
    /\ freed = FALSE
    /\ fired = 0

\* pthread_create for server w, after the threads of servers 1..w-1.
Spawn(w) ==
    /\ pc[w] = "unborn"
    /\ \A v \in 1..(w - 1) : pc[v] # "unborn"
    /\ pc' = [pc EXCEPT ![w] = "created"]
    /\ UNCHANGED <<completed, mutex, tmp, order, envFault, failed, direct,
                   freed, fired>>

\* performAsynch: xmlrpc_server_info_new, which faults the shared env on
\* failure.
ServerInfoNew(w) ==
    /\ pc[w] = "created"
    /\ pc' = [pc EXCEPT ![w] = "checkEnv"]
    /\ \/ UNCHANGED <<envFault, failed>>
       \/ /\ StartMayFail
          /\ envFault' = TRUE
          /\ failed' = failed \cup {w}
    /\ UNCHANGED <<completed, mutex, tmp, order, direct, freed, fired>>

\* performAsynch: the test of the SHARED env's fault flag.  On a fault the
\* thread calls the user's handler itself and exits; no completion of w
\* will ever reach asynchComplete.
CheckEnv(w) ==
    /\ pc[w] = "checkEnv"
    /\ IF envFault
         THEN /\ pc' = [pc EXCEPT ![w] = "done"]
              /\ direct' = direct \cup {w}
         ELSE /\ pc' = [pc EXCEPT ![w] = "startRpc"]
              /\ UNCHANGED direct
    /\ UNCHANGED <<completed, mutex, tmp, order, envFault, failed, freed, fired>>

\* xmlrpc_client_start_rpc: callInfoCreate then transportOps.send_request.
\* Either may fault the (shared) env; then the call info is destroyed and
\* the request is never sent.
StartRpc(w) ==
    /\ pc[w] = "startRpc"
    /\ \/ /\ pc' = [pc EXCEPT ![w] = "inFlight"]
          /\ UNCHANGED <<envFault, failed>>
       \/ /\ StartMayFail
          /\ pc' = [pc EXCEPT ![w] = "done"]
          /\ envFault' = TRUE
          /\ failed' = failed \cup {w}
    /\ UNCHANGED <<completed, mutex, tmp, order, direct, freed, fired>>

\* Mutant: a transport that notifies a completion a second time.
DeliverTwice(w) ==
    /\ \/ pc[w] = "inFlight"
       \/ pc[w] = "done" /\ order[w] # 0
    /\ SerialCompletion => \A v \in Workers : pc[v] \notin SharedSteps
    /\ pc' = [pc EXCEPT ![w] = "lock"]
    /\ UNCHANGED <<completed, mutex, tmp, order, envFault, failed, direct,
                   freed, fired>>

\* The transport completes the RPC of server w and calls asynchComplete,
\* once.  A serialising transport runs one completion at a time.
Deliver(w) ==
    /\ pc[w] = "inFlight"
    /\ SerialCompletion => \A v \in Workers : pc[v] \notin SharedSteps
    /\ pc' = [pc EXCEPT ![w] = "lock"]
    /\ UNCHANGED <<completed, mutex, tmp, order, envFault, failed, direct,
                   freed, fired>>

-----------------------------------------------------------------------------
(* asynchComplete                                                          *)

\* Mutant: the increment done without taking the mutex.
LockUnguarded(w) ==
    /\ pc[w] = "lock"
    /\ pc' = [pc EXCEPT ![w] = "load"]
    /\ UNCHANGED <<completed, mutex, tmp, order, envFault, failed, direct,
                   freed, fired>>

\* pthread_mutex_lock(callInfoP->requestMutex)
Lock(w) ==
    /\ pc[w] = "lock"
    /\ mutex = NoHolder
    /\ mutex' = w
    /\ pc' = [pc EXCEPT ![w] = "load"]
    /\ UNCHANGED <<completed, tmp, order, envFault, failed, direct, freed, fired>>

\* *(requestsCompleted) + 1: the load
Load(w) ==
    /\ pc[w] = "load"
    /\ tmp' = [tmp EXCEPT ![w] = completed]
    /\ pc' = [pc EXCEPT ![w] = "store"]
    /\ UNCHANGED <<completed, mutex, order, envFault, failed, direct, freed, fired>>

\* the store, and requestOrder = *(requestsCompleted)
Store(w) ==
    /\ pc[w] = "store"
    /\ completed' = tmp[w] + 1
    /\ order' = [order EXCEPT ![w] = tmp[w] + 1]
    /\ pc' = [pc EXCEPT ![w] = "unlock"]
    /\ UNCHANGED <<mutex, tmp, envFault, failed, direct, freed, fired>>

\* pthread_mutex_unlock(callInfoP->requestMutex)
Unlock(w) ==
    /\ pc[w] = "unlock"
    /\ mutex' = NoHolder
    /\ pc' = [pc EXCEPT ![w] = "check"]
    /\ UNCHANGED <<completed, tmp, order, envFault, failed, direct, freed, fired>>

\* Mutant: the quorum test off by one.
CheckOffByOne(w) ==
    /\ pc[w] = "check"
    /\ \E quorum \in IF freed THEN BOOLEAN ELSE {completed + 1 >= Required} :
          pc' = [pc EXCEPT ![w] = IF quorum THEN "report" ELSE "progress"]
    /\ UNCHANGED <<completed, mutex, tmp, order, envFault, failed, direct,
                   freed, fired>>

\* Mutant: the quorum test asks for more completions than are required.
CheckPastQuorum(w) ==
    /\ pc[w] = "check"
    /\ \E quorum \in IF freed THEN BOOLEAN ELSE {completed > Required} :
          pc' = [pc EXCEPT ![w] = IF quorum THEN "report" ELSE "progress"]
    /\ UNCHANGED <<completed, mutex, tmp, order, envFault, failed, direct,
                   freed, fired>>

\* if (*requestsCompleted == *requestsRequired), read after the unlock.
\* Once the counters are freed the read is undefined: either outcome.
Check(w) ==
    /\ pc[w] = "check"
    /\ \E quorum \in IF freed THEN BOOLEAN ELSE {completed = Required} :
          pc' = [pc EXCEPT ![w] = IF quorum THEN "report" ELSE "progress"]
    /\ UNCHANGED <<completed, mutex, tmp, order, envFault, failed, direct,
                   freed, fired>>

\* else branch: the progress printf reads both counters again.
Progress(w) ==
    /\ pc[w] = "progress"
    /\ pc' = [pc EXCEPT ![w] = "done"]
    /\ UNCHANGED <<completed, mutex, tmp, order, envFault, failed, direct,
                   freed, fired>>

\* Mutant: a trailing progress message that reads the freed counters.
ReportThenLog(w) ==
    /\ pc[w] = "report"
    /\ fired' = fired + 1
    /\ freed' = TRUE
    /\ pc' = [pc EXCEPT ![w] = "progress"]
    /\ UNCHANGED <<completed, mutex, tmp, order, envFault, failed, direct>>

\* then branch: parse the response, call the user's completion function,
\* destroy the call info, free both counters and destroy the mutex.
Report(w) ==
    /\ pc[w] = "report"
    /\ fired' = fired + 1
    /\ freed' = TRUE
    /\ pc' = [pc EXCEPT ![w] = "done"]
    /\ UNCHANGED <<completed, mutex, tmp, order, envFault, failed, direct>>

-----------------------------------------------------------------------------

Step(w) ==
    \/ Spawn(w) \/ ServerInfoNew(w) \/ CheckEnv(w) \/ StartRpc(w)
    \/ Deliver(w)
    \/ Lock(w) \/ Load(w) \/ Store(w) \/ Unlock(w)
    \/ Check(w) \/ Progress(w) \/ Report(w)

Next == \E w \in Workers : Step(w)

\* Threads are scheduled fairly by the OS, and the transport promises to
\* call asynchComplete for every request it accepted.
Fairness == \A w \in Workers : WF_vars(Step(w))

Spec == Init /\ [][Next]_vars /\ Fairness

-----------------------------------------------------------------------------
(* Properties                                                              *)

TypeOK ==
    /\ pc \in [Workers -> PCs]
    /\ completed \in 0..N
    /\ mutex \in Workers \cup {NoHolder}
    /\ tmp \in [Workers -> 0..N]
    /\ order \in [Workers -> 0..N]
    /\ envFault \in BOOLEAN
    /\ failed \subseteq Workers
    /\ direct \subseteq Workers
    /\ freed \in BOOLEAN
    /\ fired \in Nat

\* The servers whose completion has been counted.
Recorded == {w \in Workers : order[w] # 0}

\* No completion is lost or counted twice by the mutex-protected increment
\* in asynchComplete: the requestOrders handed out are exactly 1..completed,
\* one per recorded completion.
NoLostUpdate ==
    /\ {order[w] : w \in Recorded} = 1..completed
    /\ Cardinality(Recorded) = completed

\* The user's completion function is never called from asynchComplete
\* before the completions of all N servers have been counted.
NoPrematureReport == fired > 0 => completed = N

\* asynchComplete calls the user's completion function at most once per
\* multi-RPC.
AtMostOneReport == fired <= 1

\* Once asynchComplete has freed the counters and destroyed the mutex, no
\* completion is still about to read or write them.
NoUseAfterFree == freed => \A w \in Workers : pc[w] \notin SharedSteps

\* The completion that calls the user's completion function (and so hands
\* it its own response) is the one whose increment brought the counter to
\* the required count: the last-arriving completion.
ReportByQuorumCompletion ==
    [][\A w \in Workers : Report(w) => order[w] = Required]_vars

\* A server's request is abandoned through the direct-handler path of
\* performAsynch only when that server's own setup failed.
FaultContained == direct \subseteq failed

-----------------------------------------------------------------------------
(* The inductive strengthening of NoLostUpdate (and of TypeOK, whose      *)
(* bound on the counter rests on it), proved in FanoutGroupProofs.        *)

\* Steps before a completion's store: its requestOrder is still unset.
PreStore == {"unborn", "created", "checkEnv", "startRpc", "inFlight",
             "lock", "load", "store"}

\* The mutex is held by the one completion inside the critical section.
MutexHeld == \A w \in Workers : pc[w] \in {"load", "store", "unlock"} => mutex = w

\* The value a completion loaded is still the counter when it stores.
LoadedCurrent == \A w \in Workers : pc[w] = "store" => tmp[w] = completed

\* A completion that has not stored has no requestOrder.
UnorderedBeforeStore == \A w \in Workers : pc[w] \in PreStore => order[w] = 0

IInv == TypeOK /\ MutexHeld /\ LoadedCurrent /\ UnorderedBeforeStore /\ NoLostUpdate

\* Every multi-RPC eventually calls the user's completion function.
EventuallyReported == <>(fired > 0)

-----------------------------------------------------------------------------
(* Refinement: the counter of asynchComplete is the group's count, the     *)
(* completion-function calls are its reports, and the free of the counters *)
(* and the mutex is its retirement.                                        *)

CG == INSTANCE CompletionGroupSpec WITH reports <- fired, retired <- freed

\* The group of asynchComplete behaves as the spec's CompletionGroup: each
\* counted completion is one atomic recordCompletion before retirement, the
\* completion function is called once, at the quorum, together with the
\* free of the counters and the mutex, and it is called once the quorum is
\* reached.
ImplementsCompletionGroup == CG!Spec

=============================================================================
