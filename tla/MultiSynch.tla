----------------------------- MODULE MultiSynch -----------------------------
(***************************************************************************)
(* The synchronous multi-RPC of the global client:                         *)
(* xmlrpc_globalclient_multi_synch and its thread routine performSynch     *)
(* (xmlrpc_client_global.c).                                               *)
(*                                                                         *)
(* For each of the `semantic' servers the caller creates a server info,    *)
(* creates a detached thread that calls the server with it, "joins" that   *)
(* thread, and frees the server info.  The thread calls the server         *)
(* through the caller's env, exits the process on a fault, and otherwise   *)
(* counts itself in the static `count' under the call's mutex unless      *)
(* `count' has reached `semantic'.  The function is called Calls times in  *)
(* a program; `count' is static and is never reset, while every call       *)
(* mallocs a mutex of its own.                                             *)
(***************************************************************************)
EXTENDS Naturals

CONSTANTS
    NS,             \* semantic: the number of servers of one call
    Calls,          \* calls of xmlrpc_globalclient_multi_synch in a program
    FaultsPossible  \* server info creation and call2 can fault

\* A thread: the call that created it and its server.
Threads == (1..Calls) \X (1..NS)

NoHolder == <<0, 0>>

VARIABLES
    caller,    \* "loop" | "join" | "done" | "dead" (the process exited)
    call,      \* which call of multi_synch the caller is in
    k,         \* the caller's loop counter, plus one
    envFault,  \* envP->fault_occurred of the env every thread shares
    info,      \* info[t]: "none" | "live" | "freed": the thread's serverInfoP
    tpc,       \* tpc[t]: "unborn" | "call" | "lock" | "test" | "store" | "done"
    count,     \* the static count
    mutex,     \* mutex[c]: holder of the requestMutex call c malloc'd
    tmp        \* tmp[t]: the value of count loaded by count++

vars == <<caller, call, k, envFault, info, tpc, count, mutex, tmp>>

\* The thread of the current call for the current server.
Current == <<call, k>>

-----------------------------------------------------------------------------

Init ==
    /\ caller = "loop"
    /\ call = 1
    /\ k = 1
    /\ envFault = FALSE
    /\ info = [t \in Threads |-> "none"]
    /\ tpc = [t \in Threads |-> "unborn"]
    /\ count = 0
    /\ mutex = [c \in 1..Calls |-> NoHolder]
    /\ tmp = [t \in Threads |-> 0]

\* Loop body: xmlrpc_server_info_new on the shared env; on success fill the
\* thread's parameters and pthread_create a detached thread; on a fault
\* (or a fault left by an earlier server) skip the server.
NewInfo ==
    /\ caller = "loop"
    /\ k <= NS
    /\ \/ /\ ~envFault
          /\ info' = [info EXCEPT ![Current] = "live"]
          /\ tpc' = [tpc EXCEPT ![Current] = "call"]
          /\ caller' = "join"
          /\ UNCHANGED <<envFault, k>>
       \/ /\ envFault \/ FaultsPossible
          /\ envFault' = TRUE
          /\ k' = k + 1
          /\ UNCHANGED <<info, tpc, caller>>
    /\ UNCHANGED <<call, count, mutex, tmp>>

\* pthread_join on a thread created detached is undefined; glibc returns
\* an error at once without waiting.  Then va_end and
\* xmlrpc_server_info_free, and the next server.
JoinAndFree ==
    /\ caller = "join"
    /\ info' = [info EXCEPT ![Current] = "freed"]
    /\ k' = k + 1
    /\ caller' = "loop"
    /\ UNCHANGED <<call, envFault, tpc, count, mutex, tmp>>

\* The loop is over: the function returns, and the program calls it
\* again or is done.
Return ==
    /\ caller = "loop"
    /\ k > NS
    /\ IF call < Calls
         THEN /\ call' = call + 1
              /\ k' = 1
              /\ UNCHANGED caller
         ELSE /\ caller' = "done"
              /\ UNCHANGED <<call, k>>
    /\ UNCHANGED <<envFault, info, tpc, count, mutex, tmp>>

\* performSynch up to the lock: validateGlobalClientExists, build the
\* parameters and xmlrpc_client_call2 with the thread's server info, unless
\* the shared env is faulted; then xmlrpc_read_int, and exit(1) if the env
\* is faulted by then.
CallServer(t) ==
    /\ tpc[t] = "call"
    /\ caller # "dead"
    /\ \E fault \in IF envFault \/ FaultsPossible THEN {TRUE, FALSE}
                                                  ELSE {FALSE} :
          LET faulted == envFault \/ fault
          IN  /\ envFault' = faulted
              /\ IF faulted
                   THEN /\ caller' = "dead"
                        /\ UNCHANGED tpc
                   ELSE /\ tpc' = [tpc EXCEPT ![t] = "lock"]
                        /\ UNCHANGED caller
    /\ UNCHANGED <<call, k, info, count, mutex, tmp>>

\* pthread_mutex_lock(paramPtr->requestMutex): the mutex of the thread's
\* own call.
Lock(t) ==
    /\ tpc[t] = "lock"
    /\ caller # "dead"
    /\ mutex[t[1]] = NoHolder
    /\ mutex' = [mutex EXCEPT ![t[1]] = t]
    /\ tpc' = [tpc EXCEPT ![t] = "test"]
    /\ UNCHANGED <<caller, call, k, envFault, info, count, tmp>>

\* if (count >= semantic) unlock and pthread_exit; else the load of count++.
Test(t) ==
    /\ tpc[t] = "test"
    /\ caller # "dead"
    /\ IF count >= NS
         THEN /\ mutex' = [mutex EXCEPT ![t[1]] = NoHolder]
              /\ tpc' = [tpc EXCEPT ![t] = "done"]
              /\ UNCHANGED tmp
         ELSE /\ tmp' = [tmp EXCEPT ![t] = count]
              /\ tpc' = [tpc EXCEPT ![t] = "store"]
              /\ UNCHANGED mutex
    /\ UNCHANGED <<caller, call, k, envFault, info, count>>

\* The store of count++, then pthread_mutex_unlock.
Store(t) ==
    /\ tpc[t] = "store"
    /\ caller # "dead"
    /\ count' = tmp[t] + 1
    /\ mutex' = [mutex EXCEPT ![t[1]] = NoHolder]
    /\ tpc' = [tpc EXCEPT ![t] = "done"]
    /\ UNCHANGED <<caller, call, k, envFault, info, tmp>>

-----------------------------------------------------------------------------

Thread(t) == CallServer(t) \/ Lock(t) \/ Test(t) \/ Store(t)

Next == NewInfo \/ JoinAndFree \/ Return \/ \E t \in Threads : Thread(t)

Spec == Init /\ [][Next]_vars

-----------------------------------------------------------------------------
(* Properties                                                              *)

TypeOK ==
    /\ caller \in {"loop", "join", "done", "dead"}
    /\ call \in 1..Calls
    /\ k \in 1..NS + 1
    /\ envFault \in BOOLEAN
    /\ info \in [Threads -> {"none", "live", "freed"}]
    /\ tpc \in [Threads -> {"unborn", "call", "lock", "test", "store", "done"}]
    /\ count \in 0..NS
    /\ mutex \in [1..Calls -> Threads \cup {NoHolder}]
    /\ tmp \in [Threads -> 0..NS]

\* A thread calls its server only with a server info that the caller has
\* not yet freed.
InfoLiveWhileCalled ==
    [][\A t \in Threads : CallServer(t) /\ ~envFault => info[t] = "live"]_vars


\* The threads that have left the count section.
Finished == {t \in Threads : tpc[t] = "done"}

SC == INSTANCE SynchCountSpec WITH Semantic <- NS, finished <- Finished

\* The count section of performSynch is one atomic, bounded increment per
\* thread: no thread's count++ is lost and none counts twice.
ImplementsSynchCount == SC!Spec

=============================================================================
