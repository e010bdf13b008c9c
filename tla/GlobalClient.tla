---------------------------- MODULE GlobalClient ----------------------------
(***************************************************************************)
(* The process-wide global client and the example drivers that use it for  *)
(* repeated multi-RPCs.                                                    *)
(*                                                                         *)
(* The caller (main of the example clients) creates the global client with *)
(* xmlrpc_client_init2, runs Rounds multi-RPCs to N servers, and destroys  *)
(* the client with xmlrpc_client_cleanup before returning.  Every          *)
(* multi-RPC spawns one thread per server; each thread uses globalClientP  *)
(* to start its RPC, and the transport later completes it.                 *)
(*                                                                         *)
(* Two versions of multirpc_globalclient_asynch exist:                     *)
(*   Joined = TRUE:  xmlrpc_client_global_stable_verstion.c, used by       *)
(*     multi_rpc_client_asynch_version2.c: joinable threads, joined, then  *)
(*     the event loop finished, before it returns;                         *)
(*   Joined = FALSE: xmlrpc_client_global.c, used by                       *)
(*     multi_rpc_client.c: detached threads, returns at once; the          *)
(*     caller then finishes the event loop itself.                         *)
(* What a thread and a completion do with the group's counters is          *)
(* FanoutGroup's subject; here a thread's request is only started, in      *)
(* flight, or done.                                                        *)
(***************************************************************************)
EXTENDS Naturals

CONSTANTS
    N,        \* servers per multi-RPC
    Rounds,   \* requestsForMultiRpc, from argv[1]
    Joined,       \* which multirpc_globalclient_asynch the driver links
    InitChecked   \* the driver calls die_if_fault_occurred after init2

ASSUME GlobalNAssumption == N \in Nat \ {0}
ASSUME RoundsAssumption == Rounds \in Nat \ {0}
ASSUME JoinedAssumption == Joined \in BOOLEAN /\ InitChecked \in BOOLEAN

Servers == 1..N

\* A thread: the multi-RPC round that spawned it and its server.
Threads == (1..Rounds) \X Servers

VARIABLES
    client,   \* "none" | "live" | "destroyed": globalClientExists and globalClientP
    caller,   \* where main is
    round,    \* the driver's loop counter, plus one
    thr       \* thr[t]: "unborn" | "running" | "inFlight" | "done"

vars == <<client, caller, round, thr>>

CallerPCs == {"init", "dispatch", "join", "innerFinish", "wait", "cleanup",
              "return", "exited"}

ThreadPCs == {"unborn", "running", "inFlight", "done"}

\* The threads dispatched so far.
Dispatched == {t \in Threads : thr[t] # "unborn"}

\* Mutant: the transport counts every request of the program as pending,
\* the ones not yet started included.
NothingInFlightAllRounds == \A t \in Threads : thr[t] = "done"

\* transportOps.finish_asynch with timeout_no returns once no RPC started
\* on the client is still in progress.
NothingInFlight == \A t \in Threads : thr[t] # "inFlight"

-----------------------------------------------------------------------------

Init ==
    /\ client = "none"
    /\ caller = "init"
    /\ round = 1
    /\ thr = [t \in Threads |-> "unborn"]

\* The driver's reaction to a fault of xmlrpc_client_init2:
\* multi_rpc_client.c exits, version2 carries on.
AfterInitFault == IF InitChecked THEN "exited" ELSE "dispatch"

\* xmlrpc_client_init2: it faults if the client exists already, or if
\* global-constant setup or client creation fails.
Init2 ==
    /\ caller = "init"
    /\ IF client = "live"
         THEN /\ caller' = AfterInitFault
              /\ UNCHANGED client
         ELSE \/ /\ client' = "live"
                 /\ caller' = "dispatch"
              \/ /\ caller' = AfterInitFault
                 /\ UNCHANGED client
    /\ UNCHANGED <<round, thr>>

\* multirpc_globalclient_asynch: validateGlobalClientExists, then one
\* pthread_create per server; the failure branch only prints.
Dispatch ==
    /\ caller = "dispatch"
    /\ IF client = "live"
         THEN thr' = [t \in Threads |->
                        IF t[1] = round THEN "running" ELSE thr[t]]
         ELSE UNCHANGED thr
    /\ caller' = IF Joined /\ client = "live" THEN "join" ELSE "wait"
    /\ UNCHANGED <<client, round>>

\* Mutant: the threads are not joined.
JoinNoWait ==
    /\ caller = "join"
    /\ caller' = "innerFinish"
    /\ UNCHANGED <<client, round, thr>>

\* Stable version: sleep(5), then pthread_join on every thread of the
\* round: each has returned from xmlrpc_client_start_rpcf.
Join ==
    /\ caller = "join"
    /\ \A s \in Servers : thr[<<round, s>>] # "running"
    /\ caller' = "innerFinish"
    /\ UNCHANGED <<client, round, thr>>

\* Mutant: the event loop finished without waiting.
InnerFinishNoWait ==
    /\ caller = "innerFinish"
    /\ caller' = "wait"
    /\ UNCHANGED <<client, round, thr>>

\* Stable version: xmlrpc_client_event_loop_finish_asynch before returning.
InnerFinish ==
    /\ caller = "innerFinish"
    /\ NothingInFlight
    /\ caller' = "wait"
    /\ UNCHANGED <<client, round, thr>>

\* Mutant: one round too many.
WaitOffByOne ==
    /\ caller = "wait"
    /\ ~Joined => NothingInFlight
    /\ IF round <= Rounds
         THEN /\ round' = round + 1
              /\ caller' = "dispatch"
         ELSE /\ caller' = "cleanup"
              /\ UNCHANGED round
    /\ UNCHANGED <<client, thr>>

\* The driver's loop body after the call: multi_rpc_client.c waits
\* with xmlrpc_client_event_loop_finish_asynch, version2 does not; then
\* the next round, or leave the loop.
Wait ==
    /\ caller = "wait"
    /\ ~Joined => NothingInFlight
    /\ IF round < Rounds
         THEN /\ round' = round + 1
              /\ caller' = "dispatch"
         ELSE /\ caller' = "cleanup"
              /\ UNCHANGED round
    /\ UNCHANGED <<client, thr>>

\* xmlrpc_client_cleanup: XMLRPC_ASSERT(globalClientExists), which a
\* release build omits, then xmlrpc_client_destroy(globalClientP) and
\* globalClientExists = false.
Cleanup ==
    /\ caller = "cleanup"
    /\ client' = "destroyed"
    /\ caller' = "return"
    /\ UNCHANGED <<round, thr>>

\* main returns: the process exits and its threads with it.
Exit ==
    /\ caller = "return"
    /\ caller' = "exited"
    /\ UNCHANGED <<client, round, thr>>

\* A thread starts its RPC on the client pointer it was given; the start
\* can fault, and then no completion will come.
ThreadStart(t) ==
    /\ thr[t] = "running"
    /\ caller # "exited"
    /\ \E outcome \in {"inFlight", "done"} : thr' = [thr EXCEPT ![t] = outcome]
    /\ UNCHANGED <<client, caller, round>>

\* The transport completes the RPC and runs asynchComplete.
Complete(t) ==
    /\ thr[t] = "inFlight"
    /\ caller # "exited"
    /\ thr' = [thr EXCEPT ![t] = "done"]
    /\ UNCHANGED <<client, caller, round>>

-----------------------------------------------------------------------------

Caller == Init2 \/ Dispatch \/ Join \/ InnerFinish \/ Wait \/ Cleanup \/ Exit

Next == Caller \/ \E t \in Threads : ThreadStart(t) \/ Complete(t)

Spec == Init /\ [][Next]_vars
            /\ WF_vars(Caller)
            /\ \A t \in Threads : WF_vars(ThreadStart(t)) /\ WF_vars(Complete(t))

-----------------------------------------------------------------------------
(* Properties                                                              *)

TypeOK ==
    /\ client \in {"none", "live", "destroyed"}
    /\ caller \in CallerPCs
    /\ round \in 1..Rounds
    /\ thr \in [Threads -> ThreadPCs]

\* No thread starts an RPC on, and no completion runs against, a global
\* client that xmlrpc_client_cleanup has destroyed.
ClientUsedOnlyWhileLive ==
    [][\A t \in Threads : ThreadStart(t) \/ Complete(t) => client = "live"]_vars

\* When the program exits, every RPC it dispatched has completed and its
\* response handler has run.
NoReplyLostAtExit ==
    caller = "exited" => \A t \in Dispatched : thr[t] = "done"

\* The program terminates.
Terminates == <>(caller = "exited")

=============================================================================
