------------------------- MODULE GlobalClientProofs -------------------------
(***************************************************************************)
(* Proofs about GlobalClient, for every number of servers N and of rounds. *)
(*                                                                         *)
(* TypeOK is inductive by itself: the driver's loop stops at Rounds.       *)
(*                                                                         *)
(* With the stable multirpc_globalclient_asynch (Joined), whatever the     *)
(* driver does on an init2 fault: outside the join and the inner finish of *)
(* one multi-RPC, no thread is running and no RPC is in flight.  The join  *)
(* is reached only when the client is live and waits for every thread of  *)
(* the round to have started its RPC or faulted; the inner finish waits    *)
(* for every RPC in flight to complete.  So a thread's steps happen only   *)
(* while the caller is in its join or inner finish, where the client is    *)
(* live, and at the exit every dispatched RPC is done: GInv.               *)
(***************************************************************************)
EXTENDS GlobalClient, TLAPS

\* The initial state is well typed.
LEMMA InitTypeOK == Init => TypeOK
BY RoundsAssumption DEF Init, TypeOK, CallerPCs, ThreadPCs

\* Every step keeps the types, whichever version and driver the program
\* links.
LEMMA NextTypeOK == TypeOK /\ [Next]_vars => TypeOK'
<1> SUFFICES ASSUME TypeOK, [Next]_vars PROVE TypeOK'
    OBVIOUS
<1>1. CASE Init2
    BY <1>1 DEF Init2, AfterInitFault, TypeOK, CallerPCs
<1>2. CASE Dispatch
    BY <1>2 DEF Dispatch, TypeOK, CallerPCs, ThreadPCs
<1>3. CASE Join \/ InnerFinish \/ Cleanup \/ Exit
    BY <1>3 DEF Join, InnerFinish, Cleanup, Exit, TypeOK, CallerPCs
<1>4. CASE Wait
    BY <1>4, RoundsAssumption DEF Wait, TypeOK, CallerPCs
<1>5. ASSUME NEW t \in Threads, ThreadStart(t) \/ Complete(t) PROVE TypeOK'
    BY <1>5 DEF ThreadStart, Complete, TypeOK, ThreadPCs
<1>6. CASE UNCHANGED vars
    BY <1>6 DEF vars, TypeOK
<1>7. QED
    BY <1>1, <1>2, <1>3, <1>4, <1>5, <1>6 DEF Next, Caller

\* Every variable of every version and driver keeps its type: the round
\* counter stays within 1..Rounds and every thread within its four steps.
THEOREM TypeCorrect == Spec => []TypeOK
BY InitTypeOK, NextTypeOK, PTL DEF Spec

-----------------------------------------------------------------------------
\* Every thread is unborn or done: nothing is running or in flight.
Settled == \A t \in Threads : thr[t] \in {"unborn", "done"}

\* The threads of the other rounds are unborn or done.
OthersSettled == \A t \in Threads : t[1] # round => thr[t] \in {"unborn", "done"}

GInv ==
    /\ TypeOK
    /\ caller \in {"join", "innerFinish"} => client = "live"
    /\ caller \in {"init", "dispatch", "wait", "cleanup", "return", "exited"}
         => Settled
    /\ caller \in {"join", "innerFinish"} => OthersSettled
    /\ caller = "innerFinish" => \A t \in Threads : thr[t] # "running"

\* The initial state satisfies GInv.
LEMMA InitGInv == Init => GInv
BY InitTypeOK DEF Init, GInv, Settled

\* A thread that is running or in flight belongs to the round whose join
\* or inner finish the caller is in.
LEMMA BusyThread ==
    ASSUME GInv, NEW t \in Threads, thr[t] \in {"running", "inFlight"}
    PROVE  /\ caller \in {"join", "innerFinish"}
           /\ client = "live"
           /\ t[1] = round
BY DEF GInv, TypeOK, CallerPCs, Settled, OthersSettled

\* Every step of a driver linking the stable version keeps GInv.
LEMMA NextGInv ==
    ASSUME Joined
    PROVE  GInv /\ [Next]_vars => GInv'
<1> SUFFICES ASSUME GInv, [Next]_vars PROVE GInv'
    OBVIOUS
<1>0. TypeOK'
    BY NextTypeOK DEF GInv
<1>1. CASE Init2
    BY <1>0, <1>1 DEF Init2, AfterInitFault, GInv, Settled
<1>2. CASE Dispatch
    <2>1. caller = "dispatch" /\ Settled
        BY <1>2 DEF Dispatch, GInv
    <2>2. CASE client = "live"
        <3>1. thr' = [t \in Threads |-> IF t[1] = round THEN "running" ELSE thr[t]]
              /\ caller' = "join" /\ UNCHANGED <<client, round>>
            BY <1>2, <2>2 DEF Dispatch
        <3>2. OthersSettled'
            BY <2>1, <3>1 DEF OthersSettled, Settled
        <3>3. QED
            BY <1>0, <2>2, <3>1, <3>2 DEF GInv
    <2>3. CASE client # "live"
        BY <1>0, <1>2, <2>1, <2>3 DEF Dispatch, GInv, Settled
    <2>4. QED
        BY <2>2, <2>3
<1>3. CASE Join
    <2>1. \A t \in Threads : thr[t] # "running"
        <3> SUFFICES ASSUME NEW t \in Threads PROVE thr[t] # "running"
            OBVIOUS
        <3>1. CASE t[1] = round
            <4>1. t = <<round, t[2]>> /\ t[2] \in Servers
                BY <3>1 DEF Threads
            <4>2. QED
                BY <1>3, <4>1 DEF Join
        <3>2. CASE t[1] # round
            BY <1>3, <3>2 DEF Join, GInv, OthersSettled
        <3>3. QED
            BY <3>1, <3>2
    <2>2. QED
        BY <1>0, <1>3, <2>1 DEF Join, GInv, OthersSettled
<1>4. CASE InnerFinish
    BY <1>0, <1>4 DEF InnerFinish, NothingInFlight, GInv, TypeOK, ThreadPCs,
       Settled, OthersSettled
<1>5. CASE Wait \/ Cleanup \/ Exit
    BY <1>0, <1>5 DEF Wait, Cleanup, Exit, GInv, Settled
<1>6. ASSUME NEW t \in Threads, ThreadStart(t) PROVE GInv'
    <2>1. caller = "join" /\ t[1] = round
        BY <1>6, BusyThread DEF ThreadStart, GInv
    <2>2. QED
        BY <1>0, <1>6, <2>1 DEF ThreadStart, GInv, OthersSettled
<1>7. ASSUME NEW t \in Threads, Complete(t) PROVE GInv'
    <2>1. caller \in {"join", "innerFinish"} /\ t[1] = round
        BY <1>7, BusyThread DEF Complete
    <2>2. QED
        BY <1>0, <1>7, <2>1 DEF Complete, GInv, OthersSettled
<1>8. CASE UNCHANGED vars
    BY <1>0, <1>8 DEF vars, GInv, Settled, OthersSettled
<1>9. QED
    BY <1>1, <1>2, <1>3, <1>4, <1>5, <1>6, <1>7, <1>8 DEF Next, Caller

\* GInv holds in every reachable state of a driver linking the stable
\* version.
THEOREM StableInvariant ==
    ASSUME Joined
    PROVE  Spec => []GInv
BY InitGInv, NextGInv, PTL DEF Spec

\* With the stable multirpc_globalclient_asynch, whether or not the driver
\* dies on an init2 fault, the program never exits while an RPC it
\* dispatched is running or in flight: every response handler has run.
THEOREM StableNoReplyLost ==
    ASSUME Joined
    PROVE  Spec => []NoReplyLostAtExit
<1>1. GInv => NoReplyLostAtExit
    BY DEF GInv, Settled, NoReplyLostAtExit, Dispatched
<1>2. QED
    BY <1>1, StableInvariant, PTL

\* With the stable multirpc_globalclient_asynch, whether or not the driver
\* dies on an init2 fault, no thread starts an RPC and no completion runs
\* on a global client that does not exist or that xmlrpc_client_cleanup
\* destroyed.
THEOREM StableClientUsedOnlyWhileLive ==
    ASSUME Joined
    PROVE  Spec => ClientUsedOnlyWhileLive
<1>1. GInv => \A t \in Threads : ThreadStart(t) \/ Complete(t) => client = "live"
    BY BusyThread DEF ThreadStart, Complete
<1>2. QED
    BY <1>1, StableInvariant, PTL DEF ClientUsedOnlyWhileLive

=============================================================================
