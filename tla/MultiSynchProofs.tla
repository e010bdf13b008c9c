-------------------------- MODULE MultiSynchProofs --------------------------
(***************************************************************************)
(* Proofs about MultiSynch for every number of servers NS and of calls.   *)
(*                                                                         *)
(* MInv: the requestMutex of a call is held exactly by the one thread of   *)
(* that call that is inside the count section, and a thread about to       *)
(* store count++ loaded a value below `semantic'.  It holds for any       *)
(* number of calls, but it excludes only threads of the same call: the     *)
(* mutexes of two calls are different objects.                            *)
(*                                                                         *)
(* For a program that calls xmlrpc_globalclient_multi_synch once, every    *)
(* thread locks the same mutex, so the value a thread loaded is still the  *)
(* count when it stores (RInv), and the count section refines             *)
(* SynchCountSpec: the test is a pass that does not count, the store a    *)
(* pass that does, every other step a stutter.                             *)
(***************************************************************************)
EXTENDS MultiSynch, TLAPS

\* The bounds the proofs need: semantic is a count, the program calls the
\* function at least once.
Constants == NS \in Nat /\ Calls \in Nat \ {0}

CountSection == {"test", "store"}

\* The threads of call c.
OfCall(c) == {t \in Threads : t[1] = c}

\* The caller has not yet reached thread t: a later call, or a later
\* server of this call.
Ahead(t) ==
    \/ t[1] > call
    \/ t[1] = call /\ (t[2] > k \/ (t[2] = k /\ caller = "loop"))

MInv ==
    /\ TypeOK
    /\ caller = "join" => k <= NS
    /\ \A t \in Threads : Ahead(t) => tpc[t] = "unborn"
    /\ \A c \in 1..Calls : mutex[c] \in OfCall(c) \cup {NoHolder}
    /\ \A t \in Threads : tpc[t] \in CountSection <=> mutex[t[1]] = t
    /\ \A t \in Threads : tpc[t] = "store" => tmp[t] < NS

\* A thread is a pair whose call is in 1..Calls, so no thread is NoHolder.
LEMMA ThreadShape ==
    ASSUME Constants, NEW t \in Threads
    PROVE  /\ t = <<t[1], t[2]>>
           /\ t[1] \in 1..Calls /\ t[2] \in 1..NS
           /\ t # NoHolder
BY DEF Constants, Threads, NoHolder

\* While the caller is inside its loop body, the current server's thread
\* is a thread of the program.
LEMMA CurrentThread ==
    ASSUME Constants, TypeOK, k <= NS
    PROVE  Current \in Threads
BY DEF Constants, TypeOK, Current, Threads

\* The initial state is well typed.
LEMMA InitTypeOK ==
    ASSUME Constants, Init PROVE TypeOK
<1>1. envFault \in BOOLEAN /\ caller \in {"loop", "join", "done", "dead"}
    BY DEF Init
<1>2. mutex \in [1..Calls -> Threads \cup {NoHolder}]
    BY DEF Init
<1>3. tpc \in [Threads -> {"unborn", "call", "lock", "test", "store", "done"}]
      /\ info \in [Threads -> {"none", "live", "freed"}]
    BY DEF Init
<1>4. count \in 0..NS /\ k \in 1..NS + 1 /\ call \in 1..Calls
      /\ tmp \in [Threads -> 0..NS]
    BY DEF Init, Constants
<1>5. QED
    BY <1>1, <1>2, <1>3, <1>4 DEF TypeOK

\* The initial state satisfies MInv.
LEMMA InitMInv ==
    ASSUME Constants PROVE Init => MInv
<1> SUFFICES ASSUME Init PROVE MInv
    OBVIOUS
<1>1. \A t \in Threads : tpc[t] \notin CountSection /\ mutex[t[1]] # t
    BY ThreadShape DEF Init, CountSection
<1>2. QED
    BY <1>1, InitTypeOK DEF Init, MInv, OfCall

\* The shared env's fault flag after a CallServer step is a Boolean.
LEMMA CallServerCases ==
    ASSUME TypeOK, NEW t \in Threads, CallServer(t)
    PROVE  /\ envFault' \in BOOLEAN
           /\ \/ caller' = "dead" /\ UNCHANGED tpc
              \/ tpc' = [tpc EXCEPT ![t] = "lock"] /\ UNCHANGED caller
           /\ UNCHANGED <<call, k, info, count, mutex, tmp>>
<1>1. PICK fault \in BOOLEAN :
        /\ envFault' = (envFault \/ fault)
        /\ IF envFault \/ fault
             THEN caller' = "dead" /\ UNCHANGED tpc
             ELSE tpc' = [tpc EXCEPT ![t] = "lock"] /\ UNCHANGED caller
    BY DEF CallServer
<1>2. envFault' \in BOOLEAN
    BY <1>1, Zenon DEF TypeOK
<1>3. QED
    BY <1>1, <1>2 DEF CallServer

\* The two outcomes of a NewInfo step, stated without FaultsPossible.
LEMMA NewInfoCases ==
    ASSUME NewInfo
    PROVE  /\ caller = "loop" /\ k <= NS
           /\ UNCHANGED <<call, count, mutex, tmp>>
           /\ \/ /\ ~envFault
                 /\ info' = [info EXCEPT ![Current] = "live"]
                 /\ tpc' = [tpc EXCEPT ![Current] = "call"]
                 /\ caller' = "join"
                 /\ UNCHANGED <<envFault, k>>
              \/ /\ envFault' = TRUE
                 /\ k' = k + 1
                 /\ UNCHANGED <<info, tpc, caller>>
BY Zenon DEF NewInfo

\* Every step keeps the types: the loop counter stops one past NS while
\* a join is pending only below it, and a store follows a load below NS.
LEMMA NextTypeOK ==
    ASSUME Constants, TypeOK, caller = "join" => k <= NS,
           \A t \in Threads : tpc[t] = "store" => tmp[t] < NS
    PROVE  [Next]_vars => TypeOK'
<1> USE DEF Constants
<1>1. ASSUME NewInfo PROVE TypeOK'
    <2>1. k <= NS /\ Current \in Threads /\ UNCHANGED <<call, count, mutex, tmp>>
        BY <1>1, NewInfoCases, CurrentThread
    <2>2. CASE /\ ~envFault
               /\ info' = [info EXCEPT ![Current] = "live"]
               /\ tpc' = [tpc EXCEPT ![Current] = "call"]
               /\ caller' = "join"
               /\ UNCHANGED <<envFault, k>>
        BY <2>1, <2>2 DEF TypeOK
    <2>3. CASE envFault' = TRUE /\ k' = k + 1 /\ UNCHANGED <<info, tpc, caller>>
        BY <2>1, <2>3 DEF TypeOK
    <2>4. QED
        BY <1>1, <2>2, <2>3, NewInfoCases
<1>2. ASSUME JoinAndFree PROVE TypeOK'
    BY <1>2, CurrentThread DEF JoinAndFree, TypeOK
<1>3. ASSUME Return PROVE TypeOK'
    BY <1>3 DEF Return, TypeOK
<1>4. ASSUME NEW t \in Threads, CallServer(t) PROVE TypeOK'
    BY <1>4, CallServerCases DEF TypeOK
<1>5. ASSUME NEW t \in Threads, Lock(t) PROVE TypeOK'
    BY <1>5 DEF Lock, TypeOK
<1>6. ASSUME NEW t \in Threads, Test(t) PROVE TypeOK'
    BY <1>6 DEF Test, TypeOK
<1>7. ASSUME NEW t \in Threads, Store(t) PROVE TypeOK'
    BY <1>7, ThreadShape DEF Store, TypeOK
<1>8. ASSUME UNCHANGED vars PROVE TypeOK'
    BY <1>8 DEF vars, TypeOK
<1>9. QED
    BY <1>1, <1>2, <1>3, <1>4, <1>5, <1>6, <1>7, <1>8 DEF Next, Thread

\* Every step keeps MInv, whatever the number of calls.
LEMMA NextMInv ==
    ASSUME Constants PROVE MInv /\ [Next]_vars => MInv'
<1> SUFFICES ASSUME MInv, TypeOK' PROVE [Next]_vars => MInv'
    BY NextTypeOK, Zenon DEF MInv
<1> USE DEF Constants
<1>0. TypeOK'
    OBVIOUS
<1>1. ASSUME NewInfo PROVE MInv'
    <2>1. caller = "loop" /\ k <= NS /\ Current \in Threads
        BY <1>1, NewInfoCases DEF MInv, TypeOK, Current, Threads
    <2>2. tpc[Current] = "unborn" /\ mutex[call] # Current
        BY <2>1, ThreadShape DEF MInv, Ahead, Current, CountSection
    <2>3. CASE /\ ~envFault
               /\ tpc' = [tpc EXCEPT ![Current] = "call"]
               /\ caller' = "join"
               /\ UNCHANGED <<envFault, k, call, count, mutex, tmp>>
        BY <1>0, <2>1, <2>2, <2>3, ThreadShape
           DEF MInv, TypeOK, Ahead, Current, CountSection
    <2>4. CASE /\ k' = k + 1
               /\ UNCHANGED <<info, tpc, caller, call, count, mutex, tmp>>
        BY <1>0, <2>1, <2>4, ThreadShape DEF MInv, TypeOK, Ahead
    <2>5. QED
        BY <1>1, <2>3, <2>4, NewInfoCases
<1>2. ASSUME JoinAndFree PROVE MInv'
    BY <1>0, <1>2, ThreadShape DEF JoinAndFree, MInv, TypeOK, Ahead
<1>3. ASSUME Return PROVE MInv'
    BY <1>0, <1>3, ThreadShape DEF Return, MInv, TypeOK, Ahead
<1>4. ASSUME NEW t \in Threads, CallServer(t) PROVE MInv'
    <2>1. tpc[t] = "call" /\ ~Ahead(t) /\ mutex[t[1]] # t
        BY <1>4 DEF CallServer, MInv, CountSection
    <2>2. CASE caller' = "dead" /\ UNCHANGED tpc
        BY <1>0, <1>4, <2>2, CallServerCases DEF MInv, Ahead
    <2>3. CASE tpc' = [tpc EXCEPT ![t] = "lock"] /\ UNCHANGED caller
        BY <1>0, <1>4, <2>1, <2>3, CallServerCases
           DEF MInv, TypeOK, Ahead, CountSection
    <2>4. QED
        BY <1>4, <2>2, <2>3, CallServerCases DEF MInv
<1>5. ASSUME NEW t \in Threads, Lock(t) PROVE MInv'
    <2>1. tpc[t] = "lock" /\ mutex[t[1]] = NoHolder /\ ~Ahead(t)
        BY <1>5 DEF Lock, MInv
    <2>2. \A u \in Threads : u[1] = t[1] => tpc[u] \notin CountSection
        BY <2>1, ThreadShape DEF MInv
    <2>3. QED
        BY <1>0, <1>5, <2>1, <2>2, ThreadShape
           DEF Lock, MInv, TypeOK, Ahead, CountSection, OfCall
<1>6. ASSUME NEW t \in Threads, Test(t) PROVE MInv'
    <2>1. tpc[t] = "test" /\ mutex[t[1]] = t /\ ~Ahead(t)
        BY <1>6 DEF Test, MInv, CountSection
    <2>2. \A u \in Threads : u[1] = t[1] /\ u # t => tpc[u] \notin CountSection
        BY <2>1 DEF MInv
    <2>3. CASE count >= NS
        <3>1. /\ mutex' = [mutex EXCEPT ![t[1]] = NoHolder]
              /\ tpc' = [tpc EXCEPT ![t] = "done"]
              /\ UNCHANGED <<tmp, caller, call, k, count>>
            BY <1>6, <2>3 DEF Test
        <3>2. QED
            BY <1>0, <2>1, <2>2, <3>1, ThreadShape
               DEF MInv, TypeOK, Ahead, CountSection, OfCall
    <2>4. CASE ~(count >= NS)
        <3>1. /\ tmp' = [tmp EXCEPT ![t] = count]
              /\ tpc' = [tpc EXCEPT ![t] = "store"]
              /\ UNCHANGED <<mutex, caller, call, k, count>>
            BY <1>6, <2>4 DEF Test
        <3>2. count < NS
            BY <2>4 DEF MInv, TypeOK, Constants
        <3>3. QED
            BY <1>0, <2>1, <3>1, <3>2, ThreadShape DEF MInv, TypeOK, Ahead, CountSection
    <2>5. QED
        BY <2>3, <2>4
<1>7. ASSUME NEW t \in Threads, Store(t) PROVE MInv'
    <2>1. tpc[t] = "store" /\ mutex[t[1]] = t /\ ~Ahead(t)
        BY <1>7 DEF Store, MInv, CountSection
    <2>2. \A u \in Threads : u[1] = t[1] /\ u # t => tpc[u] \notin CountSection
        BY <2>1 DEF MInv
    <2>3. QED
        BY <1>0, <1>7, <2>1, <2>2, ThreadShape
           DEF Store, MInv, TypeOK, Ahead, CountSection, OfCall
<1>8. ASSUME UNCHANGED vars PROVE MInv'
    BY <1>8 DEF vars, MInv, Ahead
<1>9. QED
    BY <1>1, <1>2, <1>3, <1>4, <1>5, <1>6, <1>7, <1>8 DEF Next, Thread

\* In every reachable state, each call's requestMutex is held by exactly
\* the thread of that call inside performSynch's count section, and the
\* static count stays within 0..semantic, for every number of servers and
\* of calls.
THEOREM MutexPerCall ==
    ASSUME Constants PROVE Spec => []MInv
BY InitMInv, NextMInv, PTL DEF Spec

-----------------------------------------------------------------------------

\* With one call, a thread that is about to store count++ loaded the
\* current count.
RInv ==
    /\ MInv
    /\ \A t \in Threads : tpc[t] = "store" => tmp[t] = count

\* With one call, two threads inside the count section are the same
\* thread: they hold the same mutex.
LEMMA OneInSection ==
    ASSUME Constants, Calls = 1, MInv,
           NEW t \in Threads, NEW u \in Threads,
           tpc[t] \in CountSection, tpc[u] \in CountSection
    PROVE  t = u
<1>1. t[1] = 1 /\ u[1] = 1
    BY ThreadShape
<1>2. QED
    BY <1>1 DEF MInv

\* A step that moves thread x to a step other than "done", from a step
\* other than "done", leaves the finished threads alone; a step that moves
\* it to "done" adds it.
LEMMA FinishedExcept ==
    ASSUME NEW x \in Threads, NEW v, tpc' = [tpc EXCEPT ![x] = v],
           TypeOK
    PROVE  /\ v # "done" /\ tpc[x] # "done" => Finished' = Finished
           /\ v = "done" => Finished' = Finished \cup {x}
BY DEF Finished, TypeOK

\* A step that moves thread x to a step other than "store" adds no thread
\* to the ones about to store.
LEMMA NoNewStore ==
    ASSUME TypeOK, NEW x \in Threads, NEW v, v # "store",
           tpc' = [tpc EXCEPT ![x] = v]
    PROVE  \A u \in Threads : tpc'[u] = "store" => tpc[u] = "store"
BY DEF TypeOK

\* The initial state satisfies RInv.
LEMMA InitRInv ==
    ASSUME Constants PROVE Init => RInv
BY InitMInv DEF Init, RInv

\* With one call, every step keeps RInv.
LEMMA NextRInv ==
    ASSUME Constants, Calls = 1 PROVE RInv /\ [Next]_vars => RInv'
<1> SUFFICES ASSUME RInv, MInv' PROVE [Next]_vars => RInv'
    BY NextMInv, Zenon DEF RInv
<1> USE DEF Constants
<1>1. ASSUME NEW t \in Threads, Test(t) PROVE RInv'
    <2>1. \A u \in Threads : u # t => tpc[u] # "store"
        BY <1>1, OneInSection DEF Test, RInv, CountSection
    <2>2. CASE count >= NS
        <3>1. tpc' = [tpc EXCEPT ![t] = "done"] /\ UNCHANGED <<tmp, count>>
            BY <1>1, <2>2 DEF Test
        <3>2. QED
            BY <2>1, <3>1 DEF RInv, MInv, TypeOK
    <2>3. CASE ~(count >= NS)
        <3>1. /\ tmp' = [tmp EXCEPT ![t] = count]
              /\ tpc' = [tpc EXCEPT ![t] = "store"]
              /\ UNCHANGED count
            BY <1>1, <2>3 DEF Test
        <3>2. QED
            BY <2>1, <3>1 DEF RInv, MInv, TypeOK
    <2>4. QED
        BY <2>2, <2>3
<1>2. ASSUME NEW t \in Threads, Store(t) PROVE RInv'
    <2>1. \A u \in Threads : u # t => tpc[u] # "store"
        BY <1>2, OneInSection DEF Store, RInv, CountSection
    <2>2. tpc' = [tpc EXCEPT ![t] = "done"]
        BY <1>2 DEF Store
    <2>3. QED
        BY <2>1, <2>2 DEF RInv, MInv, TypeOK
<1>3. ASSUME NEW t \in Threads, CallServer(t) PROVE RInv'
    <2>1. UNCHANGED <<count, tmp>>
        BY <1>3, CallServerCases DEF RInv, MInv
    <2>2. CASE UNCHANGED tpc
        BY <2>1, <2>2 DEF RInv
    <2>3. CASE tpc' = [tpc EXCEPT ![t] = "lock"]
        BY <2>1, <2>3, NoNewStore DEF RInv, MInv
    <2>4. QED
        BY <1>3, <2>2, <2>3, CallServerCases DEF RInv, MInv
<1>4. ASSUME NEW t \in Threads, Lock(t) PROVE RInv'
    <2>1. UNCHANGED <<count, tmp>> /\ tpc' = [tpc EXCEPT ![t] = "test"]
        BY <1>4 DEF Lock
    <2>2. QED
        BY <2>1, NoNewStore DEF RInv, MInv
<1>5. ASSUME NewInfo PROVE RInv'
    <2>1. Current \in Threads /\ UNCHANGED <<count, tmp>>
        BY <1>5, NewInfoCases, CurrentThread DEF RInv, MInv
    <2>2. CASE tpc' = [tpc EXCEPT ![Current] = "call"]
        BY <2>1, <2>2, NoNewStore DEF RInv, MInv
    <2>3. CASE UNCHANGED tpc
        BY <2>1, <2>3 DEF RInv
    <2>4. QED
        BY <1>5, <2>2, <2>3, NewInfoCases
<1>6. ASSUME JoinAndFree \/ Return \/ UNCHANGED vars PROVE RInv'
    <2>1. UNCHANGED <<count, tmp, tpc>>
        BY <1>6 DEF JoinAndFree, Return, vars
    <2>2. QED
        BY <2>1 DEF RInv
<1>7. QED
    BY <1>1, <1>2, <1>3, <1>4, <1>5, <1>6 DEF Next, Thread

\* With one call, every step of MultiSynch is a pass of SynchCountSpec or
\* leaves the count and the finished threads alone.
LEMMA StepRefinesSynch ==
    ASSUME Constants, Calls = 1
    PROVE  RInv /\ RInv' /\ [Next]_vars => [SC!Next]_SC!svars
<1> SUFFICES ASSUME RInv, RInv' PROVE [Next]_vars => [SC!Next]_SC!svars
    OBVIOUS
<1> USE DEF Constants
<1>0. TypeOK /\ count \in Nat
    BY DEF RInv, MInv, TypeOK
<1>1. ASSUME NEW t \in Threads, Test(t) PROVE [SC!Next]_SC!svars
    <2>1. CASE count >= NS
        <3>1. tpc' = [tpc EXCEPT ![t] = "done"] /\ UNCHANGED count
            BY <1>1, <2>1 DEF Test
        <3>2. Finished' = Finished \cup {t} /\ t \notin Finished
            BY <1>0, <1>1, <3>1, FinishedExcept DEF Test, Finished
        <3>3. SC!Pass(t)
            BY <1>0, <2>1, <3>1, <3>2 DEF SC!Pass
        <3>4. QED
            BY <3>3 DEF SC!Next
    <2>2. CASE ~(count >= NS)
        <3>1. tpc' = [tpc EXCEPT ![t] = "store"] /\ UNCHANGED count
            BY <1>1, <2>2 DEF Test
        <3>2. tpc[t] = "test"
            BY <1>1 DEF Test
        <3>3. Finished' = Finished
            BY <1>0, <3>1, <3>2, FinishedExcept
        <3>4. QED
            BY <3>1, <3>3 DEF SC!svars
    <2>3. QED
        BY <2>1, <2>2
<1>2. ASSUME NEW t \in Threads, Store(t) PROVE [SC!Next]_SC!svars
    <2>1. tpc' = [tpc EXCEPT ![t] = "done"] /\ count' = count + 1
        BY <1>2 DEF Store, RInv
    <2>2. count < NS
        BY <1>2 DEF Store, RInv, MInv
    <2>3. Finished' = Finished \cup {t} /\ t \notin Finished
        BY <1>0, <1>2, <2>1, FinishedExcept DEF Store, Finished
    <2>4. SC!Pass(t)
        BY <2>1, <2>2, <2>3 DEF SC!Pass
    <2>5. QED
        BY <2>4 DEF SC!Next
<1>3. ASSUME NEW t \in Threads, CallServer(t) PROVE [SC!Next]_SC!svars
    <2>1. UNCHANGED count /\ tpc[t] = "call"
        BY <1>0, <1>3, CallServerCases, Zenon DEF CallServer
    <2>2. CASE UNCHANGED tpc
        BY <2>1, <2>2 DEF SC!svars, Finished
    <2>3. CASE tpc' = [tpc EXCEPT ![t] = "lock"]
        <3>1. Finished' = Finished
            BY <1>0, <2>1, <2>3, FinishedExcept
        <3>2. QED
            BY <2>1, <3>1 DEF SC!svars
    <2>4. QED
        BY <1>0, <1>3, <2>2, <2>3, CallServerCases
<1>4. ASSUME NEW t \in Threads, Lock(t) PROVE [SC!Next]_SC!svars
    <2>1. tpc' = [tpc EXCEPT ![t] = "test"] /\ UNCHANGED count
        BY <1>4 DEF Lock
    <2>2. Finished' = Finished
        BY <1>0, <1>4, <2>1, FinishedExcept DEF Lock
    <2>3. QED
        BY <2>1, <2>2 DEF SC!svars
<1>5. ASSUME NewInfo PROVE [SC!Next]_SC!svars
    <2>1. Current \in Threads /\ UNCHANGED count
        BY <1>5, NewInfoCases, CurrentThread DEF RInv, MInv
    <2>2. CASE tpc' = [tpc EXCEPT ![Current] = "call"]
        <3>1. tpc[Current] = "unborn"
            BY <1>5, <2>1, NewInfoCases DEF RInv, MInv, Ahead, Current
        <3>2. Finished' = Finished
            BY <1>0, <2>1, <2>2, <3>1, FinishedExcept
        <3>3. QED
            BY <2>1, <3>2 DEF SC!svars
    <2>3. CASE UNCHANGED tpc
        BY <2>1, <2>3 DEF SC!svars, Finished
    <2>4. QED
        BY <1>5, <2>2, <2>3, NewInfoCases
<1>6. ASSUME JoinAndFree \/ Return \/ UNCHANGED vars PROVE [SC!Next]_SC!svars
    BY <1>6 DEF JoinAndFree, Return, vars, SC!svars, Finished
<1>7. QED
    BY <1>1, <1>2, <1>3, <1>4, <1>5, <1>6 DEF Next, Thread

\* The initial state of MultiSynch is an initial state of SynchCountSpec.
LEMMA InitRefinesSynch ==
    ASSUME Constants PROVE Init => SC!Init
BY DEF Init, SC!Init, Finished

\* With one call, the count section of performSynch implements
\* SynchCountSpec: each thread's count++ is one atomic pass, none is lost
\* and none is counted twice, for every number of servers.
THEOREM SingleCallRefinement ==
    ASSUME Constants, Calls = 1 PROVE Spec => ImplementsSynchCount
<1>1. Init => RInv
    BY InitRInv
<1>2. RInv /\ [Next]_vars => RInv'
    BY NextRInv
<1>3. RInv /\ RInv' /\ [Next]_vars => [SC!Next]_SC!svars
    BY StepRefinesSynch
<1>4. Init => SC!Init
    BY InitRefinesSynch
<1>5. QED
    BY <1>1, <1>2, <1>3, <1>4, PTL DEF Spec, ImplementsSynchCount, SC!Spec

=============================================================================
