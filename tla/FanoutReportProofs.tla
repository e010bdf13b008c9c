------------------------- MODULE FanoutReportProofs -------------------------
(***************************************************************************)
(* Proofs about the report of asynchComplete, for every number of servers  *)
(* N with the required count equal to N.                                   *)
(*                                                                         *)
(* NoPrematureReport holds for any transport: the first report follows a  *)
(* quorum test that saw the counter at N, and the counter never passes N   *)
(* (FanoutGroupProofs).  AtMostOneReport, NoUseAfterFree and the          *)
(* refinement of CompletionGroupSpec need a transport that runs           *)
(* completions one at a time: then at most one completion is inside the   *)
(* group, and the report, which comes only at the quorum, finds every     *)
(* other completion already past its store.                               *)
(***************************************************************************)
EXTENDS FanoutGroupProofs

-----------------------------------------------------------------------------
(* Lemmas on the counter                                                   *)

\* When the counter is at N, every completion has been counted: none is
\* still before its store.
LEMMA AllRecorded ==
    ASSUME TypeOK, NoLostUpdate, UnorderedBeforeStore, completed = N
    PROVE  \A w \in Workers : pc[w] \notin PreStore
<1>1. IsFiniteSet(Workers) /\ Cardinality(Workers) = N
    BY NAssumption, FS_Interval DEF Workers
<1>2. Recorded \subseteq Workers /\ Cardinality(Recorded) = N
    BY RecordedFinite DEF NoLostUpdate
<1>3. Recorded = Workers
    BY <1>1, <1>2, FS_Subset
<1>4. QED
    BY <1>3 DEF Recorded, UnorderedBeforeStore

-----------------------------------------------------------------------------
(* NoPrematureReport, for any transport                                    *)

\* A completion about to report saw the quorum, or the counters were freed
\* (and the quorum reached) before its test.
QuorumReached == \A w \in Workers : pc[w] = "report" => completed = N \/ freed

PInv == IInv /\ (fired > 0 => completed = N) /\ (freed => fired > 0)
             /\ QuorumReached

LEMMA InitPInv == Init => PInv
BY InitIInv DEF Init, PInv, QuorumReached

LEMMA NextPInv ==
    ASSUME Required = N
    PROVE  PInv /\ [Next]_vars => PInv'
<1> SUFFICES ASSUME PInv, [Next]_vars PROVE PInv'
    OBVIOUS
<1>1. IInv'
    BY NextIInv DEF PInv
<1>2. TypeOK /\ TypeOK'
    BY <1>1 DEF PInv, IInv
<1> USE NAssumption
<1>3. ASSUME NEW w \in Workers, Store(w) PROVE PInv'
    \* The store raises the counter, which stays within N: so it was below
    \* N, nothing was reported or freed, and every reporter saw a freed group.
    <2>1. completed' = completed + 1 /\ completed' <= N
        BY <1>2, <1>3 DEF Store, TypeOK, LoadedCurrent, IInv, PInv
    <2>2. fired = 0 /\ ~freed
        BY <2>1, <1>2 DEF PInv, TypeOK
    <2>3. QED
        BY <1>1, <1>3, <2>1, <2>2 DEF Store, PInv, QuorumReached
<1>4. ASSUME NEW w \in Workers, Check(w) PROVE PInv'
    BY <1>1, <1>2, <1>4 DEF Check, PInv, QuorumReached, TypeOK
<1>5. ASSUME NEW w \in Workers, Report(w) PROVE PInv'
    BY <1>1, <1>2, <1>5 DEF Report, PInv, QuorumReached, TypeOK
<1>6. ASSUME NEW w \in Workers,
             \/ Spawn(w) \/ ServerInfoNew(w) \/ CheckEnv(w) \/ StartRpc(w)
             \/ Deliver(w) \/ Lock(w) \/ Load(w) \/ Unlock(w) \/ Progress(w)
      PROVE  PInv'
    BY <1>1, <1>2, <1>6 DEF Spawn, ServerInfoNew, CheckEnv, StartRpc, Deliver,
       Lock, Load, Unlock, Progress, PInv, QuorumReached, TypeOK
<1>7. CASE UNCHANGED vars
    BY <1>1, <1>7 DEF vars, PInv, QuorumReached
<1>8. QED
    BY <1>3, <1>4, <1>5, <1>6, <1>7 DEF Next, Step

\* asynchComplete calls the user's completion function only once the
\* completions of all N servers have been counted, however the transport
\* schedules the completions.
THEOREM PrematureReportFree ==
    ASSUME Required = N
    PROVE  Spec => []NoPrematureReport
<1>1. Init => PInv
    BY InitPInv
<1>2. PInv /\ [Next]_vars => PInv'
    BY NextPInv
<1>3. PInv => NoPrematureReport
    BY DEF PInv, NoPrematureReport
<1>4. QED
    BY <1>1, <1>2, <1>3, PTL DEF Spec

-----------------------------------------------------------------------------
(* A transport that runs completions one at a time                        *)

\* At most one completion is inside the group's shared steps.
OneInGroup ==
    \A v, w \in Workers : pc[v] \in SharedSteps /\ pc[w] \in SharedSteps => v = w

\* The completion function has been called once exactly when the counters
\* are freed.
ReportOnce == fired \in {0, 1} /\ (freed <=> fired = 1)

\* A freed group had reached the quorum, and no completion is still before
\* its store.
RetiredQuorum == freed => completed = N /\ \A w \in Workers : pc[w] \notin PreStore

\* A completion about to report saw the quorum.
ReportAtQuorum == \A w \in Workers : pc[w] = "report" => completed = N

SInv == /\ IInv /\ OneInGroup /\ ReportOnce /\ RetiredQuorum /\ ReportAtQuorum
        /\ NoUseAfterFree

LEMMA InitSInv == Init => SInv
BY InitIInv DEF Init, SInv, OneInGroup, ReportOnce, RetiredQuorum,
   ReportAtQuorum, NoUseAfterFree, SharedSteps

LEMMA NextSInv ==
    ASSUME SerialCompletion, Required = N
    PROVE  SInv /\ [Next]_vars => SInv'
<1> SUFFICES ASSUME SInv, [Next]_vars PROVE SInv'
    OBVIOUS
<1>1. IInv'
    BY NextIInv DEF SInv
<1>2. TypeOK /\ TypeOK' /\ UnorderedBeforeStore /\ NoLostUpdate
    BY <1>1 DEF SInv, IInv
<1> USE NAssumption
<1> DEFINE Extra == /\ OneInGroup /\ ReportOnce /\ RetiredQuorum
                    /\ ReportAtQuorum /\ NoUseAfterFree
<1>3. Extra
    BY DEF SInv
<1>4. ASSUME NEW w \in Workers, Deliver(w) PROVE Extra'
    \* The transport delivers only to a group with nobody inside, and never
    \* to a freed one: a delivered completion was not yet counted.
    <2>1. ~freed
        BY <1>3, <1>4 DEF Deliver, RetiredQuorum, PreStore
    <2>2. \A v \in Workers : pc[v] \notin SharedSteps
        BY <1>4 DEF Deliver
    <2>3. QED
        BY <1>2, <1>3, <1>4, <2>1, <2>2 DEF Deliver, OneInGroup, ReportOnce,
           RetiredQuorum, ReportAtQuorum, NoUseAfterFree, SharedSteps, TypeOK
<1>5. ASSUME NEW w \in Workers, Store(w) PROVE Extra'
    <2>1. ~freed /\ \A v \in Workers \ {w} : pc[v] \notin SharedSteps
        BY <1>3, <1>5 DEF Store, NoUseAfterFree, OneInGroup, SharedSteps
    <2>2. QED
        BY <1>2, <1>3, <1>5, <2>1 DEF Store, OneInGroup, ReportOnce,
           RetiredQuorum, ReportAtQuorum, NoUseAfterFree, SharedSteps, TypeOK
<1>6. ASSUME NEW w \in Workers, Check(w) PROVE Extra'
    <2>1. ~freed
        BY <1>3, <1>6 DEF Check, NoUseAfterFree, SharedSteps
    <2>2. QED
        BY <1>2, <1>3, <1>6, <2>1 DEF Check, OneInGroup, ReportOnce,
           RetiredQuorum, ReportAtQuorum, NoUseAfterFree, SharedSteps, TypeOK
<1>7. ASSUME NEW w \in Workers, Report(w) PROVE Extra'
    \* The reporter is the only completion in the group, and every other
    \* one has been counted.
    <2>1. ~freed /\ fired = 0 /\ completed = N
        BY <1>3, <1>7 DEF Report, NoUseAfterFree, ReportOnce, ReportAtQuorum,
           SharedSteps
    <2>2. \A v \in Workers : pc[v] \notin PreStore
        BY <1>2, <2>1, AllRecorded
    <2>3. \A v \in Workers \ {w} : pc[v] \notin SharedSteps
        BY <1>3, <1>7 DEF Report, OneInGroup, SharedSteps
    <2>4. QED
        BY <1>2, <1>7, <2>1, <2>2, <2>3 DEF Report, OneInGroup, ReportOnce,
           RetiredQuorum, ReportAtQuorum, NoUseAfterFree, SharedSteps,
           PreStore, TypeOK
<1>8. ASSUME NEW w \in Workers,
             \/ Spawn(w) \/ ServerInfoNew(w) \/ CheckEnv(w) \/ StartRpc(w)
             \/ Lock(w) \/ Load(w) \/ Unlock(w) \/ Progress(w)
      PROVE  Extra'
    BY <1>2, <1>3, <1>8 DEF Spawn, ServerInfoNew, CheckEnv, StartRpc, Lock,
       Load, Unlock, Progress, OneInGroup, ReportOnce, RetiredQuorum,
       ReportAtQuorum, NoUseAfterFree, SharedSteps, PreStore, TypeOK
<1>9. ASSUME UNCHANGED vars PROVE Extra'
    BY <1>3, <1>9 DEF vars, OneInGroup, ReportOnce, RetiredQuorum,
       ReportAtQuorum, NoUseAfterFree
<1>10. Extra'
    BY <1>4, <1>5, <1>6, <1>7, <1>8, <1>9 DEF Next, Step
<1>11. QED
    BY <1>1, <1>10 DEF SInv, Extra

\* SInv holds in every reachable state of a serialising transport.
THEOREM SerialInvariant ==
    ASSUME SerialCompletion, Required = N
    PROVE  Spec => []SInv
BY InitSInv, NextSInv, PTL DEF Spec

\* With a transport that runs completions one at a time, asynchComplete
\* calls the user's completion function at most once per multi-RPC.
THEOREM SerialAtMostOneReport ==
    ASSUME SerialCompletion, Required = N
    PROVE  Spec => []AtMostOneReport
<1>1. SInv => AtMostOneReport
    BY DEF SInv, ReportOnce, AtMostOneReport
<1>2. QED
    BY <1>1, SerialInvariant, PTL

\* With a transport that runs completions one at a time, no completion
\* is still about to touch the counters or the mutex once asynchComplete
\* has freed them.
THEOREM SerialNoUseAfterFree ==
    ASSUME SerialCompletion, Required = N
    PROVE  Spec => []NoUseAfterFree
<1>1. SInv => NoUseAfterFree
    BY DEF SInv
<1>2. QED
    BY <1>1, SerialInvariant, PTL

-----------------------------------------------------------------------------
(* Refinement of CompletionGroupSpec                                       *)

\* Under SInv, the store of a completion is one recordCompletion, the
\* report is the report and retirement, and every other step leaves the
\* count, the reports and the retirement alone.
LEMMA StepRefines ==
    ASSUME SerialCompletion, Required = N
    PROVE  SInv /\ SInv' /\ [Next]_vars => [CG!Next]_CG!avars
<1> SUFFICES ASSUME SInv, SInv', [Next]_vars PROVE [CG!Next]_CG!avars
    OBVIOUS
<1>1. TypeOK /\ TypeOK'
    BY DEF SInv, IInv
<1>2. ASSUME NEW w \in Workers, Store(w) PROVE CG!RecordCompletion
    <2>1. ~freed
        BY <1>2 DEF SInv, NoUseAfterFree, Store, SharedSteps
    <2>2. completed' = completed + 1 /\ completed' <= N
        BY <1>1, <1>2 DEF SInv, IInv, LoadedCurrent, Store, TypeOK
    <2>3. completed < Required
        BY <1>1, <2>2, NAssumption DEF TypeOK
    <2>4. UNCHANGED <<fired, freed>>
        BY <1>2 DEF Store
    <2>5. QED
        BY <2>1, <2>2, <2>3, <2>4 DEF CG!RecordCompletion
<1>3. ASSUME NEW w \in Workers, Report(w) PROVE CG!ReportAndRetire
    <2>1. ~freed /\ completed = N
        BY <1>3 DEF SInv, NoUseAfterFree, ReportAtQuorum, Report, SharedSteps
    <2>2. QED
        BY <1>3, <2>1 DEF Report, CG!ReportAndRetire
<1>4. ASSUME NEW w \in Workers,
             \/ Spawn(w) \/ ServerInfoNew(w) \/ CheckEnv(w) \/ StartRpc(w)
             \/ Deliver(w) \/ Lock(w) \/ Load(w) \/ Unlock(w) \/ Check(w)
             \/ Progress(w)
      PROVE  UNCHANGED CG!avars
    BY <1>4 DEF Spawn, ServerInfoNew, CheckEnv, StartRpc, Deliver, Lock, Load,
       Unlock, Check, Progress, CG!avars
<1>5. ASSUME UNCHANGED vars PROVE UNCHANGED CG!avars
    BY <1>5 DEF vars, CG!avars
<1>6. QED
    BY <1>2, <1>3, <1>4, <1>5 DEF Next, Step, CG!Next

\* With a transport that runs completions one at a time, the completion
\* group of asynchComplete implements the safety part of the spec's
\* CompletionGroup: every counted completion is one atomic
\* recordCompletion before retirement, and the completion function is
\* called once, at the quorum, together with the free of the counters.
THEOREM SerialRefinement ==
    ASSUME SerialCompletion, Required = N
    PROVE  Spec => CG!SafeSpec
<1>1. Init => CG!Init
    BY DEF Init, CG!Init
<1>2. SInv /\ SInv' /\ [Next]_vars => [CG!Next]_CG!avars
    BY StepRefines
<1>3. QED
    BY <1>1, <1>2, SerialInvariant, PTL DEF Spec, CG!SafeSpec

-----------------------------------------------------------------------------
(* The reporter is the completion that reached the quorum                 *)

\* The steps after a completion's store.
CountedSteps == {"unlock", "check", "progress", "report"}

\* A completion past its store, still in asynchComplete, has as its
\* requestOrder the current counter.
OrderCurrent == \A w \in Workers : pc[w] \in CountedSteps => order[w] = completed


\* Under SInv, every step keeps OrderCurrent: a store gives its order the
\* new counter while no other completion is past its store, and the other
\* steps leave the counter and the orders alone and enter CountedSteps
\* only from inside it.
LEMMA NextOrderCurrent ==
    ASSUME SerialCompletion, Required = N
    PROVE  SInv /\ OrderCurrent /\ [Next]_vars => OrderCurrent'
<1> SUFFICES ASSUME SInv, OrderCurrent, [Next]_vars PROVE OrderCurrent'
    OBVIOUS
<1>1. TypeOK
    BY DEF SInv, IInv
<1>2. ASSUME NEW w \in Workers, Store(w) PROVE OrderCurrent'
    <2>1. \A v \in Workers : v # w => pc[v] \notin SharedSteps
        BY <1>2 DEF SInv, OneInGroup, Store, SharedSteps
    <2>2. QED
        BY <1>1, <1>2, <2>1 DEF Store, OrderCurrent, CountedSteps, SharedSteps,
           TypeOK
<1>3. ASSUME NEW w \in Workers,
             \/ Spawn(w) \/ ServerInfoNew(w) \/ CheckEnv(w) \/ StartRpc(w)
             \/ Deliver(w) \/ Lock(w) \/ Load(w)
      PROVE  OrderCurrent'
    BY <1>1, <1>3 DEF Spawn, ServerInfoNew, CheckEnv, StartRpc, Deliver, Lock,
       Load, OrderCurrent, CountedSteps, TypeOK
<1>4. ASSUME NEW w \in Workers, Unlock(w) \/ Check(w) \/ Progress(w) \/ Report(w)
      PROVE  OrderCurrent'
    BY <1>1, <1>4 DEF Unlock, Check, Progress, Report, OrderCurrent,
       CountedSteps, TypeOK
<1>5. CASE UNCHANGED vars
    BY <1>5 DEF vars, OrderCurrent
<1>6. QED
    BY <1>2, <1>3, <1>4, <1>5 DEF Next, Step

\* With a transport that runs completions one at a time, the completion
\* that calls the user's completion function, handing it its own
\* response, is the one whose increment brought the counter to the
\* required count.
THEOREM SerialReportByQuorum ==
    ASSUME SerialCompletion, Required = N
    PROVE  Spec => ReportByQuorumCompletion
<1>1. Init => SInv /\ OrderCurrent
    BY InitSInv DEF Init, OrderCurrent
<1>2. SInv /\ OrderCurrent /\ [Next]_vars => (SInv /\ OrderCurrent)'
    BY NextSInv, NextOrderCurrent
<1>3. SInv /\ OrderCurrent
        => \A w \in Workers : Report(w) => order[w] = Required
    BY DEF SInv, ReportAtQuorum, OrderCurrent, CountedSteps, Report
<1>4. QED
    BY <1>1, <1>2, <1>3, PTL DEF Spec, ReportByQuorumCompletion

=============================================================================
