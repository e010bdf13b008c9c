------------------------- MODULE FanoutGroupProofs -------------------------
(***************************************************************************)
(* Proofs about FanoutGroup for every number of servers N.                 *)
(*                                                                         *)
(* The mutex of asynchComplete makes the counter's load and store one      *)
(* critical section, so the requestOrders are 1..completed, one per        *)
(* recorded completion, and the counter never exceeds N.  Neither fact is  *)
(* inductive alone: IInv adds that the holder of the mutex is the one      *)
(* completion in the critical section, that its loaded value is still the  *)
(* counter when it stores, and that no completion has an order before its  *)
(* store.                                                                  *)
(***************************************************************************)
EXTENDS FanoutGroup, FiniteSetTheorems, TLAPS

\* The recorded completions are a finite subset of the servers.
LEMMA RecordedFinite ==
    ASSUME TypeOK
    PROVE  /\ Recorded \subseteq Workers
           /\ IsFiniteSet(Recorded)
           /\ Cardinality(Recorded) \in Nat
<1>1. Recorded \subseteq Workers
    BY DEF Recorded
<1>2. IsFiniteSet(Workers) /\ Cardinality(Workers) = N
    BY NAssumption, FS_Interval DEF Workers
<1>3. IsFiniteSet(Recorded)
    BY <1>1, <1>2, FS_Subset
<1>4. QED
    BY <1>1, <1>3, FS_CardinalityType

\* The initial state satisfies the inductive invariant.
LEMMA InitIInv == Init => IInv
<1> SUFFICES ASSUME Init PROVE IInv
    OBVIOUS
<1>1. Recorded = {}
    BY DEF Init, Recorded
<1>2. Cardinality(Recorded) = 0
    BY <1>1, FS_EmptySet
<1>3. TypeOK
    <2>1. "unborn" \in PCs
        BY DEF PCs
    <2>2. pc \in [Workers -> PCs]
        BY <2>1 DEF Init
    <2>3. /\ tmp \in [Workers -> 0..N] /\ order \in [Workers -> 0..N]
          /\ completed \in 0..N /\ mutex \in Workers \cup {NoHolder}
        BY NAssumption DEF Init, Workers, NoHolder
    <2>4. QED
        BY <2>2, <2>3 DEF Init, TypeOK
<1>4. NoLostUpdate
    <2>1. {order[w] : w \in Recorded} = {}
        BY <1>1, Zenon
    <2>2. 1..completed = {}
        BY DEF Init
    <2>3. QED
        BY <1>2, <2>1, <2>2 DEF NoLostUpdate, Init
<1>5. QED
    BY <1>3, <1>4 DEF Init, IInv, MutexHeld, LoadedCurrent,
                      UnorderedBeforeStore

\* The steps that leave the counter and the requestOrders alone keep the
\* recorded completions, and so NoLostUpdate.
LEMMA KeepsRecorded ==
    ASSUME NoLostUpdate, order' = order, completed' = completed
    PROVE  NoLostUpdate'
BY DEF NoLostUpdate, Recorded

\* Every step keeps the inductive invariant.
LEMMA NextIInv == IInv /\ [Next]_vars => IInv'
<1> SUFFICES ASSUME IInv, [Next]_vars PROVE IInv'
    OBVIOUS
<1> USE NAssumption
<1>1. ASSUME NEW w \in Workers, Spawn(w) PROVE IInv'
    BY <1>1, KeepsRecorded DEF Spawn, IInv, TypeOK, MutexHeld, LoadedCurrent,
       UnorderedBeforeStore, PCs, SharedSteps, PreStore, Workers, NoHolder
<1>2. ASSUME NEW w \in Workers, ServerInfoNew(w) PROVE IInv'
    BY <1>2, KeepsRecorded DEF ServerInfoNew, IInv, TypeOK, MutexHeld,
       LoadedCurrent, UnorderedBeforeStore, PCs, SharedSteps, PreStore,
       Workers, NoHolder
<1>3. ASSUME NEW w \in Workers, CheckEnv(w) PROVE IInv'
    BY <1>3, KeepsRecorded DEF CheckEnv, IInv, TypeOK, MutexHeld,
       LoadedCurrent, UnorderedBeforeStore, PCs, SharedSteps, PreStore,
       Workers, NoHolder
<1>4. ASSUME NEW w \in Workers, StartRpc(w) PROVE IInv'
    BY <1>4, KeepsRecorded DEF StartRpc, IInv, TypeOK, MutexHeld,
       LoadedCurrent, UnorderedBeforeStore, PCs, SharedSteps, PreStore,
       Workers, NoHolder
<1>5. ASSUME NEW w \in Workers, Deliver(w) PROVE IInv'
    BY <1>5, KeepsRecorded DEF Deliver, IInv, TypeOK, MutexHeld,
       LoadedCurrent, UnorderedBeforeStore, PCs, SharedSteps, PreStore,
       Workers, NoHolder
<1>6. ASSUME NEW w \in Workers, Lock(w) PROVE IInv'
    BY <1>6, KeepsRecorded DEF Lock, IInv, TypeOK, MutexHeld,
       LoadedCurrent, UnorderedBeforeStore, PCs, SharedSteps, PreStore,
       Workers, NoHolder
<1>7. ASSUME NEW w \in Workers, Load(w) PROVE IInv'
    BY <1>7, KeepsRecorded DEF Load, IInv, TypeOK, MutexHeld,
       LoadedCurrent, UnorderedBeforeStore, PCs, SharedSteps, PreStore,
       Workers, NoHolder
<1>8. ASSUME NEW w \in Workers, Store(w) PROVE IInv'
    <2> USE <1>8
    <2>0. /\ TypeOK /\ MutexHeld /\ NoLostUpdate
          /\ pc[w] = "store" /\ tmp[w] = completed /\ order[w] = 0
          /\ mutex = w
        BY DEF IInv, Store, LoadedCurrent, UnorderedBeforeStore, PreStore,
               MutexHeld
    <2>1. w \notin Recorded /\ completed' = completed + 1
        BY <2>0 DEF Store, Recorded
    <2>2. Recorded' = Recorded \cup {w}
        BY <2>0 DEF Store, Recorded, TypeOK
    <2>3. IsFiniteSet(Recorded) /\ Cardinality(Recorded) = completed
          /\ Recorded \subseteq Workers
        BY <2>0, RecordedFinite DEF NoLostUpdate
    <2>4. Cardinality(Recorded') = completed + 1
        BY <2>1, <2>2, <2>3, FS_AddElement
    <2>5. Cardinality(Recorded') <= N
        <3>1. Recorded' \subseteq Workers
            BY <2>2, <2>3
        <3>2. IsFiniteSet(Workers) /\ Cardinality(Workers) = N
            BY FS_Interval DEF Workers
        <3>3. QED
            BY <3>1, <3>2, FS_Subset
    <2>6. NoLostUpdate'
        <3>1. \A v \in Recorded : order'[v] = order[v]
            BY <2>0, <2>1 DEF Store, TypeOK
        <3>2. order'[w] = completed + 1
            BY <2>0 DEF Store, TypeOK
        <3>3. {order[v] : v \in Recorded} = 1..completed
            BY <2>0 DEF NoLostUpdate
        <3>4. {order'[v] : v \in Recorded'}
                = {order[v] : v \in Recorded} \cup {completed + 1}
            BY <2>2, <3>1, <3>2
        <3>5. completed \in Nat
            BY <2>0 DEF TypeOK
        <3>6. {order'[v] : v \in Recorded'} = 1..completed'
            BY <2>1, <3>3, <3>4, <3>5
        <3>7. QED
            BY <2>1, <2>4, <3>6 DEF NoLostUpdate
    <2>7. TypeOK'
        <3>1. completed + 1 \in 1..N
            BY <2>0, <2>4, <2>5 DEF TypeOK
        <3>2. "unlock" \in PCs
            BY DEF PCs, SharedSteps
        <3>3. QED
            BY <2>0, <2>1, <3>1, <3>2 DEF Store, TypeOK
    <2>8. MutexHeld' /\ LoadedCurrent' /\ UnorderedBeforeStore'
        BY <2>0 DEF Store, IInv, MutexHeld, LoadedCurrent, UnorderedBeforeStore,
                    PreStore, TypeOK, Workers, NoHolder
    <2>9. QED
        BY <2>6, <2>7, <2>8 DEF IInv
<1>9. ASSUME NEW w \in Workers, Unlock(w) PROVE IInv'
    BY <1>9, KeepsRecorded DEF Unlock, IInv, TypeOK, MutexHeld,
       LoadedCurrent, UnorderedBeforeStore, PCs, SharedSteps, PreStore,
       Workers, NoHolder
<1>10. ASSUME NEW w \in Workers, Check(w) PROVE IInv'
    BY <1>10, KeepsRecorded DEF Check, IInv, TypeOK, MutexHeld,
       LoadedCurrent, UnorderedBeforeStore, PCs, SharedSteps, PreStore,
       Workers, NoHolder
<1>11. ASSUME NEW w \in Workers, Progress(w) PROVE IInv'
    BY <1>11, KeepsRecorded DEF Progress, IInv, TypeOK, MutexHeld,
       LoadedCurrent, UnorderedBeforeStore, PCs, SharedSteps, PreStore,
       Workers, NoHolder
<1>12. ASSUME NEW w \in Workers, Report(w) PROVE IInv'
    BY <1>12, KeepsRecorded DEF Report, IInv, TypeOK, MutexHeld,
       LoadedCurrent, UnorderedBeforeStore, PCs, SharedSteps, PreStore,
       Workers, NoHolder
<1>13. CASE UNCHANGED vars
    BY <1>13, KeepsRecorded DEF vars, IInv, TypeOK, MutexHeld, LoadedCurrent,
       UnorderedBeforeStore
<1>14. QED
    BY <1>1, <1>2, <1>3, <1>4, <1>5, <1>6, <1>7, <1>8, <1>9, <1>10, <1>11,
       <1>12, <1>13 DEF Next, Step

\* IInv holds in every reachable state.
THEOREM IInvInvariant == Spec => []IInv
BY InitIInv, NextIInv, PTL DEF Spec

\* The model's variables always have their types; in particular the
\* counter of asynchComplete never exceeds the number of servers.
THEOREM TypeCorrect == Spec => []TypeOK
BY IInvInvariant, PTL DEF IInv

\* The mutex-protected increment of asynchComplete loses and duplicates no
\* completion, for any number of servers.
THEOREM LostUpdateFree == Spec => []NoLostUpdate
BY IInvInvariant, PTL DEF IInv

=============================================================================
