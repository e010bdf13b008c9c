------------------------- MODULE ClientLibraryProofs -------------------------
(***************************************************************************)
(* Proofs about ClientLibrary when the transports' setup_global_const does *)
(* not fault, for every number of users and every bound on the count.     *)
(*                                                                         *)
(* constSetupCount moves with the set of users that hold a setup: a user   *)
(* joins it by its setup (or init2) and leaves it by its teardown (or      *)
(* cleanup), and creating or destroying a client moves a user inside it.  *)
(* The transports' constants are set up exactly while the count is         *)
(* positive, and a client's own transport exists only while its client     *)
(* does, so it exists only while the constants are set up.                 *)
(***************************************************************************)
EXTENDS ClientLibrary, FiniteSetTheorems, TLAPS

\* Own transports belong to existing clients.
OwnTransportsOfClients == xportAlive \subseteq {u \in Users : pc[u] = "client"}

\* The transports' constants are set up exactly while the count is positive.
GlobalsUp == xportGlobal <=> constSetupCount > 0

LInv ==
    /\ TypeOK
    /\ SetupCountMatchesUsers
    /\ GlobalsUp
    /\ OwnTransportsOfClients

\* The holders of a setup are a finite set of users.
LEMMA HoldersFinite ==
    ASSUME TypeOK
    PROVE  IsFiniteSet(SetupHolders) /\ Cardinality(SetupHolders) \in Nat
<1>1. IsFiniteSet(Users)
    BY LibraryAssumption, FS_Interval DEF Users
<1>2. SetupHolders \subseteq Users
    BY DEF SetupHolders
<1>3. QED
    BY <1>1, <1>2, FS_Subset, FS_CardinalityType

\* A user that leaves idle joins the holders.
LEMMA HoldersJoin ==
    ASSUME TypeOK, NEW u \in Users, pc[u] = "idle",
           NEW v \in {"ready", "client"}, pc' = [pc EXCEPT ![u] = v]
    PROVE  Cardinality(SetupHolders') = Cardinality(SetupHolders) + 1
<1>1. SetupHolders' = SetupHolders \cup {u}
    BY DEF SetupHolders, TypeOK
<1>2. u \notin SetupHolders
    BY DEF SetupHolders
<1>3. QED
    BY <1>1, <1>2, HoldersFinite, FS_AddElement

\* A user that goes back to idle leaves the holders.
LEMMA HoldersLeave ==
    ASSUME TypeOK, NEW u \in Users, pc[u] \in {"ready", "client"},
           pc' = [pc EXCEPT ![u] = "idle"]
    PROVE  Cardinality(SetupHolders') = Cardinality(SetupHolders) - 1
<1>1. SetupHolders' = SetupHolders \ {u}
    BY DEF SetupHolders, TypeOK
<1>2. u \in SetupHolders
    BY DEF SetupHolders
<1>3. QED
    BY <1>1, <1>2, HoldersFinite, FS_RemoveElement

\* A user that moves between ready and client stays a holder.
LEMMA HoldersStay ==
    ASSUME TypeOK, NEW u \in Users, pc[u] \in {"ready", "client"},
           NEW v \in {"ready", "client"}, pc' = [pc EXCEPT ![u] = v]
    PROVE  SetupHolders' = SetupHolders
BY DEF SetupHolders, TypeOK

\* The initial state satisfies LInv.
LEMMA InitLInv == Init => LInv
<1> SUFFICES ASSUME Init PROVE LInv
    OBVIOUS
<1>1. SetupHolders = {}
    BY DEF Init, SetupHolders
<1>2. TypeOK
    <2>1. constSetupCount \in 0..MaxSetups
        BY LibraryAssumption DEF Init
    <2>2. pc \in [Users -> {"idle", "ready", "client"}]
        BY DEF Init
    <2>3. own \in [Users -> BOOLEAN]
        BY DEF Init
    <2>4. xportGlobal \in BOOLEAN /\ xportAlive \subseteq Users
        BY DEF Init
    <2>5. QED
        BY <2>1, <2>2, <2>3, <2>4 DEF TypeOK
<1>3. SetupCountMatchesUsers
    BY <1>1, FS_EmptySet DEF Init, SetupCountMatchesUsers
<1>4. GlobalsUp
    BY DEF Init, GlobalsUp
<1>5. OwnTransportsOfClients
    BY DEF Init, OwnTransportsOfClients
<1>6. QED
    BY <1>2, <1>3, <1>4, <1>5 DEF LInv

\* A setup that does not fault leaves the constants set up exactly while
\* the count is positive.
LEMMA GlobalsAfterSetup ==
    ASSUME TypeOK, GlobalsUp, SetupGlobalConst("ok")
    PROVE  /\ constSetupCount' = constSetupCount + 1
           /\ constSetupCount' \in 0..MaxSetups
           /\ xportGlobal' \in BOOLEAN
           /\ GlobalsUp'
<1>0. constSetupCount < MaxSetups /\ constSetupCount' = constSetupCount + 1
    BY Zenon DEF SetupGlobalConst
<1>1. constSetupCount' = constSetupCount + 1 /\ constSetupCount' \in 1..MaxSetups
    BY <1>0, LibraryAssumption DEF TypeOK
<1>2. xportGlobal' = (xportGlobal \/ (constSetupCount = 0 /\ "ok" = "ok"))
    BY DEF SetupGlobalConst
<1>3. xportGlobal' \in BOOLEAN /\ xportGlobal'
    <2>1. xportGlobal \/ constSetupCount = 0
        BY DEF TypeOK, GlobalsUp
    <2>2. QED
        BY <1>2, <2>1, Zenon
<1>4. constSetupCount' > 0
    BY <1>1 DEF TypeOK
<1>5. QED
    BY <1>1, <1>3, <1>4 DEF GlobalsUp

\* So does a teardown.
LEMMA GlobalsAfterTeardown ==
    ASSUME TypeOK, GlobalsUp, TeardownGlobalConst
    PROVE  /\ constSetupCount' = constSetupCount - 1
           /\ constSetupCount' \in 0..MaxSetups
           /\ xportGlobal' \in BOOLEAN
           /\ GlobalsUp'
<1>0. constSetupCount > 0 /\ constSetupCount' = constSetupCount - 1
    BY Zenon DEF TeardownGlobalConst
<1>1. constSetupCount' = constSetupCount - 1 /\ constSetupCount' \in 0..MaxSetups
    BY <1>0, LibraryAssumption DEF TypeOK
<1>2. xportGlobal' = (xportGlobal /\ constSetupCount > 1)
    BY DEF TeardownGlobalConst
<1>3. xportGlobal
    BY <1>0 DEF TypeOK, GlobalsUp
<1>4. xportGlobal' \in BOOLEAN /\ (xportGlobal' <=> constSetupCount > 1)
    BY <1>2, <1>3, Zenon
<1>5. constSetupCount > 1 <=> constSetupCount' > 0
    BY <1>1 DEF TypeOK
<1>6. QED
    BY <1>1, <1>4, <1>5 DEF GlobalsUp

\* With a setup that cannot fault, every step keeps LInv.
LEMMA NextLInv ==
    ASSUME ~SetupMayFail
    PROVE  LInv /\ [Next]_vars => LInv'
<1> SUFFICES ASSUME LInv, [Next]_vars PROVE LInv'
    OBVIOUS
<1>0. /\ TypeOK /\ SetupResults = {"ok"}
      /\ GlobalsUp
      /\ constSetupCount = Cardinality(SetupHolders)
      /\ OwnTransportsOfClients
    BY DEF LInv, SetupResults, SetupCountMatchesUsers
<1>g. GlobalUser \in Users
    BY LibraryAssumption DEF GlobalUser, Users
<1>r. \A p \in ClientParms, n \in Nat :
         CreateResults(p, n) \subseteq {"fault", "ownTransport", "userTransport"}
    BY DEF CreateResults
<1>1. CASE Init2
    <2>1. CASE UNCHANGED vars
        BY <2>1 DEF vars, LInv, TypeOK, SetupCountMatchesUsers, SetupHolders,
           OwnTransportsOfClients, GlobalsUp
    <2>2. CASE /\ pc[GlobalUser] = "idle"
               /\ SetupGlobalConst("ok")
               /\ \E r \in {"ownTransport", "userTransport"} :
                     ClientCreated(GlobalUser, r)
        <3>1. PICK r \in {"ownTransport", "userTransport"} : ClientCreated(GlobalUser, r)
            BY <2>2
        <3>2. Cardinality(SetupHolders') = Cardinality(SetupHolders) + 1
            BY <1>0, <1>g, <2>2, <3>1, HoldersJoin DEF ClientCreated
        <3>3. TypeOK'
            BY <1>0, <1>g, <2>2, <3>1, GlobalsAfterSetup DEF ClientCreated, TypeOK
        <3>4. OwnTransportsOfClients'
            BY <1>0, <1>g, <3>1 DEF ClientCreated, OwnTransportsOfClients, TypeOK
        <3>5. QED
            BY <1>0, <2>2, <3>2, <3>3, <3>4, GlobalsAfterSetup
               DEF LInv, SetupCountMatchesUsers
    <2>3. QED
        BY <1>0, <1>1, <1>r, <2>1, <2>2, LibraryAssumption DEF Init2, TypeOK
<1>2. CASE Cleanup
    <2>1. Cardinality(SetupHolders') = Cardinality(SetupHolders) - 1
        BY <1>0, <1>2, <1>g, HoldersLeave DEF Cleanup
    <2>2. TypeOK'
        BY <1>0, <1>2, <1>g, GlobalsAfterTeardown DEF Cleanup, ClientDestroyed, TypeOK
    <2>3. OwnTransportsOfClients'
        BY <1>0, <1>2, <1>g DEF Cleanup, ClientDestroyed, OwnTransportsOfClients, TypeOK
    <2>4. QED
        BY <1>0, <1>2, <2>1, <2>2, <2>3, GlobalsAfterTeardown
           DEF Cleanup, LInv, SetupCountMatchesUsers
<1>3. ASSUME NEW u \in Users, Setup(u) PROVE LInv'
    <2>1. SetupGlobalConst("ok") /\ pc' = [pc EXCEPT ![u] = "ready"]
        BY <1>0, <1>3 DEF Setup
    <2>2. Cardinality(SetupHolders') = Cardinality(SetupHolders) + 1
        BY <1>0, <1>3, <2>1, HoldersJoin DEF Setup
    <2>3. TypeOK'
        BY <1>0, <1>3, <2>1, GlobalsAfterSetup DEF Setup, TypeOK
    <2>4. OwnTransportsOfClients'
        BY <1>0, <1>3, <2>1 DEF Setup, OwnTransportsOfClients, TypeOK
    <2>5. QED
        BY <1>0, <2>1, <2>2, <2>3, <2>4, GlobalsAfterSetup
           DEF LInv, SetupCountMatchesUsers
<1>4. ASSUME NEW u \in Users, Create(u) PROVE LInv'
    <2>1. SetupHolders' = SetupHolders
        BY <1>0, <1>4, HoldersStay DEF Create, ClientCreated
    <2>2. PICK r \in {"ownTransport", "userTransport"} : ClientCreated(u, r)
        BY <1>0, <1>4, <1>r DEF Create, TypeOK
    <2>3. QED
        BY <1>0, <1>4, <2>1, <2>2
           DEF Create, ClientCreated, LInv, TypeOK, SetupCountMatchesUsers,
               OwnTransportsOfClients, GlobalsUp
<1>5. ASSUME NEW u \in Users, Destroy(u) PROVE LInv'
    <2>1. SetupHolders' = SetupHolders
        BY <1>0, <1>5, HoldersStay DEF Destroy
    <2>2. QED
        BY <1>0, <1>5, <2>1
           DEF Destroy, ClientDestroyed, LInv, TypeOK, SetupCountMatchesUsers,
               OwnTransportsOfClients, GlobalsUp
<1>6. ASSUME NEW u \in Users, Teardown(u) PROVE LInv'
    <2>1. Cardinality(SetupHolders') = Cardinality(SetupHolders) - 1
        BY <1>0, <1>6, HoldersLeave DEF Teardown
    <2>2. TypeOK'
        BY <1>0, <1>6, GlobalsAfterTeardown DEF Teardown, TypeOK
    <2>3. OwnTransportsOfClients'
        BY <1>0, <1>6 DEF Teardown, OwnTransportsOfClients, TypeOK
    <2>4. QED
        BY <1>0, <1>6, <2>1, <2>2, <2>3, GlobalsAfterTeardown
           DEF Teardown, LInv, SetupCountMatchesUsers
<1>7. CASE UNCHANGED vars
    BY <1>7 DEF vars, LInv, TypeOK, SetupCountMatchesUsers, SetupHolders,
       OwnTransportsOfClients, GlobalsUp
<1>8. QED
    BY <1>1, <1>2, <1>3, <1>4, <1>5, <1>6, <1>7 DEF Next

\* LInv holds in every reachable state when the setup cannot fault.
THEOREM LibraryInvariant ==
    ASSUME ~SetupMayFail
    PROVE  Spec => []LInv
BY InitLInv, NextLInv, PTL DEF Spec

\* When the transports' setup does not fault, constSetupCount always
\* equals the number of users holding a setup, whatever the interleaving
\* of init2, cleanup and the client-object users' calls: the constants
\* are torn down by the last holder's teardown and by no earlier one.
THEOREM SetupCountExact ==
    ASSUME ~SetupMayFail
    PROVE  Spec => []SetupCountMatchesUsers
<1>1. LInv => SetupCountMatchesUsers
    BY DEF LInv
<1>2. QED
    BY <1>1, LibraryInvariant, PTL

\* When the transports' setup does not fault, a transport that a client
\* created for itself exists only while the transports' global constants
\* are set up.
THEOREM TransportsUnderGlobals ==
    ASSUME ~SetupMayFail
    PROVE  Spec => []GlobalsUpForTransports
<1>1. LInv => GlobalsUpForTransports
    <2> SUFFICES ASSUME LInv, xportAlive # {} PROVE xportGlobal
        BY DEF GlobalsUpForTransports
    <2>1. PICK u \in xportAlive : TRUE
        OBVIOUS
    <2>2. u \in SetupHolders
        BY <2>1 DEF LInv, OwnTransportsOfClients, SetupHolders
    <2>3. Cardinality(SetupHolders) > 0
        BY <2>2, HoldersFinite, FS_EmptySet DEF LInv
    <2>4. QED
        BY <2>3 DEF LInv, SetupCountMatchesUsers, GlobalsUp
<1>2. QED
    BY <1>1, LibraryInvariant, PTL

=============================================================================
