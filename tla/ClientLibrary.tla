---------------------------- MODULE ClientLibrary ----------------------------
(***************************************************************************)
(* The client library's global constants and client objects               *)
(* (xmlrpc_client.c) and the global client's init2 / cleanup              *)
(* (xmlrpc_client_global.c).                                              *)
(*                                                                         *)
(* xmlrpc_client_setup_global_const counts its callers in constSetupCount *)
(* and sets up the transports' global constants (curl_global_init) for    *)
(* the first; xmlrpc_client_teardown_global_const tears them down for the *)
(* last.  xmlrpc_client_create checks the count, validates the client     *)
(* parameters, creates a transport of its own or adopts the user's, and   *)
(* allocates the client; xmlrpc_client_destroy destroys its own           *)
(* transport.  The functions are documented as not thread-safe, so one    *)
(* thread makes every call: the users below are parts of one program      *)
(* whose calls interleave.  User 0 is the global client (init2 and        *)
(* cleanup); the others call the four functions themselves, in the order  *)
(* the documentation asks: setup, create, destroy, teardown, and no       *)
(* teardown after a setup that failed.                                    *)
(***************************************************************************)
EXTENDS Naturals, FiniteSets

CONSTANTS
    NU,             \* users besides the global client
    MaxSetups,      \* bound on constSetupCount
    SetupMayFail    \* a transport's setup_global_const can fault

ASSUME LibraryAssumption ==
    /\ NU \in Nat
    /\ MaxSetups \in Nat \ {0}
    /\ SetupMayFail \in BOOLEAN

Users == 0..NU

GlobalUser == 0

\* The transports this build has, and XMLRPC_DEFAULT_TRANSPORT.
KnownTransports == {"curl"}

DefaultTransport == "curl"

\* struct xmlrpc_clientparms, as far as client creation looks at it: the
\* transport name, a user transport (transportP), its operations
\* (transportOpsP), and transport-specific parameters.
ClientParms == [name : {"none", "curl", "bogus"}, xport : BOOLEAN,
                ops : BOOLEAN, xparms : BOOLEAN]

VARIABLES
    constSetupCount,
    xportGlobal,   \* the transports' global constants are set up
    pc,            \* pc[u]: "idle" | "ready" (set up) | "client"
    own,           \* own[u]: the user's client has myTransport
    xportAlive     \* the users whose client's own transport exists

vars == <<constSetupCount, xportGlobal, pc, own, xportAlive>>

-----------------------------------------------------------------------------
(* Client parameters                                                       *)

\* getTransportInfo and getTransportParmsFromClientParms fault.
TransportInfoFault(p) ==
    \/ p.ops # p.xport
    \/ p.name # "none" /\ p.xport
    \/ p.xparms /\ p.name = "none"

\* The transport name getTransportInfo settles on; "none" when the user
\* supplies the transport.
TransportName(p) ==
    IF p.xport THEN "none"
    ELSE IF p.name = "none" THEN DefaultTransport ELSE p.name

\* xmlrpc_client_create's possible results with parameters p and
\* constSetupCount = count: a fault, or
\* a client with or without a transport of its own.  A transport of its
\* own is created (create can fault), and destroyed again when the client
\* allocation fails.
CreateResults(p, count) ==
    IF count = 0 \/ TransportInfoFault(p)
      THEN {"fault"}
    ELSE IF TransportName(p) = "none"
      THEN {"userTransport", "fault"}
    ELSE IF TransportName(p) \notin KnownTransports
      THEN {"fault"}
    ELSE {"ownTransport", "fault"}

-----------------------------------------------------------------------------

Init ==
    /\ constSetupCount = 0
    /\ xportGlobal = FALSE
    /\ pc = [u \in Users |-> "idle"]
    /\ own = [u \in Users |-> FALSE]
    /\ xportAlive = {}

\* The outcomes of xmlrpc_client_setup_global_const: the transports are set
\* up only by the first caller, and the count goes up either way.
SetupResults ==
    IF constSetupCount = 0 /\ SetupMayFail THEN {"ok", "fault"} ELSE {"ok"}

SetupGlobalConst(result) ==
    /\ constSetupCount < MaxSetups
    /\ constSetupCount' = constSetupCount + 1
    /\ xportGlobal' = (xportGlobal \/ (constSetupCount = 0 /\ result = "ok"))

\* Mutant: the decrement is missing.
TeardownNoDecrement ==
    /\ constSetupCount > 0
    /\ UNCHANGED constSetupCount
    /\ xportGlobal' = (xportGlobal /\ constSetupCount > 1)

\* Mutant: the transports are torn down while another user holds a setup.
TeardownGlobalConstEarly ==
    /\ constSetupCount > 0
    /\ constSetupCount' = constSetupCount - 1
    /\ xportGlobal' = (xportGlobal /\ constSetupCount > 2)

\* xmlrpc_client_teardown_global_const: assert(constSetupCount > 0), the
\* decrement, and the transports' teardown for the last caller.
TeardownGlobalConst ==
    /\ constSetupCount > 0
    /\ constSetupCount' = constSetupCount - 1
    /\ xportGlobal' = (xportGlobal /\ constSetupCount > 1)

\* The client of user u comes into existence with the given result.
ClientCreated(u, result) ==
    /\ pc' = [pc EXCEPT ![u] = "client"]
    /\ own' = [own EXCEPT ![u] = (result = "ownTransport")]
    /\ xportAlive' = IF result = "ownTransport" THEN xportAlive \cup {u}
                                                ELSE xportAlive

\* xmlrpc_client_destroy: the client's own transport is destroyed.
ClientDestroyed(u) ==
    /\ xportAlive' = xportAlive \ {u}
    /\ UNCHANGED own

-----------------------------------------------------------------------------
(* The calls of the users that manage a client object themselves           *)

Setup(u) ==
    /\ u # GlobalUser
    /\ pc[u] = "idle"
    /\ \E r \in SetupResults :
          /\ SetupGlobalConst(r)
          /\ pc' = [pc EXCEPT ![u] = IF r = "ok" THEN "ready" ELSE "idle"]
    /\ UNCHANGED <<own, xportAlive>>

Create(u) ==
    /\ u # GlobalUser
    /\ pc[u] = "ready"
    /\ \E p \in ClientParms : \E r \in CreateResults(p, constSetupCount) :
          /\ r # "fault"
          /\ ClientCreated(u, r)
    /\ UNCHANGED <<constSetupCount, xportGlobal>>

Destroy(u) ==
    /\ u # GlobalUser
    /\ pc[u] = "client"
    /\ ClientDestroyed(u)
    /\ UNCHANGED <<constSetupCount, xportGlobal>>
    /\ pc' = [pc EXCEPT ![u] = "ready"]

Teardown(u) ==
    /\ u # GlobalUser
    /\ pc[u] = "ready"
    /\ TeardownGlobalConst
    /\ pc' = [pc EXCEPT ![u] = "idle"]
    /\ UNCHANGED <<own, xportAlive>>

-----------------------------------------------------------------------------
(* The global client                                                       *)

\* xmlrpc_client_init2: a fault if the global client exists; otherwise
\* setup, create if the setup did not fault, and teardown if the create
\* faulted.
Init2 ==
    \/ /\ pc[GlobalUser] = "client"
       /\ UNCHANGED vars
    \/ /\ pc[GlobalUser] = "idle"
       /\ \E s \in SetupResults :
            \/ /\ s = "fault"
               /\ SetupGlobalConst(s)
               /\ UNCHANGED <<pc, own, xportAlive>>
            \/ /\ s = "ok"
               /\ \E p \in ClientParms :
                  \E r \in CreateResults(p, constSetupCount + 1) :
                    IF r = "fault"
                      THEN /\ constSetupCount < MaxSetups
                           /\ UNCHANGED vars
                      ELSE /\ SetupGlobalConst(s)
                           /\ ClientCreated(GlobalUser, r)

\* xmlrpc_client_cleanup: destroy the global client, then teardown.
Cleanup ==
    /\ pc[GlobalUser] = "client"
    /\ ClientDestroyed(GlobalUser)
    /\ TeardownGlobalConst
    /\ pc' = [pc EXCEPT ![GlobalUser] = "idle"]

-----------------------------------------------------------------------------

Next == Init2 \/ Cleanup
        \/ \E u \in Users : Setup(u) \/ Create(u) \/ Destroy(u) \/ Teardown(u)

Spec == Init /\ [][Next]_vars

-----------------------------------------------------------------------------
(* Properties                                                              *)

TypeOK ==
    /\ constSetupCount \in 0..MaxSetups
    /\ xportGlobal \in BOOLEAN
    /\ pc \in [Users -> {"idle", "ready", "client"}]
    /\ own \in [Users -> BOOLEAN]
    /\ xportAlive \subseteq Users

\* The users that hold a setup of the global constants: the ones that set
\* them up or created a client (the global client through init2).
SetupHolders == {u \in Users : pc[u] # "idle"}

\* constSetupCount counts exactly the users that hold a setup, so the
\* transports' constants are torn down by the last of them and by no
\* earlier one.
SetupCountMatchesUsers == constSetupCount = Cardinality(SetupHolders)

\* A transport that a client created for itself exists only while the
\* transports' global constants are set up (curl requires
\* curl_global_init before any handle is made).
GlobalsUpForTransports == xportAlive # {} => xportGlobal

=============================================================================
