----------------------------- MODULE AsynchCall -----------------------------
(***************************************************************************)
(* One asynchronous RPC to one server: a completion group of one, entered  *)
(* through xmlrpc_client_start_rpcf (xmlrpc_client.c) or through the      *)
(* global client's xmlrpc_client_call_server_asynch_params and the three  *)
(* wrappers in front of it (xmlrpc_client_global.c), then                *)
(* xmlrpc_client_start_rpc with                                           *)
(* callInfoCreate, the transport's send_request, and asynchComplete.      *)
(*                                                                         *)
(* What matters here is the heap: which blocks each step allocates, and   *)
(* which pointer each free and destroy is given on every fault path.  A    *)
(* pointer is a block name, or "info+1", the second int of the block that *)
(* call_server_asynch_params allocates for both counters.                 *)
(***************************************************************************)
EXTENDS Naturals

CONSTANTS
    Entries,        \* the entry points a program uses, a subset of EntryPoints
    FaultsPossible  \* the steps that can fault do

EntryPoints == {"rpcf", "serverParams", "callAsynch", "callAsynchParams",
                "callServerAsynch"}

\* The global client's wrappers in front of call_server_asynch_params, and
\* the ones among them that create a server info and free it afterwards.
WrapperEntries == {"callAsynch", "callAsynchParams", "callServerAsynch"}

WrapsServerInfo == {"callAsynch", "callAsynchParams"}

\* The steps of a wrapper that can fault: validateGlobalClientExists, the
\* parameter build, the suffix check, xmlrpc_server_info_new.
WrapperStages(e) ==
    CASE e = "callAsynch" ->
            {"validateFault", "buildFault", "suffixFault", "siFault", "ok"}
      [] e = "callAsynchParams" -> {"siFault", "ok"}
      [] e = "callServerAsynch" -> {"buildFault", "suffixFault", "ok"}

\* The faults of a wrapper that it passes to the response handler; the
\* others it cleans from its local env.
HandlerOn(e) ==
    CASE e = "callAsynch"       -> {"validateFault", "siFault"}
      [] e = "callAsynchParams" -> {"siFault"}
      [] e = "callServerAsynch" -> {"buildFault"}

\* mutex, the two counters of start_rpcf, the single counter block of
\* call_server_asynch_params, the server info, the call info, the parsed
\* result value (a DECREF of its last reference frees it).
Blocks == {"mutex", "required", "completed", "info", "serverInfo", "callInfo",
           "result"}

Pointers == Blocks \cup {"info+1"}

VARIABLES
    pc,         \* the caller's step
    entry,      \* the entry point of this call
    fault,      \* the env's fault_occurred
    heap,       \* heap[b]: "none" | "live" | "freed"
    ciState,    \* how far callInfoCreate filled the call info
    reqPtr,     \* callInfoP->requestsRequired
    compPtr,    \* callInfoP->requestsCompleted
    pending,    \* the transport holds the request
    handled,    \* calls of the user's response handler
    misuse      \* a free, destroy, DECREF or read was given a pointer that is not
                \* a live block

vars == <<pc, entry, fault, heap, ciState, reqPtr, compPtr, pending, handled,
          misuse>>

\* The outcomes of a step that can fault.
Outcomes == IF FaultsPossible THEN {FALSE, TRUE} ELSE {FALSE}

\* Pointer p is the start of a live block of heap h.
Live(h, p) == p \in Blocks /\ h[p] = "live"

\* free(p): valid only for the start of a live block.
Free(p) ==
    /\ misuse' = (misuse \/ ~Live(heap, p))
    /\ heap' = IF p \in Blocks THEN [heap EXCEPT ![p] = "freed"] ELSE heap

\* callInfoDestroy reads completionFn and serialized_xml and frees the call
\* info: valid only once callInfoCreate filled it completely.
DestroyCallInfo ==
    /\ misuse' = (misuse \/ heap["callInfo"] # "live" \/ ciState # "complete")
    /\ heap' = [heap EXCEPT !["callInfo"] = "freed"]

\* Where a call through call_server_asynch_params goes once that returns.
AfterServerParams ==
    IF entry \in WrapsServerInfo THEN "freeServerInfo" ELSE "done"

-----------------------------------------------------------------------------

Init ==
    /\ entry \in Entries
    /\ pc = IF entry = "serverParams" THEN "serverParams" ELSE "entry"
    /\ fault = FALSE
    /\ heap = [b \in Blocks |-> "none"]
    /\ ciState = "none"
    /\ reqPtr = "none"
    /\ compPtr = "none"
    /\ pending = FALSE
    /\ handled = 0
    /\ misuse = FALSE

\* xmlrpc_client_start_rpcf up to the server info: build the parameters,
\* malloc and init the mutex (whatever the build did), check the suffix,
\* malloc both counters, xmlrpc_server_info_new; on a fault of the build
\* or the suffix, return.
StartRpcf ==
    /\ pc = "entry"
    /\ entry = "rpcf"
    /\ \E buildFault, siFault \in Outcomes :
          /\ fault' = (buildFault \/ siFault)
          /\ heap' = [b \in Blocks |->
                        CASE b = "mutex" -> "live"
                          [] b \in {"required", "completed"} ->
                                IF buildFault THEN heap[b] ELSE "live"
                          [] b = "serverInfo" ->
                                IF buildFault \/ siFault THEN heap[b] ELSE "live"
                          [] OTHER -> heap[b]]
          /\ reqPtr' = "required"
          /\ compPtr' = "completed"
          /\ pc' = CASE buildFault -> "done"
                     [] siFault    -> "freeServerInfo"
                     [] OTHER      -> "createCallInfo"
    /\ UNCHANGED <<entry, ciState, pending, handled, misuse>>

\* xmlrpc_client_call_asynch (validate, build, suffix, then
\* call_asynch_params), xmlrpc_client_call_asynch_params
\* (xmlrpc_server_info_new) and xmlrpc_client_call_server_asynch (build,
\* suffix), each on a local env: call_server_asynch_params, or on a fault
\* the response handler or nothing.
Wrapper ==
    /\ pc = "entry"
    /\ entry \in WrapperEntries
    /\ \E stage \in IF FaultsPossible THEN WrapperStages(entry) ELSE {"ok"} :
          /\ handled' = IF stage \in HandlerOn(entry) THEN handled + 1
                                                     ELSE handled
          /\ heap' = IF stage = "ok" /\ entry \in WrapsServerInfo
                        THEN [heap EXCEPT !["serverInfo"] = "live"]
                        ELSE heap
          /\ fault' = (stage # "ok")
          /\ pc' = IF stage = "ok" THEN "serverParams" ELSE "done"
    /\ UNCHANGED <<entry, ciState, reqPtr, compPtr, pending, misuse>>

\* xmlrpc_client_call_server_asynch_params: validateGlobalClientExists,
\* one malloc for both counters, malloc and init the mutex; start_rpc, or
\* on a fault the response handler directly.
CallServerAsynchParams ==
    /\ pc = "serverParams"
    /\ \E validateFault \in Outcomes :
          /\ heap' = [heap EXCEPT !["info"] = "live", !["mutex"] = "live"]
          /\ reqPtr' = "info"
          /\ compPtr' = "info+1"
          /\ fault' = validateFault
          /\ handled' = IF validateFault THEN handled + 1 ELSE handled
          /\ pc' = IF validateFault THEN AfterServerParams ELSE "createCallInfo"
    /\ UNCHANGED <<entry, ciState, pending, misuse>>

\* callInfoCreate: malloc the call info; makeCallXml; callInfoSetCompletion
\* (its strdups can fault, and then the call info is freed).  Its pointer
\* is handed back in every case.
CreateCallInfo ==
    /\ pc = "createCallInfo"
    /\ \E stage \in IF FaultsPossible
                      THEN {"mallocFault", "xmlFault", "completionFault", "ok"}
                      ELSE {"ok"} :
          /\ ciState' = CASE stage = "mallocFault"     -> "none"
                          [] stage = "xmlFault"        -> "allocated"
                          [] stage = "completionFault" -> "freed"
                          [] OTHER                     -> "complete"
          /\ heap' = [heap EXCEPT !["callInfo"] =
                        CASE stage = "mallocFault"     -> "none"
                          [] stage = "completionFault" -> "freed"
                          [] OTHER                     -> "live"]
          /\ fault' = (stage # "ok")
          /\ pc' = "send"
    /\ UNCHANGED <<entry, reqPtr, compPtr, pending, handled, misuse>>

\* start_rpc: send_request if callInfoCreate did not fault; on any fault
\* callInfoDestroy.
Send ==
    /\ pc = "send"
    /\ \E sendFault \in IF fault THEN {TRUE} ELSE Outcomes :
          IF sendFault
            THEN /\ fault' = TRUE
                 /\ DestroyCallInfo
                 /\ UNCHANGED pending
            ELSE /\ pending' = TRUE
                 /\ UNCHANGED <<fault, heap, misuse>>
    /\ pc' = IF entry = "rpcf" THEN "freeServerInfo" ELSE AfterServerParams
    /\ UNCHANGED <<entry, ciState, reqPtr, compPtr, handled>>

\* start_rpcf: xmlrpc_server_info_free(serverInfoP), also after
\* xmlrpc_server_info_new faulted; then the parameters' DECREF and return.
\* call_asynch_params frees its server info the same way once
\* call_server_asynch_params returns.
FreeServerInfo ==
    /\ pc = "freeServerInfo"
    /\ Free("serverInfo")
    /\ pc' = "done"
    /\ UNCHANGED <<entry, fault, ciState, reqPtr, compPtr, pending, handled>>

\* asynchComplete for a group of one: the count reaches the required 1;
\* transportEnv or xmlrpc_parse_response2 may fault, or the response be a
\* fault response, and only a cleanly parsed response sets resultP.  Then
\* the handler, the DECREF of resultP if the env has no fault,
\* callInfoDestroy, the two counter pointers read from the call info and
\* freed, pthread_mutex_destroy (the mutex's memory is not freed), and a
\* second xmlrpc_DECREF(resultP) on the way out.
Complete ==
    /\ pending
    /\ pending' = FALSE
    /\ handled' = handled + 1
    /\ \E outcome \in IF FaultsPossible
                        THEN {"transportFault", "parseFault", "serverFault", "ok"}
                        ELSE {"ok"} :
       LET h0 == [heap EXCEPT !["result"] = IF outcome = "ok" THEN "live"
                                                               ELSE "none"]
           h1 == IF outcome = "ok" THEN [h0 EXCEPT !["result"] = "freed"] ELSE h0
           okCi == Live(h1, "callInfo") /\ ciState = "complete"
           h2 == [h1 EXCEPT !["callInfo"] = "freed"]
           okRead == Live(h2, "callInfo")
           h3 == IF compPtr \in Blocks THEN [h2 EXCEPT ![compPtr] = "freed"]
                                       ELSE h2
           h4 == IF reqPtr \in Blocks THEN [h3 EXCEPT ![reqPtr] = "freed"]
                                      ELSE h3
       IN  /\ heap' = IF h4["result"] = "none" THEN h4
                                              ELSE [h4 EXCEPT !["result"] = "freed"]
           /\ misuse' = (misuse \/ ~okCi \/ ~okRead \/ ~Live(h2, compPtr)
                                \/ ~Live(h3, reqPtr) \/ ~Live(h4, "result"))
    /\ UNCHANGED <<pc, entry, fault, ciState, reqPtr, compPtr>>

-----------------------------------------------------------------------------

Next == StartRpcf \/ Wrapper \/ CallServerAsynchParams \/ CreateCallInfo \/ Send
        \/ FreeServerInfo \/ Complete

Spec == Init /\ [][Next]_vars

-----------------------------------------------------------------------------
(* Properties                                                              *)

TypeOK ==
    /\ pc \in {"entry", "serverParams", "createCallInfo", "send", "freeServerInfo", "done"}
    /\ entry \in Entries
    /\ fault \in BOOLEAN
    /\ heap \in [Blocks -> {"none", "live", "freed"}]
    /\ ciState \in {"none", "allocated", "freed", "complete"}
    /\ reqPtr \in Pointers \cup {"none"} /\ compPtr \in Pointers \cup {"none"}
    /\ pending \in BOOLEAN
    /\ handled \in Nat
    /\ misuse \in BOOLEAN

\* On every path of one asynchronous call, the fault paths of the wrappers
\* and of call_server_asynch_params and asynchComplete included, the user's
\* response handler is called at most once.
HandlerAtMostOnce == handled <= 1

\* The transport holds the request only with a call info that
\* callInfoCreate filled completely and that nothing has freed: start_rpc
\* calls send_request only when callInfoCreate did not fault, so the
\* completion finds its completion function and its XML.
TransportHoldsCompleteCall ==
    pending => ciState = "complete" /\ Live(heap, "callInfo")

\* Every free, callInfoDestroy, xmlrpc_DECREF and read through a pointer,
\* on the success path and on every fault path of one asynchronous call,
\* is given a live, fully initialised block: no double free or release, no
\* free of an uninitialised or interior pointer, no read of freed memory.
NoHeapMisuse == ~misuse

=============================================================================
