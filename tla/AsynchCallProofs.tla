-------------------------- MODULE AsynchCallProofs --------------------------
(***************************************************************************)
(* Proofs about one asynchronous call, for every set of entry points and   *)
(* whether or not the steps can fault.  The heap misuse that TLC finds is  *)
(* not among them: what is proved is that the response handler runs at    *)
(* most once and that the transport only ever holds a complete call info.  *)
(***************************************************************************)
EXTENDS AsynchCall, TLAPS

\* The caller's steps before start_rpc has handed the request over or
\* given up.
Early == {"entry", "serverParams", "createCallInfo", "send"}

\* The inductive invariant: before the hand-over no handler has run and
\* the transport holds nothing; while it holds the request no handler has
\* run and the call info is complete; at send_request the env is clean
\* exactly when callInfoCreate filled a live call info.
AInv ==
    /\ TypeOK
    /\ HandlerAtMostOnce
    /\ pc \in Early => handled = 0 /\ ~pending
    /\ pending => handled = 0 /\ ciState = "complete" /\ Live(heap, "callInfo")
    /\ pc = "send" => (~fault <=> ciState = "complete" /\ Live(heap, "callInfo"))

-----------------------------------------------------------------------------
(* The fault choices of the steps, as sets that do not depend on          *)
(* FaultsPossible.                                                         *)

LEMMA OutcomesBool == Outcomes \subseteq BOOLEAN
BY Zenon DEF Outcomes

LEMMA WrapperStage ==
    ASSUME NEW e \in WrapperEntries,
           NEW stage \in IF FaultsPossible THEN WrapperStages(e) ELSE {"ok"}
    PROVE  /\ stage \in {"validateFault", "buildFault", "suffixFault",
                         "siFault", "ok"}
           /\ stage = "ok" => stage \notin HandlerOn(e)
<1>1. stage \in WrapperStages(e) \cup {"ok"}
    BY Zenon
<1>2. QED
    BY <1>1 DEF WrapperStages, HandlerOn, WrapperEntries

LEMMA CallInfoStage ==
    ASSUME NEW stage \in IF FaultsPossible
                           THEN {"mallocFault", "xmlFault", "completionFault", "ok"}
                           ELSE {"ok"}
    PROVE  stage \in {"mallocFault", "xmlFault", "completionFault", "ok"}
BY Zenon

LEMMA CompleteOutcome ==
    ASSUME NEW outcome \in IF FaultsPossible
                             THEN {"transportFault", "parseFault", "serverFault", "ok"}
                             ELSE {"ok"}
    PROVE  outcome \in {"transportFault", "parseFault", "serverFault", "ok"}
BY Zenon

LEMMA SendChoice ==
    ASSUME NEW sendFault \in IF fault THEN {TRUE} ELSE Outcomes
    PROVE  /\ sendFault \in BOOLEAN
           /\ fault => sendFault
<1>1. CASE fault
    BY <1>1, Zenon
<1>2. CASE ~fault
    BY <1>2, OutcomesBool, Zenon
<1>3. QED
    BY <1>1, <1>2

-----------------------------------------------------------------------------

LEMMA InitAInv == Init => AInv
<1> SUFFICES ASSUME Init PROVE AInv
    OBVIOUS
<1>1. TypeOK
    BY DEF Init, TypeOK, Pointers, Blocks
<1>2. ~pending /\ handled = 0 /\ pc # "send"
    BY DEF Init
<1>3. QED
    BY <1>1, <1>2 DEF AInv, HandlerAtMostOnce

\* Every step keeps AInv.
LEMMA NextAInv ==
    ASSUME FaultsPossible \in BOOLEAN PROVE AInv /\ [Next]_vars => AInv'
<1> SUFFICES ASSUME AInv PROVE [Next]_vars => AInv'
    OBVIOUS
<1>0. TypeOK
    BY DEF AInv
<1>1. ASSUME StartRpcf PROVE AInv'
    BY <1>0, <1>1 DEF StartRpcf, AInv, TypeOK, HandlerAtMostOnce, Early,
                      Outcomes, Blocks, Pointers
<1>2. ASSUME Wrapper PROVE AInv'
    <2>1. pc = "entry" /\ entry \in WrapperEntries
          /\ UNCHANGED <<entry, ciState, reqPtr, compPtr, pending, misuse>>
        BY <1>2 DEF Wrapper
    <2>2. PICK stage \in IF FaultsPossible THEN WrapperStages(entry) ELSE {"ok"} :
            /\ handled' = IF stage \in HandlerOn(entry) THEN handled + 1
                                                       ELSE handled
            /\ heap' = IF stage = "ok" /\ entry \in WrapsServerInfo
                          THEN [heap EXCEPT !["serverInfo"] = "live"]
                          ELSE heap
            /\ fault' = (stage # "ok")
            /\ pc' = IF stage = "ok" THEN "serverParams" ELSE "done"
        BY <1>2 DEF Wrapper
    <2>3. /\ stage = "ok" => handled' = handled /\ pc' = "serverParams"
          /\ stage # "ok" => pc' = "done" /\ handled' \in {handled, handled + 1}
        BY <2>1, <2>2, WrapperStage, Zenon
    <2>4. fault' \in BOOLEAN /\ heap' \in [Blocks -> {"none", "live", "freed"}]
        BY <1>0, <2>2, Zenon DEF TypeOK, Blocks
    <2>5. QED
        BY <1>0, <2>1, <2>3, <2>4 DEF AInv, TypeOK, HandlerAtMostOnce, Early
<1>3. ASSUME CallServerAsynchParams PROVE AInv'
    <2>1. PICK vf \in BOOLEAN :
            /\ heap' = [heap EXCEPT !["info"] = "live", !["mutex"] = "live"]
            /\ reqPtr' = "info"
            /\ compPtr' = "info+1"
            /\ fault' = vf
            /\ handled' = IF vf THEN handled + 1 ELSE handled
            /\ pc' = IF vf THEN AfterServerParams ELSE "createCallInfo"
        BY <1>3, OutcomesBool, Zenon DEF CallServerAsynchParams
    <2>2. pc = "serverParams" /\ UNCHANGED <<entry, ciState, pending, misuse>>
        BY <1>3 DEF CallServerAsynchParams
    <2>3. /\ vf => handled' = handled + 1 /\ pc' \in {"freeServerInfo", "done"}
          /\ ~vf => handled' = handled /\ pc' = "createCallInfo"
          /\ fault' \in BOOLEAN
        BY <2>1, Zenon DEF AfterServerParams
    <2>4. heap' \in [Blocks -> {"none", "live", "freed"}]
          /\ reqPtr' \in Pointers /\ compPtr' \in Pointers
        BY <1>0, <2>1 DEF TypeOK, Blocks, Pointers
    <2>5. QED
        BY <1>0, <2>2, <2>3, <2>4 DEF AInv, TypeOK, HandlerAtMostOnce, Early
<1>4. ASSUME CreateCallInfo PROVE AInv'
    BY <1>0, <1>4 DEF CreateCallInfo, AInv, TypeOK, HandlerAtMostOnce, Early,
                      Blocks, Live
<1>5. ASSUME Send PROVE AInv'
    BY <1>0, <1>5 DEF Send, DestroyCallInfo, AInv, TypeOK, HandlerAtMostOnce,
                      Early, Outcomes,
                      AfterServerParams, Blocks, Live
<1>6. ASSUME FreeServerInfo PROVE AInv'
    BY <1>0, <1>6 DEF FreeServerInfo, Free, AInv, TypeOK, HandlerAtMostOnce,
                      Early, Blocks, Live
<1>7. ASSUME Complete PROVE AInv'
    BY <1>0, <1>7 DEF Complete, AInv, TypeOK, HandlerAtMostOnce, Early,
                      Blocks, Live, Pointers
<1>8. ASSUME UNCHANGED vars PROVE AInv'
    BY <1>8 DEF vars, AInv, TypeOK, HandlerAtMostOnce, Early, Live
<1>9. QED
    BY <1>1, <1>2, <1>3, <1>4, <1>5, <1>6, <1>7, <1>8 DEF Next

\* Every variable of one asynchronous call keeps its type, for every set of
\* entry points.
THEOREM TypeCorrect ==
    ASSUME FaultsPossible \in BOOLEAN PROVE Spec => []TypeOK
<1>1. AInv => TypeOK
    BY DEF AInv
<1>2. QED
    BY <1>1, InitAInv, NextAInv, PTL DEF Spec

\* Whichever entry point is used and whichever step faults, the wrappers,
\* call_server_asynch_params and asynchComplete call the user's response
\* handler at most once between them.
THEOREM HandlerCalledAtMostOnce ==
    ASSUME FaultsPossible \in BOOLEAN PROVE Spec => []HandlerAtMostOnce
<1>1. AInv => HandlerAtMostOnce
    BY DEF AInv
<1>2. QED
    BY <1>1, InitAInv, NextAInv, PTL DEF Spec

\* start_rpc hands the transport only a call info that callInfoCreate
\* filled completely and that no fault path has freed.
THEOREM SentCallInfoComplete ==
    ASSUME FaultsPossible \in BOOLEAN PROVE Spec => []TransportHoldsCompleteCall
<1>1. AInv => TransportHoldsCompleteCall
    BY DEF AInv, TransportHoldsCompleteCall
<1>2. QED
    BY <1>1, InitAInv, NextAInv, PTL DEF Spec

====
