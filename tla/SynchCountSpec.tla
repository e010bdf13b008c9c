--------------------------- MODULE SynchCountSpec ---------------------------
(***************************************************************************)
(* What the count section of performSynch means to do: every thread of a   *)
(* synchronous multi-RPC that got its response passes the section once,   *)
(* and the pass is one atomic step that counts the thread unless the       *)
(* count has reached `semantic'.                                           *)
(*                                                                         *)
(* MultiSynch implements this specification for a program that calls      *)
(* xmlrpc_globalclient_multi_synch once (MultiSynchProofs), and does not   *)
(* for two calls, whose mutexes differ while the count is shared.          *)
(***************************************************************************)
EXTENDS Naturals

CONSTANTS
    Threads,   \* the threads of the program
    Semantic   \* the count's bound

VARIABLES
    count,     \* the static count
    finished   \* the threads that have passed the section

svars == <<count, finished>>

Init ==
    /\ count = 0
    /\ finished = {}

\* A thread passes the section: counted if the bound is not reached.
Pass(t) ==
    /\ t \notin finished
    /\ finished' = finished \cup {t}
    /\ count' = IF count < Semantic THEN count + 1 ELSE count

Next == \E t \in Threads : Pass(t)

Spec == Init /\ [][Next]_svars

=============================================================================
