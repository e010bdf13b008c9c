------------------------- MODULE CompletionGroupSpec -------------------------
(***************************************************************************)
(* What a completion group promises (spec, section 4.2): recordCompletion  *)
(* is one atomic increment; the completion that brings the count to the    *)
(* required number calls onAllDone once and retires the group, and        *)
(* nothing changes the group after that.                                   *)
(*                                                                         *)
(* FanoutGroup is shown to implement this specification under a           *)
(* transport that runs completions one at a time (ImplementsCompletionGroup *)
(* there, and FanoutReportProofs for its safety part).                     *)
(***************************************************************************)
EXTENDS Naturals

CONSTANT Required   \* the group's required count

VARIABLES
    completed,  \* completions recorded
    reports,    \* calls of onAllDone
    retired     \* the counters and the lock are released

avars == <<completed, reports, retired>>

Init ==
    /\ completed = 0
    /\ reports = 0
    /\ retired = FALSE

\* recordCompletion for a completion that does not reach the quorum, or
\* the increment of the one that does.
RecordCompletion ==
    /\ ~retired
    /\ completed < Required
    /\ completed' = completed + 1
    /\ UNCHANGED <<reports, retired>>

\* The completion that reached the quorum calls onAllDone and retires the
\* group.
ReportAndRetire ==
    /\ ~retired
    /\ completed = Required
    /\ reports' = reports + 1
    /\ retired' = TRUE
    /\ UNCHANGED completed

Next == RecordCompletion \/ ReportAndRetire

SafeSpec == Init /\ [][Next]_avars

\* Once the quorum is reached, the report comes.
Spec == SafeSpec /\ WF_avars(ReportAndRetire)

=============================================================================
