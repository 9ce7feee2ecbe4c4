-------------------------- MODULE AnalysisLifecycle --------------------------
(***************************************************************************)
(* What the content API promises about one analysis, whatever happens      *)
(* inside the worker: a submission is queued, analysed, and decided once;  *)
(* its report appears whole, together with the COMPLETED status, and then  *)
(* never gains or loses a finding.  Withdrawing an account removes all of  *)
(* its submissions for good.                                               *)
(*                                                                         *)
(* ContentAnalysis implements this module (src/README.md, the section on   *)
(* POST /contents, and the AnalysisStatus type of the domain).             *)
(***************************************************************************)
CONSTANTS Submissions,   \* ids of content submissions
          Findings       \* ids of review findings

VARIABLES phase,         \* the status a client polls
          report         \* the findings of a completed analysis

vars == <<phase, report>>

Phases == {"NONE", "QUEUED", "ANALYZING", "COMPLETED", "FAILED", "WITHDRAWN"}

Init ==
    /\ phase = [s \in Submissions |-> "NONE"]
    /\ report = [s \in Submissions |-> {}]

Queue(s) ==
    /\ phase[s] = "NONE"
    /\ phase' = [phase EXCEPT ![s] = "QUEUED"]
    /\ UNCHANGED report

Start(s) ==
    /\ phase[s] = "QUEUED"
    /\ phase' = [phase EXCEPT ![s] = "ANALYZING"]
    /\ UNCHANGED report

Complete(s) ==
    /\ phase[s] = "ANALYZING"
    /\ phase' = [phase EXCEPT ![s] = "COMPLETED"]
    /\ \E found \in SUBSET Findings : report' = [report EXCEPT ![s] = found]

Fail(s) ==
    /\ phase[s] \in {"QUEUED", "ANALYZING"}
    /\ phase' = [phase EXCEPT ![s] = "FAILED"]
    /\ UNCHANGED report

\* The rows of a withdrawn account disappear together.
Withdraw(S) ==
    /\ phase' = [s \in Submissions |->
                    IF s \in S /\ phase[s] # "NONE" THEN "WITHDRAWN" ELSE phase[s]]
    /\ report' = [s \in Submissions |-> IF s \in S THEN {} ELSE report[s]]

Next ==
    \/ \E s \in Submissions : Queue(s) \/ Start(s) \/ Complete(s) \/ Fail(s)
    \/ \E S \in SUBSET Submissions : Withdraw(S)

Spec == Init /\ [][Next]_vars
==============================================================================
