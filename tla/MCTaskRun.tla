----------------------------- MODULE MCTaskRun -----------------------------
(***************************************************************************)
(* The task graph the runs of TaskRun take: report and survey read what    *)
(* draft wrote, and survey competes with another run for its files.        *)
(***************************************************************************)
EXTENDS TaskRun

CONSTANTS draft, report, survey

GraphOrder == <<draft, report, survey>>
GraphDeps == [n \in {draft, report, survey} |-> IF n = draft THEN {} ELSE {draft}]
GraphRetries == [n \in {draft, report, survey} |-> IF n = survey THEN 1 ELSE 0]
GraphOverlaps == {<<survey, Other>>}
=============================================================================
