---------------------------- MODULE WorkflowRuns ----------------------------
(***************************************************************************)
(* A workflow run as its callers see it: the states it can resume from,    *)
(* the states it can end in, and the human it asks for.  WorkflowJobs      *)
(* takes one step per run and chooses among RunOutcomes; IncidentWorkflow  *)
(* models the node loop and checks that the outcomes are these.            *)
(***************************************************************************)
EXTENDS Integers

CONSTANTS
    NodeCount,      \* nodes of a workflow run
    ReviewNode,     \* nodes completed once the review has run
    ReportNode      \* nodes completed once the final report exists

\* How many nodes are done, whether the review approved, and whether the
\* report asks for a human.
Checkpoints ==
    {s \in [level : 0..NodeCount, approved : BOOLEAN, risky : BOOLEAN] :
        /\ s.level < ReviewNode => s.approved
        /\ s.level < ReportNode => ~s.risky}

Fresh == [level |-> 0, approved |-> TRUE, risky |-> FALSE]

\* Mutant: a run that stops early still reports on review and risk.
RunOutcomesEager(s) ==
    [level : s.level..NodeCount, approved : BOOLEAN, risky : BOOLEAN]

\* A run keeps the nodes its checkpoint has and stops anywhere after them.
RunOutcomes(s) ==
    {t \in Checkpoints :
        /\ t.level >= s.level
        /\ s.level >= ReviewNode => t.approved = s.approved
        /\ s.level >= ReportNode => t.risky = s.risky}

PendingHumanInput(t) == ~t.approved \/ t.risky

RunFailed(t) == t.level < NodeCount

ApprovalOnSave(t) == IF t.risky THEN "pending" ELSE "not_required"

=============================================================================
