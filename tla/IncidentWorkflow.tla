-------------------------- MODULE IncidentWorkflow --------------------------
(***************************************************************************)
(* run_incident_workflow (graph/workflow.py): the node loop with its       *)
(* retries, errors and checkpoints, and the resumption of a later run from *)
(* a stored state.  One action is one call of a node's handler, or the end *)
(* of the run.  The agents' answers are the decisions later nodes and the  *)
(* job machinery depend on: how well the root cause is supported, how      *)
(* risky the plan is, whether the review approves.                         *)
(***************************************************************************)
EXTENDS Integers, Sequences

CONSTANT MaxRuns    \* bound: runs of one incident

ASSUME RunsAssumption == MaxRuns \in Nat

Nodes == <<"ingest_incident", "evidence_analysis", "knowledge_retrieval",
           "root_cause_analysis", "fix_planning", "review",
           "final_report", "eval_report">>

NodeNames == {Nodes[k] : k \in 1..Len(Nodes)}
AgentNodes == {"root_cause_analysis", "fix_planning", "review"}

MaxAttempts(node) ==
    IF node \in AgentNodes \cup {"knowledge_retrieval"} THEN 2 ELSE 1

VARIABLES
    phase,      \* "idle" between runs, "run" in the node loop
    runs,       \* runs started so far
    llm,        \* can the LLM provider be called in this run?
    at,         \* the loop's position in Nodes
    attempt,    \* the loop's attempt at that node
    base,       \* the resume state this run was started with
    state,      \* the IncidentState of the run
    result,     \* the result of the last run
    saved       \* the resume state the job row holds

vars == <<phase, runs, llm, at, attempt, base, state, result, saved>>

-----------------------------------------------------------------------------
(* The parts of IncidentState.                                             *)

NoError == <<0, "none">>
NoReport == [kind |-> "unset", human |-> FALSE, note |-> NoError]

Errors == (0..MaxRuns) \X (NodeNames \cup {"none"})

\* The plan is "plain" (no approval needed), "gated" (it needs one), "high"
\* (high risk, needs one) or "ungated" (high risk without one).
Plans == {"unset", "plain", "gated", "high", "ungated"}
RootCauses == {"unset", "empty", "thin", "strong"}
Reviews == {"unset", "approved", "rejected"}
Reports == [kind : {"unset", "real", "fallback"}, human : BOOLEAN, note : Errors]
Statuses == {"created", "running", "completed", "needs_revision", "failed"}

Event(node, type, n, retryable) ==
    [node |-> node, type |-> type, attempt |-> n, retryable |-> retryable]
Events ==
    [node : NodeNames, type : {"node_end", "error"}, attempt : 1..2, retryable : BOOLEAN]

Initial ==
    [status |-> "created", completed |-> <<>>, trace |-> <<>>, erred |-> FALSE,
     last_error |-> NoError, root |-> "unset", plan |-> "unset",
     review |-> "unset", report |-> NoReport, eval |-> "unset"]

NoResult == [status |-> "none"]

Init ==
    /\ phase = "idle"
    /\ runs = 0
    /\ llm = "up"
    /\ at = 1
    /\ attempt = 1
    /\ base = Initial
    /\ state = Initial
    /\ result = NoResult
    /\ saved = Initial

Node == Nodes[at]

-----------------------------------------------------------------------------
(* The end of a run: _finalize_result.                                     *)

RequiresApproval(plan) == plan \in {"gated", "high"}

\* Mutant: a review that asks for revisions does not stop the promotion.
PendingReportOnly(s) == IF s.report.human THEN "approval_required" ELSE "none"

PendingHumanInput(s) ==
    CASE s.review = "rejected" -> "revision_required"
      [] s.review # "rejected" /\ s.report.human -> "approval_required"
      [] OTHER -> "none"

FallbackReport(s) == [kind |-> "fallback", human |-> FALSE, note |-> s.last_error]

WithReport(s) ==
    IF s.report.kind = "unset" THEN [s EXCEPT !.report = FallbackReport(s)] ELSE s

GenerateEvalReport(s) == IF s.erred THEN "failed" ELSE "completed"

WithEval(s) ==
    IF s.eval = "unset" THEN [s EXCEPT !.eval = GenerateEvalReport(s)] ELSE s

\* Mutant: the state is serialised after the fallbacks are filled in.
FinalResultLate(s, status) ==
    [status |-> status, pending |-> PendingHumanInput(s),
     resume_state |-> WithEval(WithReport(s)),
     report |-> WithReport(s).report, eval |-> WithEval(s).eval]

\* The state to resume from is serialised before the fallback report and
\* the evaluation are put into the result.
FinalResult(s, status) ==
    [status |-> status, pending |-> PendingHumanInput(s), resume_state |-> s,
     report |-> WithReport(s).report, eval |-> WithEval(s).eval]

Stop(s, status) ==
    /\ phase' = "idle"
    /\ state' = s
    /\ result' = FinalResult(s, status)
    /\ UNCHANGED <<runs, llm, at, attempt, base, saved>>

-----------------------------------------------------------------------------
(* The node loop.                                                          *)

\* Mutant: every node sets the status.
StatusAtNode(s) == "running"

\* A node sets the status to "running" unless the report has decided it.
StatusEntering(s) ==
    IF s.status \in {"completed", "needs_revision"} THEN s.status ELSE "running"

At(node) == phase = "run" /\ at <= Len(Nodes) /\ Node = node

\* The handler returned: merge its output into s, trace, checkpoint, go on.
Succeed(s) ==
    /\ state' = [s EXCEPT
           !.completed = Append(@, Node),
           !.trace = Append(@, Event(Node, "node_end", attempt, FALSE))]
    /\ at' = at + 1
    /\ attempt' = 1
    /\ UNCHANGED <<phase, runs, llm, base, result, saved>>

\* Mutant: one attempt too many.
MayRetryOnceMore(retryable) == retryable /\ attempt <= MaxAttempts(Node)

\* Mutant: the category of the error is not asked for.
MayRetryAnything(retryable) == attempt < MaxAttempts(Node)

MayRetry(retryable) == retryable /\ attempt < MaxAttempts(Node)

Entered == [state EXCEPT !.status = StatusEntering(state)]

Traced(retryable) ==
    [Entered EXCEPT !.trace = Append(@, Event(Node, "error", attempt, retryable))]

\* The handler raised: try again, or end the run with what is done.
NodeRaises(retryable) ==
    \/ /\ MayRetry(retryable)
       /\ state' = Traced(retryable)
       /\ attempt' = attempt + 1
       /\ UNCHANGED <<phase, runs, llm, at, base, result, saved>>
    \/ /\ ~MayRetry(retryable)
       /\ Stop([Traced(retryable) EXCEPT !.status = "failed", !.erred = TRUE,
                                         !.last_error = <<runs, Node>>],
               "failed")

IngestNode   == At("ingest_incident") /\ Succeed(Entered)
EvidenceNode == At("evidence_analysis") /\ Succeed(Entered)

KnowledgeNode == At("knowledge_retrieval") /\ Succeed(Entered)

\* The vector search falls back to keywords; reading the knowledge file for
\* them may raise: a broken file is not retried, a failed read is.
KnowledgeFails ==
    /\ At("knowledge_retrieval")
    /\ \E retryable \in BOOLEAN : NodeRaises(retryable)

\* An agent answers by its rules when the LLM refuses; the LLM's answer is
\* only bound by its schema.
LLMAnswers == llm = "up"

\* The rules always find a hypothesis; the schema allows none.
RootCauseNode ==
    /\ At("root_cause_analysis")
    /\ \E root \in {"thin", "strong"} \cup (IF LLMAnswers THEN {"empty"} ELSE {}) :
           Succeed([Entered EXCEPT !.root = root])

\* Mutant: a high-risk plan of the LLM keeps the approval flag it came with.
LLMPlansUnforced == {"plain", "gated", "high", "ungated"}

LLMPlans == {"plain", "gated", "high"}

\* The rules read the first hypothesis, and their rollback step always asks
\* for an approval.
RulePlans == IF state.root = "empty" THEN {} ELSE {"gated", "high"}

FixPlanNode ==
    /\ At("fix_planning")
    /\ \E plan \in RulePlans \cup (IF LLMAnswers THEN LLMPlans ELSE {}) :
           Succeed([Entered EXCEPT !.plan = plan])

\* plan_fix_rule raises IndexError when there is no first hypothesis.
RulePlanFails ==
    /\ At("fix_planning")
    /\ state.root = "empty"
    /\ NodeRaises(TRUE)

RuleReview == IF state.root = "strong" THEN {"approved"} ELSE {"rejected"}
LLMReviews ==
    IF state.plan = "ungated" THEN {"rejected"} ELSE {"approved", "rejected"}

ReviewNode ==
    /\ At("review")
    /\ \E review \in RuleReview \cup (IF LLMAnswers THEN LLMReviews ELSE {}) :
           Succeed([Entered EXCEPT !.review = review])

\* A reply with broken JSON is a validation error and not retried; one whose
\* envelope has another shape raises a runtime error.
ReplyBreaksNode ==
    /\ phase = "run" /\ at <= Len(Nodes) /\ Node \in AgentNodes
    /\ LLMAnswers
    /\ \E retryable \in BOOLEAN : NodeRaises(retryable)

FinalReportNode ==
    /\ At("final_report")
    /\ Succeed([Entered EXCEPT
           !.report = [kind |-> "real", human |-> RequiresApproval(state.plan),
                       note |-> NoError],
           !.status = IF state.review = "approved" THEN "completed"
                      ELSE "needs_revision"])

EvalNode ==
    /\ At("eval_report")
    /\ Succeed([Entered EXCEPT !.eval = GenerateEvalReport(state)])

FinishRun ==
    /\ phase = "run"
    /\ at > Len(Nodes)
    /\ Stop(state, state.status)

-----------------------------------------------------------------------------
(* The worker between runs (job_worker.py).                                *)

\* Mutant: the loop starts at the first node whatever is completed.
StartFromScratch(s) == 1

StartIndex(s) == Len(s.completed) + 1

StartRun ==
    /\ phase = "idle"
    /\ runs < MaxRuns
    /\ phase' = "run"
    /\ runs' = runs + 1
    /\ llm' \in {"up", "down"}
    /\ base' = saved
    /\ state' = saved
    /\ at' = StartIndex(saved)
    /\ attempt' = 1
    /\ UNCHANGED <<result, saved>>

\* The resume state reaches the job row; a worker that dies before that, or
\* a recovery that writes an older one back, leaves the previous one there.
SaveCheckpoint ==
    /\ phase = "idle"
    /\ result # NoResult
    /\ saved' = result.resume_state
    /\ UNCHANGED <<phase, runs, llm, at, attempt, base, state, result>>

NodeStep ==
    \/ IngestNode \/ EvidenceNode \/ KnowledgeNode \/ RootCauseNode
    \/ FixPlanNode \/ ReviewNode \/ FinalReportNode \/ EvalNode

NodeTrouble == KnowledgeFails \/ RulePlanFails \/ ReplyBreaksNode

Next == NodeStep \/ NodeTrouble \/ FinishRun \/ StartRun \/ SaveCheckpoint

Spec == Init /\ [][Next]_vars

-----------------------------------------------------------------------------
(* What is checked.                                                        *)

States ==
    [status : Statuses, completed : Seq(NodeNames), trace : Seq(Events),
     erred : BOOLEAN, last_error : Errors, root : RootCauses, plan : Plans,
     review : Reviews, report : Reports, eval : {"unset", "completed", "failed"}]

Results ==
    [status : Statuses, pending : {"none", "revision_required", "approval_required"},
     report : Reports, eval : {"completed", "failed"}]

\* What a run's result has to tell, without the state in it.
Told(r) == [status |-> r.status, pending |-> r.pending,
            report |-> r.report, eval |-> r.eval]

Place == [node \in NodeNames |-> CHOOSE n \in 1..Len(Nodes) : Nodes[n] = node]

Ends(trace) == {k \in 1..Len(trace) : trace[k].type = "node_end"}

\* The trace goes through the nodes in their order: it tells of no node
\* after a later one, and of none after that node has ended.
Forward(trace) ==
    \A l \in 1..Len(trace) : \A k \in 1..(l - 1) :
        \/ Place[trace[k].node] < Place[trace[l].node]
        \/ trace[k].node = trace[l].node /\ trace[k].type # "node_end"

\* Completed nodes are the first ones of the workflow, each traced once and
\* in this order, whatever failed and was resumed in between: the loop of
\* run_incident_workflow starts behind them, so that every node finds the
\* output of the nodes it reads and no LLM is asked twice.
NodesInOrder ==
    /\ Len(state.completed) <= Len(Nodes)
    /\ state.completed = SubSeq(Nodes, 1, Len(state.completed))
    /\ {state.trace[k].node : k \in Ends(state.trace)} =
           {Nodes[n] : n \in 1..Len(state.completed)}
    /\ Forward(state.trace)

\* A second attempt directly follows a retryable error of the first one and
\* no node has more attempts than its specification allows; a run resumed
\* after a failure begins with a first attempt again.
RetriesJustified(trace) ==
    \A k \in 1..Len(trace) :
        LET e == trace[k]
        IN  /\ e.attempt <= MaxAttempts(e.node)
            /\ e.attempt > 1 =>
                   /\ k > 1
                   /\ trace[k - 1] = Event(e.node, "error", e.attempt - 1, TRUE)

RetriesFollowErrors == RetriesJustified(state.trace)

\* The result's status says what happened in the run and in those it
\* resumed: "failed" with nodes missing, "completed" when the review has
\* approved, "needs_revision" when it has not (workflow.py:290 and 578).
StatusAgrees ==
    phase = "idle" /\ result # NoResult =>
        result.status =
            IF Len(state.completed) < Len(Nodes) THEN "failed"
            ELSE IF state.review = "approved" THEN "completed"
            ELSE "needs_revision"

\* A failed run's report carries the error of that very run, not of one it
\* resumed, and a finished run's report is the one of the report node:
\* _finalize_result serialises the state before it fills in the fallback.
ReportIsCurrent ==
    phase = "idle" /\ result # NoResult =>
        result.report =
            IF Len(state.completed) < Len(Nodes)
            THEN [kind |-> "fallback", human |-> FALSE,
                  note |-> <<runs, Nodes[Len(state.completed) + 1]>>]
            ELSE [kind |-> "real", human |-> RequiresApproval(state.plan),
                  note |-> NoError]

\* A high-risk plan never ends without a human asked for, whichever of the
\* fix planner and the reviewer was answered by the LLM, by the rules, or in
\* an earlier run (fix_planner.py:65, reviewer.py:73, workflow.py:371).
HighRiskAsksHuman ==
    phase = "idle" /\ result # NoResult =>
        (state.plan \in {"high", "ungated"} /\ Len(state.completed) = Len(Nodes)
            => result.pending # "none")

Run == INSTANCE WorkflowRuns WITH
           NodeCount <- Len(Nodes), ReviewNode <- 6, ReportNode <- 7

AsCheckpoint(s) ==
    [level    |-> Len(s.completed),
     approved |-> s.review # "rejected",
     risky    |-> s.report.kind = "real" /\ s.report.human]

\* The node loop does what WorkflowJobs takes a run to do: the state it can
\* be resumed from is an outcome of the one it resumed, it failed exactly
\* when nodes are missing, and it asks for a human exactly when that state
\* says so.
RunsAsAssumed ==
    phase = "idle" /\ result # NoResult =>
        LET t == AsCheckpoint(result.resume_state)
        IN  /\ t \in Run!RunOutcomes(AsCheckpoint(base))
            /\ (result.status = "failed") = Run!RunFailed(t)
            /\ (result.pending # "none") = Run!PendingHumanInput(t)

TypeOK ==
    /\ phase \in {"idle", "run"}
    /\ runs \in 0..MaxRuns
    /\ llm \in {"up", "down"}
    /\ at \in 1..(Len(Nodes) + 1)
    /\ attempt \in 1..2
    /\ {base, state, saved} \subseteq States
    /\ result # NoResult => result.resume_state \in States /\ Told(result) \in Results

-----------------------------------------------------------------------------
(* The inductive invariant: what a state holds once its first n nodes are  *)
(* done, what a run keeps of the state it resumed, and what its result     *)
(* says of the state it stopped in.                                        *)

Holds(s, n) ==
    /\ (n >= 6) = (s.review # "unset")
    /\ s.plan # "ungated"
    /\ s.report = IF n >= 7
                  THEN [kind |-> "real", human |-> RequiresApproval(s.plan),
                        note |-> NoError]
                  ELSE NoReport
    /\ n >= 7 => s.status = IF s.review = "approved" THEN "completed"
                            ELSE "needs_revision"
    /\ (n >= 8) = (s.eval # "unset")

Done(s) == Len(s.completed)

\* The first n nodes are done and traced, and the trace has not gone beyond
\* the one that follows.
Ordered(s, n) ==
    /\ \A m \in 1..n : s.completed[m] = Nodes[m]
    /\ {s.trace[k].node : k \in Ends(s.trace)} = {Nodes[m] : m \in 1..n}
    /\ Forward(s.trace)
    /\ \A k \in 1..Len(s.trace) : Place[s.trace[k].node] <= n + 1

Sound(s) ==
    /\ s \in States
    /\ Done(s) <= Len(Nodes)
    /\ Holds(s, Done(s))
    /\ RetriesJustified(s.trace)

Keeps(s, b) ==
    /\ Done(s) >= Done(b)
    /\ Done(b) >= 6 => s.review = b.review
    /\ Done(b) >= 7 => s.report = b.report

Retrying ==
    attempt > 1 =>
        /\ at <= Len(Nodes)
        /\ attempt <= MaxAttempts(Node)
        /\ Len(state.trace) > 0
        /\ state.trace[Len(state.trace)] = Event(Node, "error", attempt - 1, TRUE)

Looping == at = Done(state) + 1 /\ Retrying

Reported ==
    /\ result.resume_state = state
    /\ result.pending = PendingHumanInput(state)
    /\ StatusAgrees /\ ReportIsCurrent

IInv ==
    /\ TypeOK
    /\ Sound(base) /\ Sound(state) /\ Sound(saved)
    /\ Keeps(state, base)
    /\ result # NoResult => Sound(result.resume_state)
    /\ phase = "run" => Looping
    /\ phase = "idle" /\ result # NoResult => Reported

StatesOrdered ==
    /\ Ordered(base, Done(base)) /\ Ordered(state, Done(state)) /\ Ordered(saved, Done(saved))
    /\ result # NoResult =>
           Ordered(result.resume_state, Done(result.resume_state))

\* README.md:474-478: when no LLM is configured, the request fails or times
\* out, "the system falls back to the rule logic".  Refuted: the rules of
\* the fix planner need a hypothesis, which an LLM reply accepted by the
\* root cause node, perhaps in an earlier run, need not contain.
FallbackAnswers ==
    phase = "idle" /\ llm = "down" /\ result.status = "failed" =>
        state.last_error[2] \notin AgentNodes

=============================================================================
