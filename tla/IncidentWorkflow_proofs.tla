---------------------- MODULE IncidentWorkflow_proofs ----------------------
(***************************************************************************)
(* Proofs about IncidentWorkflow, for any number of runs of one incident,  *)
(* each resumed from the newest or from an older stored state.             *)
(***************************************************************************)
EXTENDS IncidentWorkflow, SequenceTheorems, TLAPS

-----------------------------------------------------------------------------
(* Facts about the nodes and the parts of a state.                         *)

LEMMA NodeList ==
    /\ Len(Nodes) = 8
    /\ Nodes[1] = "ingest_incident" /\ Nodes[2] = "evidence_analysis"
    /\ Nodes[3] = "knowledge_retrieval" /\ Nodes[4] = "root_cause_analysis"
    /\ Nodes[5] = "fix_planning" /\ Nodes[6] = "review"
    /\ Nodes[7] = "final_report" /\ Nodes[8] = "eval_report"
BY DEF Nodes

LEMMA NodeIsName == ASSUME NEW k \in 1..8 PROVE Nodes[k] \in NodeNames
BY NodeList DEF NodeNames

LEMMA AttemptsBound ==
    ASSUME NEW node
    PROVE  MaxAttempts(node) \in 1..2
BY DEF MaxAttempts

LEMMA EventType ==
    ASSUME NEW node \in NodeNames, NEW type \in {"node_end", "error"},
           NEW n \in 1..2, NEW retryable \in BOOLEAN
    PROVE  Event(node, type, n, retryable) \in Events
BY DEF Event, Events

LEMMA NoReportType == NoError \in Errors /\ NoReport \in Reports
BY RunsAssumption DEF NoError, NoReport, Errors, Reports

LEMMA StateParts ==
    ASSUME NEW s \in States
    PROVE  /\ Len(s.completed) \in Nat /\ s.completed \in Seq(NodeNames)
           /\ Len(s.trace) \in Nat /\ s.trace \in Seq(Events)
           /\ s.report \in Reports
BY DEF States

\* Entering a node changes the status only, and not that of a finished run.
LEMMA EnteredState ==
    ASSUME Sound(state)
    PROVE  /\ Entered \in States
           /\ Entered = [state EXCEPT !.status = Entered.status]
           /\ Entered.completed = state.completed
           /\ Entered.trace = state.trace
           /\ Entered.plan = state.plan
           /\ Entered.review = state.review
           /\ Entered.report = state.report
           /\ Entered.eval = state.eval
           /\ Done(state) >= 7 => Entered.status = state.status
BY DEF Entered, Sound, Holds, Done, States, Statuses, StatusEntering

-----------------------------------------------------------------------------
(* The trace.                                                              *)

\* A justified event appended to a justified trace.
LEMMA RetriesExtend ==
    ASSUME NEW t \in Seq(Events), RetriesJustified(t), NEW e \in Events,
           e.attempt <= MaxAttempts(e.node),
           e.attempt > 1 =>
               /\ Len(t) > 0
               /\ t[Len(t)] = Event(e.node, "error", e.attempt - 1, TRUE)
    PROVE  RetriesJustified(Append(t, e))
<1>. DEFINE u == Append(t, e)
<1>1. Len(u) = Len(t) + 1 /\ u[Len(t) + 1] = e /\ \A k \in 1..Len(t) : u[k] = t[k]
  OBVIOUS
<1>2. Len(t) \in Nat
  OBVIOUS
<1>. SUFFICES ASSUME NEW k \in 1..Len(u)
              PROVE  /\ u[k].attempt <= MaxAttempts(u[k].node)
                     /\ u[k].attempt > 1 =>
                            /\ k > 1
                            /\ u[k - 1] = Event(u[k].node, "error", u[k].attempt - 1, TRUE)
  BY DEF RetriesJustified
<1>3. CASE k \in 1..Len(t)
  <2>1. u[k] = t[k] /\ (k > 1 => u[k - 1] = t[k - 1])
    BY <1>1, <1>2, <1>3
  <2>. QED BY <2>1, <1>3 DEF RetriesJustified
<1>4. CASE k = Len(t) + 1
  <2>1. u[k] = e
    BY <1>1, <1>4
  <2>2. Len(t) > 0 => k > 1 /\ u[k - 1] = t[Len(t)]
    BY <1>1, <1>2, <1>4
  <2>. QED BY <2>1, <2>2
<1>5. k \in 1..Len(t) \/ k = Len(t) + 1
  BY <1>1, <1>2
<1>. QED BY <1>3, <1>4, <1>5

\* The event a node adds is justified, whether it ends or raises.
LEMMA TraceGrows ==
    ASSUME IInv, phase = "run", at \in 1..8,
           NEW type \in {"node_end", "error"}, NEW retryable \in BOOLEAN
    PROVE  /\ RetriesJustified(Append(state.trace, Event(Node, type, attempt, retryable)))
           /\ Append(state.trace, Event(Node, type, attempt, retryable)) \in Seq(Events)
<1>1. Node \in NodeNames
  BY NodeIsName DEF Node
<1>2. attempt \in 1..2 /\ state \in States /\ RetriesJustified(state.trace) /\ Retrying
  BY DEF IInv, TypeOK, Sound, Looping
<1>3. Event(Node, type, attempt, retryable) \in Events
  BY <1>1, <1>2, EventType
<1>4. attempt <= MaxAttempts(Node)
  <2>1. MaxAttempts(Node) \in 1..2
    BY AttemptsBound
  <2>2. attempt > 1 => attempt <= MaxAttempts(Node)
    BY <1>2 DEF Retrying
  <2>. QED BY <1>2, <2>1, <2>2
<1>5. state.trace \in Seq(Events)
  BY <1>2, StateParts
<1>6. RetriesJustified(Append(state.trace, Event(Node, type, attempt, retryable)))
  <2>. DEFINE e == Event(Node, type, attempt, retryable)
  <2>1. e.attempt = attempt /\ e.node = Node
    BY DEF Event
  <2>2. e.attempt > 1 =>
            /\ Len(state.trace) > 0
            /\ state.trace[Len(state.trace)] = Event(e.node, "error", e.attempt - 1, TRUE)
    BY <1>2, <2>1 DEF Retrying
  <2>. HIDE DEF e
  <2>3. e \in Events /\ e.attempt <= MaxAttempts(e.node)
    BY <1>3, <1>4, <2>1 DEF e
  <2>4. RetriesJustified(Append(state.trace, e))
    BY <1>2, <1>5, <2>2, <2>3, RetriesExtend
  <2>. QED BY <2>4 DEF e
<1>. QED BY <1>3, <1>5, <1>6

-----------------------------------------------------------------------------
(* The steps every node shares.                                            *)

\* A node that returns: s is the state with its output merged in.
LEMMA SucceedStep ==
    ASSUME IInv, phase = "run", at \in 1..8,
           NEW s \in States, Succeed(s),
           s.completed = state.completed, s.trace = state.trace,
           Holds(s, at),
           Done(base) >= 6 => s.review = state.review,
           Done(base) >= 7 => s.report = state.report
    PROVE  IInv'
<1>. USE DEF Succeed
<1>1. /\ at = Done(state) + 1 /\ state \in States /\ Keeps(state, base)
      /\ Sound(base) /\ Sound(saved)
  BY DEF IInv, Looping, Sound
<1>2. Node \in NodeNames
  BY NodeIsName DEF Node
<1>3. s.completed \in Seq(NodeNames) /\ Done(state) \in Nat /\ Len(s.completed) = Done(state)
  BY <1>1, StateParts DEF Done
<1>4. state'.completed \in Seq(NodeNames) /\ Done(state') = at
  <2>1. state'.completed = Append(s.completed, Node)
    BY DEF States
  <2>. QED BY <1>1, <1>2, <1>3, <2>1 DEF Done
<1>5. RetriesJustified(state'.trace) /\ state'.trace \in Seq(Events)
  <2>1. state'.trace = Append(state.trace, Event(Node, "node_end", attempt, FALSE))
    BY DEF States
  <2>. QED BY <2>1, TraceGrows
<1>6. /\ state' \in States
      /\ state'.review = s.review /\ state'.report = s.report
      /\ Holds(state', at)
  BY <1>4, <1>5 DEF States, Holds
<1>7. Sound(state')
  <2>1. Done(state') <= Len(Nodes)
    BY <1>4, NodeList
  <2>2. Holds(state', Done(state'))
    BY <1>4, <1>6, Zenon
  <2>. QED BY <1>5, <1>6, <2>1, <2>2 DEF Sound
<1>8. Keeps(state', base')
  <2>1. /\ Done(state) >= Done(base)
        /\ Done(base) >= 6 => s.review = base.review
        /\ Done(base) >= 7 => s.report = base.report
    BY <1>1 DEF Keeps
  <2>2. Done(base) \in Nat
    BY <1>1, StateParts DEF Sound, Done
  <2>3. Done(state') >= Done(base)
    BY <1>1, <1>3, <1>4, <2>1, <2>2
  <2>. QED BY <1>6, <2>1, <2>3 DEF Keeps
<1>9. TypeOK'
  BY <1>6, NodeList DEF IInv, TypeOK
<1>10. Looping'
  BY <1>4, <1>7 DEF Looping, Retrying
<1>11. /\ Sound(base)' /\ Sound(saved)'
       /\ (result # NoResult => Sound(result.resume_state))'
       /\ (phase = "run")'
  BY <1>1 DEF IInv, Sound, Holds
<1>. QED BY <1>7, <1>8, <1>9, <1>10, <1>11 DEF IInv

\* The end of a run in state s.
LEMMA StopStep ==
    ASSUME IInv, phase = "run",
           NEW s, NEW status \in Statuses, Stop(s, status),
           Sound(s), Keeps(s, base),
           status = IF Done(s) < 8 THEN "failed" ELSE s.status,
           Done(s) < 7 => s.last_error = <<runs, Nodes[Done(s) + 1]>>,
           Done(s) # 7
    PROVE  IInv'
<1>. USE DEF Stop
<1>1. state' = s /\ phase' = "idle" /\ UNCHANGED <<runs, llm, at, attempt, base, saved>>
  OBVIOUS
<1>2. result' = [status |-> status, pending |-> PendingHumanInput(s), resume_state |-> s,
                 report |-> WithReport(s).report, eval |-> WithEval(s).eval]
  BY DEF FinalResult
<1>3. s \in States /\ Done(s) \in Nat /\ Done(s) <= 8 /\ Holds(s, Done(s))
  BY StateParts, NodeList DEF Sound, Done
<1>4. /\ result'.status = status /\ result'.resume_state = s
      /\ result'.pending = PendingHumanInput(s)
      /\ result'.report = WithReport(s).report /\ result'.eval = WithEval(s).eval
  BY <1>2
<1>5. WithReport(s).report =
          IF Done(s) < 7 THEN FallbackReport(s) ELSE s.report
  BY <1>3 DEF WithReport, Holds, NoReport, States
<1>6. WithReport(s).report \in Reports
  <2>1. FallbackReport(s) \in Reports
    BY <1>3 DEF FallbackReport, Reports, States
  <2>. QED BY <1>3, <1>5, <2>1, StateParts
<1>7. WithEval(s).eval \in {"completed", "failed"}
  BY <1>3 DEF WithEval, GenerateEvalReport, States
<1>8. PendingHumanInput(s) \in {"none", "revision_required", "approval_required"}
  BY DEF PendingHumanInput
<1>9. TypeOK'
  BY <1>1, <1>3, <1>4, <1>6, <1>7, <1>8 DEF IInv, TypeOK, Told, Results
<1>10. StatusAgrees'
  BY <1>1, <1>3, <1>4, NodeList DEF StatusAgrees, Holds, Done
<1>11. ReportIsCurrent'
  <2>1. CASE Done(s) < 7
    <3>1. WithReport(s).report = [kind |-> "fallback", human |-> FALSE,
                                  note |-> <<runs, Nodes[Done(s) + 1]>>]
      BY <1>5, <2>1 DEF FallbackReport
    <3>2. Len(state'.completed) = Done(s) /\ Done(s) < Len(Nodes)
      BY <1>1, <1>3, <2>1, NodeList DEF Done
    <3>. QED BY <1>1, <1>4, <3>1, <3>2 DEF ReportIsCurrent
  <2>2. CASE Done(s) = 8
    <3>1. WithReport(s).report = [kind |-> "real", human |-> RequiresApproval(s.plan),
                                  note |-> NoError]
      BY <1>3, <1>5, <2>2 DEF Holds
    <3>2. Len(state'.completed) = Done(s) /\ ~(Done(s) < Len(Nodes))
      BY <1>1, <1>3, <2>2, NodeList DEF Done
    <3>. QED BY <1>1, <1>4, <3>1, <3>2 DEF ReportIsCurrent
  <2>. QED BY <1>3, <2>1, <2>2
<1>12. Reported'
  BY <1>1, <1>4, <1>10, <1>11 DEF Reported
<1>13. /\ Sound(base)' /\ Sound(saved)' /\ Sound(state)' /\ Keeps(state, base)'
       /\ (result # NoResult => Sound(result.resume_state))'
  BY <1>1, <1>4 DEF IInv
<1>. QED BY <1>1, <1>9, <1>12, <1>13 DEF IInv

\* A node that raises, with nothing of the report done yet.
LEMMA RaiseStep ==
    ASSUME IInv, phase = "run", at \in 3..6,
           NEW retryable \in BOOLEAN, NodeRaises(retryable)
    PROVE  IInv'
<1>1. /\ at = Done(state) + 1 /\ Sound(state) /\ state \in States
      /\ Keeps(state, base) /\ Sound(base) /\ Sound(saved) /\ TypeOK
      /\ Done(state) \in Nat
  BY StateParts DEF IInv, Looping, Sound, Done
<1>2. Node = Nodes[at] /\ Node \in NodeNames
  BY NodeIsName DEF Node
<1>. DEFINE e == Event(Node, "error", attempt, retryable)
            t == Traced(retryable)
<1>3. RetriesJustified(Append(state.trace, e)) /\ Append(state.trace, e) \in Seq(Events)
  BY TraceGrows
<1>4. /\ t \in States /\ t.trace = Append(state.trace, e)
      /\ t.completed = state.completed /\ t.plan = state.plan
      /\ t.review = state.review /\ t.report = state.report /\ t.eval = state.eval
  BY <1>1, <1>3, EnteredState DEF Traced, States
<1>5. Sound(t) /\ Done(t) = Done(state)
  BY <1>1, <1>3, <1>4 DEF Sound, Holds, Done
<1>6. Keeps(t, base)
  BY <1>1, <1>4, <1>5 DEF Keeps
<1>. HIDE DEF t
<1>7. CASE /\ MayRetry(retryable)
           /\ state' = t
           /\ attempt' = attempt + 1
           /\ UNCHANGED <<phase, runs, llm, at, base, result, saved>>
  <2>1. attempt \in 1..2 /\ retryable = TRUE /\ attempt < MaxAttempts(Node)
    BY <1>1, <1>7 DEF MayRetry, TypeOK
  <2>2. attempt' \in 1..2 /\ attempt' <= MaxAttempts(Node) /\ attempt' - 1 = attempt
    <3>1. MaxAttempts(Node) \in 1..2
      BY AttemptsBound
    <3>. QED BY <1>7, <2>1, <3>1
  <2>3. TypeOK'
    BY <1>1, <1>4, <1>7, <2>2 DEF TypeOK
  <2>4. Node' = Node
    BY <1>7 DEF Node
  <2>5. state'.trace[Len(state'.trace)] = e /\ Len(state'.trace) > 0
    BY <1>1, <1>4, <1>7, StateParts
  <2>6. e = Event(Node, "error", attempt' - 1, TRUE)
    BY <2>1, <2>2
  <2>7. Retrying'
    <3>1. at' <= Len(Nodes)
      BY <1>7, NodeList
    <3>2. state'.trace[Len(state'.trace)] = Event(Node', "error", attempt' - 1, TRUE)
      BY <2>4, <2>5, <2>6
    <3>3. attempt' <= MaxAttempts(Node')
      BY <2>2, <2>4
    <3>. QED BY <2>5, <3>1, <3>2, <3>3 DEF Retrying
  <2>8. Looping'
    BY <1>1, <1>5, <1>7, <2>7 DEF Looping, Done
  <2>9. /\ Sound(base)' /\ Sound(saved)' /\ Sound(state)' /\ Keeps(state, base)'
        /\ (result # NoResult => Sound(result.resume_state))'
        /\ (phase = "run")'
    BY <1>5, <1>6, <1>7 DEF IInv
  <2>. QED BY <2>3, <2>8, <2>9 DEF IInv
<1>8. CASE Stop([t EXCEPT !.status = "failed", !.erred = TRUE, !.last_error = <<runs, Node>>],
                "failed")
  <2>. DEFINE s == [t EXCEPT !.status = "failed", !.erred = TRUE, !.last_error = <<runs, Node>>]
  <2>1. <<runs, Node>> \in Errors
    BY <1>1, <1>2 DEF Errors, TypeOK
  <2>2. /\ s \in States /\ s.completed = t.completed /\ s.trace = t.trace
        /\ s.plan = t.plan /\ s.review = t.review /\ s.report = t.report
        /\ s.eval = t.eval /\ s.last_error = <<runs, Node>>
    BY <1>4, <2>1 DEF States, Statuses
  <2>. HIDE DEF s
  <2>3. Done(s) = at - 1 /\ Done(t) = at - 1
    BY <1>1, <1>5, <2>2 DEF Done
  <2>4. Sound(s)
    BY <1>5, <2>2, <2>3 DEF Sound, Holds
  <2>5. Keeps(s, base)
    BY <1>6, <2>2, <2>3 DEF Keeps
  <2>6. s.last_error = <<runs, Nodes[Done(s) + 1]>>
    BY <1>2, <2>2, <2>3
  <2>7. Stop(s, "failed")
    BY <1>8 DEF s
  <2>. QED BY <2>3, <2>4, <2>5, <2>6, <2>7, StopStep DEF Statuses
<1>. QED BY <1>7, <1>8 DEF NodeRaises, t

-----------------------------------------------------------------------------
(* The invariant, action by action.                                        *)

LEMMA InvInit == Init => IInv
<1>. SUFFICES ASSUME Init PROVE IInv
  OBVIOUS
<1>. USE DEF Init
<1>1. Initial \in States /\ Done(Initial) = 0 /\ Initial.trace = <<>>
  BY NoReportType
  DEF Initial, Done, States, Statuses, RootCauses, Plans, Reviews
<1>2. Holds(Initial, 0)
  BY DEF Holds, Initial
<1>3. RetriesJustified(<<>>)
  BY DEF RetriesJustified
<1>4. Sound(Initial)
  BY <1>1, <1>2, <1>3, NodeList DEF Sound
<1>5. Keeps(Initial, Initial)
  BY <1>1 DEF Keeps
<1>6. TypeOK
  BY <1>1, RunsAssumption, NodeList DEF TypeOK
<1>. QED BY <1>4, <1>5, <1>6 DEF IInv

LEMMA InvStep == ASSUME IInv, Next PROVE IInv'
<1>1. Sound(state) /\ state \in States /\ Done(state) \in Nat /\ TypeOK
  BY StateParts DEF IInv, Sound, Done
<1>2. phase = "run" => at = Done(state) + 1 /\ Holds(state, Done(state))
  BY <1>1 DEF IInv, Looping, Sound
<1>3. Done(base) \in Nat /\ Done(state) >= Done(base) /\ Sound(base) /\ Keeps(state, base)
  BY StateParts DEF IInv, Sound, Done, Keeps
<1>. DEFINE Merged(s) ==
         /\ s \in States /\ s.completed = state.completed /\ s.trace = state.trace
<1>4. ASSUME NEW n \in 1..8, At(Nodes[n]) PROVE phase = "run" /\ at = n /\ Done(state) = n - 1
  <2>1. at \in 1..8
    BY <1>1, <1>4, NodeList DEF At, TypeOK
  <2>. QED BY <1>1, <1>2, <1>4, <2>1, NodeList DEF At, Node
<1>5. CASE IngestNode
  <2>1. phase = "run" /\ at = 1 /\ Done(state) = 0
    BY <1>4, <1>5, NodeList DEF IngestNode
  <2>2. Holds(Entered, at)
    BY <1>1, <1>2, <2>1, EnteredState DEF Holds
  <2>. QED BY <1>1, <1>5, <2>1, <2>2, EnteredState, SucceedStep DEF IngestNode
<1>6. CASE EvidenceNode
  <2>1. phase = "run" /\ at = 2 /\ Done(state) = 1
    BY <1>4, <1>6, NodeList DEF EvidenceNode
  <2>2. Holds(Entered, at)
    BY <1>1, <1>2, <2>1, EnteredState DEF Holds
  <2>. QED BY <1>1, <1>6, <2>1, <2>2, EnteredState, SucceedStep DEF EvidenceNode
<1>7. CASE KnowledgeNode
  <2>1. phase = "run" /\ at = 3 /\ Done(state) = 2
    BY <1>4, <1>7, NodeList DEF KnowledgeNode
  <2>2. Holds(Entered, at)
    BY <1>1, <1>2, <2>1, EnteredState DEF Holds
  <2>. QED BY <1>1, <1>7, <2>1, <2>2, EnteredState, SucceedStep DEF KnowledgeNode
<1>8. CASE RootCauseNode
  <2>1. phase = "run" /\ at = 4 /\ Done(state) = 3
    BY <1>4, <1>8, NodeList DEF RootCauseNode
  <2>2. PICK root \in {"thin", "strong", "empty"} : Succeed([Entered EXCEPT !.root = root])
    BY <1>8 DEF RootCauseNode
  <2>. DEFINE s == [Entered EXCEPT !.root = root]
  <2>3. /\ Merged(s) /\ s.review = state.review /\ s.report = state.report
        /\ s.plan = state.plan /\ s.eval = state.eval
    BY <1>1, EnteredState DEF States, RootCauses
  <2>4. Holds(s, at)
    BY <1>2, <2>1, <2>3 DEF Holds
  <2>. HIDE DEF s
  <2>5. Succeed(s)
    BY <2>2 DEF s
  <2>. QED BY <2>1, <2>3, <2>4, <2>5, SucceedStep
<1>9. CASE FixPlanNode
  <2>1. phase = "run" /\ at = 5 /\ Done(state) = 4
    BY <1>4, <1>9, NodeList DEF FixPlanNode
  <2>2. PICK plan \in {"plain", "gated", "high"} : Succeed([Entered EXCEPT !.plan = plan])
    BY <1>9 DEF FixPlanNode, RulePlans, LLMPlans
  <2>. DEFINE s == [Entered EXCEPT !.plan = plan]
  <2>3. /\ Merged(s) /\ s.review = state.review /\ s.report = state.report
        /\ s.plan = plan /\ s.eval = state.eval
    BY <1>1, EnteredState DEF States, Plans
  <2>4. Holds(s, at)
    BY <1>2, <2>1, <2>3 DEF Holds
  <2>. HIDE DEF s
  <2>5. Succeed(s)
    BY <2>2 DEF s
  <2>. QED BY <2>1, <2>3, <2>4, <2>5, SucceedStep
<1>10. CASE ReviewNode
  <2>1. phase = "run" /\ at = 6 /\ Done(state) = 5
    BY <1>4, <1>10, NodeList DEF ReviewNode
  <2>2. PICK review \in {"approved", "rejected"} : Succeed([Entered EXCEPT !.review = review])
    BY <1>10 DEF ReviewNode, RuleReview, LLMReviews
  <2>. DEFINE s == [Entered EXCEPT !.review = review]
  <2>3. /\ Merged(s) /\ s.review = review /\ s.report = state.report
        /\ s.plan = state.plan /\ s.eval = state.eval
    BY <1>1, EnteredState DEF States, Reviews
  <2>4. Holds(s, at)
    BY <1>2, <2>1, <2>3 DEF Holds
  <2>. HIDE DEF s
  <2>5. Succeed(s)
    BY <2>2 DEF s
  <2>. QED BY <1>3, <2>1, <2>3, <2>4, <2>5, SucceedStep
<1>11. CASE FinalReportNode
  <2>1. phase = "run" /\ at = 7 /\ Done(state) = 6
    BY <1>4, <1>11, NodeList DEF FinalReportNode
  <2>. DEFINE report == [kind |-> "real", human |-> RequiresApproval(state.plan),
                         note |-> NoError]
              final == IF state.review = "approved" THEN "completed" ELSE "needs_revision"
              s == [Entered EXCEPT !.report = report, !.status = final]
  <2>2. report \in Reports /\ final \in Statuses
    BY NoReportType DEF Reports, RequiresApproval, Statuses
  <2>3. /\ Merged(s) /\ s.review = state.review /\ s.report = report /\ s.status = final
        /\ s.plan = state.plan /\ s.eval = state.eval
    BY <1>1, <2>2, EnteredState DEF States
  <2>4. Holds(s, at)
    BY <1>2, <2>1, <2>3 DEF Holds
  <2>5. Succeed(s)
    BY <1>11 DEF FinalReportNode
  <2>. HIDE DEF s, report, final
  <2>. QED BY <1>3, <2>1, <2>3, <2>4, <2>5, SucceedStep
<1>12. CASE EvalNode
  <2>1. phase = "run" /\ at = 8 /\ Done(state) = 7
    BY <1>4, <1>12, NodeList DEF EvalNode
  <2>. DEFINE eval == GenerateEvalReport(state)
              s == [Entered EXCEPT !.eval = eval]
  <2>2. eval \in {"completed", "failed"}
    BY DEF GenerateEvalReport
  <2>3. /\ Merged(s) /\ s.review = state.review /\ s.report = state.report
        /\ s.plan = state.plan /\ s.eval = eval /\ s.status = state.status
    BY <1>1, <2>1, <2>2, EnteredState DEF States
  <2>4. Holds(s, at)
    BY <1>2, <2>1, <2>2, <2>3 DEF Holds
  <2>5. Succeed(s)
    BY <1>12 DEF EvalNode
  <2>. HIDE DEF s, eval
  <2>. QED BY <2>1, <2>3, <2>4, <2>5, SucceedStep
<1>13. CASE KnowledgeFails
  <2>1. phase = "run" /\ at = 3
    BY <1>4, <1>13, NodeList DEF KnowledgeFails
  <2>. QED BY <1>13, <2>1, RaiseStep DEF KnowledgeFails
<1>14. CASE RulePlanFails
  <2>1. phase = "run" /\ at = 5
    BY <1>4, <1>14, NodeList DEF RulePlanFails
  <2>2. NodeRaises(TRUE)
    BY <1>14 DEF RulePlanFails
  <2>3. at \in 3..6
    BY <2>1
  <2>. QED BY <2>1, <2>2, <2>3, RaiseStep
<1>15. CASE ReplyBreaksNode
  <2>1. phase = "run" /\ at \in 1..8 /\ Nodes[at] \in AgentNodes
    BY <1>1, <1>15, NodeList DEF ReplyBreaksNode, TypeOK, Node
  <2>2. at \in 4..6
    BY <2>1, NodeList DEF AgentNodes
  <2>. QED BY <1>15, <2>1, <2>2, RaiseStep DEF ReplyBreaksNode
<1>16. CASE FinishRun
  <2>1. phase = "run" /\ Done(state) = 8 /\ Stop(state, state.status)
    BY <1>1, <1>2, <1>16, NodeList DEF FinishRun, TypeOK
  <2>2. state.status \in Statuses
    BY <1>1 DEF States
  <2>. QED BY <1>1, <1>3, <2>1, <2>2, StopStep
<1>17. CASE StartRun
  <2>1. /\ state' = saved /\ base' = saved /\ at' = Done(saved) + 1 /\ attempt' = 1
        /\ phase' = "run" /\ runs' \in 0..MaxRuns /\ UNCHANGED <<result, saved>>
        /\ llm' \in {"up", "down"}
    BY <1>1, <1>17, RunsAssumption DEF StartRun, StartIndex, Done, TypeOK
  <2>2. Sound(saved) /\ saved \in States /\ Done(saved) \in Nat /\ Done(saved) <= 8
    BY StateParts, NodeList DEF IInv, Sound, Done
  <2>3. Keeps(saved, saved)
    BY <2>2 DEF Keeps
  <2>4. TypeOK'
    BY <1>1, <2>1, <2>2, NodeList DEF TypeOK
  <2>5. Looping'
    BY <2>1, <2>2 DEF Looping, Retrying, Done
  <2>6. /\ Sound(base)' /\ Sound(saved)' /\ Sound(state)' /\ Keeps(state, base)'
        /\ (result # NoResult => Sound(result.resume_state))'
        /\ (phase = "run")'
    BY <2>1, <2>2, <2>3 DEF IInv
  <2>. QED BY <2>4, <2>5, <2>6 DEF IInv
<1>18. CASE SaveCheckpoint
  <2>1. /\ saved' = result.resume_state /\ result # NoResult /\ phase = "idle"
        /\ UNCHANGED <<phase, runs, llm, at, attempt, base, state, result>>
    BY <1>18 DEF SaveCheckpoint
  <2>2. Sound(saved') /\ saved' \in States
    BY <2>1 DEF IInv, Sound
  <2>3. TypeOK'
    BY <1>1, <2>1, <2>2 DEF TypeOK
  <2>4. Reported'
    BY <2>1 DEF IInv, Reported, StatusAgrees, ReportIsCurrent
  <2>5. /\ Sound(base)' /\ Sound(saved)' /\ Sound(state)' /\ Keeps(state, base)'
        /\ (result # NoResult => Sound(result.resume_state))'
    BY <2>1, <2>2 DEF IInv
  <2>. QED BY <2>1, <2>3, <2>4, <2>5 DEF IInv
<1>. QED
  BY <1>5, <1>6, <1>7, <1>8, <1>9, <1>10, <1>11, <1>12, <1>13, <1>14, <1>15,
     <1>16, <1>17, <1>18
  DEF Next, NodeStep, NodeTrouble

LEMMA Invariance == Spec => []IInv
<1>1. IInv /\ UNCHANGED vars => IInv'
  BY DEF vars, IInv, TypeOK, Keeps, Looping, Retrying, Reported, StatusAgrees,
         ReportIsCurrent, Node, Sound
<1>. QED BY <1>1, InvInit, InvStep, PTL DEF Spec

-----------------------------------------------------------------------------
(* What follows from it.                                                   *)

\* Runs, states and results keep their types (graph/state.py).
THEOREM TypeCorrect == Spec => []TypeOK
<1>1. IInv => TypeOK
  BY DEF IInv
<1>. QED BY <1>1, Invariance, PTL

\* A node is tried again only directly after a retryable error, at most as
\* often as its specification allows, in every run that resumes another
\* (workflow.py:562).
THEOREM RetriesAreJustified == Spec => []RetriesFollowErrors
<1>1. IInv => RetriesFollowErrors
  BY DEF IInv, Sound, RetriesFollowErrors
<1>. QED BY <1>1, Invariance, PTL

\* The result's status is "failed" with nodes missing and otherwise what the
\* review has decided, in this run or in one it resumed.
THEOREM StatusIsTrue == Spec => []StatusAgrees
<1>1. IInv => StatusAgrees
  BY DEF IInv, Reported, StatusAgrees
<1>. QED BY <1>1, Invariance, PTL

\* A failed run's report names the error of that run, and no fallback report
\* is ever resumed (_finalize_result).
THEOREM FallbackNeverResumed == Spec => []ReportIsCurrent
<1>1. IInv => ReportIsCurrent
  BY DEF IInv, Reported, ReportIsCurrent
<1>. QED BY <1>1, Invariance, PTL

\* A finished run with a high-risk plan waits for a human, whoever planned
\* and reviewed it, and in whichever run.
THEOREM HighRiskIsGated == Spec => []HighRiskAsksHuman
<1>1. ASSUME IInv, phase = "idle", result # NoResult,
             state.plan \in {"high", "ungated"}, Len(state.completed) = Len(Nodes)
      PROVE  result.pending # "none"
  <2>1. Holds(state, 8) /\ result.pending = PendingHumanInput(state)
    BY <1>1, NodeList DEF IInv, Reported, Sound, Done
  <2>2. state.plan = "high"
    BY <1>1, <2>1 DEF Holds
  <2>3. state.report = [kind |-> "real", human |-> RequiresApproval(state.plan),
                        note |-> NoError]
    BY <2>1 DEF Holds
  <2>4. state.report.human = RequiresApproval(state.plan)
    BY <2>3
  <2>5. RequiresApproval(state.plan)
    BY <2>2 DEF RequiresApproval
  <2>. QED BY <2>1, <2>4, <2>5 DEF PendingHumanInput
<1>2. IInv => HighRiskAsksHuman
  BY <1>1 DEF HighRiskAsksHuman
<1>. QED BY <1>2, Invariance, PTL

\* The outcomes of a run are those WorkflowJobs takes in one step.
THEOREM RunsImplementOutcomes == Spec => []RunsAsAssumed
<1>1. ASSUME IInv, phase = "idle", result # NoResult
      PROVE  LET t == AsCheckpoint(result.resume_state)
             IN  /\ t \in Run!RunOutcomes(AsCheckpoint(base))
                 /\ (result.status = "failed") = Run!RunFailed(t)
                 /\ (result.pending # "none") = Run!PendingHumanInput(t)
  <2>. DEFINE t == AsCheckpoint(state)
              b == AsCheckpoint(base)
  <2>1. /\ result.resume_state = state /\ result.pending = PendingHumanInput(state)
        /\ StatusAgrees /\ Keeps(state, base)
        /\ Holds(state, Done(state)) /\ Holds(base, Done(base))
        /\ state \in States /\ base \in States
        /\ Done(state) \in 0..8 /\ Done(base) \in 0..8
    <3>1. /\ result.resume_state = state /\ result.pending = PendingHumanInput(state)
          /\ StatusAgrees /\ Keeps(state, base) /\ Sound(state) /\ Sound(base)
      BY <1>1 DEF IInv, Reported
    <3>2. /\ Holds(state, Done(state)) /\ Holds(base, Done(base))
          /\ state \in States /\ base \in States
          /\ Done(state) <= 8 /\ Done(base) <= 8
      BY <3>1, NodeList DEF Sound
    <3>3. Done(state) \in Nat /\ Done(base) \in Nat
      BY <3>2, StateParts DEF Done
    <3>. QED BY <3>1, <3>2, <3>3
  <2>2. /\ t.level = Done(state) /\ t.approved = (state.review # "rejected")
        /\ t.risky = (Done(state) >= 7 /\ state.report.human)
        /\ t \in [level : 0..8, approved : BOOLEAN, risky : BOOLEAN]
    BY <2>1 DEF AsCheckpoint, Done, Holds, NoReport, States, Reports
  <2>3. /\ b.level = Done(base) /\ b.approved = (base.review # "rejected")
        /\ b.risky = (Done(base) >= 7 /\ base.report.human)
    BY <2>1 DEF AsCheckpoint, Done, Holds, NoReport, States, Reports
  <2>4. /\ Done(state) < 6 => t.approved
        /\ Done(state) < 7 => ~t.risky
    BY <2>1, <2>2 DEF Holds
  <2>5. /\ Done(state) >= Done(base)
        /\ Done(base) >= 6 => t.approved = b.approved
        /\ Done(base) >= 7 => t.risky = b.risky
    BY <2>1, <2>2, <2>3 DEF Keeps
  <2>6. (result.pending # "none") = (~t.approved \/ t.risky)
    <3>1. Done(state) < 7 => state.report.human = FALSE
      BY <2>1 DEF Holds, NoReport
    <3>. QED BY <2>1, <2>2, <3>1 DEF PendingHumanInput
  <2>7. (result.status = "failed") = (t.level < 8)
    BY <1>1, <2>1, <2>2, NodeList DEF StatusAgrees, Done
  <2>. HIDE DEF t, b
  <2>8. t \in Run!RunOutcomes(b)
    BY <2>1, <2>2, <2>3, <2>4, <2>5, NodeList DEF Run!RunOutcomes, Run!Checkpoints
  <2>9. (result.status = "failed") = Run!RunFailed(t)
    BY <2>7, NodeList DEF Run!RunFailed
  <2>10. (result.pending # "none") = Run!PendingHumanInput(t)
    BY <2>6 DEF Run!PendingHumanInput
  <2>. QED BY <2>1, <2>8, <2>9, <2>10 DEF t, b
<1>2. IInv => RunsAsAssumed
  BY <1>1 DEF RunsAsAssumed
<1>. QED BY <1>2, Invariance, PTL

-----------------------------------------------------------------------------
(* The order of the nodes.                                                 *)

LEMMA PlaceOfNode ==
    /\ \A n \in 1..8 : Place[Nodes[n]] = n
    /\ \A node \in NodeNames : Place[node] \in 1..8 /\ Nodes[Place[node]] = node
<1>1. ASSUME NEW n \in 1..8 PROVE Place[Nodes[n]] = n
  <2>1. Nodes[n] \in NodeNames
    BY NodeIsName
  <2>2. \A m \in 1..8 : Nodes[m] = Nodes[n] => m = n
    BY NodeList
  <2>3. Place[Nodes[n]] = CHOOSE m \in 1..8 : Nodes[m] = Nodes[n]
    BY <2>1, NodeList DEF Place
  <2>. QED BY <2>2, <2>3
<1>2. ASSUME NEW node \in NodeNames
      PROVE  Place[node] \in 1..8 /\ Nodes[Place[node]] = node
  <2>1. PICK n \in 1..8 : Nodes[n] = node
    BY NodeList DEF NodeNames
  <2>. QED BY <1>1, <2>1
<1>. QED BY <1>1, <1>2

\* An event of the node that follows the n completed ones is appended.
LEMMA TraceForward ==
    ASSUME NEW t \in Seq(Events), NEW n \in 0..7, Forward(t),
           \A k \in Ends(t) : \E m \in 1..n : t[k].node = Nodes[m],
           \A k \in 1..Len(t) : Place[t[k].node] <= n + 1,
           NEW e \in Events, e.node = Nodes[n + 1]
    PROVE  /\ Forward(Append(t, e))
           /\ \A k \in 1..Len(Append(t, e)) : Place[Append(t, e)[k].node] <= n + 1
<1>. DEFINE u == Append(t, e)
<1>1. Len(t) \in Nat /\ Len(u) = Len(t) + 1 /\ u[Len(t) + 1] = e
      /\ \A k \in 1..Len(t) : u[k] = t[k]
  OBVIOUS
<1>2. Place[e.node] = n + 1
  BY PlaceOfNode
<1>3. ASSUME NEW k \in 1..Len(t)
      PROVE  \/ Place[t[k].node] < n + 1
             \/ t[k].node = e.node /\ t[k].type # "node_end"
  <2>1. t[k] \in Events
    OBVIOUS
  <2>2. /\ t[k].node \in NodeNames
        /\ Place[t[k].node] \in 1..8 /\ Nodes[Place[t[k].node]] = t[k].node
    BY <2>1, PlaceOfNode DEF Events
  <2>3. Place[t[k].node] < n + 1 \/ Place[t[k].node] = n + 1
    BY <2>2
  <2>4. CASE t[k].type = "node_end"
    <3>1. PICK m \in 1..n : t[k].node = Nodes[m]
      BY <2>4 DEF Ends
    <3>2. Place[t[k].node] = m
      BY <3>1, PlaceOfNode
    <3>. QED BY <3>2
  <2>5. CASE t[k].type # "node_end"
    BY <2>2, <2>3, <2>5
  <2>. QED BY <2>4, <2>5
<1>4. ASSUME NEW l \in 1..Len(u), NEW k \in 1..(l - 1)
      PROVE  \/ Place[u[k].node] < Place[u[l].node]
             \/ u[k].node = u[l].node /\ u[k].type # "node_end"
  <2>1. k \in 1..Len(t) /\ u[k] = t[k]
    BY <1>1
  <2>2. CASE l = Len(t) + 1
    BY <1>1, <1>2, <1>3, <2>1, <2>2
  <2>3. CASE l # Len(t) + 1
    <3>1. l \in 1..Len(t) /\ u[l] = t[l]
      BY <1>1, <2>3
    <3>. QED BY <2>1, <3>1 DEF Forward
  <2>. QED BY <2>2, <2>3
<1>5. ASSUME NEW k \in 1..Len(u) PROVE Place[u[k].node] <= n + 1
  <2>1. CASE k = Len(t) + 1
    BY <1>1, <1>2, <2>1
  <2>2. CASE k # Len(t) + 1
    <3>1. k \in 1..Len(t) /\ u[k] = t[k]
      BY <1>1, <2>2
    <3>. QED BY <3>1
  <2>. QED BY <2>1, <2>2
<1>. HIDE DEF u
<1>6. Forward(u)
  BY <1>4 DEF Forward
<1>. QED BY <1>5, <1>6 DEF u

\* The node ends.
LEMMA OrderedEnd ==
    ASSUME NEW s \in States, Done(s) \in 0..7, Ordered(s, Done(s)),
           NEW e \in Events, e.node = Nodes[Done(s) + 1], e.type = "node_end",
           NEW t \in States, t.completed = Append(s.completed, Nodes[Done(s) + 1]),
           t.trace = Append(s.trace, e)
    PROVE  Ordered(t, Done(s) + 1)
<1>. DEFINE n == Done(s)
<1>1. /\ s.completed \in Seq(NodeNames) /\ s.trace \in Seq(Events)
      /\ n = Len(s.completed) /\ n \in 0..7 /\ n + 1 \in 1..8
  <2>1. s.completed \in Seq(NodeNames) /\ s.trace \in Seq(Events)
    BY StateParts
  <2>2. n = Len(s.completed)
    BY DEF Done
  <2>. HIDE DEF n
  <2>3. n \in 0..7
    BY DEF n
  <2>4. n + 1 \in 1..8
    BY <2>3
  <2>. QED BY <2>1, <2>2, <2>3, <2>4
<1>. HIDE DEF n
<1>2. \A m \in 1..(n + 1) : t.completed[m] = Nodes[m]
  <2>1. \A m \in 1..n : s.completed[m] = Nodes[m]
    BY DEF Ordered, n
  <2>2. t.completed = Append(s.completed, Nodes[n + 1])
    BY DEF n
  <2>. QED BY <1>1, <2>1, <2>2
<1>3. /\ Len(s.trace) \in Nat /\ Len(t.trace) = Len(s.trace) + 1
      /\ t.trace[Len(s.trace) + 1] = e
      /\ \A k \in 1..Len(s.trace) : t.trace[k] = s.trace[k]
  BY <1>1
<1>4. Ends(t.trace) = Ends(s.trace) \cup {Len(s.trace) + 1}
  BY <1>3 DEF Ends
<1>5. {s.trace[k].node : k \in Ends(s.trace)} = {Nodes[m] : m \in 1..n}
  BY DEF Ordered, n
<1>6. Ends(s.trace) \subseteq 1..Len(s.trace)
  BY DEF Ends
<1>7. {t.trace[k].node : k \in Ends(t.trace)} =
          {s.trace[k].node : k \in Ends(s.trace)} \cup {e.node}
  BY <1>3, <1>4, <1>6
<1>8. {t.trace[k].node : k \in Ends(t.trace)} = {Nodes[m] : m \in 1..(n + 1)}
  <2>1. 1..(n + 1) = (1..n) \cup {n + 1}
    BY <1>1
  <2>2. {Nodes[m] : m \in 1..(n + 1)} = {Nodes[m] : m \in 1..n} \cup {Nodes[n + 1]}
    BY <2>1
  <2>3. e.node = Nodes[n + 1]
    BY DEF n
  <2>. QED BY <1>5, <1>7, <2>2, <2>3
<1>9. \A k \in Ends(s.trace) : \E m \in 1..n : s.trace[k].node = Nodes[m]
  BY <1>5
<1>10. /\ Forward(t.trace)
       /\ \A k \in 1..Len(t.trace) : Place[t.trace[k].node] <= n + 1
  <2>1. /\ Forward(s.trace) /\ \A k \in 1..Len(s.trace) : Place[s.trace[k].node] <= n + 1
        /\ e.node = Nodes[n + 1]
    BY DEF Ordered, n
  <2>. QED BY <1>1, <1>9, <2>1, TraceForward
<1>11. \A k \in 1..Len(t.trace) : Place[t.trace[k].node] <= (n + 1) + 1
  <2>1. ASSUME NEW k \in 1..Len(t.trace) PROVE Place[t.trace[k].node] <= (n + 1) + 1
    <3>1. t.trace[k] \in Events
      BY StateParts
    <3>2. Place[t.trace[k].node] \in 1..8
      BY <3>1, PlaceOfNode DEF Events
    <3>3. Place[t.trace[k].node] <= n + 1
      BY <1>10
    <3>4. n \in Nat
      BY <1>1
    <3>. QED BY <3>2, <3>3, <3>4
  <2>. QED BY <2>1
<1>. QED BY <1>2, <1>8, <1>10, <1>11 DEF Ordered, n

\* The node raises.
LEMMA OrderedError ==
    ASSUME NEW s \in States, Done(s) \in 0..7, Ordered(s, Done(s)),
           NEW e \in Events, e.node = Nodes[Done(s) + 1], e.type = "error",
           NEW t \in States, t.completed = s.completed, t.trace = Append(s.trace, e)
    PROVE  Ordered(t, Done(s))
<1>. DEFINE n == Done(s)
<1>1. /\ s.trace \in Seq(Events) /\ n \in 0..7
      /\ Len(s.trace) \in Nat /\ Len(t.trace) = Len(s.trace) + 1
      /\ t.trace[Len(s.trace) + 1] = e
      /\ \A k \in 1..Len(s.trace) : t.trace[k] = s.trace[k]
  BY StateParts
<1>2. Ends(t.trace) = Ends(s.trace)
  BY <1>1 DEF Ends
<1>3. \A k \in Ends(s.trace) : t.trace[k] = s.trace[k]
  BY <1>1 DEF Ends
<1>4. {s.trace[k].node : k \in Ends(s.trace)} = {Nodes[m] : m \in 1..n}
  BY DEF Ordered
<1>5. {t.trace[k].node : k \in Ends(t.trace)} = {Nodes[m] : m \in 1..n}
  BY <1>2, <1>3, <1>4
<1>6. \A k \in Ends(s.trace) : \E m \in 1..n : s.trace[k].node = Nodes[m]
  BY <1>4
<1>7. /\ Forward(t.trace)
      /\ \A k \in 1..Len(t.trace) : Place[t.trace[k].node] <= n + 1
  BY <1>1, <1>6, TraceForward DEF Ordered
<1>. QED BY <1>5, <1>7 DEF Ordered

\* A node's handler returns, whatever it merges into the state.
LEMMA SucceedOrder ==
    ASSUME IInv, IInv', StatesOrdered, At(Node), NEW s \in States, Succeed(s),
           s.completed = state.completed, s.trace = state.trace
    PROVE  StatesOrdered'
<1>1. /\ state \in States /\ state' \in States /\ Done(state) \in Nat
      /\ at = Done(state) + 1 /\ at \in 1..8 /\ attempt \in 1..2
  BY StateParts, NodeList DEF IInv, Sound, Done, At, Looping, TypeOK
<1>. DEFINE e == Event(Node, "node_end", attempt, FALSE)
<1>2. e \in Events
  BY <1>1, EventType, NodeIsName DEF Node
<1>3. e.node = Nodes[Done(state) + 1] /\ e.type = "node_end"
  BY <1>1 DEF Event, Node
<1>4. /\ state'.completed = Append(state.completed, Nodes[Done(state) + 1])
      /\ state'.trace = Append(state.trace, e)
  BY <1>1 DEF Succeed, States, Node
<1>. HIDE DEF e
<1>5. Ordered(state', Done(state) + 1)
  <2>1. PICK t \in States : t = state'
    BY <1>1
  <2>. QED BY <1>1, <1>2, <1>3, <1>4, <2>1, OrderedEnd DEF StatesOrdered
<1>6. Done(state') = Done(state) + 1
  BY <1>1, <1>4, StateParts DEF Done
<1>7. UNCHANGED <<base, result, saved>>
  BY DEF Succeed
<1>. QED BY <1>5, <1>6, <1>7 DEF StatesOrdered

\* A node's handler raises, and is retried or ends the run.
LEMMA RaiseOrder ==
    ASSUME IInv, IInv', StatesOrdered, phase = "run", at \in 1..8,
           NEW retryable \in BOOLEAN, NodeRaises(retryable)
    PROVE  StatesOrdered'
<1>1. /\ state \in States /\ state' \in States /\ Done(state) \in Nat
      /\ at = Done(state) + 1 /\ attempt \in 1..2
      /\ Sound(state)
  BY StateParts DEF IInv, Sound, Done, Looping, TypeOK
<1>. DEFINE e == Event(Node, "error", attempt, retryable)
<1>2. e \in Events
  BY <1>1, EventType, NodeIsName DEF Node
<1>3. e.node = Nodes[Done(state) + 1] /\ e.type = "error"
  BY <1>1 DEF Event, Node
<1>4. /\ Traced(retryable).completed = state.completed
      /\ Traced(retryable).trace = Append(state.trace, e)
      /\ Traced(retryable) \in [status : Statuses, completed : Seq(NodeNames),
              trace : {Append(state.trace, e)}, erred : BOOLEAN, last_error : Errors,
              root : RootCauses, plan : Plans, review : Reviews, report : Reports,
              eval : {"unset", "completed", "failed"}]
  BY <1>1, EnteredState DEF Traced, States
<1>5. /\ state'.completed = state.completed
      /\ state'.trace = Append(state.trace, e)
      /\ UNCHANGED <<base, saved>>
      /\ UNCHANGED result \/ result'.resume_state = state'
  <2>1. CASE MayRetry(retryable)
    BY <1>4, <2>1 DEF NodeRaises
  <2>2. CASE ~MayRetry(retryable)
    <3>. DEFINE s == [Traced(retryable) EXCEPT !.status = "failed", !.erred = TRUE,
                                               !.last_error = <<runs, Node>>]
    <3>1. s.completed = state.completed /\ s.trace = Append(state.trace, e)
      BY <1>4
    <3>2. Stop(s, "failed")
      BY <2>2 DEF NodeRaises
    <3>. HIDE DEF s
    <3>. QED BY <3>1, <3>2 DEF Stop, FinalResult
  <2>. QED BY <2>1, <2>2
<1>. HIDE DEF e
<1>6. Ordered(state', Done(state))
  <2>1. PICK t \in States : t = state'
    BY <1>1
  <2>. QED BY <1>1, <1>2, <1>3, <1>5, <2>1, OrderedError DEF StatesOrdered
<1>7. Done(state') = Done(state)
  BY <1>5 DEF Done
<1>8. Ordered(state', Done(state'))
  BY <1>6, <1>7
<1>. QED BY <1>5, <1>8 DEF StatesOrdered

LEMMA OrderStep ==
    ASSUME IInv, IInv', StatesOrdered, Next
    PROVE  StatesOrdered'
<1>1. state \in States /\ TypeOK /\ Sound(state)
  BY DEF IInv, Sound
<1>. DEFINE Merged(s) == s \in States /\ s.completed = state.completed /\ s.trace = state.trace
<1>2. Merged(Entered)
  BY <1>1, EnteredState
<1>3. CASE NodeStep
  <2>1. PICK s : Merged(s) /\ At(Node) /\ Succeed(s)
    <3>1. CASE IngestNode \/ EvidenceNode \/ KnowledgeNode
      BY <1>2, <3>1 DEF IngestNode, EvidenceNode, KnowledgeNode, At
    <3>2. CASE RootCauseNode
      <4>1. PICK root \in RootCauses : Succeed([Entered EXCEPT !.root = root])
        BY <3>2 DEF RootCauseNode, RootCauses
      <4>2. Merged([Entered EXCEPT !.root = root])
        BY <1>2 DEF States
      <4>. QED BY <3>2, <4>1, <4>2 DEF RootCauseNode, At
    <3>3. CASE FixPlanNode
      <4>1. PICK plan \in Plans : Succeed([Entered EXCEPT !.plan = plan])
        BY <3>3 DEF FixPlanNode, RulePlans, LLMPlans, Plans
      <4>2. Merged([Entered EXCEPT !.plan = plan])
        BY <1>2 DEF States
      <4>. QED BY <3>3, <4>1, <4>2 DEF FixPlanNode, At
    <3>4. CASE ReviewNode
      <4>1. PICK review \in Reviews : Succeed([Entered EXCEPT !.review = review])
        BY <3>4 DEF ReviewNode, RuleReview, LLMReviews, Reviews
      <4>2. Merged([Entered EXCEPT !.review = review])
        BY <1>2 DEF States
      <4>. QED BY <3>4, <4>1, <4>2 DEF ReviewNode, At
    <3>5. CASE FinalReportNode
      <4>. DEFINE report == [kind |-> "real", human |-> RequiresApproval(state.plan),
                             note |-> NoError]
                  final == IF state.review = "approved" THEN "completed" ELSE "needs_revision"
                  s == [Entered EXCEPT !.report = report, !.status = final]
      <4>1. report \in Reports /\ final \in Statuses
        BY NoReportType DEF Reports, RequiresApproval, Statuses
      <4>2. Succeed(s) /\ At("final_report")
        BY <3>5 DEF FinalReportNode
      <4>. HIDE DEF report, final
      <4>3. Merged(s)
        BY <1>2, <4>1 DEF States
      <4>. HIDE DEF s
      <4>. QED BY <4>2, <4>3 DEF At
    <3>6. CASE EvalNode
      <4>1. PICK eval \in {"completed", "failed"} : Succeed([Entered EXCEPT !.eval = eval])
        BY <3>6 DEF EvalNode, GenerateEvalReport
      <4>2. Merged([Entered EXCEPT !.eval = eval])
        BY <1>2 DEF States
      <4>. QED BY <3>6, <4>1, <4>2 DEF EvalNode, At
    <3>. QED BY <1>3, <3>1, <3>2, <3>3, <3>4, <3>5, <3>6 DEF NodeStep
  <2>. QED BY <2>1, SucceedOrder
<1>4. CASE NodeTrouble
  <2>1. phase = "run" /\ at \in 1..8
    <3>1. phase = "run" /\ at <= Len(Nodes)
      BY <1>4 DEF NodeTrouble, KnowledgeFails, RulePlanFails, ReplyBreaksNode, At
    <3>. QED BY <1>1, <3>1, NodeList DEF TypeOK
  <2>2. PICK retryable \in BOOLEAN : NodeRaises(retryable)
    BY <1>4 DEF NodeTrouble, KnowledgeFails, RulePlanFails, ReplyBreaksNode
  <2>. QED BY <2>1, <2>2, RaiseOrder
<1>5. CASE FinishRun
  <2>1. /\ UNCHANGED <<state, base, saved>>
        /\ result'.resume_state = state'
    BY <1>5 DEF FinishRun, Stop, FinalResult
  <2>. QED BY <2>1 DEF StatesOrdered
<1>6. CASE StartRun
  BY <1>6 DEF StartRun, StatesOrdered
<1>7. CASE SaveCheckpoint
  BY <1>7 DEF SaveCheckpoint, StatesOrdered
<1>. QED BY <1>3, <1>4, <1>5, <1>6, <1>7 DEF Next

\* Nodes complete in their order and are traced once, and neither a retry
\* nor a resumption, from an older state or the newest, goes back behind a
\* completed node (workflow.py, run_incident_workflow).
THEOREM NodesKeepOrder == Spec => []NodesInOrder
<1>1. Init => StatesOrdered
  <2>1. Done(Initial) = 0 /\ Initial.trace = <<>>
    BY DEF Initial, Done
  <2>2. Ordered(Initial, 0)
    BY <2>1 DEF Ordered, Forward, Ends
  <2>. QED BY <2>1, <2>2 DEF Init, StatesOrdered
<1>2. IInv /\ IInv' /\ StatesOrdered /\ [Next]_vars => StatesOrdered'
  <2>1. StatesOrdered /\ UNCHANGED vars => StatesOrdered'
    BY DEF StatesOrdered, vars
  <2>. QED BY <2>1, OrderStep
<1>3. IInv /\ StatesOrdered => NodesInOrder
  <2>. SUFFICES ASSUME IInv, StatesOrdered PROVE NodesInOrder
    OBVIOUS
  <2>. DEFINE n == Len(state.completed)
              c == state.completed
  <2>1. /\ c \in Seq(NodeNames) /\ n \in Nat /\ n <= 8 /\ n = Done(state)
    BY StateParts, NodeList DEF IInv, Sound, Done
  <2>2. /\ \A m \in 1..n : c[m] = Nodes[m]
        /\ {state.trace[k].node : k \in Ends(state.trace)} = {Nodes[m] : m \in 1..n}
        /\ Forward(state.trace)
    BY <2>1 DEF StatesOrdered, Ordered
  <2>3. SubSeq(Nodes, 1, n) \in Seq(NodeNames) /\ Len(SubSeq(Nodes, 1, n)) = n
        /\ \A m \in 1..n : SubSeq(Nodes, 1, n)[m] = Nodes[m]
    <3>1. \A m \in 1..n : Nodes[m] \in NodeNames
      BY <2>1, NodeIsName
    <3>. QED BY <2>1, <3>1, SubSeqProperties
  <2>4. c = SubSeq(Nodes, 1, n)
    BY <2>1, <2>2, <2>3
  <2>. QED BY <2>1, <2>2, <2>4, NodeList DEF NodesInOrder
<1>. QED BY <1>1, <1>2, <1>3, Invariance, PTL DEF Spec

=============================================================================
