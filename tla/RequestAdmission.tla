-------------------------- MODULE RequestAdmission --------------------------
(***************************************************************************)
(* What stands between an authenticated request and its handler            *)
(* (auth.py, require_access): the tenant's request quota, its workflow     *)
(* quota and, in production mode, the release gate; and the administrators *)
(* who create and decide the configuration approvals the gate asks for.    *)
(* Each call of the store is a transaction of its own.  consume_quota is   *)
(* one transaction with a SELECT and an UPDATE that writes what it         *)
(* computed from the row it had read: at the isolation level the engine is *)
(* created with (the database's default, read committed), others may       *)
(* commit in between, so the two statements are two steps here.            *)
(***************************************************************************)
EXTENDS Integers

CONSTANTS
    Tenants,
    NoTenant,        \* the tenant of administrators and of demo users
    Approvals,       \* ids of configuration approvals
    NoHeader,        \* a request without X-Release-Approval
    Requests,        \* slots for requests in flight
    RequestLimit,    \* request_quota_limit of a tenant
    WorkflowLimit,   \* workflow_quota_limit of a tenant
    Window,          \* quota_window_minutes, in ticks of the clock
    Production,      \* is operations_mode "production"?
    MaxTime,         \* bound: the last tick
    MaxArrivals      \* bound: requests that arrive

ASSUME AdmissionAssumption ==
    /\ NoTenant \notin Tenants
    /\ NoHeader \notin Approvals
    /\ RequestLimit \in Nat \ {0}
    /\ WorkflowLimit \in Nat \ {0}
    /\ Window \in Nat \ {0}
    /\ Production \in BOOLEAN
    /\ MaxTime \in Nat
    /\ MaxArrivals \in Nat

VARIABLES
    now,         \* the clock
    quota,       \* the quota columns of the tenants' rows
    approval,    \* the rows of config_approvals
    arrived,     \* requests so far
    pc,          \* where in require_access a request is
    call,        \* its principal's tenant, its endpoint, its header
    unit,        \* the quota it is consuming
    clock,       \* the time consume_quota took when it was called
    seen,        \* the row it has selected
    \* History:
    granted,     \* units granted to a tenant, per period
    overlapped,  \* has an update overwritten a row changed since its select?
    endorsed     \* approvals some administrator has approved

vars == <<now, quota, approval, arrived, pc, call, unit, clock, seen,
          granted, overlapped, endorsed>>

Times == 0..MaxTime
Units == {"request", "workflow"}
Limit == [request |-> RequestLimit, workflow |-> WorkflowLimit]

Endpoints == {"read", "run", "resume"}
Calls == [tenant : Tenants \cup {NoTenant},
          endpoint : Endpoints,
          header : Approvals \cup {NoHeader}]
NoCall == [tenant |-> NoTenant, endpoint |-> "read", header |-> NoHeader]

NoneUsed == [u \in Units |-> 0]
Rows == [used : [Units -> Nat], started : Times]
NewRow == [used |-> NoneUsed, started |-> 0]

Environments == {"staging", "production"}
ApprovalRows == [status : {"none", "pending", "approved", "rejected"},
                 tenant : Tenants \cup {NoTenant},
                 environment : Environments,
                 expired : BOOLEAN]
NoApproval == [status |-> "none", tenant |-> NoTenant,
               environment |-> "staging", expired |-> FALSE]

Points == {"idle", "select", "update", "denied", "gate", "handler"}

TypeOK ==
    /\ now \in Times
    /\ quota \in [Tenants -> Rows]
    /\ approval \in [Approvals -> ApprovalRows]
    /\ arrived \in 0..MaxArrivals
    /\ pc \in [Requests -> Points]
    /\ call \in [Requests -> Calls]
    /\ unit \in [Requests -> Units]
    /\ clock \in [Requests -> Times]
    /\ seen \in [Requests -> Rows]
    /\ granted \in [Tenants -> [Units -> [Times -> Nat]]]
    /\ overlapped \in [Tenants -> BOOLEAN]
    /\ endorsed \in SUBSET Approvals
    /\ \A r \in Requests :
          pc[r] \in {"select", "update", "denied"} => call[r].tenant \in Tenants

Init ==
    /\ now = 0
    /\ quota = [t \in Tenants |-> NewRow]
    /\ approval = [a \in Approvals |-> NoApproval]
    /\ arrived = 0
    /\ pc = [r \in Requests |-> "idle"]
    /\ call = [r \in Requests |-> NoCall]
    /\ unit = [r \in Requests |-> "request"]
    /\ clock = [r \in Requests |-> 0]
    /\ seen = [r \in Requests |-> NewRow]
    /\ granted = [t \in Tenants |-> [u \in Units |-> [k \in Times |-> 0]]]
    /\ overlapped = [t \in Tenants |-> FALSE]
    /\ endorsed = {}

-----------------------------------------------------------------------------
(* The checks of require_access, in their order.                           *)

\* The quotas are behind the request: the gate, if its endpoint has one.
AfterQuotas(c) ==
    IF Production /\ c.endpoint # "read" THEN "gate" ELSE "handler"

\* Mutant: a principal without a tenant goes to the quotas as well.
AfterAuthenticationAll(c) ==
    IF c.endpoint # "resume" THEN "select" ELSE AfterQuotas(c)

\* Resuming a job consumes no quota, and nobody without a tenant does.
AfterAuthentication(c) ==
    IF c.tenant # NoTenant /\ c.endpoint # "resume" THEN "select" ELSE AfterQuotas(c)

\* The answer has been sent, or the process has ended: nothing is left.
Leave(r) ==
    /\ pc' = [pc EXCEPT ![r] = "idle"]
    /\ call' = [call EXCEPT ![r] = NoCall]
    /\ unit' = [unit EXCEPT ![r] = "request"]
    /\ clock' = [clock EXCEPT ![r] = 0]
    /\ seen' = [seen EXCEPT ![r] = NewRow]
    /\ UNCHANGED <<now, quota, approval, arrived, granted, overlapped, endorsed>>

\* A request whose credential and scope are in order.  Nobody looks at the
\* header of one that only reads.
Arrive(r) ==
    /\ pc[r] = "idle"
    /\ arrived < MaxArrivals
    /\ \E c \in Calls :
          /\ c.endpoint = "read" => c.header = NoHeader
          /\ call' = [call EXCEPT ![r] = c]
          /\ pc' = [pc EXCEPT ![r] = AfterAuthentication(c)]
    /\ arrived' = arrived + 1
    /\ clock' = [clock EXCEPT ![r] = now]
    /\ UNCHANGED <<now, quota, approval, unit, seen, granted, overlapped, endorsed>>

\* The window of the row has passed by the time c.
Elapsed(row, c) == c - row.started >= Window

\* What a consumption at time c finds used: nothing, when the window is over.
UsedAt(row, c) == IF Elapsed(row, c) THEN NoneUsed ELSE row.used

\* Mutant: the last unit is granted once more.
ExhaustedLate(row, c, u) == UsedAt(row, c)[u] > Limit[u]

Exhausted(row, c, u) == UsedAt(row, c)[u] >= Limit[u]

\* Mutant: a new period resets the counter that is consumed, not the other.
ConsumedOneReset(row, c, u) ==
    [used |-> [row.used EXCEPT ![u] = UsedAt(row, c)[u] + 1],
     started |-> IF Elapsed(row, c) THEN c ELSE row.started]

\* The row as the consumption of one unit writes it back.
Consumed(row, c, u) ==
    [used |-> [UsedAt(row, c) EXCEPT ![u] = @ + 1],
     started |-> IF Elapsed(row, c) THEN c ELSE row.started]

\* SELECT, and a unit is left.
SelectQuota(r) ==
    /\ pc[r] = "select"
    /\ ~ Exhausted(quota[call[r].tenant], clock[r], unit[r])
    /\ seen' = [seen EXCEPT ![r] = quota[call[r].tenant]]
    /\ pc' = [pc EXCEPT ![r] = "update"]
    /\ UNCHANGED <<now, quota, approval, arrived, call, unit, clock,
                   granted, overlapped, endorsed>>

\* SELECT, and none is: the denial is audited next.
SelectExhausted(r) ==
    /\ pc[r] = "select"
    /\ Exhausted(quota[call[r].tenant], clock[r], unit[r])
    /\ seen' = [seen EXCEPT ![r] = quota[call[r].tenant]]
    /\ pc' = [pc EXCEPT ![r] = "denied"]
    /\ UNCHANGED <<now, quota, approval, arrived, call, unit, clock,
                   granted, overlapped, endorsed>>

\* The row an UPDATE writes is computed from the one its SELECT has read.
WrittenRow(r) == Consumed(seen[r], clock[r], unit[r])

\* UPDATE and commit; then the second quota of a run, or what follows.
UpdateQuota(r) ==
    LET t == call[r].tenant
        row == WrittenRow(r)
    IN  /\ pc[r] = "update"
        /\ quota' = [quota EXCEPT ![t] = row]
        /\ granted' = [granted EXCEPT ![t][unit[r]][row.started] = @ + 1]
        /\ overlapped' = [overlapped EXCEPT ![t] = @ \/ quota[t] # seen[r]]
        /\ IF unit[r] = "request" /\ call[r].endpoint = "run"
           THEN /\ unit' = [unit EXCEPT ![r] = "workflow"]
                /\ clock' = [clock EXCEPT ![r] = now]
                /\ pc' = [pc EXCEPT ![r] = "select"]
           ELSE /\ pc' = [pc EXCEPT ![r] = AfterQuotas(call[r])]
                /\ UNCHANGED <<unit, clock>>
        /\ UNCHANGED <<now, approval, arrived, call, seen, endorsed>>

\* The audit event is written and the client gets its 429.
AnswerDenied(r) ==
    /\ pc[r] = "denied"
    /\ Leave(r)

\* Mutant: whose approval it is does not matter.
ValidForAll(a, t) ==
    /\ approval[a].status = "approved"
    /\ approval[a].environment = "production"
    /\ ~ approval[a].expired

\* validate_release_approval.  A principal without a tenant may use any
\* approval, a tenant only one made out to it.
Valid(a, t) ==
    /\ approval[a].status = "approved"
    /\ approval[a].environment = "production"
    /\ t # NoTenant => approval[a].tenant = t
    /\ ~ approval[a].expired

PassGate(r) ==
    /\ pc[r] = "gate"
    /\ call[r].header # NoHeader
    /\ Valid(call[r].header, call[r].tenant)
    /\ pc' = [pc EXCEPT ![r] = "handler"]
    /\ UNCHANGED <<now, quota, approval, arrived, call, unit, clock, seen,
                   granted, overlapped, endorsed>>

RefuseAtGate(r) ==
    /\ pc[r] = "gate"
    /\ \/ call[r].header = NoHeader
       \/ call[r].header # NoHeader /\ ~ Valid(call[r].header, call[r].tenant)
    /\ Leave(r)

\* The handler returns: its work is the subject of the other modules.
Answer(r) ==
    /\ pc[r] = "handler"
    /\ Leave(r)

\* The process ends, the database rolls back a transaction that is open.
Die(r) ==
    /\ pc[r] # "idle"
    /\ Leave(r)

-----------------------------------------------------------------------------
(* Administrators and the clock.                                           *)

CreateApproval(a) ==
    /\ approval[a].status = "none"
    /\ \E t \in Tenants \cup {NoTenant}, e \in Environments :
          approval' = [approval EXCEPT ![a] =
              [status |-> "pending", tenant |-> t, environment |-> e, expired |-> FALSE]]
    /\ UNCHANGED <<now, quota, arrived, pc, call, unit, clock, seen,
                   granted, overlapped, endorsed>>

\* Nothing asks whether the approval is still pending, or has expired.
DecideApproval(a, decision) ==
    /\ approval[a].status # "none"
    /\ approval' = [approval EXCEPT ![a].status = decision]
    /\ endorsed' = IF decision = "approved" THEN endorsed \cup {a} ELSE endorsed
    /\ UNCHANGED <<now, quota, arrived, pc, call, unit, clock, seen,
                   granted, overlapped>>

ApprovalExpires(a) ==
    /\ approval[a].status # "none"
    /\ ~ approval[a].expired
    /\ approval' = [approval EXCEPT ![a].expired = TRUE]
    /\ UNCHANGED <<now, quota, arrived, pc, call, unit, clock, seen,
                   granted, overlapped, endorsed>>

Tick ==
    /\ now < MaxTime
    /\ now' = now + 1
    /\ UNCHANGED <<quota, approval, arrived, pc, call, unit, clock, seen,
                   granted, overlapped, endorsed>>

Next ==
    \/ \E r \in Requests :
          \/ Arrive(r)
          \/ SelectQuota(r)
          \/ SelectExhausted(r)
          \/ UpdateQuota(r)
          \/ AnswerDenied(r)
          \/ PassGate(r)
          \/ RefuseAtGate(r)
          \/ Answer(r)
          \/ Die(r)
    \/ \E a \in Approvals :
          \/ CreateApproval(a)
          \/ \E decision \in {"approved", "rejected"} : DecideApproval(a, decision)
          \/ ApprovalExpires(a)
    \/ Tick

Spec == Init /\ [][Next]_vars

-----------------------------------------------------------------------------
(* A tenant that is told its quota is exhausted has had all of it in the   *)
(* period the answer speaks of, whatever overlapped: an update computed    *)
(* from an old row (UpdateQuota) errs in the tenant's favour only, and so  *)
(* does a row that a late update has put back to an earlier period.        *)
NoEarlyDenial ==
    \A r \in Requests : pc[r] = "denied" =>
        granted[call[r].tenant][unit[r]][seen[r].started] >= Limit[unit[r]]

(* Consumptions of a tenant that do not overlap grant at most the limit in *)
(* each period, requests and workflows alike, although every one of them   *)
(* writes both counters and either may be the one to open a new period.    *)
QuotaHoldsAlone ==
    \A t \in Tenants : ~ overlapped[t] =>
        \A u \in Units, k \in Times : granted[t][u][k] <= Limit[u]

(* In production mode no run and no resumption is under way without an     *)
(* approval that somebody approved, for production, made out to the        *)
(* request's tenant: also when it is rejected or expires while the request *)
(* is on its way.                                                          *)
RunsAreReleased ==
    \A r \in Requests :
        (Production /\ pc[r] = "handler" /\ call[r].endpoint # "read") =>
            /\ call[r].header \in endorsed
            /\ approval[call[r].header].environment = "production"
            /\ call[r].tenant # NoTenant =>
                  approval[call[r].header].tenant = call[r].tenant

-----------------------------------------------------------------------------
(* What makes the properties above inductive.                              *)

\* No counter, in a row or in a request's copy of one, shows more than has
\* been granted in its period; who is denied has read a full counter; who is
\* about to update has read one that is not.
Backed(row, t) == \A u \in Units : row.used[u] <= granted[t][u][row.started]

CountersBacked ==
    /\ \A t \in Tenants : Backed(quota[t], t)
    /\ \A r \in Requests :
          /\ pc[r] \in {"update", "denied"} => Backed(seen[r], call[r].tenant)
          /\ pc[r] = "denied" => seen[r].used[unit[r]] >= Limit[unit[r]]
          /\ pc[r] = "update" => ~ Exhausted(seen[r], clock[r], unit[r])

\* Without overlap the counters are exact, and the row is the latest period.
Exact(t) ==
    \A u \in Units :
        /\ granted[t][u][quota[t].started] = quota[t].used[u]
        /\ \A k \in Times :
              /\ granted[t][u][k] <= Limit[u]
              /\ k > quota[t].started => granted[t][u][k] = 0

CountersExact == \A t \in Tenants : ~ overlapped[t] => Exact(t)

\* Approvals are decided after they are created.
ApprovalsInOrder ==
    /\ \A a \in endorsed : approval[a].status # "none"
    /\ \A a \in Approvals : approval[a].status = "approved" => a \in endorsed
=============================================================================
