---------------------- MODULE RequestAdmission_proofs ----------------------
(***************************************************************************)
(* Proofs about RequestAdmission, for any number of tenants, approvals and *)
(* requests in flight, any limits and any window.                          *)
(***************************************************************************)
EXTENDS RequestAdmission, TLAPS

-----------------------------------------------------------------------------
(* Facts about the operators.                                              *)

LEMMA LimitType == \A u \in Units : Limit[u] \in Nat \ {0}
BY AdmissionAssumption DEF Limit, Units

LEMMA NewRowType == NewRow \in Rows
BY AdmissionAssumption DEF NewRow, Rows, NoneUsed, Units, Times

LEMMA NoCallType == NoCall \in Calls
BY DEF NoCall, Calls, Endpoints

\* What a consumption writes has the type of a row.
LEMMA ConsumedType ==
    ASSUME NEW row \in Rows, NEW c \in Times, NEW u \in Units
    PROVE  /\ UsedAt(row, c) \in [Units -> Nat]
           /\ Consumed(row, c, u) \in Rows
<1>1. UsedAt(row, c) \in [Units -> Nat]
  BY DEF UsedAt, NoneUsed, Rows
<1>2. [UsedAt(row, c) EXCEPT ![u] = @ + 1] \in [Units -> Nat]
  BY <1>1
<1>3. (IF Elapsed(row, c) THEN c ELSE row.started) \in Times
  BY DEF Rows
<1>. QED  BY <1>1, <1>2, <1>3 DEF Consumed, Rows

\* A full counter is one of a period that is not over.
LEMMA ExhaustedMeansUsed ==
    ASSUME NEW row \in Rows, NEW c \in Times, NEW u \in Units, Exhausted(row, c, u)
    PROVE  row.used[u] >= Limit[u]
BY LimitType DEF Exhausted, UsedAt, NoneUsed, Rows

\* A consumption that resets opens a later period.
LEMMA ConsumedPeriod ==
    ASSUME NEW row \in Rows, NEW c \in Times, NEW u \in Units
    PROVE  /\ Elapsed(row, c) => Consumed(row, c, u).started = c /\ c > row.started
           /\ ~ Elapsed(row, c) => Consumed(row, c, u).started = row.started
BY AdmissionAssumption DEF Consumed, Elapsed, Rows, Times

\* What a consumption writes, counter by counter.
LEMMA ConsumedCounter ==
    ASSUME NEW row \in Rows, NEW c \in Times, NEW u \in Units, NEW v \in Units
    PROVE  Consumed(row, c, u).used[v] =
               (IF Elapsed(row, c) THEN 0 ELSE row.used[v]) + (IF v = u THEN 1 ELSE 0)
<1>1. UsedAt(row, c) \in [Units -> Nat]
  BY ConsumedType
<1>2. UsedAt(row, c)[v] = IF Elapsed(row, c) THEN 0 ELSE row.used[v]
  BY DEF UsedAt, NoneUsed
<1>3. Consumed(row, c, u).used = [UsedAt(row, c) EXCEPT ![u] = @ + 1]
  BY DEF Consumed
<1>. QED  BY <1>1, <1>2, <1>3

\* After authentication: to the quotas with a tenant only.
LEMMA NextPoint ==
    ASSUME NEW c \in Calls
    PROVE  /\ AfterQuotas(c) \in {"gate", "handler"}
           /\ AfterAuthentication(c) \in {"select", "gate", "handler"}
           /\ AfterAuthentication(c) = "select" => c.tenant \in Tenants
           /\ AfterQuotas(c) = "handler" \/ AfterAuthentication(c) = "handler" =>
                  ~ (Production /\ c.endpoint # "read")
BY DEF AfterQuotas, AfterAuthentication, Calls

-----------------------------------------------------------------------------
(* Types.                                                                  *)

LEMMA LeaveType ==
    ASSUME TypeOK, NEW r \in Requests, Leave(r)
    PROVE  TypeOK'
BY NewRowType, NoCallType, AdmissionAssumption
   DEF TypeOK, Leave, Points, Units, Times

LEMMA TypeStep == TypeOK /\ [Next]_vars => TypeOK'
<1>. SUFFICES ASSUME TypeOK, [Next]_vars
              PROVE  TypeOK'
  OBVIOUS
<1>1. ASSUME NEW r \in Requests, Arrive(r) PROVE TypeOK'
  <2>1. PICK c \in Calls :
            /\ call' = [call EXCEPT ![r] = c]
            /\ pc' = [pc EXCEPT ![r] = AfterAuthentication(c)]
    BY <1>1 DEF Arrive
  <2>2. pc' \in [Requests -> Points]
    BY <2>1, NextPoint DEF TypeOK, Points
  <2>3. \A q \in Requests :
            pc'[q] \in {"select", "update", "denied"} => call'[q].tenant \in Tenants
    BY <2>1, NextPoint DEF TypeOK
  <2>4. arrived' \in 0..MaxArrivals
    BY <1>1, AdmissionAssumption DEF Arrive, TypeOK
  <2>. QED  BY <1>1, <2>1, <2>2, <2>3, <2>4 DEF Arrive, TypeOK
<1>2. ASSUME NEW r \in Requests, SelectQuota(r) PROVE TypeOK'
  BY <1>2 DEF SelectQuota, TypeOK, Points
<1>3. ASSUME NEW r \in Requests, SelectExhausted(r) PROVE TypeOK'
  BY <1>3 DEF SelectExhausted, TypeOK, Points
<1>4. ASSUME NEW r \in Requests, UpdateQuota(r) PROVE TypeOK'
  <2>. DEFINE t == call[r].tenant
  <2>1. t \in Tenants /\ unit[r] \in Units /\ clock[r] \in Times /\ seen[r] \in Rows
    BY <1>4 DEF UpdateQuota, TypeOK
  <2>2. WrittenRow(r) \in Rows /\ WrittenRow(r).started \in Times
    BY <2>1, ConsumedType DEF WrittenRow, Rows
  <2>3. quota' \in [Tenants -> Rows]
    BY <1>4, <2>2 DEF UpdateQuota, TypeOK
  <2>4. granted' \in [Tenants -> [Units -> [Times -> Nat]]]
    BY <1>4, <2>1, <2>2 DEF UpdateQuota, TypeOK
  <2>5. overlapped' \in [Tenants -> BOOLEAN]
    BY <1>4 DEF UpdateQuota, TypeOK
  <2>6. call[r] \in Calls
    BY DEF TypeOK
  <2>7. /\ pc' \in [Requests -> Points]
        /\ unit' \in [Requests -> Units]
        /\ clock' \in [Requests -> Times]
        /\ \A q \in Requests : pc'[q] \in {"select", "update", "denied"} =>
               call[q].tenant \in Tenants
    BY <1>4, <2>1, <2>6, NextPoint DEF UpdateQuota, TypeOK, Points, Units
  <2>. QED  BY <1>4, <2>3, <2>4, <2>5, <2>7 DEF UpdateQuota, TypeOK
<1>5. ASSUME NEW r \in Requests, PassGate(r) PROVE TypeOK'
  BY <1>5 DEF PassGate, TypeOK, Points
<1>6. ASSUME NEW a \in Approvals, CreateApproval(a) PROVE TypeOK'
  BY <1>6 DEF CreateApproval, TypeOK, ApprovalRows
<1>7. ASSUME NEW a \in Approvals, NEW decision \in {"approved", "rejected"},
             DecideApproval(a, decision)
      PROVE  TypeOK'
  <2>1. approval' \in [Approvals -> ApprovalRows]
    BY <1>7 DEF DecideApproval, TypeOK, ApprovalRows
  <2>. QED  BY <1>7, <2>1 DEF DecideApproval, TypeOK
<1>8. ASSUME NEW a \in Approvals, ApprovalExpires(a) PROVE TypeOK'
  <2>1. approval' \in [Approvals -> ApprovalRows]
    BY <1>8 DEF ApprovalExpires, TypeOK, ApprovalRows
  <2>. QED  BY <1>8, <2>1 DEF ApprovalExpires, TypeOK
<1>9. CASE Tick
  BY <1>9, AdmissionAssumption DEF Tick, TypeOK, Times
<1>10. CASE UNCHANGED vars
  BY <1>10 DEF vars, TypeOK
<1>. QED
  BY <1>1, <1>2, <1>3, <1>4, <1>5, <1>6, <1>7, <1>8, <1>9, <1>10, LeaveType
     DEF Next, AnswerDenied, RefuseAtGate, Answer, Die

(* Every variable keeps its type, and only requests of a tenant are at its *)
(* quotas.                                                                 *)
THEOREM TypeCorrect == Spec => []TypeOK
<1>1. Init => TypeOK
  BY NewRowType, NoCallType, AdmissionAssumption
     DEF Init, TypeOK, Times, Points, Units, ApprovalRows, NoApproval, Environments
<1>. QED  BY <1>1, TypeStep, PTL DEF Spec

-----------------------------------------------------------------------------
(* Quotas.                                                                 *)

\* A request that leaves has nothing in hand, the others what they had.
LEMMA LeaveEffect ==
    ASSUME TypeOK, NEW r \in Requests, Leave(r), NEW q \in Requests
    PROVE  /\ pc'[q] # "idle" => pc'[q] = pc[q] /\ q # r
           /\ q # r => /\ call'[q] = call[q] /\ unit'[q] = unit[q]
                       /\ clock'[q] = clock[q] /\ seen'[q] = seen[q]
BY DEF Leave, TypeOK

\* Counters in a row keep their backing: nothing is ever taken from granted.
LEMMA KeptBacked ==
    ASSUME TypeOK, NEW r \in Requests, UpdateQuota(r),
           NEW row \in Rows, NEW t \in Tenants, Backed(row, t)
    PROVE  \A u \in Units : row.used[u] <= granted'[t][u][row.started]
<1>1. WrittenRow(r).started \in Times /\ unit[r] \in Units /\ call[r].tenant \in Tenants
  BY ConsumedType DEF TypeOK, UpdateQuota, WrittenRow, Rows
<1>. SUFFICES ASSUME NEW u \in Units
              PROVE  row.used[u] <= granted'[t][u][row.started]
  OBVIOUS
<1>2. /\ granted[t][u][row.started] \in Nat /\ row.used[u] \in Nat
      /\ row.used[u] <= granted[t][u][row.started]
      /\ row.started \in Times
  BY DEF TypeOK, Rows, Backed
<1>3. granted'[t][u][row.started] \in {granted[t][u][row.started], granted[t][u][row.started] + 1}
  BY <1>1, <1>2 DEF UpdateQuota, TypeOK
<1>. QED  BY <1>2, <1>3

\* What an update writes is backed: by the grant itself and by what was read.
LEMMA UpdatedBacked ==
    ASSUME TypeOK, CountersBacked, NEW r \in Requests, UpdateQuota(r)
    PROVE  \A u \in Units :
               WrittenRow(r).used[u]
                   <= granted'[call[r].tenant][u][WrittenRow(r).started]
<1>. DEFINE t == call[r].tenant
            row == WrittenRow(r)
            k == row.started
<1>1. /\ t \in Tenants /\ unit[r] \in Units /\ clock[r] \in Times /\ seen[r] \in Rows
      /\ Backed(seen[r], t)
  BY DEF UpdateQuota, TypeOK, CountersBacked
<1>2. row \in Rows /\ k \in Times
  BY <1>1, ConsumedType DEF WrittenRow, Rows
<1>3. granted' = [granted EXCEPT ![t][unit[r]][k] = @ + 1]
  BY DEF UpdateQuota
<1>4. \A u \in Units : row.used[u] <= granted'[t][u][k]
  <2>. SUFFICES ASSUME NEW u \in Units
                PROVE  row.used[u] <= granted'[t][u][k]
    OBVIOUS
  <2>1. granted[t][u][k] \in Nat
    BY <1>1, <1>2 DEF TypeOK
  <2>2. granted'[t][u][k] = granted[t][u][k] + (IF u = unit[r] THEN 1 ELSE 0)
    BY <1>1, <1>2, <1>3 DEF TypeOK
  <2>3. row.used[u] = (IF Elapsed(seen[r], clock[r]) THEN 0 ELSE seen[r].used[u])
                          + (IF u = unit[r] THEN 1 ELSE 0)
    BY <1>1, ConsumedCounter DEF WrittenRow
  <2>4. CASE Elapsed(seen[r], clock[r])
    BY <2>1, <2>2, <2>3, <2>4
  <2>5. CASE ~ Elapsed(seen[r], clock[r])
    <3>1. k = seen[r].started
      BY <1>1, <2>5, ConsumedPeriod DEF WrittenRow
    <3>2. seen[r].used[u] \in Nat /\ seen[r].used[u] <= granted[t][u][k]
      BY <1>1, <3>1 DEF Backed, Rows
    <3>. QED  BY <2>1, <2>2, <2>3, <2>5, <3>2
  <2>. QED  BY <2>4, <2>5
<1>. QED  BY <1>4

LEMMA BackedStep == TypeOK /\ CountersBacked /\ [Next]_vars => CountersBacked'
<1>. SUFFICES ASSUME TypeOK, CountersBacked, [Next]_vars
              PROVE  CountersBacked'
  OBVIOUS
<1>1. ASSUME NEW r \in Requests, Arrive(r) PROVE CountersBacked'
  <2>1. \A q \in Requests :
            pc'[q] \in {"update", "denied"} => pc'[q] = pc[q] /\ q # r
    BY <1>1, NextPoint DEF Arrive, TypeOK
  <2>. QED  BY <1>1, <2>1 DEF Arrive, CountersBacked, Backed, TypeOK
<1>2. ASSUME NEW r \in Requests, SelectQuota(r) PROVE CountersBacked'
  <2>1. call[r].tenant \in Tenants
    BY <1>2 DEF SelectQuota, TypeOK
  <2>. QED  BY <1>2, <2>1 DEF SelectQuota, CountersBacked, Backed, TypeOK
<1>3. ASSUME NEW r \in Requests, SelectExhausted(r) PROVE CountersBacked'
  <2>1. /\ call[r].tenant \in Tenants /\ quota[call[r].tenant] \in Rows
        /\ clock[r] \in Times /\ unit[r] \in Units
    BY <1>3 DEF SelectExhausted, TypeOK
  <2>2. quota[call[r].tenant].used[unit[r]] >= Limit[unit[r]]
    BY <1>3, <2>1, ExhaustedMeansUsed DEF SelectExhausted
  <2>. QED  BY <1>3, <2>1, <2>2 DEF SelectExhausted, CountersBacked, Backed, TypeOK
<1>4. ASSUME NEW r \in Requests, UpdateQuota(r) PROVE CountersBacked'
  <2>1. \A t \in Tenants : Backed(quota[t], t)'
    <3>. SUFFICES ASSUME NEW t \in Tenants PROVE Backed(quota[t], t)'
      OBVIOUS
    <3>1. CASE t = call[r].tenant
      <4>1. quota'[t] = WrittenRow(r)
        BY <1>4, <3>1 DEF UpdateQuota, TypeOK
      <4>2. \A u \in Units : WrittenRow(r).used[u] <= granted'[t][u][WrittenRow(r).started]
        BY <1>4, <3>1, UpdatedBacked
      <4>. QED  BY <4>1, <4>2 DEF Backed
    <3>2. CASE t # call[r].tenant
      <4>1. quota'[t] = quota[t] /\ granted'[t] = granted[t]
        BY <1>4, <3>2 DEF UpdateQuota, TypeOK
      <4>. QED  BY <4>1 DEF Backed, CountersBacked
    <3>. QED  BY <3>1, <3>2
  <2>2. ASSUME NEW q \in Requests
        PROVE  /\ pc'[q] \in {"update", "denied"} => Backed(seen[q], call[q].tenant)'
               /\ pc'[q] = "denied" => seen'[q].used[unit'[q]] >= Limit[unit'[q]]
               /\ pc'[q] = "update" => ~ Exhausted(seen'[q], clock'[q], unit'[q])
    <3>1. pc'[q] \in {"update", "denied"} =>
              /\ pc'[q] = pc[q] /\ unit'[q] = unit[q] /\ clock'[q] = clock[q]
      BY <1>4, NextPoint DEF UpdateQuota, TypeOK
    <3>2. seen'[q] = seen[q] /\ call'[q] = call[q]
      BY <1>4 DEF UpdateQuota
    <3>3. ASSUME pc'[q] \in {"update", "denied"}
          PROVE  \A u \in Units :
                     seen[q].used[u] <= granted'[call[q].tenant][u][seen[q].started]
      BY <1>4, <3>1, <3>3, KeptBacked DEF CountersBacked, TypeOK
    <3>. QED  BY <3>1, <3>2, <3>3 DEF CountersBacked, Backed
  <2>. QED  BY <2>1, <2>2 DEF CountersBacked
<1>5. ASSUME NEW r \in Requests, Leave(r) PROVE CountersBacked'
  BY <1>5, LeaveEffect DEF Leave, CountersBacked, Backed
<1>6. ASSUME NEW r \in Requests, PassGate(r) PROVE CountersBacked'
  BY <1>6 DEF PassGate, CountersBacked, Backed, TypeOK
<1>7. CASE \E a \in Approvals :
              \/ CreateApproval(a) \/ ApprovalExpires(a)
              \/ \E decision \in {"approved", "rejected"} : DecideApproval(a, decision)
  BY <1>7 DEF CreateApproval, ApprovalExpires, DecideApproval, CountersBacked, Backed
<1>8. CASE Tick
  BY <1>8 DEF Tick, CountersBacked, Backed
<1>9. CASE UNCHANGED vars
  BY <1>9 DEF vars, CountersBacked, Backed
<1>. QED
  BY <1>1, <1>2, <1>3, <1>4, <1>5, <1>6, <1>7, <1>8, <1>9
     DEF Next, AnswerDenied, RefuseAtGate, Answer, Die

(* No tenant is told its quota is exhausted before it has been granted all *)
(* of it in that period, however requests overlap.                         *)
THEOREM DenialsAreEarned == Spec => []NoEarlyDenial
<1>1. Init => CountersBacked
  <2>. SUFFICES ASSUME Init PROVE CountersBacked
    OBVIOUS
  <2>1. 0 \in Times
    BY AdmissionAssumption DEF Times
  <2>2. \A t \in Tenants : Backed(quota[t], t)
    BY <2>1 DEF Init, Backed, NewRow, NoneUsed
  <2>3. \A r \in Requests : pc[r] = "idle"
    BY DEF Init
  <2>. QED  BY <2>2, <2>3 DEF CountersBacked
<1>2. TypeOK /\ CountersBacked => NoEarlyDenial
  <2>. SUFFICES ASSUME TypeOK, CountersBacked, NEW r \in Requests, pc[r] = "denied"
                PROVE  granted[call[r].tenant][unit[r]][seen[r].started] >= Limit[unit[r]]
    BY DEF NoEarlyDenial
  <2>1. /\ unit[r] \in Units /\ call[r].tenant \in Tenants
        /\ seen[r].started \in Times /\ seen[r].used[unit[r]] \in Nat
    BY DEF TypeOK, Rows
  <2>2. /\ seen[r].used[unit[r]] <= granted[call[r].tenant][unit[r]][seen[r].started]
        /\ seen[r].used[unit[r]] >= Limit[unit[r]]
    BY <2>1 DEF CountersBacked, Backed
  <2>3. granted[call[r].tenant][unit[r]][seen[r].started] \in Nat
    BY <2>1 DEF TypeOK
  <2>. QED  BY <2>1, <2>2, <2>3, LimitType
<1>. QED  BY <1>1, <1>2, TypeCorrect, BackedStep, PTL DEF Spec

-----------------------------------------------------------------------------
(* Quotas without overlap.                                                 *)

\* An update of a row nobody has changed since it was read keeps the count.
LEMMA UpdateExact ==
    ASSUME TypeOK, CountersBacked, NEW r \in Requests, UpdateQuota(r),
           Exact(call[r].tenant), quota[call[r].tenant] = seen[r]
    PROVE  \A u \in Units :
               /\ granted'[call[r].tenant][u][WrittenRow(r).started] = WrittenRow(r).used[u]
               /\ \A k \in Times :
                     /\ granted'[call[r].tenant][u][k] <= Limit[u]
                     /\ k > WrittenRow(r).started => granted'[call[r].tenant][u][k] = 0
<1>. DEFINE t == call[r].tenant
            row == WrittenRow(r)
            s == row.started
<1>1. /\ t \in Tenants /\ unit[r] \in Units /\ clock[r] \in Times /\ seen[r] \in Rows
      /\ seen[r].started \in Times
  BY DEF UpdateQuota, TypeOK, Rows
<1>2. row \in Rows /\ s \in Times /\ s >= seen[r].started
  <2>1. row \in Rows /\ s \in Times
    BY <1>1, ConsumedType DEF WrittenRow, Rows
  <2>. QED  BY <1>1, <2>1, ConsumedPeriod DEF WrittenRow, Times
<1>. SUFFICES ASSUME NEW u \in Units
              PROVE  /\ granted'[t][u][s] = row.used[u]
                     /\ \A k \in Times :
                           /\ granted'[t][u][k] <= Limit[u]
                           /\ k > s => granted'[t][u][k] = 0
  OBVIOUS
<1>3. \A k \in Times :
          granted'[t][u][k] =
              IF u = unit[r] /\ k = s THEN granted[t][u][k] + 1 ELSE granted[t][u][k]
  BY <1>1, <1>2 DEF UpdateQuota, TypeOK
<1>4. \A k \in Times : granted[t][u][k] \in Nat
  BY <1>1 DEF TypeOK
<1>5. /\ granted[t][u][seen[r].started] = seen[r].used[u]
      /\ \A k \in Times : /\ granted[t][u][k] <= Limit[u]
                          /\ k > seen[r].started => granted[t][u][k] = 0
  BY DEF Exact
<1>6. row.used[u] = (IF Elapsed(seen[r], clock[r]) THEN 0 ELSE seen[r].used[u])
                        + (IF u = unit[r] THEN 1 ELSE 0)
  BY <1>1, ConsumedCounter DEF WrittenRow
<1>7. granted[t][u][s] = IF Elapsed(seen[r], clock[r]) THEN 0 ELSE seen[r].used[u]
  BY <1>1, <1>5, ConsumedPeriod DEF WrittenRow
<1>8. u = unit[r] => granted[t][u][s] + 1 <= Limit[u]
  <2>. SUFFICES ASSUME u = unit[r] PROVE granted[t][u][s] + 1 <= Limit[u]
    OBVIOUS
  <2>1. ~ UsedAt(seen[r], clock[r])[u] >= Limit[u]
    BY DEF CountersBacked, UpdateQuota, Exhausted
  <2>2. UsedAt(seen[r], clock[r])[u] = granted[t][u][s]
    BY <1>7 DEF UsedAt, NoneUsed
  <2>. QED  BY <1>2, <1>4, <2>1, <2>2, LimitType
<1>9. granted'[t][u][s] = row.used[u]
  BY <1>2, <1>3, <1>4, <1>6, <1>7
<1>10. ASSUME NEW k \in Times PROVE granted'[t][u][k] <= Limit[u]
  BY <1>3, <1>5, <1>8
<1>11. ASSUME NEW k \in Times, k > s PROVE granted'[t][u][k] = 0
  <2>1. k > seen[r].started /\ k # s
    BY <1>1, <1>2, <1>11 DEF Times
  <2>. QED  BY <1>3, <1>5, <2>1
<1>. QED  BY <1>9, <1>10, <1>11

LEMMA ExactStep ==
    TypeOK /\ CountersBacked /\ CountersExact /\ [Next]_vars => CountersExact'
<1>. SUFFICES ASSUME TypeOK, CountersBacked, CountersExact, [Next]_vars
              PROVE  CountersExact'
  OBVIOUS
<1>1. ASSUME NEW r \in Requests, UpdateQuota(r) PROVE CountersExact'
  <2>. SUFFICES ASSUME NEW t \in Tenants, ~ overlapped'[t]
                PROVE  Exact(t)'
    BY DEF CountersExact
  <2>1. CASE t = call[r].tenant
    <3>1. ~ overlapped[t] /\ quota[t] = seen[r]
      BY <1>1, <2>1 DEF UpdateQuota, TypeOK
    <3>2. quota'[t] = WrittenRow(r)
      BY <1>1, <2>1 DEF UpdateQuota, TypeOK
    <3>. QED  BY <1>1, <2>1, <3>1, <3>2, UpdateExact DEF CountersExact, Exact
  <2>2. CASE t # call[r].tenant
    <3>1. /\ quota'[t] = quota[t] /\ granted'[t] = granted[t]
          /\ overlapped'[t] = overlapped[t]
      BY <1>1, <2>2 DEF UpdateQuota, TypeOK
    <3>. QED  BY <3>1 DEF CountersExact, Exact
  <2>. QED  BY <2>1, <2>2
<1>2. CASE UNCHANGED <<quota, granted, overlapped>>
  BY <1>2 DEF CountersExact, Exact
<1>3. (\E r \in Requests : UpdateQuota(r)) \/ UNCHANGED <<quota, granted, overlapped>>
  BY DEF Next, vars, Arrive, SelectQuota, SelectExhausted, AnswerDenied, PassGate,
         RefuseAtGate, Answer, Die, Leave, CreateApproval, DecideApproval,
         ApprovalExpires, Tick
<1>. QED  BY <1>1, <1>2, <1>3

(* As long as no update has overwritten a row changed since it was read, a *)
(* tenant is granted at most its limit of requests and of workflows in     *)
(* each period.                                                            *)
THEOREM QuotasHoldAlone == Spec => []QuotaHoldsAlone
<1>1. Init => CountersBacked /\ CountersExact
  <2>. SUFFICES ASSUME Init PROVE CountersBacked /\ CountersExact
    OBVIOUS
  <2>1. 0 \in Times
    BY AdmissionAssumption DEF Times
  <2>2. \A t \in Tenants : Backed(quota[t], t)
    BY <2>1 DEF Init, Backed, NewRow, NoneUsed
  <2>3. \A r \in Requests : pc[r] = "idle"
    BY DEF Init
  <2>4. ASSUME NEW t \in Tenants PROVE Exact(t)
    BY <2>1, LimitType DEF Init, Exact, NewRow, NoneUsed
  <2>. QED  BY <2>2, <2>3, <2>4 DEF CountersBacked, CountersExact
<1>2. CountersExact => QuotaHoldsAlone
  BY DEF CountersExact, Exact, QuotaHoldsAlone
<1>. QED  BY <1>1, <1>2, TypeCorrect, BackedStep, ExactStep, PTL DEF Spec

-----------------------------------------------------------------------------
(* The release gate.                                                       *)

LEMMA ReleaseStep ==
    TypeOK /\ ApprovalsInOrder /\ RunsAreReleased /\ [Next]_vars
        => ApprovalsInOrder' /\ RunsAreReleased'
<1>. SUFFICES ASSUME TypeOK, ApprovalsInOrder, RunsAreReleased, [Next]_vars
              PROVE  ApprovalsInOrder' /\ RunsAreReleased'
  OBVIOUS
<1>1. ASSUME NEW r \in Requests, Arrive(r) PROVE ApprovalsInOrder' /\ RunsAreReleased'
  <2>1. PICK c \in Calls :
            /\ call' = [call EXCEPT ![r] = c]
            /\ pc' = [pc EXCEPT ![r] = AfterAuthentication(c)]
    BY <1>1 DEF Arrive
  <2>2. RunsAreReleased'
    BY <1>1, <2>1, NextPoint DEF Arrive, RunsAreReleased, TypeOK
  <2>. QED  BY <1>1, <2>2 DEF Arrive, ApprovalsInOrder
<1>2. ASSUME NEW r \in Requests, UpdateQuota(r)
      PROVE  ApprovalsInOrder' /\ RunsAreReleased'
  <2>1. call[r] \in Calls
    BY DEF TypeOK
  <2>2. RunsAreReleased'
    BY <1>2, <2>1, NextPoint DEF UpdateQuota, RunsAreReleased, TypeOK
  <2>. QED  BY <1>2, <2>2 DEF UpdateQuota, ApprovalsInOrder
<1>3. ASSUME NEW r \in Requests, PassGate(r)
      PROVE  ApprovalsInOrder' /\ RunsAreReleased'
  <2>1. /\ call[r].header \in endorsed
        /\ approval[call[r].header].environment = "production"
        /\ call[r].tenant # NoTenant => approval[call[r].header].tenant = call[r].tenant
    BY <1>3 DEF PassGate, Valid, ApprovalsInOrder, TypeOK, Calls
  <2>2. RunsAreReleased'
    BY <1>3, <2>1 DEF PassGate, RunsAreReleased, TypeOK
  <2>. QED  BY <1>3, <2>2 DEF PassGate, ApprovalsInOrder
<1>4. ASSUME NEW r \in Requests, Leave(r) PROVE ApprovalsInOrder' /\ RunsAreReleased'
  <2>1. ASSUME NEW q \in Requests, pc'[q] = "handler"
        PROVE  pc[q] = "handler" /\ call'[q] = call[q]
    BY <1>4, <2>1, LeaveEffect
  <2>2. UNCHANGED <<approval, endorsed>>
    BY <1>4 DEF Leave
  <2>3. RunsAreReleased'
    BY <2>1, <2>2 DEF RunsAreReleased
  <2>. QED  BY <2>2, <2>3 DEF ApprovalsInOrder
<1>5. ASSUME NEW r \in Requests, SelectQuota(r) \/ SelectExhausted(r)
      PROVE  ApprovalsInOrder' /\ RunsAreReleased'
  BY <1>5 DEF SelectQuota, SelectExhausted, ApprovalsInOrder, RunsAreReleased, TypeOK
<1>6. ASSUME NEW a \in Approvals, CreateApproval(a)
      PROVE  ApprovalsInOrder' /\ RunsAreReleased'
  <2>1. a \notin endorsed
    BY <1>6 DEF CreateApproval, ApprovalsInOrder
  <2>2. \A b \in Approvals : b # a => approval'[b] = approval[b]
    BY <1>6 DEF CreateApproval, TypeOK
  <2>3. approval'[a].status = "pending"
    BY <1>6 DEF CreateApproval, TypeOK
  <2>4. ApprovalsInOrder'
    BY <1>6, <2>1, <2>2, <2>3 DEF CreateApproval, ApprovalsInOrder, TypeOK
  <2>5. RunsAreReleased'
    BY <1>6, <2>1, <2>2 DEF CreateApproval, RunsAreReleased, TypeOK
  <2>. QED  BY <2>4, <2>5
<1>7. ASSUME NEW a \in Approvals, NEW decision \in {"approved", "rejected"},
             DecideApproval(a, decision)
      PROVE  ApprovalsInOrder' /\ RunsAreReleased'
  <2>1. \A b \in Approvals :
            /\ approval'[b].tenant = approval[b].tenant
            /\ approval'[b].environment = approval[b].environment
            /\ approval'[b].status = IF b = a THEN decision ELSE approval[b].status
    BY <1>7 DEF DecideApproval, TypeOK, ApprovalRows
  <2>2. /\ endorsed \subseteq endorsed' /\ endorsed \subseteq Approvals
        /\ endorsed' \subseteq endorsed \cup {a}
        /\ decision = "approved" => a \in endorsed'
    BY <1>7 DEF DecideApproval, TypeOK
  <2>3. ApprovalsInOrder'
    BY <2>1, <2>2 DEF ApprovalsInOrder
  <2>4. RunsAreReleased'
    BY <1>7, <2>1, <2>2 DEF DecideApproval, RunsAreReleased
  <2>. QED  BY <2>3, <2>4
<1>8. ASSUME NEW a \in Approvals, ApprovalExpires(a)
      PROVE  ApprovalsInOrder' /\ RunsAreReleased'
  <2>1. \A b \in Approvals :
            /\ approval'[b].tenant = approval[b].tenant
            /\ approval'[b].environment = approval[b].environment
            /\ approval'[b].status = approval[b].status
    BY <1>8 DEF ApprovalExpires, TypeOK, ApprovalRows
  <2>. QED
    BY <1>8, <2>1 DEF ApprovalExpires, ApprovalsInOrder, RunsAreReleased, TypeOK
<1>9. CASE Tick
  BY <1>9 DEF Tick, ApprovalsInOrder, RunsAreReleased
<1>10. CASE UNCHANGED vars
  BY <1>10 DEF vars, ApprovalsInOrder, RunsAreReleased
<1>. QED
  BY <1>1, <1>2, <1>3, <1>4, <1>5, <1>6, <1>7, <1>8, <1>9, <1>10
     DEF Next, AnswerDenied, RefuseAtGate, Answer, Die

(* In production mode a run or a resumption under way has shown an         *)
(* approval somebody approved for production and for its tenant.           *)
THEOREM GateHolds == Spec => []RunsAreReleased
<1>1. Init => ApprovalsInOrder /\ RunsAreReleased
  BY DEF Init, ApprovalsInOrder, RunsAreReleased, NoApproval
<1>. QED  BY <1>1, TypeCorrect, ReleaseStep, PTL DEF Spec
=============================================================================
