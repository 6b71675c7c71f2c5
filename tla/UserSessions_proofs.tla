------------------------- MODULE UserSessions_proofs -------------------------
(***************************************************************************)
(* Proofs about UserSessions, for any number of tenants, users, sessions,  *)
(* keys and requests.                                                      *)
(***************************************************************************)
EXTENDS UserSessions, TLAPS

\* A request moves on.
LEMMA StageMoves ==
    ASSUME TypeOK, NEW o \in Ops, NEW stage \in Stages, Reaches(o, stage)
    PROVE  /\ op'[o] = [op[o] EXCEPT !.stage = stage]
           /\ op'[o].stage = stage
           /\ \A q \in Ops : /\ q # o => op'[q] = op[q]
                             /\ op'[q].kind = op[q].kind
                             /\ op'[q].target = op[q].target
                             /\ op'[q].tenant = op[q].tenant
                             /\ op'[q].mark = op[q].mark
                             /\ op'[q].stage = IF q = o THEN stage ELSE op[q].stage
           /\ op' \in [Ops -> [stage : Stages, kind : Kinds, target : Targets,
                               tenant : Tenants, mark : Nat]]
<1>1. op[o] \in [stage : Stages, kind : Kinds, target : Targets,
                 tenant : Tenants, mark : Nat]
  BY DEF TypeOK
<1>2. op' = [op EXCEPT ![o] = [op[o] EXCEPT !.stage = stage]]
  BY DEF Reaches
<1>. QED  BY <1>1, <1>2 DEF TypeOK

\* The kinds of request there are, told apart.
LEMMA KindsAndTargets ==
    ASSUME TypeOK, NEW o \in Ops
    PROVE  /\ op[o].kind \in UserKinds \cup {"createUser"} => op[o].target \in Users
           /\ op[o].kind \in {"endSession", "logout"} => op[o].target \in Sessions
           /\ op[o].kind \in {"revokeKey", "issueKey"} => op[o].target \in Keys
  BY DEF TypeOK

LEMMA SomeUserType == SomeUser \in Users
  BY SessionsAssumption DEF SomeUser

-----------------------------------------------------------------------------
(* Every variable keeps its type.                                          *)
THEOREM TypeCorrect == Spec => []TypeOK
<1>1. Init => TypeOK
  BY SomeUserType, SessionsAssumption
  DEF Init, TypeOK, Roles, Statuses, SessionStates, KeyStates, Stages, Kinds, TenantKinds, UserKinds, Targets
<1>2. TypeOK /\ [Next]_vars => TypeOK'
  <2>. SUFFICES ASSUME TypeOK, [Next]_vars PROVE TypeOK'
    OBVIOUS
  <2>1. ASSUME NEW x \in Sessions, NEW u \in Users, NEW p \in Passwords, Verify(x, u, p)
        PROVE  TypeOK'
    BY <2>1 DEF Verify, TypeOK, SessionStates
  <2>2. ASSUME NEW x \in Sessions, Open(x) \/ LoginDies(x) \/ SessionExpires(x)
        PROVE  TypeOK'
    <3>1. PICK state \in SessionStates : session' = [session EXCEPT ![x].state = state]
      BY <2>2 DEF Open, LoginDies, SessionExpires, SessionStates
    <3>2. session' \in [Sessions -> [state : SessionStates, user : Users, epoch : Nat]]
      BY <3>1 DEF TypeOK
    <3>3. deaths' \in 0..MaxDeaths /\ late' \subseteq Sessions
      BY <2>2, SessionsAssumption DEF Open, LoginDies, SessionExpires, TypeOK
    <3>4. UNCHANGED <<user, key, op, epoch>>
      BY <2>2 DEF Open, LoginDies, SessionExpires
    <3>. QED  BY <3>2, <3>3, <3>4 DEF TypeOK
  <2>3. ASSUME NEW o \in Ops, NEW kind \in Kinds, NEW target \in Targets,
               NEW t \in Tenants, Admitted(o, kind, target, t),
               kind \in UserKinds \cup {"createUser"} => target \in Users,
               kind \in {"endSession", "logout"} => target \in Sessions,
               kind \in {"revokeKey", "issueKey"} => target \in Keys
        PROVE  TypeOK'
    BY <2>3 DEF Admitted, TypeOK, Stages
  <2>4. ASSUME NEW o \in Ops, NEW x \in Sessions, AdmitLogout(o, x) PROVE TypeOK'
    <3>1. TenantOf[session[x].user] \in Tenants
      BY SessionsAssumption DEF TypeOK
    <3>. QED  BY <2>3, <2>4, <3>1 DEF AdmitLogout, Targets, Kinds, UserKinds
  <2>14. ASSUME NEW o \in Ops, NEW t \in Tenants, AdmitTenant(o, t) PROVE TypeOK'
    BY <2>3, <2>14 DEF AdmitTenant, Targets, Kinds, TenantKinds, UserKinds
  <2>15. ASSUME NEW k \in Keys, KeyExpires(k) PROVE TypeOK'
    BY <2>15 DEF KeyExpires, TypeOK, KeyStates
  <2>5. ASSUME NEW o \in Ops, AdmitPlatform(o) PROVE TypeOK'
    BY <2>3, <2>5, SessionsAssumption
    DEF AdmitPlatform, Targets, Kinds, PlatformKinds, UserKinds
  <2>6. ASSUME NEW o \in Ops, NEW stage \in Stages, Reaches(o, stage),
               user' \in [Users -> [status : Statuses, password : Passwords,
                                    role : Roles]],
               session' \in [Sessions -> [state : SessionStates, user : Users, epoch : Nat]],
               key' \in [Keys -> KeyStates],
               deaths' \in 0..MaxDeaths, UNCHANGED <<epoch, late>>
        PROVE  TypeOK'
    BY <2>6, StageMoves DEF TypeOK
  <2>7. ASSUME NEW S, session' = Revoked(S)
        PROVE  session' \in [Sessions -> [state : SessionStates, user : Users, epoch : Nat]]
    BY <2>7 DEF Revoked, TypeOK, SessionStates
  <2>8. ASSUME NEW o \in Ops, Reject(o) \/ Log(o) \/ OpDies(o) PROVE TypeOK'
    <3>1. PICK stage \in Stages : Reaches(o, stage)
      BY <2>8 DEF Reject, Log, OpDies, Stages
    <3>2. deaths' \in 0..MaxDeaths
      BY <2>8, SessionsAssumption DEF Reject, Log, OpDies, TypeOK
    <3>. QED  BY <2>6, <2>8, <3>1, <3>2 DEF Reject, Log, OpDies, TypeOK
  <2>9. ASSUME NEW o \in Ops, RevokeSessions(o) \/ EndSession(o) PROVE TypeOK'
    BY <2>6, <2>7, <2>9 DEF RevokeSessions, EndSession, TypeOK, Stages
  <2>10. ASSUME NEW o \in Ops, UpdateUser(o) \/ CreateUser(o) PROVE TypeOK'
    <3>1. user' \in [Users -> [status : Statuses, password : Passwords, role : Roles]]
      <4>1. op[o].target \in Users
        BY <2>10, KindsAndTargets DEF UpdateUser, CreateUser, Is, UserKinds
      <4>2. CASE CreateUser(o)
        <5>1. PICK p \in Passwords, r \in Roles :
                  user' = [user EXCEPT ![op[o].target] =
                              [status |-> "active", password |-> p, role |-> r]]
          BY <4>2 DEF CreateUser
        <5>. QED  BY <4>1, <5>1 DEF TypeOK, Statuses
      <4>3. CASE UpdateUser(o) /\ op[o].kind = "activate"
        BY <4>1, <4>3 DEF UpdateUser, TypeOK, Statuses
      <4>4. CASE UpdateUser(o) /\ op[o].kind # "activate"
        <5>1. PICK r \in Roles : user' = [user EXCEPT ![op[o].target].role = r]
          BY <4>4 DEF UpdateUser
        <5>. QED  BY <4>1, <5>1 DEF TypeOK
      <4>. QED  BY <2>10, <4>2, <4>3, <4>4
    <3>. QED  BY <2>6, <2>10, <3>1 DEF UpdateUser, CreateUser, TypeOK, Stages
  <2>11. ASSUME NEW o \in Ops, RevokeKey(o) \/ IssueKey(o) PROVE TypeOK'
    BY <2>6, <2>11 DEF RevokeKey, IssueKey, TypeOK, KeyStates, Stages
  <2>12. ASSUME NEW o \in Ops, Change(o) PROVE TypeOK'
    <3>1. op[o].target \in Users
      BY <2>12, KindsAndTargets DEF Change, Is, UserKinds
    <3>2. epoch' \in [Users -> Nat]
      BY <2>12, <3>1 DEF Change, TypeOK
    <3>3. user' \in [Users -> [status : Statuses, password : Passwords, role : Roles]]
      <4>1. CASE op[o].kind = "suspend"
        BY <2>12, <3>1, <4>1 DEF Change, TypeOK, Statuses
      <4>2. CASE op[o].kind # "suspend"
        <5>1. PICK p \in Passwords : user' = [user EXCEPT ![op[o].target].password = p]
          BY <2>12, <4>2 DEF Change
        <5>. QED  BY <3>1, <5>1 DEF TypeOK
      <4>. QED  BY <4>1, <4>2
    <3>4. /\ op' \in [Ops -> [stage : Stages, kind : Kinds, target : Targets,
                               tenant : Tenants, mark : Nat]]
          /\ \A q \in Ops : op'[q].kind = op[q].kind /\ op'[q].target = op[q].target
      <4>1. epoch'[op[o].target] \in Nat
        BY <3>1, <3>2
      <4>2. op' = [op EXCEPT ![o].stage = "changed", ![o].mark = epoch'[op[o].target]]
        BY <2>12 DEF Change, AfterChange
      <4>. QED  BY <4>1, <4>2 DEF TypeOK, Stages
    <3>. QED  BY <2>12, <3>2, <3>3, <3>4 DEF Change, TypeOK
  <2>13. CASE UNCHANGED vars
    BY <2>13 DEF vars, TypeOK
  <2>. QED
    BY <2>1, <2>2, <2>4, <2>5, <2>8, <2>9, <2>10, <2>11, <2>12, <2>13, <2>14, <2>15
    DEF Next
<1>. QED  BY <1>1, <1>2, PTL DEF Spec

-----------------------------------------------------------------------------
(* Suspensions and resets.                                                 *)

SInv == ChangedOwn /\ MarksSeen /\ SettledHold

\* Only opening a session makes one live, and only verifying gives it a user.
LEMMA SessionsOnlyEnd ==
    ASSUME TypeOK, NEW o \in Ops, NEW S, session' = session \/ session' = Revoked(S)
    PROVE  \A x \in Sessions :
              /\ session'[x].state = "live" =>
                     \/ session[x].state = "live" /\ x \notin S
                     \/ session' = session
              /\ session'[x].user = session[x].user
              /\ session'[x].epoch = session[x].epoch
<1>1. \A x \in Sessions :
          session[x] \in [state : SessionStates, user : Users, epoch : Nat]
  BY DEF TypeOK
<1>. QED  BY <1>1 DEF Revoked

(* Whatever requests and logins interleave and whoever dies, a logged      *)
(* suspension or reset has ended the sessions from before it               *)
(* (routes.py:313-328, store.py:867-883), and no login that started after  *)
(* the change brings one back.                                             *)
THEOREM SuspensionsEndSessions == Spec => []SuspensionsHold
<1>1. Init => SInv
  BY DEF Init, SInv, ChangedOwn, MarksSeen, SettledHold
<1>2. TypeOK /\ SInv /\ [Next]_vars => SInv'
  <2>. SUFFICES ASSUME TypeOK, SInv, [Next]_vars PROVE SInv'
    OBVIOUS
  <2>. USE DEF SInv
  <2>1. ASSUME NEW x \in Sessions, NEW u \in Users, NEW p \in Passwords, Verify(x, u, p)
        PROVE  SInv'
    <3>1. UNCHANGED <<op, epoch, late>>
      BY <2>1 DEF Verify
    <3>2. \A y \in Sessions : session'[y].state = "live" => session'[y] = session[y]
      BY <2>1 DEF Verify, TypeOK
    <3>. QED  BY <3>1, <3>2 DEF ChangedOwn, MarksSeen, SettledHold
  <2>2. ASSUME NEW x \in Sessions, LoginDies(x) \/ SessionExpires(x) PROVE SInv'
    <3>1. UNCHANGED <<op, epoch, late>>
      BY <2>2 DEF LoginDies, SessionExpires
    <3>2. \A y \in Sessions : session'[y].state = "live" => session'[y] = session[y]
      BY <2>2 DEF LoginDies, SessionExpires, TypeOK
    <3>. QED  BY <3>1, <3>2 DEF ChangedOwn, MarksSeen, SettledHold
  <2>3. ASSUME NEW x \in Sessions, Open(x) PROVE SInv'
    <3>1. UNCHANGED <<op, epoch>> /\ late \subseteq late'
      BY <2>3 DEF Open
    <3>2. ChangedOwn' /\ MarksSeen'
      BY <3>1 DEF ChangedOwn, MarksSeen
    <3>3. ASSUME NEW o \in Ops, op[o].stage \in {"settled", "logged"},
                 op[o].kind \in {"suspend", "reset"}, NEW y \in Sessions,
                 session'[y].state = "live", session'[y].user = op[o].target, y \notin late'
          PROVE  session'[y].epoch >= op[o].mark
      <4>1. session'[y].user = session[y].user /\ session'[y].epoch = session[y].epoch
        BY <2>3 DEF Open, TypeOK
      <4>2. CASE y = x
        <5>1. session[x].epoch = epoch[session[x].user]
          BY <2>3, <3>3, <4>2 DEF Open
        <5>2. op[o].mark <= epoch[op[o].target]
          BY <3>3 DEF MarksSeen
        <5>3. op[o].mark \in Nat /\ session[x].epoch \in Nat
          BY DEF TypeOK
        <5>. QED  BY <3>3, <4>1, <4>2, <5>1, <5>2, <5>3
      <4>3. CASE y # x
        <5>1. session'[y] = session[y]
          BY <2>3, <4>3 DEF Open, TypeOK
        <5>. QED  BY <3>1, <3>3, <5>1 DEF SettledHold
      <4>. QED  BY <4>2, <4>3
    <3>. QED  BY <3>1, <3>2, <3>3 DEF SettledHold
  <2>4. ASSUME NEW o \in Ops, NEW kind \in Kinds, NEW target \in Targets,
               NEW t \in Tenants, Admitted(o, kind, target, t)
        PROVE  SInv'
    <3>1. UNCHANGED <<session, epoch, late>> /\ op'[o].stage = "admitted"
          /\ \A q \in Ops : q # o => op'[q] = op[q]
      BY <2>4 DEF Admitted, TypeOK
    <3>. QED  BY <3>1 DEF ChangedOwn, MarksSeen, SettledHold
  <2>5. ASSUME NEW o \in Ops, NEW x \in Sessions, AdmitLogout(o, x) PROVE SInv'
    <3>1. TenantOf[session[x].user] \in Tenants
      BY SessionsAssumption DEF TypeOK
    <3>. QED  BY <2>4, <2>5, <3>1 DEF AdmitLogout, Targets, Kinds
  <2>14. ASSUME NEW o \in Ops, NEW t \in Tenants, AdmitTenant(o, t) PROVE SInv'
    BY <2>4, <2>14 DEF AdmitTenant, Targets, Kinds, TenantKinds, UserKinds
  <2>15. ASSUME NEW k \in Keys, KeyExpires(k) PROVE SInv'
    BY <2>15 DEF KeyExpires, ChangedOwn, MarksSeen, SettledHold
  <2>6. ASSUME NEW o \in Ops, AdmitPlatform(o) PROVE SInv'
    BY <2>4, <2>6, SessionsAssumption DEF AdmitPlatform, Targets, Kinds, PlatformKinds
  <2>7. ASSUME NEW o \in Ops, NEW stage \in Stages, NEW S, Reaches(o, stage),
               session' = session \/ session' = Revoked(S), UNCHANGED <<epoch, late>>,
               stage # "changed",
               /\ stage \in {"settled", "logged"}
               /\ op[o].kind \in {"suspend", "reset"}
               => \/ op[o].stage = "settled"
                  \/ /\ op[o].stage = "changed" /\ session' = Revoked(S)
                     /\ \A x \in Sessions :
                           session[x].state = "live" /\ session[x].user = op[o].target
                               => x \in S
        PROVE  SInv'
    <3>1. \A x \in Sessions :
              /\ session'[x].state = "live" => session[x].state = "live"
              /\ session'[x].user = session[x].user
              /\ session'[x].epoch = session[x].epoch
      BY <2>7, SessionsOnlyEnd
    <3>. DEFINE Same(q) == /\ op'[q].kind = op[q].kind
                           /\ op'[q].target = op[q].target
                           /\ op'[q].tenant = op[q].tenant
                           /\ op'[q].mark = op[q].mark
                           /\ op'[q].stage = IF q = o THEN stage ELSE op[q].stage
    <3>0. ASSUME NEW q \in Ops
          PROVE  Same(q)
      BY <2>7, StageMoves
    <3>2. ChangedOwn' /\ MarksSeen'
      <4>1. ChangedOwn'
        BY <2>7, <3>0 DEF ChangedOwn
      <4>2. ASSUME NEW q \in Ops, op'[q].stage \in {"changed", "settled", "logged"},
                   op'[q].kind \in {"suspend", "reset"}
            PROVE  op'[q].mark <= epoch'[op'[q].target]
        <5>1. Same(q) /\ epoch' = epoch
          BY <2>7, <3>0
        <5>2. op[q].stage \in {"changed", "settled", "logged"}
          BY <2>7, <4>2, <5>1
        <5>. QED  BY <4>2, <5>1, <5>2 DEF MarksSeen
      <4>. QED  BY <4>1, <4>2 DEF MarksSeen
    <3>3. ASSUME NEW q \in Ops, op'[q].stage \in {"settled", "logged"},
                 op'[q].kind \in {"suspend", "reset"}, NEW y \in Sessions,
                 session'[y].state = "live", session'[y].user = op'[q].target, y \notin late'
          PROVE  session'[y].epoch >= op'[q].mark
      <4>1. op'[q].kind = op[q].kind /\ op'[q].target = op[q].target
            /\ op'[q].mark = op[q].mark
        BY <3>0
      <4>2. CASE op[q].stage \in {"settled", "logged"}
        BY <2>7, <3>1, <3>3, <4>1, <4>2 DEF SettledHold
      <4>3. CASE op[q].stage \notin {"settled", "logged"}
        <5>1. q = o /\ op[o].stage = "changed" /\ stage \in {"settled", "logged"}
              /\ session' = Revoked(S)
              /\ \A x \in Sessions :
                    session[x].state = "live" /\ session[x].user = op[o].target => x \in S
          <6>1. op'[q].stage = IF q = o THEN stage ELSE op[q].stage
            BY <3>0
          <6>2. q = o /\ stage \in {"settled", "logged"}
            BY <3>3, <4>3, <6>1
          <6>3. op[o].kind \in {"suspend", "reset"}
                /\ op[o].stage \notin {"settled", "logged"}
            BY <3>3, <4>1, <4>3, <6>2
          <6>. QED  BY <2>7, <6>2, <6>3
        <5>2. y \in S
          BY <3>1, <3>3, <4>1, <5>1
        <5>3. session'[y].state = "revoked"
          BY <5>1, <5>2 DEF Revoked, TypeOK
        <5>. QED  BY <3>3, <5>3
      <4>. QED  BY <4>2, <4>3
    <3>. QED  BY <3>2, <3>3 DEF SettledHold
  <2>8. ASSUME NEW o \in Ops, Reject(o) \/ Log(o) \/ OpDies(o) PROVE SInv'
    <3>1. PICK stage \in Stages :
              /\ Reaches(o, stage) /\ stage # "changed"
              /\ stage \in {"settled", "logged"} => op[o].stage = "settled"
      BY <2>8 DEF Reject, Log, OpDies, Stages
    <3>. QED  BY <2>7, <2>8, <3>1 DEF Reject, Log, OpDies
  <2>9. ASSUME NEW o \in Ops,
               UpdateUser(o) \/ CreateUser(o) \/ RevokeKey(o) \/ IssueKey(o)
        PROVE  SInv'
    <3>1. /\ Reaches(o, "settled") /\ UNCHANGED <<session, epoch, late>>
          /\ op[o].kind \notin {"suspend", "reset"}
      BY <2>9 DEF UpdateUser, CreateUser, RevokeKey, IssueKey, Is
    <3>. QED  BY <2>7, <3>1 DEF Stages
  <2>10. ASSUME NEW o \in Ops, EndSession(o) PROVE SInv'
    BY <2>7, <2>10 DEF EndSession, Is, Stages
  <2>11. ASSUME NEW o \in Ops, RevokeSessions(o) PROVE SInv'
    <3>. DEFINE S == SessionsOf(op[o].tenant, op[o].target)
    <3>1. \A x \in Sessions :
              session[x].state = "live" /\ session[x].user = op[o].target => x \in S
      BY <2>11 DEF RevokeSessions, SessionsOf, HasRow, ChangedOwn
    <3>2. op[o].stage = "changed" /\ session' = Revoked(S) /\ Reaches(o, "settled")
          /\ UNCHANGED <<epoch, late>>
      BY <2>11 DEF RevokeSessions
    <3>. HIDE DEF S
    <3>. QED  BY <2>7, <3>1, <3>2 DEF Stages
  <2>12. ASSUME NEW o \in Ops, Change(o) PROVE SInv'
    <3>1. op[o].target \in Users /\ TenantOf[op[o].target] = op[o].tenant
          /\ op[o].kind \in {"suspend", "reset"}
      BY <2>12, KindsAndTargets DEF Change, Is, Found, UserKinds
    <3>2. /\ op'[o].stage = "changed" /\ op'[o].kind = op[o].kind
          /\ op'[o].target = op[o].target /\ op'[o].tenant = op[o].tenant
          /\ op'[o].mark = epoch'[op[o].target]
          /\ \A q \in Ops : q # o => op'[q] = op[q]
      BY <2>12 DEF Change, AfterChange, TypeOK
    <3>3. \A u \in Users : epoch'[u] >= epoch[u] /\ epoch'[u] \in Nat /\ epoch[u] \in Nat
      BY <2>12, <3>1 DEF Change, TypeOK
    <3>4. UNCHANGED <<session, late>>
      BY <2>12 DEF Change
    <3>5. ChangedOwn'
      BY <3>1, <3>2 DEF ChangedOwn
    <3>6. MarksSeen'
      <4>1. ASSUME NEW q \in Ops, op'[q].stage \in {"changed", "settled", "logged"},
                   op'[q].kind \in {"suspend", "reset"}, q # o
            PROVE  op'[q].mark <= epoch'[op'[q].target]
        <5>1. op[q].mark <= epoch[op[q].target] /\ op'[q] = op[q]
          BY <3>2, <4>1 DEF MarksSeen
        <5>2. op[q].target \in Users /\ op[q].mark \in Nat
          BY <4>1, <5>1, KindsAndTargets DEF UserKinds, TypeOK
        <5>. QED  BY <3>3, <5>1, <5>2
      <4>2. op'[o].mark <= epoch'[op'[o].target]
        BY <3>1, <3>2, <3>3
      <4>. QED  BY <4>1, <4>2 DEF MarksSeen
    <3>7. SettledHold'
      BY <3>2, <3>4 DEF SettledHold
    <3>. QED  BY <3>5, <3>6, <3>7
  <2>13. CASE UNCHANGED vars
    BY <2>13 DEF vars, ChangedOwn, MarksSeen, SettledHold
  <2>. QED
    BY <2>1, <2>2, <2>3, <2>5, <2>6, <2>8, <2>9, <2>10, <2>11, <2>12, <2>13, <2>14, <2>15
    DEF Next
<1>3. SInv => SuspensionsHold
  BY DEF SInv, SettledHold, SuspensionsHold, Is
<1>. QED  BY <1>1, <1>2, <1>3, TypeCorrect, PTL DEF Spec

-----------------------------------------------------------------------------
(* Who may end a session.                                                  *)

RInv == ChangedOwn /\ LogoutOwn /\ RevokedForCause

Causes(o, x, u) ==
    /\ op[o].stage \in {"settled", "logged", "unlogged"}
    /\ op[o].kind \in {"suspend", "reset", "endSession", "logout"}
    /\ op[o].tenant = TenantOf[u]
    /\ op[o].target = IF op[o].kind \in {"suspend", "reset"} THEN u ELSE x

(* A session is revoked by its own user's logout or by somebody of its     *)
(* tenant, never by a request about another session, another user, or from *)
(* another tenant (store.py:1029-1070).                         *)
THEOREM RevocationsHaveCauses == Spec => []RevokedForCause
<1>1. Init => RInv
  BY DEF Init, RInv, ChangedOwn, LogoutOwn, RevokedForCause, Is
<1>2. TypeOK /\ RInv /\ [Next]_vars => RInv'
  <2>. SUFFICES ASSUME TypeOK, RInv, [Next]_vars PROVE RInv'
    OBVIOUS
  <2>. USE DEF RInv
  <2>1. ASSUME NEW x \in Sessions, NEW s, op' = op,
               /\ session' = [session EXCEPT ![x] = s]
               /\ \/ session[x].state = "none" /\ s.state = "verified"
                  \/ /\ s.user = session[x].user
                     /\ s.state \in {"live", "failed"} /\ session[x].state = "verified"
                  \/ s.user = session[x].user /\ s.state = "expired"
        PROVE  RInv'
    <3>1. \A y \in Sessions : session'[y].state = "revoked" => session'[y] = session[y]
      BY <2>1 DEF TypeOK
    <3>2. \A y \in Sessions : HasRow(y) => HasRow(y)' /\ session'[y].user = session[y].user
      BY <2>1 DEF TypeOK, HasRow
    <3>3. ChangedOwn'
      BY <2>1 DEF ChangedOwn
    <3>4. LogoutOwn'
      <4>1. \A o \in Ops : Is(o, "admitted", {"logout"}) => op[o].target \in Sessions
        BY KindsAndTargets DEF Is
      <4>. QED  BY <2>1, <3>2, <4>1 DEF LogoutOwn, Is
    <3>5. RevokedForCause'
      BY <2>1, <3>1 DEF RevokedForCause
    <3>. QED  BY <3>3, <3>4, <3>5
  <2>2. ASSUME NEW x \in Sessions, NEW u \in Users, NEW p \in Passwords, Verify(x, u, p)
        PROVE  RInv'
    BY <2>1, <2>2 DEF Verify
  <2>3. ASSUME NEW x \in Sessions, Open(x) \/ LoginDies(x) \/ SessionExpires(x)
        PROVE  RInv'
    <3>1. PICK state \in {"live", "failed", "expired"} :
              /\ session' = [session EXCEPT ![x] = [session[x] EXCEPT !.state = state]]
              /\ op' = op /\ (state = "expired" \/ session[x].state = "verified")
      BY <2>3 DEF Open, LoginDies, SessionExpires
    <3>2. [session[x] EXCEPT !.state = state].state = state
          /\ [session[x] EXCEPT !.state = state].user = session[x].user
      BY DEF TypeOK
    <3>. QED  BY <2>1, <3>1, <3>2
  <2>4. ASSUME NEW o \in Ops, NEW kind \in Kinds, NEW target \in Targets,
               NEW t \in Tenants, Admitted(o, kind, target, t),
               kind = "logout" => HasRow(target) /\ t = TenantOf[session[target].user]
        PROVE  RInv'
    <3>1. /\ session' = session /\ op[o].stage = "none"
          /\ op'[o].stage = "admitted" /\ op'[o].kind = kind
          /\ op'[o].target = target /\ op'[o].tenant = t
          /\ \A q \in Ops : q # o => op'[q] = op[q]
      BY <2>4 DEF Admitted, TypeOK
    <3>2. ChangedOwn'
      BY <3>1 DEF ChangedOwn
    <3>3. LogoutOwn'
      BY <2>4, <3>1 DEF LogoutOwn, Is, HasRow
    <3>4. RevokedForCause'
      <4>1. ASSUME NEW x \in Sessions, session'[x].state = "revoked"
            PROVE  \E q \in Ops : Causes(q, x, session[x].user)'
        <5>1. PICK q \in Ops : Causes(q, x, session[x].user)
          BY <3>1, <4>1 DEF RevokedForCause, Causes
        <5>2. op'[q] = op[q]
          BY <3>1, <5>1 DEF Causes
        <5>. QED  BY <3>1, <5>1, <5>2 DEF Causes
      <4>. QED  BY <3>1, <4>1 DEF RevokedForCause, Causes
    <3>. QED  BY <3>2, <3>3, <3>4
  <2>5. ASSUME NEW o \in Ops, NEW x \in Sessions, AdmitLogout(o, x) PROVE RInv'
    <3>1. TenantOf[session[x].user] \in Tenants
      BY SessionsAssumption DEF TypeOK
    <3>. QED  BY <2>4, <2>5, <3>1 DEF AdmitLogout, Accepted, HasRow, Targets, Kinds
  <2>15. ASSUME NEW o \in Ops, NEW t \in Tenants, AdmitTenant(o, t) PROVE RInv'
    BY <2>4, <2>15 DEF AdmitTenant, Targets, Kinds, TenantKinds, UserKinds
  <2>16. ASSUME NEW k \in Keys, KeyExpires(k) PROVE RInv'
    BY <2>16 DEF KeyExpires, ChangedOwn, LogoutOwn, RevokedForCause, Is, HasRow
  <2>6. ASSUME NEW o \in Ops, AdmitPlatform(o) PROVE RInv'
    BY <2>4, <2>6, SessionsAssumption DEF AdmitPlatform, Targets, Kinds, PlatformKinds
  <2>7. ASSUME NEW o \in Ops, NEW stage \in Stages, NEW S, Reaches(o, stage),
               session' = Revoked(S), stage \notin {"changed", "admitted"},
               op[o].stage \in {"settled", "logged", "unlogged"}
                   => stage \in {"settled", "logged", "unlogged"},
               \A x \in S \cap Sessions : Causes(o, x, session[x].user)'
        PROVE  RInv'
    <3>1. \A x \in Sessions :
              /\ session'[x].user = session[x].user
              /\ session'[x].state = "revoked" => session[x].state = "revoked" \/ x \in S
              /\ HasRow(x) => HasRow(x)'
      BY <2>7 DEF Revoked, TypeOK, HasRow
    <3>2. ASSUME NEW q \in Ops
          PROVE  /\ op'[q].kind = op[q].kind /\ op'[q].target = op[q].target
                 /\ op'[q].tenant = op[q].tenant
                 /\ op'[q].stage = IF q = o THEN stage ELSE op[q].stage
      BY <2>7, StageMoves
    <3>3. ChangedOwn'
      BY <2>7, <3>2 DEF ChangedOwn
    <3>4. LogoutOwn'
      <4>1. ASSUME NEW q \in Ops, Is(q, "admitted", {"logout"})'
            PROVE  HasRow(op[q].target)' /\ op'[q].tenant = TenantOf[session'[op'[q].target].user]
        <5>1. Is(q, "admitted", {"logout"})
          BY <2>7, <3>2, <4>1 DEF Is
        <5>2. PICK x \in Sessions : x = op[q].target
          BY <5>1, KindsAndTargets DEF Is
        <5>3. HasRow(x) /\ op[q].tenant = TenantOf[session[x].user]
          BY <5>1, <5>2 DEF LogoutOwn
        <5>4. HasRow(x)' /\ session'[x].user = session[x].user
          BY <3>1, <5>3
        <5>5. op'[q].target = x /\ op'[q].tenant = op[q].tenant
          BY <3>2, <5>2
        <5>. QED  BY <5>3, <5>4, <5>5
      <4>. QED  BY <4>1 DEF LogoutOwn
    <3>5. RevokedForCause'
      <4>1. ASSUME NEW x \in Sessions, session'[x].state = "revoked"
            PROVE  \E q \in Ops : Causes(q, x, session[x].user)'
        <5>1. CASE x \in S
          BY <2>7, <5>1
        <5>2. CASE x \notin S
          <6>1. PICK q \in Ops : Causes(q, x, session[x].user)
            BY <3>1, <4>1, <5>2 DEF RevokedForCause, Causes
          <6>2. op'[q].stage \in {"settled", "logged", "unlogged"}
            BY <2>7, <3>2, <6>1 DEF Causes
          <6>3. Causes(q, x, session[x].user)'
            BY <3>1, <3>2, <6>1, <6>2 DEF Causes
          <6>. QED  BY <6>3
        <5>. QED  BY <5>1, <5>2
      <4>. QED  BY <3>1, <4>1 DEF RevokedForCause, Causes
    <3>. QED  BY <3>3, <3>4, <3>5
  <2>8. session = Revoked({})
    BY DEF Revoked, TypeOK
  <2>9. ASSUME NEW o \in Ops, Reject(o) \/ Log(o) \/ OpDies(o) PROVE RInv'
    <3>1. PICK stage \in Stages :
              /\ Reaches(o, stage) /\ stage \notin {"changed", "admitted"}
              /\ op[o].stage \in {"settled", "logged", "unlogged"}
                     => stage \in {"settled", "logged", "unlogged"}
      BY <2>9 DEF Reject, Log, OpDies, Stages, Is
    <3>2. session' = Revoked({})
      BY <2>8, <2>9 DEF Reject, Log, OpDies
    <3>. QED  BY <2>7, <3>1, <3>2
  <2>10. ASSUME NEW o \in Ops,
                UpdateUser(o) \/ CreateUser(o) \/ RevokeKey(o) \/ IssueKey(o)
         PROVE  RInv'
    <3>1. Reaches(o, "settled") /\ session' = Revoked({})
      BY <2>8, <2>10 DEF UpdateUser, CreateUser, RevokeKey, IssueKey
    <3>. QED  BY <2>7, <3>1 DEF Stages
  <2>11. ASSUME NEW o \in Ops, EndSession(o) PROVE RInv'
    <3>1. /\ Reaches(o, "settled") /\ session' = Revoked({op[o].target})
          /\ op[o].kind \in {"endSession", "logout"}
          /\ op[o].target \in Sessions
          /\ TenantOf[session[op[o].target].user] = op[o].tenant
      BY <2>11, KindsAndTargets DEF EndSession, Is, Found, UserKinds, LogoutOwn
    <3>2. /\ op'[o].stage = "settled" /\ op'[o].kind = op[o].kind
          /\ op'[o].target = op[o].target /\ op'[o].tenant = op[o].tenant
      BY <3>1, StageMoves DEF Stages
    <3>3. session'[op[o].target].user = session[op[o].target].user
      BY <3>1 DEF Revoked, TypeOK
    <3>4. Causes(o, op[o].target, session[op[o].target].user)'
      BY <3>1, <3>2, <3>3 DEF Causes
    <3>5. \A x \in {op[o].target} \cap Sessions : Causes(o, x, session[x].user)'
      BY <3>1, <3>2, <3>3 DEF Causes
    <3>. QED  BY <2>7, <3>1, <3>5 DEF Stages
  <2>12. ASSUME NEW o \in Ops, RevokeSessions(o) PROVE RInv'
    <3>. DEFINE S == SessionsOf(op[o].tenant, op[o].target)
    <3>1. /\ Reaches(o, "settled") /\ session' = Revoked(S)
          /\ op[o].kind \in {"suspend", "reset"} /\ op[o].stage = "changed"
          /\ TenantOf[op[o].target] = op[o].tenant
      BY <2>12 DEF RevokeSessions, ChangedOwn
    <3>2. /\ op'[o].stage = "settled" /\ op'[o].kind = op[o].kind
          /\ op'[o].target = op[o].target /\ op'[o].tenant = op[o].tenant
      BY <3>1, StageMoves DEF Stages
    <3>3. \A x \in S : session[x].user = op[o].target /\ session'[x].user = session[x].user
      BY <3>1 DEF SessionsOf, Revoked, TypeOK
    <3>4. \A x \in S \cap Sessions : Causes(o, x, session[x].user)'
      BY <3>1, <3>2, <3>3 DEF Causes
    <3>. HIDE DEF S
    <3>. QED  BY <2>7, <3>1, <3>4 DEF Stages
  <2>13. ASSUME NEW o \in Ops, Change(o) PROVE RInv'
    <3>1. /\ op[o].stage = "admitted" /\ op[o].kind \in {"suspend", "reset"}
          /\ TenantOf[op[o].target] = op[o].tenant
      BY <2>13 DEF Change, Is, Found, UserKinds
    <3>2. /\ op'[o].stage = "changed" /\ op'[o].kind = op[o].kind
          /\ op'[o].target = op[o].target /\ op'[o].tenant = op[o].tenant
          /\ \A q \in Ops : q # o => op'[q] = op[q]
          /\ session' = session
      BY <2>13 DEF Change, AfterChange, TypeOK
    <3>3. ChangedOwn' /\ LogoutOwn'
      BY <3>1, <3>2 DEF ChangedOwn, LogoutOwn, Is, HasRow
    <3>4. RevokedForCause'
      <4>1. ASSUME NEW x \in Sessions, session'[x].state = "revoked"
            PROVE  \E q \in Ops : Causes(q, x, session[x].user)'
        <5>1. PICK q \in Ops : Causes(q, x, session[x].user)
          BY <3>2, <4>1 DEF RevokedForCause, Causes
        <5>2. op'[q] = op[q]
          BY <3>1, <3>2, <5>1 DEF Causes
        <5>. QED  BY <3>2, <5>1, <5>2 DEF Causes
      <4>. QED  BY <3>2, <4>1 DEF RevokedForCause, Causes
    <3>. QED  BY <3>3, <3>4
  <2>14. CASE UNCHANGED vars
    BY <2>14 DEF vars, ChangedOwn, LogoutOwn, RevokedForCause, Is, HasRow
  <2>. QED
    BY <2>2, <2>3, <2>5, <2>6, <2>9, <2>10, <2>11, <2>12, <2>13, <2>14, <2>15, <2>16
    DEF Next
<1>3. RInv => RevokedForCause
  BY DEF RInv
<1>. QED  BY <1>1, <1>2, <1>3, TypeCorrect, PTL DEF Spec

=============================================================================
