---------------------------- MODULE UserSessions ----------------------------
(***************************************************************************)
(* Users, their sessions and the API keys of a tenant (store.py, auth.py,  *)
(* routes.py): logins, and the requests that change users, sessions and    *)
(* keys.  Every transaction is a step; suspending a user and resetting a   *)
(* password are two, and the entry in the audit log is another.  Logins    *)
(* and requests run concurrently, and any of them may die between two      *)
(* transactions.                                                           *)
(*                                                                         *)
(* A user is a tenant and an email.  A tenant's status is always active:   *)
(* no operation changes it.                                                *)
(***************************************************************************)
EXTENDS Naturals

CONSTANTS
    Tenants,
    Users,
    Sessions,     \* logins, and the sessions they open
    Keys,         \* API keys
    Ops,          \* requests that change something
    TenantOf,     \* of a user or a key
    Passwords,
    Admins,       \* users there are in the beginning, with the admin's role
    Operators,    \* and with another one
    MaxDeaths     \* bound: requests and logins that die

ASSUME SessionsAssumption ==
    /\ Users # {}
    /\ TenantOf \in [Users \cup Keys -> Tenants]
    /\ Admins \cap Operators = {}
    /\ MaxDeaths \in Nat

VARIABLES
    user,      \* tenant_users
    session,   \* user_sessions, and logins on their way there
    key,       \* api_keys
    op,        \* where each request is, and what it asks for
    deaths,
    \* History:
    epoch,     \* suspensions and resets of each user so far
    late       \* sessions opened after one their login had not seen

vars == <<user, session, key, op, deaths, epoch, late>>

Statuses == {"none", "active", "suspended"}
\* operator: any role without tenant:user_admin.
Roles == {"admin", "operator"}
KeyStates == {"none", "active", "expired", "revoked"}
SessionStates == {"none", "verified", "failed", "live", "expired", "revoked"}

\* What a tenant's admin, the platform's admin and any user may ask for.
UserKinds == {"suspend", "activate", "reset", "role"}
TenantKinds == UserKinds \cup {"endSession", "revokeKey"}
PlatformKinds == {"createUser", "issueKey"}
Kinds == TenantKinds \cup PlatformKinds \cup {"logout"}

Targets == Users \cup Sessions \cup Keys

\* admitted: authenticated; changed: the first of two transactions is done;
\* settled: all are; logged: in the audit log as well; unlogged: never will be.
Stages == {"none", "admitted", "changed", "settled", "logged",
           "rejected", "dead", "unlogged"}

TypeOK ==
    /\ user \in [Users -> [status : Statuses, password : Passwords, role : Roles]]
    /\ session \in [Sessions -> [state : SessionStates, user : Users, epoch : Nat]]
    /\ key \in [Keys -> KeyStates]
    /\ op \in [Ops -> [stage : Stages, kind : Kinds, target : Targets,
                       tenant : Tenants, mark : Nat]]
    /\ \A o \in Ops :
          /\ op[o].kind \in UserKinds \cup {"createUser"} => op[o].target \in Users
          /\ op[o].kind \in {"endSession", "logout"} => op[o].target \in Sessions
          /\ op[o].kind \in {"revokeKey", "issueKey"} => op[o].target \in Keys
    /\ deaths \in 0..MaxDeaths
    /\ epoch \in [Users -> Nat]
    /\ late \subseteq Sessions

\* What fills the records of logins and requests that are still to come.
SomeUser == CHOOSE u \in Users : TRUE

Init ==
    /\ \E p \in Passwords :
          user = [u \in Users |->
                     [status |-> IF u \in Admins \cup Operators THEN "active" ELSE "none",
                      password |-> p,
                      role |-> IF u \in Admins THEN "admin" ELSE "operator"]]
    /\ session = [x \in Sessions |->
                     [state |-> "none", user |-> SomeUser, epoch |-> 0]]
    /\ key = [k \in Keys |-> "none"]
    /\ op = [o \in Ops |->
                [stage |-> "none", kind |-> "role", target |-> SomeUser,
                 tenant |-> TenantOf[SomeUser], mark |-> 0]]
    /\ deaths = 0
    /\ epoch = [u \in Users |-> 0]
    /\ late = {}

-----------------------------------------------------------------------------
(* auth_login.                                                             *)

\* authenticate_user_credentials, and the password is the one in the row.
Verify(x, u, p) ==
    /\ session[x].state = "none"
    /\ user[u].status = "active"
    /\ user[u].password = p
    /\ session' = [session EXCEPT ![x] = [state |-> "verified", user |-> u,
                                          epoch |-> epoch[u]]]
    /\ UNCHANGED <<user, key, op, deaths, epoch, late>>

\* create_user_session does not look at the user again.  History: a session
\* is late if its user was suspended or given a password meanwhile.
Open(x) ==
    /\ session[x].state = "verified"
    /\ session' = [session EXCEPT ![x].state = "live"]
    /\ late' = IF session[x].epoch # epoch[session[x].user] THEN late \cup {x} ELSE late
    /\ UNCHANGED <<user, key, op, deaths, epoch>>

LoginDies(x) ==
    /\ session[x].state = "verified"
    /\ deaths < MaxDeaths
    /\ deaths' = deaths + 1
    /\ session' = [session EXCEPT ![x].state = "failed"]
    /\ UNCHANGED <<user, key, op, epoch, late>>

SessionExpires(x) ==
    /\ session[x].state = "live"
    /\ session' = [session EXCEPT ![x].state = "expired"]
    /\ UNCHANGED <<user, key, op, deaths, epoch, late>>

-----------------------------------------------------------------------------
(* Admission: authenticate_request and the scope of the endpoint.          *)

\* authenticate_user_session.
Accepted(x) ==
    /\ session[x].state = "live"
    /\ user[session[x].user].status = "active"

Admitted(o, kind, target, t) ==
    /\ op[o].stage = "none"
    /\ op' = [op EXCEPT ![o] = [stage |-> "admitted", kind |-> kind,
                                target |-> target, tenant |-> t, mark |-> 0]]
    /\ UNCHANGED <<user, session, key, deaths, epoch, late>>

\* The scope tenant:user_admin comes with the admin's role, or with an API key
\* issued with it.  authenticate_api_key asks for an active key in its time.
Administered(t) ==
    \/ \E x \in Sessions :
          /\ Accepted(x)
          /\ user[session[x].user].role = "admin"
          /\ TenantOf[session[x].user] = t
    \/ \E k \in Keys : key[k] = "active" /\ TenantOf[k] = t

\* The ids in the path may belong to another tenant.
AdmitTenant(o, t) ==
    /\ Administered(t)
    /\ \/ \E kind \in UserKinds, u \in Users : Admitted(o, kind, u, t)
       \/ \E y \in Sessions : Admitted(o, "endSession", y, t)
       \/ \E k \in Keys : Admitted(o, "revokeKey", k, t)

AdmitLogout(o, x) ==
    /\ Accepted(x)
    /\ Admitted(o, "logout", x, TenantOf[session[x].user])

\* The tenant is in the path here.
AdmitPlatform(o) ==
    \/ \E u \in Users : Admitted(o, "createUser", u, TenantOf[u])
    \/ \E k \in Keys : Admitted(o, "issueKey", k, TenantOf[k])

-----------------------------------------------------------------------------
(* The transactions of a request.                                          *)

Is(o, stage, kinds) == op[o].stage = stage /\ op[o].kind \in kinds

Reaches(o, stage) == op' = [op EXCEPT ![o].stage = stage]

HasRow(x) == session[x].state \in {"live", "expired", "revoked"}

\* The row the request names is there, and of the tenant that asks.
Found(o) ==
    LET target == op[o].target
        t == op[o].tenant
    IN  CASE op[o].kind \in UserKinds ->
                user[target].status # "none" /\ TenantOf[target] = t
          [] op[o].kind = "endSession" ->
                HasRow(target) /\ TenantOf[session[target].user] = t
          [] op[o].kind = "revokeKey" ->
                key[target] # "none" /\ TenantOf[target] = t

\* 404; and a second user with this email breaks a constraint.
Reject(o) ==
    /\ \/ Is(o, "admitted", TenantKinds) /\ ~ Found(o)
       \/ Is(o, "admitted", {"createUser"}) /\ user[op[o].target].status # "none"
    /\ Reaches(o, "rejected")
    /\ UNCHANGED <<user, session, key, deaths, epoch, late>>

\* Mutant: the sessions are left alone.
AfterChangeOnly == "settled"

AfterChange == "changed"

\* The first transaction of suspend and password-reset.
Change(o) ==
    LET u == op[o].target
    IN  /\ Is(o, "admitted", {"suspend", "reset"})
        /\ Found(o)
        /\ IF op[o].kind = "suspend"
           THEN user' = [user EXCEPT ![u].status = "suspended"]
           ELSE \E p \in Passwords : user' = [user EXCEPT ![u].password = p]
        /\ epoch' = [epoch EXCEPT ![u] = @ + 1]
        /\ op' = [op EXCEPT ![o].stage = AfterChange, ![o].mark = epoch'[u]]
        /\ UNCHANGED <<session, key, deaths, late>>

\* Mutant: all sessions of the tenant.
SessionsOfTenant(t, u) == {x \in Sessions : HasRow(x) /\ TenantOf[session[x].user] = t}

SessionsOf(t, u) ==
    {x \in Sessions : HasRow(x) /\ session[x].user = u /\ TenantOf[u] = t}

\* Mutant: the sessions are given the status of a user.
Suspended(S) ==
    [x \in Sessions |->
        IF x \in S THEN [session[x] EXCEPT !.state = "suspended"] ELSE session[x]]

Revoked(S) ==
    [x \in Sessions |->
        IF x \in S THEN [session[x] EXCEPT !.state = "revoked"] ELSE session[x]]

\* The second, revoke_user_sessions_for_user.
RevokeSessions(o) ==
    /\ op[o].stage = "changed"
    /\ session' = Revoked(SessionsOf(op[o].tenant, op[o].target))
    /\ Reaches(o, "settled")
    /\ UNCHANGED <<user, key, deaths, epoch, late>>

UpdateUser(o) ==
    LET u == op[o].target
    IN  /\ Is(o, "admitted", {"activate", "role"})
        /\ Found(o)
        /\ IF op[o].kind = "activate"
           THEN user' = [user EXCEPT ![u].status = "active"]
           ELSE \E r \in Roles : user' = [user EXCEPT ![u].role = r]
        /\ Reaches(o, "settled")
        /\ UNCHANGED <<session, key, deaths, epoch, late>>

\* revoke_user_session_for_tenant, and revoke_user_session.
EndSession(o) ==
    /\ \/ Is(o, "admitted", {"endSession"}) /\ Found(o)
       \/ Is(o, "admitted", {"logout"})
    /\ session' = Revoked({op[o].target})
    /\ Reaches(o, "settled")
    /\ UNCHANGED <<user, key, deaths, epoch, late>>

RevokeKey(o) ==
    /\ Is(o, "admitted", {"revokeKey"})
    /\ Found(o)
    /\ key' = [key EXCEPT ![op[o].target] = "revoked"]
    /\ Reaches(o, "settled")
    /\ UNCHANGED <<user, session, deaths, epoch, late>>

CreateUser(o) ==
    /\ Is(o, "admitted", {"createUser"})
    /\ user[op[o].target].status = "none"
    /\ \E p \in Passwords, r \in Roles :
          user' = [user EXCEPT ![op[o].target] =
                      [status |-> "active", password |-> p, role |-> r]]
    /\ Reaches(o, "settled")
    /\ UNCHANGED <<session, key, deaths, epoch, late>>

\* A key of its own for every request.
IssueKey(o) ==
    /\ Is(o, "admitted", {"issueKey"})
    /\ key[op[o].target] = "none"
    /\ key' = [key EXCEPT ![op[o].target] = "active"]
    /\ Reaches(o, "settled")
    /\ UNCHANGED <<user, session, deaths, epoch, late>>

\* Keys may be issued with an end.
KeyExpires(k) ==
    /\ key[k] = "active"
    /\ key' = [key EXCEPT ![k] = "expired"]
    /\ UNCHANGED <<user, session, op, deaths, epoch, late>>

\* _audit.
Log(o) ==
    /\ op[o].stage = "settled"
    /\ Reaches(o, "logged")
    /\ UNCHANGED <<user, session, key, deaths, epoch, late>>

OpDies(o) ==
    /\ op[o].stage \in {"admitted", "changed", "settled"}
    /\ deaths < MaxDeaths
    /\ deaths' = deaths + 1
    /\ Reaches(o, IF op[o].stage = "settled" THEN "unlogged" ELSE "dead")
    /\ UNCHANGED <<user, session, key, epoch, late>>

Next ==
    \/ \E x \in Sessions :
          \/ \E u \in Users, p \in Passwords : Verify(x, u, p)
          \/ Open(x) \/ LoginDies(x) \/ SessionExpires(x)
    \/ \E k \in Keys : KeyExpires(k)
    \/ \E o \in Ops :
          \/ \E t \in Tenants : AdmitTenant(o, t)
          \/ \E x \in Sessions : AdmitLogout(o, x)
          \/ AdmitPlatform(o) \/ Reject(o)
          \/ Change(o) \/ RevokeSessions(o) \/ UpdateUser(o) \/ EndSession(o)
          \/ RevokeKey(o) \/ CreateUser(o) \/ IssueKey(o)
          \/ Log(o) \/ OpDies(o)

Spec == Init /\ [][Next]_vars

-----------------------------------------------------------------------------
(* Properties.                                                             *)

(* Once a suspension or a password reset is in the audit log, no session   *)
(* is open that was opened before it, and none ever is again, be the user  *)
(* activated or not; unless a login had verified the password before and   *)
(* created its session after the user's row had changed.                   *)
SuspensionsHold ==
    \A o \in Ops : Is(o, "logged", {"suspend", "reset"}) =>
        \A x \in Sessions :
            session[x].state = "live" /\ session[x].user = op[o].target /\ x \notin late
                => session[x].epoch >= op[o].mark

(* A session that has been revoked was revoked for a reason: its user      *)
(* logged out, or somebody of the same tenant ended this session or        *)
(* suspended this user or reset the password.                              *)
RevokedForCause ==
    \A x \in Sessions : session[x].state = "revoked" =>
        \E o \in Ops :
            /\ op[o].stage \in {"settled", "logged", "unlogged"}
            /\ op[o].kind \in {"suspend", "reset", "endSession", "logout"}
            /\ op[o].tenant = TenantOf[session[x].user]
            /\ op[o].target = IF op[o].kind \in {"suspend", "reset"}
                              THEN session[x].user ELSE x

-----------------------------------------------------------------------------
(* What makes the properties inductive.                                    *)

\* A request between its two transactions names a user of its tenant.
ChangedOwn ==
    \A o \in Ops : op[o].stage = "changed" =>
        op[o].kind \in {"suspend", "reset"} /\ TenantOf[op[o].target] = op[o].tenant

\* Its mark is an epoch there has been.
MarksSeen ==
    \A o \in Ops : op[o].stage \in {"changed", "settled", "logged"}
                   /\ op[o].kind \in {"suspend", "reset"}
        => op[o].mark <= epoch[op[o].target]

\* SuspensionsHold from the second transaction on.
SettledHold ==
    \A o \in Ops : op[o].stage \in {"settled", "logged"}
                   /\ op[o].kind \in {"suspend", "reset"}
        => \A x \in Sessions :
              session[x].state = "live" /\ session[x].user = op[o].target /\ x \notin late
                  => session[x].epoch >= op[o].mark

\* Who logs out has a session.
LogoutOwn ==
    \A o \in Ops : Is(o, "admitted", {"logout"}) =>
        /\ HasRow(op[o].target)
        /\ op[o].tenant = TenantOf[session[op[o].target].user]

=============================================================================
