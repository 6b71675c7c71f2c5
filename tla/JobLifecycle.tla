---------------------------- MODULE JobLifecycle ----------------------------
(***************************************************************************)
(* What a submitted job promises its client, whatever happens in the queue *)
(* and between workers: the life of one row of workflow_jobs.  A job runs  *)
(* at most MaxRetries times, keeps the progress of its failed runs, leaves *)
(* "awaiting_human" only by a human's decision, and never leaves           *)
(* "completed", "failed" or "dead_letter".  WorkflowJobs implements it as  *)
(* long as nobody forces a recovery, no call raises and no two humans      *)
(* decide the same job at once.                                            *)
(***************************************************************************)
EXTENDS Integers

CONSTANTS Jobs, MaxRetries, NodeCount

VARIABLES
    status,     \* the job's status as GET /jobs/{id} shows it
    attempts,   \* how many runs were started
    progress    \* how many nodes the stored checkpoint has completed

vars == <<status, attempts, progress>>

Init ==
    /\ status = [j \in Jobs |-> "absent"]
    /\ attempts = [j \in Jobs |-> 0]
    /\ progress = [j \in Jobs |-> 0]

Move(j, from, to) ==
    /\ status[j] \in from
    /\ status' = [status EXCEPT ![j] = to]

Waiting == {"queued", "retry_scheduled"}

Submit(j)   == Move(j, {"absent"}, "queued") /\ UNCHANGED <<attempts, progress>>
Postpone(j) == Move(j, Waiting, "retry_scheduled") /\ UNCHANGED <<attempts, progress>>

Start(j) ==
    /\ Move(j, Waiting, "running")
    /\ attempts[j] < MaxRetries
    /\ attempts' = [attempts EXCEPT ![j] = @ + 1]
    /\ UNCHANGED progress

Advance(j) ==
    /\ status[j] = "running"
    /\ \E n \in progress[j]..NodeCount : progress' = [progress EXCEPT ![j] = n]
    /\ UNCHANGED <<status, attempts>>

Retry(j) ==
    /\ Move(j, {"running"}, "retry_scheduled")
    /\ attempts[j] < MaxRetries
    /\ UNCHANGED <<attempts, progress>>

GiveUp(j) ==
    /\ Move(j, {"running"}, "dead_letter")
    /\ attempts[j] = MaxRetries
    /\ UNCHANGED <<attempts, progress>>

AskHuman(j) ==
    /\ Move(j, {"running"}, "awaiting_human")
    /\ \E n \in progress[j]..NodeCount : progress' = [progress EXCEPT ![j] = n]
    /\ UNCHANGED attempts

Finish(j)  == Move(j, {"running"}, "completed") /\ UNCHANGED <<attempts, progress>>
Approve(j) == Move(j, {"awaiting_human"}, "completed") /\ UNCHANGED <<attempts, progress>>
Reject(j)  == Move(j, {"awaiting_human"}, "failed") /\ UNCHANGED <<attempts, progress>>

Next ==
    \E j \in Jobs :
        \/ Submit(j) \/ Postpone(j) \/ Start(j) \/ Advance(j) \/ Retry(j)
        \/ GiveUp(j) \/ AskHuman(j) \/ Finish(j) \/ Approve(j) \/ Reject(j)

Spec == Init /\ [][Next]_vars

=============================================================================
