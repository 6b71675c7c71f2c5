--------------------------- MODULE MCWorkflowJobs ---------------------------
(***************************************************************************)
(* Small instances of WorkflowJobs for TLC.                                *)
(***************************************************************************)
EXTENDS WorkflowJobs, TLC

CONSTANTS j1, j2, i1, t1

SameIncident == j1 :> i1 @@ j2 :> i1
OneJob       == j1 :> i1

\* Who submits: a tenant, or a platform principal.
OneTenant   == [j \in Jobs |-> t1]
NoTenants   == [j \in Jobs |-> Platform]

\* Workers and handlers are interchangeable in every safety property.
Processes == Permutations(Workers) \cup Permutations(Handlers)

=============================================================================
