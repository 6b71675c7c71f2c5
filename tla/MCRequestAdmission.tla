------------------------- MODULE MCRequestAdmission -------------------------
(***************************************************************************)
(* Small instances of RequestAdmission for TLC.                            *)
(***************************************************************************)
EXTENDS RequestAdmission, TLC

\* Requests in flight are interchangeable; the properties are invariants.
RequestSlots == Permutations(Requests)

=============================================================================
