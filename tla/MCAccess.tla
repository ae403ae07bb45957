------------------------------ MODULE MCAccess ------------------------------
(* Two subjects beside the admin, one policy name and one draft. *)
EXTENDS ControlPlane, TLC

Symmetry == Permutations(Subjects)
=============================================================================
