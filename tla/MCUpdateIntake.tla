---------------------------- MODULE MCUpdateIntake ----------------------------
(* An instance of UpdateIntake for TLC: which of the updates are analytic. *)
EXTENDS UpdateIntake

Middle == {2, 3}
=============================================================================
