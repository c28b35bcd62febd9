-------------------------- MODULE MCRefreshRotation --------------------------
(* The instance of RefreshRotation for TLC: no symmetry, a property is      *)
(* about what eventually happens.                                           *)
EXTENDS RefreshRotation
=============================================================================
