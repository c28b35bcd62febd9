-------------------------- MODULE MCMountCredential --------------------------
(* The instance of MountCredential for TLC: no symmetry, a property is      *)
(* about what eventually happens.                                           *)
EXTENDS MountCredential
=============================================================================
