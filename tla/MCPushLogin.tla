----------------------------- MODULE MCPushLogin -----------------------------
(* Instances of PushLogin for TLC *)
EXTENDS PushLogin, TLC
=============================================================================
