--------------------------- MODULE ChallengeLedger ---------------------------
(***************************************************************************)
(* What a second-factor challenge promises: it is opened once, answered or *)
(* given up while it is pending, and lets at most one login through.       *)
(***************************************************************************)
EXTENDS Naturals

CONSTANT Challenges

VARIABLES
  state,  \* of each challenge
  used    \* how many logins it has let through

vars == <<state, used>>

Init ==
  /\ state = [ch \in Challenges |-> "none"]
  /\ used = [ch \in Challenges |-> 0]

Open(ch) ==
  /\ state[ch] = "none"
  /\ state' = [state EXCEPT ![ch] = "PENDING"]
  /\ UNCHANGED used

Answer(ch) ==
  /\ state[ch] = "PENDING"
  /\ \E s \in {"APPROVED", "DENIED", "EXPIRED"} : state' = [state EXCEPT ![ch] = s]
  /\ UNCHANGED used

(* A TOTP code passes a pending challenge, a tap on the phone must have     *)
(* approved it otherwise.                                                   *)
Pass(ch) ==
  /\ state[ch] \in {"PENDING", "APPROVED"}
  /\ used[ch] = 0
  /\ state' = [state EXCEPT ![ch] = "EXPIRED"]
  /\ used' = [used EXCEPT ![ch] = 1]

Next == \E ch \in Challenges : Open(ch) \/ Answer(ch) \/ Pass(ch)

Spec == Init /\ [][Next]_vars
=============================================================================
