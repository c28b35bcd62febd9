---------------------------- MODULE UploadLedger ----------------------------
(***************************************************************************)
(* What the presigned upload promises, whatever requests and cleanup ticks *)
(* interleave: an upload is opened once, and then either published or, not *)
(* before it has expired, reclaimed.  An upload published in time is kept. *)
(***************************************************************************)
CONSTANT Uploads

VARIABLES
  state,    \* of each upload
  stored,   \* MinIO holds an object of the declared size for it
  expired

vars == <<state, stored, expired>>

States == {"absent", "open", "onTime", "late", "reclaimed"}

TypeOK ==
  /\ state \in [Uploads -> States]
  /\ stored \in [Uploads -> BOOLEAN]
  /\ expired \in [Uploads -> BOOLEAN]

Init ==
  /\ state = [u \in Uploads |-> "absent"]
  /\ stored = [u \in Uploads |-> FALSE]
  /\ expired = [u \in Uploads |-> FALSE]

Open(u) ==
  /\ state[u] = "absent"
  /\ state' = [state EXCEPT ![u] = "open"]
  /\ UNCHANGED <<stored, expired>>

Expire(u) ==
  /\ state[u] # "absent"
  /\ ~expired[u]
  /\ expired' = [expired EXCEPT ![u] = TRUE]
  /\ UNCHANGED <<state, stored>>

Store(u) ==
  /\ stored' = [stored EXCEPT ![u] = TRUE]
  /\ UNCHANGED <<state, expired>>

(* The bytes may be lost, but not those of an upload published in time *)
Lose(u) ==
  /\ state[u] # "onTime"
  /\ stored' = [stored EXCEPT ![u] = FALSE]
  /\ UNCHANGED <<state, expired>>

Publish(u) ==
  /\ state[u] = "open"
  /\ \/ stored[u] /\ state' = [state EXCEPT ![u] = "onTime"]
     \/ expired[u] /\ state' = [state EXCEPT ![u] = "late"]
  /\ UNCHANGED <<stored, expired>>

Reclaim(u) ==
  /\ state[u] = "open"
  /\ expired[u]
  /\ state' = [state EXCEPT ![u] = "reclaimed"]
  /\ UNCHANGED <<stored, expired>>

Next ==
  \E u \in Uploads :
    Open(u) \/ Expire(u) \/ Store(u) \/ Lose(u) \/ Publish(u) \/ Reclaim(u)

Spec == Init /\ [][Next]_vars

(* Every upload that is opened is settled *)
FairSpec ==
  /\ Spec
  /\ \A u \in Uploads : WF_vars(Expire(u)) /\ WF_vars(Reclaim(u))
=============================================================================
