----------------------- MODULE MountCredential_proofs -----------------------
(***************************************************************************)
(* Safety of MountCredential for any number of issues and revokes.  The    *)
(* argument: the partial unique index leaves at most one row that is       *)
(* pending or active; only the issue of a pending row creates a target,    *)
(* once; a revoke reaches its UPDATE only past a target that is gone.  The *)
(* index makes an issue wait for one other transaction at most.            *)
(***************************************************************************)
EXTENDS MountCredential, TLAPS

(* The partial unique index, seen over committed and uncommitted rows *)
OneUnrevoked ==
  \A c, d \in Credentials :
    row[c] \in {"pending", "active"} /\ row[d] \in {"pending", "active"} => c = d

(* A row is pending exactly while its transaction runs, and its target is   *)
(* not there before createTarget.                                           *)
RowFollowsIssue ==
  \A c \in Credentials :
    /\ row[c] = "pending" <=> ipc[c] \in {"create", "commit"}
    /\ ipc[c] \in {"new", "write", "insert"} => row[c] = "none"
    /\ ipc[c] \in {"new", "write", "insert", "create"} => target # c

(* A revoke works on a row that was committed, and past deleteTarget on one *)
(* whose target is gone.                                                    *)
RevokeIsPastTheTarget ==
  \A v \in Revokers :
    /\ rpc[v] # "idle" => row[rcred[v]] \in {"active", "revoked"}
    /\ rpc[v] \in {"unsecret", "mark"} => target # rcred[v]

(* An issue past createTarget has made the target, unless a revoke that    *)
(* comes late has taken it away.                                            *)
CommitOwnsTarget ==
  \A c \in Credentials : ipc[c] = "commit" => target \in {c, NoCredential}

IInv ==
  /\ TypeOK
  /\ OneUnrevoked
  /\ RowFollowsIssue
  /\ RevokeIsPastTheTarget
  /\ RevokedHasNoTarget
  /\ CommitOwnsTarget
  /\ ActiveOwnsTarget

USE DEF BusyIpcs, BusyRpcs, GotoI, GotoR, SetRow

(* Before the first issue there is no row, no file and no target *)
LEMMA InitIInv == Init => IInv
  BY CredentialAssumption
  DEF Init, IInv, TypeOK, OneUnrevoked, RowFollowsIssue, RevokeIsPastTheTarget,
      RevokedHasNoTarget, CommitOwnsTarget, ActiveOwnsTarget

(* No step of an issue or a revoke, and no crash, breaks the invariant *)
LEMMA NextIInv == IInv /\ [Next]_vars => IInv'
  <1> SUFFICES ASSUME IInv, [Next]_vars PROVE IInv'
    OBVIOUS
  <1>0. UNCHANGED calm
    BY DEF Next, vars
  <1> USE <1>0
  <1> USE CredentialAssumption
      DEF IInv, TypeOK, OneUnrevoked, RowFollowsIssue, RevokeIsPastTheTarget,
          RevokedHasNoTarget, CommitOwnsTarget, ActiveOwnsTarget, issueVars,
          revokeVars
  <1>1. CASE UNCHANGED vars
    BY <1>1 DEF vars
  <1>2. ASSUME NEW c \in Credentials, CheckExisting(c) PROVE IInv'
    BY <1>2 DEF CheckExisting
  <1>3. ASSUME NEW c \in Credentials, WriteSecret(c) PROVE IInv'
    BY <1>3 DEF WriteSecret
  <1>4. ASSUME NEW c \in Credentials, InsertRow(c) PROVE IInv'
    BY <1>4 DEF InsertRow, IndexFree, IndexTaken
  <1>5. ASSUME NEW c \in Credentials, CreateTarget(c) PROVE IInv'
    BY <1>5 DEF CreateTarget
  <1>6. ASSUME NEW c \in Credentials, CommitIssue(c) PROVE IInv'
    BY <1>6 DEF CommitIssue
  <1>7. ASSUME NEW c \in Credentials, Compensate(c) PROVE IInv'
    BY <1>7 DEF Compensate
  <1>8. ASSUME NEW c \in Credentials, RemoveSecret(c) PROVE IInv'
    BY <1>8 DEF RemoveSecret
  <1>9. ASSUME NEW c \in Credentials, CrashIssue(c) PROVE IInv'
    BY <1>9 DEF CrashIssue
  <1>10. ASSUME NEW v \in Revokers, NEW c \in Credentials, FindCredential(v, c)
         PROVE IInv'
    BY <1>10 DEF FindCredential
  <1>11. ASSUME NEW v \in Revokers, DeleteTarget(v) PROVE IInv'
    BY <1>11 DEF DeleteTarget
  <1>12. ASSUME NEW v \in Revokers, RemoveSecretOf(v) PROVE IInv'
    BY <1>12 DEF RemoveSecretOf
  <1>13. ASSUME NEW v \in Revokers, SoftRevoke(v) PROVE IInv'
    BY <1>13 DEF SoftRevoke
  <1>14. ASSUME NEW v \in Revokers, StopRevoke(v) PROVE IInv'
    BY <1>14 DEF StopRevoke
  <1> QED
    BY <1>1, <1>2, <1>3, <1>4, <1>5, <1>6, <1>7, <1>8, <1>9, <1>10, <1>11,
       <1>12, <1>13, <1>14
    DEF Next, IssueStep, RevokeStep

(* The invariant holds in every reachable state *)
THEOREM Invariance == Spec => []IInv
  <1>1. QED
    BY InitIInv, NextIInv, PTL DEF Spec

(* Every variable keeps its type, and a revoke holds a credential exactly   *)
(* while it runs.                                                           *)
THEOREM TypeCorrect == Spec => []TypeOK
  <1>1. IInv => TypeOK
    BY DEF IInv
  <1>2. QED
    BY <1>1, Invariance, PTL

(* A revoked credential has no target, however issues and revokes overlap   *)
(* and fail and whatever commits get lost.                                  *)
THEOREM RevokedCredentialsAreDead == Spec => []RevokedHasNoTarget
  <1>1. IInv => RevokedHasNoTarget
    BY DEF IInv
  <1>2. QED
    BY <1>1, Invariance, PTL

(* The target of an active credential, if it is there, is its own.           *)
THEOREM ActiveCredentialsOwnTheTarget == Spec => []ActiveOwnsTarget
  <1>1. IInv => ActiveOwnsTarget
    BY DEF IInv
  <1>2. QED
    BY <1>1, Invariance, PTL

(* The losers of concurrent issues never reach the agent's target: one is   *)
(* only created for a credential that is alone in having an unrevoked row.  *)
THEOREM LosersMakeNoTarget == Spec => TargetOnlyForTheWinner
  <1> DEFINE Step ==
        \A c \in Credentials :
          target # c /\ target' = c =>
            \A d \in Credentials \ {c} : row[d] \notin {"pending", "active"}
  <1>1. ASSUME IInv, [Next]_vars PROVE Step
    <2> SUFFICES ASSUME NEW c \in Credentials, target # c, target' = c
                 PROVE  \A d \in Credentials \ {c} :
                          row[d] \notin {"pending", "active"}
      OBVIOUS
    <2>1. row[c] = "pending"
      BY <1>1, CredentialAssumption
      DEF IInv, TypeOK, RowFollowsIssue, Next, IssueStep, RevokeStep, vars,
          issueVars, revokeVars, CheckExisting, WriteSecret, InsertRow,
          CreateTarget, CommitIssue, Compensate, RemoveSecret, CrashIssue,
          FindCredential, DeleteTarget, RemoveSecretOf, SoftRevoke, StopRevoke
    <2> QED
      BY <1>1, <2>1 DEF IInv, OneUnrevoked
  <1>2. QED
    BY <1>1, Invariance, PTL DEF Spec, TargetOnlyForTheWinner

-----------------------------------------------------------------------------
(* With one revoke at a time and no lost COMMIT *)

(* The revoke at work has an active row, so no issue is past its insert; an *)
(* issue past createTarget has the target, and no row is active then.       *)
SoleInv ==
  /\ \A v, w \in Revokers : rpc[v] # "idle" /\ rpc[w] # "idle" => v = w
  /\ \A v \in Revokers : rpc[v] # "idle" => row[rcred[v]] = "active"
  /\ \A c \in Credentials :
       ipc[c] \in {"commit", "compensate"} =>
         target = c /\ \A d \in Credentials : row[d] # "active"

(* Nothing revokes and nothing is issued at first *)
LEMMA InitSoleInv == Init => SoleInv
  BY DEF Init, SoleInv

(* A sole revoker keeps to rows that stay active until it marks them *)
LEMMA NextSoleInv ==
  ASSUME calm, IInv, SoleInv, [Next]_vars
  PROVE  SoleInv'
  <1>0. calm /\ calm'
    BY DEF Next, vars
  <1> USE <1>0
  <1> USE CredentialAssumption
      DEF IInv, TypeOK, OneUnrevoked, RowFollowsIssue, SoleInv,
          issueVars, revokeVars
  <1>1. CASE UNCHANGED vars
    BY <1>1 DEF vars
  <1>2. ASSUME NEW c \in Credentials, CheckExisting(c) PROVE SoleInv'
    BY <1>2 DEF CheckExisting
  <1>3. ASSUME NEW c \in Credentials, WriteSecret(c) PROVE SoleInv'
    BY <1>3 DEF WriteSecret
  <1>4. ASSUME NEW c \in Credentials, InsertRow(c) PROVE SoleInv'
    BY <1>4 DEF InsertRow, IndexFree, IndexTaken
  <1>5. ASSUME NEW c \in Credentials, CreateTarget(c) PROVE SoleInv'
    BY <1>5 DEF CreateTarget
  <1>6. ASSUME NEW c \in Credentials, CommitIssue(c) PROVE SoleInv'
    BY <1>6 DEF CommitIssue
  <1>7. ASSUME NEW c \in Credentials, Compensate(c) PROVE SoleInv'
    BY <1>7 DEF Compensate
  <1>8. ASSUME NEW c \in Credentials, RemoveSecret(c) PROVE SoleInv'
    BY <1>8 DEF RemoveSecret
  <1>9. ASSUME NEW c \in Credentials, CrashIssue(c) PROVE SoleInv'
    BY <1>9 DEF CrashIssue
  <1>10. ASSUME NEW v \in Revokers, NEW c \in Credentials, FindCredential(v, c)
         PROVE SoleInv'
    BY <1>10 DEF FindCredential
  <1>11. ASSUME NEW v \in Revokers, DeleteTarget(v) PROVE SoleInv'
    BY <1>11 DEF DeleteTarget
  <1>12. ASSUME NEW v \in Revokers, RemoveSecretOf(v) PROVE SoleInv'
    BY <1>12 DEF RemoveSecretOf
  <1>13. ASSUME NEW v \in Revokers, SoftRevoke(v) PROVE SoleInv'
    BY <1>13 DEF SoftRevoke
  <1>14. ASSUME NEW v \in Revokers, StopRevoke(v) PROVE SoleInv'
    BY <1>14 DEF StopRevoke
  <1> QED
    BY <1>1, <1>2, <1>3, <1>4, <1>5, <1>6, <1>7, <1>8, <1>9, <1>10, <1>11,
       <1>12, <1>13, <1>14
    DEF Next, IssueStep, RevokeStep

(* With one revoke at a time and no lost COMMIT, the target of an active    *)
(* credential is only deleted by a revoke of that credential: no            *)
(* compensation of another issue hits it.                                   *)
THEOREM ActiveTargetsAreKept == Spec => OnlyItsRevokeTakesTheTarget
  <1> DEFINE Sole == calm => SoleInv
  <1> DEFINE Step ==
        \A c \in Credentials :
          calm /\ row[c] = "active" /\ target = c /\ target' # c =>
            \E v \in Revokers : rpc[v] = "delete" /\ rcred[v] = c
  <1>1. ASSUME IInv, Sole, [Next]_vars PROVE Step
    <2> SUFFICES ASSUME NEW c \in Credentials, calm, row[c] = "active",
                        target = c, target' # c
                 PROVE  \E v \in Revokers : rpc[v] = "delete" /\ rcred[v] = c
      OBVIOUS
    <2>1. PICK v \in Revokers : DeleteTarget(v)
      BY <1>1, CredentialAssumption
      DEF IInv, TypeOK, SoleInv, Next, IssueStep, RevokeStep, vars, issueVars,
          revokeVars, CheckExisting, WriteSecret, InsertRow, CreateTarget,
          CommitIssue, Compensate, RemoveSecret, CrashIssue, FindCredential,
          RemoveSecretOf, SoftRevoke, StopRevoke
    <2>2. rpc[v] = "delete" /\ row[rcred[v]] = "active" /\ rcred[v] \in Credentials
      BY <1>1, <2>1, CredentialAssumption DEF SoleInv, IInv, TypeOK, DeleteTarget
    <2> QED
      BY <1>1, <2>2 DEF IInv, OneUnrevoked
  <1>2. Init => Sole
    BY InitSoleInv
  <1>3. IInv /\ Sole /\ [Next]_vars => Sole'
    BY NextSoleInv DEF Next, vars
  <1> HIDE DEF Sole, Step
  <1>4. Spec => [][Step]_vars
    BY <1>1, <1>2, <1>3, Invariance, PTL DEF Spec
  <1>5. QED
    BY <1>4 DEF Step, OnlyItsRevokeTakesTheTarget

(* At the partial unique index issues wait for one that is past it and does *)
(* not wait itself.                                                         *)
WaitsForOneAtWork ==
  \A c \in Credentials :
    ipc[c] = "insert" /\ ~IndexFree(c) =>
      \E d \in Credentials :
        /\ ipc[d] \in {"create", "commit"}
        /\ \A e \in Credentials : row[e] = "pending" => e = d

(* issue: however issues overlap and crash, one that waits at the index     *)
(* waits for a single transaction, which is at its agent call or its        *)
(* commit: no two wait for each other, and none for a row left behind.      *)
THEOREM WaitsAreShort == Spec => []WaitsForOneAtWork
  <1>1. IInv => WaitsForOneAtWork
    BY DEF IInv, OneUnrevoked, RowFollowsIssue, WaitsForOneAtWork, IndexFree
  <1>2. QED
    BY <1>1, Invariance, PTL
=============================================================================
