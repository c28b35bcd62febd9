--------------------------- MODULE MountCredential ---------------------------
(***************************************************************************)
(* The iSCSI mount credentials of one drive and one user:                  *)
(* MountCredentialService.issue and .revoke of the api service.            *)
(*                                                                         *)
(* A credential lives in three places: the mount_credentials row, the      *)
(* secret file, and the iSCSI target that the storage agent creates with   *)
(* the credential's CHAP user.  The target's iqn is the drive's, so all    *)
(* credentials of the drive share one target.  issue wraps the row and the *)
(* agent call in a transaction and compensates when it aborts; revoke has  *)
(* no transaction.  Every await is a step.                                 *)
(***************************************************************************)
EXTENDS Naturals

CONSTANTS
  Credentials,     \* one for each call of issue: its secretRef
  Revokers,        \* revoke requests being served
  NoCredential     \* no target, or a revoker without a credential

ASSUME CredentialAssumption == NoCredential \notin Credentials

VARIABLES
  calm,     \* one revoke at a time, and no COMMIT takes effect while the api
            \* sees an error: chosen at first, never changed
  ipc,      \* where the issue of a credential is
  row,      \* its mount_credentials row; "pending" until the commit
  secret,   \* the credentials whose secret file exists
  target,   \* whose CHAP user the drive's target has, if there is a target
  rpc,      \* where a revoke is
  rcred     \* the credential it revokes

issueVars  == <<ipc>>
revokeVars == <<rpc, rcred>>
vars == <<calm, ipc, row, secret, target, rpc, rcred>>

BusyIpcs == {"write", "insert", "create", "commit", "compensate", "unsecret"}
BusyRpcs == {"delete", "unsecret", "mark"}

TypeOK ==
  /\ calm \in BOOLEAN
  /\ ipc \in [Credentials -> BusyIpcs \cup {"new", "ok", "failed"}]
  /\ row \in [Credentials -> {"none", "pending", "active", "revoked"}]
  /\ secret \in SUBSET Credentials
  /\ target \in Credentials \cup {NoCredential}
  /\ rpc \in [Revokers -> BusyRpcs \cup {"idle"}]
  /\ rcred \in [Revokers -> Credentials \cup {NoCredential}]
  /\ \A v \in Revokers : rpc[v] = "idle" <=> rcred[v] = NoCredential

Init ==
  /\ calm \in BOOLEAN
  /\ ipc = [c \in Credentials |-> "new"]
  /\ row = [c \in Credentials |-> "none"]
  /\ secret = {}
  /\ target = NoCredential
  /\ rpc = [v \in Revokers |-> "idle"]
  /\ rcred = [v \in Revokers |-> NoCredential]

-----------------------------------------------------------------------------
(* issue *)

GotoI(c, next) == ipc' = [ipc EXCEPT ![c] = next]

SetRow(c, value) == row' = [row EXCEPT ![c] = value]

(* The check for an active credential sees what is committed *)
CheckExisting(c) ==
  /\ ipc[c] = "new"
  /\ GotoI(c, IF \E d \in Credentials : row[d] = "active" THEN "failed" ELSE "write")
  /\ UNCHANGED <<row, secret, target, revokeVars>>

(* A write that fails may leave a file behind, and nothing removes it *)
WriteSecret(c) ==
  /\ ipc[c] = "write"
  /\ \/ GotoI(c, "insert") /\ secret' = secret \cup {c}
     \/ GotoI(c, "failed") /\ secret' \in {secret, secret \cup {c}}
  /\ UNCHANGED <<row, target, revokeVars>>

(* The partial unique index: an insert waits for the transaction that has   *)
(* inserted a row of the same drive, and fails if there is an active one.   *)
IndexFree(c)  == \A d \in Credentials \ {c} : row[d] # "pending"
IndexTaken(c) == \E d \in Credentials \ {c} : row[d] = "active"

(* Mutant: the table has no such index *)
InsertUnchecked(c) ==
  /\ ipc[c] = "insert"
  /\ GotoI(c, "create") /\ SetRow(c, "pending")
  /\ UNCHANGED <<secret, target, revokeVars>>

(* Any insert may also fail for a reason of its own *)
InsertRow(c) ==
  /\ ipc[c] = "insert"
  /\ \/ /\ IndexFree(c) /\ ~IndexTaken(c)
        /\ GotoI(c, "create") /\ SetRow(c, "pending")
     \/ /\ IndexFree(c)
        /\ GotoI(c, "unsecret") /\ row' = row
  /\ UNCHANGED <<secret, target, revokeVars>>

(* Mutant: an agent call that cannot make its target does not come back *)
CreateTargetOrHang(c) ==
  /\ ipc[c] = "create"
  /\ target = NoCredential
  /\ target' = c
  /\ GotoI(c, "commit")
  /\ UNCHANGED <<row, secret, revokeVars>>

(* Mutant: a target that is there already will do *)
CreateTargetOrReuse(c) ==
  /\ ipc[c] = "create"
  /\ target' = IF target = NoCredential THEN c ELSE target
  /\ \/ GotoI(c, "commit") /\ row' = row
     \/ GotoI(c, "unsecret") /\ SetRow(c, "none")
  /\ UNCHANGED <<secret, revokeVars>>

(* The agent refuses a second target with the same iqn.  An answer that is  *)
(* lost or late counts as a failure whatever the agent did, and             *)
(* targetCreated stays false then.                                          *)
CreateTarget(c) ==
  /\ ipc[c] = "create"
  /\ \/ /\ target = NoCredential
        /\ target' = c
        /\ GotoI(c, "commit") /\ row' = row
     \/ /\ target' = IF target = NoCredential THEN c ELSE target
        /\ GotoI(c, "unsecret") /\ SetRow(c, "none")
     \/ /\ target' = target
        /\ GotoI(c, "unsecret") /\ SetRow(c, "none")
  /\ UNCHANGED <<secret, revokeVars>>

(* The rest of the transaction: it commits, or it aborts and so does the row *)
CommitIssue(c) ==
  /\ ipc[c] = "commit"
  /\ \/ GotoI(c, "ok") /\ SetRow(c, "active")
     \/ GotoI(c, "compensate") /\ SetRow(c, "none")
     \/ ~calm /\ GotoI(c, "compensate") /\ SetRow(c, "active")
  /\ UNCHANGED <<secret, target, revokeVars>>

(* Mutant: whatever has failed, the target is deleted (no targetCreated) *)
UnsecretAndDelete(c) ==
  /\ ipc[c] = "unsecret"
  /\ target' \in {target, NoCredential}
  /\ secret' = secret \ {c}
  /\ GotoI(c, "failed")
  /\ UNCHANGED <<row, revokeVars>>

(* deleteTarget of the drive's iqn; its failure is logged *)
Compensate(c) ==
  /\ ipc[c] = "compensate"
  /\ target' \in {target, NoCredential}
  /\ GotoI(c, "unsecret")
  /\ UNCHANGED <<row, secret, revokeVars>>

RemoveSecret(c) ==
  /\ ipc[c] = "unsecret"
  /\ secret' \in {secret, secret \ {c}}
  /\ GotoI(c, "failed")
  /\ UNCHANGED <<row, target, revokeVars>>

(* A crash of the api: the database ends the transaction.  A COMMIT that    *)
(* was on its way may have arrived.                                         *)
CrashIssue(c) ==
  /\ ipc[c] \in BusyIpcs
  /\ GotoI(c, "failed")
  /\ \/ SetRow(c, IF row[c] = "pending" THEN "none" ELSE row[c])
     \/ ipc[c] = "commit" /\ SetRow(c, "active")
  /\ UNCHANGED <<secret, target, revokeVars>>

-----------------------------------------------------------------------------
(* revoke *)

GotoR(v, next) ==
  /\ rpc' = [rpc EXCEPT ![v] = next]
  /\ rcred' = [rcred EXCEPT ![v] = IF next = "idle" THEN NoCredential ELSE @]

(* A credential that is absent or revoked is refused *)
FindCredential(v, c) ==
  /\ rpc[v] = "idle"
  /\ calm => \A w \in Revokers : rpc[w] = "idle"
  /\ row[c] = "active"
  /\ rpc' = [rpc EXCEPT ![v] = "delete"]
  /\ rcred' = [rcred EXCEPT ![v] = c]
  /\ UNCHANGED <<issueVars, row, secret, target>>

(* Mutant: revoke goes on when the agent could not delete the target *)
DeleteTargetOrGoOn(v) ==
  /\ rpc[v] = "delete"
  /\ target' \in {target, NoCredential}
  /\ GotoR(v, "unsecret")
  /\ UNCHANGED <<issueVars, row, secret>>

(* The target goes, or was gone already; any other answer ends the revoke,  *)
(* whether or not the agent has deleted the target.                         *)
DeleteTarget(v) ==
  /\ rpc[v] = "delete"
  /\ \/ target' = NoCredential /\ GotoR(v, "unsecret")
     \/ target' \in {target, NoCredential} /\ GotoR(v, "idle")
  /\ UNCHANGED <<issueVars, row, secret>>

RemoveSecretOf(v) ==
  /\ rpc[v] = "unsecret"
  /\ secret' \in {secret, secret \ {rcred[v]}}
  /\ GotoR(v, "mark")
  /\ UNCHANGED <<issueVars, row, target>>

(* An UPDATE by id: a row that is revoked already is revoked again *)
SoftRevoke(v) ==
  /\ rpc[v] = "mark"
  /\ SetRow(rcred[v], "revoked")
  /\ GotoR(v, "idle")
  /\ UNCHANGED <<issueVars, secret, target>>

(* An UPDATE that fails, or a crash of the api *)
StopRevoke(v) ==
  /\ rpc[v] # "idle"
  /\ GotoR(v, "idle")
  /\ UNCHANGED <<issueVars, row, secret, target>>

-----------------------------------------------------------------------------
IssueStep(c) ==
  \/ WriteSecret(c)
  \/ InsertRow(c)
  \/ CreateTarget(c)
  \/ CommitIssue(c)
  \/ Compensate(c)
  \/ RemoveSecret(c)

RevokeStep(v) ==
  \/ DeleteTarget(v)
  \/ RemoveSecretOf(v)
  \/ SoftRevoke(v)

Next ==
  /\ UNCHANGED calm
  /\ \/ \E c \in Credentials : CheckExisting(c) \/ IssueStep(c) \/ CrashIssue(c)
     \/ \E v \in Revokers : RevokeStep(v) \/ StopRevoke(v)
     \/ \E v \in Revokers, c \in Credentials : FindCredential(v, c)

Spec == Init /\ [][Next]_vars

(* A request that has begun goes on: its awaits return or throw (the agent's *)
(* client has a timeout), unless the api crashes.                            *)
FairSpec ==
  /\ Spec
  /\ \A c \in Credentials : WF_vars(UNCHANGED calm /\ IssueStep(c))
  /\ \A v \in Revokers : WF_vars(UNCHANGED calm /\ RevokeStep(v))

-----------------------------------------------------------------------------
(* Properties *)

(* A credential that is marked revoked opens nothing: revoke marks it only  *)
(* once its target is gone, and no later issue brings its CHAP user back.   *)
RevokedHasNoTarget == \A c \in Credentials : row[c] = "revoked" => target # c

(* What an active credential's row says of its target is not somebody       *)
(* else's: a target left behind by an issue whose createTarget took effect  *)
(* and was reported as failed is never passed off as a later credential's.  *)
ActiveOwnsTarget ==
  \A c \in Credentials : row[c] = "active" => target \in {c, NoCredential}

(* The comment in issue: the partial unique index sorts out the losers of   *)
(* concurrent issues before they reach the agent, so a target is only made  *)
(* for a credential that is alone in having an unrevoked row.               *)
TargetOnlyForTheWinner ==
  [][\A c \in Credentials :
       target # c /\ target' = c =>
         \A d \in Credentials \ {c} : row[d] \notin {"pending", "active"}]_vars

(* An issue that waits for another one at the index gets through or fails   *)
WaitingIssuesEnd == \A c \in Credentials : ipc[c] = "insert" ~> ipc[c] # "insert"

(* The target of an active credential is only deleted by a revoke of that   *)
(* credential.  Not so when two revokes of one credential overlap, or when  *)
(* a lost COMMIT makes issue compensate for a row that is there.            *)
OnlyItsRevokeTakesTheTarget ==
  [][\A c \in Credentials :
       calm /\ row[c] = "active" /\ target = c /\ target' # c =>
         \E v \in Revokers : rpc[v] = "delete" /\ rcred[v] = c]_vars
=============================================================================
