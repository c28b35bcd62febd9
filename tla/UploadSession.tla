---------------------------- MODULE UploadSession ----------------------------
(***************************************************************************)
(* The presigned upload of the api service: UploadSessionService.init,     *)
(* .complete and .cleanupExpired, the client that PUTs the bytes straight  *)
(* to MinIO, and the cleanup worker that every api replica runs.           *)
(*                                                                         *)
(* Three stores have to agree and no transaction spans them: the           *)
(* upload_sessions table, the files table and the MinIO bucket.  A session *)
(* owns one minioKey for its whole life, so everything is indexed by the   *)
(* session.  Every await of the handlers is a step of its own; what a      *)
(* transaction wrote becomes visible at its commit (READ COMMITTED).       *)
(***************************************************************************)
EXTENDS Naturals, FiniteSets

CONSTANTS
  Sessions,     \* uploads, one minioKey each
  Requests,     \* upload-complete requests being served, over all replicas
  Workers,      \* cleanup ticks that may run at the same time
  BatchSize,    \* BATCH_SIZE of the cleanup worker
  MaxPuts,      \* PUTs of one session in flight at the same time
  MaxCompletes, \* upload-complete calls a client makes for one session
  NoSession     \* "no session", for a request or tick that has none

ASSUME BatchAssumption == BatchSize \in Nat \ {0}
ASSUME PutsAssumption == MaxPuts \in Nat
ASSUME CompletesAssumption == MaxCompletes \in Nat
ASSUME SessionAssumption == NoSession \notin Sessions

VARIABLES
  stage,    \* how far init has got for a session
  kind,     \* uploadKind
  body,     \* what the client sends: the declared size or another one
  row,      \* the upload_sessions row exists
  late,     \* expires_at + GRACE_MS < now
  file,     \* the files row: none, or published by a complete that found
            \* the session still in time ("onTime") or expired ("late")
  object,   \* what the bucket holds under minioKey
  mpu,      \* the multipart upload of the session
  puts,     \* PUT requests in flight
  calls,    \* upload-complete calls made so far
  pc,       \* where a complete request is
  target,   \* the session it is about
  onTime,   \* its `expired` was false
  answer,   \* what it answered last
  wpc,      \* where a cleanup tick is
  batch,    \* the rows findExpiredForCleanup gave it and it has not finished
  current   \* the one it is working on

clientVars  == <<stage, kind, body, calls>>
storeVars   == <<row, file, object, mpu>>
requestVars == <<pc, target, onTime, answer>>
workerVars  == <<wpc, batch, current>>
vars == <<clientVars, storeVars, requestVars, workerVars, late, puts>>

Bodies  == {"declared", "other"}
Answers == {"none", "ok", "NOT_FOUND", "EXPIRED", "OBJECT_MISSING",
            "SIZE_MISMATCH", "failed"}
InTxPcs == {"locked", "probe", "assemble", "stat", "drop", "publish"}
BusyWpcs == {"abort", "remove", "delete"}

TypeOK ==
  /\ stage \in [Sessions -> {"new", "uploadCreated", "open"}]
  /\ kind \in [Sessions -> {"single", "multipart"}]
  /\ body \in [Sessions -> Bodies]
  /\ row \in [Sessions -> BOOLEAN]
  /\ late \in [Sessions -> BOOLEAN]
  /\ file \in [Sessions -> {"none", "onTime", "late"}]
  /\ object \in [Sessions -> Bodies \cup {"none"}]
  /\ mpu \in [Sessions -> {"none", "open", "loaded", "completed", "aborted"}]
  /\ puts \in [Sessions -> 0 .. MaxPuts]
  /\ calls \in [Sessions -> 0 .. MaxCompletes]
  /\ pc \in [Requests -> InTxPcs \cup {"idle"}]
  /\ target \in [Requests -> Sessions \cup {NoSession}]
  /\ onTime \in [Requests -> BOOLEAN]
  /\ answer \in [Requests -> Answers]
  /\ wpc \in [Workers -> BusyWpcs \cup {"idle"}]
  /\ batch \in [Workers -> SUBSET Sessions]
  /\ current \in [Workers -> Sessions \cup {NoSession}]

InTx(r) == pc[r] \in InTxPcs

(* The row lock of SELECT ... FOR UPDATE is held until its transaction ends *)
Locked(s) == \E r \in Requests : InTx(r) /\ target[r] = s

Init ==
  /\ stage = [s \in Sessions |-> "new"]
  /\ kind \in [Sessions -> {"single", "multipart"}]
  /\ body \in [Sessions -> Bodies]
  /\ row = [s \in Sessions |-> FALSE]
  /\ late = [s \in Sessions |-> FALSE]
  /\ file = [s \in Sessions |-> "none"]
  /\ object = [s \in Sessions |-> "none"]
  /\ mpu = [s \in Sessions |-> "none"]
  /\ puts = [s \in Sessions |-> 0]
  /\ calls = [s \in Sessions |-> 0]
  /\ pc = [r \in Requests |-> "idle"]
  /\ target = [r \in Requests |-> NoSession]
  /\ onTime = [r \in Requests |-> FALSE]
  /\ answer = [r \in Requests |-> "none"]
  /\ wpc = [w \in Workers |-> "idle"]
  /\ batch = [w \in Workers |-> {}]
  /\ current = [w \in Workers |-> NoSession]

-----------------------------------------------------------------------------
(* init *)

(* A large file first gets a multipart upload from MinIO ...               *)
CreateMultipartUpload(s) ==
  /\ stage[s] = "new"
  /\ kind[s] = "multipart"
  /\ stage' = [stage EXCEPT ![s] = "uploadCreated"]
  /\ mpu' = [mpu EXCEPT ![s] = "open"]
  /\ UNCHANGED <<kind, body, calls, row, file, object, requestVars,
                 workerVars, late, puts>>

(* ... and then the row is inserted.  A crash in between is the behaviour   *)
(* that stops here.                                                         *)
InsertSession(s) ==
  /\ stage[s] = IF kind[s] = "single" THEN "new" ELSE "uploadCreated"
  /\ stage' = [stage EXCEPT ![s] = "open"]
  /\ row' = [row EXCEPT ![s] = TRUE]
  /\ UNCHANGED <<kind, body, calls, file, object, mpu, requestVars,
                 workerVars, late, puts>>

(* expires_at + GRACE_MS goes by *)
Expire(s) ==
  /\ stage[s] = "open"
  /\ ~late[s]
  /\ late' = [late EXCEPT ![s] = TRUE]
  /\ UNCHANGED <<clientVars, storeVars, requestVars, workerVars, puts>>

-----------------------------------------------------------------------------
(* The client and MinIO.  A presigned URL is checked when the PUT starts;  *)
(* the bytes may be stored much later, also when the client has given up   *)
(* on that attempt and sent the same bytes again.                          *)

StartPut(s) ==
  /\ stage[s] = "open"
  /\ ~late[s]
  /\ puts[s] < MaxPuts
  /\ puts' = [puts EXCEPT ![s] = @ + 1]
  /\ UNCHANGED <<clientVars, storeVars, requestVars, workerVars, late>>

(* The object of a single PUT, or all parts of an open multipart upload;   *)
(* a part of an upload that is completed or aborted is refused.            *)
StorePut(s) ==
  /\ puts[s] > 0
  /\ puts' = [puts EXCEPT ![s] = @ - 1]
  /\ IF kind[s] = "single"
     THEN /\ object' = [object EXCEPT ![s] = body[s]]
          /\ mpu' = mpu
     ELSE /\ mpu' = [mpu EXCEPT ![s] = IF @ = "open" THEN "loaded" ELSE @]
          /\ object' = object
  /\ UNCHANGED <<clientVars, row, file, requestVars, workerVars, late>>

LosePut(s) ==
  /\ puts[s] > 0
  /\ puts' = [puts EXCEPT ![s] = @ - 1]
  /\ UNCHANGED <<clientVars, storeVars, requestVars, workerVars, late>>

-----------------------------------------------------------------------------
(* complete: one transaction *)

(* The transaction ends without a trace in the database, the lock is gone   *)
(* and the client gets the error.                                           *)
Rollback(r, error) ==
  /\ pc' = [pc EXCEPT ![r] = "idle"]
  /\ target' = [target EXCEPT ![r] = NoSession]
  /\ onTime' = [onTime EXCEPT ![r] = FALSE]
  /\ answer' = [answer EXCEPT ![r] = error]
  /\ row' = row
  /\ file' = file

Goto(r, next) ==
  /\ pc' = [pc EXCEPT ![r] = next]
  /\ UNCHANGED <<target, onTime, answer, row, file>>

AfterExpiry(s) == IF kind[s] = "multipart" THEN "assemble" ELSE "stat"

(* findByIdForUpdate waits for the lock; an absent row and somebody else's  *)
(* row get the same answer.                                                 *)
LockSession(r, s, mine) ==
  /\ pc[r] = "idle"
  /\ stage[s] = "open"
  /\ calls[s] < MaxCompletes
  /\ ~Locked(s)
  /\ calls' = [calls EXCEPT ![s] = @ + 1]
  /\ IF row[s] /\ mine
     THEN /\ pc' = [pc EXCEPT ![r] = "locked"]
          /\ target' = [target EXCEPT ![r] = s]
          /\ answer' = [answer EXCEPT ![r] = "none"]
          /\ onTime' = onTime
     ELSE /\ answer' = [answer EXCEPT ![r] = "NOT_FOUND"]
          /\ UNCHANGED <<pc, target, onTime>>
  /\ UNCHANGED <<stage, kind, body, storeVars, workerVars, late, puts>>

CheckExpiry(r) ==
  /\ pc[r] = "locked"
  /\ onTime' = [onTime EXCEPT ![r] = ~late[target[r]]]
  /\ pc' = [pc EXCEPT ![r] = IF late[target[r]] THEN "probe"
                             ELSE AfterExpiry(target[r])]
  /\ UNCHANGED <<target, answer, clientVars, storeVars, workerVars, late, puts>>

(* An expired session goes on when its object is there.  A statObject that  *)
(* fails for any reason counts as "not there"; the deleteById before the    *)
(* throw is rolled back with the rest.                                      *)
ProbeObject(r) ==
  /\ pc[r] = "probe"
  /\ \/ /\ object[target[r]] # "none"
        /\ Goto(r, AfterExpiry(target[r]))
     \/ Rollback(r, "EXPIRED")
  /\ UNCHANGED <<clientVars, object, mpu, workerVars, late, puts>>

(* completeMultipartUpload, which MinIO may have done although the caller   *)
(* sees an error.  An upload that is not loaded any more is Fail(r).        *)
AssembleParts(r) ==
  /\ pc[r] = "assemble"
  /\ mpu[target[r]] = "loaded"
  /\ mpu' = [mpu EXCEPT ![target[r]] = "completed"]
  /\ object' = [object EXCEPT ![target[r]] = body[target[r]]]
  /\ Goto(r, "stat") \/ Rollback(r, "failed")
  /\ UNCHANGED <<clientVars, workerVars, late, puts>>

(* Mutant: complete does not compare stat.size with the declared size *)
StatAnySize(r) ==
  /\ pc[r] = "stat"
  /\ IF object[target[r]] = "none"
     THEN Rollback(r, "OBJECT_MISSING")
     ELSE Goto(r, "publish")
  /\ UNCHANGED <<clientVars, object, mpu, workerVars, late, puts>>

StatObject(r) ==
  /\ pc[r] = "stat"
  /\ \/ object[target[r]] = "none" /\ Rollback(r, "OBJECT_MISSING")
     \/ object[target[r]] = "other" /\ Goto(r, "drop")
     \/ object[target[r]] = "declared" /\ Goto(r, "publish")
  /\ UNCHANGED <<clientVars, object, mpu, workerVars, late, puts>>

(* Mutant: the deleteById of a size mismatch survives the throw *)
DropSession(r) ==
  /\ pc[r] = "drop"
  /\ object' = [object EXCEPT ![target[r]] = "none"]
  /\ row' = [row EXCEPT ![target[r]] = FALSE]
  /\ pc' = [pc EXCEPT ![r] = "idle"]
  /\ target' = [target EXCEPT ![r] = NoSession]
  /\ onTime' = [onTime EXCEPT ![r] = FALSE]
  /\ answer' = [answer EXCEPT ![r] = "SIZE_MISMATCH"]
  /\ UNCHANGED <<clientVars, file, mpu, workerVars, late, puts>>

(* The object of the wrong size is removed, for good; the deleteById of its *)
(* session is rolled back by the throw.  A failing removeObject is ignored. *)
DropObject(r) ==
  /\ pc[r] = "drop"
  /\ object' \in {object, [object EXCEPT ![target[r]] = "none"]}
  /\ Rollback(r, "SIZE_MISMATCH")
  /\ UNCHANGED <<clientVars, mpu, workerVars, late, puts>>

(* insert of the file (minio_key is unique), delete of the session, commit  *)
PublishFile(r) ==
  /\ pc[r] = "publish"
  /\ file[target[r]] = "none"
  /\ file' = [file EXCEPT ![target[r]] = IF onTime[r] THEN "onTime" ELSE "late"]
  /\ row' = [row EXCEPT ![target[r]] = FALSE]
  /\ pc' = [pc EXCEPT ![r] = "idle"]
  /\ target' = [target EXCEPT ![r] = NoSession]
  /\ onTime' = [onTime EXCEPT ![r] = FALSE]
  /\ answer' = [answer EXCEPT ![r] = "ok"]
  /\ UNCHANGED <<clientVars, object, mpu, workerVars, late, puts>>

(* Any await of the transaction may throw, its commit may fail, and the     *)
(* replica that serves it may crash.                                        *)
Fail(r) ==
  /\ InTx(r)
  /\ Rollback(r, "failed")
  /\ UNCHANGED <<clientVars, object, mpu, workerVars, late, puts>>

-----------------------------------------------------------------------------
(* cleanupExpired: no transaction, so the locks that findExpiredForCleanup  *)
(* takes are gone when it returns.                                          *)

FirstStep(s) == IF kind[s] = "multipart" THEN "abort" ELSE "remove"

TakeNext(w, rest) ==
  /\ batch' = [batch EXCEPT ![w] = rest]
  /\ IF rest = {}
     THEN /\ wpc' = [wpc EXCEPT ![w] = "idle"]
          /\ current' = [current EXCEPT ![w] = NoSession]
     ELSE \E s \in rest :
            /\ wpc' = [wpc EXCEPT ![w] = FirstStep(s)]
            /\ current' = [current EXCEPT ![w] = s]

(* Mutant: the worker also takes the rows a complete has locked *)
ReclaimableOrLocked == {s \in Sessions : row[s] /\ late[s]}

(* FOR UPDATE SKIP LOCKED: the rows a complete has locked are passed over   *)
Reclaimable == {s \in Sessions : row[s] /\ late[s] /\ ~Locked(s)}

FindExpired(w) ==
  /\ wpc[w] = "idle"
  /\ \E found \in SUBSET Reclaimable :
       /\ found # {}
       /\ Cardinality(found) <= BatchSize
       /\ found # Reclaimable => Cardinality(found) = BatchSize
       /\ TakeNext(w, found)
  /\ UNCHANGED <<clientVars, storeVars, requestVars, late, puts>>

(* Mutant: the tick gives up on a session whose upload cannot be aborted *)
AbortOrStop(w) ==
  /\ wpc[w] = "abort"
  /\ mpu[current[w]] \in {"open", "loaded"}
  /\ mpu' = [mpu EXCEPT ![current[w]] = "aborted"]
  /\ wpc' = [wpc EXCEPT ![w] = "remove"]
  /\ UNCHANGED <<clientVars, row, file, object, requestVars, batch, current,
                 late, puts>>

AbortUpload(w) ==
  /\ wpc[w] = "abort"
  /\ \/ mpu' = mpu
     \/ /\ mpu[current[w]] \in {"open", "loaded"}
        /\ mpu' = [mpu EXCEPT ![current[w]] = "aborted"]
  /\ wpc' = [wpc EXCEPT ![w] = "remove"]
  /\ UNCHANGED <<clientVars, row, file, object, requestVars, batch, current,
                 late, puts>>

RemoveObject(w) ==
  /\ wpc[w] = "remove"
  /\ object' \in {object, [object EXCEPT ![current[w]] = "none"]}
  /\ wpc' = [wpc EXCEPT ![w] = "delete"]
  /\ UNCHANGED <<clientVars, row, file, mpu, requestVars, batch, current,
                 late, puts>>

(* Mutant: the row stays until its object is known to be removed *)
DeleteWhenRemoved(w) ==
  /\ wpc[w] = "delete"
  /\ ~Locked(current[w])
  /\ object[current[w]] = "none"
  /\ row' = [row EXCEPT ![current[w]] = FALSE]
  /\ TakeNext(w, batch[w] \ {current[w]})
  /\ UNCHANGED <<clientVars, file, object, mpu, requestVars, late, puts>>

(* The DELETE waits for a complete that has locked the row meanwhile *)
DeleteSession(w) ==
  /\ wpc[w] = "delete"
  /\ ~Locked(current[w])
  /\ row' = [row EXCEPT ![current[w]] = FALSE]
  /\ TakeNext(w, batch[w] \ {current[w]})
  /\ UNCHANGED <<clientVars, file, object, mpu, requestVars, late, puts>>

(* A failed statement ends the job, a crash of the replica as well; the     *)
(* next tick starts from the table.                                         *)
StopTick(w) ==
  /\ wpc[w] # "idle"
  /\ TakeNext(w, {})
  /\ UNCHANGED <<clientVars, storeVars, requestVars, late, puts>>

-----------------------------------------------------------------------------
ClientNext ==
  \E s \in Sessions :
    \/ CreateMultipartUpload(s)
    \/ InsertSession(s)
    \/ Expire(s)
    \/ StartPut(s)
    \/ StorePut(s)
    \/ LosePut(s)

TxStep(r) ==
  \/ CheckExpiry(r)
  \/ ProbeObject(r)
  \/ AssembleParts(r)
  \/ StatObject(r)
  \/ DropObject(r)
  \/ PublishFile(r)
  \/ Fail(r)

RequestNext ==
  \E r \in Requests :
    \/ \E s \in Sessions, mine \in BOOLEAN : LockSession(r, s, mine)
    \/ TxStep(r)

WorkerNext ==
  \E w \in Workers :
    \/ FindExpired(w)
    \/ AbortUpload(w)
    \/ RemoveObject(w)
    \/ DeleteSession(w)
    \/ StopTick(w)

Next == ClientNext \/ RequestNext \/ WorkerNext

Spec == Init /\ [][Next]_vars

(* Time goes by, a transaction ends (its awaits return or throw), and a     *)
(* tick that keeps being restarted gets past each of its statements in the  *)
(* end.                                                                     *)
Fairness ==
  /\ \A s \in Sessions : WF_vars(Expire(s))
  /\ \A r \in Requests : WF_vars(TxStep(r))
  /\ \A w \in Workers :
       /\ SF_vars(FindExpired(w))
       /\ SF_vars(AbortUpload(w))
       /\ SF_vars(RemoveObject(w))
       /\ SF_vars(DeleteSession(w))

FairSpec == Spec /\ Fairness

-----------------------------------------------------------------------------
(* Properties *)

(* A files row whose complete found the session in time always has its      *)
(* object, of the declared size, whatever cleanup ticks run at the same     *)
(* time: complete's FOR UPDATE lock, the worker's SKIP LOCKED and the one   *)
(* expiry predicate they share work together.                               *)
OnTimeFileIsStored ==
  \A s \in Sessions : file[s] = "onTime" => object[s] = "declared"

(* A multipart upload is only ever published in time (an expired complete   *)
(* needs an object that only completeMultipartUpload makes), so its file is *)
(* stored even where a single upload's may not be.                          *)
MultipartFileIsStored ==
  \A s \in Sessions :
    kind[s] = "multipart" /\ file[s] # "none" => object[s] = "declared"

(* An upload is a session or a file and never both: complete cannot leave   *)
(* the session of a published file to the worker, which would remove the    *)
(* object under it.                                                         *)
FileOrSession == \A s \in Sessions : ~(row[s] /\ file[s] # "none")

(* A session that is not expired only goes away by becoming a file: neither *)
(* a failed complete nor a cleanup tick takes a running upload away.        *)
OnlyExpiredReclaimed ==
  [][\A s \in Sessions :
       row[s] /\ ~row'[s] => late[s] \/ file'[s] # "none"]_vars

(* Every session row goes away in the end, also one whose complete keeps    *)
(* failing and one whose objects MinIO refuses to remove.                   *)
SessionsReclaimed == \A s \in Sessions : row[s] ~> ~row[s]

(* The design's table of safety nets: the FOR UPDATE of complete keeps the  *)
(* worker out, so every published file is stored.                           *)
EveryFileIsStored ==
  \A s \in Sessions : file[s] # "none" => object[s] = "declared"

-----------------------------------------------------------------------------
(* The uploads as UploadLedger sees them *)

UploadState(s) ==
  CASE row[s]                                              -> "open"
    [] ~row[s] /\ file[s] # "none"                         -> file[s]
    [] ~row[s] /\ file[s] = "none" /\ stage[s] = "open"    -> "reclaimed"
    [] ~row[s] /\ file[s] = "none" /\ stage[s] # "open"    -> "absent"

Ledger == INSTANCE UploadLedger WITH
  Uploads <- Sessions,
  state   <- [s \in Sessions |-> UploadState(s)],
  stored  <- [s \in Sessions |-> object[s] = "declared"],
  expired <- late

(* The three handlers implement the ledger, step by step ... *)
ImplementsLedger == Ledger!Spec

(* ... and, with the worker ticking, its promise to settle every upload *)
SettlesEveryUpload == Ledger!FairSpec
=============================================================================
