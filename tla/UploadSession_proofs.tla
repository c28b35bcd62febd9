------------------------ MODULE UploadSession_proofs ------------------------
(***************************************************************************)
(* Safety of UploadSession for any number of sessions, requests, workers   *)
(* and any bounds.  The argument: the row lock gives a session at most one *)
(* complete; a tick only ever holds expired sessions, and takes none that  *)
(* is locked, so the complete that found its session in time has it for    *)
(* itself until it commits, and afterwards there is no row to find.  A     *)
(* complete that found it expired needs a premise: the last theorem.       *)
(***************************************************************************)
EXTENDS UploadSession, TLAPS

(* A transaction works on a session that exists, and on its own *)
TxOwnsSession ==
  /\ \A r \in Requests : InTx(r) => target[r] \in Sessions /\ row[target[r]]
  /\ \A r, q \in Requests :
       InTx(r) /\ InTx(q) /\ target[r] = target[q] => r = q
  /\ \A r \in Requests : pc[r] \in {"idle", "locked", "probe"} => ~onTime[r]

RowIsOpen ==
  \A s \in Sessions :
    /\ row[s] => stage[s] = "open" /\ file[s] = "none"
    /\ file[s] # "none" => stage[s] = "open"

(* A tick holds expired sessions only, and none a timely complete works on  *)
(* or has published.                                                        *)
TickHoldsExpired ==
  /\ \A w \in Workers : \A s \in batch[w] : late[s] /\ file[s] # "onTime"
  /\ \A w \in Workers : wpc[w] # "idle" => current[w] \in batch[w]
  /\ \A r \in Requests, w \in Workers :
       InTx(r) /\ onTime[r] => target[r] \notin batch[w]

ObjectIsBody ==
  /\ \A s \in Sessions : object[s] \in {"none", body[s]}
  /\ \A s \in Sessions :
       stage[s] # "open" => puts[s] = 0 /\ object[s] = "none"
  /\ \A r \in Requests :
       /\ pc[r] = "drop" => body[target[r]] = "other"
       /\ pc[r] = "publish" => body[target[r]] = "declared"
       /\ pc[r] = "publish" /\ onTime[r] => object[target[r]] = "declared"
  /\ \A s \in Sessions : file[s] # "none" => body[s] = "declared"

(* An expired multipart upload gets no further than completeMultipartUpload *)
LateIsSingle ==
  /\ \A s \in Sessions :
       kind[s] = "multipart" /\ object[s] # "none" => mpu[s] = "completed"
  /\ \A r \in Requests :
       InTx(r) /\ ~onTime[r] /\ kind[target[r]] = "multipart" =>
         \/ pc[r] \in {"locked", "probe"}
         \/ pc[r] = "assemble" /\ mpu[target[r]] = "completed"
  /\ \A s \in Sessions : file[s] = "late" => kind[s] = "single"

(* A complete that goes on although it found its session expired *)
LateIsExpired ==
  \A r \in Requests :
    pc[r] \in InTxPcs \ {"locked"} /\ ~onTime[r] => late[target[r]]

IInv ==
  /\ TypeOK
  /\ LateIsExpired
  /\ TxOwnsSession
  /\ RowIsOpen
  /\ TickHoldsExpired
  /\ ObjectIsBody
  /\ LateIsSingle
  /\ OnTimeFileIsStored

USE DEF InTx, InTxPcs, BusyWpcs, Bodies, Answers, Goto, Rollback

(* Before the first upload nothing is expired, locked or published *)
LEMMA InitIInv == Init => IInv
  BY SessionAssumption, PutsAssumption, CompletesAssumption
  DEF Init, IInv, TypeOK, LateIsExpired, TxOwnsSession, RowIsOpen, TickHoldsExpired,
      ObjectIsBody, LateIsSingle, OnTimeFileIsStored

(* No handler, tick, PUT or tick of the clock breaks the invariant *)
LEMMA NextIInv == IInv /\ [Next]_vars => IInv'
  <1> SUFFICES ASSUME IInv, [Next]_vars PROVE IInv'
    OBVIOUS
  <1> USE SessionAssumption, PutsAssumption, CompletesAssumption
      DEF IInv, TypeOK, TxOwnsSession, RowIsOpen, TickHoldsExpired,
          ObjectIsBody, LateIsSingle, LateIsExpired, OnTimeFileIsStored,
          clientVars, storeVars, requestVars, workerVars
  <1>1. ASSUME NEW s \in Sessions, CreateMultipartUpload(s) PROVE IInv'
    <2>1. TypeOK'
      BY <1>1 DEF CreateMultipartUpload
    <2>2. TxOwnsSession'
      BY <1>1 DEF CreateMultipartUpload
    <2>3. RowIsOpen'
      BY <1>1 DEF CreateMultipartUpload
    <2>4. TickHoldsExpired'
      BY <1>1 DEF CreateMultipartUpload
    <2>5. ObjectIsBody'
      BY <1>1 DEF CreateMultipartUpload
    <2>6. LateIsSingle'
      BY <1>1 DEF CreateMultipartUpload
    <2>7. OnTimeFileIsStored'
      BY <1>1 DEF CreateMultipartUpload
    <2>8. LateIsExpired'
      BY <1>1 DEF CreateMultipartUpload
    <2>9. QED
      BY <2>1, <2>2, <2>3, <2>4, <2>5, <2>6, <2>7, <2>8
  <1>2. ASSUME NEW s \in Sessions, InsertSession(s) PROVE IInv'
    BY <1>2 DEF InsertSession
  <1>3. ASSUME NEW s \in Sessions, Expire(s) PROVE IInv'
    BY <1>3 DEF Expire
  <1>4. ASSUME NEW s \in Sessions, StartPut(s) PROVE IInv'
    BY <1>4 DEF StartPut
  <1>5. ASSUME NEW s \in Sessions, StorePut(s) PROVE IInv'
    <2>1. CASE kind[s] = "single"
      <3>1. /\ puts' = [puts EXCEPT ![s] = @ - 1] /\ puts[s] - 1 \in 0 .. MaxPuts
            /\ object' = [object EXCEPT ![s] = body[s]] /\ mpu' = mpu
            /\ stage[s] = "open"
            /\ UNCHANGED <<clientVars, row, file, requestVars, workerVars, late>>
        BY <1>5, <2>1 DEF StorePut
      <3>2. TypeOK' /\ TxOwnsSession' /\ RowIsOpen'
        BY <3>1
      <3>3. TickHoldsExpired' /\ LateIsSingle' /\ LateIsExpired'
        BY <2>1, <3>1
      <3>4. ObjectIsBody' /\ OnTimeFileIsStored'
        BY <3>1
      <3>5. QED
        BY <3>2, <3>3, <3>4
    <2>2. CASE kind[s] = "multipart"
      <3>1. /\ puts' = [puts EXCEPT ![s] = @ - 1] /\ puts[s] - 1 \in 0 .. MaxPuts
            /\ mpu' = [mpu EXCEPT ![s] = IF @ = "open" THEN "loaded" ELSE @]
            /\ object' = object
            /\ UNCHANGED <<clientVars, row, file, requestVars, workerVars, late>>
        BY <1>5, <2>2 DEF StorePut
      <3>2. TypeOK' /\ TxOwnsSession' /\ RowIsOpen'
        BY <3>1
      <3>3. TickHoldsExpired' /\ LateIsSingle' /\ LateIsExpired'
        BY <3>1
      <3>4. ObjectIsBody' /\ OnTimeFileIsStored'
        BY <3>1
      <3>5. QED
        BY <3>2, <3>3, <3>4
    <2>3. QED
      BY <2>1, <2>2
  <1>6. ASSUME NEW s \in Sessions, LosePut(s) PROVE IInv'
    BY <1>6 DEF LosePut
  <1>7. ASSUME NEW r \in Requests, NEW s \in Sessions, NEW mine \in BOOLEAN,
               LockSession(r, s, mine)
        PROVE IInv'
    <2>1. CASE row[s] /\ mine
      <3>1. /\ pc' = [pc EXCEPT ![r] = "locked"]
            /\ target' = [target EXCEPT ![r] = s]
            /\ answer' = [answer EXCEPT ![r] = "none"]
            /\ calls' = [calls EXCEPT ![s] = @ + 1]
            /\ calls[s] + 1 \in 0 .. MaxCompletes
            /\ UNCHANGED <<onTime, stage, kind, body, storeVars, workerVars,
                           late, puts>>
        BY <1>7, <2>1 DEF LockSession
      <3>2. /\ row[s]
            /\ \A q \in Requests : q # r /\ InTx(q) => target[q] # s
        BY <1>7, <2>1 DEF LockSession, Locked
      <3>3. TypeOK'
        BY <3>1
      <3>4. TxOwnsSession'
        BY <1>7, <3>1, <3>2 DEF LockSession
      <3>5. RowIsOpen' /\ ObjectIsBody' /\ OnTimeFileIsStored'
        BY <3>1
      <3>6. TickHoldsExpired' /\ LateIsSingle' /\ LateIsExpired'
        BY <1>7, <3>1, <3>2 DEF LockSession
      <3>7. QED
        BY <3>3, <3>4, <3>5, <3>6
    <2>2. CASE ~(row[s] /\ mine)
      BY <1>7, <2>2 DEF LockSession
    <2>3. QED
      BY <2>1, <2>2
  <1>8. ASSUME NEW r \in Requests, CheckExpiry(r) PROVE IInv'
    BY <1>8 DEF CheckExpiry, AfterExpiry
  <1>9. ASSUME NEW r \in Requests, ProbeObject(r) PROVE IInv'
    <2>1. CASE object[target[r]] # "none" /\ Goto(r, AfterExpiry(target[r]))
      BY <1>9, <2>1 DEF ProbeObject, AfterExpiry
    <2>2. CASE Rollback(r, "EXPIRED")
      BY <1>9, <2>2 DEF ProbeObject
    <2>3. QED
      BY <1>9, <2>1, <2>2 DEF ProbeObject
  <1>10. ASSUME NEW r \in Requests, AssembleParts(r) PROVE IInv'
    <2>1. CASE Goto(r, "stat")
      BY <1>10, <2>1 DEF AssembleParts
    <2>2. CASE Rollback(r, "failed")
      BY <1>10, <2>2 DEF AssembleParts
    <2>3. QED
      BY <1>10, <2>1, <2>2 DEF AssembleParts
  <1>11. ASSUME NEW r \in Requests, StatObject(r) PROVE IInv'
    <2>1. CASE Rollback(r, "OBJECT_MISSING")
      BY <1>11, <2>1 DEF StatObject
    <2>2. CASE object[target[r]] = "other" /\ Goto(r, "drop")
      BY <1>11, <2>2 DEF StatObject
    <2>3. CASE object[target[r]] = "declared" /\ Goto(r, "publish")
      BY <1>11, <2>3 DEF StatObject
    <2>4. QED
      BY <1>11, <2>1, <2>2, <2>3 DEF StatObject
  <1>12. ASSUME NEW r \in Requests, DropObject(r) PROVE IInv'
    <2>1. CASE object' = object
      BY <1>12, <2>1 DEF DropObject
    <2>2. CASE object' = [object EXCEPT ![target[r]] = "none"]
      BY <1>12, <2>2 DEF DropObject
    <2>3. QED
      BY <1>12, <2>1, <2>2 DEF DropObject
  <1>13. ASSUME NEW r \in Requests, PublishFile(r) PROVE IInv'
    BY <1>13 DEF PublishFile
  <1>14. ASSUME NEW r \in Requests, Fail(r) PROVE IInv'
    BY <1>14 DEF Fail
  <1>15. ASSUME NEW w \in Workers, FindExpired(w) PROVE IInv'
    <2>1. PICK found \in SUBSET Reclaimable : found # {} /\ TakeNext(w, found)
      BY <1>15 DEF FindExpired
    <2>2. PICK s \in found :
            /\ batch' = [batch EXCEPT ![w] = found]
            /\ wpc' = [wpc EXCEPT ![w] = FirstStep(s)]
            /\ current' = [current EXCEPT ![w] = s]
      BY <2>1 DEF TakeNext
    <2>3. \A u \in found : u \in Sessions /\ row[u] /\ late[u] /\ ~Locked(u)
      BY DEF Reclaimable
    <2>4. FirstStep(s) \in {"abort", "remove"}
      BY DEF FirstStep
    <2>5. UNCHANGED <<clientVars, storeVars, requestVars, late, puts>>
      BY <1>15 DEF FindExpired
    <2>6. QED
      BY <2>2, <2>3, <2>4, <2>5 DEF Locked
  <1>16. ASSUME NEW w \in Workers, AbortUpload(w) PROVE IInv'
    <2>1. CASE mpu' = mpu
      BY <1>16, <2>1 DEF AbortUpload
    <2>2. CASE /\ mpu[current[w]] \in {"open", "loaded"}
               /\ mpu' = [mpu EXCEPT ![current[w]] = "aborted"]
      BY <1>16, <2>2 DEF AbortUpload
    <2>3. QED
      BY <1>16, <2>1, <2>2 DEF AbortUpload
  <1>17. ASSUME NEW w \in Workers, RemoveObject(w) PROVE IInv'
    <2>1. CASE object' = object
      BY <1>17, <2>1 DEF RemoveObject
    <2>2. CASE object' = [object EXCEPT ![current[w]] = "none"]
      <3>1. /\ current[w] \in batch[w] /\ current[w] \in Sessions
            /\ wpc' = [wpc EXCEPT ![w] = "delete"]
            /\ UNCHANGED <<clientVars, row, file, mpu, requestVars, batch,
                           current, late, puts>>
        BY <1>17 DEF RemoveObject
      <3>2. QED
        BY <2>2, <3>1
    <2>3. QED
      BY <1>17, <2>1, <2>2 DEF RemoveObject
  <1>18. ASSUME NEW w \in Workers, DeleteSession(w) PROVE IInv'
    <2> DEFINE rest == batch[w] \ {current[w]}
    <2>1. /\ wpc[w] = "delete" /\ ~Locked(current[w]) /\ TakeNext(w, rest)
          /\ row' = [row EXCEPT ![current[w]] = FALSE]
          /\ batch' = [batch EXCEPT ![w] = rest]
          /\ UNCHANGED <<clientVars, file, object, mpu, requestVars, late, puts>>
      BY <1>18 DEF DeleteSession, TakeNext
    <2>2. CASE /\ wpc' = [wpc EXCEPT ![w] = "idle"]
               /\ current' = [current EXCEPT ![w] = NoSession]
      BY <2>1, <2>2 DEF Locked
    <2>3. ASSUME NEW s \in rest,
                 wpc' = [wpc EXCEPT ![w] = FirstStep(s)],
                 current' = [current EXCEPT ![w] = s]
          PROVE IInv'
      <3>1. FirstStep(s) \in {"abort", "remove"} /\ s \in Sessions
        BY DEF FirstStep
      <3>2. QED
        BY <2>1, <2>3, <3>1 DEF Locked
    <2>4. QED
      BY <2>1, <2>2, <2>3 DEF TakeNext
  <1>19. ASSUME NEW w \in Workers, StopTick(w) PROVE IInv'
    BY <1>19 DEF StopTick, TakeNext
  <1>20. CASE UNCHANGED vars
    BY <1>20 DEF vars
  <1>21. QED
    <2> HIDE DEF IInv, TypeOK, TxOwnsSession, RowIsOpen, TickHoldsExpired,
             ObjectIsBody, LateIsSingle, LateIsExpired, OnTimeFileIsStored
    <2> QED
    BY <1>1, <1>2, <1>3, <1>4, <1>5, <1>6, <1>7, <1>8, <1>9, <1>10, <1>11,
       <1>12, <1>13, <1>14, <1>15, <1>16, <1>17, <1>18, <1>19, <1>20
    DEF Next, ClientNext, RequestNext, TxStep, WorkerNext

(* The invariant holds in every reachable state *)
THEOREM Invariance == Spec => []IInv
  <1>1. QED
    BY InitIInv, NextIInv, PTL DEF Spec

(* Every variable keeps its type, whatever the handlers and ticks do *)
THEOREM TypeCorrect == Spec => []TypeOK
  <1>1. IInv => TypeOK
    BY DEF IInv
  <1>2. QED
    BY <1>1, Invariance, PTL

(* A file published in time keeps its object: complete's FOR UPDATE and the *)
(* worker's SKIP LOCKED on the same expiry predicate are enough, for any    *)
(* number of replicas, concurrent ticks and repeated completes.             *)
THEOREM OnTimeFilesAreStored == Spec => []OnTimeFileIsStored
  <1>1. IInv => OnTimeFileIsStored
    BY DEF IInv
  <1>2. QED
    BY <1>1, Invariance, PTL

(* A multipart upload is only published in time, so its file is stored *)
THEOREM MultipartFilesAreStored == Spec => []MultipartFileIsStored
  <1>1. IInv => MultipartFileIsStored
    BY DEF IInv, TypeOK, LateIsSingle, OnTimeFileIsStored, MultipartFileIsStored
  <1>2. QED
    BY <1>1, Invariance, PTL

(* No session row outlives the publication of its file *)
THEOREM FilesHaveNoSession == Spec => []FileOrSession
  <1>1. IInv => FileOrSession
    BY DEF IInv, RowIsOpen, FileOrSession
  <1>2. QED
    BY <1>1, Invariance, PTL

(* Only cleanupExpired takes a session away without making it a file, and   *)
(* only an expired one.                                                     *)
THEOREM RunningUploadsStay == Spec => OnlyExpiredReclaimed
  <1> DEFINE Step == \A s \in Sessions :
                       row[s] /\ ~row'[s] => late[s] \/ file'[s] # "none"
  <1>1. IInv /\ [Next]_vars => [Step]_vars
    <2> SUFFICES ASSUME IInv, [Next]_vars PROVE Step
      OBVIOUS
    <2> USE DEF IInv, TypeOK
    <2>1. ASSUME NEW r \in Requests, PublishFile(r) PROVE Step
      BY <2>1 DEF PublishFile, TxOwnsSession
    <2>2. ASSUME NEW w \in Workers, DeleteSession(w) PROVE Step
      BY <2>2 DEF DeleteSession, TickHoldsExpired
    <2>3. ASSUME \A s \in Sessions : row[s] => row'[s] PROVE Step
      BY <2>3
    <2>4. ASSUME NEW s \in Sessions, InsertSession(s) PROVE Step
      BY <2>4 DEF InsertSession
    <2>5. QED
      BY <2>1, <2>2, <2>3, <2>4
      DEF Next, ClientNext, RequestNext, TxStep, WorkerNext, vars, clientVars,
          storeVars, requestVars, workerVars, CreateMultipartUpload, Expire,
          StartPut, StorePut, LosePut, LockSession, CheckExpiry, ProbeObject,
          AssembleParts, StatObject, DropObject, Fail, FindExpired,
          AbortUpload, RemoveObject, StopTick
  <1>2. QED
    BY <1>1, Invariance, PTL DEF Spec, OnlyExpiredReclaimed

-----------------------------------------------------------------------------
(* Refinement *)

(* An upload keeps its ledger state when its row, its file and the openness *)
(* of its stage stay.                                                       *)
LEMMA SameUploadState ==
  ASSUME NEW s \in Sessions, row'[s] = row[s], file'[s] = file[s],
         stage'[s] = "open" <=> stage[s] = "open"
  PROVE UploadState(s)' = UploadState(s)
  BY DEF UploadState

(* A step that only moves the object of one session is a Store, a Lose or   *)
(* nothing at all.                                                          *)
LEMMA ObjectStep ==
  ASSUME TypeOK, NEW s \in Sessions, NEW o \in Bodies \cup {"none"},
         object' = [object EXCEPT ![s] = o],
         UNCHANGED <<row, file, stage, late>>,
         UploadState(s) = "onTime" => o = "declared"
  PROVE [Ledger!Next]_(Ledger!vars)
  <1> DEFINE held == [u \in Sessions |-> object[u] = "declared"]
             state == [u \in Sessions |-> UploadState(u)]
  <1>1. state' = state /\ late' = late
    BY DEF UploadState
  <1>2. CASE o = "declared"
    <2>1. held' = [held EXCEPT ![s] = TRUE]
      BY <1>2 DEF TypeOK
    <2>2. Ledger!Store(s)
      BY <1>1, <2>1 DEF Ledger!Store
    <2>3. QED
      BY <2>2 DEF Ledger!Next
  <1>3. CASE o # "declared"
    <2>1. held' = [held EXCEPT ![s] = FALSE]
      BY <1>3 DEF TypeOK
    <2>2. Ledger!Lose(s)
      BY <1>1, <1>3, <2>1 DEF Ledger!Lose
    <2>3. QED
      BY <2>2 DEF Ledger!Next
  <1>4. QED
    BY <1>2, <1>3

(* A step that touches neither rows, files, objects nor the clock *)
LEMMA StutterStep ==
  ASSUME UNCHANGED <<row, file, object, late>>,
         \A s \in Sessions : stage'[s] = "open" <=> stage[s] = "open"
  PROVE [Ledger!Next]_(Ledger!vars)
  BY SameUploadState DEF Ledger!vars, UploadState

(* Every upload goes from absent to open, and from there to published or,   *)
(* once expired, to reclaimed; published in time, its bytes are safe.       *)
THEOREM UploadsImplementLedger == Spec => ImplementsLedger
  <1>1. Init => Ledger!Init
    <2>1. ASSUME Init, NEW s \in Sessions PROVE UploadState(s) = "absent"
      BY <2>1 DEF Init, UploadState
    <2>2. SUFFICES ASSUME Init PROVE Ledger!Init
      OBVIOUS
    <2>3. [s \in Sessions |-> UploadState(s)] = [s \in Sessions |-> "absent"]
      BY <2>1, <2>2
    <2>4. QED
      BY <2>2, <2>3 DEF Init, Ledger!Init
  <1>2. IInv /\ [Next]_vars => [Ledger!Next]_(Ledger!vars)
    <2> SUFFICES ASSUME IInv, [Next]_vars
                 PROVE [Ledger!Next]_(Ledger!vars)
      OBVIOUS
    <2> DEFINE held == [u \in Sessions |-> object[u] = "declared"]
               state == [u \in Sessions |-> UploadState(u)]
    <2>1. ASSUME NEW s \in Sessions, InsertSession(s)
          PROVE [Ledger!Next]_(Ledger!vars)
      <3>1. UploadState(s) = "absent" /\ UploadState(s)' = "open"
        BY <2>1 DEF InsertSession, UploadState, IInv, TypeOK, RowIsOpen
      <3>2. \A u \in Sessions \ {s} : UploadState(u)' = UploadState(u)
        <4>1. \A u \in Sessions \ {s} :
                row'[u] = row[u] /\ file'[u] = file[u] /\ stage'[u] = stage[u]
          BY <2>1 DEF InsertSession, IInv, TypeOK
        <4>2. QED
          BY <4>1, SameUploadState
      <3>3. state' = [state EXCEPT ![s] = "open"] /\ held' = held
        BY <2>1, <3>1, <3>2 DEF InsertSession
      <3>4. Ledger!Open(s)
        BY <2>1, <3>1, <3>3 DEF InsertSession, Ledger!Open
      <3>5. QED
        BY <3>4 DEF Ledger!Next
    <2>2. ASSUME NEW s \in Sessions, Expire(s)
          PROVE [Ledger!Next]_(Ledger!vars)
      <3>1. state' = state /\ held' = held
        BY <2>2 DEF Expire, UploadState, clientVars, storeVars
      <3>2. state[s] # "absent"
        BY <2>2 DEF Expire, UploadState, IInv, TypeOK
      <3>3. Ledger!Expire(s)
        BY <2>2, <3>1, <3>2 DEF Expire, Ledger!Expire
      <3>4. QED
        BY <3>3 DEF Ledger!Next
    <2>3. ASSUME NEW s \in Sessions, StorePut(s)
          PROVE [Ledger!Next]_(Ledger!vars)
      <3>1. UploadState(s) = "onTime" => body[s] = "declared"
        BY DEF UploadState, IInv, TypeOK, ObjectIsBody
      <3>2. CASE kind[s] = "single"
        BY <2>3, <3>1, <3>2, ObjectStep
        DEF StorePut, clientVars, IInv, TypeOK
      <3>3. CASE kind[s] # "single"
        BY <2>3, <3>3, StutterStep DEF StorePut, clientVars
      <3>4. QED
        BY <3>2, <3>3
    <2>4. ASSUME NEW r \in Requests, AssembleParts(r)
          PROVE [Ledger!Next]_(Ledger!vars)
      <3>1. target[r] \in Sessions /\ row[target[r]]
        BY <2>4 DEF AssembleParts, IInv, TxOwnsSession
      <3>2. UploadState(target[r]) = "open" /\ body[target[r]] \in Bodies
        BY <3>1 DEF UploadState, IInv, TypeOK
      <3>3. UNCHANGED <<row, file, stage, late>>
        BY <2>4 DEF AssembleParts, clientVars
      <3>4. object' = [object EXCEPT ![target[r]] = body[target[r]]] /\ TypeOK
        BY <2>4 DEF AssembleParts, IInv
      <3>5. QED
        BY <3>1, <3>2, <3>3, <3>4, ObjectStep
    <2>5. ASSUME NEW r \in Requests, DropObject(r)
          PROVE [Ledger!Next]_(Ledger!vars)
      <3>1. target[r] \in Sessions /\ row[target[r]]
        BY <2>5 DEF DropObject, IInv, TxOwnsSession
      <3>2. UploadState(target[r]) = "open"
        BY <3>1 DEF UploadState
      <3>3. UNCHANGED <<row, file, stage, late>> /\ TypeOK
        BY <2>5 DEF DropObject, clientVars, IInv
      <3>4. CASE object' = object
        BY <3>3, <3>4, StutterStep
      <3>5. CASE object' = [object EXCEPT ![target[r]] = "none"]
        BY <3>1, <3>2, <3>3, <3>5, ObjectStep
      <3>6. QED
        BY <2>5, <3>4, <3>5 DEF DropObject
    <2>6. ASSUME NEW w \in Workers, RemoveObject(w)
          PROVE [Ledger!Next]_(Ledger!vars)
      <3>1. current[w] \in Sessions /\ file[current[w]] # "onTime"
        BY <2>6 DEF RemoveObject, IInv, TypeOK, TickHoldsExpired
      <3>2. UploadState(current[w]) # "onTime"
        BY <3>1 DEF UploadState, IInv, TypeOK
      <3>3. UNCHANGED <<row, file, stage, late>> /\ TypeOK
        BY <2>6 DEF RemoveObject, clientVars, IInv
      <3>4. CASE object' = object
        BY <3>3, <3>4, StutterStep
      <3>5. CASE object' = [object EXCEPT ![current[w]] = "none"]
        BY <3>1, <3>2, <3>3, <3>5, ObjectStep
      <3>6. QED
        BY <2>6, <3>4, <3>5 DEF RemoveObject
    <2>7. ASSUME NEW r \in Requests, PublishFile(r)
          PROVE [Ledger!Next]_(Ledger!vars)
      <3> PICK s \in Sessions : s = target[r]
        BY <2>7 DEF PublishFile, IInv, TxOwnsSession
      <3>1. row[s] /\ (onTime[r] => object[s] = "declared")
        BY <2>7 DEF PublishFile, IInv, TxOwnsSession, ObjectIsBody
      <3>2. UploadState(s) = "open"
            /\ UploadState(s)' = IF onTime[r] THEN "onTime" ELSE "late"
        BY <2>7, <3>1 DEF PublishFile, UploadState, IInv, TypeOK
      <3>3. \A u \in Sessions \ {s} : UploadState(u)' = UploadState(u)
        <4>1. \A u \in Sessions \ {s} :
                row'[u] = row[u] /\ file'[u] = file[u] /\ stage'[u] = stage[u]
          BY <2>7 DEF PublishFile, clientVars, IInv, TypeOK
        <4>2. QED
          BY <4>1, SameUploadState
      <3>4. state' = [state EXCEPT ![s] = IF onTime[r] THEN "onTime" ELSE "late"]
            /\ held' = held /\ late' = late
        BY <2>7, <3>2, <3>3 DEF PublishFile
      <3>5. ~onTime[r] => late[s]
        BY <2>7 DEF PublishFile, IInv, LateIsExpired
      <3>6. Ledger!Publish(s)
        BY <3>1, <3>2, <3>4, <3>5 DEF Ledger!Publish
      <3>7. QED
        BY <3>1, <3>6 DEF Ledger!Next
    <2>8. ASSUME NEW w \in Workers, DeleteSession(w)
          PROVE [Ledger!Next]_(Ledger!vars)
      <3> PICK s \in Sessions : s = current[w]
        BY <2>8 DEF DeleteSession, IInv, TypeOK, TickHoldsExpired
      <3>1. late[s]
        BY <2>8 DEF DeleteSession, IInv, TypeOK, TickHoldsExpired
      <3>2. CASE row[s]
        <4>1. UploadState(s) = "open" /\ UploadState(s)' = "reclaimed"
          BY <2>8, <3>1, <3>2
          DEF DeleteSession, UploadState, clientVars, IInv, TypeOK, RowIsOpen
        <4>2. \A u \in Sessions \ {s} : UploadState(u)' = UploadState(u)
          BY <2>8, SameUploadState DEF DeleteSession, clientVars, IInv, TypeOK
        <4>3. state' = [state EXCEPT ![s] = "reclaimed"]
              /\ held' = held /\ late' = late
          BY <2>8, <4>1, <4>2 DEF DeleteSession
        <4>4. Ledger!Reclaim(s)
          BY <3>1, <4>1, <4>3 DEF Ledger!Reclaim
        <4>5. QED
          BY <3>1, <4>4 DEF Ledger!Next
      <3>3. CASE ~row[s]
        <4>1. row' = row
          BY <2>8, <3>3 DEF DeleteSession, IInv, TypeOK
        <4>2. QED
          BY <2>8, <4>1, StutterStep DEF DeleteSession, clientVars
      <3>4. QED
        BY <3>2, <3>3
    <2>9. ASSUME NEW s \in Sessions, CreateMultipartUpload(s)
          PROVE [Ledger!Next]_(Ledger!vars)
      BY <2>9, StutterStep DEF CreateMultipartUpload, IInv, TypeOK
    <2>10. ASSUME UNCHANGED <<stage, row, file, object, late>>
           PROVE [Ledger!Next]_(Ledger!vars)
      BY <2>10, StutterStep
    <2>11. QED
      BY <2>1, <2>2, <2>3, <2>4, <2>5, <2>6, <2>7, <2>8, <2>9, <2>10
      DEF Next, ClientNext, RequestNext, TxStep, WorkerNext, vars, clientVars,
          storeVars, requestVars, workerVars, StartPut, LosePut, LockSession,
          CheckExpiry, ProbeObject, StatObject, Fail, FindExpired,
          AbortUpload, StopTick
  <1>3. QED
    BY <1>1, <1>2, Invariance, PTL DEF Spec, ImplementsLedger, Ledger!Spec
-----------------------------------------------------------------------------
(* The one overlap that loses the object of a published file *)

(* No tick holds the session of a complete that is past statObject *)
TicksAvoidPublishing ==
  \A r \in Requests, w \in Workers : pc[r] = "publish" => target[r] \notin batch[w]

(* What is published, or about to be, is stored, and no tick comes back for *)
(* what is published.                                                       *)
StoredInv ==
  /\ EveryFileIsStored
  /\ \A s \in Sessions, w \in Workers : file[s] # "none" => s \notin batch[w]
  /\ \A r \in Requests : pc[r] = "publish" => object[target[r]] = "declared"

(* Nothing is published at first *)
LEMMA InitStoredInv == Init => StoredInv
  BY DEF Init, StoredInv, EveryFileIsStored

(* The statements of a tick, and the rest *)
LEMMA NextStoredInv == IInv /\ StoredInv /\ TicksAvoidPublishing /\ [Next]_vars => StoredInv'
  <1> SUFFICES ASSUME IInv, StoredInv, TicksAvoidPublishing, [Next]_vars PROVE StoredInv'
    OBVIOUS
  <1> USE DEF IInv, TypeOK, TxOwnsSession, RowIsOpen, ObjectIsBody, StoredInv,
              EveryFileIsStored, clientVars, storeVars, requestVars, workerVars
  <1>1. CASE UNCHANGED vars
    BY <1>1 DEF vars
  <1>2. ASSUME NEW s \in Sessions,
               CreateMultipartUpload(s) \/ InsertSession(s) \/ Expire(s) \/ StartPut(s)
                 \/ LosePut(s)
        PROVE  StoredInv'
    BY <1>2 DEF CreateMultipartUpload, InsertSession, Expire, StartPut, LosePut
  <1>3. ASSUME NEW s \in Sessions, StorePut(s) PROVE StoredInv'
    <2>1. object' \in {object, [object EXCEPT ![s] = body[s]]}
      BY <1>3 DEF StorePut
    <2> QED
      BY <1>3, <2>1 DEF StorePut
  <1>4. ASSUME NEW r \in Requests, NEW s \in Sessions, NEW mine \in BOOLEAN,
               LockSession(r, s, mine)
        PROVE  StoredInv'
    BY <1>4 DEF LockSession
  <1>5. ASSUME NEW r \in Requests, CheckExpiry(r) \/ ProbeObject(r) \/ Fail(r)
        PROVE  StoredInv'
    BY <1>5 DEF CheckExpiry, ProbeObject, AfterExpiry, Fail
  <1>6. ASSUME NEW r \in Requests, AssembleParts(r) PROVE StoredInv'
    BY <1>6 DEF AssembleParts
  <1>7. ASSUME NEW r \in Requests, StatObject(r) PROVE StoredInv'
    BY <1>7 DEF StatObject
  <1>8. ASSUME NEW r \in Requests, DropObject(r) PROVE StoredInv'
    BY <1>8 DEF DropObject
  <1>9. ASSUME NEW r \in Requests, PublishFile(r) PROVE StoredInv'
    BY <1>9 DEF PublishFile, TicksAvoidPublishing
  <1>10. ASSUME NEW w \in Workers, FindExpired(w) PROVE StoredInv'
    <2>1. PICK found \in SUBSET Reclaimable : batch' = [batch EXCEPT ![w] = found]
      BY <1>10 DEF FindExpired, TakeNext
    <2>2. \A s \in found : file[s] = "none"
      BY DEF Reclaimable
    <2> QED
      BY <1>10, <2>1, <2>2 DEF FindExpired
  <1>11. ASSUME NEW w \in Workers, AbortUpload(w) PROVE StoredInv'
    BY <1>11 DEF AbortUpload
  <1>12. ASSUME NEW w \in Workers, RemoveObject(w) PROVE StoredInv'
    <2>1. current[w] \in batch[w]
      BY <1>12 DEF RemoveObject, TickHoldsExpired
    <2> QED
      BY <1>12, <2>1 DEF RemoveObject, TicksAvoidPublishing
  <1>13. ASSUME NEW w \in Workers, DeleteSession(w) \/ StopTick(w) PROVE StoredInv'
    <2>1. PICK rest \in SUBSET batch[w] : batch' = [batch EXCEPT ![w] = rest]
      BY <1>13 DEF DeleteSession, StopTick, TakeNext
    <2> QED
      BY <1>13, <2>1 DEF DeleteSession, StopTick
  <1> QED
    BY <1>1, <1>2, <1>3, <1>4, <1>5, <1>6, <1>7, <1>8, <1>9, <1>10, <1>11, <1>12, <1>13
    DEF Next, ClientNext, RequestNext, TxStep, WorkerNext

(* cleanupExpired gives its row locks up before it removes the objects.     *)
(* That is all that can lose the object of a published file: as long as no  *)
(* tick holds the session of a complete that is past statObject, every file *)
(* is stored, whatever expires, fails or is sent again.                     *)
THEOREM OnlyUnlockedTicksLoseFiles ==
  Spec /\ []TicksAvoidPublishing => []EveryFileIsStored
  <1>1. StoredInv => EveryFileIsStored
    BY DEF StoredInv
  <1> QED
    BY <1>1, InitStoredInv, NextStoredInv, Invariance, PTL DEF Spec
=============================================================================
