# terab in TLA+

terab is a self-hosted drive: a NestJS api with PostgreSQL, Redis and MinIO, a
React web client, an admin client, a push worker and an agent on the NAS. This
directory holds TLA+ models of the parts of it in which several actors, stores
or failures meet, the TLC runs that check them on small instances, and proofs
that hold for every instance.

    tlc -workers 2 -config UploadSafety.cfg MCUploadSession.tla
    tlapm UploadSession_proofs.tla

`PROJECT.json` lists the components, the runs, the mutants that show each
property can fail, the source lines behind each definition, the disagreements
found, the hazards and the theorems.

## The system

| Part | State | Operations | What is hard |
|---|---|---|---|
| Presigned upload (`api/src/file/upload-session.*`, `web/.../file-upload`) | `upload_sessions`, `files`, objects and multipart uploads in MinIO | init, PUTs of the client, complete, cleanup tick | three stores without a common transaction; several replicas tick; late PUTs; swallowed errors |
| Mount credentials (`api/src/mount-credential`, `api/src/storage-agent`, `storage-agent`) | `mount_credentials`, secret files, iSCSI targets | issue, revoke | an external call inside a transaction; compensation; the target is shared by a drive's credentials |
| Refresh rotation (`web/src/shared/api/axiosInstance.ts`, `api/src/auth/session`) | access token of each tab, cookie jar of the browser, `refresh_tokens` | request, 401, refresh, replay, logout | queue of the interceptor; tabs share one cookie; answers out of order |
| Two-factor login (`api/src/twofa`) | `two_fa_challenges`, the lockout counter in Redis | create, status, respond, resend, complete by push or TOTP | read, decide, write by id; a transaction that may fail after the claim |
| Push queue, waiting page, phones (`twofa/push-challenge.publisher.ts`, `mq/src/push`, `web/.../login-by-credentials`, `login-by-2fa`) | BullMQ; the page's challenge, its query cache | publish, send with retries, poll, resend, complete, leave and return, answer on a phone | jobs done twice or late; statuses of an old challenge; lost answers |
| Folders, files, trash (`api/src/folder`, `file`, `trash`) | `folders`, `files`, objects | create, move, copy, remove, restore, permanent deletion | statements one by one without a transaction; recursive SQL; row and object |
| Listings (`folder.service.ts`, the file list of the web) | Redis, 60 s; the queries of the browser | get, set, invalidate, refetch | a stale value stored after the invalidation; mutations that invalidate too little |
| Accounts (`auth/login.service.ts`, `invitation`, `twofa/backup-code`, `twofa/totp`, `trusted-device`, `drive`) | `users`, `invitations`, `backup_codes`, `two_fa_totp`, `trusted_devices`, `drives` | register, generate and use codes, enrol, remove, trust, distrust, ensure a drive | check, then act; what decides is an index, a conditional update, or nothing |
| Cold start, preview and other screens, admin, devices, seeders, logging, health, nginx | | | |

They meet in few places. A registration makes a user, its backup codes and the
use of its invitation in one transaction. A login asks the trusted devices, then
the devices, then creates a challenge and publishes a push; a complete of the
challenge runs in one transaction with the registration of a trusted device and
only then issues the first refresh token. An upload names a folder at init and
inserts the file minutes later, without telling the listing cache. A permanent
deletion of a folder takes the upload sessions of that folder along (foreign
keys). An issue of a mount credential starts from a drive. Components share
state only in the database, in Redis and in MinIO.

## Modules

| Module | Models |
|---|---|
| `UploadSession` | the three handlers of the presigned upload, the client and MinIO |
| `UploadLedger` | what an upload promises: opened, then published or reclaimed |
| `MountCredential` | issue and revoke for one drive, the agent and its targets |
| `RefreshRotation` | the interceptor of every tab, the cookie jar, rotate and logout |
| `TwoFactor` | the calls on a user's challenges and the lockout counter |
| `ChallengeLedger` | what a challenge promises: one answer, one login |
| `FolderTree` | the calls on a user's folders, files and trash |
| `FolderListings` | the listing cache of the api and the browser's queries over it |
| `Accounts` | registration, backup codes, TOTP secret, trusted devices, personal drive |
| `PushLogin` | a login approved on a phone: pages, api, queue, worker and phones |
| `MC...` | symmetry of the instances for TLC |
| `..._proofs` | the inductive invariants and the theorems |

A step is what happens between two awaits: one statement of the database, one
call of MinIO, of the agent or of Redis, one message. What a transaction wrote
is seen by others at its commit (READ COMMITTED, the default of PostgreSQL that
the api does not change); a row lock of `FOR UPDATE` and a wait at a unique index
last to the end of the transaction.

Much of the code reads, decides and writes in separate statements, so part of
what it should keep holds only while certain calls do not overlap. Such a
condition is a variable that `Init` chooses and nothing changes (`calm`,
`serial`, `single`): the actions look at it where the condition restricts them,
the property names it as its premise, and one run has the behaviours with and
without it. What holds without the premise is stated without it; what fails
without it is listed under "Known limits".

### UploadSession

`row` is the row of `upload_sessions`, `file` that of `files` with whether its
complete had found the session in time, `object` and `mpu` what MinIO holds,
`puts` the requests in flight. `late` says that `expires_at` plus the grace has
passed; the api compares it with its own clock and the worker with that of the
database, the model has one. `LockSession` to `PublishFile` are complete,
`FindExpired` to `DeleteSession` the tick; `Fail`, `Rollback` and `StopTick` are
the errors and crashes, and every call of MinIO may fail at the place where the
code swallows it. A delete inside a transaction that is then left by a throw
(the two error paths of complete) is undone, which the model shows by
`Rollback`. A failing complete keeps its row; complete is retried up to
`MaxCompletes` times. A `UploadLedger` is implemented step by step
(`ImplementsLedger`), and with fair scheduling to the end (`SettlesEveryUpload`).

### MountCredential

A credential is a call of issue. `row` is "pending" until the commit, which
makes others wait at the partial unique index; `target` is the one target of the
drive with the CHAP user it was made for; `secret` are the secret files. A
`CreateTarget` may take effect although the call fails (timeout), and a COMMIT
may take effect while the api sees an error. `calm` behaviours have one revoke at
a time and no such COMMIT. The drive exists: `ensurePersonalDrive` is in
`Accounts`.

### RefreshRotation

A token is named by the refresh that issued it. `req` is where a request is
(sent, rejected, queued, leading a refresh, over), `rpc` where a refresh is, at
the api and on its way back. `FindToken` and `Rotate` are the two statements of
`SessionService.rotate` that matter; `Logout` to `LoggedOut` are the call of the
logout. A refresh may fail before its commit, or lose its answer after it
("lost"; "forgone" when the tab has left). A tab that fails to refresh drops its
tokens and leaves for `/login`. A logout ends with an answer that clears the
cookie (`LoggedOut`) or with a POST that fails before or after the token was
revoked (`LogoutFails`); `useLogout` leaves for `/login` after both. `overlapped`
says that a refresh was under way with it.

### TwoFactor

Each call starts with the read of a challenge and carries in `want` what it will
write by id. `held` is a complete that has written inside its transaction,
`claimed` one that has committed. `status` is what is committed. `failures` is
the counter in Redis, `seen` what a call has read of it; `ForgetFailures` is the
TTL. The variables `approvals`, `right`, `claims` and `tries` are history: no
guard reads them. A real code of the phone cannot be told from a right one, so
`VerifyRight` and `VerifyWrong` are a choice. In `serial` behaviours a user's
calls come one after the other; a failed one may still stop halfway.

### FolderTree

`state` and `parent` are the rows of folders and files, `objects` is MinIO, and
a call carries its item, its target and the keys it has made or is about to
remove. `Below` is what `WITH RECURSIVE` reaches, as the least closed set, so it
is defined on cycles too; a query that does not end on a cycle is a step that
is not enabled. In `serial` behaviours no call starts while another is under
way, except that uploads run next to anything, because minutes pass between
their check of the folder and their insert. An upload is two steps here; the
rest of it is in `UploadSession`. The insert of a copy may throw with or without
its row (`CopyThrows`), and what follows takes the new object away all the same
(`UndoCopy`); `lost` is the history of the rows nobody was told of.

### FolderListings

`row`, `home` and `name` are the database as far as a listing shows it, `cached`
is Redis, and `shown`, `invalid`, `wanted` and `fetch` are the browser's queries
(data, invalidated, to be fetched, fetched by). The folders of this module stay
where they are; an item is a file or a folder in one. A mutation is read, write,
one deletion of a key after the other, and the `onSuccess` of the web; it may
fail between any two. The two SELECTs of a listing are one step, because an item
is in the result of one of them. `calm` behaviours have one browser and serve no
listing next to a mutation. `untold` are the folders that were changed without
their key being deleted: by an upload or a restore, which delete none, or by a
mutation that failed halfway.

### Accounts

A call is served once, and the row it makes has its id. What a transaction
(registration, regeneration) has written counts from its commit on, because
nobody sees it earlier; where it would make others wait, at an index or at the
row of the invitation, the step of the others is only enabled afterwards. The
eight codes made together are one: they are made, replaced and looked up
together, and the use of one concerns no other. Passwords and codes are right or
the call fails. In `single` behaviours a user has no two calls of one kind under
way; calls of different kinds overlap all the same. An instance may start with a
user who has a code, a secret and devices, expired or not.

### PushLogin

Here the calls on challenges are made by the pages as their code makes them.
`page`, `cur`, `polling`, `completed` are the state of the login and waiting
pages, `data` the query cache, which outlives an unmounted page. A job of the
queue is the number of attempts it has left; `Send` may leave the job in the
queue, for a worker that stops before it acknowledges. A status in transit is
what was read (`got`), and `asked`, `claiming`, `claimed` are the completes of a
challenge; their promise outlives the component that made them. The buttons of
the phone and of the resend are not disabled while their request is pending:
`Answers` are the answers that may be under way together, of two phones or of
two taps on one, and `Resends` the resends, of which the page awaits the last
one (`awaited`: a second `mutate` drops the callback of the first). `calm`
behaviours keep a resend and a poll apart and resends one at a time, lose no
answer of one, let nobody leave the page during one or return to it while
anything of it is under way or after it has moved to another challenge, and have
phones answer one at a time. A complete that fails takes the user to `/login`
whatever page is open. A poll that fails does so before it has read, which to
the page is the same as afterwards. Bounds: one login that leads to a waiting
page, and `Completes` completes of a challenge by a user who returns to its page.

## Runs

Passing runs (two workers):

| Run | Instance | Shows |
|---|---|---|
| `upload_safety` | 2 uploads in one batch, 2 completes of two attempts, 1 tick; 2.2M states, 80 s | files published in time and multipart files are stored; step-wise refinement of the ledger, in which only expired sessions are reclaimed and an upload is a session or a file |
| `upload_liveness` | 1 upload, 1 complete, 2 overlapping ticks | every row goes away in the end; the ledger with its fairness |
| `mount` | 3 issues, 2 revokes; 0.4M states, 60 s | a revoked credential opens nothing, an active one owns the target; losers of the index never reach the agent; calm: the target is only taken by its own revoke; a wait at the index ends |
| `refresh` | 2 tabs, 3 requests, 2 refreshes, 1 logout; 2.2M states, 3 min | one refresh per tab; the session is only lost with an answer or by the logout, after which, if no refresh was under way, the token is revoked and, once it is answered, the cookie gone; a sole tab is not refused and has one active token; a queued request is ended |
| `twofactor` | 2 challenges, 4 calls, limit 2; 0.9M states, 45 s | no login without an approval or a right code; serial: step-wise refinement of `ChallengeLedger`, and no more wrong codes than the limit |
| `folder` | 3 folders and 1 file (serial), 2 folders and 1 file or 1 folder and 2 files (overlapping), 2 calls, depth 1; 0.8M states, 80 s | no row without the row of its folder or, but for an insert of a copy that was not answered, without its object; serial: a tree, live folders are reachable, only trashed folders go for good, no folder is created too deep |
| `listings` | 2 folders, 1 item, 2 mutations, 1 listing; 0.3M states, 25 s | calm: cache and screen are right; always: a wrong entry goes away |
| `accounts` | 2 users, 1 invitation, 3 calls, 2 old rows, limit 2; 2.1M states, 110 s | who is let in is complete, an acknowledged secret is kept; single: one login per code, one generation of codes, the limit of trusted devices, one drive |
| `push_login` | 2 challenges, 1 phone, 1 answer and 2 resends at a time, 2 attempts, 2 completes; 0.9M states, 210 s | one sign-in per approval; calm: nobody is sent back without a reason, a wrong number is final; nobody waits forever |

The bounds: every race in the code is between two actors on one item, and a
third one only matters where an effect must be seen by somebody who came later
(the third issue of a drive, the third request of a tab, a third folder so that
a subtree has depth, the third call that uses what two others have made). Two
ticks and two completes are the replicas; a second batch element shows that a
tick holds stale rows while it works on another. Two challenges are the one
before and the one after a resend; one phone with two attempts gets a push
twice. Answers that overlap are left to the proofs, which have any number of
them; TLC has also checked the safety properties with two answers (3.4M states),
and all properties with two answers and one resend (0.9M). The counters
`MaxPuts`, `MaxCompletes` and `Completes` bound requests that a client may send
again; the lockout limit is 2 instead of 5, the trusted devices 2 instead of 10
and the depth 1 instead of 20, so that the limits are met. Symmetry is declared
in safety runs only. `CHECK_DEADLOCK FALSE` stands where the finite supply of
calls runs out.

A type invariant that is proved (below) is not checked again by the run of its
module, except where it says more than types (`FolderTree`: no row outlives the
row of its folder).

Violations, each of a promise that a document or a test of the repository makes
(quoted in `PROJECT.json` under `findings`):

| Run | What happens |
|---|---|
| `upload_late_race` | a tick removes the object of an upload that a late complete publishes meanwhile |
| `folder_live_file_gone` | a file that is not in the trash is deleted for good |
| `accounts_totp_removal` | the TOTP strategy passes `(id, userId)` to a service that takes `(userId, id)`: a user's own secret is never found, and removing it is always FORBIDDEN |

## Known limits

With the premise (`calm`, `serial` or `single`) taken out of a property, TLC
shows what the overlap does:

| Run | Property | What happens |
|---|---|---|
| `mount` | `OnlyItsRevokeTakesTheTarget` | the slower of two revokes takes the target of the next credential; issue compensates a COMMIT that took effect |
| `refresh` | `SessionNotLost` without `NothingLost` | a rotation commits and its answer is lost: the browser keeps a revoked token |
| `refresh` | `LogoutEnds` for any logout | the answer of a refresh that was under way sets the cookie again |
| `refresh` | `LogoutEnds` with the cookie gone after any end | the POST fails, the tab shows `/login` all the same (`useLogout.ts:19-23`) and the cookie stays in the jar; if the POST failed before the token was revoked, the next cold start can sign in with it |
| `twofactor` | `ImplementsLedger` | two completes of one challenge both log in; a late EXPIRED overwrites an answer |
| `twofactor` | `TriesBounded` | overlapping codes pass the lockout check |
| `folder` | `NoCycle` | two moves put two folders below one another |
| `folder` | `RowHasObject` without `lost` | the insert of a copy takes effect, its answer is lost, and the catch (`file.service.ts:99`) removes the object of a file that is listed |
| `folder` | `LiveFoldersVisible` | a parent goes to the trash between the check and the restore |
| `accounts` | `OneLoginPerCode` | two logins find one code unused |
| `accounts` | `OneGenerationOfCodes` | two regenerations each replace what they have read, and both new sets are good |
| `accounts` | `TrustWithinLimit` | two registrations count before either inserts; and expired rows, which nothing cleans up, are trimmed in place of active ones, so that the limit is exceeded even by calls in a row |
| `accounts` | `OneDrive` | two first calls both find no drive |
| `listings` | `CacheIsRight` | a listing that was read before a mutation is stored after it has deleted the key, and served for up to 60 s; an upload or a restore deletes no key |
| `push_login` | `SentBackForAReason` | the status of the old challenge, EXPIRED by a resend, sends the user away; a lost answer of a resend, or a return to the address of the old challenge, does the same |
| `push_login` | `DeniedStaysDenied` | two taps on one phone, or two phones, both read PENDING; one writes DENIED and the other APPROVED |
| `push_login` | `OneSignInPerApproval` | the user returns to a waiting page whose login is being completed and completes it again: both sign in |

Other things that came to light, with no run of their own:

- `docs/archive/superpowers/plans/2026-05-06-phase4-file-management.md:7` says
  that the service layer invalidates the cache right after every write. Complete
  of an upload and restore do not; after an upload the web also leaves the query
  of the root as it is.
- `PrivateRoute` of the web posts `/api/auth/refresh` on a client whose base is
  `/api`: the request goes to `/api/api/auth/refresh` and never succeeds.
  `web/src/features/backup-code/model/useBackupCode.test.tsx:8` comments on the
  same mistake elsewhere. The `catch` of `AppShell` says that the interceptor
  redirects, but on the public paths the interceptor only throws.
- Resend is named '2FA 챌린지 재발송 (PUSH 전용)' (`challenge.controller.ts:73`)
  and publishes no push: the challenge it makes can only expire.
- The page of a phone says "done" also for an answer that came too late and was
  dropped. The waiting page of the web, unlike the admin's, does nothing about a
  poll that fails for good, so `WaitingEnds` rests on polls that get through.
- `err.code === '23505'` is how the api tells a violated unique index. Whether
  the version of drizzle in use wraps the error of the driver, which would hide
  the code, is outside `src/`; the models take it as the source does.
- `docs/archive/superpowers/specs/2026-05-06-phase4-file-management-design.md:198-206`
  has a permanent deletion remove the object first and keep the row when MinIO
  fails. `trash.service.ts:43-53` deletes the rows first, so that no row is left
  without its object; what is left is an object without a row. The mutant of
  `RowHasObject` is the order of the document.
- `totp.strategy.ts:61` passes its arguments in the wrong order, and
  `totp.strategy.spec.ts:110` asserts just that order of a mock, so no test
  notices (`accounts_totp_removal`).
- A stop between the two inserts of `owner.seeder.ts` leaves an owner without a
  role, and the next start finds the user and goes on.
- With two tabs two refreshes may exchange one token for two, of which one stays
  active until it expires; a 401 that arrives after a refresh starts another one.
- An object or multipart upload that a tick could not remove stays after its row
  is gone; a target whose answer was lost stays and makes every later issue a
  conflict; an object whose removal fails after its row was deleted stays.

## Fairness

- `UploadSession`: time goes by (weak); the transaction of a complete ends, as
  its awaits return or throw (weak); a tick that is started every 15 minutes
  (`upload-session.cleanup.worker.ts:12`) and may stop anywhere gets past each of
  its statements in the end (strong, per tick and statement). Nothing is assumed
  of clients, nor that MinIO ever succeeds.
- `MountCredential`: a request that has begun goes on unless the api crashes;
  the agent's client has a timeout (weak, per request).
- `RefreshRotation`: the api answers a refresh or the POST fails (weak, per
  refresh). Nothing is assumed of other requests.
- `FolderListings`: a mutation and a listing end, one way or the other (weak, per
  request: crashes and lost answers are ends), and an entry reaches its TTL
  (weak, per folder).
- `PushLogin`: time goes by; a complete that was sent and a resend end (weak);
  effects run after a render (weak); the interval of three seconds goes on
  polling, and its calls do not all fail (strong, for `Poll` and `GetStatus`).
  Nothing is assumed of the user, the phones, the queue or its worker.
- `TwoFactor`, `FolderTree` and `Accounts` state no liveness.

## Proofs

The constants are arbitrary sets, under the named assumptions of the modules
(the "no such thing" values are outside their sets, limits are naturals). Each
proof finds an inductive invariant `IInv`, which TLC also checked. The theorems
cover every safety invariant and every action property of the runs.

- `UploadSession_proofs`. A transaction owns the row of its session while it is
  open (`TxOwnsSession`); a tick holds only expired sessions
  (`TickHoldsExpired`); so a complete that found its session in time cannot meet
  a tick on it. A file published late is a single upload (`LateIsSingle`). From
  this: `TypeCorrect`, `OnTimeFilesAreStored`, `MultipartFilesAreStored`,
  `FilesHaveNoSession`, `RunningUploadsStay`, and `UploadsImplementLedger`.
- `MountCredential_proofs`. One row is unrevoked (`OneUnrevoked`), a row follows
  the place of its issue (`RowFollowsIssue`), and a revoke past the target has
  none left (`RevokeIsPastTheTarget`): `RevokedCredentialsAreDead`,
  `ActiveCredentialsOwnTheTarget`, `LosersMakeNoTarget`; and in calm behaviours,
  where a revoke is alone, `ActiveTargetsAreKept`. `WaitsAreShort`: an issue that
  waits at the index waits for one transaction, which does not wait itself.
- `RefreshRotation_proofs`. `isRefreshing` of a tab says that one refresh of it
  is under way (`FlagIsRefresh`): `RefreshesAreSingle`. As long as no answer is
  lost, the cookie or a rotation on its way back is active: `SessionsSurvive`;
  with one tab `SoleTabRotates` (never refused) and, whatever is lost,
  `SoleTabHasOneToken`; `LogoutsEnd` for a logout that no refresh was under way
  with: its token is revoked when the api is through with it, answered or not.
  The flag is also never
  set without its refresh, whose leader has been marked as retried (`WaitInv`):
  `NobodyWaitsForNothing` and `RefreshesDoNotLoop`.
- `TwoFactor_proofs`. What a call is about to write was right when it was read
  (`WriteIsRight`), and approvals come from the phone (`ApprovedByUser`):
  `LoginsAreProved`, for every overlap. While calls do not overlap what was read
  is still so: `ChallengesKeepTheLedger` and `LockoutLocks`, failures included.
- `Accounts_proofs`. A registration owns its user name and its invitation from
  its conditional update on, and the secret of a user is the one an acknowledged
  enrolment has inserted; codes of a call exist only once it is over, and a
  regeneration is of a user that is there: `InvitedUsers` (however registrations
  overlap, who is let in has an invitation of its own and codes) and
  `EnrolmentsAreKept`. Where a user sends one call of a kind at a time, what that
  call has read of the codes, the devices or the drives is still so when it
  writes, though calls of other kinds run next to it (`SingleInvariance`):
  `CodesLetInOnce`, `LastCodesOnly`, `TrustIsLimited`, `DrivesAreSingle`. What
  the run `accounts_totp_removal` shows once is so for every removal: it is
  answered FORBIDDEN, and a secret that is stored stays (`TotpIsNeverRemoved`).
- `FolderTree_proofs`. First lemmas about least closed sets (`BelowLeast`,
  `BelowUp`, `Reparent`, ...), which take the place of an induction over the
  tree. With overlap and failures, the keys of a call are its own and have no
  row, but for a copy that takes its object away and was not told of its row
  (`KeysInv`): `TypeCorrect` (no row outlives its folder's) and
  `RowsHaveObjects`. Without overlap, what a call has read is still so
  (`ReadIsFresh`), and `Reparent` shows that a row put outside its own subtree
  stays connected: `FoldersAreATree`, `LiveFoldersReachable`, `LiveFoldersStay`.
  A file that is visible goes for good only by a call that names it
  (`OnlyNamedFilesGo`): there is no other way to what `folder_live_file_gone`
  loses.
  For the depth, what is above a row is finite and has rows (`RowsAreFinite`,
  `AncestorsAreRows`), and the uploads next to a create only add leaves, so the
  depth it has read is right (`DepthIsFresh`): `FoldersAreCreatedWithinDepth`.
- `FolderListings_proofs`. In calm behaviours an entry that is wrong is about to
  be deleted by a mutation (`CacheInv`), a listing has read what is there
  (`SeenInv`), and when the parent that a move or a removal has read is no longer
  the item's, the item's has no entry (`FromInv`), for whoever moved it there has
  deleted it: `CachesAreRight`, `ScreensAreRight`.
- `PushLogin_proofs`. An approval is a phone's (`ApprovedInv`); what a resend has
  made is known to no phone (`FreshInv`). In calm behaviours a phone answers
  alone, and only what has no answer (`AnswerInv`), and a challenge has one complete
  under way, of which the page that is about it knows (`CompleteInv`):
  `ApprovalsSignInOnce`, `DenialsStay`. A challenge that a resend has expired is
  no longer the page's once an answer about it can arrive (`ResendInv`), so what
  the page has been told of its own has a reason (`ReasonInv`):
  `SentBackRightly`. `WaitersAreServed` needs no premise.

Some of the premises above exclude more than has to be excluded. These theorems
say which overlap alone does the harm; their premise is a state formula that
holds all along (`[]P`), and everything else overlaps and fails as it likes:

| Theorem | As long as | there is |
|---|---|---|
| `OnlyUnlockedTicksLoseFiles` (`UploadSession`) | no tick holds the session of a complete that is past `statObject` | no file without its object, published in time or late |
| `OnlyMovesMakeCycles` (`FolderTree`) | no two moves of folders are under way together | no cycle |
| `OnlyDecisionsClaimTwice` (`TwoFactor`) | no two of respond and complete are between read and write for one challenge | one login per challenge |
| `OnlyVerifyingOutrunsTheLockout` (`TwoFactor`) | no two codes are being verified | `MAX_FAILURES` wrong codes at most |
| `OnlyAnswersOverlap` (`PushLogin`) | no two answers of one challenge, of two phones or of two taps, are under way together | no challenge both approved and denied |
| `OnlyClaimsOverlap` (`PushLogin`) | besides, no two completes have found one challenge approved | one login per approval |
| `OnlyMatchesShareACode` (`Accounts`) | no two logins have matched one backup code and not yet marked it | one login per code |
| `OnlyRegenerationsAddUp` (`Accounts`) | no two regenerations of a user have both read its codes | one generation of codes |
| `OnlyCountsExceedTheLimit` (`Accounts`) | no two registrations of a user have both counted its devices, and none expires | `MaxTrust` devices at most |
| `OnlyLooksDuplicateDrives` (`Accounts`) | no two calls of a user have both found no drive | one personal drive |

So a row lock that a tick keeps while it removes the objects, a lock around the
moves of one user's folders, and one on the row of a challenge from its read to
its write would each be enough for theirs; so would, in `Accounts`, a `markUsed`
that asks for `used_at IS NULL` and whose row count is looked at, a lock on the
row of the user from the read of its codes, or the count of its devices, to the
insert, and a unique index on the owner of a personal drive. TLC also checked
each conclusion with its premise as a constraint, on the constants of the
component's runs or smaller ones.

Only model-checked: the liveness properties, which need ENABLED and fairness.
Of three of them the half that is safety is proved: `WaitingEnds`
(`WaitersAreServed`: who waits polls, or has a complete under way),
`QueuedRequestsEnd` (`NobodyWaitsForNothing`) and `WaitingIssuesEnd`
(`WaitsAreShort`). The others are `SessionsReclaimed`, `SettlesEveryUpload` and
`CacheGetsRight`.

## What is not modelled

- Names, sizes, MIME types, times and payloads, apart from whether an object has
  the declared size. Renames change names only. Parts of a multipart upload are
  one object.
- One SQL statement is one step. Two statements that overlap under READ
  COMMITTED can see parts of one another (a subtree that grows while it is
  deleted, and the cascade of the foreign keys), which `FolderTree` leaves out;
  so are the cascade from folders and users to upload sessions.
- The clocks of api and database are one, so a session that only one of them
  calls expired does not occur in `UploadSession`.
- What a call does after its client has given up waiting for it: in
  `MountCredential` and of the refreshes in `RefreshRotation` an effect comes
  before the end of the call, known or lost, never after the client has gone on.
  Only a logout may be finished by the api when the tab has already left.
- Guards, validation and the permissions of other users: a call is by the owner.
- A trusted device slides its expiry when it is used; here it expires at any
  time. Push tokens (`Devices`) are upserted and deactivated in single statements.
- Cold start and routes: the refresh of `AppShell` is one more sender in the race
  of two tabs, which `RefreshRotation` has.
- The file preview, the other screens, forms and lists of web and admin keep no
  state beyond a query or a mutation. Seeders run once before the api serves.
- A quarter of the lines of the implementation is a generated API client; most of
  the rest is components, DTOs, schemas, configuration and tests' helpers. They
  hold no behaviour that a model could get wrong, so the lines behind the
  definitions are a small share of the repository although every service that
  changes state through more than one statement, seeders aside, is modelled.

## Plan

Done, in the order of what a failure costs: uploads, mount credentials, refresh
rotation, two-factor login, folders and trash, accounts, listings, login by
push. Next:

1. `PushLogin` over `ChallengeLedger`, composed with the `RefreshRotation` that
   starts after it.
2. `FilePreview` (answers out of order), the cascade from folders to upload
   sessions and the orphans it leaves, and the arithmetic of upload parts.
