------------------------------- MODULE Accounts -------------------------------
(***************************************************************************)
(* Accounts and what their users log in with: registration by invitation,  *)
(* backup codes, the TOTP secret, trusted devices and the personal drive   *)
(* (LoginService.register, InvitationService, BackupCodeService,           *)
(* TotpService, TrustedDeviceService, DriveService of the api).            *)
(*                                                                         *)
(* A call is served once and is a sequence of statements, with those of    *)
(* other calls between them.  What a transaction has written counts from   *)
(* its commit on.  The row a call makes has the call's id.  The eight      *)
(* backup codes that are made together are one code here; passwords and    *)
(* codes are right, or the call fails.                                     *)
(***************************************************************************)
EXTENDS Naturals, FiniteSets

CONSTANTS
  Users,        \* usernames
  Invitations,  \* tokens
  Calls,        \* the calls the api serves, once each
  Old,          \* rows that there are before
  None,
  MaxTrust      \* MAX_TRUST_PER_USER

Ids == Calls \cup Old

ASSUME NamesAssumption ==
  /\ Calls \cap Old = {}
  /\ Users \cap Ids = {}
  /\ None \notin Users \cup Invitations \cup Ids
ASSUME FiniteAssumption == IsFiniteSet(Calls) /\ IsFiniteSet(Old)
ASSUME TrustAssumption == MaxTrust \in Nat \ {0}

VARIABLES
  users,    \* the rows of users
  invited,  \* the rows of invitations
  off,      \* those with deactivated_at
  lapsed,   \* those whose expires_at has passed
  usedBy,   \* used_by, set together with used_at
  unused,   \* backup codes
  used,     \* backup codes with used_at
  totp,     \* the row of two_fa_totp
  devices,  \* the rows of trusted_devices
  created,  \* their created_at: the how many-th they are
  expired,  \* those whose expires_at has passed
  drives,   \* the number of rows of drives
  kind, pc, user,
  item,     \* the invitation, code, device or TOTP row a call is about
  seen,     \* the codes or devices it has read
  excess,   \* the devices it has counted too many
  result,   \* its answer
  single    \* in this behaviour no user has two calls of a kind under way

inviteVars == <<invited, off, lapsed, usedBy>>
codeVars   == <<unused, used>>
deviceVars == <<devices, created, expired>>
rowVars    == <<users, inviteVars, codeVars, totp, deviceVars, drives>>
callVars   == <<kind, pc, user, item, seen, excess, result>>
vars       == <<rowVars, callVars, single>>

Kinds == {"register", "codeLogin", "regenerate", "enrol", "unenrol", "trust", "distrust",
          "drive"}
Steps == {"new", "find", "insert", "consume", "oldest", "write", "commit", "done"}

TypeOK ==
  /\ users \subseteq Users
  /\ off \subseteq invited /\ lapsed \subseteq invited /\ invited \subseteq Invitations
  /\ usedBy \in [Invitations -> users \cup {None}]
  /\ unused \in [Users -> SUBSET Ids]
  /\ used \in [Users -> SUBSET Ids]
  /\ \A u \in Users : unused[u] \cap used[u] = {}
  /\ totp \in [Users -> Ids \cup {None}]
  /\ devices \in [Users -> SUBSET Ids]
  /\ created \in [Ids -> Nat]
  /\ expired \subseteq Ids
  /\ drives \in [Users -> Nat]
  /\ kind \in [Calls -> Kinds \cup {"none"}]
  /\ pc \in [Calls -> Steps]
  /\ user \in [Calls -> Users \cup {None}]
  /\ \A c \in Calls : pc[c] # "new" => kind[c] \in Kinds /\ user[c] \in Users
  /\ item \in [Calls -> Invitations \cup Ids \cup {None}]
  /\ seen \in [Calls -> SUBSET Ids]
  /\ excess \in [Calls -> Nat]
  /\ result \in [Calls -> {"none", "ok", "error", "forbidden"}]
  /\ single \in BOOLEAN

(* A user may have been here for a while, with a backup code and with or    *)
(* without a TOTP secret and trusted devices.                               *)
OldUser(u, i, k) ==
  /\ users \in {{}, {u}}
  /\ usedBy = [j \in Invitations |-> IF j = i /\ u \in users THEN u ELSE None]
  /\ invited = IF u \in users THEN {i} ELSE {}
  /\ unused = [v \in Users |-> IF v \in users THEN {k} ELSE {}]
  /\ \E t \in {k, None} : totp = [v \in Users |-> IF v \in users THEN t ELSE None]
  /\ \E D \in SUBSET Old :
       /\ Cardinality(D) <= MaxTrust
       /\ devices = [v \in Users |-> IF v \in users THEN D ELSE {}]

Init ==
  /\ \E u \in Users, i \in Invitations, k \in Old : OldUser(u, i, k)
  /\ off = {} /\ lapsed = {}
  /\ used = [u \in Users |-> {}]
  /\ created \in {f \in [Ids -> 0 .. Cardinality(Old)] :
       /\ \A c \in Calls : f[c] = 0
       /\ \A d \in Old : f[d] > 0
       /\ \A d, e \in Old : f[d] = f[e] => d = e}
  /\ expired \in SUBSET UNION {devices[u] : u \in Users}
  /\ drives = [u \in Users |-> 0]
  /\ kind = [c \in Calls |-> "none"]
  /\ pc = [c \in Calls |-> "new"]
  /\ user = [c \in Calls |-> None]
  /\ item = [c \in Calls |-> None]
  /\ seen = [c \in Calls |-> {}]
  /\ excess = [c \in Calls |-> 0]
  /\ result = [c \in Calls |-> "none"]
  /\ single \in BOOLEAN

-----------------------------------------------------------------------------
(* A call *)

UnderWay(c) == pc[c] \notin {"new", "done"}

Start(c, k, u, i) ==
  /\ pc[c] = "new"
  /\ single => ~\E d \in Calls : UnderWay(d) /\ kind[d] = k /\ user[d] = u
  /\ kind' = [kind EXCEPT ![c] = k]
  /\ user' = [user EXCEPT ![c] = u]
  /\ item' = [item EXCEPT ![c] = i]
  /\ pc' = [pc EXCEPT ![c] = "find"]
  /\ UNCHANGED <<rowVars, seen, excess, result>>

At(c, k, step) == kind[c] = k /\ pc[c] = step

Goto(c, step) ==
  /\ pc' = [pc EXCEPT ![c] = step]
  /\ UNCHANGED <<kind, user, item, result>>

Answer(c, r) ==
  /\ pc' = [pc EXCEPT ![c] = "done"]
  /\ result' = [result EXCEPT ![c] = r]
  /\ seen' = [seen EXCEPT ![c] = {}]
  /\ excess' = [excess EXCEPT ![c] = 0]
  /\ UNCHANGED <<kind, user, item>>

(* The next step, or an exception *)
GoOnIf(c, fine, step) ==
  IF fine THEN Goto(c, step) /\ UNCHANGED <<seen, excess>> ELSE Answer(c, "error")

(* An error or a crash: a transaction is rolled back *)
Fail(c) ==
  /\ UnderWay(c)
  /\ Answer(c, "error")
  /\ UNCHANGED rowVars

-----------------------------------------------------------------------------
(* Invitations and registration *)

(* By an administrator *)
CreateInvitation(i) ==
  /\ i \notin invited
  /\ invited' = invited \cup {i}
  /\ UNCHANGED <<users, off, lapsed, usedBy, codeVars, totp, deviceVars, drives, callVars>>

(* It may have been used *)
Deactivate(i) ==
  /\ i \in invited
  /\ off' = off \cup {i}
  /\ UNCHANGED <<users, invited, lapsed, usedBy, codeVars, totp, deviceVars, drives, callVars>>

InvitationLapses(i) ==
  /\ i \in invited
  /\ lapsed' = lapsed \cup {i}
  /\ UNCHANGED <<users, invited, off, usedBy, codeVars, totp, deviceVars, drives, callVars>>

Register(c, i, u) == Start(c, "register", u, i)

ValidateInvitation(c) ==
  /\ At(c, "register", "find")
  /\ LET i == item[c]
     IN  GoOnIf(c, i \in invited \ (off \cup lapsed) /\ usedBy[i] = None, "insert")
  /\ UNCHANGED rowVars

(* A transaction that has written a row keeps others that want to write the *)
(* same one waiting until it ends.                                          *)
InsertUser(c) ==
  /\ At(c, "register", "insert")
  /\ \A d \in Calls : kind[d] = "register" /\ user[d] = user[c] =>
       pc[d] \notin {"consume", "commit"}
  /\ GoOnIf(c, user[c] \notin users, "consume")
  /\ UNCHANGED rowVars

(* Mutant: whatever used_at is *)
ConsumeAgain(c) ==
  /\ At(c, "register", "consume")
  /\ \A d \in Calls : item[d] = item[c] => ~At(d, "register", "commit")
  /\ GoOnIf(c, TRUE, "commit")
  /\ UNCHANGED rowVars

(* UPDATE ... WHERE used_at IS NULL *)
Consume(c) ==
  /\ At(c, "register", "consume")
  /\ \A d \in Calls : item[d] = item[c] => ~At(d, "register", "commit")
  /\ GoOnIf(c, usedBy[item[c]] = None, "commit")
  /\ UNCHANGED rowVars

CommitRegistration(c) ==
  /\ At(c, "register", "commit")
  /\ users' = users \cup {user[c]}
  /\ unused' = [unused EXCEPT ![user[c]] = {c}]
  /\ usedBy' = [usedBy EXCEPT ![item[c]] = user[c]]
  /\ Answer(c, "ok")
  /\ UNCHANGED <<invited, off, lapsed, used, totp, deviceVars, drives>>

-----------------------------------------------------------------------------
(* Backup codes *)

LoginWithCode(c, u, k) ==
  /\ k \in unused[u] \cup used[u]
  /\ Start(c, "codeLogin", u, k)

(* Mutant: used or not *)
MatchAnyCode(c) ==
  /\ At(c, "codeLogin", "find")
  /\ GoOnIf(c, item[c] \in unused[user[c]] \cup used[user[c]], "write")
  /\ UNCHANGED rowVars

(* The unused codes are compared one after the other *)
MatchCode(c) ==
  /\ At(c, "codeLogin", "find")
  /\ GoOnIf(c, item[c] \in unused[user[c]], "write")
  /\ UNCHANGED rowVars

MarkUsed(c) ==
  /\ At(c, "codeLogin", "write")
  /\ unused' = [unused EXCEPT ![user[c]] = @ \ {item[c]}]
  /\ used' = [used EXCEPT ![user[c]] = @ \cup {item[c]}]
  /\ Answer(c, "ok")
  /\ UNCHANGED <<users, inviteVars, totp, deviceVars, drives>>

Regenerate(c, u) == u \in users /\ Start(c, "regenerate", u, None)

FindUnused(c) ==
  /\ At(c, "regenerate", "find")
  /\ seen' = [seen EXCEPT ![c] = unused[user[c]]]
  /\ Goto(c, "write")
  /\ UNCHANGED <<rowVars, excess>>

(* Mutant: the old codes stay *)
AddCodes(c) ==
  /\ At(c, "regenerate", "write")
  /\ unused' = [unused EXCEPT ![user[c]] = @ \cup {c}]
  /\ Answer(c, "ok")
  /\ UNCHANGED <<users, inviteVars, used, totp, deviceVars, drives>>

Replace(c) ==
  /\ At(c, "regenerate", "write")
  /\ unused' = [unused EXCEPT ![user[c]] = (@ \ seen[c]) \cup {c}]
  /\ used' = [used EXCEPT ![user[c]] = @ \cup seen[c]]
  /\ Answer(c, "ok")
  /\ UNCHANGED <<users, inviteVars, totp, deviceVars, drives>>

-----------------------------------------------------------------------------
(* TOTP *)

Enrol(c, u) == u \in users /\ Start(c, "enrol", u, None)

FindTotp(c) ==
  /\ At(c, "enrol", "find")
  /\ GoOnIf(c, totp[user[c]] = None, "write")
  /\ UNCHANGED rowVars

(* Mutant: an upsert *)
PutTotp(c) ==
  /\ At(c, "enrol", "write")
  /\ totp' = [totp EXCEPT ![user[c]] = c]
  /\ Answer(c, "ok")
  /\ UNCHANGED <<users, inviteVars, codeVars, deviceVars, drives>>

(* user_id is unique *)
InsertTotp(c) ==
  /\ At(c, "enrol", "write")
  /\ IF totp[user[c]] = None
     THEN totp' = [totp EXCEPT ![user[c]] = c] /\ Answer(c, "ok")
     ELSE UNCHANGED totp /\ Answer(c, "error")
  /\ UNCHANGED <<users, inviteVars, codeVars, deviceVars, drives>>

(* The client has the id from the list *)
RemoveStrategy(c, u) ==
  /\ totp[u] # None
  /\ Start(c, "unenrol", u, totp[u])

(* Of the strategies other than push, only backup codes can remain *)
CountRemaining(c) ==
  /\ At(c, "unenrol", "find")
  /\ GoOnIf(c, unused[user[c]] # {} \/ totp[user[c]] \notin {item[c], None}, "write")
  /\ UNCHANGED rowVars

(* TotpRepository.deleteByIdForUser: fine if it was a row of the user's *)
DeleteByIdForUser(c, id, u) ==
  /\ totp' = [v \in Users |-> IF totp[v] = id THEN None ELSE totp[v]]
  /\ Answer(c, IF \E v \in Users : v = u /\ totp[v] = id THEN "ok" ELSE "forbidden")

(* TotpTwoFaStrategy.revoke(userId, id) calls TotpService.revoke(id, userId), *)
(* whose parameters are (userId, id)                                          *)
RevokeTotp(c) ==
  /\ At(c, "unenrol", "write")
  /\ DeleteByIdForUser(c, user[c], item[c])
  /\ UNCHANGED <<users, inviteVars, codeVars, deviceVars, drives>>

-----------------------------------------------------------------------------
(* Trusted devices *)

Active(u) == devices[u] \ expired

DeviceExpires(d) ==
  /\ \E u \in Users : d \in Active(u)
  /\ expired' = expired \cup {d}
  /\ UNCHANGED <<users, inviteVars, codeVars, totp, devices, created, drives, callVars>>

Trust(c, u) == u \in users /\ Start(c, "trust", u, None)

(* Mutant: the new device is not counted *)
CountWithoutNew(c) ==
  /\ At(c, "trust", "find")
  /\ LET n == Cardinality(Active(user[c]))
     IN  /\ excess' = [excess EXCEPT ![c] = IF n > MaxTrust THEN n - MaxTrust ELSE 0]
         /\ Goto(c, IF n > MaxTrust THEN "oldest" ELSE "write")
  /\ UNCHANGED <<rowVars, seen>>

(* countActiveByUserId *)
CountActive(c) ==
  /\ At(c, "trust", "find")
  /\ LET n == Cardinality(Active(user[c]))
     IN  /\ excess' = [excess EXCEPT ![c] = IF n >= MaxTrust THEN n - (MaxTrust - 1) ELSE 0]
         /\ Goto(c, IF n >= MaxTrust THEN "oldest" ELSE "write")
  /\ UNCHANGED <<rowVars, seen>>

(* deleteOldestByUserId: the oldest, expired or not *)
FindOldest(c) ==
  /\ At(c, "trust", "oldest")
  /\ LET mine == devices[user[c]]
         older(d) == {e \in mine : created[e] < created[d]}
     IN  seen' = [seen EXCEPT ![c] = {d \in mine : Cardinality(older(d)) < excess[c]}]
  /\ Goto(c, "write")
  /\ UNCHANGED <<rowVars, excess>>

InsertDevice(c) ==
  /\ At(c, "trust", "write")
  /\ devices' = [devices EXCEPT ![user[c]] = (@ \ seen[c]) \cup {c}]
  /\ created' = [created EXCEPT ![c] = 1 + Cardinality({d \in Ids : created[d] > 0})]
  /\ Answer(c, "ok")
  /\ UNCHANGED <<users, inviteVars, codeVars, totp, expired, drives>>

Distrust(c, u, d) ==
  /\ d \in devices[u]
  /\ Start(c, "distrust", u, d)

FindDevice(c) ==
  /\ At(c, "distrust", "find")
  /\ GoOnIf(c, item[c] \in devices[user[c]], "write")
  /\ UNCHANGED rowVars

DeleteDevice(c) ==
  /\ At(c, "distrust", "write")
  /\ devices' = [devices EXCEPT ![user[c]] = @ \ {item[c]}]
  /\ Answer(c, "ok")
  /\ UNCHANGED <<users, inviteVars, codeVars, totp, created, expired, drives>>

-----------------------------------------------------------------------------
(* The personal drive *)

EnsurePersonalDrive(c, u) == u \in users /\ Start(c, "drive", u, None)

(* Mutant: it is not looked for *)
AssumeNoDrive(c) ==
  /\ At(c, "drive", "find")
  /\ Goto(c, "write")
  /\ UNCHANGED <<rowVars, seen, excess>>

FindDrive(c) ==
  /\ At(c, "drive", "find")
  /\ IF drives[user[c]] > 0 THEN Answer(c, "ok")
                           ELSE Goto(c, "write") /\ UNCHANGED <<seen, excess>>
  /\ UNCHANGED rowVars

(* Only mount_path is unique, and it is made of the new id *)
InsertDrive(c) ==
  /\ At(c, "drive", "write")
  /\ drives' = [drives EXCEPT ![user[c]] = @ + 1]
  /\ Answer(c, "ok")
  /\ UNCHANGED <<users, inviteVars, codeVars, totp, deviceVars>>

-----------------------------------------------------------------------------
Begin(c) ==
  \E u \in Users :
    \/ \E i \in invited : Register(c, i, u)
    \/ \E k \in Ids : LoginWithCode(c, u, k) \/ Distrust(c, u, k)
    \/ Regenerate(c, u)
    \/ Enrol(c, u)
    \/ RemoveStrategy(c, u)
    \/ Trust(c, u)
    \/ EnsurePersonalDrive(c, u)

GoOn(c) ==
  \/ ValidateInvitation(c) \/ InsertUser(c) \/ Consume(c) \/ CommitRegistration(c)
  \/ MatchCode(c) \/ MarkUsed(c)
  \/ FindUnused(c) \/ Replace(c)
  \/ FindTotp(c) \/ InsertTotp(c)
  \/ CountRemaining(c) \/ RevokeTotp(c)
  \/ CountActive(c) \/ FindOldest(c) \/ InsertDevice(c)
  \/ FindDevice(c) \/ DeleteDevice(c)
  \/ FindDrive(c) \/ InsertDrive(c)

Next ==
  /\ UNCHANGED single
  /\ \/ \E c \in Calls : Begin(c) \/ GoOn(c) \/ Fail(c)
     \/ \E i \in Invitations : CreateInvitation(i) \/ Deactivate(i) \/ InvitationLapses(i)
     \/ \E d \in Ids : DeviceExpires(d)

Spec == Init /\ [][Next]_vars

-----------------------------------------------------------------------------
(* Properties *)

(* However registrations overlap and fail: a user has been let in by an     *)
(* invitation that names no one else, and has been given backup codes.      *)
UsersAreComplete ==
  \A u \in users :
    /\ \E i \in Invitations : usedBy[i] = u
    /\ unused[u] \cup used[u] # {}

(* However enrolments overlap and fail: the secret whose enrolment has been *)
(* acknowledged, the one in the authenticator app, is the one that is kept. *)
EnrolmentIsKept ==
  \A c \in Calls : kind[c] = "enrol" /\ result[c] = "ok" => totp[user[c]] = c

(* While a user does not send two calls of a kind at a time: a backup code  *)
(* lets one login through.                                                  *)
OneLoginPerCode ==
  single => \A c, d \in Calls :
    /\ kind[c] = "codeLogin" /\ result[c] = "ok"
    /\ kind[d] = "codeLogin" /\ result[d] = "ok"
    /\ item[c] = item[d]
    => c = d

(* While a user does not send two calls of a kind at a time: only the codes *)
(* that were made last are good, also next to a login with an older one.    *)
OneGenerationOfCodes == single => \A u \in Users : Cardinality(unused[u]) <= 1

(* While a user does not send two calls of a kind at a time, and as long as *)
(* no device has expired: a user trusts MaxTrust devices at most.  An       *)
(* expired row is never removed otherwise, and takes the place of an active *)
(* one among the oldest, so nothing holds after that.                       *)
TrustWithinLimit ==
  single /\ expired = {} => \A u \in Users : Cardinality(devices[u]) <= MaxTrust

(* While a user does not send two calls of a kind at a time: it has one     *)
(* personal drive.                                                          *)
OneDrive == single => \A u \in Users : drives[u] <= 1

(* The strategy's tests: a TOTP secret of the user's own can be removed     *)
OwnTotpCanBeRemoved ==
  \A c \in Calls : kind[c] = "unenrol" => result[c] # "forbidden"
=============================================================================
