------------------------------ MODULE TwoFactor ------------------------------
(***************************************************************************)
(* The second factor of one user's logins: the challenges, the calls of    *)
(* the api that read one and then write it (respond, status, resend and    *)
(* complete), and the counter in redis that locks TOTP after some wrong    *)
(* codes.                                                                  *)
(*                                                                         *)
(* Every call reads the challenge, decides, and writes by id, whatever the *)
(* row says then.  A complete is one transaction; status is what is        *)
(* committed.  A call whose first read sends it away changes nothing and   *)
(* is left out.                                                            *)
(***************************************************************************)
EXTENDS Naturals

CONSTANTS
  Challenges,   \* as many as the behaviour has
  Calls,        \* calls of the api: as many as the behaviour has
  None,         \* no challenge
  MaxFailures   \* MAX_FAILURES of the lockout

ASSUME NoneAssumption == None \notin Challenges
ASSUME LimitAssumption == MaxFailures \in Nat \ {0}

VARIABLES
  serial,     \* the user's calls come one after the other: chosen at first,
              \* never changed
  status,     \* of a challenge, as committed
  timeUp,     \* expires_at of a challenge has passed
  kind,       \* what a call is
  pc,         \* where it is
  on,         \* the challenge it is for
  want,       \* the status it is about to write
  seen,       \* the counter it has read
  failures,   \* the counter in redis
  approvals,  \* history: the challenges approved on the phone
  right,      \* history: the calls whose TOTP code was right
  claims,     \* history: how many completes of a challenge have committed
  tries       \* history: wrong codes compared since the counter was last reset,
              \* those of calls that ended before they had counted left out

callVars    == <<kind, pc, on, want, seen>>
historyVars == <<approvals, right, claims, tries>>
vars == <<serial, status, timeUp, callVars, failures, historyVars>>

Statuses == {"none", "PENDING", "APPROVED", "DENIED", "EXPIRED"}
Completes == {"PUSH", "TOTP"}
Kinds == {"none", "respond", "status", "resend"} \cup Completes
Over == {"idle", "in", "ended"}
Checks == {"lockout", "verify", "count", "set", "clear"}

TypeOK ==
  /\ serial \in BOOLEAN
  /\ status \in [Challenges -> Statuses]
  /\ timeUp \in [Challenges -> BOOLEAN]
  /\ kind \in [Calls -> Kinds]
  /\ pc \in [Calls -> Over \cup Checks \cup {"write", "insert", "held", "claimed"}]
  /\ on \in [Calls -> Challenges \cup {None}]
  /\ \A c \in Calls : pc[c] # "idle" => on[c] \in Challenges /\ kind[c] # "none"
  /\ \A c \in Calls : pc[c] = "insert" => kind[c] = "resend"
  /\ \A c \in Calls : pc[c] \in Checks \cup {"held", "claimed", "in"} => kind[c] \in Completes
  /\ want \in [Calls -> Statuses]
  /\ seen \in [Calls -> Nat]
  /\ failures \in Nat
  /\ approvals \in SUBSET Challenges
  /\ right \in SUBSET Calls
  /\ claims \in [Challenges -> Nat]
  /\ tries \in Nat

Init ==
  /\ serial \in BOOLEAN
  /\ status = [ch \in Challenges |-> "none"]
  /\ timeUp = [ch \in Challenges |-> FALSE]
  /\ kind = [c \in Calls |-> "none"]
  /\ pc = [c \in Calls |-> "idle"]
  /\ on = [c \in Calls |-> None]
  /\ want = [c \in Calls |-> "none"]
  /\ seen = [c \in Calls |-> 0]
  /\ failures = 0
  /\ approvals = {}
  /\ right = {}
  /\ claims = [ch \in Challenges |-> 0]
  /\ tries = 0

-----------------------------------------------------------------------------
(* Challenges *)

(* A login with the right password creates one *)
CreateChallenge(ch) ==
  /\ status[ch] = "none"
  /\ status' = [status EXCEPT ![ch] = "PENDING"]
  /\ UNCHANGED <<timeUp, callVars, failures, historyVars>>

PassTime(ch) ==
  /\ status[ch] # "none"
  /\ ~timeUp[ch]
  /\ timeUp' = [timeUp EXCEPT ![ch] = TRUE]
  /\ UNCHANGED <<status, callVars, failures, historyVars>>

-----------------------------------------------------------------------------
(* A call starts: findById *)

UnderWay(c) == pc[c] \notin Over

Found(c, k, ch, w, next) ==
  /\ pc[c] = "idle"
  /\ serial => \A d \in Calls : ~UnderWay(d)
  /\ kind' = [kind EXCEPT ![c] = k]
  /\ on' = [on EXCEPT ![c] = ch]
  /\ want' = [want EXCEPT ![c] = w]
  /\ pc' = [pc EXCEPT ![c] = next]
  /\ UNCHANGED <<status, timeUp, seen, failures, historyVars>>

InTime(ch) == status[ch] = "PENDING" /\ ~timeUp[ch]

(* The user has picked the right number on the phone, or another one *)
Respond(c, ch) ==
  /\ InTime(ch)
  /\ \E w \in {"APPROVED", "DENIED"} : Found(c, "respond", ch, w, "write")

GetStatus(c, ch) ==
  /\ status[ch] = "PENDING"
  /\ timeUp[ch]
  /\ Found(c, "status", ch, "EXPIRED", "write")

Resend(c, ch) ==
  /\ status[ch] # "none"
  /\ Found(c, "resend", ch, "EXPIRED",
           IF status[ch] = "PENDING" THEN "write" ELSE "insert")

(* Mutant: the status is not checked *)
ClaimAnyStatus(c, ch) ==
  /\ status[ch] # "none"
  /\ Found(c, "PUSH", ch, "EXPIRED", "write")

(* claimApprovedChallenge does not look at expires_at *)
CompletePush(c, ch) ==
  /\ status[ch] = "APPROVED"
  /\ Found(c, "PUSH", ch, "EXPIRED", "write")

CompleteTotp(c, ch) ==
  /\ InTime(ch)
  /\ Found(c, "TOTP", ch, "EXPIRED", "lockout")

-----------------------------------------------------------------------------
(* A call goes on *)

Goto(c, next) == pc' = [pc EXCEPT ![c] = next]

(* updateStatus of an open complete keeps the row locked until it commits *)
Held(ch) == \E d \in Calls : pc[d] = "held" /\ on[d] = ch

UpdateStatus(c) ==
  /\ pc[c] = "write"
  /\ kind[c] \notin Completes
  /\ ~Held(on[c])
  /\ status' = [status EXCEPT ![on[c]] = want[c]]
  /\ approvals' = IF want[c] = "APPROVED" THEN approvals \cup {on[c]} ELSE approvals
  /\ Goto(c, IF kind[c] = "resend" THEN "insert" ELSE "ended")
  /\ UNCHANGED <<timeUp, kind, on, want, seen, failures, right, claims, tries>>

InsertResent(c, ch) ==
  /\ pc[c] = "insert"
  /\ status[ch] = "none"
  /\ status' = [status EXCEPT ![ch] = "PENDING"]
  /\ Goto(c, "ended")
  /\ UNCHANGED <<timeUp, kind, on, want, seen, failures, historyVars>>

Claim(c) ==
  /\ pc[c] = "write"
  /\ kind[c] \in Completes
  /\ ~Held(on[c])
  /\ Goto(c, "held")
  /\ UNCHANGED <<status, timeUp, kind, on, want, seen, failures, historyVars>>

(* Mutant: the claim does not reach the row *)
CommitWithoutStatus(c) ==
  /\ pc[c] = "held"
  /\ claims' = [claims EXCEPT ![on[c]] = @ + 1]
  /\ Goto(c, "claimed")
  /\ UNCHANGED <<status, timeUp, kind, on, want, seen, failures, approvals,
                 right, tries>>

(* The device is trusted if the user asked for it, and the tx commits *)
Commit(c) ==
  /\ pc[c] = "held"
  /\ status' = [status EXCEPT ![on[c]] = want[c]]
  /\ claims' = [claims EXCEPT ![on[c]] = @ + 1]
  /\ Goto(c, "claimed")
  /\ UNCHANGED <<timeUp, kind, on, want, seen, failures, approvals, right, tries>>

IssueAuthenticatedResponse(c) ==
  /\ pc[c] = "claimed"
  /\ Goto(c, "in")
  /\ UNCHANGED <<status, timeUp, kind, on, want, seen, failures, historyVars>>

(* An open transaction is rolled back; the counter is not part of it, and   *)
(* a wrong code that is not counted yet is never counted.                   *)
Fail(c) ==
  /\ UnderWay(c)
  /\ Goto(c, "ended")
  /\ tries' = IF pc[c] \in {"count", "set"} /\ tries > 0 THEN tries - 1 ELSE tries
  /\ UNCHANGED <<status, timeUp, kind, on, want, seen, failures, approvals,
                 right, claims>>

-----------------------------------------------------------------------------
(* TotpTwoFaStrategy.verifyResponse and TotpLockoutService *)

IsLocked(c) ==
  /\ pc[c] = "lockout"
  /\ Goto(c, IF failures >= MaxFailures THEN "ended" ELSE "verify")
  /\ UNCHANGED <<status, timeUp, kind, on, want, seen, failures, historyVars>>

(* updateLastUsedAt keeps the user's TOTP row locked until the tx ends *)
TotpHeld ==
  \E d \in Calls : kind[d] = "TOTP" /\ pc[d] \in {"clear", "write", "held"}

VerifyRight(c) ==
  /\ pc[c] = "verify"
  /\ ~TotpHeld
  /\ right' = right \cup {c}
  /\ Goto(c, "clear")
  /\ UNCHANGED <<status, timeUp, kind, on, want, seen, failures, approvals,
                 claims, tries>>

VerifyWrong(c) ==
  /\ pc[c] = "verify"
  /\ tries' = tries + 1
  /\ Goto(c, "count")
  /\ UNCHANGED <<status, timeUp, kind, on, want, seen, failures, approvals,
                 right, claims>>

GetFailureCount(c) ==
  /\ pc[c] = "count"
  /\ seen' = [seen EXCEPT ![c] = failures]
  /\ Goto(c, "set")
  /\ UNCHANGED <<status, timeUp, kind, on, want, failures, historyVars>>

(* Mutant: a wrong code does not count *)
SetSeenCount(c) ==
  /\ pc[c] = "set"
  /\ failures' = seen[c]
  /\ Goto(c, "ended")
  /\ UNCHANGED <<status, timeUp, kind, on, want, seen, historyVars>>

SetFailureCount(c) ==
  /\ pc[c] = "set"
  /\ failures' = seen[c] + 1
  /\ Goto(c, "ended")
  /\ UNCHANGED <<status, timeUp, kind, on, want, seen, historyVars>>

ClearLockout(c) ==
  /\ pc[c] = "clear"
  /\ failures' = 0
  /\ tries' = 0
  /\ Goto(c, "write")
  /\ UNCHANGED <<status, timeUp, kind, on, want, seen, approvals, right, claims>>

(* TTL_MS after the last wrong code *)
ForgetFailures ==
  /\ failures > 0
  /\ failures' = 0
  /\ tries' = 0
  /\ UNCHANGED <<status, timeUp, callVars, approvals, right, claims>>

-----------------------------------------------------------------------------
Start(c, ch) ==
  \/ Respond(c, ch)
  \/ GetStatus(c, ch)
  \/ Resend(c, ch)
  \/ CompletePush(c, ch)
  \/ CompleteTotp(c, ch)

Step(c) ==
  \/ UpdateStatus(c)
  \/ Claim(c)
  \/ Commit(c)
  \/ IssueAuthenticatedResponse(c)
  \/ Fail(c)
  \/ IsLocked(c)
  \/ VerifyRight(c)
  \/ VerifyWrong(c)
  \/ GetFailureCount(c)
  \/ SetFailureCount(c)
  \/ ClearLockout(c)

Next ==
  /\ UNCHANGED serial
  /\ \/ \E ch \in Challenges : CreateChallenge(ch) \/ PassTime(ch)
     \/ \E c \in Calls, ch \in Challenges : Start(c, ch) \/ InsertResent(c, ch)
     \/ \E c \in Calls : Step(c)
     \/ ForgetFailures

Spec == Init /\ [][Next]_vars

-----------------------------------------------------------------------------
(* Properties *)

(* However the calls overlap and fail, a complete lets a login through only *)
(* if the user approved that very challenge on the phone, or if the call    *)
(* itself came with a right code.                                           *)
LoginNeedsProof ==
  \A c \in Calls :
    pc[c] \in {"held", "claimed", "in"} => on[c] \in approvals \/ c \in right

(* The lockout of the fallback strategies' design: after MAX_FAILURES wrong *)
(* codes the next one is not looked at, but for the wrong codes of calls    *)
(* that ended before they had counted.  While the calls do not overlap.     *)
TriesBounded == serial => tries <= MaxFailures

(* While the calls do not overlap, the challenges are what they promise; of *)
(* those that do, nothing is said.                                          *)
Ledger == INSTANCE ChallengeLedger WITH
            state <- IF serial THEN status ELSE [ch \in Challenges |-> "none"],
            used <- IF serial THEN claims ELSE [ch \in Challenges |-> 0]
ImplementsLedger == Ledger!Spec
=============================================================================
