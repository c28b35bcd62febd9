------------------------------- MODULE PushLogin -------------------------------
(***************************************************************************)
(* A login that is approved on a phone, from end to end: the login page    *)
(* and the waiting page of one browser (useLogin, useTwoFactorPolling),    *)
(* the calls of the api they and the phones make, the queue of pushes and  *)
(* its worker (PushChallengePublisher, PushWorker), and the phones of the  *)
(* user (useTwoFactorRespond).                                             *)
(*                                                                         *)
(* TwoFactor has the challenges against any calls; here they are made by   *)
(* the pages as the code of the pages makes them.  A status in transit is  *)
(* the challenge's as it was read.                                         *)
(***************************************************************************)
EXTENDS Naturals, FiniteSets

CONSTANTS
  Challenges,  \* as many as the behaviour has
  Phones,      \* the user's devices with a push token
  Answers,     \* the calls of respond the api serves at the same time
  Resends,     \* the calls of resend it serves at the same time
  None,
  Attempts,    \* attempts of a job in the queue
  Completes    \* bound: completes of a challenge that do not fail, when the
               \* user returns to its waiting page

ASSUME NoneAssumption == None \notin Challenges \cup Resends
ASSUME BoundsAssumption == Attempts \in Nat \ {0} /\ Completes \in Nat \ {0}

VARIABLES
  status, timeUp,
  queue,      \* attempts that a job for a challenge and a phone has left
  told,       \* notifications on a phone
  answering,  \* the challenge that a respond has found pending
  page, reason,
  initial,    \* the challenge in the address of the waiting page
  cur,        \* challengeId of the page
  polling,    \* pollEnabled
  data,       \* the statuses in the browser's query cache
  completed,  \* completedRef
  awaited,    \* the resend whose answer the page takes: its last one
  polled,     \* the challenge of the status call under way
  got,        \* what it has read
  logging,    \* the challenge of the login under way
  rest,       \* the phones it has not published for
  rpc,        \* where a resend is
  resending,  \* the challenge it is for
  fresh,      \* the one it has made
  asked,      \* completes that have not read the challenge
  claiming,   \* completes that have read APPROVED
  claimed,    \* completes that have committed
  approved, denied,  \* history: the answers that phones have given
  calm        \* in this behaviour what calm keeps apart does not overlap

serverVars == <<status, timeUp, queue>>
phoneVars  == <<told, answering, approved, denied>>
pageVars   == <<page, reason, initial, cur, polling, data, completed, awaited>>
pollVars   == <<polled, got>>
loginVars  == <<logging, rest>>
resendVars == <<rpc, resending, fresh>>
claimVars  == <<asked, claiming, claimed>>
vars == <<serverVars, phoneVars, pageVars, pollVars, loginVars, resendVars, claimVars, calm>>

Statuses == {"none", "PENDING", "APPROVED", "DENIED", "EXPIRED"}
MaybeChallenge == Challenges \cup {None}

TypeOK ==
  /\ status \in [Challenges -> Statuses]
  /\ timeUp \in [Challenges -> BOOLEAN]
  /\ queue \in [Challenges -> [Phones -> 0 .. Attempts]]
  /\ told \in [Phones -> SUBSET Challenges]
  /\ answering \in [Answers -> MaybeChallenge]
  /\ approved \subseteq Challenges /\ denied \subseteq Challenges
  /\ page \in {"login", "waiting", "backup", "drive"}
  /\ reason \in {"none", "denied", "failed"}
  /\ initial \in MaybeChallenge /\ cur \in MaybeChallenge
  /\ page = "waiting" => cur \in Challenges
  /\ polling \in BOOLEAN /\ completed \in BOOLEAN
  /\ data \in [Challenges -> Statuses]
  /\ awaited \in Resends \cup {None}
  /\ polled \in MaybeChallenge
  /\ got \in Statuses \cup {"late"}
  /\ logging \in MaybeChallenge
  /\ rest \subseteq Phones
  /\ rpc \in [Resends -> {"idle", "find", "expire", "insert", "answer"}]
  /\ resending \in [Resends -> MaybeChallenge]
  /\ \A r \in Resends : rpc[r] # "idle" => resending[r] # None
  /\ fresh \in [Resends -> MaybeChallenge]
  /\ \A r \in Resends : rpc[r] = "answer" => fresh[r] # None
  /\ asked \in [Challenges -> Nat]
  /\ claiming \in [Challenges -> Nat]
  /\ claimed \in [Challenges -> Nat]
  /\ calm \in BOOLEAN

Init ==
  /\ status = [c \in Challenges |-> "none"]
  /\ timeUp = [c \in Challenges |-> FALSE]
  /\ queue = [c \in Challenges |-> [p \in Phones |-> 0]]
  /\ told = [p \in Phones |-> {}]
  /\ answering = [a \in Answers |-> None]
  /\ approved = {} /\ denied = {}
  /\ page = "login" /\ reason = "none"
  /\ initial = None /\ cur = None
  /\ polling = FALSE /\ completed = FALSE /\ awaited = None
  /\ data = [c \in Challenges |-> "none"]
  /\ polled = None /\ got = "none"
  /\ logging = None /\ rest = {}
  /\ rpc = [r \in Resends |-> "idle"]
  /\ resending = [r \in Resends |-> None]
  /\ fresh = [r \in Resends |-> None]
  /\ asked = [c \in Challenges |-> 0]
  /\ claiming = [c \in Challenges |-> 0]
  /\ claimed = [c \in Challenges |-> 0]
  /\ calm \in BOOLEAN

Completing(c) == asked[c] + claiming[c] > 0
NobodyAnswers == \A a \in Answers : answering[a] = None
NobodyResends == \A r \in Resends : rpc[r] = "idle"

PassTime(c) ==
  /\ status[c] = "PENDING"
  /\ ~timeUp[c]
  /\ timeUp' = [timeUp EXCEPT ![c] = TRUE]
  /\ UNCHANGED <<status, queue, phoneVars, pageVars, pollVars, loginVars, resendVars,
                 claimVars, calm>>

-----------------------------------------------------------------------------
(* The pages *)

(* The status the waiting page shows *)
Shown == IF page = "waiting" THEN data[cur] ELSE "none"

(* The waiting page is mounted: a new component *)
Mount(c) ==
  /\ page' = "waiting" /\ reason' = "none"
  /\ initial' = c /\ cur' = c
  /\ polling' = TRUE /\ completed' = FALSE /\ awaited' = None

(* It is unmounted: status and resend are answered to nobody *)
Unmount(p, r) ==
  /\ page' = p /\ reason' = r
  /\ polling' = FALSE /\ completed' = FALSE /\ awaited' = None
  /\ UNCHANGED <<initial, cur, data>>

-----------------------------------------------------------------------------
(* Login: the challenge, then one job per phone.  Bound: a behaviour has one *)
(* login that leads to a waiting page.                                      *)

Login(c) ==
  /\ page = "login" /\ logging = None
  /\ initial = None
  /\ status[c] = "none"
  /\ status' = [status EXCEPT ![c] = "PENDING"]
  /\ logging' = c
  /\ rest' = Phones
  /\ UNCHANGED <<timeUp, queue, phoneVars, pageVars, pollVars, resendVars, claimVars, calm>>

Publish(p) ==
  /\ logging # None
  /\ p \in rest
  /\ queue' = [queue EXCEPT ![logging][p] = Attempts]
  /\ rest' = rest \ {p}
  /\ UNCHANGED <<status, timeUp, phoneVars, pageVars, pollVars, logging, resendVars,
                 claimVars, calm>>

LoginAnswer ==
  /\ logging # None
  /\ rest = {}
  /\ logging' = None
  /\ IF page = "login" THEN Mount(logging) /\ UNCHANGED data ELSE UNCHANGED pageVars
  /\ UNCHANGED <<serverVars, phoneVars, pollVars, rest, resendVars, claimVars, calm>>

LoginFail ==
  /\ logging # None
  /\ logging' = None
  /\ rest' = {}
  /\ UNCHANGED <<serverVars, phoneVars, pageVars, pollVars, resendVars, claimVars, calm>>

-----------------------------------------------------------------------------
(* The queue and its worker *)

(* A job may be done, and still be done again: the worker stops before it   *)
(* says so, and the attempt counts or does not.                             *)
Send(c, p) ==
  /\ queue[c][p] > 0
  /\ told' = [told EXCEPT ![p] = @ \cup {c}]
  /\ \E n \in {0, queue[c][p] - 1} : queue' = [queue EXCEPT ![c][p] = n]
  /\ UNCHANGED <<status, timeUp, answering, approved, denied, pageVars, pollVars,
                 loginVars, resendVars, claimVars, calm>>

SendFails(c, p) ==
  /\ queue[c][p] > 0
  /\ queue' = [queue EXCEPT ![c][p] = @ - 1]
  /\ UNCHANGED <<status, timeUp, phoneVars, pageVars, pollVars, loginVars, resendVars,
                 claimVars, calm>>

-----------------------------------------------------------------------------
(* A phone *)

(* Mutant: only the time is checked *)
RespondInTime(p, c, a) ==
  /\ c \in told[p]
  /\ answering[a] = None
  /\ calm => NobodyResends /\ NobodyAnswers
  /\ answering' = IF status[c] # "none" /\ ~timeUp[c]
                  THEN [answering EXCEPT ![a] = c] ELSE answering
  /\ UNCHANGED <<serverVars, told, approved, denied, pageVars, pollVars, loginVars,
                 resendVars, claimVars, calm>>

(* The notification is opened and a number is picked, the right one or      *)
(* another.  The buttons stay until the answer is there, so a phone may     *)
(* answer again meanwhile.  An answer that is too late is dropped, and the  *)
(* page says either that it is, or that the choice is made.                 *)
Respond(p, c, a) ==
  /\ c \in told[p]
  /\ answering[a] = None
  /\ calm => NobodyResends /\ NobodyAnswers
  /\ answering' = IF status[c] = "PENDING" /\ ~timeUp[c]
                  THEN [answering EXCEPT ![a] = c] ELSE answering
  /\ UNCHANGED <<serverVars, told, approved, denied, pageVars, pollVars, loginVars,
                 resendVars, claimVars, calm>>

UpdateStatus(a) ==
  /\ answering[a] # None
  /\ \/ /\ status' = [status EXCEPT ![answering[a]] = "APPROVED"]
        /\ approved' = approved \cup {answering[a]}
        /\ UNCHANGED denied
     \/ /\ status' = [status EXCEPT ![answering[a]] = "DENIED"]
        /\ denied' = denied \cup {answering[a]}
        /\ UNCHANGED approved
  /\ answering' = [answering EXCEPT ![a] = None]
  /\ UNCHANGED <<timeUp, queue, told, pageVars, pollVars, loginVars, resendVars, claimVars,
                 calm>>

RespondFails(a) ==
  /\ answering[a] # None
  /\ answering' = [answering EXCEPT ![a] = None]
  /\ UNCHANGED <<serverVars, told, approved, denied, pageVars, pollVars, loginVars,
                 resendVars, claimVars, calm>>

-----------------------------------------------------------------------------
(* The status, every three seconds *)

Poll ==
  /\ page = "waiting" /\ polling
  /\ polled = None
  /\ calm => NobodyResends
  /\ polled' = cur
  /\ got' = "none"
  /\ UNCHANGED <<serverVars, phoneVars, pageVars, loginVars, resendVars, claimVars, calm>>

GetStatus ==
  /\ polled # None /\ got = "none"
  /\ got' = CASE status[polled] = "PENDING" /\ timeUp[polled]  -> "late"
              [] status[polled] = "PENDING" /\ ~timeUp[polled] -> "PENDING"
              [] status[polled] = "APPROVED"                   -> "APPROVED"
              [] status[polled] \in {"DENIED", "EXPIRED"}      -> "DENIED"
  /\ UNCHANGED <<serverVars, phoneVars, pageVars, polled, loginVars, resendVars, claimVars,
                 calm>>

ExpireLate ==
  /\ got = "late"
  /\ status' = [status EXCEPT ![polled] = "EXPIRED"]
  /\ got' = "EXPIRED"
  /\ UNCHANGED <<timeUp, queue, phoneVars, pageVars, polled, loginVars, resendVars,
                 claimVars, calm>>

(* It counts while the page is still about that challenge *)
PollAnswer ==
  /\ got \notin {"none", "late"}
  /\ polled' = None
  /\ got' = "none"
  /\ data' = IF page = "waiting" /\ cur = polled THEN [data EXCEPT ![cur] = got] ELSE data
  /\ UNCHANGED <<serverVars, phoneVars, page, reason, initial, cur, polling, completed,
                 awaited, loginVars, resendVars, claimVars, calm>>

(* retry is off, but the interval goes on.  One that fails has not read the *)
(* status: to the page it is the same as one whose answer is lost.          *)
PollFails ==
  /\ polled # None /\ got = "none"
  /\ polled' = None
  /\ got' = "none"
  /\ UNCHANGED <<serverVars, phoneVars, pageVars, loginVars, resendVars, claimVars, calm>>

(* The effect runs after a render: it sends the user away ... *)
LeaveDenied ==
  /\ Shown \in {"DENIED", "EXPIRED"}
  /\ Unmount("login", "denied")
  /\ UNCHANGED <<serverVars, phoneVars, pollVars, loginVars, resendVars, claimVars, calm>>

(* Mutant: every render completes *)
CompleteAgain ==
  /\ Shown = "APPROVED"
  /\ asked[cur] < 2
  /\ completed' = TRUE
  /\ polling' = FALSE
  /\ asked' = [asked EXCEPT ![cur] = @ + 1]
  /\ UNCHANGED <<serverVars, phoneVars, page, reason, initial, cur, data, awaited, pollVars,
                 loginVars, resendVars, claiming, claimed, calm>>

(* ... or completes the login, once *)
Complete ==
  /\ Shown = "APPROVED"
  /\ ~completed
  /\ completed' = TRUE
  /\ polling' = FALSE
  /\ asked' = [asked EXCEPT ![cur] = @ + 1]
  /\ UNCHANGED <<serverVars, phoneVars, page, reason, initial, cur, data, awaited, pollVars,
                 loginVars, resendVars, claiming, claimed, calm>>

-----------------------------------------------------------------------------
(* complete: one transaction that claims the challenge *)

(* Mutant: an error is not caught *)
AnswerSuccessOnly(ok) ==
  IF ok THEN Unmount("drive", "none") ELSE UNCHANGED pageVars

(* Whatever the page is by now: the promise outlives the component *)
AnswerComplete(ok) ==
  IF ok THEN Unmount("drive", "none") ELSE Unmount("login", "failed")

Claim(c) ==
  /\ asked[c] > 0
  /\ status[c] = "APPROVED"
  /\ asked' = [asked EXCEPT ![c] = @ - 1]
  /\ claiming' = [claiming EXCEPT ![c] = @ + 1]
  /\ UNCHANGED <<serverVars, phoneVars, pageVars, pollVars, loginVars, resendVars, claimed,
                 calm>>

(* EXPIRED is written and committed; the answer may be lost *)
Commit(c) ==
  /\ claiming[c] > 0
  /\ status' = [status EXCEPT ![c] = "EXPIRED"]
  /\ claiming' = [claiming EXCEPT ![c] = @ - 1]
  /\ claimed' = [claimed EXCEPT ![c] = @ + 1]
  /\ \E ok \in BOOLEAN : AnswerComplete(ok)
  /\ UNCHANGED <<timeUp, queue, phoneVars, pollVars, loginVars, resendVars, asked, calm>>

(* The challenge is not approved any more, or anything else fails *)
CompleteFails(c) ==
  /\ \/ /\ asked[c] > 0
        /\ asked' = [asked EXCEPT ![c] = @ - 1]
        /\ UNCHANGED claiming
     \/ /\ claiming[c] > 0
        /\ claiming' = [claiming EXCEPT ![c] = @ - 1]
        /\ UNCHANGED asked
  /\ AnswerComplete(FALSE)
  /\ UNCHANGED <<serverVars, phoneVars, pollVars, loginVars, resendVars, claimed, calm>>

-----------------------------------------------------------------------------
(* Resend *)

(* The button stays, so resends may overlap; the page takes the answer of   *)
(* its last one.  Bound: a challenge is left to be made.                    *)
Resend(r) ==
  /\ page = "waiting"
  /\ rpc[r] = "idle"
  /\ \E c \in Challenges : status[c] = "none"
  /\ calm => polled = None /\ Shown # "APPROVED" /\ NobodyResends /\ NobodyAnswers
  /\ rpc' = [rpc EXCEPT ![r] = "find"]
  /\ resending' = [resending EXCEPT ![r] = cur]
  /\ awaited' = r
  /\ UNCHANGED <<serverVars, phoneVars, page, reason, initial, cur, polling, data, completed,
                 pollVars, loginVars, fresh, claimVars, calm>>

ResendFind(r) ==
  /\ rpc[r] = "find"
  /\ rpc' = [rpc EXCEPT ![r] = IF status[resending[r]] = "PENDING" THEN "expire" ELSE "insert"]
  /\ UNCHANGED <<serverVars, phoneVars, pageVars, pollVars, loginVars, resending, fresh,
                 claimVars, calm>>

ResendExpire(r) ==
  /\ rpc[r] = "expire"
  /\ status' = [status EXCEPT ![resending[r]] = "EXPIRED"]
  /\ rpc' = [rpc EXCEPT ![r] = "insert"]
  /\ UNCHANGED <<timeUp, queue, phoneVars, pageVars, pollVars, loginVars, resending, fresh,
                 claimVars, calm>>

(* Nothing is published for the new challenge *)
ResendInsert(r, c) ==
  /\ rpc[r] = "insert"
  /\ status[c] = "none"
  /\ status' = [status EXCEPT ![c] = "PENDING"]
  /\ rpc' = [rpc EXCEPT ![r] = "answer"]
  /\ fresh' = [fresh EXCEPT ![r] = c]
  /\ UNCHANGED <<timeUp, queue, phoneVars, pageVars, pollVars, loginVars, resending,
                 claimVars, calm>>

ResendEnds(r) ==
  /\ rpc' = [rpc EXCEPT ![r] = "idle"]
  /\ resending' = [resending EXCEPT ![r] = None]
  /\ fresh' = [fresh EXCEPT ![r] = None]

(* Mutant: a resend that has no answer yet is taken for answered *)
ResendAnswerUnchecked(r) ==
  /\ rpc[r] # "idle"
  /\ ResendEnds(r)
  /\ IF awaited = r
     THEN /\ cur' = fresh[r]
          /\ polling' = TRUE /\ completed' = FALSE /\ awaited' = None
     ELSE UNCHANGED <<cur, polling, completed, awaited>>
  /\ UNCHANGED <<serverVars, phoneVars, page, reason, initial, data, pollVars, loginVars,
                 claimVars, calm>>

(* Mutant: the page keeps its challenge *)
ResendAnswerToOld(r) ==
  /\ rpc[r] = "answer"
  /\ ResendEnds(r)
  /\ IF awaited = r
     THEN polling' = TRUE /\ completed' = FALSE /\ awaited' = None
     ELSE UNCHANGED <<polling, completed, awaited>>
  /\ UNCHANGED <<serverVars, phoneVars, page, reason, initial, cur, data, pollVars, loginVars,
                 claimVars, calm>>

ResendAnswer(r) ==
  /\ rpc[r] = "answer"
  /\ ResendEnds(r)
  /\ IF awaited = r
     THEN /\ cur' = fresh[r]
          /\ polling' = TRUE /\ completed' = FALSE /\ awaited' = None
     ELSE UNCHANGED <<cur, polling, completed, awaited>>
  /\ UNCHANGED <<serverVars, phoneVars, page, reason, initial, data, pollVars, loginVars,
                 claimVars, calm>>

(* At any statement, or when all is done and the answer is lost *)
ResendFails(r) ==
  /\ rpc[r] # "idle"
  /\ calm => rpc[r] \in {"find", "expire"}
  /\ ResendEnds(r)
  /\ awaited' = IF awaited = r THEN None ELSE awaited
  /\ UNCHANGED <<serverVars, phoneVars, page, reason, initial, cur, polling, data, completed,
                 pollVars, loginVars, claimVars, calm>>

-----------------------------------------------------------------------------
(* The user goes to the page for backup codes, and from there back to the   *)
(* address of the waiting page, whose status is still in the query cache or *)
(* five minutes old and gone.                                               *)
GoToBackup ==
  /\ page = "waiting"
  /\ calm => NobodyResends
  /\ Unmount("backup", "none")
  /\ UNCHANGED <<serverVars, phoneVars, pollVars, loginVars, resendVars, claimVars, calm>>

GoBack ==
  /\ page = "backup"
  /\ asked[initial] + claiming[initial] + claimed[initial] < Completes
  /\ calm => cur = initial /\ NobodyResends /\ ~Completing(cur) /\ polled = None
  /\ Mount(initial)
  /\ \E s \in {data[initial], "none"} : data' = [data EXCEPT ![initial] = s]
  /\ UNCHANGED <<serverVars, phoneVars, pollVars, loginVars, resendVars, claimVars, calm>>

-----------------------------------------------------------------------------
CompleteStep(c) == Claim(c) \/ Commit(c) \/ CompleteFails(c)

ResendStep(r) ==
  \/ ResendFind(r) \/ ResendExpire(r) \/ ResendAnswer(r) \/ ResendFails(r)
  \/ \E c \in Challenges : ResendInsert(r, c)

Next ==
  \/ \E c \in Challenges :
       \/ PassTime(c) \/ Login(c) \/ CompleteStep(c)
       \/ \E p \in Phones :
            Send(c, p) \/ SendFails(c, p) \/ \E a \in Answers : Respond(p, c, a)
  \/ \E p \in Phones : Publish(p)
  \/ \E a \in Answers : UpdateStatus(a) \/ RespondFails(a)
  \/ LoginAnswer \/ LoginFail
  \/ Poll \/ GetStatus \/ ExpireLate \/ PollAnswer \/ PollFails \/ LeaveDenied \/ Complete
  \/ \E r \in Resends : Resend(r) \/ ResendStep(r)
  \/ GoToBackup \/ GoBack

Spec == Init /\ [][Next]_vars

(* Time goes by, the interval polls and not all of its calls fail, effects  *)
(* run, and complete and resend end.                                        *)
Fairness ==
  /\ WF_vars(\E c \in Challenges : PassTime(c))
  /\ WF_vars(\E c \in Challenges : CompleteStep(c))
  /\ SF_vars(Poll) /\ SF_vars(GetStatus) /\ WF_vars(ExpireLate \/ PollAnswer)
  /\ WF_vars(LeaveDenied \/ Complete)
  /\ \A r \in Resends : WF_vars(ResendStep(r))

FairSpec == Spec /\ Fairness

-----------------------------------------------------------------------------
(* Properties *)

(* While nobody returns to a waiting page whose login is being completed:   *)
(* an approval on a phone signs in once, however often the page renders,    *)
(* jobs are done twice and answers are lost.                                *)
OneSignInPerApproval ==
  calm => \A c \in Challenges : claimed[c] <= 1 /\ (claimed[c] = 1 => c \in approved)

(* While a resend overlaps no other call and does not fail once it has      *)
(* written, and nobody leaves the page in one or returns after it: the page *)
(* sends the user back for a wrong number, because the time is up or        *)
(* because the approval is used.                                            *)
SentBackForAReason ==
  calm /\ page = "login" /\ reason = "denied" =>
    cur \in denied \/ timeUp[cur] \/ claimed[cur] > 0

(* While one answer is under way at a time: a wrong number is the end of    *)
(* the challenge, though the user picks again and other pushes and copies   *)
(* of it arrive later.                                                      *)
DeniedStaysDenied == calm => approved \cap denied = {}

(* However calls fail: nobody waits forever *)
WaitingEnds == page = "waiting" ~> page # "waiting"
===============================================================================
