-------------------------- MODULE PushLogin_proofs --------------------------
(***************************************************************************)
(* Safety of PushLogin for any number of challenges and phones, however    *)
(* calls, jobs and answers interleave and fail: every variable keeps its   *)
(* type, nobody waits at a page that neither polls nor completes, and in   *)
(* calm behaviours an approval signs in once, no challenge is both         *)
(* approved and denied, and nobody is sent back without a reason.          *)
(***************************************************************************)
EXTENDS PushLogin, TLAPS

(* What is not made yet is known to nobody *)
UnmadeInv ==
  \A c \in Challenges : status[c] = "none" =>
    /\ c \notin {cur, initial, polled, logging} \cup approved \cup denied
    /\ \A p \in Phones : queue[c][p] = 0 /\ c \notin told[p]
    /\ \A a \in Answers : answering[a] # c
    /\ \A r \in Resends : c \notin {resending[r], fresh[r]}

(* What a resend makes is known to no phone *)
FreshInv ==
  \A r \in Resends, c \in Challenges : fresh[r] = c =>
    /\ c \notin approved
    /\ \A p \in Phones : queue[c][p] = 0 /\ c \notin told[p]
    /\ \A a \in Answers : answering[a] # c

(* The login that leads to the waiting page comes first *)
LoginInv ==
  /\ logging # None => initial = None
  /\ initial = None => /\ page = "login"
                       /\ \A r \in Resends : resending[r] = None /\ fresh[r] = None
                       /\ \A c \in Challenges : asked[c] = 0 /\ claiming[c] = 0

(* An approval is a phone's *)
ApprovedInv ==
  \A c \in Challenges :
    /\ status[c] \in {"none", "PENDING"} => c \notin approved \cup denied
    /\ \/ status[c] = "APPROVED" \/ data[c] = "APPROVED"
       \/ polled = c /\ got = "APPROVED"
       \/ asked[c] + claiming[c] > 0 \/ claimed[c] > 0
       => c \in approved

(* An answer is alone *)
AnswerInv ==
  /\ \A a, b \in Answers : answering[a] # None /\ answering[b] # None => a = b
  /\ \A a \in Answers : answering[a] \notin approved \cup denied
  /\ approved \cap denied = {}

(* A complete is alone, and the page knows of it *)
CompleteInv ==
  \A c \in Challenges :
    /\ asked[c] + claiming[c] <= 1
    /\ page = "waiting" /\ cur = c /\ asked[c] + claiming[c] = 1 => completed
    /\ claimed[c] <= 1
    /\ claimed[c] = 1 => status[c] # "APPROVED" /\ claiming[c] = 0

(* What ends a challenge, the answers and the time left out, is a resend or *)
(* a complete                                                               *)
Gone(c) == status[c] \in {"DENIED", "EXPIRED"}
Reason(c) == c \in denied \/ timeUp[c] \/ claimed[c] > 0

(* A resend is alone, for the challenge of the page, and awaited there *)
ResendInv ==
  /\ polled = None => got = "none"
  /\ polled # None => initial # None /\ NobodyResends
  /\ \A a \in Answers : answering[a] # None => NobodyResends
  /\ initial = None => cur = None /\ reason = "none" /\ polled = None
  /\ page # "waiting" => awaited = None
  /\ \A r, t \in Resends : rpc[r] # "idle" /\ rpc[t] # "idle" => r = t
  /\ \A r \in Resends :
       /\ rpc[r] # "idle" => cur = resending[r] /\ page # "backup"
       /\ rpc[r] # "idle" /\ page = "waiting" => awaited = r
       /\ rpc[r] = "answer" => fresh[r] # resending[r] /\ status[fresh[r]] = "PENDING"

(* Nobody waits for the answer of a challenge that a resend has replaced *)
Superseded(c) ==
  \/ \E r \in Resends : c = resending[r] /\ rpc[r] \in {"insert", "answer"}
  \/ c # polled /\ (c # cur \/ page \in {"login", "drive"})

(* A challenge is gone for a reason, or no page will be told of it *)
ReasonInv ==
  /\ \A c \in Challenges : Gone(c) => Reason(c) \/ (initial # None /\ Superseded(c))
  /\ \A c \in Challenges : data[c] \in {"DENIED", "EXPIRED"} => Reason(c)
  /\ got \in {"DENIED", "EXPIRED", "late"} => Reason(polled)
  /\ page = "login" /\ reason = "denied" => Reason(cur)

CalmInv == AnswerInv /\ CompleteInv /\ ResendInv /\ ReasonInv

IInv ==
  /\ TypeOK
  /\ UnmadeInv
  /\ FreshInv
  /\ LoginInv
  /\ ApprovedInv
  /\ calm => CalmInv

USE NoneAssumption, BoundsAssumption
    DEF Statuses, MaybeChallenge, serverVars, phoneVars, pageVars, pollVars, loginVars,
        resendVars, claimVars, Completing, NobodyAnswers, NobodyResends


LEMMA InitIInv == Init => IInv
  <1> SUFFICES ASSUME Init PROVE IInv
    OBVIOUS
  <1>1. TypeOK
    <2>1. 0 \in 0 .. Attempts
      OBVIOUS
    <2>2. queue \in [Challenges -> [Phones -> 0 .. Attempts]]
      BY <2>1 DEF Init
    <2> QED
      BY <2>2 DEF Init, TypeOK
  <1>2. UnmadeInv /\ FreshInv /\ LoginInv
    BY DEF Init, UnmadeInv, FreshInv, LoginInv
  <1>3. ApprovedInv /\ CalmInv
    BY DEF Init, ApprovedInv, CalmInv, AnswerInv, CompleteInv, ResendInv, ReasonInv, Gone, Reason
  <1> QED
    BY <1>1, <1>2, <1>3 DEF IInv

(* A page that is left, or opened anew *)
LEMMA PageTypes ==
  ASSUME TypeOK,
         page' \in {"login", "waiting", "backup", "drive"},
         reason' \in {"none", "denied", "failed"},
         polling' \in BOOLEAN, completed' \in BOOLEAN, awaited' \in Resends \cup {None},
         UNCHANGED <<initial, cur, data>>,
         page' = "waiting" => cur \in Challenges,
         UNCHANGED <<serverVars, phoneVars, pollVars, loginVars, resendVars, claimVars, calm>>
  PROVE  TypeOK'
  <1>1. /\ status' \in [Challenges -> Statuses] /\ timeUp' \in [Challenges -> BOOLEAN]
        /\ queue' \in [Challenges -> [Phones -> 0 .. Attempts]]
        /\ told' \in [Phones -> SUBSET Challenges] /\ answering' \in [Answers -> MaybeChallenge]
        /\ approved' \subseteq Challenges /\ denied' \subseteq Challenges
    BY DEF TypeOK
  <1>2. /\ initial' \in MaybeChallenge /\ cur' \in MaybeChallenge
        /\ page' = "waiting" => cur' \in Challenges
        /\ data' \in [Challenges -> Statuses]
    BY DEF TypeOK
  <1>3. /\ polled' \in MaybeChallenge /\ got' \in Statuses \cup {"late"}
        /\ logging' \in MaybeChallenge /\ rest' \subseteq Phones
        /\ rpc' \in [Resends -> {"idle", "find", "expire", "insert", "answer"}]
        /\ resending' \in [Resends -> MaybeChallenge]
        /\ \A r \in Resends : rpc'[r] # "idle" => resending'[r] # None
        /\ fresh' \in [Resends -> MaybeChallenge]
        /\ \A r \in Resends : rpc'[r] = "answer" => fresh'[r] # None
    BY DEF TypeOK
  <1>4. /\ asked' \in [Challenges -> Nat] /\ claiming' \in [Challenges -> Nat]
        /\ claimed' \in [Challenges -> Nat] /\ calm' \in BOOLEAN
    BY DEF TypeOK
  <1> QED
    BY <1>1, <1>2, <1>3, <1>4 DEF TypeOK

(* Types *)
LEMMA TypeKeeps ==
  ASSUME TypeOK, UnmadeInv, LoginInv, [Next]_vars
  PROVE  TypeOK'
  <1> USE DEF TypeOK, UnmadeInv
  <1>1. ASSUME NEW c \in Challenges, PassTime(c) PROVE TypeOK'
    BY <1>1 DEF PassTime
  <1>2. ASSUME NEW c \in Challenges, Login(c) PROVE TypeOK'
    BY <1>2 DEF Login
  <1>3. ASSUME NEW p \in Phones, Publish(p) PROVE TypeOK'
    BY <1>3 DEF Publish
  <1>4. CASE LoginAnswer
    <2>1. CASE page = "login"
      BY <1>4, <2>1 DEF LoginAnswer, Mount
    <2>2. CASE page # "login"
      BY <1>4, <2>2 DEF LoginAnswer
    <2> QED
      BY <2>1, <2>2
  <1>5. CASE LoginFail
    BY <1>5 DEF LoginFail
  <1>6. ASSUME NEW c \in Challenges, NEW p \in Phones, Send(c, p) PROVE TypeOK'
    BY <1>6 DEF Send
  <1>7. ASSUME NEW c \in Challenges, NEW p \in Phones, SendFails(c, p) PROVE TypeOK'
    BY <1>7 DEF SendFails
  <1>8. ASSUME NEW c \in Challenges, NEW p \in Phones, NEW a \in Answers,
               Respond(p, c, a) PROVE TypeOK'
    BY <1>8 DEF Respond
  <1>9. ASSUME NEW a \in Answers, UpdateStatus(a) PROVE TypeOK'
    <2>1. /\ answering[a] \in Challenges
          /\ \E s \in Statuses : status' = [status EXCEPT ![answering[a]] = s]
          /\ approved' \cup denied' = approved \cup denied \cup {answering[a]}
      BY <1>9 DEF UpdateStatus
    <2>2. answering' \in [Answers -> MaybeChallenge]
      BY <1>9 DEF UpdateStatus
    <2>3. /\ status' \in [Challenges -> Statuses] /\ approved' \subseteq Challenges
          /\ denied' \subseteq Challenges
      BY <2>1
    <2>4. UNCHANGED <<timeUp, queue, told, pageVars, pollVars, loginVars, resendVars, claimVars,
                      calm>>
      BY <1>9 DEF UpdateStatus
    <2> QED
      BY <2>2, <2>3, <2>4
  <1>10. ASSUME NEW a \in Answers, RespondFails(a) PROVE TypeOK'
    BY <1>10 DEF RespondFails
  <1>11. CASE Poll
    BY <1>11 DEF Poll
  <1>12. CASE GetStatus
    BY <1>12 DEF GetStatus
  <1>13. CASE ExpireLate
    <2>1. status' \in [Challenges -> Statuses] /\ got' = "EXPIRED"
      BY <1>13 DEF ExpireLate
    <2> QED
      BY <1>13, <2>1 DEF ExpireLate
  <1>14. CASE PollAnswer
    BY <1>14 DEF PollAnswer
  <1>15. CASE PollFails
    BY <1>15 DEF PollFails
  <1>16. CASE LeaveDenied
    <2>1. /\ page' = "login" /\ reason' = "denied" /\ polling' = FALSE /\ completed' = FALSE
          /\ awaited' = None
          /\ UNCHANGED <<initial, cur, data>>
      BY <1>16 DEF LeaveDenied, Unmount
    <2>2. UNCHANGED <<serverVars, phoneVars, pollVars, loginVars, resendVars, claimVars, calm>>
      BY <1>16 DEF LeaveDenied
    <2> QED
      BY <2>1, <2>2, PageTypes
  <1>17. CASE Complete
    <2>1. cur \in Challenges
      BY <1>17 DEF Complete, Shown
    <2>2. asked' \in [Challenges -> Nat] /\ polling' = FALSE /\ completed' = TRUE
      BY <1>17, <2>1 DEF Complete
    <2>3. UNCHANGED <<serverVars, phoneVars, page, reason, initial, cur, data, awaited,
                      pollVars, loginVars, resendVars, claiming, claimed, calm>>
      BY <1>17 DEF Complete
    <2> HIDE DEF UnmadeInv, LoginInv
    <2>4. /\ status' \in [Challenges -> Statuses] /\ timeUp' \in [Challenges -> BOOLEAN]
          /\ queue' \in [Challenges -> [Phones -> 0 .. Attempts]]
          /\ told' \in [Phones -> SUBSET Challenges] /\ answering' \in [Answers -> MaybeChallenge]
          /\ approved' \subseteq Challenges /\ denied' \subseteq Challenges
      BY <2>3
    <2>5. /\ page' \in {"login", "waiting", "backup", "drive"}
          /\ reason' \in {"none", "denied", "failed"}
          /\ initial' \in MaybeChallenge /\ cur' \in MaybeChallenge
          /\ page' = "waiting" => cur' \in Challenges
          /\ data' \in [Challenges -> Statuses]
      BY <2>3
    <2>6. /\ polled' \in MaybeChallenge /\ got' \in Statuses \cup {"late"}
          /\ logging' \in MaybeChallenge /\ rest' \subseteq Phones
          /\ rpc' \in [Resends -> {"idle", "find", "expire", "insert", "answer"}]
          /\ resending' \in [Resends -> MaybeChallenge]
          /\ \A r \in Resends : rpc'[r] # "idle" => resending'[r] # None
          /\ fresh' \in [Resends -> MaybeChallenge]
          /\ \A r \in Resends : rpc'[r] = "answer" => fresh'[r] # None
          /\ awaited' \in Resends \cup {None}
          /\ claiming' \in [Challenges -> Nat] /\ claimed' \in [Challenges -> Nat]
          /\ calm' \in BOOLEAN
      BY <2>3
    <2> QED
      BY <2>2, <2>4, <2>5, <2>6
  <1>18. ASSUME NEW c \in Challenges, Claim(c) PROVE TypeOK'
    BY <1>18 DEF Claim
  <1>19. ASSUME NEW c \in Challenges, Commit(c) PROVE TypeOK'
    <2>1. /\ status' \in [Challenges -> Statuses]
          /\ claiming' \in [Challenges -> Nat] /\ claimed' \in [Challenges -> Nat]
      BY <1>19 DEF Commit
    <2>2. /\ page' \in {"drive", "login"} /\ reason' \in {"none", "failed"}
          /\ polling' \in BOOLEAN /\ completed' \in BOOLEAN /\ awaited' = None
          /\ UNCHANGED <<initial, cur, data>>
      BY <1>19 DEF Commit, AnswerComplete, Unmount
    <2>3. UNCHANGED <<timeUp, queue, phoneVars, pollVars, loginVars, resendVars, asked, calm>>
      BY <1>19 DEF Commit
    <2> QED
      BY <2>1, <2>2, <2>3
  <1>20. ASSUME NEW c \in Challenges, CompleteFails(c) PROVE TypeOK'
    <2>1. asked' \in [Challenges -> Nat] /\ claiming' \in [Challenges -> Nat]
      <3>1. asked \in [Challenges -> Nat] /\ claiming \in [Challenges -> Nat]
        OBVIOUS
      <3>2. \/ asked[c] > 0 /\ asked' = [asked EXCEPT ![c] = @ - 1] /\ claiming' = claiming
            \/ claiming[c] > 0 /\ claiming' = [claiming EXCEPT ![c] = @ - 1] /\ asked' = asked
        BY ONLY <1>20 DEF CompleteFails
      <3> QED
        BY ONLY <3>1, <3>2, c \in Challenges
    <2>2. /\ page' \in {"drive", "login"} /\ reason' = "failed"
          /\ polling' \in BOOLEAN /\ completed' \in BOOLEAN /\ awaited' = None
          /\ UNCHANGED <<initial, cur, data>>
      BY <1>20 DEF CompleteFails, AnswerComplete, Unmount
    <2>3. UNCHANGED <<serverVars, phoneVars, pollVars, loginVars, resendVars, claimed, calm>>
      BY <1>20 DEF CompleteFails
    <2> HIDE DEF UnmadeInv
    <2>4. /\ status' \in [Challenges -> Statuses] /\ timeUp' \in [Challenges -> BOOLEAN]
          /\ queue' \in [Challenges -> [Phones -> 0 .. Attempts]]
          /\ told' \in [Phones -> SUBSET Challenges] /\ answering' \in [Answers -> MaybeChallenge]
          /\ approved' \subseteq Challenges /\ denied' \subseteq Challenges
      BY <2>3
    <2>5. /\ page' \in {"login", "waiting", "backup", "drive"}
          /\ reason' \in {"none", "denied", "failed"}
          /\ initial' \in MaybeChallenge /\ cur' \in MaybeChallenge
          /\ page' = "waiting" => cur' \in Challenges
          /\ polling' \in BOOLEAN /\ completed' \in BOOLEAN
          /\ data' \in [Challenges -> Statuses] /\ awaited' \in Resends \cup {None}
      BY <2>2
    <2>6. /\ polled' \in MaybeChallenge /\ got' \in Statuses \cup {"late"}
          /\ logging' \in MaybeChallenge /\ rest' \subseteq Phones /\ calm' \in BOOLEAN
      BY <2>3
    <2>7. /\ rpc' \in [Resends -> {"idle", "find", "expire", "insert", "answer"}]
          /\ resending' \in [Resends -> MaybeChallenge]
          /\ \A t \in Resends : rpc'[t] # "idle" => resending'[t] # None
          /\ fresh' \in [Resends -> MaybeChallenge]
          /\ \A t \in Resends : rpc'[t] = "answer" => fresh'[t] # None
      BY <2>3
    <2>8. /\ asked' \in [Challenges -> Nat] /\ claiming' \in [Challenges -> Nat]
          /\ claimed' \in [Challenges -> Nat]
      BY <2>1, <2>3
    <2> QED
      BY ONLY <2>4, <2>5, <2>6, <2>7, <2>8 DEF TypeOK
  <1>21. ASSUME NEW r \in Resends, Resend(r) PROVE TypeOK'
    BY <1>21 DEF Resend, Shown
  <1>22. ASSUME NEW r \in Resends, NEW c \in Challenges, ResendInsert(r, c) PROVE TypeOK'
    <2>1. /\ status' \in [Challenges -> Statuses]
          /\ rpc' = [rpc EXCEPT ![r] = "answer"] /\ fresh' = [fresh EXCEPT ![r] = c]
          /\ c # None
      BY <1>22 DEF ResendInsert
    <2>2. UNCHANGED <<timeUp, queue, phoneVars, pageVars, pollVars, loginVars, resending,
                      claimVars, calm>>
      BY <1>22 DEF ResendInsert
    <2>3. resending[r] # None
      BY <1>22 DEF ResendInsert
    <2> QED
      BY <2>1, <2>2, <2>3
  <1>23. ASSUME NEW r \in Resends, ResendAnswer(r) PROVE TypeOK'
    <2>1. /\ rpc' = [rpc EXCEPT ![r] = "idle"] /\ resending' = [resending EXCEPT ![r] = None]
          /\ fresh' = [fresh EXCEPT ![r] = None]
      BY <1>23 DEF ResendAnswer, ResendEnds
    <2>2. \/ /\ cur' = fresh[r] /\ fresh[r] \in Challenges
             /\ polling' = TRUE /\ completed' = FALSE /\ awaited' = None
          \/ UNCHANGED <<cur, polling, completed, awaited>>
      BY <1>23 DEF ResendAnswer
    <2>3. UNCHANGED <<serverVars, phoneVars, page, reason, initial, data, pollVars, loginVars,
                      claimVars, calm>>
      BY <1>23 DEF ResendAnswer
    <2> HIDE DEF UnmadeInv
    <2>4. /\ status' \in [Challenges -> Statuses] /\ timeUp' \in [Challenges -> BOOLEAN]
          /\ queue' \in [Challenges -> [Phones -> 0 .. Attempts]]
          /\ told' \in [Phones -> SUBSET Challenges] /\ answering' \in [Answers -> MaybeChallenge]
          /\ approved' \subseteq Challenges /\ denied' \subseteq Challenges
      BY <2>3
    <2>5. /\ page' \in {"login", "waiting", "backup", "drive"}
          /\ reason' \in {"none", "denied", "failed"}
          /\ initial' \in MaybeChallenge /\ cur' \in MaybeChallenge
          /\ page' = "waiting" => cur' \in Challenges
          /\ polling' \in BOOLEAN /\ completed' \in BOOLEAN
          /\ data' \in [Challenges -> Statuses] /\ awaited' \in Resends \cup {None}
      BY <2>2, <2>3
    <2>6. /\ polled' \in MaybeChallenge /\ got' \in Statuses \cup {"late"}
          /\ logging' \in MaybeChallenge /\ rest' \subseteq Phones /\ calm' \in BOOLEAN
      BY <2>3
    <2>7. /\ rpc' \in [Resends -> {"idle", "find", "expire", "insert", "answer"}]
          /\ resending' \in [Resends -> MaybeChallenge]
          /\ \A t \in Resends : rpc'[t] # "idle" => resending'[t] # None
          /\ fresh' \in [Resends -> MaybeChallenge]
          /\ \A t \in Resends : rpc'[t] = "answer" => fresh'[t] # None
      BY <2>1
    <2>8. /\ asked' \in [Challenges -> Nat] /\ claiming' \in [Challenges -> Nat]
          /\ claimed' \in [Challenges -> Nat]
      BY <2>3
    <2> QED
      BY ONLY <2>4, <2>5, <2>6, <2>7, <2>8 DEF TypeOK
  <1>24. ASSUME NEW r \in Resends, ResendFails(r) PROVE TypeOK'
    <2>1. /\ rpc' = [rpc EXCEPT ![r] = "idle"] /\ resending' = [resending EXCEPT ![r] = None]
          /\ fresh' = [fresh EXCEPT ![r] = None]
      BY <1>24 DEF ResendFails, ResendEnds
    <2>2. awaited' \in {awaited, None}
      BY <1>24 DEF ResendFails
    <2>3. UNCHANGED <<serverVars, phoneVars, page, reason, initial, cur, polling, data, completed,
                      pollVars, loginVars, claimVars, calm>>
      BY <1>24 DEF ResendFails
    <2> QED
      BY <2>1, <2>2, <2>3
  <1>25. ASSUME NEW r \in Resends, ResendFind(r) PROVE TypeOK'
    BY <1>25 DEF ResendFind
  <1>26. ASSUME NEW r \in Resends, ResendExpire(r) PROVE TypeOK'
    BY <1>26 DEF ResendExpire
  <1>27. CASE GoToBackup
    <2>1. /\ page' = "backup" /\ reason' = "none" /\ polling' = FALSE /\ completed' = FALSE
          /\ awaited' = None
          /\ UNCHANGED <<initial, cur, data>>
      BY <1>27 DEF GoToBackup, Unmount
    <2>2. UNCHANGED <<serverVars, phoneVars, pollVars, loginVars, resendVars, claimVars, calm>>
      BY <1>27 DEF GoToBackup
    <2> QED
      BY <2>1, <2>2, PageTypes
  <1>28. CASE GoBack
    <2>1. /\ page = "backup" /\ page' = "waiting" /\ reason' = "none"
          /\ initial' = initial /\ cur' = initial
          /\ polling' = TRUE /\ completed' = FALSE /\ awaited' = None
      BY <1>28 DEF GoBack, Mount
    <2>2. initial # None
      BY <2>1 DEF LoginInv
    <2>3. data' \in [Challenges -> Statuses]
      <3>1. PICK s \in {data[initial], "none"} : data' = [data EXCEPT ![initial] = s]
        BY <1>28 DEF GoBack
      <3>2. initial \in Challenges /\ s \in Statuses
        BY ONLY <2>2, <3>1, TypeOK DEF TypeOK
      <3> QED
        BY <3>1, <3>2
    <2> QED
      BY <1>28, <2>1, <2>2, <2>3 DEF GoBack
  <1>29. CASE UNCHANGED vars
    BY <1>29 DEF vars
  <1> HIDE DEF TypeOK, UnmadeInv
  <1> QED
    BY <1>1, <1>2, <1>3, <1>4, <1>5, <1>6, <1>7, <1>8, <1>9, <1>10, <1>11, <1>12, <1>13, <1>14, <1>15, <1>16, <1>17, <1>18, <1>19, <1>20, <1>21, <1>22, <1>23, <1>24, <1>25, <1>26, <1>27, <1>28, <1>29
       DEF Next, CompleteStep, ResendStep

(* What is made, and by whom it is known *)
LEMMA MadeKeeps ==
  ASSUME TypeOK, UnmadeInv, FreshInv, LoginInv, [Next]_vars
  PROVE  (UnmadeInv /\ FreshInv /\ LoginInv)'
  <1> USE DEF TypeOK, UnmadeInv, FreshInv, LoginInv
  <1>1. ASSUME NEW c \in Challenges, PassTime(c) PROVE (UnmadeInv /\ FreshInv /\ LoginInv)'
    BY <1>1 DEF PassTime
  <1>2. ASSUME NEW c \in Challenges, Login(c) PROVE (UnmadeInv /\ FreshInv /\ LoginInv)'
    BY <1>2 DEF Login
  <1>3. ASSUME NEW p \in Phones, Publish(p) PROVE (UnmadeInv /\ FreshInv /\ LoginInv)'
    BY <1>3 DEF Publish
  <1>4. CASE LoginAnswer
    BY <1>4 DEF LoginAnswer, Mount
  <1>5. CASE LoginFail
    BY <1>5 DEF LoginFail
  <1>6. ASSUME NEW c \in Challenges, NEW p \in Phones, Send(c, p) PROVE (UnmadeInv /\ FreshInv /\ LoginInv)'
    BY <1>6 DEF Send
  <1>7. ASSUME NEW c \in Challenges, NEW p \in Phones, SendFails(c, p) PROVE (UnmadeInv /\ FreshInv /\ LoginInv)'
    BY <1>7 DEF SendFails
  <1>8. ASSUME NEW c \in Challenges, NEW p \in Phones, NEW a \in Answers,
               Respond(p, c, a) PROVE (UnmadeInv /\ FreshInv /\ LoginInv)'
    BY <1>8 DEF Respond
  <1>9. ASSUME NEW a \in Answers, UpdateStatus(a) PROVE (UnmadeInv /\ FreshInv /\ LoginInv)'
    BY <1>9 DEF UpdateStatus
  <1>10. ASSUME NEW a \in Answers, RespondFails(a) PROVE (UnmadeInv /\ FreshInv /\ LoginInv)'
    BY <1>10 DEF RespondFails
  <1>11. CASE Poll
    BY <1>11 DEF Poll
  <1>12. CASE GetStatus
    BY <1>12 DEF GetStatus
  <1>13. CASE ExpireLate
    BY <1>13 DEF ExpireLate
  <1>14. CASE PollAnswer
    BY <1>14 DEF PollAnswer
  <1>15. CASE PollFails
    BY <1>15 DEF PollFails
  <1>16. CASE LeaveDenied
    BY <1>16 DEF LeaveDenied, Unmount, Shown
  <1>17. CASE Complete
    BY <1>17 DEF Complete, Shown
  <1>18. ASSUME NEW c \in Challenges, Claim(c) PROVE (UnmadeInv /\ FreshInv /\ LoginInv)'
    BY <1>18 DEF Claim
  <1>19. ASSUME NEW c \in Challenges, Commit(c) PROVE (UnmadeInv /\ FreshInv /\ LoginInv)'
    BY <1>19 DEF Commit, AnswerComplete, Unmount
  <1>20. ASSUME NEW c \in Challenges, CompleteFails(c) PROVE (UnmadeInv /\ FreshInv /\ LoginInv)'
    BY <1>20 DEF CompleteFails, AnswerComplete, Unmount
  <1>21. ASSUME NEW r \in Resends, Resend(r) PROVE (UnmadeInv /\ FreshInv /\ LoginInv)'
    BY <1>21 DEF Resend, Shown
  <1>22. ASSUME NEW r \in Resends, NEW c \in Challenges, ResendInsert(r, c) PROVE (UnmadeInv /\ FreshInv /\ LoginInv)'
    BY <1>22 DEF ResendInsert
  <1>23. ASSUME NEW r \in Resends, ResendAnswer(r) PROVE (UnmadeInv /\ FreshInv /\ LoginInv)'
    BY <1>23 DEF ResendAnswer, ResendEnds
  <1>24. ASSUME NEW r \in Resends, ResendFails(r) PROVE (UnmadeInv /\ FreshInv /\ LoginInv)'
    BY <1>24 DEF ResendFails, ResendEnds
  <1>25. ASSUME NEW r \in Resends, ResendFind(r) PROVE (UnmadeInv /\ FreshInv /\ LoginInv)'
    BY <1>25 DEF ResendFind
  <1>26. ASSUME NEW r \in Resends, ResendExpire(r) PROVE (UnmadeInv /\ FreshInv /\ LoginInv)'
    BY <1>26 DEF ResendExpire
  <1>27. CASE GoToBackup
    BY <1>27 DEF GoToBackup, Unmount
  <1>28. CASE GoBack
    BY <1>28 DEF GoBack, Mount
  <1>29. CASE UNCHANGED vars
    BY <1>29 DEF vars
  <1> HIDE DEF TypeOK, UnmadeInv, FreshInv, LoginInv
  <1> QED
    BY <1>1, <1>2, <1>3, <1>4, <1>5, <1>6, <1>7, <1>8, <1>9, <1>10, <1>11, <1>12, <1>13, <1>14, <1>15, <1>16, <1>17, <1>18, <1>19, <1>20, <1>21, <1>22, <1>23, <1>24, <1>25, <1>26, <1>27, <1>28, <1>29
       DEF Next, CompleteStep, ResendStep

(* Approvals *)
LEMMA ApprovedKeeps ==
  ASSUME TypeOK, UnmadeInv, LoginInv, ApprovedInv, [Next]_vars
  PROVE  ApprovedInv'
  <1> USE DEF TypeOK, UnmadeInv, LoginInv, ApprovedInv
  <1>1. ASSUME NEW c \in Challenges, PassTime(c) PROVE ApprovedInv'
    BY <1>1 DEF PassTime
  <1>2. ASSUME NEW c \in Challenges, Login(c) PROVE ApprovedInv'
    BY <1>2 DEF Login
  <1>3. ASSUME NEW p \in Phones, Publish(p) PROVE ApprovedInv'
    BY <1>3 DEF Publish
  <1>4. CASE LoginAnswer
    BY <1>4 DEF LoginAnswer, Mount
  <1>5. CASE LoginFail
    BY <1>5 DEF LoginFail
  <1>6. ASSUME NEW c \in Challenges, NEW p \in Phones, Send(c, p) PROVE ApprovedInv'
    BY <1>6 DEF Send
  <1>7. ASSUME NEW c \in Challenges, NEW p \in Phones, SendFails(c, p) PROVE ApprovedInv'
    BY <1>7 DEF SendFails
  <1>8. ASSUME NEW c \in Challenges, NEW p \in Phones, NEW a \in Answers,
               Respond(p, c, a) PROVE ApprovedInv'
    BY <1>8 DEF Respond
  <1>9. ASSUME NEW a \in Answers, UpdateStatus(a) PROVE ApprovedInv'
    BY <1>9 DEF UpdateStatus
  <1>10. ASSUME NEW a \in Answers, RespondFails(a) PROVE ApprovedInv'
    BY <1>10 DEF RespondFails
  <1>11. CASE Poll
    BY <1>11 DEF Poll
  <1>12. CASE GetStatus
    BY <1>12 DEF GetStatus
  <1>13. CASE ExpireLate
    BY <1>13 DEF ExpireLate
  <1>14. CASE PollAnswer
    BY <1>14 DEF PollAnswer
  <1>15. CASE PollFails
    BY <1>15 DEF PollFails
  <1>16. CASE LeaveDenied
    BY <1>16 DEF LeaveDenied, Unmount, Shown
  <1>17. CASE Complete
    BY <1>17 DEF Complete, Shown
  <1>18. ASSUME NEW c \in Challenges, Claim(c) PROVE ApprovedInv'
    BY <1>18 DEF Claim
  <1>19. ASSUME NEW c \in Challenges, Commit(c) PROVE ApprovedInv'
    BY <1>19 DEF Commit, AnswerComplete, Unmount
  <1>20. ASSUME NEW c \in Challenges, CompleteFails(c) PROVE ApprovedInv'
    <2>1. UNCHANGED <<status, approved, denied, data, polled, got, claimed>>
      BY <1>20 DEF CompleteFails, AnswerComplete, Unmount
    <2>2. \/ asked[c] > 0 /\ asked' = [asked EXCEPT ![c] = @ - 1] /\ claiming' = claiming
          \/ claiming[c] > 0 /\ claiming' = [claiming EXCEPT ![c] = @ - 1] /\ asked' = asked
      BY <1>20 DEF CompleteFails
    <2>3. \A d \in Challenges : asked'[d] + claiming'[d] > 0 => asked[d] + claiming[d] > 0
      <3>1. asked \in [Challenges -> Nat] /\ claiming \in [Challenges -> Nat]
        OBVIOUS
      <3>2. CASE asked[c] > 0 /\ asked' = [asked EXCEPT ![c] = @ - 1] /\ claiming' = claiming
        BY ONLY <3>1, <3>2, c \in Challenges
      <3>3. CASE claiming[c] > 0 /\ claiming' = [claiming EXCEPT ![c] = @ - 1] /\ asked' = asked
        BY ONLY <3>1, <3>3, c \in Challenges
      <3> QED
        BY <2>2, <3>2, <3>3
    <2> SUFFICES ASSUME NEW d \in Challenges
                 PROVE  /\ status'[d] \in {"none", "PENDING"} => d \notin approved' \cup denied'
                        /\ \/ status'[d] = "APPROVED" \/ data'[d] = "APPROVED"
                           \/ polled' = d /\ got' = "APPROVED"
                           \/ asked'[d] + claiming'[d] > 0 \/ claimed'[d] > 0
                           => d \in approved'
      OBVIOUS
    <2>4. status'[d] \in {"none", "PENDING"} => d \notin approved' \cup denied'
      BY ONLY <2>1, ApprovedInv, d \in Challenges
    <2>5. \/ status[d] = "APPROVED" \/ data[d] = "APPROVED"
          \/ polled = d /\ got = "APPROVED"
          \/ asked[d] + claiming[d] > 0 \/ claimed[d] > 0
          => d \in approved
      BY ONLY ApprovedInv, d \in Challenges
    <2>6. asked'[d] + claiming'[d] > 0 => asked[d] + claiming[d] > 0
      BY <2>3
    <2> QED
      BY ONLY <2>1, <2>4, <2>5, <2>6
  <1>21. ASSUME NEW r \in Resends, Resend(r) PROVE ApprovedInv'
    BY <1>21 DEF Resend, Shown
  <1>22. ASSUME NEW r \in Resends, NEW c \in Challenges, ResendInsert(r, c) PROVE ApprovedInv'
    BY <1>22 DEF ResendInsert
  <1>23. ASSUME NEW r \in Resends, ResendAnswer(r) PROVE ApprovedInv'
    BY <1>23 DEF ResendAnswer, ResendEnds
  <1>24. ASSUME NEW r \in Resends, ResendFails(r) PROVE ApprovedInv'
    BY <1>24 DEF ResendFails, ResendEnds
  <1>25. ASSUME NEW r \in Resends, ResendFind(r) PROVE ApprovedInv'
    BY <1>25 DEF ResendFind
  <1>26. ASSUME NEW r \in Resends, ResendExpire(r) PROVE ApprovedInv'
    BY <1>26 DEF ResendExpire
  <1>27. CASE GoToBackup
    BY <1>27 DEF GoToBackup, Unmount
  <1>28. CASE GoBack
    BY <1>28 DEF GoBack, Mount
  <1>29. CASE UNCHANGED vars
    BY <1>29 DEF vars
  <1> HIDE DEF TypeOK, UnmadeInv, LoginInv, ApprovedInv
  <1> QED
    BY <1>1, <1>2, <1>3, <1>4, <1>5, <1>6, <1>7, <1>8, <1>9, <1>10, <1>11, <1>12, <1>13, <1>14, <1>15, <1>16, <1>17, <1>18, <1>19, <1>20, <1>21, <1>22, <1>23, <1>24, <1>25, <1>26, <1>27, <1>28, <1>29
       DEF Next, CompleteStep, ResendStep

(* Answers of phones, while they are alone *)
LEMMA AnswerKeeps ==
  ASSUME TypeOK, ApprovedInv, calm, AnswerInv, [Next]_vars
  PROVE  AnswerInv'
  <1> USE DEF TypeOK, ApprovedInv, AnswerInv
  <1>1. ASSUME NEW c \in Challenges, PassTime(c) PROVE AnswerInv'
    BY <1>1 DEF PassTime
  <1>2. ASSUME NEW c \in Challenges, Login(c) PROVE AnswerInv'
    BY <1>2 DEF Login
  <1>3. ASSUME NEW p \in Phones, Publish(p) PROVE AnswerInv'
    BY <1>3 DEF Publish
  <1>4. CASE LoginAnswer
    BY <1>4 DEF LoginAnswer, Mount
  <1>5. CASE LoginFail
    BY <1>5 DEF LoginFail
  <1>6. ASSUME NEW c \in Challenges, NEW p \in Phones, Send(c, p) PROVE AnswerInv'
    BY <1>6 DEF Send
  <1>7. ASSUME NEW c \in Challenges, NEW p \in Phones, SendFails(c, p) PROVE AnswerInv'
    BY <1>7 DEF SendFails
  <1>8. ASSUME NEW c \in Challenges, NEW p \in Phones, NEW a \in Answers,
               Respond(p, c, a) PROVE AnswerInv'
    BY <1>8 DEF Respond
  <1>9. ASSUME NEW a \in Answers, UpdateStatus(a) PROVE AnswerInv'
    BY <1>9 DEF UpdateStatus
  <1>10. ASSUME NEW a \in Answers, RespondFails(a) PROVE AnswerInv'
    BY <1>10 DEF RespondFails
  <1>11. CASE Poll
    BY <1>11 DEF Poll
  <1>12. CASE GetStatus
    BY <1>12 DEF GetStatus
  <1>13. CASE ExpireLate
    BY <1>13 DEF ExpireLate
  <1>14. CASE PollAnswer
    BY <1>14 DEF PollAnswer
  <1>15. CASE PollFails
    BY <1>15 DEF PollFails
  <1>16. CASE LeaveDenied
    BY <1>16 DEF LeaveDenied, Unmount, Shown
  <1>17. CASE Complete
    BY <1>17 DEF Complete, Shown
  <1>18. ASSUME NEW c \in Challenges, Claim(c) PROVE AnswerInv'
    BY <1>18 DEF Claim
  <1>19. ASSUME NEW c \in Challenges, Commit(c) PROVE AnswerInv'
    BY <1>19 DEF Commit, AnswerComplete, Unmount
  <1>20. ASSUME NEW c \in Challenges, CompleteFails(c) PROVE AnswerInv'
    BY <1>20 DEF CompleteFails, AnswerComplete, Unmount
  <1>21. ASSUME NEW r \in Resends, Resend(r) PROVE AnswerInv'
    BY <1>21 DEF Resend, Shown
  <1>22. ASSUME NEW r \in Resends, NEW c \in Challenges, ResendInsert(r, c) PROVE AnswerInv'
    BY <1>22 DEF ResendInsert
  <1>23. ASSUME NEW r \in Resends, ResendAnswer(r) PROVE AnswerInv'
    BY <1>23 DEF ResendAnswer, ResendEnds
  <1>24. ASSUME NEW r \in Resends, ResendFails(r) PROVE AnswerInv'
    BY <1>24 DEF ResendFails, ResendEnds
  <1>25. ASSUME NEW r \in Resends, ResendFind(r) PROVE AnswerInv'
    BY <1>25 DEF ResendFind
  <1>26. ASSUME NEW r \in Resends, ResendExpire(r) PROVE AnswerInv'
    BY <1>26 DEF ResendExpire
  <1>27. CASE GoToBackup
    BY <1>27 DEF GoToBackup, Unmount
  <1>28. CASE GoBack
    BY <1>28 DEF GoBack, Mount
  <1>29. CASE UNCHANGED vars
    BY <1>29 DEF vars
  <1> HIDE DEF TypeOK, ApprovedInv, AnswerInv
  <1> QED
    BY <1>1, <1>2, <1>3, <1>4, <1>5, <1>6, <1>7, <1>8, <1>9, <1>10, <1>11, <1>12, <1>13, <1>14, <1>15, <1>16, <1>17, <1>18, <1>19, <1>20, <1>21, <1>22, <1>23, <1>24, <1>25, <1>26, <1>27, <1>28, <1>29
       DEF Next, CompleteStep, ResendStep

(* Completes, while nobody returns to the page of one *)
LEMMA CompleteKeeps ==
  ASSUME TypeOK, UnmadeInv, FreshInv, LoginInv, ApprovedInv, calm, AnswerInv, CompleteInv, [Next]_vars
  PROVE  CompleteInv'
  <1> USE DEF TypeOK, UnmadeInv, FreshInv, LoginInv, ApprovedInv, AnswerInv, CompleteInv
  <1>1. ASSUME NEW c \in Challenges, PassTime(c) PROVE CompleteInv'
    BY <1>1 DEF PassTime
  <1>2. ASSUME NEW c \in Challenges, Login(c) PROVE CompleteInv'
    BY <1>2 DEF Login
  <1>3. ASSUME NEW p \in Phones, Publish(p) PROVE CompleteInv'
    BY <1>3 DEF Publish
  <1>4. CASE LoginAnswer
    BY <1>4 DEF LoginAnswer, Mount
  <1>5. CASE LoginFail
    BY <1>5 DEF LoginFail
  <1>6. ASSUME NEW c \in Challenges, NEW p \in Phones, Send(c, p) PROVE CompleteInv'
    BY <1>6 DEF Send
  <1>7. ASSUME NEW c \in Challenges, NEW p \in Phones, SendFails(c, p) PROVE CompleteInv'
    BY <1>7 DEF SendFails
  <1>8. ASSUME NEW c \in Challenges, NEW p \in Phones, NEW a \in Answers,
               Respond(p, c, a) PROVE CompleteInv'
    BY <1>8 DEF Respond
  <1>9. ASSUME NEW a \in Answers, UpdateStatus(a) PROVE CompleteInv'
    BY <1>9 DEF UpdateStatus
  <1>10. ASSUME NEW a \in Answers, RespondFails(a) PROVE CompleteInv'
    BY <1>10 DEF RespondFails
  <1>11. CASE Poll
    BY <1>11 DEF Poll
  <1>12. CASE GetStatus
    BY <1>12 DEF GetStatus
  <1>13. CASE ExpireLate
    BY <1>13 DEF ExpireLate
  <1>14. CASE PollAnswer
    BY <1>14 DEF PollAnswer
  <1>15. CASE PollFails
    BY <1>15 DEF PollFails
  <1>16. CASE LeaveDenied
    BY <1>16 DEF LeaveDenied, Unmount, Shown
  <1>17. CASE Complete
    BY <1>17 DEF Complete, Shown
  <1>18. ASSUME NEW c \in Challenges, Claim(c) PROVE CompleteInv'
    BY <1>18 DEF Claim
  <1>19. ASSUME NEW c \in Challenges, Commit(c) PROVE CompleteInv'
    <2>1. claiming[c] = 1 /\ asked[c] = 0 /\ claimed[c] = 0
      <3>1. asked[c] \in Nat /\ claiming[c] \in Nat /\ claimed[c] \in Nat
        OBVIOUS
      <3>2. claiming[c] > 0
        BY <1>19 DEF Commit
      <3>3. asked[c] + claiming[c] <= 1 /\ claimed[c] <= 1 /\ (claimed[c] = 1 => claiming[c] = 0)
        OBVIOUS
      <3> HIDE DEF TypeOK, UnmadeInv, FreshInv, LoginInv, ApprovedInv, AnswerInv, CompleteInv
      <3> QED
        BY <3>1, <3>2, <3>3
    <2>2. /\ claiming' = [claiming EXCEPT ![c] = 0] /\ claimed' = [claimed EXCEPT ![c] = 1]
          /\ status' = [status EXCEPT ![c] = "EXPIRED"] /\ asked' = asked
      BY <1>19, <2>1 DEF Commit
    <2>3. page' # "waiting"
      BY <1>19 DEF Commit, AnswerComplete, Unmount
    <2> QED
      BY <2>1, <2>2, <2>3
  <1>20. ASSUME NEW c \in Challenges, CompleteFails(c) PROVE CompleteInv'
    <2>1. /\ asked' = [asked EXCEPT ![c] = asked'[c]]
          /\ claiming' = [claiming EXCEPT ![c] = claiming'[c]]
          /\ asked'[c] \in Nat /\ asked'[c] <= asked[c]
          /\ claiming'[c] \in Nat /\ claiming'[c] <= claiming[c]
      <3>1. CASE /\ asked[c] > 0
                 /\ asked' = [asked EXCEPT ![c] = @ - 1]
                 /\ UNCHANGED claiming
        BY <3>1
      <3>2. CASE /\ claiming[c] > 0
                 /\ claiming' = [claiming EXCEPT ![c] = @ - 1]
                 /\ UNCHANGED asked
        BY <3>2
      <3> QED
        BY <1>20, <3>1, <3>2 DEF CompleteFails
    <2>2. page' # "waiting" /\ UNCHANGED <<status, claimed>>
      BY <1>20 DEF CompleteFails, AnswerComplete, Unmount
    <2> QED
      <3> SUFFICES ASSUME NEW e \in Challenges
                   PROVE  /\ asked'[e] + claiming'[e] <= 1
                          /\ claimed[e] <= 1
                          /\ claimed[e] = 1 => status[e] # "APPROVED" /\ claiming'[e] = 0
        BY <2>2 DEF CompleteInv
      <3>1. CASE e = c
        BY <2>1, <3>1
      <3>2. CASE e # c
        BY <2>1, <3>2
      <3> QED
        BY <3>1, <3>2
  <1>21. ASSUME NEW r \in Resends, Resend(r) PROVE CompleteInv'
    BY <1>21 DEF Resend, Shown
  <1>22. ASSUME NEW r \in Resends, NEW c \in Challenges, ResendInsert(r, c) PROVE CompleteInv'
    BY <1>22 DEF ResendInsert
  <1>23. ASSUME NEW r \in Resends, ResendAnswer(r) PROVE CompleteInv'
    BY <1>23 DEF ResendAnswer, ResendEnds
  <1>24. ASSUME NEW r \in Resends, ResendFails(r) PROVE CompleteInv'
    BY <1>24 DEF ResendFails, ResendEnds
  <1>25. ASSUME NEW r \in Resends, ResendFind(r) PROVE CompleteInv'
    BY <1>25 DEF ResendFind
  <1>26. ASSUME NEW r \in Resends, ResendExpire(r) PROVE CompleteInv'
    BY <1>26 DEF ResendExpire
  <1>27. CASE GoToBackup
    BY <1>27 DEF GoToBackup, Unmount
  <1>28. CASE GoBack
    BY <1>28 DEF GoBack, Mount
  <1>29. CASE UNCHANGED vars
    BY <1>29 DEF vars
  <1> HIDE DEF TypeOK, UnmadeInv, FreshInv, LoginInv, ApprovedInv, AnswerInv, CompleteInv
  <1> QED
    BY <1>1, <1>2, <1>3, <1>4, <1>5, <1>6, <1>7, <1>8, <1>9, <1>10, <1>11, <1>12, <1>13, <1>14, <1>15, <1>16, <1>17, <1>18, <1>19, <1>20, <1>21, <1>22, <1>23, <1>24, <1>25, <1>26, <1>27, <1>28, <1>29
       DEF Next, CompleteStep, ResendStep

(* Resends, while they are alone *)
LEMMA ResendKeeps ==
  ASSUME TypeOK, UnmadeInv, FreshInv, LoginInv, ApprovedInv, calm, ResendInv, [Next]_vars
  PROVE  ResendInv'
  <1> USE DEF TypeOK, UnmadeInv, FreshInv, LoginInv, ApprovedInv, ResendInv
  <1>1. ASSUME NEW c \in Challenges, PassTime(c) PROVE ResendInv'
    BY <1>1 DEF PassTime
  <1>2. ASSUME NEW c \in Challenges, Login(c) PROVE ResendInv'
    BY <1>2 DEF Login
  <1>3. ASSUME NEW p \in Phones, Publish(p) PROVE ResendInv'
    BY <1>3 DEF Publish
  <1>4. CASE LoginAnswer
    BY <1>4 DEF LoginAnswer, Mount
  <1>5. CASE LoginFail
    BY <1>5 DEF LoginFail
  <1>6. ASSUME NEW c \in Challenges, NEW p \in Phones, Send(c, p) PROVE ResendInv'
    BY <1>6 DEF Send
  <1>7. ASSUME NEW c \in Challenges, NEW p \in Phones, SendFails(c, p) PROVE ResendInv'
    BY <1>7 DEF SendFails
  <1>8. ASSUME NEW c \in Challenges, NEW p \in Phones, NEW a \in Answers,
               Respond(p, c, a) PROVE ResendInv'
    BY <1>8 DEF Respond
  <1>9. ASSUME NEW a \in Answers, UpdateStatus(a) PROVE ResendInv'
    BY <1>9 DEF UpdateStatus
  <1>10. ASSUME NEW a \in Answers, RespondFails(a) PROVE ResendInv'
    BY <1>10 DEF RespondFails
  <1>11. CASE Poll
    BY <1>11 DEF Poll
  <1>12. CASE GetStatus
    BY <1>12 DEF GetStatus
  <1>13. CASE ExpireLate
    BY <1>13 DEF ExpireLate
  <1>14. CASE PollAnswer
    BY <1>14 DEF PollAnswer
  <1>15. CASE PollFails
    BY <1>15 DEF PollFails
  <1>16. CASE LeaveDenied
    BY <1>16 DEF LeaveDenied, Unmount, Shown
  <1>17. CASE Complete
    BY <1>17 DEF Complete, Shown
  <1>18. ASSUME NEW c \in Challenges, Claim(c) PROVE ResendInv'
    BY <1>18 DEF Claim
  <1>19. ASSUME NEW c \in Challenges, Commit(c) PROVE ResendInv'
    BY <1>19 DEF Commit, AnswerComplete, Unmount
  <1>20. ASSUME NEW c \in Challenges, CompleteFails(c) PROVE ResendInv'
    BY <1>20 DEF CompleteFails, AnswerComplete, Unmount
  <1>21. ASSUME NEW r \in Resends, Resend(r) PROVE ResendInv'
    BY <1>21 DEF Resend, Shown
  <1>22. ASSUME NEW r \in Resends, NEW c \in Challenges, ResendInsert(r, c) PROVE ResendInv'
    BY <1>22 DEF ResendInsert
  <1>23. ASSUME NEW r \in Resends, ResendAnswer(r) PROVE ResendInv'
    BY <1>23 DEF ResendAnswer, ResendEnds
  <1>24. ASSUME NEW r \in Resends, ResendFails(r) PROVE ResendInv'
    BY <1>24 DEF ResendFails, ResendEnds
  <1>25. ASSUME NEW r \in Resends, ResendFind(r) PROVE ResendInv'
    BY <1>25 DEF ResendFind
  <1>26. ASSUME NEW r \in Resends, ResendExpire(r) PROVE ResendInv'
    BY <1>26 DEF ResendExpire
  <1>27. CASE GoToBackup
    BY <1>27 DEF GoToBackup, Unmount
  <1>28. CASE GoBack
    BY <1>28 DEF GoBack, Mount
  <1>29. CASE UNCHANGED vars
    BY <1>29 DEF vars
  <1> HIDE DEF TypeOK, UnmadeInv, FreshInv, LoginInv, ApprovedInv, ResendInv
  <1> QED
    BY <1>1, <1>2, <1>3, <1>4, <1>5, <1>6, <1>7, <1>8, <1>9, <1>10, <1>11, <1>12, <1>13, <1>14, <1>15, <1>16, <1>17, <1>18, <1>19, <1>20, <1>21, <1>22, <1>23, <1>24, <1>25, <1>26, <1>27, <1>28, <1>29
       DEF Next, CompleteStep, ResendStep

(* Why challenges end, while resends are alone *)
LEMMA ReasonKeeps ==
  ASSUME TypeOK, UnmadeInv, FreshInv, LoginInv, calm, ResendInv, ReasonInv, [Next]_vars
  PROVE  ReasonInv'
  <1> USE DEF TypeOK, UnmadeInv, LoginInv, ResendInv, ReasonInv, Gone, Reason, Superseded
  <1>1. ASSUME NEW c \in Challenges, PassTime(c) PROVE ReasonInv'
    BY <1>1 DEF PassTime
  <1>2. ASSUME NEW c \in Challenges, Login(c) PROVE ReasonInv'
    BY <1>2 DEF Login
  <1>3. ASSUME NEW p \in Phones, Publish(p) PROVE ReasonInv'
    BY <1>3 DEF Publish
  <1>4. CASE LoginAnswer
    BY <1>4 DEF LoginAnswer, Mount
  <1>5. CASE LoginFail
    BY <1>5 DEF LoginFail
  <1>6. ASSUME NEW c \in Challenges, NEW p \in Phones, Send(c, p) PROVE ReasonInv'
    BY <1>6 DEF Send
  <1>7. ASSUME NEW c \in Challenges, NEW p \in Phones, SendFails(c, p) PROVE ReasonInv'
    BY <1>7 DEF SendFails
  <1>8. ASSUME NEW c \in Challenges, NEW p \in Phones, NEW a \in Answers,
               Respond(p, c, a) PROVE ReasonInv'
    BY <1>8 DEF Respond
  <1>9. ASSUME NEW a \in Answers, UpdateStatus(a) PROVE ReasonInv'
    BY <1>9 DEF UpdateStatus
  <1>10. ASSUME NEW a \in Answers, RespondFails(a) PROVE ReasonInv'
    BY <1>10 DEF RespondFails
  <1>11. CASE Poll
    BY <1>11 DEF Poll
  <1>12. CASE GetStatus
    BY <1>12 DEF GetStatus
  <1>13. CASE ExpireLate
    BY <1>13 DEF ExpireLate
  <1>14. CASE PollAnswer
    BY <1>14 DEF PollAnswer
  <1>15. CASE PollFails
    BY <1>15 DEF PollFails
  <1>16. CASE LeaveDenied
    BY <1>16 DEF LeaveDenied, Unmount, Shown
  <1>17. CASE Complete
    BY <1>17 DEF Complete, Shown
  <1>18. ASSUME NEW c \in Challenges, Claim(c) PROVE ReasonInv'
    BY <1>18 DEF Claim
  <1>19. ASSUME NEW c \in Challenges, Commit(c) PROVE ReasonInv'
    BY <1>19 DEF Commit, AnswerComplete, Unmount
  <1>20. ASSUME NEW c \in Challenges, CompleteFails(c) PROVE ReasonInv'
    BY <1>20 DEF CompleteFails, AnswerComplete, Unmount
  <1>21. ASSUME NEW r \in Resends, Resend(r) PROVE ReasonInv'
    BY <1>21 DEF Resend, Shown
  <1>22. ASSUME NEW r \in Resends, NEW c \in Challenges, ResendInsert(r, c) PROVE ReasonInv'
    BY <1>22 DEF ResendInsert
  <1>23. ASSUME NEW r \in Resends, ResendAnswer(r) PROVE ReasonInv'
    <2>1. /\ rpc[r] = "answer" /\ initial # None
          /\ cur = resending[r] /\ page # "backup" /\ polled = None /\ got = "none"
      BY <1>23 DEF ResendAnswer
    <2>2. \A t \in Resends : rpc[t] # "idle" => t = r
      BY <2>1
    <2>3. /\ UNCHANGED <<status, data, polled, got, denied, timeUp, claimed, page, reason, initial>>
          /\ page = "waiting" => cur' = fresh[r]
          /\ page # "waiting" => cur' \in {cur, fresh[r]}
      BY <1>23, <2>1 DEF ResendAnswer
    <2>4. fresh[r] # resending[r] /\ fresh[r] \in Challenges /\ status[fresh[r]] = "PENDING"
      BY <2>1
    <2>5. ASSUME NEW d \in Challenges, Gone(d)', ~Reason(d)' PROVE (initial # None /\ Superseded(d))'
      <3>1. Gone(d) /\ ~Reason(d) /\ Superseded(d) /\ d # fresh[r]
        BY <2>3, <2>4, <2>5
      <3>2. CASE d # cur \/ page \in {"login", "drive"}
        <4>1. page # "waiting" => page \in {"login", "drive"}
          BY <2>1
        <4>2. d # polled' /\ (d # cur' \/ page' \in {"login", "drive"})
          BY <2>1, <2>3, <3>1, <3>2, <4>1
        <4> QED
          BY <2>1, <2>3, <4>2
      <3>3. CASE ~(d # cur \/ page \in {"login", "drive"})
        <4>1. page = "waiting" /\ cur' = fresh[r] /\ d # polled
          BY <2>1, <2>3, <3>3
        <4> QED
          BY <2>1, <2>3, <3>1, <4>1
      <3> QED
        BY <3>2, <3>3
    <2>6. /\ \A d \in Challenges : data'[d] \in {"DENIED", "EXPIRED"} => Reason(d)'
          /\ (got \in {"DENIED", "EXPIRED", "late"} => Reason(polled))'
      BY <2>3
    <2>7. (page = "login" /\ reason = "denied" => Reason(cur))'
      <3>1. awaited # r => cur' = cur
        BY <1>23 DEF ResendAnswer
      <3>2. page = "login" => awaited # r
        BY <2>1
      <3> QED
        BY <2>3, <3>1, <3>2
    <2> QED
      BY <2>5, <2>6, <2>7
  <1>24. ASSUME NEW r \in Resends, ResendFails(r) PROVE ReasonInv'
    BY <1>24 DEF ResendFails, ResendEnds
  <1>25. ASSUME NEW r \in Resends, ResendFind(r) PROVE ReasonInv'
    BY <1>25 DEF ResendFind
  <1>26. ASSUME NEW r \in Resends, ResendExpire(r) PROVE ReasonInv'
    BY <1>26 DEF ResendExpire
  <1>27. CASE GoToBackup
    BY <1>27 DEF GoToBackup, Unmount
  <1>28. CASE GoBack
    BY <1>28 DEF GoBack, Mount
  <1>29. CASE UNCHANGED vars
    BY <1>29 DEF vars
  <1> HIDE DEF TypeOK, UnmadeInv, LoginInv, ResendInv, ReasonInv, Gone, Reason, Superseded
  <1> QED
    BY <1>1, <1>2, <1>3, <1>4, <1>5, <1>6, <1>7, <1>8, <1>9, <1>10, <1>11, <1>12, <1>13, <1>14, <1>15, <1>16, <1>17, <1>18, <1>19, <1>20, <1>21, <1>22, <1>23, <1>24, <1>25, <1>26, <1>27, <1>28, <1>29
       DEF Next, CompleteStep, ResendStep

-----------------------------------------------------------------------------
LEMMA NextIInv ==
  ASSUME IInv, [Next]_vars
  PROVE  IInv'
  <1>1. TypeOK' /\ UnmadeInv' /\ FreshInv' /\ LoginInv' /\ ApprovedInv'
    BY TypeKeeps, MadeKeeps, ApprovedKeeps DEF IInv
  <1>2. calm' = calm
    BY DEF Next, CompleteStep, PassTime, Login, Publish, LoginAnswer, LoginFail, Send, SendFails,
           Respond, UpdateStatus, RespondFails, Poll, GetStatus, ExpireLate, PollAnswer, PollFails,
           LeaveDenied, Complete, Claim, Commit, CompleteFails, Resend, ResendStep, ResendFind,
           ResendExpire, ResendInsert, ResendAnswer, ResendFails, GoToBackup, GoBack, vars
  <1>3. calm => CalmInv'
    BY AnswerKeeps, CompleteKeeps, ResendKeeps, ReasonKeeps DEF IInv, CalmInv
  <1> QED
    BY <1>1, <1>2, <1>3 DEF IInv

(* The inductive invariant holds in every behaviour *)
THEOREM Invariance == Spec => []IInv
  BY InitIInv, NextIInv, PTL DEF Spec

(* Every variable keeps its type: the page waits for a challenge that there *)
(* is, and a status call has an answer.                                     *)
THEOREM TypeCorrect == Spec => []TypeOK
  BY Invariance, PTL DEF IInv

(* useTwoFactorPolling, TwoFaService.complete and respond: in calm          *)
(* behaviours one approval on a phone signs in once, and nobody without.    *)
THEOREM ApprovalsSignInOnce == Spec => []OneSignInPerApproval
  <1>1. IInv => OneSignInPerApproval
    BY DEF IInv, TypeOK, CalmInv, CompleteInv, ApprovedInv, OneSignInPerApproval
  <1> QED
    BY <1>1, Invariance, PTL

(* TwoFaService.respond: in calm behaviours a challenge is not approved and *)
(* denied, however often its push is delivered.                             *)
THEOREM DenialsStay == Spec => []DeniedStaysDenied
  <1>1. IInv => DeniedStaysDenied
    BY DEF IInv, CalmInv, AnswerInv, DeniedStaysDenied
  <1> QED
    BY <1>1, Invariance, PTL

(* useTwoFactorPolling, TwoFaService.getStatus and resend: in calm          *)
(* behaviours nobody is sent back to the login without a reason; not by a   *)
(* challenge that a resend has expired.                                     *)
THEOREM SentBackRightly == Spec => []SentBackForAReason
  <1>1. IInv => SentBackForAReason
    BY DEF IInv, CalmInv, ReasonInv, Reason, SentBackForAReason
  <1> QED
    BY <1>1, Invariance, PTL

-----------------------------------------------------------------------------
(* In every behaviour, calm or not *)

(* Who waits either polls or has the complete of its challenge under way *)
NobodyIsStranded == page = "waiting" => polling \/ Completing(cur)

(* useTwoFactorPolling: the waiting page never stops to poll without a      *)
(* complete under way that will take the user away, however resends, late   *)
(* answers and returns to the page overlap.                                 *)
THEOREM WaitersAreServed == Spec => []NobodyIsStranded
  <1>1. Init => NobodyIsStranded
    BY DEF Init, NobodyIsStranded
  <1>2. ASSUME IInv, NobodyIsStranded, [Next]_vars PROVE NobodyIsStranded'
    <2> USE DEF IInv, TypeOK, LoginInv, NobodyIsStranded
    <2>1. ASSUME NEW c \in Challenges,
                 \/ PassTime(c) \/ Login(c) \/ \E r \in Resends : ResendInsert(r, c)
                 \/ \E p \in Phones :
                      Send(c, p) \/ SendFails(c, p) \/ \E a \in Answers : Respond(p, c, a)
          PROVE  NobodyIsStranded'
      BY <1>2, <2>1 DEF PassTime, Login, ResendInsert, Send, SendFails, Respond
    <2>2. CASE \/ \E p \in Phones : Publish(p)
               \/ \E a \in Answers : UpdateStatus(a) \/ RespondFails(a)
      BY <1>2, <2>2 DEF Publish, UpdateStatus, RespondFails
    <2>3. CASE LoginAnswer \/ LoginFail
      BY <1>2, <2>3 DEF LoginAnswer, LoginFail, Mount
    <2>4. CASE Poll \/ GetStatus \/ ExpireLate \/ PollAnswer \/ PollFails
      BY <1>2, <2>4 DEF Poll, GetStatus, ExpireLate, PollAnswer, PollFails
    <2>5. CASE LeaveDenied \/ GoToBackup
      BY <2>5 DEF LeaveDenied, GoToBackup, Unmount
    <2>6. CASE Complete
      <3>1. cur \in Challenges /\ cur' = cur /\ claiming' = claiming
            /\ asked' = [asked EXCEPT ![cur] = @ + 1]
        BY <1>2, <2>6 DEF Complete, Shown
      <3>2. asked[cur] \in Nat /\ claiming[cur] \in Nat
        BY <1>2, <3>1
      <3> QED
        BY <1>2, <3>1, <3>2
    <2>7. ASSUME NEW c \in Challenges, Claim(c) PROVE NobodyIsStranded'
      <3>1. /\ asked[c] > 0
            /\ asked' = [asked EXCEPT ![c] = @ - 1]
            /\ claiming' = [claiming EXCEPT ![c] = @ + 1]
            /\ UNCHANGED <<page, polling, cur>>
        BY <2>7 DEF Claim
      <3>2. asked[c] \in Nat /\ claiming[c] \in Nat
        BY <1>2
      <3>3. asked'[c] + claiming'[c] = asked[c] + claiming[c]
        BY <1>2, <3>1, <3>2
      <3>4. \A d \in Challenges : asked'[d] + claiming'[d] = asked[d] + claiming[d]
        BY <1>2, <3>1, <3>3
      <3> QED
        BY <1>2, <3>1, <3>4
    <2>8. ASSUME NEW c \in Challenges, Commit(c) \/ CompleteFails(c) PROVE NobodyIsStranded'
      BY <2>8 DEF Commit, CompleteFails, AnswerComplete, Unmount
    <2>9. ASSUME NEW r \in Resends,
                 \/ Resend(r) \/ ResendFind(r) \/ ResendExpire(r)
                 \/ ResendAnswer(r) \/ ResendFails(r)
          PROVE  NobodyIsStranded'
      <3>1. UNCHANGED <<page, cur, polling, asked, claiming>> \/ polling'
        BY <2>9 DEF Resend, ResendFind, ResendExpire, ResendAnswer, ResendFails
      <3> QED
        BY <1>2, <3>1
    <2>10. CASE GoBack
      BY <2>10 DEF GoBack, Mount
    <2>11. CASE UNCHANGED vars
      BY <1>2, <2>11 DEF vars
    <2> QED
      BY <1>2, <2>1, <2>2, <2>3, <2>4, <2>5, <2>6, <2>7, <2>8, <2>9, <2>10, <2>11
         DEF Next, CompleteStep, ResendStep
  <1> QED
    BY <1>1, <1>2, Invariance, PTL DEF Spec

(* One answer of a challenge is decided upon at a time: neither two phones  *)
(* nor two taps of one phone have both found it pending.                    *)
AnswersTakeTurns ==
  \A a, b \in Answers : answering[a] # None /\ answering[a] = answering[b] => a = b

(* No phone is about to answer what has been answered *)
AnsweredOnce ==
  /\ approved \cap denied = {}
  /\ \A a \in Answers : answering[a] \notin approved \cup denied

(* Nobody answers what has an answer *)
LEMMA NextAnsweredOnce ==
  ASSUME IInv, AnswersTakeTurns, AnsweredOnce, [Next]_vars
  PROVE  AnsweredOnce'
  <1> USE DEF IInv, TypeOK, ApprovedInv, AnsweredOnce
  <1>0. [Next]_vars
    OBVIOUS
  <1>1. ASSUME NEW a \in Answers, UpdateStatus(a) PROVE AnsweredOnce'
    BY <1>1 DEF UpdateStatus, AnswersTakeTurns
  <1>2. ASSUME NEW a \in Answers, RespondFails(a) PROVE AnsweredOnce'
    BY <1>2 DEF RespondFails
  <1>3. ASSUME NEW c \in Challenges, NEW p \in Phones, NEW a \in Answers,
               Respond(p, c, a) PROVE AnsweredOnce'
    BY <1>3 DEF Respond
  <1>4. UNCHANGED <<approved, denied, answering>> => AnsweredOnce'
    OBVIOUS
  <1>5. \/ UNCHANGED <<approved, denied, answering>>
        \/ \E a \in Answers : UpdateStatus(a) \/ RespondFails(a)
        \/ \E c \in Challenges, p \in Phones, a \in Answers : Respond(p, c, a)
    <2>1. /\ \A c \in Challenges : PassTime(c) \/ Login(c) =>
               UNCHANGED <<approved, denied, answering>>
          /\ \A p \in Phones : Publish(p) => UNCHANGED <<approved, denied, answering>>
          /\ \A c \in Challenges, p \in Phones : Send(c, p) \/ SendFails(c, p) =>
               UNCHANGED <<approved, denied, answering>>
      BY ONLY DEF PassTime, Login, Publish, Send, SendFails, phoneVars
    <2>2. LoginAnswer \/ LoginFail \/ Poll \/ GetStatus \/ ExpireLate \/ PollAnswer \/ PollFails
            \/ LeaveDenied \/ Complete => UNCHANGED <<approved, denied, answering>>
      BY ONLY DEF LoginAnswer, LoginFail, Poll, GetStatus, ExpireLate, PollAnswer, PollFails,
             LeaveDenied, Complete, phoneVars
    <2>3. \A c \in Challenges : Claim(c) \/ Commit(c) \/ CompleteFails(c) =>
            UNCHANGED <<approved, denied, answering>>
      BY ONLY DEF Claim, Commit, CompleteFails, phoneVars
    <2>4. \A r \in Resends : Resend(r) \/ ResendStep(r) => UNCHANGED <<approved, denied, answering>>
      BY ONLY DEF Resend, ResendStep, ResendFind, ResendExpire, ResendInsert, ResendAnswer,
             ResendFails, phoneVars
    <2>5. GoToBackup \/ GoBack \/ UNCHANGED vars => UNCHANGED <<approved, denied, answering>>
      BY ONLY DEF GoToBackup, GoBack, vars, phoneVars
    <2> QED
      BY ONLY <1>0, <2>1, <2>2, <2>3, <2>4, <2>5 DEF Next, CompleteStep
  <1> QED
    BY <1>1, <1>2, <1>3, <1>4, <1>5

(* TwoFaService.respond: nothing but two answers of one challenge that      *)
(* overlap, of two phones or two taps of one, makes it both approved and    *)
(* denied; resends, polls and completes may overlap in any way.             *)
THEOREM OnlyAnswersOverlap ==
  Spec /\ []AnswersTakeTurns => [](approved \cap denied = {})
  <1>1. Init => AnsweredOnce
    BY DEF Init, AnsweredOnce
  <1>2. AnsweredOnce => approved \cap denied = {}
    BY DEF AnsweredOnce
  <1> QED
    BY <1>1, <1>2, NextAnsweredOnce, Invariance, PTL DEF Spec

(* A challenge is claimed by one complete at a time *)
CompletesTakeTurns == \A c \in Challenges : claiming[c] \in {0, 1}

(* What has been claimed is approved by nobody any more, and nobody has     *)
(* found it so.                                                             *)
ClaimedOnce ==
  \A c \in Challenges :
    /\ claiming[c] > 0 => c \in approved
    /\ claimed[c] \in {0, 1}
    /\ claimed[c] = 1 => claiming[c] = 0 /\ status[c] # "APPROVED" /\ c \in approved

(* Only an answer makes a challenge approved, and it has had its answer *)
LEMMA NextClaimedOnce ==
  ASSUME IInv, AnswersTakeTurns, AnsweredOnce, CompletesTakeTurns, ClaimedOnce, [Next]_vars
  PROVE  ClaimedOnce'
  <1> USE DEF IInv, TypeOK, ApprovedInv, AnsweredOnce, ClaimedOnce
  <1>0. [Next]_vars
    OBVIOUS
  <1>1. ASSUME NEW a \in Answers, UpdateStatus(a) PROVE ClaimedOnce'
    BY <1>1 DEF UpdateStatus
  <1>2. ASSUME NEW c \in Challenges, Claim(c) PROVE ClaimedOnce'
    BY <1>2 DEF Claim
  <1>3. ASSUME NEW c \in Challenges, Commit(c) PROVE ClaimedOnce'
    <2>1. claiming[c] = 1 /\ claimed[c] = 0
      BY <1>3 DEF Commit, CompletesTakeTurns
    <2>2. /\ claiming' = [claiming EXCEPT ![c] = 0]
          /\ claimed' = [claimed EXCEPT ![c] = 1]
          /\ status' = [status EXCEPT ![c] = "EXPIRED"]
          /\ UNCHANGED approved
      BY <1>3, <2>1 DEF Commit
    <2> QED
      BY <2>1, <2>2
  <1>4. ASSUME NEW c \in Challenges, CompleteFails(c) PROVE ClaimedOnce'
    <2>1. UNCHANGED <<status, approved, claimed>>
      BY ONLY <1>4 DEF CompleteFails
    <2>2. \/ UNCHANGED claiming
          \/ claiming[c] > 0 /\ claiming' = [claiming EXCEPT ![c] = @ - 1]
      BY ONLY <1>4 DEF CompleteFails
    <2>3. claiming \in [Challenges -> Nat]
      OBVIOUS
    <2>4. \A d \in Challenges : claiming'[d] \in Nat /\ claiming'[d] <= claiming[d]
      BY ONLY <2>2, <2>3, c \in Challenges
    <2>5. ClaimedOnce /\ \A d \in Challenges : claimed[d] = 1 => claiming'[d] = 0
      BY <2>3, <2>4
    <2> QED
      BY ONLY <2>1, <2>3, <2>4, <2>5 DEF ClaimedOnce
  <1>5. ASSUME UNCHANGED <<approved, claiming, claimed>>,
               \A c \in Challenges : status'[c] = "APPROVED" => status[c] = "APPROVED"
        PROVE  ClaimedOnce'
    BY <1>5
  <1>6. ASSUME NEW c \in Challenges,
               PassTime(c) \/ Login(c) \/ \E r \in Resends : ResendInsert(r, c)
        PROVE  ClaimedOnce'
    <2>1. UNCHANGED <<approved, claiming, claimed>>
      BY <1>6 DEF PassTime, Login, ResendInsert
    <2>2. \A d \in Challenges : status'[d] = "APPROVED" => status[d] = "APPROVED"
      <3>1. CASE PassTime(c) \/ Login(c)
        BY <3>1 DEF PassTime, Login
      <3>2. CASE \E r \in Resends : ResendInsert(r, c)
        BY <3>2 DEF ResendInsert
      <3> QED
        BY <1>6, <3>1, <3>2
    <2> QED
      BY <1>5, <2>1, <2>2
  <1>7. CASE ExpireLate \/ \E r \in Resends : ResendExpire(r)
    BY <1>5, <1>7 DEF ExpireLate, ResendExpire
  <1>8. CASE UNCHANGED <<status, approved, claiming, claimed>>
    BY <1>5, <1>8
  <1>9. \/ UNCHANGED <<status, approved, claiming, claimed>>
        \/ ExpireLate \/ \E r \in Resends : ResendExpire(r)
        \/ \E a \in Answers : UpdateStatus(a)
        \/ \E c \in Challenges :
             \/ PassTime(c) \/ Login(c) \/ Claim(c) \/ Commit(c) \/ CompleteFails(c)
             \/ \E r \in Resends : ResendInsert(r, c)
    BY ONLY <1>0 DEF Next, CompleteStep, ResendStep, Respond, RespondFails, Publish, LoginAnswer,
           LoginFail, Send, SendFails, Poll, GetStatus, PollAnswer, PollFails, LeaveDenied,
           Complete, Resend, ResendFind, ResendAnswer, ResendFails, GoToBackup, GoBack, vars
  <1> QED
    BY <1>1, <1>2, <1>3, <1>4, <1>6, <1>7, <1>8, <1>9

(* claimApprovedChallenge: as long as no two completes have found one       *)
(* challenge approved, and no two answers of it overlap, of two phones or   *)
(* two taps of one, its approval signs in once, whatever is polled, sent    *)
(* again, lost or reopened.                                                 *)
THEOREM OnlyClaimsOverlap ==
  Spec /\ [](AnswersTakeTurns /\ CompletesTakeTurns) =>
    [](\A c \in Challenges : claimed[c] \in {0, 1})
  <1>1. Init => AnsweredOnce /\ ClaimedOnce
    BY DEF Init, AnsweredOnce, ClaimedOnce
  <1>2. ClaimedOnce => \A c \in Challenges : claimed[c] \in {0, 1}
    BY DEF ClaimedOnce
  <1> QED
    BY <1>1, <1>2, NextAnsweredOnce, NextClaimedOnce, Invariance, PTL DEF Spec
=============================================================================
