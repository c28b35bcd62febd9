----------------------- MODULE RefreshRotation_proofs -----------------------
(***************************************************************************)
(* Safety of RefreshRotation for any number of tabs, requests and          *)
(* refreshes.  The argument: isRefreshing of a tab is set exactly while a  *)
(* refresh of it is under way, and a token that the browser has not seen   *)
(* yet can only be active, since nobody can have sent it.  At the end: a   *)
(* request that waits has a refresh to wait for, and starts one at most.   *)
(***************************************************************************)
EXTENDS RefreshRotation, TLAPS

(* The flag of a tab and the refreshes under way agree *)
FlagIsRefresh ==
  \A r \in Refreshes :
    /\ InFlight(r) => leader[r] \in Requests /\ isRefreshing[TabOfRefresh(r)]
    /\ rpc[r] = "new" => leader[r] = None

IInv ==
  /\ TypeOK
  /\ FlagIsRefresh
  /\ OneRefreshPerTab

USE DEF Failures, InFlight, TabOfRefresh, SetRpc, Settle, Waiting, Answered, Tokens

(* Nothing is refreshed at first *)
LEMMA InitIInv == Init => IInv
  <1> SUFFICES ASSUME Init PROVE IInv
    OBVIOUS
  <1>1. TypeOK
    BY DEF Init, TypeOK
  <1>2. \A r \in Refreshes : rpc[r] = "new" /\ leader[r] = None
    BY DEF Init
  <1> QED
    BY <1>1, <1>2 DEF IInv, FlagIsRefresh, OneRefreshPerTab

(* The interceptor, the session service and the logout keep the flags and   *)
(* the refreshes in step.                                                   *)
LEMMA NextIInv == IInv /\ [Next]_vars => IInv'
  <1> SUFFICES ASSUME IInv, [Next]_vars PROVE IInv'
    OBVIOUS
  <1> USE TokenAssumption
      DEF IInv, TypeOK, FlagIsRefresh, OneRefreshPerTab, tabVars, refreshVars,
          logoutVars
  <1>1. CASE UNCHANGED vars
    BY <1>1 DEF vars
  <1>2. ASSUME NEW q \in Requests, Send(q) PROVE IInv'
    BY <1>2 DEF Send
  <1>3. ASSUME NEW q \in Requests, Respond(q) PROVE IInv'
    BY <1>3 DEF Respond
  <1>4. ASSUME NEW q \in Requests, GiveUp(q) PROVE IInv'
    BY <1>4 DEF GiveUp
  <1>5. ASSUME NEW q \in Requests, Wait(q) PROVE IInv'
    BY <1>5 DEF Wait
  <1>6. ASSUME NEW q \in Requests, NEW r \in Refreshes, StartRefresh(q, r)
        PROVE IInv'
    BY <1>6 DEF StartRefresh, Begin
  <1>7. ASSUME NEW t \in Tokens, Expire(t) PROVE IInv'
    BY <1>7 DEF Expire
  <1>8. ASSUME NEW r \in Refreshes, FindToken(r) PROVE IInv'
    BY <1>8 DEF FindToken
  <1>9. ASSUME NEW r \in Refreshes, Rotate(r) PROVE IInv'
    BY <1>9 DEF Rotate, Rotated
  <1>10. ASSUME NEW r \in Refreshes, DeliverTokens(r) PROVE IInv'
    BY <1>10 DEF DeliverTokens
  <1>11. ASSUME NEW r \in Refreshes, DeliverFailure(r) PROVE IInv'
    BY <1>11 DEF DeliverFailure
  <1>12. CASE Logout
    BY <1>12 DEF Logout
  <1>13. CASE FindForLogout
    BY <1>13 DEF FindForLogout
  <1>14. CASE RevokeForLogout
    BY <1>14 DEF RevokeForLogout
  <1>15. ASSUME NEW t \in Tabs, LoggedOut(t) PROVE IInv'
    BY <1>15 DEF LoggedOut
  <1>16. ASSUME NEW t \in Tabs, LogoutFails(t) PROVE IInv'
    BY <1>16 DEF LogoutFails
  <1> QED
    BY <1>1, <1>2, <1>3, <1>4, <1>5, <1>6, <1>7, <1>8, <1>9, <1>10, <1>11,
       <1>12, <1>13, <1>14, <1>15, <1>16
    DEF Next, RefreshStep, LogoutStep

(* The invariant holds in every reachable state *)
THEOREM Invariance == Spec => []IInv
  <1>1. QED
    BY InitIInv, NextIInv, PTL DEF Spec

(* Every variable keeps its type, and every request on its way has a token *)
THEOREM TypeCorrect == Spec => []TypeOK
  <1>1. IInv => TypeOK
    BY DEF IInv
  <1>2. QED
    BY <1>1, Invariance, PTL

(* A tab never has two refreshes under way, whatever 401s come in *)
THEOREM RefreshesAreSingle == Spec => []OneRefreshPerTab
  <1>1. IInv => OneRefreshPerTab
    BY DEF IInv
  <1>2. QED
    BY <1>1, Invariance, PTL

-----------------------------------------------------------------------------
(* Until the user logs out or an answer is lost *)

Undisturbed == lpc = "none" /\ NothingLost

(* What is on its way to the browser can be used *)
UnseenIsActive == \A r \in Refreshes : rpc[r] = "ok" => r \in active

(* Nobody can send a token that the browser has not got *)
SentIsSeen ==
  /\ cookie \in Answered
  /\ \A r \in Refreshes : rpc[r] # "new" => sent[r] \in Answered

SessionInv == Undisturbed => UnseenIsActive /\ SentIsSeen /\ SessionNotLost

(* Right after the login the cookie is the active token *)
LEMMA InitSessionInv == Init => SessionInv
  BY DEF Init, SessionInv, UnseenIsActive, SentIsSeen, SessionNotLost

(* A rotation takes away what the browser has and gives it another token *)
LEMMA NextSessionInv ==
  ASSUME IInv, SessionInv, [Next]_vars
  PROVE  SessionInv'
  <1> USE TokenAssumption
      DEF IInv, TypeOK, SessionInv, UnseenIsActive, SentIsSeen, SessionNotLost,
          Undisturbed, NothingLost, tabVars, refreshVars, logoutVars
  <1>1. CASE UNCHANGED vars
    BY <1>1 DEF vars
  <1>2. ASSUME NEW q \in Requests, Send(q) \/ Respond(q) \/ GiveUp(q) \/ Wait(q)
        PROVE SessionInv'
    BY <1>2 DEF Send, Respond, GiveUp, Wait
  <1>3. ASSUME NEW q \in Requests, NEW r \in Refreshes, StartRefresh(q, r)
        PROVE SessionInv'
    BY <1>3 DEF StartRefresh, Begin
  <1>4. ASSUME NEW t \in Tokens, Expire(t) PROVE SessionInv'
    BY <1>4 DEF Expire
  <1>5. ASSUME NEW r \in Refreshes, FindToken(r) PROVE SessionInv'
    BY <1>5 DEF FindToken
  <1>6. ASSUME NEW r \in Refreshes, Rotate(r) PROVE SessionInv'
    BY <1>6 DEF Rotate, Rotated
  <1>7. ASSUME NEW r \in Refreshes, DeliverTokens(r) PROVE SessionInv'
    BY <1>7 DEF DeliverTokens
  <1>8. ASSUME NEW r \in Refreshes, DeliverFailure(r) PROVE SessionInv'
    BY <1>8 DEF DeliverFailure
  <1>9. CASE Logout
    BY <1>9 DEF Logout
  <1>10. CASE LogoutStep
    BY <1>10 DEF LogoutStep, FindForLogout, RevokeForLogout, LoggedOut, LogoutFails
  <1> QED
    BY <1>1, <1>2, <1>3, <1>4, <1>5, <1>6, <1>7, <1>8, <1>9, <1>10
    DEF Next, RefreshStep

(* However the refreshes of any number of tabs overlap and roll back, the   *)
(* cookie jar has an active token or is about to get one.                   *)
THEOREM SessionsSurvive == Spec => []SessionNotLost
  <1>1. SessionInv => SessionNotLost
    BY DEF SessionInv, Undisturbed, SessionNotLost
  <1>2. QED
    BY <1>1, InitSessionInv, NextSessionInv, Invariance, PTL DEF Spec

-----------------------------------------------------------------------------
(* With one tab *)

(* The one refresh under way carries the cookie, and the active token is    *)
(* the cookie until the rotation and its successor afterwards.              *)
SoleInv ==
  OneTab /\ Undisturbed =>
    /\ \A r \in Refreshes : rpc[r] \in {"find", "rotate"} => sent[r] = cookie
    /\ \A r \in Refreshes : rpc[r] = "ok" => active = {r}
    /\ (\A r \in Refreshes : rpc[r] # "ok") => active = {cookie}
    /\ \A r \in Refreshes : rpc[r] # "refused"

(* Right after the login the cookie is the only active token *)
LEMMA InitSoleInv == Init => SoleInv
  BY DEF Init, SoleInv

(* A sole tab exchanges its tokens one after the other *)
LEMMA NextSoleInv ==
  ASSUME IInv, SessionInv, SoleInv, [Next]_vars
  PROVE  SoleInv'
  <1> USE TokenAssumption
      DEF IInv, TypeOK, FlagIsRefresh, OneRefreshPerTab, SessionInv, SentIsSeen,
          SoleInv, OneTab, Undisturbed, NothingLost, tabVars, refreshVars,
          logoutVars
  <1>1. CASE UNCHANGED vars
    BY <1>1 DEF vars
  <1>2. ASSUME NEW q \in Requests, Send(q) \/ Respond(q) \/ GiveUp(q) \/ Wait(q)
        PROVE SoleInv'
    BY <1>2 DEF Send, Respond, GiveUp, Wait
  <1>3. ASSUME NEW q \in Requests, NEW r \in Refreshes, StartRefresh(q, r)
        PROVE SoleInv'
    BY <1>3 DEF StartRefresh, Begin
  <1>4. ASSUME NEW t \in Tokens, Expire(t) PROVE SoleInv'
    BY <1>4 DEF Expire
  <1>5. ASSUME NEW r \in Refreshes, FindToken(r) PROVE SoleInv'
    BY <1>5 DEF FindToken
  <1>6. ASSUME NEW r \in Refreshes, Rotate(r) PROVE SoleInv'
    BY <1>6 DEF Rotate, Rotated
  <1>7. ASSUME NEW r \in Refreshes, DeliverTokens(r) PROVE SoleInv'
    BY <1>7 DEF DeliverTokens
  <1>8. ASSUME NEW r \in Refreshes, DeliverFailure(r) PROVE SoleInv'
    BY <1>8 DEF DeliverFailure
  <1>9. CASE Logout
    BY <1>9 DEF Logout
  <1>10. CASE LogoutStep
    BY <1>10 DEF LogoutStep, FindForLogout, RevokeForLogout, LoggedOut, LogoutFails
  <1> QED
    BY <1>1, <1>2, <1>3, <1>4, <1>5, <1>6, <1>7, <1>8, <1>9, <1>10
    DEF Next, RefreshStep

(* Refreshes of one tab are never refused, unless an answer was lost or the *)
(* user has logged out.                                                     *)
THEOREM SoleTabRotates == Spec => []NeverRefused
  <1>1. SoleInv => NeverRefused
    BY DEF SoleInv, NeverRefused, Undisturbed
  <1>2. Spec => []SessionInv
    BY InitSessionInv, NextSessionInv, Invariance, PTL DEF Spec
  <1>3. QED
    BY <1>1, <1>2, InitSoleInv, NextSoleInv, Invariance, PTL DEF Spec

(* A rotation of a sole tab replaces the only active token, or the logout   *)
(* has taken that away already.                                             *)
OneActiveInv ==
  OneTab =>
    /\ \A s, t \in active : s = t
    /\ \A r \in Refreshes : rpc[r] = "rotate" => active \subseteq {sent[r]}

(* Only a rotation adds a token, and a sole tab has one at a time *)
LEMMA NextOneActive ==
  ASSUME IInv, OneActiveInv, [Next]_vars
  PROVE  OneActiveInv'
  <1> USE TokenAssumption
      DEF IInv, TypeOK, FlagIsRefresh, OneRefreshPerTab, OneActiveInv, OneTab,
          tabVars, refreshVars, logoutVars
  <1>1. CASE UNCHANGED vars
    BY <1>1 DEF vars
  <1>2. ASSUME NEW q \in Requests, Send(q) \/ Respond(q) \/ GiveUp(q) \/ Wait(q)
        PROVE OneActiveInv'
    BY <1>2 DEF Send, Respond, GiveUp, Wait
  <1>3. ASSUME NEW q \in Requests, NEW r \in Refreshes, StartRefresh(q, r)
        PROVE OneActiveInv'
    BY <1>3 DEF StartRefresh, Begin
  <1>4. ASSUME NEW t \in Tokens, Expire(t) PROVE OneActiveInv'
    BY <1>4 DEF Expire
  <1>5. ASSUME NEW r \in Refreshes, FindToken(r) PROVE OneActiveInv'
    BY <1>5 DEF FindToken
  <1>6. ASSUME NEW r \in Refreshes, Rotate(r) PROVE OneActiveInv'
    BY <1>6 DEF Rotate, Rotated
  <1>7. ASSUME NEW r \in Refreshes, DeliverTokens(r) \/ DeliverFailure(r)
        PROVE OneActiveInv'
    BY <1>7 DEF DeliverTokens, DeliverFailure
  <1>8. CASE Logout \/ LogoutStep
    <2>1. active' \subseteq active /\ UNCHANGED <<tabOf, rpc, sent>>
      BY <1>8 DEF Logout, LogoutStep, FindForLogout, RevokeForLogout, LoggedOut, LogoutFails
    <2> QED
      BY <2>1
  <1> QED
    BY <1>1, <1>2, <1>3, <1>4, <1>5, <1>6, <1>7, <1>8 DEF Next, RefreshStep

(* A login whose requests are all of one tab has one active token at most,  *)
(* whatever answers are lost and whenever the user logs out.                *)
THEOREM SoleTabHasOneToken == Spec => []OneActiveToken
  <1>1. Init => OneActiveInv
    BY DEF Init, OneActiveInv
  <1>2. OneActiveInv => OneActiveToken
    BY DEF OneActiveInv, OneActiveToken
  <1>3. QED
    BY <1>1, <1>2, NextOneActive, Invariance, PTL DEF Spec

-----------------------------------------------------------------------------
(* The logout *)

(* What a logout that no refresh is under way with has found, and leaves    *)
LogoutInv ==
  /\ lpc \in {"find", "revoke", "answered"} =>
       ((\E r \in Refreshes : InFlight(r)) => overlapped)
  /\ lpc \in {"find", "revoke", "answered"} /\ ~overlapped => cookie = lsent
  /\ lpc = "answered" /\ ~overlapped => lsent \notin active
  /\ lpc = "out" /\ ~overlapped =>
       /\ \A r \in Refreshes :
            InFlight(r) => rpc[r] \in {"find", "refused"} /\ sent[r] = None
       /\ cookie = None
       /\ lsent \notin active
  /\ lpc # "none" /\ ~overlapped /\ OneTab /\ NothingLost => active \subseteq {lsent}

(* Nobody has logged out at first *)
LEMMA InitLogoutInv == Init => LogoutInv
  BY DEF Init, LogoutInv

(* Without a refresh under way nothing rotates the token that is revoked,   *)
(* and afterwards there is no cookie to refresh with.                       *)
LEMMA NextLogoutInv ==
  ASSUME IInv, SoleInv, LogoutInv, [Next]_vars
  PROVE  LogoutInv'
  <1> USE TokenAssumption
      DEF IInv, TypeOK, LogoutInv, OneTab, NothingLost, tabVars, refreshVars,
          logoutVars
  <1>1. CASE UNCHANGED vars
    BY <1>1 DEF vars
  <1>2. ASSUME NEW q \in Requests, Send(q) \/ Respond(q) \/ GiveUp(q) \/ Wait(q)
        PROVE LogoutInv'
    BY <1>2 DEF Send, Respond, GiveUp, Wait
  <1>3. ASSUME NEW q \in Requests, NEW r \in Refreshes, StartRefresh(q, r)
        PROVE LogoutInv'
    <2>1. /\ rpc[r] = "new" /\ rpc' = [rpc EXCEPT ![r] = "find"]
          /\ sent' = [sent EXCEPT ![r] = cookie]
          /\ overlapped' = (overlapped \/ lpc \notin {"none", "out"})
          /\ UNCHANGED <<tabOf, cookie, active, lpc, lsent>>
      BY <1>3 DEF StartRefresh, Begin
    <2>2. /\ \A f \in Refreshes \ {r} : rpc'[f] = rpc[f] /\ sent'[f] = sent[f]
          /\ rpc'[r] = "find" /\ sent'[r] = cookie
      BY <2>1
    <2> QED
      BY <2>1, <2>2
  <1>4. ASSUME NEW t \in Tokens, Expire(t) PROVE LogoutInv'
    BY <1>4 DEF Expire
  <1>5. ASSUME NEW r \in Refreshes, FindToken(r) PROVE LogoutInv'
    BY <1>5 DEF FindToken
  <1>6. ASSUME NEW r \in Refreshes, Rotate(r) PROVE LogoutInv'
    BY <1>6 DEF Rotate, Rotated
  <1>7. ASSUME NEW r \in Refreshes, DeliverTokens(r) PROVE LogoutInv'
    BY <1>7 DEF DeliverTokens
  <1>8. ASSUME NEW r \in Refreshes, DeliverFailure(r) PROVE LogoutInv'
    BY <1>8 DEF DeliverFailure
  <1>9. CASE Logout
    BY <1>9 DEF Logout, SoleInv, Undisturbed
  <1>10. CASE FindForLogout
    BY <1>10 DEF FindForLogout
  <1>11. CASE RevokeForLogout
    BY <1>11 DEF RevokeForLogout
  <1>12. ASSUME NEW t \in Tabs, LoggedOut(t) PROVE LogoutInv'
    BY <1>12 DEF LoggedOut
  <1>13. ASSUME NEW t \in Tabs, LogoutFails(t) PROVE LogoutInv'
    BY <1>13 DEF LogoutFails
  <1> QED
    BY <1>1, <1>2, <1>3, <1>4, <1>5, <1>6, <1>7, <1>8, <1>9, <1>10, <1>11, <1>12, <1>13
    DEF Next, RefreshStep, LogoutStep

(* SessionService.revokeByRawToken: a logout that no refresh is under way   *)
(* with has revoked its token when the api is through with it, answered or  *)
(* not, and an answered one leaves neither cookie nor, with one tab, token. *)
THEOREM LogoutsEnd == Spec => []LogoutEnds
  <1>1. LogoutInv => LogoutEnds
    BY DEF LogoutInv, LogoutEnds
  <1>2. Spec => []SessionInv
    BY InitSessionInv, NextSessionInv, Invariance, PTL DEF Spec
  <1>3. Spec => []SoleInv
    BY <1>2, InitSoleInv, NextSoleInv, Invariance, PTL DEF Spec
  <1>4. QED
    BY <1>1, <1>3, InitLogoutInv, NextLogoutInv, Invariance, PTL DEF Spec

-----------------------------------------------------------------------------
(* What the requests that wait are waiting for *)

(* A request that waits, or leads, has a refresh of its tab under way *)
WaitersHaveARefresh ==
  /\ \A t \in Tabs :
       isRefreshing[t] => \E r \in Refreshes : InFlight(r) /\ TabOfRefresh(r) = t
  /\ \A q \in Requests : req[q] = "queued" => isRefreshing[tabOf[q]]
  /\ \A q \in Requests :
       req[q] = "leading" => \E r \in Refreshes : InFlight(r) /\ leader[r] = q

(* A request leads one refresh at most *)
NoRefreshLoop ==
  \A r, s \in Refreshes : leader[r] = leader[s] /\ leader[r] # None => r = s

WaitInv ==
  /\ WaitersHaveARefresh
  /\ NoRefreshLoop
  /\ \A r \in Refreshes : leader[r] # None => leader[r] \in retried
  /\ \A r \in Refreshes : InFlight(r) => req[leader[r]] = "leading"

(* Nobody waits at first *)
LEMMA InitWaitInv == Init => WaitInv
  BY DEF Init, WaitInv, WaitersHaveARefresh, NoRefreshLoop

(* The answer of a refresh, or its failure, ends every wait of its tab *)
LEMMA SettleWaitInv ==
  ASSUME IInv, WaitInv, NEW r \in Refreshes, DeliverTokens(r) \/ DeliverFailure(r)
  PROVE  WaitInv'
  <1> USE TokenAssumption
      DEF IInv, TypeOK, FlagIsRefresh, OneRefreshPerTab, WaitInv, WaitersHaveARefresh,
          NoRefreshLoop
  <1> DEFINE t == TabOfRefresh(r)
             W == Waiting(r) \cup {leader[r]}
  <1>1. InFlight(r) /\ leader[r] \in Requests /\ t \in Tabs
    BY DEF DeliverTokens, DeliverFailure
  <1>2. /\ isRefreshing' = [isRefreshing EXCEPT ![t] = FALSE]
        /\ \A q \in Requests \ W : req'[q] = req[q]
        /\ \A q \in W : req'[q] \in {"sent", "failed"}
        /\ \A s \in Refreshes \ {r} : rpc'[s] = rpc[s]
        /\ rpc'[r] \in {"ended", "forgone"}
        /\ UNCHANGED <<tabOf, retried, leader>>
    BY <1>1 DEF DeliverTokens, DeliverFailure
  <1>3. \A s \in Refreshes : InFlight(s) /\ s # r =>
          TabOfRefresh(s) # t /\ leader[s] # leader[r]
    BY <1>1
  <1>4. WaitersHaveARefresh'
    <2>1. ASSUME NEW u \in Tabs, isRefreshing'[u]
          PROVE  \E s \in Refreshes : InFlight(s)' /\ tabOf[leader[s]] = u
      BY <1>2, <2>1
    <2>2. ASSUME NEW q \in Requests, req'[q] = "queued" PROVE isRefreshing'[tabOf[q]]
      BY <1>1, <1>2, <2>2
    <2>3. ASSUME NEW q \in Requests, req'[q] = "leading"
          PROVE  \E s \in Refreshes : InFlight(s)' /\ leader[s] = q
      BY <1>2, <2>3
    <2> QED
      BY <1>2, <2>1, <2>2, <2>3
  <1>5. \A s \in Refreshes : InFlight(s)' => req'[leader[s]] = "leading"
    BY <1>1, <1>2, <1>3
  <1> QED
    BY <1>2, <1>4, <1>5

(* A 401 that finds the flag set finds the refresh that will answer it *)
LEMMA NextWaitInv ==
  ASSUME IInv, WaitInv, [Next]_vars
  PROVE  WaitInv'
  <1> USE TokenAssumption
      DEF IInv, TypeOK, FlagIsRefresh, WaitInv, WaitersHaveARefresh, NoRefreshLoop,
          tabVars, refreshVars, logoutVars
  <1>1. CASE UNCHANGED vars
    BY <1>1 DEF vars
  <1>2. ASSUME NEW q \in Requests, Send(q) \/ Respond(q) PROVE WaitInv'
    BY <1>2 DEF Send, Respond
  <1>3. ASSUME NEW q \in Requests, GiveUp(q) \/ Wait(q) PROVE WaitInv'
    BY <1>3 DEF GiveUp, Wait
  <1>4. ASSUME NEW q \in Requests, NEW r \in Refreshes, StartRefresh(q, r)
        PROVE  WaitInv'
    <2>1. /\ rpc[r] = "new" /\ leader[r] = None /\ q \notin retried /\ req[q] = "rejected"
          /\ rpc' = [rpc EXCEPT ![r] = "find"] /\ leader' = [leader EXCEPT ![r] = q]
          /\ req' = [req EXCEPT ![q] = "leading"] /\ retried' = retried \cup {q}
          /\ isRefreshing' = [isRefreshing EXCEPT ![tabOf[q]] = TRUE]
          /\ tabOf' = tabOf
      BY <1>4 DEF StartRefresh, Begin
    <2>2. \A s \in Refreshes : InFlight(s) => s # r /\ leader[s] # q
      BY <2>1
    <2>3. WaitersHaveARefresh'
      BY <2>1, <2>2
    <2>4. NoRefreshLoop' /\ \A s \in Refreshes : leader'[s] # None => leader'[s] \in retried'
      BY <2>1
    <2>5. \A s \in Refreshes : InFlight(s)' => req'[leader'[s]] = "leading"
      BY <2>1, <2>2
    <2> QED
      BY <2>3, <2>4, <2>5
  <1>5. ASSUME NEW t \in Tokens, Expire(t) PROVE WaitInv'
    BY <1>5 DEF Expire
  <1>6. ASSUME NEW r \in Refreshes, FindToken(r) \/ Rotate(r) PROVE WaitInv'
    <2>1. /\ InFlight(r) /\ \A s \in Refreshes : rpc'[s] = rpc[s] \/ s = r
          /\ rpc'[r] \in {"rotate", "ok"} \cup Failures
          /\ UNCHANGED <<tabOf, req, retried, isRefreshing, leader>>
      BY <1>6 DEF FindToken, Rotate
    <2>2. \A s \in Refreshes : InFlight(s)' <=> InFlight(s)
      BY <2>1
    <2> QED
      BY <2>1, <2>2
  <1>7. ASSUME NEW r \in Refreshes, DeliverTokens(r) \/ DeliverFailure(r) PROVE WaitInv'
    BY <1>7, SettleWaitInv
  <1>8. CASE Logout \/ LogoutStep
    <2>1. UNCHANGED <<tabOf, req, retried, isRefreshing, rpc, leader>>
      BY <1>8 DEF Logout, LogoutStep, FindForLogout, RevokeForLogout, LoggedOut, LogoutFails
    <2> QED
      BY <2>1
  <1> QED
    BY <1>1, <1>2, <1>3, <1>4, <1>5, <1>6, <1>7, <1>8
    DEF Next, RefreshStep

(* The interceptor: a request that waits for a refresh waits for one that   *)
(* is under way, whatever logouts and failures come in between.             *)
THEOREM NobodyWaitsForNothing == Spec => []WaitersHaveARefresh
  <1>1. WaitInv => WaitersHaveARefresh
    BY DEF WaitInv
  <1> QED
    BY <1>1, InitWaitInv, NextWaitInv, Invariance, PTL DEF Spec

(* The interceptor: a request whose replay is answered with a 401 again     *)
(* does not start a second refresh.                                         *)
THEOREM RefreshesDoNotLoop == Spec => []NoRefreshLoop
  <1>1. WaitInv => NoRefreshLoop
    BY DEF WaitInv
  <1> QED
    BY <1>1, InitWaitInv, NextWaitInv, Invariance, PTL DEF Spec
=============================================================================
