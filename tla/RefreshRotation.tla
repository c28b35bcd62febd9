--------------------------- MODULE RefreshRotation ---------------------------
(***************************************************************************)
(* The refresh tokens of one login: the axios interceptor of every tab,    *)
(* which answers a 401 with one refresh and lets the other requests wait,  *)
(* the cookie jar that the tabs share, and SessionService.rotate and       *)
(* .revokeByRawToken of the api service.                                   *)
(*                                                                         *)
(* A refresh attempt stands for the pair of tokens it is answered with, so *)
(* a token is the name of the attempt that issued it, or Login.            *)
(***************************************************************************)
EXTENDS Naturals, FiniteSets

CONSTANTS
  Tabs,       \* JavaScript contexts of one browser
  Requests,   \* calls of protected endpoints
  Refreshes,  \* refresh attempts: as many as the behaviour has
  Login,      \* the tokens of the login
  None        \* no token, no request

ASSUME TokenAssumption ==
  Login \notin Refreshes /\ None \notin Refreshes \cup {Login} \cup Requests

VARIABLES
  tabOf,        \* the tab that makes a request; never changes
  req,          \* where a request is
  bearer,       \* the access token it carries while it is under way
  retried,      \* the requests with _retry
  access,       \* the access token in the store of a tab
  isRefreshing, \* of a tab
  cookie,       \* the refresh token in the cookie jar
  expired,      \* the access tokens that have expired
  active,       \* the refresh tokens that are not revoked
  rpc,          \* where a refresh attempt is
  sent,         \* the cookie it carries
  leader,       \* the request whose 401 started it
  lpc,          \* where the logout is
  lsent,        \* the cookie it carries
  overlapped,   \* history: a refresh was under way at some time during it
  logoutFailed  \* its POST has failed for the browser

tabVars     == <<req, bearer, retried, access, isRefreshing>>
refreshVars == <<rpc, sent, leader>>
logoutVars  == <<lpc, lsent, overlapped, logoutFailed>>
vars == <<tabOf, tabVars, cookie, expired, active, refreshVars, logoutVars>>

Tokens == Refreshes \cup {Login}

TypeOK ==
  /\ tabOf \in [Requests -> Tabs]
  /\ req \in [Requests -> {"idle", "sent", "rejected", "queued", "leading",
                           "done", "failed"}]
  /\ bearer \in [Requests -> Tokens \cup {None}]
  /\ \A q \in Requests : req[q] = "sent" => bearer[q] # None
  /\ retried \in SUBSET Requests
  /\ access \in [Tabs -> Tokens \cup {None}]
  /\ isRefreshing \in [Tabs -> BOOLEAN]
  /\ cookie \in Tokens \cup {None}
  /\ expired \in SUBSET Tokens
  /\ active \in SUBSET Tokens
  /\ rpc \in [Refreshes -> {"new", "find", "rotate", "ok", "refused", "error",
                            "lost", "ended", "forgone"}]
  /\ sent \in [Refreshes -> Tokens \cup {None}]
  /\ leader \in [Refreshes -> Requests \cup {None}]
  /\ lpc \in {"none", "find", "revoke", "answered", "out"}
  /\ lsent \in Tokens \cup {None}
  /\ overlapped \in BOOLEAN /\ logoutFailed \in BOOLEAN

(* After a login that every tab shares *)
Init ==
  /\ tabOf \in [Requests -> Tabs]
  /\ req = [q \in Requests |-> "idle"]
  /\ bearer = [q \in Requests |-> None]
  /\ retried = {}
  /\ access = [t \in Tabs |-> Login]
  /\ isRefreshing = [t \in Tabs |-> FALSE]
  /\ cookie = Login
  /\ expired = {}
  /\ active = {Login}
  /\ rpc = [r \in Refreshes |-> "new"]
  /\ sent = [r \in Refreshes |-> None]
  /\ leader = [r \in Refreshes |-> None]
  /\ lpc = "none"
  /\ lsent = None
  /\ overlapped = FALSE /\ logoutFailed = FALSE

Failures == {"refused", "error", "lost"}
InFlight(r) == rpc[r] \in {"find", "rotate", "ok"} \cup Failures

-----------------------------------------------------------------------------
(* The requests of a tab *)

(* PrivateRoute renders no protected page without an access token *)
Send(q) ==
  /\ req[q] = "idle"
  /\ access[tabOf[q]] # None
  /\ req' = [req EXCEPT ![q] = "sent"]
  /\ bearer' = [bearer EXCEPT ![q] = access[tabOf[q]]]
  /\ UNCHANGED <<tabOf, retried, access, isRefreshing, cookie, expired, active,
                 refreshVars, logoutVars>>

Answered == {Login} \cup {r \in Refreshes : rpc[r] = "ended"}

(* Of a token that nobody carries it does not matter when it expires *)
Expire(t) ==
  /\ t \in Answered \ expired
  /\ \E q \in Requests : req[q] = "sent" /\ bearer[q] = t
  /\ expired' = expired \cup {t}
  /\ UNCHANGED <<tabOf, tabVars, cookie, active, refreshVars, logoutVars>>

(* The guard of the api looks at the expiry only; every other answer than a *)
(* 401 is the caller's.                                                     *)
Respond(q) ==
  /\ req[q] = "sent"
  /\ req' = [req EXCEPT ![q] = IF bearer[q] \in expired THEN "rejected" ELSE "done"]
  /\ bearer' = [bearer EXCEPT ![q] = None]
  /\ UNCHANGED <<tabOf, retried, access, isRefreshing, cookie, expired,
                 active, refreshVars, logoutVars>>

-----------------------------------------------------------------------------
(* The interceptor: runs to completion between two awaits *)

GiveUp(q) ==
  /\ req[q] = "rejected"
  /\ q \in retried
  /\ req' = [req EXCEPT ![q] = "failed"]
  /\ UNCHANGED <<tabOf, bearer, retried, access, isRefreshing, cookie, expired,
                 active, refreshVars, logoutVars>>

(* A request that waits does not get _retry *)
Wait(q) ==
  /\ req[q] = "rejected"
  /\ q \notin retried
  /\ isRefreshing[tabOf[q]]
  /\ req' = [req EXCEPT ![q] = "queued"]
  /\ UNCHANGED <<tabOf, bearer, retried, access, isRefreshing, cookie, expired,
                 active, refreshVars, logoutVars>>

(* The POST takes the cookie of the moment it is sent *)
Begin(q, r) ==
  /\ req[q] = "rejected"
  /\ q \notin retried
  /\ rpc[r] = "new"
  /\ retried' = retried \cup {q}
  /\ isRefreshing' = [isRefreshing EXCEPT ![tabOf[q]] = TRUE]
  /\ req' = [req EXCEPT ![q] = "leading"]
  /\ rpc' = [rpc EXCEPT ![r] = "find"]
  /\ sent' = [sent EXCEPT ![r] = cookie]
  /\ leader' = [leader EXCEPT ![r] = q]
  /\ overlapped' = (overlapped \/ lpc \notin {"none", "out"})
  /\ UNCHANGED <<tabOf, bearer, access, cookie, expired, active, lpc, lsent,
                 logoutFailed>>

(* Mutant: every 401 starts a refresh of its own *)
StartUnchecked(q, r) == Begin(q, r)

StartRefresh(q, r) ==
  /\ ~isRefreshing[tabOf[q]]
  /\ Begin(q, r)

TabOfRefresh(r) == tabOf[leader[r]]

Waiting(r) ==
  {q \in Requests : tabOf[q] = TabOfRefresh(r) /\ req[q] = "queued"}

(* Mutant: the queue is only processed when the refresh succeeds *)
SettleLeaderOnly(r, outcome) ==
  req' = [q \in Requests |->
            IF q = leader[r] \/ (q \in Waiting(r) /\ outcome = "sent")
            THEN outcome ELSE req[q]]

(* processQueue, and the leader's own replay or rejection *)
Settle(r, outcome) ==
  req' = [q \in Requests |-> IF q \in Waiting(r) \cup {leader[r]} THEN outcome
                                                                 ELSE req[q]]

DeliverTokens(r) ==
  /\ rpc[r] = "ok"
  /\ cookie' = r
  /\ access' = [access EXCEPT ![TabOfRefresh(r)] = r]
  /\ Settle(r, "sent")
  /\ bearer' = [q \in Requests |-> IF q \in Waiting(r) \cup {leader[r]} THEN r
                                                                       ELSE bearer[q]]
  /\ isRefreshing' = [isRefreshing EXCEPT ![TabOfRefresh(r)] = FALSE]
  /\ rpc' = [rpc EXCEPT ![r] = "ended"]
  /\ UNCHANGED <<tabOf, retried, expired, active, sent, leader, logoutVars>>

(* clearAuth, and the tab goes to /login.  The cookie jar is not touched.   *)
DeliverFailure(r) ==
  /\ rpc[r] \in Failures
  /\ access' = [access EXCEPT ![TabOfRefresh(r)] = None]
  /\ Settle(r, "failed")
  /\ isRefreshing' = [isRefreshing EXCEPT ![TabOfRefresh(r)] = FALSE]
  /\ rpc' = [rpc EXCEPT ![r] = IF @ = "lost" THEN "forgone" ELSE "ended"]
  /\ UNCHANGED <<tabOf, bearer, retried, cookie, expired, active, sent, leader,
                 logoutVars>>

-----------------------------------------------------------------------------
(* SessionService *)

SetRpc(r, next) == rpc' = [rpc EXCEPT ![r] = next]

(* findActiveByHash takes no lock *)
FindToken(r) ==
  /\ rpc[r] = "find"
  /\ SetRpc(r, IF sent[r] \in active THEN "rotate" ELSE "refused")
  /\ UNCHANGED <<tabOf, tabVars, cookie, expired, active, sent, leader, logoutVars>>

(* Mutant: revoked outside of the transaction *)
RotateInTwo(r) ==
  /\ rpc[r] = "rotate"
  /\ \/ SetRpc(r, "ok") /\ active' = (active \ {sent[r]}) \cup {r}
     \/ SetRpc(r, "error") /\ active' = active \ {sent[r]}
  /\ UNCHANGED <<tabOf, tabVars, cookie, expired, sent, leader, logoutVars>>

(* Mutant: the old token is not revoked *)
RotatedKeepingOld(r) == active \cup {r}

Rotated(r) == (active \ {sent[r]}) \cup {r}

(* revokeById does not look at revoked_at, so a token that another attempt  *)
(* has revoked meanwhile is exchanged once more.  The transaction may roll  *)
(* back, or commit and its answer get lost (a crash, the network).          *)
Rotate(r) ==
  /\ rpc[r] = "rotate"
  /\ \/ SetRpc(r, "ok") /\ active' = Rotated(r)
     \/ SetRpc(r, "error") /\ active' = active
     \/ SetRpc(r, "lost") /\ active' = Rotated(r)
  /\ UNCHANGED <<tabOf, tabVars, cookie, expired, sent, leader, logoutVars>>

-----------------------------------------------------------------------------
(* Logout *)

Logout ==
  /\ lpc = "none"
  /\ lpc' = "find"
  /\ lsent' = cookie
  /\ overlapped' = \E r \in Refreshes : InFlight(r)
  /\ UNCHANGED <<tabOf, tabVars, cookie, expired, active, refreshVars, logoutFailed>>

FindForLogout ==
  /\ lpc = "find"
  /\ lpc' = IF lsent \in active THEN "revoke" ELSE "answered"
  /\ UNCHANGED <<tabOf, tabVars, cookie, expired, active, refreshVars, lsent,
                 overlapped, logoutFailed>>

RevokeForLogout ==
  /\ lpc = "revoke"
  /\ active' = active \ {lsent}
  /\ lpc' = "answered"
  /\ UNCHANGED <<tabOf, tabVars, cookie, expired, refreshVars, lsent,
                 overlapped, logoutFailed>>

(* Mutant: the store forgets its token, the jar keeps the cookie *)
LoggedOutKeepingCookie(t) ==
  /\ lpc = "answered" /\ ~logoutFailed
  /\ lpc' = "out"
  /\ access' = [access EXCEPT ![t] = None]
  /\ UNCHANGED <<tabOf, req, bearer, retried, isRefreshing, cookie, expired,
                 active, refreshVars, lsent, overlapped, logoutFailed>>

(* The answer clears the cookie, and onSettled the store of the tab that    *)
(* logs out.                                                                *)
LoggedOut(t) ==
  /\ lpc = "answered" /\ ~logoutFailed
  /\ lpc' = "out"
  /\ cookie' = None
  /\ access' = [access EXCEPT ![t] = None]
  /\ UNCHANGED <<tabOf, req, bearer, retried, isRefreshing, expired, active,
                 refreshVars, lsent, overlapped, logoutFailed>>

(* The POST fails, before the api has done anything, after all of it or     *)
(* anywhere between: onSettled still clears the store and leaves for        *)
(* /login, and the cookie stays.  What the api has begun it may finish.     *)
LogoutFails(t) ==
  /\ lpc \in {"find", "revoke", "answered"} /\ ~logoutFailed
  /\ logoutFailed' = TRUE
  /\ access' = [access EXCEPT ![t] = None]
  /\ UNCHANGED <<tabOf, req, bearer, retried, isRefreshing, cookie, expired, active,
                 refreshVars, lpc, lsent, overlapped>>

-----------------------------------------------------------------------------
RefreshStep(r) ==
  \/ FindToken(r)
  \/ Rotate(r)
  \/ DeliverTokens(r)
  \/ DeliverFailure(r)

LogoutStep ==
  FindForLogout \/ RevokeForLogout \/ \E t \in Tabs : LoggedOut(t) \/ LogoutFails(t)

Next ==
  \/ \E q \in Requests : Send(q) \/ Respond(q) \/ GiveUp(q) \/ Wait(q)
  \/ \E q \in Requests, r \in Refreshes : StartRefresh(q, r)
  \/ \E t \in Tokens : Expire(t)
  \/ \E r \in Refreshes : RefreshStep(r)
  \/ Logout
  \/ LogoutStep

Spec == Init /\ [][Next]_vars

(* The api answers every refresh, or the POST fails *)
FairSpec == Spec /\ \A r \in Refreshes : WF_vars(RefreshStep(r))

-----------------------------------------------------------------------------
(* Properties *)

(* The interceptor never has two refreshes of one tab under way *)
OneRefreshPerTab ==
  \A r, s \in Refreshes :
    InFlight(r) /\ InFlight(s) /\ TabOfRefresh(r) = TabOfRefresh(s) => r = s

(* One tab makes all requests *)
OneTab == \A q, p \in Requests : tabOf[q] = tabOf[p]

(* No answer of a rotation was lost after its commit *)
NothingLost == \A r \in Refreshes : rpc[r] \notin {"lost", "forgone"}

(* However the refreshes of several tabs overlap and roll back: until the   *)
(* user logs out, only a lost answer can leave the cookie jar without a     *)
(* token that can be used, or is about to be.                               *)
SessionNotLost ==
  lpc = "none" /\ NothingLost =>
    cookie \in active \/ \E r \in Refreshes : rpc[r] = "ok" /\ r \in active

(* A logout that no refresh is under way with: when the api is through with *)
(* it the token is revoked, though its answer be lost; and when it is       *)
(* answered there is no cookie and, with one tab, no token left over.  One  *)
(* that fails leaves the cookie, and a refresh that was under way may bring *)
(* it back.                                                                 *)
LogoutEnds ==
  ~overlapped =>
    /\ lpc \in {"answered", "out"} => lsent \notin active
    /\ lpc = "out" => cookie = None /\ (OneTab /\ NothingLost => active = {})

(* A request that waits for a refresh is replayed or rejected in the end *)
QueuedRequestsEnd ==
  \A q \in Requests : req[q] = "queued" ~> req[q] # "queued"

(* With one tab no refresh is refused until the user logs out, unless an    *)
(* answer was lost: a refresh that is sent carries the newest token.        *)
NeverRefused ==
  OneTab /\ lpc = "none" /\ NothingLost =>
    \A r \in Refreshes : rpc[r] # "refused"

(* The designs of the api: a refresh revokes the old token and issues a new *)
(* one, so a login has one refresh token at any time.  Only with one tab,   *)
(* but whatever is lost and whenever the user logs out.                     *)
OneActiveToken == OneTab => \A s, t \in active : s = t
=============================================================================
