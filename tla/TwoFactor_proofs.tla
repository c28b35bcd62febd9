-------------------------- MODULE TwoFactor_proofs --------------------------
(***************************************************************************)
(* Safety of TwoFactor for any number of challenges and calls.  With       *)
(* overlap: a login needs a proof.  Without: the challenges are what       *)
(* ChallengeLedger promises and the lockout bounds the wrong codes.  The   *)
(* last two theorems say which overlap those promises are lost to.         *)
(***************************************************************************)
EXTENDS TwoFactor, TLAPS

(* Only an approval on the phone makes a challenge approved *)
ApprovedByUser ==
  \A ch \in Challenges : status[ch] = "APPROVED" => ch \in approvals

(* What is known of a call between its read and its write *)
WriteIsRight ==
  \A c \in Calls :
    /\ kind[c] \in Completes => want[c] = "EXPIRED"
    /\ pc[c] = "write" /\ kind[c] \in Completes => on[c] \in approvals \/ c \in right
    /\ pc[c] = "clear" => c \in right

IInv ==
  /\ TypeOK
  /\ ApprovedByUser
  /\ WriteIsRight
  /\ LoginNeedsProof

USE NoneAssumption, LimitAssumption
    DEF Statuses, Completes, Kinds, Over, Checks, Goto, UnderWay, InTime

(* Nothing has been asked at first *)
LEMMA InitIInv == Init => IInv
  BY DEF Init, IInv, TypeOK, ApprovedByUser, WriteIsRight, LoginNeedsProof

(* The calls of the api keep it *)
LEMMA NextIInv == IInv /\ [Next]_vars => IInv'
  <1> SUFFICES ASSUME IInv, [Next]_vars PROVE IInv'
    OBVIOUS
  <1>0. UNCHANGED serial
    BY DEF Next, vars
  <1> USE <1>0
  <1> USE DEF IInv, TypeOK, ApprovedByUser, WriteIsRight, LoginNeedsProof,
              callVars, historyVars
  <1>1. CASE UNCHANGED vars
    BY <1>1 DEF vars
  <1>2. ASSUME NEW ch \in Challenges, CreateChallenge(ch) \/ PassTime(ch)
        PROVE  IInv'
    <2>1. CASE CreateChallenge(ch)
      BY <2>1 DEF CreateChallenge
    <2>2. CASE PassTime(ch)
      BY <2>2 DEF PassTime
    <2> QED
      BY <1>2, <2>1, <2>2
  <1>3. ASSUME NEW c \in Calls, NEW ch \in Challenges, Start(c, ch)
        PROVE  IInv'
    <2>1. CASE Respond(c, ch)
      BY <2>1 DEF Respond, Found
    <2>2. CASE GetStatus(c, ch)
      BY <2>2 DEF GetStatus, Found
    <2>3. CASE Resend(c, ch)
      BY <2>3 DEF Resend, Found
    <2>4. CASE CompletePush(c, ch)
      BY <2>4 DEF CompletePush, Found
    <2>5. CASE CompleteTotp(c, ch)
      BY <2>5 DEF CompleteTotp, Found
    <2> QED
      BY <1>3, <2>1, <2>2, <2>3, <2>4, <2>5 DEF Start
  <1>4. ASSUME NEW c \in Calls, NEW ch \in Challenges, InsertResent(c, ch)
        PROVE  IInv'
    BY <1>4 DEF InsertResent
  <1>5. ASSUME NEW c \in Calls, UpdateStatus(c) PROVE IInv'
    BY <1>5 DEF UpdateStatus
  <1>6. ASSUME NEW c \in Calls, Claim(c) PROVE IInv'
    BY <1>6 DEF Claim
  <1>7. ASSUME NEW c \in Calls, Commit(c) PROVE IInv'
    BY <1>7 DEF Commit
  <1>8. ASSUME NEW c \in Calls, IssueAuthenticatedResponse(c) PROVE IInv'
    BY <1>8 DEF IssueAuthenticatedResponse
  <1>9. ASSUME NEW c \in Calls, Fail(c) PROVE IInv'
    BY <1>9 DEF Fail
  <1>10. ASSUME NEW c \in Calls,
                IsLocked(c) \/ VerifyRight(c) \/ VerifyWrong(c) \/ GetFailureCount(c)
         PROVE  IInv'
    BY <1>10 DEF IsLocked, VerifyRight, VerifyWrong, GetFailureCount
  <1>11. ASSUME NEW c \in Calls, SetFailureCount(c) \/ ClearLockout(c)
         PROVE  IInv'
    BY <1>11 DEF SetFailureCount, ClearLockout
  <1>12. CASE ForgetFailures
    BY <1>12 DEF ForgetFailures
  <1> QED
    BY <1>1, <1>2, <1>3, <1>4, <1>5, <1>6, <1>7, <1>8, <1>9, <1>10, <1>11, <1>12
    DEF Next, Step

(* The invariant holds in every reachable state *)
THEOREM Invariance == Spec => []IInv
  <1>1. QED
    BY InitIInv, NextIInv, PTL DEF Spec

(* Every variable keeps its type, and a call only takes the steps of its kind *)
THEOREM TypeCorrect == Spec => []TypeOK
  <1>1. IInv => TypeOK
    BY DEF IInv
  <1>2. QED
    BY <1>1, Invariance, PTL

(* However the calls overlap and fail, nobody is let in without an approval *)
(* of that challenge or a right code.                                       *)
THEOREM LoginsAreProved == Spec => []LoginNeedsProof
  <1>1. IInv => LoginNeedsProof
    BY DEF IInv
  <1>2. QED
    BY <1>1, Invariance, PTL

-----------------------------------------------------------------------------
(* While the calls of the user do not overlap *)

OneAtATime == \A c, d \in Calls : UnderWay(c) /\ UnderWay(d) => c = d

(* What a call has read is still so when it writes *)
ReadIsFresh ==
  \A c \in Calls :
    /\ pc[c] = "write" /\ kind[c] \notin Completes => status[on[c]] = "PENDING"
    /\ kind[c] \in Completes /\ pc[c] \in Checks \cup {"write", "held"} =>
         status[on[c]] \in {"PENDING", "APPROVED"}
    /\ pc[c] = "write" => want[c] \in {"APPROVED", "DENIED", "EXPIRED"}
    /\ kind[c] \in Completes => want[c] = "EXPIRED"

(* A challenge that has let a login through is over *)
ClaimedIsOver ==
  \A ch \in Challenges :
    /\ claims[ch] \in {0, 1}
    /\ claims[ch] = 1 => status[ch] = "EXPIRED"

SerialInv ==
  /\ OneAtATime
  /\ ReadIsFresh
  /\ ClaimedIsOver

(* Nothing is under way at first *)
LEMMA InitSerialInv == Init => SerialInv
  BY DEF Init, SerialInv, OneAtATime, ReadIsFresh, ClaimedIsOver

(* Nobody else writes between a call's read and its write *)
LEMMA NextSerialInv ==
  ASSUME serial, IInv, SerialInv, [Next]_vars
  PROVE  SerialInv'
  <1>0. serial /\ serial'
    BY DEF Next, vars
  <1> USE <1>0
  <1> USE DEF IInv, TypeOK, SerialInv, OneAtATime, ReadIsFresh, ClaimedIsOver,
              callVars, historyVars
  <1>1. CASE UNCHANGED vars
    BY <1>1 DEF vars
  <1>2. ASSUME NEW ch \in Challenges, CreateChallenge(ch) \/ PassTime(ch)
        PROVE  SerialInv'
    BY <1>2 DEF CreateChallenge, PassTime
  <1>3. ASSUME NEW c \in Calls, NEW ch \in Challenges, Start(c, ch)
        PROVE  SerialInv'
    <2>1. CASE Respond(c, ch)
      BY <2>1 DEF Respond, Found
    <2>2. CASE GetStatus(c, ch)
      BY <2>2 DEF GetStatus, Found
    <2>3. CASE Resend(c, ch)
      BY <2>3 DEF Resend, Found
    <2>4. CASE CompletePush(c, ch)
      BY <2>4 DEF CompletePush, Found
    <2>5. CASE CompleteTotp(c, ch)
      BY <2>5 DEF CompleteTotp, Found
    <2> QED
      BY <1>3, <2>1, <2>2, <2>3, <2>4, <2>5 DEF Start
  <1>4. ASSUME NEW c \in Calls, NEW ch \in Challenges, InsertResent(c, ch)
        PROVE  SerialInv'
    BY <1>4 DEF InsertResent
  <1>5. ASSUME NEW c \in Calls, UpdateStatus(c) PROVE SerialInv'
    BY <1>5 DEF UpdateStatus
  <1>6. ASSUME NEW c \in Calls, Claim(c) PROVE SerialInv'
    BY <1>6 DEF Claim
  <1>7. ASSUME NEW c \in Calls, Commit(c) PROVE SerialInv'
    BY <1>7 DEF Commit
  <1>8. ASSUME NEW c \in Calls, IssueAuthenticatedResponse(c) PROVE SerialInv'
    BY <1>8 DEF IssueAuthenticatedResponse
  <1>9. ASSUME NEW c \in Calls, Fail(c) PROVE SerialInv'
    BY <1>9 DEF Fail
  <1>10. ASSUME NEW c \in Calls,
                IsLocked(c) \/ VerifyRight(c) \/ VerifyWrong(c) \/ GetFailureCount(c)
         PROVE  SerialInv'
    BY <1>10 DEF IsLocked, VerifyRight, VerifyWrong, GetFailureCount
  <1>11. ASSUME NEW c \in Calls, SetFailureCount(c) \/ ClearLockout(c)
         PROVE  SerialInv'
    BY <1>11 DEF SetFailureCount, ClearLockout
  <1>12. CASE ForgetFailures
    BY <1>12 DEF ForgetFailures
  <1> QED
    BY <1>1, <1>2, <1>3, <1>4, <1>5, <1>6, <1>7, <1>8, <1>9, <1>10, <1>11, <1>12
    DEF Next, Step

(* Every step is a step of the ledger or leaves it alone *)
LEMMA NextLedger ==
  ASSUME serial, IInv, SerialInv, [Next]_vars
  PROVE  [Ledger!Next]_(Ledger!vars)
  <1>0. serial /\ serial'
    BY DEF Next, vars
  <1> USE <1>0
  <1> USE DEF IInv, TypeOK, SerialInv, OneAtATime, ReadIsFresh, ClaimedIsOver,
              callVars, historyVars, Ledger!Next, Ledger!vars, Ledger!Open,
              Ledger!Answer, Ledger!Pass
  <1>1. CASE UNCHANGED <<status, claims>>
    BY <1>1
  <1>2. ASSUME NEW ch \in Challenges, CreateChallenge(ch)
        PROVE  Ledger!Open(ch)
    BY <1>2 DEF CreateChallenge
  <1>3. ASSUME NEW c \in Calls, NEW ch \in Challenges, InsertResent(c, ch)
        PROVE  Ledger!Open(ch)
    BY <1>3 DEF InsertResent
  <1>4. ASSUME NEW c \in Calls, UpdateStatus(c)
        PROVE  Ledger!Answer(on[c])
    <2>1. /\ status[on[c]] = "PENDING"
          /\ want[c] \in {"APPROVED", "DENIED", "EXPIRED"}
      BY <1>4 DEF UpdateStatus
    <2>2. /\ status' = [status EXCEPT ![on[c]] = want[c]]
          /\ UNCHANGED claims
      BY <1>4 DEF UpdateStatus
    <2> QED
      BY ONLY <1>0, <2>1, <2>2 DEF Ledger!Answer
  <1>5. ASSUME NEW c \in Calls, Commit(c)
        PROVE  Ledger!Pass(on[c])
    <2>1. on[c] \in Challenges /\ kind[c] \in Completes /\ pc[c] = "held"
      BY <1>5 DEF Commit
    <2>2. want[c] = "EXPIRED" /\ status[on[c]] \in {"PENDING", "APPROVED"}
      BY <2>1
    <2>3. claims[on[c]] = 0
      BY <2>1, <2>2
    <2>4. claims' = [claims EXCEPT ![on[c]] = 1]
      BY <2>3, <1>5 DEF Commit
    <2>5. status' = [status EXCEPT ![on[c]] = "EXPIRED"]
      BY <2>2, <1>5 DEF Commit
    <2> QED
      BY ONLY <1>0, <2>2, <2>3, <2>4, <2>5 DEF Ledger!Pass
  <1>6. CASE UNCHANGED vars
    BY <1>6 DEF vars
  <1>7. ASSUME NEW c \in Calls, NEW ch \in Challenges, Start(c, ch)
        PROVE  UNCHANGED <<status, claims>>
    BY <1>7
    DEF Start, Respond, GetStatus, Resend, CompletePush, CompleteTotp, Found
  <1>8. ASSUME NEW c \in Calls,
               \/ Claim(c) \/ IssueAuthenticatedResponse(c) \/ Fail(c)
               \/ IsLocked(c) \/ VerifyRight(c) \/ VerifyWrong(c)
               \/ GetFailureCount(c) \/ SetFailureCount(c) \/ ClearLockout(c)
        PROVE  UNCHANGED <<status, claims>>
    BY <1>8
    DEF Claim, IssueAuthenticatedResponse, Fail, IsLocked, VerifyRight,
        VerifyWrong, GetFailureCount, SetFailureCount, ClearLockout
  <1>9. ASSUME NEW ch \in Challenges, PassTime(ch)
        PROVE  UNCHANGED <<status, claims>>
    BY <1>9 DEF PassTime
  <1>10. CASE ForgetFailures
    BY <1>10 DEF ForgetFailures
  <1>11. \A c \in Calls : pc[c] # "idle" => on[c] \in Challenges
    OBVIOUS
  <1>12. \A c \in Calls : UpdateStatus(c) \/ Commit(c) => on[c] \in Challenges
    BY <1>11 DEF UpdateStatus, Commit
  <1> QED
    BY <1>1, <1>2, <1>3, <1>4, <1>5, <1>6, <1>7, <1>8, <1>9, <1>10, <1>12
    DEF Next, Step

(* The challenges implement the ledger: where the calls do not overlap, step *)
(* by step, and where they do, the mapping stands still.                    *)
THEOREM ChallengesKeepTheLedger == Spec => ImplementsLedger
  <1>1. Init => Ledger!Init
    BY DEF Init, Ledger!Init
  <1>2. IInv /\ (serial => SerialInv) /\ [Next]_vars => [Ledger!Next]_(Ledger!vars)
    <2>1. ASSUME ~serial, [Next]_vars PROVE UNCHANGED Ledger!vars
      <3>1. ~serial /\ ~serial'
        BY <2>1 DEF Next, vars
      <3> QED
        BY ONLY <3>1 DEF Ledger!vars
    <2> QED
      BY <2>1, NextLedger
  <1>3. IInv /\ (serial => SerialInv) /\ [Next]_vars => (serial => SerialInv)'
    BY NextSerialInv DEF Next, vars
  <1>4. Init => (serial => SerialInv)
    BY InitSerialInv
  <1>5. QED
    BY <1>1, <1>2, <1>3, <1>4, Invariance, PTL
    DEF Spec, ImplementsLedger, Ledger!Spec

-----------------------------------------------------------------------------
(* The lockout, while no two codes are being verified *)

Verifies(c) == pc[c] \in {"verify", "count", "set"}

OneCodeAtATime == \A c, d \in Calls : Verifies(c) /\ Verifies(d) => c = d

(* Every wrong code is counted, or about to be *)
TriesCounted ==
  /\ tries <= failures \/ \E c \in Calls : pc[c] \in {"count", "set"}
  /\ failures <= MaxFailures
  /\ \A c \in Calls :
       /\ pc[c] = "verify" => failures < MaxFailures
       /\ pc[c] = "count" => tries <= failures + 1 /\ failures < MaxFailures
       /\ pc[c] = "set" =>
            tries <= seen[c] + 1 /\ tries <= failures + 1 /\ seen[c] < MaxFailures

LockoutInv == TriesCounted /\ tries <= MaxFailures

(* Nothing has been tried at first *)
LEMMA InitLockoutInv == Init => LockoutInv
  BY DEF Init, LockoutInv, TriesCounted

(* A wrong code is counted before the next one is looked at *)
LEMMA NextLockoutInv ==
  ASSUME IInv, OneCodeAtATime, LockoutInv, [Next]_vars
  PROVE  LockoutInv'
  <1> USE DEF IInv, TypeOK, Verifies, OneCodeAtATime, LockoutInv, TriesCounted,
              callVars, historyVars
  <1>1. CASE UNCHANGED vars
    BY <1>1 DEF vars
  <1>2. ASSUME NEW ch \in Challenges, CreateChallenge(ch) \/ PassTime(ch)
        PROVE  LockoutInv'
    BY <1>2 DEF CreateChallenge, PassTime
  <1>3. ASSUME NEW c \in Calls, NEW ch \in Challenges, Start(c, ch)
        PROVE  LockoutInv'
    BY <1>3
    DEF Start, Respond, GetStatus, Resend, CompletePush, CompleteTotp, Found
  <1>4. ASSUME NEW c \in Calls, NEW ch \in Challenges, InsertResent(c, ch)
        PROVE  LockoutInv'
    BY <1>4 DEF InsertResent
  <1>5. ASSUME NEW c \in Calls,
               \/ UpdateStatus(c) \/ Claim(c) \/ Commit(c)
               \/ IssueAuthenticatedResponse(c)
        PROVE  LockoutInv'
    BY <1>5 DEF UpdateStatus, Claim, Commit, IssueAuthenticatedResponse
  <1>6. ASSUME NEW c \in Calls, IsLocked(c) PROVE LockoutInv'
    BY <1>6 DEF IsLocked
  <1>7. ASSUME NEW c \in Calls, VerifyRight(c) PROVE LockoutInv'
    BY <1>7 DEF VerifyRight
  <1>8. ASSUME NEW c \in Calls, VerifyWrong(c) PROVE LockoutInv'
    BY <1>8 DEF VerifyWrong
  <1>9. ASSUME NEW c \in Calls, GetFailureCount(c) PROVE LockoutInv'
    BY <1>9 DEF GetFailureCount
  <1>10. ASSUME NEW c \in Calls, SetFailureCount(c) PROVE LockoutInv'
    BY <1>10 DEF SetFailureCount
  <1>11. ASSUME NEW c \in Calls, ClearLockout(c) PROVE LockoutInv'
    BY <1>11 DEF ClearLockout
  <1>12. CASE ForgetFailures
    BY <1>12 DEF ForgetFailures
  <1>13. ASSUME NEW c \in Calls, Fail(c) PROVE LockoutInv'
    <2>1. CASE Verifies(c)
      BY <1>13, <2>1 DEF Fail
    <2>2. CASE ~Verifies(c)
      BY <1>13, <2>2 DEF Fail
    <2> QED
      BY <2>1, <2>2
  <1> QED
    BY <1>1, <1>2, <1>3, <1>4, <1>5, <1>6, <1>7, <1>8, <1>9, <1>10, <1>11,
       <1>12, <1>13
    DEF Next, Step

(* After MAX_FAILURES wrong codes the next one is not looked at *)
THEOREM LockoutLocks == Spec => []TriesBounded
  <1> DEFINE Both == serial => SerialInv /\ LockoutInv
  <1>1. Init => Both
    BY InitSerialInv, InitLockoutInv
  <1>2. IInv /\ Both /\ [Next]_vars => Both'
    <2>1. SerialInv => OneCodeAtATime
      BY DEF SerialInv, OneAtATime, OneCodeAtATime, Verifies
    <2> QED
      BY <2>1, NextSerialInv, NextLockoutInv DEF Next, vars
  <1>3. Both => TriesBounded
    BY DEF LockoutInv, TriesBounded
  <1> HIDE DEF Both
  <1>4. QED
    BY <1>1, <1>2, <1>3, Invariance, PTL DEF Spec

(* TotpTwoFaStrategy.verifyResponse is all the lockout depends on: as long  *)
(* as no two codes are verified together, the rest of the calls may overlap *)
(* and fail as they like, and MAX_FAILURES wrong codes are the most.        *)
THEOREM OnlyVerifyingOutrunsTheLockout ==
  Spec /\ []OneCodeAtATime => [](tries <= MaxFailures)
  <1>1. LockoutInv => tries <= MaxFailures
    BY DEF LockoutInv
  <1> QED
    BY <1>1, InitLockoutInv, NextLockoutInv, Invariance, PTL DEF Spec

-----------------------------------------------------------------------------
(* How often a challenge lets a login through *)

(* Between its read and its write, a call that answers or claims *)
Decides(c) ==
  /\ kind[c] \in {"respond"} \cup Completes
  /\ pc[c] \in Checks \cup {"write", "held"}

OneDecision ==
  \A c, d \in Calls : Decides(c) /\ Decides(d) /\ on[c] = on[d] => c = d

(* A challenge that has let a login through is over, and nobody who read it *)
(* before is about to write.                                                *)
ClaimsInv ==
  /\ \A ch \in Challenges :
       /\ claims[ch] \in {0, 1}
       /\ claims[ch] = 1 => status[ch] = "EXPIRED"
  /\ \A c \in Calls :
       /\ Decides(c) => claims[on[c]] = 0
       /\ kind[c] \in {"status", "resend"} => want[c] = "EXPIRED"

OneLoginPerChallenge == \A ch \in Challenges : claims[ch] <= 1

(* Nothing has been claimed at first *)
LEMMA InitClaimsInv == Init => ClaimsInv
  BY DEF Init, ClaimsInv, Decides

(* Polls and resends only ever expire a challenge *)
LEMMA NextClaimsInv == IInv /\ ClaimsInv /\ OneDecision /\ [Next]_vars => ClaimsInv'
  <1> SUFFICES ASSUME IInv, ClaimsInv, OneDecision, [Next]_vars PROVE ClaimsInv'
    OBVIOUS
  <1> USE DEF IInv, TypeOK, ClaimsInv, Decides, callVars, historyVars
  <1>1. CASE UNCHANGED vars
    BY <1>1 DEF vars
  <1>2. ASSUME NEW ch \in Challenges, CreateChallenge(ch) \/ PassTime(ch)
        PROVE  ClaimsInv'
    BY <1>2 DEF CreateChallenge, PassTime
  <1>3. ASSUME NEW c \in Calls, NEW ch \in Challenges, Start(c, ch)
        PROVE  ClaimsInv'
    <2>1. CASE Respond(c, ch)
      BY <2>1 DEF Respond, Found
    <2>2. CASE GetStatus(c, ch)
      BY <2>2 DEF GetStatus, Found
    <2>3. CASE Resend(c, ch)
      BY <2>3 DEF Resend, Found
    <2>4. CASE CompletePush(c, ch)
      BY <2>4 DEF CompletePush, Found
    <2>5. CASE CompleteTotp(c, ch)
      BY <2>5 DEF CompleteTotp, Found
    <2> QED
      BY <1>3, <2>1, <2>2, <2>3, <2>4, <2>5 DEF Start
  <1>4. ASSUME NEW c \in Calls, NEW ch \in Challenges, InsertResent(c, ch)
        PROVE  ClaimsInv'
    BY <1>4 DEF InsertResent
  <1>5. ASSUME NEW c \in Calls, UpdateStatus(c) PROVE ClaimsInv'
    <2>1. claims[on[c]] = 0 \/ want[c] = "EXPIRED"
      BY <1>5 DEF UpdateStatus
    <2> QED
      BY <1>5, <2>1 DEF UpdateStatus
  <1>6. ASSUME NEW c \in Calls, Claim(c) PROVE ClaimsInv'
    BY <1>6 DEF Claim
  <1>7. ASSUME NEW c \in Calls, Commit(c) PROVE ClaimsInv'
    <2>1. /\ on[c] \in Challenges /\ Decides(c)
          /\ want[c] = "EXPIRED" /\ claims[on[c]] = 0
      BY <1>7 DEF Commit, WriteIsRight
    <2>2. /\ status' = [status EXCEPT ![on[c]] = "EXPIRED"]
          /\ claims' = [claims EXCEPT ![on[c]] = 1]
          /\ pc' = [pc EXCEPT ![c] = "claimed"]
          /\ UNCHANGED <<kind, on, want>>
      BY <1>7, <2>1 DEF Commit
    <2>3. \A d \in Calls : Decides(d)' => Decides(d) /\ on[d] # on[c]
      BY <2>1, <2>2 DEF OneDecision
    <2> QED
      BY <2>1, <2>2, <2>3
  <1>8. ASSUME NEW c \in Calls, IssueAuthenticatedResponse(c) \/ Fail(c)
        PROVE  ClaimsInv'
    BY <1>8 DEF IssueAuthenticatedResponse, Fail
  <1>9. ASSUME NEW c \in Calls,
               IsLocked(c) \/ VerifyRight(c) \/ VerifyWrong(c) \/ GetFailureCount(c)
        PROVE  ClaimsInv'
    BY <1>9 DEF IsLocked, VerifyRight, VerifyWrong, GetFailureCount
  <1>10. ASSUME NEW c \in Calls, SetFailureCount(c) \/ ClearLockout(c)
         PROVE  ClaimsInv'
    BY <1>10 DEF SetFailureCount, ClearLockout
  <1>11. CASE ForgetFailures
    BY <1>11 DEF ForgetFailures
  <1> QED
    BY <1>1, <1>2, <1>3, <1>4, <1>5, <1>6, <1>7, <1>8, <1>9, <1>10, <1>11 DEF Next, Step

(* respond and complete: as long as no two of them are between their read   *)
(* and their write for the same challenge, the challenge lets one login     *)
(* through at most, whatever is polled, sent again, or in progress for      *)
(* other challenges.                                                        *)
THEOREM OnlyDecisionsClaimTwice ==
  Spec /\ []OneDecision => []OneLoginPerChallenge
  <1>1. ClaimsInv => OneLoginPerChallenge
    <2>1. \A n \in {0, 1} : n <= 1
      OBVIOUS
    <2> QED
      BY <2>1, Zenon DEF ClaimsInv, OneLoginPerChallenge
  <1> QED
    BY <1>1, InitClaimsInv, NextClaimsInv, Invariance, PTL DEF Spec
=============================================================================
