--------------------------- MODULE Accounts_proofs ---------------------------
(***************************************************************************)
(* Safety of Accounts for any number of users, invitations and calls, how- *)
(* ever they overlap and fail: every variable keeps its type, a user has   *)
(* been invited and has codes, and an acknowledged enrolment is kept.      *)
(* While a user has no two calls of a kind under way: a code lets one      *)
(* login in, the last codes are the good ones, trusted devices stay within *)
(* their limit, and there is one personal drive. The last theorems narrow  *)
(* each premise to the one overlap that does the harm.                     *)
(***************************************************************************)
EXTENDS Accounts, FiniteSetTheorems, WellFoundedInduction, TLAPS

CodesOf(u) == unused[u] \cup used[u]

(* A call that has not ended has made no code, none is used to log in, and  *)
(* those of a user that there is are regenerated.                           *)
CodesInv ==
  /\ \A c \in Calls, u \in Users : pc[c] # "done" => c \notin CodesOf(u)
  /\ \A c \in Calls : kind[c] = "codeLogin" /\ pc[c] # "new" =>
       item[c] \in Ids /\ \A d \in Calls : pc[d] # "done" => item[c] # d
  /\ \A c \in Calls : kind[c] = "regenerate" /\ pc[c] = "write" =>
       user[c] \in users /\ seen[c] \subseteq CodesOf(user[c])
  /\ \A c \in Calls : kind[c] = "regenerate" /\ pc[c] # "new" => user[c] \in users

(* Two registrations that are about to commit have their own invitation and *)
(* their own name, and nobody has had them before.                          *)
RegisterInv ==
  /\ \A c \in Calls : kind[c] = "register" => item[c] \in Invitations
  /\ \A c \in Calls : kind[c] = "register" /\ pc[c] \in {"consume", "commit"} =>
       user[c] \notin users
  /\ \A c \in Calls : At(c, "register", "commit") => usedBy[item[c]] = None
  /\ \A c, d \in Calls :
       /\ kind[c] = "register" /\ pc[c] \in {"consume", "commit"}
       /\ kind[d] = "register" /\ pc[d] \in {"consume", "commit"}
       /\ user[c] = user[d]
       => c = d
  /\ \A c, d \in Calls :
       At(c, "register", "commit") /\ At(d, "register", "commit") /\ item[c] = item[d]
       => c = d

NoAnswerYet == \A c \in Calls : pc[c] # "done" => result[c] = "none"

IInv ==
  /\ TypeOK
  /\ CodesInv
  /\ RegisterInv
  /\ NoAnswerYet
  /\ UsersAreComplete
  /\ EnrolmentIsKept

USE NamesAssumption, TrustAssumption
    DEF Ids, Kinds, Steps, UnderWay, CodesOf, At, inviteVars, codeVars, deviceVars,
        rowVars, callVars

(* The rows of a user can be counted *)
LEMMA RowsAreCounted == \A S \in SUBSET Ids : Cardinality(S) \in Nat
  <1>1. IsFiniteSet(Ids)
    BY FiniteAssumption, FS_Union
  <1> QED
    BY <1>1, FS_Subset, FS_CardinalityType

(* A user of old has its invitation and its code *)
LEMMA InitIInv == Init => IInv
  <1> SUFFICES ASSUME Init PROVE IInv
    OBVIOUS
  <1>1. PICK u \in Users, i \in Invitations, k \in Old : OldUser(u, i, k)
    BY DEF Init
  <1>2. created \in [Ids -> Nat] /\ expired \subseteq Ids
    <2>1. devices \in [Users -> SUBSET Ids]
      BY <1>1 DEF OldUser
    <2>2. expired \subseteq Ids
      BY <2>1 DEF Init
    <2>3. \A n \in Nat : 0 .. n \subseteq Nat
      OBVIOUS
    <2> QED
      BY <2>2, <2>3 DEF Init
  <1>3. TypeOK
    BY <1>1, <1>2 DEF Init, OldUser, TypeOK
  <1>4. \A c \in Calls : kind[c] = "none" /\ pc[c] = "new" /\ result[c] = "none"
    BY DEF Init
  <1>5. \A v \in Users : CodesOf(v) \subseteq Old /\ (v \in users => CodesOf(v) = {k})
    BY <1>1 DEF Init, OldUser
  <1>6. CodesInv
    BY <1>4, <1>5 DEF CodesInv
  <1>7. RegisterInv /\ NoAnswerYet /\ EnrolmentIsKept
    BY <1>4 DEF RegisterInv, NoAnswerYet, EnrolmentIsKept
  <1>8. users \subseteq {u} /\ (u \in users => usedBy[i] = u)
    BY <1>1 DEF OldUser
  <1>9. UsersAreComplete
    BY <1>1, <1>5, <1>8 DEF UsersAreComplete
  <1> QED
    BY <1>3, <1>6, <1>7, <1>9 DEF IInv

(* A call that starts *)
LEMMA StartIInv ==
  ASSUME IInv, single' = single, NEW c \in Calls, NEW k \in Kinds, NEW u \in Users,
         NEW i \in Invitations \cup Ids \cup {None}, Start(c, k, u, i),
         k = "register" => i \in Invitations,
         k = "regenerate" => u \in users,
         k = "codeLogin" => i \in CodesOf(u)
  PROVE  IInv'
  <1> USE DEF IInv, Start
  <1>1. TypeOK'
    BY DEF TypeOK
  <1>2. CodesInv'
    BY DEF TypeOK, CodesInv
  <1>3. RegisterInv'
    BY DEF TypeOK, RegisterInv
  <1>4. NoAnswerYet'
    BY DEF TypeOK, NoAnswerYet
  <1>5. UsersAreComplete'
    BY DEF UsersAreComplete
  <1>6. EnrolmentIsKept'
    <2>1. \A d \in Calls : kind'[d] = "enrol" /\ result'[d] = "ok" =>
            kind[d] = "enrol" /\ result[d] = "ok" /\ user'[d] = user[d]
      BY DEF TypeOK, NoAnswerYet
    <2> QED
      BY <2>1 DEF EnrolmentIsKept
  <1> QED
    BY <1>1, <1>2, <1>3, <1>4, <1>5, <1>6

(* A step within a call that only reads: it goes on or fails *)
LEMMA ReadIInv ==
  ASSUME IInv, single' = single, NEW c \in Calls, UnderWay(c), UNCHANGED rowVars,
         \/ Answer(c, "error")
         \/ Answer(c, "ok") /\ kind[c] = "drive"
         \/ /\ \E step \in Steps \ {"new", "done"} :
                 /\ Goto(c, step)
                 /\ kind[c] = "register" => step = "insert"
            /\ seen' \in [Calls -> SUBSET Ids] /\ excess' \in [Calls -> Nat]
            /\ \A d \in Calls \ {c} : seen'[d] = seen[d]
            /\ kind[c] = "regenerate" => seen'[c] \subseteq CodesOf(user[c])
  PROVE  IInv'
  <1> USE DEF IInv
  <1>1. CASE \E r \in {"ok", "error"} : Answer(c, r) /\ (r = "ok" => kind[c] = "drive")
    <2> USE <1>1 DEF Answer
    <2>1. TypeOK'
      BY DEF TypeOK
    <2>2. CodesInv'
      BY DEF TypeOK, CodesInv
    <2>3. RegisterInv'
      BY DEF TypeOK, RegisterInv
    <2>4. NoAnswerYet' /\ UsersAreComplete'
      BY DEF TypeOK, NoAnswerYet, UsersAreComplete
    <2>5. EnrolmentIsKept'
      BY DEF TypeOK, EnrolmentIsKept
    <2> QED
      BY <2>1, <2>2, <2>3, <2>4, <2>5
  <1>2. ASSUME NEW step \in Steps \ {"new", "done"}, Goto(c, step),
               kind[c] = "register" => step = "insert",
               seen' \in [Calls -> SUBSET Ids], excess' \in [Calls -> Nat],
               \A d \in Calls \ {c} : seen'[d] = seen[d],
               kind[c] = "regenerate" => seen'[c] \subseteq CodesOf(user[c])
        PROVE  IInv'
    BY <1>2 DEF Goto, TypeOK, CodesInv, RegisterInv, NoAnswerYet, UsersAreComplete,
                EnrolmentIsKept
  <1> QED
    BY <1>1, <1>2

(* The calls keep it *)
LEMMA NextIInv == IInv /\ [Next]_vars => IInv'
  <1> SUFFICES ASSUME IInv, [Next]_vars PROVE IInv'
    OBVIOUS
  <1>0. single' = single
    BY DEF Next, vars
  <1> USE <1>0 DEF IInv
  <1>1. CASE UNCHANGED vars
    BY <1>1 DEF vars, TypeOK, CodesInv, RegisterInv, NoAnswerYet, UsersAreComplete,
                EnrolmentIsKept
  <1>2. ASSUME NEW c \in Calls, Begin(c) PROVE IInv'
    <2>1. \E k \in Kinds, u \in Users, i \in Invitations \cup Ids \cup {None} :
            /\ Start(c, k, u, i)
            /\ k = "register" => i \in Invitations
            /\ k = "regenerate" => u \in users
            /\ k = "codeLogin" => i \in CodesOf(u)
      BY <1>2 DEF Begin, Register, LoginWithCode, Distrust, Regenerate, Enrol,
                  RemoveStrategy, Trust, EnsurePersonalDrive, TypeOK
    <2> QED
      BY <2>1, StartIInv
  <1>3. ASSUME NEW c \in Calls,
               \/ ValidateInvitation(c) \/ MatchCode(c) \/ FindUnused(c) \/ FindTotp(c)
               \/ CountRemaining(c) \/ CountActive(c) \/ FindOldest(c) \/ FindDevice(c)
               \/ FindDrive(c) \/ Fail(c)
        PROVE  IInv'
    <2>1. UnderWay(c) /\ UNCHANGED rowVars
      BY <1>3 DEF ValidateInvitation, MatchCode, FindUnused, FindTotp, CountRemaining,
                  CountActive, FindOldest, FindDevice, FindDrive, Fail
    <2>2. CASE \/ ValidateInvitation(c) \/ MatchCode(c) \/ FindTotp(c)
               \/ CountRemaining(c) \/ FindDevice(c) \/ Fail(c) \/ FindDrive(c)
      <3>1. \/ Answer(c, "error")
            \/ Answer(c, "ok") /\ kind[c] = "drive"
            \/ /\ \E step \in Steps \ {"new", "done"} :
                    Goto(c, step) /\ (kind[c] = "register" => step = "insert")
               /\ UNCHANGED <<seen, excess>>
               /\ kind[c] # "regenerate"
        BY <2>2 DEF ValidateInvitation, MatchCode, FindTotp, CountRemaining, FindDevice,
                    FindDrive, Fail, GoOnIf
      <3> QED
        BY <2>1, <3>1, ReadIInv DEF TypeOK
    <2>3. CASE FindUnused(c)
      <3>1. user[c] \in Users /\ kind[c] = "regenerate" /\ Goto(c, "write")
        BY <2>1, <2>3 DEF FindUnused, TypeOK
      <3>2. /\ seen' = [seen EXCEPT ![c] = unused[user[c]]]
            /\ excess' = excess
        BY <2>3 DEF FindUnused
      <3> QED
        BY <2>1, <3>1, <3>2, ReadIInv DEF TypeOK
    <2>4. CASE CountActive(c)
      <3>1. /\ \E step \in {"oldest", "write"} : Goto(c, step)
            /\ kind[c] = "trust" /\ seen' = seen
            /\ \E n \in Nat : excess' = [excess EXCEPT ![c] = n]
        <4>1. user[c] \in Users /\ devices[user[c]] \subseteq Ids
          BY <2>1 DEF TypeOK
        <4> DEFINE n == Cardinality(Active(user[c]))
        <4>3. n \in Nat
          <5>1. Active(user[c]) \in SUBSET Ids
            BY <4>1 DEF Active
          <5> QED
            BY <5>1, RowsAreCounted
        <4>2. excess' = [excess EXCEPT ![c] = IF n >= MaxTrust THEN n - (MaxTrust - 1) ELSE 0]
          BY <2>4 DEF CountActive
        <4> QED
          <5> DEFINE m == IF n >= MaxTrust THEN n - (MaxTrust - 1) ELSE 0
          <5>1. m \in Nat
            BY <4>3
          <5>2. \E j \in Nat : excess' = [excess EXCEPT ![c] = j]
            BY <5>1, <4>2
          <5>3. \E step \in {"oldest", "write"} : Goto(c, step)
            BY <2>4 DEF CountActive
          <5> QED
            BY <2>4, <5>2, <5>3 DEF CountActive
      <3> QED
        BY <2>1, <3>1, ReadIInv DEF TypeOK
    <2>5. CASE FindOldest(c)
      <3>1. Goto(c, "write") /\ kind[c] = "trust" /\ excess' = excess
        BY <2>5 DEF FindOldest
      <3>2. \E S \in SUBSET devices[user[c]] : seen' = [seen EXCEPT ![c] = S]
        BY <2>5 DEF FindOldest
      <3>3. user[c] \in Users /\ devices[user[c]] \subseteq Ids
        BY <2>1 DEF TypeOK
      <3> QED
        BY <2>1, <3>1, <3>2, <3>3, ReadIInv DEF TypeOK
    <2> QED
      BY <1>3, <2>2, <2>3, <2>4, <2>5
  <1>4. ASSUME NEW c \in Calls, InsertUser(c) PROVE IInv'
    <2>1. UnderWay(c) /\ UNCHANGED rowVars
      BY <1>4 DEF InsertUser
    <2>2. CASE Answer(c, "error")
      BY <2>1, <2>2, ReadIInv
    <2>3. CASE /\ Goto(c, "consume") /\ UNCHANGED <<seen, excess>>
               /\ user[c] \notin users /\ kind[c] = "register" /\ pc[c] = "insert"
               /\ \A d \in Calls : kind[d] = "register" /\ user[d] = user[c] =>
                    pc[d] \notin {"consume", "commit"}
      <3> USE <2>1, <2>3 DEF Goto
      <3>1. TypeOK'
        BY DEF TypeOK
      <3>2. CodesInv'
        BY DEF TypeOK, CodesInv
      <3>3. RegisterInv'
        BY DEF TypeOK, RegisterInv
      <3>4. NoAnswerYet'
        BY DEF TypeOK, NoAnswerYet
      <3>5. UsersAreComplete' /\ EnrolmentIsKept'
        BY DEF UsersAreComplete, EnrolmentIsKept
      <3> QED
        BY <3>1, <3>2, <3>3, <3>4, <3>5
    <2> QED
      BY <1>4, <2>2, <2>3 DEF InsertUser, GoOnIf
  <1>5. ASSUME NEW c \in Calls, Consume(c) PROVE IInv'
    <2>1. UnderWay(c) /\ UNCHANGED rowVars
      BY <1>5 DEF Consume
    <2>2. CASE Answer(c, "error")
      BY <2>1, <2>2, ReadIInv
    <2>3. CASE /\ Goto(c, "commit") /\ UNCHANGED <<seen, excess>>
               /\ usedBy[item[c]] = None /\ kind[c] = "register" /\ pc[c] = "consume"
               /\ \A d \in Calls : item[d] = item[c] => ~At(d, "register", "commit")
      <3> USE <2>1, <2>3 DEF Goto
      <3>1. TypeOK'
        BY DEF TypeOK
      <3>2. CodesInv'
        BY DEF TypeOK, CodesInv
      <3>3. RegisterInv'
        BY DEF TypeOK, RegisterInv
      <3>4. NoAnswerYet'
        BY DEF TypeOK, NoAnswerYet
      <3>5. UsersAreComplete' /\ EnrolmentIsKept'
        BY DEF UsersAreComplete, EnrolmentIsKept
      <3> QED
        BY <3>1, <3>2, <3>3, <3>4, <3>5
    <2> QED
      BY <1>5, <2>2, <2>3 DEF Consume, GoOnIf
  <1>6. ASSUME NEW c \in Calls, CommitRegistration(c) PROVE IInv'
    <2> DEFINE u == user[c]
               i == item[c]
    <2>0. /\ u \in Users \ users /\ i \in Invitations /\ usedBy[i] = None
          /\ kind[c] = "register" /\ pc[c] = "commit"
      BY <1>6 DEF CommitRegistration, TypeOK, RegisterInv
    <2>1. /\ users' = users \cup {u}
          /\ unused' = [unused EXCEPT ![u] = {c}]
          /\ usedBy' = [usedBy EXCEPT ![i] = u]
          /\ used' = used
      BY <1>6 DEF CommitRegistration
    <2>2. c \notin used[u]
      BY <2>0 DEF CodesInv
    <2> HIDE DEF u, i
    <2>3. TypeOK'
      <3>1. /\ users' \subseteq Users
            /\ usedBy' \in [Invitations -> users' \cup {None}]
            /\ unused' \in [Users -> SUBSET Ids]
            /\ \A v \in Users : unused'[v] \cap used'[v] = {}
        BY <2>0, <2>1, <2>2 DEF TypeOK
      <3> QED
        BY <3>1, <1>6 DEF TypeOK, CommitRegistration, Answer
    <2>4. CodesInv'
      <3>1. \A d \in Calls, v \in Users : d # c => ((d \in CodesOf(v))' => d \in CodesOf(v))
        BY <2>0, <2>1 DEF TypeOK
      <3>2. \A v \in Users \ {u} : unused'[v] = unused[v]
        BY <2>0, <2>1 DEF TypeOK
      <3>3. \A d \in Calls \ {c} : pc'[d] = pc[d] /\ seen'[d] = seen[d]
        BY <1>6 DEF CommitRegistration, Answer, TypeOK
      <3>4. pc'[c] = "done" /\ user' = user /\ kind' = kind
        BY <1>6 DEF CommitRegistration, Answer, TypeOK
      <3>5. \A d \in Calls : kind[d] = "regenerate" /\ pc[d] # "new" =>
              user[d] \in users /\ user[d] \in Users \ {u}
        BY <2>0 DEF CodesInv, TypeOK
      <3>6. \A d \in Calls, v \in Users : (pc[d] # "done" => d \notin CodesOf(v))'
        BY <3>1, <3>3, <3>4 DEF CodesInv
      <3>7. \A d \in Calls : kind'[d] = "regenerate" /\ pc'[d] = "write" =>
              /\ user'[d] \in users'
              /\ seen'[d] \subseteq unused'[user'[d]] \cup used'[user'[d]]
        BY <2>0, <2>1, <3>2, <3>3, <3>4, <3>5 DEF CodesInv
      <3>8. \A d \in Calls : kind'[d] = "regenerate" /\ pc'[d] # "new" => user'[d] \in users'
        BY <2>0, <2>1, <3>3, <3>4, <3>5
      <3>9. \A d \in Calls : kind'[d] = "codeLogin" /\ pc'[d] # "new" =>
              item'[d] \in Ids /\ \A e \in Calls : pc'[e] # "done" => item'[d] # e
        BY <1>6, <2>0, <3>3, <3>4 DEF CommitRegistration, Answer, CodesInv
      <3> QED
        BY <3>6, <3>7, <3>8, <3>9 DEF CodesInv
    <2>5. RegisterInv'
      BY <1>6, <2>0, <2>1 DEF CommitRegistration, Answer, TypeOK, RegisterInv, u, i
    <2>6. UsersAreComplete'
      <3>1. usedBy'[i] = u /\ unused'[u] = {c}
        BY <2>0, <2>1 DEF TypeOK
      <3>2. \A j \in Invitations : usedBy[j] # None => usedBy'[j] = usedBy[j]
        BY <2>0, <2>1 DEF TypeOK
      <3>3. \A v \in users : v \in Users /\ v # u /\ v # None /\ unused'[v] = unused[v]
        BY <2>0, <2>1 DEF TypeOK
      <3> QED
        BY <2>0, <2>1, <3>1, <3>2, <3>3 DEF UsersAreComplete
    <2>7. NoAnswerYet' /\ EnrolmentIsKept'
      BY <1>6 DEF CommitRegistration, Answer, TypeOK, NoAnswerYet, EnrolmentIsKept
    <2> QED
      BY <2>3, <2>4, <2>5, <2>6, <2>7
  <1>7. ASSUME NEW c \in Calls, MarkUsed(c) PROVE IInv'
    <2> USE <1>7 DEF MarkUsed, Answer
    <2>1. TypeOK'
      <3>1. user[c] \in Users /\ item[c] \in Ids
        BY DEF TypeOK, CodesInv
      <3> QED
        BY <3>1 DEF TypeOK
    <2>2. CodesInv'
      BY DEF TypeOK, CodesInv
    <2>3. RegisterInv' /\ NoAnswerYet' /\ EnrolmentIsKept'
      BY DEF TypeOK, RegisterInv, NoAnswerYet, EnrolmentIsKept
    <2>4. UsersAreComplete'
      BY DEF TypeOK, UsersAreComplete
    <2> QED
      BY <2>1, <2>2, <2>3, <2>4
  <1>8. ASSUME NEW c \in Calls, Replace(c) PROVE IInv'
    <2> USE <1>8 DEF Replace, Answer
    <2>1. TypeOK'
      BY DEF TypeOK, CodesInv
    <2>2. CodesInv'
      BY DEF TypeOK, CodesInv
    <2>3. RegisterInv' /\ NoAnswerYet' /\ EnrolmentIsKept'
      BY DEF TypeOK, RegisterInv, NoAnswerYet, EnrolmentIsKept
    <2>4. UsersAreComplete'
      BY DEF TypeOK, UsersAreComplete
    <2> QED
      BY <2>1, <2>2, <2>3, <2>4
  <1>9. ASSUME NEW c \in Calls, InsertTotp(c) PROVE IInv'
    <2>1. UnderWay(c) /\ kind[c] = "enrol"
      BY <1>9 DEF InsertTotp
    <2>2. CASE UNCHANGED totp /\ Answer(c, "error")
      BY <1>9, <2>1, <2>2, ReadIInv DEF InsertTotp
    <2>3. CASE /\ totp[user[c]] = None
               /\ totp' = [totp EXCEPT ![user[c]] = c] /\ Answer(c, "ok")
      <3> USE <1>9, <2>1, <2>3 DEF InsertTotp, Answer
      <3>1. TypeOK'
        BY DEF TypeOK
      <3>2. CodesInv'
        BY DEF TypeOK, CodesInv
      <3>5. RegisterInv'
        BY DEF TypeOK, RegisterInv
      <3>6. NoAnswerYet' /\ UsersAreComplete'
        BY DEF TypeOK, NoAnswerYet, UsersAreComplete
      <3>3. \A d \in Calls : kind[d] = "enrol" /\ result[d] = "ok" => user[d] # user[c]
        BY DEF EnrolmentIsKept, TypeOK
      <3>4. EnrolmentIsKept'
        <4>1. user[c] \in Users
          BY DEF TypeOK
        <4>2. totp'[user[c]] = c
          BY <4>1 DEF TypeOK
        <4>3. \A d \in Calls \ {c} : result'[d] = result[d]
          BY DEF TypeOK
        <4>4. \A d \in Calls : kind[d] = "enrol" /\ result[d] = "ok" => totp'[user[d]] = d
          BY <3>3 DEF TypeOK, EnrolmentIsKept
        <4> QED
          BY <4>2, <4>3, <4>4 DEF EnrolmentIsKept
      <3> QED
        BY <3>1, <3>2, <3>4, <3>5, <3>6
    <2> QED
      BY <1>9, <2>2, <2>3 DEF InsertTotp
  <1>10. ASSUME NEW c \in Calls, RevokeTotp(c) PROVE IInv'
    <2>1. UNCHANGED totp
      BY <1>10 DEF RevokeTotp, DeleteByIdForUser, TypeOK
    <2>2. \E r \in {"ok", "forbidden"} : Answer(c, r)
      BY <1>10 DEF RevokeTotp, DeleteByIdForUser
    <2> QED
      BY <1>10, <2>1, <2>2 DEF RevokeTotp, Answer, TypeOK, CodesInv, RegisterInv, NoAnswerYet,
                UsersAreComplete, EnrolmentIsKept
  <1>11. ASSUME NEW c \in Calls, InsertDevice(c) \/ DeleteDevice(c) \/ InsertDrive(c)
         PROVE  IInv'
    <2>1. /\ devices' \in [Users -> SUBSET Ids]
          /\ created' \in [Ids -> Nat]
          /\ drives' \in [Users -> Nat]
      BY <1>11, RowsAreCounted DEF InsertDevice, DeleteDevice, InsertDrive, TypeOK
    <2>2. /\ Answer(c, "ok")
          /\ kind[c] \in {"trust", "distrust", "drive"}
          /\ pc[c] = "write"
          /\ UNCHANGED <<users, inviteVars, codeVars, totp, expired>>
      BY <1>11 DEF InsertDevice, DeleteDevice, InsertDrive
    <2> QED
      <3> USE <2>1, <2>2 DEF Answer
      <3>1. TypeOK'
        BY DEF TypeOK
      <3>2. CodesInv'
        BY DEF TypeOK, CodesInv
      <3>3. RegisterInv'
        BY DEF TypeOK, RegisterInv
      <3>4. NoAnswerYet'
        BY DEF TypeOK, NoAnswerYet
      <3>6. UsersAreComplete'
        BY DEF UsersAreComplete
      <3>5. EnrolmentIsKept'
        BY DEF TypeOK, EnrolmentIsKept
      <3> QED
        BY <3>1, <3>2, <3>3, <3>4, <3>5, <3>6
  <1>12. ASSUME NEW i \in Invitations,
                CreateInvitation(i) \/ Deactivate(i) \/ InvitationLapses(i)
         PROVE  IInv'
    <2>1. /\ off' \subseteq invited' /\ lapsed' \subseteq invited' /\ invited' \subseteq Invitations
          /\ UNCHANGED <<users, usedBy, codeVars, totp, deviceVars, drives, callVars, single>>
      BY <1>12 DEF CreateInvitation, Deactivate, InvitationLapses, TypeOK
    <2>2. TypeOK'
      BY <2>1 DEF TypeOK
    <2>3. CodesInv' /\ NoAnswerYet'
      BY <2>1 DEF CodesInv, NoAnswerYet
    <2>4. RegisterInv'
      BY <2>1 DEF RegisterInv
    <2>5. UsersAreComplete' /\ EnrolmentIsKept'
      BY <2>1 DEF UsersAreComplete, EnrolmentIsKept
    <2> QED
      BY <2>2, <2>3, <2>4, <2>5
  <1>13. ASSUME NEW d \in Ids, DeviceExpires(d) PROVE IInv'
    BY <1>13 DEF DeviceExpires, TypeOK, CodesInv, RegisterInv, NoAnswerYet,
                UsersAreComplete, EnrolmentIsKept
  <1>14. ASSUME NEW c \in Calls, GoOn(c) PROVE IInv'
    BY <1>14, <1>3, <1>4, <1>5, <1>6, <1>7, <1>8, <1>9, <1>10, <1>11 DEF GoOn
  <1> QED
    BY <1>1, <1>2, <1>3, <1>12, <1>13, <1>14 DEF Next

THEOREM Invariance == Spec => []IInv
  BY InitIInv, NextIInv, PTL DEF Spec

-----------------------------------------------------------------------------
(* Every variable keeps its type: a code is used or unused, an invitation   *)
(* is used by a user that there is.                                         *)
THEOREM TypeCorrect == Spec => []TypeOK
  BY Invariance, PTL DEF IInv

(* However registrations overlap and fail (LoginService.register): a user   *)
(* has been let in by an invitation that names no one else, and has been    *)
(* given backup codes.                                                      *)
THEOREM InvitedUsers == Spec => []UsersAreComplete
  BY Invariance, PTL DEF IInv

(* However enrolments and removals overlap and fail (TotpService): the      *)
(* secret whose enrolment has been acknowledged is the one that is kept.    *)
THEOREM EnrolmentsAreKept == Spec => []EnrolmentIsKept
  BY Invariance, PTL DEF IInv

-----------------------------------------------------------------------------
(* What a step is to the calls *)

(* A call starts, one that is under way goes on or ends, or there is none *)
StartOf(c, k, u, i) ==
  /\ Start(c, k, u, i)
  /\ k = "codeLogin" => i \in CodesOf(u)
  /\ k = "regenerate" => u \in users

StepOf(c) ==
  /\ UnderWay(c)
  /\ UNCHANGED <<kind, user, item>>
  /\ pc' = [pc EXCEPT ![c] = pc'[c]] /\ pc'[c] # "new"
  /\ \A d \in Calls \ {c} : result'[d] = result[d] /\ seen'[d] = seen[d] /\ excess'[d] = excess[d]
  /\ pc'[c] # "done" => UNCHANGED rowVars /\ result' = result

LEMMA StepsOfCalls ==
  ASSUME IInv, [Next]_vars
  PROVE  /\ single' = single
         /\ \/ \E c \in Calls, k \in Kinds, u \in Users, i \in Invitations \cup Ids \cup {None} :
                 StartOf(c, k, u, i)
            \/ \E c \in Calls : StepOf(c) /\ (GoOn(c) \/ Fail(c))
            \/ UNCHANGED <<users, codeVars, totp, devices, drives, callVars>>
  <1>0. TypeOK
    BY DEF IInv
  <1> USE <1>0 DEF TypeOK
  <1>1. CASE UNCHANGED vars
    BY <1>1 DEF vars
  <1>2. ASSUME NEW c \in Calls, Begin(c)
        PROVE  \E k \in Kinds, u \in Users, i \in Invitations \cup Ids \cup {None} :
                 StartOf(c, k, u, i)
    <2> HIDE DEF TypeOK
    <2>1. \A u \in Users : totp[u] \in Ids \cup {None}
      BY DEF TypeOK
    <2>2. invited \subseteq Invitations
      BY DEF TypeOK
    <2> QED
      BY <1>2, <2>1, <2>2 DEF Begin, Register, LoginWithCode, Distrust, Regenerate, Enrol,
             RemoveStrategy, Trust, EnsurePersonalDrive, StartOf
  <1>3. ASSUME NEW c \in Calls,
               \/ ValidateInvitation(c) \/ InsertUser(c) \/ Consume(c) \/ MatchCode(c)
               \/ FindTotp(c) \/ CountRemaining(c) \/ FindDevice(c)
        PROVE  StepOf(c)
    BY <1>3 DEF ValidateInvitation, InsertUser, Consume, MatchCode, FindTotp, CountRemaining,
                FindDevice, GoOnIf, Goto, Answer, StepOf
  <1>4. ASSUME NEW c \in Calls, FindUnused(c) \/ CountActive(c) \/ FindOldest(c)
        PROVE  StepOf(c)
    BY <1>4 DEF FindUnused, CountActive, FindOldest, Goto, StepOf
  <1>5. ASSUME NEW c \in Calls, CommitRegistration(c) \/ MarkUsed(c) \/ Replace(c)
        PROVE  StepOf(c)
    BY <1>5 DEF CommitRegistration, MarkUsed, Replace, Answer, StepOf
  <1>6. ASSUME NEW c \in Calls, InsertTotp(c) \/ RevokeTotp(c) \/ Fail(c)
        PROVE  StepOf(c)
    BY <1>6 DEF InsertTotp, RevokeTotp, DeleteByIdForUser, Fail, Answer, StepOf
  <1>7. ASSUME NEW c \in Calls, InsertDevice(c) \/ DeleteDevice(c) \/ FindDrive(c) \/ InsertDrive(c)
        PROVE  StepOf(c)
    BY <1>7 DEF InsertDevice, DeleteDevice, FindDrive, InsertDrive, Goto, Answer, StepOf
  <1>8. ASSUME NEW i \in Invitations, CreateInvitation(i) \/ Deactivate(i) \/ InvitationLapses(i)
        PROVE  UNCHANGED <<users, codeVars, totp, devices, drives, callVars>>
    BY <1>8 DEF CreateInvitation, Deactivate, InvitationLapses
  <1>9. ASSUME NEW d \in Ids, DeviceExpires(d)
        PROVE  UNCHANGED <<users, codeVars, totp, devices, drives, callVars>>
    BY <1>9 DEF DeviceExpires
  <1> HIDE DEF TypeOK
  <1>10. single' = single
    BY DEF Next, vars
  <1> QED
    BY <1>1, <1>2, <1>3, <1>4, <1>5, <1>6, <1>7, <1>8, <1>9, <1>10 DEF Next, GoOn

(* The steps a call of a kind consists of *)
LEMMA StepsOfAKind ==
  ASSUME NEW c \in Calls, GoOn(c)
  PROVE  /\ kind[c] = "codeLogin" => MatchCode(c) \/ MarkUsed(c)
         /\ kind[c] = "regenerate" => FindUnused(c) \/ Replace(c)
         /\ kind[c] = "trust" => CountActive(c) \/ FindOldest(c) \/ InsertDevice(c)
         /\ kind[c] = "unenrol" => CountRemaining(c) \/ RevokeTotp(c)
         /\ kind[c] = "drive" => FindDrive(c) \/ InsertDrive(c)
  <1>1. ValidateInvitation(c) \/ InsertUser(c) \/ Consume(c) \/ CommitRegistration(c)
        => kind[c] = "register"
    BY DEF ValidateInvitation, InsertUser, Consume, CommitRegistration
  <1>2. MatchCode(c) \/ MarkUsed(c) => kind[c] = "codeLogin"
    BY DEF MatchCode, MarkUsed
  <1>3. FindUnused(c) \/ Replace(c) => kind[c] = "regenerate"
    BY DEF FindUnused, Replace
  <1>4. FindTotp(c) \/ InsertTotp(c) => kind[c] = "enrol"
    BY DEF FindTotp, InsertTotp
  <1>5. CountRemaining(c) \/ RevokeTotp(c) => kind[c] = "unenrol"
    BY DEF CountRemaining, RevokeTotp
  <1>6. CountActive(c) \/ FindOldest(c) \/ InsertDevice(c) => kind[c] = "trust"
    BY DEF CountActive, FindOldest, InsertDevice
  <1>7. FindDevice(c) \/ DeleteDevice(c) => kind[c] = "distrust"
    BY DEF FindDevice, DeleteDevice
  <1>8. FindDrive(c) \/ InsertDrive(c) => kind[c] = "drive"
    BY DEF FindDrive, InsertDrive
  <1> QED
    BY <1>1, <1>2, <1>3, <1>4, <1>5, <1>6, <1>7, <1>8 DEF GoOn

(* Which step it is that changes the codes, the devices or the drives *)
LEMMA StepsOnRows ==
  ASSUME [Next]_vars
  PROVE  /\ \/ UNCHANGED <<users, codeVars>>
            \/ \E c \in Calls : CommitRegistration(c) \/ MarkUsed(c) \/ Replace(c)
         /\ UNCHANGED devices \/ \E c \in Calls : InsertDevice(c) \/ DeleteDevice(c)
         /\ UNCHANGED drives \/ \E c \in Calls : InsertDrive(c)
  <1> DEFINE SameRows == UNCHANGED <<users, codeVars, devices, drives>>
  <1>1. ASSUME NEW c \in Calls, Begin(c) PROVE SameRows
    BY <1>1 DEF Begin, Register, LoginWithCode, Distrust, Regenerate, Enrol, RemoveStrategy,
                Trust, EnsurePersonalDrive, Start
  <1>2. ASSUME NEW c \in Calls,
               \/ ValidateInvitation(c) \/ InsertUser(c) \/ Consume(c) \/ MatchCode(c)
               \/ FindUnused(c) \/ FindTotp(c) \/ InsertTotp(c) \/ CountRemaining(c)
               \/ RevokeTotp(c) \/ CountActive(c) \/ FindOldest(c) \/ FindDevice(c)
               \/ FindDrive(c) \/ Fail(c)
        PROVE  SameRows
    BY <1>2 DEF ValidateInvitation, InsertUser, Consume, MatchCode, FindUnused, FindTotp,
                InsertTotp, CountRemaining, RevokeTotp, CountActive, FindOldest, FindDevice,
                FindDrive, Fail
  <1>3. ASSUME NEW c \in Calls, InsertDevice(c) \/ DeleteDevice(c)
        PROVE  UNCHANGED <<users, codeVars, drives>>
    BY <1>3 DEF InsertDevice, DeleteDevice
  <1>4. ASSUME NEW c \in Calls, InsertDrive(c) PROVE UNCHANGED <<users, codeVars, devices>>
    BY <1>4 DEF InsertDrive
  <1>5. ASSUME NEW c \in Calls, CommitRegistration(c) \/ MarkUsed(c) \/ Replace(c)
        PROVE  UNCHANGED <<devices, drives>>
    BY <1>5 DEF CommitRegistration, MarkUsed, Replace
  <1>6. ASSUME NEW i \in Invitations, CreateInvitation(i) \/ Deactivate(i) \/ InvitationLapses(i)
        PROVE  SameRows
    BY <1>6 DEF CreateInvitation, Deactivate, InvitationLapses
  <1>7. ASSUME NEW d \in Ids, DeviceExpires(d) PROVE SameRows
    BY <1>7 DEF DeviceExpires
  <1>8. CASE UNCHANGED vars
    BY <1>8 DEF vars
  <1> HIDE DEF Ids
  <1> QED
    BY <1>1, <1>2, <1>3, <1>4, <1>5, <1>6, <1>7, <1>8 DEF Next, GoOn

-----------------------------------------------------------------------------
(* While a user has no two calls of a kind under way *)

(* A code is one user's, and stays so *)
OwnersInv ==
  /\ \A u \in Users \ users : CodesOf(u) = {}
  /\ \A u, v \in Users : CodesOf(u) \cap CodesOf(v) # {} => u = v
  /\ \A c \in Calls : kind[c] = "codeLogin" =>
       user[c] \in Users /\ item[c] \in CodesOf(user[c])

OneOfAKind ==
  \A c, d \in Calls :
    UnderWay(c) /\ UnderWay(d) /\ kind[c] = kind[d] /\ user[c] = user[d] => c = d

(* What is enough of that: no two logins have matched the same code, and no *)
(* two calls of a user are between the read of its codes, devices or drives *)
(* and their write.                                                         *)
OneMatch ==
  \A c, d \in Calls :
    At(c, "codeLogin", "write") /\ At(d, "codeLogin", "write") /\ item[c] = item[d] => c = d

OneRegeneration ==
  \A c, d \in Calls :
    At(c, "regenerate", "write") /\ At(d, "regenerate", "write") /\ user[c] = user[d] => c = d

OneTrust ==
  \A c, d \in Calls :
    /\ kind[c] = "trust" /\ pc[c] \in {"oldest", "write"}
    /\ kind[d] = "trust" /\ pc[d] \in {"oldest", "write"}
    /\ user[c] = user[d]
    => c = d

OneDriveInsert ==
  \A c, d \in Calls :
    At(c, "drive", "write") /\ At(d, "drive", "write") /\ user[c] = user[d] => c = d

LetIn(c) == kind[c] = "codeLogin" /\ result[c] = "ok"

LetInOnce == \A c, d \in Calls : LetIn(c) /\ LetIn(d) /\ item[c] = item[d] => c = d

(* The code that is about to be marked has let nobody in *)
CodeLoginInv ==
  /\ \A c \in Calls : LetIn(c) => item[c] \in used[user[c]]
  /\ \A c, d \in Calls : At(c, "codeLogin", "write") /\ LetIn(d) => item[c] # item[d]
  /\ LetInOnce

(* A regeneration has read every code that is still good *)
GenerationInv ==
  /\ \A u \in Users : \A k, l \in unused[u] : k = l
  /\ \A c \in Calls : At(c, "regenerate", "write") => unused[user[c]] \subseteq seen[c]

DriveInv ==
  /\ \A u \in Users : drives[u] <= 1
  /\ \A c \in Calls : At(c, "drive", "write") => drives[user[c]] = 0

(* A registration of a device has made room for it, or is about to *)
TrustInv ==
  /\ \A u \in Users : Cardinality(devices[u]) <= MaxTrust
  /\ \A c \in Calls : At(c, "trust", "oldest") => excess[c] > 0
  /\ \A c \in Calls :
       At(c, "trust", "write") => Cardinality(devices[user[c]] \ seen[c]) < MaxTrust

SingleInv ==
  single => /\ OneOfAKind /\ CodeLoginInv /\ GenerationInv /\ DriveInv
            /\ expired = {} => TrustInv

LEMMA InitSingleInv ==
  Init => /\ OwnersInv /\ SingleInv
          /\ CodeLoginInv /\ GenerationInv /\ DriveInv /\ TrustInv
  <1> SUFFICES ASSUME Init
               PROVE  /\ OwnersInv /\ SingleInv
                      /\ CodeLoginInv /\ GenerationInv /\ DriveInv /\ TrustInv
    OBVIOUS
  <1>1. PICK u \in Users, i \in Invitations, k \in Old : OldUser(u, i, k)
    BY DEF Init
  <1>2. OwnersInv
    BY <1>1 DEF Init, OldUser, OwnersInv
  <1>3. OneOfAKind /\ CodeLoginInv /\ GenerationInv /\ DriveInv
    BY <1>1 DEF Init, OldUser, OneOfAKind, CodeLoginInv, LetIn, LetInOnce, GenerationInv,
                DriveInv
  <1>4. TrustInv
    <2>1. Cardinality({}) = 0
      BY FS_EmptySet
    <2>2. \A v \in Users : Cardinality(devices[v]) <= MaxTrust
      BY <1>1, <2>1 DEF OldUser
    <2> QED
      BY <2>2 DEF Init, TrustInv
  <1> QED
    BY <1>2, <1>3, <1>4 DEF SingleInv

(* Codes are made with a new id or for a new user *)
LEMMA OwnersKeep ==
  ASSUME IInv, OwnersInv, [Next]_vars
  PROVE  OwnersInv'
  <1> USE DEF OwnersInv
  <1>0. TypeOK /\ CodesInv /\ RegisterInv
    BY DEF IInv
  <1>1. /\ \A u \in Users' \ users' : CodesOf(u)' = {}
        /\ \A u, v \in Users : CodesOf(u)' \cap CodesOf(v)' # {} => u = v
        /\ \A u \in Users : CodesOf(u) \subseteq CodesOf(u)'
    <2>1. CASE UNCHANGED <<users, codeVars>>
      BY <2>1
    <2>2. ASSUME NEW c \in Calls, CommitRegistration(c) \/ Replace(c)
          PROVE  \E u \in Users :
                   /\ users' = users \cup {u} /\ u \in users'
                   /\ CodesOf(u) \subseteq CodesOf(u)' /\ CodesOf(u)' \subseteq CodesOf(u) \cup {c}
                   /\ \A v \in Users \ {u} : CodesOf(v)' = CodesOf(v)
      <3>1. CASE CommitRegistration(c)
        <4>1. user[c] \in Users /\ user[c] \notin users
          BY <1>0, <3>1 DEF CommitRegistration, TypeOK, RegisterInv
        <4>2. CodesOf(user[c]) = {}
          BY <4>1
        <4> QED
          BY <1>0, <3>1, <4>1, <4>2 DEF CommitRegistration, TypeOK
      <3>2. CASE Replace(c)
        <4>1. user[c] \in Users /\ user[c] \in users /\ seen[c] \subseteq CodesOf(user[c])
          BY <1>0, <3>2 DEF Replace, TypeOK, CodesInv
        <4> QED
          BY <1>0, <3>2, <4>1 DEF Replace, TypeOK
      <3> QED
        BY <2>2, <3>1, <3>2
    <2>3. ASSUME NEW c \in Calls, CommitRegistration(c) \/ Replace(c)
          PROVE  \A v \in Users : c \notin CodesOf(v)
      BY <1>0, <2>3 DEF CommitRegistration, Replace, CodesInv
    <2>4. ASSUME NEW c \in Calls, MarkUsed(c)
          PROVE  users' = users /\ \A u \in Users : CodesOf(u)' = CodesOf(u)
      <3>1. user[c] \in Users /\ item[c] \in CodesOf(user[c])
        BY <1>0, <2>4 DEF MarkUsed, TypeOK
      <3> QED
        BY <1>0, <2>4, <3>1 DEF MarkUsed, TypeOK
    <2> HIDE DEF CodesOf
    <2>5. CASE \E c \in Calls : CommitRegistration(c) \/ Replace(c)
      <3>1. PICK c \in Calls : CommitRegistration(c) \/ Replace(c)
        BY <2>5
      <3>2. PICK u \in Users :
              /\ users' = users \cup {u} /\ u \in users'
              /\ CodesOf(u) \subseteq CodesOf(u)' /\ CodesOf(u)' \subseteq CodesOf(u) \cup {c}
              /\ \A v \in Users \ {u} : CodesOf(v)' = CodesOf(v)
        BY <2>2, <3>1
      <3>3. \A v \in Users : c \notin CodesOf(v)
        BY <2>3, <3>1
      <3> QED
        BY <3>2, <3>3
    <2> QED
      BY <2>1, <2>4, <2>5, StepsOnRows
  <1>2. \A c \in Calls : kind'[c] = "codeLogin" =>
          user'[c] \in Users /\ (item[c] \in CodesOf(user[c]))'
    <2>0. \A u \in Users : CodesOf(u) \subseteq CodesOf(u)'
      BY <1>1
    <2>1. ASSUME NEW c \in Calls, kind'[c] = kind[c], user'[c] = user[c], item'[c] = item[c],
                 kind'[c] = "codeLogin"
          PROVE  user'[c] \in Users /\ (item[c] \in CodesOf(user[c]))'
      <3>1. user[c] \in Users /\ item[c] \in CodesOf(user[c])
        BY <2>1
      <3> QED
        BY <2>0, <2>1, <3>1
    <2>2. ASSUME NEW d \in Calls, NEW k \in Kinds, NEW u \in Users,
                 NEW i \in Invitations \cup Ids \cup {None}, StartOf(d, k, u, i),
                 NEW c \in Calls, kind'[c] = "codeLogin"
          PROVE  user'[c] \in Users /\ (item[c] \in CodesOf(user[c]))'
      <3>1. CASE c = d
        <4>1. user'[c] = u /\ item'[c] = i /\ k = "codeLogin"
          BY <1>0, <2>2, <3>1 DEF TypeOK, StartOf, Start
        <4>2. i \in CodesOf(u)
          BY <2>2, <4>1 DEF StartOf
        <4> QED
          BY <2>0, <4>1, <4>2
      <3>2. CASE c # d
        BY <1>0, <2>1, <2>2, <3>2 DEF TypeOK, StartOf, Start
      <3> QED
        BY <3>1, <3>2
    <2> QED
      BY <2>1, <2>2, StepsOfCalls DEF StepOf
  <1> QED
    BY <1>1, <1>2

LEMMA OneOfAKindKeeps ==
  ASSUME IInv, single, OneOfAKind, [Next]_vars
  PROVE  OneOfAKind'
  <1>0. TypeOK
    BY DEF IInv
  <1>1. ASSUME NEW c \in Calls, NEW k \in Kinds, NEW u \in Users,
               NEW i \in Invitations \cup Ids \cup {None}, StartOf(c, k, u, i)
        PROVE  OneOfAKind'
    BY <1>0, <1>1 DEF TypeOK, StartOf, Start, OneOfAKind
  <1>2. ASSUME NEW c \in Calls, StepOf(c) PROVE OneOfAKind'
    BY <1>0, <1>2 DEF TypeOK, StepOf, OneOfAKind
  <1>3. CASE UNCHANGED callVars
    BY <1>3 DEF OneOfAKind
  <1> QED
    BY <1>1, <1>2, <1>3, StepsOfCalls

LEMMA OneOfAKindIsEnough ==
  ASSUME OwnersInv, OneOfAKind
  PROVE  OneMatch /\ OneRegeneration /\ OneTrust /\ OneDriveInsert
  <1>1. OneMatch
    <2> SUFFICES ASSUME NEW c \in Calls, NEW d \in Calls, At(c, "codeLogin", "write"),
                        At(d, "codeLogin", "write"), item[c] = item[d]
                 PROVE  c = d
      BY DEF OneMatch
    <2>1. user[c] = user[d]
      BY DEF OwnersInv
    <2> QED
      BY <2>1 DEF OneOfAKind
  <1>2. OneRegeneration /\ OneDriveInsert
    BY DEF OneOfAKind, OneRegeneration, OneDriveInsert
  <1>3. OneTrust
    BY DEF OneOfAKind, OneTrust
  <1> QED
    BY <1>1, <1>2, <1>3

(* Who has marked a code is the only one who has matched it *)
LEMMA CodeLoginKeeps ==
  ASSUME IInv, OwnersInv, OneMatch, CodeLoginInv, [Next]_vars
  PROVE  CodeLoginInv'
  <1>0. TypeOK /\ NoAnswerYet
    BY DEF IInv
  <1> USE DEF LetIn
  <1>1. \A c \in Calls : LetIn(c) => item[c] \in used[user[c]] /\ user[c] \in Users
    BY DEF CodeLoginInv, OwnersInv
  <1>2. \A c, d \in Calls : LetIn(c) /\ LetIn(d) /\ item[c] = item[d] => c = d
    BY DEF CodeLoginInv, LetInOnce
  <1>3. \A c, d \in Calls : At(c, "codeLogin", "write") /\ LetIn(d) => item[c] # item[d]
    BY DEF CodeLoginInv
  <1>4. \A u \in Users : used[u] \subseteq used'[u]
    <2>1. ASSUME NEW c \in Calls, CommitRegistration(c) \/ MarkUsed(c) \/ Replace(c)
          PROVE  \A u \in Users : used[u] \subseteq used'[u]
      BY <1>0, <2>1 DEF TypeOK, CommitRegistration, MarkUsed, Replace
    <2> QED
      BY <2>1, StepsOnRows
  <1>5. ASSUME NEW c \in Calls, NEW k \in Kinds, NEW u \in Users,
               NEW i \in Invitations \cup Ids \cup {None}, StartOf(c, k, u, i)
        PROVE  /\ \A d \in Calls : LetIn(d)' <=> LetIn(d)
               /\ \A d \in Calls : At(d, "codeLogin", "write")' => At(d, "codeLogin", "write")
               /\ \A d \in Calls : d # c => item'[d] = item[d] /\ user'[d] = user[d]
               /\ ~LetIn(c) /\ ~At(c, "codeLogin", "write")'
    BY <1>0, <1>5 DEF TypeOK, NoAnswerYet, StartOf, Start
  <1>6. ASSUME NEW c \in Calls, StepOf(c), kind[c] # "codeLogin" \/ Fail(c)
        PROVE  /\ \A d \in Calls : LetIn(d)' <=> LetIn(d)
               /\ \A d \in Calls : At(d, "codeLogin", "write")' => At(d, "codeLogin", "write")
               /\ UNCHANGED <<item, user>>
    BY <1>0, <1>6 DEF TypeOK, NoAnswerYet, StepOf, Fail, Answer
  <1>7. ASSUME NEW c \in Calls, MatchCode(c)
        PROVE  /\ \A d \in Calls : LetIn(d)' <=> LetIn(d)
               /\ \A d \in Calls : At(d, "codeLogin", "write")' =>
                    At(d, "codeLogin", "write") \/ (d = c /\ item[c] \in unused[user[c]])
               /\ UNCHANGED <<item, user, used>>
    BY <1>0, <1>7 DEF TypeOK, NoAnswerYet, MatchCode, GoOnIf, Goto, Answer
  <1>8. ASSUME NEW c \in Calls, MarkUsed(c)
        PROVE  /\ \A d \in Calls : LetIn(d)' <=> LetIn(d) \/ d = c
               /\ \A d \in Calls : At(d, "codeLogin", "write")' =>
                    At(d, "codeLogin", "write") /\ d # c
               /\ At(c, "codeLogin", "write") /\ item[c] \in used'[user[c]]
               /\ UNCHANGED <<item, user>>
    BY <1>0, <1>8 DEF TypeOK, MarkUsed, Answer
  <1>9. \A c, d \in Calls :
          /\ At(c, "codeLogin", "write") /\ At(d, "codeLogin", "write") /\ item[c] = item[d]
          => c = d
    BY DEF OneMatch
  <1>10. \A c, d \in Calls :
           kind[c] = "codeLogin" /\ item[c] \in unused[user[c]] /\ LetIn(d) => item[c] # item[d]
    <2> SUFFICES ASSUME NEW c \in Calls, NEW d \in Calls, kind[c] = "codeLogin",
                        item[c] \in unused[user[c]], LetIn(d), item[c] = item[d]
                 PROVE  FALSE
      OBVIOUS
    <2>1. user[c] = user[d] /\ user[c] \in Users
      BY <1>1 DEF OwnersInv
    <2> QED
      BY <1>0, <1>1, <2>1 DEF TypeOK
  <1>11. ASSUME UNCHANGED <<users, codeVars, totp, devices, drives, callVars>>
         PROVE  CodeLoginInv'
    BY <1>0, <1>11 DEF CodeLoginInv, LetInOnce
  <1> QED
    <2>1. ASSUME NEW c \in Calls, NEW k \in Kinds, NEW u \in Users,
                 NEW i \in Invitations \cup Ids \cup {None}, StartOf(c, k, u, i)
          PROVE  CodeLoginInv'
      BY <1>1, <1>2, <1>3, <1>4, <1>5, <2>1 DEF CodeLoginInv, LetInOnce
    <2>2. ASSUME NEW c \in Calls, StepOf(c), kind[c] # "codeLogin" \/ Fail(c)
          PROVE  CodeLoginInv'
      BY <1>1, <1>2, <1>3, <1>4, <1>6, <2>2 DEF CodeLoginInv, LetInOnce
    <2>3. ASSUME NEW c \in Calls, MatchCode(c) PROVE CodeLoginInv'
      BY <1>1, <1>2, <1>3, <1>7, <1>10, <2>3 DEF CodeLoginInv, LetInOnce, MatchCode
    <2>4. ASSUME NEW c \in Calls, MarkUsed(c) PROVE CodeLoginInv'
      BY <1>1, <1>2, <1>3, <1>4, <1>8, <1>9, <2>4 DEF CodeLoginInv, LetInOnce
    <2> QED
      BY <1>11, <2>1, <2>2, <2>3, <2>4, StepsOfCalls, StepsOfAKind
         DEF CodeLoginInv, LetInOnce

(* A regeneration leaves its own code only: no other one has added one *)
LEMMA GenerationKeeps ==
  ASSUME IInv, OneRegeneration, GenerationInv, [Next]_vars
  PROVE  GenerationInv'
  <1>0. TypeOK /\ CodesInv /\ RegisterInv
    BY DEF IInv
  <1> USE DEF GenerationInv
  <1>1. ASSUME NEW c \in Calls, Replace(c) PROVE GenerationInv'
    <2>1. user[c] \in Users /\ unused[user[c]] \subseteq seen[c]
      BY <1>0, <1>1 DEF TypeOK, Replace
    <2>2. unused' = [unused EXCEPT ![user[c]] = {c}]
      <3>1. unused' = [unused EXCEPT ![user[c]] = (unused[user[c]] \ seen[c]) \cup {c}]
        BY <1>1 DEF Replace
      <3>2. (unused[user[c]] \ seen[c]) \cup {c} = {c}
        BY <2>1
      <3> QED
        BY <3>1, <3>2
    <2>3. \A d \in Calls : At(d, "regenerate", "write")' =>
            d # c /\ At(d, "regenerate", "write") /\ UNCHANGED <<user, seen[d]>>
      BY <1>0, <1>1 DEF TypeOK, Replace, Answer
    <2>4. \A d \in Calls : At(d, "regenerate", "write") /\ d # c => user[d] # user[c]
      BY <1>1 DEF OneRegeneration, Replace
    <2>5. \A d \in Calls : At(d, "regenerate", "write") => user[d] \in Users
      BY <1>0 DEF TypeOK
    <2>6. \A v \in Users : v # user[c] => unused'[v] = unused[v]
      BY <1>0, <2>2 DEF TypeOK
    <2>7. unused'[user[c]] = {c}
      BY <1>0, <2>1, <2>2 DEF TypeOK
    <2> QED
      BY <2>3, <2>4, <2>5, <2>6, <2>7
  <1>2. ASSUME NEW c \in Calls, CommitRegistration(c) PROVE GenerationInv'
    <2>1. user[c] \in Users /\ user[c] \notin users
      BY <1>0, <1>2 DEF TypeOK, RegisterInv, CommitRegistration
    <2>2. unused' = [unused EXCEPT ![user[c]] = {c}]
      BY <1>2 DEF CommitRegistration
    <2>3. \A d \in Calls : At(d, "regenerate", "write")' =>
            /\ At(d, "regenerate", "write") /\ UNCHANGED <<user, seen[d]>>
            /\ user[d] \in users
      BY <1>0, <1>2 DEF TypeOK, CodesInv, CommitRegistration, Answer
    <2>4. \A v \in Users : v # user[c] => unused'[v] = unused[v]
      BY <1>0, <2>2 DEF TypeOK
    <2>5. unused'[user[c]] = {c}
      BY <1>0, <2>1, <2>2 DEF TypeOK
    <2> QED
      BY <1>0, <2>1, <2>3, <2>4, <2>5 DEF TypeOK
  <1>3. ASSUME \A u \in Users : unused'[u] \subseteq unused[u],
               NEW c \in Calls, StepOf(c), kind[c] # "regenerate" \/ Fail(c)
        PROVE  GenerationInv'
    <2>1. \A d \in Calls : At(d, "regenerate", "write")' =>
            At(d, "regenerate", "write") /\ UNCHANGED <<user, seen[d]>> /\ user[d] \in Users
      BY <1>0, <1>3 DEF TypeOK, StepOf, Fail, Answer
    <2> QED
      BY <1>3, <2>1
  <1>4. ASSUME NEW c \in Calls, FindUnused(c) PROVE GenerationInv'
    BY <1>0, <1>4 DEF TypeOK, FindUnused, Goto
  <1>5. ASSUME NEW c \in Calls, NEW k \in Kinds, NEW u \in Users,
               NEW i \in Invitations \cup Ids \cup {None}, StartOf(c, k, u, i)
        PROVE  GenerationInv'
    BY <1>0, <1>5 DEF TypeOK, StartOf, Start
  <1>6. ASSUME UNCHANGED <<users, codeVars, totp, devices, drives, callVars>>
        PROVE  GenerationInv'
    BY <1>6
  <1>7. ASSUME NEW c \in Calls, MarkUsed(c) PROVE \A u \in Users : unused'[u] \subseteq unused[u]
    BY <1>0, <1>7 DEF TypeOK, MarkUsed
  <1>8. ASSUME NEW c \in Calls, StepOf(c), GoOn(c) \/ Fail(c) PROVE GenerationInv'
    <2>1. CASE \E d \in Calls : CommitRegistration(d) \/ Replace(d)
      BY <1>1, <1>2, <2>1
    <2>2. CASE \A u \in Users : unused'[u] \subseteq unused[u]
      BY <1>3, <1>4, <1>8, <2>1, <2>2, StepsOfAKind
    <2> QED
      BY <1>7, <2>1, <2>2, StepsOnRows
  <1> HIDE DEF GenerationInv
  <1> QED
    BY <1>5, <1>6, <1>8, StepsOfCalls

(* A call that is about to make a drive is the only one *)
LEMMA DriveKeeps ==
  ASSUME IInv, OneDriveInsert, DriveInv, [Next]_vars
  PROVE  DriveInv'
  <1>0. TypeOK
    BY DEF IInv
  <1> USE DEF DriveInv
  <1>1. ASSUME NEW c \in Calls, InsertDrive(c) PROVE DriveInv'
    <2>1. user[c] \in Users /\ drives[user[c]] = 0
      BY <1>0, <1>1 DEF TypeOK, InsertDrive
    <2>2. drives' = [drives EXCEPT ![user[c]] = 1]
      BY <2>1, <1>1 DEF InsertDrive
    <2>3. \A d \in Calls : At(d, "drive", "write")' =>
            user'[d] = user[d] /\ user[d] # user[c] /\ At(d, "drive", "write")
      BY <1>0, <1>1 DEF TypeOK, InsertDrive, Answer, OneDriveInsert
    <2> QED
      BY <1>0, <2>1, <2>2, <2>3 DEF TypeOK
  <1>2. ASSUME UNCHANGED drives, NEW c \in Calls, StepOf(c), kind[c] # "drive" \/ Fail(c)
        PROVE  DriveInv'
    BY <1>0, <1>2 DEF TypeOK, StepOf, Fail, Answer
  <1>3. ASSUME NEW c \in Calls, FindDrive(c) PROVE DriveInv'
    BY <1>0, <1>3 DEF TypeOK, FindDrive, Goto, Answer
  <1>4. ASSUME NEW c \in Calls, NEW k \in Kinds, NEW u \in Users,
               NEW i \in Invitations \cup Ids \cup {None}, StartOf(c, k, u, i)
        PROVE  DriveInv'
    BY <1>0, <1>4 DEF TypeOK, StartOf, Start
  <1>5. ASSUME UNCHANGED <<users, codeVars, totp, devices, drives, callVars>>
        PROVE  DriveInv'
    BY <1>5
  <1> HIDE DEF DriveInv
  <1> QED
    BY <1>1, <1>2, <1>3, <1>4, <1>5, StepsOfCalls, StepsOfAKind, StepsOnRows

(* Of some devices there is one that no other is older than *)
LEMMA OldestExists ==
  ASSUME NEW f \in [Ids -> Nat], NEW S \in SUBSET Ids, S # {}
  PROVE  \E d \in S : \A e \in S : ~(f[e] < f[d])
  <1> DEFINE T == {f[d] : d \in S}
             R == {p \in Nat \X Nat : p[1] < p[2]}
  <1>1. T \subseteq Nat /\ T # {}
    OBVIOUS
  <1>2. \A m, n \in Nat : m < n => <<m, n>> \in R
    OBVIOUS
  <1>3. IsWellFoundedOn(R, Nat)
    BY NatLessThanWellFounded DEF OpToRel
  <1> HIDE DEF R
  <1>4. \E m \in T : \A n \in T : <<n, m>> \notin R
    <2> HIDE DEF T
    <2> QED
      BY <1>1, <1>3, WFMin
  <1> QED
    BY <1>1, <1>2, <1>4

(* A registration that has counted MaxTrust devices removes one, and what   *)
(* happens meanwhile only makes them fewer.                                 *)
LEMMA TrustKeeps ==
  ASSUME IInv, OneTrust, TrustInv, expired = {}, [Next]_vars
  PROVE  TrustInv'
  <1>0. TypeOK /\ MaxTrust \in Nat \ {0}
    BY DEF IInv
  <1> USE DEF TrustInv
  <1>1. \A S \in SUBSET Ids : IsFiniteSet(S)
    BY FiniteAssumption, FS_Union, FS_Subset
  <1>2. \A S, T \in SUBSET Ids : S \subseteq T => Cardinality(S) <= Cardinality(T)
    BY <1>1, FS_Subset
  <1>3. \A u \in Users : devices[u] \in SUBSET Ids
    BY <1>0 DEF TypeOK
  <1>4. ASSUME NEW c \in Calls, InsertDevice(c) PROVE TrustInv'
    <2>1. user[c] \in Users
      BY <1>0, <1>4 DEF TypeOK, InsertDevice
    <2> DEFINE D == devices[user[c]] \ seen[c]
    <2>2. D \in SUBSET Ids /\ Cardinality(D) \in Nat /\ Cardinality(D) < MaxTrust
      BY <1>3, <1>4, <2>1, RowsAreCounted DEF InsertDevice
    <2>3. Cardinality(D \cup {c}) <= MaxTrust
      <3> HIDE DEF D
      <3>1. IsFiniteSet(D)
        BY <1>1, <2>2
      <3>2. \/ Cardinality(D \cup {c}) = Cardinality(D)
            \/ Cardinality(D \cup {c}) = Cardinality(D) + 1
        BY <3>1, FS_AddElement
      <3> QED
        BY <1>0, <2>2, <3>2
    <2>4. devices'[user[c]] = D \cup {c} /\ \A v \in Users \ {user[c]} : devices'[v] = devices[v]
      BY <1>0, <1>4, <2>1 DEF TypeOK, InsertDevice
    <2>5. \A d \in Calls : kind'[d] = "trust" /\ pc'[d] \in {"oldest", "write"} =>
            /\ d # c /\ UNCHANGED <<kind, pc[d], user, excess[d], seen[d]>>
            /\ user[d] \in Users /\ user[d] # user[c]
      <3> SUFFICES ASSUME NEW d \in Calls, kind'[d] = "trust", pc'[d] \in {"oldest", "write"}
                   PROVE  /\ d # c /\ UNCHANGED <<kind, pc[d], user, excess[d], seen[d]>>
                          /\ user[d] \in Users /\ user[d] # user[c]
        OBVIOUS
      <3>1. /\ pc' = [pc EXCEPT ![c] = "done"]
            /\ seen' = [seen EXCEPT ![c] = {}] /\ excess' = [excess EXCEPT ![c] = 0]
            /\ UNCHANGED <<kind, user>>
            /\ kind[c] = "trust" /\ pc[c] = "write"
        BY <1>4 DEF InsertDevice, Answer
      <3>2. pc'[c] = "done"
        BY ONLY <1>0, <3>1 DEF TypeOK
      <3>3. d # c
        BY ONLY <3>2, pc'[d] \in {"oldest", "write"}
      <3>4. UNCHANGED <<pc[d], excess[d], seen[d]>>
        BY ONLY <1>0, <3>1, <3>3, d \in Calls DEF TypeOK
      <3>5. kind[d] = "trust" /\ pc[d] \in {"oldest", "write"}
        BY ONLY <3>1, <3>4, kind'[d] = "trust", pc'[d] \in {"oldest", "write"}
      <3>6. user[d] \in Users
        BY ONLY <1>0, <3>5, d \in Calls DEF TypeOK
      <3>7. user[d] # user[c]
        BY ONLY OneTrust, <3>1, <3>3, <3>5, d \in Calls, c \in Calls DEF OneTrust
      <3> QED
        BY <3>1, <3>3, <3>4, <3>6, <3>7
    <2> HIDE DEF D
    <2>6. \A u \in Users : Cardinality(devices'[u]) <= MaxTrust
      BY <2>3, <2>4
    <2>7. \A d \in Calls : kind'[d] = "trust" /\ pc'[d] \in {"oldest", "write"} =>
            devices'[user'[d]] = devices[user[d]]
      BY <2>4, <2>5
    <2> QED
      BY <2>5, <2>6, <2>7
  <1>5. ASSUME \A u \in Users : devices'[u] \subseteq devices[u],
               NEW c \in Calls, StepOf(c), kind[c] # "trust" \/ Fail(c)
        PROVE  TrustInv'
    <2>1. \A d \in Calls : kind'[d] = "trust" /\ pc'[d] \in {"oldest", "write"} =>
            UNCHANGED <<kind, pc[d], user, excess[d], seen[d]>> /\ user[d] \in Users
      BY <1>0, <1>5 DEF TypeOK, StepOf, Fail, Answer
    <2>2. \A u \in Users : Cardinality(devices'[u]) <= Cardinality(devices[u])
      BY <1>2, <1>3, <1>5
    <2>3. \A u \in Users, d \in Calls :
            Cardinality(devices'[u] \ seen[d]) <= Cardinality(devices[u] \ seen[d])
      BY <1>2, <1>3, <1>5
    <2>4. \A u \in Users, d \in Calls :
            /\ Cardinality(devices[u]) \in Nat /\ Cardinality(devices[u] \ seen[d]) \in Nat
            /\ Cardinality(devices'[u]) \in Nat /\ Cardinality(devices'[u] \ seen[d]) \in Nat
      BY <1>3, <1>5, RowsAreCounted
    <2>5. ASSUME NEW u \in Users PROVE Cardinality(devices'[u]) <= MaxTrust
      <3> DEFINE m == Cardinality(devices[u])
                 n == Cardinality(devices'[u])
      <3>1. m \in Nat /\ n \in Nat
        BY <1>3, <1>5, RowsAreCounted
      <3>2. m <= MaxTrust /\ n <= m
        BY <2>2
      <3> HIDE DEF m, n
      <3>3. n <= MaxTrust
        BY <1>0, <3>1, <3>2
      <3> QED
        BY <3>3 DEF n
    <2>6. ASSUME NEW d \in Calls, kind'[d] = "trust", pc'[d] = "write"
          PROVE  Cardinality(devices'[user[d]] \ seen[d]) < MaxTrust
      <3> DEFINE m == Cardinality(devices[user[d]] \ seen[d])
                 n == Cardinality(devices'[user[d]] \ seen[d])
      <3>1. kind[d] = "trust" /\ pc[d] = "write" /\ user[d] \in Users
        BY <2>1, <2>6
      <3>2. m < MaxTrust /\ n <= m /\ m \in Nat /\ n \in Nat
        BY <2>3, <2>4, <3>1
      <3> HIDE DEF m, n
      <3>3. n < MaxTrust
        BY <1>0, <3>2
      <3> QED
        BY <3>3 DEF n
    <2>7. \A d \in Calls : At(d, "trust", "oldest")' => excess'[d] > 0
      BY <2>1
    <2>8. \A d \in Calls : At(d, "trust", "write")' => UNCHANGED <<user, seen[d]>>
      BY <2>1
    <2> QED
      BY <2>5, <2>6, <2>7, <2>8
  <1>6. ASSUME NEW c \in Calls, CountActive(c) PROVE TrustInv'
    <2> DEFINE n == Cardinality(devices[user[c]])
    <2>1. user[c] \in Users /\ Active(user[c]) = devices[user[c]] /\ UNCHANGED <<devices, seen>>
      BY <1>0, <1>6 DEF TypeOK, CountActive, Active
    <2>2. n \in Nat /\ n <= MaxTrust
      BY <1>3, <2>1, RowsAreCounted
    <2>3. CASE n >= MaxTrust
      <3>1. n = MaxTrust /\ n - (MaxTrust - 1) = 1
        BY <1>0, <2>2, <2>3
      <3> HIDE DEF n
      <3>2. excess' = [excess EXCEPT ![c] = 1] /\ Goto(c, "oldest")
        BY <1>6, <2>1, <2>3, <3>1 DEF CountActive, n
      <3> QED
        BY <1>0, <2>1, <3>2 DEF TypeOK, Goto
    <2>4. CASE n < MaxTrust
      <3>1. Goto(c, "write")
        BY <1>0, <1>6, <2>1, <2>2, <2>4 DEF CountActive
      <3>2. Cardinality(devices[user[c]] \ seen[c]) < MaxTrust
        <4>1. /\ devices[user[c]] \ seen[c] \in SUBSET Ids
              /\ Cardinality(devices[user[c]] \ seen[c]) <= n
          BY <1>2, <1>3, <2>1
        <4>2. Cardinality(devices[user[c]] \ seen[c]) \in Nat
          BY <4>1, RowsAreCounted
        <4> QED
          BY <1>0, <2>2, <2>4, <4>1, <4>2
      <3>3. \A d \in Calls \ {c} : excess'[d] = excess[d]
        BY <1>0, <1>6 DEF TypeOK, CountActive
      <3>4. \A d \in Calls \ {c} : pc'[d] = pc[d]
        BY <1>0, <3>1 DEF TypeOK, Goto
      <3>5. pc'[c] = "write" /\ UNCHANGED <<kind, user, devices, seen>>
        BY <1>0, <2>1, <3>1 DEF TypeOK, Goto
      <3> HIDE DEF n
      <3> QED
        BY <3>2, <3>3, <3>4, <3>5
    <2> QED
      BY <1>0, <2>2, <2>3, <2>4
  <1>7. ASSUME NEW c \in Calls, FindOldest(c) PROVE TrustInv'
    <2> DEFINE D == devices[user[c]]
               older(d) == {e \in D : created[e] < created[d]}
               S == {d \in D : Cardinality(older(d)) < excess[c]}
    <2>1. user[c] \in Users /\ D \in SUBSET Ids /\ excess[c] > 0 /\ excess[c] \in Nat
      BY <1>0, <1>3, <1>7 DEF TypeOK, FindOldest
    <2>2. /\ seen' = [seen EXCEPT ![c] = S] /\ Goto(c, "write")
          /\ UNCHANGED <<devices, excess>>
      BY <1>7 DEF FindOldest
    <2>3. Cardinality(D \ S) < MaxTrust
      <3>1. CASE D = {}
        BY <1>0, <3>1, FS_EmptySet
      <3>2. CASE D # {}
        <4>1. PICK d \in D : \A e \in D : ~(created[e] < created[d])
          BY <1>0, <2>1, <3>2, OldestExists DEF TypeOK
        <4>2. older(d) = {}
          BY <4>1
        <4>3. Cardinality(older(d)) < excess[c]
          <5> HIDE DEF older
          <5> QED
            BY <2>1, <4>2, FS_EmptySet
        <4>4. d \in S
          BY <4>3
        <4> HIDE DEF S
        <4>5. D \ S \in SUBSET Ids /\ D \ {d} \in SUBSET Ids /\ D \ S \subseteq D \ {d}
          BY <2>1, <4>4
        <4>6. Cardinality(D \ {d}) = Cardinality(D) - 1
          <5> HIDE DEF D
          <5>1. IsFiniteSet(D) /\ d \in D
            BY <1>1, <2>1
          <5> QED
            BY ONLY <5>1, FS_RemoveElement
        <4>7. /\ Cardinality(D \ S) \in Nat /\ Cardinality(D) \in Nat
              /\ Cardinality(D \ S) <= Cardinality(D \ {d})
          BY <1>2, <2>1, <4>5, RowsAreCounted
        <4>8. Cardinality(D) <= MaxTrust
          BY <2>1
        <4> QED
          BY <1>0, <4>6, <4>7, <4>8
      <3> QED
        BY <3>1, <3>2
    <2> HIDE DEF S
    <2>4. \A d \in Calls \ {c} : pc'[d] = pc[d] /\ seen'[d] = seen[d]
      BY <1>0, <2>2 DEF TypeOK, Goto
    <2>5. /\ pc'[c] = "write" /\ seen'[c] = S
          /\ UNCHANGED <<kind, user, devices, excess>>
      BY <1>0, <2>2 DEF TypeOK, Goto
    <2> QED
      BY <2>3, <2>4, <2>5
  <1>8. ASSUME NEW c \in Calls, NEW k \in Kinds, NEW u \in Users,
               NEW i \in Invitations \cup Ids \cup {None}, StartOf(c, k, u, i)
        PROVE  TrustInv'
    BY <1>0, <1>8 DEF TypeOK, StartOf, Start
  <1>9. ASSUME UNCHANGED <<users, codeVars, totp, devices, drives, callVars>>
        PROVE  TrustInv'
    BY <1>9
  <1>10. ASSUME NEW c \in Calls, DeleteDevice(c)
         PROVE  \A u \in Users : devices'[u] \subseteq devices[u]
    BY <1>0, <1>10 DEF TypeOK, DeleteDevice
  <1>11. ASSUME NEW c \in Calls, StepOf(c), GoOn(c) \/ Fail(c) PROVE TrustInv'
    <2>1. CASE \E d \in Calls : InsertDevice(d)
      BY <1>4, <2>1
    <2>2. CASE \A u \in Users : devices'[u] \subseteq devices[u]
      BY <1>4, <1>5, <1>6, <1>7, <1>11, <2>2, StepsOfAKind
    <2> QED
      BY <1>10, <2>1, <2>2, StepsOnRows
  <1> HIDE DEF TrustInv
  <1> QED
    BY <1>8, <1>9, <1>11, StepsOfCalls

(* Devices do not cease to be expired *)
LEMMA ExpiredStays ==
  ASSUME [Next]_vars
  PROVE  expired \subseteq expired'
  <1>1. ASSUME NEW c \in Calls, Begin(c) \/ GoOn(c) \/ Fail(c) PROVE expired' = expired
    <2>1. ASSUME Begin(c) PROVE expired' = expired
      BY <2>1 DEF Begin, Register, LoginWithCode, Distrust, Regenerate, Enrol, RemoveStrategy,
                  Trust, EnsurePersonalDrive, Start
    <2>2. ASSUME GoOn(c) \/ Fail(c) PROVE expired' = expired
      BY <2>2 DEF GoOn, ValidateInvitation, InsertUser, Consume, CommitRegistration, MatchCode,
                  MarkUsed, FindUnused, Replace, FindTotp, InsertTotp, CountRemaining, RevokeTotp,
                  CountActive, FindOldest, InsertDevice, FindDevice, DeleteDevice, FindDrive,
                  InsertDrive, Fail
    <2> QED
      BY <1>1, <2>1, <2>2
  <1>2. ASSUME NEW i \in Invitations, CreateInvitation(i) \/ Deactivate(i) \/ InvitationLapses(i)
        PROVE  expired' = expired
    BY <1>2 DEF CreateInvitation, Deactivate, InvitationLapses
  <1>3. ASSUME NEW d \in Ids, DeviceExpires(d) PROVE expired \subseteq expired'
    BY <1>3 DEF DeviceExpires
  <1>4. CASE UNCHANGED vars
    BY <1>4 DEF vars
  <1> QED
    BY <1>1, <1>2, <1>3, <1>4 DEF Next

LEMMA OneCodeIsCounted ==
  ASSUME GenerationInv, NEW u \in Users
  PROVE  Cardinality(unused[u]) <= 1
  <1>1. CASE unused[u] = {}
    BY <1>1, FS_EmptySet
  <1>2. CASE unused[u] # {}
    <2>1. PICK k \in unused[u] : TRUE
      BY <1>2
    <2>2. unused[u] = {k}
      BY <2>1 DEF GenerationInv
    <2> QED
      BY <2>2, FS_Singleton
  <1> QED
    BY <1>1, <1>2

THEOREM SingleInvariance == Spec => [](IInv /\ OwnersInv /\ SingleInv)
  <1>1. Init => IInv /\ OwnersInv /\ SingleInv
    BY InitIInv, InitSingleInv
  <1>2. ASSUME IInv, OwnersInv, SingleInv, [Next]_vars
        PROVE  IInv' /\ OwnersInv' /\ SingleInv'
    <2>1. IInv' /\ OwnersInv'
      BY <1>2, NextIInv, OwnersKeep
    <2>2. single' = single
      BY <1>2, StepsOfCalls
    <2>3. ASSUME single PROVE OneOfAKind' /\ CodeLoginInv' /\ GenerationInv' /\ DriveInv'
      BY <1>2, <2>3, OneOfAKindKeeps, OneOfAKindIsEnough, CodeLoginKeeps, GenerationKeeps,
         DriveKeeps DEF SingleInv
    <2>4. ASSUME single, expired' = {} PROVE TrustInv'
      <3>1. expired = {}
        BY <1>2, <2>4, ExpiredStays
      <3> QED
        BY <1>2, <2>4, <3>1, OneOfAKindIsEnough, TrustKeeps DEF SingleInv
    <2> QED
      BY <2>1, <2>2, <2>3, <2>4 DEF SingleInv
  <1> QED
    BY <1>1, <1>2, PTL DEF Spec

(* BackupCodeService.verify: while a user does not send two calls of a kind *)
(* at a time, a backup code lets one login through.                         *)
THEOREM CodesLetInOnce == Spec => []OneLoginPerCode
  <1>1. SingleInv => OneLoginPerCode
    BY DEF SingleInv, CodeLoginInv, LetInOnce, LetIn, OneLoginPerCode
  <1> QED
    BY <1>1, SingleInvariance, PTL

(* BackupCodeService.regenerate: while a user does not send two calls of a  *)
(* kind at a time, only the codes that were made last are good.             *)
THEOREM LastCodesOnly == Spec => []OneGenerationOfCodes
  <1>1. SingleInv /\ single => \A u \in Users : Cardinality(unused[u]) <= 1
    BY OneCodeIsCounted DEF SingleInv
  <1>2. SingleInv => OneGenerationOfCodes
    BY <1>1 DEF OneGenerationOfCodes
  <1> QED
    BY <1>2, SingleInvariance, PTL

(* TrustedDeviceService.register: while a user does not send two calls of a *)
(* kind at a time and no device has expired, the oldest makes room for the  *)
(* new one.                                                                 *)
THEOREM TrustIsLimited == Spec => []TrustWithinLimit
  <1>1. SingleInv => TrustWithinLimit
    BY DEF SingleInv, TrustInv, TrustWithinLimit
  <1> QED
    BY <1>1, SingleInvariance, PTL

(* DriveService.ensurePersonalDrive: while a user does not send two calls   *)
(* of a kind at a time, it has one personal drive.                          *)
THEOREM DrivesAreSingle == Spec => []OneDrive
  <1>1. SingleInv => OneDrive
    BY DEF SingleInv, DriveInv, OneDrive
  <1> QED
    BY <1>1, SingleInvariance, PTL

-----------------------------------------------------------------------------
(* Which overlap does the harm, whatever else a user's calls do together *)

(* BackupCodeService.verify: only two logins that have matched the same     *)
(* code and not yet marked it can both get through with it, however logins, *)
(* regenerations and failures overlap otherwise.                            *)
THEOREM OnlyMatchesShareACode == Spec /\ []OneMatch => []LetInOnce
  <1>1. Init => IInv /\ OwnersInv /\ CodeLoginInv
    BY InitIInv, InitSingleInv
  <1>2. IInv /\ OwnersInv /\ CodeLoginInv /\ OneMatch /\ [Next]_vars =>
          IInv' /\ OwnersInv' /\ CodeLoginInv'
    BY NextIInv, OwnersKeep, CodeLoginKeeps
  <1>3. CodeLoginInv => LetInOnce
    BY DEF CodeLoginInv
  <1> QED
    BY <1>1, <1>2, <1>3, PTL DEF Spec

(* BackupCodeService.regenerate: only two regenerations of a user that have *)
(* both read its codes can leave codes of two generations, also next to     *)
(* logins with them.                                                        *)
THEOREM OnlyRegenerationsAddUp ==
  Spec /\ []OneRegeneration => [](\A u \in Users : Cardinality(unused[u]) <= 1)
  <1>1. Init => IInv /\ GenerationInv
    BY InitIInv, InitSingleInv
  <1>2. IInv /\ GenerationInv /\ OneRegeneration /\ [Next]_vars => IInv' /\ GenerationInv'
    BY NextIInv, GenerationKeeps
  <1>3. GenerationInv => \A u \in Users : Cardinality(unused[u]) <= 1
    BY OneCodeIsCounted
  <1> QED
    BY <1>1, <1>2, <1>3, PTL DEF Spec

(* TrustedDeviceService.register: as long as no device expires, only two    *)
(* registrations of a user that have both counted its devices can exceed    *)
(* MaxTrust, also next to removals of devices.                              *)
THEOREM OnlyCountsExceedTheLimit ==
  Spec /\ []OneTrust /\ [](expired = {}) =>
    [](\A u \in Users : Cardinality(devices[u]) <= MaxTrust)
  <1>1. Init => IInv /\ TrustInv
    BY InitIInv, InitSingleInv
  <1>2. IInv /\ TrustInv /\ OneTrust /\ expired = {} /\ [Next]_vars => IInv' /\ TrustInv'
    BY NextIInv, TrustKeeps
  <1>3. TrustInv => \A u \in Users : Cardinality(devices[u]) <= MaxTrust
    BY DEF TrustInv
  <1> QED
    BY <1>1, <1>2, <1>3, PTL DEF Spec

(* DriveService.ensurePersonalDrive: only two calls of a user that have     *)
(* both found no drive can make two.                                        *)
THEOREM OnlyLooksDuplicateDrives ==
  Spec /\ []OneDriveInsert => [](\A u \in Users : drives[u] <= 1)
  <1>1. Init => IInv /\ DriveInv
    BY InitIInv, InitSingleInv
  <1>2. IInv /\ DriveInv /\ OneDriveInsert /\ [Next]_vars => IInv' /\ DriveInv'
    BY NextIInv, DriveKeeps
  <1>3. DriveInv => \A u \in Users : drives[u] <= 1
    BY DEF DriveInv
  <1> QED
    BY <1>1, <1>2, <1>3, PTL DEF Spec

-----------------------------------------------------------------------------
(* TotpTwoFaStrategy.revoke *)

(* A removal looks for a secret whose id is the user's *)
LEMMA RemovalsAnswerForbidden ==
  ASSUME TypeOK, NEW c \in Calls, RevokeTotp(c)
  PROVE  Answer(c, "forbidden") /\ totp' = totp
  <1>1. user[c] \in Users
    BY DEF RevokeTotp, TypeOK
  <1>2. \A v \in Users : totp[v] # user[c]
    BY <1>1 DEF TypeOK
  <1>3. totp' = [v \in Users |-> totp[v]]
    BY <1>2 DEF RevokeTotp, DeleteByIdForUser
  <1>4. Answer(c, "forbidden")
    BY <1>2 DEF RevokeTotp, DeleteByIdForUser
  <1> QED
    BY <1>3, <1>4 DEF TypeOK

(* No removal is acknowledged, *)
NoRemovalSucceeds == \A c \in Calls : kind[c] = "unenrol" => result[c] # "ok"

(* and a secret that is there stays. *)
SecretsStay == [][\A u \in Users : totp[u] # None => totp'[u] = totp[u]]_vars

LEMMA NextNoRemovalSucceeds ==
  ASSUME IInv, NoRemovalSucceeds, [Next]_vars
  PROVE  NoRemovalSucceeds'
  <1>0. TypeOK /\ NoAnswerYet
    BY DEF IInv
  <1>1. ASSUME NEW c \in Calls, NEW k \in Kinds, NEW u \in Users,
               NEW i \in Invitations \cup Ids \cup {None}, StartOf(c, k, u, i)
        PROVE  NoRemovalSucceeds'
    BY <1>0, <1>1 DEF TypeOK, NoAnswerYet, NoRemovalSucceeds, StartOf, Start
  <1>2. ASSUME NEW c \in Calls, StepOf(c), kind[c] # "unenrol" \/ result'[c] # "ok"
        PROVE  NoRemovalSucceeds'
    BY <1>2 DEF NoRemovalSucceeds, StepOf
  <1>3. ASSUME NEW c \in Calls, StepOf(c), GoOn(c) \/ Fail(c), kind[c] = "unenrol"
        PROVE  result'[c] # "ok"
    <2>1. CASE CountRemaining(c)
      BY <1>0, <2>1 DEF TypeOK, NoAnswerYet, CountRemaining, GoOnIf, Goto, Answer
    <2>2. CASE RevokeTotp(c)
      BY <1>0, <2>2, RemovalsAnswerForbidden DEF TypeOK, Answer
    <2>3. CASE Fail(c)
      BY <1>0, <2>3 DEF TypeOK, Fail, Answer
    <2> QED
      BY <1>3, <2>1, <2>2, <2>3, StepsOfAKind
  <1>4. CASE UNCHANGED callVars
    BY <1>4 DEF NoRemovalSucceeds
  <1> QED
    BY <1>1, <1>2, <1>3, <1>4, StepsOfCalls

LEMMA NextSecretsStay ==
  ASSUME IInv, [Next]_vars
  PROVE  \A u \in Users : totp[u] # None => totp'[u] = totp[u]
  <1>0. TypeOK
    BY DEF IInv
  <1>1. CASE UNCHANGED totp
    BY <1>1
  <1>2. ASSUME NEW c \in Calls, RevokeTotp(c)
        PROVE  UNCHANGED totp
    BY <1>0, <1>2, RemovalsAnswerForbidden
  <1>3. ASSUME NEW c \in Calls, InsertTotp(c)
        PROVE  \A u \in Users : totp[u] # None => totp'[u] = totp[u]
    BY <1>0, <1>3 DEF TypeOK, InsertTotp
  <1>4. ASSUME NEW c \in Calls, Begin(c) PROVE UNCHANGED totp
    BY <1>4 DEF Begin, Register, LoginWithCode, Distrust, Regenerate, Enrol, RemoveStrategy,
                Trust, EnsurePersonalDrive, Start
  <1>5. ASSUME NEW c \in Calls, GoOn(c) \/ Fail(c), ~InsertTotp(c), ~RevokeTotp(c)
        PROVE  UNCHANGED totp
    BY <1>5 DEF GoOn, ValidateInvitation, InsertUser, Consume, CommitRegistration, MatchCode,
                MarkUsed, FindUnused, Replace, FindTotp, CountRemaining, CountActive, FindOldest,
                InsertDevice, FindDevice, DeleteDevice, FindDrive, InsertDrive, Fail
  <1>6. ASSUME NEW i \in Invitations, CreateInvitation(i) \/ Deactivate(i) \/ InvitationLapses(i)
        PROVE  UNCHANGED totp
    BY <1>6 DEF CreateInvitation, Deactivate, InvitationLapses
  <1>7. ASSUME NEW d \in Ids, DeviceExpires(d) PROVE UNCHANGED totp
    BY <1>7 DEF DeviceExpires
  <1>8. CASE UNCHANGED vars
    BY <1>8 DEF vars
  <1> QED
    BY <1>1, <1>2, <1>3, <1>4, <1>5, <1>6, <1>7, <1>8 DEF Next

(* TotpTwoFaStrategy.revoke hands its arguments on in the wrong order, so a *)
(* removal of a TOTP secret never succeeds, whoever sends it and whatever   *)
(* runs next to it: what the run accounts_totp_removal shows once is so for *)
(* every removal, and a secret that has been enrolled can never be removed. *)
THEOREM TotpIsNeverRemoved == Spec => []NoRemovalSucceeds /\ SecretsStay
  <1>1. Init => NoRemovalSucceeds
    BY DEF Init, NoRemovalSucceeds
  <1>2. IInv /\ NoRemovalSucceeds /\ [Next]_vars => NoRemovalSucceeds'
    BY NextNoRemovalSucceeds
  <1>3. IInv /\ [Next]_vars => [\A u \in Users : totp[u] # None => totp'[u] = totp[u]]_vars
    BY NextSecretsStay
  <1> QED
    BY <1>1, <1>2, <1>3, Invariance, PTL DEF Spec, SecretsStay
=============================================================================
