------------------------ MODULE FolderListings_proofs ------------------------
(***************************************************************************)
(* Safety of FolderListings for any number of folders, items, mutations    *)
(* and listings: every variable keeps its type, and in calm behaviours the *)
(* cache and the browser's queries show what is in the folders.            *)
(***************************************************************************)
EXTENDS FolderListings, TLAPS

Busy(m) == mpc[m] \notin {"new", "done"}

(* Nobody reads while somebody writes *)
Apart == \A m \in Mutations, l \in Lists : Busy(m) => lpc[l] = "idle"

(* A mutation is going to delete the entry *)
Doomed(f) == \E m \in Mutations : f \in keys[m]

(* An entry that is wrong is about to be deleted *)
CacheInv == \A f \in Folders \ untold : cached[f] \in {None, In(f)} \/ Doomed(f)

(* What a listing has read is what is in its folder *)
SeenInv ==
  \A l \in Lists :
    lpc[l] \in {"set", "answer"} /\ folder[l] \notin untold => seen[l] = In(folder[l])

(* The parent that a move or a removal has read is the item's, or the       *)
(* item's has no entry that it would have to delete.                        *)
FromInv ==
  \A m \in Mutations :
    mpc[m] = "write" /\ kind[m] \in {"move", "remove"} =>
      LET f == home[item[m]]
      IN  f = from[m] \/ f \in untold \/ cached[f] = None \/ Doomed(f)

(* A query with the wrong data is invalid, or a mutation that will make it  *)
(* so is about to succeed.                                                  *)
ScreenInv ==
  \A f \in Folders \ (untold \cup invalid) :
    \/ shown[f] \in {None, In(f)}
    \/ \E m \in Mutations : mpc[m] = "forget" /\ kind[m] # "upload"

CalmInv == Apart /\ CacheInv /\ SeenInv /\ FromInv /\ ScreenInv

IInv == TypeOK /\ (calm => CalmInv)

USE RootAssumption, NoneAssumption
    DEF Kinds, rowVars, mutationVars, listVars, browserVars

-----------------------------------------------------------------------------
(* What is in a folder is a set of rows *)
LEMMA InIsRows == TypeOK => \A f \in Folders : In(f) \in Rows
  BY DEF TypeOK, In, Rows

(* A step that leaves the rows alone leaves the folders as they are *)
LEMMA InStays == UNCHANGED rowVars => \A f \in Folders : In(f)' = In(f)
  BY DEF In

(* A step that changes one item leaves a folder as it is if the item is in  *)
(* it neither before nor after.                                             *)
LEMMA InStaysWithout ==
  ASSUME NEW i \in Items, NEW f \in Folders,
         \A j \in Items \ {i} : row'[j] = row[j] /\ home'[j] = home[j] /\ name'[j] = name[j],
         row[i] # "live" \/ home[i] # f,
         row'[i] # "live" \/ home'[i] # f
  PROVE  In(f)' = In(f)
  <1>1. {j \in Items : row'[j] = "live" /\ home'[j] = f} =
        {j \in Items : row[j] = "live" /\ home[j] = f}
    OBVIOUS
  <1>2. \A j \in {k \in Items : row[k] = "live" /\ home[k] = f} : name'[j] = name[j]
    OBVIOUS
  <1> QED
    BY <1>1, <1>2 DEF In

LEMMA InitIInv == Init => IInv
  BY DEF Init, IInv, TypeOK, CalmInv, Apart, Busy, CacheInv, SeenInv, FromInv, ScreenInv, Rows

-----------------------------------------------------------------------------
(* Types *)

(* A mutation that has ended *)
LEMMA EndTypes ==
  ASSUME TypeOK, NEW m \in Mutations, End(m)
  PROVE  /\ UNCHANGED <<rowVars, item>>
         /\ kind' \in [Mutations -> Kinds] /\ to' \in [Mutations -> Folders]
         /\ from' \in [Mutations -> Folders] /\ keys' \in [Mutations -> SUBSET Folders]
         /\ mpc' \in [Mutations -> {"new", "find", "write", "forget", "done"}]
         /\ \A n \in Mutations : keys'[n] # {} => mpc'[n] = "forget"
  BY DEF TypeOK, End

LEMMA NextTypeOK ==
  ASSUME TypeOK, [Next]_vars
  PROVE  TypeOK'
  <1> USE DEF TypeOK
  <1>1. ASSUME NEW m \in Mutations, NEW k \in Kinds, NEW i \in Items, NEW f \in Folders,
               Request(m, k, i, f)
        PROVE  TypeOK'
    BY <1>1 DEF Request
  <1>2. ASSUME NEW m \in Mutations, Find(m) PROVE TypeOK'
    <2>1. CASE row[item[m]] = "live"
      <3>1. /\ from' = [from EXCEPT ![m] = home[item[m]]]
            /\ mpc' = [mpc EXCEPT ![m] = "write"] /\ mpc[m] = "find"
            /\ UNCHANGED <<rowVars, kind, item, to, keys, untold>>
            /\ UNCHANGED <<cached, listVars, browserVars, calm>>
        BY <1>2, <2>1 DEF Find
      <3>2. home[item[m]] \in Folders
        OBVIOUS
      <3> QED
        BY <3>1, <3>2
    <2>2. CASE row[item[m]] # "live"
      <3>1. End(m) /\ UNCHANGED <<untold, cached, listVars, browserVars, calm>>
        BY <1>2, <2>2 DEF Find
      <3> QED
        BY <3>1, EndTypes
    <2> QED
      BY <2>1, <2>2
  <1>3. ASSUME NEW m \in Mutations, Write(m) PROVE TypeOK'
    <2>1. CASE Applies(m)
      <3>1. /\ row' \in [Items -> {"absent", "live", "trashed"}]
            /\ home' \in [Items -> Folders]
            /\ name' \in [Items -> BOOLEAN]
        <4>1. item[m] \in Items /\ to[m] \in Folders /\ name[item[m]] \in BOOLEAN
          OBVIOUS
        <4>2. /\ row' = [row EXCEPT ![item[m]] = IF kind[m] = "remove" THEN "trashed" ELSE "live"]
              /\ home' = [home EXCEPT ![item[m]] =
                   IF kind[m] \in {"create", "upload", "move"} THEN to[m] ELSE @]
              /\ name' = [name EXCEPT ![item[m]] = IF kind[m] = "rename" THEN ~@ ELSE @]
          BY <1>3, <2>1 DEF Write
        <4>3. row' \in [Items -> {"absent", "live", "trashed"}]
          BY <4>1, <4>2
        <4>4. home' \in [Items -> Folders]
          BY <4>1, <4>2
        <4>5. name' \in [Items -> BOOLEAN]
          BY <4>1, <4>2
        <4> QED
          BY <4>3, <4>4, <4>5
      <3>2. StaleKeys(m) \subseteq Folders /\ Changed(m) \subseteq Folders
        BY DEF StaleKeys, Changed
      <3>3. /\ keys' = [keys EXCEPT ![m] = StaleKeys(m)]
            /\ mpc' = [mpc EXCEPT ![m] = "forget"]
            /\ untold' \subseteq untold \cup Changed(m)
            /\ UNCHANGED <<kind, item, to, from, cached, listVars, browserVars, calm>>
        BY <1>3, <2>1 DEF Write
      <3>4. keys' \in [Mutations -> SUBSET Folders] /\ untold' \subseteq Folders
        BY <3>2, <3>3
      <3>5. /\ mpc' \in [Mutations -> {"new", "find", "write", "forget", "done"}]
            /\ \A n \in Mutations : keys'[n] # {} => mpc'[n] = "forget"
        BY <3>3
      <3> QED
        BY <3>1, <3>3, <3>4, <3>5
    <2>2. CASE ~Applies(m)
      <3>1. End(m) /\ UNCHANGED <<untold, cached, listVars, browserVars, calm>>
        BY <1>3, <2>2 DEF Write
      <3> QED
        BY <3>1, EndTypes
    <2> QED
      BY <2>1, <2>2
  <1>4. ASSUME NEW m \in Mutations, NEW f \in Folders, Invalidate(m, f) PROVE TypeOK'
    BY <1>4 DEF Invalidate
  <1>5. ASSUME NEW m \in Mutations, OnSuccess(m) PROVE TypeOK'
    <2>1. QueriesOf(m) \subseteq Folders
      BY DEF QueriesOf
    <2> QED
      BY <1>5, <2>1 DEF OnSuccess, End
  <1>6. ASSUME NEW m \in Mutations, Fail(m) PROVE TypeOK'
    BY <1>6 DEF Fail, End
  <1>7. ASSUME NEW l \in Lists, NEW f \in Folders, StartFetch(l, f) PROVE TypeOK'
    BY <1>7 DEF StartFetch, Start
  <1>8. ASSUME NEW l \in Lists, NEW f \in Folders, ListElsewhere(l, f) PROVE TypeOK'
    BY <1>8 DEF ListElsewhere, Start
  <1>9. ASSUME NEW l \in Lists, Get(l) PROVE TypeOK'
    <2>1. /\ seen' \in [Lists -> Rows]
          /\ lpc' \in [Lists -> {"idle", "get", "read", "set", "answer"}]
          /\ \A k \in Lists : lpc[k] # "idle" => lpc'[k] # "idle"
      <3>1. \/ /\ cached[folder[l]] # None
               /\ seen' = [seen EXCEPT ![l] = cached[folder[l]]]
               /\ lpc' = [lpc EXCEPT ![l] = "answer"]
            \/ lpc' = [lpc EXCEPT ![l] = "read"] /\ seen' = seen
        BY <1>9 DEF Get
      <3>2. cached[folder[l]] # None => cached[folder[l]] \in Rows
        OBVIOUS
      <3>3. seen \in [Lists -> Rows] /\ lpc \in [Lists -> {"idle", "get", "read", "set", "answer"}]
        OBVIOUS
      <3> QED
        BY ONLY <3>1, <3>2, <3>3
    <2>2. UNCHANGED <<rowVars, cached, mutationVars, folder, browserVars, untold, calm>>
      BY <1>9 DEF Get
    <2> QED
      BY <2>1, <2>2
  <1>10. ASSUME NEW l \in Lists, FindChildren(l) PROVE TypeOK'
    <2>1. seen' = [seen EXCEPT ![l] = In(folder[l])] /\ In(folder[l]) \in Rows
      BY <1>10, InIsRows DEF FindChildren
    <2> QED
      BY <1>10, <2>1 DEF FindChildren
  <1>11. ASSUME NEW l \in Lists, Set(l) PROVE TypeOK'
    BY <1>11 DEF Set
  <1>12. ASSUME NEW l \in Lists, Answer(l) \/ FailList(l) PROVE TypeOK'
    <2>1. {} \in Rows
      BY DEF Rows
    <2>2. /\ lpc' = [lpc EXCEPT ![l] = "idle"]
          /\ seen' = [seen EXCEPT ![l] = {}]
          /\ folder' = [folder EXCEPT ![l] = Root]
          /\ fetch' = [f \in Folders |-> IF fetch[f] = l THEN None ELSE fetch[f]]
          /\ UNCHANGED <<rowVars, cached, mutationVars, at, wanted, untold, calm>>
      BY <1>12 DEF Answer, FailList, Release
    <2>3. shown' \in [Folders -> {None} \cup Rows] /\ invalid' \subseteq Folders
      BY <1>12 DEF Answer, FailList
    <2>4. /\ lpc' \in [Lists -> {"idle", "get", "read", "set", "answer"}]
          /\ folder' \in [Lists -> Folders]
          /\ seen' \in [Lists -> Rows]
          /\ fetch' \in [Folders -> Lists \cup {None}]
      BY <2>1, <2>2
    <2>5. \A k \in Lists, f \in Folders :
            fetch'[f] = k => lpc'[k] # "idle" /\ folder'[k] = f
      BY <2>2
    <2> QED
      BY <2>2, <2>3, <2>4, <2>5
  <1>13. ASSUME NEW f \in Folders, Expire(f) PROVE TypeOK'
    BY <1>13 DEF Expire
  <1>14. ASSUME NEW f \in Folders, Open(f) PROVE TypeOK'
    BY <1>14 DEF Open
  <1>15. ASSUME NEW f \in Folders, Refetch(f) PROVE TypeOK'
    BY <1>15 DEF Refetch, Active
  <1>16. CASE UNCHANGED vars
    BY <1>16 DEF vars
  <1> HIDE DEF TypeOK
  <1> QED
    BY <1>1, <1>2, <1>3, <1>4, <1>5, <1>6, <1>7, <1>8, <1>9, <1>10, <1>11, <1>12, <1>13,
       <1>14, <1>15, <1>16 DEF Next, MutationStep, ListStep

-----------------------------------------------------------------------------
(* The calm behaviours *)

(* What a step has to leave alone for the parts of the invariant to stay *)

LEMMA SeenStays ==
  ASSUME SeenInv, UNCHANGED <<rowVars, listVars>>, TypeOK, untold \subseteq untold'
  PROVE  SeenInv'
  BY InStays DEF SeenInv, TypeOK

LEMMA ScreenStays ==
  ASSUME ScreenInv, UNCHANGED <<rowVars, shown>>, untold \cup invalid \subseteq untold' \cup invalid',
         \A m \in Mutations : mpc[m] = "forget" /\ kind[m] # "upload" =>
            mpc'[m] = "forget" /\ kind'[m] # "upload"
  PROVE  ScreenInv'
  BY InStays DEF ScreenInv

(* Entries may go, and mutations delete what they have to *)
LEMMA CacheStays ==
  ASSUME CacheInv, UNCHANGED rowVars, untold \subseteq untold',
         \A f \in Folders : cached'[f] \in {None, cached[f]},
         \A f \in Folders \ untold' : Doomed(f) => Doomed(f)' \/ cached'[f] = None
  PROVE  CacheInv'
  BY InStays DEF CacheInv

LEMMA FromStays ==
  ASSUME FromInv, TypeOK, UNCHANGED <<rowVars, item>>, untold \subseteq untold',
         \A f \in Folders : cached[f] = None => cached'[f] = None,
         \A f \in Folders \ untold' : Doomed(f) => Doomed(f)' \/ cached'[f] = None,
         \A m \in Mutations : mpc'[m] = "write" /\ kind'[m] \in {"move", "remove"} =>
            mpc[m] = "write" /\ kind'[m] = kind[m] /\ from'[m] = from[m]
  PROVE  FromInv'
  BY DEF FromInv, TypeOK

(* A mutation that has to delete nothing ends *)
LEMMA EndKeeps ==
  ASSUME TypeOK, CalmInv, NEW m \in Mutations, End(m), keys[m] = {}, mpc[m] # "forget",
         UNCHANGED <<untold, cached, listVars, browserVars, calm>>
  PROVE  CalmInv'
  <1>1. \A n \in Mutations \ {m} : /\ mpc'[n] = mpc[n] /\ kind'[n] = kind[n]
                                   /\ from'[n] = from[n] /\ keys'[n] = keys[n]
    BY DEF End, TypeOK
  <1>2. mpc'[m] = "done" /\ UNCHANGED <<rowVars, item>>
    BY DEF End, TypeOK
  <1>3. \A f \in Folders : Doomed(f) => Doomed(f)'
    BY <1>1 DEF Doomed
  <1>4. Apart'
    BY <1>1, <1>2 DEF CalmInv, Apart, Busy
  <1>5. SeenInv'
    BY <1>2, SeenStays DEF CalmInv
  <1>6. CacheInv'
    BY <1>2, <1>3, CacheStays DEF CalmInv
  <1>7. FromInv'
    BY <1>1, <1>2, <1>3, FromStays DEF CalmInv
  <1>8. ScreenInv'
    BY <1>1, <1>2, ScreenStays DEF CalmInv
  <1> QED
    BY <1>4, <1>5, <1>6, <1>7, <1>8 DEF CalmInv

LEMMA RequestKeeps ==
  ASSUME TypeOK, CalmInv, calm, NEW m \in Mutations, NEW k \in Kinds, NEW i \in Items,
         NEW f \in Folders, Request(m, k, i, f)
  PROVE  CalmInv'
  <1>1. \A n \in Mutations \ {m} : /\ mpc'[n] = mpc[n] /\ kind'[n] = kind[n]
                                   /\ item'[n] = item[n]
    BY DEF Request, TypeOK
  <1>2. /\ mpc[m] = "new"
        /\ mpc'[m] \in {"find", "write"}
        /\ mpc'[m] = "write" => kind'[m] \notin {"move", "remove"}
        /\ UNCHANGED <<rowVars, cached, from, keys, listVars, browserVars, untold, calm>>
    BY DEF Request, TypeOK
  <1>3. \A l \in Lists : lpc[l] = "idle"
    BY DEF Request, Listing
  <1>4. \A g : Doomed(g)' <=> Doomed(g)
    BY <1>2 DEF Doomed
  <1>5. Apart' /\ SeenInv'
    BY <1>2, <1>3 DEF Apart, SeenInv
  <1>6. CacheInv'
    BY <1>2, <1>4, CacheStays DEF CalmInv
  <1>7. FromInv'
    BY <1>1, <1>2, <1>4 DEF CalmInv, FromInv
  <1>8. ScreenInv'
    BY <1>1, <1>2, ScreenStays DEF CalmInv
  <1> QED
    BY <1>5, <1>6, <1>7, <1>8 DEF CalmInv

LEMMA FindKeeps ==
  ASSUME TypeOK, CalmInv, NEW m \in Mutations, Find(m)
  PROVE  CalmInv'
  <1>1. CASE row[item[m]] = "live"
    <2>1. /\ mpc[m] = "find" /\ mpc'[m] = "write" /\ from'[m] = home[item[m]]
          /\ \A n \in Mutations \ {m} : mpc'[n] = mpc[n] /\ from'[n] = from[n]
          /\ UNCHANGED <<rowVars, kind, item, to, keys, untold, cached, listVars, browserVars, calm>>
      BY <1>1 DEF Find, TypeOK
    <2>2. \A g : Doomed(g)' <=> Doomed(g)
      BY <2>1 DEF Doomed
    <2>3. Apart'
      BY <2>1 DEF CalmInv, Apart, Busy
    <2>4. SeenInv'
      BY <2>1, SeenStays DEF CalmInv
    <2>5. CacheInv'
      BY <2>1, <2>2, CacheStays DEF CalmInv
    <2>6. FromInv'
      BY <2>1, <2>2 DEF CalmInv, FromInv
    <2>7. ScreenInv'
      BY <2>1, ScreenStays DEF CalmInv
    <2> QED
      BY <2>3, <2>4, <2>5, <2>6, <2>7 DEF CalmInv
  <1>2. CASE row[item[m]] # "live"
    <2>1. /\ End(m) /\ keys[m] = {} /\ mpc[m] # "forget"
          /\ UNCHANGED <<untold, cached, listVars, browserVars, calm>>
      BY <1>2 DEF Find, TypeOK
    <2> QED
      BY <2>1, EndKeeps
  <1> QED
    BY <1>1, <1>2

(* A folder that a write changes is one it tells of, one whose change       *)
(* nobody is told of, or the one the item was in without the mutation       *)
(* having seen it there, which has no entry to go wrong.                    *)
LEMMA WriteIsTold ==
  ASSUME TypeOK, FromInv, NEW m \in Mutations, Write(m), Applies(m), NEW f \in Folders
  PROVE  \/ In(f)' = In(f)
         \/ f \in keys'[m]
         \/ kind[m] \in {"upload", "restore"} /\ f \in untold'
         \/ kind[m] \in {"move", "remove"} /\ (f \in untold \/ cached[f] = None \/ Doomed(f))
  <1> DEFINE i == item[m]
  <1>1. /\ \A j \in Items \ {i} : row'[j] = row[j] /\ home'[j] = home[j] /\ name'[j] = name[j]
        /\ i \in Items /\ mpc[m] = "write" /\ keys'[m] = StaleKeys(m)
        /\ home'[i] = IF kind[m] \in {"create", "upload", "move"} THEN to[m] ELSE home[i]
        /\ kind[m] \in {"upload", "restore"} => untold' = untold \cup Changed(m)
    BY DEF Write, TypeOK
  <1>2. CASE kind[m] \in {"create", "upload"}
    <2>1. row[i] # "live" /\ home'[i] = to[m]
      BY <1>1, <1>2 DEF Applies
    <2>2. kind[m] = "create" => to[m] \in keys'[m]
      BY <1>1 DEF StaleKeys
    <2>3. kind[m] = "upload" => to[m] \in untold'
      BY <1>1 DEF Changed
    <2> QED
      BY <1>1, <1>2, <2>1, <2>2, <2>3, InStaysWithout
  <1>3. CASE kind[m] \in {"rename", "restore"}
    <2>1. home'[i] = home[i]
      BY <1>1, <1>3
    <2>2. kind[m] = "rename" => home[i] \in keys'[m]
      BY <1>1 DEF StaleKeys
    <2>3. kind[m] = "restore" => home[i] \in untold'
      BY <1>1 DEF Changed
    <2> QED
      BY <1>1, <1>3, <2>1, <2>2, <2>3, InStaysWithout
  <1>4. CASE kind[m] \in {"move", "remove"}
    <2>1. from[m] \in keys'[m] /\ (kind[m] = "move" => to[m] \in keys'[m])
      BY <1>1, <1>4 DEF StaleKeys
    <2>2. home'[i] \in {home[i], to[m]} /\ (kind[m] # "move" => home'[i] = home[i])
      BY <1>1, <1>4
    <2>3. \/ home[i] = from[m]
          \/ home[i] \in untold \/ cached[home[i]] = None \/ Doomed(home[i])
      BY <1>1, <1>4 DEF FromInv
    <2>4. CASE f = home[i]
      BY <1>4, <2>1, <2>3, <2>4
    <2>5. CASE f = to[m] /\ kind[m] = "move"
      BY <2>1, <2>5
    <2>6. CASE f # home[i] /\ ~(f = to[m] /\ kind[m] = "move")
      BY <1>1, <1>4, <2>2, <2>6, InStaysWithout
    <2> QED
      BY <2>4, <2>5, <2>6
  <1> QED
    BY <1>2, <1>3, <1>4 DEF TypeOK

LEMMA WriteKeeps ==
  ASSUME TypeOK, CalmInv, NEW m \in Mutations, Write(m)
  PROVE  CalmInv'
  <1>1. CASE Applies(m)
    <2>1. /\ mpc[m] = "write" /\ mpc'[m] = "forget" /\ keys[m] = {} /\ keys'[m] = StaleKeys(m)
          /\ \A n \in Mutations \ {m} : mpc'[n] = mpc[n] /\ keys'[n] = keys[n]
          /\ untold \subseteq untold'
          /\ UNCHANGED <<kind, item, to, from, cached, listVars, browserVars, calm>>
      BY <1>1 DEF Write, TypeOK
    <2>2. \A l \in Lists : lpc[l] = "idle"
      BY <2>1 DEF CalmInv, Apart, Busy
    <2>3. \A f : Doomed(f) => Doomed(f)'
      BY <2>1 DEF Doomed
    <2>4. Apart' /\ SeenInv'
      BY <2>1, <2>2 DEF Apart, SeenInv
    <2>5. CacheInv'
      <3> SUFFICES ASSUME NEW f \in Folders \ untold'
                   PROVE  cached'[f] \in {None, In(f)'} \/ Doomed(f)'
        BY DEF CacheInv
      <3>1. \/ In(f)' = In(f)
            \/ f \in keys'[m]
            \/ cached[f] = None \/ Doomed(f)
        BY <1>1, <2>1, WriteIsTold DEF CalmInv
      <3>2. cached[f] \in {None, In(f)} \/ Doomed(f)
        BY <2>1 DEF CalmInv, CacheInv
      <3>3. f \in keys'[m] => Doomed(f)'
        BY DEF Doomed
      <3> QED
        BY <2>1, <2>3, <3>1, <3>2, <3>3
    <2>6. FromInv'
      <3> SUFFICES ASSUME NEW n \in Mutations, mpc'[n] = "write", kind[n] \in {"move", "remove"},
                          NEW f, f = home'[item[n]]
                   PROVE  f = from[n] \/ f \in untold' \/ cached[f] = None \/ Doomed(f)'
        BY <2>1 DEF FromInv
      <3>1. CASE f = home[item[n]]
        <4>1. n # m /\ mpc[n] = "write"
          BY <2>1
        <4> QED
          BY <2>1, <2>3, <3>1, <4>1 DEF CalmInv, FromInv
      <3>2. CASE f # home[item[n]]
        <4>1. kind[m] \in {"create", "upload", "move"} /\ f = to[m]
          BY <1>1, <3>2 DEF Write, TypeOK
        <4>2. kind[m] \in {"create", "move"} => f \in keys'[m]
          BY <2>1, <4>1 DEF StaleKeys
        <4>3. kind[m] = "upload" => f \in untold'
          BY <1>1, <4>1 DEF Write, Changed
        <4>4. f \in keys'[m] => Doomed(f)'
          BY DEF Doomed
        <4> QED
          BY <4>1, <4>2, <4>3, <4>4
      <3> QED
        BY <3>1, <3>2
    <2>7. ScreenInv'
      <3>1. CASE kind[m] # "upload"
        BY <2>1, <3>1 DEF ScreenInv
      <3>2. CASE kind[m] = "upload"
        <4>1. \A f \in Folders \ untold' : In(f)' = In(f)
          <5> TAKE f \in Folders \ untold'
          <5>1. keys'[m] = {}
            BY <2>1, <3>2 DEF StaleKeys
          <5> QED
            BY <1>1, <3>2, <5>1, WriteIsTold DEF CalmInv
        <4> QED
          BY <2>1, <4>1 DEF CalmInv, ScreenInv
      <3> QED
        BY <3>1, <3>2
    <2> QED
      BY <2>4, <2>5, <2>6, <2>7 DEF CalmInv
  <1>2. CASE ~Applies(m)
    <2>1. /\ End(m) /\ keys[m] = {} /\ mpc[m] # "forget"
          /\ UNCHANGED <<untold, cached, listVars, browserVars, calm>>
      BY <1>2 DEF Write, TypeOK
    <2> QED
      BY <2>1, EndKeeps
  <1> QED
    BY <1>1, <1>2

LEMMA InvalidateKeeps ==
  ASSUME TypeOK, CalmInv, NEW m \in Mutations, NEW f \in Folders, Invalidate(m, f)
  PROVE  CalmInv'
  <1>1. /\ cached' = [cached EXCEPT ![f] = None]
        /\ keys' = [keys EXCEPT ![m] = @ \ {f}]
        /\ UNCHANGED <<rowVars, kind, item, to, mpc, from, listVars, browserVars, untold, calm>>
    BY DEF Invalidate
  <1>2. \A g \in Folders : cached'[g] \in {None, cached[g]}
    BY <1>1 DEF TypeOK
  <1>3. \A g \in Folders : Doomed(g) => Doomed(g)' \/ cached'[g] = None
    BY <1>1 DEF TypeOK, Doomed
  <1>4. Apart'
    BY <1>1 DEF CalmInv, Apart, Busy
  <1>5. SeenInv'
    BY <1>1, SeenStays DEF CalmInv
  <1>6. CacheInv'
    BY <1>1, <1>2, <1>3, CacheStays DEF CalmInv
  <1>7. FromInv'
    BY <1>1, <1>2, <1>3, FromStays DEF CalmInv
  <1>8. ScreenInv'
    BY <1>1, ScreenStays DEF CalmInv
  <1> QED
    BY <1>4, <1>5, <1>6, <1>7, <1>8 DEF CalmInv

LEMMA OnSuccessKeeps ==
  ASSUME TypeOK, CalmInv, calm, NEW m \in Mutations, OnSuccess(m)
  PROVE  CalmInv'
  <1>1. /\ mpc[m] = "forget" /\ mpc'[m] = "done" /\ keys[m] = {}
        /\ \A n \in Mutations \ {m} : /\ mpc'[n] = mpc[n] /\ kind'[n] = kind[n]
                                      /\ from'[n] = from[n] /\ keys'[n] = keys[n]
        /\ UNCHANGED <<rowVars, item, cached, listVars, shown, untold, calm>>
    BY DEF OnSuccess, End, TypeOK
  <1>2. invalid' = invalid \cup QueriesOf(m)
    BY DEF OnSuccess
  <1>3. \A f : Doomed(f) => Doomed(f)'
    BY <1>1 DEF Doomed
  <1>4. Apart'
    BY <1>1 DEF CalmInv, Apart, Busy
  <1>5. SeenInv'
    BY <1>1, SeenStays DEF CalmInv
  <1>6. CacheInv'
    BY <1>1, <1>3, CacheStays DEF CalmInv
  <1>7. FromInv'
    BY <1>1, <1>3, FromStays DEF CalmInv
  <1>8. ScreenInv'
    <2>1. CASE kind[m] = "upload"
      BY <1>1, <1>2, <2>1, ScreenStays DEF CalmInv
    <2>2. CASE kind[m] # "upload"
      BY <1>2, <2>2 DEF QueriesOf, ScreenInv
    <2> QED
      BY <2>1, <2>2
  <1> QED
    BY <1>4, <1>5, <1>6, <1>7, <1>8 DEF CalmInv

LEMMA FailKeeps ==
  ASSUME TypeOK, CalmInv, NEW m \in Mutations, Fail(m)
  PROVE  CalmInv'
  <1>1. CASE mpc[m] = "forget"
    <2>1. /\ untold' = Folders
          /\ UNCHANGED <<listVars, home, item>>
          /\ \A n \in Mutations : mpc'[n] \in {mpc[n], "done"}
      BY <1>1 DEF Fail, End, TypeOK
    <2>2. Apart'
      BY <2>1 DEF CalmInv, Apart, Busy
    <2> QED
      BY <2>1, <2>2 DEF CalmInv, SeenInv, CacheInv, FromInv, ScreenInv, TypeOK
  <1>2. CASE mpc[m] # "forget"
    <2>1. /\ End(m) /\ keys[m] = {}
          /\ UNCHANGED <<untold, cached, listVars, browserVars, calm>>
      BY <1>2 DEF Fail, TypeOK
    <2> QED
      BY <1>2, <2>1, EndKeeps
  <1> QED
    BY <1>1, <1>2

(* While a listing is under way no mutation is *)
LEMMA NobodyWrites ==
  ASSUME TypeOK, Apart, NEW l \in Lists, lpc[l] # "idle"
  PROVE  /\ \A m \in Mutations : ~Busy(m)
         /\ \A f : ~Doomed(f)
  BY DEF TypeOK, Apart, Busy, Doomed

(* What a listing does *)
LEMMA StartFetchKeeps ==
  ASSUME TypeOK, CalmInv, NEW l \in Lists, NEW f \in Folders, StartFetch(l, f)
  PROVE  CalmInv'
  <1>1. /\ \A m \in Mutations : ~Busy(m)
        /\ lpc'[l] = "get"
        /\ \A k \in Lists \ {l} : lpc'[k] = lpc[k] /\ folder'[k] = folder[k]
        /\ UNCHANGED <<rowVars, cached, mutationVars, seen, untold, shown, invalid>>
    BY DEF StartFetch, Start, TypeOK, Mutating, Busy
  <1>2. Apart'
    BY <1>1 DEF Apart, Busy
  <1>3. SeenInv'
    BY <1>1, InStays DEF CalmInv, SeenInv, TypeOK
  <1>4. CacheInv'
    BY <1>1, CacheStays DEF CalmInv, Doomed
  <1>5. FromInv'
    BY <1>1 DEF Busy, FromInv
  <1>6. ScreenInv'
    BY <1>1, ScreenStays DEF CalmInv
  <1> QED
    BY <1>2, <1>3, <1>4, <1>5, <1>6 DEF CalmInv

LEMMA ServeKeeps ==
  ASSUME TypeOK, CalmInv, NEW l \in Lists, Get(l) \/ FindChildren(l) \/ Set(l)
  PROVE  CalmInv'
  <1>1. /\ lpc[l] # "idle" /\ lpc'[l] # "idle"
        /\ \A k \in Lists \ {l} : lpc'[k] = lpc[k] /\ seen'[k] = seen[k]
        /\ UNCHANGED <<rowVars, mutationVars, folder, untold, browserVars, calm>>
    BY DEF Get, FindChildren, Set, TypeOK
  <1>2. /\ \A m \in Mutations : ~Busy(m)
        /\ \A f : ~Doomed(f)
    BY <1>1, NobodyWrites DEF CalmInv
  <1>3. \A f \in Folders : In(f)' = In(f)
    BY <1>1, InStays
  <1>4. Apart'
    BY <1>1, <1>2 DEF Apart, Busy
  <1>5. FromInv'
    BY <1>1, <1>2 DEF FromInv, Busy
  <1>6. ScreenInv'
    BY <1>1, ScreenStays DEF CalmInv
  <1>7. SeenInv'
    <2>1. lpc'[l] \in {"set", "answer"} /\ folder[l] \notin untold => seen'[l] = In(folder[l])
      <3>1. CASE Get(l)
        BY <1>2, <3>1 DEF Get, TypeOK, CalmInv, CacheInv
      <3>2. CASE FindChildren(l)
        BY <3>2 DEF FindChildren, TypeOK
      <3>3. CASE Set(l)
        BY <3>3 DEF Set, TypeOK, CalmInv, SeenInv
      <3> QED
        BY <3>1, <3>2, <3>3
    <2> QED
      BY <1>1, <1>3, <2>1 DEF CalmInv, SeenInv, TypeOK
  <1>8. CacheInv'
    <2>1. CASE Set(l)
      <3>1. folder[l] \notin untold => seen[l] = In(folder[l])
        BY <2>1 DEF Set, CalmInv, SeenInv
      <3>2. cached' = [cached EXCEPT ![folder[l]] = seen[l]]
        BY <2>1 DEF Set
      <3> QED
        BY <1>1, <1>2, <1>3, <3>1, <3>2 DEF CalmInv, CacheInv, TypeOK
    <2>2. CASE ~Set(l)
      <3>1. cached' = cached
        BY <2>2 DEF Get, FindChildren
      <3> QED
        BY <1>1, <1>2, <1>3, <3>1 DEF CalmInv, CacheInv
    <2> QED
      BY <2>1, <2>2
  <1> QED
    BY <1>4, <1>5, <1>6, <1>7, <1>8 DEF CalmInv

LEMMA AnswerKeeps ==
  ASSUME TypeOK, CalmInv, NEW l \in Lists, Answer(l) \/ FailList(l)
  PROVE  CalmInv'
  <1>1. /\ lpc'[l] = "idle"
        /\ \A k \in Lists \ {l} : lpc'[k] = lpc[k] /\ seen'[k] = seen[k] /\ folder'[k] = folder[k]
        /\ UNCHANGED <<rowVars, cached, mutationVars, untold, calm>>
    BY DEF Answer, FailList, Release, TypeOK
  <1>2. \A f \in Folders : In(f)' = In(f)
    BY <1>1, InStays
  <1>3. Apart'
    BY <1>1 DEF CalmInv, Apart, Busy
  <1>4. SeenInv'
    BY <1>1, <1>2 DEF CalmInv, SeenInv, TypeOK
  <1>5. CacheInv'
    BY <1>1, CacheStays DEF CalmInv, Doomed
  <1>6. FromInv'
    BY <1>1, FromStays DEF CalmInv, Doomed
  <1>7. ScreenInv'
    <2>1. CASE UNCHANGED <<shown, invalid>>
      BY <1>1, <2>1, ScreenStays DEF CalmInv
    <2>2. CASE ~UNCHANGED <<shown, invalid>>
      <3>1. /\ lpc[l] = "answer"
            /\ shown' = [shown EXCEPT ![folder[l]] = seen[l]]
            /\ invalid' = invalid \ {folder[l]}
        BY <2>2 DEF Answer, FailList
      <3>2. folder[l] \notin untold => seen[l] = In(folder[l])
        BY <3>1 DEF CalmInv, SeenInv
      <3> QED
        BY <1>1, <1>2, <3>1, <3>2 DEF CalmInv, ScreenInv, TypeOK
    <2> QED
      BY <2>1, <2>2
  <1> QED
    BY <1>3, <1>4, <1>5, <1>6, <1>7 DEF CalmInv

(* An entry reaches its ttl, and the browser moves *)
LEMMA ExpireKeeps ==
  ASSUME TypeOK, CalmInv, NEW f \in Folders, Expire(f)
  PROVE  CalmInv'
  <1>1. /\ \A g \in Folders : cached'[g] \in {None, cached[g]}
        /\ UNCHANGED <<rowVars, mutationVars, listVars, browserVars, untold, calm>>
    BY DEF Expire, TypeOK
  <1>2. Apart'
    BY <1>1 DEF CalmInv, Apart, Busy
  <1>3. SeenInv'
    BY <1>1, SeenStays DEF CalmInv
  <1>4. CacheInv'
    BY <1>1, CacheStays DEF CalmInv, Doomed
  <1>5. FromInv'
    BY <1>1, FromStays DEF CalmInv, Doomed
  <1>6. ScreenInv'
    BY <1>1, ScreenStays DEF CalmInv
  <1> QED
    BY <1>2, <1>3, <1>4, <1>5, <1>6 DEF CalmInv

LEMMA BrowseKeeps ==
  ASSUME TypeOK, CalmInv,
         UNCHANGED <<rowVars, cached, mutationVars, listVars, shown, invalid, untold, calm>>
  PROVE  CalmInv'
  <1>1. Apart'
    BY DEF CalmInv, Apart, Busy
  <1>2. SeenInv'
    BY SeenStays DEF CalmInv
  <1>3. CacheInv'
    BY CacheStays DEF CalmInv, Doomed, TypeOK
  <1>4. FromInv'
    BY FromStays DEF CalmInv, Doomed
  <1>5. ScreenInv'
    BY ScreenStays DEF CalmInv
  <1> QED
    BY <1>1, <1>2, <1>3, <1>4, <1>5 DEF CalmInv

-----------------------------------------------------------------------------
LEMMA NextIInv ==
  ASSUME IInv, [Next]_vars
  PROVE  IInv'
  <1>1. TypeOK /\ TypeOK'
    BY NextTypeOK DEF IInv
  <1>2. calm' = calm
    BY DEF Next, MutationStep, ListStep, Request, Find, Write, Invalidate, OnSuccess, Fail,
           StartFetch, ListElsewhere, Start, Get, FindChildren, Set, Answer, FailList, Release,
           Expire, Open, Refetch, vars
  <1>3. ASSUME calm PROVE CalmInv'
    <2>1. CalmInv
      BY <1>3 DEF IInv
    <2>2. ASSUME NEW m \in Mutations,
                 \/ \E k \in Kinds, i \in Items, f \in Folders : Request(m, k, i, f)
                 \/ MutationStep(m)
          PROVE  CalmInv'
      BY <1>1, <1>3, <2>1, <2>2, RequestKeeps, FindKeeps, WriteKeeps, InvalidateKeeps,
         OnSuccessKeeps, FailKeeps DEF MutationStep
    <2>3. ASSUME NEW l \in Lists,
                 \/ \E f \in Folders : StartFetch(l, f) \/ ListElsewhere(l, f)
                 \/ ListStep(l)
          PROVE  CalmInv'
      BY <1>1, <1>3, <2>1, <2>3, StartFetchKeeps, ServeKeeps, AnswerKeeps
         DEF ListElsewhere, ListStep
    <2>4. ASSUME NEW f \in Folders, Expire(f) \/ Open(f) \/ Refetch(f) PROVE CalmInv'
      <3>1. CASE Expire(f)
        BY <1>1, <2>1, <3>1, ExpireKeeps
      <3>2. CASE Open(f) \/ Refetch(f)
        BY <1>1, <2>1, <3>2, BrowseKeeps DEF Open, Refetch
      <3> QED
        BY <2>4, <3>1, <3>2
    <2>5. CASE UNCHANGED vars
      BY <1>1, <2>1, <2>5, BrowseKeeps DEF vars
    <2> QED
      BY <2>2, <2>3, <2>4, <2>5 DEF Next
  <1> QED
    BY <1>1, <1>2, <1>3 DEF IInv

(* The inductive invariant holds in every behaviour *)
THEOREM Invariance == Spec => []IInv
  BY InitIInv, NextIInv, PTL DEF Spec

(* Every variable keeps its type, and a query waits for a listing of its    *)
(* own folder only.                                                         *)
THEOREM TypeCorrect == Spec => []TypeOK
  BY Invariance, PTL DEF IInv

(* Without mutations under way all entries are right: nothing is left that  *)
(* would delete a wrong one.                                                *)
LEMMA QuietIsRight == IInv => CacheIsRight /\ ScreenIsRight
  <1> SUFFICES ASSUME IInv, calm, ~Mutating
               PROVE  CacheIsRight /\ ScreenIsRight
    BY DEF CacheIsRight, ScreenIsRight
  <1>1. \A m \in Mutations : mpc[m] # "forget" /\ keys[m] = {}
    BY DEF Mutating, IInv, TypeOK
  <1> QED
    BY <1>1 DEF IInv, CalmInv, CacheInv, Doomed, ScreenInv, CacheIsRight, ScreenIsRight

(* getRoot, getChildren and invalidate: while no listing is served next to  *)
(* a mutation, what is cached is what is in the folder.                     *)
THEOREM CachesAreRight == Spec => []CacheIsRight
  BY Invariance, QuietIsRight, PTL

(* useFileList and the mutations of the web: under the same premise, what a *)
(* query shows is what is in the folder, or it is invalid.                  *)
THEOREM ScreensAreRight == Spec => []ScreenIsRight
  BY Invariance, QuietIsRight, PTL
=============================================================================
