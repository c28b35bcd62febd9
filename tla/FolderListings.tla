---------------------------- MODULE FolderListings ----------------------------
(***************************************************************************)
(* The listings of the drive: rows in the database, the cache-aside copy   *)
(* per folder in Redis (FolderService.getRoot, getChildren, invalidate of  *)
(* the api) and the queries of the browser over it (useFileList and the    *)
(* onSuccess of the mutations of the web).                                 *)
(*                                                                         *)
(* Every folder here stays where it is; an item is a file or a folder in   *)
(* one.  The two SELECTs of a listing are one step, for an item is in the  *)
(* result of one of them.                                                  *)
(***************************************************************************)
EXTENDS Naturals, FiniteSets

CONSTANTS
  Folders,
  Root,       \* the one every page has a query for
  Items,
  Mutations,  \* requests that change rows, served once each
  Lists,      \* listings being served at the same time
  None

ASSUME RootAssumption == Root \in Folders
ASSUME NoneAssumption ==
  /\ None \notin Lists
  /\ \A S \in SUBSET (Items \X BOOLEAN) : S # None

VARIABLES
  row,      \* "absent", "live" or, with deleted_at, "trashed"
  home,     \* folder_id or parent_id
  name,     \* one of two
  cached,   \* the entry in Redis
  kind, item, to, mpc,
  from,     \* the parent a mutation has read
  keys,     \* the entries it has to delete yet
  lpc, folder, seen,
  at,       \* the folder the browser is in
  shown,    \* data of its queries
  invalid,  \* those that are invalidated
  wanted,   \* those it is about to fetch
  fetch,    \* the listing whose answer counts for a query
  untold,   \* folders with a change that nobody was told of
  calm      \* in this behaviour all requests are this browser's, and no listing
            \* is served next to a mutation; otherwise the browser does nothing

rowVars      == <<row, home, name>>
mutationVars == <<kind, item, to, mpc, from, keys>>
listVars     == <<lpc, folder, seen>>
browserVars  == <<at, shown, invalid, wanted, fetch>>
vars == <<rowVars, cached, mutationVars, listVars, browserVars, untold, calm>>

Kinds == {"create", "upload", "rename", "move", "remove", "restore"}
Rows == SUBSET (Items \X BOOLEAN)

TypeOK ==
  /\ row \in [Items -> {"absent", "live", "trashed"}]
  /\ home \in [Items -> Folders]
  /\ name \in [Items -> BOOLEAN]
  /\ cached \in [Folders -> {None} \cup Rows]
  /\ kind \in [Mutations -> Kinds]
  /\ item \in [Mutations -> Items]
  /\ to \in [Mutations -> Folders]
  /\ mpc \in [Mutations -> {"new", "find", "write", "forget", "done"}]
  /\ from \in [Mutations -> Folders]
  /\ keys \in [Mutations -> SUBSET Folders]
  /\ \A m \in Mutations : keys[m] # {} => mpc[m] = "forget"
  /\ lpc \in [Lists -> {"idle", "get", "read", "set", "answer"}]
  /\ folder \in [Lists -> Folders]
  /\ seen \in [Lists -> Rows]
  /\ at \in Folders
  /\ shown \in [Folders -> {None} \cup Rows]
  /\ invalid \subseteq Folders
  /\ wanted \subseteq Folders
  /\ fetch \in [Folders -> Lists \cup {None}]
  /\ \A l \in Lists, f \in Folders : fetch[f] = l => lpc[l] # "idle" /\ folder[l] = f
  /\ untold \subseteq Folders
  /\ calm \in BOOLEAN

(* The rows of a folder *)
In(f) == {<<i, name[i]>> : i \in {j \in Items : row[j] = "live" /\ home[j] = f}}

(* The queries that are mounted *)
Active == {Root, at}

Init ==
  /\ row \in [Items -> {"absent", "live"}]
  /\ home = [i \in Items |-> Root]
  /\ name = [i \in Items |-> FALSE]
  /\ cached = [f \in Folders |-> None]
  /\ kind = [m \in Mutations |-> "create"]
  /\ item \in [Mutations -> Items]
  /\ to = [m \in Mutations |-> Root]
  /\ mpc = [m \in Mutations |-> "new"]
  /\ from = [m \in Mutations |-> Root]
  /\ keys = [m \in Mutations |-> {}]
  /\ lpc = [l \in Lists |-> "idle"]
  /\ folder = [l \in Lists |-> Root]
  /\ seen = [l \in Lists |-> {}]
  /\ at = Root
  /\ shown = [f \in Folders |-> None]
  /\ invalid = {}
  /\ calm \in BOOLEAN
  /\ wanted = IF calm THEN {Root} ELSE {}
  /\ fetch = [f \in Folders |-> None]
  /\ untold = {}

Mutating == \E m \in Mutations : mpc[m] \notin {"new", "done"}
Listing  == \E l \in Lists : lpc[l] # "idle"

-----------------------------------------------------------------------------
(* Mutations *)

Request(m, k, i, f) ==
  /\ mpc[m] = "new"
  /\ calm => ~Listing
  /\ k \in {"create", "upload", "move"} \/ f = Root
  /\ (row[i] = "absent") <=> (k \in {"create", "upload"})
  /\ kind' = [kind EXCEPT ![m] = k]
  /\ item' = [item EXCEPT ![m] = i]
  /\ to' = [to EXCEPT ![m] = f]
  /\ mpc' = [mpc EXCEPT ![m] = IF k \in {"move", "remove"} THEN "find" ELSE "write"]
  /\ UNCHANGED <<rowVars, cached, from, keys, listVars, browserVars, untold, calm>>

(* Mutant: what was left to delete is kept *)
EndLater(m) ==
  /\ mpc' = [mpc EXCEPT ![m] = "done"]
  /\ kind' = [kind EXCEPT ![m] = "create"]
  /\ to' = [to EXCEPT ![m] = Root]
  /\ from' = [from EXCEPT ![m] = Root]
  /\ UNCHANGED <<rowVars, item, keys>>

End(m) ==
  /\ mpc' = [mpc EXCEPT ![m] = "done"]
  /\ kind' = [kind EXCEPT ![m] = "create"]
  /\ to' = [to EXCEPT ![m] = Root]
  /\ from' = [from EXCEPT ![m] = Root]
  /\ keys' = [keys EXCEPT ![m] = {}]
  /\ UNCHANGED <<rowVars, item>>

(* Of a move or a removal: the parent is read before the row is written *)
Find(m) ==
  /\ mpc[m] = "find"
  /\ IF row[item[m]] = "live"
     THEN /\ from' = [from EXCEPT ![m] = home[item[m]]]
          /\ mpc' = [mpc EXCEPT ![m] = "write"]
          /\ UNCHANGED <<rowVars, kind, item, to, keys, untold>>
     ELSE End(m) /\ UNCHANGED untold
  /\ UNCHANGED <<cached, listVars, browserVars, calm>>

(* Mutant: the parent a folder is moved away from keeps its entry *)
StaleKeysOfTarget(m) ==
  CASE kind[m] \in {"create", "move"} -> {to[m]}
    [] kind[m] = "rename"             -> {home[item[m]]}
    [] kind[m] = "remove"             -> {from[m]}
    [] OTHER                          -> {}

(* The entries a mutation deletes; complete of an upload and restore from   *)
(* the trash delete none.                                                   *)
StaleKeys(m) ==
  CASE kind[m] = "create"              -> {to[m]}
    [] kind[m] = "rename"              -> {home[item[m]]}
    [] kind[m] = "move"                -> {from[m], to[m]}
    [] kind[m] = "remove"              -> {from[m]}
    [] kind[m] \in {"upload", "restore"} -> {}

(* Where the item of an upload or of a restore turns up *)
Changed(m) == {IF kind[m] = "upload" THEN to[m] ELSE home[item[m]]}

Applies(m) ==
  row[item[m]] = CASE kind[m] \in {"create", "upload"} -> "absent"
                   [] kind[m] = "restore"              -> "trashed"
                   [] OTHER                            -> "live"

Write(m) ==
  /\ mpc[m] = "write"
  /\ IF Applies(m)
     THEN /\ row' = [row EXCEPT ![item[m]] = IF kind[m] = "remove" THEN "trashed" ELSE "live"]
          /\ home' = [home EXCEPT ![item[m]] =
               IF kind[m] \in {"create", "upload", "move"} THEN to[m] ELSE @]
          /\ name' = [name EXCEPT ![item[m]] = IF kind[m] = "rename" THEN ~@ ELSE @]
          /\ keys' = [keys EXCEPT ![m] = StaleKeys(m)]
          /\ untold' = untold \cup (IF kind[m] \in {"upload", "restore"} THEN Changed(m) ELSE {})
          /\ mpc' = [mpc EXCEPT ![m] = "forget"]
          /\ UNCHANGED <<kind, item, to, from>>
     ELSE End(m) /\ UNCHANGED untold
  /\ UNCHANGED <<cached, listVars, browserVars, calm>>

(* FolderService.invalidate; those of a move are sent together *)
Invalidate(m, f) ==
  /\ mpc[m] = "forget"
  /\ f \in keys[m]
  /\ cached' = [cached EXCEPT ![f] = None]
  /\ keys' = [keys EXCEPT ![m] = @ \ {f}]
  /\ UNCHANGED <<rowVars, kind, item, to, mpc, from, listVars, browserVars, untold, calm>>

(* Mutant: of a folder that is moved, only the target's query is refetched *)
QueriesOfTarget(m) == IF kind[m] = "move" THEN {to[m]} ELSE Folders

(* Every query of the listings; an upload leaves the root's *)
QueriesOf(m) == IF kind[m] = "upload" THEN Folders \ {Root} ELSE Folders

(* invalidateQueries: what is mounted is fetched again, and after a restore *)
(* everything that has been fetched.                                        *)
OnSuccess(m) ==
  /\ mpc[m] = "forget"
  /\ keys[m] = {}
  /\ End(m)
  /\ LET Q == IF calm THEN QueriesOf(m) ELSE {}
         R == IF kind[m] = "restore" THEN {f \in Folders : shown[f] # None} ELSE {}
     IN  /\ invalid' = invalid \cup Q
         /\ wanted' = wanted \cup (Q \cap (R \cup Active))
  /\ UNCHANGED <<cached, listVars, at, shown, fetch, untold, calm>>

(* An error, a crash of the api or a lost answer *)
Fail(m) ==
  /\ mpc[m] \in {"find", "write", "forget"}
  /\ untold' = IF mpc[m] = "forget" THEN Folders ELSE untold
  /\ End(m)
  /\ UNCHANGED <<cached, listVars, browserVars, calm>>

-----------------------------------------------------------------------------
(* Listings *)

Start(l, f) ==
  /\ lpc[l] = "idle"
  /\ lpc' = [lpc EXCEPT ![l] = "get"]
  /\ folder' = [folder EXCEPT ![l] = f]
  /\ UNCHANGED <<rowVars, cached, mutationVars, seen, untold, calm>>

(* A query of the browser *)
StartFetch(l, f) ==
  /\ f \in wanted
  /\ ~Mutating
  /\ Start(l, f)
  /\ wanted' = wanted \ {f}
  /\ fetch' = [fetch EXCEPT ![f] = l]
  /\ UNCHANGED <<at, shown, invalid>>

(* One of any browser of the user's *)
ListElsewhere(l, f) ==
  /\ ~calm
  /\ Start(l, f)
  /\ UNCHANGED browserVars

Get(l) ==
  /\ lpc[l] = "get"
  /\ IF cached[folder[l]] # None
     THEN /\ seen' = [seen EXCEPT ![l] = cached[folder[l]]]
          /\ lpc' = [lpc EXCEPT ![l] = "answer"]
     ELSE /\ lpc' = [lpc EXCEPT ![l] = "read"]
          /\ seen' = seen
  /\ UNCHANGED <<rowVars, cached, mutationVars, folder, browserVars, untold, calm>>

FindChildren(l) ==
  /\ lpc[l] = "read"
  /\ seen' = [seen EXCEPT ![l] = In(folder[l])]
  /\ lpc' = [lpc EXCEPT ![l] = "set"]
  /\ UNCHANGED <<rowVars, cached, mutationVars, folder, browserVars, untold, calm>>

Set(l) ==
  /\ lpc[l] = "set"
  /\ cached' = [cached EXCEPT ![folder[l]] = seen[l]]
  /\ lpc' = [lpc EXCEPT ![l] = "answer"]
  /\ UNCHANGED <<rowVars, mutationVars, folder, seen, browserVars, untold, calm>>

Release(l) ==
  /\ lpc' = [lpc EXCEPT ![l] = "idle"]
  /\ seen' = [seen EXCEPT ![l] = {}]
  /\ folder' = [folder EXCEPT ![l] = Root]
  /\ fetch' = [f \in Folders |-> IF fetch[f] = l THEN None ELSE fetch[f]]
  /\ UNCHANGED <<rowVars, cached, mutationVars, at, wanted, untold, calm>>

(* It counts if the query still waits for this one *)
Answer(l) ==
  /\ lpc[l] = "answer"
  /\ LET f == folder[l]
     IN  IF fetch[f] = l
         THEN /\ shown' = [shown EXCEPT ![f] = seen[l]]
              /\ invalid' = invalid \ {f}
         ELSE UNCHANGED <<shown, invalid>>
  /\ Release(l)

FailList(l) ==
  /\ lpc[l] # "idle"
  /\ Release(l)
  /\ UNCHANGED <<shown, invalid>>

(* Mutant: a read keeps an entry *)
ExpireUnread(f) ==
  /\ cached[f] # None
  /\ \A l \in Lists : lpc[l] = "idle" \/ folder[l] # f
  /\ cached' = [cached EXCEPT ![f] = None]
  /\ UNCHANGED <<rowVars, mutationVars, listVars, browserVars, untold, calm>>

(* The ttl of 60 seconds *)
Expire(f) ==
  /\ cached[f] # None
  /\ cached' = [cached EXCEPT ![f] = None]
  /\ UNCHANGED <<rowVars, mutationVars, listVars, browserVars, untold, calm>>

-----------------------------------------------------------------------------
(* The browser *)

(* Leaving a folder cancels its query; one that has no data, or data that   *)
(* is invalidated, is fetched when it is mounted.                           *)
Open(f) ==
  /\ calm
  /\ f # at
  /\ at' = f
  /\ LET left == {at} \ {Root, f}
     IN  /\ fetch' = [g \in Folders |-> IF g \in left THEN None ELSE fetch[g]]
         /\ wanted' = (wanted \ left) \cup
              {g \in {f} : (shown[g] = None \/ g \in invalid) /\ fetch[g] = None}
  /\ UNCHANGED <<rowVars, cached, mutationVars, listVars, shown, invalid, untold, calm>>

(* The window gets the focus again, or "retry" is pressed *)
Refetch(f) ==
  /\ calm
  /\ f \in Active \ wanted
  /\ fetch[f] = None
  /\ wanted' = wanted \cup {f}
  /\ UNCHANGED <<rowVars, cached, mutationVars, listVars, at, shown, invalid, fetch, untold,
                 calm>>

-----------------------------------------------------------------------------
MutationStep(m) ==
  \/ Find(m) \/ Write(m) \/ OnSuccess(m) \/ Fail(m)
  \/ \E f \in Folders : Invalidate(m, f)

ListStep(l) == Get(l) \/ FindChildren(l) \/ Set(l) \/ Answer(l) \/ FailList(l)

Next ==
  \/ \E m \in Mutations :
       \/ \E k \in Kinds, i \in Items, f \in Folders : Request(m, k, i, f)
       \/ MutationStep(m)
  \/ \E l \in Lists :
       \/ \E f \in Folders : StartFetch(l, f) \/ ListElsewhere(l, f)
       \/ ListStep(l)
  \/ \E f \in Folders : Expire(f) \/ Open(f) \/ Refetch(f)

Spec == Init /\ [][Next]_vars

(* Requests end, one way or the other, and so does the life of an entry *)
Fairness ==
  /\ \A m \in Mutations : WF_vars(MutationStep(m))
  /\ \A l \in Lists : WF_vars(ListStep(l))
  /\ \A f \in Folders : WF_vars(Expire(f))

FairSpec == Spec /\ Fairness

-----------------------------------------------------------------------------
(* Properties *)

(* While no listing is served next to a mutation: when no mutation is under *)
(* way, what the cache has of a folder is what is in it, but for those      *)
(* changed by an upload, by a restore or by a mutation that failed halfway. *)
CacheIsRight ==
  calm /\ ~Mutating => \A f \in Folders \ untold : cached[f] \in {None, In(f)}

(* The same of the screen: what a query has is what is in the folder, or    *)
(* the query is invalid, and fetched when it is mounted.                    *)
ScreenIsRight ==
  calm /\ ~Mutating =>
    \A f \in Folders \ (untold \cup invalid) : shown[f] \in {None, In(f)}

(* However listings and mutations overlap and fail, and whatever deletes no *)
(* entry: after the last change, an entry that is not right goes away.      *)
CacheGetsRight == \A f \in Folders : <>[](cached[f] \in {None, In(f)})
=============================================================================
