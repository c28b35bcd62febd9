------------------------------ MODULE FolderTree ------------------------------
(***************************************************************************)
(* The folders and files of one user: FolderService, FileService and       *)
(* TrashService of the api.  A call is a sequence of statements and other  *)
(* calls are served between two of them; none runs in a transaction, and   *)
(* one statement is one step.                                              *)
(*                                                                         *)
(* A file is the name of its row and of its object in MinIO.  Names,       *)
(* times and the cache of the listings are left out.  Root is the folder   *)
(* NULL.                                                                   *)
(***************************************************************************)
EXTENDS Naturals, FiniteSets

CONSTANTS
  Folders, Files,  \* as many as the behaviour has; an id is not used again
  Root,
  Calls,           \* the calls the api serves at the same time
  Idle,            \* no item
  MaxDepth         \* MAX_FOLDER_DEPTH

Items == Folders \cup Files

ASSUME ItemAssumption ==
  /\ Folders \cap Files = {}
  /\ Root \notin Items
  /\ Idle \notin Items \cup {Root}
ASSUME DepthAssumption == MaxDepth \in Nat

VARIABLES
  state,    \* of a row: "trash" if soft_deleted_at is set
  parent,   \* parent_id of a folder, folder_id of a file
  objects,  \* the objects in MinIO
  kind,     \* what a call is
  pc,       \* where it is
  item,     \* the item it is about
  to,       \* its target folder
  keys,     \* the objects it has made or is about to remove
  serial,   \* in this behaviour no call starts while another is under way
  lost      \* history: the copies whose INSERT took effect, its answer lost

callVars == <<kind, pc, item, to, keys>>
vars == <<state, parent, objects, callVars, serial, lost>>

Kinds == {"idle", "create", "upload", "move", "copy", "remove", "restore", "destroy"}
Steps == {"idle", "find", "target", "walk", "copy", "parent", "deleted", "write",
          "undo", "objects"}

Exists(i) == state[i] \in {"live", "trash"}

TypeOK ==
  /\ state \in [Items -> {"none", "live", "trash", "gone"}]
  /\ parent \in [Items -> Folders \cup {Root}]
  /\ \A i \in Items : Exists(i) => parent[i] = Root \/ Exists(parent[i])
  /\ objects \in SUBSET Files
  /\ kind \in [Calls -> Kinds]
  /\ pc \in [Calls -> Steps]
  /\ item \in [Calls -> Items \cup {Idle}]
  /\ \A c \in Calls :
       kind[c] \in {"move", "copy", "remove", "restore", "destroy"} => item[c] \in Items
  /\ to \in [Calls -> Folders \cup {Root}]
  /\ keys \in [Calls -> SUBSET Files]
  /\ serial \in BOOLEAN
  /\ lost \in SUBSET Files

(* Some of the ids have been used before *)
Init ==
  /\ state \in [Items -> {"none", "gone"}]
  /\ parent = [i \in Items |-> Root]
  /\ objects = {}
  /\ kind = [c \in Calls |-> "idle"]
  /\ pc = [c \in Calls |-> "idle"]
  /\ item = [c \in Calls |-> Idle]
  /\ to = [c \in Calls |-> Root]
  /\ keys = [c \in Calls |-> {}]
  /\ serial \in BOOLEAN
  /\ lost = {}

-----------------------------------------------------------------------------
(* The tree *)

Closed(par, S) == \A i \in Items : par[i] \in S => i \in S

(* What WITH RECURSIVE subtree reaches from x: the rows below it *)
Below(par, x) ==
  {i \in Items : \A S \in SUBSET (Items \cup {Root}) : x \in S /\ Closed(par, S) => i \in S}
Subtree(x) == Below(parent, x)

(* The query does not end when x is below itself *)
OnCycle(x) == parent[x] \in Subtree(x)

(* Of a folder: itself and those above it *)
Ancestors(x) == {i \in Folders : x \in Subtree(i)}

(* The walk from x up to the root ends *)
Rooted(x) == x \in Subtree(Root)

IsLive(p) == p = Root \/ state[p] = "live"
HasRow(p) == p \in {Root} \cup {d \in Folders : Exists(d)}

-----------------------------------------------------------------------------
(* A call starts *)

UnderWay(c) == pc[c] # "idle"

(* Minutes may pass between the check of an upload's folder and its insert, *)
(* so an upload is under way next to any other call.                        *)
MayStart(k) ==
  serial => k = "upload" \/ \A d \in Calls : UnderWay(d) => kind[d] = "upload"

(* A client names what it has been told of: a row that exists *)
Start(c, k, i, p, first) ==
  /\ pc[c] = "idle"
  /\ HasRow(p)
  /\ MayStart(k)
  /\ kind' = [kind EXCEPT ![c] = k]
  /\ pc' = [pc EXCEPT ![c] = first]
  /\ item' = [item EXCEPT ![c] = i]
  /\ to' = [to EXCEPT ![c] = p]
  /\ UNCHANGED <<state, parent, lost>>

CreateFolder(c, p) ==
  /\ Start(c, "create", Idle, p, "target")
  /\ UNCHANGED <<objects, keys>>

Unused(f) == state[f] = "none" /\ f \notin objects

(* The client puts the object; the rest of the presigned upload is in       *)
(* UploadSession.                                                           *)
Upload(c, f, p) ==
  /\ Unused(f)
  /\ Start(c, "upload", Idle, p, "target")
  /\ objects' = objects \cup {f}
  /\ keys' = [keys EXCEPT ![c] = {f}]

Move(c, i, p) ==
  /\ Exists(i)
  /\ Start(c, "move", i, p, "find")
  /\ UNCHANGED <<objects, keys>>

Copy(c, f, p) ==
  /\ Exists(f)
  /\ Start(c, "copy", f, p, "find")
  /\ UNCHANGED <<objects, keys>>

Remove(c, i) ==
  /\ Exists(i)
  /\ Start(c, "remove", i, Root, "find")
  /\ UNCHANGED <<objects, keys>>

Restore(c, i) ==
  /\ Exists(i)
  /\ Start(c, "restore", i, Root, "parent")
  /\ UNCHANGED <<objects, keys>>

PermanentDelete(c, i) ==
  /\ Exists(i)
  /\ Start(c, "destroy", i, Root, "parent")
  /\ UNCHANGED <<objects, keys>>

-----------------------------------------------------------------------------
(* The reads *)

Goto(c, next) == pc' = [pc EXCEPT ![c] = next]

End(c) ==
  /\ Goto(c, "idle")
  /\ kind' = [kind EXCEPT ![c] = "idle"]
  /\ item' = [item EXCEPT ![c] = Idle]
  /\ to' = [to EXCEPT ![c] = Root]
  /\ keys' = [keys EXCEPT ![c] = {}]

GoOn(c, next) == Goto(c, next) /\ UNCHANGED <<kind, item, to, keys>>

rows == <<state, parent, objects, lost>>

(* findByIdAndUser of the item *)
FindItem(c) ==
  /\ pc[c] = "find"
  /\ IF state[item[c]] = "live"
     THEN GoOn(c, IF kind[c] = "remove" THEN "write" ELSE "target")
     ELSE End(c)
  /\ UNCHANGED rows

(* findByIdAndUser or assertBelongsToUser of the target folder *)
FindTarget(c) ==
  /\ pc[c] = "target"
  /\ IF ~IsLive(to[c]) THEN End(c)
     ELSE GoOn(c, IF kind[c] = "copy" THEN "copy"
                  ELSE IF to[c] # Root /\ (kind[c] = "create" \/ item[c] \in Folders)
                  THEN "walk" ELSE "write")
  /\ UNCHANGED rows

(* Mutant: the new folder itself is not counted *)
CheckTargetDepth(c) ==
  /\ pc[c] = "walk"
  /\ kind[c] = "create"
  /\ Rooted(to[c])
  /\ IF Cardinality(Ancestors(to[c])) - 1 <= MaxDepth THEN GoOn(c, "write") ELSE End(c)
  /\ UNCHANGED rows

(* getDepth counts the folders above the target *)
CheckDepth(c) ==
  /\ pc[c] = "walk"
  /\ kind[c] = "create"
  /\ Rooted(to[c])
  /\ IF Cardinality(Ancestors(to[c])) - 1 < MaxDepth THEN GoOn(c, "write") ELSE End(c)
  /\ UNCHANGED rows

(* Mutant: the target is compared with the folder only *)
CheckSameFolder(c) ==
  /\ pc[c] = "walk"
  /\ kind[c] = "move"
  /\ IF item[c] = to[c] THEN End(c) ELSE Rooted(to[c]) /\ GoOn(c, "write")
  /\ UNCHANGED rows

(* isDescendant: found on the way up, or the root is reached *)
CheckDescendant(c) ==
  /\ pc[c] = "walk"
  /\ kind[c] = "move"
  /\ IF item[c] \in Ancestors(to[c]) THEN End(c) ELSE Rooted(to[c]) /\ GoOn(c, "write")
  /\ UNCHANGED rows

(* isParentInTrash; a file is destroyed without looking for it in the trash *)
CheckParent(c) ==
  /\ pc[c] = "parent"
  /\ LET p == parent[item[c]]
     IN  IF Exists(item[c]) /\ p # Root /\ state[p] = "trash" THEN End(c)
         ELSE GoOn(c, IF kind[c] = "destroy" /\ item[c] \in Files THEN "write"
                                                                 ELSE "deleted")
  /\ UNCHANGED rows

(* Mutant: the item is looked up, in the trash or not *)
FindExisting(c) ==
  /\ pc[c] = "deleted"
  /\ IF Exists(item[c]) THEN GoOn(c, "write") ELSE End(c)
  /\ UNCHANGED rows

(* findDeletedFile, findDeletedFolder *)
FindDeleted(c) ==
  /\ pc[c] = "deleted"
  /\ IF state[item[c]] = "trash" THEN GoOn(c, "write") ELSE End(c)
  /\ UNCHANGED rows

(* A new key, which nobody else knows *)
CopyObject(c, f) ==
  /\ pc[c] = "copy"
  /\ Unused(f)
  /\ IF item[c] \in objects
     THEN /\ objects' = objects \cup {f}
          /\ keys' = [keys EXCEPT ![c] = {f}]
          /\ Goto(c, "write")
          /\ UNCHANGED <<kind, item, to>>
     ELSE End(c) /\ UNCHANGED objects
  /\ UNCHANGED <<state, parent, lost>>

-----------------------------------------------------------------------------
(* The writes *)

Writes(c, kinds) == pc[c] = "write" /\ kind[c] \in kinds

Put(i, p) ==
  /\ state' = [state EXCEPT ![i] = "live"]
  /\ parent' = [parent EXCEPT ![i] = p]

InsertFolder(c, f) ==
  /\ Writes(c, {"create"})
  /\ state[f] = "none"
  /\ IF HasRow(to[c]) THEN Put(f, to[c]) ELSE UNCHANGED <<state, parent>>
  /\ End(c)
  /\ UNCHANGED <<objects, lost>>

(* The foreign key fails when the folder has been destroyed.  An upload's   *)
(* session is gone with the folder then, and its object stays.              *)
InsertFile(c, f) ==
  /\ Writes(c, {"upload", "copy"})
  /\ f \in keys[c]
  /\ IF HasRow(to[c]) THEN Put(f, to[c])
     ELSE kind[c] = "upload" /\ UNCHANGED <<state, parent>>
  /\ End(c)
  /\ UNCHANGED <<objects, lost>>

(* The insert of a copy throws: the foreign key, another error, or an       *)
(* answer that is lost when the row is there.                               *)
CopyThrows(c, f) ==
  /\ Writes(c, {"copy"})
  /\ f \in keys[c]
  /\ \/ UNCHANGED <<state, parent, lost>>
     \/ HasRow(to[c]) /\ Put(f, to[c]) /\ lost' = lost \cup {f}
  /\ GoOn(c, "undo")
  /\ UNCHANGED objects

(* The catch takes the new object away, whatever has been thrown *)
UndoCopy(c) ==
  /\ pc[c] = "undo"
  /\ objects' = objects \ keys[c]
  /\ End(c)
  /\ UNCHANGED <<state, parent, lost>>

(* The update looks at soft_deleted_at of the item once more, not at the    *)
(* target's.                                                                *)
UpdateParent(c) ==
  /\ Writes(c, {"move"})
  /\ parent' = IF state[item[c]] = "live" /\ HasRow(to[c])
               THEN [parent EXCEPT ![item[c]] = to[c]] ELSE parent
  /\ End(c)
  /\ UNCHANGED <<state, objects, lost>>

Rows(x) == {i \in Subtree(x) : Exists(i)}

(* Mutant: only the folder itself and what is in it *)
MarkChildren(x, s) ==
  state' = [i \in Items |-> IF Exists(i) /\ (i = x \/ parent[i] = x) THEN s ELSE state[i]]

Mark(x, s) ==
  LET marked == Rows(x)
  IN  state' = [i \in Items |-> IF i \in marked THEN s ELSE state[i]]

(* softDeleteCascade of a folder; a file is only updated while it is live *)
SoftDelete(c) ==
  /\ Writes(c, {"remove"})
  /\ ~OnCycle(item[c])
  /\ IF item[c] \in Folders \/ state[item[c]] = "live"
     THEN Mark(item[c], "trash") ELSE UNCHANGED state
  /\ End(c)
  /\ UNCHANGED <<parent, objects, lost>>

(* restoreFile, restoreFolder *)
Undelete(c) ==
  /\ Writes(c, {"restore"})
  /\ ~OnCycle(item[c])
  /\ Mark(item[c], "live")
  /\ End(c)
  /\ UNCHANGED <<parent, objects, lost>>

(* Mutant: the objects first, and the rows when they are gone (the order    *)
(* that the phase 4 design documents in 3.5).                               *)
DeleteObjectsFirst(c) ==
  /\ Writes(c, {"destroy"})
  /\ ~OnCycle(item[c])
  /\ objects' = objects \ Rows(item[c])
  /\ \/ Mark(item[c], "gone") /\ End(c)
     \/ UNCHANGED state /\ End(c)
  /\ UNCHANGED <<parent, lost>>

(* permanentDeleteFile, permanentDeleteFolderTree *)
DeleteRows(c) ==
  /\ Writes(c, {"destroy"})
  /\ ~OnCycle(item[c])
  /\ Mark(item[c], "gone")
  /\ keys' = [keys EXCEPT ![c] = Rows(item[c]) \cap Files]
  /\ Goto(c, "objects")
  /\ UNCHANGED <<parent, objects, lost, kind, item, to>>

RemoveObjects(c) ==
  /\ pc[c] = "objects"
  /\ objects' = objects \ keys[c]
  /\ End(c)
  /\ UNCHANGED <<state, parent, lost>>

(* An error, or a crash *)
Fail(c) ==
  /\ UnderWay(c)
  /\ End(c)
  /\ UNCHANGED rows

-----------------------------------------------------------------------------
Begin(c) ==
  \/ \E p \in Folders \cup {Root} :
       \/ CreateFolder(c, p)
       \/ \E f \in Files : Upload(c, f, p) \/ Copy(c, f, p)
       \/ \E i \in Items : Move(c, i, p)
  \/ \E i \in Items : Remove(c, i) \/ Restore(c, i) \/ PermanentDelete(c, i)

Read(c) ==
  \/ FindItem(c)
  \/ FindTarget(c)
  \/ CheckDepth(c)
  \/ CheckDescendant(c)
  \/ CheckParent(c)
  \/ FindDeleted(c)
  \/ \E f \in Files : CopyObject(c, f)

Write(c) ==
  \/ \E f \in Folders : InsertFolder(c, f)
  \/ \E f \in Files : InsertFile(c, f) \/ CopyThrows(c, f)
  \/ UndoCopy(c)
  \/ UpdateParent(c)
  \/ SoftDelete(c)
  \/ Undelete(c)
  \/ DeleteRows(c)
  \/ RemoveObjects(c)

Next ==
  /\ UNCHANGED serial
  /\ \E c \in Calls : Begin(c) \/ Read(c) \/ Write(c) \/ Fail(c)

Spec == Init /\ [][Next]_vars

-----------------------------------------------------------------------------
(* Properties *)

(* However the calls overlap and fail: a file that is listed, or in the     *)
(* trash, has its content, but for a copy whose INSERT took effect and      *)
(* whose answer was lost: its object is taken away, and its row stays.      *)
RowHasObject == \A f \in Files : Exists(f) /\ f \notin lost => f \in objects

(* While the calls do not overlap, every row is below the root: a folder is *)
(* never moved below itself (the drive screen: no cycles).                  *)
NoCycle == serial => \A i \in Items : Exists(i) => Rooted(i)

(* While the calls do not overlap, a live folder can be reached: what is    *)
(* above it is not in the trash.                                            *)
LiveFoldersVisible ==
  serial => \A f \in Folders : state[f] = "live" => IsLive(parent[f])

(* While the calls do not overlap, a folder that goes for good was in the   *)
(* trash, and so was what it takes with it.                                 *)
OnlyTrashedFoldersGo ==
  [][serial => \A f \in Folders : state[f] # "gone" /\ state'[f] = "gone" => state[f] = "trash"]_vars

(* While the calls do not overlap, a folder is not created below more than  *)
(* MaxDepth others, whatever moves have made of the tree.  Only create      *)
(* looks at the depth, so this is all that holds of it.                     *)
CreatedWithinDepth ==
  [][serial => \A f \in Folders : state[f] = "none" /\ state'[f] = "live" =>
                 Cardinality({d \in Folders : f \in Below(parent', d)}) - 1 <= MaxDepth]_vars

(* The design of the trash: permanent deletion is for what is in the trash. *)
(* The code does not look for a file there.                                 *)
OnlyTrashedFilesGo ==
  [][\A f \in Files : state[f] # "gone" /\ state'[f] = "gone" => state[f] = "trash"]_vars
=============================================================================
