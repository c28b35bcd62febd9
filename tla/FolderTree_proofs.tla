-------------------------- MODULE FolderTree_proofs --------------------------
(***************************************************************************)
(* Safety of FolderTree for any number of folders, files and calls.  With  *)
(* overlap and failures: a row has its object.  While the calls do not     *)
(* overlap: the folders are a tree below the root, the live ones can be    *)
(* reached, only what is in the trash goes for good, and no folder is made *)
(* too deep.  The tree alone needs less: that no two moves of folders      *)
(* overlap.                                                                *)
(***************************************************************************)
EXTENDS FolderTree, FiniteSetTheorems, TLAPS

Nodes == Items \cup {Root}

-----------------------------------------------------------------------------
(* Facts of subtrees: the smallest closed sets *)

(* A closed set that contains x contains what is below it *)
LEMMA BelowLeast ==
  ASSUME NEW par, NEW x, NEW S \in SUBSET Nodes, x \in S, Closed(par, S)
  PROVE  Below(par, x) \subseteq S
  BY DEF Below, Nodes

(* An item is below itself *)
LEMMA BelowSelf ==
  ASSUME NEW par, NEW x \in Items
  PROVE  x \in Below(par, x)
  BY DEF Below

(* What is right below something below x is below x *)
LEMMA BelowDown ==
  ASSUME NEW par, NEW x, NEW i \in Items, par[i] \in Below(par, x) \/ par[i] = x
  PROVE  i \in Below(par, x)
  BY DEF Below, Closed

(* What is above something below x is below x, too, up to x *)
LEMMA BelowUp ==
  ASSUME NEW par, NEW x \in Items, NEW i \in Below(par, x), i # x
  PROVE  par[i] \in Below(par, x)
  <1> DEFINE T == {j \in Below(par, x) : j = x \/ par[j] \in Below(par, x)}
  <1>1. T \in SUBSET Nodes
    BY DEF Below, Nodes
  <1>2. x \in T
    BY BelowSelf
  <1>3. Closed(par, T)
    <2> SUFFICES ASSUME NEW j \in Items, par[j] \in T PROVE j \in T
      BY DEF Closed
    <2>1. j \in Below(par, x)
      BY BelowDown
    <2> QED
      BY <2>1
  <1>4. Below(par, x) \subseteq T
    <2> HIDE DEF T
    <2> QED
      BY <1>1, <1>2, <1>3, BelowLeast
  <1> QED
    BY <1>4

(* Nothing is below what is nobody's parent *)
LEMMA BelowLeaf ==
  ASSUME NEW par, NEW x \in Items, \A i \in Items : par[i] # x
  PROVE  Below(par, x) = {x}
  <1>1. Closed(par, {x})
    BY DEF Closed
  <1>2. Below(par, x) \subseteq {x}
    BY <1>1, BelowLeast DEF Nodes
  <1> QED
    BY <1>2, BelowSelf

(* A row that is put below one outside its own subtree takes its subtree    *)
(* along, and leaves the rest where it was.                                 *)
LEMMA Reparent ==
  ASSUME NEW par \in [Items -> Folders \cup {Root}],
         NEW x \in Items, NEW p \in Folders \cup {Root},
         p = Root \/ p \in Below(par, Root),
         p \notin Below(par, x),
         NEW i \in Items, i \in Below(par, Root) \/ i = x
  PROVE  i \in Below([par EXCEPT ![x] = p], Root)
  <1> DEFINE new == [par EXCEPT ![x] = p]
  <1> SUFFICES ASSUME NEW S \in SUBSET (Items \cup {Root}), Root \in S, Closed(new, S)
               PROVE  i \in S
    BY DEF Below
  <1>1. \A j \in Items : j # x /\ par[j] \in S => j \in S
    BY DEF Closed
  <1>2. p \in S => x \in S
    BY DEF Closed
  <1> DEFINE T1 == S \cup Below(par, x)
             T2 == S \cup ((Items \cup {Root}) \ Below(par, x))
  <1>3. T1 \in SUBSET Nodes /\ T2 \in SUBSET Nodes
    BY DEF Nodes, Below
  <1>4. Closed(par, T1)
    <2> SUFFICES ASSUME NEW j \in Items, par[j] \in T1 PROVE j \in T1
      BY DEF Closed
    <2>1. CASE par[j] \in Below(par, x)
      BY <2>1, BelowDown
    <2>2. CASE par[j] \in S
      BY <2>2, <1>1, BelowSelf
    <2> QED
      BY <2>1, <2>2
  <1>5. Below(par, Root) \subseteq T1
    <2> HIDE DEF T1
    <2>1. Root \in T1
      BY DEF T1
    <2> QED
      BY <1>3, <1>4, <2>1, BelowLeast
  <1>6. x \in S
    BY <1>2, <1>5
  <1>7. Closed(par, T2)
    <2> SUFFICES ASSUME NEW j \in Items, par[j] \in T2, j \in Below(par, x), j # x
                 PROVE  j \in S
      BY <1>6 DEF Closed
    <2>1. par[j] \in Below(par, x)
      BY BelowUp
    <2> QED
      BY <2>1, <1>1
  <1>8. Below(par, x) \subseteq T2
    <2> HIDE DEF T2
    <2>1. x \in T2
      BY <1>6 DEF T2
    <2> QED
      BY <1>3, <1>7, <2>1, BelowLeast
  <1> QED
    BY <1>5, <1>6, <1>8

(* A new row without children makes no other row part of a subtree *)
LEMMA LeafPut ==
  ASSUME NEW par \in [Items -> Folders \cup {Root}],
         NEW f \in Items, NEW p, \A i \in Items : par[i] # f,
         NEW x \in Items, NEW y, y # f,
         y \in Below([par EXCEPT ![f] = p], x)
  PROVE  y \in Below(par, x)
  <1> DEFINE T == Below(par, x) \cup {f}
             new == [par EXCEPT ![f] = p]
  <1>1. T \in SUBSET Nodes
    BY DEF Below, Nodes
  <1>2. x \in T
    BY BelowSelf
  <1>3. Closed(new, T)
    <2> SUFFICES ASSUME NEW j \in Items, new[j] \in T, j # f PROVE j \in T
      BY DEF Closed
    <2>1. par[j] \in Below(par, x)
      OBVIOUS
    <2> QED
      BY <2>1, BelowDown
  <1>4. Below(new, x) \subseteq T
    <2> HIDE DEF T, new
    <2> QED
      BY <1>1, <1>2, <1>3, BelowLeast
  <1> QED
    BY <1>4

-----------------------------------------------------------------------------
(* However the calls overlap and fail *)

NewKeys == {"upload", "copy"}

(* The objects a call has made have no row yet, and nobody else knows them, *)
(* but for a copy that takes its object away: it may have the row that it   *)
(* was not told of.  Those a deletion is about to remove have no row any    *)
(* more.                                                                    *)
KeysInv ==
  \A c \in Calls :
    /\ pc[c] = "idle" => kind[c] = "idle" /\ keys[c] = {}
    /\ pc[c] = "objects" => kind[c] = "destroy"
    /\ pc[c] \in {"copy", "undo"} => kind[c] = "copy"
    /\ kind[c] \in NewKeys => \A f \in keys[c] :
         (state[f] = "none" /\ f \in objects) \/ (pc[c] = "undo" /\ f \in lost)
    /\ kind[c] = "destroy" => \A f \in keys[c] : state[f] = "gone"
    /\ \A d \in Calls :
         kind[c] \in NewKeys /\ kind[d] \in NewKeys /\ keys[c] \cap keys[d] # {} => c = d

LostHaveRows == \A f \in lost : state[f] # "none"

NewIsLeaf == \A i \in Items : parent[i] = Root \/ state[parent[i]] # "none"

IInv ==
  /\ TypeOK
  /\ KeysInv
  /\ LostHaveRows
  /\ NewIsLeaf
  /\ RowHasObject

USE ItemAssumption
    DEF Items, Kinds, Steps, Exists, NewKeys, UnderWay, Goto, GoOn, End, rows, HasRow

(* There is nothing at first *)
LEMMA InitIInv == Init => IInv
  BY DEF Init, IInv, TypeOK, KeysInv, LostHaveRows, NewIsLeaf, RowHasObject

(* A row that goes takes along what is below it *)
LEMMA MarkKeepsTree ==
  ASSUME TypeOK, NewIsLeaf, NEW x \in Items, NEW s \in {"live", "trash", "gone"},
         Mark(x, s), parent' = parent
  PROVE  /\ state' \in [Items -> {"none", "live", "trash", "gone"}]
         /\ \A i \in Items : Exists(i)' => parent'[i] = Root \/ Exists(parent[i])'
         /\ NewIsLeaf'
         /\ \A i \in Items : ~Exists(i) => state'[i] = state[i]
         /\ \A i \in Items : Exists(i) => state'[i] \in {s, state[i]}
  <1>1. state' = [i \in Items |-> IF i \in Subtree(x) /\ Exists(i) THEN s ELSE state[i]]
    BY DEF Mark, Rows, Subtree, Below
  <1>2. \A i \in Items : parent[i] \in Subtree(x) => i \in Subtree(x)
    BY BelowDown DEF Subtree
  <1> QED
    BY <1>1, <1>2 DEF TypeOK, NewIsLeaf

(* The calls keep it, whatever they find *)
LEMMA NextIInv == IInv /\ [Next]_vars => IInv'
  <1> SUFFICES ASSUME IInv, [Next]_vars PROVE IInv'
    OBVIOUS
  <1>0. serial' = serial
    BY DEF Next, vars
  <1> USE <1>0 DEF IInv, KeysInv, LostHaveRows, RowHasObject
  <1>1. CASE UNCHANGED vars
    BY <1>1 DEF vars, callVars, TypeOK, NewIsLeaf
  <1>2. ASSUME NEW c \in Calls, NEW p \in Folders \cup {Root}, CreateFolder(c, p)
        PROVE  IInv'
    BY <1>2 DEF CreateFolder, Start, TypeOK, NewIsLeaf
  <1>3. ASSUME NEW c \in Calls, NEW p \in Folders \cup {Root}, NEW f \in Files,
               Upload(c, f, p)
        PROVE  IInv'
    BY <1>3 DEF Upload, Unused, Start, TypeOK, NewIsLeaf
  <1>4. ASSUME NEW c \in Calls, NEW p \in Folders \cup {Root}, NEW i \in Items,
               Copy(c, i, p) \/ Move(c, i, p)
        PROVE  IInv'
    BY <1>4 DEF Copy, Move, Start, TypeOK, NewIsLeaf
  <1>5. ASSUME NEW c \in Calls, NEW i \in Items,
               Remove(c, i) \/ Restore(c, i) \/ PermanentDelete(c, i)
        PROVE  IInv'
    BY <1>5 DEF Remove, Restore, PermanentDelete, Start, TypeOK, NewIsLeaf
  <1>6. ASSUME NEW c \in Calls, FindItem(c) \/ FindDeleted(c) \/ CheckParent(c)
        PROVE  IInv'
    BY <1>6 DEF FindItem, FindDeleted, CheckParent, TypeOK, NewIsLeaf
  <1>7. ASSUME NEW c \in Calls, FindTarget(c) PROVE IInv'
    BY <1>7 DEF FindTarget, TypeOK, NewIsLeaf
  <1>8. ASSUME NEW c \in Calls, CheckDepth(c) \/ CheckDescendant(c) PROVE IInv'
    <2>1. /\ pc[c] = "walk" /\ UNCHANGED rows
          /\ GoOn(c, "write") \/ End(c)
      BY <1>8 DEF CheckDepth, CheckDescendant
    <2>2. CASE GoOn(c, "write")
      BY <2>1, <2>2 DEF TypeOK, NewIsLeaf
    <2>3. CASE End(c)
      BY <2>1, <2>3 DEF TypeOK, NewIsLeaf
    <2> QED
      BY <2>1, <2>2, <2>3
  <1>9. ASSUME NEW c \in Calls, NEW f \in Files, CopyObject(c, f) PROVE IInv'
    <2>1. CASE item[c] \in objects
      <3>1. /\ objects' = objects \cup {f}
            /\ keys' = [keys EXCEPT ![c] = {f}]
            /\ pc' = [pc EXCEPT ![c] = "write"]
            /\ UNCHANGED <<state, parent, lost, kind, item, to>>
            /\ state[f] = "none" /\ f \notin objects /\ pc[c] = "copy"
        BY <1>9, <2>1 DEF CopyObject, Unused
      <3>2. TypeOK' /\ NewIsLeaf' /\ RowHasObject'
        BY <3>1 DEF TypeOK, NewIsLeaf
      <3>3. KeysInv' /\ LostHaveRows'
        BY <3>1 DEF TypeOK
      <3> QED
        BY <3>2, <3>3
    <2>2. CASE item[c] \notin objects
      BY <1>9, <2>2 DEF CopyObject, TypeOK, NewIsLeaf
    <2> QED
      BY <2>1, <2>2
  <1>10. ASSUME NEW c \in Calls, NEW f \in Folders, InsertFolder(c, f) PROVE IInv'
    BY <1>10 DEF InsertFolder, Writes, Put, TypeOK, NewIsLeaf
  <1>11. ASSUME NEW c \in Calls, NEW f \in Files, InsertFile(c, f) PROVE IInv'
    BY <1>11 DEF InsertFile, Writes, Put, TypeOK, NewIsLeaf
  <1>12. ASSUME NEW c \in Calls, NEW f \in Files, CopyThrows(c, f) PROVE IInv'
    <2>1. CASE UNCHANGED <<state, parent, lost>>
      BY <1>12, <2>1 DEF CopyThrows, Writes, TypeOK, NewIsLeaf
    <2>2. CASE HasRow(to[c]) /\ Put(f, to[c]) /\ lost' = lost \cup {f}
      BY <1>12, <2>2 DEF CopyThrows, Writes, Put, TypeOK, NewIsLeaf
    <2> QED
      BY <1>12, <2>1, <2>2 DEF CopyThrows
  <1>13. ASSUME NEW c \in Calls, UndoCopy(c) PROVE IInv'
    BY <1>13 DEF UndoCopy, TypeOK, NewIsLeaf
  <1>14. ASSUME NEW c \in Calls, UpdateParent(c) PROVE IInv'
    BY <1>14 DEF UpdateParent, Writes, TypeOK, NewIsLeaf
  <1>15. ASSUME NEW c \in Calls, SoftDelete(c) PROVE IInv'
    <2>1. CASE UNCHANGED state
      BY <1>15, <2>1 DEF SoftDelete, Writes, TypeOK, NewIsLeaf
    <2>2. CASE Mark(item[c], "trash")
      <3>1. item[c] \in Items /\ parent' = parent
        BY <1>15 DEF SoftDelete, Writes, TypeOK
      <3> QED
        BY <1>15, <2>2, <3>1, MarkKeepsTree DEF SoftDelete, Writes, TypeOK
    <2> QED
      BY <1>15, <2>1, <2>2 DEF SoftDelete
  <1>16. ASSUME NEW c \in Calls, Undelete(c) PROVE IInv'
    <2>1. item[c] \in Items /\ parent' = parent
      BY <1>16 DEF Undelete, Writes, TypeOK
    <2> QED
      BY <1>16, <2>1, MarkKeepsTree DEF Undelete, Writes, TypeOK
  <1>17. ASSUME NEW c \in Calls, DeleteRows(c) PROVE IInv'
    <2>1. item[c] \in Items /\ parent' = parent
      BY <1>17 DEF DeleteRows, Writes, TypeOK
    <2>2. \A f \in Rows(item[c]) : state'[f] = "gone"
      BY <1>17 DEF DeleteRows, Mark, Rows, Subtree, Below
    <2> QED
      BY <1>17, <2>1, <2>2, MarkKeepsTree DEF DeleteRows, Writes, TypeOK
  <1>18. ASSUME NEW c \in Calls, RemoveObjects(c) PROVE IInv'
    BY <1>18 DEF RemoveObjects, TypeOK, NewIsLeaf
  <1>19. ASSUME NEW c \in Calls, Fail(c) PROVE IInv'
    BY <1>19 DEF Fail, TypeOK, NewIsLeaf
  <1> QED
    BY <1>1, <1>2, <1>3, <1>4, <1>5, <1>6, <1>7, <1>8, <1>9, <1>10, <1>11, <1>12,
       <1>13, <1>14, <1>15, <1>16, <1>17, <1>18, <1>19
    DEF Next, Begin, Read, Write

(* The invariant holds in every reachable state *)
THEOREM Invariance == Spec => []IInv
  <1>1. QED
    BY InitIInv, NextIInv, PTL DEF Spec

(* Every variable keeps its type, and every row has the row of its folder *)
THEOREM TypeCorrect == Spec => []TypeOK
  <1>1. IInv => TypeOK
    BY DEF IInv
  <1>2. QED
    BY <1>1, Invariance, PTL

(* However the calls overlap and fail, no row is left without its object,   *)
(* but for a copy whose insert took effect and was not answered.            *)
THEOREM RowsHaveObjects == Spec => []RowHasObject
  <1>1. IInv => RowHasObject
    BY DEF IInv
  <1>2. QED
    BY <1>1, Invariance, PTL

-----------------------------------------------------------------------------
(* While the calls do not overlap *)

OneAtATime ==
  \A c, d \in Calls :
    UnderWay(c) /\ UnderWay(d) /\ kind[c] # "upload" /\ kind[d] # "upload" => c = d

Routes ==
  \A c \in Calls :
    /\ kind[c] = "upload" => item[c] = Idle /\ pc[c] \in {"idle", "target", "write"}
    /\ kind[c] = "create" => item[c] = Idle
    /\ pc[c] = "find" => kind[c] \in {"move", "copy", "remove"}
    /\ pc[c] = "target" => kind[c] \in {"create", "upload", "move", "copy"}
    /\ pc[c] = "walk" => kind[c] = "create" \/ (kind[c] = "move" /\ item[c] \in Folders)
    /\ pc[c] \in {"parent", "deleted"} => kind[c] \in {"restore", "destroy"}

(* What a call has read is still so *)
ReadIsFresh ==
  \A c \in Calls :
    /\ kind[c] \in {"create", "move"} /\ pc[c] \in {"walk", "write"} => IsLive(to[c])
    /\ kind[c] = "move" /\ pc[c] \in {"target", "walk", "write"} => state[item[c]] = "live"
    /\ kind[c] = "move" /\ pc[c] = "write" => to[c] \notin Below(parent, item[c])
    /\ kind[c] = "restore" => state[item[c]] # "none"
    /\ kind[c] = "restore" /\ pc[c] \in {"deleted", "write"} =>
         (Exists(item[c]) => IsLive(parent[item[c]]))
    /\ kind[c] = "destroy" /\ pc[c] = "write" /\ item[c] \in Folders =>
         state[item[c]] = "trash"

TreeInv ==
  /\ OneAtATime
  /\ Routes
  /\ ReadIsFresh
  /\ NoCycle
  /\ LiveFoldersVisible

(* There is nothing at first *)
LEMMA InitTreeInv == Init => TreeInv
  BY DEF Init, TreeInv, OneAtATime, Routes, ReadIsFresh, NoCycle, LiveFoldersVisible

(* A step that leaves the rows alone, and reads what they are *)
LEMMA ReadTreeInv ==
  ASSUME serial, serial', IInv, TreeInv, NEW c \in Calls,
         \/ Begin(c)
         \/ Read(c)
         \/ RemoveObjects(c)
         \/ UndoCopy(c)
         \/ Fail(c)
  PROVE  TreeInv'
  <1> USE DEF IInv, TypeOK, TreeInv
  <1>1. UNCHANGED <<state, parent>>
    BY DEF Begin, Read, CreateFolder, Upload, Copy, Move, Remove, Restore,
           PermanentDelete, Start, FindItem, FindTarget, CheckDepth, CheckDescendant,
           CheckParent, FindDeleted, CopyObject, RemoveObjects, UndoCopy, Fail
  <1>2. NoCycle' /\ LiveFoldersVisible'
    BY <1>1 DEF NoCycle, LiveFoldersVisible, Rooted, Subtree, IsLive
  <1>3. CASE Begin(c)
    <2>1. PICK k \in Kinds, i \in Items \cup {Idle}, p \in Folders \cup {Root}, first \in Steps :
            /\ Start(c, k, i, p, first)
            /\ k \in {"create", "upload"} => i = Idle /\ first = "target"
            /\ k \in {"move", "copy", "remove"} => first = "find"
            /\ k \in {"restore", "destroy"} => first = "parent"
            /\ k = "restore" => Exists(i)
            /\ k # "idle"
      BY <1>3 DEF Begin, CreateFolder, Upload, Copy, Move, Remove, Restore,
                  PermanentDelete
    <2>2. OneAtATime'
      BY <2>1 DEF Start, MayStart, OneAtATime
    <2>3. Routes'
      BY <2>1 DEF Start, Routes
    <2>4. ReadIsFresh'
      BY <2>1 DEF Start, ReadIsFresh, IsLive
    <2> QED
      BY <1>2, <2>2, <2>3, <2>4
  <1>4. CASE FindItem(c) \/ FindDeleted(c) \/ CheckParent(c)
    <2>1. OneAtATime' /\ Routes'
      BY <1>4 DEF FindItem, FindDeleted, CheckParent, OneAtATime, Routes
    <2>2. ReadIsFresh'
      BY <1>4 DEF FindItem, FindDeleted, CheckParent, Routes, ReadIsFresh, IsLive
    <2> QED
      BY <1>2, <2>1, <2>2
  <1>5. CASE FindTarget(c)
    <2>1. \/ End(c)
          \/ GoOn(c, "copy") /\ kind[c] = "copy"
          \/ /\ GoOn(c, "walk")
             /\ IsLive(to[c])
             /\ kind[c] = "create" \/ (kind[c] = "move" /\ item[c] \in Folders)
          \/ /\ GoOn(c, "write")
             /\ IsLive(to[c])
             /\ to[c] = Root \/ (kind[c] # "create" /\ item[c] \notin Folders)
      <3>1. CASE ~IsLive(to[c])
        BY <1>5, <3>1 DEF FindTarget
      <3>2. CASE IsLive(to[c]) /\ kind[c] = "copy"
        BY <1>5, <3>2 DEF FindTarget
      <3>3. CASE /\ IsLive(to[c]) /\ kind[c] # "copy" /\ to[c] # Root
                 /\ kind[c] = "create" \/ item[c] \in Folders
        <4>1. GoOn(c, "walk")
          BY <1>5, <3>3 DEF FindTarget
        <4>2. kind[c] = "create" \/ (kind[c] = "move" /\ item[c] \in Folders)
          BY <1>5, <3>3 DEF FindTarget, Routes
        <4> QED
          BY <3>3, <4>1, <4>2
      <3>4. CASE /\ IsLive(to[c]) /\ kind[c] # "copy"
                 /\ ~(to[c] # Root /\ (kind[c] = "create" \/ item[c] \in Folders))
        <4>1. GoOn(c, "write")
          BY <1>5, <3>4 DEF FindTarget
        <4> QED
          BY <3>4, <4>1
      <3> QED
        BY <3>1, <3>2, <3>3, <3>4
    <2>2. OneAtATime' /\ Routes'
      BY <1>5, <2>1 DEF FindTarget, OneAtATime, Routes
    <2>3. kind[c] = "move" /\ (to[c] = Root \/ item[c] \notin Folders) =>
            to[c] \notin Below(parent, item[c])
      <3>1. Root \notin Below(parent, item[c])
        BY DEF Below
      <3>2. ASSUME kind[c] = "move", item[c] \notin Folders
            PROVE  Below(parent, item[c]) = {item[c]}
        BY <3>2, BelowLeaf
      <3> QED
        BY <3>1, <3>2
    <2>4. ReadIsFresh'
      BY <1>1, <1>5, <2>1, <2>3 DEF FindTarget, Routes, ReadIsFresh, IsLive
    <2> QED
      BY <1>2, <2>2, <2>4
  <1>6. CASE CheckDepth(c) \/ CheckDescendant(c)
    <2>1. OneAtATime' /\ Routes'
      BY <1>6 DEF CheckDepth, CheckDescendant, OneAtATime, Routes
    <2>2. ReadIsFresh'
      BY <1>6 DEF CheckDepth, CheckDescendant, ReadIsFresh, Routes, IsLive, Ancestors,
                  Subtree
    <2> QED
      BY <1>2, <2>1, <2>2
  <1>7. ASSUME NEW f \in Files, CopyObject(c, f) PROVE TreeInv'
    <2>1. OneAtATime' /\ Routes'
      BY <1>7 DEF CopyObject, OneAtATime, Routes
    <2>2. ReadIsFresh'
      BY <1>7 DEF CopyObject, ReadIsFresh, IsLive, KeysInv
    <2> QED
      BY <1>2, <2>1, <2>2
  <1>8. CASE RemoveObjects(c) \/ UndoCopy(c) \/ Fail(c)
    <2>1. OneAtATime' /\ Routes'
      BY <1>8 DEF RemoveObjects, UndoCopy, Fail, OneAtATime, Routes
    <2>2. ReadIsFresh'
      BY <1>8 DEF RemoveObjects, UndoCopy, Fail, ReadIsFresh, IsLive
    <2> QED
      BY <1>2, <2>1, <2>2
  <1> QED
    BY <1>3, <1>4, <1>5, <1>6, <1>7, <1>8 DEF Read

(* A call that is no upload is the only one that is not *)
LEMMA Alone ==
  ASSUME TypeOK, KeysInv, OneAtATime, NEW c \in Calls, pc[c] # "idle", kind[c] # "upload",
         NEW d \in Calls, d # c
  PROVE  kind[d] \in {"idle", "upload"}
  BY DEF OneAtATime, KeysInv

(* The last step of a call that is no upload leaves nothing stale *)
LEMMA LastStep ==
  ASSUME IInv, TreeInv, NEW c \in Calls, pc[c] # "idle", kind[c] # "upload",
         End(c) \/ (pc[c] = "write" /\ kind[c] = "destroy" /\ pc' = [pc EXCEPT ![c] = "objects"]
                      /\ UNCHANGED <<kind, item, to>>)
  PROVE  OneAtATime' /\ Routes' /\ ReadIsFresh'
  <1> USE DEF IInv, TypeOK, TreeInv
  <1>1. OneAtATime' /\ Routes'
    BY DEF OneAtATime, Routes
  <1>2. \A d \in Calls :
          kind'[d] \in {"idle", "upload"} \/ (kind'[d] = "destroy" /\ pc'[d] = "objects")
    BY Alone
  <1>3. ReadIsFresh'
    BY <1>2 DEF ReadIsFresh
  <1> QED
    BY <1>1, <1>3

(* A row below one that exists, and not in its own subtree, keeps the tree *)
LEMMA PutKeepsTree ==
  ASSUME serial, TypeOK, NoCycle, NEW x \in Items, NEW p \in Folders \cup {Root},
         HasRow(p), p \notin Below(parent, x),
         parent' = [parent EXCEPT ![x] = p],
         \A i \in Items : i # x => state'[i] = state[i]
  PROVE  NoCycle'
  <1> SUFFICES ASSUME NEW i \in Items, Exists(i)' PROVE i \in Below(parent', Root)
    BY DEF NoCycle, Rooted, Subtree
  <1>1. p = Root \/ p \in Below(parent, Root)
    BY DEF NoCycle, Rooted, Subtree
  <1>2. i \in Below(parent, Root) \/ i = x
    BY DEF NoCycle, Rooted, Subtree
  <1>3. i \in Below([parent EXCEPT ![x] = p], Root)
    BY <1>1, <1>2, Reparent DEF TypeOK
  <1> QED
    BY <1>3

(* A row without children is only below itself *)
LEMMA NewRowBelow ==
  ASSUME TypeOK, NewIsLeaf, NEW f \in Items, state[f] = "none", NEW p, HasRow(p)
  PROVE  p \notin Below(parent, f) /\ \A i \in Items : parent[i] # f
  <1>1. \A i \in Items : parent[i] # f
    BY DEF TypeOK, NewIsLeaf
  <1> QED
    BY <1>1, BelowLeaf

(* What goes takes along the folders below it *)
LEMMA MarkDown ==
  ASSUME serial, serial', TypeOK, NewIsLeaf, NoCycle, LiveFoldersVisible, NEW x \in Items,
         NEW s \in {"trash", "gone"}, Mark(x, s), parent' = parent
  PROVE  NoCycle' /\ LiveFoldersVisible'
  <1>1. NoCycle'
    BY MarkKeepsTree DEF NoCycle, Rooted, Subtree
  <1>2. state' = [i \in Items |-> IF i \in Subtree(x) /\ Exists(i) THEN s ELSE state[i]]
    BY DEF Mark, Rows, Subtree, Below
  <1>3. \A i \in Items : parent[i] \in Subtree(x) => i \in Subtree(x)
    BY BelowDown DEF Subtree
  <1>4. LiveFoldersVisible'
    BY <1>2, <1>3 DEF LiveFoldersVisible, IsLive, TypeOK
  <1> QED
    BY <1>1, <1>4

(* What comes back brings along the folders below it *)
LEMMA MarkUp ==
  ASSUME serial, serial', TypeOK, NewIsLeaf, NoCycle, LiveFoldersVisible, NEW x \in Items,
         Mark(x, "live"), parent' = parent, Exists(x) => IsLive(parent[x])
  PROVE  NoCycle' /\ LiveFoldersVisible'
  <1>1. NoCycle'
    BY MarkKeepsTree DEF NoCycle, Rooted, Subtree
  <1>2. state' = [i \in Items |-> IF i \in Subtree(x) /\ Exists(i) THEN "live" ELSE state[i]]
    BY DEF Mark, Rows, Subtree, Below
  <1>3. \A i \in Items : i \in Subtree(x) /\ i # x => parent[i] \in Subtree(x)
    BY BelowUp DEF Subtree
  <1>4. Subtree(x) \subseteq Items
    BY DEF Subtree, Below
  <1>5. LiveFoldersVisible'
    BY <1>2, <1>3, <1>4 DEF LiveFoldersVisible, IsLive, TypeOK
  <1> QED
    BY <1>1, <1>5

(* An insert of a file, answered or not *)
Inserts(c, f) == InsertFile(c, f) \/ CopyThrows(c, f)

(* By an upload next to another call, or by a copy *)
LEMMA InsertFileTreeInv ==
  ASSUME serial, serial', IInv, TreeInv, NEW c \in Calls, NEW f \in Files, Inserts(c, f)
  PROVE  TreeInv'
  <1> USE DEF IInv, TypeOK, TreeInv
  <1>1. OneAtATime' /\ Routes'
    BY DEF Inserts, InsertFile, CopyThrows, Writes, OneAtATime, Routes
  <1>2. state[f] = "none" /\ f \in Items
    BY DEF Inserts, InsertFile, CopyThrows, Writes, KeysInv
  <1>3. CASE HasRow(to[c]) /\ Put(f, to[c])
    <2>1. Put(f, to[c]) /\ (End(c) \/ (GoOn(c, "undo") /\ kind[c] = "copy"))
      BY <1>3 DEF Inserts, InsertFile, CopyThrows, Writes
    <2>2. to[c] \notin Below(parent, f) /\ \A i \in Items : parent[i] # f
      BY <1>2, <1>3, NewRowBelow
    <2>3. NoCycle'
      BY <1>2, <1>3, <2>1, <2>2, PutKeepsTree DEF Put
    <2>4. LiveFoldersVisible'
      BY <1>2, <2>1 DEF Put, LiveFoldersVisible, IsLive
    <2>5. \A d \in Calls : kind[d] = "move" /\ to[d] \notin Below(parent, item[d]) =>
            to[d] \notin Below(parent', item[d])
      <3> SUFFICES ASSUME NEW d \in Calls, kind[d] = "move",
                          to[d] \in Below(parent', item[d])
                   PROVE  to[d] \in Below(parent, item[d])
        OBVIOUS
      <3>1. item[d] \in Items /\ to[d] # f
        OBVIOUS
      <3>2. parent' = [parent EXCEPT ![f] = to[c]]
        BY <2>1 DEF Put
      <3> QED
        BY <1>2, <2>2, <3>1, <3>2, LeafPut
    <2>6. ReadIsFresh'
      <3>1. \A d \in Calls : d # c => kind'[d] = kind[d] /\ pc'[d] = pc[d]
                                   /\ item'[d] = item[d] /\ to'[d] = to[d]
        BY <2>1
      <3>2. kind'[c] \in {"idle", "copy"}
        BY <2>1
      <3>3. \A i \in Items : i # f => state'[i] = state[i] /\ parent'[i] = parent[i]
        BY <2>1 DEF Put
      <3>4. \A p \in Folders \cup {Root} : IsLive(p)' = IsLive(p)
        BY <2>1 DEF Put, IsLive
      <3>5. \A d \in Calls : kind[d] \in {"move", "restore"} => item[d] \in Items
        OBVIOUS
      <3>6. ASSUME NEW d \in Calls, d # c,
                   kind[d] = "restore" \/ (kind[d] = "move" /\ state[item[d]] = "live")
            PROVE  item[d] # f
        BY <1>2, <3>6 DEF ReadIsFresh
      <3> QED
        BY <2>5, <3>1, <3>2, <3>3, <3>4, <3>5, <3>6 DEF ReadIsFresh
    <2> QED
      BY <1>1, <2>3, <2>4, <2>6
  <1>4. CASE UNCHANGED <<state, parent>>
    <2>1. End(c) \/ (GoOn(c, "undo") /\ kind[c] = "copy")
      BY DEF Inserts, InsertFile, CopyThrows, Writes
    <2>2. NoCycle' /\ LiveFoldersVisible' /\ ReadIsFresh'
      BY <1>4, <2>1 DEF NoCycle, LiveFoldersVisible, ReadIsFresh, Rooted, Subtree, IsLive
    <2> QED
      BY <1>1, <2>2
  <1> QED
    BY <1>3, <1>4 DEF Inserts, InsertFile, CopyThrows

(* The calls keep the tree *)
LEMMA NextTreeInv == serial /\ IInv /\ TreeInv /\ [Next]_vars => TreeInv'
  <1> SUFFICES ASSUME serial, IInv, TreeInv, [Next]_vars PROVE TreeInv'
    OBVIOUS
  <1>0. serial /\ serial'
    BY DEF Next, vars
  <1> USE <1>0 DEF IInv, TypeOK, TreeInv
  <1>1. CASE UNCHANGED vars
    BY <1>1 DEF vars, callVars, OneAtATime, Routes, ReadIsFresh, NoCycle,
                LiveFoldersVisible, Rooted, Subtree, IsLive
  <1>2. ASSUME NEW c \in Calls, Begin(c) \/ Read(c) \/ RemoveObjects(c) \/ UndoCopy(c) \/ Fail(c)
        PROVE  TreeInv'
    BY <1>2, ReadTreeInv
  <1>3. ASSUME NEW c \in Calls, NEW f \in Files, Inserts(c, f) PROVE TreeInv'
    BY <1>3, InsertFileTreeInv
  <1>4. ASSUME NEW c \in Calls, NEW f \in Folders, InsertFolder(c, f) PROVE TreeInv'
    <2>1. OneAtATime' /\ Routes' /\ ReadIsFresh'
      BY <1>4, LastStep DEF InsertFolder, Writes
    <2>2. CASE HasRow(to[c])
      <3>1. Put(f, to[c]) /\ state[f] = "none" /\ IsLive(to[c])
        BY <1>4, <2>2 DEF InsertFolder, Writes, ReadIsFresh
      <3>2. to[c] \notin Below(parent, f) /\ \A i \in Items : parent[i] # f
        BY <2>2, <3>1, NewRowBelow
      <3>3. NoCycle'
        BY <2>2, <3>1, <3>2, PutKeepsTree DEF Put
      <3>4. LiveFoldersVisible'
        BY <3>1, <3>2 DEF Put, LiveFoldersVisible, IsLive
      <3> QED
        BY <2>1, <3>3, <3>4
    <2>3. CASE ~HasRow(to[c])
      BY <1>4, <2>1, <2>3
      DEF InsertFolder, NoCycle, LiveFoldersVisible, Rooted, Subtree, IsLive
    <2> QED
      BY <2>2, <2>3
  <1>5. ASSUME NEW c \in Calls, UpdateParent(c) PROVE TreeInv'
    <2>1. OneAtATime' /\ Routes' /\ ReadIsFresh'
      BY <1>5, LastStep DEF UpdateParent, Writes
    <2>2. CASE parent' = parent
      BY <1>5, <2>1, <2>2
      DEF UpdateParent, NoCycle, LiveFoldersVisible, Rooted, Subtree, IsLive
    <2>3. CASE parent' # parent
      <3>1. /\ HasRow(to[c]) /\ UNCHANGED state
            /\ parent' = [parent EXCEPT ![item[c]] = to[c]]
        BY <1>5, <2>3 DEF UpdateParent
      <3>2. IsLive(to[c]) /\ to[c] \notin Below(parent, item[c]) /\ item[c] \in Items
        BY <1>5 DEF UpdateParent, Writes, ReadIsFresh
      <3>3. NoCycle'
        BY <3>1, <3>2, PutKeepsTree
      <3>4. LiveFoldersVisible'
        BY <3>1, <3>2 DEF LiveFoldersVisible, IsLive
      <3> QED
        BY <2>1, <3>3, <3>4
    <2> QED
      BY <2>2, <2>3
  <1>6. ASSUME NEW c \in Calls, SoftDelete(c) PROVE TreeInv'
    <2>1. OneAtATime' /\ Routes' /\ ReadIsFresh'
      BY <1>6, LastStep DEF SoftDelete, Writes
    <2>2. item[c] \in Items /\ parent' = parent
      BY <1>6 DEF SoftDelete, Writes
    <2>3. CASE UNCHANGED state
      BY <2>1, <2>2, <2>3 DEF NoCycle, LiveFoldersVisible, Rooted, Subtree, IsLive
    <2>4. CASE Mark(item[c], "trash")
      BY <2>1, <2>2, <2>4, MarkDown
    <2> QED
      BY <1>6, <2>3, <2>4 DEF SoftDelete
  <1>7. ASSUME NEW c \in Calls, Undelete(c) PROVE TreeInv'
    <2>1. OneAtATime' /\ Routes' /\ ReadIsFresh'
      BY <1>7, LastStep DEF Undelete, Writes
    <2>2. /\ item[c] \in Items /\ parent' = parent /\ Mark(item[c], "live")
          /\ Exists(item[c]) => IsLive(parent[item[c]])
      BY <1>7 DEF Undelete, Writes, ReadIsFresh
    <2> QED
      BY <2>1, <2>2, MarkUp
  <1>8. ASSUME NEW c \in Calls, DeleteRows(c) PROVE TreeInv'
    <2>1. OneAtATime' /\ Routes' /\ ReadIsFresh'
      BY <1>8, LastStep DEF DeleteRows, Writes
    <2>2. item[c] \in Items /\ parent' = parent /\ Mark(item[c], "gone")
      BY <1>8 DEF DeleteRows, Writes
    <2> QED
      BY <2>1, <2>2, MarkDown
  <1> QED
    BY <1>1, <1>2, <1>3, <1>4, <1>5, <1>6, <1>7, <1>8 DEF Next, Write, Inserts

(* Only a permanent deletion takes rows for good, those of one item *)
LEMMA OnlyDeletionsRemove ==
  ASSUME TypeOK, [Next]_vars, NEW f \in Items, state[f] # "gone", state'[f] = "gone"
  PROVE  \E c \in Calls : DeleteRows(c) /\ f \in Rows(item[c]) /\ item[c] \in Items
  <1> USE DEF TypeOK
  <1>1. PICK c \in Calls : DeleteRows(c)
    <2>1. CASE UNCHANGED vars
      BY <2>1 DEF vars
    <2>2. ASSUME NEW c \in Calls, Begin(c) \/ Read(c) \/ Fail(c) PROVE UNCHANGED state
      BY <2>2 DEF Begin, Read, CreateFolder, Upload, Copy, Move, Remove, Restore,
             PermanentDelete, Start, FindItem, FindTarget, CheckDepth, CheckDescendant,
             CheckParent, FindDeleted, CopyObject, Fail
    <2>3. ASSUME NEW c \in Calls, Write(c), ~DeleteRows(c) PROVE state'[f] # "gone"
      <3>1. ASSUME NEW g \in Items, NEW p, Put(g, p) PROVE state'[f] # "gone"
        BY <3>1 DEF Put
      <3>2. ASSUME NEW x, NEW s \in {"live", "trash"}, Mark(x, s) PROVE state'[f] # "gone"
        BY <3>2 DEF Mark
      <3> QED
        BY <2>3, <3>1, <3>2
        DEF Write, InsertFolder, InsertFile, CopyThrows, UndoCopy, UpdateParent, SoftDelete,
            Undelete, RemoveObjects
    <2> QED
      BY <2>1, <2>2, <2>3 DEF Next
  <1>2. f \in Rows(item[c]) /\ item[c] \in Items
    BY <1>1 DEF DeleteRows, Writes, Mark
  <1> QED
    BY <1>1, <1>2

(* A folder that goes for good was in the trash, with all folders below it *)
LEMMA GoneWasTrash ==
  ASSUME serial, IInv, TreeInv, [Next]_vars, NEW f \in Folders, state[f] # "gone", state'[f] = "gone"
  PROVE  state[f] = "trash"
  <1> USE DEF IInv, TypeOK, TreeInv
  <1>1. PICK c \in Calls : DeleteRows(c) /\ f \in Rows(item[c]) /\ item[c] \in Items
    BY OnlyDeletionsRemove
  <1>2. f \in Rows(item[c]) /\ item[c] \in Items
    BY <1>1
  <1>3. item[c] \in Folders
    <2> SUFFICES ASSUME item[c] \in Files PROVE FALSE
      BY <1>2
    <2>1. Below(parent, item[c]) = {item[c]}
      BY <1>2, BelowLeaf
    <2> QED
      BY <1>2, <2>1 DEF Rows, Subtree
  <1>4. state[item[c]] = "trash"
    BY <1>1, <1>3 DEF DeleteRows, Writes, ReadIsFresh
  <1> DEFINE S == {i \in Below(parent, item[c]) : i \in Files \/ state[i] # "live"}
  <1>5. S \in SUBSET Nodes
    BY DEF Below, Nodes
  <1>6. item[c] \in S
    BY <1>2, <1>4, BelowSelf
  <1>7. Closed(parent, S)
    <2> SUFFICES ASSUME NEW i \in Items, parent[i] \in S PROVE i \in S
      BY DEF Closed
    <2>1. i \in Below(parent, item[c])
      BY BelowDown
    <2>2. parent[i] \in Folders /\ ~IsLive(parent[i])
      BY DEF Below, IsLive
    <2> QED
      BY <2>1, <2>2 DEF LiveFoldersVisible
  <1>8. Below(parent, item[c]) \subseteq S
    <2> HIDE DEF S
    <2> QED
      BY <1>5, <1>6, <1>7, BelowLeast
  <1> QED
    BY <1>2, <1>8 DEF Rows, Subtree

(* A live file in a live folder goes for good when it is named only *)
LEMMA GoneWasNamed ==
  ASSUME serial, IInv, TreeInv, [Next]_vars,
         NEW f \in Files, state[f] = "live", IsLive(parent[f]), state'[f] = "gone"
  PROVE  \E c \in Calls : kind[c] = "destroy" /\ item[c] = f
  <1>0. TypeOK
    BY DEF IInv
  <1>1. PICK c \in Calls : DeleteRows(c) /\ f \in Rows(item[c]) /\ item[c] \in Items
    BY <1>0, OnlyDeletionsRemove
  <1>2. kind[c] = "destroy"
    BY <1>1 DEF DeleteRows, Writes
  <1>3. ASSUME item[c] # f PROVE FALSE
    <2>1. f \in Below(parent, item[c])
      BY <1>1 DEF Rows, Subtree
    <2>2. parent[f] \in Below(parent, item[c])
      BY <1>1, <1>3, <2>1, BelowUp
    <2>3. parent[f] \in Folders /\ state[parent[f]] = "live"
      <3>1. parent[f] \in Items /\ parent[f] \in Folders \cup {Root}
        BY <1>0, <2>2 DEF Below, TypeOK
      <3>2. parent[f] # Root
        BY <3>1
      <3> QED
        BY <3>1, <3>2 DEF IsLive
    <2>4. state'[parent[f]] = "gone"
      <3>1. parent[f] \in Rows(item[c])
        BY <2>2, <2>3 DEF Rows, Subtree
      <3> QED
        BY <1>1, <2>3, <3>1 DEF DeleteRows, Mark
    <2> QED
      BY <2>3, <2>4, GoneWasTrash
  <1> QED
    BY <1>2, <1>3

SerialTreeInv == serial => TreeInv

(* The tree is kept as long as the calls do not overlap *)
THEOREM SerialInvariance == Spec => [](IInv /\ SerialTreeInv)
  <1>1. Init => IInv /\ SerialTreeInv
    BY InitIInv, InitTreeInv DEF SerialTreeInv
  <1>2. IInv /\ SerialTreeInv /\ [Next]_vars => IInv' /\ SerialTreeInv'
    <2> SUFFICES ASSUME IInv, SerialTreeInv, [Next]_vars PROVE IInv' /\ SerialTreeInv'
      OBVIOUS
    <2>1. serial' = serial
      BY DEF Next, vars
    <2> QED
      BY <2>1, NextIInv, NextTreeInv DEF SerialTreeInv
  <1>3. QED
    BY <1>1, <1>2, PTL DEF Spec

(* While the calls do not overlap every folder and file is below the root:  *)
(* no move makes a cycle.                                                   *)
THEOREM FoldersAreATree == Spec => []NoCycle
  <1>1. SerialTreeInv => NoCycle
    BY DEF SerialTreeInv, TreeInv, NoCycle
  <1>2. QED
    BY <1>1, SerialInvariance, PTL

(* While the calls do not overlap what is above a live folder is live *)
THEOREM LiveFoldersReachable == Spec => []LiveFoldersVisible
  <1>1. SerialTreeInv => LiveFoldersVisible
    BY DEF SerialTreeInv, TreeInv, LiveFoldersVisible
  <1>2. QED
    BY <1>1, SerialInvariance, PTL

(* While the calls do not overlap no live folder is deleted for good *)
THEOREM LiveFoldersStay == Spec => OnlyTrashedFoldersGo
  <1>1. IInv /\ SerialTreeInv /\ [Next]_vars =>
          [serial => \A f \in Folders :
             state[f] # "gone" /\ state'[f] = "gone" => state[f] = "trash"]_vars
    BY GoneWasTrash DEF SerialTreeInv
  <1>2. QED
    BY <1>1, SerialInvariance, PTL DEF Spec, OnlyTrashedFoldersGo

VisibleFilesGoByName ==
  [][serial => \A f \in Files :
       state[f] = "live" /\ IsLive(parent[f]) /\ state'[f] = "gone" =>
         \E c \in Calls : kind[c] = "destroy" /\ item[c] = f]_vars

(* TrashRepository.permanentDeleteFile is the only way to the live file     *)
(* that the run folder_live_file_gone loses: while the calls do not         *)
(* overlap, a file that is listed in a live folder is deleted for good only *)
(* by a call that names it, never along with a folder from the trash.       *)
THEOREM OnlyNamedFilesGo == Spec => VisibleFilesGoByName
  <1>1. IInv /\ SerialTreeInv /\ [Next]_vars =>
          [serial => \A f \in Files :
             state[f] = "live" /\ IsLive(parent[f]) /\ state'[f] = "gone" =>
               \E c \in Calls : kind[c] = "destroy" /\ item[c] = f]_vars
    BY GoneWasNamed DEF SerialTreeInv
  <1>2. QED
    BY <1>1, SerialInvariance, PTL DEF Spec, VisibleFilesGoByName

-----------------------------------------------------------------------------
(* The depth of a new folder *)

(* There are only as many rows as have been inserted *)
RowsAreFinite == IsFiniteSet({d \in Folders : Exists(d)})

(* What a create has read of the depth is still so *)
DepthIsFresh ==
  \A c \in Calls :
    kind[c] = "create" /\ pc[c] = "write" /\ to[c] # Root =>
      Cardinality(Ancestors(to[c])) - 1 < MaxDepth

(* What is above a row has a row *)
LEMMA AncestorsAreRows ==
  ASSUME TypeOK, NEW x \in Items, Exists(x)
  PROVE  Ancestors(x) \subseteq {d \in Folders : Exists(d)}
  <1> SUFFICES ASSUME NEW d \in Folders, x \in Below(parent, d), ~Exists(d) PROVE FALSE
    BY DEF Ancestors, Subtree
  <1> DEFINE S == {i \in Items : ~Exists(i)}
  <1>1. S \in SUBSET Nodes /\ d \in S
    BY DEF Nodes
  <1>2. Closed(parent, S)
    BY DEF Closed, TypeOK
  <1>3. Below(parent, d) \subseteq S
    <2> HIDE DEF S
    <2> QED
      BY <1>1, <1>2, BelowLeast
  <1> QED
    BY <1>3

(* The steps that leave the rows alone *)
LEMMA ReadsLeaveRows ==
  ASSUME NEW c \in Calls, Begin(c) \/ Read(c) \/ RemoveObjects(c) \/ UndoCopy(c) \/ Fail(c)
  PROVE  UNCHANGED <<state, parent>>
  BY DEF Begin, Read, CreateFolder, Upload, Copy, Move, Remove, Restore,
         PermanentDelete, Start, FindItem, FindTarget, CheckDepth, CheckDescendant,
         CheckParent, FindDeleted, CopyObject, RemoveObjects, UndoCopy, Fail

(* A step makes one row at most, and it is an insert that does *)
LEMMA OneNewRow ==
  ASSUME TypeOK, [Next]_vars
  PROVE  \/ \A i \in Items : Exists(i)' => Exists(i)
         \/ \E c \in Calls, f \in Items :
              /\ (f \in Folders /\ InsertFolder(c, f)) \/ (f \in Files /\ Inserts(c, f))
              /\ Put(f, to[c]) /\ HasRow(to[c])
  <1>1. CASE UNCHANGED vars
    BY <1>1 DEF vars
  <1>2. ASSUME NEW c \in Calls, Begin(c) \/ Read(c) \/ RemoveObjects(c) \/ UndoCopy(c) \/ Fail(c)
        PROVE  \A i \in Items : Exists(i)' => Exists(i)
    BY <1>2, ReadsLeaveRows
  <1>3. ASSUME NEW x, NEW s, Mark(x, s)
        PROVE  \A i \in Items : Exists(i)' => Exists(i)
    BY <1>3 DEF Mark, Rows
  <1>4. ASSUME NEW c \in Calls, UpdateParent(c) \/ SoftDelete(c) \/ Undelete(c) \/ DeleteRows(c)
        PROVE  \A i \in Items : Exists(i)' => Exists(i)
    <2>1. UNCHANGED state \/ \E x, s : Mark(x, s)
      BY <1>4 DEF UpdateParent, SoftDelete, Undelete, DeleteRows
    <2> QED
      BY <1>3, <2>1
  <1>5. ASSUME NEW c \in Calls, NEW f \in Items,
               (f \in Folders /\ InsertFolder(c, f)) \/ (f \in Files /\ Inserts(c, f))
        PROVE  UNCHANGED state \/ (Put(f, to[c]) /\ HasRow(to[c]))
    BY <1>5 DEF InsertFolder, Inserts, InsertFile, CopyThrows
  <1> QED
    BY <1>1, <1>2, <1>4, <1>5 DEF Next, Write, Inserts

(* A step makes one row more at most *)
LEMMA RowsStayFinite ==
  ASSUME TypeOK, RowsAreFinite, [Next]_vars
  PROVE  RowsAreFinite'
  <1> DEFINE R == {d \in Folders : Exists(d)}
             N == {d \in Folders : Exists(d)'}
  <1>1. PICK f : \A i \in Items : Exists(i)' => Exists(i) \/ i = f
    <2>1. ASSUME NEW f \in Items, NEW p, Put(f, p)
          PROVE  \A i \in Items : Exists(i)' => Exists(i) \/ i = f
      BY <2>1 DEF Put, TypeOK
    <2> QED
      BY <2>1, OneNewRow
  <1>2. N \subseteq R \cup {f}
    BY <1>1
  <1>3. IsFiniteSet(R \cup {f})
    BY FS_AddElement DEF RowsAreFinite
  <1>4. IsFiniteSet(N)
    <2> HIDE DEF N, R
    <2> QED
      BY <1>2, <1>3, FS_Subset
  <1> QED
    BY <1>4 DEF RowsAreFinite

(* A row that is put next to those above x is not above x *)
LEMMA PutKeepsAncestors ==
  ASSUME TypeOK, NewIsLeaf, NEW f \in Items, NEW p, state[f] = "none", Put(f, p),
         NEW x \in Items, Exists(x)
  PROVE  {d \in Folders : x \in Below(parent', d)} \subseteq Ancestors(x)
  <1>1. \A i \in Items : parent[i] # f
    BY DEF TypeOK, NewIsLeaf
  <1>2. parent' = [parent EXCEPT ![f] = p] /\ parent \in [Items -> Folders \cup {Root}]
    BY DEF Put, TypeOK
  <1>3. x # f
    OBVIOUS
  <1> QED
    BY <1>1, <1>2, <1>3, LeafPut DEF Ancestors, Subtree

(* Next to a create there are only uploads *)
LEMMA DepthStaysFresh ==
  ASSUME serial, IInv, TreeInv, RowsAreFinite, DepthIsFresh, [Next]_vars
  PROVE  DepthIsFresh'
  <1> USE DEF IInv, TypeOK, TreeInv
  <1> SUFFICES ASSUME NEW c \in Calls, kind'[c] = "create", pc'[c] = "write", to'[c] # Root
               PROVE  Cardinality({d \in Folders : to'[c] \in Below(parent', d)}) - 1 < MaxDepth
    BY DEF DepthIsFresh, Ancestors, Subtree
  <1>1. CASE UNCHANGED vars
    BY <1>1 DEF vars, callVars, DepthIsFresh, Ancestors, Subtree
  <1>2. CASE Begin(c) \/ Read(c) \/ Write(c) \/ Fail(c)
    <2>1. CheckDepth(c) /\ GoOn(c, "write")
      <3>1. ~Begin(c)
        BY DEF Begin, CreateFolder, Upload, Copy, Move, Remove, Restore, PermanentDelete, Start
      <3>2. ~Write(c) /\ ~Fail(c)
        BY DEF Write, InsertFolder, InsertFile, CopyThrows, UndoCopy, UpdateParent, SoftDelete,
               Undelete, DeleteRows, RemoveObjects, Fail
      <3>3. Read(c) => CheckDepth(c) /\ GoOn(c, "write")
        BY DEF Read, FindItem, FindTarget, CheckDepth, CheckDescendant, CheckParent, FindDeleted,
               CopyObject, Routes
      <3> QED
        BY <1>2, <3>1, <3>2, <3>3
    <2>2. UNCHANGED <<parent, to>> /\ Cardinality(Ancestors(to[c])) - 1 < MaxDepth
      BY <2>1 DEF CheckDepth
    <2> QED
      BY <2>2 DEF Ancestors, Subtree
  <1>3. ASSUME NEW e \in Calls, e # c, Begin(e) \/ Read(e) \/ Write(e) \/ Fail(e)
        PROVE  Cardinality({d \in Folders : to'[c] \in Below(parent', d)}) - 1 < MaxDepth
    <2>1. UNCHANGED <<kind[c], pc[c], to[c]>>
      <3>1. CASE Begin(e)
        BY <1>3, <3>1 DEF Begin, CreateFolder, Upload, Copy, Move, Remove, Restore,
               PermanentDelete, Start
      <3>2. CASE Read(e) \/ Fail(e)
        BY <1>3, <3>2 DEF Read, FindItem, FindTarget, CheckDepth, CheckDescendant,
               CheckParent, FindDeleted, CopyObject, Fail
      <3>3. CASE Write(e)
        BY <1>3, <3>3 DEF Write, InsertFolder, InsertFile, CopyThrows, UndoCopy, UpdateParent,
               SoftDelete, Undelete, DeleteRows, RemoveObjects
      <3> QED
        BY <1>3, <3>1, <3>2, <3>3
    <2>2. /\ Cardinality(Ancestors(to[c])) - 1 < MaxDepth
          /\ to[c] \in Folders /\ Exists(to[c])
      BY <2>1 DEF DepthIsFresh, ReadIsFresh, IsLive
    <2>3. kind[e] \in {"idle", "upload"}
      BY <1>3, <2>1, Alone
    <2>4. CASE UNCHANGED parent
      BY <2>1, <2>2, <2>4 DEF Ancestors, Subtree
    <2>5. ASSUME NEW f \in Files, InsertFile(e, f), Put(f, to[e])
          PROVE  Cardinality({d \in Folders : to'[c] \in Below(parent', d)}) - 1 < MaxDepth
      <3> DEFINE A == {d \in Folders : to[c] \in Below(parent', d)}
                 m == Cardinality(A)
                 n == Cardinality(Ancestors(to[c]))
      <3>1. state[f] = "none"
        BY <2>5 DEF InsertFile, Writes, KeysInv
      <3>2. A \subseteq Ancestors(to[c])
        BY <2>2, <2>5, <3>1, PutKeepsAncestors
      <3>3. IsFiniteSet(Ancestors(to[c]))
        BY <2>2, AncestorsAreRows, FS_Subset DEF RowsAreFinite
      <3>4. m <= n /\ m \in Nat /\ n \in Nat
        <4> HIDE DEF A
        <4> QED
          BY <3>2, <3>3, FS_Subset, FS_CardinalityType
      <3> HIDE DEF m, n
      <3>5. m - 1 < MaxDepth
        BY <2>2, <3>4, DepthAssumption DEF n
      <3> QED
        BY <2>1, <3>5 DEF m
    <2>6. UNCHANGED parent \/ \E f \in Files : InsertFile(e, f) /\ Put(f, to[e])
      <3>1. CASE Write(e) /\ ~RemoveObjects(e) /\ ~UndoCopy(e)
        BY <2>3, <3>1 DEF Write, InsertFolder, InsertFile, CopyThrows, UpdateParent,
                          SoftDelete, Undelete, DeleteRows, Writes
      <3> QED
        BY <1>3, <3>1, ReadsLeaveRows
    <2> QED
      BY <2>4, <2>5, <2>6
  <1> QED
    BY <1>1, <1>2, <1>3 DEF Next

(* What a create makes is below its target, and that below few others *)
LEMMA NewFolderDepth ==
  ASSUME serial, IInv, TreeInv, RowsAreFinite, DepthIsFresh, [Next]_vars,
         NEW f \in Folders, state[f] = "none", state'[f] = "live"
  PROVE  Cardinality({d \in Folders : f \in Below(parent', d)}) - 1 <= MaxDepth
  <1> USE DEF IInv, TypeOK, TreeInv
  <1> DEFINE A == {d \in Folders : f \in Below(parent', d)}
  <1>1. PICK c \in Calls : InsertFolder(c, f) /\ Put(f, to[c]) /\ HasRow(to[c])
    BY OneNewRow DEF Put
  <1>2. \A d \in Folders : f \in Below(parent', d) /\ d # f => to[c] \in Below(parent', d)
    <2>1. parent'[f] = to[c]
      BY <1>1 DEF Put
    <2> QED
      BY <2>1, BelowUp
  <1>3. CASE to[c] = Root
    <2>1. A \subseteq {f}
      BY <1>2, <1>3 DEF Below
    <2>2. Cardinality(A) <= 1 /\ Cardinality(A) \in Nat
      <3> HIDE DEF A
      <3>1. IsFiniteSet({f}) /\ Cardinality({f}) = 1
        BY FS_Singleton
      <3>2. IsFiniteSet(A) /\ Cardinality(A) <= Cardinality({f})
        BY <2>1, <3>1, FS_Subset
      <3> QED
        BY <3>1, <3>2, FS_CardinalityType
    <2> DEFINE m == Cardinality(A)
    <2> HIDE DEF m
    <2>3. m - 1 <= MaxDepth
      BY <2>2, DepthAssumption DEF m
    <2> QED
      BY <2>3 DEF m
  <1>4. CASE to[c] # Root
    <2> DEFINE B == Ancestors(to[c])
    <2>1. Cardinality(B) - 1 < MaxDepth
      BY <1>1, <1>4 DEF InsertFolder, Writes, DepthIsFresh
    <2>2. {d \in Folders : to[c] \in Below(parent', d)} \subseteq B
      BY <1>1, <1>4, PutKeepsAncestors
    <2>3. A \subseteq B \cup {f}
      BY <1>2, <2>2
    <2>4. IsFiniteSet(B)
      BY <1>1, <1>4, AncestorsAreRows, FS_Subset DEF RowsAreFinite
    <2>5. /\ Cardinality(A) <= Cardinality(B \cup {f})
          /\ Cardinality(B \cup {f}) \in {Cardinality(B), Cardinality(B) + 1}
          /\ Cardinality(A) \in Nat /\ Cardinality(B) \in Nat
      <3> HIDE DEF A, B
      <3>1. IsFiniteSet(B \cup {f}) /\ Cardinality(B) \in Nat
        BY <2>4, FS_AddElement, FS_CardinalityType
      <3>2. Cardinality(B \cup {f}) \in {Cardinality(B), Cardinality(B) + 1}
        BY <2>4, FS_AddElement
      <3>3. Cardinality(A) <= Cardinality(B \cup {f}) /\ Cardinality(A) \in Nat
        BY <2>3, <3>1, FS_Subset, FS_CardinalityType
      <3> QED
        BY <3>1, <3>2, <3>3
    <2> DEFINE m == Cardinality(A)
               n == Cardinality(B)
    <2>6. m <= n + 1 /\ m \in Nat /\ n \in Nat /\ n - 1 < MaxDepth
      <3> DEFINE k == Cardinality(B \cup {f})
      <3>1. m <= k /\ (k = n \/ k = n + 1) /\ m \in Nat /\ n \in Nat
        BY <2>5
      <3> HIDE DEF k, m, n
      <3>2. m <= n + 1
        BY <3>1
      <3> QED
        BY <2>1, <3>1, <3>2 DEF n
    <2> HIDE DEF m, n
    <2>7. m - 1 <= MaxDepth
      BY <2>6, DepthAssumption
    <2> QED
      BY <2>7 DEF m
  <1> QED
    BY <1>3, <1>4

SerialDepthInv == serial => DepthIsFresh

(* The check of the depth holds until the folder is made *)
THEOREM DepthInvariance == Spec => [](IInv /\ SerialTreeInv /\ RowsAreFinite /\ SerialDepthInv)
  <1>1. Init => RowsAreFinite /\ SerialDepthInv
    <2>1. ASSUME Init PROVE {d \in Folders : Exists(d)} = {}
      BY <2>1 DEF Init
    <2> QED
      BY <2>1, FS_EmptySet DEF RowsAreFinite, SerialDepthInv, DepthIsFresh, Init
  <1>2. ASSUME IInv, SerialTreeInv, RowsAreFinite, SerialDepthInv, [Next]_vars
        PROVE  RowsAreFinite' /\ SerialDepthInv'
    <2>1. serial' = serial
      BY <1>2 DEF Next, vars
    <2>2. RowsAreFinite'
      BY <1>2, RowsStayFinite DEF IInv
    <2> QED
      BY <1>2, <2>1, <2>2, DepthStaysFresh DEF SerialTreeInv, SerialDepthInv
  <1> QED
    BY <1>1, <1>2, SerialInvariance, PTL DEF Spec

(* FolderService.create: while the calls do not overlap, a folder is not    *)
(* made below more than MaxDepth others, though uploads go on next to it.   *)
THEOREM FoldersAreCreatedWithinDepth == Spec => CreatedWithinDepth
  <1>1. IInv /\ SerialTreeInv /\ RowsAreFinite /\ SerialDepthInv /\ [Next]_vars =>
          [serial => \A f \in Folders : state[f] = "none" /\ state'[f] = "live" =>
             Cardinality({d \in Folders : f \in Below(parent', d)}) - 1 <= MaxDepth]_vars
    BY NewFolderDepth DEF SerialTreeInv, SerialDepthInv
  <1> QED
    BY <1>1, DepthInvariance, PTL DEF Spec, CreatedWithinDepth
-----------------------------------------------------------------------------
(* However the calls overlap, but for two moves of folders *)

MovesFolder(c) == kind[c] = "move" /\ item[c] \in Folders

OneFolderMove == \A c, d \in Calls : MovesFolder(c) /\ MovesFolder(d) => c = d

(* Every row is below the root, whoever is under way *)
AllRooted == \A i \in Items : Exists(i) => Rooted(i)

(* A target has had a row, and a move of a folder has not found the folder  *)
(* above its target.                                                        *)
MovesAreFresh ==
  \A c \in Calls :
    /\ to[c] = Root \/ state[to[c]] # "none"
    /\ pc[c] \in {"parent", "deleted"} => kind[c] # "move"
    /\ MovesFolder(c) /\ pc[c] = "write" => to[c] \notin Below(parent, item[c])

MoveInv == IInv /\ AllRooted /\ MovesAreFresh

(* There is nothing at first *)
LEMMA InitMoveInv == Init => MoveInv
  <1>1. Init => AllRooted /\ MovesAreFresh
    BY DEF Init, AllRooted, MovesAreFresh, MovesFolder
  <1> QED
    BY <1>1, InitIInv DEF MoveInv

(* A step that leaves the rows alone *)
LEMMA ReadMoveInv ==
  ASSUME MoveInv, NEW c \in Calls, Begin(c) \/ Read(c) \/ RemoveObjects(c) \/ UndoCopy(c) \/ Fail(c)
  PROVE  AllRooted' /\ MovesAreFresh'
  <1> USE DEF MoveInv, IInv, TypeOK
  <1>1. UNCHANGED <<state, parent>>
    BY ReadsLeaveRows
  <1>2. AllRooted'
    BY <1>1 DEF AllRooted, Rooted, Subtree
  <1>3. \A d \in Calls : d # c => UNCHANGED <<kind[d], pc[d], item[d], to[d]>>
    BY DEF Begin, Read, CreateFolder, Upload, Copy, Move, Remove, Restore, PermanentDelete,
           Start, FindItem, FindTarget, CheckDepth, CheckDescendant, CheckParent,
           FindDeleted, CopyObject, RemoveObjects, UndoCopy, Fail
  <1>4. CASE Begin(c)
    <2>1. /\ to'[c] = Root \/ Exists(to'[c])
          /\ pc'[c] \in {"parent", "deleted"} => kind'[c] # "move"
          /\ pc'[c] # "write"
      BY <1>4 DEF Begin, CreateFolder, Upload, Copy, Move, Remove, Restore,
                  PermanentDelete, Start
    <2> QED
      BY <1>1, <1>2, <1>3, <2>1 DEF MovesAreFresh, MovesFolder
  <1>5. CASE Read(c) \/ RemoveObjects(c) \/ UndoCopy(c) \/ Fail(c)
    <2>1. (kind'[c] = "idle" /\ to'[c] = Root) \/ UNCHANGED <<kind[c], item[c], to[c]>>
      BY <1>5 DEF Read, FindItem, FindTarget, CheckDepth, CheckDescendant, CheckParent,
                  FindDeleted, CopyObject, RemoveObjects, UndoCopy, Fail
    <2>2. ASSUME MovesFolder(c), kind'[c] = "move"
          PROVE  /\ pc'[c] \notin {"parent", "deleted"}
                 /\ pc'[c] = "write" => to[c] \notin Below(parent, item[c])
      <3>1. Root \notin Below(parent, item[c])
        BY DEF Below
      <3> QED
        BY <1>5, <2>2, <3>1
        DEF Read, FindItem, FindTarget, CheckDepth, CheckDescendant, CheckParent, FindDeleted,
            CopyObject, RemoveObjects, UndoCopy, Fail, MovesAreFresh, MovesFolder, KeysInv,
            Ancestors, Subtree
    <2>3. kind'[c] = "move" => pc'[c] \notin {"parent", "deleted"}
      BY <1>5, <2>1
      DEF Read, FindItem, FindTarget, CheckDepth, CheckDescendant, CheckParent, FindDeleted,
          CopyObject, RemoveObjects, UndoCopy, Fail, MovesAreFresh, KeysInv
    <2> QED
      BY <1>1, <1>2, <1>3, <2>1, <2>2, <2>3 DEF MovesAreFresh, MovesFolder
  <1> QED
    BY <1>4, <1>5

(* A row put where it is not below itself keeps every row below the root *)
LEMMA PutKeepsRoots ==
  ASSUME TypeOK, AllRooted, NEW x \in Items, NEW p \in Folders \cup {Root},
         HasRow(p), p \notin Below(parent, x),
         parent' = [parent EXCEPT ![x] = p],
         \A i \in Items : i # x => state'[i] = state[i]
  PROVE  AllRooted'
  <1> SUFFICES ASSUME NEW i \in Items, Exists(i)' PROVE i \in Below(parent', Root)
    BY DEF AllRooted, Rooted, Subtree
  <1>1. p = Root \/ p \in Below(parent, Root)
    BY DEF AllRooted, Rooted, Subtree
  <1>2. i \in Below(parent, Root) \/ i = x
    BY DEF AllRooted, Rooted, Subtree
  <1>3. i \in Below([parent EXCEPT ![x] = p], Root)
    BY <1>1, <1>2, Reparent DEF TypeOK
  <1> QED
    BY <1>3

(* A leaf that is put anywhere comes between no move and its target *)
LEMMA LeafKeepsMoves ==
  ASSUME TypeOK, MovesAreFresh, NEW c \in Calls,
         End(c) \/ (GoOn(c, "undo") /\ kind[c] = "copy"),
         NEW x \in Items, \A i \in Items : parent[i] # x, NEW p,
         parent' = [parent EXCEPT ![x] = p],
         \A d \in Calls : to[d] # x,
         \A i \in Items : state'[i] = state[i] \/ state'[i] # "none"
  PROVE  MovesAreFresh'
  <1> USE DEF TypeOK
  <1> SUFFICES ASSUME NEW d \in Calls, d # c
               PROVE  /\ to[d] = Root \/ state'[to[d]] # "none"
                      /\ pc[d] \in {"parent", "deleted"} => kind[d] # "move"
                      /\ MovesFolder(d) /\ pc[d] = "write" => to[d] \notin Below(parent', item[d])
    <2>1. \A d \in Calls : d # c => UNCHANGED <<pc[d], kind[d], item[d], to[d]>>
      OBVIOUS
    <2>2. /\ kind'[c] # "move"
          /\ to'[c] = Root \/ (to'[c] = to[c] /\ (to[c] = Root \/ state'[to[c]] # "none"))
      BY DEF MovesAreFresh
    <2> QED
      BY ONLY <2>1, <2>2,
              \A d \in Calls : d # c =>
                /\ to[d] = Root \/ state'[to[d]] # "none"
                /\ pc[d] \in {"parent", "deleted"} => kind[d] # "move"
                /\ MovesFolder(d) /\ pc[d] = "write" => to[d] \notin Below(parent', item[d])
         DEF MovesAreFresh, MovesFolder
  <1>1. ASSUME MovesFolder(d), to[d] \in Below(parent', item[d])
        PROVE  to[d] \in Below(parent, item[d])
    BY <1>1, LeafPut DEF MovesFolder
  <1> QED
    BY <1>1 DEF MovesAreFresh

(* The writes; only that of a folder's move needs to be the only one *)
LEMMA NextMoveInv == MoveInv /\ OneFolderMove /\ [Next]_vars => MoveInv'
  <1> SUFFICES ASSUME MoveInv, OneFolderMove, [Next]_vars PROVE AllRooted' /\ MovesAreFresh'
    BY NextIInv DEF MoveInv
  <1> USE DEF MoveInv, IInv, TypeOK
  <1>1. CASE UNCHANGED vars
    BY <1>1 DEF vars, callVars, AllRooted, MovesAreFresh, MovesFolder, Rooted, Subtree
  <1>2. ASSUME NEW c \in Calls, Begin(c) \/ Read(c) \/ RemoveObjects(c) \/ UndoCopy(c) \/ Fail(c)
        PROVE  AllRooted' /\ MovesAreFresh'
    BY <1>2, ReadMoveInv
  <1>3. ASSUME NEW c \in Calls, UNCHANGED <<state, parent>>,
               End(c) \/ (GoOn(c, "undo") /\ kind[c] = "copy")
        PROVE  AllRooted' /\ MovesAreFresh'
    <2>1. AllRooted'
      BY <1>3 DEF AllRooted, Rooted, Subtree
    <2>2. MovesAreFresh'
      BY <1>3 DEF MovesAreFresh, MovesFolder
    <2> QED
      BY <2>1, <2>2
  <1>4. ASSUME NEW c \in Calls, NEW f \in Items, state[f] = "none", HasRow(to[c]),
               Put(f, to[c]), End(c) \/ (GoOn(c, "undo") /\ kind[c] = "copy")
        PROVE  AllRooted' /\ MovesAreFresh'
    <2>1. to[c] \notin Below(parent, f) /\ \A i \in Items : parent[i] # f
      BY <1>4, NewRowBelow
    <2>2. AllRooted'
      BY <1>4, <2>1, PutKeepsRoots DEF Put
    <2>3. \A d \in Calls : to[d] # f
      BY <1>4 DEF MovesAreFresh
    <2>4. \A i \in Items : state'[i] = state[i] \/ state'[i] # "none"
      BY <1>4 DEF Put
    <2> QED
      BY <1>4, <2>1, <2>2, <2>3, <2>4, LeafKeepsMoves DEF Put
  <1>5. ASSUME NEW c \in Calls, UpdateParent(c) PROVE AllRooted' /\ MovesAreFresh'
    <2>1. /\ End(c) /\ UNCHANGED state /\ pc[c] = "write" /\ kind[c] = "move"
          /\ item[c] \in Items /\ to[c] \in Folders \cup {Root}
      BY <1>5 DEF UpdateParent, Writes
    <2>2. CASE UNCHANGED parent
      BY <1>3, <2>1, <2>2
    <2>3. CASE parent' # parent
      <3>1. HasRow(to[c]) /\ parent' = [parent EXCEPT ![item[c]] = to[c]]
        BY <1>5, <2>3 DEF UpdateParent
      <3>2. CASE item[c] \in Folders
        <4>1. AllRooted'
          BY <2>1, <3>1, <3>2, PutKeepsRoots DEF MovesAreFresh, MovesFolder
        <4>2. \A d \in Calls : ~MovesFolder(d)'
          BY <2>1, <3>2 DEF OneFolderMove, MovesFolder
        <4>3. MovesAreFresh'
          BY <2>1, <4>2 DEF MovesAreFresh
        <4> QED
          BY <4>1, <4>3
      <3>3. CASE item[c] \in Files
        <4>1. (\A i \in Items : parent[i] # item[c]) /\ (\A d \in Calls : to[d] # item[c])
          BY <3>3
        <4>2. to[c] \notin Below(parent, item[c])
          BY <2>1, <4>1, BelowLeaf
        <4>3. AllRooted'
          BY <2>1, <3>1, <4>2, PutKeepsRoots
        <4>4. MovesAreFresh'
          BY <2>1, <3>1, <4>1, LeafKeepsMoves
        <4> QED
          BY <4>3, <4>4
      <3> QED
        BY <2>1, <3>2, <3>3
    <2> QED
      BY <2>2, <2>3
  <1>6. ASSUME NEW x \in Items, NEW s \in {"live", "trash", "gone"}, Mark(x, s),
               UNCHANGED parent
        PROVE  AllRooted' /\ \A i \in Items : state[i] # "none" => state'[i] # "none"
    <2>1. \A i \in Items : Exists(i)' => Exists(i)
      BY <1>6, MarkKeepsTree
    <2>2. AllRooted'
      BY <1>6, <2>1 DEF AllRooted, Rooted, Subtree
    <2>3. \A i \in Items : state[i] # "none" => state'[i] # "none"
      BY <1>6, MarkKeepsTree
    <2> QED
      BY <2>2, <2>3
  <1>7. ASSUME NEW c \in Calls, SoftDelete(c) \/ Undelete(c) \/ DeleteRows(c)
        PROVE  AllRooted' /\ MovesAreFresh'
    <2>1. /\ item[c] \in Items /\ UNCHANGED parent
          /\ End(c) \/ (kind[c] = "destroy" /\ pc' = [pc EXCEPT ![c] = "objects"]
                          /\ UNCHANGED <<kind, item, to>>)
      BY <1>7 DEF SoftDelete, Undelete, DeleteRows, Writes
    <2>2. CASE UNCHANGED state /\ End(c)
      BY <1>3, <2>1, <2>2
    <2>3. CASE \E s \in {"live", "trash", "gone"} : Mark(item[c], s)
      <3>1. AllRooted' /\ \A i \in Items : state[i] # "none" => state'[i] # "none"
        BY <1>6, <2>1, <2>3
      <3>2. MovesAreFresh'
        BY <2>1, <3>1 DEF MovesAreFresh, MovesFolder
      <3> QED
        BY <3>1, <3>2
    <2> QED
      BY <1>7, <2>2, <2>3 DEF SoftDelete, Undelete, DeleteRows
  <1>8. ASSUME NEW c \in Calls, NEW f \in Items,
               (f \in Folders /\ InsertFolder(c, f)) \/ (f \in Files /\ Inserts(c, f))
        PROVE  AllRooted' /\ MovesAreFresh'
    <2>1. /\ End(c) \/ (GoOn(c, "undo") /\ kind[c] = "copy")
          /\ state[f] = "none"
      BY <1>8 DEF InsertFolder, Inserts, InsertFile, CopyThrows, Writes, KeysInv
    <2>2. UNCHANGED <<state, parent>> \/ (HasRow(to[c]) /\ Put(f, to[c]))
      BY <1>8 DEF InsertFolder, Inserts, InsertFile, CopyThrows
    <2> QED
      BY <1>3, <1>4, <2>1, <2>2
  <1> QED
    BY <1>1, <1>2, <1>5, <1>7, <1>8 DEF Next, Write, Inserts

(* FolderService.move is all that can make a cycle: as long as no two moves *)
(* of folders are under way together, every folder and file stays below the *)
(* root, whatever creates, uploads, copies, moves of files, removals,       *)
(* restores and failures do meanwhile.                                      *)
THEOREM OnlyMovesMakeCycles == Spec /\ []OneFolderMove => []AllRooted
  <1>1. MoveInv => AllRooted
    BY DEF MoveInv
  <1> QED
    BY <1>1, InitMoveInv, NextMoveInv, PTL DEF Spec
=============================================================================
