---------------------------- MODULE MCFolderTree ----------------------------
(* Instances of FolderTree for TLC *)
EXTENDS FolderTree, TLC

CONSTANT Third  \* a folder that calls that overlap have not got

(* The other folders, the files and the calls are interchangeable *)
Symmetry ==
  Permutations(Folders \ {Third}) \cup Permutations(Files) \cup Permutations(Calls)

(* A chain of folders and one file while the calls do not overlap, and      *)
(* otherwise either one folder less, or one folder and a file to copy       *)
MCInit ==
  /\ Init
  /\ LET folders == {d \in Folders : state[d] = "none"}
         files == {f \in Files : state[f] = "none"}
     IN  IF serial
         THEN folders = Folders /\ Cardinality(files) = 1
         ELSE /\ Third \notin folders
              /\ <<Cardinality(folders), Cardinality(files)>> \in {<<2, 1>>, <<1, 2>>}

MCSpec == MCInit /\ [][Next]_vars
=============================================================================
