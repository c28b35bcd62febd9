--------------------------- MODULE MCFolderListings ---------------------------
(* Instances of FolderListings for TLC *)
EXTENDS FolderListings, TLC
=============================================================================
