--------------------------- MODULE MCUploadSession ---------------------------
(* Model-checking instances of UploadSession. *)
EXTENDS UploadSession, TLC

(* Nothing orders sessions, requests or workers *)
Symmetry ==
  Permutations(Sessions) \cup Permutations(Requests) \cup Permutations(Workers)
=============================================================================
