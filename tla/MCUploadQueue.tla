---------------------------- MODULE MCUploadQueue ---------------------------
(***************************************************************************)
(* Instances of UploadQueue for TLC.                                       *)
(***************************************************************************)
EXTENDS UploadQueue, TLC

CONSTANTS big, small,        \* a large file and a small one
          t1, t2,            \* tabs
          p1, p2,            \* uploads
          s1, s2,            \* runs of the background sync
          orig, other        \* the right file and a wrong one

AllFaults == {"failure", "crash", "cancel", "lock", "discard"}

\* Uploads differ in nothing but their names.
Symmetry == Permutations({p1, p2})
=============================================================================
