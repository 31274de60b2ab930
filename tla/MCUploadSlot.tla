---------------------------- MODULE MCUploadSlot ----------------------------
(***************************************************************************)
(* Instances of UploadSlot for TLC.                                        *)
(***************************************************************************)
EXTENDS UploadSlot

CONSTANTS i1, i2, i3, t1, t2, t3

ThreeItems == {i1, i2, i3}
TwoItems == {i1, i2}
ThreeTasks == {t1, t2, t3}
TwoTasks == {t1, t2}

\* Only the tasks: the order in which the files of a batch are queued is
\* chosen once.
Symmetric == Permutations(Tasks)
=============================================================================
