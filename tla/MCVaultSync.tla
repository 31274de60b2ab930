----------------------------- MODULE MCVaultSync -----------------------------
(***************************************************************************)
(* Instances of VaultSync for TLC.                                         *)
(***************************************************************************)
EXTENDS VaultSync

CONSTANTS d1, d2,             \* devices
          t1, t2, t3,         \* tabs
          old, photo, video   \* media

\* The third tab is on the second device.
HomeOf == [t \in Tabs |-> IF t = t3 THEN d2 ELSE d1]

\* A photo is one object; the video's chunks do not fit in one commit.
PartsOf == [m \in Media |-> IF m = video THEN 3 ELSE 1]
=============================================================================
