---------------------------- MODULE MCVaultPairs ----------------------------
(***************************************************************************)
(* VaultSync with two of three tabs at work: either two strangers, one tab *)
(* on each device, which compete, fail and crash, or two neighbours on one *)
(* device, which nothing but each other can disturb.                       *)
(***************************************************************************)
EXTENDS MCVaultSync

CONSTANT MaxCompeted   \* bound: no stranger starts on a longer history

VARIABLE pair          \* the tabs that are at work

Strangers  == {t1, t3}
Neighbours == {t1, t2}

\* The neighbours share a device: its lock, queue and mark.
ASSUME PairsAssumption == DeviceOf[t1] = DeviceOf[t2]

PairsInit ==
    /\ Init
    /\ pair \in {Strangers, Neighbours}
    /\ pair = Neighbours => Main.attrs

Starts == used' # used \/ \E t \in Tabs : op[t].phase = "idle" /\ op'[t].phase # "idle"

PairsNext ==
    /\ Next
    /\ UNCHANGED pair
    /\ \A t \in Tabs \ pair : op'[t] = op[t]
    /\ pair = Strangers /\ Starts => Len(commits) < MaxCompeted
    /\ pair = Neighbours => faults' = faults /\ rows'[d2] = rows[d2]

PairsSpec == PairsInit /\ [][PairsNext]_<<vars, pair>>

\* With .gitattributes in place and no failure, tabs of one device never
\* conflict, although neither knows of the other: the lock of withVaultLock
\* spans the whole read-mutate-commit.
NeighboursAgree == pair = Neighbours => TabsNeverConflict
=============================================================================
