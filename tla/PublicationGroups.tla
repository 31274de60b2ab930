-------------------------- MODULE PublicationGroups --------------------------
(***************************************************************************)
(* How the client bounds one publication (src/utils/publicationGroups.js): *)
(* finished uploads are taken in order and cut into groups, each of which  *)
(* becomes one commit request.  A group holds at most MaxItems items and   *)
(* MaxPointers pointers; an item is never split over two groups, and one   *)
(* that fits in none stops the whole batch.                                *)
(***************************************************************************)
EXTENDS Integers, Sequences, SequencesExt

CONSTANTS MaxItems,     \* items in one group
          MaxPointers   \* pointers (objects) in one group

ASSUME GroupLimits == MaxItems \in Nat \ {0} /\ MaxPointers \in Nat \ {0}

\* The loop's state: finished groups, the open group and its pointers, and
\* whether it threw.  An item is its number of pointers, 0 for one that has
\* none that counts.
EmptyLoop == [groups |-> <<>>, group |-> <<>>, pointers |-> 0, failed |-> FALSE]

\* An item that fits in no group.
Unsupported(count) == count \notin 1 .. MaxPointers

\* The open group has no room for an item of this many pointers.
IsFull(loop, count) ==
    /\ loop.group # <<>>
    /\ \/ Len(loop.group) >= MaxItems
       \/ loop.pointers + count > MaxPointers

\* A cut that keeps the pointer count of the group it closed.
AddItemKeepingCount(loop, count) ==
    IF loop.failed \/ Unsupported(count) THEN [loop EXCEPT !.failed = TRUE]
    ELSE IF IsFull(loop, count)
    THEN [loop EXCEPT !.groups = Append(@, loop.group), !.group = <<count>>,
                      !.pointers = @ + count]
    ELSE [loop EXCEPT !.group = Append(@, count), !.pointers = @ + count]

\* Nothing is taken after a throw.
AddItem(loop, count) ==
    IF loop.failed \/ Unsupported(count) THEN [loop EXCEPT !.failed = TRUE]
    ELSE IF IsFull(loop, count)
    THEN [loop EXCEPT !.groups = Append(@, loop.group), !.group = <<count>>,
                      !.pointers = count]
    ELSE [loop EXCEPT !.group = Append(@, count), !.pointers = @ + count]

\* The groups, or the error and none of them.
GroupPublications(items) ==
    LET end == FoldLeft(AddItem, EmptyLoop, items)
    IN  [error  |-> end.failed,
         groups |-> IF end.failed THEN <<>>
                    ELSE IF end.group = <<>> THEN end.groups
                    ELSE Append(end.groups, end.group)]
=============================================================================
