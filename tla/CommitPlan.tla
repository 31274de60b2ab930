----------------------------- MODULE CommitPlan -----------------------------
(***************************************************************************)
(* The batch planner of the storage Worker (worker/commitPlan.js): how the *)
(* operations of one publication, a few metadata files and many pointers   *)
(* to media objects, are split over Git commits of at most MaxOps          *)
(* operations.  Metadata may only appear in the last commit.               *)
(***************************************************************************)
EXTENDS Integers, Sequences, SequencesExt

CONSTANT MaxOps   \* MAX_HF_OPERATIONS_PER_COMMIT: operations in one commit

ASSUME MaxOpsAssumption == MaxOps \in Nat \ {0}

\* Paths of metadata files: the manifest makes a publication visible, a page
\* holds thumbnails.
Manifest == <<"manifest.enc">>
Page(i)  == <<"thumbs_page", i>>

MinOf(a, b) == IF a <= b THEN a ELSE b
MaxOf(a, b) == IF a >= b THEN a ELSE b

(***************************************************************************)
(* The arithmetic of the planner, for m metadata files and p pointers.     *)
(***************************************************************************)

BatchCount(m, p) == (m + p + MaxOps - 1) \div MaxOps

EarlyBatchCount(m, p) == BatchCount(m, p) - 1

\* The last commit is filled with pointers first, leaving the early ones
\* for the rest: metadata and pointers overrun it.
FinalPointersFirst(m, p) == MinOf(p, MaxOps)

FinalPointerCount(m, p) == MaxOf(0, p - EarlyBatchCount(m, p) * MaxOps)

EarlyPointerCount(m, p) == p - FinalPointerCount(m, p)

\* The loop without offset += take.
StuckOffset(m, p, i) == 0

\* The planner's running offset when early batch i (from 0) starts: every
\* earlier iteration took MaxOps pointers, or what was left of them.
EarlyOffset(m, p, i) == MinOf(i * MaxOps, EarlyPointerCount(m, p))

\* Pointers that early batch i carries.
EarlyTake(m, p, i) == MinOf(MaxOps, EarlyPointerCount(m, p) - EarlyOffset(m, p, i))

(***************************************************************************)
(* The plan itself: a sequence of commits, each with its metadata files    *)
(* and its pointers.                                                       *)
(***************************************************************************)

WithManifest(files, path) == IF path = Manifest THEN Append(files, path) ELSE files
WithOther(files, path)    == IF path # Manifest THEN Append(files, path) ELSE files

\* Whatever its place in the request, the manifest is emitted last.
OrderedMetadata(metadata) ==
    FoldLeft(WithOther, <<>>, metadata) \o FoldLeft(WithManifest, <<>>, metadata)

\* The earlier planner: one sequence of operations, cut every MaxOps.
SlicedBatches(metadata, pointers) ==
    LET m == Len(metadata)
        p == Len(pointers)
    IN  [i \in 1 .. BatchCount(m, p) |->
            [files |-> SubSeq(metadata, (i - 1) * MaxOps + 1, MinOf(i * MaxOps, m)),
             lfs   |-> SubSeq(pointers,
                              MaxOf(0, (i - 1) * MaxOps - m) + 1,
                              MinOf(MaxOf(0, i * MaxOps - m), p))]]

PlanAtomicCommitBatches(metadata, pointers) ==
    LET m     == Len(metadata)
        p     == Len(pointers)
        early == EarlyBatchCount(m, p)
    IN  [i \in 1 .. BatchCount(m, p) |->
            IF i <= early
            THEN [files |-> <<>>,
                  lfs   |-> SubSeq(pointers,
                                   EarlyOffset(m, p, i - 1) + 1,
                                   EarlyOffset(m, p, i - 1) + EarlyTake(m, p, i - 1))]
            ELSE [files |-> OrderedMetadata(metadata),
                  lfs   |-> SubSeq(pointers, EarlyOffset(m, p, early) + 1, p)]]

\* MetadataBatchTooLargeError: the metadata cannot be one atomic commit.
MetadataTooLarge(metadata) == Len(metadata) > MaxOps
=============================================================================
