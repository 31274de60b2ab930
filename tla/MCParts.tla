------------------------------- MODULE MCParts ------------------------------
(***************************************************************************)
(* Checks parts of the system that do not meet in one state: the two       *)
(* algorithms that cut a publication up, the service worker that streams   *)
(* videos, and three parts of the Worker: its check of Access tokens, the  *)
(* first initialisation of a vault, and the transfer of one object.  A     *)
(* behaviour is about one part, chosen at the start; the others stay in    *)
(* their initial states.                                                   *)
(*                                                                         *)
(* The algorithms are checked on every input up to a bound.  A state is an *)
(* input: a request for the planner of the Worker, the manifest first as   *)
(* the request handler builds it, a batch for the grouping of the client,  *)
(* or a Range header.                                                      *)
(***************************************************************************)
EXTENDS CommitPlan, PublicationGroups, StreamWorker, AccessKeys, VaultInit,
        WorkerUpload

CONSTANTS MaxPages,       \* bound: thumbnail pages in one publication
          MaxPointerOps,  \* bound: pointers in one publication
          MaxLen,         \* bound: items in one batch
          k1, k2          \* the names of signing keys

VARIABLES part,    \* what this behaviour is about
          pages,   \* thumbnail pages in the request
          lfs,     \* pointers in the request
          header,  \* a Range header
          items    \* the pointer count of each item, in upload order

inputs == <<pages, lfs, header, items>>
vars == <<part, inputs, streamVars, accessVars, initVars, uploadVars>>

Metadata == <<Manifest>> \o [i \in 1 .. pages |-> Page(i - 1)]
Pointers == [i \in 1 .. lfs |-> i]
Plan     == PlanAtomicCommitBatches(Metadata, Pointers)

Groups            == GroupPublications(items).groups
PointersOf(group) == FoldLeft(+, 0, group)

\* Any header, up to one byte past the end of the medium.
Headers ==
    LET Position == (0 .. MediaSize + 1) \cup {Absent}
    IN  [from : Position, to : Position] \cup {Absent}

Parts == {"plans", "ranges", "stream", "access", "init", "upload"}

\* The choices of one part are not those of another.
Init ==
    /\ part \in Parts
    /\ pages = 0 /\ lfs = 0 /\ items = <<>>
    /\ IF part = "ranges" THEN header \in Headers ELSE header = Absent
    /\ StreamInit
    /\ AccessInit   /\ (part # "access" => env = "ok")
    /\ VaultInitInit /\ (part # "init" => history = <<>>)
    /\ WorkerUploadInit /\ (part # "upload" => verifies)

AddPage ==
    /\ items = <<>>
    /\ pages < MaxPages
    /\ pages' = pages + 1
    /\ UNCHANGED <<lfs, header, items>>

AddPointer ==
    /\ items = <<>>
    /\ lfs < MaxPointerOps
    /\ lfs' = lfs + 1
    /\ UNCHANGED <<pages, header, items>>

\* Another upload of the batch finishes, or one that no group can hold.
Finish ==
    /\ pages = 0 /\ lfs = 0
    /\ Len(items) < MaxLen
    /\ \E count \in 0 .. MaxPointers + 1 : items' = Append(items, count)
    /\ UNCHANGED <<pages, lfs, header>>

PlansNext == AddPage \/ AddPointer \/ Finish

Next ==
    /\ UNCHANGED part
    /\ \/ /\ part = "plans" /\ PlansNext
          /\ UNCHANGED <<streamVars, accessVars, initVars, uploadVars>>
       \/ /\ part = "stream" /\ StreamNext
          /\ UNCHANGED <<inputs, accessVars, initVars, uploadVars>>
       \/ /\ part = "access" /\ AccessNext
          /\ UNCHANGED <<inputs, streamVars, initVars, uploadVars>>
       \/ /\ part = "init" /\ VaultInitNext
          /\ UNCHANGED <<inputs, streamVars, accessVars, uploadVars>>
       \/ /\ part = "upload" /\ WorkerUploadNext
          /\ UNCHANGED <<inputs, streamVars, accessVars, initVars>>

\* No fair action of a part can be taken before something has been asked of
\* that part, so the fairness of one part says nothing about another.
Spec ==
    /\ Init /\ [][Next]_vars
    /\ StreamFairness /\ AccessFairness /\ VaultInitFairness /\ WorkerUploadFairness

\* Ranges that are asked for in TLC: one that starts inside the first chunk
\* and goes past the end.
OneRange == {[from |-> 1, to |-> MediaSize + 1]}

\* A token of the first key, one of the second with little time, one that
\* names a key that did not sign it, and one that is refused before.
SomeTokens ==
    {[kid |-> k1, signer |-> k1, exp |-> MaxTime + 1, nbf |-> 0, wrong |-> "none"],
     [kid |-> k2, signer |-> k2, exp |-> MaxTime - 1, nbf |-> 1, wrong |-> "none"],
     [kid |-> k1, signer |-> k2, exp |-> MaxTime + 1, nbf |-> 0, wrong |-> "none"],
     [kid |-> k1, signer |-> k1, exp |-> MaxTime + 1, nbf |-> 0, wrong |-> "alg"]}

(***************************************************************************)
(* Properties of the planner.                                              *)
(***************************************************************************)

\* No pointer is dropped, repeated or reordered by the split: the commits of
\* hfGitCommitBatch together stage exactly what the request named, and the
\* closed form used above for the planner's running offset is the loop of the
\* code, iterated.
EveryPointerOnce ==
    LET m     == Len(Metadata)
        early == EarlyPointerCount(m, lfs)
        loop[i \in 0 .. EarlyBatchCount(m, lfs)] ==
            IF i = 0 THEN 0
            ELSE loop[i - 1] + MinOf(MaxOps, early - loop[i - 1])
    IN  ~MetadataTooLarge(Metadata) =>
            /\ FlattenSeq([i \in DOMAIN Plan |-> Plan[i].lfs]) = Pointers
            /\ \A i \in DOMAIN loop : EarlyOffset(m, lfs, i) = loop[i]

\* Every commit is non-empty and within the storage service's operation
\* limit, the last one included, which also carries all the metadata.
EveryCommitFits ==
    ~MetadataTooLarge(Metadata) =>
        \A i \in DOMAIN Plan :
            Len(Plan[i].files) + Len(Plan[i].lfs) \in 1 .. MaxOps

\* A reader never sees a page from this publication under the manifest of
\* the one before: all metadata is in the last commit, manifest last of all.
MetadataOnlyInLastCommit ==
    LET final == Plan[Len(Plan)].files
    IN  /\ \A i \in 1 .. Len(Plan) - 1 : Plan[i].files = <<>>
        /\ ToSet(final) = ToSet(Metadata)
        /\ Len(final) = Len(Metadata)
        /\ final[Len(final)] = Manifest

\* Whatever a publication holds, its split is complete, within the limit and
\* safe to read between its commits.
PlanIsRight == EveryPointerOnce /\ EveryCommitFits /\ MetadataOnlyInLastCommit

(***************************************************************************)
(* Property of the grouping.                                               *)
(***************************************************************************)

\* Every finished upload is published in exactly one group, in order; no
\* group exceeds the client's limits, which keep it below the Worker's limit
\* on pointers per request; and a group is closed only for want of room: the
\* first item of the next one would have exceeded a limit.  One item that no
\* group can hold, wherever it is, keeps the whole batch from being published.
GroupsAreRight ==
    IF \E i \in DOMAIN items : items[i] \notin 1 .. MaxPointers
    THEN GroupPublications(items).error /\ Groups = <<>>
    ELSE /\ ~GroupPublications(items).error
         /\ FlattenSeq(Groups) = items
         /\ \A i \in DOMAIN Groups :
               Len(Groups[i]) \in 1 .. MaxItems /\ PointersOf(Groups[i]) <= MaxPointers
         /\ \A i \in 1 .. Len(Groups) - 1 :
               \/ Len(Groups[i]) = MaxItems
               \/ PointersOf(Groups[i]) + Groups[i + 1][1] > MaxPointers

\* Nothing is lost, repeated or too large, whichever way a batch of uploads
\* is cut into publications, and a publication into commits.
CutsAreRight == part = "plans" => PlanIsRight /\ GroupsAreRight

(***************************************************************************)
(* Property of the ranges.                                                 *)
(***************************************************************************)

\* parseRange refuses a header exactly when it names no byte there is, and
\* otherwise returns the first and the last of those it names; and what is
\* then sent are these bytes.
RangesRight ==
    /\ part = "ranges" =>
          LET range == ParseRange(header)
          IN  Requested(header) = IF range = Absent THEN {}
                                  ELSE range.start .. range.end
    /\ RangeServed

(***************************************************************************)
(* Properties of all parts.                                                *)
(***************************************************************************)

\* Every part keeps to its types.
PartsTypeOK ==
    CASE part = "stream"  -> StreamTypeOK
      [] part = "access"  -> AccessTypeOK
      [] part = "init"    -> VaultInitTypeOK
      [] part = "upload"  -> WorkerUploadTypeOK
      [] OTHER            -> header \in Headers

\* Something was asked of the part that it has not answered yet: a request
\* that waits for keys, a submit, or an upload.
Unfinished ==
    CASE part = "access"  -> verifying # {}
      [] part = "init"    -> \E p \in Pages : opening[p].step # "idle"
      [] part = "upload"  -> \E u \in Uploads : up[u].step \notin {"none", "ended"}
      [] OTHER            -> FALSE

\* Nothing that was asked for stays unanswered: no body hangs on a permit or
\* on the load of another body, no request waits for keys forever, and no
\* submit and no upload hangs, however the steps interleave and fail.  What
\* can be asked for is bounded but for the bodies, so it is enough that each
\* body, and all the rest, come to rest again and again.
WorkEnds ==
    /\ []<>~Unfinished
    /\ \A b \in Bodies : []<>(body[b].phase # "await")
=============================================================================
