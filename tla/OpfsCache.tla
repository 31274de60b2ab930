------------------------------ MODULE OpfsCache ------------------------------
(***************************************************************************)
(* The cache of encrypted files in the Origin Private File System          *)
(* (storage/opfsCache.js): a directory of files, and metadata that say     *)
(* which files there are and when each was used, kept in memory and        *)
(* written beside the files now and then.                                  *)
(*                                                                         *)
(* A call is one of the exported functions at work; between two awaits it  *)
(* is one step.  Metadata map a file to the time of its last access, or to *)
(* 0 if they have no entry for it.                                         *)
(***************************************************************************)
EXTENDS Integers, Sequences, FiniteSets, FiniteSetsExt

CONSTANTS
    Files,            \* ids of media
    FileSize,         \* bytes of each
    OPFS_BYTE_CAP,
    Calls,            \* calls that may overlap
    MaxCalls,         \* bound: calls begun
    MaxReloads        \* bound: reloads of the document

ASSUME OpfsAssumption ==
    /\ IsFiniteSet(Files) /\ Files # {}
    /\ FileSize \in [Files -> Nat \ {0}]
    /\ {OPFS_BYTE_CAP, MaxCalls, MaxReloads} \subseteq Nat

VARIABLES
    files,     \* the directory: "none", created and "empty", or "whole"
    stored,    \* the metadata on disk
    maps,      \* the Map objects that were made in this document
    metadataCache,  \* which of them is the module's variable, 0 for null
    call,      \* the calls
    unbounded, \* history: entries were loaded by a call that does not bound them
    begun, reloads  \* counters of the bounds

opfsVars == <<files, stored, maps, metadataCache, call, unbounded, begun, reloads>>

Metadata == [Files -> 0 .. MaxCalls]
NoEntries == [f \in Files |-> 0]
IdleCall == [op |-> "none", file |-> CHOOSE f \in Files : TRUE, step |-> "idle",
             map |-> 0, total |-> 0, sorted |-> NoEntries, written |-> NoEntries]

OpfsTypeOK ==
    /\ files \in [Files -> {"none", "empty", "whole"}]
    /\ stored \in Metadata
    /\ maps \in Seq(Metadata)
    /\ metadataCache \in 0 .. Len(maps)
    /\ \A c \in Calls :
          /\ call[c].op \in {"none", "get", "set", "delete", "clear"}
          /\ call[c].step \in {"idle", "file", "write", "metadata", "load", "evict",
                               "forget", "persist", "close"}
          /\ call[c].file \in Files
          /\ call[c].map \in 0 .. Len(maps)
          /\ call[c].step \in {"evict", "forget", "persist"} => call[c].map # 0
          /\ call[c].total \in Int
          /\ {call[c].sorted, call[c].written} \subseteq Metadata
    /\ unbounded \in BOOLEAN /\ begun \in 0 .. MaxCalls /\ reloads \in 0 .. MaxReloads

OpfsInit ==
    /\ files = [f \in Files |-> "none"]
    /\ stored = NoEntries
    /\ maps = <<>> /\ metadataCache = 0
    /\ call = [c \in Calls |-> IdleCall]
    /\ unbounded = FALSE /\ begun = 0 /\ reloads = 0

EntriesOf(map) == {f \in Files : map[f] # 0}
TotalBytes(fs) == SumFunctionOnSet(FileSize, fs)
ComputeTotalBytes(map) == TotalBytes(EntriesOf(map))

\* The files that can be read.
Whole == {f \in Files : files[f] = "whole"}

AtRest == \A c \in Calls : call[c].step = "idle"

Goes(c, step) == call' = [call EXCEPT ![c].step = step]
Returns(c)    == call' = [call EXCEPT ![c] = IdleCall]

\* All that is left to do is to write down the metadata in the map n.
WritesDown(c, n) ==
    call' = [call EXCEPT ![c] = [IdleCall EXCEPT !.step = "persist", !.map = n]]

\* A file that is written to cannot be removed.
Locked(f) == \E c \in Calls : call[c].step = "write" /\ call[c].file = f
FilesWithout(gone) == [f \in Files |-> IF f \in gone /\ ~Locked(f) THEN "none" ELSE files[f]]

-----------------------------------------------------------------------------
Begin(c, op, f) ==
    /\ call[c].step = "idle" /\ begun < MaxCalls
    /\ begun' = begun + 1
    /\ call' = [call EXCEPT ![c] = [IdleCall EXCEPT !.op = op, !.file = f, !.step = "file"]]
    /\ UNCHANGED <<files, stored, maps, metadataCache, unbounded, reloads>>

(* getCachedFile: a miss, or bytes that do not decrypt, end the call.      *)
ReadFile(c) ==
    /\ call[c].step = "file" /\ call[c].op = "get"
    /\ IF files[call[c].file] = "whole" THEN Goes(c, "metadata") ELSE Returns(c)
    /\ UNCHANGED <<files, stored, maps, metadataCache, unbounded, begun, reloads>>

(* setCachedFile creates the file and opens it.                            *)
OpenFile(c) ==
    /\ call[c].step = "file" /\ call[c].op = "set"
    /\ files' = [files EXCEPT ![call[c].file] = IF @ = "none" THEN "empty" ELSE @]
    /\ Goes(c, "write")
    /\ UNCHANGED <<stored, maps, metadataCache, unbounded, begun, reloads>>

WriteFile(c) ==
    /\ call[c].step = "write"
    /\ files' = [files EXCEPT ![call[c].file] = "whole"]
    /\ Goes(c, "metadata")
    /\ UNCHANGED <<stored, maps, metadataCache, unbounded, begun, reloads>>

\* No space, or the file is written to elsewhere: what was there stays.
WriteFails(c) ==
    /\ call[c].step = "write"
    /\ Returns(c)
    /\ UNCHANGED <<files, stored, maps, metadataCache, unbounded, begun, reloads>>

(* deleteCachedFile *)
RemoveFile(c) ==
    /\ call[c].step = "file" /\ call[c].op = "delete"
    /\ files' = FilesWithout({call[c].file})
    /\ Goes(c, "metadata")
    /\ UNCHANGED <<stored, maps, metadataCache, unbounded, begun, reloads>>

(* clearOPFSCache: whatever could be removed, the metadata start again.    *)
RemoveAll(c) ==
    /\ call[c].step = "file" /\ call[c].op = "clear"
    /\ \E gone \in SUBSET Files :
          /\ (\A f \in Files : ~Locked(f)) => gone = Files
          /\ files' = FilesWithout(gone)
    /\ maps' = Append(maps, NoEntries)
    /\ metadataCache' = Len(maps) + 1
    /\ WritesDown(c, Len(maps) + 1)
    /\ unbounded' = FALSE
    /\ UNCHANGED <<stored, begun, reloads>>

-----------------------------------------------------------------------------
(* getMetadata, and what the call does with the metadata it gets.          *)

\* enforceByteCap: if the files are too many, their times of use are noted,
\* the oldest first; 0 if the loop has passed a file.
Enforce(c, n, map) ==
    LET total == ComputeTotalBytes(map)
    IN  IF total <= OPFS_BYTE_CAP THEN Returns(c)
        ELSE call' = [call EXCEPT ![c].step = "evict", ![c].map = n, ![c].total = total,
                                  ![c].sorted = map]

\* known are the entries of the map n once the metadata have been loaded, and
\* loose says if one that does not bound them may have loaded them.
UseMetadata(c, n, known, loose) ==
    LET f == call[c].file
        Becomes(map) == maps' = [maps EXCEPT ![n] = map]
    IN  \/ /\ call[c].op = "set"
           /\ Becomes([known EXCEPT ![f] = begun])
           /\ Enforce(c, n, [known EXCEPT ![f] = begun])
           /\ unbounded' = FALSE
        \/ /\ call[c].op \in {"get", "delete"} /\ known[f] # 0
           /\ Becomes([known EXCEPT ![f] = IF call[c].op = "get" THEN begun ELSE 0])
           /\ WritesDown(c, n)
           /\ unbounded' = loose
        \/ /\ call[c].op \in {"get", "delete"} /\ known[f] = 0
           /\ Becomes(known)
           /\ Returns(c)
           /\ unbounded' = loose

GetMetadata(c) ==
    /\ call[c].step = "metadata"
    /\ IF metadataCache # 0
       THEN /\ UseMetadata(c, metadataCache, maps[metadataCache], unbounded)
            /\ UNCHANGED metadataCache
       ELSE /\ maps' = Append(maps, NoEntries)
            /\ metadataCache' = Len(maps) + 1
            /\ Goes(c, "load")
            /\ UNCHANGED unbounded
    /\ UNCHANGED <<files, stored, begun, reloads>>

\* The file of metadata is read into what is the module's variable by now.
LoadMetadata(c) ==
    /\ call[c].step = "load"
    /\ UseMetadata(c, metadataCache,
          [f \in Files |-> IF stored[f] # 0 THEN stored[f] ELSE maps[metadataCache][f]],
          TRUE)
    /\ UNCHANGED <<files, stored, metadataCache, begun, reloads>>

-----------------------------------------------------------------------------
(* The loop of enforceByteCap: entries that are gone are skipped, and their *)
(* bytes are not taken off.  "file" is now the file that is evicted.       *)
EvictFile(c) ==
    /\ call[c].step = "evict"
    /\ LET sorted == call[c].sorted
           known  == EntriesOf(sorted) \cap EntriesOf(maps[call[c].map])
       IN  \/ /\ call[c].total <= OPFS_BYTE_CAP \/ known = {}
              /\ WritesDown(c, call[c].map)
              /\ UNCHANGED files
           \/ /\ call[c].total > OPFS_BYTE_CAP
              /\ \E f \in known :
                    /\ \A g \in known : sorted[f] <= sorted[g]
                    /\ files' = FilesWithout({f})
                    /\ call' = [call EXCEPT ![c].step = "forget", ![c].file = f,
                           ![c].sorted = [g \in Files |->
                               IF g = f \/ sorted[g] < sorted[f] THEN 0 ELSE sorted[g]]]
    /\ UNCHANGED <<stored, maps, metadataCache, unbounded, begun, reloads>>

FileEvicted(c) ==
    call' = [call EXCEPT ![c].step = "evict", ![c].total = @ - FileSize[call[c].file]]

(* Mutant of ForgetFile: the entry stays.                                  *)
ForgetNothing(c) ==
    /\ call[c].step = "forget"
    /\ FileEvicted(c)
    /\ UNCHANGED <<files, stored, maps, metadataCache, unbounded, begun, reloads>>

ForgetFile(c) ==
    /\ call[c].step = "forget"
    /\ maps' = [maps EXCEPT ![call[c].map][call[c].file] = 0]
    /\ FileEvicted(c)
    /\ UNCHANGED <<files, stored, metadataCache, unbounded, begun, reloads>>

(* setMetadata: a copy of the map is written, and takes effect on closing. *)
Persist(c) ==
    /\ call[c].step = "persist"
    /\ call' = [call EXCEPT ![c] =
                   [IdleCall EXCEPT !.step = "close", !.written = maps[call[c].map]]]
    /\ UNCHANGED <<files, stored, maps, metadataCache, unbounded, begun, reloads>>

CloseMetadata(c) ==
    /\ call[c].step = "close"
    /\ stored' = call[c].written
    /\ Returns(c)
    /\ UNCHANGED <<files, maps, metadataCache, unbounded, begun, reloads>>

PersistFails(c) ==
    /\ call[c].step \in {"persist", "close"}
    /\ Returns(c)
    /\ UNCHANGED <<files, stored, maps, metadataCache, unbounded, begun, reloads>>

-----------------------------------------------------------------------------
\* The document is reloaded or closed, and the application opened again.
Reload ==
    /\ reloads < MaxReloads
    /\ reloads' = reloads + 1
    /\ maps' = <<>> /\ metadataCache' = 0
    /\ call' = [c \in Calls |-> IdleCall]
    /\ unbounded' = FALSE
    /\ UNCHANGED <<files, stored, begun>>

CallSteps(c) ==
    \/ ReadFile(c) \/ OpenFile(c) \/ WriteFile(c) \/ WriteFails(c) \/ RemoveFile(c)
    \/ RemoveAll(c) \/ GetMetadata(c) \/ LoadMetadata(c) \/ EvictFile(c) \/ ForgetFile(c)
    \/ Persist(c) \/ CloseMetadata(c) \/ PersistFails(c)

OpfsNext ==
    \/ \E c \in Calls :
          \/ \E f \in Files : \E op \in {"get", "set", "delete"} : Begin(c, op, f)
          \/ Begin(c, "clear", IdleCall.file)
          \/ CallSteps(c)
    \/ Reload

OpfsSpec == OpfsInit /\ [][OpfsNext]_opfsVars

-----------------------------------------------------------------------------
(***************************************************************************)
(* Properties.                                                             *)
(***************************************************************************)
\* The files the module knows of.
Counted == IF metadataCache = 0 THEN {} ELSE EntriesOf(maps[metadataCache])

\* However calls overlap, fail and are cut off by a reload: at rest, the entries
\* fit the cap, unless they were loaded by a read or a deletion and nothing was
\* written since.  Every loop of enforceByteCap counts the bytes of a copy of
\* the entries, which other calls add to and take from between its awaits.
EntriesFitCap ==
    AtRest /\ ~unbounded => TotalBytes(Counted) <= OPFS_BYTE_CAP

\* opfsCache.js:10 says more: "the files/ directory is bounded by OPFS_BYTE_CAP
\* bytes".  It is not: entries are only written down when a file is read,
\* evicted or deleted, so a reload forgets what was written; and a file that
\* is written again beside its deletion or eviction keeps no entry.
FilesFitCap == AtRest => TotalBytes(Whole) <= OPFS_BYTE_CAP
=============================================================================
