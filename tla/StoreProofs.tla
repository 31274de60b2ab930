----------------------------- MODULE StoreProofs ----------------------------
(***************************************************************************)
(* Proofs about what is kept: the files that OpfsCache keeps on disk, and  *)
(* the thumbnails that ThumbPages publishes.                               *)
(***************************************************************************)
EXTENDS OpfsCache, ThumbPages, Sums, FiniteSetTheorems, TLAPS

-----------------------------------------------------------------------------
(***************************************************************************)
(* The files on disk: types, for any number of calls that overlap.         *)
(***************************************************************************)
CallRecord ==
    [op : {"none", "get", "set", "delete", "clear"}, file : Files,
     step : {"idle", "file", "write", "metadata", "load", "evict", "forget",
             "persist", "close"},
     map : Nat, total : Int, sorted : Metadata, written : Metadata]

\* A call under way has been begun, and works on a map that there is.
CallOK(r, ms, current, n) ==
    /\ r \in CallRecord
    /\ r.map \in 0 .. Len(ms)
    /\ r.step \in {"evict", "forget", "persist"} => r.map # 0
    /\ r.step = "load" => current # 0
    /\ r.step # "idle" => n > 0

OpfsInv ==
    /\ files \in [Files -> {"none", "empty", "whole"}]
    /\ stored \in Metadata
    /\ maps \in Seq(Metadata)
    /\ metadataCache \in 0 .. Len(maps)
    /\ unbounded \in BOOLEAN
    /\ begun \in 0 .. MaxCalls /\ reloads \in 0 .. MaxReloads
    /\ call = [c \in Calls |-> call[c]]
    /\ \A c \in Calls : CallOK(call[c], maps, metadataCache, begun)

LEMMA IdleCallOK ==
    /\ IdleCall \in CallRecord /\ IdleCall.step = "idle" /\ IdleCall.map = 0
    /\ IdleCall.op = "none" /\ IdleCall.file \in Files
<1>1. Files # {} /\ 0 \in 0 .. MaxCalls  BY OpfsAssumption
<1>2. NoEntries \in Metadata  BY <1>1 DEF NoEntries, Metadata
<1>3. (CHOOSE f \in Files : TRUE) \in Files  BY <1>1
<1> QED  BY <1>2, <1>3 DEF IdleCall, CallRecord

LEMMA OpfsInvTypes == OpfsInv => OpfsTypeOK
  BY DEF OpfsInv, CallOK, CallRecord, OpfsTypeOK

\* One call moves on, and the others are what they were.
LEMMA OneCallMoves ==
    ASSUME OpfsInv, NEW c \in Calls, NEW r, call' = [call EXCEPT ![c] = r],
           maps' \in Seq(Metadata), Len(maps') >= Len(maps),
           metadataCache' \in 0 .. Len(maps'),
           metadataCache # 0 => metadataCache' # 0,
           CallOK(r, maps', metadataCache', begun'), begun' \in Nat, begun' >= begun
    PROVE  /\ call' = [d \in Calls |-> call'[d]]
           /\ \A d \in Calls : CallOK(call'[d], maps', metadataCache', begun')
           /\ call'[c] = r
<1>1. call = [d \in Calls |-> call[d]] /\ \A d \in Calls : CallOK(call[d], maps, metadataCache, begun)
  BY DEF OpfsInv
<1>2. call' = [d \in Calls |-> IF d = c THEN r ELSE call[d]]
  BY <1>1
<1>3. Len(maps) \in Nat /\ Len(maps') \in Nat /\ begun \in Nat
  BY DEF OpfsInv
<1>4. ASSUME NEW d \in Calls, d # c
      PROVE  CallOK(call[d], maps', metadataCache', begun')
  <2>1. CallOK(call[d], maps, metadataCache, begun)  BY <1>1
  <2>2. 0 .. Len(maps) \subseteq 0 .. Len(maps')  BY <1>3
  <2>3. begun > 0 => begun' > 0  BY <1>3
  <2> QED  BY <2>1, <2>2, <2>3 DEF CallOK
<1> QED  BY <1>2, <1>4

\* The case in which neither maps nor counters change.
LEMMA OneCallGoes ==
    ASSUME OpfsInv, NEW c \in Calls, NEW r, call' = [call EXCEPT ![c] = r],
           CallOK(r, maps, metadataCache, begun),
           UNCHANGED <<stored, maps, metadataCache, begun, reloads>>,
           files' \in [Files -> {"none", "empty", "whole"}],
           unbounded' \in BOOLEAN
    PROVE  OpfsInv' /\ call'[c] = r
<1>1. /\ maps \in Seq(Metadata) /\ metadataCache \in 0 .. Len(maps) /\ begun \in Nat
      /\ Len(maps) \in Nat
  BY DEF OpfsInv
<1>2. /\ call' = [d \in Calls |-> call'[d]]
      /\ \A d \in Calls : CallOK(call'[d], maps', metadataCache', begun')
      /\ call'[c] = r
  <2>1. /\ maps' \in Seq(Metadata) /\ Len(maps') >= Len(maps)
        /\ metadataCache' \in 0 .. Len(maps')
        /\ (metadataCache # 0 => metadataCache' # 0)
        /\ CallOK(r, maps', metadataCache', begun') /\ begun' \in Nat /\ begun' >= begun
    BY <1>1
  <2> QED  BY <2>1, OneCallMoves
<1> QED  BY <1>2 DEF OpfsInv

\* Times of use, and the metadata that the calls make of others.
LEMMA MetadataMoves ==
    /\ NoEntries \in Metadata
    /\ \A map \in Metadata : \A f \in Files, t \in 0 .. MaxCalls :
          [map EXCEPT ![f] = t] \in Metadata
    /\ \A map, old \in Metadata :
          [f \in Files |-> IF old[f] # 0 THEN old[f] ELSE map[f]] \in Metadata
<1>1. 0 \in 0 .. MaxCalls  BY OpfsAssumption
<1> QED  BY <1>1 DEF NoEntries, Metadata

\* A call that is left with writing down a map.
LEMMA WritesDownOK ==
    ASSUME OpfsInv, NEW c \in Calls, NEW n \in Nat, WritesDown(c, n)
    PROVE  \E r \in CallRecord : /\ call' = [call EXCEPT ![c] = r]
                                 /\ r.map = n /\ r.step = "persist"
<1> DEFINE a == [IdleCall EXCEPT !.step = "persist"]
           r == [a EXCEPT !.map = n]
<1>1. call' = [call EXCEPT ![c] = r]  BY DEF WritesDown
<1>2. a \in CallRecord /\ a.step = "persist"  BY IdleCallOK DEF CallRecord
<1> HIDE DEF a
<1>3. r \in CallRecord /\ r.map = n /\ r.step = "persist"  BY <1>2 DEF CallRecord
<1> QED  BY <1>1, <1>3

LEMMA FilesRemain ==
    ASSUME OpfsInv, NEW gone
    PROVE  FilesWithout(gone) \in [Files -> {"none", "empty", "whole"}]
  BY DEF OpfsInv, FilesWithout

\* Steps that change neither metadata nor counters.
LEMMA StepsOfFiles ==
    ASSUME OpfsInv, NEW c \in Calls,
           \/ ReadFile(c) \/ OpenFile(c) \/ WriteFile(c) \/ WriteFails(c) \/ RemoveFile(c)
           \/ PersistFails(c)
    PROVE  OpfsInv'
<1> DEFINE r == call[c]
           Kept == UNCHANGED <<stored, maps, metadataCache, begun, reloads>>
<1>1. CallOK(r, maps, metadataCache, begun) /\ r.file \in Files
  BY DEF OpfsInv, CallOK, CallRecord
<1>2. CallOK(IdleCall, maps, metadataCache, begun)
  BY IdleCallOK DEF OpfsInv, CallOK
<1>3. ASSUME NEW q, call' = [call EXCEPT ![c] = q], Kept,
             CallOK(q, maps, metadataCache, begun),
             files' \in [Files -> {"none", "empty", "whole"}], unbounded' \in BOOLEAN
      PROVE  OpfsInv'
  BY <1>3, OneCallGoes
<1>4. ASSUME NEW step \in {"metadata", "write"}, r.step # "idle"
      PROVE  CallOK([r EXCEPT !.step = step], maps, metadataCache, begun)
  BY <1>1, <1>4 DEF CallOK, CallRecord
<1>5. files \in [Files -> {"none", "empty", "whole"}] /\ unbounded \in BOOLEAN
  BY DEF OpfsInv
<1>6. CASE ReadFile(c)
  <2>1. Kept /\ UNCHANGED <<files, unbounded>> /\ r.step = "file"
    BY <1>6 DEF ReadFile
  <2>2. \/ call' = [call EXCEPT ![c] = IdleCall]
        \/ call' = [call EXCEPT ![c] = [r EXCEPT !.step = "metadata"]]
    BY <1>6 DEF ReadFile, Goes, Returns
  <2> QED  BY <1>2, <1>3, <1>4, <1>5, <2>1, <2>2
<1>7. CASE OpenFile(c)
  <2>1. Kept /\ UNCHANGED unbounded /\ r.step = "file"
    BY <1>7 DEF OpenFile
  <2>2. call' = [call EXCEPT ![c] = [r EXCEPT !.step = "write"]]
    BY <1>7 DEF OpenFile, Goes
  <2>3. files' \in [Files -> {"none", "empty", "whole"}]
    BY <1>1, <1>5, <1>7 DEF OpenFile
  <2> QED  BY <1>3, <1>4, <1>5, <2>1, <2>2, <2>3
<1>8. CASE WriteFile(c)
  <2>1. Kept /\ unbounded' \in BOOLEAN /\ r.step = "write"
    BY <1>5, <1>8 DEF WriteFile
  <2>2. call' = [call EXCEPT ![c] = [r EXCEPT !.step = "metadata"]]
    BY <1>8 DEF WriteFile, Goes
  <2>3. files' \in [Files -> {"none", "empty", "whole"}]
    BY <1>1, <1>5, <1>8 DEF WriteFile
  <2> QED  BY <1>3, <1>4, <2>1, <2>2, <2>3
<1>9. CASE RemoveFile(c)
  <2>1. Kept /\ UNCHANGED unbounded /\ r.step = "file"
    BY <1>9 DEF RemoveFile
  <2>2. call' = [call EXCEPT ![c] = [r EXCEPT !.step = "metadata"]]
    BY <1>9 DEF RemoveFile, Goes
  <2>3. files' \in [Files -> {"none", "empty", "whole"}]
    BY <1>9, FilesRemain DEF RemoveFile
  <2> QED  BY <1>3, <1>4, <1>5, <2>1, <2>2, <2>3
<1>10. CASE WriteFails(c) \/ PersistFails(c)
  <2>1. Kept /\ UNCHANGED <<files, unbounded>>
        /\ call' = [call EXCEPT ![c] = IdleCall]
    BY <1>10 DEF WriteFails, PersistFails, Returns
  <2> QED  BY <1>2, <1>3, <1>5, <2>1
<1> QED  BY <1>6, <1>7, <1>8, <1>9, <1>10

LEMMA StepBegin ==
    ASSUME OpfsInv, NEW c \in Calls, NEW f \in Files,
           NEW op \in {"get", "set", "delete", "clear"}, Begin(c, op, f)
    PROVE  OpfsInv'
<1> DEFINE r == [IdleCall EXCEPT !.op = op, !.file = f, !.step = "file"]
<1>1. /\ call' = [call EXCEPT ![c] = r] /\ begun' = begun + 1 /\ begun < MaxCalls
      /\ UNCHANGED <<files, stored, maps, metadataCache, unbounded, reloads>>
  BY DEF Begin
<1>2. begun \in Nat /\ begun' \in 0 .. MaxCalls /\ begun' > 0 /\ begun' >= begun
      /\ maps \in Seq(Metadata) /\ Len(maps) \in Nat /\ metadataCache \in 0 .. Len(maps)
  BY <1>1, OpfsAssumption DEF OpfsInv
<1>3. r \in CallRecord /\ r.map = 0 /\ r.step = "file"
  BY IdleCallOK DEF CallRecord
<1> HIDE DEF r
<1>4. CallOK(r, maps', metadataCache', begun')
  BY <1>1, <1>2, <1>3 DEF CallOK
<1>5. /\ call' = [d \in Calls |-> call'[d]]
      /\ \A d \in Calls : CallOK(call'[d], maps', metadataCache', begun')
  <2>1. /\ maps' \in Seq(Metadata) /\ Len(maps') >= Len(maps)
        /\ metadataCache' \in 0 .. Len(maps')
        /\ (metadataCache # 0 => metadataCache' # 0) /\ begun' \in Nat
    BY <1>1, <1>2
  <2> QED  BY <1>1, <1>2, <1>4, <2>1, OneCallMoves
<1> QED  BY <1>1, <1>2, <1>5 DEF OpfsInv

LEMMA StepRemoveAll ==
    ASSUME OpfsInv, NEW c \in Calls, RemoveAll(c)
    PROVE  OpfsInv'
<1>1. /\ call[c].step = "file"
      /\ maps' = Append(maps, NoEntries) /\ metadataCache' = Len(maps) + 1
      /\ UNCHANGED <<stored, begun, reloads>> /\ unbounded' \in BOOLEAN
      /\ WritesDown(c, Len(maps) + 1)
      /\ \E gone \in SUBSET Files : files' = FilesWithout(gone)
  BY DEF RemoveAll
<1>3. /\ CallOK(call[c], maps, metadataCache, begun) /\ maps \in Seq(Metadata)
      /\ Len(maps) \in Nat /\ begun \in Nat
  BY DEF OpfsInv
<1>4. maps' \in Seq(Metadata) /\ Len(maps') = Len(maps) + 1
  BY <1>1, <1>3, MetadataMoves
<1> DEFINE n == Len(maps) + 1
<1>N. n \in Nat /\ n = Len(maps) + 1 /\ WritesDown(c, n)  BY <1>1, <1>3
<1> HIDE DEF n
<1>5. PICK r \in CallRecord :
          call' = [call EXCEPT ![c] = r] /\ r.map = n /\ r.step = "persist"
  BY <1>N, WritesDownOK
<1>2. call' = [call EXCEPT ![c] = r] /\ begun > 0  BY <1>1, <1>3, <1>5 DEF CallOK
<1>6. CallOK(r, maps', metadataCache', begun')
  BY <1>1, <1>2, <1>3, <1>4, <1>5, <1>N DEF CallOK
<1>7. /\ call' = [d \in Calls |-> call'[d]]
      /\ \A d \in Calls : CallOK(call'[d], maps', metadataCache', begun')
  <2>1. /\ Len(maps') >= Len(maps) /\ metadataCache' \in 0 .. Len(maps')
        /\ metadataCache' # 0 /\ begun' \in Nat /\ begun' >= begun
    BY <1>1, <1>3, <1>4
  <2> QED  BY <1>2, <1>4, <1>6, <2>1, OneCallMoves
<1>8. files' \in [Files -> {"none", "empty", "whole"}]
  BY <1>1, FilesRemain
<1> QED  BY <1>1, <1>3, <1>4, <1>7, <1>8 DEF OpfsInv

\* What a call goes on with once it knows the entries of the map n.
GoesOnWith(c, n) ==
    \/ call' = [call EXCEPT ![c] = IdleCall]
    \/ WritesDown(c, n)
    \/ \E map \in Metadata, total \in Int :
          call' = [call EXCEPT ![c].step = "evict", ![c].map = n,
                               ![c].total = total, ![c].sorted = map]

OnMap(r, n) ==
    /\ r \in CallRecord /\ r.step \in {"idle", "persist", "evict"}
    /\ r.map = n \/ (r.map = 0 /\ r.step = "idle")

LEMMA CallGoesOn ==
    ASSUME OpfsInv, NEW c \in Calls, NEW n \in Nat, GoesOnWith(c, n)
    PROVE  \E r : call' = [call EXCEPT ![c] = r] /\ OnMap(r, n)
<1>1. call[c] \in CallRecord /\ call = [d \in Calls |-> call[d]]
  BY DEF OpfsInv, CallOK
<1>2. CASE call' = [call EXCEPT ![c] = IdleCall]
  BY <1>2, IdleCallOK DEF OnMap
<1>3. CASE WritesDown(c, n)  BY <1>3, WritesDownOK DEF OnMap
<1>4. ASSUME NEW map \in Metadata, NEW total \in Int,
             call' = [call EXCEPT ![c].step = "evict", ![c].map = n,
                                  ![c].total = total, ![c].sorted = map]
      PROVE  \E r : call' = [call EXCEPT ![c] = r] /\ OnMap(r, n)
  <2> DEFINE a == [call[c] EXCEPT !.step = "evict"]
             b == [a EXCEPT !.map = n]
             d == [b EXCEPT !.total = total]
             r == [d EXCEPT !.sorted = map]
  <2>1. a \in CallRecord /\ a.step = "evict"  BY <1>1 DEF CallRecord
  <2>2. call' = [call EXCEPT ![c] = r]  BY <1>1, <1>4
  <2> HIDE DEF a
  <2>3. b \in CallRecord /\ b.map = n /\ b.step = "evict"  BY <2>1 DEF CallRecord
  <2> HIDE DEF b
  <2>4. d \in CallRecord /\ d.map = n /\ d.step = "evict"  BY <2>3 DEF CallRecord
  <2> HIDE DEF d
  <2>5. r \in CallRecord /\ r.map = n /\ r.step = "evict"  BY <2>4 DEF CallRecord
  <2> QED  BY <2>2, <2>5 DEF OnMap
<1> QED  BY <1>2, <1>3, <1>4 DEF GoesOnWith

LEMMA UseKeeps ==
    ASSUME OpfsInv, NEW c \in Calls, NEW n, GoesOnWith(c, n),
           call[c].step \in {"metadata", "load"},
           maps' \in Seq(Metadata), Len(maps') >= Len(maps), n \in 1 .. Len(maps'),
           metadataCache' = n, unbounded' \in BOOLEAN,
           UNCHANGED <<files, stored, begun, reloads>>
    PROVE  OpfsInv'
<1>1. /\ n \in Nat /\ n # 0 /\ n \in 0 .. Len(maps') /\ 0 \in 0 .. Len(maps')
      /\ begun \in Nat /\ begun > 0
  BY DEF OpfsInv, CallOK
<1>2. PICK r : call' = [call EXCEPT ![c] = r] /\ OnMap(r, n)
  BY <1>1, CallGoesOn
<1>3. CallOK(r, maps', metadataCache', begun')
  BY <1>1, <1>2 DEF OnMap, CallOK
<1>4. /\ call' = [d \in Calls |-> call'[d]]
      /\ \A d \in Calls : CallOK(call'[d], maps', metadataCache', begun')
  <2>1. /\ metadataCache' \in 0 .. Len(maps') /\ metadataCache' # 0
        /\ begun' \in Nat /\ begun' >= begun
    BY <1>1
  <2> QED  BY <1>2, <1>3, <2>1, OneCallMoves
<1> QED  BY <1>1, <1>4 DEF OpfsInv

\* The metadata a call makes of those it knows, and how it goes on.
LEMMA UseGoesOn ==
    ASSUME OpfsInv, NEW c \in Calls, NEW n, NEW known \in Metadata,
           NEW loose \in BOOLEAN, UseMetadata(c, n, known, loose)
    PROVE  /\ GoesOnWith(c, n) /\ unbounded' \in BOOLEAN
           /\ \E map \in Metadata : maps' = [maps EXCEPT ![n] = map]
<1>1. call[c].file \in Files /\ begun \in 0 .. MaxCalls /\ 0 \in 0 .. MaxCalls
  BY OpfsAssumption DEF OpfsInv, CallOK, CallRecord
<1> DEFINE f == call[c].file
           used == [known EXCEPT ![f] = begun]
           gone == [known EXCEPT ![f] = 0]
<1>2. used \in Metadata /\ gone \in Metadata
  BY <1>1, MetadataMoves
<1>0. unbounded' \in BOOLEAN  BY DEF UseMetadata
<1>3. CASE maps' = [maps EXCEPT ![n] = used] /\ Enforce(c, n, used)
  <2>1. ComputeTotalBytes(used) \in Int
    <3>1. EntriesOf(used) \in SUBSET Files  BY DEF EntriesOf
    <3>2. IsFiniteSet(Files) /\ \A g \in Files : FileSize[g] \in Nat  BY OpfsAssumption
    <3>3. TotalBytes(EntriesOf(used)) \in Nat  BY <3>1, <3>2, SumShrinks DEF TotalBytes
    <3> QED  BY <3>3 DEF ComputeTotalBytes
  <2> HIDE DEF used
  <2>2. GoesOnWith(c, n)  BY <1>2, <1>3, <2>1 DEF Enforce, Returns, GoesOnWith
  <2> QED  BY <1>0, <1>2, <1>3, <2>2
<1>4. CASE /\ \E map \in {used, gone} : maps' = [maps EXCEPT ![n] = map]
           /\ WritesDown(c, n)
  BY <1>0, <1>2, <1>4 DEF GoesOnWith
<1>5. CASE maps' = [maps EXCEPT ![n] = known] /\ Returns(c)
  BY <1>0, <1>5 DEF GoesOnWith, Returns
<1> QED  BY <1>0, <1>3, <1>4, <1>5 DEF UseMetadata

LEMMA StepsOfMetadata ==
    ASSUME OpfsInv, NEW c \in Calls, GetMetadata(c) \/ LoadMetadata(c)
    PROVE  OpfsInv'
<1>1. /\ maps \in Seq(Metadata) /\ Len(maps) \in Nat /\ metadataCache \in 0 .. Len(maps)
      /\ stored \in Metadata /\ CallOK(call[c], maps, metadataCache, begun)
      /\ begun \in Nat /\ call = [d \in Calls |-> call[d]]
  BY DEF OpfsInv
<1>2. ASSUME metadataCache # 0, NEW known \in Metadata,
             NEW loose \in BOOLEAN, UseMetadata(c, metadataCache, known, loose),
             call[c].step \in {"metadata", "load"},
             UNCHANGED <<files, stored, metadataCache, begun, reloads>>
      PROVE  OpfsInv'
  <2> DEFINE n == metadataCache
  <2>1. n \in 1 .. Len(maps)  BY <1>1, <1>2
  <2>0. UseMetadata(c, n, known, loose)  BY <1>2
  <2> HIDE DEF n
  <2>2. GoesOnWith(c, n) /\ unbounded' \in BOOLEAN
        /\ \E map \in Metadata : maps' = [maps EXCEPT ![n] = map]
    BY <2>0, UseGoesOn
  <2>3. PICK map \in Metadata : maps' = [maps EXCEPT ![n] = map]  BY <2>2
  <2>4. maps' \in Seq(Metadata) /\ Len(maps') = Len(maps)  BY <1>1, <2>1, <2>3
  <2>5. Len(maps') >= Len(maps) /\ n \in 1 .. Len(maps')  BY <1>1, <2>1, <2>4
  <2>6. metadataCache' = n  BY <1>2 DEF n
  <2> QED  BY <1>2, <2>2, <2>4, <2>5, <2>6, UseKeeps
<1>3. CASE GetMetadata(c) /\ metadataCache # 0
  <2>1. maps[metadataCache] \in Metadata /\ unbounded \in BOOLEAN
    BY <1>1, <1>3 DEF OpfsInv
  <2> QED  BY <1>2, <1>3, <2>1 DEF GetMetadata
<1>4. CASE LoadMetadata(c)
  <2>1. metadataCache # 0  BY <1>1, <1>4 DEF LoadMetadata, CallOK
  <2>2. maps[metadataCache] \in Metadata  BY <1>1, <2>1
  <2>3. [f \in Files |-> IF stored[f] # 0 THEN stored[f] ELSE maps[metadataCache][f]]
          \in Metadata
    BY <1>1, <2>2, MetadataMoves
  <2> QED  BY <1>2, <1>4, <2>1, <2>3 DEF LoadMetadata
<1>5. CASE GetMetadata(c) /\ metadataCache = 0
  <2> DEFINE r == [call[c] EXCEPT !.step = "load"]
  <2>1. /\ maps' = Append(maps, NoEntries) /\ metadataCache' = Len(maps) + 1
        /\ call' = [call EXCEPT ![c] = r] /\ call[c].step = "metadata"
        /\ UNCHANGED <<files, stored, unbounded, begun, reloads>>
    BY <1>5 DEF GetMetadata, Goes
  <2>2. maps' \in Seq(Metadata) /\ Len(maps') = Len(maps) + 1
    BY <1>1, <2>1, MetadataMoves
  <2>3. r \in CallRecord /\ r.map = call[c].map /\ r.step = "load" /\ begun > 0
    BY <1>1, <2>1 DEF CallOK, CallRecord
  <2> HIDE DEF r
  <2>4. CallOK(r, maps', metadataCache', begun')
    <3>1. r.map \in 0 .. Len(maps')  BY <1>1, <2>2, <2>3 DEF CallOK
    <3>2. metadataCache' # 0 /\ begun' > 0  BY <1>1, <2>1, <2>3
    <3> QED  BY <2>3, <3>1, <3>2 DEF CallOK
  <2>5. /\ call' = [d \in Calls |-> call'[d]]
        /\ \A d \in Calls : CallOK(call'[d], maps', metadataCache', begun')
    <3>1. /\ Len(maps') >= Len(maps) /\ metadataCache' \in 0 .. Len(maps')
          /\ metadataCache' # 0 /\ begun' \in Nat /\ begun' >= begun
      BY <1>1, <2>1, <2>2
    <3> QED  BY <2>1, <2>2, <2>4, <3>1, OneCallMoves
  <2>6. metadataCache' \in 0 .. Len(maps')  BY <1>1, <2>1, <2>2
  <2> QED  BY <2>1, <2>2, <2>5, <2>6 DEF OpfsInv
<1> QED  BY <1>3, <1>4, <1>5

LEMMA StepsOfLimit ==
    ASSUME OpfsInv, NEW c \in Calls, EvictFile(c) \/ ForgetFile(c)
    PROVE  OpfsInv'
<1>1. /\ call[c] \in CallRecord /\ CallOK(call[c], maps, metadataCache, begun)
      /\ maps \in Seq(Metadata) /\ Len(maps) \in Nat /\ metadataCache \in 0 .. Len(maps)
      /\ begun \in Nat /\ call = [d \in Calls |-> call[d]]
      /\ files \in [Files -> {"none", "empty", "whole"}] /\ unbounded \in BOOLEAN
  BY DEF OpfsInv, CallOK
<1>2. CASE EvictFile(c) /\ WritesDown(c, call[c].map) /\ UNCHANGED files
  <2> DEFINE n == call[c].map
  <2>0. n \in Nat /\ WritesDown(c, n)  BY <1>1, <1>2 DEF CallRecord
  <2>1. /\ call[c].step = "evict"
        /\ UNCHANGED <<files, stored, maps, metadataCache, unbounded, begun, reloads>>
    BY <1>2 DEF EvictFile
  <2>2. n \in 0 .. Len(maps) /\ n # 0 /\ begun > 0  BY <1>1, <2>1 DEF CallOK
  <2> HIDE DEF n
  <2>3. PICK r \in CallRecord :
            call' = [call EXCEPT ![c] = r] /\ r.map = n /\ r.step = "persist"
    BY <2>0, WritesDownOK
  <2>4. CallOK(r, maps, metadataCache, begun)  BY <2>2, <2>3 DEF CallOK
  <2> QED  BY <1>1, <2>1, <2>3, <2>4, OneCallGoes
<1>3. CASE /\ EvictFile(c)
           /\ \E f \in Files : \E sorted \in Metadata :
                 /\ files' = FilesWithout({f})
                 /\ call' = [call EXCEPT ![c].step = "forget", ![c].file = f,
                                         ![c].sorted = sorted]
  <2>1. PICK f \in Files, sorted \in Metadata :
                 /\ files' = FilesWithout({f})
                 /\ call' = [call EXCEPT ![c].step = "forget", ![c].file = f,
                                         ![c].sorted = sorted]
    BY <1>3
  <2> DEFINE a == [call[c] EXCEPT !.step = "forget"]
             b == [a EXCEPT !.file = f]
             r == [b EXCEPT !.sorted = sorted]
  <2>2. call' = [call EXCEPT ![c] = r]  BY <1>1, <2>1
  <2>3. a \in CallRecord /\ a.map = call[c].map /\ a.step = "forget"
    BY <1>1 DEF CallRecord
  <2> HIDE DEF a
  <2>4. b \in CallRecord /\ b.map = call[c].map /\ b.step = "forget"
    BY <2>3 DEF CallRecord
  <2> HIDE DEF b
  <2>5. r \in CallRecord /\ r.map = call[c].map /\ r.step = "forget"
    BY <2>4 DEF CallRecord
  <2> HIDE DEF r
  <2>6. /\ call[c].step = "evict"
        /\ UNCHANGED <<stored, maps, metadataCache, unbounded, begun, reloads>>
    BY <1>3 DEF EvictFile
  <2>7. CallOK(r, maps, metadataCache, begun)  BY <1>1, <2>5, <2>6 DEF CallOK
  <2>8. files' \in [Files -> {"none", "empty", "whole"}]
    BY <2>1, FilesRemain
  <2> QED  BY <1>1, <2>2, <2>6, <2>7, <2>8, OneCallGoes
<1>4. EvictFile(c) => \/ WritesDown(c, call[c].map) /\ UNCHANGED files
                      \/ \E f \in Files : \E sorted \in Metadata :
                            /\ files' = FilesWithout({f})
                            /\ call' = [call EXCEPT ![c].step = "forget", ![c].file = f,
                                                    ![c].sorted = sorted]
  <2> SUFFICES ASSUME EvictFile(c), ~(WritesDown(c, call[c].map) /\ UNCHANGED files)
               PROVE  \E f \in Files : \E sorted \in Metadata :
                            /\ files' = FilesWithout({f})
                            /\ call' = [call EXCEPT ![c].step = "forget", ![c].file = f,
                                                    ![c].sorted = sorted]
    OBVIOUS
  <2> DEFINE sorted == call[c].sorted
             Rest(f) == [g \in Files |->
                            IF g = f \/ sorted[g] < sorted[f] THEN 0 ELSE sorted[g]]
  <2>1. PICK f \in EntriesOf(sorted) :
            /\ files' = FilesWithout({f})
            /\ call' = [call EXCEPT ![c].step = "forget", ![c].file = f,
                                    ![c].sorted = Rest(f)]
    BY DEF EvictFile
  <2>2. f \in Files /\ sorted \in Metadata  BY <1>1 DEF EntriesOf, CallRecord
  <2>3. Rest(f) \in Metadata
    <3>1. 0 \in 0 .. MaxCalls  BY OpfsAssumption
    <3> QED  BY <2>2, <3>1 DEF Metadata
  <2> QED  BY <2>1, <2>2, <2>3
<1>5. CASE ForgetFile(c)
  <2> DEFINE total == call[c].total - FileSize[call[c].file]
             a == [call[c] EXCEPT !.step = "evict"]
             r == [a EXCEPT !.total = total]
             n == call[c].map
             f == call[c].file
  <2>1. /\ call[c].step = "forget" /\ call' = [call EXCEPT ![c] = r]
        /\ maps' = [maps EXCEPT ![n][f] = 0]
        /\ UNCHANGED <<files, stored, metadataCache, unbounded, begun, reloads>>
    BY <1>1, <1>5 DEF ForgetFile, FileEvicted
  <2>2. total \in Int  BY <1>1, OpfsAssumption DEF CallRecord
  <2>3. a \in CallRecord /\ a.map = n /\ a.step = "evict"
    BY <1>1 DEF CallRecord
  <2>4. n \in 1 .. Len(maps) /\ f \in Files /\ begun > 0
    BY <1>1, <2>1 DEF CallOK, CallRecord
  <2> HIDE DEF a, total
  <2>5. r \in CallRecord /\ r.map = n /\ r.step = "evict"
    BY <2>2, <2>3 DEF CallRecord
  <2> HIDE DEF r
  <2>6. maps' \in Seq(Metadata) /\ Len(maps') = Len(maps)
    <3>1. [maps[n] EXCEPT ![f] = 0] \in Metadata
      <4>1. 0 \in 0 .. MaxCalls  BY OpfsAssumption
      <4>2. maps[n] \in Metadata  BY <1>1, <2>4
      <4> QED  BY <2>4, <4>1, <4>2, MetadataMoves
    <3> DEFINE map == [maps[n] EXCEPT ![f] = 0]
    <3>2. maps' = [maps EXCEPT ![n] = map]  BY <2>1
    <3> HIDE DEF map, n
    <3> QED  BY <1>1, <2>4, <3>1, <3>2 DEF map
  <2> HIDE DEF n, f
  <2>7. CallOK(r, maps', metadataCache', begun')
    BY <1>1, <2>1, <2>4, <2>5, <2>6 DEF CallOK
  <2>8. /\ call' = [d \in Calls |-> call'[d]]
        /\ \A d \in Calls : CallOK(call'[d], maps', metadataCache', begun')
    <3>1. /\ Len(maps') >= Len(maps) /\ metadataCache' \in 0 .. Len(maps')
          /\ (metadataCache # 0 => metadataCache' # 0) /\ begun' \in Nat /\ begun' >= begun
      BY <1>1, <2>1, <2>6
    <3> QED  BY <2>1, <2>6, <2>7, <3>1, OneCallMoves
  <2> QED  BY <1>1, <2>1, <2>6, <2>8 DEF OpfsInv
<1> QED  BY <1>2, <1>3, <1>4, <1>5

LEMMA StepsOfStore ==
    ASSUME OpfsInv, NEW c \in Calls, Persist(c) \/ CloseMetadata(c)
    PROVE  OpfsInv'
<1>1. /\ call[c] \in CallRecord /\ CallOK(call[c], maps, metadataCache, begun)
      /\ maps \in Seq(Metadata) /\ Len(maps) \in Nat
      /\ files \in [Files -> {"none", "empty", "whole"}] /\ unbounded \in BOOLEAN
      /\ call = [d \in Calls |-> call[d]]
  BY DEF OpfsInv, CallOK
<1>2. CASE Persist(c)
  <2> DEFINE map == maps[call[c].map]
             a == [IdleCall EXCEPT !.step = "close"]
             r == [a EXCEPT !.written = map]
  <2>1. /\ call' = [call EXCEPT ![c] = r] /\ call[c].step = "persist"
        /\ UNCHANGED <<files, stored, maps, metadataCache, unbounded, begun, reloads>>
    BY <1>1, <1>2 DEF Persist
  <2>2. a \in CallRecord /\ a.map = 0 /\ a.step = "close"
    BY IdleCallOK DEF CallRecord
  <2>3. call[c].map \in 1 .. Len(maps) /\ begun > 0
    BY <1>1, <2>1 DEF CallOK
  <2>4. map \in Metadata  BY <1>1, <2>3
  <2> HIDE DEF a, map
  <2>5. r \in CallRecord /\ r.map = 0 /\ r.step = "close"
    BY <2>2, <2>4 DEF CallRecord
  <2> HIDE DEF r
  <2>6. CallOK(r, maps, metadataCache, begun)  BY <1>1, <2>1, <2>3, <2>5 DEF CallOK
  <2> QED  BY <1>1, <2>1, <2>6, OneCallGoes
<1>3. CASE CloseMetadata(c)
  <2>1. /\ call' = [call EXCEPT ![c] = IdleCall] /\ stored' = call[c].written
        /\ UNCHANGED <<files, maps, metadataCache, unbounded, begun, reloads>>
    BY <1>3 DEF CloseMetadata, Returns
  <2>2. stored' \in Metadata  BY <1>1, <2>1 DEF CallRecord
  <2>3. \A d \in Calls : CallOK(call'[d], maps, metadataCache, begun)
    BY <1>1, <2>1, IdleCallOK DEF OpfsInv, CallOK
  <2>4. call' = [d \in Calls |-> call'[d]]  BY <1>1, <2>1
  <2> QED  BY <2>1, <2>2, <2>3, <2>4 DEF OpfsInv
<1> QED  BY <1>2, <1>3

LEMMA StepReload ==
    ASSUME OpfsInv, Reload
    PROVE  OpfsInv'
<1>1. /\ reloads < MaxReloads /\ reloads' = reloads + 1
      /\ maps' = <<>> /\ metadataCache' = 0
      /\ call' = [c \in Calls |-> IdleCall] /\ unbounded' = FALSE
      /\ UNCHANGED <<files, stored, begun>>
  BY DEF Reload
<1>2. reloads' \in 0 .. MaxReloads
  BY <1>1, OpfsAssumption DEF OpfsInv
<1>3. maps' \in Seq(Metadata) /\ Len(maps') = 0 /\ metadataCache' \in 0 .. Len(maps')
  BY <1>1
<1>4. \A c \in Calls : CallOK(call'[c], maps', metadataCache', begun')
  BY <1>1, <1>3, IdleCallOK DEF CallOK
<1>5. unbounded' \in BOOLEAN  BY <1>1
<1>6. call' = [c \in Calls |-> call'[c]]  BY <1>1
<1> QED  BY <1>1, <1>2, <1>3, <1>4, <1>5, <1>6 DEF OpfsInv

LEMMA OpfsInvInit == OpfsInit => OpfsInv
<1> SUFFICES ASSUME OpfsInit PROVE OpfsInv  OBVIOUS
<1>1. /\ files = [f \in Files |-> "none"] /\ stored = NoEntries /\ maps = <<>>
      /\ metadataCache = 0 /\ call = [c \in Calls |-> IdleCall]
      /\ unbounded = FALSE /\ begun = 0 /\ reloads = 0
  BY DEF OpfsInit
<1>2. MaxCalls \in Nat /\ MaxReloads \in Nat  BY OpfsAssumption
<1>3. maps \in Seq(Metadata) /\ Len(maps) = 0  BY <1>1
<1>4. \A c \in Calls : CallOK(call[c], maps, metadataCache, begun)
  BY <1>1, <1>3, IdleCallOK DEF CallOK
<1>5. stored \in Metadata  BY <1>1, MetadataMoves
<1>6. metadataCache \in 0 .. Len(maps) /\ begun \in 0 .. MaxCalls /\ reloads \in 0 .. MaxReloads
  BY <1>1, <1>2, <1>3
<1> QED  BY <1>1, <1>3, <1>4, <1>5, <1>6 DEF OpfsInv

LEMMA OpfsInvStep == OpfsInv /\ [OpfsNext]_opfsVars => OpfsInv'
<1> SUFFICES ASSUME OpfsInv, [OpfsNext]_opfsVars PROVE OpfsInv'  OBVIOUS
<1>1. ASSUME NEW c \in Calls, CallSteps(c)
      PROVE  OpfsInv'
  BY <1>1, StepsOfFiles, StepRemoveAll, StepsOfMetadata, StepsOfLimit, StepsOfStore
     DEF CallSteps
<1>2. ASSUME NEW c \in Calls, Begin(c, "clear", IdleCall.file)
      PROVE  OpfsInv'
  <2>1. IdleCall.file \in Files  BY IdleCallOK
  <2> DEFINE f == IdleCall.file
  <2>2. Begin(c, "clear", f) /\ f \in Files  BY <1>2, <2>1
  <2> HIDE DEF f
  <2> QED  BY <2>2, StepBegin
<1>3. CASE UNCHANGED opfsVars
  <2>1. UNCHANGED <<files, stored, maps, metadataCache, call, unbounded, begun, reloads>>
    BY <1>3 DEF opfsVars
  <2> QED  BY <2>1 DEF OpfsInv
<1> QED  BY <1>1, <1>2, <1>3, StepBegin, StepReload DEF OpfsNext

\* Whatever calls overlap, the cache of files keeps to its types.
THEOREM OpfsTypesKept == OpfsSpec => []OpfsTypeOK
  BY OpfsInvInit, OpfsInvStep, OpfsInvTypes, PTL DEF OpfsSpec
-----------------------------------------------------------------------------
(***************************************************************************)
(* The files on disk: the limit of what is entered, however calls overlap. *)
(***************************************************************************)
\* Sums of files.
LEMMA BytesOfFiles ==
    /\ TotalBytes({}) = 0
    /\ \A k \in SUBSET Files :
          /\ TotalBytes(k) \in Nat
          /\ \A f \in k : TotalBytes(k \ {f}) = TotalBytes(k) - FileSize[f]
          /\ \A l \in SUBSET k : TotalBytes(l) \in Nat /\ TotalBytes(l) <= TotalBytes(k)
<1>1. IsFiniteSet(Files) /\ \A f \in Files : FileSize[f] \in Nat  BY OpfsAssumption
<1>2. TotalBytes({}) = 0  BY SumOfNone DEF TotalBytes
<1>3. ASSUME NEW k \in SUBSET Files
      PROVE  TotalBytes(k) \in Nat
  BY <1>1, SumShrinks DEF TotalBytes
<1>4. ASSUME NEW k \in SUBSET Files, NEW f \in k
      PROVE  TotalBytes(k \ {f}) = TotalBytes(k) - FileSize[f]
  <2>1. IsFiniteSet(k) /\ \A y \in k : FileSize[y] \in Nat  BY <1>1, FS_Subset
  <2>2. /\ SumFunctionOnSet(FileSize, k \ {f}) \in Nat
        /\ SumFunctionOnSet(FileSize, k) = FileSize[f] + SumFunctionOnSet(FileSize, k \ {f})
    BY <2>1, SumTakes
  <2>3. FileSize[f] \in Nat  BY <2>1
  <2> QED  BY <2>2, <2>3 DEF TotalBytes
<1>5. ASSUME NEW k \in SUBSET Files, NEW l \in SUBSET k
      PROVE  TotalBytes(l) \in Nat /\ TotalBytes(l) <= TotalBytes(k)
  <2>1. IsFiniteSet(k) /\ \A y \in k : FileSize[y] \in Nat  BY <1>1, FS_Subset
  <2> QED  BY <2>1, SumShrinks DEF TotalBytes
<1> QED  BY <1>2, <1>3, <1>4, <1>5

LEMMA CountedIsOfFiles ==
    /\ Counted \in SUBSET Files
    /\ \A map : EntriesOf(map) \in SUBSET Files
  BY DEF Counted, EntriesOf

\* The entries a loop of enforceByteCap will still come to, and what it knows
\* of their bytes: never less than there are.
Evicting(r) == r.step \in {"evict", "forget"}
Ahead(r) == EntriesOf(r.sorted) \cup (IF r.step = "forget" THEN {r.file} ELSE {})

LoopOK(r) ==
    Evicting(r) => /\ TotalBytes(Ahead(r)) <= r.total
                   /\ r.step = "forget" => r.file \notin EntriesOf(r.sorted)

\* A loop that will come to all the entries there are.
Covers(r) == Evicting(r) /\ r.map = metadataCache /\ Counted \subseteq Ahead(r)

CapInv ==
    /\ OpfsInv
    /\ \A c \in Calls : LoopOK(call[c])
    /\ ~unbounded => \/ TotalBytes(Counted) <= OPFS_BYTE_CAP
                     \/ \E c \in Calls : Covers(call[c])

LEMMA CapIsKept == CapInv => EntriesFitCap
  BY DEF CapInv, EntriesFitCap, AtRest, Covers, Evicting

LEMMA NothingFits == TotalBytes({}) <= OPFS_BYTE_CAP
  BY BytesOfFiles, OpfsAssumption

LEMMA CapInit == OpfsInit => CapInv
<1> SUFFICES ASSUME OpfsInit PROVE CapInv  OBVIOUS
<1>1. \A c \in Calls : call[c].step = "idle"  BY IdleCallOK DEF OpfsInit
<1>2. Counted = {}  BY DEF OpfsInit, Counted
<1> QED  BY <1>1, <1>2, NothingFits, OpfsInvInit DEF CapInv, LoopOK, Evicting

\* One call moves: it is in order itself, and covers what there is, or did not
\* cover it before and adds nothing.
LEMMA CapMoves ==
    ASSUME CapInv, OpfsInv', NEW c \in Calls, NEW r, call' = [call EXCEPT ![c] = r],
           LoopOK(r),
           ~unbounded' =>
               \/ TotalBytes(Counted') <= OPFS_BYTE_CAP
               \/ Evicting(r) /\ r.map = metadataCache' /\ Counted' \subseteq Ahead(r)
               \/ /\ ~unbounded /\ metadataCache' = metadataCache
                  /\ Counted' \subseteq Counted /\ ~Covers(call[c])
    PROVE  CapInv'
<1>1. call = [d \in Calls |-> call[d]]  BY DEF CapInv, OpfsInv
<1>2. /\ call'[c] = r /\ \A d \in Calls \ {c} : call'[d] = call[d]
  BY <1>1
<1>3. \A d \in Calls : LoopOK(call'[d])  BY <1>2 DEF CapInv
<1>4. ASSUME ~unbounded'
      PROVE  \/ TotalBytes(Counted') <= OPFS_BYTE_CAP
             \/ \E d \in Calls : Covers(call[d])'
  <2>1. CASE Evicting(r) /\ r.map = metadataCache' /\ Counted' \subseteq Ahead(r)
    BY <1>2, <2>1 DEF Covers
  <2>2. CASE /\ ~unbounded /\ metadataCache' = metadataCache
             /\ Counted' \subseteq Counted /\ ~Covers(call[c])
    <3>1. CASE TotalBytes(Counted) <= OPFS_BYTE_CAP
      <4>1. Counted' \in SUBSET Counted /\ Counted \in SUBSET Files
        BY <2>2, CountedIsOfFiles
      <4>2. TotalBytes(Counted') \in Nat /\ TotalBytes(Counted) \in Nat
            /\ TotalBytes(Counted') <= TotalBytes(Counted)
        BY <4>1, BytesOfFiles
      <4> QED  BY <3>1, <4>2, OpfsAssumption
    <3>2. ASSUME NEW d \in Calls, Covers(call[d])
          PROVE  Covers(call[d])'
      BY <1>2, <2>2, <3>2 DEF Covers
    <3> QED  BY <2>2, <3>1, <3>2 DEF CapInv
  <2> QED  BY <1>4, <2>1, <2>2
<1> QED  BY <1>3, <1>4 DEF CapInv, LoopOK, Evicting, Ahead, EntriesOf

\* A call that neither evicts nor will, and leaves the entries alone.
LEMMA CapAside ==
    ASSUME CapInv, OpfsInv', NEW c \in Calls, NEW r, call' = [call EXCEPT ![c] = r],
           ~Evicting(call[c]), ~Evicting(r), UNCHANGED <<maps, metadataCache, unbounded>>
    PROVE  CapInv'
<1>1. Counted' = Counted  BY DEF Counted
<1> QED  BY <1>1, CapMoves DEF LoopOK, Covers

LEMMA CapOfOthers ==
    ASSUME CapInv, OpfsInv', NEW c \in Calls,
           \/ ReadFile(c) \/ OpenFile(c) \/ WriteFile(c) \/ WriteFails(c) \/ RemoveFile(c)
           \/ Persist(c) \/ CloseMetadata(c) \/ PersistFails(c)
           \/ \E f \in Files, op \in {"get", "set", "delete", "clear"} : Begin(c, op, f)
    PROVE  CapInv'
<1>1. /\ ~Evicting(call[c]) /\ UNCHANGED <<maps, metadataCache, unbounded>>
  BY DEF Evicting, ReadFile, OpenFile, WriteFile, WriteFails, RemoveFile, Persist,
         CloseMetadata, PersistFails, Begin
<1>2. call[c] \in CallRecord  BY DEF CapInv, OpfsInv, CallOK
<1>3. \E r : call' = [call EXCEPT ![c] = r] /\ ~Evicting(r)
  <2>1. CASE Returns(c)  BY <2>1, IdleCallOK DEF Returns, Evicting
  <2>2. ASSUME NEW step \in {"write", "metadata"}, Goes(c, step)
        PROVE  \E r : call' = [call EXCEPT ![c] = r] /\ ~Evicting(r)
    <3> DEFINE r == [call[c] EXCEPT !.step = step]
    <3>1. r.step = step  BY <1>2 DEF CallRecord
    <3>2. call' = [call EXCEPT ![c] = r]  BY <2>2 DEF Goes
    <3> QED  BY <3>1, <3>2 DEF Evicting
  <2>3. CASE Persist(c)
    <3> DEFINE a == [IdleCall EXCEPT !.step = "close"]
               r == [a EXCEPT !.written = maps[call[c].map]]
    <3>1. call' = [call EXCEPT ![c] = r]  BY <2>3 DEF Persist
    <3>2. a \in CallRecord /\ a.step = "close"  BY IdleCallOK DEF CallRecord
    <3> HIDE DEF a
    <3>3. r.step = "close"  BY <3>2 DEF CallRecord
    <3> QED  BY <3>1, <3>3 DEF Evicting
  <2>4. ASSUME NEW f \in Files, NEW op \in {"get", "set", "delete", "clear"}, Begin(c, op, f)
        PROVE  \E r : call' = [call EXCEPT ![c] = r] /\ ~Evicting(r)
    <3> DEFINE r == [IdleCall EXCEPT !.op = op, !.file = f, !.step = "file"]
    <3>1. call' = [call EXCEPT ![c] = r]  BY <2>4 DEF Begin
    <3>2. r.step = "file"  BY IdleCallOK DEF CallRecord
    <3> QED  BY <3>1, <3>2 DEF Evicting
  <2> QED  BY <2>1, <2>2, <2>3, <2>4 DEF ReadFile, OpenFile, WriteFile, WriteFails,
              RemoveFile, CloseMetadata, PersistFails
<1> QED  BY <1>1, <1>3, CapAside

LEMMA CapOfRemoveAll ==
    ASSUME CapInv, OpfsInv', NEW c \in Calls, RemoveAll(c)
    PROVE  CapInv'
<1>1. maps \in Seq(Metadata) /\ Len(maps) \in Nat  BY DEF CapInv, OpfsInv
<1> DEFINE n == Len(maps) + 1
<1>2. /\ n \in Nat /\ maps' = Append(maps, NoEntries) /\ metadataCache' = n
      /\ WritesDown(c, n)
  BY <1>1 DEF RemoveAll
<1>3. maps'[n] = NoEntries  BY <1>1, <1>2, MetadataMoves
<1>4. Counted' = {}  BY <1>2, <1>3 DEF Counted, EntriesOf, NoEntries
<1> HIDE DEF n
<1>5. PICK r : call' = [call EXCEPT ![c] = r] /\ r.step = "persist"
  BY <1>2, WritesDownOK DEF CapInv
<1>6. LoopOK(r)  BY <1>5 DEF LoopOK, Evicting
<1> QED  BY <1>4, <1>5, <1>6, CapMoves, NothingFits

\* What a call makes of the metadata it gets.
LEMMA CapOfUse ==
    ASSUME CapInv, OpfsInv', NEW c \in Calls, call[c].step \in {"metadata", "load"},
           metadataCache # 0, UNCHANGED metadataCache,
           NEW known \in Metadata, NEW loose \in BOOLEAN,
           UseMetadata(c, metadataCache, known, loose),
           ~loose => ~unbounded /\ known = maps[metadataCache]
    PROVE  CapInv'
<1> DEFINE n == metadataCache
           f == call[c].file
           used == [known EXCEPT ![f] = begun]
           gone == [known EXCEPT ![f] = 0]
<1>1. /\ n \in 1 .. Len(maps) /\ maps \in Seq(Metadata) /\ f \in Files /\ begun \in 0 .. MaxCalls
      /\ begun > 0 /\ ~Evicting(call[c]) /\ n \in Nat
  BY DEF CapInv, OpfsInv, CallOK, CallRecord, Evicting
<1>2. used \in Metadata /\ gone \in Metadata
  <2>1. 0 \in 0 .. MaxCalls  BY OpfsAssumption
  <2> QED  BY <1>1, <2>1, MetadataMoves
<1>3. ASSUME NEW map \in Metadata, maps' = [maps EXCEPT ![n] = map]
      PROVE  Counted' = EntriesOf(map)
  <2>1. maps'[n] = map  BY <1>1, <1>3
  <2> QED  BY <2>1 DEF Counted
<1>4. EntriesOf(used) \in SUBSET Files  BY CountedIsOfFiles
<1>5. CASE maps' = [maps EXCEPT ![n] = used] /\ Enforce(c, n, used) /\ unbounded' = FALSE
  <2>1. Counted' = EntriesOf(used)  BY <1>2, <1>3, <1>5
  <2> HIDE DEF used, n
  <2>2. CASE TotalBytes(EntriesOf(used)) <= OPFS_BYTE_CAP
    <3>1. Returns(c)  BY <1>5, <2>2 DEF Enforce, ComputeTotalBytes
    <3>2. LoopOK(IdleCall)  BY IdleCallOK DEF LoopOK, Evicting
    <3> QED  BY <2>1, <2>2, <3>1, <3>2, CapMoves DEF Returns
  <2>3. CASE ~(TotalBytes(EntriesOf(used)) <= OPFS_BYTE_CAP)
    <3> DEFINE total == TotalBytes(EntriesOf(used))
               a == [call[c] EXCEPT !.step = "evict"]
               b == [a EXCEPT !.map = n]
               d == [b EXCEPT !.total = total]
               r == [d EXCEPT !.sorted = used]
    <3>0. total \in Nat  BY <1>4, BytesOfFiles
    <3>1. call' = [call EXCEPT ![c] = r]
      BY <1>5, <2>3 DEF Enforce, ComputeTotalBytes, CapInv, OpfsInv
    <3>2. a \in CallRecord /\ a.step = "evict"
      BY DEF CapInv, OpfsInv, CallOK, CallRecord
    <3> HIDE DEF a, total
    <3>3. b \in CallRecord /\ b.step = "evict" /\ b.map = n  BY <1>1, <3>2 DEF CallRecord
    <3> HIDE DEF b
    <3>4. d \in CallRecord /\ d.step = "evict" /\ d.map = n /\ d.total = total
      BY <3>0, <3>3 DEF CallRecord
    <3> HIDE DEF d
    <3>5. r.step = "evict" /\ r.map = n /\ r.total = total /\ r.sorted = used
      BY <1>2, <3>4 DEF CallRecord
    <3> HIDE DEF r
    <3>6. Ahead(r) = EntriesOf(used)  BY <3>5 DEF Ahead
    <3>7. LoopOK(r)  BY <3>0, <3>5, <3>6 DEF LoopOK, total
    <3>8. Evicting(r) /\ r.map = metadataCache' /\ Counted' \subseteq Ahead(r)
      BY <2>1, <3>5, <3>6 DEF Evicting, n
    <3> QED  BY <3>1, <3>7, <3>8, CapMoves
  <2> QED  BY <2>2, <2>3
<1>6. ASSUME NEW map \in Metadata, maps' = [maps EXCEPT ![n] = map], unbounded' = loose,
             EntriesOf(map) \subseteq EntriesOf(known), Returns(c) \/ WritesDown(c, n)
      PROVE  CapInv'
  <2>1. Counted' = EntriesOf(map)  BY <1>3, <1>6
  <2>2. ~loose => Counted = EntriesOf(known)  BY DEF Counted
  <2> HIDE DEF n
  <2>3. PICK r : call' = [call EXCEPT ![c] = r] /\ ~Evicting(r)
    <3>1. CASE Returns(c)  BY <3>1, IdleCallOK DEF Returns, Evicting
    <3>2. CASE WritesDown(c, n)  BY <1>1, <3>2, WritesDownOK DEF CapInv, Evicting
    <3> QED  BY <1>6, <3>1, <3>2
  <2>4. ~unbounded' => ~unbounded /\ Counted' \subseteq Counted
    BY <1>6, <2>1, <2>2
  <2>5. LoopOK(r) /\ ~Covers(call[c])  BY <1>1, <2>3 DEF LoopOK, Covers
  <2> QED  BY <2>3, <2>4, <2>5, CapMoves
<1>7. CASE /\ maps' = [maps EXCEPT ![n] = used] /\ known[f] # 0
           /\ WritesDown(c, n) /\ unbounded' = loose
  <2>1. EntriesOf(used) \subseteq EntriesOf(known)  BY <1>1, <1>7 DEF EntriesOf, Metadata
  <2> QED  BY <1>2, <1>6, <1>7, <2>1
<1>8. CASE /\ maps' = [maps EXCEPT ![n] = gone] /\ WritesDown(c, n) /\ unbounded' = loose
  <2>1. EntriesOf(gone) \subseteq EntriesOf(known)  BY <1>1 DEF EntriesOf, Metadata
  <2> QED  BY <1>2, <1>6, <1>8, <2>1
<1>9. CASE maps' = [maps EXCEPT ![n] = known] /\ Returns(c) /\ unbounded' = loose
  BY <1>6, <1>9
<1> QED  BY <1>5, <1>7, <1>8, <1>9 DEF UseMetadata

LEMMA CapOfMetadata ==
    ASSUME CapInv, OpfsInv', NEW c \in Calls, GetMetadata(c) \/ LoadMetadata(c)
    PROVE  CapInv'
<1>1. /\ maps \in Seq(Metadata) /\ Len(maps) \in Nat /\ metadataCache \in 0 .. Len(maps)
      /\ stored \in Metadata /\ unbounded \in BOOLEAN /\ call[c] \in CallRecord
  BY DEF CapInv, OpfsInv, CallOK
<1>2. CASE GetMetadata(c) /\ metadataCache # 0
  <2>1. maps[metadataCache] \in Metadata  BY <1>1, <1>2
  <2> QED  BY <1>1, <1>2, <2>1, CapOfUse DEF GetMetadata
<1>3. CASE GetMetadata(c) /\ metadataCache = 0
  <2> DEFINE r == [call[c] EXCEPT !.step = "load"]
  <2>1. /\ maps' = Append(maps, NoEntries) /\ metadataCache' = Len(maps) + 1
        /\ call' = [call EXCEPT ![c] = r]
    BY <1>3 DEF GetMetadata, Goes
  <2>2. maps'[Len(maps) + 1] = NoEntries  BY <1>1, <2>1, MetadataMoves
  <2>3. Counted' = {}  BY <1>1, <2>1, <2>2 DEF Counted, EntriesOf, NoEntries
  <2>4. r.step = "load"  BY <1>1 DEF CallRecord
  <2>5. LoopOK(r)  BY <2>4 DEF LoopOK, Evicting
  <2> QED  BY <2>1, <2>3, <2>5, CapMoves, NothingFits
<1>4. CASE LoadMetadata(c)
  <2>1. metadataCache # 0  BY <1>4 DEF LoadMetadata, CapInv, OpfsInv, CallOK
  <2>2. maps[metadataCache] \in Metadata  BY <1>1, <2>1
  <2> DEFINE known == [f \in Files |-> IF stored[f] # 0 THEN stored[f]
                                       ELSE maps[metadataCache][f]]
  <2>3. known \in Metadata  BY <1>1, <2>2, MetadataMoves
  <2>4. /\ UseMetadata(c, metadataCache, known, TRUE) /\ call[c].step = "load"
        /\ UNCHANGED metadataCache
    BY <1>4 DEF LoadMetadata
  <2> HIDE DEF known
  <2> QED  BY <2>1, <2>3, <2>4, CapOfUse
<1> QED  BY <1>2, <1>3, <1>4

LEMMA CapOfEvict ==
    ASSUME CapInv, OpfsInv', NEW c \in Calls, EvictFile(c)
    PROVE  CapInv'
<1> DEFINE old == call[c]
           sorted == old.sorted
           known == EntriesOf(sorted) \cap EntriesOf(maps[old.map])
           n == old.map
<1>1. /\ old \in CallRecord /\ LoopOK(old) /\ call = [d \in Calls |-> call[d]]
      /\ sorted \in Metadata /\ n \in Nat /\ n # 0 /\ old.total \in Int
      /\ old.step = "evict"
      /\ UNCHANGED <<stored, maps, metadataCache, unbounded, begun, reloads>>
  BY DEF CapInv, OpfsInv, CallOK, CallRecord, EvictFile
<1>2. Counted' = Counted  BY <1>1 DEF Counted
<1>3. Ahead(old) = EntriesOf(sorted) /\ TotalBytes(EntriesOf(sorted)) <= old.total
  BY <1>1 DEF Ahead, LoopOK, Evicting
<1>4. Covers(old) => Counted \subseteq known
  BY <1>1, <1>3 DEF Covers, Counted
<1>5. CASE (old.total <= OPFS_BYTE_CAP \/ known = {}) /\ WritesDown(c, n)
  <2>1. PICK r : call' = [call EXCEPT ![c] = r] /\ r.step = "persist"
    BY <1>1, <1>5, WritesDownOK DEF CapInv
  <2>2. ASSUME Covers(old) PROVE TotalBytes(Counted) <= OPFS_BYTE_CAP
    <3>1. CASE known = {}  BY <1>4, <2>2, <3>1, NothingFits
    <3>2. CASE old.total <= OPFS_BYTE_CAP
      <4> DEFINE e == EntriesOf(sorted)
      <4>1. Counted \in SUBSET e /\ e \in SUBSET Files
        BY <1>3, <2>2, CountedIsOfFiles DEF Covers
      <4>2. /\ TotalBytes(Counted) \in Nat /\ TotalBytes(e) \in Nat
            /\ TotalBytes(Counted) <= TotalBytes(e)
        BY <4>1, BytesOfFiles
      <4>3. TotalBytes(e) <= old.total  BY <1>3
      <4> HIDE DEF e, old
      <4> QED  BY <1>1, <3>2, <4>2, <4>3, OpfsAssumption
    <3> QED  BY <1>5, <3>1, <3>2
  <2>3. LoopOK(r)  BY <2>1 DEF LoopOK, Evicting
  <2>4. ~unbounded' => \/ TotalBytes(Counted') <= OPFS_BYTE_CAP
                       \/ /\ ~unbounded /\ metadataCache' = metadataCache
                          /\ Counted' \subseteq Counted /\ ~Covers(old)
    BY <1>1, <1>2, <2>2
  <2> QED  BY <2>1, <2>3, <2>4, CapMoves
<1>6. ASSUME NEW f \in known, \A g \in known : sorted[f] <= sorted[g],
             call' = [call EXCEPT ![c].step = "forget", ![c].file = f,
                        ![c].sorted = [g \in Files |->
                            IF g = f \/ sorted[g] < sorted[f] THEN 0 ELSE sorted[g]]]
      PROVE  CapInv'
  <2> DEFINE rest == [g \in Files |-> IF g = f \/ sorted[g] < sorted[f] THEN 0 ELSE sorted[g]]
             a == [old EXCEPT !.step = "forget"]
             b == [a EXCEPT !.file = f]
             r == [b EXCEPT !.sorted = rest]
  <2>0. f \in Files /\ rest \in Metadata /\ \A g \in Files : sorted[g] \in Nat
    <3>1. f \in Files  BY <1>6 DEF EntriesOf
    <3>2. \A g \in Files : sorted[g] \in 0 .. MaxCalls  BY <1>1 DEF Metadata
    <3>3. MaxCalls \in Nat  BY OpfsAssumption
    <3>4. rest \in Metadata  BY <3>1, <3>2, <3>3 DEF Metadata
    <3> QED  BY <3>1, <3>2, <3>3, <3>4
  <2>1. call' = [call EXCEPT ![c] = r]  BY <1>1, <1>6
  <2>2. Ahead(old) \in SUBSET Files  BY <1>3, CountedIsOfFiles
  <2>3. EntriesOf(rest) = {g \in EntriesOf(sorted) : g # f /\ sorted[g] >= sorted[f]}
    BY <2>0 DEF EntriesOf
  <2>4. /\ {f} \cup EntriesOf(rest) \subseteq EntriesOf(sorted) /\ f \notin EntriesOf(rest)
        /\ known \subseteq {f} \cup EntriesOf(rest)
    BY <1>6, <2>0, <2>3 DEF EntriesOf
  <2>5. a \in CallRecord /\ a.step = "forget" /\ a.map = n /\ a.total = old.total
    BY <1>1 DEF CallRecord
  <2> HIDE DEF a, rest
  <2>6. /\ b \in CallRecord /\ b.step = "forget" /\ b.map = n /\ b.total = old.total
        /\ b.file = f
    BY <2>0, <2>5 DEF CallRecord
  <2> HIDE DEF b
  <2>7. /\ r.step = "forget" /\ r.map = n /\ r.total = old.total /\ r.file = f
        /\ r.sorted = rest
    BY <2>0, <2>6 DEF CallRecord
  <2> HIDE DEF r
  <2>8. Ahead(r) = {f} \cup EntriesOf(rest)  BY <2>7 DEF Ahead
  <2>9. LoopOK(r)
    <3> DEFINE k == Ahead(r)
               e == EntriesOf(sorted)
    <3>1. k \in SUBSET e /\ e \in SUBSET Files  BY <2>4, <2>8, CountedIsOfFiles
    <3>2. TotalBytes(k) \in Nat /\ TotalBytes(e) \in Nat /\ TotalBytes(k) <= TotalBytes(e)
      BY <3>1, BytesOfFiles
    <3>3. TotalBytes(e) <= old.total /\ old.total \in Int  BY <1>1, <1>3
    <3> HIDE DEF k, e, old
    <3>4. TotalBytes(k) <= r.total  BY <2>7, <3>2, <3>3
    <3> QED  BY <2>4, <2>7, <3>4 DEF LoopOK, k
  <2>10. ~unbounded' => \/ Evicting(r) /\ r.map = metadataCache' /\ Counted' \subseteq Ahead(r)
                        \/ /\ ~unbounded /\ metadataCache' = metadataCache
                           /\ Counted' \subseteq Counted /\ ~Covers(old)
    <3>1. Covers(old) => Evicting(r) /\ r.map = metadataCache' /\ Counted' \subseteq Ahead(r)
      BY <1>1, <1>2, <1>4, <2>4, <2>7, <2>8 DEF Covers, Evicting
    <3> QED  BY <1>1, <1>2, <3>1
  <2> QED  BY <2>1, <2>9, <2>10, CapMoves
<1> QED  BY <1>5, <1>6 DEF EvictFile

LEMMA CapOfForget ==
    ASSUME CapInv, OpfsInv', NEW c \in Calls, ForgetFile(c)
    PROVE  CapInv'
<1> DEFINE old == call[c]
           f == old.file
           n == old.map
           total == old.total - FileSize[f]
           a == [old EXCEPT !.step = "evict"]
           r == [a EXCEPT !.total = total]
<1>1. /\ old \in CallRecord /\ LoopOK(old) /\ call = [d \in Calls |-> call[d]]
      /\ old.step = "forget" /\ f \in Files /\ n \in 1 .. Len(maps) /\ maps \in Seq(Metadata)
      /\ old.total \in Int /\ total \in Int /\ FileSize[f] \in Nat
      /\ metadataCache \in 0 .. Len(maps)
      /\ maps' = [maps EXCEPT ![n][f] = 0]
      /\ UNCHANGED <<metadataCache, unbounded>>
  BY OpfsAssumption DEF CapInv, OpfsInv, CallOK, CallRecord, ForgetFile
<1>2. call' = [call EXCEPT ![c] = r]  BY <1>1 DEF ForgetFile, FileEvicted
<1>3. a \in CallRecord /\ a.step = "evict" /\ a.map = n /\ a.sorted = old.sorted
  BY <1>1 DEF CallRecord
<1>4. /\ f \notin EntriesOf(old.sorted) /\ Ahead(old) = EntriesOf(old.sorted) \cup {f}
      /\ TotalBytes(Ahead(old)) <= old.total
  BY <1>1 DEF LoopOK, Ahead, Evicting
<1>5. Counted' = IF n = metadataCache THEN Counted \ {f} ELSE Counted
  <2>1. CASE metadataCache = 0  BY <1>1, <2>1 DEF Counted
  <2>2. CASE metadataCache # 0
    <3> DEFINE m == metadataCache
    <3>1. m \in 1 .. Len(maps) /\ maps[m] \in Metadata  BY <1>1, <2>2
    <3>2. maps'[m] = IF n = m THEN [maps[m] EXCEPT ![f] = 0] ELSE maps[m]
      BY <1>1, <3>1
    <3> QED  BY <1>1, <2>2, <3>1, <3>2 DEF Counted, EntriesOf, Metadata
  <2> QED  BY <2>1, <2>2
<1> HIDE DEF a, total
<1>6. r.step = "evict" /\ r.map = n /\ r.total = total /\ r.sorted = old.sorted
  BY <1>1, <1>3 DEF CallRecord
<1> HIDE DEF r
<1>7. Ahead(r) = Ahead(old) \ {f} /\ f \in Ahead(old)  BY <1>4, <1>6 DEF Ahead
<1>8. LoopOK(r)
  <2> DEFINE k == Ahead(old)
  <2>1. k \in SUBSET Files /\ f \in k  BY <1>1, <1>4, <1>7, CountedIsOfFiles
  <2>2. TotalBytes(k \ {f}) = TotalBytes(k) - FileSize[f] /\ TotalBytes(k) \in Nat
    BY <2>1, BytesOfFiles
  <2>3. TotalBytes(k) <= old.total /\ Ahead(r) = k \ {f}  BY <1>4, <1>7
  <2> HIDE DEF k, old, f
  <2>4. TotalBytes(Ahead(r)) <= r.total  BY <1>1, <1>6, <2>2, <2>3 DEF total
  <2> QED  BY <1>6, <2>4 DEF LoopOK
<1>9. ~unbounded' => \/ Evicting(r) /\ r.map = metadataCache' /\ Counted' \subseteq Ahead(r)
                     \/ /\ ~unbounded /\ metadataCache' = metadataCache
                        /\ Counted' \subseteq Counted /\ ~Covers(old)
  <2>1. Covers(old) => Evicting(r) /\ r.map = metadataCache' /\ Counted' \subseteq Ahead(r)
    BY <1>1, <1>5, <1>6, <1>7 DEF Covers, Evicting
  <2> QED  BY <1>1, <1>5, <2>1
<1> QED  BY <1>2, <1>8, <1>9, CapMoves

LEMMA CapStep == CapInv /\ [OpfsNext]_opfsVars => CapInv'
<1> SUFFICES ASSUME CapInv, [OpfsNext]_opfsVars PROVE CapInv'  OBVIOUS
<1>1. OpfsInv'  BY OpfsInvStep DEF CapInv
<1>2. ASSUME NEW c \in Calls, CallSteps(c) PROVE CapInv'
  BY <1>1, <1>2, CapOfOthers, CapOfRemoveAll, CapOfMetadata, CapOfEvict, CapOfForget
     DEF CallSteps
<1>3. ASSUME NEW c \in Calls, NEW f \in Files,
             \E op \in {"get", "set", "delete", "clear"} : Begin(c, op, f)
      PROVE  CapInv'
  BY <1>1, <1>3, CapOfOthers
<1>4. CASE Reload
  <2>1. Counted' = {}  BY <1>4 DEF Reload, Counted
  <2>2. \A c \in Calls : call'[c].step = "idle"  BY <1>4, IdleCallOK DEF Reload
  <2> QED  BY <1>1, <2>1, <2>2, NothingFits DEF CapInv, LoopOK, Evicting
<1>5. CASE UNCHANGED opfsVars
  BY <1>5 DEF opfsVars, CapInv, OpfsInv, LoopOK, Evicting, Ahead, Covers, Counted, EntriesOf
<1>6. IdleCall.file \in Files  BY IdleCallOK
<1> QED  BY <1>2, <1>3, <1>4, <1>5, <1>6 DEF OpfsNext

\* However calls overlap, the entries of the cache of files fit its cap.
THEOREM EntriesStayWithinCap == OpfsSpec => []EntriesFitCap
  BY CapInit, CapStep, CapIsKept, PTL DEF OpfsSpec
-----------------------------------------------------------------------------
(***************************************************************************)
(* The thumbnails.  The folds of the module are runs over their sequences: *)
(* each of the next lemmas unfolds one of them.                            *)
(***************************************************************************)
LEMMA WithThumbType ==
    \A thumbs \in Seq(ThumbIds), id \in ThumbIds : WithThumb(thumbs, id) \in Seq(ThumbIds)
  BY DEF WithThumb

LEMMA BundleRuns ==
    ASSUME NEW base \in Seq(ThumbIds), NEW items \in Seq(ThumbIds)
    PROVE  \E h \in [0 .. Len(items) -> Seq(ThumbIds)] :
               /\ h[0] = base
               /\ \A i \in 1 .. Len(items) : h[i] = WithThumb(h[i - 1], items[i])
               /\ FoldLeft(WithThumb, base, items) = h[Len(items)]
<1> DEFINE T == Seq(ThumbIds)
           A == ThumbIds
           D == SUBSET (DOMAIN items)
           op == [p \in T \X A |-> WithThumb(p[1], p[2])]
           Is(f) == f = [s \in D |-> IF s = {} THEN base ELSE WithThumb(f[s \ {Max(s)}], items[Max(s)])]
           iter == CHOOSE f : Is(f)
<1>1. FoldLeft(WithThumb, base, items) = iter[DOMAIN items]
  BY DEF FoldLeft, MapThenFoldSet
<1>2. \A t \in T, a \in A : WithThumb(t, a) \in T
  BY WithThumbType
<1>3. op \in [T \X A -> T] /\ \A t \in T, a \in A : op[<<t, a>>] = WithThumb(t, a)
  BY <1>2
<1>4. items \in Seq(A) /\ base \in T
  OBVIOUS
<1> HIDE DEF op, T, A
<1>5. PICK g, h : IsRun(g, h, op, base, items, T)
  BY <1>3, <1>4, FoldRuns
<1>6. \A s \in D : s # {} => s \ {Max(s)} \in D /\ items[Max(s)] \in A
  BY <1>4, GreatestPlace
<1>7. Is(g)
  <2> SUFFICES ASSUME NEW s \in D
               PROVE  g[s] = IF s = {} THEN base ELSE WithThumb(g[s \ {Max(s)}], items[Max(s)])
    BY <1>5 DEF IsRun
  <2>1. g[s] = IF s = {} THEN base ELSE op[<<g[s \ {Max(s)}], items[Max(s)]>>]
    BY <1>5 DEF IsRun, FoldsOver
  <2>2. s # {} => g[s \ {Max(s)}] \in T  BY <1>5, <1>6 DEF IsRun
  <2> QED  BY <1>3, <1>6, <2>1, <2>2
<1>8. Is(iter)  BY <1>7
<1> HIDE DEF iter
<1>9. iter[{}] = base  BY <1>8
<1>10. ASSUME NEW s \in D, s # {}, iter[s \ {Max(s)}] \in T
       PROVE  iter[s] = op[<<iter[s \ {Max(s)}], items[Max(s)]>>]
  <2>1. iter[s] = WithThumb(iter[s \ {Max(s)}], items[Max(s)])  BY <1>8, <1>10
  <2> QED  BY <1>3, <1>6, <1>10, <2>1
<1>11. iter[DOMAIN items] = h[Len(items)]  BY <1>5, <1>9, <1>10 DEF IsRun
<1>12. \A i \in 1 .. Len(items) : h[i] = WithThumb(h[i - 1], items[i])
  <2> TAKE i \in 1 .. Len(items)
  <2>1. i - 1 \in 0 .. Len(items) /\ items[i] \in A  BY <1>4
  <2>2. h[i - 1] \in T  BY <1>5, <2>1 DEF IsRun
  <2> QED  BY <1>3, <1>5, <2>1, <2>2 DEF IsRun
<1> QED  BY <1>1, <1>5, <1>11, <1>12 DEF IsRun, T

LEMMA BytesRun ==
    ASSUME NEW thumbs \in Seq(ThumbIds)
    PROVE  \E h \in [0 .. Len(thumbs) -> Nat] :
               /\ h[0] = HEADER_BYTES
               /\ \A i \in 1 .. Len(thumbs) : h[i] = h[i - 1] + ENTRY_HEADER_BYTES + ThumbLength[thumbs[i]]
               /\ ByteLength(thumbs) = h[Len(thumbs)]
<1> DEFINE T == Nat
           A == ThumbIds
           D == SUBSET (DOMAIN thumbs)
           op == [p \in T \X A |-> p[1] + ENTRY_HEADER_BYTES + ThumbLength[p[2]]]
           Is(f) == f = [s \in D |-> IF s = {} THEN HEADER_BYTES ELSE f[s \ {Max(s)}] + ENTRY_HEADER_BYTES + ThumbLength[thumbs[Max(s)]]]
           iter == CHOOSE f : Is(f)
<1>1. ByteLength(thumbs) = iter[DOMAIN thumbs]
  BY DEF ByteLength, FoldLeft, MapThenFoldSet
<1>2. \A t \in T, a \in A : t + ENTRY_HEADER_BYTES + ThumbLength[a] \in T
  BY ThumbAssumption DEF ENTRY_HEADER_BYTES
<1>3. op \in [T \X A -> T] /\ \A t \in T, a \in A : op[<<t, a>>] = t + ENTRY_HEADER_BYTES + ThumbLength[a]
  BY <1>2
<1>4. thumbs \in Seq(A) /\ HEADER_BYTES \in T
  BY DEF HEADER_BYTES
<1> HIDE DEF op, T, A
<1>5. PICK g, h : IsRun(g, h, op, HEADER_BYTES, thumbs, T)
  BY <1>3, <1>4, FoldRuns
<1>6. \A s \in D : s # {} => s \ {Max(s)} \in D /\ thumbs[Max(s)] \in A
  BY <1>4, GreatestPlace
<1>7. Is(g)
  <2> SUFFICES ASSUME NEW s \in D
               PROVE  g[s] = IF s = {} THEN HEADER_BYTES ELSE g[s \ {Max(s)}] + ENTRY_HEADER_BYTES + ThumbLength[thumbs[Max(s)]]
    BY <1>5 DEF IsRun
  <2>1. g[s] = IF s = {} THEN HEADER_BYTES ELSE op[<<g[s \ {Max(s)}], thumbs[Max(s)]>>]
    BY <1>5 DEF IsRun, FoldsOver
  <2>2. s # {} => g[s \ {Max(s)}] \in T  BY <1>5, <1>6 DEF IsRun
  <2> QED  BY <1>3, <1>6, <2>1, <2>2
<1>8. Is(iter)  BY <1>7
<1> HIDE DEF iter
<1>9. iter[{}] = HEADER_BYTES  BY <1>8
<1>10. ASSUME NEW s \in D, s # {}, iter[s \ {Max(s)}] \in T
       PROVE  iter[s] = op[<<iter[s \ {Max(s)}], thumbs[Max(s)]>>]
  <2>1. iter[s] = iter[s \ {Max(s)}] + ENTRY_HEADER_BYTES + ThumbLength[thumbs[Max(s)]]  BY <1>8, <1>10
  <2> QED  BY <1>3, <1>6, <1>10, <2>1
<1>11. iter[DOMAIN thumbs] = h[Len(thumbs)]  BY <1>5, <1>9, <1>10 DEF IsRun
<1>12. \A i \in 1 .. Len(thumbs) : h[i] = h[i - 1] + ENTRY_HEADER_BYTES + ThumbLength[thumbs[i]]
  <2> TAKE i \in 1 .. Len(thumbs)
  <2>1. i - 1 \in 0 .. Len(thumbs) /\ thumbs[i] \in A  BY <1>4
  <2>2. h[i - 1] \in T  BY <1>5, <2>1 DEF IsRun
  <2> QED  BY <1>3, <1>5, <2>1, <2>2 DEF IsRun
<1> QED  BY <1>1, <1>5, <1>11, <1>12 DEF IsRun, T

Unless(vault, pending, id) == IF id \in Published(vault) THEN pending ELSE Append(pending, id)

LEMMA PendingRuns ==
    ASSUME NEW S, NEW vault, NEW ids \in Seq(S)
    PROVE  \E h \in [0 .. Len(ids) -> Seq(S)] :
               /\ h[0] = <<>>
               /\ \A i \in 1 .. Len(ids) : h[i] = Unless(vault, h[i - 1], ids[i])
               /\ Pending(vault, ids) = h[Len(ids)]
<1> DEFINE T == Seq(S)
           A == S
           D == SUBSET (DOMAIN ids)
           op == [p \in T \X A |-> Unless(vault, p[1], p[2])]
           Is(f) == f = [s \in D |-> IF s = {} THEN <<>> ELSE Unless(vault, f[s \ {Max(s)}], ids[Max(s)])]
           iter == CHOOSE f : Is(f)
<1>1. Pending(vault, ids) = iter[DOMAIN ids]
  BY DEF Pending, Unless, FoldLeft, MapThenFoldSet
<1>2. \A t \in T, a \in A : Unless(vault, t, a) \in T
  BY DEF Unless
<1>3. op \in [T \X A -> T] /\ \A t \in T, a \in A : op[<<t, a>>] = Unless(vault, t, a)
  BY <1>2
<1>4. ids \in Seq(A) /\ <<>> \in T
  OBVIOUS
<1> HIDE DEF op, T, A
<1>5. PICK g, h : IsRun(g, h, op, <<>>, ids, T)
  BY <1>3, <1>4, FoldRuns
<1>6. \A s \in D : s # {} => s \ {Max(s)} \in D /\ ids[Max(s)] \in A
  BY <1>4, GreatestPlace
<1>7. Is(g)
  <2> SUFFICES ASSUME NEW s \in D
               PROVE  g[s] = IF s = {} THEN <<>> ELSE Unless(vault, g[s \ {Max(s)}], ids[Max(s)])
    BY <1>5 DEF IsRun
  <2>1. g[s] = IF s = {} THEN <<>> ELSE op[<<g[s \ {Max(s)}], ids[Max(s)]>>]
    BY <1>5 DEF IsRun, FoldsOver
  <2>2. s # {} => g[s \ {Max(s)}] \in T  BY <1>5, <1>6 DEF IsRun
  <2> QED  BY <1>3, <1>6, <2>1, <2>2
<1>8. Is(iter)  BY <1>7
<1> HIDE DEF iter
<1>9. iter[{}] = <<>>  BY <1>8
<1>10. ASSUME NEW s \in D, s # {}, iter[s \ {Max(s)}] \in T
       PROVE  iter[s] = op[<<iter[s \ {Max(s)}], ids[Max(s)]>>]
  <2>1. iter[s] = Unless(vault, iter[s \ {Max(s)}], ids[Max(s)])  BY <1>8, <1>10
  <2> QED  BY <1>3, <1>6, <1>10, <2>1
<1>11. iter[DOMAIN ids] = h[Len(ids)]  BY <1>5, <1>9, <1>10 DEF IsRun
<1>12. \A i \in 1 .. Len(ids) : h[i] = Unless(vault, h[i - 1], ids[i])
  <2> TAKE i \in 1 .. Len(ids)
  <2>1. i - 1 \in 0 .. Len(ids) /\ ids[i] \in A  BY <1>4
  <2>2. h[i - 1] \in T  BY <1>5, <2>1 DEF IsRun
  <2> QED  BY <1>3, <1>5, <2>1, <2>2 DEF IsRun
<1> QED  BY <1>1, <1>5, <1>11, <1>12 DEF IsRun, T

LEMMA PendingType ==
    ASSUME NEW S, NEW vault, NEW ids \in Seq(S)
    PROVE  Pending(vault, ids) \in Seq(S)
<1>1. Len(ids) \in 0 .. Len(ids)  OBVIOUS
<1> QED  BY <1>1, PendingRuns

LEMMA ByteLengthType == \A thumbs \in Seq(ThumbIds) : ByteLength(thumbs) \in Nat
<1> TAKE thumbs \in Seq(ThumbIds)
<1>1. Len(thumbs) \in 0 .. Len(thumbs)  OBVIOUS
<1> QED  BY <1>1, BytesRun

\* Where a thumbnail is.
ThumbPlaces(thumbs, id) == {i \in 1 .. Len(thumbs) : thumbs[i] = id}

LEMMA HoldsIsPlace ==
    ASSUME NEW thumbs \in Seq(ThumbIds), NEW id
    PROVE  /\ Holds(thumbs, id) <=> ThumbPlaces(thumbs, id) # {}
           /\ OffsetOf(thumbs, id) = OffsetAt(thumbs, IF ThumbPlaces(thumbs, id) # {}
                                                     THEN Min(ThumbPlaces(thumbs, id)) ELSE 0)
<1>1. DOMAIN thumbs = 1 .. Len(thumbs)  OBVIOUS
<1>2. Holds(thumbs, id) <=> ThumbPlaces(thumbs, id) # {}  BY <1>1 DEF Holds, ToSet, ThumbPlaces
<1>3. OffsetOf(thumbs, id) = OffsetAt(thumbs, IF ThumbPlaces(thumbs, id) # {}
                                              THEN Min(ThumbPlaces(thumbs, id)) ELSE 0)
  BY DEF OffsetOf, SelectInSeq, ThumbPlaces
<1> QED  BY <1>2, <1>3

LEMMA FirstPlace ==
    ASSUME NEW thumbs \in Seq(ThumbIds), NEW id, ThumbPlaces(thumbs, id) # {}
    PROVE  /\ Min(ThumbPlaces(thumbs, id)) \in ThumbPlaces(thumbs, id)
           /\ \A i \in ThumbPlaces(thumbs, id) : Min(ThumbPlaces(thumbs, id)) <= i
<1> DEFINE P == ThumbPlaces(thumbs, id)
<1>1. P \in SUBSET Nat  BY DEF ThumbPlaces
<1> HIDE DEF P
<1>2. \E i \in P : \A j \in P : i <= j  BY <1>1, LeastNatural DEF P
<1> QED  BY <1>2 DEF Min, P

LEMMA OffsetType ==
    ASSUME NEW thumbs \in Seq(ThumbIds), NEW id
    PROVE  OffsetOf(thumbs, id) \in Nat
<1> DEFINE i == IF ThumbPlaces(thumbs, id) # {} THEN Min(ThumbPlaces(thumbs, id)) ELSE 0
<1>1. i \in 0 .. Len(thumbs)
  <2>1. CASE ThumbPlaces(thumbs, id) # {}
    <3>1. Min(ThumbPlaces(thumbs, id)) \in ThumbPlaces(thumbs, id)  BY <2>1, FirstPlace
    <3> QED  BY <2>1, <3>1 DEF ThumbPlaces
  <2>2. CASE ThumbPlaces(thumbs, id) = {}  BY <2>2
  <2> QED  BY <2>1, <2>2
<1> HIDE DEF i
<1>2. SubSeq(thumbs, 1, i - 1) \in Seq(ThumbIds)
  BY <1>1
<1>3. OffsetAt(thumbs, i) \in Nat
  <2>1. ByteLength(SubSeq(thumbs, 1, i - 1)) \in Nat  BY <1>2, ByteLengthType
  <2> QED  BY <2>1 DEF OffsetAt, ENTRY_HEADER_BYTES
<1> QED  BY <1>3, HoldsIsPlace DEF i

\* What a page holds stays where it is when a thumbnail is added.
LEMMA OffsetsStay ==
    ASSUME NEW thumbs \in Seq(ThumbIds), NEW x \in ThumbIds, NEW id, Holds(thumbs, id)
    PROVE  /\ Holds(WithThumb(thumbs, x), id)
           /\ OffsetOf(WithThumb(thumbs, x), id) = OffsetOf(thumbs, id)
<1>1. CASE WithThumb(thumbs, x) = thumbs  BY <1>1
<1>2. CASE WithThumb(thumbs, x) = Append(thumbs, x)
  <2> DEFINE more == Append(thumbs, x)
             P == ThumbPlaces(thumbs, id)
             Q == ThumbPlaces(more, id)
  <2>1. /\ more \in Seq(ThumbIds) /\ Len(more) = Len(thumbs) + 1 /\ Len(thumbs) \in Nat
        /\ \A i \in 1 .. Len(thumbs) : more[i] = thumbs[i]
    OBVIOUS
  <2>2. P # {}  BY HoldsIsPlace
  <2>3. P \subseteq Q /\ \A i \in Q : i \in P \/ i > Len(thumbs)
    BY <2>1 DEF ThumbPlaces
  <2>4. Q # {}  BY <2>2, <2>3
  <2>5. Min(P) \in P /\ \A i \in P : Min(P) <= i  BY <2>2, FirstPlace
  <2>6. Min(Q) \in Q /\ \A i \in Q : Min(Q) <= i
    <3> HIDE DEF more
    <3> QED  BY <2>1, <2>4, FirstPlace
  <2>7. P \subseteq 1 .. Len(thumbs)  BY DEF ThumbPlaces
  <2>8. Q \subseteq Nat  BY DEF ThumbPlaces
  <2> HIDE DEF P, Q
  <2>9. Min(P) = Min(Q) /\ Min(P) \in 1 .. Len(thumbs)
    <3>1. Min(P) \in 1 .. Len(thumbs)  BY <2>5, <2>7
    <3>2. Min(Q) <= Min(P) /\ Min(Q) \in Nat  BY <2>3, <2>5, <2>6, <2>8
    <3>3. ~(Min(Q) > Len(thumbs))  BY <2>1, <3>1, <3>2
    <3>4. Min(Q) \in P  BY <2>3, <2>6, <3>3
    <3>5. Min(P) <= Min(Q)  BY <2>5, <3>4
    <3> QED  BY <3>1, <3>2, <3>5
  <2>10. SubSeq(more, 1, Min(P) - 1) = SubSeq(thumbs, 1, Min(P) - 1)
    <3> DEFINE m == Min(P) - 1
    <3>1. m \in 0 .. Len(thumbs)  BY <2>1, <2>9
    <3> HIDE DEF m
    <3>2. SubSeq(more, 1, m) = SubSeq(thumbs, 1, m)  BY <2>1, <3>1
    <3> QED  BY <3>2 DEF m
  <2>11. OffsetAt(more, Min(P)) = OffsetAt(thumbs, Min(P))  BY <2>10 DEF OffsetAt
  <2> HIDE DEF more
  <2>12. /\ Holds(more, id)
         /\ OffsetOf(more, id) = OffsetAt(more, Min(Q))
         /\ OffsetOf(thumbs, id) = OffsetAt(thumbs, Min(P))
    BY <2>1, <2>2, <2>4, HoldsIsPlace DEF P, Q
  <2> QED  BY <1>2, <2>9, <2>11, <2>12 DEF more
<1> QED  BY <1>1, <1>2 DEF WithThumb

LEMMA AddedIsHeld ==
    ASSUME NEW thumbs \in Seq(ThumbIds), NEW x \in ThumbIds
    PROVE  /\ Holds(WithThumb(thumbs, x), x) /\ Len(WithThumb(thumbs, x)) \in Nat
           /\ Len(WithThumb(thumbs, x)) >= Len(thumbs)
           /\ Len(WithThumb(thumbs, x)) <= Len(thumbs) + 1
           /\ Holds(thumbs, x) => WithThumb(thumbs, x) = thumbs
<1>1. Len(thumbs) \in Nat  OBVIOUS
<1>2. CASE Holds(thumbs, x)  BY <1>1, <1>2 DEF WithThumb
<1>3. CASE ~Holds(thumbs, x)
  <2>1. WithThumb(thumbs, x) = Append(thumbs, x)  BY <1>3 DEF WithThumb
  <2> DEFINE more == Append(thumbs, x)
  <2>2. Len(more) = Len(thumbs) + 1 /\ Len(more) \in DOMAIN more /\ more[Len(more)] = x
    BY <1>1
  <2>3. Holds(more, x)  BY <2>2 DEF Holds, ToSet
  <2> HIDE DEF more
  <2> QED  BY <1>1, <1>3, <2>1, <2>2, <2>3 DEF more
<1> QED  BY <1>2, <1>3
-----------------------------------------------------------------------------
(* Building the pages: what is being built starts from the vault's pages    *)
(* and stays packed, with the thumbnail of every entry in place.           *)
BuiltType == [page : Nat, pages : Seq(Seq(ThumbIds)), files : SUBSET ThumbEntry]

LEMMA PageAtType ==
    \A pages \in Seq(Seq(ThumbIds)), p \in Nat : PageAt(pages, p) \in Seq(ThumbIds)
<1> SUFFICES ASSUME NEW pages \in Seq(Seq(ThumbIds)), NEW p \in Nat
             PROVE  PageAt(pages, p) \in Seq(ThumbIds)
  OBVIOUS
<1>1. CASE p < Len(pages)
  <2>1. p + 1 \in 1 .. Len(pages)  BY <1>1
  <2> QED  BY <1>1, <2>1 DEF PageAt
<1>2. CASE ~(p < Len(pages))  BY <1>2 DEF PageAt
<1> QED  BY <1>1, <1>2

LEMMA WithPageType ==
    \A pages \in Seq(Seq(ThumbIds)), p \in Nat, thumbs \in Seq(ThumbIds) :
        WithPage(pages, p, thumbs) \in Seq(Seq(ThumbIds))
  BY DEF WithPage

\* The page that is written changes, and no other.
LEMMA PageIsWritten ==
    ASSUME NEW pages \in Seq(Seq(ThumbIds)), NEW p \in 0 .. Len(pages),
           NEW thumbs \in Seq(ThumbIds)
    PROVE  /\ Len(WithPage(pages, p, thumbs)) = IF p < Len(pages) THEN Len(pages) ELSE p + 1
           /\ PageAt(WithPage(pages, p, thumbs), p) = thumbs
           /\ \A q \in Nat : q # p => PageAt(WithPage(pages, p, thumbs), q) = PageAt(pages, q)
<1>1. Len(pages) \in Nat /\ p \in Nat  OBVIOUS
<1>2. CASE p < Len(pages)
  <2> DEFINE more == [pages EXCEPT ![p + 1] = thumbs]
  <2>1. /\ Len(more) = Len(pages) /\ p + 1 \in 1 .. Len(pages) /\ more[p + 1] = thumbs
        /\ \A i \in 1 .. Len(pages) : i # p + 1 => more[i] = pages[i]
    BY <1>1, <1>2
  <2> HIDE DEF more
  <2>2. WithPage(pages, p, thumbs) = more  BY <1>2 DEF WithPage, more
  <2>3. PageAt(more, p) = thumbs  BY <1>2, <2>1 DEF PageAt
  <2>4. \A q \in Nat : q # p => PageAt(more, q) = PageAt(pages, q)
    <3> SUFFICES ASSUME NEW q \in Nat, q # p PROVE PageAt(more, q) = PageAt(pages, q)
      OBVIOUS
    <3>1. q + 1 # p + 1 /\ (q < Len(pages) => q + 1 \in 1 .. Len(pages))  BY <1>1
    <3> QED  BY <2>1, <3>1 DEF PageAt
  <2> QED  BY <1>2, <2>1, <2>2, <2>3, <2>4
<1>3. CASE ~(p < Len(pages))
  <2> DEFINE more == Append(pages, thumbs)
  <2>1. p = Len(pages)  BY <1>1, <1>3
  <2>2. /\ Len(more) = p + 1 /\ more[p + 1] = thumbs
        /\ \A i \in 1 .. Len(pages) : more[i] = pages[i]
    BY <1>1, <2>1
  <2> HIDE DEF more
  <2>3. WithPage(pages, p, thumbs) = more  BY <1>3 DEF WithPage, more
  <2>4. PageAt(more, p) = thumbs  BY <1>1, <2>2 DEF PageAt
  <2>5. \A q \in Nat : q # p => PageAt(more, q) = PageAt(pages, q)
    <3> SUFFICES ASSUME NEW q \in Nat, q # p PROVE PageAt(more, q) = PageAt(pages, q)
      OBVIOUS
    <3>1. (q < Len(pages) => q + 1 \in 1 .. Len(pages)) /\ (q < Len(pages) <=> q < p + 1)
      BY <1>1, <2>1
    <3> QED  BY <2>2, <3>1 DEF PageAt
  <2> QED  BY <1>3, <2>2, <2>3, <2>4, <2>5
<1> QED  BY <1>2, <1>3

LEMMA AddToPageType == \A built \in BuiltType, id \in ThumbIds : AddToPage(built, id) \in BuiltType
<1> SUFFICES ASSUME NEW built \in BuiltType, NEW id \in ThumbIds
             PROVE  AddToPage(built, id) \in BuiltType
  OBVIOUS
<1> DEFINE page   == PageFor(built, id)
           thumbs == WithThumb(PageAt(built.pages, page), id)
<1>1. built.page \in Nat /\ built.pages \in Seq(Seq(ThumbIds)) /\ built.files \in SUBSET ThumbEntry
  BY DEF BuiltType
<1>2. page \in Nat  BY <1>1 DEF PageFor
<1> HIDE DEF page
<1>3. thumbs \in Seq(ThumbIds)  BY <1>1, <1>2, PageAtType, WithThumbType
<1> HIDE DEF thumbs
<1>4. WithPage(built.pages, page, thumbs) \in Seq(Seq(ThumbIds))  BY <1>1, <1>2, <1>3, WithPageType
<1>5. OffsetOf(thumbs, id) \in Nat  BY <1>3, OffsetType
<1>6. MakeMediaEntry(id, page, thumbs) \in ThumbEntry
  BY <1>2, <1>5 DEF MakeMediaEntry, ThumbEntry
<1>7. AddToPage(built, id) =
        [page  |-> page, pages |-> WithPage(built.pages, page, thumbs),
         files |-> built.files \cup {MakeMediaEntry(id, page, thumbs)}]
  BY DEF AddToPage, page, thumbs
<1> QED  BY <1>1, <1>2, <1>4, <1>6, <1>7 DEF BuiltType

LEMMA PagesRun ==
    ASSUME NEW base \in BuiltType, NEW items \in Seq(ThumbIds)
    PROVE  \E h \in [0 .. Len(items) -> BuiltType] :
               /\ h[0] = base
               /\ \A i \in 1 .. Len(items) : h[i] = AddToPage(h[i - 1], items[i])
               /\ FoldLeft(AddToPage, base, items) = h[Len(items)]
<1> DEFINE T == BuiltType
           A == ThumbIds
           D == SUBSET (DOMAIN items)
           op == [p \in T \X A |-> AddToPage(p[1], p[2])]
           Is(f) == f = [s \in D |-> IF s = {} THEN base ELSE AddToPage(f[s \ {Max(s)}], items[Max(s)])]
           iter == CHOOSE f : Is(f)
<1>1. FoldLeft(AddToPage, base, items) = iter[DOMAIN items]
  BY DEF FoldLeft, MapThenFoldSet
<1>2. \A t \in T, a \in A : AddToPage(t, a) \in T
  BY AddToPageType
<1>3. op \in [T \X A -> T] /\ \A t \in T, a \in A : op[<<t, a>>] = AddToPage(t, a)
  BY <1>2
<1>4. items \in Seq(A) /\ base \in T
  OBVIOUS
<1> HIDE DEF op, T, A
<1>5. PICK g, h : IsRun(g, h, op, base, items, T)
  BY <1>3, <1>4, FoldRuns
<1>6. \A s \in D : s # {} => s \ {Max(s)} \in D /\ items[Max(s)] \in A
  BY <1>4, GreatestPlace
<1>7. Is(g)
  <2> SUFFICES ASSUME NEW s \in D
               PROVE  g[s] = IF s = {} THEN base ELSE AddToPage(g[s \ {Max(s)}], items[Max(s)])
    BY <1>5 DEF IsRun
  <2>1. g[s] = IF s = {} THEN base ELSE op[<<g[s \ {Max(s)}], items[Max(s)]>>]
    BY <1>5 DEF IsRun, FoldsOver
  <2>2. s # {} => g[s \ {Max(s)}] \in T  BY <1>5, <1>6 DEF IsRun
  <2> QED  BY <1>3, <1>6, <2>1, <2>2
<1>8. Is(iter)  BY <1>7
<1> HIDE DEF iter
<1>9. iter[{}] = base  BY <1>8
<1>10. ASSUME NEW s \in D, s # {}, iter[s \ {Max(s)}] \in T
       PROVE  iter[s] = op[<<iter[s \ {Max(s)}], items[Max(s)]>>]
  <2>1. iter[s] = AddToPage(iter[s \ {Max(s)}], items[Max(s)])  BY <1>8, <1>10
  <2> QED  BY <1>3, <1>6, <1>10, <2>1
<1>11. iter[DOMAIN items] = h[Len(items)]  BY <1>5, <1>9, <1>10 DEF IsRun
<1>12. \A i \in 1 .. Len(items) : h[i] = AddToPage(h[i - 1], items[i])
  <2> TAKE i \in 1 .. Len(items)
  <2>1. i - 1 \in 0 .. Len(items) /\ items[i] \in A  BY <1>4
  <2>2. h[i - 1] \in T  BY <1>5, <2>1 DEF IsRun
  <2> QED  BY <1>3, <1>5, <2>1, <2>2 DEF IsRun
<1> QED  BY <1>1, <1>5, <1>11, <1>12 DEF IsRun, T

\* The pages are full up to the one being filled, which is the last.
PagesAreFull(pages, page) ==
    /\ page <= Len(pages) /\ Len(pages) <= page + 1
    /\ \A p \in 0 .. page :
          /\ Len(PageAt(pages, p)) <= BUNDLE_PAGE_SIZE
          /\ p < page => Len(PageAt(pages, p)) = BUNDLE_PAGE_SIZE

HomeOf(entry) == IF entry.page = NoPage THEN 0 ELSE entry.page

IsInPlace(entry, pages, page) ==
    /\ HomeOf(entry) <= page
    /\ Holds(PageAt(pages, HomeOf(entry)), entry.id)
    /\ entry.offset = OffsetOf(PageAt(pages, HomeOf(entry)), entry.id)

BuiltOK(built, low) ==
    /\ built \in BuiltType
    /\ low <= built.page
    /\ PagesAreFull(built.pages, built.page)
    /\ \A entry \in built.files : IsInPlace(entry, built.pages, built.page)

LEMMA HomeType == \A entry \in ThumbEntry : HomeOf(entry) \in Nat
  BY DEF HomeOf, ThumbEntry

LEMMA AddToPageKeeps ==
    ASSUME NEW low \in Nat, NEW built, NEW id \in ThumbIds, BuiltOK(built, low)
    PROVE  /\ BuiltOK(AddToPage(built, id), low)
           /\ AddToPage(built, id).pages # <<>>
<1> DEFINE page   == PageFor(built, id)
           old    == PageAt(built.pages, page)
           thumbs == WithThumb(old, id)
           pages  == WithPage(built.pages, page, thumbs)
           entry  == MakeMediaEntry(id, page, thumbs)
           b      == AddToPage(built, id)
<1>1. built.page \in Nat /\ built.pages \in Seq(Seq(ThumbIds)) /\ built.files \in SUBSET ThumbEntry
  BY DEF BuiltType, BuiltOK
<1>2. /\ low <= built.page /\ built.page <= Len(built.pages)
      /\ Len(built.pages) <= built.page + 1 /\ Len(built.pages) \in Nat
      /\ BUNDLE_PAGE_SIZE \in Nat \ {0}
  BY <1>1, ThumbAssumption DEF BuiltOK, PagesAreFull
<1>3. \A p \in 0 .. built.page :
          /\ Len(PageAt(built.pages, p)) <= BUNDLE_PAGE_SIZE
          /\ p < built.page => Len(PageAt(built.pages, p)) = BUNDLE_PAGE_SIZE
  BY DEF BuiltOK, PagesAreFull
<1>4. b = [page |-> page, pages |-> pages, files |-> built.files \cup {entry}]
  BY DEF AddToPage
<1>5. b \in BuiltType  BY AddToPageType DEF BuiltOK
<1> HIDE DEF b
<1> DEFINE last == PageAt(built.pages, built.page)
<1>6. last \in Seq(ThumbIds) /\ Len(last) <= BUNDLE_PAGE_SIZE /\ Len(last) \in Nat
  <2>1. last \in Seq(ThumbIds)  BY <1>1, PageAtType
  <2>2. built.page \in 0 .. built.page  BY <1>1
  <2>3. Len(last) <= BUNDLE_PAGE_SIZE  BY <1>3, <2>2
  <2> HIDE DEF last
  <2> QED  BY <2>1, <2>3
<1>7. \/ page = built.page /\ (Holds(last, id) \/ Len(last) < BUNDLE_PAGE_SIZE)
      \/ page = built.page + 1 /\ Len(last) >= BUNDLE_PAGE_SIZE
  BY <1>2, <1>6 DEF PageFor
<1> HIDE DEF page, last
<1>8. page \in Nat /\ built.page <= page  BY <1>1, <1>7
<1>9. page <= Len(built.pages)
  <2>1. CASE page = built.page  BY <1>2, <2>1
  <2>2. CASE page = built.page + 1 /\ Len(last) >= BUNDLE_PAGE_SIZE
    <3>1. Len(last) # 0  BY <1>2, <1>6, <2>2
    <3>2. built.page < Len(built.pages)  BY <3>1 DEF last, PageAt
    <3> QED  BY <1>1, <1>2, <2>2, <3>2
  <2> QED  BY <1>7, <2>1, <2>2
<1>10. old \in Seq(ThumbIds) /\ Len(old) \in Nat
  <2>1. old \in Seq(ThumbIds)  BY <1>1, <1>8, PageAtType
  <2> HIDE DEF old
  <2> QED  BY <2>1
<1>11. page = built.page + 1 => old = <<>>
  BY <1>1, <1>2 DEF PageAt
<1>12. Holds(old, id) \/ Len(old) < BUNDLE_PAGE_SIZE
  <2>1. CASE page = built.page  BY <1>1, <1>7, <2>1 DEF last
  <2>2. CASE page = built.page + 1  BY <1>2, <1>11, <2>2
  <2> QED  BY <1>7, <2>1, <2>2
<1>13. Len(old) <= BUNDLE_PAGE_SIZE
  <2>1. CASE page = built.page  BY <1>6, <2>1 DEF last
  <2>2. CASE page = built.page + 1  BY <1>2, <1>11, <2>2
  <2> QED  BY <1>7, <2>1, <2>2
<1> HIDE DEF old
<1>14. /\ thumbs \in Seq(ThumbIds) /\ Len(thumbs) \in Nat
       /\ Holds(thumbs, id) /\ Len(thumbs) <= BUNDLE_PAGE_SIZE
  <2>1. thumbs \in Seq(ThumbIds)  BY <1>10, WithThumbType
  <2>2. CASE Holds(old, id)  BY <1>10, <1>13, <2>1, <2>2, AddedIsHeld
  <2>3. CASE Len(old) < BUNDLE_PAGE_SIZE
    <3>1. Holds(thumbs, id) /\ Len(thumbs) <= Len(old) + 1 /\ Len(thumbs) \in Nat
      BY <1>10, AddedIsHeld
    <3> HIDE DEF thumbs
    <3> QED  BY <1>2, <1>10, <2>1, <2>3, <3>1
  <2> QED  BY <1>12, <2>2, <2>3
<1>15. \A other \in ThumbIds : Holds(old, other) =>
           Holds(thumbs, other) /\ OffsetOf(thumbs, other) = OffsetOf(old, other)
  BY <1>10, OffsetsStay
<1> HIDE DEF thumbs
<1>16. /\ Len(pages) = IF page < Len(built.pages) THEN Len(built.pages) ELSE page + 1
       /\ PageAt(pages, page) = thumbs
       /\ \A q \in Nat : q # page => PageAt(pages, q) = PageAt(built.pages, q)
  BY <1>1, <1>2, <1>8, <1>9, <1>14, PageIsWritten
<1>17. pages \in Seq(Seq(ThumbIds))  BY <1>1, <1>8, <1>14, WithPageType
<1> HIDE DEF pages
<1>18. page <= Len(pages) /\ Len(pages) <= page + 1 /\ Len(pages) > 0
  BY <1>1, <1>2, <1>7, <1>8, <1>9, <1>16
<1>19. PagesAreFull(pages, page)
  <2> SUFFICES ASSUME NEW p \in 0 .. page
               PROVE  /\ Len(PageAt(pages, p)) <= BUNDLE_PAGE_SIZE
                      /\ p < page => Len(PageAt(pages, p)) = BUNDLE_PAGE_SIZE
    BY <1>18 DEF PagesAreFull
  <2>1. CASE p = page
    <3>1. ~(p < page)  BY <1>8, <2>1
    <3> QED  BY <1>14, <1>16, <2>1, <3>1
  <2>2. CASE p # page
    <3>1. p \in Nat /\ p < page  BY <1>8, <2>2
    <3>2. PageAt(pages, p) = PageAt(built.pages, p)  BY <1>16, <2>2, <3>1
    <3>3. CASE p < built.page
      <4>1. p \in 0 .. built.page  BY <1>1, <3>1, <3>3
      <4>2. Len(PageAt(built.pages, p)) = BUNDLE_PAGE_SIZE  BY <1>3, <3>3, <4>1
      <4> QED  BY <1>2, <3>2, <4>2
    <3>4. CASE ~(p < built.page)
      <4>1. p = built.page /\ page = built.page + 1  BY <1>1, <1>7, <3>1, <3>4
      <4>2. Len(last) >= BUNDLE_PAGE_SIZE  BY <1>1, <1>7, <4>1
      <4>3. Len(last) = BUNDLE_PAGE_SIZE  BY <1>2, <1>6, <4>2
      <4> QED  BY <1>2, <3>2, <4>1, <4>3 DEF last
    <3> QED  BY <3>3, <3>4
  <2> QED  BY <2>1, <2>2
<1>20. ASSUME NEW e \in built.files PROVE IsInPlace(e, pages, page)
  <2>1. e \in ThumbEntry /\ IsInPlace(e, built.pages, built.page) /\ e.id \in ThumbIds
    BY <1>1 DEF BuiltOK, ThumbEntry
  <2> DEFINE home == HomeOf(e)
  <2>2. home \in Nat  BY <2>1, HomeType
  <2>3. /\ home <= built.page /\ Holds(PageAt(built.pages, home), e.id)
        /\ e.offset = OffsetOf(PageAt(built.pages, home), e.id)
    BY <2>1 DEF IsInPlace
  <2> HIDE DEF home
  <2>4. home <= page  BY <1>1, <1>8, <2>2, <2>3
  <2>5. CASE home = page
    <3>1. PageAt(built.pages, home) = old  BY <2>5 DEF old
    <3>2. Holds(thumbs, e.id) /\ OffsetOf(thumbs, e.id) = OffsetOf(old, e.id)
      BY <1>15, <2>1, <2>3, <3>1
    <3>3. PageAt(pages, home) = thumbs  BY <1>16, <2>5
    <3> QED  BY <2>3, <2>4, <3>1, <3>2, <3>3 DEF IsInPlace, home
  <2>6. CASE home # page
    <3>1. PageAt(pages, home) = PageAt(built.pages, home)  BY <1>16, <2>2, <2>6
    <3> QED  BY <2>3, <2>4, <3>1 DEF IsInPlace, home
  <2> QED  BY <2>5, <2>6
<1>21. IsInPlace(entry, pages, page)
  <2>1. entry.page = page /\ entry.id = id /\ entry.offset = OffsetOf(thumbs, id)
    BY DEF MakeMediaEntry
  <2> HIDE DEF entry
  <2>2. HomeOf(entry) = page
    <3>1. page # NoPage  BY <1>8, ThumbAssumption
    <3> QED  BY <2>1, <3>1 DEF HomeOf
  <2> QED  BY <1>8, <1>14, <1>16, <2>1, <2>2 DEF IsInPlace
<1>22. b.page = page /\ b.pages = pages /\ b.files = built.files \cup {entry}
  BY <1>4
<1> HIDE DEF entry
<1>23. \A e \in b.files : IsInPlace(e, b.pages, b.page)  BY <1>20, <1>21, <1>22
<1>24. low <= b.page  BY <1>1, <1>2, <1>8, <1>22
<1>25. BuiltOK(b, low)  BY <1>5, <1>19, <1>22, <1>23, <1>24 DEF BuiltOK
<1>26. b.pages # <<>>  BY <1>17, <1>18, <1>22
<1> QED  BY <1>25, <1>26 DEF b
LEMMA PagesRunKeeps ==
    ASSUME NEW low \in Nat, NEW base, BuiltOK(base, low),
           NEW items \in Seq(ThumbIds), items # <<>>
    PROVE  /\ BuiltOK(FoldLeft(AddToPage, base, items), low)
           /\ FoldLeft(AddToPage, base, items).pages # <<>>
<1> DEFINE n == Len(items)
<1>1. n \in Nat /\ n # 0  OBVIOUS
<1>2. base \in BuiltType  BY DEF BuiltOK
<1>3. PICK h \in [0 .. n -> BuiltType] :
          /\ h[0] = base
          /\ \A i \in 1 .. n : h[i] = AddToPage(h[i - 1], items[i])
          /\ FoldLeft(AddToPage, base, items) = h[n]
  BY <1>2, PagesRun
<1>4. \A i \in 1 .. n : items[i] \in ThumbIds  OBVIOUS
<1> DEFINE Bad == {i \in 0 .. n : ~BuiltOK(h[i], low)}
<1> HIDE DEF n
<1>5. Bad = {}
  <2> SUFFICES ASSUME Bad # {} PROVE FALSE  OBVIOUS
  <2>1. Bad \in SUBSET Nat  BY <1>1
  <2>2. PICK i \in Bad : \A o \in Bad : i <= o  BY <2>1, LeastNatural
  <2>3. i \in 0 .. n /\ ~BuiltOK(h[i], low) /\ i # 0  BY <1>3
  <2>4. i \in 1 .. n /\ i - 1 \in 0 .. n /\ ~(i <= i - 1)  BY <1>1, <2>3
  <2>5. BuiltOK(h[i - 1], low)  BY <2>2, <2>4
  <2>6. BuiltOK(AddToPage(h[i - 1], items[i]), low)  BY <1>4, <2>4, <2>5, AddToPageKeeps
  <2> QED  BY <1>3, <2>3, <2>4, <2>6
<1>6. n \in 1 .. n /\ n - 1 \in 0 .. n  BY <1>1
<1>7. BuiltOK(h[n - 1], low)  BY <1>5, <1>6
<1>8. BuiltOK(AddToPage(h[n - 1], items[n]), low) /\ AddToPage(h[n - 1], items[n]).pages # <<>>
  BY <1>4, <1>6, <1>7, AddToPageKeeps
<1> QED  BY <1>3, <1>6, <1>8

\* What is published, and what is about to be.
ShelfOK(vault) == vault \in ShelfType /\ ThumbsAreFound(vault) /\ PagesArePacked(vault)

LEMMA ShelfFields ==
    ASSUME NEW vault \in ShelfType
    PROVE  /\ vault.bundlePages \in (Nat \ {0}) \cup {NoPage}
           /\ vault.files \in SUBSET ThumbEntry
           /\ vault.pages \in Seq(Seq(ThumbIds)) /\ vault.bundle \in Seq(ThumbIds)
           /\ PagesIn(vault) \in Nat \ {0} /\ PagesIn(vault) - 1 \in Nat
<1>1. /\ vault.bundlePages \in (Nat \ {0}) \cup {NoPage}
      /\ vault.files \in SUBSET ThumbEntry
      /\ vault.pages \in Seq(Seq(ThumbIds)) /\ vault.bundle \in Seq(ThumbIds)
  BY DEF ShelfType
<1>2. PagesIn(vault) \in Nat \ {0}  BY <1>1 DEF PagesIn
<1>3. PagesIn(vault) - 1 \in Nat  BY <1>2
<1> QED  BY <1>1, <1>2, <1>3

LEMMA LargerOfTwo ==
    ASSUME NEW a \in Nat, NEW b \in Nat, a <= b
    PROVE  Max({a, b}) = b
<1>1. IsFiniteSet({a, b}) /\ {a, b} \in SUBSET Int /\ {a, b} # {}
  <2>1. IsFiniteSet({} \cup {a})  BY FS_EmptySet, FS_AddElement
  <2>2. IsFiniteSet(({} \cup {a}) \cup {b})  BY <2>1, FS_AddElement
  <2>3. ({} \cup {a}) \cup {b} = {a, b}  OBVIOUS
  <2> QED  BY <2>2, <2>3
<1>2. Max({a, b}) \in {a, b} /\ \A y \in {a, b} : y <= Max({a, b})  BY <1>1, GreatestInteger
<1> QED  BY <1>2

LEMMA PagedIsJust ==
    ASSUME NEW vault, ShelfOK(vault), UsesPages(vault),
           NEW items \in Seq(ThumbIds), items # <<>>
    PROVE  ShelfOK(BuildPagedBundle(vault, items))
<1> DEFINE low   == PagesIn(vault) - 1
           first == [page |-> low, pages |-> vault.pages, files |-> vault.files]
           built == FoldLeft(AddToPage, first, items)
           next  == BuildPagedBundle(vault, items)
<1>1. vault \in ShelfType /\ ThumbsAreFound(vault) /\ PagesArePacked(vault)  BY DEF ShelfOK
<1>2. /\ vault.bundlePages \in (Nat \ {0}) \cup {NoPage}
      /\ vault.files \in SUBSET ThumbEntry
      /\ vault.pages \in Seq(Seq(ThumbIds)) /\ vault.bundle \in Seq(ThumbIds)
      /\ PagesIn(vault) \in Nat \ {0} /\ low \in Nat
  BY <1>1, ShelfFields
<1>3. low + 1 = PagesIn(vault)  BY <1>2
<1>4. next = [vault EXCEPT !.pages = built.pages, !.files = built.files,
                           !.bundlePages = Max({PagesIn(vault), built.page + 1})]
  BY DEF BuildPagedBundle
<1> HIDE DEF next, built
<1>5. first.page = low /\ first.pages = vault.pages /\ first.files = vault.files  OBVIOUS
<1>6. first \in BuiltType  BY <1>2 DEF BuiltType
<1> HIDE DEF first
<1>7. PagesAreFull(vault.pages, low)
  <2>1. Len(vault.pages) <= low + 1 /\ Len(vault.pages) \in Nat
    BY <1>1, <1>2, <1>3 DEF PagesArePacked
  <2>2. \A p \in 0 .. low :
            /\ Len(PageAt(vault.pages, p)) <= BUNDLE_PAGE_SIZE
            /\ p < low => Len(PageAt(vault.pages, p)) = BUNDLE_PAGE_SIZE
    BY <1>1 DEF PagesArePacked
  <2>3. low <= Len(vault.pages)
    <3>1. CASE low = 0  BY <2>1, <3>1
    <3>2. CASE low # 0
      <4>1. low - 1 \in 0 .. low /\ low - 1 < low  BY <1>2, <3>2
      <4>2. Len(PageAt(vault.pages, low - 1)) = BUNDLE_PAGE_SIZE  BY <2>2, <4>1
      <4>3. PageAt(vault.pages, low - 1) # <<>>  BY <4>2, ThumbAssumption
      <4>4. low - 1 < Len(vault.pages)  BY <4>3 DEF PageAt
      <4> QED  BY <1>2, <2>1, <4>4
    <3> QED  BY <3>1, <3>2
  <2> QED  BY <2>1, <2>2, <2>3 DEF PagesAreFull
<1>8. ASSUME NEW e \in vault.files PROVE IsInPlace(e, vault.pages, low)
  <2>1. vault.bundlePages # NoPage /\ ~BundleIsRead(vault)
    BY <1>8 DEF UsesPages, BundleIsRead
  <2>2. e \in ThumbEntry  BY <1>2
  <2>3. IsFound(vault, e)  BY <1>1 DEF ThumbsAreFound
  <2>4. PlaceOf(vault, e) = PageAt(vault.pages, HomeOf(e))  BY <2>1 DEF PlaceOf, HomeOf
  <2>5. HomeOf(e) <= low
    <3>1. CASE e.page = NoPage
      <4>1. HomeOf(e) = 0  BY <3>1 DEF HomeOf
      <4> QED  BY <1>2, <4>1
    <3>2. CASE e.page # NoPage
      <4>1. HomeOf(e) = e.page /\ e.page \in Nat  BY <2>2, <3>2 DEF HomeOf, ThumbEntry
      <4>2. e.page < PagesIn(vault)  BY <2>1, <2>3, <3>2 DEF IsFound, PagesIn
      <4> QED  BY <1>2, <4>1, <4>2
    <3> QED  BY <3>1, <3>2
  <2> QED  BY <2>3, <2>4, <2>5 DEF IsFound, IsInPlace
<1> HIDE DEF low
<1>9. BuiltOK(first, low)
  <2>1. low <= first.page  BY <1>2, <1>5
  <2> QED  BY <1>5, <1>6, <1>7, <1>8, <2>1 DEF BuiltOK
<1>10. BuiltOK(built, low) /\ built.pages # <<>>  BY <1>2, <1>9, PagesRunKeeps DEF built
<1>11. /\ built.page \in Nat /\ built.pages \in Seq(Seq(ThumbIds))
       /\ built.files \in SUBSET ThumbEntry
       /\ low <= built.page /\ PagesAreFull(built.pages, built.page)
       /\ \A e \in built.files : IsInPlace(e, built.pages, built.page)
  BY <1>10 DEF BuiltOK, BuiltType
<1>12. Max({PagesIn(vault), built.page + 1}) = built.page + 1
  <2>1. PagesIn(vault) \in Nat /\ built.page + 1 \in Nat /\ PagesIn(vault) <= built.page + 1
    BY <1>2, <1>3, <1>11
  <2> QED  BY <2>1, LargerOfTwo
<1>13. /\ next \in ShelfType /\ next.bundlePages = built.page + 1
       /\ next.pages = built.pages /\ next.files = built.files /\ next.bundle = vault.bundle
  <2>1. vault \in [bundlePages : (Nat \ {0}) \cup {NoPage}, files : SUBSET ThumbEntry,
                   pages : Seq(Seq(ThumbIds)), bundle : Seq(ThumbIds)]
    BY <1>1 DEF ShelfType
  <2>2. built.page + 1 \in Nat \ {0}  BY <1>11
  <2>3. next = [vault EXCEPT !.pages = built.pages, !.files = built.files,
                             !.bundlePages = built.page + 1]
    BY <1>4, <1>12
  <2> QED  BY <1>11, <2>1, <2>2, <2>3 DEF ShelfType
<1>14. next.bundlePages # NoPage /\ PagesIn(next) = built.page + 1 /\ ~BundleIsRead(next)
  <2>1. built.page + 1 # NoPage  BY <1>11, ThumbAssumption
  <2> QED  BY <1>10, <1>13, <2>1 DEF PagesIn, BundleIsRead
<1>15. ThumbsAreFound(next)
  <2> SUFFICES ASSUME NEW e \in next.files PROVE IsFound(next, e)  BY DEF ThumbsAreFound
  <2>1. e \in ThumbEntry /\ IsInPlace(e, built.pages, built.page)  BY <1>11, <1>13
  <2>2. PlaceOf(next, e) = PageAt(built.pages, HomeOf(e))  BY <1>13, <1>14 DEF PlaceOf, HomeOf
  <2>3. e.page # NoPage => e.page < next.bundlePages
    <3>1. e.page # NoPage => e.page \in Nat /\ HomeOf(e) = e.page
      BY <2>1 DEF HomeOf, ThumbEntry
    <3> QED  BY <1>11, <1>13, <2>1, <3>1 DEF IsInPlace
  <2> QED  BY <2>1, <2>2, <2>3 DEF IsFound, IsInPlace
<1>16. PagesArePacked(next)
  <2>1. (built.page + 1) - 1 = built.page  BY <1>11
  <2> QED  BY <1>11, <1>13, <1>14, <2>1 DEF PagesArePacked, PagesAreFull
<1> QED  BY <1>13, <1>15, <1>16 DEF ShelfOK, next
\* Where the one bundle goes on, what it held stays.
LEMMA BundleKeeps ==
    ASSUME NEW bundle \in Seq(ThumbIds), NEW items \in Seq(ThumbIds)
    PROVE  LET more == FoldLeft(WithThumb, bundle, items)
           IN  /\ more \in Seq(ThumbIds)
               /\ \A id \in ThumbIds : Holds(bundle, id) =>
                      Holds(more, id) /\ OffsetOf(more, id) = OffsetOf(bundle, id)
               /\ \A id \in ToSet(items) : Holds(more, id)
<1> DEFINE n == Len(items)
           more == FoldLeft(WithThumb, bundle, items)
<1>1. n \in Nat /\ n \in 0 .. n /\ DOMAIN items = 1 .. n  OBVIOUS
<1>2. PICK h \in [0 .. n -> Seq(ThumbIds)] :
          /\ h[0] = bundle
          /\ \A i \in 1 .. n : h[i] = WithThumb(h[i - 1], items[i])
          /\ more = h[n]
  BY BundleRuns
<1>3. \A i \in 1 .. n : items[i] \in ThumbIds  OBVIOUS
<1> HIDE DEF n, more
<1> DEFINE Keeps(i, id, j) == Holds(h[j], id) =>
                                 Holds(h[i], id) /\ OffsetOf(h[i], id) = OffsetOf(h[j], id)
<1>4. ASSUME NEW id \in ThumbIds, NEW j \in 0 .. n PROVE Keeps(n, id, j)
  <2> DEFINE Bad == {i \in j .. n : ~Keeps(i, id, j)}
  <2>1. Bad = {}
    <3> SUFFICES ASSUME Bad # {} PROVE FALSE  OBVIOUS
    <3>1. Bad \in SUBSET Nat  BY <1>1
    <3>2. PICK i \in Bad : \A o \in Bad : i <= o  BY <3>1, LeastNatural
    <3>3. i \in j .. n /\ ~Keeps(i, id, j) /\ i # j  OBVIOUS
    <3>4. i \in 1 .. n /\ i - 1 \in j .. n /\ i - 1 \in 0 .. n /\ ~(i <= i - 1)
      BY <1>1, <3>3
    <3>5. Keeps(i - 1, id, j)  BY <3>2, <3>4
    <3>6. h[i - 1] \in Seq(ThumbIds) /\ items[i] \in ThumbIds /\ h[i] = WithThumb(h[i - 1], items[i])
      BY <1>2, <1>3, <3>4
    <3>7. Holds(h[i - 1], id) =>
            Holds(h[i], id) /\ OffsetOf(h[i], id) = OffsetOf(h[i - 1], id)
      BY <3>6, OffsetsStay
    <3> QED  BY <3>3, <3>5, <3>7
  <2>2. n \in j .. n  BY <1>1
  <2> QED  BY <2>1, <2>2
<1>5. \A id \in ThumbIds : Holds(bundle, id) =>
          Holds(more, id) /\ OffsetOf(more, id) = OffsetOf(bundle, id)
  <2>1. 0 \in 0 .. n  BY <1>1
  <2> QED  BY <1>2, <1>4, <2>1
<1>6. ASSUME NEW id \in ToSet(items) PROVE Holds(more, id)
  <2>1. PICK i \in 1 .. n : items[i] = id  BY <1>1, <1>6 DEF ToSet
  <2>2. i \in 0 .. n /\ i - 1 \in 0 .. n /\ id \in ThumbIds  BY <1>1, <1>3, <2>1
  <2>3. h[i - 1] \in Seq(ThumbIds) /\ h[i] = WithThumb(h[i - 1], id)  BY <1>2, <2>1, <2>2
  <2>4. Holds(h[i], id)  BY <2>2, <2>3, AddedIsHeld
  <2>5. Keeps(n, id, i)  BY <1>4, <2>2
  <2> QED  BY <1>2, <2>4, <2>5
<1>7. more \in Seq(ThumbIds)  BY <1>1, <1>2
<1> QED  BY <1>5, <1>6, <1>7 DEF more

LEMMA LegacyIsJust ==
    ASSUME NEW vault, ShelfOK(vault), ~UsesPages(vault), NEW items \in Seq(ThumbIds)
    PROVE  ShelfOK(BuildLegacyBundle(vault, items))
<1> DEFINE more  == FoldLeft(WithThumb, vault.bundle, items)
           added == {MakeMediaEntry(id, NoPage, more) : id \in ToSet(items)}
           next  == BuildLegacyBundle(vault, items)
<1>1. vault \in ShelfType /\ ThumbsAreFound(vault) /\ PagesArePacked(vault)  BY DEF ShelfOK
<1>2. /\ vault.bundlePages \in (Nat \ {0}) \cup {NoPage}
      /\ vault.files \in SUBSET ThumbEntry
      /\ vault.pages \in Seq(Seq(ThumbIds)) /\ vault.bundle \in Seq(ThumbIds)
  BY <1>1, ShelfFields
<1>3. BundleIsRead(vault)  BY DEF UsesPages, BundleIsRead
<1>4. /\ more \in Seq(ThumbIds)
      /\ \A id \in ThumbIds : Holds(vault.bundle, id) =>
             Holds(more, id) /\ OffsetOf(more, id) = OffsetOf(vault.bundle, id)
      /\ \A id \in ToSet(items) : Holds(more, id)
  BY <1>2, BundleKeeps
<1>5. next = [vault EXCEPT !.bundle = more, !.bundlePages = NoPage, !.files = vault.files \cup added]
  BY DEF BuildLegacyBundle
<1> HIDE DEF next, more
<1>6. ToSet(items) \subseteq ThumbIds  BY DEF ToSet
<1>7. \A id \in ThumbIds : MakeMediaEntry(id, NoPage, more) \in ThumbEntry
  BY <1>4, OffsetType DEF MakeMediaEntry, ThumbEntry
<1>8. added \in SUBSET ThumbEntry  BY <1>6, <1>7
<1>9. \A e \in added : e.id \in ToSet(items) /\ e.offset = OffsetOf(more, e.id)
  BY DEF MakeMediaEntry
<1> HIDE DEF added
<1>10. /\ next \in ShelfType /\ next.bundlePages = NoPage /\ next.bundle = more
       /\ next.files = vault.files \cup added /\ next.pages = vault.pages
  <2>1. vault \in [bundlePages : (Nat \ {0}) \cup {NoPage}, files : SUBSET ThumbEntry,
                   pages : Seq(Seq(ThumbIds)), bundle : Seq(ThumbIds)]
    BY <1>1 DEF ShelfType
  <2> QED  BY <1>2, <1>4, <1>5, <1>8, <2>1 DEF ShelfType
<1>11. ThumbsAreFound(next)
  <2> SUFFICES ASSUME NEW e \in next.files PROVE IsFound(next, e)  BY DEF ThumbsAreFound
  <2>1. PlaceOf(next, e) = more  BY <1>10 DEF PlaceOf, BundleIsRead
  <2>2. CASE e \in added  BY <1>4, <1>9, <1>10, <2>1, <2>2 DEF IsFound
  <2>3. CASE e \in vault.files
    <3>1. e.id \in ThumbIds  BY <1>2, <2>3 DEF ThumbEntry
    <3>2. PlaceOf(vault, e) = vault.bundle  BY <1>3 DEF PlaceOf
    <3>3. Holds(vault.bundle, e.id) /\ e.offset = OffsetOf(vault.bundle, e.id)
      BY <1>1, <2>3, <3>2 DEF ThumbsAreFound, IsFound
    <3> QED  BY <1>4, <1>10, <2>1, <3>1, <3>3 DEF IsFound
  <2> QED  BY <1>10, <2>2, <2>3
<1>12. PagesIn(next) = 1 /\ PagesIn(vault) = 1
  BY <1>3, <1>10 DEF PagesIn, BundleIsRead
<1>13. PagesArePacked(next)  BY <1>1, <1>10, <1>12 DEF PagesArePacked
<1> QED  BY <1>10, <1>11, <1>13 DEF ShelfOK, next

LEMMA BuiltIsJust ==
    ASSUME NEW vault, ShelfOK(vault), NEW items \in Seq(ThumbIds), items # <<>>
    PROVE  ShelfOK(Built(vault, items))
  BY PagedIsJust, LegacyIsJust DEF Built

LEMMA DeletedIsJust ==
    ASSUME NEW vault, ShelfOK(vault), NEW entry
    PROVE  ShelfOK([vault EXCEPT !.files = @ \ {entry}])
<1> DEFINE next == [vault EXCEPT !.files = @ \ {entry}]
<1>1. vault \in ShelfType /\ ThumbsAreFound(vault) /\ PagesArePacked(vault)  BY DEF ShelfOK
<1>2. /\ next \in ShelfType /\ next.bundlePages = vault.bundlePages
      /\ next.bundle = vault.bundle /\ next.pages = vault.pages
      /\ next.files \subseteq vault.files
  BY <1>1 DEF ShelfType
<1> HIDE DEF next
<1>3. \A e \in next.files : IsFound(next, e)
  BY <1>1, <1>2 DEF ThumbsAreFound, IsFound, PlaceOf, BundleIsRead
<1>4. PagesArePacked(next)  BY <1>1, <1>2 DEF PagesArePacked, PagesIn
<1> QED  BY <1>2, <1>3, <1>4 DEF ThumbsAreFound, ShelfOK, next

-----------------------------------------------------------------------------
(* The inductive invariant of the publications: what the vault holds and    *)
(* what each device is about to publish is just, and the types.            *)
PublicationType ==
    [rows : Seq(ThumbIds), step : {"idle", "reading", "sent"}, parent : Nat, attempt : Nat,
     request : ShelfType]

PublicationOK(r, d, head) ==
    /\ r \in PublicationType
    /\ r.rows \in Seq(ToSet(Rows[d]))
    /\ r.parent <= head
    /\ r.attempt <= (IF r.step = "sent" THEN MAX_FINALIZE_REBASE + 1 ELSE MAX_FINALIZE_REBASE)
    /\ ShelfOK(r.request)

ThumbInv ==
    /\ ShelfOK(shelf)
    /\ version \in 0 .. MaxChanges
    /\ finalizing \in [Devices -> PublicationType]
    /\ \A d \in Devices : PublicationOK(finalizing[d], d, version)

LEMMA ThumbInvTypes == ThumbInv => ThumbTypeOK /\ ThumbsAreJust
<1> SUFFICES ASSUME ThumbInv PROVE ThumbTypeOK /\ ThumbsAreJust  OBVIOUS
<1>1. shelf \in ShelfType /\ version \in 0 .. MaxChanges /\ version \in Nat
  BY ThumbAssumption DEF ThumbInv, ShelfOK
<1>2. ASSUME NEW d \in Devices
      PROVE  /\ finalizing[d].rows \in Seq(ToSet(Rows[d]))
             /\ finalizing[d].step \in {"idle", "reading", "sent"}
             /\ finalizing[d].parent \in 0 .. version
             /\ finalizing[d].attempt \in 0 .. MAX_FINALIZE_REBASE + 1
             /\ finalizing[d].request \in ShelfType
             /\ ShelfOK(finalizing[d].request)
  <2>1. PublicationOK(finalizing[d], d, version)  BY DEF ThumbInv
  <2>2. /\ finalizing[d].parent \in Nat /\ finalizing[d].attempt \in Nat
        /\ finalizing[d].step \in {"idle", "reading", "sent"}
        /\ finalizing[d].request \in ShelfType
    BY <2>1 DEF PublicationOK, PublicationType
  <2>3. finalizing[d].parent \in 0 .. version  BY <1>1, <2>1, <2>2 DEF PublicationOK
  <2>4. finalizing[d].attempt \in 0 .. MAX_FINALIZE_REBASE + 1
    <3>1. finalizing[d].attempt <= MAX_FINALIZE_REBASE + 1
      BY <2>1, <2>2, ThumbAssumption DEF PublicationOK
    <3> QED  BY <2>2, <3>1, ThumbAssumption
  <2> QED  BY <2>1, <2>2, <2>3, <2>4 DEF PublicationOK
<1>3. ThumbTypeOK  BY <1>1, <1>2 DEF ThumbTypeOK
<1>4. ThumbsAreJust  BY <1>2 DEF ThumbInv, ShelfOK, ThumbsAreJust
<1> QED  BY <1>3, <1>4
LEMMA RowsAreThumbs ==
    ASSUME NEW d \in Devices
    PROVE  /\ ToSet(Rows[d]) \subseteq ThumbIds /\ Rows[d] \in Seq(ToSet(Rows[d]))
           /\ Seq(ToSet(Rows[d])) \subseteq Seq(ThumbIds)
<1>1. ToSet(Rows[d]) \subseteq ThumbIds  BY DEF ThumbIds
<1>2. Rows[d] \in Seq(ThumbIds)  BY ThumbAssumption
<1>3. Rows[d] \in Seq(ToSet(Rows[d]))  BY <1>2 DEF ToSet
<1>4. \A s \in Seq(ToSet(Rows[d])) : s \in Seq(ThumbIds)  BY <1>1
<1> QED  BY <1>1, <1>3, <1>4

LEMMA NoRequestIsJust == ShelfOK(NoRequest)
<1>1. NoRequest \in ShelfType  BY DEF NoRequest, ShelfType
<1>2. ThumbsAreFound(NoRequest)  BY DEF NoRequest, ThumbsAreFound
<1>3. NoRequest.bundlePages = NoPage /\ NoRequest.pages = <<>>  BY DEF NoRequest
<1>4. \A p \in 0 .. 0 : PageAt(<<>>, p) = <<>>  BY DEF PageAt
<1>5. PagesIn(NoRequest) = 1  BY <1>3 DEF PagesIn
<1>6. PagesArePacked(NoRequest)
  <2>1. Len(<<>>) = 0 /\ ~(0 < 0) /\ BUNDLE_PAGE_SIZE \in Nat  BY ThumbAssumption
  <2>2. \A p \in 0 .. 0 : ~(p < 0)  OBVIOUS
  <2> QED  BY <1>3, <1>4, <1>5, <2>1, <2>2 DEF PagesArePacked
<1> QED  BY <1>1, <1>2, <1>6 DEF ShelfOK

LEMMA PublicationEnds ==
    ASSUME NEW d \in Devices, NEW r, NEW head \in Nat, PublicationOK(r, d, head),
           NEW rows \in Seq(ToSet(Rows[d]))
    PROVE  PublicationOK([Ended(r) EXCEPT !.rows = rows], d, head)
<1> DEFINE s == [Ended(r) EXCEPT !.rows = rows]
<1>1. r \in PublicationType /\ rows \in Seq(ThumbIds)  BY RowsAreThumbs DEF PublicationOK
<1>2. NoRequest \in ShelfType /\ ShelfOK(NoRequest)  BY NoRequestIsJust DEF ShelfOK
<1>3. /\ s \in PublicationType /\ s.rows = rows /\ s.step = "idle" /\ s.parent = 0
      /\ s.attempt = 0 /\ s.request = NoRequest
  BY <1>1, <1>2 DEF PublicationType, Ended
<1> HIDE DEF s
<1>4. 0 <= head /\ 0 <= MAX_FINALIZE_REBASE  BY ThumbAssumption
<1>5. PublicationOK(s, d, head)  BY <1>2, <1>3, <1>4 DEF PublicationOK
<1> QED  BY <1>5 DEF s

LEMMA PublicationStops ==
    ASSUME NEW d \in Devices, NEW r, NEW head \in Nat, PublicationOK(r, d, head)
    PROVE  PublicationOK(Ended(r), d, head)
<1> DEFINE s == Ended(r)
<1>1. r \in PublicationType /\ r.rows \in Seq(ToSet(Rows[d]))  BY DEF PublicationOK
<1>2. NoRequest \in ShelfType /\ ShelfOK(NoRequest)  BY NoRequestIsJust DEF ShelfOK
<1>3. /\ s \in PublicationType /\ s.rows = r.rows /\ s.step = "idle" /\ s.parent = 0
      /\ s.attempt = 0 /\ s.request = NoRequest
  BY <1>1, <1>2 DEF PublicationType, Ended
<1> HIDE DEF s
<1>4. 0 <= head /\ 0 <= MAX_FINALIZE_REBASE  BY ThumbAssumption
<1>5. PublicationOK(s, d, head)  BY <1>1, <1>2, <1>3, <1>4 DEF PublicationOK
<1> QED  BY <1>5 DEF s

\* One device takes a step, and the vault stays or goes on.
LEMMA OneDeviceMoves ==
    ASSUME ThumbInv, NEW d \in Devices, NEW s,
           ShelfOK(shelf'), version' \in 0 .. MaxChanges, version <= version',
           PublicationOK(s, d, version'),
           finalizing' = [finalizing EXCEPT ![d] = s]
    PROVE  ThumbInv'
<1>1. finalizing \in [Devices -> PublicationType] /\ s \in PublicationType /\ version \in Nat /\ version' \in Nat
  BY ThumbAssumption DEF ThumbInv, PublicationOK
<1>2. finalizing' \in [Devices -> PublicationType]  BY <1>1
<1>3. ASSUME NEW o \in Devices PROVE PublicationOK(finalizing'[o], o, version')
  <2>1. CASE o = d
    <3>1. finalizing'[o] = s  BY <1>1, <2>1
    <3> QED  BY <2>1, <3>1
  <2>2. CASE o # d
    <3>1. finalizing'[o] = finalizing[o] /\ PublicationOK(finalizing[o], o, version)
      BY <1>1, <2>2 DEF ThumbInv
    <3>2. finalizing[o].parent \in Nat /\ finalizing[o].parent <= version'
      BY <1>1, <3>1 DEF PublicationOK, PublicationType
    <3> QED  BY <3>1, <3>2 DEF PublicationOK
  <2> QED  BY <2>1, <2>2
<1> QED  BY <1>2, <1>3 DEF ThumbInv

LEMMA ThumbInvInit == ThumbInit => ThumbInv
<1> SUFFICES ASSUME ThumbInit PROVE ThumbInv  OBVIOUS
<1> DEFINE one == <<OldMedium>>
           entry == MakeMediaEntry(OldMedium, NoPage, one)
<1>1. OldMedium \in ThumbIds /\ one \in Seq(ThumbIds)
  <2>1. OldMedium \in ThumbIds
    <3>1. OldMedium \in {OldMedium}  OBVIOUS
    <3> QED  BY <3>1 DEF ThumbIds
  <2> QED  BY <2>1
<1>2. entry \in ThumbEntry /\ entry.id = OldMedium /\ entry.page = NoPage
      /\ entry.offset = OffsetOf(one, OldMedium)
  BY <1>1, OffsetType DEF MakeMediaEntry, ThumbEntry
<1>3. Holds(one, OldMedium)
  <2>1. 1 \in DOMAIN one /\ one[1] = OldMedium  OBVIOUS
  <2> QED  BY <2>1 DEF Holds, ToSet
<1> HIDE DEF entry
<1>4. PICK start \in {"new", "legacy", "interrupted"} :
          shelf = [bundlePages |-> IF start = "legacy" THEN NoPage ELSE 1,
                   files  |-> IF start = "new" THEN {} ELSE {entry},
                   pages  |-> <<>>,
                   bundle |-> IF start = "new" THEN <<>> ELSE one]
  BY DEF ThumbInit, entry
<1> HIDE DEF one
<1>5. /\ shelf.bundlePages \in {NoPage, 1} /\ shelf.pages = <<>>
      /\ \A e \in shelf.files : e = entry /\ shelf.bundle = one
  BY <1>4
<1>6. shelf \in ShelfType  BY <1>1, <1>2, <1>4 DEF ShelfType
<1>7. ThumbsAreFound(shelf)
  <2> SUFFICES ASSUME NEW e \in shelf.files PROVE IsFound(shelf, e)  BY DEF ThumbsAreFound
  <2>1. e = entry /\ shelf.bundle = one  BY <1>5
  <2>2. PlaceOf(shelf, e) = one  BY <1>5, <2>1 DEF PlaceOf, BundleIsRead
  <2> QED  BY <1>2, <1>3, <2>1, <2>2 DEF IsFound
<1>8. PagesIn(shelf) = 1  BY <1>5 DEF PagesIn
<1>9. PagesArePacked(shelf)
  <2>1. Len(<<>>) = 0 /\ BUNDLE_PAGE_SIZE \in Nat  BY ThumbAssumption
  <2>2. \A p \in 0 .. 0 : ~(p < 0) /\ PageAt(<<>>, p) = <<>>  BY DEF PageAt
  <2> QED  BY <1>5, <1>8, <2>1, <2>2 DEF PagesArePacked
<1>10. ShelfOK(shelf)  BY <1>6, <1>7, <1>9 DEF ShelfOK
<1>11. version = 0 /\ version \in 0 .. MaxChanges  BY ThumbAssumption DEF ThumbInit
<1>12. NoRequest \in ShelfType /\ ShelfOK(NoRequest)  BY NoRequestIsJust DEF ShelfOK
<1>13. ASSUME NEW d \in Devices
       PROVE  finalizing[d] \in PublicationType /\ PublicationOK(finalizing[d], d, version)
  <2>1. finalizing[d] = [rows |-> Rows[d], step |-> "idle", parent |-> 0,
                         attempt |-> 0, request |-> NoRequest]
    BY DEF ThumbInit
  <2>2. finalizing[d] \in PublicationType  BY <1>12, <2>1, RowsAreThumbs DEF PublicationType
  <2>3. 0 <= MAX_FINALIZE_REBASE /\ 0 <= 0  BY ThumbAssumption
  <2> QED  BY <1>11, <1>12, <2>1, <2>2, <2>3, RowsAreThumbs DEF PublicationOK
<1>14. finalizing \in [Devices -> PublicationType]  BY <1>13 DEF ThumbInit
<1> QED  BY <1>10, <1>11, <1>13, <1>14 DEF ThumbInv

LEMMA RequestIsBuilt ==
    ASSUME ThumbInv, NEW d \in Devices, BuildRequest(d)
    PROVE  ThumbInv'
<1> DEFINE r == finalizing[d]
<1>1. PublicationOK(r, d, version) /\ r \in PublicationType /\ r.step = "reading" /\ version \in Nat
      /\ version \in 0 .. MaxChanges /\ version <= version /\ ShelfOK(shelf)
  BY ThumbAssumption DEF ThumbInv, BuildRequest
<1>2. PICK n \in 1 .. Len(r.rows) :
          finalizing' = [finalizing EXCEPT ![d] =
              IF Pending(shelf, SubSeq(r.rows, 1, n)) = <<>>
              THEN [Ended(r) EXCEPT !.rows = SubSeq(r.rows, n + 1, Len(r.rows))]
              ELSE [r EXCEPT !.step = "sent", !.parent = version, !.attempt = r.attempt + 1,
                             !.request = Built(shelf, Pending(shelf, SubSeq(r.rows, 1, n)))]]
  BY DEF BuildRequest
<1>3. shelf' = shelf /\ version' = version  BY DEF BuildRequest
<1>4. r.rows \in Seq(ToSet(Rows[d]))  BY <1>1 DEF PublicationOK
<1> HIDE DEF r
<1> DEFINE pending == Pending(shelf, SubSeq(r.rows, 1, n))
           rest    == SubSeq(r.rows, n + 1, Len(r.rows))
<1>5. Len(r.rows) \in Nat  BY <1>4
<1>6. rest \in Seq(ToSet(Rows[d]))
  <2>1. \A m \in 1 .. Len(r.rows) : r.rows[m] \in ToSet(Rows[d])  BY <1>4
  <2>2. n + 1 \in Nat /\ n + 1 >= 1  BY <1>5
  <2> QED  BY <1>4, <1>5, <2>1, <2>2
<1>7. pending \in Seq(ThumbIds)
  <2>1. SubSeq(r.rows, 1, n) \in Seq(ToSet(Rows[d]))  BY <1>4, <1>5
  <2>2. pending \in Seq(ToSet(Rows[d]))  BY <2>1, PendingType
  <2> HIDE DEF pending
  <2> QED  BY <2>2, RowsAreThumbs
<1> HIDE DEF rest, pending
<1>8. CASE pending = <<>>
  <2> DEFINE s == [Ended(r) EXCEPT !.rows = rest]
  <2>1. PublicationOK(s, d, version)  BY <1>1, <1>6, PublicationEnds
  <2>2. finalizing' = [finalizing EXCEPT ![d] = s]  BY <1>2, <1>8 DEF pending, rest
  <2> HIDE DEF s
  <2> QED  BY <1>1, <1>3, <2>1, <2>2, OneDeviceMoves
<1>9. CASE pending # <<>>
  <2> DEFINE s == [r EXCEPT !.step = "sent", !.parent = version, !.attempt = r.attempt + 1,
                            !.request = Built(shelf, pending)]
  <2>1. ShelfOK(Built(shelf, pending))  BY <1>7, <1>9, BuiltIsJust DEF ThumbInv
  <2>2. r.attempt \in Nat /\ r.attempt <= MAX_FINALIZE_REBASE
    BY <1>1 DEF PublicationOK, PublicationType
  <2>3. /\ s \in PublicationType /\ s.rows = r.rows /\ s.step = "sent" /\ s.parent = version
        /\ s.attempt = r.attempt + 1 /\ s.request = Built(shelf, pending)
    <3>1. Built(shelf, pending) \in ShelfType /\ r.attempt + 1 \in Nat
      BY <2>1, <2>2 DEF ShelfOK
    <3> QED  BY <1>1, <3>1 DEF PublicationType
  <2>4. finalizing' = [finalizing EXCEPT ![d] = s]  BY <1>2, <1>9 DEF pending
  <2> HIDE DEF s
  <2>5. s.attempt <= MAX_FINALIZE_REBASE + 1 /\ version <= version  BY <1>1, <2>2, <2>3, ThumbAssumption
  <2>6. PublicationOK(s, d, version)  BY <1>4, <2>1, <2>3, <2>5 DEF PublicationOK
  <2> QED  BY <1>1, <1>3, <2>4, <2>6, OneDeviceMoves
<1> QED  BY <1>8, <1>9

LEMMA CommitIsKept ==
    ASSUME ThumbInv, NEW d \in Devices, CommitLands(d)
    PROVE  ThumbInv'
<1> DEFINE r == finalizing[d]
<1>1. PublicationOK(r, d, version) /\ version \in Nat /\ MaxChanges \in Nat
  BY ThumbAssumption DEF ThumbInv
<1>2. /\ version < MaxChanges /\ shelf' = r.request /\ version' = version + 1
      /\ \E rows \in {r.rows, Pending(shelf', r.rows)} :
             finalizing' = [finalizing EXCEPT ![d] = [Ended(r) EXCEPT !.rows = rows]]
  BY DEF CommitLands
<1> HIDE DEF r
<1>3. PICK rows \in {r.rows, Pending(shelf', r.rows)} :
          finalizing' = [finalizing EXCEPT ![d] = [Ended(r) EXCEPT !.rows = rows]]
  BY <1>2
<1>4. r.rows \in Seq(ToSet(Rows[d])) /\ ShelfOK(r.request)  BY <1>1 DEF PublicationOK
<1>5. rows \in Seq(ToSet(Rows[d]))  BY <1>3, <1>4, PendingType
<1>6. version' \in 0 .. MaxChanges /\ version <= version' /\ version' \in Nat  BY <1>1, <1>2
<1>7. PublicationOK(r, d, version')
  <2>1. r.parent \in Nat  BY <1>1 DEF PublicationOK, PublicationType
  <2>2. r.parent <= version /\ r.parent <= version'  BY <1>1, <1>6, <2>1 DEF PublicationOK
  <2> QED  BY <1>1, <2>2 DEF PublicationOK
<1> DEFINE s == [Ended(r) EXCEPT !.rows = rows]
<1>8. PublicationOK(s, d, version')  BY <1>5, <1>6, <1>7, PublicationEnds
<1>9. finalizing' = [finalizing EXCEPT ![d] = s]  BY <1>3
<1> HIDE DEF s
<1>10. ShelfOK(shelf')  BY <1>2, <1>4
<1> QED  BY <1>6, <1>8, <1>9, <1>10, OneDeviceMoves

LEMMA ThumbInvStep == ThumbInv /\ [ThumbNext]_thumbVars => ThumbInv'
<1> SUFFICES ASSUME ThumbInv, [ThumbNext]_thumbVars PROVE ThumbInv'  OBVIOUS
<1>1. /\ ShelfOK(shelf) /\ version \in 0 .. MaxChanges /\ version \in Nat /\ version <= version
      /\ finalizing \in [Devices -> PublicationType]
      /\ \A d \in Devices : PublicationOK(finalizing[d], d, version)
  BY ThumbAssumption DEF ThumbInv
<1>2. ASSUME NEW d \in Devices, StartPublication(d) PROVE ThumbInv'
  <2> DEFINE r == finalizing[d]
             s == [r EXCEPT !.step = "reading"]
  <2>1. r \in PublicationType /\ PublicationOK(r, d, version) /\ r.step = "idle"
    BY <1>1, <1>2 DEF StartPublication
  <2>2. finalizing' = [finalizing EXCEPT ![d] = s] /\ shelf' = shelf /\ version' = version
    BY <1>1, <1>2 DEF StartPublication
  <2> HIDE DEF r
  <2>3. /\ s \in PublicationType /\ s.rows = r.rows /\ s.step = "reading" /\ s.parent = r.parent
        /\ s.attempt = r.attempt /\ s.request = r.request
    BY <2>1 DEF PublicationType
  <2> HIDE DEF s
  <2>4. PublicationOK(s, d, version)  BY <2>1, <2>3 DEF PublicationOK
  <2> QED  BY <1>1, <2>2, <2>4, OneDeviceMoves
<1>3. ASSUME NEW d \in Devices, CommitIsStale(d) PROVE ThumbInv'
  <2> DEFINE r == finalizing[d]
             s == [r EXCEPT !.step = "reading", !.parent = 0, !.request = NoRequest]
  <2>1. r \in PublicationType /\ PublicationOK(r, d, version)  BY <1>1
  <2>2. /\ finalizing' = [finalizing EXCEPT ![d] =
               IF r.attempt > MAX_FINALIZE_REBASE THEN Ended(r) ELSE s]
        /\ shelf' = shelf /\ version' = version
    BY <1>3 DEF CommitIsStale
  <2> HIDE DEF r
  <2>3. r.attempt \in Nat /\ MAX_FINALIZE_REBASE \in Nat /\ NoRequest \in ShelfType /\ ShelfOK(NoRequest)
    BY <2>1, ThumbAssumption, NoRequestIsJust DEF PublicationType, ShelfOK
  <2>4. CASE r.attempt > MAX_FINALIZE_REBASE
    <3>1. PublicationOK(Ended(r), d, version)  BY <1>1, <2>1, PublicationStops
    <3> QED  BY <1>1, <2>2, <2>4, <3>1, OneDeviceMoves
  <2>5. CASE ~(r.attempt > MAX_FINALIZE_REBASE)
    <3>1. /\ s \in PublicationType /\ s.rows = r.rows /\ s.step = "reading" /\ s.parent = 0
          /\ s.attempt = r.attempt /\ s.request = NoRequest
      BY <2>1, <2>3 DEF PublicationType
    <3> HIDE DEF s
    <3>2. s.attempt <= MAX_FINALIZE_REBASE /\ 0 <= version  BY <1>1, <2>3, <2>5, <3>1
    <3>3. PublicationOK(s, d, version)  BY <2>1, <2>3, <3>1, <3>2 DEF PublicationOK
    <3> QED  BY <1>1, <2>2, <2>5, <3>3, OneDeviceMoves
  <2> QED  BY <2>4, <2>5
<1>4. ASSUME NEW d \in Devices, CommitFails(d) PROVE ThumbInv'
  <2>1. PublicationOK(Ended(finalizing[d]), d, version)  BY <1>1, PublicationStops
  <2>2. /\ finalizing' = [finalizing EXCEPT ![d] = Ended(finalizing[d])]
        /\ shelf' = shelf /\ version' = version
    BY <1>4 DEF CommitFails
  <2> QED  BY <1>1, <2>1, <2>2, OneDeviceMoves
<1>5. ASSUME NEW entry \in shelf.files, DeleteMedium(entry) PROVE ThumbInv'
  <2>1. ShelfOK(shelf')  BY <1>1, <1>5, DeletedIsJust DEF DeleteMedium
  <2>2. version' \in 0 .. MaxChanges /\ version' \in Nat /\ version <= version'
    BY <1>1, <1>5, ThumbAssumption DEF DeleteMedium
  <2>3. finalizing' = finalizing  BY <1>5 DEF DeleteMedium
  <2>4. ASSUME NEW d \in Devices PROVE PublicationOK(finalizing[d], d, version')
    <3>1. finalizing[d].parent \in Nat /\ PublicationOK(finalizing[d], d, version)
      BY <1>1 DEF PublicationType
    <3>2. finalizing[d].parent <= version'  BY <1>1, <2>2, <3>1 DEF PublicationOK
    <3> QED  BY <3>1, <3>2 DEF PublicationOK
  <2> QED  BY <1>1, <2>1, <2>2, <2>3, <2>4 DEF ThumbInv
<1>6. CASE UNCHANGED thumbVars
  <2>1. shelf' = shelf /\ version' = version /\ finalizing' = finalizing  BY <1>6 DEF thumbVars
  <2> QED  BY <1>1, <2>1 DEF ThumbInv
<1> QED  BY <1>2, <1>3, <1>4, <1>5, <1>6, RequestIsBuilt, CommitIsKept DEF ThumbNext

\* ThumbTypeOK holds in every reachable state.
THEOREM ThumbTypesKept == ThumbSpec => []ThumbTypeOK
<1>1. ThumbInv => ThumbTypeOK  BY ThumbInvTypes
<1> QED  BY <1>1, ThumbInvInit, ThumbInvStep, PTL DEF ThumbSpec

\* Whatever two devices publish, rebase, repeat or delete, from whichever kind
\* of vault, each entry's thumbnail is where the gallery looks for it, and the
\* pages are packed: in the vault, and in every request that may still land.
THEOREM ThumbsStayJust == ThumbSpec => []ThumbsAreJust
<1>1. ThumbInv => ThumbsAreJust  BY ThumbInvTypes
<1> QED  BY <1>1, ThumbInvInit, ThumbInvStep, PTL DEF ThumbSpec
=============================================================================
