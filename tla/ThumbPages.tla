----------------------------- MODULE ThumbPages -----------------------------
(***************************************************************************)
(* The thumbnails of a publication (services/uploadService.js and          *)
(* schema/bundleSchema.js).  A publication adds the thumbnails of its      *)
(* media to the last page of the vault and opens further pages when it is  *)
(* full; an old vault has one bundle instead.  The manifest says how many  *)
(* pages there are, and for each medium its page and its place in it.      *)
(*                                                                         *)
(* What interleaves is two devices that publish, rebases, answers that are *)
(* lost, and deletions, which leave the thumbnails where they are.  All    *)
(* reads of a publication are pinned to the head it names as its parent,   *)
(* so they are one step here; VaultSync has that protocol in full.         *)
(***************************************************************************)
EXTENDS Integers, Sequences, FiniteSets, SequencesExt, FiniteSetsExt

CONSTANTS
    Rows,                 \* the media each device has queued, in order
    ThumbLength,          \* the bytes of the thumbnail of each medium
    BUNDLE_PAGE_SIZE,     \* thumbnails that a page may hold
    MAX_FINALIZE_REBASE,  \* rebases of one publication
    MaxChanges,           \* bound: publications and deletions
    OldMedium,            \* the medium in a vault of an earlier version
    NoPage                \* the page of an entry without page_index

Devices   == DOMAIN Rows
ThumbIds  == (UNION {ToSet(Rows[d]) : d \in Devices}) \cup {OldMedium}

ASSUME ThumbAssumption ==
    /\ \A d \in Devices : Rows[d] \in Seq(ThumbIds)
    /\ \A id \in ThumbIds : ThumbLength[id] \in Nat
    /\ BUNDLE_PAGE_SIZE \in Nat \ {0}
    /\ MAX_FINALIZE_REBASE \in Nat /\ MaxChanges \in Nat
    /\ NoPage \notin Nat

VARIABLES
    shelf,      \* the vault: manifest, pages and bundle of branch main
    version,    \* the head of branch main
    finalizing  \* each device's publication

thumbVars == <<shelf, version, finalizing>>

ThumbEntry == [id : ThumbIds, page : Nat \cup {NoPage}, offset : Nat]
ShelfType  == [bundlePages : (Nat \ {0}) \cup {NoPage}, files : SUBSET ThumbEntry,
               pages : Seq(Seq(ThumbIds)), bundle : Seq(ThumbIds)]

ThumbTypeOK ==
    /\ shelf \in ShelfType
    /\ version \in 0 .. MaxChanges
    /\ \A d \in Devices :
          /\ finalizing[d].rows \in Seq(ToSet(Rows[d]))
          /\ finalizing[d].step \in {"idle", "reading", "sent"}
          /\ finalizing[d].parent \in 0 .. version
          /\ finalizing[d].attempt \in 0 .. MAX_FINALIZE_REBASE + 1
          /\ finalizing[d].request \in ShelfType

-----------------------------------------------------------------------------
(* The format: a count, and for each thumbnail its id, its length and its  *)
(* bytes.                                                                  *)
HEADER_BYTES       == 4
ENTRY_HEADER_BYTES == 20

ByteLength(thumbs) ==
    FoldLeft(LAMBDA sum, id : sum + ENTRY_HEADER_BYTES + ThumbLength[id], HEADER_BYTES, thumbs)

\* Where parseBundle finds the bytes of the i-th thumbnail.
OffsetAt(thumbs, i) == ByteLength(SubSeq(thumbs, 1, i - 1)) + ENTRY_HEADER_BYTES

Holds(thumbs, id)    == id \in ToSet(thumbs)
OffsetOf(thumbs, id) == OffsetAt(thumbs, SelectInSeq(thumbs, LAMBDA other : other = id))

\* appendBundleEntry, unless the thumbnail is there already.
WithThumb(thumbs, id) == IF Holds(thumbs, id) THEN thumbs ELSE Append(thumbs, id)

MakeMediaEntry(id, page, thumbs) == [id |-> id, page |-> page, offset |-> OffsetOf(thumbs, id)]

-----------------------------------------------------------------------------
(* buildLegacyBundle: all thumbnails in the one bundle.                    *)
BuildLegacyBundle(vault, items) ==
    LET bundle == FoldLeft(WithThumb, vault.bundle, items)
    IN  [vault EXCEPT
            !.bundle = bundle,
            !.bundlePages = NoPage,
            !.files = @ \cup {MakeMediaEntry(id, NoPage, bundle) : id \in ToSet(items)}]

(* buildPagedBundle: from the last page on.  "page" is the page that is    *)
(* being filled; it is written back whenever it changes.  Pages are counted *)
(* from 0, and one that is not there is empty.                             *)
PageAt(pages, p) == IF p < Len(pages) THEN pages[p + 1] ELSE <<>>

WithPage(pages, p, thumbs) ==
    IF p < Len(pages) THEN [pages EXCEPT ![p + 1] = thumbs] ELSE Append(pages, thumbs)

PagesIn(vault) == IF vault.bundlePages = NoPage THEN 1 ELSE vault.bundlePages

PageFor(built, id) ==
    LET thumbs == PageAt(built.pages, built.page)
    IN  IF ~Holds(thumbs, id) /\ Len(thumbs) >= BUNDLE_PAGE_SIZE
        THEN built.page + 1 ELSE built.page

AddToPage(built, id) ==
    LET page   == PageFor(built, id)
        thumbs == WithThumb(PageAt(built.pages, page), id)
    IN  [page  |-> page,
         pages |-> WithPage(built.pages, page, thumbs),
         files |-> built.files \cup {MakeMediaEntry(id, page, thumbs)}]

BuildPagedBundle(vault, items) ==
    LET first == [page |-> PagesIn(vault) - 1, pages |-> vault.pages, files |-> vault.files]
        built == FoldLeft(AddToPage, first, items)
    IN  [vault EXCEPT !.pages = built.pages,
                      !.files = built.files,
                      !.bundlePages = Max({PagesIn(vault), built.page + 1})]

(* Mutant of UsesPages: a manifest that counts pages is believed.          *)
UsesPagesAsCounted(vault) == vault.bundlePages # NoPage \/ vault.files = {}

\* Some earlier versions counted a first page that they had not written.
UsesPages(vault) ==
    \/ vault.files = {}
    \/ vault.bundlePages # NoPage /\ ~(vault.bundlePages = 1 /\ vault.pages = <<>>)

Built(vault, items) ==
    IF UsesPages(vault) THEN BuildPagedBundle(vault, items) ELSE BuildLegacyBundle(vault, items)

-----------------------------------------------------------------------------
NoRequest == [bundlePages |-> NoPage, files |-> {}, pages |-> <<>>, bundle |-> <<>>]

\* A new vault, one of the first version, or one whose upgrade was broken off.
ThumbInit ==
    /\ \E start \in {"new", "legacy", "interrupted"} :
          shelf = [bundlePages |-> IF start = "legacy" THEN NoPage ELSE 1,
                   files  |-> IF start = "new" THEN {}
                              ELSE {MakeMediaEntry(OldMedium, NoPage, <<OldMedium>>)},
                   pages  |-> <<>>,
                   bundle |-> IF start = "new" THEN <<>> ELSE <<OldMedium>>]
    /\ version = 0
    /\ finalizing = [d \in Devices |-> [rows |-> Rows[d], step |-> "idle", parent |-> 0,
                                        attempt |-> 0, request |-> NoRequest]]

Ended(publication) ==
    [publication EXCEPT !.step = "idle", !.parent = 0, !.attempt = 0, !.request = NoRequest]

Published(vault) == {e.id : e \in vault.files}

\* selectPendingItems: those that the vault does not have, in order.
Pending(vault, ids) ==
    LET IfPending(pending, id) ==
            IF id \in Published(vault) THEN pending ELSE Append(pending, id)
    IN  FoldLeft(IfPending, <<>>, ids)

StartPublication(d) ==
    /\ finalizing[d].step = "idle" /\ finalizing[d].rows # <<>>
    /\ finalizing' = [finalizing EXCEPT ![d].step = "reading"]
    /\ UNCHANGED <<shelf, version>>

\* Reads the head and builds the request from what it holds.  Any number of
\* rows may be in one group.
BuildRequest(d) ==
    /\ finalizing[d].step = "reading"
    /\ \E n \in 1 .. Len(finalizing[d].rows) :
          LET group   == SubSeq(finalizing[d].rows, 1, n)
              pending == Pending(shelf, group)
              rest    == SubSeq(finalizing[d].rows, n + 1, Len(finalizing[d].rows))
          IN  finalizing' = [finalizing EXCEPT ![d] =
                  IF pending = <<>>
                  THEN [Ended(@) EXCEPT !.rows = rest]
                  ELSE [@ EXCEPT !.step = "sent", !.parent = version,
                                 !.attempt = finalizing[d].attempt + 1,
                                 !.request = Built(shelf, pending)]]
    /\ UNCHANGED <<shelf, version>>

\* The commit lands if the head is still the one it names; its answer may be
\* lost, and the rows stay.
CommitLands(d) ==
    /\ finalizing[d].step = "sent"
    /\ finalizing[d].parent = version
    /\ version < MaxChanges
    /\ shelf' = finalizing[d].request
    /\ version' = version + 1
    /\ \E rows \in {finalizing[d].rows, Pending(shelf', finalizing[d].rows)} :
          finalizing' = [finalizing EXCEPT ![d] = [Ended(@) EXCEPT !.rows = rows]]

(* Mutant of CommitIsStale: one rebase too many.                           *)
CommitIsStaleAgain(d) ==
    /\ finalizing[d].step = "sent"
    /\ finalizing[d].parent # version
    /\ finalizing' = [finalizing EXCEPT ![d] =
           IF @.attempt > MAX_FINALIZE_REBASE + 1 THEN Ended(@)
           ELSE [@ EXCEPT !.step = "reading", !.parent = 0, !.request = NoRequest]]
    /\ UNCHANGED <<shelf, version>>

CommitIsStale(d) ==
    /\ finalizing[d].step = "sent"
    /\ finalizing[d].parent # version
    /\ finalizing' = [finalizing EXCEPT ![d] =
           IF @.attempt > MAX_FINALIZE_REBASE THEN Ended(@)
           ELSE [@ EXCEPT !.step = "reading", !.parent = 0, !.request = NoRequest]]
    /\ UNCHANGED <<shelf, version>>

CommitFails(d) ==
    /\ finalizing[d].step = "sent"
    /\ finalizing' = [finalizing EXCEPT ![d] = Ended(@)]
    /\ UNCHANGED <<shelf, version>>

DeleteMedium(entry) ==
    /\ version < MaxChanges
    /\ shelf' = [shelf EXCEPT !.files = @ \ {entry}]
    /\ version' = version + 1
    /\ UNCHANGED finalizing

ThumbNext ==
    \/ \E d \in Devices :
          \/ StartPublication(d) \/ BuildRequest(d)
          \/ CommitLands(d) \/ CommitIsStale(d) \/ CommitFails(d)
    \/ \E entry \in shelf.files : DeleteMedium(entry)

ThumbSpec == ThumbInit /\ [][ThumbNext]_thumbVars

-----------------------------------------------------------------------------
(***************************************************************************)
(* Properties.                                                             *)
(***************************************************************************)

\* Where the gallery looks for the thumbnail of an entry: a counted first page
\* that is not there stands for the bundle.
BundleIsRead(vault) ==
    vault.bundlePages = NoPage \/ (vault.bundlePages = 1 /\ vault.pages = <<>>)

PlaceOf(vault, entry) ==
    IF BundleIsRead(vault) THEN vault.bundle
    ELSE PageAt(vault.pages, IF entry.page = NoPage THEN 0 ELSE entry.page)

\* Every published medium has its thumbnail where the gallery looks for it, at
\* the offset its entry names, whatever was published beside it, rebased,
\* deleted or published twice, and from whichever kind of vault it began.
IsFound(vault, entry) ==
    /\ Holds(PlaceOf(vault, entry), entry.id)
    /\ entry.offset = OffsetOf(PlaceOf(vault, entry), entry.id)
    /\ entry.page # NoPage /\ vault.bundlePages # NoPage => entry.page < vault.bundlePages

ThumbsAreFound(vault) == \A entry \in vault.files : IsFound(vault, entry)

\* The pages that the manifest counts are full but for the last one, no page
\* is over its limit, and there is none beyond: what the next publication
\* starts from is the end of what there is.
PagesArePacked(vault) ==
    /\ Len(vault.pages) <= PagesIn(vault)
    /\ \A p \in 0 .. PagesIn(vault) - 1 :
          /\ Len(PageAt(vault.pages, p)) <= BUNDLE_PAGE_SIZE
          /\ p < PagesIn(vault) - 1 => Len(PageAt(vault.pages, p)) = BUNDLE_PAGE_SIZE

\* The same is true of what is about to be published.
ThumbsAreJust ==
    \A vault \in {shelf} \cup {finalizing[d].request : d \in Devices} :
        ThumbsAreFound(vault) /\ PagesArePacked(vault)
=============================================================================
