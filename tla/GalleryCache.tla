---------------------------- MODULE GalleryCache ----------------------------
(***************************************************************************)
(* How the gallery is loaded (services/galleryService.js and               *)
(* hooks/useGallery.js): the manifest, from the session's cache or from     *)
(* the network; the thumbnails, from the persistent cache or from a bundle *)
(* page; more pages as they are scrolled to; all again after an upload.    *)
(*                                                                         *)
(* What interleaves is loads that overlap, demands for pages, cache writes *)
(* that nobody waits for, the invalidation after a publication of this     *)
(* page, and publications of other devices.  The vault is one with pages;  *)
(* revision marks are those of session/revision.js.                        *)
(***************************************************************************)
EXTENDS Integers, Sequences, FiniteSets, SequencesExt, FiniteSetsExt

CONSTANTS
    NewestFirst,        \* all entries there may be, newest first
    PageIndex,     \* the bundle page of each
    MaxRevision,   \* bound: publications and deletions
    MaxGalleryLoads,  \* bound: loads of the gallery
    NoManifest        \* nothing cached

Entries   == ToSet(NewestFirst)
PageNames == {PageIndex[e] : e \in Entries}

ASSUME GalleryAssumption ==
    /\ \A e \in Entries : PageIndex[e] \in Nat
    /\ 0 \in PageNames
    /\ MaxRevision \in Nat \ {0} /\ MaxGalleryLoads \in Nat
    /\ NoManifest \notin Nat

VARIABLES
    contents,      \* the entries of each revision of the vault
    mark,          \* the revision mark of this browser
    manifestCache, \* MANIFEST_KEY: a revision, or NoManifest
    persisting,    \* manifests whose write to the cache is under way
    thumbCache,    \* the persistent thumbnails
    invalidating,  \* a clearCache after a publication is under way
    loadSession,   \* sessionRef
    galleryLoads,  \* runs of loadGalleryProgressive
    pageLoads,     \* runs of loadPage
    grid           \* what the gallery shows

galleryVars == <<contents, mark, manifestCache, persisting, thumbCache,
                 invalidating, loadSession, galleryLoads, pageLoads, grid>>

Revisions == 1 .. MaxRevision
GalleryLoad == [session : Nat, at : {"cache", "check", "network", "confirm", "thumbs", "page"},
                rev : 0 .. MaxRevision, floor : 0 .. MaxRevision, thumbs : SUBSET Entries]
PageLoad    == [session : Nat, at : {"thumbs", "page"}, page : PageNames,
                ids : SUBSET Entries, thumbs : SUBSET Entries,
                rev : 0 .. MaxRevision]      \* history: the revision of the ids

Grid        == [rev : 0 .. MaxRevision, of : Nat, floor : 0 .. MaxRevision,
                thumbs : SUBSET Entries, loaded : SUBSET PageNames,
                state : {"loading", "manifest", "done", "error"},
                oldest : 0 .. MaxRevision]   \* history: of the ids of its pages

GalleryTypeOK ==
    /\ contents \in Seq(SUBSET Entries)
    /\ mark \in 0 .. MaxRevision
    /\ manifestCache \in Revisions \cup {NoManifest}
    /\ persisting \subseteq Revisions
    /\ thumbCache \subseteq Entries
    /\ invalidating \in BOOLEAN
    /\ loadSession \in 0 .. MaxGalleryLoads
    /\ galleryLoads \subseteq GalleryLoad
    /\ pageLoads \subseteq PageLoad
    /\ grid \in Grid

GalleryInit ==
    /\ contents = <<{e \in Entries : PageIndex[e] = 0}>>
    /\ mark = 0
    /\ manifestCache = NoManifest
    /\ persisting = {}
    /\ thumbCache = {}
    /\ invalidating = FALSE
    /\ loadSession = 0
    /\ galleryLoads = {} /\ pageLoads = {}
    /\ grid = [rev |-> 0, of |-> 0, floor |-> 0, thumbs |-> {}, loaded |-> {},
               state |-> "loading", oldest |-> 0]

Latest == Len(contents)
LaterOf(a, b) == IF a < b THEN b ELSE a

Step(load, next)     == galleryLoads' = (galleryLoads \ {load}) \cup {next}
PageStep(load, next) == pageLoads' = (pageLoads \ {load}) \cup {next}

\* The thumbnails that a bundle page holds.
PageThumbs(page) == {e \in contents[Latest] : PageIndex[e] = page}

-----------------------------------------------------------------------------
(* The vault changes, by this page or by another device.  A publication or *)
(* a deletion of this page raises the mark, and clears the cache after it. *)
Change(own) ==
    /\ Latest < MaxRevision
    /\ loadSession > 0
    /\ \/ \E e \in Entries \ contents[Latest] :
             contents' = Append(contents, contents[Latest] \cup {e})
       \/ \E e \in contents[Latest] :
             contents' = Append(contents, contents[Latest] \ {e})
    /\ mark' = IF own THEN Latest + 1 ELSE mark
    /\ invalidating' = (invalidating \/ own)
    /\ UNCHANGED <<manifestCache, persisting, thumbCache, loadSession, galleryLoads,
                   pageLoads, grid>>

ClearCache ==
    /\ invalidating
    /\ invalidating' = FALSE
    /\ manifestCache' = NoManifest
    /\ UNCHANGED <<contents, mark, persisting, thumbCache, loadSession,
                   galleryLoads, pageLoads, grid>>

(* runLoad: on mount, after an upload, or as a retry.                      *)
RunLoad ==
    /\ loadSession < MaxGalleryLoads
    /\ loadSession' = loadSession + 1
    /\ galleryLoads' = galleryLoads \cup
          {[session |-> loadSession + 1, at |-> "cache", rev |-> 0, floor |-> mark,
            thumbs |-> {}]}
    /\ grid' = [grid EXCEPT !.loaded = {}, !.state = "loading"]
    /\ UNCHANGED <<contents, mark, manifestCache, persisting, thumbCache,
                   invalidating, pageLoads>>

-----------------------------------------------------------------------------
(* loadManifestWithCache.                                                  *)
ReadCache(load) ==
    /\ load.at = "cache"
    /\ Step(load, IF manifestCache = NoManifest THEN [load EXCEPT !.at = "network"]
                  ELSE [load EXCEPT !.at = "check", !.rev = manifestCache])
    /\ UNCHANGED <<contents, mark, manifestCache, persisting, thumbCache,
                   invalidating, loadSession, pageLoads, grid>>

(* Mutant of CheckCached: a cached manifest is used as it is.              *)
TrustCached(load) ==
    /\ load.at = "check"
    /\ Step(load, [load EXCEPT !.at = "thumbs"])
    /\ UNCHANGED mark
    /\ UNCHANGED <<contents, manifestCache, persisting, thumbCache,
                   invalidating, loadSession, pageLoads, grid>>

\* A cached manifest that is older than the mark is not used.
CheckCached(load) ==
    /\ load.at = "check"
    /\ Step(load, [load EXCEPT !.at = IF load.rev < mark THEN "network" ELSE "thumbs"])
    /\ mark' = LaterOf(mark, load.rev)
    /\ UNCHANGED <<contents, manifestCache, persisting, thumbCache,
                   invalidating, loadSession, pageLoads, grid>>

FetchManifest(load) ==
    /\ load.at = "network"
    /\ Step(load, [load EXCEPT !.at = "confirm", !.rev = Latest])
    /\ UNCHANGED <<contents, mark, manifestCache, persisting, thumbCache,
                   invalidating, loadSession, pageLoads, grid>>

\* Shown once it is not older than the mark, and written to the cache.
GalleryFails(load) ==
    /\ galleryLoads' = galleryLoads \ {load}
    /\ grid' = IF load.session = loadSession THEN [grid EXCEPT !.state = "error"] ELSE grid

Confirm(load) ==
    /\ load.at = "confirm"
    /\ IF load.rev < mark
       THEN GalleryFails(load) /\ UNCHANGED <<mark, persisting>>
       ELSE /\ Step(load, [load EXCEPT !.at = "thumbs"])
            /\ mark' = load.rev
            /\ persisting' = persisting \cup {load.rev}
            /\ UNCHANGED grid
    /\ UNCHANGED <<contents, manifestCache, thumbCache, invalidating,
                   loadSession, pageLoads>>

PersistManifest(rev) ==
    /\ rev \in persisting
    /\ persisting' = persisting \ {rev}
    /\ manifestCache' \in {rev, manifestCache}
    /\ UNCHANGED <<contents, mark, thumbCache, invalidating, loadSession,
                   galleryLoads, pageLoads, grid>>

NetworkFails(load) ==
    /\ load.at \in {"network", "page"}
    /\ GalleryFails(load)
    /\ UNCHANGED <<contents, mark, manifestCache, persisting, thumbCache,
                   invalidating, loadSession, pageLoads>>

-----------------------------------------------------------------------------
(* The updates of a load are shown only if no other has begun since.       *)
Shows(load, thumbs, loaded, state) ==
    grid' = IF load.session # loadSession THEN grid
            ELSE [rev |-> load.rev, of |-> load.session, floor |-> load.floor,
                  thumbs |-> thumbs, loaded |-> loaded, state |-> state,
                  oldest |-> load.rev]

\* computeInitialPage: the page of the newest entry without a thumbnail.
InitialPage(ids, thumbs) ==
    LET missing == {i \in DOMAIN NewestFirst : NewestFirst[i] \in ids \ thumbs}
    IN  IF missing = {} THEN 0 ELSE PageIndex[NewestFirst[Min(missing)]]

LastPage(ids) == IF ids = {} THEN 0
                 ELSE CHOOSE p \in PageNames :
                         /\ \E e \in ids : PageIndex[e] = p
                         /\ \A e \in ids : PageIndex[e] <= p

\* The first update: all pages count as loaded if nothing is missing.
ReadThumbs(load) ==
    /\ load.at = "thumbs"
    /\ LET ids    == contents[load.rev]
           cached == ids \cap thumbCache
       IN  IF cached = ids
           THEN /\ Shows(load, cached, {p \in PageNames : p <= LastPage(ids)}, "done")
                /\ galleryLoads' = galleryLoads \ {load}
           ELSE /\ Shows(load, cached, {0}, "manifest")
                /\ Step(load, [load EXCEPT !.at = "page", !.thumbs = cached])
    /\ UNCHANGED <<contents, mark, manifestCache, persisting, thumbCache,
                   invalidating, loadSession, pageLoads>>

\* The second update, with the initial page.
ReadInitialPage(load) ==
    /\ load.at = "page"
    /\ LET ids    == contents[load.rev]
           page   == InitialPage(ids, load.thumbs)
           fresh  == (PageThumbs(page) \cap ids) \ load.thumbs
       IN  /\ thumbCache' \in {thumbCache, thumbCache \cup fresh}
           /\ Shows(load, load.thumbs \cup fresh, {page}, "done")
           /\ galleryLoads' = galleryLoads \ {load}
    /\ UNCHANGED <<contents, mark, manifestCache, persisting, invalidating,
                   loadSession, pageLoads>>

-----------------------------------------------------------------------------
(* loadPage: a page is scrolled to, and is the next one of computeNextPage.*)
NextPage ==
    LET ids  == contents[grid.rev]
        open == SelectSeq(NewestFirst, LAMBDA e : /\ e \in ids \ grid.thumbs
                                             /\ PageIndex[e] \notin grid.loaded)
    IN  IF open # <<>> THEN {PageIndex[open[1]]}
        ELSE {p \in PageNames \ grid.loaded :
                  /\ p <= LastPage(ids)
                  /\ \A q \in PageNames \ grid.loaded : p <= q}

Demand(page) ==
    /\ grid.rev > 0 /\ grid.state # "error"
    /\ page \in NextPage
    /\ ~ \E load \in pageLoads : load.session = loadSession /\ load.page = page
    /\ pageLoads' = pageLoads \cup
          {[session |-> loadSession, at |-> "thumbs", page |-> page, thumbs |-> {},
            rev |-> grid.rev,
            ids |-> {e \in contents[grid.rev] : PageIndex[e] = page}]}
    /\ UNCHANGED <<contents, mark, manifestCache, persisting, thumbCache,
                   invalidating, loadSession, galleryLoads, grid>>

Merges(load, thumbs, pageLoaded) ==
    /\ pageLoads' = pageLoads \ {load}
    /\ grid' = IF load.session # loadSession THEN grid
               ELSE [grid EXCEPT !.thumbs = @ \cup thumbs,
                                 !.loaded = IF pageLoaded THEN @ \cup {load.page} ELSE @,
                                 !.oldest = IF load.rev < @ THEN load.rev ELSE @]

PageFromCache(load) ==
    /\ load.at = "thumbs"
    /\ LET cached == load.ids \cap thumbCache
       IN  IF cached = load.ids THEN Merges(load, cached, TRUE)
           ELSE PageStep(load, [load EXCEPT !.at = "page", !.thumbs = cached]) /\ UNCHANGED grid
    /\ UNCHANGED <<contents, mark, manifestCache, persisting, thumbCache,
                   invalidating, loadSession, galleryLoads>>

\* A page without any entry is not marked as loaded.
PageFromBundle(load) ==
    /\ load.at = "page"
    /\ LET fresh == (PageThumbs(load.page) \cap load.ids) \ load.thumbs
       IN  /\ thumbCache' \in {thumbCache, thumbCache \cup fresh}
           /\ Merges(load, load.thumbs \cup fresh, PageThumbs(load.page) # {})
    /\ UNCHANGED <<contents, mark, manifestCache, persisting, invalidating,
                   loadSession, galleryLoads>>

PageFails(load) ==
    /\ load.at = "page"
    /\ pageLoads' = pageLoads \ {load}
    /\ UNCHANGED <<contents, mark, manifestCache, persisting, thumbCache,
                   invalidating, loadSession, galleryLoads, grid>>

GallerySteps(load) ==
    \/ ReadCache(load) \/ CheckCached(load) \/ FetchManifest(load) \/ Confirm(load)
    \/ ReadThumbs(load) \/ ReadInitialPage(load)

GalleryNext ==
    \/ \E own \in BOOLEAN : Change(own)
    \/ ClearCache \/ RunLoad
    \/ \E load \in galleryLoads : GallerySteps(load) \/ NetworkFails(load)
    \/ \E rev \in persisting : PersistManifest(rev)
    \/ \E page \in PageNames : Demand(page)
    \/ \E load \in pageLoads : PageFromCache(load) \/ PageFromBundle(load) \/ PageFails(load)

(* Reads are answered or fail.                                             *)
GalleryFairness ==
    \A n \in 1 .. MaxGalleryLoads :
        WF_galleryVars(\E load \in galleryLoads : load.session = n /\ GallerySteps(load))

GallerySpec == GalleryInit /\ [][GalleryNext]_galleryVars /\ GalleryFairness

-----------------------------------------------------------------------------
(***************************************************************************)
(* Properties.                                                             *)
(***************************************************************************)

\* A load shows nothing older than what this browser had seen when it began,
\* so a publication of this page is in the gallery that is loaded after it;
\* also when the write of an older manifest to the cache, which nobody waits
\* for, comes after the cache was cleared.
ShownIsNotOld == grid.rev >= grid.floor

\* What is shown once a load is done comes from the last load that began.
ShownIsLast == grid.state \in {"manifest", "done"} => grid.of = loadSession

\* A page that counts as loaded has its thumbnails, so scrolling will not
\* pass over it; except entries that have been deleted since, and those that
\* were published after the list of entries for which the page was loaded,
\* which may be that of the gallery before a reload.
LoadedIsThere ==
    grid.state = "done" =>
        \A e \in contents[grid.rev] :
            PageIndex[e] \in grid.loaded /\ e \notin grid.thumbs =>
                \E r \in grid.oldest .. Latest : e \notin contents[r]

GalleryIsJust == ShownIsNotOld /\ ShownIsLast /\ LoadedIsThere
=============================================================================
