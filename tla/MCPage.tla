------------------------------- MODULE MCPage -------------------------------
(***************************************************************************)
(* Checks parts of one page that do not meet in one state: its streaming   *)
(* of a video, its pool of workers, its viewer, its gallery, the           *)
(* thumbnails it publishes, and its files on disk.  A behaviour is about   *)
(* one part, chosen at the start; the others stay in their initial states. *)
(***************************************************************************)
EXTENDS StreamClient, CryptoPool, MediaView, GalleryCache, ThumbPages,
        OpfsCache

CONSTANTS big, small, tiny,  \* the media of the viewer
          d1, d2,            \* two devices
          large              \* a cached file

VARIABLE part  \* what this behaviour is about

vars == <<part, streamClientVars, poolVars, mediaVars, galleryVars, thumbVars, opfsVars>>

Init ==
    /\ part \in {"client", "pool", "media", "gallery", "thumbs", "opfs"}
    /\ StreamClientInit
    /\ PoolInit
    /\ MediaViewInit
    /\ GalleryInit
    /\ ThumbInit /\ (part # "thumbs" => shelf.files = {})
    /\ OpfsInit

Next ==
    /\ UNCHANGED part
    /\ \/ /\ part = "client" /\ StreamClientNext
          /\ UNCHANGED <<poolVars, mediaVars, galleryVars, thumbVars, opfsVars>>
       \/ /\ part = "pool" /\ PoolNext
          /\ UNCHANGED <<streamClientVars, mediaVars, galleryVars, thumbVars, opfsVars>>
       \/ /\ part = "media" /\ MediaViewNext
          /\ UNCHANGED <<streamClientVars, poolVars, galleryVars, thumbVars, opfsVars>>
       \/ /\ part = "gallery" /\ GalleryNext
          /\ UNCHANGED <<streamClientVars, poolVars, mediaVars, thumbVars, opfsVars>>
       \/ /\ part = "thumbs" /\ ThumbNext
          /\ UNCHANGED <<streamClientVars, poolVars, mediaVars, galleryVars, opfsVars>>
       \/ /\ part = "opfs" /\ OpfsNext
          /\ UNCHANGED <<streamClientVars, poolVars, mediaVars, galleryVars, thumbVars>>

\* No fair action of a part can be taken before something has been asked of
\* that part, so the fairness of one part says nothing about another.
Spec ==
    /\ Init /\ [][Next]_vars
    /\ StreamClientFairness /\ PoolFairness /\ MediaViewFairness /\ GalleryFairness

\* Of three media one fills the cache and the others share it.
SizesOf == [m \in Media |-> IF m = big THEN 2 ELSE 1]

\* Two entries in two pages of the bundle.
TwoEntries == <<"b", "a">>
TwoPages   == [a |-> 0, b |-> 1]

\* The large file and a small one overrun the cap.
SizesOfFiles == [f \in Files |-> IF f = large THEN 2 ELSE 1]

\* One device publishes more than fits into a page, the other one medium.
QueuedRows == d1 :> <<"p", "q", "r">> @@ d2 :> <<"s">>
Lengths    == [id \in ThumbIds |-> IF id \in {"p", "s"} THEN 1 ELSE 2]

(***************************************************************************)
(* Properties of all parts.                                                *)
(***************************************************************************)

\* Every part keeps to its types.
PageTypeOK ==
    CASE part = "client"  -> StreamClientTypeOK
      [] part = "pool"    -> PoolTypeOK
      [] part = "media"   -> MediaViewTypeOK
      [] part = "gallery" -> GalleryTypeOK
      [] part = "thumbs"  -> ThumbTypeOK
      [] part = "opfs"    -> OpfsTypeOK

\* Decrypted media have one owner who gives their URLs back, and what the
\* gallery shows is no older than what the browser had seen.
ShownIsJust == MediaViewIsJust /\ GalleryIsJust

\* However calls on the cache of files overlap, its entries fit the cap; and the
\* thumbnail of every published medium is where the gallery looks for it.
StoredIsJust == EntriesFitCap /\ ThumbsAreJust

\* Something was asked of the part that it has not answered yet: an open
\* video without a session to serve it and without an error shown, a task of
\* the pool, a medium that loads or a URL to be revoked, a gallery that loads.
Unfinished ==
    CASE part = "client"  -> Unserved
      [] part = "pool"    -> \E t \in CryptoTasks : promise[t] = "pending"
      [] part = "media"   -> MediaBusy
      [] part = "gallery" -> grid.state \in {"loading", "manifest"} /\ loadSession > 0
      [] OTHER            -> FALSE

\* Nothing that was asked of a page stays unanswered: an open video ends up
\* registered with the worker in control, or has shown an error, also when a
\* takeover falls into a re-registration; every task is answered or rejected,
\* every load ends and every URL of a closed viewer is revoked, and the
\* gallery does not stay in its loading state.  What can be asked for is
\* bounded, so it is enough that a page comes to rest again and again.
PageWorkEnds == []<>~Unfinished
=============================================================================
