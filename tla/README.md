# Verification of the encrypted photo vault

The program is an end-to-end encrypted photo and video vault: a React client
(`src/src`), a streaming service worker (`src/public/sw.js`) and a storage
Worker (`src/worker`, `src/security`) that keeps everything in one Git branch of
a Hugging Face dataset. This directory holds TLA+ models of it, the TLC runs
that check them and the proofs TLAPS checks.

Contents: [inventory](#inventory), [how the parts interact](#how-the-parts-interact),
[what is hard](#what-is-hard), [modules](#modules), [runs](#runs),
[bounds](#bounds), [fairness](#fairness), [proofs](#proofs),
[what the checks found](#what-the-checks-found), [not modelled](#not-modelled),
[plan](#plan).

## Inventory

| component | state | operations | what makes it correct |
|---|---|---|---|
| commit planner `worker/commitPlan.js` | none | `planAtomicCommitBatches` | every pointer once, in order; no commit over the limit; metadata only in the last commit |
| publication groups `utils/publicationGroups.js` | none | `groupPublications` | every item once, in order; both limits kept; no needless cut |
| storage Worker, commit path `worker/index.js` | the branch `main`; which repositories have `.gitattributes` | `vaultHead`, `commitBatch`, `deleteMedia`, `initializeVault`, `ensureGitAttributes`, `postHfCommit` | a mutation lands on the head it was computed from or not at all; a manifest never lists what is not stored |
| first run `pages/Unlock.jsx`, `worker/index.js` | per isolate: whether `.gitattributes` is known to be there | `handleSubmit`, `initializeVault`, `ensureGitAttributes`, `postHfCommit` | one vault is created, once; its salt fits its key; the page is told the truth |
| storage Worker, uploads `worker/index.js` | none (objects in LFS) | `uploadFile`, `uploadChunkHandler`, `hfUploadStream` | a receipt is only given for bytes that are stored and were checked; nothing runs on after an end |
| access control `security/access.js` | key sets and fetches under way, per isolate | token checks, key refresh | a withdrawn key is not accepted for ever, a published one is found |
| publication `services/uploadService.js`, `vaultCommit.js` | the operation in flight | `finalizeUploads` and its rebase loop | publication is idempotent, bounded, and loses no row |
| deletion `services/deleteService.js` | the operation in flight | `deleteMedia` | the medium is gone from manifest and pointers in one step |
| vault lock `utils/vaultLock.js` | one Web Lock per browser | `withVaultLock` | tabs are serialised; it is always given back |
| revision marks `session/revision.js` | one number per device and vault | `checkManifestRevision` | detects an older vault, never refuses a current one |
| upload queue `session/cache.js` | IndexedDB rows: ciphertext or chunk receipts | `queueUpload`, `markChunkUploaded`, `dequeueUpload`, ... | a row is dropped only when published or cancelled; receipts belong to the source they were made from |
| upload slot `context/UploadContext.jsx` | running flag, generation, bounded retry queue | `startBatch`, `resumePendingUploads`, `retryOptimistic`, `cancelBatch`, `lockUploadSession` | one batch at a time; no retry lost; nothing runs on after a lock |
| service worker `public/sw.js` | stream sessions, fetch permits, chunk cache, queue attempts | `handleStreamRequest`, `getDecryptedChunk`, `processUploadQueue` | permits conserved; no plaintext outlives its session; a row is uploaded by one party at a time |
| stream client `services/videoStreamService.js` | one stream of a tab and the worker it turned to | `createVideoStream`, re-registration, cleanup | an open stream is served or shows an error; no session is left behind |
| crypto pool `workers/cryptoWorkerPool.js` | slots, queue | `dispatch`, `pumpQueue`, `shutdownPool` | every task is settled once; no worker idles while a task is queued |
| gallery, manifest cache `services/galleryService.js`, `session/cache.js` | cached manifest and thumbnails | `loadManifestWithCache`, `clearCache` | a stale cache does not outlive an invalidation |
| viewer, prefetch `hooks/usePrefetch.js`, `hooks/useViewer.js` | object URLs | prefetch, claim, evict, revoke | a URL in use is not revoked, an unused one is |
| OPFS cache `storage/opfsCache.js` | files and their metadata | read, write, evict, clear | the entries fit the cap |
| thumbnail pages `uploadService.js`, `storage/bundle.js` | pages of 50 entries | `buildPagedBundle` | every entry points at its own thumbnail |
| cryptography `crypto/*`, schemas `schema/*` | keys in memory | pure functions | round trips, context binding |

## How the parts interact

A tab encrypts files, stages the ciphertext through the Worker and records the
receipts in the upload queue of its device. When uploads are finished it takes
the device's Web Lock, reads the head of the branch (`/vault-head`), reads the
manifest pinned to that commit, drops the items already listed, and sends the
new manifest with the pointers of the rest (`/commit-batch`). The Worker makes
sure `.gitattributes` is in place, splits the operations over commits with the
planner and sends each commit with the oid of the one before as its parent; the
storage refuses a parent that is not the head (409/412, `VAULT_STALE`). The
client then re-reads and tries again, three times at most. After success the
mark of the device is raised and, outside the lock, the rows are dropped.
Deletion is the same transaction with one commit. Galleries read the manifest
without the lock and compare its revision with the mark.

## What is hard

Concurrent devices and tabs on one branch; a publication split over several
commits; answers lost after the commit landed; tabs killed between any two
steps; requests that go on inside the Worker after their client has gone; two
first pages that create one vault; a mark shared by tabs that read at different
times. In the Worker also: bodies that stall while they are hashed and piped,
and signing keys that are rotated while requests share a fetch of them. In the
service worker: sessions that close, expire or are replaced while their chunks
are fetched and decrypted, permits handed from one load to another, responses
that share a load; and for its client, workers that take over in the middle of a
registration. In the page: prefetched media that are claimed, evicted or locked
away while they load, workers that crash or are shut down with tasks, galleries
whose loads overlap, and cache writes and deletions nobody waits for. `PROJECT.json` lists
every hazard with its line and its properties; those without say why.

## Modules

| module | models | notes |
|---|---|---|
| `CommitPlan` | `worker/commitPlan.js` | the arithmetic as operators, the plan as a function; `EarlyOffset` is the closed form of the loop's running offset and a property compares the two |
| `PublicationGroups` | `utils/publicationGroups.js` | a fold over the items |
| `Vault` | what is promised to the owner | abstract: media and a revision; `Publish`, `Remove` |
| `VaultSync` | publication and deletion end to end | extends `CommitPlan`; implements `Vault` |
| `VaultSyncProofs` | | theorems about `VaultSync`, and about the neighbours of `MCVaultPairs` |
| `ThumbPages` | thumbnails in `services/uploadService.js`, `schema/bundleSchema.js` | pages of a publication, rebased and reused |
| `VaultInit` | `pages/Unlock.jsx`, `initializeVault`, `ensureGitAttributes`, `postHfCommit` | the first run, through several isolates |
| `WorkerUpload` | the upload handlers of `worker/index.js` | body, pipe, digest, timer, verify |
| `AccessKeys` | `security/access.js` | order of refusals, cached keys, shared and forced refreshes |
| `UploadSlot`, `UploadSlotProofs` | `context/UploadContext.jsx` | one upload at a time, retry queue, generations, wake locks |
| `UploadQueue`, `UploadQueueProofs` | `session/cache.js`, `services/uploadService.js`, `services/uploadRecovery.js`, background sync of `public/sw.js` | rows, receipts, resume, sources picked anew |
| `StreamWorker`, `StreamWorkerProofs` | video streaming of `public/sw.js` | sessions, permits and their queue, loads, chunk cache, range responses |
| `StreamClient` | `services/videoStreamService.js`, streaming in `hooks/useViewer.js` | registration, takeover, expiry, cleanup |
| `CryptoPool` | `workers/cryptoWorkerPool.js`, `workers/cryptoWorker.js` | dispatch, answers, crashes, shutdown |
| `MediaView` | `hooks/usePrefetch.js`, `services/viewerService.js`, `hooks/useViewer.js`, `pages/Viewer.jsx` | object URLs and their owners |
| `GalleryCache` | `services/galleryService.js`, `hooks/useGallery.js`, `session/cache.js` | loads, pages, manifest and thumbnail caches |
| `OpfsCache` | `storage/opfsCache.js` | files, metadata, eviction |
| `MCParts` | | checks `CommitPlan` with `PublicationGroups`, the ranges of `StreamWorker`, `StreamWorker`, `AccessKeys`, `VaultInit` and `WorkerUpload`: six parts that do not meet, one per behaviour |
| `MCPage` | | checks `StreamClient`, `CryptoPool`, `MediaView`, `GalleryCache`, `ThumbPages` and `OpfsCache` in the same way |
| `PartsProofs` | | theorems about `WorkerUpload`, `AccessKeys`, `VaultInit`, the ranges, the two algorithms that cut a publication up, and all the parts of `MCParts` |
| `StoreProofs`, `PageProofs` | | theorems about `OpfsCache` and `ThumbPages`; about `StreamClient`, `CryptoPool`, `GalleryCache`, `MediaView` and all the parts of `MCPage` |
| `Sums` | | lemmas: sums over finite sets, folds over sequences, least and greatest numbers |
| `MCVaultPairs`, `MCVaultSync`, `MCUpload*` | | instances of the rest; in `MCVaultPairs` the tabs at work are strangers on two devices or neighbours on one |

`VaultSync` in detail. `commits` is the branch: one snapshot per commit, of which
the model keeps the listed media, the manifest revision, the pointers under
`files/` and whether `.gitattributes` is complete. `reqs` holds the mutation
requests inside the Worker; a request carries what the client computed (parent,
new manifest) and how far it got. `op[t]` is the operation of tab `t`; its phases
follow `finalizeUploads` and `deleteMedia`:

| phase | code | actions |
|---|---|---|
| `wait` | the lock is requested | `AcquireLock` |
| `head` | `GET /vault-head` | `ReadHead` |
| `manifest` | manifest pinned, mark checked, pending items chosen | `SkipGroup`, `SubmitPublish`, `SubmitDelete`, `EndDelete`, `RefuseRollback` |
| `commit` | request sent | `CommitAcknowledged`, `Rebase`, `CommitFailed` |
| `check` | `checkManifestRevision` after the acknowledgement | `ObserveCommitted`, `RefuseRollback` |
| `dequeue` | rows dropped one by one, lock already given back | `Dequeue` |
| `observe` | a gallery has fetched the manifest | `ObserveLoaded`, `RefuseRollback` |

The Worker's side of a request: `EnsureAttributes`, `CommitAttributes`,
`LandEarlyBatch`, `LandFinalBatch`, `LandUnconfirmed`, `Conflict`, `FailRequest`.
Failures: `LoseAnswer` (the connection breaks, the request goes on), `Abort`
(cancel or lock), `Crash`. Steps between two awaits of the code are one action.
The order in which uploads finish is not fixed, so the group that
`groupPublications` cuts first is any group its limits allow (`FirstGroups`).
`used`, `cancelled`, `deleted` and `alarm` are history for the properties.

Abstractions: receipts are complete (an item with missing receipts makes the
finalize throw before anything is sent); the thumbnail pages of a publication
are `MetaOps` opaque operations; a 429 is invisible, because the Worker repeats
a commit that surely did not land; browsers without Web Locks are left out.

`UploadSlot` in detail. A `task` is one chain of asynchronous calls of the page;
between two awaits it is one step. Its phases: `lookup` (a retry looks up its
row), `cleanup` (`startBatch` waits for the deletions of the last cancel),
`lock` (the wake lock is requested), `body` (the upload), `release` and
`release2` (the tail of `runUploadSlot`). The refs of the component are the
variables `generation`, `running`, `controller`, `active`, `retryQueue` and
`wakeLock`; `held` is what the browser has really granted. A settled promise is
followed before another event (`Settled`); a request of a wake lock takes time
only in a browser that has them (`WakeLockSupported`). The items of the queue are
files or queued rows, all that a click can name; each is clicked once.

`UploadQueue` in detail. `row` is the IndexedDB store; `proc` holds uploads, a
fresh one in `prepare`, `queued`, `upload`, `finalize`, `dequeue`, a resumed one
in `reading` and then like the fresh one. Parts of a file (the chunks of a large
one, part 0 of a small one) go through `todo`, `hashing`, `put`, `done`. What a
part contains is named by the file it was cut from. `receipts` and `late` are
writes nobody waits for: chunk receipts, and the hash an upload was saving when
it stopped. `clearing` is what a cancel or a discard is about to delete.
`sync` are runs of `processUploadQueue`. `ReselectSource` is the gallery, which hands
whatever file is picked to the resume; `reselectUploadSource`, which would verify
it, is called by no page and left out. `tried` is history: the hashes of other files
that an upload saved and went no further, as one does that finds a mismatch. A
publication is one step here; `VaultSync` has it in full. A failing IndexedDB, rows of older versions and
thumbnails are left out.

`StreamWorker` in detail. The service worker is single-threaded: an action is
one event with the promise continuations it settles. `streamSessions` is the Map
from ids to session objects, `session` those objects (a registration uses the
next one), `lapsed` that `STREAM_SESSION_TTL_MS` has passed since the last use.
`load` holds, for a session and a chunk, the pending promise of
`getDecryptedChunk`: `waiting` for a permit, `fetch`, `decrypt`; the Map
`session.pending` is what is not `none` of a live session. The array
`streamFetchWaiters` is given by `ahead`, the loads that queued before a load.
`body` are the responses of `createRangeBody`, with the bytes sent; bytes are
their positions in the medium. `cache` lists chunks in the order of the Map.
`cleanupStreamSession` is `Cleanup` with what it does to the Map, the session and
the waiting responses; a registration that fails its validation has closed the
session it would have replaced, so it is `RemoveStream`. A load whose session
was closed keeps its permit until its fetch or decryption ends (`LoadFails`).
Left out: the zeroing of buffers, progress and error messages, HEAD, 405, 416 and
403 answers, and the contents of chunks, whose check is one of the ways a load
fails.

`ThumbPages` in detail. `shelf` is what the branch holds of thumbnails: the
number of pages the manifest counts, the pages, the bundle of older vaults and
the entries with their place; `version` its head. `StartPublication` and
`BuildRequest` are the read of the pinned head and `buildPagedBundle`;
`CommitLands`, `CommitIsStale` and `CommitFails` are the outcomes of the commit
that `VaultSync` has step by step; `DeleteMedium` drops an entry and leaves its
thumbnail, as the code does. The vault begins empty, with pages, or as one of an
earlier version.

`VaultInit` in detail. `history` is the branch; a tree has the salt, the salt its
manifest was made with, and `.gitattributes` or not. `opening` are the pages:
`Probe` is the lookup of a salt that decides between creating and unlocking,
`Submit` the form. In the Worker `BeginEnsuring`, `Ensured`, `ListAttributes` and
`ListFails` are the shared promise of an isolate (`ensured`, `ensuring`),
`ReadHead`, `ReadTree` and `ReadFails` the reads of `initializeVault`. `posts` are
the commits in `postHfCommit`: the storage takes one (`StoreTakes`), asks to slow
down (`TooMany`) or fails without saying which (`Ambiguous`), after which the
commit may still land.

`WorkerUpload` in detail. `up` is a request: its kind (the runtime streams, or
buffers, or the client declared nothing), how many bytes have come, its pipe,
digest and timer, whether the client is gone, and its code. `object` is what the
storage keeps under the declared hash, `verifies` whether its answers ask for a
verification. `Ask`, `Refuse` and `ReadRawBody` are the head of the handlers;
`Preupload`, `Exists`, `MustSend` and `BatchFails` the LFS batch; `Flow`, `BodyEnds`,
`PipeBreaks`, `BufferStream`, `PutOk`, `PutRefused` and `PutRejects` the stream and its
PUT, whose yes may come before the body has been read; `AwaitPipe` and
`VerifyUploadedBytes` what follows it; `ClientGoes` and `TimeOut` the two aborts;
`VerifyLfsUpload` and `VerifyFails` the end, where a verification was asked for.
External and assumed: a storage that asks for one stages what is PUT and makes it
the object when that upload is verified; one that asks for none keeps the body,
whatever it is, once it has taken all of it, and need not compare it with the hash.

`AccessKeys` in detail. `jwks` is the cached set with the times of its fetch and
of the last forced refresh, `refresh` the fetch under way, `verifying` the
requests that wait for it and how they go on. `NoConfiguration`, `NoToken` and
`UseCached` decide without waiting; `NeedKeys` and `TryRefresh` join or begin a
fetch, `LoadKeys` and `KeysFail` end it. The team publishes and withdraws keys at
any time (`PublishKey`, `WithdrawKey`), and `Tick` cannot pass the timeout of a
fetch. `since` and `until` are history. Signatures and encodings are data.

`StreamClient` in detail. `controller` is the worker in control; `create`,
`target`, `registeredAt`, `registering` and `again` are the fields of the state
of `createVideoStream`; `inbox` the messages on their way to each worker,
`sessionAt` the workers that have a session. A registration is answered, times
out, or its worker goes; a takeover, a failing request or the notice that a
session expired asks for another (`RequestReRegister`, `AgainFinds`). `Leave` is
the close of the viewer, `WorkerForgets` the expiry or restart of a worker.

`CryptoPool` in detail. `slots`, `queue` and `terminated` are the variables of
the module; `promise` what the caller of each task has. `Dispatch`, `Answer`,
`Crash` (with its respawn), `Microtask` (the pump put off), `ShutdownPool` and
`LateEvent` (of a worker of an earlier pool).

`MediaView` in detail. `loads` are the calls of `loadFullMedia`, each with its
medium, its URL and whether it is a prefetch, claimed or aborted. `prefetchCache`
and `active` belong to the prefetcher, `viewing` is the effect of the viewer,
`revoking` the URLs whose revocation is put off by a timeout. `Prefetch`, `Open`,
`EntryFound`, `Switch`, `Retry` and `Close` are the user's steps and the effects
they trigger, `Lock` drops the key and what it opened, `Loaded` and `LoadFailed`
end a load.

`GalleryCache` in detail. `contents` lists the entries of each revision,
`galleryLoads` are runs of `loadGalleryProgressive` with what each has read,
`pageLoads` runs of `loadPage`, `persisting` the writes of `persistManifest` that
nobody waits for, `invalidating` the `clearCache` after a publication of this
page. `grid` is what is shown: which revision, from which load, which pages and
thumbnails, and `floor`, the newest revision the browser had seen when that load
began.

`OpfsCache` in detail. `files` is the directory, `stored` the metadata on disk,
`maps` the Map objects made by this document and `metadataCache` which of them
the module uses. A call (`Begin`) reads, writes or removes its file, gets the
metadata (`GetMetadata`, `LoadMetadata`), evicts (`EvictFile`, `ForgetFile`), and
writes them (`Persist`, `CloseMetadata`); writes fail at any point. Calls overlap:
the viewer does not wait for a deletion or a write. `unbounded` is history: the
entries were loaded by a call that does not bound them (only `setCachedFile` does).

## Runs

| run | question |
|---|---|
| `parts` | is every plan of a request of up to 45 pages and 170 pointers right at the real limit of 40, and every grouping of a short batch? is every Range header parsed right? do streams account for every load and permit, keep closed sessions silent and forgotten, and bound their cache? is every token judged by keys that may be trusted? is a vault created once? is every receipt true? and does all of it end? |
| `page` | is an open stream served and a closed one forgotten? is every task of the pool in one place? has every decrypted medium one owner? do the entries of the cached files fit the cap, however calls overlap? does the gallery show nothing old, and find every thumbnail? and does all of it end? |
| `vault_sync` | two tabs, on two devices with one failure of any kind, or on one device: whole publications, ordered revisions, nothing lost, nothing twice, no conflict between neighbours, the mark behind the head |
| `vault_liveness` | does every operation of two tabs of one device end, with two failures? |
| `vault_rollback` | is `VAULT_ROLLBACK` only raised for an older vault? (no) |
| `vault_resurrect` | does a deleted medium stay deleted when an upload is retried? (no) |
| `upload_slot` | browsers without wake locks: one upload at a time, cancels that reach it, no late effects? |
| `upload_clicks` | is every queued click served, called off or refused? |
| `upload_late_wake_lock` | browsers with wake locks: are late callbacks inert? (no) |
| `upload_queue` | a large file, overlapping uploads, two faults, any file as its source: nothing published in part, no row lost or revived, no wrong file taken at its first try? |
| `upload_ends` | a batch beside two background syncs: do uploads end, do cancelled rows leave and stay away, are background attempts bounded? |
| `upload_reselect` | do chunks of two files never meet under one id? (no) |

`parts` and `page` state one property per part, a conjunction whose conjuncts are
in the part's module with the reason for each: `CutsAreRight`, `RangesRight`,
`LoadsAccountedFor`, `AccessIsJust` (`TrustIsBounded`, `StableKeyIsKnown`,
`AcceptedIsInForce`), `VaultInitIsJust` (`CreatedOnce`, `SaltFits`,
`ToldTheTruth`), `WorkerUploadIsJust` (`ReceiptIsTrue`, `NothingRunsOn`,
`VerdictIsTrue`), `StreamClientIsJust` (`NoSessionLeft`, `ReRegistrationInStep`),
`PoolIsJust` (`TasksAccountedFor`, `NoneIdleWhileQueued`), `ShownIsJust`
(`NoUrlLeft`, `LockedIsClean`, `ShownIsLive`, `CacheInBounds` of the viewer,
`ShownIsNotOld`, `ShownIsLast`, `LoadedIsThere` of the gallery) and `StoredIsJust`
(`EntriesFitCap` of the files on disk, `ThumbsAreFound` and `PagesArePacked` of the
thumbnails, in the vault and in every request that may still land). The parts share
no variable and a behaviour is about one of them, so their states add up and do not
multiply.

## Bounds

`MaxCommits` stops new operations once the branch is that long: operations in
flight still add their commits, so that with 2 or 3 every pair of competing
mutations, every chain of early batches and the bootstrap of `.gitattributes`
overlap. `MaxFaults` bounds failures of all kinds together. With `MaxOps = 3`,
`MetaOps = 2` and a video of three chunks a publication needs two commits, with
one pointer beside the metadata. `MaxRebase = 1` and `DeleteAttempts = 2` reach
both the retry and the exhaustion of the attempts (the code has 3 and 3).
`MaxItems = 2` and `MaxPointers = 3` make `groupPublications` cut on either
limit. In `vault_sync`
strangers start nothing on a history longer than `MaxCompeted = 2`, neighbours
have `MaxCommits = 3` and no failures; a third tab adds competitors and no new
kind of competition. Deadlock is not checked: when the bounds are reached every
tab is idle.

`StreamWorker`: two session objects under two ids are enough for one session
that replaces or outlives another, two responses for a shared load and for one
load that waits on another session's permit; the medium has a full chunk and a
shorter one, the cache room for one of them, and there is one permit, so that
every second load queues. One range is streamed, from the middle of the first
chunk to past the end; every header is parsed.

`CommitPlan` and `PublicationGroups`: the planner at its real limit, where 45
pages are too many and 170 pointers need five commits; the grouping with limits of
3 items and 4 pointers over batches of up to 6, so that either limit cuts, several
times, and items with none or too many pointers are refused.

`AccessKeys`: two keys, and tokens that name one and are signed by either, with
every other fault; a key set is fresh for one tick and usable for two, fetches
take up to one, and five ticks let a set go stale after a rotation. `VaultInit`:
two pages and two isolates, two commit attempts and two mishaps, enough for an
answer that is lost, a retry, and a rival between them. `WorkerUpload`: two
uploads of one object of one unit, with bodies that are right, wrong, short or long,
to a storage that verifies or does not. `StreamClient`: three workers take over one after the other, with one
fault, so that a takeover can fall into the re-registration for the one before.
`CryptoPool`: four tasks for two workers and one shutdown. `MediaView`: three
media of which one fills the cache of two, two prefetches at once, three loads.
`GalleryCache`: two entries in two pages, two revisions, two loads of the gallery.
`ThumbPages`: pages of two thumbnails, two devices with four media, one rebase,
four changes of the branch; a page overflows in the middle of a publication and
after a rebase. `OpfsCache`: three files, of which the large one and a small one
overrun the cap, four calls, two of them at a time, and one reload: enough for an
eviction beside a write, a deletion or a clearing.

`UploadSlot`: two or three chains are enough for an upload, the one that
overtakes it and a drain; a limit of 1 or 2 lets the queue overflow; `MaxStops`
and `MaxShows` bound cancels, locks and returns to the page.
`UploadQueue`: one file of two chunks distinguishes a whole publication from a
partial one and a mixed one from a pure one, two uploads (which differ in their
names only, hence the symmetry) let one overtake another, each sends a chunk at a
time, and two faults are what the longest scenario needs (a cancel and a crash, or
two failed resumes). The theorems are about any number of each. `upload_ends` has one tab, a small file and a
large one of one chunk, one fault, two overlapping runs of the background sync
and one attempt per row; no wrong source, since what it asks does not depend on
the content. With one fault it has no crash between a cancel and the clearing of
the queue, after which a cancelled row would stay: `CalledOffLeaves` says nothing of
that case.
Ids are used once, as in the code. The page is done when nothing is left to
click, so deadlock is not checked here either.

## Fairness

`OperationsEnd` assumes that a tab with a step to take takes it (JavaScript
continuations run), that the Worker works on a request whose client waits, and
that the browser grants the lock to waiting tabs in turn (Web Locks are queued
in order: strong fairness on `AcquireLock`). Users need not start anything and
failures need not happen. Requests whose client has gone are not assumed to go on.

`WorkEnds` assumes of streams (`StreamFairness`) that a load that holds a permit
ends: the fetch and the decryption are answered or fail. A load that waits for a
permit is given no fairness, the hand-over has to reach it. Of the other parts it
assumes that a fetch of keys is answered, fails or times out (`AccessFairness`);
that the requests of a setup run on, commits that are awaited are answered and
listings too (`VaultInitFairness`); that the storage answers, timers fire, bodies
that have come are read and an aborted PUT rejects (`WorkerUploadFairness`; a body
that stalls is only ended by the timer). `PageWorkEnds` assumes that messages to a
service worker are handled, registrations are answered or time out, and media
elements report requests that fail (`StreamClientFairness`); that microtasks run
and workers answer (`PoolFairness`); that loads end and timeouts run
(`MediaViewFairness`); that reads of the gallery are answered or fail
(`GalleryFairness`). None of these actions can be taken before something was asked
of their part, so the fairness of one part assumes nothing of another.

`ClicksServed` assumes that every await of every chain is answered and that React
runs its effects; `UploadsEnd` and `CalledOffLeaves` that requests and IndexedDB
transactions are answered (a request fails after its timeouts). The user need
not click, and the background sync need not run.

## Proofs

Every type invariant, safety invariant and action property that a passing run
checks is also a theorem, for every value of the constants the assumptions allow.
Three, of the upload slot, assume a hypothesis on a constant besides,
`~WakeLockSupported`. `PROJECT.json` lists them. What liveness asks stays with TLC.

### Publication and deletion (`VaultSyncProofs`)

For any devices, tabs, media, limits and any length of history, from the
assumptions named in `VaultSync` and `CommitPlan`:

- `TypeCorrect`: the type invariant;
- `PublicationsAreWhole`: `EntriesHavePointers`;
- `RevisionsAreOrdered`: `RevisionOrdersHistory`;
- `VaultImplemented`: `VaultSync` implements `Vault` (`VaultRefined`);
- `MarksAreBehind`: `MarkBehindHead`;
- `StagedUploadsAreKept`: `StagedNeverLost`;
- `RebasesAdvance`: `RebaseOnNewerHead`;
- `NeighboursStayInStep`: `NeighboursAgree`, for the specification of
  `MCVaultPairs`.

None of the safety invariants is inductive alone: what they need is that a
request in the Worker *fits* its parent (`Fits`, `RequestsFit`): its manifest is
the parent's plus or minus its items, one revision later, and each pointer it
needs is in the parent or still to be staged. The compare-and-set makes that
parent the commit below, wherever other requests and `.gitattributes` have moved
the head meanwhile. `DeletesOne` (a deletion is of one medium) and `BasesExist`
(a pinned commit exists) complete the invariant; `MarksInv` adds that a
revision about to be stored has landed.

`UploadsInv` follows an upload from the request that was acknowledged, over the
group that is done, to the row that is dropped: on the way it is *settled* (listed,
deleted since, or cancelled). It also bounds the head a request was built on by
the request's parent, so that what a rebase leaves behind is older
(`RebasesAdvance`), and says that a tab that waits has one request.

`NeighboursStayInStep` rests on two more facts: whoever works on the vault holds
the lock of its device (`LockInv`, of any behaviour), and between neighbours every
request names the head as its parent at every step (`NeighboursInv`). It assumes
that the two share a device (`PairsAssumption`); that nothing fails and that
`.gitattributes` is in place is what `MCVaultPairs` says of neighbours.

### The upload queue (`UploadQueueProofs`)

For any files, parts, tabs, uploads, background syncs and faults, from
`QueueAssumption` and `NullAssumption` (no recorded value is the null of the code):
`QueueTypeCorrect`, `PublishedStaysWhole` (`PublishedIsWhole`), `RowsStayKept`
(`RowsKeptUntilPublished`), `BackgroundStaysBounded` (`BackgroundBounded`) and
`GoneRowsStayGone` (`GoneStaysGone`). `QueueInv` says of each row, and of each upload
in each of its phases, which receipts it may have: what is about to be published
has all of them, what is about to be dropped is published or called off, and no
write that is still on its way can make a row anew.

`WrongFilesAreTriedTwice` (`WrongFileNeedsTwoTries`) follows the hash of a wrong file:
`TriedInv` says that every receipt, hash and part of another file, stored or on its way,
is of a file that an earlier upload has tried in vain. That the code promises no more
is what `upload_reselect` shows.

### The upload slot (`UploadSlotProofs`)

For any clicks, chains, cancels and locks: `SlotTypeCorrect` without a hypothesis,
and `OneUploadAtATime` (`OneUpload`), `CancelAlwaysReaches` (`CancelReaches`) and
`LateCallbacksStayInert` (`LateCallbacksInert`) for browsers without wake locks
(`~WakeLockSupported`). With them the last is false: `upload_late_wake_lock`.
`SlotInv` says that a chain of the present generation has the flag and the
controller, and that every row it announced is one a cancel would delete.

### Streams (`StreamWorkerProofs`)

For any streams, tabs, responses, ranges, chunk and medium sizes, cache limit and
number of permits, from `StreamAssumption` (`Absent` is no number and no range):

- `PermitsNeverLost`, `QueueStaysJust`, `NobodyIsForgotten`, and the three together
  as `LoadsStayAccountedFor` (`LoadsAccountedFor`);
- `KeysStayReachable`: `KeysAreReachable`;
- `ClosedNeverSends`: `ClosedSendsNothing`;
- `CacheStaysBounded`: `CacheBounded`;
- `RangesAreServed`: `RangeServed`, and `StreamTypesKept`: `StreamTypeOK`.

The invariant `StreamInv` adds what the first need: a response that is not finished
asks for a chunk the medium has (`BodiesOnChunks`, from what `parseRange`
returns), and the Map and the session objects name each other (`MapAgrees`). The
permits are handled apart (`PermitsInv`): one lemma for each of the three ways
they change (`CleanupPermits`, `StartPermits`, `EndPermits`), whose core is that a
hand-over replaces one member of `Holding` by another.

`CacheInv` says that a cache lists each chunk once and fits the limit; its core is
that dropping the oldest entries until they fit leaves a suffix that fits.
`BodiesInv` says what a body has sent: the bytes from the start of its range up to
where it is, so that its next chunk continues them.

### Parts of the Worker, and the cuts (`PartsProofs`)

`UploadsAreJust` (`WorkerUploadIsJust`), for any number of uploads of an object of
any size, from `WorkerUploadAssumption`. The invariant `UploadInv` says how pipe,
digest and step of a request go together (`PipeAndDigest`), that what a right
digest has let through is the declared body (`BodyKnown`), that an ended request is
quiet and that codes are true.

`SetupStaysJust` (`VaultInitIsJust`), for any pages, isolates, attempts and mishaps,
from `InitAssumption` (pages and isolates differ, and the salt of each submit is a
new one). `CreatedOnce` needs the whole chain of reads: `SetupInv` says of every
page what it may have read (`PageOK`), that a salt it has not sent is in no tree
and no post (`SaltsLeft`, `PostsDiffer`), that a post's tree extends its parent
(`PostOK`), and that a page waits for one post of its own (`Awaits`). A post whose
answer was lost stays in `posts`, so the compare-and-set is argued once for posts
that are awaited and those that are not.

`AccessStaysJust` (`AccessIsJust`), for any keys, tokens, times to live and timeouts,
from `AccessAssumption` and `NothingAssumption`. The invariant `AccessInv` says that
every set of keys that is kept, cached, fetched or waited for, is *as of* some time
not too long ago: it has the keys published since before then and none withdrawn
before (`CacheIsCurrent`, `FetchIsCurrent`, `WaitIsCurrent`).

`RangesStayRight` (`RangesRight`): `parseRange` refuses exactly the headers that name
no byte, and returns the first and last of the others; for any size of the medium.

`CutsStayRight` (`CutsAreRight`): for any number of pages, pointers and finished
uploads and any limits. Of the planner: `PlanCounts` is the arithmetic of a
division that rounds up, `PlanOffsets` says that each early batch starts where the
one before ended and is not empty, `LoopOffsets` that the loop's running offset is
the closed form, `PlanShape` and `PointersOnce` that the slices joined are the
pointers, `ManifestGoesLast` what the two filters make of the metadata. Of the
grouping: `LoopIsRight` is the invariant of its loop, over the items done.

`PartsKeepTypes` (`PartsTypeOK`) and `PartsAlone` lift what is proved of a part to
`MCParts`: a behaviour about one part is a behaviour of every other in which
nothing happens.

### The page (`StoreProofs`, `PageProofs`)

- `StreamsStayJust` (`StreamClientIsJust`), from `ClientAssumption` and
  `RegistrationAssumption`: for any number of workers and faults. `ClosedIsLast`
  says that the last message on its way to a worker that may still have a session
  of a closed stream is the one that removes it.
- `PoolStaysJust` (`PoolIsJust`): a pending task is in exactly one place
  (`Accounted`), and workers and pending pumps together are never fewer than the
  queue needs.
- `ShownStaysJust` (`ShownIsJust`) puts two together. `MediaStayJust`, for finitely
  many media of any sizes: `MediaInv` gives every URL one owner among the loads,
  the prefetcher, the viewer and the revocations under way. `GalleryStaysJust`, for
  `MaxRevision >= 1`: `GalleryInv` orders the mark, the floor of each load, what it
  has read and what is shown.
- `StoredStaysJust` (`StoredIsJust`): `EntriesStayWithinCap`, for any files, sizes, cap and
  overlapping calls, with `CapInv`: whatever others do meanwhile, a loop that evicts
  counts at least the bytes of the entries it will come to (`LoopOK`), and while the
  entries do not fit, some loop will come to all of them (`Covers`); and `ThumbsStayJust`, for any queues of rows,
  page size and number of rebases, with `ThumbInv`, which says of every request that
  may still land that it is as good as the vault.
- `PageTypesKept` (`PageTypeOK`), and `OpfsTypesKept` and `ThumbTypesKept`.

Assumed of the constants besides: `Media`, `Files` and `Items` are finite, `NoPage` is
no number and each device's `Rows` are a sequence of thumbnails.

### How data are handled

What a fold or a recursive function computes is in reach of the provers after all,
though not by the library's induction theorems. A fold of the community modules is
a choice of a function that satisfies an equation; `Sums` proves that one exists
(`SumExists`, `FoldExists`) and that a fold therefore has a *run*, the sequence of
its intermediate results (`FoldRuns`). Where induction would go, a proof takes the
least counterexample (`LeastNatural`). So are proved what `FlattenSeq`, the sums of
bytes, the filters of `CommitPlan`, the loops of `PublicationGroups`, of the thumbnail
pages and of `IdleUpTo` compute.

### Model-checked only

Liveness under fairness (`OperationsEnd`, `WorkEnds`, `PageWorkEnds`, `ClicksServed`,
`UploadsEnd`, `CalledOffLeaves`): no backend here reasons about `ENABLED`. And the four
claims that runs refute.

## What the checks found

- `vault_rollback`: a gallery fetches the manifest, another tab of the same
  device publishes and raises the mark, then the gallery compares its older
  revision and reports a rolled-back vault, although the branch never lost a
  commit. The same happens to a publication or deletion that is acknowledged
  after another tab saw a newer revision.
- `vault_resurrect`: a publication lands, its answer is lost, another device
  deletes the medium, the user retries: the item is not in the manifest, so it is
  published again. Retrying is idempotent with respect to duplicates
  (`VaultRefined`) but not with respect to a deletion in between.
- `upload_late_wake_lock`: an upload asks for a wake lock, the user cancels and
  starts another, then the first lock arrives. Its generation is old, so
  `runUploadSlot` resets the running flag and the controller, which belong to the
  second upload by now: it cannot be cancelled, and a third may start beside it.
  Without wake locks the await takes no time and `upload_slot` holds.
- `upload_reselect`: resume a large upload with a wrong file: it fails, but the
  hash of the wrong file has replaced the recorded one before the comparison.
  Resume again with the same file: it is accepted and published, and in between
  the original would be refused. Nobody verifies the pick (`Gallery.jsx:254`,
  `UploadContext.jsx:336`). What is left of the check is `WrongFileNeedsTwoTries`
  (`upload_queue`): no wrong file is taken at its first try.

What follows was met while modelling; the models have it, no run asks about it.

- Streams: a response uses its session when it is opened and when it finds a
  chunk cached, so one that streams fresh chunks for longer than
  `STREAM_SESSION_TTL_MS` is closed by the timer while it plays; the client
  registers it again. A takeover during a re-registration asks for none; the next
  failing request does (`Unserved`). `clearVideoStreams` is never called.
- Access: after a rotation, a fetch of keys that fails gives 401 and not 503 while
  an old set is cached. The interval between forced refreshes is not kept after a
  set was loaded without force, and failures on an empty cache are not limited. A
  body of keys that breaks off while it is read raises another kind of error, for
  which the stale set is not tried (500).
- First run: without a head, `initializeVault` commits without a parent, although
  the comment at `worker/index.js:380` says there is always one; an isolate that
  remembers `.gitattributes` of a repository made anew gets there. A tree that is
  404 counts as empty. After a lost answer the page stays in its create mode, and
  the retry is told `VAULT_INITIALIZED` of its own vault.
- Worker uploads: the verify request and the PUT of clients that declare nothing
  have no timeout. A PUT answered before its body was read leaves the pipe
  awaited, until the body ends or the timer fires. The buffered path is not ended by the timer. The commit branch of
  `hfUploadFile` and `commitLfsPointer` are never reached.
- Pool: there is no `onmessageerror`, and a worker script that cannot be loaded is
  respawned without end.
- Viewer: a prefetch from a long press that outlives its card can evict an entry
  between the viewer's lookup and its claim, and a revoked URL is shown
  (`ShownIsLive` exempts it); a load that was aborted shows nothing, and no error.
- Gallery: a page that is scrolled to while a new manifest arrives is counted for
  the new grid and was read for the ids of the old one: `useGallery.js:100-126`
  takes the session number when it starts and the ids of the grid it was called
  from, and the guard described at line 44 compares session numbers alone. An
  entry of the new manifest can so count as loaded without its thumbnail. This was
  found while proving `LoadedIsThere`, which TLC had passed: the invariant was not
  inductive, and a third revision breaks it. It is now about the entries that the
  list which the page was loaded for has (`PageLoad.rev`, `grid.oldest`). The initial page counts as loaded at the manifest, also when no entry
  came with it. A `persistManifest` under way at a lock can leave the manifest in
  IndexedDB after `clearCache`.
- Files on disk: `opfsCache.js:10` says that the directory is bounded by
  `OPFS_BYTE_CAP` and line 72 that the metadata survive across sessions. The entries
  fit the cap (`EntriesFitCap`), the files do not: `setCachedFile` keeps a new entry in
  memory and `enforceByteCap` writes the entries only when it evicts, so after a reload
  such a file has no entry, is never counted or evicted, and later files go past the
  cap (write a file, write another, reload before the metadata are written, write a
  third). Without a reload, a file that is written again beside its own deletion,
  eviction or clearing keeps no entry either: a miss deletes it without waiting
  (`viewerService.js:90`) beside the download that stores it (line 102), and a file that
  is open cannot be removed. `FilesFitCap` states the bound of the comment; as an
  invariant of `MCPage` it gives both traces. `getMetadata` puts its Map in place
  before it is filled (line 86), so that a caller beside the first works with a part of
  the entries. The loop of `enforceByteCap` passes over entries that are gone without
  taking off their bytes, and so evicts too many.
- Uploads: `verify` is asked for by the storage's answer, or not. Where it is not, a
  wrong body that the storage took stays under the hash although its upload got no
  receipt, and the next upload of that hash is told that it is there already
  (`ReceiptIsTrue` says exactly this). An error of the network that nothing classifies
  ends as `STORAGE_FAILED` without `retryable` (`worker/index.js:190`), so a sound upload
  may be refused for good.
- Limits: a video of 1000 to 1800 chunks can be published and not deleted
  (`worker/index.js:664`).
- Thumbnails: a page is looked up only as the last one, so a medium that is
  published again may have its thumbnail twice.

Three behaviours of `UploadSlot` that no run asks about, for the reader of the
code: a retry that looks up its row, files behind a drained resume and a batch
that waits for the cleanup still start after the lock or cancel that emptied the
queue, because they read the generation only when they claim the slot; a batch
chosen during an upload is queued whole once there is room for one file
(`PushBatch`), past the limit; and a wake lock acquired by the visibility handler
while the upload waits for its own is overwritten and not released.

## Not modelled

- User interface, cryptography, schemas and codecs: rendering and pure functions,
  with nothing to interleave.
- `security/token.js`, the read routes of the Worker, and the recovery of uploads
  after a network change: not yet.
- Of the caches: the bundle cache and the loader of vaults without pages, the shell
  cache of the service worker, and of the files on disk the bundle file, quota,
  statistics and the directory of an earlier version.
- Of the uploads: a failing IndexedDB, rows of earlier versions, the legacy upload
  that commits at once, `reselectUploadSource` (no page calls it).

External, modelled from how the code uses it: the storage (an append-only branch
with a compare-and-set on the parent; objects staged and verified), the network,
the browser's locks, service worker life cycle and file system.

## Plan

What is left, in this order: the network recovery of `uploadService.js`, the read
routes and the limits of the Worker, an abstract upload queue that `UploadQueue`
implements. Proofs to add: `LateCallbacksInert` and the others of `UploadSlot` for
wake locks that are requested and never granted late, and the refinement of that
abstract queue.
