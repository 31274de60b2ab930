----------------------------- MODULE VaultInit ------------------------------
(***************************************************************************)
(* The first run: the page that asks for the passphrase                    *)
(* (pages/Unlock.jsx) probes for a salt and, where there is none, creates  *)
(* a vault; POST /initialize-vault (worker/index.js) prepares              *)
(* .gitattributes, reads the head and the tree at it, and commits onto it. *)
(*                                                                         *)
(* Several pages of one owner do this at once, through several isolates of *)
(* the Worker.  A commit that was posted may land after its answer was     *)
(* given up.  A manifest is known by the salt its key was derived with;    *)
(* the passphrase is the same everywhere.                                  *)
(***************************************************************************)
EXTENDS Integers, Sequences, FiniteSets

CONSTANTS
    Pages,                \* open pages
    Isolates,             \* isolates of the Worker
    MAX_COMMIT_ATTEMPTS,
    MaxMishaps,           \* bound: refused requests, lost answers, and submits
                          \* after the first of a page
    NoSalt,               \* no salt, no manifest
    OldSalt               \* the salt an interrupted older setup left

ASSUME InitAssumption ==
    /\ MAX_COMMIT_ATTEMPTS \in Nat \ {0}
    /\ MaxMishaps \in Nat
    /\ NoSalt # OldSalt
    /\ Pages \cap Isolates = {} /\ Isolates # {}
    /\ \A p \in Pages : \A n \in 1 .. MaxMishaps + 1 : <<p, n>> \notin {NoSalt, OldSalt}

VARIABLES
    history,   \* the trees of main, in order of their commits
    ensured,   \* gitAttributesEnsured, of each isolate
    ensuring,  \* gitAttributesPromises: how far the promise is, and its attempt
    opening,    \* the pages
    posts,     \* the commits that are posted and may still land
    mishaps

initVars == <<history, ensured, ensuring, opening, posts, mishaps>>

NoTree == [attributes |-> FALSE, salt |-> NoSalt, manifest |-> NoSalt]
TreeAt(revision) == IF revision = 0 THEN NoTree ELSE history[revision]
Revision == Len(history)
MainTree  == TreeAt(Revision)

Salts == (Pages \X (1 .. MaxMishaps + 1)) \cup {OldSalt}
Tree  == [attributes : BOOLEAN, salt : Salts \cup {NoSalt}, manifest : Salts \cup {NoSalt}]
OpenPage == [mode : {"checking", "create", "unlock"},
          step : {"idle", "salt", "ensure", "head", "tree", "commit"},
          told : {"nothing", "ok", "unlocked", "wrong_passphrase", "failed",
                  "VAULT_STALE", "VAULT_INITIALIZED"},
          tries : 0 .. MaxMishaps + 1, salt : Salts \cup {NoSalt}, isolate : Isolates,
          head : Nat, attempt : Nat]
Post  == [by : Pages \cup Isolates, parent : Nat, salt : Salts \cup {NoSalt},
          manifest : Salts \cup {NoSalt}, awaited : BOOLEAN]

VaultInitTypeOK ==
    /\ history \in Seq(Tree)
    /\ ensured \in [Isolates -> BOOLEAN]
    /\ ensuring \in [Isolates -> [at : {"none", "list", "post"}, attempt : Nat]]
    /\ opening \in [Pages -> OpenPage]
    /\ posts \subseteq Post
    /\ mishaps \in 0 .. MaxMishaps

\* A new repository, one whose .gitattributes are there, and one where an
\* older version of the program wrote a salt and nothing else.
VaultInitInit ==
    /\ history \in {<<>>, <<[NoTree EXCEPT !.attributes = TRUE]>>,
                    <<[NoTree EXCEPT !.salt = OldSalt]>>}
    /\ ensured = [i \in Isolates |-> FALSE]
    /\ ensuring = [i \in Isolates |-> [at |-> "none", attempt |-> 0]]
    /\ opening = [p \in Pages |->
          [mode |-> "checking", step |-> "idle", told |-> "nothing", tries |-> 0,
           salt |-> NoSalt, isolate |-> CHOOSE i \in Isolates : TRUE,
           head |-> 0, attempt |-> 0]]
    /\ posts = {}
    /\ mishaps = 0

SetPage(p, page)   == opening' = [opening EXCEPT ![p] = page]
Tell(page, what) == [page EXCEPT !.step = "idle", !.told = what]

Mishap == mishaps < MaxMishaps /\ mishaps' = mishaps + 1

-----------------------------------------------------------------------------
(* The page asks for the salt when it is mounted.                          *)
Probe(p) ==
    /\ opening[p].mode = "checking"
    /\ SetPage(p, [opening[p] EXCEPT !.mode = IF MainTree.salt = NoSalt THEN "create" ELSE "unlock"])
    /\ UNCHANGED <<history, ensured, ensuring, posts, mishaps>>

Submit(p) ==
    /\ opening[p].mode # "checking" /\ opening[p].step = "idle"
    /\ opening[p].told \notin {"ok", "unlocked"}
    /\ IF opening[p].tries = 0 THEN UNCHANGED mishaps ELSE Mishap
    /\ \E i \in Isolates :
          LET n    == opening[p].tries + 1
              page == [opening[p] EXCEPT !.tries = n, !.told = "nothing", !.isolate = i]
          IN  SetPage(p, IF page.mode = "create"
                     THEN [page EXCEPT !.step = "ensure", !.salt = <<p, n>>]
                     ELSE [page EXCEPT !.step = "salt", !.salt = MainTree.salt])
    /\ UNCHANGED <<history, ensured, ensuring, posts>>

\* The vault is there, or has a salt only, which is then repaired.
ReadManifest(p) ==
    /\ opening[p].step = "salt"
    /\ SetPage(p, IF MainTree.manifest = NoSalt
              THEN [opening[p] EXCEPT !.step = "ensure"]
              ELSE Tell(opening[p], IF MainTree.manifest = opening[p].salt
                                   THEN "unlocked" ELSE "wrong_passphrase"))
    /\ UNCHANGED <<history, ensured, ensuring, posts, mishaps>>

-----------------------------------------------------------------------------
(* ensureGitAttributes: one promise of an isolate, shared by its requests. *)
BeginEnsuring(p) ==
    LET i == opening[p].isolate
    IN  /\ opening[p].step = "ensure"
        /\ ~ensured[i]
        /\ ensuring[i].at = "none"
        /\ ensuring' = [ensuring EXCEPT ![i] = [at |-> "list", attempt |-> 0]]
        /\ UNCHANGED <<history, ensured, opening, posts, mishaps>>

Ensured(p) ==
    /\ opening[p].step = "ensure"
    /\ ensured[opening[p].isolate]
    /\ SetPage(p, [opening[p] EXCEPT !.step = "head"])
    /\ UNCHANGED <<history, ensured, ensuring, posts, mishaps>>

AttributesPost(i) ==
    [by |-> i, parent |-> 0, salt |-> NoSalt, manifest |-> NoSalt, awaited |-> TRUE]

EnsuringEnds(i) == ensuring' = [ensuring EXCEPT ![i] = [at |-> "none", attempt |-> 0]]

\* The patterns are there, or are committed without a parent.
ListAttributes(i) ==
    /\ ensuring[i].at = "list"
    /\ IF MainTree.attributes
       THEN /\ ensured' = [ensured EXCEPT ![i] = TRUE]
            /\ EnsuringEnds(i)
            /\ UNCHANGED posts
       ELSE /\ ensuring' = [ensuring EXCEPT ![i].at = "post"]
            /\ posts' = posts \cup {AttributesPost(i)}
            /\ UNCHANGED ensured
    /\ UNCHANGED <<history, opening, mishaps>>

\* The promise is rejected, and with it the requests that share it.
EnsuringFails(i) ==
    /\ EnsuringEnds(i)
    /\ opening' = [p \in Pages |->
          IF opening[p].step = "ensure" /\ opening[p].isolate = i
          THEN Tell(opening[p], "failed") ELSE opening[p]]

ListFails(i) ==
    /\ ensuring[i].at = "list"
    /\ Mishap
    /\ EnsuringFails(i)
    /\ UNCHANGED <<history, ensured, posts>>

-----------------------------------------------------------------------------
(* initializeVault after the bootstrap: the head, the tree at the head.    *)
ReadHead(p) ==
    /\ opening[p].step = "head"
    /\ SetPage(p, [opening[p] EXCEPT !.step = "tree", !.head = Revision])
    /\ UNCHANGED <<history, ensured, ensuring, posts, mishaps>>

(* Mutant of ReadTree: the commit has no parent.                           *)
ReadTreeLoose(p) ==
    /\ opening[p].step = "tree"
    /\ LET tree == TreeAt(opening[p].head)
       IN  IF tree.manifest # NoSalt
           THEN SetPage(p, Tell(opening[p], "VAULT_INITIALIZED")) /\ UNCHANGED posts
           ELSE /\ SetPage(p, [opening[p] EXCEPT !.step = "commit", !.attempt = 0])
                /\ posts' = posts \cup {
                      [by |-> p, parent |-> 0, manifest |-> opening[p].salt,
                       salt |-> IF tree.salt = NoSalt THEN opening[p].salt ELSE NoSalt,
                       awaited |-> TRUE]}
    /\ UNCHANGED <<history, ensured, ensuring, mishaps>>

ReadTree(p) ==
    /\ opening[p].step = "tree"
    /\ LET tree == TreeAt(opening[p].head)
       IN  IF tree.manifest # NoSalt
           THEN SetPage(p, Tell(opening[p], "VAULT_INITIALIZED")) /\ UNCHANGED posts
           ELSE /\ SetPage(p, [opening[p] EXCEPT !.step = "commit", !.attempt = 0])
                /\ posts' = posts \cup {
                      [by |-> p, parent |-> opening[p].head, manifest |-> opening[p].salt,
                       salt |-> IF tree.salt = NoSalt THEN opening[p].salt ELSE NoSalt,
                       awaited |-> TRUE]}
    /\ UNCHANGED <<history, ensured, ensuring, mishaps>>

\* A read before the commit is refused or not answered.
ReadFails(p) ==
    /\ opening[p].step \in {"salt", "head", "tree"}
    /\ Mishap
    /\ SetPage(p, Tell(opening[p], "failed"))
    /\ UNCHANGED <<history, ensured, ensuring, posts>>

-----------------------------------------------------------------------------
(* The storage service takes a commit, if it names no parent or the head.  *)
Accepts(post) == post.parent \in {0, Revision}

Applied(post) ==
    IF post.by \in Isolates THEN [MainTree EXCEPT !.attributes = TRUE]
    ELSE [MainTree EXCEPT !.manifest = post.manifest,
                      !.salt = IF post.salt = NoSalt THEN @ ELSE post.salt]

\* postHfCommit is answered: 200, or 409.
AnswerPost(post) ==
    CASE ~post.awaited -> UNCHANGED <<ensured, ensuring, opening>>
      [] post.awaited /\ post.by \in Isolates ->
            /\ ensured' = [ensured EXCEPT ![post.by] = TRUE]
            /\ EnsuringEnds(post.by)
            /\ UNCHANGED opening
      [] OTHER ->
            /\ SetPage(post.by, Tell(opening[post.by], IF Accepts(post) THEN "ok" ELSE "VAULT_STALE"))
            /\ UNCHANGED <<ensured, ensuring>>

StoreTakes(post) ==
    /\ post \in posts
    /\ posts' = posts \ {post}
    /\ history' = IF Accepts(post) THEN Append(history, Applied(post)) ELSE history
    /\ AnswerPost(post)
    /\ UNCHANGED mishaps

LastAttempt(n) == n + 1 = MAX_COMMIT_ATTEMPTS

(* 429: the commit is not applied, and is posted again.                    *)
TooMany(post) ==
    /\ post \in posts /\ post.awaited
    /\ Mishap
    /\ IF post.by \in Isolates
       THEN IF LastAttempt(ensuring[post.by].attempt)
            THEN EnsuringFails(post.by) /\ posts' = posts \ {post}
            ELSE /\ ensuring' = [ensuring EXCEPT ![post.by].attempt = @ + 1]
                 /\ UNCHANGED <<posts, opening>>
       ELSE IF LastAttempt(opening[post.by].attempt)
            THEN /\ SetPage(post.by, Tell(opening[post.by], "failed"))
                 /\ posts' = posts \ {post}
                 /\ UNCHANGED ensuring
            ELSE /\ SetPage(post.by, [opening[post.by] EXCEPT !.attempt = @ + 1])
                 /\ UNCHANGED <<posts, ensuring>>
    /\ UNCHANGED <<history, ensured>>

(* 5xx or no answer, and the commit may still land.  One without a parent  *)
(* is posted again; one onto a parent is not.                              *)
Ambiguous(post) ==
    /\ post \in posts /\ post.awaited
    /\ Mishap
    /\ LET lost == [post EXCEPT !.awaited = FALSE]
       IN  IF post.by \in Isolates
           THEN IF LastAttempt(ensuring[post.by].attempt)
                THEN EnsuringFails(post.by) /\ posts' = (posts \ {post}) \cup {lost}
                ELSE /\ ensuring' = [ensuring EXCEPT ![post.by].attempt = @ + 1]
                     /\ posts' = posts \cup {lost}
                     /\ UNCHANGED opening
           ELSE /\ SetPage(post.by, Tell(opening[post.by], "failed"))
                /\ posts' = (posts \ {post}) \cup {lost}
                /\ UNCHANGED ensuring
    /\ UNCHANGED <<history, ensured>>

-----------------------------------------------------------------------------
PageSteps(p) ==
    ReadManifest(p) \/ BeginEnsuring(p) \/ Ensured(p) \/ ReadHead(p) \/ ReadTree(p)

VaultInitNext ==
    \/ \E p \in Pages : Probe(p) \/ Submit(p) \/ PageSteps(p) \/ ReadFails(p)
    \/ \E i \in Isolates : ListAttributes(i) \/ ListFails(i)
    \/ \E post \in posts : StoreTakes(post) \/ TooMany(post) \/ Ambiguous(post)

(* Requests run on, and the service answers a commit that is waited for.   *)
VaultInitFairness ==
    /\ \A p \in Pages : WF_initVars(PageSteps(p))
    /\ \A i \in Isolates : WF_initVars(ListAttributes(i))
    /\ WF_initVars(\E post \in posts : post.awaited /\ StoreTakes(post))

VaultInitSpec == VaultInitInit /\ [][VaultInitNext]_initVars /\ VaultInitFairness

-----------------------------------------------------------------------------
(***************************************************************************)
(* Properties.                                                             *)
(***************************************************************************)

\* A vault that was created is never created again over it: whatever posts,
\* retries and lost answers overlap, the first manifest and salt stay.
CreatedOnce ==
    \A r, later \in DOMAIN history :
        r <= later /\ history[r].manifest # NoSalt =>
            /\ history[later].manifest = history[r].manifest
            /\ history[later].salt = history[r].salt

\* The key of the manifest comes from the salt beside it, so the vault can
\* be opened again; also when it repairs a salt left by an older setup.
SaltFits ==
    \A r \in DOMAIN history : history[r].manifest \in {NoSalt, history[r].salt}

\* What a page is told is so: its own vault is there, some vault is there,
\* its own was refused for good, or its passphrase does not fit.
ToldTheTruth ==
    \A p \in Pages :
        LET page == opening[p]
        IN  /\ page.told = "ok" => MainTree.manifest = page.salt
            /\ page.told = "VAULT_INITIALIZED" => MainTree.manifest # NoSalt
            /\ page.told = "VAULT_STALE" /\ page.salt # OldSalt =>
                   /\ MainTree.manifest # page.salt
                   /\ \A post \in posts : post.manifest # page.salt
            /\ page.told # "wrong_passphrase"

VaultInitIsJust == CreatedOnce /\ SaltFits /\ ToldTheTruth
=============================================================================
