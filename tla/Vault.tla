-------------------------------- MODULE Vault --------------------------------
(***************************************************************************)
(* What the vault promises its owner, whatever number of devices and tabs  *)
(* change it: one collection of media, which a step either extends with    *)
(* media it did not hold or reduces by one medium it did hold, and a       *)
(* revision number that counts those steps.  Nothing else ever happens to  *)
(* the collection: no update is lost, none is applied twice.               *)
(***************************************************************************)
EXTENDS Naturals

CONSTANTS Media,         \* media identities
          InitialMedia   \* media in the vault at the start

VARIABLES files,      \* media the vault holds
          revision    \* manifest revision

vaultVars == <<files, revision>>

VaultInit ==
    /\ files = InitialMedia
    /\ revision = 0

\* A group of new media appears at once, with everything needed to open them.
Publish ==
    \E new \in (SUBSET Media) \ {{}} :
        /\ new \cap files = {}
        /\ files' = files \cup new
        /\ revision' = revision + 1

Remove ==
    \E m \in files :
        /\ files' = files \ {m}
        /\ revision' = revision + 1

VaultNext == Publish \/ Remove

VaultSpec == VaultInit /\ [][VaultNext]_vaultVars
=============================================================================
