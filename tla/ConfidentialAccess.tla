------------------------- MODULE ConfidentialAccess -------------------------
(***************************************************************************)
(* The confidential-access half of PrimeServerRegistry.sol, composed with  *)
(* the storage and payment half: owners grant wallets, wallets sign access *)
(* intents that anybody may bring to the contract, and a controller        *)
(* consumes an intent once it was served.                                  *)
(*                                                                         *)
(* An intent is known by its EIP-712 digest, which stands for exactly its  *)
(* six signed fields; here the record of those fields is its own id.  A    *)
(* wallet may sign anything at any time and the signature never goes away, *)
(* so every intent is offered to authorizeConfidentialAccess in every      *)
(* state: late, early, reordered and again.                                *)
(***************************************************************************)
EXTENDS PrimeServerRegistry

CONSTANTS
  Wallets,      \* accounts that sign intents
  Controllers,  \* accounts the admin may make or unmake access controllers
  Devices,      \* commitments to a device's public key
  MaxNonce      \* bound on the nonces

ASSUME AccessAssumption ==
  /\ Wallets \subseteq Accounts
  /\ Controllers \subseteq Accounts
  /\ MaxNonce \in Nat

MaxAccessLifetime == 86400
Purposes == {"View", "Compute"}

VARIABLES
  confidentialAccessControllers, \* the accounts mapped to true
  selectedBlobWallets,           \* per blob, the wallets mapped to true
  confidentialAccessNonces,      \* <<blob, wallet>> -> next nonce
  confidentialAccessRequests,    \* the intents that exist
  consumed                       \* those whose consumed flag is set

intentVars == <<confidentialAccessNonces, confidentialAccessRequests, consumed>>
grantVars == <<confidentialAccessControllers, selectedBlobWallets>>
accessVars == <<grantVars, intentVars>>
allVars == <<vars, accessVars>>

Pairs == Blobs \X Wallets

Intents ==
  [ blob : Blobs, requester : Wallets, device : Devices, nonce : 0..MaxNonce,
    deadline : Timestamps, purpose : Purposes ]

PairOf(r) == <<r.blob, r.requester>>

AccessInit ==
  /\ Init
  /\ confidentialAccessControllers = {}
  /\ selectedBlobWallets = [b \in Blobs |-> {}]
  /\ confidentialAccessNonces = [p \in Pairs |-> 0]
  /\ confidentialAccessRequests = {}
  /\ consumed = {}
-----------------------------------------------------------------------------
SetConfidentialAccessController(controller, allowed) ==
  /\ confidentialAccessControllers' =
       IF allowed THEN confidentialAccessControllers \cup {controller}
                  ELSE confidentialAccessControllers \ {controller}
  /\ UNCHANGED <<vars, selectedBlobWallets, intentVars>>

SetBlobWalletAccess(sender, b, wallet, allowed) ==
  /\ OnlyBlobOwner(sender, b)
  /\ blobPolicies[b].accessPolicy = "SelectedWallets"
  /\ selectedBlobWallets' = [selectedBlobWallets EXCEPT ![b] =
       IF allowed THEN @ \cup {wallet} ELSE @ \ {wallet}]
  /\ UNCHANGED <<vars, confidentialAccessControllers, intentVars>>

(* _isAccessAuthorized.                                                    *)
IsAccessAuthorized(b, requester) ==
  \/ blobs[b].owner = requester
  \/ /\ blobPolicies[b].accessPolicy = "SelectedWallets"
     /\ requester \in selectedBlobWallets[b]

BlobServable(b) ==
  /\ blobs[b].exists
  /\ blobs[b].status # "Revoked"
  /\ blobs[b].expiresAt = NoExpiry \/ blobs[b].expiresAt > now

PurposeFits(b, purpose) ==
  IF blobPolicies[b].storageMode = "Confidential"
       \/ blobPolicies[b].accessPolicy = "ComputeOnly"
  THEN purpose = "Compute"
  ELSE purpose = "View"

(* Variant: an earlier nonce is accepted too.                              *)
NonceNotAhead(r) == r.nonce <= confidentialAccessNonces[PairOf(r)]

NonceIsNext(r) == r.nonce = confidentialAccessNonces[PairOf(r)]

(* The sender does not matter: the signature names the requester.          *)
AuthorizeConfidentialAccess(r) ==
  /\ BlobServable(r.blob)
  /\ blobPolicies[r.blob].storageMode # "Public"
  /\ r.deadline >= now
  /\ r.deadline <= now + MaxAccessLifetime
  /\ NonceIsNext(r)
  /\ PurposeFits(r.blob, r.purpose)
  /\ IsAccessAuthorized(r.blob, r.requester)
  /\ confidentialAccessNonces' =
       [confidentialAccessNonces EXCEPT ![PairOf(r)] = r.nonce + 1]
  /\ confidentialAccessRequests' = confidentialAccessRequests \cup {r}
  /\ consumed' = consumed \ {r}
  /\ UNCHANGED <<vars, grantVars>>

(* _isConfidentialAccessUsable.                                            *)
IsConfidentialAccessUsable(r) ==
  /\ r \in confidentialAccessRequests
  /\ r \notin consumed
  /\ r.deadline >= now
  /\ BlobServable(r.blob)
  /\ IsAccessAuthorized(r.blob, r.requester)

RecordConfidentialAccessResult(controller, r) ==
  /\ controller \in confidentialAccessControllers
  /\ IsConfidentialAccessUsable(r)
  /\ consumed' = consumed \cup {r}
  /\ UNCHANGED <<vars, grantVars, confidentialAccessNonces,
                 confidentialAccessRequests>>

GrantNext ==
  \/ \E controller \in Controllers, allowed \in BOOLEAN :
       SetConfidentialAccessController(controller, allowed)
  \/ \E sender \in Accounts, b \in Blobs, wallet \in Wallets, allowed \in BOOLEAN :
       SetBlobWalletAccess(sender, b, wallet, allowed)

IntentNext ==
  \E r \in Intents :
    \/ AuthorizeConfidentialAccess(r)
    \/ \E controller \in Controllers : RecordConfidentialAccessResult(controller, r)

RegistryNext == Next /\ UNCHANGED accessVars

AccessNext == RegistryNext \/ GrantNext \/ IntentNext

AccessSpec == AccessInit /\ [][AccessNext]_allVars
-----------------------------------------------------------------------------
(***************************************************************************)
(* Properties.                                                             *)
(***************************************************************************)

AccessTypeOK ==
  /\ TypeOK
  /\ confidentialAccessControllers \subseteq Controllers
  /\ selectedBlobWallets \in [Blobs -> SUBSET Wallets]
  /\ confidentialAccessNonces \in [Pairs -> Nat]
  /\ confidentialAccessRequests \subseteq Intents
  /\ consumed \subseteq confidentialAccessRequests

(* The abstract specification: the nonce of a pair counts what was issued  *)
(* to it, and an intent served is its nonce served.                        *)
ServedNonces ==
  [p \in Pairs |-> {r.nonce : r \in {q \in consumed : PairOf(q) = p}}]

Tickets == INSTANCE OneTimeAccess WITH
             issued <- confidentialAccessNonces, served <- ServedNonces

(* architecture.md, section 4: "The nonce prevents replay."  Intents are   *)
(* numbered without gap or repetition and each number is served at most    *)
(* once, whatever signed intents are brought again, in any order, before   *)
(* or after the one that was served (lines 315 and 326-335).               *)
AccessIsOneTime == Tickets!Spec

(* Two recorded intents of one wallet for one blob differ in their nonce,  *)
(* and none is at or past the next one, so that a digest identifies one    *)
(* authorization for ever.                                                 *)
NonceIdentifiesIntent ==
  /\ \A r \in confidentialAccessRequests :
       r.nonce < confidentialAccessNonces[PairOf(r)]
  /\ \A q, r \in confidentialAccessRequests :
       PairOf(q) = PairOf(r) /\ q.nonce = r.nonce => q = r

(* A key of a compute-only blob is never asked for by a View intent nor    *)
(* one of a private blob by a Compute intent, and nobody but the owner has *)
(* an intent unless the owner chose selected wallets: mode and policy of a *)
(* blob do not change under its recorded intents (lines 308 and 316-321).  *)
IntentsFitPolicy ==
  \A r \in confidentialAccessRequests :
    LET policy == blobPolicies[r.blob]
    IN  /\ blobs[r.blob].exists
        /\ policy.storageMode # "Public"
        /\ r.purpose = "Compute" <=> policy.storageMode = "Confidential"
        /\ policy.accessPolicy # "SelectedWallets" => r.requester = blobs[r.blob].owner
=============================================================================
