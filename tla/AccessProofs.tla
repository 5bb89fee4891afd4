---------------------------- MODULE AccessProofs ----------------------------
(***************************************************************************)
(* Proofs about ConfidentialAccess.  The intents never disturb the         *)
(* registry, so everything proved of PrimeServerRegistry holds of the      *)
(* composition; and they implement OneTimeAccess.                          *)
(***************************************************************************)
EXTENDS ConfidentialAccess, RegistryProofs

-----------------------------------------------------------------------------
(* What the registry's own steps mean for access.                          *)

(* A blob's owner and policy are settled at its registration.              *)
OwnerKept(b) ==
  blobs[b].exists => /\ blobs'[b].owner = blobs[b].owner
                     /\ blobPolicies'[b] = blobPolicies[b]

(* Compute-only and confidential go together, and a blob that is not       *)
(* public is registered and expires.                                       *)
PolicySound(b) ==
  /\ blobPolicies[b].accessPolicy = "ComputeOnly"
       <=> blobPolicies[b].storageMode = "Confidential"
  /\ blobPolicies[b].storageMode # "Public" =>
       blobs[b].exists /\ blobs[b].expiresAt # NoExpiry

PoliciesSound == \A b \in Blobs : PolicySound(b)

(* Every step of the registry keeps owners and policies: only a            *)
(* registration writes them, and only those of an unregistered id.         *)
LEMMA OwnersKept ==
  ASSUME Typed, [Next]_vars, NEW b \in Blobs
  PROVE  OwnerKept(b)
<1>1. blobs \in [Blobs -> BlobRecords]
  BY DEF Typed
<1>2. ASSUME UNCHANGED <<blobs, blobPolicies>> PROVE OwnerKept(b)
  BY <1>2 DEF OwnerKept
<1>3. ASSUME NEW c \in Blobs, UNCHANGED blobPolicies,
             \/ \E st \in BlobStatuses : blobs' = [blobs EXCEPT ![c].status = st]
             \/ blobs' = [blobs EXCEPT ![c].acknowledgementCount = @ + 1]
      PROVE  OwnerKept(b)
  BY <1>1, <1>3 DEF OwnerKept, BlobRecords
<1>4. ASSUME NEW owner, NEW c \in Blobs, NEW name, NEW n, NEW e, NEW origin,
             CreateBlobRecord(owner, c, name, n, e, origin),
             \/ UNCHANGED blobPolicies
             \/ \E policy : blobPolicies' = [blobPolicies EXCEPT ![c] = policy]
      PROVE  OwnerKept(b)
  <2>1. blobs[b].exists => c # b
    BY <1>4 DEF CreateBlobRecord, MayCreateRecord
  <2>2. blobs[b].exists => blobs'[b] = blobs[b]
    BY <1>1, <1>4, <2>1 DEF CreateBlobRecord
  <2>3. blobs[b].exists => blobPolicies'[b] = blobPolicies[b]
    BY <1>4, <2>1 DEF Typed
  <2> QED
    BY <2>2, <2>3 DEF OwnerKept
<1>5. UNCHANGED vars => OwnerKept(b)
  BY <1>2 DEF vars
<1>6. AdminNext => OwnerKept(b)
  BY <1>2 DEF AdminNext, SetCoordinator, SetNativePricing, WithdrawProtocolFees
<1>7. ProviderNext => OwnerKept(b)
  <2>1. ASSUME NEW sender \in Operators, NEW c \in Blobs, NEW s \in Shards,
               AcknowledgeShard(sender, c, s)
        PROVE  OwnerKept(b)
    BY <1>2, <1>3, <2>1 DEF AcknowledgeShard
  <2>2. ASSUME NEW sender \in Operators,
               \/ RegisterProvider(sender)
               \/ \E p \in ProviderIds, active \in BOOLEAN :
                    SetProviderStatus(sender, p, active)
               \/ \E c \in Blobs, claimed \in SUBSET Shards :
                    ClaimProviderSettlement(sender, c, claimed)
        PROVE  OwnerKept(b)
    <3>1. UNCHANGED <<blobs, blobPolicies>>
      BY <2>2 DEF RegisterProvider, SetProviderStatus, ClaimProviderSettlement
    <3> QED
      BY <1>2, <3>1
  <2> QED
    BY <2>1, <2>2 DEF ProviderNext
<1>8. RegistrationNext => OwnerKept(b)
  <2>1. ASSUME NEW sender \in Accounts, NEW c \in Blobs, NEW name \in NameChoices,
               NEW n \in ShardCounts, NEW e \in Expiries,
               CreateBlob(sender, c, name, n, e) \/ CreateOperatorBlob(sender, c, name, n, e)
        PROVE  OwnerKept(b)
    BY <1>4, <2>1 DEF CreateBlob, CreateOperatorBlob
  <2>2. ASSUME NEW sender \in Accounts, NEW c \in Blobs, NEW name \in NameChoices,
               NEW n \in ShardCounts, NEW e \in Expiries, NEW policy \in Policies,
               NEW size \in Sizes, NEW tender \in Tenders,
               CreateBlobPaid(sender, c, name, n, e, policy, size, tender)
        PROVE  OwnerKept(b)
    BY <1>4, <2>2 DEF CreateBlobPaid
  <2> QED
    BY <2>1, <2>2 DEF RegistrationNext
<1>9. ControllerNext => OwnerKept(b)
  <2>1. ASSUME NEW sender \in Accounts, NEW c \in Blobs,
               \/ FinalizeBlob(sender, c)
               \/ \E s \in Shards : StartRecovery(sender, c, s)
               \/ \E s \in Shards, p \in ProviderIds : RecordRebuiltShard(sender, c, s, p)
        PROVE  OwnerKept(b)
    <3>1. /\ UNCHANGED blobPolicies
          /\ \E st \in BlobStatuses : blobs' = [blobs EXCEPT ![c].status = st]
      BY <2>1 DEF FinalizeBlob, StartRecovery, RecordRebuiltShard, BlobStatuses
    <3> QED
      BY <1>3, <3>1
  <2>2. ASSUME NEW sender \in Accounts, NEW c \in Blobs,
               \/ RefundPaidBlob(sender, c)
               \/ \E s \in Shards, p \in ProviderIds :
                    AssignShard(sender, c, s, p) \/ ReassignShard(sender, c, s, p)
        PROVE  OwnerKept(b)
    BY <1>2, <2>2 DEF RefundPaidBlob, AssignShard, ReassignShard
  <2> QED
    BY <2>1, <2>2 DEF ControllerNext
<1>10. (\E t \in Timestamps : Tick(t)) => OwnerKept(b)
  BY <1>2 DEF Tick
<1> QED
  BY <1>5, <1>6, <1>7, <1>8, <1>9, <1>10 DEF Next

(* A policy is written by a paid registration alone.                       *)
LEMMA PolicyWrites ==
  ASSUME [Next]_vars
  PROVE  \/ UNCHANGED blobPolicies
         \/ \E sender \in Accounts, b \in Blobs, name \in NameChoices,
               n \in ShardCounts, e \in Expiries, policy \in Policies,
               size \in Sizes, tender \in Tenders :
              CreateBlobPaid(sender, b, name, n, e, policy, size, tender)
<1> DEFINE Paid == \E sender \in Accounts, b \in Blobs, name \in NameChoices,
                     n \in ShardCounts, e \in Expiries, policy \in Policies,
                     size \in Sizes, tender \in Tenders :
                     CreateBlobPaid(sender, b, name, n, e, policy, size, tender)
<1>1. UNCHANGED vars \/ AdminNext \/ (\E t \in Timestamps : Tick(t))
        => UNCHANGED blobPolicies
  BY DEF vars, AdminNext, SetCoordinator, SetNativePricing, WithdrawProtocolFees, Tick
<1>2. ProviderNext => UNCHANGED blobPolicies
  <2>1. ASSUME NEW sender \in Operators,
               \/ RegisterProvider(sender)
               \/ \E p \in ProviderIds, active \in BOOLEAN :
                    SetProviderStatus(sender, p, active)
        PROVE  UNCHANGED blobPolicies
    BY <2>1 DEF RegisterProvider, SetProviderStatus
  <2>2. ASSUME NEW sender \in Operators, NEW b \in Blobs, NEW s \in Shards,
               AcknowledgeShard(sender, b, s)
        PROVE  UNCHANGED blobPolicies
    BY <2>2 DEF AcknowledgeShard
  <2>3. ASSUME NEW sender \in Operators, NEW b \in Blobs, NEW claimed \in SUBSET Shards,
               ClaimProviderSettlement(sender, b, claimed)
        PROVE  UNCHANGED blobPolicies
    BY <2>3 DEF ClaimProviderSettlement
  <2> QED
    BY <2>1, <2>2, <2>3 DEF ProviderNext
<1>3. RegistrationNext => UNCHANGED blobPolicies \/ Paid
  BY DEF RegistrationNext, CreateBlob, CreateOperatorBlob
<1>4. ControllerNext => UNCHANGED blobPolicies
  BY DEF ControllerNext, FinalizeBlob, RefundPaidBlob, StartRecovery, AssignShard,
         ReassignShard, RecordRebuiltShard
<1> HIDE DEF Paid
<1>5. UNCHANGED blobPolicies \/ Paid
  BY <1>1, <1>2, <1>3, <1>4 DEF Next
<1> QED
  BY <1>5 DEF Paid

(* Policies stay sound: _validatePolicy and the expiry a paid registration *)
(* must name are all that is needed.                                       *)
LEMMA PoliciesSoundStep ==
  ASSUME Typed, PoliciesSound, [Next]_vars
  PROVE  PoliciesSound'
<1> SUFFICES ASSUME NEW b \in Blobs PROVE PolicySound(b)'
  BY DEF PoliciesSound
<1>1. BlobKept(b) /\ PolicySound(b)
  BY RecordsKept DEF PoliciesSound
<1>2. CASE UNCHANGED blobPolicies
  BY <1>1, <1>2 DEF BlobKept, PolicySound
<1>3. ASSUME NEW sender \in Accounts, NEW c \in Blobs, NEW name \in NameChoices,
             NEW n \in ShardCounts, NEW e \in Expiries, NEW policy \in Policies,
             NEW size \in Sizes, NEW tender \in Tenders,
             CreateBlobPaid(sender, c, name, n, e, policy, size, tender)
      PROVE  PolicySound(b)'
  <2>1. CASE c # b
    <3>1. blobPolicies'[b] = blobPolicies[b]
      BY <1>3, <2>1 DEF CreateBlobPaid, Typed
    <3> QED
      BY <1>1, <3>1 DEF BlobKept, PolicySound
  <2>2. CASE c = b
    <3>1. blobPolicies'[b] = policy /\ ValidPolicy(policy) /\ e > now
      BY <1>3, <2>2 DEF CreateBlobPaid, Typed
    <3>2. blobs'[b].exists /\ blobs'[b].expiresAt = e
      BY <1>3, <2>2 DEF CreateBlobPaid, CreateBlobRecord, Typed
    <3>3. e # NoExpiry
      BY <3>1, DataAssumption DEF Typed, NoExpiry
    <3> QED
      BY <3>1, <3>2, <3>3 DEF PolicySound, ValidPolicy
  <2> QED
    BY <2>1, <2>2
<1> QED
  BY <1>2, <1>3, PolicyWrites
-----------------------------------------------------------------------------
(* The composition.                                                        *)

(* A step of the composition is a step of the registry or leaves it alone. *)
LEMMA RegistryStep == [AccessNext]_allVars => [Next]_vars
BY DEF AccessNext, RegistryNext, GrantNext, IntentNext, allVars,
       SetConfidentialAccessController, SetBlobWalletAccess,
       AuthorizeConfidentialAccess, RecordConfidentialAccessResult

(* The contract with its access functions is the registry: whatever is     *)
(* proved of Spec, solvency among it, holds with intents in between.       *)
THEOREM RegistryUndisturbed == AccessSpec => Spec
<1>1. AccessInit => Init
  BY DEF AccessInit
<1> QED
  BY <1>1, RegistryStep, PTL DEF AccessSpec, Spec

AccessTyped ==
  /\ confidentialAccessControllers \subseteq Controllers
  /\ selectedBlobWallets \in [Blobs -> SUBSET Wallets]
  /\ confidentialAccessNonces \in [Pairs -> Nat]
  /\ confidentialAccessRequests \subseteq Intents
  /\ consumed \subseteq confidentialAccessRequests

AInv == AccessTyped /\ PoliciesSound /\ NonceIdentifiesIntent /\ IntentsFitPolicy

(* The constructor leaves no intent.                                       *)
LEMMA AccessStart == AccessInit => AInv
<1> SUFFICES ASSUME AccessInit PROVE AInv
  OBVIOUS
<1>1. AccessTyped
  BY DEF AccessInit, AccessTyped
<1>2. PoliciesSound
  BY DEF AccessInit, Init, PoliciesSound, PolicySound, DefaultPolicy
<1> QED
  BY <1>1, <1>2 DEF AInv, AccessInit, NonceIdentifiesIntent, IntentsFitPolicy

(* What authorizeConfidentialAccess does to the numbering of a pair.       *)
LEMMA AuthorizeKeeps ==
  ASSUME Typed, AInv, NEW r \in Intents, AuthorizeConfidentialAccess(r)
  PROVE  AInv'
<1>1. PairOf(r) \in Pairs /\ r.nonce \in Nat
  BY AccessAssumption DEF Intents, Pairs, PairOf
<1>2. /\ confidentialAccessNonces' =
            [confidentialAccessNonces EXCEPT ![PairOf(r)] = r.nonce + 1]
      /\ confidentialAccessRequests' = confidentialAccessRequests \cup {r}
      /\ consumed' = consumed \ {r}
      /\ r.nonce = confidentialAccessNonces[PairOf(r)]
      /\ UNCHANGED <<vars, grantVars>>
  BY DEF AuthorizeConfidentialAccess, NonceIsNext
<1>3. AccessTyped'
  BY <1>1, <1>2 DEF AInv, AccessTyped, grantVars
<1>4. PoliciesSound'
  BY <1>2 DEF AInv, PoliciesSound, PolicySound, vars
<1>5. NonceIdentifiesIntent'
  <2>1. \A q \in confidentialAccessRequests :
          /\ q \in Intents /\ PairOf(q) \in Pairs
          /\ q.nonce \in Nat /\ q.nonce < confidentialAccessNonces[PairOf(q)]
    <3>1. \A q \in Intents : PairOf(q) \in Pairs /\ q.nonce \in Nat
      BY AccessAssumption DEF Intents, Pairs, PairOf
    <3>2. confidentialAccessRequests \subseteq Intents
      BY DEF AInv, AccessTyped
    <3> QED
      BY <3>1, <3>2 DEF AInv, NonceIdentifiesIntent
  <2>2. confidentialAccessNonces \in [Pairs -> Nat]
    BY DEF AInv, AccessTyped
  <2>3. \A q \in confidentialAccessRequests' :
          q.nonce < confidentialAccessNonces'[PairOf(q)]
    <3> SUFFICES ASSUME NEW q \in confidentialAccessRequests'
                 PROVE  q.nonce < confidentialAccessNonces'[PairOf(q)]
      OBVIOUS
    <3>1. CASE q = r
      BY <1>1, <1>2, <2>2, <3>1
    <3>2. CASE q \in confidentialAccessRequests /\ PairOf(q) = PairOf(r)
      BY <1>1, <1>2, <2>1, <2>2, <3>2
    <3>3. CASE q \in confidentialAccessRequests /\ PairOf(q) # PairOf(r)
      BY <1>1, <1>2, <2>1, <2>2, <3>3
    <3> QED
      BY <1>2, <3>1, <3>2, <3>3
  <2>4. ASSUME NEW q \in confidentialAccessRequests, PairOf(q) = PairOf(r)
        PROVE  q.nonce # r.nonce
    BY <1>1, <1>2, <2>1, <2>4
  <2>5. \A q, p \in confidentialAccessRequests' :
          PairOf(q) = PairOf(p) /\ q.nonce = p.nonce => q = p
    BY <1>2, <2>4 DEF AInv, NonceIdentifiesIntent
  <2> QED
    BY <2>3, <2>5 DEF NonceIdentifiesIntent, PairOf
<1>6. IntentsFitPolicy'
  <2>1. /\ blobs[r.blob].exists
        /\ blobPolicies[r.blob].storageMode # "Public"
        /\ PurposeFits(r.blob, r.purpose)
        /\ IsAccessAuthorized(r.blob, r.requester)
        /\ r.blob \in Blobs /\ r.purpose \in Purposes
    BY DEF AuthorizeConfidentialAccess, BlobServable, Intents
  <2>2. PolicySound(r.blob)
    BY <2>1 DEF AInv, PoliciesSound
  <2>3. /\ r.purpose = "Compute" <=> blobPolicies[r.blob].storageMode = "Confidential"
        /\ blobPolicies[r.blob].accessPolicy # "SelectedWallets"
             => r.requester = blobs[r.blob].owner
    BY <2>1, <2>2 DEF PolicySound, PurposeFits, IsAccessAuthorized, Purposes
  <2> QED
    BY <1>2, <2>1, <2>3 DEF AInv, IntentsFitPolicy, vars
<1> QED
  BY <1>3, <1>4, <1>5, <1>6 DEF AInv

(* AInv is inductive over the registry's invariant.                        *)
LEMMA AccessInductive == IInv /\ AInv /\ [AccessNext]_allVars => AInv'
<1> SUFFICES ASSUME Typed, AInv, [AccessNext]_allVars PROVE AInv'
  BY DEF IInv
<1>1. CASE UNCHANGED allVars
  BY <1>1 DEF allVars, accessVars, intentVars, grantVars, vars, AInv, AccessTyped,
              PoliciesSound, PolicySound, NonceIdentifiesIntent, IntentsFitPolicy
<1>2. CASE RegistryNext
  <2>1. PoliciesSound'
    BY <1>2, PoliciesSoundStep DEF RegistryNext, AInv
  <2>2. \A b \in Blobs : OwnerKept(b) /\ BlobKept(b)
    BY <1>2, OwnersKept, RecordsKept DEF RegistryNext
  <2>3. UNCHANGED accessVars
    BY <1>2 DEF RegistryNext
  <2>4. IntentsFitPolicy'
    <3> SUFFICES ASSUME NEW r \in confidentialAccessRequests'
                 PROVE  LET policy == blobPolicies'[r.blob]
                        IN  /\ blobs'[r.blob].exists
                            /\ policy.storageMode # "Public"
                            /\ r.purpose = "Compute" <=> policy.storageMode = "Confidential"
                            /\ policy.accessPolicy # "SelectedWallets"
                                 => r.requester = blobs'[r.blob].owner
      BY DEF IntentsFitPolicy
    <3>1. r \in confidentialAccessRequests /\ r.blob \in Blobs
      BY <2>3 DEF accessVars, intentVars, AInv, AccessTyped, Intents
    <3>2. OwnerKept(r.blob) /\ BlobKept(r.blob)
      BY <2>2, <3>1
    <3> QED
      BY <3>1, <3>2 DEF AInv, IntentsFitPolicy, OwnerKept, BlobKept
  <2> QED
    BY <2>1, <2>3, <2>4 DEF AInv, AccessTyped, NonceIdentifiesIntent, accessVars,
                            intentVars, grantVars
<1>3. ASSUME NEW controller \in Controllers, NEW allowed \in BOOLEAN,
             SetConfidentialAccessController(controller, allowed)
      PROVE  AInv'
  BY <1>3 DEF SetConfidentialAccessController, intentVars, vars, AInv, AccessTyped,
              PoliciesSound, PolicySound, NonceIdentifiesIntent, IntentsFitPolicy
<1>4. ASSUME NEW sender \in Accounts, NEW b \in Blobs, NEW wallet \in Wallets,
             NEW allowed \in BOOLEAN, SetBlobWalletAccess(sender, b, wallet, allowed)
      PROVE  AInv'
  <2>1. AccessTyped'
    BY <1>4 DEF SetBlobWalletAccess, intentVars, AInv, AccessTyped
  <2> QED
    BY <1>4, <2>1 DEF SetBlobWalletAccess, intentVars, vars, AInv,
                PoliciesSound, PolicySound, NonceIdentifiesIntent, IntentsFitPolicy
<1>5. ASSUME NEW r \in Intents, NEW controller \in Controllers,
             RecordConfidentialAccessResult(controller, r)
      PROVE  AInv'
  <2>1. AccessTyped'
    BY <1>5 DEF RecordConfidentialAccessResult, IsConfidentialAccessUsable, grantVars,
                AInv, AccessTyped
  <2> QED
    BY <1>5, <2>1 DEF RecordConfidentialAccessResult, grantVars, vars, AInv,
                PoliciesSound, PolicySound, NonceIdentifiesIntent, IntentsFitPolicy
<1> QED
  BY <1>1, <1>2, <1>3, <1>4, <1>5, AuthorizeKeeps DEF AccessNext, GrantNext, IntentNext

(* IInv and AInv hold of the composition.                                  *)
THEOREM AccessInvariance == AccessSpec => [](IInv /\ AInv)
<1>1. AccessSpec => []IInv
  BY RegistryUndisturbed, Invariance, PTL
<1> QED
  BY <1>1, AccessStart, AccessInductive, PTL DEF AccessSpec

(* The types of both halves, the consumed intents being recorded ones.     *)
THEOREM AccessTypeCorrect == AccessSpec => []AccessTypeOK
<1>1. AccessSpec => []TypeOK
  BY RegistryUndisturbed, TypeCorrect, PTL
<1>2. TypeOK /\ AInv => AccessTypeOK
  BY DEF AInv, AccessTyped, AccessTypeOK
<1> QED
  BY <1>1, <1>2, AccessInvariance, PTL

(* A digest stands for one authorization for ever.                         *)
THEOREM NonceIdentifies == AccessSpec => []NonceIdentifiesIntent
BY AccessInvariance, PTL DEF AInv

(* Recorded intents fit the mode and the policy of their blob.             *)
THEOREM IntentsFit == AccessSpec => []IntentsFitPolicy
BY AccessInvariance, PTL DEF AInv

-----------------------------------------------------------------------------
(* The intents implement OneTimeAccess.                                    *)

(* An intent not yet recorded under the next nonce is a new one.           *)
LEMMA IssueStep ==
  ASSUME AInv, NEW r \in Intents, AuthorizeConfidentialAccess(r)
  PROVE  Tickets!Issue(PairOf(r))
<1>1. r.nonce = confidentialAccessNonces[PairOf(r)]
  BY DEF AuthorizeConfidentialAccess, NonceIsNext
<1>2. PairOf(r) \in Pairs /\ r.nonce \in Nat
  BY AccessAssumption DEF Intents, Pairs, PairOf
<1>3. r \notin consumed
  BY <1>1, <1>2 DEF AInv, AccessTyped, NonceIdentifiesIntent
<1>4. consumed' = consumed
  BY <1>3 DEF AuthorizeConfidentialAccess
<1>5. ServedNonces' = ServedNonces
  BY <1>4 DEF ServedNonces
<1>6. confidentialAccessNonces' =
        [confidentialAccessNonces EXCEPT ![PairOf(r)] = @ + 1]
  BY <1>1 DEF AuthorizeConfidentialAccess
<1> QED
  BY <1>5, <1>6 DEF Tickets!Issue

(* A result is recorded under a nonce given out and not yet served.        *)
LEMMA ServeStep ==
  ASSUME AInv, NEW r \in Intents, NEW controller,
         RecordConfidentialAccessResult(controller, r)
  PROVE  /\ r.nonce \in 0..(confidentialAccessNonces[PairOf(r)] - 1)
         /\ Tickets!Serve(PairOf(r), r.nonce)
<1>1. /\ r \in confidentialAccessRequests /\ r \notin consumed
      /\ consumed' = consumed \cup {r}
      /\ confidentialAccessNonces' = confidentialAccessNonces
  BY DEF RecordConfidentialAccessResult, IsConfidentialAccessUsable
<1>2. /\ PairOf(r) \in Pairs /\ r.nonce \in Nat
      /\ confidentialAccessNonces \in [Pairs -> Nat]
      /\ consumed \subseteq confidentialAccessRequests
  BY AccessAssumption DEF Intents, Pairs, PairOf, AInv, AccessTyped
<1>3. r.nonce \in 0..(confidentialAccessNonces[PairOf(r)] - 1)
  <2>1. r.nonce < confidentialAccessNonces[PairOf(r)]
    BY <1>1 DEF AInv, NonceIdentifiesIntent
  <2> QED
    BY <1>2, <2>1
<1>4. r.nonce \notin ServedNonces[PairOf(r)]
  <2>1. \A q \in consumed : PairOf(q) = PairOf(r) /\ q.nonce = r.nonce => q = r
    BY <1>1, <1>2 DEF AInv, NonceIdentifiesIntent
  <2> QED
    BY <1>1, <1>2, <2>1 DEF ServedNonces
<1>5. ServedNonces' = [ServedNonces EXCEPT ![PairOf(r)] = @ \cup {r.nonce}]
  <2> DEFINE Of(set, p) == {q.nonce : q \in {x \in set : PairOf(x) = p}}
  <2>1. ASSUME NEW p \in Pairs, p # PairOf(r) PROVE Of(consumed \cup {r}, p) = Of(consumed, p)
    BY <2>1
  <2>2. Of(consumed \cup {r}, PairOf(r)) = Of(consumed, PairOf(r)) \cup {r.nonce}
    OBVIOUS
  <2>3. /\ ServedNonces = [p \in Pairs |-> Of(consumed, p)]
        /\ ServedNonces' = [p \in Pairs |-> Of(consumed \cup {r}, p)]
    BY <1>1 DEF ServedNonces, PairOf
  <2> HIDE DEF Of
  <2> QED
    BY <1>2, <2>1, <2>2, <2>3
<1> QED
  BY <1>1, <1>3, <1>4, <1>5 DEF Tickets!Serve

(* architecture.md: the nonce prevents replay.  The contract implements    *)
(* the abstract numbering: every intent of a wallet has its own number,    *)
(* and each is served at most once.                                        *)
THEOREM OneTime == AccessSpec => AccessIsOneTime
<1>1. AccessInit => Tickets!Init
  BY DEF AccessInit, Tickets!Init, ServedNonces
<1>2. AInv /\ [AccessNext]_allVars
        => [Tickets!Next]_<<confidentialAccessNonces, ServedNonces>>
  <2> SUFFICES ASSUME AInv, [AccessNext]_allVars
               PROVE  [Tickets!Next]_<<confidentialAccessNonces, ServedNonces>>
    OBVIOUS
  <2>1. CASE UNCHANGED intentVars
    <3>1. ServedNonces' = ServedNonces
      BY <2>1 DEF intentVars, ServedNonces
    <3> QED
      BY <2>1, <3>1 DEF intentVars
  <2>2. CASE RegistryNext \/ GrantNext \/ UNCHANGED allVars
    <3>1. UNCHANGED intentVars
      BY <2>2 DEF RegistryNext, GrantNext, allVars, accessVars,
                  SetConfidentialAccessController, SetBlobWalletAccess
    <3> QED
      BY <2>1, <3>1
  <2>3. ASSUME NEW r \in Intents, AuthorizeConfidentialAccess(r) PROVE Tickets!Next
    BY <2>3, IssueStep, AccessAssumption DEF Tickets!Next, Intents, Pairs, PairOf
  <2>4. ASSUME NEW r \in Intents, NEW controller \in Controllers,
               RecordConfidentialAccessResult(controller, r)
        PROVE  Tickets!Next
    BY <2>4, ServeStep, AccessAssumption DEF Tickets!Next, Intents, Pairs, PairOf
  <2> QED
    BY <2>2, <2>3, <2>4 DEF AccessNext, IntentNext
<1> QED
  BY <1>1, <1>2, AccessInvariance, PTL DEF AccessSpec, AccessIsOneTime, Tickets!Spec
=============================================================================
