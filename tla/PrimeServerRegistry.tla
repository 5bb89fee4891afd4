------------------------ MODULE PrimeServerRegistry ------------------------
(***************************************************************************)
(* The on-chain coordination contract, contracts/src/                      *)
(* PrimeServerRegistry.sol: providers, blob registration, shard placement, *)
(* acknowledgement, finalization, recovery, and the native payment that is *)
(* escrowed at registration, paid out shard by shard and refunded when the *)
(* blob was never finalized.  Confidential access, the contract's other    *)
(* half, is module ConfidentialAccess.                                     *)
(*                                                                         *)
(* A transaction is one atomic step, `MayX' the requirements of X, which   *)
(* an estimate of its gas finds out too.  Every function of the contract   *)
(* writes all of its state before it sends value, so a callee that calls   *)
(* back sees the state after the step, and its call is simply the next     *)
(* step; a transfer that fails reverts the whole transaction and changes   *)
(* nothing.                                                                *)
(*                                                                         *)
(* Commitments, endpoints, sizes on file and signing keys are opaque to    *)
(* the contract (it checks them for zero and stores them); they are left   *)
(* out, and the inputs enumerated are the ones that pass those checks.     *)
(***************************************************************************)
EXTENDS NativeQuote, Totals, FiniteSets

CONSTANTS
  Accounts,      \* addresses other than address(0)
  Admin,         \* the deployer
  Operators,     \* accounts that may register a provider
  Delegates,     \* accounts the admin may make or unmake coordinators
  NumBlobs,      \* blob ids are 1..NumBlobs, and 0 is bytes32(0)
  MaxShards,     \* the largest totalShards a registration asks for
  MaxProviders,  \* bound on nextProviderId
  Names,         \* blob names that pass the length and slash checks
  NoName,        \* the empty name
  Sizes,         \* blob sizes a paid registration may declare
  Pricings,      \* [rate, feeBps] pairs the admin may set
  DefaultPricing,\* the pair the contract is deployed with
  Policies,      \* [storageMode, accessPolicy] pairs a registration may ask for
  Tenders,       \* how far msg.value may lie from the quoted total
  Timestamps     \* values block.timestamp may take, and expiries

NoAccount == "address(0)"

ASSUME AccountsAssumption ==
  /\ Admin \in Accounts
  /\ NoAccount \notin Accounts
  /\ Operators \subseteq Accounts
  /\ Delegates \subseteq Accounts

ASSUME BoundsAssumption ==
  /\ NumBlobs \in Nat
  /\ MaxShards \in Nat \ {0}
  /\ MaxProviders \in Nat

ASSUME NamesAssumption == NoName \notin Names

AccessPolicies == {"OwnerOnly", "SelectedWallets", "ComputeOnly"}

(* setNativePricing refuses a zero rate and a fee above 100%.              *)
IsPricing(p) ==
  /\ p \in [rate : Nat, feeBps : Nat]
  /\ p.rate > 0
  /\ p.feeBps <= BpsDenominator

ASSUME DataAssumption ==
  /\ Sizes \subseteq Nat \ {0}
  /\ \A p \in Pricings : p \in [rate : Nat, feeBps : Nat]
  /\ IsPricing(DefaultPricing)
  /\ Policies \subseteq [storageMode : StorageModes, accessPolicy : AccessPolicies]
  /\ Tenders \subseteq Int
  /\ Timestamps \subseteq Nat \ {0}
  /\ Timestamps # {}

Blobs == 1..NumBlobs
NoBlob == 0
Shards == 0..(MaxShards - 1)
ProviderIds == 1..MaxProviders
NoProvider == 0        \* also GLOBAL_SETTLEMENT_PROVIDER_ID
NoExpiry == 0

BlobStatuses == {"Pending", "Active", "Recovering", "Rebuilt", "Revoked"}
BlobOrigins == {"User", "Operator"}
PaymentStatuses ==
  {"None", "Escrowed", "Claimable", "PartiallySettled", "Settled", "Refunded"}

VARIABLES
  now,                       \* block.timestamp
  balance,                   \* address(this).balance
  coordinators,              \* the accounts mapped to true
  pricing,                   \* nativeRatePerMiBPerShard and protocolFeeBps
  withdrawableProtocolFees,
  nextProviderId,
  providers,                 \* provider id -> operator and active flag
  providerIdByOperator,
  blobs,
  blobNames,
  blobIdByOwnerName,         \* blobIdByOwnerNameHash
  blobPolicies,
  blobPayments,
  placement,
  acknowledgements,          \* per blob, the <<provider, shard>> pairs that exist
  providerSettlementClaimed, \* per blob, the shards whose global marker is set
  providerReserveClaimed

providerVars == <<nextProviderId, providers, providerIdByOperator>>
adminVars == <<coordinators, pricing>>
nameVars == <<blobNames, blobIdByOwnerName>>
claimVars == <<providerSettlementClaimed, providerReserveClaimed>>
moneyVars == <<balance, withdrawableProtocolFees, blobPayments, claimVars>>
storageVars == <<placement, acknowledgements>>
vars == <<now, adminVars, providerVars, blobs, nameVars, blobPolicies,
          storageVars, moneyVars>>

UnregisteredProvider == [operator |-> NoAccount, active |-> FALSE]

UnregisteredBlob ==
  [ exists |-> FALSE, owner |-> NoAccount, totalShards |-> 0,
    acknowledgementCount |-> 0, status |-> "Pending", expiresAt |-> NoExpiry,
    origin |-> "User" ]

DefaultPolicy == [storageMode |-> "Public", accessPolicy |-> "OwnerOnly"]

NoPayment ==
  [ status |-> "None", payer |-> NoAccount, totalPaid |-> 0, providerPool |-> 0,
    providerRewardPerShard |-> 0, protocolFee |-> 0, providerSettled |-> 0 ]

(* The constructor: the deployer is admin and first coordinator.           *)
Init ==
  /\ now \in Timestamps
  /\ balance = 0
  /\ coordinators = {Admin}
  /\ pricing = DefaultPricing
  /\ withdrawableProtocolFees = 0
  /\ nextProviderId = 1
  /\ providers = [p \in ProviderIds |-> UnregisteredProvider]
  /\ providerIdByOperator = [a \in Accounts |-> NoProvider]
  /\ blobs = [b \in Blobs |-> UnregisteredBlob]
  /\ blobNames = [b \in Blobs |-> NoName]
  /\ blobIdByOwnerName = [a \in Accounts |-> [n \in Names |-> NoBlob]]
  /\ blobPolicies = [b \in Blobs |-> DefaultPolicy]
  /\ blobPayments = [b \in Blobs |-> NoPayment]
  /\ placement = [b \in Blobs |-> [s \in Shards |-> NoProvider]]
  /\ acknowledgements = [b \in Blobs |-> {}]
  /\ providerSettlementClaimed = [b \in Blobs |-> {}]
  /\ providerReserveClaimed = [b \in Blobs |-> {}]
-----------------------------------------------------------------------------
(* Modifiers and small views.                                              *)

OnlyUser(sender) == sender \notin coordinators

OnlyCoordinator(sender) == sender \in coordinators

OnlyBlobOwner(sender, b) == blobs[b].exists /\ blobs[b].owner = sender

OnlyBlobOwnerOrCoordinator(sender, b) ==
  /\ blobs[b].exists
  /\ blobs[b].owner = sender \/ sender \in coordinators

(* providers[providerId].active, which is false for an id never assigned.  *)
ProviderActive(p) == p \in ProviderIds /\ providers[p].active

ShardsOf(b) == {s \in Shards : s < blobs[b].totalShards}

(* The part of a shard's gross reward that waits for the expiry.           *)
ReserveOf(b) ==
  blobPayments[b].providerPool \div blobs[b].totalShards
    - blobPayments[b].providerRewardPerShard
-----------------------------------------------------------------------------
(* Administration: onlyAdmin, so the sender is Admin.                      *)

SetCoordinator(coordinator, allowed) ==
  /\ coordinators' = IF allowed THEN coordinators \cup {coordinator}
                                ELSE coordinators \ {coordinator}
  /\ UNCHANGED <<now, pricing, providerVars, blobs, nameVars, blobPolicies,
                 storageVars, moneyVars>>

SetNativePricing(p) ==
  /\ IsPricing(p)
  /\ pricing' = p
  /\ UNCHANGED <<now, coordinators, providerVars, blobs, nameVars, blobPolicies,
                 storageVars, moneyVars>>

WithdrawProtocolFees(amount) ==
  /\ amount > 0 /\ amount <= withdrawableProtocolFees
  /\ withdrawableProtocolFees' = withdrawableProtocolFees - amount
  /\ balance' = balance - amount
  /\ UNCHANGED <<now, adminVars, providerVars, blobs, nameVars, blobPolicies,
                 storageVars, blobPayments, claimVars>>
-----------------------------------------------------------------------------
(* Providers.                                                              *)

MayRegisterProvider(sender) ==
  /\ nextProviderId \in ProviderIds          \* bound on the counter
  /\ providerIdByOperator[sender] = NoProvider

RegisterProvider(sender) ==
  /\ MayRegisterProvider(sender)
  /\ providers' = [providers EXCEPT ![nextProviderId] =
                     [operator |-> sender, active |-> TRUE]]
  /\ providerIdByOperator' =
       [providerIdByOperator EXCEPT ![sender] = nextProviderId]
  /\ nextProviderId' = nextProviderId + 1
  /\ UNCHANGED <<now, adminVars, blobs, nameVars, blobPolicies, storageVars,
                 moneyVars>>

SetProviderStatus(sender, p, active) ==
  /\ providers[p].operator = sender
  /\ providers' = [providers EXCEPT ![p].active = active]
  /\ UNCHANGED <<now, adminVars, nextProviderId, providerIdByOperator, blobs,
                 nameVars, blobPolicies, storageVars, moneyVars>>
-----------------------------------------------------------------------------
(* Registration.                                                           *)

(* Variant: the name of an earlier blob is taken over.                     *)
AnyNameFree(owner, name) == TRUE

(* A name is unique per owner.                                             *)
NameFree(owner, name) == blobIdByOwnerName[owner][name] = NoBlob

MayCreateRecord(owner, b, name, totalShards, expiresAt) ==
  /\ ~blobs[b].exists
  /\ totalShards > 0
  /\ expiresAt = NoExpiry \/ expiresAt > now
  /\ name \in Names => NameFree(owner, name)

(* _createBlob: shared by every registration.  A name is optional.         *)
CreateBlobRecord(owner, b, name, totalShards, expiresAt, origin) ==
  /\ MayCreateRecord(owner, b, name, totalShards, expiresAt)
  /\ blobs' = [blobs EXCEPT ![b] =
       [ exists |-> TRUE, owner |-> owner, totalShards |-> totalShards,
         acknowledgementCount |-> 0, status |-> "Pending",
         expiresAt |-> expiresAt, origin |-> origin ]]
  /\ IF name \in Names
     THEN /\ blobNames' = [blobNames EXCEPT ![b] = name]
          /\ blobIdByOwnerName' = [blobIdByOwnerName EXCEPT ![owner][name] = b]
     ELSE UNCHANGED nameVars

(* createBlob, createBlobWithExpiry and createBlobNamed: a wallet's unpaid *)
(* registration.  createBlob passes no name and no expiry.                 *)
CreateBlob(sender, b, name, totalShards, expiresAt) ==
  /\ OnlyUser(sender)
  /\ CreateBlobRecord(sender, b, name, totalShards, expiresAt, "User")
  /\ UNCHANGED <<now, adminVars, providerVars, blobPolicies, storageVars, moneyVars>>

(* createOperatorBlob and createOperatorBlobNamed.                         *)
CreateOperatorBlob(sender, b, name, totalShards, expiresAt) ==
  /\ OnlyCoordinator(sender)
  /\ CreateBlobRecord(sender, b, name, totalShards, expiresAt, "Operator")
  /\ UNCHANGED <<now, adminVars, providerVars, blobPolicies, storageVars, moneyVars>>

(* _validatePolicy; the commitments it also asks for are supplied.         *)
ValidPolicy(policy) ==
  policy.accessPolicy = "ComputeOnly" <=> policy.storageMode = "Confidential"

(* createBlobPaid and createBlobNamedPaid.  msg.value may exceed the quote *)
(* and the excess goes back to the sender in the same transaction.         *)
CreateBlobPaid(sender, b, name, totalShards, expiresAt, policy, size, tender) ==
  /\ OnlyUser(sender)
  /\ expiresAt > now
  /\ ValidPolicy(policy)
  /\ LET quote == QuoteNativePayment(size, totalShards, policy.storageMode,
                                     expiresAt - now, pricing)
         msgValue == quote.total + tender
         excess == msgValue - quote.total
     IN  /\ msgValue >= quote.total
         /\ blobPayments' = [blobPayments EXCEPT ![b] =
              [ status |-> "Escrowed", payer |-> sender,
                totalPaid |-> quote.total,
                providerPool |-> quote.providerPool,
                providerRewardPerShard |-> quote.providerRewardPerShard,
                protocolFee |-> quote.protocolFee,
                providerSettled |-> 0 ]]
         /\ balance' = balance + msgValue - excess
  /\ CreateBlobRecord(sender, b, name, totalShards, expiresAt, "User")
  /\ blobPolicies' = [blobPolicies EXCEPT ![b] = policy]
  /\ UNCHANGED <<now, adminVars, providerVars, storageVars,
                 withdrawableProtocolFees, claimVars>>
-----------------------------------------------------------------------------
(* Placement, acknowledgement, finalization.                               *)

MayAssignShard(sender, b, s, p) ==
  /\ OnlyBlobOwnerOrCoordinator(sender, b)
  /\ blobs[b].status = "Pending"
  /\ s < blobs[b].totalShards
  /\ ProviderActive(p)
  /\ placement[b][s] = NoProvider

AssignShard(sender, b, s, p) ==
  /\ MayAssignShard(sender, b, s, p)
  /\ placement' = [placement EXCEPT ![b][s] = p]
  /\ UNCHANGED <<now, adminVars, providerVars, blobs, nameVars, blobPolicies,
                 acknowledgements, moneyVars>>

(* Variant: a repeated acknowledgement counts again.                       *)
NeverAcknowledged(b, p, s) == FALSE

AlreadyAcknowledged(b, p, s) == <<p, s>> \in acknowledgements[b]

MayAcknowledgeShard(sender, b, s) ==
  LET p == providerIdByOperator[sender]
  IN  /\ blobs[b].exists
      /\ blobs[b].status \in {"Pending", "Recovering"}
      /\ s < blobs[b].totalShards
      /\ p # NoProvider
      /\ ProviderActive(p)
      /\ placement[b][s] = p

(* The counter moves only for a pair not acknowledged before; a repeated   *)
(* acknowledgement overwrites the stored commitment.                       *)
AcknowledgeShard(sender, b, s) ==
  LET p == providerIdByOperator[sender]
  IN  /\ MayAcknowledgeShard(sender, b, s)
      /\ blobs' = IF AlreadyAcknowledged(b, p, s) THEN blobs
                  ELSE [blobs EXCEPT ![b].acknowledgementCount = @ + 1]
      /\ acknowledgements' = [acknowledgements EXCEPT ![b] = @ \cup {<<p, s>>}]
      /\ UNCHANGED <<now, adminVars, providerVars, nameVars, blobPolicies,
                     placement, moneyVars>>

FullyAcknowledged(b) == blobs[b].acknowledgementCount = blobs[b].totalShards

(* Variant: a payment already refunded is opened to claims as well.        *)
OpensAnyPayment(b) == blobPayments[b].status # "None"

OpensClaims(b) == blobPayments[b].status = "Escrowed"

MayFinalizeBlob(sender, b) ==
  /\ OnlyBlobOwnerOrCoordinator(sender, b)
  /\ blobs[b].status = "Pending"
  /\ FullyAcknowledged(b)

FinalizeBlob(sender, b) ==
  /\ MayFinalizeBlob(sender, b)
  /\ blobs' = [blobs EXCEPT ![b].status = "Active"]
  /\ blobPayments' = IF OpensClaims(b)
                     THEN [blobPayments EXCEPT ![b].status = "Claimable"]
                     ELSE blobPayments
  /\ UNCHANGED <<now, adminVars, providerVars, nameVars, blobPolicies,
                 storageVars, balance, withdrawableProtocolFees, claimVars>>
-----------------------------------------------------------------------------
(* Settlement and refund.                                                  *)

(* Variant: an immediate reward is paid whenever it is asked for.          *)
RewardsAgain(b, claimed) == claimed

(* The shards of a claim whose immediate reward was never paid, whoever    *)
(* held the shard then.                                                    *)
NewRewards(b, claimed) == claimed \ providerSettlementClaimed[b]

(* Variants: a reserve paid whenever it is asked for; one paid early.      *)
ReservesAgain(b, claimed) == IF now >= blobs[b].expiresAt THEN claimed ELSE {}
ReservesEarly(b, claimed) == claimed \ providerReserveClaimed[b]

(* The same for the reserve, from the expiry on.                           *)
NewReserves(b, claimed) ==
  IF now >= blobs[b].expiresAt THEN claimed \ providerReserveClaimed[b] ELSE {}

(* Variant: the fee is released with every claim.                          *)
FeeWithEveryClaim(b, settled) == blobPayments[b].protocolFee

(* What a claim that brings the settled amount to `settled' adds to the    *)
(* withdrawable fees.                                                      *)
FeeReleased(b, settled) ==
  IF settled = blobPayments[b].providerPool THEN blobPayments[b].protocolFee ELSE 0

ClaimAmount(b, claimed) ==
  blobPayments[b].providerRewardPerShard * Cardinality(NewRewards(b, claimed))
    + ReserveOf(b) * Cardinality(NewReserves(b, claimed))

MayClaimSettlement(sender, b, claimed) ==
  LET p == providerIdByOperator[sender]
      payment == blobPayments[b]
  IN  /\ blobs[b].exists
      /\ blobs[b].status \in {"Active", "Rebuilt"}
      /\ payment.status \in {"Claimable", "PartiallySettled"}
      /\ p # NoProvider
      /\ ProviderActive(p)
      /\ claimed # {}
      /\ \A s \in claimed : /\ s < blobs[b].totalShards
                            /\ placement[b][s] = p
                            /\ <<p, s>> \in acknowledgements[b]
      /\ ClaimAmount(b, claimed) > 0
      /\ payment.providerSettled + ClaimAmount(b, claimed) <= payment.providerPool

(* claimProviderSettlement.  The array of indices is a set: the loop sets  *)
(* each marker as it meets the index, so a repeated index pays nothing     *)
(* more.                                                                   *)
ClaimProviderSettlement(sender, b, claimed) ==
  LET payment == blobPayments[b]
      amount == ClaimAmount(b, claimed)
      settled == payment.providerSettled + amount
  IN  /\ MayClaimSettlement(sender, b, claimed)
      /\ providerSettlementClaimed' =
           [providerSettlementClaimed EXCEPT ![b] = @ \cup NewRewards(b, claimed)]
      /\ providerReserveClaimed' =
           [providerReserveClaimed EXCEPT ![b] = @ \cup NewReserves(b, claimed)]
      /\ blobPayments' = [blobPayments EXCEPT ![b] =
           [@ EXCEPT !.providerSettled = settled,
                     !.status = IF settled = payment.providerPool
                                THEN "Settled" ELSE "PartiallySettled"]]
      /\ withdrawableProtocolFees' =
           withdrawableProtocolFees + FeeReleased(b, settled)
      /\ balance' = balance - amount
      /\ UNCHANGED <<now, adminVars, providerVars, blobs, nameVars, blobPolicies,
                     storageVars>>

(* Variants: a refund without a look at the payment; one of a blob that    *)
(* was finalized and partly paid for.                                      *)
RefundableAgain(b) ==
  /\ blobs[b].status = "Pending"
  /\ blobs[b].expiresAt > 0 /\ now > blobs[b].expiresAt
RefundableWhileOpen(b) ==
  /\ blobPayments[b].status \in {"Escrowed", "Claimable", "PartiallySettled"}
  /\ blobs[b].expiresAt > 0 /\ now > blobs[b].expiresAt

Refundable(b) ==
  /\ blobPayments[b].status = "Escrowed"
  /\ blobs[b].status = "Pending"
  /\ blobs[b].expiresAt > 0 /\ now > blobs[b].expiresAt

RefundPaidBlob(sender, b) ==
  /\ OnlyBlobOwner(sender, b)
  /\ Refundable(b)
  /\ blobPayments' = [blobPayments EXCEPT ![b].status = "Refunded"]
  /\ balance' = balance - blobPayments[b].totalPaid
  /\ UNCHANGED <<now, adminVars, providerVars, blobs, nameVars, blobPolicies,
                 storageVars, withdrawableProtocolFees, claimVars>>
-----------------------------------------------------------------------------
(* Recovery.  The status belongs to the blob, not to the shard: one        *)
(* startRecovery opens every shard to reassignment and one                 *)
(* recordRebuiltShard closes it again.                                     *)

MayStartRecovery(sender, b, s) ==
  /\ OnlyBlobOwnerOrCoordinator(sender, b)
  /\ blobs[b].status \in {"Active", "Rebuilt"}
  /\ s < blobs[b].totalShards
  /\ placement[b][s] # NoProvider

StartRecovery(sender, b, s) ==
  /\ MayStartRecovery(sender, b, s)
  /\ blobs' = [blobs EXCEPT ![b].status = "Recovering"]
  /\ UNCHANGED <<now, adminVars, providerVars, nameVars, blobPolicies,
                 storageVars, moneyVars>>

MayReassignShard(sender, b, s, p) ==
  /\ OnlyBlobOwnerOrCoordinator(sender, b)
  /\ blobs[b].status = "Recovering"
  /\ s < blobs[b].totalShards
  /\ ProviderActive(p)

ReassignShard(sender, b, s, p) ==
  /\ MayReassignShard(sender, b, s, p)
  /\ placement' = [placement EXCEPT ![b][s] = p]
  /\ UNCHANGED <<now, adminVars, providerVars, blobs, nameVars, blobPolicies,
                 acknowledgements, moneyVars>>

MayRecordRebuiltShard(sender, b, s, p) ==
  /\ OnlyBlobOwnerOrCoordinator(sender, b)
  /\ blobs[b].status = "Recovering"
  /\ s < blobs[b].totalShards
  /\ placement[b][s] = p
  /\ p # NoProvider

RecordRebuiltShard(sender, b, s, p) ==
  /\ MayRecordRebuiltShard(sender, b, s, p)
  /\ blobs' = [blobs EXCEPT ![b].status = "Rebuilt"]
  /\ UNCHANGED <<now, adminVars, providerVars, nameVars, blobPolicies,
                 storageVars, moneyVars>>
-----------------------------------------------------------------------------
(* A later block.                                                          *)
Tick(t) ==
  /\ t > now
  /\ now' = t
  /\ UNCHANGED <<adminVars, providerVars, blobs, nameVars, blobPolicies,
                 storageVars, moneyVars>>

Expiries == {NoExpiry} \cup Timestamps
NameChoices == {NoName} \cup Names
ShardCounts == 1..MaxShards

AdminNext ==
  \/ \E c \in Delegates, allowed \in BOOLEAN : SetCoordinator(c, allowed)
  \/ \E p \in Pricings : SetNativePricing(p)
  \/ \E amount \in 1..withdrawableProtocolFees : WithdrawProtocolFees(amount)

ProviderNext ==
  \E sender \in Operators :
    \/ RegisterProvider(sender)
    \/ \E p \in ProviderIds, active \in BOOLEAN :
         SetProviderStatus(sender, p, active)
    \/ \E b \in Blobs, s \in Shards : AcknowledgeShard(sender, b, s)
    \/ \E b \in Blobs, claimed \in SUBSET Shards :
         ClaimProviderSettlement(sender, b, claimed)

RegistrationNext ==
  \E sender \in Accounts, b \in Blobs, name \in NameChoices,
     n \in ShardCounts, e \in Expiries :
    \/ CreateBlob(sender, b, name, n, e)
    \/ CreateOperatorBlob(sender, b, name, n, e)
    \/ \E policy \in Policies, size \in Sizes, tender \in Tenders :
         CreateBlobPaid(sender, b, name, n, e, policy, size, tender)

ControllerNext ==
  \E sender \in Accounts, b \in Blobs :
    \/ FinalizeBlob(sender, b)
    \/ RefundPaidBlob(sender, b)
    \/ \E s \in Shards :
         \/ StartRecovery(sender, b, s)
         \/ \E p \in ProviderIds :
              \/ AssignShard(sender, b, s, p)
              \/ ReassignShard(sender, b, s, p)
              \/ RecordRebuiltShard(sender, b, s, p)

Next ==
  \/ AdminNext
  \/ ProviderNext
  \/ RegistrationNext
  \/ ControllerNext
  \/ \E t \in Timestamps : Tick(t)

Spec == Init /\ [][Next]_vars
-----------------------------------------------------------------------------
(***************************************************************************)
(* Properties.                                                             *)
(***************************************************************************)

BlobRecords ==
  [ exists : BOOLEAN, owner : Accounts \cup {NoAccount}, totalShards : 0..MaxShards,
    acknowledgementCount : Nat, status : BlobStatuses,
    expiresAt : Expiries, origin : BlobOrigins ]

PaymentRecords ==
  [ status : PaymentStatuses, payer : Accounts \cup {NoAccount}, totalPaid : Nat,
    providerPool : Nat, providerRewardPerShard : Nat, protocolFee : Nat,
    providerSettled : Nat ]

(* Every variable keeps its type; in particular the balance and the fee    *)
(* counter never fall below zero, although no action tests the balance.    *)
TypeOK ==
  /\ now \in Timestamps
  /\ balance \in Nat
  /\ coordinators \subseteq Accounts
  /\ IsPricing(pricing)
  /\ withdrawableProtocolFees \in Nat
  /\ nextProviderId \in 1..(MaxProviders + 1)
  /\ providers \in [ProviderIds -> [operator : Accounts \cup {NoAccount},
                                    active : BOOLEAN]]
  /\ providerIdByOperator \in [Accounts -> {NoProvider} \cup ProviderIds]
  /\ blobs \in [Blobs -> BlobRecords]
  /\ blobNames \in [Blobs -> NameChoices]
  /\ blobIdByOwnerName \in [Accounts -> [Names -> {NoBlob} \cup Blobs]]
  /\ blobPolicies \in [Blobs -> [storageMode : StorageModes,
                                 accessPolicy : AccessPolicies]]
  /\ blobPayments \in [Blobs -> PaymentRecords]
  /\ placement \in [Blobs -> [Shards -> {NoProvider} \cup ProviderIds]]
  /\ acknowledgements \in [Blobs -> SUBSET (ProviderIds \X Shards)]
  /\ providerSettlementClaimed \in [Blobs -> SUBSET Shards]
  /\ providerReserveClaimed \in [Blobs -> SUBSET Shards]

(* What the contract still owes on account of blob b: the whole payment    *)
(* until finalization, then what providers have not claimed and the fee.   *)
Obligation(b) ==
  IF blobPayments[b].status \in {"Escrowed", "Claimable", "PartiallySettled"}
  THEN blobPayments[b].totalPaid - blobPayments[b].providerSettled
  ELSE 0

Obligations == [b \in Blobs |-> Obligation(b)]

(* Solvency: the contract holds exactly what it owes, through every order  *)
(* of overpaid registrations, price changes, claims by original and        *)
(* replacement providers, refunds and fee withdrawals (the value transfers *)
(* at lines 716, 860, 874 and 883).  No claim can find the till empty and  *)
(* no wei is stranded.                                                     *)
Solvent == balance = Total(Obligations, NumBlobs) + withdrawableProtocolFees

(* What providers received for a blob is the immediate reward of each      *)
(* shard marked settled plus the reserve of each shard marked reserved:    *)
(* each is paid once per shard whoever holds it, across reassignment and   *)
(* price changes (claimProviderSettlement, lines 829-850).                 *)
SettlementMatchesMarkers ==
  \A b \in Blobs : blobPayments[b].status # "None" =>
    blobPayments[b].providerSettled =
      blobPayments[b].providerRewardPerShard
          * Cardinality(providerSettlementClaimed[b])
        + ReserveOf(b) * Cardinality(providerReserveClaimed[b])

(* The fee is released (status Settled) exactly when every shard has been  *)
(* paid both its reward and its reserve, so the last claim never leaves a  *)
(* rounding remainder that would block the fee (lines 851-855).            *)
SettledExactlyWhenAllPaid ==
  \A b \in Blobs : blobPayments[b].status # "None" =>
    ( blobPayments[b].status = "Settled"
        <=> /\ providerReserveClaimed[b] = ShardsOf(b)
            /\ providerSettlementClaimed[b] = ShardsOf(b) )

(* SLICES.md: "Ten percent of the provider pool remains reserved until     *)
(* expiry."  Before the expiry no sequence of claims takes more than nine  *)
(* tenths of the pool, rounding included (lines 829 and 839-845).          *)
ReserveHeldUntilExpiry ==
  \A b \in Blobs :
    blobPayments[b].status # "None" /\ now < blobs[b].expiresAt =>
      10 * (blobPayments[b].providerPool - blobPayments[b].providerSettled)
        >= blobPayments[b].providerPool

(* A blob that was finalized and not yet recovered has every shard placed  *)
(* and acknowledged by the provider it is placed with: the counter that    *)
(* finalizeBlob compares (line 805) can reach totalShards in no other way, *)
(* whatever is acknowledged twice.                                         *)
ActiveFullyAcknowledged ==
  \A b \in Blobs : blobs[b].status = "Active" =>
    \A s \in ShardsOf(b) : <<placement[b][s], s>> \in acknowledgements[b]

(* A blob that left Pending has every shard acknowledged by some provider, *)
(* and a shard once placed stays placed, so that a claim or a recovery     *)
(* never meets provider id 0, the id of the global settlement marker.      *)
FinalizedShardsPlaced ==
  \A b \in Blobs : blobs[b].status # "Pending" =>
    \A s \in ShardsOf(b) :
      /\ placement[b][s] \in 1..(nextProviderId - 1)
      /\ \E p \in ProviderIds : <<p, s>> \in acknowledgements[b]

(* Money returned to the payer is never paid a second time: a refunded     *)
(* blob, even when it is finalized afterwards, has no shard paid, and the  *)
(* refund is final (lines 802-811, 817-821 and 865-872).                   *)
RefundedNeverSettled ==
  \A b \in Blobs : blobPayments[b].status = "Refunded" =>
    /\ blobPayments[b].providerSettled = 0
    /\ providerSettlementClaimed[b] = {}
    /\ providerReserveClaimed[b] = {}

(* The owner's name index and the blobs agree: a named blob is found under *)
(* its owner and name, and an index entry names a blob that has that owner *)
(* and name, so no name leads to two blobs (lines 634 and 655-657).        *)
NameIndexAgrees ==
  /\ \A b \in Blobs : blobNames[b] \in Names =>
       blobs[b].exists /\ blobIdByOwnerName[blobs[b].owner][blobNames[b]] = b
  /\ \A a \in Accounts, n \in Names :
       LET b == blobIdByOwnerName[a][n]
       IN  b # NoBlob => blobNames[b] = n /\ blobs[b].owner = a

(* The terms a payment was made on.                                        *)
Terms(b) ==
  << blobPayments[b].payer, blobPayments[b].totalPaid,
     blobPayments[b].providerPool, blobPayments[b].providerRewardPerShard,
     blobPayments[b].protocolFee >>

LedgerGrows ==
  \A b \in Blobs : blobPayments[b].status # "None" =>
    /\ Terms(b)' = Terms(b)
    /\ blobPayments[b].providerSettled <= blobPayments'[b].providerSettled
    /\ providerSettlementClaimed[b] \subseteq providerSettlementClaimed'[b]
    /\ providerReserveClaimed[b] \subseteq providerReserveClaimed'[b]
    /\ blobPayments[b].status \in {"Settled", "Refunded"} =>
         blobPayments'[b] = blobPayments[b]

(* A step never takes back what the ledger recorded: the terms stay as     *)
(* paid, claim markers are never cleared, what is settled never shrinks,   *)
(* and a payment that is Settled or Refunded stays so (lines 690-702,      *)
(* 835-858 and 872).                                                       *)
LedgerOnlyGrows == [][LedgerGrows]_vars

(* architecture.md, section 5, on the status of a payment: "escrowed       *)
(* before upload, claimable after finalization".  finalizeBlob (line 807)  *)
(* does not ask whether the payment was refunded in the meantime.          *)
FinalizedIsClaimable ==
  \A b \in Blobs :
    blobs[b].status # "Pending" /\ blobPayments[b].status # "None" =>
      blobPayments[b].status \in {"Claimable", "PartiallySettled", "Settled"}
=============================================================================
