---------------------------- MODULE GatewayProofs ----------------------------
(***************************************************************************)
(* Proofs about Gateway, for every value of its constants: any number of   *)
(* providers, blobs, requests at a time, failing calls, crashes, losses,   *)
(* and calls of the owners.                                                *)
(*                                                                         *)
(* The gateway's calls are calls any caller of the contract could make, so *)
(* the invariant of RegistryProofs holds here too.  On top of it GInv says *)
(* what each request knows of the chain at each step: what it read may be  *)
(* old, and what it sent may have reverted unseen, but what it relies on   *)
(* only ever moves on.  WorldMovesOn names that: a step of one request     *)
(* never takes from another what its invariant rests on.                   *)
(***************************************************************************)
EXTENDS Gateway, RegistryProofs

-----------------------------------------------------------------------------
(* Types.                                                                  *)

Kinds == {"None", "Put", "Post", "Rebuild", "Orphan"}
UploadSteps == {"Create", "Place", "Assign", "Store", "Acknowledge", "Finalize",
                "Reread", "Claim", "Index"}
RebuildSteps == {"Read", "Fetch", "Start", "Reassign", "Restore", "Reacknowledge", "Record"}
Steps == {"None"} \cup UploadSteps \cup RebuildSteps

MaybeProvider == {NoProvider} \cup ProviderIds

RequestRecords ==
  [ kind : Kinds, blob : {NoBlob} \cup Blobs, step : Steps, shard : Shards,
    provider : MaybeProvider, placed : [Shards -> MaybeProvider],
    acked : SUBSET Shards, missing : SUBSET Shards, claims : SUBSET MaybeProvider,
    reported : SUBSET Shards, last : BOOLEAN, sent : BOOLEAN ]

Objects == [blob : {NoBlob} \cup Blobs, reported : SUBSET Shards]

GatewayTyped ==
  /\ registered \in 0..NumProviders
  /\ requests \in [Requests -> RequestRecords]
  /\ files \in [Blobs -> SUBSET (ProviderIds \X Shards)]
  /\ lost \in [Blobs -> SUBSET (ProviderIds \X Shards)]
  /\ index \in [Accounts -> [Names -> Objects]]
  /\ indexFile \in [Accounts -> [Names -> Objects]]
  /\ jobs \in [Blobs -> {"queued", "running", "succeeded"}]
  /\ interrupted \subseteq Blobs
-----------------------------------------------------------------------------
(* The registry as the gateway uses it.                                    *)

(* A provider's id, registered.                                            *)
IsKnown(p) == p \in ProviderIds /\ p < nextProviderId

(* No operator registers twice or is switched off, and the server has      *)
(* registered the providers it counted.                                    *)
ProvidersServe ==
  /\ coordinators = {Admin}
  /\ \A p \in ProviderIds : IsKnown(p) =>
       /\ providers[p].active
       /\ providers[p].operator \in Operators
       /\ providerIdByOperator[providers[p].operator] = p
  /\ \A a \in Accounts : providerIdByOperator[a] # NoProvider =>
       IsKnown(providerIdByOperator[a])
  /\ \A i \in 1..registered : providerIdByOperator[ProviderList[i]] # NoProvider

ClaimsOpen(b) == blobPayments[b].status \in {"Claimable", "PartiallySettled", "Settled"}

(* Of a blob that was never in recovery a provider is paid for all its     *)
(* shards at once.                                                         *)
PaidTogether(b) ==
  blobs[b].status = "Active" =>
    \A s, t \in Shards : placement[b][s] = placement[b][t] =>
      (s \in providerSettlementClaimed[b] <=> t \in providerSettlementClaimed[b])

(* Every blob has a shard for every provider, and a payment is open to     *)
(* claims only after the finalization.                                     *)
BlobsServe ==
  \A b \in Blobs :
    /\ blobs[b].exists => blobs[b].totalShards = MaxShards
    /\ ClaimsOpen(b) => blobs[b].status # "Pending"
    /\ PaidTogether(b)
-----------------------------------------------------------------------------
(* What a request knows.                                                   *)

(* Its kind, and where that kind may be.                                   *)
InPlace(q) ==
  /\ q.kind = "None" => q.step = "None"
  /\ q.kind # "None" => q.blob \in Blobs
  /\ q.kind \in {"Put", "Post"} => q.step \in UploadSteps
  /\ q.kind = "Put" => q.step # "Create"
  /\ q.kind = "Rebuild" => q.step \in RebuildSteps
  /\ q.kind = "Orphan" => q.sent
  /\ q.sent => q.kind # "None" /\ q.step \in TxSteps
  /\ Live(q) => Serving

(* The steps that address a provider.                                      *)
ProviderSteps == {"Assign", "Store", "Acknowledge", "Claim", "Reassign", "Restore",
                  "Reacknowledge", "Record"}

(* It addresses registered providers.                                      *)
Addresses(q) ==
  /\ q.provider < nextProviderId
  /\ \A s \in Shards : q.placed[s] < nextProviderId
  /\ q.step \in ProviderSteps \/ (q.step = "Start" /\ q.sent) => q.provider # NoProvider
  /\ q.step \in RebuildSteps => blobs[q.blob].exists

(* What it asks to acknowledge was stored.                                 *)
Stored(q) ==
  q.step \in {"Acknowledge", "Reacknowledge"} =>
    <<q.provider, q.shard>> \in files[q.blob] \cup lost[q.blob]

AckedAt(b, s) == <<placement[b][s], s>> \in acknowledgements[b]

(* A PUT is about a registered, named blob.  As long as that is Pending,   *)
(* the placement the PUT read still holds where it was set, and the shards *)
(* behind it are acknowledged; an acknowledgement it sent is one of the    *)
(* provider the shard is placed with, which the owner may have chosen; and *)
(* when it believes the blob final, it is.                                 *)
Uploads(q) ==
  LET b == q.blob IN
  q.kind = "Put" =>
    /\ blobs[b].exists /\ blobs[b].owner \in Accounts /\ blobNames[b] \in Names
    /\ blobs[b].status = "Pending" =>
         /\ q.step \notin {"Reread", "Claim", "Index"}
         /\ \A s \in Shards : q.placed[s] # NoProvider => placement[b][s] = q.placed[s]
         /\ \A s \in q.acked : AckedAt(b, s)
         /\ q.step \in {"Assign", "Store", "Acknowledge"} =>
              \A s \in Shards : s < q.shard => AckedAt(b, s)
         /\ q.step = "Acknowledge" /\ q.sent => placement[b][q.shard] = q.provider
         /\ q.step = "Finalize" => \A s \in Shards : AckedAt(b, s)

(* What it claims is a provider's share as placed; a claim that was        *)
(* estimated to pay something has been paid since or would still pay.      *)
Claims(q) ==
  LET b == q.blob
      share == ShardsAt(q, q.provider)
  IN
  q.step = "Claim" =>
    /\ q.provider \in q.claims
    /\ \A p \in q.claims : IsKnown(p) /\ ShardsAt(q, p) # {}
    /\ blobs[b].exists
    /\ ClaimsOpen(b)
    /\ blobs[b].status = "Active" =>
         /\ q.placed = placement[b]
         /\ q.sent =>
              \/ share \subseteq providerSettlementClaimed[b]
              \/ /\ share \cap providerSettlementClaimed[b] = {}
                 /\ \/ blobPayments[b].providerRewardPerShard > 0
                    \/ now >= blobs[b].expiresAt

(* What it reports was paid.                                               *)
Reports(q) ==
  /\ q.kind = "Put" /\ q.step \notin {"Claim", "Index"} => q.reported = {}
  /\ q.kind = "Put" /\ blobs[q.blob].status = "Active" =>
       q.reported \subseteq providerSettlementClaimed[q.blob]

(* A blob's rebuild has its job, which is running, to itself; what one     *)
(* leaves in flight is marked as interrupted; without such leftovers, and  *)
(* without the owner's hand, it finds the shard where it moved it.         *)
Rebuilds(r) ==
  LET q == requests[r] IN
  /\ q.kind = "Rebuild" =>
       /\ jobs[q.blob] = "running"
       /\ \A t \in Requests : requests[t].kind = "Rebuild" /\ requests[t].blob = q.blob => t = r
  /\ q.kind = "Orphan" /\ PastStart(q) => q.blob \in interrupted
  /\ /\ q.kind = "Rebuild" /\ q.step \in {"Restore", "Reacknowledge", "Record"}
     /\ blobs[q.blob].status = "Recovering"
     /\ q.blob \notin interrupted /\ ~OwnerRecovers(q.blob)
     => placement[q.blob][q.shard] = q.provider

(* What the index lists, in memory or on disk.                             *)
Lists(object, a, n) ==
  object.blob # NoBlob =>
    /\ blobs[object.blob].owner = a /\ blobNames[object.blob] = n
    /\ blobs[object.blob].status # "Pending"
    /\ blobs[object.blob].status = "Active" =>
         object.reported \subseteq providerSettlementClaimed[object.blob]

IndexSound ==
  \A a \in Accounts, n \in Names : Lists(index[a][n], a, n) /\ Lists(indexFile[a][n], a, n)

(* What it knows of the chain and of the providers' files.                 *)
Knows(q) == Addresses(q) /\ Stored(q) /\ Uploads(q) /\ Claims(q) /\ Reports(q)

RequestInv(r) == InPlace(requests[r]) /\ Knows(requests[r]) /\ Rebuilds(r)

GInv ==
  /\ IInv
  /\ GatewayTyped /\ ProvidersServe /\ BlobsServe
  /\ \A r \in Requests : RequestInv(r)
  /\ AcksAreBacked /\ IndexSound /\ RecoveringHasRebuild
-----------------------------------------------------------------------------
(* Requests as records.                                                    *)

(* The request is the same one, and what it has to report.                 *)
Keeps(o, q) ==
  o.kind = q.kind /\ o.blob = q.blob /\ o.sent = q.sent /\ o.reported = q.reported

(* It goes by the same reading of the chain.                               *)
Reads(o, q) == o.placed = q.placed /\ o.acked = q.acked

(* It goes by none.                                                        *)
Unread(o) ==
  (\A s \in Shards : o.placed[s] = NoProvider) /\ o.acked = {} /\ o.provider = NoProvider

LEMMA ProviderCount ==
  /\ NumProviders = MaxShards /\ MaxShards \in Nat \ {0} /\ 0 \in Shards
  /\ \A s \in Shards : s \in Nat /\ s + 1 \in 1..NumProviders
                       /\ (s + 1 < NumProviders => s + 1 \in Shards)
  /\ \A i \in 1..NumProviders : i - 1 \in Shards /\ ProviderList[i] \in Operators
  /\ Operators \subseteq Accounts
<1>1. NumProviders = MaxShards /\ MaxShards \in Nat \ {0}
  BY GatewayAssumption, BoundsAssumption DEF NumProviders
<1>2. \A i \in 1..NumProviders : ProviderList[i] \in Operators
  BY GatewayAssumption DEF NumProviders
<1> QED
  BY <1>1, <1>2, AccountsAssumption DEF Shards

LEMMA IdleIs ==
  /\ Idle \in RequestRecords /\ Unread(Idle)
  /\ Idle.kind = "None" /\ Idle.step = "None" /\ Idle.blob = NoBlob
  /\ Idle.reported = {} /\ Idle.sent = FALSE
<1>1. 0 \in Shards /\ NoProvider \in MaybeProvider
  BY ProviderCount DEF MaybeProvider
<1> QED
  BY <1>1 DEF Idle, RequestRecords, Kinds, Steps, Unread, NoProvider, NoBlob

(* On to shard s.                                                          *)
AtShard(o, q, s) ==
  /\ Reads(o, q) /\ o.shard = s
  /\ \/ q.placed[s] # NoProvider /\ o.step = "Store" /\ o.provider = q.placed[s]
     \/ q.placed[s] = NoProvider /\ o.step = "Assign" /\ o.provider = Configured(s)

LEMMA ConfiguredTyped ==
  ASSUME Typed, NEW s \in Shards
  PROVE  Configured(s) \in MaybeProvider
<1>1. ProviderList[s + 1] \in Accounts
  BY ProviderCount
<1> QED
  BY <1>1 DEF Typed, Configured, MaybeProvider

LEMMA OnShardIs ==
  ASSUME Typed, NEW q \in RequestRecords, NEW s \in Shards
  PROVE  /\ OnShard(q, s) \in RequestRecords /\ Keeps(OnShard(q, s), q)
         /\ AtShard(OnShard(q, s), q, s)
<1>1. Configured(s) \in MaybeProvider /\ q.placed[s] \in MaybeProvider
  BY ConfiguredTyped DEF RequestRecords
<1>2. "Store" \in Steps /\ "Assign" \in Steps
  BY DEF Steps, UploadSteps
<1> QED
  BY <1>1, <1>2 DEF OnShard, AtShard, RequestRecords, Keeps, Reads

(* The reading is dropped.                                                 *)
LEMMA ForgetsIs ==
  ASSUME NEW q \in RequestRecords
  PROVE  /\ Forgets(q) \in RequestRecords
         /\ Keeps(Forgets(q), q) /\ Unread(Forgets(q)) /\ Forgets(q).step = q.step
<1>1. /\ Idle.placed = [s \in Shards |-> NoProvider]
      /\ 0 \in Shards /\ NoProvider \in MaybeProvider
  BY ProviderCount DEF MaybeProvider, Idle
<1> QED
  BY <1>1 DEF Forgets, RequestRecords, Keeps, Unread

(* Once a shard is acknowledged, on to the next or to the finalization.    *)
LEMMA AfterShardIs ==
  ASSUME Typed, NEW q \in RequestRecords
  PROVE  /\ AfterShard(q) \in RequestRecords /\ Keeps(AfterShard(q), q)
         /\ \/ q.shard + 1 \in Shards /\ AtShard(AfterShard(q), q, q.shard + 1)
            \/ /\ \A s \in Shards : s <= q.shard
               /\ Unread(AfterShard(q)) /\ AfterShard(q).step = "Finalize"
<1>1. q.shard \in Shards /\ q.shard \in Nat
  BY ProviderCount DEF RequestRecords
<1>2. CASE q.shard + 1 < NumProviders
  BY <1>1, <1>2, ProviderCount, OnShardIs DEF AfterShard
<1>3. CASE ~(q.shard + 1 < NumProviders)
  <2> DEFINE f == [q EXCEPT !.step = "Finalize"]
  <2>1. f \in RequestRecords /\ Keeps(f, q) /\ f.step = "Finalize"
    BY DEF RequestRecords, Keeps, Steps, UploadSteps
  <2>2. AfterShard(q) = Forgets(f)
    BY <1>3 DEF AfterShard
  <2>3. \A s \in Shards : s <= q.shard
    BY <1>1, <1>3, ProviderCount DEF Shards
  <2> HIDE DEF f
  <2> QED
    BY <2>1, <2>2, <2>3, ForgetsIs DEF Keeps
<1> QED
  BY <1>2, <1>3

(* After the bytes of a shard went to its provider.                        *)
LEMMA AfterStoreIs ==
  ASSUME Typed, NEW q \in RequestRecords
  PROVE  /\ q.step = "Restore" \/ q.shard \notin q.acked =>
              /\ AfterStore(q) \in RequestRecords
              /\ Keeps(AfterStore(q), q) /\ Reads(AfterStore(q), q)
              /\ AfterStore(q).shard = q.shard /\ AfterStore(q).provider = q.provider
              /\ AfterStore(q).step =
                   IF q.step = "Restore" THEN "Reacknowledge" ELSE "Acknowledge"
         /\ q.step # "Restore" /\ q.shard \in q.acked => AfterStore(q) = AfterShard(q)
BY DEF AfterStore, RequestRecords, Keeps, Reads, Steps, UploadSteps, RebuildSteps

(* A set of shards has a least one.                                        *)
LEMMA LeastShardIs ==
  ASSUME NEW S \in SUBSET Shards, S # {}
  PROVE  LeastShard(S) \in S
<1>1. S \subseteq Nat
  BY ProviderCount
<1>2. \E s \in S : \A t \in S : s <= t
  BY <1>1, LeastNat
<1> QED
  BY <1>2 DEF LeastShard

(* The next claim, of providers that the reading places shards with.       *)
LEMMA OnClaimsIs ==
  ASSUME NEW q \in RequestRecords,
         \A p \in q.claims : ShardsAt(q, p) # {}
  PROVE  /\ OnClaims(q) \in RequestRecords /\ Keeps(OnClaims(q), q)
         /\ \/ OnClaims(q).step = "Index" /\ Unread(OnClaims(q)) /\ q.claims = {}
            \/ /\ OnClaims(q).step = "Claim" /\ Reads(OnClaims(q), q)
               /\ OnClaims(q).claims = q.claims
               /\ OnClaims(q).provider \in q.claims
<1>1. CASE q.claims = {}
  <2> DEFINE f == [q EXCEPT !.step = "Index"]
  <2>1. f \in RequestRecords /\ Keeps(f, q) /\ f.step = "Index"
    BY DEF RequestRecords, Keeps, Steps, UploadSteps
  <2>2. OnClaims(q) = Forgets(f)
    BY <1>1 DEF OnClaims
  <2> HIDE DEF f
  <2> QED
    BY <1>1, <2>1, <2>2, ForgetsIs DEF Keeps
<1>2. CASE q.claims # {}
  <2> DEFINE S == {s \in Shards : q.placed[s] \in q.claims}
  <2>1. S # {}
    BY <1>2 DEF ShardsAt
  <2>2. LeastShard(S) \in S
    BY <2>1, LeastShardIs
  <2>3. q.placed[LeastShard(S)] \in q.claims /\ q.claims \subseteq MaybeProvider
    BY <2>2 DEF RequestRecords
  <2>4. OnClaims(q) = [q EXCEPT !.step = "Claim", !.provider = q.placed[LeastShard(S)]]
    BY <1>2 DEF OnClaims
  <2> HIDE DEF S
  <2> QED
    BY <2>3, <2>4 DEF RequestRecords, Keeps, Reads, Steps, UploadSteps
<1> QED
  BY <1>1, <1>2

(* The next missing shard, or the read that ends a rebuild.                *)
LEMMA OnRebuildIs ==
  ASSUME NEW q \in RequestRecords
  PROVE  /\ OnRebuild(q) \in RequestRecords /\ Keeps(OnRebuild(q), q)
         /\ Reads(OnRebuild(q), q)
         /\ OnRebuild(q).step \in {"Read", "Start"}
         /\ \/ OnRebuild(q).provider = q.provider
            \/ \E s \in Shards : OnRebuild(q).provider = q.placed[s]
<1>1. CASE q.missing = {}
  BY <1>1 DEF OnRebuild, RequestRecords, Keeps, Reads, Steps, RebuildSteps
<1>2. CASE q.missing # {}
  <2>1. LeastShard(q.missing) \in Shards
    BY <1>2, LeastShardIs DEF RequestRecords
  <2>2. q.placed[LeastShard(q.missing)] \in MaybeProvider
    BY <2>1 DEF RequestRecords
  <2> QED
    BY <1>2, <2>1, <2>2 DEF OnRebuild, RequestRecords, Keeps, Reads, Steps, RebuildSteps
<1> QED
  BY <1>1, <1>2
-----------------------------------------------------------------------------
(* The gateway is a caller of the registry.                                *)

(* The calls it makes, and the ones of the owners.                         *)
Calls ==
  \/ UNCHANGED vars
  \/ \E o \in Operators : RegisterProvider(o)
  \/ \E b \in Blobs : CreateOperatorBlob(Admin, b, NoName, NumProviders, NoExpiry)
  \/ \E a \in Accounts, b \in Blobs, n \in Names, e \in Timestamps, policy \in Policies,
        size \in Sizes :
       CreateBlobPaid(a, b, n, NumProviders, e, policy, size, 0)
  \/ \E o \in Operators, b \in Blobs, s \in Shards : AcknowledgeShard(o, b, s)
  \/ \E o \in Operators, b \in Blobs, claimed \in SUBSET Shards :
       /\ ClaimProviderSettlement(o, b, claimed)
       /\ blobs[b].status = "Active" =>
            claimed = {s \in Shards : placement[b][s] = providerIdByOperator[o]}
  \/ \E a \in Accounts, b \in Blobs : FinalizeBlob(a, b) \/ RefundPaidBlob(a, b)
  \/ \E a \in Accounts, b \in Blobs, s \in Shards : StartRecovery(a, b, s)
  \/ \E a \in Accounts, b \in Blobs, s \in Shards, p \in ProviderIds :
       \/ AssignShard(a, b, s, p) \/ ReassignShard(a, b, s, p)
       \/ RecordRebuiltShard(a, b, s, p)
  \/ \E t \in Timestamps : Tick(t)

(* Each is one that anybody could make.                                    *)
LEMMA CallsAreSteps == Calls => [Next]_vars
<1>1. /\ Admin \in Accounts /\ Operators \subseteq Accounts
      /\ NoName \in NameChoices /\ Names \subseteq NameChoices
      /\ NumProviders \in ShardCounts /\ NoExpiry \in Expiries /\ Timestamps \subseteq Expiries
      /\ 0 \in Tenders
  BY AccountsAssumption, GatewayAssumption, ProviderCount
     DEF NameChoices, ShardCounts, Expiries
<1>2. ASSUME NEW o \in Operators, RegisterProvider(o) PROVE ProviderNext
  BY <1>2 DEF ProviderNext
<1>3. ASSUME NEW b \in Blobs, CreateOperatorBlob(Admin, b, NoName, NumProviders, NoExpiry)
      PROVE  RegistrationNext
  BY <1>1, <1>3 DEF RegistrationNext
<1>4. ASSUME NEW a \in Accounts, NEW b \in Blobs, NEW n \in Names, NEW e \in Timestamps,
             NEW policy \in Policies, NEW size \in Sizes,
             CreateBlobPaid(a, b, n, NumProviders, e, policy, size, 0)
      PROVE  RegistrationNext
  BY <1>1, <1>4 DEF RegistrationNext
<1>5. ASSUME NEW a \in Accounts, NEW b \in Blobs, NEW s \in Shards, NEW p \in ProviderIds,
             \/ AssignShard(a, b, s, p) \/ ReassignShard(a, b, s, p)
             \/ RecordRebuiltShard(a, b, s, p)
      PROVE  ControllerNext
  BY <1>5 DEF ControllerNext
<1>6. ASSUME NEW o \in Operators, NEW b \in Blobs, NEW s \in Shards, AcknowledgeShard(o, b, s)
      PROVE  ProviderNext
  BY <1>6 DEF ProviderNext
<1>7. ASSUME NEW a \in Accounts, NEW b \in Blobs,
             \/ FinalizeBlob(a, b) \/ RefundPaidBlob(a, b)
             \/ \E s \in Shards : StartRecovery(a, b, s)
      PROVE  ControllerNext
  BY <1>7 DEF ControllerNext
<1>8. ASSUME NEW o \in Operators, NEW b \in Blobs, NEW claimed \in SUBSET Shards,
             ClaimProviderSettlement(o, b, claimed)
      PROVE  ProviderNext
  BY <1>8 DEF ProviderNext
<1> QED
  BY <1>2, <1>3, <1>4, <1>5, <1>6, <1>7, <1>8 DEF Calls, Next

LEMMA AddressIsKnown ==
  ASSUME GatewayTyped, NEW r \in Requests, Addresses(requests[r]),
         requests[r].provider # NoProvider
  PROVE  IsKnown(requests[r].provider)
BY DEF GatewayTyped, RequestRecords, MaybeProvider, Addresses, IsKnown

(* A transaction that is mined is one of them: the request knows the       *)
(* provider, and claims a share as the shards are placed.                  *)
LEMMA TxIsCall ==
  ASSUME GInv, NEW r \in Requests, requests[r].sent, Tx(requests[r])
  PROVE  Calls
<1> DEFINE q == requests[r]
<1>1. /\ q \in RequestRecords /\ InPlace(requests[r]) /\ Addresses(requests[r])
      /\ Claims(requests[r]) /\ ProvidersServe /\ Typed /\ GatewayTyped
  BY DEF GInv, GatewayTyped, RequestInv, Knows, IInv
<1>2. q.blob \in Blobs /\ q.shard \in Shards /\ q.step \in TxSteps /\ q.kind # "None"
  BY <1>1 DEF InPlace, RequestRecords
<1>3. q.step \notin {"Create", "Finalize"} =>
        /\ IsKnown(q.provider)
        /\ providers[q.provider].operator \in Operators
        /\ providerIdByOperator[providers[q.provider].operator] = q.provider
  <2>1. q.step \notin {"Create", "Finalize"} => q.provider # NoProvider
    BY <1>1, <1>2 DEF Addresses, ProviderSteps, TxSteps
  <2>2. q.provider # NoProvider => IsKnown(q.provider)
    BY <1>1, AddressIsKnown DEF GInv
  <2> QED
    BY <1>1, <2>1, <2>2 DEF ProvidersServe, IsKnown
<1>4. CASE q.step \in {"Create", "Finalize"}
  BY <1>2, <1>4, AccountsAssumption DEF Tx, Calls
<1>6. CASE q.step \in {"Acknowledge", "Reacknowledge"}
  BY <1>2, <1>3, <1>6 DEF Tx, Calls
<1>7. CASE q.step = "Claim"
  <2> DEFINE o == providers[q.provider].operator
             share == ShardsAt(q, q.provider)
  <2>1. ClaimProviderSettlement(o, q.blob, share) /\ o \in Operators /\ share \in SUBSET Shards
    BY <1>3, <1>7 DEF Tx, ShardsAt
  <2>2. blobs[q.blob].status = "Active" =>
          share = {s \in Shards : placement[q.blob][s] = providerIdByOperator[o]}
    BY <1>1, <1>3, <1>7 DEF Claims, ShardsAt
  <2> HIDE DEF o, share, q
  <2> QED
    BY <1>2, <2>1, <2>2 DEF Calls
<1>8. CASE q.step \in {"Assign", "Start", "Reassign", "Record"}
  BY <1>2, <1>3, <1>8, AccountsAssumption DEF Tx, Calls, IsKnown
<1> QED
  BY <1>2, <1>4, <1>6, <1>7, <1>8 DEF TxSteps

(* Whatever the gateway, its clients, the owners or the faults do, the     *)
(* contract sees one of these calls, or none.                              *)
LEMMA StepIsCall ==
  ASSUME GInv, GatewayNext
  PROVE  Calls
<1>1. GatewayTyped /\ ProvidersServe
  BY DEF GInv
<1>2. CASE RegisterConfigured
  <2>1. NextOperator \in Operators
    <3>1. registered \in 0..NumProviders /\ registered # NumProviders
      BY <1>1, <1>2 DEF GatewayTyped, RegisterConfigured, Serving
    <3>2. registered + 1 \in 1..NumProviders
      BY <3>1, ProviderCount
    <3> QED
      BY <3>2, ProviderCount DEF NextOperator
  <2> QED
    BY <1>2, <2>1 DEF RegisterConfigured, Calls
<1>3. ASSUME NEW r \in Requests, RequestStep(r)
      PROVE  Calls
  <2>1. CASE Mine(r)
    BY <2>1, TxIsCall DEF Mine
  <2>2. CASE Submit(r) \/ Refuse(r) \/ Revert(r) \/ Place(r) \/ Store(r) \/ Reread(r)
             \/ Index(r) \/ ReadAgain(r) \/ Fetch(r)
    BY <2>2 DEF Submit, Refuse, Revert, Place, Store, Reread, Index, ReadAgain, Fetch, Calls
  <2> QED
    BY <1>3, <2>1, <2>2 DEF RequestStep
<1>4. CASE Clients
  BY <1>4 DEF Clients, BeginPut, BeginPost, BeginRebuild, Calls
<1>5. CASE OwnerSteps
  <2>1. Owners \subseteq Accounts
    BY GatewayAssumption
  <2>2. CASE OwnerRegisters
    BY <2>1, <2>2, SMTT(20) DEF OwnerRegisters, Calls
  <2>3. CASE OwnerIntervenes
    BY <2>1, <2>3, SMTT(20) DEF OwnerIntervenes, OwnerCalls, Calls
  <2>4. CASE Passing
    BY <2>4 DEF Passing, Calls
  <2> QED
    BY <1>5, <2>2, <2>3, <2>4 DEF OwnerSteps
<1>6. CASE FaultSteps
  BY <1>6 DEF FaultSteps, FetchFails, CallFails, IndexFails, Crash, LoseShard, Calls
<1> QED
  BY <1>2, <1>3, <1>4, <1>5, <1>6 DEF GatewayNext

LEMMA RegistryInvariant ==
  ASSUME GInv, [GatewayNext]_<<vars, gatewayVars>>
  PROVE  Calls /\ [Next]_vars /\ IInv'
<1>1. Calls
  BY StepIsCall DEF Calls
<1> QED
  BY <1>1, CallsAreSteps, NextIInv DEF GInv
-----------------------------------------------------------------------------
(* What a request relies on only moves on.                                 *)

RecordStays(b) ==
  blobs[b].exists =>
    /\ blobs'[b].exists /\ blobs'[b].owner = blobs[b].owner
    /\ blobs'[b].totalShards = blobs[b].totalShards
    /\ blobs'[b].expiresAt = blobs[b].expiresAt
    /\ blobNames'[b] = blobNames[b]

(* Pending and Active are never entered again, and a placement holds as    *)
(* long as the blob is one of them.                                        *)
StorageMovesOn(b) ==
  /\ blobs[b].status # "Pending" => blobs'[b].status # "Pending"
  /\ blobs'[b].status = "Active" => blobs[b].status \in {"Pending", "Active"}
  /\ blobs[b].status \in {"Pending", "Active"} =>
       \A s \in Shards : placement[b][s] # NoProvider => placement'[b][s] = placement[b][s]
  /\ acknowledgements[b] \subseteq acknowledgements'[b]

PaymentMovesOn(b) ==
  /\ providerSettlementClaimed[b] \subseteq providerSettlementClaimed'[b]
  /\ ClaimsOpen(b) =>
       /\ ClaimsOpen(b)'
       /\ blobPayments'[b].providerRewardPerShard = blobPayments[b].providerRewardPerShard

ProvidersMoveOn ==
  /\ \A p \in ProviderIds : IsKnown(p) => IsKnown(p)'
  /\ nextProviderId \in Nat /\ nextProviderId' \in Nat /\ nextProviderId <= nextProviderId'
  /\ \A a \in Accounts : providerIdByOperator[a] # NoProvider =>
       providerIdByOperator'[a] = providerIdByOperator[a]

LEMMA RecordsStay ==
  ASSUME Typed, [Next]_vars, NEW c \in Blobs
  PROVE  RecordStays(c)
<1>1. BlobKept(c)
  BY RecordsKept
<1>2. CASE NamesAlone
  BY <1>1, <1>2 DEF NamesAlone, BlobKept, RecordStays, nameVars
<1>3. ASSUME NEW owner \in Accounts, NEW b \in Blobs, NEW name \in NameChoices,
             Registers(owner, b, name)
      PROVE  RecordStays(c)
  <2>1. ~blobs[b].exists
    BY <1>3 DEF Registers, CreateBlobRecord, MayCreateRecord
  <2>2. c # b => blobs'[c] = blobs[c] /\ blobNames'[c] = blobNames[c]
    BY <1>3 DEF Registers, CreateBlobRecord, Typed, nameVars
  <2> QED
    BY <2>1, <2>2 DEF RecordStays
<1> QED
  BY <1>2, <1>3, NameEffects

LEMMA StorageMovesOnStep ==
  ASSUME Typed, [Next]_vars, NEW c \in Blobs, Blank(c)
  PROVE  StorageMovesOn(c)
<1>1. blobs \in [Blobs -> BlobRecords] /\ blobs[c].status \in BlobStatuses
  BY DEF Typed, BlobRecords
<1>2. UNCHANGED <<blobs, storageVars>> => StorageMovesOn(c)
  BY DEF StorageMovesOn, storageVars
<1>3. CASE UNCHANGED <<blobs, storageVars, nextProviderId, providers>>
  BY <1>2, <1>3
<1>4. ASSUME NEW o \in Operators,
             \/ RegisterProvider(o)
             \/ \E p \in ProviderIds, active \in BOOLEAN : SetProviderStatus(o, p, active)
      PROVE  StorageMovesOn(c)
  BY <1>2, <1>4 DEF RegisterProvider, SetProviderStatus
<1>5. ASSUME NEW o \in Operators, NEW b \in Blobs, NEW s \in Shards, AcknowledgeShard(o, b, s)
      PROVE  StorageMovesOn(c)
  <2>1. placement' = placement /\ acknowledgements[c] \subseteq acknowledgements'[c]
    BY <1>5 DEF AcknowledgeShard, Typed
  <2>2. blobs'[c].status = blobs[c].status
    BY <1>1, <1>5 DEF AcknowledgeShard, BlobRecords
  <2> QED
    BY <2>1, <2>2 DEF StorageMovesOn
<1>6. ASSUME NEW owner \in Accounts, NEW b \in Blobs, NEW name \in NameChoices,
             NEW n \in ShardCounts, NEW e \in Expiries, NEW origin \in BlobOrigins,
             CreateBlobRecord(owner, b, name, n, e, origin),
             UNCHANGED <<storageVars, nextProviderId, providers>>
      PROVE  StorageMovesOn(c)
  <2>1. ~blobs[b].exists
    BY <1>6 DEF CreateBlobRecord, MayCreateRecord
  <2>2. blobs'[c].status = blobs[c].status
    BY <1>1, <1>6, <2>1 DEF CreateBlobRecord, Blank
  <2> QED
    BY <1>6, <2>2 DEF StorageMovesOn, storageVars
<1>7. ASSUME NEW o \in Accounts, NEW b \in Blobs,
             \/ FinalizeBlob(o, b)
             \/ \E s \in Shards : StartRecovery(o, b, s)
             \/ \E s \in Shards, p \in ProviderIds : RecordRebuiltShard(o, b, s, p)
      PROVE  StorageMovesOn(c)
  <2>1. UNCHANGED storageVars
    BY <1>7 DEF FinalizeBlob, StartRecovery, RecordRebuiltShard
  <2>2. \/ blobs[b].status = "Pending" /\ blobs' = [blobs EXCEPT ![b].status = "Active"]
        \/ blobs[b].status # "Pending" /\ blobs' = [blobs EXCEPT ![b].status = "Recovering"]
        \/ blobs[b].status # "Pending" /\ blobs' = [blobs EXCEPT ![b].status = "Rebuilt"]
    BY <1>7 DEF FinalizeBlob, MayFinalizeBlob, StartRecovery, MayStartRecovery,
                RecordRebuiltShard, MayRecordRebuiltShard
  <2>3. \/ blobs'[c].status = blobs[c].status
        \/ blobs[c].status = "Pending" /\ blobs'[c].status = "Active"
        \/ blobs[c].status # "Pending" /\ blobs'[c].status \in {"Recovering", "Rebuilt"}
    BY <1>1, <2>2 DEF BlobRecords
  <2> QED
    BY <2>1, <2>3 DEF StorageMovesOn, storageVars
<1>8. ASSUME NEW o \in Accounts, NEW b \in Blobs, NEW s \in Shards, NEW p \in ProviderIds,
             AssignShard(o, b, s, p) \/ ReassignShard(o, b, s, p)
      PROVE  StorageMovesOn(c)
  <2>1. /\ blobs' = blobs /\ acknowledgements' = acknowledgements
        /\ placement' = [placement EXCEPT ![b][s] = p]
        /\ placement[b][s] = NoProvider \/ blobs[b].status = "Recovering"
    BY <1>8 DEF AssignShard, MayAssignShard, ReassignShard, MayReassignShard
  <2>2. placement \in [Blobs -> [Shards -> {NoProvider} \cup ProviderIds]]
    BY DEF Typed
  <2> QED
    BY <2>1, <2>2 DEF StorageMovesOn
<1> QED
  BY <1>3, <1>4, <1>5, <1>6, <1>7, <1>8, StorageMoves

LEMMA PaymentMovesOnStep ==
  ASSUME IInv, [Next]_vars, NEW c \in Blobs
  PROVE  PaymentMovesOn(c)
<1>1. Typed /\ Blank(c) /\ MoneyInv(c)
  BY DEF IInv
<1>2. CASE blobPayments[c].status = "None"
  BY <1>1, <1>2 DEF MoneyInv, SoundMarkers, PaymentMovesOn, ClaimsOpen
<1>3. CASE blobPayments[c].status # "None"
  <2>1. LedgerGrows
    BY LedgerStep
  <2>2. /\ Terms(c)' = Terms(c)
        /\ providerSettlementClaimed[c] \subseteq providerSettlementClaimed'[c]
    BY <1>3, <2>1 DEF LedgerGrows
  <2>3. blobPayments'[c].providerRewardPerShard = blobPayments[c].providerRewardPerShard
    BY <2>2 DEF Terms
  <2>4. ClaimsOpen(c) => ClaimsOpen(c)'
    <3>0. blobPayments \in [Blobs -> PaymentRecords]
      BY <1>1 DEF Typed
    <3>1. CASE UNCHANGED moneyVars \/ \E amount \in 1..withdrawableProtocolFees :
                                        WithdrawProtocolFees(amount)
      BY <3>1 DEF moneyVars, WithdrawProtocolFees, ClaimsOpen
    <3>2. ASSUME NEW o \in Operators, NEW b \in Blobs, NEW claimed \in SUBSET Shards,
                 ClaimProviderSettlement(o, b, claimed)
          PROVE  ClaimsOpen(c) => ClaimsOpen(c)'
      BY <3>0, <3>2 DEF ClaimProviderSettlement, ClaimsOpen, PaymentRecords
    <3>3. ASSUME NEW o \in Accounts, NEW b \in Blobs, NEW name \in NameChoices,
                 NEW n \in ShardCounts, NEW e \in Expiries, NEW policy \in Policies,
                 NEW size \in Sizes, NEW tender \in Tenders,
                 CreateBlobPaid(o, b, name, n, e, policy, size, tender)
          PROVE  ClaimsOpen(c) => ClaimsOpen(c)'
      <4>1. ~blobs[b].exists
        BY <3>3 DEF CreateBlobPaid, CreateBlobRecord, MayCreateRecord
      <4>2. c # b
        BY <1>1, <1>3, <4>1 DEF Blank, NoPayment
      <4> QED
        BY <3>0, <3>3, <4>2 DEF CreateBlobPaid, ClaimsOpen
    <3>4. ASSUME NEW o \in Accounts, NEW b \in Blobs,
                 FinalizeBlob(o, b) \/ RefundPaidBlob(o, b)
          PROVE  ClaimsOpen(c) => ClaimsOpen(c)'
      <4>1. \/ blobPayments' = blobPayments
            \/ /\ blobPayments[b].status = "Escrowed"
               /\ \A d \in Blobs : d # b => blobPayments'[d] = blobPayments[d]
        BY <3>0, <3>4 DEF FinalizeBlob, OpensClaims, RefundPaidBlob, Refundable
      <4> QED
        BY <4>1 DEF ClaimsOpen
    <3> QED
      BY <3>1, <3>2, <3>3, <3>4, MoneyMoves
  <2> QED
    BY <2>2, <2>3, <2>4 DEF PaymentMovesOn
<1> QED
  BY <1>2, <1>3

(* The gateway registers providers and does nothing else to them.          *)
LEMMA ProviderCalls ==
  ASSUME Calls
  PROVE  /\ coordinators' = coordinators
         /\ UNCHANGED providerVars \/ \E o \in Operators : RegisterProvider(o)
<1> DEFINE Quiet == coordinators' = coordinators /\ UNCHANGED providerVars
<1>1. UNCHANGED <<adminVars, providerVars>> => Quiet
  BY DEF adminVars
<1>2. UNCHANGED vars => Quiet
  BY DEF vars, adminVars
<1>3. ASSUME NEW o \in Operators, RegisterProvider(o)
      PROVE  coordinators' = coordinators
  BY <1>3 DEF RegisterProvider, adminVars
<1>4. ASSUME NEW o \in Operators, NEW b \in Blobs, NEW s \in Shards, AcknowledgeShard(o, b, s)
      PROVE  Quiet
  BY <1>1, <1>4 DEF AcknowledgeShard
<1>5. ASSUME NEW o \in Operators, NEW b \in Blobs, NEW claimed \in SUBSET Shards,
             ClaimProviderSettlement(o, b, claimed)
      PROVE  Quiet
  BY <1>1, <1>5 DEF ClaimProviderSettlement
<1>6. ASSUME NEW b \in Blobs,
             \/ CreateOperatorBlob(Admin, b, NoName, NumProviders, NoExpiry)
             \/ \E a \in Accounts, n \in Names, e \in Timestamps, policy \in Policies,
                   size \in Sizes : CreateBlobPaid(a, b, n, NumProviders, e, policy, size, 0)
             \/ \E a \in Accounts : FinalizeBlob(a, b) \/ RefundPaidBlob(a, b)
      PROVE  Quiet
  BY <1>1, <1>6 DEF CreateOperatorBlob, CreateBlobPaid, FinalizeBlob, RefundPaidBlob
<1>7. ASSUME NEW a \in Accounts, NEW b \in Blobs, NEW s \in Shards,
             \/ \E p \in ProviderIds :
                  \/ AssignShard(a, b, s, p) \/ ReassignShard(a, b, s, p)
                  \/ RecordRebuiltShard(a, b, s, p)
             \/ StartRecovery(a, b, s)
      PROVE  Quiet
  BY <1>1, <1>7 DEF AssignShard, ReassignShard, RecordRebuiltShard, StartRecovery
<1>8. ASSUME NEW t \in Timestamps, Tick(t)
      PROVE  Quiet
  BY <1>1, <1>8 DEF Tick
<1>9. Quiet \/ \E o \in Operators : RegisterProvider(o)
  <2> HIDE DEF Quiet
  <2> QED
    BY <1>2, <1>4, <1>5, <1>6, <1>7, <1>8 DEF Calls
<1> QED
  BY <1>3, <1>9

LEMMA ProvidersMove ==
  ASSUME IInv, IInv', Calls
  PROVE  ProvidersMoveOn
<1>1. Typed /\ Typed' /\ nextProviderId \in Nat /\ nextProviderId' \in Nat
  BY BoundsAssumption DEF IInv, Typed
<1>2. CASE UNCHANGED providerVars
  BY <1>1, <1>2 DEF providerVars, ProvidersMoveOn, IsKnown
<1>3. ASSUME NEW o \in Operators, RegisterProvider(o)
      PROVE  ProvidersMoveOn
  <2>1. /\ nextProviderId' = nextProviderId + 1
        /\ providerIdByOperator[o] = NoProvider
        /\ providerIdByOperator' = [providerIdByOperator EXCEPT ![o] = nextProviderId]
    BY <1>3 DEF RegisterProvider, MayRegisterProvider
  <2>2. \A a \in Accounts : a # o => providerIdByOperator'[a] = providerIdByOperator[a]
    BY <1>1, <2>1 DEF Typed
  <2>3. \A p \in ProviderIds : p \in Nat
    BY BoundsAssumption DEF ProviderIds
  <2> QED
    BY <1>1, <2>1, <2>2, <2>3 DEF ProvidersMoveOn, IsKnown
<1> QED
  BY <1>2, <1>3, ProviderCalls

(* A finalized blob is registered and every shard of it placed.            *)
LEMMA FinalIsPlaced ==
  ASSUME IInv, BlobsServe, NEW b \in Blobs
  PROVE  /\ blobs[b].exists => ShardsOf(b) = Shards
         /\ blobs[b].status # "Pending" =>
              /\ blobs[b].exists
              /\ \A s \in Shards : IsKnown(placement[b][s])
              /\ \A s \in Shards : \E p \in ProviderIds : <<p, s>> \in acknowledgements[b]
         /\ blobs[b].status = "Active" => \A s \in Shards : AckedAt(b, s)
<1>1. Typed /\ Blank(b) /\ Acknowledged(b) /\ ProvidersKnown
  BY DEF IInv
<1>2. blobs[b].exists => ShardsOf(b) = Shards
  BY ProviderCount DEF BlobsServe, ShardsOf, Shards
<1>3. \A s \in Shards : placement[b][s] \in {NoProvider} \cup ProviderIds
  BY <1>1 DEF Typed
<1>4. ASSUME blobs[b].status # "Pending"
      PROVE  /\ blobs[b].exists
             /\ \A s \in Shards : IsKnown(placement[b][s])
             /\ \A s \in Shards : \E p \in ProviderIds : <<p, s>> \in acknowledgements[b]
  <2>1. blobs[b].exists
    BY <1>1, <1>4 DEF Blank
  <2> QED
    BY <1>1, <1>2, <1>3, <1>4, <2>1 DEF Acknowledged, ProvidersKnown, IsKnown
<1>5. blobs[b].status = "Active" => \A s \in Shards : AckedAt(b, s)
  BY <1>1, <1>2, <1>4 DEF Acknowledged, AckedShards, AckedAt
<1> QED
  BY <1>2, <1>4, <1>5

LEMMA ConfiguredStays ==
  ASSUME ProvidersMoveOn, NEW s \in Shards, Configured(s) # NoProvider
  PROVE  Configured(s)' = Configured(s)
<1>1. ProviderList[s + 1] \in Accounts
  BY ProviderCount
<1> QED
  BY <1>1 DEF Configured, ProvidersMoveOn

(* The server goes on serving every operator.                              *)
LEMMA ProvidersServeStep ==
  ASSUME GInv, IInv', [GatewayNext]_<<vars, gatewayVars>>, Calls, ProvidersMoveOn
  PROVE  ProvidersServe'
<1>0. Typed /\ Typed' /\ ProvidersServe /\ registered \in 0..NumProviders
  BY DEF GInv, GatewayTyped, IInv
<1>1. coordinators' = coordinators
  BY ProviderCalls
<1> DEFINE Serve == /\ \A p \in ProviderIds : IsKnown(p) =>
                         /\ providers[p].active
                         /\ providers[p].operator \in Operators
                         /\ providerIdByOperator[providers[p].operator] = p
                    /\ \A a \in Accounts : providerIdByOperator[a] # NoProvider =>
                         IsKnown(providerIdByOperator[a])
<1>2. Serve'
  <2>1. CASE UNCHANGED providerVars
    BY <1>0, <2>1 DEF ProvidersServe, providerVars, IsKnown
  <2>2. ASSUME NEW o \in Operators, RegisterProvider(o)
        PROVE  Serve'
    <3>1. /\ providerIdByOperator[o] = NoProvider /\ nextProviderId \in ProviderIds
          /\ nextProviderId' = nextProviderId + 1
          /\ providers' = [providers EXCEPT ![nextProviderId] = [operator |-> o, active |-> TRUE]]
          /\ providerIdByOperator' = [providerIdByOperator EXCEPT ![o] = nextProviderId]
      BY <2>2 DEF RegisterProvider, MayRegisterProvider
    <3>2. o \in Accounts /\ \A p \in ProviderIds : p \in Nat /\ p # NoProvider
      BY ProviderCount, BoundsAssumption DEF ProviderIds, NoProvider
    <3>3. \A p \in ProviderIds : IsKnown(p)' => p = nextProviderId \/ IsKnown(p)
      BY <1>0, <3>1, <3>2 DEF IsKnown, Typed
    <3>4. /\ providers'[nextProviderId] = [operator |-> o, active |-> TRUE]
          /\ \A p \in ProviderIds : p # nextProviderId => providers'[p] = providers[p]
          /\ providerIdByOperator'[o] = nextProviderId
          /\ \A a \in Accounts : a # o => providerIdByOperator'[a] = providerIdByOperator[a]
      BY <1>0, <3>1, <3>2 DEF Typed
    <3>5. ASSUME NEW p \in ProviderIds, IsKnown(p)'
          PROVE  /\ providers'[p].active
                 /\ providers'[p].operator \in Operators
                 /\ providerIdByOperator'[providers'[p].operator] = p
      <4>1. CASE p = nextProviderId
        BY <3>4, <4>1
      <4>2. CASE p # nextProviderId
        <5>1. /\ providers[p].active /\ providers[p].operator \in Operators
              /\ providerIdByOperator[providers[p].operator] = p
          BY <1>0, <3>3, <3>5, <4>2 DEF ProvidersServe
        <5>2. providers[p].operator # o /\ providers[p].operator \in Accounts
          BY <3>1, <3>2, <5>1, ProviderCount
        <5> QED
          BY <3>4, <4>2, <5>1, <5>2
      <4> QED
        BY <4>1, <4>2
    <3>6. ASSUME NEW a \in Accounts, providerIdByOperator'[a] # NoProvider
          PROVE  /\ providerIdByOperator'[a] \in ProviderIds
                 /\ providerIdByOperator'[a] < nextProviderId'
      <4>1. CASE a = o
        BY <1>0, <3>1, <3>2, <3>4, <4>1
      <4>2. CASE a # o
        <5>1. IsKnown(providerIdByOperator[a]) /\ providerIdByOperator'[a] = providerIdByOperator[a]
          BY <1>0, <3>4, <3>6, <4>2 DEF ProvidersServe
        <5> QED
          BY <1>0, <3>1, <3>2, <5>1 DEF IsKnown
      <4> QED
        BY <4>1, <4>2
    <3> QED
      BY <3>5, <3>6 DEF IsKnown
  <2> QED
    BY <2>1, <2>2, ProviderCalls
<1>3. \A i \in 1..registered' : providerIdByOperator'[ProviderList[i]] # NoProvider
  <2>1. ASSUME NEW i \in 1..registered
        PROVE  providerIdByOperator'[ProviderList[i]] # NoProvider
    <3>1. i \in 1..NumProviders /\ ProviderList[i] \in Accounts
      BY <1>0, ProviderCount
    <3> QED
      BY <1>0, <3>1 DEF ProvidersServe, ProvidersMoveOn
  <2>2. CASE registered' = registered \/ registered' = 0
    BY <2>1, <2>2
  <2>3. CASE RegisterConfigured
    <3>1. registered' = registered + 1 /\ registered + 1 \in 1..NumProviders
      BY <1>0, <2>3, ProviderCount DEF RegisterConfigured, Serving
    <3>2. NextOperator \in Accounts
      BY <3>1, ProviderCount DEF NextOperator
    <3>3. providerIdByOperator'[NextOperator] # NoProvider
      <4>1. CASE RegisterProvider(NextOperator)
        <5>1. providerIdByOperator'[NextOperator] = nextProviderId /\ nextProviderId \in ProviderIds
          BY <1>0, <3>2, <4>1 DEF RegisterProvider, MayRegisterProvider, Typed
        <5> QED
          BY <5>1, BoundsAssumption DEF ProviderIds, NoProvider
      <4>2. CASE KnownIsFine(NextOperator) /\ UNCHANGED vars
        BY <4>2 DEF KnownIsFine, vars, providerVars
      <4> QED
        BY <2>3, <4>1, <4>2 DEF RegisterConfigured
    <3> QED
      BY <1>0, <2>1, <3>1, <3>3 DEF NextOperator
  <2>4. registered' = registered \/ registered' = 0 \/ RegisterConfigured
    <3>1. ASSUME NEW r \in Requests, RequestStep(r)
          PROVE  registered' = registered
      BY <3>1 DEF RequestStep, Submit, Refuse, Mine, Revert, Place, Store, Reread, Index,
                  ReadAgain, Fetch
    <3>2. CASE Clients \/ OwnerSteps \/ FaultSteps
      BY <3>2, ZenonT(60) DEF Clients, BeginPut, BeginPost, BeginRebuild, OwnerSteps,
                  OwnerRegisters, OwnerIntervenes, Passing, gatewayVars, FaultSteps, FetchFails,
                  CallFails, IndexFails, Crash, LoseShard
    <3> QED
      BY <3>1, <3>2 DEF GatewayNext, gatewayVars
  <2> QED
    BY <2>2, <2>3, <2>4
<1> QED
  BY <1>0, <1>1, <1>2, <1>3 DEF ProvidersServe

(* A blob of the gateway's making has a shard for every provider.          *)
LEMMA ShardCountStep ==
  ASSUME Typed, Typed', Calls, [Next]_vars, NEW c \in Blobs,
         blobs[c].exists => blobs[c].totalShards = MaxShards, blobs'[c].exists
  PROVE  blobs'[c].totalShards = MaxShards
<1>1. CASE blobs[c].exists
  BY <1>1, RecordsStay DEF RecordStays
<1>2. CASE ~blobs[c].exists
  <2>0. blobs \in [Blobs -> BlobRecords]
    BY DEF Typed
  <2>1. ASSUME NEW owner, NEW name, NEW b \in Blobs, NEW e, NEW origin,
               CreateBlobRecord(owner, b, name, NumProviders, e, origin)
        PROVE  blobs'[c].totalShards = MaxShards
    <3>1. b = c \/ blobs'[c] = blobs[c]
      BY <2>0, <2>1 DEF CreateBlobRecord
    <3>2. b = c => blobs'[c].totalShards = NumProviders
      BY <2>0, <2>1 DEF CreateBlobRecord
    <3> QED
      BY <1>2, <3>1, <3>2, ProviderCount
  <2>2. blobs' = blobs => FALSE
    BY <1>2
  <2>3. ASSUME NEW b \in Blobs, \/ \E st \in BlobStatuses : blobs' = [blobs EXCEPT ![b].status = st]
                                \/ blobs' = [blobs EXCEPT ![b].acknowledgementCount = @ + 1]
        PROVE  FALSE
    BY <1>2, <2>0, <2>3 DEF BlobRecords
  <2>4. CASE UNCHANGED vars
    BY <2>2, <2>4 DEF vars
  <2>5. ASSUME NEW o \in Operators, \/ RegisterProvider(o)
                                    \/ \E b \in Blobs, claimed \in SUBSET Shards :
                                         ClaimProviderSettlement(o, b, claimed)
        PROVE  FALSE
    BY <2>2, <2>5 DEF RegisterProvider, ClaimProviderSettlement
  <2>6. ASSUME NEW b \in Blobs,
               \/ CreateOperatorBlob(Admin, b, NoName, NumProviders, NoExpiry)
               \/ \E a \in Accounts, n \in Names, e \in Timestamps, policy \in Policies,
                     size \in Sizes : CreateBlobPaid(a, b, n, NumProviders, e, policy, size, 0)
        PROVE  blobs'[c].totalShards = MaxShards
    BY <2>1, <2>6 DEF CreateOperatorBlob, CreateBlobPaid
  <2>7. ASSUME NEW o \in Operators, NEW b \in Blobs, NEW s \in Shards, AcknowledgeShard(o, b, s)
        PROVE  FALSE
    BY <2>2, <2>3, <2>7 DEF AcknowledgeShard
  <2>8. ASSUME NEW a \in Accounts, NEW b \in Blobs,
               \/ FinalizeBlob(a, b)
               \/ \E s \in Shards : StartRecovery(a, b, s)
               \/ \E s \in Shards, p \in ProviderIds : RecordRebuiltShard(a, b, s, p)
        PROVE  FALSE
    <3>1. \E st \in BlobStatuses : blobs' = [blobs EXCEPT ![b].status = st]
      BY <2>8 DEF FinalizeBlob, StartRecovery, RecordRebuiltShard, BlobStatuses
    <3> QED
      BY <2>3, <3>1
  <2>9. ASSUME NEW a \in Accounts, NEW b \in Blobs,
               \/ RefundPaidBlob(a, b)
               \/ \E s \in Shards, p \in ProviderIds :
                    AssignShard(a, b, s, p) \/ ReassignShard(a, b, s, p)
        PROVE  FALSE
    BY <2>2, <2>9 DEF RefundPaidBlob, AssignShard, ReassignShard
  <2>10. ASSUME NEW t \in Timestamps, Tick(t)
         PROVE  FALSE
    BY <2>2, <2>10 DEF Tick
  <2> QED
    BY <2>4, <2>5, <2>6, <2>7, <2>8, <2>9, <2>10 DEF Calls
<1> QED
  BY <1>1, <1>2

(* A payment opens to claims with the finalization.                        *)
LEMMA OpenIsFinalStep ==
  ASSUME Typed, [Next]_vars, NEW c \in Blobs, StorageMovesOn(c),
         ClaimsOpen(c) => blobs[c].status # "Pending", ClaimsOpen(c)'
  PROVE  blobs'[c].status # "Pending"
<1>1. CASE ClaimsOpen(c)
  BY <1>1 DEF StorageMovesOn
<1>2. CASE ~ClaimsOpen(c)
  <2>0. blobPayments \in [Blobs -> PaymentRecords] /\ blobs \in [Blobs -> BlobRecords]
    BY DEF Typed
  <2>1. blobPayments'[c] # blobPayments[c]
    BY <1>2 DEF ClaimsOpen
  <2>2. CASE UNCHANGED moneyVars \/ \E amount \in 1..withdrawableProtocolFees :
                                      WithdrawProtocolFees(amount)
    BY <2>1, <2>2 DEF moneyVars, WithdrawProtocolFees
  <2>3. ASSUME NEW o \in Operators, NEW b \in Blobs, NEW claimed \in SUBSET Shards,
               ClaimProviderSettlement(o, b, claimed)
        PROVE  FALSE
    <3>1. /\ blobPayments[b].status \in {"Claimable", "PartiallySettled"}
          /\ \A d \in Blobs : d # b => blobPayments'[d] = blobPayments[d]
      BY <2>0, <2>3 DEF ClaimProviderSettlement, MayClaimSettlement
    <3> QED
      BY <1>2, <2>1, <3>1 DEF ClaimsOpen
  <2>4. ASSUME NEW o \in Accounts, NEW b \in Blobs, NEW name \in NameChoices,
               NEW n \in ShardCounts, NEW e \in Expiries, NEW policy \in Policies,
               NEW size \in Sizes, NEW tender \in Tenders,
               CreateBlobPaid(o, b, name, n, e, policy, size, tender)
        PROVE  FALSE
    <3>1. /\ blobPayments'[b].status = "Escrowed"
          /\ \A d \in Blobs : d # b => blobPayments'[d] = blobPayments[d]
      BY <2>0, <2>4 DEF CreateBlobPaid
    <3> QED
      BY <2>1, <3>1 DEF ClaimsOpen
  <2>5. ASSUME NEW o \in Accounts, NEW b \in Blobs, FinalizeBlob(o, b)
        PROVE  blobs'[c].status # "Pending"
    <3>1. \A d \in Blobs : d # b => blobPayments'[d] = blobPayments[d]
      BY <2>0, <2>5 DEF FinalizeBlob
    <3>2. blobs'[b].status = "Active"
      BY <2>0, <2>5 DEF FinalizeBlob, BlobRecords
    <3> QED
      BY <2>1, <3>1, <3>2
  <2>6. ASSUME NEW o \in Accounts, NEW b \in Blobs, RefundPaidBlob(o, b)
        PROVE  FALSE
    <3>1. /\ blobPayments'[b].status = "Refunded"
          /\ \A d \in Blobs : d # b => blobPayments'[d] = blobPayments[d]
      BY <2>0, <2>6 DEF RefundPaidBlob, PaymentRecords
    <3> QED
      BY <2>1, <3>1 DEF ClaimsOpen
  <2> QED
    BY <2>2, <2>3, <2>4, <2>5, <2>6, MoneyMoves
<1> QED
  BY <1>1, <1>2

(* Only a claim marks shards as paid.                                      *)
LEMMA MarkingCalls ==
  ASSUME Calls
  PROVE  \/ providerSettlementClaimed' = providerSettlementClaimed
         \/ \E o \in Operators, b \in Blobs, claimed \in SUBSET Shards :
              /\ ClaimProviderSettlement(o, b, claimed)
              /\ blobs[b].status = "Active" =>
                   claimed = {s \in Shards : placement[b][s] = providerIdByOperator[o]}
<1> DEFINE Same == providerSettlementClaimed' = providerSettlementClaimed
<1>1. UNCHANGED claimVars \/ UNCHANGED moneyVars => Same
  BY DEF claimVars, moneyVars
<1>2. UNCHANGED vars => Same
  BY <1>1 DEF vars
<1>3. ASSUME NEW o \in Operators,
             RegisterProvider(o) \/ \E b \in Blobs, s \in Shards : AcknowledgeShard(o, b, s)
      PROVE  Same
  BY <1>1, <1>3 DEF RegisterProvider, AcknowledgeShard
<1>4. ASSUME NEW b \in Blobs,
             \/ CreateOperatorBlob(Admin, b, NoName, NumProviders, NoExpiry)
             \/ \E a \in Accounts, n \in Names, e \in Timestamps, policy \in Policies,
                   size \in Sizes : CreateBlobPaid(a, b, n, NumProviders, e, policy, size, 0)
             \/ \E a \in Accounts : FinalizeBlob(a, b) \/ RefundPaidBlob(a, b)
      PROVE  Same
  BY <1>1, <1>4 DEF CreateOperatorBlob, CreateBlobPaid, FinalizeBlob, RefundPaidBlob
<1>5. ASSUME NEW a \in Accounts, NEW b \in Blobs, NEW s \in Shards,
             \/ \E p \in ProviderIds :
                  \/ AssignShard(a, b, s, p) \/ ReassignShard(a, b, s, p)
                  \/ RecordRebuiltShard(a, b, s, p)
             \/ StartRecovery(a, b, s)
      PROVE  Same
  BY <1>1, <1>5 DEF AssignShard, ReassignShard, RecordRebuiltShard, StartRecovery
<1>6. ASSUME NEW t \in Timestamps, Tick(t)
      PROVE  Same
  BY <1>1, <1>6 DEF Tick
<1> HIDE DEF Same
<1>7. \/ Same
      \/ \E o \in Operators, b \in Blobs, claimed \in SUBSET Shards :
           /\ ClaimProviderSettlement(o, b, claimed)
           /\ blobs[b].status = "Active" =>
                claimed = {s \in Shards : placement[b][s] = providerIdByOperator[o]}
  BY <1>2, <1>3, <1>4, <1>5, <1>6 DEF Calls
<1> QED
  BY <1>7 DEF Same

LEMMA PaidTogetherStep ==
  ASSUME IInv, BlobsServe, Calls, NEW c \in Blobs, StorageMovesOn(c)
  PROVE  PaidTogether(c)'
<1>0. /\ Typed /\ MoneyInv(c) /\ PaidTogether(c)
      /\ providerSettlementClaimed \in [Blobs -> SUBSET Shards]
  BY DEF IInv, Typed, BlobsServe
<1> SUFFICES ASSUME blobs'[c].status = "Active"
             PROVE  PaidTogether(c)'
  BY DEF PaidTogether
<1>1. CASE blobs[c].status = "Pending"
  <2>1. ~ClaimsOpen(c)
    BY <1>1 DEF BlobsServe
  <2>2. blobPayments[c].status \in {"None", "Escrowed", "Refunded"}
    BY <1>0, <2>1 DEF Typed, PaymentRecords, PaymentStatuses, ClaimsOpen
  <2>3. providerSettlementClaimed[c] = {}
    BY <1>0, <2>2 DEF MoneyInv, SoundMarkers
  <2>4. ASSUME NEW o \in Operators, NEW b \in Blobs, NEW claimed \in SUBSET Shards,
               ClaimProviderSettlement(o, b, claimed)
        PROVE  providerSettlementClaimed'[c] = providerSettlementClaimed[c]
    <3>1. /\ blobs[b].status # "Pending"
          /\ providerSettlementClaimed' = [providerSettlementClaimed EXCEPT
                                             ![b] = @ \cup NewRewards(b, claimed)]
      BY <2>4 DEF ClaimProviderSettlement, MayClaimSettlement
    <3> QED
      BY <1>0, <1>1, <3>1
  <2>5. providerSettlementClaimed'[c] = {}
    BY <2>3, <2>4, MarkingCalls
  <2> QED
    BY <2>5 DEF PaidTogether
<1>2. CASE blobs[c].status = "Active"
  <2>1. \A s \in Shards : placement[c][s] # NoProvider
    BY <1>2, FinalIsPlaced, BoundsAssumption DEF IsKnown, ProviderIds, NoProvider
  <2>2. \A s \in Shards : placement'[c][s] = placement[c][s]
    BY <1>2, <2>1 DEF StorageMovesOn
  <2>3. CASE providerSettlementClaimed' = providerSettlementClaimed
    BY <1>0, <1>2, <2>2, <2>3 DEF PaidTogether
  <2>4. ASSUME NEW o \in Operators, NEW b \in Blobs, NEW claimed \in SUBSET Shards,
               ClaimProviderSettlement(o, b, claimed),
               blobs[b].status = "Active" =>
                 claimed = {s \in Shards : placement[b][s] = providerIdByOperator[o]}
        PROVE  PaidTogether(c)'
    <3>1. providerSettlementClaimed' =
            [providerSettlementClaimed EXCEPT ![b] = @ \cup NewRewards(b, claimed)]
      BY <2>4 DEF ClaimProviderSettlement
    <3>2. CASE b # c
      <4>1. providerSettlementClaimed'[c] = providerSettlementClaimed[c]
        BY <1>0, <3>1, <3>2
      <4> QED
        BY <1>0, <1>2, <2>2, <4>1 DEF PaidTogether
    <3>3. CASE b = c
      <4>1. providerSettlementClaimed'[c] = providerSettlementClaimed[c] \cup claimed
        BY <1>0, <3>1, <3>3 DEF NewRewards
      <4>2. claimed = {s \in Shards : placement[c][s] = providerIdByOperator[o]}
        BY <1>2, <2>4, <3>3
      <4> QED
        BY <1>0, <1>2, <2>2, <4>1, <4>2 DEF PaidTogether
    <3> QED
      BY <3>2, <3>3
  <2> QED
    BY <2>3, <2>4, MarkingCalls
<1> QED
  BY <1>1, <1>2 DEF StorageMovesOn

LEMMA BlobsServeStep ==
  ASSUME IInv, IInv', BlobsServe, Calls, [Next]_vars, ProvidersMoveOn,
         \A b \in Blobs : StorageMovesOn(b)
  PROVE  BlobsServe'
<1>0. Typed /\ Typed'
  BY DEF IInv
<1>1. ASSUME NEW b \in Blobs, blobs'[b].exists PROVE blobs'[b].totalShards = MaxShards
  BY <1>0, <1>1, ShardCountStep DEF BlobsServe
<1>2. ASSUME NEW b \in Blobs, ClaimsOpen(b)' PROVE blobs'[b].status # "Pending"
  BY <1>0, <1>2, OpenIsFinalStep DEF BlobsServe
<1>3. ASSUME NEW b \in Blobs PROVE PaidTogether(b)'
  BY PaidTogetherStep
<1> QED
  BY <1>1, <1>2, <1>3 DEF BlobsServe
-----------------------------------------------------------------------------
(* A step of one request takes nothing from another.                       *)

WorldMovesOn ==
  /\ now \in Nat /\ now' \in Nat /\ now <= now'
  /\ ProvidersMoveOn
  /\ \A b \in Blobs :
       /\ RecordStays(b) /\ StorageMovesOn(b) /\ PaymentMovesOn(b)
       /\ files[b] \cup lost[b] \subseteq files'[b] \cup lost'[b]

(* The world a request finds itself in, before and after a step.           *)
GoodWorld == IInv /\ ProvidersServe /\ BlobsServe

LEMMA AckedStays ==
  ASSUME IInv, NEW b \in Blobs, StorageMovesOn(b), blobs[b].status \in {"Pending", "Active"},
         NEW s \in Shards, AckedAt(b, s)
  PROVE  AckedAt(b, s)'
<1>1. acknowledgements[b] \subseteq ProviderIds \X Shards
  BY DEF IInv, Typed
<1>2. placement[b][s] # NoProvider
  BY <1>1, BoundsAssumption DEF AckedAt, ProviderIds, NoProvider
<1> QED
  BY <1>2 DEF AckedAt, StorageMovesOn

(* While a blob stays Active its placement stays whole.                    *)
LEMMA ActivePlacementStays ==
  ASSUME IInv, IInv', BlobsServe, NEW b \in Blobs, StorageMovesOn(b),
         blobs[b].status # "Pending", blobs'[b].status = "Active"
  PROVE  blobs[b].status = "Active" /\ placement'[b] = placement[b]
<1>1. blobs[b].status = "Active"
  BY DEF StorageMovesOn
<1>2. \A s \in Shards : placement[b][s] # NoProvider
  BY <1>1, FinalIsPlaced, BoundsAssumption DEF IsKnown, ProviderIds, NoProvider
<1>3. \A s \in Shards : placement'[b][s] = placement[b][s]
  BY <1>1, <1>2 DEF StorageMovesOn
<1>4. /\ placement[b] \in [Shards -> {NoProvider} \cup ProviderIds]
      /\ placement'[b] \in [Shards -> {NoProvider} \cup ProviderIds]
  BY DEF IInv, Typed
<1> QED
  BY <1>1, <1>3, <1>4

LEMMA AddressesStay ==
  ASSUME GoodWorld, WorldMovesOn, NEW q \in RequestRecords, Addresses(q), InPlace(q)
  PROVE  Addresses(q)'
<1>1. /\ nextProviderId \in Nat /\ nextProviderId' \in Nat /\ nextProviderId <= nextProviderId'
      /\ \A p \in MaybeProvider : p \in Nat
  BY BoundsAssumption DEF WorldMovesOn, ProvidersMoveOn, MaybeProvider, ProviderIds, NoProvider
<1>2. /\ q.provider \in MaybeProvider /\ q.shard \in Shards
      /\ \A s \in Shards : q.placed[s] \in MaybeProvider
  BY DEF RequestRecords
<1>3. q.provider < nextProviderId' /\ \A s \in Shards : q.placed[s] < nextProviderId'
  BY <1>1, <1>2 DEF Addresses
<1>4. q.step \in RebuildSteps => blobs'[q.blob].exists
  BY DEF Addresses, InPlace, RebuildSteps, WorldMovesOn, RecordStays
<1> QED
  BY <1>3, <1>4 DEF Addresses

LEMMA StoredStays ==
  ASSUME WorldMovesOn, NEW q \in RequestRecords, Stored(q), InPlace(q)
  PROVE  Stored(q)'
<1>1. q.step \in {"Acknowledge", "Reacknowledge"} => q.blob \in Blobs
  BY DEF InPlace
<1> QED
  BY <1>1 DEF Stored, WorldMovesOn

LEMMA UploadsStay ==
  ASSUME GoodWorld, WorldMovesOn, NEW q \in RequestRecords, Uploads(q), InPlace(q),
         Addresses(q)
  PROVE  Uploads(q)'
<1> DEFINE b == q.blob
<1> SUFFICES ASSUME q.kind = "Put"
             PROVE  Uploads(q)'
  BY DEF Uploads
<1>1. b \in Blobs
  BY DEF InPlace
<1>2. RecordStays(b) /\ StorageMovesOn(b) /\ IInv
  BY <1>1 DEF WorldMovesOn, GoodWorld
<1>3. blobs'[b].exists /\ blobs'[b].owner \in Accounts /\ blobNames'[b] \in Names
  BY <1>1, <1>2 DEF Uploads, RecordStays
<1> SUFFICES ASSUME blobs'[b].status = "Pending"
             PROVE  /\ q.step \notin {"Reread", "Claim", "Index"}
                    /\ \A s \in Shards : q.placed[s] # NoProvider => placement'[b][s] = q.placed[s]
                    /\ \A s \in q.acked : AckedAt(b, s)'
                    /\ q.step \in {"Assign", "Store", "Acknowledge"} =>
                         \A s \in Shards : s < q.shard => AckedAt(b, s)'
                    /\ q.step = "Acknowledge" /\ q.sent => placement'[b][q.shard] = q.provider
                    /\ q.step = "Finalize" => \A s \in Shards : AckedAt(b, s)'
  BY <1>1, <1>3 DEF Uploads, AckedAt
<1>4. blobs[b].status = "Pending"
  BY <1>2 DEF StorageMovesOn
<1>5. /\ q.step \notin {"Reread", "Claim", "Index"}
      /\ \A s \in Shards : q.placed[s] # NoProvider => placement[b][s] = q.placed[s]
      /\ \A s \in q.acked : AckedAt(b, s)
      /\ q.step \in {"Assign", "Store", "Acknowledge"} =>
           \A s \in Shards : s < q.shard => AckedAt(b, s)
      /\ q.step = "Acknowledge" /\ q.sent => placement[b][q.shard] = q.provider
      /\ q.step = "Finalize" => \A s \in Shards : AckedAt(b, s)
  BY <1>1, <1>4 DEF Uploads
<1>6. \A s \in Shards : AckedAt(b, s) => AckedAt(b, s)'
  BY <1>1, <1>2, <1>4, AckedStays
<1>7. \A s \in Shards : placement[b][s] # NoProvider => placement'[b][s] = placement[b][s]
  BY <1>2, <1>4 DEF StorageMovesOn
<1>8. q.shard \in Shards /\ q.acked \subseteq Shards
  BY <1>1 DEF RequestRecords
<1>9. q.step = "Acknowledge" => q.provider # NoProvider
  BY DEF Addresses, ProviderSteps
<1> QED
  BY <1>5, <1>6, <1>7, <1>8, <1>9

(* A claim that would have paid still does, or has been paid meanwhile.    *)
LEMMA ClaimsStay ==
  ASSUME GoodWorld, GoodWorld', WorldMovesOn, NEW q \in RequestRecords, Claims(q), InPlace(q)
  PROVE  Claims(q)'
<1> DEFINE b == q.blob
           share == ShardsAt(q, q.provider)
<1> SUFFICES ASSUME q.step = "Claim"
             PROVE  Claims(q)'
  BY DEF Claims
<1>2. /\ b \in Blobs /\ q.claims \subseteq MaybeProvider
      /\ q.provider \in q.claims
      /\ \A p \in q.claims : IsKnown(p) /\ ShardsAt(q, p) # {}
      /\ blobs[b].exists /\ ClaimsOpen(b)
      /\ blobs[b].status = "Active" =>
           /\ q.placed = placement[b]
           /\ q.sent =>
                \/ share \subseteq providerSettlementClaimed[b]
                \/ /\ share \cap providerSettlementClaimed[b] = {}
                   /\ \/ blobPayments[b].providerRewardPerShard > 0
                      \/ now >= blobs[b].expiresAt
  BY DEF Claims, InPlace, RequestRecords
<1>3. RecordStays(b) /\ StorageMovesOn(b) /\ PaymentMovesOn(b) /\ PaidTogether(b)'
      /\ now \in Nat /\ now' \in Nat /\ now <= now'
  <2>1. \A c \in Blobs : PaidTogether(c)'
    BY DEF GoodWorld, BlobsServe
  <2> QED
    BY <1>2, <2>1 DEF WorldMovesOn
<1>4. \A p \in q.claims : IsKnown(p)'
  BY <1>2 DEF WorldMovesOn, ProvidersMoveOn, IsKnown
<1>5. blobs'[b].exists /\ blobs'[b].expiresAt = blobs[b].expiresAt
  BY <1>2, <1>3 DEF RecordStays
<1>6. /\ ClaimsOpen(b)'
      /\ blobPayments'[b].providerRewardPerShard = blobPayments[b].providerRewardPerShard
      /\ providerSettlementClaimed[b] \subseteq providerSettlementClaimed'[b]
  BY <1>2, <1>3 DEF PaymentMovesOn
<1>7. ASSUME blobs'[b].status = "Active"
      PROVE  /\ blobs[b].status = "Active" /\ placement'[b] = placement[b]
             /\ \A s, t \in Shards : placement[b][s] = placement[b][t] =>
                  (s \in providerSettlementClaimed'[b] <=> t \in providerSettlementClaimed'[b])
  <2>1. blobs[b].status # "Pending"
    BY <1>2 DEF GoodWorld, BlobsServe
  <2>2. blobs[b].status = "Active" /\ placement'[b] = placement[b]
    BY <1>2, <1>3, <1>7, <2>1, ActivePlacementStays DEF GoodWorld
  <2> QED
    BY <1>3, <1>7, <2>2 DEF PaidTogether
<1>8. ASSUME blobs'[b].status = "Active", q.sent
      PROVE  \/ share \subseteq providerSettlementClaimed'[b]
             \/ /\ share \cap providerSettlementClaimed'[b] = {}
                /\ \/ blobPayments'[b].providerRewardPerShard > 0
                   \/ now' >= blobs'[b].expiresAt
  <2>1. \/ share \subseteq providerSettlementClaimed'[b]
        \/ share \cap providerSettlementClaimed'[b] = {}
    BY <1>2, <1>7, <1>8 DEF ShardsAt
  <2>2. CASE share \subseteq providerSettlementClaimed[b]
    BY <1>6, <2>2
  <2>3. ASSUME blobPayments[b].providerRewardPerShard > 0 \/ now >= blobs[b].expiresAt
        PROVE  \/ blobPayments'[b].providerRewardPerShard > 0
               \/ now' >= blobs'[b].expiresAt
    <3>1. blobs[b].expiresAt \in Nat
      BY <1>2, DataAssumption DEF GoodWorld, IInv, Typed, BlobRecords, Expiries, NoExpiry
    <3> QED
      BY <1>3, <1>5, <1>6, <2>3, <3>1
  <2> QED
    BY <1>2, <1>7, <1>8, <2>1, <2>2, <2>3
<1> HIDE DEF share
<1>9. blobs'[b].status = "Active" => q.placed = placement'[b]
  BY <1>2, <1>7
<1> USE DEF share
<1> QED
  BY <1>2, <1>4, <1>5, <1>6, <1>8, <1>9 DEF Claims

LEMMA ReportsStay ==
  ASSUME WorldMovesOn, NEW q \in RequestRecords, Uploads(q), Reports(q), InPlace(q)
  PROVE  Reports(q)'
<1> DEFINE b == q.blob
<1> SUFFICES ASSUME q.kind = "Put"
             PROVE  Reports(q)'
  BY DEF Reports
<1>1. b \in Blobs
  BY DEF InPlace
<1>2. StorageMovesOn(b) /\ PaymentMovesOn(b)
  BY <1>1 DEF WorldMovesOn
<1>3. blobs'[b].status = "Active" => blobs[b].status = "Active" \/ q.reported = {}
  BY <1>1, <1>2 DEF Reports, Uploads, StorageMovesOn
<1> QED
  BY <1>1, <1>2, <1>3 DEF Reports, PaymentMovesOn

LEMMA KnowledgeStays ==
  ASSUME GoodWorld, GoodWorld', WorldMovesOn, NEW q \in RequestRecords, Knows(q), InPlace(q)
  PROVE  Knows(q)'
BY AddressesStay, StoredStays, UploadsStay, ClaimsStay, ReportsStay DEF Knows

(* A request that is over knows nothing.                                   *)
LEMMA IdleKnows ==
  ASSUME IInv'
  PROVE  Knows(Idle)'
<1>1. 0 < nextProviderId'
  BY BoundsAssumption DEF IInv, Typed
<1> QED
  BY <1>1 DEF Idle, Knows, Addresses, Stored, Uploads, Claims, Reports, ProviderSteps,
              RebuildSteps, NoProvider

(* What is in flight knows as much without its request.                    *)
LEMMA OrphanKnows ==
  ASSUME NEW q \in RequestRecords, Knows(q)'
  PROVE  Knows([q EXCEPT !.kind = "Orphan"])'
<1> DEFINE o == [q EXCEPT !.kind = "Orphan"]
<1>1. /\ o.step = q.step /\ o.shard = q.shard /\ o.provider = q.provider
      /\ o.placed = q.placed /\ o.claims = q.claims
      /\ o.blob = q.blob /\ o.sent = q.sent /\ o.kind = "Orphan"
  BY DEF RequestRecords
<1> HIDE DEF o
<1>2. Addresses(o)' /\ Stored(o)' /\ Uploads(o)' /\ Reports(o)'
  BY <1>1 DEF Knows, Addresses, Stored, Uploads, Reports
<1>3. Claims(o)'
  BY <1>1 DEF Knows, Claims, ShardsAt
<1> QED
  BY <1>2, <1>3 DEF Knows, o

(* A record that knows the new world.                                      *)
LEMMA KnowsAs ==
  ASSUME NEW r \in Requests, NEW o, requests'[r] = o, Knows(o)'
  PROVE  Knows(requests[r])'
<1>1. Addresses(requests[r])'
  BY DEF Knows, Addresses
<1>2. Stored(requests[r])' /\ Uploads(requests[r])' /\ Reports(requests[r])'
  BY DEF Knows, Stored, Uploads, Reports, AckedAt
<1>3. Claims(requests[r])'
  BY DEF Knows, Claims, ShardsAt, ClaimsOpen
<1> QED
  BY <1>1, <1>2, <1>3 DEF Knows
-----------------------------------------------------------------------------
(* What follows a transaction.                                             *)

(* The step after a call, where the request has nothing else to change.    *)
NextStep(step) ==
  CASE step = "Create" -> "Place"
    [] step = "Assign" -> "Store"
    [] step = "Finalize" -> "Reread"
    [] step = "Start" -> "Reassign"
    [] step = "Reassign" -> "Restore"
    [] step = "Reacknowledge" -> "Record"

LEMMA AfterPlainTx ==
  ASSUME NEW q \in RequestRecords,
         q.step \in {"Create", "Assign", "Finalize", "Start", "Reassign", "Reacknowledge"}
  PROVE  /\ AfterTx(q) = [q EXCEPT !.step = NextStep(q.step), !.sent = FALSE]
         /\ AfterTx(q) \in RequestRecords
<1>1. CASE q.step = "Create"
  BY <1>1 DEF AfterTx, NextStep, RequestRecords, Steps, UploadSteps
<1>2. CASE q.step = "Assign"
  BY <1>2 DEF AfterTx, AfterAssign, NextStep, RequestRecords, Steps, UploadSteps
<1>3. CASE q.step = "Finalize"
  BY <1>3 DEF AfterTx, NextStep, RequestRecords, Steps, UploadSteps
<1>4. CASE q.step = "Start"
  BY <1>4 DEF AfterTx, NextStep, RequestRecords, Steps, RebuildSteps
<1>5. CASE q.step = "Reassign"
  BY <1>5 DEF AfterTx, NextStep, RequestRecords, Steps, RebuildSteps
<1>6. CASE q.step = "Reacknowledge"
  BY <1>6 DEF AfterTx, AfterReacknowledge, NextStep, RequestRecords, Steps, RebuildSteps
<1> QED
  BY <1>1, <1>2, <1>3, <1>4, <1>5, <1>6

(* It goes on as the record a, but with nothing in flight.                 *)
LandsAs(o, a) ==
  /\ o.kind = a.kind /\ o.blob = a.blob /\ o.step = a.step /\ o.shard = a.shard
  /\ o.provider = a.provider /\ o.placed = a.placed /\ o.acked = a.acked
  /\ o.missing = a.missing /\ o.claims = a.claims /\ o.reported = a.reported
  /\ o.last = a.last /\ ~o.sent

LEMMA LandsIs ==
  ASSUME NEW a \in RequestRecords
  PROVE  [a EXCEPT !.sent = FALSE] \in RequestRecords /\ LandsAs([a EXCEPT !.sent = FALSE], a)
BY DEF RequestRecords, LandsAs

LEMMA AfterAcknowledgeTx ==
  ASSUME Typed, NEW q \in RequestRecords, q.step = "Acknowledge"
  PROVE  AfterTx(q) \in RequestRecords /\ LandsAs(AfterTx(q), AfterShard(q))
<1>1. AfterTx(q) = [AfterShard(q) EXCEPT !.sent = FALSE]
  BY DEF AfterTx
<1> QED
  BY <1>1, AfterShardIs, LandsIs

LEMMA AfterClaimTx ==
  ASSUME NEW q \in RequestRecords, q.step = "Claim", \A p \in q.claims : ShardsAt(q, p) # {}
  PROVE  LET o == AfterTx(q) IN
         /\ o \in RequestRecords /\ o.kind = q.kind /\ o.blob = q.blob /\ ~o.sent
         /\ o.reported = q.reported \cup ShardsAt(q, q.provider)
         /\ \/ o.step = "Index" /\ Unread(o)
            \/ /\ o.step = "Claim" /\ Reads(o, q)
               /\ o.claims \subseteq q.claims
               /\ o.provider \in o.claims
<1> DEFINE a == [q EXCEPT !.claims = @ \ {q.provider},
                          !.reported = @ \cup ShardsAt(q, q.provider)]
<1>1. /\ a \in RequestRecords /\ a.kind = q.kind /\ a.blob = q.blob /\ a.placed = q.placed
      /\ a.acked = q.acked /\ a.reported = q.reported \cup ShardsAt(q, q.provider)
      /\ a.claims \subseteq q.claims
  BY DEF RequestRecords, ShardsAt
<1>2. \A p : ShardsAt(a, p) = ShardsAt(q, p)
  BY <1>1 DEF ShardsAt
<1>3. \A p \in a.claims : ShardsAt(a, p) # {}
  BY <1>1, <1>2
<1>4. AfterTx(q) = [OnClaims(a) EXCEPT !.sent = FALSE]
  BY DEF AfterTx, AfterClaim
<1> HIDE DEF a
<1>5. /\ OnClaims(a) \in RequestRecords /\ Keeps(OnClaims(a), a)
      /\ \/ OnClaims(a).step = "Index" /\ Unread(OnClaims(a))
         \/ /\ OnClaims(a).step = "Claim" /\ Reads(OnClaims(a), a)
            /\ OnClaims(a).claims = a.claims
            /\ OnClaims(a).provider \in a.claims
  BY <1>1, <1>3, OnClaimsIs
<1>6. AfterTx(q) \in RequestRecords /\ LandsAs(AfterTx(q), OnClaims(a))
  BY <1>4, <1>5, LandsIs
<1> QED
  BY <1>1, <1>5, <1>6 DEF LandsAs, Keeps, Reads, Unread

LEMMA AfterRecordTx ==
  ASSUME NEW q \in RequestRecords, q.step = "Record"
  PROVE  LET o == AfterTx(q) IN
         /\ o \in RequestRecords /\ o.kind = q.kind /\ o.blob = q.blob /\ ~o.sent
         /\ o.reported = q.reported /\ Reads(o, q)
         /\ o.step \in {"Read", "Start"}
         /\ o.provider = q.provider \/ \E s \in Shards : o.provider = q.placed[s]
<1> DEFINE a == [q EXCEPT !.missing = @ \ {q.shard}]
<1>1. /\ a \in RequestRecords /\ Keeps(a, q) /\ Reads(a, q) /\ a.provider = q.provider
  BY DEF RequestRecords, Keeps, Reads
<1>2. AfterTx(q) = [OnRebuild(a) EXCEPT !.sent = FALSE]
  BY DEF AfterTx
<1> HIDE DEF a
<1>3. AfterTx(q) \in RequestRecords /\ LandsAs(AfterTx(q), OnRebuild(a))
  BY <1>1, <1>2, OnRebuildIs, LandsIs
<1> QED
  BY <1>1, <1>3, OnRebuildIs DEF LandsAs, Keeps, Reads

(* Whatever the call was.                                                  *)
LEMMA AfterTxIs ==
  ASSUME Typed, NEW q \in RequestRecords, q.step \in TxSteps,
         q.step = "Claim" => \A p \in q.claims : ShardsAt(q, p) # {}
  PROVE  LET o == AfterTx(q) IN
         o \in RequestRecords /\ o.kind = q.kind /\ o.blob = q.blob /\ ~o.sent
<1>1. CASE q.step \in {"Create", "Assign", "Finalize", "Start", "Reassign", "Reacknowledge"}
  BY <1>1, AfterPlainTx, ZenonT(60) DEF RequestRecords
<1>2. CASE q.step = "Acknowledge"
  BY <1>2, AfterAcknowledgeTx, AfterShardIs DEF LandsAs, Keeps
<1> QED
  BY <1>1, <1>2, AfterClaimTx, AfterRecordTx DEF TxSteps
-----------------------------------------------------------------------------
(* The world moves on with every step.                                     *)

LEMMA ClockStep ==
  ASSUME Typed, Typed', Calls
  PROVE  now \in Nat /\ now' \in Nat /\ now <= now'
<1>1. now \in Nat /\ now' \in Nat
  BY DataAssumption DEF Typed
<1>2. now' = now => now <= now'
  BY <1>1
<1>3. CASE UNCHANGED vars
  BY <1>1, <1>3 DEF vars
<1>4. ASSUME NEW o \in Operators,
             \/ RegisterProvider(o)
             \/ \E b \in Blobs, s \in Shards : AcknowledgeShard(o, b, s)
             \/ \E b \in Blobs, claimed \in SUBSET Shards : ClaimProviderSettlement(o, b, claimed)
      PROVE  now' = now
  BY <1>4 DEF RegisterProvider, AcknowledgeShard, ClaimProviderSettlement
<1>5. ASSUME NEW b \in Blobs,
             \/ CreateOperatorBlob(Admin, b, NoName, NumProviders, NoExpiry)
             \/ \E a \in Accounts, n \in Names, e \in Timestamps, policy \in Policies,
                   size \in Sizes : CreateBlobPaid(a, b, n, NumProviders, e, policy, size, 0)
             \/ \E a \in Accounts : FinalizeBlob(a, b) \/ RefundPaidBlob(a, b)
      PROVE  now' = now
  BY <1>5 DEF CreateOperatorBlob, CreateBlobPaid, FinalizeBlob, RefundPaidBlob
<1>6. ASSUME NEW a \in Accounts, NEW b \in Blobs, NEW s \in Shards,
             \/ \E p \in ProviderIds :
                  \/ AssignShard(a, b, s, p) \/ ReassignShard(a, b, s, p)
                  \/ RecordRebuiltShard(a, b, s, p)
             \/ StartRecovery(a, b, s)
      PROVE  now' = now
  BY <1>6 DEF AssignShard, ReassignShard, RecordRebuiltShard, StartRecovery
<1>7. ASSUME NEW t \in Timestamps, Tick(t)
      PROVE  now <= now'
  BY <1>1, <1>7, DataAssumption DEF Tick
<1>8. now <= now'
  BY <1>2, <1>3, <1>4, <1>5, <1>6, <1>7 DEF Calls
<1> QED
  BY <1>1, <1>8

(* A request begins, moves on, or ends.                                    *)
LEMMA TakesIs ==
  ASSUME requests \in [Requests -> RequestRecords], NEW r \in Requests,
         NEW o \in RequestRecords, Takes(r, o)
  PROVE  /\ requests' \in [Requests -> RequestRecords]
         /\ requests'[r] = o
         /\ \A t \in Requests : t # r => requests'[t] = requests[t]
BY DEF Takes

LEMMA EndsIs ==
  ASSUME requests \in [Requests -> RequestRecords], NEW R \in SUBSET Requests, Ends(R)
  PROVE  /\ requests' \in [Requests -> RequestRecords]
         /\ \A t \in Requests : t \notin R => requests'[t] = requests[t]
         /\ \A t \in R : \/ ~requests[t].sent /\ requests'[t] = Idle
                         \/ /\ requests[t].sent
                            /\ requests'[t] = [requests[t] EXCEPT !.kind = "Orphan"]
         /\ \A t \in R : PastStart(requests[t]) => requests[t].blob \in interrupted'
         /\ interrupted \subseteq interrupted'
         /\ \A b \in interrupted' : b \in interrupted \/
              \E t \in R : b = requests[t].blob /\ PastStart(requests[t])
<1>1. requests' = [t \in Requests |-> IF t \in R THEN Rest(requests[t]) ELSE requests[t]]
  BY DEF Ends
<1>2. ASSUME NEW t \in Requests
      PROVE  Rest(requests[t]) \in RequestRecords
  <2>1. [requests[t] EXCEPT !.kind = "Orphan"] \in RequestRecords
    BY DEF RequestRecords, Kinds
  <2> QED
    BY <2>1, IdleIs DEF Rest
<1>3. requests' \in [Requests -> RequestRecords]
  BY <1>1, <1>2
<1>4. interrupted' =
        interrupted \cup {requests[t].blob : t \in {u \in R : PastStart(requests[u])}}
  BY DEF Ends
<1>5. \A t \in R : requests'[t] = Rest(requests[t])
  BY <1>1
<1>6. \A t \in Requests : requests[t].sent \in BOOLEAN
  BY DEF RequestRecords
<1> QED
  BY <1>1, <1>3, <1>4, <1>5, <1>6 DEF Rest

(* Whatever leaves the chain alone leaves the clock and the registry.      *)
LEMMA Untouched ==
  ASSUME UNCHANGED vars
  PROVE  /\ now' = now /\ blobs' = blobs /\ blobNames' = blobNames
         /\ blobPayments' = blobPayments /\ placement' = placement
         /\ acknowledgements' = acknowledgements
         /\ providerSettlementClaimed' = providerSettlementClaimed
         /\ nextProviderId' = nextProviderId /\ providers' = providers
         /\ providerIdByOperator' = providerIdByOperator
BY DEF vars, providerVars, nameVars, storageVars, moneyVars, claimVars

(* What was stored stays stored, or is counted as lost.                    *)
LEMMA FilesStep ==
  ASSUME GInv, [GatewayNext]_<<vars, gatewayVars>>
  PROVE  /\ files' \in [Blobs -> SUBSET (ProviderIds \X Shards)]
         /\ lost' \in [Blobs -> SUBSET (ProviderIds \X Shards)]
         /\ \A b \in Blobs : files[b] \cup lost[b] \subseteq files'[b] \cup lost'[b]
<1>0. /\ requests \in [Requests -> RequestRecords]
      /\ files \in [Blobs -> SUBSET (ProviderIds \X Shards)]
      /\ lost \in [Blobs -> SUBSET (ProviderIds \X Shards)]
  BY DEF GInv, GatewayTyped
<1>1. UNCHANGED fileVars => files' = files /\ lost' = lost
  BY DEF fileVars
<1>2. ASSUME NEW r \in Requests, Store(r)
      PROVE  /\ files' \in [Blobs -> SUBSET (ProviderIds \X Shards)] /\ lost' = lost
             /\ \A b \in Blobs : files[b] \subseteq files'[b]
  <2>1. requests[r].step \in {"Store", "Restore"} /\ InPlace(requests[r]) /\ Addresses(requests[r])
    BY <1>2 DEF Store, GInv, RequestInv, Knows
  <2>2. requests[r].provider # NoProvider /\ requests[r].blob \in Blobs
    BY <2>1 DEF Addresses, InPlace, ProviderSteps
  <2>3. requests[r].provider \in ProviderIds /\ requests[r].shard \in Shards
    BY <1>0, <2>2 DEF RequestRecords, MaybeProvider
  <2> QED
    BY <1>0, <1>2, <2>2, <2>3 DEF Store
<1>3. ASSUME NEW b \in Blobs, NEW pair \in files[b], LoseShard(b, pair)
      PROVE  /\ files' \in [Blobs -> SUBSET (ProviderIds \X Shards)]
             /\ lost' \in [Blobs -> SUBSET (ProviderIds \X Shards)]
             /\ \A c \in Blobs : files[c] \cup lost[c] \subseteq files'[c] \cup lost'[c]
  BY <1>0, <1>3 DEF LoseShard
<1>4. ASSUME NEW r \in Requests,
             \/ Submit(r) \/ Refuse(r) \/ Mine(r) \/ Revert(r) \/ Place(r) \/ Reread(r)
             \/ Index(r) \/ ReadAgain(r) \/ Fetch(r)
             \/ FetchFails(r) \/ CallFails(r) \/ IndexFails(r)
      PROVE  UNCHANGED fileVars
  BY <1>4 DEF Submit, Refuse, Mine, Revert, Place, Reread, Index, ReadAgain, Fetch,
              FetchFails, CallFails, IndexFails
<1>5. RegisterConfigured \/ Clients \/ OwnerSteps \/ Crash => UNCHANGED fileVars
  BY ZenonT(60) DEF RegisterConfigured, Clients, BeginPut, BeginPost, BeginRebuild, OwnerSteps,
         OwnerRegisters, OwnerIntervenes, Passing, Crash, gatewayVars, fileVars
<1>6. UNCHANGED gatewayVars => UNCHANGED fileVars
  BY DEF gatewayVars
<1>7. UNCHANGED fileVars \/ (\E r \in Requests : Store(r))
        \/ (\E b \in Blobs : \E pair \in files[b] : LoseShard(b, pair))
  BY <1>4, <1>5, <1>6 DEF GatewayNext, RequestStep, FaultSteps
<1> QED
  BY <1>0, <1>1, <1>2, <1>3, <1>7

(* The registry after a step of the gateway.                               *)
LEMMA WorldStep ==
  ASSUME GInv, [GatewayNext]_<<vars, gatewayVars>>
  PROVE  IInv' /\ Calls /\ ProvidersServe' /\ BlobsServe' /\ WorldMovesOn
<1>1. /\ Calls /\ [Next]_vars /\ IInv' /\ IInv /\ ProvidersServe /\ BlobsServe
      /\ Typed /\ Typed'
  BY RegistryInvariant DEF GInv, IInv
<1>2. ProvidersMoveOn
  BY <1>1, ProvidersMove
<1>3. \A b \in Blobs : Blank(b)
  BY <1>1 DEF IInv
<1>4. \A b \in Blobs : RecordStays(b) /\ StorageMovesOn(b) /\ PaymentMovesOn(b)
  BY <1>1, <1>3, RecordsStay, StorageMovesOnStep, PaymentMovesOnStep
<1>5. ProvidersServe'
  BY <1>1, <1>2, ProvidersServeStep
<1>6. BlobsServe'
  BY <1>1, <1>2, <1>4, BlobsServeStep
<1>7. WorldMovesOn
  BY <1>1, <1>2, <1>4, ClockStep, FilesStep DEF WorldMovesOn
<1> QED
  BY <1>1, <1>5, <1>6, <1>7
-----------------------------------------------------------------------------
(* A request's own steps.                                                  *)

StepWorld == GInv /\ IInv' /\ ProvidersServe' /\ BlobsServe' /\ WorldMovesOn

(* What it knew it still knows in the world after the step.                *)
LEMMA KnownBefore ==
  ASSUME StepWorld, NEW r \in Requests, NEW q, q = requests[r]
  PROVE  q \in RequestRecords /\ InPlace(q) /\ Knows(q) /\ Knows(q)'
<1>1. q \in RequestRecords
  BY DEF StepWorld, GInv, GatewayTyped
<1>2. InPlace(requests[r]) /\ Knows(requests[r])
  BY DEF StepWorld, GInv, RequestInv
<1>3. InPlace(q) /\ Knows(q)
  BY <1>2
<1> QED
  BY <1>1, <1>3, KnowledgeStays DEF StepWorld, GInv, GoodWorld

(* A request at a step that is not a call is live.                         *)
LEMMA BetweenCalls ==
  ASSUME NEW q \in RequestRecords, InPlace(q), q.step \notin TxSteps \cup {"None"}
  PROVE  /\ q.kind \in {"Put", "Post", "Rebuild"} /\ ~q.sent /\ Live(q) /\ Serving
         /\ q.blob \in Blobs
BY DEF RequestRecords, Kinds, InPlace, Live

(* While it serves, the server knows every provider of the code.           *)
LEMMA ConfiguredKnown ==
  ASSUME StepWorld, Serving, NEW s \in Shards
  PROVE  /\ IsKnown(Configured(s)) /\ Configured(s) # NoProvider
         /\ Configured(s)' = Configured(s) /\ Configured(s) < nextProviderId'
<1>1. ProviderList[s + 1] \in Accounts /\ s + 1 \in 1..registered
  BY ProviderCount DEF Serving
<1>2. Configured(s) # NoProvider /\ IsKnown(Configured(s))
  BY <1>1 DEF StepWorld, GInv, ProvidersServe, Configured
<1>3. ProvidersMoveOn
  BY DEF StepWorld, WorldMovesOn
<1>4. Configured(s)' = Configured(s)
  BY <1>2, <1>3, ConfiguredStays
<1>5. Configured(s) \in Nat
  BY <1>2, BoundsAssumption DEF IsKnown, ProviderIds
<1> QED
  BY <1>2, <1>3, <1>4, <1>5 DEF ProvidersMoveOn, IsKnown

(* What the reading of an upload q is worth before shard n: it is of a     *)
(* registered blob, and holds as long as that is Pending.                  *)
Reading(q, n) ==
  LET b == q.blob IN
  /\ \A s \in Shards : q.placed[s] < nextProviderId
  /\ q.kind = "Put" =>
       /\ blobs[b].exists /\ blobs[b].owner \in Accounts /\ blobNames[b] \in Names
       /\ blobs[b].status = "Pending" =>
            /\ \A s \in Shards : q.placed[s] # NoProvider => placement[b][s] = q.placed[s]
            /\ \A s \in q.acked : AckedAt(b, s)
            /\ \A s \in Shards : s < n => AckedAt(b, s)

LEMMA AtShardKnows ==
  ASSUME StepWorld, Serving, NEW q, NEW s \in Shards, Reading(q, s)',
         NEW o \in RequestRecords, AtShard(o, q, s),
         o.kind = q.kind, o.blob = q.blob, o.kind = "Put" => o.reported = {}, ~o.sent
  PROVE  Knows(o)'
<1>1. Configured(s)' = Configured(s) /\ Configured(s) # NoProvider
      /\ Configured(s) < nextProviderId'
  BY ConfiguredKnown
<1>2. /\ o.placed = q.placed /\ o.acked = q.acked /\ o.shard = s
      /\ \/ q.placed[s] # NoProvider /\ o.step = "Store" /\ o.provider = q.placed[s]
         \/ q.placed[s] = NoProvider /\ o.step = "Assign" /\ o.provider = Configured(s)
  BY DEF AtShard, Reads
<1>3. Addresses(o)'
  BY <1>1, <1>2 DEF Addresses, Reading, RebuildSteps
<1>4. Stored(o)' /\ Claims(o)' /\ Reports(o)'
  BY <1>2 DEF Stored, Claims, Reports
<1>5. Uploads(o)'
  BY <1>2 DEF Uploads, Reading
<1> QED
  BY <1>3, <1>4, <1>5 DEF Knows

(* The finalization is called when every shard is acknowledged.            *)
LEMMA FinalizeKnows ==
  ASSUME StepWorld, NEW q, NEW n \in Shards, Reading(q, n)', \A s \in Shards : s <= n,
         q.kind = "Put" /\ blobs'[q.blob].status = "Pending" =>
           <<placement'[q.blob][n], n>> \in acknowledgements'[q.blob],
         NEW o \in RequestRecords, Unread(o), o.step = "Finalize",
         o.kind = q.kind, o.blob = q.blob, o.kind = "Put" => o.reported = {}, ~o.sent
  PROVE  Knows(o)'
<1>1. 0 < nextProviderId'
  BY BoundsAssumption DEF StepWorld, IInv, Typed
<1>2. Addresses(o)'
  BY <1>1 DEF Addresses, Unread, ProviderSteps, RebuildSteps, NoProvider
<1>3. Stored(o)' /\ Claims(o)' /\ Reports(o)'
  BY DEF Stored, Claims, Reports
<1>4. \A s \in Shards : s < n \/ s = n
  BY ProviderCount
<1>5. Uploads(o)'
  BY <1>4 DEF Uploads, Reading, Unread, AckedAt
<1> QED
  BY <1>2, <1>3, <1>5 DEF Knows

(* After the acknowledgement of its shard, an upload goes on.              *)
LEMMA AfterShardKnows ==
  ASSUME StepWorld, Serving, NEW q \in RequestRecords, Reading(q, q.shard)',
         q.kind = "Put" /\ blobs'[q.blob].status = "Pending" =>
           <<placement'[q.blob][q.shard], q.shard>> \in acknowledgements'[q.blob],
         q.kind = "Put" => q.reported = {},
         NEW o \in RequestRecords, LandsAs(o, AfterShard(q))
  PROVE  Knows(o)'
<1> DEFINE a == AfterShard(q)
<1>0. Typed
  BY DEF StepWorld, GInv, IInv
<1>1. /\ a \in RequestRecords /\ Keeps(a, q)
      /\ \/ q.shard + 1 \in Shards /\ AtShard(a, q, q.shard + 1)
         \/ (\A s \in Shards : s <= q.shard) /\ Unread(a) /\ a.step = "Finalize"
  BY <1>0, AfterShardIs
<1> HIDE DEF a
<1>2. o.kind = q.kind /\ o.blob = q.blob /\ (o.kind = "Put" => o.reported = {}) /\ ~o.sent
  BY <1>1 DEF LandsAs, Keeps, a
<1>3. q.shard \in Shards
  BY DEF RequestRecords
<1>4. CASE q.shard + 1 \in Shards /\ AtShard(a, q, q.shard + 1)
  <2>1. AtShard(o, q, q.shard + 1)
    BY <1>4 DEF LandsAs, AtShard, Reads, a
  <2>2. \A s \in Shards : s < q.shard + 1 => s < q.shard \/ s = q.shard
    <3>1. \A s \in Shards : s \in Nat
      BY ProviderCount
    <3>2. \A i, j \in Nat : i < j + 1 => i < j \/ i = j
      OBVIOUS
    <3> QED
      BY <1>3, <3>1, <3>2
  <2>3. ASSUME q.kind = "Put", blobs'[q.blob].status = "Pending",
               NEW s \in Shards, s < q.shard + 1
        PROVE  <<placement'[q.blob][s], s>> \in acknowledgements'[q.blob]
    <3>1. CASE s < q.shard
      BY <2>3, <3>1 DEF Reading, AckedAt
    <3>2. CASE s = q.shard
      BY <2>3, <3>2
    <3> QED
      BY <2>2, <2>3, <3>1, <3>2
  <2>4. Reading(q, q.shard + 1)'
    BY <2>3 DEF Reading, AckedAt
  <2> QED
    BY <1>2, <1>4, <2>1, <2>4, AtShardKnows
<1>5. CASE (\A s \in Shards : s <= q.shard) /\ Unread(a) /\ a.step = "Finalize"
  <2>1. Unread(o) /\ o.step = "Finalize"
    BY <1>5 DEF LandsAs, Unread, a
  <2> QED
    BY <1>2, <1>3, <1>5, <2>1, FinalizeKnows
<1> QED
  BY <1>1, <1>4, <1>5

(* Request r goes on as o, and o knows the world it goes on in.            *)
MovesTo(r, o) ==
  /\ o \in RequestRecords /\ Takes(r, o)
  /\ Knows(o)' /\ InPlace(o) /\ registered' = registered

(* A request that goes on is the same one; once it has opened a recovery   *)
(* it sees it to the record, and restores the shard it has moved.          *)
Rebuilding == {"Restore", "Reacknowledge", "Record"}

OnTrack(q, o) ==
  /\ o.kind = q.kind /\ o.blob = q.blob
  /\ PastStart(q) => PastStart(o) \/ (q.step = "Record" /\ q.sent)
  /\ o.step \in Rebuilding =>
       /\ q.step \in Rebuilding \/ (q.step = "Reassign" /\ q.sent)
       /\ o.shard = q.shard /\ o.provider = q.provider

GoesOn(r, o) == MovesTo(r, o) /\ OnTrack(requests[r], o)

(* What placeEncodedBlob, readBlob and the read after finalizeBlob return. *)
LEMMA ReadIs ==
  ASSUME StepWorld, UNCHANGED vars, NEW b \in Blobs
  PROVE  /\ placement[b] \in [Shards -> MaybeProvider] /\ AcksRead(b) \subseteq Shards
         /\ \A s \in Shards : placement[b][s] < nextProviderId'
         /\ placement'[b] = placement[b]
         /\ \A s \in AcksRead(b) : <<placement'[b][s], s>> \in acknowledgements'[b]
<1>1. Typed /\ ProvidersKnown
  BY DEF StepWorld, GInv, IInv
<1>2. placement' = placement /\ acknowledgements' = acknowledgements
      /\ nextProviderId' = nextProviderId
  BY Untouched
<1> QED
  BY <1>1, <1>2 DEF Typed, ProvidersKnown, MaybeProvider, AcksRead

LEMMA PlaceMoves ==
  ASSUME StepWorld, NEW r \in Requests, Place(r)
  PROVE  Ends({r}) \/ \E o : GoesOn(r, o)
<1> SUFFICES ASSUME ~Ends({r})
             PROVE  \E o : GoesOn(r, o)
  OBVIOUS
<1>1. PICK q : q = requests[r]
  OBVIOUS
<1>2. PICK read : read = [q EXCEPT !.placed = placement[q.blob], !.acked = AcksRead(q.blob)]
  OBVIOUS
<1>3. PICK o : o = OnShard(read, 0)
  OBVIOUS
<1>4. /\ q \in RequestRecords /\ InPlace(q) /\ Knows(q) /\ Knows(q)' /\ Typed
      /\ q.step = "Place" /\ Takes(r, o) /\ UNCHANGED vars /\ registered' = registered
  BY <1>1, <1>2, <1>3, KnownBefore DEF Place, StepWorld, GInv, IInv
<1>5. /\ q.kind \in {"Put", "Post"} /\ ~q.sent /\ Live(q) /\ Serving /\ q.blob \in Blobs
  BY <1>4, BetweenCalls DEF TxSteps, InPlace, RebuildSteps
<1>6. /\ read \in RequestRecords /\ read.kind = q.kind /\ read.blob = q.blob
      /\ read.placed = placement[q.blob] /\ read.acked = AcksRead(q.blob)
      /\ read.sent = q.sent /\ read.reported = q.reported
  BY <1>4, <1>5, <1>2, ReadIs DEF RequestRecords
<1>7. q.kind = "Put" => q.reported = {}
  BY <1>4 DEF Knows, Reports
<1>8. Reading(read, 0)'
  <2>1. ~\E s \in Shards : s < 0
    BY ProviderCount
  <2> QED
    BY <1>4, <1>5, <1>6, <2>1, ReadIs DEF Reading, Knows, Uploads, AckedAt
<1>9. o \in RequestRecords /\ Keeps(o, read) /\ AtShard(o, read, 0)
  BY <1>4, <1>6, <1>3, OnShardIs, ProviderCount
<1>10. Knows(o)'
  BY <1>5, <1>6, <1>7, <1>8, <1>9, AtShardKnows, ProviderCount DEF Keeps
<1>11. InPlace(o)
  BY <1>5, <1>6, <1>9 DEF InPlace, Keeps, AtShard, UploadSteps, TxSteps
<1>12. OnTrack(q, o)
  BY <1>4, <1>6, <1>9 DEF OnTrack, Keeps, AtShard, PastStart, Rebuilding
<1> QED
  BY <1>1, <1>4, <1>9, <1>10, <1>11, <1>12 DEF MovesTo, GoesOn

LEMMA StoreMoves ==
  ASSUME StepWorld, NEW r \in Requests, Store(r)
  PROVE  \E o : GoesOn(r, o)
<1>1. PICK q : q = requests[r]
  OBVIOUS
<1>2. PICK o : o = AfterStore(q)
  OBVIOUS
<1>3. /\ q \in RequestRecords /\ InPlace(q) /\ Knows(q) /\ Knows(q)' /\ Typed
      /\ q.step \in {"Store", "Restore"} /\ Takes(r, o) /\ UNCHANGED vars
      /\ registered' = registered
      /\ files' = [files EXCEPT ![q.blob] = @ \cup {<<q.provider, q.shard>>}]
  BY <1>1, <1>2, KnownBefore DEF Store, StepWorld, GInv, IInv
<1>4. /\ ~q.sent /\ Live(q) /\ Serving /\ q.blob \in Blobs
      /\ q.kind \in {"Put", "Post", "Rebuild"}
      /\ q.step = "Restore" => q.kind = "Rebuild"
      /\ q.step = "Store" => q.kind \in {"Put", "Post"}
  BY <1>3, BetweenCalls DEF TxSteps, InPlace, RebuildSteps, UploadSteps
<1>5. <<q.provider, q.shard>> \in files'[q.blob]
  BY <1>3, <1>4 DEF StepWorld, GInv, GatewayTyped
<1>6. CASE q.step = "Restore" \/ q.shard \notin q.acked
  <2>1. /\ o \in RequestRecords /\ Keeps(o, q) /\ Reads(o, q)
        /\ o.shard = q.shard /\ o.provider = q.provider
        /\ o.step = IF q.step = "Restore" THEN "Reacknowledge" ELSE "Acknowledge"
    BY <1>3, <1>6, <1>2, AfterStoreIs
  <2>2. Addresses(o)'
    BY <1>3, <2>1 DEF Knows, Addresses, Reads, Keeps, ProviderSteps, RebuildSteps
  <2>3. Stored(o)' /\ Claims(o)'
    BY <1>3, <1>5, <2>1 DEF Stored, Keeps, Claims
  <2>4. Uploads(o)' /\ Reports(o)'
    BY <1>3, <1>4, <2>1 DEF Knows, Uploads, Reports, Keeps, Reads
  <2>5. InPlace(o)
    BY <1>3, <1>4, <2>1 DEF InPlace, Keeps, TxSteps, UploadSteps, RebuildSteps
  <2>6. OnTrack(q, o)
    BY <1>3, <1>4, <2>1 DEF OnTrack, Keeps, PastStart, Rebuilding
  <2> QED
    BY <1>1, <1>3, <2>1, <2>2, <2>3, <2>4, <2>5, <2>6 DEF MovesTo, Knows, GoesOn
<1>7. CASE q.step = "Store" /\ q.shard \in q.acked
  <2>1. o = AfterShard(q)
    BY <1>3, <1>7, <1>2, AfterStoreIs
  <2>2. /\ o \in RequestRecords /\ Keeps(o, q)
        /\ o.step \in {"Store", "Assign", "Finalize"}
    BY <1>3, <2>1, AfterShardIs DEF AtShard
  <2>3. LandsAs(o, AfterShard(q))
    BY <1>4, <2>1, <2>2 DEF LandsAs, Keeps
  <2>4. Reading(q, q.shard)'
    BY <1>3, <1>7 DEF Reading, Knows, Uploads, Addresses, AckedAt
  <2>5. q.kind = "Put" /\ blobs'[q.blob].status = "Pending" =>
          <<placement'[q.blob][q.shard], q.shard>> \in acknowledgements'[q.blob]
    BY <1>3, <1>7 DEF Knows, Uploads, AckedAt
  <2>6. q.kind = "Put" => q.reported = {}
    BY <1>3, <1>7 DEF Knows, Reports
  <2>7. Knows(o)'
    BY <1>3, <1>4, <2>2, <2>3, <2>4, <2>5, <2>6, AfterShardKnows
  <2>8. InPlace(o)
    BY <1>4, <1>7, <2>2 DEF InPlace, Keeps, UploadSteps
  <2>9. OnTrack(q, o)
    BY <1>4, <1>7, <2>2 DEF OnTrack, Keeps, PastStart, Rebuilding
  <2> QED
    BY <1>1, <1>3, <2>2, <2>7, <2>8, <2>9 DEF MovesTo, GoesOn
<1> QED
  BY <1>3, <1>6, <1>7

(* The read that ends an upload's calls but for the claims.                *)
LEMMA RereadMoves ==
  ASSUME StepWorld, NEW r \in Requests, Reread(r)
  PROVE  \E o : GoesOn(r, o)
<1>1. PICK q : q = requests[r]
  OBVIOUS
<1> DEFINE b == q.blob
           open == blobPayments[b].status \in {"Claimable", "PartiallySettled"}
<1>2. PICK read : read = [q EXCEPT !.placed = placement[b],
                            !.claims = IF open THEN {placement[b][s] : s \in ShardsOf(b)} ELSE {}]
  OBVIOUS
<1>3. PICK o : o = OnClaims(read)
  OBVIOUS
<1>4. /\ q \in RequestRecords /\ InPlace(q) /\ Knows(q) /\ Knows(q)'
      /\ IInv /\ BlobsServe /\ Typed
      /\ q.step = "Reread" /\ Takes(r, o) /\ UNCHANGED vars /\ registered' = registered
  BY <1>1, <1>2, <1>3, KnownBefore DEF Reread, StepWorld, GInv, IInv
<1>5. /\ ~q.sent /\ Serving /\ b \in Blobs /\ q.kind \in {"Put", "Post"}
  BY <1>4, BetweenCalls DEF TxSteps, InPlace, RebuildSteps
<1>6. /\ placement[b] \in [Shards -> MaybeProvider]
      /\ \A s \in Shards : placement[b][s] < nextProviderId'
      /\ placement'[b] = placement[b] /\ blobs' = blobs /\ blobPayments' = blobPayments
      /\ nextProviderId' = nextProviderId
  BY <1>4, <1>5, ReadIs, Untouched
<1>7. open => blobs[b].exists /\ \A s \in Shards : IsKnown(placement[b][s])
  <2>1. open => blobs[b].status # "Pending"
    BY <1>4, <1>5 DEF BlobsServe, ClaimsOpen
  <2> QED
    BY <1>4, <1>5, <2>1, FinalIsPlaced
<1>8. /\ read \in RequestRecords /\ read.kind = q.kind /\ read.blob = b
      /\ read.sent = q.sent /\ read.reported = q.reported /\ read.placed = placement[b]
      /\ read.claims # {} => open
      /\ \A p \in read.claims : open /\ \E s \in Shards : placement[b][s] = p
  <2>1. PICK C : C = IF open THEN {placement[b][s] : s \in ShardsOf(b)} ELSE {}
    OBVIOUS
  <2>2. /\ C \subseteq MaybeProvider
        /\ \A p \in C : open /\ \E s \in Shards : placement[b][s] = p
    BY <1>6, <2>1 DEF ShardsOf
  <2>3. read = [q EXCEPT !.placed = placement[b], !.claims = C]
    BY <1>2, <2>1
  <2> QED
    BY <1>4, <1>6, <2>2, <2>3 DEF RequestRecords
<1>9. \A p \in read.claims : ShardsAt(read, p) # {}
  BY <1>8 DEF ShardsAt
<1>10. /\ o \in RequestRecords /\ Keeps(o, read)
       /\ \/ o.step = "Index" /\ Unread(o)
          \/ /\ o.step = "Claim" /\ Reads(o, read) /\ o.claims = read.claims
             /\ o.provider \in read.claims
  BY <1>3, <1>8, <1>9, OnClaimsIs
<1>11. o.kind = q.kind /\ o.blob = b /\ ~o.sent /\ o.reported = q.reported
  BY <1>5, <1>8, <1>10 DEF Keeps
<1>12. \A p \in read.claims : IsKnown(p)' /\ p # NoProvider
  BY <1>6, <1>7, <1>8, BoundsAssumption DEF IsKnown, ProviderIds, NoProvider
<1>13. 0 < nextProviderId'
  BY BoundsAssumption DEF StepWorld, IInv, Typed
<1>14. Addresses(o)'
  BY <1>6, <1>8, <1>10, <1>11, <1>12, <1>13
     DEF Addresses, Unread, Reads, ProviderSteps, RebuildSteps, IsKnown, NoProvider
<1>15. Uploads(o)'
  BY <1>4, <1>11 DEF Knows, Uploads
<1>16. Stored(o)' /\ Reports(o)'
  BY <1>4, <1>10, <1>11 DEF Knows, Stored, Reports
<1>17. Claims(o)'
  BY <1>6, <1>7, <1>8, <1>9, <1>10, <1>11, <1>12 DEF Claims, Reads, ShardsAt, ClaimsOpen
<1>18. InPlace(o)
  BY <1>5, <1>10, <1>11 DEF InPlace, UploadSteps
<1>19. OnTrack(q, o)
  BY <1>4, <1>10, <1>11 DEF OnTrack, PastStart, Rebuilding
<1> QED
  BY <1>1, <1>4, <1>10, <1>14, <1>15, <1>16, <1>17, <1>18, <1>19 DEF MovesTo, Knows, GoesOn

(* A rebuild knows of the chain only what it addresses.                    *)
LEMMA RebuildKnows ==
  ASSUME StepWorld, Serving, NEW o \in RequestRecords, o.kind = "Rebuild", o.blob \in Blobs,
         o.step \in {"Read", "Fetch", "Start"}, ~o.sent, blobs'[o.blob].exists,
         o.provider < nextProviderId', \A s \in Shards : o.placed[s] < nextProviderId'
  PROVE  Knows(o)' /\ InPlace(o)
<1>1. Addresses(o)'
  BY DEF Addresses, ProviderSteps
<1>2. Stored(o)' /\ Claims(o)' /\ Uploads(o)' /\ Reports(o)'
  BY DEF Stored, Claims, Uploads, Reports
<1>3. InPlace(o)
  BY DEF InPlace, RebuildSteps
<1> QED
  BY <1>1, <1>2, <1>3 DEF Knows

LEMMA OnReadMoves ==
  ASSUME StepWorld, Serving, UNCHANGED vars, registered' = registered, NEW r \in Requests,
         NEW q \in RequestRecords, q.kind = "Rebuild", q.blob \in Blobs, ~q.sent,
         blobs[q.blob].exists, Takes(r, OnRead(q))
  PROVE  \E o : MovesTo(r, o) /\ o.kind = "Rebuild" /\ o.blob = q.blob /\ o.step = "Fetch"
<1>1. PICK o : o = OnRead(q)
  OBVIOUS
<1>2. /\ placement[q.blob] \in [Shards -> MaybeProvider] /\ AcksRead(q.blob) \subseteq Shards
      /\ \A s \in Shards : placement[q.blob][s] < nextProviderId'
  BY ReadIs
<1>3. 0 \in Shards /\ NoProvider \in MaybeProvider
  BY ProviderCount DEF MaybeProvider
<1>4. /\ o \in RequestRecords /\ o.kind = "Rebuild" /\ o.blob = q.blob /\ ~o.sent
      /\ o.step = "Fetch" /\ o.provider = NoProvider /\ o.placed = placement[q.blob]
  BY <1>1, <1>2, <1>3 DEF OnRead, RequestRecords, Steps, RebuildSteps
<1>5. 0 < nextProviderId'
  BY BoundsAssumption DEF StepWorld, IInv, Typed
<1>6. Knows(o)' /\ InPlace(o)
  BY <1>2, <1>4, <1>5, RebuildKnows, Untouched DEF NoProvider
<1> QED
  BY <1>1, <1>4, <1>6 DEF MovesTo

LEMMA ReadAgainMoves ==
  ASSUME StepWorld, NEW r \in Requests, ReadAgain(r)
  PROVE  \E o : GoesOn(r, o)
<1>1. PICK q : q = requests[r]
  OBVIOUS
<1>2. /\ q \in RequestRecords /\ InPlace(q) /\ Knows(q)
      /\ q.step = "Read" /\ Takes(r, OnRead(q)) /\ UNCHANGED vars /\ registered' = registered
  BY <1>1, KnownBefore DEF ReadAgain
<1>3. /\ ~q.sent /\ Serving /\ q.blob \in Blobs /\ q.kind = "Rebuild"
  BY <1>2, BetweenCalls DEF TxSteps, InPlace, UploadSteps
<1>4. blobs[q.blob].exists
  BY <1>2 DEF Knows, Addresses, RebuildSteps
<1>5. \E o : MovesTo(r, o) /\ o.kind = "Rebuild" /\ o.blob = q.blob /\ o.step = "Fetch"
  BY <1>2, <1>3, <1>4, OnReadMoves
<1> QED
  BY <1>1, <1>2, <1>3, <1>5 DEF GoesOn, OnTrack, PastStart, Rebuilding

LEMMA FetchMoves ==
  ASSUME StepWorld, NEW r \in Requests, requests[r].step = "Fetch",
         NEW missing \in SUBSET Shards, AfterFetch(r, missing),
         UNCHANGED vars, registered' = registered
  PROVE  Ends({r}) \/ \E o : GoesOn(r, o)
<1>1. PICK q : q = requests[r]
  OBVIOUS
<1>2. /\ q \in RequestRecords /\ InPlace(q) /\ Knows(q) /\ Knows(q)' /\ q.step = "Fetch"
  BY <1>1, KnownBefore
<1>3. /\ ~q.sent /\ Serving /\ q.blob \in Blobs /\ q.kind = "Rebuild"
  BY <1>2, BetweenCalls DEF TxSteps, InPlace, UploadSteps
<1>4. /\ blobs'[q.blob].exists /\ blobs[q.blob].exists
      /\ q.provider < nextProviderId' /\ \A s \in Shards : q.placed[s] < nextProviderId'
  BY <1>2 DEF Knows, Addresses, RebuildSteps
<1>5. blobs[q.blob].totalShards = NumProviders
  BY <1>3, <1>4, ProviderCount DEF StepWorld, GInv, BlobsServe
<1>6. PICK m : m = [q EXCEPT !.missing = missing]
  OBVIOUS
<1>7. /\ m \in RequestRecords /\ m.kind = q.kind /\ m.blob = q.blob /\ m.sent = q.sent
      /\ m.step = q.step /\ m.provider = q.provider /\ m.placed = q.placed /\ m.shard = q.shard
  BY <1>2, <1>6 DEF RequestRecords
<1>8. ASSUME q.shard + 1 < NumProviders, Takes(r, [m EXCEPT !.shard = @ + 1])
      PROVE  \E o : GoesOn(r, o)
  <2>1. PICK o : o = [m EXCEPT !.shard = @ + 1]
    OBVIOUS
  <2>2. q.shard + 1 \in Shards
    BY <1>2, <1>8, ProviderCount DEF RequestRecords
  <2>3. /\ o \in RequestRecords /\ o.kind = q.kind /\ o.blob = q.blob /\ ~o.sent
        /\ o.step = q.step /\ o.provider = q.provider /\ o.placed = q.placed
    BY <1>3, <1>7, <2>1, <2>2 DEF RequestRecords
  <2>4. Knows(o)' /\ InPlace(o)
    BY <1>2, <1>3, <1>4, <2>3, RebuildKnows
  <2>5. OnTrack(q, o)
    BY <1>2, <2>3 DEF OnTrack, PastStart, Rebuilding
  <2> QED
    BY <1>1, <1>8, <2>1, <2>3, <2>4, <2>5 DEF MovesTo, GoesOn
<1>9. ASSUME Takes(r, OnRebuild([m EXCEPT !.acked = {}]))
      PROVE  \E o : GoesOn(r, o)
  <2>1. PICK n : n = [m EXCEPT !.acked = {}]
    OBVIOUS
  <2>2. PICK o : o = OnRebuild(n)
    OBVIOUS
  <2>3. /\ n \in RequestRecords /\ n.kind = q.kind /\ n.blob = q.blob /\ n.sent = q.sent
        /\ n.provider = q.provider /\ n.placed = q.placed
    BY <1>7, <2>1 DEF RequestRecords
  <2>4. /\ o \in RequestRecords /\ o.kind = q.kind /\ o.blob = q.blob /\ ~o.sent
        /\ o.step \in {"Read", "Start"} /\ o.placed = q.placed
        /\ o.provider < nextProviderId'
    BY <1>3, <1>4, <2>2, <2>3, OnRebuildIs DEF Keeps, Reads
  <2>5. Knows(o)' /\ InPlace(o)
    BY <1>3, <1>4, <2>4, RebuildKnows
  <2>6. OnTrack(q, o)
    BY <1>2, <2>4 DEF OnTrack, PastStart, Rebuilding
  <2> QED
    BY <1>1, <1>9, <2>1, <2>2, <2>4, <2>5, <2>6 DEF MovesTo, GoesOn
<1> QED
  BY <1>1, <1>5, <1>6, <1>7, <1>8, <1>9 DEF AfterFetch

(* Clients.                                                                *)

LEMMA BeginPutMoves ==
  ASSUME StepWorld, NEW r \in Requests, NEW a \in Owners, NEW n \in Names, NEW b \in Blobs,
         BeginPut(r, a, n, b)
  PROVE  \E o : MovesTo(r, o) /\ o.kind = "Put" /\ o.step = "Place"
<1>1. PICK o : o = [Idle EXCEPT !.kind = "Put", !.blob = b, !.step = "Place"]
  OBVIOUS
<1>2. /\ o \in RequestRecords /\ o.kind = "Put" /\ o.blob = b /\ o.step = "Place"
      /\ ~o.sent /\ o.reported = {} /\ o.acked = {} /\ o.provider = NoProvider
      /\ \A s \in Shards : o.placed[s] = NoProvider
  BY <1>1, IdleIs DEF RequestRecords, Kinds, Steps, UploadSteps, Unread
<1>3. /\ Takes(r, o) /\ Serving /\ registered' = registered /\ UNCHANGED vars
      /\ blobs[b].exists /\ blobs[b].owner = a /\ blobNames[b] = n
  BY <1>1 DEF BeginPut
<1>4. 0 < nextProviderId' /\ blobs' = blobs /\ blobNames' = blobNames
  BY <1>3, Untouched, BoundsAssumption DEF StepWorld, IInv, Typed
<1>5. Addresses(o)'
  BY <1>2, <1>4 DEF Addresses, ProviderSteps, RebuildSteps, NoProvider
<1>6. Uploads(o)'
  BY <1>2, <1>3, <1>4, GatewayAssumption DEF Uploads
<1>7. Stored(o)' /\ Claims(o)' /\ Reports(o)'
  BY <1>2 DEF Stored, Claims, Reports
<1>8. InPlace(o)
  BY <1>2, <1>3 DEF InPlace, UploadSteps
<1> QED
  BY <1>2, <1>3, <1>5, <1>6, <1>7, <1>8 DEF MovesTo, Knows

LEMMA BeginPostMoves ==
  ASSUME StepWorld, NEW r \in Requests, NEW b \in Blobs, BeginPost(r, b)
  PROVE  \E o : MovesTo(r, o) /\ o.kind = "Post" /\ o.step = "Create"
<1>1. PICK o : o = [Idle EXCEPT !.kind = "Post", !.blob = b, !.step = "Create"]
  OBVIOUS
<1>2. /\ o \in RequestRecords /\ o.kind = "Post" /\ o.blob = b /\ o.step = "Create"
      /\ ~o.sent /\ o.provider = NoProvider
      /\ \A s \in Shards : o.placed[s] = NoProvider
  BY <1>1, IdleIs DEF RequestRecords, Kinds, Steps, UploadSteps, Unread
<1>3. Takes(r, o) /\ Serving /\ registered' = registered
  BY <1>1 DEF BeginPost
<1>4. 0 < nextProviderId'
  BY BoundsAssumption DEF StepWorld, IInv, Typed
<1>5. Addresses(o)'
  BY <1>2, <1>4 DEF Addresses, ProviderSteps, RebuildSteps, NoProvider
<1>6. Uploads(o)' /\ Stored(o)' /\ Claims(o)' /\ Reports(o)'
  BY <1>2 DEF Uploads, Stored, Claims, Reports
<1>7. InPlace(o)
  BY <1>2, <1>3 DEF InPlace, UploadSteps
<1> QED
  BY <1>2, <1>3, <1>5, <1>6, <1>7 DEF MovesTo, Knows

LEMMA BeginRebuildMoves ==
  ASSUME StepWorld, NEW r \in Requests, NEW b \in Blobs, BeginRebuild(r, b)
  PROVE  \E o : MovesTo(r, o) /\ o.kind = "Rebuild" /\ o.blob = b /\ o.step = "Fetch"
<1>1. PICK q : q = [Idle EXCEPT !.kind = "Rebuild", !.blob = b]
  OBVIOUS
<1>2. q \in RequestRecords /\ q.kind = "Rebuild" /\ q.blob = b /\ ~q.sent
  BY <1>1, IdleIs DEF RequestRecords, Kinds
<1>3. /\ Takes(r, OnRead(q)) /\ Serving /\ registered' = registered /\ UNCHANGED vars
      /\ blobs[b].exists
  BY <1>1 DEF BeginRebuild
<1>4. \E o : MovesTo(r, o) /\ o.kind = "Rebuild" /\ o.blob = q.blob /\ o.step = "Fetch"
  BY <1>2, <1>3, OnReadMoves
<1> QED
  BY <1>2, <1>4

-----------------------------------------------------------------------------
(* What a claim pays.                                                      *)

LEMMA ClaimAmountIs ==
  ASSUME Typed, NEW b \in Blobs, MoneyInv(b), blobPayments[b].status # "None",
         NEW claimed \in SUBSET ShardsOf(b)
  PROVE  LET r == blobPayments[b].providerRewardPerShard
             k == ReserveOf(b)
             c == Cardinality(NewRewards(b, claimed))
             d == Cardinality(NewReserves(b, claimed))
         IN  /\ r \in Nat /\ k \in Nat \ {0} /\ c \in Nat /\ d \in Nat
             /\ ClaimAmount(b, claimed) = r * c + k * d
             /\ NewRewards(b, claimed) # {} <=> c > 0
             /\ NewReserves(b, claimed) # {} <=> d > 0
             /\ blobPayments[b].providerSettled + ClaimAmount(b, claimed)
                  <= blobPayments[b].providerPool
<1>1. PICK C, D, newC, newD :
        /\ C = providerSettlementClaimed[b] /\ D = providerReserveClaimed[b]
        /\ newC = NewRewards(b, claimed) /\ newD = NewReserves(b, claimed)
  OBVIOUS
<1>2. PICK r, k, t, pool, before :
        /\ r = blobPayments[b].providerRewardPerShard /\ k = ReserveOf(b)
        /\ t = blobs[b].totalShards /\ pool = blobPayments[b].providerPool
        /\ before = blobPayments[b].providerSettled
  OBVIOUS
<1>3. /\ r \in Nat /\ t \in Nat \ {0} /\ k \in Nat \ {0} /\ pool = (r + k) * t
      /\ before = r * Cardinality(C) + k * Cardinality(D)
      /\ C \subseteq ShardsOf(b) /\ D \subseteq ShardsOf(b)
  BY <1>1, <1>2 DEF MoneyInv, SoundTerms, SoundMarkers, SettledByMarkers, PaymentRecords, Typed
<1>4. IsFiniteSet(ShardsOf(b)) /\ Cardinality(ShardsOf(b)) = t
  BY <1>2, ShardsFinite
<1>5. /\ IsFiniteSet(C) /\ IsFiniteSet(D) /\ IsFiniteSet(claimed)
      /\ newC = claimed \ C /\ (newD = claimed \ D \/ newD = {})
  BY <1>1, <1>3, <1>4, FS_Subset DEF NewRewards, NewReserves
<1>6. /\ IsFiniteSet(newC) /\ Cardinality(C) \in Nat /\ Cardinality(newC) \in Nat
      /\ Cardinality(C \cup newC) = Cardinality(C) + Cardinality(newC)
  BY <1>5, CardinalityOfGrowth, FS_Subset, claimed \ C \in SUBSET claimed
<1>7. /\ IsFiniteSet(newD) /\ Cardinality(D) \in Nat /\ Cardinality(newD) \in Nat
      /\ Cardinality(D \cup newD) = Cardinality(D) + Cardinality(newD)
  <2>1. CASE newD = claimed \ D
    BY <1>5, <2>1, CardinalityOfGrowth, FS_Subset, claimed \ D \in SUBSET claimed
  <2>2. CASE newD = {}
    <3>1. D \cup newD = D
      BY <2>2
    <3>2. Cardinality(newD) = 0 /\ Cardinality(D) \in Nat /\ IsFiniteSet(newD)
      BY <1>5, <2>2, FS_EmptySet, FS_CardinalityType
    <3>3. Cardinality(D \cup newD) = Cardinality(D)
      BY <3>1
    <3>4. Cardinality(D) = Cardinality(D) + 0
      BY <3>2
    <3> QED
      BY <3>2, <3>3, <3>4
  <2> QED
    BY <1>5, <2>1, <2>2
<1>8. Cardinality(C \cup newC) \in 0..t /\ Cardinality(D \cup newD) \in 0..t
  <2>1. C \cup newC \subseteq ShardsOf(b) /\ D \cup newD \subseteq ShardsOf(b)
    BY <1>3, <1>5
  <2>2. Cardinality(C \cup newC) <= t /\ Cardinality(D \cup newD) <= t
    BY <1>4, <2>1, FS_Subset
  <2> QED
    BY <1>3, <1>6, <1>7, <2>2
<1>9. PICK c0, c1, d0, d1 :
        /\ c0 = Cardinality(C) /\ c1 = Cardinality(newC)
        /\ d0 = Cardinality(D) /\ d1 = Cardinality(newD)
  OBVIOUS
<1>10. /\ c0 \in Nat /\ c1 \in Nat /\ d0 \in Nat /\ d1 \in Nat
       /\ c0 + c1 \in 0..t /\ d0 + d1 \in 0..t
  BY <1>6, <1>7, <1>8, <1>9
<1>11. r * (c0 + c1) + k * (d0 + d1) <= (r + k) * t
  BY <1>3, <1>10, PaidWithinPool
<1>12. (r * c0 + k * d0) + (r * c1 + k * d1) = r * (c0 + c1) + k * (d0 + d1)
  BY <1>3, <1>10
<1>13. before + (r * c1 + k * d1) <= pool
  BY <1>3, <1>9, <1>11, <1>12
<1>14. ClaimAmount(b, claimed) = r * c1 + k * d1
  BY <1>1, <1>2, <1>9 DEF ClaimAmount
<1>15. (newC # {} <=> c1 > 0) /\ (newD # {} <=> d1 > 0)
  BY <1>6, <1>7, <1>9, <1>10, FS_EmptySet
<1> QED
  BY <1>1, <1>2, <1>3, <1>9, <1>10, <1>13, <1>14, <1>15

(* One that is estimated to pay something pays rewards or reserves.        *)
LEMMA PayingClaim ==
  ASSUME IInv, NEW b \in Blobs, NEW claimed \in SUBSET ShardsOf(b),
         blobPayments[b].status # "None", ClaimAmount(b, claimed) > 0
  PROVE  blobPayments[b].providerRewardPerShard > 0 \/ now >= blobs[b].expiresAt
<1> SUFFICES ASSUME ~(blobPayments[b].providerRewardPerShard > 0), ~(now >= blobs[b].expiresAt)
             PROVE  FALSE
  OBVIOUS
<1>1. PICK r, k, c, d :
        /\ r = blobPayments[b].providerRewardPerShard /\ k = ReserveOf(b)
        /\ r \in Nat /\ k \in Nat \ {0} /\ c \in Nat /\ d \in Nat
        /\ ClaimAmount(b, claimed) = r * c + k * d
        /\ NewReserves(b, claimed) # {} <=> d > 0
  BY ClaimAmountIs DEF IInv
<1>2. r = 0 /\ d = 0
  BY <1>1 DEF NewReserves
<1>3. ClaimAmount(b, claimed) = 0
  BY <1>1, <1>2
<1> QED
  BY <1>3

(* One of shards that were never paid, with something left to pay.         *)
LEMMA ClaimStillPays ==
  ASSUME IInv, NEW b \in Blobs, NEW claimed \in SUBSET ShardsOf(b), claimed # {},
         ClaimsOpen(b), claimed \cap providerSettlementClaimed[b] = {},
         blobPayments[b].providerRewardPerShard > 0 \/ now >= blobs[b].expiresAt
  PROVE  /\ blobPayments[b].status \in {"Claimable", "PartiallySettled"}
         /\ ClaimAmount(b, claimed) > 0
         /\ blobPayments[b].providerSettled + ClaimAmount(b, claimed)
              <= blobPayments[b].providerPool
<1>1. MoneyInv(b) /\ Typed /\ blobPayments[b].status # "None"
  BY DEF IInv, ClaimsOpen
<1>2. /\ providerReserveClaimed[b] \subseteq providerSettlementClaimed[b]
      /\ blobPayments[b].status = "Settled" => providerReserveClaimed[b] = ShardsOf(b)
  BY <1>1 DEF MoneyInv, SoundMarkers, SettledWhenAllPaid
<1>3. blobPayments[b].status # "Settled"
  BY <1>2
<1>4. NewRewards(b, claimed) # {}
      /\ (now >= blobs[b].expiresAt => NewReserves(b, claimed) # {})
  BY <1>2 DEF NewRewards, NewReserves
<1>5. PICK r, k, c, d :
        /\ r = blobPayments[b].providerRewardPerShard
        /\ r \in Nat /\ k \in Nat \ {0} /\ c \in Nat /\ d \in Nat
        /\ ClaimAmount(b, claimed) = r * c + k * d
        /\ NewRewards(b, claimed) # {} <=> c > 0
        /\ NewReserves(b, claimed) # {} <=> d > 0
        /\ blobPayments[b].providerSettled + ClaimAmount(b, claimed)
             <= blobPayments[b].providerPool
  BY <1>1, ClaimAmountIs
<1>6. r * c \in Nat /\ k * d \in Nat /\ (r # 0 /\ c # 0 => r * c # 0) /\ (d # 0 => k * d # 0)
  BY <1>5
<1>7. (r # 0 /\ c # 0) \/ d # 0
  <2>1. c # 0
    BY <1>4, <1>5
  <2>2. CASE blobPayments[b].providerRewardPerShard > 0
    BY <1>5, <2>1, <2>2
  <2>3. CASE now >= blobs[b].expiresAt
    BY <1>4, <1>5, <2>3
  <2> QED
    BY <2>2, <2>3
<1>8. r * c + k * d > 0
  BY <1>6, <1>7
<1> QED
  BY <1>3, <1>5, <1>8 DEF ClaimsOpen
-----------------------------------------------------------------------------
(* Transactions.                                                           *)

(* The provider a call is about, and the wallet of its operator.           *)
LEMMA AddresseeIs ==
  ASSUME GInv, NEW q \in RequestRecords, Addresses(q), q.provider # NoProvider
  PROVE  /\ q.provider \in ProviderIds /\ ProviderActive(q.provider)
         /\ providerIdByOperator[providers[q.provider].operator] = q.provider
<1>1. IsKnown(q.provider)
  BY DEF RequestRecords, MaybeProvider, Addresses, IsKnown
<1> QED
  BY <1>1 DEF GInv, ProvidersServe, IsKnown, ProviderActive

(* The steps of each kind; a step from Create to Index is an upload's.     *)
LEMMA KindOfStep ==
  ASSUME NEW q \in RequestRecords, InPlace(q), Live(q)
  PROVE  /\ Serving /\ q.blob \in Blobs /\ q.kind \in {"Put", "Post", "Rebuild"}
         /\ q.step \in UploadSteps => q.kind \in {"Put", "Post"}
         /\ q.step \in RebuildSteps => q.kind = "Rebuild"
BY DEF RequestRecords, Kinds, InPlace, Live, UploadSteps, RebuildSteps

LEMMA SubmitMoves ==
  ASSUME StepWorld, NEW r \in Requests, Submit(r)
  PROVE  \E o : GoesOn(r, o)
<1>1. PICK q : q = requests[r]
  OBVIOUS
<1>2. PICK o : o = [q EXCEPT !.sent = TRUE]
  OBVIOUS
<1>3. /\ q \in RequestRecords /\ InPlace(q) /\ Knows(q)' /\ Live(q) /\ q.step \in TxSteps
      /\ Passes(q) /\ Takes(r, o) /\ UNCHANGED vars /\ registered' = registered
      /\ IInv /\ BlobsServe
  BY <1>1, <1>2, KnownBefore DEF Submit, StepWorld, GInv
<1>4. /\ o \in RequestRecords /\ o.kind = q.kind /\ o.blob = q.blob /\ o.step = q.step
      /\ o.shard = q.shard /\ o.provider = q.provider /\ o.placed = q.placed
      /\ o.acked = q.acked /\ o.claims = q.claims /\ o.reported = q.reported /\ o.sent
  BY <1>2, <1>3 DEF RequestRecords
<1>5. Serving /\ q.blob \in Blobs /\ q.kind \in {"Put", "Post", "Rebuild"}
  BY <1>3, KindOfStep
<1>6. q.step = "Start" => q.provider # NoProvider
  BY <1>3 DEF Passes
<1>7. Addresses(o)' /\ Stored(o)' /\ Reports(o)'
  BY <1>3, <1>4, <1>6 DEF Knows, Addresses, Stored, Reports
<1>11. Uploads(o)'
  <2>1. q.step = "Acknowledge" => placement[q.blob][q.shard] = q.provider
    <3>1. q.step = "Acknowledge" =>
            /\ q.provider # NoProvider
            /\ MayAcknowledgeShard(providers[q.provider].operator, q.blob, q.shard)
      BY <1>3 DEF Knows, Addresses, ProviderSteps, Passes
    <3> QED
      BY <1>1, <1>3, <3>1, KnownBefore, AddresseeIs DEF MayAcknowledgeShard, StepWorld, Knows
  <2>2. placement' = placement
    BY <1>3, Untouched
  <2> QED
    BY <1>3, <1>4, <2>1, <2>2 DEF Knows, Uploads
<1>8. Claims(o)'
  <2> DEFINE b == q.blob
             share == ShardsAt(q, q.provider)
  <2> SUFFICES ASSUME q.step = "Claim"
               PROVE  Claims(o)'
    BY <1>4 DEF Claims
  <2>1. /\ now' = now /\ blobs' = blobs /\ blobPayments' = blobPayments
        /\ placement' = placement /\ nextProviderId' = nextProviderId
        /\ providerSettlementClaimed' = providerSettlementClaimed
    BY <1>3, Untouched
  <2>2. /\ blobs[b].exists /\ ClaimsOpen(b) /\ share \in SUBSET Shards
        /\ blobs[b].status = "Active" => q.placed = placement[b]
    BY <1>3, <2>1 DEF Knows, Claims, ShardsAt, ClaimsOpen
  <2>3. ClaimAmount(b, share) > 0 /\ share \in SUBSET ShardsOf(b)
    BY <1>3, <2>2 DEF Passes, MayClaimSettlement, ShardsOf
  <2>4. blobPayments[b].providerRewardPerShard > 0 \/ now >= blobs[b].expiresAt
    BY <1>3, <1>5, <2>2, <2>3, PayingClaim DEF ClaimsOpen
  <2>5. PaidTogether(b)
    BY <1>3, <1>5 DEF BlobsServe
  <2>6. blobs[b].status = "Active" =>
          \/ share \subseteq providerSettlementClaimed[b]
          \/ share \cap providerSettlementClaimed[b] = {}
    BY <2>2, <2>5 DEF ShardsAt, PaidTogether
  <2> QED
    BY <1>3, <1>4, <2>1, <2>4, <2>6 DEF Knows, Claims, ShardsAt, ClaimsOpen, IsKnown
<1>9. InPlace(o)
  BY <1>3, <1>4, <1>5 DEF InPlace
<1>10. OnTrack(q, o)
  BY <1>4 DEF OnTrack, PastStart, Rebuilding
<1> QED
  BY <1>1, <1>3, <1>4, <1>7, <1>8, <1>9, <1>10, <1>11 DEF MovesTo, Knows, GoesOn

(* What a call was for is the case once it is mined, even if it reverted.  *)
TookEffect(q) ==
  LET b == q.blob IN
  /\ q.kind = "Put" /\ blobs[b].status = "Pending" =>
       /\ q.step = "Acknowledge" => AckedAt(b, q.shard)
       /\ q.step # "Finalize"
  /\ q.kind = "Put" /\ blobs[b].status = "Active" /\ q.step = "Claim" =>
       ShardsAt(q, q.provider) \subseteq providerSettlementClaimed[b]
  /\ q.kind = "Rebuild" /\ blobs[b].status = "Recovering" /\ q.step = "Reassign" =>
       placement[b][q.shard] = q.provider

LEMMA AfterTxKnows ==
  ASSUME StepWorld, NEW r \in Requests, NEW q, q = requests[r], q.sent, Live(q),
         TookEffect(q)', NEW o, o = AfterTx(q)
  PROVE  o \in RequestRecords /\ Knows(o)' /\ InPlace(o) /\ o.kind = q.kind /\ o.blob = q.blob
<1>1. /\ q \in RequestRecords /\ InPlace(q) /\ Knows(q)' /\ q.step \in TxSteps /\ Typed
      /\ Serving /\ q.blob \in Blobs /\ q.kind \in {"Put", "Post", "Rebuild"}
      /\ q.step \in UploadSteps => q.kind \in {"Put", "Post"}
      /\ q.step \in RebuildSteps => q.kind = "Rebuild"
  BY KnownBefore, KindOfStep DEF InPlace, StepWorld, GInv, IInv
<1>2. ASSUME q.step = "Claim" PROVE \A p \in q.claims : ShardsAt(q, p) # {}
  BY <1>1, <1>2 DEF Knows, Claims, ShardsAt
<1>3. o \in RequestRecords /\ o.kind = q.kind /\ o.blob = q.blob /\ ~o.sent
  BY <1>1, <1>2, AfterTxIs
<1>4. CASE q.step \in {"Create", "Assign", "Finalize", "Start", "Reassign", "Reacknowledge"}
  <2>1. /\ o.step = NextStep(q.step) /\ o.shard = q.shard /\ o.provider = q.provider
        /\ o.placed = q.placed /\ o.acked = q.acked /\ o.reported = q.reported
    <3>1. o = [q EXCEPT !.step = NextStep(q.step), !.sent = FALSE]
      BY <1>1, <1>4, AfterPlainTx
    <3>2. PICK step : step = NextStep(q.step)
      OBVIOUS
    <3> QED
      BY <1>1, <3>1, <3>2 DEF RequestRecords
  <2>2. /\ q.step = "Create" => o.step = "Place"
        /\ q.step = "Assign" => o.step = "Store"
        /\ q.step = "Finalize" => o.step = "Reread"
        /\ q.step = "Start" => o.step = "Reassign"
        /\ q.step = "Reassign" => o.step = "Restore"
        /\ q.step = "Reacknowledge" => o.step = "Record"
    BY <2>1 DEF NextStep
  <2>3. Addresses(o)'
    BY <1>1, <1>3, <1>4, <2>1, <2>2 DEF Knows, Addresses, ProviderSteps, RebuildSteps
  <2>4. Stored(o)' /\ Claims(o)'
    BY <1>4, <2>2 DEF Stored, Claims
  <2>5. Reports(o)'
    BY <1>1, <1>3, <1>4, <2>1 DEF Knows, Reports
  <2>6. Uploads(o)'
    BY <1>1, <1>3, <1>4, <2>1, <2>2 DEF Knows, Uploads, TookEffect, UploadSteps, RebuildSteps
  <2>7. InPlace(o)
    BY <1>1, <1>3, <1>4, <2>2 DEF InPlace, UploadSteps, RebuildSteps
  <2> QED
    BY <1>3, <2>3, <2>4, <2>5, <2>6, <2>7 DEF Knows
<1>5. CASE q.step = "Acknowledge"
  <2>1. LandsAs(o, AfterShard(q)) /\ AfterShard(q).step \in {"Store", "Assign", "Finalize"}
    BY <1>1, <1>5, AfterAcknowledgeTx, AfterShardIs DEF AtShard
  <2>2. Reading(q, q.shard)'
    BY <1>1, <1>5 DEF Reading, Knows, Uploads, Addresses, AckedAt
  <2>3. q.kind = "Put" /\ blobs'[q.blob].status = "Pending" =>
          <<placement'[q.blob][q.shard], q.shard>> \in acknowledgements'[q.blob]
    BY <1>5 DEF TookEffect, AckedAt
  <2>4. q.kind = "Put" => q.reported = {}
    BY <1>1, <1>5 DEF Knows, Reports
  <2>5. Knows(o)'
    BY <1>1, <1>3, <2>1, <2>2, <2>3, <2>4, AfterShardKnows
  <2>6. InPlace(o)
    BY <1>1, <1>3, <1>5, <2>1 DEF InPlace, LandsAs, UploadSteps
  <2> QED
    BY <1>3, <2>5, <2>6
<1>6. CASE q.step = "Claim"
  <2>1. /\ o.reported = q.reported \cup ShardsAt(q, q.provider)
        /\ \/ o.step = "Index" /\ Unread(o)
           \/ o.step = "Claim" /\ Reads(o, q) /\ o.claims \subseteq q.claims
              /\ o.provider \in o.claims
    BY <1>1, <1>2, <1>6, AfterClaimTx
  <2>2. \A p \in q.claims : IsKnown(p)' /\ p # NoProvider
    BY <1>1, <1>6, BoundsAssumption DEF Knows, Claims, IsKnown, ProviderIds, NoProvider
  <2>3. 0 < nextProviderId'
    BY BoundsAssumption DEF StepWorld, IInv, Typed
  <2>4. Addresses(o)'
    BY <1>1, <2>1, <2>2, <2>3
       DEF Knows, Addresses, Unread, Reads, ProviderSteps, RebuildSteps, IsKnown, NoProvider
  <2>5. Stored(o)' /\ Uploads(o)'
    BY <1>1, <1>3, <1>6, <2>1 DEF Knows, Stored, Uploads
  <2>6. Claims(o)'
    BY <1>1, <1>3, <1>6, <2>1 DEF Knows, Claims, Reads, ShardsAt
  <2>7. Reports(o)'
    BY <1>1, <1>3, <1>6, <2>1 DEF Knows, Reports, TookEffect, ShardsAt
  <2>8. InPlace(o)
    BY <1>1, <1>3, <1>6, <2>1 DEF InPlace, UploadSteps
  <2> QED
    BY <1>3, <2>4, <2>5, <2>6, <2>7, <2>8 DEF Knows
<1>7. CASE q.step = "Record"
  <2>1. /\ Reads(o, q) /\ o.step \in {"Read", "Start"}
        /\ o.provider = q.provider \/ \E s \in Shards : o.provider = q.placed[s]
    BY <1>1, <1>7, AfterRecordTx
  <2>2. /\ blobs'[q.blob].exists /\ q.provider < nextProviderId'
        /\ \A s \in Shards : q.placed[s] < nextProviderId'
    BY <1>1, <1>7 DEF Knows, Addresses, RebuildSteps
  <2>3. Knows(o)' /\ InPlace(o)
    BY <1>1, <1>3, <1>7, <2>1, <2>2, RebuildKnows DEF Reads, RebuildSteps
  <2> QED
    BY <1>3, <2>3
<1> QED
  BY <1>1, <1>4, <1>5, <1>6, <1>7 DEF TxSteps

LEMMA MinedTookEffect ==
  ASSUME StepWorld, NEW r \in Requests, NEW q, q = requests[r], q.sent, Live(q), Tx(q)
  PROVE  TookEffect(q)'
<1>1. /\ q \in RequestRecords /\ InPlace(q) /\ Knows(q) /\ q.step \in TxSteps
      /\ q.blob \in Blobs /\ q.shard \in Shards
      /\ q.step \in UploadSteps => q.kind \in {"Put", "Post"}
      /\ q.step \in RebuildSteps => q.kind = "Rebuild"
  BY KnownBefore, KindOfStep DEF InPlace, RequestRecords
<1>2. Typed /\ GInv
  BY DEF StepWorld, GInv, IInv
<1>3. q.provider \in MaybeProvider
  BY <1>1 DEF RequestRecords
<1>5. CASE q.step = "Acknowledge"
  <2>1. AcknowledgeShard(providers[q.provider].operator, q.blob, q.shard)
    BY <1>5 DEF Tx
  <2>2. <<placement'[q.blob][q.shard], q.shard>> \in acknowledgements'[q.blob]
    BY <1>1, <1>2, <2>1 DEF AcknowledgeShard, MayAcknowledgeShard, Typed
  <2> QED
    BY <1>1, <1>5, <2>2 DEF TookEffect, AckedAt, UploadSteps
<1>6. CASE q.step = "Finalize"
  <2>1. FinalizeBlob(Admin, q.blob)
    BY <1>6 DEF Tx
  <2>2. blobs'[q.blob].status = "Active"
    BY <1>1, <1>2, <2>1 DEF FinalizeBlob, Typed, BlobRecords
  <2> QED
    BY <1>1, <1>6, <2>2 DEF TookEffect, UploadSteps
<1>7. CASE q.step = "Claim"
  <2>1. ClaimProviderSettlement(providers[q.provider].operator, q.blob, ShardsAt(q, q.provider))
    BY <1>7 DEF Tx
  <2>2. ShardsAt(q, q.provider) \subseteq providerSettlementClaimed'[q.blob]
    BY <1>1, <1>2, <2>1 DEF ClaimProviderSettlement, NewRewards, Typed
  <2> QED
    BY <1>1, <1>7, <2>2 DEF TookEffect, UploadSteps, ShardsAt
<1>8. CASE q.step = "Reassign"
  <2>1. ReassignShard(Admin, q.blob, q.shard, q.provider)
    BY <1>8 DEF Tx
  <2>2. placement'[q.blob][q.shard] = q.provider
    BY <1>1, <1>2, <2>1 DEF ReassignShard, Typed
  <2> QED
    BY <1>1, <1>8, <2>2 DEF TookEffect, RebuildSteps
<1>9. CASE q.step \in {"Create", "Assign", "Start", "Reacknowledge", "Record"}
  BY <1>1, <1>9 DEF TookEffect, UploadSteps, RebuildSteps
<1> QED
  BY <1>1, <1>5, <1>6, <1>7, <1>8, <1>9 DEF TxSteps

(* A call that reverts was overtaken by one that did the same: until then  *)
(* what the request knows is enough for the call to pass.                  *)
LEMMA RevertedTookEffect ==
  ASSUME StepWorld, NEW r \in Requests, NEW q, q = requests[r], q.sent, Live(q), ~Passes(q)
  PROVE  TookEffect(q)
<1>1. /\ q \in RequestRecords /\ InPlace(q) /\ Knows(q) /\ q.step \in TxSteps /\ Serving
      /\ q.blob \in Blobs /\ q.shard \in Shards
      /\ q.step \in UploadSteps => q.kind \in {"Put", "Post"}
      /\ q.step \in RebuildSteps => q.kind = "Rebuild"
  BY KnownBefore, KindOfStep DEF InPlace, RequestRecords
<1>2. /\ Typed /\ GInv /\ IInv /\ BlobsServe /\ coordinators = {Admin}
  BY DEF StepWorld, GInv, IInv, ProvidersServe
<1>3. blobs[q.blob].exists => OnlyBlobOwnerOrCoordinator(Admin, q.blob)
  BY <1>2 DEF OnlyBlobOwnerOrCoordinator
<1>4. blobs[q.blob].exists =>
        /\ ShardsOf(q.blob) = Shards /\ blobs[q.blob].totalShards = MaxShards
        /\ \A s \in Shards : s < blobs[q.blob].totalShards
  BY <1>1, <1>2, FinalIsPlaced DEF BlobsServe, ShardsOf
<1>5. q.provider # NoProvider =>
        /\ q.provider \in ProviderIds /\ ProviderActive(q.provider)
        /\ providerIdByOperator[providers[q.provider].operator] = q.provider
  BY <1>1, <1>2, AddresseeIs DEF Knows
<1>6. q.step \in ProviderSteps => q.provider # NoProvider
  BY <1>1 DEF Knows, Addresses
<1>8. CASE q.step = "Acknowledge"
  <2> SUFFICES ASSUME q.kind = "Put", blobs[q.blob].status = "Pending"
               PROVE  FALSE
    BY <1>1, <1>8 DEF TookEffect
  <2>1. blobs[q.blob].exists /\ placement[q.blob][q.shard] = q.provider
    BY <1>1, <1>8 DEF Knows, Uploads
  <2> QED
    BY <1>1, <1>4, <1>5, <1>6, <1>8, <2>1 DEF Passes, MayAcknowledgeShard, ProviderSteps
<1>9. CASE q.step = "Finalize"
  <2> SUFFICES ASSUME q.kind = "Put", blobs[q.blob].status = "Pending"
               PROVE  FALSE
    BY <1>1, <1>9 DEF TookEffect
  <2>1. blobs[q.blob].exists /\ \A s \in Shards : AckedAt(q.blob, s)
    BY <1>1, <1>9 DEF Knows, Uploads
  <2>2. AckedShards(q.blob) = ShardsOf(q.blob)
    BY <1>4, <2>1 DEF AckedShards, AckedAt
  <2>3. blobs[q.blob].acknowledgementCount = Cardinality(AckedShards(q.blob))
    BY <1>1, <1>2 DEF IInv, Acknowledged
  <2>4. Cardinality(ShardsOf(q.blob)) = blobs[q.blob].totalShards
    BY <1>1, <1>2, ShardsFinite
  <2> QED
    BY <1>3, <1>9, <2>1, <2>2, <2>3, <2>4 DEF Passes, MayFinalizeBlob, FullyAcknowledged
<1>10. CASE q.step = "Claim"
  <2> DEFINE b == q.blob
             p == q.provider
             share == ShardsAt(q, p)
  <2> SUFFICES ASSUME blobs[b].status = "Active", ~(share \subseteq providerSettlementClaimed[b])
               PROVE  FALSE
    BY <1>1, <1>10 DEF TookEffect
  <2>1. /\ blobs[b].exists /\ ClaimsOpen(b) /\ q.placed = placement[b] /\ share # {}
        /\ share \cap providerSettlementClaimed[b] = {}
        /\ blobPayments[b].providerRewardPerShard > 0 \/ now >= blobs[b].expiresAt
    BY <1>1, <1>10 DEF Knows, Claims
  <2>2. share \in SUBSET ShardsOf(b)
    BY <1>4, <2>1 DEF ShardsAt
  <2>3. /\ blobPayments[b].status \in {"Claimable", "PartiallySettled"}
        /\ ClaimAmount(b, share) > 0
        /\ blobPayments[b].providerSettled + ClaimAmount(b, share)
             <= blobPayments[b].providerPool
    BY <1>1, <1>2, <2>1, <2>2, ClaimStillPays
  <2>4. \A s \in share : /\ s < blobs[b].totalShards /\ placement[b][s] = p
                         /\ <<p, s>> \in acknowledgements[b]
    BY <1>1, <1>2, <1>4, <2>1, FinalIsPlaced DEF ShardsAt, AckedAt
  <2>5. p # NoProvider /\ ProviderActive(p) /\ providerIdByOperator[providers[p].operator] = p
    BY <1>5, <1>6, <1>10 DEF ProviderSteps
  <2>6. MayClaimSettlement(providers[p].operator, b, share)
    BY <2>1, <2>3, <2>4, <2>5 DEF MayClaimSettlement
  <2> QED
    BY <1>10, <2>6 DEF Passes
<1>11. CASE q.step = "Reassign"
  <2> SUFFICES ASSUME blobs[q.blob].status = "Recovering"
               PROVE  FALSE
    BY <1>1, <1>11 DEF TookEffect, RebuildSteps
  <2>1. blobs[q.blob].exists
    BY <1>1, <1>11 DEF Knows, Addresses, RebuildSteps
  <2> QED
    BY <1>1, <1>3, <1>4, <1>5, <1>6, <1>11, <2>1 DEF Passes, MayReassignShard, ProviderSteps
<1>12. CASE q.step \in {"Create", "Assign", "Start", "Reacknowledge", "Record"}
  BY <1>1, <1>12 DEF TookEffect, UploadSteps, RebuildSteps
<1> QED
  BY <1>1, <1>8, <1>9, <1>10, <1>11, <1>12 DEF TxSteps

(* Mined or reverted, the request goes on knowing.                         *)
LEMMA LandedMoves ==
  ASSUME StepWorld, NEW r \in Requests, Mine(r) \/ Revert(r), NEW q, q = requests[r], Live(q)
  PROVE  /\ TookEffect(q)'
         /\ \E o : GoesOn(r, o)
<1>1. PICK o : o = AfterTx(q)
  OBVIOUS
<1>2. q.sent /\ Takes(r, o) /\ registered' = registered
  BY <1>1 DEF Mine, Revert
<1>3. TookEffect(q)'
  <2>1. CASE Mine(r)
    BY <1>2, <2>1, MinedTookEffect DEF Mine
  <2>2. CASE Revert(r)
    <3>1. TookEffect(q)
      BY <1>2, <2>2, RevertedTookEffect DEF Revert
    <3>2. UNCHANGED vars
      BY <2>2 DEF Revert
    <3> QED
      BY <3>1, <3>2, Untouched DEF TookEffect, AckedAt
  <2> QED
    BY <2>1, <2>2
<1>4. o \in RequestRecords /\ Knows(o)' /\ InPlace(o) /\ o.kind = q.kind /\ o.blob = q.blob
  BY <1>1, <1>2, <1>3, AfterTxKnows
<1>5. /\ q \in RequestRecords /\ Typed /\ q.step \in TxSteps
      /\ q.step = "Claim" => \A p \in q.claims : ShardsAt(q, p) # {}
  BY <1>2, KnownBefore DEF StepWorld, GInv, IInv, InPlace, Knows, Claims
<1>6. OnTrack(q, o)
  <2>1. CASE q.step \in {"Create", "Assign", "Finalize", "Start", "Reassign", "Reacknowledge"}
    <3>1. o = [q EXCEPT !.step = NextStep(q.step), !.sent = FALSE]
      BY <1>1, <1>5, <2>1, AfterPlainTx
    <3>2. PICK step : step = NextStep(q.step)
      OBVIOUS
    <3>3. /\ o.step = step /\ o.shard = q.shard /\ o.provider = q.provider
          /\ o.kind = q.kind /\ o.blob = q.blob
      BY <1>5, <3>1, <3>2 DEF RequestRecords
    <3> QED
      BY <1>2, <2>1, <3>2, <3>3 DEF OnTrack, PastStart, Rebuilding, NextStep
  <2>2. CASE q.step = "Acknowledge"
    <3>1. LandsAs(o, AfterShard(q)) /\ AfterShard(q).step \in {"Store", "Assign", "Finalize"}
      BY <1>1, <1>5, <2>2, AfterAcknowledgeTx, AfterShardIs DEF AtShard
    <3> QED
      BY <1>4, <2>2, <3>1 DEF OnTrack, PastStart, Rebuilding, LandsAs
  <2>3. CASE q.step = "Claim"
    <3>1. o.step \in {"Index", "Claim"}
      BY <1>1, <1>5, <2>3, AfterClaimTx
    <3> QED
      BY <1>4, <2>3, <3>1 DEF OnTrack, PastStart, Rebuilding
  <2>4. CASE q.step = "Record"
    <3>1. o.step \in {"Read", "Start"}
      BY <1>1, <1>5, <2>4, AfterRecordTx
    <3> QED
      BY <1>2, <1>4, <2>4, <3>1 DEF OnTrack, PastStart, Rebuilding
  <2> QED
    BY <1>5, <2>1, <2>2, <2>3, <2>4 DEF TxSteps
<1> QED
  BY <1>1, <1>2, <1>3, <1>4, <1>6 DEF MovesTo, GoesOn
-----------------------------------------------------------------------------
(* What a step does to the requests: nothing; some are cut off; one is     *)
(* over, begins or goes on.                                                *)

Stands ==
  /\ requests' = requests /\ interrupted' = interrupted
  /\ registered' = registered \/ ~Serving

Stops(R) ==
  /\ Ends(R)
  /\ \A r \in R : Live(requests[r])
  /\ registered' = registered \/ \A r \in Requests : Live(requests[r]) => r \in R

IsOver(r) ==
  /\ Takes(r, Idle) /\ interrupted' = interrupted /\ registered' = registered
  /\ requests[r].kind = "Orphan" \/ requests[r].step = "Index"

Begins(r, o) ==
  /\ MovesTo(r, o) /\ interrupted' = interrupted
  /\ requests[r] = Idle /\ o.step \in {"Place", "Create", "Fetch"}
  /\ o.kind \in {"Put", "Post", "Rebuild"}
  /\ o.kind = "Rebuild" =>
       /\ jobs'[o.blob] = "running"
       /\ \A t \in Requests : requests[t].blob = o.blob => requests[t].kind # "Rebuild"

Continues(r, o) ==
  /\ GoesOn(r, o) /\ interrupted' = interrupted
  /\ requests[r].sent => Mine(r) \/ Revert(r)

(* A request that is not over is at a step of its own.                     *)
LEMMA WorkingRequest ==
  ASSUME StepWorld, NEW r \in Requests
  PROVE  /\ requests[r] \in RequestRecords /\ InPlace(requests[r]) /\ Knows(requests[r])
         /\ requests[r].step \notin TxSteps \cup {"None"} =>
              Live(requests[r]) /\ ~requests[r].sent
         /\ requests[r].sent /\ ~Live(requests[r]) => requests[r].kind = "Orphan"
<1>1. requests[r] \in RequestRecords /\ InPlace(requests[r]) /\ Knows(requests[r])
  BY DEF StepWorld, GInv, GatewayTyped, RequestInv
<1>2. requests[r].sent /\ ~Live(requests[r]) => requests[r].kind = "Orphan"
  BY <1>1 DEF InPlace, Live
<1> QED
  BY <1>1, <1>2, BetweenCalls

LEMMA RequestMoves ==
  ASSUME StepWorld, NEW r \in Requests, RequestStep(r)
  PROVE  Stops({r}) \/ IsOver(r) \/ \E o : Continues(r, o)
<1>0. /\ requests[r] \in RequestRecords /\ InPlace(requests[r]) /\ Knows(requests[r])
      /\ requests[r].step \notin TxSteps \cup {"None"} =>
              Live(requests[r]) /\ ~requests[r].sent
      /\ requests[r].sent /\ ~Live(requests[r]) => requests[r].kind = "Orphan"
  BY WorkingRequest
<1>1. CASE Submit(r)
  <2>1. interrupted' = interrupted /\ ~requests[r].sent
    BY <1>1 DEF Submit, historyVars
  <2> QED
    BY <1>1, <2>1, SubmitMoves DEF Continues
<1>2. CASE Refuse(r)
  BY <1>2 DEF Refuse, Stops
<1>3. CASE Mine(r) \/ Revert(r)
  <2>1. interrupted' = interrupted /\ registered' = registered /\ requests[r].sent
    BY <1>3 DEF Mine, Revert, historyVars
  <2>2. CASE Live(requests[r])
    BY <1>3, <2>1, <2>2, LandedMoves DEF Continues
  <2>3. CASE ~Live(requests[r])
    BY <1>0, <1>3, <2>1, <2>3 DEF Mine, Revert, IsOver
  <2> QED
    BY <2>2, <2>3
<1>4. CASE Place(r)
  <2>1. requests[r].step = "Place" /\ registered' = registered
    BY <1>4 DEF Place
  <2>2. Live(requests[r]) /\ ~requests[r].sent
    BY <1>0, <2>1 DEF TxSteps
  <2>3. ~Ends({r}) => interrupted' = interrupted
    BY <1>4 DEF Place, historyVars
  <2> QED
    BY <1>4, <2>1, <2>2, <2>3, PlaceMoves DEF Stops, Continues
<1>5. CASE Store(r) \/ Reread(r) \/ ReadAgain(r)
  <2>1. /\ requests[r].step \in {"Store", "Restore", "Reread", "Read"}
        /\ interrupted' = interrupted
    BY <1>5 DEF Store, Reread, ReadAgain, historyVars
  <2>2. ~requests[r].sent
    BY <1>0, <2>1 DEF TxSteps
  <2> QED
    BY <1>5, <2>1, <2>2, StoreMoves, RereadMoves, ReadAgainMoves DEF Continues
<1>6. CASE Index(r)
  BY <1>6 DEF Index, IsOver, historyVars
<1>7. CASE Fetch(r)
  <2>1. /\ requests[r].step = "Fetch" /\ UNCHANGED vars /\ registered' = registered
        /\ \E missing \in SUBSET Shards : AfterFetch(r, missing)
    BY <1>0, <1>7 DEF Fetch, RequestRecords
  <2>2. Live(requests[r]) /\ ~requests[r].sent
    BY <1>0, <2>1 DEF TxSteps
  <2>3. ~Ends({r}) => interrupted' = interrupted
    BY <2>1 DEF AfterFetch, historyVars
  <2> QED
    BY <2>1, <2>2, <2>3, FetchMoves DEF Stops, Continues
<1> QED
  BY <1>1, <1>2, <1>3, <1>4, <1>5, <1>6, <1>7 DEF RequestStep

LEMMA RequestFails ==
  ASSUME StepWorld, NEW r \in Requests, FetchFails(r) \/ CallFails(r) \/ IndexFails(r)
  PROVE  Stops({r}) \/ \E o : Continues(r, o)
<1>0. /\ requests[r] \in RequestRecords
      /\ requests[r].step \notin TxSteps \cup {"None"} =>
              Live(requests[r]) /\ ~requests[r].sent
  BY WorkingRequest
<1>1. CASE FetchFails(r)
  <2>1. /\ requests[r].step = "Fetch" /\ UNCHANGED vars /\ registered' = registered
        /\ \E missing \in SUBSET Shards : AfterFetch(r, missing)
    BY <1>0, <1>1 DEF FetchFails, RequestRecords
  <2>2. Live(requests[r]) /\ ~requests[r].sent
    BY <1>0, <2>1 DEF TxSteps
  <2>3. ~Ends({r}) => interrupted' = interrupted
    BY <2>1 DEF AfterFetch, historyVars
  <2> QED
    BY <2>1, <2>2, <2>3, FetchMoves DEF Stops, Continues
<1>2. CASE CallFails(r)
  BY <1>2 DEF CallFails, Stops
<1>3. CASE IndexFails(r)
  BY <1>0, <1>3 DEF IndexFails, Stops, TxSteps
<1> QED
  BY <1>1, <1>2, <1>3

LEMMA RequestsMove ==
  ASSUME StepWorld, [GatewayNext]_<<vars, gatewayVars>>
  PROVE  \/ Stands
         \/ \E R \in SUBSET Requests : Stops(R)
         \/ \E r \in Requests : IsOver(r)
         \/ \E r \in Requests : \E o : Begins(r, o) \/ Continues(r, o)
<1>1. CASE RegisterConfigured
  BY <1>1 DEF RegisterConfigured, Stands, historyVars
<1>2. CASE OwnerSteps \/ UNCHANGED gatewayVars
  BY <1>2 DEF OwnerSteps, OwnerRegisters, OwnerIntervenes, Passing, gatewayVars, historyVars,
              Stands
<1>3. CASE Clients
  <2>1. PICK r \in Requests, b \in Blobs :
          \/ \E a \in Owners, n \in Names : BeginPut(r, a, n, b)
          \/ BeginPost(r, b)
          \/ BeginRebuild(r, b)
    BY <1>3 DEF Clients
  <2>2. requests[r] = Idle /\ interrupted' = interrupted
    BY <2>1 DEF BeginPut, BeginPost, BeginRebuild, Free, historyVars
  <2>3. CASE \E a \in Owners, n \in Names : BeginPut(r, a, n, b)
    BY <2>2, <2>3, BeginPutMoves DEF Begins
  <2>4. CASE BeginPost(r, b)
    BY <2>2, <2>4, BeginPostMoves DEF Begins
  <2>5. CASE BeginRebuild(r, b)
    <3>1. \A t \in Requests : requests[t].blob = b => requests[t].kind # "Rebuild"
      BY <2>5 DEF BeginRebuild, LeftRunning, StepWorld, GInv, RequestInv, Rebuilds
    <3>2. jobs'[b] = "running"
      BY <2>5 DEF BeginRebuild, StepWorld, GInv, GatewayTyped
    <3> QED
      BY <2>2, <2>5, <3>1, <3>2, BeginRebuildMoves DEF Begins
  <2> QED
    BY <2>1, <2>3, <2>4, <2>5
<1>4. CASE Crash
  <2>1. PICK R : R = {r \in Requests : Live(requests[r])}
    OBVIOUS
  <2>2. Stops(R)
    BY <1>4, <2>1 DEF Crash, Stops
  <2> QED
    BY <2>1, <2>2
<1>5. ASSUME NEW b \in Blobs, NEW pair \in files[b], LoseShard(b, pair)
      PROVE  Stands
  BY <1>5 DEF LoseShard, Stands, historyVars
<1>6. \A r \in Requests : {r} \in SUBSET Requests
  OBVIOUS
<1>7. ASSUME NEW r \in Requests,
             RequestStep(r) \/ FetchFails(r) \/ CallFails(r) \/ IndexFails(r)
      PROVE  Stops({r}) \/ IsOver(r) \/ \E o : Continues(r, o)
  BY <1>7, RequestMoves, RequestFails
<1> QED
  BY <1>1, <1>2, <1>3, <1>4, <1>5, <1>6, <1>7 DEF GatewayNext, FaultSteps

LEMMA RequestsTyped ==
  ASSUME StepWorld, [GatewayNext]_<<vars, gatewayVars>>
  PROVE  /\ requests' \in [Requests -> RequestRecords]
         /\ interrupted \subseteq interrupted' /\ interrupted' \subseteq Blobs
<1>1. /\ requests \in [Requests -> RequestRecords] /\ interrupted \subseteq Blobs
      /\ \A t \in Requests : InPlace(requests[t])
  BY DEF StepWorld, GInv, GatewayTyped, RequestInv
<1>2. CASE Stands
  BY <1>1, <1>2 DEF Stands
<1>3. ASSUME NEW R \in SUBSET Requests, Stops(R)
      PROVE  /\ requests' \in [Requests -> RequestRecords]
             /\ interrupted \subseteq interrupted' /\ interrupted' \subseteq Blobs
  <2>1. Ends(R) /\ \A t \in R : requests[t].blob \in Blobs
    BY <1>1, <1>3 DEF Stops, Live, InPlace
  <2> QED
    BY <1>1, <2>1, EndsIs
<1>4. ASSUME NEW t \in Requests, NEW o \in RequestRecords, Takes(t, o),
             interrupted' = interrupted
      PROVE  /\ requests' \in [Requests -> RequestRecords]
             /\ interrupted \subseteq interrupted' /\ interrupted' \subseteq Blobs
  BY <1>1, <1>4, TakesIs
<1>5. ASSUME NEW t \in Requests, IsOver(t) \/ \E o : Begins(t, o) \/ Continues(t, o)
      PROVE  interrupted' = interrupted /\ \E o \in RequestRecords : Takes(t, o)
  BY <1>5, IdleIs DEF IsOver, Begins, Continues, GoesOn, MovesTo
<1> QED
  BY <1>2, <1>3, <1>4, <1>5, RequestsMove

(* What has become of request r: nothing has changed for it, it is over,   *)
(* or what it had sent is left; or it begins or goes on.                   *)
LEMMA WhatBecomes ==
  ASSUME StepWorld, [GatewayNext]_<<vars, gatewayVars>>, NEW r \in Requests,
         NEW q, q = requests[r]
  PROVE  \/ requests'[r] = q
         \/ /\ requests'[r] = Idle
            /\ PastStart(q) /\ q.kind # "Orphan" => q.blob \in interrupted'
         \/ /\ requests'[r] = [q EXCEPT !.kind = "Orphan"] /\ q.sent
            /\ PastStart(q) => q.blob \in interrupted'
         \/ \E o : requests'[r] = o /\ (Begins(r, o) \/ Continues(r, o))
<1>1. requests \in [Requests -> RequestRecords]
  BY DEF StepWorld, GInv, GatewayTyped
<1>2. CASE Stands
  BY <1>2 DEF Stands
<1>3. ASSUME NEW R \in SUBSET Requests, Stops(R)
      PROVE  \/ requests'[r] = q
             \/ /\ requests'[r] = Idle
                /\ PastStart(q) /\ q.kind # "Orphan" => q.blob \in interrupted'
             \/ /\ requests'[r] = [q EXCEPT !.kind = "Orphan"] /\ q.sent
                /\ PastStart(q) => q.blob \in interrupted'
  <2>1. Ends(R)
    BY <1>3 DEF Stops
  <2>2. /\ \A t \in Requests : t \notin R => requests'[t] = requests[t]
        /\ \A t \in R : \/ ~requests[t].sent /\ requests'[t] = Idle
                        \/ /\ requests[t].sent
                           /\ requests'[t] = [requests[t] EXCEPT !.kind = "Orphan"]
        /\ \A t \in R : PastStart(requests[t]) => requests[t].blob \in interrupted'
    BY <1>1, <2>1, EndsIs
  <2> QED
    BY <2>2
<1>4. ASSUME NEW t \in Requests, IsOver(t)
      PROVE  \/ requests'[r] = q
             \/ requests'[r] = Idle /\ (PastStart(q) => q.kind = "Orphan")
  <2>1. requests'[t] = Idle /\ \A u \in Requests : u # t => requests'[u] = requests[u]
    BY <1>1, <1>4, TakesIs, IdleIs DEF IsOver
  <2>2. PastStart(requests[t]) => requests[t].kind = "Orphan"
    BY <1>4 DEF IsOver, PastStart
  <2> QED
    BY <2>1, <2>2
<1>5. ASSUME NEW t \in Requests, NEW o, Begins(t, o) \/ Continues(t, o)
      PROVE  requests'[r] = q \/ (t = r /\ requests'[r] = o)
  <2>1. o \in RequestRecords /\ Takes(t, o)
    BY <1>5 DEF Begins, Continues, GoesOn, MovesTo
  <2> QED
    BY <1>1, <2>1, TakesIs
<1> QED
  BY <1>2, <1>3, <1>4, <1>5, RequestsMove

(* Every request keeps its place, and knows the world after the step.      *)
LEMMA RequestsKnow ==
  ASSUME StepWorld, [GatewayNext]_<<vars, gatewayVars>>, NEW r \in Requests
  PROVE  InPlace(requests[r])' /\ Knows(requests[r])'
<1>1. PICK q : q = requests[r]
  OBVIOUS
<1>2. q \in RequestRecords /\ InPlace(q) /\ Knows(q)'
  BY <1>1, KnownBefore
<1>3. IInv'
  BY DEF StepWorld
<1>4. ASSUME NEW o, requests'[r] = o, InPlace(o)', Knows(o)'
      PROVE  InPlace(requests[r])' /\ Knows(requests[r])'
  BY <1>4, KnowsAs DEF InPlace, Live, Serving
<1>5. ASSUME NEW o, ~Live(o), InPlace(o) PROVE InPlace(o)'
  BY <1>5 DEF InPlace, Live
<1>6. InPlace(Idle) /\ ~Live(Idle)
  BY IdleIs DEF InPlace, Live
<1>7. CASE requests'[r] = Idle
  BY <1>3, <1>4, <1>5, <1>6, <1>7, IdleKnows
<1>8. CASE requests'[r] = [q EXCEPT !.kind = "Orphan"] /\ q.sent
  <2>1. PICK o : o = [q EXCEPT !.kind = "Orphan"]
    OBVIOUS
  <2>2. Knows(o)'
    BY <1>2, <2>1, OrphanKnows
  <2>3. InPlace(o) /\ ~Live(o)
    BY <1>2, <1>8, <2>1 DEF RequestRecords, InPlace, Live
  <2> QED
    BY <1>4, <1>5, <1>8, <2>1, <2>2, <2>3
<1>9. ASSUME NEW o, requests'[r] = o, Begins(r, o) \/ Continues(r, o)
      PROVE  InPlace(requests[r])' /\ Knows(requests[r])'
  <2>1. Knows(o)' /\ InPlace(o) /\ registered' = registered
    BY <1>9 DEF Begins, Continues, GoesOn, MovesTo
  <2>2. InPlace(o)'
    BY <2>1 DEF InPlace, Live, Serving
  <2> QED
    BY <1>4, <1>9, <2>1, <2>2
<1>10. CASE requests'[r] = q
  <2>1. CASE registered' = registered \/ ~Serving \/ ~Live(q)
    <3>1. InPlace(q)'
      BY <1>2, <2>1 DEF InPlace, Live, Serving
    <3> QED
      BY <1>2, <1>4, <1>10, <3>1
  <2>2. CASE Live(q) /\ registered' # registered /\ Serving
    <3>1. ASSUME NEW R \in SUBSET Requests, Stops(R) PROVE FALSE
      <4>1. r \in R /\ Ends(R)
        BY <1>1, <2>2, <3>1 DEF Stops
      <4>2. \/ requests'[r] = Idle
            \/ requests'[r] = [requests[r] EXCEPT !.kind = "Orphan"]
        BY <4>1 DEF Ends, Rest
      <4>3. ~Live([q EXCEPT !.kind = "Orphan"])
        BY <1>2 DEF RequestRecords, Live
      <4> QED
        BY <1>1, <1>6, <1>10, <2>2, <4>2, <4>3
    <3>2. ~Stands
      BY <2>2 DEF Stands
    <3>3. ASSUME NEW t \in Requests, IsOver(t) \/ \E o : Begins(t, o) \/ Continues(t, o)
          PROVE  FALSE
      BY <2>2, <3>3 DEF IsOver, Begins, Continues, GoesOn, MovesTo
    <3> QED
      BY <3>1, <3>2, <3>3, RequestsMove
  <2> QED
    BY <2>1, <2>2
<1> QED
  BY <1>1, <1>7, <1>8, <1>9, <1>10, WhatBecomes
-----------------------------------------------------------------------------
(* The files behind the acknowledgements, and the index.                   *)

(* Of the registry's calls the server makes all but the owners'; they are  *)
(* mined, but for the first ones, of providers.                            *)
LEMMA WhoCalls ==
  ASSUME [GatewayNext]_<<vars, gatewayVars>>
  PROVE  \/ UNCHANGED vars
         \/ \E o : RegisterProvider(o)
         \/ \E a, b, n, e, policy, size : CreateBlobPaid(a, b, n, NumProviders, e, policy, size, 0)
         \/ OwnerIntervenes
         \/ \E t : Tick(t)
         \/ \E r \in Requests : Mine(r)
<1>1. ASSUME NEW r \in Requests,
             RequestStep(r) \/ FetchFails(r) \/ CallFails(r) \/ IndexFails(r)
      PROVE  Mine(r) \/ UNCHANGED vars
  BY <1>1 DEF RequestStep, Submit, Refuse, Revert, Place, Store, Reread, Index, ReadAgain,
              Fetch, FetchFails, CallFails, IndexFails
<1>2. RegisterConfigured => UNCHANGED vars \/ \E o : RegisterProvider(o)
  BY DEF RegisterConfigured
<1>3. Clients \/ Crash \/ (\E b \in Blobs : \E pair \in files[b] : LoseShard(b, pair)) =>
        UNCHANGED vars
  BY ZenonT(60) DEF Clients, BeginPut, BeginPost, BeginRebuild, Crash, LoseShard
<1>4. OwnerSteps =>
        \/ \E a, b, n, e, policy, size : CreateBlobPaid(a, b, n, NumProviders, e, policy, size, 0)
        \/ OwnerIntervenes
        \/ \E t : Tick(t)
  <2>1. OwnerRegisters =>
          \E a, b, n, e, policy, size : CreateBlobPaid(a, b, n, NumProviders, e, policy, size, 0)
    BY DEF OwnerRegisters
  <2>2. Passing => \E t : Tick(t)
    BY DEF Passing
  <2> QED
    BY <2>1, <2>2 DEF OwnerSteps
<1> QED
  BY <1>1, <1>2, <1>3, <1>4 DEF GatewayNext, FaultSteps

LEMMA AcksStep ==
  ASSUME StepWorld, [GatewayNext]_<<vars, gatewayVars>>
  PROVE  AcksAreBacked'
<1>1. \A b \in Blobs : acknowledgements[b] \subseteq files[b] \cup lost[b]
  BY DEF StepWorld, GInv, AcksAreBacked
<1>2. \A b \in Blobs : files[b] \cup lost[b] \subseteq files'[b] \cup lost'[b]
  BY DEF StepWorld, WorldMovesOn
<1>3. acknowledgements' = acknowledgements => AcksAreBacked'
  BY <1>1, <1>2 DEF AcksAreBacked
<1>4. UNCHANGED storageVars => acknowledgements' = acknowledgements
  BY DEF storageVars
<1>5. ASSUME NEW r \in Requests, Mine(r)
      PROVE  AcksAreBacked'
  <2>1. PICK q : q = requests[r]
    OBVIOUS
  <2>2. /\ q \in RequestRecords /\ InPlace(q) /\ Knows(q) /\ q.sent /\ Tx(q)
        /\ q.step \in TxSteps /\ q.blob \in Blobs /\ q.shard \in Shards
    BY <1>5, <2>1, KnownBefore DEF Mine, InPlace, RequestRecords
  <2>3. CASE q.step \in {"Acknowledge", "Reacknowledge"}
    <3>1. PICK op : op = providers[q.provider].operator
      OBVIOUS
    <3>2. AcknowledgeShard(op, q.blob, q.shard)
      BY <2>2, <2>3, <3>1 DEF Tx
    <3>3. providerIdByOperator[op] = q.provider
      <4>1. q.provider # NoProvider
        BY <2>2, <2>3 DEF Knows, Addresses, ProviderSteps
      <4> QED
        BY <2>2, <3>1, <4>1, AddresseeIs DEF Knows, StepWorld
    <3>4. acknowledgements' = [acknowledgements EXCEPT
                                 ![q.blob] = @ \cup {<<q.provider, q.shard>>}]
      BY <3>2, <3>3 DEF AcknowledgeShard
    <3>5. <<q.provider, q.shard>> \in files[q.blob] \cup lost[q.blob]
      BY <2>2, <2>3 DEF Knows, Stored
    <3>6. acknowledgements \in [Blobs -> SUBSET (ProviderIds \X Shards)]
      BY DEF StepWorld, GInv, IInv, Typed
    <3> QED
      BY <1>1, <1>2, <2>2, <3>4, <3>5, <3>6 DEF AcksAreBacked
  <2>4. CASE q.step \in {"Create", "Finalize", "Claim", "Start", "Record"}
    <3>1. UNCHANGED storageVars
      BY <2>2, <2>4 DEF Tx, CreateOperatorBlob, FinalizeBlob, ClaimProviderSettlement,
                        StartRecovery, RecordRebuiltShard
    <3> QED
      BY <1>3, <1>4, <3>1
  <2>5. CASE q.step \in {"Assign", "Reassign"}
    BY <1>3, <2>2, <2>5 DEF Tx, AssignShard, ReassignShard
  <2> QED
    BY <2>2, <2>3, <2>4, <2>5 DEF TxSteps
<1>6. UNCHANGED vars => acknowledgements' = acknowledgements
  BY Untouched
<1>7. ASSUME NEW o, RegisterProvider(o) PROVE acknowledgements' = acknowledgements
  BY <1>4, <1>7 DEF RegisterProvider
<1>8. ASSUME NEW a, NEW b, NEW n, NEW e, NEW policy, NEW size,
             CreateBlobPaid(a, b, n, NumProviders, e, policy, size, 0)
      PROVE  acknowledgements' = acknowledgements
  BY <1>4, <1>8 DEF CreateBlobPaid
<1>9. ASSUME NEW t, Tick(t) PROVE acknowledgements' = acknowledgements
  BY <1>4, <1>9 DEF Tick
<1>10. ASSUME NEW call, NEW a, NEW b, OwnerCalls(call, a, b)
       PROVE  acknowledgements' = acknowledgements
  <2>1. CASE FinalizeBlob(a, b) \/ RefundPaidBlob(a, b)
    BY <1>4, <2>1 DEF FinalizeBlob, RefundPaidBlob
  <2>2. ASSUME NEW s, StartRecovery(a, b, s) PROVE acknowledgements' = acknowledgements
    BY <1>4, <2>2 DEF StartRecovery
  <2>3. ASSUME NEW s, NEW p, RecordRebuiltShard(a, b, s, p)
        PROVE  acknowledgements' = acknowledgements
    BY <1>4, <2>3 DEF RecordRebuiltShard
  <2>4. ASSUME NEW s, NEW p, AssignShard(a, b, s, p) \/ ReassignShard(a, b, s, p)
        PROVE  acknowledgements' = acknowledgements
    BY <2>4 DEF AssignShard, ReassignShard
  <2> QED
    BY <1>10, <2>1, <2>2, <2>3, <2>4 DEF OwnerCalls
<1>11. OwnerIntervenes => acknowledgements' = acknowledgements
  BY <1>10 DEF OwnerIntervenes
<1> QED
  BY <1>3, <1>5, <1>6, <1>7, <1>8, <1>9, <1>11, WhoCalls

(* What is listed stays true.                                              *)
LEMMA ListedStays ==
  ASSUME StepWorld, NEW object \in Objects, NEW a \in Accounts, NEW n \in Names,
         Lists(object, a, n)
  PROVE  Lists(object, a, n)'
<1> DEFINE b == object.blob
<1> SUFFICES ASSUME b # NoBlob
             PROVE  Lists(object, a, n)'
  BY DEF Lists
<1>1. b \in Blobs
  BY DEF Objects
<1>2. RecordStays(b) /\ StorageMovesOn(b) /\ PaymentMovesOn(b)
  BY <1>1 DEF StepWorld, WorldMovesOn
<1>3. blobs[b].exists
  BY <1>1, FinalIsPlaced DEF Lists, StepWorld, GInv
<1> QED
  BY <1>1, <1>2, <1>3 DEF Lists, RecordStays, StorageMovesOn, PaymentMovesOn

(* putObject lists what the upload knows to be final and paid.             *)
LEMMA IndexedIs ==
  ASSUME StepWorld, NEW r \in Requests, requests[r].step = "Index", requests[r].kind = "Put",
         UNCHANGED vars, NEW q, q = requests[r],
         NEW object, object = [blob |-> q.blob, reported |-> q.reported]
  PROVE  /\ object \in Objects /\ q.blob \in Blobs
         /\ blobs[q.blob].owner \in Accounts /\ blobNames[q.blob] \in Names
         /\ Lists(object, blobs[q.blob].owner, blobNames[q.blob])
<1>1. q \in RequestRecords /\ InPlace(q) /\ Knows(q)
  BY KnownBefore
<1>2. object \in Objects /\ object.blob = q.blob /\ object.reported = q.reported
      /\ q.blob \in Blobs
  BY <1>1 DEF RequestRecords, Objects, InPlace
<1>3. /\ blobs[q.blob].owner \in Accounts /\ blobNames[q.blob] \in Names
      /\ blobs[q.blob].status # "Pending"
      /\ blobs[q.blob].status = "Active" =>
           q.reported \subseteq providerSettlementClaimed[q.blob]
  BY <1>1 DEF Knows, Uploads, Reports
<1> QED
  BY <1>2, <1>3 DEF Lists

(* The index and its file, taken from them or with one more object.        *)
LEMMA IndexMoves ==
  ASSUME StepWorld, [GatewayNext]_<<vars, gatewayVars>>
  PROVE  \/ index' \in {index, indexFile} /\ indexFile' = indexFile
         \/ \E object \in Objects, a \in Accounts, n \in Names :
              /\ Lists(object, a, n)
              /\ index' = [index EXCEPT ![a][n] = object]
              /\ indexFile' \in {index', indexFile}
<1>1. UNCHANGED <<index, indexFile>> => index' = index /\ indexFile' = indexFile
  OBVIOUS
<1>2. ASSUME NEW r \in Requests, Index(r) \/ IndexFails(r), requests[r].kind = "Put"
      PROVE  \E object \in Objects, a \in Accounts, n \in Names :
               /\ Lists(object, a, n)
               /\ index' = [index EXCEPT ![a][n] = object]
               /\ indexFile' \in {index', indexFile}
  <2>1. PICK q : q = requests[r]
    OBVIOUS
  <2>2. PICK object : object = [blob |-> q.blob, reported |-> q.reported]
    OBVIOUS
  <2>3. /\ requests[r].step = "Index" /\ UNCHANGED vars
        /\ index' = [index EXCEPT ![blobs[q.blob].owner][blobNames[q.blob]] = object]
        /\ indexFile' \in {index', indexFile}
    BY <1>2, <2>1, <2>2 DEF Index, IndexFails
  <2>4. /\ object \in Objects /\ q.blob \in Blobs
        /\ blobs[q.blob].owner \in Accounts /\ blobNames[q.blob] \in Names
        /\ Lists(object, blobs[q.blob].owner, blobNames[q.blob])
    BY <1>2, <2>1, <2>2, <2>3, IndexedIs
  <2> QED
    BY <2>3, <2>4
<1>3. ASSUME NEW r \in Requests, RequestStep(r) \/ FetchFails(r) \/ CallFails(r) \/ IndexFails(r)
      PROVE  \/ UNCHANGED <<index, indexFile>>
             \/ requests[r].kind = "Put" /\ (Index(r) \/ IndexFails(r))
  BY <1>3, ZenonT(60) DEF RequestStep, Submit, Refuse, Mine, Revert, Place, Store, Reread, Index,
              ReadAgain, Fetch, FetchFails, CallFails, IndexFails, storeVars
<1>4. RegisterConfigured \/ Clients \/ OwnerSteps \/ UNCHANGED gatewayVars
        \/ (\E b \in Blobs : \E pair \in files[b] : LoseShard(b, pair)) =>
        UNCHANGED <<index, indexFile>>
  BY ZenonT(60) DEF RegisterConfigured, Clients, BeginPut, BeginPost, BeginRebuild, OwnerSteps,
         OwnerRegisters, OwnerIntervenes, Passing, LoseShard, gatewayVars, storeVars
<1>5. Crash => index' = indexFile /\ indexFile' = indexFile
  BY DEF Crash
<1> QED
  BY <1>1, <1>2, <1>3, <1>4, <1>5 DEF GatewayNext, FaultSteps

LEMMA IndexStep ==
  ASSUME StepWorld, [GatewayNext]_<<vars, gatewayVars>>
  PROVE  /\ IndexSound'
         /\ index' \in [Accounts -> [Names -> Objects]]
         /\ indexFile' \in [Accounts -> [Names -> Objects]]
<1> DEFINE Indexes == [Accounts -> [Names -> Objects]]
<1>1. /\ index \in Indexes /\ indexFile \in Indexes
      /\ \A a \in Accounts, n \in Names :
           Lists(index[a][n], a, n) /\ Lists(indexFile[a][n], a, n)
  BY DEF StepWorld, GInv, GatewayTyped, IndexSound
<1>2. /\ index' \in Indexes /\ indexFile' \in Indexes
      /\ \A a \in Accounts, n \in Names :
           Lists(index'[a][n], a, n) /\ Lists(indexFile'[a][n], a, n)
  <2>1. CASE index' \in {index, indexFile} /\ indexFile' = indexFile
    BY <1>1, <2>1
  <2>2. ASSUME NEW object \in Objects, NEW a \in Accounts, NEW n \in Names,
               Lists(object, a, n), index' = [index EXCEPT ![a][n] = object],
               indexFile' \in {index', indexFile}
        PROVE  /\ index' \in Indexes /\ indexFile' \in Indexes
               /\ \A c \in Accounts, m \in Names :
                    Lists(index'[c][m], c, m) /\ Lists(indexFile'[c][m], c, m)
    <3>1. /\ index' \in Indexes /\ index'[a][n] = object
          /\ \A c \in Accounts, m \in Names :
               c # a \/ m # n => index'[c][m] = index[c][m]
      BY <1>1, <2>2
    <3>2. \A c \in Accounts, m \in Names : Lists(index'[c][m], c, m)
      BY <1>1, <2>2, <3>1
    <3> QED
      BY <1>1, <2>2, <3>1, <3>2
  <2> QED
    BY <2>1, <2>2, IndexMoves
<1>3. ASSUME NEW a \in Accounts, NEW n \in Names
      PROVE  Lists(index[a][n], a, n)' /\ Lists(indexFile[a][n], a, n)'
  <2>1. PICK m, f : m = index'[a][n] /\ f = indexFile'[a][n]
    OBVIOUS
  <2>2. m \in Objects /\ f \in Objects /\ Lists(m, a, n) /\ Lists(f, a, n)
    BY <1>2, <2>1
  <2>3. Lists(m, a, n)' /\ Lists(f, a, n)'
    BY <2>2, ListedStays
  <2> QED
    BY <2>1, <2>3 DEF Lists
<1> QED
  BY <1>2, <1>3 DEF IndexSound
-----------------------------------------------------------------------------
(* Recoveries.                                                             *)

(* The blob enters no recovery, and while it is in one no shard moves.     *)
Undisturbed(b) ==
  /\ blobs[b].status = "Recovering" => placement'[b] = placement[b]
  /\ blobs'[b].status = "Recovering" => blobs[b].status = "Recovering"

(* Of the calls of a controller only a start and a reassignment do.        *)
LEMMA ControllerDisturbs ==
  ASSUME Typed, NEW b \in Blobs, NEW a, NEW c \in Blobs
  PROVE  /\ FinalizeBlob(a, c) \/ RefundPaidBlob(a, c) => Undisturbed(b)
         /\ \A s \in Shards, p \in ProviderIds :
              AssignShard(a, c, s, p) \/ RecordRebuiltShard(a, c, s, p) => Undisturbed(b)
         /\ \A s \in Shards : StartRecovery(a, c, s) /\ c # b => Undisturbed(b)
         /\ \A s \in Shards, p \in ProviderIds :
              ReassignShard(a, c, s, p) /\ c # b => Undisturbed(b)
<1>0. /\ blobs \in [Blobs -> BlobRecords]
      /\ placement \in [Blobs -> [Shards -> MaybeProvider]]
  BY DEF Typed, MaybeProvider
<1>1. ASSUME FinalizeBlob(a, c) PROVE Undisturbed(b)
  <2>1. UNCHANGED storageVars /\ blobs' = [blobs EXCEPT ![c].status = "Active"]
    BY <1>1 DEF FinalizeBlob
  <2>2. blobs'[b].status \in {blobs[b].status, "Active"}
    BY <1>0, <2>1 DEF BlobRecords
  <2> QED
    BY <2>1, <2>2 DEF Undisturbed, storageVars
<1>2. ASSUME RefundPaidBlob(a, c) PROVE Undisturbed(b)
  BY <1>2 DEF RefundPaidBlob, Undisturbed, storageVars
<1>3. ASSUME NEW s \in Shards, NEW p \in ProviderIds, AssignShard(a, c, s, p)
      PROVE  Undisturbed(b)
  <2>1. /\ blobs' = blobs /\ blobs[c].status = "Pending"
        /\ placement' = [placement EXCEPT ![c][s] = p]
    BY <1>3 DEF AssignShard, MayAssignShard
  <2> QED
    BY <1>0, <2>1 DEF Undisturbed
<1>4. ASSUME NEW s \in Shards, NEW p \in ProviderIds, RecordRebuiltShard(a, c, s, p)
      PROVE  Undisturbed(b)
  <2>1. UNCHANGED storageVars /\ blobs' = [blobs EXCEPT ![c].status = "Rebuilt"]
    BY <1>4 DEF RecordRebuiltShard
  <2>2. blobs'[b].status \in {blobs[b].status, "Rebuilt"}
    BY <1>0, <2>1 DEF BlobRecords
  <2> QED
    BY <2>1, <2>2 DEF Undisturbed, storageVars
<1>5. ASSUME NEW s \in Shards, StartRecovery(a, c, s), c # b
      PROVE  Undisturbed(b)
  <2>1. UNCHANGED storageVars /\ blobs' = [blobs EXCEPT ![c].status = "Recovering"]
    BY <1>5 DEF StartRecovery
  <2> QED
    BY <1>0, <1>5, <2>1 DEF Undisturbed, storageVars
<1>6. ASSUME NEW s \in Shards, NEW p \in ProviderIds, ReassignShard(a, c, s, p), c # b
      PROVE  Undisturbed(b)
  <2>1. blobs' = blobs /\ placement' = [placement EXCEPT ![c][s] = p]
    BY <1>6 DEF ReassignShard
  <2> QED
    BY <1>0, <1>6, <2>1 DEF Undisturbed
<1> QED
  BY <1>1, <1>2, <1>3, <1>4, <1>5, <1>6

(* Only a rebuild of the blob opens a recovery and moves shards in it, or  *)
(* the owner, which is on record then.                                     *)
LEMMA WhoRecovers ==
  ASSUME StepWorld, [GatewayNext]_<<vars, gatewayVars>>, NEW b \in Blobs
  PROVE  \/ Undisturbed(b)
         \/ OwnerRecovers(b)'
         \/ \E r \in Requests : /\ Mine(r) /\ requests[r].blob = b /\ requests[r].sent
                                /\ requests[r].step \in {"Start", "Reassign"}
<1>0. Typed /\ blobs \in [Blobs -> BlobRecords]
  BY DEF StepWorld, GInv, IInv, Typed
<1>1. UNCHANGED <<blobs, storageVars>> => Undisturbed(b)
  BY DEF Undisturbed, storageVars
<1>2. UNCHANGED vars => Undisturbed(b)
  BY Untouched DEF Undisturbed
<1>3. ASSUME NEW o, RegisterProvider(o) PROVE Undisturbed(b)
  BY <1>1, <1>3 DEF RegisterProvider
<1>4. ASSUME NEW owner, NEW c, NEW name, NEW e, NEW origin, UNCHANGED storageVars,
             CreateBlobRecord(owner, c, name, NumProviders, e, origin)
      PROVE  Undisturbed(b)
  <2>1. blobs'[b] = blobs[b] \/ blobs'[b].status = "Pending"
    BY <1>0, <1>4 DEF CreateBlobRecord
  <2> QED
    BY <1>4, <2>1 DEF Undisturbed, storageVars
<1>5. ASSUME NEW a, NEW c, NEW n, NEW e, NEW policy, NEW size,
             CreateBlobPaid(a, c, n, NumProviders, e, policy, size, 0)
      PROVE  Undisturbed(b)
  BY <1>4, <1>5 DEF CreateBlobPaid
<1>6. ASSUME NEW t, Tick(t) PROVE Undisturbed(b)
  BY <1>1, <1>6 DEF Tick
<1>7. ASSUME NEW r \in Requests, Mine(r),
             ~(requests[r].blob = b /\ requests[r].step \in {"Start", "Reassign"})
      PROVE  Undisturbed(b)
  <2>1. PICK q : q = requests[r]
    OBVIOUS
  <2>2. /\ q \in RequestRecords /\ q.sent /\ Tx(q) /\ q.step \in TxSteps /\ Knows(q)
        /\ q.blob \in Blobs /\ q.shard \in Shards
    BY <1>7, <2>1, KnownBefore DEF Mine, InPlace, RequestRecords
  <2>3. q.step \in ProviderSteps => q.provider \in ProviderIds
    BY <2>2 DEF Knows, Addresses, RequestRecords, MaybeProvider
  <2>4. CASE q.step = "Create"
    BY <1>4, <2>2, <2>4 DEF Tx, CreateOperatorBlob
  <2>5. CASE q.step \in {"Assign", "Record"}
    BY <1>0, <2>2, <2>3, <2>5, ControllerDisturbs DEF Tx, ProviderSteps
  <2>6. CASE q.step \in {"Acknowledge", "Reacknowledge"}
    <3>1. AcknowledgeShard(providers[q.provider].operator, q.blob, q.shard)
      BY <2>2, <2>6 DEF Tx
    <3>2. placement' = placement /\ blobs'[b].status = blobs[b].status
      BY <1>0, <3>1 DEF AcknowledgeShard, BlobRecords
    <3> QED
      BY <3>2 DEF Undisturbed
  <2>7. CASE q.step = "Finalize"
    BY <1>0, <2>2, <2>7, ControllerDisturbs DEF Tx
  <2>8. CASE q.step = "Claim"
    <3>1. UNCHANGED <<blobs, storageVars>>
      BY <2>2, <2>8 DEF Tx, ClaimProviderSettlement
    <3> QED
      BY <1>1, <3>1
  <2>9. CASE q.step \in {"Start", "Reassign"}
    <3>1. q.blob # b
      BY <1>7, <2>1, <2>9
    <3> QED
      BY <1>0, <2>2, <2>3, <2>9, <3>1, ControllerDisturbs DEF Tx, ProviderSteps
  <2> QED
    BY <2>2, <2>4, <2>5, <2>6, <2>7, <2>8, <2>9 DEF TxSteps
<1>8. \A r \in Requests : Mine(r) => requests[r].sent
  BY DEF Mine
<1>9. ASSUME OwnerIntervenes PROVE Undisturbed(b) \/ OwnerRecovers(b)'
  <2>1. PICK a \in Owners, c \in Blobs,
             call \in {"Assign", "Finalize", "Refund", "Start", "Reassign", "Record"} :
          OwnerCalls(call, a, c) /\ byOwner' = byOwner \cup {<<call, c>>}
    BY <1>9 DEF OwnerIntervenes
  <2>2. CASE call \in {"Start", "Reassign"} /\ c = b
    BY <2>1, <2>2 DEF OwnerRecovers
  <2>3. CASE ~(call \in {"Start", "Reassign"} /\ c = b)
    BY <1>0, <2>1, <2>3, ControllerDisturbs DEF OwnerCalls
  <2> QED
    BY <2>2, <2>3
<1> QED
  BY <1>2, <1>3, <1>5, <1>6, <1>7, <1>8, <1>9, WhoCalls

(* What an owner did stays on record.                                      *)
LEMMA OwnersOnRecord ==
  ASSUME [GatewayNext]_<<vars, gatewayVars>>, NEW b, OwnerRecovers(b)
  PROVE  OwnerRecovers(b)'
<1>1. ASSUME NEW r \in Requests,
             RequestStep(r) \/ FetchFails(r) \/ CallFails(r) \/ IndexFails(r)
      PROVE  byOwner' = byOwner
  <2>1. UNCHANGED historyVars \/ Ends({r}) => byOwner' = byOwner
    BY DEF historyVars, ownerVars, Ends
  <2>2. ASSUME NEW missing, AfterFetch(r, missing) PROVE UNCHANGED historyVars \/ Ends({r})
    BY <2>2 DEF AfterFetch
  <2> QED
    BY <1>1, <2>1, <2>2, ZenonT(60)
       DEF RequestStep, Submit, Refuse, Mine, Revert, Place, Store, Reread, Index, ReadAgain,
           Fetch, FetchFails, CallFails, IndexFails
<1>2. RegisterConfigured \/ Clients \/ OwnerRegisters \/ Passing \/ UNCHANGED gatewayVars
        \/ (\E c \in Blobs : \E pair \in files[c] : LoseShard(c, pair)) => byOwner' = byOwner
  BY ZenonT(60) DEF RegisterConfigured, Clients, BeginPut, BeginPost, BeginRebuild,
         OwnerRegisters, Passing, LoseShard, gatewayVars, historyVars, ownerVars
<1>3. Crash => byOwner' = byOwner
  BY DEF Crash, Ends, ownerVars
<1>4. OwnerIntervenes => byOwner \subseteq byOwner'
  BY DEF OwnerIntervenes
<1> QED
  BY <1>1, <1>2, <1>3, <1>4 DEF GatewayNext, FaultSteps, OwnerSteps, OwnerRecovers

(* A job changes when a rebuild begins, or when one of its blob is over.   *)
LEMMA JobsMove ==
  ASSUME StepWorld, [GatewayNext]_<<vars, gatewayVars>>
  PROVE  \/ jobs' = jobs
         \/ \E b \in Blobs : jobs' = [jobs EXCEPT ![b] = "running"]
         \/ \E r \in Requests, status \in {"queued", "succeeded"} :
              /\ requests[r].kind = "Rebuild" /\ Ends({r})
              /\ jobs' = [jobs EXCEPT ![requests[r].blob] = status]
<1>1. ASSUME NEW r \in Requests, NEW status \in {"queued", "succeeded"},
             Ends({r}) /\ JobEnds(r, status)
      PROVE  \/ jobs' = jobs
             \/ /\ requests[r].kind = "Rebuild"
                /\ jobs' = [jobs EXCEPT ![requests[r].blob] = status]
  BY <1>1 DEF JobEnds
<1>2. ASSUME NEW r \in Requests,
             RequestStep(r) \/ FetchFails(r) \/ CallFails(r) \/ IndexFails(r)
      PROVE  \/ jobs' = jobs
             \/ \E status \in {"queued", "succeeded"} : Ends({r}) /\ JobEnds(r, status)
  <2>1. ASSUME NEW missing, AfterFetch(r, missing)
        PROVE  \/ jobs' = jobs
               \/ \E status \in {"queued", "succeeded"} : Ends({r}) /\ JobEnds(r, status)
    BY <2>1, SMTT(20) DEF AfterFetch
  <2>2. UNCHANGED storeVars => jobs' = jobs
    BY DEF storeVars
  <2> QED
    BY <1>2, <2>1, <2>2, ZenonT(60)
       DEF RequestStep, Submit, Refuse, Mine, Revert, Place, Store, Reread, Index, ReadAgain,
           Fetch, FetchFails, CallFails, IndexFails
<1>3. Clients => jobs' = jobs \/ \E b \in Blobs : jobs' = [jobs EXCEPT ![b] = "running"]
  BY ZenonT(60) DEF Clients, BeginPut, BeginPost, BeginRebuild, storeVars
<1>4. RegisterConfigured \/ OwnerSteps \/ Crash \/ UNCHANGED gatewayVars
        \/ (\E b \in Blobs : \E pair \in files[b] : LoseShard(b, pair)) => jobs' = jobs
  BY ZenonT(60) DEF RegisterConfigured, OwnerSteps, OwnerRegisters, OwnerIntervenes, Passing,
         Crash, LoseShard, gatewayVars, storeVars
<1> QED
  BY <1>1, <1>2, <1>3, <1>4 DEF GatewayNext, FaultSteps

(* What opens a recovery or moves a shard is a rebuild, or what one left.  *)
LEMMA RecoveringRequest ==
  ASSUME StepWorld, NEW r \in Requests, requests[r].sent,
         requests[r].step \in {"Start", "Reassign"}
  PROVE  /\ PastStart(requests[r])
         /\ \/ requests[r].kind = "Rebuild"
            \/ requests[r].kind = "Orphan" /\ requests[r].blob \in interrupted
<1>1. requests[r] \in RequestRecords /\ InPlace(requests[r]) /\ Rebuilds(r)
  BY DEF StepWorld, GInv, GatewayTyped, RequestInv
<1>2. PastStart(requests[r])
  BY DEF PastStart
<1> QED
  BY <1>1, <1>2 DEF RequestRecords, Kinds, InPlace, UploadSteps, Rebuilds

(* One rebuild at a time, and what it leaves is marked.                    *)
LEMMA AloneStep ==
  ASSUME StepWorld, [GatewayNext]_<<vars, gatewayVars>>, NEW r \in Requests
  PROVE  /\ requests'[r].kind = "Rebuild" =>
              \/ requests[r].kind = "Rebuild" /\ requests[r].blob = requests'[r].blob
              \/ \A t \in Requests : requests[t].blob = requests'[r].blob =>
                   requests[t].kind # "Rebuild"
         /\ requests'[r].kind = "Orphan" /\ PastStart(requests[r])' =>
              requests'[r].blob \in interrupted'
<1>1. PICK q : q = requests[r]
  OBVIOUS
<1>2. /\ q \in RequestRecords /\ InPlace(q) /\ Rebuilds(r)
  BY <1>1, KnownBefore DEF StepWorld, GInv, RequestInv
<1>3. /\ interrupted \subseteq interrupted'
      /\ \/ requests'[r] = q
         \/ requests'[r] = Idle
         \/ /\ requests'[r] = [q EXCEPT !.kind = "Orphan"] /\ q.sent
            /\ PastStart(q) => q.blob \in interrupted'
         \/ \E o : requests'[r] = o /\ (Begins(r, o) \/ Continues(r, o))
  BY <1>1, WhatBecomes, RequestsTyped
<1>4. CASE requests'[r] = q
  BY <1>1, <1>2, <1>3, <1>4 DEF Rebuilds, PastStart
<1>5. CASE requests'[r] = Idle
  BY <1>5, IdleIs
<1>6. CASE /\ requests'[r] = [q EXCEPT !.kind = "Orphan"] /\ q.sent
           /\ PastStart(q) => q.blob \in interrupted'
  <2>1. PICK o : o = [q EXCEPT !.kind = "Orphan"]
    OBVIOUS
  <2>2. o.kind = "Orphan" /\ o.blob = q.blob /\ o.step = q.step /\ o.sent = q.sent
    BY <1>2, <2>1 DEF RequestRecords
  <2> QED
    BY <1>6, <2>1, <2>2 DEF PastStart
<1>7. ASSUME NEW o, requests'[r] = o, Begins(r, o) \/ Continues(r, o)
      PROVE  /\ o.kind # "Orphan"
             /\ o.kind = "Rebuild" =>
                  \/ requests[r].kind = "Rebuild" /\ requests[r].blob = o.blob
                  \/ \A t \in Requests : requests[t].blob = o.blob =>
                       requests[t].kind # "Rebuild"
  <2>1. CASE Begins(r, o)
    BY <2>1 DEF Begins
  <2>2. CASE Continues(r, o)
    <3>1. o.kind = q.kind /\ o.blob = q.blob
      BY <1>1, <2>2 DEF Continues, GoesOn, OnTrack
    <3>2. q.kind # "Orphan"
      <4>1. q.sent => Mine(r) \/ Revert(r)
        BY <1>1, <2>2 DEF Continues
      <4>2. q.kind = "Orphan" => q.sent /\ ~Live(q)
        BY <1>2 DEF InPlace, Live
      <4>3. q.kind = "Orphan" => requests'[r] = Idle
        <5>1. ASSUME q.kind = "Orphan" PROVE Takes(r, Idle)
          BY <1>1, <4>1, <4>2, <5>1 DEF Mine, Revert
        <5> QED
          BY <5>1, TakesIs, IdleIs DEF StepWorld, GInv, GatewayTyped
      <4> QED
        BY <1>7, <3>1, <4>3, IdleIs
    <3> QED
      BY <1>1, <3>1, <3>2
  <2> QED
    BY <1>7, <2>1, <2>2
<1> QED
  BY <1>3, <1>4, <1>5, <1>6, <1>7

(* At most one request begins in a step.                                   *)
LEMMA OneBegins ==
  ASSUME StepWorld, [GatewayNext]_<<vars, gatewayVars>>, NEW r \in Requests
  PROVE  \E u \in Requests : \A v \in Requests \ {u} :
           requests'[v].kind = "Rebuild" =>
             requests[v].kind = "Rebuild" /\ requests[v].blob = requests'[v].blob
<1>0. requests \in [Requests -> RequestRecords]
  BY DEF StepWorld, GInv, GatewayTyped
<1>1. CASE Stands
  BY <1>1 DEF Stands
<1>2. ASSUME NEW R \in SUBSET Requests, Stops(R)
      PROVE  \A v \in Requests : requests'[v].kind = "Rebuild" => requests'[v] = requests[v]
  <2>1. Ends(R)
    BY <1>2 DEF Stops
  <2>2. ASSUME NEW v \in R PROVE requests'[v].kind # "Rebuild"
    <3>1. requests'[v] = Idle \/ requests'[v] = [requests[v] EXCEPT !.kind = "Orphan"]
      BY <1>0, <2>1, EndsIs
    <3>2. [requests[v] EXCEPT !.kind = "Orphan"].kind = "Orphan"
      BY <1>0 DEF RequestRecords
    <3> QED
      BY <3>1, <3>2, IdleIs
  <2> QED
    BY <1>0, <2>1, <2>2, EndsIs
<1>3. ASSUME NEW u \in Requests, NEW o \in RequestRecords, Takes(u, o)
      PROVE  \A v \in Requests \ {u} : requests'[v] = requests[v]
  BY <1>0, <1>3, TakesIs
<1>4. ASSUME NEW u \in Requests, IsOver(u) \/ \E o : Begins(u, o) \/ Continues(u, o)
      PROVE  \A v \in Requests \ {u} : requests'[v] = requests[v]
  BY <1>3, <1>4, IdleIs DEF IsOver, Begins, Continues, GoesOn, MovesTo
<1> QED
  BY <1>1, <1>2, <1>4, RequestsMove

(* The job of a rebuild is running as long as it is at work.               *)
LEMMA JobsStep ==
  ASSUME StepWorld, [GatewayNext]_<<vars, gatewayVars>>
  PROVE  /\ jobs' \in [Blobs -> {"queued", "running", "succeeded"}]
         /\ \A r \in Requests : requests'[r].kind = "Rebuild" =>
              jobs'[requests'[r].blob] = "running"
<1>1. /\ jobs \in [Blobs -> {"queued", "running", "succeeded"}]
      /\ requests \in [Requests -> RequestRecords]
      /\ \A t \in Requests : InPlace(requests[t]) /\ Rebuilds(t)
  BY DEF StepWorld, GInv, GatewayTyped, RequestInv
<1>2. jobs' \in [Blobs -> {"queued", "running", "succeeded"}]
  BY <1>1, JobsMove
<1>3. ASSUME NEW r \in Requests, NEW o, o = requests'[r], o.kind = "Rebuild"
      PROVE  jobs'[o.blob] = "running"
  <2>1. PICK q : q = requests[r]
    OBVIOUS
  <2>2. CASE Begins(r, o)
    BY <1>3, <2>2 DEF Begins
  <2>3. CASE o = q \/ Continues(r, o)
    <3>1. q.kind = "Rebuild" /\ q.blob = o.blob
      BY <1>3, <2>1, <2>3 DEF Continues, GoesOn, OnTrack
    <3>2. jobs[q.blob] = "running" /\ q.blob \in Blobs
      BY <1>1, <2>1, <3>1 DEF Rebuilds, InPlace
    <3>3. ASSUME NEW t \in Requests, requests[t].kind = "Rebuild", Ends({t})
          PROVE  requests[t].blob # q.blob
      <4>1. requests[t].blob = q.blob => t = r
        BY <1>1, <2>1, <3>1, <3>3 DEF Rebuilds
      <4>2. requests'[t] = Idle \/ requests'[t] = [requests[t] EXCEPT !.kind = "Orphan"]
        BY <1>1, <3>3, EndsIs
      <4>3. [requests[t] EXCEPT !.kind = "Orphan"].kind = "Orphan"
        BY <1>1 DEF RequestRecords
      <4> QED
        BY <1>3, <4>1, <4>2, <4>3, IdleIs
    <3>4. jobs' = jobs \/ \E b \in Blobs : jobs' = [jobs EXCEPT ![b] = "running"]
            \/ \E c \in Blobs \ {q.blob} : \E status : jobs' = [jobs EXCEPT ![c] = status]
      BY <1>1, <3>3, JobsMove DEF InPlace
    <3> QED
      BY <1>1, <3>1, <3>2, <3>4
  <2> QED
    <3>1. [q EXCEPT !.kind = "Orphan"].kind = "Orphan"
      BY <1>1, <2>1 DEF RequestRecords
    <3> QED
      BY <1>3, <2>1, <2>2, <2>3, <3>1, WhatBecomes, IdleIs
<1> QED
  BY <1>2, <1>3

LEMMA RebuildsStep ==
  ASSUME StepWorld, [GatewayNext]_<<vars, gatewayVars>>, NEW r \in Requests
  PROVE  Rebuilds(r)'
<1>1. PICK q, o : q = requests[r] /\ o = requests'[r]
  OBVIOUS
<1>2. /\ \A t \in Requests : requests[t] \in RequestRecords /\ Rebuilds(t)
      /\ q \in RequestRecords /\ requests \in [Requests -> RequestRecords]
  BY <1>1 DEF StepWorld, GInv, GatewayTyped, RequestInv, IInv
<1>3. requests' \in [Requests -> RequestRecords] /\ interrupted \subseteq interrupted'
  BY RequestsTyped
<1>4. o.kind = "Orphan" /\ PastStart(o) => o.blob \in interrupted'
  BY <1>1, AloneStep DEF PastStart
<1>5. ASSUME o.kind = "Rebuild", NEW t \in Requests, requests'[t].kind = "Rebuild",
             requests'[t].blob = o.blob
      PROVE  t = r
  <2> SUFFICES ASSUME t # r
               PROVE  FALSE
    OBVIOUS
  <2>1. PICK u \in Requests : \A v \in Requests \ {u} :
           requests'[v].kind = "Rebuild" =>
             requests[v].kind = "Rebuild" /\ requests[v].blob = requests'[v].blob
    BY OneBegins
  <2>2. /\ \/ requests[r].kind = "Rebuild" /\ requests[r].blob = o.blob
           \/ \A v \in Requests : requests[v].blob = o.blob => requests[v].kind # "Rebuild"
        /\ \/ requests[t].kind = "Rebuild" /\ requests[t].blob = o.blob
           \/ \A v \in Requests : requests[v].blob = o.blob => requests[v].kind # "Rebuild"
    BY <1>1, <1>5, AloneStep
  <2>3. \/ requests[r].kind = "Rebuild" /\ requests[r].blob = o.blob
        \/ requests[t].kind = "Rebuild" /\ requests[t].blob = o.blob
    BY <1>1, <1>5, <2>1
  <2> QED
    BY <1>2, <2>2, <2>3 DEF Rebuilds
<1>6. ASSUME o.kind = "Rebuild", o.step \in Rebuilding, blobs'[o.blob].status = "Recovering",
             o.blob \notin interrupted', ~OwnerRecovers(o.blob)'
      PROVE  placement'[o.blob][o.shard] = o.provider
  <2>1. o = q \/ Continues(r, o)
    <3>1. o # Idle /\ ~\E a : requests'[r] = a /\ Begins(r, a)
      BY <1>1, <1>6, IdleIs DEF Begins, Rebuilding
    <3>2. [q EXCEPT !.kind = "Orphan"].kind = "Orphan"
      BY <1>2 DEF RequestRecords
    <3> QED
      BY <1>1, <1>6, <3>1, <3>2, WhatBecomes
  <2>2. /\ q.kind = "Rebuild" /\ q.blob = o.blob /\ q.shard = o.shard /\ q.provider = o.provider
        /\ q.step \in Rebuilding \/ (q.step = "Reassign" /\ q.sent /\ Continues(r, o))
    BY <1>1, <1>6, <2>1 DEF Continues, GoesOn, OnTrack
  <2>3. InPlace(q) /\ q.blob \in Blobs /\ Live(q)
    BY <1>1, <2>2, KnownBefore DEF InPlace, Live
  <2>4. ASSUME Mine(r) \/ Revert(r), q.step \in {"Start", "Reassign"}
        PROVE  placement'[o.blob][o.shard] = o.provider
    <3>1. TookEffect(q)' /\ \E a : GoesOn(r, a)
      BY <1>1, <2>3, <2>4, LandedMoves
    <3>2. q.step = "Reassign"
      BY <2>2, <2>4 DEF Rebuilding
    <3> QED
      BY <1>6, <2>2, <3>1, <3>2 DEF TookEffect
  <2>5. CASE Undisturbed(q.blob)
    <3>1. CASE q.step \in Rebuilding
      <4>1. placement[q.blob][q.shard] = q.provider
        BY <1>1, <1>2, <1>3, <1>6, <2>2, <2>5, <3>1, OwnersOnRecord
           DEF Rebuilds, Undisturbed, Rebuilding
      <4> QED
        BY <1>6, <2>2, <2>5, <4>1 DEF Undisturbed
    <3>2. CASE q.step = "Reassign" /\ q.sent /\ Continues(r, o)
      BY <1>1, <2>4, <3>2 DEF Continues
    <3> QED
      BY <2>2, <3>1, <3>2
  <2>6. CASE \E t \in Requests : /\ Mine(t) /\ requests[t].blob = q.blob /\ requests[t].sent
                                 /\ requests[t].step \in {"Start", "Reassign"}
    <3>1. PICK t \in Requests : /\ Mine(t) /\ requests[t].blob = q.blob /\ requests[t].sent
                                /\ requests[t].step \in {"Start", "Reassign"}
      BY <2>6
    <3>2. requests[t].kind = "Rebuild"
      BY <1>3, <1>6, <2>2, <3>1, RecoveringRequest
    <3>3. t = r
      BY <1>1, <1>2, <2>2, <3>1, <3>2 DEF Rebuilds
    <3> QED
      BY <1>1, <2>4, <3>1, <3>3
  <2> QED
    BY <1>6, <2>2, <2>3, <2>5, <2>6, WhoRecovers
<1>7. o.kind = "Rebuild" => jobs'[o.blob] = "running"
  BY <1>1, JobsStep
<1> QED
  BY <1>1, <1>4, <1>5, <1>6, <1>7 DEF Rebuilds, PastStart, Rebuilding, OwnerRecovers

(* Whoever opened a recovery is at it, or was cut off.                     *)
LEMMA RecoveringStep ==
  ASSUME StepWorld, [GatewayNext]_<<vars, gatewayVars>>
  PROVE  RecoveringHasRebuild'
<1> SUFFICES ASSUME NEW b \in Blobs, blobs'[b].status = "Recovering", b \notin interrupted',
                    ~OwnerRecovers(b)'
             PROVE  \E r \in Requests : requests'[r].blob = b /\ PastStart(requests[r])'
  BY DEF RecoveringHasRebuild, OwnerRecovers
<1>1. /\ b \notin interrupted /\ ~OwnerRecovers(b)
      /\ requests \in [Requests -> RequestRecords]
  BY RequestsTyped, OwnersOnRecord DEF StepWorld, GInv, GatewayTyped
<1>2. PICK r \in Requests :
        /\ requests[r].blob = b /\ PastStart(requests[r])
        /\ \/ blobs[b].status = "Recovering"
           \/ Mine(r) /\ requests[r].step \in {"Start", "Reassign"}
  <2>1. CASE blobs[b].status = "Recovering"
    BY <1>1, <2>1 DEF StepWorld, GInv, RecoveringHasRebuild
  <2>2. CASE blobs[b].status # "Recovering"
    <3>1. PICK r \in Requests : /\ Mine(r) /\ requests[r].blob = b /\ requests[r].sent
                                /\ requests[r].step \in {"Start", "Reassign"}
      BY <2>2, WhoRecovers DEF Undisturbed
    <3> QED
      BY <3>1, RecoveringRequest
  <2> QED
    BY <2>1, <2>2
<1>3. PICK q : q = requests[r]
  OBVIOUS
<1>4. /\ q \in RequestRecords /\ InPlace(q) /\ Knows(q) /\ Rebuilds(r) /\ PastStart(q)
      /\ q.blob = b
  BY <1>2, <1>3, KnownBefore DEF StepWorld, GInv, RequestInv
<1>5. q.kind = "Rebuild"
  BY <1>1, <1>2, <1>3, <1>4
     DEF RequestRecords, Kinds, InPlace, UploadSteps, Rebuilds, PastStart
<1>6. PICK o : requests'[r] = o /\ (o = q \/ Continues(r, o))
  <2>1. CASE requests'[r] = q
    BY <2>1
  <2>2. CASE \/ /\ requests'[r] = Idle
                /\ PastStart(q) /\ q.kind # "Orphan" => q.blob \in interrupted'
             \/ /\ requests'[r] = [q EXCEPT !.kind = "Orphan"] /\ q.sent
                /\ PastStart(q) => q.blob \in interrupted'
    BY <1>4, <1>5, <2>2
  <2>3. \A o : ~Begins(r, o)
    BY <1>3, <1>5, IdleIs DEF Begins
  <2> QED
    BY <1>3, <2>1, <2>2, <2>3, WhatBecomes
<1>7. o.blob = b /\ (PastStart(o) \/ (q.step = "Record" /\ q.sent /\ Continues(r, o)))
  BY <1>3, <1>4, <1>6 DEF Continues, GoesOn, OnTrack
<1>8. ~(q.step = "Record" /\ q.sent /\ Continues(r, o))
  <2> SUFFICES ASSUME q.step = "Record", q.sent, Continues(r, o)
               PROVE  FALSE
    OBVIOUS
  <2>1. Typed /\ GInv /\ IInv /\ BlobsServe /\ b \in Blobs /\ coordinators = {Admin}
    BY DEF StepWorld, GInv, IInv, ProvidersServe
  <2>2. CASE Mine(r)
    <3>1. RecordRebuiltShard(Admin, b, q.shard, q.provider)
      BY <1>3, <1>4, <2>2 DEF Mine, Tx
    <3>2. blobs'[b].status = "Rebuilt"
      BY <2>1, <3>1 DEF RecordRebuiltShard, Typed, BlobRecords
    <3> QED
      BY <3>2
  <2>3. CASE Revert(r)
    <3>1. ~Passes(q) /\ blobs' = blobs
      BY <1>3, <2>3, Untouched DEF Revert
    <3>2. blobs[b].status = "Recovering" /\ placement[b][q.shard] = q.provider
      BY <1>1, <1>3, <1>4, <1>5, <3>1 DEF Rebuilds
    <3>3. q.provider # NoProvider /\ blobs[b].exists /\ q.shard \in Shards
      BY <1>4 DEF Knows, Addresses, ProviderSteps, RebuildSteps, RequestRecords
    <3>4. q.shard < blobs[b].totalShards /\ OnlyBlobOwnerOrCoordinator(Admin, b)
      BY <2>1, <3>3, FinalIsPlaced DEF ShardsOf, OnlyBlobOwnerOrCoordinator
    <3> QED
      BY <1>4, <3>1, <3>2, <3>3, <3>4 DEF Passes, MayRecordRebuiltShard
  <2> QED
    BY <1>3, <2>2, <2>3 DEF Continues
<1> QED
  BY <1>6, <1>7, <1>8 DEF PastStart
-----------------------------------------------------------------------------
(* The invariant.                                                          *)

LEMMA RegisteredStep ==
  ASSUME GatewayTyped, [GatewayNext]_<<vars, gatewayVars>>
  PROVE  registered' \in 0..NumProviders
<1>1. registered \in 0..NumProviders /\ NumProviders \in Nat
  BY ProviderCount DEF GatewayTyped
<1>2. CASE RegisterConfigured
  BY <1>1, <1>2 DEF RegisterConfigured, Serving
<1>3. ASSUME NEW r \in Requests,
             RequestStep(r) \/ FetchFails(r) \/ CallFails(r) \/ IndexFails(r)
      PROVE  registered' = registered
  BY <1>3, ZenonT(60) DEF RequestStep, Submit, Refuse, Mine, Revert, Place, Store, Reread, Index,
              ReadAgain, Fetch, FetchFails, CallFails, IndexFails
<1>4. Clients \/ OwnerSteps \/ UNCHANGED gatewayVars
        \/ (\E b \in Blobs : \E pair \in files[b] : LoseShard(b, pair)) =>
        registered' = registered
  BY ZenonT(60) DEF Clients, BeginPut, BeginPost, BeginRebuild, OwnerSteps, OwnerRegisters,
         OwnerIntervenes, Passing, LoseShard, gatewayVars
<1>5. Crash => registered' = 0
  BY DEF Crash
<1> QED
  BY <1>1, <1>2, <1>3, <1>4, <1>5 DEF GatewayNext, FaultSteps

LEMMA NextGInv ==
  ASSUME GInv, [GatewayNext]_<<vars, gatewayVars>>
  PROVE  GInv'
<1>1. StepWorld
  BY WorldStep DEF StepWorld
<1>2. IInv' /\ ProvidersServe' /\ BlobsServe'
  BY <1>1 DEF StepWorld
<1>3. GatewayTyped'
  BY <1>1, RegisteredStep, RequestsTyped, FilesStep, IndexStep, JobsStep DEF GatewayTyped, GInv
<1>4. ASSUME NEW r \in Requests PROVE RequestInv(r)'
  BY <1>1, RequestsKnow, RebuildsStep DEF RequestInv
<1>5. AcksAreBacked' /\ IndexSound' /\ RecoveringHasRebuild'
  BY <1>1, AcksStep, IndexStep, RecoveringStep
<1> QED
  BY <1>2, <1>3, <1>4, <1>5 DEF GInv

LEMMA InitGInv == GatewayInit => GInv
<1> SUFFICES ASSUME GatewayInit PROVE GInv
  OBVIOUS
<1>1. IInv
  BY InitIInv DEF GatewayInit
<1>2. /\ blobs = [b \in Blobs |-> UnregisteredBlob] /\ coordinators = {Admin}
      /\ nextProviderId = 1 /\ providerIdByOperator = [a \in Accounts |-> NoProvider]
      /\ blobPayments = [b \in Blobs |-> NoPayment]
      /\ placement = [b \in Blobs |-> [s \in Shards |-> NoProvider]]
      /\ acknowledgements = [b \in Blobs |-> {}]
      /\ providerSettlementClaimed = [b \in Blobs |-> {}]
      /\ registered = 0 /\ requests = [r \in Requests |-> Idle]
      /\ files = [b \in Blobs |-> {}] /\ lost = [b \in Blobs |-> {}]
      /\ index = [a \in Accounts |-> [n \in Names |-> NoObject]]
      /\ indexFile = [a \in Accounts |-> [n \in Names |-> NoObject]]
      /\ jobs = [b \in Blobs |-> "queued"] /\ interrupted = {} /\ byOwner = {}
  BY DEF GatewayInit, Init
<1>3. GatewayTyped
  <2>1. 0 \in 0..NumProviders
    BY ProviderCount
  <2>2. NoObject \in Objects
    BY DEF NoObject, Objects
  <2> QED
    BY <1>2, <2>1, <2>2, IdleIs DEF GatewayTyped
<1>4. ProvidersServe
  <2>1. \A p \in ProviderIds : ~IsKnown(p)
    BY <1>2, BoundsAssumption DEF IsKnown, ProviderIds
  <2> QED
    BY <1>2, <2>1 DEF ProvidersServe
<1>5. BlobsServe
  BY <1>2 DEF BlobsServe, ClaimsOpen, PaidTogether, UnregisteredBlob, NoPayment
<1>6. ASSUME NEW r \in Requests PROVE RequestInv(r)
  <2>1. requests[r] = Idle
    BY <1>2
  <2>2. InPlace(Idle) /\ Rebuilds(r)
    BY <2>1, IdleIs DEF InPlace, Live, Rebuilds
  <2>3. Knows(Idle)
    BY <1>2 DEF Idle, Knows, Addresses, Stored, Uploads, Claims, Reports, ProviderSteps,
                RebuildSteps, NoProvider
  <2> QED
    BY <2>1, <2>2, <2>3 DEF RequestInv
<1>7. AcksAreBacked /\ IndexSound /\ RecoveringHasRebuild
  BY <1>2 DEF AcksAreBacked, IndexSound, Lists, NoObject, RecoveringHasRebuild,
              UnregisteredBlob
<1> QED
  BY <1>1, <1>3, <1>4, <1>5, <1>6, <1>7 DEF GInv

(* The gateway is one more caller of the registry: whatever it, its        *)
(* clients and its faults do, the contract takes a step of its own         *)
(* specification or none.  So all that RegistryProofs proves of the        *)
(* contract holds of the contract beneath the gateway.                     *)
THEOREM RegistryUndisturbed == GatewaySpec => Spec
<1>1. GatewayInit => Init
  BY DEF GatewayInit
<1>2. GInv /\ [GatewayNext]_<<vars, gatewayVars>> => [Next]_vars
  BY RegistryInvariant
<1>3. GInv /\ [GatewayNext]_<<vars, gatewayVars>> => GInv'
  BY NextGInv
<1> QED
  BY <1>1, <1>2, <1>3, InitGInv, PTL DEF GatewaySpec, Spec

(* The inductive invariant holds throughout.                               *)
THEOREM GatewayInvariance == GatewaySpec => []GInv
<1>1. GInv /\ [GatewayNext]_<<vars, gatewayVars>> => GInv'
  BY NextGInv
<1> QED
  BY <1>1, InitGInv, PTL DEF GatewaySpec

(* An acknowledgement on chain has the file behind it, stored or lost      *)
(* since, through concurrent uploads and rebuilds of one blob, late and    *)
(* reverted transactions and restarts (server.mjs, uploadRegisteredBlob    *)
(* and rebuildBlob).                                                       *)
THEOREM BackingInvariance == GatewaySpec => []AcksAreBacked
<1>1. GInv => AcksAreBacked
  BY DEF GInv
<1> QED
  BY <1>1, GatewayInvariance, PTL

LEMMA GInvIndexed == GInv => IndexedIsFinal
<1> SUFFICES ASSUME GInv, NEW a \in Accounts, NEW n \in Names,
                    NEW b \in {index[a][n].blob, indexFile[a][n].blob} \ {NoBlob}
             PROVE  /\ blobs[b].owner = a /\ blobNames[b] = n
                    /\ blobs[b].status # "Pending"
                    /\ \A s \in ShardsOf(b) : \E p \in ProviderIds :
                         <<p, s>> \in acknowledgements[b]
  BY DEF IndexedIsFinal
<1>1. b \in Blobs
  <2>1. index[a][n] \in Objects /\ indexFile[a][n] \in Objects
    BY DEF GInv, GatewayTyped
  <2> QED
    BY <2>1 DEF Objects
<1>2. blobs[b].owner = a /\ blobNames[b] = n /\ blobs[b].status # "Pending"
  BY DEF GInv, IndexSound, Lists
<1>3. \A s \in Shards : \E p \in ProviderIds : <<p, s>> \in acknowledgements[b]
  BY <1>1, <1>2, FinalIsPlaced DEF GInv
<1> QED
  BY <1>2, <1>3 DEF ShardsOf

(* What the index lists, in memory or in its file, is a blob of that owner *)
(* and name that the contract has finalized with every shard acknowledged, *)
(* although the receipts of the gateway's calls are not looked at.         *)
THEOREM IndexInvariance == GatewaySpec => []IndexedIsFinal
BY GInvIndexed, GatewayInvariance, PTL

(* What an upload reports as settled has been paid, as long as the blob    *)
(* was never in recovery (server.mjs, settleProviderClaims).               *)
THEOREM ReportInvariance == GatewaySpec => []ReportedIsSettled
<1>1. GInv => ReportedIsSettled
  BY DEF GInv, IndexSound, Lists, ReportedIsSettled
<1> QED
  BY <1>1, GatewayInvariance, PTL

(* A blob is in recovery only while a rebuild is at it, or when one was    *)
(* cut off in it, or when its owner took a hand in its recovery            *)
(* (server.mjs, rebuildBlob; startRecovery and reassignShard of the        *)
(* contract).                                                              *)
THEOREM RecoveryInvariance == GatewaySpec => []RecoveringHasRebuild
<1>1. GInv => RecoveringHasRebuild
  BY DEF GInv
<1> QED
  BY <1>1, GatewayInvariance, PTL
=============================================================================
