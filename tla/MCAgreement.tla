---------------------------- MODULE MCAgreement ----------------------------
(***************************************************************************)
(* Where the code computes one thing in two places, the two agree.  A      *)
(* behaviour is about one of five subjects, chosen at the start: the       *)
(* quote, what is prepared for a registration, what the two enclaves       *)
(* answer, and, with the registry moving, the in-memory substitute and the *)
(* explorer.  The first three are questions, each an initial state.        *)
(***************************************************************************)
EXTENDS MemoryRegistry, Explorer, Enclaves

VARIABLE ask

allVars == <<ask, memory, explorerVars, vars>>
-----------------------------------------------------------------------------
(* The quote, around its rounding boundaries: a whole MiB and one byte     *)
(* more, a whole day and one second more, shares that do not divide by     *)
(* ten, fees of none, of the default and of everything.                    *)
QuoteAsks ==
  [ about : {"quote"}, size : {1, QuoteMibBytes, QuoteMibBytes + 1}, shards : {1, 3},
    mode : StorageModes, seconds : {1, QuoteDaySeconds, QuoteDaySeconds + 1},
    pricing : [rate : {1, 7, 10}, feeBps : {0, 500, 10000}] ]

QuoteOf(a) == QuoteNativePayment(a.size, a.shards, a.mode, a.seconds, a.pricing)

(* Preparation: every mode and policy by name and by number, sizes around  *)
(* the capacity less the overhead, times around now.                       *)
Given == [named : BOOLEAN, value : 0..3]

PreparationAsks ==
  [ about : {"preparation"}, now : {10}, mode : Given, access : Given,
    size : {0, 1, Capacity - Overhead, Capacity - Overhead + 1},
    seconds : {Unset, 0, 5}, expiresAt : {0, 10, 15}, blob : {"b"}, owner : {"o"},
    fileKey : {"k"}, fccKey : {"tee"}, scheme : {DirectScheme, OfficialScheme} ]

(* Messages: everything a message may get wrong, each on its own and with  *)
(* the rest.  A commitment is honest or not.                               *)
MessageAsks ==
  [ about : {"message"}, blob : {"b", "b2"}, owner : {"o", "o2"}, mode : 0..2,
    access : 0..2, fileKey : {"k", ShortKey}, fccKey : {"tee", "tee2"},
    keyHonest : BOOLEAN, envelopeHonest : BOOLEAN, deviceHonest : BOOLEAN,
    input : {"honest", "other input", "other key", "unserved"},
    plaintext : {<<>>, <<2, 3>>, <<2, Absent>>, <<NotFinite, 0>>, NotRecords},
    operation : {"sha256", "json_field_count", "json_field_sum", "eval"},
    field : BOOLEAN ]

EnvelopeOf(a, scheme) ==
  [SealForFcc(a, [storageMode |-> a.mode, accessPolicy |-> a.access], scheme)
     EXCEPT !.fileKeyCommitment = IF a.keyHonest THEN @ ELSE "other key"]

MessageOf(a, scheme) ==
  LET envelope == EnvelopeOf(a, scheme)
      stored == [ key |-> IF a.input = "other key" THEN "other key" ELSE a.fileKey,
                  plaintext |-> a.plaintext ]
      served == IF a.input = "unserved" THEN Unserved ELSE stored
  IN  [ request |-> "r", blob |-> "b", owner |-> "o", device |-> "d",
        deviceCommitment |-> IF a.deviceHonest THEN "d" ELSE "d2",
        envelope |-> envelope,
        envelopeCommitment |-> IF a.envelopeHonest THEN envelope
                               ELSE [envelope EXCEPT !.fileKeyCommitment = "changed"],
        ciphertext |-> served,
        inputCommitment |-> IF a.input = "other input"
                            THEN [stored EXCEPT !.key = "changed"] ELSE stored,
        spec |-> [operation |-> a.operation, field |-> a.field] ]

Moving == {[about |-> "memory"], [about |-> "explorer"]}

MCInit ==
  /\ ask \in QuoteAsks \cup PreparationAsks \cup MessageAsks \cup Moving
  /\ Init /\ now = 1
  /\ MemoryInit
  /\ ExplorerInit

MCNext ==
  \/ ask.about = "memory" /\ MemoryNext /\ UNCHANGED <<ask, explorerVars>>
  \/ ask.about = "explorer" /\ ExplorerNext /\ UNCHANGED <<ask, memory>>

MCSpec == MCInit /\ [][MCNext]_allVars
-----------------------------------------------------------------------------
(* The pool of every quote pays each shard its reward and its reserve and  *)
(* leaves nothing, the reserve being what a claim finds by dividing        *)
(* (lines 424-426 of the contract against line 829).                       *)
PoolSplitsEvenly ==
  ask.about = "quote" => SplitsEvenly(QuoteOf(ask), ask.shards)

(* The least whole number of units of size `unit' that covers `amount'.    *)
Covers(n, unit, amount) == n * unit >= amount /\ (n - 1) * unit < amount

(* The price is the least that covers what was asked for, each rounding on *)
(* its own: whole MiB, whole days, whole wei per shard, whole wei of fee   *)
(* (lines 419-428 of the contract).                                        *)
PriceIsLeastCovering ==
  ask.about = "quote" =>
  \E mib \in 1..2, days \in 1..2 :
    /\ Covers(mib, 1048576, ask.size)
    /\ Covers(days, 86400, ask.seconds)
    /\ LET quote == QuoteOf(ask)
           bps == [Public |-> 10000, Private |-> 12000, Confidential |-> 15000]
           exact == mib * days * ask.pricing.rate * bps[ask.mode]
       IN  /\ quote.providerPool % ask.shards = 0
           /\ Covers(quote.providerPool \div ask.shards, 10000, exact)
           /\ Covers(quote.protocolFee, 10000, quote.providerPool * ask.pricing.feeBps)
           /\ quote.total = quote.providerPool + quote.protocolFee

(* What becomes of a prepared blob: the contract takes it, the enclave of  *)
(* its scheme answers the command that its policy calls for, and a device  *)
(* opens the answer and finds the key the file was encrypted with.         *)
ContractPolicy(policy) ==
  LET modes == <<"Public", "Private", "Confidential">>
      accesses == <<"OwnerOnly", "SelectedWallets", "ComputeOnly">>
  IN  [ storageMode |-> modes[policy.storageMode + 1],
        accessPolicy |-> accesses[policy.accessPolicy + 1] ]

MessageFor(a, prepared) ==
  LET stored == [key |-> a.fileKey, plaintext |-> <<2, 3>>] IN
  [ request |-> "r", blob |-> a.blob, owner |-> a.owner, device |-> "d",
    deviceCommitment |-> "d", envelope |-> prepared.envelope,
    envelopeCommitment |-> prepared.envelope, ciphertext |-> stored,
    inputCommitment |-> stored, spec |-> [operation |-> "json_field_sum", field |-> TRUE] ]

Served(a, prepared) ==
  LET m == MessageFor(a, prepared)
      official == prepared.envelope.scheme = OfficialScheme
      rewrap == IF official THEN LiveKeyRewrap(m, a.fccKey) ELSE SimulatedKeyRewrap(m, a.fccKey)
      compute == IF official THEN LiveCompute(m, a.fccKey) ELSE SimulatedCompute(m, a.fccKey)
  IN  /\ prepared.size \in 1..Capacity /\ prepared.expiresAt > a.now
      /\ ValidPolicy(ContractPolicy(prepared.policy))
      /\ IF prepared.policy.accessPolicy = ComputeOnly
         THEN compute.status = 1 /\ compute.content.computed.result = <<5>>
         ELSE /\ rewrap.status = 1
              /\ OpensDeviceKeyPackage(rewrap.content, "d")
              /\ rewrap.content.box.content.fileKey = a.fileKey

(* Four programs have to mean the same by a policy: the library or the     *)
(* page that seals the envelope (encryption.mjs:84, confidential.ts:104),  *)
(* the contract that takes the registration (_validatePolicy) and the      *)
(* enclave that opens it (handler.mjs:86, live/handlers.ts:190).  Whatever *)
(* an owner asks for, what is prepared and registered can be served.  A    *)
(* number above 2, which policy.mjs:23 lets pass, is the contract's to     *)
(* refuse and left out.                                                    *)
PreparedIsServed ==
  ask.about = "preparation" =>
    /\ /\ ask.mode.value \in 0..2 /\ ask.access.value \in 0..2
       /\ PreparesEncryptedBlob(ask) /\ RegistersPaidBlob(EncryptedBlob(ask))
       => Served(ask, EncryptedBlob(ask))
    /\ PreparesConfidentialFile(ask) => Served(ask, ConfidentialFile(ask))

(* The extension that is deployed was written again for its runtime, and   *)
(* only the simulated enclave has tests.  To every message, each with an   *)
(* envelope of its own scheme, both answer or neither does, and what they  *)
(* give out is the same, but for the responseCommitment, which only the    *)
(* simulated one adds to a key package (handler.mjs:166, handlers.ts:224); *)
(* neither answers the other's envelopes (handler.mjs:86-157,              *)
(* live/handlers.ts:190-271).                                              *)
EnclavesAgree ==
  ask.about = "message" =>
    LET direct == MessageOf(ask, DirectScheme)
        official == MessageOf(ask, OfficialScheme)
        rewrap == LiveKeyRewrap(official, "tee")
    IN  /\ SimulatedKeyRewrap(direct, "tee")
             = IF rewrap.status = 1 THEN Committed(rewrap.content) ELSE Failure
        /\ SimulatedCompute(direct, "tee") = LiveCompute(official, "tee")
        /\ \A answer \in { SimulatedKeyRewrap(official, "tee"), LiveKeyRewrap(direct, "tee"),
                           SimulatedCompute(official, "tee"), LiveCompute(direct, "tee") } :
             answer = Failure

(* A blob of the substitute as the client of the chain would show it: it   *)
(* lists the shards no one has, and of a shard that went to another        *)
(* provider it does not list what the former one acknowledged, although    *)
(* that still counts.                                                      *)
AsTheChainShows(blob) ==
  IF ~blob.exists THEN blob
  ELSE LET held == DOMAIN blob.placement IN
       [ exists |-> TRUE, owner |-> blob.owner, totalShards |-> blob.totalShards,
         expiresAt |-> blob.expiresAt, origin |-> blob.origin, name |-> blob.name,
         status |-> blob.status,
         acknowledgementCount |-> Cardinality(blob.acknowledgements),
         placement |-> [s \in {s \in Shards : s < blob.totalShards} |->
                          IF s \in held THEN blob.placement[s] ELSE NoProvider],
         acknowledgements |->
           {ack \in blob.acknowledgements : \E s \in held : ack = <<blob.placement[s], s>>} ]

(* After every sequence of calls the substitute shows each blob as the     *)
(* client of the chain does, up to that: what the contract accepts it      *)
(* accepts with the same effect, it counts the acknowledgements the        *)
(* contract counts, of former holders and present ones, and what the       *)
(* contract refuses it refuses, where it is not known to be laxer          *)
(* (memory-registry.mjs against the contract and flare-registry.mjs:449,   *)
(* through recovery and the reassignment of acknowledged shards).          *)
MemoryAgrees ==
  ask.about = "memory" =>
    \A b \in Blobs : AsTheChainShows(MemoryGetBlob(b)) = ChainGetBlob(b)

(* What the explorer shows is the registry between the first block it      *)
(* looked at and the one it says is indexed, however far the indexing      *)
(* service is behind the node: every blob registered there whose           *)
(* record could be read and no other, with its owner, and with its name    *)
(* unless that could not be read and the events came newest first; and,    *)
(* when they came oldest first, each provider as active as it was at the   *)
(* block (explorer.ts:173-231, 261-299 and 328-368).                       *)
ExplorerShowsIndex ==
  view.stage = "shown" =>
    LET Seen(event) == {i \in DOMAIN log : /\ log[i].event = event
                                           /\ log[i].block \in view.from..view.indexed}
        StatusOf(p) == {i \in Seen("ProviderStatusChanged") : log[i].provider = p}
    IN  /\ {shown.blob : shown \in view.blobs} \cup view.failed
             = {log[i].blob : i \in Seen("BlobCreated")}
        /\ \A shown \in view.blobs :
             /\ shown.owner = blobs[shown.blob].owner
             /\ shown.nameRead \/ view.ordered =>
                  shown.name = IF blobNames[shown.blob] = NoName THEN Unnamed
                               ELSE blobNames[shown.blob]
        /\ DOMAIN view.providers = {log[i].provider : i \in Seen("ProviderRegistered")}
        /\ view.ordered => \A p \in DOMAIN view.providers :
             view.providers[p] = IF StatusOf(p) = {} THEN TRUE
                                 ELSE log[CHOOSE i \in StatusOf(p) :
                                            \A j \in StatusOf(p) : j <= i].active
-----------------------------------------------------------------------------
CONSTANTS admin, alice, op1
ThreeAccounts == {admin, alice, op1}
TwoOperators == {alice, op1}
Nobody == {}
None == {}
UsualPricing == [rate |-> 10, feeBps |-> 500]
OneByte == {1}
Exact == {0}
TwoBlocks == {1, 2}
Unconfigured == NoBlock
=============================================================================
