--------------------------- MODULE AgreementProofs ---------------------------
(***************************************************************************)
(* Proofs about MCAgreement, for every value of the constants and          *)
(* behaviours of any length: the price of the contract, the in-memory      *)
(* registry against the chain, the two enclaves against each other, what   *)
(* is prepared against those who serve it, and the explorer against the    *)
(* registry it shows.                                                      *)
(*                                                                         *)
(* The substitute and the contract keep the same facts in different forms, *)
(* so what is proved is stronger than that they show the same blobs:       *)
(* InStep relates every part of the one to its counterpart, and each call  *)
(* is then accepted by both or refused by both.                            *)
(*                                                                         *)
(* The explorer reads while the registry moves.  What makes its page true  *)
(* is that the log only grows, block by block (LogSound), and that at      *)
(* every moment of a load what was read is a stretch of the log cut at     *)
(* blocks (LoadSound): later blocks cannot change what it means.           *)
(***************************************************************************)
EXTENDS MCAgreement, RegistryProofs
-----------------------------------------------------------------------------
(* The price.                                                              *)

(* The contract's (a + b - 1) / b is the least number of units.            *)
LEMMA LeastCover ==
  ASSUME NEW a \in Nat, NEW b \in Nat \ {0}
  PROVE  CeilDiv(a, b) \in Nat /\ Covers(CeilDiv(a, b), b, a)
<1> DEFINE c == CeilDiv(a, b)
<1>1. c \in Nat /\ b * c >= a /\ b * c < a + b
  BY CeilDivBounds
<1> HIDE DEF c
<1>2. b * c = c * b /\ (c - 1) * b = c * b - b
  BY <1>1
<1>3. c * b \in Nat
  BY <1>1
<1>4. c * b >= a /\ (c - 1) * b < a
  BY <1>1, <1>2, <1>3
<1> QED
  BY <1>1, <1>4 DEF c, Covers

LEMMA PoolLeavesNothing ==
  ASSUME NEW g \in Nat, NEW t \in Nat \ {0}
  PROVE  (g * t) % t = 0
OBVIOUS

(* Modes cost one, one and a fifth, and one and a half times the rate.     *)
ModeBps == [Public |-> 10000, Private |-> 12000, Confidential |-> 15000]

(* What a wallet is asked to pay, in terms of the exact price: `mib' and   *)
(* `days' are what is charged for.                                         *)
LeastPrice(quote, shards, mode, price, mib, days) ==
  LET exact == mib * days * price.rate * ModeBps[mode]
  IN  /\ quote.providerPool % shards = 0
      /\ Covers(quote.providerPool \div shards, 10000, exact)
      /\ Covers(quote.protocolFee, 10000, quote.providerPool * price.feeBps)
      /\ quote.total = quote.providerPool + quote.protocolFee

(* The price is the least that covers what was asked for, whole MiB, whole *)
(* days, a whole amount per shard and a whole fee, for every quote         *)
(* (quoteNativePayment, PrimeServerRegistry.sol:419-428).                  *)
THEOREM PriceIsLeast ==
  ASSUME NEW size \in Nat \ {0}, NEW shards \in Nat \ {0},
         NEW mode \in StorageModes, NEW seconds \in Nat \ {0},
         NEW price, price.rate \in Nat \ {0}, price.feeBps \in Nat
  PROVE  LET mib == CeilDiv(size, QuoteMibBytes)
             days == CeilDiv(seconds, QuoteDaySeconds)
             quote == QuoteNativePayment(size, shards, mode, seconds, price)
         IN  /\ Covers(mib, QuoteMibBytes, size)
             /\ Covers(days, QuoteDaySeconds, seconds)
             /\ LeastPrice(quote, shards, mode, price, mib, days)
<1> DEFINE mib == CeilDiv(size, QuoteMibBytes)
           days == CeilDiv(seconds, QuoteDaySeconds)
           gross == GrossRewardPerShard(size, mode, seconds, price.rate)
           pool == gross * shards
           quote == QuoteNativePayment(size, shards, mode, seconds, price)
           exact == mib * days * price.rate * ModeBps[mode]
<1>1. /\ mib \in Nat /\ Covers(mib, QuoteMibBytes, size)
      /\ days \in Nat /\ Covers(days, QuoteDaySeconds, seconds)
  BY LeastCover DEF QuoteMibBytes, QuoteDaySeconds
<1>2. /\ ModeMultiplierBps(mode) = ModeBps[mode]
      /\ ModeBps[mode] \in Nat
  BY DEF ModeMultiplierBps, ModeBps, StorageModes
<1>3. gross = CeilDiv(mib * price.rate * ModeBps[mode] * days, BpsDenominator)
  BY <1>2 DEF GrossRewardPerShard
<1>4. gross \in Nat
  BY GrossPositive
<1>5. /\ quote.providerPool = pool
      /\ quote.protocolFee = CeilDiv(pool * price.feeBps, BpsDenominator)
      /\ quote.total = quote.providerPool + quote.protocolFee
  BY DEF QuoteNativePayment, ProtocolFee
<1> HIDE DEF mib, days, gross, quote
<1>6. mib * price.rate * ModeBps[mode] * days = exact /\ exact \in Nat
  <2> DEFINE m == ModeBps[mode]
             r == price.rate
  <2>1. m \in Nat /\ r \in Nat /\ mib \in Nat /\ days \in Nat
    BY <1>1, <1>2
  <2> HIDE DEF m, r
  <2>2. mib * r * m * days = mib * days * r * m /\ mib * days * r * m \in Nat
    BY <2>1
  <2> QED
    BY <2>2 DEF m, r
<1>7. Covers(gross, 10000, exact)
  <2> HIDE DEF exact
  <2> QED
    BY <1>3, <1>6, LeastCover DEF BpsDenominator
<1>8. pool \div shards = gross /\ pool % shards = 0
  BY <1>4, PoolDividesEvenly, PoolLeavesNothing
<1>9. Covers(quote.protocolFee, 10000, pool * price.feeBps)
  <2>1. pool * price.feeBps \in Nat
    BY <1>4
  <2> QED
    BY <1>5, <2>1, LeastCover DEF BpsDenominator
<1>10. LeastPrice(quote, shards, mode, price, mib, days)
  BY <1>5, <1>7, <1>8, <1>9 DEF LeastPrice
<1> QED
  BY <1>1, <1>10 DEF mib, days, quote

(* A behaviour keeps its subject.                                          *)
AskTyped == ask \in QuoteAsks \cup PreparationAsks \cup MessageAsks \cup Moving

LEMMA AskKept == MCSpec => []AskTyped
<1>1. MCInit => AskTyped
  BY DEF MCInit, AskTyped
<1>2. AskTyped /\ [MCNext]_allVars => AskTyped'
  BY DEF AskTyped, MCNext, allVars
<1> QED
  BY <1>1, <1>2, PTL DEF MCSpec

LEMMA QuoteAsked ==
  ASSUME AskTyped, ask.about = "quote"
  PROVE  /\ ask.size \in {1, QuoteMibBytes, QuoteMibBytes + 1}
         /\ ask.shards \in {1, 3}
         /\ ask.mode \in StorageModes
         /\ ask.seconds \in {1, QuoteDaySeconds, QuoteDaySeconds + 1}
         /\ ask.pricing.rate \in {1, 7, 10} /\ ask.pricing.feeBps \in {0, 500, 10000}
<1>1. \A a \in PreparationAsks : a.about = "preparation"
  BY DEF PreparationAsks
<1>2. \A a \in MessageAsks : a.about = "message"
  BY DEF MessageAsks
<1>3. \A a \in Moving : a.about \in {"memory", "explorer"}
  BY DEF Moving
<1>4. ask \in QuoteAsks
  BY <1>1, <1>2, <1>3 DEF AskTyped
<1> QED
  BY <1>4 DEF QuoteAsks

(* The pool of a quote is divided among its shards without remainder       *)
(* (lines 424-426 of the contract against line 829).                       *)
THEOREM PoolsSplit == MCSpec => []PoolSplitsEvenly
<1>1. ASSUME AskTyped, ask.about = "quote" PROVE SplitsEvenly(QuoteOf(ask), ask.shards)
  <2>1. /\ ask.size \in Nat \ {0} /\ ask.shards \in Nat \ {0}
        /\ ask.seconds \in Nat \ {0} /\ ask.mode \in StorageModes
        /\ ask.pricing.rate \in Nat \ {0} /\ ask.pricing.feeBps \in Nat
    BY <1>1, QuoteAsked DEF QuoteMibBytes, QuoteDaySeconds
  <2>2. SplitsEvenly(QuoteNativePayment(ask.size, ask.shards, ask.mode, ask.seconds,
                                        ask.pricing), ask.shards)
    BY <2>1, QuoteSplits
  <2> QED
    BY <2>2 DEF QuoteOf
<1>2. AskTyped => PoolSplitsEvenly
  BY <1>1 DEF PoolSplitsEvenly
<1> QED
  BY <1>2, AskKept, PTL

(* The same for the questions of the run, around the rounding boundaries.  *)
THEOREM PricesCover == MCSpec => []PriceIsLeastCovering
<1>1. ASSUME AskTyped, ask.about = "quote"
      PROVE  PriceIsLeastCovering
  <2> DEFINE mib == CeilDiv(ask.size, QuoteMibBytes)
             days == CeilDiv(ask.seconds, QuoteDaySeconds)
  <2>1. mib \in 1..2 /\ days \in 1..2
    BY <1>1, QuoteAsked DEF CeilDiv, QuoteMibBytes, QuoteDaySeconds
  <2>2. /\ Covers(mib, QuoteMibBytes, ask.size)
        /\ Covers(days, QuoteDaySeconds, ask.seconds)
        /\ LeastPrice(QuoteOf(ask), ask.shards, ask.mode, ask.pricing, mib, days)
    <3>1. /\ ask.size \in Nat \ {0} /\ ask.shards \in Nat \ {0}
          /\ ask.seconds \in Nat \ {0} /\ ask.mode \in StorageModes
          /\ ask.pricing.rate \in Nat \ {0} /\ ask.pricing.feeBps \in Nat
      BY <1>1, QuoteAsked DEF QuoteMibBytes, QuoteDaySeconds
    <3> QED
      BY <3>1, PriceIsLeast DEF QuoteOf
  <2> HIDE DEF mib, days
  <2> QED
    BY <2>1, <2>2 DEF PriceIsLeastCovering, LeastPrice, ModeBps, QuoteMibBytes, QuoteDaySeconds
<1>2. ASSUME ask.about # "quote" PROVE PriceIsLeastCovering
  BY <1>2 DEF PriceIsLeastCovering
<1>3. AskTyped => PriceIsLeastCovering
  BY <1>1, <1>2
<1> QED
  BY <1>3, AskKept, PTL
-----------------------------------------------------------------------------
(* The substitute beside the chain.                                        *)

(* What the substitute holds of a blob, out of the contract's variables.   *)
WholeBlob(b) ==
  IF ~blobs[b].exists THEN NoRecord
  ELSE [ exists |-> TRUE, owner |-> blobs[b].owner,
         totalShards |-> blobs[b].totalShards, expiresAt |-> blobs[b].expiresAt,
         origin |-> blobs[b].origin, name |-> blobNames[b],
         status |-> blobs[b].status,
         placement |-> [s \in {s \in ShardsOf(b) : placement[b][s] # NoProvider}
                          |-> placement[b][s]],
         acknowledgements |-> acknowledgements[b] ]

(* The substitute's blobs are these, all of them and nothing else.         *)
ShowsChain == memory.blobs = [b \in Blobs |-> WholeBlob(b)]

(* Where the two keep the same fact in different forms: registered ids,    *)
(* which nobody here deactivates, and taken names.                         *)
SameProviders ==
  \A p \in ProviderIds : /\ p \in memory.providers <=> p < nextProviderId
                         /\ ProviderActive(p) <=> p < nextProviderId

IdsAssigned == \A a \in Accounts : providerIdByOperator[a] < nextProviderId

SameNames ==
  \A owner \in Accounts, name \in Names :
    <<owner, name>> \in memory.names <=> ~NameFree(owner, name)

(* The contract compares a counter where the substitute counts the pairs.  *)
CountsAcks(b) ==
  blobs[b].acknowledgementCount = Cardinality(acknowledgements[b])

InStep ==
  /\ Admin \in coordinators
  /\ memory = [providers |-> memory.providers, names |-> memory.names, blobs |-> memory.blobs]
  /\ ShowsChain
  /\ SameProviders
  /\ IdsAssigned
  /\ SameNames
  /\ \A b \in Blobs : /\ CountsAcks(b)
                      /\ ~blobs[b].exists => blobNames[b] = NoName

(* A method's guard and effect, of a call the contract has also had.       *)
LEMMA ShownBlob ==
  ASSUME IInv, ShowsChain, NEW b \in Blobs
  PROVE  /\ Known(b) <=> blobs[b].exists
         /\ Known(b) =>
              /\ memory.blobs[b].status = blobs[b].status
              /\ memory.blobs[b].totalShards = blobs[b].totalShards
              /\ memory.blobs[b].acknowledgements = acknowledgements[b]
              /\ \A s \in Shards :
                   s \in DOMAIN memory.blobs[b].placement
                     <=> s \in ShardsOf(b) /\ placement[b][s] # NoProvider
              /\ \A s \in DOMAIN memory.blobs[b].placement :
                   memory.blobs[b].placement[s] = placement[b][s]
<1>1. memory.blobs[b] = WholeBlob(b)
  BY DEF ShowsChain
<1>2. blobs[b].exists \in BOOLEAN
  BY DEF IInv, Typed, BlobRecords
<1>3. Known(b) <=> blobs[b].exists
  BY <1>1, <1>2 DEF Known, WholeBlob, NoRecord
<1>4. ASSUME blobs[b].exists
      PROVE  /\ memory.blobs[b].status = blobs[b].status
             /\ memory.blobs[b].totalShards = blobs[b].totalShards
             /\ memory.blobs[b].acknowledgements = acknowledgements[b]
             /\ memory.blobs[b].placement
                  = [s \in {s \in ShardsOf(b) : placement[b][s] # NoProvider} |-> placement[b][s]]
  BY <1>1, <1>4 DEF WholeBlob
<1>5. ShardsOf(b) \subseteq Shards
  BY DEF ShardsOf
<1> QED
  BY <1>3, <1>4, <1>5

(* A blob as getBlob gives it.                                             *)
Shown(owner, total, expiry, origin, name, status, map, acks) ==
  [ exists |-> TRUE, owner |-> owner, totalShards |-> total, expiresAt |-> expiry,
    origin |-> origin, name |-> name, status |-> status, placement |-> map,
    acknowledgements |-> acks ]

ShownFields == { "exists", "owner", "totalShards", "expiresAt", "origin", "name",
                 "status", "placement", "acknowledgements" }

LEMMA SameFields ==
  ASSUME NEW u, NEW v,
         u = [x \in ShownFields |-> u[x]], v = [x \in ShownFields |-> v[x]],
         u.exists = v.exists, u.owner = v.owner, u.totalShards = v.totalShards,
         u.expiresAt = v.expiresAt, u.origin = v.origin, u.name = v.name,
         u.status = v.status, u.placement = v.placement,
         u.acknowledgements = v.acknowledgements
  PROVE  u = v
<1>1. \A x \in ShownFields : u[x] = v[x]
  BY DEF ShownFields
<1> QED
  BY <1>1

(* Setting one of its fields.                                              *)
LEMMA SetPlacement ==
  ASSUME NEW o, NEW t, NEW e, NEW g, NEW n, NEW st, NEW map, NEW acks, NEW q,
         NEW r, r = Shown(o, t, e, g, n, st, map, acks),
         NEW v, v = Shown(o, t, e, g, n, st, q, acks)
  PROVE  [r EXCEPT !.placement = q] = v
<1> DEFINE u == [r EXCEPT !.placement = q]
<1>1. u = [x \in ShownFields |-> u[x]] /\ v = [x \in ShownFields |-> v[x]]
  BY DEF Shown, ShownFields
<1>2. u.exists = v.exists /\ u.owner = v.owner /\ u.totalShards = v.totalShards
  BY DEF Shown
<1>3. u.expiresAt = v.expiresAt /\ u.origin = v.origin /\ u.name = v.name
  BY DEF Shown
<1>4. u.status = v.status /\ u.placement = v.placement
      /\ u.acknowledgements = v.acknowledgements
  BY DEF Shown
<1> HIDE DEF u
<1>5. u = v
  BY <1>1, <1>2, <1>3, <1>4, SameFields
<1> QED
  BY <1>5 DEF u

LEMMA SetAcks ==
  ASSUME NEW o, NEW t, NEW e, NEW g, NEW n, NEW st, NEW map, NEW acks, NEW q,
         NEW r, r = Shown(o, t, e, g, n, st, map, acks),
         NEW v, v = Shown(o, t, e, g, n, st, map, q)
  PROVE  [r EXCEPT !.acknowledgements = q] = v
<1> DEFINE u == [r EXCEPT !.acknowledgements = q]
<1>1. u = [x \in ShownFields |-> u[x]] /\ v = [x \in ShownFields |-> v[x]]
  BY DEF Shown, ShownFields
<1>2. u.exists = v.exists /\ u.owner = v.owner /\ u.totalShards = v.totalShards
  BY DEF Shown
<1>3. u.expiresAt = v.expiresAt /\ u.origin = v.origin /\ u.name = v.name
  BY DEF Shown
<1>4. u.status = v.status /\ u.placement = v.placement
      /\ u.acknowledgements = v.acknowledgements
  BY DEF Shown
<1> HIDE DEF u
<1>5. u = v
  BY <1>1, <1>2, <1>3, <1>4, SameFields
<1> QED
  BY <1>5 DEF u

LEMMA SetStatus ==
  ASSUME NEW o, NEW t, NEW e, NEW g, NEW n, NEW st, NEW map, NEW acks, NEW q,
         NEW r, r = Shown(o, t, e, g, n, st, map, acks),
         NEW v, v = Shown(o, t, e, g, n, q, map, acks)
  PROVE  [r EXCEPT !.status = q] = v
<1> DEFINE u == [r EXCEPT !.status = q]
<1>1. u = [x \in ShownFields |-> u[x]] /\ v = [x \in ShownFields |-> v[x]]
  BY DEF Shown, ShownFields
<1>2. u.exists = v.exists /\ u.owner = v.owner /\ u.totalShards = v.totalShards
  BY DEF Shown
<1>3. u.expiresAt = v.expiresAt /\ u.origin = v.origin /\ u.name = v.name
  BY DEF Shown
<1>4. u.status = v.status /\ u.placement = v.placement
      /\ u.acknowledgements = v.acknowledgements
  BY DEF Shown
<1> HIDE DEF u
<1>5. u = v
  BY <1>1, <1>2, <1>3, <1>4, SameFields
<1> QED
  BY <1>5 DEF u

(* The substitute's copy, and the chain's after a call, in those terms.    *)
MapOf(b) ==
  [s \in {s \in ShardsOf(b) : placement[b][s] # NoProvider} |-> placement[b][s]]

LEMMA ChainShows ==
  ASSUME NEW b \in Blobs, blobs[b].exists
  PROVE  WholeBlob(b) =
           Shown(blobs[b].owner, blobs[b].totalShards, blobs[b].expiresAt, blobs[b].origin,
                 blobNames[b], blobs[b].status, MapOf(b), acknowledgements[b])
BY DEF WholeBlob, Shown, MapOf

LEMMA ChainShowsNext ==
  ASSUME NEW b \in Blobs, blobs'[b].exists
  PROVE  WholeBlob(b)' =
           Shown(blobs'[b].owner, blobs'[b].totalShards, blobs'[b].expiresAt, blobs'[b].origin,
                 blobNames'[b], blobs'[b].status, MapOf(b)', acknowledgements'[b])
BY DEF WholeBlob, Shown, MapOf

(* What getBlob reads of a blob.                                           *)
PartsKept(b) ==
  /\ blobs'[b] = blobs[b]
  /\ blobNames'[b] = blobNames[b]
  /\ placement'[b] = placement[b]
  /\ acknowledgements'[b] = acknowledgements[b]

LEMMA SameParts ==
  ASSUME NEW b \in Blobs, PartsKept(b)
  PROVE  WholeBlob(b)' = WholeBlob(b) /\ ShardsOf(b)' = ShardsOf(b)
<1>1. ShardsOf(b)' = ShardsOf(b)
  BY DEF ShardsOf, PartsKept
<1> QED
  BY <1>1 DEF WholeBlob, PartsKept

(* A call that is about one blob.                                          *)
LEMMA OneBlobMoves ==
  ASSUME ShowsChain, NEW b \in Blobs,
         \A c \in Blobs \ {b} : PartsKept(c),
         memory'.blobs = [memory.blobs EXCEPT ![b] = WholeBlob(b)']
  PROVE  ShowsChain'
<1>1. memory.blobs = [c \in Blobs |-> WholeBlob(c)]
  BY DEF ShowsChain
<1>2. \A c \in Blobs \ {b} : WholeBlob(c)' = WholeBlob(c)
  BY SameParts
<1>3. memory'.blobs = [c \in Blobs |-> WholeBlob(c)']
  BY <1>1, <1>2
<1> QED
  BY <1>3 DEF ShowsChain

(* A call that both refuse.                                                *)
LEMMA BothRefuse ==
  ASSUME InStep, memory' = memory, UNCHANGED vars
  PROVE  InStep'
<1>1. /\ coordinators' = coordinators /\ nextProviderId' = nextProviderId
      /\ providers' = providers /\ providerIdByOperator' = providerIdByOperator
      /\ blobs' = blobs /\ blobNames' = blobNames
      /\ blobIdByOwnerName' = blobIdByOwnerName
      /\ placement' = placement /\ acknowledgements' = acknowledgements
  BY DEF vars, adminVars, providerVars, nameVars, storageVars
<1>2. \A b \in Blobs : WholeBlob(b)' = WholeBlob(b)
  BY <1>1, SameParts DEF PartsKept
<1>3. ShowsChain'
  BY <1>2 DEF InStep, ShowsChain
<1>4. SameProviders' /\ IdsAssigned' /\ SameNames'
  BY <1>1 DEF InStep, SameProviders, IdsAssigned, SameNames, ProviderActive, NameFree
<1>5. \A b \in Blobs : CountsAcks(b)' /\ (~blobs'[b].exists => blobNames'[b] = NoName)
  BY <1>1 DEF InStep, CountsAcks
<1> QED
  BY <1>1, <1>3, <1>4, <1>5 DEF InStep

(* A call about one blob that registers nobody and names nothing.          *)
LEMMA BlobMoves ==
  ASSUME InStep, NEW b \in Blobs,
         UNCHANGED <<adminVars, providerVars, nameVars>>,
         blobs[b].exists /\ blobs'[b].exists,
         \A c \in Blobs \ {b} : PartsKept(c),
         memory' = With(b, WholeBlob(b)'),
         CountsAcks(b)'
  PROVE  InStep'
<1>1. /\ coordinators' = coordinators /\ nextProviderId' = nextProviderId
      /\ providers' = providers /\ providerIdByOperator' = providerIdByOperator
      /\ blobNames' = blobNames
      /\ blobIdByOwnerName' = blobIdByOwnerName
  BY DEF adminVars, providerVars, nameVars
<1>2. /\ memory'.providers = memory.providers /\ memory'.names = memory.names
      /\ memory'.blobs = [memory.blobs EXCEPT ![b] = WholeBlob(b)']
      /\ memory' = [providers |-> memory'.providers, names |-> memory'.names,
                    blobs |-> memory'.blobs]
  BY DEF InStep, With
<1>3. ShowsChain'
  BY <1>2, OneBlobMoves DEF InStep
<1>4. SameProviders' /\ IdsAssigned' /\ SameNames'
  BY <1>1, <1>2 DEF InStep, SameProviders, IdsAssigned, SameNames, ProviderActive, NameFree
<1>5. ASSUME NEW c \in Blobs
      PROVE  CountsAcks(c)' /\ (~blobs'[c].exists => blobNames'[c] = NoName)
  <2>1. CASE c = b
    BY <2>1
  <2>2. CASE c # b
    BY <1>1, <2>2 DEF InStep, CountsAcks, PartsKept
  <2> QED
    BY <2>1, <2>2
<1> QED
  BY <1>1, <1>2, <1>3, <1>4, <1>5 DEF InStep
-----------------------------------------------------------------------------
(* The calls about a shard.                                                *)

LEMMA PlacesKnown ==
  ASSUME IInv, InStep, NEW p \in ProviderIds
  PROVE  /\ p # NoProvider
         /\ p \in memory.providers <=> ProviderActive(p)
BY BoundsAssumption DEF InStep, SameProviders, ProviderIds, NoProvider

(* What a placement does to the blob that is shown.                        *)
LEMMA PlacementShown ==
  ASSUME IInv, InStep, NEW b \in Blobs, NEW s \in ShardsOf(b), NEW p \in ProviderIds,
         blobs[b].exists,
         UNCHANGED <<adminVars, providerVars, blobs, nameVars, acknowledgements>>,
         placement' = [placement EXCEPT ![b][s] = p],
         memory' = With(b, [memory.blobs[b] EXCEPT !.placement = Placed(@, s, p)])
  PROVE  InStep'
<1>1. s \in Shards /\ p # NoProvider
  BY PlacesKnown DEF ShardsOf
<1>2. /\ placement'[b] = [placement[b] EXCEPT ![s] = p]
      /\ \A c \in Blobs \ {b} : placement'[c] = placement[c]
      /\ placement[b] \in [Shards -> {NoProvider} \cup ProviderIds]
  BY DEF IInv, Typed
<1>3. \A c \in Blobs \ {b} : PartsKept(c)
  BY <1>2 DEF PartsKept, nameVars
<1>4. ShardsOf(b)' = ShardsOf(b) /\ ShardsOf(b) \subseteq Shards
  BY DEF ShardsOf
<1>5. MapOf(b)' = Placed(MapOf(b), s, p)
  <2> DEFINE Set(f) == {t \in ShardsOf(b) : f[t] # NoProvider}
  <2>1. /\ Set(placement'[b]) = Set(placement[b]) \cup {s}
        /\ \A t \in Set(placement'[b]) :
             placement'[b][t] = IF t = s THEN p ELSE placement[b][t]
    BY <1>1, <1>2, <1>4
  <2>2. MapOf(b) = [t \in Set(placement[b]) |-> placement[b][t]]
    BY DEF MapOf
  <2>3. MapOf(b)' = [t \in Set(placement'[b]) |-> placement'[b][t]]
    BY <1>4 DEF MapOf
  <2> QED
    BY <2>1, <2>2, <2>3 DEF Placed
<1> DEFINE seen == memory.blobs[b]
<1>6. seen = Shown(blobs[b].owner, blobs[b].totalShards, blobs[b].expiresAt, blobs[b].origin,
                   blobNames[b], blobs[b].status, MapOf(b), acknowledgements[b])
  BY ChainShows DEF InStep, ShowsChain
<1>7. seen.placement = MapOf(b)
  BY <1>6 DEF Shown
<1>8. [seen EXCEPT !.placement = Placed(@, s, p)] = [seen EXCEPT !.placement = MapOf(b)']
  BY <1>5, <1>7
<1>9. [seen EXCEPT !.placement = MapOf(b)'] = WholeBlob(b)'
  BY <1>6, SetPlacement, ChainShowsNext DEF nameVars
<1>10. memory' = With(b, WholeBlob(b)')
  BY <1>8, <1>9
<1>11. CountsAcks(b)'
  BY DEF InStep, CountsAcks
<1> QED
  BY <1>3, <1>10, <1>11, BlobMoves

LEMMA AssignAgrees ==
  ASSUME IInv, InStep, NEW b \in Blobs, NEW s \in ShardsOf(b), NEW p \in ProviderIds,
         MemoryAssignShard(b, s, p),
         OnChain(MayAssignShard(Admin, b, s, p), AssignShard(Admin, b, s, p))
  PROVE  InStep'
<1> DEFINE blob == memory.blobs[b]
           guard == /\ Known(b) /\ blob.status = "Pending" /\ p \in memory.providers
                    /\ s \notin DOMAIN blob.placement
<1>1. s \in Shards /\ s < blobs[b].totalShards
  BY DEF ShardsOf
<1>2. guard <=> MayAssignShard(Admin, b, s, p)
  BY <1>1, ShownBlob, PlacesKnown DEF InStep, MayAssignShard, OnlyBlobOwnerOrCoordinator
<1>3. CASE ~MayAssignShard(Admin, b, s, p)
  BY <1>2, <1>3, BothRefuse DEF MemoryAssignShard, Accepted, OnChain, AssignShard
<1>4. CASE MayAssignShard(Admin, b, s, p)
  <2>1. memory' = With(b, [blob EXCEPT !.placement = Placed(@, s, p)])
    BY <1>2, <1>4 DEF MemoryAssignShard, Accepted
  <2>2. AssignShard(Admin, b, s, p) /\ blobs[b].exists
    BY <1>4 DEF OnChain, MayAssignShard, OnlyBlobOwnerOrCoordinator
  <2> QED
    BY <2>1, <2>2, PlacementShown DEF AssignShard
<1> QED
  BY <1>3, <1>4

LEMMA ReassignAgrees ==
  ASSUME IInv, InStep, NEW b \in Blobs, NEW s \in ShardsOf(b), NEW p \in ProviderIds,
         MemoryReassignShard(b, s, p),
         OnChain(MayReassignShard(Admin, b, s, p), ReassignShard(Admin, b, s, p))
  PROVE  InStep'
<1> DEFINE blob == memory.blobs[b]
           guard == Known(b) /\ blob.status = "Recovering" /\ p \in memory.providers
<1>1. s \in Shards /\ s < blobs[b].totalShards
  BY DEF ShardsOf
<1>2. guard <=> MayReassignShard(Admin, b, s, p)
  BY <1>1, ShownBlob, PlacesKnown DEF InStep, MayReassignShard, OnlyBlobOwnerOrCoordinator
<1>3. CASE ~MayReassignShard(Admin, b, s, p)
  BY <1>2, <1>3, BothRefuse DEF MemoryReassignShard, Accepted, OnChain, ReassignShard
<1>4. CASE MayReassignShard(Admin, b, s, p)
  <2>1. memory' = With(b, [blob EXCEPT !.placement = Placed(@, s, p)])
    BY <1>2, <1>4 DEF MemoryReassignShard, Accepted
  <2>2. ReassignShard(Admin, b, s, p) /\ blobs[b].exists
    BY <1>4 DEF OnChain, MayReassignShard, OnlyBlobOwnerOrCoordinator
  <2> QED
    BY <2>1, <2>2, PlacementShown DEF ReassignShard
<1> QED
  BY <1>3, <1>4

(* Acknowledgements are pairs of two finite sets.                          *)
LEMMA AcksFinite ==
  ASSUME IInv, NEW b \in Blobs
  PROVE  IsFiniteSet(acknowledgements[b])
<1>1. IsFiniteSet(ProviderIds) /\ IsFiniteSet(Shards)
  BY FS_Interval, BoundsAssumption DEF ProviderIds, Shards
<1>2. IsFiniteSet(ProviderIds \X Shards)
  BY <1>1, FS_Product
<1>3. acknowledgements[b] \subseteq ProviderIds \X Shards
  BY DEF IInv, Typed
<1> QED
  BY <1>2, <1>3, FS_Subset

LEMMA AcknowledgeAgrees ==
  ASSUME IInv, InStep, NEW b \in Blobs, NEW s \in ShardsOf(b), NEW p \in ProviderIds,
         NEW sender \in Operators, providerIdByOperator[sender] = p,
         MemoryAcknowledgeShard(b, s, p),
         OnChain(MayAcknowledgeShard(sender, b, s), AcknowledgeShard(sender, b, s))
  PROVE  InStep'
<1> DEFINE blob == memory.blobs[b]
           acks == acknowledgements[b]
           guard == /\ Known(b) /\ blob.status \in {"Pending", "Recovering"}
                    /\ s \in DOMAIN blob.placement /\ blob.placement[s] = p
                    /\ p \in memory.providers
<1>1. s \in Shards /\ s < blobs[b].totalShards
  BY DEF ShardsOf
<1>2. guard <=> MayAcknowledgeShard(sender, b, s)
  <2>1. p # NoProvider /\ (p \in memory.providers <=> ProviderActive(p))
    BY PlacesKnown
  <2>2. Known(b) <=> blobs[b].exists
    BY ShownBlob DEF InStep
  <2>3. Known(b) =>
          /\ blob.status = blobs[b].status
          /\ s \in DOMAIN blob.placement /\ blob.placement[s] = p <=> placement[b][s] = p
    BY <1>1, <2>1, ShownBlob DEF InStep
  <2> HIDE DEF blob
  <2> QED
    BY <1>1, <2>1, <2>2, <2>3 DEF MayAcknowledgeShard
<1>3. CASE ~MayAcknowledgeShard(sender, b, s)
  BY <1>2, <1>3, BothRefuse DEF MemoryAcknowledgeShard, Accepted, OnChain, AcknowledgeShard
<1>4. CASE MayAcknowledgeShard(sender, b, s)
  <2>1. memory' = With(b, [blob EXCEPT !.acknowledgements = AcksWith(@, p, s)])
    BY <1>2, <1>4 DEF MemoryAcknowledgeShard, Accepted
  <2>2. AcknowledgeShard(sender, b, s) /\ blobs[b].exists
    BY <1>4 DEF OnChain, MayAcknowledgeShard
  <2>3. /\ UNCHANGED <<adminVars, providerVars, nameVars, placement>>
        /\ acknowledgements' = [acknowledgements EXCEPT ![b] = @ \cup {<<p, s>>}]
        /\ blobs' = IF <<p, s>> \in acks THEN blobs
                    ELSE [blobs EXCEPT ![b].acknowledgementCount = @ + 1]
    BY <2>2 DEF AcknowledgeShard, AlreadyAcknowledged
  <2>4. /\ blobs \in [Blobs -> BlobRecords]
        /\ acknowledgements \in [Blobs -> SUBSET (ProviderIds \X Shards)]
    BY DEF IInv, Typed
  <2>5. /\ acknowledgements'[b] = acks \cup {<<p, s>>}
        /\ blobs'[b] = [blobs[b] EXCEPT !.acknowledgementCount =
                          IF <<p, s>> \in acks THEN @ ELSE @ + 1]
        /\ \A c \in Blobs \ {b} : PartsKept(c)
    BY <2>3, <2>4 DEF PartsKept, nameVars, BlobRecords
  <2>6. CountsAcks(b)'
    <3>1. Cardinality(acks \cup {<<p, s>>}) =
            IF <<p, s>> \in acks THEN Cardinality(acks) ELSE Cardinality(acks) + 1
      BY AcksFinite, FS_AddElement
    <3>2. blobs[b].acknowledgementCount = Cardinality(acks)
      BY DEF InStep, CountsAcks
    <3>3. blobs'[b].acknowledgementCount =
            IF <<p, s>> \in acks THEN blobs[b].acknowledgementCount
                                 ELSE blobs[b].acknowledgementCount + 1
      BY <2>4, <2>5 DEF BlobRecords
    <3> QED
      BY <2>5, <3>1, <3>2, <3>3 DEF CountsAcks
  <2>7. [blob EXCEPT !.acknowledgements = AcksWith(@, p, s)] = WholeBlob(b)'
    <3>1. blob = Shown(blobs[b].owner, blobs[b].totalShards, blobs[b].expiresAt,
                       blobs[b].origin, blobNames[b], blobs[b].status, MapOf(b), acks)
      BY <2>2, ChainShows DEF InStep, ShowsChain
    <3>2. /\ blobs'[b].exists /\ blobs'[b].owner = blobs[b].owner
          /\ blobs'[b].totalShards = blobs[b].totalShards
          /\ blobs'[b].expiresAt = blobs[b].expiresAt
          /\ blobs'[b].origin = blobs[b].origin /\ blobs'[b].status = blobs[b].status
      BY <2>2, <2>4, <2>5 DEF BlobRecords
    <3>3. MapOf(b)' = MapOf(b)
      BY <2>3, <3>2 DEF MapOf, ShardsOf
    <3>4. blob.acknowledgements = acks
      BY <3>1 DEF Shown
    <3>5. [blob EXCEPT !.acknowledgements = AcksWith(@, p, s)]
            = [blob EXCEPT !.acknowledgements = acknowledgements'[b]]
      BY <2>5, <3>4 DEF AcksWith
    <3>6. [blob EXCEPT !.acknowledgements = acknowledgements'[b]] = WholeBlob(b)'
      <4>1. WholeBlob(b)' =
              Shown(blobs[b].owner, blobs[b].totalShards, blobs[b].expiresAt, blobs[b].origin,
                    blobNames[b], blobs[b].status, MapOf(b), acknowledgements'[b])
        BY <2>3, <3>2, <3>3, ChainShowsNext DEF nameVars
      <4> HIDE DEF blob, acks
      <4> QED
        BY <3>1, <4>1, SetAcks
    <3> QED
      BY <3>5, <3>6
  <2>8. blobs'[b].exists
    BY <2>2, <2>4, <2>5 DEF BlobRecords
  <2> QED
    BY <2>1, <2>2, <2>3, <2>5, <2>6, <2>7, <2>8, BlobMoves
<1> QED
  BY <1>3, <1>4
-----------------------------------------------------------------------------
(* The calls that set a blob's status.                                     *)

LEMMA StatusShown ==
  ASSUME IInv, InStep, NEW b \in Blobs, NEW st \in BlobStatuses, blobs[b].exists,
         UNCHANGED <<adminVars, providerVars, nameVars, storageVars>>,
         blobs' = [blobs EXCEPT ![b].status = st],
         memory' = With(b, [memory.blobs[b] EXCEPT !.status = st])
  PROVE  InStep'
<1>1. /\ blobs \in [Blobs -> BlobRecords]
      /\ placement' = placement /\ acknowledgements' = acknowledgements
      /\ blobNames' = blobNames
  BY DEF IInv, Typed, storageVars, nameVars
<1>2. /\ blobs'[b] = [blobs[b] EXCEPT !.status = st]
      /\ \A c \in Blobs \ {b} : PartsKept(c)
  BY <1>1 DEF PartsKept
<1>3. /\ blobs'[b].exists /\ blobs'[b].owner = blobs[b].owner
      /\ blobs'[b].totalShards = blobs[b].totalShards
      /\ blobs'[b].expiresAt = blobs[b].expiresAt
      /\ blobs'[b].origin = blobs[b].origin /\ blobs'[b].status = st
      /\ blobs'[b].acknowledgementCount = blobs[b].acknowledgementCount
  BY <1>1, <1>2 DEF BlobRecords
<1>4. MapOf(b)' = MapOf(b)
  BY <1>1, <1>3 DEF MapOf, ShardsOf
<1> DEFINE seen == memory.blobs[b]
<1>5. seen = Shown(blobs[b].owner, blobs[b].totalShards, blobs[b].expiresAt, blobs[b].origin,
                   blobNames[b], blobs[b].status, MapOf(b), acknowledgements[b])
  BY ChainShows DEF InStep, ShowsChain
<1>6. WholeBlob(b)' =
        Shown(blobs[b].owner, blobs[b].totalShards, blobs[b].expiresAt, blobs[b].origin,
              blobNames[b], st, MapOf(b), acknowledgements[b])
  BY <1>1, <1>3, <1>4, ChainShowsNext
<1>7. [seen EXCEPT !.status = st] = WholeBlob(b)'
  <2> HIDE DEF seen
  <2> QED
    BY <1>5, <1>6, SetStatus
<1>8. memory' = With(b, WholeBlob(b)')
  BY <1>7
<1>9. CountsAcks(b)'
  BY <1>1, <1>3 DEF InStep, CountsAcks
<1> QED
  BY <1>2, <1>3, <1>8, <1>9, BlobMoves

(* While a blob is pending the contract's counter and the substitute's     *)
(* size are one number.                                                    *)
LEMMA FinalizeAgrees ==
  ASSUME IInv, InStep, NEW b \in Blobs, blobs[b].status = "Pending",
         MemoryFinalizeBlob(b), OnChain(MayFinalizeBlob(Admin, b), FinalizeBlob(Admin, b))
  PROVE  InStep'
<1> DEFINE blob == memory.blobs[b]
           guard == Known(b) /\ Cardinality(blob.acknowledgements) = blob.totalShards
<1>1. blobs[b].acknowledgementCount = Cardinality(acknowledgements[b])
  BY DEF InStep, CountsAcks
<1>2. guard <=> MayFinalizeBlob(Admin, b)
  BY <1>1, ShownBlob DEF InStep, MayFinalizeBlob, OnlyBlobOwnerOrCoordinator, FullyAcknowledged
<1> DEFINE done == With(b, [blob EXCEPT !.status = "Active"])
<1>3. memory' = IF guard THEN done ELSE memory
  BY Zenon DEF MemoryFinalizeBlob, Accepted
<1> HIDE DEF guard, done
<1>4. CASE ~MayFinalizeBlob(Admin, b)
  <2>1. memory' = memory
    BY <1>2, <1>4, <1>3
  <2>2. UNCHANGED vars
    BY <1>4 DEF OnChain, FinalizeBlob
  <2> QED
    BY <2>1, <2>2, BothRefuse
<1>5. CASE MayFinalizeBlob(Admin, b)
  <2>1. memory' = With(b, [blob EXCEPT !.status = "Active"])
    BY <1>2, <1>5, <1>3 DEF done
  <2>2. FinalizeBlob(Admin, b) /\ blobs[b].exists /\ "Active" \in BlobStatuses
    BY <1>5 DEF OnChain, MayFinalizeBlob, OnlyBlobOwnerOrCoordinator, BlobStatuses
  <2> QED
    BY <2>1, <2>2, StatusShown DEF FinalizeBlob
<1> QED
  BY <1>4, <1>5

LEMMA StartAgrees ==
  ASSUME IInv, InStep, NEW b \in Blobs, NEW s \in ShardsOf(b),
         MemoryStartRecovery(b, s),
         OnChain(MayStartRecovery(Admin, b, s), StartRecovery(Admin, b, s))
  PROVE  InStep'
<1> DEFINE blob == memory.blobs[b]
           guard == /\ Known(b) /\ blob.status \in {"Active", "Rebuilt"}
                    /\ s \in DOMAIN blob.placement
<1>1. s \in Shards /\ s < blobs[b].totalShards
  BY DEF ShardsOf
<1>2. guard <=> MayStartRecovery(Admin, b, s)
  BY <1>1, ShownBlob DEF InStep, MayStartRecovery, OnlyBlobOwnerOrCoordinator
<1>3. CASE ~MayStartRecovery(Admin, b, s)
  BY <1>2, <1>3, BothRefuse DEF MemoryStartRecovery, Accepted, OnChain, StartRecovery
<1>4. CASE MayStartRecovery(Admin, b, s)
  <2>1. memory' = With(b, [blob EXCEPT !.status = "Recovering"])
    BY <1>2, <1>4 DEF MemoryStartRecovery, Accepted
  <2>2. StartRecovery(Admin, b, s) /\ blobs[b].exists /\ "Recovering" \in BlobStatuses
    BY <1>4 DEF OnChain, MayStartRecovery, OnlyBlobOwnerOrCoordinator, BlobStatuses
  <2> QED
    BY <2>1, <2>2, StatusShown DEF StartRecovery
<1> QED
  BY <1>3, <1>4

LEMMA RecordAgrees ==
  ASSUME IInv, InStep, NEW b \in Blobs, NEW s \in ShardsOf(b), NEW p \in ProviderIds,
         MemoryRecordRebuiltShard(b, s, p),
         OnChain(MayRecordRebuiltShard(Admin, b, s, p), RecordRebuiltShard(Admin, b, s, p))
  PROVE  InStep'
<1> DEFINE blob == memory.blobs[b]
           guard == /\ Known(b) /\ blob.status = "Recovering"
                    /\ s \in DOMAIN blob.placement /\ blob.placement[s] = p
<1>1. s \in Shards /\ s < blobs[b].totalShards
  BY DEF ShardsOf
<1>2. p # NoProvider
  BY PlacesKnown
<1>3. guard <=> MayRecordRebuiltShard(Admin, b, s, p)
  <2>1. Known(b) <=> blobs[b].exists
    BY ShownBlob DEF InStep
  <2>2. Known(b) =>
          /\ blob.status = blobs[b].status
          /\ s \in DOMAIN blob.placement /\ blob.placement[s] = p <=> placement[b][s] = p
    BY <1>1, <1>2, ShownBlob DEF InStep
  <2> HIDE DEF blob
  <2> QED
    BY <1>1, <1>2, <2>1, <2>2 DEF InStep, MayRecordRebuiltShard, OnlyBlobOwnerOrCoordinator
<1>4. CASE ~MayRecordRebuiltShard(Admin, b, s, p)
  BY <1>3, <1>4, BothRefuse DEF MemoryRecordRebuiltShard, Accepted, OnChain, RecordRebuiltShard
<1>5. CASE MayRecordRebuiltShard(Admin, b, s, p)
  <2>1. memory' = With(b, [blob EXCEPT !.status = "Rebuilt"])
    BY <1>3, <1>5 DEF MemoryRecordRebuiltShard, Accepted
  <2>2. RecordRebuiltShard(Admin, b, s, p) /\ blobs[b].exists /\ "Rebuilt" \in BlobStatuses
    BY <1>5 DEF OnChain, MayRecordRebuiltShard, OnlyBlobOwnerOrCoordinator, BlobStatuses
  <2> QED
    BY <2>1, <2>2, StatusShown DEF RecordRebuiltShard
<1> QED
  BY <1>4, <1>5
-----------------------------------------------------------------------------
(* Registering providers.                                                  *)

(* The substitute keeps an id more; the chain's records stay.              *)
LEMMA ProviderKept ==
  ASSUME InStep, NEW q,
         memory' = [memory EXCEPT !.providers = @ \cup {q}],
         UNCHANGED <<adminVars, blobs, nameVars, storageVars>>,
         SameProviders', IdsAssigned'
  PROVE  InStep'
<1>1. /\ coordinators' = coordinators /\ blobs' = blobs /\ blobNames' = blobNames
      /\ blobIdByOwnerName' = blobIdByOwnerName
      /\ placement' = placement /\ acknowledgements' = acknowledgements
  BY DEF adminVars, nameVars, storageVars
<1>2. /\ memory'.names = memory.names /\ memory'.blobs = memory.blobs
      /\ memory' = [providers |-> memory'.providers, names |-> memory'.names,
                    blobs |-> memory'.blobs]
  BY DEF InStep
<1>3. \A b \in Blobs : WholeBlob(b)' = WholeBlob(b)
  BY <1>1, SameParts DEF PartsKept
<1>4. ShowsChain'
  BY <1>2, <1>3 DEF InStep, ShowsChain
<1>5. SameNames'
  BY <1>1, <1>2 DEF InStep, SameNames, NameFree
<1>6. \A b \in Blobs : CountsAcks(b)' /\ (~blobs'[b].exists => blobNames'[b] = NoName)
  BY <1>1 DEF InStep, CountsAcks
<1> QED
  BY <1>1, <1>2, <1>4, <1>5, <1>6 DEF InStep

(* The caller passes the id the contract would give, so the substitute     *)
(* refuses whom the contract refuses.                                      *)
LEMMA ProviderAgrees ==
  ASSUME IInv, InStep, NEW sender \in Operators, CallProvider(sender)
  PROVE  InStep'
<1> DEFINE known == providerIdByOperator[sender]
           next == nextProviderId
<1>1. /\ sender \in Accounts /\ known \in {NoProvider} \cup ProviderIds
      /\ known < next /\ next \in 1..(MaxProviders + 1)
  BY AccountsAssumption DEF IInv, Typed, InStep, IdsAssigned
<1>2. \A p \in ProviderIds : p \in Nat /\ p # NoProvider
  BY BoundsAssumption DEF ProviderIds, NoProvider
<1>3. CASE known # NoProvider
  <2>1. known \in memory.providers
    BY <1>1, <1>3 DEF InStep, SameProviders
  <2>2. memory' = memory
    BY <1>3, <2>1 DEF CallProvider, MemoryRegisterProvider, Accepted
  <2>3. UNCHANGED vars
    BY <1>3 DEF CallProvider, OnChain, RegisterProvider, MayRegisterProvider
  <2> QED
    BY <2>2, <2>3, BothRefuse
<1>4. CASE known = NoProvider /\ next \notin ProviderIds
  <2>1. UNCHANGED vars
    BY <1>4 DEF CallProvider, OnChain, RegisterProvider, MayRegisterProvider
  <2>2. CASE memory' = memory
    BY <2>1, <2>2, BothRefuse
  <2>3. CASE memory' = [memory EXCEPT !.providers = @ \cup {next}]
    <3>1. /\ UNCHANGED <<adminVars, blobs, nameVars, storageVars>>
          /\ UNCHANGED providerVars
      BY <2>1 DEF vars
    <3>2. \A p \in ProviderIds : p \in memory'.providers <=> p \in memory.providers
      BY <1>4, <2>3 DEF InStep
    <3>3. SameProviders' /\ IdsAssigned'
      BY <3>1, <3>2 DEF InStep, SameProviders, IdsAssigned, ProviderActive, providerVars
    <3> QED
      BY <2>3, <3>1, <3>3, ProviderKept
  <2> QED
    BY <1>4, <2>2, <2>3 DEF CallProvider, MemoryRegisterProvider, Accepted
<1>5. CASE known = NoProvider /\ next \in ProviderIds
  <2>1. next \notin memory.providers
    BY <1>2, <1>5 DEF InStep, SameProviders
  <2>2. memory' = [memory EXCEPT !.providers = @ \cup {next}]
    BY <1>5, <2>1 DEF CallProvider, MemoryRegisterProvider, Accepted
  <2>3. RegisterProvider(sender)
    BY <1>5 DEF CallProvider, OnChain, MayRegisterProvider
  <2>4. /\ UNCHANGED <<adminVars, blobs, nameVars, storageVars>>
        /\ providers' = [providers EXCEPT ![next] = [operator |-> sender, active |-> TRUE]]
        /\ providerIdByOperator' = [providerIdByOperator EXCEPT ![sender] = next]
        /\ nextProviderId' = next + 1
    BY <2>3 DEF RegisterProvider
  <2>5. /\ providers \in [ProviderIds -> [operator : Accounts \cup {NoAccount},
                                          active : BOOLEAN]]
        /\ providerIdByOperator \in [Accounts -> {NoProvider} \cup ProviderIds]
    BY DEF IInv, Typed
  <2> DEFINE ids == memory.providers
  <2>6. memory'.providers = ids \cup {next}
    BY <2>2 DEF InStep
  <2>7. ASSUME NEW p \in ProviderIds
        PROVE  /\ p \in memory'.providers <=> p < nextProviderId'
               /\ ProviderActive(p)' <=> p < nextProviderId'
    <3>1. /\ p \in ids <=> p < next
          /\ ProviderActive(p) <=> p < next
      BY DEF InStep, SameProviders
    <3>2. p \in Nat /\ next \in Nat /\ (p < next + 1 <=> p < next \/ p = next)
      BY <1>1, <1>2
    <3>3. ProviderActive(p)' <=> p = next \/ ProviderActive(p)
      BY <1>5, <2>4, <2>5 DEF ProviderActive
    <3> QED
      BY <2>4, <2>6, <3>1, <3>2, <3>3
  <2>8. SameProviders'
    BY <2>7 DEF SameProviders
  <2>9. IdsAssigned'
    <3>1. \A a \in Accounts : providerIdByOperator[a] \in Nat /\ providerIdByOperator[a] < next
      BY <1>2, <2>5 DEF InStep, IdsAssigned, NoProvider
    <3>2. \A a \in Accounts : providerIdByOperator'[a] \in {next, providerIdByOperator[a]}
      BY <2>4, <2>5
    <3> QED
      BY <1>1, <2>4, <3>1, <3>2 DEF IdsAssigned
  <2> QED
    BY <2>2, <2>4, <2>8, <2>9, ProviderKept
<1> QED
  BY <1>1, <1>3, <1>4, <1>5
-----------------------------------------------------------------------------
(* Registering blobs.                                                      *)

(* What a registration on the chain is shown as.                           *)
LEMMA RegistrationShown ==
  ASSUME IInv, InStep, NEW owner \in Accounts, NEW b \in Blobs, NEW name \in NameChoices,
         NEW n \in ShardCounts, NEW e \in Expiries, NEW origin \in BlobOrigins,
         CreateBlobRecord(owner, b, name, n, e, origin),
         UNCHANGED storageVars
  PROVE  /\ WholeBlob(b)' = NewRecord(owner, n, e, origin, name)
         /\ CountsAcks(b)'
         /\ blobs'[b].exists
         /\ \A c \in Blobs \ {b} : PartsKept(c)
<1>1. /\ blobs \in [Blobs -> BlobRecords] /\ blobNames \in [Blobs -> NameChoices]
      /\ placement' = placement /\ acknowledgements' = acknowledgements
      /\ ~blobs[b].exists
  BY DEF IInv, Typed, storageVars, CreateBlobRecord, MayCreateRecord
<1>2. /\ acknowledgements[b] = {}
      /\ \A s \in Shards : placement[b][s] = NoProvider
      /\ blobNames[b] = NoName
  BY <1>1 DEF IInv, Blank, InStep
<1>3. /\ blobs'[b].exists /\ blobs'[b].owner = owner /\ blobs'[b].totalShards = n
      /\ blobs'[b].acknowledgementCount = 0 /\ blobs'[b].status = "Pending"
      /\ blobs'[b].expiresAt = e /\ blobs'[b].origin = origin
      /\ \A c \in Blobs \ {b} : blobs'[c] = blobs[c]
  BY <1>1 DEF CreateBlobRecord
<1>4. blobNames'[b] = name /\ \A c \in Blobs \ {b} : blobNames'[c] = blobNames[c]
  BY <1>1, <1>2, NamesAssumption DEF CreateBlobRecord, NameChoices, nameVars
<1>5. MapOf(b)' = [s \in {} |-> NoProvider]
  <2>1. {s \in ShardsOf(b)' : placement'[b][s] # NoProvider} = {}
    BY <1>1, <1>2 DEF ShardsOf
  <2> QED
    BY <2>1 DEF MapOf
<1>6. WholeBlob(b)' = Shown(owner, n, e, origin, name, "Pending", MapOf(b)', {})
  BY <1>1, <1>2, <1>3, <1>4, ChainShowsNext
<1>7. NewRecord(owner, n, e, origin, name)
        = Shown(owner, n, e, origin, name, "Pending", [s \in {} |-> NoProvider], {})
  <2> DEFINE u == NewRecord(owner, n, e, origin, name)
             v == Shown(owner, n, e, origin, name, "Pending", [s \in {} |-> NoProvider], {})
  <2>1. u = [x \in ShownFields |-> u[x]] /\ v = [x \in ShownFields |-> v[x]]
    BY DEF NewRecord, Shown, ShownFields
  <2>2. u.exists = v.exists /\ u.owner = v.owner /\ u.totalShards = v.totalShards
    BY DEF NewRecord, Shown
  <2>3. u.expiresAt = v.expiresAt /\ u.origin = v.origin /\ u.name = v.name
    BY DEF NewRecord, Shown
  <2>4. u.status = v.status /\ u.placement = v.placement
        /\ u.acknowledgements = v.acknowledgements
    BY DEF NewRecord, Shown
  <2> HIDE DEF u, v
  <2>5. u = v
    BY <2>1, <2>2, <2>3, <2>4, SameFields
  <2> QED
    BY <2>5 DEF u, v
<1>8. CountsAcks(b)'
  BY <1>1, <1>2, <1>3, FS_EmptySet DEF CountsAcks
<1>9. \A c \in Blobs \ {b} : PartsKept(c)
  BY <1>1, <1>3, <1>4 DEF PartsKept
<1> QED
  BY <1>3, <1>5, <1>6, <1>7, <1>8, <1>9

(* An owner's names are the names entered in the index.                    *)
LEMMA NamesEntered ==
  ASSUME IInv, InStep, NEW owner \in Accounts, NEW b \in Blobs, NEW name \in NameChoices,
         NEW n \in ShardCounts, NEW e \in Expiries, NEW origin \in BlobOrigins,
         CreateBlobRecord(owner, b, name, n, e, origin),
         memory'.names = memory.names \cup (IF name = NoName THEN {} ELSE {<<owner, name>>})
  PROVE  SameNames'
<1>1. blobIdByOwnerName \in [Accounts -> [Names -> {NoBlob} \cup Blobs]]
  BY DEF IInv, Typed
<1>2. name \in Names <=> name # NoName
  BY NamesAssumption DEF NameChoices
<1>3. b # NoBlob
  BY BoundsAssumption DEF Blobs, NoBlob
<1>4. ASSUME NEW o \in Accounts, NEW m \in Names
      PROVE  <<o, m>> \in memory'.names <=> ~NameFree(o, m)'
  <2>1. <<o, m>> \in memory.names <=> ~NameFree(o, m)
    BY DEF InStep, SameNames
  <2>2. CASE name = NoName
    BY <1>2, <2>1, <2>2 DEF CreateBlobRecord, nameVars, NameFree
  <2>3. CASE name # NoName
    <3>1. blobIdByOwnerName' = [blobIdByOwnerName EXCEPT ![owner][name] = b]
      BY <1>2, <2>3 DEF CreateBlobRecord
    <3>2. CASE o = owner /\ m = name
      <4>1. blobIdByOwnerName'[o][m] = b
        BY <1>1, <3>1, <3>2
      <4> QED
        BY <1>3, <2>3, <3>2, <4>1 DEF NameFree
    <3>3. CASE ~(o = owner /\ m = name)
      <4>1. blobIdByOwnerName'[o][m] = blobIdByOwnerName[o][m]
        BY <1>1, <3>1, <3>3
      <4>2. <<o, m>> # <<owner, name>>
        BY <3>3
      <4> QED
        BY <2>1, <2>3, <4>1, <4>2 DEF NameFree
    <3> QED
      BY <3>2, <3>3
  <2> QED
    BY <2>2, <2>3
<1> QED
  BY <1>4 DEF SameNames

(* Both registrations of both kinds: the substitute refuses what is taken, *)
(* and the caller brings nothing else that the contract would refuse.      *)
LEMMA RegistrationAgrees ==
  ASSUME IInv, InStep, NEW owner \in Accounts, NEW b \in Blobs, NEW name \in NameChoices,
         NEW n \in ShardCounts, NEW e \in Expiries, NEW origin \in BlobOrigins,
         e = NoExpiry \/ e > now,
         MemoryRegister(owner, b, name, n, e, origin),
         \/ /\ MayCreateRecord(owner, b, name, n, e)
            /\ CreateBlobRecord(owner, b, name, n, e, origin)
            /\ UNCHANGED <<adminVars, providerVars, storageVars>>
         \/ ~MayCreateRecord(owner, b, name, n, e) /\ UNCHANGED vars
  PROVE  InStep'
<1>1. name \in Names <=> name # NoName
  BY NamesAssumption DEF NameChoices
<1>2. Known(b) <=> blobs[b].exists
  BY ShownBlob DEF InStep
<1>3. name \in Names => (<<owner, name>> \in memory.names <=> ~NameFree(owner, name))
  BY DEF InStep, SameNames
<1>4. n > 0
  BY BoundsAssumption DEF ShardCounts
<1>5. MayCreateRecord(owner, b, name, n, e)
        <=> ~Known(b) /\ (name # NoName => <<owner, name>> \notin memory.names)
  BY <1>1, <1>2, <1>3, <1>4 DEF MayCreateRecord
<1> DEFINE record == NewRecord(owner, n, e, origin, name)
<1>6. CASE ~MayCreateRecord(owner, b, name, n, e)
  <2>1. memory' = memory
    BY <1>5, <1>6 DEF MemoryRegister, MemoryCreateBlob, MemoryCreateBlobNamed, Accepted
  <2> QED
    BY <1>6, <2>1, BothRefuse
<1>7. CASE MayCreateRecord(owner, b, name, n, e)
  <2>1. /\ CreateBlobRecord(owner, b, name, n, e, origin)
        /\ UNCHANGED <<adminVars, providerVars, storageVars>>
    BY <1>7
  <2>2. /\ WholeBlob(b)' = record
        /\ CountsAcks(b)' /\ blobs'[b].exists
        /\ \A c \in Blobs \ {b} : PartsKept(c)
    BY <2>1, RegistrationShown
  <2>3. memory' = IF name = NoName THEN With(b, record)
                  ELSE [With(b, record) EXCEPT !.names = @ \cup {<<owner, name>>}]
    BY <1>5, <1>7 DEF MemoryRegister, MemoryCreateBlob, MemoryCreateBlobNamed, Accepted
  <2> HIDE DEF record
  <2>4. /\ memory'.providers = memory.providers
        /\ memory'.names = memory.names \cup (IF name = NoName THEN {} ELSE {<<owner, name>>})
        /\ memory'.blobs = [memory.blobs EXCEPT ![b] = record]
        /\ memory' = [providers |-> memory'.providers, names |-> memory'.names,
                      blobs |-> memory'.blobs]
    BY <2>3 DEF InStep, With
  <2>5. ShowsChain'
    BY <2>2, <2>4, OneBlobMoves DEF InStep
  <2>6. SameNames'
    BY <2>1, <2>4, NamesEntered
  <2>7. SameProviders' /\ IdsAssigned' /\ coordinators' = coordinators
    BY <2>1, <2>4 DEF InStep, SameProviders, IdsAssigned, ProviderActive, providerVars, adminVars
  <2>8. \A c \in Blobs : CountsAcks(c)' /\ (~blobs'[c].exists => blobNames'[c] = NoName)
    BY <2>2 DEF InStep, CountsAcks, PartsKept
  <2> QED
    BY <2>4, <2>5, <2>6, <2>7, <2>8 DEF InStep
<1> QED
  BY <1>6, <1>7
-----------------------------------------------------------------------------
(* Every call.                                                             *)

LEMMA RegisterCallAgrees ==
  ASSUME IInv, InStep, NEW b \in Blobs, NEW name \in NameChoices, NEW n \in ShardCounts,
         NEW e \in Expiries, CallRegister(b, name, n, e)
  PROVE  InStep'
<1>1. Admin \in Accounts /\ "User" \in BlobOrigins /\ "Operator" \in BlobOrigins
  BY AccountsAssumption DEF BlobOrigins
<1>2. ASSUME NEW owner \in Accounts \ coordinators,
             MemoryRegister(owner, b, name, n, e, "User"),
             OnChain(MayCreateRecord(owner, b, name, n, e), CreateBlob(owner, b, name, n, e))
      PROVE  InStep'
  <2>1. \/ /\ MayCreateRecord(owner, b, name, n, e)
           /\ CreateBlobRecord(owner, b, name, n, e, "User")
           /\ UNCHANGED <<adminVars, providerVars, storageVars>>
        \/ ~MayCreateRecord(owner, b, name, n, e) /\ UNCHANGED vars
    BY <1>2 DEF OnChain, CreateBlob, CreateBlobRecord
  <2> QED
    BY <1>1, <1>2, <2>1, RegistrationAgrees DEF CallRegister
<1>3. ASSUME MemoryRegister(Admin, b, name, n, e, "Operator"),
             OnChain(MayCreateRecord(Admin, b, name, n, e),
                     CreateOperatorBlob(Admin, b, name, n, e))
      PROVE  InStep'
  <2>1. \/ /\ MayCreateRecord(Admin, b, name, n, e)
           /\ CreateBlobRecord(Admin, b, name, n, e, "Operator")
           /\ UNCHANGED <<adminVars, providerVars, storageVars>>
        \/ ~MayCreateRecord(Admin, b, name, n, e) /\ UNCHANGED vars
    BY <1>3 DEF OnChain, CreateOperatorBlob, CreateBlobRecord
  <2> QED
    BY <1>1, <1>3, <2>1, RegistrationAgrees DEF CallRegister
<1> QED
  BY <1>2, <1>3 DEF CallRegister

(* No call leaves the two apart.                                           *)
LEMMA CallsAgree ==
  ASSUME IInv, InStep, MemoryNext
  PROVE  InStep'
<1>1. ASSUME NEW b \in Blobs, NEW s \in Shards, NEW p \in ProviderIds, CallShard(b, s, p)
      PROVE  InStep'
  BY <1>1, AssignAgrees, ReassignAgrees, RecordAgrees, AcknowledgeAgrees DEF CallShard
<1>2. ASSUME NEW b \in Blobs, CallBlob(b)
      PROVE  InStep'
  BY <1>2, FinalizeAgrees, StartAgrees DEF CallBlob
<1> QED
  BY <1>1, <1>2, ProviderAgrees, RegisterCallAgrees DEF MemoryNext

(* The calls are calls of the contract, or revert.                         *)
LEMMA CallsAreNext == MemoryNext => [Next]_vars
<1> SUFFICES ASSUME MemoryNext PROVE [Next]_vars
  OBVIOUS
<1>1. Admin \in Accounts /\ Operators \subseteq Accounts
  BY AccountsAssumption
<1>2. ASSUME NEW sender \in Operators, CallProvider(sender)
      PROVE  [Next]_vars
  BY <1>2 DEF CallProvider, OnChain, Next, ProviderNext
<1>3. ASSUME NEW b \in Blobs, NEW name \in NameChoices, NEW n \in ShardCounts,
             NEW e \in Expiries, CallRegister(b, name, n, e)
      PROVE  [Next]_vars
  BY <1>1, <1>3 DEF CallRegister, OnChain, Next, RegistrationNext
<1>4. ASSUME NEW b \in Blobs, NEW s \in Shards, NEW p \in ProviderIds, CallShard(b, s, p)
      PROVE  [Next]_vars
  <2>1. \/ AssignShard(Admin, b, s, p) \/ ReassignShard(Admin, b, s, p)
        \/ RecordRebuiltShard(Admin, b, s, p)
        \/ \E sender \in Operators : AcknowledgeShard(sender, b, s)
        \/ UNCHANGED vars
    BY <1>4 DEF CallShard, OnChain
  <2> QED
    BY <1>1, <2>1 DEF Next, ProviderNext, ControllerNext
<1>5. ASSUME NEW b \in Blobs, CallBlob(b)
      PROVE  [Next]_vars
  <2>1. \/ FinalizeBlob(Admin, b) \/ \E s \in Shards : StartRecovery(Admin, b, s)
        \/ UNCHANGED vars
    BY <1>5 DEF CallBlob, OnChain, ShardsOf
  <2> QED
    BY <1>1, <2>1 DEF Next, ControllerNext
<1> QED
  BY <1>2, <1>3, <1>4, <1>5 DEF MemoryNext

Compared == ask.about = "memory" => IInv /\ InStep

LEMMA FreshInStep == Init /\ MemoryInit => InStep
<1> SUFFICES ASSUME Init, MemoryInit PROVE InStep
  OBVIOUS
<1>1. memory = [providers |-> {}, names |-> {}, blobs |-> [b \in Blobs |-> NoRecord]]
  BY DEF MemoryInit
<1>2. /\ Admin \in coordinators
      /\ nextProviderId = 1 /\ \A p \in ProviderIds : ~ProviderActive(p) /\ ~(p < 1)
  BY BoundsAssumption DEF Init, ProviderActive, UnregisteredProvider, ProviderIds
<1>3. \A b \in Blobs : /\ ~blobs[b].exists /\ blobNames[b] = NoName
                       /\ blobs[b].acknowledgementCount = 0 /\ acknowledgements[b] = {}
  BY DEF Init, UnregisteredBlob
<1>4. ShowsChain
  BY <1>1, <1>3 DEF ShowsChain, WholeBlob
<1>5. SameProviders /\ IdsAssigned
  BY <1>1, <1>2 DEF Init, SameProviders, IdsAssigned, NoProvider
<1>6. SameNames
  BY <1>1 DEF Init, SameNames, NameFree
<1>7. \A b \in Blobs : CountsAcks(b)
  BY <1>3, FS_EmptySet DEF CountsAcks
<1> QED
  BY <1>1, <1>2, <1>3, <1>4, <1>5, <1>6, <1>7 DEF InStep

(* The whole of a blob, seen through the client of the chain.              *)
LEMMA WholeSeenFromChain ==
  ASSUME IInv, NEW b \in Blobs, blobs[b].exists, CountsAcks(b),
         NEW m, m = Shown(blobs[b].owner, blobs[b].totalShards, blobs[b].expiresAt,
                          blobs[b].origin, blobNames[b], blobs[b].status, MapOf(b),
                          acknowledgements[b])
  PROVE  AsTheChainShows(m) = ChainGetBlob(b)
<1> DEFINE held == DOMAIN m.placement
<1>1. /\ m.exists = TRUE /\ m.owner = blobs[b].owner
      /\ m.totalShards = blobs[b].totalShards /\ m.expiresAt = blobs[b].expiresAt
      /\ m.origin = blobs[b].origin /\ m.name = blobNames[b] /\ m.status = blobs[b].status
      /\ m.placement = MapOf(b) /\ m.acknowledgements = acknowledgements[b]
  BY DEF Shown
<1>2. ShardsOf(b) = {s \in Shards : s < m.totalShards}
  BY <1>1 DEF ShardsOf
<1>3. /\ held = {s \in ShardsOf(b) : placement[b][s] # NoProvider}
      /\ \A s \in held : m.placement[s] = placement[b][s]
  <2> DEFINE map == MapOf(b)
  <2>1. /\ DOMAIN map = {s \in ShardsOf(b) : placement[b][s] # NoProvider}
        /\ \A s \in DOMAIN map : map[s] = placement[b][s]
    BY DEF MapOf
  <2>2. m.placement = map
    BY <1>1
  <2> HIDE DEF map
  <2> QED
    BY <2>1, <2>2
<1>4. \A ack \in acknowledgements[b], s \in ShardsOf(b) :
        ack = <<placement[b][s], s>> => placement[b][s] # NoProvider
  <2>1. acknowledgements[b] \subseteq ProviderIds \X Shards /\ NoProvider \notin ProviderIds
    BY BoundsAssumption DEF IInv, Typed, ProviderIds, NoProvider
  <2> QED
    BY <2>1
<1> HIDE DEF held
<1>5. [s \in {s \in Shards : s < m.totalShards} |->
         IF s \in held THEN m.placement[s] ELSE NoProvider]
        = [s \in ShardsOf(b) |-> placement[b][s]]
  BY <1>2, <1>3
<1>6. {ack \in m.acknowledgements : \E s \in held : ack = <<m.placement[s], s>>}
        = {ack \in acknowledgements[b] : \E s \in ShardsOf(b) : ack = <<placement[b][s], s>>}
  BY <1>1, <1>3, <1>4
<1>7. Cardinality(m.acknowledgements) = blobs[b].acknowledgementCount
  BY <1>1 DEF CountsAcks
<1> QED
  BY <1>1, <1>5, <1>6, <1>7 DEF AsTheChainShows, ChainGetBlob, held

(* After every sequence of calls, of any length and about any number of    *)
(* blobs, names, shards and providers, the substitute shows each blob as   *)
(* the client of the chain does, but for what that leaves out of former    *)
(* holders and adds of shards no one has (memory-registry.mjs against the  *)
(* contract and flare-registry.mjs:449).                                   *)
THEOREM SubstituteAgrees == MCSpec => []MemoryAgrees
<1>1. MCInit => Compared
  BY InitIInv, FreshInStep DEF MCInit, Compared
<1>2. Compared /\ [MCNext]_allVars => Compared'
  <2> SUFFICES ASSUME Compared, [MCNext]_allVars, ask'.about = "memory"
               PROVE  IInv' /\ InStep'
    BY DEF Compared
  <2>1. ask' = ask /\ ask.about = "memory" /\ IInv /\ InStep
    BY DEF Compared, MCNext, allVars
  <2>2. CASE MemoryNext
    BY <2>1, <2>2, CallsAreNext, CallsAgree, NextIInv
  <2>3. CASE UNCHANGED allVars
    <3>1. memory' = memory /\ UNCHANGED vars
      BY <2>3 DEF allVars
    <3> QED
      BY <2>1, <3>1, BothRefuse, NextIInv
  <2>4. MemoryNext \/ UNCHANGED allVars
    BY <2>1 DEF MCNext
  <2> QED
    BY <2>2, <2>3, <2>4
<1>3. Compared => MemoryAgrees
  <2> SUFFICES ASSUME IInv, InStep, NEW b \in Blobs
               PROVE  AsTheChainShows(MemoryGetBlob(b)) = ChainGetBlob(b)
    BY DEF Compared, MemoryAgrees
  <2>1. memory.blobs[b] = WholeBlob(b) /\ (Known(b) <=> blobs[b].exists)
    BY ShownBlob DEF InStep, ShowsChain
  <2>2. CASE ~blobs[b].exists
    <3>1. MemoryGetBlob(b) = NoRecord /\ ChainGetBlob(b) = NoRecord
      BY <2>1, <2>2 DEF MemoryGetBlob, ChainGetBlob
    <3> QED
      BY <3>1 DEF AsTheChainShows, NoRecord
  <2>3. CASE blobs[b].exists
    <3> DEFINE seen == memory.blobs[b]
    <3>1. seen = Shown(blobs[b].owner, blobs[b].totalShards, blobs[b].expiresAt,
                       blobs[b].origin, blobNames[b], blobs[b].status, MapOf(b),
                       acknowledgements[b])
      BY <2>1, <2>3, ChainShows
    <3>2. MemoryGetBlob(b) =
            Shown(seen.owner, seen.totalShards, seen.expiresAt, seen.origin, seen.name,
                  seen.status, seen.placement, seen.acknowledgements)
      BY <2>1, <2>3 DEF MemoryGetBlob, Shown
    <3> HIDE DEF seen
    <3>3. /\ seen.owner = blobs[b].owner /\ seen.totalShards = blobs[b].totalShards
          /\ seen.expiresAt = blobs[b].expiresAt /\ seen.origin = blobs[b].origin
          /\ seen.name = blobNames[b] /\ seen.status = blobs[b].status
          /\ seen.placement = MapOf(b) /\ seen.acknowledgements = acknowledgements[b]
      BY <3>1 DEF Shown
    <3>4. MemoryGetBlob(b) =
            Shown(blobs[b].owner, blobs[b].totalShards, blobs[b].expiresAt,
                  blobs[b].origin, blobNames[b], blobs[b].status, MapOf(b),
                  acknowledgements[b])
      BY <3>2, <3>3
    <3>5. CountsAcks(b)
      BY DEF InStep
    <3> QED
      BY <2>3, <3>4, <3>5, WholeSeenFromChain
  <2> QED
    BY <2>2, <2>3
<1> QED
  BY <1>1, <1>2, <1>3, PTL DEF MCSpec
-----------------------------------------------------------------------------
(* The two enclaves.  Both add up a field of the records, each with a fold *)
(* of its own, and neither says in which order; whichever it is, the fold  *)
(* is the total of the prefix sums.                                        *)

(* The entries of f in s, and zero elsewhere.                              *)
Within(f, n, s) == [i \in 1..n |-> IF i \in s THEN f[i] ELSE 0]

LEMMA SumWithin ==
  ASSUME NEW n \in Nat, NEW f \in [1..n -> Int], NEW s \in SUBSET (1..n)
  PROVE  Total(Within(f, n, s), n) \in Int
<1>1. Within(f, n, s) \in [1..n -> Int]
  BY DEF Within
<1> QED
  BY <1>1, TotalInt

(* The sum over a set is that of any element and of the rest.              *)
LEMMA OneMore ==
  ASSUME NEW n \in Nat, NEW f \in [1..n -> Int], NEW s \in SUBSET (1..n), NEW x \in s
  PROVE  Total(Within(f, n, s), n) = f[x] + Total(Within(f, n, s \ {x}), n)
<1> DEFINE g == Within(f, n, s)
           h == Within(f, n, s \ {x})
<1>1. x \in 1..n
  OBVIOUS
<1>2. g \in [1..n -> Int] /\ h \in [1..n -> Int]
  BY DEF Within
<1>3. g[x] = f[x] /\ h[x] = 0 /\ f[x] \in Int
  BY <1>1 DEF Within
<1>4. \A i \in 1..n : i # x => g[i] = h[i]
  BY DEF Within
<1> HIDE DEF g, h
<1>5. Total(g, n) = Total(h, n) + (g[x] - h[x])
  BY <1>1, <1>2, <1>4, TotalChange
<1>6. Total(h, n) \in Int
  BY <1>2, TotalInt
<1>7. Total(g, n) = f[x] + Total(h, n)
  BY <1>3, <1>5, <1>6
<1> QED
  BY <1>7 DEF g, h

(* A fold that adds: what it takes next is up to `pick'.                   *)
AddsUp(V, f, n, pick) ==
  /\ V[{}] = 0
  /\ \A s \in SUBSET (1..n) : s # {} /\ V[s \ {pick[s]}] \in Int =>
       V[s] = f[pick[s]] + V[s \ {pick[s]}]

Picks(pick, n) == \A s \in SUBSET (1..n) : s # {} => pick[s] \in s

(* A set has one sum, in whatever order its elements are taken.            *)
LEMMA SumInAnyOrder ==
  ASSUME NEW n \in Nat, NEW f \in [1..n -> Int], NEW V,
         NEW pick, Picks(pick, n), AddsUp(V, f, n, pick)
  PROVE  V[1..n] = Total(f, n)
<1> DEFINE Sum(s) == Total(Within(f, n, s), n)
           Wrong == {s \in SUBSET (1..n) : V[s] # Sum(s)}
           Sizes0 == {Cardinality(s) : s \in Wrong}
<1>1. IsFiniteSet(1..n)
  BY FS_Interval
<1>2. \A s \in SUBSET (1..n) : IsFiniteSet(s) /\ Cardinality(s) \in Nat
  BY <1>1, FS_Subset, FS_CardinalityType
<1>3. V[{}] = 0 /\ Sum({}) = 0
  <2>1. \A i \in 1..n : Within(f, n, {})[i] = 0
    BY DEF Within
  <2> QED
    BY <2>1, TotalOfZeros DEF AddsUp
<1>4. ASSUME NEW s \in SUBSET (1..n), s # {}
      PROVE  /\ pick[s] \in s
             /\ V[s \ {pick[s]}] \in Int => V[s] = f[pick[s]] + V[s \ {pick[s]}]
             /\ Sum(s) = f[pick[s]] + Sum(s \ {pick[s]})
  <2> DEFINE x == pick[s]
  <2>1. x \in s /\ (V[s \ {x}] \in Int => V[s] = f[x] + V[s \ {x}])
    BY <1>4 DEF Picks, AddsUp
  <2> HIDE DEF x
  <2>2. Total(Within(f, n, s), n) = f[x] + Total(Within(f, n, s \ {x}), n)
    BY <1>4, <2>1, OneMore
  <2>3. Sum(s) = f[x] + Sum(s \ {x})
    BY <2>2
  <2> HIDE DEF Sum
  <2> QED
    BY <2>1, <2>3 DEF x
<1>5. Wrong = {}
  <2> SUFFICES ASSUME Wrong # {} PROVE FALSE
    OBVIOUS
  <2>1. Sizes0 \subseteq Nat /\ Sizes0 # {}
    BY <1>2
  <2>2. PICK m \in Sizes0 : \A k \in Sizes0 : m <= k
    <3> HIDE DEF Sizes0
    <3> QED
      BY <2>1, LeastNat
  <2>3. PICK s \in Wrong : Cardinality(s) = m
    BY <2>2
  <2>4. s \in SUBSET (1..n) /\ s # {} /\ V[s] # Sum(s)
    BY <1>3, <2>3
  <2> DEFINE x == pick[s]
             rest == s \ {x}
  <2>5. /\ x \in s /\ rest \in SUBSET (1..n)
        /\ V[rest] \in Int => V[s] = f[x] + V[rest]
        /\ Sum(s) = f[x] + Sum(rest)
    <3> HIDE DEF Sum
    <3> QED
      BY <1>4, <2>4
  <2> HIDE DEF x
  <2>6. Cardinality(rest) = Cardinality(s) - 1
    BY <1>2, <2>4, <2>5, FS_RemoveElement
  <2>9. Sum(rest) \in Int
    BY <2>5, SumWithin
  <2> HIDE DEF rest, Sum
  <2>7. rest \in Wrong
    BY <2>4, <2>5, <2>9
  <2>8. Cardinality(rest) \in Sizes0 /\ Cardinality(rest) \in Nat /\ Cardinality(s) \in Nat
    BY <1>2, <2>4, <2>5, <2>7
  <2> HIDE DEF Sizes0
  <2> QED
    BY <2>2, <2>3, <2>6, <2>8
<1>6. Sum(1..n) = Total(f, n)
  <2>1. Within(f, n, 1..n) = f
    BY DEF Within
  <2> QED
    BY <2>1
<1> HIDE DEF Sum
<1> QED
  BY <1>5, <1>6

(* What the recursive function in a fold stands for: the equation has a    *)
(* solution, so that it is one.                                            *)
SumsWithin(f, n) == [s \in SUBSET (1..n) |-> Total(Within(f, n, s), n)]

LEMMA SumsWithinAddUp ==
  ASSUME NEW n \in Nat, NEW f \in [1..n -> Int], NEW pick, Picks(pick, n)
  PROVE  \A s \in SUBSET (1..n) :
           /\ SumsWithin(f, n)[s] \in Int
           /\ SumsWithin(f, n)[s] = IF s = {} THEN 0
                                  ELSE f[pick[s]] + SumsWithin(f, n)[s \ {pick[s]}]
           /\ s # {} => pick[s] \in s /\ f[pick[s]] \in Int
<1> SUFFICES ASSUME NEW s \in SUBSET (1..n)
             PROVE  /\ SumsWithin(f, n)[s] \in Int
                    /\ SumsWithin(f, n)[s] = IF s = {} THEN 0
                                  ELSE f[pick[s]] + SumsWithin(f, n)[s \ {pick[s]}]
                    /\ s # {} => pick[s] \in s /\ f[pick[s]] \in Int
  OBVIOUS
<1>1. SumsWithin(f, n)[s] = Total(Within(f, n, s), n)
  BY DEF SumsWithin
<1>2. SumsWithin(f, n)[s] \in Int
  BY <1>1, SumWithin
<1>3. CASE s = {}
  <2>1. \A i \in 1..n : Within(f, n, {})[i] = 0
    BY DEF Within
  <2> QED
    BY <1>1, <1>2, <1>3, <2>1, TotalOfZeros
<1>4. CASE s # {}
  <2> DEFINE x == pick[s]
  <2>1. x \in s /\ f[x] \in Int /\ s \ {x} \in SUBSET (1..n)
    BY <1>4 DEF Picks
  <2> HIDE DEF x
  <2>2. Total(Within(f, n, s), n) = f[x] + Total(Within(f, n, s \ {x}), n)
    BY <2>1, OneMore
  <2>3. SumsWithin(f, n)[s \ {x}] = Total(Within(f, n, s \ {x}), n)
    BY <2>1 DEF SumsWithin
  <2>4. SumsWithin(f, n)[s] = f[x] + SumsWithin(f, n)[s \ {x}]
    BY <1>1, <2>2, <2>3
  <2> QED
    BY <1>2, <1>4, <2>1, <2>4 DEF x
<1> QED
  BY <1>3, <1>4

(* Both folds give the total.                                              *)
LEMMA FoldsAddUp ==
  ASSUME NEW n \in Nat, NEW records \in [1..n -> Int]
  PROVE  /\ SumOf(records) = Total(records, n)
         /\ Records!FoldSeq(+, 0, records) = Total(records, n)
<1> DEFINE highest == [s \in SUBSET (1..n) |-> Records!Max(s)]
           any == [s \in SUBSET (1..n) |-> CHOOSE x \in s : TRUE]
           W == SumsWithin(records, n)
           left == CHOOSE V : V = [s \in SUBSET DOMAIN records |->
                     IF s = {} THEN 0
                     ELSE V[s \ {Records!Max(s)}] + records[Records!Max(s)]]
           plain == CHOOSE V : V = [s \in SUBSET DOMAIN records |->
                     IF s = {} THEN 0
                     ELSE records[CHOOSE x \in s : TRUE] + V[s \ {CHOOSE x \in s : TRUE}]]
<1>1. DOMAIN records = 1..n
  OBVIOUS
<1>2. Picks(highest, n)
  <2> SUFFICES ASSUME NEW s \in SUBSET (1..n), s # {} PROVE Records!Max(s) \in s
    BY DEF Picks
  <2> DEFINE T == {n - x : x \in s}
  <2>0. s \subseteq 1..n /\ \E z : z \in s
    OBVIOUS
  <2>1. T \subseteq Nat /\ T # {}
    BY <2>0
  <2>2. PICK m \in T : \A k \in T : m <= k
    <3> HIDE DEF T
    <3> QED
      BY <2>1, LeastNat
  <2>3. PICK x \in s : m = n - x
    BY <2>2
  <2>4. ASSUME NEW y \in s PROVE x >= y
    <3>1. x \in 1..n /\ y \in 1..n /\ n - y \in T
      BY <2>0, <2>4
    <3>2. n - x <= n - y
      BY <2>2, <2>3, <3>1
    <3> QED
      BY <3>1, <3>2
  <2> QED
    BY <2>4 DEF Records!Max
<1>3. Picks(any, n)
  BY DEF Picks
<1>4. SumOf(records) = left[1..n]
  BY <1>1 DEF SumOf, Records!FoldLeft, Records!MapThenFoldSet
<1>5. Records!FoldSeq(+, 0, records) = plain[1..n]
  BY <1>1 DEF Records!FoldSeq, Records!FoldFunction, Records!FoldFunctionOnSet,
              Records!MapThenFoldSet
<1>11. \A s \in SUBSET (1..n) :
           /\ SumsWithin(records, n)[s] \in Int
           /\ SumsWithin(records, n)[s] = IF s = {} THEN 0
                ELSE records[highest[s]] + SumsWithin(records, n)[s \ {highest[s]}]
           /\ s # {} => highest[s] \in s /\ records[highest[s]] \in Int
  <2> HIDE DEF highest
  <2> QED
    BY <1>2, SumsWithinAddUp
<1>12. \A s \in SUBSET (1..n) :
           /\ SumsWithin(records, n)[s] \in Int
           /\ SumsWithin(records, n)[s] = IF s = {} THEN 0
                ELSE records[any[s]] + SumsWithin(records, n)[s \ {any[s]}]
           /\ s # {} => any[s] \in s /\ records[any[s]] \in Int
  <2> HIDE DEF any
  <2> QED
    BY <1>3, SumsWithinAddUp
<1>6. left = [s \in SUBSET DOMAIN records |->
                IF s = {} THEN 0
                ELSE left[s \ {Records!Max(s)}] + records[Records!Max(s)]]
  <2>1. W = [s \in SUBSET DOMAIN records |->
               IF s = {} THEN 0 ELSE W[s \ {Records!Max(s)}] + records[Records!Max(s)]]
    <3>1. ASSUME NEW s \in SUBSET (1..n)
          PROVE  W[s] = IF s = {} THEN 0
                        ELSE W[s \ {Records!Max(s)}] + records[Records!Max(s)]
      <4>3. highest[s] = Records!Max(s)
        BY <3>1
      <4> HIDE DEF highest
      <4>1. /\ W[s] = IF s = {} THEN 0 ELSE records[highest[s]] + W[s \ {highest[s]}]
            /\ s # {} => highest[s] \in s /\ records[highest[s]] \in Int
        BY <1>11, <3>1
      <4>2. W[s \ {highest[s]}] \in Int
        BY <1>11, <3>1
      <4> HIDE DEF W
      <4> QED
        BY <4>1, <4>2, <4>3
    <3>2. W = [s \in SUBSET (1..n) |-> W[s]]
      BY DEF SumsWithin
    <3> HIDE DEF W
    <3> QED
      BY <1>1, <3>1, <3>2
  <2> QED
    BY <2>1
<1>7. plain = [s \in SUBSET DOMAIN records |->
                IF s = {} THEN 0
                ELSE records[CHOOSE x \in s : TRUE] + plain[s \ {CHOOSE x \in s : TRUE}]]
  <2>1. W = [s \in SUBSET DOMAIN records |->
               IF s = {} THEN 0
               ELSE records[CHOOSE x \in s : TRUE] + W[s \ {CHOOSE x \in s : TRUE}]]
    <3>1. ASSUME NEW s \in SUBSET (1..n)
          PROVE  W[s] = IF s = {} THEN 0
                        ELSE records[CHOOSE x \in s : TRUE] + W[s \ {CHOOSE x \in s : TRUE}]
      <4>2. any[s] = CHOOSE x \in s : TRUE
        BY <3>1
      <4> HIDE DEF any
      <4>1. W[s] = IF s = {} THEN 0 ELSE records[any[s]] + W[s \ {any[s]}]
        BY <1>12, <3>1
      <4> HIDE DEF W
      <4> QED
        BY <4>1, <4>2
    <3>2. W = [s \in SUBSET (1..n) |-> W[s]]
      BY DEF SumsWithin
    <3> HIDE DEF W
    <3> QED
      BY <1>1, <3>1, <3>2
  <2> QED
    BY <2>1
<1> HIDE DEF left, plain
<1>8. AddsUp(left, records, n, highest)
  <2>1. left[{}] = 0
    BY <1>1, <1>6
  <2>2. ASSUME NEW s \in SUBSET (1..n), s # {}, left[s \ {highest[s]}] \in Int
        PROVE  left[s] = records[highest[s]] + left[s \ {highest[s]}]
    <3>1. highest[s] = Records!Max(s) /\ highest[s] \in 1..n /\ records[highest[s]] \in Int
      BY <1>2, <2>2 DEF Picks
    <3>2. left[s] = left[s \ {Records!Max(s)}] + records[Records!Max(s)]
      BY <1>1, <1>6, <2>2
    <3> HIDE DEF highest
    <3> QED
      BY <2>2, <3>1, <3>2
  <2> HIDE DEF highest
  <2> QED
    BY <2>1, <2>2 DEF AddsUp
<1>9. AddsUp(plain, records, n, any)
  <2>1. plain[{}] = 0
    BY <1>1, <1>7
  <2>2. ASSUME NEW s \in SUBSET (1..n), s # {}
        PROVE  plain[s] = records[any[s]] + plain[s \ {any[s]}]
    BY <1>1, <1>7, <2>2
  <2> HIDE DEF any
  <2> QED
    BY <2>1, <2>2 DEF AddsUp
<1> HIDE DEF highest, any
<1>10. left[1..n] = Total(records, n) /\ plain[1..n] = Total(records, n)
  BY <1>2, <1>3, <1>8, <1>9, SumInAnyOrder
<1> QED
  BY <1>4, <1>5, <1>10
-----------------------------------------------------------------------------
(* What the two make of a list of records: the same, or nothing.           *)
LEMMA ComputeAlike ==
  ASSUME NEW plaintext \in Seq(Int), NEW spec
  PROVE  LiveOutcomes(plaintext, spec)
           = IF Computes(plaintext, spec) THEN {Computed(plaintext, spec)} ELSE {}
<1> DEFINE total == Records!FoldSeq(+, 0, plaintext)
           fields == IF plaintext # NotRecords /\ spec.field THEN {plaintext} ELSE {}
           of(result) == [operation |-> spec.operation, result |-> result]
<1>1. total = SumOf(plaintext)
  <2>1. Len(plaintext) \in Nat /\ plaintext \in [1..Len(plaintext) -> Int]
    OBVIOUS
  <2> QED
    BY <2>1, FoldsAddUp
<1>2. CASE spec.operation = "sha256"
  BY <1>2 DEF LiveOutcomes, Computes, Computed
<1>3. CASE spec.operation = "json_field_count"
  <2> DEFINE counted(f) == of(<<Cardinality({i \in DOMAIN f : f[i] # Absent})>>)
  <2>1. LiveOutcomes(plaintext, spec)
          = {counted(f) : f \in fields}
    BY <1>3 DEF LiveOutcomes
  <2>2. CountOf(plaintext) = Cardinality({i \in DOMAIN plaintext : plaintext[i] # Absent})
    BY DEF CountOf
  <2>3. Computed(plaintext, spec) = counted(plaintext)
    BY <1>3, <2>2 DEF Computed
  <2>4. Computes(plaintext, spec) <=> fields # {}
    BY <1>3 DEF Computes
  <2> HIDE DEF counted
  <2>5. {counted(f) : f \in fields} = IF fields # {} THEN {counted(plaintext)} ELSE {}
    OBVIOUS
  <2> HIDE DEF fields
  <2> QED
    BY <2>1, <2>3, <2>4, <2>5
<1>4. CASE spec.operation = "json_field_sum"
  <2> DEFINE adds == \A i \in DOMAIN plaintext : plaintext[i] \notin {Absent, NotFinite}
  <2> DEFINE summed(f) == of(<<Records!FoldSeq(+, 0, f)>>)
  <2>1. LiveOutcomes(plaintext, spec)
          = {summed(f) : f \in
               {f \in fields : \A i \in DOMAIN f : f[i] # Absent /\ f[i] # NotFinite}}
    BY <1>4 DEF LiveOutcomes
  <2>2. {f \in fields : \A i \in DOMAIN f : f[i] # Absent /\ f[i] # NotFinite}
          = IF fields # {} /\ adds THEN {plaintext} ELSE {}
    OBVIOUS
  <2>6. summed(plaintext) = of(<<total>>)
    OBVIOUS
  <2> HIDE DEF summed
  <2>7. LiveOutcomes(plaintext, spec)
          = {summed(f) : f \in IF fields # {} /\ adds THEN {plaintext} ELSE {}}
    BY <2>1, <2>2, Zenon
  <2>8. LiveOutcomes(plaintext, spec)
          = IF fields # {} /\ adds THEN {summed(plaintext)} ELSE {}
    <3> HIDE DEF fields, adds
    <3> QED
      BY <2>7
  <2>3. LiveOutcomes(plaintext, spec)
          = IF fields # {} /\ adds THEN {of(<<total>>)} ELSE {}
    BY <2>6, <2>8
  <2>4. Computes(plaintext, spec) <=> fields # {} /\ adds
    BY <1>4 DEF Computes
  <2>5. Computed(plaintext, spec) = of(<<SumOf(plaintext)>>)
    BY <1>4 DEF Computed
  <2> QED
    BY <1>1, <2>3, <2>4, <2>5
<1>5. CASE spec.operation \notin {"sha256", "json_field_count", "json_field_sum"}
  BY <1>5 DEF LiveOutcomes, Computes
<1> QED
  BY <1>2, <1>3, <1>4, <1>5

(* A message as both enclaves read it.                                     *)
Reads(m, a, scheme) ==
  LET content == m.envelope.box.content
  IN  /\ m.envelope.scheme = scheme
      /\ m.envelope.box.key = a.fccKey
      /\ content.fileKey = a.fileKey
      /\ content.heading = [ blob |-> a.blob, owner |-> a.owner,
                             storageMode |-> a.mode, accessPolicy |-> a.access ]
      /\ m.envelope.fileKeyCommitment = IF a.keyHonest THEN a.fileKey ELSE "other key"
      /\ m.envelopeCommitment = m.envelope <=>
           a.envelopeHonest \/ m.envelope.fileKeyCommitment = "changed"

LEMMA MessageRead ==
  ASSUME NEW a, NEW scheme
  PROVE  Reads(MessageOf(a, scheme), a, scheme)
  BY DEF Reads, MessageOf, EnvelopeOf, SealForFcc, Seal, Heading

LEMMA SameHeading ==
  ASSUME NEW blob, NEW owner, NEW mode, NEW access,
         NEW blob2, NEW owner2, NEW mode2, NEW access2
  PROVE  [ blob |-> blob, owner |-> owner, storageMode |-> mode, accessPolicy |-> access ]
           = [ blob |-> blob2, owner |-> owner2, storageMode |-> mode2, accessPolicy |-> access2 ]
         <=> blob = blob2 /\ owner = owner2 /\ mode = mode2 /\ access = access2
<1> DEFINE h == [ blob |-> blob, owner |-> owner, storageMode |-> mode, accessPolicy |-> access ]
           k == [ blob |-> blob2, owner |-> owner2, storageMode |-> mode2,
                  accessPolicy |-> access2 ]
<1>1. /\ h.blob = blob /\ h.owner = owner /\ h.storageMode = mode /\ h.accessPolicy = access
      /\ k.blob = blob2 /\ k.owner = owner2 /\ k.storageMode = mode2
      /\ k.accessPolicy = access2
  OBVIOUS
<1>2. h = k => blob = blob2 /\ owner = owner2 /\ mode = mode2 /\ access = access2
  <2> HIDE DEF h, k
  <2> QED
    BY <1>1
<1> QED
  BY <1>2

(* All that a message holds besides the envelope.                          *)
LEMMA MessageRest ==
  ASSUME NEW a, a.plaintext \in Seq(Int)
  PROVE  LET direct == MessageOf(a, DirectScheme)
             official == MessageOf(a, OfficialScheme)
         IN  /\ direct.request = official.request
             /\ direct.blob = "b" /\ official.blob = "b"
             /\ direct.owner = "o" /\ official.owner = "o"
             /\ direct.device = official.device
             /\ direct.deviceCommitment = official.deviceCommitment
             /\ direct.ciphertext = official.ciphertext
             /\ direct.ciphertext.plaintext \in Seq(Int)
             /\ direct.inputCommitment = official.inputCommitment
             /\ direct.spec = official.spec
  BY DEF MessageOf, Unserved

(* To every message, each with an envelope of its own scheme, both         *)
(* enclaves answer or neither does, what they give out differs in nothing  *)
(* but the commitment that only the simulated one adds to a key package,   *)
(* and neither answers the other's envelopes, whatever the keys, the       *)
(* policy, the records and the claims in the message (handler.mjs:86-166,  *)
(* live/handlers.ts:190-271).                                              *)
AnswerAlike(a, teeKey) ==
  LET direct == MessageOf(a, DirectScheme)
      official == MessageOf(a, OfficialScheme)
      rewrap == LiveKeyRewrap(official, teeKey)
  IN  /\ SimulatedKeyRewrap(direct, teeKey)
           = IF rewrap.status = 1 THEN Committed(rewrap.content) ELSE Failure
      /\ SimulatedCompute(direct, teeKey) = LiveCompute(official, teeKey)
      /\ \A answer \in { SimulatedKeyRewrap(official, teeKey), LiveKeyRewrap(direct, teeKey),
                         SimulatedCompute(official, teeKey), LiveCompute(direct, teeKey) } :
           answer = Failure

(* Stated for any fields of a message.                                     *)
THEOREM EnclavesAnswerAlike ==
  ASSUME NEW a, a.plaintext \in Seq(Int), NEW teeKey
  PROVE  AnswerAlike(a, teeKey)
<1> DEFINE direct == MessageOf(a, DirectScheme)
           official == MessageOf(a, OfficialScheme)
<1>1. DirectScheme # OfficialScheme
  BY DEF DirectScheme, OfficialScheme
<1>2. Reads(direct, a, DirectScheme) /\ Reads(official, a, OfficialScheme)
  BY MessageRead
<1>4. /\ direct.request = official.request
      /\ direct.blob = "b" /\ official.blob = "b"
      /\ direct.owner = "o" /\ official.owner = "o"
      /\ direct.device = official.device
      /\ direct.deviceCommitment = official.deviceCommitment
      /\ direct.ciphertext = official.ciphertext
      /\ direct.ciphertext.plaintext \in Seq(Int)
      /\ direct.inputCommitment = official.inputCommitment
      /\ direct.spec = official.spec
  BY MessageRest
<1> HIDE DEF direct, official
<1>5. /\ SimulatedKeyRewrap(official, teeKey) = Failure
      /\ LiveKeyRewrap(direct, teeKey) = Failure
      /\ SimulatedCompute(official, teeKey) = Failure
      /\ LiveCompute(direct, teeKey) = Failure
  BY <1>1, <1>2 DEF SimulatedKeyRewrap, LiveKeyRewrap, SimulatedCompute, LiveCompute,
                    OpensKeyEnvelope, Reads
<1> DEFINE Opened == /\ a.envelopeHonest \/ direct.envelope.fileKeyCommitment = "changed"
                     /\ a.fccKey = teeKey
                     /\ a.fileKey # ShortKey
                     /\ direct.envelope.fileKeyCommitment = a.fileKey
           Headed == a.blob = "b" /\ a.owner = "o"
           Rewraps == /\ Opened /\ Headed
                      /\ a.mode = Private /\ a.access \in {OwnerOnly, SelectedWallets}
                      /\ direct.deviceCommitment = direct.device
           Usable == /\ Opened /\ Headed
                     /\ a.mode = Confidential /\ a.access = ComputeOnly
                     /\ direct.ciphertext # Unserved
                     /\ direct.inputCommitment = direct.ciphertext
                     /\ Decrypts(direct.ciphertext, a.fileKey)
                     /\ Computes(direct.ciphertext.plaintext, direct.spec)
<1>3. /\ direct.envelopeCommitment = direct.envelope
             /\ direct.envelope.box.key = teeKey
             /\ direct.envelope.box.content.fileKey # ShortKey
             /\ direct.envelope.fileKeyCommitment = direct.envelope.box.content.fileKey
           <=> Opened
      /\ official.envelopeCommitment = official.envelope
             /\ official.envelope.box.key = teeKey
             /\ official.envelope.box.content.fileKey # ShortKey
             /\ official.envelope.fileKeyCommitment = official.envelope.box.content.fileKey
           <=> Opened
  BY <1>2 DEF Reads
<1> DEFINE H == [ blob |-> a.blob, owner |-> a.owner,
                  storageMode |-> a.mode, accessPolicy |-> a.access ]
<1>14. /\ direct.envelope.box.content.heading = H
       /\ official.envelope.box.content.heading = H
  BY <1>2, Zenon DEF Reads
<1>6. ASSUME NEW mode, NEW access
      PROVE  ValidEnvelopePayload(direct.envelope.box.content.heading, direct, mode, access)
               <=> Headed /\ a.mode = mode /\ a.access = access
  <2>1. ValidEnvelopePayload(direct.envelope.box.content.heading, direct, mode, access)
          <=> H = [ blob |-> "b", owner |-> "o", storageMode |-> mode, accessPolicy |-> access ]
    <3> HIDE DEF H
    <3> QED
      BY <1>4, <1>14 DEF ValidEnvelopePayload
  <2> QED
    BY <2>1, SameHeading
<1>13. /\ direct.envelope.box.content.heading.accessPolicy = a.access
       /\ direct.envelope.box.content.fileKey = a.fileKey
       /\ direct.envelope.scheme = DirectScheme
       /\ official.envelope.box.content.heading.accessPolicy = a.access
       /\ official.envelope.box.content.heading.storageMode = a.mode
       /\ official.envelope.box.content.heading.blob = a.blob
       /\ official.envelope.box.content.heading.owner = a.owner
       /\ official.envelope.box.content.fileKey = a.fileKey
       /\ official.envelope.scheme = OfficialScheme
  <2>1. H.blob = a.blob /\ H.owner = a.owner /\ H.storageMode = a.mode
          /\ H.accessPolicy = a.access
    OBVIOUS
  <2> HIDE DEF H
  <2>2. /\ direct.envelope.box.content.fileKey = a.fileKey
        /\ direct.envelope.scheme = DirectScheme
        /\ official.envelope.box.content.fileKey = a.fileKey
        /\ official.envelope.scheme = OfficialScheme
    BY <1>2 DEF Reads
  <2> QED
    BY <1>14, <2>1, <2>2
<1> HIDE DEF Opened
<1>7. SimulatedKeyRewrap(direct, teeKey)
        = IF Rewraps THEN Committed(WrapFileKeyForDevice(a.fileKey, direct)) ELSE Failure
  BY <1>3, <1>6, <1>13 DEF SimulatedKeyRewrap, OpensKeyEnvelope
<1>8. LiveKeyRewrap(official, teeKey)
        = IF Rewraps
          THEN Success(LiveDevicePackage(a.fileKey, official.device, official.request,
                                         official.blob, official.deviceCommitment))
          ELSE Failure
  BY <1>3, <1>4, <1>13 DEF LiveKeyRewrap, DecryptsWithTeeNode, BoundToBlobAndOwner,
                          ReleasesFileKey, PrivatePolicies
<1>9. WrapFileKeyForDevice(a.fileKey, direct)
        = LiveDevicePackage(a.fileKey, official.device, official.request,
                            official.blob, official.deviceCommitment)
  BY <1>4 DEF WrapFileKeyForDevice, LiveDevicePackage
<1>10. SimulatedCompute(direct, teeKey)
         = IF Usable
           THEN Committed([ request |-> direct.request, blob |-> direct.blob,
                            computed |-> Computed(direct.ciphertext.plaintext, direct.spec) ])
           ELSE Failure
  BY <1>3, <1>6, <1>13 DEF SimulatedCompute, OpensKeyEnvelope
<1>11. LiveOutcomes(official.ciphertext.plaintext, official.spec)
         = IF Computes(direct.ciphertext.plaintext, direct.spec)
           THEN {Computed(direct.ciphertext.plaintext, direct.spec)} ELSE {}
  BY <1>4, ComputeAlike
<1>12. LiveCompute(official, teeKey)
         = IF Usable
           THEN Committed([ request |-> direct.request, blob |-> direct.blob,
                            computed |-> Computed(direct.ciphertext.plaintext, direct.spec) ])
           ELSE Failure
  BY <1>3, <1>4, <1>11, <1>13 DEF LiveCompute, DecryptsWithTeeNode, BoundToBlobAndOwner,
                                 ReleasesFileKey, Retrieves
<1>15. ASSUME NEW content
       PROVE  Success(content).status = 1 /\ Success(content).content = content
  BY DEF Success
<1>16. Failure.status # 1
  BY DEF Failure
<1> DEFINE rewrap == LiveKeyRewrap(official, teeKey)
<1>17. SimulatedKeyRewrap(direct, teeKey)
         = IF rewrap.status = 1 THEN Committed(rewrap.content) ELSE Failure
  <2> HIDE DEF Rewraps
  <2> QED
    BY <1>7, <1>8, <1>9, <1>15, <1>16
<1> HIDE DEF rewrap
<1>18. SimulatedCompute(direct, teeKey) = LiveCompute(official, teeKey)
  BY <1>10, <1>12
<1> QED
  BY <1>5, <1>17, <1>18 DEF AnswerAlike, direct, official, rewrap

(* The messages of the run are some of these.                              *)
THEOREM MessagesAgree == MCSpec => []EnclavesAgree
<1>1. ASSUME AskTyped, ask.about = "message"
      PROVE  EnclavesAgree
  <2>1. /\ \A a \in QuoteAsks : a.about = "quote"
        /\ \A a \in PreparationAsks : a.about = "preparation"
        /\ \A a \in Moving : a.about \in {"memory", "explorer"}
    BY DEF QuoteAsks, PreparationAsks, Moving
  <2>2. ask \in MessageAsks
    BY <1>1, <2>1 DEF AskTyped
  <2>3. ask.plaintext \in {<<>>, <<2, 3>>, <<2, Absent>>, <<NotFinite, 0>>, NotRecords}
    BY <2>2 DEF MessageAsks
  <2>4. ask.plaintext \in Seq(Int)
    <3>1. Absent \in Int /\ NotFinite \in Int
      BY DEF Absent, NotFinite
    <3>2. <<>> \in Seq(Int)
      OBVIOUS
    <3>3. \A x, y \in Int : <<x, y>> \in Seq(Int)
      OBVIOUS
    <3>4. /\ <<2, 3>> \in Seq(Int) /\ <<2, Absent>> \in Seq(Int)
          /\ <<NotFinite, 0>> \in Seq(Int)
      BY <3>1, <3>3
    <3>5. NotRecords \in Seq(Int)
      <4>1. -3 \in Int /\ \A x \in Int : <<x>> \in Seq(Int)
        OBVIOUS
      <4> QED
        BY <4>1 DEF NotRecords
    <3> QED
      BY <2>3, <3>2, <3>4, <3>5
  <2>5. AnswerAlike(ask, "tee")
    BY <2>4, EnclavesAnswerAlike
  <2> QED
    BY <2>5 DEF AnswerAlike, EnclavesAgree
<1>2. ASSUME ask.about # "message" PROVE EnclavesAgree
  BY <1>2 DEF EnclavesAgree
<1>3. AskTyped => EnclavesAgree
  BY <1>1, <1>2
<1> QED
  BY <1>3, AskKept, PTL
-----------------------------------------------------------------------------
(* What is prepared can be served.                                         *)

LEMMA TwoAndThree == SumOf(<<2, 3>>) = 5
<1> DEFINE S == [i \in 0..2 |-> IF i = 0 THEN 0 ELSE IF i = 1 THEN 2 ELSE 5]
<1>1. <<2, 3>> \in [1..2 -> Int]
  OBVIOUS
<1>2. IsPrefixSum(S, <<2, 3>>, 2)
  <2>1. ASSUME NEW i \in 0..2
        PROVE  S[i] = IF i = 0 THEN 0 ELSE S[i - 1] + <<2, 3>>[i]
    <3>1. i = 0 \/ i = 1 \/ i = 2
      OBVIOUS
    <3> QED
      BY <3>1
  <2> QED
    BY <2>1 DEF IsPrefixSum
<1>3. S[2] = 5
  OBVIOUS
<1> HIDE DEF S
<1>4. Total(<<2, 3>>, 2) = S[2]
  BY <1>2, TotalIsPrefixSum
<1> QED
  BY <1>1, <1>3, <1>4, FoldsAddUp

(* A policy an encrypted blob may have.                                    *)
Encrypted(policy) ==
  \/ policy.storageMode = Private /\ policy.accessPolicy \in {OwnerOnly, SelectedWallets}
  \/ policy.storageMode = Confidential /\ policy.accessPolicy = ComputeOnly

(* The enclave of the envelope's scheme reads the message like this.       *)
LEMMA SealedRead ==
  ASSUME NEW a, NEW prepared, NEW policy, NEW scheme,
         prepared.envelope = SealForFcc(a, policy, scheme)
  PROVE  LET m == MessageFor(a, prepared)
             content == m.envelope.box.content
         IN  /\ m.envelopeCommitment = m.envelope
             /\ m.envelope.scheme = scheme
             /\ m.envelope.box.key = a.fccKey
             /\ m.envelope.fileKeyCommitment = a.fileKey
             /\ content.fileKey = a.fileKey
             /\ content.heading = [ blob |-> m.blob, owner |-> m.owner,
                                    storageMode |-> policy.storageMode,
                                    accessPolicy |-> policy.accessPolicy ]
             /\ content.heading.storageMode = policy.storageMode
             /\ content.heading.accessPolicy = policy.accessPolicy
             /\ BoundToBlobAndOwner(content.heading, m)
             /\ m.device = "d" /\ m.deviceCommitment = "d"
             /\ m.ciphertext = [key |-> a.fileKey, plaintext |-> <<2, 3>>]
             /\ m.inputCommitment = m.ciphertext
             /\ m.spec = [operation |-> "json_field_sum", field |-> TRUE]
  BY DEF MessageFor, SealForFcc, Seal, Heading, BoundToBlobAndOwner

(* The device finds the file's key in a package made for it.               *)
Finds(package, fileKey) ==
  OpensDeviceKeyPackage(package, "d") /\ package.box.content.fileKey = fileKey

LEMMA PackageOpens ==
  ASSUME NEW m, m.device = "d", m.deviceCommitment = "d", NEW fileKey, fileKey # ShortKey
  PROVE  /\ Finds(WrapFileKeyForDevice(fileKey, m), fileKey)
         /\ Finds(LiveDevicePackage(fileKey, m.device, m.request, m.blob,
                                    m.deviceCommitment), fileKey)
  BY DEF Finds, OpensDeviceKeyPackage, WrapFileKeyForDevice, LiveDevicePackage, Seal

(* Sealed under a policy that an encrypted blob may have, it is answered.  *)
LEMMA SealedIsAnswered ==
  ASSUME NEW a, a.fileKey # ShortKey,
         NEW prepared, NEW scheme \in {DirectScheme, OfficialScheme},
         Encrypted(prepared.policy),
         prepared.envelope = SealForFcc(a, prepared.policy, scheme)
  PROVE  LET m == MessageFor(a, prepared)
             rewrap == IF scheme = OfficialScheme THEN LiveKeyRewrap(m, a.fccKey)
                       ELSE SimulatedKeyRewrap(m, a.fccKey)
             compute == IF scheme = OfficialScheme THEN LiveCompute(m, a.fccKey)
                        ELSE SimulatedCompute(m, a.fccKey)
         IN  IF prepared.policy.accessPolicy = ComputeOnly
             THEN compute.status = 1 /\ compute.content.computed.result = <<5>>
             ELSE rewrap.status = 1 /\ Finds(rewrap.content, a.fileKey)
<1> DEFINE m == MessageFor(a, prepared)
           content == m.envelope.box.content
           p == prepared.policy
           spec == [operation |-> "json_field_sum", field |-> TRUE]
<1>1. /\ m.envelopeCommitment = m.envelope
      /\ m.envelope.scheme = scheme
      /\ m.envelope.box.key = a.fccKey
      /\ m.envelope.fileKeyCommitment = a.fileKey
      /\ content.fileKey = a.fileKey
      /\ content.heading = [ blob |-> m.blob, owner |-> m.owner,
                             storageMode |-> p.storageMode,
                             accessPolicy |-> p.accessPolicy ]
      /\ content.heading.storageMode = p.storageMode
      /\ content.heading.accessPolicy = p.accessPolicy
      /\ BoundToBlobAndOwner(content.heading, m)
      /\ m.device = "d" /\ m.deviceCommitment = "d"
      /\ m.ciphertext = [key |-> a.fileKey, plaintext |-> <<2, 3>>]
      /\ m.inputCommitment = m.ciphertext
      /\ m.spec = spec
  BY SealedRead
<1> HIDE DEF m, p
<1>2. Encrypted(p)
  BY DEF p
<1>3. CASE p.accessPolicy = ComputeOnly
  <2>1. p.storageMode = Confidential
    BY <1>2, <1>3 DEF Encrypted, OwnerOnly, SelectedWallets, ComputeOnly
  <2>2. /\ m.ciphertext # Unserved
        /\ m.ciphertext.plaintext = <<2, 3>>
        /\ Decrypts(m.ciphertext, a.fileKey)
    BY <1>1 DEF Unserved, Decrypts
  <2>3. Computes(<<2, 3>>, spec)
    BY DEF Computes, NotRecords, Absent, NotFinite
  <2>4. Computed(<<2, 3>>, spec).result = <<5>>
    BY TwoAndThree DEF Computed
  <2>a. <<2, 3>> \in Seq(Int)
    OBVIOUS
  <2> HIDE DEF spec
  <2>5. LiveOutcomes(<<2, 3>>, spec) = {Computed(<<2, 3>>, spec)}
    BY <2>3, <2>a, ComputeAlike
  <2> DEFINE answer == [ request |-> m.request, blob |-> m.blob,
                         computed |-> Computed(<<2, 3>>, spec) ]
  <2>6. SimulatedCompute(m, a.fccKey) = Committed(answer) \/ scheme = OfficialScheme
    BY <1>1, <1>3, <2>1, <2>2, <2>3
       DEF SimulatedCompute, OpensKeyEnvelope, ValidEnvelopePayload
  <2>7. LiveCompute(m, a.fccKey) = Committed(answer) \/ scheme = DirectScheme
    BY <1>1, <1>3, <2>1, <2>2, <2>5
       DEF LiveCompute, DecryptsWithTeeNode, ReleasesFileKey, Retrieves
  <2>8. Committed(answer).status = 1 /\ Committed(answer).content.computed.result = <<5>>
    BY <2>4 DEF Committed
  <2>9. DirectScheme # OfficialScheme
    BY DEF DirectScheme, OfficialScheme
  <2> HIDE DEF answer
  <2> QED
    BY <1>3, <2>6, <2>7, <2>8, <2>9 DEF m, p
<1>4. CASE p.accessPolicy # ComputeOnly
  <2>1. p.storageMode = Private /\ p.accessPolicy \in {OwnerOnly, SelectedWallets}
    BY <1>2, <1>4 DEF Encrypted
  <2> DEFINE simulated == WrapFileKeyForDevice(a.fileKey, m)
             live == LiveDevicePackage(a.fileKey, m.device, m.request, m.blob,
                                       m.deviceCommitment)
  <2>2. Finds(simulated, a.fileKey) /\ Finds(live, a.fileKey)
    BY <1>1, PackageOpens
  <2>3. SimulatedKeyRewrap(m, a.fccKey) = Committed(simulated) \/ scheme = OfficialScheme
    BY <1>1, <2>1 DEF SimulatedKeyRewrap, OpensKeyEnvelope, ValidEnvelopePayload
  <2>4. LiveKeyRewrap(m, a.fccKey) = Success(live) \/ scheme = DirectScheme
    BY <1>1, <2>1 DEF LiveKeyRewrap, DecryptsWithTeeNode, ReleasesFileKey, PrivatePolicies
  <2>5. /\ Committed(simulated).status = 1 /\ Committed(simulated).content = simulated
        /\ Success(live).status = 1 /\ Success(live).content = live
    BY DEF Success, Committed
  <2>6. DirectScheme # OfficialScheme
    BY DEF DirectScheme, OfficialScheme
  <2> HIDE DEF simulated, live
  <2> QED
    BY <1>4, <2>2, <2>3, <2>4, <2>5, <2>6 DEF m, p
<1> QED
  BY <1>3, <1>4

(* What the page or the library hands over, and the contract takes, can be *)
(* served under the conditions that the run's question puts together.      *)
LEMMA ServedWhenSealed ==
  ASSUME NEW a, a.fileKey # ShortKey,
         NEW prepared, NEW scheme \in {DirectScheme, OfficialScheme},
         Encrypted(prepared.policy),
         prepared.envelope = SealForFcc(a, prepared.policy, scheme),
         prepared.size \in 1..Capacity, prepared.expiresAt > a.now
  PROVE  Served(a, prepared)
<1> DEFINE m == MessageFor(a, prepared)
<1>1. prepared.envelope.scheme = scheme
  BY DEF SealForFcc
<1>2. ValidPolicy(ContractPolicy(prepared.policy))
  BY DEF Encrypted, ValidPolicy, ContractPolicy, Private, Confidential, OwnerOnly,
         SelectedWallets, ComputeOnly
<1>3. IF prepared.policy.accessPolicy = ComputeOnly
      THEN LET compute == IF scheme = OfficialScheme THEN LiveCompute(m, a.fccKey)
                          ELSE SimulatedCompute(m, a.fccKey)
           IN  compute.status = 1 /\ compute.content.computed.result = <<5>>
      ELSE LET rewrap == IF scheme = OfficialScheme THEN LiveKeyRewrap(m, a.fccKey)
                         ELSE SimulatedKeyRewrap(m, a.fccKey)
           IN  rewrap.status = 1 /\ Finds(rewrap.content, a.fileKey)
  BY SealedIsAnswered
<1> HIDE DEF m
<1> QED
  BY <1>1, <1>2, <1>3 DEF Served, Finds, m

(* What is asked of a preparation: any sizes, times, names and keys.       *)
Preparable(a) ==
  /\ a.mode.value \in Nat /\ a.access.value \in Nat
  /\ a.size \in Nat /\ a.now \in Nat /\ a.expiresAt \in Nat
  /\ a.seconds \in Int
  /\ a.fileKey # ShortKey
  /\ a.scheme \in {DirectScheme, OfficialScheme}

(* What an owner asks for, of any size and for any time, can be served     *)
(* once it is prepared and registered: by the enclave of the envelope's    *)
(* scheme, to the device that asks (sdk/src/encryption.mjs:84,             *)
(* ui/src/confidential.ts:104, fcc/src/handler.mjs:86,                     *)
(* fcc/live/handlers.ts:190).                                              *)
THEOREM PreparedServed ==
  ASSUME NEW a, Preparable(a)
  PROVE  /\ /\ a.mode.value \in 0..2 /\ a.access.value \in 0..2
            /\ PreparesEncryptedBlob(a) /\ RegistersPaidBlob(EncryptedBlob(a))
            => Served(a, EncryptedBlob(a))
         /\ PreparesConfidentialFile(a) => Served(a, ConfidentialFile(a))
<1>1. ASSUME a.mode.value \in 0..2, a.access.value \in 0..2,
             PreparesEncryptedBlob(a), RegistersPaidBlob(EncryptedBlob(a))
      PROVE  Served(a, EncryptedBlob(a))
  <2> DEFINE p == EncryptedBlob(a)
  <2>1. /\ p.policy = [storageMode |-> a.mode.value, accessPolicy |-> a.access.value]
        /\ p.size = CiphertextSize(a.size) /\ p.expiresAt = ResolvedExpiry(a)
        /\ p.envelope = SealForFcc(a, p.policy, a.scheme)
    BY DEF EncryptedBlob, NormalizedPolicy
  <2>2. Encrypted(p.policy)
    BY <1>1, <2>1 DEF PreparesEncryptedBlob, NormalizesPolicy, Encrypted, Public, Private,
                      Confidential, OwnerOnly, SelectedWallets, ComputeOnly
  <2>3. p.size \in 1..Capacity
    BY <1>1, <2>1 DEF PreparesEncryptedBlob, PreparesBlob, EncodesInput
  <2>4. p.expiresAt > a.now
    <3>1. p.expiresAt # 0
      BY <1>1 DEF RegistersPaidBlob
    <3>2. ResolvesExpiry(a)
      BY <1>1 DEF PreparesEncryptedBlob, PreparesBlob
    <3> HIDE DEF p
    <3> QED
      BY <2>1, <3>1, <3>2 DEF ResolvesExpiry, ResolvedExpiry, Preparable, Unset
  <2> HIDE DEF p
  <2>5. Served(a, p)
    BY <2>1, <2>2, <2>3, <2>4, ServedWhenSealed DEF Preparable
  <2> QED
    BY <2>5 DEF p
<1>2. ASSUME PreparesConfidentialFile(a) PROVE Served(a, ConfidentialFile(a))
  <2> DEFINE p == ConfidentialFile(a)
  <2>1. /\ p.policy = [storageMode |-> Confidential, accessPolicy |-> ComputeOnly]
        /\ p.size = CiphertextSize(a.size) /\ p.expiresAt = a.now + PageLifetime
        /\ p.envelope = SealForFcc(a, p.policy, OfficialScheme)
    BY DEF ConfidentialFile
  <2>2. Encrypted(p.policy)
    BY <2>1 DEF Encrypted
  <2>3. p.size \in 1..Capacity
    <3>1. CiphertextSize(a.size) > 0 /\ CiphertextSize(a.size) <= Capacity
      BY <1>2 DEF PreparesConfidentialFile, PreparesBytes
    <3>2. CiphertextSize(a.size) \in Nat /\ Capacity \in Nat
      BY DEF CiphertextSize, Overhead, Capacity, Preparable
    <3> HIDE DEF p
    <3> QED
      BY <2>1, <3>1, <3>2
  <2>4. p.expiresAt > a.now
    BY <2>1 DEF PageLifetime, Preparable
  <2> HIDE DEF p
  <2>5. Served(a, p)
    BY <2>1, <2>2, <2>3, <2>4, ServedWhenSealed DEF Preparable
  <2> QED
    BY <2>5 DEF p
<1> QED
  BY <1>1, <1>2

(* The questions of the run are some of these.                             *)
THEOREM PreparationsServed == MCSpec => []PreparedIsServed
<1>1. ASSUME AskTyped, ask.about = "preparation"
      PROVE  PreparedIsServed
  <2>1. /\ \A a \in QuoteAsks : a.about = "quote"
        /\ \A a \in MessageAsks : a.about = "message"
        /\ \A a \in Moving : a.about \in {"memory", "explorer"}
    <3>1. \A a \in QuoteAsks : a.about = "quote"
      BY DEF QuoteAsks
    <3>2. \A a \in MessageAsks : a.about = "message"
      BY ZenonT(30) DEF MessageAsks
    <3> QED
      BY <3>1, <3>2 DEF Moving
  <2>2. ask \in PreparationAsks
    BY <1>1, <2>1 DEF AskTyped
  <2>3. Preparable(ask)
    <3>1. /\ ask.mode \in Given /\ ask.access \in Given
          /\ ask.size \in {0, 1, Capacity - Overhead, Capacity - Overhead + 1}
          /\ ask.now = 10 /\ ask.expiresAt \in {0, 10, 15} /\ ask.seconds \in {Unset, 0, 5}
          /\ ask.fileKey = "k" /\ ask.scheme \in {DirectScheme, OfficialScheme}
      BY <2>2 DEF PreparationAsks
    <3>2. "k" # ShortKey
      BY DEF ShortKey
    <3> QED
      BY <3>1, <3>2 DEF Preparable, Given, Capacity, Overhead, Unset
  <2> QED
    BY <2>3, PreparedServed DEF PreparedIsServed
<1>2. ASSUME ask.about # "preparation" PROVE PreparedIsServed
  BY <1>2 DEF PreparedIsServed
<1>3. AskTyped => PreparedIsServed
  BY <1>1, <1>2
<1> QED
  BY <1>3, AskKept, PTL
-----------------------------------------------------------------------------
(* The explorer.  What it shows was read from the events between two       *)
(* blocks, oldest first or newest first, and the registry moves on while   *)
(* it reads.                                                               *)

OfBlob(e) == e.event \in {"BlobCreated", "BlobNamed"}

OfProvider(e) == e.event \in {"ProviderRegistered", "ProviderStatusChanged"}

(* An event says what the registry has kept since.                         *)
EventSound(e, top, records, names, nextId) ==
  /\ OfBlob(e) \/ OfProvider(e)
  /\ e.block \in 1..top
  /\ OfBlob(e) => e.blob \in Blobs /\ records[e.blob].exists
  /\ e.event = "BlobNamed" => e.name = names[e.blob] /\ e.name # NoName
  /\ OfProvider(e) => e.provider \in Nat /\ e.provider < nextId
  /\ e.event = "ProviderStatusChanged" => e.active \in BOOLEAN

(* The events come in the order of their blocks.  A blob is registered     *)
(* once and named, if at all, in the same block; a provider is registered  *)
(* once and before its status changes.                                     *)
LogSound ==
  /\ height \in Nat
  /\ \E events : log \in Seq(events)
  /\ \A b \in Blobs : ~blobs[b].exists => blobNames[b] = NoName
  /\ \A i \in DOMAIN log : EventSound(log[i], height, blobs, blobNames, nextProviderId)
  /\ \A i, j \in DOMAIN log : i < j => log[i].block <= log[j].block
  /\ \A i, j \in DOMAIN log :
       /\ log[i].event = "BlobCreated" /\ log[j].event = "BlobCreated"
          /\ log[i].blob = log[j].blob => i = j
       /\ log[i].event = "ProviderRegistered" /\ OfProvider(log[j])
          /\ log[i].provider = log[j].provider => i <= j
  /\ \A i \in DOMAIN log : log[i].event = "BlobNamed" =>
       \E j \in DOMAIN log : /\ j < i /\ log[j].event = "BlobCreated"
                             /\ log[j].blob = log[i].blob
                             /\ log[j].block = log[i].block
  /\ \A i \in DOMAIN log :
       log[i].event = "BlobCreated" /\ blobNames[log[i].blob] # NoName =>
       \E j \in DOMAIN log : /\ i < j /\ log[j].event = "BlobNamed"
                             /\ log[j].blob = log[i].blob
                             /\ log[j].block = log[i].block

(* The sequence is the events from the a-th to the h-th, or these reversed. *)
Spans(events, logs, ordered, a, h) ==
  /\ a \in Nat \ {0} /\ h \in Nat /\ h >= a - 1 /\ h <= Len(events)
  /\ Len(logs) = h - a + 1
  /\ \E items : logs \in Seq(items)
  /\ \A k \in 1..Len(logs) : logs[k] = events[IF ordered THEN a + k - 1 ELSE h + 1 - k]

(* Those mined from one block to another.                                  *)
Cut(events, a, h, from, upTo) ==
  \A i \in DOMAIN events : i \in a..h <=> events[i].block \in from..upTo

(* The pages that have been read reach back to the page-th event.          *)
PagesSound(events, page, logs, from, latest) ==
  /\ page \in Nat /\ page <= Len(events)
  /\ page = 0 => logs = <<>>
  /\ page # 0 => \E h \in 0..Len(events), upTo \in 0..latest :
       /\ Spans(events, logs, FALSE, page, h)
       /\ \A i \in DOMAIN events :
            /\ i >= page => (events[i].block <= upTo <=> i <= h)
            /\ i >= page /\ i <= h => events[i].block >= from
            /\ i < page /\ events[i].block <= latest => events[i].block <= upTo

(* What there is to learn of the registry from the events of some blocks.  *)
InBlocks(events, event, from, upTo) ==
  {i \in DOMAIN events : events[i].event = event /\ events[i].block \in from..upTo}

CreatedIn(events, from, upTo) ==
  {events[i].blob : i \in InBlocks(events, "BlobCreated", from, upTo)}

RegisteredIn(events, from, upTo) ==
  {events[i].provider : i \in InBlocks(events, "ProviderRegistered", from, upTo)}

NameOf(name) == IF name = NoName THEN Unnamed ELSE name

StatusesIn(events, p, from, upTo) ==
  {i \in InBlocks(events, "ProviderStatusChanged", from, upTo) : events[i].provider = p}

LastStatus(events, p, from, upTo) ==
  LET statuses == StatusesIn(events, p, from, upTo)
  IN  IF statuses = {} THEN TRUE
      ELSE events[CHOOSE i \in statuses : \A j \in statuses : j <= i].active

ProvidersSound(events, found, ordered, from, upTo) ==
  /\ DOMAIN found = RegisteredIn(events, from, upTo)
  /\ ordered => \A p \in DOMAIN found : found[p] = LastStatus(events, p, from, upTo)

FoundSound(events, names, found, ordered, from, upTo) ==
  /\ DOMAIN found.blobs = CreatedIn(events, from, upTo)
  /\ \A b \in DOMAIN found.blobs :
       ordered \/ names[b] = NoName => found.blobs[b].name = NameOf(names[b])
  /\ ProvidersSound(events, found.providers, ordered, from, upTo)

(* A blob that is shown.                                                   *)
ShownSound(records, names, shown, ordered) ==
  /\ shown.blob \in Blobs /\ records[shown.blob].exists
  /\ shown.owner = records[shown.blob].owner
  /\ shown.nameRead \/ ordered => shown.name = NameOf(names[shown.blob])

LoadSound ==
  /\ load.stage \in {"idle", "events", "fold", "read"}
  /\ load.stage # "idle" => load.from \in Nat /\ load.latest \in 0..height
  /\ load.stage = "events" =>
       /\ load = [ stage |-> "events", latest |-> load.latest, from |-> load.from,
                   logs |-> load.logs, page |-> load.page ]
       /\ PagesSound(log, load.page, load.logs, load.from, load.latest)
  /\ load.stage = "fold" =>
       /\ load.ordered \in BOOLEAN
       /\ \E a \in 1..Len(log) + 1, h \in 0..Len(log), upTo \in 0..load.latest :
            /\ Spans(log, load.logs, load.ordered, a, h)
            /\ Cut(log, a, h, load.from, upTo)
  /\ load.stage = "read" =>
       /\ load = [ stage |-> "read", latest |-> load.latest, from |-> load.from,
                   ordered |-> load.ordered, found |-> load.found,
                   indexed |-> load.indexed, unread |-> load.unread,
                   failed |-> load.failed, shown |-> load.shown ]
       /\ load.ordered \in BOOLEAN
       /\ load.indexed \in 0..load.latest
       /\ FoundSound(log, blobNames, load.found, load.ordered, load.from, load.indexed)
       /\ {shown.blob : shown \in load.shown} \cup load.failed \cup load.unread
            = DOMAIN load.found.blobs
       /\ \A shown \in load.shown : ShownSound(blobs, blobNames, shown, load.ordered)

ViewSound ==
  /\ view.stage \in {"idle", "shown"}
  /\ view.stage = "shown" =>
       /\ view.from \in Nat /\ view.ordered \in BOOLEAN
       /\ view.latest \in 0..height /\ view.indexed \in 0..view.latest
       /\ {shown.blob : shown \in view.blobs} \cup view.failed
            = CreatedIn(log, view.from, view.indexed)
       /\ \A shown \in view.blobs : ShownSound(blobs, blobNames, shown, view.ordered)
       /\ ProvidersSound(log, view.providers, view.ordered, view.from, view.indexed)
-----------------------------------------------------------------------------
(* The chain moves: events are added to those there are, and nothing they  *)
(* say changes afterwards.                                                 *)
RegistryKept ==
  /\ \A b \in Blobs : blobs[b].exists => /\ blobs'[b].exists
                                         /\ blobs'[b].owner = blobs[b].owner
                                         /\ blobNames'[b] = blobNames[b]
  /\ nextProviderId \in Nat /\ nextProviderId' \in Nat /\ nextProviderId' >= nextProviderId

LogGrows ==
  /\ height' = height + 1
  /\ \E events : log' \in Seq(events)
  /\ Len(log') >= Len(log)
  /\ \A i \in DOMAIN log : log'[i] = log[i]
  /\ \A i \in DOMAIN log' \ DOMAIN log : log'[i].block = height + 1

LEMMA LogDomain ==
  ASSUME LogSound
  PROVE  /\ DOMAIN log = 1..Len(log) /\ Len(log) \in Nat
         /\ LogGrows => DOMAIN log' = 1..Len(log') /\ Len(log') \in Nat
<1>1. PICK events : log \in Seq(events)
  BY DEF LogSound
<1>2. ASSUME LogGrows PROVE DOMAIN log' = 1..Len(log') /\ Len(log') \in Nat
  <2>1. PICK events2 : log' \in Seq(events2)
    BY <1>2 DEF LogGrows
  <2> QED
    BY <2>1
<1> QED
  BY <1>1, <1>2

(* Those of a transaction, by what the transaction is about.               *)
NewEvents ==
  LET new == DOMAIN log' \ DOMAIN log IN
  /\ \A k \in new :
       /\ EventSound(log'[k], height', blobs', blobNames', nextProviderId')
       /\ OfBlob(log'[k]) => ~blobs[log'[k].blob].exists
       /\ log'[k].event = "ProviderRegistered" => log'[k].provider >= nextProviderId
       /\ log'[k].event = "BlobNamed" =>
            \E j \in new : /\ j < k /\ log'[j].event = "BlobCreated"
                           /\ log'[j].blob = log'[k].blob
       /\ log'[k].event = "BlobCreated" /\ blobNames'[log'[k].blob] # NoName =>
            \E j \in new : /\ k < j /\ log'[j].event = "BlobNamed"
                           /\ log'[j].blob = log'[k].blob
  /\ \A k, l \in new : log'[k].event # "BlobNamed" /\ log'[l].event # "BlobNamed" => k = l

LEMMA EventsAdded ==
  ASSUME LogSound, LogGrows, RegistryKept, NewEvents,
         \A b \in Blobs : ~blobs'[b].exists => blobNames'[b] = NoName
  PROVE  LogSound'
<1> DEFINE n == Len(log)
           m == Len(log')
<1>1. /\ n \in Nat /\ m \in Nat /\ n <= m /\ height \in Nat /\ height' = height + 1
      /\ DOMAIN log = 1..n /\ DOMAIN log' = 1..m
  BY LogDomain DEF LogGrows, LogSound
<1>2. \A i \in 1..n : log'[i] = log[i]
  BY <1>1 DEF LogGrows
<1>3. \A i \in 1..n : EventSound(log[i], height, blobs, blobNames, nextProviderId)
  BY <1>1 DEF LogSound
<1>4. \A i \in 1..m : ~(i \in 1..n) => i \in DOMAIN log' \ DOMAIN log /\ i > n
  BY <1>1
<1>5. \A i \in 1..m : ~(i \in 1..n) => log'[i].block = height + 1
  BY <1>4 DEF LogGrows
<1> HIDE DEF n, m
<1>6. \A i \in 1..m : EventSound(log'[i], height', blobs', blobNames', nextProviderId')
  <2> SUFFICES ASSUME NEW i \in 1..m
               PROVE  EventSound(log'[i], height', blobs', blobNames', nextProviderId')
    OBVIOUS
  <2>1. CASE i \in 1..n
    <3>1. EventSound(log'[i], height, blobs, blobNames, nextProviderId)
      BY <1>2, <1>3, <2>1
    <3> QED
      BY <1>1, <3>1 DEF EventSound, RegistryKept, OfBlob
  <2> QED
    BY <1>4, <2>1 DEF NewEvents
<1>7. \A i, j \in 1..m : i < j => log'[i].block <= log'[j].block
  <2> SUFFICES ASSUME NEW i \in 1..m, NEW j \in 1..m, i < j
               PROVE  log'[i].block <= log'[j].block
    OBVIOUS
  <2>1. log'[i].block \in 1..height' /\ log'[j].block \in 1..height'
    BY <1>6 DEF EventSound
  <2>2. CASE j \in 1..n
    <3>1. i \in 1..n
      BY <1>1, <2>2
    <3> QED
      BY <1>1, <1>2, <2>2, <3>1 DEF LogSound
  <2>3. CASE ~(j \in 1..n)
    BY <1>1, <1>5, <2>1, <2>3
  <2> QED
    BY <2>2, <2>3
<1>8. ASSUME NEW i \in 1..m, NEW j \in 1..m, OfBlob(log'[i]), OfBlob(log'[j]),
             log'[i].blob = log'[j].blob
      PROVE  i \in 1..n <=> j \in 1..n
  <2>1. \A k \in 1..m : OfBlob(log'[k]) => (k \in 1..n <=> blobs[log'[k].blob].exists)
    BY <1>2, <1>3, <1>4 DEF EventSound, NewEvents
  <2> QED
    BY <1>8, <2>1
<1>9. ASSUME NEW i \in 1..m, NEW j \in 1..m,
             log'[i].event = "BlobCreated", log'[j].event = "BlobCreated",
             log'[i].blob = log'[j].blob
      PROVE  i = j
  <2>1. i \in 1..n <=> j \in 1..n
    BY <1>8, <1>9 DEF OfBlob
  <2>2. CASE i \in 1..n
    BY <1>1, <1>2, <1>9, <2>1, <2>2 DEF LogSound
  <2>3. CASE ~(i \in 1..n)
    BY <1>4, <1>9, <2>1, <2>3 DEF NewEvents
  <2> QED
    BY <2>2, <2>3
<1>10. ASSUME NEW i \in 1..m, NEW j \in 1..m,
              log'[i].event = "ProviderRegistered", OfProvider(log'[j]),
              log'[i].provider = log'[j].provider
       PROVE  i <= j
  <2>1. CASE i \in 1..n /\ j \in 1..n
    BY <1>1, <1>2, <1>10, <2>1 DEF LogSound
  <2>2. CASE i \in 1..n /\ ~(j \in 1..n)
    BY <1>1, <1>4, <2>2
  <2>3. CASE ~(i \in 1..n) /\ j \in 1..n
    <3>1. log'[i].provider >= nextProviderId
      BY <1>4, <1>10, <2>3 DEF NewEvents
    <3>2. log'[j].provider \in Nat /\ log'[j].provider < nextProviderId
      BY <1>2, <1>3, <1>10, <2>3 DEF EventSound
    <3> QED
      BY <1>10, <3>1, <3>2 DEF RegistryKept
  <2>4. CASE ~(i \in 1..n) /\ ~(j \in 1..n)
    <3>1. i = j
      BY <1>4, <1>10, <2>4 DEF NewEvents, OfProvider
    <3> QED
      BY <3>1
  <2> QED
    BY <2>1, <2>2, <2>3, <2>4
<1>11. ASSUME NEW i \in 1..m, log'[i].event = "BlobNamed"
       PROVE  \E j \in 1..m : /\ j < i /\ log'[j].event = "BlobCreated"
                              /\ log'[j].blob = log'[i].blob
                              /\ log'[j].block = log'[i].block
  <2>1. CASE i \in 1..n
    <3>1. PICK j \in 1..n : /\ j < i /\ log[j].event = "BlobCreated"
                            /\ log[j].blob = log[i].blob /\ log[j].block = log[i].block
      BY <1>1, <1>2, <1>11, <2>1 DEF LogSound
    <3> QED
      BY <1>1, <1>2, <2>1, <3>1
  <2>2. CASE ~(i \in 1..n)
    <3>1. PICK j \in DOMAIN log' \ DOMAIN log :
            /\ j < i /\ log'[j].event = "BlobCreated" /\ log'[j].blob = log'[i].blob
      BY <1>4, <1>11, <2>2 DEF NewEvents
    <3> QED
      BY <1>1, <1>5, <2>2, <3>1
  <2> QED
    BY <2>1, <2>2
<1>12. ASSUME NEW i \in 1..m, log'[i].event = "BlobCreated",
              blobNames'[log'[i].blob] # NoName
       PROVE  \E j \in 1..m : /\ i < j /\ log'[j].event = "BlobNamed"
                              /\ log'[j].blob = log'[i].blob
                              /\ log'[j].block = log'[i].block
  <2>1. CASE i \in 1..n
    <3>1. log[i].event = "BlobCreated" /\ blobNames[log[i].blob] # NoName
      BY <1>2, <1>3, <1>12, <2>1 DEF EventSound, OfBlob, RegistryKept
    <3>2. PICK j \in 1..n : /\ i < j /\ log[j].event = "BlobNamed"
                            /\ log[j].blob = log[i].blob /\ log[j].block = log[i].block
      BY <1>1, <2>1, <3>1 DEF LogSound
    <3> QED
      BY <1>1, <1>2, <2>1, <3>2
  <2>2. CASE ~(i \in 1..n)
    <3>1. PICK j \in DOMAIN log' \ DOMAIN log :
            /\ i < j /\ log'[j].event = "BlobNamed" /\ log'[j].blob = log'[i].blob
      BY <1>4, <1>12, <2>2 DEF NewEvents
    <3> QED
      BY <1>1, <1>5, <2>2, <3>1
  <2> QED
    BY <2>1, <2>2
<1>13. height' \in Nat /\ \E events : log' \in Seq(events)
  BY <1>1 DEF LogGrows
<1>14. \A i \in DOMAIN log' :
         EventSound(log'[i], height', blobs', blobNames', nextProviderId')
  BY <1>1, <1>6
<1>15. \A i, j \in DOMAIN log' : i < j => log'[i].block <= log'[j].block
  BY <1>1, <1>7
<1>16. \A i, j \in DOMAIN log' :
         /\ log'[i].event = "BlobCreated" /\ log'[j].event = "BlobCreated"
            /\ log'[i].blob = log'[j].blob => i = j
         /\ log'[i].event = "ProviderRegistered" /\ OfProvider(log'[j])
            /\ log'[i].provider = log'[j].provider => i <= j
  BY <1>1, <1>9, <1>10
<1>17. \A i \in DOMAIN log' : log'[i].event = "BlobNamed" =>
         \E j \in DOMAIN log' : /\ j < i /\ log'[j].event = "BlobCreated"
                                /\ log'[j].blob = log'[i].blob
                                /\ log'[j].block = log'[i].block
  BY <1>1, <1>11
<1>18. \A i \in DOMAIN log' :
         log'[i].event = "BlobCreated" /\ blobNames'[log'[i].blob] # NoName =>
         \E j \in DOMAIN log' : /\ i < j /\ log'[j].event = "BlobNamed"
                                /\ log'[j].blob = log'[i].blob
                                /\ log'[j].block = log'[i].block
  BY <1>1, <1>12
<1> QED
  BY <1>13, <1>14, <1>15, <1>16, <1>17, <1>18, Zenon DEF LogSound, OfProvider
-----------------------------------------------------------------------------
(* One transaction.                                                        *)
LEMMA Mined ==
  ASSUME LogSound, NEW T, NEW events \in Seq(T), Mines(events),
         \A k \in 1..Len(events) : events[k].block = height + 1
  PROVE  /\ LogGrows /\ load' = load /\ view' = view
         /\ DOMAIN log' \ DOMAIN log = {Len(log) + k : k \in 1..Len(events)}
         /\ \A k \in 1..Len(events) : log'[Len(log) + k] = events[k]
<1>1. PICK S : log \in Seq(S)
  BY DEF LogSound
<1>2. /\ height' = height + 1 /\ log' = log \o events /\ load' = load /\ view' = view
  BY DEF Mines
<1>3. log \in Seq(S \cup T) /\ events \in Seq(S \cup T)
  BY <1>1
<1>4. /\ log' \in Seq(S \cup T) /\ Len(log') = Len(log) + Len(events)
      /\ Len(log) \in Nat /\ Len(events) \in Nat
  BY <1>2, <1>3
<1>5. \A i \in 1..Len(log) + Len(events) :
        log'[i] = IF i <= Len(log) THEN log[i] ELSE events[i - Len(log)]
  BY <1>2, <1>3
<1>6. /\ DOMAIN log = 1..Len(log) /\ DOMAIN log' = 1..Len(log')
  BY <1>1, <1>4
<1> DEFINE n == Len(log)
           m == Len(events)
<1>7. n \in Nat /\ m \in Nat /\ Len(log') = n + m
  BY <1>4
<1> HIDE DEF n, m
<1>8. \A k \in 1..m : n + k \in 1..(n + m) /\ ~(n + k <= n) /\ (n + k) - n = k
  BY <1>7
<1>9. \A k \in 1..m : log'[n + k] = events[k]
  BY <1>5, <1>8 DEF n, m
<1>10. (1..(n + m)) \ (1..n) = {n + k : k \in 1..m}
  <2>1. ASSUME NEW i \in (1..(n + m)) \ (1..n) PROVE i \in {n + k : k \in 1..m}
    <3>1. i - n \in 1..m /\ i = n + (i - n)
      BY <1>7, <2>1
    <3> QED
      BY <3>1
  <2>2. ASSUME NEW k \in 1..m PROVE n + k \in (1..(n + m)) \ (1..n)
    BY <1>7, <2>2
  <2> QED
    BY <2>1, <2>2
<1>11. DOMAIN log' \ DOMAIN log = {n + k : k \in 1..m}
  BY <1>6, <1>7, <1>10 DEF n
<1>12. \A i \in 1..n : log'[i] = log[i]
  BY <1>5, <1>7 DEF n, m
<1>13. \A i \in DOMAIN log' \ DOMAIN log : log'[i].block = height + 1
  BY <1>9, <1>11 DEF m
<1>14. Len(log') >= Len(log)
  BY <1>7 DEF n
<1>15. LogGrows
  BY <1>2, <1>4, <1>6, <1>12, <1>13, <1>14 DEF LogGrows, n
<1> QED
  BY <1>2, <1>9, <1>11, <1>15 DEF n, m

LEMMA ProvidersMove ==
  ASSUME IInv, LogSound, NEW sender \in Operators, NEW e,
         Mines(<<e>>), e.block = height + 1, OfProvider(e),
         \/ RegisterProvider(sender) /\ e.provider = nextProviderId
            /\ e.event = "ProviderRegistered"
         \/ /\ e.event = "ProviderStatusChanged" /\ e.active \in BOOLEAN
            /\ e.provider \in ProviderIds
            /\ SetProviderStatus(sender, e.provider, e.active)
  PROVE  LogGrows /\ RegistryKept /\ LogSound'
<1>1. /\ nextProviderId \in 1..(MaxProviders + 1) /\ MaxProviders \in Nat
      /\ sender # NoAccount
  BY AccountsAssumption, BoundsAssumption DEF IInv, Typed
<1>2. /\ UNCHANGED <<blobs, blobNames>> /\ nextProviderId' \in Nat
      /\ nextProviderId' >= nextProviderId
      /\ e.provider \in Nat /\ e.provider < nextProviderId'
      /\ e.event = "ProviderRegistered" => e.provider = nextProviderId
  <2>1. CASE RegisterProvider(sender) /\ e.provider = nextProviderId
    BY <1>1, <2>1 DEF RegisterProvider, nameVars
  <2>2. CASE /\ e.event = "ProviderStatusChanged" /\ e.provider \in ProviderIds
             /\ SetProviderStatus(sender, e.provider, e.active)
    <3>1. e.provider < nextProviderId
      BY <1>1, <2>2 DEF SetProviderStatus, IInv, ProvidersKnown, UnregisteredProvider,
                       ProviderIds
    <3> QED
      BY <1>1, <2>2, <3>1 DEF SetProviderStatus, nameVars, ProviderIds
  <2> QED
    BY <2>1, <2>2
<1>3. RegistryKept
  BY <1>1, <1>2 DEF RegistryKept
<1>4. /\ <<e>> \in Seq({e}) /\ Len(<<e>>) = 1 /\ <<e>>[1] = e
  OBVIOUS
<1>5. /\ LogGrows
      /\ DOMAIN log' \ DOMAIN log = {Len(log) + k : k \in 1..1}
      /\ \A k \in 1..1 : log'[Len(log) + k] = e
  <2>1. \A k \in 1..Len(<<e>>) : <<e>>[k].block = height + 1
    BY <1>4
  <2>2. /\ LogGrows
        /\ DOMAIN log' \ DOMAIN log = {Len(log) + k : k \in 1..Len(<<e>>)}
        /\ \A k \in 1..Len(<<e>>) : log'[Len(log) + k] = <<e>>[k]
    BY <1>4, <2>1, Mined
  <2> QED
    BY <1>4, <2>2
<1>6. DOMAIN log' \ DOMAIN log = {Len(log) + 1} /\ log'[Len(log) + 1] = e
  BY <1>5
<1>7. EventSound(e, height', blobs', blobNames', nextProviderId')
  <2>1. height \in Nat /\ height' = height + 1
    BY <1>5 DEF LogSound, LogGrows
  <2> QED
    BY <1>2, <2>1 DEF EventSound, OfBlob, OfProvider
<1>8. NewEvents
  <2>1. nextProviderId >= nextProviderId
    BY <1>1
  <2> QED
    BY <1>2, <1>6, <1>7, <2>1 DEF NewEvents, OfProvider, OfBlob
<1>9. \A b \in Blobs : ~blobs'[b].exists => blobNames'[b] = NoName
  BY <1>2 DEF LogSound
<1> QED
  BY <1>3, <1>5, <1>8, <1>9, EventsAdded

LEMMA BlobsMove ==
  ASSUME IInv, LogSound, NEW sender \in Accounts, NEW b \in Blobs, NEW name \in NameChoices,
         CreateBlob(sender, b, name, 1, NoExpiry),
         NEW created, created.event = "BlobCreated", created.block = height + 1,
         created.blob = b,
         NEW named, named.event = "BlobNamed", named.block = height + 1,
         named.blob = b, named.name = name,
         Mines(IF name = NoName THEN <<created>> ELSE <<created, named>>)
  PROVE  LogGrows /\ RegistryKept /\ LogSound'
<1> DEFINE events == IF name = NoName THEN <<created>> ELSE <<created, named>>
<1>1. /\ nextProviderId \in Nat /\ blobs \in [Blobs -> BlobRecords]
      /\ blobNames \in [Blobs -> NameChoices]
  BY BoundsAssumption DEF IInv, Typed
<1>2. /\ ~blobs[b].exists /\ blobs'[b].exists /\ nextProviderId' = nextProviderId
      /\ \A c \in Blobs \ {b} : blobs'[c] = blobs[c] /\ blobNames'[c] = blobNames[c]
  BY <1>1 DEF CreateBlob, CreateBlobRecord, MayCreateRecord, nameVars, providerVars
<1>3. blobNames'[b] = name
  <2>1. blobNames[b] = NoName
    BY <1>2 DEF LogSound
  <2> QED
    BY <1>1, <2>1, NamesAssumption
       DEF CreateBlob, CreateBlobRecord, nameVars, NameChoices
<1>4. RegistryKept
  BY <1>1, <1>2 DEF RegistryKept
<1>5. /\ events \in Seq({created, named})
      /\ Len(events) = IF name = NoName THEN 1 ELSE 2
      /\ events[1] = created /\ (name # NoName => events[2] = named)
  OBVIOUS
<1> HIDE DEF events
<1>6. \A k \in 1..Len(events) : events[k].block = height + 1
  <2>1. \A k \in 1..Len(events) : k = 1 \/ (k = 2 /\ name # NoName)
    <3>1. CASE name = NoName
      BY <1>5, <3>1
    <3>2. CASE name # NoName
      BY <1>5, <3>2
    <3> QED
      BY <3>1, <3>2
  <2> QED
    BY <1>5, <2>1
<1>7. /\ LogGrows
      /\ DOMAIN log' \ DOMAIN log = {Len(log) + k : k \in 1..Len(events)}
      /\ \A k \in 1..Len(events) : log'[Len(log) + k] = events[k]
  <2>1. Mines(events)
    BY DEF events
  <2> QED
    BY <1>5, <1>6, <2>1, Mined
<1> DEFINE n == Len(log)
<1>8. n \in Nat
  BY LogDomain
<1>9. /\ n + 1 \in DOMAIN log' \ DOMAIN log /\ log'[n + 1] = created
      /\ name # NoName => n + 2 \in DOMAIN log' \ DOMAIN log /\ log'[n + 2] = named
      /\ \A k \in DOMAIN log' \ DOMAIN log : k = n + 1 \/ (k = n + 2 /\ name # NoName)
  <2>1. CASE name = NoName
    <3>1. DOMAIN log' \ DOMAIN log = {n + 1} /\ log'[n + 1] = created
      BY <1>5, <1>7, <2>1
    <3> QED
      BY <2>1, <3>1
  <2>2. CASE name # NoName
    <3>1. /\ \A k \in 1..2 : log'[n + k] = events[k]
          /\ DOMAIN log' \ DOMAIN log = {n + k : k \in 1..2}
      BY <1>5, <1>7, <2>2
    <3>2. /\ DOMAIN log' \ DOMAIN log = {n + 1, n + 2}
          /\ log'[n + 1] = created /\ log'[n + 2] = named
      BY <1>5, <2>2, <3>1
    <3> QED
      BY <2>2, <3>2
  <2> QED
    BY <2>1, <2>2
<1> HIDE DEF n
<1>10. n + 1 < n + 2
  BY <1>8
<1>11. /\ EventSound(created, height', blobs', blobNames', nextProviderId')
       /\ name # NoName => EventSound(named, height', blobs', blobNames', nextProviderId')
  <2>1. height \in Nat /\ height' = height + 1
    BY <1>7 DEF LogSound, LogGrows
  <2> QED
    BY <1>2, <1>3, <2>1 DEF EventSound, OfBlob, OfProvider
<1>12. NewEvents
  <2> DEFINE new == DOMAIN log' \ DOMAIN log
  <2>1. ASSUME NEW k \in new
        PROVE /\ EventSound(log'[k], height', blobs', blobNames', nextProviderId')
              /\ OfBlob(log'[k]) => ~blobs[log'[k].blob].exists
              /\ log'[k].event = "ProviderRegistered" => log'[k].provider >= nextProviderId
              /\ log'[k].event = "BlobNamed" =>
                   \E j \in new : /\ j < k /\ log'[j].event = "BlobCreated"
                                  /\ log'[j].blob = log'[k].blob
              /\ log'[k].event = "BlobCreated" /\ blobNames'[log'[k].blob] # NoName =>
                   \E j \in new : /\ k < j /\ log'[j].event = "BlobNamed"
                                  /\ log'[j].blob = log'[k].blob
    <3>1. CASE k = n + 1
      BY <1>2, <1>3, <1>9, <1>10, <1>11, <3>1
    <3>2. CASE k = n + 2 /\ name # NoName
      BY <1>2, <1>9, <1>10, <1>11, <3>2
    <3> QED
      BY <1>9, <2>1, <3>1, <3>2
  <2>2. ASSUME NEW k \in new, NEW l \in new,
               log'[k].event # "BlobNamed", log'[l].event # "BlobNamed"
        PROVE  k = l
    BY <1>9, <2>2
  <2> QED
    BY <2>1, <2>2 DEF NewEvents
<1>13. \A c \in Blobs : ~blobs'[c].exists => blobNames'[c] = NoName
  BY <1>2 DEF LogSound
<1> QED
  BY <1>4, <1>7, <1>12, <1>13, EventsAdded
-----------------------------------------------------------------------------
(* What was read stays true: it is about blocks that are in the log.       *)
LEMMA ChainMovesOn ==
  ASSUME IInv, LogSound, ChainMoves
  PROVE  /\ LogGrows /\ RegistryKept /\ LogSound' /\ [Next]_vars
         /\ load' = load /\ view' = view
<1>1. ASSUME NEW sender \in Operators, RegisterProvider(sender),
             Mines(<<[ event |-> "ProviderRegistered", block |-> height + 1,
                       provider |-> nextProviderId ]>>)
      PROVE  LogGrows /\ RegistryKept /\ LogSound' /\ Next
  <2> DEFINE e == [ event |-> "ProviderRegistered", block |-> height + 1,
                    provider |-> nextProviderId ]
  <2>1. /\ e.block = height + 1 /\ OfProvider(e) /\ e.event = "ProviderRegistered"
        /\ e.provider = nextProviderId /\ Mines(<<e>>)
    BY <1>1 DEF OfProvider
  <2> HIDE DEF e
  <2> QED
    BY <1>1, <2>1, ProvidersMove DEF Next, ProviderNext
<1>2. ASSUME NEW sender \in Operators, NEW p \in ProviderIds, NEW active \in BOOLEAN,
             SetProviderStatus(sender, p, active),
             Mines(<<[ event |-> "ProviderStatusChanged", block |-> height + 1,
                       provider |-> p, active |-> active ]>>)
      PROVE  LogGrows /\ RegistryKept /\ LogSound' /\ Next
  <2> DEFINE e == [ event |-> "ProviderStatusChanged", block |-> height + 1,
                    provider |-> p, active |-> active ]
  <2>1. /\ e.block = height + 1 /\ OfProvider(e) /\ e.event = "ProviderStatusChanged"
        /\ e.provider = p /\ e.active = active /\ Mines(<<e>>)
    BY <1>2 DEF OfProvider
  <2> HIDE DEF e
  <2> QED
    BY <1>2, <2>1, ProvidersMove DEF Next, ProviderNext
<1>3. ASSUME NEW sender \in Accounts, NEW b \in Blobs, NEW name \in NameChoices,
             NEW created, NEW named,
             created = [ event |-> "BlobCreated", block |-> height + 1, blob |-> b,
                         owner |-> sender ],
             named = [ event |-> "BlobNamed", block |-> height + 1, blob |-> b,
                       owner |-> sender, name |-> name ],
             CreateBlob(sender, b, name, 1, NoExpiry),
             Mines(IF name = NoName THEN <<created>> ELSE <<created, named>>)
      PROVE  LogGrows /\ RegistryKept /\ LogSound' /\ Next
  <2>1. /\ created.event = "BlobCreated" /\ created.block = height + 1 /\ created.blob = b
        /\ named.event = "BlobNamed" /\ named.block = height + 1 /\ named.blob = b
        /\ named.name = name
    BY <1>3
  <2>2. LogGrows /\ RegistryKept /\ LogSound'
    BY <1>3, <2>1, BlobsMove
  <2>3. 1 \in ShardCounts /\ NoExpiry \in Expiries
    BY BoundsAssumption DEF ShardCounts, Expiries
  <2>4. Next
    BY <1>3, <2>3 DEF Next, RegistrationNext
  <2> QED
    BY <2>2, <2>4
<1>4. load' = load /\ view' = view
  BY DEF ChainMoves, Mines
<1>5. LogGrows /\ RegistryKept /\ LogSound' /\ Next
  BY <1>1, <1>2, <1>3 DEF ChainMoves
<1> QED
  BY <1>4, <1>5

LEMMA SameBlocks ==
  ASSUME LogSound, LogGrows, NEW from \in Nat, NEW upTo \in 0..height
  PROVE  /\ \A event : InBlocks(log', event, from, upTo) = InBlocks(log, event, from, upTo)
         /\ CreatedIn(log', from, upTo) = CreatedIn(log, from, upTo)
         /\ RegisteredIn(log', from, upTo) = RegisteredIn(log, from, upTo)
         /\ \A p : LastStatus(log', p, from, upTo) = LastStatus(log, p, from, upTo)
<1>1. /\ height \in Nat /\ DOMAIN log = 1..Len(log) /\ DOMAIN log' = 1..Len(log')
      /\ Len(log) \in Nat /\ Len(log') \in Nat /\ Len(log') >= Len(log)
  BY LogDomain DEF LogSound, LogGrows
<1>2. \A i \in DOMAIN log : i \in DOMAIN log' /\ log'[i] = log[i]
  BY <1>1 DEF LogGrows
<1>3. \A i \in DOMAIN log' : ~(i \in DOMAIN log) => ~(log'[i].block \in from..upTo)
  BY <1>1 DEF LogGrows
<1>4. \A event : InBlocks(log', event, from, upTo) = InBlocks(log, event, from, upTo)
  BY <1>2, <1>3 DEF InBlocks
<1>5. \A event : \A i \in InBlocks(log, event, from, upTo) : log'[i] = log[i]
  BY <1>2 DEF InBlocks
<1>6. /\ CreatedIn(log', from, upTo) = CreatedIn(log, from, upTo)
      /\ RegisteredIn(log', from, upTo) = RegisteredIn(log, from, upTo)
  BY <1>4, <1>5 DEF CreatedIn, RegisteredIn
<1>7. ASSUME NEW p
      PROVE  LastStatus(log', p, from, upTo) = LastStatus(log, p, from, upTo)
  <2> DEFINE S == StatusesIn(log, p, from, upTo)
             last == CHOOSE i \in S : \A j \in S : j <= i
  <2>1. StatusesIn(log', p, from, upTo) = S
    BY <1>4, <1>5 DEF StatusesIn
  <2>2. CASE S = {}
    BY <2>1, <2>2 DEF LastStatus
  <2>3. CASE S # {}
    <3>1. last \in S
      <4> DEFINE T == {Len(log) - i : i \in S}
      <4>1. S \subseteq 1..Len(log)
        BY <1>1 DEF StatusesIn, InBlocks
      <4> HIDE DEF S
      <4>2. T \subseteq Nat /\ T # {}
        <5>1. \E z : z \in S
          BY <2>3
        <5>2. \A i \in S : Len(log) - i \in Nat
          BY <1>1, <4>1
        <5> QED
          BY <5>1, <5>2
      <4>3. PICK m \in T : \A k \in T : m <= k
        <5> HIDE DEF T
        <5> QED
          BY <4>2, LeastNat
      <4>4. PICK i \in S : m = Len(log) - i
        BY <4>3
      <4>5. ASSUME NEW j \in S PROVE j <= i
        <5>1. Len(log) - j \in T
          BY <4>5
        <5>2. Len(log) - i <= Len(log) - j
          BY <4>3, <4>4, <5>1
        <5> QED
          BY <1>1, <4>1, <4>4, <4>5, <5>2
      <4> QED
        BY <4>5
    <3>2. log'[last] = log[last]
      BY <1>5, <3>1 DEF StatusesIn
    <3> HIDE DEF last
    <3>3. LastStatus(log, p, from, upTo) = log[last].active
      BY <2>3 DEF LastStatus, last
    <3>4. LastStatus(log', p, from, upTo) = log'[last].active
      BY <2>1, <2>3 DEF LastStatus, last
    <3> QED
      BY <3>2, <3>3, <3>4
  <2> QED
    BY <2>2, <2>3
<1> QED
  BY <1>4, <1>6, <1>7
-----------------------------------------------------------------------------
LEMMA KnownStaysKnown ==
  ASSUME LogSound, LogGrows, RegistryKept,
         NEW from \in Nat, NEW upTo \in 0..height, NEW ordered \in BOOLEAN
  PROVE  /\ \A seen : ProvidersSound(log, seen, ordered, from, upTo)
              => ProvidersSound(log', seen, ordered, from, upTo)
         /\ \A found : FoundSound(log, blobNames, found, ordered, from, upTo)
              => FoundSound(log', blobNames', found, ordered, from, upTo)
         /\ \A shown : ShownSound(blobs, blobNames, shown, ordered)
              => ShownSound(blobs', blobNames', shown, ordered)
<1>1. /\ CreatedIn(log', from, upTo) = CreatedIn(log, from, upTo)
      /\ RegisteredIn(log', from, upTo) = RegisteredIn(log, from, upTo)
      /\ \A p : LastStatus(log', p, from, upTo) = LastStatus(log, p, from, upTo)
  BY SameBlocks
<1>2. \A b \in CreatedIn(log, from, upTo) : b \in Blobs /\ blobs[b].exists
  <2>1. \A i \in DOMAIN log : log[i].event = "BlobCreated" =>
          log[i].blob \in Blobs /\ blobs[log[i].blob].exists
    BY DEF LogSound, EventSound, OfBlob
  <2> QED
    BY <2>1 DEF CreatedIn, InBlocks
<1>3. ASSUME NEW seen, ProvidersSound(log, seen, ordered, from, upTo)
      PROVE  ProvidersSound(log', seen, ordered, from, upTo)
  BY <1>1, <1>3 DEF ProvidersSound
<1>4. ASSUME NEW found, FoundSound(log, blobNames, found, ordered, from, upTo)
      PROVE  FoundSound(log', blobNames', found, ordered, from, upTo)
  <2>1. \A b \in DOMAIN found.blobs : blobNames'[b] = blobNames[b]
    BY <1>2, <1>4 DEF FoundSound, RegistryKept
  <2> QED
    BY <1>1, <1>3, <1>4, <2>1 DEF FoundSound
<1>5. ASSUME NEW shown, ShownSound(blobs, blobNames, shown, ordered)
      PROVE  ShownSound(blobs', blobNames', shown, ordered)
  BY <1>5 DEF ShownSound, RegistryKept
<1> QED
  BY <1>3, <1>4, <1>5

LEMMA LoadStaysSound ==
  ASSUME LogSound, LogGrows, RegistryKept, LogSound', LoadSound, load' = load
  PROVE  LoadSound'
<1>1. /\ height \in Nat /\ height' = height + 1
      /\ DOMAIN log = 1..Len(log) /\ DOMAIN log' = 1..Len(log')
      /\ Len(log) \in Nat /\ Len(log') \in Nat /\ Len(log') >= Len(log)
      /\ \A i \in 1..Len(log) : log'[i] = log[i]
      /\ \A i \in 1..Len(log') : i > Len(log) => log'[i].block = height + 1
  BY LogDomain DEF LogSound, LogGrows
<1>2. \A i \in 1..Len(log) : log[i].block \in 1..height
  BY <1>1 DEF LogSound, EventSound
<1>3. \A ordered \in BOOLEAN : \A logs, a, h :
        Spans(log, logs, ordered, a, h) => Spans(log', logs, ordered, a, h)
  <2> SUFFICES ASSUME NEW ordered \in BOOLEAN, NEW logs, NEW a, NEW h,
                      Spans(log, logs, ordered, a, h)
               PROVE  Spans(log', logs, ordered, a, h)
    OBVIOUS
  <2>1. /\ a \in Nat \ {0} /\ h \in Nat /\ h >= a - 1 /\ h <= Len(log)
        /\ Len(logs) = h - a + 1
        /\ \A k \in 1..Len(logs) : logs[k] = log[IF ordered THEN a + k - 1 ELSE h + 1 - k]
    BY DEF Spans
  <2>2. \A k \in 1..Len(logs) : (IF ordered THEN a + k - 1 ELSE h + 1 - k) \in 1..Len(log)
    BY <1>1, <2>1
  <2>3. \A k \in 1..Len(logs) : logs[k] = log'[IF ordered THEN a + k - 1 ELSE h + 1 - k]
    BY <1>1, <2>1, <2>2
  <2>4. \E items : logs \in Seq(items)
    BY DEF Spans
  <2> QED
    BY <1>1, <2>1, <2>3, <2>4 DEF Spans
<1>4. ASSUME load.stage = "events"
      PROVE  PagesSound(log', load.page, load.logs, load.from, load.latest)
  <2> DEFINE page == load.page
             from == load.from
             latest == load.latest
  <2>1. PagesSound(log, page, load.logs, from, latest) /\ from \in Nat /\ latest \in 0..height
    BY <1>4 DEF LoadSound
  <2>2. page \in Nat /\ page <= Len(log) /\ (page = 0 => load.logs = <<>>)
    BY <2>1 DEF PagesSound
  <2>3. ASSUME page # 0
        PROVE \E h \in 0..Len(log'), upTo \in 0..latest :
                /\ Spans(log', load.logs, FALSE, page, h)
                /\ \A i \in DOMAIN log' :
                     /\ i >= page => (log'[i].block <= upTo <=> i <= h)
                     /\ i >= page /\ i <= h => log'[i].block >= from
                     /\ i < page /\ log'[i].block <= latest => log'[i].block <= upTo
    <3>1. PICK h \in 0..Len(log), upTo \in 0..latest :
            /\ Spans(log, load.logs, FALSE, page, h)
            /\ \A i \in DOMAIN log :
                 /\ i >= page => (log[i].block <= upTo <=> i <= h)
                 /\ i >= page /\ i <= h => log[i].block >= from
                 /\ i < page /\ log[i].block <= latest => log[i].block <= upTo
      BY <2>1, <2>3 DEF PagesSound
    <3> HIDE DEF page, from, latest
    <3>4. ASSUME NEW i \in 1..Len(log')
          PROVE  /\ i >= page => (log'[i].block <= upTo <=> i <= h)
                 /\ i >= page /\ i <= h => log'[i].block >= from
                 /\ i < page /\ log'[i].block <= latest => log'[i].block <= upTo
      <4>1. CASE i <= Len(log)
        <5>1. i \in DOMAIN log /\ log'[i] = log[i]
          BY <1>1, <4>1
        <5> QED
          BY <3>1, <5>1
      <4>2. CASE i > Len(log)
        <5>1. log'[i].block = height + 1
          BY <1>1, <4>2
        <5>2. ~(height + 1 <= upTo) /\ ~(height + 1 <= latest) /\ ~(i <= h)
          BY <1>1, <2>1, <3>1, <4>2
        <5> QED
          BY <5>1, <5>2
      <4> QED
        BY <1>1, <4>1, <4>2
    <3>5. h \in 0..Len(log') /\ Spans(log', load.logs, FALSE, page, h)
      <4>1. Spans(log, load.logs, FALSE, page, h)
        BY <3>1
      <4>2. Spans(log', load.logs, FALSE, page, h)
        BY <1>3, <4>1, Zenon
      <4>3. h \in 0..Len(log')
        BY <1>1, <3>1
      <4> QED
        BY <4>2, <4>3
    <3> QED
      BY <1>1, <3>4, <3>5
  <2>4. page <= Len(log')
    BY <1>1, <2>2
  <2> QED
    BY <2>2, <2>3, <2>4 DEF PagesSound
<1>5. ASSUME load.stage = "fold"
      PROVE  \E a \in 1..Len(log') + 1, h \in 0..Len(log'), upTo \in 0..load.latest :
               /\ Spans(log', load.logs, load.ordered, a, h)
               /\ Cut(log', a, h, load.from, upTo)
  <2>1. PICK a \in 1..Len(log) + 1, h \in 0..Len(log), upTo \in 0..load.latest :
               /\ Spans(log, load.logs, load.ordered, a, h)
               /\ Cut(log, a, h, load.from, upTo)
    BY <1>5 DEF LoadSound
  <2>2. load.from \in Nat /\ load.latest \in 0..height /\ load.ordered \in BOOLEAN
    BY <1>5 DEF LoadSound
  <2>3. ASSUME NEW i \in 1..Len(log')
        PROVE  i \in a..h <=> log'[i].block \in load.from..upTo
    <3>1. CASE i <= Len(log)
      BY <1>1, <2>1, <2>3, <3>1 DEF Cut
    <3>2. CASE i > Len(log)
      <4>1. log'[i].block = height + 1
        BY <1>1, <3>2
      <4>2. ~(height + 1 <= upTo) /\ ~(i <= h)
        BY <1>1, <2>1, <2>2, <3>2
      <4> QED
        BY <4>1, <4>2
    <3> QED
      BY <1>1, <3>1, <3>2
  <2>4. Cut(log', a, h, load.from, upTo)
    BY <1>1, <2>3 DEF Cut
  <2>5. a \in 1..Len(log') + 1 /\ h \in 0..Len(log')
    BY <1>1
  <2> QED
    BY <1>3, <2>1, <2>2, <2>4, <2>5
<1>6. ASSUME load.stage = "read"
      PROVE  /\ FoundSound(log', blobNames', load.found, load.ordered, load.from, load.indexed)
             /\ \A shown \in load.shown : ShownSound(blobs', blobNames', shown, load.ordered)
  <2>1. /\ load.ordered \in BOOLEAN /\ load.from \in Nat /\ load.indexed \in 0..height
        /\ FoundSound(log, blobNames, load.found, load.ordered, load.from, load.indexed)
        /\ \A shown \in load.shown : ShownSound(blobs, blobNames, shown, load.ordered)
    BY <1>1, <1>6 DEF LoadSound
  <2> QED
    BY <2>1, KnownStaysKnown
<1>7. load.stage # "idle" => load.from \in Nat /\ load.latest \in 0..height'
  BY <1>1 DEF LoadSound
<1>8. load' = load
  OBVIOUS
<1>9. /\ load.stage \in {"idle", "events", "fold", "read"}
      /\ load.stage = "fold" => load.ordered \in BOOLEAN
      /\ load.stage = "read" =>
           /\ load.ordered \in BOOLEAN /\ load.indexed \in 0..load.latest
           /\ {shown.blob : shown \in load.shown} \cup load.failed \cup load.unread
                = DOMAIN load.found.blobs
  BY DEF LoadSound
<1> QED
  BY <1>4, <1>5, <1>6, <1>7, <1>8, <1>9 DEF LoadSound

LEMMA ViewStaysSound ==
  ASSUME LogSound, LogGrows, RegistryKept, ViewSound, view' = view
  PROVE  ViewSound'
<1>1. height \in Nat /\ height' = height + 1
  BY DEF LogSound, LogGrows
<1>2. ASSUME view.stage = "shown"
      PROVE  /\ {shown.blob : shown \in view.blobs} \cup view.failed
                  = CreatedIn(log', view.from, view.indexed)
             /\ \A shown \in view.blobs : ShownSound(blobs', blobNames', shown, view.ordered)
             /\ ProvidersSound(log', view.providers, view.ordered, view.from, view.indexed)
             /\ view.latest \in 0..height'
  <2>1. /\ view.ordered \in BOOLEAN /\ view.from \in Nat /\ view.indexed \in 0..height
        /\ \A shown \in view.blobs : ShownSound(blobs, blobNames, shown, view.ordered)
        /\ ProvidersSound(log, view.providers, view.ordered, view.from, view.indexed)
        /\ {shown.blob : shown \in view.blobs} \cup view.failed
             = CreatedIn(log, view.from, view.indexed)
    BY <1>1, <1>2 DEF ViewSound
  <2>2. view.latest \in 0..height'
    BY <1>1, <1>2 DEF ViewSound
  <2> QED
    BY <2>1, <2>2, KnownStaysKnown, SameBlocks
<1> QED
  BY <1>1, <1>2 DEF ViewSound
-----------------------------------------------------------------------------
(* Where a stretch of the log begins and ends: the older events make up    *)
(* its front, the newer ones its rear.                                     *)
LEMMA FrontIsInterval ==
  ASSUME NEW a \in Nat, NEW b \in Nat, b >= a - 1, NEW S \in SUBSET (a..b),
         \A i \in S, j \in a..b : j < i => j \in S
  PROVE  /\ Cardinality(S) \in Nat /\ a + Cardinality(S) <= b + 1
         /\ \A i \in a..b : i \in S <=> i < a + Cardinality(S)
<1>1. CASE S = {}
  <2>1. Cardinality(S) = 0
    BY <1>1, FS_EmptySet
  <2> QED
    BY <1>1, <2>1
<1>2. CASE S # {}
  <2> DEFINE T == {b - i : i \in S}
  <2>1. T \subseteq Nat /\ T # {}
    <3>1. \E z : z \in S
      BY <1>2
    <3>2. \A i \in S : b - i \in Nat
      OBVIOUS
    <3> QED
      BY <3>1, <3>2
  <2>2. PICK m \in T : \A k \in T : m <= k
    <3> HIDE DEF T
    <3> QED
      BY <2>1, LeastNat
  <2>3. PICK i \in S : m = b - i
    BY <2>2
  <2>4. ASSUME NEW j \in S PROVE j <= i
    <3>1. b - j \in T
      BY <2>4
    <3>2. b - i <= b - j
      BY <2>2, <2>3, <3>1
    <3> QED
      BY <2>3, <2>4, <3>2
  <2>5. i \in a..b /\ S = a..i
    <3>1. i \in a..b /\ S \subseteq a..b
      BY <2>3
    <3>2. \A j \in S : j \in a..i
      BY <2>4, <3>1
    <3>3. \A j \in a..i : j \in a..b /\ (j = i \/ j < i)
      BY <3>1
    <3>4. \A j \in a..i : j \in S
      BY <3>1, <3>3
    <3>5. S = a..i
      BY <3>2, <3>4
    <3> QED
      BY <3>1, <3>5
  <2>6. Cardinality(a..i) = i - a + 1
    <3>1. a \in Int /\ i \in Int /\ ~(a > i)
      BY <2>5
    <3> QED
      BY <3>1, FS_Interval
  <2> QED
    BY <2>5, <2>6
<1> QED
  BY <1>1, <1>2

LEMMA RearIsInterval ==
  ASSUME NEW a \in Nat, NEW b \in Nat, b >= a - 1, NEW S \in SUBSET (a..b),
         \A i \in S, j \in a..b : i < j => j \in S
  PROVE  /\ Cardinality(S) \in Nat /\ b - Cardinality(S) >= a - 1
         /\ \A i \in a..b : i \in S <=> i > b - Cardinality(S)
<1>1. CASE S = {}
  <2>1. Cardinality(S) = 0
    BY <1>1, FS_EmptySet
  <2> QED
    BY <1>1, <2>1
<1>2. CASE S # {}
  <2>1. S \subseteq Nat
    OBVIOUS
  <2>2. PICK i \in S : \A k \in S : i <= k
    BY <1>2, <2>1, LeastNat
  <2>3. i \in a..b /\ S = i..b
    <3>1. i \in a..b /\ S \subseteq a..b
      OBVIOUS
    <3>2. \A j \in S : j \in i..b
      BY <2>2, <3>1
    <3>3. \A j \in i..b : j \in a..b /\ (j = i \/ i < j)
      BY <3>1
    <3>4. \A j \in i..b : j \in S
      BY <3>1, <3>3
    <3>5. S = i..b
      BY <3>2, <3>4
    <3> QED
      BY <3>1, <3>5
  <2>4. Cardinality(i..b) = b - i + 1
    <3>1. i \in Int /\ b \in Int /\ ~(i > b)
      BY <2>3
    <3> QED
      BY <3>1, FS_Interval
  <2> QED
    BY <2>3, <2>4
<1> QED
  BY <1>1, <1>2

LEMMA TableIsSeq ==
  ASSUME NEW S, NEW n \in Nat, NEW f \in [1..n -> S]
  PROVE  f \in Seq(S) /\ Len(f) = n
OBVIOUS

LEMMA Stretch ==
  ASSUME NEW S, log \in Seq(S), NEW a \in Nat \ {0}, NEW h \in Nat, h <= Len(log), h >= a - 1
  PROVE  /\ Spans(log, SubSeq(log, a, h), TRUE, a, h)
         /\ Spans(log, Logs!Reverse(SubSeq(log, a, h)), FALSE, a, h)
<1> DEFINE s == SubSeq(log, a, h)
           r == Logs!Reverse(s)
<1>1. /\ s \in Seq(S) /\ Len(s) = h - a + 1 /\ Len(s) \in Nat
      /\ \A k \in 1..(h - a + 1) : s[k] = log[a + k - 1]
  OBVIOUS
<1> HIDE DEF s
<1>2. /\ r = [i \in 1..Len(s) |-> s[(Len(s) - i) + 1]]
      /\ \A i \in 1..Len(s) : (Len(s) - i) + 1 \in 1..Len(s)
  BY <1>1 DEF Logs!Reverse
<1>3. r \in [1..Len(s) -> S]
  BY <1>1, <1>2
<1>4. r \in Seq(S) /\ Len(r) = Len(s)
  BY <1>1, <1>3, TableIsSeq
<1> HIDE DEF r
<1>5. \A k \in 1..Len(r) : r[k] = log[h + 1 - k]
  <2> SUFFICES ASSUME NEW k \in 1..Len(r) PROVE r[k] = log[h + 1 - k]
    OBVIOUS
  <2>1. r[k] = s[(Len(s) - k) + 1] /\ (Len(s) - k) + 1 \in 1..Len(s)
    BY <1>2, <1>4
  <2>2. a + ((Len(s) - k) + 1) - 1 = h + 1 - k
    BY <1>1, <1>4
  <2> QED
    BY <1>1, <2>1, <2>2
<1>6. Spans(log, s, TRUE, a, h)
  BY <1>1 DEF Spans
<1>7. Spans(log, r, FALSE, a, h)
  BY <1>1, <1>4, <1>5 DEF Spans
<1> QED
  BY <1>6, <1>7 DEF r, s

LEMMA NothingLeft ==
  ASSUME NEW S, log \in Seq(S), NEW a \in Nat \ {0}, NEW h \in Nat, h < a - 1
  PROVE  Logs!Reverse(SubSeq(log, a, h)) = <<>>
<1> DEFINE s == SubSeq(log, a, h)
<1>1. Len(s) = 0
  OBVIOUS
<1> HIDE DEF s
<1>2. Logs!Reverse(s) = <<>>
  BY <1>1 DEF Logs!Reverse
<1> QED
  BY <1>2 DEF s

(* A page continues the ones before it.                                    *)
LEMMA PageContinues ==
  ASSUME NEW logs, NEW kept, NEW a, NEW page, NEW h,
         Spans(log, logs, FALSE, page, h), Spans(log, kept, FALSE, a, page - 1)
  PROVE  Spans(log, logs \o kept, FALSE, a, h)
<1>1. PICK S : logs \in Seq(S)
  BY DEF Spans
<1>2. PICK T : kept \in Seq(T)
  BY DEF Spans
<1>3. logs \in Seq(S \cup T) /\ kept \in Seq(S \cup T)
  BY <1>1, <1>2
<1> DEFINE all == logs \o kept
<1>4. /\ all \in Seq(S \cup T) /\ Len(all) = Len(logs) + Len(kept)
      /\ \A k \in 1..Len(logs) + Len(kept) :
           all[k] = IF k <= Len(logs) THEN logs[k] ELSE kept[k - Len(logs)]
  BY <1>3
<1>5. /\ a \in Nat \ {0} /\ page \in Nat \ {0} /\ h \in Nat /\ page - 1 >= a - 1
      /\ h >= page - 1 /\ h <= Len(log)
      /\ Len(logs) = h - page + 1 /\ Len(kept) = (page - 1) - a + 1
      /\ \A k \in 1..Len(logs) : logs[k] = log[h + 1 - k]
      /\ \A k \in 1..Len(kept) : kept[k] = log[(page - 1) + 1 - k]
  BY DEF Spans
<1> HIDE DEF all
<1>6. Len(all) = h - a + 1 /\ h >= a - 1
  BY <1>4, <1>5
<1>7. ASSUME NEW k \in 1..Len(all) PROVE all[k] = log[h + 1 - k]
  <2>1. CASE k <= Len(logs)
    BY <1>4, <1>5, <1>6, <2>1
  <2>2. CASE k > Len(logs)
    <3>1. k - Len(logs) \in 1..Len(kept) /\ (page - 1) + 1 - (k - Len(logs)) = h + 1 - k
      BY <1>5, <1>6, <2>2
    <3>2. all[k] = kept[k - Len(logs)]
      BY <1>4, <1>5, <1>6, <2>2
    <3> QED
      BY <1>5, <3>1, <3>2
  <2> QED
    BY <1>5, <1>6, <2>1, <2>2
<1>8. Spans(log, all, FALSE, a, h)
  BY <1>4, <1>5, <1>6, <1>7 DEF Spans
<1> QED
  BY <1>8 DEF all
-----------------------------------------------------------------------------
(* What a page reads, the events after `last' having been read before.     *)
OlderThan(events, from, first, last) == {i \in first..last : TooOld(events[i].block, from)}

NewerThan(events, latest, first, last) == {i \in first..last : events[i].block > latest}

KeptOf(events, from, latest, first, last) ==
  SubSeq(events, first + Cardinality(OlderThan(events, from, first, last)),
         last - Cardinality(NewerThan(events, latest, first, last)))

LEMMA LogOrder ==
  ASSUME LogSound
  PROVE  /\ Len(log) \in Nat /\ DOMAIN log = 1..Len(log) /\ height \in Nat
         /\ \A i \in 1..Len(log) : log[i].block \in 1..height
         /\ \A i, j \in 1..Len(log) : i <= j => log[i].block <= log[j].block
<1>1. Len(log) \in Nat /\ DOMAIN log = 1..Len(log) /\ height \in Nat
  BY LogDomain DEF LogSound
<1>2. \A i \in 1..Len(log) : log[i].block \in 1..height
  BY <1>1 DEF LogSound, EventSound
<1>3. ASSUME NEW i \in 1..Len(log), NEW j \in 1..Len(log), i <= j
      PROVE  log[i].block <= log[j].block
  <2>1. CASE i = j
    BY <1>2, <2>1
  <2>2. CASE i < j
    BY <1>1, <2>2 DEF LogSound
  <2> QED
    BY <1>1, <1>3, <2>1, <2>2
<1> QED
  BY <1>1, <1>2, <1>3

(* The stretch of a page that is neither too old nor too new.              *)
LEMMA FrontOf ==
  ASSUME LogSound, NEW from \in Nat, NEW first \in Nat, NEW last \in 0..Len(log),
         first >= 1, first <= last + 1
  PROVE  /\ Cardinality(OlderThan(log, from, first, last)) \in Nat
         /\ first + Cardinality(OlderThan(log, from, first, last)) <= last + 1
         /\ \A i \in first..last :
              log[i].block < from <=> i < first + Cardinality(OlderThan(log, from, first, last))
<1> DEFINE older == OlderThan(log, from, first, last)
<1>1. /\ Len(log) \in Nat /\ \A i \in first..last : i \in 1..Len(log)
      /\ \A i \in first..last : log[i].block \in Nat
      /\ \A i, j \in first..last : i <= j => log[i].block <= log[j].block
  BY LogOrder
<1>2. /\ older \in SUBSET (first..last)
      /\ \A i \in first..last : i \in older <=> log[i].block < from
  BY DEF OlderThan, TooOld
<1> HIDE DEF older
<1>3. \A i \in older, j \in first..last : j < i => j \in older
  BY <1>1, <1>2
<1>4. last \in Nat /\ last >= first - 1
  BY <1>1
<1>5. /\ Cardinality(older) \in Nat /\ first + Cardinality(older) <= last + 1
      /\ \A i \in first..last : i \in older <=> i < first + Cardinality(older)
  BY <1>2, <1>3, <1>4, FrontIsInterval
<1> QED
  BY <1>2, <1>5 DEF older

LEMMA RearOf ==
  ASSUME LogSound, NEW latest \in Nat, NEW first \in Nat, NEW last \in 0..Len(log),
         first >= 1, first <= last + 1
  PROVE  /\ Cardinality(NewerThan(log, latest, first, last)) \in Nat
         /\ last - Cardinality(NewerThan(log, latest, first, last)) >= first - 1
         /\ \A i \in first..last :
              log[i].block > latest <=> i > last - Cardinality(NewerThan(log, latest, first, last))
<1> DEFINE newer == NewerThan(log, latest, first, last)
<1>1. /\ Len(log) \in Nat /\ \A i \in first..last : i \in 1..Len(log)
      /\ \A i \in first..last : log[i].block \in Nat
      /\ \A i, j \in first..last : i <= j => log[i].block <= log[j].block
  BY LogOrder
<1>2. /\ newer \in SUBSET (first..last)
      /\ \A i \in first..last : i \in newer <=> log[i].block > latest
  BY DEF NewerThan
<1> HIDE DEF newer
<1>3. \A i \in newer, j \in first..last : i < j => j \in newer
  BY <1>1, <1>2
<1>4. last \in Nat /\ last >= first - 1
  BY <1>1
<1>5. /\ Cardinality(newer) \in Nat /\ last - Cardinality(newer) >= first - 1
      /\ \A i \in first..last : i \in newer <=> i > last - Cardinality(newer)
  BY <1>2, <1>3, <1>4, RearIsInterval
<1> QED
  BY <1>2, <1>5 DEF newer

LEMMA PageReads ==
  ASSUME LogSound, NEW from \in Nat, NEW latest \in Nat, NEW first \in Nat \ {0},
         NEW last \in 0..Len(log), first <= last + 1, NEW upTo \in 0..latest,
         NEW logs, NEW h0 \in 0..Len(log), Spans(log, logs, FALSE, last + 1, h0),
         \A i \in DOMAIN log :
           /\ i > last => (log[i].block <= upTo <=> i <= h0)
           /\ i > last /\ i <= h0 => log[i].block >= from
           /\ i <= last /\ log[i].block <= latest => log[i].block <= upTo,
         NEW all, all = logs \o Logs!Reverse(KeptOf(log, from, latest, first, last))
  PROVE  /\ first = 1 \/ OlderThan(log, from, first, last) # {} =>
              \E a \in 1..Len(log) + 1, h \in 0..Len(log) :
                 Spans(log, all, FALSE, a, h) /\ Cut(log, a, h, from, upTo)
         /\ ~(first = 1 \/ OlderThan(log, from, first, last) # {}) /\ first <= last =>
              PagesSound(log, first, all, from, latest)
<1> DEFINE n == Len(log)
           older == OlderThan(log, from, first, last)
           a == first + Cardinality(older)
           h1 == last - Cardinality(NewerThan(log, latest, first, last))
<1>0. /\ first \in Nat /\ first >= 1 /\ last \in 0..Len(log) /\ first <= last + 1
      /\ from \in Nat /\ latest \in Nat
  OBVIOUS
<1>14. /\ Cardinality(older) \in Nat /\ a <= last + 1
       /\ \A i \in first..last : log[i].block < from <=> i < a
  BY <1>0, FrontOf
<1>15. /\ Cardinality(NewerThan(log, latest, first, last)) \in Nat /\ h1 >= first - 1
       /\ \A i \in first..last : log[i].block > latest <=> i > h1
  BY <1>0, RearOf
<1>16. Len(log) \in Nat
  BY LogOrder
<1>18. ASSUME NEW i \in first..last
       PROVE  log[i].block > latest <=> log[i].block > upTo
  <2>1. i \in DOMAIN log /\ i <= last /\ log[i].block \in Nat
    BY <1>0, <1>16, LogOrder
  <2>2. log[i].block <= latest => log[i].block <= upTo
    BY <2>1
  <2> QED
    BY <1>0, <2>1, <2>2
<1>1. /\ a = first + Cardinality(older)
      /\ h1 = last - Cardinality(NewerThan(log, latest, first, last))
      /\ a \in Nat /\ a >= 1 /\ h1 \in Nat
      /\ a >= first /\ a <= last + 1 /\ h1 <= last /\ h1 >= first - 1
      /\ \A i \in first..last : /\ log[i].block < from <=> i < a
                                /\ log[i].block > upTo <=> i > h1
  BY <1>0, <1>14, <1>15, <1>16, <1>18, SMTT(20)
<1>17. a \in Nat \ {0} /\ h1 \in Nat
  BY <1>1
<1> HIDE DEF a, h1
<1> DEFINE kept == Logs!Reverse(SubSeq(log, a, h1))
<1>2. all = logs \o kept
  BY <1>1 DEF KeptOf, older
<1>3. /\ n \in Nat /\ DOMAIN log = 1..n /\ last \in 0..n /\ h0 \in 0..n
      /\ \A i \in 1..n : log[i].block \in Nat
      /\ \A i, j \in 1..n : i <= j => log[i].block <= log[j].block
      /\ \A i \in 1..n : /\ i > last => (log[i].block <= upTo <=> i <= h0)
                         /\ i > last /\ i <= h0 => log[i].block >= from
  <2>1. /\ Len(log) \in Nat /\ DOMAIN log = 1..Len(log) /\ height \in Nat
        /\ \A i \in 1..Len(log) : log[i].block \in 1..height
        /\ \A i, j \in 1..Len(log) : i <= j => log[i].block <= log[j].block
    BY LogOrder, Zenon
  <2>2. \A i \in 1..n : log[i].block \in Nat
    BY <2>1
  <2>3. \A i \in 1..n : /\ i > last => (log[i].block <= upTo <=> i <= h0)
                        /\ i > last /\ i <= h0 => log[i].block >= from
    BY <2>1, Zenon
  <2> QED
    BY <2>1, <2>2, <2>3, Zenon
<1>4. PICK S : log \in Seq(S)
  BY DEF LogSound
<1>5. h0 >= last /\ Len(logs) = h0 - last
  BY DEF Spans
<1>6. older = {} => a = first
  BY <1>1, FS_EmptySet
<1>7. ASSUME NEW i \in first..last PROVE i \in 1..n
  BY <1>3
<1>8. older \subseteq first..last
  BY DEF OlderThan
<1> HIDE DEF older
<1>9. a - 1 \in Nat /\ a - 1 <= n /\ a \in 1..n + 1
  BY <1>1, <1>3
(* Where it ends.                                                          *)
<1>10. \E h \in 0..n : /\ Spans(log, all, FALSE, a, h)
                       /\ \A i \in 1..n : i >= a => (log[i].block <= upTo <=> i <= h)
  <2>1. CASE h0 > last
    <3>1. last + 1 \in 1..n /\ log[last + 1].block <= upTo
      BY <1>3, <2>1
    <3>2. \A i \in first..last : log[i].block <= upTo
      BY <1>3, <1>7, <3>1
    <3>3. h1 = last
      <4> SUFFICES ASSUME h1 < last PROVE FALSE
        BY <1>1, <1>3, SMTT(20)
      <4>1. last \in first..last /\ last > h1
        BY <1>1, <1>3
      <4>2. log[last].block > upTo
        BY <1>1, <4>1
      <4> QED
        BY <1>3, <1>7, <3>2, <4>1, <4>2
    <3>4. h1 <= Len(log) /\ h1 >= a - 1
      BY <1>1, <1>3, <3>3
    <3>5. Spans(log, kept, FALSE, a, h1)
      BY <1>1, <1>4, <1>17, <3>4, Stretch
    <3>6. (last + 1) - 1 = last
      BY <1>3
    <3>7. Spans(log, logs \o kept, FALSE, a, h0)
      <4>1. Spans(log, kept, FALSE, a, (last + 1) - 1)
        BY <3>3, <3>5, <3>6
      <4> HIDE DEF kept
      <4> QED
        BY <4>1, PageContinues
    <3>8. ASSUME NEW i \in 1..n, i >= a PROVE log[i].block <= upTo <=> i <= h0
      <4>1. CASE i > last
        BY <1>3, <4>1
      <4>2. CASE i <= last
        BY <1>1, <1>3, <2>1, <3>2, <3>8, <4>2
      <4> QED
        BY <1>3, <4>1, <4>2
    <3> QED
      BY <1>2, <1>3, <3>7, <3>8
  <2>2. CASE h0 = last
    <3>1. logs = <<>>
      <4>1. PICK T : logs \in Seq(T)
        BY DEF Spans
      <4>2. Len(logs) = 0
        BY <1>3, <1>5, <2>2
      <4> QED
        BY <4>1, <4>2
    <3>2. CASE h1 >= a - 1
      <4>1. h1 <= Len(log)
        BY <1>1, <1>3
      <4>2. Spans(log, kept, FALSE, a, h1)
        BY <1>1, <1>4, <1>17, <3>2, <4>1, Stretch
      <4>3. all = kept
        <5>1. PICK T : kept \in Seq(T)
          BY <4>2 DEF Spans
        <5> HIDE DEF kept
        <5> QED
          BY <1>2, <3>1, <5>1
      <4>4. ASSUME NEW i \in 1..n, i >= a PROVE log[i].block <= upTo <=> i <= h1
        <5>1. CASE i > last
          BY <1>1, <1>3, <2>2, <5>1
        <5>2. CASE i <= last
          <6>1. i \in first..last
            BY <1>1, <4>4, <5>2
          <6> QED
            BY <1>1, <1>3, <6>1
        <5> QED
          BY <1>3, <5>1, <5>2
      <4>5. h1 \in 0..n
        BY <1>1, <4>1
      <4> QED
        BY <4>2, <4>3, <4>4, <4>5
    <3>3. CASE h1 < a - 1
      <4>1. kept = <<>>
        BY <1>1, <1>4, <3>3, NothingLeft
      <4>2. all = <<>>
        BY <1>2, <3>1, <4>1
      <4>3. Spans(log, <<>>, FALSE, a, a - 1)
        <5>1. /\ <<>> \in Seq({}) /\ Len(<<>>) = 0 /\ (a - 1) - a + 1 = 0
              /\ a - 1 >= a - 1
          BY <1>9
        <5>2. \A k \in 1..Len(<<>>) : FALSE
          BY <5>1
        <5> QED
          BY <1>1, <1>9, <5>1, <5>2 DEF Spans
      <4>4. ASSUME NEW i \in 1..n, i >= a PROVE log[i].block <= upTo <=> i <= a - 1
        <5>1. CASE i > last
          BY <1>1, <1>3, <2>2, <4>4, <5>1
        <5>2. CASE i <= last
          <6>1. i \in first..last /\ i > h1
            BY <1>1, <3>3, <4>4, <5>2
          <6> QED
            BY <1>1, <1>3, <4>4, <6>1
        <5> QED
          BY <1>3, <5>1, <5>2
      <4>5. a - 1 \in 0..n
        BY <1>9
      <4> QED
        BY <4>2, <4>3, <4>4, <4>5
    <3>4. h1 >= a - 1 \/ h1 < a - 1
      BY <1>1
    <3> QED
      BY <3>2, <3>3, <3>4
  <2>3. h0 > last \/ h0 = last
    BY <1>3, <1>5
  <2> QED
    BY <2>1, <2>2, <2>3
<1>11. \A i \in 1..n : i >= first /\ log[i].block <= upTo =>
                      (log[i].block >= from <=> i >= a)
  <2> SUFFICES ASSUME NEW i \in 1..n, i >= first, log[i].block <= upTo
               PROVE  log[i].block >= from <=> i >= a
    OBVIOUS
  <2>1. CASE i > last
    BY <1>1, <1>3, <2>1
  <2>2. CASE i <= last
    <3>1. i \in first..last
      BY <1>3, <2>2
    <3> QED
      BY <1>1, <1>3, <3>1
  <2> QED
    BY <1>3, <2>1, <2>2
(* The last page.                                                          *)
<1>12. ASSUME first = 1 \/ older # {}
       PROVE  \E x \in 1..Len(log) + 1, h \in 0..Len(log) :
                 Spans(log, all, FALSE, x, h) /\ Cut(log, x, h, from, upTo)
  <2>1. \A i \in 1..n : log[i].block <= upTo => (log[i].block >= from <=> i >= a)
    <3> SUFFICES ASSUME NEW i \in 1..n, log[i].block <= upTo
                 PROVE  log[i].block >= from <=> i >= a
      OBVIOUS
    <3>0. CASE i >= first
      BY <1>11, <3>0
    <3> SUFFICES ASSUME i < first
                 PROVE  log[i].block < from /\ i < a
      BY <1>1, <1>3, <3>0
    <3>1. PICK j \in older : TRUE
      BY <1>12
    <3>2. j \in first..last /\ j \in 1..n /\ log[j].block < from
      <4>1. j \in first..last /\ j \in 1..n
        BY <1>7, <1>8, <3>1
      <4>2. j \in OlderThan(log, from, first, last)
        BY <3>1 DEF older
      <4>3. log[j].block < from
        BY <4>2 DEF OlderThan, TooOld
      <4> QED
        BY <4>1, <4>3
    <3>3. log[i].block <= log[j].block
      BY <1>3, <3>2
    <3>4. i < a
      BY <1>1, <1>3
    <3> QED
      BY <1>3, <3>2, <3>3, <3>4
  <2>2. PICK h \in 0..n : /\ Spans(log, all, FALSE, a, h)
                          /\ \A i \in 1..n : i >= a => (log[i].block <= upTo <=> i <= h)
    BY <1>10
  <2>3. Cut(log, a, h, from, upTo)
    <3> SUFFICES ASSUME NEW i \in 1..n
                 PROVE  i \in a..h <=> log[i].block \in from..upTo
      BY <1>3 DEF Cut
    <3>1. log[i].block \in Nat
      BY <1>3
    <3>2. i \in a..h <=> i >= a /\ i <= h
      BY <1>1
    <3>3. log[i].block \in from..upTo <=> log[i].block >= from /\ log[i].block <= upTo
      BY <3>1
    <3> QED
      BY <2>1, <2>2, <3>2, <3>3
  <2> QED
    BY <1>9, <2>2, <2>3
(* Any other.                                                              *)
<1>13. ASSUME ~(first = 1 \/ older # {}), first <= last
       PROVE  PagesSound(log, first, all, from, latest)
  <2>1. a = first
    BY <1>6, <1>13
  <2>2. PICK h \in 0..n : /\ Spans(log, all, FALSE, first, h)
                          /\ \A i \in 1..n : i >= first =>
                               (log[i].block <= upTo <=> i <= h)
    BY <1>10, <2>1
  <2>3. \A i \in 1..n : i >= first /\ i <= h => log[i].block >= from
    BY <1>11, <2>1, <2>2
  <2>4. first \in Nat /\ first <= Len(log) /\ first # 0
    BY <1>3, <1>13
  <2>5. \A i \in 1..n : i < first /\ log[i].block <= latest => log[i].block <= upTo
    <3>1. \A i \in 1..n : i < first => i <= last
      BY <1>1, <1>3, <1>13
    <3> QED
      BY <1>3, <3>1
  <2>6. \A i \in DOMAIN log :
          /\ i >= first => (log[i].block <= upTo <=> i <= h)
          /\ i >= first /\ i <= h => log[i].block >= from
          /\ i < first /\ log[i].block <= latest => log[i].block <= upTo
    BY <1>3, <2>2, <2>3, <2>5
  <2> QED
    BY <1>3, <2>2, <2>4, <2>6 DEF PagesSound
<1> QED
  BY <1>12, <1>13 DEF older
-----------------------------------------------------------------------------
(* The steps of a load, but for what it learns.  The chain stands still.   *)
Still == UNCHANGED <<height, log, blobs, blobNames, nextProviderId>>

LEMMA LoadBegins ==
  ASSUME LogSound, Begin
  PROVE  Still /\ LoadSound' /\ view' = view
<1>1. /\ Still /\ view' = view /\ height \in Nat
      /\ load' = [ stage |-> "events", latest |-> height, from |-> FromBlock(height),
                   logs |-> <<>>, page |-> 0 ]
  BY DEF Begin, Still, vars, nameVars, providerVars, LogSound
<1>2. FromBlock(height) \in Nat
  BY <1>1, ExplorerAssumption DEF FromBlock, NoBlock
<1>3. Len(log) \in Nat
  BY LogDomain
<1>4. PagesSound(log', load'.page, load'.logs, load'.from, load'.latest)
  BY <1>1, <1>3 DEF PagesSound, Still
<1> QED
  BY <1>1, <1>2, <1>4 DEF LoadSound, Still

LEMMA LoadAnswered ==
  ASSUME LogSound, LoadSound, NEW indexed \in 0..height, Legacy(indexed)
  PROVE  Still /\ LoadSound' /\ view' = view
<1> DEFINE n == Len(log)
           from == load.from
           older == OlderThan(log, from, 1, n)
           newer == NewerThan(log, indexed, 1, n)
           a == Cardinality(older) + 1
           h == n - Cardinality(newer)
<1>1. /\ n \in Nat /\ DOMAIN log = 1..n /\ \A i \in 1..n : log[i].block \in Nat
  BY LogOrder
<1>2. /\ load.stage = "events" /\ from \in Nat /\ load.latest \in 0..height /\ height \in Nat
      /\ indexed \in from..load.latest
  BY DEF Legacy, LoadSound, LogSound
<1>3. indexed \in Nat /\ indexed \in 0..load.latest /\ indexed >= from
  BY <1>2
<1>4. /\ older = {i \in DOMAIN log : log[i].block < load.from}
      /\ newer = {i \in DOMAIN log : log[i].block > indexed}
  BY <1>1 DEF OlderThan, NewerThan, TooOld
<1>5. /\ Still /\ view' = view
      /\ load' = [ stage |-> "fold", latest |-> load.latest, from |-> from,
                   ordered |-> TRUE, logs |-> SubSeq(log, a, h) ]
  BY <1>4 DEF Legacy, Still, vars, nameVars, providerVars
<1>6. n \in 0..Len(log) /\ 1 <= n + 1 /\ 1 \in Nat /\ 1 >= 1
  BY <1>1
<1> HIDE DEF n
<1>7. /\ Cardinality(older) \in Nat /\ a <= n + 1
      /\ \A i \in 1..n : log[i].block < from <=> i < a
  <2>1. /\ Cardinality(older) \in Nat /\ 1 + Cardinality(older) <= n + 1
        /\ \A i \in 1..n : log[i].block < from <=> i < 1 + Cardinality(older)
    BY <1>2, <1>6, FrontOf
  <2> QED
    BY <2>1
<1>8. /\ Cardinality(newer) \in Nat /\ h >= 1 - 1
      /\ \A i \in 1..n : log[i].block > indexed <=> i > h
  BY <1>3, <1>6, RearOf
<1>9. a \in Nat \ {0} /\ h \in Nat /\ h <= n /\ a \in 1..n + 1 /\ h \in 0..n
  BY <1>1, <1>7, <1>8
<1> HIDE DEF a, h, from
<1>10. h >= a - 1
  <2> SUFFICES ASSUME h < a - 1 PROVE FALSE
    BY <1>9
  <2>1. a - 1 \in 1..n /\ a - 1 < a /\ a - 1 > h
    BY <1>1, <1>9
  <2>2. log[a - 1].block < from /\ log[a - 1].block > indexed /\ log[a - 1].block \in Nat
    BY <1>1, <1>7, <1>8, <2>1
  <2> QED
    BY <1>2, <1>3, <2>2
<1>11. Spans(log, SubSeq(log, a, h), TRUE, a, h)
  <2>1. PICK S : log \in Seq(S)
    BY DEF LogSound
  <2>2. h <= Len(log)
    BY <1>9 DEF n
  <2> QED
    BY <1>9, <1>10, <2>1, <2>2, Stretch
<1>12. Cut(log, a, h, from, indexed)
  <2> SUFFICES ASSUME NEW i \in 1..n
               PROVE  i \in a..h <=> log[i].block \in from..indexed
    BY <1>1 DEF Cut
  <2>1. i \in a..h <=> ~(i < a) /\ ~(i > h)
    BY <1>9
  <2>2. log[i].block \in from..indexed <=> ~(log[i].block < from) /\ ~(log[i].block > indexed)
    BY <1>1, <1>2, <1>3
  <2> QED
    BY <1>7, <1>8, <2>1, <2>2
<1>13. \E x \in 1..Len(log) + 1, y \in 0..Len(log), upTo \in 0..load'.latest :
         /\ Spans(log, load'.logs, load'.ordered, x, y)
         /\ Cut(log, x, y, load'.from, upTo)
  BY <1>3, <1>5, <1>9, <1>11, <1>12 DEF n
<1>14. LoadSound'
  BY <1>2, <1>5, <1>13 DEF LoadSound, Still, from
<1> QED
  BY <1>5, <1>14

LEMMA TurnedOver ==
  ASSUME NEW r, NEW logs, NEW page,
         r = [ stage |-> "events", latest |-> r.latest, from |-> r.from,
               logs |-> r.logs, page |-> r.page ]
  PROVE  [r EXCEPT !.logs = logs, !.page = page]
           = [ stage |-> "events", latest |-> r.latest, from |-> r.from,
               logs |-> logs, page |-> page ]
<1> DEFINE x == [r EXCEPT !.logs = logs, !.page = page]
<1>1. DOMAIN r = {"stage", "latest", "from", "logs", "page"} /\ r.stage = "events"
  OBVIOUS
<1>2. /\ DOMAIN x = {"stage", "latest", "from", "logs", "page"}
      /\ x.stage = "events" /\ x.latest = r.latest /\ x.from = r.from
      /\ x.logs = logs /\ x.page = page
  BY <1>1
<1>3. x \in [{"stage", "latest", "from", "logs", "page"} -> {x[k] : k \in DOMAIN x}]
  BY <1>2
<1> HIDE DEF x
<1>4. x = [ stage |-> "events", latest |-> r.latest, from |-> r.from,
            logs |-> logs, page |-> page ]
  BY <1>2, <1>3
<1> QED
  BY <1>4 DEF x

(* The events the service has indexed are the first ones.                  *)
LEMMA IndexedFront ==
  ASSUME LogSound, NEW indexed \in Nat
  PROVE  LET last == Cardinality({i \in DOMAIN log : log[i].block <= indexed})
         IN  last \in 0..Len(log) /\ \A i \in 1..Len(log) : log[i].block <= indexed <=> i <= last
<1> DEFINE n == Len(log)
           known == {i \in DOMAIN log : log[i].block <= indexed}
<1>1. /\ n \in Nat /\ DOMAIN log = 1..n /\ height \in Nat
      /\ \A i \in 1..n : log[i].block \in Nat
      /\ \A i, j \in 1..n : i <= j => log[i].block <= log[j].block
  BY LogOrder
<1>2. known \in SUBSET (1..n) /\ \A i \in 1..n : i \in known <=> log[i].block <= indexed
  BY <1>1
<1>3. \A i \in known, j \in 1..n : j < i => j \in known
  <2> SUFFICES ASSUME NEW i \in known, NEW j \in 1..n, j < i PROVE j \in known
    OBVIOUS
  <2>1. i \in 1..n /\ log[i].block <= indexed /\ log[j].block <= log[i].block
    BY <1>1, <1>2
  <2> QED
    BY <1>1, <1>2, <2>1
<1> HIDE DEF known
<1>4. /\ Cardinality(known) \in Nat /\ 1 + Cardinality(known) <= n + 1
      /\ \A i \in 1..n : i \in known <=> i < 1 + Cardinality(known)
  <2>1. 1 \in Nat /\ n \in Nat /\ n >= 1 - 1 /\ known \in SUBSET (1..n)
    BY <1>1, <1>2
  <2> QED
    BY <1>3, <2>1, FrontIsInterval
<1>5. Cardinality(known) \in 0..n /\ \A i \in 1..n : i \in known <=> i <= Cardinality(known)
  BY <1>1, <1>4
<1> QED
  BY <1>2, <1>5 DEF known

LEMMA LoadTurnsPage ==
  ASSUME LogSound, LoadSound, NEW indexed \in 0..height, Page(indexed)
  PROVE  Still /\ LoadSound' /\ view' = view
<1> DEFINE n == Len(log)
           last == IF load.page = 0
                   THEN Cardinality({i \in DOMAIN log : log[i].block <= indexed})
                   ELSE load.page - 1
           first == IF last > PageSize THEN last - PageSize + 1 ELSE 1
           older == OlderThan(log, load.from, first, last)
           all == load.logs \o Logs!Reverse(KeptOf(log, load.from, load.latest, first, last))
<1>1. /\ n \in Nat /\ DOMAIN log = 1..n /\ \A i \in 1..n : log[i].block \in Nat
  BY LogOrder
<1>2. /\ load.stage = "events" /\ load.from \in Nat /\ load.latest \in 0..height
      /\ height \in Nat /\ load.latest \in Nat
      /\ PagesSound(log, load.page, load.logs, load.from, load.latest)
  BY DEF Page, LoadSound, LogSound
<1>3. /\ Still /\ view' = view
      /\ load' = IF first = 1 \/ older # {}
                 THEN [ stage |-> "fold", latest |-> load.latest, from |-> load.from,
                        ordered |-> FALSE, logs |-> all ]
                 ELSE [load EXCEPT !.logs = all, !.page = first]
  BY DEF Page, Still, vars, nameVars, providerVars, KeptOf, OlderThan, NewerThan
<1> HIDE DEF all, older
(* Where it begins.                                                        *)
<1>4. /\ last \in 0..n
      /\ \E h0 \in 0..n, upTo \in 0..load.latest :
           /\ Spans(log, load.logs, FALSE, last + 1, h0)
           /\ \A i \in DOMAIN log :
                /\ i > last => (log[i].block <= upTo <=> i <= h0)
                /\ i > last /\ i <= h0 => log[i].block >= load.from
                /\ i <= last /\ log[i].block <= load.latest => log[i].block <= upTo
  <2>1. CASE load.page = 0
    <3> DEFINE upTo == IF indexed < load.latest THEN indexed ELSE load.latest
    <3>1. last = Cardinality({i \in DOMAIN log : log[i].block <= indexed}) /\ load.logs = <<>>
      BY <1>2, <2>1 DEF PagesSound
    <3>2. last \in 0..n /\ \A i \in 1..n : log[i].block <= indexed <=> i <= last
      BY <1>1, <1>2, <3>1, IndexedFront
    <3> HIDE DEF last
    <3>3. Spans(log, <<>>, FALSE, last + 1, last)
      <4>1. /\ <<>> \in Seq({}) /\ Len(<<>>) = 0 /\ last - (last + 1) + 1 = 0
            /\ last + 1 \in Nat \ {0} /\ last >= (last + 1) - 1 /\ last <= n /\ last \in Nat
            /\ \A k \in 1..0 : FALSE
        BY <1>1, <3>2
      <4> QED
        BY <4>1 DEF Spans
    <3>4. upTo \in 0..load.latest
      BY <1>2
    <3>5. ASSUME NEW i \in 1..n
          PROVE  /\ i > last => (log[i].block <= upTo <=> i <= last)
                 /\ ~(i > last /\ i <= last)
                 /\ i <= last /\ log[i].block <= load.latest => log[i].block <= upTo
      <4>1. /\ log[i].block \in Nat /\ indexed \in Nat /\ i \in Nat /\ last \in Nat
            /\ log[i].block <= indexed <=> i <= last
        BY <1>1, <1>2, <3>2
      <4> QED
        BY <1>2, <4>1
    <3> HIDE DEF upTo, n
    <3> QED
      BY <1>1, <3>1, <3>2, <3>3, <3>4, <3>5
  <2>2. CASE load.page # 0
    <3>1. /\ load.page \in Nat /\ load.page <= n /\ last = load.page - 1
      BY <1>2, <2>2 DEF PagesSound
    <3>2. last \in 0..n /\ last + 1 = load.page /\ \A i \in DOMAIN log : i > last <=> i >= load.page
      BY <1>1, <2>2, <3>1
    <3>3. PICK h0 \in 0..n, upTo \in 0..load.latest :
            /\ Spans(log, load.logs, FALSE, load.page, h0)
            /\ \A i \in DOMAIN log :
                 /\ i >= load.page => (log[i].block <= upTo <=> i <= h0)
                 /\ i >= load.page /\ i <= h0 => log[i].block >= load.from
                 /\ i < load.page /\ log[i].block <= load.latest => log[i].block <= upTo
      BY <1>2, <2>2 DEF PagesSound
    <3>4. \A i \in DOMAIN log : i <= last <=> i < load.page
      BY <1>1, <3>1
    <3> HIDE DEF last, n
    <3> QED
      BY <3>2, <3>3, <3>4
  <2> QED
    BY <2>1, <2>2
<1> HIDE DEF last
<1>5. first \in Nat \ {0} /\ first <= last + 1 /\ (first # 1 => first <= last)
  BY <1>1, <1>4, ExplorerAssumption
<1> HIDE DEF first
<1>6. /\ first = 1 \/ older # {} =>
              \E a \in 1..Len(log) + 1, h \in 0..Len(log), upTo \in 0..load.latest :
                 Spans(log, all, FALSE, a, h) /\ Cut(log, a, h, load.from, upTo)
      /\ ~(first = 1 \/ older # {}) =>
              PagesSound(log, first, all, load.from, load.latest)
  <2>1. PICK h0 \in 0..n, upTo \in 0..load.latest :
           /\ Spans(log, load.logs, FALSE, last + 1, h0)
           /\ \A i \in DOMAIN log :
                /\ i > last => (log[i].block <= upTo <=> i <= h0)
                /\ i > last /\ i <= h0 => log[i].block >= load.from
                /\ i <= last /\ log[i].block <= load.latest => log[i].block <= upTo
    BY <1>4
  <2>2. /\ first = 1 \/ older # {} =>
              \E a \in 1..Len(log) + 1, h \in 0..Len(log) :
                 Spans(log, all, FALSE, a, h) /\ Cut(log, a, h, load.from, upTo)
        /\ ~(first = 1 \/ older # {}) /\ first <= last =>
              PagesSound(log, first, all, load.from, load.latest)
    BY <1>2, <1>4, <1>5, <2>1, PageReads DEF all, older
  <2> QED
    BY <1>5, <2>2
<1>7. CASE first = 1 \/ older # {}
  <2>1. load' = [ stage |-> "fold", latest |-> load.latest, from |-> load.from,
                  ordered |-> FALSE, logs |-> all ]
    BY <1>3, <1>7
  <2>3. \E x \in 1..Len(log) + 1, y \in 0..Len(log), upTo \in 0..load'.latest :
         /\ Spans(log, load'.logs, load'.ordered, x, y)
         /\ Cut(log, x, y, load'.from, upTo)
    BY <1>6, <1>7, <2>1
  <2>4. /\ load'.stage = "fold" /\ load'.latest = load.latest /\ load'.from = load.from
        /\ load'.ordered = FALSE
    BY <2>1
  <2>5. height' = height /\ log' = log
    BY <1>3 DEF Still
  <2>6. LoadSound'
    BY <1>2, <2>3, <2>4, <2>5 DEF LoadSound
  <2> QED
    BY <1>3, <2>6
<1>8. CASE ~(first = 1 \/ older # {})
  <2>1. load' = [load EXCEPT !.logs = all, !.page = first]
    BY <1>3, <1>8
  <2>2. PagesSound(log, first, all, load.from, load.latest)
    BY <1>6, <1>8
  <2>3. load' = [ stage |-> "events", latest |-> load.latest, from |-> load.from,
                  logs |-> all, page |-> first ]
    <3>1. load = [ stage |-> "events", latest |-> load.latest, from |-> load.from,
                   logs |-> load.logs, page |-> load.page ]
      BY <1>2 DEF LoadSound
    <3> QED
      BY <2>1, <3>1, TurnedOver
  <2>4. /\ load'.stage = "events" /\ load'.latest = load.latest /\ load'.from = load.from
        /\ load'.page = first /\ load'.logs = all
        /\ load' = [ stage |-> "events", latest |-> load'.latest, from |-> load'.from,
                     logs |-> load'.logs, page |-> load'.page ]
    BY <2>3
  <2>5. height' = height /\ log' = log
    BY <1>3 DEF Still
  <2>6. LoadSound'
    BY <1>2, <2>2, <2>4, <2>5 DEF LoadSound
  <2> QED
    BY <1>3, <2>6
<1> QED
  BY <1>7, <1>8

LEMMA BlobRead ==
  ASSUME LogSound, LoadSound, NEW b \in Blobs, NEW nameRead \in BOOLEAN, ReadBlob(b, nameRead)
  PROVE  Still /\ LoadSound' /\ view' = view
<1> DEFINE meta == load.found.blobs[b]
           name == IF nameRead /\ blobNames[b] # NoName THEN blobNames[b] ELSE meta.name
           new == [blob |-> b, name |-> name, owner |-> blobs[b].owner, nameRead |-> nameRead]
<1>1. /\ load.stage = "read" /\ b \in load.unread
      /\ load.from \in Nat /\ load.latest \in 0..height
      /\ load = [ stage |-> "read", latest |-> load.latest, from |-> load.from,
                  ordered |-> load.ordered, found |-> load.found,
                  indexed |-> load.indexed, unread |-> load.unread,
                  failed |-> load.failed, shown |-> load.shown ]
      /\ load.ordered \in BOOLEAN /\ load.indexed \in 0..load.latest
      /\ FoundSound(log, blobNames, load.found, load.ordered, load.from, load.indexed)
      /\ {shown.blob : shown \in load.shown} \cup load.failed \cup load.unread
           = DOMAIN load.found.blobs
      /\ \A shown \in load.shown : ShownSound(blobs, blobNames, shown, load.ordered)
  BY DEF ReadBlob, LoadSound
<1>2. /\ Still /\ view' = view
      /\ load' = [load EXCEPT !.unread = @ \ {b}, !.shown = @ \cup {new}]
  BY DEF ReadBlob, Still, vars, nameVars, providerVars
<1>3. ShownSound(blobs, blobNames, new, load.ordered)
  <2>1. b \in CreatedIn(log, load.from, load.indexed) /\ b \in DOMAIN load.found.blobs
    BY <1>1 DEF FoundSound
  <2>2. blobs[b].exists
    <3>1. \A i \in DOMAIN log : log[i].event = "BlobCreated" => blobs[log[i].blob].exists
      BY DEF LogSound, EventSound, OfBlob
    <3> QED
      BY <2>1, <3>1 DEF CreatedIn, InBlocks
  <2>3. load.ordered \/ blobNames[b] = NoName => meta.name = NameOf(blobNames[b])
    BY <1>1, <2>1 DEF FoundSound
  <2>4. nameRead \/ load.ordered => name = NameOf(blobNames[b])
    BY <2>3 DEF NameOf
  <2> HIDE DEF name
  <2> QED
    BY <2>2, <2>4 DEF ShownSound
<1>4. new.blob = b
  OBVIOUS
<1> HIDE DEF new
<1>5. load' = [ stage |-> "read", latest |-> load.latest, from |-> load.from,
                ordered |-> load.ordered, found |-> load.found,
                indexed |-> load.indexed, unread |-> load.unread \ {b},
                failed |-> load.failed, shown |-> load.shown \cup {new} ]
  BY <1>1, <1>2
<1>6. {shown.blob : shown \in load.shown \cup {new}} \cup load.failed \cup (load.unread \ {b})
        = DOMAIN load.found.blobs
  <2>1. {shown.blob : shown \in load.shown \cup {new}}
          = {shown.blob : shown \in load.shown} \cup {b}
    BY <1>4
  <2> QED
    BY <1>1, <2>1
<1>7. /\ load'.stage = "read" /\ load'.latest = load.latest /\ load'.from = load.from
      /\ load'.ordered = load.ordered /\ load'.found = load.found
      /\ load'.indexed = load.indexed /\ load'.unread = load.unread \ {b}
      /\ load'.failed = load.failed /\ load'.shown = load.shown \cup {new}
      /\ load' = [ stage |-> "read", latest |-> load'.latest, from |-> load'.from,
                   ordered |-> load'.ordered, found |-> load'.found,
                   indexed |-> load'.indexed, unread |-> load'.unread,
                   failed |-> load'.failed, shown |-> load'.shown ]
  BY <1>5
<1>8. height' = height /\ log' = log /\ blobs' = blobs /\ blobNames' = blobNames
  BY <1>2 DEF Still
<1>10. LoadSound'
  BY <1>1, <1>3, <1>6, <1>7, <1>8 DEF LoadSound
<1> QED
  BY <1>2, <1>10

LEMMA BlobFails ==
  ASSUME LogSound, LoadSound, NEW b \in Blobs, ReadFails(b)
  PROVE  Still /\ LoadSound' /\ view' = view
<1>1. /\ load.stage = "read" /\ b \in load.unread
      /\ load.from \in Nat /\ load.latest \in 0..height
      /\ load = [ stage |-> "read", latest |-> load.latest, from |-> load.from,
                  ordered |-> load.ordered, found |-> load.found,
                  indexed |-> load.indexed, unread |-> load.unread,
                  failed |-> load.failed, shown |-> load.shown ]
      /\ load.ordered \in BOOLEAN /\ load.indexed \in 0..load.latest
      /\ FoundSound(log, blobNames, load.found, load.ordered, load.from, load.indexed)
      /\ {shown.blob : shown \in load.shown} \cup load.failed \cup load.unread
           = DOMAIN load.found.blobs
      /\ \A shown \in load.shown : ShownSound(blobs, blobNames, shown, load.ordered)
  BY DEF ReadFails, LoadSound
<1>2. /\ Still /\ view' = view
      /\ load' = [load EXCEPT !.unread = @ \ {b}, !.failed = @ \cup {b}]
  BY DEF ReadFails, Still, vars, nameVars, providerVars
<1>3. load' = [ stage |-> "read", latest |-> load.latest, from |-> load.from,
                ordered |-> load.ordered, found |-> load.found,
                indexed |-> load.indexed, unread |-> load.unread \ {b},
                failed |-> load.failed \cup {b}, shown |-> load.shown ]
  BY <1>1, <1>2
<1>4. /\ load'.stage = "read" /\ load'.latest = load.latest /\ load'.from = load.from
      /\ load'.ordered = load.ordered /\ load'.found = load.found
      /\ load'.indexed = load.indexed /\ load'.unread = load.unread \ {b}
      /\ load'.failed = load.failed \cup {b} /\ load'.shown = load.shown
      /\ load' = [ stage |-> "read", latest |-> load'.latest, from |-> load'.from,
                   ordered |-> load'.ordered, found |-> load'.found,
                   indexed |-> load'.indexed, unread |-> load'.unread,
                   failed |-> load'.failed, shown |-> load'.shown ]
  BY <1>3
<1>5. {shown.blob : shown \in load.shown} \cup (load.failed \cup {b}) \cup (load.unread \ {b})
        = DOMAIN load.found.blobs
  BY <1>1
<1>6. height' = height /\ log' = log /\ blobs' = blobs /\ blobNames' = blobNames
  BY <1>2 DEF Still
<1>8. LoadSound'
  BY <1>1, <1>4, <1>5, <1>6 DEF LoadSound
<1> QED
  BY <1>2, <1>8

LEMMA LoadShown ==
  ASSUME LogSound, LoadSound, Show
  PROVE  Still /\ LoadSound' /\ ViewSound'
<1>1. /\ load.stage = "read" /\ load.unread = {}
      /\ load.from \in Nat /\ load.latest \in 0..height
      /\ load.ordered \in BOOLEAN /\ load.indexed \in 0..load.latest
      /\ FoundSound(log, blobNames, load.found, load.ordered, load.from, load.indexed)
      /\ {shown.blob : shown \in load.shown} \cup load.failed \cup load.unread
           = DOMAIN load.found.blobs
      /\ \A shown \in load.shown : ShownSound(blobs, blobNames, shown, load.ordered)
  BY DEF Show, LoadSound
<1>2. /\ Still /\ load' = Idle
      /\ view' = [ stage |-> "shown", latest |-> load.latest, from |-> load.from,
                   indexed |-> load.indexed, ordered |-> load.ordered,
                   blobs |-> load.shown, failed |-> load.failed,
                   providers |-> load.found.providers ]
  BY DEF Show, Still, vars, nameVars, providerVars
<1>3. LoadSound'
  BY <1>2 DEF LoadSound, Idle
<1>4. /\ view'.stage = "shown" /\ view'.latest = load.latest /\ view'.from = load.from
      /\ view'.indexed = load.indexed /\ view'.ordered = load.ordered
      /\ view'.blobs = load.shown /\ view'.failed = load.failed
      /\ view'.providers = load.found.providers
  BY <1>2
<1>5. height' = height /\ log' = log /\ blobs' = blobs /\ blobNames' = blobNames
  BY <1>2 DEF Still
<1>7. {shown.blob : shown \in load.shown} \cup load.failed
        = CreatedIn(log, load.from, load.indexed)
  BY <1>1 DEF FoundSound
<1>8. ProvidersSound(log, load.found.providers, load.ordered, load.from, load.indexed)
  BY <1>1 DEF FoundSound
<1>9. ViewSound'
  BY <1>1, <1>4, <1>5, <1>7, <1>8 DEF ViewSound
<1> QED
  BY <1>2, <1>3, <1>9

LEMMA LoadGivenUp ==
  ASSUME LoadFails
  PROVE  Still /\ LoadSound' /\ view' = view
BY DEF LoadFails, LoadSound, Still, Idle, vars, nameVars, providerVars

LEMMA ViewStays ==
  ASSUME ViewSound, Still, view' = view
  PROVE  ViewSound'
BY DEF ViewSound, Still
-----------------------------------------------------------------------------
(* What a load learns.  The fold over the events is taken apart into its   *)
(* steps, one event after another.                                         *)
LEMMA MaxOf ==
  ASSUME NEW m \in Nat, NEW S, S \subseteq 0..m, S # {}
  PROVE  Logs!Max(S) \in S /\ \A y \in S : Logs!Max(S) >= y
<1> DEFINE T == {m - x : x \in S}
<1>1. T \subseteq Nat /\ T # {}
  <2>1. \E z : z \in S
    OBVIOUS
  <2>2. \A x \in S : m - x \in Nat
    OBVIOUS
  <2> QED
    BY <2>1, <2>2
<1>2. PICK k \in T : \A l \in T : k <= l
  <2> HIDE DEF T
  <2> QED
    BY <1>1, LeastNat
<1>3. PICK x \in S : k = m - x
  BY <1>2
<1>4. ASSUME NEW y \in S PROVE x >= y
  <2>1. m - y \in T /\ x \in 0..m /\ y \in 0..m
    BY <1>4
  <2>2. m - x <= m - y
    BY <1>2, <1>3, <2>1
  <2> QED
    BY <2>1, <2>2
<1> QED
  BY <1>4 DEF Logs!Max

LEMMA MaxWith ==
  ASSUME NEW m \in Nat, m # 0, NEW s \in SUBSET (1..m), m \in s
  PROVE  Logs!Max(s) = m
<1>1. s \subseteq 0..m /\ s # {}
  OBVIOUS
<1>2. Logs!Max(s) \in s /\ \A y \in s : Logs!Max(s) >= y
  BY <1>1, MaxOf
<1>3. Logs!Max(s) \in 1..m /\ Logs!Max(s) >= m
  BY <1>2
<1> QED
  BY <1>3

(* The recursion of the fold, on the sets of the first k places.           *)
Folds(V, logs, k) ==
  V = [s \in SUBSET (1..k) |->
         IF s = {} THEN Nothing
         ELSE Learns(V[s \ {Logs!Max(s)}], logs[Logs!Max(s)])]

LEMMA FoldLonger ==
  ASSUME NEW k \in Nat, k # 0, NEW logs, NEW V, Folds(V, logs, k - 1)
  PROVE  \E U : Folds(U, logs, k)
<1> DEFINE U == [s \in SUBSET (1..k) |->
                   IF k \in s THEN Learns(V[s \ {k}], logs[k]) ELSE V[s]]
<1>1. /\ k - 1 \in Nat /\ 1..(k - 1) \subseteq 1..k
      /\ \A s \in SUBSET (1..k) : s \ {k} \in SUBSET (1..(k - 1))
  <2>1. k - 1 \in Nat /\ \A i \in 1..(k - 1) : i \in 1..k
    OBVIOUS
  <2>2. \A i \in 1..k : i # k => i \in 1..(k - 1)
    OBVIOUS
  <2> QED
    BY <2>1, <2>2
<1>2. ASSUME NEW s \in SUBSET (1..k)
      PROVE  U[s] = IF s = {} THEN Nothing
                    ELSE Learns(U[s \ {Logs!Max(s)}], logs[Logs!Max(s)])
  <2>1. CASE k \in s
    <3>1. Logs!Max(s) = k
      BY <2>1, MaxWith
    <3>2. s \ {k} \in SUBSET (1..k) /\ ~(k \in s \ {k})
      OBVIOUS
    <3>3. U[s \ {k}] = V[s \ {k}] /\ U[s] = Learns(V[s \ {k}], logs[k])
      BY <2>1, <3>2
    <3> HIDE DEF U
    <3> QED
      BY <2>1, <3>1, <3>3
  <2>2. CASE ~(k \in s)
    <3>1. s \in SUBSET (1..(k - 1)) /\ s \ {k} = s
      BY <1>1, <2>2
    <3>2. U[s] = V[s]
      BY <2>2
    <3>3. V[s] = IF s = {} THEN Nothing
                 ELSE Learns(V[s \ {Logs!Max(s)}], logs[Logs!Max(s)])
      BY <3>1 DEF Folds
    <3>4. s # {} => U[s \ {Logs!Max(s)}] = V[s \ {Logs!Max(s)}]
      BY <2>2
    <3> HIDE DEF U
    <3> QED
      BY <3>2, <3>3, <3>4
  <2> QED
    BY <2>1, <2>2
<1>3. U = [s \in SUBSET (1..k) |-> U[s]]
  OBVIOUS
<1> HIDE DEF U
<1>4. Folds(U, logs, k)
  BY <1>2, <1>3 DEF Folds
<1> QED
  BY <1>4

LEMMA FoldExists ==
  ASSUME NEW n \in Nat, NEW logs
  PROVE  \E V : Folds(V, logs, n)
<1> DEFINE Missing == {k \in 0..n : ~(\E V : Folds(V, logs, k))}
<1> SUFFICES ASSUME Missing # {} PROVE FALSE
  BY n \in 0..n
<1>1. Missing \subseteq Nat
  OBVIOUS
<1>2. PICK k \in Missing : \A l \in Missing : k <= l
  <2> HIDE DEF Missing
  <2> QED
    BY <1>1, LeastNat
<1>3. k \in 0..n /\ ~(\E V : Folds(V, logs, k))
  BY <1>2
<1>4. k # 0
  <2> SUFFICES ASSUME k = 0 PROVE FALSE
    OBVIOUS
  <2> DEFINE V == [s \in SUBSET (1..0) |-> Nothing]
  <2>1. \A s \in SUBSET (1..0) : s = {}
    OBVIOUS
  <2>2. Folds(V, logs, 0)
    BY <2>1 DEF Folds
  <2> QED
    BY <1>3, <2>2
<1>5. k - 1 \in 0..n /\ k - 1 < k
  BY <1>3, <1>4
<1>6. PICK V : Folds(V, logs, k - 1)
  <2>1. ~(k - 1 \in Missing)
    <3> HIDE DEF Missing
    <3> QED
      BY <1>2, <1>3, <1>5
  <2> QED
    BY <1>5, <2>1
<1>7. \E U : Folds(U, logs, k)
  BY <1>3, <1>4, <1>6, FoldLonger
<1> QED
  BY <1>3, <1>7

LEMMA LearnsInOrder ==
  ASSUME NEW S, NEW logs \in Seq(S)
  PROVE  \E F : /\ F[0] = Nothing
                /\ \A k \in 1..Len(logs) : F[k] = Learns(F[k - 1], logs[k])
                /\ Logs!FoldLeft(Learns, Nothing, logs) = F[Len(logs)]
<1> DEFINE n == Len(logs)
           V == CHOOSE V : V = [s \in SUBSET DOMAIN logs |->
                  IF s = {} THEN Nothing
                  ELSE Learns(V[s \ {Logs!Max(s)}], logs[Logs!Max(s)])]
<1>1. n \in Nat /\ DOMAIN logs = 1..n
  OBVIOUS
<1>2. Logs!FoldLeft(Learns, Nothing, logs) = V[1..n]
  BY <1>1 DEF Logs!FoldLeft, Logs!MapThenFoldSet
<1> HIDE DEF n
<1>3. V = [s \in SUBSET DOMAIN logs |->
             IF s = {} THEN Nothing
             ELSE Learns(V[s \ {Logs!Max(s)}], logs[Logs!Max(s)])]
  <2>1. PICK U : Folds(U, logs, n)
    BY <1>1, FoldExists
  <2>2. U = [s \in SUBSET DOMAIN logs |->
               IF s = {} THEN Nothing
               ELSE Learns(U[s \ {Logs!Max(s)}], logs[Logs!Max(s)])]
    BY <1>1, <2>1 DEF Folds
  <2> QED
    BY <2>2
<1> HIDE DEF V
<1> DEFINE F == [k \in 0..n |-> V[1..k]]
<1>4. F[0] = Nothing
  <2>1. 1..0 = {}
    OBVIOUS
  <2>2. V[{}] = Nothing
    BY <1>3
  <2>3. 0 \in 0..n
    BY <1>1
  <2> QED
    BY <2>1, <2>2, <2>3
<1>5. ASSUME NEW k \in 1..n PROVE F[k] = Learns(F[k - 1], logs[k])
  <2>1. k \in 0..n /\ k - 1 \in 0..n /\ k \in Nat /\ k # 0
    BY <1>1
  <2>2. 1..k \in SUBSET (1..n) /\ k \in 1..k
    <3>1. \A i \in 1..k : i \in 1..n
      BY <1>1
    <3> QED
      BY <3>1, <2>1
  <2>3. Logs!Max(1..k) = k
    BY <2>1, <2>2, MaxWith
  <2>4. (1..k) \ {k} = 1..(k - 1)
    <3>1. \A i \in 1..k : i # k => i \in 1..(k - 1)
      BY <2>1
    <3>2. \A i \in 1..(k - 1) : i \in 1..k /\ i # k
      BY <2>1
    <3> QED
      BY <3>1, <3>2
  <2>5. V[1..k] = Learns(V[1..(k - 1)], logs[k])
    <3>1. V[1..k] = Learns(V[(1..k) \ {Logs!Max(1..k)}], logs[Logs!Max(1..k)])
      BY <1>1, <1>3, <2>2
    <3> QED
      BY <2>3, <2>4, <3>1
  <2>6. F[k] = V[1..k] /\ F[k - 1] = V[1..(k - 1)]
    BY <2>1
  <2> HIDE DEF F
  <2> QED
    BY <2>5, <2>6
<1>6. F[n] = V[1..n]
  BY <1>1
<1> HIDE DEF F
<1>7. \A k \in 1..n : F[k] = Learns(F[k - 1], logs[k])
  BY <1>5
<1> QED
  BY <1>2, <1>4, <1>6, <1>7 DEF n
-----------------------------------------------------------------------------
(* What is known after the first k events is what the last event about     *)
(* each blob and each provider says.                                       *)
BlobEvents(logs, b, k) == {i \in 1..k : OfBlob(logs[i]) /\ logs[i].blob = b}

ProviderEvents(logs, p, k) == {i \in 1..k : OfProvider(logs[i]) /\ logs[i].provider = p}

LastOf(s, i) == i \in s /\ \A j \in s : j <= i

NameIn(e) == IF e.event = "BlobNamed" THEN e.name ELSE Unnamed

ActiveIn(e) == IF e.event = "ProviderStatusChanged" THEN e.active ELSE TRUE

KnownAfter(logs, k, found) ==
  /\ found = [blobs |-> found.blobs, providers |-> found.providers]
  /\ DOMAIN found.blobs = {logs[i].blob : i \in {i \in 1..k : OfBlob(logs[i])}}
  /\ \A b \in DOMAIN found.blobs : \E i \in 1..k :
       LastOf(BlobEvents(logs, b, k), i) /\ found.blobs[b].name = NameIn(logs[i])
  /\ DOMAIN found.providers
       = {logs[i].provider : i \in {i \in 1..k : logs[i].event = "ProviderRegistered"}}
  /\ \A p \in DOMAIN found.providers : \E i \in 1..k :
       LastOf(ProviderEvents(logs, p, k), i) /\ found.providers[p] = ActiveIn(logs[i])

(* One more event.                                                         *)
LEMMA OneLonger ==
  ASSUME NEW k \in Nat, k # 0
  PROVE  /\ 1..k = (1..(k - 1)) \cup {k} /\ k \notin 1..(k - 1)
         /\ \A i \in 1..(k - 1) : i <= k
  OBVIOUS

LEMMA AboutTheSame ==
  ASSUME NEW logs, NEW k \in Nat, k # 0, NEW x
  PROVE  /\ ~(OfBlob(logs[k]) /\ logs[k].blob = x) =>
              BlobEvents(logs, x, k) = BlobEvents(logs, x, k - 1)
         /\ OfBlob(logs[k]) /\ logs[k].blob = x => LastOf(BlobEvents(logs, x, k), k)
         /\ ~(OfProvider(logs[k]) /\ logs[k].provider = x) =>
              ProviderEvents(logs, x, k) = ProviderEvents(logs, x, k - 1)
         /\ OfProvider(logs[k]) /\ logs[k].provider = x => LastOf(ProviderEvents(logs, x, k), k)
<1>1. /\ 1..k = (1..(k - 1)) \cup {k} /\ k \notin 1..(k - 1) /\ k \in 1..k
      /\ \A i \in 1..k : i <= k
  BY OneLonger
<1>2. BlobEvents(logs, x, k)
        = BlobEvents(logs, x, k - 1)
            \cup IF OfBlob(logs[k]) /\ logs[k].blob = x THEN {k} ELSE {}
  BY <1>1 DEF BlobEvents
<1>3. ProviderEvents(logs, x, k)
        = ProviderEvents(logs, x, k - 1)
            \cup IF OfProvider(logs[k]) /\ logs[k].provider = x THEN {k} ELSE {}
  BY <1>1 DEF ProviderEvents
<1>4. OfBlob(logs[k]) /\ logs[k].blob = x => LastOf(BlobEvents(logs, x, k), k)
  BY <1>1 DEF LastOf, BlobEvents
<1>5. OfProvider(logs[k]) /\ logs[k].provider = x => LastOf(ProviderEvents(logs, x, k), k)
  BY <1>1 DEF LastOf, ProviderEvents
<1> QED
  BY <1>2, <1>3, <1>4, <1>5

LEMMA BlobLearned ==
  ASSUME NEW logs, NEW k \in Nat, k # 0, NEW found, KnownAfter(logs, k - 1, found),
         OfBlob(logs[k]), NEW value, value.name = NameIn(logs[k])
  PROVE  KnownAfter(logs, k, [found EXCEPT !.blobs = Put(@, logs[k].blob, value)])
<1> DEFINE b == logs[k].blob
           blobsNow == Put(found.blobs, b, value)
           next == [blobs |-> blobsNow, providers |-> found.providers]
<1>1. [found EXCEPT !.blobs = Put(@, logs[k].blob, value)] = next
  BY DEF KnownAfter
<1>2. next.blobs = blobsNow /\ next.providers = found.providers
  OBVIOUS
<1>3. next = [blobs |-> next.blobs, providers |-> next.providers]
  OBVIOUS
<1>4. /\ DOMAIN blobsNow = DOMAIN found.blobs \cup {b} /\ blobsNow[b] = value
      /\ \A x \in DOMAIN found.blobs : x # b => blobsNow[x] = found.blobs[x]
  BY DEF Put
<1>5. /\ 1..k = (1..(k - 1)) \cup {k} /\ k \in 1..k
      /\ logs[k].event # "ProviderRegistered"
      /\ ~OfProvider(logs[k])
  BY OneLonger DEF OfBlob, OfProvider
<1> HIDE DEF next, blobsNow
<1>6. DOMAIN next.blobs = {logs[i].blob : i \in {i \in 1..k : OfBlob(logs[i])}}
  <2>1. {i \in 1..k : OfBlob(logs[i])} = {i \in 1..(k - 1) : OfBlob(logs[i])} \cup {k}
    BY <1>5
  <2>2. DOMAIN found.blobs = {logs[i].blob : i \in {i \in 1..(k - 1) : OfBlob(logs[i])}}
    BY DEF KnownAfter
  <2> QED
    BY <1>2, <1>4, <2>1, <2>2
<1>7. ASSUME NEW x \in DOMAIN next.blobs
      PROVE  \E i \in 1..k :
               LastOf(BlobEvents(logs, x, k), i) /\ next.blobs[x].name = NameIn(logs[i])
  <2>1. CASE x = b
    BY <1>2, <1>4, <1>5, <2>1, AboutTheSame
  <2>2. CASE x # b
    <3>1. x \in DOMAIN found.blobs /\ next.blobs[x] = found.blobs[x]
      BY <1>2, <1>4, <1>7, <2>2
    <3>2. PICK i \in 1..(k - 1) : /\ LastOf(BlobEvents(logs, x, k - 1), i)
                                  /\ found.blobs[x].name = NameIn(logs[i])
      BY <3>1 DEF KnownAfter
    <3>3. BlobEvents(logs, x, k) = BlobEvents(logs, x, k - 1)
      BY <2>2, AboutTheSame
    <3> QED
      BY <1>5, <3>1, <3>2, <3>3
  <2> QED
    BY <2>1, <2>2
<1>8. DOMAIN next.providers
        = {logs[i].provider : i \in {i \in 1..k : logs[i].event = "ProviderRegistered"}}
  <2>1. {i \in 1..k : logs[i].event = "ProviderRegistered"}
          = {i \in 1..(k - 1) : logs[i].event = "ProviderRegistered"}
    BY <1>5
  <2> QED
    BY <1>2, <2>1 DEF KnownAfter
<1>9. ASSUME NEW p \in DOMAIN next.providers
      PROVE  \E i \in 1..k :
               LastOf(ProviderEvents(logs, p, k), i) /\ next.providers[p] = ActiveIn(logs[i])
  <2>1. PICK i \in 1..(k - 1) : /\ LastOf(ProviderEvents(logs, p, k - 1), i)
                                /\ found.providers[p] = ActiveIn(logs[i])
    BY <1>2, <1>9 DEF KnownAfter
  <2>2. ProviderEvents(logs, p, k) = ProviderEvents(logs, p, k - 1)
    BY <1>5, AboutTheSame
  <2> QED
    BY <1>2, <1>5, <2>1, <2>2
<1>10. KnownAfter(logs, k, next)
  BY <1>3, <1>6, <1>7, <1>8, <1>9 DEF KnownAfter
<1> QED
  BY <1>1, <1>10

LEMMA ProviderLearned ==
  ASSUME NEW logs, NEW k \in Nat, k # 0, NEW found, KnownAfter(logs, k - 1, found),
         OfProvider(logs[k]), NEW seen,
         DOMAIN seen = DOMAIN found.providers
           \cup IF logs[k].event = "ProviderRegistered" THEN {logs[k].provider} ELSE {},
         logs[k].provider \in DOMAIN seen => seen[logs[k].provider] = ActiveIn(logs[k]),
         \A q \in DOMAIN found.providers : q # logs[k].provider => seen[q] = found.providers[q]
  PROVE  KnownAfter(logs, k, [blobs |-> found.blobs, providers |-> seen])
<1> DEFINE p == logs[k].provider
           next == [blobs |-> found.blobs, providers |-> seen]
           registered(m) == {i \in 1..m : logs[i].event = "ProviderRegistered"}
<1>2. next.blobs = found.blobs /\ next.providers = seen
  OBVIOUS
<1>3. next = [blobs |-> next.blobs, providers |-> next.providers]
  OBVIOUS
<1>4. /\ DOMAIN seen = DOMAIN found.providers
           \cup IF logs[k].event = "ProviderRegistered" THEN {p} ELSE {}
      /\ p \in DOMAIN seen => seen[p] = ActiveIn(logs[k])
      /\ \A q \in DOMAIN found.providers : q # p => seen[q] = found.providers[q]
  OBVIOUS
<1>5. /\ 1..k = (1..(k - 1)) \cup {k} /\ k \in 1..k /\ ~OfBlob(logs[k])
  BY OneLonger DEF OfBlob, OfProvider
<1> HIDE DEF next
<1>6. DOMAIN next.blobs = {logs[i].blob : i \in {i \in 1..k : OfBlob(logs[i])}}
  <2>1. {i \in 1..k : OfBlob(logs[i])} = {i \in 1..(k - 1) : OfBlob(logs[i])}
    BY <1>5
  <2>2. DOMAIN found.blobs = {logs[i].blob : i \in {i \in 1..(k - 1) : OfBlob(logs[i])}}
    BY DEF KnownAfter
  <2> QED
    BY <1>2, <2>1, <2>2
<1>7. ASSUME NEW x \in DOMAIN next.blobs
      PROVE  \E i \in 1..k :
               LastOf(BlobEvents(logs, x, k), i) /\ next.blobs[x].name = NameIn(logs[i])
  <2>1. PICK i \in 1..(k - 1) : /\ LastOf(BlobEvents(logs, x, k - 1), i)
                                /\ found.blobs[x].name = NameIn(logs[i])
    BY <1>2, <1>7 DEF KnownAfter
  <2>2. BlobEvents(logs, x, k) = BlobEvents(logs, x, k - 1)
    BY <1>5, AboutTheSame
  <2> QED
    BY <1>2, <1>5, <2>1, <2>2
<1>8. DOMAIN next.providers = {logs[i].provider : i \in registered(k)}
  <2>1. registered(k) = registered(k - 1)
          \cup IF logs[k].event = "ProviderRegistered" THEN {k} ELSE {}
    BY <1>5
  <2>2. DOMAIN found.providers = {logs[i].provider : i \in registered(k - 1)}
    BY DEF KnownAfter
  <2> HIDE DEF registered
  <2> QED
    BY <1>2, <1>4, <2>1, <2>2
<1>9. ASSUME NEW q \in DOMAIN next.providers
      PROVE  \E i \in 1..k :
               LastOf(ProviderEvents(logs, q, k), i) /\ next.providers[q] = ActiveIn(logs[i])
  <2>1. CASE q = p
    BY <1>2, <1>4, <1>5, <1>9, <2>1, AboutTheSame
  <2>2. CASE q # p
    <3>1. q \in DOMAIN found.providers /\ next.providers[q] = found.providers[q]
      BY <1>2, <1>4, <1>9, <2>2
    <3>2. PICK i \in 1..(k - 1) : /\ LastOf(ProviderEvents(logs, q, k - 1), i)
                                  /\ found.providers[q] = ActiveIn(logs[i])
      BY <3>1 DEF KnownAfter
    <3>3. ProviderEvents(logs, q, k) = ProviderEvents(logs, q, k - 1)
      BY <2>2, AboutTheSame
    <3> QED
      BY <1>5, <3>1, <3>2, <3>3
  <2> QED
    BY <2>1, <2>2
<1>10. KnownAfter(logs, k, next)
  BY <1>3, <1>6, <1>7, <1>8, <1>9 DEF KnownAfter
<1> QED
  BY <1>10 DEF next

LEMMA OneMoreLearned ==
  ASSUME NEW logs, NEW k \in Nat, k # 0, NEW found, KnownAfter(logs, k - 1, found),
         OfBlob(logs[k]) \/ OfProvider(logs[k])
  PROVE  KnownAfter(logs, k, Learns(found, logs[k]))
<1> DEFINE e == logs[k]
<1>1. CASE e.event = "BlobCreated"
  <2> DEFINE value == [owner |-> e.owner, name |-> Unnamed]
  <2>1. Learns(found, e) = [found EXCEPT !.blobs = Put(@, e.blob, value)]
    BY <1>1 DEF Learns
  <2>2. value.name = NameIn(e) /\ OfBlob(e)
    BY <1>1 DEF NameIn, OfBlob
  <2> HIDE DEF value
  <2> QED
    BY <2>1, <2>2, BlobLearned
<1>2. CASE e.event = "BlobNamed"
  <2> DEFINE value == [owner |-> e.owner, name |-> e.name]
  <2>1. Learns(found, e) = [found EXCEPT !.blobs = Put(@, e.blob, value)]
    BY <1>2 DEF Learns
  <2>2. value.name = NameIn(e) /\ OfBlob(e)
    BY <1>2 DEF NameIn, OfBlob
  <2> HIDE DEF value
  <2> QED
    BY <2>1, <2>2, BlobLearned
<1>3. CASE e.event = "ProviderRegistered"
  <2> DEFINE seen == Put(found.providers, e.provider, TRUE)
  <2>1. Learns(found, e) = [blobs |-> found.blobs, providers |-> seen]
    BY <1>3 DEF Learns, KnownAfter
  <2>2. /\ DOMAIN seen = DOMAIN found.providers \cup {e.provider}
        /\ seen[e.provider] = TRUE
    BY DEF Put
  <2>6. \A q \in DOMAIN found.providers : q # e.provider => seen[q] = found.providers[q]
    BY DEF Put
  <2>3. ActiveIn(e) = TRUE /\ OfProvider(e)
    BY <1>3 DEF ActiveIn, OfProvider
  <2> HIDE DEF seen
  <2>4. seen[e.provider] = ActiveIn(e)
    BY <2>2, <2>3
  <2>5. DOMAIN seen = DOMAIN found.providers
           \cup IF e.event = "ProviderRegistered" THEN {e.provider} ELSE {}
    BY <1>3, <2>2
  <2> QED
    BY <2>1, <2>3, <2>4, <2>5, <2>6, ProviderLearned
<1>4. CASE e.event = "ProviderStatusChanged" /\ e.provider \in DOMAIN found.providers
  <2> DEFINE seen == [found.providers EXCEPT ![e.provider] = e.active]
  <2>1. Learns(found, e) = [blobs |-> found.blobs, providers |-> seen]
    BY <1>4 DEF Learns, KnownAfter
  <2>2. /\ DOMAIN seen = DOMAIN found.providers
        /\ seen[e.provider] = e.active
        /\ \A q \in DOMAIN found.providers : q # e.provider => seen[q] = found.providers[q]
    BY <1>4
  <2>3. ActiveIn(e) = e.active /\ OfProvider(e)
    BY <1>4 DEF ActiveIn, OfProvider
  <2> HIDE DEF seen
  <2>4. seen[e.provider] = ActiveIn(e)
    BY <2>2, <2>3
  <2>5. DOMAIN seen = DOMAIN found.providers
           \cup IF e.event = "ProviderRegistered" THEN {e.provider} ELSE {}
    BY <1>4, <2>2
  <2> QED
    BY <2>1, <2>2, <2>3, <2>4, <2>5, ProviderLearned
<1>5. CASE e.event = "ProviderStatusChanged" /\ e.provider \notin DOMAIN found.providers
  <2>1. Learns(found, e) = [blobs |-> found.blobs, providers |-> found.providers]
    BY <1>5 DEF Learns, KnownAfter
  <2>2. OfProvider(e)
    BY <1>5 DEF OfProvider
  <2>3. DOMAIN found.providers = DOMAIN found.providers
           \cup IF e.event = "ProviderRegistered" THEN {e.provider} ELSE {}
    BY <1>5
  <2> QED
    BY <1>5, <2>1, <2>2, <2>3, ProviderLearned
<1> QED
  BY <1>1, <1>2, <1>3, <1>4, <1>5 DEF OfBlob, OfProvider

LEMMA FoldKnows ==
  ASSUME NEW S, NEW logs \in Seq(S),
         \A k \in 1..Len(logs) : OfBlob(logs[k]) \/ OfProvider(logs[k])
  PROVE  KnownAfter(logs, Len(logs), Logs!FoldLeft(Learns, Nothing, logs))
<1> DEFINE n == Len(logs)
<1>1. n \in Nat
  OBVIOUS
<1>2. PICK F : /\ F[0] = Nothing
               /\ \A k \in 1..n : F[k] = Learns(F[k - 1], logs[k])
               /\ Logs!FoldLeft(Learns, Nothing, logs) = F[n]
  BY LearnsInOrder
<1> DEFINE Wrong == {k \in 0..n : ~KnownAfter(logs, k, F[k])}
<1>3. Wrong = {}
  <2> SUFFICES ASSUME Wrong # {} PROVE FALSE
    OBVIOUS
  <2>1. Wrong \subseteq Nat
    BY <1>1
  <2>2. PICK k \in Wrong : \A l \in Wrong : k <= l
    <3> HIDE DEF Wrong
    <3> QED
      BY <2>1, LeastNat
  <2>3. k \in 0..n /\ ~KnownAfter(logs, k, F[k])
    BY <2>2
  <2>4. k # 0
    <3> SUFFICES ASSUME k = 0 PROVE FALSE
      OBVIOUS
    <3>1. 1..0 = {}
      OBVIOUS
    <3>2. KnownAfter(logs, 0, Nothing)
      BY <3>1 DEF KnownAfter, Nothing
    <3> QED
      BY <1>2, <2>3, <3>2
  <2>5. k \in 1..n /\ k - 1 \in 0..n /\ k - 1 < k /\ k \in Nat
    BY <1>1, <2>3, <2>4
  <2>6. KnownAfter(logs, k - 1, F[k - 1])
    <3>1. ~(k - 1 \in Wrong)
      <4> HIDE DEF Wrong
      <4> QED
        BY <2>2, <2>3, <2>5
    <3> QED
      BY <2>5, <3>1
  <2>7. KnownAfter(logs, k, Learns(F[k - 1], logs[k]))
    BY <2>5, <2>6, OneMoreLearned
  <2> QED
    BY <1>2, <2>3, <2>5, <2>7
<1>4. n \in 0..n
  BY <1>1
<1>5. KnownAfter(logs, n, F[n])
  BY <1>3, <1>4
<1> HIDE DEF n
<1> QED
  BY <1>2, <1>5 DEF n
-----------------------------------------------------------------------------
(* What a load learns from a stretch of the log is what there is to learn  *)
(* of the registry from those blocks.                                      *)
PlaceOf(ordered, a, h, k) == IF ordered THEN a + k - 1 ELSE h + 1 - k

LEMMA StretchTells ==
  ASSUME LogSound, NEW logs, NEW ordered \in BOOLEAN, NEW a, NEW h,
         Spans(log, logs, ordered, a, h),
         NEW from \in Nat, NEW upTo \in Nat, Cut(log, a, h, from, upTo),
         NEW found, KnownAfter(logs, Len(logs), found)
  PROVE  FoundSound(log, blobNames, found, ordered, from, upTo)
<1> DEFINE n == Len(logs)
           At(k) == PlaceOf(ordered, a, h, k)
<1>1. /\ a \in Nat \ {0} /\ h \in Nat /\ h >= a - 1 /\ h <= Len(log)
      /\ n = h - a + 1
      /\ \A k \in 1..n : logs[k] = log[At(k)]
  BY DEF Spans, PlaceOf
<1>2. /\ Len(log) \in Nat /\ DOMAIN log = 1..Len(log)
      /\ \A i \in 1..Len(log) : log[i].block \in Nat
  BY LogOrder
<1> HIDE DEF n, At
<1>3. /\ n \in Nat
      /\ \A k \in 1..n : At(k) \in a..h
      /\ \A i \in a..h : \E k \in 1..n : At(k) = i
      /\ ordered => \A k, l \in 1..n : k <= l <=> At(k) <= At(l)
  <2>1. n \in Nat /\ \A k \in 1..n : At(k) \in a..h
    BY <1>1 DEF At, PlaceOf
  <2>2. ASSUME NEW i \in a..h
        PROVE  \E k \in 1..n : At(k) = i
    <3>1. CASE ordered
      <4>1. i - a + 1 \in 1..n /\ a + (i - a + 1) - 1 = i
        BY <1>1
      <4> QED
        BY <3>1, <4>1 DEF At, PlaceOf
    <3>2. CASE ~ordered
      <4>1. h + 1 - i \in 1..n /\ h + 1 - (h + 1 - i) = i
        BY <1>1
      <4> QED
        BY <3>2, <4>1 DEF At, PlaceOf
    <3> QED
      BY <3>1, <3>2
  <2>3. ASSUME ordered, NEW k \in 1..n, NEW l \in 1..n
        PROVE  k <= l <=> At(k) <= At(l)
    BY <1>1, <2>3 DEF At, PlaceOf
  <2> QED
    BY <2>1, <2>2, <2>3
<1>4. \A i \in a..h : i \in DOMAIN log
  BY <1>1, <1>2
<1>5. \A i \in DOMAIN log : i \in a..h <=> log[i].block \in from..upTo
  BY DEF Cut
<1>6. \A i \in DOMAIN log : (OfBlob(log[i]) \/ OfProvider(log[i]))
                            /\ (log[i].event = "BlobNamed" =>
                                  log[i].name = blobNames[log[i].blob] /\ log[i].name # NoName)
  BY DEF LogSound, EventSound
<1>7. /\ DOMAIN found.blobs = {logs[i].blob : i \in {i \in 1..n : OfBlob(logs[i])}}
      /\ \A b \in DOMAIN found.blobs : \E i \in 1..n :
           LastOf(BlobEvents(logs, b, n), i) /\ found.blobs[b].name = NameIn(logs[i])
      /\ DOMAIN found.providers
           = {logs[i].provider : i \in {i \in 1..n : logs[i].event = "ProviderRegistered"}}
      /\ \A p \in DOMAIN found.providers : \E i \in 1..n :
           LastOf(ProviderEvents(logs, p, n), i) /\ found.providers[p] = ActiveIn(logs[i])
  BY DEF KnownAfter, n
(* The blobs.                                                              *)
<1>8. DOMAIN found.blobs = CreatedIn(log, from, upTo)
  <2>1. ASSUME NEW b \in DOMAIN found.blobs PROVE b \in CreatedIn(log, from, upTo)
    <3>1. PICK k \in 1..n : OfBlob(logs[k]) /\ b = logs[k].blob
      BY <1>7, <2>1
    <3>2. At(k) \in a..h /\ At(k) \in DOMAIN log /\ logs[k] = log[At(k)]
      BY <1>1, <1>3, <1>4
    <3>3. PICK i \in DOMAIN log : /\ log[i].event = "BlobCreated" /\ log[i].blob = b
                                  /\ log[i].block = log[At(k)].block
      <4>1. CASE logs[k].event = "BlobCreated"
        BY <3>1, <3>2, <4>1
      <4>2. CASE logs[k].event = "BlobNamed"
        BY <3>1, <3>2, <4>2 DEF LogSound
      <4> QED
        BY <3>1, <4>1, <4>2 DEF OfBlob
    <3>4. log[i].block \in from..upTo
      BY <1>5, <3>2, <3>3
    <3> QED
      BY <3>3, <3>4 DEF CreatedIn, InBlocks
  <2>2. ASSUME NEW b \in CreatedIn(log, from, upTo) PROVE b \in DOMAIN found.blobs
    <3>1. PICK i \in DOMAIN log : /\ log[i].event = "BlobCreated" /\ b = log[i].blob
                                  /\ log[i].block \in from..upTo
      BY <2>2 DEF CreatedIn, InBlocks
    <3>2. PICK k \in 1..n : At(k) = i
      BY <1>3, <1>5, <3>1
    <3>3. logs[k] = log[i] /\ OfBlob(logs[k])
      BY <1>1, <3>1, <3>2 DEF OfBlob
    <3> QED
      BY <1>7, <3>1, <3>3
  <2> QED
    BY <2>1, <2>2
<1>9. ASSUME NEW b \in DOMAIN found.blobs, ordered \/ blobNames[b] = NoName
      PROVE  found.blobs[b].name = NameOf(blobNames[b])
  <2>1. PICK k \in 1..n :
          LastOf(BlobEvents(logs, b, n), k) /\ found.blobs[b].name = NameIn(logs[k])
    BY <1>7
  <2>2. /\ OfBlob(logs[k]) /\ logs[k].blob = b
        /\ \A l \in 1..n : OfBlob(logs[l]) /\ logs[l].blob = b => l <= k
    BY <2>1 DEF LastOf, BlobEvents
  <2>3. At(k) \in a..h /\ At(k) \in DOMAIN log /\ logs[k] = log[At(k)]
    BY <1>1, <1>3, <1>4
  <2>4. CASE logs[k].event = "BlobNamed"
    BY <1>6, <2>1, <2>2, <2>3, <2>4 DEF NameIn, NameOf
  <2>5. CASE logs[k].event = "BlobCreated" /\ blobNames[b] = NoName
    BY <2>1, <2>5 DEF NameIn, NameOf
  <2>6. CASE logs[k].event = "BlobCreated" /\ blobNames[b] # NoName
    <3>1. ordered
      BY <1>9, <2>6
    <3>2. PICK i \in DOMAIN log : /\ At(k) < i /\ log[i].event = "BlobNamed"
                                  /\ log[i].blob = b /\ log[i].block = log[At(k)].block
      BY <2>2, <2>3, <2>6 DEF LogSound
    <3>3. i \in a..h
      BY <1>5, <2>3, <3>2
    <3>4. PICK l \in 1..n : At(l) = i
      BY <1>3, <3>3
    <3>5. OfBlob(logs[l]) /\ logs[l].blob = b
      BY <1>1, <3>2, <3>4 DEF OfBlob
    <3>6. l <= k
      BY <2>2, <3>5
    <3>7. At(l) <= At(k)
      BY <1>3, <3>1, <3>6
    <3>8. At(k) \in Nat /\ i \in Nat
      BY <1>2, <2>3
    <3> QED
      BY <3>2, <3>4, <3>7, <3>8
  <2> QED
    BY <2>2, <2>4, <2>5, <2>6 DEF OfBlob
(* The providers.                                                          *)
<1>10. DOMAIN found.providers = RegisteredIn(log, from, upTo)
  <2>1. ASSUME NEW p \in DOMAIN found.providers PROVE p \in RegisteredIn(log, from, upTo)
    <3>1. PICK k \in 1..n : logs[k].event = "ProviderRegistered" /\ p = logs[k].provider
      BY <1>7, <2>1
    <3>2. At(k) \in a..h /\ At(k) \in DOMAIN log /\ logs[k] = log[At(k)]
      BY <1>1, <1>3, <1>4
    <3>3. log[At(k)].block \in from..upTo
      BY <1>5, <3>2
    <3> QED
      BY <3>1, <3>2, <3>3 DEF RegisteredIn, InBlocks
  <2>2. ASSUME NEW p \in RegisteredIn(log, from, upTo) PROVE p \in DOMAIN found.providers
    <3>1. PICK i \in DOMAIN log : /\ log[i].event = "ProviderRegistered"
                                  /\ p = log[i].provider /\ log[i].block \in from..upTo
      BY <2>2 DEF RegisteredIn, InBlocks
    <3>2. PICK k \in 1..n : At(k) = i
      BY <1>3, <1>5, <3>1
    <3>3. logs[k] = log[i]
      BY <1>1, <3>2
    <3> QED
      BY <1>7, <3>1, <3>3
  <2> QED
    BY <2>1, <2>2
<1>11. ASSUME ordered, NEW p \in DOMAIN found.providers
       PROVE  found.providers[p] = LastStatus(log, p, from, upTo)
  <2> DEFINE statuses == StatusesIn(log, p, from, upTo)
  <2>1. PICK k \in 1..n : LastOf(ProviderEvents(logs, p, n), k)
                          /\ found.providers[p] = ActiveIn(logs[k])
    BY <1>7
  <2>2. /\ OfProvider(logs[k]) /\ logs[k].provider = p
        /\ \A l \in 1..n : OfProvider(logs[l]) /\ logs[l].provider = p => l <= k
    BY <2>1 DEF LastOf, ProviderEvents
  <2>3. At(k) \in a..h /\ At(k) \in DOMAIN log /\ logs[k] = log[At(k)] /\ At(k) \in Nat
    BY <1>1, <1>2, <1>3, <1>4
  <2>4. \A j : j \in statuses <=> /\ j \in a..h /\ log[j].event = "ProviderStatusChanged"
                                  /\ log[j].provider = p
    BY <1>4, <1>5 DEF StatusesIn, InBlocks
  <2>5. ASSUME NEW j \in statuses PROVE j <= At(k) /\ j \in Nat
    <3>1. PICK l \in 1..n : At(l) = j
      BY <1>3, <2>4, <2>5
    <3>2. OfProvider(logs[l]) /\ logs[l].provider = p
      BY <1>1, <2>4, <2>5, <3>1 DEF OfProvider
    <3>3. l <= k
      BY <2>2, <3>2
    <3>4. At(l) <= At(k)
      BY <1>3, <1>11, <3>3
    <3>5. j \in a..h
      BY <2>4, <2>5
    <3> QED
      BY <1>1, <3>1, <3>4, <3>5
  <2> HIDE DEF statuses
  <2>6. CASE logs[k].event = "ProviderRegistered"
    <3>1. statuses = {}
      <4> SUFFICES ASSUME NEW j \in statuses PROVE FALSE
        OBVIOUS
      <4>1. j \in DOMAIN log /\ log[j].event = "ProviderStatusChanged" /\ log[j].provider = p
        BY <1>4, <2>4
      <4>2. At(k) <= j
        BY <2>2, <2>3, <2>6, <4>1 DEF LogSound, OfProvider
      <4>3. j = At(k)
        BY <2>3, <2>5, <4>2
      <4> QED
        BY <2>3, <2>6, <4>1, <4>3
    <3>2. LastStatus(log, p, from, upTo) = TRUE
      BY <3>1 DEF LastStatus, statuses
    <3>3. ActiveIn(logs[k]) = TRUE
      BY <2>6 DEF ActiveIn
    <3> QED
      BY <2>1, <3>2, <3>3
  <2>7. CASE logs[k].event = "ProviderStatusChanged"
    <3>1. At(k) \in statuses
      BY <2>2, <2>3, <2>4, <2>7
    <3>2. (CHOOSE i \in statuses : \A j \in statuses : j <= i) = At(k)
      <4>1. \A i \in statuses : (\A j \in statuses : j <= i) => i = At(k)
        BY <2>3, <2>5, <3>1
      <4> QED
        BY <2>5, <3>1, <4>1
    <3>3. LastStatus(log, p, from, upTo) = log[At(k)].active
      BY <3>1, <3>2 DEF LastStatus, statuses
    <3>4. ActiveIn(logs[k]) = log[At(k)].active
      BY <2>3, <2>7 DEF ActiveIn
    <3> QED
      BY <2>1, <3>3, <3>4
  <2> QED
    BY <2>2, <2>6, <2>7 DEF OfProvider
<1> QED
  BY <1>8, <1>9, <1>10, <1>11 DEF FoundSound, ProvidersSound
-----------------------------------------------------------------------------
LEMMA SameFound ==
  ASSUME NEW events, NEW names, NEW found, NEW ordered, NEW from, NEW upTo, NEW end,
         FoundSound(events, names, found, ordered, from, upTo),
         \A event : InBlocks(events, event, from, end) = InBlocks(events, event, from, upTo)
  PROVE  FoundSound(events, names, found, ordered, from, end)
<1>1. /\ CreatedIn(events, from, end) = CreatedIn(events, from, upTo)
      /\ RegisteredIn(events, from, end) = RegisteredIn(events, from, upTo)
  BY DEF CreatedIn, RegisteredIn
<1>2. ASSUME NEW p PROVE LastStatus(events, p, from, end) = LastStatus(events, p, from, upTo)
  <2>1. StatusesIn(events, p, from, end) = StatusesIn(events, p, from, upTo)
    BY DEF StatusesIn
  <2> QED
    BY <2>1 DEF LastStatus
<1> QED
  BY <1>1, <1>2 DEF FoundSound, ProvidersSound

LEMMA LoadFolds ==
  ASSUME LogSound, LoadSound, Fold
  PROVE  Still /\ LoadSound' /\ view' = view
<1> DEFINE logs == load.logs
           ordered == load.ordered
           from == load.from
           found == Logs!FoldLeft(Learns, Nothing, logs)
           blocks == {0} \cup {logs[i].block : i \in DOMAIN logs}
           indexed == Logs!Max(blocks)
<1>1. /\ load.stage = "fold" /\ ordered \in BOOLEAN /\ from \in Nat
      /\ load.latest \in 0..height /\ height \in Nat
  BY DEF Fold, LoadSound, LogSound
<1>2. PICK a \in 1..Len(log) + 1, h \in 0..Len(log), upTo \in 0..load.latest :
        /\ Spans(log, logs, ordered, a, h)
        /\ Cut(log, a, h, from, upTo)
  BY <1>1 DEF LoadSound
<1>3. /\ Still /\ view' = view
      /\ load' = [ stage |-> "read", latest |-> load.latest, from |-> from,
                   ordered |-> ordered, found |-> found, indexed |-> indexed,
                   unread |-> DOMAIN found.blobs, failed |-> {}, shown |-> {} ]
  BY DEF Fold, Still, vars, nameVars, providerVars
<1>4. upTo \in Nat /\ upTo <= load.latest /\ load.latest \in Nat
  BY <1>1, <1>2
<1>5. /\ Len(log) \in Nat /\ DOMAIN log = 1..Len(log)
      /\ \A i \in DOMAIN log : log[i].block \in Nat /\ (OfBlob(log[i]) \/ OfProvider(log[i]))
  <2>1. \A i \in DOMAIN log : OfBlob(log[i]) \/ OfProvider(log[i])
    BY DEF LogSound, EventSound
  <2> QED
    BY <2>1, LogOrder
<1> HIDE DEF logs, ordered, from, found
(* The places of the stretch.                                              *)
<1>6. PICK items : logs \in Seq(items)
  BY <1>2 DEF Spans
<1>7. /\ a \in Nat \ {0} /\ h \in Nat /\ h >= a - 1 /\ h <= Len(log)
      /\ Len(logs) = h - a + 1
      /\ \A k \in 1..Len(logs) : logs[k] = log[IF ordered THEN a + k - 1 ELSE h + 1 - k]
  BY <1>2 DEF Spans
<1>8. DOMAIN logs = 1..Len(logs) /\ Len(logs) \in Nat
  BY <1>6
<1>9. ASSUME NEW k \in 1..Len(logs)
      PROVE  \E i \in a..h : i \in DOMAIN log /\ logs[k] = log[i]
  <2> DEFINE i == IF ordered THEN a + k - 1 ELSE h + 1 - k
  <2>1. i \in a..h /\ i \in 1..Len(log)
    BY <1>5, <1>7, <1>8
  <2>2. logs[k] = log[i]
    BY <1>7
  <2> HIDE DEF i
  <2> QED
    BY <1>5, <2>1, <2>2
<1>10. ASSUME NEW i \in a..h PROVE \E k \in 1..Len(logs) : logs[k] = log[i]
  <2>1. CASE ordered
    <3>1. i - a + 1 \in 1..Len(logs) /\ a + (i - a + 1) - 1 = i
      BY <1>7
    <3> QED
      BY <1>7, <2>1, <3>1
  <2>2. CASE ~ordered
    <3>1. h + 1 - i \in 1..Len(logs) /\ h + 1 - (h + 1 - i) = i
      BY <1>7
    <3> QED
      BY <1>7, <2>2, <3>1
  <2> QED
    BY <2>1, <2>2
<1>11. \A k \in 1..Len(logs) : OfBlob(logs[k]) \/ OfProvider(logs[k])
  BY <1>5, <1>9
<1>12. KnownAfter(logs, Len(logs), found)
  BY <1>6, <1>11, FoldKnows DEF found
<1>13. FoundSound(log, blobNames, found, ordered, from, upTo)
  <2>1. from \in Nat /\ ordered \in BOOLEAN
    BY <1>1 DEF from, ordered
  <2> QED
    BY <1>2, <1>4, <1>12, <2>1, StretchTells
(* The last block there is an event of.                                    *)
<1>14. blocks \subseteq 0..upTo /\ blocks # {}
  <2>1. ASSUME NEW k \in DOMAIN logs PROVE logs[k].block \in 0..upTo
    <3>1. PICK i \in a..h : i \in DOMAIN log /\ logs[k] = log[i]
      BY <1>8, <1>9, <2>1
    <3>2. log[i].block \in from..upTo
      BY <1>2, <3>1 DEF Cut
    <3> QED
      BY <1>4, <1>5, <3>1, <3>2
  <2> QED
    BY <1>4, <2>1
<1>15. indexed \in blocks /\ \A y \in blocks : indexed >= y
  <2> HIDE DEF blocks
  <2> QED
    BY <1>4, <1>14, MaxOf
<1>16. indexed \in 0..upTo /\ indexed \in 0..load.latest
  BY <1>4, <1>14, <1>15
<1>17. \A event : InBlocks(log, event, from, indexed) = InBlocks(log, event, from, upTo)
  <2>1. ASSUME NEW i \in DOMAIN log
        PROVE  log[i].block \in from..indexed <=> log[i].block \in from..upTo
    <3>1. ASSUME log[i].block \in from..upTo PROVE log[i].block <= indexed
      <4>1. i \in a..h
        BY <1>2, <3>1 DEF Cut
      <4>2. PICK k \in 1..Len(logs) : logs[k] = log[i]
        BY <1>10, <4>1
      <4>3. log[i].block \in blocks
        BY <1>8, <4>2
      <4> HIDE DEF blocks, indexed
      <4> QED
        BY <1>5, <1>15, <1>16, <4>3
    <3> HIDE DEF indexed
    <3>2. indexed \in Nat /\ indexed <= upTo /\ log[i].block \in Nat
      BY <1>4, <1>5, <1>16
    <3>3. from \in Nat
      BY <1>1 DEF from
    <3> QED
      BY <1>4, <3>1, <3>2, <3>3
  <2> HIDE DEF indexed
  <2> QED
    BY <2>1 DEF InBlocks
<1> HIDE DEF indexed, blocks
<1>18. FoundSound(log, blobNames, found, ordered, from, indexed)
  BY <1>13, <1>17, SameFound
<1>19. /\ load'.stage = "read" /\ load'.latest = load.latest /\ load'.from = from
       /\ load'.ordered = ordered /\ load'.found = found /\ load'.indexed = indexed
       /\ load'.unread = DOMAIN found.blobs /\ load'.failed = {} /\ load'.shown = {}
       /\ load' = [ stage |-> "read", latest |-> load'.latest, from |-> load'.from,
                    ordered |-> load'.ordered, found |-> load'.found,
                    indexed |-> load'.indexed, unread |-> load'.unread,
                    failed |-> load'.failed, shown |-> load'.shown ]
  BY <1>3
<1>21. height' = height /\ log' = log /\ blobs' = blobs /\ blobNames' = blobNames
  BY <1>3 DEF Still
<1>22. /\ from \in Nat /\ ordered \in BOOLEAN /\ load.latest \in 0..height
  BY <1>1 DEF from, ordered
<1>23. {shown.blob : shown \in {}} \cup {} \cup DOMAIN found.blobs = DOMAIN found.blobs
  OBVIOUS
<1>24. FoundSound(log', blobNames', load'.found, load'.ordered, load'.from, load'.indexed)
  BY <1>18, <1>19, <1>21
<1>25. LoadSound'
  BY <1>16, <1>19, <1>21, <1>22, <1>23, <1>24 DEF LoadSound
<1> QED
  BY <1>3, <1>25

(* Whatever the explorer does, and whatever the chain does meanwhile.      *)
Exploring == IInv /\ LogSound /\ LoadSound /\ ViewSound

LEMMA StandsStill ==
  ASSUME LogSound, Still
  PROVE  LogSound'
BY DEF LogSound, Still, EventSound, OfBlob, OfProvider

LEMMA Explores ==
  ASSUME Exploring, ExplorerNext
  PROVE  Exploring'
<1>1. IInv /\ LogSound /\ LoadSound /\ ViewSound
  BY DEF Exploring
<1>2. CASE ChainMoves
  <2>1. /\ LogGrows /\ RegistryKept /\ LogSound' /\ [Next]_vars
        /\ load' = load /\ view' = view
    BY <1>1, <1>2, ChainMovesOn
  <2>2. IInv'
    BY <1>1, <2>1, NextIInv
  <2>3. LoadSound' /\ ViewSound'
    BY <1>1, <2>1, LoadStaysSound, ViewStaysSound
  <2> QED
    BY <2>1, <2>2, <2>3 DEF Exploring
<1>3. CASE ~ChainMoves
  <2>1. UNCHANGED vars
    BY <1>3 DEF ExplorerNext, Begin, Legacy, Page, Fold, ReadBlob, ReadFails, Show, LoadFails
  <2>2. Still /\ LoadSound' /\ (view' = view \/ ViewSound')
    <3>1. CASE Begin
      BY <1>1, <3>1, LoadBegins
    <3>2. ASSUME NEW indexed \in 0..height, Legacy(indexed)
          PROVE  Still /\ LoadSound' /\ view' = view
      BY <1>1, <3>2, LoadAnswered
    <3>3. ASSUME NEW indexed \in 0..height, Page(indexed)
          PROVE  Still /\ LoadSound' /\ view' = view
      BY <1>1, <3>3, LoadTurnsPage
    <3>4. CASE Fold
      BY <1>1, <3>4, LoadFolds
    <3>5. ASSUME NEW b \in Blobs, ReadFails(b)
          PROVE  Still /\ LoadSound' /\ view' = view
      BY <1>1, <3>5, BlobFails
    <3>6. ASSUME NEW b \in Blobs, NEW nameRead \in BOOLEAN, ReadBlob(b, nameRead)
          PROVE  Still /\ LoadSound' /\ view' = view
      BY <1>1, <3>6, BlobRead
    <3>7. CASE Show
      BY <1>1, <3>7, LoadShown
    <3>8. CASE LoadFails
      BY <3>8, LoadGivenUp
    <3> QED
      BY <1>3, <3>1, <3>2, <3>3, <3>4, <3>5, <3>6, <3>7, <3>8 DEF ExplorerNext
  <2>3. IInv'
    BY <1>1, <2>1, NextIInv
  <2>4. LogSound' /\ ViewSound'
    BY <1>1, <2>2, StandsStill, ViewStays
  <2> QED
    BY <2>2, <2>3, <2>4 DEF Exploring
<1> QED
  BY <1>2, <1>3

Explored ==
  /\ ask.about = "explorer" => Exploring
  /\ ask.about # "explorer" => view.stage = "idle"

(* What the explorer shows is the registry between the first block it      *)
(* looked at and the one it says is indexed, however far the service is    *)
(* behind the node, however long the log, the pages and the window are and *)
(* whatever is mined while it reads (explorer.ts:173-231, 261-299 and      *)
(* 328-368).                                                               *)
THEOREM IndexShown == MCSpec => []ExplorerShowsIndex
<1>1. MCInit => Explored
  <2> SUFFICES ASSUME MCInit PROVE Explored
    OBVIOUS
  <2>1. Init /\ height = 0 /\ log = <<>> /\ load = Idle /\ view = Idle
    BY DEF MCInit, ExplorerInit
  <2>2. IInv
    BY <2>1, InitIInv
  <2>3. LogSound
    <3>1. \A b \in Blobs : blobNames[b] = NoName
      BY <2>1 DEF Init
    <3>2. <<>> \in Seq({}) /\ DOMAIN <<>> = {}
      OBVIOUS
    <3> QED
      BY <2>1, <3>1, <3>2 DEF LogSound
  <2>4. LoadSound /\ ViewSound /\ view.stage = "idle"
    BY <2>1 DEF LoadSound, ViewSound, Idle
  <2> QED
    BY <2>2, <2>3, <2>4 DEF Explored, Exploring
<1>2. Explored /\ [MCNext]_allVars => Explored'
  <2> SUFFICES ASSUME Explored, [MCNext]_allVars PROVE Explored'
    OBVIOUS
  <2>1. CASE ask.about = "explorer" /\ ExplorerNext /\ UNCHANGED <<ask, memory>>
    BY <2>1, Explores DEF Explored
  <2>2. CASE ask.about = "memory" /\ MemoryNext /\ UNCHANGED <<ask, explorerVars>>
    BY <2>2 DEF Explored, explorerVars
  <2>3. CASE UNCHANGED allVars
    <3>1. ask' = ask /\ UNCHANGED <<height, log, load, view>> /\ UNCHANGED vars
      BY <2>3 DEF allVars, explorerVars
    <3>2. Still
      BY <3>1 DEF Still, vars, nameVars, providerVars
    <3>3. Exploring => Exploring'
      <4> SUFFICES ASSUME IInv, LogSound, LoadSound, ViewSound
                   PROVE  IInv' /\ LogSound' /\ LoadSound' /\ ViewSound'
        BY DEF Exploring
      <4>1. IInv'
        BY <3>1, NextIInv
      <4>2. LogSound' /\ ViewSound'
        BY <3>1, <3>2, StandsStill, ViewStays
      <4>3. LoadSound'
        BY <3>1, <3>2 DEF LoadSound, Still
      <4> QED
        BY <4>1, <4>2, <4>3
    <3> QED
      BY <3>1, <3>3 DEF Explored
  <2> QED
    BY <2>1, <2>2, <2>3 DEF MCNext
<1>3. Explored => ExplorerShowsIndex
  <2> SUFFICES ASSUME Explored, view.stage = "shown" PROVE ExplorerShowsIndex
    BY DEF ExplorerShowsIndex
  <2>1. ViewSound
    BY DEF Explored, Exploring
  <2> DEFINE Seen(event) == {i \in DOMAIN log :
                 /\ log[i].event = event
                 /\ log[i].block \in view.from..view.indexed}
             StatusOf(p) == {i \in Seen("ProviderStatusChanged") : log[i].provider = p}
  <2>2. \A event : InBlocks(log, event, view.from, view.indexed) = Seen(event)
    BY DEF InBlocks
  <2>3. /\ {shown.blob : shown \in view.blobs} \cup view.failed
             = {log[i].blob : i \in Seen("BlobCreated")}
        /\ DOMAIN view.providers = {log[i].provider : i \in Seen("ProviderRegistered")}
    BY <2>1, <2>2 DEF ViewSound, CreatedIn, ProvidersSound, RegisteredIn
  <2>4. \A shown \in view.blobs :
          /\ shown.owner = blobs[shown.blob].owner
          /\ shown.nameRead \/ view.ordered =>
               shown.name = IF blobNames[shown.blob] = NoName THEN Unnamed
                            ELSE blobNames[shown.blob]
    BY <2>1 DEF ViewSound, ShownSound, NameOf
  <2>5. ASSUME view.ordered, NEW p \in DOMAIN view.providers
        PROVE  view.providers[p] = IF StatusOf(p) = {} THEN TRUE
                                   ELSE log[CHOOSE i \in StatusOf(p) :
                                              \A j \in StatusOf(p) : j <= i].active
    <3>1. view.providers[p] = LastStatus(log, p, view.from, view.indexed)
      BY <2>1, <2>5 DEF ViewSound, ProvidersSound
    <3>2. StatusesIn(log, p, view.from, view.indexed) = StatusOf(p)
      BY <2>2 DEF StatusesIn
    <3> HIDE DEF StatusOf
    <3> QED
      BY <3>1, <3>2 DEF LastStatus
  <2> QED
    BY <2>3, <2>4, <2>5 DEF ExplorerShowsIndex
<1> QED
  BY <1>1, <1>2, <1>3, PTL DEF MCSpec
=============================================================================
