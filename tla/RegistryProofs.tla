--------------------------- MODULE RegistryProofs ---------------------------
(***************************************************************************)
(* Proofs about PrimeServerRegistry, for every value of its constants: any *)
(* number of accounts, blobs, shards, providers and blocks, and any price. *)
(*                                                                         *)
(* None of the safety invariants is inductive on its own.  Solvency needs  *)
(* to know that what a payment has settled never exceeds the pool; that    *)
(* needs the settled amount as a function of the claim markers, and the    *)
(* pool as a multiple of what one shard can be paid; and the markers must  *)
(* lie within the blob's shards.  IInv collects these facts.               *)
(***************************************************************************)
EXTENDS PrimeServerRegistry, FiniteSetTheorems, WellFoundedInduction, TLAPS

-----------------------------------------------------------------------------
(* What Total computes, for every length.  The library's induction rules   *)
(* take a predicate as a parameter, which the provers cannot instantiate;  *)
(* induction is done here through the least element of a set of numbers,   *)
(* which is a statement about sets.                                        *)

(* The body of the recursive function in Total.                            *)
IsPrefixSum(S, f, n) ==
  S = [i \in 0..n |-> IF i = 0 THEN 0 ELSE S[i - 1] + f[i]]

(* Every non-empty set of naturals has a least element.                    *)
LEMMA LeastNat ==
  ASSUME NEW T, T \subseteq Nat, T # {}
  PROVE  \E m \in T : \A k \in T : m <= k
<1> DEFINE R == {ss \in Nat \X Nat : ss[1] < ss[2]}
<1>1. IsWellFoundedOn(R, Nat)
  BY NatLessThanWellFounded DEF OpToRel
<1> HIDE DEF R
<1>2. PICK m \in T : \A k \in T : ~(<<k, m>> \in R)
  BY <1>1, WFMin
<1>3. \A k \in T : ~(k < m)
  BY <1>2 DEF R
<1>4. \A k \in T : m <= k
  BY <1>3
<1> QED
  BY <1>4

(* Two functions that satisfy the same prefix-sum equation are equal.      *)
LEMMA PrefixSumUnique ==
  ASSUME NEW n \in Nat, NEW f, NEW S, NEW U,
         IsPrefixSum(S, f, n), IsPrefixSum(U, f, n)
  PROVE  S[n] = U[n]
<1> DEFINE T == {i \in 0..n : S[i] # U[i]}
<1>1. SUFFICES ASSUME T # {} PROVE FALSE
  BY n \in 0..n
<1>0. T \subseteq Nat
  OBVIOUS
<1> HIDE DEF T
<1>2. PICK m \in T : \A k \in T : m <= k
  BY <1>1, <1>0, LeastNat
<1> USE DEF T
<1>3. m \in 0..n
  BY <1>2
<1>4. /\ S[m] = IF m = 0 THEN 0 ELSE S[m - 1] + f[m]
      /\ U[m] = IF m = 0 THEN 0 ELSE U[m - 1] + f[m]
  BY <1>3 DEF IsPrefixSum
<1>5. m # 0
  BY <1>2, <1>4
<1>6. m - 1 \in 0..n /\ ~(m - 1 \in T)
  BY <1>2, <1>3, <1>5
<1> QED
  BY <1>2, <1>4, <1>5, <1>6

(* Total is the last entry of any function satisfying the equation.        *)
LEMMA TotalIsPrefixSum ==
  ASSUME NEW n \in Nat, NEW f, NEW S, IsPrefixSum(S, f, n)
  PROVE  Total(f, n) = S[n]
<1> DEFINE C == CHOOSE U : U = [i \in 0..n |-> IF i = 0 THEN 0 ELSE U[i - 1] + f[i]]
<1>1. Total(f, n) = C[n]
  BY DEF Total
<1>2. IsPrefixSum(C, f, n)
  BY DEF IsPrefixSum
<1> QED
  BY <1>1, <1>2, PrefixSumUnique

(* A prefix-sum function exists for every sequence over a set of numbers   *)
(* that contains zero and is closed under addition.                        *)
LEMMA PrefixSumExists ==
  ASSUME NEW n \in Nat, NEW D, D \subseteq Int, 0 \in D,
         \A x, y \in D : x + y \in D,
         NEW f \in [1..n -> D]
  PROVE  \E S \in [0..n -> D] : IsPrefixSum(S, f, n)
<1> DEFINE Built(k) == \E S \in [0..k -> D] : IsPrefixSum(S, f, k)
           T == {k \in 0..n : ~Built(k)}
<1>1. SUFFICES ASSUME T # {} PROVE FALSE
  BY n \in 0..n
<1>0. T \subseteq Nat
  OBVIOUS
<1> HIDE DEF T
<1>2. PICK m \in T : \A k \in T : m <= k
  BY <1>1, <1>0, LeastNat
<1> USE DEF T
<1>3. m \in 0..n /\ ~Built(m)
  BY <1>2
<1>4. CASE m = 0
  <2>1. [i \in 0..0 |-> 0] \in [0..0 -> D] /\ IsPrefixSum([i \in 0..0 |-> 0], f, 0)
    BY DEF IsPrefixSum
  <2> QED
    BY <1>3, <1>4, <2>1
<1>5. CASE m # 0
  <2>1. m - 1 \in 0..n /\ Built(m - 1)
    BY <1>2, <1>3, <1>5
  <2>2. PICK S \in [0..(m - 1) -> D] : IsPrefixSum(S, f, m - 1)
    BY <2>1
  <2> DEFINE U == [i \in 0..m |-> IF i = m THEN S[m - 1] + f[m] ELSE S[i]]
  <2>3. U \in [0..m -> D]
    <3>1. m - 1 \in 0..(m - 1) /\ m \in 1..n
      BY <1>3, <1>5
    <3>2. S[m - 1] \in D /\ f[m] \in D /\ S[m - 1] + f[m] \in D
      BY <3>1
    <3>3. \A i \in 0..m : i # m => i \in 0..(m - 1) /\ S[i] \in D
      BY <1>3, <1>5
    <3> QED
      BY <3>2, <3>3
  <2>4. ASSUME NEW i \in 0..m
        PROVE  U[i] = IF i = 0 THEN 0 ELSE U[i - 1] + f[i]
    <3>1. CASE i = m
      BY <1>3, <1>5, <3>1
    <3>2. CASE i # m
      <4>1. i \in 0..(m - 1) /\ U[i] = S[i] /\ (i # 0 => U[i - 1] = S[i - 1])
        BY <1>3, <1>5, <3>2
      <4>2. S[i] = IF i = 0 THEN 0 ELSE S[i - 1] + f[i]
        BY <2>2, <4>1 DEF IsPrefixSum
      <4> QED
        BY <4>1, <4>2
    <3> QED
      BY <3>1, <3>2
  <2>5. IsPrefixSum(U, f, m)
    BY <2>4 DEF IsPrefixSum
  <2> QED
    BY <1>3, <2>3, <2>5
<1> QED
  BY <1>4, <1>5

(* A total of naturals is a natural, and of integers an integer.           *)
LEMMA TotalNat ==
  ASSUME NEW n \in Nat, NEW f \in [1..n -> Nat]
  PROVE  Total(f, n) \in Nat
<1>1. PICK S \in [0..n -> Nat] : IsPrefixSum(S, f, n)
  <2> DEFINE D == Nat
  <2>1. D \subseteq Int /\ 0 \in D /\ (\A x, y \in D : x + y \in D) /\ f \in [1..n -> D]
    OBVIOUS
  <2> HIDE DEF D
  <2>2. \E S \in [0..n -> D] : IsPrefixSum(S, f, n)
    BY <2>1, PrefixSumExists
  <2> QED
    BY <2>2 DEF D
<1> QED
  BY <1>1, TotalIsPrefixSum, n \in 0..n

LEMMA TotalInt ==
  ASSUME NEW n \in Nat, NEW f \in [1..n -> Int]
  PROVE  Total(f, n) \in Int
<1>1. PICK S \in [0..n -> Int] : IsPrefixSum(S, f, n)
  <2> DEFINE D == Int
  <2>1. D \subseteq Int /\ 0 \in D /\ (\A x, y \in D : x + y \in D) /\ f \in [1..n -> D]
    OBVIOUS
  <2> HIDE DEF D
  <2>2. \E S \in [0..n -> D] : IsPrefixSum(S, f, n)
    BY <2>1, PrefixSumExists
  <2> QED
    BY <2>2 DEF D
<1> QED
  BY <1>1, TotalIsPrefixSum, n \in 0..n

(* A total of zeros is zero.                                               *)
LEMMA TotalOfZeros ==
  ASSUME NEW n \in Nat, NEW f, \A i \in 1..n : f[i] = 0
  PROVE  Total(f, n) = 0
<1> DEFINE Z == [i \in 0..n |-> 0]
<1>1. IsPrefixSum(Z, f, n)
  BY DEF IsPrefixSum
<1> QED
  BY <1>1, TotalIsPrefixSum, n \in 0..n

(* Changing one entry changes the total by the same amount.                *)
LEMMA TotalChange ==
  ASSUME NEW n \in Nat, NEW f \in [1..n -> Int], NEW g \in [1..n -> Int],
         NEW b \in 1..n, \A i \in 1..n : i # b => g[i] = f[i]
  PROVE  Total(g, n) = Total(f, n) + (g[b] - f[b])
<1>1. PICK S \in [0..n -> Int] : IsPrefixSum(S, f, n)
  <2> DEFINE D == Int
  <2>1. D \subseteq Int /\ 0 \in D /\ (\A x, y \in D : x + y \in D) /\ f \in [1..n -> D]
    OBVIOUS
  <2> HIDE DEF D
  <2>2. \E S \in [0..n -> D] : IsPrefixSum(S, f, n)
    BY <2>1, PrefixSumExists
  <2> QED
    BY <2>2 DEF D
<1> DEFINE U == [i \in 0..n |-> IF i < b THEN S[i] ELSE S[i] + (g[b] - f[b])]
<1>2. ASSUME NEW i \in 0..n
      PROVE  U[i] = IF i = 0 THEN 0 ELSE U[i - 1] + g[i]
  <2>1. S[i] = IF i = 0 THEN 0 ELSE S[i - 1] + f[i]
    BY <1>1 DEF IsPrefixSum
  <2>2. CASE i < b
    <3>1. U[i] = S[i] /\ (i # 0 => i - 1 \in 0..n /\ i - 1 < b /\ i \in 1..n /\ i # b)
      BY <2>2
    <3>2. i # 0 => U[i - 1] = S[i - 1] /\ g[i] = f[i]
      BY <3>1
    <3> HIDE DEF U
    <3> QED
      BY <2>1, <3>1, <3>2
  <2>3. CASE i = b
    BY <2>1, <2>3
  <2>4. CASE i > b
    <3>1. i \in 1..n /\ i - 1 \in 0..n /\ ~(i < b) /\ ~(i - 1 < b)
      BY <2>4
    <3>2. U[i] = S[i] + (g[b] - f[b]) /\ U[i - 1] = S[i - 1] + (g[b] - f[b])
      BY <3>1
    <3>3. g[i] = f[i] /\ f[i] \in Int /\ S[i - 1] \in Int /\ g[b] \in Int /\ f[b] \in Int
      BY <2>4, <3>1
    <3> HIDE DEF U
    <3> QED
      BY <2>1, <3>1, <3>2, <3>3
  <2> QED
    BY <2>2, <2>3, <2>4
<1>3. IsPrefixSum(U, g, n)
  BY <1>2 DEF IsPrefixSum
<1>4. U[n] = S[n] + (g[b] - f[b])
  OBVIOUS
<1> HIDE DEF U
<1>5. Total(g, n) = U[n] /\ Total(f, n) = S[n]
  BY <1>1, <1>3, TotalIsPrefixSum
<1> QED
  BY <1>4, <1>5
-----------------------------------------------------------------------------
(* The quote splits without remainder, for every size, duration and price. *)

(* Rounding up: the least multiple of b that is not below a.               *)
LEMMA CeilDivBounds ==
  ASSUME NEW a \in Nat, NEW b \in Nat \ {0}
  PROVE  /\ CeilDiv(a, b) \in Nat
         /\ b * CeilDiv(a, b) >= a
         /\ b * CeilDiv(a, b) < a + b
         /\ a > 0 => CeilDiv(a, b) > 0
BY DEF CeilDiv

(* Rounding up basis points.                                               *)
LEMMA CeilBps ==
  ASSUME NEW a \in Nat
  PROVE  /\ CeilDiv(a, BpsDenominator) \in Nat
         /\ a > 0 => CeilDiv(a, BpsDenominator) > 0
BY DEF CeilDiv, BpsDenominator

(* claimProviderSettlement divides the stored pool by totalShards again    *)
(* (line 829) to find the reserve: the division is exact.                  *)
LEMMA PoolDividesEvenly ==
  ASSUME NEW g \in Nat, NEW t \in Nat \ {0}
  PROVE  (g * t) \div t = g
OBVIOUS

(* The product of positive naturals is positive.                           *)
LEMMA PositiveProduct ==
  ASSUME NEW a \in Nat \ {0}, NEW b \in Nat \ {0}
  PROVE  a * b \in Nat \ {0}
OBVIOUS

(* A shard that is paid for earns something.                               *)
LEMMA GrossPositive ==
  ASSUME NEW size \in Nat \ {0}, NEW mode \in StorageModes,
         NEW seconds \in Nat \ {0}, NEW rate \in Nat \ {0}
  PROVE  GrossRewardPerShard(size, mode, seconds, rate) \in Nat \ {0}
<1>1. CeilDiv(size, QuoteMibBytes) \in Nat \ {0}
  BY CeilDivBounds DEF QuoteMibBytes
<1>2. CeilDiv(seconds, QuoteDaySeconds) \in Nat \ {0}
  BY CeilDivBounds DEF QuoteDaySeconds
<1>3. ModeMultiplierBps(mode) \in Nat \ {0}
  BY DEF ModeMultiplierBps, StorageModes
<1> DEFINE scaled == CeilDiv(size, QuoteMibBytes) * rate * ModeMultiplierBps(mode)
                       * CeilDiv(seconds, QuoteDaySeconds)
<1>4. scaled \in Nat \ {0}
  BY <1>1, <1>2, <1>3, PositiveProduct
<1>5. GrossRewardPerShard(size, mode, seconds, rate) = CeilDiv(scaled, BpsDenominator)
  BY DEF GrossRewardPerShard
<1> HIDE DEF scaled
<1> QED
  BY <1>4, <1>5, CeilBps

(* At least a tenth of the gross reward, and never more than all of it, is *)
(* held back.                                                              *)
LEMMA ReserveBounds ==
  ASSUME NEW gross \in Nat \ {0}
  PROVE  /\ ReservePerShard(gross) \in 1..gross
         /\ 10 * ReservePerShard(gross) >= gross
BY CeilDivBounds DEF ReservePerShard, ProviderReserveBps, BpsDenominator, CeilDiv

(* The quote of quoteNativePayment splits evenly, whatever is registered.  *)
THEOREM QuoteSplits ==
  ASSUME NEW size \in Nat \ {0}, NEW shards \in Nat \ {0},
         NEW mode \in StorageModes, NEW seconds \in Nat \ {0},
         NEW price, price.rate \in Nat \ {0}, price.feeBps \in Nat
  PROVE  SplitsEvenly(QuoteNativePayment(size, shards, mode, seconds, price), shards)
<1> DEFINE gross == GrossRewardPerShard(size, mode, seconds, price.rate)
           q == QuoteNativePayment(size, shards, mode, seconds, price)
<1>1. gross \in Nat \ {0}
  BY GrossPositive
<1>2. /\ q.providerPool = gross * shards
      /\ q.protocolFee = ProtocolFee(gross * shards, price.feeBps)
      /\ q.total = q.providerPool + q.protocolFee
      /\ q.providerRewardPerShard = gross - ReservePerShard(gross)
  BY DEF QuoteNativePayment
<1> HIDE DEF gross, q
<1>3. gross * shards \in Nat /\ (gross * shards) * price.feeBps \in Nat
  BY <1>1
<1>4. ProtocolFee(gross * shards, price.feeBps) \in Nat
  <2> DEFINE bps == (gross * shards) * price.feeBps
  <2>1. bps \in Nat
    BY <1>3
  <2>2. ProtocolFee(gross * shards, price.feeBps) = CeilDiv(bps, BpsDenominator)
    BY DEF ProtocolFee
  <2> HIDE DEF bps
  <2> QED
    BY <2>1, <2>2, CeilBps
<1>5. (gross * shards) \div shards = gross
  BY <1>1, PoolDividesEvenly
<1>6. /\ ReservePerShard(gross) \in 1..gross
      /\ 10 * ReservePerShard(gross) >= gross
  BY <1>1, ReserveBounds
<1>7. q.providerPool \div shards - q.providerRewardPerShard = ReservePerShard(gross)
  BY <1>1, <1>2, <1>5, <1>6
<1>8. q.providerRewardPerShard + ReservePerShard(gross) = gross
  BY <1>1, <1>2, <1>6
<1>9. q.total \in Nat
  BY <1>2, <1>3, <1>4
<1>10. SplitsEvenly(q, shards)
  BY <1>1, <1>2, <1>3, <1>4, <1>6, <1>7, <1>8, <1>9 DEF SplitsEvenly
<1> QED
  BY <1>10 DEF q
-----------------------------------------------------------------------------
(* The inductive invariant.                                                *)

(* TypeOK without the balance, whose sign follows from solvency.           *)
Typed ==
  /\ now \in Timestamps
  /\ coordinators \subseteq Accounts
  /\ IsPricing(pricing)
  /\ withdrawableProtocolFees \in Nat
  /\ nextProviderId \in 1..(MaxProviders + 1)
  /\ providers \in [ProviderIds -> [operator : Accounts \cup {NoAccount},
                                    active : BOOLEAN]]
  /\ providerIdByOperator \in [Accounts -> {NoProvider} \cup ProviderIds]
  /\ blobs \in [Blobs -> BlobRecords]
  /\ blobNames \in [Blobs -> NameChoices]
  /\ blobIdByOwnerName \in [Accounts -> [Names -> {NoBlob} \cup Blobs]]
  /\ blobPolicies \in [Blobs -> [storageMode : StorageModes,
                                 accessPolicy : AccessPolicies]]
  /\ blobPayments \in [Blobs -> PaymentRecords]
  /\ placement \in [Blobs -> [Shards -> {NoProvider} \cup ProviderIds]]
  /\ acknowledgements \in [Blobs -> SUBSET (ProviderIds \X Shards)]
  /\ providerSettlementClaimed \in [Blobs -> SUBSET Shards]
  /\ providerReserveClaimed \in [Blobs -> SUBSET Shards]

(* An id nobody registered carries no payment, mark or shard.              *)
Blank(b) ==
  ~blobs[b].exists =>
    /\ blobs[b].status = "Pending"
    /\ blobPayments[b] = NoPayment
    /\ providerSettlementClaimed[b] = {}
    /\ providerReserveClaimed[b] = {}
    /\ acknowledgements[b] = {}
    /\ \A s \in Shards : placement[b][s] = NoProvider

(* The terms of a payment: a positive reserve of at least a tenth, a pool  *)
(* that pays every shard its reward and its reserve, a total that adds the *)
(* fee.                                                                    *)
SoundTerms(b) ==
  blobPayments[b].status # "None" =>
    /\ blobs[b].exists
    /\ blobs[b].totalShards \in Nat \ {0}
    /\ ReserveOf(b) \in Nat \ {0}
    /\ blobPayments[b].providerPool =
         (blobPayments[b].providerRewardPerShard + ReserveOf(b))
           * blobs[b].totalShards
    /\ blobPayments[b].totalPaid =
         blobPayments[b].providerPool + blobPayments[b].protocolFee
    /\ 10 * ReserveOf(b) >=
         blobPayments[b].providerRewardPerShard + ReserveOf(b)

(* Markers lie within the blob's shards, a reserve is never marked before  *)
(* the reward nor before the expiry, and nothing is marked or settled      *)
(* unless claims were opened.                                              *)
SoundMarkers(b) ==
  /\ providerReserveClaimed[b] \subseteq providerSettlementClaimed[b]
  /\ providerSettlementClaimed[b] \subseteq ShardsOf(b)
  /\ now < blobs[b].expiresAt => providerReserveClaimed[b] = {}
  /\ blobPayments[b].status \in {"None", "Escrowed", "Claimable", "Refunded"} =>
       /\ providerSettlementClaimed[b] = {}
       /\ blobPayments[b].providerSettled = 0

(* What is settled, as a function of the markers.                          *)
SettledByMarkers(b) ==
  blobPayments[b].status # "None" =>
    blobPayments[b].providerSettled =
      blobPayments[b].providerRewardPerShard
          * Cardinality(providerSettlementClaimed[b])
        + ReserveOf(b) * Cardinality(providerReserveClaimed[b])

(* Once settled, all is paid; until then some reserve is outstanding.      *)
SettledWhenAllPaid(b) ==
  blobPayments[b].status # "None" =>
    (blobPayments[b].status = "Settled" <=> providerReserveClaimed[b] = ShardsOf(b))

MoneyInv(b) ==
  /\ SoundTerms(b)
  /\ SoundMarkers(b)
  /\ SettledByMarkers(b)
  /\ SettledWhenAllPaid(b)

AckedShards(b) == {s \in ShardsOf(b) : <<placement[b][s], s>> \in acknowledgements[b]}

(* Ids from nextProviderId on are unregistered, and no shard is placed     *)
(* with one.                                                               *)
ProvidersKnown ==
  /\ \A p \in ProviderIds : p >= nextProviderId => providers[p] = UnregisteredProvider
  /\ \A b \in Blobs, s \in Shards : placement[b][s] < nextProviderId

(* While a blob is pending its acknowledgements are all current and the    *)
(* counter counts them; afterwards every shard is placed and acknowledged. *)
Acknowledged(b) ==
  /\ blobs[b].status = "Pending" =>
       /\ \A p \in ProviderIds, s \in Shards :
            <<p, s>> \in acknowledgements[b] => placement[b][s] = p
       /\ blobs[b].acknowledgementCount = Cardinality(AckedShards(b))
  /\ blobs[b].status = "Active" => AckedShards(b) = ShardsOf(b)
  /\ blobs[b].status # "Pending" =>
       \A s \in ShardsOf(b) :
         /\ placement[b][s] # NoProvider
         /\ \E p \in ProviderIds : <<p, s>> \in acknowledgements[b]

IInv ==
  /\ Typed
  /\ \A b \in Blobs : Blank(b) /\ MoneyInv(b)
  /\ ProvidersKnown
  /\ \A b \in Blobs : Acknowledged(b)
  /\ Solvent
-----------------------------------------------------------------------------
(* Arithmetic of a shard's two payments.                                   *)

(* r is the reward and k the reserve of a shard, t the number of shards, c *)
(* and d the numbers of rewards and reserves paid.                         *)
LEMMA PaidWithinPool ==
  ASSUME NEW r \in Nat, NEW k \in Nat \ {0}, NEW t \in Nat,
         NEW c \in 0..t, NEW d \in 0..t
  PROVE  /\ r * c + k * d \in Nat
         /\ r * c + k * d <= (r + k) * t
         /\ r * c + k * d = (r + k) * t => d = t
         /\ c = t /\ d = t => r * c + k * d = (r + k) * t
         /\ d = 0 => (r + k) * t - (r * c + k * d) >= k * t
<1>1. r * c \in Nat /\ k * d \in Nat /\ r * t \in Nat /\ k * t \in Nat
  OBVIOUS
<1>2. r * c <= r * t /\ k * d <= k * t
  <2>1. r * (t - c) \in Nat /\ k * (t - d) \in Nat
    OBVIOUS
  <2>2. r * (t - c) = r * t - r * c /\ k * (t - d) = k * t - k * d
    OBVIOUS
  <2> QED
    BY <1>1, <2>1, <2>2
<1>3. (r + k) * t = r * t + k * t
  OBVIOUS
<1>4. k * d = k * t => d = t
  OBVIOUS
<1>5. d = 0 => k * d = 0
  OBVIOUS
<1> QED
  BY <1>1, <1>2, <1>3, <1>4, <1>5

(* Adding to a set what it lacks adds up.                                  *)
LEMMA CardinalityOfGrowth ==
  ASSUME NEW A, NEW B, IsFiniteSet(A), IsFiniteSet(B)
  PROVE  /\ IsFiniteSet(A \cup (B \ A))
         /\ Cardinality(A) \in Nat
         /\ Cardinality(B \ A) \in Nat
         /\ Cardinality(A \cup (B \ A)) = Cardinality(A) + Cardinality(B \ A)
<1>1. IsFiniteSet(B \ A)
  BY FS_Subset, B \ A \in SUBSET B
<1>2. A \cap (B \ A) = {}
  OBVIOUS
<1>3. Cardinality(A \cap (B \ A)) = 0
  BY <1>2, FS_EmptySet
<1>4. Cardinality(A) \in Nat /\ Cardinality(B \ A) \in Nat
  BY <1>1, FS_CardinalityType
<1>5. /\ IsFiniteSet(A \cup (B \ A))
      /\ Cardinality(A \cup (B \ A)) =
           Cardinality(A) + Cardinality(B \ A) - Cardinality(A \cap (B \ A))
  BY <1>1, FS_Union
<1> QED
  BY <1>3, <1>4, <1>5

(* A blob's shards are counted by totalShards.                             *)
LEMMA ShardsFinite ==
  ASSUME Typed, NEW b \in Blobs
  PROVE  /\ IsFiniteSet(Shards)
         /\ IsFiniteSet(ShardsOf(b))
         /\ blobs[b].totalShards \in Nat
         /\ Cardinality(ShardsOf(b)) = blobs[b].totalShards
<1>1. blobs[b].totalShards \in 0..MaxShards
  BY DEF Typed, BlobRecords
<1>2. ShardsOf(b) = 0..(blobs[b].totalShards - 1)
  BY <1>1, BoundsAssumption DEF ShardsOf, Shards
<1>3. 0 \in Int /\ blobs[b].totalShards - 1 \in Int /\ MaxShards - 1 \in Int
  BY <1>1, BoundsAssumption
<1>4. /\ IsFiniteSet(0..(blobs[b].totalShards - 1))
      /\ Cardinality(0..(blobs[b].totalShards - 1)) =
           IF 0 > blobs[b].totalShards - 1 THEN 0 ELSE blobs[b].totalShards - 1 - 0 + 1
  BY <1>3, FS_Interval
<1>5. IsFiniteSet(Shards)
  BY <1>3, FS_Interval DEF Shards
<1>6. Cardinality(ShardsOf(b)) = blobs[b].totalShards
  BY <1>1, <1>2, <1>4
<1> QED
  BY <1>1, <1>2, <1>4, <1>5, <1>6

-----------------------------------------------------------------------------
(* Steps.                                                                  *)

(* The quote of a registration that passes createBlobPaid's checks.        *)
Quote(n, e, policy, size) ==
  QuoteNativePayment(size, n, policy.storageMode, e - now, pricing)

(* It splits evenly.                                                       *)
LEMMA RegistrationQuote ==
  ASSUME Typed, NEW n \in ShardCounts, NEW e \in Expiries, e > now,
         NEW policy \in Policies, NEW size \in Sizes
  PROVE  SplitsEvenly(Quote(n, e, policy, size), n)
<1>1. /\ size \in Nat \ {0} /\ n \in Nat \ {0} /\ policy.storageMode \in StorageModes
      /\ e - now \in Nat \ {0} /\ pricing.rate \in Nat \ {0} /\ pricing.feeBps \in Nat
  BY BoundsAssumption, DataAssumption
     DEF Typed, ShardCounts, Expiries, IsPricing, NoExpiry
<1> QED
  BY <1>1, QuoteSplits DEF Quote

(* Updates of one field keep the record types.                             *)
LEMMA BlobFieldUpdate ==
  ASSUME NEW f \in [Blobs -> BlobRecords], NEW b \in Blobs
  PROVE  /\ \A st \in BlobStatuses :
              [f EXCEPT ![b].status = st] \in [Blobs -> BlobRecords]
         /\ [f EXCEPT ![b].acknowledgementCount = @ + 1] \in [Blobs -> BlobRecords]
<1>1. f[b] \in BlobRecords
  OBVIOUS
<1>2. ASSUME NEW st \in BlobStatuses
      PROVE  [f[b] EXCEPT !.status = st] \in BlobRecords
  BY <1>1 DEF BlobRecords
<1>3. [f[b] EXCEPT !.acknowledgementCount = @ + 1] \in BlobRecords
  BY <1>1 DEF BlobRecords
<1> QED
  BY <1>2, <1>3

(* The same for payments.                                                 *)
LEMMA PaymentFieldUpdate ==
  ASSUME NEW f \in [Blobs -> PaymentRecords], NEW b \in Blobs,
         NEW st \in PaymentStatuses
  PROVE  /\ [f EXCEPT ![b].status = st] \in [Blobs -> PaymentRecords]
         /\ \A v \in Nat :
              [f EXCEPT ![b] = [@ EXCEPT !.providerSettled = v, !.status = st]]
                \in [Blobs -> PaymentRecords]
<1>1. f[b] \in PaymentRecords
  OBVIOUS
<1>2. [f[b] EXCEPT !.status = st] \in PaymentRecords
  BY <1>1 DEF PaymentRecords
<1>3. ASSUME NEW v \in Nat
      PROVE  [f[b] EXCEPT !.providerSettled = v, !.status = st] \in PaymentRecords
  BY <1>1 DEF PaymentRecords
<1> QED
  BY <1>2, <1>3

(* What a claim does to the ledger of its blob: the markers grow within    *)
(* the blob's shards, the settled amount follows them, stays within the    *)
(* pool, and reaches the pool exactly when no reserve is left unpaid.      *)
LEMMA ClaimEffect ==
  ASSUME Typed, NEW b \in Blobs, MoneyInv(b), NEW sender \in Operators,
         NEW claimed \in SUBSET Shards, ClaimProviderSettlement(sender, b, claimed)
  PROVE  LET c == providerSettlementClaimed'[b]
             d == providerReserveClaimed'[b]
             settled == blobPayments'[b].providerSettled
             pool == blobPayments[b].providerPool
         IN  /\ settled \in Nat
             /\ settled <= pool
             /\ blobPayments[b].providerSettled <= settled
             /\ balance' = balance - (settled - blobPayments[b].providerSettled)
             /\ settled = blobPayments[b].providerRewardPerShard * Cardinality(c)
                            + ReserveOf(b) * Cardinality(d)
             /\ d \subseteq c /\ c \subseteq ShardsOf(b)
             /\ now < blobs[b].expiresAt => d = {}
             /\ settled = pool <=> d = ShardsOf(b)
             /\ providerSettlementClaimed[b] \subseteq c
             /\ providerReserveClaimed[b] \subseteq d
             /\ blobPayments' = [blobPayments EXCEPT ![b] =
                  [@ EXCEPT !.providerSettled = settled,
                            !.status = IF settled = pool THEN "Settled"
                                                         ELSE "PartiallySettled"]]
             /\ withdrawableProtocolFees' =
                  withdrawableProtocolFees
                    + (IF settled = pool THEN blobPayments[b].protocolFee ELSE 0)
<1> DEFINE C == providerSettlementClaimed[b]
           D == providerReserveClaimed[b]
           newC == claimed \ C
           newD == IF now >= blobs[b].expiresAt THEN claimed \ D ELSE {}
           r == blobPayments[b].providerRewardPerShard
           k == ReserveOf(b)
           t == blobs[b].totalShards
           pool == blobPayments[b].providerPool
           before == blobPayments[b].providerSettled
           amount == r * Cardinality(newC) + k * Cardinality(newD)
<1>1. /\ blobPayments[b].status \in {"Claimable", "PartiallySettled"}
      /\ \A s \in claimed : s < t
      /\ amount > 0
      /\ providerSettlementClaimed' = [providerSettlementClaimed EXCEPT ![b] = @ \cup newC]
      /\ providerReserveClaimed' = [providerReserveClaimed EXCEPT ![b] = @ \cup newD]
      /\ blobPayments' = [blobPayments EXCEPT ![b] =
           [@ EXCEPT !.providerSettled = before + amount,
                     !.status = IF before + amount = pool THEN "Settled"
                                                          ELSE "PartiallySettled"]]
      /\ withdrawableProtocolFees' =
           withdrawableProtocolFees
             + (IF before + amount = pool THEN blobPayments[b].protocolFee ELSE 0)
      /\ balance' = balance - amount
  BY DEF ClaimProviderSettlement, MayClaimSettlement, ClaimAmount, NewRewards,
         NewReserves, FeeReleased
<1>2. C \in SUBSET Shards /\ D \in SUBSET Shards /\ blobPayments[b] \in PaymentRecords
  BY DEF Typed
<1>3. /\ r \in Nat /\ pool \in Nat /\ before \in Nat /\ t \in Nat \ {0} /\ k \in Nat \ {0}
      /\ pool = (r + k) * t
      /\ before = r * Cardinality(C) + k * Cardinality(D)
      /\ D \subseteq C /\ C \subseteq ShardsOf(b)
      /\ now < blobs[b].expiresAt => D = {}
  BY <1>1, <1>2 DEF MoneyInv, SoundTerms, SoundMarkers, SettledByMarkers, PaymentRecords
<1>4. IsFiniteSet(ShardsOf(b)) /\ Cardinality(ShardsOf(b)) = t
  BY ShardsFinite
<1>5. claimed \subseteq ShardsOf(b)
  BY <1>1 DEF ShardsOf
<1>6. /\ providerSettlementClaimed'[b] = C \cup newC
      /\ providerReserveClaimed'[b] = D \cup newD
      /\ blobPayments'[b].providerSettled = before + amount
  BY <1>1, <1>2 DEF Typed, PaymentRecords
<1>7. /\ D \cup newD \subseteq C \cup newC
      /\ C \cup newC \subseteq ShardsOf(b)
      /\ D \cup newD \subseteq ShardsOf(b)
  BY <1>3, <1>5
<1>8. now \in Nat /\ blobs[b].expiresAt \in Nat
  <2>1. blobs[b] \in BlobRecords /\ now \in Timestamps
    BY DEF Typed
  <2>2. Expiries \subseteq Nat /\ Timestamps \subseteq Nat
    BY DataAssumption DEF Expiries, NoExpiry
  <2> QED
    BY <2>1, <2>2 DEF BlobRecords
<1>9. now < blobs[b].expiresAt => D \cup newD = {}
  BY <1>3, <1>8
<1>10. IsFiniteSet(C) /\ IsFiniteSet(D) /\ IsFiniteSet(claimed)
  BY <1>3, <1>4, <1>5, FS_Subset
<1>11. /\ Cardinality(C) \in Nat /\ Cardinality(newC) \in Nat
       /\ Cardinality(C \cup newC) = Cardinality(C) + Cardinality(newC)
  BY <1>10, CardinalityOfGrowth
<1>12. /\ Cardinality(D) \in Nat /\ Cardinality(newD) \in Nat
       /\ Cardinality(D \cup newD) = Cardinality(D) + Cardinality(newD)
  <2>1. CASE now >= blobs[b].expiresAt
    BY <1>10, <2>1, CardinalityOfGrowth
  <2>2. CASE ~(now >= blobs[b].expiresAt)
    <3>1. newD = {} /\ D \cup newD = D
      BY <2>2
    <3>2. Cardinality(newD) = 0 /\ Cardinality(D) \in Nat
      BY <1>10, <3>1, FS_EmptySet, FS_CardinalityType
    <3> HIDE DEF newD
    <3> QED
      BY <3>1, <3>2
  <2> QED
    BY <2>1, <2>2
<1>13. Cardinality(C \cup newC) \in 0..t /\ Cardinality(D \cup newD) \in 0..t
  <2>1. Cardinality(C \cup newC) <= t /\ Cardinality(D \cup newD) <= t
    BY <1>4, <1>7, FS_Subset
  <2> QED
    BY <1>3, <1>11, <1>12, <2>1
<1> DEFINE cc == Cardinality(C \cup newC)
           dd == Cardinality(D \cup newD)
<1>14. before + amount = r * cc + k * dd
  <2> DEFINE c0 == Cardinality(C)
             c1 == Cardinality(newC)
             d0 == Cardinality(D)
             d1 == Cardinality(newD)
  <2>1. c0 \in Nat /\ c1 \in Nat /\ d0 \in Nat /\ d1 \in Nat /\ cc = c0 + c1 /\ dd = d0 + d1
    BY <1>11, <1>12
  <2>2. before = r * c0 + k * d0 /\ amount = r * c1 + k * d1
    BY <1>3
  <2> HIDE DEF c0, c1, d0, d1, cc, dd, r, k, before, amount
  <2> QED
    BY <1>3, <2>1, <2>2
<1>15. /\ r * cc + k * dd \in Nat
       /\ r * cc + k * dd <= pool
       /\ r * cc + k * dd = pool => dd = t
       /\ cc = t /\ dd = t => r * cc + k * dd = pool
  <2>1. cc \in 0..t /\ dd \in 0..t
    BY <1>13
  <2>2. r \in Nat /\ k \in Nat \ {0} /\ t \in Nat /\ pool = (r + k) * t
    BY <1>3
  <2> HIDE DEF r, k, t, pool, cc, dd
  <2>3. /\ r * cc + k * dd \in Nat
        /\ r * cc + k * dd <= (r + k) * t
        /\ r * cc + k * dd = (r + k) * t => dd = t
        /\ cc = t /\ dd = t => r * cc + k * dd = (r + k) * t
    BY <2>1, <2>2, PaidWithinPool
  <2> QED
    BY <2>2, <2>3
<1>16. dd = t => D \cup newD = ShardsOf(b)
  BY <1>4, <1>7, FS_Subset
<1>17. D \cup newD = ShardsOf(b) => cc = t /\ dd = t
  <2> SUFFICES ASSUME D \cup newD = ShardsOf(b) PROVE cc = t /\ dd = t
    OBVIOUS
  <2>1. C \cup newC = ShardsOf(b)
    BY <1>7
  <2> QED
    BY <1>4, <2>1
<1>18. amount \in Int
  BY <1>3, <1>11, <1>12
<1> HIDE DEF C, D, newC, newD, r, k, t, pool, before, amount, cc, dd
<1>19. before + amount = pool <=> D \cup newD = ShardsOf(b)
  BY <1>14, <1>15, <1>16, <1>17
<1>20. before <= before + amount /\ (before + amount) - before = amount
  BY <1>1, <1>3, <1>18
<1> DEFINE after == before + amount
<1>21. /\ after \in Nat /\ after <= pool /\ before <= after
       /\ balance' = balance - (after - before)
       /\ after = r * Cardinality(C \cup newC) + k * Cardinality(D \cup newD)
       /\ after = pool <=> D \cup newD = ShardsOf(b)
  <2>1. after = r * cc + k * dd
    BY <1>14
  <2>2. after \in Nat /\ after <= pool /\ before <= after
    BY <1>15, <1>20, <2>1
  <2>3. after - before = amount
    BY <1>20
  <2>4. balance' = balance - (after - before)
    BY <1>1, <2>3
  <2> QED
    BY <1>19, <2>1, <2>2, <2>4 DEF cc, dd
<1>22. /\ blobPayments' = [blobPayments EXCEPT ![b] =
            [@ EXCEPT !.providerSettled = after,
                      !.status = IF after = pool THEN "Settled" ELSE "PartiallySettled"]]
       /\ withdrawableProtocolFees' =
            withdrawableProtocolFees
              + (IF after = pool THEN blobPayments[b].protocolFee ELSE 0)
       /\ blobPayments'[b].providerSettled = after
  BY <1>1, <1>6
<1>23. C \subseteq C \cup newC /\ D \subseteq D \cup newD
  OBVIOUS
<1> HIDE DEF after
<1> QED
  BY <1>6, <1>7, <1>9, <1>21, <1>22, <1>23 DEF C, D, r, k, pool, before

(* Every step preserves the types.                                         *)
LEMMA TypedStep ==
  ASSUME Typed, \A b \in Blobs : MoneyInv(b), [Next]_vars
  PROVE  Typed'
<1> USE AccountsAssumption
        DEF Typed, adminVars, providerVars, nameVars, claimVars, moneyVars, storageVars
<1>1. ASSUME NEW c \in Delegates, NEW allowed \in BOOLEAN, SetCoordinator(c, allowed)
      PROVE  Typed'
  BY <1>1 DEF SetCoordinator
<1>2. ASSUME NEW p \in Pricings, SetNativePricing(p)
      PROVE  Typed'
  BY <1>2 DEF SetNativePricing
<1>3. ASSUME NEW amount \in 1..withdrawableProtocolFees, WithdrawProtocolFees(amount)
      PROVE  Typed'
  BY <1>3 DEF WithdrawProtocolFees
<1>4. ASSUME NEW sender \in Operators, RegisterProvider(sender)
      PROVE  Typed'
  BY <1>4, BoundsAssumption DEF RegisterProvider, MayRegisterProvider,
                                ProviderIds
<1>5. ASSUME NEW sender \in Operators, NEW p \in ProviderIds, NEW active \in BOOLEAN,
             SetProviderStatus(sender, p, active)
      PROVE  Typed'
  BY <1>5 DEF SetProviderStatus
<1>6. ASSUME NEW sender \in Operators, NEW b \in Blobs, NEW s \in Shards,
             AcknowledgeShard(sender, b, s)
      PROVE  Typed'
  <2>1. blobs' \in [Blobs -> BlobRecords]
    BY <1>6, BlobFieldUpdate DEF AcknowledgeShard
  <2>2. acknowledgements' \in [Blobs -> SUBSET (ProviderIds \X Shards)]
    BY <1>6 DEF AcknowledgeShard, MayAcknowledgeShard, ProviderActive
  <2> QED
    BY <1>6, <2>1, <2>2 DEF AcknowledgeShard
<1>7. ASSUME NEW sender \in Operators, NEW b \in Blobs, NEW claimed \in SUBSET Shards,
             ClaimProviderSettlement(sender, b, claimed)
      PROVE  Typed'
  <2>1. /\ blobPayments'[b].providerSettled \in Nat
        /\ \E st \in {"Settled", "PartiallySettled"} :
             blobPayments' = [blobPayments EXCEPT ![b] =
               [@ EXCEPT !.providerSettled = blobPayments'[b].providerSettled,
                         !.status = st]]
    <3> HIDE DEF Typed
    <3> QED
      BY <1>7, ClaimEffect
  <2>2. blobPayments' \in [Blobs -> PaymentRecords]
    <3>1. PICK st \in {"Settled", "PartiallySettled"} :
             blobPayments' = [blobPayments EXCEPT ![b] =
               [@ EXCEPT !.providerSettled = blobPayments'[b].providerSettled,
                         !.status = st]]
      BY <2>1
    <3>2. st \in PaymentStatuses
      BY DEF PaymentStatuses
    <3>3. blobPayments \in [Blobs -> PaymentRecords]
      OBVIOUS
    <3> HIDE DEF Typed
    <3> DEFINE v == blobPayments'[b].providerSettled
    <3>4. blobPayments' = [blobPayments EXCEPT ![b] =
               [@ EXCEPT !.providerSettled = v, !.status = st]] /\ v \in Nat
      BY <2>1, <3>1
    <3> HIDE DEF v
    <3> QED
      BY <3>2, <3>3, <3>4, PaymentFieldUpdate
  <2>3. withdrawableProtocolFees' \in Nat
    BY <1>7 DEF ClaimProviderSettlement, FeeReleased, PaymentRecords
  <2>4. /\ providerSettlementClaimed' \in [Blobs -> SUBSET Shards]
        /\ providerReserveClaimed' \in [Blobs -> SUBSET Shards]
    BY <1>7 DEF ClaimProviderSettlement, NewRewards, NewReserves
  <2> QED
    BY <1>7, <2>2, <2>3, <2>4 DEF ClaimProviderSettlement
<1>8. ASSUME NEW owner \in Accounts, NEW b \in Blobs, NEW name \in NameChoices,
             NEW n \in ShardCounts, NEW e \in Expiries, NEW origin \in BlobOrigins,
             CreateBlobRecord(owner, b, name, n, e, origin)
      PROVE  /\ blobs' \in [Blobs -> BlobRecords]
             /\ blobNames' \in [Blobs -> NameChoices]
             /\ blobIdByOwnerName' \in [Accounts -> [Names -> {NoBlob} \cup Blobs]]
  <2>1. blobs' \in [Blobs -> BlobRecords]
    BY <1>8 DEF CreateBlobRecord, BlobRecords, ShardCounts, BlobStatuses
  <2>2. CASE name \in Names
    <3>1. /\ blobNames' = [blobNames EXCEPT ![b] = name]
          /\ blobIdByOwnerName' = [blobIdByOwnerName EXCEPT ![owner][name] = b]
      BY <1>8, <2>2 DEF CreateBlobRecord
    <3> QED
      BY <2>1, <2>2, <3>1
  <2>3. CASE name \notin Names
    BY <1>8, <2>1, <2>3 DEF CreateBlobRecord
  <2> QED
    BY <2>2, <2>3
<1>9. ASSUME NEW sender \in Accounts, NEW b \in Blobs, NEW name \in NameChoices,
             NEW n \in ShardCounts, NEW e \in Expiries
      PROVE  (CreateBlob(sender, b, name, n, e)
                \/ CreateOperatorBlob(sender, b, name, n, e)) => Typed'
  BY <1>8 DEF CreateBlob, CreateOperatorBlob, BlobOrigins
<1>10. ASSUME NEW sender \in Accounts, NEW b \in Blobs, NEW name \in NameChoices,
              NEW n \in ShardCounts, NEW e \in Expiries, NEW policy \in Policies,
              NEW size \in Sizes, NEW tender \in Tenders,
              CreateBlobPaid(sender, b, name, n, e, policy, size, tender)
       PROVE  Typed'
  <2>1. SplitsEvenly(Quote(n, e, policy, size), n)
    BY <1>10, RegistrationQuote DEF CreateBlobPaid
  <2>2. blobPayments' \in [Blobs -> PaymentRecords]
    BY <1>10, <2>1 DEF CreateBlobPaid, Quote, SplitsEvenly, PaymentRecords,
                       PaymentStatuses
  <2>3. CreateBlobRecord(sender, b, name, n, e, "User") /\ "User" \in BlobOrigins
    BY <1>10 DEF CreateBlobPaid, BlobOrigins
  <2>4. /\ blobs' \in [Blobs -> BlobRecords]
        /\ blobNames' \in [Blobs -> NameChoices]
        /\ blobIdByOwnerName' \in [Accounts -> [Names -> {NoBlob} \cup Blobs]]
    BY <1>8, <2>3
  <2>5. blobPolicies' \in [Blobs -> [storageMode : StorageModes,
                                     accessPolicy : AccessPolicies]]
    BY <1>10, DataAssumption DEF CreateBlobPaid
  <2>6. UNCHANGED <<now, adminVars, providerVars, storageVars,
                    withdrawableProtocolFees, claimVars>>
    BY <1>10 DEF CreateBlobPaid
  <2> QED
    BY <2>2, <2>4, <2>5, <2>6
<1>11. ASSUME NEW sender \in Accounts, NEW b \in Blobs, FinalizeBlob(sender, b)
       PROVE  Typed'
  <2>1. blobs' \in [Blobs -> BlobRecords]
    BY <1>11, BlobFieldUpdate DEF FinalizeBlob, BlobStatuses
  <2>2. blobPayments' \in [Blobs -> PaymentRecords]
    BY <1>11, PaymentFieldUpdate DEF FinalizeBlob, PaymentStatuses
  <2> QED
    BY <1>11, <2>1, <2>2 DEF FinalizeBlob
<1>12. ASSUME NEW sender \in Accounts, NEW b \in Blobs, RefundPaidBlob(sender, b)
       PROVE  Typed'
  <2>1. blobPayments' \in [Blobs -> PaymentRecords]
    BY <1>12, PaymentFieldUpdate DEF RefundPaidBlob, PaymentStatuses
  <2> QED
    BY <1>12, <2>1 DEF RefundPaidBlob
<1>13. ASSUME NEW sender \in Accounts, NEW b \in Blobs, NEW s \in Shards,
              StartRecovery(sender, b, s)
       PROVE  Typed'
  <2>1. blobs' \in [Blobs -> BlobRecords]
    BY <1>13, BlobFieldUpdate DEF StartRecovery, BlobStatuses
  <2> QED
    BY <1>13, <2>1 DEF StartRecovery
<1>14. ASSUME NEW sender \in Accounts, NEW b \in Blobs, NEW s \in Shards,
              NEW p \in ProviderIds,
              AssignShard(sender, b, s, p) \/ ReassignShard(sender, b, s, p)
       PROVE  Typed'
  <2>1. placement' = [placement EXCEPT ![b][s] = p]
    BY <1>14 DEF AssignShard, ReassignShard
  <2>2. placement' \in [Blobs -> [Shards -> {NoProvider} \cup ProviderIds]]
    BY <2>1
  <2> QED
    BY <1>14, <2>2 DEF AssignShard, ReassignShard
<1>15. ASSUME NEW sender \in Accounts, NEW b \in Blobs, NEW s \in Shards,
              NEW p \in ProviderIds, RecordRebuiltShard(sender, b, s, p)
       PROVE  Typed'
  <2>1. blobs' \in [Blobs -> BlobRecords]
    BY <1>15, BlobFieldUpdate DEF RecordRebuiltShard, BlobStatuses
  <2> QED
    BY <1>15, <2>1 DEF RecordRebuiltShard
<1>16. ASSUME NEW t \in Timestamps, Tick(t)
       PROVE  Typed'
  BY <1>16 DEF Tick
<1>17. CASE UNCHANGED vars
  BY <1>17 DEF vars
<1> HIDE DEF Typed
<1> QED
  BY <1>1, <1>2, <1>3, <1>4, <1>5, <1>6, <1>7, <1>9, <1>10, <1>11, <1>12, <1>13,
     <1>14, <1>15, <1>16, <1>17
     DEF Next, AdminNext, ProviderNext, RegistrationNext, ControllerNext
-----------------------------------------------------------------------------
(* The ledger.                                                             *)

(* The five actions that touch money; every other step leaves it alone.    *)
LEMMA MoneyMoves ==
  ASSUME [Next]_vars
  PROVE  \/ UNCHANGED moneyVars
         \/ \E amount \in 1..withdrawableProtocolFees : WithdrawProtocolFees(amount)
         \/ \E sender \in Operators, b \in Blobs, claimed \in SUBSET Shards :
              ClaimProviderSettlement(sender, b, claimed)
         \/ \E sender \in Accounts, b \in Blobs, name \in NameChoices,
               n \in ShardCounts, e \in Expiries, policy \in Policies,
               size \in Sizes, tender \in Tenders :
              CreateBlobPaid(sender, b, name, n, e, policy, size, tender)
         \/ \E sender \in Accounts, b \in Blobs :
              FinalizeBlob(sender, b) \/ RefundPaidBlob(sender, b)
<1>1. UNCHANGED vars => UNCHANGED moneyVars
  BY DEF vars
<1>2. AdminNext => \/ UNCHANGED moneyVars
                   \/ \E amount \in 1..withdrawableProtocolFees : WithdrawProtocolFees(amount)
  BY DEF AdminNext, SetCoordinator, SetNativePricing
<1>3. ProviderNext =>
        \/ UNCHANGED moneyVars
        \/ \E sender \in Operators, b \in Blobs, claimed \in SUBSET Shards :
             ClaimProviderSettlement(sender, b, claimed)
  BY DEF ProviderNext, RegisterProvider, SetProviderStatus, AcknowledgeShard
<1>4. RegistrationNext =>
        \/ UNCHANGED moneyVars
        \/ \E sender \in Accounts, b \in Blobs, name \in NameChoices,
              n \in ShardCounts, e \in Expiries, policy \in Policies,
              size \in Sizes, tender \in Tenders :
             CreateBlobPaid(sender, b, name, n, e, policy, size, tender)
  BY DEF RegistrationNext, CreateBlob, CreateOperatorBlob
<1>5. ControllerNext =>
        \/ UNCHANGED moneyVars
        \/ \E sender \in Accounts, b \in Blobs :
             FinalizeBlob(sender, b) \/ RefundPaidBlob(sender, b)
  BY DEF ControllerNext, StartRecovery, AssignShard, ReassignShard, RecordRebuiltShard
<1>6. (\E t \in Timestamps : Tick(t)) => UNCHANGED moneyVars
  BY DEF Tick
<1> QED
  BY <1>1, <1>2, <1>3, <1>4, <1>5, <1>6 DEF Next

(* A registered blob stays registered, with its shards and its expiry.     *)
BlobKept(c) ==
  blobs[c].exists => /\ blobs'[c].exists
                     /\ blobs'[c].totalShards = blobs[c].totalShards
                     /\ blobs'[c].expiresAt = blobs[c].expiresAt

(* Time does not go back and no step unmakes a registration.               *)
LEMMA RecordsKept ==
  ASSUME Typed, [Next]_vars
  PROVE  now <= now' /\ \A c \in Blobs : BlobKept(c)
<1>1. now \in Nat /\ \A t \in Timestamps : t \in Nat
  BY DataAssumption DEF Typed
<1>2. blobs \in [Blobs -> BlobRecords]
  BY DEF Typed
<1> DEFINE Kept == now <= now' /\ \A c \in Blobs : BlobKept(c)
<1>3. now' = now /\ blobs' = blobs => Kept
  BY <1>1 DEF BlobKept
<1>4. UNCHANGED vars => Kept
  BY <1>3 DEF vars
<1>5. AdminNext => Kept
  BY <1>3 DEF AdminNext, SetCoordinator, SetNativePricing, WithdrawProtocolFees
<1>6. ASSUME NEW b \in Blobs, now' = now,
             \/ \E st \in BlobStatuses : blobs' = [blobs EXCEPT ![b].status = st]
             \/ blobs' = [blobs EXCEPT ![b].acknowledgementCount = @ + 1]
      PROVE  Kept
  BY <1>1, <1>2, <1>6 DEF BlobKept, BlobRecords
<1>7. ProviderNext => Kept
  <2>1. ASSUME NEW sender \in Operators, NEW b \in Blobs, NEW s \in Shards,
               AcknowledgeShard(sender, b, s)
        PROVE  Kept
    BY <1>3, <1>6, <2>1 DEF AcknowledgeShard
  <2>2. ASSUME NEW sender \in Operators,
               \/ RegisterProvider(sender)
               \/ \E p \in ProviderIds, active \in BOOLEAN :
                    SetProviderStatus(sender, p, active)
               \/ \E b \in Blobs, claimed \in SUBSET Shards :
                    ClaimProviderSettlement(sender, b, claimed)
        PROVE  Kept
    <3>1. now' = now /\ blobs' = blobs
      BY <2>2 DEF RegisterProvider, SetProviderStatus, ClaimProviderSettlement
    <3> QED
      BY <1>3, <3>1
  <2> HIDE DEF Kept
  <2> QED
    BY <2>1, <2>2 DEF ProviderNext
<1>8. ASSUME NEW owner, NEW b \in Blobs, NEW name, NEW n, NEW e, NEW origin,
             CreateBlobRecord(owner, b, name, n, e, origin), now' = now
      PROVE  Kept
  BY <1>1, <1>2, <1>8 DEF CreateBlobRecord, MayCreateRecord, BlobKept
<1>9. RegistrationNext => Kept
  BY <1>8 DEF RegistrationNext, CreateBlob, CreateOperatorBlob, CreateBlobPaid
<1>10. ControllerNext => Kept
  <2>1. ASSUME NEW sender \in Accounts, NEW b \in Blobs,
               \/ FinalizeBlob(sender, b)
               \/ \E s \in Shards : StartRecovery(sender, b, s)
               \/ \E s \in Shards, p \in ProviderIds : RecordRebuiltShard(sender, b, s, p)
        PROVE  Kept
    <3>1. now' = now /\ \E st \in BlobStatuses : blobs' = [blobs EXCEPT ![b].status = st]
      BY <2>1 DEF FinalizeBlob, StartRecovery, RecordRebuiltShard, BlobStatuses
    <3> QED
      BY <1>6, <3>1
  <2>2. ASSUME NEW sender \in Accounts, NEW b \in Blobs,
               \/ RefundPaidBlob(sender, b)
               \/ \E s \in Shards, p \in ProviderIds :
                    AssignShard(sender, b, s, p) \/ ReassignShard(sender, b, s, p)
        PROVE  Kept
    BY <1>3, <2>2 DEF RefundPaidBlob, AssignShard, ReassignShard
  <2> HIDE DEF Kept
  <2> QED
    BY <2>1, <2>2 DEF ControllerNext
<1>11. (\E t \in Timestamps : Tick(t)) => Kept
  BY <1>1 DEF Tick, BlobKept
<1> QED
  BY <1>4, <1>5, <1>7, <1>9, <1>10, <1>11 DEF Next

(* A step that leaves a blob's payment and markers alone preserves what    *)
(* the ledger says of it.                                                  *)
LEMMA MoneyFrame ==
  ASSUME Typed, Typed', NEW c \in Blobs, Blank(c), MoneyInv(c), BlobKept(c), now <= now',
         blobPayments'[c] = blobPayments[c],
         providerSettlementClaimed'[c] = providerSettlementClaimed[c],
         providerReserveClaimed'[c] = providerReserveClaimed[c]
  PROVE  MoneyInv(c)'
<1>1. CASE blobs[c].exists
  <2>1. /\ blobs'[c].exists
        /\ blobs'[c].totalShards = blobs[c].totalShards
        /\ blobs'[c].expiresAt = blobs[c].expiresAt
    BY <1>1 DEF BlobKept
  <2>2. ReserveOf(c)' = ReserveOf(c) /\ ShardsOf(c)' = ShardsOf(c)
    BY <2>1 DEF ReserveOf, ShardsOf
  <2>3. now \in Int /\ now' \in Int /\ blobs[c].expiresAt \in Int
    <3>1. Expiries \subseteq Int /\ Timestamps \subseteq Int
      BY DataAssumption DEF Expiries, NoExpiry
    <3>2. now \in Timestamps /\ now' \in Timestamps /\ blobs[c] \in BlobRecords
      BY DEF Typed
    <3> QED
      BY <3>1, <3>2 DEF BlobRecords
  <2>4. now' < blobs[c].expiresAt => now < blobs[c].expiresAt
    BY <2>3
  <2>5. SoundTerms(c)'
    BY <2>1, <2>2 DEF MoneyInv, SoundTerms
  <2>6. SoundMarkers(c)'
    BY <2>1, <2>2, <2>4 DEF MoneyInv, SoundMarkers
  <2>7. SettledByMarkers(c)' /\ SettledWhenAllPaid(c)'
    BY <2>1, <2>2 DEF MoneyInv, SettledByMarkers, SettledWhenAllPaid
  <2> QED
    BY <2>5, <2>6, <2>7 DEF MoneyInv
<1>2. CASE ~blobs[c].exists
  <2>1. /\ blobPayments'[c] = NoPayment
        /\ providerSettlementClaimed'[c] = {} /\ providerReserveClaimed'[c] = {}
    BY <1>2 DEF Blank
  <2> QED
    BY <2>1 DEF MoneyInv, SoundTerms, SoundMarkers, SettledByMarkers,
                SettledWhenAllPaid, NoPayment
<1> QED
  BY <1>1, <1>2

(* Opening a payment to claims, or refunding it, preserves the ledger.     *)
LEMMA EscrowLeft ==
  ASSUME Typed, Typed', NEW b \in Blobs, MoneyInv(b), BlobKept(b), now <= now',
         blobPayments[b].status = "Escrowed",
         NEW st \in {"Claimable", "Refunded"},
         blobPayments' = [blobPayments EXCEPT ![b].status = st],
         UNCHANGED claimVars
  PROVE  MoneyInv(b)'
<1>1. /\ blobPayments[b] \in PaymentRecords
      /\ blobPayments'[b] = [blobPayments[b] EXCEPT !.status = st]
  BY DEF Typed
<1>2. /\ blobPayments'[b].status = st
      /\ blobPayments'[b].totalPaid = blobPayments[b].totalPaid
      /\ blobPayments'[b].providerPool = blobPayments[b].providerPool
      /\ blobPayments'[b].providerRewardPerShard = blobPayments[b].providerRewardPerShard
      /\ blobPayments'[b].protocolFee = blobPayments[b].protocolFee
      /\ blobPayments'[b].providerSettled = blobPayments[b].providerSettled
  BY <1>1 DEF PaymentRecords
<1>3. /\ blobs[b].exists
      /\ providerSettlementClaimed[b] = {} /\ providerReserveClaimed[b] = {}
      /\ blobPayments[b].providerSettled = 0
      /\ ShardsOf(b) # {}
  BY DEF MoneyInv, SoundTerms, SoundMarkers, SettledWhenAllPaid
<1>4. /\ blobs'[b].exists /\ blobs'[b].totalShards = blobs[b].totalShards
      /\ ReserveOf(b)' = ReserveOf(b) /\ ShardsOf(b)' = ShardsOf(b)
  BY <1>2, <1>3 DEF BlobKept, ReserveOf, ShardsOf
<1>5. providerSettlementClaimed'[b] = {} /\ providerReserveClaimed'[b] = {}
  BY <1>3 DEF claimVars
<1>6. SoundTerms(b)'
  BY <1>2, <1>4 DEF MoneyInv, SoundTerms
<1>7. SoundMarkers(b)'
  BY <1>2, <1>3, <1>5 DEF SoundMarkers
<1>8. SettledByMarkers(b)'
  BY <1>2, <1>3, <1>4, <1>5 DEF MoneyInv, SettledByMarkers
<1>9. SettledWhenAllPaid(b)'
  BY <1>2, <1>3, <1>4, <1>5 DEF SettledWhenAllPaid
<1> QED
  BY <1>6, <1>7, <1>8, <1>9 DEF MoneyInv

(* A claim preserves the ledger of its blob.                               *)
LEMMA ClaimKeepsLedger ==
  ASSUME Typed, NEW b \in Blobs, MoneyInv(b), NEW sender \in Operators,
         NEW claimed \in SUBSET Shards, ClaimProviderSettlement(sender, b, claimed)
  PROVE  MoneyInv(b)'
<1> DEFINE settled == blobPayments'[b].providerSettled
           pool == blobPayments[b].providerPool
<1>1. /\ blobPayments[b] \in PaymentRecords
      /\ blobPayments[b].status \in {"Claimable", "PartiallySettled"}
      /\ blobs' = blobs /\ now' = now
  BY DEF Typed, ClaimProviderSettlement, MayClaimSettlement, ClaimAmount
<1>2. /\ blobPayments' = [blobPayments EXCEPT ![b] =
           [@ EXCEPT !.providerSettled = settled,
                     !.status = IF settled = pool THEN "Settled" ELSE "PartiallySettled"]]
      /\ settled = blobPayments[b].providerRewardPerShard
                       * Cardinality(providerSettlementClaimed'[b])
                     + ReserveOf(b) * Cardinality(providerReserveClaimed'[b])
      /\ providerReserveClaimed'[b] \subseteq providerSettlementClaimed'[b]
      /\ providerSettlementClaimed'[b] \subseteq ShardsOf(b)
      /\ now < blobs[b].expiresAt => providerReserveClaimed'[b] = {}
      /\ settled = pool <=> providerReserveClaimed'[b] = ShardsOf(b)
  BY ClaimEffect
<1>3. blobPayments'[b] =
        [blobPayments[b] EXCEPT !.providerSettled = settled,
                                !.status = IF settled = pool THEN "Settled"
                                                             ELSE "PartiallySettled"]
  <2> HIDE DEF settled
  <2> QED
    BY <1>2 DEF Typed
<1>4. /\ blobPayments'[b].status = IF settled = pool THEN "Settled" ELSE "PartiallySettled"
      /\ blobPayments'[b].totalPaid = blobPayments[b].totalPaid
      /\ blobPayments'[b].providerPool = blobPayments[b].providerPool
      /\ blobPayments'[b].providerRewardPerShard = blobPayments[b].providerRewardPerShard
      /\ blobPayments'[b].protocolFee = blobPayments[b].protocolFee
  <2> HIDE DEF settled, pool
  <2> QED
    BY <1>1, <1>3 DEF PaymentRecords
<1>5. ReserveOf(b)' = ReserveOf(b) /\ ShardsOf(b)' = ShardsOf(b)
  BY <1>1, <1>4 DEF ReserveOf, ShardsOf
<1>6. SoundTerms(b)'
  BY <1>1, <1>4, <1>5 DEF MoneyInv, SoundTerms
<1>7. SoundMarkers(b)'
  BY <1>1, <1>2, <1>4, <1>5 DEF SoundMarkers
<1>8. SettledByMarkers(b)'
  BY <1>2, <1>4, <1>5 DEF SettledByMarkers
<1>9. SettledWhenAllPaid(b)'
  BY <1>2, <1>4, <1>5 DEF SettledWhenAllPaid
<1> QED
  BY <1>6, <1>7, <1>8, <1>9 DEF MoneyInv

(* A paid registration starts a sound ledger: the reserve that a claim     *)
(* will find by division is the one that was split off.                    *)
LEMMA PaymentStartsLedger ==
  ASSUME Typed, NEW b \in Blobs, Blank(b), NEW sender \in Accounts,
         NEW name \in NameChoices, NEW n \in ShardCounts, NEW e \in Expiries,
         NEW policy \in Policies, NEW size \in Sizes, NEW tender \in Tenders,
         CreateBlobPaid(sender, b, name, n, e, policy, size, tender)
  PROVE  MoneyInv(b)'
<1> DEFINE q == Quote(n, e, policy, size)
           reserve == q.providerPool \div n - q.providerRewardPerShard
<1>1. SplitsEvenly(q, n)
  BY RegistrationQuote DEF CreateBlobPaid
<1>2. /\ {q.total, q.providerPool, q.protocolFee, q.providerRewardPerShard} \subseteq Nat
      /\ q.total = q.providerPool + q.protocolFee
      /\ reserve \in Nat \ {0}
      /\ q.providerPool = (q.providerRewardPerShard + reserve) * n
      /\ 10 * reserve >= q.providerRewardPerShard + reserve
  <2> HIDE DEF q
  <2> QED
    BY <1>1 DEF SplitsEvenly
<1>3. /\ ~blobs[b].exists
      /\ blobs'[b].exists /\ blobs'[b].totalShards = n
  BY DEF CreateBlobPaid, CreateBlobRecord, MayCreateRecord, Typed
<1>4. /\ blobPayments'[b].status = "Escrowed"
      /\ blobPayments'[b].totalPaid = q.total
      /\ blobPayments'[b].providerPool = q.providerPool
      /\ blobPayments'[b].providerRewardPerShard = q.providerRewardPerShard
      /\ blobPayments'[b].protocolFee = q.protocolFee
      /\ blobPayments'[b].providerSettled = 0
  BY DEF CreateBlobPaid, Quote, Typed
<1>5. providerSettlementClaimed'[b] = {} /\ providerReserveClaimed'[b] = {}
  BY <1>3 DEF CreateBlobPaid, claimVars, Blank
<1>6. n \in Nat \ {0} /\ 0 \in Shards
  BY BoundsAssumption DEF ShardCounts, Shards
<1> HIDE DEF q
<1>7. ReserveOf(b)' = reserve
  BY <1>3, <1>4 DEF ReserveOf
<1>8. 0 \in ShardsOf(b)'
  BY <1>3, <1>6 DEF ShardsOf
<1>9. SoundTerms(b)'
  BY <1>2, <1>3, <1>4, <1>6, <1>7 DEF SoundTerms
<1>10. SoundMarkers(b)'
  BY <1>4, <1>5 DEF SoundMarkers
<1>11. SettledByMarkers(b)'
  <2>1. ReserveOf(b)' \in Nat /\ blobPayments'[b].providerRewardPerShard \in Nat
    BY <1>2, <1>4, <1>7
  <2>2. Cardinality({}) = 0
    BY FS_EmptySet
  <2> QED
    BY <1>4, <1>5, <2>1, <2>2 DEF SettledByMarkers
<1>12. SettledWhenAllPaid(b)'
  BY <1>4, <1>5, <1>8 DEF SettledWhenAllPaid
<1> QED
  BY <1>9, <1>10, <1>11, <1>12 DEF MoneyInv

(* Every step preserves the ledger of every blob.                          *)
LEMMA MoneyStep ==
  ASSUME Typed, Typed', \A b \in Blobs : Blank(b) /\ MoneyInv(b), [Next]_vars
  PROVE  \A c \in Blobs : MoneyInv(c)'
<1> SUFFICES ASSUME NEW c \in Blobs PROVE MoneyInv(c)'
  OBVIOUS
<1>1. now <= now' /\ BlobKept(c)
  BY RecordsKept
<1>2. ASSUME blobPayments'[c] = blobPayments[c],
             providerSettlementClaimed'[c] = providerSettlementClaimed[c],
             providerReserveClaimed'[c] = providerReserveClaimed[c]
      PROVE  MoneyInv(c)'
  BY <1>1, <1>2, MoneyFrame
<1>3. CASE UNCHANGED moneyVars \/ \E amount \in 1..withdrawableProtocolFees :
                                    WithdrawProtocolFees(amount)
  BY <1>2, <1>3 DEF moneyVars, claimVars, WithdrawProtocolFees
<1>4. ASSUME NEW sender \in Operators, NEW b \in Blobs, NEW claimed \in SUBSET Shards,
             ClaimProviderSettlement(sender, b, claimed)
      PROVE  MoneyInv(c)'
  <2>1. CASE c = b
    BY <1>4, <2>1, ClaimKeepsLedger
  <2>2. CASE c # b
    BY <1>2, <1>4, <2>2 DEF ClaimProviderSettlement, Typed
  <2> QED
    BY <2>1, <2>2
<1>5. ASSUME NEW sender \in Accounts, NEW b \in Blobs, NEW name \in NameChoices,
             NEW n \in ShardCounts, NEW e \in Expiries, NEW policy \in Policies,
             NEW size \in Sizes, NEW tender \in Tenders,
             CreateBlobPaid(sender, b, name, n, e, policy, size, tender)
      PROVE  MoneyInv(c)'
  <2>1. CASE c = b
    BY <1>5, <2>1, PaymentStartsLedger
  <2>2. CASE c # b
    BY <1>2, <1>5, <2>2 DEF CreateBlobPaid, claimVars, Typed
  <2> QED
    BY <2>1, <2>2
<1>6. ASSUME NEW sender \in Accounts, NEW b \in Blobs,
             FinalizeBlob(sender, b) \/ RefundPaidBlob(sender, b)
      PROVE  MoneyInv(c)'
  <2>1. /\ UNCHANGED claimVars
        /\ \/ blobPayments' = blobPayments
           \/ /\ blobPayments[b].status = "Escrowed"
              /\ \E st \in {"Claimable", "Refunded"} :
                   blobPayments' = [blobPayments EXCEPT ![b].status = st]
    BY <1>6 DEF FinalizeBlob, OpensClaims, RefundPaidBlob, Refundable
  <2>2. CASE c = b
    BY <1>1, <1>2, <2>1, <2>2, EscrowLeft DEF claimVars
  <2>3. CASE c # b
    BY <1>2, <2>1, <2>3 DEF claimVars, Typed
  <2> QED
    BY <2>2, <2>3
<1> QED
  BY <1>3, <1>4, <1>5, <1>6, MoneyMoves
-----------------------------------------------------------------------------
(* Solvency.                                                               *)

(* Providers never receive more than the pool, and before the expiry at    *)
(* most what leaves the reserve of every shard.                            *)
LEMMA SettledWithinPool ==
  ASSUME Typed, NEW b \in Blobs, MoneyInv(b), blobPayments[b].status # "None"
  PROVE  /\ blobPayments[b].providerSettled <= blobPayments[b].providerPool
         /\ now < blobs[b].expiresAt =>
              blobPayments[b].providerPool - blobPayments[b].providerSettled
                >= ReserveOf(b) * blobs[b].totalShards
<1> DEFINE r == blobPayments[b].providerRewardPerShard
           k == ReserveOf(b)
           t == blobs[b].totalShards
           c == Cardinality(providerSettlementClaimed[b])
           d == Cardinality(providerReserveClaimed[b])
           pool == blobPayments[b].providerPool
           settled == blobPayments[b].providerSettled
<1>1. /\ r \in Nat /\ k \in Nat \ {0} /\ t \in Nat
      /\ pool = (r + k) * t
      /\ settled = r * c + k * d
      /\ providerSettlementClaimed[b] \subseteq ShardsOf(b)
      /\ providerReserveClaimed[b] \subseteq ShardsOf(b)
      /\ now < blobs[b].expiresAt => providerReserveClaimed[b] = {}
  BY DEF Typed, PaymentRecords, MoneyInv, SoundTerms, SoundMarkers, SettledByMarkers
<1>2. c \in 0..t /\ d \in 0..t
  <2>1. IsFiniteSet(ShardsOf(b)) /\ Cardinality(ShardsOf(b)) = t
    BY ShardsFinite
  <2>2. /\ IsFiniteSet(providerSettlementClaimed[b]) /\ c <= t
        /\ IsFiniteSet(providerReserveClaimed[b]) /\ d <= t
    BY <1>1, <2>1, FS_Subset
  <2>3. c \in Nat /\ d \in Nat
    BY <2>2, FS_CardinalityType
  <2> QED
    BY <1>1, <2>2, <2>3
<1>3. now < blobs[b].expiresAt => d = 0
  BY <1>1, FS_EmptySet
<1> HIDE DEF r, k, t, c, d, pool, settled
<1>4. /\ r * c + k * d <= (r + k) * t
      /\ d = 0 => (r + k) * t - (r * c + k * d) >= k * t
  BY <1>1, <1>2, PaidWithinPool
<1>5. settled <= pool /\ (now < blobs[b].expiresAt => pool - settled >= k * t)
  BY <1>1, <1>3, <1>4
<1> QED
  BY <1>5 DEF k, t, pool, settled

(* An obligation is never negative.                                        *)
LEMMA ObligationsNat ==
  ASSUME Typed, \A b \in Blobs : MoneyInv(b)
  PROVE  Obligations \in [1..NumBlobs -> Nat] /\ Total(Obligations, NumBlobs) \in Nat
<1>1. ASSUME NEW b \in Blobs PROVE Obligation(b) \in Nat
  <2>1. blobPayments[b] \in PaymentRecords
    BY DEF Typed
  <2>2. CASE blobPayments[b].status = "None"
    BY <2>2 DEF Obligation
  <2>3. CASE blobPayments[b].status # "None"
    <3>1. blobPayments[b].providerSettled <= blobPayments[b].providerPool
      BY <2>3, SettledWithinPool
    <3>2. blobPayments[b].totalPaid =
            blobPayments[b].providerPool + blobPayments[b].protocolFee
      BY <2>3 DEF MoneyInv, SoundTerms
    <3> QED
      BY <2>1, <3>1, <3>2 DEF Obligation, PaymentRecords
  <2> QED
    BY <2>2, <2>3
<1>2. Obligations \in [1..NumBlobs -> Nat]
  BY <1>1 DEF Obligations, Blobs
<1> QED
  BY <1>2, TotalNat, BoundsAssumption

(* What comes in or is paid out is what one obligation and the fees change *)
(* by, so the sum of both stays the balance.                               *)
LEMMA BooksMove ==
  ASSUME NEW before \in Int, NEW after \in Int, NEW owed \in Int, NEW fees \in Int,
         NEW fees2 \in Int, NEW old \in Int, NEW new \in Int, NEW owed2,
         before = owed + fees, after - before = (new - old) + (fees2 - fees),
         owed2 = owed + (new - old)
  PROVE  after = owed2 + fees2
  OBVIOUS

(* The books balance after a step that changes the obligation of at most   *)
(* one blob by as much as it changes the till and the fee counter.         *)
LEMMA BooksBalance ==
  ASSUME Typed, Typed', \A b \in Blobs : MoneyInv(b), Solvent, NEW b \in Blobs,
         \A c \in Blobs : c # b => Obligation(c)' = Obligation(c),
         balance' \in Int,
         balance' - balance =
           (Obligation(b)' - Obligation(b))
             + (withdrawableProtocolFees' - withdrawableProtocolFees)
  PROVE  Solvent'
<1> DEFINE f == Obligations
           g == Obligations'
           F == Total(f, NumBlobs)
           G == Total(g, NumBlobs)
           w == withdrawableProtocolFees
<1>1. f \in [1..NumBlobs -> Nat] /\ F \in Nat
  BY ObligationsNat
<1>2. /\ f[b] = Obligation(b) /\ g[b] = Obligation(b)'
      /\ \A i \in 1..NumBlobs : i # b => g[i] = f[i]
  BY DEF Obligations, Blobs
<1>3. g[b] \in Int
  <2>1. blobPayments'[b] \in PaymentRecords
    BY DEF Typed
  <2> QED
    BY <1>2, <2>1 DEF Obligation, PaymentRecords
<1>4. g \in [1..NumBlobs -> Int]
  <2>1. DOMAIN g = 1..NumBlobs /\ g = [i \in 1..NumBlobs |-> g[i]]
    BY DEF Obligations, Blobs
  <2> HIDE DEF f, g
  <2> QED
    BY <1>1, <1>2, <1>3, <2>1
<1>5. w \in Nat /\ w' \in Nat
  BY DEF Typed
<1>6. balance = F + w
  BY DEF Solvent
<1>7. balance' - balance = (g[b] - f[b]) + (w' - w)
  BY <1>2
<1>8. b \in 1..NumBlobs
  BY DEF Blobs
<1> HIDE DEF f, g
<1>9. G = F + (g[b] - f[b])
  <2>1. f \in [1..NumBlobs -> Int]
    BY <1>1
  <2>2. Total(g, NumBlobs) = Total(f, NumBlobs) + (g[b] - f[b])
    BY <1>2, <1>4, <1>8, <2>1, TotalChange, BoundsAssumption
  <2> QED
    BY <2>2
<1>10. f[b] \in Int
  BY <1>1, <1>8
<1> HIDE DEF F, G, w
<1>11. balance' = G + w'
  <2>1. F \in Int /\ w \in Int /\ w' \in Int
    BY <1>1, <1>5
  <2> QED
    BY <1>3, <1>6, <1>7, <1>9, <1>10, <2>1, BooksMove
<1> QED
  BY <1>11 DEF Solvent, G, g, w

(* Every step leaves the contract holding exactly what it owes.            *)
LEMMA SolventStep ==
  ASSUME Typed, Typed', \A b \in Blobs : Blank(b) /\ MoneyInv(b), Solvent, [Next]_vars
  PROVE  Solvent'
<1>1. balance \in Int
  BY ObligationsNat DEF Typed, Solvent
<1>2. CASE UNCHANGED moneyVars
  <2>1. Obligations' = Obligations
    BY <1>2 DEF Obligations, Obligation, moneyVars
  <2> QED
    BY <1>2, <2>1 DEF Solvent, moneyVars
<1>3. ASSUME NEW amount \in 1..withdrawableProtocolFees, WithdrawProtocolFees(amount)
      PROVE  Solvent'
  <2>1. Obligations' = Obligations
    BY <1>3 DEF Obligations, Obligation, WithdrawProtocolFees
  <2>2. /\ balance' = balance - amount
        /\ withdrawableProtocolFees' = withdrawableProtocolFees - amount
    BY <1>3 DEF WithdrawProtocolFees
  <2>3. Total(Obligations, NumBlobs) \in Nat
    BY ObligationsNat
  <2> QED
    BY <2>1, <2>2, <2>3 DEF Solvent, Typed
<1>4. ASSUME NEW sender \in Operators, NEW b \in Blobs, NEW claimed \in SUBSET Shards,
             ClaimProviderSettlement(sender, b, claimed)
      PROVE  Solvent'
  <2> DEFINE settled == blobPayments'[b].providerSettled
             pool == blobPayments[b].providerPool
             before == blobPayments[b].providerSettled
             fee == blobPayments[b].protocolFee
  <2>1. /\ settled \in Nat /\ settled <= pool
        /\ balance' = balance - (settled - before)
        /\ blobPayments' = [blobPayments EXCEPT ![b] =
             [@ EXCEPT !.providerSettled = settled,
                       !.status = IF settled = pool THEN "Settled" ELSE "PartiallySettled"]]
        /\ withdrawableProtocolFees' =
             withdrawableProtocolFees + (IF settled = pool THEN fee ELSE 0)
    BY <1>4, ClaimEffect
  <2>2. /\ blobPayments[b].status \in {"Claimable", "PartiallySettled"}
        /\ blobPayments[b] \in PaymentRecords
    BY <1>4 DEF ClaimProviderSettlement, MayClaimSettlement, ClaimAmount, Typed
  <2>3. blobPayments[b].totalPaid = pool + fee
    BY <2>2 DEF MoneyInv, SoundTerms
  <2>4. /\ blobPayments'[b].status =
             IF settled = pool THEN "Settled" ELSE "PartiallySettled"
        /\ blobPayments'[b].totalPaid = blobPayments[b].totalPaid
        /\ \A c \in Blobs : c # b => blobPayments'[c] = blobPayments[c]
    <3> HIDE DEF settled, pool
    <3>1. blobPayments'[b] =
            [blobPayments[b] EXCEPT !.providerSettled = settled,
              !.status = IF settled = pool THEN "Settled" ELSE "PartiallySettled"]
      BY <2>1 DEF Typed
    <3>2. \A c \in Blobs : c # b => blobPayments'[c] = blobPayments[c]
      BY <2>1 DEF Typed
    <3> QED
      BY <2>2, <3>1, <3>2 DEF PaymentRecords
  <2>5. Obligation(b) = (pool + fee) - before
    BY <2>2, <2>3 DEF Obligation
  <2>6. Obligation(b)' = IF settled = pool THEN 0 ELSE (pool + fee) - settled
    BY <2>3, <2>4 DEF Obligation
  <2>7. pool \in Nat /\ fee \in Nat /\ before \in Nat /\ withdrawableProtocolFees \in Nat
    BY <2>2 DEF Typed, PaymentRecords
  <2>8. \A c \in Blobs : c # b => Obligation(c)' = Obligation(c)
    BY <2>4 DEF Obligation
  <2> HIDE DEF settled, pool, before, fee
  <2>9. /\ balance' \in Int
        /\ balance' - balance =
             (Obligation(b)' - Obligation(b))
               + (withdrawableProtocolFees' - withdrawableProtocolFees)
    BY <1>1, <2>1, <2>5, <2>6, <2>7
  <2> QED
    BY <2>8, <2>9, BooksBalance
<1>5. ASSUME NEW sender \in Accounts, NEW b \in Blobs, NEW name \in NameChoices,
             NEW n \in ShardCounts, NEW e \in Expiries, NEW policy \in Policies,
             NEW size \in Sizes, NEW tender \in Tenders,
             CreateBlobPaid(sender, b, name, n, e, policy, size, tender)
      PROVE  Solvent'
  <2> DEFINE q == Quote(n, e, policy, size)
  <2>1. q.total \in Nat
    <3>1. SplitsEvenly(q, n)
      BY <1>5, RegistrationQuote DEF CreateBlobPaid
    <3> HIDE DEF q
    <3> QED
      BY <3>1 DEF SplitsEvenly
  <2>2. tender \in Int
    BY DataAssumption
  <2>3. /\ blobPayments'[b].status = "Escrowed"
        /\ blobPayments'[b].totalPaid = q.total
        /\ blobPayments'[b].providerSettled = 0
        /\ \A c \in Blobs : c # b => blobPayments'[c] = blobPayments[c]
        /\ withdrawableProtocolFees' = withdrawableProtocolFees
    BY <1>5 DEF CreateBlobPaid, Quote, Typed
  <2>4. balance' = balance + (q.total + tender) - ((q.total + tender) - q.total)
    BY <1>5 DEF CreateBlobPaid, Quote
  <2>5. blobPayments[b].status = "None"
    BY <1>5 DEF CreateBlobPaid, CreateBlobRecord, MayCreateRecord, Blank,
                NoPayment
  <2> HIDE DEF q
  <2>6. Obligation(b) = 0 /\ Obligation(b)' = q.total
    BY <2>1, <2>3, <2>5 DEF Obligation
  <2>7. \A c \in Blobs : c # b => Obligation(c)' = Obligation(c)
    BY <2>3 DEF Obligation
  <2>8. /\ balance' \in Int
        /\ balance' - balance =
             (Obligation(b)' - Obligation(b))
               + (withdrawableProtocolFees' - withdrawableProtocolFees)
    <3>1. balance' = balance + q.total
      BY <1>1, <2>1, <2>2, <2>4
    <3>2. withdrawableProtocolFees \in Nat
      BY DEF Typed
    <3> QED
      BY <1>1, <2>1, <2>3, <2>6, <3>1, <3>2
  <2> QED
    BY <2>7, <2>8, BooksBalance
<1>6. ASSUME NEW sender \in Accounts, NEW b \in Blobs, FinalizeBlob(sender, b)
      PROVE  Solvent'
  <2>1. UNCHANGED <<balance, withdrawableProtocolFees>>
    BY <1>6 DEF FinalizeBlob
  <2>2. ASSUME NEW c \in Blobs PROVE Obligation(c)' = Obligation(c)
    <3>1. CASE blobPayments' = blobPayments
      BY <3>1 DEF Obligation
    <3>2. CASE /\ blobPayments[b].status = "Escrowed"
               /\ blobPayments' = [blobPayments EXCEPT ![b].status = "Claimable"]
      <4>1. blobPayments[b] \in PaymentRecords
        BY DEF Typed
      <4>2. /\ c # b => blobPayments'[c] = blobPayments[c]
            /\ blobPayments'[b].status = "Claimable"
            /\ blobPayments'[b].totalPaid = blobPayments[b].totalPaid
            /\ blobPayments'[b].providerSettled = blobPayments[b].providerSettled
        BY <3>2, <4>1 DEF Typed, PaymentRecords
      <4> QED
        BY <3>2, <4>2 DEF Obligation
    <3> QED
      BY <1>6, <3>1, <3>2 DEF FinalizeBlob, OpensClaims
  <2>3. Obligations' = Obligations
    BY <2>2 DEF Obligations
  <2> QED
    BY <2>1, <2>3 DEF Solvent
<1>7. ASSUME NEW sender \in Accounts, NEW b \in Blobs, RefundPaidBlob(sender, b)
      PROVE  Solvent'
  <2>1. blobPayments[b] \in PaymentRecords
    BY DEF Typed
  <2>2. /\ blobPayments[b].status = "Escrowed"
        /\ blobPayments' = [blobPayments EXCEPT ![b].status = "Refunded"]
        /\ balance' = balance - blobPayments[b].totalPaid
        /\ withdrawableProtocolFees' = withdrawableProtocolFees
    BY <1>7 DEF RefundPaidBlob, Refundable
  <2>3. /\ blobPayments'[b].status = "Refunded"
        /\ \A c \in Blobs : c # b => blobPayments'[c] = blobPayments[c]
    BY <2>1, <2>2 DEF Typed, PaymentRecords
  <2>4. blobPayments[b].providerSettled = 0
    BY <2>2 DEF MoneyInv, SoundMarkers
  <2>5. /\ Obligation(b) = blobPayments[b].totalPaid - 0 /\ Obligation(b)' = 0
        /\ \A c \in Blobs : c # b => Obligation(c)' = Obligation(c)
    BY <2>2, <2>3, <2>4 DEF Obligation
  <2>6. blobPayments[b].totalPaid \in Nat /\ withdrawableProtocolFees \in Nat
    BY <2>1 DEF PaymentRecords, Typed
  <2>7. /\ balance' \in Int
        /\ balance' - balance =
             (Obligation(b)' - Obligation(b))
               + (withdrawableProtocolFees' - withdrawableProtocolFees)
    BY <1>1, <2>2, <2>5, <2>6
  <2> QED
    BY <2>5, <2>7, BooksBalance
<1> QED
  BY <1>2, <1>3, <1>4, <1>5, <1>6, <1>7, MoneyMoves
-----------------------------------------------------------------------------
(* Placement and acknowledgement.                                          *)

(* The actions that touch blobs, placement, acknowledgements or providers. *)
LEMMA StorageMoves ==
  ASSUME [Next]_vars
  PROVE  \/ UNCHANGED <<blobs, storageVars, nextProviderId, providers>>
         \/ \E sender \in Operators : RegisterProvider(sender)
         \/ \E sender \in Operators, p \in ProviderIds, active \in BOOLEAN :
              SetProviderStatus(sender, p, active)
         \/ \E sender \in Operators, b \in Blobs, s \in Shards :
              AcknowledgeShard(sender, b, s)
         \/ \E sender \in Accounts, b \in Blobs, name \in NameChoices,
               n \in ShardCounts, e \in Expiries, origin \in BlobOrigins :
              /\ CreateBlobRecord(sender, b, name, n, e, origin)
              /\ UNCHANGED <<storageVars, nextProviderId, providers>>
         \/ \E sender \in Accounts, b \in Blobs :
              \/ FinalizeBlob(sender, b)
              \/ \E s \in Shards : StartRecovery(sender, b, s)
              \/ \E s \in Shards, p \in ProviderIds :
                   \/ AssignShard(sender, b, s, p)
                   \/ ReassignShard(sender, b, s, p)
                   \/ RecordRebuiltShard(sender, b, s, p)
<1> DEFINE Still == UNCHANGED <<blobs, storageVars, nextProviderId, providers>>
<1>1. UNCHANGED vars => Still
  BY DEF vars, storageVars, providerVars
<1>2. AdminNext => Still
  BY DEF AdminNext, SetCoordinator, SetNativePricing, WithdrawProtocolFees,
         storageVars, providerVars
<1>3. ASSUME NEW sender \in Operators, NEW b \in Blobs, NEW claimed \in SUBSET Shards,
             ClaimProviderSettlement(sender, b, claimed)
      PROVE  Still
  BY <1>3 DEF ClaimProviderSettlement, storageVars, providerVars
<1>4. RegistrationNext =>
        \E sender \in Accounts, b \in Blobs, name \in NameChoices,
           n \in ShardCounts, e \in Expiries, origin \in BlobOrigins :
          /\ CreateBlobRecord(sender, b, name, n, e, origin)
          /\ UNCHANGED <<storageVars, nextProviderId, providers>>
  BY DEF RegistrationNext, CreateBlob, CreateOperatorBlob, CreateBlobPaid, BlobOrigins,
         storageVars, providerVars
<1>5. ASSUME NEW sender \in Accounts, NEW b \in Blobs, RefundPaidBlob(sender, b)
      PROVE  Still
  BY <1>5 DEF RefundPaidBlob, storageVars, providerVars
<1>6. (\E t \in Timestamps : Tick(t)) => Still
  BY DEF Tick, storageVars, providerVars
<1> HIDE DEF Still
<1>7. ProviderNext =>
        \/ Still
        \/ \E sender \in Operators : RegisterProvider(sender)
        \/ \E sender \in Operators, p \in ProviderIds, active \in BOOLEAN :
             SetProviderStatus(sender, p, active)
        \/ \E sender \in Operators, b \in Blobs, s \in Shards :
             AcknowledgeShard(sender, b, s)
  BY <1>3 DEF ProviderNext
<1>8. ControllerNext =>
        \/ Still
        \/ \E sender \in Accounts, b \in Blobs :
             \/ FinalizeBlob(sender, b)
             \/ \E s \in Shards : StartRecovery(sender, b, s)
             \/ \E s \in Shards, p \in ProviderIds :
                  \/ AssignShard(sender, b, s, p)
                  \/ ReassignShard(sender, b, s, p)
                  \/ RecordRebuiltShard(sender, b, s, p)
  BY <1>5 DEF ControllerNext
<1> QED
  BY <1>1, <1>2, <1>4, <1>6, <1>7, <1>8 DEF Next, Still

(* No step but its registration touches a blob that is not registered.     *)
LEMMA BlankStep ==
  ASSUME Typed, [Next]_vars, NEW c \in Blobs, Blank(c)
  PROVE  Blank(c)'
<1> SUFFICES ASSUME ~blobs'[c].exists PROVE Blank(c)'
  BY DEF Blank
<1>1. ~blobs[c].exists
  BY RecordsKept DEF BlobKept
<1>2. /\ blobPayments'[c] = blobPayments[c]
      /\ providerSettlementClaimed'[c] = providerSettlementClaimed[c]
      /\ providerReserveClaimed'[c] = providerReserveClaimed[c]
  <2> DEFINE Same == /\ blobPayments'[c] = blobPayments[c]
                     /\ providerSettlementClaimed'[c] = providerSettlementClaimed[c]
                     /\ providerReserveClaimed'[c] = providerReserveClaimed[c]
  <2>1. UNCHANGED moneyVars => Same
    BY DEF moneyVars, claimVars
  <2>2. ASSUME NEW amount \in 1..withdrawableProtocolFees, WithdrawProtocolFees(amount)
        PROVE  Same
    BY <2>2 DEF WithdrawProtocolFees, claimVars
  <2>3. ASSUME NEW sender \in Operators, NEW b \in Blobs, NEW claimed \in SUBSET Shards,
               ClaimProviderSettlement(sender, b, claimed)
        PROVE  Same
    <3>1. c # b
      BY <1>1, <2>3 DEF ClaimProviderSettlement, MayClaimSettlement, ClaimAmount
    <3> QED
      BY <2>3, <3>1 DEF ClaimProviderSettlement, Typed
  <2>4. ASSUME NEW sender \in Accounts, NEW b \in Blobs, NEW name \in NameChoices,
               NEW n \in ShardCounts, NEW e \in Expiries, NEW policy \in Policies,
               NEW size \in Sizes, NEW tender \in Tenders,
               CreateBlobPaid(sender, b, name, n, e, policy, size, tender)
        PROVE  Same
    <3>1. blobs'[b].exists
      BY <2>4 DEF CreateBlobPaid, CreateBlobRecord, Typed
    <3>2. c # b
      BY <3>1
    <3> QED
      BY <2>4, <3>2 DEF CreateBlobPaid, claimVars, Typed
  <2>5. ASSUME NEW sender \in Accounts, NEW b \in Blobs,
               FinalizeBlob(sender, b) \/ RefundPaidBlob(sender, b)
        PROVE  Same
    <3>1. c # b
      BY <1>1, <2>5 DEF FinalizeBlob, MayFinalizeBlob, RefundPaidBlob,
                        OnlyBlobOwnerOrCoordinator, OnlyBlobOwner
    <3> QED
      BY <2>5, <3>1 DEF FinalizeBlob, RefundPaidBlob, claimVars, Typed
  <2> HIDE DEF Same
  <2>6. Same
    BY <2>1, <2>2, <2>3, <2>4, <2>5, MoneyMoves
  <2> QED
    BY <2>6 DEF Same
<1>3. blobs'[c] = blobs[c] /\ placement'[c] = placement[c]
      /\ acknowledgements'[c] = acknowledgements[c]
  <2> DEFINE Same == blobs'[c] = blobs[c] /\ placement'[c] = placement[c]
                     /\ acknowledgements'[c] = acknowledgements[c]
  <2>1. UNCHANGED <<blobs, storageVars, nextProviderId, providers>> => Same
    BY DEF storageVars
  <2>2. ASSUME NEW sender \in Operators,
               \/ RegisterProvider(sender)
               \/ \E p \in ProviderIds, active \in BOOLEAN :
                    SetProviderStatus(sender, p, active)
        PROVE  Same
    BY <2>2 DEF RegisterProvider, SetProviderStatus, storageVars
  <2>3. ASSUME NEW sender \in Operators, NEW b \in Blobs, NEW s \in Shards,
               AcknowledgeShard(sender, b, s)
        PROVE  Same
    <3>1. c # b
      BY <1>1, <2>3 DEF AcknowledgeShard, MayAcknowledgeShard
    <3> QED
      BY <2>3, <3>1 DEF AcknowledgeShard, Typed
  <2>4. ASSUME NEW sender, NEW b \in Blobs, NEW name, NEW n, NEW e, NEW origin,
               CreateBlobRecord(sender, b, name, n, e, origin),
               UNCHANGED <<storageVars, nextProviderId, providers>>
        PROVE  Same
    <3>1. blobs'[b].exists
      BY <2>4 DEF CreateBlobRecord, Typed
    <3>2. c # b
      BY <3>1
    <3> QED
      BY <2>4, <3>2 DEF CreateBlobRecord, storageVars, Typed
  <2>5. ASSUME NEW sender \in Accounts, NEW b \in Blobs,
               \/ FinalizeBlob(sender, b)
               \/ \E s \in Shards : StartRecovery(sender, b, s)
               \/ \E s \in Shards, p \in ProviderIds :
                    \/ AssignShard(sender, b, s, p)
                    \/ ReassignShard(sender, b, s, p)
                    \/ RecordRebuiltShard(sender, b, s, p)
        PROVE  Same
    <3>1. c # b
      BY <1>1, <2>5 DEF FinalizeBlob, MayFinalizeBlob, StartRecovery,
                        MayStartRecovery, AssignShard, MayAssignShard,
                        ReassignShard, MayReassignShard, RecordRebuiltShard,
                        MayRecordRebuiltShard, OnlyBlobOwnerOrCoordinator
    <3> QED
      BY <2>5, <3>1 DEF FinalizeBlob, StartRecovery, AssignShard, ReassignShard,
                        RecordRebuiltShard, storageVars, Typed
  <2> HIDE DEF Same
  <2>6. Same
    BY <2>1, <2>2, <2>3, <2>4, <2>5, StorageMoves
  <2> QED
    BY <2>6 DEF Same
<1> QED
  BY <1>1, <1>2, <1>3 DEF Blank

(* Provider ids are handed out in order and only those are placed with.    *)
LEMMA ProvidersStep ==
  ASSUME Typed, Typed', ProvidersKnown, [Next]_vars
  PROVE  ProvidersKnown'
<1>1. /\ nextProviderId \in Nat /\ ProviderIds \subseteq Nat
      /\ placement \in [Blobs -> [Shards -> Nat]]
  BY BoundsAssumption DEF Typed, ProviderIds, NoProvider
<1>2. ASSUME nextProviderId' = nextProviderId, providers' = providers,
             placement' = placement
      PROVE  ProvidersKnown'
  BY <1>2 DEF ProvidersKnown
<1>3. ASSUME NEW sender \in Operators, RegisterProvider(sender)
      PROVE  ProvidersKnown'
  BY <1>1, <1>3 DEF ProvidersKnown, RegisterProvider, storageVars, Typed
<1>4. ASSUME NEW sender \in Operators, NEW p \in ProviderIds, NEW active \in BOOLEAN,
             SetProviderStatus(sender, p, active)
      PROVE  ProvidersKnown'
  <2>1. providers[p] # UnregisteredProvider
    BY <1>4, AccountsAssumption DEF SetProviderStatus, UnregisteredProvider
  <2>2. p < nextProviderId
    BY <1>1, <2>1 DEF ProvidersKnown
  <2> QED
    BY <1>1, <1>4, <2>2 DEF ProvidersKnown, SetProviderStatus, storageVars, Typed
<1>5. ASSUME NEW b \in Blobs, NEW s \in Shards, NEW p \in ProviderIds,
             ProviderActive(p), placement' = [placement EXCEPT ![b][s] = p],
             UNCHANGED providerVars
      PROVE  ProvidersKnown'
  <2>1. providers[p] # UnregisteredProvider
    BY <1>5 DEF ProviderActive, UnregisteredProvider
  <2>2. p < nextProviderId
    BY <1>1, <2>1 DEF ProvidersKnown
  <2> QED
    BY <1>1, <1>5, <2>2 DEF ProvidersKnown, providerVars
<1>6. ASSUME NEW sender \in Accounts, NEW b \in Blobs, NEW s \in Shards,
             NEW p \in ProviderIds,
             AssignShard(sender, b, s, p) \/ ReassignShard(sender, b, s, p)
      PROVE  ProvidersKnown'
  BY <1>5, <1>6 DEF AssignShard, MayAssignShard, ReassignShard, MayReassignShard
<1>7. ASSUME NEW sender \in Accounts, NEW b \in Blobs,
             \/ FinalizeBlob(sender, b)
             \/ \E s \in Shards : StartRecovery(sender, b, s)
             \/ \E s \in Shards, p \in ProviderIds : RecordRebuiltShard(sender, b, s, p)
      PROVE  ProvidersKnown'
  BY <1>2, <1>7 DEF FinalizeBlob, StartRecovery, RecordRebuiltShard, storageVars,
                    providerVars
<1>8. ASSUME NEW sender \in Operators, NEW b \in Blobs, NEW s \in Shards,
             AcknowledgeShard(sender, b, s)
      PROVE  ProvidersKnown'
  BY <1>2, <1>8 DEF AcknowledgeShard, providerVars
<1>9. UNCHANGED <<storageVars, nextProviderId, providers>> => ProvidersKnown'
  BY <1>2 DEF storageVars
<1> QED
  BY <1>3, <1>4, <1>6, <1>7, <1>8, <1>9, StorageMoves

(* A new acknowledgement of a pending blob is counted once.                *)
LEMMA AcknowledgementCounted ==
  ASSUME Typed, Typed', NEW b \in Blobs, Acknowledged(b), NEW sender \in Operators,
         NEW s \in Shards, AcknowledgeShard(sender, b, s)
  PROVE  Acknowledged(b)'
<1> DEFINE p == providerIdByOperator[sender]
           acked == acknowledgements[b]
<1>1. /\ p \in ProviderIds /\ placement[b][s] = p
      /\ s < blobs[b].totalShards
      /\ blobs[b].status \in {"Pending", "Recovering"}
      /\ placement' = placement
      /\ acknowledgements'[b] = acked \cup {<<p, s>>}
  BY DEF AcknowledgeShard, MayAcknowledgeShard, ProviderActive, Typed
<1>2. /\ blobs[b] \in BlobRecords
      /\ blobs'[b].status = blobs[b].status
      /\ blobs'[b].totalShards = blobs[b].totalShards
      /\ blobs'[b].acknowledgementCount =
           IF <<p, s>> \in acked THEN blobs[b].acknowledgementCount
                                 ELSE blobs[b].acknowledgementCount + 1
  BY DEF AcknowledgeShard, AlreadyAcknowledged, Typed, BlobRecords
<1>3. ShardsOf(b)' = ShardsOf(b) /\ s \in ShardsOf(b)
  BY <1>1, <1>2 DEF ShardsOf
<1> HIDE DEF p, acked
<1>4. AckedShards(b)' = AckedShards(b) \cup {s}
  BY <1>1, <1>3 DEF AckedShards, acked
<1>5. s \in AckedShards(b) <=> <<p, s>> \in acked
  BY <1>1, <1>3 DEF AckedShards, acked
<1>6. ASSUME blobs[b].status = "Pending"
      PROVE  /\ \A q \in ProviderIds, u \in Shards :
                  <<q, u>> \in acknowledgements'[b] => placement'[b][u] = q
             /\ blobs'[b].acknowledgementCount = Cardinality(AckedShards(b)')
  <2>1. \A q \in ProviderIds, u \in Shards :
          <<q, u>> \in acknowledgements'[b] => placement'[b][u] = q
    BY <1>1, <1>6 DEF Acknowledged, acked
  <2>2. blobs[b].acknowledgementCount = Cardinality(AckedShards(b))
    BY <1>6 DEF Acknowledged
  <2>3. IsFiniteSet(AckedShards(b))
    BY ShardsFinite, FS_Subset, AckedShards(b) \in SUBSET ShardsOf(b) DEF AckedShards
  <2>4. Cardinality(AckedShards(b) \cup {s}) =
          IF s \in AckedShards(b) THEN Cardinality(AckedShards(b))
                                  ELSE Cardinality(AckedShards(b)) + 1
    BY <2>3, FS_AddElement
  <2> QED
    BY <1>2, <1>4, <1>5, <2>1, <2>2, <2>4
<1>7. blobs[b].status # "Pending" =>
        \A u \in ShardsOf(b) :
          /\ placement'[b][u] # NoProvider
          /\ \E q \in ProviderIds : <<q, u>> \in acknowledgements'[b]
  BY <1>1 DEF Acknowledged, acked
<1> QED
  BY <1>1, <1>2, <1>3, <1>6, <1>7 DEF Acknowledged

(* Finalization requires as many acknowledgements as shards, which is all  *)
(* of them.                                                                *)
LEMMA FinalizedIsAcknowledged ==
  ASSUME Typed, NEW b \in Blobs, Acknowledged(b), NEW sender \in Accounts,
         FinalizeBlob(sender, b)
  PROVE  Acknowledged(b)'
<1>1. /\ blobs[b].status = "Pending"
      /\ blobs[b].acknowledgementCount = blobs[b].totalShards
      /\ placement' = placement /\ acknowledgements' = acknowledgements
  BY DEF FinalizeBlob, MayFinalizeBlob, FullyAcknowledged, storageVars
<1>2. blobs'[b].status = "Active" /\ blobs'[b].totalShards = blobs[b].totalShards
  BY DEF FinalizeBlob, Typed, BlobRecords
<1>3. ShardsOf(b)' = ShardsOf(b) /\ AckedShards(b)' = AckedShards(b)
  BY <1>1, <1>2 DEF ShardsOf, AckedShards
<1>4. AckedShards(b) = ShardsOf(b)
  <2>1. Cardinality(AckedShards(b)) = blobs[b].totalShards
    BY <1>1 DEF Acknowledged
  <2>2. /\ IsFiniteSet(ShardsOf(b))
        /\ Cardinality(ShardsOf(b)) = blobs[b].totalShards
    BY ShardsFinite
  <2>3. AckedShards(b) \in SUBSET ShardsOf(b)
    BY DEF AckedShards
  <2> QED
    BY <2>1, <2>2, <2>3, FS_Subset
<1>5. \A s \in ShardsOf(b) : <<placement[b][s], s>> \in acknowledgements[b]
  BY <1>4 DEF AckedShards
<1>6. \A s \in ShardsOf(b) : placement[b][s] \in ProviderIds
  <2>1. acknowledgements[b] \subseteq ProviderIds \X Shards
    BY DEF Typed
  <2> QED
    BY <1>5, <2>1
<1>7. NoProvider \notin ProviderIds
  BY BoundsAssumption DEF ProviderIds, NoProvider
<1> QED
  BY <1>1, <1>2, <1>3, <1>4, <1>5, <1>6, <1>7 DEF Acknowledged

(* Placement moves only where no acknowledgement is counted: on a pending  *)
(* blob an unplaced shard, on a recovering one any shard.                  *)
LEMMA PlacementKeepsAcknowledged ==
  ASSUME Typed, NEW b \in Blobs, Acknowledged(b), NEW sender \in Accounts,
         NEW s \in Shards, NEW p \in ProviderIds,
         AssignShard(sender, b, s, p) \/ ReassignShard(sender, b, s, p)
  PROVE  Acknowledged(b)'
<1>1. /\ blobs' = blobs /\ acknowledgements' = acknowledgements
      /\ placement'[b][s] = p
      /\ \A u \in Shards : u # s => placement'[b][u] = placement[b][u]
      /\ \/ blobs[b].status = "Pending" /\ placement[b][s] = NoProvider
         \/ blobs[b].status = "Recovering"
  BY DEF AssignShard, MayAssignShard, ReassignShard, MayReassignShard, Typed
<1>2. ShardsOf(b)' = ShardsOf(b) /\ ShardsOf(b) \subseteq Shards
  BY <1>1 DEF ShardsOf
<1>3. NoProvider \notin ProviderIds /\ acknowledgements[b] \subseteq ProviderIds \X Shards
  BY BoundsAssumption DEF ProviderIds, NoProvider, Typed
<1>4. CASE blobs[b].status = "Pending"
  <2>1. \A q \in ProviderIds : <<q, s>> \notin acknowledgements[b]
    BY <1>1, <1>3, <1>4 DEF Acknowledged
  <2>2. AckedShards(b)' = AckedShards(b)
    BY <1>1, <1>2, <1>3, <2>1 DEF AckedShards
  <2>3. \A q \in ProviderIds, u \in Shards :
          <<q, u>> \in acknowledgements[b] => placement'[b][u] = q
    BY <1>1, <1>4, <2>1 DEF Acknowledged
  <2> QED
    BY <1>1, <1>4, <2>2, <2>3 DEF Acknowledged
<1>5. CASE blobs[b].status = "Recovering"
  BY <1>1, <1>2, <1>3, <1>5 DEF Acknowledged
<1> QED
  BY <1>1, <1>4, <1>5

(* Every step keeps the acknowledgements of every blob in order.           *)
LEMMA AcknowledgedStep ==
  ASSUME Typed, Typed', \A b \in Blobs : Blank(b) /\ Acknowledged(b), [Next]_vars
  PROVE  \A c \in Blobs : Acknowledged(c)'
<1> SUFFICES ASSUME NEW c \in Blobs PROVE Acknowledged(c)'
  OBVIOUS
<1>1. ASSUME blobs'[c] = blobs[c], placement'[c] = placement[c],
             acknowledgements'[c] = acknowledgements[c]
      PROVE  Acknowledged(c)'
  BY <1>1 DEF Acknowledged, AckedShards, ShardsOf
<1>2. CASE UNCHANGED <<blobs, storageVars, nextProviderId, providers>>
  BY <1>1, <1>2 DEF storageVars
<1>3. ASSUME NEW sender \in Operators,
             \/ RegisterProvider(sender)
             \/ \E p \in ProviderIds, active \in BOOLEAN :
                  SetProviderStatus(sender, p, active)
      PROVE  Acknowledged(c)'
  BY <1>1, <1>3 DEF RegisterProvider, SetProviderStatus, storageVars
<1>4. ASSUME NEW sender \in Operators, NEW b \in Blobs, NEW s \in Shards,
             AcknowledgeShard(sender, b, s)
      PROVE  Acknowledged(c)'
  <2>1. c # b => Acknowledged(c)'
    BY <1>1, <1>4 DEF AcknowledgeShard, Typed
  <2> QED
    BY <1>4, <2>1, AcknowledgementCounted
<1>5. ASSUME NEW sender \in Accounts, NEW b \in Blobs, NEW name \in NameChoices,
             NEW n \in ShardCounts, NEW e \in Expiries, NEW origin \in BlobOrigins,
             CreateBlobRecord(sender, b, name, n, e, origin),
             UNCHANGED <<storageVars, nextProviderId, providers>>
      PROVE  Acknowledged(c)'
  <2>1. CASE c # b
    BY <1>1, <1>5, <2>1 DEF CreateBlobRecord, storageVars, Typed
  <2>2. CASE c = b
    <3>1. acknowledgements'[b] = {}
      BY <1>5 DEF CreateBlobRecord, MayCreateRecord, Blank, storageVars
    <3>2. blobs'[b].status = "Pending" /\ blobs'[b].acknowledgementCount = 0
      BY <1>5 DEF CreateBlobRecord, Typed
    <3>3. AckedShards(b)' = {}
      BY <3>1 DEF AckedShards
    <3> QED
      BY <2>2, <3>1, <3>2, <3>3, FS_EmptySet DEF Acknowledged
  <2> QED
    BY <2>1, <2>2
<1>6. ASSUME NEW sender \in Accounts, NEW b \in Blobs, FinalizeBlob(sender, b)
      PROVE  Acknowledged(c)'
  <2>1. c # b => Acknowledged(c)'
    BY <1>1, <1>6 DEF FinalizeBlob, storageVars, Typed
  <2> QED
    BY <1>6, <2>1, FinalizedIsAcknowledged
<1>7. ASSUME NEW sender \in Accounts, NEW b \in Blobs, NEW s \in Shards,
             \/ StartRecovery(sender, b, s)
             \/ \E p \in ProviderIds : RecordRebuiltShard(sender, b, s, p)
      PROVE  Acknowledged(c)'
  <2>1. /\ placement' = placement /\ acknowledgements' = acknowledgements
        /\ blobs[b].status \in {"Active", "Rebuilt", "Recovering"}
        /\ \E st \in {"Recovering", "Rebuilt"} : blobs' = [blobs EXCEPT ![b].status = st]
    BY <1>7 DEF StartRecovery, MayStartRecovery, RecordRebuiltShard,
                MayRecordRebuiltShard, storageVars
  <2>2. c # b => Acknowledged(c)'
    BY <1>1, <2>1 DEF Typed
  <2>3. CASE c = b
    <3>1. /\ blobs'[b].status \in {"Recovering", "Rebuilt"}
          /\ blobs'[b].totalShards = blobs[b].totalShards
      BY <2>1 DEF Typed, BlobRecords
    <3>2. ShardsOf(b)' = ShardsOf(b)
      BY <3>1 DEF ShardsOf
    <3> QED
      BY <2>1, <2>3, <3>1, <3>2 DEF Acknowledged
  <2> QED
    BY <2>2, <2>3
<1>8. ASSUME NEW sender \in Accounts, NEW b \in Blobs, NEW s \in Shards,
             NEW p \in ProviderIds,
             AssignShard(sender, b, s, p) \/ ReassignShard(sender, b, s, p)
      PROVE  Acknowledged(c)'
  <2>1. c # b => Acknowledged(c)'
    BY <1>1, <1>8 DEF AssignShard, ReassignShard, Typed
  <2> QED
    BY <1>8, <2>1, PlacementKeepsAcknowledged
<1> QED
  BY <1>2, <1>3, <1>4, <1>5, <1>6, <1>7, <1>8, StorageMoves
-----------------------------------------------------------------------------
(* The theorems.                                                           *)

(* A freshly deployed contract satisfies the inductive invariant.          *)
LEMMA InitIInv == Init => IInv
<1> SUFFICES ASSUME Init PROVE IInv
  OBVIOUS
<1>1. Typed
  <2>1. /\ UnregisteredBlob \in BlobRecords
        /\ NoPayment \in PaymentRecords
        /\ DefaultPolicy \in [storageMode : StorageModes, accessPolicy : AccessPolicies]
        /\ UnregisteredProvider \in [operator : Accounts \cup {NoAccount},
                                     active : BOOLEAN]
    BY BoundsAssumption
       DEF UnregisteredBlob, BlobRecords, BlobStatuses, BlobOrigins, Expiries, NoPayment,
           PaymentRecords, PaymentStatuses, DefaultPolicy, StorageModes, AccessPolicies,
           UnregisteredProvider
  <2> QED
    BY <2>1, AccountsAssumption, BoundsAssumption, DataAssumption
       DEF Init, Typed, NameChoices
<1>2. ASSUME NEW b \in Blobs PROVE Blank(b) /\ MoneyInv(b)
  <2>1. /\ blobPayments[b] = NoPayment
        /\ blobs[b] = UnregisteredBlob
        /\ providerSettlementClaimed[b] = {} /\ providerReserveClaimed[b] = {}
        /\ acknowledgements[b] = {}
        /\ \A s \in Shards : placement[b][s] = NoProvider
    BY DEF Init
  <2>2. NoPayment.status = "None" /\ NoPayment.providerSettled = 0
    BY DEF NoPayment
  <2>3. Blank(b)
    BY <2>1 DEF Blank, UnregisteredBlob
  <2>4. MoneyInv(b)
    BY <2>1, <2>2 DEF MoneyInv, SoundTerms, SoundMarkers, SettledByMarkers,
                      SettledWhenAllPaid
  <2> QED
    BY <2>3, <2>4
<1>3. ProvidersKnown
  BY DEF Init, ProvidersKnown, NoProvider
<1>4. ASSUME NEW b \in Blobs PROVE Acknowledged(b)
  <2>1. /\ blobs[b] = UnregisteredBlob
        /\ acknowledgements[b] = {}
    BY DEF Init
  <2>2. AckedShards(b) = {}
    BY <2>1 DEF AckedShards
  <2> QED
    BY <2>1, <2>2, FS_EmptySet DEF Acknowledged, UnregisteredBlob
<1>5. Solvent
  <2>1. \A b \in 1..NumBlobs : Obligations[b] = 0
    BY DEF Init, Obligations, Obligation, NoPayment, Blobs
  <2> DEFINE f == Obligations
  <2> HIDE DEF f
  <2>2. Total(f, NumBlobs) = 0
    BY <2>1, TotalOfZeros, BoundsAssumption DEF f
  <2> QED
    BY <2>2 DEF Init, Solvent, f
<1> QED
  BY <1>1, <1>2, <1>3, <1>4, <1>5 DEF IInv

(* IInv is inductive.                                                      *)
LEMMA NextIInv == IInv /\ [Next]_vars => IInv'
<1> SUFFICES ASSUME IInv, [Next]_vars PROVE IInv'
  OBVIOUS
<1>1. /\ Typed /\ ProvidersKnown /\ Solvent
      /\ \A b \in Blobs : Blank(b) /\ MoneyInv(b) /\ Acknowledged(b)
  BY DEF IInv
<1>2. Typed'
  BY <1>1, TypedStep
<1>3. \A b \in Blobs : Blank(b)'
  BY <1>1, BlankStep
<1>4. \A b \in Blobs : MoneyInv(b)'
  BY <1>1, <1>2, MoneyStep
<1>5. ProvidersKnown'
  BY <1>1, <1>2, ProvidersStep
<1>6. \A b \in Blobs : Acknowledged(b)'
  BY <1>1, <1>2, AcknowledgedStep
<1>7. Solvent'
  BY <1>1, <1>2, SolventStep
<1> QED
  BY <1>2, <1>3, <1>4, <1>5, <1>6, <1>7 DEF IInv

(* Every reachable state of the contract satisfies the inductive           *)
(* invariant: the ledger, the placement and the till fit together.         *)
THEOREM Invariance == Spec => []IInv
BY InitIInv, NextIInv, PTL DEF Spec

(* What the inductive invariant says of one blob's payment, in the words   *)
(* of the checked properties.                                              *)
LEMMA LedgerFacts ==
  ASSUME IInv
  PROVE  /\ SettlementMatchesMarkers
         /\ SettledExactlyWhenAllPaid
         /\ ReserveHeldUntilExpiry
         /\ RefundedNeverSettled
<1>0. Typed /\ \A b \in Blobs : MoneyInv(b)
  BY DEF IInv
<1>1. SettlementMatchesMarkers
  BY <1>0 DEF SettlementMatchesMarkers, MoneyInv, SettledByMarkers
<1>2. SettledExactlyWhenAllPaid
  BY <1>0 DEF SettledExactlyWhenAllPaid, MoneyInv, SettledWhenAllPaid, SoundMarkers
<1>3. RefundedNeverSettled
  BY <1>0 DEF RefundedNeverSettled, MoneyInv, SoundMarkers
<1>4. ASSUME NEW b \in Blobs, blobPayments[b].status # "None", now < blobs[b].expiresAt
      PROVE  10 * (blobPayments[b].providerPool - blobPayments[b].providerSettled)
               >= blobPayments[b].providerPool
  <2> DEFINE pool == blobPayments[b].providerPool
             settled == blobPayments[b].providerSettled
             r == blobPayments[b].providerRewardPerShard
             k == ReserveOf(b)
             t == blobs[b].totalShards
  <2>1. blobPayments[b] \in PaymentRecords
    BY <1>0 DEF Typed
  <2>2. pool \in Nat /\ settled \in Nat /\ r \in Nat
    BY <2>1 DEF PaymentRecords
  <2>3. pool - settled >= k * t
    BY <1>0, <1>4, SettledWithinPool
  <2>4. /\ k \in Nat \ {0} /\ t \in Nat \ {0} /\ pool = (r + k) * t
        /\ 10 * k >= r + k
    BY <1>0, <1>4 DEF MoneyInv, SoundTerms
  <2> HIDE DEF pool, settled, r, k, t
  <2>5. (10 * k) * t >= (r + k) * t
    <3>1. (10 * k) - (r + k) \in Nat
      BY <2>2, <2>4
    <3>2. ((10 * k) - (r + k)) * t \in Nat
      BY <2>4, <3>1
    <3> QED
      BY <2>2, <2>4, <3>2
  <2>6. 10 * (pool - settled) >= 10 * (k * t)
    BY <2>2, <2>3, <2>4
  <2>7. (10 * k) * t = 10 * (k * t) /\ k * t \in Nat
    BY <2>4
  <2>8. 10 * (pool - settled) >= pool
    BY <2>2, <2>4, <2>5, <2>6, <2>7
  <2> QED
    BY <2>8 DEF pool, settled
<1>5. ReserveHeldUntilExpiry
  BY <1>4 DEF ReserveHeldUntilExpiry
<1> QED
  BY <1>1, <1>2, <1>3, <1>5

(* What the inductive invariant says of placement, in the words of the     *)
(* checked properties.                                                     *)
LEMMA PlacementFacts ==
  ASSUME IInv
  PROVE  ActiveFullyAcknowledged /\ FinalizedShardsPlaced
<1>1. ActiveFullyAcknowledged
  BY DEF IInv, Acknowledged, AckedShards, ActiveFullyAcknowledged
<1>2. ASSUME NEW b \in Blobs, blobs[b].status # "Pending", NEW s \in ShardsOf(b)
      PROVE  /\ placement[b][s] \in 1..(nextProviderId - 1)
             /\ \E p \in ProviderIds : <<p, s>> \in acknowledgements[b]
  <2>1. s \in Shards
    BY DEF ShardsOf
  <2>2. /\ placement[b][s] \in {NoProvider} \cup ProviderIds
        /\ nextProviderId \in 1..(MaxProviders + 1)
    BY <2>1 DEF IInv, Typed
  <2>3. placement[b][s] # NoProvider /\ \E p \in ProviderIds : <<p, s>> \in acknowledgements[b]
    BY <1>2 DEF IInv, Acknowledged
  <2>4. placement[b][s] < nextProviderId
    BY <2>1 DEF IInv, ProvidersKnown
  <2> QED
    BY <2>2, <2>3, <2>4, BoundsAssumption DEF ProviderIds
<1> QED
  BY <1>1, <1>2 DEF FinalizedShardsPlaced

(* Type correctness; the balance is a natural number because it is exactly *)
(* what is owed, so no transfer out of the contract can fail for lack of   *)
(* funds (withdrawProtocolFees, claimProviderSettlement, refundPaidBlob).  *)
THEOREM TypeCorrect == Spec => []TypeOK
<1>1. IInv => TypeOK
  <2> SUFFICES ASSUME IInv PROVE TypeOK
    OBVIOUS
  <2>1. Typed
    BY DEF IInv
  <2>2. balance \in Nat
    BY <2>1, ObligationsNat DEF IInv, Solvent, Typed
  <2> QED
    BY <2>1, <2>2 DEF Typed, TypeOK
<1> QED
  BY <1>1, Invariance, PTL

(* Solvency for any number of blobs, shards, providers and price changes:  *)
(* the contract's balance is the sum of what it owes.                      *)
THEOREM Solvency == Spec => []Solvent
<1>1. IInv => Solvent
  BY DEF IInv
<1> QED
  BY <1>1, Invariance, PTL

(* Each shard's reward and reserve are paid at most once, whoever holds    *)
(* the shard when claimProviderSettlement is called.                       *)
THEOREM PaidOncePerShard == Spec => []SettlementMatchesMarkers
<1>1. IInv => SettlementMatchesMarkers
  BY LedgerFacts
<1> QED
  BY <1>1, Invariance, PTL

(* The protocol fee is released exactly when every shard is fully paid: no *)
(* price, shard count or order of claims leaves a rounding remainder.      *)
THEOREM FeeAfterAllPaid == Spec => []SettledExactlyWhenAllPaid
<1>1. IInv => SettledExactlyWhenAllPaid
  BY LedgerFacts
<1> QED
  BY <1>1, Invariance, PTL

(* A tenth of the provider pool stays in the contract until the expiry.    *)
THEOREM ReserveHeld == Spec => []ReserveHeldUntilExpiry
<1>1. IInv => ReserveHeldUntilExpiry
  BY LedgerFacts
<1> QED
  BY <1>1, Invariance, PTL

(* A refund and a settlement of the same payment exclude each other.       *)
THEOREM RefundExcludesSettlement == Spec => []RefundedNeverSettled
<1>1. IInv => RefundedNeverSettled
  BY LedgerFacts
<1> QED
  BY <1>1, Invariance, PTL

(* finalizeBlob's comparison of two counters means what it is meant to:    *)
(* every shard of an Active blob is acknowledged by its holder.            *)
THEOREM ActiveIsAcknowledged == Spec => []ActiveFullyAcknowledged
<1>1. IInv => ActiveFullyAcknowledged
  BY PlacementFacts
<1> QED
  BY <1>1, Invariance, PTL

(* Every shard of a finalized blob stays with a registered provider, and   *)
(* never with id 0, the key of the global settlement marker.               *)
THEOREM FinalizedIsPlaced == Spec => []FinalizedShardsPlaced
<1>1. IInv => FinalizedShardsPlaced
  BY PlacementFacts
<1> QED
  BY <1>1, Invariance, PTL

(* The action property behind LedgerOnlyGrows.                             *)
LEMMA LedgerStep == IInv /\ [Next]_vars => LedgerGrows
<1> SUFFICES ASSUME IInv, [Next]_vars, NEW b \in Blobs, blobPayments[b].status # "None"
             PROVE  /\ Terms(b)' = Terms(b)
                    /\ blobPayments[b].providerSettled <= blobPayments'[b].providerSettled
                    /\ providerSettlementClaimed[b] \subseteq providerSettlementClaimed'[b]
                    /\ providerReserveClaimed[b] \subseteq providerReserveClaimed'[b]
                    /\ blobPayments[b].status \in {"Settled", "Refunded"} =>
                         blobPayments'[b] = blobPayments[b]
  BY DEF LedgerGrows
<1> DEFINE Grows == /\ Terms(b)' = Terms(b)
                    /\ blobPayments[b].providerSettled <= blobPayments'[b].providerSettled
                    /\ providerSettlementClaimed[b] \subseteq providerSettlementClaimed'[b]
                    /\ providerReserveClaimed[b] \subseteq providerReserveClaimed'[b]
                    /\ blobPayments[b].status \in {"Settled", "Refunded"} =>
                         blobPayments'[b] = blobPayments[b]
<1>1. /\ Typed /\ MoneyInv(b) /\ blobs[b].exists
      /\ blobPayments[b] \in PaymentRecords /\ blobPayments[b].providerSettled \in Nat
  BY DEF IInv, MoneyInv, SoundTerms, Typed, PaymentRecords
<1>2. ASSUME blobPayments'[b] = blobPayments[b],
             providerSettlementClaimed'[b] = providerSettlementClaimed[b],
             providerReserveClaimed'[b] = providerReserveClaimed[b]
      PROVE  Grows
  BY <1>1, <1>2 DEF Terms
<1>3. UNCHANGED moneyVars => Grows
  BY <1>2 DEF moneyVars, claimVars
<1>4. ASSUME NEW amount \in 1..withdrawableProtocolFees, WithdrawProtocolFees(amount)
      PROVE  Grows
  BY <1>2, <1>4 DEF WithdrawProtocolFees, claimVars
<1>5. ASSUME NEW sender \in Operators, NEW c \in Blobs, NEW claimed \in SUBSET Shards,
             ClaimProviderSettlement(sender, c, claimed)
      PROVE  Grows
  <2>1. CASE c # b
    BY <1>1, <1>2, <1>5, <2>1 DEF ClaimProviderSettlement, Typed
  <2>2. CASE c = b
    <3> DEFINE settled == blobPayments'[b].providerSettled
               st == IF settled = blobPayments[b].providerPool
                     THEN "Settled" ELSE "PartiallySettled"
    <3>1. /\ blobPayments[b].providerSettled <= settled
          /\ providerSettlementClaimed[b] \subseteq providerSettlementClaimed'[b]
          /\ providerReserveClaimed[b] \subseteq providerReserveClaimed'[b]
          /\ blobPayments' = [blobPayments EXCEPT ![b] =
               [@ EXCEPT !.providerSettled = settled, !.status = st]]
      BY <1>1, <1>5, <2>2, ClaimEffect
    <3>2. blobPayments[b].status \notin {"Settled", "Refunded"}
      BY <1>5, <2>2 DEF ClaimProviderSettlement, MayClaimSettlement, ClaimAmount
    <3>3. Terms(b)' = Terms(b)
      <4> HIDE DEF settled, st
      <4>1. blobPayments'[b] =
              [blobPayments[b] EXCEPT !.providerSettled = settled, !.status = st]
        BY <1>1, <3>1 DEF Typed
      <4> QED
        BY <1>1, <4>1 DEF Terms, PaymentRecords
    <3> QED
      BY <3>1, <3>2, <3>3
  <2> QED
    BY <2>1, <2>2
<1>6. ASSUME NEW sender \in Accounts, NEW c \in Blobs, NEW name \in NameChoices,
             NEW n \in ShardCounts, NEW e \in Expiries, NEW policy \in Policies,
             NEW size \in Sizes, NEW tender \in Tenders,
             CreateBlobPaid(sender, c, name, n, e, policy, size, tender)
      PROVE  Grows
  <2>1. c # b
    BY <1>1, <1>6 DEF CreateBlobPaid, CreateBlobRecord, MayCreateRecord
  <2> QED
    BY <1>1, <1>2, <1>6, <2>1 DEF CreateBlobPaid, claimVars, Typed
<1>7. ASSUME NEW sender \in Accounts, NEW c \in Blobs,
             FinalizeBlob(sender, c) \/ RefundPaidBlob(sender, c)
      PROVE  Grows
  <2>1. /\ UNCHANGED claimVars
        /\ \/ blobPayments' = blobPayments
           \/ /\ blobPayments[c].status = "Escrowed"
              /\ \E st \in {"Claimable", "Refunded"} :
                   blobPayments' = [blobPayments EXCEPT ![c].status = st]
    BY <1>7 DEF FinalizeBlob, OpensClaims, RefundPaidBlob, Refundable
  <2>2. CASE blobPayments' = blobPayments \/ c # b
    BY <1>1, <1>2, <2>1, <2>2 DEF claimVars, Typed
  <2>3. CASE /\ c = b /\ blobPayments[b].status = "Escrowed"
             /\ \E st \in {"Claimable", "Refunded"} :
                  blobPayments' = [blobPayments EXCEPT ![b].status = st]
    <3>1. PICK st \in {"Claimable", "Refunded"} :
            blobPayments'[b] = [blobPayments[b] EXCEPT !.status = st]
      BY <1>1, <2>3 DEF Typed
    <3>2. Terms(b)' = Terms(b) /\ blobPayments'[b].providerSettled = blobPayments[b].providerSettled
      BY <1>1, <3>1 DEF Terms, PaymentRecords
    <3> QED
      BY <1>1, <2>1, <2>3, <3>2 DEF claimVars
  <2> QED
    BY <2>1, <2>2, <2>3
<1> HIDE DEF Grows
<1>8. Grows
  BY <1>3, <1>4, <1>5, <1>6, <1>7, MoneyMoves
<1> QED
  BY <1>8 DEF Grows

(* No transaction rewrites a payment's terms, clears a claim marker,       *)
(* lowers what is settled, or reopens a settled or refunded payment.       *)
THEOREM LedgerMonotone == Spec => LedgerOnlyGrows
<1>1. IInv /\ [Next]_vars => [LedgerGrows]_vars
  BY LedgerStep
<1> QED
  BY <1>1, Invariance, PTL DEF Spec, LedgerOnlyGrows

-----------------------------------------------------------------------------
(* What a step does to names and owners: nothing, or one registration.     *)
NamesAlone ==
  /\ UNCHANGED nameVars
  /\ \A b \in Blobs : blobs'[b].exists = blobs[b].exists /\ blobs'[b].owner = blobs[b].owner

Registers(owner, b, name) ==
  \E n \in ShardCounts, e \in Expiries, origin \in BlobOrigins :
    CreateBlobRecord(owner, b, name, n, e, origin)

(* Besides registrations, only statuses and counts of blobs change.        *)
LEMMA NameEffects ==
  ASSUME Typed, [Next]_vars
  PROVE  \/ NamesAlone
         \/ \E owner \in Accounts, b \in Blobs, name \in NameChoices : Registers(owner, b, name)
<1>1. blobs \in [Blobs -> BlobRecords]
  BY DEF Typed
<1>2. UNCHANGED <<blobs, nameVars>> => NamesAlone
  BY DEF NamesAlone
<1>3. ASSUME UNCHANGED nameVars, NEW b \in Blobs,
             \/ \E st \in BlobStatuses : blobs' = [blobs EXCEPT ![b].status = st]
             \/ blobs' = [blobs EXCEPT ![b].acknowledgementCount = @ + 1]
      PROVE  NamesAlone
  BY <1>1, <1>3 DEF NamesAlone, BlobRecords
<1>4. UNCHANGED vars => NamesAlone
  BY <1>2 DEF vars, nameVars
<1>5. AdminNext => NamesAlone
  BY <1>2 DEF AdminNext, SetCoordinator, SetNativePricing, WithdrawProtocolFees
<1>6. ProviderNext => NamesAlone
  <2>1. ASSUME NEW sender \in Operators, NEW b \in Blobs, NEW s \in Shards,
               AcknowledgeShard(sender, b, s)
        PROVE  NamesAlone
    BY <1>2, <1>3, <2>1 DEF AcknowledgeShard
  <2>2. ASSUME NEW sender \in Operators,
               \/ RegisterProvider(sender)
               \/ \E p \in ProviderIds, active \in BOOLEAN :
                    SetProviderStatus(sender, p, active)
               \/ \E b \in Blobs, claimed \in SUBSET Shards :
                    ClaimProviderSettlement(sender, b, claimed)
        PROVE  NamesAlone
    <3>1. UNCHANGED <<blobs, nameVars>>
      BY <2>2 DEF RegisterProvider, SetProviderStatus, ClaimProviderSettlement
    <3> QED
      BY <1>2, <3>1
  <2> QED
    BY <2>1, <2>2 DEF ProviderNext
<1>7. RegistrationNext =>
        \E owner \in Accounts, b \in Blobs, name \in NameChoices : Registers(owner, b, name)
  BY DEF RegistrationNext, CreateBlob, CreateOperatorBlob, CreateBlobPaid, Registers,
         BlobOrigins
<1>8. ControllerNext => NamesAlone
  <2>1. ASSUME NEW sender \in Accounts, NEW b \in Blobs,
               \/ FinalizeBlob(sender, b)
               \/ \E s \in Shards : StartRecovery(sender, b, s)
               \/ \E s \in Shards, p \in ProviderIds : RecordRebuiltShard(sender, b, s, p)
        PROVE  NamesAlone
    <3>1. /\ UNCHANGED nameVars
          /\ \E st \in BlobStatuses : blobs' = [blobs EXCEPT ![b].status = st]
      BY <2>1 DEF FinalizeBlob, StartRecovery, RecordRebuiltShard, BlobStatuses
    <3> QED
      BY <1>3, <3>1
  <2>2. ASSUME NEW sender \in Accounts, NEW b \in Blobs,
               \/ RefundPaidBlob(sender, b)
               \/ \E s \in Shards, p \in ProviderIds :
                    AssignShard(sender, b, s, p) \/ ReassignShard(sender, b, s, p)
        PROVE  NamesAlone
    BY <1>2, <2>2 DEF RefundPaidBlob, AssignShard, ReassignShard
  <2> QED
    BY <2>1, <2>2 DEF ControllerNext
<1>9. (\E t \in Timestamps : Tick(t)) => NamesAlone
  BY <1>2 DEF Tick
<1> QED
  BY <1>4, <1>5, <1>6, <1>7, <1>8, <1>9 DEF Next

(* Whoever registered a blob is an account.                                *)
OwnersAreAccounts == \A b \in Blobs : blobs[b].exists => blobs[b].owner \in Accounts

(* An owner is set by the registration and never again.                    *)
LEMMA OwnersStep ==
  ASSUME Typed, OwnersAreAccounts, [Next]_vars
  PROVE  OwnersAreAccounts'
<1>1. CASE NamesAlone
  BY <1>1 DEF NamesAlone, OwnersAreAccounts
<1>2. ASSUME NEW owner \in Accounts, NEW b \in Blobs, NEW name \in NameChoices,
             Registers(owner, b, name)
      PROVE  OwnersAreAccounts'
  <2>1. blobs \in [Blobs -> BlobRecords]
    BY DEF Typed
  <2>2. blobs'[b].owner = owner /\ \A c \in Blobs \ {b} : blobs'[c] = blobs[c]
    BY <1>2, <2>1 DEF Registers, CreateBlobRecord
  <2> QED
    BY <2>2 DEF OwnersAreAccounts
<1> QED
  BY <1>1, <1>2, NameEffects

(* A registration enters its name under its owner, where no blob stood, so *)
(* that index and blobs go on pointing at each other.                      *)
LEMMA NamesStep ==
  ASSUME Typed, OwnersAreAccounts, NameIndexAgrees, [Next]_vars
  PROVE  NameIndexAgrees'
<1>1. /\ blobs \in [Blobs -> BlobRecords] /\ blobNames \in [Blobs -> NameChoices]
      /\ blobIdByOwnerName \in [Accounts -> [Names -> {NoBlob} \cup Blobs]]
  BY DEF Typed
<1>2. CASE NamesAlone
  BY <1>1, <1>2 DEF NamesAlone, nameVars, NameIndexAgrees
<1>3. ASSUME NEW owner \in Accounts, NEW b \in Blobs, NEW name \in NameChoices,
             Registers(owner, b, name)
      PROVE  NameIndexAgrees'
  <2>1. /\ ~blobs[b].exists /\ blobs'[b].exists /\ blobs'[b].owner = owner
        /\ \A c \in Blobs \ {b} : blobs'[c] = blobs[c]
    BY <1>1, <1>3 DEF Registers, CreateBlobRecord, MayCreateRecord
  <2>2. blobNames[b] \notin Names
    BY <2>1 DEF NameIndexAgrees
  <2>3. \A a \in Accounts, n \in Names : blobIdByOwnerName[a][n] # b
    BY <2>2, BoundsAssumption DEF NameIndexAgrees, Blobs, NoBlob
  <2>4. CASE name \in Names
    <3>1. /\ blobNames' = [blobNames EXCEPT ![b] = name]
          /\ blobIdByOwnerName' = [blobIdByOwnerName EXCEPT ![owner][name] = b]
          /\ blobIdByOwnerName[owner][name] = NoBlob
      BY <1>3, <2>4 DEF Registers, CreateBlobRecord, MayCreateRecord, NameFree
    <3>2. /\ blobIdByOwnerName'[owner][name] = b
          /\ \A a \in Accounts, n \in Names :
               a # owner \/ n # name => blobIdByOwnerName'[a][n] = blobIdByOwnerName[a][n]
      BY <1>1, <2>4, <3>1
    <3>3. ASSUME NEW c \in Blobs, blobNames'[c] \in Names
          PROVE  blobs'[c].exists /\ blobIdByOwnerName'[blobs'[c].owner][blobNames'[c]] = c
      <4>1. CASE c = b
        BY <1>1, <2>1, <3>1, <3>2, <4>1
      <4>2. CASE c # b
        <5>1. /\ blobNames'[c] = blobNames[c] /\ blobs'[c] = blobs[c] /\ blobs[c].exists
              /\ blobIdByOwnerName[blobs[c].owner][blobNames[c]] = c
          BY <1>1, <2>1, <3>1, <3>3, <4>2 DEF NameIndexAgrees
        <5>2. c # NoBlob
          BY DEF Blobs, NoBlob
        <5>3. blobs[c].owner # owner \/ blobNames[c] # name
          BY <3>1, <5>1, <5>2
        <5>4. blobs[c].owner \in Accounts
          BY <5>1 DEF OwnersAreAccounts
        <5> QED
          BY <3>2, <3>3, <5>1, <5>3, <5>4
      <4> QED
        BY <4>1, <4>2
    <3>4. ASSUME NEW a \in Accounts, NEW n \in Names, blobIdByOwnerName'[a][n] # NoBlob
          PROVE  LET c == blobIdByOwnerName'[a][n] IN
                 blobNames'[c] = n /\ blobs'[c].owner = a
      <4>1. CASE a = owner /\ n = name
        BY <1>1, <2>1, <3>1, <3>2, <4>1
      <4>2. CASE a # owner \/ n # name
        <5> DEFINE c == blobIdByOwnerName[a][n]
        <5>1. c \in Blobs /\ c # b /\ blobNames[c] = n /\ blobs[c].owner = a
          BY <1>1, <2>3, <3>2, <3>4, <4>2 DEF NameIndexAgrees
        <5>2. blobNames'[c] = n /\ blobs'[c].owner = a
          BY <1>1, <2>1, <3>1, <5>1
        <5> QED
          BY <3>2, <4>2, <5>2
      <4> QED
        BY <4>1, <4>2
    <3> QED
      BY <3>3, <3>4 DEF NameIndexAgrees
  <2>5. CASE name \notin Names
    <3>1. UNCHANGED nameVars
      BY <1>3, <2>5 DEF Registers, CreateBlobRecord
    <3> QED
      BY <1>1, <2>1, <2>2, <2>3, <3>1 DEF nameVars, NameIndexAgrees
  <2> QED
    BY <2>4, <2>5
<1> QED
  BY <1>2, <1>3, NameEffects

(* A name leads to the one blob its owner registered under it, and every   *)
(* named blob is found under its name: blobIdByOwnerName and the blobs of  *)
(* createBlob never part (PrimeServerRegistry.sol:634 and 655).                    *)
THEOREM NamesAgree == Spec => []NameIndexAgrees
<1>1. Init => OwnersAreAccounts /\ NameIndexAgrees
  <2>1. ASSUME Init
        PROVE  /\ OwnersAreAccounts
               /\ \A b \in Blobs : blobNames[b] \notin Names
               /\ \A a \in Accounts, n \in Names : blobIdByOwnerName[a][n] = NoBlob
    BY <2>1, NamesAssumption DEF Init, OwnersAreAccounts, UnregisteredBlob
  <2> QED
    BY <2>1 DEF NameIndexAgrees
<1>2. IInv => Typed
  BY DEF IInv
<1>3. Typed /\ OwnersAreAccounts /\ NameIndexAgrees /\ [Next]_vars
        => OwnersAreAccounts' /\ NameIndexAgrees'
  BY OwnersStep, NamesStep
<1> QED
  BY <1>1, <1>2, <1>3, Invariance, PTL DEF Spec

=============================================================================
