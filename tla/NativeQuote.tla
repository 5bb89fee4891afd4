---------------------------- MODULE NativeQuote ----------------------------
(***************************************************************************)
(* The native-payment quote of PrimeServerRegistry.sol                     *)
(* (quoteNativePayment, _modeMultiplierBps): what a paid blob costs, how   *)
(* the price splits into provider pool and protocol fee, and how the share *)
(* of one shard splits into the reward paid at once and the reserve kept   *)
(* until the blob expires.  Amounts are Solidity uint256 with checked      *)
(* arithmetic: an overflow reverts the call, so it never reaches a state,  *)
(* and the operators work on the naturals.                                 *)
(***************************************************************************)
EXTENDS Integers

StorageModes == {"Public", "Private", "Confidential"}

QuoteMibBytes == 1048576
QuoteDaySeconds == 86400
BpsDenominator == 10000
ProviderReserveBps == 1000

(* Variant: one unit is added where none is left over.                     *)
OnePast(a, b) == (a + b) \div b

(* (a + b - 1) / b, the rounding up the contract writes out each time.     *)
CeilDiv(a, b) == (a + b - 1) \div b

ModeMultiplierBps(storageMode) ==
  CASE storageMode = "Private"      -> 12000
    [] storageMode = "Confidential" -> 15000
    [] OTHER                        -> 10000

(* What one shard earns over the paid days, before the reserve is split    *)
(* off.                                                                    *)
GrossRewardPerShard(size, storageMode, seconds, rate) ==
  CeilDiv(CeilDiv(size, QuoteMibBytes) * rate * ModeMultiplierBps(storageMode)
            * CeilDiv(seconds, QuoteDaySeconds),
          BpsDenominator)

(* Variant: the reserve is rounded in favour of the immediate reward.      *)
ReserveRoundedDown(gross) == (gross * ProviderReserveBps) \div BpsDenominator

ReservePerShard(gross) == CeilDiv(gross * ProviderReserveBps, BpsDenominator)

ProtocolFee(pool, feeBps) == CeilDiv(pool * feeBps, BpsDenominator)

(* quoteNativePayment for a blob that expires `seconds' after the block    *)
(* that creates it.                                                        *)
QuoteNativePayment(size, totalShards, storageMode, seconds, pricing) ==
  LET gross == GrossRewardPerShard(size, storageMode, seconds, pricing.rate)
      pool  == gross * totalShards
      fee   == ProtocolFee(pool, pricing.feeBps)
  IN  [ total                  |-> pool + fee,
        providerPool           |-> pool,
        protocolFee            |-> fee,
        providerRewardPerShard |-> gross - ReservePerShard(gross) ]

(* What the ledger relies on in a quote for `shards' shards: the pool pays *)
(* every shard its reward and its reserve without remainder, where the     *)
(* reserve is found again by dividing the pool (line 829 of the contract); *)
(* the reserve is positive and at least a tenth; the total is pool and     *)
(* fee.                                                                    *)
SplitsEvenly(q, shards) ==
  LET reserve == q.providerPool \div shards - q.providerRewardPerShard
  IN  /\ {q.total, q.providerPool, q.protocolFee, q.providerRewardPerShard} \subseteq Nat
      /\ q.total = q.providerPool + q.protocolFee
      /\ reserve \in Nat \ {0}
      /\ q.providerPool = (q.providerRewardPerShard + reserve) * shards
      /\ 10 * reserve >= q.providerRewardPerShard + reserve
=============================================================================
