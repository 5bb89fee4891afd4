\* One blob of up to two shards, two providers, recovery and reassignment, an owner
\* who becomes coordinator and back.
CONSTANTS
  admin = admin
  alice = alice
  op1 = op1
  op2 = op2
  Admin = admin
  NoName = NoName
  Sizes <- OneByte
  DefaultPricing <- UsualPricing
  Accounts <- TwoProviders
  Operators <- TwoOperators
  Delegates <- JustAlice
  NumBlobs = 1
  MaxShards = 2
  MaxProviders = 2
  Names = {}
  Pricings <- NoPricings
  Policies <- PublicPolicy
  Tenders <- Exact
  Timestamps <- OneDayClock
SYMMETRY OperatorSymmetry
SPECIFICATION Spec
INVARIANTS
  TypeOK
  SettlementMatchesMarkers
  SettledExactlyWhenAllPaid
  ReserveHeldUntilExpiry
  ActiveFullyAcknowledged
  RefundedNeverSettled
