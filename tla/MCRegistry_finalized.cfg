\* One blob of one shard that is refunded and finalized afterwards.
CONSTANTS
  admin = admin
  alice = alice
  op1 = op1
  op2 = op2
  Admin = admin
  NoName = NoName
  Sizes <- OneByte
  DefaultPricing <- UsualPricing
  Accounts <- OneOwner
  Operators <- OneOperator
  Delegates <- Nobody
  NumBlobs = 1
  MaxShards = 1
  MaxProviders = 1
  Names = {}
  Pricings <- NoPricings
  Policies <- PublicPolicy
  Tenders <- Exact
  Timestamps <- OneDayClock
SPECIFICATION Spec
INVARIANTS
  FinalizedIsClaimable
