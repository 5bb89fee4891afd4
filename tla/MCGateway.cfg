\* Either a failing call or crash and a lost shard, or a call of the owner past the gateway
\* and time for a refund.  The registry has nothing left to do when all is settled and
\* expired.
CONSTANTS
  admin = admin
  alice = alice
  op1 = op1
  op2 = op2
  Admin = admin
  NoName = NoName
  Accounts <- AllAccounts
  Operators <- TwoOperators
  Owners <- JustAlice
  ProviderList <- InOrder
  Delegates <- Nobody
  NumBlobs = 1
  MaxShards = 2
  MaxProviders = 2
  Names = {n1}
  Sizes <- OneByte
  Pricings <- Nobody
  DefaultPricing <- UsualPricing
  Policies <- PublicPolicy
  Tenders <- Exact
  Timestamps <- ThreeTimes
  DataShards = 1
  Requests = {r1, r2}
  MaxFaults = 1
  MaxLosses = 1
  MaxOwnerCalls = 1
SPECIFICATION MCSpec
CHECK_DEADLOCK FALSE
INVARIANTS
  AcksAreBacked
  IndexedIsFinal
  ReportedIsSettled
  RecoveringHasRebuild
PROPERTIES
  LostIsRebuilt
  UploadsFinish
