\* Two blobs and two providers for the registry's part of it; the explorer looks back
\* two blocks of four, two events to a page.
CONSTANTS
  admin = admin
  alice = alice
  op1 = op1
  Admin = admin
  NoName = NoName
  Sizes <- OneByte
  DefaultPricing <- UsualPricing
  Accounts <- ThreeAccounts
  Operators <- TwoOperators
  Delegates <- Nobody
  NumBlobs = 2
  MaxShards = 1
  MaxProviders = 2
  Names = {n1}
  Pricings <- None
  Policies <- None
  Tenders <- Exact
  Timestamps <- TwoBlocks
  DeploymentBlock <- Unconfigured
  Window = 2
  PageSize = 2
  MaxHeight = 4
SPECIFICATION MCSpec
INVARIANTS
  PoolSplitsEvenly
  PriceIsLeastCovering
  PreparedIsServed
  EnclavesAgree
  MemoryAgrees
  ExplorerShowsIndex
\* A question put to the components has no next step.
CHECK_DEADLOCK FALSE
