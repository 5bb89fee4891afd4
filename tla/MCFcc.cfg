\* A blob of alice, two wallets, two machines; the flows end when the intents are used up.
CONSTANTS
  admin = admin
  alice = alice
  bob = bob
  sender = sender
  device = device
  m1 = m1
  m2 = m2
  Admin = admin
  NoName = NoName
  Sizes <- OneByte
  DefaultPricing <- UsualPricing
  Accounts <- People
  Operators <- Nobody
  Delegates <- Nobody
  NumBlobs = 1
  MaxShards = 1
  MaxProviders = 1
  Names = {}
  Pricings <- Nobody
  Policies <- EncryptedPolicies
  Tenders <- Exact
  Timestamps <- OneDayClock
  Wallets <- Signers
  Controllers <- JustSender
  Devices <- OneDevice
  MaxNonce = 0
  Owners <- JustAlice
  SenderContract = sender
  Machines <- TwoMachines
  TeeId = m1
  Envelopes <- SomeEnvelopes
  MaxInstructions = 2
SPECIFICATION FccSpec
CHECK_DEADLOCK FALSE
INVARIANTS
  ConsumedHasResult
  ReleasedIsEntitled
  DoneIsConsumed
PROPERTIES
  AccessIsOneTime
