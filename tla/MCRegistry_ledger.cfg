\* Two blobs of one shard under one name, under- and overpayment, price changes, fee
\* withdrawal; the owner is also the provider, and before that coordinator and back.
CONSTANTS
  admin = admin
  alice = alice
  op1 = op1
  op2 = op2
  Admin = admin
  NoName = NoName
  Sizes <- OneByte
  DefaultPricing <- UsualPricing
  Accounts <- OwnerAndAdmin
  Operators <- JustAlice
  Delegates <- JustAlice
  NumBlobs = 2
  MaxShards = 1
  MaxProviders = 1
  Names = {n1}
  Pricings <- EdgePricings
  Policies <- PublicPolicy
  Tenders <- ShortExactOver
  Timestamps <- OneDayClock
SPECIFICATION LedgerSpec
INVARIANTS
  Solvent
  NameIndexAgrees
PROPERTY
  LedgerOnlyGrows
