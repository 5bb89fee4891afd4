\* Two children, two troubles, five blocks, two wallets, one challenge and
\* two calls; a node that was stopped for good does nothing.
CONSTANTS
  NumProviders = 2
  MaxTrouble = 2
  DeploymentBlock = 1
  MaxBlock = 5
  MaxBlockRange = 2
  MaxRangesPerPoll = 2
  MaxPollFailures = 1
  Wallets = {w1, w2}
  Nonces = {n1}
  Calls = {c1, c2}
  ChallengeTtl = 1
  SessionTtl = 1
  MaxClock = 2
SPECIFICATION MCSpec
CHECK_DEADLOCK FALSE
INVARIANTS
  NoOrphans
  ScannedOnce
  NothingSkipped
  TokensAreSigned
  OneSessionPerChallenge
PROPERTIES
  StopCompletes
  CatchesUp
