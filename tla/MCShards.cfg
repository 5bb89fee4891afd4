\* One shard, two contents, three requests, two kills, one loss.
CONSTANTS
  Keys = {k1}
  Contents = {c1, c2}
  Requests = {r1, r2, r3}
  MaxKills = 2
  MaxLosses = 1
\* A start killed while it writes identity.json can never be repeated.
CHECK_DEADLOCK FALSE
SYMMETRY RequestSymmetry
SPECIFICATION Spec
INVARIANTS
  AckedIsServed
  OneSigningKey
