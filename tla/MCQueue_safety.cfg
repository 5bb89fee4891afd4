\* Two blobs, two requests, a crash, a failed write, a failed rebuild.
CONSTANTS
  one = one
  other = other
  ana = ana
  ben = ben
  cem = cem
  NoResult = NoResult
  Failure = Failure
  Blobs <- TwoBlobs
  Broken <- OneBroken
  Requests <- TwoRequests
  MaxCrashes = 1
  MaxWriteFailures = 1
  MaxLosses = 1
  MaxFailures = 1
SPECIFICATION Spec
SYMMETRY AnyRequest
INVARIANTS
  AloneUntilOverrun
  DurableAnswers
PROPERTIES
  FinishedIsFinal
