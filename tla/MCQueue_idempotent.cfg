\* Two blobs, two requests, one failed rebuild.
CONSTANTS
  one = one
  other = other
  ana = ana
  ben = ben
  cem = cem
  NoResult = NoResult
  Failure = Failure
  Blobs <- TwoBlobs
  Broken <- NoBlob
  Requests <- TwoRequests
  MaxCrashes = 0
  MaxWriteFailures = 0
  MaxLosses = 0
  MaxFailures = 1
SPECIFICATION Spec
INVARIANTS
  RepeatedAnswersAgree
