\* Two blobs, two requests, a crash and a failed rebuild; clients retry.
CONSTANTS
  one = one
  other = other
  ana = ana
  ben = ben
  cem = cem
  NoResult = NoResult
  Failure = Failure
  Blobs <- TwoBlobs
  Broken <- NoBlob
  Requests <- TwoRequests
  MaxCrashes = 1
  MaxWriteFailures = 0
  MaxLosses = 0
  MaxFailures = 1
SPECIFICATION RetrySpec
PROPERTIES
  JobsFinish
  EveryRequestEnds
