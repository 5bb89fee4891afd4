\* One blob, one request, one crash; clients retry.
CONSTANTS
  one = one
  other = other
  ana = ana
  ben = ben
  cem = cem
  NoResult = NoResult
  Failure = Failure
  Blobs <- OneBlob
  Broken <- NoBlob
  Requests <- OneRequest
  MaxCrashes = 1
  MaxWriteFailures = 0
  MaxLosses = 0
  MaxFailures = 0
SPECIFICATION RetrySpec
PROPERTIES
  JobsSurviveRestart
