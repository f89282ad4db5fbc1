SPECIFICATION FairFetchSpec
CONSTANTS
  v1 = v1
  v2 = v2
  Writers = {w1, w2}
  Versions = {v1, v2}
  Supersedes <- InOrder
  Payable <- Later
  Callers = {"socket", "profile", "ingest", "paid"}
  None = None
  MissTTL = 2
  MaxCrashes = 1
INVARIANTS
  SuccessIsKept
PROPERTIES
  LatestStays
  PaidNeverSplits
  EveryStoreEnds
  AnswersMoveOn
  EventuallyProfiled
