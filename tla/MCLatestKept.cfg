SPECIFICATION Spec
CONSTANTS
  v1 = v1
  v2 = v2
  v3 = v3
  Writers = {w1, w2}
  Versions = {v1, v2, v3}
  Supersedes <- InOrder
  Callers = {"socket", "profile", "ingest", "paid"}
  None = None
INVARIANTS
  OnlyLatestKept
