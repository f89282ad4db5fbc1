SPECIFICATION Spec
CONSTANTS
  tip = tip
  zap = zap
  note = note
  Clients = {c, d}
  Relays = {}
  Receipts = {tip, zap}
  Targets = {note}
  TargetOf <- OneNote
  Sats <- OneEach
  FeeLegs = {}
  VoteSats = 1
  PostSats = 1
  MaxPending = 1
  MaxParked = 1
  None = None
INVARIANTS
  ZapsAtFaceValue
