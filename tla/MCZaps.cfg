SPECIFICATION Spec
CONSTANTS
  tip = tip
  zap = zap
  note = note
  Clients = {c, d}
  Relays = {a}
  Receipts = {tip, zap}
  Targets = {note}
  TargetOf <- OneNote
  Sats <- OneAndTwo
  FeeLegs = {tip}
  VoteSats = 2
  PostSats = 1
  MaxPending = 1
  MaxParked = 2
  None = None
SYMMETRY Interchangeable
INVARIANTS
  TypeOK
  NoInflation
  StoredWithItsVote
  ExactUnlessRaced
  LockOnlyOfDuplicates
PROPERTIES
  OnlyBatchesRepeatVotes
