SPECIFICATION Spec
CONSTANTS
  Slots = {r1, r2}
  old = old
  new = new
  Notes = {old, new}
  Invoices = {h1, h2}
  Tokens = {t1}
  Price = 1
  Amounts = {1}
  Seeded = {old}
  Supersedes <- LaterProfile
  Routes = {"submit", "post", "vote", "confirm_vote", "pay", "get_pay", "offer"}
  None = None
SYMMETRY Interchangeable
INVARIANTS
  TypeOK
PROPERTIES
  NeverReverts
  KeepsPromise
