SPECIFICATION Spec
CONSTANTS
  Slots = {r1, r2}
  Notes = {n1, n2}
  Invoices = {h1, h2}
  Tokens = {t1}
  Price = 1
  Amounts = {1, 2}
  Seeded = {}
  Supersedes = {}
  Routes = {"submit", "pay", "confirm", "get_pay", "offer"}
  None = None
SYMMETRY AllInterchangeable
INVARIANTS
  OneActionPerInvoice
  LockInv
  PublishedIsStored
  GateCreditCovered
PROPERTIES
  BurnedOnlyByTokenRoutes
  OfferNotLost
  KeepsPromise
