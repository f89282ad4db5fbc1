SPECIFICATION Spec
CONSTANTS
  Slots = {r1}
  Notes = {n1}
  Invoices = {h1, h2}
  Tokens = {t1}
  Price = 1
  Amounts = {1, 2}
  Seeded = {}
  Supersedes = {}
  Routes = {"confirm", "offer", "get_pay"}
  None = None
INVARIANTS
  ClankIsMoneyPaid
CHECK_DEADLOCK FALSE
