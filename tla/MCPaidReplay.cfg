SPECIFICATION CountedSpec
CONSTANTS
  Slots = {r1}
  Notes = {n1}
  Invoices = {h1, h2}
  Tokens = {t1}
  Price = 1
  Amounts = {1}
  Seeded = {}
  Supersedes = {}
  Routes = {"submit"}
  None = None
INVARIANTS
  AnsweredOnce
