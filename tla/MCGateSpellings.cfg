\* One transaction, its hash written in two ways, and one request at a time.
SPECIFICATION GateSpec
CONSTANTS
  Lightning = {invoice}
  Tempo = {tx}
  Stripe = {}
  Requests = {r1}
  Prices = {1}
  Sums = {1}
  Spellings = {lower, upper}
  Plain = lower
  None = None
INVARIANTS
  TransactionTakenOnce
