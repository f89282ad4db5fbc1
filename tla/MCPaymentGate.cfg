\* A payment of each kind and two requests at a time, under fairness.  A transaction or a token is
\* too small for the challenge or covers it; PaidActions has invoices below a price.  One way to
\* write the hash of the transaction: MCGateSpellings has two.
SPECIFICATION FairGateSpec
CONSTANTS
  Lightning = {invoice}
  Tempo = {tx}
  Stripe = {spt}
  Requests = {r1, r2}
  Prices = {1}
  Sums = {0, 1}
  Spellings = {lower}
  Plain = lower
  None = None
INVARIANTS
  KeyTakenOnce
  ChargeIsHonoured
PROPERTIES
  KeepsPromise
  RetryIsHonoured
  EveryRequestEnds
