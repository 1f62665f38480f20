CONSTANTS
  f1 = f1
  f2 = f2
  a = a
  b = b
  t1 = t1
  t2 = t2
  None = None
  Foci = {"refunds"}
  AmountPaid = 2
  Amounts = {2}
  Txs = {t1}
  Confirmed = {t1}
  RefundIds = {f1, f2}
  Slots = {a, b}
  Disputes = {}
  Payouts = {}
  Rates = {0}
  Costs = {0}
  MaxChanges = 0
SPECIFICATION SpecOne
INVARIANT RefundsWithinPaid
