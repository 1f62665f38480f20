CONSTANTS
  f1 = f1
  f2 = f2
  a = a
  b = b
  t1 = t1
  t2 = t2
  None = None
  Foci = {"refunds", "papers"}
  AmountPaid = 2
  Amounts = {1, 2, 3}
  Txs = {t1, t2}
  Confirmed = {t1}
  RefundIds = {f1, f2}
  Slots = {a, b}
  Disputes = {"d"}
  Payouts = {"p"}
  Rates = {0, 5}
  Costs = {0, 1}
  MaxChanges = 2
SPECIFICATION SpecOne
SYMMETRY Symmetry
INVARIANT TypesOK
INVARIANT RefundSound
INVARIANT CapWithoutRace
INVARIANT OneOpenRefund
INVARIANT RefundedIsPaidBack
INVARIANT PapersSound
PROPERTY ProcessedIsFinal
