SPECIFICATION Spec
CONSTANTS
  t1 = t1  t2 = t2  i1 = i1  i2 = i2  w1 = w1  w2 = w2
  Txns = {t1, t2}
  Invoices = {i1, i2}
  None = None
  Debit <- MCDebit
  Total <- MCTotal
  Tax <- MCTax
  Fits <- MCFits
  TcsPercent = 1
  Tolerance = 3
  AutoMatch = 50
  Suggest = 30
  Workers = {w1, w2}
  MaxRequests = 5
  MaxFaults = 1
INVARIANTS TypeOK VerifiedIsSignalled StatusTellsInvoice 
PROPERTIES RunMatchesAmounts ManualStands
CHECK_DEADLOCK FALSE
SYMMETRY WorkersAlike
