SPECIFICATION Spec
CONSTANTS
  Workers = {w1, w2}
  Totals <- MCTotals
  Subtotals <- MCSubtotals
  GstTaxes <- MCGstTaxes
  TdsAmounts <- MCTds
  TcsPercents = {0, 1}
  Scanned = 300
  MaxRequests = 3
SYMMETRY Symmetric
INVARIANTS
  TypeOK
  GstVoucherBalances
  PartyGetsNet
CHECK_DEADLOCK FALSE
