SPECIFICATION Spec
CONSTANTS
  i1 = i1  i2 = i2  i3 = i3  v1 = v1  v2 = v2  h1 = h1  w1 = w1  w2 = w2
  Invoices = {i1, i2, i3}
  Vendors = {v1, v2}
  Heads = {h1}
  NoHead = NoHead
  NoPan = {}
  Base <- MCBase
  RateBps <- MCRateBps
  Annual <- MCAnnual
  Single <- MCSingle
  VendorOf <- MCVendorOf
  Workers = {w1, w2}
  Cap = 1
  MaxRequests = 3
  MaxArchives = 2
  MaxMerges = 1
  MaxFaults = 1
INVARIANTS TypeOK NoEntryTwice EntriesAreKept TotalsAreKept SettledTaxIsDue
           ShownTaxWasRecorded
CHECK_DEADLOCK FALSE
SYMMETRY WorkersAlike
