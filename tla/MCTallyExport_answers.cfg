SPECIFICATION FairSpec
CONSTANTS
  Invoices = {i1, i2, i3}
  Pushers = {p1}
  Retriers = {t1, t2}
  FileWriters = {f1}
  NoInvoice = NoInvoice
  NoBatch = NoBatch
  Unmappable = {i3}
  NoAmount = {}
  NoVendorState = {i2}
  F12Toggle = TRUE
  F12Verified = TRUE
  MaxFaults = 2
INVARIANTS
  ShownAsExportedIsInTally
PROPERTIES
  SuccessItemsStay
  RequestsAreAnswered
