SPECIFICATION Spec
CONSTANTS
  Invoices = {i1}
  Pushers = {p1, p2, p3}
  Retriers = {}
  FileWriters = {f1}
  NoInvoice = NoInvoice
  NoBatch = NoBatch
  Unmappable = {}
  NoAmount = {}
  NoVendorState = {}
  F12Toggle = TRUE
  F12Verified = TRUE
  MaxFaults = 3
SYMMETRY PushSymmetry
INVARIANTS
  TypeOK
  StageIsNextVersion
  DatabaseNeverAhead
  OneWinnerPerVersion
PROPERTIES
  VersionsAreConfirmedInOrder
  ImplementsAgreement
