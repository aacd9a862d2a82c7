SPECIFICATION Spec
CONSTANTS
  clerk = clerk
  clerk2 = clerk2
  admin = admin
  small = small
  large = large
  Orgs = {o1}
  NoOrg = NoOrg
  Invoices = {i1}
  OrgOf <- MCOrgOf
  Users = {clerk, clerk2, admin}
  NoUser = NoUser
  Role <- MCRole
  SignOff = {admin}
  Capable = {admin}
  Fields = {small, large}
  Complete = {small}
  Limit <- MCLimit
  Configs <- AdvancedConfigs
  Submitters = {s1, s2}
  Deciders = {d1, d2, d3}
  Rejecters = {x1}
  Editors = {e1}
  Configurers = {c1}
  Exporters = {t1}
  Deleters = {k1}
  MaxOpen = 1
SYMMETRY ServedAlike
INVARIANTS
  RejectionStands
  DisabledLeavesNoneWaiting
  CompleteStepMovesOn
PROPERTIES
  AllMeansEveryone
  ApprovedAsSeen
  NoWayAround
  ImplementsLife
