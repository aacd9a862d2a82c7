SPECIFICATION Spec
CONSTANTS
  clerk = clerk
  clerk2 = clerk2
  admin = admin
  small = small
  large = large
  Orgs = {o1}
  NoOrg = NoOrg
  Invoices = {i1}
  OrgOf <- MCOrgOf
  Users = {clerk, admin}
  NoUser = NoUser
  Role <- MCRole
  SignOff = {admin}
  Capable = {admin}
  Fields = {small, large}
  Complete = {small, large}
  Limit <- MCLimit
  Configs <- AllConfigs
  Submitters = {s1}
  Deciders = {d1}
  Rejecters = {x1}
  Editors = {e1}
  Configurers = {c1}
  Exporters = {t1}
  Deleters = {}
  MaxOpen = 2
INVARIANTS
  TypeOK
  AwaitingIsInProgress
  EditsSeeEveryDecision
