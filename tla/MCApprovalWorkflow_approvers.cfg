SPECIFICATION Spec
CONSTANTS
  clerk = clerk
  clerk2 = clerk2
  admin = admin
  small = small
  large = large
  Orgs = {o1}
  NoOrg = NoOrg
  Invoices = {i1}
  OrgOf <- MCOrgOf
  Users = {clerk, clerk2, admin}
  NoUser = NoUser
  Role <- MCRole
  SignOff = {admin}
  Capable = {admin}
  Fields = {small, large}
  Complete = {small, large}
  Limit <- MCLimit
  Configs <- WorkflowsOn
  Submitters = {s1}
  Deciders = {d1, d2, d3}
  Rejecters = {}
  Editors = {}
  Configurers = {}
  Exporters = {}
  Deleters = {}
  MaxOpen = 3
SYMMETRY DeciderSymmetry
PROPERTIES
  EveryStepIsSigned
