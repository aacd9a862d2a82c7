SPECIFICATION Spec
CONSTANTS
  t1 = t1
  Attachments = 2
  Tenants = {t1}
  Mailboxes = {m1}
  MailOwner <- MCMailOwner
  Mail <- MCMail
  NoMessage = NoMessage
  NoSource = NoSource
  MayFail <- MCMayFail
  Slots = {s1, s2}
  BatchSize = 2
  RerunMax = 1
  MaxUploads = 1
  MaxRequests = 2
  MaxDecisions = 1
  MaxFaults = 1
INVARIANTS
  TypeOK
  RunningMeansOneJob
  
  RequestIsRemembered
PROPERTIES
  DecisionsStay
