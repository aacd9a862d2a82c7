SPECIFICATION Spec
CONSTANTS
  t1 = t1
  Attachments = 2
  Tenants = {t1}
  Mailboxes = {m1}
  MailOwner <- MCMailOwner
  Mail <- MCMail
  NoMessage = NoMessage
  NoSource = NoSource
  MayFail <- MCMayFail
  Slots = {s1}
  BatchSize = 2
  RerunMax = 0
  MaxUploads = 0
  MaxRequests = 1
  MaxDecisions = 0
  MaxFaults = 0
INVARIANTS
  EveryAttachmentIsKept
