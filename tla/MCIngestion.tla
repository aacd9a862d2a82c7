---------------------------- MODULE MCIngestion ----------------------------
(* Ingestion on small instances.                                            *)
EXTENDS Ingestion

CONSTANTS t1, Attachments

\* One mailbox, in it one e-mail.
MCMailOwner == [m \in Mailboxes |-> t1]
MCMail      == [m \in Mailboxes |-> [k \in 1..Attachments |-> 1]]

\* The e-mail's first attachment is one that extraction may fail on.
MCMayFail   == Mailboxes \X {1}
=============================================================================
