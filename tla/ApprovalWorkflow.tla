-------------------------- MODULE ApprovalWorkflow --------------------------
(***************************************************************************)
(* The life of an invoice from review to export, and the configurable      *)
(* approval workflow that gates it: InvoiceService (approve, edit, delete),*)
(* ApprovalWorkflowService (initiate, approve, reject, save configuration) *)
(* and the write with which ExportService marks an invoice exported.       *)
(*                                                                         *)
(* One element of Submitters, Deciders, ... is one HTTP request, about one *)
(* invoice of one tenant. A step of a request ends at its next read or     *)
(* write of the database. A request that throws changes nothing more, and  *)
(* is "done" like one that succeeds.                                       *)
(*                                                                         *)
(* Invoices are Mongoose documents. save() sends what the request changed, *)
(* not the document it loaded: $push for an array it appended to and $set  *)
(* for each path it assigned, to whatever the document is by then. A save  *)
(* that pushes increments `ver' (Mongoose's __v); only one that assigns a  *)
(* whole array also demands the `ver' it loaded. updateOne, updateMany and *)
(* findOneAndUpdate neither look at `ver' nor change it.                   *)
(***************************************************************************)
EXTENDS Integers, FiniteSets

CONSTANTS
  Orgs,         \* the client organisations of the tenant
  NoOrg,        \* "no workflow": workflowState.workflowId is not set
  Invoices,     \* the invoices
  OrgOf,        \* OrgOf[i]: Invoice.clientOrgId
  Users,        \* users who hold canApproveInvoices
  NoUser,       \* "no user": the author of a skipped step
  Role,         \* Role[u]: TenantUserRole.role
  SignOff,      \* users with the capability canSignOffCompliance
  Capable,      \* users with the capability a "capability" step asks for
  Fields,       \* the parsed contents an invoice may have
  Complete,     \* contents with all required fields and no open risk signal
  Limit,        \* Limit[u]: contents within u's approvalLimitMinor
  Configs,      \* the workflow configurations an organisation may have
  Submitters,   \* POST /invoices/approve requests
  Deciders,     \* POST /invoices/:id/workflow-approve requests
  Rejecters,    \* POST /invoices/:id/workflow-reject requests
  Editors,      \* PATCH /invoices/:id requests with parsed fields
  Configurers,  \* PUT /admin/approval-workflow requests
  Exporters,    \* export requests, from fetching the invoice to marking it
  Deleters,     \* POST /invoices/delete requests
  MaxOpen       \* bound: requests in progress at the same time

Approvers == Submitters \cup Deciders
Requests  == Approvers \cup Rejecters \cup Editors \cup Configurers
             \cup Exporters \cup Deleters

\* WorkflowStep: who may decide it, how many must, and for which contents it
\* applies (its condition). A persona is compared like a role.
StepType ==
  [signoff : BOOLEAN,
   approver : {"any_member", "role", "specific_users", "capability"},
   users : SUBSET Users, role : {Role[u] : u \in Users},
   rule : {"any", "all"}, when : SUBSET Fields]

\* The steps of the configurations, by order (`find' takes the first step of
\* an order: a configuration has one).
NoPlan == [o \in {} |-> {}]
Plans  == {c.steps : c \in Configs} \cup {NoPlan}

ASSUME ConstantsAssumption ==
  /\ NoOrg \notin Orgs
  /\ NoUser \notin Users
  /\ OrgOf \in [Invoices -> Orgs]
  /\ Complete \subseteq Fields
  /\ Limit \in [Users -> SUBSET Fields]
  /\ MaxOpen \in Nat
  /\ \A c \in Configs :
       /\ c.enabled \in BOOLEAN
       /\ DOMAIN c.steps \subseteq Nat \ {0}
       /\ IsFiniteSet(DOMAIN c.steps)
       /\ \A o \in DOMAIN c.steps : c.steps[o] \in StepType
ASSUME RequestsAssumption ==
  /\ Submitters \cap (Deciders \cup Rejecters) = {}
  /\ Deciders \cap Rejecters = {}
  /\ (Approvers \cup Rejecters) \cap Editors = {}
  /\ (Approvers \cup Rejecters \cup Editors) \cap Configurers = {}
  /\ (Approvers \cup Rejecters \cup Editors \cup Configurers)
       \cap (Exporters \cup Deleters) = {}
  /\ Exporters \cap Deleters = {}

VARIABLES
  config,       \* ApprovalWorkflow of each organisation
  doc,          \* Invoice documents
  pc,           \* where each request is
  job           \* what a request holds: arguments and what it has read

vars == <<config, doc, pc, job>>

Statuses == {"PARSED", "NEEDS_REVIEW", "AWAITING_APPROVAL", "APPROVED",
             "EXPORTED", "DELETED"}
Open     == {"PARSED", "NEEDS_REVIEW"}
Flows    == {"none", "in_progress", "approved", "rejected"}
Results  == [req : Approvers \cup Rejecters, step : Nat,
             user : Users \cup {NoUser},
             action : {"approved", "rejected", "skipped"}, seen : Fields]
Docs     == [status : Statuses, fields : Fields, flow : Flows, step : Nat,
             by : Orgs \cup {NoOrg}, results : SUBSET Results, ver : Nat]
Phases   == {"idle", "check", "direct", "read", "find", "enter", "start",
             "load", "judge", "sign", "reject", "open", "save", "configure",
             "revert", "fetch", "mark", "delete", "done"}

Jobs     == [invoice : Invoices, user : Users, doc : Docs,
             org : Orgs \cup {NoOrg}, plan : Plans]
NoJob    == [request |-> "none"]

\* A document before anything happened to it.
Fresh(s, f) == [status |-> s, fields |-> f, flow |-> "none", step |-> 0,
                by |-> NoOrg, results |-> {}, ver |-> 0]

Init ==
  /\ config \in [Orgs -> Configs]
  /\ doc \in [Invoices -> {Fresh("NEEDS_REVIEW", f) : f \in Fields}
                          \cup {Fresh("PARSED", f) : f \in Complete}]
  /\ pc  = [r \in Requests |-> "idle"]
  /\ job = [r \in Requests |-> NoJob]

-----------------------------------------------------------------------------
(* The rules: who may decide a step, and which step comes next.            *)

\* canUserApproveStep, and approveStep's check of the sign-off capability.
CanApprove(u, s) ==
  /\ s.signoff => u \in SignOff
  /\ \/ s.approver = "specific_users" /\ u \in s.users
     \/ s.approver = "role" /\ Role[u] = s.role
     \/ s.approver = "capability" /\ u \in Capable
     \/ s.approver = "any_member" /\ Role[u] # "PLATFORM_ADMIN"

\* How many approvals a step of rule "all" waits for. (A step that asks for a
\* capability waits for every member, not for every holder of it.)
Required(s) ==
  CASE s.approver = "specific_users" -> Cardinality(s.users)
    [] s.approver = "role" -> Cardinality({u \in Users : Role[u] = s.role})
    [] OTHER -> Cardinality({u \in Users : Role[u] # "PLATFORM_ADMIN"})

\* evaluateCondition
Applies(s, f) == f \in s.when

\* The steps after step n that apply to contents f, and those that do not.
Ahead(plan, n, f)   == {o \in DOMAIN plan : o > n /\ Applies(plan[o], f)}
Skipped(plan, n, f) == {o \in DOMAIN plan :
                          /\ o > n
                          /\ ~Applies(plan[o], f)
                          /\ \A p \in Ahead(plan, n, f) : o < p}

\* Mutant of IsNext: goes on with the last step that applies.
IsLast(o, S) == o \in S /\ \A p \in S : p <= o

\* The step to go on with, of those ahead.
IsNext(o, S) == o \in S /\ \A p \in S : o <= p

Approvals(d) == {x \in d.results : x.action = "approved" /\ x.step = d.step}

\* buildSimpleSteps
SimpleSteps(managerReview, finalSignoff) ==
  LET step(approver) == [signoff |-> FALSE, approver |-> approver,
                         users |-> {}, role |-> "TENANT_ADMIN",
                         rule |-> "any", when |-> Fields]
      admins == {managerReview, finalSignoff} \cap {TRUE}
  IN  [o \in 1..(IF managerReview /\ finalSignoff THEN 3
                 ELSE 1 + Cardinality(admins)) |->
         step(IF o = 1 THEN "any_member" ELSE "role")]

-----------------------------------------------------------------------------
(* Steps of a request.                                                     *)

At(r, phase)   == pc[r] = phase
Goto(r, phase) == pc' = [pc EXCEPT ![r] = phase]
Learn(r, j)    == job' = [job EXCEPT ![r] = j]
Finish(r)      == Goto(r, "done") /\ Learn(r, NoJob)

Exists(i)      == doc[i].status # "DELETED"

\* The write of a document; a save of one that is gone throws.
Write(i, d)    == doc' = [doc EXCEPT ![i] = IF Exists(i) THEN d ELSE @]

InProgress     == {r \in Requests : pc[r] \notin {"idle", "done"}}

\* A request arrives, from a user and about an invoice.
FirstPhase(r) ==
  CASE r \in Submitters  -> "check"
    [] r \in Deciders    -> "load"
    [] r \in Rejecters   -> "load"
    [] r \in Editors     -> "open"
    [] r \in Configurers -> "configure"
    [] r \in Exporters   -> "fetch"
    [] r \in Deleters    -> "delete"

Arrive(r) ==
  /\ At(r, "idle")
  /\ Cardinality(InProgress) < MaxOpen
  /\ \E i \in Invoices, u \in Users :
       Learn(r, [invoice |-> i, user |-> u, doc |-> doc[i],
                 org |-> NoOrg, plan |-> NoPlan])
  /\ Goto(r, FirstPhase(r))
  /\ UNCHANGED <<config, doc>>

\* approveInvoices asks whether any organisation of the tenant has a workflow.
CheckEnabled(r) ==
  /\ At(r, "check")
  /\ Goto(r, IF \E o \in Orgs : config[o].enabled THEN "read" ELSE "direct")
  /\ UNCHANGED <<config, doc, job>>

\* Approval without a workflow: an update filtered by status.
ApproveDirectly(r) ==
  /\ At(r, "direct")
  /\ LET i == job[r].invoice
     IN  doc' = [doc EXCEPT ![i].status = IF @ \in Open THEN "APPROVED" ELSE @]
  /\ Finish(r)
  /\ UNCHANGED config

\* approveWithWorkflow reads the invoice to see what there is to do.
ReadStatus(r) ==
  /\ At(r, "read")
  /\ LET s == doc[job[r].invoice].status
     IN  \/ s \in Open /\ Goto(r, "find") /\ UNCHANGED job
         \/ s = "AWAITING_APPROVAL" /\ Goto(r, "load") /\ UNCHANGED job
         \/ s \notin Open \cup {"AWAITING_APPROVAL"} /\ Finish(r)
  /\ UNCHANGED <<config, doc>>

\* initiateWorkflow reads an enabled workflow: any one of the tenant.
FindWorkflow(r) ==
  /\ At(r, "find")
  /\ \/ \E o \in Orgs :
          /\ config[o].enabled
          /\ Learn(r, [job[r] EXCEPT !.org = o, !.plan = config[o].steps])
          /\ Goto(r, IF config[o].steps = NoPlan THEN "direct" ELSE "enter")
     \/ /\ \A o \in Orgs : ~config[o].enabled
        /\ Goto(r, "direct")
        /\ UNCHANGED job
  /\ UNCHANGED <<config, doc>>

\* Mutant of LoadForEntry: enters no workflow whose first step does not apply.
LoadForFirstStep(r) ==
  /\ At(r, "enter")
  /\ LET d == doc[job[r].invoice]
         p == job[r].plan
     IN  IF d.status \in Open /\ 1 \in DOMAIN p /\ Applies(p[1], d.fields)
         THEN Goto(r, "start") /\ Learn(r, [job[r] EXCEPT !.doc = d])
         ELSE Goto(r, "direct") /\ UNCHANGED job
  /\ UNCHANGED <<config, doc>>

\* ... and then the invoice. No workflow is entered when the invoice is not
\* open any more, when there is no step 1, or when step 1 is the only one and
\* does not apply: the caller then approves directly.
LoadForEntry(r) ==
  /\ At(r, "enter")
  /\ LET d == doc[job[r].invoice]
         p == job[r].plan
     IN  IF /\ d.status \in Open
            /\ 1 \in DOMAIN p
            /\ Applies(p[1], d.fields) \/ DOMAIN p # {1}
         THEN Goto(r, "start") /\ Learn(r, [job[r] EXCEPT !.doc = d])
         ELSE Goto(r, "direct") /\ UNCHANGED job
  /\ UNCHANGED <<config, doc>>

\* The save of initiateWorkflow: it assigns workflowState as a whole, at step
\* 2 when step 1 does not apply (whether step 2 does is not asked).
Start(r) ==
  /\ At(r, "start")
  /\ LET i == job[r].invoice
         f == job[r].doc.fields
         skip == ~Applies(job[r].plan[1], f)
     IN  /\ Write(i, [doc[i] EXCEPT
                !.status = "AWAITING_APPROVAL", !.flow = "in_progress",
                !.by = job[r].org, !.step = IF skip THEN 2 ELSE 1,
                !.results = IF skip THEN {[req |-> r, step |-> 1,
                              user |-> NoUser, action |-> "skipped",
                              seen |-> f]} ELSE {},
                !.ver = @ + 1])
         /\ IF Exists(i) THEN Goto(r, "load") /\ UNCHANGED job ELSE Finish(r)
  /\ UNCHANGED config

\* approveStep and rejectStep load the invoice.
LoadForDecision(r) ==
  /\ At(r, "load")
  /\ LET d == doc[job[r].invoice]
     IN  IF d.status = "AWAITING_APPROVAL" /\ d.flow = "in_progress"
         THEN Goto(r, "judge") /\ Learn(r, [job[r] EXCEPT !.doc = d])
         ELSE Finish(r)
  /\ UNCHANGED <<config, doc>>

\* Mutant of MayDecide: does not ask whether the user approved already.
MayDecideAgain(r, p) ==
  LET u == job[r].user
      d == job[r].doc
  IN  /\ d.step \in DOMAIN p
      /\ CanApprove(u, p[d.step])
      /\ r \in Approvers => d.fields \in Limit[u]

\* ... and the workflow it runs under, and decide whether the user may act:
\* an approver must be within the limit and not have approved this step.
MayDecide(r, p) ==
  LET u == job[r].user
      d == job[r].doc
  IN  /\ d.step \in DOMAIN p
      /\ CanApprove(u, p[d.step])
      /\ r \in Approvers => /\ d.fields \in Limit[u]
                            /\ \A x \in Approvals(d) : x.user # u

Judge(r) ==
  /\ At(r, "judge")
  /\ LET o == job[r].doc.by
         p == IF o \in Orgs THEN config[o].steps ELSE NoPlan
     IN  IF MayDecide(r, p)
         THEN /\ Goto(r, IF r \in Rejecters THEN "reject" ELSE "sign")
              /\ Learn(r, [job[r] EXCEPT !.plan = p])
         ELSE Finish(r)
  /\ UNCHANGED <<config, doc>>

\* The step result a request appends, and the approvals it then counts: those
\* of the document it loaded, and its own.
Mark(r, action) ==
  [req |-> r, step |-> job[r].doc.step, user |-> job[r].user,
   action |-> action, seen |-> job[r].doc.fields]

\* Mutant of Enough: forgets to count the request's own approval.
EnoughWithoutOwn(r) ==
  LET d == job[r].doc
      s == job[r].plan[d.step]
  IN  s.rule = "all" => Cardinality(Approvals(d)) >= Required(s)

\* A step of rule "all" is passed with the last approval it requires.
Enough(r) ==
  LET d == job[r].doc
      s == job[r].plan[d.step]
  IN  s.rule = "all" => Cardinality(Approvals(d)) + 1 >= Required(s)

\* What an approval that passes the step appends: its own result, and one for
\* each step it skips.
Appended(r) ==
  LET d == job[r].doc
  IN  {Mark(r, "approved")} \cup
      {[req |-> r, step |-> o, user |-> NoUser, action |-> "skipped",
        seen |-> d.fields] : o \in Skipped(job[r].plan, d.step, d.fields)}

\* approveStep's save, when others must approve the step too ...
SignPartly(r) ==
  /\ At(r, "sign")
  /\ ~Enough(r)
  /\ LET i == job[r].invoice
     IN  Write(i, [doc[i] EXCEPT !.results = @ \cup {Mark(r, "approved")},
                                 !.ver = @ + 1])
  /\ Finish(r)
  /\ UNCHANGED config

\* ... when a later step applies ...
SignOn(r) ==
  /\ At(r, "sign")
  /\ Enough(r)
  /\ \E o \in Ahead(job[r].plan, job[r].doc.step, job[r].doc.fields) :
       LET i == job[r].invoice
       IN  /\ IsNext(o, Ahead(job[r].plan, job[r].doc.step, job[r].doc.fields))
           /\ Write(i, [doc[i] EXCEPT !.results = @ \cup Appended(r),
                                      !.step = o, !.ver = @ + 1])
  /\ Finish(r)
  /\ UNCHANGED config

\* ... and when none does: the invoice is approved.
SignLast(r) ==
  /\ At(r, "sign")
  /\ Enough(r)
  /\ Ahead(job[r].plan, job[r].doc.step, job[r].doc.fields) = {}
  /\ LET i == job[r].invoice
     IN  Write(i, [doc[i] EXCEPT !.results = @ \cup Appended(r),
                                 !.status = "APPROVED", !.flow = "approved",
                                 !.step = 0, !.ver = @ + 1])
  /\ Finish(r)
  /\ UNCHANGED config

\* Mutant of Reject: the workflow goes on.
RejectInPassing(r) ==
  /\ At(r, "reject")
  /\ LET i == job[r].invoice
     IN  Write(i, [doc[i] EXCEPT !.results = @ \cup {Mark(r, "rejected")},
                                 !.ver = @ + 1])
  /\ Finish(r)
  /\ UNCHANGED config

\* Mutant of Reject: the status stays.
RejectKeepingStatus(r) ==
  /\ At(r, "reject")
  /\ LET i == job[r].invoice
     IN  Write(i, [doc[i] EXCEPT !.results = @ \cup {Mark(r, "rejected")},
                                 !.flow = "rejected", !.ver = @ + 1])
  /\ Finish(r)
  /\ UNCHANGED config

\* rejectStep's save.
Reject(r) ==
  /\ At(r, "reject")
  /\ LET i == job[r].invoice
     IN  Write(i, [doc[i] EXCEPT !.results = @ \cup {Mark(r, "rejected")},
                                 !.status = "NEEDS_REVIEW",
                                 !.flow = "rejected", !.ver = @ + 1])
  /\ Finish(r)
  /\ UNCHANGED config

-----------------------------------------------------------------------------
(* Editing, configuring, exporting, deleting.                              *)

\* Mutant of OpenForEdit: does not look at the status.
OpenAnyForEdit(r) ==
  /\ At(r, "open")
  /\ LET d == doc[job[r].invoice]
     IN  IF d.status # "DELETED"
         THEN Goto(r, "save") /\ Learn(r, [job[r] EXCEPT !.doc = d])
         ELSE Finish(r)
  /\ UNCHANGED <<config, doc>>

\* updateInvoiceParsedFields loads the invoice; an exported one is refused.
OpenForEdit(r) ==
  /\ At(r, "open")
  /\ LET d == doc[job[r].invoice]
     IN  IF d.status \notin {"EXPORTED", "DELETED"}
         THEN Goto(r, "save") /\ Learn(r, [job[r] EXCEPT !.doc = d])
         ELSE Finish(r)
  /\ UNCHANGED <<config, doc>>

\* determineStatusAfterEdit: the status an edit of d to contents f leads to.
StatusAfterEdit(d, f) ==
  CASE d.status = "AWAITING_APPROVAL" -> "NEEDS_REVIEW"
    [] d.status = "APPROVED" -> "APPROVED"
    [] OTHER -> IF f \in Complete THEN "PARSED" ELSE "NEEDS_REVIEW"

\* Mutant of Edited: leaves the workflow as it is.
EditedInPlace(c, d, f) == [c EXCEPT !.fields = f, !.ver = @ + 1]

\* What the edit assigns, over the document c that is there: the status only
\* when it differs from the loaded one; workflowState is removed when the
\* loaded invoice awaited approval.
Edited(c, d, f) ==
  LET s == StatusAfterEdit(d, f)
      e == [c EXCEPT !.fields = f, !.ver = @ + 1,
                     !.status = IF s # d.status THEN s ELSE @]
  IN  IF d.status = "AWAITING_APPROVAL"
      THEN [e EXCEPT !.flow = "none", !.step = 0, !.by = NoOrg,
                     !.results = {}]
      ELSE e

\* Mutant of CanSave: an update that does not look at the version.
CanSaveAnyVersion(r) == Exists(job[r].invoice)

\* Its save assigns arrays (processingIssues, line items): a VersionError
\* unless the document is still at the version that was loaded.
CanSave(r) ==
  Exists(job[r].invoice) /\ doc[job[r].invoice].ver = job[r].doc.ver

SaveEdit(r) ==
  /\ At(r, "save")
  /\ IF CanSave(r)
     THEN \E f \in Fields :
            LET i == job[r].invoice
            IN  doc' = [doc EXCEPT ![i] = Edited(@, job[r].doc, f)]
     ELSE UNCHANGED doc
  /\ Finish(r)
  /\ UNCHANGED config

\* Mutant of SaveConfig: forgets the organisation when it goes on to revert.
SaveConfigAndForget(r) ==
  /\ At(r, "configure")
  /\ \E c \in Configs :
       /\ config' = [config EXCEPT ![OrgOf[job[r].invoice]] = c]
       /\ Goto(r, IF c.enabled THEN "done" ELSE "revert")
       /\ Learn(r, NoJob)
  /\ UNCHANGED doc

\* Mutant of SaveConfig: reverts nothing.
SaveConfigOnly(r) ==
  /\ At(r, "configure")
  /\ \E c \in Configs : config' = [config EXCEPT ![OrgOf[job[r].invoice]] = c]
  /\ Finish(r)
  /\ UNCHANGED doc

\* saveWorkflowConfig writes the configuration of the caller's organisation ...
SaveConfig(r) ==
  /\ At(r, "configure")
  /\ \E c \in Configs :
       /\ config' = [config EXCEPT ![OrgOf[job[r].invoice]] = c]
       /\ IF c.enabled THEN Finish(r) ELSE Goto(r, "revert") /\ UNCHANGED job
  /\ UNCHANGED doc

\* ... and, when that is disabled, returns the organisation's waiting invoices
\* to review.
RevertWaiting(r) ==
  /\ At(r, "revert")
  /\ LET waits(i) == /\ OrgOf[i] = OrgOf[job[r].invoice]
                     /\ doc[i].status = "AWAITING_APPROVAL"
     IN  doc' = [i \in Invoices |->
                   IF waits(i)
                   THEN [doc[i] EXCEPT !.status = "NEEDS_REVIEW",
                           !.flow = "none", !.step = 0, !.by = NoOrg,
                           !.results = {}]
                   ELSE doc[i]]
  /\ Finish(r)
  /\ UNCHANGED config

\* ExportService fetches approved invoices, and in the end marks the accepted
\* ones whatever their status is by then (TallyExport models what is between).
FetchForExport(r) ==
  /\ At(r, "fetch")
  /\ IF doc[job[r].invoice].status = "APPROVED"
     THEN Goto(r, "mark") /\ UNCHANGED job
     ELSE Finish(r)
  /\ UNCHANGED <<config, doc>>

MarkExported(r) ==
  /\ At(r, "mark")
  /\ LET i == job[r].invoice
     IN  Write(i, [doc[i] EXCEPT !.status = "EXPORTED"])
  /\ Finish(r)
  /\ UNCHANGED config

\* deleteInvoices: anything but an exported invoice.
Delete(r) ==
  /\ At(r, "delete")
  /\ LET i == job[r].invoice
     IN  doc' = [doc EXCEPT ![i].status = IF @ = "EXPORTED" THEN @
                                                            ELSE "DELETED"]
  /\ Finish(r)
  /\ UNCHANGED config

-----------------------------------------------------------------------------

Submission(r) == \/ CheckEnabled(r) \/ ApproveDirectly(r) \/ ReadStatus(r)
                 \/ FindWorkflow(r) \/ LoadForEntry(r) \/ Start(r)
Decision(r)   == \/ LoadForDecision(r) \/ Judge(r) \/ SignPartly(r)
                 \/ SignOn(r) \/ SignLast(r) \/ Reject(r)
Upkeep(r)     == \/ OpenForEdit(r) \/ SaveEdit(r) \/ SaveConfig(r)
                 \/ RevertWaiting(r) \/ FetchForExport(r) \/ MarkExported(r)
                 \/ Delete(r)

\* Every request has been answered and none arrives.
Quiet == /\ \A r \in Requests : pc[r] = "done"
         /\ UNCHANGED vars

Next == \/ \E r \in Requests : \/ Arrive(r) \/ Submission(r) \/ Decision(r)
                               \/ Upkeep(r)
        \/ Quiet

Spec == Init /\ [][Next]_vars
-----------------------------------------------------------------------------
(* Properties.                                                             *)

\* The variables have their types, and a request under way has its job.
TypeOK ==
  /\ config \in [Orgs -> Configs]
  /\ doc \in [Invoices -> Docs]
  /\ pc \in [Requests -> Phases]
  /\ job \in [Requests -> Jobs \cup {NoJob}]
  /\ \A r \in Requests : pc[r] \notin {"idle", "done"} => job[r] \in Jobs

\* An invoice that waits for approval has a workflow in progress, at a step:
\* whatever saves overtake each other, no one waits for a decision that the
\* workflow state does not ask for (approveStep refuses it as
\* "no_active_workflow").
AwaitingIsInProgress ==
  \A i \in Invoices : doc[i].status = "AWAITING_APPROVAL" =>
    doc[i].flow = "in_progress" /\ doc[i].step > 0 /\ doc[i].by \in Orgs

\* An edit that is saved discards no decision made after the editor's request
\* read the invoice: those increment __v, and the save fails.
EditsSeeEveryDecision ==
  \A r \in Editors : pc[r] = "save" /\ CanSave(r) =>
    doc[job[r].invoice].results \subseteq job[r].doc.results

\* What EditsSeeEveryDecision rests on: whoever adds to the results of an
\* invoice increments its version.
VersionsCountDecisions ==
  [][\A i \in Invoices : \/ /\ doc'[i].ver = doc[i].ver
                            /\ doc'[i].results \subseteq doc[i].results
                         \/ doc'[i].ver > doc[i].ver]_vars

\* The step with which a workflow approves an invoice.
Completes(i) == doc[i].flow # "approved" /\ doc'[i].flow = "approved"
Signers(d, o) ==
  {x.user : x \in {y \in d.results : y.step = o /\ y.action = "approved"}}

\* A workflow approves an invoice only when it is one of an organisation, and
\* every step that applies to the contents was approved by a user entitled to
\* it and within the limit.
EveryStepIsSigned ==
  [][\A i \in Invoices : Completes(i) =>
       /\ doc[i].by \in Orgs
       /\ LET p == config[doc[i].by].steps
          IN  \A o \in DOMAIN p : Applies(p[o], doc[i].fields) =>
                \E u \in Signers(doc'[i], o) :
                  CanApprove(u, p[o]) /\ doc[i].fields \in Limit[u]]_vars

\* ... and a step of rule "all" by as many different users as it requires.
AllMeansEveryone ==
  [][\A i \in Invoices : Completes(i) =>
       /\ doc[i].by \in Orgs
       /\ LET p == config[doc[i].by].steps
          IN  \A o \in DOMAIN p :
                Applies(p[o], doc[i].fields) /\ p[o].rule = "all" =>
                  Cardinality(Signers(doc'[i], o)) >= Required(p[o])]_vars

\* Approvals are given to the contents the workflow approves: an edit while
\* the invoice awaits approval starts the workflow over.
ApprovedAsSeen ==
  [][\A i \in Invoices : Completes(i) =>
       \A x \in doc'[i].results :
         x.action = "approved" => x.seen = doc'[i].fields]_vars

\* A rejection at any step ends the workflow: it is not approved after it.
RejectionStands ==
  \A i \in Invoices : doc[i].flow = "approved" =>
    \A x \in doc[i].results : x.action # "rejected"

\* Once disabling a workflow has returned, none of the organisation's
\* invoices awaits approval.
DisabledLeavesNoneWaiting ==
  \A i \in Invoices :
    /\ ~config[OrgOf[i]].enabled
    /\ \A r \in Configurers : pc[r] # "revert"
    => doc[i].status # "AWAITING_APPROVAL"

\* Served one at a time, requests take an invoice through the life that
\* InvoiceLife describes: they approve it by a workflow only with votes on its
\* contents, and leave an exported or deleted one alone.
VotesIn(results) ==
  {[action |-> x.action, seen |-> x.seen] :
     x \in {y \in results : y.action # "skipped"}}
LifeOf(d) == [status |-> d.status, fields |-> d.fields, flow |-> d.flow,
              votes |-> VotesIn(d.results)]
Life == INSTANCE InvoiceLife WITH life <- [i \in Invoices |-> LifeOf(doc[i])]
ImplementsLife == Life!Spec

\* An exported invoice is locked: it is not edited, and it leaves its status
\* by no request.
ExportedIsLocked ==
  [][\A i \in Invoices : doc[i].status = "EXPORTED" =>
       doc'[i].status = "EXPORTED" /\ doc'[i].fields = doc[i].fields]_vars

\* A step of rule "all" that has been approved by everyone it requires does
\* not wait for more: nobody could approve it ("already_approved").
CompleteStepMovesOn ==
  \A i \in Invoices :
    LET d == doc[i]
        p == config[d.by].steps
    IN  /\ d.status = "AWAITING_APPROVAL"
        /\ d.step \in DOMAIN p
        /\ p[d.step].rule = "all"
        => Cardinality(Signers(d, d.step)) < Required(p[d.step])

\* While a workflow is enabled, no invoice is approved around it, unless its
\* only step does not apply.
NoWayAround ==
  [][\A i \in Invoices, o \in Orgs :
       /\ doc[i].status \in Open /\ doc'[i].status = "APPROVED"
       /\ config[o].enabled
       => LET p == config[o].steps
          IN  DOMAIN p = {1} /\ ~Applies(p[1], doc[i].fields)]_vars

\* The workflow of an invoice that waits has the step the invoice is at; an
\* approval or rejection is refused otherwise ("step_missing").
StepIsThere ==
  \A i \in Invoices :
    doc[i].status = "AWAITING_APPROVAL" /\ config[doc[i].by].enabled
      => doc[i].step \in DOMAIN config[doc[i].by].steps

\* The approval of an invoice is governed by its own organisation's workflow.
OwnWorkflowGoverns ==
  \A i \in Invoices : doc[i].by \in {OrgOf[i], NoOrg}
=============================================================================
