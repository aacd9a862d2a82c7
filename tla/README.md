# LedgerBuddy: TLA+ models, checks and proofs

LedgerBuddy takes in vendor invoices, reads their fields, lets people correct and
approve them and exports them to Tally. This directory models the parts of the backend
(`src/backend/src`) that keep state under concurrency and failure, checks them with TLC
and proves the main results with TLAPS.

1. [The system](#1-the-system)
2. [Modules](#2-modules): what models what, and what is abstracted
3. [Runs](#3-runs): what TLC checks, bounds, fairness
4. [Findings](#4-findings): where the code and its documentation disagree
5. [Proofs](#5-proofs)
6. [Not modelled](#6-not-modelled), and what could come next

## 1. The system

The backend is one Node process (a single scheduled host, see `src/infra`) over one
MongoDB. Requests interleave at every `await`; but for the merge of two vendors, nothing spans documents in a transaction.
The host can be stopped at any time, which ends every request.

| Component | State | Operations | What is hard | What makes it correct | Module |
|---|---|---|---|---|---|
| Ingestion (`services/ingestion`, `sources`) | job status, pending reruns, the pause flag, checkpoints, invoices | ingest, pause, poll, scan a source, process a file, store it | a rerun or pause against a finishing run, files processed at once, failing files, restarts, overlapping runs | one job per tenant; no request forgotten; no file lost; what people decided stays | `Ingestion` |
| Triage (`triageService.ts`) | `Invoice.status`, `clientOrgId` | assign an organisation, reject | two people, or ingestion, on one invoice | a decision stands | `Ingestion` |
| TDS calculation and ledger (`services/tds`, `tdsOrchestrator.ts`) | cumulative figures per vendor, section and year; overflow pages; archives | compute and record, split, archive | read, compute and record are separate steps; recomputation; rounding at thresholds | no entry twice or lost; the totals are those of the recordings; the tax is what is due | `TdsLedger` |
| Vendor master (`VendorMasterService.ts`) | vendors, bank history | upsert, merge | a merge moves ledgers, next to recordings under the old vendor | a merge moves every entry once | `TdsLedger` (merge) |
| Bank reconciliation (`ReconciliationService.ts`) | matches of transactions, payment signals of invoices | reconcile, match, unmatch | a run goes on with what it loaded; two documents per match | people's matches stand; runs match what is due; signals agree with matches | `Reconciliation` |
| Invoice lifecycle (`invoiceService.ts`) | `Invoice.status`, parsed fields, compliance | approve, edit, delete, change GL code, retry, rename | read-then-save against exports and other edits | an exported invoice is locked; contents are those approved | `ApprovalWorkflow`, `InvoiceLife`, `TdsLedger`, `PurchaseVoucher` |
| Approval workflow (`approvalWorkflowService.ts`) | the workflow of an organisation, `Invoice.workflowState` | configure, enter, approve a step, reject, reset on edit | concurrent approvers, configuration changed under invoices in the workflow | every step that applies was approved by someone entitled to it | `ApprovalWorkflow`, `InvoiceLife` |
| Tally export (`services/export`) | `Invoice.status`, `exportVersion`, `inFlightExportVersion`; `ExportBatch.items`; Tally's vouchers; the retry queue of a tenant | push, retry failed items, download import file | several requests on one invoice, crash or lost answer between Tally's import and our write, late POSTs | Tally and the database agree up to one version; one exporter wins a version; what is shown as exported is in Tally | `TallyExport`, `VoucherAgreement` |
| Voucher amounts (`tallyExporter.ts`, `tallyExporter/xml.ts`) | - | the lines of a voucher from figures and taxes | fields that come from different requests, derived subtotals, catch-up taxes | the lines add up; the party gets the net amount | `PurchaseVoucher` |
| Bank account aggregation | consents | request, callback, expire | late callbacks | - | - |
| Audit log, analytics, notifications, flags, action queue, CSV export | derived | read or append | - | - | - |
| Authentication, tenant administration | sessions, users, invitations, assignments | - | single documents | - | - |
| Extraction, compliance enrichment, OCR and model services, front end, infrastructure | none of their own | - | - | - | - |

`PROJECT.json` lists every component with its sources and status, and under `hazards`
the places where tests hardly reach, each with the properties that would catch it going wrong.

How they meet. Almost all of it is in the `Invoice` document:

- Ingestion creates it (`PENDING_TRIAGE`, or `FAILED`), triage gives it an organisation or rejects it.
- Edits, the workflow and approvals move its status until `APPROVED`; a change of GL code recomputes its taxes,
  which records them in the vendor's TDS ledger, and saves its compliance subdocument as a whole.
- The export reads its figures and taxes, stages a version in it, posts the voucher to Tally, and moves it to `EXPORTED`.
- Reconciliation writes the payment signals into the compliance subdocument that a change of GL code overwrites.

Documents are shared by what the modules call requests, and each module has the requests of the other
components that touch its documents: `ApprovalWorkflow` has the export's status write, `Ingestion` the triage
desk, `Reconciliation` the change of GL code and the export, `PurchaseVoucher` edits, taxes and the export together.

## 2. Modules

| Module | Models |
|---|---|
| `Ingestion` | `IngestionJobOrchestrator`, `IngestionService`, `upsertFromPending`, upload and e-mail sources, the polling tick, `triageService` |
| `TdsLedger` | `retriggerTdsAndTcs`, `tdsOrchestrator`, `TdsCalculationService`, `TdsVendorLedgerService`, `TdsVendorLedgerArchivalService`, the ledger's part of `mergeVendors` |
| `Reconciliation` | `ReconciliationService`, next to changes of GL code and the export |
| `ApprovalWorkflow` | `ApprovalWorkflowService`, approval, edit and deletion of `InvoiceService`, the export's status write |
| `InvoiceLife` | the abstract life of an invoice in the workflow: statuses, contents, votes; `ApprovalWorkflow` implements it when requests do not overlap |
| `PurchaseVoucher` | the amounts `TallyExporter` computes, next to edits and changes of GL code |
| `TallyExport` | `ExportService`, the loop of `TallyExporter`, `tallyReExportGuard` |
| `VoucherAgreement` | the abstract promise of the export about one voucher; `TallyExport` implements it for every invoice |
| `MCIngestion`, `MCTdsLedger`, ... | instances of these for TLC |
| `IngestionProofs`, `TdsLedgerProofs`, `ReconciliationProofs`, `PurchaseVoucherProofs`, `TallyExportProofs` | theorems about the module they are named after |
| `ApprovalWorkflowProofs`, `ApprovalSerialProofs`, `ApprovalSignatureProofs` | theorems about `ApprovalWorkflow`: for any overlap of requests, for requests served one at a time, and about signatures |

In every module a request is an element of a constant set or a worker; `pc[r]` or `job[w].phase` says which database call
comes next, the rest of its record what it has read. A step ends at the next effect another request could
observe. A failed call or a stopped host ends a request between two of its steps: it is in the models as a `Fail`
or `Crash` action, or as a request that never goes on.

"Mutant of X" before a definition marks a changed version of the definition `X` that follows it: no action uses it, and
`PROJECT.json` names it with the property that it violates.

### Ingestion

| Code | Definition |
|---|---|
| `jobs/ingest`, `IngestionJobOrchestrator.runIngestion` | `Ingest`, `StartJob`; when one is running, the pending rerun |
| completion of a job, reruns up to `RERUN_MAX_COUNT` | `Complete`, `StopJob` |
| `jobs/pause`, `requestPause` | `Pause` |
| `runPollingTick` (`server.ts`) | `Poll` |
| the upload route; new mail (external) | `Upload`, `MailArrives` |
| `runOnce`: sources, checkpoint, batches of `INGESTION_CONCURRENCY` | `Scan`, `Fetch`, `GoOn`, `Settle`, `EndRun` |
| a batch that throws; the files it leaves in processing | `Throw`, `FailRun`, `Orphan` |
| `processFile`: duplicate check, extraction | `Check` (`KnownMessage`) |
| `upsertFromPending` | `Upsert` (`Matches`, `Overwritable`), `Create`, `Clash`, `StoreFails`, `Throws` |
| `triageService` | `TriageLoad`, `TriageSave` |
| the host is stopped, or a call fails | `Crash`, `BreakDown` |

Abstractions and why they are sound:

- A file is a pair of its source and its place in checkpoint order. Attachments of one e-mail share a UID.
- The duplicate check and the extraction are one step: extraction reads no shared state. So are the update and
  the lookup of a protected invoice in `upsertFromPending`, between which only a person's decision could fall: the
  update's filter excludes decided invoices, and the lookup that follows finds them in either order.
- `emitProgress(false)` and the settlement of a batch are one step: only microtasks are between them.
- The files of a batch finish in any order; the order of sources is left open; batches keep the order of files.
- Counters, the event stream and Redis are left out; no mailbox resolver is configured (`core/dependencies.ts`), so
  every file arrives without organisation, and creating an invoice for an upload of an organisation always fails, as
  `routes/ingestion/jobs.ts:153` leaves the tenant out.
- The simulated e-mail and re-ingestion by key only add files the other sources already show.

### TdsLedger

| Code | Definition |
|---|---|
| `retriggerTdsAndTcs` | `Retrigger`, `Return`, `Save`; a caught failure `Fail` |
| `getCumulativeForVendor` | `ReadPrimary`, `ReadArchive`, `Seen` |
| `TdsCalculationService` | `EffectiveRate`, `Share`, `Deduction` |
| `recordTdsToLedger` | `Record`, `Added` |
| `splitEntriesIfOverflow` | `Split`, `Page` |
| `archiveFyForVendor` | `ArchiveTake`, `ArchivePut` |
| `mergeVendors`, `consolidateTdsLedgers` | `Merge`, `Consolidated`, `Absorbed` |
| the host is stopped | `Crash` |

Abstractions and why they are sound:

- A head stands for a financial year and a section, which the invoice's date and GL code select; which section is
  detected is an input. Amounts are minor units, rates basis points, and `Share` rounds as the code does.
- An entry is the number of its recording. `recordings` and `unsettled` are history: who recorded what, and which keys
  were recorded on figures other than the ledger's own (another recording, an archival or a merge came between).
- `mergeVendors` is one transaction, so `Merge` is one step. Of it the vendors' status, the invoices' vendor and the
  ledgers are modelled; pages and archives stay under the old vendor's key, as in the code.
- The wording of risk signals and the report, which only reads, are left out; certificates for lower deduction
  are never passed by a caller.

### Reconciliation

| Code | Definition |
|---|---|
| `reconcileStatement` | `Reconcile`, `Fetch`, `Choose`, `VerifyInvoice`, `Finish` |
| the query for candidates, the scores, the best of them | `InRange`, `Candidates`, `AmountScore` to `Score`, `Best` |
| `manualMatch` | `Match`, `VerifyInvoice`, `MarkManual` |
| `unmatch` | `Unmatch`, `ClearTxn`, `ClearInvoice` |
| `retriggerTdsAndTcs` | `Retrigger`, `SaveCompliance` |
| the export's status write | `Export` |
| a call fails, the host is stopped | `Fail`, `Crash` |

Abstractions and why they are sound:

- How a description and a date fit an invoice is an input (`Fits`): an invoice number that is found, a name that shares
  a word or only letters, and the days between. The scores and thresholds are those of the code.
- Which of several invoices with the best score comes first is left open, as the query has no order.
- A change of GL code reads the compliance subdocument and saves it as a whole, with the signals it has read; the tax it
  computes is an input (`TdsLedger` says what it is).
- One organisation and one statement: matching looks at nothing of another. The counters of a statement are left out.
- `overlapped` is history: a request began while another was handled.

### PurchaseVoucher

| Code | Definition |
|---|---|
| `updateInvoiceParsedFields` of an approved invoice | `Load`, `SaveEdit` |
| `retriggerTdsAndTcs`, `computeNetPayable`, the TCS | `Load`, `Tax`, `TaxFails`; `Taxable`, `Gross`, `Deducted`, `Collected` |
| fetching the invoice for the export, its figures | `Load`, `Resolved`, `Derived`, `Subtotal` |
| `buildTallyPurchaseVoucher` (`tallyExporter.ts`, `xml.ts`) | `Payable`, `Voucher`, `Send` |
| the status write | `MarkExported`; a failure before it `Fail` |

Abstractions and why they are sound:

- One invoice, already approved: an edit leaves it approved (section 4). The four GST taxes are one sum (a cess
  never comes alone). The tax deducted is an input.
- An edit assigns `processingIssues` and so asks for the loaded `__v`; saving the compliance does not.
- The XML text, ledger names and the posting itself are left out; `TallyExport` has the posting.

### ApprovalWorkflow

One element of `Submitters`, `Deciders`, `Rejecters`, `Editors`, `Configurers`, `Exporters` or
`Deleters` is one HTTP request about one invoice. `pc[r]` says which database call comes next,
`job[r]` what the request holds: its user and invoice, and the documents it has read.

| Code | Definition |
|---|---|
| routes | `FirstPhase`, `Arrive` |
| `approveInvoices` | `CheckEnabled`, `ApproveDirectly` |
| `approveWithWorkflow` | `ReadStatus`, then `FindWorkflow`, `LoadForDecision` or nothing |
| `initiateWorkflow` | `FindWorkflow`, `LoadForEntry`, `Start`; where it returns false, `ApproveDirectly` |
| `approveStep` | `LoadForDecision`, `Judge` (`MayDecide`, `CanApprove`), then `SignPartly`, `SignOn` or `SignLast` (`Enough`, `Ahead`, `Skipped`, `IsNext`) |
| `rejectStep` | `LoadForDecision`, `Judge`, `Reject` |
| `updateInvoiceParsedFields` | `OpenForEdit`, `SaveEdit` (`StatusAfterEdit`, `Edited`) |
| `saveWorkflowConfig`, `buildSimpleSteps` | `SaveConfig`, `RevertWaiting`, `SimpleSteps` |
| `fetchExportableInvoices`, the status write | `FetchForExport`, `MarkExported` |
| `deleteInvoices` | `Delete` |
| Mongoose `save()` (external) | `Write`, `CanSave` |

Abstractions and why they are sound:

- What two overlapping requests do to an invoice depends on what a Mongoose document's `save()`
  sends: `$push` for an array the request appended to, `$set` for each path it assigned a new
  value to (the status; `workflowState.currentStep` and `workflowState.status`; all of
  `workflowState` in `initiateWorkflow`; `parsed` and `processingIssues` in an edit). Setting
  `workflowState` to the subdocument it already is adds nothing. A `$push` increments `__v` and
  does not ask for it; assigning a whole array asks for the loaded `__v` and increments it, and
  throws a VersionError when it is another; `save()` on a deleted document throws. `updateOne`,
  `updateMany` and `findOneAndUpdate` leave `__v` alone. This is taken from Mongoose's
  documented behaviour: the library is not part of the repository.
- `Fields` stands for the contents of an invoice as far as rules look at them; `Complete`, `Limit`
  and the `when` of a step say which contents are complete, within a user's limit and subject to a
  step. A persona is compared like a role.
- A bulk request handles its invoices one after another and shares nothing among them, so a
  request is about one invoice.
- A workflow has at most one step of each order; with several the code takes the first.
- `FindWorkflow` picks any enabled workflow of the tenant: the code's `findOne` has no order.
- Approval metadata, audit records and issue texts are left out. Roles, capabilities and limits
  do not change. The reads of roles belong to the step that reads the workflow.
- The fetch and the status write of an export are its only effects on these documents;
  what is between them is `TallyExport`.

A request is served once: the number of requests bounds decisions and versions. `MaxOpen` bounds
how many are in progress at once; with 1 the module is the sequential program.

`InvoiceLife` is what the workflow promises about an invoice, without requests, users, steps or versions: an invoice in
review is approved directly or enters a workflow, without a vote of an earlier one; it is voted on while it waits, and the
vote is about the contents it has then; approval, rejection, withdrawal, edits, export and deletion are its other
steps, and none leaves `EXPORTED`. `ImplementsLife` instantiates it for all invoices with the status, the contents and the
workflow of each document; a vote is a result without its step and user, so that another approval of the same contents is
a stutter. It holds when requests are served one at a time; where they overlap, it fails with `RejectionStands`,
`ExportedIsLocked` and `ApprovedAsSeen` (section 4).

### TallyExport

One element of `Pushers`, `Retriers` or `FileWriters` is one HTTP request; its position is
`pc[r]` (`idle`, `queued` in the tenant's retry queue, `loop` in the exporter, `mark` while
the invoices are written, then `done`, `rejected` or `crashed`).

| Code | Definition |
|---|---|
| `fetchExportableInvoices` | `PushStart`, `FileStart` (`snap` keeps the fetched `exportVersion`) |
| `runWithTenantMutex` | `retryQueue`, `RetryRequest`, `FirstInQueue`, `Settle` |
| `#selectRetryTargets`, `#fetchOrderedInvoices` | `RetryStart`, `RetryNothing` |
| `validateInvoiceForExport`, `resolveReExportDecision` | `Refuse`, `Action`, `Decided` |
| `stageInFlightExportVersion` and building the voucher | `CanStage`, `Stage`, `StageConflict` |
| `postWithRetry` | `Resend`, `PostFails`, `Abandon` |
| an answer with errors, `clearInFlightExportVersion` | `LineError`, `ClearStage` |
| `promoteExportVersion` | `Promote` |
| `ExportBatchModel.create`, `buildBatchItemsFromResults` | `CreateBatch`, `ItemOf`, `Storable` |
| `#mergeRetryResultsIntoBatch` | `MergeBatch`, `MergeItems` |
| status writes (`saveBatch`, `bulkWrite`, `#applyResultsToInvoices`) | `MarkExported`, `Finish` |
| `generateExportFile`, `buildImportFile` | `FileStart`, `FileStore` |
| Tally, the network, the host (external) | `TallyImport`, `TallyLate`, `Crash` |

Abstractions and why they are sound:

- A GUID is the hash of organisation, invoice and version, so `tally[i]` is the set of
  versions of `i` whose GUID Tally holds. The content of a voucher is left out here.
- Staging and sending, an answer and the write that follows it, a network error and the clearing of the stage are
  one step each: what lies between them is local to the request. The crash or failure
  between an answer and its write is there all the same: `Crash` before the step, and the
  disjuncts of `Stage` and `Promote` in which a write fails or its answer is lost.
- The order of invoices in the loop is left open, status writes of one request (sent 20 at a
  time) happen in any order.
- `Unmappable`, `NoAmount` and `NoVendorState` say which invoices validation or voucher
  building refuses; `F12Verified` is the flag of the organisation and `F12Toggle` Tally's
  setting. They do not change during a run, and `F12Verified => F12Toggle` is the
  runbook's section 12.
- A refusal of a voucher for its content (a LINEERROR) counts as a fault, like a crash, a broken
  connection and a failed database call; `MaxFaults` bounds them together.
- A failed clearing of the stage is only logged, and free in the model.
- Issue texts, the audit record, and operations that only read are left out. So is the deletion or
  editing of an invoice during its export: `ApprovalWorkflow` has that.

A request is served once, so the number of exporters bounds the versions.

`VoucherAgreement` is what the export promises about one voucher: Tally and the database each hold a
version, Tally is at most one ahead, and each moves by one. `ImplementsAgreement` instantiates it
for every invoice (`INSTANCE ... WITH`, the versions as a refinement mapping).

## 3. Runs

| Run | Instance | Shows |
|---|---|---|
| `ingestion` | 1 tenant, a mailbox with one e-mail of 2 attachments (the first may fail), 1 upload, 2 runs at once, batches of 2, 1 rerun, 2 requests, 1 decision, 1 fault | one job at a time, requests remembered, no document passed over, decisions kept |
| `attachments` | the same mailbox, no fault | finding: the second attachment of an e-mail is dropped |
| `ledger` | 3 invoices, 2 vendors, 1 head, a cap of 1 entry, 2 workers, 3 requests, 2 archivals, 1 merge, 1 fault | entries and totals are neither doubled nor lost; recordings on current figures leave the tax due; tax shown was recorded |
| `matching` | 2 debits, 2 invoices, 2 workers, 5 requests, 1 fault; TCS 1 %, tolerance 3, thresholds 50 and 30 | signals agree with matches; runs match what is due, find what is exact, leave people's matches alone |
| `approval_overlap` | every kind of request but deletion, 2 at a time, 2 users, a workflow of three steps that may be switched off or get fewer steps | waiting invoices have a workflow in progress; edits discard no decision they did not see |
| `approval_serial` | all kinds of requests, 2 submissions, 3 deciders, 1 request at a time, 3 users | without overlap, the workflow implements `InvoiceLife` (small contents are complete, large ones are not) and keeps its promises |
| `approval_approvers` | 1 submission, 3 approvals, 3 at a time, 3 users, two workflows | an approved invoice has every step signed |
| `push` | 1 invoice, 3 pushes, 1 file export, 3 faults | agreement of Tally and database, one winner, refinement of `VoucherAgreement` |
| `answers` | 3 invoices (one unmappable, one without vendor state), 1 push, 2 retries, 1 file export, F12 gate, 2 faults | shown as exported is in Tally; successes stay; every request ends |
| `persisted` | 2 invoices, one unmappable, 1 push, no fault | finding: a result without GUID makes the batch unstorable |
| `voucher` | 1 invoice, 2 workers, 3 requests | vouchers with GST balance; the party gets the net amount |
| `unbalanced` | the same | finding: a voucher without GST and with TDS does not balance |

Bounds.

- *Ingestion.* One e-mail of two attachments and a batch of two are the smallest in which files of a batch finish in
  either order, one may fail while the other is stored, and both share a message id. Two runs at once are a job
  and a poll, or the old and the new run after a restart. `RERUN_MAX_COUNT` is 5 in the code; at 1 the rerun and its
  limit both happen.
- *Ledger.* The third invoice crosses the threshold for the others; a cap of one entry makes every second recording
  split; two archivals are one of each year's ledger after another, or of two vendors. One worker reads between
  another's reading and recording.
- *Reconciliation.* Two debits compete for two invoices; five requests are two runs, a match, an unmatch and a change
  of GL code, in any order. The amounts are chosen around the tolerance and both thresholds.
- *Workflow.* Requests about different invoices meet only in `RevertWaiting`, so there is
  one invoice. Two requests in progress show every pairwise race; `approval_approvers` allows three, because
  three approvers are the fewest of whom two can race on a step that a third has passed. The
  workflow of three steps has a conditional first step, a step of rule `all` and a conditional
  sign-off; small and large contents differ in conditions and in the second clerk's limit.
  `approval_serial` switches the workflow on and off, `approval_overlap` also replaces its steps.
- *Export.* Invoices interact only through batches, so one invoice is enough for versions and three for
  retries. Three exporters of one invoice allow two of them to race while a third one starts from a
  newer version; three faults allow a crash, a lost answer and a late POST in one behaviour.
- *Voucher.* Three requests are an edit, a computation of taxes and an export that overlap; the amounts of
  `MCPurchaseVoucher` have every combination of missing and zero figures, and rounding differences of one.

The proofs cover every size. The runs reach between some ten thousand and 1.4 million distinct states.

Symmetry is used for requests and workers of one kind, which the modules treat alike, in runs without liveness
properties only.

Deadlock is checked where the server may always wait for another request (`Quiet`). `ledger`, `matching`, `voucher` and `unbalanced`
have bounded requests and no such step: their behaviours end when the requests are used up, so their configurations
turn the check off.

Fairness. `FairSpec` of `TallyExport`, which `answers` checks, assumes weak fairness of the steps of each running request: Node runs every
continuation that is ready, and the 30 s timeout of the POST ends a call Tally does not
answer. Arrivals, faults and late POSTs are not fair. The other modules state no liveness: their requests wait for nobody.

Every property has a mutant of the code that violates it (`PROJECT.json`, `mutants`); the
mutated operators stand before their originals in the modules.

## 4. Findings

Where the code and its documentation disagree. Three have a run that shows it:

1. *A batch with a refused invoice is not stored* (`persisted`). The item of a result without
   GUID has `guid: ""`, which the schema rejects; the request throws after Tally imported the other
   vouchers, and none of their invoices becomes `EXPORTED`.
2. *Only the first attachment of an e-mail is kept* (`attachments`). Attachments share the message id, and the second one
   is taken for a file that is already there. Were the UIDs
   of all attachments different, none would be lost (`AttachmentsAreKept`, section 5).
3. *A voucher without GST and with TDS does not balance* (`unbalanced`). With a total of 300 and 100 of TDS the lines are
   party -200, purchase +200 and TDS -100: the purchase is derived from the net amount.

The modules state the following as well, without a run: TLC reports each one when a configuration asks for it alone
(`MaxOpen`, constants and symmetry as said).

| Property | Instance | What happens | What is said |
|---|---|---|---|
| `RecoveryPostsAlter` | `push` | after a crash the next push posts the same GUID with Create, without the F12 gate: Create or Alter is decided from the recorded version, which is still 0 | the runbook: Alter |
| `ReExportIsIdempotent` | `push` | a push that fetches an invoice after another push promoted it and before it wrote the status makes a second voucher, as the GUID contains the version | the runbook: idempotent |
| `RejectionStands` | `approval_overlap` | the last approval, loaded before a rejection was saved, is saved after it and sets `APPROVED` | holds without overlap |
| `ExportedIsLocked` | `approval_overlap` | an edit loaded the invoice when it was approved; marking it exported leaves `__v` alone, so the save succeeds | holds without overlap |
| `ApprovedAsSeen` | `approval_overlap` | an edit saved during an approval resets the workflow, and the approval completes it with the edited contents | the approval PRD, line 191 |
| `DisabledLeavesNoneWaiting` | `approval_serial`, `MaxOpen` 2 | a submission read the workflow before it was disabled, and enters it after waiting invoices were reverted | the approval PRD, line 192 |
| `CompleteStepMovesOn` | `approval_serial`, `MaxOpen` 2 | two approvers of a step of rule `all` each count one approval of two; both have then approved, and neither may again | `approvalWorkflowService.test.ts:1331` |
| `AllMeansEveryone` | `approval_serial`, `MaxOpen` 2 | an approval that overlaps an edit completes a workflow that is gone; two requests of one user at once both pass the check for an earlier approval | `approvalWorkflowService.test.ts:1355` |
| `OwnWorkflowGoverns` | `approval_serial`, two organisations | another organisation's workflow is used: workflows are stored per organisation and looked up per tenant | - |
| `StepIsThere` | `AllConfigs`, `MaxOpen` 1 | an invoice waits at step 3 when the workflow is replaced by one of two steps; nobody can decide it until it is edited or the workflow switched off | - |
| `FailuresAreRecorded` | `ingestion`, no fault | the record of a failed file needs an organisation, which a file in triage has not: the run throws, and the checkpoint does not pass the file | `INVOICE-STATE-MACHINE.md:94-95,152` |
| `ConcurrentTaxIsDue` | `ledger` without faults, archivals and merges, `MCOneVendor` | two workers read the cumulative amount before either records: nobody catches up; proved for requests one at a time until a year is archived (section 5) | the TDS PRD, lines 373 and 378-379 |
| `AdjustedIsFound` | `matching` with `MCTotalTenPercent`, `MCTenPercent` | candidates are selected by the invoice's total, so a debit of the net amount is never compared | `PRD-CA-FIRMS-INDIA.md:61` |

Seen while modelling, without a property of its own:

- *Ingestion.* The upload route creates invoices without a tenant (`routes/ingestion/jobs.ts:153-166`). Retried invoices
  become `PENDING`, which nothing processes. Starting a run loses the pause of another one, and progress turns `paused` back to
  `running`. An S3 object that cannot be read is passed over. E-mails of two mailboxes with the same UID are taken for one
  document (`sourceDocumentId` is the bare UID), so the second one is not stored. A file fetched again after triage gave its invoice an
  organisation is stored twice, and two overlapping runs may both create an upload's invoice.
- *TDS.* A recomputation records again, and the documented undo does not exist. A second archival of a year overwrites the
  first, and recordings after an archival start from zero though reads use the archive. A crash between `Split` and `Page`
  loses the entries in hand. A merge moves neither pages nor archives; a recording in flight makes the merged vendor's ledger
  anew; the target of a merge may itself be merged. The annual threshold counts as crossed beyond it, FR-TDS-006 says at it.
  `mergeVendors` and `archiveFyForVendor` have no caller in production.
- *Reconciliation.* Two transactions can match one invoice (the PRD says one to one). A second manual match leaves the first
  invoice verified; an unmatch clears an invoice that another transaction verified; a match that overlaps an unmatch ends as
  `MANUAL` without an invoice. A change of GL code saves the compliance it loaded and discards a match. Candidates are all
  invoices but exported ones, not only approved ones.
- *Vouchers.* Catch-up tax beyond the total makes the net amount negative, and `Math.abs` turns the party's line around. A
  subtotal given with zero GST is kept as it is. Tax collected stays when its configuration is switched off.
- *Approval.* `INVOICE-STATE-MACHINE.md:28` says an approved invoice is not editable; `determineStatusAfterEdit`
  (`StatusAfterEdit`) lets it be edited and leaves it approved.

## 5. Proofs

TLAPS checks every theorem below for every value of the constants that satisfies the named assumptions of the
modules. Unless a condition is given, it covers any overlap of requests and any number of faults.

| Module | Theorem | Property |
|---|---|---|
| `TallyExportProofs` | `TypeCorrect` | `TypeOK` |
| | `StagesAreNext`, `NeverAhead`, `ConfirmedInOrder` | `StageIsNextVersion`, `DatabaseNeverAhead`, `VersionsAreConfirmedInOrder` |
| | `Refinement` | `ImplementsAgreement` |
| | `OneWinner` | `OneWinnerPerVersion` |
| | `ShownIsInTally` | `ShownAsExportedIsInTally` |
| | `SuccessStays` | `SuccessItemsStay` |
| `ApprovalWorkflowProofs` | `TypeCorrect` | `TypeOK` |
| | `AwaitingHasWorkflow` | `AwaitingIsInProgress` |
| | `EditsDiscardNothingUnseen` | `EditsSeeEveryDecision` |
| | `DecisionsAreCounted` | `VersionsCountDecisions` |
| `ApprovalSerialProofs` (`MaxOpen = 1`) | `LifeIsImplemented` | `ImplementsLife` |
| | `RejectionsStand`, `ApprovalsAreOfContents`, `ExportedStays` | `RejectionStands`, `ApprovedAsSeen`, `ExportedIsLocked` |
| (`OneOrg`, `FirstSteps`) | `NoneIsLeftWaiting`, `WorkflowIsNotBypassed` | `DisabledLeavesNoneWaiting`, `NoWayAround` |
| `ApprovalSignatureProofs` (`Undisturbed`) | `EveryStepSigned` | `EveryStepIsSigned` |
| (`MaxOpen = 1`, `Steady`) | `OneAtATimeStepsAreSigned` | `EveryStepIsSigned` |
| (`MaxOpen = 1`, `Steady`, `Staffed`) | `CompleteStepsMoveOn`, `AllHaveApproved` | `CompleteStepMovesOn`, `AllMeansEveryone` |
| `IngestionProofs` | `TypeCorrect` | `TypeOK` |
| | `OneJobAtATime`, `Remembered` | `RunningMeansOneJob`, `RequestIsRemembered` |
| | `NoDocumentLost`, `DecisionsStand` | `NoDocumentSkipped`, `DecisionsStay` |
| | `NoUploadLost` | `NoUploadSkipped` |
| (`UidsApart`, `OwnUids`) | `MailIsKept`, `AttachmentsAreKept` | `EveryMailIsKept`, `EveryAttachmentIsKept` |
| `TdsLedgerProofs` | `TypeCorrect` | `TypeOK` |
| | `ShownWasRecorded`, `SettledIsDue` | `ShownTaxWasRecorded`, `SettledTaxIsDue` |
| | `NoneIsTwice`, `EveryEntryIsKept` | `NoEntryTwice`, `EntriesAreKept` |
| | `TotalsStay` | `TotalsAreKept` |
| (`OneWorker`) | `OneAtATimeTaxIsDue` | `ConcurrentTaxIsDue`, until a year is archived |
| `ReconciliationProofs` | `TypeCorrect` | `TypeOK` |
| | `SignalledExactly`, `StatusTells` | `VerifiedIsSignalled`, `StatusTellsInvoice` |
| (requests one at a time) | `RunMatches`, `ManualMatchesStand` | `RunMatchesAmounts`, `ManualStands` |
| (`Suggest <= 50`) | `ExactAreFound` | `ExactIsFound` |
| `PurchaseVoucherProofs` | `TypeCorrect` | `TypeOK` |
| | `GstBalance`, `PartyNet` | `GstVoucherBalances`, `PartyGetsNet` |

The arguments.

*Tally export.* `AgreementInv`: a fetched version is never newer than the recorded one (`SnapBehind`); a POST under way or
nobody waits for carries at most the recorded version plus one, because it was staged (`StrayIsDue`); an answer of success means
that Tally holds the version (`ImportedIsHeld`). So Tally's versions are an initial segment that ends at the recorded
version or the one after. `WinnerInv` adds that a success is recorded: a version is recorded only by consuming its stage,
which the winner took away. `ShownInv` carries "has a voucher" from results to the invoices still to be marked, to statuses
and batches. `ItemInv`: only the head of the queue runs a retry, and its targets are still failures in the
batch, so merging cannot touch a success.

*Approval, any overlap.* `IInv` is `TypeOK`, `AwaitingIsInProgress` and `Phased`, which says what kind of request is in which
phase. An invoice gets to `AWAITING_APPROVAL` only with the whole workflow state, and what takes parts of that state away
takes the status away with it; the saves of stale approvals, which add a step to whatever is there, keep the step
positive. For the edits, every step of the system is `StepFine`: it leaves the version and adds no result, or it increases
the version. So what an editor loaded is of an older version, and then the save fails, or has all the results there are
(`EditorsView`).

*Approval, one at a time.* `SerialInv` adds that one request at most is under way (`Alone`) and that what it has read is what there
is (`Current`); so every step is a lawful change of the whole document (`LawfulStep`), and what was rejected, or approved
with other contents, is behind a reset. For the refinement each lawful change (left alone, entered, moved on, completed,
rejected, reset, removed) is matched with one step of `InvoiceLife` or a stutter (`LawfulIsLife`); what a lawful
change does to the votes is in `Signed` and `TurnedDown`. With one organisation whose configurations have a first step
(`OneOrg`, `FirstSteps`), the workflow a submission found is the one that is stored.

*Signatures.* While nobody edits or configures, what a request has read may be old but is a part of what there is (`Informed`): the
step is the same or earlier, and the approvals are among those there are. By then every step before
the current one that applies has been signed (`PassedSteps`), whichever of the overlapping approvals moved it on. Counting to everyone
needs more: each user has approved the current step at most once and nobody a later one (`Counted`), so there are as many
approvals as signers (a bijection, `ApprovalsCount`). With requests served one at a time, all kinds of them are allowed, and the
workflow may be switched off and on (`Steady`: never, or by a tenant of one organisation, and with the same steps whenever it is
on, as in `approval_serial`). Then an invoice waits under the steps it entered with, or is about to be reverted (`Tallied`): by `RuledInv` a
workflow that is switched off was on while anything waited. `Staffed`, which only counting needs, says that each step requires
someone. What `Steady` excludes is
real: when the steps of a workflow are replaced while an invoice waits under it, the invoice may be approved without some of the new steps
(TLC violates `EveryStepIsSigned` on `approval_serial` with `AllConfigs`), or be left at a step there is not (`StepIsThere`, section 4).

*Ingestion.* `IInv` joins the jobs' states (`JobsOK`), files left in processing (`OrphansOK`), the position of every run relative
to the checkpoint it will write (`RunsFine`) and what is known of every file a checkpoint has passed (`Covered`): its document id
has an invoice, or it could not be read. A run passes a file when it and all files with a smaller marker are settled
(`FilesFine`), and no step takes a document id away from the invoices: one is overwritten only for a file of the same id. An invoice found by
its message, by the duplicate check or the unique index, has the file's document id (`InvoiceFits`). What that is worth depends on
the ids: an upload's is its own (`NoUploadLost`); an e-mail's is a bare UID, so it is kept unless another mailbox gives the same
UID (`UidsApart`), and all attachments are kept only if each has a UID of its own (`OwnUids`), which attachments of one e-mail have not: that is
finding 2, and `AttachmentsAreKept` shows that the ids are its cause, and no overlap or restart.

*TDS.* `IInv` is `TypeOK` with what workers hold (`JobsFit`), what they show (`ShownFits`) and that a ledger without recordings is blank
(`BlanksAreEmpty`). On it `SettledTaxIsDue` is inductive: `DeductionIsDue` shows by arithmetic that a recording keeps the
tax within half a unit per recording of what is due, also when it crosses the threshold and catches up.
No recording is held twice or lost because all the places that hold recordings (ledgers, archives, pages, archivals under
way, the workers' hands) are one family of sequences (`Stock`): recording appends a fresh number to one of them (`Appended`),
a split cuts one in two (`CutOff`), a page, an archival and a merge move whole sequences to the end of others (`Moved`), and
a fault or a second archival only leaves entries out (`ApartWithout`). `EntriesInv` adds that a worker holds entries only on the
way to a page, that a blank ledger holds none, and that a first archive overwrites nothing.

*TDS totals.* `SumOver` folds a function over a set in an order nobody knows, so the lemmas on sums come first: from a finite set
any element can be taken first (were there a set of which it is false, there would be a smallest one), so a sum changes by what
one of its terms changes by, and moving an amount from one term to another leaves it alone. `TInv` adds to `EntriesInv` that
for each head the amounts, the taxes and the counts of ledgers, archives and archivals under way balance with the recordings
(`AllBalanced`); a recording adds the same to both sides, an archival and a merge move amounts from one document to another.
The vendors must be finitely many (`VendorsAssumption`). With one worker (`OneWorker`), what the worker read is what the ledger still
says when it records, until a year is archived (`NothingOverlaps`); so no key is unsettled, and `SettledIsDue` gives what
`ConcurrentTaxIsDue` asks for. With two workers TLC violates it.

*Reconciliation.* `IInv` says for any overlap which phases hold which invoices (`JobsFine`), and that signals and verifications move
together. What runs promise about matches needs that no request overlapped another (`Serial`). For `ExactIsFound`, a run has in hand, and
among its candidates, whatever is due exactly (`Covering`): adding and taking away a percentage with rounding surrounds the
total (`RoundedBack`), so the range it fetches holds the invoice, and an exact amount alone scores 50. The default threshold
for suggestions is 30; above 50 the property is not promised.

*Vouchers.* `NetFits`: the net amount computed with the taxes fits the total they were computed from, in the invoice, in the copies
of workers and in the source of the voucher; `LinesFit` adds up the lines.

Left to TLC, because the prover cannot reach it: `RequestsAreAnswered` (liveness under fairness). Every other property of a
passing run is a theorem.

## 6. Not modelled

- *Single documents that are only written and read*: authentication, capabilities, tenant administration, invitations, mailbox
  assignments, bank consents (`services/bank/anumati`: each callback sets a status of one account), configuration, vendor
  creation, bank history, certificates, GL codes and cost centres.
- *Derived or appended data that nothing modelled reads*: CSV export, audit log, analytics, notifications, the action queue,
  the workflow health scanner, reports.
- *Pure functions of one document without state*: field extraction, OCR and model services, confidence, compliance enrichment
  except TDS and TCS, the XML text. Their results are inputs of the models. They are heuristics over texts, whose
  correctness is a matter of samples and not of states.
- *Of modelled components*: retry and renaming of invoices, compliance overrides, upload of statements (which fails:
  `BankStatement` is created without the organisation its schema requires), changes of roles and limits, tokens and
  connections of the ingestion sources.
- *The front end, scripts, routes, fixtures and infrastructure.* Routes appear as the arrivals of requests.

The mapped definitions stand for about 5 % of the lines of the repository and most of those that keep state under
concurrency; half of the rest is the front end, extraction and scripts.

What could come next: the remaining operations of the invoice lifecycle, and the refinement of `InvoiceLife` by `Ingestion`
(which creates invoices) and `TallyExport`; changes of roles and limits; bank consents with
late callbacks; deletion of an organisation next to triage.
