----------------------------- MODULE TallyExport -----------------------------
(***************************************************************************)
(* The export of approved invoices to Tally: ExportService (push, retry of *)
(* failed items, import-file download), TallyExporter's per-invoice loop   *)
(* and the two-phase version staging of tallyReExportGuard.                *)
(*                                                                         *)
(* One element of Pushers, Retriers or FileWriters is one HTTP request.    *)
(* All requests run in one Node process against one MongoDB and one Tally  *)
(* company; a step of a request is what happens up to its next effect on   *)
(* the database or on Tally that another request could observe.            *)
(*                                                                         *)
(* A voucher GUID is SHA-256 over the length-prefixed (clientOrgId,        *)
(* invoiceId, exportVersion), hence one GUID per pair <<invoice, version>>;*)
(* tally[i] is the set of versions of i whose GUID Tally holds.            *)
(***************************************************************************)
EXTENDS Integers, Sequences, FiniteSets

CONSTANTS
  Invoices,       \* the approved invoices of one client organisation
  Pushers,        \* POST /exports/tally requests, one export batch each
  Retriers,       \* POST .../batches/:id/retry requests
  FileWriters,    \* POST /exports/tally/download requests
  NoInvoice,      \* "no invoice": the call record of an idle exporter
  NoBatch,        \* "no batch": a request that works on none
  Unmappable,     \* invoices validateInvoiceForExport refuses
  NoAmount,       \* those of them that have no valid amount
  NoVendorState,  \* invoices buildVoucherInput refuses (no vendor state)
  F12Toggle,      \* Tally overwrites a voucher that has the same GUID
  F12Verified,    \* ClientOrganization.f12OverwriteByGuidVerified
  MaxFaults       \* bound: crashes, lost calls, refusals, failed DB calls

ASSUME RequestsAssumption ==
  /\ Pushers \cap Retriers = {}
  /\ (Pushers \cup Retriers) \cap FileWriters = {}
  /\ NoInvoice \notin Invoices
  /\ NoBatch \notin Pushers
ASSUME ConfigAssumption ==
  /\ Unmappable \subseteq Invoices
  /\ NoAmount \subseteq Unmappable
  /\ NoVendorState \subseteq Invoices
  /\ F12Toggle \in BOOLEAN
  /\ F12Verified \in BOOLEAN
  /\ F12Verified => F12Toggle   \* runbook, section 12: never verified untested
  /\ MaxFaults \in Nat

Requests  == Pushers \cup Retriers \cup FileWriters
Exporters == Pushers \cup Retriers      \* the requests that talk to Tally

VARIABLES
  status,         \* Invoice.status
  exportVersion,  \* Invoice.exportVersion
  inFlight,       \* Invoice.inFlightExportVersion, 0 for null
  batches,        \* ExportBatch.items by pusher: the status of each item
  files,          \* the invoices of the import files in the file store
  tally,          \* versions of each invoice's voucher that Tally holds
  stray,          \* POSTs nobody waits for that Tally may still import
  pc,             \* where each request is
  todo,           \* invoices the request has still to export, or to mark
  snap,           \* exportVersion of the documents the request fetched
  call,           \* the exporter's outstanding POST
  result,         \* ExportResultItem per invoice
  source,         \* the batch a retry works on
  retryQueue,     \* tenantRetryQueues: the retries of the tenant, in order
  faults          \* faults so far, bounded by MaxFaults

dbVars  == <<status, exportVersion, inFlight>>
extVars == <<tally, stray>>
reqVars == <<pc, todo, snap, call, result, source, retryQueue>>
vars    == <<dbVars, batches, files, extVars, reqVars, faults>>

Statuses  == {"APPROVED", "EXPORTED"}
Outcomes  == {"none", "success", "lineError", "error"}
ItemState == {"none", "success", "failure"}
Ended     == {"done", "rejected", "crashed"}
Phases    == {"idle", "queued", "loop", "mark"} \cup Ended
NoCall    == [invoice |-> NoInvoice, state |-> "none", attempt |-> 0]
Calls     == {NoCall} \cup
             [invoice : Invoices, state : {"sent", "imported", "refused"},
              attempt : 1..2]

Init ==
  /\ status        = [i \in Invoices |-> "APPROVED"]
  /\ exportVersion = [i \in Invoices |-> 0]
  /\ inFlight      = [i \in Invoices |-> 0]
  /\ batches       = [p \in Pushers |-> [i \in Invoices |-> "none"]]
  /\ files         = {}
  /\ tally         = [i \in Invoices |-> {}]
  /\ stray         = [i \in Invoices |-> {}]
  /\ pc            = [r \in Requests |-> "idle"]
  /\ todo          = [r \in Requests |-> {}]
  /\ snap          = [r \in Exporters |-> [i \in Invoices |-> 0]]
  /\ call          = [r \in Exporters |-> NoCall]
  /\ result        = [r \in Exporters |-> [i \in Invoices |-> "none"]]
  /\ source        = [r \in Retriers |-> NoBatch]
  /\ retryQueue    = <<>>
  /\ faults        = 0

-----------------------------------------------------------------------------
(* Helpers.                                                                *)

\* A fault of the environment, and a step that is not one.
Fault   == faults < MaxFaults /\ faults' = faults + 1
NoFault == UNCHANGED faults

Goto(r, phase) == pc' = [pc EXCEPT ![r] = phase]

\* Mutant of Next1: counts the version down.
Next1Down(r, i) == snap[r][i] - 1

\* The version (and with it the GUID) a request exports an invoice under,
\* computed from the document as it was when the request fetched it.
Next1(r, i) == snap[r][i] + 1

\* resolveReExportDecision: Create only for a first export that is no retry.
Action(r, i) == IF snap[r][i] = 0 /\ r \in Pushers THEN "Create" ELSE "Alter"

\* The request holds one POST open; it is about to start the next invoice.
Waiting(r) == pc[r] = "loop" /\ call[r] # NoCall
Looping(r) == pc[r] = "loop" /\ call[r] = NoCall

\* The loop pushes the invoice's result and goes on with the next invoice.
Report(r, i, outcome) == result' = [result EXCEPT ![r][i] = outcome]

HangUp(r) == call' = [call EXCEPT ![r] = NoCall]

\* Mutant of Accepted: marks every invoice that has a result.
AcceptedAny(r) == {i \in Invoices : result[r][i] # "none"}

\* Invoices the request reports as accepted by Tally.
Accepted(r) == {i \in Invoices : result[r][i] = "success"}

\* Mutant of Settle: only a fulfilled retry lets the next one start.
SettleFulfilled(r, phase) ==
  /\ Goto(r, phase)
  /\ retryQueue' = IF r \in Retriers /\ phase = "done" THEN Tail(retryQueue)
                                                       ELSE retryQueue

\* A request's promise settles; a retry then lets the next retry start,
\* whether it was fulfilled or rejected.
Settle(r, phase) ==
  /\ Goto(r, phase)
  /\ retryQueue' = IF r \in Retriers THEN Tail(retryQueue) ELSE retryQueue

-----------------------------------------------------------------------------
(* Requests arrive.                                                        *)

\* fetchExportableInvoices: the approved invoices, or those among the ids.
PushStart(p) ==
  \E ids \in SUBSET {i \in Invoices : status[i] = "APPROVED"} :
    /\ pc[p] = "idle" /\ ids # {}
    /\ Goto(p, "loop")
    /\ todo' = [todo EXCEPT ![p] = ids]
    /\ snap' = [snap EXCEPT ![p] = exportVersion]
    /\ UNCHANGED <<dbVars, batches, files, extVars, call, result, source,
                   retryQueue, faults>>

\* retryFailedItems queues behind the tenant's earlier retries.
RetryRequest(t) ==
  \E p \in Pushers :
    /\ pc[t] = "idle"
    /\ \E i \in Invoices : batches[p][i] # "none"
    /\ Goto(t, "queued")
    /\ source' = [source EXCEPT ![t] = p]
    /\ retryQueue' = Append(retryQueue, t)
    /\ UNCHANGED <<dbVars, batches, files, extVars, todo, snap, call, result,
                   faults>>

FailureItems(t) == {i \in Invoices : batches[source[t]][i] = "failure"}

\* Mutant of FirstInQueue: no tenant mutex.
FirstInQueueAny(t) == pc[t] = "queued" /\ retryQueue # <<>>

FirstInQueue(t) == pc[t] = "queued" /\ retryQueue # <<>> /\ Head(retryQueue) = t

\* selectRetryTargets and fetchOrderedInvoices: failed items of the batch,
\* all or the requested ones; the invoices whatever their status is by now.
RetryStart(t) ==
  /\ FirstInQueue(t)
  /\ \E targets \in SUBSET FailureItems(t) :
       /\ targets # {}
       /\ todo' = [todo EXCEPT ![t] = targets]
  /\ Goto(t, "loop")
  /\ snap' = [snap EXCEPT ![t] = exportVersion]
  /\ UNCHANGED <<dbVars, batches, files, extVars, call, result, source,
                 retryQueue, faults>>

\* ExportRetryNoFailuresError: the batch has no failed item, or none of them is
\* among the requested ones.
RetryNothing(t) ==
  /\ FirstInQueue(t)
  /\ Settle(t, "rejected")
  /\ UNCHANGED <<dbVars, batches, files, extVars, todo, snap, call, result,
                 source, faults>>

-----------------------------------------------------------------------------
(* TallyExporter.exportInvoices: one iteration of its loop per invoice.    *)

\* A validation error, the F12 gate of a re-export, or a database call that
\* fails before anything is staged: a result without GUID.
Refuse(r, i) ==
  /\ Looping(r) /\ i \in todo[r]
  /\ \/ i \in Unmappable /\ NoFault
     \/ Action(r, i) = "Alter" /\ ~F12Verified /\ NoFault
     \/ Fault
  /\ Report(r, i, "error")
  /\ todo' = [todo EXCEPT ![r] = @ \ {i}]
  /\ UNCHANGED <<dbVars, batches, files, extVars, pc, snap, call, source,
                 retryQueue>>

\* The decision lets the invoice through to phase 1.
Decided(r, i) ==
  /\ Looping(r) /\ i \in todo[r] \ Unmappable
  /\ Action(r, i) = "Create" \/ F12Verified

\* Mutant of CanStage: the filter does not test exportVersion.
CanStageUnversioned(r, i) == inFlight[i] \in {0, Next1(r, i)}

\* The filter of stageInFlightExportVersion's update.
CanStage(r, i) ==
  /\ exportVersion[i] = snap[r][i]
  /\ inFlight[i] \in {0, Next1(r, i)}

\* Phase 1 loses the compare-and-set: ExportVersionConflictError.
StageConflict(r, i) ==
  /\ Decided(r, i)
  /\ ~CanStage(r, i)
  /\ Report(r, i, "error")
  /\ todo' = [todo EXCEPT ![r] = @ \ {i}]
  /\ UNCHANGED <<dbVars, batches, files, extVars, pc, snap, call, source,
                 retryQueue, faults>>

\* Mutant of Stage: one phase, the version is recorded before the POST.
StageRecording(r, i) ==
  /\ Decided(r, i)
  /\ CanStage(r, i)
  /\ exportVersion' = [exportVersion EXCEPT ![i] = Next1(r, i)]
  /\ todo' = [todo EXCEPT ![r] = @ \ {i}]
  /\ call' = [call EXCEPT ![r] = [invoice |-> i, state |-> "sent", attempt |-> 1]]
  /\ UNCHANGED <<status, inFlight, batches, files, extVars, pc, snap, result,
                 source, retryQueue, faults>>

\* Phase 1 stages the version; the voucher is built and POSTed, or building it
\* throws MissingVendorStateError (or the write took effect but its answer was
\* lost) and the stage is left behind.
Stage(r, i) ==
  /\ Decided(r, i)
  /\ CanStage(r, i)
  /\ inFlight' = [inFlight EXCEPT ![i] = Next1(r, i)]
  /\ todo' = [todo EXCEPT ![r] = @ \ {i}]
  /\ \/ /\ (i \in NoVendorState /\ NoFault) \/ Fault
        /\ Report(r, i, "error")
        /\ UNCHANGED call
     \/ /\ i \notin NoVendorState /\ NoFault
        /\ call' = [call EXCEPT ![r] = [invoice |-> i, state |-> "sent", attempt |-> 1]]
        /\ UNCHANGED result
  /\ UNCHANGED <<status, exportVersion, batches, files, extVars, pc, snap,
                 source, retryQueue>>

\* Tally imports the voucher. Under a GUID it does not know it creates the
\* voucher (for Alter too) or reports a LINEERROR about its content; under a
\* GUID it knows it overwrites it if the F12 toggle is on, else refuses.
TallyImport(r) ==
  LET i == call[r].invoice IN
  /\ Waiting(r) /\ call[r].state = "sent"
  /\ \/ /\ Next1(r, i) \in tally[i] => F12Toggle
        /\ tally' = [tally EXCEPT ![i] = @ \cup {Next1(r, i)}]
        /\ call' = [call EXCEPT ![r].state = "imported"]
        /\ NoFault
     \/ /\ \/ Next1(r, i) \in tally[i] /\ ~F12Toggle /\ NoFault
           \/ Next1(r, i) \notin tally[i] /\ Fault  \* the bound also caps refusals
        /\ call' = [call EXCEPT ![r].state = "refused"]
        /\ UNCHANGED tally
  /\ UNCHANGED <<dbVars, batches, files, stray, pc, todo, snap, result, source,
                 retryQueue>>

\* A POST whose answer nobody awaits reaches Tally after all, or is dropped.
TallyLate(i, v) ==
  /\ v \in stray[i]
  /\ stray' = [stray EXCEPT ![i] = @ \ {v}]
  /\ tally' \in {tally, [tally EXCEPT ![i] = @ \cup {v}]}
  /\ UNCHANGED <<dbVars, batches, files, reqVars, faults>>

\* The connection breaks: a request Tally has not seen may get there later.
Abandon(r) ==
  LET i == call[r].invoice IN
  \/ UNCHANGED stray
  \/ /\ call[r].state = "sent"
     /\ stray' = [stray EXCEPT ![i] = @ \cup {Next1(r, i)}]

\* postWithRetry: a network error on the first attempt re-POSTs the payload.
Resend(r) ==
  /\ Waiting(r) /\ call[r].attempt = 1
  /\ Fault
  /\ Abandon(r)
  /\ call' = [call EXCEPT ![r].state = "sent", ![r].attempt = 2]
  /\ UNCHANGED <<dbVars, batches, files, tally, pc, todo, snap, result, source,
                 retryQueue>>

\* clearInFlightExportVersion, Phase 2b; its own failure is only logged.
ClearStage(r, i) ==
  \/ inFlight[i] = Next1(r, i) /\ inFlight' = [inFlight EXCEPT ![i] = 0]
  \/ UNCHANGED inFlight

\* The POST throws: a network error on attempt 2, or an HTTP error at once.
PostFails(r) ==
  LET i == call[r].invoice IN
  /\ Waiting(r)
  /\ Fault
  /\ Abandon(r)
  /\ ClearStage(r, i)
  /\ HangUp(r)
  /\ Report(r, i, "error")
  /\ UNCHANGED <<status, exportVersion, batches, files, tally, pc, todo, snap,
                 source, retryQueue>>

\* The answer has ERRORS > 0: the stage is cleared, the result has the GUID.
LineError(r) ==
  LET i == call[r].invoice IN
  /\ Waiting(r) /\ call[r].state = "refused"
  /\ ClearStage(r, i)
  /\ HangUp(r)
  /\ Report(r, i, "lineError")
  /\ UNCHANGED <<status, exportVersion, batches, files, extVars, pc, todo, snap,
                 source, retryQueue, faults>>

\* Mutants of Promote: an answer with ERRORS > 0 counts as imported; the update
\* is not filtered by the stage.
PromoteAnyAnswer(r) ==
  LET i == call[r].invoice IN
  /\ Waiting(r) /\ call[r].state # "sent"
  /\ inFlight[i] = Next1(r, i)
  /\ exportVersion' = [exportVersion EXCEPT ![i] = Next1(r, i)]
  /\ inFlight' = [inFlight EXCEPT ![i] = 0]
  /\ Report(r, i, "success")
  /\ HangUp(r)
  /\ UNCHANGED <<status, batches, files, extVars, pc, todo, snap, source,
                 retryQueue, faults>>

PromoteUnstaged(r) ==
  LET i == call[r].invoice IN
  /\ Waiting(r) /\ call[r].state = "imported"
  /\ exportVersion' = [exportVersion EXCEPT ![i] = Next1(r, i)]
  /\ inFlight' = [inFlight EXCEPT ![i] = 0]
  /\ Report(r, i, "success")
  /\ HangUp(r)
  /\ UNCHANGED <<status, batches, files, extVars, pc, todo, snap, source,
                 retryQueue, faults>>

\* promoteExportVersion, Phase 2a: the version moves if the stage is still
\* there; if it is not, or the write fails or its answer is lost, the result
\* is an error.
Promote(r) ==
  LET i == call[r].invoice IN
  /\ Waiting(r) /\ call[r].state = "imported"
  /\ \/ /\ inFlight[i] = Next1(r, i)
        /\ exportVersion' = [exportVersion EXCEPT ![i] = Next1(r, i)]
        /\ inFlight' = [inFlight EXCEPT ![i] = 0]
        /\ \/ Report(r, i, "success") /\ NoFault
           \/ Report(r, i, "error") /\ Fault
     \/ /\ (inFlight[i] # Next1(r, i) /\ NoFault) \/ Fault
        /\ Report(r, i, "error")
        /\ UNCHANGED <<exportVersion, inFlight>>
  /\ HangUp(r)
  /\ UNCHANGED <<status, batches, files, extVars, pc, todo, snap, source,
                 retryQueue>>

-----------------------------------------------------------------------------
(* After the loop: the batch, then the invoices.                           *)

LoopEnded(r) == Looping(r) /\ todo[r] = {}

ItemOf(outcome) == CASE outcome = "none"    -> "none"
                     [] outcome = "success" -> "success"
                     [] OTHER               -> "failure"

\* exportBatchItem requires a non-empty guid and buildBatchItemsFromResults
\* stores "" for a result that has none.
Storable(p) == \A i \in Invoices : result[p][i] # "error"

StoreItems(p) ==
  batches' = [batches EXCEPT ![p] = [i \in Invoices |-> ItemOf(result[p][i])]]

\* exportApprovedInvoices creates the batch and goes on to the invoices, or
\* the create throws (validation, a failed write or a lost answer) and the
\* request ends.
CreateBatch(p) ==
  /\ LoopEnded(p)
  /\ \/ /\ Storable(p) /\ NoFault
        /\ StoreItems(p)
        /\ todo' = [todo EXCEPT ![p] = Accepted(p)]
        /\ Goto(p, "mark")
     \/ /\ \/ ~Storable(p) /\ NoFault /\ UNCHANGED batches
           \/ Fault /\ UNCHANGED batches
           \/ Storable(p) /\ Fault /\ StoreItems(p)
        /\ Goto(p, "rejected")
        /\ UNCHANGED todo
  /\ UNCHANGED <<dbVars, files, extVars, snap, call, result, source, retryQueue>>

\* mergeRetryResultsIntoBatch over the items read at the start of the retry;
\* no other request writes the batch meanwhile, so they are the present ones.
MergeItems(t) ==
  batches' = [batches EXCEPT ![source[t]] = [i \in Invoices |->
    IF result[t][i] = "none" THEN @[i] ELSE ItemOf(result[t][i])]]

MergeBatch(t) ==
  /\ LoopEnded(t)
  /\ \/ /\ NoFault
        /\ MergeItems(t)
        /\ todo' = [todo EXCEPT ![t] = Accepted(t)]
        /\ Goto(t, "mark")
        /\ UNCHANGED retryQueue
     \/ /\ Fault
        /\ MergeItems(t) \/ UNCHANGED batches
        /\ Settle(t, "rejected")
        /\ UNCHANGED todo
  /\ UNCHANGED <<dbVars, files, extVars, snap, call, result, source>>

\* One updateOne of saveBatch or bulkWrite; a failed one is only logged.
MarkExported(r, i) ==
  /\ pc[r] = "mark" /\ i \in todo[r]
  /\ \/ status' = [status EXCEPT ![i] = "EXPORTED"] /\ NoFault
     \/ UNCHANGED status /\ Fault
  /\ todo' = [todo EXCEPT ![r] = @ \ {i}]
  /\ UNCHANGED <<exportVersion, inFlight, batches, files, extVars, pc, snap,
                 call, result, source, retryQueue>>

Finish(r) ==
  /\ pc[r] = "mark" /\ todo[r] = {}
  /\ Settle(r, "done")
  /\ UNCHANGED <<dbVars, batches, files, extVars, todo, snap, call, result,
                 source, faults>>

-----------------------------------------------------------------------------
(* generateExportFile: no Tally call and no version staging.               *)

FileStart(f) ==
  \E ids \in SUBSET {i \in Invoices : status[i] = "APPROVED"} :
    /\ pc[f] = "idle" /\ ids # {}
    /\ Goto(f, "loop")
    /\ todo' = [todo EXCEPT ![f] = ids]
    /\ UNCHANGED <<dbVars, batches, files, extVars, snap, call, result, source,
                   retryQueue, faults>>

\* buildImportFile skips the invoices without amount or vendor state, and no
\* others; the file is stored and a batch without items created, nothing of
\* either when every invoice was skipped. A failing write ends the request.
FileStore(f) ==
  LET included == todo[f] \ (NoAmount \cup NoVendorState) IN
  /\ pc[f] = "loop"
  /\ \/ /\ files' = files \cup included
        /\ todo' = [todo EXCEPT ![f] = included]
        /\ Goto(f, "mark")
        /\ NoFault
     \/ /\ Fault
        /\ files' \in {files, files \cup included}
        /\ Goto(f, "rejected")
        /\ UNCHANGED todo
  /\ UNCHANGED <<dbVars, batches, extVars, snap, call, result, source,
                 retryQueue>>

-----------------------------------------------------------------------------
\* The backend process dies: every running request is lost, and with them
\* the retry queue; POSTs under way may or may not reach Tally.
Crash ==
  /\ \E r \in Requests : pc[r] \notin {"idle"} \cup Ended
  /\ Fault
  /\ \E late \in SUBSET {r \in Exporters : call[r].state = "sent"} :
       stray' = [i \in Invoices |-> stray[i] \cup
                   {Next1(r, i) : r \in {x \in late : call[x].invoice = i}}]
  /\ pc' = [r \in Requests |-> IF pc[r] \in {"idle"} \cup Ended
                                 THEN pc[r] ELSE "crashed"]
  /\ todo' = [r \in Requests |-> {}]
  /\ call' = [r \in Exporters |-> NoCall]
  /\ retryQueue' = <<>>
  /\ UNCHANGED <<dbVars, batches, files, tally, snap, result, source>>

\* No request is being served: the server waits for the next one.
Quiet ==
  /\ \A r \in Requests : pc[r] \in {"idle"} \cup Ended
  /\ UNCHANGED vars

ExportStep(r) ==
  \/ \E i \in Invoices : Refuse(r, i) \/ StageConflict(r, i) \/ Stage(r, i)
  \/ TallyImport(r)
  \/ LineError(r)
  \/ Promote(r)

MarkStep(r) == (\E i \in Invoices : MarkExported(r, i)) \/ Finish(r)

Arrival ==
  \/ \E p \in Pushers : PushStart(p)
  \/ \E t \in Retriers : RetryRequest(t)
  \/ \E f \in FileWriters : FileStart(f)

PushStep(p)  == ExportStep(p) \/ CreateBatch(p) \/ MarkStep(p)
RetryStep(t) == RetryStart(t) \/ RetryNothing(t) \/ ExportStep(t) \/ MergeBatch(t) \/ MarkStep(t)
FileStep(f)  == FileStore(f) \/ MarkStep(f)

Network ==
  \/ \E r \in Exporters : Resend(r) \/ PostFails(r)
  \/ \E i \in Invoices : \E v \in stray[i] : TallyLate(i, v)

Next ==
  \/ Arrival
  \/ \E p \in Pushers : PushStep(p)
  \/ \E t \in Retriers : RetryStep(t)
  \/ \E f \in FileWriters : FileStep(f)
  \/ Network
  \/ Crash
  \/ Quiet

Spec == Init /\ [][Next]_vars

\* Node runs every ready continuation, and the 30 s timeout of the POST ends
\* a call Tally never answers (Resend or PostFails, both bounded by faults).
Fairness ==
  /\ \A p \in Pushers : WF_vars(PushStep(p))
  /\ \A t \in Retriers : WF_vars(RetryStep(t))
  /\ \A f \in FileWriters : WF_vars(FileStep(f))

FairSpec == Spec /\ Fairness

-----------------------------------------------------------------------------
(* Properties.                                                             *)

TypeOK ==
  /\ status \in [Invoices -> Statuses]
  /\ exportVersion \in [Invoices -> Nat]
  /\ inFlight \in [Invoices -> Nat]
  /\ batches \in [Pushers -> [Invoices -> ItemState]]
  /\ files \in SUBSET Invoices
  /\ tally \in [Invoices -> SUBSET Nat]
  /\ stray \in [Invoices -> SUBSET Nat]
  /\ pc \in [Requests -> Phases]
  /\ todo \in [Requests -> SUBSET Invoices]
  /\ snap \in [Exporters -> [Invoices -> Nat]]
  /\ call \in [Exporters -> Calls]
  /\ result \in [Exporters -> [Invoices -> Outcomes]]
  /\ source \in [Retriers -> Pushers \cup {NoBatch}]
  /\ retryQueue \in Seq(Retriers)
  /\ faults \in 0..MaxFaults

\* Whatever exporters, crashes and lost answers do to an invoice, its stage is
\* empty or is the version right after the recorded one; so a request whose
\* snapshot is current never meets another stage (no IN_FLIGHT_MISMATCH in
\* phase 1) and no invoice is locked out of export by a stale stage.
StageIsNextVersion ==
  \A i \in Invoices : inFlight[i] \in {0, exportVersion[i] + 1}

\* The runbook's invariant (section 3): Tally and the database end with the
\* same version or the database stays behind. Tally holds a voucher of every
\* recorded version and of at most the one after it, none is skipped, and the
\* database never records a version Tally did not import.
DatabaseNeverAhead ==
  \A i \in Invoices :
    tally[i] \in {1 .. exportVersion[i], 1 .. (exportVersion[i] + 1)}

\* Two exporters may both have Tally import the same GUID; at most one of them
\* reports the version as its success (promoteExportVersion has one winner).
OneWinnerPerVersion ==
  \A r, q \in Exporters : \A i \in Invoices :
    r # q /\ i \in Accepted(r) \cap Accepted(q) => snap[r][i] # snap[q][i]

\* What the user is shown as exported is in Tally: an EXPORTED invoice has a
\* recorded version or is part of a stored import file, and a success item of
\* a batch stands for a voucher Tally holds.
ShownAsExportedIsInTally ==
  \A i \in Invoices :
    /\ status[i] = "EXPORTED" => tally[i] # {} \/ i \in files
    /\ \A p \in Pushers : batches[p][i] = "success" => tally[i] # {}

\* A version is recorded only by consuming its stage, one version at a time,
\* and only once Tally holds the voucher of that very version.
VersionsAreConfirmedInOrder ==
  [][\A i \in Invoices :
       exportVersion'[i] # exportVersion[i] =>
         /\ exportVersion'[i] = exportVersion[i] + 1
         /\ exportVersion'[i] \in tally[i]
         /\ inFlight'[i] = 0]_vars

\* The export implements VoucherAgreement: whatever requests, crashes and lost
\* answers do, every step is an import of the next version by Tally, the
\* recording of an imported version, or neither.
Agreement == INSTANCE VoucherAgreement
               WITH recorded <- exportVersion, imported <- tally

ImplementsAgreement == Agreement!Spec

\* The tenant's retry queue keeps batches consistent: an item that succeeded
\* is never turned into a failure by another retry of the batch.
SuccessItemsStay ==
  [][\A p \in Pushers : \A i \in Invoices :
       batches[p][i] = "success" => batches'[p][i] = "success"]_vars

\* Every request that arrives is answered, a queued retry also when the one
\* before it throws or finds nothing to do.
RequestsAreAnswered ==
  \A r \in Requests : pc[r] # "idle" ~> pc[r] \in Ended

-----------------------------------------------------------------------------
(* Claims of the documentation and the tests that the code does not meet.  *)

\* Runbook, section 3.2: the exporter run after a crashed one "re-issues the
\* same GUID with ACTION=Alter", so the first POST of a request is never a
\* Create of a GUID that Tally holds and nobody else is working on.
RecoveryPostsAlter ==
  \A r \in Exporters :
    LET i == call[r].invoice IN
    /\ call[r].state = "sent" /\ call[r].attempt = 1
    /\ Next1(r, i) \in tally[i]
    /\ \A q \in Exporters \ {r} : call[q].invoice # i
    => Action(r, i) = "Alter"

\* README: "a deterministic GUID per voucher so re-export is idempotent":
\* however often an invoice is exported Tally has one voucher of it.
ReExportIsIdempotent ==
  \A i \in Invoices : Cardinality(tally[i]) <= 1

\* exportService.test "persists per-invoice items[] reflecting per-result
\* success/failure": a request whose database writes all succeed (and that
\* did not crash) leaves its results in a batch.
ResultsArePersisted ==
  faults = 0 =>
    \A p \in Pushers : pc[p] \in Ended =>
      \A i \in Invoices : batches[p][i] = "none" <=> result[p][i] = "none"

=============================================================================
