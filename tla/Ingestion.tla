------------------------------ MODULE Ingestion ------------------------------
(***************************************************************************)
(* Ingestion: IngestionJobOrchestrator (one job per tenant, reruns, pause), *)
(* IngestionService.runOnce and processFile, upsertFromPending, the upload  *)
(* and e-mail sources, the polling tick of server.ts, and the triage desk   *)
(* where people decide about what ingestion stored.                        *)
(*                                                                         *)
(* A file is a pair <<source, n>>: the n-th file of the source in           *)
(* checkpoint order. The upload source of a tenant is named by the tenant.  *)
(* No mailbox assignment resolver is configured (core/dependencies.ts), so  *)
(* every file is stored without organisation.                              *)
(***************************************************************************)
EXTENDS Integers, Sequences, FiniteSets

CONSTANTS
  Tenants,       \* tenants; also their upload sources
  Mailboxes,     \* the configured e-mail sources
  MailOwner,     \* the tenant a mailbox is configured for
  Mail,          \* the UIDs of a mailbox's attachments, in order
  NoMessage,     \* "no Gmail message id"
  NoSource,      \* "no source": a run between two sources
  MayFail,       \* files whose extraction may fail
  Slots,         \* bound: runs that may be under way at once
  BatchSize,     \* INGESTION_CONCURRENCY
  RerunMax,      \* RERUN_MAX_COUNT, 5 in the code
  MaxUploads,    \* bound: objects uploaded by each tenant
  MaxRequests,   \* bound: ingest and pause requests, and polls
  MaxDecisions,  \* bound: triage requests
  MaxFaults      \* bound: crashes, failed calls, unreadable objects

Sources == Mailboxes \cup Tenants
Files   == Sources \X Nat

ASSUME SourcesAssumption ==
  /\ Tenants # {} /\ Mailboxes \cap Tenants = {} /\ NoSource \notin Sources
  /\ MailOwner \in [Mailboxes -> Tenants]
  /\ Mail \in [Mailboxes -> Seq(Nat \ {0})]
  /\ \A m \in Mailboxes : \A j, k \in DOMAIN Mail[m] :
        j <= k => Mail[m][j] <= Mail[m][k]
  /\ NoMessage \notin Mailboxes \X Nat
  /\ MayFail \subseteq Files
ASSUME BoundsAssumption ==
  /\ BatchSize \in Nat \ {0}
  /\ RerunMax \in Nat /\ MaxUploads \in Nat /\ MaxRequests \in Nat
  /\ MaxDecisions \in Nat /\ MaxFaults \in Nat
ASSUME SlotsAssumption == Slots # {}

VARIABLES
  arrived,     \* how many files each source holds by now
  checkpoint,  \* CheckpointModel.marker by source and tenant, 0 for none
  invoices,    \* the invoice documents, in order of creation
  state,       \* IngestionJobStatus.state by tenant
  running,     \* IngestionJobStatus.running by tenant
  pending,     \* localPendingRerun
  pauseAsked,  \* IngestionService.pauseRequested, one flag for all runs
  run,         \* the invocations of runOnce under way
  orphans,     \* files a failed run left in processing
  desk,        \* triage requests that have loaded their invoice
  asked,       \* history: an ingest request that waits for a rerun
  unread,      \* history: objects that could not be read when fetched
  used         \* requests, decisions and faults so far

jobVars  == <<state, running, pending, pauseAsked, asked>>
dbVars   == <<checkpoint, invoices>>
envVars  == <<arrived, unread>>
vars     == <<jobVars, dbVars, envVars, run, orphans, desk, used>>

States   == {"idle", "running", "paused", "completed", "failed"}
Statuses == {"PENDING_TRIAGE", "FAILED", "PARSED", "REJECTED"}
Invoice  == [file : Files, tenant : Tenants, org : BOOLEAN,
             message : (Mailboxes \X Nat) \cup {NoMessage}, status : Statuses]
TaskPhases == {"check", "upsert", "create", "done"}
Task     == [phase : TaskPhases, ok : BOOLEAN]
NewTask  == [phase |-> "check", ok |-> TRUE]
NoWork   == [n \in {} |-> NewTask]
Decision == [invoice : Nat, kind : {"assign", "reject"}]

\* An invocation of runOnce: whom for, the sources still to scan, the source
\* and marker it works with, the files left after this batch, and the batch.
NewRun(t, job, reruns, todo) ==
  [phase |-> "scan", tenant |-> t, job |-> job, reruns |-> reruns,
   todo |-> todo, source |-> NoSource, marker |-> 0, files |-> {},
   work |-> NoWork]
SomeTenant == CHOOSE t \in Tenants : TRUE
Free == [NewRun(SomeTenant, FALSE, 0, {}) EXCEPT !.phase = "free"]

Init ==
  /\ arrived    = [s \in Sources |-> 0]
  /\ checkpoint = [s \in Sources |-> [t \in Tenants |-> 0]]
  /\ invoices   = <<>>
  /\ state      = [t \in Tenants |-> "idle"]
  /\ running    = [t \in Tenants |-> FALSE]
  /\ pending    = [t \in Tenants |-> FALSE]
  /\ pauseAsked = FALSE
  /\ run        = [s \in Slots |-> Free]
  /\ orphans    = {}
  /\ desk       = {}
  /\ asked      = [t \in Tenants |-> FALSE]
  /\ unread     = {}
  /\ used       = [requests |-> 0, decisions |-> 0, faults |-> 0]

-----------------------------------------------------------------------------
(* Helpers.                                                                *)

Use(what, bound) == used[what] < bound /\ used' = [used EXCEPT ![what] = @ + 1]
Fault == Use("faults", MaxFaults)

\* checkpointValue: the UID of the e-mail, the object's place in the listing.
Marker(f) == IF f[1] \in Mailboxes THEN Mail[f[1]][f[2]] ELSE f[2]

\* sourceDocumentId: a bare UID, the same number in every mailbox, or a key
\* that holds the tenant.
Document(f) == IF f[1] \in Mailboxes THEN <<NoSource, Marker(f)>> ELSE f

\* Mutant of Message: the UID alone, as in the document id.
MessageUid(f) ==
  IF f[1] \in Mailboxes THEN <<NoSource, Marker(f)>> ELSE NoMessage

\* gmailMessageId: attachments of one e-mail share it, uploads have none.
Message(f) == IF f[1] \in Mailboxes THEN <<f[1], Marker(f)>> ELSE NoMessage

\* The tenant's own mailboxes, or all there are when it has none; its uploads.
SourcesOf(t) ==
  LET own == {m \in Mailboxes : MailOwner[m] = t}
  IN  (IF own = {} THEN Mailboxes ELSE own) \cup {t}

\* fetchNewFiles: what lies beyond the marker.
Fresh(s, marker) == {n \in 1..arrived[s] : Marker(<<s, n>>) > marker}

\* The first files of a scan, processed concurrently.
NextBatch(files) ==
  {n \in files : Cardinality({m \in files : m < n}) < BatchSize}

Active(s)  == run[s].phase # "free"
JobsOf(t)  == {s \in Slots : Active(s) /\ run[s].job /\ run[s].tenant = t}
HasSlot    == \E s \in Slots : ~Active(s)
AnySlot    == CHOOSE s \in Slots : ~Active(s)

-----------------------------------------------------------------------------
(* Starting and ending runs.                                               *)

\* runOnce starts: it resets the one pause flag and reports progress.
StartRun(s, t, job, reruns) ==
  /\ run' = [run EXCEPT ![s] = NewRun(t, job, reruns, SourcesOf(t))]
  /\ pauseAsked' = FALSE

\* startJob once it has found no running job.
StartJob(s, t, reruns) ==
  /\ StartRun(s, t, TRUE, reruns)
  /\ state'   = [state EXCEPT ![t] = "running"]
  /\ running' = [running EXCEPT ![t] = TRUE]
  /\ asked'   = [asked EXCEPT ![t] = FALSE]

\* Mutant of StopJob: leaves the rerun flag as it is.
StopJobOnly(s, t, final) ==
  /\ run'     = [run EXCEPT ![s] = Free]
  /\ state'   = [state EXCEPT ![t] = final]
  /\ running' = [running EXCEPT ![t] = FALSE]
  /\ UNCHANGED <<pending, pauseAsked>>

\* The status of a job whose run is over; what was asked for is forgotten.
StopJob(s, t, final) ==
  /\ run'     = [run EXCEPT ![s] = Free]
  /\ state'   = [state EXCEPT ![t] = final]
  /\ running' = [running EXCEPT ![t] = FALSE]
  /\ pending' = [pending EXCEPT ![t] = FALSE]
  /\ UNCHANGED pauseAsked

\* A run that was not paused: a pending rerun starts at once, unless there
\* have been RerunMax; then the request is dropped.
Complete(s, t) ==
  IF pending[t] /\ run[s].reruns < RerunMax
  THEN /\ StartJob(s, t, run[s].reruns + 1)
       /\ pending' = [pending EXCEPT ![t] = FALSE]
  ELSE /\ StopJob(s, t, "completed")
       /\ asked' = [asked EXCEPT ![t] = @ /\ run[s].reruns < RerunMax]

\* The promise of a run settles. A poll has no job and no status.
EndRun(s, final) ==
  IF ~run[s].job
  THEN run' = [run EXCEPT ![s] = Free] /\ UNCHANGED jobVars
  ELSE LET t == run[s].tenant IN
       IF final = "completed" THEN Complete(s, t)
       ELSE StopJob(s, t, final) /\ asked' = [asked EXCEPT ![t] = FALSE]

\* A throw inside a batch rejects the run; the other files go on by themselves.
FailRun(s) ==
  /\ EndRun(s, "failed")
  /\ orphans' = orphans \cup
       {[file |-> <<run[s].source, n>>, tenant |-> run[s].tenant,
         task |-> run[s].work[n]] :
           n \in {k \in DOMAIN run[s].work : run[s].work[k].phase # "done"}}

-----------------------------------------------------------------------------
(* Requests and the polling tick.                                          *)

\* Mutant of Ingest: does not look whether a job is running.
IngestAgain(t) ==
  /\ Use("requests", MaxRequests)
  /\ HasSlot /\ StartJob(AnySlot, t, 0)
  /\ UNCHANGED pending
  /\ UNCHANGED <<dbVars, envVars, orphans, desk>>

\* POST /jobs/ingest.
Ingest(t) ==
  /\ Use("requests", MaxRequests)
  /\ IF running[t]
     THEN /\ pending' = [pending EXCEPT ![t] = TRUE]
          /\ asked'   = [asked EXCEPT ![t] = TRUE]
          /\ UNCHANGED <<run, state, running, pauseAsked>>
     ELSE /\ HasSlot /\ StartJob(AnySlot, t, 0)
          /\ UNCHANGED pending
  /\ UNCHANGED <<dbVars, envVars, orphans, desk>>

\* POST /jobs/ingest/pause: the run itself stops after its batch.
Pause(t) ==
  /\ Use("requests", MaxRequests)
  /\ running[t]
  /\ pauseAsked' = TRUE
  /\ pending' = [pending EXCEPT ![t] = FALSE]
  /\ asked'   = [asked EXCEPT ![t] = FALSE]
  /\ state'   = [state EXCEPT ![t] = "paused"]
  /\ UNCHANGED <<running, run, dbVars, envVars, orphans, desk>>

\* runPollingTick: runOnce itself, not a job; one poll after the other.
Poll(t) ==
  /\ Use("requests", MaxRequests)
  /\ \A s \in Slots : Active(s) => run[s].job
  /\ HasSlot /\ StartRun(AnySlot, t, FALSE, 0)
  /\ UNCHANGED <<state, running, pending, asked>>
  /\ UNCHANGED <<dbVars, envVars, orphans, desk>>

\* POST /jobs/upload: the object is stored; its invoice document has no
\* tenantId, which the schema requires, so no record is created, the request
\* ends with an error, and no rerun is asked for.
Upload(t) ==
  /\ arrived[t] < MaxUploads
  /\ arrived' = [arrived EXCEPT ![t] = @ + 1]
  /\ UNCHANGED <<jobVars, dbVars, unread, run, orphans, desk, used>>

\* An e-mail arrives with all its attachments.
MailArrives(m) ==
  /\ arrived[m] < Len(Mail[m])
  /\ \E k \in arrived[m] + 1 .. Len(Mail[m]) :
        /\ Mail[m][k] = Mail[m][arrived[m] + 1]
        /\ k < Len(Mail[m]) => Mail[m][k + 1] # Mail[m][k]
        /\ arrived' = [arrived EXCEPT ![m] = k]
  /\ UNCHANGED <<jobVars, dbVars, unread, run, orphans, desk, used>>

-----------------------------------------------------------------------------
(* One file: processFile, upsertFromPending.                               *)

\* The filter of the upsert: same document id, no organisation.
Matches(i, f) == Document(invoices[i].file) = Document(f) /\ ~invoices[i].org

\* Mutant of Overwritable: every status but the exported ones.
OverwritableAny(i) == invoices[i].status \in Statuses

\* UPSERT_OVERWRITE_SAFE_STATUSES.
Overwritable(i) == invoices[i].status \in {"PENDING_TRIAGE", "FAILED"}

\* The unique index on organisation and Gmail message id.
Clash(f, except) ==
  /\ Message(f) # NoMessage
  /\ \E j \in DOMAIN invoices \ except :
        ~invoices[j].org /\ invoices[j].message = Message(f)

\* The document of a file: without organisation it goes to triage.
Stored(f, t) ==
  [file |-> f, tenant |-> t, org |-> FALSE, message |-> Message(f),
   status |-> "PENDING_TRIAGE"]

\* A failure writes no message id and leaves the one there was.
Failed(i, f, t) ==
  [invoices[i] EXCEPT !.file = f, !.tenant = t, !.status = "FAILED"]

\* An e-mail that has an invoice of this tenant is a duplicate.
KnownMessage(f, t) ==
  /\ Message(f) # NoMessage
  /\ \E i \in DOMAIN invoices :
        invoices[i].tenant = t /\ invoices[i].message = Message(f)

\* The duplicate check, and how the extraction that follows will turn out.
Check(f, t, task, new) ==
  /\ task.phase = "check"
  /\ IF KnownMessage(f, t)
     THEN new = [task EXCEPT !.phase = "done"]
     ELSE \E ok \in (IF f \in MayFail THEN BOOLEAN ELSE {TRUE}) :
            new = [phase |-> "upsert", ok |-> ok]
  /\ UNCHANGED <<invoices, used>>

\* findOneAndUpdate by a status that is safe to overwrite; failing that, a
\* look whether the document is there after all: then it is protected, and
\* the file is skipped. A duplicate key counts as created.
Upsert(f, t, task, new) ==
  LET there == {i \in DOMAIN invoices : Matches(i, f)}
      found == {i \in there : Overwritable(i)} IN
  /\ task.phase = "upsert"
  /\ \/ /\ found = {}
        /\ new = [task EXCEPT !.phase = IF there = {} THEN "create" ELSE "done"]
        /\ UNCHANGED invoices
     \/ \E i \in found :
        /\ new = [task EXCEPT !.phase = "done"]
        /\ invoices' =
             IF ~task.ok THEN [invoices EXCEPT ![i] = Failed(i, f, t)]
             ELSE IF Clash(f, {i}) THEN invoices
             ELSE [invoices EXCEPT ![i] = Stored(f, t)]
  /\ UNCHANGED used

\* A duplicate key counts as created.
Create(f, t, task, new) ==
  /\ task.phase = "create" /\ task.ok
  /\ new = [task EXCEPT !.phase = "done"]
  /\ invoices' = IF Clash(f, {}) THEN invoices
                                 ELSE Append(invoices, Stored(f, t))
  /\ UNCHANGED used

\* A failed database call on the way is handled like a failed extraction.
StoreFails(task, new) ==
  /\ task.phase \in {"upsert", "create"} /\ task.ok
  /\ Fault
  /\ new = [phase |-> "upsert", ok |-> FALSE]
  /\ UNCHANGED invoices

FileStep(f, t, task, new) ==
  \/ Check(f, t, task, new)
  \/ Upsert(f, t, task, new)
  \/ Create(f, t, task, new)
  \/ StoreFails(task, new)

\* A failure cannot be created without organisation: the schema requires one
\* outside triage. Nor can it be stored when the database call fails.
Throws(task) ==
  /\ ~task.ok
  /\ \/ task.phase = "create" /\ UNCHANGED used
     \/ task.phase = "upsert" /\ Fault

-----------------------------------------------------------------------------
(* The steps of a run.                                                     *)

\* Progress reported by a job's run sets its state back to running.
Progress(s) ==
  IF run[s].job
  THEN state' = [state EXCEPT ![run[s].tenant] = "running"]
  ELSE UNCHANGED state

\* The checkpoint of the next source is read.
Scan(s) ==
  /\ run[s].phase = "scan"
  /\ \E src \in run[s].todo :
        run' = [run EXCEPT ![s].phase = "fetch", ![s].source = src,
                           ![s].todo = @ \ {src},
                           ![s].marker = checkpoint[src][run[s].tenant]]
  /\ UNCHANGED <<jobVars, dbVars, envVars, orphans, desk, used>>

\* The next batch of the source, the next source, or the end of the run.
GoOn(s, r) ==
  IF r.files # {}
  THEN LET batch == NextBatch(r.files) IN
       /\ run' = [run EXCEPT ![s] =
            [r EXCEPT !.phase = "batch", !.files = @ \ batch,
                      !.work = [n \in batch |-> NewTask]]]
       /\ Progress(s)
       /\ UNCHANGED <<running, pending, pauseAsked, asked>>
  ELSE IF r.todo # {}
  THEN /\ run' = [run EXCEPT ![s] =
            [r EXCEPT !.phase = "scan", !.work = NoWork]]
       /\ Progress(s)
       /\ UNCHANGED <<running, pending, pauseAsked, asked>>
  ELSE EndRun(s, "completed")

\* fetchNewFiles. Objects that cannot be read are left out.
Fetch(s) ==
  LET src   == run[s].source
      fresh == Fresh(src, run[s].marker) IN
  /\ run[s].phase = "fetch"
  /\ \E lost \in SUBSET fresh :
        /\ \/ lost = {} /\ UNCHANGED used
           \/ lost # {} /\ src \in Tenants /\ Fault
        /\ unread' = unread \cup {<<src, n>> : n \in lost}
        /\ GoOn(s, [run[s] EXCEPT !.files = fresh \ lost])
  /\ UNCHANGED <<dbVars, arrived, orphans, desk>>

\* A file of the batch takes its next step.
Process(s) ==
  /\ run[s].phase = "batch"
  /\ \E n \in DOMAIN run[s].work : \E new \in Task :
        /\ FileStep(<<run[s].source, n>>, run[s].tenant, run[s].work[n], new)
        /\ run' = [run EXCEPT ![s].work[n] = new]
  /\ UNCHANGED <<jobVars, checkpoint, envVars, orphans, desk>>

\* Mutant of Settled: a file is counted when its extraction is over.
SettledEarly(s) ==
  \A n \in DOMAIN run[s].work : run[s].work[n].phase # "check"

\* Promise.all: every file of the batch is processed.
Settled(s) == \A n \in DOMAIN run[s].work : run[s].work[n].phase = "done"

\* The results are gone through in order; after the last one the pause flag
\* is looked at.
Settle(s) ==
  LET r == run[s]
      n == CHOOSE k \in DOMAIN r.work : \A m \in DOMAIN r.work : k <= m
      rest == [r EXCEPT !.marker = Marker(<<r.source, n>>),
                        !.work = [m \in DOMAIN r.work \ {n} |-> r.work[m]]] IN
  /\ r.phase = "batch" /\ DOMAIN r.work # {}
  /\ Settled(s)
  /\ checkpoint' =
       [checkpoint EXCEPT ![r.source][r.tenant] =
          IF Marker(<<r.source, n>>) # r.marker THEN Marker(<<r.source, n>>)
                                                ELSE @]
  /\ IF DOMAIN rest.work # {}
     THEN /\ run' = [run EXCEPT ![s] = rest]
          /\ Progress(s)
          /\ UNCHANGED <<running, pending, pauseAsked, asked>>
     ELSE IF pauseAsked THEN EndRun(s, "paused")
     ELSE GoOn(s, rest)
  /\ UNCHANGED <<invoices, envVars, orphans, desk, used>>

\* A file's failure could not be stored.
Throw(s) ==
  /\ run[s].phase = "batch"
  /\ \E n \in DOMAIN run[s].work :
        /\ Throws(run[s].work[n])
        /\ FailRun(s)
  /\ UNCHANGED <<dbVars, envVars, desk>>

\* A source cannot be reached, or a checkpoint not be read or written.
BreakDown(s) ==
  /\ Active(s)
  /\ run[s].phase = "batch" => Settled(s)
  /\ Fault
  /\ FailRun(s)
  /\ UNCHANGED <<dbVars, envVars, desk>>

RunStep(s) == Scan(s) \/ Fetch(s) \/ Process(s) \/ Settle(s) \/ Throw(s)

\* What a failed run left in processing goes on; nobody waits for it.
Orphan ==
  /\ \E o \in orphans :
       \/ \E new \in Task :
            /\ FileStep(o.file, o.tenant, o.task, new)
            /\ orphans' = (orphans \ {o}) \cup
                 (IF new.phase = "done" THEN {} ELSE {[o EXCEPT !.task = new]})
       \/ /\ Throws(o.task)
          /\ orphans' = orphans \ {o}
          /\ UNCHANGED invoices
  /\ UNCHANGED <<jobVars, checkpoint, envVars, run, desk>>

\* The process is stopped and started again: all it knew of jobs is gone.
Crash ==
  /\ Fault
  /\ state'      = [t \in Tenants |-> "idle"]
  /\ running'    = [t \in Tenants |-> FALSE]
  /\ pending'    = [t \in Tenants |-> FALSE]
  /\ asked'      = [t \in Tenants |-> FALSE]
  /\ pauseAsked' = FALSE
  /\ run'        = [s \in Slots |-> Free]
  /\ orphans'    = {}
  /\ desk'       = {}
  /\ UNCHANGED <<dbVars, envVars>>

-----------------------------------------------------------------------------
(* The triage desk.                                                        *)

\* A request to assign an organisation, or to reject, loads the invoice.
TriageLoad ==
  /\ Use("decisions", MaxDecisions)
  /\ \E i \in DOMAIN invoices : \E kind \in {"assign", "reject"} :
        /\ invoices[i].status = "PENDING_TRIAGE"
        /\ desk' = desk \cup {[invoice |-> i, kind |-> kind]}
  /\ UNCHANGED <<jobVars, dbVars, envVars, run, orphans>>

\* save() writes the paths the request assigned, whatever the document is now.
TriageSave ==
  /\ \E d \in desk :
        /\ desk' = desk \ {d}
        /\ invoices' = [invoices EXCEPT ![d.invoice] =
             IF d.kind = "assign"
             THEN [@ EXCEPT !.org = TRUE, !.status = "PARSED"]
             ELSE [@ EXCEPT !.status = "REJECTED"]]
  /\ UNCHANGED <<jobVars, checkpoint, envVars, run, orphans, used>>

-----------------------------------------------------------------------------
(* The specification.                                                      *)

\* The server waits for requests.
Quiet ==
  /\ \A s \in Slots : ~Active(s)
  /\ UNCHANGED vars

Requests == \E t \in Tenants : Ingest(t) \/ Pause(t) \/ Poll(t) \/ Upload(t)

Next ==
  \/ Requests
  \/ \E m \in Mailboxes : MailArrives(m)
  \/ \E s \in Slots : RunStep(s) \/ BreakDown(s)
  \/ Orphan
  \/ TriageLoad
  \/ TriageSave
  \/ Crash
  \/ Quiet

Spec == Init /\ [][Next]_vars

-----------------------------------------------------------------------------
(* Properties.                                                             *)

TypeOK ==
  /\ arrived \in [Sources -> Nat]
  /\ checkpoint \in [Sources -> [Tenants -> Nat]]
  /\ invoices \in Seq(Invoice)
  /\ state \in [Tenants -> States]
  /\ running \in [Tenants -> BOOLEAN]
  /\ pending \in [Tenants -> BOOLEAN]
  /\ pauseAsked \in BOOLEAN
  /\ \A s \in Slots :
       /\ run[s].phase \in {"free", "scan", "fetch", "batch"}
       /\ run[s].tenant \in Tenants /\ run[s].job \in BOOLEAN
       /\ run[s].reruns \in 0..RerunMax
       /\ run[s].todo \subseteq Sources
       /\ run[s].source \in Sources \cup {NoSource}
       /\ run[s].marker \in Nat /\ run[s].files \subseteq Nat
       /\ DOMAIN run[s].work \subseteq Nat
       /\ \A n \in DOMAIN run[s].work : run[s].work[n] \in Task
  /\ orphans \subseteq [file : Files, tenant : Tenants, task : Task]
  /\ desk \subseteq Decision
  /\ asked \in [Tenants -> BOOLEAN]
  /\ unread \subseteq Files

\* A tenant's status says that a job is running exactly while one is, and
\* there is never more than one, whatever reports of progress, pauses, reruns
\* and failures do to the status.
RunningMeansOneJob ==
  \A t \in Tenants :
    /\ running[t] <=> JobsOf(t) # {}
    /\ \A r, s \in JobsOf(t) : r = s

\* Nothing is lost on the way in: what a tenant's checkpoint of a source has
\* passed has an invoice of its document id, so an upload its own and an e-mail
\* one of its attachments', also when a run threw in the middle of a batch, two
\* runs overlapped or the process was restarted. (An object that could not be
\* read is excepted; that a document id may stand for several attachments is
\* the matter of EveryAttachmentIsKept.)
NoDocumentSkipped ==
  \A s \in Sources, t \in Tenants : \A n \in 1..arrived[s] :
    Marker(<<s, n>>) <= checkpoint[s][t] /\ <<s, n>> \notin unread
      => \E i \in DOMAIN invoices :
            Document(invoices[i].file) = Document(<<s, n>>)

\* An upload has a document id of its own: it is itself that is stored.
NoUploadSkipped ==
  \A t \in Tenants : \A n \in 1..arrived[t] :
    n <= checkpoint[t][t] /\ <<t, n>> \notin unread
      => \E i \in DOMAIN invoices : invoices[i].file = <<t, n>>

\* What a person has decided about stays decided and keeps its contents, no
\* matter how often its file is fetched and processed again.
DecisionsStay ==
  [][\A i \in DOMAIN invoices :
       invoices[i].status \in {"PARSED", "REJECTED"} =>
         /\ invoices'[i].status \in {"PARSED", "REJECTED"}
         /\ invoices'[i].file = invoices[i].file]_vars

\* An ingest request that finds a job running is answered by another run when
\* that job completes: it is remembered as long as it waits, and while it waits
\* the job that is to run again is there. Only a pause, a failure, a restart of
\* the process or the limit of reruns drops it.
RequestIsRemembered ==
  \A t \in Tenants :
    /\ asked[t] <=> pending[t]
    /\ pending[t] => running[t]

-----------------------------------------------------------------------------
(* Claims of the documentation that the code does not meet.                *)

\* The PRD: the system "extracts invoice attachments from emails, and feeds
\* them into the processing pipeline": no attachment the checkpoint has passed
\* is without an invoice.
EveryAttachmentIsKept ==
  \A m \in Mailboxes : \A n \in 1..arrived[m] :
    Marker(<<m, n>>) <= checkpoint[m][MailOwner[m]]
      => \E i \in DOMAIN invoices : invoices[i].file = <<m, n>>

\* Of every e-mail it has passed at least one attachment has an invoice.
EveryMailIsKept ==
  \A m \in Mailboxes : \A n \in 1..arrived[m] :
    Marker(<<m, n>>) <= checkpoint[m][MailOwner[m]]
      => \E i \in DOMAIN invoices :
            Message(invoices[i].file) = Message(<<m, n>>)

\* INVOICE-STATE-MACHINE: a failing OCR or extraction stage leads to FAILED_OCR
\* or FAILED_PARSE. So without a fault of the environment no job fails.
FailuresAreRecorded ==
  used.faults = 0 => \A t \in Tenants : state[t] # "failed"

=============================================================================
