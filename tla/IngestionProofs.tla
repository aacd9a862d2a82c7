--------------------------- MODULE IngestionProofs ---------------------------
(***************************************************************************)
(* Proofs about Ingestion for every set of tenants and mailboxes, all       *)
(* contents of the sources, every batch size, and any number of runs,       *)
(* requests, decisions and faults.                                         *)
(***************************************************************************)
EXTENDS Ingestion, FiniteSetTheorems, WellFoundedInduction, TLAPS

Phases == {"free", "scan", "fetch", "batch"}
Works  == UNION {[D -> Task] : D \in SUBSET Nat}
RunRecord ==
  [phase : Phases, tenant : Tenants, job : BOOLEAN, reruns : 0..RerunMax,
   todo : SUBSET Sources, source : Sources \cup {NoSource}, marker : Nat,
   files : SUBSET Nat, work : Works]
OrphanRecord == [file : Files, tenant : Tenants, task : Task]

\* The files a source holds or will hold, in checkpoint order.
Coming(s) == IF s \in Mailboxes THEN DOMAIN Mail[s] ELSE Nat \ {0}

\* The files whose document has an invoice, or that could not be read.
Has(i, f) == Document(invoices[i].file) = Document(f)
Handled ==
  {f \in Files : /\ f[2] \in Coming(f[1])
                 /\ f \in unread \/ \E i \in DOMAIN invoices : Has(i, f)}

\* What a run still has to do, and what it may have passed by then: given the
\* number of files of the sources and the files that are handled.
Ahead(r) == r.files \cup DOMAIN r.work
Passed(s, marker, handled) ==
  \A k \in Coming(s) : Marker(<<s, k>>) <= marker => <<s, k>> \in handled
Before(s, files, handled) ==
  \A n \in files, k \in Coming(s) :
    Marker(<<s, k>>) < Marker(<<s, n>>) => k \in files \/ <<s, k>> \in handled
FilesFine(r, handled) ==
  /\ r.phase = "fetch" => Passed(r.source, r.marker, handled)
  /\ r.phase = "batch" =>
       /\ Before(r.source, Ahead(r), handled)
       /\ \A n \in DOMAIN r.work :
             r.work[n].phase = "done" => <<r.source, n>> \in handled

Fine(r, files, handled) ==
  /\ r.todo \subseteq SourcesOf(r.tenant)
  /\ r.phase \in {"fetch", "batch"} => r.source \in SourcesOf(r.tenant)
  /\ r.phase # "batch" => DOMAIN r.work = {}
  /\ r.phase = "batch" => /\ Ahead(r) \subseteq 1..files[r.source]
                          /\ \A n \in DOMAIN r.work, m \in r.files : n < m
  /\ FilesFine(r, handled)

\* The parts of the invariant.
SourcesOK ==
  /\ arrived \in [Sources -> Nat]
  /\ \A m \in Mailboxes : arrived[m] <= Len(Mail[m])
  /\ checkpoint \in [Sources -> [Tenants -> Nat]]
  /\ unread \subseteq Tenants \X Nat
JobsTyped ==
  /\ run \in [Slots -> RunRecord]
  /\ state \in [Tenants -> States]
  /\ running \in [Tenants -> BOOLEAN] /\ pending \in [Tenants -> BOOLEAN]
  /\ asked \in [Tenants -> BOOLEAN] /\ pauseAsked \in BOOLEAN
JobsOK == JobsTyped /\ RunningMeansOneJob /\ RequestIsRemembered
OrphansOK ==
  \A o \in orphans : o \in OrphanRecord /\ o.file[2] \in 1..arrived[o.file[1]]
RunsFine == \A s \in Slots : Fine(run[s], arrived, Handled)
Covered == \A s \in Sources, t \in Tenants : Passed(s, checkpoint[s][t], Handled)

\* An invoice is that of a file there is; with a message, it has the document
\* id of that message.
InvoiceFits(inv) ==
  /\ inv.file[2] \in Coming(inv.file[1])
  /\ inv.message # NoMessage => Document(inv.file) = <<NoSource, inv.message[2]>>
DocsOK == /\ invoices \in Seq(Invoice)
          /\ \A i \in DOMAIN invoices : InvoiceFits(invoices[i])

IInv ==
  /\ SourcesOK /\ DocsOK /\ desk \subseteq Decision
  /\ JobsOK /\ OrphansOK /\ RunsFine /\ Covered

-----------------------------------------------------------------------------
(* Files and documents.                                                    *)

LEMMA FileParts ==
  ASSUME NEW f \in Files
  PROVE  f[1] \in Sources /\ f[2] \in Nat /\ f = <<f[1], f[2]>>
  BY DEF Files

LEMMA MarkerType ==
  ASSUME SourcesOK, NEW f \in Files, f[2] \in 1..arrived[f[1]]
  PROVE  Marker(f) \in Nat
<1>1. CASE f[1] \in Mailboxes
  <2>1. Mail[f[1]] \in Seq(Nat \ {0}) /\ f[2] \in 1..Len(Mail[f[1]])
    BY <1>1, SourcesAssumption, FileParts DEF SourcesOK
  <2> QED
    BY <1>1, <2>1 DEF Marker
<1>2. CASE f[1] \notin Mailboxes
  BY <1>2, FileParts DEF Marker
<1> QED
  BY <1>1, <1>2

\* A message is a mailbox's, with the UID that is the document id.
LEMMA MessageParts ==
  ASSUME NEW f \in Files
  PROVE  Message(f) # NoMessage => Document(f) = <<NoSource, Message(f)[2]>>
  BY DEF Message, Document

LEMMA ComingType ==
  ASSUME NEW s \in Sources, NEW n \in Coming(s)
  PROVE  n \in Nat \ {0} /\ Marker(<<s, n>>) \in Nat \ {0}
<1>1. s \in Mailboxes => Mail[s] \in Seq(Nat \ {0})
  BY SourcesAssumption
<1> QED
  BY <1>1 DEF Coming, Marker

\* Markers follow the order of files.
LEMMA MarkerOrder ==
  ASSUME NEW s \in Sources, NEW k \in Coming(s), NEW n \in Coming(s),
         Marker(<<s, k>>) < Marker(<<s, n>>)
  PROVE  k < n
<1>1. k \in Nat /\ n \in Nat /\ Marker(<<s, k>>) \in Nat /\ Marker(<<s, n>>) \in Nat
  BY ComingType
<1>2. CASE s \in Mailboxes
  <2>1. k \in DOMAIN Mail[s] /\ n \in DOMAIN Mail[s] /\ Mail[s][k] < Mail[s][n]
    BY <1>2 DEF Coming, Marker
  <2>2. n <= k => Mail[s][n] <= Mail[s][k]
    BY <1>2, <2>1, SourcesAssumption
  <2>3. Mail[s][n] \in Nat /\ Mail[s][k] \in Nat
    BY <1>1, <1>2 DEF Marker
  <2> QED
    BY <1>1, <2>1, <2>2, <2>3
<1>3. CASE s \notin Mailboxes
  BY <1>3 DEF Marker
<1> QED
  BY <1>2, <1>3

\* No other file has the document id of an upload.
LEMMA UploadIds ==
  ASSUME NEW f \in Files, NEW g \in Files, f[1] \in Tenants
  PROVE  Document(g) = Document(f) => g = f
<1>1. f[1] \notin Mailboxes /\ f[1] # NoSource
  BY SourcesAssumption DEF Sources
<1>2. CASE g[1] \in Mailboxes
  <2>1. Document(g)[1] = NoSource
    BY <1>2 DEF Document
  <2> QED
    BY <1>1, <2>1 DEF Document
<1>3. CASE g[1] \notin Mailboxes
  BY <1>1, <1>3 DEF Document
<1> QED
  BY <1>2, <1>3

\* A file that has arrived is one of those its source will hold.
LEMMA ArrivedComes ==
  ASSUME SourcesOK, NEW s \in Sources, NEW n \in 1..arrived[s]
  PROVE  n \in Coming(s) /\ <<s, n>> \in Files
<1>1. arrived[s] \in Nat /\ (s \in Mailboxes => arrived[s] <= Len(Mail[s]))
  BY DEF SourcesOK
<1>2. s \in Mailboxes => Mail[s] \in Seq(Nat \ {0})
  BY SourcesAssumption
<1>3. s \in Mailboxes => n \in DOMAIN Mail[s]
  BY <1>1, <1>2
<1> QED
  BY <1>1, <1>3 DEF Coming, Files

LEMMA StoredType ==
  ASSUME SourcesOK, NEW f \in Files, f[2] \in 1..arrived[f[1]], NEW t \in Tenants
  PROVE  /\ Stored(f, t) \in Invoice /\ Stored(f, t).file = f
         /\ InvoiceFits(Stored(f, t))
<1>1. Message(f) \in (Mailboxes \X Nat) \cup {NoMessage}
  BY MarkerType DEF Message
<1>2. Stored(f, t) \in Invoice
  BY <1>1 DEF Stored, Invoice, Statuses
<1>3. f[2] \in Coming(f[1])
  BY FileParts, ArrivedComes
<1> QED
  BY <1>2, <1>3, MessageParts DEF Stored, InvoiceFits

LEMMA FailedType ==
  ASSUME DocsOK, NEW f \in Files, f[2] \in Coming(f[1]), NEW t \in Tenants,
         NEW i \in DOMAIN invoices, Matches(i, f)
  PROVE  /\ Failed(i, f, t) \in Invoice /\ Failed(i, f, t).file = f
         /\ InvoiceFits(Failed(i, f, t))
<1>1. invoices[i] \in Invoice /\ InvoiceFits(invoices[i])
  BY DEF DocsOK
<1>2. Failed(i, f, t) \in Invoice /\ Failed(i, f, t).file = f
      /\ Failed(i, f, t).message = invoices[i].message
  BY <1>1 DEF Failed, Invoice, Statuses
<1> QED
  BY <1>1, <1>2 DEF InvoiceFits, Matches

\* A file whose document has an invoice is handled, if it is one of its source.
LEMMA HasIsHandled ==
  ASSUME NEW f \in Files, f[2] \in Coming(f[1]), NEW i \in DOMAIN invoices, Has(i, f)
  PROVE  f \in Handled
  BY DEF Handled

\* A marker stands for one document of its source.
LEMMA SameMarker ==
  ASSUME SourcesOK, NEW s \in Sources, NEW k \in Coming(s), NEW n \in Coming(s),
         Marker(<<s, k>>) = Marker(<<s, n>>), <<s, n>> \in Handled
  PROVE  <<s, k>> \in Handled
<1>1. <<s, k>> \in Files
  BY ComingType DEF Files
<1>2. CASE s \in Mailboxes
  <2>1. <<s, n>> \notin unread
    BY <1>2, SourcesAssumption DEF SourcesOK
  <2>2. PICK i \in DOMAIN invoices : Has(i, <<s, n>>)
    BY <2>1 DEF Handled
  <2>3. Has(i, <<s, k>>)
    BY <1>2, <2>2 DEF Has, Document
  <2> QED
    BY <1>1, <2>3, HasIsHandled
<1>3. CASE s \notin Mailboxes
  BY <1>3 DEF Marker
<1> QED
  BY <1>2, <1>3

\* Invoices whose documents stay leave handled what was.
LEMMA SameDocuments ==
  ASSUME UNCHANGED unread, DOMAIN invoices \subseteq DOMAIN invoices',
         \A i \in DOMAIN invoices :
           Document(invoices'[i].file) = Document(invoices[i].file)
  PROVE  Handled \subseteq Handled'
  BY DEF Handled, Has

\* An invoice overwritten for a file with its document id keeps that document.
LEMMA OverwriteKeeps ==
  ASSUME DocsOK, NEW f \in Files, f[2] \in Coming(f[1]),
         NEW i \in DOMAIN invoices, Matches(i, f),
         NEW d \in Invoice, d.file = f, InvoiceFits(d),
         invoices' = [invoices EXCEPT ![i] = d], UNCHANGED unread
  PROVE  DocsOK' /\ Handled \subseteq Handled' /\ f \in Handled'
<1>1. /\ invoices' \in Seq(Invoice) /\ DOMAIN invoices' = DOMAIN invoices
      /\ invoices'[i] = d
      /\ \A j \in DOMAIN invoices \ {i} : invoices'[j] = invoices[j]
  BY DEF DocsOK
<1>2. DocsOK'
  BY <1>1 DEF DocsOK
<1>3. \A j \in DOMAIN invoices : Document(invoices'[j].file) = Document(invoices[j].file)
  BY <1>1 DEF Matches
<1>4. Handled \subseteq Handled'
  BY <1>1, <1>3, SameDocuments
<1> QED
  BY <1>1, <1>2, <1>4 DEF Handled, Has

\* So for an invoice that is added.
LEMMA AddKeeps ==
  ASSUME DocsOK, NEW f \in Files, f[2] \in Coming(f[1]),
         NEW d \in Invoice, d.file = f, InvoiceFits(d),
         invoices' = Append(invoices, d), UNCHANGED unread
  PROVE  DocsOK' /\ Handled \subseteq Handled' /\ f \in Handled'
<1>1. /\ invoices' \in Seq(Invoice) /\ Len(invoices) + 1 \in DOMAIN invoices'
      /\ invoices'[Len(invoices) + 1] = d
      /\ \A j \in DOMAIN invoices :
           j \in DOMAIN invoices' /\ invoices'[j] = invoices[j]
      /\ DOMAIN invoices' = DOMAIN invoices \cup {Len(invoices) + 1}
  BY DEF DocsOK
<1>2. DocsOK'
  BY <1>1 DEF DocsOK
<1>3. Handled \subseteq Handled'
  BY <1>1, SameDocuments
<1> QED
  BY <1>1, <1>2, <1>3 DEF Handled, Has

\* What is found by its message, by the duplicate check or by the unique
\* index, has the document of the file.
LEMMA MessageIsHandled ==
  ASSUME DocsOK, NEW f \in Files, f[2] \in Coming(f[1]), Message(f) # NoMessage,
         NEW i \in DOMAIN invoices, invoices[i].message = Message(f)
  PROVE  f \in Handled
<1>1. Document(invoices[i].file) = <<NoSource, Message(f)[2]>>
  BY DEF DocsOK, InvoiceFits
<1> QED
  BY <1>1, MessageParts, HasIsHandled DEF Has

\* A step of a file: the documents stay documents, no file loses its invoice,
\* and a file is done only when it is handled.
LEMMA FileStepDocs ==
  ASSUME SourcesOK, DocsOK, NEW f \in Files,
         f[2] \in 1..arrived[f[1]], NEW t \in Tenants, NEW task \in Task,
         NEW new \in Task, FileStep(f, t, task, new), UNCHANGED unread
  PROVE  /\ DocsOK' /\ Handled \subseteq Handled'
         /\ new.phase = "done" => f \in Handled'
<1>0. f[2] \in Coming(f[1])
  BY FileParts, ArrivedComes
<1>1. CASE UNCHANGED invoices
  <2>1. Handled' = Handled
    BY <1>1 DEF Handled, Has
  <2>2. ASSUME new.phase = "done"
        PROVE  f \in Handled
    <3>1. KnownMessage(f, t) => f \in Handled
      BY <1>0, MessageIsHandled DEF KnownMessage
    <3>2. \A except : Clash(f, except) => f \in Handled
      BY <1>0, MessageIsHandled DEF Clash
    <3>3. CASE Check(f, t, task, new)
      <4>1. Check(f, t, task, new) /\ ~KnownMessage(f, t)
              => \E ok : new = [phase |-> "upsert", ok |-> ok]
        BY DEF Check
      <4> QED
        BY <2>2, <3>1, <3>3, <4>1
    <3>4. ~StoreFails(task, new)
      BY <2>2 DEF StoreFails
    <3>5. CASE Upsert(f, t, task, new)
      <4>1. \E i \in DOMAIN invoices : Matches(i, f)
        BY <2>2, <3>5 DEF Upsert, Task
      <4> QED
        BY <1>0, <4>1, HasIsHandled DEF Matches, Has
    <3>6. CASE Create(f, t, task, new)
      <4>1. Len(Append(invoices, Stored(f, t))) # Len(invoices)
        BY StoredType DEF DocsOK
      <4>2. Clash(f, {})
        BY <1>1, <3>6, <4>1 DEF Create
      <4> QED
        BY <3>2, <4>2
    <3> QED
      BY <3>3, <3>4, <3>5, <3>6 DEF FileStep
  <2> QED
    BY <1>1, <2>1, <2>2 DEF DocsOK
<1>2. CASE \E i \in DOMAIN invoices :
             Matches(i, f) /\ invoices' = [invoices EXCEPT ![i] = Failed(i, f, t)]
  <2>1. PICK i \in DOMAIN invoices :
          Matches(i, f) /\ invoices' = [invoices EXCEPT ![i] = Failed(i, f, t)]
    BY <1>2
  <2>2. /\ Failed(i, f, t) \in Invoice /\ Failed(i, f, t).file = f
        /\ InvoiceFits(Failed(i, f, t))
    BY <1>0, <2>1, FailedType
  <2> QED
    BY <1>0, <2>1, <2>2, OverwriteKeeps
<1>3. CASE \E i \in DOMAIN invoices :
             Matches(i, f) /\ invoices' = [invoices EXCEPT ![i] = Stored(f, t)]
  <2>1. PICK i \in DOMAIN invoices :
          Matches(i, f) /\ invoices' = [invoices EXCEPT ![i] = Stored(f, t)]
    BY <1>3
  <2>2. /\ Stored(f, t) \in Invoice /\ Stored(f, t).file = f
        /\ InvoiceFits(Stored(f, t))
    BY StoredType
  <2> QED
    BY <1>0, <2>1, <2>2, OverwriteKeeps
<1>4. CASE invoices' = Append(invoices, Stored(f, t))
  BY <1>0, <1>4, StoredType, AddKeeps
<1>5. Check(f, t, task, new) \/ StoreFails(task, new) => UNCHANGED invoices
  BY DEF Check, StoreFails
<1>6. Create(f, t, task, new) =>
        UNCHANGED invoices \/ invoices' = Append(invoices, Stored(f, t))
  BY DEF Create
<1>7. Upsert(f, t, task, new) =>
        \/ UNCHANGED invoices
        \/ \E i \in DOMAIN invoices : Matches(i, f) /\
             \/ invoices' = [invoices EXCEPT ![i] = Failed(i, f, t)]
             \/ invoices' = [invoices EXCEPT ![i] = Stored(f, t)]
  BY DEF Upsert
<1> QED
  BY <1>1, <1>2, <1>3, <1>4, <1>5, <1>6, <1>7 DEF FileStep

-----------------------------------------------------------------------------
(* Runs and jobs.                                                          *)

IsJob(r, t) == r.phase # "free" /\ r.job /\ r.tenant = t

\* A run that has not fetched anything, or a free slot.
Begun(r) == /\ r \in RunRecord /\ r.phase \in {"free", "scan"}
            /\ r.todo \subseteq SourcesOf(r.tenant) /\ DOMAIN r.work = {}

LEMMA BegunIsFine ==
  ASSUME NEW r, Begun(r), NEW files, NEW handled
  PROVE  Fine(r, files, handled)
  BY DEF Begun, Fine, FilesFine

LEMMA SourcesOfType ==
  ASSUME NEW t \in Tenants
  PROVE  SourcesOf(t) \subseteq Sources /\ t \in SourcesOf(t)
         /\ SourcesOf(t) \cap Tenants = {t}
<1>1. SourcesOf(t) \subseteq Mailboxes \cup {t} /\ t \in SourcesOf(t)
  BY DEF SourcesOf
<1> QED
  BY <1>1, SourcesAssumption DEF Sources

LEMMA NoWorkType == NoWork \in Works /\ DOMAIN NoWork = {}
<1>1. NoWork \in [{} -> Task] /\ DOMAIN NoWork = {}
  BY DEF NoWork
<1>2. {} \in SUBSET Nat
  OBVIOUS
<1> QED
  BY <1>1, <1>2 DEF Works

LEMMA NewRunBegun ==
  ASSUME NEW t \in Tenants, NEW job \in BOOLEAN, NEW n \in 0..RerunMax
  PROVE  LET r == NewRun(t, job, n, SourcesOf(t)) IN
           Begun(r) /\ r.phase = "scan" /\ r.job = job /\ r.tenant = t
<1>1. SourcesOf(t) \in SUBSET Sources
  BY SourcesOfType
<1> QED
  BY <1>1, NoWorkType DEF NewRun, Begun, RunRecord, Phases

LEMMA FreeBegun == Begun(Free) /\ Free.phase = "free"
<1>1. SomeTenant \in Tenants
  BY SourcesAssumption DEF SomeTenant
<1>2. 0 \in 0..RerunMax
  BY BoundsAssumption
<1> QED
  BY <1>1, <1>2, NoWorkType DEF Free, NewRun, Begun, RunRecord, Phases

\* RunningMeansOneJob in terms of slots, now and after a step.
LEMMA OneJob ==
  RunningMeansOneJob <=>
    \A t \in Tenants :
      /\ running[t] <=> \E s \in Slots : IsJob(run[s], t)
      /\ \A r, s \in Slots : IsJob(run[r], t) /\ IsJob(run[s], t) => r = s
<1>1. \A t : JobsOf(t) = {s \in Slots : IsJob(run[s], t)}
  BY DEF JobsOf, Active, IsJob
<1> QED
  BY <1>1 DEF RunningMeansOneJob

LEMMA OneJobNext ==
  RunningMeansOneJob' <=>
    \A t \in Tenants :
      /\ running'[t] <=> \E s \in Slots : IsJob(run'[s], t)
      /\ \A r, s \in Slots : IsJob(run'[r], t) /\ IsJob(run'[s], t) => r = s
<1>1. \A t : JobsOf(t)' = {s \in Slots : IsJob(run'[s], t)}
  BY DEF JobsOf, Active, IsJob
<1> QED
  BY <1>1 DEF RunningMeansOneJob

\* A slot that is free, or has the tenant's job, begins a job of the tenant.
LEMMA StartKeeps ==
  ASSUME JobsOK, NEW s \in Slots, NEW t \in Tenants, NEW n \in 0..RerunMax,
         StartJob(s, t, n), pending' = [pending EXCEPT ![t] = FALSE],
         run[s].phase = "free" \/ IsJob(run[s], t),
         \A r \in Slots \ {s} : ~IsJob(run[r], t)
  PROVE  JobsOK' /\ \E r : Begun(r) /\ run' = [run EXCEPT ![s] = r]
<1> DEFINE r == NewRun(t, TRUE, n, SourcesOf(t))
<1>1. Begun(r) /\ r.phase = "scan" /\ r.job = TRUE /\ r.tenant = t
  BY NewRunBegun
<1>2. /\ run' = [run EXCEPT ![s] = r] /\ pauseAsked' = FALSE
      /\ state' = [state EXCEPT ![t] = "running"]
      /\ running' = [running EXCEPT ![t] = TRUE]
      /\ asked' = [asked EXCEPT ![t] = FALSE]
  BY DEF StartJob, StartRun
<1> HIDE DEF r
<1>3. JobsTyped'
  BY <1>1, <1>2 DEF JobsOK, JobsTyped, Begun, States
<1>4. /\ run'[s] = r /\ \A q \in Slots \ {s} : run'[q] = run[q]
      /\ running'[t] = TRUE
      /\ \A u \in Tenants \ {t} : running'[u] = running[u]
  BY <1>2 DEF JobsOK, JobsTyped
<1>5. RunningMeansOneJob'
  <2> SUFFICES ASSUME NEW u \in Tenants
      PROVE /\ running'[u] <=> \E q \in Slots : IsJob(run'[q], u)
            /\ \A p, q \in Slots : IsJob(run'[p], u) /\ IsJob(run'[q], u) => p = q
    BY OneJobNext
  <2>1. CASE u = t
    BY <1>1, <1>4, <2>1 DEF IsJob
  <2>2. CASE u # t
    <3>1. \A q \in Slots : IsJob(run'[q], u) <=> IsJob(run[q], u)
      BY <1>1, <1>4, <2>2 DEF IsJob
    <3>2. /\ running[u] <=> \E q \in Slots : IsJob(run[q], u)
          /\ \A p, q \in Slots : IsJob(run[p], u) /\ IsJob(run[q], u) => p = q
      BY OneJob DEF JobsOK
    <3> QED
      BY <1>4, <2>2, <3>1, <3>2
  <2> QED
    BY <2>1, <2>2
<1>6. RequestIsRemembered'
  BY <1>2 DEF JobsOK, JobsTyped, RequestIsRemembered
<1> QED
  BY <1>1, <1>2, <1>3, <1>5, <1>6 DEF JobsOK

\* The job of a slot stops.
LEMMA StopKeeps ==
  ASSUME JobsOK, NEW s \in Slots, NEW t \in Tenants, NEW final \in States,
         IsJob(run[s], t), StopJob(s, t, final),
         asked' = [asked EXCEPT ![t] = FALSE]
  PROVE  JobsOK' /\ \E r : Begun(r) /\ run' = [run EXCEPT ![s] = r]
<1>1. Begun(Free) /\ Free.phase = "free"
  BY FreeBegun
<1>2. /\ run' = [run EXCEPT ![s] = Free] /\ UNCHANGED pauseAsked
      /\ state' = [state EXCEPT ![t] = final]
      /\ running' = [running EXCEPT ![t] = FALSE]
      /\ pending' = [pending EXCEPT ![t] = FALSE]
  BY DEF StopJob
<1>3. JobsTyped'
  BY <1>1, <1>2 DEF JobsOK, JobsTyped, Begun
<1>4. /\ run'[s] = Free /\ \A q \in Slots \ {s} : run'[q] = run[q]
      /\ running'[t] = FALSE
      /\ \A u \in Tenants \ {t} : running'[u] = running[u]
  BY <1>2 DEF JobsOK, JobsTyped
<1>5. RunningMeansOneJob'
  <2> SUFFICES ASSUME NEW u \in Tenants
      PROVE /\ running'[u] <=> \E q \in Slots : IsJob(run'[q], u)
            /\ \A p, q \in Slots : IsJob(run'[p], u) /\ IsJob(run'[q], u) => p = q
    BY OneJobNext
  <2>1. /\ running[u] <=> \E q \in Slots : IsJob(run[q], u)
        /\ \A p, q \in Slots : IsJob(run[p], u) /\ IsJob(run[q], u) => p = q
    BY OneJob DEF JobsOK
  <2>2. ~IsJob(run'[s], u)
    BY <1>1, <1>4 DEF IsJob
  <2>3. CASE u = t
    BY <1>4, <2>1, <2>2, <2>3
  <2>4. CASE u # t
    <3>1. \A q \in Slots : IsJob(run'[q], u) <=> IsJob(run[q], u)
      BY <1>1, <1>4, <2>4 DEF IsJob
    <3> QED
      BY <1>4, <2>1, <2>4, <3>1
  <2> QED
    BY <2>3, <2>4
<1>6. RequestIsRemembered'
  BY <1>2 DEF JobsOK, JobsTyped, RequestIsRemembered
<1> QED
  BY <1>1, <1>2, <1>3, <1>5, <1>6 DEF JobsOK

\* A run that is not a job begins in a free slot, or goes on, or ends; and a
\* job's run goes on.
LEMMA OtherRunKeeps ==
  ASSUME JobsOK, NEW s \in Slots, NEW r \in RunRecord,
         run' = [run EXCEPT ![s] = r],
         \A t \in Tenants : IsJob(r, t) <=> IsJob(run[s], t),
         state' \in [Tenants -> States], pauseAsked' \in BOOLEAN,
         UNCHANGED <<running, pending, asked>>
  PROVE  JobsOK'
<1>1. JobsTyped'
  BY DEF JobsOK, JobsTyped
<1>2. run'[s] = r /\ \A q \in Slots \ {s} : run'[q] = run[q]
  BY DEF JobsOK, JobsTyped
<1>3. \A t \in Tenants, q \in Slots : IsJob(run'[q], t) <=> IsJob(run[q], t)
  BY <1>2
<1>4. RunningMeansOneJob'
  BY <1>3, OneJob, OneJobNext DEF JobsOK
<1>5. RequestIsRemembered'
  BY DEF JobsOK, RequestIsRemembered
<1> QED
  BY <1>1, <1>4, <1>5 DEF JobsOK

\* The end of a run, whoever started it.
LEMMA EndKeeps ==
  ASSUME JobsOK, NEW s \in Slots, run[s].phase # "free", NEW final \in States,
         EndRun(s, final)
  PROVE  JobsOK' /\ \E r : Begun(r) /\ run' = [run EXCEPT ![s] = r]
<1> DEFINE t == run[s].tenant
<1>1. run[s] \in RunRecord
  BY DEF JobsOK, JobsTyped
<1>2. t \in Tenants /\ run[s].job \in BOOLEAN /\ run[s].reruns \in 0..RerunMax
  BY <1>1 DEF RunRecord
<1>3. CASE ~run[s].job
  <2>1. run' = [run EXCEPT ![s] = Free] /\ UNCHANGED jobVars
    BY <1>3 DEF EndRun
  <2>2. Free \in RunRecord /\ \A u \in Tenants : ~IsJob(Free, u) /\ ~IsJob(run[s], u)
    BY <1>3, FreeBegun DEF Begun, IsJob
  <2>3. JobsOK'
    BY <2>1, <2>2, OtherRunKeeps DEF jobVars, JobsOK, JobsTyped
  <2> QED
    BY <2>1, <2>3, FreeBegun
<1>4. CASE run[s].job /\ final # "completed"
  <2>1. StopJob(s, t, final) /\ asked' = [asked EXCEPT ![t] = FALSE]
    BY <1>4 DEF EndRun
  <2>2. IsJob(run[s], t)
    BY <1>4 DEF IsJob
  <2> HIDE DEF t
  <2> QED
    BY <1>2, <2>1, <2>2, StopKeeps
<1>5. CASE run[s].job /\ final = "completed"
  <2>1. Complete(s, t)
    BY <1>5 DEF EndRun
  <2>2. IsJob(run[s], t)
    BY <1>5 DEF IsJob
  <2>3. \A q \in Slots \ {s} : ~IsJob(run[q], t)
    BY <1>2, <2>2, OneJob DEF JobsOK
  <2>4. CASE pending[t] /\ run[s].reruns < RerunMax
    <3>1. /\ StartJob(s, t, run[s].reruns + 1)
          /\ pending' = [pending EXCEPT ![t] = FALSE]
      BY <2>1, <2>4 DEF Complete
    <3>2. run[s].reruns + 1 \in 0..RerunMax
      BY <1>2, <2>4, BoundsAssumption
    <3> HIDE DEF t
    <3> QED
      BY <1>2, <2>2, <2>3, <3>1, <3>2, StartKeeps
  <2>5. CASE ~(pending[t] /\ run[s].reruns < RerunMax)
    <3>1. /\ StopJob(s, t, "completed")
          /\ asked' = [asked EXCEPT ![t] = @ /\ run[s].reruns < RerunMax]
      BY <2>1, <2>5 DEF Complete
    <3>2. (asked[t] /\ run[s].reruns < RerunMax) = FALSE
      BY <1>2, <2>5 DEF JobsOK, RequestIsRemembered
    <3>3. asked' = [asked EXCEPT ![t] = FALSE]
      BY <3>1, <3>2
    <3>4. "completed" \in States
      BY DEF States
    <3> HIDE DEF t
    <3> QED
      BY <1>2, <2>2, <3>1, <3>3, <3>4, StopKeeps
  <2> QED
    BY <2>4, <2>5
<1> QED
  BY <1>2, <1>3, <1>4, <1>5

\* The first of a set of files.
LEMMA FirstExists ==
  ASSUME NEW D \in SUBSET Nat, D # {}
  PROVE  \E k \in D : \A m \in D : k <= m
<1>1. PICK k \in D : \A m \in D : ~(<<m, k>> \in OpToRel(<, Nat))
  BY NatLessThanWellFounded, WFMin
<1>2. \A m \in D : m \in Nat /\ k \in Nat
  OBVIOUS
<1>3. \A m \in D : ~(m < k)
  BY <1>1, <1>2 DEF OpToRel
<1> QED
  BY <1>2, <1>3

\* The files of a batch come before those that are left.
LEMMA NextBatchOrder ==
  ASSUME NEW files \in SUBSET Nat
  PROVE  /\ NextBatch(files) \subseteq files
         /\ \A n \in NextBatch(files), m \in files \ NextBatch(files) : n < m
<1>1. NextBatch(files) \subseteq files
  BY DEF NextBatch
<1>2. ASSUME NEW n \in NextBatch(files), NEW m \in files \ NextBatch(files),
             ~(n < m)
      PROVE  FALSE
  <2> DEFINE A == {k \in files : k < m}
             B == {k \in files : k < n}
  <2>1. n \in files /\ m \in files
    BY <1>1
  <2>2. n \in Nat /\ m \in Nat /\ m <= n
    BY <1>2, <2>1
  <2>3. A \subseteq B
    <3> SUFFICES ASSUME NEW k \in files, k < m PROVE k < n
      OBVIOUS
    <3>1. k \in Nat
      OBVIOUS
    <3> QED
      BY <2>2, <3>1
  <2>4. B \subseteq 0..n
    <3> SUFFICES ASSUME NEW k \in files, k < n PROVE k \in 0..n
      OBVIOUS
    <3>1. k \in Nat
      OBVIOUS
    <3> QED
      BY <2>2, <3>1
  <2>5. Cardinality(B) < BatchSize /\ ~(Cardinality(A) < BatchSize)
    BY <2>1 DEF NextBatch
  <2> HIDE DEF A, B
  <2>6. IsFiniteSet(0..n)
    BY <2>2, FS_Interval
  <2>7. IsFiniteSet(B)
    BY <2>4, <2>6, FS_Subset
  <2>8. IsFiniteSet(A) /\ Cardinality(A) <= Cardinality(B)
    BY <2>3, <2>7, FS_Subset
  <2>9. Cardinality(A) \in Nat /\ Cardinality(B) \in Nat
    BY <2>7, <2>8, FS_CardinalityType
  <2> QED
    BY <2>5, <2>8, <2>9, BoundsAssumption
<1> QED
  BY <1>1, <1>2

LEMMA WorkType ==
  ASSUME NEW w \in Works
  PROVE  /\ DOMAIN w \subseteq Nat /\ \A n \in DOMAIN w : w[n] \in Task
         /\ \A n \in DOMAIN w, new \in Task : [w EXCEPT ![n] = new] \in Works
         /\ \A n : [m \in DOMAIN w \ {n} |-> w[m]] \in Works
<1>1. PICK D \in SUBSET Nat : w \in [D -> Task]
  BY DEF Works
<1>2. \A n \in D, new \in Task : [w EXCEPT ![n] = new] \in [D -> Task]
  BY <1>1
<1>3. \A n : [m \in D \ {n} |-> w[m]] \in [D \ {n} -> Task] /\ D \ {n} \in SUBSET Nat
  BY <1>1
<1> QED
  BY <1>1, <1>2, <1>3 DEF Works

LEMMA ProgressType ==
  ASSUME JobsTyped, NEW s \in Slots, Progress(s)
  PROVE  state' \in [Tenants -> States]
  BY DEF Progress, JobsTyped, States

\* What a run has fetched and not yet put into a batch.
Ready(r, files, handled) ==
  /\ r.todo \subseteq SourcesOf(r.tenant) /\ r.source \in SourcesOf(r.tenant)
  /\ r.files \subseteq 1..files[r.source]
  /\ Before(r.source, r.files, handled)

LEMMA GoOnKeeps ==
  ASSUME JobsOK, NEW s \in Slots, run[s].phase # "free", NEW r \in RunRecord,
         r.phase # "free", r.tenant = run[s].tenant, r.job = run[s].job,
         GoOn(s, r), NEW files, NEW handled, Ready(r, files, handled)
  PROVE  JobsOK' /\ \E q : run' = [run EXCEPT ![s] = q] /\ Fine(q, files, handled)
<1>1. CASE r.files # {}
  <2> DEFINE batch == NextBatch(r.files)
             work == [n \in batch |-> NewTask]
             q == [r EXCEPT !.phase = "batch", !.files = @ \ batch, !.work = work]
  <2>1. /\ run' = [run EXCEPT ![s] = q] /\ Progress(s)
        /\ UNCHANGED <<running, pending, pauseAsked, asked>>
    BY <1>1 DEF GoOn
  <2>2. /\ r.files \in SUBSET Nat /\ batch \subseteq r.files
        /\ \A n \in batch, m \in r.files \ batch : n < m
    BY NextBatchOrder DEF RunRecord
  <2>3. DOMAIN work = batch /\ \A n \in batch : work[n].phase # "done"
    BY DEF NewTask
  <2>4. work \in Works
    <3>1. work \in [batch -> Task] /\ batch \in SUBSET Nat
      BY <2>2 DEF NewTask, Task, TaskPhases
    <3> QED
      BY <3>1 DEF Works
  <2> HIDE DEF batch, work
  <2>5. /\ q \in RunRecord /\ q.phase = "batch" /\ q.files = r.files \ batch
        /\ q.work = work /\ q.tenant = r.tenant /\ q.job = r.job
        /\ q.todo = r.todo /\ q.source = r.source
    BY <2>2, <2>4 DEF RunRecord, Phases
  <2> HIDE DEF q
  <2>6. Ahead(q) = r.files
    BY <2>2, <2>3, <2>5 DEF Ahead
  <2>7. Fine(q, files, handled)
    BY <2>2, <2>3, <2>5, <2>6 DEF Fine, FilesFine, Ready
  <2>8. JobsOK'
    <3>1. \A t \in Tenants : IsJob(q, t) <=> IsJob(run[s], t)
      BY <2>5 DEF IsJob
    <3>2. state' \in [Tenants -> States] /\ pauseAsked' \in BOOLEAN
      BY <2>1, ProgressType DEF JobsOK, JobsTyped
    <3> QED
      BY <2>1, <2>5, <3>1, <3>2, OtherRunKeeps
  <2> QED
    BY <2>1, <2>7, <2>8
<1>2. CASE r.files = {} /\ r.todo # {}
  <2> DEFINE q == [r EXCEPT !.phase = "scan", !.work = NoWork]
  <2>1. /\ run' = [run EXCEPT ![s] = q] /\ Progress(s)
        /\ UNCHANGED <<running, pending, pauseAsked, asked>>
    BY <1>2 DEF GoOn
  <2>2. /\ q \in RunRecord /\ q.phase = "scan" /\ q.work = NoWork
        /\ q.tenant = r.tenant /\ q.job = r.job /\ q.todo = r.todo
    BY NoWorkType DEF RunRecord, Phases
  <2> HIDE DEF q
  <2>3. Begun(q)
    BY <2>2, NoWorkType DEF Begun, Ready
  <2>4. JobsOK'
    <3>1. \A t \in Tenants : IsJob(q, t) <=> IsJob(run[s], t)
      BY <2>2 DEF IsJob
    <3>2. state' \in [Tenants -> States] /\ pauseAsked' \in BOOLEAN
      BY <2>1, ProgressType DEF JobsOK, JobsTyped
    <3> QED
      BY <2>1, <2>2, <3>1, <3>2, OtherRunKeeps
  <2> QED
    BY <2>1, <2>3, <2>4, BegunIsFine
<1>3. CASE r.files = {} /\ r.todo = {}
  <2>1. EndRun(s, "completed") /\ "completed" \in States
    BY <1>3 DEF GoOn, States
  <2> QED
    BY <2>1, EndKeeps, BegunIsFine
<1> QED
  BY <1>1, <1>2, <1>3

-----------------------------------------------------------------------------
(* Putting the invariant together again.                                   *)

LEMMA FineGrows ==
  ASSUME NEW r \in RunRecord, NEW files \in [Sources -> Nat],
         NEW more \in [Sources -> Nat], NEW handled, NEW after,
         \A x \in Sources : files[x] <= more[x], handled \subseteq after,
         Fine(r, files, handled)
  PROVE  Fine(r, more, after)
<1>1. SourcesOf(r.tenant) \subseteq Sources
  BY SourcesOfType DEF RunRecord
<1>2. r.phase = "batch" => Ahead(r) \subseteq 1..more[r.source]
  <2> SUFFICES ASSUME r.phase = "batch", NEW n \in Ahead(r)
               PROVE  n \in 1..more[r.source]
    OBVIOUS
  <2>1. n \in 1..files[r.source] /\ r.source \in Sources
    BY <1>1 DEF Fine
  <2> QED
    BY <2>1
<1>3. FilesFine(r, handled) => FilesFine(r, after)
  BY DEF FilesFine, Passed, Before, Ahead
<1> QED
  BY <1>2, <1>3 DEF Fine

LEMMA RunsStayFine ==
  ASSUME IInv, SourcesOK', Handled \subseteq Handled',
         \A x \in Sources : arrived[x] <= arrived'[x],
         \A s \in Slots : run'[s] = run[s] \/ Fine(run'[s], arrived', Handled')
  PROVE  RunsFine'
<1> SUFFICES ASSUME NEW s \in Slots PROVE Fine(run'[s], arrived', Handled')
  BY DEF RunsFine
<1>1. CASE run'[s] = run[s]
  <2>1. run[s] \in RunRecord /\ Fine(run[s], arrived, Handled)
    BY DEF IInv, JobsOK, JobsTyped, RunsFine
  <2>2. arrived \in [Sources -> Nat] /\ arrived' \in [Sources -> Nat]
    BY DEF IInv, SourcesOK
  <2> QED
    BY <1>1, <2>1, <2>2, FineGrows
<1> QED
  BY <1>1

\* A step that writes no checkpoint.
LEMMA CoveredStays ==
  ASSUME IInv, Handled \subseteq Handled', UNCHANGED checkpoint
  PROVE  Covered'
  BY DEF IInv, Covered, Passed

LEMMA HandledStays ==
  ASSUME UNCHANGED invoices, unread \subseteq unread'
  PROVE  Handled \subseteq Handled'
  BY DEF Handled, Has

\* A step that changes nothing but runs, jobs and orphans.
LEMMA RunsKeep ==
  ASSUME IInv, JobsOK', OrphansOK', UNCHANGED <<dbVars, envVars, desk>>,
         \A q \in Slots : run'[q] = run[q] \/ Fine(run'[q], arrived, Handled)
  PROVE  IInv'
<1>1. Handled' = Handled
  BY DEF Handled, Has, dbVars, envVars
<1>2. \A q \in Slots : run'[q] = run[q] \/ Fine(run'[q], arrived', Handled')
  BY <1>1 DEF envVars
<1>3. SourcesOK' /\ DocsOK' /\ desk' \subseteq Decision
  BY DEF IInv, DocsOK, SourcesOK, dbVars, envVars
<1>4. \A x \in Sources : arrived[x] <= arrived'[x]
  BY DEF IInv, SourcesOK, envVars
<1>5. RunsFine'
  BY <1>1, <1>2, <1>3, <1>4, RunsStayFine
<1>6. Covered'
  BY <1>1, CoveredStays DEF dbVars
<1> QED
  BY <1>3, <1>5, <1>6 DEF IInv

\* The run of one slot.
LEMMA OneRun ==
  ASSUME IInv, NEW s \in Slots, NEW files, NEW handled,
         \E q : run' = [run EXCEPT ![s] = q] /\ Fine(q, files, handled)
  PROVE  \A q \in Slots : run'[q] = run[q] \/ Fine(run'[q], files, handled)
<1>1. PICK q : run' = [run EXCEPT ![s] = q] /\ Fine(q, files, handled)
  OBVIOUS
<1>2. run'[s] = q /\ \A x \in Slots \ {s} : run'[x] = run[x]
  BY <1>1 DEF IInv, JobsOK, JobsTyped
<1> QED
  BY <1>1, <1>2

LEMMA SameJobs ==
  ASSUME JobsOK, UNCHANGED <<jobVars, run>>
  PROVE  JobsOK'
<1>1. UNCHANGED <<run, state, running, pending, pauseAsked, asked>>
  BY DEF jobVars
<1> QED
  BY <1>1 DEF JobsOK, JobsTyped, RunningMeansOneJob, JobsOf, Active,
              RequestIsRemembered

LEMMA SameOrphans ==
  ASSUME IInv, UNCHANGED <<orphans, arrived>>
  PROVE  OrphansOK'
  BY DEF IInv, OrphansOK

LEMMA SlotType ==
  ASSUME HasSlot
  PROVE  AnySlot \in Slots /\ run[AnySlot].phase = "free"
  BY DEF HasSlot, AnySlot, Active

-----------------------------------------------------------------------------
(* The steps: requests and the environment.                                *)

LEMMA IngestKeeps ==
  ASSUME IInv, NEW t \in Tenants, Ingest(t)
  PROVE  IInv'
<1>0. JobsOK /\ UNCHANGED <<dbVars, envVars, orphans, desk>>
  BY DEF IInv, Ingest
<1>1. OrphansOK'
  BY <1>0, SameOrphans DEF envVars
<1>2. CASE running[t]
  <2>1. /\ pending' = [pending EXCEPT ![t] = TRUE]
        /\ asked' = [asked EXCEPT ![t] = TRUE]
        /\ UNCHANGED <<run, state, running, pauseAsked>>
    BY <1>2 DEF Ingest
  <2>2. JobsTyped' /\ RequestIsRemembered'
    BY <1>0, <1>2, <2>1 DEF JobsOK, JobsTyped, RequestIsRemembered
  <2>3. RunningMeansOneJob'
    BY <1>0, <2>1 DEF JobsOK, RunningMeansOneJob, JobsOf, Active
  <2> QED
    BY <1>0, <1>1, <2>1, <2>2, <2>3, RunsKeep DEF JobsOK
<1>3. CASE ~running[t]
  <2>1. HasSlot /\ StartJob(AnySlot, t, 0) /\ UNCHANGED pending
    BY <1>3 DEF Ingest
  <2>2. AnySlot \in Slots /\ run[AnySlot].phase = "free"
    BY <2>1, SlotType
  <2>3. pending[t] = FALSE
    BY <1>0, <1>3 DEF JobsOK, JobsTyped, RequestIsRemembered
  <2>4. pending' = [pending EXCEPT ![t] = FALSE]
    BY <1>0, <2>1, <2>3 DEF JobsOK, JobsTyped
  <2>5. \A r \in Slots : ~IsJob(run[r], t)
    BY <1>0, <1>3, OneJob DEF JobsOK
  <2>6. 0 \in 0..RerunMax
    BY BoundsAssumption
  <2>7. JobsOK' /\ \E r : Begun(r) /\ run' = [run EXCEPT ![AnySlot] = r]
    BY <1>0, <2>1, <2>2, <2>4, <2>5, <2>6, StartKeeps
  <2>8. \E r : run' = [run EXCEPT ![AnySlot] = r] /\ Fine(r, arrived, Handled)
    BY <2>7, BegunIsFine
  <2> QED
    BY <1>0, <1>1, <2>2, <2>7, <2>8, OneRun, RunsKeep
<1> QED
  BY <1>2, <1>3

LEMMA PauseKeeps ==
  ASSUME IInv, NEW t \in Tenants, Pause(t)
  PROVE  IInv'
<1>0. JobsOK /\ UNCHANGED <<running, run, dbVars, envVars, orphans, desk>>
  BY DEF IInv, Pause
<1>1. /\ pauseAsked' = TRUE /\ pending' = [pending EXCEPT ![t] = FALSE]
      /\ asked' = [asked EXCEPT ![t] = FALSE]
      /\ state' = [state EXCEPT ![t] = "paused"]
  BY DEF Pause
<1>2. JobsTyped'
  BY <1>0, <1>1 DEF JobsOK, JobsTyped, States
<1>3. RequestIsRemembered'
  BY <1>0, <1>1 DEF JobsOK, JobsTyped, RequestIsRemembered
<1>4. RunningMeansOneJob'
  BY <1>0 DEF JobsOK, RunningMeansOneJob, JobsOf, Active
<1>5. OrphansOK'
  BY <1>0, SameOrphans DEF envVars
<1> QED
  BY <1>0, <1>2, <1>3, <1>4, <1>5, RunsKeep DEF JobsOK

LEMMA PollKeeps ==
  ASSUME IInv, NEW t \in Tenants, Poll(t)
  PROVE  IInv'
<1> DEFINE r == NewRun(t, FALSE, 0, SourcesOf(t))
<1>0. /\ JobsOK /\ HasSlot /\ StartRun(AnySlot, t, FALSE, 0)
      /\ UNCHANGED <<state, running, pending, asked>>
      /\ UNCHANGED <<dbVars, envVars, orphans, desk>>
  BY DEF IInv, Poll
<1>1. AnySlot \in Slots /\ run[AnySlot].phase = "free"
  BY <1>0, SlotType
<1>2. run' = [run EXCEPT ![AnySlot] = r] /\ pauseAsked' \in BOOLEAN
  BY <1>0 DEF StartRun
<1>3. 0 \in 0..RerunMax
  BY BoundsAssumption
<1>4. Begun(r) /\ r.job = FALSE
  BY <1>3, NewRunBegun
<1> HIDE DEF r
<1>5. r \in RunRecord /\ \A u \in Tenants : IsJob(r, u) <=> IsJob(run[AnySlot], u)
  BY <1>1, <1>4 DEF Begun, IsJob
<1>6. state' \in [Tenants -> States]
  BY <1>0 DEF JobsOK, JobsTyped
<1>7. JobsOK'
  BY <1>0, <1>1, <1>2, <1>5, <1>6, OtherRunKeeps
<1>8. OrphansOK'
  BY <1>0, SameOrphans DEF envVars
<1>9. \E q : run' = [run EXCEPT ![AnySlot] = q] /\ Fine(q, arrived, Handled)
  BY <1>2, <1>4, BegunIsFine
<1> QED
  BY <1>0, <1>1, <1>7, <1>8, <1>9, OneRun, RunsKeep

\* Files are added to a source.
LEMMA ArriveKeeps ==
  ASSUME IInv, NEW x \in Sources, NEW k \in Nat, arrived[x] <= k,
         x \in Mailboxes => k <= Len(Mail[x]), arrived' = [arrived EXCEPT ![x] = k],
         UNCHANGED <<jobVars, dbVars, unread, run, orphans, desk>>
  PROVE  IInv'
<1>1. SourcesOK'
  BY DEF IInv, SourcesOK, dbVars
<1>2. \A y \in Sources : arrived[y] <= arrived'[y]
  BY DEF IInv, SourcesOK
<1>3. Handled' = Handled
  BY DEF Handled, Has, dbVars
<1>4. RunsFine'
  BY <1>1, <1>2, <1>3, RunsStayFine
<1>5. OrphansOK'
  <2> SUFFICES ASSUME NEW o \in orphans
      PROVE  o \in OrphanRecord /\ o.file[2] \in 1..arrived'[o.file[1]]
    BY DEF OrphansOK
  <2>1. o \in OrphanRecord /\ o.file[2] \in 1..arrived[o.file[1]]
    BY DEF IInv, OrphansOK
  <2>2. o.file \in Files
    BY <2>1 DEF OrphanRecord
  <2>3. o.file[1] \in Sources
    BY <2>2, FileParts
  <2>4. arrived[o.file[1]] \in Nat /\ arrived'[o.file[1]] \in Nat
    BY <1>1, <2>3 DEF IInv, SourcesOK
  <2> QED
    BY <1>2, <2>1, <2>3, <2>4
<1>6. Covered'
  BY <1>3, CoveredStays DEF dbVars
<1>7. JobsOK'
  BY SameJobs DEF IInv
<1> QED
  BY <1>1, <1>4, <1>5, <1>6, <1>7 DEF IInv, DocsOK, dbVars

LEMMA UploadKeeps ==
  ASSUME IInv, NEW t \in Tenants, Upload(t)
  PROVE  IInv'
<1>1. t \in Sources /\ t \notin Mailboxes
  BY SourcesAssumption DEF Sources
<1>2. arrived[t] \in Nat
  BY <1>1 DEF IInv, SourcesOK
<1>3. arrived' = [arrived EXCEPT ![t] = arrived[t] + 1]
  BY DEF Upload
<1>4. UNCHANGED <<jobVars, dbVars, unread, run, orphans, desk>>
  BY DEF Upload
<1>5. arrived[t] + 1 \in Nat /\ arrived[t] <= arrived[t] + 1
  BY <1>2
<1> QED
  BY <1>1, <1>3, <1>4, <1>5, ArriveKeeps

LEMMA MailKeeps ==
  ASSUME IInv, NEW m \in Mailboxes, MailArrives(m)
  PROVE  IInv'
<1>1. m \in Sources
  BY DEF Sources
<1>2. arrived[m] \in Nat /\ Len(Mail[m]) \in Nat
  BY <1>1, SourcesAssumption DEF IInv, SourcesOK
<1>3. PICK k \in arrived[m] + 1 .. Len(Mail[m]) : arrived' = [arrived EXCEPT ![m] = k]
  BY DEF MailArrives
<1>4. k \in Nat /\ arrived[m] <= k /\ k <= Len(Mail[m])
  BY <1>2, <1>3
<1>5. UNCHANGED <<jobVars, dbVars, unread, run, orphans, desk>>
  BY DEF MailArrives
<1> QED
  BY <1>1, <1>3, <1>4, <1>5, ArriveKeeps

-----------------------------------------------------------------------------
(* The steps of a run.                                                     *)

\* The parts of a run under way, used by every step.
LEMMA RunType ==
  ASSUME IInv, NEW s \in Slots
  PROVE  /\ JobsOK /\ run[s] \in RunRecord /\ Fine(run[s], arrived, Handled)
         /\ run[s].tenant \in Tenants /\ run[s].job \in BOOLEAN
         /\ run[s].files \in SUBSET Nat /\ run[s].work \in Works
         /\ run[s].todo \in SUBSET Sources /\ run[s].marker \in Nat
<1>1. JobsOK /\ run[s] \in RunRecord /\ Fine(run[s], arrived, Handled)
  BY DEF IInv, JobsOK, JobsTyped, RunsFine
<1> QED
  BY <1>1 DEF RunRecord

LEMMA ScanKeeps ==
  ASSUME IInv, NEW s \in Slots, Scan(s)
  PROVE  IInv'
<1> DEFINE r == run[s]
<1>0. /\ JobsOK /\ r \in RunRecord /\ Fine(r, arrived, Handled)
      /\ r.tenant \in Tenants /\ r.todo \in SUBSET Sources
  BY RunType
<1>1. PICK src \in r.todo :
        run' = [run EXCEPT ![s].phase = "fetch", ![s].source = src,
                           ![s].todo = @ \ {src},
                           ![s].marker = checkpoint[src][run[s].tenant]]
  BY DEF Scan
<1> DEFINE q == [r EXCEPT !.phase = "fetch", !.source = src, !.todo = @ \ {src},
                          !.marker = checkpoint[src][r.tenant]]
<1>2. run' = [run EXCEPT ![s] = q]
  BY <1>0, <1>1 DEF JobsOK, JobsTyped
<1>3. src \in Sources /\ checkpoint[src][r.tenant] \in Nat
  BY <1>0, <1>1 DEF IInv, SourcesOK
<1>4. /\ q \in RunRecord /\ q.phase = "fetch" /\ q.source = src
      /\ q.todo = r.todo \ {src} /\ q.marker = checkpoint[src][r.tenant]
      /\ q.tenant = r.tenant /\ q.job = r.job /\ q.work = r.work
  BY <1>0, <1>3 DEF RunRecord, Phases
<1>5. r.phase = "scan" /\ DOMAIN r.work = {} /\ r.todo \subseteq SourcesOf(r.tenant)
  BY <1>0 DEF Scan, Fine
<1> HIDE DEF q, r
<1>6. Passed(q.source, q.marker, Handled)
  BY <1>0, <1>3, <1>4 DEF IInv, Covered
<1>7. Fine(q, arrived, Handled)
  BY <1>1, <1>4, <1>5, <1>6 DEF Fine, FilesFine
<1>8. \A t \in Tenants : IsJob(q, t) <=> IsJob(run[s], t)
  BY <1>4, <1>5 DEF IsJob, r
<1>9. UNCHANGED <<jobVars, dbVars, envVars, orphans, desk>>
  BY DEF Scan
<1>10. JobsOK'
  <2>1. state' \in [Tenants -> States] /\ pauseAsked' \in BOOLEAN
        /\ UNCHANGED <<running, pending, asked>>
    BY <1>0, <1>9 DEF JobsOK, JobsTyped, jobVars
  <2> QED
    BY <1>0, <1>2, <1>4, <1>8, <2>1, OtherRunKeeps
<1>11. OrphansOK'
  BY <1>9, SameOrphans DEF envVars
<1> QED
  BY <1>2, <1>7, <1>9, <1>10, <1>11, OneRun, RunsKeep

LEMMA FetchKeeps ==
  ASSUME IInv, NEW s \in Slots, Fetch(s)
  PROVE  IInv'
<1> DEFINE r == run[s]
           src == r.source
           fresh == Fresh(src, r.marker)
<1>0. /\ JobsOK /\ r \in RunRecord /\ Fine(r, arrived, Handled)
      /\ r.tenant \in Tenants /\ r.marker \in Nat
  BY RunType
<1>1. PICK lost \in SUBSET fresh :
        /\ lost = {} \/ src \in Tenants
        /\ unread' = unread \cup {<<src, n>> : n \in lost}
        /\ GoOn(s, [r EXCEPT !.files = fresh \ lost])
  BY DEF Fetch
<1> DEFINE q == [r EXCEPT !.files = fresh \ lost]
<1>2. r.phase = "fetch" /\ UNCHANGED <<dbVars, arrived, orphans, desk>>
  BY DEF Fetch
<1>3. /\ src \in SourcesOf(r.tenant) /\ src \in Sources
      /\ r.todo \subseteq SourcesOf(r.tenant)
  BY <1>0, <1>2, SourcesOfType DEF Fine
<1>4. fresh \subseteq 1..arrived[src] /\ arrived[src] \in Nat
  BY <1>3 DEF Fresh, IInv, SourcesOK
<1>5. unread' \subseteq Tenants \X Nat /\ Handled \subseteq Handled'
  <2>1. unread' \subseteq Tenants \X Nat
    BY <1>1, <1>4 DEF IInv, SourcesOK
  <2>2. Handled \subseteq Handled'
    BY <1>1, <1>2, HandledStays DEF dbVars
  <2> QED
    BY <2>1, <2>2
<1>6. Before(src, fresh \ lost, Handled')
  <2> SUFFICES ASSUME NEW n \in fresh \ lost, NEW k \in Coming(src),
                      Marker(<<src, k>>) < Marker(<<src, n>>), k \notin fresh \ lost
               PROVE  <<src, k>> \in Handled'
    BY DEF Before
  <2>1. n \in Coming(src) /\ n \in 1..arrived[src]
    BY <1>3, <1>4, ArrivedComes DEF IInv
  <2>2. k < n /\ k \in Nat \ {0} /\ Marker(<<src, k>>) \in Nat
    BY <1>3, <2>1, MarkerOrder, ComingType
  <2>4. k \in 1..arrived[src]
    BY <1>4, <2>1, <2>2
  <2>5. CASE Marker(<<src, k>>) <= r.marker
    <3>1. <<src, k>> \in Handled
      BY <1>0, <1>2, <2>5 DEF Fine, FilesFine, Passed
    <3> QED
      BY <1>5, <3>1
  <2>6. CASE ~(Marker(<<src, k>>) <= r.marker)
    <3>1. k \in fresh
      BY <1>0, <2>2, <2>4, <2>6 DEF Fresh
    <3>2. <<src, k>> \in unread'
      BY <1>1, <3>1
    <3>3. <<src, k>> \in Files
      BY <1>3, <2>2 DEF Files
    <3> QED
      BY <3>2, <3>3 DEF Handled
  <2> QED
    BY <2>5, <2>6
<1>7. /\ q \in RunRecord /\ q.files = fresh \ lost /\ q.phase = "fetch"
      /\ q.tenant = r.tenant /\ q.job = r.job /\ q.source = src /\ q.todo = r.todo
  BY <1>0, <1>2, <1>4 DEF RunRecord, Phases
<1> HIDE DEF q, fresh, src
<1>8. Ready(q, arrived, Handled')
  BY <1>3, <1>4, <1>6, <1>7 DEF Ready
<1>9. /\ JobsOK'
      /\ \E x : run' = [run EXCEPT ![s] = x] /\ Fine(x, arrived, Handled')
  <2>1. GoOn(s, q) /\ run[s].phase # "free" /\ q.phase # "free"
    BY <1>1, <1>2, <1>7 DEF q
  <2> QED
    BY <1>0, <1>7, <1>8, <2>1, GoOnKeeps
<1>10. \A x \in Slots : run'[x] = run[x] \/ Fine(run'[x], arrived, Handled')
  BY <1>9, OneRun
<1>11. SourcesOK'
  BY <1>2, <1>5 DEF IInv, SourcesOK, dbVars
<1>12. RunsFine'
  <2>1. \A x \in Sources : arrived[x] <= arrived'[x]
    BY <1>2 DEF IInv, SourcesOK
  <2> QED
    BY <1>2, <1>5, <1>10, <1>11, <2>1, RunsStayFine
<1>13. Covered' /\ OrphansOK'
  BY <1>2, <1>5, CoveredStays, SameOrphans DEF dbVars
<1> QED
  BY <1>2, <1>9, <1>11, <1>12, <1>13 DEF IInv, DocsOK, dbVars

LEMMA ProcessKeeps ==
  ASSUME IInv, NEW s \in Slots, Process(s)
  PROVE  IInv'
<1> DEFINE r == run[s]
<1>0. /\ JobsOK /\ r \in RunRecord /\ Fine(r, arrived, Handled)
      /\ r.tenant \in Tenants /\ r.work \in Works
  BY RunType
<1>1. PICK n \in DOMAIN r.work, new \in Task :
        /\ FileStep(<<r.source, n>>, r.tenant, r.work[n], new)
        /\ run' = [run EXCEPT ![s].work[n] = new]
  BY DEF Process
<1> DEFINE f == <<r.source, n>>
           q == [r EXCEPT !.work = [r.work EXCEPT ![n] = new]]
<1>2. r.phase = "batch" /\ UNCHANGED <<jobVars, checkpoint, envVars, orphans, desk>>
  BY DEF Process
<1>3. run' = [run EXCEPT ![s] = q]
  BY <1>0, <1>1 DEF JobsOK, JobsTyped
<1>4. r.source \in Sources /\ n \in Nat /\ n \in 1..arrived[r.source]
  BY <1>0, <1>2, SourcesOfType, WorkType DEF Fine, Ahead
<1>5. f \in Files /\ f[1] = r.source /\ f[2] = n
  BY <1>4 DEF Files
<1>6. [r.work EXCEPT ![n] = new] \in Works
  BY <1>0, WorkType
<1>7. /\ q \in RunRecord /\ q.phase = "batch" /\ q.files = r.files
      /\ q.tenant = r.tenant /\ q.job = r.job /\ q.source = r.source
      /\ q.todo = r.todo /\ q.work = [r.work EXCEPT ![n] = new]
  BY <1>0, <1>2, <1>6 DEF RunRecord
<1>8. r.work[n] \in Task
  BY <1>0, WorkType
<1>9. FileStep(f, r.tenant, r.work[n], new) /\ UNCHANGED unread
  BY <1>1, <1>2 DEF envVars
<1> HIDE DEF f, q, r
<1>10. /\ DocsOK' /\ Handled \subseteq Handled'
       /\ new.phase = "done" => f \in Handled'
  BY <1>0, <1>4, <1>5, <1>8, <1>9, FileStepDocs DEF IInv
<1>11. Ahead(q) = Ahead(r) /\ DOMAIN q.work = DOMAIN r.work
  BY <1>7 DEF Ahead
<1>12. FilesFine(q, Handled')
  <2>0. FilesFine(r, Handled)
    BY <1>0 DEF Fine
  <2>1. Before(q.source, Ahead(q), Handled')
    BY <1>2, <1>7, <1>10, <1>11, <2>0 DEF FilesFine, Before
  <2>2. ASSUME NEW x \in DOMAIN q.work, q.work[x].phase = "done"
        PROVE  <<q.source, x>> \in Handled'
    <3>1. CASE x = n
      BY <1>0, <1>5, <1>7, <1>10, <2>2, <3>1 DEF f
    <3>2. CASE x # n
      BY <1>2, <1>7, <1>10, <1>11, <2>0, <2>2, <3>2 DEF FilesFine
    <3> QED
      BY <3>1, <3>2
  <2> QED
    BY <1>7, <2>1, <2>2 DEF FilesFine
<1>13. Fine(q, arrived, Handled')
  BY <1>0, <1>2, <1>7, <1>11, <1>12 DEF Fine
<1>14. \A x \in Slots : run'[x] = run[x] \/ Fine(run'[x], arrived, Handled')
  BY <1>3, <1>13, OneRun
<1>15. SourcesOK' /\ \A x \in Sources : arrived[x] <= arrived'[x]
  BY <1>2 DEF IInv, SourcesOK, envVars
<1>16. RunsFine'
  BY <1>2, <1>10, <1>14, <1>15, RunsStayFine DEF envVars
<1>17. JobsOK'
  <2>1. \A t \in Tenants : IsJob(q, t) <=> IsJob(run[s], t)
    BY <1>2, <1>7 DEF IsJob, r
  <2>2. state' \in [Tenants -> States] /\ pauseAsked' \in BOOLEAN
        /\ UNCHANGED <<running, pending, asked>>
    BY <1>0, <1>2 DEF JobsOK, JobsTyped, jobVars
  <2> QED
    BY <1>0, <1>3, <1>7, <2>1, <2>2, OtherRunKeeps
<1>18. Covered' /\ OrphansOK' /\ desk' \subseteq Decision
  BY <1>2, <1>10, CoveredStays, SameOrphans DEF envVars, IInv
<1> QED
  BY <1>10, <1>15, <1>16, <1>17, <1>18 DEF IInv

\* A run that fails leaves the files it had in processing.
LEMMA FailKeeps ==
  ASSUME IInv, NEW s \in Slots, run[s].phase # "free", FailRun(s),
         UNCHANGED <<dbVars, envVars, desk>>
  PROVE  IInv'
<1> DEFINE r == run[s]
<1>0. /\ JobsOK /\ r \in RunRecord /\ Fine(r, arrived, Handled)
      /\ r.tenant \in Tenants /\ r.work \in Works
  BY RunType
<1>1. JobsOK' /\ \E q : Begun(q) /\ run' = [run EXCEPT ![s] = q]
  <2>1. EndRun(s, "failed") /\ "failed" \in States
    BY DEF FailRun, States
  <2> QED
    BY <1>0, <2>1, EndKeeps
<1>2. \E q : run' = [run EXCEPT ![s] = q] /\ Fine(q, arrived, Handled)
  BY <1>1, BegunIsFine
<1>3. OrphansOK'
  <2> SUFFICES ASSUME NEW o \in orphans'
      PROVE  o \in OrphanRecord /\ o.file[2] \in 1..arrived[o.file[1]]
    BY DEF OrphansOK, envVars
  <2>1. CASE o \in orphans
    BY <2>1 DEF IInv, OrphansOK
  <2>2. CASE o \notin orphans
    <3>1. PICK n \in DOMAIN r.work :
            o = [file |-> <<r.source, n>>, tenant |-> r.tenant, task |-> r.work[n]]
      BY <2>2 DEF FailRun
    <3>2. r.phase = "batch"
      BY <1>0, <3>1 DEF Fine
    <3>3. r.source \in Sources /\ n \in Nat /\ n \in 1..arrived[r.source]
      BY <1>0, <3>2, SourcesOfType, WorkType DEF Fine, Ahead
    <3>4. r.work[n] \in Task /\ <<r.source, n>> \in Files
      BY <1>0, <3>3, WorkType DEF Files
    <3> QED
      BY <1>0, <3>1, <3>3, <3>4 DEF OrphanRecord
  <2> QED
    BY <2>1, <2>2
<1> QED
  BY <1>1, <1>2, <1>3, OneRun, RunsKeep

LEMMA ThrowKeeps ==
  ASSUME IInv, NEW s \in Slots, Throw(s)
  PROVE  IInv'
  BY FailKeeps DEF Throw

LEMMA BreakDownKeeps ==
  ASSUME IInv, NEW s \in Slots, BreakDown(s)
  PROVE  IInv'
  BY FailKeeps DEF BreakDown, Active

\* The first result of a settled batch is gone through: the marker is the
\* file's, and what the run has passed by then is handled.
LEMMA SettleKeeps ==
  ASSUME IInv, NEW s \in Slots, Settle(s)
  PROVE  IInv'
<1> DEFINE r == run[s]
           D == DOMAIN r.work
           n == CHOOSE k \in D : \A m \in D : k <= m
           mark == Marker(<<r.source, n>>)
           left == [m \in D \ {n} |-> r.work[m]]
           rest == [r EXCEPT !.marker = mark, !.work = left]
<1>0. /\ JobsOK /\ r \in RunRecord /\ Fine(r, arrived, Handled)
      /\ r.tenant \in Tenants /\ r.work \in Works
      /\ r.files \in SUBSET Nat /\ r.marker \in Nat
  BY RunType
<1>1. /\ r.phase = "batch" /\ D # {}
      /\ \A x \in D : r.work[x].phase = "done"
      /\ UNCHANGED <<invoices, envVars, orphans, desk, used>>
  BY DEF Settle, Settled
<1>2. checkpoint' = [checkpoint EXCEPT ![r.source][r.tenant] =
                       IF mark # r.marker THEN mark ELSE @]
  BY DEF Settle
<1>3. IF D \ {n} # {}
      THEN /\ run' = [run EXCEPT ![s] = rest]
           /\ Progress(s)
           /\ UNCHANGED <<running, pending, pauseAsked, asked>>
      ELSE EndRun(s, "paused") \/ GoOn(s, rest)
  <2>1. DOMAIN rest.work = D \ {n}
    BY <1>0 DEF RunRecord
  <2> QED
    BY <2>1 DEF Settle
<1>4. n \in D /\ (\A m \in D : n <= m) /\ D \subseteq Nat
  <2>1. D \in SUBSET Nat
    BY <1>0, WorkType
  <2> QED
    BY <1>1, <2>1, FirstExists
<1>5. /\ r.source \in SourcesOf(r.tenant) /\ r.source \in Sources
      /\ n \in Nat /\ n \in 1..arrived[r.source]
  BY <1>0, <1>1, <1>4, SourcesOfType DEF Fine, Ahead
<1>6. mark \in Nat
  BY <1>5, MarkerType DEF IInv, Files
<1>7. left \in Works /\ DOMAIN left = D \ {n} /\ \A x \in D \ {n} : left[x] = r.work[x]
  BY <1>0, WorkType
<1> HIDE DEF mark, left
<1>8. /\ rest \in RunRecord /\ rest.phase = "batch" /\ rest.files = r.files
      /\ rest.tenant = r.tenant /\ rest.job = r.job /\ rest.source = r.source
      /\ rest.todo = r.todo /\ rest.work = left
  BY <1>0, <1>1, <1>6, <1>7 DEF RunRecord
<1> HIDE DEF rest, n, D, r
<1>9. Handled' = Handled
  BY <1>1 DEF Handled, Has, envVars
<1>10. \A m \in r.files : n < m
  BY <1>0, <1>1, <1>4 DEF Fine, D
<1>11. Before(r.source, Ahead(r) \ {n}, Handled)
  <2>1. <<r.source, n>> \in Handled /\ Before(r.source, Ahead(r), Handled)
    BY <1>0, <1>1, <1>4 DEF Fine, FilesFine, D
  <2> QED
    BY <2>1 DEF Before
<1>12. SourcesOK' /\ \A x \in Sources : arrived[x] <= arrived'[x]
  <2>1. checkpoint' \in [Sources -> [Tenants -> Nat]]
    <3>1. /\ checkpoint \in [Sources -> [Tenants -> Nat]]
          /\ checkpoint[r.source] \in [Tenants -> Nat]
          /\ checkpoint[r.source][r.tenant] \in Nat
      BY <1>0, <1>5 DEF IInv, SourcesOK
    <3>2. \A v \in Nat : [checkpoint[r.source] EXCEPT ![r.tenant] = v] \in [Tenants -> Nat]
      BY <3>1
    <3>3. checkpoint' =
            [checkpoint EXCEPT ![r.source] = [checkpoint[r.source] EXCEPT ![r.tenant] =
               IF mark # r.marker THEN mark ELSE checkpoint[r.source][r.tenant]]]
      BY <1>2, <1>5, <3>1
    <3> QED
      BY <1>6, <3>1, <3>2, <3>3
  <2>2. UNCHANGED <<arrived, unread>>
    BY <1>1 DEF envVars
  <2> QED
    BY <2>1, <2>2 DEF IInv, SourcesOK
<1>13. Covered'
  <2> SUFFICES ASSUME NEW x \in Sources, NEW t \in Tenants, NEW k \in Coming(x),
                      Marker(<<x, k>>) <= checkpoint'[x][t]
               PROVE  <<x, k>> \in Handled
    BY <1>9 DEF Covered, Passed
  <2>1. CASE checkpoint'[x][t] = checkpoint[x][t]
    BY <2>1 DEF IInv, Covered, Passed
  <2>2. CASE checkpoint'[x][t] # checkpoint[x][t]
    <3>1. r.source = x /\ r.tenant = t /\ checkpoint'[x][t] = mark
      BY <1>0, <1>2, <1>5, <2>2 DEF IInv, SourcesOK
    <3>2. n \in Coming(x) /\ n \in Ahead(r) /\ <<x, n>> \in Handled
      BY <1>0, <1>1, <1>4, <1>5, <3>1, ArrivedComes DEF IInv, Ahead, Fine, FilesFine, D
    <3>3. mark = Marker(<<x, n>>)
      BY <3>1 DEF mark
    <3>4. CASE Marker(<<x, k>>) = mark
      BY <3>2, <3>3, <3>4, SameMarker DEF IInv
    <3>5. CASE Marker(<<x, k>>) # mark
      <4>1. Marker(<<x, k>>) < mark
        BY <1>6, <3>1, <3>5, ComingType
      <4>2. k < n /\ k \in Nat
        BY <3>2, <3>3, <4>1, MarkerOrder, ComingType
      <4>3. k \notin Ahead(r)
        BY <1>4, <1>5, <1>10, <4>2 DEF Ahead, D
      <4>4. Before(x, Ahead(r), Handled)
        BY <1>0, <1>1, <3>1 DEF Fine, FilesFine
      <4> QED
        BY <3>2, <3>3, <4>1, <4>3, <4>4 DEF Before
    <3> QED
      BY <3>4, <3>5
  <2> QED
    BY <2>1, <2>2
<1>14. JobsOK' /\ \E q : run' = [run EXCEPT ![s] = q] /\ Fine(q, arrived, Handled)
  <2>1. CASE D \ {n} # {}
    <3>1. Ahead(rest) = Ahead(r) \ {n} /\ DOMAIN rest.work = D \ {n}
      <4>1. n \notin r.files
        BY <1>5, <1>10
      <4> QED
        BY <1>7, <1>8, <4>1 DEF Ahead, D
    <3>2. FilesFine(rest, Handled)
      <4>1. FilesFine(r, Handled)
        BY <1>0 DEF Fine
      <4> QED
        BY <1>1, <1>7, <1>8, <1>11, <3>1, <4>1 DEF FilesFine, D
    <3>3. Fine(rest, arrived, Handled)
      BY <1>0, <1>1, <1>7, <1>8, <3>1, <3>2 DEF Fine, D
    <3>4. /\ run' = [run EXCEPT ![s] = rest] /\ Progress(s)
          /\ UNCHANGED <<running, pending, pauseAsked, asked>>
      BY <1>3, <2>1
    <3>5. state' \in [Tenants -> States] /\ pauseAsked' \in BOOLEAN
      BY <1>0, <3>4, ProgressType DEF JobsOK, JobsTyped
    <3>6. \A t \in Tenants : IsJob(rest, t) <=> IsJob(run[s], t)
      BY <1>1, <1>8 DEF IsJob, r
    <3> QED
      BY <1>0, <1>8, <3>3, <3>4, <3>5, <3>6, OtherRunKeeps
  <2>2. CASE D \ {n} = {} /\ EndRun(s, "paused")
    <3>1. "paused" \in States /\ run[s].phase # "free"
      BY <1>1 DEF States, r
    <3> QED
      BY <1>0, <2>2, <3>1, EndKeeps, BegunIsFine
  <2>3. CASE D \ {n} = {} /\ GoOn(s, rest)
    <3>1. Ahead(r) \ {n} = r.files
      BY <1>5, <1>10, <2>3 DEF Ahead, D
    <3>2. /\ r.todo \subseteq SourcesOf(r.tenant)
          /\ r.files \subseteq 1..arrived[r.source]
      BY <1>0, <1>1 DEF Fine, Ahead
    <3>3. Before(r.source, r.files, Handled)
      BY <1>11, <3>1
    <3>4. Ready(rest, arrived, Handled)
      BY <1>5, <1>8, <3>2, <3>3 DEF Ready
    <3>5. /\ run[s].phase # "free" /\ rest.phase # "free"
          /\ rest.tenant = run[s].tenant /\ rest.job = run[s].job
      BY <1>1, <1>8 DEF r
    <3> QED
      BY <1>0, <1>8, <2>3, <3>4, <3>5, GoOnKeeps
  <2> QED
    BY <1>3, <2>1, <2>2, <2>3
<1>15. \A x \in Slots : run'[x] = run[x] \/ Fine(run'[x], arrived, Handled)
  BY <1>14, OneRun
<1>16. RunsFine'
  BY <1>1, <1>9, <1>12, <1>15, RunsStayFine DEF envVars
<1>17. OrphansOK' /\ DocsOK' /\ desk' \subseteq Decision
  BY <1>1, SameOrphans DEF IInv, DocsOK, envVars
<1> QED
  BY <1>12, <1>13, <1>14, <1>16, <1>17 DEF IInv

-----------------------------------------------------------------------------
(* The other steps.                                                        *)

\* A step that changes the documents and the orphans, or the desk.
LEMMA DocsKeep ==
  ASSUME IInv, DocsOK', Handled \subseteq Handled', OrphansOK',
         desk' \subseteq Decision, UNCHANGED <<jobVars, checkpoint, envVars, run>>
  PROVE  IInv'
<1>1. SourcesOK' /\ \A x \in Sources : arrived[x] <= arrived'[x]
  BY DEF IInv, SourcesOK, envVars
<1>2. RunsFine'
  BY <1>1, RunsStayFine DEF envVars
<1>3. Covered' /\ JobsOK'
  BY CoveredStays, SameJobs DEF IInv
<1> QED
  BY <1>1, <1>2, <1>3 DEF IInv

LEMMA OrphanKeeps ==
  ASSUME IInv, Orphan
  PROVE  IInv'
<1>0. UNCHANGED <<jobVars, checkpoint, envVars, run, desk>> /\ desk' \subseteq Decision
  BY DEF Orphan, IInv
<1>1. PICK o \in orphans :
        \/ \E new \in Task :
             /\ FileStep(o.file, o.tenant, o.task, new)
             /\ orphans' = (orphans \ {o}) \cup
                  (IF new.phase = "done" THEN {} ELSE {[o EXCEPT !.task = new]})
        \/ /\ orphans' = orphans \ {o}
           /\ UNCHANGED invoices
  BY DEF Orphan
<1>2. o \in OrphanRecord /\ o.file[2] \in 1..arrived[o.file[1]]
  BY DEF IInv, OrphansOK
<1>3. o.file \in Files /\ o.tenant \in Tenants /\ o.task \in Task
  BY <1>2 DEF OrphanRecord
<1>4. CASE orphans' = orphans \ {o} /\ UNCHANGED invoices
  <2>1. OrphansOK' /\ Handled \subseteq Handled' /\ DocsOK'
    BY <1>0, <1>4, HandledStays DEF IInv, DocsOK, OrphansOK, envVars
  <2> QED
    BY <1>0, <2>1, DocsKeep
<1>5. CASE \E new \in Task :
             /\ FileStep(o.file, o.tenant, o.task, new)
             /\ orphans' = (orphans \ {o}) \cup
                  (IF new.phase = "done" THEN {} ELSE {[o EXCEPT !.task = new]})
  <2>1. PICK new \in Task :
             /\ FileStep(o.file, o.tenant, o.task, new)
             /\ orphans' = (orphans \ {o}) \cup
                  (IF new.phase = "done" THEN {} ELSE {[o EXCEPT !.task = new]})
    BY <1>5
  <2>2. DocsOK' /\ Handled \subseteq Handled'
    BY <1>0, <1>2, <1>3, <2>1, FileStepDocs DEF IInv, envVars
  <2>3. [o EXCEPT !.task = new] \in OrphanRecord /\ [o EXCEPT !.task = new].file = o.file
    BY <1>2, <2>1 DEF OrphanRecord
  <2>4. orphans' \subseteq orphans \cup {[o EXCEPT !.task = new]}
    BY <2>1
  <2>5. OrphansOK'
    <3> SUFFICES ASSUME NEW p \in orphans'
        PROVE  p \in OrphanRecord /\ p.file[2] \in 1..arrived[p.file[1]]
      BY <1>0 DEF OrphansOK, envVars
    <3>1. CASE p \in orphans
      BY <3>1 DEF IInv, OrphansOK
    <3>2. CASE p = [o EXCEPT !.task = new]
      BY <1>2, <2>3, <3>2
    <3> QED
      BY <2>4, <3>1, <3>2
  <2> QED
    BY <1>0, <2>2, <2>5, DocsKeep
<1> QED
  BY <1>1, <1>4, <1>5

LEMMA TriageLoadKeeps ==
  ASSUME IInv, TriageLoad
  PROVE  IInv'
<1>0. UNCHANGED <<jobVars, dbVars, envVars, run, orphans>>
  BY DEF TriageLoad
<1>1. DocsOK' /\ Handled \subseteq Handled' /\ OrphansOK'
  BY <1>0, HandledStays, SameOrphans DEF IInv, DocsOK, dbVars, envVars
<1>2. desk' \subseteq Decision
  <2>1. PICK i \in DOMAIN invoices, kind \in {"assign", "reject"} :
          desk' = desk \cup {[invoice |-> i, kind |-> kind]}
    BY DEF TriageLoad
  <2>2. i \in Nat
    BY DEF IInv, DocsOK
  <2> QED
    BY <2>1, <2>2 DEF IInv, Decision
<1> QED
  BY <1>0, <1>1, <1>2, DocsKeep DEF dbVars

\* What a decision writes into its invoice.
Decided(inv, kind) ==
  IF kind = "assign" THEN [inv EXCEPT !.org = TRUE, !.status = "PARSED"]
                     ELSE [inv EXCEPT !.status = "REJECTED"]

LEMMA TriageDocs ==
  ASSUME DocsOK, TriageSave
  PROVE  /\ DocsOK' /\ DOMAIN invoices' = DOMAIN invoices
         /\ \A i \in DOMAIN invoices :
              /\ invoices'[i].file = invoices[i].file
              /\ \/ invoices'[i] = invoices[i]
                 \/ invoices'[i].status \in {"PARSED", "REJECTED"}
<1>1. PICK d \in desk :
        invoices' = [invoices EXCEPT ![d.invoice] = Decided(invoices[d.invoice], d.kind)]
  BY DEF TriageSave, Decided
<1>2. ASSUME NEW inv \in Invoice, NEW kind
      PROVE  /\ Decided(inv, kind) \in Invoice /\ Decided(inv, kind).file = inv.file
             /\ Decided(inv, kind).message = inv.message
             /\ Decided(inv, kind).status \in {"PARSED", "REJECTED"}
  BY DEF Decided, Invoice, Statuses
<1>3. \A i \in DOMAIN invoices : invoices[i] \in Invoice
  BY DEF DocsOK
<1>4. DOMAIN invoices' = DOMAIN invoices /\ DOMAIN invoices = 1..Len(invoices)
  BY <1>1 DEF DocsOK
<1>5. ASSUME NEW i \in DOMAIN invoices
      PROVE  /\ invoices'[i] \in Invoice /\ invoices'[i].file = invoices[i].file
             /\ invoices'[i].message = invoices[i].message
             /\ \/ invoices'[i] = invoices[i]
                \/ invoices'[i].status \in {"PARSED", "REJECTED"}
  <2>1. CASE i = d.invoice
    <3>1. invoices'[i] = Decided(invoices[i], d.kind)
      BY <1>1, <2>1
    <3> QED
      BY <1>2, <1>3, <3>1
  <2>2. CASE i # d.invoice
    <3>1. invoices'[i] = invoices[i]
      BY <1>1, <2>2
    <3> QED
      BY <1>3, <3>1
  <2> QED
    BY <2>1, <2>2
<1>6. invoices' = [i \in 1..Len(invoices) |-> invoices'[i]]
  BY <1>1, <1>4
<1>7. invoices' \in [1..Len(invoices) -> Invoice]
  BY <1>4, <1>5, <1>6
<1>8. invoices' \in Seq(Invoice)
  <2>1. Len(invoices) \in Nat
    BY DEF DocsOK
  <2> QED
    BY <1>7, <2>1
<1>9. DocsOK'
  BY <1>4, <1>5, <1>8 DEF DocsOK, InvoiceFits
<1> QED
  BY <1>4, <1>5, <1>9

LEMMA TriageSaveKeeps ==
  ASSUME IInv, TriageSave
  PROVE  IInv'
<1>0. UNCHANGED <<jobVars, checkpoint, envVars, run, orphans>>
  BY DEF TriageSave
<1>1. /\ DocsOK' /\ DOMAIN invoices' = DOMAIN invoices
      /\ \A i \in DOMAIN invoices : invoices'[i].file = invoices[i].file
  BY TriageDocs DEF IInv
<1>2. Handled \subseteq Handled'
  BY <1>0, <1>1, SameDocuments DEF envVars
<1>3. OrphansOK' /\ desk' \subseteq Decision
  BY <1>0, SameOrphans DEF IInv, envVars, TriageSave
<1> QED
  BY <1>0, <1>1, <1>2, <1>3, DocsKeep

LEMMA CrashKeeps ==
  ASSUME IInv, Crash
  PROVE  IInv'
<1>1. /\ state' = [t \in Tenants |-> "idle"] /\ running' = [t \in Tenants |-> FALSE]
      /\ pending' = [t \in Tenants |-> FALSE] /\ asked' = [t \in Tenants |-> FALSE]
      /\ pauseAsked' = FALSE /\ run' = [s \in Slots |-> Free]
      /\ orphans' = {} /\ desk' = {} /\ UNCHANGED <<dbVars, envVars>>
  BY DEF Crash
<1>2. JobsTyped' /\ RequestIsRemembered'
  BY <1>1, FreeBegun DEF JobsTyped, RequestIsRemembered, Begun, States
<1>3. RunningMeansOneJob'
  <2>1. \A s \in Slots, t \in Tenants : ~IsJob(run'[s], t)
    BY <1>1, FreeBegun DEF IsJob
  <2> QED
    BY <1>1, <2>1, OneJobNext
<1>4. OrphansOK' /\ desk' \subseteq Decision
  BY <1>1 DEF OrphansOK
<1>5. Handled' = Handled /\ SourcesOK' /\ DocsOK'
  BY <1>1 DEF Handled, Has, IInv, DocsOK, SourcesOK, dbVars, envVars
<1>6. RunsFine'
  <2>1. \A s \in Slots : Fine(run'[s], arrived', Handled')
    BY <1>1, FreeBegun, BegunIsFine
  <2> QED
    BY <2>1 DEF RunsFine
<1>7. Covered'
  BY <1>1, <1>5, CoveredStays DEF dbVars
<1> QED
  BY <1>2, <1>3, <1>4, <1>5, <1>6, <1>7 DEF IInv, JobsOK

LEMMA StutterKeeps ==
  ASSUME IInv, UNCHANGED vars
  PROVE  IInv'
<1>1. UNCHANGED <<jobVars, dbVars, envVars, run, orphans, desk>>
  BY DEF vars
<1>2. DocsOK' /\ desk' \subseteq Decision /\ OrphansOK'
      /\ Handled \subseteq Handled'
  BY <1>1, HandledStays, SameOrphans DEF IInv, DocsOK, dbVars, envVars
<1> QED
  BY <1>1, <1>2, DocsKeep DEF dbVars

-----------------------------------------------------------------------------
(* The invariant.                                                          *)

LEMMA InitIInv == Init => IInv
<1> SUFFICES ASSUME Init PROVE IInv
  OBVIOUS
<1>1. SourcesOK
  <2>1. \A m \in Mailboxes : Len(Mail[m]) \in Nat /\ m \in Sources
    BY SourcesAssumption DEF Sources
  <2> QED
    BY <2>1 DEF Init, SourcesOK
<1>2. JobsTyped /\ RequestIsRemembered
  BY FreeBegun DEF Init, JobsTyped, RequestIsRemembered, Begun, States
<1>3. RunningMeansOneJob
  <2>1. \A s \in Slots, t \in Tenants : ~IsJob(run[s], t)
    BY FreeBegun DEF Init, IsJob
  <2>2. \A t \in Tenants : running[t] = FALSE
    BY DEF Init
  <2> QED
    BY <2>1, <2>2, OneJob
<1>4. RunsFine
  BY FreeBegun, BegunIsFine DEF Init, RunsFine
<1>5. Covered
  <2> SUFFICES ASSUME NEW s \in Sources, NEW t \in Tenants, NEW k \in Coming(s),
                      Marker(<<s, k>>) <= 0
               PROVE  FALSE
    BY DEF Init, Covered, Passed
  <2> QED
    BY ComingType
<1>6. DocsOK /\ desk \subseteq Decision /\ OrphansOK
  BY DEF Init, OrphansOK, DocsOK
<1> QED
  BY <1>1, <1>2, <1>3, <1>4, <1>5, <1>6 DEF IInv, JobsOK

LEMMA StepKeepsIInv == IInv /\ [Next]_vars => IInv'
<1> SUFFICES ASSUME IInv, [Next]_vars PROVE IInv'
  OBVIOUS
<1>1. CASE Requests
  BY <1>1, IngestKeeps, PauseKeeps, PollKeeps, UploadKeeps DEF Requests
<1>2. CASE \E m \in Mailboxes : MailArrives(m)
  BY <1>2, MailKeeps
<1>3. CASE \E s \in Slots : RunStep(s) \/ BreakDown(s)
  BY <1>3, ScanKeeps, FetchKeeps, ProcessKeeps, SettleKeeps, ThrowKeeps,
     BreakDownKeeps DEF RunStep
<1>4. CASE Orphan
  BY <1>4, OrphanKeeps
<1>5. CASE TriageLoad \/ TriageSave
  BY <1>5, TriageLoadKeeps, TriageSaveKeeps
<1>6. CASE Crash
  BY <1>6, CrashKeeps
<1>7. CASE Quiet \/ UNCHANGED vars
  BY <1>7, StutterKeeps DEF Quiet
<1> QED
  BY <1>1, <1>2, <1>3, <1>4, <1>5, <1>6, <1>7 DEF Next

LEMMA AlwaysIInv == Spec => []IInv
  BY InitIInv, StepKeepsIInv, PTL DEF Spec

-----------------------------------------------------------------------------
(* The theorems.                                                           *)

LEMMA IInvTypes == IInv => TypeOK
<1> SUFFICES ASSUME IInv PROVE TypeOK
  OBVIOUS
<1>1. /\ arrived \in [Sources -> Nat] /\ unread \subseteq Files
      /\ checkpoint \in [Sources -> [Tenants -> Nat]]
      /\ invoices \in Seq(Invoice) /\ desk \subseteq Decision
      /\ state \in [Tenants -> States] /\ asked \in [Tenants -> BOOLEAN]
      /\ running \in [Tenants -> BOOLEAN] /\ pending \in [Tenants -> BOOLEAN]
      /\ pauseAsked \in BOOLEAN
  BY DEF IInv, SourcesOK, DocsOK, JobsOK, JobsTyped, Files, Sources
<1>2. orphans \subseteq [file : Files, tenant : Tenants, task : Task]
  BY DEF IInv, OrphansOK, OrphanRecord
<1>3. ASSUME NEW s \in Slots
      PROVE  /\ run[s].phase \in {"free", "scan", "fetch", "batch"}
             /\ run[s].tenant \in Tenants /\ run[s].job \in BOOLEAN
             /\ run[s].reruns \in 0..RerunMax
             /\ run[s].todo \subseteq Sources
             /\ run[s].source \in Sources \cup {NoSource}
             /\ run[s].marker \in Nat /\ run[s].files \subseteq Nat
             /\ DOMAIN run[s].work \subseteq Nat
             /\ \A n \in DOMAIN run[s].work : run[s].work[n] \in Task
  <2>1. run[s] \in RunRecord /\ run[s].work \in Works
    BY RunType
  <2>2. DOMAIN run[s].work \subseteq Nat /\ \A n \in DOMAIN run[s].work : run[s].work[n] \in Task
    BY <2>1, WorkType
  <2> QED
    BY <2>1, <2>2 DEF RunRecord, Phases
<1> QED
  BY <1>1, <1>2, <1>3 DEF TypeOK

\* Every variable keeps its type: in particular no run reruns more often than
\* RERUN_MAX_COUNT, and a run works only on sources there are.
THEOREM TypeCorrect == Spec => []TypeOK
  BY AlwaysIInv, IInvTypes, PTL

\* The status of a tenant says that a job runs exactly while one does, and no
\* tenant ever has two: IngestionJobOrchestrator's guard, kept by every end
\* of a run, by reruns, pauses, failures and restarts.
THEOREM OneJobAtATime == Spec => []RunningMeansOneJob
<1>1. IInv => RunningMeansOneJob
  BY DEF IInv, JobsOK
<1> QED
  BY <1>1, AlwaysIInv, PTL

\* A rerun is pending exactly for the requests that wait for one, and only
\* while the job that is to run again is there.
THEOREM Remembered == Spec => []RequestIsRemembered
<1>1. IInv => RequestIsRemembered
  BY DEF IInv, JobsOK
<1> QED
  BY <1>1, AlwaysIInv, PTL

\* The checkpoint of a source never passes a file whose document is neither
\* stored nor unreadable, whatever other runs and orphaned files do.
LEMMA PassedIsHandled ==
  ASSUME IInv, NEW s \in Sources, NEW t \in Tenants, NEW n \in 1..arrived[s],
         Marker(<<s, n>>) <= checkpoint[s][t], <<s, n>> \notin unread
  PROVE  \E i \in DOMAIN invoices : Has(i, <<s, n>>)
<1>1. n \in Coming(s)
  BY ArrivedComes DEF IInv
<1>2. <<s, n>> \in Handled
  BY <1>1 DEF IInv, Covered, Passed
<1> QED
  BY <1>2 DEF Handled

THEOREM NoDocumentLost == Spec => []NoDocumentSkipped
<1>1. IInv => NoDocumentSkipped
  BY PassedIsHandled DEF NoDocumentSkipped, Has
<1> QED
  BY <1>1, AlwaysIInv, PTL

\* So no upload is lost: its document id is its own.
THEOREM NoUploadLost == Spec => []NoUploadSkipped
<1>1. IInv => NoUploadSkipped
  <2> SUFFICES ASSUME IInv, NEW t \in Tenants, NEW n \in 1..arrived[t],
                      n <= checkpoint[t][t], <<t, n>> \notin unread
               PROVE  \E i \in DOMAIN invoices : invoices[i].file = <<t, n>>
    BY DEF NoUploadSkipped
  <2>1. t \in Sources /\ t \notin Mailboxes /\ <<t, n>> \in Files
    BY SourcesAssumption DEF Sources, Files
  <2>2. Marker(<<t, n>>) = n
    BY <2>1 DEF Marker
  <2>3. PICK i \in DOMAIN invoices : Has(i, <<t, n>>)
    BY <2>1, <2>2, PassedIsHandled
  <2>4. invoices[i].file \in Files
    <3>1. invoices[i] \in Invoice
      BY DEF IInv, DocsOK
    <3> QED
      BY <3>1 DEF Invoice
  <2> QED
    BY <2>1, <2>3, <2>4, UploadIds DEF Has
<1> QED
  BY <1>1, AlwaysIInv, PTL

\* No two mailboxes give the same UID, or not even two attachments have it.
UidsApart ==
  \A l, m \in Mailboxes : \A j \in DOMAIN Mail[l], k \in DOMAIN Mail[m] :
    Mail[l][j] = Mail[m][k] => l = m
OwnUids ==
  \A l, m \in Mailboxes : \A j \in DOMAIN Mail[l], k \in DOMAIN Mail[m] :
    Mail[l][j] = Mail[m][k] => l = m /\ j = k

\* What has the document of an attachment is an attachment with its UID.
LEMMA AttachmentOf ==
  ASSUME IInv, NEW m \in Mailboxes, NEW n \in 1..arrived[m],
         Marker(<<m, n>>) <= checkpoint[m][MailOwner[m]]
  PROVE  /\ n \in DOMAIN Mail[m]
         /\ \E i \in DOMAIN invoices, l \in Mailboxes : \E j \in DOMAIN Mail[l] :
              invoices[i].file = <<l, j>> /\ Mail[l][j] = Mail[m][n]
<1>1. /\ m \in Sources /\ m \notin Tenants /\ MailOwner[m] \in Tenants
      /\ <<m, n>> \notin unread
  BY SourcesAssumption DEF Sources, IInv, SourcesOK
<1>2. n \in DOMAIN Mail[m] /\ <<m, n>> \in Files
  BY <1>1, ArrivedComes DEF IInv, Coming
<1>3. PICK i \in DOMAIN invoices : Has(i, <<m, n>>)
  BY <1>1, PassedIsHandled
<1> DEFINE g == invoices[i].file
<1>4. g \in Files /\ g[2] \in Coming(g[1])
  <2>1. invoices[i] \in Invoice /\ InvoiceFits(invoices[i])
    BY DEF IInv, DocsOK
  <2> QED
    BY <2>1 DEF Invoice, InvoiceFits
<1>5. Document(g) = Document(<<m, n>>)
  BY <1>3 DEF Has
<1> HIDE DEF g
<1>6. g[1] \in Mailboxes
  <2>1. g[1] \in Tenants => g = <<m, n>>
    BY <1>2, <1>4, <1>5, UploadIds
  <2> QED
    BY <1>1, <1>4, <2>1, FileParts DEF Sources
<1>7. g[2] \in DOMAIN Mail[g[1]] /\ Mail[g[1]][g[2]] = Mail[m][n]
  BY <1>4, <1>5, <1>6 DEF Coming, Document, Marker
<1> QED
  BY <1>2, <1>4, <1>6, <1>7, FileParts DEF g

\* Of every e-mail that the checkpoint has passed an attachment is stored,
\* unless another mailbox gives the same UID ...
THEOREM MailIsKept == UidsApart /\ Spec => []EveryMailIsKept
<1> SUFFICES ASSUME UidsApart PROVE Spec => []EveryMailIsKept
  OBVIOUS
<1>1. IInv => EveryMailIsKept
  <2> SUFFICES ASSUME IInv, NEW m \in Mailboxes, NEW n \in 1..arrived[m],
                      Marker(<<m, n>>) <= checkpoint[m][MailOwner[m]]
               PROVE  \E i \in DOMAIN invoices :
                         Message(invoices[i].file) = Message(<<m, n>>)
    BY DEF EveryMailIsKept
  <2>1. PICK i \in DOMAIN invoices, l \in Mailboxes : \E j \in DOMAIN Mail[l] :
          /\ n \in DOMAIN Mail[m]
          /\ invoices[i].file = <<l, j>> /\ Mail[l][j] = Mail[m][n]
    BY AttachmentOf
  <2> QED
    BY <2>1 DEF UidsApart, Message, Marker
<1> QED
  BY <1>1, AlwaysIInv, PTL

\* ... and every attachment, if each has a UID of its own: what the product
\* document promises fails only by the document ids.
THEOREM AttachmentsAreKept == OwnUids /\ Spec => []EveryAttachmentIsKept
<1> SUFFICES ASSUME OwnUids PROVE Spec => []EveryAttachmentIsKept
  OBVIOUS
<1>1. IInv => EveryAttachmentIsKept
  <2> SUFFICES ASSUME IInv, NEW m \in Mailboxes, NEW n \in 1..arrived[m],
                      Marker(<<m, n>>) <= checkpoint[m][MailOwner[m]]
               PROVE  \E i \in DOMAIN invoices : invoices[i].file = <<m, n>>
    BY DEF EveryAttachmentIsKept
  <2>1. PICK i \in DOMAIN invoices, l \in Mailboxes : \E j \in DOMAIN Mail[l] :
          /\ n \in DOMAIN Mail[m]
          /\ invoices[i].file = <<l, j>> /\ Mail[l][j] = Mail[m][n]
    BY AttachmentOf
  <2> QED
    BY <2>1 DEF OwnUids
<1> QED
  BY <1>1, AlwaysIInv, PTL

\* A step of a file touches no invoice that a person has decided about.
LEMMA FileStepStays ==
  ASSUME invoices \in Seq(Invoice), NEW f, NEW t, NEW task, NEW new,
         FileStep(f, t, task, new), NEW i \in DOMAIN invoices,
         invoices[i].status \in {"PARSED", "REJECTED"}
  PROVE  invoices'[i] = invoices[i]
<1>1. CASE UNCHANGED invoices
  BY <1>1
<1>2. ASSUME NEW j \in DOMAIN invoices, Overwritable(j), NEW d,
             invoices' = [invoices EXCEPT ![j] = d]
      PROVE  invoices'[i] = invoices[i]
  BY <1>2 DEF Overwritable
<1>3. ASSUME NEW d, invoices' = Append(invoices, d)
      PROVE  invoices'[i] = invoices[i]
  BY <1>3
<1>4. Check(f, t, task, new) \/ StoreFails(task, new) => UNCHANGED invoices
  BY DEF Check, StoreFails
<1>5. Create(f, t, task, new) =>
        UNCHANGED invoices \/ \E d : invoices' = Append(invoices, d)
  BY DEF Create
<1>6. Upsert(f, t, task, new) =>
        \/ UNCHANGED invoices
        \/ \E j \in DOMAIN invoices : Overwritable(j)
              /\ \E d : invoices' = [invoices EXCEPT ![j] = d]
  BY DEF Upsert
<1> QED
  BY <1>1, <1>2, <1>3, <1>4, <1>5, <1>6 DEF FileStep

\* What a person decided in triage stays decided and keeps its file: the
\* statuses upsertFromPending may overwrite do not hold of it again, and a
\* second request that loaded it earlier decides it once more but no less.
THEOREM DecisionsStand == Spec => DecisionsStay
<1> DEFINE Stays ==
      \A i \in DOMAIN invoices :
        invoices[i].status \in {"PARSED", "REJECTED"} =>
          /\ invoices'[i].status \in {"PARSED", "REJECTED"}
          /\ invoices'[i].file = invoices[i].file
<1>1. IInv /\ [Next]_vars => [Stays]_vars
  <2> SUFFICES ASSUME IInv, Next PROVE Stays
    OBVIOUS
  <2>1. ASSUME NEW s \in Slots, Process(s) PROVE Stays
    <3>1. \E f, t, task, new : FileStep(f, t, task, new)
      BY <2>1 DEF Process
    <3> QED
      BY <3>1, FileStepStays DEF IInv, DocsOK
  <2>2. CASE Orphan
    <3>1. UNCHANGED invoices \/ \E f, t, task, new : FileStep(f, t, task, new)
      BY <2>2 DEF Orphan
    <3> QED
      BY <3>1, FileStepStays DEF IInv, DocsOK
  <2>3. CASE TriageSave
    BY <2>3, TriageDocs DEF IInv
  <2>4. CASE UNCHANGED invoices
    BY <2>4
  <2>5. Requests => UNCHANGED invoices
    BY DEF Requests, Ingest, Pause, Poll, Upload, dbVars
  <2>6. \A m \in Mailboxes : MailArrives(m) => UNCHANGED invoices
    BY DEF MailArrives, dbVars
  <2>7. \A s \in Slots : Scan(s) \/ Fetch(s) \/ Settle(s) \/ Throw(s) \/ BreakDown(s)
                          => UNCHANGED invoices
    BY DEF Scan, Fetch, Settle, Throw, BreakDown, dbVars
  <2>8. TriageLoad \/ Crash \/ Quiet => UNCHANGED invoices
    BY DEF TriageLoad, Crash, Quiet, dbVars, vars
  <2> QED
    BY <2>1, <2>2, <2>3, <2>4, <2>5, <2>6, <2>7, <2>8 DEF Next, RunStep
<1> QED
  BY <1>1, AlwaysIInv, PTL DEF Spec, DecisionsStay

=============================================================================
