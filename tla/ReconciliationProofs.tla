------------------------ MODULE ReconciliationProofs ------------------------
(***************************************************************************)
(* Proofs about Reconciliation for every set of transactions, invoices and  *)
(* workers, all amounts and weights of fit, and any number of requests and  *)
(* faults.                                                                 *)
(***************************************************************************)
EXTENDS Reconciliation, TLAPS, WellFoundedInduction

Jobs == [phase : Phases, kind : Kinds, todo : SUBSET Txns,
         txn : Txns \cup {None}, invoice : Invoices \cup {None},
         nets : [Invoices -> Int], verified : Txns \cup {None}, signals : Nat]
Transaction == [status : Statuses, invoice : Invoices \cup {None}]
Document == [exported : BOOLEAN, tax : Nat, verified : Txns \cup {None},
             signals : Nat]

\* What the phase of a request says of it.
Phased(j) ==
  /\ j.phase = "idle" => j.kind = "none"
  /\ j.phase \in {"fetch", "choose"} => j.kind = "reconcile"
  /\ j.phase = "verify" => /\ j.kind \in {"reconcile", "match"}
                           /\ j.txn \in Txns /\ j.invoice \in Invoices
  /\ j.phase = "manual" => /\ j.kind = "match"
                           /\ j.txn \in Txns /\ j.invoice \in Invoices
  /\ j.phase = "clear"  => j.kind = "unmatch" /\ j.txn \in Txns
  /\ j.phase = "save"   => /\ j.kind \in {"unmatch", "retrigger"}
                           /\ j.invoice \in Invoices

\* What a change of GL code remembers of an invoice agrees like the invoice.
Agrees(x) == (x.verified # None) = (x.signals > 0)

JobsFine == \A w \in Workers : Phased(job[w]) /\ Agrees(job[w])

\* The invariant for any number of requests at once.
IInv == TypeOK /\ JobsFine /\ VerifiedIsSignalled

\* What a request has read of the transactions and invoices is still so.
UpToDate(j, txns, docs) ==
  /\ j.phase \in {"verify", "manual"} => txns[j.txn].status # "unmatched"
  /\ j.kind = "reconcile" => \A t \in j.todo : txns[t].status = "unmatched"
  /\ j.kind = "reconcile" /\ j.phase # "fetch" =>
       \A i \in Invoices :
         j.nets[i] # -1 => j.nets[i] = Total[i] - docs[i].tax

Told(txns) ==
  \A t \in Txns : (txns[t].status = "unmatched") = (txns[t].invoice = None)

\* The invariant for requests that are served one after the other.
Served ==
  /\ \A v, w \in Workers : ~At(v, "idle") /\ ~At(w, "idle") => v = w
  /\ \A w \in Workers : UpToDate(job[w], txn, invoice)
  /\ Told(txn)
Serial == ~overlapped => Served

-----------------------------------------------------------------------------
(* Lemmas.                                                                 *)

LEMMA Parts ==
  ASSUME TypeOK
  PROVE  /\ txn \in [Txns -> Transaction]
         /\ invoice \in [Invoices -> Document]
         /\ job \in [Workers -> Jobs]
         /\ overlapped \in BOOLEAN
         /\ used \in [requests : 0..MaxRequests, faults : 0..MaxFaults]
  BY DEF TypeOK, Transaction, Document, Jobs

LEMMA Whole ==
  ASSUME txn' \in [Txns -> Transaction],
         invoice' \in [Invoices -> Document],
         job' \in [Workers -> Jobs],
         overlapped' \in BOOLEAN,
         used' \in [requests : 0..MaxRequests, faults : 0..MaxFaults]
  PROVE  TypeOK'
  BY DEF TypeOK, Transaction, Document, Jobs

\* The counters of a request, of a fault and of a step that is neither.
LEMMA Counters ==
  ASSUME TypeOK, Arrives \/ (Fault /\ UNCHANGED overlapped) \/ Same
  PROVE  /\ overlapped' \in BOOLEAN
         /\ used' \in [requests : 0..MaxRequests, faults : 0..MaxFaults]
<1> USE AmountsAssumption
<1>t. /\ used \in [requests : 0..MaxRequests, faults : 0..MaxFaults]
      /\ overlapped \in BOOLEAN
  BY Parts
<1>1. CASE Arrives
  <2>1. used.requests < MaxRequests
        /\ used' = [used EXCEPT !.requests = used.requests + 1]
        /\ overlapped' \in BOOLEAN
    BY <1>1, <1>t DEF Arrives
  <2>2. used.requests + 1 \in 0..MaxRequests
    BY <1>t, <2>1
  <2> QED
    BY <1>t, <2>1, <2>2
<1>2. CASE Fault /\ UNCHANGED overlapped
  <2>1. used.faults < MaxFaults
        /\ used' = [used EXCEPT !.faults = used.faults + 1]
    BY <1>2 DEF Fault
  <2>2. used.faults + 1 \in 0..MaxFaults
    BY <1>t, <2>1
  <2> QED
    BY <1>2, <1>t, <2>1, <2>2
<1>3. CASE Same
  BY <1>3, <1>t DEF Same
<1> QED
  BY <1>1, <1>2, <1>3

LEMMA IdleJob == Idle \in Jobs /\ Phased(Idle) /\ Agrees(Idle)
  BY DEF Idle, Jobs, Phased, Agrees, Phases, Kinds

\* One request goes on, the others stay as they are.
LEMMA OneGoesOn ==
  ASSUME TypeOK, JobsFine, NEW w \in Workers, NEW j \in Jobs,
         Phased(j), Agrees(j), job' = [job EXCEPT ![w] = j]
  PROVE  job' \in [Workers -> Jobs] /\ JobsFine'
<1>1. job \in [Workers -> Jobs]
  BY Parts
<1>2. job' \in [Workers -> Jobs] /\ job'[w] = j
      /\ \A v \in Workers \ {w} : job'[v] = job[v]
  BY <1>1
<1>3. \A v \in Workers : Phased(job'[v]) /\ Agrees(job'[v])
  BY <1>2 DEF JobsFine
<1> QED
  BY <1>2, <1>3 DEF JobsFine, Phased, Agrees

LEMMA PointType ==
  ASSUME TypeOK, NEW t \in Txns, NEW i \in Invoices \cup {None},
         NEW s \in Statuses, PointAt(t, i, s)
  PROVE  txn' \in [Txns -> Transaction]
<1>1. txn \in [Txns -> Transaction]
  BY Parts
<1> QED
  BY <1>1 DEF PointAt, Transaction

\* An invoice that is told of its transaction is also given the signal.
LEMMA VerifyAgrees ==
  ASSUME TypeOK, VerifiedIsSignalled, NEW t \in Txns, NEW i \in Invoices,
         Verify(t, i)
  PROVE  invoice' \in [Invoices -> Document] /\ VerifiedIsSignalled'
<1>1. invoice \in [Invoices -> Document] /\ invoice[i] \in Document
  BY Parts
<1> DEFINE new == [exported |-> invoice[i].exported, tax |-> invoice[i].tax,
                   verified |-> t, signals |-> invoice[i].signals + 1]
<1>2. invoice' = [invoice EXCEPT ![i] = new]
  BY <1>1 DEF Verify, Document
<1>3. new \in Document /\ (new.verified # None) /\ new.signals > 0
  BY <1>1, AmountsAssumption DEF Document
<1> HIDE DEF new
<1>4. /\ invoice' \in [Invoices -> Document] /\ invoice'[i] = new
      /\ \A k \in Invoices \ {i} : invoice'[k] = invoice[k]
  BY <1>1, <1>2, <1>3
<1> QED
  BY <1>3, <1>4 DEF VerifiedIsSignalled

-----------------------------------------------------------------------------
(* What each step does to the request that takes it.                       *)

\* The request of a worker, with its fields.
LEMMA JobType ==
  ASSUME IInv, NEW w \in Workers
  PROVE  job[w] \in Jobs /\ Phased(job[w]) /\ Agrees(job[w])
  BY Parts DEF IInv, JobsFine

\* A request that ends leaves the others as they are.
LEMMA DoneIsFine ==
  ASSUME IInv, NEW w \in Workers, Done(w)
  PROVE  job' \in [Workers -> Jobs] /\ JobsFine'
  BY IdleJob, OneGoesOn DEF Done, IInv

\* So is one that moves on to another phase it may be in.
LEMMA PhaseIsFine ==
  ASSUME IInv, NEW w \in Workers, NEW p \in Phases,
         Phased([job[w] EXCEPT !.phase = p]),
         job' = [job EXCEPT ![w].phase = p]
  PROVE  job' \in [Workers -> Jobs] /\ JobsFine'
<1>1. job[w] \in Jobs /\ Agrees(job[w])
  BY JobType
<1> DEFINE j == [job[w] EXCEPT !.phase = p]
<1>2. j \in Jobs /\ Agrees(j)
  BY <1>1 DEF Jobs, Agrees
<1>3. job' = [job EXCEPT ![w] = j]
  OBVIOUS
<1> HIDE DEF j
<1> QED
  BY <1>2, <1>3, OneGoesOn DEF IInv, j

\* The candidates of a run are amounts, or -1.
LEMMA FetchedType ==
  ASSUME TypeOK, NEW ts \in SUBSET Txns
  PROVE  Fetched(ts) \in [Invoices -> Int]
<1> SUFFICES ASSUME NEW i \in Invoices
             PROVE  Total[i] - invoice[i].tax \in Int
  BY DEF Fetched
<1>1. invoice[i] \in Document /\ Total[i] \in Nat
  BY Parts, AmountsAssumption
<1> QED
  BY <1>1 DEF Document

LEMMA ReconcileStep ==
  ASSUME IInv, NEW w \in Workers, Reconcile(w)
  PROVE  IInv'
<1> DEFINE ts == {t \in Txns : txn[t].status = "unmatched"}
           j == [Idle EXCEPT !.phase = "fetch", !.kind = "reconcile", !.todo = ts]
<1>1. j \in Jobs /\ Phased(j) /\ Agrees(j)
  BY IdleJob DEF Idle, Jobs, Phased, Agrees, Phases, Kinds
<1>2. job' = [job EXCEPT ![w] = j] /\ UNCHANGED <<txn, invoice>> /\ Arrives
  BY DEF Reconcile
<1> HIDE DEF j
<1>3. job' \in [Workers -> Jobs] /\ JobsFine'
  BY <1>1, <1>2, OneGoesOn DEF IInv
<1>4. TypeOK'
  BY <1>2, <1>3, Parts, Counters, Whole DEF IInv
<1> QED
  BY <1>2, <1>3, <1>4 DEF IInv, VerifiedIsSignalled

LEMMA FetchStep ==
  ASSUME IInv, NEW w \in Workers, Fetch(w)
  PROVE  IInv'
<1>1. job[w] \in Jobs /\ Agrees(job[w]) /\ Phased(job[w]) /\ job[w].phase = "fetch"
  BY JobType DEF Fetch, At
<1>2. job[w].todo \in SUBSET Txns
  BY <1>1 DEF Jobs
<1> DEFINE nets == Fetched(job[w].todo)
           j == [job[w] EXCEPT !.phase = "choose", !.nets = nets]
<1>3. nets \in [Invoices -> Int]
  BY <1>2, FetchedType DEF IInv
<1>4. job' = [job EXCEPT ![w] = j] /\ UNCHANGED <<txn, invoice>> /\ Same
  BY DEF Fetch
<1> HIDE DEF nets
<1>5. j \in Jobs /\ Agrees(j) /\ Phased(j)
  BY <1>1, <1>3 DEF Jobs, Agrees, Phased, Phases
<1> HIDE DEF j
<1>6. job' \in [Workers -> Jobs] /\ JobsFine'
  BY <1>4, <1>5, OneGoesOn DEF IInv
<1>7. TypeOK'
  BY <1>4, <1>6, Parts, Counters, Whole DEF IInv
<1> QED
  BY <1>4, <1>6, <1>7 DEF IInv, VerifiedIsSignalled

\* The three ways in which a run deals with a transaction.
LEMMA ChooseCases ==
  ASSUME IInv, NEW w \in Workers, NEW t \in Txns, Choose(w, t)
  PROVE  /\ job[w].phase = "choose" /\ t \in job[w].todo
         /\ UNCHANGED invoice /\ Same
         /\ \/ \E i \in Best(t, job[w].nets) :
                 /\ PointAt(t, i, "matched")
                 /\ job' = [job EXCEPT ![w] =
                      [job[w] EXCEPT !.todo = @ \ {t}, !.phase = "verify",
                                     !.txn = t, !.invoice = i]]
            \/ /\ job' = [job EXCEPT ![w] = [job[w] EXCEPT !.todo = @ \ {t}]]
               /\ \/ \E i \in Best(t, job[w].nets) : PointAt(t, i, "suggested")
                  \/ UNCHANGED txn
<1> DEFINE r == [job EXCEPT ![w].todo = @ \ {t}]
<1>1. job \in [Workers -> Jobs]
  BY Parts DEF IInv
<1>2. r = [job EXCEPT ![w] = [job[w] EXCEPT !.todo = @ \ {t}]]
  OBVIOUS
<1>3. \A i : [r EXCEPT ![w].phase = "verify", ![w].txn = t, ![w].invoice = i]
         = [job EXCEPT ![w] = [job[w] EXCEPT !.todo = @ \ {t}, !.phase = "verify",
                                             !.txn = t, !.invoice = i]]
  BY <1>1
<1> HIDE DEF r
<1>4. /\ job[w].phase = "choose" /\ t \in job[w].todo
      /\ UNCHANGED invoice /\ Same
      /\ \/ \E i \in Best(t, job[w].nets) :
              \/ /\ PointAt(t, i, "matched")
                 /\ job' = [r EXCEPT ![w].phase = "verify", ![w].txn = t,
                                     ![w].invoice = i]
              \/ PointAt(t, i, "suggested") /\ job' = r
              \/ job' = r /\ UNCHANGED txn
         \/ job' = r /\ UNCHANGED txn
  BY DEF Choose, At, r
<1> QED
  BY <1>2, <1>3, <1>4

LEMMA ChooseStep ==
  ASSUME IInv, NEW w \in Workers, NEW t \in Txns, Choose(w, t)
  PROVE  IInv'
<1>1. /\ job[w] \in Jobs /\ Phased(job[w]) /\ Agrees(job[w])
      /\ job[w].phase = "choose"
  BY JobType, ChooseCases
<1>2. \A i \in Best(t, job[w].nets) : i \in Invoices
  BY DEF Best, Candidates
<1>3. UNCHANGED invoice /\ Same
  BY ChooseCases
<1>4. txn' \in [Txns -> Transaction]
  BY <1>2, ChooseCases, PointType, Parts DEF IInv, Statuses
<1>5. CASE \E i \in Best(t, job[w].nets) :
             job' = [job EXCEPT ![w] =
               [job[w] EXCEPT !.todo = @ \ {t}, !.phase = "verify",
                              !.txn = t, !.invoice = i]]
  <2>1. PICK i \in Invoices : job' = [job EXCEPT ![w] =
               [job[w] EXCEPT !.todo = @ \ {t}, !.phase = "verify",
                              !.txn = t, !.invoice = i]]
    BY <1>2, <1>5
  <2> DEFINE j == [job[w] EXCEPT !.todo = @ \ {t}, !.phase = "verify",
                                !.txn = t, !.invoice = i]
  <2>2. j \in Jobs /\ Phased(j) /\ Agrees(j)
    BY <1>1 DEF Jobs, Phased, Agrees, Phases
  <2>3. job' = [job EXCEPT ![w] = j]
    BY <2>1
  <2> HIDE DEF j
  <2> QED
    BY <2>2, <2>3, <1>3, <1>4, OneGoesOn, Parts, Counters, Whole
    DEF IInv, VerifiedIsSignalled
<1>6. CASE job' = [job EXCEPT ![w] = [job[w] EXCEPT !.todo = @ \ {t}]]
  <2> DEFINE j == [job[w] EXCEPT !.todo = @ \ {t}]
  <2>1. j \in Jobs /\ Phased(j) /\ Agrees(j)
    BY <1>1 DEF Jobs, Phased, Agrees, Phases
  <2>2. job' = [job EXCEPT ![w] = j]
    BY <1>6
  <2> HIDE DEF j
  <2> QED
    BY <2>1, <2>2, <1>3, <1>4, OneGoesOn, Parts, Counters, Whole
    DEF IInv, VerifiedIsSignalled
<1> QED
  BY <1>5, <1>6, ChooseCases

LEMMA FinishStep ==
  ASSUME IInv, NEW w \in Workers, Finish(w)
  PROVE  IInv'
<1>1. UNCHANGED <<txn, invoice>> /\ Same /\ Done(w)
  BY DEF Finish
<1> QED
  BY <1>1, DoneIsFine, Parts, Counters, Whole DEF IInv, VerifiedIsSignalled

LEMMA VerifyStep ==
  ASSUME IInv, NEW w \in Workers, VerifyInvoice(w)
  PROVE  IInv'
<1>1. job[w] \in Jobs /\ Phased(job[w]) /\ job[w].phase = "verify"
  BY JobType DEF VerifyInvoice, At
<1>2. job[w].txn \in Txns /\ job[w].invoice \in Invoices
      /\ job[w].kind \in {"reconcile", "match"}
  BY <1>1 DEF Phased
<1> DEFINE p == IF job[w].kind = "reconcile" THEN "choose" ELSE "manual"
<1>3. /\ Verify(job[w].txn, job[w].invoice) /\ Same /\ UNCHANGED txn
      /\ job' = [job EXCEPT ![w].phase = p]
  BY DEF VerifyInvoice
<1>4. p \in Phases /\ Phased([job[w] EXCEPT !.phase = p])
  BY <1>1, <1>2 DEF Phased, Phases, Jobs
<1> HIDE DEF p
<1>5. invoice' \in [Invoices -> Document] /\ VerifiedIsSignalled'
  BY <1>2, <1>3, VerifyAgrees DEF IInv
<1>6. job' \in [Workers -> Jobs] /\ JobsFine'
  BY <1>3, <1>4, PhaseIsFine
<1> QED
  BY <1>3, <1>5, <1>6, Parts, Counters, Whole DEF IInv

LEMMA MatchStep ==
  ASSUME IInv, NEW w \in Workers, NEW t \in Txns, NEW i \in Invoices,
         Match(w, t, i)
  PROVE  IInv'
<1> DEFINE j == [Idle EXCEPT !.phase = "verify", !.kind = "match",
                            !.txn = t, !.invoice = i]
<1>1. j \in Jobs /\ Phased(j) /\ Agrees(j)
  BY IdleJob DEF Idle, Jobs, Phased, Agrees, Phases, Kinds
<1>2. /\ job' = [job EXCEPT ![w] = j] /\ PointAt(t, i, "matched")
      /\ UNCHANGED invoice /\ Arrives
  BY DEF Match
<1> HIDE DEF j
<1>3. txn' \in [Txns -> Transaction]
  BY <1>2, PointType DEF IInv, Statuses
<1> QED
  BY <1>1, <1>2, <1>3, OneGoesOn, Parts, Counters, Whole
  DEF IInv, VerifiedIsSignalled

LEMMA MarkStep ==
  ASSUME IInv, NEW w \in Workers, MarkManual(w)
  PROVE  IInv'
<1>1. job[w] \in Jobs /\ Phased(job[w]) /\ job[w].phase = "manual"
  BY JobType DEF MarkManual, At
<1>2. job[w].txn \in Txns
  BY <1>1 DEF Phased
<1>3. /\ Done(w) /\ UNCHANGED invoice /\ Same
      /\ txn' = [txn EXCEPT ![job[w].txn].status = "manual"]
  BY DEF MarkManual
<1>4. txn \in [Txns -> Transaction]
  BY Parts DEF IInv
<1>5. txn' \in [Txns -> Transaction]
  BY <1>2, <1>3, <1>4 DEF Transaction, Statuses
<1> QED
  BY <1>3, <1>5, DoneIsFine, Parts, Counters, Whole DEF IInv, VerifiedIsSignalled

LEMMA UnmatchStep ==
  ASSUME IInv, NEW w \in Workers, NEW t \in Txns, Unmatch(w, t)
  PROVE  IInv'
<1> DEFINE j == [Idle EXCEPT !.phase = "clear", !.kind = "unmatch", !.txn = t,
                            !.invoice = txn[t].invoice]
<1>1. txn[t].invoice \in Invoices \cup {None}
  BY Parts DEF IInv, Transaction
<1>2. j \in Jobs /\ Phased(j) /\ Agrees(j)
  BY <1>1, IdleJob DEF Idle, Jobs, Phased, Agrees, Phases, Kinds
<1>3. /\ job' = [job EXCEPT ![w] = j] /\ UNCHANGED <<txn, invoice>> /\ Arrives
  BY DEF Unmatch
<1> HIDE DEF j
<1> QED
  BY <1>2, <1>3, OneGoesOn, Parts, Counters, Whole DEF IInv, VerifiedIsSignalled

LEMMA ClearTxnStep ==
  ASSUME IInv, NEW w \in Workers, ClearTxn(w)
  PROVE  IInv'
<1>1. job[w] \in Jobs /\ Phased(job[w]) /\ job[w].phase = "clear"
  BY JobType DEF ClearTxn, At
<1>2. job[w].txn \in Txns /\ job[w].kind = "unmatch"
      /\ job[w].invoice \in Invoices \cup {None}
  BY <1>1 DEF Phased, Jobs
<1>3. /\ PointAt(job[w].txn, None, "unmatched") /\ UNCHANGED invoice /\ Same
      /\ \/ Done(w)
         \/ job[w].invoice # None /\ job' = [job EXCEPT ![w].phase = "save"]
  BY DEF ClearTxn
<1>4. txn' \in [Txns -> Transaction]
  BY <1>2, <1>3, PointType DEF IInv, Statuses
<1>5. job' \in [Workers -> Jobs] /\ JobsFine'
  <2>1. CASE Done(w)
    BY <2>1, DoneIsFine
  <2>2. CASE job[w].invoice # None /\ job' = [job EXCEPT ![w].phase = "save"]
    <3>1. Phased([job[w] EXCEPT !.phase = "save"]) /\ "save" \in Phases
      BY <1>1, <1>2, <2>2 DEF Phased, Phases, Jobs
    <3> QED
      BY <2>2, <3>1, PhaseIsFine
  <2> QED
    BY <1>3, <2>1, <2>2
<1> QED
  BY <1>3, <1>4, <1>5, Parts, Counters, Whole DEF IInv, VerifiedIsSignalled

\* An invoice saved with a transaction and signals that agree.
LEMMA SavedAgrees ==
  ASSUME IInv, NEW i \in Invoices, NEW new \in Document, Agrees(new),
         invoice' = [invoice EXCEPT ![i] = new]
  PROVE  invoice' \in [Invoices -> Document] /\ VerifiedIsSignalled'
<1>1. invoice \in [Invoices -> Document]
  BY Parts DEF IInv
<1>2. /\ invoice' \in [Invoices -> Document] /\ invoice'[i] = new
      /\ \A k \in Invoices \ {i} : invoice'[k] = invoice[k]
  BY <1>1
<1> QED
  BY <1>2 DEF Agrees, IInv, VerifiedIsSignalled

LEMMA ClearInvoiceStep ==
  ASSUME IInv, NEW w \in Workers, ClearInvoice(w)
  PROVE  IInv'
<1>1. job[w].invoice \in Invoices
  BY JobType DEF ClearInvoice, At, Phased
<1> DEFINE i == job[w].invoice
           new == [invoice[i] EXCEPT !.verified = None, !.signals = 0]
<1>2. invoice \in [Invoices -> Document] /\ invoice[i] \in Document
  BY <1>1, Parts DEF IInv
<1>3. /\ invoice' = [invoice EXCEPT ![i].verified = None, ![i].signals = 0]
      /\ Done(w) /\ UNCHANGED txn /\ Same
  BY DEF ClearInvoice
<1>e. invoice' = [invoice EXCEPT ![i] = new]
  BY <1>1, <1>2, <1>3
<1>n. new \in Document
  BY <1>2 DEF Document
<1>f. new.verified = None /\ new.signals = 0
  BY <1>2 DEF Document
<1>4. new \in Document /\ Agrees(new)
  BY <1>n, <1>f DEF Agrees
<1> HIDE DEF new
<1>5. invoice' \in [Invoices -> Document] /\ VerifiedIsSignalled'
  BY <1>1, <1>e, <1>4, SavedAgrees
<1> QED
  BY <1>3, <1>5, DoneIsFine, Parts, Counters, Whole DEF IInv

LEMMA RetriggerStep ==
  ASSUME IInv, NEW w \in Workers, NEW i \in Invoices, Retrigger(w, i)
  PROVE  IInv'
<1> DEFINE j == [Idle EXCEPT !.phase = "save", !.kind = "retrigger",
                            !.invoice = i, !.verified = invoice[i].verified,
                            !.signals = invoice[i].signals]
<1>1. invoice[i] \in Document /\ Agrees(invoice[i])
  BY Parts DEF IInv, VerifiedIsSignalled, Agrees
<1>2. j \in Jobs /\ Phased(j) /\ Agrees(j)
  BY <1>1, IdleJob DEF Idle, Document, Jobs, Phased, Agrees, Phases, Kinds
<1>3. /\ job' = [job EXCEPT ![w] = j] /\ UNCHANGED <<txn, invoice>> /\ Arrives
  BY DEF Retrigger
<1> HIDE DEF j
<1> QED
  BY <1>2, <1>3, OneGoesOn, Parts, Counters, Whole DEF IInv, VerifiedIsSignalled

LEMMA SaveStep ==
  ASSUME IInv, NEW w \in Workers, SaveCompliance(w)
  PROVE  IInv'
<1>1. job[w] \in Jobs /\ Agrees(job[w]) /\ job[w].invoice \in Invoices
  BY JobType DEF SaveCompliance, At, Phased
<1> DEFINE i == job[w].invoice
<1>2. /\ Done(w) /\ UNCHANGED txn /\ Same
      /\ \E tax \in {0, Tax[i]} :
           invoice' = [invoice EXCEPT ![i].tax = tax,
                                      ![i].verified = job[w].verified,
                                      ![i].signals = job[w].signals]
  BY DEF SaveCompliance
<1>3. PICK tax \in {0, Tax[i]} :
         invoice' = [invoice EXCEPT ![i].tax = tax,
                                    ![i].verified = job[w].verified,
                                    ![i].signals = job[w].signals]
  BY <1>2
<1> DEFINE new == [invoice[i] EXCEPT !.tax = tax, !.verified = job[w].verified,
                                    !.signals = job[w].signals]
<1>4. invoice \in [Invoices -> Document] /\ invoice[i] \in Document
  BY <1>1, Parts DEF IInv
<1>5. invoice' = [invoice EXCEPT ![i] = new]
  BY <1>1, <1>3, <1>4
<1>6. tax \in Nat
  BY <1>1, AmountsAssumption
<1>7. new \in Document /\ Agrees(new)
  BY <1>1, <1>4, <1>6 DEF Document, Jobs, Agrees
<1> HIDE DEF new
<1>8. invoice' \in [Invoices -> Document] /\ VerifiedIsSignalled'
  BY <1>1, <1>5, <1>7, SavedAgrees
<1> QED
  BY <1>2, <1>8, DoneIsFine, Parts, Counters, Whole DEF IInv

LEMMA ExportStep ==
  ASSUME IInv, NEW i \in Invoices, Export(i)
  PROVE  IInv'
<1> DEFINE new == [invoice[i] EXCEPT !.exported = TRUE]
<1>1. invoice \in [Invoices -> Document] /\ invoice[i] \in Document
      /\ Agrees(invoice[i])
  BY Parts DEF IInv, VerifiedIsSignalled, Agrees
<1>x. /\ invoice' = [invoice EXCEPT ![i].exported = TRUE]
      /\ UNCHANGED <<txn, job>> /\ Arrives
  BY DEF Export
<1>2. invoice' = [invoice EXCEPT ![i] = new] /\ UNCHANGED <<txn, job>> /\ Arrives
  BY <1>1, <1>x
<1>3. new \in Document /\ Agrees(new)
  BY <1>1 DEF Document, Agrees
<1> HIDE DEF new
<1>4. invoice' \in [Invoices -> Document] /\ VerifiedIsSignalled'
  BY <1>2, <1>3, SavedAgrees
<1> QED
  BY <1>2, <1>4, Parts, Counters, Whole DEF IInv, JobsFine, Phased, Agrees

LEMMA FailStep ==
  ASSUME IInv, NEW w \in Workers, Fail(w)
  PROVE  IInv'
<1>1. UNCHANGED <<txn, invoice, overlapped>> /\ Fault /\ Done(w)
  BY DEF Fail
<1> QED
  BY <1>1, DoneIsFine, Parts, Counters, Whole DEF IInv, VerifiedIsSignalled

LEMMA CrashStep ==
  ASSUME IInv, Crash
  PROVE  IInv'
<1>1. UNCHANGED <<txn, invoice, overlapped>> /\ Fault
      /\ job' = [w \in Workers |-> Idle]
  BY DEF Crash
<1>2. job' \in [Workers -> Jobs] /\ JobsFine'
  BY <1>1, IdleJob DEF JobsFine
<1> QED
  BY <1>1, <1>2, Parts, Counters, Whole DEF IInv, VerifiedIsSignalled

-----------------------------------------------------------------------------
(* The theorems that hold for any number of requests at once.              *)

LEMMA InitIInv == Init => IInv
<1> SUFFICES ASSUME Init PROVE IInv
  OBVIOUS
<1>2. txn \in [Txns -> Transaction]
  BY DEF Init, Transaction, Statuses
<1>3. invoice \in [Invoices -> Document]
  BY DEF Init, Document
<1>4. job \in [Workers -> Jobs]
  BY IdleJob DEF Init
<1>z. 0 \in 0..MaxRequests /\ 0 \in 0..MaxFaults
  BY AmountsAssumption
<1>5. /\ overlapped \in BOOLEAN
      /\ used \in [requests : 0..MaxRequests, faults : 0..MaxFaults]
  BY <1>z DEF Init
<1>1. TypeOK
  BY <1>2, <1>3, <1>4, <1>5 DEF TypeOK, Transaction, Document, Jobs
<1> QED
  BY <1>1, IdleJob DEF Init, IInv, JobsFine, VerifiedIsSignalled

LEMMA StepKeepsIInv == IInv /\ [Next]_vars => IInv'
<1> SUFFICES ASSUME IInv, [Next]_vars PROVE IInv'
  OBVIOUS
<1>1. CASE \E w \in Workers : Reconcile(w) \/ Fetch(w) \/ Finish(w)
  BY <1>1, ReconcileStep, FetchStep, FinishStep
<1>2. CASE \E w \in Workers, t \in Txns : Choose(w, t) \/ Unmatch(w, t)
  BY <1>2, ChooseStep, UnmatchStep
<1>3. CASE \E w \in Workers : VerifyInvoice(w) \/ MarkManual(w) \/ ClearTxn(w)
  BY <1>3, VerifyStep, MarkStep, ClearTxnStep
<1>4. CASE \E w \in Workers, t \in Txns, i \in Invoices : Match(w, t, i)
  BY <1>4, MatchStep
<1>5. CASE \E w \in Workers : ClearInvoice(w) \/ SaveCompliance(w) \/ Fail(w)
  BY <1>5, ClearInvoiceStep, SaveStep, FailStep
<1>6. CASE \E w \in Workers, i \in Invoices : Retrigger(w, i)
  BY <1>6, RetriggerStep
<1>7. CASE \E i \in Invoices : Export(i)
  BY <1>7, ExportStep
<1>8. CASE Crash
  BY <1>8, CrashStep
<1>9. CASE UNCHANGED vars
  BY <1>9 DEF vars, IInv, TypeOK, JobsFine, VerifiedIsSignalled, Phased, Agrees
<1> QED
  BY <1>1, <1>2, <1>3, <1>4, <1>5, <1>6, <1>7, <1>8, <1>9 DEF Next

LEMMA Invariance == Spec => []IInv
  BY InitIInv, StepKeepsIInv, PTL DEF Spec

\* Documents, requests and counters keep their types.
THEOREM TypeCorrect == Spec => []TypeOK
<1>1. IInv => TypeOK
  BY DEF IInv
<1> QED
  BY <1>1, Invariance, PTL

\* An invoice has the signal of a verified payment exactly as long as it
\* names a transaction, whatever requests overlap, overwrite one another or
\* fail half-way.
THEOREM SignalledExactly == Spec => []VerifiedIsSignalled
<1>1. IInv => VerifiedIsSignalled
  BY DEF IInv
<1> QED
  BY <1>1, Invariance, PTL

-----------------------------------------------------------------------------
(* Requests served one after the other.                                    *)

\* A request at work is alone, and one that begins finds no other.
LEMMA Alone ==
  ASSUME IInv, Served, NEW w \in Workers, ~At(w, "idle") \/ ~Busy
  PROVE  \A v \in Workers \ {w} : job[v].phase = "idle" /\ job[v].kind = "none"
<1>1. \A v \in Workers \ {w} : job[v].phase = "idle"
  BY DEF Served, Busy, At
<1> QED
  BY <1>1, JobType DEF Phased

\* A request that neither reconciles nor matches depends on nothing it read.
LEMMA Quiet ==
  ASSUME NEW j, NEW txns, NEW docs, j.kind # "reconcile",
         j.phase \notin {"verify", "manual"}
  PROVE  UpToDate(j, txns, docs)
  BY DEF UpToDate

\* What a step of one request has to keep.
LEMMA OneAtATime ==
  ASSUME IInv, Served, NEW w \in Workers, ~At(w, "idle") \/ ~Busy,
         NEW j \in Jobs, job' = [job EXCEPT ![w] = j],
         UpToDate(j, txn', invoice'), Told(txn')
  PROVE  Served'
<1>1. job \in [Workers -> Jobs]
  BY Parts DEF IInv
<1>2. \A v \in Workers \ {w} : job'[v].phase = "idle" /\ job'[v].kind = "none"
  BY <1>1, Alone
<1>3. \A v \in Workers : UpToDate(job'[v], txn', invoice')
  <2> SUFFICES ASSUME NEW v \in Workers
               PROVE  UpToDate(job'[v], txn', invoice')
    OBVIOUS
  <2>1. CASE v = w
    BY <1>1, <2>1
  <2>2. CASE v # w
    BY <1>2, <2>2, Quiet
  <2> QED
    BY <2>1, <2>2
<1>4. \A u, v \in Workers : job'[u].phase # "idle" /\ job'[v].phase # "idle" => u = v
  BY <1>2
<1> QED
  BY <1>3, <1>4 DEF Served, At

LEMMA DoneAtOnce ==
  ASSUME IInv, Served, NEW w \in Workers, ~At(w, "idle"), Done(w), Told(txn')
  PROVE  Served'
<1>1. UpToDate(Idle, txn', invoice')
  BY Quiet DEF Idle
<1> QED
  BY <1>1, IdleJob, OneAtATime DEF Done

\* A transaction that is given an invoice and a status, or neither.
LEMMA PointTold ==
  ASSUME IInv, Told(txn), NEW t \in Txns, NEW i \in Invoices \cup {None},
         NEW s \in Statuses, PointAt(t, i, s), (s = "unmatched") = (i = None)
  PROVE  /\ Told(txn') /\ txn'[t].status = s /\ txn'[t].invoice = i
         /\ \A u \in Txns \ {t} : txn'[u] = txn[u]
<1>1. txn \in [Txns -> Transaction]
  BY Parts DEF IInv
<1>2. /\ txn'[t] = [status |-> s, invoice |-> i]
      /\ \A u \in Txns \ {t} : txn'[u] = txn[u]
  BY <1>1 DEF PointAt
<1>3. \A u \in Txns :
        (txn'[u].status = "unmatched") = (txn'[u].invoice = None)
  <2> SUFFICES ASSUME NEW u \in Txns
      PROVE (txn'[u].status = "unmatched") = (txn'[u].invoice = None)
    OBVIOUS
  <2>1. CASE u = t
    BY <1>2, <2>1
  <2>2. CASE u # t
    BY <1>2, <2>2 DEF Told
  <2> QED
    BY <2>1, <2>2
<1> QED
  BY <1>2, <1>3 DEF Told

LEMMA FetchServed ==
  ASSUME IInv, Served, NEW w \in Workers, Fetch(w)
  PROVE  Served'
<1>1. /\ job[w] \in Jobs /\ Phased(job[w]) /\ ~At(w, "idle")
      /\ job[w].phase = "fetch" /\ job[w].kind = "reconcile"
  BY JobType DEF Fetch, At, Phased
<1>2. job[w].todo \in SUBSET Txns
  BY <1>1 DEF Jobs
<1> DEFINE nets == Fetched(job[w].todo)
           j == [job[w] EXCEPT !.phase = "choose", !.nets = nets]
<1>3. nets \in [Invoices -> Int]
  BY <1>2, FetchedType DEF IInv
<1>4. \A i \in Invoices : nets[i] # -1 => nets[i] = Total[i] - invoice[i].tax
  BY DEF Fetched
<1>5. job' = [job EXCEPT ![w] = j] /\ UNCHANGED <<txn, invoice>>
  BY DEF Fetch
<1> HIDE DEF nets
<1>6. j \in Jobs
  BY <1>1, <1>3 DEF Jobs, Phases
<1>7. j.nets = nets /\ j.todo = job[w].todo /\ j.phase = "choose"
  BY <1>1 DEF Jobs
<1>8. \A t \in job[w].todo : txn[t].status = "unmatched"
  BY <1>1 DEF Served, UpToDate
<1> HIDE DEF j
<1>9. UpToDate(j, txn, invoice)
  BY <1>4, <1>7, <1>8 DEF UpToDate
<1> QED
  BY <1>1, <1>5, <1>6, <1>9, OneAtATime DEF Served


LEMMA ReconcileServed ==
  ASSUME IInv, Served, NEW w \in Workers, Reconcile(w), ~Busy
  PROVE  Served'
<1> DEFINE ts == {t \in Txns : txn[t].status = "unmatched"}
           j == [Idle EXCEPT !.phase = "fetch", !.kind = "reconcile", !.todo = ts]
<1>1. job' = [job EXCEPT ![w] = j] /\ UNCHANGED <<txn, invoice>>
  BY DEF Reconcile
<1>2. j \in Jobs
  BY IdleJob DEF Jobs, Phases, Kinds
<1>3. j.phase = "fetch" /\ j.todo = ts
  BY IdleJob DEF Jobs
<1> HIDE DEF j
<1>4. UpToDate(j, txn, invoice)
  BY <1>3 DEF UpToDate
<1> QED
  BY <1>1, <1>2, <1>4, OneAtATime DEF Served

LEMMA ChooseServed ==
  ASSUME IInv, Served, NEW w \in Workers, NEW t \in Txns, Choose(w, t)
  PROVE  Served'
<1>1. /\ job[w] \in Jobs /\ Phased(job[w]) /\ ~At(w, "idle")
      /\ job[w].phase = "choose" /\ job[w].kind = "reconcile"
  BY JobType, ChooseCases DEF At, Phased
<1>2. \A i \in Best(t, job[w].nets) : i \in Invoices /\ i # None
  BY AmountsAssumption DEF Best, Candidates
<1>3. /\ \A u \in job[w].todo : txn[u].status = "unmatched"
      /\ \A i \in Invoices :
           job[w].nets[i] # -1 => job[w].nets[i] = Total[i] - invoice[i].tax
  BY <1>1 DEF Served, UpToDate
<1>4. job[w].todo \in SUBSET Txns
  BY <1>1 DEF Jobs
<1>5. UNCHANGED invoice
  BY ChooseCases
<1>6. CASE \E i \in Best(t, job[w].nets) :
             /\ PointAt(t, i, "matched")
             /\ job' = [job EXCEPT ![w] =
                  [job[w] EXCEPT !.todo = @ \ {t}, !.phase = "verify",
                                 !.txn = t, !.invoice = i]]
  <2>1. PICK i \in Invoices :
             /\ i # None /\ PointAt(t, i, "matched")
             /\ job' = [job EXCEPT ![w] =
                  [job[w] EXCEPT !.todo = @ \ {t}, !.phase = "verify",
                                 !.txn = t, !.invoice = i]]
    BY <1>2, <1>6
  <2> DEFINE j == [job[w] EXCEPT !.todo = @ \ {t}, !.phase = "verify",
                                !.txn = t, !.invoice = i]
  <2>2. j \in Jobs
    BY <1>1 DEF Jobs, Phases
  <2>3. /\ j.todo = job[w].todo \ {t} /\ j.txn = t /\ j.nets = job[w].nets
        /\ j.phase = "verify"
    BY <1>1 DEF Jobs
  <2>4. job' = [job EXCEPT ![w] = j]
    BY <2>1
  <2> HIDE DEF j
  <2>5. /\ Told(txn') /\ txn'[t].status = "matched"
        /\ \A u \in Txns \ {t} : txn'[u] = txn[u]
    BY <2>1, PointTold DEF Served, Statuses
  <2>6. UpToDate(j, txn', invoice)
    BY <1>3, <1>4, <2>3, <2>5 DEF UpToDate
  <2> QED
    BY <1>1, <1>5, <2>2, <2>4, <2>5, <2>6, OneAtATime
<1>7. CASE /\ job' = [job EXCEPT ![w] = [job[w] EXCEPT !.todo = @ \ {t}]]
           /\ \/ \E i \in Best(t, job[w].nets) : PointAt(t, i, "suggested")
              \/ UNCHANGED txn
  <2> DEFINE j == [job[w] EXCEPT !.todo = @ \ {t}]
  <2>1. j \in Jobs
    BY <1>1 DEF Jobs
  <2>2. /\ j.todo = job[w].todo \ {t} /\ j.nets = job[w].nets
        /\ j.phase = "choose"
    BY <1>1 DEF Jobs
  <2>3. job' = [job EXCEPT ![w] = j]
    BY <1>7
  <2> HIDE DEF j
  <2>4. Told(txn') /\ \A u \in Txns \ {t} : txn'[u] = txn[u]
    <3>1. CASE UNCHANGED txn
      BY <3>1 DEF Served
    <3>2. CASE \E i \in Best(t, job[w].nets) : PointAt(t, i, "suggested")
      BY <1>2, <3>2, PointTold DEF Served, Statuses
    <3> QED
      BY <1>7, <3>1, <3>2
  <2>5. UpToDate(j, txn', invoice)
    BY <1>3, <1>4, <2>2, <2>4 DEF UpToDate
  <2> QED
    BY <1>1, <1>5, <2>1, <2>3, <2>4, <2>5, OneAtATime
<1> QED
  BY <1>6, <1>7, ChooseCases

LEMMA VerifyServed ==
  ASSUME IInv, Served, NEW w \in Workers, VerifyInvoice(w)
  PROVE  Served'
<1>1. /\ job[w] \in Jobs /\ Phased(job[w]) /\ ~At(w, "idle")
      /\ job[w].phase = "verify"
  BY JobType DEF VerifyInvoice, At
<1>2. job[w].txn \in Txns /\ job[w].invoice \in Invoices
  BY <1>1 DEF Phased
<1> DEFINE p == IF job[w].kind = "reconcile" THEN "choose" ELSE "manual"
           j == [job[w] EXCEPT !.phase = p]
<1>3. /\ Verify(job[w].txn, job[w].invoice) /\ UNCHANGED txn
      /\ job' = [job EXCEPT ![w].phase = p]
  BY DEF VerifyInvoice
<1>4. p \in Phases /\ p # "fetch" /\ p # "idle"
      /\ (p \in {"verify", "manual"} => job[w].phase = "verify")
  BY <1>1 DEF Phases
<1> HIDE DEF p
<1>5. job' = [job EXCEPT ![w] = j]
  BY <1>3
<1>6. j \in Jobs /\ j.phase = p /\ j.kind = job[w].kind /\ j.txn = job[w].txn
      /\ j.todo = job[w].todo /\ j.nets = job[w].nets
  BY <1>1, <1>4 DEF Jobs
<1> HIDE DEF j
<1>7. \A i \in Invoices : invoice'[i].tax = invoice[i].tax
  <2>1. invoice \in [Invoices -> Document]
    BY Parts DEF IInv
  <2>2. invoice' = [invoice EXCEPT ![job[w].invoice] =
          [invoice[job[w].invoice] EXCEPT !.verified = job[w].txn,
                                          !.signals = @ + 1]]
    BY <1>2, <1>3, <2>1 DEF Verify
  <2>3. \A r \in Document : \A t, n :
          [r EXCEPT !.verified = t, !.signals = n].tax = r.tax
    BY DEF Document
  <2> QED
    BY <1>2, <2>1, <2>2, <2>3
<1>8. UpToDate(job[w], txn, invoice)
  BY DEF Served
<1>9. UpToDate(j, txn, invoice')
  BY <1>1, <1>4, <1>6, <1>7, <1>8 DEF UpToDate
<1> QED
  BY <1>1, <1>3, <1>5, <1>6, <1>9, OneAtATime DEF Served

LEMMA MatchServed ==
  ASSUME IInv, Served, NEW w \in Workers, NEW t \in Txns, NEW i \in Invoices,
         Match(w, t, i), ~Busy
  PROVE  Served'
<1> DEFINE j == [Idle EXCEPT !.phase = "verify", !.kind = "match",
                            !.txn = t, !.invoice = i]
<1>1. j \in Jobs
  BY IdleJob DEF Jobs, Phases, Kinds
<1>2. j.phase = "verify" /\ j.kind = "match" /\ j.txn = t
  BY IdleJob DEF Jobs
<1>3. job' = [job EXCEPT ![w] = j] /\ PointAt(t, i, "matched")
  BY DEF Match
<1> HIDE DEF j
<1>4. i # None
  BY AmountsAssumption
<1>5. Told(txn') /\ txn'[t].status = "matched"
  BY <1>3, <1>4, PointTold DEF Served, Statuses
<1>6. UpToDate(j, txn', invoice')
  BY <1>2, <1>5 DEF UpToDate
<1> QED
  BY <1>1, <1>3, <1>5, <1>6, OneAtATime

LEMMA MarkServed ==
  ASSUME IInv, Served, NEW w \in Workers, MarkManual(w)
  PROVE  Served'
<1>1. /\ job[w] \in Jobs /\ Phased(job[w]) /\ ~At(w, "idle")
      /\ job[w].phase = "manual"
  BY JobType DEF MarkManual, At
<1>2. job[w].txn \in Txns /\ txn[job[w].txn].status # "unmatched"
  BY <1>1 DEF Phased, Served, UpToDate
<1> DEFINE t == job[w].txn
<1>3. /\ Done(w) /\ txn' = [txn EXCEPT ![t].status = "manual"]
  BY DEF MarkManual
<1>4. txn \in [Txns -> Transaction]
  BY Parts DEF IInv
<1> HIDE DEF t
<1>5. t \in Txns /\ txn[t].status # "unmatched"
  BY <1>2 DEF t
<1>6. PointAt(t, txn[t].invoice, "manual")
  <2>1. [txn[t] EXCEPT !.status = "manual"]
          = [status |-> "manual", invoice |-> txn[t].invoice]
    BY <1>4, <1>5 DEF Transaction
  <2> QED
    BY <1>3, <1>4, <1>5, <2>1 DEF PointAt
<1>7. txn[t].invoice # None /\ txn[t].invoice \in Invoices \cup {None}
  BY <1>4, <1>5 DEF Served, Told, Transaction
<1>8. Told(txn')
  BY <1>5, <1>6, <1>7, PointTold DEF Served, Statuses
<1> QED
  BY <1>1, <1>3, <1>8, DoneAtOnce


LEMMA UnmatchServed ==
  ASSUME IInv, Served, NEW w \in Workers, NEW t \in Txns, Unmatch(w, t), ~Busy
  PROVE  Served'
<1> DEFINE j == [Idle EXCEPT !.phase = "clear", !.kind = "unmatch", !.txn = t,
                            !.invoice = txn[t].invoice]
<1>1. txn[t].invoice \in Invoices \cup {None}
  BY Parts DEF IInv, Transaction
<1>2. j \in Jobs
  BY <1>1, IdleJob DEF Jobs, Phases, Kinds
<1>3. j.phase = "clear" /\ j.kind = "unmatch"
  BY IdleJob DEF Jobs
<1>4. job' = [job EXCEPT ![w] = j] /\ UNCHANGED <<txn, invoice>>
  BY DEF Unmatch
<1> HIDE DEF j
<1> QED
  BY <1>2, <1>3, <1>4, Quiet, OneAtATime DEF Served

LEMMA ClearTxnServed ==
  ASSUME IInv, Served, NEW w \in Workers, ClearTxn(w)
  PROVE  Served'
<1>1. /\ job[w] \in Jobs /\ Phased(job[w]) /\ ~At(w, "idle")
      /\ job[w].phase = "clear"
  BY JobType DEF ClearTxn, At
<1>2. job[w].txn \in Txns /\ job[w].kind = "unmatch"
  BY <1>1 DEF Phased
<1>3. /\ PointAt(job[w].txn, None, "unmatched") /\ UNCHANGED invoice
      /\ Done(w) \/ job' = [job EXCEPT ![w].phase = "save"]
  BY DEF ClearTxn
<1>4. Told(txn')
  BY <1>2, <1>3, PointTold DEF Served, Statuses
<1>5. CASE Done(w)
  BY <1>1, <1>4, <1>5, DoneAtOnce
<1>6. CASE job' = [job EXCEPT ![w].phase = "save"]
  <2> DEFINE j == [job[w] EXCEPT !.phase = "save"]
  <2>1. j \in Jobs /\ j.phase = "save" /\ j.kind = "unmatch"
    BY <1>1, <1>2 DEF Jobs, Phases
  <2>2. job' = [job EXCEPT ![w] = j]
    BY <1>6
  <2> HIDE DEF j
  <2> QED
    BY <1>1, <1>4, <2>1, <2>2, Quiet, OneAtATime
<1> QED
  BY <1>3, <1>5, <1>6

LEMMA RetriggerServed ==
  ASSUME IInv, Served, NEW w \in Workers, NEW i \in Invoices, Retrigger(w, i),
         ~Busy
  PROVE  Served'
<1> DEFINE j == [Idle EXCEPT !.phase = "save", !.kind = "retrigger",
                            !.invoice = i, !.verified = invoice[i].verified,
                            !.signals = invoice[i].signals]
<1>1. invoice[i] \in Document
  BY Parts DEF IInv
<1>2. j \in Jobs
  BY <1>1, IdleJob DEF Document, Jobs, Phases, Kinds
<1>3. j.phase = "save" /\ j.kind = "retrigger"
  BY IdleJob DEF Jobs
<1>4. job' = [job EXCEPT ![w] = j] /\ UNCHANGED <<txn, invoice>>
  BY DEF Retrigger
<1> HIDE DEF j
<1> QED
  BY <1>2, <1>3, <1>4, Quiet, OneAtATime DEF Served

\* The steps with which a request ends.
LEMMA EndServed ==
  ASSUME IInv, Served, NEW w \in Workers,
         Finish(w) \/ ClearInvoice(w) \/ SaveCompliance(w) \/ Fail(w)
  PROVE  Served'
<1>1. ~At(w, "idle") /\ Done(w) /\ UNCHANGED txn
  BY DEF Finish, ClearInvoice, SaveCompliance, Fail, At
<1> QED
  BY <1>1, DoneAtOnce DEF Served

\* An export that finds no request, and a crash that leaves none.
LEMMA NobodyServed ==
  ASSUME IInv, Served, UNCHANGED txn,
         job' = [w \in Workers |-> Idle] \/ (UNCHANGED job /\ ~Busy)
  PROVE  Served'
<1>1. \A w \in Workers : job'[w].phase = "idle" /\ job'[w].kind = "none"
  BY JobType DEF Idle, Busy, At, Phased
<1>2. \A w \in Workers : UpToDate(job'[w], txn', invoice')
  BY <1>1, Quiet
<1> QED
  BY <1>1, <1>2 DEF Served, At

\* A request that begins while another is handled is remembered.
LEMMA Overlaps ==
  ASSUME IInv, [Next]_vars, ~overlapped'
  PROVE  ~overlapped /\ (Arrives => ~Busy)
<1>1. CASE Next
  <2>1. Arrives \/ UNCHANGED overlapped
    <3>1. \A w \in Workers : Reconcile(w) \/ Fetch(w) \/ Finish(w)
                             => Arrives \/ UNCHANGED overlapped
      BY DEF Reconcile, Fetch, Finish, Same
    <3>2. \A w \in Workers : \A t \in Txns : Choose(w, t) => UNCHANGED overlapped
      BY DEF Choose, Same
    <3>3. \A w \in Workers : VerifyInvoice(w) \/ MarkManual(w)
                             => UNCHANGED overlapped
      BY DEF VerifyInvoice, MarkManual, Same
    <3>4. \A w \in Workers : \A t \in Txns, i \in Invoices : Match(w, t, i) => Arrives
      BY DEF Match
    <3>5. \A w \in Workers : \A t \in Txns : Unmatch(w, t) => Arrives
      BY DEF Unmatch
    <3>6. \A w \in Workers : ClearTxn(w) \/ ClearInvoice(w) => UNCHANGED overlapped
      BY DEF ClearTxn, ClearInvoice, Same
    <3>7. \A w \in Workers : \A i \in Invoices : Retrigger(w, i) => Arrives
      BY DEF Retrigger
    <3>8. \A w \in Workers : SaveCompliance(w) \/ Fail(w) => UNCHANGED overlapped
      BY DEF SaveCompliance, Fail, Same
    <3>9. \A i \in Invoices : Export(i) => Arrives
      BY DEF Export
    <3>10. Crash => UNCHANGED overlapped
      BY DEF Crash
    <3> QED
      BY <1>1, <3>1, <3>2, <3>3, <3>4, <3>5, <3>6, <3>7, <3>8, <3>9, <3>10 DEF Next
  <2>2. Arrives => ~overlapped /\ ~Busy
    BY DEF Arrives
  <2>3. UNCHANGED overlapped => ~overlapped
    OBVIOUS
  <2>4. CASE Arrives
    BY <2>2, <2>4
  <2>5. CASE ~Arrives
    BY <2>1, <2>3, <2>5
  <2> QED
    BY <2>4, <2>5
<1>2. CASE UNCHANGED vars
  BY <1>2 DEF vars, Arrives
<1> QED
  BY <1>1, <1>2

LEMMA StepKeepsSerial == IInv /\ Serial /\ [Next]_vars => Serial'
<1> SUFFICES ASSUME IInv, Serial, [Next]_vars, ~overlapped' PROVE Served'
  BY DEF Serial
<1>0. Served /\ (Arrives => ~Busy)
  BY Overlaps DEF Serial
<1>1. CASE \E w \in Workers : Reconcile(w) \/ Fetch(w)
  BY <1>0, <1>1, ReconcileServed, FetchServed DEF Reconcile
<1>2. CASE \E w \in Workers, t \in Txns : Choose(w, t) \/ Unmatch(w, t)
  BY <1>0, <1>2, ChooseServed, UnmatchServed DEF Unmatch
<1>3. CASE \E w \in Workers : VerifyInvoice(w) \/ MarkManual(w) \/ ClearTxn(w)
  BY <1>0, <1>3, VerifyServed, MarkServed, ClearTxnServed
<1>4. CASE \E w \in Workers, t \in Txns, i \in Invoices : Match(w, t, i)
  BY <1>0, <1>4, MatchServed DEF Match
<1>5. CASE \E w \in Workers :
             Finish(w) \/ ClearInvoice(w) \/ SaveCompliance(w) \/ Fail(w)
  BY <1>0, <1>5, EndServed
<1>6. CASE \E w \in Workers, i \in Invoices : Retrigger(w, i)
  BY <1>0, <1>6, RetriggerServed DEF Retrigger
<1>7. CASE (\E i \in Invoices : Export(i)) \/ Crash
  BY <1>0, <1>7, NobodyServed DEF Export, Crash
<1>8. CASE UNCHANGED vars
  BY <1>0, <1>8 DEF vars, Served, UpToDate, At, Told
<1> QED
  BY <1>1, <1>2, <1>3, <1>4, <1>5, <1>6, <1>7, <1>8 DEF Next

LEMMA SerialInvariance == Spec => [](IInv /\ Serial)
<1>1. Init => Serial
  <2> SUFFICES ASSUME Init PROVE Served
    BY DEF Serial
  <2>1. \A w \in Workers : job[w].phase = "idle" /\ job[w].kind = "none"
    BY DEF Init, Idle
  <2>2. \A w \in Workers : UpToDate(job[w], txn, invoice)
    BY <2>1, Quiet
  <2>3. Told(txn)
    BY DEF Init, Told
  <2> QED
    BY <2>1, <2>2, <2>3 DEF Served, At
<1> QED
  BY <1>1, InitIInv, StepKeepsIInv, StepKeepsSerial, PTL DEF Spec


-----------------------------------------------------------------------------
(* The theorems about requests that are served one after the other.        *)

\* No failed call and no crash leaves a transaction unmatched that names an
\* invoice, or one with a status that names none.
THEOREM StatusTells == Spec => []StatusTellsInvoice
<1>1. Serial => StatusTellsInvoice
  BY DEF Serial, Served, Told, StatusTellsInvoice
<1> QED
  BY <1>1, SerialInvariance, PTL

\* Only a run's own choices touch a transaction while it runs.
LEMMA RunChooses ==
  ASSUME IInv, Serial, [Next]_vars, NEW t \in Txns, Running(t), ~overlapped'
  PROVE  /\ Served
         /\ \E w \in Workers : Choose(w, t) /\ job[w].kind = "reconcile"
<1>0. Served /\ (Arrives => ~Busy)
  BY Overlaps DEF Serial
<1>1. PICK r \in Workers : job[r].kind = "reconcile" /\ txn'[t] # txn[t]
  BY DEF Running
<1>2. ~At(r, "idle") /\ Busy /\ ~Arrives
  BY <1>0, <1>1, JobType DEF Phased, At, Busy
<1>3. txn' # txn
  BY <1>1
<1>4. CASE \E w \in Workers, u \in Txns : Choose(w, u)
  <2>1. PICK w \in Workers, u \in Txns : Choose(w, u)
    BY <1>4
  <2>2. UNCHANGED txn \/ \E i, s : PointAt(u, i, s)
    BY <2>1, ChooseCases
  <2>3. txn \in [Txns -> Transaction]
    BY Parts DEF IInv
  <2>4. t = u
    BY <1>1, <2>2, <2>3 DEF PointAt
  <2>5. job[w].kind = "reconcile"
    BY <2>1, ChooseCases, JobType DEF Phased
  <2> QED
    BY <1>0, <2>1, <2>4, <2>5
<1>5. CASE \E w \in Workers : MarkManual(w) \/ ClearTxn(w)
  <2>1. PICK w \in Workers : MarkManual(w) \/ ClearTxn(w)
    BY <1>5
  <2>2. job[w].phase \in {"manual", "clear"}
    BY <2>1 DEF MarkManual, ClearTxn, At
  <2>3. w = r
    BY <1>0, <1>2, <2>2 DEF Served, At
  <2> QED
    BY <1>1, <2>2, <2>3, JobType DEF Phased
<1>6. \A w \in Workers : ~Reconcile(w) /\ ~Fetch(w) /\ ~Finish(w)
  BY <1>2, <1>3 DEF Reconcile, Fetch, Finish
<1>7. \A w \in Workers : \A u \in Txns :
        ~Unmatch(w, u) /\ \A i \in Invoices : ~Match(w, u, i)
  BY <1>2 DEF Match, Unmatch
<1>8. \A w \in Workers : ~VerifyInvoice(w) /\ ~ClearInvoice(w) /\ ~SaveCompliance(w) /\ ~Fail(w)
  BY <1>3 DEF VerifyInvoice, ClearInvoice, SaveCompliance, Fail
<1>9. /\ \A i \in Invoices : ~Export(i)
      /\ \A w \in Workers : \A i \in Invoices : ~Retrigger(w, i)
  BY <1>2 DEF Export, Retrigger
<1>10. ~Crash /\ ~UNCHANGED vars
  BY <1>3 DEF Crash, vars
<1>11. Next
  BY <1>10
<1>12. \/ \E w \in Workers, u \in Txns : Choose(w, u)
       \/ \E w \in Workers : MarkManual(w) \/ ClearTxn(w)
  BY <1>6, <1>7, <1>8, <1>9, <1>10, <1>11 DEF Next
<1> QED
  BY <1>4, <1>5, <1>12

\* A run matches and suggests only what is due within the tolerance, by the
\* tax the invoice has at that moment: nothing else has touched it since.
THEOREM RunMatches == Spec => RunMatchesAmounts
<1> DEFINE P == \A t \in Txns : Running(t) /\ ~overlapped' =>
       LET i == txn'[t].invoice IN
         Distance(Due(Total[i] - invoice[i].tax), Debit[t]) <= Tolerance
<1>1. IInv /\ Serial /\ [Next]_vars => P
  <2> SUFFICES ASSUME IInv, Serial, [Next]_vars, NEW t \in Txns, Running(t),
                      ~overlapped'
      PROVE  LET i == txn'[t].invoice IN
               Distance(Due(Total[i] - invoice[i].tax), Debit[t]) <= Tolerance
    OBVIOUS
  <2>1. PICK w \in Workers : Choose(w, t) /\ job[w].kind = "reconcile"
    BY RunChooses
  <2>2. Served /\ txn'[t] # txn[t]
    BY RunChooses DEF Running
  <2>3. PICK i \in Best(t, job[w].nets) : \E s : PointAt(t, i, s)
    BY <2>1, <2>2, ChooseCases
  <2>4. i \in Invoices /\ CloseEnough(t, job[w].nets[i])
    BY DEF Best, Candidates
  <2>5. txn'[t].invoice = i
    BY <2>3, Parts DEF PointAt, IInv
  <2>6. job[w].nets[i] # -1 => job[w].nets[i] = Total[i] - invoice[i].tax
    BY <2>1, <2>2, <2>4, ChooseCases DEF Served, UpToDate
  <2>7. /\ job[w].nets[i] # -1
        /\ Distance(Due(job[w].nets[i]), Debit[t]) <= Tolerance
    BY <2>4 DEF CloseEnough
  <2> QED
    BY <2>5, <2>6, <2>7
<1> QED
  BY <1>1, SerialInvariance, PTL DEF Spec, RunMatchesAmounts

\* A run works on what was unmatched when it began, and that stays so until
\* it has dealt with it: it never takes over a match made by hand.
THEOREM ManualMatchesStand == Spec => ManualStands
<1> DEFINE P == \A t \in Txns :
       txn[t].status = "manual" /\ Running(t) => overlapped'
<1>1. IInv /\ Serial /\ [Next]_vars => P
  <2> SUFFICES ASSUME IInv, Serial, [Next]_vars, NEW t \in Txns, Running(t),
                      ~overlapped'
      PROVE  txn[t].status # "manual"
    OBVIOUS
  <2>1. PICK w \in Workers : Choose(w, t) /\ job[w].kind = "reconcile"
    BY RunChooses
  <2>2. t \in job[w].todo /\ Served
    BY <2>1, ChooseCases, RunChooses
  <2> QED
    BY <2>1, <2>2 DEF Served, UpToDate
<1> QED
  BY <1>1, SerialInvariance, PTL DEF Spec, ManualStands

-----------------------------------------------------------------------------
(* Runs leave nothing behind that is due exactly.                          *)

\* A quotient is bounded by what the divisor times the bound bounds.
LEMMA QuotientAtMost ==
  ASSUME NEW a \in Nat, NEW b \in Nat \ {0}, NEW q \in Nat,
         a < b * (q + 1)
  PROVE  a \div b <= q
<1> DEFINE d == a \div b
           r == a % b
<1>1. d \in Int /\ r \in 0..(b - 1) /\ a = b * d + r
  OBVIOUS
<1> HIDE DEF d, r
<1>2. SUFFICES ASSUME d >= q + 1 PROVE FALSE
  BY <1>1 DEF d
<1>3. b * d >= b * (q + 1)
  BY <1>1, <1>2
<1> QED
  BY <1>1, <1>3

\* Scores that have a bound have a greatest.
LEMMA Greatest ==
  ASSUME NEW S, S # {}, NEW m \in Nat, NEW f \in [S -> 0..m]
  PROVE  \E x \in S : \A y \in S : f[y] <= f[x]
<1> DEFINE D == {m - f[x] : x \in S}
           R == OpToRel(<, Nat)
<1>1. D \in SUBSET Nat /\ D # {}
  OBVIOUS
<1>2. \A n \in Nat, k \in Nat : k < n => <<k, n>> \in R
  BY DEF OpToRel
<1>3. IsWellFoundedOn(R, Nat)
  BY NatLessThanWellFounded
<1>4. \E n \in D : \A k \in D : ~(<<k, n>> \in R)
  <2> HIDE DEF D, R
  <2> QED
    BY <1>1, <1>3, WFMin
<1> HIDE DEF R
<1>5. PICK n \in D : \A k \in D : n <= k
  <2> HIDE DEF D
  <2>1. PICK n \in D : \A k \in D : ~(<<k, n>> \in R)
    BY <1>4
  <2>2. \A k \in D : ~(k < n)
    BY <1>1, <1>2, <2>1
  <2>3. \A k \in D : n <= k
    BY <1>1, <2>2
  <2> QED
    BY <2>3
<1>6. PICK x \in S : n = m - f[x]
  BY <1>5
<1>7. \A y \in S : f[y] <= f[x]
  BY <1>5, <1>6
<1> QED
  BY <1>7

LEMMA Distribute ==
  ASSUME NEW a \in Nat, NEW p \in Nat
  PROVE  /\ a * p \in Nat /\ a * (100 + p) = 100 * a + a * p
         /\ (p = 0 => a * p = 0)
<1>1. a * p \in Nat /\ (p = 0 => a * p = 0)
  OBVIOUS
<1>2. a * (100 + p) = 100 * a + a * p
  OBVIOUS
<1> QED
  BY <1>1, <1>2

\* Adding a percentage and taking it away, rounded, surrounds the number.
LEMMA RoundedBack ==
  ASSUME NEW n \in Nat, NEW p \in Nat, NEW d \in Nat,
         d = n + Rounded(n * p, 100)
  PROVE  /\ Rounded(d * 100, 100 + p) \in Int /\ Rounded(d * 100, 100 + p) <= n
         /\ Rounded(d * (100 + p), 100) \in Int /\ n <= Rounded(d * (100 + p), 100)
<1> DEFINE x == n * p
           h == 100 + p
           c == n * h
           g == d * h
           a == 2 * (d * 100) + h
<1>1. x \in Nat /\ c = 100 * n + x /\ (p = 0 => x = 0) /\ h \in Nat \ {0}
  BY Distribute
<1>2. g \in Nat /\ g >= 100 * d
  BY Distribute
<1>3. d = n + ((2 * x + 100) \div 200)
  BY DEF Rounded
<1> HIDE DEF x
<1>4. d >= n /\ 200 * (d - n) <= 2 * x + 100 /\ (x = 0 => d = n)
  BY <1>1, <1>3
<1>5. (2 * h) * (n + 1) = 2 * c + 2 * h
  OBVIOUS
<1> HIDE DEF c
<1>6. a < 2 * c + 2 * h
  BY <1>1, <1>4
<1>7. a \in Nat /\ 2 * h \in Nat \ {0} /\ a < (2 * h) * (n + 1)
  BY <1>1, <1>5, <1>6
<1> HIDE DEF a, h
<1>8. a \div (2 * h) <= n /\ a \div (2 * h) \in Int
  BY <1>7, QuotientAtMost
<1> HIDE DEF g
<1>9. n <= (2 * g + 100) \div 200 /\ (2 * g + 100) \div 200 \in Int
  BY <1>2, <1>4
<1>10. Rounded(d * 100, 100 + p) = a \div (2 * h)
  BY DEF Rounded, a, h
<1>11. Rounded(d * (100 + p), 100) = (2 * g + 100) \div 200
  BY DEF Rounded, g, h
<1> QED
  BY <1>8, <1>9, <1>10, <1>11

\* The total an exact debit was paid for is in the debit's range.
LEMMA ExactIsInRange ==
  ASSUME NEW t \in Txns, NEW i \in Invoices, Due(Total[i]) = Debit[t]
  PROVE  Low(t) <= Total[i] /\ Total[i] <= High(t)
<1> DEFINE n == Total[i]
           d == Debit[t]
           p == TcsPercent
<1>1. n \in Nat /\ d \in Nat /\ p \in Nat /\ Tolerance \in Nat
  BY AmountsAssumption
<1>2. d = n + Rounded(n * p, 100)
  BY DEF Due
<1>3. /\ Low(t) = Rounded(d * 100, 100 + p) - Tolerance
      /\ High(t) = Rounded(d * (100 + p), 100) + Tolerance
  BY DEF Low, High
<1> HIDE DEF n, d, p
<1>4. Low(t) <= n /\ n <= High(t)
  BY <1>1, <1>2, <1>3, RoundedBack
<1> QED
  BY <1>4 DEF n

\* An exact candidate is worth suggesting, and nothing is worth more than 110.
LEMMA ScoreBounds ==
  ASSUME NEW t \in Txns, NEW i \in Invoices, NEW net \in Int
  PROVE  /\ Score(t, i, net) \in 0..110
         /\ Due(net) = Debit[t] => Score(t, i, net) >= 50
<1>1. Fits[t][i] \in Fit /\ Debit[t] \in Nat
  BY AmountsAssumption
<1>2. AmountScore(t, net) \in {10, 50}
      /\ (Due(net) = Debit[t] => AmountScore(t, net) = 50)
  BY <1>1 DEF AmountScore, Distance
<1>3. NumberScore(Fits[t][i]) \in {0, 30}
  BY DEF NumberScore
<1>4. NameScore(Fits[t][i]) \in {0, 15, 20}
  BY <1>1 DEF NameScore, Fit
<1>5. DateScore(Fits[t][i]) \in {0, 2, 5, 10}
  <2>1. Fits[t][i].days \in Nat
    BY <1>1 DEF Fit
  <2> QED
    BY <2>1 DEF DateScore
<1> QED
  BY <1>2, <1>3, <1>4, <1>5 DEF Score

\* A candidate that is due exactly gives the run a best one to suggest.
LEMMA ExactIsChosen ==
  ASSUME NEW t \in Txns, NEW nets \in [Invoices -> Int], NEW i \in Invoices,
         nets[i] >= 0, Due(nets[i]) = Debit[t]
  PROVE  /\ Best(t, nets) # {}
         /\ \A k \in Best(t, nets) : Score(t, k, nets[k]) >= 50
<1> DEFINE C == Candidates(t, nets)
           f == [k \in C |-> Score(t, k, nets[k])]
<1>1. C \subseteq Invoices
  BY DEF Candidates
<1>2. Debit[t] \in Nat /\ Tolerance \in Nat
  BY AmountsAssumption
<1>3. i \in C
  BY <1>2 DEF Candidates, CloseEnough, Distance
<1>4. f \in [C -> 0..110]
  BY <1>1, ScoreBounds
<1>5. \E k \in C : \A j \in C : f[j] <= f[k]
  <2> HIDE DEF C, f
  <2> QED
    BY <1>3, <1>4, Greatest
<1>6. Best(t, nets) # {}
  BY <1>5 DEF Best
<1>7. \A k \in Best(t, nets) :
        k \in Invoices /\ Score(t, i, nets[i]) <= Score(t, k, nets[k])
  BY <1>1, <1>3 DEF Best
<1>8. Score(t, i, nets[i]) >= 50 /\ Score(t, i, nets[i]) \in Int
  BY ScoreBounds
<1>9. \A k \in Best(t, nets) : Score(t, k, nets[k]) \in Int
  BY <1>7, ScoreBounds
<1> QED
  BY <1>6, <1>7, <1>8, <1>9

\* An invoice not exported, without tax deducted, of which this debit is due.
Exact(t, i, docs) ==
  ~docs[i].exported /\ docs[i].tax = 0 /\ Due(Total[i]) = Debit[t]

\* A run has in hand the unmatched debits that are due exactly on an invoice,
\* and has found that invoice.
Covered(j, txns, docs) ==
  j.kind = "reconcile" =>
    \A t \in Txns, i \in Invoices :
      txns[t].status = "unmatched" /\ Exact(t, i, docs) =>
        /\ t \in j.todo
        /\ j.phase # "fetch" => j.nets[i] = Total[i]

AllCovered == \A w \in Workers : Covered(job[w], txn, invoice)
Covering == ~overlapped => AllCovered

\* Whoever does not reconcile has nothing to cover; and only one is at work.
LEMMA OneCovers ==
  ASSUME IInv, Served, NEW w \in Workers, ~At(w, "idle") \/ ~Busy,
         NEW j \in Jobs, job' = [job EXCEPT ![w] = j],
         Covered(j, txn', invoice')
  PROVE  AllCovered'
<1>1. job \in [Workers -> Jobs]
  BY Parts DEF IInv
<1>2. \A v \in Workers \ {w} : job'[v].kind = "none"
  BY <1>1, Alone
<1>3. job'[w] = j
  BY <1>1
<1>4. \A v \in Workers : Covered(job'[v], txn', invoice')
  <2> SUFFICES ASSUME NEW v \in Workers
               PROVE  Covered(job'[v], txn', invoice')
    OBVIOUS
  <2>1. CASE v = w
    BY <1>3, <2>1
  <2>2. CASE v # w
    BY <1>2, <2>2 DEF Covered
  <2> QED
    BY <2>1, <2>2
<1> QED
  BY <1>4 DEF AllCovered

\* A step that leaves no run.
LEMMA NobodyCovers ==
  ASSUME IInv, Served, NEW w \in Workers, ~At(w, "idle") \/ ~Busy,
         NEW j \in Jobs, job' = [job EXCEPT ![w] = j], j.kind # "reconcile"
  PROVE  AllCovered'
  BY OneCovers DEF Covered

LEMMA ReconcileCovers ==
  ASSUME IInv, Served, NEW w \in Workers, Reconcile(w), ~Busy
  PROVE  AllCovered'
<1> DEFINE ts == {t \in Txns : txn[t].status = "unmatched"}
           j == [Idle EXCEPT !.phase = "fetch", !.kind = "reconcile", !.todo = ts]
<1>1. job' = [job EXCEPT ![w] = j] /\ UNCHANGED <<txn, invoice>>
  BY DEF Reconcile
<1>2. j \in Jobs
  BY IdleJob DEF Jobs, Phases, Kinds
<1>3. j.phase = "fetch" /\ j.todo = ts
  BY IdleJob DEF Jobs
<1> HIDE DEF j
<1>4. Covered(j, txn', invoice')
  BY <1>1, <1>3 DEF Covered
<1> QED
  BY <1>1, <1>2, <1>4, OneCovers

LEMMA FetchCovers ==
  ASSUME IInv, Served, AllCovered, NEW w \in Workers, Fetch(w)
  PROVE  AllCovered'
<1>1. /\ job[w] \in Jobs /\ Phased(job[w]) /\ ~At(w, "idle")
      /\ job[w].phase = "fetch" /\ job[w].kind = "reconcile"
  BY JobType DEF Fetch, At, Phased
<1>2. job[w].todo \in SUBSET Txns
  BY <1>1 DEF Jobs
<1> DEFINE nets == Fetched(job[w].todo)
           j == [job[w] EXCEPT !.phase = "choose", !.nets = nets]
<1>3. nets \in [Invoices -> Int]
  BY <1>2, FetchedType DEF IInv
<1>4. \A t \in job[w].todo : \A i \in Invoices :
        Exact(t, i, invoice) => nets[i] = Total[i]
  <2> SUFFICES ASSUME NEW t \in job[w].todo, NEW i \in Invoices,
                      Exact(t, i, invoice)
               PROVE  nets[i] = Total[i]
    OBVIOUS
  <2>1. t \in Txns /\ Due(Total[i]) = Debit[t]
    BY <1>2 DEF Exact
  <2>2. Low(t) <= Total[i] /\ Total[i] <= High(t)
    BY <2>1, ExactIsInRange
  <2>3. InRange(i, job[w].todo)
    BY <2>2 DEF InRange
  <2>4. nets[i] = Total[i] - invoice[i].tax
    BY <2>3 DEF Fetched, Exact
  <2>5. invoice[i].tax = 0 /\ Total[i] \in Nat
    BY AmountsAssumption DEF Exact
  <2> QED
    BY <2>4, <2>5
<1>5. job' = [job EXCEPT ![w] = j] /\ UNCHANGED <<txn, invoice>>
  BY DEF Fetch
<1> HIDE DEF nets
<1>6. j \in Jobs
  BY <1>1, <1>3 DEF Jobs, Phases
<1>7. j.nets = nets /\ j.todo = job[w].todo
  BY <1>1 DEF Jobs
<1>8. \A t \in Txns, i \in Invoices :
        txn[t].status = "unmatched" /\ Exact(t, i, invoice) => t \in job[w].todo
  BY <1>1 DEF AllCovered, Covered
<1> HIDE DEF j
<1>9. Covered(j, txn, invoice)
  BY <1>4, <1>7, <1>8 DEF Covered
<1>10. Covered(j, txn', invoice')
  BY <1>5, <1>9
<1> QED
  BY <1>1, <1>5, <1>6, <1>10, OneCovers

\* The choice, with the conditions under which a transaction is passed over.
LEMMA PassedOver ==
  ASSUME IInv, NEW w \in Workers, NEW t \in Txns, Choose(w, t),
         txn'[t].status = "unmatched", UNCHANGED txn
  PROVE  \/ Best(t, job[w].nets) = {}
         \/ \E k \in Best(t, job[w].nets) : Score(t, k, job[w].nets[k]) < Suggest
<1>1. txn \in [Txns -> Transaction]
  BY Parts DEF IInv
<1>2. \A k, s : PointAt(t, k, s) => txn'[t].status = s
  BY <1>1 DEF PointAt
<1>3. \A k : ~PointAt(t, k, "matched") /\ ~PointAt(t, k, "suggested")
  BY <1>2
<1> QED
  BY <1>3 DEF Choose

LEMMA ChooseCovers ==
  ASSUME IInv, Served, AllCovered, Suggest <= 50,
         NEW w \in Workers, NEW t \in Txns, Choose(w, t)
  PROVE  AllCovered'
<1>1. /\ job[w] \in Jobs /\ Phased(job[w]) /\ ~At(w, "idle")
      /\ job[w].phase = "choose" /\ job[w].kind = "reconcile"
  BY JobType, ChooseCases DEF At, Phased
<1>2. job[w].nets \in [Invoices -> Int] /\ job[w].todo \in SUBSET Txns
  BY <1>1 DEF Jobs
<1>3. \A u \in Txns, i \in Invoices :
        txn[u].status = "unmatched" /\ Exact(u, i, invoice) =>
          u \in job[w].todo /\ job[w].nets[i] = Total[i]
  BY <1>1 DEF AllCovered, Covered
<1>4. UNCHANGED invoice
  BY ChooseCases
<1>5. /\ \A u \in Txns \ {t} : txn'[u] = txn[u]
      /\ UNCHANGED txn \/ txn'[t].status \in {"matched", "suggested"}
  <2>1. txn \in [Txns -> Transaction]
    BY Parts DEF IInv
  <2>2. \A k, s : PointAt(t, k, s) =>
          txn'[t].status = s /\ \A u \in Txns \ {t} : txn'[u] = txn[u]
    BY <2>1 DEF PointAt
  <2>3. \/ UNCHANGED txn
        \/ \E k : PointAt(t, k, "matched")
        \/ \E k : PointAt(t, k, "suggested")
    BY ChooseCases
  <2> QED
    BY <2>2, <2>3
<1>6. \A u \in Txns : txn'[u].status = "unmatched" => txn[u].status = "unmatched"
  BY <1>5
<1>7. ASSUME NEW i \in Invoices, Exact(t, i, invoice), txn'[t].status = "unmatched"
      PROVE  FALSE
  <2>1. UNCHANGED txn
    BY <1>5, <1>7
  <2>2. job[w].nets[i] = Total[i]
    BY <1>3, <1>6, <1>7
  <2>3. job[w].nets[i] >= 0 /\ Due(job[w].nets[i]) = Debit[t]
    BY <1>7, <2>2, AmountsAssumption DEF Exact
  <2>4. /\ Best(t, job[w].nets) # {}
        /\ \A k \in Best(t, job[w].nets) : Score(t, k, job[w].nets[k]) >= 50
    BY <1>2, <2>3, ExactIsChosen
  <2>5. PICK k \in Best(t, job[w].nets) : Score(t, k, job[w].nets[k]) < Suggest
    BY <1>7, <2>1, <2>4, PassedOver
  <2>6. k \in Invoices /\ Score(t, k, job[w].nets[k]) \in Int
    BY <1>2, ScoreBounds DEF Best, Candidates
  <2> QED
    BY <2>4, <2>5, <2>6, AmountsAssumption
<1>8. ASSUME NEW j \in Jobs, job' = [job EXCEPT ![w] = j],
             j.todo = job[w].todo \ {t}, j.nets = job[w].nets
      PROVE  AllCovered'
  <2>1. \A u \in Txns, i \in Invoices :
          txn'[u].status = "unmatched" /\ Exact(u, i, invoice) =>
            u \in j.todo /\ j.nets[i] = Total[i]
    BY <1>3, <1>6, <1>7, <1>8
  <2>2. Covered(j, txn', invoice)
    BY <2>1 DEF Covered
  <2> QED
    BY <1>1, <1>4, <1>8, <2>2, OneCovers
<1>9. CASE \E i \in Invoices :
             job' = [job EXCEPT ![w] =
               [job[w] EXCEPT !.todo = @ \ {t}, !.phase = "verify",
                              !.txn = t, !.invoice = i]]
  <2>1. PICK i \in Invoices : job' = [job EXCEPT ![w] =
               [job[w] EXCEPT !.todo = @ \ {t}, !.phase = "verify",
                              !.txn = t, !.invoice = i]]
    BY <1>9
  <2> DEFINE j == [job[w] EXCEPT !.todo = @ \ {t}, !.phase = "verify",
                                !.txn = t, !.invoice = i]
  <2>2. j \in Jobs /\ j.todo = job[w].todo \ {t} /\ j.nets = job[w].nets
    BY <1>1 DEF Jobs, Phases
  <2>3. job' = [job EXCEPT ![w] = j]
    BY <2>1
  <2> HIDE DEF j
  <2> QED
    BY <1>8, <2>2, <2>3
<1>10. CASE job' = [job EXCEPT ![w] = [job[w] EXCEPT !.todo = @ \ {t}]]
  <2> DEFINE j == [job[w] EXCEPT !.todo = @ \ {t}]
  <2>1. j \in Jobs /\ j.todo = job[w].todo \ {t} /\ j.nets = job[w].nets
    BY <1>1 DEF Jobs
  <2>2. job' = [job EXCEPT ![w] = j]
    BY <1>10
  <2> HIDE DEF j
  <2> QED
    BY <1>8, <2>1, <2>2
<1>11. \A i \in Best(t, job[w].nets) : i \in Invoices
  BY DEF Best, Candidates
<1> QED
  BY <1>9, <1>10, <1>11, ChooseCases

LEMMA VerifyCovers ==
  ASSUME IInv, Served, AllCovered, NEW w \in Workers, VerifyInvoice(w)
  PROVE  AllCovered'
<1>1. /\ job[w] \in Jobs /\ Phased(job[w]) /\ ~At(w, "idle")
      /\ job[w].phase = "verify"
  BY JobType DEF VerifyInvoice, At
<1>2. job[w].txn \in Txns /\ job[w].invoice \in Invoices
  BY <1>1 DEF Phased
<1> DEFINE p == IF job[w].kind = "reconcile" THEN "choose" ELSE "manual"
           j == [job[w] EXCEPT !.phase = p]
<1>3. /\ Verify(job[w].txn, job[w].invoice) /\ UNCHANGED txn
      /\ job' = [job EXCEPT ![w].phase = p]
  BY DEF VerifyInvoice
<1>4. p \in Phases
  BY DEF Phases
<1> HIDE DEF p
<1>5. job' = [job EXCEPT ![w] = j]
  BY <1>3
<1>6. j \in Jobs /\ j.kind = job[w].kind /\ j.todo = job[w].todo
      /\ j.nets = job[w].nets
  BY <1>1, <1>4 DEF Jobs
<1> HIDE DEF j
<1>7. \A i \in Invoices : invoice'[i].tax = invoice[i].tax
                          /\ invoice'[i].exported = invoice[i].exported
  <2>1. invoice \in [Invoices -> Document]
    BY Parts DEF IInv
  <2>2. invoice' = [invoice EXCEPT ![job[w].invoice] =
          [invoice[job[w].invoice] EXCEPT !.verified = job[w].txn,
                                          !.signals = @ + 1]]
    BY <1>2, <1>3, <2>1 DEF Verify
  <2>3. \A r \in Document : \A t, n :
          LET s == [r EXCEPT !.verified = t, !.signals = n]
          IN  s.tax = r.tax /\ s.exported = r.exported
    BY DEF Document
  <2> QED
    BY <1>2, <2>1, <2>2, <2>3
<1>8. Covered(job[w], txn, invoice)
  BY DEF AllCovered
<1>9. \A t \in Txns : \A i \in Invoices :
        Exact(t, i, invoice') => Exact(t, i, invoice)
  BY <1>7 DEF Exact
<1>10. Covered(j, txn, invoice')
  BY <1>1, <1>6, <1>8, <1>9 DEF Covered
<1> QED
  BY <1>1, <1>3, <1>5, <1>6, <1>10, OneCovers

\* Steps of requests that are no runs, and the end of every request.
LEMMA OthersCover ==
  ASSUME IInv, Served, NEW w \in Workers,
         \/ Finish(w) \/ MarkManual(w) \/ ClearTxn(w) \/ ClearInvoice(w)
         \/ SaveCompliance(w) \/ Fail(w)
  PROVE  AllCovered'
<1>1. ~At(w, "idle")
  BY DEF Finish, MarkManual, ClearTxn, ClearInvoice, SaveCompliance, Fail, At
<1>2. CASE Done(w)
  <2>1. Idle.kind # "reconcile" /\ Idle \in Jobs
    BY IdleJob DEF Idle
  <2> QED
    BY <1>1, <1>2, <2>1, NobodyCovers DEF Done
<1>3. CASE ~Done(w)
  <2>1. /\ job[w].phase = "clear" /\ job' = [job EXCEPT ![w].phase = "save"]
    BY <1>3 DEF Finish, MarkManual, ClearTxn, ClearInvoice, SaveCompliance, Fail, At
  <2>2. job[w] \in Jobs /\ job[w].kind = "unmatch"
    BY <2>1, JobType DEF Phased
  <2> DEFINE j == [job[w] EXCEPT !.phase = "save"]
  <2>3. j \in Jobs /\ j.kind = "unmatch"
    BY <2>2 DEF Jobs, Phases
  <2>4. job' = [job EXCEPT ![w] = j]
    BY <2>1
  <2> HIDE DEF j
  <2> QED
    BY <1>1, <2>3, <2>4, NobodyCovers
<1> QED
  BY <1>2, <1>3

\* Requests that begin and are no runs.
LEMMA BeginningsCover ==
  ASSUME IInv, Served, ~Busy, NEW w \in Workers,
         \/ \E t \in Txns, i \in Invoices : Match(w, t, i)
         \/ \E t \in Txns : Unmatch(w, t)
         \/ \E i \in Invoices : Retrigger(w, i)
  PROVE  AllCovered'
<1>1. CASE \E t \in Txns, i \in Invoices : Match(w, t, i)
  <2>1. PICK t \in Txns, i \in Invoices : Match(w, t, i)
    BY <1>1
  <2> DEFINE j == [Idle EXCEPT !.phase = "verify", !.kind = "match",
                              !.txn = t, !.invoice = i]
  <2>2. j \in Jobs /\ j.kind = "match"
    BY IdleJob DEF Jobs, Phases, Kinds
  <2>3. job' = [job EXCEPT ![w] = j]
    BY <2>1 DEF Match
  <2> HIDE DEF j
  <2> QED
    BY <2>2, <2>3, NobodyCovers
<1>2. CASE \E t \in Txns : Unmatch(w, t)
  <2>1. PICK t \in Txns : Unmatch(w, t)
    BY <1>2
  <2> DEFINE j == [Idle EXCEPT !.phase = "clear", !.kind = "unmatch", !.txn = t,
                              !.invoice = txn[t].invoice]
  <2>2. txn[t].invoice \in Invoices \cup {None}
    BY Parts DEF IInv, Transaction
  <2>3. j \in Jobs /\ j.kind = "unmatch"
    BY <2>2, IdleJob DEF Jobs, Phases, Kinds
  <2>4. job' = [job EXCEPT ![w] = j]
    BY <2>1 DEF Unmatch
  <2> HIDE DEF j
  <2> QED
    BY <2>3, <2>4, NobodyCovers
<1>3. CASE \E i \in Invoices : Retrigger(w, i)
  <2>1. PICK i \in Invoices : Retrigger(w, i)
    BY <1>3
  <2> DEFINE j == [Idle EXCEPT !.phase = "save", !.kind = "retrigger",
                              !.invoice = i, !.verified = invoice[i].verified,
                              !.signals = invoice[i].signals]
  <2>2. invoice[i] \in Document
    BY Parts DEF IInv
  <2>3. j \in Jobs /\ j.kind = "retrigger"
    BY <2>2, IdleJob DEF Document, Jobs, Phases, Kinds
  <2>4. job' = [job EXCEPT ![w] = j]
    BY <2>1 DEF Retrigger
  <2> HIDE DEF j
  <2> QED
    BY <2>3, <2>4, NobodyCovers
<1> QED
  BY <1>1, <1>2, <1>3

\* An export that finds no request, and a crash that leaves none.
LEMMA NobodyIsThere ==
  ASSUME IInv, job' = [w \in Workers |-> Idle] \/ (UNCHANGED job /\ ~Busy)
  PROVE  AllCovered'
<1>1. \A w \in Workers : job'[w].kind = "none"
  BY JobType DEF Idle, Busy, At, Phased
<1> QED
  BY <1>1 DEF AllCovered, Covered

LEMMA StepKeepsCovering ==
  ASSUME Suggest <= 50, IInv, Serial, Covering, [Next]_vars
  PROVE  Covering'
<1> SUFFICES ASSUME ~overlapped' PROVE AllCovered'
  BY DEF Covering
<1>0. Served /\ AllCovered /\ (Arrives => ~Busy)
  BY Overlaps DEF Serial, Covering
<1>1. CASE \E w \in Workers : Reconcile(w) \/ Fetch(w)
  BY <1>0, <1>1, ReconcileCovers, FetchCovers DEF Reconcile
<1>2. CASE \E w \in Workers : VerifyInvoice(w) \/ \E t \in Txns : Choose(w, t)
  BY <1>0, <1>2, ChooseCovers, VerifyCovers
<1>3. CASE \E w \in Workers :
             \/ Finish(w) \/ MarkManual(w) \/ ClearTxn(w) \/ ClearInvoice(w)
             \/ SaveCompliance(w) \/ Fail(w)
  BY <1>0, <1>3, OthersCover
<1>4. CASE \E w \in Workers :
             \/ \E t \in Txns, i \in Invoices : Match(w, t, i)
             \/ \E t \in Txns : Unmatch(w, t)
             \/ \E i \in Invoices : Retrigger(w, i)
  <2>1. Arrives
    BY <1>4 DEF Match, Unmatch, Retrigger
  <2> QED
    BY <1>0, <1>4, <2>1, BeginningsCover
<1>5. CASE (\E i \in Invoices : Export(i)) \/ Crash
  BY <1>0, <1>5, NobodyIsThere DEF Export, Crash
<1>6. CASE UNCHANGED vars
  BY <1>0, <1>6 DEF vars, AllCovered, Covered, Exact
<1> QED
  BY <1>1, <1>2, <1>3, <1>4, <1>5, <1>6 DEF Next

\* A run whose suggestions begin at the score of an exact amount, or below,
\* leaves no debit unmatched that is exactly what is due on an open invoice
\* without tax deducted: the range it fetches holds every such invoice, and
\* the best candidate is worth at least as much.
THEOREM ExactAreFound ==
  ASSUME Suggest <= 50
  PROVE  Spec => []ExactIsFound
<1>1. Init => Covering
  BY DEF Init, Covering, AllCovered, Covered, Idle
<1>2. IInv /\ Serial /\ Covering /\ [Next]_vars => Covering'
  BY StepKeepsCovering
<1>3. IInv /\ Covering => ExactIsFound
  <2> SUFFICES ASSUME IInv, AllCovered, NEW w \in Workers, NEW t \in Txns,
                      NEW i \in Invoices, Ended(w), invoice[i].tax = 0,
                      LeftOver(t, i)
               PROVE  FALSE
    BY DEF Covering, ExactIsFound
  <2>1. Total[i] - invoice[i].tax = Total[i]
    BY AmountsAssumption
  <2>2. Exact(t, i, invoice) /\ txn[t].status = "unmatched"
    BY <2>1 DEF LeftOver, Findable, Exact
  <2> QED
    BY <2>2 DEF AllCovered, Covered, Ended
<1> QED
  BY <1>1, <1>2, <1>3, SerialInvariance, PTL DEF Spec

=============================================================================
