--------------------------- MODULE Reconciliation ---------------------------
(***************************************************************************)
(* ReconciliationService: matching the debits of a bank statement with      *)
(* invoices, automatically or by hand, next to the requests that change the *)
(* same documents: a change of GL code, which saves the invoice's whole     *)
(* compliance subdocument, and the export. One organisation, one statement. *)
(***************************************************************************)
EXTENDS Integers, FiniteSets

CONSTANTS
  Txns, Invoices,
  None,          \* no transaction, no invoice
  Debit,         \* debitMinor of each transaction
  Total,         \* totalAmountMinor of each invoice
  Tax,           \* TDS a change of GL code deducts from each invoice
  Fits,          \* how the description and date of a transaction fit an invoice
  TcsPercent,    \* tax collected at source, added to what is paid
  Tolerance,     \* reconciliationAmountToleranceMinor
  AutoMatch,     \* reconciliationAutoMatchThreshold
  Suggest,       \* reconciliationSuggestThreshold
  Workers,       \* requests the server handles at once
  MaxRequests,   \* bound: requests
  MaxFaults      \* bound: failed calls and crashes

Fit == [number : BOOLEAN, name : {"word", "letters", "none"}, days : Nat]

ASSUME AmountsAssumption ==
  /\ None \notin Txns \cup Invoices
  /\ Debit \in [Txns -> Nat \ {0}] /\ Total \in [Invoices -> Nat]
  /\ Tax \in [Invoices -> Nat] /\ \A i \in Invoices : Tax[i] <= Total[i]
  /\ Fits \in [Txns -> [Invoices -> Fit]]
  /\ TcsPercent \in Nat /\ Tolerance \in Nat
  /\ AutoMatch \in Nat /\ Suggest \in Nat
  /\ MaxRequests \in Nat /\ MaxFaults \in Nat

VARIABLES
  txn,         \* BankTransaction: match status and matched invoice
  invoice,     \* Invoice: exported, TDS, reconciliation, payment signals
  job,         \* what each worker is doing
  overlapped,  \* history: a request began while another was handled
  used         \* requests and faults so far

vars == <<txn, invoice, job, overlapped, used>>

-----------------------------------------------------------------------------
(* Amounts and scores.                                                     *)

\* Math.round(x / y)
Rounded(x, y) == (2 * x + y) \div (2 * y)
Distance(x, y) == IF x > y THEN x - y ELSE y - x

\* What a bank debit for an invoice with this net payable amounts to.
Due(net) == net + Rounded(net * TcsPercent, 100)

\* The totals a debit of this amount may have been paid for.
Low(t)  == Rounded(Debit[t] * 100, 100 + TcsPercent) - Tolerance
High(t) == Rounded(Debit[t] * (100 + TcsPercent), 100) + Tolerance

\* Mutant of InRange: the range begins at the debit itself.
InRangeAbove(i, ts) ==
  \E t, u \in ts : Debit[t] <= Total[i] /\ Total[i] <= High(u)

\* batchFetchCandidateInvoices: the invoices not yet exported whose total is
\* in the range the amounts of all the transactions span.
InRange(i, ts) == \E t, u \in ts : Low(t) <= Total[i] /\ Total[i] <= High(u)

Fetched(ts) ==
  [i \in Invoices |->
     IF ~invoice[i].exported /\ InRange(i, ts)
     THEN Total[i] - invoice[i].tax ELSE -1]

\* scoreAmountMatch, scoreInvoiceNumberMatch, scoreVendorNameMatch and
\* scoreDateProximity with the default weights.
CloseEnough(t, net) == net >= 0 /\ Distance(Due(net), Debit[t]) <= Tolerance
AmountScore(t, net) == IF Distance(Due(net), Debit[t]) <= 1 THEN 50 ELSE 10
NumberScore(fit) == IF fit.number THEN 30 ELSE 0
NameScore(fit) ==
  CASE fit.name = "word" -> 20 [] fit.name = "letters" -> 15
    [] fit.name = "none" -> 0
DateScore(fit) ==
  CASE fit.days <= 3 -> 10 [] fit.days \in 4..7 -> 5
    [] fit.days \in 8..30 -> 2 [] fit.days > 30 -> 0

Score(t, i, net) ==
  AmountScore(t, net) + NumberScore(Fits[t][i]) + NameScore(Fits[t][i])
    + DateScore(Fits[t][i])

\* Mutant of Candidates: the amount is not compared.
CandidatesAny(t, nets) == {i \in Invoices : nets[i] >= 0}

\* scoreMatchCandidates: the candidates, and those that may come first.
Candidates(t, nets) == {i \in Invoices : CloseEnough(t, nets[i])}
Best(t, nets) ==
  {i \in Candidates(t, nets) :
     \A j \in Candidates(t, nets) : Score(t, j, nets[j]) <= Score(t, i, nets[i])}

-----------------------------------------------------------------------------
(* Documents and requests.                                                 *)

Statuses == {"unmatched", "suggested", "matched", "manual"}
Kinds    == {"none", "reconcile", "match", "unmatch", "retrigger"}
Phases   == {"idle", "fetch", "choose", "verify", "manual", "clear", "save"}
Idle == [phase |-> "idle", kind |-> "none", todo |-> {}, txn |-> None,
         invoice |-> None, nets |-> [i \in Invoices |-> -1],
         verified |-> None, signals |-> 0]

Init ==
  /\ txn = [t \in Txns |-> [status |-> "unmatched", invoice |-> None]]
  /\ invoice = [i \in Invoices |->
       [exported |-> FALSE, tax |-> 0, verified |-> None, signals |-> 0]]
  /\ job = [w \in Workers |-> Idle]
  /\ overlapped = FALSE
  /\ used = [requests |-> 0, faults |-> 0]

At(w, phase) == job[w].phase = phase
Busy == \E w \in Workers : ~At(w, "idle")
Arrives == /\ used.requests < MaxRequests
           /\ used' = [used EXCEPT !.requests = @ + 1]
           /\ overlapped' = (overlapped \/ Busy)
Fault == /\ used.faults < MaxFaults
         /\ used' = [used EXCEPT !.faults = @ + 1]
Same == UNCHANGED <<overlapped, used>>
Done(w) == job' = [job EXCEPT ![w] = Idle]

\* Mutant of Verify: the invoice is told its own id.
VerifySwapped(t, i) ==
  invoice' = [invoice EXCEPT ![i].verified = i, ![i].signals = @ + 1]

\* The first and the second update of applyMatch.
PointAt(t, i, status) ==
  txn' = [txn EXCEPT ![t] = [status |-> status, invoice |-> i]]

Verify(t, i) ==
  invoice' = [invoice EXCEPT ![i].verified = t, ![i].signals = @ + 1]

-----------------------------------------------------------------------------
(* reconcileStatement.                                                     *)

\* Mutant of Reconcile: loads every debit.
ReconcileAll(w) ==
  /\ At(w, "idle") /\ Arrives
  /\ job' = [job EXCEPT ![w] =
       [Idle EXCEPT !.phase = "fetch", !.kind = "reconcile", !.todo = Txns]]
  /\ UNCHANGED <<txn, invoice>>

\* The unmatched debits are loaded, ...
Reconcile(w) ==
  /\ At(w, "idle") /\ Arrives
  /\ job' = [job EXCEPT ![w] =
       [Idle EXCEPT !.phase = "fetch", !.kind = "reconcile",
                    !.todo = {t \in Txns : txn[t].status = "unmatched"}]]
  /\ UNCHANGED <<txn, invoice>>

\* ... then, some configuration later, the candidates for all of them.
Fetch(w) ==
  /\ At(w, "fetch") /\ Same
  /\ job' = [job EXCEPT ![w].phase = "choose", ![w].nets = Fetched(job[w].todo)]
  /\ UNCHANGED <<txn, invoice>>

\* A transaction's best candidate is matched, suggested or passed over.
Choose(w, t) ==
  LET nets == job[w].nets
      next == [job EXCEPT ![w].todo = @ \ {t}]
  IN  /\ At(w, "choose") /\ t \in job[w].todo /\ Same
      /\ UNCHANGED invoice
      /\ \/ \E i \in Best(t, nets) :
              \/ /\ Score(t, i, nets[i]) > AutoMatch
                 /\ PointAt(t, i, "matched")
                 /\ job' = [next EXCEPT ![w].phase = "verify",
                                        ![w].txn = t, ![w].invoice = i]
              \/ /\ Score(t, i, nets[i]) \in Suggest..AutoMatch
                 /\ PointAt(t, i, "suggested") /\ job' = next
              \/ Score(t, i, nets[i]) < Suggest /\ job' = next /\ UNCHANGED txn
         \/ Best(t, nets) = {} /\ job' = next /\ UNCHANGED txn

\* The counters are written, and the request answered.
Finish(w) ==
  /\ At(w, "choose") /\ job[w].todo = {} /\ Done(w) /\ Same
  /\ UNCHANGED <<txn, invoice>>

\* The invoice is told, and the request goes on where it came from.
VerifyInvoice(w) ==
  /\ At(w, "verify") /\ Verify(job[w].txn, job[w].invoice) /\ Same
  /\ job' = [job EXCEPT ![w].phase = IF job[w].kind = "reconcile"
                                     THEN "choose" ELSE "manual"]
  /\ UNCHANGED txn

-----------------------------------------------------------------------------
(* manualMatch and unmatch.                                                *)

Match(w, t, i) ==
  /\ At(w, "idle") /\ Arrives
  /\ PointAt(t, i, "matched")
  /\ job' = [job EXCEPT ![w] = [Idle EXCEPT !.phase = "verify", !.kind = "match",
                                            !.txn = t, !.invoice = i]]
  /\ UNCHANGED invoice

MarkManual(w) ==
  /\ At(w, "manual") /\ Same
  /\ txn' = [txn EXCEPT ![job[w].txn].status = "manual"]
  /\ Done(w) /\ UNCHANGED invoice

\* The transaction is read and the request remembers its invoice, ...
Unmatch(w, t) ==
  /\ At(w, "idle") /\ Arrives
  /\ job' = [job EXCEPT ![w] =
       [Idle EXCEPT !.phase = "clear", !.kind = "unmatch", !.txn = t,
                    !.invoice = txn[t].invoice]]
  /\ UNCHANGED <<txn, invoice>>

\* Mutant of ClearTxn: only the status is reset.
ClearStatus(w) ==
  /\ At(w, "clear") /\ Same
  /\ txn' = [txn EXCEPT ![job[w].txn].status = "unmatched"]
  /\ IF job[w].invoice = None THEN Done(w)
     ELSE job' = [job EXCEPT ![w].phase = "save"]
  /\ UNCHANGED invoice

\* ... the transaction is cleared ...
ClearTxn(w) ==
  /\ At(w, "clear") /\ Same
  /\ PointAt(job[w].txn, None, "unmatched")
  /\ IF job[w].invoice = None THEN Done(w)
     ELSE job' = [job EXCEPT ![w].phase = "save"]
  /\ UNCHANGED invoice

\* Mutant of ClearInvoice: the payment signals stay.
ClearInvoiceOnly(w) ==
  /\ At(w, "save") /\ job[w].kind = "unmatch" /\ Same
  /\ invoice' = [invoice EXCEPT ![job[w].invoice].verified = None]
  /\ Done(w) /\ UNCHANGED txn

\* ... and the invoice's reconciliation and payment signals are removed.
ClearInvoice(w) ==
  /\ At(w, "save") /\ job[w].kind = "unmatch" /\ Same
  /\ invoice' = [invoice EXCEPT ![job[w].invoice].verified = None,
                                ![job[w].invoice].signals = 0]
  /\ Done(w) /\ UNCHANGED txn

-----------------------------------------------------------------------------
(* Requests that change the same invoices.                                 *)

\* retriggerCompliance loads the compliance subdocument ...
Retrigger(w, i) ==
  /\ At(w, "idle") /\ Arrives /\ ~invoice[i].exported
  /\ job' = [job EXCEPT ![w] =
       [Idle EXCEPT !.phase = "save", !.kind = "retrigger", !.invoice = i,
                    !.verified = invoice[i].verified,
                    !.signals = invoice[i].signals]]
  /\ UNCHANGED <<txn, invoice>>

\* ... and saves all of it, with another tax.
SaveCompliance(w) ==
  LET j == job[w] IN
  /\ At(w, "save") /\ j.kind = "retrigger" /\ Same
  /\ \E tax \in {0, Tax[j.invoice]} :
       invoice' = [invoice EXCEPT ![j.invoice].tax = tax,
                                  ![j.invoice].verified = j.verified,
                                  ![j.invoice].signals = j.signals]
  /\ Done(w) /\ UNCHANGED txn

Export(i) ==
  /\ Arrives /\ ~invoice[i].exported
  /\ invoice' = [invoice EXCEPT ![i].exported = TRUE]
  /\ UNCHANGED <<txn, job>>

\* A call fails and the request is answered with an error; or the server
\* goes down with all its requests.
Fail(w) ==
  /\ ~At(w, "idle") /\ Fault /\ Done(w)
  /\ UNCHANGED <<txn, invoice, overlapped>>

Crash ==
  /\ Busy /\ Fault /\ job' = [w \in Workers |-> Idle]
  /\ UNCHANGED <<txn, invoice, overlapped>>

Next ==
  \/ \E w \in Workers :
       \/ Reconcile(w) \/ Fetch(w) \/ (\E t \in Txns : Choose(w, t))
       \/ Finish(w) \/ VerifyInvoice(w) \/ MarkManual(w)
       \/ \E t \in Txns, i \in Invoices : Match(w, t, i)
       \/ \E t \in Txns : Unmatch(w, t)
       \/ ClearTxn(w) \/ ClearInvoice(w)
       \/ \E i \in Invoices : Retrigger(w, i)
       \/ SaveCompliance(w) \/ Fail(w)
  \/ \E i \in Invoices : Export(i)
  \/ Crash

Spec == Init /\ [][Next]_vars

-----------------------------------------------------------------------------
(* Properties.                                                             *)

\* Documents, requests and counters are of their types.
TypeOK ==
  /\ txn \in [Txns -> [status : Statuses, invoice : Invoices \cup {None}]]
  /\ invoice \in [Invoices ->
       [exported : BOOLEAN, tax : Nat, verified : Txns \cup {None},
        signals : Nat]]
  /\ job \in [Workers ->
       [phase : Phases, kind : Kinds, todo : SUBSET Txns,
        txn : Txns \cup {None}, invoice : Invoices \cup {None},
        nets : [Invoices -> Int], verified : Txns \cup {None}, signals : Nat]]
  /\ overlapped \in BOOLEAN
  /\ used \in [requests : 0..MaxRequests, faults : 0..MaxFaults]

\* Matching, unmatching and whole-document saves of the invoice interleave,
\* lose updates and fail half-way: still an invoice carries the signal that
\* its payment was verified exactly as long as it names a transaction.
VerifiedIsSignalled ==
  \A i \in Invoices : (invoice[i].verified # None) = (invoice[i].signals > 0)

\* Requests handled one after the other leave no transaction unmatched with
\* an invoice, or with a status but without one; also if one fails half-way.
StatusTellsInvoice ==
  ~overlapped =>
    \A t \in Txns : (txn[t].status = "unmatched") = (txn[t].invoice = None)

\* Nor does an automatic run match or suggest an invoice whose amount due is
\* not within the tolerance of the debit.
Running(t) == \E w \in Workers : job[w].kind = "reconcile" /\ txn'[t] # txn[t]
RunMatchesAmounts ==
  [][\A t \in Txns : Running(t) /\ ~overlapped' =>
       LET i == txn'[t].invoice IN
         Distance(Due(Total[i] - invoice[i].tax), Debit[t]) <= Tolerance]_vars

\* What people matched stays matched while runs come and go, unless they
\* match or unmatch it themselves.
ManualStands ==
  [][\A t \in Txns : txn[t].status = "manual" /\ Running(t) => overlapped']_vars

\* A run that ends has left no debit unmatched that is exactly what is due on
\* an invoice it could have been matched with.
Findable(t, i) == ~invoice[i].exported
                  /\ Due(Total[i] - invoice[i].tax) = Debit[t]
Ended(w) == job[w].kind = "reconcile" /\ At(w, "choose") /\ job[w].todo = {}
LeftOver(t, i) == txn[t].status = "unmatched" /\ Findable(t, i)

\* It holds for invoices without tax deducted, tax collected at source
\* included: the first pass by total and the second by amount due agree.
ExactIsFound ==
  ~overlapped =>
    \A w \in Workers, t \in Txns, i \in Invoices :
      Ended(w) /\ invoice[i].tax = 0 => ~LeftOver(t, i)

\* "TDS and TCS adjustments are factored into the matching."
AdjustedIsFound ==
  ~overlapped =>
    \A w \in Workers, t \in Txns, i \in Invoices : Ended(w) => ~LeftOver(t, i)

=============================================================================
