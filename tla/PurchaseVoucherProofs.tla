----------------------- MODULE PurchaseVoucherProofs -----------------------
(***************************************************************************)
(* For all amounts and rates and any number of requests in progress: the    *)
(* types of PurchaseVoucher, and what the lines of a voucher add up to.     *)
(***************************************************************************)
EXTENDS PurchaseVoucher, TLAPS

\* The net payable of an invoice is what computeTds made of the figures it
\* was given: a worker's copy and the voucher's keep that.
NetFits(d) == d.taxes.tds > 0 => d.taxes.net = Gross(d.taxedOn) - d.taxes.tds

LinesFit(v) == v.sent => v.lines = Voucher(v.of)

IInv ==
  /\ TypeOK
  /\ NetFits(invoice) /\ \A w \in Workers : NetFits(job[w].doc)
  /\ NetFits(voucher.of) /\ LinesFit(voucher)

-----------------------------------------------------------------------------
(* What the operators return.                                              *)

\* Figures with all their fields.
LEMMA FiguresTyped ==
  ASSUME NEW f \in Figures
  PROVE  /\ f.total \in Nat \cup {Absent} /\ f.subtotal \in Nat \cup {Absent}
         /\ f.tax \in Nat /\ f.gst \in BOOLEAN
<1>1. /\ f.total \in Totals \cup {Absent} /\ f.gst \in BOOLEAN
      /\ f.subtotal \in Subtotals \cup {Absent} /\ f.tax \in GstTaxes \cup {0}
  BY DEF Figures
<1>2. f.total \in Nat \cup {Absent} /\ f.subtotal \in Nat \cup {Absent}
  BY <1>1, FiguresAssumption
<1>3. 0 \in Nat /\ GstTaxes \subseteq Nat
  BY FiguresAssumption
<1>4. f.tax \in Nat
  BY <1>1, <1>3
<1> QED
  BY <1>1, <1>2, <1>4

LEMMA FractionIsNat ==
  ASSUME NEW total \in Nat, NEW percent \in Nat
  PROVE  (total * percent) \div 100 \in Nat
<1>1. total * percent \in Nat
  BY SMT
<1> QED
  BY <1>1, SMT

LEMMA GrossTyped ==
  ASSUME NEW f \in Figures
  PROVE  Gross(f) \in Int
  BY FiguresTyped DEF Gross, Taxable, Stated, Absent

\* Deducting tax fits the net payable to the figures it was computed on.
LEMMA DeductedFits ==
  ASSUME NEW taxes \in Taxes, NEW f \in Figures, NEW amount \in TdsAmounts
  PROVE  /\ Deducted(taxes, f, amount) \in Taxes
         /\ Deducted(taxes, f, amount).tds > 0
              => Deducted(taxes, f, amount).net
                   = Gross(f) - Deducted(taxes, f, amount).tds
<1>1. amount \in Int /\ Gross(f) \in Int
  BY GrossTyped, FiguresAssumption
<1>2. CASE Taxable(f) > 0
  <2> DEFINE net == Gross(f) - amount
  <2>1. Deducted(taxes, f, amount) = [taxes EXCEPT !.tds = amount, !.net = net]
    BY <1>2 DEF Deducted
  <2>2. net \in Int /\ net = Gross(f) - amount
    BY <1>1
  <2> HIDE DEF net
  <2>3. [taxes EXCEPT !.tds = amount, !.net = net] \in Taxes
    BY <1>1, <2>2 DEF Taxes
  <2>4. /\ [taxes EXCEPT !.tds = amount, !.net = net].tds = amount
        /\ [taxes EXCEPT !.tds = amount, !.net = net].net = net
    BY DEF Taxes
  <2> QED
    BY <2>1, <2>2, <2>3, <2>4
<1>3. CASE ~(Taxable(f) > 0)
  <2>1. Deducted(taxes, f, amount) = [taxes EXCEPT !.tds = 0, !.net = Absent]
    BY <1>3 DEF Deducted
  <2>2. Absent \in Int /\ 0 \in Int
    BY DEF Absent
  <2>3. [taxes EXCEPT !.tds = 0, !.net = Absent] \in Taxes
    BY <2>2 DEF Taxes
  <2>4. [taxes EXCEPT !.tds = 0, !.net = Absent].tds = 0
    BY DEF Taxes
  <2> QED
    BY <2>1, <2>3, <2>4
<1> QED
  BY <1>2, <1>3

\* Tax collected at source leaves the tax deducted alone.
LEMMA CollectedFits ==
  ASSUME NEW taxes \in Taxes, NEW f \in Figures, NEW percent \in TcsPercents
  PROVE  /\ Collected(taxes, f, percent) \in Taxes
         /\ Collected(taxes, f, percent).tds = taxes.tds
         /\ Collected(taxes, f, percent).net = taxes.net
<1>1. percent \in Nat /\ f.total \in Nat \cup {Absent}
  BY FiguresTyped, FiguresAssumption
<1>2. CASE percent > 0 /\ f.total > 0
  <2>1. Collected(taxes, f, percent)
          = [taxes EXCEPT !.tcs = (f.total * percent) \div 100]
    BY <1>2 DEF Collected
  <2>2. (f.total * percent) \div 100 \in Nat
    BY <1>1, <1>2, FractionIsNat DEF Absent
  <2> QED
    BY <2>1, <2>2 DEF Taxes
<1>3. CASE ~(percent > 0 /\ f.total > 0)
  <2>1. Collected(taxes, f, percent) = [taxes EXCEPT !.tcs = taxes.tcs]
    BY <1>3 DEF Collected
  <2> QED
    BY <2>1 DEF Taxes
<1> QED
  BY <1>2, <1>3

LEMMA AmountsTyped ==
  ASSUME NEW d \in Invoice
  PROVE  /\ Resolved(d.figures) \in Int /\ Subtotal(d.figures) \in Int
         /\ Payable(d) \in Int /\ Magnitude(Payable(d)) \in Nat
         /\ d.taxes.tds \in Int /\ d.taxes.tcs \in Nat /\ d.figures.tax \in Nat
<1>1. d.figures \in Figures /\ d.taxes \in Taxes
  BY DEF Invoice
<1>2. /\ d.figures.total \in Int /\ d.figures.subtotal \in Int
      /\ d.figures.tax \in Nat
  BY <1>1, FiguresTyped DEF Absent
<1>3. d.taxes.tds \in Int /\ d.taxes.net \in Int /\ d.taxes.tcs \in Nat
  BY <1>1 DEF Taxes
<1>4. Resolved(d.figures) \in Int
  BY <1>2, FiguresAssumption DEF Resolved, Absent
<1>5. Subtotal(d.figures) \in Int
  BY <1>2, <1>4 DEF Subtotal, Derived
<1>6. Payable(d) \in Int
  BY <1>3, <1>4 DEF Payable
<1>7. Magnitude(Payable(d)) \in Nat
  BY <1>6 DEF Magnitude
<1> QED
  BY <1>2, <1>3, <1>4, <1>5, <1>6, <1>7

LEMMA VoucherTyped ==
  ASSUME NEW d \in Invoice
  PROVE  Voucher(d) \in Lines
<1> DEFINE party    == Magnitude(Payable(d)) + d.taxes.tcs
           purchase == IF d.figures.gst THEN Subtotal(d.figures) ELSE party
           gst      == IF d.figures.gst THEN d.figures.tax ELSE 0
           tds      == IF d.taxes.tds > 0 THEN -d.taxes.tds ELSE 0
<1>1. /\ party \in Int /\ purchase \in Int /\ gst \in Int /\ tds \in Int
      /\ -party \in Int /\ d.taxes.tcs \in Int
  BY AmountsTyped
<1>2. Voucher(d) = [party |-> -party, purchase |-> purchase, gst |-> gst,
                    tds |-> tds, tcs |-> d.taxes.tcs]
  BY DEF Voucher
<1> HIDE DEF party, purchase, gst, tds
<1> QED
  BY <1>1, <1>2 DEF Lines

-----------------------------------------------------------------------------
(* What a voucher adds up to.                                              *)

\* The party's line, when the taxes fit the figures.
LEMMA PartyLine ==
  ASSUME NEW d \in Invoice, NetFits(d), TaxFits(d)
  PROVE  /\ -Voucher(d).party = d.figures.total + Voucher(d).tds + Voucher(d).tcs
         /\ Voucher(d).party \in Int /\ Voucher(d).tds \in Int
         /\ Voucher(d).tcs \in Int
<1>1. d.figures \in Figures
  BY DEF Invoice
<1>2. d.figures.total \in Nat /\ d.figures.total > 0
  BY <1>1, FiguresTyped DEF TaxFits, Absent
<1>3. d.taxes.tds \in Int /\ d.taxes.tcs \in Nat
  BY AmountsTyped
<1>4. Magnitude(Payable(d))
        = IF d.taxes.tds > 0 THEN d.figures.total - d.taxes.tds
          ELSE d.figures.total
  <2>1. CASE d.taxes.tds > 0
    <3>1. d.taxes.net = d.figures.total - d.taxes.tds
      BY <1>2, <2>1 DEF NetFits, TaxFits, Gross, Absent
    <3>2. d.taxes.tds <= d.figures.total
      BY <2>1 DEF TaxFits
    <3> QED
      BY <1>2, <1>3, <2>1, <3>1, <3>2 DEF Payable, Magnitude
  <2>2. CASE ~(d.taxes.tds > 0)
    BY <1>2, <2>2 DEF Payable, Magnitude, Resolved
  <2> QED
    BY <2>1, <2>2
<1>5. /\ Voucher(d).party = -(Magnitude(Payable(d)) + d.taxes.tcs)
      /\ Voucher(d).tds = IF d.taxes.tds > 0 THEN -d.taxes.tds ELSE 0
      /\ Voucher(d).tcs = d.taxes.tcs
  BY DEF Voucher
<1> QED
  BY <1>2, <1>3, <1>4, <1>5

\* The taxable base and GST, when they are parts of the total.
LEMMA BaseAndGst ==
  ASSUME NEW f \in Figures, GstFits(f), f.total > 0
  PROVE  Subtotal(f) \in Int /\ Subtotal(f) + f.tax - f.total \in -1..1
<1>1. /\ f.total \in Nat /\ f.tax \in Nat
      /\ f.subtotal \in Nat \/ f.subtotal = -1
  BY FiguresTyped DEF Absent
<1>2. Resolved(f) = f.total
  BY DEF Resolved
<1>3. f.tax + 1 < f.total /\ (f.tax > 0 \/ f.subtotal = Absent)
  BY DEF GstFits
<1>4. CASE f.subtotal = Absent
  BY <1>1, <1>2, <1>3, <1>4 DEF Subtotal, Derived
<1>5. CASE f.subtotal # Absent /\ f.subtotal + f.tax - f.total \in -1..1
  <2>1. Derived(f) = f.subtotal
    BY <1>1, <1>2, <1>3, <1>5 DEF Derived
  <2>2. f.subtotal > 0
    BY <1>1, <1>3, <1>5
  <2> QED
    BY <1>1, <1>5, <2>1, <2>2 DEF Subtotal
<1>6. CASE f.subtotal # Absent /\ ~(f.subtotal + f.tax - f.total \in -1..1)
  <2>1. Derived(f) = f.total - f.tax
    BY <1>1, <1>2, <1>3, <1>6 DEF Derived
  <2> QED
    BY <1>1, <1>3, <2>1 DEF Subtotal
<1> QED
  BY <1>4, <1>5, <1>6

LEMMA GstBalances ==
  ASSUME NEW d \in Invoice, NetFits(d), TaxFits(d), GstFits(d.figures)
  PROVE  Balance(Voucher(d)) \in -1..1
<1>1. d.figures \in Figures /\ d.figures.total > 0 /\ d.figures.gst
  BY DEF Invoice, TaxFits, GstFits
<1>2. /\ Subtotal(d.figures) \in Int
      /\ Subtotal(d.figures) + d.figures.tax - d.figures.total \in -1..1
  BY <1>1, BaseAndGst
<1>3. /\ Voucher(d).purchase = Subtotal(d.figures)
      /\ Voucher(d).gst = d.figures.tax
  BY <1>1 DEF Voucher
<1>4. /\ -Voucher(d).party = d.figures.total + Voucher(d).tds + Voucher(d).tcs
      /\ Voucher(d).party \in Int /\ Voucher(d).tds \in Int
      /\ Voucher(d).tcs \in Int
  BY PartyLine
<1>5. d.figures.total \in Int /\ d.figures.tax \in Nat
  BY <1>1, FiguresTyped DEF Absent
<1> QED
  BY <1>2, <1>3, <1>4, <1>5 DEF Balance

-----------------------------------------------------------------------------
(* The invariant.                                                          *)

LEMMA NoInvoiceTyped == NoInvoice \in Invoice /\ NetFits(NoInvoice)
<1>1. Blank \in Figures
  BY DEF Blank, Figures
<1>2. NoTaxes \in Taxes
  BY DEF NoTaxes, Taxes, Absent
<1> QED
  BY <1>1, <1>2 DEF NoInvoice, Invoice, NetFits, NoTaxes

LEMMA InitIInv == Init => IInv
<1> SUFFICES ASSUME Init PROVE IInv
  OBVIOUS
<1>1. PICK f \in Figures :
        invoice = [figures |-> f, taxes |-> NoTaxes, taxedOn |-> f]
  BY DEF Init
<1>2. invoice \in Invoice /\ NetFits(invoice)
  BY <1>1 DEF Invoice, NetFits, NoTaxes, Taxes, Absent
<1>3. Idle \in [phase : Phases, doc : Invoice, version : Nat]
  BY NoInvoiceTyped DEF Idle, Phases
<1>4. NoVoucher \in [sent : BOOLEAN, lines : Lines, of : Invoice]
  BY NoInvoiceTyped DEF NoVoucher, NoLines, Lines
<1>5. TypeOK
  <2>1. requests = 0 /\ version = 0 /\ exported = FALSE
    BY DEF Init
  <2>2. requests \in 0..MaxRequests /\ version \in Nat
    BY <2>1, FiguresAssumption
  <2>3. job \in [Workers -> [phase : Phases, doc : Invoice, version : Nat]]
    BY <1>3 DEF Init
  <2>4. voucher \in [sent : BOOLEAN, lines : Lines, of : Invoice]
    BY <1>4 DEF Init
  <2> QED
    BY <1>2, <2>1, <2>2, <2>3, <2>4 DEF TypeOK
<1>6. \A w \in Workers : NetFits(job[w].doc)
  BY NoInvoiceTyped DEF Init, Idle
<1>7. NetFits(voucher.of) /\ LinesFit(voucher)
  BY NoInvoiceTyped DEF Init, NoVoucher, LinesFit
<1> QED
  BY <1>2, <1>5, <1>6, <1>7 DEF IInv

\* A worker becomes idle, and its copy blank.
LEMMA DoneKeeps ==
  ASSUME IInv, NEW w \in Workers, Done(w)
  PROVE  /\ job' \in [Workers -> [phase : Phases, doc : Invoice, version : Nat]]
         /\ \A v \in Workers : NetFits(job'[v].doc)
<1>1. job \in [Workers -> [phase : Phases, doc : Invoice, version : Nat]]
  BY DEF IInv, TypeOK
<1>2. /\ Idle \in [phase : Phases, doc : Invoice, version : Nat]
      /\ NetFits(Idle.doc)
  BY NoInvoiceTyped DEF Idle, Phases
<1>3. \A v \in Workers : job'[v] = job[v] \/ job'[v] = Idle
  BY <1>1 DEF Done
<1> QED
  BY <1>1, <1>2, <1>3 DEF Done, IInv

\* Requests that change the invoice leave it, and a worker idle.
LEMMA InvoiceStep ==
  ASSUME IInv, NEW w \in Workers, Done(w), invoice' \in Invoice,
         NetFits(invoice'), version' \in Nat,
         UNCHANGED <<exported, voucher, requests>>
  PROVE  IInv'
<1>1. TypeOK'
  BY DoneKeeps DEF TypeOK, IInv
<1>2. \A v \in Workers : NetFits(job'[v].doc)
  BY DoneKeeps
<1>3. NetFits(voucher'.of) /\ LinesFit(voucher')
  BY DEF IInv
<1> QED
  BY <1>1, <1>2, <1>3 DEF IInv

\* A worker's copy.
LEMMA DocTyped ==
  ASSUME IInv, NEW w \in Workers
  PROVE  /\ job[w].doc \in Invoice /\ NetFits(job[w].doc)
         /\ job[w].doc.figures \in Figures /\ job[w].doc.taxes \in Taxes
         /\ job[w].doc.taxedOn \in Figures
<1>1. job[w] \in [phase : Phases, doc : Invoice, version : Nat]
  BY DEF IInv, TypeOK
<1>2. job[w].doc \in Invoice
  BY <1>1
<1> QED
  BY <1>2 DEF IInv, Invoice

\* Saving taxes that were computed on those figures.
LEMMA SavedTaxes ==
  ASSUME IInv, NEW w \in Workers, NEW taxes \in Taxes, NEW f \in Figures,
         taxes.tds > 0 => taxes.net = Gross(f) - taxes.tds,
         SaveTaxes(w, taxes, f)
  PROVE  IInv'
<1>1. invoice \in Invoice /\ version \in Nat
  BY DEF IInv, TypeOK
<1>2. invoice' = [invoice EXCEPT !.taxes = taxes, !.taxedOn = f]
  BY DEF SaveTaxes
<1>3. invoice' \in Invoice
  BY <1>1, <1>2 DEF Invoice
<1>4. invoice'.taxes = taxes /\ invoice'.taxedOn = f
  BY <1>1, <1>2 DEF Invoice
<1>5. NetFits(invoice')
  BY <1>4 DEF NetFits
<1> QED
  BY <1>1, <1>3, <1>5, InvoiceStep DEF SaveTaxes

LEMMA NextIInv == IInv /\ [Next]_vars => IInv'
<1> SUFFICES ASSUME IInv, [Next]_vars PROVE IInv'
  OBVIOUS
<1>t. /\ invoice \in Invoice /\ version \in Nat
      /\ exported \in BOOLEAN /\ requests \in 0..MaxRequests
      /\ job \in [Workers -> [phase : Phases, doc : Invoice, version : Nat]]
      /\ voucher \in [sent : BOOLEAN, lines : Lines, of : Invoice]
  BY DEF IInv, TypeOK
<1>1. ASSUME NEW w \in Workers, NEW phase \in {"edit", "tax", "post"},
             Load(w, phase)
      PROVE  IInv'
  <2> DEFINE new == [phase |-> phase, doc |-> invoice, version |-> version]
  <2>1. new \in [phase : Phases, doc : Invoice, version : Nat]
    BY <1>t DEF Phases
  <2>2. job' = [job EXCEPT ![w] = new]
    BY <1>1 DEF Load
  <2>3. \A v \in Workers : job'[v] = job[v] \/ job'[v].doc = invoice
    BY <1>t, <2>2
  <2>4. \A v \in Workers : NetFits(job'[v].doc)
    BY <2>3 DEF IInv
  <2>5. requests' \in 0..MaxRequests
    BY <1>1, <1>t, FiguresAssumption DEF Load
  <2> HIDE DEF new
  <2>6. job' \in [Workers -> [phase : Phases, doc : Invoice, version : Nat]]
    BY <1>t, <2>1, <2>2
  <2>7. TypeOK'
    BY <1>1, <1>t, <2>5, <2>6 DEF Load, TypeOK
  <2> QED
    BY <1>1, <2>4, <2>7 DEF Load, IInv
<1>2. ASSUME NEW w \in Workers, NEW f \in Figures, SaveEdit(w, f)
      PROVE  IInv'
  <2>1. invoice' = [invoice EXCEPT !.figures = f]
    BY <1>2 DEF SaveEdit
  <2>2. invoice' \in Invoice
    BY <1>t, <2>1 DEF Invoice
  <2>3. invoice'.taxes = invoice.taxes /\ invoice'.taxedOn = invoice.taxedOn
    BY <1>t, <2>1 DEF Invoice
  <2>4. NetFits(invoice')
    BY <2>3 DEF NetFits, IInv
  <2> QED
    BY <1>2, <1>t, <2>2, <2>4, InvoiceStep DEF SaveEdit
<1>3. ASSUME NEW w \in Workers, NEW amount \in TdsAmounts,
             NEW percent \in TcsPercents, Tax(w, amount, percent)
      PROVE  IInv'
  <2> DEFINE d        == job[w].doc
             deducted == Deducted(d.taxes, d.figures, amount)
             taxes    == Collected(deducted, d.figures, percent)
  <2>1. d.taxes \in Taxes /\ d.figures \in Figures
    BY DocTyped
  <2>2. /\ deducted \in Taxes
        /\ deducted.tds > 0 => deducted.net = Gross(d.figures) - deducted.tds
    BY <2>1, DeductedFits
  <2>3. SaveTaxes(w, taxes, d.figures)
    BY <1>3 DEF Tax
  <2> HIDE DEF d, deducted
  <2>4. /\ taxes \in Taxes
        /\ taxes.tds = deducted.tds /\ taxes.net = deducted.net
    BY <2>1, <2>2, CollectedFits
  <2> HIDE DEF taxes
  <2> QED
    BY <2>1, <2>2, <2>3, <2>4, SavedTaxes
<1>4. ASSUME NEW w \in Workers, NEW percent \in TcsPercents,
             TaxFails(w, percent)
      PROVE  IInv'
  <2> DEFINE d     == job[w].doc
             taxes == Collected(d.taxes, d.figures, percent)
  <2>1. /\ d.taxes \in Taxes /\ d.figures \in Figures /\ d.taxedOn \in Figures
        /\ NetFits(d)
    BY DocTyped
  <2>2. SaveTaxes(w, taxes, d.taxedOn)
    BY <1>4 DEF TaxFails
  <2> HIDE DEF d
  <2>3. /\ taxes \in Taxes
        /\ taxes.tds = d.taxes.tds /\ taxes.net = d.taxes.net
    BY <2>1, CollectedFits
  <2> HIDE DEF taxes
  <2>4. taxes.tds > 0 => taxes.net = Gross(d.taxedOn) - taxes.tds
    BY <2>1, <2>3 DEF NetFits
  <2> QED
    BY <2>1, <2>2, <2>3, <2>4, SavedTaxes
<1>5. ASSUME NEW w \in Workers, Send(w)
      PROVE  IInv'
  <2> DEFINE d   == job[w].doc
             new == [sent |-> TRUE, lines |-> Voucher(d), of |-> d]
  <2>1. d \in Invoice /\ NetFits(d)
    BY DocTyped
  <2>2. Voucher(d) \in Lines
    BY <2>1, VoucherTyped
  <2>3. /\ voucher' = new /\ job' = [job EXCEPT ![w].phase = "mark"]
        /\ UNCHANGED <<invoice, version, exported, requests>>
    BY <1>5 DEF Send
  <2>4. \A v \in Workers : job'[v].doc = job[v].doc
    BY <1>t, <2>3
  <2>5. job' \in [Workers -> [phase : Phases, doc : Invoice, version : Nat]]
    BY <1>t, <2>3 DEF Phases
  <2> HIDE DEF d
  <2>6. new \in [sent : BOOLEAN, lines : Lines, of : Invoice]
    BY <2>1, <2>2
  <2>7. NetFits(new.of) /\ LinesFit(new)
    BY <2>1 DEF LinesFit
  <2> HIDE DEF new
  <2>8. TypeOK'
    BY <1>t, <2>3, <2>5, <2>6 DEF TypeOK
  <2> QED
    BY <2>3, <2>4, <2>7, <2>8 DEF IInv
<1>6. ASSUME NEW w \in Workers, MarkExported(w)
      PROVE  IInv'
  <2>1. Done(w) /\ exported' \in BOOLEAN
    BY <1>6 DEF MarkExported
  <2>2. TypeOK'
    BY <1>6, <1>t, <2>1, DoneKeeps DEF MarkExported, TypeOK
  <2> QED
    BY <1>6, <2>1, <2>2, DoneKeeps DEF MarkExported, IInv
<1>7. ASSUME NEW w \in Workers, Fail(w)
      PROVE  IInv'
  BY <1>7, <1>t, InvoiceStep DEF Fail, IInv
<1>8. CASE UNCHANGED vars
  BY <1>8 DEF vars, IInv, TypeOK
<1> QED
  BY <1>1, <1>2, <1>3, <1>4, <1>5, <1>6, <1>7, <1>8 DEF Next

LEMMA Invariance == Spec => []IInv
  BY InitIInv, NextIInv, PTL DEF Spec

-----------------------------------------------------------------------------
(* The theorems.                                                           *)

\* Invoice, requests and voucher keep their types.
THEOREM TypeCorrect == Spec => []TypeOK
<1>1. IInv => TypeOK
  BY DEF IInv
<1> QED
  BY <1>1, Invariance, PTL

\* Vouchers with GST balance up to a unit, when the taxes fit the figures:
\* whatever the invoice states as its subtotal, and whoever edits meanwhile.
THEOREM GstBalance == Spec => []GstVoucherBalances
<1>1. IInv => GstVoucherBalances
  <2> SUFFICES ASSUME IInv, voucher.sent, TaxFits(voucher.of),
                      GstFits(voucher.of.figures)
               PROVE  Balance(voucher.lines) \in -1..1
    BY DEF GstVoucherBalances
  <2>1. voucher.of \in Invoice /\ NetFits(voucher.of)
    BY DEF IInv, TypeOK
  <2>2. voucher.lines = Voucher(voucher.of)
    BY DEF IInv, LinesFit
  <2> QED
    BY <2>1, <2>2, GstBalances
<1> QED
  BY <1>1, Invariance, PTL

\* The party's line is the total less the tax deducted, plus the tax
\* collected: no save between load and export makes it anything else.
THEOREM PartyNet == Spec => []PartyGetsNet
<1>1. IInv => PartyGetsNet
  <2> SUFFICES ASSUME IInv, voucher.sent, TaxFits(voucher.of)
               PROVE  -voucher.lines.party = voucher.of.figures.total
                        + voucher.lines.tds + voucher.lines.tcs
    BY DEF PartyGetsNet
  <2>1. voucher.of \in Invoice /\ NetFits(voucher.of)
    BY DEF IInv, TypeOK
  <2>2. voucher.lines = Voucher(voucher.of)
    BY DEF IInv, LinesFit
  <2> QED
    BY <2>1, <2>2, PartyLine
<1> QED
  BY <1>1, Invariance, PTL

=============================================================================
