-------------------------- MODULE PurchaseVoucher --------------------------
(***************************************************************************)
(* The amounts of a purchase voucher: how TallyExporter computes the lines  *)
(* from an approved invoice, while people edit the figures and change the   *)
(* GL code, which computes the taxes again. One invoice; amounts are minor  *)
(* units. The tax deducted is an input: TdsLedger says what it is.          *)
(***************************************************************************)
EXTENDS Integers

Absent == -1     \* null: a field the invoice does not have

CONSTANTS
  Totals, Subtotals,  \* what parsed.totalAmountMinor and gst.subtotalMinor may be
  GstTaxes,           \* the sum of CGST, SGST, IGST and cess, when there is GST
  Scanned,            \* the total found in the text of the scan
  TdsAmounts,         \* tax that may have to be deducted
  TcsPercents,        \* rates of tax collected at source, 0 when switched off
  Workers,            \* requests the server handles at once
  MaxRequests         \* bound: requests

ASSUME FiguresAssumption ==
  /\ Totals \subseteq Nat \cup {Absent} /\ Subtotals \subseteq Nat \cup {Absent}
  /\ GstTaxes \subseteq Nat /\ Scanned \in Nat \cup {Absent}
  /\ TdsAmounts \subseteq Int /\ TcsPercents \subseteq Nat
  /\ MaxRequests \in Nat

VARIABLES
  invoice,    \* its figures, its taxes, and (history) the figures taxed
  version,    \* __v
  exported,   \* status is EXPORTED
  job,        \* what each worker is doing
  voucher,    \* the lines last sent to Tally, and the invoice they are of
  requests    \* requests so far

vars == <<invoice, version, exported, job, voucher, requests>>

-----------------------------------------------------------------------------
(* Documents.                                                              *)

Figures == [total : Totals \cup {Absent}, gst : BOOLEAN, subtotal : Subtotals \cup {Absent},
            tax : GstTaxes \cup {0}]
Blank == [total |-> Absent, gst |-> FALSE, subtotal |-> Absent, tax |-> 0]
Readable(f) == f.gst \/ (f.subtotal = Absent /\ f.tax = 0)

NoTaxes   == [tds |-> 0, net |-> Absent, tcs |-> 0]
Taxes     == [tds : Int, net : Int, tcs : Nat]
Invoice   == [figures : Figures, taxes : Taxes, taxedOn : Figures]
NoInvoice == [figures |-> Blank, taxes |-> NoTaxes, taxedOn |-> Blank]
Lines     == [party : Int, purchase : Int, gst : Int, tds : Int, tcs : Int]
NoLines   == [party |-> 0, purchase |-> 0, gst |-> 0, tds |-> 0, tcs |-> 0]
NoVoucher == [sent |-> FALSE, lines |-> NoLines, of |-> NoInvoice]
Phases    == {"idle", "edit", "tax", "post", "mark"}
Idle      == [phase |-> "idle", doc |-> NoInvoice, version |-> 0]

Init ==
  /\ \E f \in Figures :
       /\ Readable(f)
       /\ invoice = [figures |-> f, taxes |-> NoTaxes, taxedOn |-> f]
  /\ version  = 0
  /\ exported = FALSE
  /\ job      = [w \in Workers |-> Idle]
  /\ voucher  = NoVoucher
  /\ requests = 0

-----------------------------------------------------------------------------
(* Taxes.                                                                  *)

Stated(f) == IF f.total = Absent THEN 0 ELSE f.total

\* determineTaxableAmount
Taxable(f) ==
  IF f.gst /\ f.subtotal > 0 THEN f.subtotal
  ELSE IF f.tax < Stated(f) THEN Stated(f) - f.tax ELSE 0

\* The total computeTds subtracts the tax from.
Gross(f) == IF f.total = Absent THEN Taxable(f) ELSE f.total

\* computeTds: the tax and the net payable, when there is anything to tax.
Deducted(taxes, f, amount) ==
  IF Taxable(f) > 0
  THEN [taxes EXCEPT !.tds = amount, !.net = Gross(f) - amount]
  ELSE [taxes EXCEPT !.tds = 0, !.net = Absent]

\* Mutant of Collected: an invoice without a total is taxed as well.
CollectedAlways(taxes, f, percent) ==
  [taxes EXCEPT !.tcs = IF percent > 0 THEN (f.total * percent) \div 100 ELSE @]

\* The tax collected at source, which is left alone when there is none now.
Collected(taxes, f, percent) ==
  [taxes EXCEPT !.tcs = IF percent > 0 /\ f.total > 0
                        THEN (f.total * percent) \div 100 ELSE @]

-----------------------------------------------------------------------------
(* The voucher.                                                            *)

\* resolveInvoiceTotalAmountMinor
Resolved(f) == IF f.total > 0 THEN f.total
               ELSE IF Scanned > 0 THEN Scanned ELSE Absent

\* Mutant of Subtotal: a subtotal the invoice states is taken as it is.
SubtotalStated(f) ==
  IF f.subtotal > 0 THEN f.subtotal ELSE Resolved(f) - f.tax

\* The taxable base of a voucher with GST: what the invoice states, unless it
\* is off the total by more than a rounding difference.
Derived(f) ==
  IF f.subtotal = Absent THEN Resolved(f) - f.tax
  ELSE IF f.tax = 0 THEN f.subtotal
  ELSE IF f.subtotal + f.tax - Resolved(f) \in -1..1 THEN f.subtotal
  ELSE Resolved(f) - f.tax
Subtotal(f) == IF Derived(f) > 0 THEN Derived(f) ELSE Resolved(f)

\* Mutant of Payable: the party is credited with the total.
PayableTotal(d) == Resolved(d.figures)

\* What the party is credited with, tax collected at source apart.
Payable(d) == IF d.taxes.tds > 0 THEN d.taxes.net ELSE Resolved(d.figures)

Magnitude(x) == IF x < 0 THEN -x ELSE x

\* buildVoucherInput and buildVoucherElement: the lines of a voucher, debits
\* positive and credits negative.
Voucher(d) ==
  LET party == Magnitude(Payable(d)) + d.taxes.tcs
  IN  [party    |-> -party,
       purchase |-> IF d.figures.gst THEN Subtotal(d.figures) ELSE party,
       gst      |-> IF d.figures.gst THEN d.figures.tax ELSE 0,
       tds      |-> IF d.taxes.tds > 0 THEN -d.taxes.tds ELSE 0,
       tcs      |-> d.taxes.tcs]

-----------------------------------------------------------------------------
(* Requests. A worker's document is the invoice as it was loaded.          *)

At(w, phase) == job[w].phase = phase
Done(w) == job' = [job EXCEPT ![w] = Idle]

\* A request arrives and loads the invoice, which is not exported yet.
Load(w, phase) ==
  /\ At(w, "idle") /\ ~exported /\ requests < MaxRequests
  /\ requests' = requests + 1
  /\ job' = [job EXCEPT ![w] =
               [phase |-> phase, doc |-> invoice, version |-> version]]
  /\ UNCHANGED <<invoice, version, exported, voucher>>

\* updateInvoiceParsedFields: the figures change, the taxes do not. Mongoose
\* refuses the save when another edit was saved since the invoice was loaded.
SaveEdit(w, f) ==
  /\ At(w, "edit") /\ Readable(f) /\ version = job[w].version
  /\ invoice' = [invoice EXCEPT !.figures = f]
  /\ version' = version + 1
  /\ Done(w) /\ UNCHANGED <<exported, voucher, requests>>

\* retriggerCompliance: the taxes on the figures that were loaded. When the
\* computation of the tax deducted throws, the loaded one is saved again.
SaveTaxes(w, taxes, taxedOn) ==
  /\ At(w, "tax")
  /\ invoice' = [invoice EXCEPT !.taxes = taxes, !.taxedOn = taxedOn]
  /\ Done(w) /\ UNCHANGED <<version, exported, voucher, requests>>

Tax(w, amount, percent) ==
  LET d == job[w].doc IN
  SaveTaxes(w, Collected(Deducted(d.taxes, d.figures, amount),
                         d.figures, percent), d.figures)
TaxFails(w, percent) ==
  LET d == job[w].doc IN
  SaveTaxes(w, Collected(d.taxes, d.figures, percent), d.taxedOn)

\* An export builds and sends the voucher of the invoice it fetched; without
\* any total it refuses ...
Send(w) ==
  LET d == job[w].doc IN
  /\ At(w, "post") /\ Resolved(d.figures) # Absent
  /\ voucher' = [sent |-> TRUE, lines |-> Voucher(d), of |-> d]
  /\ job' = [job EXCEPT ![w].phase = "mark"]
  /\ UNCHANGED <<invoice, version, exported, requests>>

\* ... and sets the status.
MarkExported(w) ==
  /\ At(w, "mark") /\ exported' = TRUE
  /\ Done(w) /\ UNCHANGED <<invoice, version, voucher, requests>>

\* A request is refused, fails, or is lost with the server.
Fail(w) ==
  /\ ~At(w, "idle") /\ Done(w)
  /\ UNCHANGED <<invoice, version, exported, voucher, requests>>

Next ==
  \E w \in Workers :
    \/ \E phase \in {"edit", "tax", "post"} : Load(w, phase)
    \/ \E f \in Figures : SaveEdit(w, f)
    \/ \E percent \in TcsPercents :
         \/ \E amount \in TdsAmounts : Tax(w, amount, percent)
         \/ TaxFails(w, percent)
    \/ Send(w) \/ MarkExported(w) \/ Fail(w)

Spec == Init /\ [][Next]_vars

-----------------------------------------------------------------------------
(* Properties.                                                             *)

\* The invoice, the requests and the voucher are of their types.
TypeOK ==
  /\ invoice \in Invoice /\ version \in Nat
  /\ exported \in BOOLEAN /\ requests \in 0..MaxRequests
  /\ job \in [Workers -> [phase : Phases, doc : Invoice, version : Nat]]
  /\ voucher \in [sent : BOOLEAN, lines : Lines, of : Invoice]

\* The tax deducted, if any, was computed on the figures the invoice has, and
\* is not more than its total (a catch-up may be).
TaxFits(d) ==
  /\ d.figures.total > 0
  /\ d.taxes.tds > 0 => d.taxedOn = d.figures /\ d.taxes.tds <= d.figures.total

\* GST is a part of the total, and a subtotal comes with it.
GstFits(f) == /\ f.gst /\ f.tax + 1 < f.total
              /\ f.tax > 0 \/ f.subtotal = Absent

Balance(v) == v.party + v.purchase + v.gst + v.tds + v.tcs

\* Edits, computations and exports overlap, and the subtotal is derived from
\* whatever fields there are: the voucher of an invoice whose taxes fit its
\* figures balances, but for the rounding difference the export tolerates.
GstVoucherBalances ==
  voucher.sent /\ TaxFits(voucher.of) /\ GstFits(voucher.of.figures)
    => Balance(voucher.lines) \in -1..1

\* FR-TALLY-011: the party is credited with the total less the tax deducted,
\* and with the tax it collects.
PartyGetsNet ==
  voucher.sent /\ TaxFits(voucher.of) =>
    -voucher.lines.party = voucher.of.figures.total
                             + voucher.lines.tds + voucher.lines.tcs

\* FR-TALLY-010, FR-TALLY-011: the voucher balances, with or without GST.
VoucherBalances ==
  voucher.sent /\ TaxFits(voucher.of)
    /\ (voucher.of.figures.gst => GstFits(voucher.of.figures))
    => Balance(voucher.lines) \in -1..1

=============================================================================
