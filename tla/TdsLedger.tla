------------------------------ MODULE TdsLedger ------------------------------
(***************************************************************************)
(* The TDS ledger of one tenant: runTdsOrchestrator as a change of GL code  *)
(* drives it (retriggerTdsAndTcs), TdsVendorLedgerService, the overflow and *)
(* archival of TdsVendorLedgerArchivalService, and the consolidation of     *)
(* ledgers when VendorMasterService merges two vendors.                     *)
(*                                                                         *)
(* A head is a financial year and a TDS section: what the invoice's date    *)
(* and its GL code select. An entry of a ledger is the number of the        *)
(* recording that made it.                                                  *)
(***************************************************************************)
EXTENDS Integers, Sequences, FiniteSets, Folds

CONSTANTS
  Invoices, Vendors, Heads,
  NoHead,        \* no section was detected, or its rate is not active
  NoPan,         \* invoices without a valid PAN
  Base,          \* taxable amount of each invoice, in minor units
  RateBps,       \* the rate of each head, in basis points
  Annual,        \* annual threshold of each head, 0 for none
  Single,        \* single-invoice threshold of each head, 0 for none
  VendorOf,      \* the vendor of each invoice at first
  Workers,       \* requests the server handles at once
  Cap,           \* TDS_LEDGER_ENTRIES_CAP
  MaxRequests,   \* bound: changes of GL code
  MaxArchives,   \* bound: archivals
  MaxMerges,     \* bound: merges of vendors
  MaxFaults      \* bound: failed calls and crashes

Keys == Vendors \X Heads

ASSUME TaxAssumption ==
  /\ Invoices # {} /\ NoHead \notin Heads /\ NoPan \subseteq Invoices
  /\ Base \in [Invoices -> Nat] /\ VendorOf \in [Invoices -> Vendors]
  /\ RateBps \in [Heads -> Nat]
  /\ Annual \in [Heads -> Nat] /\ Single \in [Heads -> Nat]
  /\ Cap \in Nat \ {0}
ASSUME VendorsAssumption == IsFiniteSet(Vendors)
ASSUME LimitsAssumption ==
  /\ MaxRequests \in Nat /\ MaxArchives \in Nat
  /\ MaxMerges \in Nat /\ MaxFaults \in Nat

VARIABLES
  ledger,      \* TdsVendorLedger by key
  archive,     \* TdsVendorLedgerArchive by key
  pages,       \* TdsVendorLedgerEntryOverflow by key, oldest page first
  vendor,      \* metadata.vendorFingerprint of each invoice
  merged,      \* vendors with vendorStatus merged
  shown,       \* compliance.tds of each invoice
  job,         \* what each worker is doing
  archiving,   \* ledgers deleted whose archive is not written yet
  recordings,  \* history: every recording, in order
  unsettled,   \* history: keys recorded on figures other than the ledger's
  used         \* requests, archivals, merges and faults so far

vars == <<ledger, archive, pages, vendor, merged, shown, job, archiving,
          recordings, unsettled, used>>

-----------------------------------------------------------------------------
(* Documents.                                                              *)

NoLedger == [base |-> 0, tds |-> 0, count |-> 0, crossed |-> FALSE,
             entries |-> <<>>, overflow |-> FALSE]
Exists(doc) == doc.count > 0

NoTax  == [head |-> NoHead, amount |-> -1]
Phases == {"idle", "primary", "archive", "record", "split", "page",
           "return", "save"}
Idle   == [phase |-> "idle", invoice |-> CHOOSE i \in Invoices : TRUE,
           head |-> NoHead, vendor |-> CHOOSE v \in Vendors : TRUE,
           base |-> 0, tds |-> 0, tax |-> NoTax, hand |-> <<>>]
Key(j) == <<j.vendor, j.head>>

Use(what, bound) == used[what] < bound /\ used' = [used EXCEPT ![what] = @ + 1]
Fault == Use("faults", MaxFaults)

Init ==
  /\ ledger     = [k \in Keys |-> NoLedger]
  /\ archive    = [k \in Keys |-> NoLedger]
  /\ pages      = [k \in Keys |-> <<>>]
  /\ vendor     = VendorOf
  /\ merged     = {}
  /\ shown      = [i \in Invoices |-> NoTax]
  /\ job        = [w \in Workers |-> Idle]
  /\ archiving  = {}
  /\ recordings = <<>>
  /\ unsettled  = {}
  /\ used       = [requests |-> 0, archives |-> 0, merges |-> 0, faults |-> 0]

-----------------------------------------------------------------------------
(* TdsCalculationService.                                                  *)

\* Math.round(amount * rateBps / 10000)
Share(amount, bps) == (amount * bps + 5000) \div 10000

\* resolveEffectiveRate: no caller passes a certificate; without a valid PAN
\* the penalty rate applies.
EffectiveRate(i, h) ==
  IF i \notin NoPan THEN RateBps[h]
  ELSE IF 2 * RateBps[h] > 2000 THEN 2 * RateBps[h] ELSE 2000

\* computeThresholdAndTds: what to deduct from the invoice, given the vendor's
\* figures for the head so far.
\* BelowAnnualToo is a mutant: the threshold itself counts as crossed.
BelowAnnualToo(h, total) == Annual[h] > 0 /\ total < Annual[h]
BelowAnnual(h, total)    == Annual[h] > 0 /\ total <= Annual[h]
Crosses(i, h, base) == BelowAnnual(h, base) /\ ~BelowAnnual(h, base + Base[i])

Deduction(i, h, base, tds) ==
  CASE BelowAnnual(h, base + Base[i]) -> 0
    [] Crosses(i, h, base) -> Share(base + Base[i], EffectiveRate(i, h)) - tds
    [] ~Crosses(i, h, base) /\ ~BelowAnnual(h, base + Base[i]) ->
         IF Base[i] < Single[h] THEN 0 ELSE Share(Base[i], EffectiveRate(i, h))

Amount(j) == Deduction(j.invoice, j.head, j.base, j.tds)
Result(j) ==
  [head   |-> j.head,
   amount |-> IF j.head = NoHead \/ Base[j.invoice] = 0 THEN -1 ELSE Amount(j)]

-----------------------------------------------------------------------------
(* A change of GL code: retriggerCompliance, runTdsOrchestrator.           *)

At(w, phase) == job[w].phase = phase
Go(w, phase) == job' = [job EXCEPT ![w].phase = phase]

\* The invoice is loaded, and its GL code and date select a head, or none.
Retrigger(w, i, h) ==
  /\ At(w, "idle") /\ Use("requests", MaxRequests)
  /\ job' = [job EXCEPT ![w] =
               [Idle EXCEPT !.phase = IF h = NoHead THEN "return" ELSE "primary",
                            !.invoice = i, !.head = h, !.vendor = vendor[i],
                            !.tax = shown[i]]]
  /\ UNCHANGED <<ledger, archive, pages, vendor, merged, shown, archiving,
                 recordings, unsettled>>

\* getCumulativeForVendor: the ledger, and only then its archive. Nothing is
\* recorded for an invoice without a taxable amount.
Seen(w, doc) ==
  job' = [job EXCEPT ![w].base = doc.base, ![w].tds = doc.tds,
                     ![w].phase = IF Base[job[w].invoice] > 0 THEN "record"
                                  ELSE "return"]

ReadPrimary(w) ==
  /\ At(w, "primary")
  /\ LET doc == ledger[Key(job[w])] IN
       IF Exists(doc) THEN Seen(w, doc) ELSE Go(w, "archive")
  /\ UNCHANGED <<ledger, archive, pages, vendor, merged, shown, archiving,
                 recordings, unsettled, used>>

ReadArchive(w) ==
  /\ At(w, "archive") /\ Seen(w, archive[Key(job[w])])
  /\ UNCHANGED <<ledger, archive, pages, vendor, merged, shown, archiving,
                 recordings, unsettled, used>>

\* Mutant of Added: pushes the invoice for its entry.
AddedInvoice(doc, j) ==
  [doc EXCEPT !.base = @ + Base[j.invoice], !.tds = @ + Amount(j),
              !.count = @ + 1,
              !.crossed = @ \/ Crosses(j.invoice, j.head, j.base),
              !.entries = Append(@, j.invoice)]

\* The ledger with one more recording: $inc, $push, $set and upsert in one.
Added(doc, j) ==
  [doc EXCEPT !.base = @ + Base[j.invoice], !.tds = @ + Amount(j),
              !.count = @ + 1,
              !.crossed = @ \/ Crosses(j.invoice, j.head, j.base),
              !.entries = Append(@, Len(recordings) + 1)]

\* recordTdsToLedger up to the check of the number of entries.
Record(w) ==
  LET j == job[w]
      k == Key(j)
      new == Added(ledger[k], j)
  IN  /\ At(w, "record")
      /\ ledger' = [ledger EXCEPT ![k] = new]
      /\ recordings' = Append(recordings,
           [invoice |-> j.invoice, head |-> j.head,
            base |-> Base[j.invoice], tds |-> Amount(j)])
      /\ unsettled' = IF j.base = ledger[k].base /\ j.tds = ledger[k].tds
                      THEN unsettled ELSE unsettled \cup {k}
      /\ Go(w, IF Len(new.entries) > Cap THEN "split" ELSE "return")
      /\ UNCHANGED <<archive, pages, vendor, merged, shown, archiving, used>>

\* splitEntriesIfOverflow: the entries beyond the cap are cut off and
\* taken in one call, if there are still so many ...
Overfull(doc) == Len(doc.entries) > Cap

Split(w) ==
  LET k   == Key(job[w])
      doc == ledger[k]
  IN  /\ At(w, "split")
      /\ IF Overfull(doc)
         THEN /\ ledger' = [ledger EXCEPT
                   ![k].entries = SubSeq(@, 1, Cap), ![k].overflow = TRUE]
              /\ job' = [job EXCEPT ![w].phase = "page", ![w].hand =
                            SubSeq(doc.entries, Cap + 1, Len(doc.entries))]
         ELSE Go(w, "return") /\ UNCHANGED ledger
      /\ UNCHANGED <<archive, pages, vendor, merged, shown, archiving,
                     recordings, unsettled, used>>

\* Mutant of Page: one page per ledger, overwritten.
PageOver(w) ==
  /\ At(w, "page")
  /\ pages' = [pages EXCEPT ![Key(job[w])] = job[w].hand]
  /\ job' = [job EXCEPT ![w].phase = "return", ![w].hand = <<>>]
  /\ UNCHANGED <<ledger, archive, vendor, merged, shown, archiving,
                 recordings, unsettled, used>>

\* ... and stored as a page of their own.
Page(w) ==
  /\ At(w, "page")
  /\ pages' = [pages EXCEPT ![Key(job[w])] = @ \o job[w].hand]
  /\ job' = [job EXCEPT ![w].phase = "return", ![w].hand = <<>>]
  /\ UNCHANGED <<ledger, archive, vendor, merged, shown, archiving,
                 recordings, unsettled, used>>

\* The orchestrator returns: the result replaces the tax the invoice showed.
Return(w) ==
  /\ At(w, "return")
  /\ job' = [job EXCEPT ![w].phase = "save", ![w].tax = Result(job[w])]
  /\ UNCHANGED <<ledger, archive, pages, vendor, merged, shown, archiving,
                 recordings, unsettled, used>>

\* Mutant of Fail: the tax is assigned before the recording is awaited.
FailAnyway(w) ==
  /\ job[w].phase \notin {"idle", "save"} /\ Fault
  /\ job' = [job EXCEPT ![w].phase = "save", ![w].hand = <<>>,
                        ![w].tax = Result(job[w])]
  /\ UNCHANGED <<ledger, archive, pages, vendor, merged, shown, archiving,
                 recordings, unsettled>>

\* Some call of the orchestrator throws: the error is logged, and the invoice
\* is saved with the tax it had when it was loaded.
Fail(w) ==
  /\ job[w].phase \notin {"idle", "save"} /\ Fault
  /\ job' = [job EXCEPT ![w].phase = "save", ![w].hand = <<>>]
  /\ UNCHANGED <<ledger, archive, pages, vendor, merged, shown, archiving,
                 recordings, unsettled>>

Save(w) ==
  /\ At(w, "save")
  /\ shown' = [shown EXCEPT ![job[w].invoice] = job[w].tax]
  /\ job' = [job EXCEPT ![w] = Idle]
  /\ UNCHANGED <<ledger, archive, pages, vendor, merged, archiving,
                 recordings, unsettled, used>>

-----------------------------------------------------------------------------
(* Archival and merging.                                                   *)

\* archiveFyForVendor: the ledger is deleted ...
ArchiveTake(k) ==
  /\ Exists(ledger[k]) /\ Use("archives", MaxArchives)
  /\ archiving' = archiving \cup {[key |-> k, doc |-> ledger[k]]}
  /\ ledger' = [ledger EXCEPT ![k] = NoLedger]
  /\ UNCHANGED <<archive, pages, vendor, merged, shown, job, recordings,
                 unsettled>>

\* ... and then its archive is written, over the one there may be.
ArchivePut(a) ==
  /\ a \in archiving
  /\ archiving' = archiving \ {a}
  /\ archive' = [archive EXCEPT ![a.key] = a.doc]
  /\ UNCHANGED <<ledger, pages, vendor, merged, shown, job, recordings,
                 unsettled, used>>

\* Mutant of Consolidated: the target's tax is kept.
ConsolidatedBase(to, from) ==
  IF ~Exists(from) THEN to
  ELSE IF ~Exists(to) THEN from
  ELSE [to EXCEPT !.base = @ + from.base,
                  !.count = @ + from.count, !.entries = @ \o from.entries,
                  !.crossed = @ \/ from.crossed]

\* consolidateTdsLedgers for one head: the source's ledger is added to the
\* target's, or becomes it. Pages and archives stay under the source's key.
Consolidated(to, from) ==
  IF ~Exists(from) THEN to
  ELSE IF ~Exists(to) THEN from
  ELSE [to EXCEPT !.base = @ + from.base, !.tds = @ + from.tds,
                  !.count = @ + from.count, !.entries = @ \o from.entries,
                  !.crossed = @ \/ from.crossed]

\* Mutant of Absorbed: the source's ledgers stay.
AbsorbedOnly(from, to) ==
  [k \in Keys |->
     IF k[1] = to THEN Consolidated(ledger[k], ledger[<<from, k[2]>>])
     ELSE ledger[k]]

\* The ledgers after the merge: the source's are deleted or renamed.
Absorbed(from, to) ==
  [k \in Keys |->
     IF k[1] = to THEN Consolidated(ledger[k], ledger[<<from, k[2]>>])
     ELSE IF k[1] = from THEN NoLedger ELSE ledger[k]]

\* mergeVendors, one transaction.
Merge(from, to) ==
  /\ from # to /\ from \notin merged /\ Use("merges", MaxMerges)
  /\ ledger' = Absorbed(from, to)
  /\ vendor' = [i \in Invoices |-> IF vendor[i] = from THEN to ELSE vendor[i]]
  /\ merged' = merged \cup {from}
  /\ unsettled' = unsettled \cup ({from, to} \X Heads)
  /\ UNCHANGED <<archive, pages, shown, job, archiving, recordings>>

\* The server goes down: what it held in memory is lost.
Crash ==
  /\ Fault
  /\ job' = [w \in Workers |-> Idle] /\ archiving' = {}
  /\ UNCHANGED <<ledger, archive, pages, vendor, merged, shown, recordings,
                 unsettled>>

Next ==
  \/ \E w \in Workers :
       \/ \E i \in Invoices, h \in Heads \cup {NoHead} : Retrigger(w, i, h)
       \/ ReadPrimary(w) \/ ReadArchive(w) \/ Record(w) \/ Split(w)
       \/ Page(w) \/ Return(w) \/ Fail(w) \/ Save(w)
  \/ \E k \in Keys : ArchiveTake(k)
  \/ \E a \in archiving : ArchivePut(a)
  \/ \E from, to \in Vendors : Merge(from, to)
  \/ Crash

Spec == Init /\ [][Next]_vars

-----------------------------------------------------------------------------
(* Properties.                                                             *)

Entry == 1..Len(recordings)
Ledger == [base : Nat, tds : Int, count : Nat, crossed : BOOLEAN,
           entries : Seq(Entry), overflow : BOOLEAN]
Tax == [head : Heads \cup {NoHead}, amount : Int]
Job == [phase : Phases, invoice : Invoices, head : Heads \cup {NoHead},
        vendor : Vendors, base : Nat, tds : Int, tax : Tax, hand : Seq(Entry)]
Recording == [invoice : Invoices, head : Heads, base : Nat, tds : Int]

\* The documents, requests, archivals and recordings are of their types.
TypeOK ==
  /\ ledger \in [Keys -> Ledger] /\ archive \in [Keys -> Ledger]
  /\ pages \in [Keys -> Seq(Entry)]
  /\ vendor \in [Invoices -> Vendors] /\ merged \subseteq Vendors
  /\ shown \in [Invoices -> Tax]
  /\ job \in [Workers -> Job]
  /\ archiving \subseteq [key : Keys, doc : Ledger]
  /\ recordings \in Seq(Recording)
  /\ unsettled \subseteq Keys
  /\ used \in [requests : 0..MaxRequests, archives : 0..MaxArchives,
               merges : 0..MaxMerges, faults : 0..MaxFaults]

\* All documents that stand for money, and all places that hold entries.
Documents ==
  {<<"ledger", k, ledger[k]>> : k \in Keys}
    \cup {<<"archive", k, archive[k]>> : k \in Keys}
    \cup {<<"archiving", a.key, a.doc>> : a \in archiving}
Places ==
  {<<d[1], d[2], d[3].entries>> : d \in Documents}
    \cup {<<"pages", k, pages[k]>> : k \in Keys}
    \cup {<<"hand", w, job[w].hand>> : w \in Workers}

SumOver(S, f) ==
  MapThenFoldSet(LAMBDA x, y : x + y, 0, LAMBDA x : f[x],
                 LAMBDA T : CHOOSE x \in T : TRUE, S)
Held == UNION {{p[3][n] : n \in DOMAIN p[3]} : p \in Places}

\* Recording, splitting, archiving and merging run at once, and each moves
\* entries in more than one call: a recording is never in two places, nor
\* twice in one.
NoEntryTwice ==
  \A p, q \in Places : \A m \in DOMAIN p[3], n \in DOMAIN q[3] :
    p[3][m] = q[3][n] => p = q /\ m = n

\* As long as no call fails and no vendor's year is archived twice, every
\* recording is in a ledger, an archive, a page or on its way to one ...
Undisturbed == used.faults = 0 /\ used.archives <= 1
EntriesAreKept == Undisturbed => Held = Entry

\* ... and the totals of the head's ledgers, archives and archivals under way
\* are those of the recordings, whoever recorded, archived and merged meanwhile.
Total(h, value(_)) ==
  SumOver(Vendors, [v \in Vendors |-> value(ledger[<<v, h>>])])
    + SumOver(Vendors, [v \in Vendors |-> value(archive[<<v, h>>])])
    + SumOver({a \in archiving : a.key[2] = h},
              [a \in archiving |-> value(a.doc)])
MadeFor(h) == {n \in Entry : recordings[n].head = h}
TotalsAreKept ==
  Undisturbed =>
    \A h \in Heads :
      /\ Total(h, LAMBDA d : d.base)
           = SumOver(MadeFor(h), [n \in MadeFor(h) |-> recordings[n].base])
      /\ Total(h, LAMBDA d : d.tds)
           = SumOver(MadeFor(h), [n \in MadeFor(h) |-> recordings[n].tds])
      /\ Total(h, LAMBDA d : d.count) = Cardinality(MadeFor(h))

\* What tax is due on a base that one rate applies to: none up to the annual
\* threshold, the rate's share beyond it, give or take the rounding of each
\* recording; and a crossing is noted exactly when the threshold is crossed.
OneRate(h, bps) ==
  \A n \in Entry : recordings[n].head = h =>
     EffectiveRate(recordings[n].invoice, h) = bps
Near(x, y, distance) == x - y <= distance /\ y - x <= distance
Due(doc, h, bps) ==
  IF doc.base <= Annual[h] THEN doc.tds = 0 /\ ~doc.crossed
  ELSE /\ Near(10000 * doc.tds, doc.base * bps, 5000 * doc.count)
       /\ doc.crossed = (Annual[h] > 0)
TaxIsDue(k) ==
  \A i \in Invoices :
    OneRate(k[2], EffectiveRate(i, k[2])) /\ Single[k[2]] = 0
      /\ Exists(ledger[k])
        => Due(ledger[k], k[2], EffectiveRate(i, k[2]))

\* Recordings made on the figures they were added to leave the ledger with
\* the tax that is due on its base, catch-up included.
SettledTaxIsDue == \A k \in Keys \ unsettled : TaxIsDue(k)

\* The tax an invoice shows was recorded for it under that head, though the
\* ledger and the invoice are saved apart and any call between may fail.
ShownTaxWasRecorded ==
  \A i \in Invoices : shown[i].amount >= 0 =>
    \E n \in Entry : /\ recordings[n].invoice = i
                     /\ recordings[n].head = shown[i].head
                     /\ recordings[n].tds = shown[i].amount

\* FR-TDS-008: of invoices processed concurrently, the one that crosses the
\* threshold catches up, and their taxes add up to what is due.
ConcurrentTaxIsDue == merged = {} => \A k \in Keys : TaxIsDue(k)

=============================================================================
