-------------------------- MODULE TdsLedgerProofs --------------------------
(***************************************************************************)
(* For all invoices, vendors, rates and thresholds and any number of        *)
(* requests in progress: the types of TdsLedger, that the tax an invoice    *)
(* shows was recorded, that ledgers hold the tax that is due, and that no   *)
(* recording is held twice or lost, nor any of the money it stands for.     *)
(***************************************************************************)
EXTENDS TdsLedger, FiniteSetTheorems, WellFoundedInduction, TLAPS

\* The tax was recorded for the invoice.
Recorded(i, tax, recs) ==
  tax.amount >= 0 =>
    \E n \in 1..Len(recs) : /\ recs[n].invoice = i
                            /\ recs[n].head = tax.head
                            /\ recs[n].tds = tax.amount

\* What a worker computed was recorded.
Made(j, recs) ==
  \E n \in 1..Len(recs) : /\ recs[n].invoice = j.invoice
                          /\ recs[n].head = j.head
                          /\ recs[n].tds = Amount(j)

\* A worker's phase tells what it has found out and done.
HeadFits(j) ==
  /\ j.phase \in {"primary", "archive", "record", "split", "page"}
       => j.head \in Heads
  /\ j.phase = "record" => Base[j.invoice] > 0
TaxFits(j, recs) == j.phase # "idle" => Recorded(j.invoice, j.tax, recs)
WorkFits(j, recs) ==
  j.phase \in {"split", "page", "return"} /\ j.head # NoHead
    /\ Base[j.invoice] > 0 => Made(j, recs)
JobFits(j, recs) == HeadFits(j) /\ TaxFits(j, recs) /\ WorkFits(j, recs)

JobsFit == \A w \in Workers : JobFits(job[w], recordings)
ShownFits == \A i \in Invoices : Recorded(i, shown[i], recordings)

\* A ledger that does not exist has no figures.
BlankIsEmpty(doc) ==
  ~Exists(doc) => doc.base = 0 /\ doc.tds = 0 /\ doc.crossed = FALSE
BlanksAreEmpty == \A k \in Keys : BlankIsEmpty(ledger[k])

IInv == TypeOK /\ JobsFit /\ ShownFits /\ BlanksAreEmpty

-----------------------------------------------------------------------------
(* Arithmetic.                                                             *)

\* A share is the exact one, rounded.
IsRounded(amount, bps) ==
  /\ Share(amount, bps) \in Nat
  /\ Near(10000 * Share(amount, bps), amount * bps, 5000)

LEMMA ShareRounds ==
  \A amount, bps \in Nat : IsRounded(amount, bps)
<1> TAKE amount, bps \in Nat
<1> DEFINE product == amount * bps
<1>1. product \in Nat
  BY SMT
<1> HIDE DEF product
<1>2. (product + 5000) \div 10000 \in Nat
  BY <1>1, SMT
<1>3. /\ 10000 * ((product + 5000) \div 10000) - product <= 5000
      /\ product - 10000 * ((product + 5000) \div 10000) <= 5000
  BY <1>1, SMT
<1> QED
  BY <1>2, <1>3 DEF product, Share, Near, IsRounded

LEMMA RateTyped ==
  ASSUME NEW i \in Invoices, NEW h \in Heads
  PROVE  EffectiveRate(i, h) \in Nat
<1>1. RateBps[h] \in Nat
  BY TaxAssumption
<1>2. 2 * RateBps[h] \in Nat
  BY <1>1
<1> QED
  BY <1>1, <1>2 DEF EffectiveRate

LEMMA DeductionTyped ==
  ASSUME NEW i \in Invoices, NEW h \in Heads, NEW base \in Nat, NEW tds \in Int
  PROVE  Deduction(i, h, base, tds) \in Int
<1> DEFINE bps == EffectiveRate(i, h)   total == base + Base[i]
<1>1. Base[i] \in Nat /\ bps \in Nat
  BY RateTyped, TaxAssumption
<1>2. total \in Nat
  BY <1>1
<1>3. Deduction(i, h, base, tds)
        \in {0, Share(total, bps) - tds, Share(Base[i], bps)}
  BY DEF Deduction, Crosses
<1> HIDE DEF bps, total
<1>4. Share(total, bps) \in Nat /\ Share(Base[i], bps) \in Nat
  <2>1. IsRounded(total, bps) /\ IsRounded(Base[i], bps)
    BY <1>1, <1>2, ShareRounds
  <2> QED
    BY <2>1 DEF IsRounded
<1>5. Share(total, bps) - tds \in Int
  BY <1>4
<1> QED
  BY <1>3, <1>4, <1>5

LEMMA Distributes ==
  ASSUME NEW x \in Nat, NEW y \in Nat, NEW b \in Nat
  PROVE  (x + y) * b = x * b + y * b /\ x * b \in Nat /\ y * b \in Nat
  BY SMT

\* The tax that is due is still due after a recording on the same figures.
LEMMA DeductionIsDue ==
  ASSUME NEW i \in Invoices, NEW h \in Heads, Single[h] = 0, Base[i] > 0,
         NEW old, NEW new,
         old.base \in Nat, old.tds \in Int, old.count \in Nat,
         old.crossed \in BOOLEAN,
         BlankIsEmpty(old),
         Exists(old) => Due(old, h, EffectiveRate(i, h)),
         new.base = old.base + Base[i],
         new.tds = old.tds + Deduction(i, h, old.base, old.tds),
         new.count = old.count + 1,
         new.crossed = (old.crossed \/ Crosses(i, h, old.base))
  PROVE  Due(new, h, EffectiveRate(i, h))
<1> DEFINE bps   == EffectiveRate(i, h)
           due   == Deduction(i, h, old.base, old.tds)
           total == old.base + Base[i]
<1>1. /\ Base[i] \in Nat /\ Annual[h] \in Nat /\ Single[h] \in Nat
      /\ bps \in Nat /\ total \in Nat
  BY RateTyped, TaxAssumption
<1>2. /\ Share(total, bps) \in Nat
      /\ Near(10000 * Share(total, bps), total * bps, 5000)
      /\ Share(Base[i], bps) \in Nat
      /\ Near(10000 * Share(Base[i], bps), Base[i] * bps, 5000)
  <2> HIDE DEF total, bps
  <2>1. IsRounded(total, bps) /\ IsRounded(Base[i], bps)
    BY <1>1, ShareRounds
  <2> QED
    BY <2>1 DEF IsRounded
<1>3. /\ total * bps = old.base * bps + Base[i] * bps
      /\ old.base * bps \in Nat /\ Base[i] * bps \in Nat
  BY <1>1, Distributes
<1>4. CASE BelowAnnual(h, total)
  <2>1. due = 0 /\ ~Crosses(i, h, old.base)
    BY <1>4 DEF Deduction, Crosses
  <2>2. old.base <= Annual[h] /\ total <= Annual[h]
    BY <1>1, <1>4 DEF BelowAnnual
  <2>3. old.tds = 0 /\ ~old.crossed
    BY <2>2 DEF Due, BlankIsEmpty
  <2>4. new.base <= Annual[h] /\ new.tds = 0 /\ ~new.crossed
    BY <2>1, <2>2, <2>3
  <2> QED
    BY <2>4 DEF Due
<1>5. CASE ~BelowAnnual(h, total) /\ BelowAnnual(h, old.base)
  <2>1. Crosses(i, h, old.base)
    BY <1>5 DEF Crosses
  <2>2. due = Share(total, bps) - old.tds
    BY <1>5, <2>1 DEF Deduction
  <2>3. total > Annual[h] /\ Annual[h] > 0
    BY <1>1, <1>5 DEF BelowAnnual
  <2>4. new.tds = Share(total, bps)
    BY <1>2, <2>2
  <2>5. Near(10000 * new.tds, total * bps, 5000 * new.count)
    BY <1>2, <1>3, <2>4 DEF Near
  <2>6. new.crossed = TRUE
    BY <2>1
  <2> QED
    BY <1>1, <2>3, <2>5, <2>6 DEF Due
<1>6. CASE ~BelowAnnual(h, total) /\ ~BelowAnnual(h, old.base)
  <2>1. ~Crosses(i, h, old.base)
    BY <1>6 DEF Crosses
  <2>2. due = Share(Base[i], bps)
    <3>1. ~(Base[i] < Single[h])
      BY <1>1
    <3> QED
      BY <1>6, <2>1, <3>1 DEF Deduction
  <2>3. Annual[h] = 0 \/ old.base > Annual[h]
    BY <1>1, <1>6 DEF BelowAnnual
  <2>4. total > Annual[h]
    BY <1>1, <2>3
  <2>5. /\ Near(10000 * old.tds, old.base * bps, 5000 * old.count)
        /\ old.crossed = (Annual[h] > 0)
    <3>1. CASE Exists(old) /\ old.base > Annual[h]
      <4>1. ~(old.base <= Annual[h])
        BY <1>1, <3>1
      <4> QED
        BY <3>1, <4>1 DEF Due
    <3>2. CASE ~(Exists(old) /\ old.base > Annual[h])
      <4>1. old.base = 0 /\ old.tds = 0 /\ ~old.crossed /\ Annual[h] = 0
        BY <1>1, <2>3, <3>2 DEF Due, BlankIsEmpty
      <4>2. old.base * bps = 0
        BY <1>1, <4>1
      <4> QED
        BY <4>1, <4>2 DEF Near
    <3> QED
      BY <3>1, <3>2
  <2>6. new.tds = old.tds + Share(Base[i], bps)
    BY <2>2
  <2>7. Near(10000 * new.tds, total * bps, 5000 * new.count)
    BY <1>2, <1>3, <2>5, <2>6 DEF Near
  <2>8. new.crossed = old.crossed
    BY <2>1
  <2> QED
    BY <1>1, <2>4, <2>5, <2>7, <2>8 DEF Due
<1> QED
  BY <1>4, <1>5, <1>6

-----------------------------------------------------------------------------
(* Recordings are only appended.                                           *)

LEMMA RecordedStays ==
  ASSUME TypeOK, NEW r \in Recording, recordings' = Append(recordings, r)
  PROVE  /\ recordings' \in Seq(Recording)
         /\ Entry' = Entry \cup {Len(recordings) + 1}
         /\ \A n \in Entry : n \in Entry' /\ recordings'[n] = recordings[n]
         /\ recordings'[Len(recordings) + 1] = r
<1>1. recordings \in Seq(Recording)
  BY DEF TypeOK
<1>2. /\ Len(recordings') = Len(recordings) + 1
      /\ \A n \in 1..Len(recordings) : recordings'[n] = recordings[n]
      /\ recordings'[Len(recordings) + 1] = r
      /\ recordings' \in Seq(Recording)
  BY <1>1
<1>3. Len(recordings) \in Nat
  BY <1>1
<1>4. Entry' = 1..(Len(recordings) + 1)
  BY <1>2 DEF Entry
<1> QED
  BY <1>2, <1>3, <1>4 DEF Entry

\* What was recorded stays recorded.
Grows(recs, more) ==
  /\ Len(recs) \in Nat /\ Len(more) \in Nat /\ Len(recs) <= Len(more)
  /\ \A n \in 1..Len(recs) : more[n] = recs[n]

LEMMA Growing ==
  ASSUME NEW recs, NEW more, Grows(recs, more)
  PROVE  /\ \A i, tax : Recorded(i, tax, recs) => Recorded(i, tax, more)
         /\ \A j : JobFits(j, recs) => JobFits(j, more)
<1>1. ASSUME NEW i, NEW tax, Recorded(i, tax, recs)
      PROVE  Recorded(i, tax, more)
  <2> SUFFICES ASSUME tax.amount >= 0
               PROVE  \E n \in 1..Len(more) : /\ more[n].invoice = i
                                             /\ more[n].head = tax.head
                                             /\ more[n].tds = tax.amount
    BY DEF Recorded
  <2>1. PICK n \in 1..Len(recs) : /\ recs[n].invoice = i
                                  /\ recs[n].head = tax.head
                                  /\ recs[n].tds = tax.amount
    BY <1>1 DEF Recorded
  <2>2. n \in 1..Len(more) /\ more[n] = recs[n]
    BY DEF Grows
  <2> QED
    BY <2>1, <2>2
<1>2. ASSUME NEW j, Made(j, recs)
      PROVE  Made(j, more)
  <2>1. PICK n \in 1..Len(recs) : /\ recs[n].invoice = j.invoice
                                  /\ recs[n].head = j.head
                                  /\ recs[n].tds = Amount(j)
    BY <1>2 DEF Made
  <2>2. n \in 1..Len(more) /\ more[n] = recs[n]
    BY DEF Grows
  <2> QED
    BY <2>1, <2>2 DEF Made
<1>3. ASSUME NEW j, JobFits(j, recs)
      PROVE  JobFits(j, more)
  BY <1>1, <1>2, <1>3 DEF JobFits, TaxFits, WorkFits
<1> QED
  BY <1>1, <1>2, <1>3

LEMMA RecordingGrows ==
  ASSUME TypeOK, NEW r, recordings' = Append(recordings, r)
  PROVE  Grows(recordings, recordings')
<1>1. recordings \in Seq(Recording)
  BY DEF TypeOK
<1> QED
  BY <1>1 DEF Grows

-----------------------------------------------------------------------------
(* Types.                                                                  *)

LEMMA TypesStay ==
  ASSUME UNCHANGED recordings
  PROVE  Entry' = Entry /\ Ledger' = Ledger /\ Job' = Job
  BY DEF Entry, Ledger, Job

\* A worker goes on to `new`.
LEMMA JobStep ==
  ASSUME TypeOK, JobsFit, NEW w \in Workers, NEW new \in Job,
         JobFits(new, recordings),
         UNCHANGED recordings, job' = [job EXCEPT ![w] = new]
  PROVE  job' \in [Workers -> Job'] /\ JobsFit'
<1>1. job \in [Workers -> Job] /\ Job' = Job
  BY TypesStay DEF TypeOK
<1>2. \A v \in Workers : job'[v] = job[v] \/ job'[v] = new
  BY <1>1
<1> QED
  BY <1>1, <1>2 DEF JobsFit

\* Steps of a worker that change nothing else.
LEMMA OnlyJob ==
  ASSUME IInv, NEW w \in Workers, NEW new \in Job,
         JobFits(new, recordings), job' = [job EXCEPT ![w] = new],
         UNCHANGED <<ledger, archive, pages, vendor, merged, shown, archiving,
                     recordings, unsettled>>,
         used' \in [requests : 0..MaxRequests, archives : 0..MaxArchives,
                    merges : 0..MaxMerges, faults : 0..MaxFaults]
  PROVE  IInv'
<1>1. job' \in [Workers -> Job'] /\ JobsFit'
  BY JobStep DEF IInv
<1>2. Entry' = Entry /\ Ledger' = Ledger
  BY TypesStay
<1>3. TypeOK'
  BY <1>1, <1>2 DEF TypeOK, IInv
<1> QED
  BY <1>1, <1>3 DEF IInv, ShownFits, BlanksAreEmpty

LEMMA UseTyped ==
  ASSUME TypeOK
  PROVE  /\ Use("requests", MaxRequests) \/ Use("archives", MaxArchives)
              \/ Use("merges", MaxMerges) \/ Fault \/ UNCHANGED used
           => used' \in [requests : 0..MaxRequests, archives : 0..MaxArchives,
                         merges : 0..MaxMerges, faults : 0..MaxFaults]
<1> DEFINE U == [requests : 0..MaxRequests, archives : 0..MaxArchives,
                 merges : 0..MaxMerges, faults : 0..MaxFaults]
<1>1. used \in U
  BY DEF TypeOK
<1>2. ASSUME Use("requests", MaxRequests) PROVE used' \in U
  <2>1. used.requests + 1 \in 0..MaxRequests
    BY <1>1, <1>2, LimitsAssumption DEF Use
  <2> QED
    BY <1>1, <1>2, <2>1 DEF Use
<1>3. ASSUME Use("archives", MaxArchives) PROVE used' \in U
  <2>1. used.archives + 1 \in 0..MaxArchives
    BY <1>1, <1>3, LimitsAssumption DEF Use
  <2> QED
    BY <1>1, <1>3, <2>1 DEF Use
<1>4. ASSUME Use("merges", MaxMerges) PROVE used' \in U
  <2>1. used.merges + 1 \in 0..MaxMerges
    BY <1>1, <1>4, LimitsAssumption DEF Use
  <2> QED
    BY <1>1, <1>4, <2>1 DEF Use
<1>5. ASSUME Fault PROVE used' \in U
  <2>1. used.faults + 1 \in 0..MaxFaults
    BY <1>1, <1>5, LimitsAssumption DEF Use, Fault
  <2> QED
    BY <1>1, <1>5, <2>1 DEF Use, Fault
<1> QED
  BY <1>1, <1>2, <1>3, <1>4, <1>5

-----------------------------------------------------------------------------
(* The invariant: initially, and the steps of a worker.                    *)

LEMMA IdleFits ==
  Idle \in Job /\ (\A recs : JobFits(Idle, recs))
<1>1. (CHOOSE i \in Invoices : TRUE) \in Invoices
  BY TaxAssumption
<1>2. (CHOOSE v \in Vendors : TRUE) \in Vendors
  BY <1>1, TaxAssumption
<1>3. NoTax \in Tax
  BY DEF NoTax, Tax
<1>4. <<>> \in Seq(Entry)
  OBVIOUS
<1>5. Idle \in Job
  BY <1>1, <1>2, <1>3, <1>4 DEF Idle, Job, Phases
<1>6. Idle.phase = "idle"
  BY DEF Idle
<1> QED
  BY <1>5, <1>6 DEF JobFits, HeadFits, TaxFits, WorkFits

LEMMA InitIInv == Init => IInv
<1> SUFFICES ASSUME Init PROVE IInv
  OBVIOUS
<1>1. NoLedger \in Ledger /\ BlankIsEmpty(NoLedger)
  <2>1. <<>> \in Seq(Entry)
    OBVIOUS
  <2> QED
    BY <2>1 DEF NoLedger, Ledger, BlankIsEmpty
<1>2. NoTax \in Tax /\ (\A i, recs : Recorded(i, NoTax, recs))
  BY DEF NoTax, Tax, Recorded
<1>3. ledger \in [Keys -> Ledger] /\ archive \in [Keys -> Ledger]
  BY <1>1 DEF Init
<1>4. pages \in [Keys -> Seq(Entry)]
  <2>1. <<>> \in Seq(Entry)
    OBVIOUS
  <2> QED
    BY <2>1 DEF Init
<1>5. job \in [Workers -> Job] /\ JobsFit
  BY IdleFits DEF Init, JobsFit
<1>6. shown \in [Invoices -> Tax] /\ ShownFits
  BY <1>2 DEF Init, ShownFits
<1>7. used \in [requests : 0..MaxRequests, archives : 0..MaxArchives,
                merges : 0..MaxMerges, faults : 0..MaxFaults]
  BY LimitsAssumption DEF Init
<1>8. recordings \in Seq(Recording) /\ archiving = {} /\ unsettled = {}
      /\ merged = {} /\ vendor \in [Invoices -> Vendors]
  BY TaxAssumption DEF Init
<1>9. TypeOK
  BY <1>3, <1>4, <1>5, <1>6, <1>7, <1>8 DEF TypeOK
<1>10. BlanksAreEmpty
  BY <1>1 DEF Init, BlanksAreEmpty
<1> QED
  BY <1>5, <1>6, <1>9, <1>10 DEF IInv

LEMMA RetriggerKeeps ==
  ASSUME IInv, NEW w \in Workers, NEW i \in Invoices,
         NEW h \in Heads \cup {NoHead}, Retrigger(w, i, h)
  PROVE  IInv'
<1> DEFINE phase == IF h = NoHead THEN "return" ELSE "primary"
           new == [Idle EXCEPT !.phase = phase, !.invoice = i, !.head = h,
                               !.vendor = vendor[i], !.tax = shown[i]]
<1>1. vendor[i] \in Vendors /\ shown[i] \in Tax
      /\ Recorded(i, shown[i], recordings)
  BY DEF IInv, TypeOK, ShownFits
<1>2. Idle \in Job /\ phase \in Phases
  BY IdleFits DEF Phases
<1>3. /\ new.phase = phase /\ new.invoice = i /\ new.head = h
      /\ new.tax = shown[i]
  BY <1>2 DEF Job
<1>4. new \in Job
  BY <1>1, <1>2 DEF Job
<1>5. JobFits(new, recordings)
  <2> HIDE DEF new
  <2>1. HeadFits(new)
    BY <1>3 DEF HeadFits
  <2>2. TaxFits(new, recordings)
    BY <1>1, <1>3 DEF TaxFits
  <2>3. WorkFits(new, recordings)
    BY <1>3 DEF WorkFits
  <2> QED
    BY <2>1, <2>2, <2>3 DEF JobFits
<1>6. job' = [job EXCEPT ![w] = new]
  BY DEF Retrigger
<1>7. used' \in [requests : 0..MaxRequests, archives : 0..MaxArchives,
                 merges : 0..MaxMerges, faults : 0..MaxFaults]
  BY UseTyped DEF IInv, Retrigger
<1> HIDE DEF new
<1> QED
  BY <1>4, <1>5, <1>6, <1>7, OnlyJob DEF Retrigger

\* A worker moves on to a phase in which nothing more must be known of it.
LEMMA PhaseStep ==
  ASSUME IInv, NEW w \in Workers, NEW phase \in {"archive", "return", "save"},
         job[w].phase # "idle", phase = "archive" => job[w].head \in Heads,
         phase = "return" => WorkFits([job[w] EXCEPT !.phase = phase],
                                      recordings)
  PROVE  LET new == [job[w] EXCEPT !.phase = phase] IN
           new \in Job /\ JobFits(new, recordings)
<1> DEFINE new == [job[w] EXCEPT !.phase = phase]
<1>1. job[w] \in Job /\ TaxFits(job[w], recordings)
  BY DEF IInv, TypeOK, JobsFit, JobFits
<1>2. new \in Job
  BY <1>1 DEF Job, Phases
<1>3. /\ new.phase = phase /\ new.invoice = job[w].invoice
      /\ new.head = job[w].head /\ new.tax = job[w].tax
  BY <1>1 DEF Job
<1>4. new.phase = "return" => WorkFits(new, recordings)
  BY <1>3
<1> HIDE DEF new
<1>5. HeadFits(new) /\ TaxFits(new, recordings) /\ WorkFits(new, recordings)
  BY <1>1, <1>3, <1>4 DEF HeadFits, TaxFits, WorkFits
<1>6. new \in Job /\ JobFits(new, recordings)
  BY <1>2, <1>5 DEF JobFits
<1> QED
  BY <1>6 DEF new

LEMMA SeenKeeps ==
  ASSUME IInv, NEW w \in Workers, NEW doc \in Ledger,
         job[w].phase \in {"primary", "archive"}, Seen(w, doc),
         UNCHANGED <<ledger, archive, pages, vendor, merged, shown, archiving,
                     recordings, unsettled, used>>
  PROVE  IInv'
<1> DEFINE phase == IF Base[job[w].invoice] > 0 THEN "record" ELSE "return"
           new == [job[w] EXCEPT !.base = doc.base, !.tds = doc.tds,
                                 !.phase = phase]
<1>1. job[w] \in Job /\ HeadFits(job[w]) /\ TaxFits(job[w], recordings)
  BY DEF IInv, TypeOK, JobsFit, JobFits
<1>2. doc.base \in Nat /\ doc.tds \in Int
  BY DEF Ledger
<1>3. new \in Job
  BY <1>1, <1>2 DEF Job, Phases
<1>4. /\ new.phase = phase /\ new.invoice = job[w].invoice
      /\ new.head = job[w].head /\ new.tax = job[w].tax
  BY <1>1 DEF Job
<1>5. job' = [job EXCEPT ![w] = new]
  <2>1. job \in [Workers -> Job]
    BY DEF IInv, TypeOK
  <2> QED
    BY <1>1, <2>1 DEF Seen, Job
<1>6. used' \in [requests : 0..MaxRequests, archives : 0..MaxArchives,
                 merges : 0..MaxMerges, faults : 0..MaxFaults]
  BY UseTyped DEF IInv
<1> HIDE DEF new
<1>7. HeadFits(new)
  BY <1>1, <1>4 DEF HeadFits
<1>8. TaxFits(new, recordings) /\ WorkFits(new, recordings)
  BY <1>1, <1>4 DEF TaxFits, WorkFits
<1> QED
  BY <1>3, <1>5, <1>6, <1>7, <1>8, OnlyJob DEF JobFits

LEMMA ReadPrimaryKeeps ==
  ASSUME IInv, NEW w \in Workers, ReadPrimary(w)
  PROVE  IInv'
<1> DEFINE k == Key(job[w])
<1>1. job[w] \in Job /\ job[w].head \in Heads /\ job[w].phase = "primary"
  BY DEF IInv, TypeOK, JobsFit, JobFits, HeadFits, ReadPrimary, At
<1>2. k \in Keys
  BY <1>1 DEF Keys, Key, Job
<1>3. ledger[k] \in Ledger
  BY <1>2 DEF IInv, TypeOK
<1>4. CASE Exists(ledger[k])
  BY <1>1, <1>3, <1>4, SeenKeeps DEF ReadPrimary
<1>5. CASE ~Exists(ledger[k])
  <2> DEFINE new == [job[w] EXCEPT !.phase = "archive"]
  <2>1. new \in Job /\ JobFits(new, recordings)
    BY <1>1, PhaseStep
  <2>2. job' = [job EXCEPT ![w] = new]
    BY <1>5 DEF ReadPrimary, Go
  <2>3. used' \in [requests : 0..MaxRequests, archives : 0..MaxArchives,
                   merges : 0..MaxMerges, faults : 0..MaxFaults]
    BY UseTyped DEF IInv, ReadPrimary
  <2> HIDE DEF new
  <2> QED
    BY <2>1, <2>2, <2>3, OnlyJob DEF ReadPrimary
<1> QED
  BY <1>4, <1>5

LEMMA ReadArchiveKeeps ==
  ASSUME IInv, NEW w \in Workers, ReadArchive(w)
  PROVE  IInv'
<1> DEFINE k == Key(job[w])
<1>1. job[w] \in Job /\ job[w].head \in Heads /\ job[w].phase = "archive"
  BY DEF IInv, TypeOK, JobsFit, JobFits, HeadFits, ReadArchive, At
<1>2. k \in Keys
  BY <1>1 DEF Keys, Key, Job
<1>3. archive[k] \in Ledger
  BY <1>2 DEF IInv, TypeOK
<1> QED
  BY <1>1, <1>3, SeenKeeps DEF ReadArchive

LEMMA ReturnKeeps ==
  ASSUME IInv, NEW w \in Workers, Return(w)
  PROVE  IInv'
<1> DEFINE new == [job[w] EXCEPT !.phase = "save", !.tax = Result(job[w])]
<1>1. /\ job[w] \in Job /\ job[w].phase = "return"
      /\ WorkFits(job[w], recordings)
  BY DEF IInv, TypeOK, JobsFit, JobFits, Return, At
<1>2. Result(job[w]) \in Tax
  <2>1. CASE job[w].head = NoHead \/ Base[job[w].invoice] = 0
    BY <1>1, <2>1 DEF Result, Tax, Job
  <2>2. CASE ~(job[w].head = NoHead \/ Base[job[w].invoice] = 0)
    <3>1. Amount(job[w]) \in Int
      BY <1>1, <2>2, DeductionTyped DEF Amount, Job
    <3> QED
      BY <1>1, <2>2, <3>1 DEF Result, Tax, Job
  <2> QED
    BY <2>1, <2>2
<1>3. new \in Job
  BY <1>1, <1>2 DEF Job, Phases
<1>4. Recorded(job[w].invoice, Result(job[w]), recordings)
  <2> SUFFICES ASSUME Result(job[w]).amount >= 0
               PROVE  Recorded(job[w].invoice, Result(job[w]), recordings)
    BY DEF Recorded
  <2>1. job[w].head # NoHead /\ Base[job[w].invoice] # 0
    BY DEF Result
  <2>2. Base[job[w].invoice] > 0
    <3>1. Base[job[w].invoice] \in Nat
      BY <1>1, TaxAssumption DEF Job
    <3> QED
      BY <2>1, <3>1
  <2>3. Made(job[w], recordings)
    BY <1>1, <2>1, <2>2 DEF WorkFits
  <2>4. /\ Result(job[w]).head = job[w].head
        /\ Result(job[w]).amount = Amount(job[w])
    BY <2>1 DEF Result
  <2> QED
    BY <2>3, <2>4 DEF Made, Recorded
<1>5. /\ new.phase = "save" /\ new.invoice = job[w].invoice
      /\ new.tax = Result(job[w])
  BY <1>1 DEF Job
<1>6. job' = [job EXCEPT ![w] = new]
  BY DEF Return
<1>7. used' \in [requests : 0..MaxRequests, archives : 0..MaxArchives,
                 merges : 0..MaxMerges, faults : 0..MaxFaults]
  BY UseTyped DEF IInv, Return
<1> HIDE DEF new
<1>8. JobFits(new, recordings)
  BY <1>4, <1>5 DEF JobFits, HeadFits, TaxFits, WorkFits
<1> QED
  BY <1>3, <1>6, <1>7, <1>8, OnlyJob DEF Return

LEMMA FailKeeps ==
  ASSUME IInv, NEW w \in Workers, Fail(w)
  PROVE  IInv'
<1> DEFINE new == [job[w] EXCEPT !.phase = "save", !.hand = <<>>]
<1>1. /\ job[w] \in Job /\ job[w].phase # "idle"
      /\ TaxFits(job[w], recordings)
  BY DEF IInv, TypeOK, JobsFit, JobFits, Fail
<1>2. <<>> \in Seq(Entry)
  OBVIOUS
<1>3. new \in Job
  BY <1>1, <1>2 DEF Job, Phases
<1>4. /\ new.phase = "save" /\ new.invoice = job[w].invoice
      /\ new.tax = job[w].tax
  BY <1>1 DEF Job
<1>5. job' = [job EXCEPT ![w] = new]
  BY DEF Fail
<1>6. used' \in [requests : 0..MaxRequests, archives : 0..MaxArchives,
                 merges : 0..MaxMerges, faults : 0..MaxFaults]
  BY UseTyped DEF IInv, Fail
<1> HIDE DEF new
<1>7. JobFits(new, recordings)
  BY <1>1, <1>4 DEF JobFits, HeadFits, TaxFits, WorkFits
<1> QED
  BY <1>3, <1>5, <1>6, <1>7, OnlyJob DEF Fail

LEMMA SaveKeeps ==
  ASSUME IInv, NEW w \in Workers, Save(w)
  PROVE  IInv'
<1>1. /\ job[w] \in Job /\ job[w].phase = "save"
      /\ TaxFits(job[w], recordings)
  BY DEF IInv, TypeOK, JobsFit, JobFits, Save, At
<1>2. /\ job[w].invoice \in Invoices /\ job[w].tax \in Tax
      /\ Recorded(job[w].invoice, job[w].tax, recordings)
  BY <1>1 DEF Job, TaxFits
<1>3. UNCHANGED recordings /\ job' = [job EXCEPT ![w] = Idle]
      /\ shown' = [shown EXCEPT ![job[w].invoice] = job[w].tax]
  BY DEF Save
<1>4. job' \in [Workers -> Job'] /\ JobsFit'
  BY <1>3, IdleFits, JobStep DEF IInv
<1>5. shown' \in [Invoices -> Tax] /\ ShownFits'
  <2>1. shown \in [Invoices -> Tax]
    BY DEF IInv, TypeOK
  <2>2. \A i \in Invoices : shown'[i] = IF i = job[w].invoice THEN job[w].tax
                                        ELSE shown[i]
    BY <1>3, <2>1
  <2> QED
    BY <1>2, <1>3, <2>1, <2>2 DEF IInv, ShownFits
<1>6. Entry' = Entry /\ Ledger' = Ledger
  BY <1>3, TypesStay
<1>7. TypeOK'
  BY <1>4, <1>5, <1>6 DEF TypeOK, IInv, Save
<1>8. BlanksAreEmpty'
  BY DEF IInv, BlanksAreEmpty, Save
<1> QED
  BY <1>4, <1>5, <1>7, <1>8 DEF IInv

\* A document with the same figures is as blank as it was.
LEMMA SameBlank ==
  ASSUME NEW old, NEW new, BlankIsEmpty(old), new.base = old.base,
         new.tds = old.tds, new.count = old.count, new.crossed = old.crossed
  PROVE  BlankIsEmpty(new)
  BY DEF BlankIsEmpty, Exists

\* A worker goes on, and one ledger changes.
LEMMA LedgerStep ==
  ASSUME IInv, NEW w \in Workers, NEW new \in Job,
         JobFits(new, recordings), job' = [job EXCEPT ![w] = new],
         NEW k \in Keys, NEW doc \in Ledger, BlankIsEmpty(doc),
         ledger' = [ledger EXCEPT ![k] = doc],
         UNCHANGED <<archive, pages, vendor, merged, shown, archiving,
                     recordings, unsettled, used>>
  PROVE  IInv'
<1>1. job' \in [Workers -> Job'] /\ JobsFit'
  BY JobStep DEF IInv
<1>2. Entry' = Entry /\ Ledger' = Ledger
  BY TypesStay
<1>3. ledger' \in [Keys -> Ledger] /\ BlanksAreEmpty'
  BY DEF IInv, TypeOK, BlanksAreEmpty
<1>4. TypeOK'
  BY <1>1, <1>2, <1>3 DEF TypeOK, IInv
<1> QED
  BY <1>1, <1>3, <1>4 DEF IInv, ShownFits

LEMMA SplitKeeps ==
  ASSUME IInv, NEW w \in Workers, Split(w)
  PROVE  IInv'
<1> DEFINE k == Key(job[w])   old == ledger[k]   entries == old.entries
<1>1. /\ job[w] \in Job /\ job[w].head \in Heads /\ job[w].phase = "split"
      /\ TaxFits(job[w], recordings) /\ WorkFits(job[w], recordings)
  BY DEF IInv, TypeOK, JobsFit, JobFits, HeadFits, Split, At
<1>2. k \in Keys
  BY <1>1 DEF Keys, Key, Job
<1>3. old \in Ledger /\ BlankIsEmpty(old)
  BY <1>2 DEF IInv, TypeOK, BlanksAreEmpty
<1>4. CASE Overfull(old)
  <2> DEFINE kept  == SubSeq(entries, 1, Cap)
             taken == SubSeq(entries, Cap + 1, Len(entries))
             doc   == [old EXCEPT !.entries = kept, !.overflow = TRUE]
             new   == [job[w] EXCEPT !.phase = "page", !.hand = taken]
  <2>1. entries \in Seq(Entry)
    BY <1>3 DEF Ledger
  <2>2. Len(entries) \in Nat /\ Cap \in Nat /\ Cap < Len(entries)
    BY <1>4, <2>1, TaxAssumption DEF Overfull
  <2>3. kept \in Seq(Entry) /\ taken \in Seq(Entry)
    <3> HIDE DEF entries, Entry
    <3> QED
      BY <2>1, <2>2
  <2>4. doc \in Ledger
    BY <1>3, <2>3 DEF Ledger
  <2>5. BlankIsEmpty(doc)
    <3>1. /\ doc.base = old.base /\ doc.tds = old.tds
          /\ doc.count = old.count /\ doc.crossed = old.crossed
      BY <1>3 DEF Ledger
    <3> HIDE DEF doc
    <3> QED
      BY <1>3, <3>1, SameBlank
  <2>6. new \in Job
    BY <1>1, <2>3 DEF Job, Phases
  <2>7. /\ new.phase = "page" /\ new.invoice = job[w].invoice
        /\ new.head = job[w].head /\ new.tax = job[w].tax
        /\ new.base = job[w].base /\ new.tds = job[w].tds
    BY <1>1 DEF Job
  <2>8. JobFits(new, recordings)
    <3> HIDE DEF new
    <3>1. HeadFits(new) /\ TaxFits(new, recordings)
      BY <1>1, <2>7 DEF HeadFits, TaxFits
    <3>2. Amount(new) = Amount(job[w])
      BY <2>7 DEF Amount
    <3>3. WorkFits(new, recordings)
      BY <1>1, <2>7, <3>2 DEF WorkFits, Made
    <3> QED
      BY <3>1, <3>3 DEF JobFits
  <2>9. /\ job' = [job EXCEPT ![w] = new]
        /\ ledger' = [ledger EXCEPT ![k] = doc]
    <3>1. job \in [Workers -> Job] /\ ledger \in [Keys -> Ledger]
      BY DEF IInv, TypeOK
    <3> QED
      BY <1>1, <1>2, <1>3, <1>4, <3>1 DEF Split, Job, Ledger
  <2> HIDE DEF new, doc, k
  <2> QED
    BY <1>2, <2>4, <2>5, <2>6, <2>8, <2>9, LedgerStep DEF Split
<1>5. CASE ~Overfull(old)
  <2> DEFINE new == [job[w] EXCEPT !.phase = "return"]
  <2>1. WorkFits(new, recordings)
    <3>1. /\ new.invoice = job[w].invoice /\ new.head = job[w].head
          /\ new.base = job[w].base /\ new.tds = job[w].tds
      BY <1>1 DEF Job
    <3> HIDE DEF new
    <3>2. Amount(new) = Amount(job[w])
      BY <3>1 DEF Amount
    <3> QED
      BY <1>1, <3>1, <3>2 DEF WorkFits, Made
  <2>2. new \in Job /\ JobFits(new, recordings)
    BY <1>1, <2>1, PhaseStep
  <2>3. job' = [job EXCEPT ![w] = new] /\ UNCHANGED ledger
    BY <1>5 DEF Split, Go
  <2>4. used' \in [requests : 0..MaxRequests, archives : 0..MaxArchives,
                   merges : 0..MaxMerges, faults : 0..MaxFaults]
    BY UseTyped DEF IInv, Split
  <2> HIDE DEF new
  <2> QED
    BY <2>2, <2>3, <2>4, OnlyJob DEF Split
<1> QED
  BY <1>4, <1>5

LEMMA PageKeeps ==
  ASSUME IInv, NEW w \in Workers, Page(w)
  PROVE  IInv'
<1> DEFINE k == Key(job[w])
           new == [job[w] EXCEPT !.phase = "return", !.hand = <<>>]
<1>1. /\ job[w] \in Job /\ job[w].head \in Heads /\ job[w].phase = "page"
      /\ TaxFits(job[w], recordings) /\ WorkFits(job[w], recordings)
  BY DEF IInv, TypeOK, JobsFit, JobFits, HeadFits, Page, At
<1>2. k \in Keys
  BY <1>1 DEF Keys, Key, Job
<1>3. <<>> \in Seq(Entry)
  OBVIOUS
<1>4. new \in Job
  BY <1>1, <1>3 DEF Job, Phases
<1>5. /\ new.phase = "return" /\ new.invoice = job[w].invoice
      /\ new.head = job[w].head /\ new.tax = job[w].tax
      /\ new.base = job[w].base /\ new.tds = job[w].tds
  BY <1>1 DEF Job
<1>6. job' = [job EXCEPT ![w] = new] /\ UNCHANGED recordings
  BY DEF Page
<1>7. pages' \in [Keys -> Seq(Entry)]
  <2>1. pages[k] \in Seq(Entry) /\ job[w].hand \in Seq(Entry)
    BY <1>1, <1>2 DEF IInv, TypeOK, Job
  <2>2. pages[k] \o job[w].hand \in Seq(Entry)
    BY <2>1
  <2>3. pages \in [Keys -> Seq(Entry)]
    BY DEF IInv, TypeOK
  <2>4. pages' = [pages EXCEPT ![k] = pages[k] \o job[w].hand]
    BY DEF Page
  <2> QED
    BY <2>2, <2>3, <2>4
<1> HIDE DEF new
<1>8. JobFits(new, recordings)
  <2>1. HeadFits(new) /\ TaxFits(new, recordings)
    BY <1>1, <1>5 DEF HeadFits, TaxFits
  <2>2. Amount(new) = Amount(job[w])
    BY <1>5 DEF Amount
  <2>3. WorkFits(new, recordings)
    BY <1>1, <1>5, <2>2 DEF WorkFits, Made
  <2> QED
    BY <2>1, <2>3 DEF JobFits
<1>9. job' \in [Workers -> Job'] /\ JobsFit'
  BY <1>4, <1>6, <1>8, JobStep DEF IInv
<1>10. Entry' = Entry /\ Ledger' = Ledger
  BY <1>6, TypesStay
<1>11. TypeOK'
  BY <1>7, <1>9, <1>10 DEF TypeOK, IInv, Page
<1> QED
  BY <1>9, <1>11 DEF IInv, ShownFits, BlanksAreEmpty, Page

\* With a recording more, what was of its type still is.
LEMMA TypesGrow ==
  ASSUME TypeOK, NEW r \in Recording, recordings' = Append(recordings, r)
  PROVE  /\ Seq(Entry) \subseteq Seq(Entry')
         /\ Ledger \subseteq Ledger' /\ Job \subseteq Job'
<1>1. Entry \subseteq Entry'
  BY RecordedStays
<1>2. Seq(Entry) \subseteq Seq(Entry')
  <2> HIDE DEF Entry
  <2> SUFFICES ASSUME NEW s \in Seq(Entry)
               PROVE  s \in Seq(Entry')
    OBVIOUS
  <2>1. Len(s) \in Nat /\ s \in [1..Len(s) -> Entry]
    OBVIOUS
  <2>2. s \in [1..Len(s) -> Entry']
    BY <1>1, <2>1
  <2> QED
    BY <2>1, <2>2
<1>3. Ledger \subseteq Ledger'
  BY <1>2 DEF Ledger
<1>4. Job \subseteq Job'
  BY <1>2 DEF Job
<1> QED
  BY <1>2, <1>3, <1>4

LEMMA AddedFits ==
  ASSUME TypeOK, NEW old \in Ledger, BlankIsEmpty(old), NEW j \in Job,
         j.head \in Heads,
         NEW r \in Recording, recordings' = Append(recordings, r)
  PROVE  /\ Added(old, j) \in Ledger' /\ BlankIsEmpty(Added(old, j))
         /\ Exists(Added(old, j))
         /\ Added(old, j).base = old.base + Base[j.invoice]
         /\ Added(old, j).tds = old.tds + Amount(j)
         /\ Added(old, j).count = old.count + 1
         /\ Added(old, j).crossed
              = (old.crossed \/ Crosses(j.invoice, j.head, j.base))
<1> DEFINE added == Added(old, j)   crossed == Crosses(j.invoice, j.head, j.base)
           number == Len(recordings) + 1
<1>1. Base[j.invoice] \in Nat
  BY TaxAssumption DEF Job
<1>2. Amount(j) \in Int
  BY DeductionTyped DEF Amount, Job
<1>3. crossed \in BOOLEAN
  BY DEF Crosses, BelowAnnual
<1>4. /\ old.base \in Nat /\ old.tds \in Int /\ old.count \in Nat
      /\ old.crossed \in BOOLEAN
  BY DEF Ledger
<1>5. Append(old.entries, number) \in Seq(Entry')
  <2>1. old.entries \in Seq(Entry')
    BY TypesGrow DEF Ledger
  <2>2. number \in Entry'
    BY RecordedStays
  <2> HIDE DEF number
  <2> QED
    BY <2>1, <2>2
<1>6. /\ added.base = old.base + Base[j.invoice]
      /\ added.tds = old.tds + Amount(j)
      /\ added.count = old.count + 1
      /\ added.crossed = (old.crossed \/ crossed)
  BY <1>4 DEF Added, Ledger
<1>7. /\ old.base + Base[j.invoice] \in Nat /\ old.tds + Amount(j) \in Int
      /\ old.count + 1 \in Nat /\ old.count + 1 > 0
      /\ (old.crossed \/ crossed) \in BOOLEAN
  BY <1>1, <1>2, <1>3, <1>4
<1>8. added \in Ledger'
  <2>1. old \in Ledger'
    BY TypesGrow
  <2> DEFINE base == old.base + Base[j.invoice]   tds == old.tds + Amount(j)
             count == old.count + 1   flag == old.crossed \/ crossed
             entries == Append(old.entries, number)
  <2>2. added = [old EXCEPT !.base = base, !.tds = tds, !.count = count,
                            !.crossed = flag, !.entries = entries]
    BY DEF Added
  <2>3. /\ base \in Nat /\ tds \in Int /\ count \in Nat /\ flag \in BOOLEAN
        /\ entries \in Seq(Entry')
    BY <1>5, <1>7
  <2> HIDE DEF added, base, tds, count, flag, entries
  <2> QED
    BY <2>1, <2>2, <2>3 DEF Ledger
<1>9. Exists(added)
  BY <1>6, <1>7 DEF Exists
<1> HIDE DEF added
<1>10. BlankIsEmpty(added)
  BY <1>9 DEF BlankIsEmpty
<1> QED
  BY <1>6, <1>8, <1>9, <1>10 DEF added

LEMMA RecordKeeps ==
  ASSUME IInv, NEW w \in Workers, Record(w)
  PROVE  IInv'
<1> DEFINE j == job[w]   k == Key(j)   old == ledger[k]   doc == Added(old, j)
           r == [invoice |-> j.invoice, head |-> j.head,
                 base |-> Base[j.invoice], tds |-> Amount(j)]
           phase == IF Len(doc.entries) > Cap THEN "split" ELSE "return"
           new == [j EXCEPT !.phase = phase]
<1>1. /\ j \in Job /\ j.head \in Heads /\ j.phase = "record"
      /\ TaxFits(j, recordings)
  BY DEF IInv, TypeOK, JobsFit, JobFits, HeadFits, Record, At
<1>2. k \in Keys
  BY <1>1 DEF Keys, Key, Job
<1>3. old \in Ledger /\ BlankIsEmpty(old)
  BY <1>2 DEF IInv, TypeOK, BlanksAreEmpty
<1>4. r \in Recording
  <2>1. Amount(j) \in Int
    BY <1>1, DeductionTyped DEF Amount, Job
  <2>2. Base[j.invoice] \in Nat
    BY <1>1, TaxAssumption DEF Job
  <2> QED
    BY <1>1, <2>1, <2>2 DEF Recording, Job
<1>5. TypeOK /\ recordings' = Append(recordings, r)
  BY DEF IInv, Record
<1>6. Grows(recordings, recordings') /\ recordings' \in Seq(Recording)
  BY <1>4, <1>5, RecordingGrows, RecordedStays
<1>7. doc \in Ledger' /\ BlankIsEmpty(doc)
  <2> HIDE DEF r, j
  <2> QED
    BY <1>1, <1>3, <1>4, <1>5, AddedFits
<1>8. /\ new.phase = phase /\ new.invoice = j.invoice /\ new.head = j.head
      /\ new.tax = j.tax /\ new.base = j.base /\ new.tds = j.tds
  BY <1>1 DEF Job
<1>9. new \in Job
  BY <1>1 DEF Job, Phases
<1>10. JobFits(new, recordings')
  <2>1. HeadFits(new)
    BY <1>1, <1>8 DEF HeadFits
  <2>2. TaxFits(new, recordings')
    <3>1. Recorded(j.invoice, j.tax, recordings)
      BY <1>1 DEF TaxFits
    <3>2. Recorded(j.invoice, j.tax, recordings')
      BY <1>6, <3>1, Growing
    <3> HIDE DEF new
    <3> QED
      BY <1>8, <3>2 DEF TaxFits
  <2>3. Made(new, recordings')
    <3>1. Len(recordings) + 1 \in 1..Len(recordings')
      BY <1>4, <1>5, RecordedStays DEF Entry
    <3>2. recordings'[Len(recordings) + 1] = r
      BY <1>4, <1>5, RecordedStays
    <3>3. Amount(new) = Amount(j)
      BY <1>8 DEF Amount
    <3>4. r.invoice = j.invoice /\ r.head = j.head /\ r.tds = Amount(j)
      OBVIOUS
    <3> HIDE DEF new, r
    <3> QED
      BY <1>8, <3>1, <3>2, <3>3, <3>4 DEF Made
  <2> HIDE DEF new
  <2> QED
    BY <2>1, <2>2, <2>3 DEF JobFits, WorkFits
<1>11. /\ job' = [job EXCEPT ![w] = new]
       /\ ledger' = [ledger EXCEPT ![k] = doc]
  BY DEF Record, Go
<1>12. Seq(Entry) \subseteq Seq(Entry') /\ Ledger \subseteq Ledger'
       /\ Job \subseteq Job'
  BY <1>4, <1>5, TypesGrow
<1> HIDE DEF new, doc, r
<1>13. job' \in [Workers -> Job'] /\ JobsFit'
  <2>1. job \in [Workers -> Job]
    BY <1>5 DEF TypeOK
  <2>2. \A v \in Workers : job'[v] = IF v = w THEN new ELSE job[v]
    BY <1>11, <2>1
  <2>3. \A v \in Workers : job[v] \in Job' /\ JobFits(job[v], recordings')
    <3> SUFFICES ASSUME NEW v \in Workers
                 PROVE  job[v] \in Job' /\ JobFits(job[v], recordings')
      OBVIOUS
    <3>1. job[v] \in Job'
      BY <1>12, <2>1
    <3>2. JobFits(job[v], recordings)
      BY DEF IInv, JobsFit
    <3> QED
      BY <1>6, <3>1, <3>2, Growing
  <2>4. new \in Job'
    BY <1>9, <1>12
  <2>5. job' \in [Workers -> Job']
    BY <1>11, <2>1, <2>3, <2>4
  <2>6. JobsFit'
    BY <1>10, <2>2, <2>3 DEF JobsFit
  <2> QED
    BY <2>5, <2>6
<1>14. ledger' \in [Keys -> Ledger'] /\ BlanksAreEmpty'
  <2>1. ledger \in [Keys -> Ledger] /\ BlanksAreEmpty
    BY DEF IInv, TypeOK
  <2>2. ledger \in [Keys -> Ledger']
    BY <1>12, <2>1
  <2>3. ledger' \in [Keys -> Ledger']
    BY <1>7, <1>11, <2>2
  <2>4. BlanksAreEmpty'
    BY <1>7, <1>11, <2>1 DEF BlanksAreEmpty
  <2> QED
    BY <2>3, <2>4
<1>15. /\ archive' \in [Keys -> Ledger'] /\ pages' \in [Keys -> Seq(Entry')]
       /\ archiving' \subseteq [key : Keys, doc : Ledger']
  <2>1. /\ archive \in [Keys -> Ledger] /\ pages \in [Keys -> Seq(Entry)]
        /\ archiving \subseteq [key : Keys, doc : Ledger]
        /\ UNCHANGED <<archive, pages, archiving>>
    BY <1>5 DEF TypeOK, Record
  <2>2. archive' \in [Keys -> Ledger'] /\ pages' \in [Keys -> Seq(Entry')]
    BY <1>12, <2>1
  <2>3. [key : Keys, doc : Ledger] \subseteq [key : Keys, doc : Ledger']
    BY <1>12
  <2> QED
    BY <2>1, <2>2, <2>3
<1>16. unsettled' \subseteq Keys
  BY <1>2, <1>5 DEF TypeOK, Record
<1>17. ShownFits'
  <2>1. UNCHANGED shown
    BY DEF Record
  <2>2. \A i \in Invoices : Recorded(i, shown[i], recordings')
    <3> TAKE i \in Invoices
    <3>1. Recorded(i, shown[i], recordings)
      BY DEF IInv, ShownFits
    <3> QED
      BY <1>6, <3>1, Growing
  <2> QED
    BY <2>1, <2>2 DEF ShownFits
<1>18. TypeOK'
  <2>1. /\ vendor' \in [Invoices -> Vendors] /\ merged' \subseteq Vendors
        /\ shown' \in [Invoices -> Tax] /\ UNCHANGED used
    BY <1>5 DEF TypeOK, Record
  <2>2. used' \in [requests : 0..MaxRequests, archives : 0..MaxArchives,
                   merges : 0..MaxMerges, faults : 0..MaxFaults]
    BY <1>5, <2>1, UseTyped
  <2> QED
    BY <1>6, <1>13, <1>14, <1>15, <1>16, <2>1, <2>2 DEF TypeOK
<1> QED
  BY <1>13, <1>14, <1>17, <1>18 DEF IInv

-----------------------------------------------------------------------------
(* The invariant: archival, merging and crashes.                           *)

LEMMA ArchiveTakeKeeps ==
  ASSUME IInv, NEW k \in Keys, ArchiveTake(k)
  PROVE  IInv'
<1>1. NoLedger \in Ledger /\ BlankIsEmpty(NoLedger)
  <2>1. <<>> \in Seq(Entry)
    OBVIOUS
  <2> QED
    BY <2>1 DEF NoLedger, Ledger, BlankIsEmpty
<1>2. UNCHANGED recordings
  BY DEF ArchiveTake
<1>3. Entry' = Entry /\ Ledger' = Ledger /\ Job' = Job
  BY <1>2, TypesStay
<1>4. ledger' \in [Keys -> Ledger] /\ BlanksAreEmpty'
  BY <1>1 DEF IInv, TypeOK, BlanksAreEmpty, ArchiveTake
<1>5. archiving' \subseteq [key : Keys, doc : Ledger]
  <2>1. [key |-> k, doc |-> ledger[k]] \in [key : Keys, doc : Ledger]
    BY DEF IInv, TypeOK
  <2> QED
    BY <2>1 DEF IInv, TypeOK, ArchiveTake
<1>6. used' \in [requests : 0..MaxRequests, archives : 0..MaxArchives,
                 merges : 0..MaxMerges, faults : 0..MaxFaults]
  BY UseTyped DEF IInv, ArchiveTake
<1>7. TypeOK'
  BY <1>3, <1>4, <1>5, <1>6 DEF IInv, TypeOK, ArchiveTake
<1> QED
  BY <1>4, <1>7 DEF IInv, JobsFit, ShownFits, ArchiveTake

LEMMA ArchivePutKeeps ==
  ASSUME IInv, NEW a \in archiving, ArchivePut(a)
  PROVE  IInv'
<1>1. UNCHANGED recordings
  BY DEF ArchivePut
<1>2. Entry' = Entry /\ Ledger' = Ledger /\ Job' = Job
  BY <1>1, TypesStay
<1>3. a.key \in Keys /\ a.doc \in Ledger
  BY DEF IInv, TypeOK
<1>4. archive' \in [Keys -> Ledger] /\ archiving' \subseteq archiving
  BY <1>3 DEF IInv, TypeOK, ArchivePut
<1>5. used' \in [requests : 0..MaxRequests, archives : 0..MaxArchives,
                 merges : 0..MaxMerges, faults : 0..MaxFaults]
  BY UseTyped DEF IInv, ArchivePut
<1>6. TypeOK'
  BY <1>2, <1>4, <1>5 DEF IInv, TypeOK, ArchivePut
<1> QED
  BY <1>6 DEF IInv, JobsFit, ShownFits, BlanksAreEmpty, ArchivePut

LEMMA ConsolidatedFits ==
  ASSUME NEW to \in Ledger, NEW from \in Ledger, BlankIsEmpty(to),
         BlankIsEmpty(from)
  PROVE  Consolidated(to, from) \in Ledger
         /\ BlankIsEmpty(Consolidated(to, from))
<1>1. CASE ~Exists(from) \/ ~Exists(to)
  BY <1>1 DEF Consolidated
<1>2. CASE Exists(from) /\ Exists(to)
  <2> DEFINE base == to.base + from.base   tds == to.tds + from.tds
             count == to.count + from.count   flag == to.crossed \/ from.crossed
             entries == to.entries \o from.entries
             both == Consolidated(to, from)
  <2>1. both = [to EXCEPT !.base = base, !.tds = tds, !.count = count,
                          !.entries = entries, !.crossed = flag]
    BY <1>2 DEF Consolidated
  <2>2. /\ base \in Nat /\ tds \in Int /\ count \in Nat /\ flag \in BOOLEAN
        /\ count > 0
    BY <1>2 DEF Ledger, Exists
  <2>3. entries \in Seq(Entry)
    <3>1. to.entries \in Seq(Entry) /\ from.entries \in Seq(Entry)
      BY DEF Ledger
    <3> QED
      BY <3>1
  <2> HIDE DEF base, tds, count, flag, entries, both
  <2>4. both \in Ledger /\ both.count = count
    BY <2>1, <2>2, <2>3 DEF Ledger
  <2>5. BlankIsEmpty(both)
    BY <2>2, <2>4 DEF BlankIsEmpty, Exists
  <2> QED
    BY <2>4, <2>5 DEF both
<1> QED
  BY <1>1, <1>2

LEMMA MergeKeeps ==
  ASSUME IInv, NEW from \in Vendors, NEW to \in Vendors, Merge(from, to)
  PROVE  IInv'
<1>1. UNCHANGED recordings
  BY DEF Merge
<1>2. Entry' = Entry /\ Ledger' = Ledger /\ Job' = Job
  BY <1>1, TypesStay
<1>3. ledger \in [Keys -> Ledger] /\ (\A k \in Keys : BlankIsEmpty(ledger[k]))
  BY DEF IInv, TypeOK, BlanksAreEmpty
<1>4. NoLedger \in Ledger /\ BlankIsEmpty(NoLedger)
  <2>1. <<>> \in Seq(Entry)
    OBVIOUS
  <2> QED
    BY <2>1 DEF NoLedger, Ledger, BlankIsEmpty
<1>5. \A k \in Keys : Absorbed(from, to)[k] \in Ledger
                      /\ BlankIsEmpty(Absorbed(from, to)[k])
  <2> TAKE k \in Keys
  <2>1. <<from, k[2]>> \in Keys
    BY DEF Keys
  <2>2. ledger[k] \in Ledger /\ BlankIsEmpty(ledger[k])
        /\ ledger[<<from, k[2]>>] \in Ledger
        /\ BlankIsEmpty(ledger[<<from, k[2]>>])
    BY <1>3, <2>1
  <2>3. Absorbed(from, to)[k]
          \in {Consolidated(ledger[k], ledger[<<from, k[2]>>]), NoLedger,
               ledger[k]}
    BY DEF Absorbed
  <2> QED
    BY <1>4, <2>2, <2>3, ConsolidatedFits
<1>6. ledger' = Absorbed(from, to)
      /\ Absorbed(from, to) = [k \in Keys |-> Absorbed(from, to)[k]]
  BY DEF Merge, Absorbed
<1>7. ledger' \in [Keys -> Ledger] /\ BlanksAreEmpty'
  BY <1>5, <1>6 DEF BlanksAreEmpty
<1>8. vendor' \in [Invoices -> Vendors] /\ merged' \subseteq Vendors
      /\ unsettled' \subseteq Keys
  BY DEF IInv, TypeOK, Merge, Keys
<1>9. used' \in [requests : 0..MaxRequests, archives : 0..MaxArchives,
                 merges : 0..MaxMerges, faults : 0..MaxFaults]
  BY UseTyped DEF IInv, Merge
<1>10. TypeOK'
  BY <1>2, <1>7, <1>8, <1>9 DEF IInv, TypeOK, Merge
<1> QED
  BY <1>7, <1>10 DEF IInv, JobsFit, ShownFits, Merge

LEMMA CrashKeeps ==
  ASSUME IInv, Crash
  PROVE  IInv'
<1>1. UNCHANGED recordings /\ job' = [w \in Workers |-> Idle]
  BY DEF Crash
<1>2. Entry' = Entry /\ Ledger' = Ledger /\ Job' = Job
  BY <1>1, TypesStay
<1>3. job' \in [Workers -> Job] /\ JobsFit'
  BY <1>1, IdleFits DEF JobsFit
<1>4. used' \in [requests : 0..MaxRequests, archives : 0..MaxArchives,
                 merges : 0..MaxMerges, faults : 0..MaxFaults]
  BY UseTyped DEF IInv, Crash
<1>5. TypeOK'
  BY <1>2, <1>3, <1>4 DEF IInv, TypeOK, Crash
<1> QED
  BY <1>3, <1>5 DEF IInv, ShownFits, BlanksAreEmpty, Crash

LEMMA NextIInv == IInv /\ [Next]_vars => IInv'
<1> SUFFICES ASSUME IInv, [Next]_vars PROVE IInv'
  OBVIOUS
<1>1. ASSUME NEW w \in Workers, NEW i \in Invoices,
             NEW h \in Heads \cup {NoHead}, Retrigger(w, i, h)
      PROVE  IInv'
  BY <1>1, RetriggerKeeps
<1>2. ASSUME NEW w \in Workers,
             \/ ReadPrimary(w) \/ ReadArchive(w) \/ Record(w) \/ Split(w)
             \/ Page(w) \/ Return(w) \/ Fail(w) \/ Save(w)
      PROVE  IInv'
  BY <1>2, ReadPrimaryKeeps, ReadArchiveKeeps, RecordKeeps, SplitKeeps,
     PageKeeps, ReturnKeeps, FailKeeps, SaveKeeps
<1>3. ASSUME NEW k \in Keys, ArchiveTake(k) PROVE IInv'
  BY <1>3, ArchiveTakeKeeps
<1>4. ASSUME NEW a \in archiving, ArchivePut(a) PROVE IInv'
  BY <1>4, ArchivePutKeeps
<1>5. ASSUME NEW from \in Vendors, NEW to \in Vendors, Merge(from, to)
      PROVE  IInv'
  BY <1>5, MergeKeeps
<1>6. CASE Crash
  BY <1>6, CrashKeeps
<1>7. CASE UNCHANGED vars
  <2>1. UNCHANGED recordings
    BY <1>7 DEF vars
  <2>2. Entry' = Entry /\ Ledger' = Ledger /\ Job' = Job
    BY <2>1, TypesStay
  <2>3. TypeOK'
    BY <1>7, <2>2 DEF IInv, TypeOK, vars
  <2> QED
    BY <1>7, <2>3 DEF IInv, JobsFit, ShownFits, BlanksAreEmpty, vars
<1> QED
  BY <1>1, <1>2, <1>3, <1>4, <1>5, <1>6, <1>7 DEF Next

LEMMA Invariant == Spec => []IInv
<1> QED
  BY InitIInv, NextIInv, PTL DEF Spec

\* The documents, requests, archivals and recordings keep their types
\* whatever overlaps, fails or crashes.
THEOREM TypeCorrect == Spec => []TypeOK
<1>1. IInv => TypeOK
  BY DEF IInv
<1> QED
  BY <1>1, Invariant, PTL

\* An invoice never shows a tax that was not recorded for it.
THEOREM ShownWasRecorded == Spec => []ShownTaxWasRecorded
<1>1. IInv => ShownTaxWasRecorded
  BY DEF IInv, ShownFits, Recorded, ShownTaxWasRecorded, Entry
<1> QED
  BY <1>1, Invariant, PTL

-----------------------------------------------------------------------------
(* The tax that is due.                                                    *)

\* OneRate and TaxIsDue of given recordings and a given ledger.
OneRateIn(h, bps, recs) ==
  \A n \in 1..Len(recs) : recs[n].head = h =>
     EffectiveRate(recs[n].invoice, h) = bps
IsDue(doc, h, recs) ==
  \A i \in Invoices :
    OneRateIn(h, EffectiveRate(i, h), recs) /\ Single[h] = 0 /\ Exists(doc)
      => Due(doc, h, EffectiveRate(i, h))

LEMMA DueMeans ==
  ASSUME NEW k \in Keys
  PROVE  /\ TaxIsDue(k) <=> IsDue(ledger[k], k[2], recordings)
         /\ TaxIsDue(k)' <=> IsDue(ledger'[k], k[2], recordings')
<1>1. TaxIsDue(k) <=> IsDue(ledger[k], k[2], recordings)
  BY DEF TaxIsDue, IsDue, OneRate, OneRateIn, Entry
<1>2. TaxIsDue(k)' <=> IsDue(ledger'[k], k[2], recordings')
  BY DEF TaxIsDue, IsDue, OneRate, OneRateIn, Entry
<1> QED
  BY <1>1, <1>2

\* A ledger with the same figures is still due after more recordings.
LEMMA DueStays ==
  ASSUME NEW old, NEW new, NEW h, NEW recs, NEW more, IsDue(old, h, recs),
         new.base = old.base, new.tds = old.tds, new.count = old.count,
         new.crossed = old.crossed, Grows(recs, more)
  PROVE  IsDue(new, h, more)
<1> SUFFICES ASSUME NEW i \in Invoices, Single[h] = 0, Exists(new),
                    OneRateIn(h, EffectiveRate(i, h), more)
             PROVE  Due(new, h, EffectiveRate(i, h))
  BY DEF IsDue
<1>1. OneRateIn(h, EffectiveRate(i, h), recs)
  <2> SUFFICES ASSUME NEW n \in 1..Len(recs), recs[n].head = h
               PROVE  EffectiveRate(recs[n].invoice, h) = EffectiveRate(i, h)
    BY DEF OneRateIn
  <2>1. n \in 1..Len(more) /\ more[n] = recs[n]
    BY DEF Grows
  <2> QED
    BY <2>1 DEF OneRateIn
<1>2. Due(old, h, EffectiveRate(i, h))
  BY <1>1 DEF IsDue, Exists
<1> QED
  BY <1>2 DEF Due

\* Nothing recorded, and the key's figures as they were.
LEMMA SameFigures ==
  ASSUME IInv, SettledTaxIsDue, UNCHANGED recordings,
         unsettled \subseteq unsettled',
         \A q \in Keys \ unsettled' :
           \/ ~Exists(ledger'[q])
           \/ /\ ledger'[q].base = ledger[q].base
              /\ ledger'[q].tds = ledger[q].tds
              /\ ledger'[q].count = ledger[q].count
              /\ ledger'[q].crossed = ledger[q].crossed
  PROVE  SettledTaxIsDue'
<1>1. Grows(recordings, recordings')
  BY DEF IInv, TypeOK, Grows
<1>2. \A q \in Keys \ unsettled' : IsDue(ledger'[q], q[2], recordings')
  <2> TAKE q \in Keys \ unsettled'
  <2>1. IsDue(ledger[q], q[2], recordings)
    BY DueMeans DEF SettledTaxIsDue
  <2>2. CASE ~Exists(ledger'[q])
    BY <2>2 DEF IsDue
  <2>3. CASE Exists(ledger'[q])
    BY <1>1, <2>1, <2>3, DueStays
  <2> QED
    BY <2>2, <2>3
<1> QED
  BY <1>2, DueMeans DEF SettledTaxIsDue

LEMMA RecordIsDue ==
  ASSUME IInv, SettledTaxIsDue, NEW w \in Workers, Record(w)
  PROVE  SettledTaxIsDue'
<1> DEFINE j == job[w]   k == Key(j)   h == j.head   old == ledger[k]
           doc == Added(old, j)
           r == [invoice |-> j.invoice, head |-> j.head,
                 base |-> Base[j.invoice], tds |-> Amount(j)]
<1>1. /\ j \in Job /\ h \in Heads /\ Base[j.invoice] > 0
      /\ j.phase = "record"
  BY DEF IInv, TypeOK, JobsFit, JobFits, HeadFits, Record, At
<1>2. k \in Keys /\ k[2] = h
  BY <1>1 DEF Keys, Key, Job
<1>3. old \in Ledger /\ BlankIsEmpty(old)
  BY <1>2 DEF IInv, TypeOK, BlanksAreEmpty
<1>4. r \in Recording
  <2>1. Amount(j) \in Int
    BY <1>1, DeductionTyped DEF Amount, Job
  <2>2. Base[j.invoice] \in Nat
    BY <1>1, TaxAssumption DEF Job
  <2> QED
    BY <1>1, <2>1, <2>2 DEF Recording, Job
<1>5. TypeOK /\ recordings' = Append(recordings, r)
      /\ ledger' = [ledger EXCEPT ![k] = doc]
      /\ unsettled' = IF j.base = old.base /\ j.tds = old.tds
                      THEN unsettled ELSE unsettled \cup {k}
  BY DEF IInv, Record
<1>6. Grows(recordings, recordings')
  BY <1>5, RecordingGrows
<1>7. /\ doc.base = old.base + Base[j.invoice]
      /\ doc.tds = old.tds + Amount(j) /\ doc.count = old.count + 1
      /\ doc.crossed = (old.crossed \/ Crosses(j.invoice, j.head, j.base))
  <2> HIDE DEF r, j
  <2> QED
    BY <1>1, <1>3, <1>4, <1>5, AddedFits
<1>8. r.invoice = j.invoice /\ r.head = h
  OBVIOUS
<1>9. ledger \in [Keys -> Ledger]
  BY <1>5 DEF TypeOK
<1> HIDE DEF doc, r
<1>10. ASSUME k \notin unsettled' PROVE IsDue(doc, h, recordings')
  <2>1. j.base = old.base /\ j.tds = old.tds /\ k \notin unsettled
    BY <1>5, <1>10
  <2>2. IsDue(old, h, recordings)
    BY <1>2, <2>1, DueMeans DEF SettledTaxIsDue
  <2> SUFFICES ASSUME NEW i \in Invoices, Single[h] = 0,
                      OneRateIn(h, EffectiveRate(i, h), recordings')
               PROVE  Due(doc, h, EffectiveRate(i, h))
    BY DEF IsDue
  <2>3. EffectiveRate(j.invoice, h) = EffectiveRate(i, h)
    <3>1. Len(recordings) + 1 \in 1..Len(recordings')
          /\ recordings'[Len(recordings) + 1] = r
      BY <1>4, <1>5, RecordedStays DEF Entry
    <3> QED
      BY <1>8, <3>1 DEF OneRateIn
  <2>4. OneRateIn(h, EffectiveRate(j.invoice, h), recordings)
    <3> SUFFICES ASSUME NEW n \in 1..Len(recordings), recordings[n].head = h
                 PROVE  EffectiveRate(recordings[n].invoice, h)
                          = EffectiveRate(j.invoice, h)
      BY DEF OneRateIn
    <3>1. n \in 1..Len(recordings') /\ recordings'[n] = recordings[n]
      BY <1>6 DEF Grows
    <3> QED
      BY <2>3, <3>1 DEF OneRateIn
  <2>5. Exists(old) => Due(old, h, EffectiveRate(j.invoice, h))
    <3>1. j.invoice \in Invoices
      BY <1>1 DEF Job
    <3> QED
      BY <2>2, <2>4, <3>1 DEF IsDue
  <2>6. doc.tds = old.tds + Deduction(j.invoice, h, old.base, old.tds)
        /\ doc.crossed = (old.crossed \/ Crosses(j.invoice, h, old.base))
    BY <1>7, <2>1 DEF Amount
  <2>7. /\ j.invoice \in Invoices /\ old.base \in Nat /\ old.tds \in Int
        /\ old.count \in Nat /\ old.crossed \in BOOLEAN
    BY <1>1, <1>3 DEF Job, Ledger
  <2>8. Due(doc, h, EffectiveRate(j.invoice, h))
    <3> HIDE DEF j, old, h
    <3> QED
      BY <1>1, <1>3, <1>7, <2>5, <2>6, <2>7, DeductionIsDue
  <2> QED
    BY <2>3, <2>8
<1>11. \A q \in Keys \ unsettled' : IsDue(ledger'[q], q[2], recordings')
  <2> TAKE q \in Keys \ unsettled'
  <2>1. CASE q = k
    <3>1. ledger'[q] = doc
      BY <1>2, <1>5, <1>9, <2>1
    <3> QED
      BY <1>2, <1>10, <2>1, <3>1
  <2>2. CASE q # k
    <3>1. ledger'[q] = ledger[q] /\ q \notin unsettled
      BY <1>5, <1>9, <2>2
    <3>2. IsDue(ledger[q], q[2], recordings)
      BY <3>1, DueMeans DEF SettledTaxIsDue
    <3> QED
      BY <1>6, <3>1, <3>2, DueStays
  <2> QED
    BY <2>1, <2>2
<1> QED
  BY <1>11, DueMeans DEF SettledTaxIsDue

LEMMA SettledKept ==
  IInv /\ SettledTaxIsDue /\ [Next]_vars => SettledTaxIsDue'
<1> SUFFICES ASSUME IInv, SettledTaxIsDue, [Next]_vars
             PROVE  SettledTaxIsDue'
  OBVIOUS
<1>1. ASSUME UNCHANGED <<ledger, recordings, unsettled>>
      PROVE  SettledTaxIsDue'
  BY <1>1, SameFigures
<1>2. ASSUME NEW w \in Workers, Split(w) PROVE SettledTaxIsDue'
  <2> DEFINE k == Key(job[w])
  <2>1. ledger \in [Keys -> Ledger]
    BY DEF IInv, TypeOK
  <2>2. \A q \in Keys : /\ ledger'[q].base = ledger[q].base
                        /\ ledger'[q].tds = ledger[q].tds
                        /\ ledger'[q].count = ledger[q].count
                        /\ ledger'[q].crossed = ledger[q].crossed
    <3> TAKE q \in Keys
    <3>1. ledger[q] \in Ledger
      BY <2>1
    <3>2. ledger'[q] = ledger[q]
          \/ ledger'[q] = [ledger[q] EXCEPT !.entries = SubSeq(@, 1, Cap),
                                            !.overflow = TRUE]
      BY <1>2, <2>1, <3>1 DEF Split, Ledger
    <3> QED
      BY <3>1, <3>2 DEF Ledger
  <2> QED
    BY <1>2, <2>2, SameFigures DEF Split
<1>3. ASSUME NEW k \in Keys, ArchiveTake(k) PROVE SettledTaxIsDue'
  <2>1. ledger \in [Keys -> Ledger]
    BY DEF IInv, TypeOK
  <2>2. \A q \in Keys : ~Exists(ledger'[q]) \/ ledger'[q] = ledger[q]
    BY <1>3, <2>1 DEF ArchiveTake, NoLedger, Exists
  <2> QED
    BY <1>3, <2>2, SameFigures DEF ArchiveTake
<1>4. ASSUME NEW from \in Vendors, NEW to \in Vendors, Merge(from, to)
      PROVE  SettledTaxIsDue'
  <2>1. \A q \in Keys \ unsettled' : ledger'[q] = ledger[q]
    <3> TAKE q \in Keys \ unsettled'
    <3>1. q[1] \notin {from, to}
      BY <1>4 DEF Merge, Keys
    <3> QED
      BY <1>4, <3>1 DEF Merge, Absorbed
  <2> QED
    BY <1>4, <2>1, SameFigures DEF Merge
<1>5. ASSUME NEW w \in Workers,
             \/ \E i \in Invoices, h \in Heads \cup {NoHead} : Retrigger(w, i, h)
             \/ ReadPrimary(w) \/ ReadArchive(w) \/ Record(w) \/ Split(w)
             \/ Page(w) \/ Return(w) \/ Fail(w) \/ Save(w)
      PROVE  SettledTaxIsDue'
  <2>1. CASE Record(w)
    BY <2>1, RecordIsDue
  <2>2. CASE Split(w)
    BY <1>2, <2>2
  <2>3. CASE \E i \in Invoices, h \in Heads \cup {NoHead} : Retrigger(w, i, h)
    BY <1>1, <2>3 DEF Retrigger
  <2>4. CASE ReadPrimary(w) \/ ReadArchive(w) \/ Page(w)
    BY <1>1, <2>4 DEF ReadPrimary, ReadArchive, Page
  <2>5. CASE Return(w) \/ Fail(w) \/ Save(w)
    BY <1>1, <2>5 DEF Return, Fail, Save
  <2> QED
    BY <1>5, <2>1, <2>2, <2>3, <2>4, <2>5
<1>6. ASSUME NEW a \in archiving, ArchivePut(a) PROVE SettledTaxIsDue'
  BY <1>1, <1>6 DEF ArchivePut
<1>7. CASE Crash
  BY <1>1, <1>7 DEF Crash
<1>8. CASE UNCHANGED vars
  BY <1>1, <1>8 DEF vars
<1> QED
  BY <1>3, <1>4, <1>5, <1>6, <1>7, <1>8 DEF Next

\* Ledgers whose recordings were made on their own figures hold the tax that
\* is due on what was recorded, for any rates, thresholds and amounts.
THEOREM SettledIsDue == Spec => []SettledTaxIsDue
<1>1. Init => SettledTaxIsDue
  <2> SUFFICES ASSUME Init, NEW k \in Keys PROVE TaxIsDue(k)
    BY DEF SettledTaxIsDue
  <2>1. ~Exists(ledger[k])
    BY DEF Init, NoLedger, Exists
  <2> QED
    BY <2>1 DEF TaxIsDue
<1> QED
  BY <1>1, Invariant, SettledKept, PTL DEF Spec

-----------------------------------------------------------------------------
(* Families of sequences: no two positions hold the same entry.            *)

Apart(P, s) ==
  \A p, q \in P : \A m \in DOMAIN s[p], n \in DOMAIN s[q] :
    s[p][m] = s[q][n] => p = q /\ m = n

\* Some sequence of the family holds e.
Holds(P, s, e) == \E p \in P : \E m \in DOMAIN s[p] : s[p][m] = e

\* Leaving some sequences out.
LEMMA ApartWithout ==
  ASSUME NEW P, NEW s, NEW t, Apart(P, s),
         \A q \in P : t[q] = s[q] \/ t[q] = <<>>
  PROVE  Apart(P, t)
<1> SUFFICES ASSUME NEW p \in P, NEW q \in P,
                    NEW m \in DOMAIN t[p], NEW n \in DOMAIN t[q],
                    t[p][m] = t[q][n]
             PROVE  p = q /\ m = n
  BY DEF Apart
<1>1. t[p] # <<>> /\ t[q] # <<>>
  OBVIOUS
<1>2. t[p] = s[p] /\ t[q] = s[q]
  BY <1>1
<1> QED
  BY <1>2 DEF Apart

\* Appending an entry that no sequence holds.
LEMMA Appended ==
  ASSUME NEW P, NEW s, NEW t, NEW S, s \in [P -> Seq(S)],
         NEW x \in P, NEW e, ~Holds(P, s, e),
         t[x] = Append(s[x], e), \A q \in P : q # x => t[q] = s[q]
  PROVE  /\ Apart(P, s) => Apart(P, t)
         /\ Holds(P, t, e)
         /\ \A f : Holds(P, s, f) => Holds(P, t, f)
<1> DEFINE last == Len(s[x]) + 1
<1>1. s[x] \in Seq(S) /\ Len(s[x]) \in Nat
  OBVIOUS
<1>2. /\ DOMAIN t[x] = DOMAIN s[x] \cup {last} /\ last \notin DOMAIN s[x]
      /\ t[x][last] = e /\ \A n \in DOMAIN s[x] : t[x][n] = s[x][n]
  <2>1. /\ DOMAIN s[x] = 1..Len(s[x])
        /\ DOMAIN Append(s[x], e) = 1..(Len(s[x]) + 1)
        /\ Append(s[x], e)[Len(s[x]) + 1] = e
        /\ \A n \in 1..Len(s[x]) : Append(s[x], e)[n] = s[x][n]
    BY <1>1
  <2> QED
    BY <1>1, <2>1
<1> HIDE DEF last
<1>3. ASSUME NEW q \in P, NEW n \in DOMAIN t[q]
      PROVE  \/ n \in DOMAIN s[q] /\ t[q][n] = s[q][n]
             \/ q = x /\ n = last /\ t[q][n] = e
  BY <1>2
<1>4. ASSUME NEW q \in P, NEW n \in DOMAIN s[q]
      PROVE  s[q][n] # e /\ n \in DOMAIN t[q] /\ t[q][n] = s[q][n]
  BY <1>2 DEF Holds
<1>5. Apart(P, s) => Apart(P, t)
  BY <1>3, <1>4 DEF Apart
<1>6. Holds(P, t, e)
  BY <1>2 DEF Holds
<1>7. \A f : Holds(P, s, f) => Holds(P, t, f)
  BY <1>4 DEF Holds
<1> QED
  BY <1>5, <1>6, <1>7

\* Moving the whole of some sequences to the end of others.
Moves(P, s, t, T, from) ==
  /\ T \in SUBSET P /\ from \in [T -> P \ T]
  /\ \A x, y \in T : from[x] = from[y] => x = y
  /\ \A x \in T : t[x] = s[x] \o s[from[x]] /\ t[from[x]] = <<>>
  /\ \A q \in P : q \notin T /\ (\A x \in T : q # from[x]) => t[q] = s[q]

LEMMA Moved ==
  ASSUME NEW P, NEW s, NEW t, NEW S, s \in [P -> Seq(S)],
         NEW T, NEW from, Moves(P, s, t, T, from)
  PROVE  /\ Apart(P, s) => Apart(P, t)
         /\ \A f : Holds(P, s, f) => Holds(P, t, f)
<1> USE DEF Moves
<1>1. ASSUME NEW x \in T
      PROVE  /\ \A n \in DOMAIN t[x] :
                   \/ n \in DOMAIN s[x] /\ t[x][n] = s[x][n]
                   \/ \E m \in DOMAIN s[from[x]] :
                        /\ n = Len(s[x]) + m /\ t[x][n] = s[from[x]][m]
             /\ \A n \in DOMAIN s[x] : n \in DOMAIN t[x] /\ t[x][n] = s[x][n]
             /\ \A m \in DOMAIN s[from[x]] :
                  /\ Len(s[x]) + m \in DOMAIN t[x]
                  /\ t[x][Len(s[x]) + m] = s[from[x]][m]
  <2> DEFINE a == s[x]   b == s[from[x]]
  <2>1. a \in Seq(S) /\ b \in Seq(S)
    OBVIOUS
  <2>2. t[x] = a \o b
    OBVIOUS
  <2> HIDE DEF a, b
  <2>3. /\ Len(a) \in Nat /\ Len(b) \in Nat
        /\ DOMAIN a = 1..Len(a) /\ DOMAIN b = 1..Len(b)
        /\ DOMAIN t[x] = 1..(Len(a) + Len(b))
        /\ \A n \in 1..(Len(a) + Len(b)) :
             t[x][n] = IF n <= Len(a) THEN a[n] ELSE b[n - Len(a)]
    BY <2>1, <2>2
  <2>4. \A n \in DOMAIN t[x] :
          \/ n \in DOMAIN a /\ t[x][n] = a[n]
          \/ \E m \in DOMAIN b : n = Len(a) + m /\ t[x][n] = b[m]
    <3> TAKE n \in DOMAIN t[x]
    <3>1. CASE n <= Len(a)
      BY <2>3, <3>1
    <3>2. CASE ~(n <= Len(a))
      <4>1. n - Len(a) \in DOMAIN b /\ n = Len(a) + (n - Len(a))
        BY <2>3, <3>2
      <4>2. t[x][n] = b[n - Len(a)]
        BY <2>3, <3>2
      <4> QED
        BY <4>1, <4>2
    <3> QED
      BY <3>1, <3>2
  <2>5. \A n \in DOMAIN a : n \in DOMAIN t[x] /\ t[x][n] = a[n]
    BY <2>3
  <2>6. \A m \in DOMAIN b :
          Len(a) + m \in DOMAIN t[x] /\ t[x][Len(a) + m] = b[m]
    <3> TAKE m \in DOMAIN b
    <3>1. /\ Len(a) + m \in 1..(Len(a) + Len(b)) /\ ~(Len(a) + m <= Len(a))
          /\ Len(a) + m - Len(a) = m
      BY <2>3
    <3> QED
      BY <2>3, <3>1
  <2> QED
    BY <2>4, <2>5, <2>6 DEF a, b
\* Where the entry at a position comes from: the same position, of a sequence
\* that is not moved, or one of the sequence moved there.
<1> DEFINE Stays(q, n, p, m) ==
             p = q /\ m = n /\ \A x \in T : q # from[x]
           Comes(q, n, p, m) ==
             q \in T /\ p = from[q] /\ n = Len(s[q]) + m
<1>2. ASSUME NEW q \in P, NEW n \in DOMAIN t[q]
      PROVE  \E p \in P : \E m \in DOMAIN s[p] :
               t[q][n] = s[p][m] /\ (Stays(q, n, p, m) \/ Comes(q, n, p, m))
  <2>1. CASE q \in T
    <3>1. \A x \in T : q # from[x]
      BY <2>1
    <3> QED
      BY <1>1, <2>1, <3>1
  <2>2. CASE q \notin T
    <3>1. ASSUME NEW x \in T PROVE q # from[x]
      <4>1. t[from[x]] = <<>>
        OBVIOUS
      <4>2. DOMAIN <<>> = {}
        OBVIOUS
      <4> QED
        BY <4>1, <4>2
    <3>2. t[q] = s[q]
      BY <2>2, <3>1
    <3> QED
      BY <3>1, <3>2
  <2> QED
    BY <2>1, <2>2
<1>3. ASSUME Apart(P, s) PROVE Apart(P, t)
  <2> SUFFICES ASSUME NEW p \in P, NEW q \in P,
                      NEW m \in DOMAIN t[p], NEW n \in DOMAIN t[q],
                      t[p][m] = t[q][n]
               PROVE  p = q /\ m = n
    BY DEF Apart
  <2>1. PICK p1 \in P : \E m1 \in DOMAIN s[p1] :
          t[p][m] = s[p1][m1] /\ (Stays(p, m, p1, m1) \/ Comes(p, m, p1, m1))
    BY <1>2
  <2>2. PICK m1 \in DOMAIN s[p1] :
          t[p][m] = s[p1][m1] /\ (Stays(p, m, p1, m1) \/ Comes(p, m, p1, m1))
    BY <2>1
  <2>3. PICK q1 \in P : \E n1 \in DOMAIN s[q1] :
          t[q][n] = s[q1][n1] /\ (Stays(q, n, q1, n1) \/ Comes(q, n, q1, n1))
    BY <1>2
  <2>4. PICK n1 \in DOMAIN s[q1] :
          t[q][n] = s[q1][n1] /\ (Stays(q, n, q1, n1) \/ Comes(q, n, q1, n1))
    BY <2>3
  <2>5. p1 = q1 /\ m1 = n1
    <3> HIDE DEF Stays, Comes
    <3>1. s[p1][m1] = s[q1][n1]
      BY <2>2, <2>4
    <3> QED
      BY <1>3, <3>1 DEF Apart
  <2>6. CASE Stays(p, m, p1, m1) /\ Stays(q, n, q1, n1)
    BY <2>5, <2>6
  <2>7. CASE Comes(p, m, p1, m1) /\ Comes(q, n, q1, n1)
    <3>1. p = q
      BY <2>5, <2>7
    <3> QED
      BY <2>5, <2>7, <3>1
  <2>8. CASE Stays(p, m, p1, m1) /\ Comes(q, n, q1, n1)
    BY <2>5, <2>8
  <2>9. CASE Comes(p, m, p1, m1) /\ Stays(q, n, q1, n1)
    BY <2>5, <2>9
  <2> HIDE DEF Stays, Comes
  <2> QED
    BY <2>2, <2>4, <2>6, <2>7, <2>8, <2>9
<1>4. ASSUME NEW f, Holds(P, s, f) PROVE Holds(P, t, f)
  <2>1. PICK p \in P : \E m \in DOMAIN s[p] : s[p][m] = f
    BY <1>4 DEF Holds
  <2>2. PICK m \in DOMAIN s[p] : s[p][m] = f
    BY <2>1
  <2>3. CASE p \in T
    BY <1>1, <2>2, <2>3 DEF Holds
  <2>4. CASE \E x \in T : p = from[x]
    <3>1. PICK x \in T : p = from[x]
      BY <2>4
    <3> QED
      BY <1>1, <2>2, <3>1 DEF Holds
  <2>5. CASE p \notin T /\ \A x \in T : p # from[x]
    <3>1. t[p] = s[p]
      BY <2>5
    <3> QED
      BY <2>2, <3>1 DEF Holds
  <2> QED
    BY <2>3, <2>4, <2>5
<1> QED
  BY <1>3, <1>4

\* Cutting the end off a sequence, into an empty one.
LEMMA CutOff ==
  ASSUME NEW P, NEW s, NEW t, NEW S, s \in [P -> Seq(S)],
         NEW x \in P, NEW y \in P, x # y, s[y] = <<>>,
         NEW c \in Nat, c <= Len(s[x]),
         t[x] = SubSeq(s[x], 1, c), t[y] = SubSeq(s[x], c + 1, Len(s[x])),
         \A q \in P : q # x /\ q # y => t[q] = s[q]
  PROVE  /\ Apart(P, s) => Apart(P, t)
         /\ \A f : Holds(P, s, f) => Holds(P, t, f)
<1>1. /\ \A n \in DOMAIN t[x] : n \in DOMAIN s[x] /\ n <= c /\ t[x][n] = s[x][n]
      /\ \A n \in DOMAIN t[y] : /\ c + n \in DOMAIN s[x] /\ ~(c + n <= c)
                                /\ t[y][n] = s[x][c + n] /\ n \in Nat
      /\ \A n \in DOMAIN s[x] :
           \/ n \in DOMAIN t[x] /\ t[x][n] = s[x][n]
           \/ n - c \in DOMAIN t[y] /\ t[y][n - c] = s[x][n]
  <2> DEFINE a == s[x]
  <2>1. a \in Seq(S) /\ Len(a) \in Nat /\ DOMAIN a = 1..Len(a)
    OBVIOUS
  <2> HIDE DEF a
  <2>2. /\ DOMAIN SubSeq(a, 1, c) = 1..c
        /\ \A n \in 1..c : SubSeq(a, 1, c)[n] = a[n]
    <3>1. c <= Len(a)
      BY DEF a
    <3> QED
      BY <2>1, <3>1
  <2>3. /\ DOMAIN SubSeq(a, c + 1, Len(a)) = 1..(Len(a) - c)
        /\ \A n \in 1..(Len(a) - c) :
             SubSeq(a, c + 1, Len(a))[n] = a[c + n]
    <3>1. c <= Len(a)
      BY DEF a
    <3> QED
      BY <2>1, <3>1
  <2>4. c <= Len(a) /\ t[x] = SubSeq(a, 1, c) /\ t[y] = SubSeq(a, c + 1, Len(a))
    BY DEF a
  <2>5. \A n \in DOMAIN t[x] : n \in DOMAIN a /\ n <= c /\ t[x][n] = a[n]
    BY <2>1, <2>2, <2>4
  <2>6. \A n \in DOMAIN t[y] : /\ c + n \in DOMAIN a /\ ~(c + n <= c)
                               /\ t[y][n] = a[c + n] /\ n \in Nat
    BY <2>1, <2>3, <2>4
  <2>7. ASSUME NEW n \in DOMAIN a
        PROVE  \/ n \in DOMAIN t[x] /\ t[x][n] = a[n]
               \/ n - c \in DOMAIN t[y] /\ t[y][n - c] = a[n]
    <3>1. CASE n <= c
      BY <2>1, <2>2, <2>4, <3>1
    <3>2. CASE ~(n <= c)
      <4>1. n - c \in 1..(Len(a) - c) /\ c + (n - c) = n
        BY <2>1, <2>4, <3>2
      <4> QED
        BY <2>3, <2>4, <4>1
    <3> QED
      BY <3>1, <3>2
  <2> QED
    BY <2>5, <2>6, <2>7 DEF a
\* Where the entry at a position comes from.
<1> DEFINE Stays(q, n, p, m) ==
             q # y /\ p = q /\ m = n /\ (q = x => n <= c)
           Comes(q, n, p, m) ==
             q = y /\ p = x /\ m = c + n /\ n \in Nat /\ ~(m <= c)
<1>2. ASSUME NEW q \in P, NEW n \in DOMAIN t[q]
      PROVE  \E p \in P : \E m \in DOMAIN s[p] :
               t[q][n] = s[p][m] /\ (Stays(q, n, p, m) \/ Comes(q, n, p, m))
  <2>1. CASE q = x
    BY <1>1, <2>1
  <2>2. CASE q = y
    BY <1>1, <2>2
  <2>3. CASE q # x /\ q # y
    BY <2>3
  <2> QED
    BY <2>1, <2>2, <2>3
<1>3. ASSUME Apart(P, s) PROVE Apart(P, t)
  <2> SUFFICES ASSUME NEW p \in P, NEW q \in P,
                      NEW m \in DOMAIN t[p], NEW n \in DOMAIN t[q],
                      t[p][m] = t[q][n]
               PROVE  p = q /\ m = n
    BY DEF Apart
  <2>1. PICK p1 \in P : \E m1 \in DOMAIN s[p1] :
          t[p][m] = s[p1][m1] /\ (Stays(p, m, p1, m1) \/ Comes(p, m, p1, m1))
    BY <1>2
  <2>2. PICK m1 \in DOMAIN s[p1] :
          t[p][m] = s[p1][m1] /\ (Stays(p, m, p1, m1) \/ Comes(p, m, p1, m1))
    BY <2>1
  <2>3. PICK q1 \in P : \E n1 \in DOMAIN s[q1] :
          t[q][n] = s[q1][n1] /\ (Stays(q, n, q1, n1) \/ Comes(q, n, q1, n1))
    BY <1>2
  <2>4. PICK n1 \in DOMAIN s[q1] :
          t[q][n] = s[q1][n1] /\ (Stays(q, n, q1, n1) \/ Comes(q, n, q1, n1))
    BY <2>3
  <2>5. p1 = q1 /\ m1 = n1
    <3> HIDE DEF Stays, Comes
    <3>1. s[p1][m1] = s[q1][n1]
      BY <2>2, <2>4
    <3> QED
      BY <1>3, <3>1 DEF Apart
  <2>6. CASE Stays(p, m, p1, m1) /\ Stays(q, n, q1, n1)
    BY <2>5, <2>6
  <2>7. CASE Comes(p, m, p1, m1) /\ Comes(q, n, q1, n1)
    <3>1. m \in Nat /\ n \in Nat /\ c + m = c + n /\ p = q
      BY <2>5, <2>7
    <3> QED
      BY <3>1
  <2>8. CASE Stays(p, m, p1, m1) /\ Comes(q, n, q1, n1)
    BY <2>5, <2>8
  <2>9. CASE Comes(p, m, p1, m1) /\ Stays(q, n, q1, n1)
    BY <2>5, <2>9
  <2> HIDE DEF Stays, Comes
  <2> QED
    BY <2>2, <2>4, <2>6, <2>7, <2>8, <2>9
<1>4. ASSUME NEW f, Holds(P, s, f) PROVE Holds(P, t, f)
  <2>1. PICK p \in P : \E m \in DOMAIN s[p] : s[p][m] = f
    BY <1>4 DEF Holds
  <2>2. PICK m \in DOMAIN s[p] : s[p][m] = f
    BY <2>1
  <2>3. CASE p = x
    BY <1>1, <2>2, <2>3 DEF Holds
  <2>4. CASE p = y
    BY <2>2, <2>4
  <2>5. CASE p # x /\ p # y
    <3>1. t[p] = s[p]
      BY <2>5
    <3> QED
      BY <2>2, <3>1 DEF Holds
  <2> QED
    BY <2>3, <2>4, <2>5
<1> QED
  BY <1>3, <1>4

-----------------------------------------------------------------------------
(* The places entries are in, as one family of sequences.                  *)

Archival ==
  [key : Keys,
   doc : [base : Nat, tds : Int, count : Nat, crossed : BOOLEAN,
          entries : Seq(Nat), overflow : BOOLEAN]]

OfLedger(k)  == <<"ledger", k>>
OfArchive(k) == <<"archive", k>>
OfPages(k)   == <<"pages", k>>
OfTaken(a)   == <<"archiving", a>>
OfHand(w)    == <<"hand", w>>

Slots ==
  {OfLedger(k) : k \in Keys} \cup {OfArchive(k) : k \in Keys}
    \cup {OfPages(k) : k \in Keys} \cup {OfTaken(a) : a \in Archival}
    \cup {OfHand(w) : w \in Workers}

Content(led, arc, pgs, taken, jobs, q) ==
  CASE q[1] = "ledger"    -> led[q[2]].entries
    [] q[1] = "archive"   -> arc[q[2]].entries
    [] q[1] = "pages"     -> pgs[q[2]]
    [] q[1] = "archiving" -> IF q[2] \in taken THEN q[2].doc.entries ELSE <<>>
    [] q[1] = "hand"      -> jobs[q[2]].hand

StockOf(led, arc, pgs, taken, jobs) ==
  [q \in Slots |-> Content(led, arc, pgs, taken, jobs, q)]
Stock == StockOf(ledger, archive, pages, archiving, job)

LEMMA SlotKinds ==
  ASSUME NEW q \in Slots
  PROVE  \/ \E k \in Keys : q = OfLedger(k)
         \/ \E k \in Keys : q = OfArchive(k)
         \/ \E k \in Keys : q = OfPages(k)
         \/ \E a \in Archival : q = OfTaken(a)
         \/ \E w \in Workers : q = OfHand(w)
  BY DEF Slots

LEMMA SlotsThere ==
  /\ \A k \in Keys : /\ OfLedger(k) \in Slots /\ OfArchive(k) \in Slots
                     /\ OfPages(k) \in Slots
  /\ \A a \in Archival : OfTaken(a) \in Slots
  /\ \A w \in Workers : OfHand(w) \in Slots
  BY DEF Slots

LEMMA SlotsDiffer ==
  ASSUME NEW x, NEW y
  PROVE  /\ OfLedger(x) = OfLedger(y) => x = y
         /\ OfArchive(x) = OfArchive(y) => x = y
         /\ OfPages(x) = OfPages(y) => x = y
         /\ OfTaken(x) = OfTaken(y) => x = y
         /\ OfHand(x) = OfHand(y) => x = y
         /\ OfLedger(x) # OfArchive(y) /\ OfLedger(x) # OfPages(y)
         /\ OfLedger(x) # OfTaken(y) /\ OfLedger(x) # OfHand(y)
         /\ OfArchive(x) # OfPages(y) /\ OfArchive(x) # OfTaken(y)
         /\ OfArchive(x) # OfHand(y) /\ OfPages(x) # OfTaken(y)
         /\ OfPages(x) # OfHand(y) /\ OfTaken(x) # OfHand(y)
  BY DEF OfLedger, OfArchive, OfPages, OfTaken, OfHand

\* What is in the places of a family.
Contents(s, led, arc, pgs, taken, jobs) ==
  /\ \A k \in Keys : /\ s[OfLedger(k)] = led[k].entries
                     /\ s[OfArchive(k)] = arc[k].entries
                     /\ s[OfPages(k)] = pgs[k]
  /\ \A a \in Archival :
       s[OfTaken(a)] = IF a \in taken THEN a.doc.entries ELSE <<>>
  /\ \A w \in Workers : s[OfHand(w)] = jobs[w].hand

LEMMA StockIs ==
  ASSUME NEW led, NEW arc, NEW pgs, NEW taken, NEW jobs, NEW s,
         s = StockOf(led, arc, pgs, taken, jobs)
  PROVE  Contents(s, led, arc, pgs, taken, jobs)
<1>1. \A q \in Slots : s[q] = Content(led, arc, pgs, taken, jobs, q)
  BY DEF StockOf
<1>2. ASSUME NEW k \in Keys
      PROVE  /\ s[OfLedger(k)] = led[k].entries
             /\ s[OfArchive(k)] = arc[k].entries
             /\ s[OfPages(k)] = pgs[k]
  BY <1>1, SlotsThere DEF Content, OfLedger, OfArchive, OfPages
<1>3. ASSUME NEW a \in Archival
      PROVE  s[OfTaken(a)] = IF a \in taken THEN a.doc.entries ELSE <<>>
  BY <1>1, SlotsThere DEF Content, OfTaken
<1>4. ASSUME NEW w \in Workers
      PROVE  s[OfHand(w)] = jobs[w].hand
  BY <1>1, SlotsThere DEF Content, OfHand
<1> QED
  BY <1>2, <1>3, <1>4 DEF Contents

LEMMA StockNow ==
  Contents(Stock, ledger, archive, pages, archiving, job)
  BY StockIs DEF Stock

LEMMA StockNext ==
  Contents(Stock', ledger', archive', pages', archiving', job')
<1>1. Stock' = StockOf(ledger', archive', pages', archiving', job')
  BY DEF Stock, StockOf, Content, Slots, Archival, Keys, OfLedger, OfArchive,
         OfPages, OfTaken, OfHand
<1> QED
  BY <1>1, StockIs

LEMMA Archivable ==
  ASSUME TypeOK
  PROVE  [key : Keys, doc : Ledger] \subseteq Archival
<1>1. Entry \subseteq Nat
  <2>1. Len(recordings) \in Nat
    BY DEF TypeOK
  <2> QED
    BY <2>1 DEF Entry
<1>2. Seq(Entry) \subseteq Seq(Nat)
  <2> SUFFICES ASSUME NEW s \in Seq(Entry) PROVE s \in Seq(Nat)
    OBVIOUS
  <2> HIDE DEF Entry
  <2>1. Len(s) \in Nat /\ s \in [1..Len(s) -> Entry]
    OBVIOUS
  <2>2. s \in [1..Len(s) -> Nat]
    BY <1>1, <2>1
  <2> QED
    BY <2>1, <2>2
<1> QED
  BY <1>2 DEF Archival, Ledger

LEMMA StockTyped ==
  ASSUME TypeOK
  PROVE  Stock \in [Slots -> Seq(Entry)]
<1>1. Stock = [q \in Slots |-> Stock[q]]
  BY DEF Stock, StockOf
<1>2. <<>> \in Seq(Entry)
  OBVIOUS
<1>3. ASSUME NEW q \in Slots PROVE Stock[q] \in Seq(Entry)
  <2>1. CASE \E k \in Keys : q = OfLedger(k) \/ q = OfArchive(k)
    BY <2>1, StockNow DEF Contents, TypeOK, Ledger
  <2>2. CASE \E k \in Keys : q = OfPages(k)
    BY <2>2, StockNow DEF Contents, TypeOK
  <2>3. CASE \E a \in Archival : q = OfTaken(a)
    BY <1>2, <2>3, StockNow DEF Contents, TypeOK, Ledger
  <2>4. CASE \E w \in Workers : q = OfHand(w)
    BY <2>4, StockNow DEF Contents, TypeOK, Job
  <2> QED
    BY <2>1, <2>2, <2>3, <2>4, SlotKinds
<1> QED
  BY <1>1, <1>3

-----------------------------------------------------------------------------
(* No recording is in two places, and while nothing fails none is lost.    *)

\* Entries are in a worker's hand only on the way to a page, and in a ledger
\* only when it exists.
NoneInHand  == \A w \in Workers : job[w].phase # "page" => job[w].hand = <<>>
NoneInBlank ==
  \A k \in Keys : ~Exists(ledger[k]) => ledger[k].entries = <<>>

\* The first archive overwrites nothing.
FirstArchive ==
  used.archives <= 1 =>
    /\ used.archives = 0 => archiving = {}
    /\ used.archives = 0 \/ archiving # {}
         => \A k \in Keys : archive[k].entries = <<>>
    /\ \A a, b \in archiving : a = b

PlacesApart == Apart(Slots, Stock)
AllHeld == Undisturbed => \A e \in Entry : Holds(Slots, Stock, e)

EntriesInv ==
  NoneInHand /\ NoneInBlank /\ FirstArchive /\ PlacesApart /\ AllHeld
EInv == IInv /\ EntriesInv

LEMMA UseLeaves ==
  ASSUME TypeOK
  PROVE  /\ Use("requests", MaxRequests) \/ Use("merges", MaxMerges)
              \/ UNCHANGED used
            => used'.archives = used.archives /\ used'.faults = used.faults
         /\ Use("archives", MaxArchives)
            => used'.archives = used.archives + 1 /\ used'.faults = used.faults
         /\ Fault => used'.archives = used.archives /\ used'.faults > 0
<1>1. used \in [requests : 0..MaxRequests, archives : 0..MaxArchives,
                merges : 0..MaxMerges, faults : 0..MaxFaults]
  BY DEF TypeOK
<1> QED
  BY <1>1, LimitsAssumption DEF Use, Fault

LEMMA SlotsSame == Slots' = Slots
  BY DEF Slots, Archival, Keys, OfLedger, OfArchive, OfPages, OfTaken, OfHand

\* A step whose places are a rearrangement of the places before.
LEMMA Rearranged ==
  ASSUME EInv, UNCHANGED recordings,
         Apart(Slots, Stock) => Apart(Slots, Stock'),
         \A e : Holds(Slots, Stock, e) => Holds(Slots, Stock', e),
         Undisturbed' => Undisturbed
  PROVE  PlacesApart' /\ AllHeld'
<1>1. Slots' = Slots /\ Entry' = Entry
  BY SlotsSame, TypesStay
<1>2. PlacesApart'
  BY <1>1 DEF EInv, EntriesInv, PlacesApart, Apart
<1>3. \A e : Holds(Slots, Stock', e) => Holds(Slots, Stock, e)'
  BY <1>1 DEF Holds
<1>4. AllHeld'
  BY <1>1, <1>3 DEF EInv, EntriesInv, AllHeld
<1> QED
  BY <1>2, <1>4

\* A step after a fault may leave entries out.
LEMMA FaultStep ==
  ASSUME EInv, Fault, UNCHANGED <<ledger, archive, pages>>,
         archiving' \subseteq archiving, NoneInHand',
         \A w \in Workers : job'[w].hand = job[w].hand \/ job'[w].hand = <<>>
  PROVE  EntriesInv'
<1>1. used'.archives = used.archives /\ used'.faults > 0
  BY UseLeaves DEF EInv, IInv
<1>2. FirstArchive'
  BY <1>1 DEF EInv, EntriesInv, FirstArchive
<1> DEFINE s == Stock   t == Stock'
<1>3. ASSUME NEW q \in Slots PROVE t[q] = s[q] \/ t[q] = <<>>
  <2> HIDE DEF s, t
  <2>1. /\ Contents(s, ledger, archive, pages, archiving, job)
        /\ Contents(t, ledger', archive', pages', archiving', job')
    BY StockNow, StockNext DEF s, t
  <2>2. CASE \E k \in Keys : q = OfLedger(k) \/ q = OfArchive(k)
                               \/ q = OfPages(k)
    BY <2>1, <2>2 DEF Contents
  <2>3. CASE \E a \in Archival : q = OfTaken(a)
    BY <2>1, <2>3 DEF Contents
  <2>4. CASE \E w \in Workers : q = OfHand(w)
    BY <2>1, <2>4 DEF Contents
  <2> QED
    BY <2>2, <2>3, <2>4, SlotKinds
<1>4. Apart(Slots, Stock)
  BY DEF EInv, EntriesInv, PlacesApart
<1>5. Apart(Slots, t)
  BY <1>3, <1>4, ApartWithout
<1>6. PlacesApart'
  BY <1>5, SlotsSame DEF PlacesApart, Apart
<1>7. AllHeld'
  BY <1>1 DEF AllHeld, Undisturbed
<1> QED
  BY <1>2, <1>6, <1>7 DEF EInv, EntriesInv, NoneInBlank

\* A step that changes the entries of the ledgers L, the archives A, the pages
\* G, the archivals X and the hands W leaves the other places alone.
ChangesOnly(L, A, G, X, W) ==
  /\ \A k \in Keys : k \notin L => ledger'[k].entries = ledger[k].entries
  /\ \A k \in Keys : k \notin A => archive'[k].entries = archive[k].entries
  /\ \A k \in Keys : k \notin G => pages'[k] = pages[k]
  /\ \A a \in Archival : a \notin X => (a \in archiving' <=> a \in archiving)
  /\ \A w \in Workers : w \notin W => job'[w].hand = job[w].hand
Elsewhere(q, L, A, G, X, W) ==
  /\ \A k \in L : q # OfLedger(k)
  /\ \A k \in A : q # OfArchive(k)
  /\ \A k \in G : q # OfPages(k)
  /\ \A a \in X : q # OfTaken(a)
  /\ \A w \in W : q # OfHand(w)

LEMMA SameElsewhere ==
  ASSUME NEW L, NEW A, NEW G, NEW X, NEW W, ChangesOnly(L, A, G, X, W),
         NEW q \in Slots, Elsewhere(q, L, A, G, X, W)
  PROVE  Stock'[q] = Stock[q]
<1> USE DEF ChangesOnly, Elsewhere
<1> DEFINE s == Stock   t == Stock'
<1>1. /\ Contents(s, ledger, archive, pages, archiving, job)
      /\ Contents(t, ledger', archive', pages', archiving', job')
  BY StockNow, StockNext
<1> HIDE DEF s, t
<1>2. ASSUME \E k \in Keys : q = OfLedger(k)
      PROVE  t[q] = s[q]
  BY <1>1, <1>2 DEF Contents
<1>3. ASSUME \E k \in Keys : q = OfArchive(k)
      PROVE  t[q] = s[q]
  BY <1>1, <1>3 DEF Contents
<1>4. ASSUME \E k \in Keys : q = OfPages(k)
      PROVE  t[q] = s[q]
  BY <1>1, <1>4 DEF Contents
<1>5. ASSUME \E a \in Archival : q = OfTaken(a)
      PROVE  t[q] = s[q]
  BY <1>1, <1>5 DEF Contents
<1>6. ASSUME \E w \in Workers : q = OfHand(w)
      PROVE  t[q] = s[q]
  BY <1>1, <1>6 DEF Contents
<1>7. t[q] = s[q]
  BY <1>2, <1>3, <1>4, <1>5, <1>6, SlotKinds
<1> QED
  BY <1>7 DEF s, t

\* A step that leaves all entries where they are.
LEMMA SameStep ==
  ASSUME EInv, UNCHANGED <<ledger, archive, pages, archiving, recordings>>,
         used'.archives = used.archives, used'.faults = used.faults,
         NoneInHand', \A w \in Workers : job'[w].hand = job[w].hand
  PROVE  EntriesInv'
<1> DEFINE t == Stock'
<1>1. \A q \in Slots : t[q] = Stock[q]
  <2> TAKE q \in Slots
  <2>1. ChangesOnly({}, {}, {}, {}, {}) /\ Elsewhere(q, {}, {}, {}, {}, {})
    BY DEF ChangesOnly, Elsewhere
  <2> QED
    BY <2>1, SameElsewhere
<1>2. FirstArchive' /\ NoneInBlank'
  BY DEF EInv, EntriesInv, FirstArchive, NoneInBlank
<1>3. Undisturbed' = Undisturbed /\ Entry' = Entry
  BY TypesStay DEF Undisturbed
<1>4. Apart(Slots, t)
  BY <1>1 DEF EInv, EntriesInv, PlacesApart, Apart
<1>5. PlacesApart'
  BY <1>4, SlotsSame DEF PlacesApart, Apart
<1> HIDE DEF t
<1>6. \A e : Holds(Slots, Stock, e) => Holds(Slots, t, e)
  BY <1>1 DEF Holds
<1>7. \A e : Holds(Slots, t, e) => Holds(Slots, Stock, e)'
  BY SlotsSame DEF t, Holds
<1>8. AllHeld'
  BY <1>3, <1>6, <1>7 DEF EInv, EntriesInv, AllHeld
<1> QED
  BY <1>2, <1>5, <1>8 DEF EntriesInv

LEMMA InitEntries == Init => EntriesInv
<1> SUFFICES ASSUME Init PROVE EntriesInv
  OBVIOUS
<1>1. \A q \in Slots : Stock[q] = <<>>
  <2> TAKE q \in Slots
  <2> DEFINE s == Stock
  <2>1. Contents(s, ledger, archive, pages, archiving, job)
    BY StockNow
  <2>2. /\ \A k \in Keys : /\ ledger[k].entries = <<>>
                           /\ archive[k].entries = <<>> /\ pages[k] = <<>>
        /\ \A w \in Workers : job[w].hand = <<>>
        /\ archiving = {}
    BY DEF Init, NoLedger, Idle
  <2> HIDE DEF s
  <2>3. s[q] = <<>>
    BY <2>1, <2>2, SlotKinds DEF Contents
  <2> QED
    BY <2>3 DEF s
<1>2. PlacesApart
  BY <1>1 DEF PlacesApart, Apart
<1>3. Entry = {}
  BY DEF Init, Entry
<1>4. FirstArchive /\ NoneInBlank /\ NoneInHand
  BY DEF Init, FirstArchive, NoneInBlank, NoneInHand, NoLedger, Idle
<1> QED
  BY <1>2, <1>3, <1>4 DEF EntriesInv, AllHeld

\* The steps of a worker that move no entries.
LEMMA QuietHolds ==
  ASSUME EInv, NEW w \in Workers,
         \/ \E i \in Invoices, h \in Heads \cup {NoHead} : Retrigger(w, i, h)
         \/ ReadPrimary(w) \/ ReadArchive(w) \/ Return(w) \/ Save(w)
         \/ Split(w) /\ ~Overfull(ledger[Key(job[w])])
  PROVE  EntriesInv'
<1>1. /\ job \in [Workers -> Job] /\ job[w].phase # "page"
      /\ job[w].hand = <<>> /\ Idle.hand = <<>> /\ Idle.phase = "idle"
  BY DEF EInv, EntriesInv, IInv, TypeOK, NoneInHand, Idle, Retrigger,
         ReadPrimary, ReadArchive, Return, Save, Split, At
<1>2. /\ \A v \in Workers : v # w => job'[v] = job[v]
      /\ job'[w].hand = <<>> /\ job'[w].phase # "page"
  <2>1. CASE \E i \in Invoices, h \in Heads \cup {NoHead} : Retrigger(w, i, h)
    <3>1. PICK i \in Invoices, h \in Heads \cup {NoHead} : Retrigger(w, i, h)
      BY <2>1
    <3> DEFINE new == [Idle EXCEPT
                 !.phase = IF h = NoHead THEN "return" ELSE "primary",
                 !.invoice = i, !.head = h, !.vendor = vendor[i],
                 !.tax = shown[i]]
    <3>2. new.hand = <<>> /\ new.phase # "page"
      BY DEF Idle
    <3>3. job' = [job EXCEPT ![w] = new]
      BY <3>1 DEF Retrigger
    <3> HIDE DEF new
    <3> QED
      BY <1>1, <3>2, <3>3
  <2>2. CASE ReadPrimary(w)
    BY <1>1, <2>2 DEF ReadPrimary, Seen, Go, Job
  <2>3. CASE ReadArchive(w)
    BY <1>1, <2>3 DEF ReadArchive, Seen, Job
  <2>4. CASE Return(w)
    BY <1>1, <2>4 DEF Return, Job
  <2>5. CASE Save(w)
    BY <1>1, <2>5 DEF Save
  <2>6. CASE Split(w) /\ ~Overfull(ledger[Key(job[w])])
    BY <1>1, <2>6 DEF Split, Go, Job
  <2> QED
    BY <2>1, <2>2, <2>3, <2>4, <2>5, <2>6
<1>3. NoneInHand' /\ \A v \in Workers : job'[v].hand = job[v].hand
  BY <1>1, <1>2 DEF EInv, EntriesInv, NoneInHand
<1>4. UNCHANGED <<ledger, archive, pages, archiving, recordings>>
  BY DEF Retrigger, ReadPrimary, ReadArchive, Return, Save, Split
<1>5. used'.archives = used.archives /\ used'.faults = used.faults
  BY UseLeaves DEF EInv, IInv, Retrigger, ReadPrimary, ReadArchive, Return,
                   Save, Split
<1> QED
  BY <1>3, <1>4, <1>5, SameStep

LEMMA FaultHolds ==
  ASSUME EInv, Crash \/ \E w \in Workers : Fail(w)
  PROVE  EntriesInv'
<1>1. CASE Crash
  <2>1. /\ \A w \in Workers : job'[w].hand = <<>>
        /\ archiving' \subseteq archiving
    BY <1>1 DEF Crash, Idle
  <2>2. NoneInHand'
    BY <2>1 DEF NoneInHand
  <2> QED
    BY <1>1, <2>1, <2>2, FaultStep DEF Crash
<1>2. ASSUME NEW w \in Workers, Fail(w) PROVE EntriesInv'
  <2>1. job \in [Workers -> Job]
    BY DEF EInv, IInv, TypeOK
  <2>2. /\ job'[w].hand = <<>> /\ \A v \in Workers : v # w => job'[v] = job[v]
    BY <1>2, <2>1 DEF Fail, Job
  <2>3. NoneInHand'
    BY <2>2 DEF EInv, EntriesInv, NoneInHand
  <2> QED
    BY <1>2, <2>2, <2>3, FaultStep DEF Fail
<1> QED
  BY <1>1, <1>2

\* A worker in a phase that comes after the vendor's figures were read.
LEMMA WorkerKey ==
  ASSUME IInv, NEW w \in Workers, job[w].phase \in {"record", "split", "page"}
  PROVE  /\ Key(job[w]) \in Keys /\ job \in [Workers -> Job]
         /\ ledger \in [Keys -> Ledger] /\ ledger[Key(job[w])] \in Ledger
<1>1. job[w] \in Job /\ job[w].head \in Heads
  BY DEF IInv, TypeOK, JobsFit, JobFits, HeadFits
<1>2. Key(job[w]) \in Keys
  BY <1>1 DEF Keys, Key, Job
<1> QED
  BY <1>2 DEF IInv, TypeOK

LEMMA RecordHolds ==
  ASSUME EInv, NEW w \in Workers, Record(w)
  PROVE  EntriesInv'
<1> DEFINE k == Key(job[w])   e == Len(recordings) + 1   x == OfLedger(k)
           s == Stock   t == Stock'
<1>1. /\ k \in Keys /\ job \in [Workers -> Job]
      /\ ledger \in [Keys -> Ledger] /\ ledger[k] \in Ledger
  BY WorkerKey DEF EInv, Record, At
<1>2. /\ ledger'[k].entries = Append(ledger[k].entries, e)
      /\ ledger'[k].count = ledger[k].count + 1
      /\ \A l \in Keys : l # k => ledger'[l] = ledger[l]
  BY <1>1 DEF Record, Added, Ledger
<1>3. /\ \A v \in Workers : job'[v].hand = job[v].hand
      /\ job[w].phase # "page" /\ \A v \in Workers : v # w => job'[v] = job[v]
  BY <1>1 DEF Record, Go, At, Job
<1>4. NoneInHand'
  BY <1>3 DEF EInv, EntriesInv, NoneInHand
<1>5. NoneInBlank'
  <2>1. ledger[k].count \in Nat
    BY <1>1 DEF Ledger
  <2> QED
    BY <1>2, <2>1 DEF EInv, EntriesInv, NoneInBlank, Exists
<1>6. FirstArchive'
  BY DEF EInv, EntriesInv, FirstArchive, Record
<1>7. /\ t[x] = Append(s[x], e) /\ x \in Slots
      /\ \A q \in Slots : q # x => t[q] = s[q]
  <2>1. s[x] = ledger[k].entries /\ t[x] = ledger'[k].entries /\ x \in Slots
    BY <1>1, StockNow, StockNext, SlotsThere DEF Contents
  <2>2. ASSUME NEW q \in Slots, q # x PROVE t[q] = s[q]
    <3>1. ChangesOnly({k}, {}, {}, {}, {}) /\ Elsewhere(q, {k}, {}, {}, {}, {})
      BY <1>2, <1>3, <2>2 DEF ChangesOnly, Elsewhere, Record
    <3> QED
      BY <3>1, SameElsewhere
  <2> QED
    BY <1>2, <2>1, <2>2
<1>8. s \in [Slots -> Seq(Entry)]
  BY StockTyped DEF EInv, IInv
<1>9. ~Holds(Slots, s, e)
  <2>1. e \notin Entry
    <3>1. Len(recordings) \in Nat
      BY DEF EInv, IInv, TypeOK
    <3> QED
      BY <3>1 DEF Entry
  <2>2. \A q \in Slots : \A n \in DOMAIN s[q] : s[q][n] \in Entry
    <3> HIDE DEF s
    <3> QED
      BY <1>8
  <2> QED
    BY <2>1, <2>2 DEF Holds
<1> HIDE DEF s, t, x, e
<1>10. /\ Apart(Slots, s) => Apart(Slots, t)
       /\ Holds(Slots, t, e)
       /\ \A f : Holds(Slots, s, f) => Holds(Slots, t, f)
  BY <1>7, <1>8, <1>9, Appended
<1>11. PlacesApart'
  BY <1>10, SlotsSame DEF EInv, EntriesInv, PlacesApart, Apart, s, t
<1>12. AllHeld'
  <2>1. Entry' = Entry \cup {e} /\ Undisturbed' = Undisturbed
    <3>1. recordings \in Seq(Recording)
      BY DEF EInv, IInv, TypeOK
    <3>2. Len(recordings') = Len(recordings) + 1 /\ Len(recordings) \in Nat
      BY <3>1 DEF Record
    <3> QED
      BY <3>2 DEF Entry, e, Undisturbed, Record
  <2>2. \A f : Holds(Slots, t, f) => Holds(Slots, Stock, f)'
    BY SlotsSame DEF t, Holds
  <2> QED
    BY <1>10, <2>1, <2>2 DEF EInv, EntriesInv, AllHeld, s
<1> QED
  BY <1>4, <1>5, <1>6, <1>11, <1>12 DEF EntriesInv

LEMMA SplitHolds ==
  ASSUME EInv, NEW w \in Workers, Split(w), Overfull(ledger[Key(job[w])])
  PROVE  EntriesInv'
<1> DEFINE k == Key(job[w])   x == OfLedger(k)   y == OfHand(w)
           s == Stock   t == Stock'
<1>1. /\ k \in Keys /\ job \in [Workers -> Job]
      /\ ledger \in [Keys -> Ledger] /\ ledger[k] \in Ledger
  BY WorkerKey DEF EInv, Split, At
<1>2. /\ ledger'[k].entries = SubSeq(ledger[k].entries, 1, Cap)
      /\ ledger'[k].count = ledger[k].count
      /\ \A l \in Keys : l # k => ledger'[l] = ledger[l]
  BY <1>1 DEF Split, Ledger
<1>3. /\ \A v \in Workers : v # w => job'[v] = job[v]
      /\ job'[w].hand =
           SubSeq(ledger[k].entries, Cap + 1, Len(ledger[k].entries))
      /\ job'[w].phase = "page" /\ job[w].phase = "split"
  BY <1>1 DEF Split, At, Job
<1>4. NoneInHand'
  BY <1>3 DEF EInv, EntriesInv, NoneInHand
<1>5. job[w].hand = <<>>
  BY <1>3 DEF EInv, EntriesInv, NoneInHand
<1>6. Cap \in Nat /\ Cap <= Len(ledger[k].entries) /\ Exists(ledger[k])
  <2>1. Len(ledger[k].entries) \in Nat
    BY <1>1 DEF Ledger
  <2>2. Cap \in Nat /\ Cap > 0 /\ Len(ledger[k].entries) > Cap
    BY TaxAssumption DEF Overfull
  <2>3. ledger[k].entries # <<>>
    BY <2>2
  <2> QED
    BY <1>1, <2>1, <2>2, <2>3 DEF EInv, EntriesInv, NoneInBlank
<1>7. NoneInBlank'
  BY <1>2, <1>6 DEF EInv, EntriesInv, NoneInBlank, Exists
<1>8. FirstArchive'
  BY DEF EInv, EntriesInv, FirstArchive, Split
<1>9. /\ x \in Slots /\ y \in Slots /\ x # y /\ s[y] = <<>>
      /\ Cap <= Len(s[x]) /\ t[x] = SubSeq(s[x], 1, Cap)
      /\ t[y] = SubSeq(s[x], Cap + 1, Len(s[x]))
  <2>1. /\ s[x] = ledger[k].entries /\ t[x] = ledger'[k].entries
        /\ s[y] = job[w].hand /\ t[y] = job'[w].hand
    BY <1>1, StockNow, StockNext DEF Contents
  <2> QED
    BY <1>1, <1>2, <1>3, <1>5, <1>6, <2>1, SlotsThere, SlotsDiffer
<1>10. ASSUME NEW q \in Slots, q # x, q # y PROVE t[q] = s[q]
  <2>1. ChangesOnly({k}, {}, {}, {}, {w}) /\ Elsewhere(q, {k}, {}, {}, {}, {w})
    BY <1>2, <1>3, <1>10 DEF ChangesOnly, Elsewhere, Split
  <2> QED
    BY <2>1, SameElsewhere
<1>11. s \in [Slots -> Seq(Entry)]
  BY StockTyped DEF EInv, IInv
<1> HIDE DEF s, t, x, y
<1>12. /\ Apart(Slots, s) => Apart(Slots, t)
       /\ \A f : Holds(Slots, s, f) => Holds(Slots, t, f)
  <2> HIDE DEF k
  <2>1. Cap \in Nat /\ x # y /\ s[y] = <<>> /\ Cap <= Len(s[x])
    BY <1>6, <1>9
  <2>2. \A q \in Slots : q # x /\ q # y => t[q] = s[q]
    BY <1>10
  <2>3. x \in Slots /\ y \in Slots
    BY <1>9
  <2>4. t[x] = SubSeq(s[x], 1, Cap)
    BY <1>9
  <2>5. t[y] = SubSeq(s[x], Cap + 1, Len(s[x]))
    BY <1>9
  <2> QED
    BY <1>11, <2>1, <2>2, <2>3, <2>4, <2>5, CutOff, ZenonT(30)
<1>13. UNCHANGED recordings /\ Undisturbed' = Undisturbed
  BY DEF Split, Undisturbed
<1>14. PlacesApart' /\ AllHeld'
  BY <1>12, <1>13, Rearranged DEF s, t
<1> QED
  BY <1>4, <1>7, <1>8, <1>14 DEF EntriesInv

\* The same for one sequence.
MovesOne(P, s, t, x, y) ==
  /\ x \in P /\ y \in P /\ x # y
  /\ t[x] = s[x] \o s[y] /\ t[y] = <<>>
  /\ \A q \in P : q # x /\ q # y => t[q] = s[q]

LEMMA MovedOne ==
  ASSUME NEW P, NEW s, NEW t, NEW S, s \in [P -> Seq(S)],
         NEW x, NEW y, MovesOne(P, s, t, x, y)
  PROVE  /\ Apart(P, s) => Apart(P, t)
         /\ \A f : Holds(P, s, f) => Holds(P, t, f)
<1> DEFINE T == {x}   from == [z \in T |-> y]
<1>1. Moves(P, s, t, T, from)
  BY DEF Moves, MovesOne
<1> HIDE DEF T, from
<1> QED
  BY <1>1, Moved

LEMMA PageHolds ==
  ASSUME EInv, NEW w \in Workers, Page(w)
  PROVE  EntriesInv'
<1> DEFINE k == Key(job[w])   x == OfPages(k)   y == OfHand(w)
           s == Stock   t == Stock'
<1>1. k \in Keys /\ job \in [Workers -> Job]
  BY WorkerKey DEF EInv, Page, At
<1>2. /\ pages'[k] = pages[k] \o job[w].hand
      /\ \A l \in Keys : l # k => pages'[l] = pages[l]
  BY <1>1 DEF EInv, IInv, TypeOK, Page
<1>3. /\ \A v \in Workers : v # w => job'[v] = job[v]
      /\ job'[w].hand = <<>>
  BY <1>1 DEF Page, Job
<1>4. NoneInHand'
  BY <1>3 DEF EInv, EntriesInv, NoneInHand
<1>5. NoneInBlank' /\ FirstArchive'
  BY DEF EInv, EntriesInv, NoneInBlank, FirstArchive, Page
<1>6. /\ x \in Slots /\ y \in Slots /\ x # y
      /\ t[x] = s[x] \o s[y] /\ t[y] = <<>>
  <2>1. /\ s[x] = pages[k] /\ t[x] = pages'[k]
        /\ s[y] = job[w].hand /\ t[y] = job'[w].hand
    BY <1>1, StockNow, StockNext DEF Contents
  <2> QED
    BY <1>1, <1>2, <1>3, <2>1, SlotsThere, SlotsDiffer
<1>7. ASSUME NEW q \in Slots, q # x, q # y PROVE t[q] = s[q]
  <2>1. ChangesOnly({}, {}, {k}, {}, {w}) /\ Elsewhere(q, {}, {}, {k}, {}, {w})
    BY <1>2, <1>3, <1>7 DEF ChangesOnly, Elsewhere, Page
  <2> QED
    BY <2>1, SameElsewhere
<1>8. s \in [Slots -> Seq(Entry)]
  BY StockTyped DEF EInv, IInv
<1> HIDE DEF s, t, x, y, k
<1>9. /\ Apart(Slots, s) => Apart(Slots, t)
      /\ \A f : Holds(Slots, s, f) => Holds(Slots, t, f)
  <2>1. x \in Slots /\ y \in Slots /\ x # y
    BY <1>6
  <2>2. t[x] = s[x] \o s[y] /\ t[y] = <<>>
    BY <1>6
  <2>3. MovesOne(Slots, s, t, x, y)
    BY <1>7, <2>1, <2>2 DEF MovesOne
  <2> QED
    BY <1>8, <2>3, MovedOne
<1>10. UNCHANGED recordings /\ Undisturbed' = Undisturbed
  BY DEF Page, Undisturbed
<1>11. PlacesApart' /\ AllHeld'
  BY <1>9, <1>10, Rearranged DEF s, t
<1> QED
  BY <1>4, <1>5, <1>11 DEF EntriesInv

LEMMA ArchiveTakeHolds ==
  ASSUME EInv, NEW k \in Keys, ArchiveTake(k)
  PROVE  EntriesInv'
<1> DEFINE a == [key |-> k, doc |-> ledger[k]]
           x == OfTaken(a)   y == OfLedger(k)   s == Stock   t == Stock'
<1>1. ledger \in [Keys -> Ledger] /\ ledger[k] \in Ledger
  BY DEF EInv, IInv, TypeOK
<1>2. /\ ledger'[k].entries = <<>>
      /\ \A l \in Keys : l # k => ledger'[l] = ledger[l]
      /\ archiving' = archiving \cup {a}
  BY <1>1 DEF ArchiveTake, NoLedger
<1>3. a \in Archival
  BY <1>1, Archivable DEF EInv, IInv
<1>4. NoneInHand'
  BY DEF EInv, EntriesInv, NoneInHand, ArchiveTake
<1>5. NoneInBlank'
  BY <1>2 DEF EInv, EntriesInv, NoneInBlank
<1>6. /\ used.archives \in Nat /\ used'.archives = used.archives + 1
      /\ used'.faults = used.faults
  <2>1. used.archives \in Nat
    BY DEF EInv, IInv, TypeOK
  <2> QED
    BY <2>1, UseLeaves DEF EInv, IInv, ArchiveTake
<1>7. FirstArchive'
  <2> SUFFICES ASSUME used'.archives <= 1 PROVE FirstArchive'
    BY DEF FirstArchive
  <2>1. used.archives = 0
    BY <1>6
  <2>2. archiving = {} /\ \A l \in Keys : archive[l].entries = <<>>
    BY <2>1 DEF EInv, EntriesInv, FirstArchive
  <2>3. archiving' = {a} /\ archive' = archive /\ used'.archives # 0
    BY <1>2, <1>6, <2>2 DEF ArchiveTake
  <2> HIDE DEF a
  <2> QED
    BY <2>2, <2>3 DEF FirstArchive
<1>8. x \in Slots /\ y \in Slots /\ x # y
  BY <1>3, SlotsThere, SlotsDiffer
<1>9. s \in [Slots -> Seq(Entry)]
  BY StockTyped DEF EInv, IInv
<1>10. /\ s[y] = ledger[k].entries /\ t[y] = <<>> /\ t[x] = ledger[k].entries
       /\ s[x] = IF a \in archiving THEN ledger[k].entries ELSE <<>>
  <2>1. a.doc.entries = ledger[k].entries /\ a \in archiving'
    BY <1>2
  <2> HIDE DEF a
  <2> QED
    BY <1>2, <1>3, <2>1, StockNow, StockNext DEF Contents
<1>11. s[x] = <<>>
  <2> HIDE DEF s, t, x, y, a
  <2> SUFFICES ASSUME s[x] # <<>> PROVE FALSE
    OBVIOUS
  <2>1. s[x] = s[y]
    BY <1>10
  <2>2. 1 \in DOMAIN s[x]
    <3>1. s[x] \in Seq(Entry)
      BY <1>8, <1>9
    <3> HIDE DEF Entry
    <3> QED
      BY <3>1
  <2>3. Apart(Slots, s)
    BY DEF EInv, EntriesInv, PlacesApart, s
  <2> QED
    BY <1>8, <2>1, <2>2, <2>3 DEF Apart
<1>12. t[x] = s[x] \o s[y]
  <2>1. s[y] \in Seq(Entry)
    BY <1>8, <1>9
  <2>2. <<>> \o s[y] = s[y]
    <3> HIDE DEF s, y
    <3> QED
      BY <2>1
  <2> QED
    BY <1>10, <1>11, <2>2
<1>13. ASSUME NEW q \in Slots, q # x, q # y PROVE t[q] = s[q]
  <2>1. ChangesOnly({k}, {}, {}, {a}, {}) /\ Elsewhere(q, {k}, {}, {}, {a}, {})
    BY <1>2, <1>13 DEF ChangesOnly, Elsewhere, ArchiveTake
  <2> QED
    BY <2>1, SameElsewhere
<1> HIDE DEF s, t, x, y
<1>14. /\ Apart(Slots, s) => Apart(Slots, t)
       /\ \A f : Holds(Slots, s, f) => Holds(Slots, t, f)
  <2>1. t[x] = s[x] \o s[y] /\ t[y] = <<>>
    BY <1>10, <1>12
  <2>2. MovesOne(Slots, s, t, x, y)
    BY <1>8, <1>13, <2>1 DEF MovesOne
  <2> QED
    BY <1>9, <2>2, MovedOne
<1>15. UNCHANGED recordings /\ (Undisturbed' => Undisturbed)
  BY <1>6 DEF ArchiveTake, Undisturbed
<1>16. PlacesApart' /\ AllHeld'
  BY <1>14, <1>15, Rearranged DEF s, t
<1> QED
  BY <1>4, <1>5, <1>7, <1>16 DEF EntriesInv

LEMMA ArchivePutHolds ==
  ASSUME EInv, NEW a \in archiving, ArchivePut(a)
  PROVE  EntriesInv'
<1> DEFINE k == a.key   x == OfArchive(k)   y == OfTaken(a)
           s == Stock   t == Stock'
           u == [q \in Slots |-> IF q = x THEN <<>> ELSE s[q]]
<1>1. /\ k \in Keys /\ a.doc \in Ledger /\ a \in Archival
      /\ archive \in [Keys -> Ledger]
  BY Archivable DEF EInv, IInv, TypeOK
<1>2. /\ archive'[k] = a.doc
      /\ \A l \in Keys : l # k => archive'[l] = archive[l]
      /\ archiving' = archiving \ {a}
  BY <1>1 DEF ArchivePut
<1>3. NoneInHand' /\ NoneInBlank'
  BY DEF EInv, EntriesInv, NoneInHand, NoneInBlank, ArchivePut
<1>4. FirstArchive' /\ (Undisturbed => archive[k].entries = <<>>)
  <2>1. used' = used
    BY DEF ArchivePut
  <2>2. ASSUME used.archives <= 1
        PROVE  /\ used.archives # 0 /\ archiving = {a}
               /\ \A l \in Keys : archive[l].entries = <<>>
    BY <2>2 DEF EInv, EntriesInv, FirstArchive
  <2>3. used.archives <= 1 => archiving' = {}
    BY <1>2, <2>2
  <2>4. FirstArchive'
    BY <2>1, <2>2, <2>3 DEF FirstArchive
  <2>5. Undisturbed => archive[k].entries = <<>>
    BY <1>1, <2>2 DEF Undisturbed
  <2> QED
    BY <2>4, <2>5
<1>5. /\ x \in Slots /\ y \in Slots /\ x # y
      /\ s[y] = a.doc.entries /\ t[x] = a.doc.entries /\ t[y] = <<>>
      /\ s[x] = archive[k].entries
  BY <1>1, <1>2, SlotsThere, SlotsDiffer, StockNow, StockNext DEF Contents
<1>6. ASSUME NEW q \in Slots, q # x, q # y PROVE t[q] = s[q]
  <2>1. ChangesOnly({}, {k}, {}, {a}, {}) /\ Elsewhere(q, {}, {k}, {}, {a}, {})
    BY <1>2, <1>6 DEF ChangesOnly, Elsewhere, ArchivePut
  <2> QED
    BY <2>1, SameElsewhere
<1>7. s \in [Slots -> Seq(Entry)]
  BY StockTyped DEF EInv, IInv
<1> HIDE DEF s, t, x, y
<1>8. u \in [Slots -> Seq(Entry)]
  <2>1. <<>> \in Seq(Entry)
    OBVIOUS
  <2> QED
    BY <1>7, <2>1
<1>9. /\ u[x] = <<>> /\ u[y] = a.doc.entries
      /\ \A q \in Slots : q # x => u[q] = s[q]
  BY <1>5
<1>10. t[x] = u[x] \o u[y]
  <2>1. u[y] \in Seq(Entry)
    BY <1>5, <1>8
  <2> HIDE DEF u
  <2>2. <<>> \o u[y] = u[y]
    BY <2>1
  <2> QED
    BY <1>5, <1>9, <2>2
<1> HIDE DEF u
<1>11. /\ Apart(Slots, u) => Apart(Slots, t)
       /\ \A f : Holds(Slots, u, f) => Holds(Slots, t, f)
  <2>1. \A q \in Slots : q # x /\ q # y => t[q] = u[q]
    BY <1>6, <1>9
  <2>2. x \in Slots /\ y \in Slots /\ x # y
    BY <1>5
  <2>3. t[x] = u[x] \o u[y] /\ t[y] = <<>>
    BY <1>5, <1>10
  <2>4. MovesOne(Slots, u, t, x, y)
    BY <2>1, <2>2, <2>3 DEF MovesOne
  <2> QED
    BY <1>8, <2>4, MovedOne
<1>12. Apart(Slots, u)
  <2>1. Apart(Slots, s)
    BY DEF EInv, EntriesInv, PlacesApart, s
  <2>2. \A q \in Slots : u[q] = s[q] \/ u[q] = <<>>
    BY <1>9
  <2> QED
    BY <2>1, <2>2, ApartWithout
<1>13. PlacesApart'
  BY <1>11, <1>12, SlotsSame DEF PlacesApart, Apart, t
<1>14. AllHeld'
  <2>1. Undisturbed' = Undisturbed /\ Entry' = Entry
    BY DEF ArchivePut, Undisturbed, Entry
  <2> SUFFICES ASSUME Undisturbed, NEW e \in Entry
               PROVE  Holds(Slots, Stock, e)'
    BY <2>1 DEF AllHeld
  <2>2. \A q \in Slots : u[q] = s[q]
    BY <1>4, <1>5, <1>9
  <2>3. Holds(Slots, s, e)
    BY DEF EInv, EntriesInv, AllHeld, s
  <2>4. Holds(Slots, u, e)
    BY <2>2, <2>3 DEF Holds
  <2>5. Holds(Slots, t, e)
    BY <1>11, <2>4
  <2> QED
    BY <2>5, SlotsSame DEF Holds, t
<1> QED
  BY <1>3, <1>4, <1>13, <1>14 DEF EntriesInv

LEMMA MergeHolds ==
  ASSUME EInv, NEW from \in Vendors, NEW to \in Vendors, Merge(from, to)
  PROVE  EntriesInv'
<1> DEFINE s == Stock   t == Stock'
           ToSlot(h) == OfLedger(<<to, h>>)
           FromSlot(h) == OfLedger(<<from, h>>)
           T == {ToSlot(h) : h \in Heads}
           source == [q \in T |-> FromSlot(q[2][2])]
<1>1. from # to /\ ledger \in [Keys -> Ledger] /\ ledger' = Absorbed(from, to)
  BY DEF EInv, IInv, TypeOK, Merge
<1>2. ASSUME NEW h \in Heads
      PROVE  /\ <<to, h>> \in Keys /\ <<from, h>> \in Keys
             /\ ledger'[<<to, h>>]
                  = Consolidated(ledger[<<to, h>>], ledger[<<from, h>>])
             /\ ledger'[<<from, h>>] = NoLedger
  BY <1>1 DEF Absorbed, Keys
<1>3. ASSUME NEW k \in Keys, k[1] # to, k[1] # from
      PROVE  ledger'[k] = ledger[k]
  BY <1>1, <1>3 DEF Absorbed
<1>4. ASSUME NEW k \in Keys
      PROVE  k[2] \in Heads /\ k = <<k[1], k[2]>>
  BY DEF Keys
<1>5. ASSUME NEW h \in Heads
      PROVE  /\ ledger'[<<to, h>>].entries
                  = ledger[<<to, h>>].entries \o ledger[<<from, h>>].entries
             /\ ~Exists(ledger'[<<to, h>>]) => ledger'[<<to, h>>].entries = <<>>
  <2> DEFINE old == ledger[<<to, h>>]   more == ledger[<<from, h>>]
             new == ledger'[<<to, h>>]
  <2>1. old \in Ledger /\ more \in Ledger
    BY <1>1, <1>2
  <2>2. /\ ~Exists(old) => old.entries = <<>>
        /\ ~Exists(more) => more.entries = <<>>
    BY <1>2 DEF EInv, EntriesInv, NoneInBlank
  <2>3. /\ old.entries \in Seq(Entry) /\ more.entries \in Seq(Entry)
        /\ old.count \in Nat /\ more.count \in Nat
    BY <2>1 DEF Ledger
  <2>4. new = Consolidated(old, more)
    BY <1>2
  <2> HIDE DEF old, more, new, Entry
  <2>5. CASE ~Exists(more)
    <3>1. new = old /\ more.entries = <<>>
      BY <2>2, <2>4, <2>5 DEF Consolidated
    <3>2. old.entries \o <<>> = old.entries
      BY <2>3
    <3> QED
      BY <2>2, <3>1, <3>2 DEF old, more, new
  <2>6. CASE Exists(more) /\ ~Exists(old)
    <3>1. new = more /\ old.entries = <<>>
      BY <2>2, <2>4, <2>6 DEF Consolidated
    <3>2. <<>> \o more.entries = more.entries
      BY <2>3
    <3> QED
      BY <2>2, <3>1, <3>2 DEF old, more, new
  <2>7. CASE Exists(more) /\ Exists(old)
    <3>1. /\ new.entries = old.entries \o more.entries
          /\ new.count = old.count + more.count
      BY <2>1, <2>4, <2>7 DEF Consolidated, Ledger
    <3>2. Exists(new)
      BY <2>3, <2>7, <3>1 DEF Exists
    <3> QED
      BY <3>1, <3>2 DEF old, more, new
  <2> QED
    BY <2>5, <2>6, <2>7
<1>6. NoneInHand' /\ FirstArchive'
  <2>1. used'.archives = used.archives /\ UNCHANGED <<job, archiving, archive>>
    BY UseLeaves DEF EInv, IInv, Merge
  <2> QED
    BY <2>1 DEF EInv, EntriesInv, NoneInHand, FirstArchive
<1>7. NoneInBlank'
  <2> SUFFICES ASSUME NEW k \in Keys, ~Exists(ledger'[k])
               PROVE  ledger'[k].entries = <<>>
    BY DEF NoneInBlank, Keys, Exists
  <2>1. CASE k[1] = to
    <3>1. k[2] \in Heads /\ k = <<to, k[2]>>
      BY <1>4, <2>1
    <3> QED
      BY <1>5, <3>1
  <2>2. CASE k[1] = from
    <3>1. k[2] \in Heads /\ k = <<from, k[2]>>
      BY <1>4, <2>2
    <3>2. ledger'[k] = NoLedger
      BY <1>2, <3>1
    <3> QED
      BY <3>2 DEF NoLedger
  <2>3. CASE k[1] # to /\ k[1] # from
    BY <1>3, <2>3 DEF EInv, EntriesInv, NoneInBlank
  <2> QED
    BY <2>1, <2>2, <2>3
<1>8. ASSUME NEW h \in Heads
      PROVE  /\ ToSlot(h) \in Slots /\ FromSlot(h) \in Slots
             /\ t[ToSlot(h)] = s[ToSlot(h)] \o s[FromSlot(h)]
             /\ t[FromSlot(h)] = <<>>
             /\ ToSlot(h) \in T /\ source[ToSlot(h)] = FromSlot(h)
  <2>1. ToSlot(h) \in Slots /\ FromSlot(h) \in Slots
    BY <1>2, SlotsThere
  <2>2. ToSlot(h) \in T /\ source[ToSlot(h)] = FromSlot(h)
    <3>1. ToSlot(h)[2][2] = h /\ ToSlot(h) \in T
      BY DEF OfLedger
    <3> QED
      BY <3>1
  <2>3. /\ s[ToSlot(h)] = ledger[<<to, h>>].entries
        /\ s[FromSlot(h)] = ledger[<<from, h>>].entries
        /\ t[ToSlot(h)] = ledger'[<<to, h>>].entries
        /\ t[FromSlot(h)] = ledger'[<<from, h>>].entries
    <3>1. <<to, h>> \in Keys /\ <<from, h>> \in Keys
      BY <1>2
    <3> QED
      BY <3>1, StockNow, StockNext DEF Contents
  <2>4. ledger'[<<from, h>>].entries = <<>>
    <3>1. ledger'[<<from, h>>] = NoLedger
      BY <1>2
    <3> QED
      BY <3>1 DEF NoLedger
  <2> QED
    BY <1>5, <2>1, <2>2, <2>3, <2>4
<1>9. ASSUME NEW h \in Heads, NEW g \in Heads
      PROVE  /\ FromSlot(h) # ToSlot(g)
             /\ FromSlot(h) = FromSlot(g) => h = g
  BY <1>1, SlotsDiffer
<1>10. ASSUME NEW q \in Slots, q \notin T, \A x \in T : q # source[x]
       PROVE  t[q] = s[q]
  <2> DEFINE L == {k \in Keys : k[1] = to \/ k[1] = from}
  <2>1. ChangesOnly(L, {}, {}, {}, {})
    BY <1>3 DEF ChangesOnly, Merge
  <2>2. ASSUME NEW k \in L PROVE q # OfLedger(k)
    <3>1. k = <<to, k[2]>> \/ k = <<from, k[2]>>
      BY <1>4
    <3>2. k[2] \in Heads
      BY <1>4
    <3>3. OfLedger(k) = ToSlot(k[2]) \/ OfLedger(k) = FromSlot(k[2])
      BY <3>1
    <3>4. ToSlot(k[2]) \in T /\ source[ToSlot(k[2])] = FromSlot(k[2])
      BY <1>8, <3>2
    <3> HIDE DEF T, source
    <3> QED
      BY <1>10, <3>3, <3>4
  <2>3. Elsewhere(q, L, {}, {}, {}, {})
    BY <2>2 DEF Elsewhere
  <2> HIDE DEF L
  <2> QED
    BY <2>1, <2>3, SameElsewhere
<1>11. s \in [Slots -> Seq(Entry)]
  BY StockTyped DEF EInv, IInv
<1>12. \A x \in T : \E h \in Heads : x = ToSlot(h)
  OBVIOUS
<1>13. source \in [T -> Slots \ T]
  <2>1. ASSUME NEW x \in T PROVE source[x] \in Slots \ T
    <3>1. PICK h \in Heads : x = ToSlot(h)
      BY <1>12
    <3>2. source[x] = FromSlot(h)
      BY <1>8, <3>1
    <3>3. FromSlot(h) \notin T
      BY <1>9
    <3> QED
      BY <1>8, <3>2, <3>3
  <2> QED
    BY <2>1
<1> HIDE DEF s, t, T, source
<1>14. Moves(Slots, s, t, T, source)
  <2>1. T \in SUBSET Slots
    BY <1>8, <1>12
  <2>2. ASSUME NEW x \in T, NEW y \in T, source[x] = source[y]
        PROVE  x = y
    <3>1. PICK h \in Heads : x = ToSlot(h)
      BY <1>12
    <3>2. PICK g \in Heads : y = ToSlot(g)
      BY <1>12
    <3>3. FromSlot(h) = FromSlot(g)
      BY <1>8, <2>2, <3>1, <3>2
    <3>4. h = g
      BY <1>9, <3>3
    <3> QED
      BY <3>1, <3>2, <3>4
  <2>3. ASSUME NEW x \in T
        PROVE  t[x] = s[x] \o s[source[x]] /\ t[source[x]] = <<>>
    <3>1. PICK h \in Heads : x = ToSlot(h)
      BY <1>12
    <3>2. source[x] = FromSlot(h)
      BY <1>8, <3>1
    <3> QED
      BY <1>8, <3>1, <3>2
  <2> QED
    BY <1>10, <1>13, <2>1, <2>2, <2>3 DEF Moves
<1>15. /\ Apart(Slots, s) => Apart(Slots, t)
       /\ \A f : Holds(Slots, s, f) => Holds(Slots, t, f)
  BY <1>11, <1>14, Moved
<1>16. UNCHANGED recordings /\ (Undisturbed' => Undisturbed)
  BY UseLeaves DEF EInv, IInv, Merge, Undisturbed
<1>17. PlacesApart' /\ AllHeld'
  BY <1>15, <1>16, Rearranged DEF s, t
<1> QED
  BY <1>6, <1>7, <1>17 DEF EntriesInv

LEMMA EntriesStep == EInv /\ [Next]_vars => EInv'
<1> SUFFICES ASSUME EInv, [Next]_vars PROVE EInv'
  OBVIOUS
<1>1. IInv'
  BY NextIInv DEF EInv
<1>2. ASSUME NEW w \in Workers,
             \/ \E i \in Invoices, h \in Heads \cup {NoHead} : Retrigger(w, i, h)
             \/ ReadPrimary(w) \/ ReadArchive(w) \/ Record(w) \/ Split(w)
             \/ Page(w) \/ Return(w) \/ Fail(w) \/ Save(w)
      PROVE  EntriesInv'
  <2>1. CASE Record(w)
    BY <2>1, RecordHolds
  <2>2. CASE Split(w) /\ Overfull(ledger[Key(job[w])])
    BY <2>2, SplitHolds
  <2>3. CASE Page(w)
    BY <2>3, PageHolds
  <2>4. CASE Fail(w)
    BY <2>4, FaultHolds
  <2> QED
    BY <1>2, <2>1, <2>2, <2>3, <2>4, QuietHolds
<1>3. ASSUME NEW k \in Keys, ArchiveTake(k) PROVE EntriesInv'
  BY <1>3, ArchiveTakeHolds
<1>4. ASSUME NEW a \in archiving, ArchivePut(a) PROVE EntriesInv'
  BY <1>4, ArchivePutHolds
<1>5. ASSUME NEW from \in Vendors, NEW to \in Vendors, Merge(from, to)
      PROVE  EntriesInv'
  BY <1>5, MergeHolds
<1>6. ASSUME Crash PROVE EntriesInv'
  BY <1>6, FaultHolds
<1>7. ASSUME UNCHANGED vars PROVE EntriesInv'
  <2>1. NoneInHand'
    BY <1>7 DEF EInv, EntriesInv, NoneInHand, vars
  <2> QED
    BY <1>7, <2>1, SameStep DEF vars
<1>8. EntriesInv'
  BY <1>2, <1>3, <1>4, <1>5, <1>6, <1>7 DEF Next
<1> QED
  BY <1>1, <1>8 DEF EInv

LEMMA EntriesInvariant == Spec => []EInv
<1>1. Init => EInv
  BY InitIInv, InitEntries DEF EInv
<1> QED
  BY <1>1, EntriesStep, PTL DEF Spec

\* Every place of the model is one of the family.
PlaceAt(p, q) ==
  /\ p[1] = q[1] /\ p[3] = Stock[q]
  /\ p[2] = IF q[1] = "archiving" THEN q[2].key ELSE q[2]
  /\ p = <<p[1], p[2], p[3]>>

LEMMA PlacesAreSlots ==
  ASSUME IInv, NEW p \in Places
  PROVE  \E q \in Slots : PlaceAt(p, q)
<1> USE DEF PlaceAt
<1> DEFINE s == Stock
<1>1. Contents(s, ledger, archive, pages, archiving, job)
  BY StockNow
<1> HIDE DEF s
<1>2. CASE \E k \in Keys : p = <<"ledger", k, ledger[k].entries>>
  <2>1. PICK k \in Keys : p = <<"ledger", k, ledger[k].entries>>
    BY <1>2
  <2>2. OfLedger(k)[1] = "ledger" /\ OfLedger(k)[2] = k
    BY DEF OfLedger
  <2> QED
    BY <1>1, <2>1, <2>2, SlotsThere DEF Contents, s
<1>3. CASE \E k \in Keys : p = <<"archive", k, archive[k].entries>>
  <2>1. PICK k \in Keys : p = <<"archive", k, archive[k].entries>>
    BY <1>3
  <2>2. OfArchive(k)[1] = "archive" /\ OfArchive(k)[2] = k
    BY DEF OfArchive
  <2> QED
    BY <1>1, <2>1, <2>2, SlotsThere DEF Contents, s
<1>4. CASE \E a \in archiving : p = <<"archiving", a.key, a.doc.entries>>
  <2>1. PICK a \in archiving : p = <<"archiving", a.key, a.doc.entries>>
    BY <1>4
  <2>2. OfTaken(a)[1] = "archiving" /\ OfTaken(a)[2] = a
    BY DEF OfTaken
  <2>3. a \in Archival
    BY Archivable DEF IInv, TypeOK
  <2> QED
    BY <1>1, <2>1, <2>2, <2>3, SlotsThere DEF Contents, s
<1>5. CASE \E k \in Keys : p = <<"pages", k, pages[k]>>
  <2>1. PICK k \in Keys : p = <<"pages", k, pages[k]>>
    BY <1>5
  <2>2. OfPages(k)[1] = "pages" /\ OfPages(k)[2] = k
    BY DEF OfPages
  <2> QED
    BY <1>1, <2>1, <2>2, SlotsThere DEF Contents, s
<1>6. CASE \E w \in Workers : p = <<"hand", w, job[w].hand>>
  <2>1. PICK w \in Workers : p = <<"hand", w, job[w].hand>>
    BY <1>6
  <2>2. OfHand(w)[1] = "hand" /\ OfHand(w)[2] = w
    BY DEF OfHand
  <2> QED
    BY <1>1, <2>1, <2>2, SlotsThere DEF Contents, s
<1> QED
  BY <1>2, <1>3, <1>4, <1>5, <1>6 DEF Places, Documents

LEMMA DocumentPlaces ==
  /\ \A k \in Keys : /\ <<"ledger", k, ledger[k].entries>> \in Places
                     /\ <<"archive", k, archive[k].entries>> \in Places
  /\ \A a \in archiving : <<"archiving", a.key, a.doc.entries>> \in Places
<1>1. ASSUME NEW x, NEW y, NEW z, <<x, y, z>> \in Documents
      PROVE  <<x, y, z.entries>> \in Places
  <2> DEFINE d == <<x, y, z>>
  <2>1. d \in Documents /\ d[1] = x /\ d[2] = y /\ d[3] = z
    BY <1>1
  <2>2. <<d[1], d[2], d[3].entries>> \in Places
    <3> HIDE DEF d
    <3> QED
      BY <2>1 DEF Places
  <2> QED
    BY <2>2
<1>2. /\ \A k \in Keys : /\ <<"ledger", k, ledger[k]>> \in Documents
                         /\ <<"archive", k, archive[k]>> \in Documents
      /\ \A a \in archiving : <<"archiving", a.key, a.doc>> \in Documents
  BY DEF Documents
<1> QED
  BY <1>1, <1>2

\* Recordings, splits, archivals and merges in any overlap, failures and
\* crashes: no recording is in two places, nor twice in one.
THEOREM NoneIsTwice == Spec => []NoEntryTwice
<1>1. ASSUME EInv PROVE NoEntryTwice
  <2> SUFFICES ASSUME NEW p \in Places, NEW q \in Places,
                      NEW m \in DOMAIN p[3], NEW n \in DOMAIN q[3],
                      p[3][m] = q[3][n]
               PROVE  p = q /\ m = n
    BY DEF NoEntryTwice
  <2>1. PICK x \in Slots : PlaceAt(p, x)
    BY <1>1, PlacesAreSlots DEF EInv
  <2>2. PICK y \in Slots : PlaceAt(q, y)
    BY <1>1, PlacesAreSlots DEF EInv
  <2>3. Apart(Slots, Stock)
    BY <1>1 DEF EInv, EntriesInv, PlacesApart
  <2>4. p[3] = Stock[x] /\ q[3] = Stock[y]
    BY <2>1, <2>2 DEF PlaceAt
  <2>5. x = y /\ m = n
    BY <2>3, <2>4 DEF Apart
  <2>6. p[1] = q[1] /\ p[2] = q[2] /\ p[3] = q[3]
    BY <2>1, <2>2, <2>5 DEF PlaceAt
  <2>7. p = <<p[1], p[2], p[3]>> /\ q = <<q[1], q[2], q[3]>>
    BY <2>1, <2>2 DEF PlaceAt
  <2> QED
    BY <2>5, <2>6, <2>7
<1> QED
  BY <1>1, EntriesInvariant, PTL

\* As long as no call fails and no year is archived twice, every recording is
\* in a ledger, an archive, a page or on its way to one.
THEOREM EveryEntryIsKept == Spec => []EntriesAreKept
<1>1. ASSUME EInv PROVE EntriesAreKept
  <2> SUFFICES ASSUME Undisturbed PROVE Held = Entry
    BY DEF EntriesAreKept
  <2>1. Stock \in [Slots -> Seq(Entry)]
    BY <1>1, StockTyped DEF EInv, IInv
  <2>2. ASSUME NEW p \in Places, NEW n \in DOMAIN p[3]
        PROVE  p[3][n] \in Entry
    <3>1. PICK q \in Slots : p[3] = Stock[q]
      BY <1>1, PlacesAreSlots DEF EInv, PlaceAt
    <3>2. Stock[q] \in Seq(Entry)
      BY <2>1
    <3> HIDE DEF Entry, Stock
    <3> QED
      BY <3>1, <3>2
  <2>3. ASSUME NEW e \in Entry PROVE \E p \in Places : \E n \in DOMAIN p[3] : p[3][n] = e
    <3> DEFINE s == Stock
    <3>1. Contents(s, ledger, archive, pages, archiving, job)
      BY StockNow
    <3>2. Holds(Slots, s, e)
      BY <1>1 DEF EInv, EntriesInv, AllHeld
    <3> HIDE DEF s
    <3>3. PICK q \in Slots : \E m \in DOMAIN s[q] : s[q][m] = e
      BY <3>2 DEF Holds
    <3>4. PICK m \in DOMAIN s[q] : s[q][m] = e
      BY <3>3
    <3>5. \E p \in Places : p[3] = s[q]
      <4>1. s[q] # <<>>
        BY <3>4
      <4>2. CASE \E k \in Keys : q = OfLedger(k)
        <5>1. PICK k \in Keys : q = OfLedger(k)
          BY <4>2
        <5>2. <<"ledger", k, ledger[k].entries>> \in Places
          BY DocumentPlaces
        <5> QED
          BY <3>1, <5>1, <5>2 DEF Contents
      <4>3. CASE \E k \in Keys : q = OfArchive(k)
        <5>1. PICK k \in Keys : q = OfArchive(k)
          BY <4>3
        <5>2. <<"archive", k, archive[k].entries>> \in Places
          BY DocumentPlaces
        <5> QED
          BY <3>1, <5>1, <5>2 DEF Contents
      <4>4. CASE \E k \in Keys : q = OfPages(k)
        <5>1. PICK k \in Keys : q = OfPages(k)
          BY <4>4
        <5>2. <<"pages", k, pages[k]>> \in Places
          BY DEF Places
        <5> QED
          BY <3>1, <5>1, <5>2 DEF Contents
      <4>5. CASE \E a \in Archival : q = OfTaken(a)
        <5>1. PICK a \in Archival : q = OfTaken(a)
          BY <4>5
        <5>2. a \in archiving /\ s[q] = a.doc.entries
          BY <3>1, <4>1, <5>1 DEF Contents
        <5>3. <<"archiving", a.key, a.doc.entries>> \in Places
          BY <5>2, DocumentPlaces
        <5> QED
          BY <5>2, <5>3
      <4>6. CASE \E w \in Workers : q = OfHand(w)
        <5>1. PICK w \in Workers : q = OfHand(w)
          BY <4>6
        <5>2. <<"hand", w, job[w].hand>> \in Places
          BY DEF Places
        <5> QED
          BY <3>1, <5>1, <5>2 DEF Contents
      <4> QED
        BY <4>2, <4>3, <4>4, <4>5, <4>6, SlotKinds
    <3> QED
      BY <3>4, <3>5
  <2> QED
    BY <2>2, <2>3 DEF Held
<1> QED
  BY <1>1, EntriesInvariant, PTL

-----------------------------------------------------------------------------
(* Sums over finite sets: each lemma by a minimal counterexample.          *)

\* A set of numbers that has 0, and with every number the next, has them all.
LEMMA AllNumbers ==
  ASSUME NEW T, 0 \in T, \A n \in Nat : n \in T => n + 1 \in T
  PROVE  \A n \in Nat : n \in T
<1> DEFINE R == OpToRel(<, Nat)
           C == Nat \ T
<1>1. SUFFICES ASSUME C # {} PROVE FALSE
  OBVIOUS
<1>2. IsWellFoundedOn(R, Nat)
  BY NatLessThanWellFounded
<1>3. \A m \in Nat, n \in Nat : m < n => <<m, n>> \in R
  BY DEF OpToRel
<1>4. C \subseteq Nat
  OBVIOUS
<1> HIDE DEF R
<1>5. PICK n \in C : \A m \in C : ~(<<m, n>> \in R)
  <2> HIDE DEF C
  <2> QED
    BY <1>1, <1>2, <1>4, WFMin
<1>6. n \in Nat /\ n # 0 /\ n \notin T
  OBVIOUS
<1>7. n - 1 \in Nat /\ n - 1 < n /\ (n - 1) + 1 = n
  BY <1>6
<1>8. n - 1 \in T
  BY <1>3, <1>5, <1>6, <1>7
<1> QED
  BY <1>6, <1>7, <1>8

\* The element a fold takes first, and what it makes of the rest.
Some(T) == CHOOSE x \in T : TRUE
Rest(T) == T \ {Some(T)}
Value(f, g, s) == IF s = {} THEN 0 ELSE f[Some(s)] + g[Rest(s)]
Adds(f, S, g) == g = [s \in SUBSET S |-> Value(f, g, s)]

LEMMA SumIs ==
  ASSUME NEW S, NEW f
  PROVE  SumOver(S, f) = (CHOOSE g : Adds(f, S, g))[S]
  BY DEF SumOver, MapThenFoldSet, Value, Some, Rest, Adds

LEMMA RestIsSmaller ==
  ASSUME NEW s, IsFiniteSet(s), s # {}
  PROVE  /\ Some(s) \in s /\ Rest(s) \subseteq s /\ IsFiniteSet(Rest(s))
         /\ Cardinality(s) \in Nat /\ Cardinality(s) # 0
         /\ Cardinality(Rest(s)) = Cardinality(s) - 1
<1>1. Some(s) \in s
  BY DEF Some
<1>2. Cardinality(s) \in Nat /\ Cardinality(s) # 0
  BY FS_CardinalityType, FS_EmptySet
<1>3. IsFiniteSet(Rest(s)) /\ Cardinality(Rest(s)) = Cardinality(s) - 1
  BY <1>1, FS_RemoveElement DEF Rest
<1> QED
  BY <1>1, <1>2, <1>3 DEF Rest

\* There is a function that adds up f over the subsets of a finite set: one
\* for those of n elements at most, for every n.
LEMMA AdderExists ==
  ASSUME NEW S, IsFiniteSet(S), NEW f
  PROVE  \E g : Adds(f, S, g)
<1> DEFINE Few(n) == {s \in SUBSET S : Cardinality(s) <= n}
           Upto(n, g) == g = [s \in Few(n) |-> Value(f, g, s)]
           T == {n \in Nat : \E g : Upto(n, g)}
<1>0. \A s \in SUBSET S : IsFiniteSet(s) /\ Cardinality(s) \in Nat
                          /\ Cardinality(s) <= Cardinality(S)
  BY FS_Subset, FS_CardinalityType
<1>1. 0 \in T
  <2> DEFINE g == [s \in Few(0) |-> 0]
  <2>1. \A s \in Few(0) : s = {}
    BY <1>0, FS_EmptySet
  <2>2. \A s \in Few(0) : Value(f, g, s) = 0
    BY <2>1 DEF Value
  <2>3. Upto(0, g)
    BY <2>2
  <2> HIDE DEF g, Upto
  <2> QED
    BY <2>3
<1>2. ASSUME NEW n \in Nat, n \in T PROVE n + 1 \in T
  <2>1. PICK g : Upto(n, g)
    BY <1>2
  <2> DEFINE h == [s \in Few(n + 1) |-> Value(f, g, s)]
  <2>2. \A s \in Few(n) : g[s] = Value(f, g, s)
    BY <2>1
  <2>3. \A s \in Few(n) : s \in Few(n + 1) /\ h[s] = g[s]
    BY <1>0, <2>2
  <2>4. \A s \in Few(n + 1) : s # {} => Rest(s) \in Few(n)
    <3> SUFFICES ASSUME NEW s \in Few(n + 1), s # {} PROVE Rest(s) \in Few(n)
      OBVIOUS
    <3>1. s \in SUBSET S /\ IsFiniteSet(s) /\ Cardinality(s) <= n + 1
      BY <1>0
    <3>2. Rest(s) \subseteq s /\ Cardinality(Rest(s)) = Cardinality(s) - 1
          /\ Cardinality(s) \in Nat
      BY <3>1, RestIsSmaller
    <3> QED
      BY <3>1, <3>2
  <2>5. \A s \in Few(n + 1) : Value(f, g, s) = Value(f, h, s)
    BY <2>3, <2>4 DEF Value
  <2>6. Upto(n + 1, h)
    BY <2>5
  <2> HIDE DEF h, Upto
  <2> QED
    BY <2>6
<1>3. Cardinality(S) \in T
  <2> HIDE DEF T
  <2> QED
    BY <1>1, <1>2, AllNumbers, FS_CardinalityType
<1>4. Few(Cardinality(S)) = SUBSET S
  BY <1>0
<1>5. PICK g : Upto(Cardinality(S), g)
  BY <1>3
<1>6. Adds(f, S, g)
  BY <1>4, <1>5 DEF Adds
<1> QED
  BY <1>6

\* Functions that add up agree, also when one adds over a larger set.
LEMMA AddersAgree ==
  ASSUME NEW S, NEW U, U \subseteq S, IsFiniteSet(U), NEW f, NEW e,
         \A x \in U : f[x] = e[x],
         NEW g, Adds(f, S, g), NEW h, Adds(e, U, h)
  PROVE  g[U] = h[U]
<1> DEFINE T == {n \in Nat : \A s \in SUBSET U : Cardinality(s) = n => g[s] = h[s]}
<1>0. \A s \in SUBSET U : /\ g[s] = Value(f, g, s) /\ h[s] = Value(e, h, s)
                          /\ IsFiniteSet(s)
  <2>1. \A s \in SUBSET U : s \in SUBSET S /\ IsFiniteSet(s)
    BY FS_Subset
  <2>2. \A s \in SUBSET S : g[s] = Value(f, g, s)
    BY DEF Adds
  <2>3. \A s \in SUBSET U : h[s] = Value(e, h, s)
    BY DEF Adds
  <2> QED
    BY <2>1, <2>2, <2>3
<1>1. 0 \in T
  <2> SUFFICES ASSUME NEW s \in SUBSET U, Cardinality(s) = 0 PROVE g[s] = h[s]
    OBVIOUS
  <2>1. s = {}
    BY <1>0, FS_EmptySet
  <2> QED
    BY <1>0, <2>1 DEF Value
<1>2. ASSUME NEW n \in Nat, n \in T PROVE n + 1 \in T
  <2> SUFFICES ASSUME NEW s \in SUBSET U, Cardinality(s) = n + 1
               PROVE  g[s] = h[s]
    OBVIOUS
  <2>1. s # {}
    BY FS_EmptySet
  <2>2. Some(s) \in s /\ Rest(s) \in SUBSET U /\ Cardinality(Rest(s)) = n
    BY <1>0, <2>1, RestIsSmaller
  <2>3. g[Rest(s)] = h[Rest(s)]
    BY <1>2, <2>2
  <2>4. f[Some(s)] = e[Some(s)]
    BY <2>2
  <2> QED
    BY <1>0, <2>1, <2>3, <2>4 DEF Value
<1>3. Cardinality(U) \in T
  <2> HIDE DEF T
  <2> QED
    BY <1>1, <1>2, AllNumbers, FS_CardinalityType
<1> QED
  BY <1>3

\* Sums of equal numbers are equal.
LEMMA SumSame ==
  ASSUME NEW S, IsFiniteSet(S), NEW f, NEW e, \A x \in S : f[x] = e[x]
  PROVE  SumOver(S, f) = SumOver(S, e)
<1>1. Adds(f, S, CHOOSE g : Adds(f, S, g)) /\ Adds(e, S, CHOOSE g : Adds(e, S, g))
  BY AdderExists
<1> QED
  BY <1>1, SumIs, AddersAgree

\* A sum is its first number and the sum of the others.
LEMMA SumFirst ==
  ASSUME NEW S, IsFiniteSet(S), NEW f
  PROVE  SumOver(S, f) = IF S = {} THEN 0
                         ELSE f[Some(S)] + SumOver(Rest(S), f)
<1> DEFINE g == CHOOSE g : Adds(f, S, g)
           h == CHOOSE h : Adds(f, Rest(S), h)
<1>1. Adds(f, S, g)
  BY AdderExists
<1>2. g[S] = Value(f, g, S)
  BY <1>1 DEF Adds
<1>3. SumOver(S, f) = g[S]
  BY SumIs
<1>4. CASE S = {}
  BY <1>2, <1>3, <1>4 DEF Value
<1>5. CASE S # {}
  <2>1. IsFiniteSet(Rest(S)) /\ Rest(S) \subseteq S
    BY <1>5, RestIsSmaller
  <2>2. Adds(f, Rest(S), h)
    BY <2>1, AdderExists
  <2>3. SumOver(Rest(S), f) = h[Rest(S)]
    BY SumIs
  <2> HIDE DEF g, h
  <2>4. g[Rest(S)] = h[Rest(S)]
    BY <1>1, <2>1, <2>2, AddersAgree
  <2> QED
    BY <1>2, <1>3, <1>5, <2>3, <2>4 DEF Value
<1> QED
  BY <1>4, <1>5

\* What a set of indices must be for its numbers to be added up.
Summable(S, f) == IsFiniteSet(S) /\ \A x \in S : f[x] \in Int

LEMMA SumIsNumber ==
  ASSUME NEW S, NEW f, Summable(S, f)
  PROVE  SumOver(S, f) \in Int
<1> DEFINE T == {n \in Nat : \A s \in SUBSET S :
                   Cardinality(s) = n => SumOver(s, f) \in Int}
<1>0. \A s \in SUBSET S : IsFiniteSet(s) /\ Cardinality(s) \in Nat
  BY FS_Subset, FS_CardinalityType DEF Summable
<1>1. 0 \in T
  <2>1. \A s \in SUBSET S : Cardinality(s) = 0 => SumOver(s, f) = 0
    BY <1>0, FS_EmptySet, SumFirst
  <2> QED
    BY <2>1
<1>2. ASSUME NEW n \in Nat, n \in T PROVE n + 1 \in T
  <2> SUFFICES ASSUME NEW s \in SUBSET S, Cardinality(s) = n + 1
               PROVE  SumOver(s, f) \in Int
    OBVIOUS
  <2>1. s # {} /\ IsFiniteSet(s)
    BY <1>0, FS_EmptySet
  <2>2. Some(s) \in s /\ Rest(s) \subseteq s /\ Cardinality(Rest(s)) = Cardinality(s) - 1
    BY <2>1, RestIsSmaller
  <2>3. Rest(s) \in SUBSET S /\ Cardinality(Rest(s)) = n
    BY <2>2
  <2>4. SumOver(Rest(s), f) \in Int
    BY <1>2, <2>3
  <2>5. f[Some(s)] \in Int
    BY <2>2 DEF Summable
  <2> QED
    BY <2>1, <2>4, <2>5, SumFirst
<1>3. Cardinality(S) \in T
  <2> HIDE DEF T
  <2> QED
    BY <1>0, <1>1, <1>2, AllNumbers
<1> QED
  BY <1>3

\* Any of the numbers may be taken first.
LEMMA SumOut ==
  ASSUME NEW S, NEW f, Summable(S, f), NEW y \in S
  PROVE  SumOver(S, f) = f[y] + SumOver(S \ {y}, f)
<1> DEFINE Fine(s) == \A x \in s : SumOver(s, f) = f[x] + SumOver(s \ {x}, f)
           T == {n \in Nat : \A s \in SUBSET S : Cardinality(s) = n => Fine(s)}
<1>0. \A s \in SUBSET S : /\ IsFiniteSet(s) /\ Cardinality(s) \in Nat
                          /\ SumOver(s, f) \in Int
  BY FS_Subset, FS_CardinalityType, SumIsNumber DEF Summable
<1>1. 0 \in T
  BY <1>0, FS_EmptySet
<1>2. ASSUME NEW n \in Nat, n \in T PROVE n + 1 \in T
  <2> SUFFICES ASSUME NEW s \in SUBSET S, Cardinality(s) = n + 1, NEW x \in s
               PROVE  SumOver(s, f) = f[x] + SumOver(s \ {x}, f)
    OBVIOUS
  <2>1. s # {} /\ IsFiniteSet(s)
    BY <1>0
  <2>2. PICK z : z = Some(s)
    OBVIOUS
  <2>3. z \in s /\ SumOver(s, f) = f[z] + SumOver(s \ {z}, f)
    BY <2>1, <2>2, RestIsSmaller, SumFirst DEF Rest
  <2>4. CASE x = z
    BY <2>3, <2>4
  <2>5. CASE x # z
    <3>1. x \in s \ {z} /\ z \in s \ {x} /\ (s \ {z}) \ {x} = (s \ {x}) \ {z}
      BY <2>3, <2>5
    <3>2. \A e \in s : Cardinality(s \ {e}) = n /\ s \ {e} \in SUBSET S
      BY <2>1, FS_RemoveElement
    <3>3. Fine(s \ {z}) /\ Fine(s \ {x})
      BY <1>2, <2>3, <3>2
    <3>4. /\ SumOver(s \ {z}, f) = f[x] + SumOver((s \ {z}) \ {x}, f)
          /\ SumOver(s \ {x}, f) = f[z] + SumOver((s \ {x}) \ {z}, f)
      BY <3>1, <3>3
    <3>5. f[x] \in Int /\ f[z] \in Int /\ SumOver((s \ {x}) \ {z}, f) \in Int
      BY <1>0, <2>3 DEF Summable
    <3>6. SumOver((s \ {z}) \ {x}, f) = SumOver((s \ {x}) \ {z}, f)
      BY <3>1
    <3> DEFINE c == SumOver((s \ {x}) \ {z}, f)
    <3>7. /\ SumOver(s, f) = f[z] + (f[x] + c)
          /\ SumOver(s \ {x}, f) = f[z] + c
          /\ c \in Int
      BY <2>3, <3>4, <3>5, <3>6
    <3> HIDE DEF c
    <3> QED
      BY <3>5, <3>7
  <2> QED
    BY <2>4, <2>5
<1>3. Cardinality(S) \in T
  <2> HIDE DEF T
  <2> QED
    BY <1>0, <1>1, <1>2, AllNumbers
<1> QED
  BY <1>3

LEMMA SumOfNone ==
  ASSUME NEW f
  PROVE  SumOver({}, f) = 0
  BY FS_EmptySet, SumFirst

\* The sum changes by what one number changes.
LEMMA SumChange ==
  ASSUME NEW S, NEW f, Summable(S, f), NEW e, Summable(S, e),
         NEW y \in S, \A x \in S : x # y => e[x] = f[x]
  PROVE  SumOver(S, e) = SumOver(S, f) + (e[y] - f[y])
<1>1. SumOver(S, e) = e[y] + SumOver(S \ {y}, e)
  BY SumOut
<1>2. SumOver(S, f) = f[y] + SumOver(S \ {y}, f)
  BY SumOut
<1>3. SumOver(S \ {y}, e) = SumOver(S \ {y}, f)
  <2>1. IsFiniteSet(S \ {y})
    BY FS_Subset DEF Summable
  <2>2. \A x \in S \ {y} : e[x] = f[x]
    OBVIOUS
  <2> QED
    BY <2>1, <2>2, SumSame
<1>4. SumOver(S \ {y}, f) \in Int /\ e[y] \in Int /\ f[y] \in Int
  <2>1. Summable(S \ {y}, f)
    BY FS_Subset DEF Summable
  <2> QED
    BY <2>1, SumIsNumber DEF Summable
<1> QED
  BY <1>1, <1>2, <1>3, <1>4

\* What two numbers exchange leaves the sum.
LEMMA SumExchange ==
  ASSUME NEW S, NEW f, Summable(S, f), NEW e, Summable(S, e),
         NEW y \in S, NEW z \in S, y # z, e[y] + e[z] = f[y] + f[z],
         \A x \in S : x # y /\ x # z => e[x] = f[x]
  PROVE  SumOver(S, e) = SumOver(S, f)
<1> DEFINE R == S \ {y}
<1>1. SumOver(S, e) = e[y] + SumOver(R, e) /\ SumOver(S, f) = f[y] + SumOver(R, f)
  BY SumOut
<1>2. Summable(R, e) /\ Summable(R, f) /\ z \in R
  BY FS_Subset DEF Summable
<1>3. \A x \in R : x # z => e[x] = f[x]
  OBVIOUS
<1> HIDE DEF R
<1>4. SumOver(R, e) = SumOver(R, f) + (e[z] - f[z])
  BY <1>2, <1>3, SumChange
<1>5. SumOver(R, f) \in Int /\ e[y] \in Int /\ f[y] \in Int
      /\ e[z] \in Int /\ f[z] \in Int
  BY <1>2, SumIsNumber DEF Summable
<1> DEFINE r == SumOver(R, f)   p == e[y]   q == e[z]   m == f[y]   n == f[z]
<1>6. /\ SumOver(S, e) = p + (r + (q - n)) /\ SumOver(S, f) = m + r
      /\ p + q = m + n
      /\ r \in Int /\ p \in Int /\ q \in Int /\ m \in Int /\ n \in Int
  BY <1>1, <1>4, <1>5
<1> HIDE DEF r, p, q, m, n
<1> QED
  BY <1>6

\* One number more.
OneMore(S, f, y, e) ==
  /\ Summable(S, f) /\ y \notin S /\ e[y] \in Int
  /\ \A x \in S : e[x] = f[x]

LEMMA SumMore ==
  ASSUME NEW S, NEW f, NEW y, NEW e, OneMore(S, f, y, e)
  PROVE  SumOver(S \cup {y}, e) = SumOver(S, f) + e[y]
<1> USE DEF OneMore
<1> DEFINE U == S \cup {y}
<1>1. Summable(U, e) /\ U \ {y} = S
  BY FS_AddElement DEF Summable
<1>2. SumOver(U, e) = e[y] + SumOver(S, e)
  <2> HIDE DEF U
  <2>1. y \in U
    BY DEF U
  <2> QED
    BY <1>1, <2>1, SumOut
<1>3. SumOver(S, e) = SumOver(S, f)
  BY SumSame DEF Summable
<1>4. SumOver(S, f) \in Int
  BY SumIsNumber
<1> QED
  BY <1>2, <1>3, <1>4

\* A set of ones adds up to its size.
LEMMA SumOfOnes ==
  ASSUME NEW S, IsFiniteSet(S), NEW f, \A x \in S : f[x] = 1
  PROVE  SumOver(S, f) = Cardinality(S)
<1> DEFINE T == {n \in Nat : \A s \in SUBSET S :
                   Cardinality(s) = n => SumOver(s, f) = n}
<1>0. \A s \in SUBSET S : IsFiniteSet(s) /\ Cardinality(s) \in Nat
  BY FS_Subset, FS_CardinalityType
<1>1. 0 \in T
  BY <1>0, FS_EmptySet, SumFirst
<1>2. ASSUME NEW n \in Nat, n \in T PROVE n + 1 \in T
  <2> SUFFICES ASSUME NEW s \in SUBSET S, Cardinality(s) = n + 1
               PROVE  SumOver(s, f) = n + 1
    OBVIOUS
  <2>1. s # {} /\ IsFiniteSet(s)
    BY <1>0, FS_EmptySet
  <2>2. /\ Some(s) \in s /\ Rest(s) \subseteq s
        /\ Cardinality(Rest(s)) = Cardinality(s) - 1
    BY <2>1, RestIsSmaller
  <2>3. Rest(s) \in SUBSET S /\ Cardinality(Rest(s)) = n
    BY <2>2
  <2>4. SumOver(Rest(s), f) = n /\ f[Some(s)] = 1
    BY <1>2, <2>2, <2>3
  <2> QED
    BY <2>1, <2>4, SumFirst
<1>3. Cardinality(S) \in T
  <2> HIDE DEF T
  <2> QED
    BY <1>0, <1>1, <1>2, AllNumbers
<1> QED
  BY <1>3

\* Zeros add up to zero.
LEMMA SumOfZeros ==
  ASSUME NEW S, IsFiniteSet(S), NEW f, \A x \in S : f[x] = 0
  PROVE  SumOver(S, f) = 0
<1> DEFINE T == {n \in Nat : \A s \in SUBSET S :
                   Cardinality(s) = n => SumOver(s, f) = 0}
<1>0. \A s \in SUBSET S : IsFiniteSet(s) /\ Cardinality(s) \in Nat
  BY FS_Subset, FS_CardinalityType
<1>1. 0 \in T
  BY <1>0, FS_EmptySet, SumFirst
<1>2. ASSUME NEW n \in Nat, n \in T PROVE n + 1 \in T
  <2> SUFFICES ASSUME NEW s \in SUBSET S, Cardinality(s) = n + 1
               PROVE  SumOver(s, f) = 0
    OBVIOUS
  <2>1. s # {} /\ IsFiniteSet(s)
    BY <1>0, FS_EmptySet
  <2>2. /\ Some(s) \in s /\ Rest(s) \subseteq s
        /\ Cardinality(Rest(s)) = Cardinality(s) - 1
    BY <2>1, RestIsSmaller
  <2>3. Rest(s) \in SUBSET S /\ Cardinality(Rest(s)) = n
    BY <2>2
  <2>4. SumOver(Rest(s), f) = 0 /\ f[Some(s)] = 0
    BY <1>2, <2>2, <2>3
  <2> QED
    BY <2>1, <2>4, SumFirst
<1>3. Cardinality(S) \in T
  <2> HIDE DEF T
  <2> QED
    BY <1>0, <1>1, <1>2, AllNumbers
<1> QED
  BY <1>3

-----------------------------------------------------------------------------
(* The totals of a head.                                                   *)

Figures == {"base", "tds", "count"}
Figure(doc, f) ==
  IF f = "base" THEN doc.base ELSE IF f = "tds" THEN doc.tds ELSE doc.count
Brought(r, f) ==
  IF f = "base" THEN r.base ELSE IF f = "tds" THEN r.tds ELSE 1

\* A head's figure over the documents of all vendors, over the archivals under
\* way, and over the recordings made for it.
OverVendors(docs, f, h) ==
  SumOver(Vendors, [v \in Vendors |-> Figure(docs[<<v, h>>], f)])
OnTheWay(taken, h) == {a \in taken : a.key[2] = h}
OverTaken(taken, f, h) ==
  SumOver(OnTheWay(taken, h), [a \in taken |-> Figure(a.doc, f)])
MadeIn(recs, h) == {n \in 1..Len(recs) : recs[n].head = h}
OverMade(recs, f, h) ==
  SumOver(MadeIn(recs, h), [n \in MadeIn(recs, h) |-> Brought(recs[n], f)])

Balance(led, arc, taken, recs, f, h) ==
  OverVendors(led, f, h) + OverVendors(arc, f, h) + OverTaken(taken, f, h)
    = OverMade(recs, f, h)

\* The first archive overwrites no document, entries or not.
ArchiveBlank ==
  used.archives <= 1 /\ (used.archives = 0 \/ archiving # {})
    => \A k \in Keys : archive[k] = NoLedger
AllBalanced ==
  Undisturbed => \A f \in Figures, h \in Heads :
                   Balance(ledger, archive, archiving, recordings, f, h)
TotalsInv == ArchiveBlank /\ AllBalanced
TInv == EInv /\ TotalsInv

\* Documents whose figures are numbers.
Money(doc) == \A f \in Figures : Figure(doc, f) \in Int
Moneys(docs) == \A k \in Keys : Money(docs[k])

LEMMA LedgerIsMoney ==
  ASSUME NEW doc \in Ledger
  PROVE  Money(doc)
  BY DEF Ledger, Money, Figure, Figures

LEMMA VendorsAddUp ==
  ASSUME NEW docs, Moneys(docs), NEW f \in Figures, NEW h \in Heads
  PROVE  /\ Summable(Vendors, [v \in Vendors |-> Figure(docs[<<v, h>>], f)])
         /\ OverVendors(docs, f, h) \in Int
<1> DEFINE e == [v \in Vendors |-> Figure(docs[<<v, h>>], f)]
<1>1. \A v \in Vendors : <<v, h>> \in Keys
  BY DEF Keys
<1>2. Summable(Vendors, e)
  BY <1>1, VendorsAssumption DEF Summable, Moneys, Money
<1> HIDE DEF e
<1>3. SumOver(Vendors, e) \in Int
  BY <1>2, SumIsNumber
<1> QED
  BY <1>2, <1>3 DEF e, OverVendors

\* The vendors' sum after one document changed.
LEMMA OneDocument ==
  ASSUME NEW docs, Moneys(docs), NEW more, Moneys(more),
         NEW f \in Figures, NEW h \in Heads, NEW k \in Keys,
         \A q \in Keys : q # k => more[q] = docs[q]
  PROVE  OverVendors(more, f, h)
           = OverVendors(docs, f, h)
               + IF k[2] = h THEN Figure(more[k], f) - Figure(docs[k], f) ELSE 0
<1> DEFINE e == [v \in Vendors |-> Figure(docs[<<v, h>>], f)]
           g == [v \in Vendors |-> Figure(more[<<v, h>>], f)]
           y == k[1]
<1>1. Summable(Vendors, e) /\ Summable(Vendors, g)
      /\ OverVendors(docs, f, h) \in Int
  BY VendorsAddUp
<1>2. y \in Vendors /\ k = <<y, k[2]>>
  BY DEF Keys
<1>3. \A v \in Vendors : <<v, h>> \in Keys /\ (<<v, h>> = k <=> v = y /\ k[2] = h)
  BY <1>2 DEF Keys
<1>4. \A v \in Vendors : e[v] = Figure(docs[<<v, h>>], f)
                         /\ g[v] = Figure(more[<<v, h>>], f)
  OBVIOUS
<1>5. OverVendors(docs, f, h) = SumOver(Vendors, e)
      /\ OverVendors(more, f, h) = SumOver(Vendors, g)
  BY DEF OverVendors
<1> HIDE DEF e, g, y
<1>6. CASE k[2] = h
  <2>1. \A v \in Vendors : v # y => g[v] = e[v]
    BY <1>3, <1>4
  <2>2. SumOver(Vendors, g) = SumOver(Vendors, e) + (g[y] - e[y])
    BY <1>1, <1>2, <2>1, SumChange
  <2>3. g[y] = Figure(more[k], f) /\ e[y] = Figure(docs[k], f)
    BY <1>2, <1>4, <1>6
  <2> QED
    BY <1>5, <1>6, <2>2, <2>3
<1>7. CASE k[2] # h
  <2>1. \A v \in Vendors : g[v] = e[v]
    BY <1>3, <1>4, <1>7
  <2>2. SumOver(Vendors, g) = SumOver(Vendors, e)
    BY <2>1, SumSame, VendorsAssumption
  <2> QED
    BY <1>1, <1>5, <1>7, <2>2
<1> QED
  BY <1>6, <1>7

\* The recordings' sum after one recording more.
LEMMA OneRecording ==
  ASSUME NEW recs \in Seq(Recording), NEW r \in Recording,
         NEW f \in Figures, NEW h \in Heads
  PROVE  /\ OverMade(recs, f, h) \in Int
         /\ OverMade(Append(recs, r), f, h)
              = OverMade(recs, f, h) + IF r.head = h THEN Brought(r, f) ELSE 0
<1> DEFINE more == Append(recs, r)   z == Len(recs) + 1
           S == MadeIn(recs, h)   U == MadeIn(more, h)
           e == [n \in S |-> Brought(recs[n], f)]
           g == [n \in U |-> Brought(more[n], f)]
<1>1. /\ Len(recs) \in Nat /\ Len(more) = z /\ more[z] = r
      /\ \A n \in 1..Len(recs) : more[n] = recs[n]
      /\ \A n \in 1..Len(recs) : recs[n] \in Recording
  OBVIOUS
<1>2. 1..z = 1..Len(recs) \cup {z} /\ z \notin 1..Len(recs)
  BY <1>1
<1>3. \A q \in Recording : Brought(q, f) \in Int
  BY DEF Brought, Recording
<1>4. IsFiniteSet(S)
  <2>1. IsFiniteSet(1..Len(recs)) /\ S \subseteq 1..Len(recs)
    BY <1>1, FS_Interval DEF MadeIn
  <2> QED
    BY <2>1, FS_Subset
<1>5. \A n \in S : e[n] = Brought(recs[n], f) /\ n \in 1..Len(recs)
                   /\ recs[n].head = h
  BY DEF MadeIn
<1>6. Summable(S, e)
  BY <1>1, <1>3, <1>4, <1>5 DEF Summable
<1>7. U = IF r.head = h THEN S \cup {z} ELSE S
  <2> HIDE DEF more, z
  <2> QED
    BY <1>1, <1>2 DEF MadeIn
<1>8. \A n \in U : g[n] = Brought(more[n], f)
  OBVIOUS
<1>9. OverMade(recs, f, h) = SumOver(S, e)
      /\ OverMade(more, f, h) = SumOver(U, g)
  BY DEF OverMade
<1>10. z \notin S
  BY <1>2 DEF MadeIn
<1> HIDE DEF e, g, S, U, more, z
<1>11. SumOver(S, e) \in Int
  BY <1>6, SumIsNumber
<1>12. CASE r.head = h
  <2>1. g[z] = Brought(r, f) /\ g[z] \in Int
    BY <1>1, <1>3, <1>7, <1>8, <1>12
  <2>2. \A n \in S : g[n] = e[n]
    BY <1>1, <1>5, <1>7, <1>8, <1>12
  <2>3. OneMore(S, e, z, g)
    BY <1>6, <1>10, <2>1, <2>2 DEF OneMore
  <2>4. SumOver(S \cup {z}, g) = SumOver(S, e) + g[z]
    BY <2>3, SumMore
  <2> QED
    BY <1>7, <1>9, <1>11, <1>12, <2>1, <2>4 DEF more
<1>13. CASE r.head # h
  <2>1. \A n \in S : g[n] = e[n]
    BY <1>1, <1>5, <1>7, <1>8, <1>13
  <2>2. SumOver(S, g) = SumOver(S, e)
    BY <1>4, <2>1, SumSame
  <2> QED
    BY <1>7, <1>9, <1>11, <1>13, <2>2 DEF more
<1> QED
  BY <1>9, <1>11, <1>12, <1>13

\* The sum over one archival under way, and over none.
LEMMA OneTaken ==
  ASSUME NEW a, Money(a.doc), NEW f \in Figures, NEW h \in Heads
  PROVE  /\ OverTaken({}, f, h) = 0
         /\ OverTaken({a}, f, h)
              = IF a.key[2] = h THEN Figure(a.doc, f) ELSE 0
<1> DEFINE e == [b \in {a} |-> Figure(b.doc, f)]
<1>1. OnTheWay({}, h) = {}
      /\ OnTheWay({a}, h) = IF a.key[2] = h THEN {a} ELSE {}
  BY DEF OnTheWay
<1>2. e[a] = Figure(a.doc, f) /\ e[a] \in Int
  BY DEF Money
<1>3. OverTaken({a}, f, h) = SumOver(OnTheWay({a}, h), e)
  BY DEF OverTaken
<1>4. OverTaken({}, f, h) = 0
  BY <1>1, SumOfNone DEF OverTaken
<1> HIDE DEF e
<1>5. SumOver({a}, e) = e[a]
  <2>1. OneMore({}, e, a, e) /\ {} \cup {a} = {a}
    BY <1>2, FS_EmptySet DEF Summable, OneMore
  <2>2. SumOver({} \cup {a}, e) = SumOver({}, e) + e[a]
    BY <2>1, SumMore
  <2> QED
    BY <1>2, <2>1, <2>2, SumOfNone
<1> QED
  BY <1>1, <1>2, <1>3, <1>4, <1>5, SumOfNone

LEMMA BlankIsNothing ==
  ASSUME NEW f \in Figures
  PROVE  Figure(NoLedger, f) = 0
  BY DEF Figures, Figure, NoLedger

LEMMA DocumentsAreMoney ==
  ASSUME TypeOK
  PROVE  Moneys(ledger) /\ Moneys(archive) /\ \A a \in archiving : Money(a.doc)
<1>1. /\ \A k \in Keys : ledger[k] \in Ledger /\ archive[k] \in Ledger
      /\ \A a \in archiving : a.doc \in Ledger
  BY DEF TypeOK
<1> QED
  BY <1>1, LedgerIsMoney DEF Moneys

LEMMA MoneyNext ==
  ASSUME TypeOK'
  PROVE  Moneys(ledger') /\ Moneys(archive')
         /\ \A a \in archiving' : Money(a.doc)
<1>1. /\ \A k \in Keys : ledger'[k] \in Ledger' /\ archive'[k] \in Ledger'
      /\ \A a \in archiving' : a.doc \in Ledger'
  BY DEF TypeOK
<1>2. \A doc \in Ledger' : Money(doc)
  BY DEF Ledger, Money, Figure, Figures
<1> QED
  BY <1>1, <1>2 DEF Moneys

LEMMA InitTotals == Init => TotalsInv
<1> SUFFICES ASSUME Init PROVE TotalsInv
  OBVIOUS
<1>1. ASSUME NEW f \in Figures, NEW h \in Heads
      PROVE  Balance(ledger, archive, archiving, recordings, f, h)
  <2> DEFINE e == [v \in Vendors |-> Figure(ledger[<<v, h>>], f)]
             g == [v \in Vendors |-> Figure(archive[<<v, h>>], f)]
  <2>1. \A v \in Vendors : <<v, h>> \in Keys
    BY DEF Keys
  <2>2. \A v \in Vendors : e[v] = 0 /\ g[v] = 0
    BY <2>1, BlankIsNothing DEF Init
  <2>3. OverVendors(ledger, f, h) = SumOver(Vendors, e)
        /\ OverVendors(archive, f, h) = SumOver(Vendors, g)
    BY DEF OverVendors
  <2> HIDE DEF e, g
  <2>4. SumOver(Vendors, e) = 0 /\ SumOver(Vendors, g) = 0
    BY <2>2, SumOfZeros, VendorsAssumption
  <2>5. OverTaken(archiving, f, h) = 0
    <3>1. OnTheWay(archiving, h) = {}
      BY DEF Init, OnTheWay
    <3> QED
      BY <3>1, SumOfNone DEF OverTaken
  <2>6. OverMade(recordings, f, h) = 0
    <3>1. MadeIn(recordings, h) = {}
      BY DEF Init, MadeIn
    <3> QED
      BY <3>1, SumOfNone DEF OverMade
  <2> QED
    BY <2>3, <2>4, <2>5, <2>6 DEF Balance
<1>2. ArchiveBlank
  BY DEF Init, ArchiveBlank
<1> QED
  BY <1>1, <1>2 DEF TotalsInv, AllBalanced

\* A step that changes no figures.
LEMMA SameTotals ==
  ASSUME TInv, UNCHANGED <<archive, archiving, recordings>>,
         used'.archives = used.archives, Undisturbed' => Undisturbed,
         \A f \in Figures, h \in Heads :
           OverVendors(ledger', f, h) = OverVendors(ledger, f, h)
  PROVE  TotalsInv'
<1>1. ArchiveBlank'
  BY DEF TInv, TotalsInv, ArchiveBlank
<1>2. ASSUME Undisturbed', NEW f \in Figures, NEW h \in Heads
      PROVE  Balance(ledger', archive', archiving', recordings', f, h)
  <2>1. Balance(ledger, archive, archiving, recordings, f, h)
    BY <1>2 DEF TInv, TotalsInv, AllBalanced
  <2> QED
    BY <2>1 DEF Balance
<1> QED
  BY <1>1, <1>2 DEF TotalsInv, AllBalanced

LEMMA FaultTotals ==
  ASSUME TInv, Crash \/ \E w \in Workers : Fail(w)
  PROVE  TotalsInv'
<1>1. Fault /\ UNCHANGED archive /\ archiving' \subseteq archiving
  BY DEF Crash, Fail
<1>2. used'.archives = used.archives /\ used'.faults > 0
  BY <1>1, UseLeaves DEF TInv, EInv, IInv
<1>3. ArchiveBlank'
  BY <1>1, <1>2 DEF TInv, TotalsInv, ArchiveBlank
<1>4. ~Undisturbed'
  BY <1>2 DEF Undisturbed
<1> QED
  BY <1>3, <1>4 DEF TotalsInv, AllBalanced

\* The steps of a worker that change no ledger.
LEMMA QuietTotals ==
  ASSUME TInv, NEW w \in Workers,
         \/ \E i \in Invoices, h \in Heads \cup {NoHead} : Retrigger(w, i, h)
         \/ ReadPrimary(w) \/ ReadArchive(w) \/ Return(w) \/ Save(w) \/ Page(w)
         \/ Split(w) /\ ~Overfull(ledger[Key(job[w])])
  PROVE  TotalsInv'
<1>1. UNCHANGED <<ledger, archive, archiving, recordings>>
  BY DEF Retrigger, ReadPrimary, ReadArchive, Return, Save, Page, Split
<1>2. used'.archives = used.archives /\ used'.faults = used.faults
  BY UseLeaves DEF TInv, EInv, IInv, Retrigger, ReadPrimary, ReadArchive,
                   Return, Save, Page, Split
<1> QED
  BY <1>1, <1>2, SameTotals DEF Undisturbed

LEMMA SplitTotals ==
  ASSUME TInv, TypeOK', NEW w \in Workers, Split(w),
         Overfull(ledger[Key(job[w])])
  PROVE  TotalsInv'
<1> DEFINE k == Key(job[w])
<1>1. k \in Keys /\ ledger \in [Keys -> Ledger] /\ ledger[k] \in Ledger
  BY WorkerKey DEF TInv, EInv, Split, At
<1>2. /\ \A q \in Keys : q # k => ledger'[q] = ledger[q]
      /\ ledger'[k].base = ledger[k].base /\ ledger'[k].tds = ledger[k].tds
      /\ ledger'[k].count = ledger[k].count
  BY <1>1 DEF Split, Ledger
<1>3. \A f \in Figures : Figure(ledger'[k], f) = Figure(ledger[k], f)
  BY <1>2 DEF Figure
<1>4. Moneys(ledger) /\ Moneys(ledger')
  BY DocumentsAreMoney, MoneyNext DEF TInv, EInv, IInv
<1> HIDE DEF k
<1>5. ASSUME NEW f \in Figures, NEW h \in Heads
      PROVE  OverVendors(ledger', f, h) = OverVendors(ledger, f, h)
  <2>1. OverVendors(ledger', f, h)
          = OverVendors(ledger, f, h)
              + IF k[2] = h THEN Figure(ledger'[k], f) - Figure(ledger[k], f)
                ELSE 0
    BY <1>1, <1>2, <1>4, OneDocument
  <2>2. OverVendors(ledger, f, h) \in Int /\ Figure(ledger[k], f) \in Int
    BY <1>1, <1>4, VendorsAddUp DEF Moneys, Money
  <2> QED
    BY <1>3, <2>1, <2>2
<1>6. UNCHANGED <<archive, archiving, recordings, used>>
  BY DEF Split
<1> QED
  BY <1>5, <1>6, SameTotals DEF Undisturbed

\* While nothing disturbs them, at most one archival is under way.
LEMMA TakenIsNumber ==
  ASSUME TInv, Undisturbed, NEW f \in Figures, NEW h \in Heads
  PROVE  /\ archiving = {} \/ \E a \in archiving : archiving = {a}
         /\ OverTaken(archiving, f, h) \in Int
<1>1. \A a, b \in archiving : a = b
  BY DEF TInv, EInv, EntriesInv, FirstArchive, Undisturbed
<1>2. archiving = {} \/ \E a \in archiving : archiving = {a}
  BY <1>1
<1>3. \A a \in archiving : Money(a.doc)
  BY DocumentsAreMoney DEF TInv, EInv, IInv
<1>4. CASE archiving = {}
  <2>1. OnTheWay(archiving, h) = {}
    BY <1>4 DEF OnTheWay
  <2>2. OverTaken(archiving, f, h) = 0
    BY <2>1, SumOfNone DEF OverTaken
  <2> QED
    BY <1>2, <2>2
<1>5. CASE \E a \in archiving : archiving = {a}
  <2>1. PICK a \in archiving : archiving = {a}
    BY <1>5
  <2>2. Figure(a.doc, f) \in Int /\ Money(a.doc)
    BY <1>3 DEF Money
  <2>3. OverTaken({a}, f, h) \in Int
    BY <2>2, OneTaken
  <2> QED
    BY <1>2, <2>1, <2>3
<1> QED
  BY <1>2, <1>4, <1>5

LEMMA RecordTotals ==
  ASSUME TInv, TypeOK', NEW w \in Workers, Record(w)
  PROVE  TotalsInv'
<1> DEFINE k == Key(job[w])   j == job[w]
           r == [invoice |-> j.invoice, head |-> j.head,
                 base |-> Base[j.invoice], tds |-> Amount(j)]
<1>1. k \in Keys /\ ledger \in [Keys -> Ledger] /\ ledger[k] \in Ledger
      /\ j \in Job /\ j.head \in Heads
  BY WorkerKey DEF TInv, EInv, IInv, TypeOK, JobsFit, JobFits, HeadFits,
                   Record, At
<1>2. /\ \A q \in Keys : q # k => ledger'[q] = ledger[q]
      /\ ledger'[k] = Added(ledger[k], j)
  BY <1>1 DEF Record
<1>3. /\ ledger'[k].base = ledger[k].base + r.base
      /\ ledger'[k].tds = ledger[k].tds + r.tds
      /\ ledger'[k].count = ledger[k].count + 1
  BY <1>1, <1>2 DEF Added, Ledger
<1>4. r \in Recording
  <2>1. Amount(j) \in Int
    BY <1>1, DeductionTyped DEF Amount, Job
  <2>2. Base[j.invoice] \in Nat
    BY <1>1, TaxAssumption DEF Job
  <2> QED
    BY <1>1, <2>1, <2>2 DEF Recording, Job
<1>5. recordings' = Append(recordings, r) /\ recordings \in Seq(Recording)
  BY DEF Record, TInv, EInv, IInv, TypeOK
<1>6. k[2] = r.head
  BY DEF Key
<1>7. Moneys(ledger) /\ Moneys(ledger')
  BY DocumentsAreMoney, MoneyNext DEF TInv, EInv, IInv
<1>8. UNCHANGED <<archive, archiving, used>>
  BY DEF Record
<1> HIDE DEF k, r, j
<1>9. \A f \in Figures : Figure(ledger'[k], f) = Figure(ledger[k], f) + Brought(r, f)
  BY <1>3 DEF Figure, Figures, Brought
<1>10. ASSUME Undisturbed', NEW f \in Figures, NEW h \in Heads
       PROVE  Balance(ledger', archive', archiving', recordings', f, h)
  <2>1. OverVendors(ledger', f, h)
          = OverVendors(ledger, f, h)
              + IF k[2] = h THEN Figure(ledger'[k], f) - Figure(ledger[k], f)
                ELSE 0
    BY <1>1, <1>2, <1>7, OneDocument
  <2>2. OverVendors(ledger, f, h) \in Int /\ Figure(ledger[k], f) \in Int
    BY <1>1, <1>7, VendorsAddUp DEF Moneys, Money
  <2>3. Brought(r, f) \in Int
    BY <1>4 DEF Brought, Recording
  <2>4. /\ OverMade(recordings, f, h) \in Int
        /\ OverMade(recordings', f, h)
             = OverMade(recordings, f, h)
                 + IF r.head = h THEN Brought(r, f) ELSE 0
    BY <1>4, <1>5, OneRecording
  <2>5. Balance(ledger, archive, archiving, recordings, f, h)
    BY <1>8, <1>10 DEF TInv, TotalsInv, AllBalanced, Undisturbed
  <2>6. OverVendors(archive, f, h) \in Int
    BY DocumentsAreMoney, VendorsAddUp DEF TInv, EInv, IInv
  <2>7. OverTaken(archiving, f, h) \in Int
    BY <1>8, <1>10, TakenIsNumber DEF Undisturbed
  <2> QED
    BY <1>6, <1>8, <1>9, <2>1, <2>2, <2>3, <2>4, <2>5, <2>6, <2>7 DEF Balance
<1>11. ArchiveBlank'
  BY <1>8 DEF TInv, TotalsInv, ArchiveBlank
<1> QED
  BY <1>10, <1>11 DEF TotalsInv, AllBalanced

-----------------------------------------------------------------------------
(* The steps that move money, and the totals for ever.                     *)

LEMMA ArchiveTakeTotals ==
  ASSUME TInv, TypeOK', NEW k \in Keys, ArchiveTake(k)
  PROVE  TotalsInv'
<1> DEFINE a == [key |-> k, doc |-> ledger[k]]
<1>1. used'.archives = used.archives + 1 /\ used'.faults = used.faults
      /\ used.archives \in Nat
  BY UseLeaves DEF TInv, EInv, IInv, TypeOK, ArchiveTake
<1>2. ledger \in [Keys -> Ledger]
  BY DEF TInv, EInv, IInv, TypeOK
<1>3. /\ \A q \in Keys : q # k => ledger'[q] = ledger[q]
      /\ ledger'[k] = NoLedger
  BY <1>2 DEF ArchiveTake
<1>4. UNCHANGED <<archive, recordings>> /\ archiving' = archiving \cup {a}
  BY DEF ArchiveTake
<1>5. a.key = k /\ a.doc = ledger[k] /\ Money(a.doc)
  BY <1>2, LedgerIsMoney
<1>6. Moneys(ledger) /\ Moneys(ledger')
  BY DocumentsAreMoney, MoneyNext DEF TInv, EInv, IInv
<1> HIDE DEF a
<1>7. ASSUME used'.archives <= 1
      PROVE  used.archives = 0 /\ archiving = {} /\ \A q \in Keys : archive[q] = NoLedger
  BY <1>1, <1>7 DEF TInv, EInv, EntriesInv, FirstArchive, TotalsInv, ArchiveBlank
<1>8. ArchiveBlank'
  BY <1>4, <1>7 DEF ArchiveBlank
<1>9. ASSUME Undisturbed', NEW f \in Figures, NEW h \in Heads
      PROVE  Balance(ledger', archive', archiving', recordings', f, h)
  <2>1. archiving = {} /\ archiving' = {a} /\ Undisturbed
    BY <1>1, <1>4, <1>7, <1>9 DEF Undisturbed
  <2>2. OverVendors(ledger', f, h)
          = OverVendors(ledger, f, h)
              + IF k[2] = h THEN Figure(ledger'[k], f) - Figure(ledger[k], f)
                ELSE 0
    BY <1>3, <1>6, OneDocument
  <2>3. OverVendors(ledger, f, h) \in Int /\ Figure(ledger[k], f) \in Int
    BY <1>6, VendorsAddUp DEF Moneys, Money
  <2>4. /\ OverTaken({}, f, h) = 0
        /\ OverTaken({a}, f, h) = IF k[2] = h THEN Figure(ledger[k], f) ELSE 0
    BY <1>5, OneTaken
  <2>5. Figure(ledger'[k], f) = 0
    BY <1>3, BlankIsNothing
  <2>6. OverVendors(archive, f, h) \in Int
    BY DocumentsAreMoney, VendorsAddUp DEF TInv, EInv, IInv
  <2>7. Balance(ledger, archive, archiving, recordings, f, h)
    BY <2>1 DEF TInv, TotalsInv, AllBalanced
  <2> QED
    BY <1>4, <2>1, <2>2, <2>3, <2>4, <2>5, <2>6, <2>7 DEF Balance
<1> QED
  BY <1>8, <1>9 DEF TotalsInv, AllBalanced

LEMMA ArchivePutTotals ==
  ASSUME TInv, TypeOK', NEW a \in archiving, ArchivePut(a)
  PROVE  TotalsInv'
<1> DEFINE k == a.key
<1>1. k \in Keys /\ archive \in [Keys -> Ledger] /\ a.doc \in Ledger
  BY DEF TInv, EInv, IInv, TypeOK
<1>2. /\ \A q \in Keys : q # k => archive'[q] = archive[q]
      /\ archive'[k] = a.doc
  BY <1>1 DEF ArchivePut
<1>3. UNCHANGED <<ledger, recordings, used>> /\ archiving' = archiving \ {a}
  BY DEF ArchivePut
<1>4. Moneys(archive) /\ Moneys(archive') /\ Money(a.doc)
  BY <1>1, DocumentsAreMoney, MoneyNext, LedgerIsMoney DEF TInv, EInv, IInv
<1> HIDE DEF k
<1>5. ASSUME used.archives <= 1
      PROVE  /\ archiving = {a} /\ archiving' = {} /\ used.archives # 0
             /\ archive[k] = NoLedger
  <2>1. /\ archiving = {a} /\ used.archives # 0
        /\ \A q \in Keys : archive[q] = NoLedger
    BY <1>5 DEF TInv, EInv, EntriesInv, FirstArchive, TotalsInv, ArchiveBlank
  <2> QED
    BY <1>1, <1>3, <2>1
<1>6. ArchiveBlank'
  BY <1>3, <1>5 DEF ArchiveBlank
<1>7. ASSUME Undisturbed', NEW f \in Figures, NEW h \in Heads
      PROVE  Balance(ledger', archive', archiving', recordings', f, h)
  <2>1. /\ archiving = {a} /\ archiving' = {} /\ archive[k] = NoLedger
        /\ Undisturbed
    BY <1>3, <1>5, <1>7 DEF Undisturbed
  <2>2. OverVendors(archive', f, h)
          = OverVendors(archive, f, h)
              + IF k[2] = h THEN Figure(archive'[k], f) - Figure(archive[k], f)
                ELSE 0
    BY <1>1, <1>2, <1>4, OneDocument
  <2>3. OverVendors(archive, f, h) \in Int /\ Figure(a.doc, f) \in Int
    BY <1>4, VendorsAddUp DEF Money
  <2>4. /\ OverTaken({}, f, h) = 0
        /\ OverTaken({a}, f, h) = IF k[2] = h THEN Figure(a.doc, f) ELSE 0
    BY <1>4, OneTaken DEF k
  <2>5. Figure(archive[k], f) = 0 /\ Figure(archive'[k], f) = Figure(a.doc, f)
    BY <1>2, <2>1, BlankIsNothing
  <2>6. OverVendors(ledger, f, h) \in Int
    BY DocumentsAreMoney, VendorsAddUp DEF TInv, EInv, IInv
  <2>7. Balance(ledger, archive, archiving, recordings, f, h)
    BY <2>1 DEF TInv, TotalsInv, AllBalanced
  <2>8. /\ OverVendors(archive', f, h)
             = OverVendors(archive, f, h) + OverTaken({a}, f, h)
        /\ OverTaken({a}, f, h) \in Int
    BY <2>2, <2>3, <2>4, <2>5
  <2>9. OverVendors(ledger, f, h) + OverVendors(archive, f, h)
          + OverTaken({a}, f, h) = OverMade(recordings, f, h)
    BY <2>1, <2>7 DEF Balance
  <2>10. OverVendors(ledger, f, h) + OverVendors(archive', f, h)
           + OverTaken({}, f, h) = OverMade(recordings, f, h)
    BY <2>3, <2>4, <2>6, <2>8, <2>9
  <2> QED
    BY <1>3, <2>1, <2>10 DEF Balance
<1> QED
  BY <1>6, <1>7 DEF TotalsInv, AllBalanced

\* The figures of a consolidation are those of both ledgers.
LEMMA ConsolidatedFigure ==
  ASSUME NEW to \in Ledger, NEW from \in Ledger, BlankIsEmpty(to),
         BlankIsEmpty(from), NEW f \in Figures
  PROVE  Figure(Consolidated(to, from), f) = Figure(to, f) + Figure(from, f)
<1>1. /\ to.base \in Nat /\ to.tds \in Int /\ to.count \in Nat
      /\ from.base \in Nat /\ from.tds \in Int /\ from.count \in Nat
  BY DEF Ledger
<1>2. ASSUME NEW doc \in {to, from}, ~Exists(doc)
      PROVE  Figure(doc, f) = 0
  BY <1>1, <1>2 DEF BlankIsEmpty, Exists, Figure, Figures
<1>3. Figure(to, f) \in Int /\ Figure(from, f) \in Int
  BY <1>1 DEF Figure, Figures
<1>4. CASE ~Exists(from)
  <2>1. Figure(from, f) = 0 /\ Consolidated(to, from) = to
    BY <1>2, <1>4 DEF Consolidated
  <2> QED
    BY <1>3, <2>1
<1>5. CASE Exists(from) /\ ~Exists(to)
  <2>1. Figure(to, f) = 0 /\ Consolidated(to, from) = from
    BY <1>2, <1>5 DEF Consolidated
  <2> QED
    BY <1>3, <2>1
<1>6. CASE Exists(from) /\ Exists(to)
  <2> DEFINE both == Consolidated(to, from)
  <2>1. /\ both.base = to.base + from.base /\ both.tds = to.tds + from.tds
        /\ both.count = to.count + from.count
    BY <1>6 DEF Consolidated, Ledger
  <2> HIDE DEF both
  <2>2. Figure(both, f) = Figure(to, f) + Figure(from, f)
    BY <2>1 DEF Figure, Figures
  <2> QED
    BY <2>2 DEF both
<1> QED
  BY <1>4, <1>5, <1>6

LEMMA MergeTotals ==
  ASSUME TInv, TypeOK', NEW from \in Vendors, NEW to \in Vendors,
         Merge(from, to)
  PROVE  TotalsInv'
<1>1. from # to /\ ledger' = Absorbed(from, to)
  BY DEF Merge
<1>2. UNCHANGED <<archive, archiving, recordings>>
  BY DEF Merge
<1>3. used'.archives = used.archives /\ used'.faults = used.faults
  BY UseLeaves DEF TInv, EInv, IInv, Merge
<1>4. Moneys(ledger) /\ Moneys(ledger')
  BY DocumentsAreMoney, MoneyNext DEF TInv, EInv, IInv
<1>5. \A k \in Keys : ledger[k] \in Ledger /\ BlankIsEmpty(ledger[k])
  BY DEF TInv, EInv, IInv, TypeOK, BlanksAreEmpty
<1>6. ASSUME NEW f \in Figures, NEW h \in Heads
      PROVE  OverVendors(ledger', f, h) = OverVendors(ledger, f, h)
  <2> DEFINE e == [v \in Vendors |-> Figure(ledger[<<v, h>>], f)]
             g == [v \in Vendors |-> Figure(ledger'[<<v, h>>], f)]
  <2>1. Summable(Vendors, e) /\ Summable(Vendors, g)
    BY <1>4, VendorsAddUp
  <2>2. \A v \in Vendors : <<v, h>> \in Keys
    BY DEF Keys
  <2>3. /\ ledger'[<<from, h>>] = NoLedger
        /\ ledger'[<<to, h>>]
             = Consolidated(ledger[<<to, h>>], ledger[<<from, h>>])
        /\ \A v \in Vendors : v # to /\ v # from =>
             ledger'[<<v, h>>] = ledger[<<v, h>>]
    BY <1>1, <2>2 DEF Absorbed
  <2>4. /\ \A v \in Vendors : v # to /\ v # from => g[v] = e[v]
        /\ g[from] = 0
        /\ g[to] = e[to] + e[from]
    <3>1. Figure(ledger'[<<to, h>>], f)
            = Figure(ledger[<<to, h>>], f) + Figure(ledger[<<from, h>>], f)
      BY <1>5, <2>2, <2>3, ConsolidatedFigure
    <3> QED
      BY <2>3, <3>1, BlankIsNothing
  <2>5. OverVendors(ledger', f, h) = SumOver(Vendors, g)
        /\ OverVendors(ledger, f, h) = SumOver(Vendors, e)
    BY DEF OverVendors
  <2>6. e[to] \in Int /\ e[from] \in Int
    BY <2>1 DEF Summable
  <2> HIDE DEF e, g
  <2>7. g[to] + g[from] = e[to] + e[from]
    BY <2>4, <2>6
  <2>8. SumOver(Vendors, g) = SumOver(Vendors, e)
    BY <1>1, <2>1, <2>4, <2>7, SumExchange
  <2> QED
    BY <2>5, <2>8
<1> QED
  BY <1>2, <1>3, <1>6, SameTotals DEF Undisturbed

LEMMA TotalsStep == TInv /\ [Next]_vars => TInv'
<1> SUFFICES ASSUME TInv, [Next]_vars PROVE TInv'
  OBVIOUS
<1>1. EInv' /\ TypeOK'
  <2>1. EInv'
    BY EntriesStep DEF TInv
  <2> QED
    BY <2>1 DEF EInv, IInv
<1>2. ASSUME NEW w \in Workers,
             \/ \E i \in Invoices, h \in Heads \cup {NoHead} : Retrigger(w, i, h)
             \/ ReadPrimary(w) \/ ReadArchive(w) \/ Record(w) \/ Split(w)
             \/ Page(w) \/ Return(w) \/ Fail(w) \/ Save(w)
      PROVE  TotalsInv'
  <2>1. CASE Record(w)
    BY <1>1, <2>1, RecordTotals
  <2>2. CASE Split(w) /\ Overfull(ledger[Key(job[w])])
    BY <1>1, <2>2, SplitTotals
  <2>3. CASE Fail(w)
    BY <2>3, FaultTotals
  <2> QED
    BY <1>2, <2>1, <2>2, <2>3, QuietTotals
<1>3. ASSUME NEW k \in Keys, ArchiveTake(k) PROVE TotalsInv'
  BY <1>1, <1>3, ArchiveTakeTotals
<1>4. ASSUME NEW a \in archiving, ArchivePut(a) PROVE TotalsInv'
  BY <1>1, <1>4, ArchivePutTotals
<1>5. ASSUME NEW from \in Vendors, NEW to \in Vendors, Merge(from, to)
      PROVE  TotalsInv'
  BY <1>1, <1>5, MergeTotals
<1>6. ASSUME Crash PROVE TotalsInv'
  BY <1>6, FaultTotals
<1>7. ASSUME UNCHANGED vars PROVE TotalsInv'
  BY <1>7, SameTotals DEF vars, Undisturbed
<1>8. TotalsInv'
  BY <1>2, <1>3, <1>4, <1>5, <1>6, <1>7 DEF Next
<1> QED
  BY <1>1, <1>8 DEF TInv

LEMMA TotalsInvariant == Spec => []TInv
<1>1. Init => TInv
  BY InitIInv, InitEntries, InitTotals DEF TInv, EInv
<1> QED
  BY <1>1, TotalsStep, PTL DEF Spec

\* Whoever records, splits, archives and merges meanwhile: as long as no call
\* fails and nothing is archived twice, the amounts, taxes and counts of a
\* head's ledgers, archives and archivals under way are its recordings'.
THEOREM TotalsStay == Spec => []TotalsAreKept
<1>1. ASSUME TInv PROVE TotalsAreKept
  <2> SUFFICES ASSUME Undisturbed, NEW h \in Heads
               PROVE
      /\ Total(h, LAMBDA d : d.base)
           = SumOver(MadeFor(h), [n \in MadeFor(h) |-> recordings[n].base])
      /\ Total(h, LAMBDA d : d.tds)
           = SumOver(MadeFor(h), [n \in MadeFor(h) |-> recordings[n].tds])
      /\ Total(h, LAMBDA d : d.count) = Cardinality(MadeFor(h))
    BY DEF TotalsAreKept
  <2>1. \A f \in Figures : Balance(ledger, archive, archiving, recordings, f, h)
    BY <1>1 DEF TInv, TotalsInv, AllBalanced
  <2>2. MadeFor(h) = MadeIn(recordings, h)
    BY DEF MadeFor, MadeIn, Entry
  <2>3. Total(h, LAMBDA d : d.base)
          = OverVendors(ledger, "base", h) + OverVendors(archive, "base", h)
              + OverTaken(archiving, "base", h)
    BY DEF Total, OverVendors, OverTaken, OnTheWay, Figure
  <2>4. Total(h, LAMBDA d : d.tds)
          = OverVendors(ledger, "tds", h) + OverVendors(archive, "tds", h)
              + OverTaken(archiving, "tds", h)
    BY DEF Total, OverVendors, OverTaken, OnTheWay, Figure
  <2>5. Total(h, LAMBDA d : d.count)
          = OverVendors(ledger, "count", h) + OverVendors(archive, "count", h)
              + OverTaken(archiving, "count", h)
    BY DEF Total, OverVendors, OverTaken, OnTheWay, Figure
  <2>6. /\ OverMade(recordings, "base", h)
             = SumOver(MadeFor(h), [n \in MadeFor(h) |-> recordings[n].base])
        /\ OverMade(recordings, "tds", h)
             = SumOver(MadeFor(h), [n \in MadeFor(h) |-> recordings[n].tds])
    BY <2>2 DEF OverMade, Brought
  <2>7. OverMade(recordings, "count", h) = Cardinality(MadeFor(h))
    <3> DEFINE e == [n \in MadeFor(h) |-> Brought(recordings[n], "count")]
    <3>1. IsFiniteSet(MadeFor(h))
      <4>1. Len(recordings) \in Nat
        BY <1>1 DEF TInv, EInv, IInv, TypeOK
      <4>2. IsFiniteSet(Entry)
        BY <4>1, FS_Interval DEF Entry
      <4> QED
        BY <4>2, FS_Subset DEF MadeFor
    <3>2. \A n \in MadeFor(h) : e[n] = 1
      BY DEF Brought
    <3>3. OverMade(recordings, "count", h) = SumOver(MadeFor(h), e)
      BY <2>2 DEF OverMade
    <3> HIDE DEF e
    <3> QED
      BY <3>1, <3>2, <3>3, SumOfOnes
  <2> QED
    BY <2>1, <2>3, <2>4, <2>5, <2>6, <2>7 DEF Balance, Figures
<1> QED
  BY <1>1, TotalsInvariant, PTL

-----------------------------------------------------------------------------
(* One request at a time.                                                  *)

\* The server handles one request at a time.
OneWorker == \A v, w \in Workers : v = w

\* What the worker read is still what the ledger says.
FiguresFit(j, led) ==
  /\ j.phase = "archive" => ~Exists(led[Key(j)])
  /\ j.phase = "record" => j.base = led[Key(j)].base /\ j.tds = led[Key(j)].tds
Unarchived == merged = {} /\ used.archives = 0
NothingOverlaps ==
  Unarchived => unsettled = {} /\ \A w \in Workers : FiguresFit(job[w], ledger)
SerialInv == OneWorker /\ NothingOverlaps

\* Steps that leave the ledgers alone, by workers that do not come to have
\* read anything.
\* Steps after which no worker holds what it did not hold before.
LEMMA NothingRead ==
  ASSUME NothingOverlaps, Unarchived' => Unarchived,
         UNCHANGED <<ledger, unsettled>>,
         \A w \in Workers : \/ job'[w] = job[w]
                            \/ job'[w].phase \notin {"archive", "record"}
  PROVE  NothingOverlaps'
  BY DEF NothingOverlaps, FiguresFit

\* The worker is the only one, and goes on from what it was doing.
LEMMA TheWorkerGoesOn ==
  ASSUME TypeOK, OneWorker, NothingOverlaps, Unarchived' => Unarchived,
         NEW w \in Workers, Unarchived => unsettled' = {},
         Unarchived => FiguresFit(job'[w], ledger')
  PROVE  NothingOverlaps'
  BY DEF NothingOverlaps, OneWorker

LEMMA OverlapStep ==
  OneWorker /\ TInv /\ NothingOverlaps /\ [Next]_vars => NothingOverlaps'
<1> SUFFICES ASSUME OneWorker, TInv, NothingOverlaps, [Next]_vars
             PROVE  NothingOverlaps'
  OBVIOUS
<1> USE DEF At
<1>0. /\ IInv /\ TypeOK /\ JobsFit /\ BlanksAreEmpty
      /\ job \in [Workers -> Job] /\ ledger \in [Keys -> Ledger]
  BY DEF TInv, EInv, IInv, TypeOK
<1>1. ASSUME UNCHANGED merged,
             \/ Use("requests", MaxRequests) \/ Fault \/ UNCHANGED used
      PROVE  Unarchived' => Unarchived
  BY <1>0, <1>1, UseLeaves DEF Unarchived
<1>2. ASSUME NEW w \in Workers, ReadPrimary(w) PROVE NothingOverlaps'
  <2> DEFINE j == job[w]   k == Key(j)   doc == ledger[k]
  <2>1. j \in Job /\ job' = [job EXCEPT ![w] = job'[w]] /\ ledger' = ledger
    BY <1>0, <1>2 DEF ReadPrimary, Seen, Go
  <2>2. CASE Exists(doc)
    <3>1. /\ Key(job'[w]) = k /\ job'[w].base = doc.base
          /\ job'[w].tds = doc.tds /\ job'[w].phase \in {"record", "return"}
      BY <1>0, <1>2, <2>2 DEF ReadPrimary, Seen, Key, Job
    <3>2. FiguresFit(job'[w], ledger')
      BY <2>1, <3>1 DEF FiguresFit
    <3> QED
      BY <1>0, <1>1, <1>2, <3>2, TheWorkerGoesOn
         DEF ReadPrimary, NothingOverlaps
  <2>3. CASE ~Exists(doc)
    <3>1. Key(job'[w]) = k /\ job'[w].phase = "archive"
      BY <1>0, <1>2, <2>3 DEF ReadPrimary, Go, Key, Job
    <3>2. FiguresFit(job'[w], ledger')
      BY <2>1, <2>3, <3>1 DEF FiguresFit
    <3> QED
      BY <1>0, <1>1, <1>2, <3>2, TheWorkerGoesOn
         DEF ReadPrimary, NothingOverlaps
  <2> QED
    BY <2>2, <2>3
\* No archive is there, and what does not exist has no figures.
<1>3. ASSUME NEW w \in Workers, ReadArchive(w) PROVE NothingOverlaps'
  <2> DEFINE j == job[w]   k == Key(j)
  <2>1. Unarchived' => Unarchived
    BY <1>1, <1>3 DEF ReadArchive
  <2>2. ASSUME Unarchived PROVE FiguresFit(job'[w], ledger')
    <3>1. j \in Job /\ k \in Keys
      <4>1. j \in Job /\ j.head \in Heads
        BY <1>0, <1>3 DEF ReadArchive, JobsFit, JobFits, HeadFits
      <4> QED
        BY <4>1 DEF Keys, Key, Job
    <3>2. archive[k] = NoLedger
      BY <2>2, <3>1 DEF TInv, TotalsInv, ArchiveBlank, Unarchived
    <3>3. ~Exists(ledger[k]) /\ BlankIsEmpty(ledger[k])
      BY <1>0, <1>3, <2>2, <3>1
         DEF ReadArchive, NothingOverlaps, FiguresFit, BlanksAreEmpty
    <3>4. /\ Key(job'[w]) = k /\ job'[w].base = 0 /\ job'[w].tds = 0
          /\ job'[w].phase \in {"record", "return"} /\ ledger' = ledger
      BY <1>0, <1>3, <3>2 DEF ReadArchive, Seen, Key, Job, NoLedger
    <3> QED
      BY <3>3, <3>4 DEF FiguresFit, BlankIsEmpty
  <2> QED
    BY <1>0, <1>3, <2>1, <2>2, TheWorkerGoesOn
       DEF ReadArchive, NothingOverlaps
\* The figures it was computed on are the ledger's.
<1>4. ASSUME NEW w \in Workers, Record(w) PROVE NothingOverlaps'
  <2>1. Unarchived' => Unarchived
    BY <1>1, <1>4 DEF Record
  <2>2. Unarchived => unsettled' = {}
    BY <1>4 DEF Record, NothingOverlaps, FiguresFit
  <2>3. FiguresFit(job'[w], ledger')
    <3>1. job'[w].phase \in {"split", "return"}
      BY <1>0, <1>4 DEF Record, Go
    <3> QED
      BY <3>1 DEF FiguresFit
  <2> QED
    BY <1>0, <2>1, <2>2, <2>3, TheWorkerGoesOn
<1>5. ASSUME NEW w \in Workers, Split(w) PROVE NothingOverlaps'
  <2>1. Unarchived' => Unarchived
    BY <1>1, <1>5 DEF Split
  <2>2. FiguresFit(job'[w], ledger')
    <3>1. job'[w].phase \in {"page", "return"}
      BY <1>0, <1>5 DEF Split, Go, Job
    <3> QED
      BY <3>1 DEF FiguresFit
  <2> QED
    BY <1>0, <1>5, <2>1, <2>2, TheWorkerGoesOn DEF Split, NothingOverlaps
<1>6. ASSUME NEW w \in Workers,
             \/ \E i \in Invoices, h \in Heads \cup {NoHead} : Retrigger(w, i, h)
             \/ Page(w) \/ Return(w) \/ Fail(w) \/ Save(w)
      PROVE  NothingOverlaps'
  <2>1. Unarchived' => Unarchived
    BY <1>1, <1>6 DEF Retrigger, Page, Return, Fail, Save
  <2>2. \A v \in Workers : \/ job'[v] = job[v]
                           \/ job'[v].phase \notin {"archive", "record"}
    <3>1. CASE \E i \in Invoices, h \in Heads \cup {NoHead} : Retrigger(w, i, h)
      BY <1>0, <3>1 DEF Retrigger, Idle
    <3>2. CASE Page(w) \/ Return(w) \/ Fail(w)
      BY <1>0, <3>2 DEF Page, Return, Fail, Job
    <3>3. CASE Save(w)
      BY <1>0, <3>3 DEF Save, Idle
    <3> QED
      BY <1>6, <3>1, <3>2, <3>3
  <2>3. UNCHANGED <<ledger, unsettled>>
    BY <1>6 DEF Retrigger, Page, Return, Fail, Save
  <2> QED
    BY <2>1, <2>2, <2>3, NothingRead
<1>7. ASSUME NEW k \in Keys, ArchiveTake(k) PROVE NothingOverlaps'
  <2>1. used'.archives = used.archives + 1
    BY <1>0, <1>7, UseLeaves DEF ArchiveTake
  <2>2. used.archives \in Nat
    BY <1>0, LimitsAssumption DEF TypeOK
  <2>3. ~Unarchived'
    BY <2>1, <2>2 DEF Unarchived
  <2> QED
    BY <2>3 DEF NothingOverlaps
<1>8. ASSUME NEW a \in archiving, ArchivePut(a) PROVE NothingOverlaps'
  BY <1>1, <1>8, NothingRead DEF ArchivePut
<1>9. ASSUME NEW from \in Vendors, NEW to \in Vendors, Merge(from, to)
      PROVE  NothingOverlaps'
  BY <1>9 DEF Merge, NothingOverlaps, Unarchived
<1>10. ASSUME Crash PROVE NothingOverlaps'
  <2>1. \A v \in Workers : job'[v].phase \notin {"archive", "record"}
    BY <1>10 DEF Crash, Idle
  <2>2. Unarchived' => Unarchived
    BY <1>1, <1>10 DEF Crash
  <2> QED
    BY <1>10, <2>1, <2>2, NothingRead DEF Crash
<1>11. ASSUME UNCHANGED vars PROVE NothingOverlaps'
  BY <1>1, <1>11, NothingRead DEF vars
<1> QED
  BY <1>2, <1>3, <1>4, <1>5, <1>6, <1>7, <1>8, <1>9, <1>10, <1>11 DEF Next

\* What FR-TDS-008 asks of invoices processed concurrently holds of a server
\* that handles them one after the other, until a year is archived: the taxes
\* recorded for a vendor add up to what is due on its total.
THEOREM OneAtATimeTaxIsDue ==
  OneWorker /\ Spec => [](used.archives = 0 => ConcurrentTaxIsDue)
<1>1. OneWorker /\ Init => SerialInv
  BY DEF Init, Idle, SerialInv, NothingOverlaps, FiguresFit
<1>2. SerialInv /\ SettledTaxIsDue
        => (used.archives = 0 => ConcurrentTaxIsDue)
  BY DEF SerialInv, NothingOverlaps, Unarchived, SettledTaxIsDue, ConcurrentTaxIsDue
<1>3. SerialInv /\ TInv /\ [Next]_vars => SerialInv'
  BY OverlapStep DEF SerialInv, OneWorker
<1> QED
  BY <1>1, <1>2, <1>3, TotalsInvariant, SettledIsDue, PTL DEF Spec

=============================================================================
