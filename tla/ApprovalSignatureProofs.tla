----------------------- MODULE ApprovalSignatureProofs -----------------------
(***************************************************************************)
(* Who has approved what. Any number of approvals and rejections may be in *)
(* progress at once, and their saves may overtake each other: still, a     *)
(* workflow approves an invoice only when every step that applies was      *)
(* approved by someone entitled to it, as long as the invoices are         *)
(* submitted once and neither edited nor given another workflow.           *)
(*                                                                         *)
(* And with requests served one at a time, of every kind, while workflows  *)
(* keep their steps (they may be switched off and on): the same, and a     *)
(* step of rule "all" is passed with the last of the approvals it          *)
(* requires, not earlier and not later.                                    *)
(***************************************************************************)
EXTENDS ApprovalSerialProofs

Undisturbed == /\ Editors = {} /\ Configurers = {}
               /\ \A s, t \in Submitters : s = t

-----------------------------------------------------------------------------
(* The invariant.                                                          *)

\* Step m of plan p was approved by someone entitled to it.
Properly(p, d, m) ==
  \E u \in Signers(d, m) : CanApprove(u, p[m]) /\ d.fields \in Limit[u]

\* Every step of plan p before the document's current one was, if it applies.
Vouched(p, d) ==
  \A m \in DOMAIN p :
    m < d.step /\ Applies(p[m], d.fields) => Properly(p, d, m)

\* ... of the document's workflow. The configurations are a parameter.
PassedSteps(c, d) == d.by \in Orgs => Vouched(c[d.by].steps, d)

\* Of the document d before, e has the contents, the workflow and the results.
Follows(d, e) ==
  e.by = d.by /\ e.fields = d.fields /\ d.results \subseteq e.results
Grown(d, e) == Follows(d, e) /\ (e.flow = "none" => d.flow = "none")
                             /\ (d.flow = "none" => e.flow = "none")

\* What a request has read may be old, but is a part of what there is.
Informed(r) ==
  LET d == doc[job[r].invoice] IN
  /\ pc[r] \notin {"open", "save", "configure", "revert"}
  /\ pc[r] \in {"enter", "start"} => job[r].plan = config[job[r].org].steps
  /\ pc[r] = "start" => job[r].doc.fields = d.fields
  /\ pc[r] \in {"judge", "sign", "reject"} =>
       /\ d.flow # "none" /\ Follows(job[r].doc, d)
       /\ PassedSteps(config, job[r].doc)
  /\ pc[r] = "sign" =>
       /\ job[r].doc.by \in Orgs
       /\ job[r].plan = config[job[r].doc.by].steps
       /\ MayDecide(r, job[r].plan)

BeforeStart == {"idle", "check", "direct", "read", "find", "enter", "start"}

SignInv ==
  /\ IInv
  /\ Undisturbed
  /\ \A s \in Submitters : pc[s] \in BeforeStart =>
       \A i \in Invoices : doc[i].flow = "none"
  /\ \A r \in Requests : Informed(r)
  /\ \A i \in Invoices : PassedSteps(config, doc[i])

-----------------------------------------------------------------------------
(* Steps other than the start of a workflow.                               *)

LEMMA GrowthKeepsSteps ==
  ASSUME NEW d, NEW e, Follows(d, e), e.step = d.step, PassedSteps(config, d)
  PROVE  PassedSteps(config, e)
  BY DEF Follows, PassedSteps, Vouched, Properly, Signers

\* The documents are as they were, or have more results.
DocsGrow ==
  \A i \in Invoices :
    Grown(doc[i], doc'[i]) /\ PassedSteps(config, doc'[i])

LEMMA NothingGrows ==
  ASSUME SignInv, UNCHANGED doc
  PROVE  DocsGrow
  BY DEF SignInv, DocsGrow, Grown, Follows

LEMMA OneGrows ==
  ASSUME SignInv, NEW i \in Invoices, NEW d,
         doc' = [doc EXCEPT ![i] = d] \/ Write(i, d),
         Grown(doc[i], d), PassedSteps(config, d)
  PROVE  DocsGrow
<1>1. TypeOK /\ \A k \in Invoices : PassedSteps(config, doc[k])
  BY DEF SignInv, IInv
<1> SUFFICES ASSUME NEW k \in Invoices
             PROVE  Grown(doc[k], doc'[k]) /\ PassedSteps(config, doc'[k])
  BY DEF DocsGrow
<1>2. doc'[k] = doc[k] \/ (k = i /\ doc'[k] = d)
  BY <1>1 DEF Write, TypeOK
<1> QED
  BY <1>1, <1>2 DEF Grown, Follows

\* A step of request r.
OnlyMoves(r) == \A q \in Requests \ {r} : pc'[q] = pc[q] /\ job'[q] = job[q]
SignStep(r) ==
  /\ UNCHANGED config /\ DocsGrow /\ OnlyMoves(r) /\ Informed(r)'
  /\ pc'[r] \in BeforeStart => pc[r] \in BeforeStart

LEMMA OnlyMovesBy ==
  ASSUME TypeOK, NEW r \in Requests, NEW phase, Goto(r, phase),
         UNCHANGED job \/ \E j : Learn(r, j)
  PROVE  OnlyMoves(r) /\ pc'[r] = phase
  BY DEF TypeOK, Goto, Learn, OnlyMoves

\* Phases of which Informed says nothing.
Silent == {"idle", "check", "direct", "read", "find", "load", "fetch", "mark",
           "delete", "done"}

LEMMA SilentStep ==
  ASSUME SignInv, NEW r \in Requests, NEW phase \in Silent, Goto(r, phase),
         UNCHANGED job \/ \E j : Learn(r, j),
         UNCHANGED config, DocsGrow,
         phase \in BeforeStart => pc[r] \in BeforeStart
  PROVE  SignStep(r)
<1>1. OnlyMoves(r) /\ pc'[r] = phase
  BY OnlyMovesBy DEF SignInv, IInv
<1>2. Informed(r)'
  BY <1>1 DEF Informed, Silent
<1> QED
  BY <1>1, <1>2 DEF SignStep

LEMMA FinishStep ==
  ASSUME SignInv, NEW r \in Requests, Finish(r), UNCHANGED config, DocsGrow
  PROVE  SignStep(r)
<1>1. "done" \in Silent /\ "done" \notin BeforeStart
  BY DEF Silent, BeforeStart
<1>2. Goto(r, "done") /\ \E j : Learn(r, j)
  BY DEF Finish
<1> QED
  BY <1>1, <1>2, SilentStep

\* What a step of r leaves of what another request knows.
LEMMA OthersStayInformed ==
  ASSUME TypeOK, NEW q \in Requests, Informed(q),
         pc'[q] = pc[q], job'[q] = job[q], UNCHANGED config, DocsGrow
  PROVE  Informed(q)'
<1>1. CASE pc[q] \in {"idle", "done"}
  BY <1>1 DEF Informed
<1>2. CASE pc[q] \notin {"idle", "done"}
  <2>1. job[q].invoice \in Invoices
    BY <1>2, JobType
  <2> DEFINE i == job[q].invoice
  <2>2. Grown(doc[i], doc'[i])
    BY <2>1 DEF DocsGrow
  <2>3. MayDecide(q, job[q].plan) => MayDecide(q, job[q].plan)'
    BY DEF MayDecide
  <2>4. ASSUME Follows(job[q].doc, doc[i])
        PROVE  Follows(job[q].doc, doc'[i])
    BY <2>2, <2>4 DEF Grown, Follows
  <2> QED
    BY <2>2, <2>3, <2>4 DEF Informed, Grown, Follows
<1> QED
  BY <1>1, <1>2

LEMMA SignStepPreserves ==
  ASSUME SignInv, IInv', NEW r \in Requests, SignStep(r)
  PROVE  SignInv'
<1>1. ASSUME NEW q \in Requests
      PROVE  Informed(q)'
  <2>1. CASE q = r
    BY <2>1 DEF SignStep
  <2>2. CASE q # r
    BY <2>2, OthersStayInformed DEF SignStep, SignInv, IInv, OnlyMoves
  <2> QED
    BY <2>1, <2>2
<1>2. ASSUME NEW s \in Submitters, pc'[s] \in BeforeStart, NEW i \in Invoices
      PROVE  doc'[i].flow = "none"
  <2>1. s \in Requests
    BY DEF Requests, Approvers
  <2>2. pc[s] \in BeforeStart
    BY <1>2, <2>1 DEF SignStep, OnlyMoves
  <2>3. doc[i].flow = "none"
    BY <2>2 DEF SignInv
  <2> QED
    BY <2>3 DEF SignStep, DocsGrow, Grown
<1>3. \A i \in Invoices : PassedSteps(config', doc'[i])
  BY DEF SignStep, DocsGrow
<1> QED
  BY <1>1, <1>2, <1>3 DEF SignInv, Undisturbed

-----------------------------------------------------------------------------
(* The actions.                                                            *)

LEMMA ArriveSigns ==
  ASSUME SignInv, NEW r \in Requests, Arrive(r)
  PROVE  SignStep(r)
<1>1. Goto(r, FirstPhase(r)) /\ UNCHANGED <<config, doc>> /\ \E j : Learn(r, j)
  BY DEF Arrive
<1>2. FirstPhase(r) \in Silent
  BY DEF FirstPhase, Silent, Requests, Approvers, SignInv, Undisturbed
<1>3. pc[r] \in BeforeStart
  BY DEF Arrive, At, BeforeStart
<1> QED
  BY <1>1, <1>2, <1>3, SilentStep, NothingGrows

\* A write that leaves the workflow and the results alone.
LEMMA StatusGrows ==
  ASSUME SignInv, NEW i \in Invoices, NEW d,
         doc' = [doc EXCEPT ![i] = d] \/ Write(i, d),
         d.flow = doc[i].flow, d.by = doc[i].by, d.step = doc[i].step,
         d.fields = doc[i].fields, d.results = doc[i].results
  PROVE  DocsGrow
<1>1. PassedSteps(config, doc[i])
  BY DEF SignInv
<1>2. Grown(doc[i], d)
  BY DEF Grown, Follows
<1>3. PassedSteps(config, d)
  BY <1>1, <1>2, GrowthKeepsSteps DEF Grown
<1> QED
  BY <1>2, <1>3, OneGrows

LEMMA SubmissionSigns ==
  ASSUME SignInv, NEW r \in Requests, Submission(r), ~Start(r)
  PROVE  SignStep(r)
<1> DEFINE i == job[r].invoice
<1>1. TypeOK /\ Phased /\ Informed(r)
  BY DEF SignInv, IInv
<1>2. pc[r] \notin {"idle", "done"} /\ pc[r] \in BeforeStart
  BY DEF Submission, CheckEnabled, ApproveDirectly, ReadStatus, FindWorkflow,
         LoadForEntry, At, BeforeStart
<1>3. i \in Invoices /\ doc[i] \in Docs /\ job[r] \in Jobs
  BY <1>1, <1>2, JobType
<1>4. UNCHANGED config
  BY DEF Submission, CheckEnabled, ApproveDirectly, ReadStatus, FindWorkflow,
         LoadForEntry
<1>5. ASSUME UNCHANGED doc, NEW phase \in Silent, Goto(r, phase),
             UNCHANGED job \/ \E j : Learn(r, j)
      PROVE  SignStep(r)
  BY <1>2, <1>4, <1>5, SilentStep, NothingGrows
<1>6. {"read", "direct", "find", "load"} \subseteq Silent
  BY DEF Silent
<1>7. CASE CheckEnabled(r)
  <2>1. UNCHANGED <<doc, job>> /\ \E phase \in {"read", "direct"} : Goto(r, phase)
    BY <1>7 DEF CheckEnabled
  <2> QED
    BY <1>5, <1>6, <2>1
<1>8. CASE ApproveDirectly(r)
  <2> DEFINE d == [doc[i] EXCEPT !.status = IF @ \in Open THEN "APPROVED" ELSE @]
  <2>1. doc' = [doc EXCEPT ![i] = d] /\ Finish(r)
    BY <1>8 DEF ApproveDirectly
  <2>2. /\ d.flow = doc[i].flow /\ d.by = doc[i].by /\ d.step = doc[i].step
        /\ d.fields = doc[i].fields /\ d.results = doc[i].results
    BY <1>3 DEF Docs
  <2> HIDE DEF d, i
  <2>3. DocsGrow
    BY <1>3, <2>1, <2>2, StatusGrows
  <2> QED
    BY <1>4, <2>1, <2>3, FinishStep
<1>9. CASE ReadStatus(r)
  <2>1. UNCHANGED doc
    BY <1>9 DEF ReadStatus
  <2>2. \/ Finish(r)
        \/ UNCHANGED job /\ \E phase \in {"find", "load"} : Goto(r, phase)
    BY <1>9 DEF ReadStatus
  <2> QED
    BY <1>4, <1>5, <1>6, <2>1, <2>2, FinishStep, NothingGrows
<1>10. CASE FindWorkflow(r)
  <2>1. UNCHANGED doc
    BY <1>10 DEF FindWorkflow
  <2>2. ASSUME NEW o \in Orgs,
               Learn(r, [job[r] EXCEPT !.org = o, !.plan = config[o].steps]),
               Goto(r, "enter")
        PROVE  SignStep(r)
    <3>1. OnlyMoves(r) /\ pc'[r] = "enter"
      BY <1>1, <2>2, OnlyMovesBy
    <3>2. job'[r].org = o /\ job'[r].plan = config[o].steps
      BY <1>1, <1>3, <2>2 DEF Learn, TypeOK, Jobs
    <3>3. Informed(r)'
      BY <1>4, <3>1, <3>2 DEF Informed
    <3> QED
      BY <1>2, <1>4, <2>1, <3>1, <3>3, NothingGrows DEF SignStep
  <2>3. \/ Goto(r, "direct") /\ (UNCHANGED job \/ \E j : Learn(r, j))
        \/ \E o \in Orgs :
              /\ Learn(r, [job[r] EXCEPT !.org = o, !.plan = config[o].steps])
              /\ Goto(r, "enter")
    BY <1>10 DEF FindWorkflow
  <2> QED
    BY <1>5, <1>6, <2>1, <2>2, <2>3
<1>11. CASE LoadForEntry(r)
  <2>1. UNCHANGED doc /\ pc[r] = "enter"
    BY <1>11 DEF LoadForEntry, At
  <2>2. ASSUME Goto(r, "start"), Learn(r, [job[r] EXCEPT !.doc = doc[i]])
        PROVE  SignStep(r)
    <3>1. OnlyMoves(r) /\ pc'[r] = "start"
      BY <1>1, <2>2, OnlyMovesBy
    <3>2. /\ job'[r].org = job[r].org /\ job'[r].plan = job[r].plan
          /\ job'[r].doc = doc[i] /\ job'[r].invoice = i
      BY <1>1, <1>3, <2>2 DEF Learn, TypeOK, Jobs
    <3>3. Informed(r)'
      BY <1>1, <1>4, <2>1, <3>1, <3>2 DEF Informed
    <3> QED
      BY <1>2, <1>4, <2>1, <3>1, <3>3, NothingGrows DEF SignStep
  <2>3. \/ Goto(r, "direct") /\ UNCHANGED job
        \/ Goto(r, "start") /\ Learn(r, [job[r] EXCEPT !.doc = doc[i]])
    BY <1>11 DEF LoadForEntry
  <2> QED
    BY <1>5, <1>6, <2>1, <2>2, <2>3
<1> QED
  BY <1>7, <1>8, <1>9, <1>10, <1>11 DEF Submission

\* The start of the one workflow there is.
LEMMA StartPreserves ==
  ASSUME SignInv, IInv', NEW r \in Requests, Start(r)
  PROVE  SignInv'
<1> DEFINE i == job[r].invoice
           f == job[r].doc.fields
           skip == ~Applies(job[r].plan[1], f)
           R == IF skip THEN {[req |-> r, step |-> 1, user |-> NoUser,
                               action |-> "skipped", seen |-> f]} ELSE {}
           n == IF skip THEN 2 ELSE 1
           d == [doc[i] EXCEPT
                   !.status = "AWAITING_APPROVAL", !.flow = "in_progress",
                   !.by = job[r].org, !.step = n, !.results = R,
                   !.ver = @ + 1]
<1>1. TypeOK /\ Phased /\ Informed(r) /\ Undisturbed
  BY DEF SignInv, IInv
<1>2. pc[r] = "start" /\ UNCHANGED config
  BY DEF Start, At
<1>3. i \in Invoices /\ doc[i] \in Docs /\ job[r] \in Jobs
  BY <1>1, <1>2, JobType
<1>4. r \in Submitters /\ job[r].org \in Orgs
  BY <1>1, <1>2 DEF Phased
<1>5. \A k \in Invoices : doc[k].flow = "none"
  BY <1>2, <1>4 DEF SignInv, BeforeStart
<1>6. PICK phase \in {"load", "done"} : Goto(r, phase)
  BY DEF Start, Finish
<1>7. UNCHANGED job \/ \E j : Learn(r, j)
  BY DEF Start, Finish
<1>8. OnlyMoves(r) /\ pc'[r] \in {"load", "done"}
  BY <1>1, <1>6, <1>7, OnlyMovesBy
<1>9. ASSUME NEW q \in Requests
      PROVE  Informed(q)'
  <2>1. CASE q = r
    BY <1>8, <2>1 DEF Informed
  <2>2. CASE q # r
    <3>1. Informed(q)
      BY DEF SignInv
    <3>2. pc[q] \notin {"enter", "start"}
      BY <1>1, <1>4, <2>2 DEF Phased, Undisturbed
    <3>3. pc[q] \notin {"judge", "sign", "reject"}
      <4>1. pc[q] \notin {"idle", "done"} => job[q].invoice \in Invoices
        BY <1>1, JobType
      <4> QED
        BY <1>5, <3>1, <4>1 DEF Informed
    <3> QED
      BY <1>8, <2>2, <3>1, <3>2, <3>3 DEF Informed, OnlyMoves
  <2> QED
    BY <2>1, <2>2
<1>10. \A s \in Submitters : pc'[s] \notin BeforeStart
  BY <1>1, <1>4, <1>8 DEF Undisturbed, BeforeStart
<1>11. Write(i, d)
  BY DEF Start
<1>12. PassedSteps(config, d)
  <2>1. d.by = job[r].org /\ d.step = n /\ d.fields = doc[i].fields
    BY <1>3 DEF Docs
  <2>2. job[r].plan = config[job[r].org].steps /\ f = doc[i].fields
    BY <1>1, <1>2 DEF Informed
  <2>3. config[job[r].org].steps \in Plans
    BY <1>1, <1>4 DEF TypeOK, Plans
  <2>4. DOMAIN config[job[r].org].steps \subseteq Nat \ {0}
    BY <2>3, OrdersArePositive
  <2> HIDE DEF d, i, f
  <2>5. \A m \in DOMAIN config[job[r].org].steps :
          m < n => m = 1 /\ ~Applies(config[job[r].org].steps[m], f)
    BY <2>2, <2>4
  <2> QED
    BY <2>1, <2>2, <2>5 DEF PassedSteps, Vouched
<1> HIDE DEF d, i
<1>13. \A k \in Invoices : PassedSteps(config', doc'[k])
  <2>1. \A k \in Invoices : doc'[k] = doc[k] \/ doc'[k] = d
    BY <1>1, <1>3, <1>11 DEF Write, TypeOK
  <2> QED
    BY <1>2, <1>12, <2>1 DEF SignInv
<1> QED
  BY <1>9, <1>10, <1>13 DEF SignInv, Undisturbed

\* When a request passes a step, the steps that apply and are not ahead of it
\* were approved: those before it as the invariant says, and the step itself
\* by the request's own result.
LEMMA SignedSoFar ==
  ASSUME NEW r \in Approvers, job[r].doc \in Docs, job[r].plan \in Plans,
         MayDecide(r, job[r].plan), Vouched(job[r].plan, job[r].doc),
         NEW e, e.fields = job[r].doc.fields,
         job[r].doc.results \subseteq e.results,
         Mark(r, "approved") \in e.results,
         NEW m \in DOMAIN job[r].plan, Applies(job[r].plan[m], e.fields),
         m \notin Ahead(job[r].plan, job[r].doc.step, e.fields)
  PROVE  Properly(job[r].plan, e, m)
<1> DEFINE d == job[r].doc
           p == job[r].plan
<1>1. d.step \in Nat /\ m \in Nat
  BY OrdersArePositive DEF Docs
<1>2. m <= d.step
  BY <1>1 DEF Ahead
<1>3. CASE m < d.step
  <2>1. Properly(p, d, m)
    BY <1>3 DEF Vouched
  <2> QED
    BY <2>1 DEF Properly, Signers
<1>4. CASE m = d.step
  <2>1. job[r].user \in Signers(e, m)
    <3> DEFINE x == Mark(r, "approved")
    <3>1. x.step = m /\ x.action = "approved" /\ x.user = job[r].user
      BY <1>4 DEF Mark
    <3> HIDE DEF x
    <3>2. x \in {y \in e.results : y.step = m /\ y.action = "approved"}
      BY <3>1 DEF x
    <3> QED
      BY <3>1, <3>2 DEF Signers
  <2>2. CanApprove(job[r].user, p[m]) /\ d.fields \in Limit[job[r].user]
    BY <1>4 DEF MayDecide
  <2> QED
    BY <2>1, <2>2 DEF Properly
<1> QED
  BY <1>1, <1>2, <1>3, <1>4

\* What a request that signs knows.
LEMMA SignerIsInformed ==
  ASSUME SignInv, NEW r \in Requests, pc[r] = "sign"
  PROVE  /\ r \in Approvers
         /\ job[r].doc \in Docs /\ job[r].plan \in Plans
         /\ MayDecide(r, job[r].plan) /\ Vouched(job[r].plan, job[r].doc)
<1>1. TypeOK /\ Phased /\ Informed(r)
  BY DEF SignInv, IInv
<1> QED
  BY <1>1, JobType DEF Phased, Informed, PassedSteps

\* What a save of an approver or rejecter writes.
LEMMA SavedGrows ==
  ASSUME SignInv, NEW r \in Requests, pc[r] \in {"sign", "reject"},
         NEW d, NEW more,
         d.by = doc[job[r].invoice].by, d.fields = doc[job[r].invoice].fields,
         d.results = doc[job[r].invoice].results \cup more,
         d.flow # "none"
  PROVE  Grown(doc[job[r].invoice], d) /\ Follows(job[r].doc, d)
<1>1. Informed(r)
  BY DEF SignInv
<1> QED
  BY <1>1 DEF Informed, Grown, Follows

LEMMA DecisionSigns ==
  ASSUME SignInv, NEW r \in Requests, Decision(r)
  PROVE  SignStep(r)
<1> DEFINE i == job[r].invoice
<1>1. TypeOK /\ Phased /\ Informed(r) /\ \A k \in Invoices : PassedSteps(config, doc[k])
  BY DEF SignInv, IInv
<1>2. pc[r] \notin {"idle", "done"} /\ UNCHANGED config
  BY DEF Decision, LoadForDecision, Judge, SignPartly, SignOn, SignLast,
         Reject, At
<1>3. i \in Invoices /\ doc[i] \in Docs /\ job[r] \in Jobs
  BY <1>1, <1>2, JobType
<1>4. CASE LoadForDecision(r)
  <2>1. UNCHANGED doc
    BY <1>4 DEF LoadForDecision
  <2>2. CASE Finish(r)
    BY <1>2, <2>1, <2>2, FinishStep, NothingGrows
  <2>3. ASSUME Goto(r, "judge"), Learn(r, [job[r] EXCEPT !.doc = doc[i]]),
               doc[i].flow = "in_progress"
        PROVE  SignStep(r)
    <3>1. OnlyMoves(r) /\ pc'[r] = "judge"
      BY <1>1, <2>3, OnlyMovesBy
    <3>2. job'[r].doc = doc[i] /\ job'[r].invoice = i
      BY <1>1, <1>3, <2>3 DEF Learn, TypeOK, Jobs
    <3>3. Follows(doc[i], doc[i]) /\ PassedSteps(config, doc[i])
      BY <1>1, <1>3 DEF Follows
    <3>4. Informed(r)'
      BY <1>2, <2>1, <2>3, <3>1, <3>2, <3>3 DEF Informed
    <3>5. pc'[r] \notin BeforeStart
      BY <3>1 DEF BeforeStart
    <3> QED
      BY <1>2, <2>1, <3>1, <3>4, <3>5, NothingGrows DEF SignStep
  <2> QED
    BY <1>4, <2>2, <2>3 DEF LoadForDecision
<1>5. CASE Judge(r)
  <2> DEFINE o == job[r].doc.by
             p == IF o \in Orgs THEN config[o].steps ELSE NoPlan
             phase == IF r \in Rejecters THEN "reject" ELSE "sign"
  <2>1. UNCHANGED doc /\ pc[r] = "judge"
    BY <1>5 DEF Judge, At
  <2>2. CASE Finish(r)
    BY <1>2, <2>1, <2>2, FinishStep, NothingGrows
  <2>3. ASSUME MayDecide(r, p), Goto(r, phase),
               Learn(r, [job[r] EXCEPT !.plan = p])
        PROVE  SignStep(r)
    <3>1. OnlyMoves(r) /\ pc'[r] = phase
      BY <1>1, <2>3, OnlyMovesBy
    <3>2. /\ job'[r].plan = p /\ job'[r].doc = job[r].doc
          /\ job'[r].user = job[r].user /\ job'[r].invoice = i
      BY <1>1, <1>3, <2>3 DEF Learn, TypeOK, Jobs
    <3>3. o \in Orgs
      BY <2>3 DEF MayDecide, NoPlan
    <3>4. MayDecide(r, job[r].plan)'
      BY <2>3, <3>2 DEF MayDecide
    <3>5. /\ doc[i].flow # "none" /\ Follows(job[r].doc, doc[i])
          /\ PassedSteps(config, job[r].doc)
      BY <1>1, <2>1 DEF Informed
    <3>6. phase \in {"reject", "sign"}
      OBVIOUS
    <3>7. p = config[o].steps
      BY <3>3
    <3> HIDE DEF p, o, phase
    <3>8. Informed(r)'
      BY <1>2, <2>1, <3>1, <3>2, <3>3, <3>4, <3>5, <3>6, <3>7 DEF Informed, o
    <3>9. pc'[r] \notin BeforeStart
      BY <3>1, <3>6 DEF BeforeStart
    <3> QED
      BY <1>2, <2>1, <3>1, <3>8, <3>9, NothingGrows DEF SignStep
  <2> QED
    BY <1>5, <2>2, <2>3 DEF Judge
<1>6. CASE SignPartly(r)
  <2> DEFINE d == [doc[i] EXCEPT !.results = @ \cup {Mark(r, "approved")},
                                 !.ver = @ + 1]
  <2>1. Write(i, d) /\ Finish(r) /\ pc[r] = "sign"
    BY <1>6 DEF SignPartly, At
  <2>2. /\ d.by = doc[i].by /\ d.fields = doc[i].fields
        /\ d.results = doc[i].results \cup {Mark(r, "approved")}
        /\ d.flow = doc[i].flow /\ d.step = doc[i].step
    BY <1>3 DEF Docs
  <2>3. d.flow # "none"
    BY <1>1, <2>1, <2>2 DEF Informed
  <2> HIDE DEF d
  <2>4. Grown(doc[i], d)
    BY <2>1, <2>2, <2>3, SavedGrows
  <2>5. PassedSteps(config, d)
    BY <1>1, <1>3, <2>2, <2>4, GrowthKeepsSteps DEF Grown
  <2> QED
    BY <1>2, <1>3, <2>1, <2>4, <2>5, OneGrows, FinishStep
<1>7. CASE Reject(r)
  <2> DEFINE d == [doc[i] EXCEPT !.results = @ \cup {Mark(r, "rejected")},
                                 !.status = "NEEDS_REVIEW",
                                 !.flow = "rejected", !.ver = @ + 1]
  <2>1. Write(i, d) /\ Finish(r) /\ pc[r] = "reject"
    BY <1>7 DEF Reject, At
  <2>2. /\ d.by = doc[i].by /\ d.fields = doc[i].fields
        /\ d.results = doc[i].results \cup {Mark(r, "rejected")}
        /\ d.flow = "rejected" /\ d.step = doc[i].step
    BY <1>3 DEF Docs
  <2> HIDE DEF d
  <2>4. Grown(doc[i], d)
    BY <2>1, <2>2, SavedGrows
  <2>5. PassedSteps(config, d)
    BY <1>1, <1>3, <2>2, <2>4, GrowthKeepsSteps DEF Grown
  <2> QED
    BY <1>2, <1>3, <2>1, <2>4, <2>5, OneGrows, FinishStep
<1>8. CASE SignOn(r)
  <2> DEFINE A == Ahead(job[r].plan, job[r].doc.step, job[r].doc.fields)
  <2>1. PICK n \in A :
          /\ IsNext(n, A)
          /\ Write(i, [doc[i] EXCEPT !.results = @ \cup Appended(r),
                                     !.step = n, !.ver = @ + 1])
    BY <1>8 DEF SignOn
  <2> DEFINE d == [doc[i] EXCEPT !.results = @ \cup Appended(r),
                                 !.step = n, !.ver = @ + 1]
  <2>2. Write(i, d) /\ Finish(r) /\ pc[r] = "sign"
    BY <1>8, <2>1 DEF SignOn, At
  <2>3. /\ d.by = doc[i].by /\ d.fields = doc[i].fields
        /\ d.results = doc[i].results \cup Appended(r)
        /\ d.flow = doc[i].flow /\ d.step = n
    BY <1>3 DEF Docs
  <2>4. d.flow # "none"
    BY <1>1, <2>2, <2>3 DEF Informed
  <2> HIDE DEF d
  <2>5. Grown(doc[i], d) /\ Follows(job[r].doc, d)
    BY <2>2, <2>3, <2>4, SavedGrows
  <2>6. PassedSteps(config, d)
    <3>1. /\ job[r].plan = config[d.by].steps /\ d.fields = job[r].doc.fields
      BY <1>1, <2>2, <2>5 DEF Informed, Follows
    <3>2. Mark(r, "approved") \in d.results
      BY <2>3 DEF Appended
    <3>3. job[r].plan \in Plans
      BY <1>1, <1>2, JobType
    <3>4. n \in Nat /\ DOMAIN job[r].plan \subseteq Nat
      BY <3>3, OrdersArePositive DEF Ahead
    <3>5. ASSUME NEW m \in DOMAIN job[r].plan, m < d.step,
                 Applies(job[r].plan[m], d.fields)
          PROVE  Properly(job[r].plan, d, m)
      <4>1. m \notin A
        BY <2>1, <2>3, <3>4, <3>5 DEF IsNext
      <4>2. m \notin Ahead(job[r].plan, job[r].doc.step, d.fields)
        BY <3>1, <4>1
      <4> QED
        BY <2>2, <2>5, <3>2, <3>5, <4>2, SignerIsInformed, SignedSoFar
           DEF Follows
    <3> QED
      BY <3>1, <3>5 DEF PassedSteps, Vouched
  <2> QED
    BY <1>2, <1>3, <2>2, <2>5, <2>6, OneGrows, FinishStep
<1>9. CASE SignLast(r)
  <2> DEFINE d == [doc[i] EXCEPT !.results = @ \cup Appended(r),
                                 !.status = "APPROVED", !.flow = "approved",
                                 !.step = 0, !.ver = @ + 1]
  <2>1. Write(i, d) /\ Finish(r) /\ pc[r] = "sign"
    BY <1>9 DEF SignLast, At
  <2>2. /\ d.by = doc[i].by /\ d.fields = doc[i].fields
        /\ d.results = doc[i].results \cup Appended(r)
        /\ d.flow = "approved" /\ d.step = 0
    BY <1>3 DEF Docs
  <2> HIDE DEF d
  <2>3. Grown(doc[i], d)
    BY <2>1, <2>2, SavedGrows
  <2>4. PassedSteps(config, d)
    <3>1. d.by \in Orgs => config[d.by].steps \in Plans
      BY <1>1 DEF TypeOK, Plans
    <3>2. \A m \in Nat \ {0} : ~(m < d.step)
      BY <2>2
    <3> QED
      BY <3>1, <3>2, OrdersArePositive DEF PassedSteps, Vouched
  <2> QED
    BY <1>2, <1>3, <2>1, <2>3, <2>4, OneGrows, FinishStep
<1> QED
  BY <1>4, <1>5, <1>6, <1>7, <1>8, <1>9 DEF Decision

LEMMA UpkeepSigns ==
  ASSUME SignInv, NEW r \in Requests, Upkeep(r)
  PROVE  SignStep(r)
<1> DEFINE i == job[r].invoice
<1>1. TypeOK /\ Phased /\ Informed(r)
  BY DEF SignInv, IInv
<1>2. pc[r] \in {"fetch", "mark", "delete"} /\ UNCHANGED config
      /\ (FetchForExport(r) \/ MarkExported(r) \/ Delete(r))
  BY <1>1 DEF Upkeep, OpenForEdit, SaveEdit, SaveConfig, RevertWaiting,
              FetchForExport, MarkExported, Delete, At, Informed
<1>3. i \in Invoices /\ doc[i] \in Docs
  BY <1>1, <1>2, JobType
<1>4. CASE FetchForExport(r)
  <2>1. UNCHANGED doc /\ (Finish(r) \/ (Goto(r, "mark") /\ UNCHANGED job))
    BY <1>4 DEF FetchForExport
  <2>2. "mark" \in Silent /\ "mark" \notin BeforeStart
    BY DEF Silent, BeforeStart
  <2> QED
    BY <1>2, <2>1, <2>2, FinishStep, SilentStep, NothingGrows
<1>5. ASSUME NEW s, doc' = [doc EXCEPT ![i] = [doc[i] EXCEPT !.status = s]]
                    \/ Write(i, [doc[i] EXCEPT !.status = s]),
             Finish(r)
      PROVE  SignStep(r)
  <2> DEFINE d == [doc[i] EXCEPT !.status = s]
  <2>1. /\ d.flow = doc[i].flow /\ d.by = doc[i].by /\ d.step = doc[i].step
        /\ d.fields = doc[i].fields /\ d.results = doc[i].results
    BY <1>3 DEF Docs
  <2>2. doc' = [doc EXCEPT ![i] = d] \/ Write(i, d)
    BY <1>5
  <2> HIDE DEF d, i
  <2>3. DocsGrow
    BY <1>3, <2>1, <2>2, StatusGrows
  <2> QED
    BY <1>2, <1>5, <2>3, FinishStep
<1>6. CASE MarkExported(r)
  BY <1>5, <1>6 DEF MarkExported
<1>7. CASE Delete(r)
  <2>1. /\ doc' = [doc EXCEPT ![i] = [doc[i] EXCEPT !.status =
                     IF doc[i].status = "EXPORTED" THEN doc[i].status
                                                   ELSE "DELETED"]]
        /\ Finish(r)
    BY <1>7 DEF Delete
  <2> QED
    BY <1>5, <2>1
<1> QED
  BY <1>2, <1>4, <1>6, <1>7

-----------------------------------------------------------------------------
(* The invariant holds, and the theorem follows.                           *)

LEMMA InitSignInv ==
  ASSUME Undisturbed, Init
  PROVE  SignInv
<1>1. \A i \in Invoices : doc[i].flow = "none" /\ doc[i].by = NoOrg
  BY DEF Init, Fresh
<1>2. \A r \in Requests : pc[r] = "idle"
  BY DEF Init
<1>3. \A r \in Requests : Informed(r)
  BY <1>2 DEF Informed
<1>4. \A i \in Invoices : PassedSteps(config, doc[i])
  BY <1>1, ConstantsAssumption DEF PassedSteps, Vouched
<1> QED
  BY <1>1, <1>3, <1>4, InitIInv DEF SignInv

LEMMA NextSignInv ==
  ASSUME SignInv, [Next]_vars
  PROVE  SignInv'
<1>1. IInv'
  BY NextIInv DEF SignInv
<1>2. CASE UNCHANGED vars
  BY <1>1, <1>2 DEF vars, SignInv, Undisturbed, Informed, PassedSteps, Vouched,
     Properly, Signers, MayDecide, Follows
<1>3. ASSUME NEW r \in Requests, Arrive(r) \/ Submission(r) \/ Decision(r)
                                 \/ Upkeep(r)
      PROVE  SignInv'
  <2>1. CASE Start(r)
    BY <1>1, <2>1, StartPreserves
  <2>2. CASE ~Start(r)
    <3>1. SignStep(r)
      BY <1>3, <2>2, ArriveSigns, SubmissionSigns, DecisionSigns, UpkeepSigns
    <3> QED
      BY <1>1, <3>1, SignStepPreserves
  <2> QED
    BY <2>1, <2>2
<1> QED
  BY <1>2, <1>3 DEF Next, Quiet

\* A write that does not set the workflow to approved.
LEMMA NoneCompletes ==
  ASSUME TypeOK, NEW i, NEW d,
         doc' = [doc EXCEPT ![i] = d] \/ Write(i, d),
         d.flow # "approved" \/ d.flow = doc[i].flow
  PROVE  \A k \in Invoices : ~Completes(k)
  BY DEF TypeOK, Write, Completes

\* Only the approval of a last step completes a workflow.
LEMMA LastCompletes ==
  ASSUME SignInv, Next, NEW k \in Invoices, Completes(k)
  PROVE  \E r \in Requests : SignLast(r) /\ job[r].invoice = k
<1>1. TypeOK
  BY DEF SignInv, IInv
<1>2. doc' # doc
  BY DEF Completes
<1>3. PICK r \in Requests : Submission(r) \/ Decision(r) \/ Upkeep(r)
  BY <1>2 DEF Next, Quiet, Arrive, vars
<1> DEFINE i == job[r].invoice
<1>4. pc[r] \notin {"idle", "done"}
  BY <1>3 DEF Submission, CheckEnabled, ApproveDirectly, ReadStatus,
     FindWorkflow, LoadForEntry, Start, Decision, LoadForDecision, Judge,
     SignPartly, SignOn, SignLast, Reject, Upkeep, OpenForEdit, SaveEdit,
     SaveConfig, RevertWaiting, FetchForExport, MarkExported, Delete, At
<1>5. i \in Invoices /\ doc[i] \in Docs
  BY <1>1, <1>4, JobType
<1>6. pc[r] \notin {"open", "save", "configure", "revert"}
  BY DEF SignInv, Informed
<1>7. ASSUME NEW s, doc' = [doc EXCEPT ![i] = [doc[i] EXCEPT !.status = s]]
                    \/ Write(i, [doc[i] EXCEPT !.status = s])
      PROVE  FALSE
  <2>1. [doc[i] EXCEPT !.status = s].flow = doc[i].flow
    BY <1>5 DEF Docs
  <2> QED
    BY <1>1, <1>7, <2>1, NoneCompletes
<1>8. \/ ApproveDirectly(r) \/ Start(r) \/ SignPartly(r) \/ SignOn(r)
      \/ SignLast(r) \/ Reject(r) \/ MarkExported(r) \/ Delete(r)
  BY <1>2, <1>3, <1>6 DEF Submission, CheckEnabled, ReadStatus,
     FindWorkflow, LoadForEntry, Decision, LoadForDecision, Judge, Upkeep,
     OpenForEdit, SaveEdit, SaveConfig, RevertWaiting, FetchForExport, At
<1>9. CASE SignLast(r)
  <2>1. doc'[k] # doc[k] => k = i
    BY <1>1, <1>9 DEF SignLast, Write, TypeOK
  <2> QED
    BY <1>9, <2>1 DEF Completes
<1>10. ~ApproveDirectly(r)
  <2> SUFFICES ASSUME ApproveDirectly(r)
               PROVE  FALSE
    OBVIOUS
  <2>1. doc' = [doc EXCEPT ![i] = [doc[i] EXCEPT !.status =
                  IF doc[i].status \in Open THEN "APPROVED" ELSE doc[i].status]]
    BY DEF ApproveDirectly
  <2> QED
    BY <1>7, <2>1
<1>11. ~Delete(r)
  <2> SUFFICES ASSUME Delete(r)
               PROVE  FALSE
    OBVIOUS
  <2>1. doc' = [doc EXCEPT ![i] = [doc[i] EXCEPT !.status =
                  IF doc[i].status = "EXPORTED" THEN doc[i].status
                                                ELSE "DELETED"]]
    BY DEF Delete
  <2> QED
    BY <1>7, <2>1
<1>12. ~MarkExported(r)
  BY <1>7 DEF MarkExported
<1>13. ASSUME NEW d, Write(i, d), d.flow # "approved" \/ d.flow = doc[i].flow
       PROVE  FALSE
  BY <1>1, <1>13, NoneCompletes
<1>14. ~Start(r)
  <2> SUFFICES ASSUME Start(r)
               PROVE  FALSE
    OBVIOUS
  <2>1. PICK n, R :
          Write(i, [doc[i] EXCEPT !.status = "AWAITING_APPROVAL",
                      !.flow = "in_progress", !.by = job[r].org,
                      !.step = n, !.results = R, !.ver = @ + 1])
    BY DEF Start
  <2>2. [doc[i] EXCEPT !.status = "AWAITING_APPROVAL",
           !.flow = "in_progress", !.by = job[r].org,
           !.step = n, !.results = R, !.ver = @ + 1].flow = "in_progress"
    BY <1>5 DEF Docs
  <2> QED
    BY <1>13, <2>1, <2>2
<1>15. ~SignPartly(r)
  <2> DEFINE d == [doc[i] EXCEPT !.results = @ \cup {Mark(r, "approved")},
                                 !.ver = @ + 1]
  <2>1. d.flow = doc[i].flow
    BY <1>5 DEF Docs
  <2> QED
    BY <1>13, <2>1 DEF SignPartly
<1>16. ~SignOn(r)
  <2> SUFFICES ASSUME SignOn(r)
               PROVE  FALSE
    OBVIOUS
  <2>1. PICK n : Write(i, [doc[i] EXCEPT !.results = @ \cup Appended(r),
                                         !.step = n, !.ver = @ + 1])
    BY DEF SignOn
  <2>2. [doc[i] EXCEPT !.results = @ \cup Appended(r),
                       !.step = n, !.ver = @ + 1].flow = doc[i].flow
    BY <1>5 DEF Docs
  <2> QED
    BY <1>13, <2>1, <2>2
<1>17. ~Reject(r)
  <2> DEFINE d == [doc[i] EXCEPT !.results = @ \cup {Mark(r, "rejected")},
                                 !.status = "NEEDS_REVIEW",
                                 !.flow = "rejected", !.ver = @ + 1]
  <2>1. d.flow = "rejected"
    BY <1>5 DEF Docs
  <2> QED
    BY <1>13, <2>1 DEF Reject
<1> QED
  BY <1>8, <1>9, <1>10, <1>11, <1>12, <1>14, <1>15, <1>16, <1>17

\* A workflow approves an invoice only when every step that applies to its
\* contents was approved by a user entitled to it, however the approvals and
\* rejections overlap.
THEOREM EveryStepSigned == Undisturbed /\ Spec => EveryStepIsSigned
<1> DEFINE AllSigned(i) == Completes(i) =>
      /\ doc[i].by \in Orgs
      /\ LET p == config[doc[i].by].steps
         IN  \A o \in DOMAIN p : Applies(p[o], doc[i].fields) =>
               \E u \in Signers(doc'[i], o) :
                 CanApprove(u, p[o]) /\ doc[i].fields \in Limit[u]
<1>1. Undisturbed /\ Init => SignInv
  BY InitSignInv
<1>2. SignInv /\ [Next]_vars => SignInv'
  BY NextSignInv
<1>3. SignInv /\ [Next]_vars => [\A i \in Invoices : AllSigned(i)]_vars
  <2> SUFFICES ASSUME SignInv, Next, NEW i \in Invoices, Completes(i)
               PROVE  AllSigned(i)
    BY DEF Completes
  <2>1. PICK r \in Requests : SignLast(r) /\ job[r].invoice = i
    BY LastCompletes
  <2> DEFINE d == [doc[i] EXCEPT !.results = @ \cup Appended(r),
                                 !.status = "APPROVED", !.flow = "approved",
                                 !.step = 0, !.ver = @ + 1]
  <2>2. TypeOK /\ Informed(r) /\ pc[r] = "sign" /\ doc[i] \in Docs
    BY <2>1 DEF SignInv, IInv, TypeOK, SignLast, At
  <2>3. doc'[i] = d
    BY <2>1, <2>2 DEF SignLast, Write, TypeOK, Completes
  <2>4. /\ d.by = doc[i].by /\ d.fields = doc[i].fields
        /\ d.results = doc[i].results \cup Appended(r)
        /\ d.flow = "approved"
    BY <2>2 DEF Docs
  <2> HIDE DEF d
  <2>5. Follows(job[r].doc, d)
    BY <2>1, <2>2, <2>4, SavedGrows
  <2>6. /\ d.by \in Orgs /\ job[r].plan = config[d.by].steps
        /\ d.fields = job[r].doc.fields
    BY <2>2, <2>5 DEF Informed, Follows
  <2>7. Mark(r, "approved") \in d.results
    BY <2>4 DEF Appended
  <2>8. ASSUME NEW m \in DOMAIN job[r].plan,
               Applies(job[r].plan[m], d.fields)
        PROVE  Properly(job[r].plan, d, m)
    <3>1. m \notin Ahead(job[r].plan, job[r].doc.step, d.fields)
      BY <2>1, <2>6 DEF SignLast
    <3> QED
      BY <2>2, <2>5, <2>7, <2>8, <3>1, SignerIsInformed, SignedSoFar
         DEF Follows
  <2> QED
    BY <2>3, <2>4, <2>6, <2>8 DEF Properly
<1> QED
  BY <1>1, <1>2, <1>3, PTL DEF Spec, EveryStepIsSigned

-----------------------------------------------------------------------------
(* Requests of every kind, served one at a time.                           *)

\* Workflows stay as they are; or a tenant of one organisation switches its
\* workflow off and on, with the same steps whenever it is on. (What is stored
\* meanwhile asks everyone for nothing, unless it is the same steps: until the
\* waiting invoices are reverted, they are under it.)
OnlyAny(p) == \A m \in DOMAIN p : p[m].rule = "any"
Switchable ==
  \A c, d \in Configs :
    c.enabled => \/ d.steps = c.steps
                 \/ ~d.enabled /\ OnlyAny(d.steps)
Steady == Configurers = {} \/ (OneOrg /\ FirstSteps /\ Switchable)

\* Every step has someone to approve it.
Staffed ==
  /\ IsFiniteSet(Users)
  /\ \A c \in Configs : \A m \in DOMAIN c.steps : Required(c.steps[m]) > 0

\* What a request knows of the workflow is what it is.
Planned(r) ==
  /\ pc[r] \in {"configure", "revert"} => r \in Configurers
  /\ pc[r] \in {"enter", "start"} => job[r].plan = config[job[r].org].steps
  /\ pc[r] = "sign" => /\ job[r].doc.by \in Orgs
                       /\ job[r].plan = config[job[r].doc.by].steps
                       /\ MayDecide(r, job[r].plan)

\* How many have approved step m of rule "all".
Passed(p, d, m) == Cardinality(Signers(d, m)) >= Required(p[m])
Unpassed(p, d)  == d.step \in DOMAIN p /\ p[d.step].rule = "all" =>
                     Cardinality(Signers(d, d.step)) < Required(p[d.step])

\* The approvals of an invoice that waits under plan p: each user has approved the
\* current step once, nobody a later one, everyone required the steps before,
\* and not everyone the current one.
Counted(p, d) ==
  /\ \A x, y \in Approvals(d) : x.user = y.user => x = y
  /\ \A x \in d.results : x.action = "approved" => x.step <= d.step
  /\ \A m \in DOMAIN p :
       m < d.step /\ Applies(p[m], d.fields) /\ p[m].rule = "all"
         => Passed(p, d, m)
  /\ Unpassed(p, d)

\* The steps before the current one were approved by users entitled to it,
\* and by everyone required if all steps have someone to approve them.
Booked(p, d) == Vouched(p, d) /\ (Staffed => Counted(p, d))

\* So it is, unless the workflow was just switched off.
Reverting  == \E r \in Requests : pc[r] = "revert"
Tallied(d) ==
  Waiting(d) => LET p == config[d.by].steps
                IN  Booked(p, d) \/ (Reverting /\ OnlyAny(p))

TallyInv ==
  /\ SerialInv
  /\ Steady
  /\ Configurers # {} => RuledInv
  /\ \A r \in Requests : Planned(r)
  /\ \A i \in Invoices : Tallied(doc[i])

\* The users a step has are finitely many, and so are those it requires.
LEMMA RequiredType ==
  ASSUME Staffed, NEW s \in StepType
  PROVE  Required(s) \in Nat
<1>1. IsFiniteSet(s.users)
  BY FS_Subset DEF Staffed, StepType
<1>2. IsFiniteSet({u \in Users : Role[u] = s.role})
  BY FS_Subset DEF Staffed
<1>3. IsFiniteSet({u \in Users : Role[u] # "PLATFORM_ADMIN"})
  BY FS_Subset DEF Staffed
<1> QED
  BY <1>1, <1>2, <1>3, FS_CardinalityType DEF Required

LEMMA PlanSteps ==
  ASSUME NEW p \in Plans, NEW m \in DOMAIN p
  PROVE  p[m] \in StepType /\ m \in Nat
<1>1. p # NoPlan
  BY DEF NoPlan
<1>2. PICK c \in Configs : p = c.steps
  BY <1>1 DEF Plans
<1> QED
  BY <1>2, ConstantsAssumption

LEMMA SignersType ==
  ASSUME Staffed, NEW d \in Docs, NEW m
  PROVE  /\ IsFiniteSet(Signers(d, m)) /\ Cardinality(Signers(d, m)) \in Nat
<1>1. Signers(d, m) \subseteq Users \cup {NoUser}
  BY DEF Signers, Docs, Results
<1>2. IsFiniteSet(Users \cup {NoUser})
  BY FS_AddElement DEF Staffed
<1> QED
  BY <1>1, <1>2, FS_Subset, FS_CardinalityType

\* Who approved the current step once counts once.
LEMMA ApprovalsCount ==
  ASSUME Staffed, NEW d \in Docs,
         \A x, y \in Approvals(d) : x.user = y.user => x = y
  PROVE  Cardinality(Approvals(d)) = Cardinality(Signers(d, d.step))
<1> DEFINE S == Signers(d, d.step)
           A == Approvals(d)
           f == [u \in S |-> CHOOSE x \in A : x.user = u]
<1>1. S = {x.user : x \in A}
  BY DEF Signers, Approvals
<1>2. ASSUME NEW u \in S
      PROVE  f[u] \in A /\ f[u].user = u
  <2>1. \E x \in A : x.user = u
    BY <1>1
  <2> HIDE DEF S, A
  <2> QED
    BY <2>1
<1>3. f \in [S -> A]
  <2> HIDE DEF A, S
  <2>1. \A u \in S : f[u] \in A
    BY <1>2
  <2> QED
    BY <2>1
<1>4. \A u, v \in S : f[u] = f[v] => u = v
  <2> HIDE DEF f
  <2> QED
    BY <1>2
<1>5. \A x \in A : \E u \in S : f[u] = x
  <2> TAKE x \in A
  <2>1. x.user \in S
    BY <1>1
  <2> HIDE DEF f
  <2>2. f[x.user] \in A /\ f[x.user].user = x.user
    BY <1>2, <2>1
  <2>3. f[x.user] = x
    BY <2>2
  <2> QED
    BY <2>1, <2>3
<1> HIDE DEF f, S, A
<1>6. f \in Bijection(S, A)
  <2>1. DOMAIN f = S
    BY <1>3
  <2> QED
    BY <1>3, <1>4, <1>5, <2>1 DEF Bijection, Injection, Surjection, IsInjective
<1>7. ExistsBijection(S, A)
  BY <1>6 DEF ExistsBijection
<1>8. IsFiniteSet(S)
  BY SignersType DEF S
<1>9. Cardinality(A) = Cardinality(S)
  BY <1>7, <1>8, FS_Bijection
<1> QED
  BY <1>9 DEF A, S

\* What a request that signs knows.
LEMMA SignsBooked ==
  ASSUME TallyInv, NEW r \in Requests, pc[r] = "sign"
  PROVE  LET d == job[r].doc
             p == job[r].plan
         IN  /\ r \in Approvers /\ MayDecide(r, p)
             /\ d \in Docs /\ p \in Plans
             /\ d = doc[job[r].invoice] /\ job[r].invoice \in Invoices
             /\ Waiting(d) /\ d.by \in Orgs /\ p = config[d.by].steps
             /\ Booked(p, d)
<1> DEFINE d == job[r].doc
           p == job[r].plan
<1>1. TypeOK /\ Phased /\ Planned(r) /\ Current(r) /\ Alone
  BY DEF TallyInv, SerialInv, IInv
<1>2. d \in Docs /\ p \in Plans /\ job[r].invoice \in Invoices
  BY <1>1, JobType
<1>3. d = doc[job[r].invoice] /\ Waiting(d)
  BY <1>1 DEF Current
<1>4. d.by \in Orgs /\ p = config[d.by].steps /\ MayDecide(r, p)
  BY <1>1 DEF Planned
<1>5. ~Reverting
  BY <1>1 DEF Reverting, Alone, InProgress
<1>6. Booked(p, d)
  BY <1>2, <1>3, <1>4, <1>5 DEF TallyInv, Tallied
<1> QED
  BY <1>1, <1>2, <1>3, <1>4, <1>6 DEF Phased

\* What an approval leaves: d is the document before, e has the request's
\* result besides, and results that are no approvals.
ApprovedBy(r, d, e) ==
  \E more : /\ e.results = d.results \cup {Mark(r, "approved")} \cup more
            /\ \A x \in more : x.action # "approved"

LEMMA SignersAfter ==
  ASSUME TallyInv, Staffed, NEW r \in Requests, pc[r] = "sign",
         NEW e, ApprovedBy(r, job[r].doc, e)
  PROVE  LET d == job[r].doc
             p == job[r].plan
         IN  /\ d \in Docs /\ d.step \in DOMAIN p /\ p \in Plans
             /\ Counted(p, d)
             /\ \A m : m # d.step => Signers(e, m) = Signers(d, m)
             /\ Cardinality(Signers(e, d.step)) = Cardinality(Signers(d, d.step)) + 1
             /\ Cardinality(Approvals(d)) = Cardinality(Signers(d, d.step))
<1> DEFINE d == job[r].doc
           p == job[r].plan
           u == job[r].user
<1>1. r \in Approvers /\ MayDecide(r, p) /\ d \in Docs /\ p \in Plans
  BY SignsBooked
<1>2. Counted(p, d)
  BY SignsBooked DEF Booked
<1>6. d.step \in DOMAIN p /\ \A x \in Approvals(d) : x.user # u
  BY <1>1 DEF MayDecide
<1>7. PICK more : /\ e.results = d.results \cup {Mark(r, "approved")} \cup more
                  /\ \A x \in more : x.action # "approved"
  BY DEF ApprovedBy
<1>8. Mark(r, "approved").step = d.step /\ Mark(r, "approved").user = u
      /\ Mark(r, "approved").action = "approved"
  BY DEF Mark
<1>9. \A m : m # d.step => Signers(e, m) = Signers(d, m)
  <2> HIDE DEF d, u
  <2> TAKE m
  <2> HAVE m # d.step
  <2>1. {y \in e.results : y.step = m /\ y.action = "approved"}
          = {y \in d.results : y.step = m /\ y.action = "approved"}
    BY <1>7, <1>8
  <2> QED
    BY <2>1 DEF Signers
<1>10. Signers(e, d.step) = Signers(d, d.step) \cup {u}
  <2> HIDE DEF d, u
  <2>1. {y \in e.results : y.step = d.step /\ y.action = "approved"}
          = {y \in d.results : y.step = d.step /\ y.action = "approved"}
              \cup {Mark(r, "approved")}
    BY <1>7, <1>8
  <2> QED
    BY <1>8, <2>1 DEF Signers
<1>11. u \notin Signers(d, d.step)
  BY <1>6 DEF Signers, Approvals
<1>12. Cardinality(Signers(e, d.step)) = Cardinality(Signers(d, d.step)) + 1
  BY <1>1, <1>10, <1>11, SignersType, FS_AddElement
<1>13. Cardinality(Approvals(d)) = Cardinality(Signers(d, d.step))
  BY <1>1, <1>2, ApprovalsCount DEF Counted
<1> QED
  BY <1>1, <1>2, <1>6, <1>9, <1>12, <1>13

\* When a request passes a step, the steps of rule "all" that apply and are
\* not ahead of it were approved by everyone they require.
LEMMA PassedSoFar ==
  ASSUME TallyInv, Staffed, NEW r \in Requests, pc[r] = "sign", Enough(r),
         NEW e, ApprovedBy(r, job[r].doc, e),
         NEW m \in DOMAIN job[r].plan, job[r].plan[m].rule = "all",
         Applies(job[r].plan[m], job[r].doc.fields),
         m \notin Ahead(job[r].plan, job[r].doc.step, job[r].doc.fields)
  PROVE  Passed(job[r].plan, e, m)
<1> DEFINE d == job[r].doc
           p == job[r].plan
<1>1. /\ d \in Docs /\ d.step \in DOMAIN p /\ p \in Plans
      /\ Counted(p, d)
      /\ \A k : k # d.step => Signers(e, k) = Signers(d, k)
      /\ Cardinality(Signers(e, d.step)) = Cardinality(Signers(d, d.step)) + 1
      /\ Cardinality(Approvals(d)) = Cardinality(Signers(d, d.step))
  BY SignersAfter
<1>2. m \in Nat /\ d.step \in Nat
  BY <1>1, PlanSteps
<1>3. m <= d.step
  BY <1>2 DEF Ahead
<1>4. CASE m < d.step
  <2>1. Passed(p, d, m)
    BY <1>1, <1>4 DEF Counted
  <2>2. Signers(e, m) = Signers(d, m)
    BY <1>1, <1>2, <1>4
  <2> QED
    BY <2>1, <2>2 DEF Passed
<1>5. CASE m = d.step
  BY <1>1, <1>5 DEF Enough, Passed
<1> QED
  BY <1>2, <1>3, <1>4, <1>5

\* The results of an approval that goes on to another step.
LEMMA AppendedAfter ==
  ASSUME NEW r, NEW d, NEW e, e.results = d.results \cup Appended(r)
  PROVE  ApprovedBy(r, d, e)
<1> DEFINE more == {[req |-> r, step |-> o, user |-> NoUser, action |-> "skipped",
                     seen |-> job[r].doc.fields] :
                      o \in Skipped(job[r].plan, job[r].doc.step,
                                    job[r].doc.fields)}
<1>1. Appended(r) = {Mark(r, "approved")} \cup more
  BY DEF Appended
<1>2. \A x \in more : x.action # "approved"
  OBVIOUS
<1> HIDE DEF more
<1>3. e.results = d.results \cup {Mark(r, "approved")} \cup more
  BY <1>1
<1> QED
  BY <1>2, <1>3 DEF ApprovedBy

LEMMA PartlyCounts ==
  ASSUME TallyInv, Staffed, NEW r \in Requests, pc[r] = "sign", ~Enough(r),
         NEW e, e.results = job[r].doc.results \cup {Mark(r, "approved")},
         e.step = job[r].doc.step, e.fields = job[r].doc.fields
  PROVE  Counted(job[r].plan, e)
<1> DEFINE d == job[r].doc
           p == job[r].plan
           x0 == Mark(r, "approved")
<1>1. ApprovedBy(r, d, e)
  <2> DEFINE more == {}
  <2>1. e.results = d.results \cup {Mark(r, "approved")} \cup more
    OBVIOUS
  <2>2. \A x \in more : x.action # "approved"
    OBVIOUS
  <2> HIDE DEF more
  <2> QED
    BY <2>1, <2>2 DEF ApprovedBy
<1>2. /\ d \in Docs /\ d.step \in DOMAIN p /\ p \in Plans
      /\ Counted(p, d)
      /\ \A k : k # d.step => Signers(e, k) = Signers(d, k)
      /\ Cardinality(Signers(e, d.step)) = Cardinality(Signers(d, d.step)) + 1
      /\ Cardinality(Approvals(d)) = Cardinality(Signers(d, d.step))
  BY <1>1, SignersAfter
<1>3. \A m \in DOMAIN p : m \in Nat /\ p[m] \in StepType
  BY <1>2, PlanSteps
<1>4. /\ x0.step = d.step /\ x0.user = job[r].user /\ x0.action = "approved"
  BY DEF Mark
<1>5. \A x \in Approvals(d) : x.user # x0.user
  BY <1>4, SignsBooked DEF MayDecide
<1> HIDE DEF x0
<1>6. Approvals(e) = Approvals(d) \cup {x0}
  BY <1>4 DEF Approvals, x0
<1>7. \A x, y \in Approvals(e) : x.user = y.user => x = y
  BY <1>2, <1>5, <1>6 DEF Counted
<1>8. \A x \in e.results : x.action = "approved" => x.step <= e.step
  <2>1. d.step <= d.step
    BY <1>2, <1>3
  <2>2. \A x \in d.results : x.action = "approved" => x.step <= d.step
    BY <1>2 DEF Counted
  <2>3. e.results = d.results \cup {x0} /\ e.step = d.step
    BY DEF x0
  <2> HIDE DEF d
  <2> QED
    BY <1>4, <2>1, <2>2, <2>3
<1>9. ASSUME NEW m \in DOMAIN p, m < e.step, Applies(p[m], e.fields),
             p[m].rule = "all"
      PROVE  Passed(p, e, m)
  <2>1. Passed(p, d, m)
    BY <1>2, <1>9 DEF Counted
  <2>2. Signers(e, m) = Signers(d, m)
    BY <1>2, <1>3, <1>9
  <2> QED
    BY <2>1, <2>2 DEF Passed
<1>10. Unpassed(p, e)
  <2>1. Required(p[d.step]) \in Nat
    BY <1>2, <1>3, RequiredType
  <2>2. Cardinality(Signers(d, d.step)) \in Nat
    BY <1>2, SignersType
  <2>3. Cardinality(Signers(d, d.step)) + 1 < Required(p[d.step])
    BY <1>2, <2>1, <2>2 DEF Enough
  <2> QED
    BY <1>2, <2>3 DEF Unpassed
<1> QED
  BY <1>7, <1>8, <1>9, <1>10 DEF Counted

LEMMA OnCounts ==
  ASSUME TallyInv, Staffed, NEW r \in Requests, pc[r] = "sign", Enough(r), NEW e,
         e.results = job[r].doc.results \cup Appended(r),
         e.fields = job[r].doc.fields,
         e.step \in Ahead(job[r].plan, job[r].doc.step, job[r].doc.fields),
         IsNext(e.step, Ahead(job[r].plan, job[r].doc.step, job[r].doc.fields))
  PROVE  Counted(job[r].plan, e)
<1> DEFINE d == job[r].doc
           p == job[r].plan
<1>1. ApprovedBy(r, d, e)
  BY AppendedAfter
<1>2. /\ d \in Docs /\ d.step \in DOMAIN p /\ p \in Plans
      /\ Counted(p, d)
      /\ \A k : k # d.step => Signers(e, k) = Signers(d, k)
  BY <1>1, SignersAfter
<1>3. \A m \in DOMAIN p : m \in Nat /\ p[m] \in StepType
  BY <1>2, PlanSteps
<1>4. e.step \in DOMAIN p /\ e.step > d.step
  BY DEF Ahead
<1>5. \A x \in e.results : x.action = "approved" => x.step <= d.step
  <2>1. \A x \in Appended(r) : x.action = "approved" => x.step = d.step
    BY DEF Appended, Mark
  <2>2. d.step <= d.step
    BY <1>2, <1>3
  <2>3. \A x \in d.results : x.action = "approved" => x.step <= d.step
    BY <1>2 DEF Counted
  <2> HIDE DEF d
  <2> QED
    BY <2>1, <2>2, <2>3 DEF d
<1>6. d.step \in Nat /\ e.step \in Nat
  BY <1>2, <1>3, <1>4
<1>7. \A x \in e.results :
        x.action = "approved" => x.step < e.step /\ x.step <= e.step
  <2> TAKE x \in e.results
  <2> HAVE x.action = "approved"
  <2>1. x.step <= d.step /\ x.step \in Nat
    <3>1. x \in d.results \/ x \in Appended(r)
      OBVIOUS
    <3>2. \A y \in d.results : y.step \in Nat
      BY <1>2 DEF Docs, Results
    <3>3. \A y \in Appended(r) : y.action = "approved" => y.step = d.step
      BY DEF Appended, Mark
    <3> QED
      BY <1>5, <1>6, <3>1, <3>2, <3>3
  <2> QED
    BY <1>4, <1>6, <2>1
<1>8. Approvals(e) = {}
  BY <1>6, <1>7 DEF Approvals
<1>10. ASSUME NEW m \in DOMAIN p, m < e.step, Applies(p[m], e.fields),
              p[m].rule = "all"
       PROVE  Passed(p, e, m)
  <2>1. m \notin Ahead(p, d.step, d.fields)
    BY <1>3, <1>6, <1>10 DEF IsNext
  <2> QED
    BY <1>1, <1>10, <2>1, PassedSoFar
<1>11. Unpassed(p, e)
  <2>1. Signers(e, e.step) = {}
    BY <1>8 DEF Signers, Approvals
  <2>2. Cardinality(Signers(e, e.step)) = 0
    BY <2>1, FS_EmptySet
  <2>3. p # NoPlan
    BY <1>2 DEF NoPlan
  <2>4. PICK c \in Configs : p = c.steps
    BY <1>2, <2>3 DEF Plans
  <2>5. Required(p[e.step]) > 0
    BY <1>4, <2>4 DEF Staffed
  <2> QED
    BY <2>2, <2>5 DEF Unpassed
<1> QED
  BY <1>7, <1>8, <1>10, <1>11 DEF Counted

\* Who may change a document into one that waits, or that a workflow approved.
LEMMA WhoWrites ==
  ASSUME SerialInv, Next, NEW i \in Invoices, doc'[i] # doc[i]
  PROVE  \/ \E r \in Requests :
               /\ Start(r) \/ SignPartly(r) \/ SignOn(r) \/ SignLast(r)
               /\ job[r].invoice = i /\ Exists(i)
         \/ /\ ~Waiting(doc'[i])
            /\ doc'[i].flow # "approved" \/ doc'[i].flow = doc[i].flow
<1> DEFINE Other == /\ ~Waiting(doc'[i])
                    /\ doc'[i].flow # "approved" \/ doc'[i].flow = doc[i].flow
<1>1. TypeOK /\ (\A q \in Requests : Current(q)) /\ doc[i] \in Docs
  BY DEF SerialInv, IInv, TypeOK
<1>2. PICK r \in Requests : Submission(r) \/ Decision(r) \/ Upkeep(r)
  BY DEF Next, Quiet, Arrive, vars
<1>3. \/ Start(r) \/ SignPartly(r) \/ SignOn(r) \/ SignLast(r)
      \/ ApproveDirectly(r) \/ Reject(r) \/ SaveEdit(r) \/ RevertWaiting(r)
      \/ MarkExported(r) \/ Delete(r)
  BY <1>2 DEF Submission, CheckEnabled, ReadStatus, FindWorkflow, LoadForEntry,
     Decision, LoadForDecision, Judge, Upkeep, OpenForEdit, SaveConfig,
     FetchForExport
<1>4. ASSUME NEW d, Write(job[r].invoice, d)
      PROVE  job[r].invoice = i /\ Exists(i) /\ doc'[i] = d
  BY <1>1, <1>4 DEF Write, TypeOK
<1>5. ASSUME NEW d, doc' = [doc EXCEPT ![job[r].invoice] = d]
      PROVE  job[r].invoice = i /\ doc'[i] = d
  BY <1>1, <1>5 DEF TypeOK
<1>6. ASSUME NEW s, s # "AWAITING_APPROVAL",
             doc'[i] = [doc[i] EXCEPT !.status = s]
      PROVE  Other
  BY <1>1, <1>6 DEF Waiting, Docs
<1>7. CASE Start(r) \/ SignPartly(r) \/ SignOn(r) \/ SignLast(r)
  <2>1. job[r].invoice = i /\ Exists(i)
    BY <1>4, <1>7 DEF Start, SignPartly, SignOn, SignLast
  <2> QED
    BY <1>7, <2>1
<1>8. CASE ApproveDirectly(r)
  <2>1. /\ job[r].invoice = i
        /\ doc'[i] = [doc[i] EXCEPT !.status =
                        IF doc[i].status \in Open THEN "APPROVED"
                                                  ELSE doc[i].status]
    BY <1>5, <1>8 DEF ApproveDirectly
  <2>2. doc[i].status \in Open
    BY <1>1, <2>1 DEF Docs
  <2>3. Other
    BY <1>6, <2>1, <2>2
  <2> QED
    BY <2>3
<1>9. CASE Reject(r)
  <2>1. doc'[i] = [doc[i] EXCEPT !.results = @ \cup {Mark(r, "rejected")},
                                 !.status = "NEEDS_REVIEW",
                                 !.flow = "rejected", !.ver = @ + 1]
    BY <1>4, <1>9 DEF Reject
  <2>2. doc'[i].flow = "rejected"
    BY <1>1, <2>1 DEF Docs
  <2> QED
    BY <2>2 DEF Waiting
<1>10. CASE SaveEdit(r)
  <2>1. PICK f \in Fields :
          doc' = [doc EXCEPT ![job[r].invoice] =
                    Edited(doc[job[r].invoice], job[r].doc, f)]
    BY <1>10 DEF SaveEdit
  <2>2. /\ job[r].invoice = i
        /\ doc'[i] = Edited(doc[i], job[r].doc, f)
    BY <1>5, <2>1
  <2>3. job[r].doc = doc[i]
    BY <1>1, <1>10, <2>2 DEF Current, SaveEdit, At
  <2> DEFINE d == doc[i]
             s == StatusAfterEdit(d, f)
             e == [d EXCEPT !.fields = f, !.ver = @ + 1,
                            !.status = IF s # d.status THEN s ELSE @]
  <2>4. s # "AWAITING_APPROVAL"
    BY DEF StatusAfterEdit
  <2>5. e.status = s /\ e.flow = d.flow
    BY <1>1 DEF Docs
  <2>6. [e EXCEPT !.flow = "none", !.step = 0, !.by = NoOrg,
                  !.results = {}].status = e.status
    BY <1>1 DEF Docs
  <2>7. [e EXCEPT !.flow = "none", !.step = 0, !.by = NoOrg,
                  !.results = {}].flow = "none"
    BY <1>1 DEF Docs
  <2>8. \/ doc'[i] = e
        \/ doc'[i] = [e EXCEPT !.flow = "none", !.step = 0, !.by = NoOrg,
                               !.results = {}]
    BY <2>2, <2>3 DEF Edited
  <2> HIDE DEF e, s
  <2>9. Other
    BY <2>4, <2>5, <2>6, <2>7, <2>8 DEF Waiting
  <2> QED
    BY <2>9
<1>11. CASE RevertWaiting(r)
  <2>1. doc'[i] = [doc[i] EXCEPT !.status = "NEEDS_REVIEW",
                           !.flow = "none", !.step = 0, !.by = NoOrg,
                           !.results = {}]
    BY <1>11 DEF RevertWaiting
  <2>2. doc'[i].flow = "none"
    BY <1>1, <2>1 DEF Docs
  <2> QED
    BY <2>2 DEF Waiting
<1>12. CASE MarkExported(r)
  <2>1. doc'[i] = [doc[i] EXCEPT !.status = "EXPORTED"]
    BY <1>4, <1>12 DEF MarkExported
  <2>2. Other
    BY <1>6, <2>1
  <2> QED
    BY <2>2
<1>13. CASE Delete(r)
  <2>1. doc'[i] = [doc[i] EXCEPT !.status =
                     IF doc[i].status = "EXPORTED" THEN doc[i].status
                                                   ELSE "DELETED"]
    BY <1>5, <1>13 DEF Delete
  <2>2. Other
    BY <1>6, <2>1
  <2> QED
    BY <2>2
<1> QED
  BY <1>3, <1>7, <1>8, <1>9, <1>10, <1>11, <1>12, <1>13

\* What a request knows of a workflow that nobody changes.
LEMMA PlannedByStep ==
  ASSUME TypeOK, \A q \in Requests : Planned(q), UNCHANGED config,
         NEW r \in Requests, NEW phase, Goto(r, phase),
         UNCHANGED job \/ \E j : Learn(r, j),
         phase \in {"enter", "start", "sign", "configure", "revert"}
           => Planned(r)'
  PROVE  \A q \in Requests : Planned(q)'
<1>1. OnlyMoves(r) /\ pc'[r] = phase
  BY OnlyMovesBy
<1> SUFFICES ASSUME NEW q \in Requests
             PROVE  Planned(q)'
  OBVIOUS
<1>2. CASE q = r
  BY <1>1, <1>2 DEF Planned
<1>3. CASE q # r
  <2>1. pc'[q] = pc[q] /\ job'[q] = job[q]
    BY <1>1, <1>3 DEF OnlyMoves
  <2>2. MayDecide(q, job[q].plan) => MayDecide(q, job[q].plan)'
    BY <2>1 DEF MayDecide
  <2> QED
    BY <2>1, <2>2 DEF Planned
<1> QED
  BY <1>2, <1>3

LEMMA PlannedStep ==
  ASSUME TallyInv, Next
  PROVE  \A q \in Requests : Planned(q)'
<1> DEFINE Goal == \A q \in Requests : Planned(q)'
<1>1. TypeOK /\ Phased /\ Alone /\ \A q \in Requests : Planned(q)
  BY DEF TallyInv, SerialInv, IInv
<1>2. CASE UNCHANGED vars
  BY <1>1, <1>2 DEF vars, Planned, MayDecide
<1> SUFFICES ASSUME NEW r \in Requests,
                    Arrive(r) \/ Submission(r) \/ Decision(r) \/ Upkeep(r)
             PROVE  Goal
  BY <1>2 DEF Next, Quiet
<1>3. CASE SaveConfig(r)
  <2>1. pc[r] = "configure" /\ r \in Configurers
    BY <1>1, <1>3 DEF SaveConfig, At, Planned
  <2>2. PICK phase \in {"done", "revert"} : Goto(r, phase)
    BY <1>3 DEF SaveConfig, Finish
  <2>3. /\ \A q \in Requests \ {r} : pc'[q] \in {"idle", "done"}
        /\ pc'[r] = phase
    BY <1>1, <2>1, <2>2, StaysAlone
  <2> QED
    BY <2>1, <2>3 DEF Planned
<1> SUFFICES ASSUME ~SaveConfig(r)
             PROVE  Goal
  BY <1>3
<1>4. UNCHANGED config
  BY DEF Arrive, Submission, CheckEnabled, ApproveDirectly, ReadStatus,
     FindWorkflow, LoadForEntry, Start, Decision, LoadForDecision, Judge,
     SignPartly, SignOn, SignLast, Reject, Upkeep, OpenForEdit, SaveEdit,
     RevertWaiting, FetchForExport, MarkExported, Delete
<1> DEFINE Busy == {"enter", "start", "sign", "configure", "revert"}
           Learns == UNCHANGED job \/ \E j : Learn(r, j)
<1>5. ASSUME NEW phase, phase \notin Busy, Goto(r, phase), Learns
      PROVE  Goal
  BY <1>1, <1>4, <1>5, PlannedByStep
<1>6. ASSUME Finish(r)
      PROVE  Goal
  <2>1. Goto(r, "done") /\ Learns
    BY <1>6 DEF Finish
  <2> QED
    BY <1>5, <2>1
<1>7. CASE Arrive(r)
  <2>1. Goto(r, FirstPhase(r)) /\ Learns
    BY <1>7 DEF Arrive
  <2>2. FirstPhase(r) \in Busy
          => FirstPhase(r) = "configure" /\ r \in Configurers
    BY RequestsAssumption DEF FirstPhase, Requests, Approvers
  <2>3. pc'[r] = FirstPhase(r)
    BY <1>1, <2>1 DEF Goto, TypeOK
  <2> QED
    BY <1>1, <1>4, <2>1, <2>2, <2>3, PlannedByStep DEF Planned
<1>8. pc[r] \notin {"idle", "done"} => job[r] \in Jobs
  BY <1>1 DEF TypeOK
<1>9. CASE FindWorkflow(r)
  <2>1. ASSUME NEW o \in Orgs,
               Learn(r, [job[r] EXCEPT !.org = o, !.plan = config[o].steps]),
               Goto(r, "enter")
        PROVE  Goal
    <3>1. OnlyMoves(r) /\ pc'[r] = "enter"
      BY <1>1, <2>1, OnlyMovesBy
    <3>2. job'[r].org = o /\ job'[r].plan = config[o].steps
      BY <1>1, <1>8, <1>9, <2>1 DEF Learn, TypeOK, Jobs, FindWorkflow, At
    <3>3. Planned(r)'
      BY <1>4, <3>1, <3>2 DEF Planned
    <3> QED
      BY <1>1, <1>4, <2>1, <3>3, PlannedByStep
  <2>2. \/ Goto(r, "direct") /\ Learns
        \/ \E o \in Orgs :
              /\ Learn(r, [job[r] EXCEPT !.org = o, !.plan = config[o].steps])
              /\ Goto(r, "enter")
    BY <1>9 DEF FindWorkflow
  <2> QED
    BY <1>5, <2>1, <2>2
<1>10. CASE LoadForEntry(r)
  <2> DEFINE d == doc[job[r].invoice]
  <2>1. CASE Goto(r, "direct") /\ UNCHANGED job
    BY <1>5, <2>1
  <2>2. ASSUME Goto(r, "start"), Learn(r, [job[r] EXCEPT !.doc = d])
        PROVE  Goal
    <3>1. OnlyMoves(r) /\ pc'[r] = "start"
      BY <1>1, <2>2, OnlyMovesBy
    <3>2. job'[r].org = job[r].org /\ job'[r].plan = job[r].plan
      BY <1>1, <1>8, <1>10, <2>2 DEF Learn, TypeOK, Jobs, LoadForEntry, At
    <3>3. job[r].plan = config[job[r].org].steps
      BY <1>1, <1>10 DEF Planned, LoadForEntry, At
    <3>4. Planned(r)'
      BY <1>4, <3>1, <3>2, <3>3 DEF Planned
    <3> QED
      BY <1>1, <1>4, <2>2, <3>4, PlannedByStep
  <2> QED
    BY <1>10, <2>1, <2>2 DEF LoadForEntry
<1>11. CASE Judge(r)
  <2> DEFINE o == job[r].doc.by
             p == IF o \in Orgs THEN config[o].steps ELSE NoPlan
  <2>1. CASE Finish(r)
    BY <1>6, <2>1
  <2>2. CASE Goto(r, "reject") /\ Learn(r, [job[r] EXCEPT !.plan = p])
    BY <1>5, <2>2
  <2>3. ASSUME MayDecide(r, p), Goto(r, "sign"),
               Learn(r, [job[r] EXCEPT !.plan = p])
        PROVE  Goal
    <3>1. OnlyMoves(r) /\ pc'[r] = "sign"
      BY <1>1, <2>3, OnlyMovesBy
    <3>2. /\ job'[r].plan = p /\ job'[r].doc = job[r].doc
          /\ job'[r].user = job[r].user
      BY <1>1, <1>8, <1>11, <2>3 DEF Learn, TypeOK, Jobs, Judge, At
    <3>3. o \in Orgs
      BY <2>3 DEF MayDecide, NoPlan
    <3>4. MayDecide(r, job[r].plan)'
      BY <2>3, <3>2 DEF MayDecide
    <3>5. p = config[o].steps
      BY <3>3
    <3> HIDE DEF p
    <3>6. Planned(r)'
      BY <1>4, <3>1, <3>2, <3>3, <3>4, <3>5 DEF Planned
    <3> QED
      BY <1>1, <1>4, <2>3, <3>6, PlannedByStep
  <2> QED
    BY <1>11, <2>1, <2>2, <2>3 DEF Judge
<1>12. CASE Finish(r)
  BY <1>6, <1>12
<1>13. CASE \E phase : Goto(r, phase) /\ phase \notin Busy /\ Learns
  BY <1>5, <1>13
<1>14. \/ Arrive(r) \/ FindWorkflow(r) \/ LoadForEntry(r) \/ Judge(r)
       \/ Finish(r)
       \/ \E phase : Goto(r, phase) /\ phase \notin Busy /\ Learns
  BY DEF Submission, CheckEnabled, ApproveDirectly, ReadStatus,
     Start, Decision, LoadForDecision,
     SignPartly, SignOn, SignLast, Reject, Upkeep, OpenForEdit, SaveEdit,
     RevertWaiting, FetchForExport, MarkExported, Delete, At
<1> QED
  BY <1>7, <1>9, <1>10, <1>11, <1>12, <1>13, <1>14

\* Nothing was approved yet, and no step that applies passed.
LEMMA StartBooks ==
  ASSUME NEW p, NEW d, \A x \in d.results : x.action # "approved",
         \A m \in DOMAIN p : m < d.step => ~Applies(p[m], d.fields),
         Staffed => \A m \in DOMAIN p : Required(p[m]) > 0
  PROVE  Booked(p, d)
<1>1. Approvals(d) = {} /\ \A m : Signers(d, m) = {}
  BY DEF Approvals, Signers
<1>2. Staffed => Unpassed(p, d)
  <2>1. Cardinality(Signers(d, d.step)) = 0
    BY <1>1, FS_EmptySet
  <2> QED
    BY <2>1 DEF Unpassed
<1>3. Vouched(p, d)
  BY DEF Vouched
<1> QED
  BY <1>1, <1>2, <1>3 DEF Booked, Counted

\* An approval leaves what was approved before, and adds its own.
LEMMA VouchedAfter ==
  ASSUME TallyInv, NEW r \in Requests, pc[r] = "sign", NEW e,
         e.fields = job[r].doc.fields, e.step = job[r].doc.step,
         job[r].doc.results \subseteq e.results
  PROVE  Vouched(job[r].plan, e)
<1>1. Vouched(job[r].plan, job[r].doc)
  BY SignsBooked DEF Booked
<1> QED
  BY <1>1 DEF Vouched, Properly, Signers

LEMMA VouchedOn ==
  ASSUME TallyInv, NEW r \in Requests, pc[r] = "sign", NEW e,
         e.fields = job[r].doc.fields,
         e.results = job[r].doc.results \cup Appended(r),
         NEW m \in DOMAIN job[r].plan, Applies(job[r].plan[m], e.fields),
         m \notin Ahead(job[r].plan, job[r].doc.step, e.fields)
  PROVE  Properly(job[r].plan, e, m)
<1>1. /\ r \in Approvers /\ MayDecide(r, job[r].plan)
      /\ job[r].doc \in Docs /\ job[r].plan \in Plans
      /\ Vouched(job[r].plan, job[r].doc)
  BY SignsBooked DEF Booked
<1>2. Mark(r, "approved") \in e.results
  BY DEF Appended
<1> QED
  BY <1>1, <1>2, SignedSoFar

\* The books of an invoice that waits after a step.
LEMMA BookedStep ==
  ASSUME TallyInv, Next, ~Reverting, NEW i \in Invoices, Waiting(doc'[i])
  PROVE  Booked(config[doc'[i].by].steps, doc'[i])
<1> DEFINE Goal == Booked(config[doc'[i].by].steps, doc'[i])
<1>1. TypeOK /\ Phased /\ \A q \in Requests : Planned(q) /\ Current(q)
  BY DEF TallyInv, SerialInv, IInv
<1>2. doc[i] \in Docs
  BY <1>1 DEF TypeOK
<1>3. CASE doc'[i] = doc[i]
  BY <1>3 DEF TallyInv, Tallied
<1>5. ASSUME NEW r \in Requests, job[r].invoice = i, Exists(i),
             Start(r) \/ SignPartly(r) \/ SignOn(r) \/ SignLast(r)
      PROVE  Goal
  <2>1. ASSUME NEW d, Write(i, d)
        PROVE  doc'[i] = d
    BY <1>1, <1>5, <2>1 DEF Write, TypeOK
  <2>2. CASE Start(r)
    <3> DEFINE f == job[r].doc.fields
               skip == ~Applies(job[r].plan[1], f)
               R == IF skip THEN {[req |-> r, step |-> 1, user |-> NoUser,
                                   action |-> "skipped", seen |-> f]} ELSE {}
               n == IF skip THEN 2 ELSE 1
               d == [doc[i] EXCEPT
                       !.status = "AWAITING_APPROVAL", !.flow = "in_progress",
                       !.by = job[r].org, !.step = n, !.results = R,
                       !.ver = @ + 1]
               p == config[job[r].org].steps
    <3>1. doc'[i] = d
      BY <1>5, <2>1, <2>2 DEF Start
    <3>2. pc[r] = "start"
      BY <2>2 DEF Start, At
    <3>3. job[r].plan = p /\ f = doc[i].fields /\ job[r].org \in Orgs
      BY <1>1, <1>5, <3>2 DEF Planned, Current, Phased
    <3>4. p \in Plans
      BY <1>1, <3>3 DEF TypeOK, Plans
    <3>5. \A x \in R : x.action # "approved"
      OBVIOUS
    <3>6. d.by = job[r].org /\ d.step = n /\ d.results = R /\ d.fields = f
      BY <1>2, <3>3 DEF Docs
    <3>7. \A m \in DOMAIN p : m \in Nat \ {0} /\ (Staffed => Required(p[m]) > 0)
      <4>1. config[job[r].org] \in Configs
        BY <1>1, <3>3 DEF TypeOK
      <4> QED
        BY <3>4, <4>1, OrdersArePositive DEF Staffed
    <3>8. \A m \in DOMAIN p : m < n => ~Applies(p[m], f)
      BY <3>3, <3>7
    <3> HIDE DEF d, R, f, p
    <3>9. Booked(p, d)
      BY <3>5, <3>6, <3>7, <3>8, StartBooks
    <3> QED
      BY <3>1, <3>6, <3>9 DEF p
  <2>3. ASSUME pc[r] = "sign"
        PROVE  /\ job[r].doc = doc[i]
               /\ job[r].plan = config[doc[i].by].steps
    BY <1>5, <2>3, SignsBooked
  <2>4. CASE SignPartly(r)
    <3> DEFINE d == [doc[i] EXCEPT !.results = @ \cup {Mark(r, "approved")},
                                   !.ver = @ + 1]
    <3>1. doc'[i] = d /\ pc[r] = "sign" /\ ~Enough(r)
      BY <1>5, <2>1, <2>4 DEF SignPartly, At
    <3>2. /\ d.results = doc[i].results \cup {Mark(r, "approved")}
          /\ d.step = doc[i].step /\ d.fields = doc[i].fields
          /\ d.by = doc[i].by
      BY <1>2 DEF Docs
    <3> HIDE DEF d
    <3>3. Staffed => Counted(job[r].plan, d)
      BY <2>3, <3>1, <3>2, PartlyCounts
    <3>4. Vouched(job[r].plan, d)
      BY <2>3, <3>1, <3>2, VouchedAfter
    <3> QED
      BY <2>3, <3>1, <3>2, <3>3, <3>4 DEF Booked
  <2>5. CASE SignOn(r)
    <3> DEFINE A == Ahead(job[r].plan, job[r].doc.step, job[r].doc.fields)
    <3>1. PICK n \in A :
            /\ IsNext(n, A)
            /\ Write(job[r].invoice,
                     [doc[job[r].invoice] EXCEPT !.results = @ \cup Appended(r),
                                                 !.step = n, !.ver = @ + 1])
      BY <2>5 DEF SignOn
    <3> DEFINE d == [doc[i] EXCEPT !.results = @ \cup Appended(r),
                                   !.step = n, !.ver = @ + 1]
    <3>2. doc'[i] = d /\ pc[r] = "sign" /\ Enough(r)
      BY <1>5, <2>1, <2>5, <3>1 DEF SignOn, At
    <3>3. /\ d.results = doc[i].results \cup Appended(r)
          /\ d.step = n /\ d.fields = doc[i].fields /\ d.by = doc[i].by
      BY <1>2 DEF Docs
    <3> HIDE DEF d
    <3>4. Staffed => Counted(job[r].plan, d)
      BY <2>3, <3>1, <3>2, <3>3, OnCounts
    <3>5. Vouched(job[r].plan, d)
      <4>1. job[r].plan \in Plans
        BY <3>2, SignsBooked
      <4>2. n \in Nat /\ DOMAIN job[r].plan \subseteq Nat
        BY <4>1, OrdersArePositive DEF Ahead
      <4>3. ASSUME NEW m \in DOMAIN job[r].plan, m < d.step,
                   Applies(job[r].plan[m], d.fields)
            PROVE  Properly(job[r].plan, d, m)
        <5>1. m \notin Ahead(job[r].plan, job[r].doc.step, d.fields)
          BY <2>3, <3>1, <3>2, <3>3, <4>2, <4>3 DEF IsNext
        <5> QED
          BY <2>3, <3>2, <3>3, <4>3, <5>1, VouchedOn
      <4> QED
        BY <4>3 DEF Vouched
    <3> QED
      BY <2>3, <3>2, <3>3, <3>4, <3>5 DEF Booked
  <2>6. CASE SignLast(r)
    <3> DEFINE d == [doc[i] EXCEPT !.results = @ \cup Appended(r),
                                   !.status = "APPROVED", !.flow = "approved",
                                   !.step = 0, !.ver = @ + 1]
    <3>1. doc'[i] = d
      BY <1>5, <2>1, <2>6 DEF SignLast
    <3>2. d.flow = "approved"
      BY <1>2 DEF Docs
    <3> QED
      BY <3>1, <3>2 DEF Waiting
  <2> QED
    BY <1>5, <2>2, <2>4, <2>5, <2>6
<1> QED
  BY <1>3, <1>5, WhoWrites DEF TallyInv

\* Switching a workflow: with one organisation, what waits is under it.
LEMMA SwitchTallies ==
  ASSUME TallyInv, NEW r \in Requests, SaveConfig(r), NEW i \in Invoices
  PROVE  Tallied(doc[i])'
<1>1. TypeOK /\ Alone /\ AwaitingIsInProgress /\ Planned(r)
  BY DEF TallyInv, SerialInv, IInv
<1>2. pc[r] = "configure" /\ UNCHANGED doc /\ r \in Configurers
  BY <1>1 DEF SaveConfig, At, Planned
<1>3. RuledInv /\ OneOrg /\ Switchable
  BY <1>2 DEF TallyInv, Steady
<1>4. ~Reverting
  BY <1>1, <1>2 DEF Reverting, Alone, InProgress
<1> SUFFICES ASSUME Waiting(doc[i])
             PROVE  LET p == config'[doc[i].by].steps
                    IN  Booked(p, doc[i]) \/ (Reverting' /\ OnlyAny(p))
  BY <1>2 DEF Tallied, Waiting
<1> DEFINE o == doc[i].by
<1>5. o \in Orgs /\ Booked(config[o].steps, doc[i])
  BY <1>1, <1>4 DEF Waiting, AwaitingIsInProgress, TallyInv, Tallied
<1>6. config[o].enabled /\ config[o] \in Configs
  BY <1>1, <1>3, <1>4, <1>5 DEF RuledInv, Guarded, Waiting, Reverting, TypeOK
<1>7. PICK c \in Configs :
        /\ config' = [config EXCEPT ![OrgOf[job[r].invoice]] = c]
        /\ IF c.enabled THEN Finish(r) ELSE Goto(r, "revert") /\ UNCHANGED job
  BY DEF SaveConfig
<1>8. config'[o] = c
  <2>1. OrgOf[job[r].invoice] \in Orgs
    BY <1>1, <1>2, JobType, ConstantsAssumption
  <2> QED
    BY <1>1, <1>3, <1>5, <1>7, <2>1 DEF OneOrg, TypeOK
<1>9. c.steps = config[o].steps \/ (~c.enabled /\ OnlyAny(c.steps))
  BY <1>3, <1>6 DEF Switchable
<1>10. ~c.enabled => Reverting'
  BY <1>1, <1>7 DEF Reverting, Goto, TypeOK
<1> QED
  BY <1>5, <1>8, <1>9, <1>10

\* ... and is reverted when it is switched off.
LEMMA RevertTallies ==
  ASSUME TallyInv, NEW r \in Requests, RevertWaiting(r), NEW i \in Invoices
  PROVE  ~Waiting(doc'[i])
<1>1. TypeOK /\ Planned(r)
  BY DEF TallyInv, SerialInv, IInv
<1>2. pc[r] = "revert" /\ r \in Configurers
  BY <1>1 DEF RevertWaiting, At, Planned
<1>3. OneOrg
  BY <1>2 DEF TallyInv, Steady
<1>4. OrgOf[i] = OrgOf[job[r].invoice]
  BY <1>1, <1>2, <1>3, JobType, ConstantsAssumption DEF OneOrg
<1>5. doc'[i].status # "AWAITING_APPROVAL"
  <2>1. doc[i] \in Docs
    BY <1>1 DEF TypeOK
  <2> QED
    BY <1>4, <2>1 DEF RevertWaiting, Docs
<1> QED
  BY <1>5 DEF Waiting

LEMMA TalliedStep ==
  ASSUME TallyInv, Next, NEW i \in Invoices
  PROVE  Tallied(doc[i])'
<1>1. TypeOK /\ Alone /\ MaxOpen = 1
  BY DEF TallyInv, SerialInv, IInv
<1>2. CASE Quiet
  BY <1>2 DEF Quiet, vars, TallyInv, Tallied, Reverting
<1>3. ASSUME NEW r \in Requests, Arrive(r) \/ Submission(r) \/ Decision(r)
                                 \/ Upkeep(r)
      PROVE  Tallied(doc[i])'
  <2>1. CASE SaveConfig(r)
    BY <2>1, SwitchTallies
  <2>2. CASE RevertWaiting(r)
    BY <2>2, RevertTallies DEF Tallied, Waiting
  <2>3. CASE ~SaveConfig(r) /\ ~RevertWaiting(r)
    <3>1. UNCHANGED config
      BY <1>3, <2>3 DEF Arrive, Submission, CheckEnabled, ApproveDirectly,
         ReadStatus, FindWorkflow, LoadForEntry, Start, Decision,
         LoadForDecision, Judge, SignPartly, SignOn, SignLast, Reject, Upkeep,
         OpenForEdit, SaveEdit, FetchForExport, MarkExported, Delete
    <3>2. CASE Arrive(r)
      <4>1. InProgress = {}
        BY <1>1, <3>2, NoneInProgress DEF Arrive
      <4>2. ~Reverting
        BY <4>1 DEF Reverting, InProgress
      <4> QED
        BY <3>1, <4>2, BookedStep DEF Tallied, Waiting
    <3>3. CASE ~Arrive(r)
      <4>1. pc[r] \notin {"idle", "done", "revert"}
        BY <1>3, <2>3, <3>3 DEF Submission, CheckEnabled, ApproveDirectly,
           ReadStatus, FindWorkflow, LoadForEntry, Start, Decision,
           LoadForDecision, Judge, SignPartly, SignOn, SignLast, Reject,
           Upkeep, OpenForEdit, SaveEdit, FetchForExport, MarkExported, Delete,
           At
      <4>2. ~Reverting
        BY <1>1, <4>1 DEF Reverting, Alone, InProgress
      <4> QED
        BY <3>1, <4>2, BookedStep DEF Tallied, Waiting
    <3> QED
      BY <3>2, <3>3
  <2> QED
    BY <2>1, <2>2, <2>3
<1> QED
  BY <1>2, <1>3 DEF Next

LEMMA NextTallyInv ==
  ASSUME TallyInv, [Next]_vars
  PROVE  TallyInv'
<1>1. SerialInv'
  BY NextSerialInv DEF TallyInv
<1>2. Configurers # {} => RuledInv'
  BY NextRuledInv DEF TallyInv
<1>3. CASE UNCHANGED vars
  <2>1. \A r \in Requests : Planned(r)'
    BY <1>3 DEF vars, TallyInv, Planned, MayDecide
  <2>2. \A i \in Invoices : Tallied(doc[i])'
    BY <1>3 DEF vars, TallyInv, Tallied, Reverting
  <2> QED
    BY <1>1, <1>2, <2>1, <2>2 DEF TallyInv, Steady
<1>4. CASE Next
  <2>1. \A r \in Requests : Planned(r)'
    BY <1>4, PlannedStep
  <2>2. \A i \in Invoices : Tallied(doc[i])'
    BY <1>4, TalliedStep
  <2> QED
    BY <1>1, <1>2, <2>1, <2>2 DEF TallyInv, Steady
<1> QED
  BY <1>3, <1>4

LEMMA InitTallyInv ==
  ASSUME MaxOpen = 1, Steady, Init
  PROVE  TallyInv
<1>1. \A r \in Requests : pc[r] = "idle"
  BY DEF Init
<1>2. \A r \in Requests : Planned(r)
  BY <1>1 DEF Planned
<1>3. \A i \in Invoices : doc[i].flow = "none"
  BY DEF Init, Fresh
<1>4. \A i \in Invoices : Tallied(doc[i])
  BY <1>3 DEF Tallied, Waiting
<1>5. Configurers # {} => RuledInv
  BY InitRuledInv DEF Steady
<1> QED
  BY <1>2, <1>4, <1>5, InitSerialInv DEF TallyInv

\* A step of rule "all" that everyone it requires has approved does not wait
\* for more.
THEOREM CompleteStepsMoveOn ==
  MaxOpen = 1 /\ Steady /\ Staffed /\ Spec => []CompleteStepMovesOn
<1> SUFFICES ASSUME MaxOpen = 1, Steady, Staffed
             PROVE  Spec => []CompleteStepMovesOn
  OBVIOUS
<1>1. Init => TallyInv
  BY InitTallyInv
<1>2. TallyInv /\ [Next]_vars => TallyInv'
  BY NextTallyInv
<1>3. TallyInv => CompleteStepMovesOn
  <2> SUFFICES ASSUME TallyInv, NEW i \in Invoices,
                      doc[i].status = "AWAITING_APPROVAL"
               PROVE  Unpassed(config[doc[i].by].steps, doc[i])
    BY DEF CompleteStepMovesOn, Unpassed
  <2>1. Waiting(doc[i])
    BY DEF TallyInv, SerialInv, IInv, AwaitingIsInProgress, Waiting
  <2> QED
    BY <2>1 DEF TallyInv, Tallied, Booked, Counted, OnlyAny, Unpassed
<1> QED
  BY <1>1, <1>2, <1>3, PTL DEF Spec

\* Only the approval of a last step completes a workflow.
LEMMA CompletedByLast ==
  ASSUME TallyInv, Next, NEW i \in Invoices, Completes(i)
  PROVE  \E r \in Requests :
           /\ pc[r] = "sign" /\ Enough(r)
           /\ job[r].doc = doc[i] /\ doc[i].by \in Orgs
           /\ job[r].plan = config[doc[i].by].steps
           /\ Ahead(job[r].plan, job[r].doc.step, job[r].doc.fields) = {}
           /\ doc'[i].results = job[r].doc.results \cup Appended(r)
           /\ doc'[i].fields = job[r].doc.fields
<1>1. TypeOK /\ SerialInv /\ doc[i] \in Docs
  BY DEF TallyInv, SerialInv, IInv, TypeOK
<1>2. PICK r \in Requests :
        /\ Start(r) \/ SignPartly(r) \/ SignOn(r) \/ SignLast(r)
        /\ job[r].invoice = i /\ Exists(i)
  BY <1>1, WhoWrites DEF Completes
<1>3. Signed(doc[i], doc'[i]) /\ ~Waiting(doc'[i])
  <2>1. Lawful(doc[i], doc'[i])
    BY <1>1, NextIsSerial DEF SerialStep, AllLawful
  <2> QED
    BY <2>1 DEF Completes, Lawful, Moved, Entered, TurnedDown, Withdrawn,
                Corrected, SameFlow, Waiting
<1>4. ~Start(r)
  <2>1. Start(r) => pc[r] = "start"
    BY DEF Start, At
  <2>2. pc[r] = "start" => doc[i].status \in Open
    BY <1>1, <1>2 DEF SerialInv, Current
  <2> QED
    BY <1>3, <2>1, <2>2 DEF Signed, Waiting, Open
<1>5. ASSUME NEW d, Write(job[r].invoice, d)
      PROVE  doc'[i] = d
  BY <1>1, <1>2, <1>5 DEF Write, TypeOK
<1>6. ~SignPartly(r)
  <2> DEFINE d == [doc[i] EXCEPT !.results = @ \cup {Mark(r, "approved")},
                                 !.ver = @ + 1]
  <2>1. d.flow = doc[i].flow
    BY <1>1 DEF Docs
  <2>2. SignPartly(r) => doc'[i] = d
    BY <1>2, <1>5 DEF SignPartly
  <2> QED
    BY <2>1, <2>2 DEF Completes
<1>7. ~SignOn(r)
  <2>1. SignOn(r) => \E n : doc'[i] = [doc[i] EXCEPT
          !.results = @ \cup Appended(r), !.step = n, !.ver = @ + 1]
    BY <1>2, <1>5 DEF SignOn
  <2>2. \A n : [doc[i] EXCEPT !.results = @ \cup Appended(r),
                  !.step = n, !.ver = @ + 1].flow = doc[i].flow
    BY <1>1 DEF Docs
  <2> QED
    BY <2>1, <2>2 DEF Completes
<1>8. SignLast(r)
  BY <1>2, <1>4, <1>6, <1>7
<1> DEFINE d == [doc[i] EXCEPT !.results = @ \cup Appended(r),
                               !.status = "APPROVED", !.flow = "approved",
                               !.step = 0, !.ver = @ + 1]
<1>9. /\ doc'[i] = d /\ pc[r] = "sign" /\ Enough(r)
      /\ Ahead(job[r].plan, job[r].doc.step, job[r].doc.fields) = {}
  BY <1>2, <1>5, <1>8 DEF SignLast, At
<1>10. d.results = doc[i].results \cup Appended(r) /\ d.fields = doc[i].fields
  BY <1>1 DEF Docs
<1> HIDE DEF d
<1> QED
  BY <1>2, <1>9, <1>10, SignsBooked

\* A workflow approves an invoice only when everyone that a step of rule "all"
\* requires has approved it.
THEOREM AllHaveApproved ==
  MaxOpen = 1 /\ Steady /\ Staffed /\ Spec => AllMeansEveryone
<1> SUFFICES ASSUME MaxOpen = 1, Steady, Staffed
             PROVE  Spec => AllMeansEveryone
  OBVIOUS
<1> DEFINE Everyone(i) == Completes(i) =>
      /\ doc[i].by \in Orgs
      /\ LET p == config[doc[i].by].steps
         IN  \A o \in DOMAIN p :
               Applies(p[o], doc[i].fields) /\ p[o].rule = "all" =>
                 Cardinality(Signers(doc'[i], o)) >= Required(p[o])
<1>1. Init => TallyInv
  BY InitTallyInv
<1>2. TallyInv /\ [Next]_vars => TallyInv'
  BY NextTallyInv
<1>3. TallyInv /\ [Next]_vars => [\A i \in Invoices : Everyone(i)]_vars
  <2> SUFFICES ASSUME TallyInv, Next, NEW i \in Invoices, Completes(i)
               PROVE  Everyone(i)
    BY DEF Completes
  <2>1. PICK r \in Requests :
          /\ pc[r] = "sign" /\ Enough(r)
          /\ job[r].doc = doc[i] /\ doc[i].by \in Orgs
          /\ job[r].plan = config[doc[i].by].steps
          /\ Ahead(job[r].plan, job[r].doc.step, job[r].doc.fields) = {}
          /\ doc'[i].results = job[r].doc.results \cup Appended(r)
    BY CompletedByLast
  <2>2. ApprovedBy(r, job[r].doc, doc'[i])
    BY <2>1, AppendedAfter
  <2>3. ASSUME NEW m \in DOMAIN job[r].plan, job[r].plan[m].rule = "all",
               Applies(job[r].plan[m], doc[i].fields)
        PROVE  Passed(job[r].plan, doc'[i], m)
    BY <2>1, <2>2, <2>3, PassedSoFar
  <2> QED
    BY <2>1, <2>3 DEF Passed
<1> QED
  BY <1>1, <1>2, <1>3, PTL DEF Spec, AllMeansEveryone

\* A workflow approves an invoice only when every step that applies to its
\* contents was approved by a user entitled to it: also when invoices are
\* edited and submitted again, if requests are served one at a time.
THEOREM OneAtATimeStepsAreSigned ==
  MaxOpen = 1 /\ Steady /\ Spec => EveryStepIsSigned
<1> SUFFICES ASSUME MaxOpen = 1, Steady
             PROVE  Spec => EveryStepIsSigned
  OBVIOUS
<1> DEFINE AllSigned(i) == Completes(i) =>
      /\ doc[i].by \in Orgs
      /\ LET p == config[doc[i].by].steps
         IN  \A o \in DOMAIN p : Applies(p[o], doc[i].fields) =>
               \E u \in Signers(doc'[i], o) :
                 CanApprove(u, p[o]) /\ doc[i].fields \in Limit[u]
<1>1. Init => TallyInv
  BY InitTallyInv
<1>2. TallyInv /\ [Next]_vars => TallyInv'
  BY NextTallyInv
<1>3. TallyInv /\ [Next]_vars => [\A i \in Invoices : AllSigned(i)]_vars
  <2> SUFFICES ASSUME TallyInv, Next, NEW i \in Invoices, Completes(i)
               PROVE  AllSigned(i)
    BY DEF Completes
  <2>1. PICK r \in Requests :
          /\ pc[r] = "sign"
          /\ job[r].doc = doc[i] /\ doc[i].by \in Orgs
          /\ job[r].plan = config[doc[i].by].steps
          /\ Ahead(job[r].plan, job[r].doc.step, job[r].doc.fields) = {}
          /\ doc'[i].results = job[r].doc.results \cup Appended(r)
          /\ doc'[i].fields = job[r].doc.fields
    BY CompletedByLast
  <2>2. ASSUME NEW m \in DOMAIN job[r].plan,
               Applies(job[r].plan[m], doc'[i].fields)
        PROVE  Properly(job[r].plan, doc'[i], m)
    BY <2>1, <2>2, VouchedOn
  <2> QED
    BY <2>1, <2>2 DEF Properly
<1> QED
  BY <1>1, <1>2, <1>3, PTL DEF Spec, EveryStepIsSigned

=============================================================================
