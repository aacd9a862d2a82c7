------------------------ MODULE ApprovalSerialProofs ------------------------
(***************************************************************************)
(* What the approval workflow promises as long as requests are served one  *)
(* at a time (MaxOpen = 1), for every set of organisations, invoices,      *)
(* users and requests and every set of configurations. Overlapping         *)
(* requests break each of these properties (README, Findings).             *)
(***************************************************************************)
EXTENDS ApprovalWorkflowProofs, FiniteSetTheorems

-----------------------------------------------------------------------------
(* What may become of a document in one step, when nothing else happens    *)
(* to it meanwhile: d is the document before, e the document after.        *)

Waiting(d) == d.status = "AWAITING_APPROVAL" /\ d.flow = "in_progress"

SameFlow(d, e) == e.flow = d.flow /\ e.results = d.results

\* A result that does not contradict an approval of the contents f.
Agrees(x, f) == /\ x.action # "rejected"
                /\ x.action = "approved" => x.seen = f
AllAgree(d)  == \A x \in d.results : Agrees(x, d.fields)

\* Approved without a workflow, exported, deleted.
Moved(d, e) ==
  /\ e.fields = d.fields /\ SameFlow(d, e)
  /\ \/ d.status \in Open /\ e.status = "APPROVED"
     \/ d.status = "APPROVED" /\ e.status = "EXPORTED"
     \/ d.status # "EXPORTED" /\ e.status = "DELETED"

\* Submitted to a workflow.
Entered(d, e) ==
  /\ d.status \in Open /\ Waiting(e)
  /\ e.fields = d.fields /\ AllAgree(e) /\ VotesIn(e.results) = {}

\* The votes are those on d, and one more.
VoteAdded(d, e, action) ==
  VotesIn(e.results)
    = VotesIn(d.results) \cup {[action |-> action, seen |-> d.fields]}

\* Approved by a user: the workflow goes on, or approves the invoice.
Signed(d, e) ==
  /\ Waiting(d) /\ e.fields = d.fields /\ VoteAdded(d, e, "approved")
  /\ \A x \in e.results : x \in d.results \/ Agrees(x, d.fields)
  /\ \/ Waiting(e)
     \/ e.status = "APPROVED" /\ e.flow = "approved"

\* Rejected by a user.
TurnedDown(d, e) ==
  /\ Waiting(d) /\ e.fields = d.fields /\ VoteAdded(d, e, "rejected")
  /\ e.status = "NEEDS_REVIEW" /\ e.flow = "rejected"

\* Taken out of the workflow, by an edit or with the workflow.
Withdrawn(d, e) ==
  /\ d.status = "AWAITING_APPROVAL"
  /\ e.status = "NEEDS_REVIEW" /\ e.flow = "none" /\ e.results = {}

\* Edited outside a workflow.
Corrected(d, e) ==
  /\ SameFlow(d, e)
  /\ d.status \in Open \cup {"APPROVED"}
  /\ e.status = StatusAfterEdit(d, e.fields)

Lawful(d, e) ==
  \/ e = d
  \/ Moved(d, e) \/ Entered(d, e) \/ Signed(d, e)
  \/ TurnedDown(d, e) \/ Withdrawn(d, e) \/ Corrected(d, e)

-----------------------------------------------------------------------------
(* The invariant.                                                          *)

\* One request is in progress at most.
Alone == \A q, r \in InProgress : q = r

\* So what it has read is what there is.
Current(r) ==
  LET d == doc[job[r].invoice] IN
  /\ pc[r] \in {"start", "judge", "sign", "reject", "save"} => job[r].doc = d
  /\ pc[r] = "start" => d.status \in Open
  /\ pc[r] \in {"judge", "sign", "reject"} => Waiting(d)
  /\ pc[r] = "save" => d.status \notin {"EXPORTED", "DELETED"}
  /\ pc[r] = "mark" => d.status = "APPROVED"

\* A workflow in progress has no rejection, and its approvals are of the
\* contents there are; nor has one that approved the invoice a rejection.
Sound(d) ==
  /\ d.flow = "in_progress" => /\ d.status \in {"AWAITING_APPROVAL", "DELETED"}
                               /\ AllAgree(d)
  /\ d.flow = "approved" => \A x \in d.results : x.action # "rejected"

SerialInv ==
  /\ IInv
  /\ MaxOpen = 1
  /\ Alone
  /\ \A r \in Requests : Current(r)
  /\ \A i \in Invoices : Sound(doc[i])

-----------------------------------------------------------------------------
(* One request at a time.                                                  *)

\* A request that arrives finds none in progress.
LEMMA NoneInProgress ==
  ASSUME Alone, Cardinality(InProgress) < 1
  PROVE  InProgress = {}
<1> SUFFICES ASSUME NEW r \in InProgress
             PROVE  FALSE
  OBVIOUS
<1>1. InProgress = {r}
  BY DEF Alone
<1>2. Cardinality({r}) = 1
  BY FS_Singleton
<1> QED
  BY <1>1, <1>2

\* After a step of the request in progress, no other is.
LEMMA StaysAlone ==
  ASSUME TypeOK, Alone, NEW r \in Requests, NEW phase,
         pc[r] \notin {"idle", "done"}, Goto(r, phase)
  PROVE  /\ Alone'
         /\ \A q \in Requests \ {r} : pc'[q] \in {"idle", "done"}
         /\ pc'[r] = phase
<1>1. pc' = [pc EXCEPT ![r] = phase] /\ pc \in [Requests -> Phases]
  BY DEF Goto, TypeOK
<1>2. \A q \in Requests \ {r} : pc'[q] \in {"idle", "done"}
  BY <1>1 DEF Alone, InProgress
<1>3. Alone'
  BY <1>2 DEF Alone, InProgress
<1> QED
  BY <1>1, <1>2, <1>3

LEMMA ArrivesAlone ==
  ASSUME TypeOK, Alone, InProgress = {}, NEW r \in Requests, NEW phase,
         Goto(r, phase)
  PROVE  /\ Alone'
         /\ \A q \in Requests \ {r} : pc'[q] \in {"idle", "done"}
         /\ pc'[r] = phase
<1>1. pc' = [pc EXCEPT ![r] = phase] /\ pc \in [Requests -> Phases]
  BY DEF Goto, TypeOK
<1>2. \A q \in Requests \ {r} : pc'[q] \in {"idle", "done"}
  BY <1>1 DEF InProgress
<1>3. Alone'
  BY <1>2 DEF Alone, InProgress
<1> QED
  BY <1>1, <1>2, <1>3

\* Phases of which Current says nothing.
Plain == Phases \ {"start", "judge", "sign", "reject", "save", "mark"}

\* What is left to show of Current after a step.
LEMMA CurrentByStep ==
  ASSUME NEW r \in Requests,
         \A q \in Requests \ {r} : pc'[q] \in {"idle", "done"},
         pc'[r] \in Plain \/ Current(r)'
  PROVE  \A q \in Requests : Current(q)'
  BY DEF Current, Plain

LEMMA FinishCurrent ==
  ASSUME TypeOK, Alone, NEW r \in Requests, pc[r] \notin {"idle", "done"},
         Finish(r)
  PROVE  Alone' /\ \A q \in Requests : Current(q)'
<1>1. Goto(r, "done")
  BY DEF Finish
<1>2. /\ Alone' /\ pc'[r] = "done"
      /\ \A q \in Requests \ {r} : pc'[q] \in {"idle", "done"}
  BY <1>1, StaysAlone
<1>3. pc'[r] \in Plain
  BY <1>2 DEF Plain, Phases
<1> QED
  BY <1>2, <1>3, CurrentByStep

LEMMA GotoCurrent ==
  ASSUME TypeOK, Alone, NEW r \in Requests, pc[r] \notin {"idle", "done"},
         NEW phase \in Plain, Goto(r, phase)
  PROVE  Alone' /\ \A q \in Requests : Current(q)'
<1>1. /\ Alone' /\ pc'[r] = phase
      /\ \A q \in Requests \ {r} : pc'[q] \in {"idle", "done"}
  BY StaysAlone
<1> QED
  BY <1>1, CurrentByStep

\* A request that reads the document it is about.
LEMMA ReadCurrent ==
  ASSUME TypeOK, Alone, NEW r \in Requests, pc[r] \notin {"idle", "done"},
         NEW phase, Goto(r, phase), UNCHANGED doc,
         Learn(r, [job[r] EXCEPT !.doc = doc[job[r].invoice]]),
         phase = "start" => doc[job[r].invoice].status \in Open,
         phase \in {"judge", "sign", "reject"} => Waiting(doc[job[r].invoice]),
         phase = "save" => doc[job[r].invoice].status \notin {"EXPORTED", "DELETED"},
         phase = "mark" => doc[job[r].invoice].status = "APPROVED"
  PROVE  Alone' /\ \A q \in Requests : Current(q)'
<1>1. /\ Alone' /\ pc'[r] = phase
      /\ \A q \in Requests \ {r} : pc'[q] \in {"idle", "done"}
  BY StaysAlone
<1>2. job[r] \in Jobs
  BY JobType
<1>3. job'[r].doc = doc[job[r].invoice] /\ job'[r].invoice = job[r].invoice
  BY <1>2 DEF Learn, TypeOK, Jobs
<1>4. Current(r)'
  BY <1>1, <1>3 DEF Current, Waiting
<1> QED
  BY <1>1, <1>4, CurrentByStep

-----------------------------------------------------------------------------
(* Every step is lawful.                                                   *)

AllLawful == \A i \in Invoices : Lawful(doc[i], doc'[i])
SerialStep == Alone' /\ (\A q \in Requests : Current(q)') /\ AllLawful

LEMMA NothingWritten ==
  ASSUME UNCHANGED doc
  PROVE  AllLawful
  BY DEF AllLawful, Lawful

LEMMA OneWritten ==
  ASSUME TypeOK, NEW i \in Invoices, NEW d, doc' = [doc EXCEPT ![i] = d],
         Lawful(doc[i], d)
  PROVE  AllLawful
<1> SUFFICES ASSUME NEW k \in Invoices
             PROVE  Lawful(doc[k], doc'[k])
  BY DEF AllLawful
<1>1. CASE k = i
  BY <1>1 DEF TypeOK
<1>2. CASE k # i
  <2>1. doc'[k] = doc[k]
    BY <1>2 DEF TypeOK
  <2> QED
    BY <2>1 DEF Lawful
<1> QED
  BY <1>1, <1>2

LEMMA WriteLawful ==
  ASSUME TypeOK, NEW i \in Invoices, NEW d, Write(i, d), Lawful(doc[i], d)
  PROVE  AllLawful
<1>1. CASE Exists(i)
  <2>1. doc' = [doc EXCEPT ![i] = d]
    BY <1>1 DEF Write
  <2> QED
    BY <2>1, OneWritten
<1>2. CASE ~Exists(i)
  <2>1. doc' = [doc EXCEPT ![i] = doc[i]]
    BY <1>2 DEF Write
  <2>2. UNCHANGED doc
    BY <2>1 DEF TypeOK
  <2> QED
    BY <2>2, NothingWritten
<1> QED
  BY <1>1, <1>2

LEMMA ArriveIsSerial ==
  ASSUME SerialInv, NEW r \in Requests, Arrive(r)
  PROVE  SerialStep
<1>1. TypeOK /\ Alone /\ MaxOpen = 1
  BY DEF SerialInv, IInv
<1>2. InProgress = {}
  BY <1>1, NoneInProgress DEF Arrive
<1>3. Goto(r, FirstPhase(r)) /\ UNCHANGED doc
  BY DEF Arrive
<1>4. /\ Alone' /\ pc'[r] = FirstPhase(r)
      /\ \A q \in Requests \ {r} : pc'[q] \in {"idle", "done"}
  BY <1>1, <1>2, <1>3, ArrivesAlone
<1>5. FirstPhase(r) \in Plain
  BY DEF FirstPhase, Plain, Phases, Requests, Approvers
<1>6. \A q \in Requests : Current(q)'
  BY <1>4, <1>5, CurrentByStep
<1> QED
  BY <1>3, <1>4, <1>6, NothingWritten DEF SerialStep

LEMMA SubmissionIsSerial ==
  ASSUME SerialInv, NEW r \in Requests, Submission(r)
  PROVE  SerialStep
<1>1. TypeOK /\ Alone /\ Phased /\ Current(r)
  BY DEF SerialInv, IInv
<1>2. CASE CheckEnabled(r)
  <2>1. PICK phase \in {"read", "direct"} : Goto(r, phase)
    BY <1>2 DEF CheckEnabled
  <2>2. pc[r] \notin {"idle", "done"} /\ phase \in Plain
    BY <1>2 DEF CheckEnabled, At, Plain, Phases
  <2>3. UNCHANGED doc
    BY <1>2 DEF CheckEnabled
  <2> QED
    BY <1>1, <2>1, <2>2, <2>3, GotoCurrent, NothingWritten DEF SerialStep
<1>3. CASE ApproveDirectly(r)
  <2> DEFINE i == job[r].invoice
             d == [doc[i] EXCEPT !.status = IF @ \in Open THEN "APPROVED" ELSE @]
  <2>1. pc[r] \notin {"idle", "done"} /\ Finish(r)
    BY <1>3 DEF ApproveDirectly, At
  <2>2. i \in Invoices /\ doc[i] \in Docs
    BY <1>1, <2>1, JobType
  <2>3. doc' = [doc EXCEPT ![i] = d]
    BY <1>3 DEF ApproveDirectly
  <2>4. Lawful(doc[i], d)
    <3>1. CASE doc[i].status \in Open
      BY <2>2, <3>1 DEF Lawful, Moved, SameFlow, Docs
    <3>2. CASE doc[i].status \notin Open
      <4>1. d = doc[i]
        BY <2>2, <3>2 DEF Docs
      <4> QED
        BY <4>1 DEF Lawful
    <3> QED
      BY <3>1, <3>2
  <2> HIDE DEF i, d
  <2>5. AllLawful
    BY <1>1, <2>2, <2>3, <2>4, OneWritten
  <2> QED
    BY <1>1, <2>1, <2>5, FinishCurrent DEF SerialStep
<1>4. CASE ReadStatus(r)
  <2>1. pc[r] \notin {"idle", "done"} /\ UNCHANGED doc
    BY <1>4 DEF ReadStatus, At
  <2>2. Finish(r) \/ \E phase \in {"find", "load"} : Goto(r, phase)
    BY <1>4 DEF ReadStatus
  <2>3. {"find", "load"} \subseteq Plain
    BY DEF Plain, Phases
  <2> QED
    BY <1>1, <2>1, <2>2, <2>3, FinishCurrent, GotoCurrent, NothingWritten
       DEF SerialStep
<1>5. CASE FindWorkflow(r)
  <2>1. pc[r] \notin {"idle", "done"} /\ UNCHANGED doc
    BY <1>5 DEF FindWorkflow, At
  <2>2. \E phase \in {"direct", "enter"} : Goto(r, phase)
    BY <1>5 DEF FindWorkflow
  <2>3. {"direct", "enter"} \subseteq Plain
    BY DEF Plain, Phases
  <2> QED
    BY <1>1, <2>1, <2>2, <2>3, GotoCurrent, NothingWritten DEF SerialStep
<1>6. CASE LoadForEntry(r)
  <2>1. pc[r] \notin {"idle", "done"} /\ UNCHANGED doc
    BY <1>6 DEF LoadForEntry, At
  <2>2. CASE Goto(r, "direct")
    <3>1. "direct" \in Plain
      BY DEF Plain, Phases
    <3> QED
      BY <1>1, <2>1, <2>2, <3>1, GotoCurrent, NothingWritten DEF SerialStep
  <2>3. CASE ~Goto(r, "direct")
    <3>1. /\ Goto(r, "start") /\ doc[job[r].invoice].status \in Open
          /\ Learn(r, [job[r] EXCEPT !.doc = doc[job[r].invoice]])
      BY <1>6, <2>3 DEF LoadForEntry
    <3>2. Alone' /\ \A q \in Requests : Current(q)'
      BY <1>1, <2>1, <3>1, ReadCurrent
    <3> QED
      BY <2>1, <3>2, NothingWritten DEF SerialStep
  <2> QED
    BY <2>2, <2>3
<1>7. CASE Start(r)
  <2> DEFINE i == job[r].invoice
             f == job[r].doc.fields
             skip == ~Applies(job[r].plan[1], f)
             R == IF skip THEN {[req |-> r, step |-> 1, user |-> NoUser,
                                 action |-> "skipped", seen |-> f]} ELSE {}
             n == IF skip THEN 2 ELSE 1
             d == [doc[i] EXCEPT
                     !.status = "AWAITING_APPROVAL", !.flow = "in_progress",
                     !.by = job[r].org, !.step = n, !.results = R,
                     !.ver = @ + 1]
  <2>1. pc[r] = "start"
    BY <1>7 DEF Start, At
  <2>2. i \in Invoices /\ doc[i] \in Docs /\ doc[i].status \in Open
    BY <1>1, <2>1, JobType DEF Current
  <2>3. Write(i, d)
    BY <1>7 DEF Start
  <2>4. (\A x \in R : x.action = "skipped") /\ VotesIn(R) = {}
    BY DEF VotesIn
  <2> HIDE DEF n, R
  <2>5. Waiting(d) /\ d.fields = doc[i].fields /\ d.results = R
    BY <2>2 DEF Docs, Waiting
  <2> HIDE DEF i, d
  <2>6. Lawful(doc[i], d)
    BY <2>2, <2>4, <2>5 DEF Lawful, Entered, AllAgree, Agrees
  <2>7. AllLawful
    BY <1>1, <2>2, <2>3, <2>6, WriteLawful
  <2>8. Finish(r) \/ Goto(r, "load")
    BY <1>7 DEF Start
  <2>9. "load" \in Plain
    BY DEF Plain, Phases
  <2> QED
    BY <1>1, <2>1, <2>7, <2>8, <2>9, FinishCurrent, GotoCurrent DEF SerialStep
<1> QED
  BY <1>2, <1>3, <1>4, <1>5, <1>6, <1>7 DEF Submission

\* What a request appends is one vote on the contents it was given.
LEMMA VotesAdd ==
  ASSUME NEW R, NEW S
  PROVE  VotesIn(R \cup S) = VotesIn(R) \cup VotesIn(S)
  BY DEF VotesIn

LEMMA MarkIsVote ==
  ASSUME NEW r, NEW action \in {"approved", "rejected"}
  PROVE  VotesIn({Mark(r, action)})
           = {[action |-> action, seen |-> job[r].doc.fields]}
<1>1. Mark(r, action).action = action
      /\ Mark(r, action).seen = job[r].doc.fields
  BY DEF Mark
<1> QED
  BY <1>1 DEF VotesIn

LEMMA AppendedIsVote ==
  ASSUME NEW r
  PROVE  VotesIn(Appended(r))
           = {[action |-> "approved", seen |-> job[r].doc.fields]}
<1> DEFINE S == Appended(r) \ {Mark(r, "approved")}
<1>1. \A x \in S : x.action = "skipped"
  BY DEF Appended
<1>2. VotesIn(S) = {}
  BY <1>1 DEF VotesIn
<1>3. Appended(r) = {Mark(r, "approved")} \cup S
  BY DEF Appended
<1>4. VotesIn({Mark(r, "approved")})
        = {[action |-> "approved", seen |-> job[r].doc.fields]}
  BY MarkIsVote
<1> HIDE DEF S
<1>5. VotesIn({Mark(r, "approved")} \cup S)
        = VotesIn({Mark(r, "approved")}) \cup VotesIn(S)
  BY VotesAdd
<1> QED
  BY <1>2, <1>3, <1>4, <1>5

\* What an approval appends agrees with the contents it was given to.
LEMMA AppendedAgrees ==
  ASSUME NEW r, NEW x \in Appended(r)
  PROVE  Agrees(x, job[r].doc.fields)
  BY DEF Appended, Mark, Agrees

LEMMA DecisionIsSerial ==
  ASSUME SerialInv, NEW r \in Requests, Decision(r)
  PROVE  SerialStep
<1> DEFINE i == job[r].invoice
<1>1. TypeOK /\ Alone /\ Phased /\ Current(r)
  BY DEF SerialInv, IInv
<1>2. pc[r] \notin {"idle", "done"}
  BY DEF Decision, LoadForDecision, Judge, SignPartly, SignOn, SignLast,
         Reject, At
<1>3. i \in Invoices /\ doc[i] \in Docs /\ job[r] \in Jobs
  BY <1>1, <1>2, JobType
<1>4. ASSUME Finish(r), NEW d, Write(i, d), Lawful(doc[i], d)
      PROVE  SerialStep
  <2>1. AllLawful
    BY <1>1, <1>3, <1>4, WriteLawful
  <2> QED
    BY <1>1, <1>2, <1>4, <2>1, FinishCurrent DEF SerialStep
<1>5. CASE LoadForDecision(r)
  <2>1. UNCHANGED doc
    BY <1>5 DEF LoadForDecision
  <2>2. CASE Finish(r)
    BY <1>1, <1>2, <2>1, <2>2, FinishCurrent, NothingWritten DEF SerialStep
  <2>3. CASE ~Finish(r)
    <3>1. /\ Goto(r, "judge") /\ Waiting(doc[job[r].invoice])
          /\ Learn(r, [job[r] EXCEPT !.doc = doc[job[r].invoice]])
      BY <1>5, <2>3 DEF LoadForDecision, Waiting
    <3>2. Alone' /\ \A q \in Requests : Current(q)'
      BY <1>1, <1>2, <2>1, <3>1, ReadCurrent
    <3> QED
      BY <2>1, <3>2, NothingWritten DEF SerialStep
  <2> QED
    BY <2>2, <2>3
<1>6. CASE Judge(r)
  <2> DEFINE o == job[r].doc.by
             p == IF o \in Orgs THEN config[o].steps ELSE NoPlan
  <2>1. UNCHANGED doc /\ pc[r] = "judge"
    BY <1>6 DEF Judge, At
  <2>2. CASE Finish(r)
    BY <1>1, <1>2, <2>1, <2>2, FinishCurrent, NothingWritten DEF SerialStep
  <2>3. CASE ~Finish(r)
    <3>1. PICK phase \in {"reject", "sign"} : Goto(r, phase)
      BY <1>6, <2>3 DEF Judge
    <3>2. Learn(r, [job[r] EXCEPT !.plan = p])
      BY <1>6, <2>3 DEF Judge
    <3> HIDE DEF p
    <3>3. job'[r].doc = job[r].doc /\ job'[r].invoice = job[r].invoice
      BY <1>1, <1>3, <3>2 DEF Learn, TypeOK, Jobs
    <3>4. /\ Alone' /\ pc'[r] = phase
          /\ \A q \in Requests \ {r} : pc'[q] \in {"idle", "done"}
      BY <1>1, <1>2, <3>1, StaysAlone
    <3>5. Current(r)'
      BY <1>1, <2>1, <3>3, <3>4 DEF Current, Waiting
    <3>6. \A q \in Requests : Current(q)'
      BY <3>4, <3>5, CurrentByStep
    <3> QED
      BY <2>1, <3>4, <3>6, NothingWritten DEF SerialStep
  <2> QED
    BY <2>2, <2>3
<1>7. ASSUME pc[r] = "sign"
      PROVE  /\ Waiting(doc[i])
             /\ \A x \in doc[i].results \cup {Mark(r, "approved")} :
                   x \in doc[i].results \/ Agrees(x, doc[i].fields)
             /\ \A x \in doc[i].results \cup Appended(r) :
                   x \in doc[i].results \/ Agrees(x, doc[i].fields)
             /\ \A R \in {{Mark(r, "approved")}, Appended(r)} :
                  VotesIn(doc[i].results \cup R)
                    = VotesIn(doc[i].results)
                        \cup {[action |-> "approved", seen |-> doc[i].fields]}
  <2>1. job[r].doc = doc[i] /\ Waiting(doc[i])
    BY <1>1, <1>7 DEF Current
  <2>2. Mark(r, "approved") \in Appended(r)
    BY DEF Appended
  <2>3. \A R \in {{Mark(r, "approved")}, Appended(r)} :
          VotesIn(R) = {[action |-> "approved", seen |-> doc[i].fields]}
    BY <2>1, MarkIsVote, AppendedIsVote
  <2> HIDE DEF i
  <2> QED
    BY <2>1, <2>2, <2>3, AppendedAgrees, VotesAdd
<1>8. CASE SignPartly(r)
  <2> DEFINE R == doc[i].results \cup {Mark(r, "approved")}
             d == [doc[i] EXCEPT !.results = R, !.ver = @ + 1]
  <2>1. pc[r] = "sign" /\ Write(i, d) /\ Finish(r)
    BY <1>8 DEF SignPartly, At
  <2>2. /\ \A x \in R : x \in doc[i].results \/ Agrees(x, doc[i].fields)
        /\ VotesIn(R) = VotesIn(doc[i].results)
             \cup {[action |-> "approved", seen |-> doc[i].fields]}
    BY <1>7, <2>1
  <2> HIDE DEF R
  <2>3. Waiting(d) /\ d.fields = doc[i].fields /\ d.results = R
    BY <1>3, <1>7, <2>1 DEF Docs, Waiting
  <2> HIDE DEF d, i
  <2>4. Lawful(doc[i], d)
    BY <1>7, <2>1, <2>2, <2>3 DEF Lawful, Signed, VoteAdded
  <2> QED
    BY <1>4, <2>1, <2>4
<1>9. CASE SignOn(r)
  <2>1. PICK n \in Ahead(job[r].plan, job[r].doc.step, job[r].doc.fields) :
          Write(i, [doc[i] EXCEPT !.results = @ \cup Appended(r),
                                  !.step = n, !.ver = @ + 1])
    BY <1>9 DEF SignOn
  <2> DEFINE R == doc[i].results \cup Appended(r)
             d == [doc[i] EXCEPT !.results = R, !.step = n, !.ver = @ + 1]
  <2>2. pc[r] = "sign" /\ Write(i, d) /\ Finish(r)
    BY <1>9, <2>1 DEF SignOn, At
  <2>3. /\ \A x \in R : x \in doc[i].results \/ Agrees(x, doc[i].fields)
        /\ VotesIn(R) = VotesIn(doc[i].results)
             \cup {[action |-> "approved", seen |-> doc[i].fields]}
    BY <1>7, <2>2
  <2> HIDE DEF R
  <2>4. Waiting(d) /\ d.fields = doc[i].fields /\ d.results = R
    BY <1>3, <1>7, <2>2 DEF Docs, Waiting
  <2> HIDE DEF d, i
  <2>5. Lawful(doc[i], d)
    BY <1>7, <2>2, <2>3, <2>4 DEF Lawful, Signed, VoteAdded
  <2> QED
    BY <1>4, <2>2, <2>5
<1>10. CASE SignLast(r)
  <2> DEFINE R == doc[i].results \cup Appended(r)
             d == [doc[i] EXCEPT !.results = R, !.status = "APPROVED",
                                 !.flow = "approved", !.step = 0, !.ver = @ + 1]
  <2>1. pc[r] = "sign" /\ Write(i, d) /\ Finish(r)
    BY <1>10 DEF SignLast, At
  <2>2. /\ \A x \in R : x \in doc[i].results \/ Agrees(x, doc[i].fields)
        /\ VotesIn(R) = VotesIn(doc[i].results)
             \cup {[action |-> "approved", seen |-> doc[i].fields]}
    BY <1>7, <2>1
  <2> HIDE DEF R
  <2>3. /\ d.status = "APPROVED" /\ d.flow = "approved"
        /\ d.fields = doc[i].fields /\ d.results = R
    BY <1>3 DEF Docs
  <2> HIDE DEF d, i
  <2>4. Lawful(doc[i], d)
    BY <1>7, <2>1, <2>2, <2>3 DEF Lawful, Signed, VoteAdded
  <2> QED
    BY <1>4, <2>1, <2>4
<1>11. CASE Reject(r)
  <2> DEFINE R == doc[i].results \cup {Mark(r, "rejected")}
             d == [doc[i] EXCEPT !.results = R, !.status = "NEEDS_REVIEW",
                                 !.flow = "rejected", !.ver = @ + 1]
  <2>1. pc[r] = "reject" /\ Write(i, d) /\ Finish(r)
    BY <1>11 DEF Reject, At
  <2>2. Waiting(doc[i]) /\ job[r].doc = doc[i]
    BY <1>1, <2>1 DEF Current
  <2>3. VotesIn(R) = VotesIn(doc[i].results)
          \cup {[action |-> "rejected", seen |-> doc[i].fields]}
    <3>1. VotesIn({Mark(r, "rejected")})
            = {[action |-> "rejected", seen |-> doc[i].fields]}
      BY <2>2, MarkIsVote
    <3>2. VotesIn(R)
            = VotesIn(doc[i].results) \cup VotesIn({Mark(r, "rejected")})
      <4> HIDE DEF i
      <4> QED
        BY VotesAdd
    <3> QED
      BY <3>1, <3>2
  <2> HIDE DEF R
  <2>4. /\ d.status = "NEEDS_REVIEW" /\ d.flow = "rejected"
        /\ d.fields = doc[i].fields /\ d.results = R
    BY <1>3 DEF Docs
  <2> HIDE DEF d, i
  <2>5. Lawful(doc[i], d)
    BY <2>2, <2>3, <2>4 DEF Lawful, TurnedDown, VoteAdded
  <2> QED
    BY <1>4, <2>1, <2>5
<1> QED
  BY <1>5, <1>6, <1>8, <1>9, <1>10, <1>11 DEF Decision

LEMMA UpkeepIsSerial ==
  ASSUME SerialInv, NEW r \in Requests, Upkeep(r)
  PROVE  SerialStep
<1> DEFINE i == job[r].invoice
<1>1. TypeOK /\ Alone /\ Current(r)
  BY DEF SerialInv, IInv
<1>2. pc[r] \notin {"idle", "done"}
  BY DEF Upkeep, OpenForEdit, SaveEdit, SaveConfig, RevertWaiting,
         FetchForExport, MarkExported, Delete, At
<1>3. i \in Invoices /\ doc[i] \in Docs /\ job[r] \in Jobs
  BY <1>1, <1>2, JobType
<1>4. CASE OpenForEdit(r)
  <2>1. UNCHANGED doc
    BY <1>4 DEF OpenForEdit
  <2>2. CASE Finish(r)
    BY <1>1, <1>2, <2>1, <2>2, FinishCurrent, NothingWritten DEF SerialStep
  <2>3. CASE ~Finish(r)
    <3>1. /\ Goto(r, "save")
          /\ doc[job[r].invoice].status \notin {"EXPORTED", "DELETED"}
          /\ Learn(r, [job[r] EXCEPT !.doc = doc[job[r].invoice]])
      BY <1>4, <2>3 DEF OpenForEdit
    <3>2. Alone' /\ \A q \in Requests : Current(q)'
      BY <1>1, <1>2, <2>1, <3>1, ReadCurrent
    <3> QED
      BY <2>1, <3>2, NothingWritten DEF SerialStep
  <2> QED
    BY <2>2, <2>3
<1>5. CASE SaveEdit(r)
  <2>1. Finish(r) /\ pc[r] = "save"
    BY <1>5 DEF SaveEdit, At
  <2>2. job[r].doc = doc[i] /\ doc[i].status \notin {"EXPORTED", "DELETED"}
    BY <1>1, <2>1 DEF Current
  <2>3. CASE UNCHANGED doc
    BY <1>1, <1>2, <2>1, <2>3, FinishCurrent, NothingWritten DEF SerialStep
  <2>4. CASE ~UNCHANGED doc
    <3>1. PICK f \in Fields : doc' = [doc EXCEPT ![i] = Edited(doc[i], doc[i], f)]
      BY <1>5, <2>2, <2>4 DEF SaveEdit
    <3> DEFINE d == Edited(doc[i], doc[i], f)
               s == StatusAfterEdit(doc[i], f)
    <3>2. ASSUME doc[i].status = "AWAITING_APPROVAL"
          PROVE  Lawful(doc[i], d)
      <4>1. s = "NEEDS_REVIEW"
        BY <3>2 DEF StatusAfterEdit
      <4>2. d.status = "NEEDS_REVIEW" /\ d.flow = "none" /\ d.results = {}
        BY <1>3, <3>2, <4>1 DEF Edited, Docs
      <4> QED
        BY <3>2, <4>2 DEF Lawful, Withdrawn
    <3>3. ASSUME doc[i].status # "AWAITING_APPROVAL"
          PROVE  Lawful(doc[i], d)
      <4>1. doc[i].status \in Open \cup {"APPROVED"}
        BY <1>3, <2>2, <3>3 DEF Docs, Statuses, Open
      <4>2. d.status = s /\ d.fields = f /\ SameFlow(doc[i], d)
        BY <1>3, <3>3 DEF Edited, SameFlow, Docs
      <4> HIDE DEF d
      <4> QED
        BY <4>1, <4>2 DEF Lawful, Corrected
    <3> HIDE DEF d
    <3>4. Lawful(doc[i], d)
      BY <3>2, <3>3
    <3>5. AllLawful
      BY <1>1, <1>3, <3>1, <3>4, OneWritten DEF d
    <3> QED
      BY <1>1, <1>2, <2>1, <3>5, FinishCurrent DEF SerialStep
  <2> QED
    BY <2>3, <2>4
<1>6. CASE SaveConfig(r)
  <2>1. UNCHANGED doc /\ (Finish(r) \/ Goto(r, "revert"))
    BY <1>6 DEF SaveConfig
  <2>2. "revert" \in Plain
    BY DEF Plain, Phases
  <2> QED
    BY <1>1, <1>2, <2>1, <2>2, FinishCurrent, GotoCurrent, NothingWritten
       DEF SerialStep
<1>7. CASE RevertWaiting(r)
  <2>1. Finish(r)
    BY <1>7 DEF RevertWaiting
  <2>2. ASSUME NEW k \in Invoices
        PROVE  Lawful(doc[k], doc'[k])
    <3> DEFINE e == [doc[k] EXCEPT !.status = "NEEDS_REVIEW", !.flow = "none",
                                   !.step = 0, !.by = NoOrg, !.results = {}]
    <3>1. \/ doc'[k] = doc[k]
          \/ doc[k].status = "AWAITING_APPROVAL" /\ doc'[k] = e
      BY <1>7 DEF RevertWaiting
    <3>2. doc[k] \in Docs
      BY <1>1 DEF TypeOK
    <3>3. e.status = "NEEDS_REVIEW" /\ e.flow = "none" /\ e.results = {}
      BY <3>2 DEF Docs
    <3> HIDE DEF e
    <3> QED
      BY <3>1, <3>3 DEF Lawful, Withdrawn
  <2> QED
    BY <1>1, <1>2, <2>1, <2>2, FinishCurrent DEF SerialStep, AllLawful
<1>8. CASE FetchForExport(r)
  <2>1. UNCHANGED doc
    BY <1>8 DEF FetchForExport
  <2>2. CASE Finish(r)
    BY <1>1, <1>2, <2>1, <2>2, FinishCurrent, NothingWritten DEF SerialStep
  <2>3. CASE ~Finish(r)
    <3>1. Goto(r, "mark") /\ doc[i].status = "APPROVED" /\ UNCHANGED job
      BY <1>8, <2>3 DEF FetchForExport
    <3>2. /\ Alone' /\ pc'[r] = "mark"
          /\ \A q \in Requests \ {r} : pc'[q] \in {"idle", "done"}
      BY <1>1, <1>2, <3>1, StaysAlone
    <3>3. Current(r)'
      BY <2>1, <3>1, <3>2 DEF Current
    <3> QED
      BY <2>1, <3>2, <3>3, CurrentByStep, NothingWritten DEF SerialStep
  <2> QED
    BY <2>2, <2>3
<1>9. CASE MarkExported(r)
  <2> DEFINE d == [doc[i] EXCEPT !.status = "EXPORTED"]
  <2>1. Finish(r) /\ pc[r] = "mark" /\ Write(i, d)
    BY <1>9 DEF MarkExported, At
  <2>2. doc[i].status = "APPROVED"
    BY <1>1, <2>1 DEF Current
  <2>3. Lawful(doc[i], d)
    BY <1>3, <2>2 DEF Lawful, Moved, SameFlow, Docs
  <2> HIDE DEF d, i
  <2>4. AllLawful
    BY <1>1, <1>3, <2>1, <2>3, WriteLawful
  <2> QED
    BY <1>1, <1>2, <2>1, <2>4, FinishCurrent DEF SerialStep
<1>10. CASE Delete(r)
  <2> DEFINE d == [doc[i] EXCEPT !.status = IF @ = "EXPORTED" THEN @
                                                             ELSE "DELETED"]
  <2>1. Finish(r) /\ doc' = [doc EXCEPT ![i] = d]
    BY <1>10 DEF Delete
  <2>2. Lawful(doc[i], d)
    <3>1. CASE doc[i].status = "EXPORTED"
      <4>1. d = doc[i]
        BY <1>3, <3>1 DEF Docs
      <4> QED
        BY <4>1 DEF Lawful
    <3>2. CASE doc[i].status # "EXPORTED"
      BY <1>3, <3>2 DEF Lawful, Moved, SameFlow, Docs
    <3> QED
      BY <3>1, <3>2
  <2> HIDE DEF d, i
  <2>3. AllLawful
    BY <1>1, <1>3, <2>1, <2>2, OneWritten
  <2> QED
    BY <1>1, <1>2, <2>1, <2>3, FinishCurrent DEF SerialStep
<1> QED
  BY <1>4, <1>5, <1>6, <1>7, <1>8, <1>9, <1>10 DEF Upkeep

-----------------------------------------------------------------------------
(* The invariant holds, and what follows from it.                          *)

LEMMA SoundStep ==
  ASSUME NEW d, NEW e, Sound(d), Lawful(d, e)
  PROVE  Sound(e)
<1>1. CASE e = d \/ Moved(d, e)
  BY <1>1 DEF Sound, Moved, SameFlow, Open, AllAgree
<1>2. CASE Entered(d, e)
  BY <1>2 DEF Sound, Entered, Waiting, AllAgree
<1>3. CASE Signed(d, e)
  <2>1. AllAgree(d) /\ e.fields = d.fields
    BY <1>3 DEF Signed, Waiting, Sound
  <2>2. AllAgree(e)
    BY <1>3, <2>1 DEF Signed, AllAgree
  <2>3. \A x \in e.results : x.action # "rejected"
    BY <2>2 DEF AllAgree, Agrees
  <2> QED
    BY <1>3, <2>2, <2>3 DEF Sound, Signed, Waiting
<1>4. CASE TurnedDown(d, e) \/ Withdrawn(d, e)
  BY <1>4 DEF TurnedDown, Withdrawn, Sound
<1>5. CASE Corrected(d, e)
  <2>1. d.status \notin {"AWAITING_APPROVAL", "DELETED"}
    BY <1>5 DEF Corrected, Open
  <2> QED
    BY <1>5, <2>1 DEF Corrected, SameFlow, Sound
<1> QED
  BY <1>1, <1>2, <1>3, <1>4, <1>5 DEF Lawful

LEMMA NextIsSerial ==
  ASSUME SerialInv, [Next]_vars
  PROVE  SerialStep
<1>1. TypeOK
  BY DEF SerialInv, IInv
<1>2. CASE UNCHANGED vars
  <2>1. UNCHANGED <<doc, pc, job>>
    BY <1>2 DEF vars
  <2>2. Alone' /\ \A q \in Requests : Current(q)'
    BY <2>1 DEF SerialInv, Alone, InProgress, Current, Waiting
  <2> QED
    BY <2>1, <2>2, NothingWritten DEF SerialStep
<1>3. CASE \E r \in Requests : Arrive(r) \/ Submission(r) \/ Decision(r) \/ Upkeep(r)
  BY <1>3, ArriveIsSerial, SubmissionIsSerial, DecisionIsSerial, UpkeepIsSerial
<1> QED
  BY <1>2, <1>3 DEF Next, Quiet

LEMMA NextSerialInv ==
  ASSUME SerialInv, [Next]_vars
  PROVE  SerialInv'
<1>1. SerialStep
  BY NextIsSerial
<1>2. IInv'
  BY NextIInv DEF SerialInv
<1>3. \A i \in Invoices : Sound(doc'[i])
  BY <1>1, SoundStep DEF SerialStep, AllLawful, SerialInv
<1> QED
  BY <1>1, <1>2, <1>3 DEF SerialStep, SerialInv

LEMMA InitSerialInv ==
  ASSUME MaxOpen = 1, Init
  PROVE  SerialInv
<1>1. IInv
  BY InitIInv
<1>2. \A r \in Requests : pc[r] = "idle"
  BY DEF Init
<1>3. Alone /\ \A r \in Requests : Current(r)
  BY <1>2 DEF Alone, InProgress, Current
<1>4. ASSUME NEW i \in Invoices
      PROVE  Sound(doc[i])
  <2>1. \E s, f : doc[i] = Fresh(s, f)
    BY DEF Init
  <2>2. doc[i].flow = "none"
    BY <2>1 DEF Fresh
  <2> QED
    BY <2>2 DEF Sound
<1> QED
  BY <1>1, <1>3, <1>4 DEF SerialInv

\* Records of a life that differ in some fields only.
DifferInFields(l, m) ==
  /\ m.fields = l.fields
       => /\ m = [l EXCEPT !.status = m.status, !.flow = m.flow,
                           !.votes = m.votes]
          /\ m = [l EXCEPT !.votes = m.votes, !.status = m.status,
                           !.flow = m.flow]
  /\ m.flow = l.flow /\ m.votes = l.votes
       => m = [l EXCEPT !.fields = m.fields, !.status = m.status]

LEMMA LivesDiffer ==
  ASSUME NEW A, NEW B, NEW C, NEW D,
         NEW l \in [status : A, fields : B, flow : C, votes : D],
         NEW m \in [status : A, fields : B, flow : C, votes : D]
  PROVE  DifferInFields(l, m)
  BY DEF DifferInFields

\* What is lawful is a step of the life, or none.
LEMMA LawfulIsLife ==
  ASSUME NEW i \in Invoices, doc[i] \in Docs, doc'[i] \in Docs,
         Lawful(doc[i], doc'[i])
  PROVE  Life!Becomes(i, LifeOf(doc[i])) \/ Life!Lives(i)
<1> DEFINE d == doc[i]   e == doc'[i]   l == LifeOf(d)   m == LifeOf(e)
<1> USE DEF Life!Is, Life!Waits, Life!With, Life!Becomes, Life!Open
<1>1. /\ [k \in Invoices |-> LifeOf(doc[k])][i] = l
      /\ [k \in Invoices |-> LifeOf(doc[k])]'[i] = m
  OBVIOUS
<1>2. /\ l.status = d.status /\ l.fields = d.fields /\ l.flow = d.flow
      /\ l.votes = VotesIn(d.results)
      /\ m.status = e.status /\ m.fields = e.fields /\ m.flow = e.flow
      /\ m.votes = VotesIn(e.results)
  BY DEF LifeOf
<1>3. d.fields \in Fields /\ e.fields \in Fields
  BY DEF Docs
<1> DEFINE S == [status : Statuses, fields : Fields, flow : Flows,
                 votes : {VotesIn(d.results), VotesIn(e.results)}]
<1>d. l \in S /\ m \in S
  BY DEF LifeOf, Docs
<1> HIDE DEF l, m, d, e
<1>c. DifferInFields(l, m)
  BY <1>d, LivesDiffer
<1> HIDE DEF S
<1>4. CASE e = d
  <2>1. m = l
    BY <1>4 DEF l, m
  <2> QED
    BY <1>1, <2>1 DEF l, d
<1>5. ASSUME Moved(d, e) PROVE Life!Lives(i)
  <2>1. m = [l EXCEPT !.status = e.status]
    BY <1>2, <1>5, <1>d DEF S, Moved, SameFlow
  <2> QED
    BY <1>1, <1>2, <1>5, <2>1
       DEF Moved, Open, Life!Approve, Life!Export, Life!Remove, Life!Lives
<1>6. ASSUME Entered(d, e) PROVE Life!Lives(i)
  <2>1. m = [l EXCEPT !.status = "AWAITING_APPROVAL", !.flow = "in_progress",
                      !.votes = {}]
    BY <1>2, <1>6, <1>c DEF DifferInFields, Entered, Waiting
  <2> QED
    BY <1>1, <1>2, <1>6, <2>1 DEF Entered, Open, Life!Enter, Life!Lives
<1>7. ASSUME Signed(d, e) PROVE Life!Lives(i)
  <2>1. Life!Waits(i)
    BY <1>1, <1>2, <1>7 DEF Signed, Waiting
  <2> DEFINE votes == l.votes \cup {[action |-> "approved", seen |-> l.fields]}
  <2>2. VotesIn(e.results) = votes /\ e.fields = d.fields
    BY <1>2, <1>7 DEF Signed, VoteAdded
  <2> HIDE DEF votes
  <2>3. CASE Waiting(e)
    <3>1. m = [l EXCEPT !.votes = votes]
      BY <1>2, <1>7, <1>d, <2>2, <2>3 DEF S, Signed, Waiting
    <3> QED
      BY <1>1, <2>1, <3>1 DEF votes, Life!Endorse, Life!Lives
  <2>4. CASE e.status = "APPROVED" /\ e.flow = "approved"
    <3>1. m = [l EXCEPT !.votes = votes, !.status = "APPROVED",
                        !.flow = "approved"]
      BY <1>2, <1>c, <2>2, <2>4 DEF DifferInFields
    <3> QED
      BY <1>1, <2>1, <3>1 DEF votes, Life!Pass, Life!Lives
  <2> QED
    BY <1>7, <2>3, <2>4 DEF Signed
<1>8. ASSUME TurnedDown(d, e) PROVE Life!Lives(i)
  <2>1. Life!Waits(i)
    BY <1>1, <1>2, <1>8 DEF TurnedDown, Waiting
  <2> DEFINE votes == l.votes \cup {[action |-> "rejected", seen |-> l.fields]}
  <2>2. VotesIn(e.results) = votes /\ e.fields = d.fields
    BY <1>2, <1>8 DEF TurnedDown, VoteAdded
  <2> HIDE DEF votes
  <2>3. m = [l EXCEPT !.votes = votes, !.status = "NEEDS_REVIEW",
                      !.flow = "rejected"]
    BY <1>2, <1>8, <1>c, <2>2 DEF DifferInFields, TurnedDown
  <2> QED
    BY <1>1, <2>1, <2>3 DEF votes, Life!TurnDown, Life!Lives
<1>9. ASSUME Withdrawn(d, e) PROVE Life!Lives(i)
  <2>1. VotesIn({}) = {}
    BY DEF VotesIn
  <2>2. m = Life!Fresh("NEEDS_REVIEW", e.fields)
    BY <1>9, <2>1 DEF m, LifeOf, Withdrawn, Life!Fresh
  <2> QED
    BY <1>1, <1>2, <1>3, <1>9, <2>2 DEF Withdrawn, Life!Withdraw, Life!Lives
<1>10. ASSUME Corrected(d, e) PROVE Life!Lives(i)
  <2>1. CASE d.status = "APPROVED"
    <3>1. m = [l EXCEPT !.fields = e.fields]
      BY <1>2, <1>10, <1>d, <2>1
         DEF S, Corrected, SameFlow, StatusAfterEdit
    <3> QED
      BY <1>1, <1>2, <1>3, <2>1, <3>1 DEF Life!Correct, Life!Lives
  <2>2. CASE d.status \in Open
    <3>1. m = [l EXCEPT !.fields = e.fields,
                        !.status = Life!Reviewed(e.fields)]
      BY <1>2, <1>10, <1>c, <2>2
         DEF DifferInFields, Corrected, SameFlow, StatusAfterEdit, Open, Life!Reviewed
    <3> QED
      BY <1>1, <1>2, <1>3, <2>2, <3>1 DEF Open, Life!Correct, Life!Lives
  <2> QED
    BY <1>10, <2>1, <2>2 DEF Corrected
<1> QED
  BY <1>4, <1>5, <1>6, <1>7, <1>8, <1>9, <1>10 DEF Lawful, d, e

\* Served one at a time, requests take every invoice through the life that
\* InvoiceLife describes, for any users, workflows and requests.
THEOREM LifeIsImplemented == MaxOpen = 1 /\ Spec => ImplementsLife
<1> DEFINE life == [i \in Invoices |-> LifeOf(doc[i])]
<1>1. Init => Life!Init
  <2> SUFFICES ASSUME Init PROVE Life!Init
    OBVIOUS
  <2> DEFINE Firsts == {Life!Fresh("NEEDS_REVIEW", f) : f \in Fields}
                         \cup {Life!Fresh("PARSED", f) : f \in Complete}
  <2>1. ASSUME NEW i \in Invoices PROVE LifeOf(doc[i]) \in Firsts
    <3>1. VotesIn({}) = {}
      BY DEF VotesIn
    <3>2. \A s, f : LifeOf(Fresh(s, f)) = Life!Fresh(s, f)
      BY <3>1 DEF LifeOf, Fresh, Life!Fresh
    <3>3. doc[i] \in {Fresh("NEEDS_REVIEW", f) : f \in Fields}
                       \cup {Fresh("PARSED", f) : f \in Complete}
      BY DEF Init
    <3> QED
      BY <3>2, <3>3
  <2> HIDE DEF Firsts
  <2>2. life \in [Invoices -> Firsts]
    BY <2>1
  <2> QED
    BY <2>2 DEF Firsts, Life!Init
<1>2. SerialInv /\ SerialInv' /\ [Next]_vars => [Life!Next]_life
  <2> SUFFICES ASSUME SerialInv, SerialInv', [Next]_vars PROVE Life!Next
    OBVIOUS
  <2>1. ASSUME NEW i \in Invoices
        PROVE  Life!Becomes(i, LifeOf(doc[i])) \/ Life!Lives(i)
    <3>1. Lawful(doc[i], doc'[i])
      BY NextIsSerial DEF SerialStep, AllLawful
    <3>2. doc[i] \in Docs /\ doc'[i] \in Docs
      BY DEF SerialInv, IInv, TypeOK
    <3> QED
      BY <3>1, <3>2, LawfulIsLife
  <2>2. \A i \in Invoices : Life!Becomes(i, life[i]) \/ Life!Lives(i)
    BY <2>1
  <2> QED
    BY <2>2 DEF Life!Next
<1>3. MaxOpen = 1 /\ Init => SerialInv
  BY InitSerialInv
<1>4. SerialInv /\ [Next]_vars => SerialInv'
  BY NextSerialInv
<1> QED
  BY <1>1, <1>2, <1>3, <1>4, PTL DEF Spec, ImplementsLife, Life!Spec

\* A workflow does not approve an invoice that was rejected in it.
THEOREM RejectionsStand == MaxOpen = 1 /\ Spec => []RejectionStands
<1>1. MaxOpen = 1 /\ Init => SerialInv
  BY InitSerialInv
<1>2. SerialInv /\ [Next]_vars => SerialInv'
  BY NextSerialInv
<1>3. SerialInv => RejectionStands
  BY DEF SerialInv, Sound, RejectionStands
<1> QED
  BY <1>1, <1>2, <1>3, PTL DEF Spec

\* The contents a workflow approves are those its approvers saw.
THEOREM ApprovalsAreOfContents == MaxOpen = 1 /\ Spec => ApprovedAsSeen
<1> DEFINE Seen1(i) ==
      Completes(i) => \A x \in doc'[i].results :
                        x.action = "approved" => x.seen = doc'[i].fields
<1>1. MaxOpen = 1 /\ Init => SerialInv
  BY InitSerialInv
<1>2. SerialInv /\ [Next]_vars => SerialInv'
  BY NextSerialInv
<1>3. SerialInv /\ [Next]_vars => [\A i \in Invoices : Seen1(i)]_vars
  <2> SUFFICES ASSUME SerialInv, [Next]_vars, NEW i \in Invoices, Completes(i)
               PROVE  \A x \in doc'[i].results :
                        x.action = "approved" => x.seen = doc'[i].fields
    OBVIOUS
  <2>1. Lawful(doc[i], doc'[i]) /\ Sound(doc[i])
    BY NextIsSerial DEF SerialStep, AllLawful, SerialInv
  <2>2. Signed(doc[i], doc'[i])
    BY <2>1 DEF Completes, Lawful, Moved, Entered, TurnedDown, Withdrawn,
                Corrected, SameFlow, Waiting
  <2>3. AllAgree(doc[i])
    BY <2>1, <2>2 DEF Sound, Signed, Waiting
  <2> QED
    BY <2>2, <2>3 DEF Signed, AllAgree, Agrees
<1> QED
  BY <1>1, <1>2, <1>3, PTL DEF Spec, ApprovedAsSeen

\* An exported invoice stays as it is.
THEOREM ExportedStays == MaxOpen = 1 /\ Spec => ExportedIsLocked
<1> DEFINE Locked(i) ==
      doc[i].status = "EXPORTED" =>
        doc'[i].status = "EXPORTED" /\ doc'[i].fields = doc[i].fields
<1>1. MaxOpen = 1 /\ Init => SerialInv
  BY InitSerialInv
<1>2. SerialInv /\ [Next]_vars => SerialInv'
  BY NextSerialInv
<1>3. SerialInv /\ [Next]_vars => [\A i \in Invoices : Locked(i)]_vars
  <2> SUFFICES ASSUME SerialInv, [Next]_vars, NEW i \in Invoices,
                      doc[i].status = "EXPORTED"
               PROVE  doc'[i] = doc[i]
    OBVIOUS
  <2>1. Lawful(doc[i], doc'[i])
    BY NextIsSerial DEF SerialStep, AllLawful
  <2> QED
    BY <2>1 DEF Lawful, Moved, Entered, Signed, TurnedDown, Withdrawn,
                Corrected, Waiting, Open
<1> QED
  BY <1>1, <1>2, <1>3, PTL DEF Spec, ExportedIsLocked

-----------------------------------------------------------------------------
(* A tenant of one organisation, whose enabled workflows have a first step  *)
(* (buildSimpleSteps gives them one).                                       *)

OneOrg     == \A o, p \in Orgs : o = p
FirstSteps == \A c \in Configs : c.enabled => 1 \in DOMAIN c.steps

\* The invoice may be approved without a workflow.
MayPass(i) ==
  doc[i].status \in Open =>
    \A o \in Orgs : config[o].enabled =>
      DOMAIN config[o].steps = {1} /\ ~Applies(config[o].steps[1], doc[i].fields)

\* What a request learned of the workflow still holds.
Ruled(r) ==
  /\ pc[r] \in {"configure", "revert"} => r \in Configurers
  /\ pc[r] \in {"enter", "start"} =>
       config[job[r].org].enabled /\ job[r].plan = config[job[r].org].steps
  /\ pc[r] = "direct" => MayPass(job[r].invoice)

\* An invoice waits for approval under an enabled workflow, unless it is about
\* to be taken out of it.
Guarded ==
  \A i \in Invoices : doc[i].status = "AWAITING_APPROVAL" =>
    \/ \A o \in Orgs : config[o].enabled
    \/ \E r \in Requests : pc[r] = "revert"

RuledInv ==
  /\ SerialInv
  /\ OneOrg /\ FirstSteps
  /\ \A r \in Requests : Ruled(r)
  /\ Guarded

-----------------------------------------------------------------------------

\* No invoice starts to wait, and none is approved without a workflow.
Ordinary ==
  \A i \in Invoices :
    /\ doc'[i].status = "AWAITING_APPROVAL" => doc[i].status = "AWAITING_APPROVAL"
    /\ doc[i].status \in Open => doc'[i].status # "APPROVED"

LEMMA UnwrittenIsOrdinary ==
  ASSUME UNCHANGED doc
  PROVE  Ordinary
  BY DEF Ordinary, Open

LEMMA WriteIsOrdinary ==
  ASSUME TypeOK, NEW i \in Invoices, NEW d, Write(i, d),
         d.status = "AWAITING_APPROVAL" => doc[i].status = "AWAITING_APPROVAL",
         doc[i].status \in Open => d.status # "APPROVED"
  PROVE  Ordinary
<1>1. \A k \in Invoices : doc'[k] = doc[k] \/ (k = i /\ doc'[k] = d)
  BY DEF Write, TypeOK
<1> QED
  BY <1>1 DEF Ordinary, Open

LEMMA DecisionIsOrdinary ==
  ASSUME SerialInv, NEW r \in Requests, Decision(r)
  PROVE  Ordinary
<1> DEFINE i == job[r].invoice
<1>1. TypeOK /\ Current(r)
  BY DEF SerialInv, IInv
<1>2. pc[r] \notin {"idle", "done"}
  BY DEF Decision, LoadForDecision, Judge, SignPartly, SignOn, SignLast,
         Reject, At
<1>3. i \in Invoices /\ doc[i] \in Docs
  BY <1>1, <1>2, JobType
<1>4. CASE LoadForDecision(r) \/ Judge(r)
  BY <1>4, UnwrittenIsOrdinary DEF LoadForDecision, Judge
<1>5. CASE SignPartly(r) \/ SignOn(r) \/ SignLast(r) \/ Reject(r)
  <2>1. doc[i].status = "AWAITING_APPROVAL"
    BY <1>1, <1>5 DEF SignPartly, SignOn, SignLast, Reject, At, Current, Waiting
  <2>2. \E d : Write(i, d)
    BY <1>5 DEF SignPartly, SignOn, SignLast, Reject
  <2>3. doc[i].status \notin Open
    BY <2>1 DEF Open
  <2> HIDE DEF i
  <2> QED
    BY <1>1, <1>3, <2>1, <2>2, <2>3, WriteIsOrdinary
<1> QED
  BY <1>4, <1>5 DEF Decision

LEMMA UpkeepIsOrdinary ==
  ASSUME SerialInv, NEW r \in Requests, Upkeep(r)
  PROVE  Ordinary
<1> DEFINE i == job[r].invoice
<1>1. TypeOK /\ Current(r)
  BY DEF SerialInv, IInv
<1>2. pc[r] \notin {"idle", "done"}
  BY DEF Upkeep, OpenForEdit, SaveEdit, SaveConfig, RevertWaiting,
         FetchForExport, MarkExported, Delete, At
<1>3. i \in Invoices /\ doc[i] \in Docs
  BY <1>1, <1>2, JobType
<1>4. CASE OpenForEdit(r) \/ SaveConfig(r) \/ FetchForExport(r)
  BY <1>4, UnwrittenIsOrdinary DEF OpenForEdit, SaveConfig, FetchForExport
<1>5. CASE SaveEdit(r)
  <2>1. CASE UNCHANGED doc
    BY <2>1, UnwrittenIsOrdinary
  <2>2. CASE ~UNCHANGED doc
    <3>1. job[r].doc = doc[i] /\ Exists(i)
      BY <1>1, <1>5 DEF Current, SaveEdit, At, Exists
    <3>2. PICK f \in Fields : doc' = [doc EXCEPT ![i] = Edited(doc[i], doc[i], f)]
      BY <1>5, <2>2, <3>1 DEF SaveEdit
    <3> DEFINE d == Edited(doc[i], doc[i], f)
               s == StatusAfterEdit(doc[i], f)
    <3>3. d.status = s
      BY <1>3 DEF Edited, Docs
    <3>4. /\ s \in Open \cup {"APPROVED"}
          /\ s = "APPROVED" => doc[i].status = "APPROVED"
      BY DEF StatusAfterEdit, Open
    <3> HIDE DEF d, s
    <3>5. Write(i, d)
      BY <3>1, <3>2 DEF d, Write
    <3> HIDE DEF i
    <3> QED
      BY <1>1, <1>3, <3>3, <3>4, <3>5, WriteIsOrdinary DEF Open
  <2> QED
    BY <2>1, <2>2
<1>6. CASE RevertWaiting(r)
  <2>1. \A k \in Invoices :
          doc'[k] = doc[k] \/ doc[k].status = "AWAITING_APPROVAL"
    BY <1>6 DEF RevertWaiting
  <2> QED
    BY <2>1 DEF Ordinary, Open
<1>7. CASE MarkExported(r)
  <2> DEFINE d == [doc[i] EXCEPT !.status = "EXPORTED"]
  <2>1. Write(i, d) /\ d.status = "EXPORTED"
    BY <1>3, <1>7 DEF MarkExported, Docs
  <2> HIDE DEF d, i
  <2> QED
    BY <1>1, <1>3, <2>1, WriteIsOrdinary
<1>8. CASE Delete(r)
  <2>1. \A k \in Invoices :
          doc'[k].status = doc[k].status \/ doc'[k].status \in {"EXPORTED", "DELETED"}
    BY <1>1, <1>3, <1>8 DEF Delete, TypeOK, Docs
  <2> QED
    BY <2>1 DEF Ordinary, Open
<1> QED
  BY <1>4, <1>5, <1>6, <1>7, <1>8 DEF Upkeep

-----------------------------------------------------------------------------
(* RuledInv is an invariant.                                               *)

RuledStep == (\A q \in Requests : Ruled(q)') /\ Guarded'

LEMMA RuledByStep ==
  ASSUME NEW r \in Requests,
         \A q \in Requests \ {r} : pc'[q] \in {"idle", "done"},
         Ruled(r)'
  PROVE  \A q \in Requests : Ruled(q)'
  BY DEF Ruled

\* A step to a phase of which Ruled says nothing.
LEMMA GotoRuled ==
  ASSUME TypeOK, Alone, NEW r \in Requests, pc[r] \notin {"idle", "done"},
         NEW phase, Goto(r, phase),
         phase \notin {"configure", "revert", "enter", "start", "direct"}
  PROVE  \A q \in Requests : Ruled(q)'
<1>1. /\ pc'[r] = phase
      /\ \A q \in Requests \ {r} : pc'[q] \in {"idle", "done"}
  BY StaysAlone
<1>2. Ruled(r)'
  BY <1>1 DEF Ruled
<1> QED
  BY <1>1, <1>2, RuledByStep

LEMMA FinishRuled ==
  ASSUME TypeOK, Alone, NEW r \in Requests, pc[r] \notin {"idle", "done"},
         Finish(r)
  PROVE  \A q \in Requests : Ruled(q)'
<1>1. Goto(r, "done")
  BY DEF Finish
<1> QED
  BY <1>1, GotoRuled

\* A step to the approval without a workflow, when there may be one.
LEMMA DirectRuled ==
  ASSUME TypeOK, Alone, NEW r \in Requests, pc[r] \notin {"idle", "done"},
         Goto(r, "direct"), UNCHANGED <<config, doc>>, MayPass(job[r].invoice),
         job'[r].invoice = job[r].invoice
  PROVE  \A q \in Requests : Ruled(q)'
<1>1. /\ pc'[r] = "direct"
      /\ \A q \in Requests \ {r} : pc'[q] \in {"idle", "done"}
  BY StaysAlone
<1>2. MayPass(job[r].invoice)'
  BY DEF MayPass
<1>3. Ruled(r)'
  BY <1>1, <1>2 DEF Ruled, MayPass
<1> QED
  BY <1>1, <1>3, RuledByStep

\* While no request is about to revert anything, what waits is under a workflow.
LEMMA GuardedByStep ==
  ASSUME RuledInv, NEW r \in Requests, pc[r] \notin {"idle", "done", "revert"},
         Ordinary, UNCHANGED config
  PROVE  Guarded'
<1>1. \A q \in Requests : pc[q] # "revert"
  BY DEF RuledInv, SerialInv, Alone, InProgress
<1> SUFFICES ASSUME NEW i \in Invoices, doc'[i].status = "AWAITING_APPROVAL"
             PROVE  \A o \in Orgs : config'[o].enabled
  BY DEF Guarded
<1>2. doc[i].status = "AWAITING_APPROVAL"
  BY DEF Ordinary
<1> QED
  BY <1>1, <1>2 DEF RuledInv, Guarded

LEMMA ArriveIsRuled ==
  ASSUME RuledInv, NEW r \in Requests, Arrive(r)
  PROVE  RuledStep
<1>1. TypeOK /\ Alone /\ MaxOpen = 1 /\ Guarded
  BY DEF RuledInv, SerialInv, IInv
<1>2. InProgress = {}
  BY <1>1, NoneInProgress DEF Arrive
<1>3. Goto(r, FirstPhase(r)) /\ UNCHANGED <<config, doc>>
  BY DEF Arrive
<1>4. /\ pc'[r] = FirstPhase(r)
      /\ \A q \in Requests \ {r} : pc'[q] \in {"idle", "done"}
  BY <1>1, <1>2, <1>3, ArrivesAlone
<1>5. /\ FirstPhase(r) \notin {"enter", "start", "direct", "revert"}
      /\ FirstPhase(r) = "configure" => r \in Configurers
  BY DEF FirstPhase, Requests, Approvers
<1>6. Ruled(r)'
  BY <1>4, <1>5 DEF Ruled
<1>7. Guarded'
  <2>1. \A q \in Requests : pc[q] # "revert"
    BY <1>2 DEF InProgress
  <2> QED
    BY <1>1, <1>3, <2>1 DEF Guarded
<1> QED
  BY <1>4, <1>6, <1>7, RuledByStep DEF RuledStep

LEMMA SubmissionIsRuled ==
  ASSUME RuledInv, NEW r \in Requests, Submission(r)
  PROVE  RuledStep
<1> DEFINE i == job[r].invoice
<1>1. TypeOK /\ Alone /\ Current(r) /\ Phased /\ Ruled(r) /\ OneOrg /\ FirstSteps
  BY DEF RuledInv, SerialInv, IInv
<1>2. pc[r] \notin {"idle", "done", "revert"}
  BY DEF Submission, CheckEnabled, ApproveDirectly, ReadStatus, FindWorkflow,
         LoadForEntry, Start, At
<1>3. i \in Invoices /\ doc[i] \in Docs /\ job[r] \in Jobs
  BY <1>1, <1>2, JobType
<1>4. config \in [Orgs -> Configs]
  BY <1>1 DEF TypeOK
<1>5. ASSUME UNCHANGED <<config, doc>>
      PROVE  Guarded'
  BY <1>2, <1>5, GuardedByStep, UnwrittenIsOrdinary
<1>6. CASE CheckEnabled(r)
  <2>1. UNCHANGED <<config, doc, job>>
    BY <1>6 DEF CheckEnabled
  <2>2. CASE Goto(r, "read")
    BY <1>1, <1>2, <1>5, <2>1, <2>2, GotoRuled DEF RuledStep
  <2>3. CASE ~Goto(r, "read")
    <3>1. Goto(r, "direct") /\ \A o \in Orgs : ~config[o].enabled
      BY <1>6, <2>3 DEF CheckEnabled
    <3>2. MayPass(i)
      BY <3>1 DEF MayPass
    <3> QED
      BY <1>1, <1>2, <1>5, <2>1, <3>1, <3>2, DirectRuled DEF RuledStep
  <2> QED
    BY <2>2, <2>3
<1>7. CASE ApproveDirectly(r)
  <2>1. Finish(r) /\ UNCHANGED config
    BY <1>7 DEF ApproveDirectly
  <2>2. \A k \in Invoices :
          doc'[k].status = doc[k].status \/ doc'[k].status = "APPROVED"
    BY <1>1, <1>3, <1>7 DEF ApproveDirectly, TypeOK, Docs
  <2>3. \A q \in Requests : pc[q] # "revert"
    BY <1>1, <1>2 DEF Alone, InProgress
  <2>4. Guarded'
    BY <2>1, <2>2, <2>3 DEF Guarded, RuledInv
  <2> QED
    BY <1>1, <1>2, <2>1, <2>4, FinishRuled DEF RuledStep
<1>8. CASE ReadStatus(r)
  <2>1. UNCHANGED <<config, doc>>
    BY <1>8 DEF ReadStatus
  <2>2. Finish(r) \/ \E phase \in {"find", "load"} : Goto(r, phase)
    BY <1>8 DEF ReadStatus
  <2> QED
    BY <1>1, <1>2, <1>5, <2>1, <2>2, FinishRuled, GotoRuled DEF RuledStep
<1>9. CASE FindWorkflow(r)
  <2>1. UNCHANGED <<config, doc>>
    BY <1>9 DEF FindWorkflow
  <2>2. CASE /\ \A o \in Orgs : ~config[o].enabled
             /\ Goto(r, "direct") /\ UNCHANGED job
    <3>1. MayPass(i)
      BY <2>2 DEF MayPass
    <3> QED
      BY <1>1, <1>2, <1>5, <2>1, <2>2, <3>1, DirectRuled DEF RuledStep
  <2>3. ASSUME NEW o \in Orgs, config[o].enabled,
               Learn(r, [job[r] EXCEPT !.org = o, !.plan = config[o].steps]),
               Goto(r, IF config[o].steps = NoPlan THEN "direct" ELSE "enter")
        PROVE  RuledStep
    <3>1. config[o].steps # NoPlan
      <4>1. 1 \in DOMAIN config[o].steps
        BY <1>1, <1>4, <2>3 DEF FirstSteps
      <4>2. DOMAIN NoPlan = {}
        BY DEF NoPlan
      <4> QED
        BY <4>1, <4>2
    <3>2. Goto(r, "enter")
      BY <2>3, <3>1
    <3>3. /\ pc'[r] = "enter"
          /\ \A q \in Requests \ {r} : pc'[q] \in {"idle", "done"}
      BY <1>1, <1>2, <3>2, StaysAlone
    <3>4. job'[r].org = o /\ job'[r].plan = config[o].steps
      BY <1>1, <1>3, <2>3 DEF Learn, TypeOK, Jobs
    <3>5. Ruled(r)'
      BY <2>1, <2>3, <3>3, <3>4 DEF Ruled
    <3> QED
      BY <1>5, <2>1, <3>3, <3>5, RuledByStep DEF RuledStep
  <2> QED
    BY <1>9, <2>2, <2>3 DEF FindWorkflow
<1>10. CASE LoadForEntry(r)
  <2> DEFINE d == doc[i]
             p == job[r].plan
             enters == /\ d.status \in Open /\ 1 \in DOMAIN p
                       /\ Applies(p[1], d.fields) \/ DOMAIN p # {1}
  <2>1. UNCHANGED <<config, doc>> /\ pc[r] = "enter"
    BY <1>10 DEF LoadForEntry, At
  <2>2. job[r].org \in Orgs /\ config[job[r].org].enabled /\ p = config[job[r].org].steps
    BY <1>1, <2>1 DEF Ruled, Phased
  <2>3. CASE ~enters
    <3>1. Goto(r, "direct") /\ UNCHANGED job
      BY <1>10, <2>3 DEF LoadForEntry
    <3>2. 1 \in DOMAIN p
      BY <1>1, <1>4, <2>2 DEF FirstSteps
    <3>3. ASSUME d.status \in Open
          PROVE  DOMAIN p = {1} /\ ~Applies(p[1], d.fields)
      BY <2>3, <3>2, <3>3
    <3>4. \A o \in Orgs : o = job[r].org
      BY <1>1, <2>2 DEF OneOrg
    <3>5. MayPass(i)
      BY <2>2, <3>3, <3>4 DEF MayPass
    <3> QED
      BY <1>1, <1>2, <1>5, <2>1, <3>1, <3>5, DirectRuled DEF RuledStep
  <2>4. CASE enters
    <3>1. Goto(r, "start") /\ Learn(r, [job[r] EXCEPT !.doc = d])
      BY <1>10, <2>4 DEF LoadForEntry
    <3>2. /\ pc'[r] = "start"
          /\ \A q \in Requests \ {r} : pc'[q] \in {"idle", "done"}
      BY <1>1, <1>2, <3>1, StaysAlone
    <3> HIDE DEF d
    <3>3. job'[r].org = job[r].org /\ job'[r].plan = p
      BY <1>1, <1>3, <3>1 DEF Learn, TypeOK, Jobs
    <3>4. Ruled(r)'
      BY <2>1, <2>2, <3>2, <3>3 DEF Ruled
    <3> QED
      BY <1>5, <2>1, <3>2, <3>4, RuledByStep DEF RuledStep
  <2> QED
    BY <2>3, <2>4
<1>11. CASE Start(r)
  <2>1. UNCHANGED config /\ (Finish(r) \/ Goto(r, "load"))
    BY <1>11 DEF Start
  <2>2. config[job[r].org].enabled /\ job[r].org \in Orgs
    BY <1>1, <1>11 DEF Start, At, Ruled, Phased
  <2>3. \A o \in Orgs : config'[o].enabled
    BY <1>1, <2>1, <2>2 DEF OneOrg
  <2>4. Guarded'
    BY <2>3 DEF Guarded
  <2> QED
    BY <1>1, <1>2, <2>1, <2>4, FinishRuled, GotoRuled DEF RuledStep
<1> QED
  BY <1>6, <1>7, <1>8, <1>9, <1>10, <1>11 DEF Submission

LEMMA DecisionIsRuled ==
  ASSUME RuledInv, NEW r \in Requests, Decision(r)
  PROVE  RuledStep
<1>1. TypeOK /\ Alone /\ SerialInv
  BY DEF RuledInv, SerialInv, IInv
<1>2. pc[r] \notin {"idle", "done", "revert"} /\ UNCHANGED config
  BY DEF Decision, LoadForDecision, Judge, SignPartly, SignOn, SignLast,
         Reject, At
<1>3. Guarded'
  BY <1>1, <1>2, DecisionIsOrdinary, GuardedByStep
<1>4. Finish(r) \/ \E phase \in {"judge", "sign", "reject"} : Goto(r, phase)
  BY DEF Decision, LoadForDecision, Judge, SignPartly, SignOn, SignLast, Reject
<1> QED
  BY <1>1, <1>2, <1>3, <1>4, FinishRuled, GotoRuled DEF RuledStep

LEMMA UpkeepIsRuled ==
  ASSUME RuledInv, NEW r \in Requests, Upkeep(r)
  PROVE  RuledStep
<1>1. TypeOK /\ Alone /\ SerialInv /\ OneOrg /\ Ruled(r)
  BY DEF RuledInv, SerialInv, IInv
<1>2. pc[r] \notin {"idle", "done"}
  BY DEF Upkeep, OpenForEdit, SaveEdit, SaveConfig, RevertWaiting,
         FetchForExport, MarkExported, Delete, At
<1>3. job[r].invoice \in Invoices
  BY <1>1, <1>2, JobType
<1>4. CASE OpenForEdit(r) \/ SaveEdit(r) \/ FetchForExport(r)
           \/ MarkExported(r) \/ Delete(r)
  <2>1. pc[r] # "revert" /\ UNCHANGED config
    BY <1>4 DEF OpenForEdit, SaveEdit, FetchForExport, MarkExported, Delete, At
  <2>2. Guarded'
    BY <1>1, <1>2, <2>1, UpkeepIsOrdinary, GuardedByStep
  <2>3. Finish(r) \/ \E phase \in {"save", "mark"} : Goto(r, phase)
    BY <1>4 DEF OpenForEdit, SaveEdit, FetchForExport, MarkExported, Delete
  <2> QED
    BY <1>1, <1>2, <2>2, <2>3, FinishRuled, GotoRuled DEF RuledStep
<1>5. CASE SaveConfig(r)
  <2> DEFINE o == OrgOf[job[r].invoice]
  <2>1. o \in Orgs /\ config \in [Orgs -> Configs]
    BY <1>1, <1>3, ConstantsAssumption DEF TypeOK
  <2>2. PICK c \in Configs :
          /\ config' = [config EXCEPT ![o] = c]
          /\ IF c.enabled THEN Finish(r) ELSE Goto(r, "revert") /\ UNCHANGED job
    BY <1>5 DEF SaveConfig
  <2> HIDE DEF o
  <2>3. CASE c.enabled
    <3>1. \A p \in Orgs : config'[p].enabled
      BY <1>1, <2>1, <2>2, <2>3 DEF OneOrg
    <3>2. Guarded'
      BY <3>1 DEF Guarded
    <3> QED
      BY <1>1, <1>2, <2>2, <2>3, <3>2, FinishRuled DEF RuledStep
  <2>4. CASE ~c.enabled
    <3>1. Goto(r, "revert")
      BY <2>2, <2>4
    <3>2. /\ pc'[r] = "revert"
          /\ \A q \in Requests \ {r} : pc'[q] \in {"idle", "done"}
      BY <1>1, <1>2, <3>1, StaysAlone
    <3>3. r \in Configurers
      BY <1>1, <1>5 DEF SaveConfig, At, Ruled
    <3>4. Ruled(r)' /\ Guarded'
      BY <3>2, <3>3 DEF Ruled, Guarded
    <3> QED
      BY <3>2, <3>4, RuledByStep DEF RuledStep
  <2> QED
    BY <2>3, <2>4
<1>6. CASE RevertWaiting(r)
  <2>1. Finish(r)
    BY <1>6 DEF RevertWaiting
  <2>2. \A i \in Invoices : OrgOf[i] = OrgOf[job[r].invoice]
    BY <1>1, <1>3, ConstantsAssumption DEF OneOrg
  <2>3. ASSUME NEW i \in Invoices
        PROVE  doc'[i].status # "AWAITING_APPROVAL"
    <3>1. doc[i] \in Docs
      BY <1>1 DEF TypeOK
    <3>2. doc'[i] =
            IF doc[i].status = "AWAITING_APPROVAL"
            THEN [doc[i] EXCEPT !.status = "NEEDS_REVIEW",
                    !.flow = "none", !.step = 0, !.by = NoOrg, !.results = {}]
            ELSE doc[i]
      BY <1>6, <2>2 DEF RevertWaiting
    <3> QED
      BY <3>1, <3>2 DEF Docs
  <2> QED
    BY <1>1, <1>2, <2>1, <2>3, FinishRuled DEF RuledStep, Guarded
<1> QED
  BY <1>4, <1>5, <1>6 DEF Upkeep

LEMMA NextRuledInv ==
  ASSUME RuledInv, [Next]_vars
  PROVE  RuledInv'
<1>1. SerialInv'
  BY NextSerialInv DEF RuledInv
<1>2. RuledStep
  <2>1. CASE UNCHANGED vars
    BY <2>1 DEF vars, RuledInv, RuledStep, Ruled, MayPass, Guarded
  <2>2. CASE \E r \in Requests : Arrive(r) \/ Submission(r) \/ Decision(r) \/ Upkeep(r)
    BY <2>2, ArriveIsRuled, SubmissionIsRuled, DecisionIsRuled, UpkeepIsRuled
  <2> QED
    BY <2>1, <2>2 DEF Next, Quiet
<1> QED
  BY <1>1, <1>2 DEF RuledInv, RuledStep, OneOrg, FirstSteps

LEMMA InitRuledInv ==
  ASSUME MaxOpen = 1, OneOrg, FirstSteps, Init
  PROVE  RuledInv
<1>1. SerialInv
  BY InitSerialInv
<1>2. \A r \in Requests : Ruled(r)
  BY DEF Init, Ruled
<1>3. ASSUME NEW i \in Invoices
      PROVE  doc[i].status # "AWAITING_APPROVAL"
  BY DEF Init, Fresh
<1> QED
  BY <1>1, <1>2, <1>3 DEF RuledInv, Guarded

\* Once the only organisation's workflow is disabled and the waiting invoices
\* are reverted, none awaits approval.
THEOREM NoneIsLeftWaiting ==
  MaxOpen = 1 /\ OneOrg /\ FirstSteps /\ Spec => []DisabledLeavesNoneWaiting
<1>1. MaxOpen = 1 /\ OneOrg /\ FirstSteps /\ Init => RuledInv
  BY InitRuledInv
<1>2. RuledInv /\ [Next]_vars => RuledInv'
  BY NextRuledInv
<1>3. RuledInv => DisabledLeavesNoneWaiting
  <2>1. RuledInv => \A r \in Requests : pc[r] = "revert" => r \in Configurers
    BY DEF RuledInv, Ruled
  <2> QED
    BY <2>1, ConstantsAssumption DEF RuledInv, Guarded, DisabledLeavesNoneWaiting
<1> QED
  BY <1>1, <1>2, <1>3, PTL DEF Spec

\* While the only organisation's workflow is enabled, an invoice is approved
\* without it only if its one step does not apply.
THEOREM WorkflowIsNotBypassed ==
  MaxOpen = 1 /\ OneOrg /\ FirstSteps /\ Spec => NoWayAround
<1> DEFINE Around(i, o) ==
      /\ doc[i].status \in Open /\ doc'[i].status = "APPROVED"
      /\ config[o].enabled
      => LET p == config[o].steps
         IN  DOMAIN p = {1} /\ ~Applies(p[1], doc[i].fields)
<1>1. MaxOpen = 1 /\ OneOrg /\ FirstSteps /\ Init => RuledInv
  BY InitRuledInv
<1>2. RuledInv /\ [Next]_vars => RuledInv'
  BY NextRuledInv
<1>3. RuledInv /\ [Next]_vars => [\A i \in Invoices, o \in Orgs : Around(i, o)]_vars
  <2> SUFFICES ASSUME RuledInv, Next, NEW i \in Invoices, NEW o \in Orgs,
                      doc[i].status \in Open, doc'[i].status = "APPROVED",
                      config[o].enabled
               PROVE  /\ DOMAIN config[o].steps = {1}
                      /\ ~Applies(config[o].steps[1], doc[i].fields)
    OBVIOUS
  <2>1. SerialInv /\ TypeOK
    BY DEF RuledInv, SerialInv, IInv
  <2>2. ~Ordinary
    BY DEF Ordinary
  <2>3. PICK r \in Requests : Submission(r)
    <3>1. \A r \in Requests : Arrive(r) => Ordinary
      BY UnwrittenIsOrdinary DEF Arrive
    <3>2. Quiet => Ordinary
      BY UnwrittenIsOrdinary DEF Quiet, vars
    <3> QED
      BY <2>1, <2>2, <3>1, <3>2, DecisionIsOrdinary, UpkeepIsOrdinary DEF Next
  <2>4. CASE ApproveDirectly(r)
    <3>1. pc[r] = "direct"
      BY <2>4 DEF ApproveDirectly, At
    <3>2. job[r].invoice = i
      BY <2>1, <2>4 DEF ApproveDirectly, TypeOK, Open
    <3>3. MayPass(i)
      BY <3>1, <3>2 DEF RuledInv, Ruled
    <3> QED
      BY <3>3 DEF MayPass
  <2>5. CASE Start(r)
    <3>1. job[r].invoice \in Invoices /\ doc[job[r].invoice] \in Docs
      BY <2>1, <2>5, JobType DEF Start, At
    <3>2. \A k \in Invoices : doc'[k] = doc[k] \/ doc'[k].status = "AWAITING_APPROVAL"
      BY <2>1, <2>5, <3>1 DEF Start, Write, TypeOK, Docs
    <3> QED
      BY <3>2 DEF Open
  <2>6. CASE UNCHANGED doc
    BY <2>2, <2>6, UnwrittenIsOrdinary
  <2> QED
    BY <2>3, <2>4, <2>5, <2>6 DEF Submission, CheckEnabled, ReadStatus,
       FindWorkflow, LoadForEntry
<1> QED
  BY <1>1, <1>2, <1>3, PTL DEF Spec, NoWayAround

=============================================================================
