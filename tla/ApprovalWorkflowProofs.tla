----------------------- MODULE ApprovalWorkflowProofs -----------------------
(***************************************************************************)
(* Proofs about ApprovalWorkflow for every set of organisations, invoices, *)
(* users and requests, every set of configurations and every number of     *)
(* requests in progress.                                                   *)
(***************************************************************************)
EXTENDS ApprovalWorkflow, TLAPS

\* What the phase of a request says of it.
Phased ==
  \A r \in Requests :
    /\ pc[r] \in {"enter", "start"} => job[r].org \in Orgs
    /\ pc[r] \in {"check", "direct", "read", "find", "enter", "start"}
         => r \in Submitters
    /\ pc[r] \in {"load", "judge"} => r \in Approvers \cup Rejecters
    /\ pc[r] = "sign" => r \in Approvers
    /\ pc[r] = "reject" => r \in Rejecters

\* The conjuncts of TypeOK that are about requests.
RequestsOK ==
  /\ pc \in [Requests -> Phases]
  /\ job \in [Requests -> Jobs \cup {NoJob}]
  /\ \A r \in Requests : pc[r] \notin {"idle", "done"} => job[r] \in Jobs

-----------------------------------------------------------------------------
(* Lemmas on the helpers: what each leaves of the invariant.               *)

\* A request under way has a job, with these fields.
LEMMA JobType ==
  ASSUME TypeOK, NEW r \in Requests, pc[r] \notin {"idle", "done"}
  PROVE  /\ job[r] \in Jobs
         /\ job[r].invoice \in Invoices /\ job[r].user \in Users
         /\ job[r].doc \in Docs /\ job[r].plan \in Plans
         /\ doc[job[r].invoice] \in Docs
<1>1. job[r] \in Jobs
  BY DEF TypeOK
<1>2. job[r].invoice \in Invoices /\ job[r].user \in Users
      /\ job[r].doc \in Docs /\ job[r].plan \in Plans
  BY <1>1 DEF Jobs
<1>3. doc \in [Invoices -> Docs]
  BY DEF TypeOK
<1> QED
  BY <1>1, <1>2, <1>3

\* The orders of a plan are positive.
LEMMA OrdersArePositive ==
  ASSUME NEW p \in Plans
  PROVE  DOMAIN p \subseteq Nat \ {0}
  BY ConstantsAssumption DEF Plans, NoPlan

LEMMA WriteType ==
  ASSUME TypeOK, NEW i \in Invoices, NEW d \in Docs, Write(i, d)
  PROVE  doc' \in [Invoices -> Docs]
  BY DEF TypeOK, Write

\* The three ways in which a request goes on.
LEMMA FinishType ==
  ASSUME TypeOK, Phased, NEW r \in Requests, Finish(r)
  PROVE  RequestsOK' /\ Phased'
<1>1. pc' = [pc EXCEPT ![r] = "done"] /\ job' = [job EXCEPT ![r] = NoJob]
  BY DEF Finish, Goto, Learn
<1>2. RequestsOK'
  BY <1>1 DEF TypeOK, RequestsOK, Phases
<1>3. Phased'
  BY <1>1 DEF TypeOK, Phased
<1> QED
  BY <1>2, <1>3

LEMMA GotoType ==
  ASSUME TypeOK, NEW r \in Requests, pc[r] \notin {"idle", "done"},
         NEW phase \in Phases, Goto(r, phase), UNCHANGED job
  PROVE  RequestsOK'
  BY DEF TypeOK, RequestsOK, Goto

LEMMA LearnType ==
  ASSUME TypeOK, NEW r \in Requests, NEW phase \in Phases, NEW j \in Jobs,
         Goto(r, phase), Learn(r, j)
  PROVE  RequestsOK' /\ job'[r] = j
  BY DEF TypeOK, RequestsOK, Goto, Learn

\* Only the request that goes on can break Phased.
LEMMA PhasedByStep ==
  ASSUME TypeOK, Phased, NEW r \in Requests, NEW phase, Goto(r, phase),
         \A q \in Requests \ {r} : job'[q] = job[q],
         phase \in {"enter", "start"} => job'[r].org \in Orgs,
         phase \in {"check", "direct", "read", "find", "enter", "start"}
           => r \in Submitters,
         phase \in {"load", "judge"} => r \in Approvers \cup Rejecters,
         phase = "sign" => r \in Approvers,
         phase = "reject" => r \in Rejecters
  PROVE  Phased'
<1>1. /\ pc'[r] = phase
      /\ \A q \in Requests \ {r} : pc'[q] = pc[q] /\ job'[q] = job[q]
  BY DEF TypeOK, Goto
<1> SUFFICES ASSUME NEW q \in Requests
             PROVE  /\ pc'[q] \in {"enter", "start"} => job'[q].org \in Orgs
                    /\ pc'[q] \in {"check", "direct", "read", "find", "enter", "start"}
                         => q \in Submitters
                    /\ pc'[q] \in {"load", "judge"} => q \in Approvers \cup Rejecters
                    /\ pc'[q] = "sign" => q \in Approvers
                    /\ pc'[q] = "reject" => q \in Rejecters
  BY DEF Phased
<1>2. CASE q = r
  BY <1>1, <1>2
<1>3. CASE q # r
  BY <1>1, <1>3 DEF Phased
<1> QED
  BY <1>2, <1>3

LEMMA OthersKeepTheirJobs ==
  ASSUME TypeOK, NEW r \in Requests, NEW j, Learn(r, j) \/ UNCHANGED job
  PROVE  \A q \in Requests \ {r} : job'[q] = job[q]
  BY DEF TypeOK, Learn

\* TypeOK, put together again.
LEMMA TypeFromParts ==
  ASSUME TypeOK, config' \in [Orgs -> Configs], doc' \in [Invoices -> Docs],
         RequestsOK'
  PROVE  TypeOK'
  BY DEF TypeOK, RequestsOK

\* The results an approver or rejecter appends are results.
LEMMA ResultsType ==
  ASSUME TypeOK, NEW r \in Approvers \cup Rejecters,
         pc[r] \notin {"idle", "done"}
  PROVE  /\ \A a \in {"approved", "rejected"} : Mark(r, a) \in Results
         /\ Appended(r) \subseteq Results
<1>1. r \in Requests
  BY DEF Requests
<1>2. /\ job[r].user \in Users /\ job[r].doc \in Docs /\ job[r].plan \in Plans
  BY <1>1, JobType
<1>3. job[r].doc.step \in Nat /\ job[r].doc.fields \in Fields
  BY <1>2 DEF Docs
<1>4. \A a \in {"approved", "rejected"} : Mark(r, a) \in Results
  BY <1>2, <1>3 DEF Mark, Results
<1>5. Skipped(job[r].plan, job[r].doc.step, job[r].doc.fields) \subseteq Nat
  BY <1>2, OrdersArePositive DEF Skipped
<1>6. Appended(r) \subseteq Results
  BY <1>3, <1>4, <1>5 DEF Appended, Results
<1> QED
  BY <1>4, <1>6

-----------------------------------------------------------------------------
(* Each action preserves the invariant.                                    *)

LEMMA ArrivePreserves ==
  ASSUME TypeOK, Phased, NEW r \in Requests, Arrive(r)
  PROVE  TypeOK' /\ Phased'
<1>1. PICK i \in Invoices, u \in Users :
        Learn(r, [invoice |-> i, user |-> u, doc |-> doc[i],
                  org |-> NoOrg, plan |-> NoPlan])
  BY DEF Arrive
<1>2. Goto(r, FirstPhase(r)) /\ UNCHANGED <<config, doc>>
  BY DEF Arrive
<1>3. /\ FirstPhase(r) \in Phases
      /\ FirstPhase(r) \notin {"enter", "start", "direct", "read", "find",
                               "judge", "sign", "reject"}
      /\ FirstPhase(r) = "check" => r \in Submitters
      /\ FirstPhase(r) = "load" => r \in Deciders \cup Rejecters
  BY DEF FirstPhase, Requests, Approvers, Phases
<1> DEFINE j == [invoice |-> i, user |-> u, doc |-> doc[i],
                 org |-> NoOrg, plan |-> NoPlan]
<1>4. j \in Jobs
  BY DEF Jobs, TypeOK, Plans
<1> HIDE DEF j
<1>5. Learn(r, j)
  BY <1>1 DEF j
<1>6. RequestsOK'
  BY <1>2, <1>3, <1>4, <1>5, LearnType
<1>7. Phased'
  <2>1. \A q \in Requests \ {r} : job'[q] = job[q]
    BY <1>5, OthersKeepTheirJobs
  <2> QED
    BY <1>2, <1>3, <2>1, PhasedByStep DEF Approvers
<1>8. TypeOK'
  BY <1>2, <1>6, TypeFromParts DEF TypeOK
<1> QED
  BY <1>7, <1>8

\* A step that goes to a phase and keeps the job of the request.
LEMMA GoOnPreserves ==
  ASSUME TypeOK, Phased, NEW r \in Requests, NEW phase \in Phases,
         pc[r] \notin {"idle", "done"}, Goto(r, phase), UNCHANGED job,
         phase \notin {"enter", "start", "sign", "reject"},
         phase \in {"check", "direct", "read", "find"} => r \in Submitters,
         phase \in {"load", "judge"} => r \in Approvers \cup Rejecters
  PROVE  RequestsOK' /\ Phased'
<1>1. RequestsOK'
  BY GotoType
<1>2. \A q \in Requests \ {r} : job'[q] = job[q]
  OBVIOUS
<1>3. Phased'
  BY <1>2, PhasedByStep
<1> QED
  BY <1>1, <1>3

\* A step that goes to a phase with a new job.
LEMMA LearnPreserves ==
  ASSUME TypeOK, Phased, NEW r \in Requests, NEW phase \in Phases, NEW j \in Jobs,
         Goto(r, phase), Learn(r, j),
         phase \in {"enter", "start"} => j.org \in Orgs,
         phase \in {"check", "direct", "read", "find", "enter", "start"}
           => r \in Submitters,
         phase \in {"load", "judge"} => r \in Approvers \cup Rejecters,
         phase = "sign" => r \in Approvers,
         phase = "reject" => r \in Rejecters
  PROVE  RequestsOK' /\ Phased'
<1>1. RequestsOK' /\ job'[r] = j
  BY LearnType
<1>2. \A q \in Requests \ {r} : job'[q] = job[q]
  BY OthersKeepTheirJobs
<1>3. Phased'
  BY <1>1, <1>2, PhasedByStep
<1> QED
  BY <1>1, <1>3

\* A document with other fields, and one that is saved, is a document.
LEMMA UpdateType ==
  ASSUME NEW d \in Docs, NEW s \in Statuses, NEW w \in Flows, NEW n \in Nat,
         NEW b \in Orgs \cup {NoOrg}, NEW R \in SUBSET Results, NEW v \in Nat
  PROVE  [d EXCEPT !.status = s, !.flow = w, !.by = b, !.step = n,
                   !.results = R, !.ver = v] \in Docs
  BY DEF Docs

LEMMA SaveType ==
  ASSUME NEW d \in Docs
  PROVE  /\ d.ver + 1 \in Nat /\ d.results \in SUBSET Results
         /\ \A v \in Nat, S \in SUBSET Results :
              [d EXCEPT !.results = S, !.ver = v] \in Docs
         /\ \A v \in Nat, S \in SUBSET Results, n \in Nat :
              [d EXCEPT !.results = S, !.step = n, !.ver = v] \in Docs
         /\ \A v \in Nat, S \in SUBSET Results, n \in Nat,
               s \in Statuses, w \in Flows :
              [d EXCEPT !.results = S, !.status = s, !.flow = w, !.step = n,
                        !.ver = v] \in Docs
         /\ \A v \in Nat, S \in SUBSET Results,
               s \in Statuses, w \in Flows :
              [d EXCEPT !.results = S, !.status = s, !.flow = w, !.ver = v] \in Docs
         /\ \A f \in Fields, v \in Nat, s \in Statuses :
              [d EXCEPT !.fields = f, !.ver = v, !.status = s] \in Docs
<1>1. d.ver + 1 \in Nat /\ d.results \in SUBSET Results
  BY DEF Docs
<1>2. \A v \in Nat, S \in SUBSET Results :
        [d EXCEPT !.results = S, !.ver = v] \in Docs
  BY DEF Docs
<1>3. \A v \in Nat, S \in SUBSET Results, n \in Nat :
        [d EXCEPT !.results = S, !.step = n, !.ver = v] \in Docs
  BY DEF Docs
<1>4. \A v \in Nat, S \in SUBSET Results, n \in Nat,
         s \in Statuses, w \in Flows :
        [d EXCEPT !.results = S, !.status = s, !.flow = w, !.step = n,
                  !.ver = v] \in Docs
  BY DEF Docs
<1>5. \A v \in Nat, S \in SUBSET Results,
         s \in Statuses, w \in Flows :
        [d EXCEPT !.results = S, !.status = s, !.flow = w, !.ver = v] \in Docs
  BY DEF Docs
<1>6. \A f \in Fields, v \in Nat, s \in Statuses :
        [d EXCEPT !.fields = f, !.ver = v, !.status = s] \in Docs
  BY DEF Docs
<1> QED
  BY <1>1, <1>2, <1>3, <1>4, <1>5, <1>6

LEMMA SubmissionPreserves ==
  ASSUME TypeOK, Phased, NEW r \in Requests, Submission(r)
  PROVE  TypeOK' /\ Phased'
<1>1. config \in [Orgs -> Configs] /\ doc \in [Invoices -> Docs]
  BY DEF TypeOK
<1>2. CASE CheckEnabled(r)
  <2>1. pc[r] = "check" /\ r \in Submitters
    BY <1>2 DEF CheckEnabled, At, Phased
  <2>2. PICK phase \in {"read", "direct"} : Goto(r, phase)
    BY <1>2 DEF CheckEnabled
  <2>3. phase \in Phases /\ UNCHANGED <<config, doc, job>>
    BY <1>2 DEF CheckEnabled, Phases
  <2>4. RequestsOK' /\ Phased'
    BY <2>1, <2>2, <2>3, GoOnPreserves
  <2> QED
    BY <1>1, <2>3, <2>4, TypeFromParts
<1>3. CASE ApproveDirectly(r)
  <2>1. pc[r] = "direct"
    BY <1>3 DEF ApproveDirectly, At
  <2>2. job[r].invoice \in Invoices /\ doc[job[r].invoice] \in Docs
    BY <2>1, JobType
  <2>3. doc' \in [Invoices -> Docs]
    BY <1>1, <1>3, <2>2 DEF ApproveDirectly, Docs, Statuses
  <2>4. RequestsOK' /\ Phased'
    BY <1>3, FinishType DEF ApproveDirectly
  <2> QED
    BY <1>1, <1>3, <2>3, <2>4, TypeFromParts DEF ApproveDirectly
<1>4. CASE ReadStatus(r)
  <2>1. pc[r] = "read" /\ r \in Submitters
    BY <1>4 DEF ReadStatus, At, Phased
  <2>2. UNCHANGED <<config, doc>>
    BY <1>4 DEF ReadStatus
  <2>3. CASE Finish(r)
    BY <1>1, <2>2, <2>3, FinishType, TypeFromParts
  <2>4. CASE UNCHANGED job /\ \E phase \in {"find", "load"} : Goto(r, phase)
    <3>1. PICK phase \in {"find", "load"} : Goto(r, phase)
      BY <2>4
    <3>2. phase \in Phases /\ r \in Approvers
      BY <2>1 DEF Phases, Approvers
    <3>3. RequestsOK' /\ Phased'
      BY <2>1, <2>4, <3>1, <3>2, GoOnPreserves
    <3> QED
      BY <1>1, <2>2, <3>3, TypeFromParts
  <2> QED
    BY <1>4, <2>3, <2>4 DEF ReadStatus
<1>5. CASE FindWorkflow(r)
  <2>1. pc[r] = "find" /\ r \in Submitters
    BY <1>5 DEF FindWorkflow, At, Phased
  <2>2. UNCHANGED <<config, doc>>
    BY <1>5 DEF FindWorkflow
  <2>3. CASE UNCHANGED job /\ Goto(r, "direct")
    <3>1. RequestsOK' /\ Phased'
      BY <2>1, <2>3, GoOnPreserves DEF Phases
    <3> QED
      BY <1>1, <2>2, <3>1, TypeFromParts
  <2>4. CASE \E o \in Orgs :
               /\ Learn(r, [job[r] EXCEPT !.org = o, !.plan = config[o].steps])
               /\ Goto(r, IF config[o].steps = NoPlan THEN "direct" ELSE "enter")
    <3>1. PICK o \in Orgs :
               /\ Learn(r, [job[r] EXCEPT !.org = o, !.plan = config[o].steps])
               /\ Goto(r, IF config[o].steps = NoPlan THEN "direct" ELSE "enter")
      BY <2>4
    <3> DEFINE j == [job[r] EXCEPT !.org = o, !.plan = config[o].steps]
    <3>2. config[o].steps \in Plans
      BY <1>1 DEF Plans
    <3>3. j \in Jobs /\ j.org = o
      BY <2>1, <3>2, JobType DEF Jobs
    <3>4. Learn(r, j)
      BY <3>1
    <3> HIDE DEF j
    <3>5. PICK phase \in {"direct", "enter"} : Goto(r, phase)
      BY <3>1
    <3>6. phase \in Phases
      BY DEF Phases
    <3>7. RequestsOK' /\ Phased'
      BY <2>1, <3>3, <3>4, <3>5, <3>6, LearnPreserves
    <3> QED
      BY <1>1, <2>2, <3>7, TypeFromParts
  <2> QED
    BY <1>5, <2>3, <2>4 DEF FindWorkflow
<1>6. CASE LoadForEntry(r)
  <2>1. pc[r] = "enter" /\ r \in Submitters /\ job[r].org \in Orgs
    BY <1>6 DEF LoadForEntry, At, Phased
  <2>2. UNCHANGED <<config, doc>>
    BY <1>6 DEF LoadForEntry
  <2>3. CASE UNCHANGED job /\ Goto(r, "direct")
    <3>1. RequestsOK' /\ Phased'
      BY <2>1, <2>3, GoOnPreserves DEF Phases
    <3> QED
      BY <1>1, <2>2, <3>1, TypeFromParts
  <2>4. CASE /\ Goto(r, "start")
             /\ Learn(r, [job[r] EXCEPT !.doc = doc[job[r].invoice]])
    <3> DEFINE j == [job[r] EXCEPT !.doc = doc[job[r].invoice]]
    <3>1. j \in Jobs /\ j.org \in Orgs
      BY <2>1, JobType DEF Jobs
    <3>2. Learn(r, j)
      BY <2>4
    <3> HIDE DEF j
    <3>3. RequestsOK' /\ Phased'
      BY <2>1, <2>4, <3>1, <3>2, LearnPreserves DEF Phases
    <3> QED
      BY <1>1, <2>2, <3>3, TypeFromParts
  <2> QED
    BY <1>6, <2>3, <2>4 DEF LoadForEntry
<1>7. CASE Start(r)
  <2> DEFINE i == job[r].invoice
             f == job[r].doc.fields
             skip == ~Applies(job[r].plan[1], f)
             x == [req |-> r, step |-> 1, user |-> NoUser,
                   action |-> "skipped", seen |-> f]
             n == IF skip THEN 2 ELSE 1
             R == IF skip THEN {x} ELSE {}
             d == [doc[i] EXCEPT
                     !.status = "AWAITING_APPROVAL", !.flow = "in_progress",
                     !.by = job[r].org, !.step = n, !.results = R,
                     !.ver = @ + 1]
  <2>1. pc[r] = "start" /\ r \in Submitters /\ job[r].org \in Orgs
    BY <1>7 DEF Start, At, Phased
  <2>2. i \in Invoices /\ doc[i] \in Docs /\ f \in Fields
    BY <2>1, JobType DEF Docs
  <2>3. x \in Results
    BY <2>1, <2>2 DEF Results, Approvers
  <2>4. Write(i, d)
    BY <1>7 DEF Start
  <2>5. n \in Nat /\ R \in SUBSET Results
    BY <2>3
  <2> HIDE DEF n, R
  <2>9. d \in Docs
    <3>1. doc[i].ver + 1 \in Nat
      BY <2>2, SaveType
    <3>2. "AWAITING_APPROVAL" \in Statuses /\ "in_progress" \in Flows
      BY DEF Statuses, Flows
    <3> HIDE DEF i
    <3> QED
      BY <2>1, <2>2, <2>5, <3>1, <3>2, UpdateType
  <2> HIDE DEF d, i
  <2>6. doc' \in [Invoices -> Docs]
    BY <2>2, <2>4, <2>9, WriteType
  <2>7. UNCHANGED config
    BY <1>7 DEF Start
  <2>8. RequestsOK' /\ Phased'
    <3>1. CASE Finish(r)
      BY <3>1, FinishType
    <3>2. CASE Goto(r, "load") /\ UNCHANGED job
      BY <2>1, <3>2, GoOnPreserves DEF Phases, Approvers
    <3> QED
      BY <1>7, <3>1, <3>2 DEF Start
  <2> QED
    BY <1>1, <2>6, <2>7, <2>8, TypeFromParts
<1> QED
  BY <1>2, <1>3, <1>4, <1>5, <1>6, <1>7 DEF Submission

LEMMA DecisionPreserves ==
  ASSUME TypeOK, Phased, NEW r \in Requests, Decision(r)
  PROVE  TypeOK' /\ Phased'
<1>1. config \in [Orgs -> Configs] /\ doc \in [Invoices -> Docs]
  BY DEF TypeOK
<1> DEFINE i == job[r].invoice
<1>2. CASE LoadForDecision(r)
  <2>1. pc[r] = "load" /\ r \in Approvers \cup Rejecters
    BY <1>2 DEF LoadForDecision, At, Phased
  <2>2. UNCHANGED <<config, doc>>
    BY <1>2 DEF LoadForDecision
  <2>3. CASE Finish(r)
    BY <1>1, <2>2, <2>3, FinishType, TypeFromParts
  <2>4. CASE Goto(r, "judge") /\ Learn(r, [job[r] EXCEPT !.doc = doc[i]])
    <3> DEFINE j == [job[r] EXCEPT !.doc = doc[i]]
    <3>1. j \in Jobs
      BY <2>1, JobType DEF Jobs
    <3>2. Learn(r, j)
      BY <2>4
    <3> HIDE DEF j
    <3>3. RequestsOK' /\ Phased'
      BY <2>1, <2>4, <3>1, <3>2, LearnPreserves DEF Phases
    <3> QED
      BY <1>1, <2>2, <3>3, TypeFromParts
  <2> QED
    BY <1>2, <2>3, <2>4 DEF LoadForDecision
<1>3. CASE Judge(r)
  <2> DEFINE o == job[r].doc.by
             p == IF o \in Orgs THEN config[o].steps ELSE NoPlan
             j == [job[r] EXCEPT !.plan = p]
  <2>1. pc[r] = "judge" /\ r \in Approvers \cup Rejecters
    BY <1>3 DEF Judge, At, Phased
  <2>2. UNCHANGED <<config, doc>>
    BY <1>3 DEF Judge
  <2>3. CASE Finish(r)
    BY <1>1, <2>2, <2>3, FinishType, TypeFromParts
  <2>4. CASE /\ Goto(r, IF r \in Rejecters THEN "reject" ELSE "sign")
             /\ Learn(r, j)
    <3>1. p \in Plans
      BY <1>1 DEF Plans
    <3>2. j \in Jobs
      BY <2>1, <3>1, JobType DEF Jobs
    <3> HIDE DEF j
    <3>3. PICK phase \in {"reject", "sign"} :
            /\ Goto(r, phase)
            /\ phase = "reject" => r \in Rejecters
            /\ phase = "sign" => r \in Approvers
      BY <2>1, <2>4
    <3>4. phase \in Phases
      BY DEF Phases
    <3>5. RequestsOK' /\ Phased'
      BY <2>1, <2>4, <3>2, <3>3, <3>4, LearnPreserves
    <3> QED
      BY <1>1, <2>2, <3>5, TypeFromParts
  <2> QED
    BY <1>3, <2>3, <2>4 DEF Judge
<1>4. ASSUME NEW d \in Docs, pc[r] \notin {"idle", "done"},
             Write(i, d), Finish(r), UNCHANGED config
      PROVE  TypeOK' /\ Phased'
  <2>1. i \in Invoices
    BY <1>4, JobType
  <2>2. doc' \in [Invoices -> Docs]
    BY <1>4, <2>1, WriteType
  <2> QED
    BY <1>1, <1>4, <2>2, FinishType, TypeFromParts
<1>5. CASE SignPartly(r)
  <2> DEFINE d == [doc[i] EXCEPT !.results = @ \cup {Mark(r, "approved")},
                                 !.ver = @ + 1]
  <2>1. pc[r] = "sign" /\ r \in Approvers
    BY <1>5 DEF SignPartly, At, Phased
  <2>2. doc[i] \in Docs /\ Mark(r, "approved") \in Results
    BY <2>1, JobType, ResultsType
  <2>3. d \in Docs
    <3>1. doc[i].ver + 1 \in Nat /\ doc[i].results \cup {Mark(r, "approved")} \in SUBSET Results
      BY <2>2, SaveType
    <3> HIDE DEF i
    <3> QED
      BY <2>2, <3>1, SaveType
  <2>4. Write(i, d) /\ Finish(r) /\ UNCHANGED config
    BY <1>5 DEF SignPartly
  <2> QED
    BY <1>4, <2>1, <2>3, <2>4
<1>6. CASE SignOn(r)
  <2>1. pc[r] = "sign" /\ r \in Approvers /\ Finish(r) /\ UNCHANGED config
    BY <1>6 DEF SignOn, At, Phased
  <2>2. PICK o \in Ahead(job[r].plan, job[r].doc.step, job[r].doc.fields) :
          Write(i, [doc[i] EXCEPT !.results = @ \cup Appended(r),
                                  !.step = o, !.ver = @ + 1])
    BY <1>6 DEF SignOn
  <2> DEFINE d == [doc[i] EXCEPT !.results = @ \cup Appended(r),
                                 !.step = o, !.ver = @ + 1]
  <2>3. o \in Nat
    BY <2>1, <2>2, JobType, OrdersArePositive DEF Ahead
  <2>4. doc[i] \in Docs /\ Appended(r) \subseteq Results
    BY <2>1, JobType, ResultsType
  <2>5. d \in Docs
    <3>1. doc[i].ver + 1 \in Nat /\ doc[i].results \cup Appended(r) \in SUBSET Results
      BY <2>3, <2>4, SaveType
    <3> HIDE DEF i
    <3> QED
      BY <2>3, <2>4, <3>1, SaveType
  <2> QED
    BY <1>4, <2>1, <2>2, <2>5
<1>7. CASE SignLast(r)
  <2> DEFINE d == [doc[i] EXCEPT !.results = @ \cup Appended(r),
                                 !.status = "APPROVED", !.flow = "approved",
                                 !.step = 0, !.ver = @ + 1]
  <2>1. pc[r] = "sign" /\ r \in Approvers
    BY <1>7 DEF SignLast, At, Phased
  <2>2. doc[i] \in Docs /\ Appended(r) \subseteq Results
    BY <2>1, JobType, ResultsType
  <2>3. d \in Docs
    <3>1. doc[i].ver + 1 \in Nat /\ doc[i].results \cup Appended(r) \in SUBSET Results
      BY <2>2, SaveType
    <3>2. "APPROVED" \in Statuses /\ "approved" \in Flows
      BY DEF Statuses, Flows
    <3> HIDE DEF i
    <3> QED
      BY <2>2, <3>1, <3>2, SaveType
  <2>4. Write(i, d) /\ Finish(r) /\ UNCHANGED config
    BY <1>7 DEF SignLast
  <2> QED
    BY <1>4, <2>1, <2>3, <2>4
<1>8. CASE Reject(r)
  <2> DEFINE d == [doc[i] EXCEPT !.results = @ \cup {Mark(r, "rejected")},
                                 !.status = "NEEDS_REVIEW",
                                 !.flow = "rejected", !.ver = @ + 1]
  <2>1. pc[r] = "reject" /\ r \in Rejecters
    BY <1>8 DEF Reject, At, Phased
  <2>2. doc[i] \in Docs /\ Mark(r, "rejected") \in Results
    BY <2>1, JobType, ResultsType
  <2>3. d \in Docs
    <3>1. doc[i].ver + 1 \in Nat /\ doc[i].results \cup {Mark(r, "rejected")} \in SUBSET Results
      BY <2>2, SaveType
    <3>2. "NEEDS_REVIEW" \in Statuses /\ "rejected" \in Flows
      BY DEF Statuses, Flows
    <3> HIDE DEF i
    <3> QED
      BY <2>2, <3>1, <3>2, SaveType
  <2>4. Write(i, d) /\ Finish(r) /\ UNCHANGED config
    BY <1>8 DEF Reject
  <2> QED
    BY <1>4, <2>1, <2>3, <2>4
<1> QED
  BY <1>2, <1>3, <1>5, <1>6, <1>7, <1>8 DEF Decision

\* What an edit, a revert, an export mark or a deletion leaves is a document.
LEMMA EditedType ==
  ASSUME NEW c \in Docs, NEW d \in Docs, NEW f \in Fields
  PROVE  Edited(c, d, f) \in Docs
<1> DEFINE s == StatusAfterEdit(d, f)
           t == IF s # d.status THEN s ELSE c.status
           e == [c EXCEPT !.fields = f, !.ver = @ + 1, !.status = t]
<1>1. s \in Statuses
  BY DEF StatusAfterEdit, Statuses
<1> HIDE DEF s
<1>2. t \in Statuses
  BY <1>1 DEF Docs
<1> HIDE DEF t
<1>3. e \in Docs
  BY <1>2, SaveType
<1>4. [e EXCEPT !.flow = "none", !.step = 0, !.by = NoOrg, !.results = {}] \in Docs
  <2> HIDE DEF e
  <2> QED
    BY <1>3 DEF Docs, Flows
<1> QED
  BY <1>3, <1>4 DEF Edited, t, s

LEMMA UpkeepPreserves ==
  ASSUME TypeOK, Phased, NEW r \in Requests, Upkeep(r)
  PROVE  TypeOK' /\ Phased'
<1>1. config \in [Orgs -> Configs] /\ doc \in [Invoices -> Docs]
  BY DEF TypeOK
<1> DEFINE i == job[r].invoice
<1>2. CASE OpenForEdit(r)
  <2>1. pc[r] = "open"
    BY <1>2 DEF OpenForEdit, At
  <2>2. UNCHANGED <<config, doc>>
    BY <1>2 DEF OpenForEdit
  <2>3. CASE Finish(r)
    BY <1>1, <2>2, <2>3, FinishType, TypeFromParts
  <2>4. CASE Goto(r, "save") /\ Learn(r, [job[r] EXCEPT !.doc = doc[i]])
    <3> DEFINE j == [job[r] EXCEPT !.doc = doc[i]]
    <3>1. j \in Jobs
      BY <2>1, JobType DEF Jobs
    <3>2. Learn(r, j)
      BY <2>4
    <3> HIDE DEF j
    <3>3. RequestsOK' /\ Phased'
      BY <2>1, <2>4, <3>1, <3>2, LearnPreserves DEF Phases
    <3> QED
      BY <1>1, <2>2, <3>3, TypeFromParts
  <2> QED
    BY <1>2, <2>3, <2>4 DEF OpenForEdit
<1>3. CASE SaveEdit(r)
  <2>1. pc[r] = "save" /\ Finish(r) /\ UNCHANGED config
    BY <1>3 DEF SaveEdit, At
  <2>2. i \in Invoices /\ doc[i] \in Docs /\ job[r].doc \in Docs
    BY <2>1, JobType
  <2>3. doc' \in [Invoices -> Docs]
    <3>1. CASE UNCHANGED doc
      BY <1>1, <3>1
    <3>2. CASE \E f \in Fields :
                 doc' = [doc EXCEPT ![i] = Edited(@, job[r].doc, f)]
      <4>1. PICK f \in Fields :
              doc' = [doc EXCEPT ![i] = Edited(doc[i], job[r].doc, f)]
        BY <3>2
      <4>2. Edited(doc[i], job[r].doc, f) \in Docs
        BY <2>2, EditedType
      <4> QED
        BY <1>1, <4>1, <4>2
    <3> QED
      BY <1>3, <3>1, <3>2 DEF SaveEdit
  <2> QED
    BY <1>1, <2>1, <2>3, FinishType, TypeFromParts
<1>4. CASE SaveConfig(r)
  <2>1. pc[r] = "configure" /\ UNCHANGED doc
    BY <1>4 DEF SaveConfig, At
  <2>2. PICK c \in Configs :
          /\ config' = [config EXCEPT ![OrgOf[job[r].invoice]] = c]
          /\ Finish(r) \/ (Goto(r, "revert") /\ UNCHANGED job)
    BY <1>4 DEF SaveConfig
  <2>3. config' \in [Orgs -> Configs]
    BY <1>1, <2>2
  <2>4. CASE Finish(r)
    BY <1>1, <2>1, <2>3, <2>4, FinishType, TypeFromParts
  <2>5. CASE Goto(r, "revert") /\ UNCHANGED job
    <3>1. RequestsOK' /\ Phased'
      BY <2>1, <2>5, GoOnPreserves DEF Phases
    <3> QED
      BY <1>1, <2>1, <2>3, <3>1, TypeFromParts
  <2> QED
    BY <2>2, <2>4, <2>5
<1>5. CASE RevertWaiting(r)
  <2>1. \A k \in Invoices : doc[k] \in Docs
    BY <1>1
  <2>2. \A k \in Invoices :
          [doc[k] EXCEPT !.status = "NEEDS_REVIEW", !.flow = "none",
                         !.step = 0, !.by = NoOrg, !.results = {}] \in Docs
    BY <2>1 DEF Docs, Statuses, Flows
  <2>3. doc' \in [Invoices -> Docs]
    BY <1>5, <2>1, <2>2 DEF RevertWaiting
  <2> QED
    BY <1>1, <1>5, <2>3, FinishType, TypeFromParts DEF RevertWaiting
<1>6. CASE FetchForExport(r)
  <2>1. pc[r] = "fetch" /\ UNCHANGED <<config, doc>>
    BY <1>6 DEF FetchForExport, At
  <2>2. CASE Finish(r)
    BY <1>1, <2>1, <2>2, FinishType, TypeFromParts
  <2>3. CASE Goto(r, "mark") /\ UNCHANGED job
    <3>1. RequestsOK' /\ Phased'
      BY <2>1, <2>3, GoOnPreserves DEF Phases
    <3> QED
      BY <1>1, <2>1, <3>1, TypeFromParts
  <2> QED
    BY <1>6, <2>2, <2>3 DEF FetchForExport
<1>7. CASE MarkExported(r)
  <2>1. pc[r] = "mark" /\ Finish(r) /\ UNCHANGED config
    BY <1>7 DEF MarkExported, At
  <2>2. i \in Invoices /\ doc[i] \in Docs
    BY <2>1, JobType
  <2>3. [doc[i] EXCEPT !.status = "EXPORTED"] \in Docs
    BY <2>2 DEF Docs, Statuses
  <2>4. doc' \in [Invoices -> Docs]
    BY <1>7, <2>2, <2>3, WriteType DEF MarkExported
  <2> QED
    BY <1>1, <2>1, <2>4, FinishType, TypeFromParts
<1>8. CASE Delete(r)
  <2>1. pc[r] = "delete" /\ Finish(r) /\ UNCHANGED config
    BY <1>8 DEF Delete, At
  <2>2. i \in Invoices /\ doc[i] \in Docs
    BY <2>1, JobType
  <2>3. doc' \in [Invoices -> Docs]
    BY <1>1, <1>8, <2>2 DEF Delete, Docs, Statuses
  <2> QED
    BY <1>1, <2>1, <2>3, FinishType, TypeFromParts
<1> QED
  BY <1>2, <1>3, <1>4, <1>5, <1>6, <1>7, <1>8 DEF Upkeep

-----------------------------------------------------------------------------
(* What a step does to a document: its version counts the decisions, and   *)
(* an invoice that awaits approval has a workflow in progress.             *)

WaitsProperly(d) ==
  d.status = "AWAITING_APPROVAL" =>
    d.flow = "in_progress" /\ d.step > 0 /\ d.by \in Orgs

StepFine(c, d) ==
  /\ \/ d.ver = c.ver /\ d.results \subseteq c.results
     \/ d.ver > c.ver
  /\ WaitsProperly(c) => WaitsProperly(d)

LEMMA SameIsFine ==
  ASSUME NEW c
  PROVE  StepFine(c, c)
  BY DEF StepFine

LEMMA WriteIsFine ==
  ASSUME TypeOK, NEW i \in Invoices, NEW d, StepFine(doc[i], d),
         Write(i, d) \/ doc' = [doc EXCEPT ![i] = d]
  PROVE  \A k \in Invoices : StepFine(doc[k], doc'[k])
<1>1. doc \in [Invoices -> Docs]
  BY DEF TypeOK
<1>2. \A k \in Invoices : doc'[k] = doc[k] \/ (k = i /\ doc'[k] = d)
  BY <1>1 DEF Write
<1> SUFFICES ASSUME NEW k \in Invoices
             PROVE  StepFine(doc[k], doc'[k])
  OBVIOUS
<1>3. CASE doc'[k] = doc[k]
  BY <1>3, SameIsFine
<1>4. CASE k = i /\ doc'[k] = d
  BY <1>4
<1> QED
  BY <1>2, <1>3, <1>4

LEMMA SubmissionIsFine ==
  ASSUME TypeOK, Phased, NEW r \in Requests, Submission(r)
  PROVE  \A k \in Invoices : StepFine(doc[k], doc'[k])
<1> DEFINE i == job[r].invoice
<1>1. CASE UNCHANGED doc
  BY <1>1, SameIsFine
<1>2. CASE ApproveDirectly(r)
  <2> DEFINE s == IF doc[i].status \in Open THEN "APPROVED" ELSE doc[i].status
             d == [doc[i] EXCEPT !.status = s]
  <2>1. i \in Invoices /\ doc[i] \in Docs
    BY <1>2, JobType DEF ApproveDirectly, At
  <2>2. doc \in [Invoices -> Docs]
    BY DEF TypeOK
  <2>3. doc' = [doc EXCEPT ![i] = d]
    BY <1>2, <2>1, <2>2 DEF ApproveDirectly
  <2>4. s = "AWAITING_APPROVAL" => doc[i].status = "AWAITING_APPROVAL"
    OBVIOUS
  <2> HIDE DEF s
  <2>5. /\ d.status = s /\ d.flow = doc[i].flow /\ d.step = doc[i].step
        /\ d.by = doc[i].by /\ d.ver = doc[i].ver /\ d.results = doc[i].results
    BY <2>1 DEF Docs
  <2> HIDE DEF d
  <2>6. StepFine(doc[i], d)
    BY <2>4, <2>5 DEF StepFine, WaitsProperly
  <2> HIDE DEF i
  <2> QED
    BY <2>1, <2>3, <2>6, WriteIsFine
<1>3. CASE Start(r)
  <2> DEFINE f == job[r].doc.fields
             skip == ~Applies(job[r].plan[1], f)
             n == IF skip THEN 2 ELSE 1
             R == IF skip THEN {[req |-> r, step |-> 1, user |-> NoUser,
                                 action |-> "skipped", seen |-> f]} ELSE {}
             d == [doc[i] EXCEPT
                     !.status = "AWAITING_APPROVAL", !.flow = "in_progress",
                     !.by = job[r].org, !.step = n, !.results = R,
                     !.ver = @ + 1]
  <2>1. pc[r] = "start" /\ job[r].org \in Orgs
    BY <1>3 DEF Start, At, Phased
  <2>2. i \in Invoices /\ doc[i] \in Docs
    BY <2>1, JobType
  <2>3. Write(i, d)
    BY <1>3 DEF Start
  <2>4. n > 0
    OBVIOUS
  <2> HIDE DEF n, R
  <2>5. /\ d.flow = "in_progress" /\ d.step = n /\ d.by = job[r].org
        /\ d.ver = doc[i].ver + 1
    BY <2>2 DEF Docs
  <2>6. doc[i].ver \in Nat
    BY <2>2 DEF Docs
  <2> HIDE DEF d
  <2>7. StepFine(doc[i], d)
    BY <2>1, <2>4, <2>5, <2>6 DEF StepFine, WaitsProperly
  <2> HIDE DEF i
  <2> QED
    BY <2>2, <2>3, <2>7, WriteIsFine
<1> QED
  BY <1>1, <1>2, <1>3 DEF Submission, CheckEnabled, ReadStatus, FindWorkflow,
     LoadForEntry

LEMMA DecisionIsFine ==
  ASSUME TypeOK, Phased, NEW r \in Requests, Decision(r)
  PROVE  \A k \in Invoices : StepFine(doc[k], doc'[k])
<1> DEFINE i == job[r].invoice
<1>1. CASE UNCHANGED doc
  BY <1>1, SameIsFine
\* A save that increments the version and leaves no malformed waiting invoice.
<1>2. ASSUME NEW d, pc[r] \notin {"idle", "done"}, Write(i, d),
             d.ver = doc[i].ver + 1, WaitsProperly(doc[i]) => WaitsProperly(d)
      PROVE  \A k \in Invoices : StepFine(doc[k], doc'[k])
  <2>1. i \in Invoices /\ doc[i].ver \in Nat
    BY <1>2, JobType DEF Docs
  <2>2. StepFine(doc[i], d)
    BY <1>2, <2>1 DEF StepFine
  <2> HIDE DEF i
  <2> QED
    BY <1>2, <2>1, <2>2, WriteIsFine
<1>3. CASE SignPartly(r)
  <2> DEFINE d == [doc[i] EXCEPT !.results = @ \cup {Mark(r, "approved")},
                                 !.ver = @ + 1]
  <2>1. pc[r] = "sign" /\ Write(i, d)
    BY <1>3 DEF SignPartly, At
  <2>2. doc[i] \in Docs
    BY <2>1, JobType
  <2>3. /\ d.status = doc[i].status /\ d.flow = doc[i].flow
        /\ d.step = doc[i].step /\ d.by = doc[i].by /\ d.ver = doc[i].ver + 1
    BY <2>2 DEF Docs
  <2> HIDE DEF d
  <2> QED
    BY <1>2, <2>1, <2>3 DEF WaitsProperly
<1>4. CASE SignOn(r)
  <2>1. pc[r] = "sign"
    BY <1>4 DEF SignOn, At
  <2>2. PICK o \in Ahead(job[r].plan, job[r].doc.step, job[r].doc.fields) :
          Write(i, [doc[i] EXCEPT !.results = @ \cup Appended(r),
                                  !.step = o, !.ver = @ + 1])
    BY <1>4 DEF SignOn
  <2> DEFINE d == [doc[i] EXCEPT !.results = @ \cup Appended(r),
                                 !.step = o, !.ver = @ + 1]
  <2>3. o > 0
    BY <2>1, <2>2, JobType, OrdersArePositive DEF Ahead
  <2>4. doc[i] \in Docs
    BY <2>1, JobType
  <2>5. /\ d.status = doc[i].status /\ d.flow = doc[i].flow
        /\ d.step = o /\ d.by = doc[i].by /\ d.ver = doc[i].ver + 1
    BY <2>4 DEF Docs
  <2>6. Write(i, d)
    BY <2>2
  <2> HIDE DEF d
  <2> QED
    BY <1>2, <2>1, <2>3, <2>5, <2>6 DEF WaitsProperly
<1>5. CASE SignLast(r)
  <2> DEFINE d == [doc[i] EXCEPT !.results = @ \cup Appended(r),
                                 !.status = "APPROVED", !.flow = "approved",
                                 !.step = 0, !.ver = @ + 1]
  <2>1. pc[r] = "sign" /\ Write(i, d)
    BY <1>5 DEF SignLast, At
  <2>2. doc[i] \in Docs
    BY <2>1, JobType
  <2>3. d.status = "APPROVED" /\ d.ver = doc[i].ver + 1
    BY <2>2 DEF Docs
  <2> HIDE DEF d
  <2> QED
    BY <1>2, <2>1, <2>3 DEF WaitsProperly
<1>6. CASE Reject(r)
  <2> DEFINE d == [doc[i] EXCEPT !.results = @ \cup {Mark(r, "rejected")},
                                 !.status = "NEEDS_REVIEW",
                                 !.flow = "rejected", !.ver = @ + 1]
  <2>1. pc[r] = "reject" /\ Write(i, d)
    BY <1>6 DEF Reject, At
  <2>2. doc[i] \in Docs
    BY <2>1, JobType
  <2>3. d.status = "NEEDS_REVIEW" /\ d.ver = doc[i].ver + 1
    BY <2>2 DEF Docs
  <2> HIDE DEF d
  <2> QED
    BY <1>2, <2>1, <2>3 DEF WaitsProperly
<1> QED
  BY <1>1, <1>3, <1>4, <1>5, <1>6 DEF Decision, LoadForDecision, Judge

\* An edit that is saved increments the version. One that was loaded while the
\* invoice awaited approval leaves it in review, and no other makes it wait.
LEMMA EditIsFine ==
  ASSUME NEW c \in Docs, NEW d \in Docs, NEW f \in Fields
  PROVE  StepFine(c, Edited(c, d, f))
<1> DEFINE s == StatusAfterEdit(d, f)
           t == IF s # d.status THEN s ELSE c.status
           e == [c EXCEPT !.fields = f, !.ver = @ + 1, !.status = t]
           g == [e EXCEPT !.flow = "none", !.step = 0, !.by = NoOrg,
                          !.results = {}]
<1>1. c.ver \in Nat
  BY DEF Docs
<1>2. s # "AWAITING_APPROVAL"
  BY DEF StatusAfterEdit
<1>3. t = "AWAITING_APPROVAL" =>
        c.status = "AWAITING_APPROVAL" /\ d.status # "AWAITING_APPROVAL"
  BY <1>2
<1> HIDE DEF s, t
<1>4. /\ e.status = t /\ e.flow = c.flow /\ e.step = c.step /\ e.by = c.by
      /\ e.ver = c.ver + 1
  BY DEF Docs
<1>5. g.status = t /\ g.ver = c.ver + 1
  BY DEF Docs
<1>6. CASE d.status = "AWAITING_APPROVAL"
  <2>1. Edited(c, d, f) = g
    BY <1>6 DEF Edited, s, t
  <2> HIDE DEF e, g
  <2> QED
    BY <1>1, <1>3, <1>5, <1>6, <2>1 DEF StepFine, WaitsProperly
<1>7. CASE d.status # "AWAITING_APPROVAL"
  <2>1. Edited(c, d, f) = e
    BY <1>7 DEF Edited, s, t
  <2> HIDE DEF e
  <2> QED
    BY <1>1, <1>3, <1>4, <2>1 DEF StepFine, WaitsProperly
<1> QED
  BY <1>6, <1>7

LEMMA UpkeepIsFine ==
  ASSUME TypeOK, Phased, NEW r \in Requests, Upkeep(r)
  PROVE  \A k \in Invoices : StepFine(doc[k], doc'[k])
<1> DEFINE i == job[r].invoice
<1>1. CASE UNCHANGED doc
  BY <1>1, SameIsFine
<1>2. doc \in [Invoices -> Docs]
  BY DEF TypeOK
\* A write that changes the status alone, and not to waiting.
<1>3. ASSUME NEW s, s # "AWAITING_APPROVAL" \/ s = doc[i].status,
             pc[r] \notin {"idle", "done"},
             \/ Write(i, [doc[i] EXCEPT !.status = s])
             \/ doc' = [doc EXCEPT ![i] = [doc[i] EXCEPT !.status = s]]
      PROVE  \A k \in Invoices : StepFine(doc[k], doc'[k])
  <2> DEFINE d == [doc[i] EXCEPT !.status = s]
  <2>1. i \in Invoices /\ doc[i] \in Docs
    BY <1>3, JobType
  <2>2. /\ d.status = s /\ d.flow = doc[i].flow /\ d.step = doc[i].step
        /\ d.by = doc[i].by /\ d.ver = doc[i].ver /\ d.results = doc[i].results
    BY <2>1 DEF Docs
  <2>3. Write(i, d) \/ doc' = [doc EXCEPT ![i] = d]
    BY <1>3
  <2> HIDE DEF d
  <2>4. StepFine(doc[i], d)
    BY <1>3, <2>2 DEF StepFine, WaitsProperly
  <2> HIDE DEF i
  <2> QED
    BY <2>1, <2>3, <2>4, WriteIsFine
<1>4. CASE SaveEdit(r)
  <2>1. i \in Invoices /\ doc[i] \in Docs /\ job[r].doc \in Docs
    BY <1>4, JobType DEF SaveEdit, At
  <2>2. CASE \E f \in Fields :
               doc' = [doc EXCEPT ![i] = Edited(@, job[r].doc, f)]
    <3>1. PICK f \in Fields :
            doc' = [doc EXCEPT ![i] = Edited(doc[i], job[r].doc, f)]
      BY <2>2
    <3>2. StepFine(doc[i], Edited(doc[i], job[r].doc, f))
      BY <2>1, EditIsFine
    <3> HIDE DEF i
    <3> QED
      BY <2>1, <3>1, <3>2, WriteIsFine
  <2> QED
    BY <1>1, <1>4, <2>2 DEF SaveEdit
<1>5. CASE RevertWaiting(r)
  <2> SUFFICES ASSUME NEW k \in Invoices
               PROVE  StepFine(doc[k], doc'[k])
    OBVIOUS
  <2> DEFINE d == [doc[k] EXCEPT !.status = "NEEDS_REVIEW", !.flow = "none",
                                 !.step = 0, !.by = NoOrg, !.results = {}]
  <2>1. doc'[k] = doc[k] \/ doc'[k] = d
    BY <1>5 DEF RevertWaiting
  <2>2. doc[k] \in Docs
    BY <1>2
  <2>3. d.status = "NEEDS_REVIEW" /\ d.results = {} /\ d.ver = doc[k].ver
    BY <2>2 DEF Docs
  <2> HIDE DEF d
  <2>4. StepFine(doc[k], d)
    BY <2>3 DEF StepFine, WaitsProperly
  <2> QED
    BY <2>1, <2>4, SameIsFine
<1>6. CASE MarkExported(r)
  <2>1. pc[r] = "mark" /\ Write(i, [doc[i] EXCEPT !.status = "EXPORTED"])
    BY <1>6 DEF MarkExported, At
  <2> QED
    BY <1>3, <2>1
<1>7. CASE Delete(r)
  <2> DEFINE s == IF doc[i].status = "EXPORTED" THEN doc[i].status
                                                ELSE "DELETED"
  <2>1. pc[r] = "delete"
    BY <1>7 DEF Delete, At
  <2>2. i \in Invoices
    BY <2>1, JobType
  <2>3. doc' = [doc EXCEPT ![i] = [doc[i] EXCEPT !.status = s]]
    BY <1>2, <1>7, <2>2 DEF Delete
  <2>4. s # "AWAITING_APPROVAL" \/ s = doc[i].status
    OBVIOUS
  <2> HIDE DEF s
  <2> QED
    BY <1>3, <2>1, <2>3, <2>4
<1> QED
  BY <1>1, <1>4, <1>5, <1>6, <1>7 DEF Upkeep, OpenForEdit, SaveConfig,
     FetchForExport

-----------------------------------------------------------------------------
(* The inductive invariant, and the steps of the system.                   *)

IInv == TypeOK /\ Phased /\ AwaitingIsInProgress

LEMMA InitIInv ==
  ASSUME Init
  PROVE  IInv
<1>1. \A s \in {"NEEDS_REVIEW", "PARSED"}, f \in Fields :
        Fresh(s, f) \in Docs /\ Fresh(s, f).status # "AWAITING_APPROVAL"
  BY DEF Fresh, Docs, Statuses, Flows
<1>2. doc \in [Invoices -> Docs]
  BY <1>1, ConstantsAssumption DEF Init
<1>3. AwaitingIsInProgress
  BY <1>1, ConstantsAssumption DEF Init, AwaitingIsInProgress
<1>4. TypeOK
  BY <1>2 DEF Init, TypeOK, Phases
<1>5. Phased
  BY DEF Init, Phased
<1> QED
  BY <1>3, <1>4, <1>5 DEF IInv

LEMMA StepIsFine ==
  ASSUME TypeOK, Phased, [Next]_vars
  PROVE  \A k \in Invoices : StepFine(doc[k], doc'[k])
<1>1. CASE UNCHANGED doc
  BY <1>1, SameIsFine
<1>2. ASSUME NEW r \in Requests, Arrive(r) \/ Submission(r) \/ Decision(r)
                                 \/ Upkeep(r)
      PROVE  \A k \in Invoices : StepFine(doc[k], doc'[k])
  BY <1>1, <1>2, SubmissionIsFine, DecisionIsFine, UpkeepIsFine DEF Arrive
<1> QED
  BY <1>1, <1>2 DEF Next, Quiet, vars

LEMMA NextIInv ==
  ASSUME IInv, [Next]_vars
  PROVE  IInv'
<1>1. TypeOK /\ Phased
  BY DEF IInv
<1>2. TypeOK' /\ Phased'
  <2>1. CASE UNCHANGED vars
    BY <1>1, <2>1 DEF vars, TypeOK, Phased
  <2>2. ASSUME NEW r \in Requests, Arrive(r) \/ Submission(r) \/ Decision(r)
                                   \/ Upkeep(r)
        PROVE  TypeOK' /\ Phased'
    BY <1>1, <2>2, ArrivePreserves, SubmissionPreserves, DecisionPreserves,
       UpkeepPreserves
  <2> QED
    BY <2>1, <2>2 DEF Next, Quiet
<1>3. AwaitingIsInProgress'
  <2>1. \A k \in Invoices : StepFine(doc[k], doc'[k])
    BY <1>1, StepIsFine
  <2>2. \A k \in Invoices : WaitsProperly(doc[k])
    BY DEF IInv, AwaitingIsInProgress, WaitsProperly
  <2>3. \A k \in Invoices : WaitsProperly(doc'[k])
    BY <2>1, <2>2 DEF StepFine
  <2> QED
    BY <2>3 DEF AwaitingIsInProgress, WaitsProperly
<1> QED
  BY <1>2, <1>3 DEF IInv

\* IInv holds in every reachable state.
THEOREM Invariance == Spec => []IInv
<1>1. Init => IInv
  BY InitIInv
<1>2. IInv /\ [Next]_vars => IInv'
  BY NextIInv
<1> QED
  BY <1>1, <1>2, PTL DEF Spec

\* Every request, document and configuration keeps its type.
THEOREM TypeCorrect == Spec => []TypeOK
<1>1. IInv => TypeOK
  BY DEF IInv
<1> QED
  BY <1>1, Invariance, PTL

\* Whatever requests overlap, an invoice that awaits approval has a workflow
\* in progress, at a step: approveStep and rejectStep never find one to which
\* "no_active_workflow" applies.
THEOREM AwaitingHasWorkflow == Spec => []AwaitingIsInProgress
<1>1. IInv => AwaitingIsInProgress
  BY DEF IInv
<1> QED
  BY <1>1, Invariance, PTL

\* No request adds to the results of an invoice without incrementing __v.
THEOREM DecisionsAreCounted == Spec => VersionsCountDecisions
<1>1. IInv /\ [Next]_vars =>
        [\A i \in Invoices : \/ /\ doc'[i].ver = doc[i].ver
                                /\ doc'[i].results \subseteq doc[i].results
                             \/ doc'[i].ver > doc[i].ver]_vars
  BY StepIsFine DEF IInv, StepFine
<1> QED
  BY <1>1, Invariance, PTL DEF Spec, VersionsCountDecisions

-----------------------------------------------------------------------------
(* What an editor holds while it prepares its save: the document has moved *)
(* on from the version loaded, or has no result that was not loaded.       *)

Seen(c, d) == /\ c.ver \in Nat /\ d.ver \in Nat /\ d.ver <= c.ver
              /\ d.ver = c.ver => c.results \subseteq d.results

EditorsView ==
  \A r \in Editors : pc[r] = "save" => Seen(doc[job[r].invoice], job[r].doc)

\* An editor gets to "save" only by loading the document.
LEMMA OnlyOpenLeadsToSave ==
  ASSUME TypeOK, Phased, [Next]_vars, NEW r \in Editors, pc'[r] = "save"
  PROVE  \/ pc[r] = "save" /\ job'[r] = job[r]
         \/ OpenForEdit(r) /\ pc[r] = "open"
            /\ Learn(r, [job[r] EXCEPT !.doc = doc[job[r].invoice]])
<1>1. r \in Requests /\ pc \in [Requests -> Phases]
      /\ job \in [Requests -> Jobs \cup {NoJob}]
  BY DEF Requests, TypeOK
<1>2. CASE UNCHANGED vars
  BY <1>2 DEF vars
<1>3. ASSUME NEW q \in Requests,
             Arrive(q) \/ Submission(q) \/ Decision(q) \/ Upkeep(q)
      PROVE  \/ pc[r] = "save" /\ job'[r] = job[r]
             \/ OpenForEdit(r) /\ pc[r] = "open"
                /\ Learn(r, [job[r] EXCEPT !.doc = doc[job[r].invoice]])
  <2>1. PICK phase : Goto(q, phase)
    <3>1. CASE Arrive(q)
      BY <3>1 DEF Arrive
    <3>2. CASE Submission(q)
      <4>1. CASE CheckEnabled(q) \/ ApproveDirectly(q) \/ ReadStatus(q)
        BY <4>1 DEF CheckEnabled, ApproveDirectly, ReadStatus, Finish
      <4>2. CASE FindWorkflow(q) \/ LoadForEntry(q) \/ Start(q)
        BY <4>2 DEF FindWorkflow, LoadForEntry, Start, Finish
      <4> QED
        BY <3>2, <4>1, <4>2 DEF Submission
    <3>3. CASE Decision(q)
      <4>1. CASE LoadForDecision(q) \/ Judge(q)
        BY <4>1 DEF LoadForDecision, Judge, Finish
      <4>2. CASE SignPartly(q) \/ SignOn(q)
        BY <4>2 DEF SignPartly, SignOn, Finish
      <4>3. CASE SignLast(q) \/ Reject(q)
        BY <4>3 DEF SignLast, Reject, Finish
      <4> QED
        BY <3>3, <4>1, <4>2, <4>3 DEF Decision
    <3>4. CASE Upkeep(q)
      <4>1. CASE OpenForEdit(q) \/ SaveEdit(q) \/ FetchForExport(q)
        BY <4>1 DEF OpenForEdit, SaveEdit, FetchForExport, Finish
      <4>2. CASE \/ SaveConfig(q) \/ RevertWaiting(q) \/ MarkExported(q)
                 \/ Delete(q)
        BY <4>2 DEF SaveConfig, RevertWaiting, MarkExported, Delete, Finish
      <4> QED
        BY <3>4, <4>1, <4>2 DEF Upkeep
    <3> QED
      BY <1>3, <3>1, <3>2, <3>3, <3>4
  <2>2. UNCHANGED job \/ \E j : Learn(q, j)
    <3>1. CASE Arrive(q)
      BY <3>1 DEF Arrive
    <3>2. CASE Submission(q)
      <4>1. CASE CheckEnabled(q) \/ ApproveDirectly(q) \/ ReadStatus(q)
        BY <4>1 DEF CheckEnabled, ApproveDirectly, ReadStatus, Finish
      <4>2. CASE FindWorkflow(q) \/ LoadForEntry(q) \/ Start(q)
        BY <4>2 DEF FindWorkflow, LoadForEntry, Start, Finish
      <4> QED
        BY <3>2, <4>1, <4>2 DEF Submission
    <3>3. CASE Decision(q)
      <4>1. CASE LoadForDecision(q) \/ Judge(q)
        BY <4>1 DEF LoadForDecision, Judge, Finish
      <4>2. CASE SignPartly(q) \/ SignOn(q)
        BY <4>2 DEF SignPartly, SignOn, Finish
      <4>3. CASE SignLast(q) \/ Reject(q)
        BY <4>3 DEF SignLast, Reject, Finish
      <4> QED
        BY <3>3, <4>1, <4>2, <4>3 DEF Decision
    <3>4. CASE Upkeep(q)
      <4>1. CASE OpenForEdit(q) \/ SaveEdit(q) \/ FetchForExport(q)
        BY <4>1 DEF OpenForEdit, SaveEdit, FetchForExport, Finish
      <4>2. CASE \/ SaveConfig(q) \/ RevertWaiting(q) \/ MarkExported(q)
                 \/ Delete(q)
        BY <4>2 DEF SaveConfig, RevertWaiting, MarkExported, Delete, Finish
      <4> QED
        BY <3>4, <4>1, <4>2 DEF Upkeep
    <3> QED
      BY <1>3, <3>1, <3>2, <3>3, <3>4
  <2>3. CASE q # r
    BY <1>1, <2>1, <2>2, <2>3 DEF Goto, Learn
  <2>4. CASE q = r /\ OpenForEdit(r)
    <3>1. CASE Finish(r)
      BY <1>1, <3>1 DEF Finish, Goto
    <3>2. CASE Learn(r, [job[r] EXCEPT !.doc = doc[job[r].invoice]])
      BY <2>4, <3>2 DEF OpenForEdit, At
    <3> QED
      BY <2>4, <3>1, <3>2 DEF OpenForEdit
  <2>5. CASE q = r /\ ~OpenForEdit(r)
    <3>1. Finish(r) => pc'[r] = "done"
      BY <1>1 DEF Finish, Goto
    <3>2. \A p \in Phases : Goto(r, p) => pc'[r] = p
      BY <1>1 DEF Goto
    <3>3. ~Finish(r) /\ \A p \in Phases \ {"save"} : ~Goto(r, p)
      BY <3>1, <3>2
    <3>4. ~Arrive(r)
      <4>1. FirstPhase(r) \in Phases \ {"save"} \/ r \notin Requests
        BY DEF FirstPhase, Phases, Requests, Approvers
      <4> QED
        BY <1>1, <3>3, <4>1 DEF Arrive
    <3>5. ~Submission(r)
      <4>1. ~CheckEnabled(r) /\ ~ApproveDirectly(r) /\ ~ReadStatus(r)
        BY <3>3 DEF CheckEnabled, ApproveDirectly, ReadStatus, Phases
      <4>2. ~FindWorkflow(r) /\ ~LoadForEntry(r) /\ ~Start(r)
        BY <3>3 DEF FindWorkflow, LoadForEntry, Start, Phases
      <4> QED
        BY <4>1, <4>2 DEF Submission
    <3>6. ~Decision(r)
      BY <3>3 DEF Decision, LoadForDecision, Judge, SignPartly, SignOn,
         SignLast, Reject, Phases
    <3>7. ~Upkeep(r)
      BY <2>5, <3>3 DEF Upkeep, SaveEdit, SaveConfig, RevertWaiting,
         FetchForExport, MarkExported, Delete, Phases
    <3> QED
      BY <1>3, <2>5, <3>4, <3>5, <3>6, <3>7
  <2> QED
    BY <2>3, <2>4, <2>5
<1>4. CASE Quiet
  BY <1>2, <1>4 DEF Quiet
<1> HIDE DEF Phased
<1> QED
  BY <1>2, <1>3, <1>4 DEF Next

LEMMA NextEditorsView ==
  ASSUME TypeOK, TypeOK', Phased, EditorsView, [Next]_vars
  PROVE  EditorsView'
<1> SUFFICES ASSUME NEW r \in Editors, pc'[r] = "save"
             PROVE  Seen(doc'[job'[r].invoice], job'[r].doc)
  BY DEF EditorsView
<1>1. r \in Requests
  BY DEF Requests
<1>2. CASE pc[r] = "save" /\ job'[r] = job[r]
  <2> DEFINE i == job[r].invoice
  <2>1. i \in Invoices
    BY <1>1, <1>2, JobType
  <2> HIDE DEF i
  <2>2. StepFine(doc[i], doc'[i])
    BY <2>1, StepIsFine
  <2>3. Seen(doc[i], job[r].doc)
    BY <1>2 DEF EditorsView, i
  <2>4. doc'[i].ver \in Nat
    BY <2>1 DEF TypeOK, Docs
  <2>5. Seen(doc'[i], job[r].doc)
    BY <2>2, <2>3, <2>4 DEF Seen, StepFine
  <2> QED
    BY <1>2, <2>5 DEF i
<1>3. CASE /\ OpenForEdit(r) /\ pc[r] = "open"
           /\ Learn(r, [job[r] EXCEPT !.doc = doc[job[r].invoice]])
  <2>1. job[r] \in Jobs /\ doc[job[r].invoice] \in Docs
    BY <1>1, <1>3, JobType
  <2>2. job'[r] = [job[r] EXCEPT !.doc = doc[job[r].invoice]]
    BY <1>1, <1>3 DEF Learn, TypeOK
  <2>3. job'[r].invoice = job[r].invoice /\ job'[r].doc = doc[job[r].invoice]
    BY <2>1, <2>2 DEF Jobs
  <2>4. doc' = doc
    BY <1>3 DEF OpenForEdit
  <2>5. doc[job[r].invoice].ver \in Nat
    BY <2>1 DEF Docs
  <2> QED
    BY <2>3, <2>4, <2>5 DEF Seen
<1> QED
  BY <1>2, <1>3, OnlyOpenLeadsToSave

\* An edit that is saved discards no decision its request had not read.
THEOREM EditsDiscardNothingUnseen == Spec => []EditsSeeEveryDecision
<1>1. Init => IInv /\ EditorsView
  <2>1. Init => EditorsView
    BY DEF Init, EditorsView, Requests
  <2> QED
    BY <2>1, InitIInv
<1>2. IInv /\ EditorsView /\ [Next]_vars => (IInv /\ EditorsView)'
  BY NextIInv, NextEditorsView DEF IInv
<1>3. EditorsView => EditsSeeEveryDecision
  BY DEF EditorsView, Seen, EditsSeeEveryDecision, CanSave
<1> QED
  BY <1>1, <1>2, <1>3, PTL DEF Spec
=============================================================================
