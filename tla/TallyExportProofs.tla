-------------------------- MODULE TallyExportProofs --------------------------
(***************************************************************************)
(* Proofs about TallyExport for every set of invoices and requests, every  *)
(* F12 configuration and every number of faults.                           *)
(***************************************************************************)
EXTENDS TallyExport, TLAPS

(* Lemmas on the helpers: what each leaves of the type invariant.          *)

LEMMA FaultType ==
  ASSUME TypeOK, Fault \/ NoFault
  PROVE  faults' \in 0..MaxFaults
  BY ConfigAssumption DEF TypeOK, Fault, NoFault

LEMMA GotoType ==
  ASSUME TypeOK, NEW r \in Requests, NEW phase \in Phases, Goto(r, phase)
  PROVE  pc' \in [Requests -> Phases]
  BY DEF TypeOK, Goto

LEMMA ReportType ==
  ASSUME TypeOK, NEW r \in Exporters, NEW i \in Invoices,
         NEW outcome \in Outcomes, Report(r, i, outcome)
  PROVE  result' \in [Exporters -> [Invoices -> Outcomes]]
  BY DEF TypeOK, Report

LEMMA HangUpType ==
  ASSUME TypeOK, NEW r \in Exporters, HangUp(r)
  PROVE  call' \in [Exporters -> Calls]
  BY DEF TypeOK, HangUp, Calls

\* The call of a waiting request is a real one.
LEMMA WaitingCall ==
  ASSUME TypeOK, NEW r \in Exporters, Waiting(r)
  PROVE  /\ call[r] \in [invoice : Invoices, state : {"sent", "imported", "refused"},
                         attempt : 1..2]
         /\ call[r].invoice \in Invoices
         /\ Next1(r, call[r].invoice) \in Nat \ {0}
  BY DEF TypeOK, Waiting, Calls, Next1

LEMMA ClearStageType ==
  ASSUME TypeOK, NEW r \in Exporters, NEW i \in Invoices, ClearStage(r, i)
  PROVE  inFlight' \in [Invoices -> Nat]
<1>1. inFlight \in [Invoices -> Nat]
  BY DEF TypeOK
<1>2. CASE UNCHANGED inFlight
  BY <1>1, <1>2
<1>3. CASE inFlight' = [inFlight EXCEPT ![i] = 0]
  BY <1>1, <1>3
<1> QED
  BY <1>2, <1>3 DEF ClearStage

LEMMA AbandonType ==
  ASSUME TypeOK, NEW r \in Exporters, Waiting(r), Abandon(r)
  PROVE  stray' \in [Invoices -> SUBSET Nat]
<1> DEFINE i == call[r].invoice
<1>1. stray \in [Invoices -> SUBSET Nat] /\ i \in Invoices /\ Next1(r, i) \in Nat
  BY WaitingCall DEF TypeOK
<1> HIDE DEF i
<1>2. CASE UNCHANGED stray
  BY <1>1, <1>2
<1>3. CASE stray' = [stray EXCEPT ![i] = @ \cup {Next1(r, i)}]
  BY <1>1, <1>3
<1> QED
  BY <1>2, <1>3 DEF Abandon, i

LEMMA ItemOfType ==
  ASSUME NEW outcome \in Outcomes
  PROVE  /\ ItemOf(outcome) \in ItemState
         /\ ItemOf(outcome) = "success" <=> outcome = "success"
         /\ ItemOf(outcome) = "none" <=> outcome = "none"
  BY DEF ItemOf, ItemState, Outcomes

LEMMA RequestKinds ==
  /\ Pushers \subseteq Exporters /\ Retriers \subseteq Exporters
  /\ Exporters \subseteq Requests /\ FileWriters \subseteq Requests
  /\ Requests = Exporters \cup FileWriters
  /\ Exporters \cap FileWriters = {} /\ Pushers \cap Retriers = {}
  BY RequestsAssumption DEF Exporters, Requests

-----------------------------------------------------------------------------
(* Types and the retry queue. TypeOK alone is not inductive: the queue     *)
(* loses its head when a retry settles, so that it has one must be known.  *)

\* The retry that is being served is the first of the tenant's queue.
RetryIsHead ==
  \A t \in Retriers :
    pc[t] \in {"loop", "mark"} => retryQueue # <<>> /\ Head(retryQueue) = t

TypeInv == TypeOK /\ RetryIsHead


LEMMA SettleType ==
  ASSUME TypeOK, NEW r \in Requests, NEW phase \in Ended, Settle(r, phase),
         r \in Retriers => retryQueue # <<>> /\ Head(retryQueue) = r,
         RetryIsHead
  PROVE  /\ pc' \in [Requests -> Phases]
         /\ retryQueue' \in Seq(Retriers)
         /\ RetryIsHead'
<1>1. pc' \in [Requests -> Phases]
  BY GotoType DEF Settle, Phases
<1>2. retryQueue' \in Seq(Retriers)
  BY DEF Settle, TypeOK
<1>3. RetryIsHead'
  <2> SUFFICES ASSUME NEW t \in Retriers, pc'[t] \in {"loop", "mark"}
               PROVE  retryQueue' # <<>> /\ Head(retryQueue') = t
    BY DEF RetryIsHead
  <2>1. t # r /\ pc[t] \in {"loop", "mark"}
    BY RequestKinds DEF Settle, Goto, TypeOK, Ended
  <2>2. retryQueue # <<>> /\ Head(retryQueue) = t
    BY <2>1 DEF RetryIsHead
  <2>3. r \notin Retriers
    BY <2>1, <2>2
  <2> QED
    BY <2>2, <2>3 DEF Settle
<1> QED
  BY <1>1, <1>2, <1>3

LEMMA GotoHead ==
  ASSUME TypeOK, RetryIsHead, NEW r \in Requests, NEW phase \in Phases,
         Goto(r, phase), UNCHANGED retryQueue,
         r \in Retriers /\ phase \in {"loop", "mark"}
           => retryQueue # <<>> /\ Head(retryQueue) = r
  PROVE  RetryIsHead'
  BY RequestKinds DEF RetryIsHead, Goto, TypeOK

LEMMA PhaseNames ==
  /\ {"idle", "queued", "loop", "mark", "done", "rejected", "crashed"} = Phases
  /\ {"done", "rejected", "crashed"} = Ended
  BY DEF Phases, Ended

LEMMA TypeInvInit == Init => TypeInv
<1>1. Init => TypeOK
  BY ConfigAssumption
     DEF Init, TypeOK, Statuses, ItemState, Phases, Exporters, Requests, Calls, Outcomes
<1>2. Init => RetryIsHead
  BY RequestKinds DEF Init, RetryIsHead
<1> QED
  BY <1>1, <1>2 DEF TypeInv

LEMMA TypeInvNext == TypeInv /\ [Next]_vars => TypeInv'
<1> SUFFICES ASSUME TypeOK, RetryIsHead, [Next]_vars
             PROVE  TypeOK' /\ RetryIsHead'
  BY DEF TypeInv
<1> USE RequestKinds
<1>1. ASSUME NEW p \in Pushers, PushStart(p) PROVE TypeOK' /\ RetryIsHead'
  <2>1. pc' \in [Requests -> Phases] /\ RetryIsHead'
    BY <1>1, GotoType, GotoHead DEF PushStart, Phases
  <2>2. PICK ids \in SUBSET Invoices : todo' = [todo EXCEPT ![p] = ids]
    BY <1>1 DEF PushStart
  <2>3. todo' \in [Requests -> SUBSET Invoices]
    BY <2>2 DEF TypeOK
  <2>4. snap' \in [Exporters -> [Invoices -> Nat]]
    BY <1>1 DEF TypeOK, PushStart
  <2> QED
    BY <1>1, <2>1, <2>3, <2>4 DEF TypeOK, PushStart, dbVars, extVars
<1>2. ASSUME NEW t \in Retriers, RetryRequest(t) PROVE TypeOK' /\ RetryIsHead'
  <2>1. pc' \in [Requests -> Phases]
    BY <1>2, GotoType DEF RetryRequest, Phases
  <2>2. RetryIsHead'
    BY <1>2 DEF RetryRequest, RetryIsHead, Goto, TypeOK
  <2> QED
    BY <1>2, <2>1, <2>2 DEF TypeOK, RetryRequest, dbVars, extVars
<1>3. ASSUME NEW f \in FileWriters, FileStart(f) PROVE TypeOK' /\ RetryIsHead'
  <2>1. pc' \in [Requests -> Phases] /\ RetryIsHead'
    BY <1>3, GotoType, GotoHead DEF FileStart, Phases
  <2> QED
    BY <1>3, <2>1 DEF TypeOK, FileStart, dbVars, extVars
<1>4. ASSUME NEW t \in Retriers, RetryStart(t) PROVE TypeOK' /\ RetryIsHead'
  <2>1. pc' \in [Requests -> Phases] /\ RetryIsHead'
    BY <1>4, GotoType, GotoHead DEF RetryStart, FirstInQueue, Phases
  <2>2. PICK targets \in SUBSET Invoices : todo' = [todo EXCEPT ![t] = targets]
    BY <1>4 DEF RetryStart, FailureItems
  <2>3. todo' \in [Requests -> SUBSET Invoices]
    BY <2>2 DEF TypeOK
  <2>4. snap' \in [Exporters -> [Invoices -> Nat]]
    BY <1>4 DEF TypeOK, RetryStart
  <2> QED
    BY <1>4, <2>1, <2>3, <2>4 DEF TypeOK, RetryStart, dbVars, extVars
<1>5. ASSUME NEW t \in Retriers, RetryNothing(t) PROVE TypeOK' /\ RetryIsHead'
  <2>1. retryQueue # <<>> /\ Head(retryQueue) = t /\ Settle(t, "rejected")
    BY <1>5 DEF RetryNothing, FirstInQueue
  <2>2. /\ pc' \in [Requests -> Phases] /\ RetryIsHead'
        /\ retryQueue' \in Seq(Retriers)
    BY <2>1, SettleType DEF Ended
  <2> QED
    BY <1>5, <2>2 DEF TypeOK, RetryNothing, dbVars, extVars
<1>6. ASSUME NEW r \in Exporters, NEW i \in Invoices, Refuse(r, i)
      PROVE  TypeOK' /\ RetryIsHead'
  <2>1. result' \in [Exporters -> [Invoices -> Outcomes]]
    BY <1>6, ReportType DEF Refuse, Outcomes
  <2>2. faults' \in 0..MaxFaults
    BY <1>6, FaultType DEF Refuse
  <2> QED
    BY <1>6, <2>1, <2>2 DEF TypeOK, RetryIsHead, Refuse, dbVars, extVars
<1>7. ASSUME NEW r \in Exporters, NEW i \in Invoices, StageConflict(r, i)
      PROVE  TypeOK' /\ RetryIsHead'
  <2>1. result' \in [Exporters -> [Invoices -> Outcomes]]
    BY <1>7, ReportType DEF StageConflict, Outcomes
  <2> QED
    BY <1>7, <2>1 DEF TypeOK, RetryIsHead, StageConflict, dbVars, extVars
<1>8. ASSUME NEW r \in Exporters, NEW i \in Invoices, Stage(r, i)
      PROVE  TypeOK' /\ RetryIsHead'
  <2>1. result' \in [Exporters -> [Invoices -> Outcomes]]
    BY <1>8, ReportType DEF Stage, Outcomes, TypeOK
  <2>2. call' \in [Exporters -> Calls]
    <3>1. call \in [Exporters -> Calls]
      BY DEF TypeOK
    <3>2. CASE UNCHANGED call
      BY <3>1, <3>2
    <3>3. CASE call' = [call EXCEPT ![r] =
                          [invoice |-> i, state |-> "sent", attempt |-> 1]]
      <4>1. [invoice |-> i, state |-> "sent", attempt |-> 1] \in Calls
        BY DEF Calls
      <4> QED
        BY <3>1, <3>3, <4>1
    <3> QED
      BY <1>8, <3>2, <3>3 DEF Stage
  <2>3. inFlight' \in [Invoices -> Nat]
    BY <1>8 DEF Stage, TypeOK, Next1
  <2>4. todo' \in [Requests -> SUBSET Invoices]
    BY <1>8 DEF Stage, TypeOK
  <2>5. faults' \in 0..MaxFaults
    BY <1>8, FaultType DEF Stage
  <2> QED
    BY <1>8, <2>1, <2>2, <2>3, <2>4, <2>5 DEF TypeOK, RetryIsHead, Stage, extVars
<1>9. ASSUME NEW r \in Exporters, TallyImport(r) PROVE TypeOK' /\ RetryIsHead'
  <2> DEFINE i == call[r].invoice
  <2>1. /\ call[r] \in [invoice : Invoices, state : {"sent", "imported", "refused"},
                        attempt : 1..2]
        /\ i \in Invoices /\ Next1(r, i) \in Nat
    BY <1>9, WaitingCall DEF TallyImport
  <2>2. call' \in [Exporters -> Calls]
    <3>1. PICK s \in {"imported", "refused"} : call' = [call EXCEPT ![r].state = s]
      BY <1>9 DEF TallyImport
    <3>2. [call[r] EXCEPT !.state = s] \in Calls
      BY <2>1 DEF Calls
    <3> QED
      BY <3>1, <3>2 DEF TypeOK
  <2>3. UNCHANGED tally \/ tally' = [tally EXCEPT ![i] = @ \cup {Next1(r, i)}]
    BY <1>9 DEF TallyImport
  <2>4. tally' \in [Invoices -> SUBSET Nat]
    <3> HIDE DEF i
    <3>1. tally \in [Invoices -> SUBSET Nat]
      BY DEF TypeOK
    <3>2. CASE UNCHANGED tally
      BY <3>1, <3>2
    <3>3. CASE tally' = [tally EXCEPT ![i] = @ \cup {Next1(r, i)}]
      BY <2>1, <3>1, <3>3
    <3> QED
      BY <2>3, <3>2, <3>3
  <2>5. faults' \in 0..MaxFaults
    BY <1>9, FaultType DEF TallyImport
  <2> QED
    BY <1>9, <2>2, <2>4, <2>5 DEF TypeOK, RetryIsHead, TallyImport, dbVars
<1>10. ASSUME NEW r \in Exporters, LineError(r) PROVE TypeOK' /\ RetryIsHead'
  <2> DEFINE i == call[r].invoice
  <2>1. i \in Invoices
    BY <1>10, WaitingCall DEF LineError
  <2>2. /\ result' \in [Exporters -> [Invoices -> Outcomes]]
        /\ call' \in [Exporters -> Calls]
        /\ inFlight' \in [Invoices -> Nat]
    BY <1>10, <2>1, ReportType, HangUpType, ClearStageType DEF LineError, Outcomes
  <2> QED
    BY <1>10, <2>2 DEF TypeOK, RetryIsHead, LineError, extVars
<1>11. ASSUME NEW r \in Exporters, Promote(r) PROVE TypeOK' /\ RetryIsHead'
  <2> DEFINE i == call[r].invoice
  <2>1. i \in Invoices /\ Next1(r, i) \in Nat
    BY <1>11, WaitingCall DEF Promote
  <2>2. call' \in [Exporters -> Calls] /\ faults' \in 0..MaxFaults
    BY <1>11, HangUpType, FaultType DEF Promote
  <2>3. result' \in [Exporters -> [Invoices -> Outcomes]]
    BY <1>11, <2>1, ReportType DEF Promote, Outcomes
  <2>4. \/ UNCHANGED <<exportVersion, inFlight>>
        \/ /\ exportVersion' = [exportVersion EXCEPT ![i] = Next1(r, i)]
           /\ inFlight' = [inFlight EXCEPT ![i] = 0]
    BY <1>11 DEF Promote
  <2>5. exportVersion' \in [Invoices -> Nat] /\ inFlight' \in [Invoices -> Nat]
    <3> HIDE DEF i
    <3>1. exportVersion \in [Invoices -> Nat] /\ inFlight \in [Invoices -> Nat]
      BY DEF TypeOK
    <3>2. CASE UNCHANGED <<exportVersion, inFlight>>
      BY <3>1, <3>2
    <3>3. CASE /\ exportVersion' = [exportVersion EXCEPT ![i] = Next1(r, i)]
               /\ inFlight' = [inFlight EXCEPT ![i] = 0]
      BY <2>1, <3>1, <3>3
    <3> QED
      BY <2>4, <3>2, <3>3
  <2> QED
    BY <1>11, <2>2, <2>3, <2>5 DEF TypeOK, RetryIsHead, Promote, extVars
<1>12. ASSUME NEW p \in Pushers, CreateBatch(p) PROVE TypeOK' /\ RetryIsHead'
  <2>1. faults' \in 0..MaxFaults
    BY <1>12, FaultType DEF CreateBatch
  <2>2. pc' \in [Requests -> Phases] /\ RetryIsHead'
    BY <1>12, GotoType, GotoHead DEF CreateBatch, Phases, Ended
  <2>3. [i \in Invoices |-> ItemOf(result[p][i])] \in [Invoices -> ItemState]
    BY ItemOfType DEF TypeOK
  <2>4. batches' \in [Pushers -> [Invoices -> ItemState]]
    <3>1. batches \in [Pushers -> [Invoices -> ItemState]]
      BY DEF TypeOK
    <3>2. CASE UNCHANGED batches
      BY <3>1, <3>2
    <3>3. CASE StoreItems(p)
      BY <3>1, <3>3, <2>3 DEF StoreItems
    <3> QED
      BY <1>12, <3>2, <3>3 DEF CreateBatch
  <2>5. todo' \in [Requests -> SUBSET Invoices]
    <3>1. todo \in [Requests -> SUBSET Invoices] /\ Accepted(p) \subseteq Invoices
      BY DEF TypeOK, Accepted
    <3>2. CASE UNCHANGED todo
      BY <3>1, <3>2
    <3>3. CASE todo' = [todo EXCEPT ![p] = Accepted(p)]
      BY <3>1, <3>3
    <3> QED
      BY <1>12, <3>2, <3>3 DEF CreateBatch
  <2> QED
    BY <1>12, <2>1, <2>2, <2>4, <2>5 DEF TypeOK, CreateBatch, dbVars, extVars
<1>13. ASSUME NEW t \in Retriers, MergeBatch(t) PROVE TypeOK' /\ RetryIsHead'
  <2>1. faults' \in 0..MaxFaults
    BY <1>13, FaultType DEF MergeBatch
  <2>2. retryQueue # <<>> /\ Head(retryQueue) = t
    BY <1>13 DEF MergeBatch, LoopEnded, Looping, RetryIsHead
  <2>3. /\ pc' \in [Requests -> Phases] /\ RetryIsHead'
        /\ retryQueue' \in Seq(Retriers)
    <3>1. CASE Goto(t, "mark") /\ UNCHANGED retryQueue
      BY <3>1, <2>2, GotoType, GotoHead DEF Phases, TypeOK
    <3>2. CASE Settle(t, "rejected")
      BY <3>2, <2>2, SettleType DEF Ended
    <3> QED
      BY <1>13, <3>1, <3>2 DEF MergeBatch
  <2> DEFINE p == source[t]
             merged == [i \in Invoices |-> IF result[t][i] = "none" THEN batches[p][i]
                                           ELSE ItemOf(result[t][i])]
  <2>4. ASSUME p \in Pushers PROVE merged \in [Invoices -> ItemState]
    BY <2>4, ItemOfType DEF TypeOK
  <2>5. batches' \in [Pushers -> [Invoices -> ItemState]]
    <3>1. batches \in [Pushers -> [Invoices -> ItemState]]
      BY DEF TypeOK
    <3>2. UNCHANGED batches \/ batches' = [batches EXCEPT ![p] = merged]
      BY <1>13 DEF MergeBatch, MergeItems
    <3> HIDE DEF p, merged
    <3>3. CASE UNCHANGED batches
      BY <3>1, <3>3
    <3>4. CASE batches' = [batches EXCEPT ![p] = merged]
      BY <3>1, <3>4, <2>4
    <3> QED
      BY <3>2, <3>3, <3>4
  <2>6. todo' \in [Requests -> SUBSET Invoices]
    <3>1. todo \in [Requests -> SUBSET Invoices] /\ Accepted(t) \subseteq Invoices
      BY DEF TypeOK, Accepted
    <3>2. CASE UNCHANGED todo
      BY <3>1, <3>2
    <3>3. CASE todo' = [todo EXCEPT ![t] = Accepted(t)]
      BY <3>1, <3>3
    <3> QED
      BY <1>13, <3>2, <3>3 DEF MergeBatch
  <2> QED
    BY <1>13, <2>1, <2>3, <2>5, <2>6 DEF TypeOK, MergeBatch, dbVars, extVars
<1>14. ASSUME NEW r \in Requests, NEW i \in Invoices, MarkExported(r, i)
       PROVE  TypeOK' /\ RetryIsHead'
  <2>1. faults' \in 0..MaxFaults
    BY <1>14, FaultType DEF MarkExported
  <2>2. status' \in [Invoices -> Statuses]
    BY <1>14 DEF MarkExported, TypeOK, Statuses
  <2> QED
    BY <1>14, <2>1, <2>2 DEF TypeOK, RetryIsHead, MarkExported, extVars
<1>15. ASSUME NEW r \in Requests, Finish(r) PROVE TypeOK' /\ RetryIsHead'
  <2>1. r \in Retriers => retryQueue # <<>> /\ Head(retryQueue) = r
    BY <1>15 DEF Finish, RetryIsHead
  <2>2. /\ pc' \in [Requests -> Phases] /\ RetryIsHead'
        /\ retryQueue' \in Seq(Retriers)
    BY <1>15, <2>1, SettleType DEF Finish, Ended
  <2> QED
    BY <1>15, <2>2 DEF TypeOK, Finish, dbVars, extVars
<1>16. ASSUME NEW f \in FileWriters, FileStore(f) PROVE TypeOK' /\ RetryIsHead'
  <2>1. faults' \in 0..MaxFaults
    BY <1>16, FaultType DEF FileStore
  <2>2. pc' \in [Requests -> Phases] /\ RetryIsHead'
    BY <1>16, GotoType, GotoHead DEF FileStore, Phases, Ended
  <2>3. files' \in SUBSET Invoices /\ todo' \in [Requests -> SUBSET Invoices]
    BY <1>16 DEF FileStore, TypeOK
  <2> QED
    BY <1>16, <2>1, <2>2, <2>3 DEF TypeOK, FileStore, dbVars, extVars
<1>17. ASSUME NEW r \in Exporters, Resend(r) PROVE TypeOK' /\ RetryIsHead'
  <2>1. faults' \in 0..MaxFaults
    BY <1>17, FaultType DEF Resend
  <2>2. stray' \in [Invoices -> SUBSET Nat]
    BY <1>17, AbandonType DEF Resend
  <2>3. call' \in [Exporters -> Calls]
    BY <1>17, WaitingCall DEF Resend, TypeOK, Calls
  <2> QED
    BY <1>17, <2>1, <2>2, <2>3 DEF TypeOK, RetryIsHead, Resend, dbVars
<1>18. ASSUME NEW r \in Exporters, PostFails(r) PROVE TypeOK' /\ RetryIsHead'
  <2> DEFINE i == call[r].invoice
  <2>1. i \in Invoices
    BY <1>18, WaitingCall DEF PostFails
  <2>2. /\ result' \in [Exporters -> [Invoices -> Outcomes]]
        /\ call' \in [Exporters -> Calls]
        /\ inFlight' \in [Invoices -> Nat]
        /\ stray' \in [Invoices -> SUBSET Nat]
        /\ faults' \in 0..MaxFaults
    BY <1>18, <2>1, ReportType, HangUpType, ClearStageType, AbandonType, FaultType
       DEF PostFails, Outcomes
  <2> QED
    BY <1>18, <2>2 DEF TypeOK, RetryIsHead, PostFails
<1>19. ASSUME NEW i \in Invoices, NEW v \in stray[i], TallyLate(i, v)
       PROVE  TypeOK' /\ RetryIsHead'
  <2>1. v \in Nat
    BY DEF TypeOK
  <2>2. tally' \in [Invoices -> SUBSET Nat]
    <3>1. tally \in [Invoices -> SUBSET Nat]
      BY DEF TypeOK
    <3>2. CASE tally' = tally
      BY <3>1, <3>2
    <3>3. CASE tally' = [tally EXCEPT ![i] = @ \cup {v}]
      BY <2>1, <3>1, <3>3
    <3> QED
      BY <1>19, <3>2, <3>3 DEF TallyLate
  <2>3. stray' \in [Invoices -> SUBSET Nat]
    BY <1>19 DEF TallyLate, TypeOK
  <2> QED
    BY <1>19, <2>2, <2>3 DEF TypeOK, RetryIsHead, TallyLate, dbVars, reqVars
<1>20. CASE Crash
  <2>1. faults' \in 0..MaxFaults
    BY <1>20, FaultType DEF Crash
  <2>2. pc' \in [Requests -> Phases] /\ RetryIsHead'
    BY <1>20 DEF Crash, TypeOK, Phases, Ended, RetryIsHead
  <2>3. call' \in [Exporters -> Calls] /\ todo' \in [Requests -> SUBSET Invoices]
        /\ retryQueue' \in Seq(Retriers)
    BY <1>20 DEF Crash, Calls
  <2>4. PICK late \in SUBSET {r \in Exporters : call[r].state = "sent"} :
          stray' = [i \in Invoices |-> stray[i] \cup
                      {Next1(r, i) : r \in {x \in late : call[x].invoice = i}}]
    BY <1>20 DEF Crash
  <2>5. \A r \in Exporters, i \in Invoices : Next1(r, i) \in Nat
    BY DEF TypeOK, Next1
  <2>6. stray' \in [Invoices -> SUBSET Nat]
    <3>1. \A i \in Invoices :
            {Next1(r, i) : r \in {x \in late : call[x].invoice = i}} \in SUBSET Nat
      BY <2>5
    <3> QED
      BY <2>4, <3>1 DEF TypeOK
  <2> QED
    BY <1>20, <2>1, <2>2, <2>3, <2>6 DEF TypeOK, Crash, dbVars
<1>21. CASE UNCHANGED vars
  BY <1>21 DEF TypeOK, RetryIsHead, vars, dbVars, extVars, reqVars
<1>22. QED
  BY <1>1, <1>2, <1>3, <1>4, <1>5, <1>6, <1>7, <1>8, <1>9, <1>10, <1>11, <1>12,
     <1>13, <1>14, <1>15, <1>16, <1>17, <1>18, <1>19, <1>20, <1>21
     DEF Next, Arrival, PushStep, RetryStep, FileStep, ExportStep, MarkStep, Network, Quiet

LEMMA TypeInvariant == Spec => []TypeInv
  BY TypeInvInit, TypeInvNext, PTL DEF Spec

\* Every variable keeps its type, whatever requests run and fail.
THEOREM TypeCorrect == Spec => []TypeOK
  BY TypeInvariant, PTL DEF TypeInv

-----------------------------------------------------------------------------
(* Agreement of the database with Tally. That a request's snapshot never   *)
(* lies in the future, that a POST Tally has answered or will still answer *)
(* is of a version it was due, and that an imported call stays held, is    *)
(* what makes the runbook's invariant inductive.                           *)

SnapBehind ==
  \A r \in Exporters : \A i \in Invoices : snap[r][i] <= exportVersion[i]

ImportedIsHeld ==
  \A r \in Exporters : call[r].state = "imported" =>
    /\ pc[r] = "loop"
    /\ Next1(r, call[r].invoice) \in tally[call[r].invoice]

StrayIsDue ==
  \A i \in Invoices : stray[i] \subseteq 1 .. (exportVersion[i] + 1)

AgreementInv ==
  /\ TypeInv
  /\ StageIsNextVersion
  /\ DatabaseNeverAhead
  /\ SnapBehind
  /\ ImportedIsHeld
  /\ StrayIsDue

\* Importing a due version again or for the first time keeps the agreement.
LEMMA ImportInOrder ==
  ASSUME NEW n \in Nat, NEW k \in 1 .. (n + 1), NEW S \in {1 .. n, 1 .. (n + 1)}
  PROVE  S \cup {k} \in {1 .. n, 1 .. (n + 1)}
<1>1. CASE k \in 1 .. n
  <2>1. S \cup {k} = S
    BY <1>1
  <2> QED
    BY <2>1
<1>2. CASE k = n + 1
  <2>1. S \cup {k} = 1 .. (n + 1)
    BY <1>2
  <2> QED
    BY <2>1
<1> QED
  BY <1>1, <1>2

\* Recording the version Tally holds after the recorded one keeps it, too.
LEMMA RecordInOrder ==
  ASSUME NEW n \in Nat, NEW S \in {1 .. n, 1 .. (n + 1)}, n + 1 \in S
  PROVE  S = 1 .. (n + 1)
<1>1. n + 1 \notin 1 .. n
  OBVIOUS
<1> QED
  BY <1>1

\* A step that only clears stages and moves requests keeps the agreement.
LEMMA AgreementFrame ==
  ASSUME AgreementInv, TypeInv',
         UNCHANGED <<exportVersion, tally, stray, snap>>,
         \A i \in Invoices : inFlight'[i] \in {0, inFlight[i]},
         \A r \in Exporters : call'[r].state = "imported" =>
            /\ call[r].state = "imported" /\ call'[r].invoice = call[r].invoice
            /\ pc'[r] = "loop"
  PROVE  AgreementInv'
<1>1. StageIsNextVersion' /\ DatabaseNeverAhead' /\ SnapBehind' /\ StrayIsDue'
  BY DEF AgreementInv, StageIsNextVersion, DatabaseNeverAhead, SnapBehind, StrayIsDue
<1>2. ImportedIsHeld'
  BY DEF AgreementInv, ImportedIsHeld, Next1
<1> QED
  BY <1>1, <1>2 DEF AgreementInv

\* Clearing touches no other stage.
LEMMA ClearStageFrame ==
  ASSUME TypeOK, NEW r \in Exporters, NEW i \in Invoices, ClearStage(r, i)
  PROVE  \A j \in Invoices : inFlight'[j] \in {0, inFlight[j]}
  BY DEF ClearStage, TypeOK

\* The version of a request's call is due: recorded, or the one after.
LEMMA CallIsDue ==
  ASSUME TypeOK, SnapBehind, NEW r \in Exporters, NEW i \in Invoices
  PROVE  Next1(r, i) \in 1 .. (exportVersion[i] + 1)
<1>1. snap[r][i] \in Nat /\ exportVersion[i] \in Nat /\ snap[r][i] <= exportVersion[i]
  BY DEF TypeOK, SnapBehind
<1> QED
  BY <1>1 DEF Next1

\* What hanging up leaves for a late import is due.
LEMMA AbandonIsDue ==
  ASSUME TypeOK, SnapBehind, StrayIsDue, UNCHANGED exportVersion,
         NEW r \in Exporters, Waiting(r), Abandon(r)
  PROVE  StrayIsDue'
<1> DEFINE i == call[r].invoice
<1>1. i \in Invoices
  BY WaitingCall
<1>2. Next1(r, i) \in 1 .. (exportVersion[i] + 1)
  BY <1>1, CallIsDue
<1>3. stray \in [Invoices -> SUBSET Nat]
  BY DEF TypeOK
<1>4. stray' = stray \/ stray' = [stray EXCEPT ![i] = @ \cup {Next1(r, i)}]
  BY DEF Abandon
<1> HIDE DEF i
<1>5. CASE stray' = stray
  BY <1>5 DEF StrayIsDue
<1>6. CASE stray' = [stray EXCEPT ![i] = @ \cup {Next1(r, i)}]
  BY <1>1, <1>2, <1>3, <1>6 DEF StrayIsDue
<1> QED
  BY <1>4, <1>5, <1>6

LEMMA AgreementInit == Init => AgreementInv
<1> SUFFICES ASSUME Init PROVE AgreementInv
  OBVIOUS
<1>1. TypeInv
  BY TypeInvInit
<1>2. StageIsNextVersion /\ SnapBehind /\ ImportedIsHeld /\ StrayIsDue
  BY RequestKinds
     DEF Init, StageIsNextVersion, SnapBehind, ImportedIsHeld, StrayIsDue, NoCall
<1>3. DatabaseNeverAhead
  BY DEF Init, DatabaseNeverAhead
<1> QED
  BY <1>1, <1>2, <1>3 DEF AgreementInv

LEMMA AgreementNext == AgreementInv /\ [Next]_vars => AgreementInv'
<1> SUFFICES ASSUME AgreementInv, [Next]_vars
             PROVE  AgreementInv'
  OBVIOUS
<1>t. TypeInv' /\ TypeOK /\ TypeOK'
  BY TypeInvNext DEF AgreementInv, TypeInv
<1>s. StageIsNextVersion /\ DatabaseNeverAhead /\ SnapBehind /\ ImportedIsHeld /\ StrayIsDue
  BY DEF AgreementInv
<1> USE RequestKinds
<1>1. ASSUME NEW r \in Exporters, pc[r] \in {"idle", "queued"}, Goto(r, "loop"),
             snap' = [snap EXCEPT ![r] = exportVersion],
             UNCHANGED <<dbVars, extVars, call>>
      PROVE  AgreementInv'
  <2>1. StageIsNextVersion' /\ DatabaseNeverAhead' /\ StrayIsDue'
    BY <1>1, <1>s DEF StageIsNextVersion, DatabaseNeverAhead, StrayIsDue, dbVars, extVars
  <2>2. SnapBehind'
    BY <1>1, <1>s, <1>t DEF SnapBehind, TypeOK, dbVars
  <2>3. ImportedIsHeld'
    BY <1>1, <1>s, <1>t DEF ImportedIsHeld, Next1, Goto, TypeOK, extVars
  <2> QED
    BY <2>1, <2>2, <2>3, <1>t DEF AgreementInv
<1>2. ASSUME NEW p \in Pushers, PushStart(p) PROVE AgreementInv'
  BY <1>1, <1>2 DEF PushStart
<1>3. ASSUME NEW t \in Retriers, RetryStart(t) PROVE AgreementInv'
  BY <1>1, <1>3 DEF RetryStart, FirstInQueue
<1>4. ASSUME NEW r \in Requests, NEW phase \in Phases, Goto(r, phase),
             pc[r] = "loop" /\ r \in Exporters => call[r] = NoCall,
             UNCHANGED <<dbVars, extVars, call, snap>>
      PROVE  AgreementInv'
  <2>1. \A q \in Exporters : call[q].state = "imported" => q # r
    BY <1>4, <1>s DEF ImportedIsHeld, NoCall
  <2>2. \A q \in Exporters : call[q].state = "imported" => pc'[q] = "loop"
    BY <2>1, <1>4, <1>s, <1>t DEF ImportedIsHeld, Goto, TypeOK
  <2>3. \A i \in Invoices : inFlight'[i] \in {0, inFlight[i]}
    BY <1>4 DEF dbVars
  <2> QED
    BY <1>4, <1>t, <2>2, <2>3, AgreementFrame DEF dbVars, extVars
<1>5. ASSUME NEW t \in Retriers, RetryRequest(t) PROVE AgreementInv'
  BY <1>5, <1>4, PhaseNames DEF RetryRequest
<1>6. ASSUME NEW t \in Retriers, RetryNothing(t) PROVE AgreementInv'
  BY <1>6, <1>4, PhaseNames DEF RetryNothing, FirstInQueue, Settle
<1>7. ASSUME NEW f \in FileWriters, FileStart(f) PROVE AgreementInv'
  BY <1>7, <1>4, PhaseNames DEF FileStart
<1>8. ASSUME NEW f \in FileWriters, FileStore(f) PROVE AgreementInv'
  BY <1>8, <1>4, PhaseNames DEF FileStore
<1>9. ASSUME NEW p \in Pushers, CreateBatch(p) PROVE AgreementInv'
  BY <1>9, <1>4, PhaseNames DEF CreateBatch, LoopEnded, Looping
<1>10. ASSUME NEW t \in Retriers, MergeBatch(t) PROVE AgreementInv'
  BY <1>10, <1>4, PhaseNames DEF MergeBatch, LoopEnded, Looping, Settle
<1>11. ASSUME NEW r \in Requests, Finish(r) PROVE AgreementInv'
  BY <1>11, <1>4, PhaseNames DEF Finish, Settle
<1>12. ASSUME UNCHANGED <<exportVersion, inFlight, tally, stray, snap, call, pc>>
       PROVE  AgreementInv'
  <2>1. \A i \in Invoices : inFlight'[i] \in {0, inFlight[i]}
    BY <1>12
  <2>2. \A r \in Exporters : call[r].state = "imported" => pc'[r] = "loop"
    BY <1>12, <1>s DEF ImportedIsHeld
  <2> QED
    BY <1>12, <1>t, <2>1, <2>2, AgreementFrame
<1>13. ASSUME NEW r \in Exporters, NEW i \in Invoices, Refuse(r, i) \/ StageConflict(r, i)
       PROVE  AgreementInv'
  BY <1>13, <1>12 DEF Refuse, StageConflict, dbVars, extVars
<1>14. ASSUME NEW r \in Requests, NEW i \in Invoices, MarkExported(r, i)
       PROVE  AgreementInv'
  BY <1>14, <1>12 DEF MarkExported, extVars
<1>15. ASSUME NEW r \in Exporters, NEW i \in Invoices, Stage(r, i)
       PROVE  AgreementInv'
  <2>1. /\ exportVersion[i] = snap[r][i] /\ pc[r] = "loop" /\ call[r] = NoCall
        /\ inFlight' = [inFlight EXCEPT ![i] = Next1(r, i)]
        /\ UNCHANGED <<exportVersion, tally, stray, snap, pc>>
    BY <1>15 DEF Stage, Decided, Looping, CanStage, extVars
  <2>2. StageIsNextVersion'
    BY <2>1, <1>s, <1>t DEF StageIsNextVersion, TypeOK, Next1
  <2>3. DatabaseNeverAhead' /\ SnapBehind' /\ StrayIsDue'
    BY <2>1, <1>s DEF DatabaseNeverAhead, SnapBehind, StrayIsDue
  <2>4. \/ UNCHANGED call
        \/ call' = [call EXCEPT ![r] = [invoice |-> i, state |-> "sent", attempt |-> 1]]
    BY <1>15 DEF Stage
  <2>5. \A q \in Exporters : call'[q].state = "imported" => call'[q] = call[q]
    BY <2>4, <1>t DEF TypeOK
  <2>6. ImportedIsHeld'
    BY <2>1, <2>5, <1>s DEF ImportedIsHeld, Next1
  <2> QED
    BY <2>2, <2>3, <2>6, <1>t DEF AgreementInv
<1>16. ASSUME NEW r \in Exporters, TallyImport(r) PROVE AgreementInv'
  <2> DEFINE i == call[r].invoice
  <2>1. /\ i \in Invoices
        /\ call[r] \in [invoice : Invoices, state : {"sent", "imported", "refused"},
                        attempt : 1..2]
        /\ pc[r] = "loop"
    BY <1>16, <1>t, WaitingCall DEF TallyImport, Waiting
  <2>2. UNCHANGED <<exportVersion, inFlight, stray, snap, pc>>
    BY <1>16 DEF TallyImport, dbVars
  <2>3. Next1(r, i) \in 1 .. (exportVersion[i] + 1)
    BY <2>1, <1>s, <1>t, CallIsDue
  <2>4. \/ /\ tally' = [tally EXCEPT ![i] = @ \cup {Next1(r, i)}]
           /\ call' = [call EXCEPT ![r].state = "imported"]
        \/ /\ UNCHANGED tally
           /\ call' = [call EXCEPT ![r].state = "refused"]
    BY <1>16 DEF TallyImport
  <2>5. StageIsNextVersion' /\ SnapBehind' /\ StrayIsDue'
    BY <2>2, <1>s DEF StageIsNextVersion, SnapBehind, StrayIsDue
  <2>6. DatabaseNeverAhead' /\ \A j \in Invoices : tally[j] \subseteq tally'[j]
    <3> HIDE DEF i
    <3>1. tally \in [Invoices -> SUBSET Nat] /\ exportVersion[i] \in Nat
      BY <1>t, <2>1 DEF TypeOK
    <3>2. CASE UNCHANGED tally
      BY <3>2, <2>2, <1>s DEF DatabaseNeverAhead
    <3>3. CASE tally' = [tally EXCEPT ![i] = @ \cup {Next1(r, i)}]
      <4>1. tally'[i] = tally[i] \cup {Next1(r, i)}
        BY <2>1, <3>1, <3>3
      <4>2. tally[i] \in {1 .. exportVersion[i], 1 .. (exportVersion[i] + 1)}
        BY <2>1, <1>s DEF DatabaseNeverAhead
      <4>3. tally'[i] \in {1 .. exportVersion[i], 1 .. (exportVersion[i] + 1)}
        BY <4>1, <4>2, <3>1, <2>3, ImportInOrder
      <4>4. \A j \in Invoices : j # i => tally'[j] = tally[j]
        BY <3>1, <3>3
      <4> QED
        BY <4>1, <4>3, <4>4, <2>2, <1>s DEF DatabaseNeverAhead
    <3> QED
      BY <2>4, <3>2, <3>3
  <2>7. Next1(r, i) \in tally'[i] \/ call'[r].state = "refused"
    BY <2>1, <2>4, <1>t DEF TypeOK
  <2>8. call'[r].invoice = i /\ \A q \in Exporters : q # r => call'[q] = call[q]
    <3>1. PICK s \in {"imported", "refused"} : call' = [call EXCEPT ![r].state = s]
      BY <2>4
    <3> QED
      BY <3>1, <2>1, <1>t DEF TypeOK
  <2>9. ImportedIsHeld'
    <3> SUFFICES ASSUME NEW q \in Exporters, call'[q].state = "imported"
                 PROVE  /\ pc'[q] = "loop"
                        /\ snap[q][call'[q].invoice] + 1 \in tally'[call'[q].invoice]
      BY <2>2 DEF ImportedIsHeld, Next1
    <3>1. Next1(r, i) = snap[r][i] + 1
      BY DEF Next1
    <3>2. CASE q = r
      BY <3>1, <3>2, <2>1, <2>2, <2>7, <2>8
    <3>3. CASE q # r
      <4>1. call[q].state = "imported" /\ call'[q] = call[q]
        BY <3>3, <2>8
      <4>2. call[q].invoice \in Invoices
        BY <4>1, <1>t DEF TypeOK, Calls, NoCall
      <4> QED
        BY <4>1, <4>2, <2>2, <2>6, <1>s DEF ImportedIsHeld, Next1
    <3> QED
      BY <3>2, <3>3
  <2> QED
    BY <2>5, <2>6, <2>9, <1>t DEF AgreementInv
<1>17. ASSUME NEW i \in Invoices, NEW v \in stray[i], TallyLate(i, v)
       PROVE  AgreementInv'
  <2>1. UNCHANGED <<exportVersion, inFlight, snap, pc, call>>
    BY <1>17 DEF TallyLate, dbVars, reqVars
  <2>2. v \in 1 .. (exportVersion[i] + 1)
    BY <1>s DEF StrayIsDue
  <2>3. StageIsNextVersion' /\ SnapBehind'
    BY <2>1, <1>s DEF StageIsNextVersion, SnapBehind
  <2>4. StrayIsDue'
    BY <1>17, <2>1, <1>s, <1>t DEF TallyLate, StrayIsDue, TypeOK
  <2>5. DatabaseNeverAhead' /\ \A j \in Invoices : tally[j] \subseteq tally'[j]
    <3>1. tally \in [Invoices -> SUBSET Nat] /\ exportVersion[i] \in Nat
      BY <1>t DEF TypeOK
    <3>2. CASE tally' = tally
      BY <3>2, <2>1, <1>s DEF DatabaseNeverAhead
    <3>3. CASE tally' = [tally EXCEPT ![i] = @ \cup {v}]
      <4>1. tally'[i] = tally[i] \cup {v}
        BY <3>1, <3>3
      <4>2. tally[i] \in {1 .. exportVersion[i], 1 .. (exportVersion[i] + 1)}
        BY <1>s DEF DatabaseNeverAhead
      <4>3. tally'[i] \in {1 .. exportVersion[i], 1 .. (exportVersion[i] + 1)}
        BY <4>1, <4>2, <3>1, <2>2, ImportInOrder
      <4>4. \A j \in Invoices : j # i => tally'[j] = tally[j]
        BY <3>1, <3>3
      <4> QED
        BY <4>1, <4>3, <4>4, <2>1, <1>s DEF DatabaseNeverAhead
    <3> QED
      BY <1>17, <3>2, <3>3 DEF TallyLate
  <2>6. ImportedIsHeld'
    <3> SUFFICES ASSUME NEW q \in Exporters, call[q].state = "imported"
                 PROVE  /\ pc[q] = "loop"
                        /\ Next1(q, call[q].invoice) \in tally'[call[q].invoice]
      BY <2>1 DEF ImportedIsHeld, Next1
    <3>1. call[q].invoice \in Invoices
      BY <1>t DEF TypeOK, Calls, NoCall
    <3> QED
      BY <3>1, <2>5, <1>s DEF ImportedIsHeld
  <2> QED
    BY <2>3, <2>4, <2>5, <2>6, <1>t DEF AgreementInv
<1>18. ASSUME NEW r \in Exporters, Waiting(r), Abandon(r),
              UNCHANGED <<exportVersion, tally, snap, pc>>,
              \A i \in Invoices : inFlight'[i] \in {0, inFlight[i]},
              \A q \in Exporters : call'[q].state = "imported" => call'[q] = call[q]
       PROVE  AgreementInv'
  <2>1. StrayIsDue'
    BY <1>18, <1>s, <1>t, AbandonIsDue
  <2>2. StageIsNextVersion' /\ DatabaseNeverAhead' /\ SnapBehind'
    BY <1>18, <1>s DEF StageIsNextVersion, DatabaseNeverAhead, SnapBehind
  <2>3. ImportedIsHeld'
    BY <1>18, <1>s DEF ImportedIsHeld, Next1
  <2> QED
    BY <2>1, <2>2, <2>3, <1>t DEF AgreementInv
<1>19. ASSUME NEW r \in Exporters, Resend(r) PROVE AgreementInv'
  <2>1. \A q \in Exporters : call'[q].state = "imported" => call'[q] = call[q]
    <3>1. call[r] \in [invoice : Invoices, state : {"sent", "imported", "refused"},
                       attempt : 1..2]
      BY <1>19, <1>t, WaitingCall DEF Resend
    <3>2. call' = [call EXCEPT ![r].state = "sent", ![r].attempt = 2]
      BY <1>19 DEF Resend
    <3> QED
      BY <3>1, <3>2, <1>t DEF TypeOK
  <2>2. \A i \in Invoices : inFlight'[i] \in {0, inFlight[i]}
    BY <1>19 DEF Resend, dbVars
  <2> QED
    BY <1>19, <1>18, <2>1, <2>2 DEF Resend, dbVars
<1>20. ASSUME NEW r \in Exporters, HangUp(r)
       PROVE  \A q \in Exporters : call'[q].state = "imported" => call'[q] = call[q]
  BY <1>20, <1>t DEF HangUp, TypeOK, NoCall
<1>21. ASSUME NEW r \in Exporters, PostFails(r) PROVE AgreementInv'
  <2>1. call[r].invoice \in Invoices
    BY <1>21, <1>t, WaitingCall DEF PostFails
  <2>2. \A i \in Invoices : inFlight'[i] \in {0, inFlight[i]}
    BY <1>21, <1>t, <2>1, ClearStageFrame DEF PostFails
  <2> QED
    BY <1>21, <1>20, <1>18, <2>2 DEF PostFails
<1>22. ASSUME NEW r \in Exporters, LineError(r) PROVE AgreementInv'
  <2>1. call[r].invoice \in Invoices
    BY <1>22, <1>t, WaitingCall DEF LineError
  <2>2. \A i \in Invoices : inFlight'[i] \in {0, inFlight[i]}
    BY <1>22, <1>t, <2>1, ClearStageFrame DEF LineError
  <2>3. Abandon(r)
    BY <1>22 DEF LineError, Abandon, extVars
  <2> QED
    BY <1>22, <1>20, <1>18, <2>2, <2>3 DEF LineError, extVars
<1>23. ASSUME NEW r \in Exporters, Promote(r) PROVE AgreementInv'
  <2> DEFINE i == call[r].invoice
  <2>1. i \in Invoices /\ Abandon(r) /\ UNCHANGED <<tally, stray, snap, pc>>
    BY <1>23, <1>t, WaitingCall DEF Promote, Abandon, extVars
  <2>2. CASE UNCHANGED <<exportVersion, inFlight>>
    BY <1>23, <1>20, <1>18, <2>1, <2>2 DEF Promote
  <2>3. CASE /\ inFlight[i] = Next1(r, i)
             /\ exportVersion' = [exportVersion EXCEPT ![i] = Next1(r, i)]
             /\ inFlight' = [inFlight EXCEPT ![i] = 0]
    <3>1. Next1(r, i) \in tally[i]
      BY <1>23, <1>s DEF Promote, ImportedIsHeld
    <3>2. Next1(r, i) # 0 /\ exportVersion[i] \in Nat
      BY <1>23, <1>t, <2>1, WaitingCall DEF Promote, TypeOK
    <3>3. Next1(r, i) = exportVersion[i] + 1
      BY <2>1, <2>3, <3>2, <1>s DEF StageIsNextVersion
    <3> HIDE DEF i
    <3>4. /\ exportVersion'[i] = exportVersion[i] + 1 /\ inFlight'[i] = 0
          /\ \A j \in Invoices : j # i =>
                exportVersion'[j] = exportVersion[j] /\ inFlight'[j] = inFlight[j]
      BY <2>1, <2>3, <3>3, <1>t DEF TypeOK
    <3>5. tally[i] = 1 .. (exportVersion[i] + 1)
      <4>1. tally[i] \in {1 .. exportVersion[i], 1 .. (exportVersion[i] + 1)}
        BY <2>1, <1>s DEF DatabaseNeverAhead
      <4> QED
        BY <4>1, <3>1, <3>2, <3>3, RecordInOrder
    <3>6. StageIsNextVersion'
      BY <3>4, <1>s DEF StageIsNextVersion
    <3>7. DatabaseNeverAhead'
      BY <3>4, <3>5, <2>1, <1>s DEF DatabaseNeverAhead
    <3>8. \A j \in Invoices : exportVersion[j] <= exportVersion'[j]
      <4> SUFFICES ASSUME NEW j \in Invoices PROVE exportVersion[j] <= exportVersion'[j]
        OBVIOUS
      <4>1. exportVersion[j] \in Nat
        BY <1>t DEF TypeOK
      <4>2. exportVersion'[j] \in {exportVersion[j], exportVersion[j] + 1}
        BY <3>4
      <4> QED
        BY <4>1, <4>2
    <3>9. SnapBehind'
      <4> SUFFICES ASSUME NEW q \in Exporters, NEW j \in Invoices
                   PROVE  snap[q][j] <= exportVersion'[j]
        BY <2>1 DEF SnapBehind
      <4>1. /\ snap[q][j] \in Nat /\ exportVersion[j] \in Nat /\ exportVersion'[j] \in Nat
            /\ snap[q][j] <= exportVersion[j] /\ exportVersion[j] <= exportVersion'[j]
        BY <3>8, <1>s, <1>t DEF TypeOK, SnapBehind
      <4> QED
        BY <4>1
    <3>10. StrayIsDue'
      <4> SUFFICES ASSUME NEW j \in Invoices, NEW v \in stray[j]
                   PROVE  v \in 1 .. (exportVersion'[j] + 1)
        BY <2>1 DEF StrayIsDue
      <4>1. v \in 1 .. (exportVersion[j] + 1)
        BY <1>s DEF StrayIsDue
      <4>2. /\ exportVersion[j] \in Nat /\ exportVersion'[j] \in Nat
            /\ exportVersion[j] <= exportVersion'[j]
        BY <3>8, <1>t DEF TypeOK
      <4> QED
        BY <4>1, <4>2
    <3>11. ImportedIsHeld'
      BY <1>23, <1>20, <2>1, <1>s DEF Promote, ImportedIsHeld, Next1
    <3> QED
      BY <3>6, <3>7, <3>9, <3>10, <3>11, <1>t DEF AgreementInv
  <2> QED
    BY <1>23, <2>2, <2>3 DEF Promote
<1>24. CASE Crash
  <2>1. UNCHANGED <<exportVersion, inFlight, tally, snap>>
    BY <1>24 DEF Crash, dbVars
  <2>2. PICK late \in SUBSET {r \in Exporters : call[r].state = "sent"} :
          stray' = [i \in Invoices |-> stray[i] \cup
                      {Next1(r, i) : r \in {x \in late : call[x].invoice = i}}]
    BY <1>24 DEF Crash
  <2>3. \A r \in Exporters : \A i \in Invoices : Next1(r, i) \in 1 .. (exportVersion[i] + 1)
    BY <1>s, <1>t, CallIsDue
  <2>4. StrayIsDue'
    BY <2>1, <2>2, <2>3, <1>s DEF StrayIsDue
  <2>5. StageIsNextVersion' /\ DatabaseNeverAhead' /\ SnapBehind'
    BY <2>1, <1>s DEF StageIsNextVersion, DatabaseNeverAhead, SnapBehind
  <2>6. ImportedIsHeld'
    BY <1>24 DEF Crash, ImportedIsHeld, NoCall
  <2> QED
    BY <2>4, <2>5, <2>6, <1>t DEF AgreementInv
<1>25. CASE UNCHANGED vars
  BY <1>25, <1>12 DEF vars, dbVars, extVars, reqVars
<1>26. QED
  BY <1>2, <1>3, <1>5, <1>6, <1>7, <1>8, <1>9, <1>10, <1>11, <1>13, <1>14, <1>15,
     <1>16, <1>17, <1>19, <1>21, <1>22, <1>23, <1>24, <1>25
     DEF Next, Arrival, PushStep, RetryStep, FileStep, ExportStep, MarkStep, Network, Quiet

LEMMA AgreementInvariant == Spec => []AgreementInv
  BY AgreementInit, AgreementNext, PTL DEF Spec

\* No exporter ever meets a stage other than its own or none.
THEOREM StagesAreNext == Spec => []StageIsNextVersion
  BY AgreementInvariant, PTL DEF AgreementInv

\* The runbook's invariant: the database never records a version Tally lacks
\* and is at most one version behind.
THEOREM NeverAhead == Spec => []DatabaseNeverAhead
  BY AgreementInvariant, PTL DEF AgreementInv

-----------------------------------------------------------------------------
(* The steps, seen from the database and Tally: what VoucherAgreement says. *)

\* Tally imports the version after the recorded one.
ImportStep(i) ==
  /\ tally' = [tally EXCEPT ![i] = @ \cup {exportVersion[i] + 1}]
  /\ UNCHANGED exportVersion

\* A version that Tally holds is recorded and its stage consumed.
RecordStep(i) ==
  /\ exportVersion[i] + 1 \in tally[i]
  /\ exportVersion' = [exportVersion EXCEPT ![i] = @ + 1]
  /\ inFlight'[i] = 0
  /\ UNCHANGED tally

\* A due version is the next one or one Tally holds already.
LEMMA DueImport ==
  ASSUME AgreementInv, NEW i \in Invoices, NEW v \in 1 .. (exportVersion[i] + 1),
         tally' = [tally EXCEPT ![i] = @ \cup {v}], UNCHANGED exportVersion
  PROVE  UNCHANGED <<exportVersion, tally>> \/ ImportStep(i)
<1>1. /\ tally \in [Invoices -> SUBSET Nat] /\ exportVersion[i] \in Nat
      /\ tally[i] \in {1 .. exportVersion[i], 1 .. (exportVersion[i] + 1)}
  BY DEF AgreementInv, TypeInv, TypeOK, DatabaseNeverAhead
<1>2. CASE v = exportVersion[i] + 1
  BY <1>2 DEF ImportStep
<1>3. CASE v # exportVersion[i] + 1
  <2>1. v \in tally[i]
    BY <1>1, <1>3
  <2>2. tally[i] \cup {v} = tally[i]
    BY <2>1
  <2>3. tally' = tally
    BY <1>1, <2>2
  <2> QED
    BY <2>3
<1> QED
  BY <1>2, <1>3

LEMMA StepKinds ==
  ASSUME AgreementInv, [Next]_vars
  PROVE  \/ UNCHANGED <<exportVersion, tally>>
         \/ \E i \in Invoices : ImportStep(i)
         \/ \E i \in Invoices : RecordStep(i)
<1> DEFINE Goal == \/ UNCHANGED <<exportVersion, tally>>
                   \/ \E i \in Invoices : ImportStep(i)
                   \/ \E i \in Invoices : RecordStep(i)
<1> SUFFICES Goal
  OBVIOUS
<1>t. TypeOK /\ SnapBehind /\ StrayIsDue /\ StageIsNextVersion /\ ImportedIsHeld
  BY DEF AgreementInv, TypeInv
<1> USE RequestKinds
<1>1. ASSUME NEW r \in Exporters, TallyImport(r) PROVE Goal
  <2> DEFINE i == call[r].invoice
  <2>1. i \in Invoices
    BY <1>1, <1>t, WaitingCall DEF TallyImport
  <2>2. Next1(r, i) \in 1 .. (exportVersion[i] + 1)
    BY <2>1, <1>t, CallIsDue
  <2>3. /\ UNCHANGED exportVersion
        /\ UNCHANGED tally \/ tally' = [tally EXCEPT ![i] = @ \cup {Next1(r, i)}]
    BY <1>1 DEF TallyImport, dbVars
  <2> HIDE DEF i
  <2> QED
    BY <2>1, <2>2, <2>3, DueImport
<1>2. ASSUME NEW i \in Invoices, NEW v \in stray[i], TallyLate(i, v) PROVE Goal
  <2>1. v \in 1 .. (exportVersion[i] + 1)
    BY <1>t DEF StrayIsDue
  <2>2. /\ UNCHANGED exportVersion
        /\ UNCHANGED tally \/ tally' = [tally EXCEPT ![i] = @ \cup {v}]
    BY <1>2 DEF TallyLate, dbVars
  <2> QED
    BY <2>1, <2>2, DueImport
<1>3. ASSUME NEW r \in Exporters, Promote(r) PROVE Goal
  <2> DEFINE i == call[r].invoice
  <2>1. i \in Invoices /\ Next1(r, i) \in Nat \ {0}
    BY <1>3, <1>t, WaitingCall DEF Promote
  <2>2. UNCHANGED tally
    BY <1>3 DEF Promote, extVars
  <2>3. CASE UNCHANGED exportVersion
    BY <2>2, <2>3
  <2>4. CASE /\ inFlight[i] = Next1(r, i)
             /\ exportVersion' = [exportVersion EXCEPT ![i] = Next1(r, i)]
             /\ inFlight' = [inFlight EXCEPT ![i] = 0]
    <3>1. Next1(r, i) = exportVersion[i] + 1 /\ Next1(r, i) \in tally[i]
      BY <1>3, <2>1, <2>4, <1>t DEF Promote, StageIsNextVersion, ImportedIsHeld
    <3>2. inFlight'[i] = 0
      BY <2>1, <2>4, <1>t DEF TypeOK
    <3> HIDE DEF i
    <3> QED
      BY <2>1, <2>2, <2>4, <3>1, <3>2 DEF RecordStep
  <2> QED
    BY <1>3, <2>3, <2>4 DEF Promote
<1>4. ASSUME UNCHANGED <<exportVersion, tally>> PROVE Goal
  BY <1>4
<1> HIDE DEF Goal
<1>5. ASSUME NEW r \in Exporters, ExportStep(r) PROVE Goal
  BY <1>5, <1>1, <1>3, <1>4
     DEF ExportStep, Refuse, StageConflict, Stage, LineError, dbVars, extVars
<1>6. ASSUME NEW r \in Requests, MarkStep(r) PROVE Goal
  BY <1>6, <1>4 DEF MarkStep, MarkExported, Finish, dbVars, extVars
<1>7. CASE Arrival
  BY <1>7, <1>4 DEF Arrival, PushStart, RetryRequest, FileStart, dbVars, extVars
<1>8. ASSUME NEW p \in Pushers, PushStep(p) PROVE Goal
  BY <1>8, <1>4, <1>5, <1>6 DEF PushStep, CreateBatch, dbVars, extVars
<1>9. ASSUME NEW t \in Retriers, RetryStep(t) PROVE Goal
  BY <1>9, <1>4, <1>5, <1>6
     DEF RetryStep, RetryStart, RetryNothing, MergeBatch, dbVars, extVars
<1>10. ASSUME NEW f \in FileWriters, FileStep(f) PROVE Goal
  BY <1>10, <1>4, <1>6 DEF FileStep, FileStore, dbVars, extVars
<1>11. CASE Network
  <2>1. ASSUME NEW r \in Exporters, Resend(r) \/ PostFails(r) PROVE Goal
    BY <2>1, <1>4 DEF Resend, PostFails, dbVars
  <2> QED
    BY <1>11, <1>2, <2>1 DEF Network
<1>12. CASE Crash \/ UNCHANGED vars
  BY <1>12, <1>4 DEF Crash, vars, dbVars, extVars
<1> QED
  BY <1>7, <1>8, <1>9, <1>10, <1>11, <1>12 DEF Next, Quiet

\* Versions are recorded one at a time, after Tally has imported them.
THEOREM ConfirmedInOrder == Spec => VersionsAreConfirmedInOrder
<1> DEFINE InOrder ==
      \A i \in Invoices : exportVersion'[i] # exportVersion[i] =>
         /\ exportVersion'[i] = exportVersion[i] + 1
         /\ exportVersion'[i] \in tally[i]
         /\ inFlight'[i] = 0
<1>1. AgreementInv /\ [Next]_vars => [InOrder]_vars
  <2> SUFFICES ASSUME AgreementInv, [Next]_vars PROVE InOrder
    OBVIOUS
  <2>1. exportVersion \in [Invoices -> Nat]
    BY DEF AgreementInv, TypeInv, TypeOK
  <2>2. CASE UNCHANGED <<exportVersion, tally>>
    BY <2>2
  <2>3. ASSUME NEW i \in Invoices, ImportStep(i) PROVE InOrder
    BY <2>3 DEF ImportStep
  <2>4. ASSUME NEW i \in Invoices, RecordStep(i) PROVE InOrder
    BY <2>1, <2>4 DEF RecordStep
  <2> HIDE DEF InOrder
  <2> QED
    BY <2>2, <2>3, <2>4, StepKinds
<1> HIDE DEF InOrder
<1>2. Spec => [][InOrder]_vars
  BY <1>1, AgreementInvariant, PTL DEF Spec
<1> QED
  BY <1>2 DEF InOrder, VersionsAreConfirmedInOrder

\* The export implements the abstract agreement of database and Tally.
THEOREM Refinement == Spec => ImplementsAgreement
<1>1. Init => Agreement!Init
  BY DEF Init, Agreement!Init
<1>2. AgreementInv /\ [Next]_vars => [Agreement!Next]_(Agreement!vars)
  <2> SUFFICES ASSUME AgreementInv, [Next]_vars
               PROVE  Agreement!Next \/ UNCHANGED <<exportVersion, tally>>
    BY DEF Agreement!vars
  <2>1. ASSUME NEW i \in Invoices, ImportStep(i) PROVE Agreement!Next
    BY <2>1 DEF ImportStep, Agreement!Next, Agreement!Import
  <2>2. ASSUME NEW i \in Invoices, RecordStep(i) PROVE Agreement!Next
    BY <2>2 DEF RecordStep, Agreement!Next, Agreement!Record
  <2> QED
    BY <2>1, <2>2, StepKinds
<1> QED
  BY <1>1, <1>2, AgreementInvariant, PTL DEF Spec, ImplementsAgreement, Agreement!Spec

-----------------------------------------------------------------------------
(* One winner per version: a version that a request reports as its success *)
(* is recorded, and a promotion records one that was not.                  *)

NoResultYet ==
  \A r \in Exporters : pc[r] \in {"idle", "queued"} =>
    \A i \in Invoices : result[r][i] = "none"

SuccessIsRecorded ==
  \A r \in Exporters : \A i \in Accepted(r) : snap[r][i] < exportVersion[i]

WinnerInv == NoResultYet /\ SuccessIsRecorded /\ OneWinnerPerVersion

\* The steps, seen from one request's snapshot and results.
StartStep(r) ==
  /\ pc[r] \in {"idle", "queued"}
  /\ snap' = [snap EXCEPT ![r] = exportVersion]
  /\ UNCHANGED <<exportVersion, result>>

FailStep(r, i) ==
  /\ pc[r] = "loop" /\ UNCHANGED <<pc, snap, exportVersion>>
  /\ Report(r, i, "error") \/ Report(r, i, "lineError")

WinStep(r, i) ==
  /\ pc[r] = "loop" /\ UNCHANGED <<pc, snap>>
  /\ snap[r][i] = exportVersion[i]
  /\ exportVersion' = [exportVersion EXCEPT ![i] = @ + 1]
  /\ Report(r, i, "success") \/ Report(r, i, "error")

ResultStep ==
  \/ UNCHANGED <<snap, exportVersion, result>>
  \/ \E r \in Exporters : StartStep(r)
  \/ \E r \in Exporters : \E i \in Invoices : FailStep(r, i) \/ WinStep(r, i)

\* No request returns to the phases before its loop.
NoReturn ==
  \A r \in Exporters :
    pc'[r] \in {"idle", "queued"} => pc[r] \in {"idle", "queued"}

LEMMA ResultSteps ==
  ASSUME AgreementInv, [Next]_vars
  PROVE  ResultStep /\ NoReturn
<1> SUFFICES ResultStep /\ NoReturn
  OBVIOUS
<1>t. TypeOK /\ StageIsNextVersion
  BY DEF AgreementInv, TypeInv
<1> USE RequestKinds
<1>1. ASSUME UNCHANGED pc PROVE NoReturn
  BY <1>1 DEF NoReturn
<1>2. ASSUME NEW r \in Requests, NEW phase \in Phases, Goto(r, phase),
             phase \in {"idle", "queued"} => pc[r] \in {"idle", "queued"}
      PROVE  NoReturn
  BY <1>2, <1>t DEF NoReturn, Goto, TypeOK
<1>3. ASSUME NEW p \in Pushers, PushStart(p) PROVE ResultStep /\ NoReturn
  <2>1. NoReturn
    BY <1>2, <1>3, PhaseNames DEF PushStart
  <2> QED
    BY <2>1, <1>3 DEF PushStart, ResultStep, StartStep, dbVars
<1>4. ASSUME NEW t \in Retriers, RetryStart(t) PROVE ResultStep /\ NoReturn
  <2>1. NoReturn
    BY <1>2, <1>4, PhaseNames DEF RetryStart
  <2> QED
    BY <2>1, <1>4 DEF RetryStart, FirstInQueue, ResultStep, StartStep, dbVars
<1>5. ASSUME NEW r \in Requests, NEW phase \in Phases, Goto(r, phase),
             phase \in {"idle", "queued"} => pc[r] \in {"idle", "queued"},
             UNCHANGED <<dbVars, snap, result>>
      PROVE  ResultStep /\ NoReturn
  BY <1>5, <1>2 DEF ResultStep, dbVars
<1>6. ASSUME UNCHANGED <<pc, snap, exportVersion, result>>
      PROVE  ResultStep /\ NoReturn
  BY <1>6, <1>1 DEF ResultStep
<1>7. ASSUME NEW r \in Exporters, NEW i \in Invoices, FailStep(r, i)
      PROVE  ResultStep /\ NoReturn
  BY <1>7, <1>1 DEF FailStep, ResultStep
<1>8. CASE Arrival
  <2>1. ASSUME NEW t \in Retriers, RetryRequest(t) PROVE ResultStep /\ NoReturn
    BY <2>1, <1>5, PhaseNames DEF RetryRequest
  <2>2. ASSUME NEW f \in FileWriters, FileStart(f) PROVE ResultStep /\ NoReturn
    BY <2>2, <1>5, PhaseNames DEF FileStart
  <2> QED
    BY <1>8, <1>3, <2>1, <2>2 DEF Arrival
<1>9. ASSUME NEW r \in Exporters, NEW i \in Invoices,
             Refuse(r, i) \/ StageConflict(r, i) \/ Stage(r, i)
      PROVE  ResultStep /\ NoReturn
  <2>1. CASE Report(r, i, "error")
    BY <1>9, <1>7, <2>1
       DEF Refuse, StageConflict, Stage, Decided, Looping, FailStep, dbVars
  <2>2. CASE UNCHANGED result
    BY <1>9, <1>6, <2>2 DEF Refuse, StageConflict, Stage, dbVars
  <2> QED
    BY <1>9, <2>1, <2>2 DEF Refuse, StageConflict, Stage
<1>10. ASSUME NEW r \in Exporters, PostFails(r) \/ LineError(r)
       PROVE  ResultStep /\ NoReturn
  <2>1. call[r].invoice \in Invoices
    BY <1>10, <1>t, WaitingCall DEF PostFails, LineError
  <2>2. FailStep(r, call[r].invoice)
    BY <1>10 DEF PostFails, LineError, Waiting, FailStep
  <2> QED
    BY <2>1, <2>2, <1>7
<1>11. ASSUME NEW r \in Exporters, Promote(r) PROVE ResultStep /\ NoReturn
  <2> DEFINE i == call[r].invoice
  <2>1. i \in Invoices /\ Next1(r, i) \in Nat \ {0} /\ pc[r] = "loop"
    BY <1>11, <1>t, WaitingCall DEF Promote, Waiting
  <2>2. UNCHANGED <<pc, snap>>
    BY <1>11 DEF Promote
  <2>3. CASE Report(r, i, "error") /\ UNCHANGED exportVersion
    <3> HIDE DEF i
    <3> QED
      BY <2>1, <2>2, <2>3, <1>7 DEF FailStep
  <2>4. CASE /\ inFlight[i] = Next1(r, i)
             /\ exportVersion' = [exportVersion EXCEPT ![i] = Next1(r, i)]
             /\ Report(r, i, "success") \/ Report(r, i, "error")
    <3>1. Next1(r, i) = exportVersion[i] + 1
      BY <2>1, <2>4, <1>t DEF StageIsNextVersion
    <3>2. snap[r][i] = exportVersion[i]
      BY <2>1, <3>1, <1>t DEF Next1, TypeOK
    <3> HIDE DEF i
    <3>3. WinStep(r, i)
      BY <2>1, <2>2, <2>4, <3>1, <3>2 DEF WinStep
    <3> QED
      BY <2>1, <2>2, <3>3, <1>1 DEF ResultStep
  <2> QED
    BY <1>11, <2>3, <2>4 DEF Promote
<1>12. ASSUME NEW r \in Requests, MarkStep(r) PROVE ResultStep /\ NoReturn
  <2>1. ASSUME NEW i \in Invoices, MarkExported(r, i) PROVE ResultStep /\ NoReturn
    BY <2>1, <1>6 DEF MarkExported
  <2>2. CASE Finish(r)
    BY <2>2, <1>5, PhaseNames DEF Finish, Settle
  <2> QED
    BY <1>12, <2>1, <2>2 DEF MarkStep
<1>13. ASSUME NEW r \in Exporters, ExportStep(r) PROVE ResultStep /\ NoReturn
  <2>1. CASE TallyImport(r)
    BY <2>1, <1>6 DEF TallyImport, dbVars
  <2> QED
    BY <1>13, <2>1, <1>9, <1>10, <1>11 DEF ExportStep
<1>14. ASSUME NEW p \in Pushers, PushStep(p) PROVE ResultStep /\ NoReturn
  <2>1. CASE CreateBatch(p)
    BY <2>1, <1>5, PhaseNames DEF CreateBatch
  <2> QED
    BY <1>14, <2>1, <1>12, <1>13 DEF PushStep
<1>15. ASSUME NEW t \in Retriers, RetryStep(t) PROVE ResultStep /\ NoReturn
  <2>1. CASE MergeBatch(t)
    BY <2>1, <1>5, PhaseNames DEF MergeBatch, Settle
  <2>2. CASE RetryNothing(t)
    BY <2>2, <1>5, PhaseNames DEF RetryNothing, Settle
  <2> QED
    BY <1>15, <2>1, <2>2, <1>4, <1>12, <1>13 DEF RetryStep
<1>16. ASSUME NEW f \in FileWriters, FileStep(f) PROVE ResultStep /\ NoReturn
  <2>1. CASE FileStore(f)
    BY <2>1, <1>5, PhaseNames DEF FileStore
  <2> QED
    BY <1>16, <2>1, <1>12 DEF FileStep
<1>17. CASE Network
  <2>1. ASSUME NEW r \in Exporters, Resend(r) PROVE ResultStep /\ NoReturn
    BY <2>1, <1>6 DEF Resend, dbVars
  <2>2. ASSUME NEW i \in Invoices, NEW v \in stray[i], TallyLate(i, v)
        PROVE  ResultStep /\ NoReturn
    BY <2>2, <1>6 DEF TallyLate, dbVars, reqVars
  <2> QED
    BY <1>17, <1>10, <2>1, <2>2 DEF Network
<1>18. CASE Crash
  <2>1. NoReturn
    BY <1>18 DEF Crash, NoReturn
  <2> QED
    BY <1>18, <2>1 DEF Crash, ResultStep, dbVars
<1>19. CASE UNCHANGED vars
  BY <1>19, <1>6 DEF vars, dbVars, reqVars
<1> QED
  BY <1>8, <1>14, <1>15, <1>16, <1>17, <1>18, <1>19 DEF Next, Quiet

LEMMA WinnerInit == Init => WinnerInv
  BY DEF Init, WinnerInv, NoResultYet, SuccessIsRecorded, OneWinnerPerVersion, Accepted

LEMMA WinnerNext == AgreementInv /\ WinnerInv /\ [Next]_vars => WinnerInv'
<1> SUFFICES ASSUME AgreementInv, WinnerInv, [Next]_vars PROVE WinnerInv'
  OBVIOUS
<1>t. /\ TypeOK /\ TypeOK' /\ NoResultYet /\ SuccessIsRecorded /\ OneWinnerPerVersion
  BY AgreementNext DEF AgreementInv, TypeInv, WinnerInv
<1>r. ResultStep /\ NoReturn
  BY ResultSteps
<1>1. CASE UNCHANGED <<snap, exportVersion, result>>
  <2>1. NoResultYet'
    BY <1>1, <1>t, <1>r DEF NoResultYet, NoReturn
  <2>2. SuccessIsRecorded' /\ OneWinnerPerVersion'
    BY <1>1, <1>t DEF SuccessIsRecorded, OneWinnerPerVersion, Accepted
  <2> QED
    BY <2>1, <2>2 DEF WinnerInv
<1>2. ASSUME NEW r \in Exporters, StartStep(r) PROVE WinnerInv'
  <2>1. NoResultYet'
    BY <1>2, <1>t, <1>r DEF NoResultYet, NoReturn, StartStep
  <2>2. Accepted(r) = {} /\ \A q \in Exporters : Accepted(q)' = Accepted(q)
    BY <1>2, <1>t DEF StartStep, NoResultYet, Accepted
  <2>3. \A q \in Exporters : q # r => snap'[q] = snap[q]
    BY <1>2, <1>t DEF StartStep, TypeOK
  <2>4. SuccessIsRecorded' /\ OneWinnerPerVersion'
    BY <1>2, <2>2, <2>3, <1>t DEF SuccessIsRecorded, OneWinnerPerVersion, StartStep
  <2> QED
    BY <2>1, <2>4 DEF WinnerInv
<1>3. ASSUME NEW r \in Exporters, NEW i \in Invoices, FailStep(r, i) PROVE WinnerInv'
  <2>1. PICK o \in {"error", "lineError"} : result' = [result EXCEPT ![r][i] = o]
    BY <1>3 DEF FailStep, Report
  <2>2. \A q \in Exporters : \A j \in Invoices :
          result'[q][j] = result[q][j] \/ (q = r /\ result'[q][j] \in {"error", "lineError"})
    BY <2>1, <1>t DEF TypeOK
  <2>3. NoResultYet'
    BY <1>3, <2>2, <1>t DEF FailStep, NoResultYet
  <2>4. \A q \in Exporters : Accepted(q)' \subseteq Accepted(q)
    BY <2>2 DEF Accepted
  <2>5. SuccessIsRecorded' /\ OneWinnerPerVersion'
    BY <1>3, <2>4, <1>t DEF FailStep, SuccessIsRecorded, OneWinnerPerVersion
  <2> QED
    BY <2>3, <2>5 DEF WinnerInv
<1>4. ASSUME NEW r \in Exporters, NEW i \in Invoices, WinStep(r, i) PROVE WinnerInv'
  <2>1. /\ UNCHANGED <<pc, snap>> /\ pc[r] = "loop" /\ snap[r][i] = exportVersion[i]
        /\ \E o \in {"success", "error"} : result' = [result EXCEPT ![r][i] = o]
        /\ exportVersion' = [exportVersion EXCEPT ![i] = @ + 1]
    BY <1>4 DEF WinStep, Report
  <2>2. \A q \in Exporters : \A j \in Invoices :
          (q # r \/ j # i) => result'[q][j] = result[q][j]
    BY <2>1, <1>t DEF TypeOK
  <2>3. /\ exportVersion'[i] = exportVersion[i] + 1 /\ exportVersion[i] \in Nat
        /\ \A j \in Invoices : j # i => exportVersion'[j] = exportVersion[j]
    BY <2>1, <1>t DEF TypeOK
  <2>4. NoResultYet'
    BY <2>1, <2>2, <1>t DEF NoResultYet
  <2>5. SuccessIsRecorded'
    <3> SUFFICES ASSUME NEW q \in Exporters, NEW j \in Invoices, result'[q][j] = "success"
                 PROVE  snap[q][j] < exportVersion'[j]
      BY <2>1 DEF SuccessIsRecorded, Accepted
    <3>1. snap[q][j] \in Nat /\ exportVersion[j] \in Nat
      BY <1>t DEF TypeOK
    <3>2. CASE q = r /\ j = i
      BY <3>2, <2>1, <2>3
    <3>3. CASE q # r \/ j # i
      <4>1. snap[q][j] < exportVersion[j]
        BY <3>3, <2>2, <1>t DEF SuccessIsRecorded, Accepted
      <4>2. exportVersion'[j] \in {exportVersion[j], exportVersion[j] + 1}
        BY <2>3
      <4> QED
        BY <3>1, <4>1, <4>2
    <3> QED
      BY <3>2, <3>3
  <2>6. OneWinnerPerVersion'
    <3>1. ASSUME NEW q \in Exporters \ {r}, i \in Accepted(q)'
          PROVE  snap[q][i] # snap[r][i]
      <4>1. snap[q][i] < exportVersion[i]
        BY <3>1, <2>2, <1>t DEF Accepted, SuccessIsRecorded
      <4> QED
        BY <4>1, <2>1, <1>t DEF TypeOK
    <3>2. SUFFICES ASSUME NEW x \in Exporters, NEW y \in Exporters, NEW j \in Invoices,
                          x # y, j \in Accepted(x)' \cap Accepted(y)'
                   PROVE  snap[x][j] # snap[y][j]
      BY <2>1 DEF OneWinnerPerVersion
    <3>3. CASE j = i /\ (x = r \/ y = r)
      BY <3>1, <3>2, <3>3
    <3>4. CASE j # i \/ (x # r /\ y # r)
      <4>1. j \in Accepted(x) \cap Accepted(y)
        BY <3>2, <3>4, <2>2 DEF Accepted
      <4> QED
        BY <3>2, <4>1, <1>t DEF OneWinnerPerVersion
    <3> QED
      BY <3>3, <3>4
  <2> QED
    BY <2>4, <2>5, <2>6 DEF WinnerInv
<1> QED
  BY <1>r, <1>1, <1>2, <1>3, <1>4 DEF ResultStep

LEMMA WinnerInvariant == Spec => [](AgreementInv /\ WinnerInv)
  BY AgreementInit, AgreementNext, WinnerInit, WinnerNext, PTL DEF Spec

\* No two requests report the same version of a voucher as their success.
THEOREM OneWinner == Spec => []OneWinnerPerVersion
  BY WinnerInvariant, PTL DEF WinnerInv

-----------------------------------------------------------------------------
(* What is shown as exported: the invoices a request goes on to mark, and  *)
(* those it has marked, have a recorded version or are in a stored file.   *)

ToMarkIsBacked ==
  /\ \A r \in Exporters : pc[r] = "mark" =>
       \A i \in todo[r] : exportVersion[i] > 0
  /\ \A f \in FileWriters : pc[f] = "mark" => todo[f] \subseteq files

ShownIsBacked ==
  \A i \in Invoices :
    /\ status[i] = "EXPORTED" => exportVersion[i] > 0 \/ i \in files
    /\ \A p \in Pushers : batches[p][i] = "success" => exportVersion[i] > 0

ShownInv == ToMarkIsBacked /\ ShownIsBacked

\* The backing never goes away.
LEMMA BackingStays ==
  ASSUME AgreementInv, [Next]_vars
  PROVE  \A i \in Invoices : exportVersion[i] > 0 => exportVersion'[i] > 0
<1>t. exportVersion \in [Invoices -> Nat]
  BY DEF AgreementInv, TypeInv, TypeOK
<1>1. ASSUME NEW i \in Invoices, RecordStep(i)
      PROVE  \A j \in Invoices : exportVersion[j] > 0 => exportVersion'[j] > 0
  BY <1>1, <1>t DEF RecordStep
<1> QED
  BY <1>1, StepKinds DEF ImportStep

LEMMA AcceptedIsBacked ==
  ASSUME TypeOK, SuccessIsRecorded, NEW r \in Exporters, NEW i \in Accepted(r)
  PROVE  exportVersion[i] > 0
<1>1. i \in Invoices /\ snap[r][i] \in Nat /\ exportVersion[i] \in Nat
  BY DEF TypeOK, Accepted
<1> QED
  BY <1>1 DEF SuccessIsRecorded

LEMMA ShownInit == Init => ShownInv
  BY RequestKinds DEF Init, ShownInv, ToMarkIsBacked, ShownIsBacked

LEMMA ShownNext ==
  AgreementInv /\ WinnerInv /\ ShownInv /\ [Next]_vars => ShownInv'
<1> SUFFICES ASSUME AgreementInv, WinnerInv, ShownInv, [Next]_vars PROVE ShownInv'
  OBVIOUS
<1>t. TypeOK /\ SuccessIsRecorded /\ ToMarkIsBacked /\ ShownIsBacked
  BY DEF AgreementInv, TypeInv, WinnerInv, ShownInv
<1>b. \A i \in Invoices : exportVersion[i] > 0 => exportVersion'[i] > 0
  BY BackingStays
<1> USE RequestKinds
\* Nothing new is marked.
<1>1. ASSUME UNCHANGED <<status, batches, files>>,
             \A r \in Requests : pc'[r] = "mark" =>
                pc[r] = "mark" /\ todo'[r] \subseteq todo[r]
      PROVE  ShownInv'
  <2>1. ToMarkIsBacked'
    BY <1>1, <1>t, <1>b DEF ToMarkIsBacked, TypeOK
  <2>2. ShownIsBacked'
    BY <1>1, <1>t, <1>b DEF ShownIsBacked
  <2> QED
    BY <2>1, <2>2 DEF ShownInv
<1>2. ASSUME NEW r \in Requests, NEW phase \in Phases \ {"mark"}, Goto(r, phase),
             \A q \in Requests \ {r} : todo'[q] = todo[q],
             UNCHANGED <<status, batches, files>>
      PROVE  ShownInv'
  BY <1>1, <1>2, <1>t DEF Goto, TypeOK
<1>3. CASE Arrival
  <2>1. ASSUME NEW p \in Pushers, PushStart(p) PROVE ShownInv'
    BY <2>1, <1>2, <1>t, PhaseNames DEF PushStart, TypeOK, dbVars
  <2>2. ASSUME NEW t \in Retriers, RetryRequest(t) PROVE ShownInv'
    BY <2>2, <1>2, PhaseNames DEF RetryRequest, dbVars
  <2>3. ASSUME NEW f \in FileWriters, FileStart(f) PROVE ShownInv'
    BY <2>3, <1>2, <1>t, PhaseNames DEF FileStart, TypeOK, dbVars
  <2> QED
    BY <1>3, <2>1, <2>2, <2>3 DEF Arrival
<1>4. ASSUME NEW r \in Exporters, pc[r] = "loop", UNCHANGED <<status, batches, files, pc>>,
             \A q \in Requests \ {r} : todo'[q] = todo[q]
      PROVE  ShownInv'
  BY <1>1, <1>4
<1>5. ASSUME NEW r \in Exporters, ExportStep(r) PROVE ShownInv'
  <2>1. ASSUME NEW i \in Invoices, Refuse(r, i) \/ StageConflict(r, i) \/ Stage(r, i)
        PROVE  ShownInv'
    <3>1. todo' = [todo EXCEPT ![r] = @ \ {i}]
      BY <2>1 DEF Refuse, StageConflict, Stage
    <3>2. \A q \in Requests \ {r} : todo'[q] = todo[q]
      BY <3>1, <1>t DEF TypeOK
    <3> QED
      BY <2>1, <3>2, <1>4
         DEF Refuse, StageConflict, Stage, Decided, Looping, dbVars
  <2>2. CASE TallyImport(r)
    BY <2>2, <1>4 DEF TallyImport, Waiting, dbVars
  <2>3. CASE LineError(r)
    BY <2>3, <1>4 DEF LineError, Waiting
  <2>4. CASE Promote(r)
    BY <2>4, <1>4 DEF Promote, Waiting
  <2> QED
    BY <1>5, <2>1, <2>2, <2>3, <2>4 DEF ExportStep
\* A request stores its items, and gives up or goes on to mark what Tally
\* accepted.
<1>6. ASSUME NEW r \in Exporters, NEW phase \in {"mark", "rejected"}, Goto(r, phase),
             UNCHANGED <<status, files>>,
             IF phase = "mark" THEN todo' = [todo EXCEPT ![r] = Accepted(r)]
                               ELSE UNCHANGED todo,
             \A p \in Pushers : \A i \in Invoices : batches'[p][i] = "success" =>
                batches[p][i] = "success" \/ i \in Accepted(r)
      PROVE  ShownInv'
  <2>1. \A i \in Accepted(r) : i \in Invoices /\ exportVersion'[i] > 0
    BY <1>t, <1>b, AcceptedIsBacked DEF Accepted
  <2>2. /\ pc'[r] = "mark" => todo'[r] = Accepted(r)
        /\ \A q \in Requests : q # r => todo'[q] = todo[q] /\ pc'[q] = pc[q]
    BY <1>6, <1>t DEF Goto, TypeOK
  <2>3. ToMarkIsBacked'
    <3>1. \A q \in Exporters : pc'[q] = "mark" =>
            \A i \in todo'[q] : exportVersion'[i] > 0
      <4> SUFFICES ASSUME NEW q \in Exporters, pc'[q] = "mark", NEW i \in todo'[q]
                   PROVE  exportVersion'[i] > 0
        OBVIOUS
      <4>1. CASE q = r
        BY <4>1, <2>1, <2>2
      <4>2. CASE q # r
        <5>1. i \in todo[q] /\ pc[q] = "mark" /\ todo[q] \subseteq Invoices
          BY <4>2, <2>2, <1>t DEF TypeOK
        <5> QED
          BY <5>1, <1>t, <1>b DEF ToMarkIsBacked
      <4> QED
        BY <4>1, <4>2
    <3>2. \A f \in FileWriters : pc'[f] = "mark" => todo'[f] \subseteq files'
      BY <1>6, <2>2, <1>t DEF ToMarkIsBacked
    <3> QED
      BY <3>1, <3>2 DEF ToMarkIsBacked
  <2>4. ShownIsBacked'
    BY <1>6, <2>1, <1>t, <1>b DEF ShownIsBacked
  <2> QED
    BY <2>3, <2>4 DEF ShownInv
<1>7. ASSUME NEW p \in Pushers, CreateBatch(p) PROVE ShownInv'
  <2>1. \A q \in Pushers : \A i \in Invoices : batches'[q][i] = "success" =>
          batches[q][i] = "success" \/ i \in Accepted(p)
    <3>1. \A i \in Invoices : ItemOf(result[p][i]) = "success" => i \in Accepted(p)
      BY <1>t, ItemOfType DEF TypeOK, Accepted
    <3>2. CASE UNCHANGED batches
      BY <3>2
    <3>3. CASE StoreItems(p)
      BY <3>1, <3>3, <1>t DEF StoreItems, TypeOK
    <3> QED
      BY <1>7, <3>2, <3>3 DEF CreateBatch
  <2>2. CASE Goto(p, "rejected") /\ UNCHANGED todo
    BY <1>7, <2>1, <2>2, <1>6 DEF CreateBatch, dbVars
  <2>3. CASE todo' = [todo EXCEPT ![p] = Accepted(p)] /\ Goto(p, "mark")
    BY <1>7, <2>1, <2>3, <1>6 DEF CreateBatch, dbVars
  <2> QED
    BY <1>7, <2>2, <2>3 DEF CreateBatch
<1>8. ASSUME NEW t \in Retriers, MergeBatch(t) PROVE ShownInv'
  <2> DEFINE p == source[t]
             merged == [i \in Invoices |-> IF result[t][i] = "none" THEN batches[p][i]
                                           ELSE ItemOf(result[t][i])]
  <2>1. \A q \in Pushers : \A i \in Invoices : batches'[q][i] = "success" =>
          batches[q][i] = "success" \/ i \in Accepted(t)
    <3>1. \A i \in Invoices : merged[i] = "success" =>
            batches[p][i] = "success" \/ i \in Accepted(t)
      BY <1>t, ItemOfType DEF TypeOK, Accepted
    <3>2. UNCHANGED batches \/ batches' = [batches EXCEPT ![p] = merged]
      BY <1>8 DEF MergeBatch, MergeItems
    <3>3. batches \in [Pushers -> [Invoices -> ItemState]]
      BY <1>t DEF TypeOK
    <3> HIDE DEF merged, p
    <3>4. CASE UNCHANGED batches
      BY <3>4
    <3>5. CASE batches' = [batches EXCEPT ![p] = merged]
      <4>1. \A q \in Pushers : batches'[q] = IF q = p THEN merged ELSE batches[q]
        BY <3>3, <3>5
      <4> QED
        BY <3>1, <4>1
    <3> QED
      BY <3>2, <3>4, <3>5
  <2>2. CASE Goto(t, "rejected") /\ UNCHANGED todo
    BY <1>8, <2>1, <2>2, <1>6 DEF MergeBatch, dbVars
  <2>3. CASE todo' = [todo EXCEPT ![t] = Accepted(t)] /\ Goto(t, "mark")
    BY <1>8, <2>1, <2>3, <1>6 DEF MergeBatch, dbVars
  <2> QED
    BY <1>8, <2>2, <2>3 DEF MergeBatch, Settle
<1>9. ASSUME NEW r \in Requests, NEW i \in Invoices, MarkExported(r, i) PROVE ShownInv'
  <2>1. \A q \in Requests : pc'[q] = pc[q] /\ todo'[q] \subseteq todo[q]
    BY <1>9, <1>t DEF MarkExported, TypeOK
  <2>2. exportVersion[i] > 0 \/ i \in files
    BY <1>9, <1>t DEF MarkExported, ToMarkIsBacked
  <2>3. /\ UNCHANGED <<files, batches>>
        /\ \A j \in Invoices : status'[j] = status[j] \/ j = i
    BY <1>9, <1>t DEF MarkExported, TypeOK
  <2>4. ShownIsBacked'
    BY <2>2, <2>3, <1>t, <1>b DEF ShownIsBacked
  <2>5. ToMarkIsBacked'
    BY <2>1, <2>3, <1>t, <1>b DEF ToMarkIsBacked, TypeOK
  <2> QED
    BY <2>4, <2>5 DEF ShownInv
<1>10. ASSUME NEW r \in Requests, MarkStep(r) PROVE ShownInv'
  <2>1. CASE Finish(r)
    BY <2>1, <1>2, PhaseNames DEF Finish, Settle, dbVars
  <2> QED
    BY <1>10, <2>1, <1>9 DEF MarkStep
<1>11. ASSUME NEW f \in FileWriters, FileStore(f) PROVE ShownInv'
  <2> DEFINE included == todo[f] \ (NoAmount \cup NoVendorState)
  <2>1. files \subseteq files' /\ UNCHANGED <<status, batches>>
    BY <1>11 DEF FileStore, dbVars
  <2>2. ShownIsBacked'
    BY <2>1, <1>t, <1>b DEF ShownIsBacked
  <2>3. /\ \A q \in Requests : q # f => todo'[q] = todo[q] /\ pc'[q] = pc[q]
        /\ pc'[f] = "mark" => todo'[f] \subseteq files'
    BY <1>11, <1>t DEF FileStore, Goto, TypeOK
  <2> HIDE DEF included
  <2>4. UNCHANGED exportVersion
    BY <1>11 DEF FileStore, dbVars
  <2>5. ASSUME NEW r \in Exporters, pc'[r] = "mark", NEW i \in todo'[r]
        PROVE  exportVersion'[i] > 0
    <3>1. r \in Requests /\ r # f
      OBVIOUS
    <3>2. pc[r] = "mark" /\ i \in todo[r]
      BY <2>3, <2>5, <3>1
    <3> QED
      BY <2>4, <2>5, <3>2, <1>t DEF ToMarkIsBacked
  <2>6. ASSUME NEW g \in FileWriters, pc'[g] = "mark"
        PROVE  todo'[g] \subseteq files'
    <3>1. CASE g = f
      BY <2>3, <2>6, <3>1
    <3>2. CASE g # f
      <4>1. pc[g] = "mark" /\ todo'[g] = todo[g]
        BY <2>3, <2>6, <3>2
      <4>2. todo[g] \subseteq files
        BY <4>1, <1>t DEF ToMarkIsBacked
      <4> QED
        BY <2>1, <4>1, <4>2
    <3> QED
      BY <3>1, <3>2
  <2>7. ToMarkIsBacked'
    BY <2>5, <2>6 DEF ToMarkIsBacked
  <2> QED
    BY <2>2, <2>7 DEF ShownInv
<1>12. ASSUME NEW p \in Pushers, PushStep(p) PROVE ShownInv'
  BY <1>12, <1>5, <1>7, <1>10 DEF PushStep
<1>13. ASSUME NEW t \in Retriers, RetryStep(t) PROVE ShownInv'
  <2>1. CASE RetryStart(t)
    BY <2>1, <1>2, <1>t, PhaseNames DEF RetryStart, TypeOK, dbVars
  <2>2. CASE RetryNothing(t)
    BY <2>2, <1>2, PhaseNames DEF RetryNothing, Settle, dbVars
  <2> QED
    BY <1>13, <2>1, <2>2, <1>5, <1>8, <1>10 DEF RetryStep
<1>14. ASSUME NEW f \in FileWriters, FileStep(f) PROVE ShownInv'
  BY <1>14, <1>10, <1>11 DEF FileStep
<1>15. CASE Network
  <2>1. ASSUME NEW r \in Exporters, Resend(r) \/ PostFails(r) PROVE ShownInv'
    BY <2>1, <1>4 DEF Resend, PostFails, Waiting, dbVars
  <2>2. ASSUME NEW i \in Invoices, NEW v \in stray[i], TallyLate(i, v) PROVE ShownInv'
    BY <2>2, <1>1 DEF TallyLate, dbVars, reqVars
  <2> QED
    BY <1>15, <2>1, <2>2 DEF Network
<1>16. CASE Crash
  <2>1. \A r \in Requests : pc'[r] # "mark"
    BY <1>16 DEF Crash, Ended
  <2> QED
    BY <1>16, <2>1, <1>1 DEF Crash, dbVars
<1>17. CASE UNCHANGED vars
  BY <1>17, <1>1 DEF vars, dbVars, reqVars
<1> QED
  BY <1>3, <1>12, <1>13, <1>14, <1>15, <1>16, <1>17 DEF Next, Quiet

LEMMA ShownInvariant == Spec => [](AgreementInv /\ WinnerInv /\ ShownInv)
  BY AgreementInit, AgreementNext, WinnerInit, WinnerNext, ShownInit, ShownNext, PTL
     DEF Spec

\* Whatever fails, an invoice or item shown as exported has its voucher in
\* Tally or in an import file.
THEOREM ShownIsInTally == Spec => []ShownAsExportedIsInTally
<1>1. AgreementInv /\ ShownInv => ShownAsExportedIsInTally
  <2> SUFFICES ASSUME AgreementInv, ShownInv PROVE ShownAsExportedIsInTally
    OBVIOUS
  <2>1. ASSUME NEW i \in Invoices, exportVersion[i] > 0 PROVE tally[i] # {}
    <3>1. /\ exportVersion[i] \in Nat
          /\ tally[i] \in {1 .. exportVersion[i], 1 .. (exportVersion[i] + 1)}
      BY DEF AgreementInv, TypeInv, TypeOK, DatabaseNeverAhead
    <3>2. 1 \in tally[i]
      BY <2>1, <3>1
    <3> QED
      BY <3>2
  <2> QED
    BY <2>1 DEF ShownInv, ShownIsBacked, ShownAsExportedIsInTally
<1> QED
  BY <1>1, ShownInvariant, PTL

-----------------------------------------------------------------------------
(* Success items: until it merges a retry works on items that are failures, *)
(* because it is the only retry that is served and its batch exists.       *)

CallOnlyInLoop == \A r \in Exporters : call[r] # NoCall => pc[r] = "loop"

NoBatchYet ==
  \A p \in Pushers : pc[p] \in {"idle", "loop"} =>
    \A i \in Invoices : batches[p][i] = "none"

\* The invoices a retry has taken on: ahead of it, under way or done.
TakenOn(t) ==
  {i \in Invoices : i \in todo[t] \/ call[t].invoice = i \/ result[t][i] # "none"}

RetriesFailures ==
  \A t \in Retriers : pc[t] = "loop" =>
    \A i \in TakenOn(t) : batches[source[t]][i] = "failure"

RetriesBatch ==
  \A t \in Retriers : pc[t] \in {"queued", "loop"} => source[t] \in Pushers

ItemInv == CallOnlyInLoop /\ NoBatchYet /\ RetriesFailures /\ RetriesBatch

\* A served retry is alone: the queue has one head.
LEMMA ServedAlone ==
  ASSUME TypeInv, NEW t \in Retriers, NEW u \in Retriers,
         pc[t] \in {"loop", "mark"}, pc[u] \in {"loop", "mark"}
  PROVE  t = u
  BY DEF TypeInv, RetryIsHead

\* A merge writes the items of the retried invoices only.
LEMMA MergeKeeps ==
  ASSUME TypeOK, NEW t \in Retriers, source[t] \in Pushers, MergeBatch(t)
  PROVE  /\ \A q \in Pushers \ {source[t]} : batches'[q] = batches[q]
         /\ \A i \in Invoices :
              result[t][i] = "none" => batches'[source[t]][i] = batches[source[t]][i]
<1> DEFINE p == source[t]
           merged == [i \in Invoices |-> IF result[t][i] = "none" THEN batches[p][i]
                                         ELSE ItemOf(result[t][i])]
<1>1. batches \in [Pushers -> [Invoices -> ItemState]]
  BY DEF TypeOK
<1>2. UNCHANGED batches \/ batches' = [batches EXCEPT ![p] = merged]
  BY DEF MergeBatch, MergeItems
<1>3. \A i \in Invoices : result[t][i] = "none" => merged[i] = batches[p][i]
  OBVIOUS
<1> HIDE DEF p, merged
<1>4. CASE UNCHANGED batches
  BY <1>4 DEF p
<1>5. CASE batches' = [batches EXCEPT ![p] = merged]
  <2>1. p \in Pushers
    BY DEF p
  <2> QED
    BY <1>1, <1>3, <1>5, <2>1 DEF p
<1> QED
  BY <1>2, <1>4, <1>5

\* A push writes its own batch only.
LEMMA CreateKeeps ==
  ASSUME TypeOK, NEW p \in Pushers, CreateBatch(p)
  PROVE  \A q \in Pushers \ {p} : batches'[q] = batches[q]
<1>1. CASE UNCHANGED batches
  BY <1>1
<1>2. CASE StoreItems(p)
  BY <1>2 DEF StoreItems, TypeOK
<1> QED
  BY <1>1, <1>2 DEF CreateBatch

LEMMA ItemInit == Init => ItemInv
  BY RequestKinds
     DEF Init, ItemInv, CallOnlyInLoop, NoBatchYet, RetriesFailures, RetriesBatch

LEMMA ItemNext ==
  AgreementInv /\ WinnerInv /\ ItemInv /\ [Next]_vars => ItemInv'
<1> SUFFICES ASSUME AgreementInv, WinnerInv, ItemInv, [Next]_vars PROVE ItemInv'
  OBVIOUS
<1>t. /\ TypeInv /\ TypeOK /\ TypeOK' /\ NoResultYet
      /\ CallOnlyInLoop /\ NoBatchYet /\ RetriesFailures /\ RetriesBatch
  BY AgreementNext DEF AgreementInv, TypeInv, WinnerInv, ItemInv
<1> USE RequestKinds
\* A request enters another phase, and not its loop.
<1>1. ASSUME NEW r \in Requests, NEW phase \in Phases \ {"idle", "loop"}, Goto(r, phase),
             r \in Exporters => call[r] = NoCall,
             \A q \in Requests \ {r} : todo'[q] = todo[q],
             \A t \in Retriers \ {r} : source'[t] = source[t],
             phase = "queued" /\ r \in Retriers => source'[r] \in Pushers,
             UNCHANGED <<call, batches, result>>
      PROVE  ItemInv'
  <2>1. pc'[r] = phase /\ \A q \in Requests \ {r} : pc'[q] = pc[q]
    BY <1>1, <1>t DEF Goto, TypeOK
  <2>2. CallOnlyInLoop' /\ NoBatchYet'
    BY <1>1, <2>1, <1>t DEF CallOnlyInLoop, NoBatchYet
  <2>3. RetriesFailures' /\ RetriesBatch'
    BY <1>1, <2>1, <1>t DEF RetriesFailures, TakenOn, RetriesBatch
  <2> QED
    BY <2>2, <2>3 DEF ItemInv
\* A request takes nothing else on in its loop.
<1>2. ASSUME UNCHANGED <<pc, batches, source>>,
             \A r \in Exporters : call'[r] = call[r] \/ pc[r] = "loop",
             \A t \in Retriers : TakenOn(t)' \subseteq TakenOn(t)
      PROVE  ItemInv'
  <2>1. CallOnlyInLoop' /\ NoBatchYet'
    BY <1>2, <1>t DEF CallOnlyInLoop, NoBatchYet
  <2>2. RetriesFailures' /\ RetriesBatch'
    BY <1>2, <1>t DEF RetriesFailures, RetriesBatch
  <2> QED
    BY <2>1, <2>2 DEF ItemInv
<1>3. ASSUME NEW r \in Exporters, pc[r] = "loop", UNCHANGED <<pc, batches, source>>,
             \A q \in Exporters \ {r} :
               call'[q] = call[q] /\ todo'[q] = todo[q] /\ result'[q] = result[q],
             r \in Retriers => TakenOn(r)' \subseteq TakenOn(r)
      PROVE  ItemInv'
  <2>1. \A t \in Retriers : TakenOn(t)' \subseteq TakenOn(t)
    BY <1>3 DEF TakenOn
  <2> QED
    BY <1>3, <2>1, <1>2
<1>4. CASE Arrival
  <2>1. ASSUME NEW p \in Pushers, PushStart(p) PROVE ItemInv'
    <3>1. /\ pc[p] = "idle" /\ pc'[p] = "loop"
          /\ \A q \in Requests \ {p} : pc'[q] = pc[q] /\ todo'[q] = todo[q]
          /\ UNCHANGED <<call, batches, result, source>>
      BY <2>1, <1>t DEF PushStart, Goto, TypeOK
    <3>2. CallOnlyInLoop' /\ NoBatchYet'
      BY <3>1, <1>t DEF CallOnlyInLoop, NoBatchYet
    <3>3. RetriesFailures' /\ RetriesBatch'
      BY <3>1, <1>t DEF RetriesFailures, TakenOn, RetriesBatch
    <3> QED
      BY <3>2, <3>3 DEF ItemInv
  <2>2. ASSUME NEW t \in Retriers, RetryRequest(t) PROVE ItemInv'
    <3>1. call[t] = NoCall
      BY <2>2, <1>t DEF RetryRequest, CallOnlyInLoop
    <3>2. \A u \in Retriers \ {t} : source'[u] = source[u]
      BY <2>2, <1>t DEF RetryRequest, TypeOK
    <3>3. source'[t] \in Pushers
      BY <2>2, <1>t DEF RetryRequest, TypeOK
    <3> QED
      BY <2>2, <3>1, <3>2, <3>3, <1>1, PhaseNames DEF RetryRequest
  <2>3. ASSUME NEW f \in FileWriters, FileStart(f) PROVE ItemInv'
    <3>1. /\ UNCHANGED <<call, batches, result, source>>
          /\ \A q \in Exporters : pc'[q] = pc[q] /\ todo'[q] = todo[q]
      BY <2>3, <1>t DEF FileStart, Goto, TypeOK
    <3>2. /\ CallOnlyInLoop' /\ NoBatchYet'
          /\ RetriesFailures' /\ RetriesBatch'
      BY <3>1, <1>t DEF CallOnlyInLoop, NoBatchYet, RetriesFailures, TakenOn, RetriesBatch
    <3> QED
      BY <3>2 DEF ItemInv
  <2> QED
    BY <1>4, <2>1, <2>2, <2>3 DEF Arrival
<1>5. ASSUME NEW t \in Retriers, RetryStart(t) PROVE ItemInv'
  <2>1. PICK targets \in SUBSET FailureItems(t) : todo' = [todo EXCEPT ![t] = targets]
    BY <1>5 DEF RetryStart
  <2>2. /\ pc[t] = "queued" /\ pc'[t] = "loop" /\ todo'[t] = targets
        /\ \A q \in Requests \ {t} : pc'[q] = pc[q] /\ todo'[q] = todo[q]
        /\ UNCHANGED <<call, batches, result, source>>
    BY <1>5, <2>1, <1>t DEF RetryStart, FirstInQueue, Goto, TypeOK
  <2>3. CallOnlyInLoop' /\ NoBatchYet'
    BY <2>2, <1>t DEF CallOnlyInLoop, NoBatchYet
  <2>4. call[t] = NoCall /\ \A i \in Invoices : result[t][i] = "none"
    BY <2>2, <1>t DEF CallOnlyInLoop, NoResultYet
  <2>5. TakenOn(t)' \subseteq FailureItems(t)
    BY <2>2, <2>4, RequestsAssumption DEF TakenOn, NoCall
  <2>6. RetriesFailures'
    BY <2>2, <2>5, <1>t DEF RetriesFailures, TakenOn, FailureItems
  <2>7. RetriesBatch'
    BY <2>2, <1>t DEF RetriesBatch
  <2> QED
    BY <2>3, <2>6, <2>7 DEF ItemInv
<1>6. ASSUME NEW r \in Exporters, NEW i \in Invoices,
             Refuse(r, i) \/ StageConflict(r, i) \/ Stage(r, i)
      PROVE  ItemInv'
  <2>1. /\ pc[r] = "loop" /\ i \in todo[r] /\ UNCHANGED <<pc, batches, source>>
        /\ todo' = [todo EXCEPT ![r] = @ \ {i}]
    BY <1>6 DEF Refuse, StageConflict, Stage, Decided, Looping
  <2>2. \/ UNCHANGED result
        \/ result' = [result EXCEPT ![r][i] = "error"]
    BY <1>6 DEF Refuse, StageConflict, Stage, Report
  <2>3. \/ UNCHANGED call
        \/ call' = [call EXCEPT ![r] = [invoice |-> i, state |-> "sent", attempt |-> 1]]
    BY <1>6 DEF Refuse, StageConflict, Stage
  <2>t. /\ call \in [Exporters -> Calls] /\ r \in Requests
        /\ \A q \in Requests : todo[q] \subseteq Invoices
        /\ DOMAIN todo = Requests /\ DOMAIN result = Exporters
        /\ DOMAIN result[r] = Invoices
    BY <1>t DEF TypeOK, Exporters, Requests
  <2>4. \A q \in Exporters \ {r} :
          call'[q] = call[q] /\ todo'[q] = todo[q] /\ result'[q] = result[q]
    <3>1. Exporters \subseteq Requests
      BY DEF Exporters, Requests
    <3>2. \A q \in Exporters \ {r} : todo'[q] = todo[q]
      BY <2>1, <2>t, <3>1
    <3>3. \A q \in Exporters \ {r} : call'[q] = call[q]
      BY <2>3, <2>t
    <3>4. \A q \in Exporters \ {r} : result'[q] = result[q]
      BY <2>2, <2>t
    <3> QED
      BY <3>2, <3>3, <3>4
  <2>5. \A j \in Invoices : result'[r][j] = result[r][j] \/ j = i
    BY <2>2, <2>t
  <2>6. call'[r].invoice \in {call[r].invoice, i}
    BY <2>3, <2>t
  <2>7. TakenOn(r)' \subseteq TakenOn(r)
    <3>1. todo'[r] = todo[r] \ {i}
      BY <2>1, <2>t
    <3> QED
      BY <2>1, <2>5, <2>6, <3>1 DEF TakenOn
  <2> QED
    BY <2>1, <2>4, <2>7, <1>3
<1>7. ASSUME NEW r \in Exporters, pc[r] = "loop", UNCHANGED <<pc, todo, batches, source>>,
             \A q \in Exporters \ {r} : call'[q] = call[q] /\ result'[q] = result[q],
             \A j \in Invoices : result'[r][j] = result[r][j] \/ j = call[r].invoice,
             call'[r].invoice \in {call[r].invoice, NoInvoice}
      PROVE  ItemInv'
  <2>1. TakenOn(r)' \subseteq TakenOn(r)
    BY <1>7, RequestsAssumption DEF TakenOn
  <2> QED
    BY <1>7, <2>1, <1>3
<1>8. ASSUME NEW r \in Exporters, pc[r] = "loop", UNCHANGED <<pc, todo, batches, source>>,
             HangUp(r),
             NEW o \in Outcomes, Report(r, call[r].invoice, o)
      PROVE  ItemInv'
  BY <1>7, <1>8, <1>t DEF HangUp, Report, NoCall, TypeOK
<1>9. ASSUME NEW r \in Exporters, LineError(r) \/ PostFails(r) \/ Promote(r)
      PROVE  ItemInv'
  <2>1. pc[r] = "loop" /\ UNCHANGED <<pc, todo, batches, source>> /\ HangUp(r)
    BY <1>9 DEF LineError, PostFails, Promote, Waiting
  <2>2. \E o \in Outcomes : Report(r, call[r].invoice, o)
    BY <1>9 DEF LineError, PostFails, Promote, Outcomes
  <2> QED
    BY <2>1, <2>2, <1>8
<1>10. ASSUME NEW r \in Exporters, TallyImport(r) \/ Resend(r) PROVE ItemInv'
  <2>1. pc[r] = "loop" /\ UNCHANGED <<pc, todo, batches, source, result>>
    BY <1>10 DEF TallyImport, Resend, Waiting
  <2>2. call[r] \in [invoice : Invoices, state : {"sent", "imported", "refused"},
                     attempt : 1..2]
    BY <1>10, <1>t, WaitingCall DEF TallyImport, Resend
  <2>3. \/ \E s \in {"imported", "refused"} : call' = [call EXCEPT ![r].state = s]
        \/ call' = [call EXCEPT ![r].state = "sent", ![r].attempt = 2]
    BY <1>10 DEF TallyImport, Resend
  <2>4. /\ \A q \in Exporters \ {r} : call'[q] = call[q]
        /\ call'[r].invoice = call[r].invoice
    BY <2>2, <2>3, <1>t DEF TypeOK
  <2> QED
    BY <2>1, <2>4, <1>7
<1>11. ASSUME NEW r \in Exporters, ExportStep(r) PROVE ItemInv'
  BY <1>11, <1>6, <1>9, <1>10 DEF ExportStep
<1>12. ASSUME NEW r \in Requests, MarkStep(r) PROVE ItemInv'
  <2>1. ASSUME NEW i \in Invoices, MarkExported(r, i) PROVE ItemInv'
    <3>1. \A q \in Requests : todo'[q] \subseteq todo[q]
      BY <2>1, <1>t DEF MarkExported, TypeOK
    <3>2. \A t \in Retriers : TakenOn(t)' \subseteq TakenOn(t)
      BY <2>1, <3>1 DEF MarkExported, TakenOn
    <3> QED
      BY <2>1, <3>2, <1>2 DEF MarkExported
  <2>2. CASE Finish(r)
    <3>1. r \in Exporters => call[r] = NoCall
      BY <2>2, <1>t DEF Finish, CallOnlyInLoop
    <3> QED
      BY <2>2, <3>1, <1>1, PhaseNames DEF Finish, Settle
  <2> QED
    BY <1>12, <2>1, <2>2 DEF MarkStep
<1>13. ASSUME NEW p \in Pushers, PushStep(p) PROVE ItemInv'
  <2>1. CASE CreateBatch(p)
    <3>1. /\ pc[p] = "loop" /\ call[p] = NoCall /\ pc'[p] \in {"mark", "rejected"}
          /\ \A q \in Requests \ {p} : pc'[q] = pc[q] /\ todo'[q] = todo[q]
          /\ UNCHANGED <<call, result, source>>
      BY <2>1, <1>t DEF CreateBatch, LoopEnded, Looping, Goto, TypeOK
    <3>2. \A q \in Pushers \ {p} : batches'[q] = batches[q]
      BY <2>1, <1>t, CreateKeeps
    <3>3. CallOnlyInLoop' /\ NoBatchYet'
      BY <3>1, <3>2, <1>t DEF CallOnlyInLoop, NoBatchYet
    <3>4. ASSUME NEW t \in Retriers, pc'[t] = "loop", NEW i \in TakenOn(t)'
          PROVE  batches'[source'[t]][i] = "failure"
      <4>1. t # p /\ pc[t] = "loop" /\ i \in TakenOn(t) /\ i \in Invoices
        BY <3>1, <3>4 DEF TakenOn
      <4>2. batches[source[t]][i] = "failure"
        BY <4>1, <1>t DEF RetriesFailures
      <4>3. source[t] # p
        BY <3>1, <4>1, <4>2, <1>t DEF NoBatchYet
      <4>4. source[t] \in Pushers
        BY <4>1, <1>t DEF RetriesBatch
      <4> QED
        BY <3>1, <3>2, <4>2, <4>3, <4>4
    <3>5. RetriesFailures' /\ RetriesBatch'
      BY <3>1, <3>4, <1>t DEF RetriesFailures, RetriesBatch
    <3> QED
      BY <3>3, <3>5 DEF ItemInv
  <2> QED
    BY <1>13, <2>1, <1>11, <1>12 DEF PushStep
<1>14. ASSUME NEW t \in Retriers, RetryStep(t) PROVE ItemInv'
  <2>1. CASE RetryNothing(t)
    <3>1. call[t] = NoCall
      BY <2>1, <1>t DEF RetryNothing, FirstInQueue, CallOnlyInLoop
    <3> QED
      BY <2>1, <3>1, <1>1, PhaseNames DEF RetryNothing, Settle
  <2>2. CASE MergeBatch(t)
    <3> DEFINE p == source[t]
    <3>1. /\ pc[t] = "loop" /\ pc'[t] \in {"mark", "rejected"} /\ call[t] = NoCall
          /\ \A q \in Requests \ {t} : pc'[q] = pc[q]
          /\ UNCHANGED <<call, result, source>>
      BY <2>2, <1>t DEF MergeBatch, LoopEnded, Looping, Settle, Goto, TypeOK
    <3>2. \A u \in Retriers : pc'[u] # "loop"
      BY <3>1, <1>t, ServedAlone
    <3>3. CallOnlyInLoop' /\ RetriesFailures' /\ RetriesBatch'
      BY <3>1, <3>2, <1>t DEF CallOnlyInLoop, RetriesFailures, RetriesBatch
    <3>4. p \in Pushers
      BY <3>1, <1>t DEF RetriesBatch
    <3>5. /\ \A q \in Pushers \ {p} : batches'[q] = batches[q]
          /\ \A i \in Invoices : result[t][i] = "none" => batches'[p][i] = batches[p][i]
      BY <2>2, <3>4, <1>t, MergeKeeps
    <3>6. ASSUME NEW i \in Invoices, pc[p] \in {"idle", "loop"}
          PROVE  result[t][i] = "none"
      <4>1. batches[p][i] # "failure"
        BY <3>4, <3>6, <1>t DEF NoBatchYet
      <4> QED
        BY <3>1, <3>6, <4>1, <1>t DEF RetriesFailures, TakenOn
    <3>7. NoBatchYet'
      <4>1. \A q \in Pushers : pc'[q] = pc[q]
        BY <3>1
      <4> QED
        BY <3>5, <3>6, <4>1, <1>t DEF NoBatchYet
    <3> QED
      BY <3>3, <3>7 DEF ItemInv
  <2> QED
    BY <1>14, <2>1, <2>2, <1>5, <1>11, <1>12 DEF RetryStep
<1>15. ASSUME NEW f \in FileWriters, FileStep(f) PROVE ItemInv'
  <2>1. CASE FileStore(f)
    <3>1. \A q \in Requests \ {f} : todo'[q] = todo[q]
      BY <2>1, <1>t DEF FileStore, TypeOK
    <3> QED
      BY <2>1, <3>1, <1>1, PhaseNames DEF FileStore
  <2> QED
    BY <1>15, <2>1, <1>12 DEF FileStep
<1>16. CASE Network
  <2>1. ASSUME NEW i \in Invoices, NEW v \in stray[i], TallyLate(i, v) PROVE ItemInv'
    BY <2>1, <1>2 DEF TallyLate, reqVars, TakenOn
  <2> QED
    BY <1>16, <2>1, <1>9, <1>10 DEF Network
<1>17. CASE Crash
  <2>1. /\ \A r \in Requests : pc'[r] \notin {"loop", "queued"}
        /\ \A r \in Requests : pc'[r] = "idle" => pc[r] = "idle"
        /\ \A r \in Exporters : call'[r] = NoCall
        /\ UNCHANGED batches
    BY <1>17 DEF Crash, Ended
  <2> QED
    BY <2>1, <1>t
       DEF ItemInv, CallOnlyInLoop, NoBatchYet, RetriesFailures, RetriesBatch
<1>18. CASE UNCHANGED vars
  BY <1>18, <1>2 DEF vars, reqVars, TakenOn
<1> QED
  BY <1>4, <1>13, <1>14, <1>15, <1>16, <1>17, <1>18 DEF Next, Quiet

\* No retry undoes an item's success.
THEOREM SuccessStays == Spec => SuccessItemsStay
<1> DEFINE Stays == \A p \in Pushers : \A i \in Invoices :
                      batches[p][i] = "success" => batches'[p][i] = "success"
<1>1. AgreementInv /\ ItemInv /\ [Next]_vars => [Stays]_vars
  <2> SUFFICES ASSUME AgreementInv, ItemInv, [Next]_vars PROVE Stays
    OBVIOUS
  <2>t. TypeOK /\ NoBatchYet /\ RetriesFailures /\ RetriesBatch
    BY DEF AgreementInv, TypeInv, ItemInv
  <2>1. CASE UNCHANGED batches
    BY <2>1
  <2>2. ASSUME NEW p \in Pushers, CreateBatch(p) PROVE Stays
    <3>1. \A q \in Pushers \ {p} : batches'[q] = batches[q]
      BY <2>2, <2>t, CreateKeeps
    <3>2. \A i \in Invoices : batches[p][i] = "none"
      BY <2>2, <2>t DEF CreateBatch, LoopEnded, Looping, NoBatchYet
    <3> QED
      BY <3>1, <3>2
  <2>3. ASSUME NEW t \in Retriers, MergeBatch(t) PROVE Stays
    <3> DEFINE p == source[t]
    <3>1. pc[t] = "loop" /\ p \in Pushers
      BY <2>3, <2>t DEF MergeBatch, LoopEnded, Looping, RetriesBatch
    <3>2. /\ \A q \in Pushers \ {p} : batches'[q] = batches[q]
          /\ \A i \in Invoices : result[t][i] = "none" => batches'[p][i] = batches[p][i]
      BY <2>3, <3>1, <2>t, MergeKeeps
    <3>3. \A i \in Invoices : result[t][i] # "none" => batches[p][i] = "failure"
      BY <3>1, <2>t DEF RetriesFailures, TakenOn
    <3> QED
      BY <3>2, <3>3
  <2> HIDE DEF Stays
  <2>4. ASSUME NEW r \in Requests, MarkStep(r) PROVE Stays
    BY <2>1, <2>4 DEF MarkStep, MarkExported, Finish
  <2>5. ASSUME NEW r \in Exporters, ExportStep(r) PROVE Stays
    BY <2>1, <2>5
       DEF ExportStep, Refuse, StageConflict, Stage, TallyImport, LineError, Promote
  <2>6. CASE Arrival \/ Network \/ Crash \/ UNCHANGED vars
    BY <2>1, <2>6
       DEF Arrival, PushStart, RetryRequest, FileStart, Network, Resend, PostFails,
           TallyLate, Crash, vars
  <2>7. ASSUME NEW f \in FileWriters, FileStore(f) PROVE Stays
    BY <2>1, <2>7 DEF FileStore
  <2>8. ASSUME NEW t \in Retriers, RetryStart(t) \/ RetryNothing(t) PROVE Stays
    BY <2>1, <2>8 DEF RetryStart, RetryNothing
  <2> QED
    BY <2>2, <2>3, <2>4, <2>5, <2>6, <2>7, <2>8, RequestKinds
       DEF Next, PushStep, RetryStep, FileStep, Quiet
<1> HIDE DEF Stays
<1>2. Spec => [][Stays]_vars
  BY <1>1, AgreementInit, AgreementNext, WinnerInit, WinnerNext, ItemInit, ItemNext, PTL
     DEF Spec
<1> QED
  BY <1>2 DEF Stays, SuccessItemsStay

=============================================================================
