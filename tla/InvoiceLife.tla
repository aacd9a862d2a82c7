----------------------------- MODULE InvoiceLife -----------------------------
(***************************************************************************)
(* What the approval workflow makes of an invoice's life, without requests, *)
(* users, configurations or versions: review, approval with or without a    *)
(* workflow, export, and the ways back. A vote is an approval or rejection  *)
(* of contents. Every invoice lives its own life.                           *)
(***************************************************************************)
CONSTANTS Invoices, Fields, Complete

VARIABLE life  \* status, contents, workflow and votes of each invoice

Open == {"PARSED", "NEEDS_REVIEW"}

Fresh(s, f) == [status |-> s, fields |-> f, flow |-> "none", votes |-> {}]

Init == life \in [Invoices -> {Fresh("NEEDS_REVIEW", f) : f \in Fields}
                              \cup {Fresh("PARSED", f) : f \in Complete}]

Is(i, statuses)  == life[i].status \in statuses
Waits(i)         == Is(i, {"AWAITING_APPROVAL"}) /\ life[i].flow = "in_progress"
Becomes(i, d)    == life'[i] = d
With(i, action)  == life[i].votes \cup {[action |-> action,
                                         seen |-> life[i].fields]}

\* Approved without a workflow, exported, deleted: nothing else changes.
Approve(i) == Is(i, Open) /\ Becomes(i, [life[i] EXCEPT !.status = "APPROVED"])
Export(i)  == /\ Is(i, {"APPROVED"})
              /\ Becomes(i, [life[i] EXCEPT !.status = "EXPORTED"])
Remove(i)  == /\ ~Is(i, {"EXPORTED"})
              /\ Becomes(i, [life[i] EXCEPT !.status = "DELETED"])

\* An invoice in review enters a workflow, with no vote from an earlier one.
Enter(i) ==
  /\ Is(i, Open)
  /\ Becomes(i, [life[i] EXCEPT !.status = "AWAITING_APPROVAL",
                                !.flow = "in_progress", !.votes = {}])

\* It is voted on while it waits: the workflow goes on, approves it, or ends.
Endorse(i) ==
  /\ Waits(i)
  /\ Becomes(i, [life[i] EXCEPT !.votes = With(i, "approved")])
Pass(i) ==
  /\ Waits(i)
  /\ Becomes(i, [life[i] EXCEPT !.votes = With(i, "approved"),
                                !.status = "APPROVED", !.flow = "approved"])
TurnDown(i) ==
  /\ Waits(i)
  /\ Becomes(i, [life[i] EXCEPT !.votes = With(i, "rejected"),
                                !.status = "NEEDS_REVIEW",
                                !.flow = "rejected"])

\* It is taken out of the workflow, votes and all, by an edit or because the
\* workflow is.
Withdraw(i) ==
  /\ Is(i, {"AWAITING_APPROVAL"})
  /\ \E f \in Fields : Becomes(i, Fresh("NEEDS_REVIEW", f))

\* An edit outside a workflow: what was approved stays so, whatever it is now.
Reviewed(f) == IF f \in Complete THEN "PARSED" ELSE "NEEDS_REVIEW"
Correct(i) ==
  \E f \in Fields :
    \/ /\ Is(i, {"APPROVED"})
       /\ Becomes(i, [life[i] EXCEPT !.fields = f])
    \/ /\ Is(i, Open)
       /\ Becomes(i, [life[i] EXCEPT !.fields = f, !.status = Reviewed(f)])

Lives(i) ==
  \/ Approve(i) \/ Export(i) \/ Remove(i) \/ Enter(i) \/ Endorse(i)
  \/ Pass(i) \/ TurnDown(i) \/ Withdraw(i) \/ Correct(i)

Next == /\ DOMAIN life' = Invoices
        /\ \A i \in Invoices : Becomes(i, life[i]) \/ Lives(i)

Spec == Init /\ [][Next]_life
=============================================================================
