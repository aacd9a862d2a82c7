--------------------------- MODULE VoucherAgreement ---------------------------
(***************************************************************************)
(* What the export promises about one invoice's voucher, without requests, *)
(* stages, calls or failures: Tally imports the version after the recorded *)
(* one, and a version is recorded after Tally has imported it. Between the *)
(* two the database is one version behind, never ahead.                    *)
(***************************************************************************)
EXTENDS Integers

CONSTANT Invoices

VARIABLES
  recorded,  \* the version the database has for each invoice
  imported   \* the versions of each invoice Tally has imported

vars == <<recorded, imported>>

Init ==
  /\ recorded = [i \in Invoices |-> 0]
  /\ imported = [i \in Invoices |-> {}]

Import(i) ==
  /\ imported' = [imported EXCEPT ![i] = @ \cup {recorded[i] + 1}]
  /\ UNCHANGED recorded

Record(i) ==
  /\ recorded[i] + 1 \in imported[i]
  /\ recorded' = [recorded EXCEPT ![i] = @ + 1]
  /\ UNCHANGED imported

Next == \E i \in Invoices : Import(i) \/ Record(i)

Spec == Init /\ [][Next]_vars
=============================================================================
