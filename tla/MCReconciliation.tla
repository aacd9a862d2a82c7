-------------------------- MODULE MCReconciliation --------------------------
(* Two debits and two invoices. With tax collected at 1 percent, t1 is       *)
(* exactly what is due on i1, and t2 on i2 once its tax is deducted; each is *)
(* also close to the other's, so that the scores decide. At ten percent tax  *)
(* deducted (MCTenPercent) i2's total is out of the range of the debits.     *)
EXTENDS Reconciliation, TLC

CONSTANTS t1, t2, i1, i2, w1, w2

MCDebit == (t1 :> 101) @@ (t2 :> 104)
MCTotal == (i1 :> 100) @@ (i2 :> 106)
MCTax   == (i1 :> 0) @@ (i2 :> 3)
MCTotalTenPercent == (i1 :> 100) @@ (i2 :> 115)
MCTenPercent      == (i1 :> 0) @@ (i2 :> 12)
MCFits  ==
  (t1 :> ((i1 :> [number |-> FALSE, name |-> "none", days |-> 40])
            @@ (i2 :> [number |-> TRUE, name |-> "none", days |-> 5])))
  @@
  (t2 :> ((i1 :> [number |-> FALSE, name |-> "letters", days |-> 20])
            @@ (i2 :> [number |-> FALSE, name |-> "word", days |-> 1])))

WorkersAlike == Permutations(Workers)
=============================================================================
