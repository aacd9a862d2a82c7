---------------------------- MODULE MCTdsLedger ----------------------------
(* Instances of TdsLedger: small amounts, so that halves must be rounded.  *)
EXTENDS TdsLedger, TLC

CONSTANTS i1, i2, i3, v1, v2, h1, w1, w2

MCBase      == (i1 :> 1) @@ (i2 :> 2) @@ (i3 :> 0)
MCRateBps   == (h1 :> 5000)
MCAnnual    == (h1 :> 2)
MCSingle    == (h1 :> 0)
MCVendorOf  == (i1 :> v1) @@ (i2 :> v2) @@ (i3 :> v1)
MCOneVendor == [i \in Invoices |-> v1]

WorkersAlike == Permutations(Workers)
=============================================================================
