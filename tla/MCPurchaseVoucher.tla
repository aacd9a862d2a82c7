------------------------- MODULE MCPurchaseVoucher -------------------------
EXTENDS PurchaseVoucher, TLC

\* A total and its parts to the unit, one unit off, and wrong; a total of
\* another order; invoices without a total.
MCTotals    == {Absent, 300, 1180}
MCSubtotals == {Absent, 0, 250, 999, 1000}
MCGstTaxes  == {0, 180}
\* A negative correction, an ordinary tax, a catch-up beyond the total.
MCTds       == {-5, 100, 2000}

Symmetric == Permutations(Workers)
=============================================================================
