---------------------------- MODULE MCStockRequest ----------------------------
\* A request of two lines.
EXTENDS StockRequest, TLC

CONSTANTS shirt, cap, u1, u2

Users == Permutations({u1, u2})

Quantity == (shirt :> 1) @@ (cap :> 1)
=============================================================================
