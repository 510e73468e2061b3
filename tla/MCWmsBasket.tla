------------------------------ MODULE MCWmsBasket ------------------------------
(* Instances of WmsBasket for TLC. *)
EXTENDS WmsBasket, TLC

CONSTANTS u1, u2, k1, k2, k3, b1, b2, n1, n2, o1, o2, r1, r2

QtyOne == [o \in Orders |-> 1]
QtyOneTwo == [o \in Orders |-> IF o = o1 THEN 1 ELSE 2]

\* Supervisors are told apart from other users, orders by their quantity.
Shelf == Permutations(Units) \cup Permutations(Bins) \cup Permutations(Baskets)
            \cup Permutations(Requests)
ShelfAndOrders == Shelf \cup Permutations(Orders)
Everyone == ShelfAndOrders \cup Permutations(Users)
=============================================================================
