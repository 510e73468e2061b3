----------------------------- MODULE MCWmsDispatch -----------------------------
\* Orders of different sizes, so that only units and requests are symmetric.
EXTENDS WmsDispatch, TLC

CONSTANTS a, b, k1, k2, r1, r2

TwoAndOne == (a :> 2) @@ (b :> 1)

\* How an order of Pancake moves: on its way out, and back, or canceled.
PancakeSteps == {<<"open", "shipped">>, <<"shipped", "returning">>,
                 <<"returning", "returned">>, <<"open", "canceled">>}

Same == Permutations({k1, k2}) \cup Permutations({r1, r2})

\* The states after a late write to b are checked, and not followed further.
LateOnlyA == late \subseteq {a}
=============================================================================
