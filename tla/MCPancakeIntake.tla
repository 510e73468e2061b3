---------------------------- MODULE MCPancakeIntake ----------------------------
\* Two deliveries of one order; the second moves it from its ad to the unmatched
\* orders.
EXTENDS PancakeIntake

CONSTANTS first, second, ad, unmatched

VersionOfDelivery == [d \in Deliveries |-> IF d = first THEN 1 ELSE 2]
PlaceOfVersion == [v \in {1, 2} |-> IF v = 1 THEN ad ELSE unmatched]
=============================================================================
