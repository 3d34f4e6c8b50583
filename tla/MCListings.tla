----------------------------- MODULE MCListings -----------------------------
(* Lists of up to Rows rows in pages of two, under a filter that selects   *)
(* all and one that selects some.                                          *)
EXTENDS Listings

MCFilters == {"all", "some"}
MCMatching == [f \in MCFilters |-> IF f = "all" THEN 1..Rows ELSE {r \in 1..Rows : r % 2 = 1}]
=============================================================================
