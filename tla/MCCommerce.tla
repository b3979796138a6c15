----------------------------- MODULE MCCommerce -----------------------------
(* Instances of Commerce for TLC. *)
EXTENDS CommerceLedger, FiniteSets, TLC

CONSTANTS c1, c2, v1, v2, p1, p2, d1, d2, o1, o2

Line1(p, q) == [product |-> p, quantity |-> q]

MCVendorOf == [p \in Product |-> v1]
TwoVendorOf == [p \in Product |-> IF p = p1 THEN v1 ELSE v2]
MCTag == [p \in Product |-> [price |-> 20, courier |-> 1]]
NoTags == {}
NewTags == {[price |-> 9, courier |-> 0]}
MCRate == [v \in Vendor |-> 12]
TwoRate == [v \in Vendor |-> IF v = v1 THEN 12 ELSE 0]
MCStock == [p \in Product |-> 2]
\* The same product before and after one of another vendor.
TwoProductPayloads == {<<Line1(p1, 1), Line1(p2, 1), Line1(p1, 1)>>}

\* A single line, and the same product on two lines.
OneLinePayloads == {<<Line1(p1, 1)>>, <<Line1(p1, 1), Line1(p1, 1)>>}
Symmetric == Permutations(Customer) \cup Permutations(Deal)
               \cup Permutations(Order)
=============================================================================
