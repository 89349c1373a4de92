------------------------------ MODULE MCTrade ------------------------------
(* A bounded instance of Trade: one sale and one purchase of one product.  *)
EXTENDS Trade, TLC

CONSTANT product

OneProduct == {product}
ImportedQuantities == {-1, 1}
OneEach == {[p \in OneProduct |-> 1]}
Symmetry == Permutations(Requests) \cup Permutations(Rows)
=============================================================================
