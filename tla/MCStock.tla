------------------------------ MODULE MCStock ------------------------------
(* Two products in two warehouses, and an order for both of them. *)
EXTENDS Stock, TLC

CONSTANTS p1, p2

MCSymmetry == Permutations(Clerks)

MCOpening == (p1 :> 8000) @@ (p2 :> 4000)

MCNeeds == {(p1 :> 4000) @@ (p2 :> 4000), (p1 :> 0) @@ (p2 :> 2000)}
=============================================================================
