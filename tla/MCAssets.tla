------------------------------ MODULE MCAssets ------------------------------
(* One asset whose rate rounds up, and two clerks. *)
EXTENDS Assets

Plan(method, life, residual) == [method |-> method, life |-> life, residual |-> residual]

MCPlans ==
    {Plan("STRAIGHT_LINE", 2, 0), Plan("STRAIGHT_LINE", 2, 2), Plan("DECLINING_BALANCE", 12, 0)}
=============================================================================
