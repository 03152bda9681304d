---------------------------- MODULE MCPeriodClose ----------------------------
(* Small instances of PeriodClose. *)
EXTENDS PeriodClose, TLC

MCSymmetry == Permutations(Officers)
=============================================================================
