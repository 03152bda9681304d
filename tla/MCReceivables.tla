---------------------------- MODULE MCReceivables ----------------------------
(* Small instances of Receivables. *)
EXTENDS Receivables

MCTotal    == [i \in Invoices |-> 2]
MCSymmetry == Permutations(Payments)
=============================================================================
