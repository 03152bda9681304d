----------------------- MODULE MCPaymentTransactions -----------------------
(* Small instances of PaymentTransactions. *)
EXTENDS PaymentTransactions

MCTotal     == [i \in Invoices |-> 2]
MCUnitTotal == [i \in Invoices |-> 1]

\* Payments, transactions and invoices of one total are told apart by nothing
\* but their identity.
MCSymmetry == Permutations(Payments) \union Permutations(Tx) \union Permutations(Invoices)
=============================================================================
