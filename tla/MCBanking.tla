----------------------------- MODULE MCBanking -----------------------------
(* A small instance of Banking. *)
EXTENDS Banking

CONSTANTS l1, l2, x1, k1, k2

\* One transaction in two files, corrected to zero in the second one.
MCFiles      == (SUBSET Lines) \ {{}}
MCLineRef    == [l \in Lines |-> x1]
MCLineKey    == l1 :> k1 @@ l2 :> k2
MCLineType   == [l \in Lines |-> "MADE"]
MCLineAmount == l1 :> 1 @@ l2 :> 0
MCTotal      == [i \in Invoices |-> 1]

MCSymmetry == Permutations(Payments) \union Permutations(BankRows)
=============================================================================
