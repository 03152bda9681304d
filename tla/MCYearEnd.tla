------------------------------ MODULE MCYearEnd ------------------------------
(* Small instances of YearEnd: one revenue account, cash, retained earnings. *)
EXTENDS YearEnd, TLC

MCAccounts == {"cash", "sales", "retained"}

Of(cash, sales) ==
    [a \in MCAccounts |-> CASE a = "cash" -> cash [] a = "sales" -> sales [] OTHER -> 0]

Sale == [raw |-> Of(1, -1), base |-> Of(1, -1)]

\* The lines of a request that does not balance.
Unbalanced == [raw |-> Of(2, -1), base |-> Of(2, -1)]

\* One unit of a foreign currency, at rate 2, received for a sale in the base
\* currency.
ForeignSale == [raw |-> Of(1, -2), base |-> Of(2, -2)]

MCSales    == {Sale}
MCRequests == {Unbalanced, ForeignSale}

MCNoLinks == {NoLink}

\* A client may link an entry to the first year, as a carry-forward of it, or
\* to the first entry, as its reversal.
MCCarryForwardLinks == {NoLink, CarryForwardOf(1)}
MCReversalLinks     == {NoLink, [source |-> "VOID", of |-> 1]}

MCSymmetry == Permutations(Handlers) \union Permutations(Officers)
=============================================================================
