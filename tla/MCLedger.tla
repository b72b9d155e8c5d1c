------------------------------ MODULE MCLedger ------------------------------
\* Two callers and two keys.  The postings: five dollars from a to b, the same
\* legs the other way round (one hash), quetzales (another hash, and a second
\* set of books to balance), one whose dollars are cancelled by quetzales
\* (refused before it is opened), and one that claims a currency its account
\* does not hold (refused by the foreign key).
EXTENDS Balances, TLC

CONSTANTS c1, c2, k1, k2

L(a, d, n, cur) == [account |-> a, direction |-> d, amount |-> n, currency |-> cur]

MCType     == [a |-> "asset", b |-> "liability", q |-> "asset", p |-> "equity"]
MCAccount  == DOMAIN MCType
MCCurrency == [x \in MCAccount |-> IF x \in {"q", "p"} THEN "GTQ" ELSE "USD"]

transfer == <<L("a", "debit", 5, "USD"), L("b", "credit", 5, "USD")>>
crossed  == <<L("a", "debit", 5, "USD"), L("q", "credit", 5, "GTQ")>>
foreign  == <<L("a", "debit", 5, "GTQ"), L("q", "credit", 5, "GTQ")>>
opening  == <<L("q", "debit", 5, "GTQ"), L("p", "credit", 5, "GTQ")>>

MCRequest == {transfer, Reverse(transfer), opening, crossed, foreign}
MCCaller  == {c1, c2}
MCKey     == {k1, k2}
MCSymmetry == Permutations(MCCaller) \cup Permutations(MCKey)
=============================================================================
