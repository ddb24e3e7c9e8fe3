----------------------------- MODULE PriceBook -----------------------------
(***************************************************************************)
(* What one side of an order book promises: a quantity for each quoted     *)
(* price.  An update sets or withdraws the quote of its own price and      *)
(* touches no other.                                                       *)
(***************************************************************************)
EXTENDS Integers

CONSTANTS Prices, Quantities

VARIABLE quotes   \* a function from the quoted prices to their quantities

NoQuotes == [p \in {} |-> 0]

WithQuote(p, q) == [x \in DOMAIN quotes \cup {p} |-> IF x = p THEN q ELSE quotes[x]]

WithoutQuote(p) == [x \in DOMAIN quotes \ {p} |-> quotes[x]]

Init == quotes = NoQuotes

\* p is quoted with quantity q from now on.
Quote(p, q) == quotes' = WithQuote(p, q)

\* The quote of p is withdrawn.
Withdraw(p) == p \in DOMAIN quotes /\ quotes' = WithoutQuote(p)

Next == \E p \in Prices : Withdraw(p) \/ \E q \in Quantities : Quote(p, q)

Spec == Init /\ [][Next]_quotes
=============================================================================
