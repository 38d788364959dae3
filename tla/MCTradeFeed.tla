---------------------------- MODULE MCTradeFeed -----------------------------
(* A root and its replacement on each exchange, messages of up to two       *)
(* trades, two lost connections and one refused subscription.               *)
EXTENDS TradeFeed

\* An odd trade: one without price and side, and one whose numbers are text
\* that is no number or of the wrong type.
Quote(price, size, side) == [price |-> price, size |-> size, side |-> side]

SomeQuotes == {Quote(Absent, 10, NoText), Quote(Unreadable, Malformed, "sell")}

AllExchanges == {"okx", "kraken", "bitstamp", "bitvavo"}
=============================================================================
