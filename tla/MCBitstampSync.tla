---------------------------- MODULE MCBitstampSync -------------------
(* Small instances of the Bitstamp adapter's synchronisation for TLC: a market *)
(* that opens with one level on each side and a free price between them.  *)
EXTENDS BitstampSync

NarrowOpening == {{[side |-> "bid", price |-> 1], [side |-> "ask", price |-> 3]}}
=============================================================================
