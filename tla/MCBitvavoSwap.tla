---------------------------- MODULE MCBitvavoSwap ---------------------------
(* A small instance of a Bitvavo channel with a replacement for TLC: a market *)
(* that opens with one level on each side and a free price between them.  *)
EXTENDS BitvavoSwap

NarrowOpening == {{[side |-> "bid", price |-> 1], [side |-> "ask", price |-> 3]}}
=============================================================================
