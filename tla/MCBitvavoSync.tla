---------------------------- MODULE MCBitvavoSync --------------------
(* Small instances of the Bitvavo adapter's synchronisation for TLC: a market *)
(* that opens with one level on each side and a free price between them.  *)
EXTENDS BitvavoSync

NarrowOpening == {{[side |-> "bid", price |-> 1], [side |-> "ask", price |-> 3]}}
=============================================================================
