---------------------------- MODULE MCGuardedBook ---------------------------
(* Small instances of the guarded order book for TLC: a market that opens  *)
(* with one level on each side and a free price between them.              *)
EXTENDS GuardedBook

NarrowOpening == {{[side |-> "bid", price |-> 1], [side |-> "ask", price |-> 3]}}
=============================================================================
