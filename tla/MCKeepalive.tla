---------------------------- MODULE MCKeepalive -----------------------------
(* A small instance of the clocks for TLC: an interval of two ticks, so that *)
(* a pong can be early or late in it, and a silence of three, which falls    *)
(* before, on and after the ping.                                            *)
EXTENDS Keepalive

AllExchanges == {"okx", "kraken", "bitstamp", "bitvavo"}
=============================================================================
