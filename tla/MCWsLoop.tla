------------------------------- MODULE MCWsLoop -------------------------------
(***************************************************************************)
(* Instances of WsLoop for TLC.                                            *)
(***************************************************************************)
EXTENDS WsLoopProperties

NoBudget == 0       \* max_attempts = None
TwoAttempts == 2
OneSwap == 2        \* Root and one replacement
TwoSwaps == 3       \* Root forks on two of its connections
===============================================================================
