------------------------------ MODULE Replica -------------------------------
(***************************************************************************)
(* What an order-book stream promises its consumer, without saying how: an *)
(* item is the exchange's book at some moment, and the moments never go    *)
(* backwards.  Nothing is promised about how many moments are skipped.     *)
(***************************************************************************)
EXTENDS Naturals, Sequences

VARIABLES truth,    \* the exchange's books, in order
          view,     \* the last item the consumer was given
          viewAt    \* the moment of that item; 0 before the first

Show == /\ \E n \in 1..Len(truth) : /\ viewAt <= n
                                    /\ view' = truth[n]
                                    /\ viewAt' = n
        /\ UNCHANGED truth

Change == /\ truth' # truth
          /\ Len(truth') = Len(truth) + 1
          /\ SubSeq(truth', 1, Len(truth)) = truth
          /\ UNCHANGED <<view, viewAt>>

Next == Show \/ Change
=============================================================================
