----------------------------- MODULE MCAdapters -----------------------------
(* A small market for the adapters: three prices, two sizes, one level on  *)
(* each side at first, and filters that keep all, one or the nearest level. *)
EXTENDS AdapterLevels

OneLevelEach == [bids |-> (5 :> 1), asks |-> (15 :> 10)]

SomeFilters == {[level |-> NoLimit, pct |-> 0], [level |-> 1, pct |-> 0],
                [level |-> NoLimit, pct |-> 40], [level |-> 0, pct |-> 0],
                [level |-> NoLimit, pct |-> -10], [level |-> 1, pct |-> 40]}

TwoFilters == {[level |-> NoLimit, pct |-> 0], [level |-> 1, pct |-> 40]}
=============================================================================
