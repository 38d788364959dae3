---------------------------- MODULE AdapterLevels ----------------------------
(***************************************************************************)
(* The adapters seen as GuardedBook, BitstampSync and BitvavoSync see      *)
(* them: a book is its set of levels, without sizes.  The state of         *)
(* Adapters is mapped to theirs, and each step of an adapter must be what  *)
(* their operators make of the message.                                    *)
(***************************************************************************)
EXTENDS Adapters

(* ---- the view of the modules without sizes ----------------------------- *)

MarketSide(side) == IF side = "bids" THEN "bid" ELSE "ask"

OnMarket(levels, side) == {[side |-> MarketSide(side), price |-> levels[i].price] : i \in DOMAIN levels}

LevelsOf(b) == UNION {OnMarket(Ascending(b[side]), side) : side \in Sides}

\* The levels data sets, and those it removes.
SetBy(data) == UNION {OnMarket(SelectSeq(Parsed(data[side]), LAMBDA l : l.size # 0), side)
                      : side \in Sides}
GoneBy(data) == UNION {OnMarket(SelectSeq(Parsed(data[side]), LAMBDA l : l.size = 0), side)
                       : side \in Sides}

TouchedLevels == {[side |-> MarketSide(l.side), price |-> l.price] : l \in touched}

SetNow == TouchedLevels \cap LevelsOf(depth)
GoneNow == TouchedLevels \ LevelsOf(depth)

Guarding == INSTANCE GuardedBook WITH
    Openings <- {LevelsOf(Opening)}, MaxLevel <- 0, MaxLevelPct <- 0, MaxResends <- 0,
    truth <- <<LevelsOf(depth)>>, touched <- TouchedLevels, wire <- <<>>,
    book <- LevelsOf(adapter.book), needsResync <- adapter.book.resync,
    lastSequence <- IF exchange = "kraken" THEN V!OrZero(adapter.book.last) ELSE 0,
    prevLob <- {}, view <- {}, resends <- 0,
    at <- 0, handled <- 0, seeded <- FALSE, intact <- FALSE, thrown <- {}

Syncing == INSTANCE BitstampSync WITH
    Openings <- {LevelsOf(Opening)}, MaxLevel <- 0, MaxLevelPct <- 0, MaxLag <- 0, MaxFailures <- 0,
    truth <- [n \in 1..moves |-> LevelsOf(depth)], touched <- TouchedLevels, wire <- <<>>,
    fetch <- "merge", answer <- moves, snapshotDelay <- adapter.delay,
    book <- LevelsOf(adapter.book), needsResync <- adapter.book.resync,
    awaiting <- adapter.awaiting, requested <- adapter.requested,
    buffer <- [i \in DOMAIN adapter.buffer |->
                  [to |-> adapter.buffer[i].micro[1], set |-> SetBy(adapter.buffer[i]),
                   gone |-> GoneBy(adapter.buffer[i])]],
    prevLob <- {}, view <- {}, failures <- 0, since <- 1, seeded <- "no"

Numbering == INSTANCE BitvavoSync WITH
    Openings <- {LevelsOf(Opening)}, MaxLevel <- 0, MaxLevelPct <- 0,
    truth <- <<LevelsOf(depth)>>, touched <- TouchedLevels,
    asked <- owed, reply <- 0, wire <- <<>>,
    book <- LevelsOf(adapter.book), lastMdSeq <- V!OrZero(adapter.book.last),
    pending <- [i \in DOMAIN adapter.book.pending |->
                   [from |-> adapter.book.pending[i].from, to |-> adapter.book.pending[i].to,
                    set |-> SetBy(adapter.book.pending[i]), gone |-> GoneBy(adapter.book.pending[i])]],
    prevLob <- {}, view <- {}, viewAt <- 0, synced <- FALSE, lost <- FALSE

\* What those modules make of the next message.
GuardedAfter(type) ==
    LET s == Guarding!Processed(Guarding!State,
                 [type |-> type, sequence |-> sequence + 1, to |-> moves,
                  set |-> IF type = "snapshot" THEN LevelsOf(depth) ELSE SetNow,
                  gone |-> IF type = "snapshot" THEN {} ELSE GoneNow])
    IN IF s.resync THEN {} ELSE s.levels

DeltaAfter ==
    LET s == Syncing!Applied(Syncing!State, [set |-> SetNow, gone |-> GoneNow])
    IN IF adapter.awaiting /\ adapter.delay > 0 THEN LevelsOf(adapter.book)
       ELSE IF s.resync THEN {} ELSE s.levels

NumberedAfter ==
    IF adapter.book.last = None THEN LevelsOf(adapter.book)
    ELSE Numbering!AppliedUpdate(Numbering!State,
             [from |-> published + 1, to |-> moves, set |-> SetNow, gone |-> GoneNow]).book

\* Bitvavo's snapshot is only as deep as getBook asked for.
TopOfDepth == UNION {OnMarket(TopLevels(depth, side, V!GetBookDepth(adapter)), side) : side \in Sides}

(* ---- property ---------------------------------------------------------- *)

\* With sizes, prices as numbers, unreadable entries and messages as the
\* exchanges send them, the books change as GuardedBook, BitstampSync and
\* BitvavoSync say: what those modules show of levels holds of the books
\* (process_msg, apply_orderbook, apply_update, apply_snapshot_and_merge).
AgreesWithLevels ==
    [][LET after == LevelsOf(adapter.book)' IN
       /\ SendsUpdate =>
             after = CASE exchange \in {"okx", "kraken"} -> GuardedAfter("update")
                       [] exchange = "bitstamp" -> DeltaAfter
                       [] exchange = "bitvavo"  -> NumberedAfter
       /\ SendsSnapshot =>
             after = IF exchange = "bitvavo"
                     THEN Numbering!Drained(Numbering!AppliedSnapshot(
                              Numbering!State, [seq |-> moves, levels |-> TopOfDepth])).book
                     ELSE GuardedAfter("snapshot")
       /\ RestAnswers =>
             after = IF owed THEN {} ELSE Syncing!Merged(moves).levels]_vars
=============================================================================
