------------------------------- MODULE LobBook ------------------------------
(***************************************************************************)
(* What the OrderBook of every exchange has in common (okx/lob.rs,         *)
(* kraken/lob.rs, bitstamp/lob.rs, bitvavo/lob.rs): two ordered maps from  *)
(* price to size, the methods that read them, and the LobItem made of      *)
(* them.  The four files repeat this code; the module of an exchange says  *)
(* where its copy is.  Numbers are in tenths.  The items made of messages, *)
(* of a book or of a trade, are here too.                                  *)
(***************************************************************************)
EXTENDS Integers, Sequences, FiniteSets, SequencesExt

None == <<>>                \* Option::None; Some(x) is <<x>> or a record
Unreadable == -1            \* a price or size string that parse::<f64>() refuses
Absent == -2                \* a field the message does not have
NoText == ""                \* a string field the message does not have
Malformed == -3             \* a JSON value of a type the field cannot have
NoLimit == -1               \* max_level: None

EmptySide == [price \in {} |-> 0]

Sides == {"bids", "asks"}

Opposite(side) == IF side = "bids" THEN "asks" ELSE "bids"

(* ---- folding ----------------------------------------------------------- *)

\* FoldLeft of SequencesExt, as a recursive function.
Folded(op(_, _), base, seq) ==
    LET after[n \in 0..Len(seq)] == IF n = 0 THEN base ELSE op(after[n - 1], seq[n])
    IN after[Len(seq)]

\* The elements of seq that are in S, in their order.
Among(seq, S) == Folded(LAMBDA s, x : IF x \in S THEN Append(s, x) ELSE s, <<>>, seq)

\* The numbers of S, ascending.
Sorted(S) == [i \in 1..Cardinality(S) |-> CHOOSE n \in S : Cardinality({m \in S : m < n}) = i - 1]

(* ---- the two maps ------------------------------------------------------ *)

Insert(levels, l) == [p \in DOMAIN levels \cup {l.price} |->
                         IF p = l.price THEN l.size ELSE levels[p]]

Without(levels, price) == [p \in DOMAIN levels \ {price} |-> levels[p]]

\* Size 0 removes the level, any other size sets it.
Upsert(levels, l) == IF l.size = 0 THEN Without(levels, l.price) ELSE Insert(levels, l)

\* Levels whose price or size cannot be parsed are dropped.
Parsed(levels) == Among(levels, {l \in ToSet(levels) : Unreadable \notin {l.price, l.size}})

\* A side filled from nothing, as a snapshot does.
Filled(levels) ==
    Folded(LAMBDA s, l : IF l.size > 0 THEN Insert(s, l) ELSE s, EmptySide, Parsed(levels))

\* parse().unwrap_or(0.0); an absent field is an empty string.
OrZeroIfUnread(number) == IF number \in {Unreadable, Absent} THEN 0 ELSE number

(* ---- reading the book -------------------------------------------------- *)

\* best_bid, best_ask
Best(b, side) == IF b[side] = EmptySide THEN None
                 ELSE IF side = "bids" THEN <<Max(DOMAIN b.bids)>> ELSE <<Min(DOMAIN b.asks)>>

Spread(b) == IF None \in {Best(b, "bids"), Best(b, "asks")} THEN None
             ELSE <<Best(b, "asks")[1] - Best(b, "bids")[1]>>

\* The levels of a side, worst or best price first.
Ascending(levels) ==
    LET prices == Sorted(DOMAIN levels)
    IN [i \in 1..Len(prices) |-> [price |-> prices[i], size |-> levels[prices[i]]]]

\* The order in which the BTreeMap of a side is iterated: the best first.
BestFirst(b, side) == IF side = "bids" THEN Reverse(Ascending(b.bids)) ELSE Ascending(b.asks)

Take(seq, n) == SubSeq(seq, 1, IF n < Len(seq) THEN n ELSE Len(seq))

\* top_bids, top_asks
TopLevels(b, side, n) == Take(BestFirst(b, side), n)

\* At most pct percent worse than the best of its side.
Near(b, side, price, pct) ==
    LET best == Best(b, side)[1]
    IN IF side = "bids" THEN 100 * price >= best * (100 - pct)
                        ELSE 100 * price <= best * (100 + pct)

LevelsWithinPct(b, side, pct) ==
    LET levels == BestFirst(b, side)
    IN Among(levels, {l \in ToSet(levels) : Near(b, side, l.price, pct)})

\* total_bid_size, total_ask_size
TotalSize(b, side) == FoldLeft(LAMBDA sum, l : sum + l.size, 0, Ascending(b[side]))

\* Whether a level of `side' at this price meets the opposite side.
Crosses(b, side, price) ==
    /\ b[Opposite(side)] # EmptySide
    /\ LET best == Best(b, Opposite(side))[1]
       IN IF side = "bids" THEN price >= best ELSE price <= best

\* The condition of repair_crossing.
IsCrossed(b) == b.bids # EmptySide /\ Crosses(b, "bids", Best(b, "bids")[1])

Wiped(b) == [b EXCEPT !.bids = EmptySide, !.asks = EmptySide]

\* One level of an update under the crossing guard.
Guarded(b, side, l) == IF l.size # 0 /\ Crosses(b, side, l.price) THEN b
                       ELSE [b EXCEPT ![side] = Upsert(@, l)]

\* What traits::OrderBook lets anyone read of a book.
ReadsOf(b, pct) == [best |-> [s \in Sides |-> Best(b, s)], spread |-> Spread(b),
                    within |-> [s \in Sides |-> LevelsWithinPct(b, s, pct)],
                    total |-> [s \in Sides |-> TotalSize(b, s)]]

(* ---- the items --------------------------------------------------------- *)

LobItem(ts, bids, asks) == [ts |-> ts, bids |-> bids, asks |-> asks]

TradeItem(ts, price, size, side, id, seq) ==
    [ts |-> ts, price |-> price, size |-> size, side |-> side, trade_id |-> id, seq_id |-> seq]

\* max_level_pct: 0 and 100 upwards filter nothing.
KeptByPct(b, side, pct) ==
    IF pct = 0 \/ pct >= 100 THEN b[side]
    ELSE [p \in {p \in DOMAIN b[side] : Near(b, side, p, pct)} |-> b[side][p]]

\* Plausible bug: the first bids are kept, which are the worst.
KeptByLevelFirst(levels, side, max) ==
    IF max = NoLimit \/ Len(levels) <= max THEN levels ELSE SubSeq(levels, 1, max)

\* max_level: both sides ascend, so the best bids are at the end.
KeptByLevel(levels, side, max) ==
    IF max = NoLimit \/ Len(levels) <= max THEN levels
    ELSE IF side = "bids" THEN SubSeq(levels, Len(levels) - max + 1, Len(levels))
                          ELSE SubSeq(levels, 1, max)

\* to_lob_item; a filter is [level, pct].
LobItemOf(b, filter, ts) ==
    LET kept(side) == KeptByLevel(Ascending(KeptByPct(b, side, filter.pct)), side, filter.level)
    IN IF EmptySide \in {b.bids, b.asks} \/ <<>> \in {kept("bids"), kept("asks")} THEN None
       ELSE <<LobItem(ts, kept("bids"), kept("asks"))>>

\* full_lob_item
FullLobItem(b, ts) == LobItemOf(b, [level |-> NoLimit, pct |-> 0], ts)

\* Plausible bug: only the bids are compared.
RepeatsBids(item, prev) == prev # None /\ prev[1].bids = item.bids

\* The comparison of emit_lob: levels and sizes, not the timestamp.
Repeats(item, prev) == prev # None /\ prev[1].bids = item.bids /\ prev[1].asks = item.asks

\* emit_lob: what the adapter becomes and what it returns.
Emitted(a, lob) ==
    IF lob = None THEN [adapter |-> a, items |-> <<>>]
    ELSE IF Repeats(lob[1], a.prev) THEN [adapter |-> a, items |-> <<>>]
    ELSE [adapter |-> [a EXCEPT !.prev = lob], items |-> lob]

Silent(a) == [adapter |-> a, items |-> <<>>]

(* ---- the checksum (OKX and Kraken) -------------------------------------- *)

\* format_number of a number given in tenths, as its digits: the decimal
\* point and the leading zeros are gone, and so is the decimal ".0".
FormatNumber(tenths) ==
    LET n == IF tenths % 10 = 0 THEN tenths \div 10 ELSE tenths
    IN IF n = 0 THEN <<>> ELSE IF n < 10 THEN <<n>> ELSE <<n \div 10, n % 10>>

\* The text a checksum is taken of, each number written as `text' says: asks,
\* then bids, best first.
Hashed(text(_), b, depth) ==
    LET digits(side) == Folded(LAMBDA s, l : s \o text(l.price) \o text(l.size), <<>>,
                               TopLevels(b, side, depth))
    IN digits("asks") \o digits("bids")

\* compute_checksum
ChecksumOf(b, depth) == Hashed(FormatNumber, b, depth)
=============================================================================
