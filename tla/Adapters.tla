------------------------------ MODULE Adapters ------------------------------
(***************************************************************************)
(* One market followed by the adapter of one of the four exchanges, with   *)
(* the sizes, the filters, the checksum and the message formats that       *)
(* GuardedBook, BitstampSync and BitvavoSync leave out.  Those modules     *)
(* have the queues and the delays; here the adapter handles a message when *)
(* the exchange sends it, so that what is checked is the data.             *)
(***************************************************************************)
EXTENDS LobBook, FiniteSets

CONSTANTS Exchanges,        \* the adapters considered
          Prices, Sizes,    \* in tenths
          Filters,          \* settings of max_level and max_level_pct
          Configured,       \* those an adapter runs with
          SnapshotDelays,   \* the values of Bitstamp's snapshot_delay considered
          ChecksumDepth,    \* levels of a side the checksum covers
          Padded,           \* numbers the exchange writes with a trailing zero
          Second, Millisecond,  \* units of the exchanges' timestamps
          Opening,          \* the book the market starts from
          MaxMoves,         \* bound on the number of changes of the market
          MaxReconnects,    \* bound on lost connections
          MaxFaults         \* bound on updates the feed loses

O == INSTANCE Okx
K == INSTANCE Kraken
B == INSTANCE Bitstamp
V == INSTANCE Bitvavo

AdaptersConstants ==
    /\ Exchanges \subseteq {"okx", "kraken", "bitstamp", "bitvavo"}
    /\ Prices \subseteq Nat \ {0} /\ Sizes \subseteq Nat \ {0} /\ SnapshotDelays \subseteq Nat
    /\ Configured \subseteq Filters /\ Filters \subseteq [level : Nat \cup {NoLimit}, pct : Int]
    /\ Opening \in [Sides -> UNION {[S -> Sizes] : S \in {S \in SUBSET Prices : IsFiniteSet(S)}}]
    /\ ~IsCrossed(Opening)
    /\ {MaxMoves, MaxReconnects, MaxFaults, ChecksumDepth} \subseteq Nat
    /\ {Second, Millisecond} \subseteq Nat \ {0}

ASSUME AdaptersAssumption == AdaptersConstants

VARIABLES exchange, adapter,
          depth,        \* the exchange's book
          moves,        \* its changes so far; the exchange's clock
          touched,      \* levels changed since the last update
          published,    \* the last change an update has covered
          sequence,     \* messages the channel has carried
          up,           \* the connection is subscribed
          owed,         \* the snapshot of this connection is still to come
          view,         \* the last item the consumer received, or None
          reconnects, faults,
          strayed       \* history: since the last snapshot the local book has
                        \* differed from the exchange's

market == <<depth, moves, touched, published>>
vars == <<exchange, adapter, market, sequence, up, owed, view, reconnects, faults, strayed>>

(* ---- the exchange (external) ------------------------------------------ *)

AllLevels(side) == Ascending(depth[side])

\* What an update says of the touched levels of a side.
Changes(side) ==
    LET prices == Sorted({l.price : l \in {l \in touched : l.side = side}})
    IN [i \in DOMAIN prices |->
           [price |-> prices[i],
            size |-> IF prices[i] \in DOMAIN depth[side] THEN depth[side][prices[i]] ELSE 0]]

\* A number as the exchange writes it: "1.0" where format_number, which has
\* but the parsed f64, writes "1".
ExchangeText(n) == IF n \in Padded THEN FormatNumber(n) \o <<0>> ELSE FormatNumber(n)

\* The checksum covers a number whose text the adapter cannot know.
Rewritten == \E side \in Sides :
                LET levels == TopLevels(depth, side, ChecksumDepth)
                IN \E i \in 1..Len(levels) : {levels[i].price, levels[i].size} \cap Padded # {}

\* An update may hold an entry that is no number.
Noise == {<<>>, <<[price |-> Unreadable, size |-> 10]>>}

Book(bids, asks) ==
    [bids |-> bids, asks |-> asks, ts |-> <<moves>>,
     checksum |-> <<Hashed(ExchangeText, depth, ChecksumDepth)>>]

SnapshotMessage ==
    LET book == Book(AllLevels("bids"), AllLevels("asks")) IN
    CASE exchange = "okx"     -> O!Message("books", "snapshot", <<book>>)
      [] exchange = "kraken"  -> K!Message("book", "snapshot", <<book>>, <<sequence + 1>>)
      [] exchange = "bitvavo" ->
            LET top(side) == TopLevels(depth, side, V!GetBookDepth(adapter))
            IN V!Snapshot(V!BookSnapshot(top("bids"), top("asks"), moves, <<moves * Millisecond>>))

RestSnapshot == B!BookData(AllLevels("bids"), AllLevels("asks"), <<moves>>)

UpdateMessage(noise) ==
    LET book == Book(Changes("bids") \o noise, noise \o Changes("asks")) IN
    CASE exchange = "okx"      -> O!Message("books", "update", <<book>>)
      [] exchange = "kraken"   -> K!Message("book", "update", <<book>>, <<sequence + 1>>)
      [] exchange = "bitstamp" ->
            B!Message("data", "diff_order_book", <<B!BookData(book.bids, book.asks, <<moves>>)>>)
      [] exchange = "bitvavo"  ->
            V!Update(book.bids, book.asks, <<published + 1>>, <<moves>>, <<moves * Millisecond>>)

Moves ==
    /\ moves < MaxMoves
    /\ \E side \in Sides, price \in Prices, size \in Sizes \cup {0} :
          /\ size # (IF price \in DOMAIN depth[side] THEN depth[side][price] ELSE 0)
          /\ depth' = [depth EXCEPT ![side] = Upsert(@, [price |-> price, size |-> size])]
          /\ ~IsCrossed(depth')
          /\ touched' = touched \cup {[side |-> side, price |-> price]}
    /\ moves' = moves + 1
    /\ UNCHANGED <<exchange, adapter, published, sequence, up, owed, view,
                   reconnects, faults, strayed>>

\* Everything so far is published.
Covered == touched' = {} /\ published' = moves /\ UNCHANGED <<depth, moves>>

(* ---- the adapter ------------------------------------------------------- *)

\* The clock of the machine, where a message has no timestamp.
SystemClock == 0

Handled(m) ==
    CASE exchange = "okx"      -> O!HandleMessage(adapter, m, SystemClock)
      [] exchange = "kraken"   -> K!HandleMessage(adapter, m, SystemClock)
      [] exchange = "bitstamp" -> B!HandleMessage(adapter, m, SystemClock)
      [] exchange = "bitvavo"  -> V!HandleMessage(adapter, m, SystemClock)

\* The loop takes what a call into the adapter returned.
Takes(done) == /\ adapter' = done.adapter
               /\ view' = IF done.items = <<>> THEN view ELSE <<Last(done.items)>>

\* Bitstamp's REST snapshot is fetched on connect or after enough deltas.
Fetching == exchange = "bitstamp" /\ (owed \/ B!SnapshotNeeded(adapter))

SameBook == adapter'.book.bids = depth.bids /\ adapter'.book.asks = depth.asks

Connect ==
    /\ ~up /\ up' = TRUE
    /\ adapter' = IF exchange = "bitstamp" THEN B!OnConnect(adapter) ELSE adapter
    /\ owed' = (exchange # "bitstamp" \/ B!FetchesAtOnce(adapter))
    /\ sequence' = 0
    /\ Covered
    /\ UNCHANGED <<exchange, view, reconnects, faults, strayed>>

\* OKX and Kraken open the channel with it, Bitvavo answers getBook any time
\* later, updates being none the less counted from the subscription.
SendsSnapshot ==
    /\ up /\ owed /\ exchange # "bitstamp"
    /\ owed' = FALSE /\ sequence' = sequence + 1
    /\ Takes(Handled(SnapshotMessage))
    /\ strayed' = ~SameBook
    /\ IF exchange = "bitvavo" THEN UNCHANGED market ELSE Covered
    /\ UNCHANGED <<exchange, up, reconnects, faults>>

SendsUpdate ==
    /\ up /\ published < moves /\ ~Fetching
    /\ exchange \in {"okx", "kraken"} => ~owed
    /\ sequence' = sequence + 1
    /\ UNCHANGED <<exchange, up, owed, reconnects, faults>>
    /\ Covered
    /\ \E noise \in Noise : Takes(Handled(UpdateMessage(noise)))
    /\ strayed' = (strayed \/ ~SameBook)

LosesUpdate ==
    /\ up /\ published < moves /\ ~owed /\ faults < MaxFaults
    /\ faults' = faults + 1
    /\ sequence' = sequence + 1
    /\ Covered
    /\ UNCHANGED <<exchange, adapter, up, owed, view, reconnects, strayed>>

RestAnswers ==
    /\ up /\ Fetching
    /\ UNCHANGED <<exchange, market, sequence, up, reconnects, faults>>
    /\ Takes(IF owed THEN B!FetchSnapshot(adapter, RestSnapshot, SystemClock)
             ELSE B!FetchSnapshotAndMerge(adapter, RestSnapshot, SystemClock))
    /\ owed' = FALSE
    /\ strayed' = ~SameBook

Disconnect ==
    /\ up /\ ~Fetching /\ reconnects < MaxReconnects
    /\ up' = FALSE /\ owed' = FALSE
    /\ reconnects' = reconnects + 1
    /\ adapter' = CASE exchange = "okx"      -> O!OnReconnect(adapter)
                    [] exchange = "kraken"   -> K!OnReconnect(adapter)
                    [] exchange = "bitstamp" -> B!OnConnect(adapter)
                    [] exchange = "bitvavo"  -> adapter
    /\ UNCHANGED <<exchange, market, sequence, view, faults, strayed>>

Init ==
    /\ exchange \in Exchanges
    /\ \E filter \in Configured, delay \in SnapshotDelays :
          adapter = CASE exchange = "okx"      -> O!NewAdapter({"lob"}, filter)
                      [] exchange = "kraken"   -> K!NewAdapter({"lob"}, filter)
                      [] exchange = "bitstamp" -> B!NewAdapter({"lob"}, filter, delay)
                      [] exchange = "bitvavo"  -> V!NewAdapter({"lob"}, filter)
    /\ depth = Opening /\ moves = 1 /\ touched = {} /\ published = 1 /\ sequence = 0
    /\ up = FALSE /\ owed = FALSE /\ view = None
    /\ reconnects = 0 /\ faults = 0 /\ strayed = FALSE

Next == \/ Moves \/ Connect \/ SendsSnapshot \/ SendsUpdate \/ LosesUpdate
        \/ RestAnswers \/ Disconnect

Spec == Init /\ [][Next]_vars

(* ---- properties ------------------------------------------------------- *)

\* The prices of a book's side the filters keep, as the README describes them: the
\* best max_level of those within max_level_pct of the best.
KeptPrices(b, side, filter) ==
    LET better(p, q) == IF side = "bids" THEN p > q ELSE p < q
        within == {p \in DOMAIN b[side] :
                      \/ filter.pct = 0 \/ filter.pct >= 100
                      \/ \A best \in DOMAIN b[side] :
                            100 * (IF p > best THEN p - best ELSE best - p) <= filter.pct * best
                            \/ \E q \in DOMAIN b[side] : better(q, best)}
    IN {p \in within : \/ filter.level = NoLimit
                       \/ Cardinality({q \in within : better(q, p)}) < filter.level}

\* A side of an item holds the kept prices with the sizes of the book, in
\* order from the best ask on.  From which end the bids go is left open: the
\* documents say otherwise than the code (BestBidFirst).
IsSideOf(levels, b, side, filter) ==
    /\ {levels[i].price : i \in DOMAIN levels} = KeptPrices(b, side, filter)
    /\ \/ \A i, j \in DOMAIN levels : i < j => levels[i].price < levels[j].price
       \/ /\ side = "bids"
          /\ \A i, j \in DOMAIN levels : i < j => levels[i].price > levels[j].price
    /\ \A i \in DOMAIN levels : levels[i].size = b[side][levels[i].price]

\* What the adapter's book answers to those who read it.
Looks(pct) ==
    CASE exchange = "okx"      -> O!Reads(adapter.book, pct)
      [] exchange = "kraken"   -> K!Reads(adapter.book, pct)
      [] exchange = "bitstamp" -> B!Reads(adapter.book, pct)
      [] exchange = "bitvavo"  -> V!Reads(adapter.book, pct)

\* Whatever the book, an item made of it has exactly the levels the filters
\* keep, with the best bid at one end of its side and below the best ask, which
\* comes first on the other, and there is none only when a side has nothing to show; only on Bitvavo, which neither
\* detects a gap nor repairs, may it be crossed (to_lob_item, full_lob_item
\* and the methods best_bid, best_ask, spread, levels_within_pct).
ItemIsFiltered ==
    \A filter \in Filters :
       LET item == LobItemOf(adapter.book, filter, moves)
       IN IF item = None
          THEN \E side \in Sides : KeptPrices(adapter.book, side, filter) = {}
          ELSE LET looks == Looks(filter.pct)
               IN /\ \A side \in Sides : /\ item[1][side] # <<>>
                                          /\ IsSideOf(item[1][side], adapter.book, side, filter)
                  /\ looks.best["bids"] \in {<<Head(item[1].bids).price>>,
                                              <<Last(item[1].bids).price>>}
                  /\ <<Head(item[1].asks).price>> = looks.best["asks"]
                  /\ looks.spread[1] > 0 \/ (exchange = "bitvavo" /\ strayed)
                  /\ filter.pct \in 1..99 /\ filter.level = NoLimit =>
                        \A side \in Sides :
                           item[1][side] \in {looks.within[side], Reverse(looks.within[side])}

\* The consumer's last item is the local book, sizes included: the comparison
\* with the previous item holds nothing back, on no exchange (emit_lob).
ShowsBook ==
    LET item == LobItemOf(adapter.book, adapter.filter, moves)
    IN item # None => view # None /\ view[1].bids = item[1].bids /\ view[1].asks = item[1].asks

\* The README and the comment of LobItem: "Bid levels, sorted descending (best
\* bid first)" (items.rs).  The code has them the other way round.
BestBidFirst ==
    view # None => \A i, j \in DOMAIN view[1].bids :
                      i < j => view[1].bids[i].price > view[1].bids[j].price

\* The first failure of a checksum since the adapter's book was reset.
ChecksumFails == /\ exchange \in {"okx", "kraken"}
                 /\ ~adapter.book.failed /\ adapter'.book.failed

\* A checksum begins to fail only on a book that has differed from the
\* exchange's since the last snapshot, or because one of the numbers it covers
\* is written otherwise by the exchange: it is taken after both sides of the
\* message are applied, over the same levels in the same order (process_msg,
\* verify_checksum).
ChecksumTells == [][ChecksumFails => strayed' \/ Rewritten]_vars
=============================================================================
