------------------------------ MODULE Bitstamp ------------------------------
(***************************************************************************)
(* The Bitstamp adapter (bitstamp/types.rs, bitstamp/lob.rs,               *)
(* bitstamp/ws.rs) as operators: an adapter is a record, handling a        *)
(* message gives the adapter afterwards and the items to send.  A channel  *)
(* stands for its family, without the pair.  Data that is no JSON object   *)
(* is treated as absent: both are left unread.                             *)
(***************************************************************************)
EXTENDS LobBook

CONSTANT Second     \* the length of a second in units of microtimestamp

(* ---- types.rs ---------------------------------------------------------- *)

\* BitstampWsMessage; `data' is None or <<a record>>.
Message(event, channel, data) == [event |-> event, channel |-> channel, data |-> data]

\* OrderBookData; `micro' is None or <<n>>, `seconds' likewise.
BookData(bids, asks, at) ==
    [bids |-> bids, asks |-> asks, micro |-> at,
     seconds |-> IF at = None THEN None ELSE <<at[1] \div Second>>]

\* deserialize_number_or_string: None when it is neither.
NumberOrString(number) == IF number = Malformed THEN None ELSE <<number>>

\* deserialize_number_or_zero
NumberOrZero(number) == OrZeroIfUnread(number)

\* TradeData
TradeData(id, price, amount, type, seconds) ==
    [id |-> id, price |-> NumberOrString(price), amount |-> NumberOrString(amount),
     type |-> NumberOrZero(type), seconds |-> seconds]

\* Plausible bug: the sides are taken the wrong way round.
SideOfMaker(data) == IF data.type = 0 THEN "sell" ELSE "buy"

\* side()
Side(data) == IF data.type = 0 THEN "buy" ELSE "sell"

MessageType(m) ==
    CASE m.event = NoText -> "Unknown"
      [] m.event \in {"order_created", "order_deleted", "order_changed"} -> "L2Update"
      [] m.event = "snapshot" -> "L2Snapshot"
      [] m.event = "data" ->
            IF m.channel \in {"order_book", "diff_order_book", "live_orders"}
            THEN "L2Update" ELSE "Unknown"
      [] m.event \in {"trade", "live_trades"} -> "Trade"
      [] m.event \in {"bts:subscription_succeeded", "bts:unsubscription_succeeded"} -> "Event"
      [] OTHER -> IF m.channel = "live_orders" THEN "L2Update" ELSE "Event"

\* timestamp_ms of a message: the seconds, whole.
TimestampMs(m) == IF m.data = None \/ m.data[1].seconds = None THEN None
                  ELSE <<m.data[1].seconds[1] * Second>>

\* timestamp_ms of OrderBookData: the microtimestamp.
SnapshotMs(data, now) == IF data.micro = None THEN now ELSE data.micro[1]

(* ---- lob.rs ------------------------------------------------------------ *)

NewBook == [bids |-> EmptySide, asks |-> EmptySide, resync |-> FALSE]

\* repair_crossing wipes a crossed book and flags it.
Repaired(b) == IF IsCrossed(b) THEN [Wiped(b) EXCEPT !.resync = TRUE] ELSE b

\* The levels of one side, without a crossing guard.
Upserted(levels, data) == Folded(Upsert, levels, Parsed(data))

\* apply_orderbook: both sides, then the repair.
ApplyOrderbook(b, data) ==
    Repaired([b EXCEPT !.bids = Upserted(@, data.bids), !.asks = Upserted(@, data.asks)])

Reset(b) == NewBook

\* process_msg of a book message
ProcessMsg(b, m) == IF m.data = None THEN b ELSE ApplyOrderbook(b, m.data[1])

ToLobItem(b, filter, ts) == LobItemOf(b, filter, ts)

\* best_bid, best_ask, spread, levels_within_pct and the totals.
Reads(b, pct) == ReadsOf(b, pct)

(* ---- ws.rs ------------------------------------------------------------- *)

NewAdapter(kinds, filter, delay) ==
    [kinds |-> kinds, filter |-> filter, delay |-> delay, book |-> NewBook, prev |-> None,
     trade_seq |-> 0, buffer |-> <<>>, awaiting |-> FALSE, requested |-> FALSE]

FreshAdapter(a) == NewAdapter(a.kinds, a.filter, a.delay)

\* subscribe_msgs, as the channels
SubscribeMsgs(a) == (IF "lob" \in a.kinds THEN <<"diff_order_book">> ELSE <<>>)
                    \o (IF "trade" \in a.kinds THEN <<"live_trades">> ELSE <<>>)

EmitLob(a, ts) == Emitted(a, ToLobItem(a.book, a.filter, ts))

\* Plausible bug: the trades are numbered anew.
ResetLocalRenumbers(a) == [a EXCEPT !.book = Reset(@), !.prev = None, !.trade_seq = 0]

ResetLocal(a) == [a EXCEPT !.book = Reset(@), !.prev = None]

\* on_connect and on_reconnect up to the fetch, which is FetchSnapshot.
OnConnect(a) ==
    IF "lob" \notin a.kinds \/ a.delay = 0 THEN ResetLocal(a)
    ELSE [ResetLocal(a) EXCEPT !.awaiting = TRUE, !.requested = FALSE, !.buffer = <<>>]

\* Whether on_connect fetches the snapshot itself.
FetchesAtOnce(a) == "lob" \in a.kinds /\ a.delay = 0

\* fetch_snapshot: the item of a temporary book, empty if it has one side.
FetchSnapshot(a, data, now) ==
    LET lob == ToLobItem(ApplyOrderbook(NewBook, data), a.filter, SnapshotMs(data, now))
    IN [adapter |-> a,
        items |-> IF lob # None THEN lob
                  ELSE <<[ts |-> SnapshotMs(data, now), bids |-> <<>>, asks |-> <<>>]>>]

\* A delta kept until the snapshot is there.
Buffered(a, m) ==
    LET buffer == a.buffer \o m.data
    IN [a EXCEPT !.buffer = buffer, !.requested = @ \/ Len(buffer) >= a.delay]

SnapshotNeeded(a) == a.requested

\* The buffered deltas to replay: all of them when the snapshot has no
\* microtimestamp, else those that have one, not before it.
Relevant(a, data) ==
    IF data.micro = None THEN a.buffer
    ELSE Among(a.buffer, {d \in ToSet(a.buffer) : d.micro # None /\ d.micro[1] >= data.micro[1]})

\* fetch_snapshot_and_merge, apply_snapshot_and_merge
FetchSnapshotAndMerge(a, data, now) ==
    IF ~a.awaiting THEN Silent(a) ELSE
    LET merged == Folded(ApplyOrderbook, ApplyOrderbook(a.book, data), Relevant(a, data))
    IN [adapter |-> [a EXCEPT !.book = merged, !.buffer = <<>>,
                              !.awaiting = FALSE, !.requested = FALSE],
        items |-> ToLobItem(merged, a.filter, SnapshotMs(data, now))]

\* The LOB branch of handle_message.
HandleLob(a, m, now) ==
    LET done == [a EXCEPT !.book = ProcessMsg(@, m)]
    IN IF a.awaiting /\ a.delay > 0 THEN Silent(Buffered(a, m))
       ELSE IF done.book.resync THEN Silent(ResetLocal(done))
       ELSE EmitLob(done, IF TimestampMs(m) = None THEN now ELSE TimestampMs(m)[1])

\* Trades are numbered by the adapter; an id of 0 is none.
Trade(data, ts, seq) ==
    TradeItem(ts, OrZeroIfUnread(data.price[1]), OrZeroIfUnread(data.amount[1]), Side(data),
              IF data.id = 0 THEN None ELSE <<data.id>>, <<seq>>)

HandleTrade(a, m) ==
    IF m.data = None \/ None \in {m.data[1].price, m.data[1].amount} THEN Silent(a) ELSE
    LET ts == IF TimestampMs(m) = None THEN 0 ELSE TimestampMs(m)[1]
    IN [adapter |-> [a EXCEPT !.trade_seq = @ + 1],
        items |-> <<Trade(m.data[1], ts, a.trade_seq + 1)>>]

HandleMessage(a, m, now) ==
    CASE MessageType(m) \in {"L2Snapshot", "L2Update"} /\ "lob" \in a.kinds
                                                  -> HandleLob(a, m, now)
      [] MessageType(m) = "Trade" /\ "trade" \in a.kinds -> HandleTrade(a, m)
      [] OTHER -> Silent(a)

HandleHeartbeat(m) == FALSE
=============================================================================
