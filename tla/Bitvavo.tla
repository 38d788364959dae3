------------------------------ MODULE Bitvavo -------------------------------
(***************************************************************************)
(* The Bitvavo adapter (bitvavo/types.rs, bitvavo/lob.rs, bitvavo/ws.rs)   *)
(* as operators: an adapter is a record, handling a message gives the      *)
(* adapter afterwards and the items to send.  A message has every field of *)
(* BitvavoWsMessage the code branches on; an absent field is NoText, None  *)
(* or <<>>.                                                                *)
(***************************************************************************)
EXTENDS LobBook

CONSTANT Millisecond    \* the length of a millisecond in units of `timestamp'

(* ---- types.rs ---------------------------------------------------------- *)

Blank == [action |-> NoText, event |-> NoText, response |-> None, bids |-> <<>>, asks |-> <<>>,
          from |-> None, to |-> None, timestamp |-> None, id |-> None, price |-> Absent,
          amount |-> Absent, side |-> NoText,
          authenticated |-> FALSE, success |-> FALSE]

\* getBook's answer; an error answer has no response.
Snapshot(response) == [Blank EXCEPT !.action = "getBook", !.response = response]

\* BookSnapshot
BookSnapshot(bids, asks, seq, timestamp) ==
    <<[bids |-> bids, asks |-> asks, mdseqno |-> seq, timestamp |-> timestamp]>>

\* An event "book"
Update(bids, asks, from, to, timestamp) ==
    [Blank EXCEPT !.event = "book", !.bids = bids, !.asks = asks,
                  !.from = from, !.to = to, !.timestamp = timestamp]

\* An event "trade"
TradeEvent(id, price, amount, side, timestamp) ==
    [Blank EXCEPT !.event = "trade", !.id = id, !.price = price, !.amount = amount,
                  !.side = side, !.timestamp = timestamp]

\* Any other event
Event(event) == [Blank EXCEPT !.event = event]

\* The answer to a request that is refused; its error code is not read.
Refused(action) == [Blank EXCEPT !.action = action]

MessageType(m) ==
    CASE m.action = "getBook"      -> "BookSnapshot"
      [] m.action = "authenticate" -> "Auth"
      [] m.action \notin {"getBook", "authenticate"} ->
            CASE m.event = "authenticate" -> "Auth"
              [] m.event = "book"  -> "BookUpdate"
              [] m.event = "trade" -> "Trade"
              [] m.event = NoText  -> "Unknown"
              [] OTHER -> "Event"

\* is_auth_confirmed
IsAuthConfirmed(m) == /\ "authenticate" \in {m.action, m.event}
                      /\ m.authenticated \/ m.success

OrZero(number) == IF number = None THEN 0 ELSE number[1]

\* book_update: an update without sequence numbers has 0.
BookUpdate(m) == [bids |-> m.bids, asks |-> m.asks, from |-> OrZero(m.from), to |-> OrZero(m.to)]

\* trade: the TradeData of the event.
TradeOf(m) == [id |-> m.id, amount |-> m.amount, price |-> m.price, side |-> m.side,
               timestamp |-> OrZero(m.timestamp)]

(* ---- lob.rs ------------------------------------------------------------ *)

\* `last' is last_mdseq.
NewBook == [bids |-> EmptySide, asks |-> EmptySide, last |-> None, pending |-> <<>>]

\* apply_snapshot: clear, insert what has a size, take over the number.
ApplySnapshot(b, snap) ==
    [b EXCEPT !.bids = Filled(snap.bids), !.asks = Filled(snap.asks), !.last = <<snap.mdseqno>>]

Upserted(levels, data) == Folded(Upsert, levels, Parsed(data))

\* apply_update: before the first snapshot it is kept, from then on only an
\* update that begins after the last number is applied.
ApplyUpdate(b, u) ==
    IF b.last = None THEN [b EXCEPT !.pending = Append(@, u)]
    ELSE IF u.from <= b.last[1] THEN b
    ELSE [b EXCEPT !.bids = Upserted(@, u.bids), !.asks = Upserted(@, u.asks), !.last = <<u.to>>]

\* drain_pending
DrainPending(b) == Folded(ApplyUpdate, [b EXCEPT !.pending = <<>>], b.pending)

ToLobItem(b, filter, ts) == LobItemOf(b, filter, ts)

\* best_bid, best_ask, spread, levels_within_pct and the totals.
Reads(b, pct) == ReadsOf(b, pct)

(* ---- ws.rs ------------------------------------------------------------- *)

NewAdapter(kinds, filter) ==
    [kinds |-> kinds, filter |-> filter, book |-> NewBook, prev |-> None, trade_seq |-> 0]

FreshAdapter(a) == NewAdapter(a.kinds, a.filter)

\* The levels per side that getBook is asked for.
GetBookDepth(a) == IF a.filter.level = NoLimit THEN 1000 ELSE a.filter.level

\* subscribe_msgs, as the channels
SubscribeMsgs(a) == (IF "lob" \in a.kinds THEN <<"book", "getbook">> ELSE <<>>)
                    \o (IF "trade" \in a.kinds THEN <<"trades">> ELSE <<>>)

EmitLob(a, ts) == Emitted(a, ToLobItem(a.book, a.filter, ts))

\* ts_ms
TsMs(timestamp, now) == IF timestamp = None THEN now ELSE timestamp[1] \div Millisecond

\* The branch BookSnapshot of handle_message.
HandleSnapshot(a, m, now) ==
    IF m.response = None THEN Silent(a) ELSE
    LET snap == m.response[1]
    IN EmitLob([a EXCEPT !.book = DrainPending(ApplySnapshot(@, snap))],
               TsMs(snap.timestamp, now))

\* The branch BookUpdate: emit_lob is called even for an update that is kept
\* or skipped.
HandleUpdate(a, m, now) ==
    EmitLob([a EXCEPT !.book = ApplyUpdate(@, BookUpdate(m))], TsMs(m.timestamp, now))

\* Trades are numbered by the adapter; their timestamp is taken as it is.
Trade(data, seq) == TradeItem(data.timestamp, OrZeroIfUnread(data.price),
                              OrZeroIfUnread(data.amount), data.side, data.id, <<seq>>)

HandleTrade(a, m) == [adapter |-> [a EXCEPT !.trade_seq = @ + 1],
                      items |-> <<Trade(TradeOf(m), a.trade_seq + 1)>>]

\* parse_message: a field of the wrong type refuses the message.
Parses(m) == Malformed \notin {m.price, m.amount}

HandleMessage(a, m, now) ==
    CASE MessageType(m) = "BookSnapshot" /\ "lob" \in a.kinds -> HandleSnapshot(a, m, now)
      [] MessageType(m) = "BookUpdate" /\ "lob" \in a.kinds   -> HandleUpdate(a, m, now)
      [] MessageType(m) = "Trade" /\ "trade" \in a.kinds      -> HandleTrade(a, m)
      [] OTHER -> Silent(a)

HandleHeartbeat(m) == MessageType(m) \in {"Auth", "Event"}

SubscriptionConfirmed(m) == m.event = "subscribed"
=============================================================================
