------------------------------- MODULE Kraken -------------------------------
(***************************************************************************)
(* The Kraken adapter (kraken/types.rs, kraken/lob.rs, kraken/ws.rs) as    *)
(* operators: an adapter is a record, handling a message gives the adapter *)
(* afterwards and the items to send.  A message has every field of         *)
(* KrakenWsMessage the code branches on; an absent field is NoText, None   *)
(* or <<>>.                                                                *)
(***************************************************************************)
EXTENDS LobBook

CONSTANT ChecksumDepth      \* levels of a side the checksum covers; 10 in the code

(* ---- types.rs ---------------------------------------------------------- *)

\* deserialize_data: an array as it is, an object as the only element.
Data(json, elements) == CASE json = "array"  -> elements
                          [] json = "object" -> <<Head(elements)>>
                          [] json = "null"   -> <<>>

\* TradeData; price and quantity are numbers, 0 when absent.
TradeData(id, price, qty, side, ts) ==
    [id |-> id, price |-> IF price = Absent THEN 0 ELSE price,
     qty |-> IF qty = Absent THEN 0 ELSE qty, side |-> side, ts |-> ts]

\* KrakenWsMessage
Message(channel, type, data, sequence) ==
    [channel |-> channel, type |-> type, data |-> data, sequence |-> sequence,
     method |-> NoText, success |-> FALSE]

\* The answer to a request.
Event(method, success) ==
    [Message(NoText, NoText, Data("null", <<>>), None) EXCEPT !.method = method, !.success = success]

MessageType(m) ==
    CASE m.channel = "book" /\ m.type = "snapshot" -> "L2Snapshot"
      [] m.channel = "book" /\ m.type = "update"   -> "L2Update"
      [] m.channel = "book" /\ m.type \notin {"snapshot", "update"} -> "L2"
      [] m.channel = "trade"      -> "Trade"
      [] m.channel = "instrument" -> "Instrument"
      [] m.channel = "heartbeat"  -> "Heartbeat"
      [] m.channel = "status"     -> "Status"
      [] m.channel = NoText /\ m.method # NoText -> "Event"
      [] OTHER -> "Unknown"

\* timestamp_ms: that of data[0]
TimestampMs(m) == IF m.data = <<>> THEN None ELSE Head(m.data).ts

(* ---- lob.rs ------------------------------------------------------------ *)

\* extract_levels: entries without a price or a quantity are dropped here.
ExtractLevels(data, side) == Parsed(data[side])

NewBook == [bids |-> EmptySide, asks |-> EmptySide, last |-> None,
            resync |-> FALSE, failed |-> FALSE]

\* repair_crossing wipes a crossed book and does not flag it.
Repaired(b) == IF IsCrossed(b) THEN Wiped(b) ELSE b

\* apply_snapshot; the ask side forgets the sequence and clears the flags.
ApplySnapshot(b, levels, side) ==
    LET filled == [b EXCEPT ![side] = Filled(levels)]
    IN Repaired(IF side = "bids" THEN filled
                ELSE [filled EXCEPT !.last = None, !.resync = FALSE, !.failed = FALSE])

ApplyUpdate(b, levels, side) ==
    Repaired(Folded(LAMBDA s, l : Guarded(s, side, l), b, levels))

\* track_sequence: any number but the next one asks for a resync.
TrackSequence(b, seq) ==
    IF seq = None THEN b
    ELSE [b EXCEPT !.last = seq,
                   !.resync = @ \/ (b.last # None /\ seq[1] # b.last[1] + 1)]

ComputeChecksum(b) == ChecksumOf(b, ChecksumDepth)

\* verify_checksum: a missing, zero or negative one passes; a mismatch sets
\* the flag, a match does not clear it.
VerifyChecksum(b, checksum) ==
    IF checksum = None THEN b
    ELSE [b EXCEPT !.failed = @ \/ ComputeChecksum(b) # checksum[1]]

\* reset
Reset(b) == NewBook

\* One side of process_msg: a side without levels is left alone.
Applied(b, action, levels, side) ==
    CASE levels # <<>> /\ action = "snapshot" -> ApplySnapshot(b, levels, side)
      [] levels # <<>> /\ action = "update"   -> ApplyUpdate(b, levels, side)
      [] OTHER -> b

\* Plausible bug: the asks are applied before the bids.
ProcessMsgAsksFirst(b, m) ==
    IF m.data = <<>> THEN b ELSE
    LET data == Head(m.data)
        asks == Applied(b, m.type, ExtractLevels(data, "asks"), "asks")
        both == Applied(asks, m.type, ExtractLevels(data, "bids"), "bids")
    IN VerifyChecksum(TrackSequence(both, m.sequence), data.checksum)

\* process_msg: only the first element of data, without a type as a snapshot.
ProcessMsg(b, m) ==
    IF m.data = <<>> THEN b ELSE
    LET data == Head(m.data)
        action == IF m.type = NoText THEN "snapshot" ELSE m.type
        bids == Applied(b, action, ExtractLevels(data, "bids"), "bids")
        both == Applied(bids, action, ExtractLevels(data, "asks"), "asks")
    IN VerifyChecksum(TrackSequence(both, m.sequence), data.checksum)

ToLobItem(b, filter, ts) == LobItemOf(b, filter, ts)

\* best_bid, best_ask, spread, levels_within_pct and the totals.
Reads(b, pct) == ReadsOf(b, pct)

(* ---- ws.rs ------------------------------------------------------------- *)

NewAdapter(kinds, filter) ==
    [kinds |-> kinds, filter |-> filter, book |-> NewBook, prev |-> None]

FreshAdapter(a) == NewAdapter(a.kinds, a.filter)

\* subscribe_msgs, as the channels
SubscribeMsgs(a) == (IF "lob" \in a.kinds THEN <<"book">> ELSE <<>>)
                    \o (IF "trade" \in a.kinds THEN <<"trade">> ELSE <<>>)

EmitLob(a, ts) == Emitted(a, ToLobItem(a.book, a.filter, ts))

ResetLocal(a) == [a EXCEPT !.book = Reset(@), !.prev = None]

OnReconnect(a) == ResetLocal(a)

\* The branches L2Snapshot, L2Update and L2 of handle_message.
HandleLob(a, m, now) ==
    LET done == [a EXCEPT !.book = ProcessMsg(@, m)]
    IN IF done.book.resync THEN Silent(ResetLocal(done))
       ELSE EmitLob(done, IF TimestampMs(m) = None THEN now ELSE TimestampMs(m)[1])

\* The sequence number is the trade id when that is a number.
Trade(data, ts) == TradeItem(ts, data.price, data.qty, data.side, data.id, data.id)

\* A trade whose price or quantity is no number is dropped whole.
HandleTrade(a, m) ==
    IF m.data = <<>> \/ {Unreadable, Malformed} \cap {Head(m.data).price, Head(m.data).qty} # {}
    THEN Silent(a)
    ELSE [adapter |-> a,
          items |-> <<Trade(Head(m.data), IF TimestampMs(m) = None THEN 0 ELSE TimestampMs(m)[1])>>]

HandleMessage(a, m, now) ==
    CASE MessageType(m) \in {"L2Snapshot", "L2Update", "L2"} /\ "lob" \in a.kinds
                                                  -> HandleLob(a, m, now)
      [] MessageType(m) = "Trade" /\ "trade" \in a.kinds -> HandleTrade(a, m)
      [] OTHER -> Silent(a)

HandleHeartbeat(m) == MessageType(m) \in {"Heartbeat", "Event"}

IsPong(m) == m.method = "pong"

\* Plausible bug: a refusal is taken for a confirmation.
SubscriptionConfirmedAnyway(m) == m.method = "subscribe"

SubscriptionConfirmed(m) == m.method = "subscribe" /\ m.success
=============================================================================
