-------------------------------- MODULE Okx ---------------------------------
(***************************************************************************)
(* The OKX adapter (okx/types.rs, okx/lob.rs, okx/ws.rs) as operators: an  *)
(* adapter is a record, handling a message gives the adapter afterwards    *)
(* and the items to send.  A message has every field of OkxWsMessage the   *)
(* code branches on; an absent field is NoText, None or <<>>.              *)
(***************************************************************************)
EXTENDS LobBook

CONSTANT ChecksumDepth      \* levels of a side the checksum covers; 10 in the code

(* ---- types.rs ---------------------------------------------------------- *)

\* OkxWsMessage; `data' holds books or trades.
Message(channel, action, data) ==
    [event |-> NoText, channel |-> channel, action |-> action, data |-> data]

Event(event) == [event |-> event, channel |-> NoText, action |-> NoText, data |-> <<>>]

MessageType(m) ==
    IF m.event # NoText THEN "Event"
    ELSE CASE m.channel = "books" /\ m.action = "snapshot" -> "L2Snapshot"
           [] m.channel = "books" /\ m.action = "update"   -> "L2Update"
           [] m.channel = "books" /\ m.action \notin {"snapshot", "update"} -> "L2"
           [] m.channel = "trades" -> "Trade"
           [] OTHER -> "Unknown"

\* timestamp_ms: that of data[0]
TimestampMs(m) == IF m.data = <<>> THEN None ELSE Head(m.data).ts

\* TradeData; every field but the sequence number is a string.
TradeData(id, seq, px, sz, side, ts) ==
    [id |-> id, seq |-> seq, px |-> px, sz |-> sz, side |-> side, ts |-> ts]

\* extract_levels: entries that are not arrays are dropped, strings are not
\* parsed yet.
ExtractLevels(data, side) == data[side]

(* ---- lob.rs ------------------------------------------------------------ *)

NewBook == [bids |-> EmptySide, asks |-> EmptySide, resync |-> FALSE, failed |-> FALSE]

\* repair_crossing wipes a crossed book and flags it.
Repaired(b) == IF IsCrossed(b) THEN [Wiped(b) EXCEPT !.resync = TRUE] ELSE b

\* apply_snapshot; the ask side clears the flags.
ApplySnapshot(b, levels, side) ==
    Repaired([b EXCEPT ![side] = Filled(levels),
                       !.resync = @ /\ side = "bids", !.failed = @ /\ side = "bids"])

ApplyUpdate(b, levels, side) ==
    Repaired(Folded(LAMBDA s, l : Guarded(s, side, l), b, Parsed(levels)))

ComputeChecksum(b) == ChecksumOf(b, ChecksumDepth)

\* verify_checksum: a missing, zero or negative one passes; a mismatch sets
\* the flag, a match does not clear it.
VerifyChecksum(b, checksum) ==
    IF checksum = None THEN b
    ELSE [b EXCEPT !.failed = @ \/ ComputeChecksum(b) # checksum[1]]

\* reset
Reset(b) == [Wiped(b) EXCEPT !.resync = FALSE, !.failed = FALSE]

\* One side of process_msg: a side without levels is left alone.
Applied(b, action, levels, side) ==
    CASE levels # <<>> /\ action = "snapshot" -> ApplySnapshot(b, levels, side)
      [] levels # <<>> /\ action = "update"   -> ApplyUpdate(b, levels, side)
      [] OTHER -> b

\* Plausible bug: the checksum is verified before the levels are applied.
ProcessMsgVerifiesFirst(b, m) ==
    IF m.data = <<>> THEN b ELSE
    LET data == Head(m.data)
        bids == Applied(VerifyChecksum(b, data.checksum), m.action,
                        ExtractLevels(data, "bids"), "bids")
    IN Applied(bids, m.action, ExtractLevels(data, "asks"), "asks")

\* process_msg: only the first element of data, without an action as a snapshot.
ProcessMsg(b, m) ==
    IF m.data = <<>> THEN b ELSE
    LET data == Head(m.data)
        action == IF m.action = NoText THEN "snapshot" ELSE m.action
        bids == Applied(b, action, ExtractLevels(data, "bids"), "bids")
        both == Applied(bids, action, ExtractLevels(data, "asks"), "asks")
    IN VerifyChecksum(both, data.checksum)

ToLobItem(b, filter, ts) == LobItemOf(b, filter, ts)

\* best_bid, best_ask, spread, levels_within_pct and the totals.
Reads(b, pct) == ReadsOf(b, pct)

(* ---- ws.rs ------------------------------------------------------------- *)

NewAdapter(kinds, filter) ==
    [kinds |-> kinds, filter |-> filter, book |-> NewBook, prev |-> None]

FreshAdapter(a) == NewAdapter(a.kinds, a.filter)

\* subscribe_msgs, as the channels
SubscribeMsgs(a) == (IF "lob" \in a.kinds THEN <<"books">> ELSE <<>>)
                    \o (IF "trade" \in a.kinds THEN <<"trades">> ELSE <<>>)

EmitLob(a, ts) == Emitted(a, ToLobItem(a.book, a.filter, ts))

ResetLocal(a) == [a EXCEPT !.book = Reset(@), !.prev = None]

OnReconnect(a) == ResetLocal(a)

\* The branches L2Snapshot, L2Update and L2 of handle_message.
HandleLob(a, m, now) ==
    LET done == [a EXCEPT !.book = ProcessMsg(@, m)]
        default == IF MessageType(m) = "L2" THEN 0 ELSE now
    IN IF done.book.resync THEN Silent(ResetLocal(done))
       ELSE EmitLob(done, IF TimestampMs(m) = None THEN default ELSE TimestampMs(m)[1])

\* The TradeItem of a trade; numbers that cannot be read become 0.
Trade(data, ts) == TradeItem(ts, OrZeroIfUnread(data.px), OrZeroIfUnread(data.sz), data.side,
                             data.id, data.seq)

\* Only the first trade of a message; one with a field that is no string is
\* dropped whole.
HandleTrade(a, m) ==
    IF m.data = <<>> \/ Malformed \in {Head(m.data).px, Head(m.data).sz} THEN Silent(a)
    ELSE [adapter |-> a,
          items |-> <<Trade(Head(m.data), IF TimestampMs(m) = None THEN 0 ELSE TimestampMs(m)[1])>>]

HandleMessage(a, m, now) ==
    CASE MessageType(m) \in {"L2Snapshot", "L2Update", "L2"} /\ "lob" \in a.kinds
                                                  -> HandleLob(a, m, now)
      [] MessageType(m) = "Trade" /\ "trade" \in a.kinds -> HandleTrade(a, m)
      [] OTHER -> Silent(a)

HandleHeartbeat(m) == MessageType(m) = "Event"

IsPong(m) == m.event = "pong"

\* server_ping_response is Some
AnswersPing(m) == m.event = "ping"
=============================================================================
