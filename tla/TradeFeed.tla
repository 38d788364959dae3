------------------------------ MODULE TradeFeed ------------------------------
(***************************************************************************)
(* The trades of one channel from the exchange to the consumer: the tasks  *)
(* of WsLoop, reduced to the connections they hold, with the adapters of   *)
(* Okx, Kraken, Bitstamp and Bitvavo in them.  Task 1 is the one that      *)
(* run_exchange_stream spawns, task 2 the replacement it forks on silence. *)
(* The retry budget, authentication, the bounded queue and the end of the  *)
(* channel are in WsLoop: here an item that is sent is received.           *)
(***************************************************************************)
EXTENDS LobBook, FiniteSets

CONSTANTS Exchanges,    \* the adapters considered
          MaxTrades,    \* bound on the trades of the market
          MaxBatch,     \* bound on the trades OKX and Kraken put in a message
          Quotes,       \* what the exchange may say of one trade
          MaxLosses,    \* bound on lost connections
          MaxRefusals   \* bound on refused subscriptions

ASSUME TradeFeedAssumption ==
    /\ Exchanges \subseteq {"okx", "kraken", "bitstamp", "bitvavo"}
    /\ MaxBatch \in Nat \ {0}
    /\ \A q \in Quotes : /\ {q.price, q.size} \subseteq Nat \cup {Unreadable, Absent, Malformed}
                          /\ q.side \in {"buy", "sell", NoText}
    /\ {MaxTrades, MaxLosses, MaxRefusals} \subseteq Nat

O == INSTANCE Okx WITH ChecksumDepth <- 10
K == INSTANCE Kraken WITH ChecksumDepth <- 10
B == INSTANCE Bitstamp WITH Second <- 1000000
V == INSTANCE Bitvavo WITH Millisecond <- 1000000

VARIABLES exchange,
          trades,       \* the market's trades so far, 1 and up
          odd,          \* the one that is said to be like one of Quotes
          tails,        \* those that were not the first of their message
          phase,        \* task |-> unborn, dialling, reading, draining, retired
          line,         \* task |-> what the exchange says of its subscription:
                        \* none, asked, open or refused
          wire,         \* task |-> messages on the way to it
          adapter,      \* task |-> its adapter
          started,      \* replacement_started of task 1's connection
          confirmed,    \* confirmed_flag of task 2
          received,     \* the items the consumer got, with the task they are of
          losses, refusals,
          unheard,      \* history: trades of times without a subscription
          unread,       \* history: trades left behind in a connection given up
          accepted      \* history: task 2 has been subscribed

market == <<trades, odd, tails, unheard>>
counters == <<losses, refusals>>
vars == <<exchange, market, phase, line, wire, adapter, started, confirmed, received,
          counters, unread, accepted>>

Tasks == {1, 2}
Batched == exchange \in {"okx", "kraken"}

NoFilter == [level |-> NoLimit, pct |-> 0]

(* ---- the exchange ------------------------------------------------------ *)

\* What the exchange says of trade `id'; usually price, size and side are there.
QuoteOf(id) == IF id = odd.id THEN odd.quote
               ELSE [price |-> 10, size |-> 10 + id, side |-> IF id % 2 = 0 THEN "buy" ELSE "sell"]

\* Bitstamp's number for a side.
TypeOf(side) == CASE side = "buy" -> 0 [] side = "sell" -> 1 [] side = NoText -> Absent

TradeData(id) ==
    LET q == QuoteOf(id)
    IN CASE exchange = "okx"      -> O!TradeData(<<id>>, <<id>>, q.price, q.size, q.side, <<id>>)
         [] exchange = "kraken"   -> K!TradeData(<<id>>, q.price, q.size, q.side, <<id>>)
         [] exchange = "bitstamp" -> B!TradeData(id, q.price, q.size, TypeOf(q.side), <<id>>)

TradeMessage(ids) ==
    LET data == [i \in DOMAIN ids |-> TradeData(ids[i])]
        q == QuoteOf(ids[1])
    IN CASE exchange = "okx"      -> O!Message("trades", NoText, data)
         [] exchange = "kraken"   -> K!Message("trade", "update", K!Data("array", data), None)
         [] exchange = "bitstamp" -> B!Message("trade", "live_trades", <<data[1]>>)
         [] exchange = "bitvavo"  -> V!TradeEvent(<<ids[1]>>, q.price, q.size, q.side, <<ids[1]>>)

Acknowledgement ==
    CASE exchange = "okx"      -> O!Event("subscribe")
      [] exchange = "kraken"   -> K!Event("subscribe", TRUE)
      [] exchange = "bitstamp" -> B!Message("bts:subscription_succeeded", "live_trades", None)
      [] exchange = "bitvavo"  -> V!Event("subscribed")

Refusal ==
    CASE exchange = "okx"      -> O!Event("error")
      [] exchange = "kraken"   -> K!Event("subscribe", FALSE)
      [] exchange = "bitstamp" -> B!Message("bts:error", NoText, None)
      [] exchange = "bitvavo"  -> V!Refused("subscribe")

\* The trades a message carries, all of them.
CarriedIds(m) ==
    CASE exchange = "okx"      -> {m.data[i].id[1] : i \in DOMAIN m.data}
      [] exchange = "kraken"   -> {m.data[i].id[1] : i \in DOMAIN m.data}
      [] exchange = "bitstamp" -> {m.data[i].id : i \in DOMAIN m.data}
      [] exchange = "bitvavo"  -> {m.id[i] : i \in DOMAIN m.id}

OnWire(t) == UNION {CarriedIds(wire[t][i]) : i \in DOMAIN wire[t]}

Delivered == {received[i].trade : i \in DOMAIN received}

\* A message with the next n trades, to whoever is subscribed.
Publishes(n) ==
    LET ids == [i \in 1..n |-> trades + i]
    IN /\ trades + n <= MaxTrades
       /\ n > 1 => Batched
       /\ trades' = trades + n
       /\ tails' = tails \cup {ids[i] : i \in 2..n}
       /\ wire' = [t \in Tasks |-> IF line[t] = "open"
                                   THEN Append(wire[t], TradeMessage(ids)) ELSE wire[t]]
       /\ unheard' = IF \E t \in Tasks : line[t] = "open" THEN unheard ELSE unheard \cup ToSet(ids)
       /\ UNCHANGED <<exchange, odd, phase, line, adapter, started, confirmed, received,
                      counters, unread, accepted>>

Listening(t) == phase[t] \in {"reading", "draining"}

\* The exchange answers a subscription once.
Accepts(t) ==
    /\ line[t] = "asked"
    /\ line' = [line EXCEPT ![t] = "open"]
    /\ wire' = [wire EXCEPT ![t] = Append(@, Acknowledgement)]
    /\ accepted' = (accepted \/ t = 2)
    /\ UNCHANGED <<exchange, market, phase, adapter, started, confirmed, received,
                   counters, unread>>

Refuses(t) ==
    /\ line[t] = "asked" /\ refusals < MaxRefusals
    /\ line' = [line EXCEPT ![t] = "refused"]
    /\ wire' = [wire EXCEPT ![t] = Append(@, Refusal)]
    /\ refusals' = refusals + 1
    /\ UNCHANGED <<exchange, market, phase, adapter, started, confirmed, received,
                   losses, unread, accepted>>

(* ---- the loop ---------------------------------------------------------- *)

NewAdapter ==
    CASE exchange = "okx"      -> O!NewAdapter({"trade"}, NoFilter)
      [] exchange = "kraken"   -> K!NewAdapter({"trade"}, NoFilter)
      [] exchange = "bitstamp" -> B!NewAdapter({"trade"}, NoFilter, 0)
      [] exchange = "bitvavo"  -> V!NewAdapter({"trade"}, NoFilter)

FreshAdapter(a) ==
    CASE exchange = "okx"      -> O!FreshAdapter(a)
      [] exchange = "kraken"   -> K!FreshAdapter(a)
      [] exchange = "bitstamp" -> B!FreshAdapter(a)
      [] exchange = "bitvavo"  -> V!FreshAdapter(a)

OnReconnect(a) ==
    CASE exchange = "okx"      -> O!OnReconnect(a)
      [] exchange = "kraken"   -> K!OnReconnect(a)
      [] exchange = "bitstamp" -> B!OnConnect(a)
      [] exchange = "bitvavo"  -> a

OnConnect(a) == IF exchange = "bitstamp" THEN B!OnConnect(a) ELSE a

Handled(a, m) ==
    CASE exchange = "okx"      -> O!HandleMessage(a, m, 0)
      [] exchange = "kraken"   -> K!HandleMessage(a, m, 0)
      [] exchange = "bitstamp" -> B!HandleMessage(a, m, 0)
      [] exchange = "bitvavo"  -> IF V!Parses(m) THEN V!HandleMessage(a, m, 0) ELSE Silent(a)

\* subscription_confirmed; by default FALSE.
SubscriptionConfirmed(m) ==
    CASE exchange = "kraken"  -> K!SubscriptionConfirmed(m)
      [] exchange = "bitvavo" -> V!SubscriptionConfirmed(m)
      [] OTHER -> FALSE

\* Dialled and subscribed; a connection starts without a replacement.
Connect(t) ==
    /\ phase[t] = "dialling"
    /\ phase' = [phase EXCEPT ![t] = "reading"]
    /\ line' = [line EXCEPT ![t] = "asked"]
    /\ adapter' = [adapter EXCEPT ![t] = OnConnect(@)]
    /\ started' = (started /\ t # 1)
    /\ UNCHANGED <<exchange, market, wire, confirmed, received, counters, unread, accepted>>

\* The trades on the wire of t are left behind.
Abandons(t, next) ==
    /\ phase' = [phase EXCEPT ![t] = next]
    /\ line' = [line EXCEPT ![t] = "none"]
    /\ wire' = [wire EXCEPT ![t] = <<>>]
    /\ unread' = unread \cup OnWire(t)

\* The item of a message goes to the consumer.
Sends(t, m) ==
    LET h == Handled(adapter[t], m)
    IN /\ adapter' = [adapter EXCEPT ![t] = h.adapter]
       /\ received' = received \o [i \in DOMAIN h.items |->
              [by |-> t, trade |-> h.items[i].trade_id[1], seq_id |-> h.items[i].seq_id[1],
               item |-> h.items[i]]]
       /\ confirmed' = (confirmed \/ (t = 2 /\ (h.items # <<>> \/ SubscriptionConfirmed(m))))

\* The read loop, and after each message the look at the flag.
Reads(t) ==
    /\ phase[t] = "reading" /\ wire[t] # <<>>
    /\ Sends(t, Head(wire[t]))
    /\ wire' = [wire EXCEPT ![t] = Tail(@)]
    /\ ~(t = 1 /\ started /\ confirmed)
    /\ UNCHANGED <<exchange, market, phase, line, started, counters, unread, accepted>>

ReadsAndRetires ==
    /\ phase[1] = "reading" /\ wire[1] # <<>> /\ started /\ confirmed
    /\ Sends(1, Head(wire[1]))
    /\ phase' = [phase EXCEPT ![1] = "retired"]
    /\ line' = [line EXCEPT ![1] = "none"]
    /\ wire' = [wire EXCEPT ![1] = <<>>]
    /\ unread' = unread \cup (OnWire(1) \ CarriedIds(Head(wire[1])))
    /\ UNCHANGED <<exchange, market, started, counters, accepted>>

\* Silence on the root: a replacement with an adapter of its own.
Forks ==
    /\ phase[1] = "reading" /\ ~started /\ phase[2] = "unborn"
    /\ phase' = [phase EXCEPT ![2] = "dialling"]
    /\ adapter' = [adapter EXCEPT ![2] = FreshAdapter(adapter[1])]
    /\ started' = TRUE
    /\ UNCHANGED <<exchange, market, line, wire, confirmed, received, counters, unread, accepted>>

\* The second silence, before the replacement has confirmed.
StartsDraining ==
    /\ phase[1] = "reading" /\ started /\ ~confirmed
    /\ phase' = [phase EXCEPT ![1] = "draining"]
    /\ UNCHANGED <<exchange, market, line, wire, adapter, started, confirmed, received,
                   counters, unread, accepted>>

\* Plausible bug: what arrives while draining is read and dropped.
DrainsMute ==
    /\ phase[1] = "draining" /\ wire[1] # <<>>
    /\ wire' = [wire EXCEPT ![1] = Tail(@)]
    /\ UNCHANGED <<exchange, market, phase, line, adapter, started, confirmed, received,
                   counters, unread, accepted>>

Drains ==
    /\ phase[1] = "draining" /\ wire[1] # <<>>
    /\ Sends(1, Head(wire[1]))
    /\ wire' = [wire EXCEPT ![1] = Tail(@)]
    /\ UNCHANGED <<exchange, market, phase, line, started, counters, unread, accepted>>

\* The flag found set at the second silence or by the 500 ms check.
Retires ==
    /\ Listening(1) /\ started /\ confirmed
    /\ Abandons(1, "retired")
    /\ UNCHANGED <<exchange, market, adapter, started, confirmed, received, counters, accepted>>

\* Closed by the exchange, silent without a replacement or not confirmed in
\* time: the task goes through on_reconnect and dials again.
Loses(t) ==
    /\ Listening(t) /\ losses < MaxLosses
    /\ Abandons(t, "dialling")
    /\ adapter' = [adapter EXCEPT ![t] = OnReconnect(@)]
    /\ losses' = losses + 1
    /\ UNCHANGED <<exchange, market, started, confirmed, received, refusals, accepted>>

Init ==
    /\ exchange \in Exchanges
    /\ trades = 0 /\ tails = {} /\ unheard = {}
    /\ odd \in [id : 1..MaxTrades, quote : Quotes]
    /\ phase = [t \in Tasks |-> IF t = 1 THEN "dialling" ELSE "unborn"]
    /\ line = [t \in Tasks |-> "none"]
    /\ wire = [t \in Tasks |-> <<>>]
    /\ adapter = [t \in Tasks |-> NewAdapter]
    /\ started = FALSE /\ confirmed = FALSE /\ received = <<>>
    /\ losses = 0 /\ refusals = 0 /\ unread = {} /\ accepted = FALSE

Next ==
    \/ \E n \in 1..MaxBatch : Publishes(n)
    \/ \E t \in Tasks : Accepts(t) \/ Refuses(t) \/ Connect(t) \/ Reads(t) \/ Loses(t)
    \/ ReadsAndRetires \/ Forks \/ StartsDraining \/ Drains \/ Retires

Spec == Init /\ [][Next]_vars

(* ---- properties ------------------------------------------------------- *)

\* A trade that neither reached the consumer nor is on its way was not the
\* first of its message, had a price or size of the wrong JSON type, which on
\* Kraken a string is, was made while no connection was subscribed, or was
\* still unread on a connection that was lost or retired; nothing else is
\* missing, and in particular nothing for the time the old connection drains
\* (handle_message, phases 1 and 2 of run_ws_loop).
MissingIsExplained ==
    \A id \in 1..trades :
       \/ id \in Delivered \/ \E t \in Tasks : id \in OnWire(t)
       \/ id \in tails \/ id \in unheard \/ id \in unread
       \/ Malformed \in {QuoteOf(id).price, QuoteOf(id).size}
       \/ exchange = "kraken" /\ Unreadable \in {QuoteOf(id).price, QuoteOf(id).size}

\* An item says of its trade what the exchange said, whichever connection it
\* came through: a number that is there is never changed and one that cannot
\* be read is 0; a side that is missing stays empty, except that Bitstamp's
\* trades are then taken for purchases (TradeData, side(), TradeItem).
ItemsTellTrades ==
    \A i \in DOMAIN received :
       LET item == received[i].item
           q == QuoteOf(received[i].trade)
       IN /\ item.price = IF q.price \in Nat THEN q.price ELSE 0
          /\ item.size = IF q.size \in Nat THEN q.size ELSE 0
          /\ \/ item.side = q.side
             \/ exchange = "bitstamp" /\ q.side = NoText /\ item.side = "buy"

\* Those of the first n items that task t sent, by their positions.
SentBy(t, n) == {j \in 1..n : received[j].by = t}

\* On OKX and Kraken two items have the same sequence number exactly when
\* they are of the same trade, so a consumer can drop what a handover repeats;
\* on Bitstamp and Bitvavo each task numbers its items 1, 2, 3 and so on
\* through every reconnect, a replacement from 1 again (HandleTrade,
\* on_reconnect, fresh_adapter): the number tells a trade within a task only,
\* which is less than the documents promise (NumbersGoUp).
NumbersTellTrades ==
    IF Batched
    THEN \A i, j \in DOMAIN received :
            received[i].seq_id = received[j].seq_id <=> received[i].trade = received[j].trade
    ELSE \A i \in DOMAIN received :
            received[i].seq_id = Cardinality(SentBy(received[i].by, i))

\* Bitstamp's numbers as the README promises them, a "synthetic monotonic
\* counter that persists across reconnects"; ADR-007 has it that "the counter
\* only resets on process restart".  It does not hold: fresh_adapter starts
\* another one in the same stream.
NumbersGoUp ==
    exchange = "bitstamp" =>
       \A i, j \in DOMAIN received : i < j => received[i].seq_id <= received[j].seq_id

\* The old connection retires only for a replacement whose subscription the
\* exchange has accepted: an answer that refuses it, or any other answer,
\* does not confirm it (subscription_confirmed, the check of the flag).
RetiresForAccepted == phase[1] = "retired" => accepted
=============================================================================
