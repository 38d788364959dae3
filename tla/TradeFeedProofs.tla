-------------------------- MODULE TradeFeedProofs ---------------------------
(***************************************************************************)
(* Proofs about the trades of a channel, for every exchange modelled, any  *)
(* number of trades, message sizes, lost connections and refusals: no      *)
(* trade is missing without a reason, the items say what the exchange      *)
(* said, their numbers tell trades apart or count them, and the old        *)
(* connection retires only for an accepted one.                            *)
(***************************************************************************)
EXTENDS TradeFeed, FiniteSetTheorems, SequenceTheorems, TLAPS

(* ---- what one message does --------------------------------------------- *)

\* An adapter that keeps trades only is a new one but for its number.
AdapterAt(n) ==
    IF exchange \in {"bitstamp", "bitvavo"} THEN [NewAdapter EXCEPT !.trade_seq = n] ELSE NewAdapter

\* What the properties say of an item.
Tells(item, q) ==
    /\ item.price = IF q.price \in Nat THEN q.price ELSE 0
    /\ item.size = IF q.size \in Nat THEN q.size ELSE 0
    /\ \/ item.side = q.side
       \/ exchange = "bitstamp" /\ q.side = NoText /\ item.side = "buy"

\* The trade is one whose message is dropped.
Unsaid(id) ==
    \/ Malformed \in {QuoteOf(id).price, QuoteOf(id).size}
    \/ exchange = "kraken" /\ Unreadable \in {QuoteOf(id).price, QuoteOf(id).size}

IdSeq == {ids \in Seq(Nat \ {0}) : ids # <<>>}

\* The item that a message with trade id first makes of an adapter at n.
IsItem(item, id, n) ==
    /\ item.trade_id = <<id>>
    /\ item.seq_id = IF Batched THEN <<id>> ELSE <<n + 1>>
    /\ Tells(item, QuoteOf(id))

\* The message of the trades ids is dropped or makes an item of the first.
HandlesTrade(ids, n) ==
    LET h == Handled(AdapterAt(n), TradeMessage(ids))
    IN \/ h = Silent(AdapterAt(n)) /\ Unsaid(ids[1])
       \/ \E item : /\ h = [adapter |-> AdapterAt(n + 1), items |-> <<item>>]
                    /\ IsItem(item, ids[1], n)

LEMMA Texts == NoText \notin {"trades", "trade", "buy", "sell", "subscribe", "error", "getBook", "authenticate",
                           "subscribed", "bts:subscription_succeeded", "bts:error", "live_trades", "live_orders"}
BY Zenon DEF NoText

LEMMA InstanceConstants ==
    /\ O!NoText = NoText /\ K!NoText = NoText /\ B!NoText = NoText /\ V!NoText = NoText
    /\ O!None = None /\ K!None = None /\ B!None = None /\ V!None = None
    /\ O!Malformed = Malformed /\ K!Malformed = Malformed /\ B!Malformed = Malformed
    /\ V!Malformed = Malformed
    /\ K!Unreadable = Unreadable
    /\ \A n : /\ O!OrZeroIfUnread(n) = OrZeroIfUnread(n) /\ B!OrZeroIfUnread(n) = OrZeroIfUnread(n)
              /\ V!OrZeroIfUnread(n) = OrZeroIfUnread(n)
<1>1. /\ O!NoText = NoText /\ K!NoText = NoText /\ B!NoText = NoText /\ V!NoText = NoText
  BY Zenon DEF NoText, O!NoText, K!NoText, B!NoText, V!NoText
<1>2. /\ O!None = None /\ K!None = None /\ B!None = None /\ V!None = None
      /\ O!Malformed = Malformed /\ K!Malformed = Malformed /\ B!Malformed = Malformed
      /\ V!Malformed = Malformed
      /\ K!Unreadable = Unreadable
  BY DEF None, O!None, K!None, B!None, V!None, Malformed, O!Malformed, K!Malformed,
         B!Malformed, V!Malformed, Unreadable, K!Unreadable
<1>3. \A n : /\ O!OrZeroIfUnread(n) = OrZeroIfUnread(n) /\ B!OrZeroIfUnread(n) = OrZeroIfUnread(n)
            /\ V!OrZeroIfUnread(n) = OrZeroIfUnread(n)
  BY DEF OrZeroIfUnread, O!OrZeroIfUnread, B!OrZeroIfUnread, V!OrZeroIfUnread, Unreadable, Absent,
         O!Unreadable, O!Absent, B!Unreadable, B!Absent, V!Unreadable, V!Absent
<1> QED BY <1>1, <1>2, <1>3

LEMMA QuoteFacts ==
    ASSUME odd \in [id : Nat, quote : Quotes], NEW id \in Nat \ {0}
    PROVE  /\ QuoteOf(id).price \in Nat \cup {Unreadable, Absent, Malformed}
           /\ QuoteOf(id).size \in Nat \cup {Unreadable, Absent, Malformed}
           /\ QuoteOf(id).side \in {"buy", "sell", NoText}
<1>1. CASE id = odd.id
  <2>1. QuoteOf(id) = odd.quote /\ odd.quote \in Quotes
    BY <1>1 DEF QuoteOf
  <2> QED BY <2>1, TradeFeedAssumption
<1>2. CASE id # odd.id
  BY <1>2 DEF QuoteOf
<1> QED BY <1>1, <1>2

LEMMA OkxHandlesTrade ==
    ASSUME exchange = "okx", odd \in [id : Nat, quote : Quotes], NEW ids \in IdSeq, NEW n \in Nat
    PROVE  HandlesTrade(ids, n)
<1> DEFINE q == QuoteOf(ids[1])
           data == [i \in DOMAIN ids |-> TradeData(ids[i])]
           m == TradeMessage(ids)
<1>1. ids[1] \in Nat \ {0} /\ 1 \in DOMAIN ids /\ Len(ids) \in Nat \ {0}
  BY DEF IdSeq
<1>2. /\ q.price \in Nat \cup {Unreadable, Absent, Malformed}
      /\ q.size \in Nat \cup {Unreadable, Absent, Malformed}
  BY <1>1, QuoteFacts
<1>3. m = O!Message("trades", NoText, data)
  BY DEF TradeMessage
<1>4. /\ m.event = NoText /\ m.channel = "trades" /\ m.data = data
  BY <1>3, InstanceConstants DEF O!Message
<1>5. data # <<>> /\ Head(data) = TradeData(ids[1])
  BY <1>1
<1>6. TradeData(ids[1]) = O!TradeData(<<ids[1]>>, <<ids[1]>>, q.price, q.size, q.side, <<ids[1]>>)
  BY DEF TradeData
<1>7. /\ Head(data).px = q.price /\ Head(data).sz = q.size /\ Head(data).side = q.side
      /\ Head(data).id = <<ids[1]>> /\ Head(data).seq = <<ids[1]>>
  BY <1>5, <1>6 DEF O!TradeData
<1>8. O!MessageType(m) = "Trade"
  BY <1>4, InstanceConstants DEF O!MessageType
<1>9. NewAdapter.kinds = {"trade"} /\ AdapterAt(n) = NewAdapter /\ AdapterAt(n + 1) = NewAdapter
  BY DEF NewAdapter, O!NewAdapter, AdapterAt
<1>10. Handled(AdapterAt(n), m) = O!HandleTrade(NewAdapter, m)
  BY <1>8, <1>9 DEF Handled, O!HandleMessage
<1> HIDE DEF data, m
<1>11. CASE Malformed \in {q.price, q.size}
  BY <1>4, <1>5, <1>7, <1>9, <1>10, <1>11, InstanceConstants DEF O!HandleTrade, HandlesTrade, Unsaid, m, O!Silent, Silent
<1>12. CASE Malformed \notin {q.price, q.size}
  <2> DEFINE ts == IF O!TimestampMs(m) = None THEN 0 ELSE O!TimestampMs(m)[1]
             item == O!Trade(Head(data), ts)
  <2>1. O!HandleTrade(NewAdapter, m) = [adapter |-> NewAdapter, items |-> <<item>>]
    BY <1>4, <1>5, <1>7, <1>12, InstanceConstants DEF O!HandleTrade
  <2>2. /\ item.trade_id = <<ids[1]>> /\ item.seq_id = <<ids[1]>> /\ item.side = q.side
        /\ item.price = O!OrZeroIfUnread(q.price) /\ item.size = O!OrZeroIfUnread(q.size)
    BY <1>7 DEF O!Trade, O!TradeItem
  <2> HIDE DEF item
  <2>3. IsItem(item, ids[1], n)
    BY <1>2, <1>12, <2>2, InstanceConstants DEF IsItem, Tells, Batched, OrZeroIfUnread,
                                                Unreadable, Absent, Malformed
  <2> QED BY <1>9, <1>10, <2>1, <2>3 DEF HandlesTrade, m
<1> QED BY <1>11, <1>12

LEMMA KrakenHandlesTrade ==
    ASSUME exchange = "kraken", odd \in [id : Nat, quote : Quotes], NEW ids \in IdSeq, NEW n \in Nat
    PROVE  HandlesTrade(ids, n)
<1> DEFINE q == QuoteOf(ids[1])
           data == [i \in DOMAIN ids |-> TradeData(ids[i])]
           m == TradeMessage(ids)
<1>1. ids[1] \in Nat \ {0} /\ 1 \in DOMAIN ids /\ Len(ids) \in Nat \ {0}
  BY DEF IdSeq
<1>2. /\ q.price \in Nat \cup {Unreadable, Absent, Malformed}
      /\ q.size \in Nat \cup {Unreadable, Absent, Malformed}
  BY <1>1, QuoteFacts
<1>3. m = K!Message("trade", "update", data, None)
  BY DEF TradeMessage, K!Data
<1>4. /\ m.channel = "trade" /\ m.data = data
  BY <1>3 DEF K!Message
<1>5. data # <<>> /\ Head(data) = TradeData(ids[1])
  BY <1>1
<1>6. TradeData(ids[1]) = K!TradeData(<<ids[1]>>, q.price, q.size, q.side, <<ids[1]>>)
  BY DEF TradeData
<1>7. /\ Head(data).price = (IF q.price = Absent THEN 0 ELSE q.price)
      /\ Head(data).qty = (IF q.size = Absent THEN 0 ELSE q.size)
      /\ Head(data).side = q.side /\ Head(data).id = <<ids[1]>>
  BY <1>5, <1>6, InstanceConstants DEF K!TradeData, K!Absent, Absent
<1>8. K!MessageType(m) = "Trade"
  BY <1>4, InstanceConstants, Texts DEF K!MessageType
<1>9. NewAdapter.kinds = {"trade"} /\ AdapterAt(n) = NewAdapter /\ AdapterAt(n + 1) = NewAdapter
  BY DEF NewAdapter, K!NewAdapter, AdapterAt
<1>10. Handled(AdapterAt(n), m) = K!HandleTrade(NewAdapter, m)
  BY <1>8, <1>9 DEF Handled, K!HandleMessage
<1>11. {Unreadable, Malformed} \cap {Head(data).price, Head(data).qty} # {}
       <=> {Unreadable, Malformed} \cap {q.price, q.size} # {}
  BY <1>2, <1>7 DEF Unreadable, Malformed, Absent
<1> HIDE DEF data, m
<1>12. CASE {Unreadable, Malformed} \cap {q.price, q.size} # {}
  BY <1>4, <1>5, <1>9, <1>10, <1>11, <1>12, InstanceConstants
     DEF K!HandleTrade, HandlesTrade, Unsaid, m, K!Silent, Silent
<1>13. CASE {Unreadable, Malformed} \cap {q.price, q.size} = {}
  <2> DEFINE ts == IF K!TimestampMs(m) = None THEN 0 ELSE K!TimestampMs(m)[1]
             item == K!Trade(Head(data), ts)
  <2>1. K!HandleTrade(NewAdapter, m) = [adapter |-> NewAdapter, items |-> <<item>>]
    BY <1>4, <1>5, <1>11, <1>13, InstanceConstants DEF K!HandleTrade
  <2>2. /\ item.trade_id = <<ids[1]>> /\ item.seq_id = <<ids[1]>> /\ item.side = q.side
        /\ item.price = (IF q.price = Absent THEN 0 ELSE q.price)
        /\ item.size = (IF q.size = Absent THEN 0 ELSE q.size)
    BY <1>7 DEF K!Trade, K!TradeItem
  <2> HIDE DEF item
  <2>3. IsItem(item, ids[1], n)
    <3>1. {Unreadable, Malformed} \cap {q.price, q.size} = {} => /\ q.price \in Nat \cup {Absent}
                                                                 /\ q.size \in Nat \cup {Absent}
      BY <1>2
    <3>2. item.price = (IF q.price \in Nat THEN q.price ELSE 0)
      BY <1>13, <2>2, <3>1 DEF Absent
    <3>3. item.size = (IF q.size \in Nat THEN q.size ELSE 0)
      BY <1>13, <2>2, <3>1 DEF Absent
    <3> QED BY <2>2, <3>2, <3>3 DEF IsItem, Tells, Batched
  <2> QED BY <1>9, <1>10, <2>1, <2>3 DEF HandlesTrade, m
<1> QED BY <1>12, <1>13

LEMMA BitstampHandlesTrade ==
    ASSUME exchange = "bitstamp", odd \in [id : Nat, quote : Quotes], NEW ids \in IdSeq, NEW n \in Nat
    PROVE  HandlesTrade(ids, n)
<1> DEFINE q == QuoteOf(ids[1])
           data == TradeData(ids[1])
           m == TradeMessage(ids)
<1>1. ids[1] \in Nat \ {0} /\ 1 \in DOMAIN ids /\ Len(ids) \in Nat \ {0}
  BY DEF IdSeq
<1>2. /\ q.price \in Nat \cup {Unreadable, Absent, Malformed}
      /\ q.size \in Nat \cup {Unreadable, Absent, Malformed}
      /\ q.side \in {"buy", "sell", NoText}
  BY <1>1, QuoteFacts
<1>3. m = B!Message("trade", "live_trades", <<data>>)
  BY <1>1 DEF TradeMessage
<1>4. /\ m.event = "trade" /\ m.data = <<data>>
  BY <1>3 DEF B!Message
<1>5. data = B!TradeData(ids[1], q.price, q.size, TypeOf(q.side), <<ids[1]>>)
  BY DEF TradeData
<1>6. /\ data.price = (IF q.price = Malformed THEN None ELSE <<q.price>>)
      /\ data.amount = (IF q.size = Malformed THEN None ELSE <<q.size>>)
      /\ data.id = ids[1]
      /\ data.type = OrZeroIfUnread(TypeOf(q.side))
  BY <1>5, InstanceConstants DEF B!TradeData, B!NumberOrString, B!NumberOrZero
<1>7. B!MessageType(m) = "Trade"
  BY <1>4, InstanceConstants, Texts DEF B!MessageType
<1>8. /\ AdapterAt(n).kinds = {"trade"} /\ AdapterAt(n).trade_seq = n
      /\ [AdapterAt(n) EXCEPT !.trade_seq = n + 1] = AdapterAt(n + 1)
  BY DEF NewAdapter, B!NewAdapter, AdapterAt
<1>9. Handled(AdapterAt(n), m) = B!HandleTrade(AdapterAt(n), m)
  BY <1>7, <1>8 DEF Handled, B!HandleMessage
<1>10. <<q.price>> # None /\ <<q.size>> # None
  BY DEF None
<1> HIDE DEF data, m
<1>11. CASE Malformed \in {q.price, q.size}
  BY <1>4, <1>6, <1>9, <1>10, <1>11, InstanceConstants
     DEF B!HandleTrade, HandlesTrade, Unsaid, m, B!Silent, Silent
<1>12. CASE Malformed \notin {q.price, q.size}
  <2> DEFINE ts == IF B!TimestampMs(m) = None THEN 0 ELSE B!TimestampMs(m)[1]
             item == B!Trade(data, ts, n + 1)
  <2>1. m.data # None /\ None \notin {data.price, data.amount} /\ m.data[1] = data
    BY <1>4, <1>6, <1>10, <1>12 DEF None
  <2>2. B!HandleTrade(AdapterAt(n), m) = [adapter |-> AdapterAt(n + 1), items |-> <<item>>]
    BY <1>8, <2>1, InstanceConstants DEF B!HandleTrade
  <2>3. data.price[1] = q.price /\ data.amount[1] = q.size
    BY <1>6, <1>12
  <2>4. /\ item.trade_id = <<ids[1]>> /\ item.seq_id = <<n + 1>> /\ item.side = B!Side(data)
        /\ item.price = OrZeroIfUnread(q.price) /\ item.size = OrZeroIfUnread(q.size)
    BY <1>1, <1>6, <2>3, InstanceConstants DEF B!Trade, B!TradeItem
  <2>5. B!Side(data) = (IF q.side = NoText THEN "buy" ELSE q.side)
    BY <1>2, <1>6, Texts DEF B!Side, TypeOf, OrZeroIfUnread, Absent, Unreadable
  <2> HIDE DEF item
  <2>6. IsItem(item, ids[1], n)
    BY <1>2, <1>12, <2>4, <2>5 DEF IsItem, Tells, Batched, OrZeroIfUnread, Unreadable, Absent, Malformed
  <2> QED BY <1>9, <2>2, <2>6 DEF HandlesTrade, m
<1> QED BY <1>11, <1>12

LEMMA BitvavoHandlesTrade ==
    ASSUME exchange = "bitvavo", odd \in [id : Nat, quote : Quotes], NEW ids \in IdSeq, NEW n \in Nat
    PROVE  HandlesTrade(ids, n)
<1> DEFINE q == QuoteOf(ids[1])
           m == TradeMessage(ids)
<1>1. ids[1] \in Nat \ {0} /\ 1 \in DOMAIN ids /\ Len(ids) \in Nat \ {0}
  BY DEF IdSeq
<1>2. /\ q.price \in Nat \cup {Unreadable, Absent, Malformed}
      /\ q.size \in Nat \cup {Unreadable, Absent, Malformed}
  BY <1>1, QuoteFacts
<1>3. m = V!TradeEvent(<<ids[1]>>, q.price, q.size, q.side, <<ids[1]>>)
  BY DEF TradeMessage
<1>4. /\ m.event = "trade" /\ m.action = NoText /\ m.id = <<ids[1]>> /\ m.price = q.price
      /\ m.amount = q.size /\ m.side = q.side
  BY <1>3, InstanceConstants DEF V!TradeEvent, V!Blank
<1>5. V!MessageType(m) = "Trade"
  BY <1>4, InstanceConstants, Texts DEF V!MessageType
<1>6. /\ AdapterAt(n).kinds = {"trade"} /\ AdapterAt(n).trade_seq = n
      /\ [AdapterAt(n) EXCEPT !.trade_seq = n + 1] = AdapterAt(n + 1)
  BY DEF NewAdapter, V!NewAdapter, AdapterAt
<1>7. V!HandleMessage(AdapterAt(n), m, 0) = V!HandleTrade(AdapterAt(n), m)
  BY <1>5, <1>6 DEF V!HandleMessage
<1> HIDE DEF m
<1>8. CASE Malformed \in {q.price, q.size}
  <2>1. ~V!Parses(m)
    BY <1>4, <1>8, InstanceConstants DEF V!Parses
  <2>2. Handled(AdapterAt(n), m) = Silent(AdapterAt(n))
    BY <2>1 DEF Handled
  <2> QED BY <1>8, <2>2 DEF HandlesTrade, Unsaid, m
<1>9. CASE Malformed \notin {q.price, q.size}
  <2> DEFINE item == V!Trade(V!TradeOf(m), n + 1)
  <2>1. V!Parses(m)
    BY <1>4, <1>9, InstanceConstants DEF V!Parses
  <2>2. Handled(AdapterAt(n), m) = [adapter |-> AdapterAt(n + 1), items |-> <<item>>]
    BY <1>6, <1>7, <2>1 DEF Handled, V!HandleTrade
  <2>3. /\ item.trade_id = <<ids[1]>> /\ item.seq_id = <<n + 1>> /\ item.side = q.side
        /\ item.price = OrZeroIfUnread(q.price) /\ item.size = OrZeroIfUnread(q.size)
    BY <1>4, InstanceConstants DEF V!Trade, V!TradeItem, V!TradeOf
  <2> HIDE DEF item
  <2>4. IsItem(item, ids[1], n)
    BY <1>2, <1>9, <2>3 DEF IsItem, Tells, Batched, OrZeroIfUnread, Unreadable, Absent, Malformed
  <2> QED BY <2>2, <2>4 DEF HandlesTrade, m
<1> QED BY <1>8, <1>9

Known == exchange \in {"okx", "kraken", "bitstamp", "bitvavo"}

\* An answer to a subscription makes no item and carries no trade.
LEMMA Answers ==
    ASSUME Known, NEW n \in Nat, NEW m \in {Acknowledgement, Refusal}
    PROVE  Handled(AdapterAt(n), m) = Silent(AdapterAt(n)) /\ CarriedIds(m) = {}
<1>1. CASE exchange = "okx"
  <2>1. \E e \in {"subscribe", "error"} : m = O!Event(e)
    BY <1>1 DEF Acknowledgement, Refusal
  <2>2. m.event # NoText /\ m.data = <<>>
    BY <2>1, Texts, InstanceConstants DEF O!Event
  <2>3. O!MessageType(m) = "Event"
    BY <2>2, InstanceConstants DEF O!MessageType
  <2> QED BY <1>1, <2>2, <2>3 DEF Handled, O!HandleMessage, O!Silent, Silent, CarriedIds
<1>2. CASE exchange = "kraken"
  <2>1. \E b \in BOOLEAN : m = K!Event("subscribe", b)
    BY <1>2 DEF Acknowledgement, Refusal
  <2>2. m.channel = NoText /\ m.method # NoText /\ m.data = <<>>
    BY <2>1, Texts, InstanceConstants DEF K!Event, K!Message, K!Data
  <2>3. K!MessageType(m) = "Event"
    BY <2>2, InstanceConstants, Texts DEF K!MessageType
  <2> QED BY <1>2, <2>2, <2>3 DEF Handled, K!HandleMessage, K!Silent, Silent, CarriedIds
<1>3. CASE exchange = "bitstamp"
  <2>1. /\ m.event \in {"bts:subscription_succeeded", "bts:error"} /\ m.data = <<>>
        /\ m.channel # "live_orders"
    BY <1>3, Texts, InstanceConstants DEF Acknowledgement, Refusal, B!Message, None
  <2>2. B!MessageType(m) = "Event"
    BY <2>1, InstanceConstants, Texts DEF B!MessageType
  <2> QED BY <1>3, <2>1, <2>2 DEF Handled, B!HandleMessage, B!Silent, Silent, CarriedIds
<1>4. CASE exchange = "bitvavo"
  <2>1. \/ m = V!Event("subscribed") \/ m = V!Refused("subscribe")
    BY <1>4 DEF Acknowledgement, Refusal
  <2>2. /\ m.action \in {NoText, "subscribe"} /\ m.event \in {NoText, "subscribed"} /\ m.id = <<>>
    BY <2>1, InstanceConstants DEF V!Event, V!Refused, V!Blank, None
  <2>3. V!MessageType(m) \in {"Event", "Unknown"}
    BY <2>2, InstanceConstants, Texts DEF V!MessageType
  <2>4. V!HandleMessage(AdapterAt(n), m, 0) = Silent(AdapterAt(n))
    BY <2>3 DEF V!HandleMessage, V!Silent, Silent
  <2> QED BY <1>4, <2>2, <2>4 DEF Handled, CarriedIds
<1> QED BY <1>1, <1>2, <1>3, <1>4 DEF Known

\* No exchange's refusal passes for the confirmation of a subscription.
LEMMA RefusalConfirmsNothing ==
    ASSUME Known PROVE ~SubscriptionConfirmed(Refusal)
<1>1. CASE exchange = "kraken"
  BY <1>1 DEF SubscriptionConfirmed, Refusal, K!SubscriptionConfirmed, K!Event, K!Message
<1>2. CASE exchange = "bitvavo"
  <2>1. Refusal.event = NoText
    BY <1>2, InstanceConstants DEF Refusal, V!Refused, V!Blank
  <2> QED BY <1>2, <2>1, Texts DEF SubscriptionConfirmed, V!SubscriptionConfirmed
<1> QED BY <1>1, <1>2 DEF SubscriptionConfirmed, Known

\* A message of trades carries the first and none but its own.
LEMMA Carries ==
    ASSUME Known, NEW ids \in IdSeq
    PROVE  /\ ids[1] \in CarriedIds(TradeMessage(ids))
           /\ CarriedIds(TradeMessage(ids)) \subseteq {ids[i] : i \in DOMAIN ids}
<1> DEFINE data == [i \in DOMAIN ids |-> TradeData(ids[i])]
           m == TradeMessage(ids)
<1>1. ids[1] \in Nat \ {0} /\ 1 \in DOMAIN ids
  BY DEF IdSeq
<1>2. CASE exchange = "okx"
  <2>1. m.data = data
    BY <1>2 DEF TradeMessage, O!Message
  <2>2. \A i \in DOMAIN ids : data[i].id[1] = ids[i]
    BY <1>2 DEF TradeData, O!TradeData
  <2> QED BY <1>1, <1>2, <2>1, <2>2 DEF CarriedIds
<1>3. CASE exchange = "kraken"
  <2>1. m.data = data
    BY <1>3 DEF TradeMessage, K!Message, K!Data
  <2>2. \A i \in DOMAIN ids : data[i].id[1] = ids[i]
    BY <1>3 DEF TradeData, K!TradeData
  <2> QED BY <1>1, <1>3, <2>1, <2>2 DEF CarriedIds
<1>4. CASE exchange = "bitstamp"
  <2>1. m.data = <<TradeData(ids[1])>>
    BY <1>1, <1>4 DEF TradeMessage, B!Message
  <2>2. TradeData(ids[1]).id = ids[1]
    BY <1>4 DEF TradeData, B!TradeData
  <2> QED BY <1>1, <1>4, <2>1, <2>2 DEF CarriedIds
<1>5. CASE exchange = "bitvavo"
  <2>1. m.id = <<ids[1]>>
    BY <1>5 DEF TradeMessage, V!TradeEvent, V!Blank
  <2> QED BY <1>1, <1>5, <2>1 DEF CarriedIds
<1> QED BY <1>2, <1>3, <1>4, <1>5 DEF Known

\* A record given the values it has is the same record.
LEMMA SameRecord ==
    ASSUME NEW r, r = [f \in DOMAIN r |-> r[f]]
    PROVE  /\ [r EXCEPT !.bids = r.bids, !.asks = r.asks] = r
           /\ [r EXCEPT !.resync = r.resync, !.failed = r.failed] = r
           /\ [r EXCEPT !.book = r.book, !.prev = r.prev] = r
OBVIOUS

\* The adapter is the same through every connection, and a fresh one is new.
LEMMA AdapterKept ==
    ASSUME Known, NEW n \in Nat
    PROVE  /\ OnConnect(AdapterAt(n)) = AdapterAt(n) /\ OnReconnect(AdapterAt(n)) = AdapterAt(n)
           /\ FreshAdapter(AdapterAt(n)) = AdapterAt(0) /\ NewAdapter = AdapterAt(0)
<1> USE DEF OnConnect, OnReconnect, FreshAdapter, NewAdapter, AdapterAt
<1>1. CASE exchange = "okx"
  <2>1. O!Reset(O!NewBook) = O!NewBook
    <3> DEFINE b == O!NewBook
    <3>1. b = [f \in DOMAIN b |-> b[f]] /\ b.bids = O!EmptySide /\ b.asks = O!EmptySide
          /\ b.resync = FALSE /\ b.failed = FALSE
      BY Zenon DEF O!NewBook
    <3> HIDE DEF b
    <3>2. O!Wiped(b) = b
      BY Zenon, <3>1, SameRecord DEF O!Wiped
    <3>3. O!Reset(b) = b
      BY Zenon, <3>1, <3>2, SameRecord DEF O!Reset
    <3> QED BY <3>3 DEF b
  <2>2. O!OnReconnect(NewAdapter) = NewAdapter
    <3> DEFINE a == NewAdapter
    <3>1. a = [f \in DOMAIN a |-> a[f]] /\ a.book = O!NewBook /\ a.prev = O!None
      BY <1>1 DEF O!NewAdapter
    <3> HIDE DEF a
    <3>2. O!OnReconnect(a) = a
      BY Zenon, <2>1, <3>1, SameRecord DEF O!OnReconnect, O!ResetLocal
    <3> QED BY Zenon, <3>2 DEF a
  <2> QED BY <1>1, <2>2 DEF O!NewAdapter, O!FreshAdapter
<1>2. CASE exchange = "kraken"
  <2>1. K!OnReconnect(NewAdapter) = NewAdapter
    <3> DEFINE a == NewAdapter
    <3>1. a = [f \in DOMAIN a |-> a[f]] /\ a.book = K!NewBook /\ a.prev = K!None
      BY <1>2 DEF K!NewAdapter
    <3> HIDE DEF a
    <3>2. K!OnReconnect(a) = a
      BY Zenon, <3>1, SameRecord DEF K!OnReconnect, K!ResetLocal, K!Reset
    <3> QED BY Zenon, <3>2 DEF a
  <2> QED BY <1>2, <2>1 DEF K!NewAdapter, K!FreshAdapter
<1>3. CASE exchange = "bitstamp"
  <2>1. "lob" \notin AdapterAt(n).kinds
    BY <1>3 DEF B!NewAdapter
  <2>2. B!OnConnect(AdapterAt(n)) = B!ResetLocal(AdapterAt(n))
    BY <2>1 DEF B!OnConnect
  <2>3. B!ResetLocal(AdapterAt(n)) = AdapterAt(n)
    <3> DEFINE a == AdapterAt(n)
    <3>1. a = [f \in DOMAIN a |-> a[f]] /\ a.book = B!NewBook /\ a.prev = B!None
      BY <1>3 DEF B!NewAdapter
    <3> HIDE DEF a
    <3>2. B!ResetLocal(a) = a
      BY Zenon, <3>1, SameRecord DEF B!ResetLocal, B!Reset
    <3> QED BY Zenon, <3>2 DEF a
  <2> QED BY <1>3, <2>2, <2>3 DEF B!NewAdapter, B!FreshAdapter
<1>4. CASE exchange = "bitvavo"
  BY <1>4 DEF V!NewAdapter, V!FreshAdapter
<1> QED BY <1>1, <1>2, <1>3, <1>4 DEF Known

\* What depends on the exchange and the odd trade only never changes.
LEMMA Rigid ==
    ASSUME exchange' = exchange, odd' = odd
    PROVE  /\ Acknowledgement' = Acknowledgement /\ Refusal' = Refusal
           /\ \A ids : TradeMessage(ids)' = TradeMessage(ids)
           /\ \A m : CarriedIds(m)' = CarriedIds(m)
           /\ NewAdapter' = NewAdapter
           /\ \A id : QuoteOf(id)' = QuoteOf(id) /\ (Unsaid(id)' <=> Unsaid(id))
           /\ (Known' <=> Known) /\ (Batched' <=> Batched)
           /\ \A item, q : Tells(item, q)' <=> Tells(item, q)
<1>1. Acknowledgement' = Acknowledgement /\ Refusal' = Refusal
  BY DEF Acknowledgement, Refusal
<1>2. \A id : QuoteOf(id)' = QuoteOf(id)
  BY DEF QuoteOf
<1>3. \A id : TradeData(id)' = TradeData(id)
  BY <1>2 DEF TradeData
<1>4. \A ids : TradeMessage(ids)' = TradeMessage(ids)
  BY <1>2, <1>3 DEF TradeMessage
<1>5. \A m : CarriedIds(m)' = CarriedIds(m)
  BY DEF CarriedIds
<1>6. NewAdapter' = NewAdapter
  BY DEF NewAdapter
<1>8. \A id : Unsaid(id)' <=> Unsaid(id)
  BY <1>2 DEF Unsaid
<1>9. (Known' <=> Known) /\ (Batched' <=> Batched)
  BY DEF Known, Batched
<1>10. \A item, q : Tells(item, q)' <=> Tells(item, q)
  BY DEF Tells
<1> QED BY <1>1, <1>2, <1>4, <1>5, <1>6, <1>8, <1>9, <1>10

(* ---- the inductive invariant ------------------------------------------ *)

\* An answer, or trades of which all but the first are among the tails.
Messages == {Acknowledgement, Refusal}
            \cup {TradeMessage(ids) : ids \in {s \in IdSeq : \A i \in 2..Len(s) : s[i] \in tails}}

Types == /\ Known
         /\ odd \in [id : Nat, quote : Quotes]
         /\ trades \in Nat
         /\ phase \in [Tasks -> {"unborn", "dialling", "reading", "draining", "retired"}]
         /\ line \in [Tasks -> {"none", "asked", "open", "refused"}]
         /\ wire \in [Tasks -> Seq(Messages)]
         /\ received \in Seq({received[i] : i \in DOMAIN received})

\* Numbers and contents of the items, and the adapters that made them.
ItemsOK ==
    /\ adapter = [t \in Tasks |-> AdapterAt(Cardinality(SentBy(t, Len(received))))]
    /\ phase[2] = "unborn" => SentBy(2, Len(received)) = {}
    /\ \A i \in 1..Len(received) :
          /\ received[i].by \in Tasks
          /\ received[i].seq_id = IF Batched THEN received[i].trade
                                  ELSE Cardinality(SentBy(received[i].by, i))
          /\ Tells(received[i].item, QuoteOf(received[i].trade))

\* Before the exchange accepts task 2 it sends it refusals only.
HandoverOK ==
    /\ confirmed => accepted
    /\ line[2] = "open" => accepted
    /\ ~accepted => \A i \in 1..Len(wire[2]) : wire[2][i] = Refusal
    /\ phase[1] = "retired" => accepted

IInv == Types /\ ItemsOK /\ HandoverOK /\ MissingIsExplained

(* ---- what is sent ------------------------------------------------------ *)

\* SentBy of any sequence of items.
SentIn(s, t, n) == {j \in 1..n : s[j].by = t}

LEMMA SentInFinite ==
    ASSUME NEW s, NEW t, NEW n \in Nat
    PROVE  IsFiniteSet(SentIn(s, t, n)) /\ Cardinality(SentIn(s, t, n)) \in Nat
<1>1. IsFiniteSet(1..n) /\ SentIn(s, t, n) \subseteq 1..n
  BY FS_Interval DEF SentIn
<1> QED BY <1>1, FS_Subset, FS_CardinalityType

\* One item more: its task has sent one more, the numbers before stay.
LEMMA SentInAppend ==
    ASSUME NEW S, NEW s \in Seq(S), NEW r, NEW t
    PROVE  LET s1 == Append(s, r)
           IN /\ \A n \in 0..Len(s) : SentIn(s1, t, n) = SentIn(s, t, n)
              /\ r.by # t => SentIn(s1, t, Len(s1)) = SentIn(s, t, Len(s))
              /\ r.by = t => Cardinality(SentIn(s1, t, Len(s1)))
                             = Cardinality(SentIn(s, t, Len(s))) + 1
<1> DEFINE s1 == Append(s, r)
<1>1. Len(s) \in Nat /\ Len(s1) = Len(s) + 1 /\ s1[Len(s) + 1] = r
      /\ \A j \in 1..Len(s) : s1[j] = s[j]
  OBVIOUS
<1> HIDE DEF s1
<1>2. \A n \in 0..Len(s) : SentIn(s1, t, n) = SentIn(s, t, n)
  BY <1>1 DEF SentIn
<1>3. ASSUME r.by # t PROVE SentIn(s1, t, Len(s1)) = SentIn(s, t, Len(s))
  BY <1>1, <1>3 DEF SentIn
<1>4. ASSUME r.by = t
      PROVE  Cardinality(SentIn(s1, t, Len(s1))) = Cardinality(SentIn(s, t, Len(s))) + 1
  <2>1. SentIn(s1, t, Len(s1)) = SentIn(s, t, Len(s)) \cup {Len(s) + 1}
    BY <1>1, <1>4 DEF SentIn
  <2>2. Len(s) + 1 \notin SentIn(s, t, Len(s))
    BY <1>1 DEF SentIn
  <2> QED BY <1>1, <2>1, <2>2, SentInFinite, FS_AddElement
<1> QED BY <1>2, <1>3, <1>4 DEF s1

\* A message is silent about trades that are dropped or tails, or makes one
\* item of a trade it carries, beside tails.
LEMMA HandledMessage ==
    ASSUME Types, NEW m \in Messages, NEW n \in Nat
    PROVE  LET h == Handled(AdapterAt(n), m)
           IN \/ /\ h = Silent(AdapterAt(n))
                 /\ \A id \in CarriedIds(m) : id \in tails \/ Unsaid(id)
              \/ \E id, item : /\ h = [adapter |-> AdapterAt(n + 1), items |-> <<item>>]
                               /\ IsItem(item, id, n)
                               /\ CarriedIds(m) \subseteq {id} \cup tails
<1> USE DEF Types
<1>1. CASE m \in {Acknowledgement, Refusal}
  BY <1>1, Answers
<1>2. CASE m \notin {Acknowledgement, Refusal}
  <2>1. PICK ids \in IdSeq : m = TradeMessage(ids) /\ \A i \in 2..Len(ids) : ids[i] \in tails
    BY <1>2 DEF Messages
  <2>2. CarriedIds(m) \subseteq {ids[1]} \cup tails
    <3>1. \A i \in DOMAIN ids : i = 1 \/ i \in 2..Len(ids)
      BY DEF IdSeq
    <3>2. \A i \in DOMAIN ids : ids[i] \in {ids[1]} \cup tails
      BY <2>1, <3>1
    <3>3. CarriedIds(m) \subseteq {ids[i] : i \in DOMAIN ids}
      BY <2>1, Carries
    <3> QED BY <3>2, <3>3
  <2>3. HandlesTrade(ids, n)
    BY OkxHandlesTrade, KrakenHandlesTrade, BitstampHandlesTrade, BitvavoHandlesTrade DEF Known
  <2> QED BY <2>1, <2>2, <2>3 DEF HandlesTrade
<1> QED BY <1>1, <1>2

\* What Sends does, without the exchanges.
SendsNothing(t, m) == /\ received' = received /\ adapter' = adapter
                      /\ \A id \in CarriedIds(m) : id \in tails \/ Unsaid(id)

SendsItem(t, m) == \E r :
    /\ received' = Append(received, r)
    /\ adapter' = [adapter EXCEPT
                     ![t] = AdapterAt(Cardinality(SentIn(received, t, Len(received))) + 1)]
    /\ r.by = t
    /\ r.seq_id = IF Batched THEN r.trade
                  ELSE Cardinality(SentIn(received, t, Len(received))) + 1
    /\ Tells(r.item, QuoteOf(r.trade))
    /\ CarriedIds(m) \subseteq {r.trade} \cup tails

LEMMA SendsOne ==
    ASSUME Types, ItemsOK, NEW t \in Tasks, NEW m \in Messages, Sends(t, m)
    PROVE  SendsNothing(t, m) \/ SendsItem(t, m)
<1> DEFINE n == Cardinality(SentIn(received, t, Len(received)))
           h == Handled(adapter[t], m)
           sent == [i \in DOMAIN h.items |->
                      [by |-> t, trade |-> h.items[i].trade_id[1], seq_id |-> h.items[i].seq_id[1],
                       item |-> h.items[i]]]
<1>1. Len(received) \in Nat /\ received \in Seq({received[i] : i \in DOMAIN received})
  BY DEF Types
<1>2. n \in Nat
  BY <1>1, SentInFinite
<1>3. adapter[t] = AdapterAt(n) /\ adapter = [u \in Tasks |-> adapter[u]]
  <2>1. adapter = [u \in Tasks |-> AdapterAt(Cardinality(SentIn(received, u, Len(received))))]
    BY Zenon DEF ItemsOK, SentBy, SentIn
  <2> QED BY <2>1
<1>4. received' = received \o sent /\ adapter' = [adapter EXCEPT ![t] = h.adapter]
  BY Zenon DEF Sends
<1> HIDE DEF n
<1>5. CASE h = Silent(AdapterAt(n)) /\ \A id \in CarriedIds(m) : id \in tails \/ Unsaid(id)
  <2>1. h.items = <<>> /\ h.adapter = AdapterAt(n)
    BY <1>5 DEF Silent
  <2>2. sent = <<>>
    BY <2>1
  <2> HIDE DEF sent
  <2>3. received' = received
    BY <1>1, <1>4, <2>2
  <2>4. adapter' = adapter
    BY <1>3, <1>4, <2>1
  <2> QED BY <1>5, <2>3, <2>4 DEF SendsNothing
<1>6. ASSUME NEW id, NEW item, h = [adapter |-> AdapterAt(n + 1), items |-> <<item>>],
             IsItem(item, id, n), CarriedIds(m) \subseteq {id} \cup tails
      PROVE  SendsItem(t, m)
  <2> DEFINE r == [by |-> t, trade |-> id, seq_id |-> item.seq_id[1], item |-> item]
  <2>1. h.items = <<item>> /\ h.adapter = AdapterAt(n + 1)
    BY <1>6
  <2>2. item.trade_id[1] = id
    BY <1>6 DEF IsItem
  <2>3. sent = <<r>>
    BY <2>1, <2>2
  <2> HIDE DEF sent, r
  <2>4. received' = Append(received, r)
    BY <1>1, <1>4, <2>3
  <2> USE DEF r
  <2>5. r.seq_id = IF Batched THEN r.trade ELSE n + 1
    BY <1>6 DEF IsItem
  <2>6. Tells(r.item, QuoteOf(r.trade))
    BY <1>6 DEF IsItem
  <2>7. r.by = t /\ r.trade = id
    OBVIOUS
  <2>8. adapter' = [adapter EXCEPT ![t] = AdapterAt(n + 1)]
    BY <1>4, <2>1
  <2> HIDE DEF r
  <2> QED BY <1>6, <2>4, <2>5, <2>6, <2>7, <2>8 DEF SendsItem, n
<1> QED BY <1>2, <1>3, <1>5, <1>6, HandledMessage

(* ---- what is on its way ------------------------------------------------ *)

\* OnWire of any sequence of messages.
IdsIn(w) == UNION {CarriedIds(w[i]) : i \in DOMAIN w}

LEMMA IdsInFacts ==
    ASSUME NEW S, NEW w \in Seq(S), NEW m
    PROVE  /\ IdsIn(Append(w, m)) = IdsIn(w) \cup CarriedIds(m)
           /\ w # <<>> => IdsIn(w) = CarriedIds(Head(w)) \cup IdsIn(Tail(w))
           /\ IdsIn(<<>>) = {}
<1>1. IdsIn(Append(w, m)) = IdsIn(w) \cup CarriedIds(m)
  <2> DEFINE u == Append(w, m)
  <2>1. /\ DOMAIN u = DOMAIN w \cup {Len(w) + 1} /\ u[Len(w) + 1] = m
        /\ \A i \in DOMAIN w : u[i] = w[i]
    OBVIOUS
  <2> HIDE DEF u
  <2>2. IdsIn(u) = IdsIn(w) \cup CarriedIds(m)
    BY <2>1 DEF IdsIn
  <2> QED BY <2>2 DEF u
<1>2. ASSUME w # <<>> PROVE IdsIn(w) = CarriedIds(Head(w)) \cup IdsIn(Tail(w))
  <2> DEFINE u == Tail(w)
  <2>1. /\ 1 \in DOMAIN w /\ Head(w) = w[1]
        /\ \A i \in DOMAIN u : i + 1 \in DOMAIN w /\ u[i] = w[i + 1]
        /\ \A i \in DOMAIN w : i = 1 \/ (i - 1 \in DOMAIN u /\ w[i] = u[i - 1])
    BY <1>2
  <2> HIDE DEF u
  <2>2. IdsIn(w) = CarriedIds(w[1]) \cup IdsIn(u)
    BY <2>1 DEF IdsIn
  <2> QED BY <2>1, <2>2 DEF u
<1>3. IdsIn(<<>>) = {}
  BY DEF IdsIn
<1> QED BY <1>1, <1>2, <1>3

LEMMA OnWireNext ==
    ASSUME exchange' = exchange, NEW t
    PROVE  OnWire(t) = IdsIn(wire[t]) /\ OnWire(t)' = IdsIn(wire'[t])
<1>1. OnWire(t) = IdsIn(wire[t])
  BY DEF OnWire, IdsIn
<1>2. OnWire(t)' = IdsIn(wire'[t])
  BY DEF OnWire, IdsIn, CarriedIds
<1> QED BY <1>1, <1>2

\* Nothing that was accounted for is lost from the account.
LEMMA StillExplained ==
    ASSUME MissingIsExplained, exchange' = exchange, odd' = odd, trades' = trades,
           Delivered \subseteq Delivered', tails \subseteq tails', unheard \subseteq unheard',
           unread \subseteq unread',
           \A t \in Tasks : \A id \in IdsIn(wire[t]) :
              id \in IdsIn(wire'[t]) \cup Delivered' \cup tails' \cup unread' \/ Unsaid(id)
    PROVE  MissingIsExplained'
<1>1. \A id : QuoteOf(id)' = QuoteOf(id)
  BY Rigid
<1>2. \A t \in Tasks : OnWire(t) = IdsIn(wire[t]) /\ OnWire(t)' = IdsIn(wire'[t])
  BY OnWireNext
<1> QED BY <1>1, <1>2 DEF MissingIsExplained, Unsaid

LEMMA MessagesGrow ==
    ASSUME exchange' = exchange, odd' = odd, tails \subseteq tails'
    PROVE  /\ Messages \subseteq Messages' /\ Seq(Messages) \subseteq Seq(Messages')
           /\ Acknowledgement \in Messages' /\ Refusal \in Messages'
<1>1. Messages \subseteq Messages'
  BY Rigid DEF Messages
<1>2. Acknowledgement \in Messages /\ Refusal \in Messages
  BY DEF Messages
<1> QED BY <1>1, <1>2

(* ---- the items ---------------------------------------------------------- *)

\* ItemsOK for any adapters and items.
ItemsAre(a, s) ==
    /\ a = [t \in Tasks |-> AdapterAt(Cardinality(SentIn(s, t, Len(s))))]
    /\ \A i \in 1..Len(s) :
          /\ s[i].by \in Tasks
          /\ s[i].seq_id = IF Batched THEN s[i].trade ELSE Cardinality(SentIn(s, s[i].by, i))
          /\ Tells(s[i].item, QuoteOf(s[i].trade))

LEMMA ItemsNext ==
    ASSUME exchange' = exchange, odd' = odd
    PROVE  /\ ItemsOK <=> /\ ItemsAre(adapter, received)
                          /\ phase[2] = "unborn" => SentIn(received, 2, Len(received)) = {}
           /\ ItemsOK' <=> /\ ItemsAre(adapter', received')
                           /\ phase'[2] = "unborn" => SentIn(received', 2, Len(received')) = {}
<1>1. ItemsOK <=> /\ ItemsAre(adapter, received)
                  /\ phase[2] = "unborn" => SentIn(received, 2, Len(received)) = {}
  BY DEF ItemsOK, ItemsAre, SentBy, SentIn
<1>2. \A t, n : SentBy(t, n)' = SentIn(received', t, n)
  BY DEF SentBy, SentIn
<1>3. SentBy(2, Len(received))' = SentIn(received', 2, Len(received'))
  BY DEF SentBy, SentIn
<1>4. \A t : AdapterAt(Cardinality(SentBy(t, Len(received))))'
             = AdapterAt(Cardinality(SentIn(received', t, Len(received'))))
  BY Rigid DEF AdapterAt, SentBy, SentIn
<1>5. \A i : Tells(received[i].item, QuoteOf(received[i].trade))'
             <=> Tells(received'[i].item, QuoteOf(received'[i].trade))
  BY DEF Tells, QuoteOf
<1>6. \A i : SentBy(received[i].by, i)' = SentIn(received', received'[i].by, i)
  BY DEF SentBy, SentIn
<1>7. Batched' <=> Batched
  BY Rigid
<1>8. ItemsOK' <=> /\ ItemsAre(adapter', received')
                   /\ phase'[2] = "unborn" => SentIn(received', 2, Len(received')) = {}
  BY <1>3, <1>4, <1>5, <1>6, <1>7 DEF ItemsOK, ItemsAre
<1> QED BY <1>1, <1>8

LEMMA ItemsQuiet ==
    ASSUME ItemsOK, exchange' = exchange, odd' = odd, received' = received, adapter' = adapter,
           phase'[2] = "unborn" => phase[2] = "unborn"
    PROVE  ItemsOK'
BY ItemsNext

LEMMA ItemsSent ==
    ASSUME Types, ItemsOK, exchange' = exchange, odd' = odd, NEW t \in Tasks, NEW m, SendsItem(t, m),
           phase[t] # "unborn", phase' = phase \/ phase' = [phase EXCEPT ![1] = "retired"]
    PROVE  /\ ItemsOK' /\ received' \in Seq({received'[i] : i \in DOMAIN received'})
           /\ Delivered \subseteq Delivered'
           /\ CarriedIds(m) \subseteq Delivered' \cup tails
<1> DEFINE s == received
           n == Cardinality(SentIn(s, t, Len(s)))
<1>1. PICK r : /\ received' = Append(s, r)
               /\ adapter' = [adapter EXCEPT ![t] = AdapterAt(n + 1)]
               /\ r.by = t
               /\ r.seq_id = IF Batched THEN r.trade ELSE n + 1
               /\ Tells(r.item, QuoteOf(r.trade))
               /\ CarriedIds(m) \subseteq {r.trade} \cup tails
  BY DEF SendsItem
<1> DEFINE s1 == Append(s, r)
<1>2. /\ s \in Seq({s[i] : i \in DOMAIN s}) /\ Len(s) \in Nat /\ Len(s1) = Len(s) + 1
      /\ s1[Len(s) + 1] = r /\ \A i \in 1..Len(s) : s1[i] = s[i]
      /\ DOMAIN s1 = DOMAIN s \cup {Len(s) + 1} /\ DOMAIN s = 1..Len(s)
  BY DEF Types
<1>3. ItemsAre(adapter, s)
  BY ItemsNext
<1>4. \A u : /\ \A k \in 0..Len(s) : SentIn(s1, u, k) = SentIn(s, u, k)
             /\ r.by # u => SentIn(s1, u, Len(s1)) = SentIn(s, u, Len(s))
             /\ r.by = u => Cardinality(SentIn(s1, u, Len(s1))) = Cardinality(SentIn(s, u, Len(s))) + 1
  BY <1>2, SentInAppend
<1>5. s1 \in Seq({s1[i] : i \in DOMAIN s1})
  <2>1. \A i \in DOMAIN s : s[i] \in {s1[j] : j \in DOMAIN s1}
    BY <1>2
  <2>2. r \in {s1[j] : j \in DOMAIN s1}
    BY <1>2
  <2>3. s \in Seq({s1[j] : j \in DOMAIN s1})
    BY <1>2, <2>1
  <2> QED BY <2>2, <2>3
<1>6. {s[i].trade : i \in DOMAIN s} \subseteq {s1[i].trade : i \in DOMAIN s1}
      /\ r.trade \in {s1[i].trade : i \in DOMAIN s1}
  BY <1>2
<1> HIDE DEF s1, n
<1>7. adapter' = [u \in Tasks |-> AdapterAt(Cardinality(SentIn(s1, u, Len(s1))))]
  BY <1>1, <1>3, <1>4 DEF ItemsAre, n
<1>8. \A i \in 1..Len(s1) :
         /\ s1[i].by \in Tasks
         /\ s1[i].seq_id = IF Batched THEN s1[i].trade ELSE Cardinality(SentIn(s1, s1[i].by, i))
         /\ Tells(s1[i].item, QuoteOf(s1[i].trade))
  <2> SUFFICES ASSUME NEW i \in 1..Len(s1)
               PROVE  /\ s1[i].by \in Tasks
                      /\ s1[i].seq_id = IF Batched THEN s1[i].trade
                                        ELSE Cardinality(SentIn(s1, s1[i].by, i))
                      /\ Tells(s1[i].item, QuoteOf(s1[i].trade))
    OBVIOUS
  <2>1. CASE i \in 1..Len(s)
    <3>1. s1[i] = s[i] /\ i \in 0..Len(s)
      BY <1>2, <2>1
    <3>2. SentIn(s1, s[i].by, i) = SentIn(s, s[i].by, i)
      BY <1>4, <3>1
    <3> QED BY <1>3, <2>1, <3>1, <3>2 DEF ItemsAre
  <2>2. CASE i = Len(s1)
    BY <1>1, <1>2, <1>4, <2>2 DEF n
  <2> QED BY <1>2, <2>1, <2>2
<1>9. ItemsAre(adapter', s1)
  BY <1>7, <1>8 DEF ItemsAre
<1>10. phase'[2] = "unborn" => phase[2] = "unborn" /\ t # 2
  BY DEF Types, Tasks
<1>11. phase'[2] = "unborn" => SentIn(s1, 2, Len(s1)) = {}
  BY <1>1, <1>4, <1>10, ItemsNext
<1>12. ItemsOK'
  <2>1. received' = s1
    BY <1>1 DEF s1
  <2>2. ItemsAre(adapter', received')
    BY <1>9, <2>1
  <2>3. phase'[2] = "unborn" => SentIn(received', 2, Len(received')) = {}
    BY <1>11, <2>1
  <2> QED BY <2>2, <2>3, ItemsNext
<1>13. received' = s1
  BY <1>1 DEF s1
<1>14. Delivered' = {s1[i].trade : i \in DOMAIN s1} /\ Delivered = {s[i].trade : i \in DOMAIN s}
  BY <1>13 DEF Delivered
<1>15. received' \in Seq({received'[i] : i \in DOMAIN received'})
  BY <1>5, <1>13
<1> QED BY <1>1, <1>6, <1>12, <1>14, <1>15

(* ---- the steps ----------------------------------------------------------- *)

LEMMA InitOK == Init => IInv
<1> SUFFICES ASSUME Init PROVE IInv
  OBVIOUS
<1> USE DEF Init
<1>1. Known
  BY TradeFeedAssumption DEF Known
<1>2. odd \in [id : Nat, quote : Quotes]
  BY TradeFeedAssumption
<1>3. Types
  BY <1>1, <1>2, EmptySeq DEF Types, Tasks
<1>4. \A t : SentBy(t, Len(received)) = {}
  BY DEF SentBy
<1>5. \A t : AdapterAt(Cardinality(SentBy(t, Len(received)))) = NewAdapter
  BY <1>1, <1>4, AdapterKept, FS_EmptySet
<1>6. ItemsOK
  BY <1>4, <1>5 DEF ItemsOK
<1>7. HandoverOK
  BY DEF HandoverOK, Tasks
<1>8. MissingIsExplained
  BY DEF MissingIsExplained
<1> QED BY <1>3, <1>6, <1>7, <1>8 DEF IInv

LEMMA PublishesOK == ASSUME IInv, NEW k \in 1..MaxBatch, Publishes(k) PROVE IInv'
<1> USE DEF IInv
<1> DEFINE ids == [i \in 1..k |-> trades + i]
           m == TradeMessage(ids)
<1>1. /\ exchange' = exchange /\ odd' = odd /\ phase' = phase /\ line' = line
      /\ adapter' = adapter /\ confirmed' = confirmed /\ received' = received
      /\ unread' = unread /\ accepted' = accepted
      /\ trades' = trades + k /\ tails' = tails \cup {ids[i] : i \in 2..k}
      /\ wire' = [t \in Tasks |-> IF line[t] = "open" THEN Append(wire[t], m) ELSE wire[t]]
      /\ unheard' = IF \E t \in Tasks : line[t] = "open" THEN unheard
                                                        ELSE unheard \cup ToSet(ids)
  BY DEF Publishes
<1>2. Types /\ trades \in Nat /\ k \in Nat \ {0} /\ wire \in [Tasks -> Seq(Messages)]
  BY TradeFeedAssumption DEF Types
<1>3. ids \in IdSeq /\ Len(ids) = k /\ DOMAIN ids = 1..k /\ \A i \in 1..k : ids[i] = trades + i
  BY <1>2 DEF IdSeq
<1>4. tails \subseteq tails' /\ \A i \in 2..Len(ids) : ids[i] \in tails'
  BY <1>1, <1>3
<1> HIDE DEF ids
<1>5. m \in Messages' /\ Seq(Messages) \subseteq Seq(Messages')
  BY <1>1, <1>3, <1>4, Rigid, MessagesGrow DEF Messages
<1> HIDE DEF m
<1>6. wire' \in [Tasks -> Seq(Messages')]
  BY <1>1, <1>2, <1>5
<1>7. Types'
  BY <1>1, <1>2, <1>6, Rigid DEF Types
<1>8. ItemsOK'
  BY <1>1, ItemsQuiet
<1>9. HandoverOK'
  <2>1. ~accepted => wire'[2] = wire[2]
    BY <1>1 DEF HandoverOK, Tasks
  <2> QED BY <1>1, <2>1, Rigid DEF HandoverOK
<1>10. MissingIsExplained'
  <2>1. \A t \in Tasks : /\ OnWire(t) = IdsIn(wire[t]) /\ OnWire(t)' = IdsIn(wire'[t])
    BY <1>1, OnWireNext
  <2>2. \A t \in Tasks : /\ IdsIn(wire[t]) \subseteq IdsIn(wire'[t])
                         /\ line[t] = "open" => ids[1] \in IdsIn(wire'[t])
    BY <1>1, <1>2, <1>3, IdsInFacts, Carries DEF m, Types
  <2>3. Delivered' = Delivered
    BY <1>1 DEF Delivered
  <2>4. \A id : QuoteOf(id)' = QuoteOf(id)
    BY <1>1, Rigid
  <2> SUFFICES ASSUME NEW id \in 1..trades'
               PROVE  \/ id \in Delivered' \/ \E t \in Tasks : id \in OnWire(t)'
                      \/ id \in tails' \/ id \in unheard' \/ id \in unread'
                      \/ Unsaid(id)
    BY <1>1, <2>4 DEF MissingIsExplained, Unsaid
  <2>5. CASE id \in 1..trades
    <3>1. \/ id \in Delivered \/ \E t \in Tasks : id \in OnWire(t)
          \/ id \in tails \/ id \in unheard \/ id \in unread \/ Unsaid(id)
      BY <2>5 DEF MissingIsExplained, Unsaid
    <3>2. \A t \in Tasks : id \in OnWire(t) => id \in OnWire(t)'
      BY <2>1, <2>2
    <3>3. id \in unheard => id \in unheard'
      BY <1>1
    <3> QED BY <1>1, <1>4, <2>3, <3>1, <3>2, <3>3
  <2>6. CASE id = ids[1] /\ \E t \in Tasks : line[t] = "open"
    BY <2>1, <2>2, <2>6
  <2>7. CASE id \in ToSet(ids) /\ ~\E t \in Tasks : line[t] = "open"
    BY <1>1, <2>7
  <2>8. CASE \E i \in 2..k : id = ids[i]
    BY <1>1, <2>8
  <2>9. id \in 1..trades \/ id \in ToSet(ids)
    <3>1. id \notin 1..trades => id - trades \in 1..k /\ ids[id - trades] = id
      BY <1>1, <1>2, <1>3
    <3> QED BY <1>3, <3>1 DEF ToSet
  <2>10. id \in ToSet(ids) => id = ids[1] \/ \E i \in 2..k : id = ids[i]
    <3>1. \A i \in DOMAIN ids : i = 1 \/ i \in 2..k
      BY <1>2, <1>3
    <3> QED BY <3>1 DEF ToSet
  <2> QED BY <2>5, <2>6, <2>7, <2>8, <2>9, <2>10
<1> QED BY <1>7, <1>8, <1>9, <1>10

LEMMA AnswersOK == ASSUME IInv, NEW t \in Tasks, Accepts(t) \/ Refuses(t) PROVE IInv'
<1> USE DEF IInv
<1>1. /\ exchange' = exchange /\ odd' = odd /\ trades' = trades /\ tails' = tails
      /\ unheard' = unheard /\ phase' = phase /\ adapter' = adapter /\ confirmed' = confirmed
      /\ received' = received /\ unread' = unread
  BY DEF Accepts, Refuses, market
<1>2. PICK m \in {Acknowledgement, Refusal} : wire' = [wire EXCEPT ![t] = Append(@, m)]
  BY DEF Accepts, Refuses
<1>3. m \in Messages' /\ Seq(Messages) \subseteq Seq(Messages')
  BY <1>1, MessagesGrow DEF Messages
<1>4. line' \in [Tasks -> {"none", "asked", "open", "refused"}]
  BY DEF Accepts, Refuses, Types
<1>5. Types'
  <2>1. wire' \in [Tasks -> Seq(Messages')]
    BY <1>2, <1>3 DEF Types
  <2> QED BY <1>1, <1>4, <2>1, Rigid DEF Types
<1>6. ItemsOK'
  BY <1>1, ItemsQuiet
<1>7. HandoverOK'
  <2>1. CASE Accepts(t)
    <3>1. accepted' \/ ((accepted' <=> accepted) /\ wire'[2] = wire[2] /\ line'[2] = line[2])
      BY <2>1 DEF Accepts, Types, Tasks
    <3> QED BY <1>1, <3>1, Rigid DEF HandoverOK
  <2>2. CASE Refuses(t)
    <3>1. accepted' = accepted /\ line'[2] \in {line[2], "refused"} /\ wire[2] \in Seq(Messages)
      BY <2>2 DEF Refuses, Types, Tasks
    <3>2. \A i \in 1..Len(wire'[2]) : wire'[2][i] \in {wire[2][i], Refusal}
                                     /\ (i \in 1..Len(wire[2]) \/ wire'[2][i] = Refusal)
      BY <2>2, <3>1 DEF Refuses, Types, Tasks
    <3> QED BY <1>1, <3>1, <3>2, Rigid DEF HandoverOK
  <2> QED BY <2>1, <2>2
<1>8. MissingIsExplained'
  <2>1. \A u \in Tasks : IdsIn(wire[u]) \subseteq IdsIn(wire'[u])
    BY <1>2, IdsInFacts DEF Types
  <2>2. Delivered' = Delivered
    BY <1>1 DEF Delivered
  <2> QED BY <1>1, <2>1, <2>2, StillExplained
<1> QED BY <1>5, <1>6, <1>7, <1>8

\* What a step keeps that leaves the market and the other task's wire alone.
Keeps == /\ exchange' = exchange /\ odd' = odd /\ trades' = trades /\ tails' = tails
         /\ unheard' = unheard /\ accepted' = accepted

\* Every adapter is a new one at some number, and that of task 2 at 0 before it
\* is spawned.
LEMMA AdaptersAre ==
    ASSUME Types, ItemsOK
    PROVE  /\ adapter = [t \in Tasks |-> adapter[t]]
           /\ \A t \in Tasks : \E n \in Nat : adapter[t] = AdapterAt(n)
           /\ phase[2] = "unborn" => adapter[2] = AdapterAt(0)
<1> DEFINE n(t) == Cardinality(SentIn(received, t, Len(received)))
<1>1. Len(received) \in Nat /\ 2 \in Tasks
  BY DEF Types, Tasks
<1>2. \A t : n(t) \in Nat
  BY <1>1, SentInFinite
<1>3. phase[2] = "unborn" => n(2) = 0
  BY FS_EmptySet DEF ItemsOK, SentBy, SentIn
<1>4. adapter = [t \in Tasks |-> AdapterAt(n(t))]
  BY DEF ItemsOK, SentBy, SentIn
<1> HIDE DEF n
<1>5. adapter = [t \in Tasks |-> adapter[t]]
  BY <1>4
<1>6. \A t \in Tasks : adapter[t] = AdapterAt(n(t))
  BY <1>4
<1> QED BY <1>1, <1>2, <1>3, <1>5, <1>6

LEMMA QuietOK ==
    ASSUME IInv, NEW t \in Tasks, Connect(t) \/ Forks \/ StartsDraining
    PROVE  IInv'
<1> USE DEF IInv
<1>1. /\ Keeps /\ wire' = wire /\ confirmed' = confirmed /\ received' = received
      /\ unread' = unread
  BY DEF Connect, Forks, StartsDraining, Keeps, market
<1>2. /\ phase' \in [Tasks -> {"unborn", "dialling", "reading", "draining", "retired"}]
      /\ phase'[2] = "unborn" => phase[2] = "unborn"
      /\ phase'[1] = "retired" => phase[1] = "retired"
      /\ line' \in [Tasks -> {"none", "asked", "open", "refused"}]
      /\ line'[2] = "open" => line[2] = "open"
  BY DEF Connect, Forks, StartsDraining, Types, Tasks
<1>3. Types'
  BY <1>1, <1>2, Rigid, MessagesGrow DEF Types, Keeps
<1>4. adapter' = adapter
  <2>1. \A u \in Tasks : \E n \in Nat : adapter[u] = AdapterAt(n)
    BY AdaptersAre
  <2>2. 1 \in Tasks /\ 2 \in Tasks /\ adapter = [u \in Tasks |-> adapter[u]]
    BY AdaptersAre DEF Tasks
  <2>3. \A u \in Tasks : OnConnect(adapter[u]) = adapter[u] /\ FreshAdapter(adapter[u]) = AdapterAt(0)
    BY <2>1, AdapterKept DEF Types
  <2>4. CASE Connect(t)
    BY <2>2, <2>3, <2>4 DEF Connect
  <2>5. CASE Forks
    <3>1. adapter[2] = AdapterAt(0)
      BY <2>5, AdaptersAre DEF Forks
    <3>2. adapter' = [adapter EXCEPT ![2] = adapter[2]]
      BY <2>2, <2>3, <2>5, <3>1 DEF Forks
    <3> QED BY <2>2, <3>2
  <2>6. CASE StartsDraining
    BY <2>6 DEF StartsDraining
  <2> QED BY <2>4, <2>5, <2>6
<1>5. ItemsOK'
  BY <1>1, <1>2, <1>4, ItemsQuiet DEF Keeps
<1>6. HandoverOK'
  BY <1>1, <1>2, Rigid DEF HandoverOK, Keeps
<1>7. MissingIsExplained'
  <2>1. Delivered' = Delivered
    BY <1>1 DEF Delivered
  <2> QED BY <1>1, <2>1, StillExplained DEF Keeps
<1> QED BY <1>3, <1>5, <1>6, <1>7

LEMMA AbandonsOK ==
    ASSUME IInv, NEW t \in Tasks, Retires \/ Loses(t)
    PROVE  IInv'
<1> USE DEF IInv
<1>1. /\ Keeps /\ confirmed' = confirmed /\ received' = received
  BY DEF Retires, Loses, Keeps, market
<1>2. PICK u \in Tasks, next \in {"dialling", "retired"} :
         /\ phase[u] # "unborn"
         /\ phase' = [phase EXCEPT ![u] = next]
         /\ line' = [line EXCEPT ![u] = "none"]
         /\ wire' = [wire EXCEPT ![u] = <<>>]
         /\ unread' = unread \cup OnWire(u)
         /\ phase'[1] = "retired" => phase[1] = "retired" \/ confirmed
  <2>1. CASE Retires
    BY <2>1 DEF Retires, Abandons, Listening, Tasks
  <2>2. CASE Loses(t)
    BY <2>2 DEF Loses, Abandons, Listening, Types, Tasks
  <2> QED BY <2>1, <2>2
<1>3. /\ phase' \in [Tasks -> {"unborn", "dialling", "reading", "draining", "retired"}]
      /\ phase'[2] = "unborn" => phase[2] = "unborn"
      /\ line' \in [Tasks -> {"none", "asked", "open", "refused"}]
      /\ line'[2] = "open" => line[2] = "open"
  <2>1. next \in {"dialling", "retired"} /\ 1 \in Tasks /\ 2 \in Tasks
    BY <1>2 DEF Tasks
  <2>2. phase' \in [Tasks -> {"unborn", "dialling", "reading", "draining", "retired"}]
    BY <1>2, <2>1 DEF Types
  <2>3. phase'[2] = "unborn" => phase[2] = "unborn"
    BY <1>2, <2>1 DEF Types
  <2> QED BY <1>2, <2>1, <2>2, <2>3 DEF Types
<1>4. Types'
  <2>1. Seq(Messages) \subseteq Seq(Messages') /\ <<>> \in Seq(Messages')
    BY <1>1, MessagesGrow, EmptySeq DEF Keeps
  <2>2. wire' \in [Tasks -> Seq(Messages')]
    BY <1>2, <2>1 DEF Types
  <2> QED BY <1>1, <1>3, <2>2, Rigid DEF Types, Keeps
<1>5. adapter' = adapter
  <2>1. \A v \in Tasks : \E n \in Nat : adapter[v] = AdapterAt(n)
    BY AdaptersAre
  <2>2. adapter = [v \in Tasks |-> adapter[v]] /\ \A v \in Tasks : OnReconnect(adapter[v]) = adapter[v]
    BY <2>1, AdaptersAre, AdapterKept DEF Types
  <2> QED BY <2>2 DEF Retires, Loses
<1>6. ItemsOK'
  BY <1>1, <1>3, <1>5, ItemsQuiet DEF Keeps
<1>7. HandoverOK'
  <2>1. \A i \in 1..Len(wire'[2]) : i \in 1..Len(wire[2]) /\ wire'[2][i] = wire[2][i]
    <3>1. wire'[2] = wire[2] \/ wire'[2] = <<>>
      BY <1>2 DEF Types, Tasks
    <3> QED BY <3>1
  <2> QED BY <1>1, <1>2, <1>3, <2>1, Rigid DEF HandoverOK, Keeps
<1>8. MissingIsExplained'
  <2>1. Delivered' = Delivered
    BY <1>1 DEF Delivered
  <2>2. \A v \in Tasks : IdsIn(wire[v]) \subseteq IdsIn(wire'[v]) \cup unread'
    <3>1. OnWire(u) = IdsIn(wire[u])
      BY <1>1, OnWireNext DEF Keeps
    <3>2. \A v \in Tasks : v = u \/ wire'[v] = wire[v]
      BY <1>2 DEF Types
    <3> QED BY <1>2, <3>1, <3>2
  <2> QED BY <1>1, <1>2, <2>1, <2>2, StillExplained DEF Keeps
<1> QED BY <1>4, <1>6, <1>7, <1>8

\* What the three actions that handle a message have in common.
LEMMA ReadsOK ==
    ASSUME IInv, NEW t \in Tasks, Reads(t) \/ (t = 1 /\ (ReadsAndRetires \/ Drains))
    PROVE  IInv'
<1> USE DEF IInv
<1> DEFINE m == Head(wire[t])
<1>1. /\ Keeps /\ Sends(t, m) /\ wire[t] # <<>> /\ phase[t] # "unborn"
  BY DEF Reads, ReadsAndRetires, Drains, Keeps, market
<1>2. /\ phase' = phase \/ phase' = [phase EXCEPT ![1] = "retired"]
      /\ phase'[1] = "retired" => phase[1] = "retired" \/ confirmed
      /\ line' = line \/ line' = [line EXCEPT ![1] = "none"]
      /\ \/ wire' = [wire EXCEPT ![t] = Tail(@)] /\ unread' = unread
         \/ t = 1 /\ wire' = [wire EXCEPT ![1] = <<>>]
            /\ unread' = unread \cup (OnWire(1) \ CarriedIds(m))
  BY DEF Reads, ReadsAndRetires, Drains, Types, Tasks
<1>3. /\ m \in Messages /\ wire[t] \in Seq(Messages) /\ Tail(wire[t]) \in Seq(Messages)
      /\ Len(wire[t]) \in Nat \ {0} /\ m = wire[t][1]
  BY <1>1 DEF Types
<1>4. SendsNothing(t, m) \/ SendsItem(t, m)
  BY <1>1, <1>3, SendsOne
<1>5. /\ phase' \in [Tasks -> {"unborn", "dialling", "reading", "draining", "retired"}]
      /\ phase'[2] = "unborn" => phase[2] = "unborn"
      /\ line' \in [Tasks -> {"none", "asked", "open", "refused"}]
      /\ line'[2] = "open" => line[2] = "open"
  BY <1>2 DEF Types, Tasks
<1> HIDE DEF m
<1>6. /\ ItemsOK' /\ received' \in Seq({received'[i] : i \in DOMAIN received'})
      /\ Delivered \subseteq Delivered'
      /\ \A id \in CarriedIds(m) : id \in Delivered' \cup tails \/ Unsaid(id)
  <2>1. CASE SendsNothing(t, m)
    <3>1. received' = received /\ adapter' = adapter
      BY <2>1 DEF SendsNothing
    <3>2. Delivered' = Delivered
      BY <3>1 DEF Delivered
    <3>3. ItemsOK'
      BY <1>1, <1>5, <3>1, ItemsQuiet DEF Keeps
    <3> QED BY <2>1, <3>1, <3>2, <3>3 DEF Types, SendsNothing
  <2>2. CASE SendsItem(t, m)
    BY <1>1, <1>2, <2>2, ItemsSent DEF Keeps
  <2> QED BY <1>4, <2>1, <2>2
<1>7. Types'
  <2>1. Seq(Messages) \subseteq Seq(Messages') /\ <<>> \in Seq(Messages')
    BY <1>1, MessagesGrow, EmptySeq DEF Keeps
  <2>2. wire' \in [Tasks -> Seq(Messages')]
    BY <1>2, <1>3, <2>1 DEF Types
  <2> QED BY <1>1, <1>5, <1>6, <2>2, Rigid DEF Types, Keeps
<1>8. HandoverOK'
  <2>1. \A i \in 1..Len(wire'[2]) : \E j \in 1..Len(wire[2]) : wire'[2][i] = wire[2][j]
    <3>1. wire[2] \in Seq(Messages) /\ wire'[2] \in {wire[2], Tail(wire[2])}
          /\ (wire'[2] = wire[2] \/ wire[2] # <<>>)
      BY <1>1, <1>2 DEF Types, Tasks
    <3>2. CASE wire'[2] = wire[2]
      BY <3>2
    <3>3. CASE wire[2] # <<>> /\ wire'[2] = Tail(wire[2])
      <4>1. \A i \in 1..Len(wire'[2]) : i + 1 \in 1..Len(wire[2]) /\ wire'[2][i] = wire[2][i + 1]
        BY <3>1, <3>3
      <4> QED BY <4>1
    <3> QED BY <3>1, <3>2, <3>3
  <2>2. confirmed' => accepted
    <3>1. CASE t # 2
      <4>1. confirmed' => confirmed
        BY Zenon, <1>1, <3>1 DEF Sends
      <4> QED BY <4>1 DEF HandoverOK
    <3>2. CASE t = 2 /\ ~accepted
      <4>1. m = Refusal /\ Known
        BY <1>3, <3>2 DEF HandoverOK, Types
      <4>2. PICK n \in Nat : adapter[t] = AdapterAt(n)
        BY AdaptersAre
      <4>3. Handled(adapter[t], m).items = <<>> /\ ~SubscriptionConfirmed(m)
        BY <4>1, <4>2, Answers, RefusalConfirmsNothing DEF Silent
      <4>4. confirmed' => confirmed
        BY Zenon, <1>1, <4>3 DEF Sends
      <4> QED BY <4>4 DEF HandoverOK
    <3> QED BY <3>1, <3>2
  <2> QED BY <1>1, <1>2, <1>5, <2>1, <2>2, Rigid DEF HandoverOK, Keeps
<1>9. MissingIsExplained'
  <2>1. IdsIn(wire[t]) = CarriedIds(m) \cup IdsIn(Tail(wire[t]))
    BY <1>1, <1>3, IdsInFacts DEF m
  <2>2. \A u \in Tasks : \A id \in IdsIn(wire[u]) :
           id \in IdsIn(wire'[u]) \cup unread' \cup CarriedIds(m)
    <3>1. CASE wire' = [wire EXCEPT ![t] = Tail(@)]
      BY <2>1, <3>1 DEF Types
    <3>2. CASE t = 1 /\ wire' = [wire EXCEPT ![1] = <<>>]
               /\ unread' = unread \cup (OnWire(1) \ CarriedIds(m))
      <4>1. OnWire(1) = IdsIn(wire[1])
        BY <1>1, OnWireNext DEF Keeps
      <4> QED BY <3>2, <4>1 DEF Types
    <3> QED BY <1>2, <3>1, <3>2
  <2>3. unread \subseteq unread'
    BY <1>2
  <2>4. \A u \in Tasks : \A id \in IdsIn(wire[u]) :
           id \in IdsIn(wire'[u]) \cup Delivered' \cup tails' \cup unread' \/ Unsaid(id)
    BY <1>1, <1>6, <2>2 DEF Keeps
  <2> QED BY <1>1, <1>6, <2>3, <2>4, StillExplained DEF Keeps
<1> QED BY <1>6, <1>7, <1>8, <1>9

LEMMA StepOK == IInv /\ [Next]_vars => IInv'
<1> SUFFICES ASSUME IInv, [Next]_vars PROVE IInv'
  OBVIOUS
<1>1. ASSUME NEW k \in 1..MaxBatch, Publishes(k) PROVE IInv'
  BY <1>1, PublishesOK
<1>2. ASSUME NEW t \in Tasks, Accepts(t) \/ Refuses(t) \/ Connect(t) \/ Reads(t) \/ Loses(t)
      PROVE  IInv'
  BY <1>2, AnswersOK, QuietOK, ReadsOK, AbandonsOK
<1>3. CASE ReadsAndRetires \/ Forks \/ StartsDraining \/ Drains \/ Retires
  <2>1. 1 \in Tasks
    BY DEF Tasks
  <2> QED BY <1>3, <2>1, QuietOK, ReadsOK, AbandonsOK
<1>4. CASE UNCHANGED vars
  <2>1. /\ Keeps /\ phase' = phase /\ line' = line /\ wire' = wire /\ adapter' = adapter
        /\ confirmed' = confirmed /\ received' = received /\ unread' = unread
    BY <1>4 DEF vars, market, Keeps
  <2>2. Types'
    BY <2>1, Rigid, MessagesGrow DEF Types, Keeps, IInv
  <2>3. ItemsOK'
    BY <2>1, ItemsQuiet DEF Keeps, IInv
  <2>4. HandoverOK'
    BY <2>1, Rigid DEF HandoverOK, Keeps, IInv
  <2>5. Delivered' = Delivered
    BY <2>1 DEF Delivered
  <2>6. MissingIsExplained'
    BY <2>1, <2>5, StillExplained DEF Keeps, IInv
  <2> QED BY <2>2, <2>3, <2>4, <2>6 DEF IInv
<1> QED BY <1>1, <1>2, <1>3, <1>4 DEF Next

(* ---- theorems -------------------------------------------------------------- *)

\* Types, items, handover and account at once.
LEMMA Invariant == Spec => []IInv
BY InitOK, StepOK, PTL DEF Spec

\* No trade goes missing in a handover: one that neither arrived nor is on its
\* way was batched behind another, of the wrong type, made while nobody was
\* subscribed, or left unread on a connection that ended.
THEOREM NothingElseMissing == Spec => []MissingIsExplained
<1>1. IInv => MissingIsExplained
  BY DEF IInv
<1> QED BY <1>1, Invariant, PTL

\* Whatever the exchange and the connection, an item says of its trade what the
\* exchange said.
THEOREM ItemsAreTrue == Spec => []ItemsTellTrades
<1>1. IInv => ItemsTellTrades
  <2> SUFFICES ASSUME IInv PROVE ItemsTellTrades
    OBVIOUS
  <2>1. DOMAIN received = 1..Len(received)
    BY DEF IInv, Types
  <2> QED BY <2>1 DEF IInv, ItemsOK, Tells, ItemsTellTrades
<1> QED BY <1>1, Invariant, PTL

\* The sequence numbers tell the trades of OKX and Kraken apart over any number
\* of handovers, and number the items of a task on Bitstamp and Bitvavo without
\* a gap through any number of reconnects.
THEOREM NumbersAreRight == Spec => []NumbersTellTrades
<1>1. IInv => NumbersTellTrades
  <2> SUFFICES ASSUME IInv PROVE NumbersTellTrades
    OBVIOUS
  <2>1. DOMAIN received = 1..Len(received)
    BY DEF IInv, Types
  <2>2. \A i \in DOMAIN received :
           received[i].seq_id = IF Batched THEN received[i].trade
                               ELSE Cardinality(SentBy(received[i].by, i))
    BY <2>1 DEF IInv, ItemsOK
  <2>3. CASE Batched
    BY <2>2, <2>3 DEF NumbersTellTrades
  <2>4. CASE ~Batched
    BY <2>2, <2>4 DEF NumbersTellTrades
  <2> QED BY <2>3, <2>4
<1> QED BY <1>1, Invariant, PTL

\* The old connection is never given up for a subscription that was refused or
\* not answered yet.
THEOREM RetiresOnlyForAccepted == Spec => []RetiresForAccepted
<1>1. IInv => RetiresForAccepted
  BY DEF IInv, HandoverOK, RetiresForAccepted
<1> QED BY <1>1, Invariant, PTL
=============================================================================
