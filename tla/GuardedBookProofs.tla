-------------------------- MODULE GuardedBookProofs -------------------------
(***************************************************************************)
(* Proofs about the guarded order book, for every set of prices, every     *)
(* opening and every bound: the types, that no book and no item is ever    *)
(* crossed, that the view is the book, that only refused or wiped levels   *)
(* are missing, and that Kraken's book never outlives a gap.               *)
(***************************************************************************)
EXTENDS GuardedBook, SequenceTheorems, TLAPS

(* ---- what process_msg returns ----------------------------------------- *)

\* The record process_msg works on.
Work == [levels : SUBSET Level, resync : BOOLEAN, last : Nat, thrown : SUBSET Level]

\* Repairing keeps the type, leaves no crossed book and touches no sequence
\* number (repair_crossing).
LEMMA RepairedFacts ==
    ASSUME NEW s \in Work
    PROVE  /\ Repaired(s) \in Work
           /\ ~Crossed(Repaired(s).levels)
           /\ Repaired(s).last = s.last
           /\ exchange # "okx" => Repaired(s).resync = s.resync
BY DEF Repaired, Work, Crossed

\* A side of a snapshot keeps the type and leaves no crossed book
\* (apply_snapshot).
LEMMA SnapshotSideFacts ==
    ASSUME NEW s \in Work, ~Crossed(s.levels), NEW m \in Message, NEW side \in {"bid", "ask"}
    PROVE  /\ SnapshotSide(s, m, side) \in Work
           /\ ~Crossed(SnapshotSide(s, m, side).levels)
           /\ SnapshotSide(s, m, side).last \in {0, s.last}
<1> DEFINE t == [levels |-> (s.levels \ OnSide(s.levels, side)) \cup OnSide(m.set, side),
                 resync |-> s.resync /\ side = "bid",
                 last   |-> IF side = "ask" THEN 0 ELSE s.last,
                 thrown |-> s.thrown]
<1>1. t \in Work
  BY DEF Work, Message, OnSide
<1>2. t.last \in {0, s.last}
  BY DEF t
<1>3. CASE OnSide(m.set, side) = {}
  BY <1>3 DEF SnapshotSide
<1>4. CASE OnSide(m.set, side) # {}
  <2>1. SnapshotSide(s, m, side) = Repaired(t)
    BY <1>4 DEF SnapshotSide
  <2> HIDE DEF t
  <2> QED
    BY <2>1, <1>1, <1>2, RepairedFacts
<1> QED
  BY <1>3, <1>4

\* A side of an update keeps the type and the sequence number and leaves no
\* crossed book (apply_update).
LEMMA UpdateSideFacts ==
    ASSUME NEW s \in Work, NEW m \in Message, NEW side \in {"bid", "ask"}
    PROVE  /\ UpdateSide(s, m, side) \in Work
           /\ ~Crossed(UpdateSide(s, m, side).levels)
           /\ UpdateSide(s, m, side).last = s.last
<1> DEFINE t == [s EXCEPT
        !.levels = (@ \ OnSide(m.gone, side)) \cup (OnSide(m.set, side) \ Refused(s, m, side)),
        !.thrown = @ \cup Refused(s, m, side)]
<1>1. /\ OnSide(m.set, side) \subseteq Level
      /\ Refused(s, m, side) \subseteq Level
  BY DEF Message, OnSide, Refused
<1>2. t \in Work /\ t.last = s.last
  BY <1>1 DEF Work
<1>3. UpdateSide(s, m, side) = Repaired(t)
  BY DEF UpdateSide
<1> HIDE DEF t
<1> QED
  BY <1>2, <1>3, RepairedFacts

\* Tracking the sequence number changes neither levels nor history.
LEMMA TrackedFacts ==
    ASSUME NEW s \in Work, NEW m \in Message
    PROVE  /\ Tracked(s, m) \in Work
           /\ Tracked(s, m).levels = s.levels
           /\ Tracked(s, m).last = IF exchange = "kraken" THEN m.sequence ELSE s.last
           /\ exchange = "kraken" /\ ~Tracked(s, m).resync
              => s.last = 0 \/ m.sequence = s.last + 1
BY DEF Tracked, Work, Message

\* The whole of process_msg on an uncrossed book.
LEMMA ProcessedFacts ==
    ASSUME NEW s \in Work, ~Crossed(s.levels), NEW m \in Message
    PROVE  /\ Processed(s, m) \in Work
           /\ ~Crossed(Processed(s, m).levels)
           /\ Processed(s, m).last \in {0, s.last, m.sequence}
           /\ exchange = "kraken" => Processed(s, m).last = m.sequence
           /\ exchange # "kraken" => Processed(s, m).last \in {0, s.last}
           /\ exchange = "kraken" /\ m.type = "update" /\ ~Processed(s, m).resync
              => s.last = 0 \/ m.sequence = s.last + 1
<1>1. CASE m.type = "snapshot"
  <2> DEFINE b == SnapshotSide(s, m, "bid")
             a == SnapshotSide(b, m, "ask")
  <2>1. b \in Work /\ ~Crossed(b.levels) /\ b.last \in {0, s.last}
    BY SnapshotSideFacts
  <2> HIDE DEF b
  <2>2. a \in Work /\ ~Crossed(a.levels) /\ a.last \in {0, s.last}
    BY <2>1, SnapshotSideFacts
  <2>3. Processed(s, m) = Tracked(a, m)
    BY <1>1 DEF Processed, b
  <2> HIDE DEF a
  <2> QED
    BY <1>1, <2>2, <2>3, TrackedFacts
<1>2. CASE m.type # "snapshot"
  <2> DEFINE b == UpdateSide(s, m, "bid")
             a == UpdateSide(b, m, "ask")
  <2>1. b \in Work /\ b.last = s.last
    BY UpdateSideFacts
  <2> HIDE DEF b
  <2>2. a \in Work /\ ~Crossed(a.levels) /\ a.last = s.last
    BY <2>1, UpdateSideFacts
  <2>3. Processed(s, m) = Tracked(a, m)
    BY <1>2 DEF Processed, b
  <2> HIDE DEF a
  <2> QED
    BY <2>2, <2>3, TrackedFacts
<1> QED
  BY <1>1, <1>2

(* ---- the inductive invariant ------------------------------------------ *)

\* Kraken's sequence number is that of the last handled message as long as
\* the book stands on a snapshot; this is what makes track_sequence see every
\* gap after it.  A lost connection leaves no number behind (reset_local).
SequenceFollows ==
    /\ exchange = "kraken" /\ seeded => intact /\ handled # 0 /\ lastSequence = handled
    /\ ~up => lastSequence = 0

IInv == TypeOK /\ NeverCrossed /\ SequenceFollows

LEMMA NowIsBook ==
    ASSUME MarketTypeOK
    PROVE  Now \in Book /\ Now \subseteq Level /\ Len(truth) \in Nat \ {0}
BY DEF MarketTypeOK, Now, Book

LEMMA InitIInv == Init => IInv
<1> SUFFICES ASSUME Init PROVE IInv
  OBVIOUS
<1> USE MarketAssumption, GuardAssumption
<1>1. PICK opening \in Openings : truth = <<opening>>
  BY DEF Init, MarketInit
<1>2. truth \in Seq(Book) /\ Len(truth) = 1
  BY <1>1
<1>3. MarketTypeOK
  <2>1. touched = {} /\ published = 1
    BY DEF Init, MarketInit
  <2>2. published \in 1..Len(truth)
    BY <1>2, <2>1
  <2>3. truth # <<>>
    BY <1>1
  <2> QED
    BY <1>2, <2>1, <2>2, <2>3 DEF MarketTypeOK
<1>4. TypeOK
  <2>1. wire \in Seq(Message) /\ Len(wire) = 0
    BY DEF Init
  <2>2. \A i \in 1..Len(wire) : wire[i].sequence <= sequence /\ wire[i].to <= Len(truth)
    BY <2>1
  <2>3. /\ exchange \in Exchanges /\ up \in BOOLEAN /\ sequence \in Nat
        /\ book \subseteq Level /\ prevLob \subseteq Level /\ view \subseteq Level
        /\ needsResync = FALSE /\ (exchange = "okx" => lastSequence = 0)
        /\ seeded \in BOOLEAN /\ intact \in BOOLEAN /\ (intact => seeded)
        /\ thrown \subseteq Level /\ (~up => wire = <<>>)
    BY DEF Init, NoItem
  <2>4. lastSequence \in 0..sequence /\ handled \in 0..sequence /\ at \in 0..Len(truth)
    BY <1>2 DEF Init
  <2> QED
    BY <1>3, <2>1, <2>2, <2>3, <2>4 DEF TypeOK
<1>5. NeverCrossed /\ SequenceFollows
  BY DEF Init, NeverCrossed, SequenceFollows, Crossed, NoItem
<1> QED
  BY <1>4, <1>5 DEF IInv

\* The market keeps its type and never becomes shorter.
LEMMA MarketSteps ==
    ASSUME MarketTypeOK, MarketMoves \/ Published \/ Subscription \/ UNCHANGED market
    PROVE  MarketTypeOK' /\ Len(truth) <= Len(truth')
<1>1. CASE MarketMoves
  <2>1. PICK l \in Level :
           LET book1 == IF l \in Now THEN Now \ {l} ELSE Now \cup {l} IN
           /\ ~Crossed(book1)
           /\ truth' = Append(truth, book1)
           /\ touched' = touched \cup {l}
    BY <1>1 DEF MarketMoves
  <2> DEFINE book1 == IF l \in Now THEN Now \ {l} ELSE Now \cup {l}
  <2>2. book1 \in Book
    BY <2>1, NowIsBook DEF Book
  <2>3. truth' = Append(truth, book1) /\ touched' \subseteq Level /\ published' = published
    BY <1>1, <2>1 DEF MarketMoves, MarketTypeOK
  <2> HIDE DEF book1
  <2> QED
    BY <2>2, <2>3 DEF MarketTypeOK
<1>2. CASE Published \/ Subscription
  BY <1>2 DEF MarketTypeOK, Published, Subscription
<1>3. CASE UNCHANGED market
  BY <1>3 DEF MarketTypeOK, market
<1> QED
  BY <1>1, <1>2, <1>3

\* What TypeOK says of the messages in the socket.
WireOK == /\ wire \in Seq(Message) /\ sequence \in Nat
          /\ \A i \in 1..Len(wire) : wire[i].sequence <= sequence /\ wire[i].to <= Len(truth)

\* A message the exchange sends is well formed.
LEMMA SentMessages ==
    ASSUME MarketTypeOK, NEW n \in Nat \ {0}
    PROVE  /\ Snapshot(n) \in Message /\ Snapshot(n).sequence = n /\ Snapshot(n).to = Len(truth)
           /\ Update(n) \in Message /\ Update(n).sequence = n /\ Update(n).to = Len(truth)
<1>1. /\ Now \subseteq Level /\ touched \subseteq Level
      /\ Len(truth) \in Nat \ {0}
  BY NowIsBook DEF MarketTypeOK
<1>2. Snapshot(n) \in Message
  BY <1>1 DEF Snapshot, Message
<1>3. UpdateNow.set \subseteq Level /\ UpdateNow.gone \subseteq Level
  BY <1>1 DEF UpdateNow
<1>4. Update(n) \in Message
  BY <1>1, <1>3 DEF Update, Message
<1> QED
  BY <1>2, <1>4 DEF Snapshot, Update

\* Sending and dropping messages keeps the socket well formed.
LEMMA WireSteps ==
    ASSUME WireOK, Len(truth) \in Nat, Len(truth') \in Nat, Len(truth) <= Len(truth'),
           sequence' \in Nat, sequence <= sequence',
           \/ wire' = wire
           \/ wire' = <<>>
           \/ wire # <<>> /\ wire' = Tail(wire)
           \/ \E m \in Message : /\ m.sequence <= sequence' /\ m.to <= Len(truth')
                                 /\ wire' = Append(wire, m)
    PROVE  WireOK'
<1>0. \A m \in Message : m.sequence \in Nat /\ m.to \in Nat
  BY DEF Message
<1>1. CASE wire' = wire
  <2>1. \A i \in 1..Len(wire) : wire[i] \in Message
    BY DEF WireOK
  <2> QED
    BY <1>0, <1>1, <2>1 DEF WireOK
<1>2. CASE wire' = <<>>
  BY <1>2 DEF WireOK
<1>3. CASE wire # <<>> /\ wire' = Tail(wire)
  <2>1. wire' \in Seq(Message) /\ Len(wire') = Len(wire) - 1
    BY <1>3 DEF WireOK
  <2>2. ASSUME NEW i \in 1..Len(wire')
        PROVE  wire'[i].sequence <= sequence' /\ wire'[i].to <= Len(truth')
    <3>1. i \in 1..Len(Tail(wire))
      BY <1>3, <2>2
    <3>2. wire \in Seq(Message)
      BY DEF WireOK
    <3>3. Tail(wire)[i] = wire[i + 1]
      BY <1>3, <3>1, <3>2, HeadTailProperties
    <3>4. i + 1 \in 1..Len(wire)
      <4>1. Len(wire) \in Nat /\ Len(wire') = Len(wire) - 1
        BY <2>1, <3>2
      <4> QED
        BY <4>1, <2>2
    <3>5. /\ wire[i + 1] \in Message /\ wire[i + 1].sequence <= sequence
          /\ wire[i + 1].to <= Len(truth)
      BY <3>2, <3>4 DEF WireOK
    <3>6. sequence \in Nat
      BY DEF WireOK
    <3> QED
      BY <1>0, <1>3, <3>3, <3>5, <3>6
  <2> QED
    BY <2>1, <2>2 DEF WireOK
<1>4. ASSUME NEW m \in Message, m.sequence <= sequence', m.to <= Len(truth'),
             wire' = Append(wire, m)
      PROVE  WireOK'
  <2>1. /\ wire' \in Seq(Message) /\ Len(wire') = Len(wire) + 1
        /\ \A i \in 1..Len(wire) : wire'[i] = wire[i]
        /\ wire'[Len(wire) + 1] = m
    BY <1>4 DEF WireOK
  <2>2. \A i \in 1..Len(wire) : wire[i] \in Message
    BY DEF WireOK
  <2> QED
    BY <1>0, <1>4, <2>1, <2>2 DEF WireOK
<1> QED
  BY <1>1, <1>2, <1>3, <1>4

\* An action of the exchange keeps TypeOK: it moves the market, the socket,
\* the sequence number and the bounds, and leaves the adapter alone.
LEMMA ExchangeSteps ==
    ASSUME TypeOK, Moves \/ PublishesUpdate \/ LosesUpdate \/ RepeatsMessage \/ ResendsSnapshot
    PROVE  TypeOK'
<1>1. MarketTypeOK /\ WireOK
  BY DEF TypeOK, WireOK
<1>2. Len(truth) \in Nat \ {0} /\ sequence \in Nat /\ wire \in Seq(Message)
  BY <1>1, NowIsBook DEF WireOK
<1>3. MarketTypeOK' /\ Len(truth) <= Len(truth')
  <2>1. MarketMoves \/ Published \/ Subscription \/ UNCHANGED market
    BY DEF Moves, PublishesUpdate, LosesUpdate, RepeatsMessage, ResendsSnapshot
  <2> QED
    BY <1>1, <2>1, MarketSteps
<1>4. Len(truth') \in Nat
  BY <1>3, NowIsBook DEF MarketTypeOK
<1>5. /\ sequence' \in Nat /\ sequence <= sequence'
      /\ \/ wire' = wire
         \/ \E m \in Message : /\ m.sequence <= sequence' /\ m.to <= Len(truth')
                               /\ wire' = Append(wire, m)
  <2>1. CASE Moves
    BY <2>1, <1>2 DEF Moves
  <2>2. CASE PublishesUpdate
    <3>1. sequence' = sequence + 1 /\ truth' = truth /\ wire' = Append(wire, Update(sequence'))
      BY <2>2 DEF PublishesUpdate, Published
    <3>2. sequence' \in Nat \ {0} /\ sequence <= sequence'
      BY <3>1, <1>2
    <3>3. /\ Update(sequence') \in Message /\ Update(sequence').sequence = sequence'
          /\ Update(sequence').to = Len(truth)
      BY <3>2, <1>1, SentMessages
    <3> QED
      BY <3>1, <3>2, <3>3, <1>2
  <2>3. CASE LosesUpdate
    BY <2>3, <1>2 DEF LosesUpdate
  <2>4. CASE RepeatsMessage
    <3>1. Len(wire) \in 1..Len(wire) /\ wire[Len(wire)] \in Message
      BY <2>4, <1>2 DEF RepeatsMessage
    <3>2. wire[Len(wire)].sequence <= sequence /\ wire[Len(wire)].to <= Len(truth)
      BY <3>1, <1>1 DEF WireOK
    <3> QED
      BY <2>4, <3>1, <3>2, <1>2 DEF RepeatsMessage, market
  <2>5. CASE ResendsSnapshot
    <3>1. sequence' = sequence + 1 /\ truth' = truth /\ wire' = Append(wire, Snapshot(sequence'))
      BY <2>5 DEF ResendsSnapshot, Subscription
    <3>2. sequence' \in Nat \ {0} /\ sequence <= sequence'
      BY <3>1, <1>2
    <3>3. /\ Snapshot(sequence') \in Message /\ Snapshot(sequence').sequence = sequence'
          /\ Snapshot(sequence').to = Len(truth)
      BY <3>2, <1>1, SentMessages
    <3> QED
      BY <3>1, <3>2, <3>3, <1>2
  <2> QED
    BY <2>1, <2>2, <2>3, <2>4, <2>5
<1>6. WireOK'
  BY <1>1, <1>2, <1>3, <1>4, <1>5, WireSteps
<1>7. /\ UNCHANGED <<exchange, up, adapter, view, history>>
      /\ ~up => wire' = wire
  BY DEF Moves, PublishesUpdate, LosesUpdate, RepeatsMessage, ResendsSnapshot
<1>8. /\ (lastSequence \in 0..sequence)' /\ (handled \in 0..sequence)'
      /\ (at \in 0..Len(truth))'
  BY <1>2, <1>3, <1>4, <1>5, <1>7 DEF TypeOK, adapter, history
<1> QED
  BY <1>3, <1>6, <1>7, <1>8 DEF TypeOK, WireOK, adapter, history

\* An item is a part of the book it is made of, so it is crossed only if the
\* book is (to_lob_item and its two filters).
LEMMA ItemFacts ==
    ASSUME NEW levels \in SUBSET Level, ~Crossed(levels)
    PROVE  Item(levels) \in SUBSET levels /\ ~Crossed(Item(levels))
<1>1. NearBest(levels) \subseteq levels
  BY DEF NearBest
<1>2. Top(NearBest(levels)) \subseteq NearBest(levels)
  BY DEF Top
<1>3. Item(levels) \in SUBSET levels
  BY <1>1, <1>2 DEF Item, NoItem
<1> QED
  BY <1>3 DEF Crossed

\* A step of the adapter that handles a message keeps the invariant: the one
\* argument that needs to know what process_msg returns.
LEMMA HandleSteps ==
    ASSUME IInv, HandleMessage
    PROVE  IInv'
<1> DEFINE m == Head(wire)
           s == Processed(State, m)
<1>1. MarketTypeOK /\ WireOK
  BY DEF IInv, TypeOK, WireOK
<1>2. wire \in Seq(Message) /\ wire # <<>> /\ Len(truth) \in Nat \ {0} /\ sequence \in Nat
  BY <1>1, NowIsBook DEF HandleMessage, WireOK
<1>3. /\ m \in Message /\ m.sequence <= sequence /\ m.to <= Len(truth)
      /\ m.sequence \in Nat \ {0} /\ m.to \in Nat \ {0}
  <2>1. 1 \in 1..Len(wire) /\ m = wire[1] /\ wire[1] \in Message
    BY <1>2
  <2>2. wire[1].sequence <= sequence /\ wire[1].to <= Len(truth)
    BY <2>1, <1>1 DEF WireOK
  <2> QED
    BY <2>1, <2>2 DEF Message
<1>4. /\ State \in Work /\ ~Crossed(State.levels) /\ State.last = lastSequence
      /\ lastSequence \in Nat
  <2>1. /\ book \subseteq Level /\ needsResync \in BOOLEAN /\ thrown \subseteq Level
        /\ ~Crossed(book)
    BY DEF IInv, TypeOK, NeverCrossed
  <2>2. lastSequence \in Nat
    BY <1>2 DEF IInv, TypeOK
  <2> QED
    BY <2>1, <2>2 DEF State, Work
<1> HIDE DEF m
<1>5. /\ s \in Work /\ ~Crossed(s.levels)
      /\ s.last \in {0, lastSequence, m.sequence}
      /\ exchange = "kraken" => s.last = m.sequence
      /\ exchange # "kraken" => s.last \in {0, lastSequence}
      /\ exchange = "kraken" /\ m.type = "update" /\ ~s.resync
         => lastSequence = 0 \/ m.sequence = lastSequence + 1
  BY <1>3, <1>4, ProcessedFacts
<1>6. /\ wire' = Tail(wire) /\ up
      /\ UNCHANGED <<market, exchange, up, sequence, counters>>
      /\ at' = m.to /\ handled' = m.sequence /\ thrown' = s.thrown
  BY DEF HandleMessage, m
<1>7. \/ /\ s.resync /\ Dropped /\ UNCHANGED view
         /\ seeded' = FALSE /\ intact' = FALSE
      \/ /\ ~s.resync
         /\ book' = s.levels /\ needsResync' = FALSE /\ lastSequence' = s.last
         /\ prevLob' \in {Item(s.levels), prevLob} /\ view' \in {Item(s.levels), view}
         /\ seeded' \in BOOLEAN /\ intact' \in BOOLEAN
         /\ \/ m.type = "snapshot" /\ (seeded' = intact')
            \/ m.type = "update" /\ (seeded' = seeded)
               /\ (intact' = (intact /\ m.sequence = handled + 1))
  <2>1. m.type \in {"snapshot", "update"}
    BY <1>3 DEF Message
  <2>2. seeded \in BOOLEAN /\ intact \in BOOLEAN /\ s.resync \in BOOLEAN
    BY <1>5 DEF IInv, TypeOK, Work
  <2> QED
    BY <2>1, <2>2 DEF HandleMessage, Emits, m
<1>a. Item(s.levels) \in SUBSET Level /\ ~Crossed(Item(s.levels))
  <2>1. s.levels \in SUBSET Level
    BY <1>5 DEF Work
  <2> QED
    BY <1>5, <2>1, ItemFacts
<1> HIDE DEF s
<1>8. WireOK'
  BY <1>1, <1>2, <1>6, WireSteps DEF market
<1>9. MarketTypeOK'
  BY <1>1, <1>6, MarketSteps
<1>10. TypeOK'
  <2>1. /\ book' \subseteq Level /\ prevLob' \subseteq Level /\ view' \subseteq Level
        /\ thrown' \subseteq Level /\ needsResync' = FALSE
        /\ seeded' \in BOOLEAN /\ intact' \in BOOLEAN
    BY <1>5, <1>6, <1>7, <1>a DEF IInv, TypeOK, Work, Dropped, NoItem
  <2>2. intact' => seeded'
    BY <1>7 DEF IInv, TypeOK
  <2>3. (lastSequence \in 0..sequence)' /\ (exchange = "okx" => lastSequence = 0)'
    BY <1>2, <1>3, <1>5, <1>6, <1>7 DEF IInv, TypeOK, Dropped
  <2>4. (at \in 0..Len(truth))' /\ (handled \in 0..sequence)'
    BY <1>2, <1>3, <1>6 DEF market
  <2> QED
    BY <1>6, <1>8, <1>9, <2>1, <2>2, <2>3, <2>4 DEF IInv, TypeOK, WireOK
<1>11. NeverCrossed'
  BY <1>5, <1>7, <1>a DEF IInv, NeverCrossed, Dropped, Crossed
<1>12. SequenceFollows'
  BY <1>3, <1>5, <1>6, <1>7 DEF IInv, SequenceFollows, TypeOK
<1> QED
  BY <1>10, <1>11, <1>12 DEF IInv

\* Subscribing, losing the connection and stuttering keep the invariant.
LEMMA ConnectionSteps ==
    ASSUME IInv, Connect \/ Disconnect \/ UNCHANGED vars
    PROVE  IInv'
<1>1. MarketTypeOK /\ WireOK
  BY DEF IInv, TypeOK, WireOK
<1>2. Len(truth) \in Nat \ {0} /\ sequence \in Nat
  BY <1>1, NowIsBook DEF WireOK
<1>3. CASE Connect
  <2>1. /\ truth' = truth /\ sequence' = 1 /\ wire' = <<Snapshot(1)>>
        /\ up' = TRUE /\ handled' = 0 /\ seeded' = FALSE /\ intact' = FALSE /\ thrown' = {}
        /\ UNCHANGED <<exchange, adapter, view, counters, at>>
    BY <1>3 DEF Connect, Subscription
  <2>2. Snapshot(1) \in Message /\ Snapshot(1).sequence = 1 /\ Snapshot(1).to = Len(truth)
    BY <1>1, SentMessages
  <2>3. MarketTypeOK'
    BY <1>1, <1>3, MarketSteps DEF Connect
  <2>4. WireOK'
    BY <1>2, <2>1, <2>2 DEF WireOK
  <2>5. lastSequence = 0
    BY <1>3 DEF IInv, SequenceFollows, Connect
  <2>6. (lastSequence \in 0..sequence)' /\ (handled \in 0..sequence)' /\ (at \in 0..Len(truth))'
    BY <1>2, <2>1, <2>5 DEF IInv, TypeOK, adapter
  <2>7. TypeOK'
    BY <2>1, <2>3, <2>4, <2>6 DEF IInv, TypeOK, WireOK, adapter
  <2> QED
    BY <2>1, <2>7 DEF IInv, NeverCrossed, SequenceFollows, Crossed, adapter
<1>4. CASE Disconnect
  <2>1. MarketTypeOK'
    BY <1>1, <1>4, MarketSteps DEF Disconnect
  <2>2. WireOK'
    BY <1>1, <1>2, <1>4, WireSteps DEF Disconnect, market
  <2>3. /\ UNCHANGED <<exchange, sequence, view, at, handled, thrown>> /\ truth' = truth
        /\ up' = FALSE /\ wire' = <<>> /\ seeded' = FALSE /\ intact' = FALSE /\ Dropped
    BY <1>4 DEF Disconnect, market
  <2>4. (lastSequence \in 0..sequence)' /\ (handled \in 0..sequence)' /\ (at \in 0..Len(truth))'
    BY <1>2, <2>3 DEF IInv, TypeOK, Dropped
  <2>5. TypeOK'
    BY <2>1, <2>2, <2>3, <2>4 DEF IInv, TypeOK, WireOK, Dropped, NoItem
  <2> QED
    BY <2>3, <2>5 DEF IInv, NeverCrossed, SequenceFollows, Dropped, Crossed
<1>5. CASE UNCHANGED vars
  <2>1. MarketTypeOK'
    BY <1>1, <1>5, MarketSteps DEF vars
  <2> QED
    BY <2>1, <1>5 DEF IInv, TypeOK, NeverCrossed, SequenceFollows, Crossed,
                      vars, market, adapter, counters, history
<1> QED
  BY <1>3, <1>4, <1>5

LEMMA StepIInv == IInv /\ [Next]_vars => IInv'
<1> SUFFICES ASSUME IInv, [Next]_vars PROVE IInv'
  OBVIOUS
<1>1. CASE Moves \/ PublishesUpdate \/ LosesUpdate \/ RepeatsMessage \/ ResendsSnapshot
  <2>1. TypeOK'
    BY <1>1, ExchangeSteps DEF IInv
  <2>2. UNCHANGED <<exchange, adapter, view, history>>
    BY <1>1 DEF Moves, PublishesUpdate, LosesUpdate, RepeatsMessage, ResendsSnapshot
  <2> QED
    BY <1>1, <2>1, <2>2 DEF IInv, NeverCrossed, SequenceFollows, Crossed, adapter, history,
                            Moves, PublishesUpdate, LosesUpdate, RepeatsMessage, ResendsSnapshot
<1>2. CASE HandleMessage
  BY <1>2, HandleSteps
<1>3. CASE Connect \/ Disconnect \/ UNCHANGED vars
  BY <1>3, ConnectionSteps
<1> QED
  BY <1>1, <1>2, <1>3 DEF Next

LEMMA Inductive == Spec => []IInv
BY InitIInv, StepIInv, PTL DEF Spec

(* ---- the theorems ------------------------------------------------------ *)

\* Every variable keeps its type, and no flagged book outlives the message
\* that flagged it (handle_message, reset_local), on both exchanges.
THEOREM GuardTypeCorrect == Spec => []TypeOK
<1>1. IInv => TypeOK
  BY DEF IInv
<1> QED
  BY <1>1, Inductive, PTL

\* No local book and no item is ever crossed, whatever the feed loses,
\* repeats or sends again (the crossing guard, repair_crossing).
THEOREM NeverCrossedCorrect == Spec => []NeverCrossed
<1>1. IInv => NeverCrossed
  BY DEF IInv
<1> QED
  BY <1>1, Inductive, PTL

\* Kraken's book never lives on after a gap or a repetition of sequence
\* numbers (track_sequence, reset_local).
THEOREM GapDropsBookCorrect == Spec => []GapDropsBook
<1>1. IInv => GapDropsBook
  BY DEF IInv, SequenceFollows, GapDropsBook
<1> QED
  BY <1>1, Inductive, PTL

(* ---- what the consumer sees ------------------------------------------- *)

\* Inductive by itself: the previous item is the consumer's last one, and it
\* is the item of the book if that has one.
Shown == /\ prevLob # NoItem => view = prevLob
         /\ Item(book) # NoItem => prevLob = Item(book)

\* An emptied book has no item.
LEMMA NoItemOfNothing == Item({}) = NoItem
BY DEF Item, TwoSided

LEMMA DroppedShown == Dropped => Shown'
BY NoItemOfNothing DEF Dropped, Shown, Item, Top, NearBest, TwoSided, NoItem

\* Whatever emit_lob decides, the consumer is up to date afterwards.
LEMMA EmitsShown ==
    ASSUME Shown, NEW levels, book' = levels, Emits(Item(levels))
    PROVE  Shown'
<1>1. Item(book') = Item(levels) /\ Item(book)' = Item(book')
  BY DEF Item, Top, NearBest, TwoSided, NoItem, Better, WithinPct
<1> QED
  BY <1>1 DEF Shown, Emits, NoItem

\* The consumer's last item is the filtered book whenever that stands on a
\* snapshot and has two sides, for every filter (emit_lob, reset_local).
THEOREM ViewIsBookCorrect == Spec => []ViewIsBook
<1>1. Init => Shown
  BY NoItemOfNothing DEF Init, Shown
<1>2. Shown /\ [Next]_vars => Shown'
  <2> SUFFICES ASSUME Shown, [Next]_vars PROVE Shown'
    OBVIOUS
  <2>1. CASE HandleMessage
    <3>1. \/ Dropped
          \/ \E levels : book' = levels /\ Emits(Item(levels))
      BY <2>1 DEF HandleMessage
    <3> QED
      BY <3>1, DroppedShown, EmitsShown
  <2>2. CASE Disconnect
    BY <2>2, DroppedShown DEF Disconnect
  <2>3. CASE UNCHANGED <<book, prevLob, view>>
    BY <2>3 DEF Shown, Item, Top, NearBest, TwoSided, NoItem
  <2>4. CASE Moves \/ PublishesUpdate \/ LosesUpdate \/ RepeatsMessage \/ ResendsSnapshot
             \/ Connect \/ UNCHANGED vars
    BY <2>3, <2>4 DEF Moves, PublishesUpdate, LosesUpdate, RepeatsMessage, ResendsSnapshot,
                      Connect, adapter, vars
  <2> QED
    BY <2>1, <2>2, <2>4 DEF Next
<1>3. Shown => ViewIsBook
  BY DEF Shown, ViewIsBook
<1> QED
  BY <1>1, <1>2, <1>3, PTL DEF Spec

(* ---- nothing stale, nothing missing but what was thrown ----------------- *)

Sent == {wire[i] : i \in 1..Len(wire)}

\* What an update says, on top of the book after change k.
Extends(n, k) ==
    \A l \in Level : l \in truth[n.to] <=> l \in n.set \/ (l \notin n.gone /\ l \in truth[k])

\* What the messages in the socket tell of the exchange's books: each update
\* leads from the message numbered before it to its own change, and the one
\* after the last handled message from the book that was left by that one.
FeedTells ==
    /\ \A l \in Level \ touched : l \in Now <=> l \in truth[published]
    /\ \A m \in Sent : m.sequence = sequence => m.to = published
    /\ \A m \in Sent : m.type = "snapshot" => m.set = truth[m.to]
    /\ \A m, n \in Sent : n.type = "update" /\ n.sequence = m.sequence + 1 => Extends(n, m.to)
    /\ intact => /\ at # 0
                 /\ handled = sequence => at = published
                 /\ \A n \in Sent : n.type = "update" /\ n.sequence = handled + 1
                                    => Extends(n, at)

\* A side of the local book against that of a book: nothing more, and nothing
\* less but what was thrown.
Tracks(levels, gone, B, side) ==
    OnSide(levels, side) \subseteq B /\ OnSide(B, side) \subseteq levels \cup gone

LEMMA RepairedTracks ==
    ASSUME NEW s \in Work, NEW B, NEW side, Tracks(s.levels, s.thrown, B, side)
    PROVE  Tracks(Repaired(s).levels, Repaired(s).thrown, B, side)
<1>1. \/ Repaired(s) = s
      \/ Repaired(s).levels = {} /\ Repaired(s).thrown = s.thrown \cup s.levels
  BY DEF Repaired, Work
<1> QED
  BY <1>1 DEF Tracks, OnSide

\* A side of an update takes that side from one book to the next and leaves
\* the other one where it was (apply_update, the guard).
LEMMA UpdateSideTracks ==
    ASSUME NEW s \in Work, NEW m \in Message, NEW side \in {"bid", "ask"},
           NEW A \in SUBSET Level, NEW B \in SUBSET Level,
           \A l \in Level : l \in B <=> l \in m.set \/ (l \notin m.gone /\ l \in A)
    PROVE  LET u == UpdateSide(s, m, side) IN
           /\ Tracks(s.levels, s.thrown, A, side) => Tracks(u.levels, u.thrown, B, side)
           /\ \A C, other : other # side /\ Tracks(s.levels, s.thrown, C, other)
                            => Tracks(u.levels, u.thrown, C, other)
<1> DEFINE new == (s.levels \ OnSide(m.gone, side)) \cup (OnSide(m.set, side) \ Refused(s, m, side))
           t == [s EXCEPT !.levels = new, !.thrown = @ \cup Refused(s, m, side)]
<1>1. OnSide(m.set, side) \subseteq Level /\ Refused(s, m, side) \subseteq OnSide(m.set, side)
  BY DEF Message, OnSide, Refused
<1>2. t \in Work /\ t.levels = new /\ t.thrown = s.thrown \cup Refused(s, m, side)
  BY <1>1 DEF Work
<1>3. UpdateSide(s, m, side) = Repaired(t)
  BY DEF UpdateSide
<1>4. s.levels \subseteq Level /\ m.set \subseteq Level
  BY DEF Work, Message
<1>5. Tracks(s.levels, s.thrown, A, side) => Tracks(t.levels, t.thrown, B, side)
  <2> HIDE DEF t
  <2> QED
    BY <1>1, <1>2, <1>4 DEF Tracks, OnSide
<1>6. ASSUME NEW C, NEW other, other # side, Tracks(s.levels, s.thrown, C, other)
      PROVE  Tracks(t.levels, t.thrown, C, other)
  <2>1. \A l : l \in OnSide(m.set, side) \/ l \in OnSide(m.gone, side) => l.side # other
    BY <1>6 DEF OnSide
  <2> HIDE DEF t
  <2> QED
    BY <1>1, <1>2, <1>6, <2>1 DEF Tracks, OnSide
<1> HIDE DEF t
<1> QED
  BY <1>2, <1>3, <1>5, <1>6, RepairedTracks

\* A side of a snapshot takes that side to the snapshot's, unless it has none
\* and the book neither, and leaves the other (apply_snapshot).
LEMMA SnapshotSideTracks ==
    ASSUME NEW s \in Work, NEW m \in Message, NEW side \in {"bid", "ask"},
           OnSide(m.set, side) = {} => OnSide(s.levels, side) = {}
    PROVE  LET u == SnapshotSide(s, m, side) IN
           /\ Tracks(u.levels, u.thrown, m.set, side)
           /\ \A C, other : other # side /\ Tracks(s.levels, s.thrown, C, other)
                            => Tracks(u.levels, u.thrown, C, other)
<1> DEFINE t == [levels |-> (s.levels \ OnSide(s.levels, side)) \cup OnSide(m.set, side),
                 resync |-> s.resync /\ side = "bid",
                 last   |-> IF side = "ask" THEN 0 ELSE s.last,
                 thrown |-> s.thrown]
<1>1. CASE OnSide(m.set, side) = {}
  BY <1>1 DEF SnapshotSide, Tracks
<1>2. CASE OnSide(m.set, side) # {}
  <2>1. SnapshotSide(s, m, side) = Repaired(t)
    BY <1>2 DEF SnapshotSide
  <2>2. t \in Work
    BY DEF Work, Message, OnSide
  <2>3. t.levels = (s.levels \ OnSide(s.levels, side)) \cup OnSide(m.set, side)
        /\ t.thrown = s.thrown
    OBVIOUS
  <2> HIDE DEF t
  <2>4. Tracks(t.levels, t.thrown, m.set, side)
    BY <2>3 DEF Tracks, OnSide
  <2>5. ASSUME NEW C, NEW other, other # side, Tracks(s.levels, s.thrown, C, other)
        PROVE  Tracks(t.levels, t.thrown, C, other)
    BY <2>3, <2>5 DEF Tracks, OnSide
  <2> QED
    BY <2>1, <2>2, <2>4, <2>5, RepairedTracks
<1> QED
  BY <1>1, <1>2

\* Both sides together.
LEMMA BothSides ==
    ASSUME NEW levels \in SUBSET Level, NEW gone, NEW B \in SUBSET Level,
           Tracks(levels, gone, B, "bid"), Tracks(levels, gone, B, "ask")
    PROVE  levels \subseteq B /\ B \ levels \subseteq gone
BY DEF Tracks, OnSide, Level

\* An update that follows the book's change takes the book to its own
\* (process_msg on an update).
LEMMA UpdateTracks ==
    ASSUME NEW s \in Work, NEW m \in Message, m.type = "update",
           NEW A \in SUBSET Level, NEW B \in SUBSET Level,
           \A l \in Level : l \in B <=> l \in m.set \/ (l \notin m.gone /\ l \in A),
           s.levels \subseteq A, A \ s.levels \subseteq s.thrown
    PROVE  /\ Processed(s, m).levels \subseteq B
           /\ B \ Processed(s, m).levels \subseteq Processed(s, m).thrown
<1> DEFINE b == UpdateSide(s, m, "bid")
           a == UpdateSide(b, m, "ask")
<1>1. Tracks(s.levels, s.thrown, A, "bid") /\ Tracks(s.levels, s.thrown, A, "ask")
  BY DEF Tracks, OnSide
<1>2. /\ b \in Work /\ Tracks(b.levels, b.thrown, B, "bid")
      /\ Tracks(b.levels, b.thrown, A, "ask")
  BY <1>1, UpdateSideTracks, UpdateSideFacts
<1> HIDE DEF b
<1>3. /\ a \in Work /\ Tracks(a.levels, a.thrown, B, "ask")
      /\ Tracks(a.levels, a.thrown, B, "bid")
  BY <1>2, UpdateSideTracks, UpdateSideFacts
<1>4. Processed(s, m) = Tracked(a, m)
  BY DEF Processed, b
<1> HIDE DEF a
<1>5. Processed(s, m).levels = a.levels /\ Processed(s, m).thrown = a.thrown
  BY <1>3, <1>4 DEF Tracked, Work
<1>6. a.levels \in SUBSET Level
  BY <1>3 DEF Work
<1> QED
  BY <1>3, <1>5, <1>6, BothSides

\* A snapshot that leaves no side stale takes the book to its own
\* (process_msg on a snapshot).
LEMMA SnapshotTracks ==
    ASSUME NEW s \in Work, ~Crossed(s.levels), NEW m \in Message, m.type = "snapshot",
           {l.side : l \in s.levels} \subseteq {l.side : l \in m.set}
    PROVE  /\ Processed(s, m).levels \subseteq m.set
           /\ m.set \ Processed(s, m).levels \subseteq Processed(s, m).thrown
<1> DEFINE b == SnapshotSide(s, m, "bid")
           a == SnapshotSide(b, m, "ask")
<1>1. \A side \in {"bid", "ask"} : OnSide(m.set, side) = {} => OnSide(s.levels, side) = {}
  BY DEF OnSide
<1>2. b \in Work /\ ~Crossed(b.levels) /\ Tracks(b.levels, b.thrown, m.set, "bid")
  BY <1>1, SnapshotSideTracks, SnapshotSideFacts
<1>3. OnSide(m.set, "ask") = {} => OnSide(b.levels, "ask") = {}
  <2>1. OnSide(m.set, "ask") = {} => Tracks(s.levels, s.thrown, {}, "ask")
    BY <1>1 DEF Tracks, OnSide
  <2>2. OnSide(m.set, "ask") = {} => Tracks(b.levels, b.thrown, {}, "ask")
    BY <1>1, <2>1, SnapshotSideTracks
  <2> QED
    BY <2>2 DEF Tracks
<1> HIDE DEF b
<1>4. /\ a \in Work /\ Tracks(a.levels, a.thrown, m.set, "ask")
      /\ Tracks(a.levels, a.thrown, m.set, "bid")
  BY <1>2, <1>3, SnapshotSideTracks, SnapshotSideFacts
<1>5. Processed(s, m) = Tracked(a, m)
  BY DEF Processed, b
<1> HIDE DEF a
<1>6. Processed(s, m).levels = a.levels /\ Processed(s, m).thrown = a.thrown
  BY <1>4, <1>5 DEF Tracked, Work
<1>7. a.levels \in SUBSET Level /\ m.set \in SUBSET Level
  BY <1>4 DEF Work, Message
<1> QED
  BY <1>4, <1>6, <1>7, BothSides

\* The messages in the socket after a send and after a read.
LEMMA SentSteps ==
    ASSUME WireOK
    PROVE  /\ \A m \in Sent : /\ m \in Message /\ m.sequence \in Nat /\ m.to \in 1..Len(truth)
                              /\ m.sequence <= sequence
           /\ wire # <<>> => Head(wire) \in Sent
           /\ wire # <<>> /\ wire' = Tail(wire) => Sent' \subseteq Sent
           /\ wire' = <<>> => Sent' = {}
           /\ wire' = wire => Sent' = Sent
           /\ \A m \in Message : wire' = Append(wire, m) => Sent' = Sent \cup {m}
<1>1. wire \in Seq(Message) /\ \A i \in 1..Len(wire) : wire[i] \in Message
  BY DEF WireOK
<1>2. \A m \in Sent : /\ m \in Message /\ m.sequence \in Nat /\ m.to \in 1..Len(truth)
                      /\ m.sequence <= sequence
  <2> SUFFICES ASSUME NEW i \in 1..Len(wire)
               PROVE  /\ wire[i] \in Message /\ wire[i].sequence \in Nat
                      /\ wire[i].to \in 1..Len(truth) /\ wire[i].sequence <= sequence
    BY DEF Sent
  <2>1. wire[i].to \in Nat \ {0} /\ wire[i].sequence \in Nat \ {0}
    BY <1>1 DEF Message
  <2>2. wire[i].to <= Len(truth) /\ wire[i].sequence <= sequence
    BY DEF WireOK
  <2> QED
    BY <1>1, <2>1, <2>2
<1>3. wire # <<>> => Head(wire) \in Sent
  <2>1. wire # <<>> => 1 \in 1..Len(wire) /\ Head(wire) = wire[1]
    BY <1>1
  <2> QED
    BY <2>1 DEF Sent
<1>4. ASSUME wire # <<>>, wire' = Tail(wire) PROVE Sent' \subseteq Sent
  <2> SUFFICES ASSUME NEW i \in 1..Len(Tail(wire)) PROVE Tail(wire)[i] \in Sent
    BY <1>4 DEF Sent
  <2>1. Tail(wire)[i] = wire[i + 1]
    BY <1>1, <1>4, HeadTailProperties
  <2>2. i + 1 \in 1..Len(wire)
    BY <1>1, <1>4
  <2> QED
    BY <2>1, <2>2 DEF Sent
<1>5. ASSUME NEW m \in Message, wire' = Append(wire, m) PROVE Sent' = Sent \cup {m}
  <2>1. /\ Len(wire') = Len(wire) + 1 /\ wire'[Len(wire) + 1] = m
        /\ \A i \in 1..Len(wire) : wire'[i] = wire[i]
        /\ Len(wire) \in Nat
    BY <1>1, <1>5
  <2>2. 1..Len(wire') = 1..Len(wire) \cup {Len(wire) + 1}
    BY <2>1
  <2> QED
    BY <2>1, <2>2 DEF Sent
<1>6. /\ wire' = <<>> => Sent' = {}
      /\ wire' = wire => Sent' = Sent
  BY DEF Sent
<1> QED
  BY <1>2, <1>3, <1>4, <1>5, <1>6

\* The past of the market stays.
LEMMA TruthGrows ==
    ASSUME MarketTypeOK, MarketMoves \/ UNCHANGED truth
    PROVE  \A k \in 1..Len(truth) : k \in 1..Len(truth') /\ truth'[k] = truth[k]
<1>1. CASE MarketMoves
  <2>1. PICK b : truth' = Append(truth, b)
    BY <1>1 DEF MarketMoves
  <2> QED
    BY <2>1 DEF MarketTypeOK
<1> QED
  BY <1>1

\* A change of the market is in `touched' until it is published.
LEMMA MovesTell == ASSUME IInv, FeedTells, Moves PROVE FeedTells'
<1>1. MarketTypeOK /\ WireOK /\ (intact => at \in 0..Len(truth)) /\ published \in 1..Len(truth)
  BY DEF IInv, TypeOK, WireOK, MarketTypeOK
<1>2. /\ Sent' = Sent /\ UNCHANGED <<sequence, at, handled, intact, published>>
      /\ \A k \in 1..Len(truth) : truth'[k] = truth[k]
      /\ \A m \in Sent : m \in Message /\ m.to \in 1..Len(truth)
  BY <1>1, SentSteps, TruthGrows DEF Moves, history, MarketMoves
<1>3. \A l \in Level \ touched' : l \in Now' <=> l \in truth'[published']
  <2>1. PICK c \in Level :
           /\ truth' = Append(truth, IF c \in Now THEN Now \ {c} ELSE Now \cup {c})
           /\ touched' = touched \cup {c}
    BY DEF Moves, MarketMoves
  <2>2. Now' = IF c \in Now THEN Now \ {c} ELSE Now \cup {c}
    BY <1>1, <2>1 DEF Now, MarketTypeOK
  <2> QED
    BY <1>1, <1>2, <2>1, <2>2 DEF FeedTells
<1>4. \A n \in Sent, k \in 1..Len(truth) : Extends(n, k) => Extends(n, k)'
  BY <1>2 DEF Extends
<1>5. intact' => /\ at # 0
                 /\ handled = sequence => at = published
                 /\ \A n \in Sent : n.type = "update" /\ n.sequence = handled + 1
                                    => Extends(n, at)'
  BY <1>1, <1>2, <1>4 DEF FeedTells
<1> QED
  BY <1>2, <1>3, <1>4, <1>5 DEF FeedTells

\* The feed goes on by one number, with or without a message for it: nothing
\* in the socket has that number, and an update covers what changed since the
\* last one.
LEMMA FeedSteps ==
    ASSUME IInv, FeedTells, UNCHANGED <<at, handled, intact>>,
           truth' = truth, published' = Len(truth), touched' = {}, sequence' = sequence + 1,
           \/ wire' = wire
           \/ \E m \in Message : /\ m.sequence = sequence' /\ m.to = Len(truth)
                                 /\ m.set = Now \/ m.type = "update"
                                 /\ m.type = "update" => m.set = UpdateNow.set /\ m.gone = UpdateNow.gone
                                 /\ wire' = Append(wire, m)
    PROVE  FeedTells'
<1>1. /\ MarketTypeOK /\ WireOK /\ handled \in 0..sequence
      /\ published \in 1..Len(truth) /\ sequence \in Nat
  BY DEF IInv, TypeOK, WireOK, MarketTypeOK
<1>2. Now' = Now /\ Len(truth) \in Nat \ {0} /\ Now = truth[Len(truth)]
  BY <1>1, NowIsBook DEF Now
<1>3. \A n, k : Extends(n, k)' <=> Extends(n, k)
  BY DEF Extends
<1>4. \A m \in Sent : /\ m \in Message /\ m.sequence \in Nat /\ m.sequence <= sequence
                      /\ m.to \in 1..Len(truth)
  BY <1>1, SentSteps
<1>5. CASE wire' = wire
  <2>1. Sent' = Sent
    BY <1>5 DEF Sent
  <2> QED
    BY <1>1, <1>2, <1>3, <1>4, <2>1 DEF FeedTells
<1>6. ASSUME NEW m \in Message, m.sequence = sequence', m.to = Len(truth),
             m.set = Now \/ m.type = "update",
             m.type = "update" => m.set = UpdateNow.set /\ m.gone = UpdateNow.gone,
             wire' = Append(wire, m)
      PROVE  FeedTells'
  <2>1. Sent' = Sent \cup {m}
    BY <1>1, <1>6, SentSteps
  <2>2. m.type = "update" => Extends(m, published)
    <3> SUFFICES ASSUME m.type = "update", NEW l \in Level
                 PROVE  l \in truth[m.to] <=> l \in m.set \/ (l \notin m.gone /\ l \in truth[published])
      BY DEF Extends
    <3>1. m.set = touched \cap Now /\ m.gone = touched \ Now /\ truth[m.to] = Now
      BY <1>2, <1>6 DEF UpdateNow
    <3> QED
      BY <3>1 DEF FeedTells
  <2>3. \A n \in Sent' : n.sequence = sequence' => n.to = published'
    BY <1>1, <1>4, <1>6, <2>1
  <2>4. \A n \in Sent' : n.type = "snapshot" => n.set = truth'[n.to]
    BY <1>2, <1>6, <2>1 DEF FeedTells
  <2>5. \A k, n \in Sent' : n.type = "update" /\ n.sequence = k.sequence + 1 => Extends(n, k.to)'
    <3> SUFFICES ASSUME NEW k \in Sent', NEW n \in Sent', n.type = "update",
                        n.sequence = k.sequence + 1
                 PROVE  Extends(n, k.to)
      BY <1>3
    <3>1. CASE n \in Sent /\ k \in Sent
      BY <3>1 DEF FeedTells
    <3>2. CASE n = m /\ k \in Sent
      BY <3>2, <1>1, <1>4, <1>6, <2>2 DEF FeedTells
    <3>3. k # m
      BY <1>1, <1>4, <1>6, <2>1
    <3> QED
      BY <2>1, <3>1, <3>2, <3>3
  <2>6. intact' => /\ at # 0
                   /\ handled # sequence'
                   /\ \A n \in Sent' : n.type = "update" /\ n.sequence = handled + 1
                                       => Extends(n, at)'
    <3> SUFFICES ASSUME intact
                 PROVE  /\ at # 0 /\ handled # sequence'
                        /\ \A n \in Sent' : n.type = "update" /\ n.sequence = handled + 1
                                            => Extends(n, at)
      BY <1>3
    <3>1. m.type = "update" /\ m.sequence = handled + 1 => Extends(m, at)
      BY <1>1, <1>6, <2>2 DEF FeedTells
    <3> QED
      BY <1>1, <2>1, <3>1 DEF FeedTells
  <2> QED
    BY <1>2, <2>3, <2>4, <2>5, <2>6 DEF FeedTells
<1> QED
  BY <1>5, <1>6

\* A message sent again is one that was sent.
LEMMA RepeatTells == ASSUME IInv, FeedTells, RepeatsMessage PROVE FeedTells'
<1>1. WireOK /\ Len(wire) \in 1..Len(wire)
  BY DEF IInv, TypeOK, WireOK, RepeatsMessage
<1>2. wire[Len(wire)] \in Sent /\ wire[Len(wire)] \in Message
  BY <1>1, SentSteps DEF Sent
<1>3. Sent' = Sent
  BY <1>1, <1>2, SentSteps DEF RepeatsMessage
<1> QED
  BY <1>3 DEF RepeatsMessage, FeedTells, Extends, history, market, Now

\* The actions of the exchange, one by one.
LEMMA ExchangeTells ==
    ASSUME IInv, FeedTells,
           Moves \/ PublishesUpdate \/ LosesUpdate \/ RepeatsMessage \/ ResendsSnapshot
    PROVE  FeedTells'
<1>1. MarketTypeOK /\ sequence + 1 \in Nat \ {0}
  BY DEF IInv, TypeOK
<1>2. CASE PublishesUpdate
  <2>1. /\ Update(sequence + 1) \in Message /\ Update(sequence + 1).type = "update"
        /\ Update(sequence + 1).sequence = sequence + 1 /\ Update(sequence + 1).to = Len(truth)
        /\ Update(sequence + 1).set = UpdateNow.set /\ Update(sequence + 1).gone = UpdateNow.gone
    BY <1>1, SentMessages DEF Update
  <2> QED
    BY <1>2, <2>1, FeedSteps DEF PublishesUpdate, Published, history
<1>3. CASE LosesUpdate
  BY <1>3, FeedSteps DEF LosesUpdate, Published, history
<1>4. CASE ResendsSnapshot
  <2>1. /\ Snapshot(sequence + 1) \in Message /\ Snapshot(sequence + 1).type = "snapshot"
        /\ Snapshot(sequence + 1).sequence = sequence + 1 /\ Snapshot(sequence + 1).to = Len(truth)
        /\ Snapshot(sequence + 1).set = Now
    BY <1>1, SentMessages DEF Snapshot
  <2> QED
    BY <1>4, <2>1, FeedSteps DEF ResendsSnapshot, Subscription, history
<1> QED
  BY <1>2, <1>3, <1>4, MovesTell, RepeatTells

\* A message is handled: the feed now continues from its change, and the book
\* is that of its change but for what was thrown.
LEMMA HandleTells ==
    ASSUME IInv, FeedTells, OnlyThrownMissing, HandleMessage
    PROVE  FeedTells' /\ OnlyThrownMissing'
<1> DEFINE m == Head(wire)
           s == Processed(State, m)
<1>1. /\ MarketTypeOK /\ WireOK /\ sequence \in Nat /\ handled \in 0..sequence
      /\ at \in 0..Len(truth) /\ Len(truth) \in Nat /\ intact \in BOOLEAN
  BY NowIsBook DEF IInv, TypeOK, WireOK
<1>2. /\ m \in Sent /\ Sent' \subseteq Sent
      /\ \A n \in Sent : /\ n \in Message /\ n.sequence \in Nat /\ n.sequence <= sequence
                         /\ n.to \in 1..Len(truth)
  BY <1>1, SentSteps DEF HandleMessage
<1>3. /\ at' = m.to /\ handled' = m.sequence /\ UNCHANGED <<truth, touched, published, sequence>>
  BY DEF HandleMessage, market
<1>4. FeedTells'
  <2>1. Now' = Now /\ \A n, k : Extends(n, k)' <=> Extends(n, k)
    BY <1>3 DEF Extends, Now
  <2>2. intact' => /\ at' # 0
                   /\ handled' = sequence' => at' = published'
                   /\ \A n \in Sent' : n.type = "update" /\ n.sequence = handled' + 1
                                       => Extends(n, at')
    BY <1>1, <1>2, <1>3 DEF FeedTells
  <2> HIDE DEF m
  <2> QED
    BY <1>2, <1>3, <2>1, <2>2 DEF FeedTells
<1>5. ASSUME intact' PROVE book' \subseteq truth'[at'] /\ truth'[at'] \ book' \subseteq thrown'
  <2>1. State \in Work /\ ~Crossed(State.levels) /\ State.levels = book /\ State.thrown = thrown
    <3>1. /\ book \subseteq Level /\ thrown \subseteq Level /\ needsResync \in BOOLEAN
          /\ ~Crossed(book)
      BY DEF IInv, TypeOK, NeverCrossed
    <3>2. lastSequence \in Nat
      BY <1>1 DEF IInv, TypeOK
    <3> QED
      BY <3>1, <3>2 DEF State, Work
  <2>2. /\ ~s.resync /\ book' = s.levels /\ thrown' = s.thrown
        /\ \/ /\ m.type = "snapshot"
              /\ {l.side : l \in book} \subseteq {l.side : l \in m.set}
           \/ m.type = "update" /\ intact /\ m.sequence = handled + 1
    BY <1>5 DEF HandleMessage
  <2>3. m \in Message /\ \A k \in 1..Len(truth) : truth[k] \in SUBSET Level
    BY <1>1, <1>2 DEF MarketTypeOK, Book
  <2>4. CASE m.type = "snapshot" /\ {l.side : l \in book} \subseteq {l.side : l \in m.set}
    <3>1. s.levels \subseteq m.set /\ m.set \ s.levels \subseteq s.thrown
      BY <2>1, <2>3, <2>4, SnapshotTracks
    <3>2. m.set = truth[m.to]
      BY <1>2, <2>4 DEF FeedTells
    <3> HIDE DEF m, s
    <3> QED
      BY <1>3, <2>2, <3>1, <3>2
  <2>5. CASE m.type = "update" /\ intact /\ m.sequence = handled + 1
    <3>1. at \in 1..Len(truth) /\ Extends(m, at)
      BY <1>1, <1>2, <2>5 DEF FeedTells
    <3>2. book \subseteq truth[at] /\ truth[at] \ book \subseteq thrown
      BY <2>5 DEF OnlyThrownMissing
    <3>3. s.levels \subseteq truth[m.to] /\ truth[m.to] \ s.levels \subseteq s.thrown
      <4> DEFINE A == truth[at]
                 B == truth[m.to]
      <4>1. /\ A \in SUBSET Level /\ B \in SUBSET Level
            /\ \A l \in Level : l \in B <=> l \in m.set \/ (l \notin m.gone /\ l \in A)
        BY <1>2, <2>3, <3>1 DEF Extends
      <4>2. /\ State \in Work /\ m \in Message /\ m.type = "update"
            /\ State.levels \subseteq A /\ A \ State.levels \subseteq State.thrown
        BY <2>1, <2>3, <2>5, <3>2
      <4> HIDE DEF A, B, m
      <4>3. s.levels \subseteq B /\ B \ s.levels \subseteq s.thrown
        BY <4>1, <4>2, UpdateTracks
      <4> QED
        BY <4>3 DEF B
    <3> HIDE DEF m, s
    <3> QED
      BY <1>3, <2>2, <3>3
  <2> QED
    BY <2>2, <2>4, <2>5
<1> QED
  BY <1>4, <1>5 DEF OnlyThrownMissing

\* A new subscription starts with the snapshot, an ended one with nothing.
LEMMA ConnectionTells ==
    ASSUME IInv, FeedTells, Connect \/ Disconnect
    PROVE  FeedTells' /\ ~intact'
<1>1. MarketTypeOK
  BY DEF IInv, TypeOK
<1>2. CASE Connect
  <2>1. /\ Snapshot(1).type = "snapshot" /\ Snapshot(1).sequence = 1
        /\ Snapshot(1).to = Len(truth) /\ Snapshot(1).set = Now
    BY DEF Snapshot
  <2>2. Sent' = {Snapshot(1)} /\ sequence' = 1 /\ published' = Len(truth) /\ touched' = {}
        /\ truth' = truth /\ intact' = FALSE
    BY <1>2 DEF Connect, Subscription, Sent
  <2> QED
    BY <2>1, <2>2 DEF FeedTells, Now
<1>3. CASE Disconnect
  BY <1>3 DEF Disconnect, FeedTells, Sent, market, Now
<1> QED
  BY <1>2, <1>3

\* On a feed without gaps the local book differs from the exchange's only by
\* levels the guard refused or repair_crossing wiped, for every set of prices
\* and any number of lost, repeated and unasked messages (process_msg).
THEOREM OnlyThrownMissingCorrect == Spec => []OnlyThrownMissing
<1>1. Init => FeedTells /\ OnlyThrownMissing
  BY DEF Init, MarketInit, FeedTells, OnlyThrownMissing, Sent, Now
<1>2. IInv /\ FeedTells /\ OnlyThrownMissing /\ [Next]_vars => FeedTells' /\ OnlyThrownMissing'
  <2> SUFFICES ASSUME IInv, FeedTells, OnlyThrownMissing, [Next]_vars
               PROVE  FeedTells' /\ OnlyThrownMissing'
    OBVIOUS
  <2>1. CASE HandleMessage
    BY <2>1, HandleTells
  <2>2. CASE Connect \/ Disconnect
    BY <2>2, ConnectionTells DEF OnlyThrownMissing
  <2>3. CASE Moves \/ PublishesUpdate \/ LosesUpdate \/ RepeatsMessage \/ ResendsSnapshot
    <3>1. FeedTells' /\ UNCHANGED <<book, at, intact, thrown>>
      BY <2>3, ExchangeTells DEF Moves, PublishesUpdate, LosesUpdate, RepeatsMessage,
                                 ResendsSnapshot, adapter, history
    <3>2. intact => truth'[at] = truth[at]
      <4>1. MarketTypeOK /\ (intact => at \in 1..Len(truth))
        BY DEF IInv, TypeOK, FeedTells
      <4>2. MarketMoves \/ UNCHANGED truth
        BY <2>3 DEF Moves, PublishesUpdate, LosesUpdate, RepeatsMessage, ResendsSnapshot,
                    Published, Subscription, market
      <4> QED
        BY <4>1, <4>2, TruthGrows
    <3> QED
      BY <3>1, <3>2 DEF OnlyThrownMissing
  <2>4. CASE UNCHANGED vars
    BY <2>4 DEF vars, market, adapter, history, FeedTells, OnlyThrownMissing, Sent, Extends, Now
  <2> QED
    BY <2>1, <2>2, <2>3, <2>4 DEF Next
<1> QED
  BY <1>1, <1>2, Inductive, PTL DEF Spec
=============================================================================
