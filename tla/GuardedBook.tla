----------------------------- MODULE GuardedBook ----------------------------
(***************************************************************************)
(* The OKX and Kraken adapters keeping a local order book (okx/lob.rs,     *)
(* okx/ws.rs, kraken/lob.rs, kraken/ws.rs).  The subscription is answered  *)
(* in the channel itself by a snapshot, followed by numbered updates.  A   *)
(* message is applied bids first, then asks; a level that would cross the  *)
(* book is refused (the crossing guard), a book found crossed is wiped     *)
(* (repair_crossing).  OKX flags a wiped book for resync; Kraken does not, *)
(* but flags a gap or repetition of sequence numbers.  The adapter drops   *)
(* a flagged book.                                                         *)
(***************************************************************************)
EXTENDS Market

CONSTANTS Exchanges,        \* the adapters considered: "okx", "kraken"
          MaxReconnects,    \* bound on lost connections
          MaxResends,       \* bound on snapshots sent unasked
          MaxFaults         \* bound on updates lost or repeated by the feed

ASSUME GuardAssumption == /\ Exchanges \subseteq {"okx", "kraken"}
                          /\ {MaxReconnects, MaxResends, MaxFaults} \subseteq Nat

VARIABLES exchange,     \* which adapter this is
          up,           \* the connection is subscribed
          wire,         \* messages in the socket
          sequence,     \* number of the last message the feed sent
          book,         \* OrderBook.bids and .asks
          needsResync,  \* OrderBook.needs_resync
          lastSequence, \* Kraken's OrderBook.last_sequence; 0 for None
          prevLob,      \* prev_lob; NoItem for None
          view,         \* the last item the consumer received
          reconnects, resends, faults,
          \* history, read by the properties only:
          at,           \* change the last handled message was sent after
          handled,      \* number of the last handled message
          seeded,       \* a snapshot was handled and the book not dropped since
          intact,       \* and every message since was the next one
          thrown        \* levels refused or wiped on this connection

adapter  == <<book, needsResync, lastSequence, prevLob>>
history  == <<at, handled, seeded, intact, thrown>>
counters == <<reconnects, resends, faults>>
vars == <<market, exchange, up, wire, sequence, adapter, view, counters, history>>

OnSide(levels, side) == {l \in levels : l.side = side}

(* ---- the order book --------------------------------------------------- *)

\* What process_msg works on; `thrown' is history.
State == [levels |-> book, resync |-> needsResync, last |-> lastSequence, thrown |-> thrown]

\* Plausible bugs: no repair, removals ignored, repetitions accepted.
RepairedNever(s) == s
UpdateSideKeeps(s, m, side) == [s EXCEPT !.levels = @ \cup OnSide(m.set, side)]
TrackedForward(s, m) ==
    IF exchange # "kraken" THEN s ELSE
    [s EXCEPT !.resync = @ \/ (s.last # 0 /\ m.sequence > s.last + 1), !.last = m.sequence]

\* repair_crossing: a crossed book is wiped; only OKX flags it.
Repaired(s) ==
    IF Crossed(s.levels)
    THEN [s EXCEPT !.levels = {}, !.resync = @ \/ exchange = "okx", !.thrown = @ \cup s.levels]
    ELSE s

\* apply_snapshot for one side; the ask side also clears flag and sequence.
SnapshotSide(s, m, side) ==
    IF OnSide(m.set, side) = {} THEN s ELSE
    Repaired([levels |-> (s.levels \ OnSide(s.levels, side)) \cup OnSide(m.set, side),
              resync |-> s.resync /\ side = "bid",
              last   |-> IF side = "ask" THEN 0 ELSE s.last,
              thrown |-> s.thrown])

\* The crossing guard: a new level is refused against the other side.
Refused(s, m, side) == {l \in OnSide(m.set, side) :
                          Crossed({l} \cup (s.levels \ OnSide(s.levels, side)))}

\* apply_update for one side: size 0 removes, the guard may refuse.
UpdateSide(s, m, side) ==
    Repaired([s EXCEPT
        !.levels = (@ \ OnSide(m.gone, side)) \cup (OnSide(m.set, side) \ Refused(s, m, side)),
        !.thrown = @ \cup Refused(s, m, side)])

\* track_sequence (Kraken): anything but the next number flags the book.
Tracked(s, m) ==
    IF exchange # "kraken" THEN s ELSE
    [s EXCEPT !.resync = @ \/ (s.last # 0 /\ m.sequence # s.last + 1),
              !.last = m.sequence]

\* process_msg: bids before asks, then the sequence number.
Processed(s, m) ==
    IF m.type = "snapshot"
    THEN Tracked(SnapshotSide(SnapshotSide(s, m, "bid"), m, "ask"), m)
    ELSE Tracked(UpdateSide(UpdateSide(s, m, "bid"), m, "ask"), m)

(* ---- the exchange (external) ------------------------------------------ *)

Snapshot(number) == [type |-> "snapshot", sequence |-> number, to |-> Len(truth),
                     set |-> Now, gone |-> {}]

Update(number) == [type |-> "update", sequence |-> number, to |-> Len(truth),
                   set |-> UpdateNow.set, gone |-> UpdateNow.gone]

Moves == /\ MarketMoves
         /\ UNCHANGED <<exchange, up, wire, sequence, adapter, view, counters, history>>

PublishesUpdate ==
    /\ up
    /\ Published
    /\ sequence' = sequence + 1
    /\ wire' = Append(wire, Update(sequence'))
    /\ UNCHANGED <<exchange, up, adapter, view, counters, history>>

\* The feed skips an update, or sends its last message again.
LosesUpdate ==
    /\ up /\ faults < MaxFaults
    /\ Published
    /\ sequence' = sequence + 1
    /\ faults' = faults + 1
    /\ UNCHANGED <<exchange, up, wire, adapter, view, reconnects, resends, history>>

RepeatsMessage ==
    /\ up /\ faults < MaxFaults /\ wire # <<>>
    /\ wire' = Append(wire, wire[Len(wire)])
    /\ faults' = faults + 1
    /\ UNCHANGED <<market, exchange, up, sequence, adapter, view, reconnects, resends, history>>

ResendsSnapshot ==
    /\ up /\ resends < MaxResends
    /\ Subscription
    /\ sequence' = sequence + 1
    /\ wire' = Append(wire, Snapshot(sequence'))
    /\ resends' = resends + 1
    /\ UNCHANGED <<exchange, up, adapter, view, reconnects, faults, history>>

(* ---- the adapter ------------------------------------------------------ *)

\* reset_local: levels, flag, sequence number and previous item.
Dropped == /\ book' = {} /\ needsResync' = FALSE /\ lastSequence' = 0
           /\ prevLob' = NoItem

\* A plausible bug: only the bids are compared.
EmitsByBids(item) ==
    IF item = NoItem \/ OnSide(item, "bid") = OnSide(prevLob, "bid")
    THEN UNCHANGED <<prevLob, view>> ELSE prevLob' = item /\ view' = item

\* emit_lob: nothing for None or a repetition of the last item.
Emits(item) == IF item \in {NoItem, prevLob} THEN UNCHANGED <<prevLob, view>>
                                              ELSE prevLob' = item /\ view' = item

\* The subscription is answered by a snapshot.
Connect ==
    /\ ~up
    /\ up' = TRUE
    /\ Subscription
    /\ sequence' = 1
    /\ wire' = <<Snapshot(1)>>
    /\ handled' = 0 /\ seeded' = FALSE /\ intact' = FALSE /\ thrown' = {}
    /\ UNCHANGED <<exchange, adapter, view, counters, at>>

\* handle_message: a flagged book is dropped, any other emitted.
HandleMessage ==
    /\ up /\ wire # <<>>
    /\ wire' = Tail(wire)
    /\ LET m == Head(wire)
           s == Processed(State, m)
           full == /\ m.type = "snapshot"       \* no side of the book is left stale
                   /\ {l.side : l \in book} \subseteq {l.side : l \in m.set}
       IN /\ IF s.resync
             THEN Dropped /\ UNCHANGED view
             ELSE /\ book' = s.levels /\ needsResync' = FALSE /\ lastSequence' = s.last
                  /\ Emits(Item(s.levels))
          /\ at' = m.to /\ handled' = m.sequence
          /\ seeded' = (~s.resync /\ (full \/ (m.type = "update" /\ seeded)))
          /\ intact' = (~s.resync /\ (full \/ (m.type = "update" /\ intact
                                                /\ m.sequence = handled + 1)))
          /\ thrown' = s.thrown
    /\ UNCHANGED <<market, exchange, up, sequence, counters>>

\* The connection is lost with everything on it; on_reconnect drops the book.
Disconnect ==
    /\ up /\ reconnects < MaxReconnects
    /\ reconnects' = reconnects + 1
    /\ up' = FALSE /\ wire' = <<>>
    /\ Dropped
    /\ seeded' = FALSE /\ intact' = FALSE
    /\ UNCHANGED <<market, exchange, sequence, view, resends, faults, at, handled, thrown>>

Init == /\ MarketInit
        /\ exchange \in Exchanges
        /\ up = FALSE /\ wire = <<>> /\ sequence = 0
        /\ book = {} /\ needsResync = FALSE /\ lastSequence = 0 /\ prevLob = NoItem
        /\ view = NoItem
        /\ reconnects = 0 /\ resends = 0 /\ faults = 0
        /\ at = 0 /\ handled = 0 /\ seeded = FALSE /\ intact = FALSE /\ thrown = {}

Next == \/ Moves \/ PublishesUpdate \/ LosesUpdate \/ RepeatsMessage \/ ResendsSnapshot
        \/ Connect \/ HandleMessage \/ Disconnect

Spec == Init /\ [][Next]_vars

(* ---- properties ------------------------------------------------------- *)

Message == [type : {"snapshot", "update"}, sequence : Nat \ {0}, to : Nat \ {0},
            set : SUBSET Level, gone : SUBSET Level]

\* Every variable keeps the type the code gives it, and no flagged book
\* outlives the message that flagged it.
TypeOK ==
    /\ MarketTypeOK
    /\ exchange \in Exchanges /\ up \in BOOLEAN
    /\ wire \in Seq(Message) /\ sequence \in Nat
    /\ \A i \in 1..Len(wire) : wire[i].sequence <= sequence /\ wire[i].to <= Len(truth)
    /\ book \subseteq Level /\ prevLob \subseteq Level /\ view \subseteq Level
    /\ needsResync = FALSE /\ lastSequence \in 0..sequence
    /\ exchange = "okx" => lastSequence = 0
    /\ seeded \in BOOLEAN /\ intact \in BOOLEAN /\ (intact => seeded)
    /\ thrown \subseteq Level /\ at \in 0..Len(truth) /\ handled \in 0..sequence
    /\ ~up => wire = <<>>

\* Neither the local book nor an item is ever crossed, whatever the feed
\* loses, repeats or sends again (the guard and repair_crossing).
NeverCrossed == ~Crossed(book) /\ ~Crossed(view)

\* On a feed without gaps the local book differs from the exchange's only by
\* levels the guard refused or repair_crossing wiped: nothing stale stays and
\* nothing else is missing (process_msg).
OnlyThrownMissing ==
    intact => book \subseteq truth[at] /\ truth[at] \ book \subseteq thrown

\* Kraken's book never lives on after a gap or a repetition: a book that has
\* a snapshot has every update since (track_sequence, reset_local).
GapDropsBook == exchange = "kraken" /\ seeded => intact

\* As long as the book stands on a snapshot and has two sides, the consumer's
\* last item is the filtered local book: neither a reset nor the comparison
\* with the previous item keeps back an item the consumer lacks (emit_lob,
\* reset_local).
ViewIsBook == seeded /\ Item(book) # NoItem => view = Item(book)

\* What the comments beside both drops say, src/src/kraken/ws.rs:154 "Wipe it
\* and await the next full snapshot (delivered on reconnect) before emitting
\* again" and src/src/okx/ws.rs:136: an update is shown only on top of a
\* snapshot handled since the last drop (process_msg, reset_local).
AwaitsSnapshot ==
    [][view' # view /\ Head(wire).type = "update" => seeded]_vars
=============================================================================
