----------------------------- MODULE BitstampSync ---------------------------
(***************************************************************************)
(* The Bitstamp adapter keeping a local order book (bitstamp/ws.rs and     *)
(* bitstamp/lob.rs) together with the calls run_ws_loop makes to it.  With *)
(* snapshot_delay > 0 the first deltas of a connection are buffered, then  *)
(* a REST snapshot is fetched and the buffered deltas not older than it    *)
(* are replayed; with snapshot_delay = 0 the REST snapshot is emitted at   *)
(* once and deltas are applied from the start.  While a fetch is awaited   *)
(* the loop reads nothing, so deltas wait in the socket.                   *)
(***************************************************************************)
EXTENDS Market

CONSTANTS SnapshotDelays,   \* the values of snapshot_delay considered
          MaxLag,           \* how many changes the REST snapshot may be behind
          MaxReconnects,    \* bound on lost connections
          MaxFailures       \* bound on failed fetches

ASSUME BitstampAssumption == /\ SnapshotDelays \subseteq Nat
                             /\ {MaxLag, MaxReconnects, MaxFailures} \subseteq Nat

VARIABLES up,           \* the connection is subscribed
          wire,         \* deltas in the socket
          fetch,        \* the REST call the loop awaits: "none", "emit" or "merge"
          answer,       \* number of the change the REST snapshot was taken at, or 0
          snapshotDelay,
          book,         \* OrderBook.bids and .asks
          needsResync,  \* OrderBook.needs_resync
          awaiting,     \* awaiting_snapshot
          requested,    \* snapshot_requested
          buffer,       \* delta_buffer
          prevLob,      \* prev_lob; NoItem for None
          view,         \* the last item the consumer received
          reconnects, failures,
          \* history, read by the properties only:
          since,        \* number of the change the subscription started after
          seeded        \* is a snapshot merged into `book' and, if so, is it
                        \* "stale", older than the subscription: "no", "stale", "exact"

adapter == <<book, needsResync, awaiting, requested, buffer, prevLob>>
vars == <<market, up, wire, fetch, answer, snapshotDelay, adapter, view,
          reconnects, failures, since, seeded>>

(* ---- the exchange (external) ------------------------------------------ *)

Moves == /\ MarketMoves
         /\ UNCHANGED <<up, wire, fetch, answer, snapshotDelay, adapter, view,
                        reconnects, failures, since, seeded>>

PublishesDelta ==
    /\ up
    /\ Published
    /\ wire' = Append(wire, UpdateNow)
    /\ UNCHANGED <<up, fetch, answer, snapshotDelay, adapter, view,
                   reconnects, failures, since, seeded>>

\* The REST snapshot is taken at one moment and arrives at a later one; the
\* endpoint may be behind the updates.
RestAnswers ==
    /\ fetch # "none" /\ answer = 0
    /\ answer' \in {at \in 1..Len(truth) : at + MaxLag >= Len(truth)}
    /\ UNCHANGED <<market, up, wire, fetch, snapshotDelay, adapter, view,
                   reconnects, failures, since, seeded>>

(* ---- the adapter ------------------------------------------------------ *)

\* A plausible bug: the previous item survives the reset.
DroppedKeepsItem == /\ book' = {} /\ needsResync' = FALSE /\ UNCHANGED prevLob
                    /\ seeded' = "no"

\* reset_local: the book and the previous item are dropped.
Dropped == /\ book' = {} /\ needsResync' = FALSE /\ prevLob' = NoItem
           /\ seeded' = "no"

\* A plausible bug: a crossed book goes unnoticed.
AppliedUnchecked(s, delta) == [s EXCEPT !.levels = Apply(@, delta)]

\* apply_orderbook: a crossed result is wiped and flagged (repair_crossing).
Applied(s, delta) ==
    LET levels == Apply(s.levels, delta)
    IN IF Crossed(levels) THEN [levels |-> {}, resync |-> TRUE]
                          ELSE [s EXCEPT !.levels = levels]

State == [levels |-> book, resync |-> needsResync]

\* on_connect and on_reconnect: the book is dropped; deltas are buffered, or
\* the snapshot is fetched right away.
Reset ==
    /\ Dropped
    /\ IF snapshotDelay = 0
       THEN fetch' = "emit" /\ UNCHANGED <<awaiting, requested, buffer>>
       ELSE /\ fetch' = "none"
            /\ awaiting' = TRUE /\ requested' = FALSE /\ buffer' = <<>>

\* The connection is subscribed and on_connect is called.
Connect ==
    /\ ~up /\ fetch = "none"
    /\ up' = TRUE /\ wire' = <<>>
    /\ Subscription /\ since' = Len(truth)
    /\ Reset
    /\ UNCHANGED <<answer, snapshotDelay, view, reconnects, failures>>

\* emit_lob: nothing for None or a repetition of the last item.
Emits(item) == IF item \in {NoItem, prevLob} THEN UNCHANGED <<prevLob, view>>
                                              ELSE prevLob' = item /\ view' = item

\* A flagged book is dropped and nothing emitted.
AppliesDelta(delta) ==
    LET s == Applied(State, delta)
    IN IF s.resync
       THEN Dropped /\ UNCHANGED view
       ELSE /\ book' = s.levels
            /\ Emits(Item(s.levels))
            /\ UNCHANGED <<needsResync, seeded>>

\* After each message the loop asks snapshot_needed().
BuffersDelta(delta) ==
    /\ buffer' = Append(buffer, delta)
    /\ requested' = (requested \/ Len(buffer') >= snapshotDelay)
    /\ fetch' = IF requested' THEN "merge" ELSE "none"

HandleDelta ==
    /\ up /\ fetch = "none" /\ wire # <<>>
    /\ wire' = Tail(wire)
    /\ \/ /\ awaiting /\ snapshotDelay > 0
          /\ BuffersDelta(Head(wire))
          /\ UNCHANGED <<book, needsResync, prevLob, view, seeded>>
       \/ /\ ~(awaiting /\ snapshotDelay > 0)
          /\ AppliesDelta(Head(wire))
          /\ UNCHANGED <<fetch, requested, buffer>>
    /\ UNCHANGED <<market, up, answer, snapshotDelay, awaiting, reconnects, failures, since>>

\* fetch_snapshot: a temporary book is emitted, be it empty; the adapter's own
\* stays empty and prev_lob is not set.
SnapshotEmitted ==
    /\ fetch = "emit" /\ answer # 0
    /\ view' = Item(truth[answer])
    /\ fetch' = "none" /\ answer' = 0
    /\ UNCHANGED <<market, up, wire, snapshotDelay, adapter, reconnects, failures, since, seeded>>

\* Plausible bugs: no buffered delta is replayed, or only those that began
\* after the snapshot.
RelevantNone(at, delta) == FALSE
RelevantByStart(at, delta) == delta.from > at

\* A buffered delta counts if its microtimestamp is not before the snapshot's.
Relevant(at, delta) == delta.to >= at

\* apply_snapshot_and_merge: the snapshot's levels, then the relevant deltas.
Merged(at) ==
    LET merged[i \in 0..Len(buffer)] ==
            IF i = 0 THEN Applied(State, [set |-> truth[at], gone |-> {}])
            ELSE IF Relevant(at, buffer[i]) THEN Applied(merged[i - 1], buffer[i])
                                            ELSE merged[i - 1]
    IN merged[Len(buffer)]

\* The merged book is emitted whatever was emitted before; prev_lob is not set.
SnapshotMerged ==
    /\ fetch = "merge" /\ answer # 0
    /\ LET s == Merged(answer) IN
          /\ book' = s.levels /\ needsResync' = s.resync
          /\ view' = IF Item(s.levels) = NoItem THEN view ELSE Item(s.levels)
    /\ awaiting' = FALSE /\ requested' = FALSE /\ buffer' = <<>>
    /\ seeded' = IF answer < since THEN "stale" ELSE "exact"
    /\ fetch' = "none" /\ answer' = 0
    /\ UNCHANGED <<market, up, wire, snapshotDelay, prevLob, reconnects, failures, since>>

\* The fetch fails: a warning, and snapshot_requested stays set, so that the
\* next message starts another fetch.
FetchFails ==
    /\ fetch # "none" /\ failures < MaxFailures
    /\ failures' = failures + 1
    /\ fetch' = "none" /\ answer' = 0
    /\ UNCHANGED <<market, up, wire, snapshotDelay, adapter, view, reconnects, since, seeded>>

\* The connection is lost with everything on it; on_reconnect is called.
Disconnect ==
    /\ up /\ fetch = "none" /\ reconnects < MaxReconnects
    /\ reconnects' = reconnects + 1
    /\ up' = FALSE /\ wire' = <<>>
    /\ Reset
    /\ UNCHANGED <<market, answer, snapshotDelay, view, failures, since>>

Init == /\ MarketInit
        /\ up = FALSE /\ wire = <<>>
        /\ fetch = "none" /\ answer = 0
        /\ snapshotDelay \in SnapshotDelays
        /\ book = {} /\ needsResync = FALSE /\ prevLob = NoItem /\ view = NoItem
        /\ awaiting = FALSE /\ requested = FALSE /\ buffer = <<>>
        /\ since = 1 /\ seeded = "no"
        /\ reconnects = 0 /\ failures = 0

Next == \/ Moves \/ PublishesDelta \/ RestAnswers
        \/ Connect \/ HandleDelta \/ SnapshotEmitted \/ SnapshotMerged
        \/ FetchFails \/ Disconnect

Spec == Init /\ [][Next]_vars

(* ---- properties ------------------------------------------------------- *)

\* The merge is exact: snapshot plus replayed buffer is the exchange's book
\* at the newest of the two, wherever the snapshot falls among the deltas or
\* inside one, unless it is older than the subscription
\* (apply_snapshot_and_merge).
MergeIsExact ==
    [][SnapshotMerged /\ since <= answer
       => LET last == buffer[Len(buffer)].to
          IN  book' = truth[IF last > answer THEN last ELSE answer]]_vars

\* A book after the deltas.
Replayed(levels, deltas) ==
    LET replayed[i \in 0..Len(deltas)] ==
            IF i = 0 THEN levels ELSE Apply(replayed[i - 1], deltas[i])
    IN replayed[Len(deltas)]

\* From the merge on nothing is missing: the deltas still in the socket,
\* older or newer than the snapshot, followed by what is not published yet,
\* turn the local book into the exchange's (handle_message after a fetch).
InFlightRepairs ==
    seeded = "exact" => Apply(Replayed(book, wire), UpdateNow) = Now

\* The consumer's last item is the local book, whatever was emitted before
\* the last reset: prev_lob never suppresses an item the consumer lacks
\* (emit_lob, reset_local).
ViewIsBook == seeded # "no" /\ Item(book) # NoItem => view = Item(book)

\* No crossed book reaches the consumer, even when deltas older than the
\* snapshot are applied on top of it (repair_crossing).
NoCrossedItem == ~Crossed(view)

\* What bitstamp/ws.rs says of a wiped book, "Wipe it and await the next full
\* snapshot": a book without a snapshot is not emitted.
WipedBookWaits == [][view' # view => seeded' # "no" \/ fetch = "emit"]_vars
=============================================================================
