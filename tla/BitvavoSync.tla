----------------------------- MODULE BitvavoSync ----------------------------
(***************************************************************************)
(* The Bitvavo adapter keeping a local order book (bitvavo/ws.rs and       *)
(* bitvavo/lob.rs).  On every connection it subscribes to "book" updates   *)
(* and asks for a snapshot with "getBook"; updates that come before the    *)
(* first snapshot are kept in `pending' and replayed by sequence number.   *)
(* The adapter has no on_reconnect hook, so its book, its last sequence    *)
(* number and its previous item survive a reconnect.  This is one task of  *)
(* the channel; BitvavoSwap puts a replacement next to it.                 *)
(***************************************************************************)
EXTENDS Market, SequencesExt

CONSTANT MaxReconnects    \* bound on lost connections

ASSUME BitvavoAssumption == MaxReconnects \in Nat

VARIABLES up,           \* the connection is subscribed
          asked,        \* getBook was sent and the exchange has not answered
          reply,        \* sequence number of the answer not yet sent, or 0
          wire,         \* messages on their way to the adapter
          book,         \* OrderBook.bids and .asks
          lastMdSeq,    \* OrderBook.last_mdseq; 0 stands for None
          pending,      \* OrderBook.pending
          prevLob,      \* BitvavoAdapter.prev_lob; NoItem for None
          view,         \* the last item this task sent to the consumer
          reconnects,
          \* history, read by the properties only:
          viewAt,       \* last_mdseq when `view' was emitted
          synced,       \* this connection's snapshot has been handled
          lost          \* changes newer than the book were thrown away

exchange == <<asked, reply, wire>>
adapter  == <<book, lastMdSeq, pending, prevLob>>
consumer == <<view, viewAt>>
history  == <<synced, lost>>
vars == <<market, up, exchange, adapter, consumer, history, reconnects>>

(* ---- the order book of bitvavo/lob.rs --------------------------------- *)

State == [book |-> book, last |-> lastMdSeq, lost |-> lost]

\* What an update adds to the loss: part of it is new, but it is skipped.
Cut(s, u) == u.from <= s.last /\ s.last < u.to

\* apply_update once a snapshot is there.
AppliedUpdate(s, u) ==
    IF u.from <= s.last THEN [s EXCEPT !.lost = @ \/ Cut(s, u)]
                        ELSE [s EXCEPT !.book = Apply(@, u), !.last = u.to]

\* Plausible bugs of the three operations, for the checks of the properties.
AppliedSnapshotMerges(s, m) ==
    [book |-> s.book \cup m.levels, last |-> m.seq, lost |-> m.seq < s.last]
DrainedNever(s) == s
DrainedBlindly(s) ==
    FoldLeft(LAMBDA t, u : [t EXCEPT !.book = Apply(@, u), !.last = u.to], s, pending)

\* apply_snapshot: clear, insert, take over the snapshot's number.
AppliedSnapshot(s, m) == [book |-> m.levels, last |-> m.seq, lost |-> m.seq < s.last]

\* drain_pending: every buffered update goes through apply_update.
Drained(s) ==
    LET drained[i \in 0..Len(pending)] ==
            IF i = 0 THEN s ELSE AppliedUpdate(drained[i - 1], pending[i])
    IN drained[Len(pending)]

\* emit_lob: nothing for a one-sided book or a repetition of the last item.
Emits(s) == Item(s.book) \notin {NoItem, prevLob}

Emit(s) == /\ prevLob' = IF Emits(s) THEN Item(s.book) ELSE prevLob
           /\ view' = IF Emits(s) THEN Item(s.book) ELSE view
           /\ viewAt' = IF Emits(s) THEN s.last ELSE viewAt

(* ---- the exchange (external) ------------------------------------------ *)

Moves == MarketMoves /\ UNCHANGED <<up, exchange, adapter, consumer, history, reconnects>>

PublishesUpdate ==
    /\ up
    /\ Published
    /\ wire' = Append(wire, UpdateNow)
    /\ UNCHANGED <<up, asked, reply, adapter, consumer, history, reconnects>>

\* The snapshot is taken at one moment and may be overtaken by updates; it
\* is as deep as getBook asked for.
AnswersGetBook ==
    /\ up /\ asked
    /\ asked' = FALSE
    /\ reply' \in {0, Len(truth)}       \* 0: an error answer, ignored by the adapter
    /\ UNCHANGED <<market, up, wire, adapter, consumer, history, reconnects>>

SendsSnapshot ==
    /\ up /\ reply # 0
    /\ wire' = Append(wire, [type |-> "snapshot", seq |-> reply, levels |-> Top(truth[reply])])
    /\ reply' = 0
    /\ UNCHANGED <<market, up, asked, adapter, consumer, history, reconnects>>

(* ---- the adapter ------------------------------------------------------ *)

\* subscribe_msgs: first the "book" channel, then getBook.
Subscribe ==
    /\ ~up
    /\ up' = TRUE
    /\ Subscription
    /\ asked' = TRUE /\ reply' = 0 /\ wire' = <<>>
    /\ synced' = FALSE
    /\ UNCHANGED <<adapter, consumer, lost, reconnects>>

Received(type) == up /\ wire # <<>> /\ Head(wire).type = type

HandleUpdate ==
    /\ Received("update")
    /\ wire' = Tail(wire)
    /\ \/ /\ lastMdSeq = 0
          /\ pending' = Append(pending, Head(wire))
          /\ UNCHANGED <<book, lastMdSeq, lost>>
          /\ Emit(State)
       \/ /\ lastMdSeq # 0
          /\ LET s == AppliedUpdate(State, Head(wire)) IN
                /\ book' = s.book /\ lastMdSeq' = s.last /\ lost' = s.lost
                /\ Emit(s)
          /\ UNCHANGED pending
    /\ UNCHANGED <<market, up, asked, reply, synced, reconnects>>

HandleSnapshot ==
    /\ Received("snapshot")
    /\ wire' = Tail(wire)
    /\ LET s == Drained(AppliedSnapshot(State, Head(wire))) IN
          /\ book' = s.book /\ lastMdSeq' = s.last /\ lost' = s.lost
          /\ Emit(s)
    /\ pending' = <<>>
    /\ synced' = TRUE
    /\ UNCHANGED <<market, up, asked, reply, reconnects>>

(* ---- the connection (wsloop.rs) --------------------------------------- *)

\* A connection takes everything on it along; the adapter is kept.
Closed ==
    /\ up' = FALSE
    /\ asked' = FALSE /\ reply' = 0 /\ wire' = <<>>
    /\ UNCHANGED <<market, adapter, consumer, history>>

Disconnect ==
    /\ up /\ reconnects < MaxReconnects
    /\ reconnects' = reconnects + 1
    /\ Closed

Init == /\ MarketInit
        /\ up = FALSE
        /\ asked = FALSE /\ reply = 0 /\ wire = <<>>
        /\ book = {} /\ lastMdSeq = 0 /\ pending = <<>> /\ prevLob = NoItem
        /\ view = NoItem /\ viewAt = 0
        /\ synced = FALSE /\ lost = FALSE
        /\ reconnects = 0

Delivers == PublishesUpdate \/ AnswersGetBook \/ SendsSnapshot

Handles == Subscribe \/ HandleUpdate \/ HandleSnapshot

Next == Moves \/ Delivers \/ Handles \/ Disconnect

Spec == Init /\ [][Next]_vars

(* ---- properties ------------------------------------------------------- *)

Promise == INSTANCE Replica WITH truth <- [n \in DOMAIN truth |-> Item(truth[n])]

\* Once this connection's snapshot is handled, and as long as no change was
\* thrown away, the local book is exactly the exchange's book at last_mdseq:
\* snapshot, skip rule and replay of the buffer fit together however the
\* snapshot and the updates overtake each other (apply_snapshot,
\* apply_update, drain_pending).
ExactWhenSynced == synced /\ ~lost => book = truth[lastMdSeq]

\* From this connection's snapshot on, unless changes were thrown away, the
\* items of a task are a replica: every one is a book the exchange really had,
\* never an older one than the task sent before (emit_lob).
ShowsTrueBooks ==
    [][synced' /\ ~lost' => [Promise!Next]_<<truth, view, viewAt>>]_vars

\* What docs/adr/Integration/ADR-016 says of the snapshot synchronisation,
\* "preventing gaps or stale snapshots in the local order book": whatever is
\* emitted is a book the exchange had, after a reconnect too.
ShowsNoGaps == [][view' # view /\ ~lost' => Promise!Show]_vars
=============================================================================
