----------------------------- MODULE BitvavoSwap ----------------------------
(***************************************************************************)
(* A Bitvavo channel while a silent connection is being replaced: the old  *)
(* task (the variables of BitvavoSync) and its replacement (heir...), each *)
(* with a connection and an adapter of its own, send to one queue, in any  *)
(* order.  The old task leaves when it sees that the replacement has       *)
(* confirmed itself; if it gives up waiting, it reconnects and both go on  *)
(* (wsloop.rs).  Before the fork this is BitvavoSync.  That a queue may be *)
(* full and a task may end for good is left to WsLoop.                     *)
(***************************************************************************)
EXTENDS BitvavoSync

CONSTANTS MaxHeirReconnects,   \* bound on the connections the replacement loses
          MaxSwapMoves         \* bound on the changes of the market up to the end of a swap

ASSUME SwapAssumption == MaxHeirReconnects \in Nat /\ MaxSwapMoves \in Nat

VARIABLES
    heirTouched, heirPublished, heirUp, heirAsked, heirReply, heirWire,
    heirBook, heirLastMdSeq, heirPending, heirPrevLob, heirView, heirViewAt,
    heirSynced, heirLost, heirReconnects,
    swap,        \* where the old task is: see Phases
    confirmed,   \* replacement_confirmed_flag
    \* history, read by the properties only:
    sender       \* who sent the last item

\* Another silence after the first swap is not modelled: one replacement.
Phases == {"reading",     \* no replacement yet
           "forked",      \* replacement_started, in the read loop
           "sent",        \* the same, between a message and the look at the flag
           "draining",    \* waiting for the flag
           "apart",       \* gave up waiting: its new connections have a flag of their own
           "over"}        \* replaced

Heir == INSTANCE BitvavoSync WITH
    MaxReconnects <- MaxHeirReconnects,
    touched <- heirTouched, published <- heirPublished, up <- heirUp,
    asked <- heirAsked, reply <- heirReply, wire <- heirWire,
    book <- heirBook, lastMdSeq <- heirLastMdSeq, pending <- heirPending,
    prevLob <- heirPrevLob, view <- heirView, viewAt <- heirViewAt, synced <- heirSynced, lost <- heirLost,
    reconnects <- heirReconnects

oldTask == <<touched, published, up, exchange, adapter, consumer, history, reconnects>>
heirTask == <<heirTouched, heirPublished, heirUp, heirAsked, heirReply, heirWire, heirBook,
              heirLastMdSeq, heirPending, heirPrevLob, heirView, heirViewAt,
              heirSynced, heirLost, heirReconnects>>
swapVars == <<vars, heirTask, swap, confirmed, sender>>

\* emit_lob sends no repetition, so a task sends exactly when its last item changes.
OldSends == view' # view
HeirSends == heirView' # heirView

\* What the consumer of the channel has last.
LastItem == IF sender = "heir" THEN heirView ELSE view

(* ---- the market and the exchange, one feed for each connection --------- *)

BothMove == (swap = "reading" \/ Len(truth) <= MaxSwapMoves) /\ Moves /\ Heir!Moves /\ UNCHANGED <<swap, confirmed, sender>>

OldPublishes == PublishesUpdate /\ UNCHANGED <<heirTask, swap, confirmed, sender>>
HeirPublishes == Heir!PublishesUpdate /\ UNCHANGED <<oldTask, swap, confirmed, sender>>

Answers == /\ \/ (AnswersGetBook \/ SendsSnapshot) /\ UNCHANGED heirTask
              \/ (Heir!AnswersGetBook \/ Heir!SendsSnapshot) /\ UNCHANGED oldTask
           /\ UNCHANGED <<swap, confirmed, sender>>

(* ---- the old task ------------------------------------------------------ *)

OldSubscribes == /\ swap \in {"reading", "apart"}
                 /\ Subscribe
                 /\ UNCHANGED <<heirTask, swap, confirmed, sender>>

\* handle_message and tx.send; after a message the read loop looks at the flag.
OldHandles == /\ swap # "sent"
              /\ HandleUpdate \/ HandleSnapshot
              /\ swap' = IF swap = "forked" THEN "sent" ELSE swap
              /\ sender' = IF OldSends THEN "old" ELSE sender
              /\ UNCHANGED <<heirTask, confirmed>>

\* A plausible bug for the checks of the properties: the replacement goes on
\* with a copy of the old adapter.
ForksWithCopy == /\ swap = "reading" /\ up /\ Len(truth) <= MaxSwapMoves + 1
                 /\ swap' = "forked"
                 /\ heirBook' = book /\ heirLastMdSeq' = lastMdSeq
                 /\ heirPending' = pending /\ heirPrevLob' = prevLob
                 /\ UNCHANGED <<vars, heirTouched, heirPublished, heirUp, heirAsked, heirReply,
                                heirWire, heirView, heirViewAt, heirSynced, heirLost, heirReconnects, confirmed, sender>>

\* Silence: a replacement starts with fresh_adapter().
Forks == /\ swap = "reading" /\ up /\ Len(truth) <= MaxSwapMoves + 1
         /\ swap' = "forked"
         /\ UNCHANGED <<vars, heirTask, confirmed, sender>>

\* The flag is looked at after a message, at the next silence, and from time
\* to time in the drain; the task whose replacement has confirmed closes.
Retires == /\ swap \in {"forked", "sent", "draining"} /\ confirmed
           /\ swap' = "over"
           /\ Closed
           /\ UNCHANGED <<reconnects, heirTask, confirmed, sender>>

NotConfirmedYet == /\ swap \in {"forked", "sent"} /\ ~confirmed
                   /\ swap' = IF swap = "sent" THEN "forked" ELSE "draining"
                   /\ UNCHANGED <<vars, heirTask, confirmed, sender>>

\* The socket ends, or the drain's time is up: the standard reconnect path.
OldDisconnects == /\ swap # "sent"
                  /\ Disconnect
                  /\ swap' = IF swap = "reading" THEN "reading" ELSE "apart"
                  /\ UNCHANGED <<heirTask, confirmed, sender>>

(* ---- the replacement --------------------------------------------------- *)

HeirConnects == /\ swap # "reading"
                /\ Heir!Subscribe \/ Heir!Disconnect
                /\ UNCHANGED <<oldTask, swap, confirmed, sender>>

\* subscription_confirmed: the ack is read.
HeirConfirms == /\ heirUp /\ ~confirmed
                /\ confirmed' = TRUE
                /\ UNCHANGED <<vars, heirTask, swap, sender>>

\* A first item confirms as well.
HeirHandles == /\ Heir!HandleUpdate \/ Heir!HandleSnapshot
               /\ confirmed' = (confirmed \/ HeirSends)
               /\ sender' = IF HeirSends THEN "heir" ELSE sender
               /\ UNCHANGED <<oldTask, swap>>

SwapInit == /\ Init /\ Heir!Init
            /\ swap = "reading" /\ confirmed = FALSE
            /\ sender = "old"

SwapNext == \/ BothMove \/ OldPublishes \/ HeirPublishes \/ Answers
            \/ OldSubscribes \/ OldHandles \/ OldDisconnects
            \/ Forks \/ Retires \/ NotConfirmedYet
            \/ HeirConnects \/ HeirConfirms \/ HeirHandles

SwapSpec == SwapInit /\ [][SwapNext]_swapVars

\* The exchange publishes what changes, and a task reads what has arrived and
\* looks at the flag.  That a task dials, getBook is answered or the
\* replacement is confirmed is not assumed.
FairSwapSpec == /\ SwapSpec
                /\ WF_swapVars(OldPublishes) /\ WF_swapVars(HeirPublishes)
                /\ WF_swapVars(OldHandles) /\ WF_swapVars(HeirHandles)
                /\ WF_swapVars(swap = "sent" /\ (Retires \/ NotConfirmedYet))

(* ---- properties -------------------------------------------------------- *)

\* The replacement inherits nothing: on its first connection it sends no item
\* before it has handled its own snapshot (fresh_adapter), and from then on,
\* unless changes were thrown away, what it sends are books the exchange had,
\* in order, whatever the old task sends in between.
StartsClean ==
    [][HeirSends /\ heirReconnects = 0 =>
            heirSynced' /\ (~heirLost' => Heir!Promise!Show)]_swapVars

\* What docs/adr/Core Architecture/ADR-027 asks, "only tear down the old
\* connection once the new one has confirmed it is subscribed and actively
\* receiving market data": the old task retires after an item of the other.
RetiresToActiveFeed == [][swap' = "over" /\ swap # "over" => heirView # NoItem]_swapVars

\* No buffered or filtered update is forgotten: when the market has been quiet
\* for long enough, and each task that is left has its snapshot and lost
\* nothing, the consumer holds the exchange's book, unless the last item was
\* the word of an old task that has retired since: then nothing corrects it
\* until the market moves.
ChannelCatchesUp ==
    <>[](/\ swap # "over" => up /\ synced /\ ~lost
         /\ swap # "reading" => heirUp /\ heirSynced /\ ~heirLost
         /\ TwoSided(Now)
         => LastItem = Item(Now) \/ (swap = "over" /\ sender = "old"))

=============================================================================
