------------------------------- MODULE Channel -------------------------------
(***************************************************************************)
(* What a data channel promises the consumer of stream(): entries in the   *)
(* order they were sent, each from a connection that was still up; a       *)
(* connection that ends while it is listened to says so with a fatal       *)
(* error, or leaves to a successor that is ready.  How connections fail,   *)
(* retry, fork and drain is left to WsLoop, which implements this module.  *)
(***************************************************************************)
EXTENDS Naturals, Sequences

CONSTANTS
    Tasks,     \* who may feed the channel
    ChanCap    \* capacity of the mpsc channel

VARIABLES
    queue,     \* sent and not yet read
    held,      \* the consumer holds the receiver
    running,   \* tasks that have been spawned and have not ended
    ready,     \* tasks that announced they can take over
    gaveUp     \* tasks that ended with their retry budget spent

chanVars == <<queue, held, running, ready, gaveUp>>

Init ==
    /\ queue = <<>>
    /\ held = TRUE
    /\ \E t \in Tasks : running = {t}
    /\ ready = {}
    /\ gaveUp = {}

\* Someone else is ready who still runs, or has had to give up since.
HasHeir(t) == \E s \in ready \ {t} : s \in running \cup gaveUp

Spawn(t) ==
    /\ running # {}
    /\ t \notin running \cup gaveUp
    /\ running' = running \cup {t}
    /\ UNCHANGED <<queue, held, ready, gaveUp>>

GetReady(t) ==
    /\ t \in running
    /\ ready' = ready \cup {t}
    /\ UNCHANGED <<queue, held, running, gaveUp>>

\* An item or a keepalive error; with it a task may leave to its heir.
Publish(t) ==
    /\ held
    /\ t \in running
    /\ Len(queue) < ChanCap
    /\ \E kind \in {"item", "timeout"} :
        queue' = Append(queue, [src |-> t, kind |-> kind])
    /\ \/ UNCHANGED running
       \/ HasHeir(t) /\ running' = running \ {t}
    /\ UNCHANGED <<held, ready, gaveUp>>

\* Err(MaxReconnectsExceeded) is the last word of a task.
GiveUp(t) ==
    /\ held
    /\ t \in running
    /\ Len(queue) < ChanCap
    /\ queue' = Append(queue, [src |-> t, kind |-> "fatal"])
    /\ running' = running \ {t}
    /\ gaveUp' = gaveUp \cup {t}
    /\ UNCHANGED <<held, ready>>

HandOver(t) ==
    /\ t \in running
    /\ HasHeir(t)
    /\ running' = running \ {t}
    /\ UNCHANGED <<queue, held, ready, gaveUp>>

\* Nobody listens any more: a task ends as it likes.
Vanish(t) ==
    /\ ~held
    /\ t \in running
    /\ running' = running \ {t}
    /\ gaveUp' \in {gaveUp, gaveUp \cup {t}}
    /\ UNCHANGED <<queue, held, ready>>

Take ==
    /\ held
    /\ queue # <<>>
    /\ queue' = Tail(queue)
    /\ UNCHANGED <<held, running, ready, gaveUp>>

\* The receiver and what it had not read go; tasks are cancelled with it.
Release ==
    /\ held
    /\ held' = FALSE
    /\ queue' = <<>>
    /\ running' \in SUBSET running
    /\ UNCHANGED <<ready, gaveUp>>

Next ==
    \/ \E t \in Tasks :
        \/ Spawn(t)   \/ GetReady(t) \/ Publish(t)
        \/ GiveUp(t)  \/ HandOver(t) \/ Vanish(t)
    \/ Take
    \/ Release

Spec == Init /\ [][Next]_chanVars

\* The channel never just falls silent: while it is listened to somebody feeds
\* it, or somebody has given up and said so (the returns of run_ws_loop).
NeverJustSilent == held => running # {} \/ gaveUp # {}
===============================================================================
