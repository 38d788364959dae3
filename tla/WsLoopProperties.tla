--------------------------- MODULE WsLoopProperties ---------------------------
(***************************************************************************)
(* What the tasks of one data channel must never do, and what they must    *)
(* eventually do.  The last section holds what the documentation promises  *)
(* and the code does not keep.                                             *)
(***************************************************************************)
EXTENDS WsLoop

\* After the subscribe of the current connection and before it is given up.
Subscribing == {"subscribe", "onConnect", "sendConnect", "read", "sendRead", "fetch",
                "sendSnapshot", "sendTimeout", "sendDrain", "drain"} \cup Forked
OldConnection == {"read", "sendRead", "fetch", "sendSnapshot", "sendTimeout",
                  "drain", "sendDrain"} \cup Forked
Dialling == {"connect", "authSend", "authWait", "sendAuth", "subscribe",
             "backoff"}

AllEnded == \A t \in Tasks : ~Live(t)

-------------------------------------------------------------------------------
(* Safety                                                                  *)

\* The retry budget is exact: a task still running has failed fewer than
\* max_attempts times since it last subscribed, and a task that gives up has
\* failed exactly max_attempts times; without a budget no task gives up
\* (the attempt counter of run_ws_loop, counted at five places).
BudgetIsExact ==
    \A t \in Tasks :
        /\ MaxAttempts > 0 /\ pc[t] \notin {"sendFatal", "fatal", "aborted"}
              => attempt[t] < MaxAttempts
        /\ pc[t] \in {"sendFatal", "fatal"}
              => MaxAttempts > 0 /\ attempt[t] = MaxAttempts

\* Only a completed subscribe restores the budget: connecting, or failing to
\* authenticate, never forgets earlier failures (attempt = 0 after the
\* subscribe loop of run_ws_loop).
RestoresBySubscribe ==
    \A t \in Tasks : attempt'[t] < attempt[t]
        => pc[t] = "subscribe" /\ pc'[t] = "onConnect" /\ (NeedsAuth => authed[t])
OnlySubscribeRestoresBudget == [][RestoresBySubscribe]_vars

\* Where the exchange demands authentication no subscription is sent, and no
\* data channel is read, on a connection that has not confirmed it, however
\* the connection before it ended (the auth phase of run_ws_loop).
NoUnauthenticatedSession ==
    NeedsAuth => \A t \in Tasks : pc[t] \in Subscribing => authed[t]

\* The old connection hands over only to a replacement that confirmed itself,
\* and only to the one it started itself on that same connection (the flag
\* checks in the read loop, the silence branch and the drain phase).
RetiresOnlyWhenConfirmed ==
    \A t \in Tasks :
        pc[t] = "replaced" => t = Root /\ child[t] # None /\ confirmed[child[t]]

\* Where the exchange sends no subscription ack, the replacement has queued a
\* market data item, or is about to, before the old connection retires; so
\* the consumer sees no gap (implicit confirmation by the first item).
HandsOverWithData ==
    ~AcksSubscription =>
        (pc[Root] = "replaced" =>
            LET c == child[Root]
            IN  c \in fed \/ pc[c] = "sendRead" \/ ~RxAlive)

\* A connection starts at most one replacement, and the link to it survives
\* until the next connection is up (replacement_started in run_ws_loop).
ForksOnce ==
    child'[Root] # child[Root]
        => IF child[Root] = None
           THEN pc[child'[Root]] = "unborn"
           ELSE child'[Root] = None /\ pc[Root] \in {"onConnect", "sendConnect"}
OneForkPerConnection == [][ForksOnce]_vars

\* The stream never just ends: while the consumer holds the receiver, the
\* last task to end has told it why (every return of run_ws_loop that is not
\* a handover sends MaxReconnectsExceeded first).
EndIsAnnounced ==
    RxAlive /\ AllEnded =>
        \/ fatalSeen # {}
        \/ \E i \in DOMAIN chan : chan[i].kind = "fatal"

\* Dropping the handle of a channel leaves nothing running, the replacements
\* included, unless a fork is in flight at that very moment
\* (StreamHandle::drop over the shared join handles).
DropStepIsClean ==
    owner = "channel" /\ owner' = "dropped" /\ pc[Root] \notin Forked
        => AllEnded'
DropIsClean == [][DropStepIsClean]_vars

-------------------------------------------------------------------------------
(* The inductive invariant behind the safety properties                    *)

\* Only Root forks, drains and retires, and then it has a replacement.
Links ==
    /\ \A t \in Replacements :
        child[t] = None /\ pc[t] \notin Forked \cup {"drain", "sendDrain", "replaced"}
    /\ pc[Root] # "unborn"
    /\ pc[Root] \in {"spawned", "drain", "sendDrain", "replaced"} => child[Root] # None
    /\ pc[Root] = "forking" => child[Root] = None
    /\ child[Root] # None => pc[child[Root]] # "unborn"

\* While the consumer listens no task is cancelled, and a task that ended
\* either handed over or left its fatal error in the queue or with the consumer.
Announced(t) ==
    \/ t \in fatalSeen
    \/ \E i \in DOMAIN chan : chan[i] = [src |-> t, kind |-> "fatal"]
EndsExplained ==
    RxAlive =>
        /\ aborting = {}
        /\ \A t \in Tasks : pc[t] \in Terminal \ {"replaced"}
                                => pc[t] = "fatal" /\ Announced(t)

\* Until the merge, the channel's handle can abort every running task.
HandlesCover ==
    owner = "channel" =>
        \A t \in Tasks : Live(t) =>
            t \in joinHandles \/ (pc[Root] = "spawned" /\ child[Root] = t)

\* A confirmed replacement has queued an item or is about to.
ConfirmedByData ==
    ~AcksSubscription /\ RxAlive =>
        \A c \in Replacements : confirmed[c] => c \in fed \/ pc[c] = "sendRead"

IInv == /\ TypeOK
        /\ Links
        /\ RetiresOnlyWhenConfirmed
        /\ BudgetIsExact
        /\ NoUnauthenticatedSession
        /\ EndsExplained
        /\ HandlesCover
        /\ ConfirmedByData

-------------------------------------------------------------------------------
(* Refinement                                                              *)

Promise == INSTANCE Channel WITH
    queue   <- chan,
    held    <- RxAlive,
    running <- {t \in Tasks : Live(t)},
    ready   <- {t \in Tasks : confirmed[t]},
    gaveUp  <- {t \in Tasks : pc[t] = "fatal"}

\* The tasks of run_ws_loop, its forks and the StreamHandle together keep what
\* Channel promises: nothing is heard from a connection that has ended, and
\* while the consumer listens none ends without a fatal error or an heir.
ImplementsChannel == Promise!Spec

-------------------------------------------------------------------------------
(* Liveness, under FairSpec                                                *)

\* The drain phase ends: the old connection does not wait for its replacement
\* forever (silence_reconnect_timeout_secs).
DrainEventuallyEnds ==
    pc[Root] \in {"drain", "sendDrain"} ~> pc[Root] \notin {"drain", "sendDrain"}

\* Once its replacement has confirmed, the old connection is given up, even
\* when its data resumes, or comes with snapshots to fetch (the three places
\* where run_ws_loop reads the flag) - provided no snapshot it waits for stays
\* out for good: while fetch_snapshot_and_merge runs nothing reads the flag.
OldConnectionGivenUp ==
    []<>(pc[Root] # "fetch") =>
        (pc[Root] \in OldConnection /\ SuccessorReady(Root)
             ~> pc[Root] \notin OldConnection)

\* With a retry budget no task dials forever: it comes to read, or it ends
\* (every failure before the subscribe counts) - provided every dial of its
\* comes to an end: connect_async has no timeout, and a dial without an answer
\* is no failure to count.
DiallingEnds ==
    MaxAttempts > 0 =>
        \A t \in Tasks :
            []<>(pc[t] # "connect") => []<>(pc[t] \notin Dialling)

-------------------------------------------------------------------------------
(* Promised by the documentation, not kept by the code                     *)

\* wsloop.rs says the shared set of handles covers every live task.  After
\* merge_stream_handles it does not: a later fork pushes to the set the
\* handles were moved out of.
AbortCoversEveryTask ==
    owner = "merged" /\ pc[Root] \notin Forked
        => \A t \in Tasks : Live(t) => t \in merged

\* README.md says that dropping the stream aborts all background tasks.  A
\* replacement spawned while the handle is being dropped is pushed to a set
\* that nobody looks at again.
DropLeavesNoTask ==
    owner = "dropped" => \A t \in Tasks : Live(t) => t \in aborting

\* ADR-027 says that the old task leaves only the replacement running.  The
\* flag it looks at says that the replacement once had data: by then it may
\* have given up, and the channel is left to nobody.
LeavesToRunning ==
    RxAlive /\ pc[Root] # "replaced" /\ pc'[Root] = "replaced"
        => Live(child[Root])
LeavesReplacementRunning == [][LeavesToRunning]_vars

\* ADR-027 says that both connections are open only until
\* silence_reconnect_timeout_secs.  After that timeout, or when its socket
\* ends first, the old task connects again while its replacement goes on: both
\* read and feed the queue, and neither ever leaves to the other.
TwoOnlyDuringSwap ==
    \A c \in Replacements :
        pc[Root] \in OldConnection /\ pc[c] \in OldConnection => child[Root] = c

===============================================================================
