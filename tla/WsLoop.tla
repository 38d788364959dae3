-------------------------------- MODULE WsLoop --------------------------------
(***************************************************************************)
(* One data channel of cryptomeria-ingest: the run_ws_loop tasks that feed *)
(* its bounded mpsc queue, the fork-and-replace swap of a silent           *)
(* connection (ADR-027), the retry budget, and the StreamHandle through    *)
(* which the consumer reads the queue and aborts the tasks.                *)
(*                                                                         *)
(* Task Root is the loop spawned by run_exchange_stream (enable_fork =     *)
(* true); every other task is a replacement spawned by Root on silence     *)
(* (enable_fork = false).  A value of pc is an await point of the task,    *)
(* except "forking" and "spawned", which lie inside one poll of Root.      *)
(* Which message a socket delivers, when a timer fires and whether the     *)
(* network answers are nondeterministic; durations and payloads are        *)
(* abstracted away.                                                        *)
(***************************************************************************)
EXTENDS Naturals, Sequences, FiniteSets

CONSTANTS
    MaxTasks,          \* bound: tasks ever spawned for the channel
    MaxAttempts,       \* max_attempts after normalize_max_attempts; 0 = None
    AttemptCap,        \* bound: where the attempt counter saturates
    ChanCap,           \* capacity of the mpsc channel (1024 in the code)
    NeedsAuth,         \* auth_msgs() is Some (Bitvavo)
    AcksSubscription,  \* subscription_confirmed() overridden (Kraken, Bitvavo)
    HookItems,         \* the adapter's hooks may return an item (Bitstamp:
                       \* on_connect or fetch_snapshot_and_merge)
    SilenceTimeout,    \* silence_timeout_secs is Some
    DrainTimeout,      \* silence_reconnect_timeout_secs is Some
    Merging            \* the handle passes through merge_stream_handles

Tasks == 1..MaxTasks
Root == 1
Replacements == Tasks \ {Root}
None == 0

ASSUME ConstantsAssumption ==
    /\ MaxTasks \in Nat \ {0}
    /\ MaxAttempts \in Nat
    /\ AttemptCap \in Nat \ {0}
    /\ MaxAttempts <= AttemptCap
    /\ ChanCap \in Nat \ {0}
    /\ {NeedsAuth, AcksSubscription, HookItems,
        SilenceTimeout, DrainTimeout, Merging} \subseteq BOOLEAN

Forked   == {"forking", "spawned"}
Sending  == {"sendAuth", "sendConnect", "sendRead", "sendSnapshot", "sendDrain",
             "sendTimeout", "sendReconnect", "sendFatal"}
Waiting  == {"connect", "authSend", "authWait", "subscribe", "onConnect",
             "read", "fetch", "drain", "close", "onReconnect", "backoff"}
\* How a task ended: Ok(()), Err(MaxReconnectsExceeded), Err(ChannelClosed),
\* or cancelled by its JoinHandle.
Terminal == {"replaced", "fatal", "closed", "aborted"}
PCs      == {"unborn"} \cup Waiting \cup Sending \cup Forked \cup Terminal

Entries == [src : Tasks, kind : {"item", "timeout", "fatal"}]

VARIABLES
    pc,           \* where each task is in run_ws_loop
    attempt,      \* failed attempts since the last successful subscribe
    authed,       \* auth_confirmed of the current connection
    child,        \* replacement started by the current read loop, or None
    confirmed,    \* the confirmed_flag the task was spawned with
    chan,         \* the mpsc queue
    joinHandles,  \* tasks in the channel's SharedJoinHandles
    merged,       \* tasks in the merged handle's SharedJoinHandles
    owner,        \* who holds the receiver: "channel", "merged" or "dropped"
    aborting,     \* abort() was called while the task was being polled
    fatalSeen,    \* history: tasks whose fatal error the consumer has read
    fed           \* history: tasks that have queued a market data item

taskVars   == <<pc, attempt, authed, child, confirmed>>
handleVars == <<joinHandles, merged, owner, aborting>>
history    == <<fatalSeen, fed>>
vars       == <<pc, attempt, authed, child, confirmed, chan, joinHandles,
                merged, owner, aborting, fatalSeen, fed>>

Live(t)    == pc[t] \notin Terminal \cup {"unborn"}
RxAlive    == owner # "dropped"
QueueHasRoom == Len(chan) < ChanCap

\* replacement_started and the shared flag of the current replacement.
Started(t)        == child[t] # None
SuccessorReady(t) == Started(t) /\ confirmed[child[t]]

TypeOK ==
    /\ pc \in [Tasks -> PCs]
    /\ attempt \in [Tasks -> 0..AttemptCap]
    /\ authed \in [Tasks -> BOOLEAN]
    /\ child \in [Tasks -> {None} \cup Replacements]
    /\ confirmed \in [Tasks -> BOOLEAN]
    /\ chan \in Seq(Entries)
    /\ Len(chan) <= ChanCap
    /\ joinHandles \subseteq Tasks
    /\ merged \subseteq Tasks
    /\ owner \in {"channel", "merged", "dropped"}
    /\ aborting \subseteq Tasks
    /\ fatalSeen \subseteq Tasks
    /\ fed \subseteq Tasks

\* run_exchange_stream: the channel exists, Root is spawned and its handle kept.
Init ==
    /\ pc = [t \in Tasks |-> IF t = Root THEN "connect" ELSE "unborn"]
    /\ attempt = [t \in Tasks |-> 0]
    /\ authed = [t \in Tasks |-> FALSE]
    /\ child = [t \in Tasks |-> None]
    /\ confirmed = [t \in Tasks |-> FALSE]
    /\ chan = <<>>
    /\ joinHandles = {Root}
    /\ merged = {}
    /\ owner = "channel"
    /\ aborting = {}
    /\ fatalSeen = {}
    /\ fed = {}

-------------------------------------------------------------------------------
(* Shared control                                                          *)

\* A task whose abort is pending is cancelled at its next await point, so it
\* takes only the steps of the poll it is in.
Runs(t, where) == pc[t] = where /\ (t \notin aborting \/ where \in Forked)

Goto(t, to) == pc' = [pc EXCEPT ![t] = to]

\* Mutants: one attempt too many; the task ends without a word.
CountFailureLate(t, retry) ==
    LET n == IF attempt[t] < AttemptCap THEN attempt[t] + 1 ELSE AttemptCap
    IN  /\ attempt' = [attempt EXCEPT ![t] = n]
        /\ Goto(t, IF MaxAttempts # 0 /\ attempt[t] >= MaxAttempts
                   THEN "sendFatal" ELSE retry)
CountFailureMute(t, retry) ==
    LET n == IF attempt[t] < AttemptCap THEN attempt[t] + 1 ELSE AttemptCap
    IN  /\ attempt' = [attempt EXCEPT ![t] = n]
        /\ Goto(t, IF MaxAttempts # 0 /\ n >= MaxAttempts THEN "fatal" ELSE retry)

\* attempt += 1; give up through the channel once the budget is spent.
CountFailure(t, retry) ==
    LET n == IF attempt[t] < AttemptCap THEN attempt[t] + 1 ELSE AttemptCap
    IN  /\ attempt' = [attempt EXCEPT ![t] = n]
        /\ Goto(t, IF MaxAttempts # 0 /\ n >= MaxAttempts THEN "sendFatal"
                                                          ELSE retry)

\* After 'read: the drain phase if a replacement was started, else the retry.
AfterRead(t) == IF Started(t) THEN "drain" ELSE "close"

Confirm(t) == confirmed' = IF t = Root THEN confirmed
                                       ELSE [confirmed EXCEPT ![t] = TRUE]

-------------------------------------------------------------------------------
(* Connecting, authenticating, subscribing                                 *)

\* Mutant: the budget is restored as soon as the socket opens.
ConnectedForgets(t) ==
    /\ Runs(t, "connect")
    /\ Goto(t, IF NeedsAuth THEN "authSend" ELSE "subscribe")
    /\ authed' = [authed EXCEPT ![t] = FALSE]
    /\ attempt' = [attempt EXCEPT ![t] = 0]
    /\ UNCHANGED <<child, confirmed, chan, handleVars, history>>

Connected(t) ==
    /\ Runs(t, "connect")
    /\ Goto(t, IF NeedsAuth THEN "authSend" ELSE "subscribe")
    /\ authed' = [authed EXCEPT ![t] = FALSE]
    /\ UNCHANGED <<attempt, child, confirmed, chan, handleVars, history>>

ConnectFails(t) ==
    /\ Runs(t, "connect")
    /\ CountFailure(t, "backoff")
    /\ UNCHANGED <<authed, child, confirmed, chan, handleVars, history>>

AuthSent(t) ==
    /\ Runs(t, "authSend")
    /\ Goto(t, "authWait")
    /\ UNCHANGED <<attempt, authed, child, confirmed, chan, handleVars, history>>

AuthSendFails(t) ==
    /\ Runs(t, "authSend")
    /\ CountFailure(t, "backoff")
    /\ UNCHANGED <<authed, child, confirmed, chan, handleVars, history>>

AuthConfirmed(t) ==
    /\ Runs(t, "authWait")
    /\ authed' = [authed EXCEPT ![t] = TRUE]
    /\ Goto(t, "subscribe")
    /\ UNCHANGED <<attempt, child, confirmed, chan, handleVars, history>>

\* A message other than the confirmation goes through handle_message too.
AuthItem(t) ==
    /\ Runs(t, "authWait")
    /\ Goto(t, "sendAuth")
    /\ UNCHANGED <<attempt, authed, child, confirmed, chan, handleVars, history>>

\* Mutants: after the auth timeout the session goes on; it is not counted.
AuthTimeoutProceeds(t) ==
    /\ Runs(t, "authWait")
    /\ Goto(t, "subscribe")
    /\ UNCHANGED <<attempt, authed, child, confirmed, chan, handleVars, history>>
AuthFailureUncounted(t) ==
    /\ Runs(t, "authWait")
    /\ Goto(t, "backoff")
    /\ UNCHANGED <<attempt, authed, child, confirmed, chan, handleVars, history>>

\* Close frame, read error, end of stream, tx.closed() or auth timeout.
AuthGivesUp(t) ==
    /\ Runs(t, "authWait")
    /\ CountFailure(t, "backoff")
    /\ UNCHANGED <<authed, child, confirmed, chan, handleVars, history>>

\* Mutant: a replacement confirms itself before it has read anything.
SubscribedConfirms(t) ==
    /\ Runs(t, "subscribe")
    /\ attempt' = [attempt EXCEPT ![t] = 0]
    /\ Goto(t, "onConnect")
    /\ Confirm(t)
    /\ UNCHANGED <<authed, child, chan, handleVars, history>>

\* The budget is restored here and nowhere else.
Subscribed(t) ==
    /\ Runs(t, "subscribe")
    /\ attempt' = [attempt EXCEPT ![t] = 0]
    /\ Goto(t, "onConnect")
    /\ UNCHANGED <<authed, child, confirmed, chan, handleVars, history>>

SubscribeFails(t) ==
    /\ Runs(t, "subscribe")
    /\ CountFailure(t, "backoff")
    /\ UNCHANGED <<authed, child, confirmed, chan, handleVars, history>>

OnConnectItem(t) ==
    /\ HookItems
    /\ Runs(t, "onConnect")
    /\ Goto(t, "sendConnect")
    /\ UNCHANGED <<attempt, authed, child, confirmed, chan, handleVars, history>>

\* The hook returned no item, or failed: a fresh flag and read loop.
OnConnectDone(t) ==
    /\ Runs(t, "onConnect")
    /\ Goto(t, "read")
    /\ child' = [child EXCEPT ![t] = None]
    /\ UNCHANGED <<attempt, authed, confirmed, chan, handleVars, history>>

-------------------------------------------------------------------------------
(* Phase 1: the read loop                                                  *)

\* handle_message returned an item; a replacement confirms itself first.
ReadItem(t) ==
    /\ Runs(t, "read")
    /\ Confirm(t)
    /\ Goto(t, "sendRead")
    /\ UNCHANGED <<attempt, authed, child, chan, handleVars, history>>

\* snapshot_needed: the read loop waits for the REST answer, and for nothing
\* else; fetch_snapshot_and_merge has no timeout.
ReadSnapshot(t) ==
    /\ HookItems
    /\ Runs(t, "read")
    /\ Goto(t, "fetch")
    /\ UNCHANGED <<attempt, authed, child, confirmed, chan, handleVars, history>>

\* The merged snapshot is sent without confirming.
SnapshotArrives(t) ==
    /\ Runs(t, "fetch")
    /\ Goto(t, "sendSnapshot")
    /\ UNCHANGED <<attempt, authed, child, confirmed, chan, handleVars, history>>

\* An error, or no item to send: on to the end of the read branch.
SnapshotFails(t) ==
    /\ Runs(t, "fetch")
    /\ Goto(t, IF SuccessorReady(t) THEN "replaced" ELSE "read")
    /\ UNCHANGED <<attempt, authed, child, confirmed, chan, handleVars, history>>

\* Subscription ack: a confirmation that carries no data.
ReadAck(t) ==
    /\ AcksSubscription
    /\ Runs(t, "read")
    /\ ~SuccessorReady(t)
    /\ Confirm(t)
    /\ UNCHANGED <<pc, attempt, authed, child, chan, handleVars, history>>

\* Any message: the end of the read branch notices a confirmed replacement.
ReadRetires(t) ==
    /\ Runs(t, "read")
    /\ SuccessorReady(t)
    /\ Goto(t, "replaced")
    /\ UNCHANGED <<attempt, authed, child, confirmed, chan, handleVars, history>>

\* Close, read error, end of stream, failed ping or pong send, tx.closed().
ReadEnds(t) ==
    /\ Runs(t, "read")
    /\ Goto(t, AfterRead(t))
    /\ UNCHANGED <<attempt, authed, child, confirmed, chan, handleVars, history>>

KeepaliveTimeout(t) ==
    /\ Runs(t, "read")
    /\ Goto(t, "sendTimeout")
    /\ UNCHANGED <<attempt, authed, child, confirmed, chan, handleVars, history>>

\* Mutant: every silence starts another replacement.
SilenceForksAgain(t) ==
    /\ SilenceTimeout
    /\ t = Root
    /\ Runs(t, "read")
    /\ \E c \in Replacements : pc[c] = "unborn"
    /\ Goto(t, "forking")
    /\ UNCHANGED <<attempt, authed, child, confirmed, chan, handleVars, history>>

\* Silence with no replacement yet, in the task that may fork.
SilenceForks(t) ==
    /\ SilenceTimeout
    /\ t = Root
    /\ Runs(t, "read")
    /\ ~Started(t)
    /\ \E c \in Replacements : pc[c] = "unborn"
    /\ Goto(t, "forking")
    /\ UNCHANGED <<attempt, authed, child, confirmed, chan, handleVars, history>>

\* Silence in a replacement, or again after the fork.
SilenceEnds(t) ==
    /\ SilenceTimeout
    /\ Runs(t, "read")
    /\ t # Root \/ Started(t)
    /\ Goto(t, IF SuccessorReady(t) THEN "replaced" ELSE AfterRead(t))
    /\ UNCHANGED <<attempt, authed, child, confirmed, chan, handleVars, history>>

\* spawn_replacement_loop: a fresh task with a fresh flag, same queue.
ForkSpawn(t) ==
    /\ Runs(t, "forking")
    /\ \E c \in Replacements :
        /\ pc[c] = "unborn"
        /\ \A d \in Replacements : pc[d] = "unborn" => c <= d
        /\ pc' = [pc EXCEPT ![t] = "spawned", ![c] = "connect"]
        /\ child' = [child EXCEPT ![t] = c]
    /\ UNCHANGED <<attempt, authed, confirmed, chan, handleVars, history>>

\* Mutant: the handle of the replacement is not kept.
ForkForgets(t) ==
    /\ Runs(t, "spawned")
    /\ Goto(t, "read")
    /\ UNCHANGED <<attempt, authed, child, confirmed, chan, handleVars, history>>

\* push_join_handle pushes to the set the loop was given, merged since or not.
ForkPush(t) ==
    /\ Runs(t, "spawned")
    /\ joinHandles' = joinHandles \cup {child[t]}
    /\ Goto(t, "read")
    /\ UNCHANGED <<attempt, authed, child, confirmed, chan, merged, owner,
                   aborting, history>>

-------------------------------------------------------------------------------
(* Phase 2: draining while the replacement comes up                        *)

DrainItem(t) ==
    /\ Runs(t, "drain")
    /\ Goto(t, "sendDrain")
    /\ UNCHANGED <<attempt, authed, child, confirmed, chan, handleVars, history>>

\* Close, error, end of stream or tx.closed(): the flag is not consulted.
DrainEnds(t) ==
    /\ Runs(t, "drain")
    /\ Goto(t, "close")
    /\ UNCHANGED <<attempt, authed, child, confirmed, chan, handleVars, history>>

\* Mutants: the timeout retires the old connection; it waits for the
\* replacement task to end.
DrainTimeoutRetires(t) ==
    /\ DrainTimeout
    /\ Runs(t, "drain")
    /\ Goto(t, "replaced")
    /\ UNCHANGED <<attempt, authed, child, confirmed, chan, handleVars, history>>
DrainTimeoutWaits(t) ==
    /\ DrainTimeout
    /\ Runs(t, "drain")
    /\ ~Live(child[t])
    /\ Goto(t, "close")
    /\ UNCHANGED <<attempt, authed, child, confirmed, chan, handleVars, history>>

DrainTimesOut(t) ==
    /\ DrainTimeout
    /\ Runs(t, "drain")
    /\ Goto(t, "close")
    /\ UNCHANGED <<attempt, authed, child, confirmed, chan, handleVars, history>>

\* The 500 ms poll of the replacement's flag.
DrainRetires(t) ==
    /\ Runs(t, "drain")
    /\ SuccessorReady(t)
    /\ Goto(t, "replaced")
    /\ UNCHANGED <<attempt, authed, child, confirmed, chan, handleVars, history>>

-------------------------------------------------------------------------------
(* Closing and retrying                                                    *)

CloseAndRetry(t) ==
    /\ Runs(t, "close")
    /\ CountFailure(t, "onReconnect")
    /\ UNCHANGED <<authed, child, confirmed, chan, handleVars, history>>

OnReconnectItem(t) ==
    /\ HookItems
    /\ Runs(t, "onReconnect")
    /\ Goto(t, "sendReconnect")
    /\ UNCHANGED <<attempt, authed, child, confirmed, chan, handleVars, history>>

OnReconnectDone(t) ==
    /\ Runs(t, "onReconnect")
    /\ Goto(t, "backoff")
    /\ UNCHANGED <<attempt, authed, child, confirmed, chan, handleVars, history>>

\* sleep(delay): neither the socket nor tx.closed() is watched.
BackoffElapses(t) ==
    /\ Runs(t, "backoff")
    /\ Goto(t, "connect")
    /\ UNCHANGED <<attempt, authed, child, confirmed, chan, handleVars, history>>

-------------------------------------------------------------------------------
(* tx.send(..).await                                                       *)

Kind(s) == CASE s = "sendTimeout" -> "timeout"
             [] s = "sendFatal"   -> "fatal"
             [] OTHER             -> "item"

\* Mutant: the flag is not read after a message that carried an item.
ResumeReading(t) == CASE pc[t] = "sendAuth"      -> "authWait"
                      [] pc[t] = "sendDrain"     -> "drain"
                      [] pc[t] = "sendTimeout"   -> AfterRead(t)
                      [] pc[t] = "sendReconnect" -> "backoff"
                      [] pc[t] = "sendFatal"     -> "fatal"
                      [] OTHER                   -> "read"

Resume(t) == CASE pc[t] = "sendAuth"      -> "authWait"
               [] pc[t] = "sendConnect"   -> "read"
               [] pc[t] \in {"sendRead", "sendSnapshot"}
                                          -> IF SuccessorReady(t)
                                             THEN "replaced" ELSE "read"
               [] pc[t] = "sendDrain"     -> "drain"
               [] pc[t] = "sendTimeout"   -> AfterRead(t)
               [] pc[t] = "sendReconnect" -> "backoff"
               [] OTHER                   -> "fatal"

SendAccepted(t) ==
    /\ pc[t] \in Sending /\ Runs(t, pc[t])
    /\ RxAlive
    /\ QueueHasRoom
    /\ chan' = Append(chan, [src |-> t, kind |-> Kind(pc[t])])
    /\ fed' = IF Kind(pc[t]) = "item" THEN fed \cup {t} ELSE fed
    /\ child' = IF pc[t] = "sendConnect" THEN [child EXCEPT ![t] = None]
                                         ELSE child
    /\ \/ Goto(t, Resume(t))
       \/ \* The same message also made the snapshot due.
          HookItems /\ pc[t] = "sendRead" /\ Goto(t, "fetch")
    /\ UNCHANGED <<attempt, authed, confirmed, handleVars, fatalSeen>>

\* The receiver is gone.
SendRejected(t) ==
    /\ pc[t] \in Sending /\ Runs(t, pc[t])
    /\ ~RxAlive
    /\ \/ pc[t] = "sendAuth" /\ CountFailure(t, "backoff")
       \/ /\ pc[t] # "sendAuth"
          /\ Goto(t, CASE pc[t] \in {"sendRead", "sendSnapshot", "sendTimeout"}
                                                -> AfterRead(t)
                       [] pc[t] = "sendDrain"   -> "close"
                       [] pc[t] = "sendFatal"   -> "fatal"
                       [] OTHER                 -> "closed")
          /\ UNCHANGED attempt
    /\ UNCHANGED <<authed, child, confirmed, chan, handleVars, history>>

-------------------------------------------------------------------------------
(* The consumer's side: StreamHandle                                       *)

Recv ==
    /\ RxAlive
    /\ chan # <<>>
    /\ chan' = Tail(chan)
    /\ fatalSeen' = IF Head(chan).kind = "fatal"
                    THEN fatalSeen \cup {Head(chan).src} ELSE fatalSeen
    /\ UNCHANGED <<taskVars, handleVars, fed>>

\* merge_stream_handles moves the handles out of the channel's set.
Merge ==
    /\ Merging
    /\ owner = "channel"
    /\ merged' = merged \cup joinHandles
    /\ joinHandles' = {}
    /\ owner' = "merged"
    /\ UNCHANGED <<taskVars, chan, aborting, history>>

\* StreamHandle::drop aborts every handle it owns, then the receiver goes.
Owned == IF owner = "merged" THEN merged ELSE joinHandles

Drop ==
    /\ RxAlive
    /\ owner' = "dropped"
    /\ pc' = [t \in Tasks |-> IF t \in Owned /\ Live(t) /\ pc[t] \notin Forked
                              THEN "aborted" ELSE pc[t]]
    /\ aborting' = {t \in Owned : pc[t] \in Forked}
    /\ chan' = <<>>
    /\ UNCHANGED <<attempt, authed, child, confirmed, joinHandles, merged,
                   history>>

\* A task aborted in the middle of a poll is cancelled when the poll yields.
Cancelled(t) ==
    /\ t \in aborting
    /\ Live(t)
    /\ pc[t] \notin Forked
    /\ Goto(t, "aborted")
    /\ UNCHANGED <<attempt, authed, child, confirmed, chan, handleVars, history>>

-------------------------------------------------------------------------------

Session(t) ==
    \/ Connected(t)     \/ ConnectFails(t)
    \/ AuthSent(t)      \/ AuthSendFails(t)
    \/ AuthConfirmed(t) \/ AuthItem(t)       \/ AuthGivesUp(t)
    \/ Subscribed(t)    \/ SubscribeFails(t)
    \/ OnConnectItem(t) \/ OnConnectDone(t)

Reading(t) ==
    \/ ReadItem(t)      \/ ReadSnapshot(t)  \/ ReadAck(t)
    \/ SnapshotArrives(t) \/ SnapshotFails(t)
    \/ ReadRetires(t)   \/ ReadEnds(t)      \/ KeepaliveTimeout(t)
    \/ SilenceForks(t)  \/ SilenceEnds(t)
    \/ ForkSpawn(t)     \/ ForkPush(t)

Draining(t) ==
    \/ DrainItem(t)     \/ DrainEnds(t)
    \/ DrainTimesOut(t) \/ DrainRetires(t)

Retrying(t) ==
    \/ CloseAndRetry(t) \/ OnReconnectItem(t)
    \/ OnReconnectDone(t) \/ BackoffElapses(t)

SendStep(t) == SendAccepted(t) \/ SendRejected(t)

TaskStep(t) == Session(t) \/ Reading(t) \/ Draining(t) \/ Retrying(t)
               \/ SendStep(t) \/ Cancelled(t)

\* Every task has ended and the receiver is gone: the system may stop.
Finished ==
    /\ ~RxAlive
    /\ \A t \in Tasks : ~Live(t)
    /\ UNCHANGED vars

Next ==
    \/ \E t \in Tasks : TaskStep(t)
    \/ Recv
    \/ Merge
    \/ Drop
    \/ Finished

Spec == Init /\ [][Next]_vars

\* Waiting for a peer that may never answer: connect_async and the REST calls
\* of the hooks have no timeout.
AwaitsAnswer(t) ==
    \/ pc[t] = "connect"
    \/ HookItems /\ pc[t] \in {"onConnect", "fetch", "onReconnect"}

(***************************************************************************)
(* Fairness.  The runtime polls a task that is ready, so a step that stays *)
(* possible is taken, unless it needs an answer that nothing bounds in     *)
(* time; a consumer that keeps the stream keeps reading; the queue serves  *)
(* waiting senders in order, so none is passed over forever.  The select!  *)
(* of each loop is biased towards the socket: a timer is seen only when    *)
(* the socket is empty, which is assumed to be the case again and again    *)
(* (strong fairness of the timers).  A write to an open socket is assumed  *)
(* to return, with success or an error.  Nothing is assumed of what the    *)
(* network answers, or that it does, or of when the consumer drops the     *)
(* stream.                                                                 *)
(***************************************************************************)
Fairness ==
    /\ \A t \in Tasks :
        /\ WF_vars(Session(t) /\ ~AwaitsAnswer(t))
        /\ SF_vars(AuthGivesUp(t))
        /\ WF_vars(Reading(t) /\ ~AwaitsAnswer(t))
        /\ SF_vars(DrainTimesOut(t))
        /\ SF_vars(DrainRetires(t))
        /\ WF_vars(Retrying(t) /\ ~AwaitsAnswer(t))
        /\ SF_vars(SendStep(t))
        /\ WF_vars(Cancelled(t))
    /\ WF_vars(Recv)

FairSpec == Spec /\ Fairness
===============================================================================
