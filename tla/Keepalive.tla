----------------------------- MODULE Keepalive ------------------------------
(***************************************************************************)
(* The clocks of run_ws_loop (wsloop.rs): the keepalive ping and the       *)
(* timeout for its pong, the silence timer and the backoff between two     *)
(* dials, for one task and its successive connections.  Time passes in     *)
(* ticks and only where the code awaits something; a due timer is seen     *)
(* when the loop gets back to its select! and the socket has nothing to    *)
(* read.  The queue, the replacement and the drain are in WsLoop; here a   *)
(* send may take any time, and what follows the read loop takes none.      *)
(* The proofs about both modules are in WsLoopProofs, so no name is in     *)
(* both: ClocksInit, ClocksNext and ClocksSpec are the specification.      *)
(***************************************************************************)
EXTENDS Integers, Sequences

CONSTANTS Exchanges,        \* the adapters considered
          Interval,         \* keepalive_interval_ms, in ticks
          Silence,          \* silence_timeout_secs, in ticks; NoSilence for None
          InitialBackoff, MaxBackoff, Multiplier, Jitter,   \* ResilienceConfig
          MaxSocket,        \* bound on the frames waiting in the socket
          MaxLate,          \* bound on the ticks the ping timer may be overdue
          MaxAttempt        \* bound on consecutive failed dials

NoSilence == -1

ASSUME KeepaliveAssumption ==
    /\ Exchanges \subseteq {"okx", "kraken", "bitstamp", "bitvavo"}
    /\ Interval \in Nat \ {0}
    /\ Silence \in Nat \cup {NoSilence}
    /\ {InitialBackoff, MaxBackoff, Multiplier, Jitter} \subseteq Nat
    /\ Multiplier > 0
    /\ {MaxSocket, MaxLate, MaxAttempt} \subseteq Nat

VARIABLES exchange,     \* the adapter's exchange
          mayFork,      \* enable_fork
          phase,        \* "reading", "sending", "fetching", "raising", "waiting"
          socket,       \* frames received and not read yet
          pingIn,       \* ticks until ping_sleep fires; negative: overdue
          sincePong,    \* last_pong.elapsed()
          silentIn,     \* ticks until silence_sleep fires
          forked,       \* replacement_started
          attempts,     \* attempt: failures since the last subscribe
          wait,         \* ticks left of the backoff
          owed,         \* history: age of the oldest unanswered ping, or Paid
          late,         \* history: a ping stayed unanswered for an interval
          starved,      \* history: ping_sleep was an interval overdue
          sinceItem,    \* history: ticks since the exchange last sent an item
          sinceDial     \* history: ticks since the last dial

timers  == <<pingIn, sincePong, silentIn>>
marks   == <<late, starved>>
clocks == <<exchange, mayFork, phase, socket, timers, forked, attempts, wait, owed,
            marks, sinceItem, sinceDial>>

Paid == -1

Least(a, b) == IF a <= b THEN a ELSE b

\* a timer that has fired stays fired
Less(n) == IF n > 0 THEN n - 1 ELSE 0

(* ---- what the loop sees of a message ------------------------------------ *)

\* "item": handle_message returns one; "quiet": it returns none; "buffered":
\* it returns none and snapshot_needed() holds after it.
OkxFrames      == {"item", "quiet", "appPong", "serverPing"}
KrakenFrames   == {"item", "quiet", "appPong"}
BitstampFrames == {"item", "quiet", "buffered"}
BitvavoFrames  == {"item", "quiet"}

TextFrames == CASE exchange = "okx"      -> OkxFrames
                [] exchange = "kraken"   -> KrakenFrames
                [] exchange = "bitstamp" -> BitstampFrames
                [] exchange = "bitvavo"  -> BitvavoFrames

Frame == OkxFrames \cup KrakenFrames \cup BitstampFrames \cup BitvavoFrames
         \cup {"wsPing", "wsPong", "close"}

\* ping_msg: only Kraken is pinged in the application's protocol.
AnswerToPing == IF exchange = "kraken" THEN "appPong" ELSE "wsPong"

\* Plausible bug: the adapter leaves is_pong at its default.
ShowsLifeNoAppPong(frame) == frame \in {"wsPong", "serverPing"}

\* is_pong, server_ping_response and Message::Pong set last_pong.
ShowsLife(frame) == frame \in {"wsPong", "appPong", "serverPing"}

(* ---- leaving and dialling ----------------------------------------------- *)

\* powi, for a whole multiplier
Power[n \in Nat] == IF n = 0 THEN 1 ELSE Multiplier * Power[n - 1]

\* backoff_delay without its jitter
Backoff(failures) == Least(InitialBackoff * Power[failures], MaxBackoff)

\* Plausible bug: the jitter may shorten the delay.
DelaysSigned(failures) == {Backoff(failures) + j : j \in (-Jitter)..Jitter} \cap Nat

\* The jitter is drawn from -jitter_ms..jitter_ms, but the cast to u64 makes
\* its negative half 0.
Delays(failures) == {Backoff(failures) + j : j \in 0..Jitter}

SilenceDuration == IF Silence = NoSilence THEN 0 ELSE Silence

\* The variables of one connection: every timer starts anew.
Fresh == /\ socket' = <<>> /\ forked' = FALSE
         /\ pingIn' = Interval /\ sincePong' = 0 /\ silentIn' = SilenceDuration
         /\ owed' = Paid /\ late' = FALSE /\ starved' = FALSE /\ sinceItem' = 0

\* Close, count the failure, back off.  The connection's variables end here.
Leave == /\ phase' = "waiting"
         /\ attempts' = 1
         /\ wait' \in Delays(0)
         /\ Fresh
         /\ UNCHANGED <<exchange, mayFork, sinceDial>>

DialFails == /\ phase = "waiting" /\ wait = 0 /\ attempts < MaxAttempt
             /\ attempts' = attempts + 1
             /\ wait' \in Delays(attempts)
             /\ sinceDial' = 0
             /\ UNCHANGED <<exchange, mayFork, phase, socket, timers, forked, owed, marks,
                            sinceItem>>

Connects == /\ phase = "waiting" /\ wait = 0
            /\ phase' = "reading" /\ attempts' = 0 /\ sinceDial' = 0
            /\ Fresh
            /\ UNCHANGED <<exchange, mayFork, wait>>

(* ---- the select! of the read loop ---------------------------------------- *)

\* Plausible bug: an item postpones the next ping.
ReadPostponesPing ==
    /\ phase = "reading" /\ socket # <<>> /\ Head(socket) # "close"
    /\ socket' = Tail(socket)
    /\ sincePong' = IF ShowsLife(Head(socket)) THEN 0 ELSE sincePong
    /\ silentIn' = IF Head(socket) = "item" THEN SilenceDuration ELSE silentIn
    /\ pingIn' = IF Head(socket) = "item" THEN Interval ELSE pingIn
    /\ phase' = CASE Head(socket) = "item" -> "sending"
                  [] Head(socket) = "buffered" -> "fetching"
                  [] OTHER -> "reading"
    /\ UNCHANGED <<exchange, mayFork, forked, attempts, wait, owed, marks, sinceItem,
                   sinceDial>>

\* One frame: what shows life sets last_pong, an item restarts the silence
\* timer before it is sent on, a buffered delta may start a fetch.
Read == /\ phase = "reading" /\ socket # <<>> /\ Head(socket) # "close"
        /\ socket' = Tail(socket)
        /\ sincePong' = IF ShowsLife(Head(socket)) THEN 0 ELSE sincePong
        /\ silentIn' = IF Head(socket) = "item" THEN SilenceDuration ELSE silentIn
        /\ phase' = CASE Head(socket) = "item" -> "sending"
                      [] Head(socket) = "buffered" -> "fetching"
                      [] OTHER -> "reading"
        /\ UNCHANGED <<exchange, mayFork, pingIn, forked, attempts, wait, owed, marks,
                       sinceItem, sinceDial>>

ReadsClose == phase = "reading" /\ socket # <<>> /\ Head(socket) = "close" /\ Leave

\* tx.send returns; tx.closed() or a rejected send leave the loop.
Sent == /\ phase = "sending"
        /\ phase' = "reading"
        /\ UNCHANGED <<exchange, mayFork, socket, timers, forked, attempts, wait, owed, marks,
                       sinceItem, sinceDial>>

ReceiverGone == /\ phase = "sending" \/ (phase = "reading" /\ socket = <<>>)
                /\ Leave

\* fetch_snapshot_and_merge returns an item, nothing or an error.
Fetched == /\ phase = "fetching"
           /\ \/ phase' = "sending" /\ silentIn' = SilenceDuration
              \/ phase' = "reading" /\ UNCHANGED silentIn
           /\ UNCHANGED <<exchange, mayFork, socket, pingIn, sincePong, forked, attempts, wait,
                          owed, marks, sinceItem, sinceDial>>

\* keepalive_timeout
PingTimeout == 2 * Interval

\* The select! is biased: a timer is looked at when the socket is empty.
PingDue == phase = "reading" /\ socket = <<>> /\ pingIn <= 0

\* Less than a tick more may have passed than the clock here says.
PingTimesOut == /\ PingDue /\ sincePong >= PingTimeout
                /\ phase' = "raising"
                /\ UNCHANGED <<exchange, mayFork, socket, timers, forked, attempts, wait, owed,
                               marks, sinceItem, sinceDial>>

\* The RequestTimeout error has been sent, or refused.
Raised == phase = "raising" /\ Leave

Pings == /\ PingDue /\ sincePong <= PingTimeout
         /\ pingIn' = Interval
         /\ owed' = IF owed = Paid THEN 0 ELSE owed
         /\ UNCHANGED <<exchange, mayFork, phase, socket, sincePong, silentIn, forked, attempts,
                        wait, marks, sinceItem, sinceDial>>

PingFails == PingDue /\ sincePong <= PingTimeout /\ Leave

\* Plausible bug: the timers are looked at before the socket.
SilenceDueUnbiased == /\ phase = "reading" /\ pingIn > 0
                      /\ Silence # NoSilence /\ silentIn = 0

\* The silence timer, looked at after the ping timer.
SilenceDue == /\ phase = "reading" /\ socket = <<>> /\ pingIn > 0
              /\ Silence # NoSilence /\ silentIn = 0

\* The first silence starts a replacement and the old connection is kept.
SilenceReplaces == /\ SilenceDue /\ mayFork /\ ~forked
                   /\ forked' = TRUE
                   /\ silentIn' = SilenceDuration
                   /\ UNCHANGED <<exchange, mayFork, phase, socket, pingIn, sincePong, attempts,
                                  wait, owed, marks, sinceItem, sinceDial>>

SilenceLeaves == SilenceDue /\ (forked \/ ~mayFork) /\ Leave

(* ---- the exchange and the clock ------------------------------------------ *)

IsConnected == phase # "waiting"

\* Anything the exchange says of its own accord.
ExchangeSends == /\ IsConnected /\ Len(socket) < MaxSocket
                 /\ \E frame \in (TextFrames \ {"appPong"}) \cup {"wsPing", "close"} :
                       /\ socket' = Append(socket, frame)
                       /\ sinceItem' = IF frame = "item" THEN 0 ELSE sinceItem
                 /\ UNCHANGED <<exchange, mayFork, phase, timers, forked, attempts, wait, owed,
                                marks, sinceDial>>

\* One pong for all the pings so far.
ExchangeAnswers == /\ IsConnected /\ owed # Paid
                   /\ socket' = Append(socket, AnswerToPing)
                   /\ owed' = Paid
                   /\ UNCHANGED <<exchange, mayFork, phase, timers, forked, attempts, wait,
                                  marks, sinceItem, sinceDial>>

\* Nothing can be done at once: the loop awaits something, or sleeps.
Idle == \/ phase \in {"sending", "fetching", "raising"} /\ pingIn > -MaxLate
        \/ phase = "reading" /\ socket = <<>> /\ pingIn > 0 /\ ~SilenceDue
        \/ phase = "waiting" /\ wait > 0

Spacing == Least(InitialBackoff, MaxBackoff)

Tick == /\ Idle
        /\ IF phase = "waiting"
           THEN wait' = wait - 1 /\ UNCHANGED <<timers, owed, marks, sinceItem>>
           ELSE /\ pingIn' = pingIn - 1
                /\ sincePong' = sincePong + 1
                /\ silentIn' = Less(silentIn)
                /\ owed' = IF owed = Paid THEN Paid ELSE Least(owed + 1, Interval)
                /\ late' = (late \/ owed' = Interval)
                /\ starved' = (starved \/ pingIn' <= -Interval)
                /\ sinceItem' = Least(sinceItem + 1, SilenceDuration)
                /\ UNCHANGED wait
        /\ sinceDial' = Least(sinceDial + 1, Spacing)
        /\ UNCHANGED <<exchange, mayFork, phase, socket, forked, attempts>>

ClocksInit == /\ exchange \in Exchanges /\ mayFork \in BOOLEAN
              /\ phase = "waiting" /\ wait = 0 /\ attempts = 0
              /\ socket = <<>> /\ forked = FALSE
              /\ pingIn = Interval /\ sincePong = 0 /\ silentIn = SilenceDuration
              /\ owed = Paid /\ late = FALSE /\ starved = FALSE
              /\ sinceItem = 0 /\ sinceDial = Spacing

ClocksNext == \/ DialFails \/ Connects
              \/ Read \/ ReadsClose \/ Sent \/ ReceiverGone \/ Fetched
              \/ PingTimesOut \/ Raised \/ Pings \/ PingFails
              \/ SilenceReplaces \/ SilenceLeaves
              \/ ExchangeSends \/ ExchangeAnswers \/ Tick

ClocksSpec == ClocksInit /\ [][ClocksNext]_clocks

(* ---- properties ---------------------------------------------------------- *)

\* A connection is given up for its pongs only if the exchange left a ping
\* unanswered for an interval or the loop itself was kept from its timers
\* for one (the ping_sleep branch and last_pong): an exchange that answers
\* in time is never taken for a dead one, however the frames are mixed.
KeepsLiveConnection == phase = "raising" => late \/ starved

\* An exchange that shows no sign of life is noticed after three intervals
\* at the latest (not two, see NoticedInTwoIntervals), plus the time the loop
\* was kept from its timers: whatever else it sends, and through a fork as
\* well (the ping_sleep branch).
DeadIsNoticed == phase \in {"reading", "sending", "fetching"} =>
                     sincePong + pingIn <= 3 * Interval

\* What docs/adr/Core Architecture/ADR-024 says, "detected and reconnected
\* within keepalive_interval_ms * 2", and wsloop.rs:20 of the timeout; it does
\* not hold even if the loop is never late, since last_pong is compared only
\* when a ping is due.  Left
\* out is the case in which two intervals end just when a ping is due, where
\* the code compares a finer clock (PingTimesOut).
NoticedInTwoIntervals ==
    phase = "reading" /\ (sincePong + pingIn) % Interval # 0 => sincePong <= PingTimeout

\* The loop finds a channel silent only if the exchange really has sent no
\* item for the configured time; an item that waited in the socket while
\* the loop was busy counts from when it is read (the reset before tx.send,
\* the order of the branches).
SilenceIsReal == SilenceDue => sinceItem >= Silence

\* Two dials are never closer than the smallest backoff, whether the first
\* one failed or led to a connection that was lost at once, as long as the
\* multiplier is not below 1, which validate() does not ask (backoff_delay,
\* the reset of attempt).
DialsSpaced == phase = "waiting" /\ wait = 0 => sinceDial >= Spacing
=============================================================================
