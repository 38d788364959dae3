# A verification of cryptomeria-ingest

`cryptomeria-ingest` keeps WebSocket connections to four exchanges (Bitstamp,
Bitvavo, Kraken, OKX), maintains a local order book per instrument and hands the
application one stream of order-book and trade items.  This directory holds TLA+
models of the parts whose correctness depends on order and timing, the TLC runs
that check them on small instances, and TLAPS proofs of their main invariants.

Paths such as `wsloop.rs` mean `src/src/wsloop.rs`.  `PROJECT.json` maps every
definition to the lines it models.

```
tlc -workers 2 -config WsLoopSwaps.cfg MCWsLoop.tla     # a run
tlapm WsLoopProofs.tla                                  # the proofs of a module
```

## 1. Inventory

### The WebSocket loop and the stream handle (`wsloop.rs`)

*State.*  Per task: the connection, `attempt`, `auth_confirmed`,
`replacement_started` and the flag shared with the replacement, the timers
(ping, silence, drain), the adapter.  Per channel: an `mpsc` queue of 1024
entries, and a shared vector of join handles.

*Operations.*  `run_exchange_stream` makes the queue, spawns the first task and
returns a `StreamHandle`.  `run_ws_loop` repeats: connect, authenticate,
subscribe, `on_connect`, read, drain, close, `on_reconnect`, back off.  On
silence the first task spawns one replacement (`spawn_replacement_loop`) and
reads on; when the replacement has confirmed itself the old task returns.
`merge_stream_handles` moves the join handles of several channels into one
handle; `Drop` aborts every handle it finds.

*Hard.*  Two tasks feed one queue; a flag is read in three places of one task
and set in another; a full queue blocks a task in the middle of any branch;
`abort()` takes effect only at a yield; the `select!`s are biased; failures are
counted in five places.

*Correct when* the retry budget is exact, nothing is subscribed without
authentication, the old connection retires only for a working replacement,
drain and dialling come to an end, a stream does not end without a reason, and
dropping the stream leaves no task behind.

### The adapters (`bitstamp/`, `bitvavo/`, `kraken/`, `okx/`)

*State.*  The local book (bids, asks), what links it to the exchange's
numbering, a resync flag, the previously emitted item, and on Bitstamp and
Bitvavo a buffer of early updates.

*Operations.*  `subscribe_msgs`, `handle_message`, `on_connect`, `on_reconnect`,
`snapshot_needed`, `fetch_snapshot_and_merge`, `fresh_adapter`: all called by
the loop, one at a time, on one task.

| exchange | snapshot | numbering | on a gap or a crossed book | on reconnect |
|---|---|---|---|---|
| Bitstamp | REST, after `snapshot_delay` buffered deltas | microtimestamps, used at the merge only | book dropped | book dropped, deltas buffered again |
| Bitvavo | `getBook` on the same socket | `mdSeqNo`, updates carry a range | nothing | nothing (default hook) |
| Kraken | first message of the channel | consecutive numbers | gap: dropped; crossed: emptied | book dropped |
| OKX | first message of the channel | none checked | crossed: dropped | book dropped |

*Hard.*  Snapshot and updates come from different sources and overtake each
other; a fetch is awaited while updates pile up in the socket; what survives a
reconnect differs from exchange to exchange; one message is applied in two
halves.

*Correct when* the local book is the exchange's book at a known moment, no
crossed book is shown, nothing stale survives a gap, the items shown go forward
in time, and the last item catches up with the market.

### The rest

* **Startup** (`stream.rs`, `instrument.rs`, `config.rs`, `*/validation.rs`, `*/mod.rs`):
  `stream()` validates the configuration, asks the exchange for the instrument and
  for its fallback spellings one after the other, starts one loop per data kind
  and merges the handles.  *State:* the spelling being tried, the variants left,
  the loops started.  *Hard:* four exchanges answer in four ways, every error
  counts as a refusal, the caller may give up at any await, an exchange may never
  answer.  *Correct when* the symbol subscribed is a listed one, the most preferred
  listed spelling is found, each configured kind gets exactly one loop, and a failed
  or dropped call leaves nothing running.
* **Configuration and addresses** (`config.rs`, `urls.rs`, the hooks of `traits.rs`): defaults,
  deserialisation, the checks of `validate()` in their order, the endpoints of each region, and
  what a loop is given (`WsLoopParams`).  No state.  *Hard:* two panics (`urls.rs:64`,
  `wsloop.rs:526`) are kept away only by tables in different files that agree.
* **Items** (`items.rs`): the record of a book or of a trade.  *Hard:* four formats, each with its
  own optional fields, numbers that are strings, and defaults that look like data (price 0, side
  "buy").
* **Demo and logger** (`bin/demo.rs`, `logger.rs`): input and output only.

The hazards, each at its line, with the property that covers it or the reason
why none does, are in `PROJECT.json`.

## 2. Modules

| module | models |
|---|---|
| `Channel` | abstract specification: what a channel promises its consumer |
| `WsLoop` | one channel: the tasks of `run_ws_loop`, the queue, handles, merge, drop |
| `WsLoopProperties` | its properties, the inductive invariant, the mapping to `Channel`, the promise that fails |
| `MCWsLoop` | sizes for TLC |
| `Keepalive`, `MCKeepalive` | ping, pong, silence and backoff of one task, with a clock |
| `WsLoopProofs` | TLAPS proofs about the loop and its timers |
| `Market` | the exchange: the true sequence of books, and what an update says; `to_lob_item` and its filters, without sizes |
| `Replica` | abstract specification: what an order-book stream promises |
| `BitvavoSync`, `MCBitvavoSync` | one task of a Bitvavo channel: book, pending updates and emission |
| `BitvavoSwap`, `MCBitvavoSwap` | the same channel during a replacement: two tasks of `BitvavoSync`, one queue |
| `BitstampSync`, `MCBitstampSync` | Bitstamp's book, buffer, REST snapshot and merge |
| `GuardedBook`, `MCGuardedBook` | OKX's and Kraken's book with the crossing guard |
| `MarketProofs` | TLAPS lemmas on the market, a socket and the replay of a buffer |
| `BitvavoProofs`, `GuardedBookProofs`, `BitstampProofs` | TLAPS proofs |
| `LobBook` | the `OrderBook` all four adapters repeat, with prices and sizes: its two maps, the filters, the checksum, the items made of books and trades |
| `Okx`, `Kraken`, `Bitstamp`, `Bitvavo` | the adapter of each exchange as operators: message types, the book, every hook of `ExchangeAdapter` |
| `Adapters`, `MCAdapters` | one market followed by one of the four adapters |
| `AdapterLevels` | `Adapters` seen through the three modules without sizes |
| `AdapterProofs` | TLAPS proofs |
| `TradeFeed`, `MCTradeFeed` | the trades of one channel: the four adapters in the tasks of the loop |
| `TradeFeedProofs` | TLAPS proofs |
| `Config` | configuration, endpoints, the parameters of a loop |
| `Startup`, `MCStartup` | one call of `stream()`: validation, fallback spellings, the loops started |
| `StartupProofs` | TLAPS proofs |

`BitvavoSync`, `BitstampSync` and `GuardedBook` extend `Market`; what one task of
`BitvavoSync` shows implements `Replica` (`ShowsTrueBooks`), what a channel shows while two tasks
send to it does not.  `BitvavoSwap` extends `BitvavoSync` (the old task) and instantiates it once
more (the replacement).  `WsLoop` implements `Channel` (`ImplementsChannel`).
`Startup` is built on `Config` and ends where
`WsLoop` begins; `Keepalive` looks at one task of `WsLoop` through its timers.  `Adapters` and
`TradeFeed` instantiate the four modules of the exchanges, `AdapterLevels` also the three modules
with queues and delays, with which it compares `Adapters`.  The adapter modules contain the part
of the loop they depend on: that a connection is lost with the messages on it,
which hook is then called, when `snapshot_needed` is polled, and that nothing is
read while a fetch is awaited.  `WsLoop` in turn contains of the adapters what
the loop can see: whether there is authentication, an ack, a hook that returns
an item.

### WsLoop and the code

`pc[t]` is the await point of task `t`; `Root` is the first task, the only one
that forks (`enable_fork`).  Each action runs from one await point to the next.
What the socket delivers, when a timer fires and whether the network answers is
nondeterministic; so `ReadItem`, `ReadAck`, `ReadSnapshot`, `ReadEnds`,
`SilenceForks`, ... are the branches of one `select!`.  A `send().await` is a
state of its own (`"sendRead"`, `"sendDrain"`, ...): the task waits there until
the queue has room (`SendAccepted`) or the receiver is gone (`SendRejected`), and
`Resume` says where it goes on.  Four decisions to know of:

* `abort()` on a task that is being polled takes effect at its next yield.  The
  only poll with a visible effect in its middle is the fork, hence the states
  `"forking"` and `"spawned"` and the set `aborting`.
* `Drop` aborts the handles and drops the receiver in one step.
* A hook returns at most one item; `HookItems` stands for `on_connect` and
  `fetch_snapshot_and_merge` together, which allows more than any one adapter does.
  The fetch is an await point of its own (`"fetch"`): a REST call of `bitstamp/ws.rs` that may
  succeed, fail or never return, during which the task reads nothing and looks at no flag.
* `pc = "replaced"` is entered before `write.close()` has finished.

`attempt` saturates at `AttemptCap`, which matters only without a budget.

`Channel` says what the consumer of `stream()` may rely on and nothing of how: entries come in the
order they were sent, from tasks that were still running; a task that ends while it is listened to
says so with a fatal error or leaves to an heir, a task that is ready and runs or has given up
since.  The mapping is in `WsLoopProperties`: a task is *running* when it is spawned and at an
await point, *ready* when its `confirmed_flag` is set, and has *given up* when it returned after
`MaxReconnectsExceeded`.

### Keepalive and the code

Here time passes in ticks (`Tick`), and only where the code waits: in the `select!` with
nothing to read and no timer due, in a send, a fetch or the backoff.  Timers are
deadlines counted down; a timer that fell due while the task was blocked is looked at
when the socket has been emptied, because the `select!` is biased (`PingDue`, `SilenceDue`).
A frame is what the timers can tell apart: one that yields an item, one that does not,
one that starts a REST fetch, a pong of either protocol, OKX's own ping.  At exactly two
intervals `last_pong` may or may not have expired (`PingTimesOut` and `Pings` are both
possible), since the code compares a finer clock.  A ping or pong is written at once:
the write could block only with the TCP buffer full.  The drain and `on_reconnect` take no
time here; a replacement is only the flag `forked`.  In `backoff_delay` the jitter
is drawn from both sides of 0 but cast to `u64`, so that it only ever lengthens the delay
(`Delays`).

### The adapter modules and the code

A book is a **set of levels** `[side, price]`: sizes are abstracted to presence,
because every rule in question (removal at size 0, crossing, one-sided books,
repetitions) looks at presence; a change of size alone is therefore not modelled.
The exchange's books are `truth`, a sequence, and a
message carries the position in it that it describes, which is what `mdSeqNo`
and the microtimestamp are; Kraken's consecutive message numbers are separate.
`Market` and the delivery actions are external: they are what the code relies on,
namely that an update states the new value of every level touched since the last.

`Item(book)` in `Market` is `to_lob_item`: `None` unless the book has both sides, else the
levels that `max_level_pct` (`MaxLevelPct`) and then `max_level` (`MaxLevel`, 0 for
`None`) leave.  What is emitted is filtered, the local book is not, with one
exception the code makes on Bitvavo: `getBook` is asked for `max_level` levels
only, so there `Top` is applied to the snapshot as well.

`BitvavoSync`: `AppliedSnapshot`, `AppliedUpdate`, `Drained` are the three
functions of `bitvavo/lob.rs`; `HandleUpdate` and `HandleSnapshot` include
`emit_lob`.

`BitvavoSwap`: `Forks` starts the replacement with `fresh_adapter()`, on a connection of its own;
from then on both tasks read and send, in any order, to the queue whose last item is
`LastItem`.  The old task looks at the flag after a message, at the next silence and in the drain
(`Retires`, `NotConfirmedYet`), as `WsLoop` has it; if it gives up waiting it reconnects, and both
go on.  Before the fork the module is `BitvavoSync`, so its run checks both.

`BitstampSync`: `HandleDelta` is the order-book branch of `handle_message` with
the poll of `snapshot_needed`; `fetch` says which REST call is awaited,
`RestAnswers` picks the moment of the snapshot, up to `MaxLag` changes behind.

`GuardedBook`: one module for two nearly equal files.  `exchange` selects where
they differ: OKX flags a crossed book (`okx/lob.rs:257`), Kraken does not
(`kraken/lob.rs:249`) but tracks the sequence (`kraken/lob.rs:306`).
The lines named in the map are from either file; the counterpart is the
function of the same name in the other.

### The exchanges' modules and the code

`Okx`, `Kraken`, `Bitstamp` and `Bitvavo` are pure: an adapter is a record of its fields, and
`HandleMessage`, `OnConnect`, `OnReconnect`, `FreshAdapter`, `FetchSnapshotAndMerge`... give the
adapter afterwards and the items to send.  A message is a record of the fields the code branches
on.  A number of a message is a natural in tenths, or `Unreadable` (text that `parse::<f64>()`
refuses), `Absent` (the field is not there) or `Malformed` (the wrong JSON type); what becomes of
each differs by exchange and is what `TradeData`, `TradeItem` and `Parsed` say.  `LobBook` is the
code the four `lob.rs` repeat; where a file departs from it, its module says so.  Its loops over a message
and its sorted prices are recursive functions (`Folded`, `Among`, `Sorted`), so that proofs can unfold them.
A checksum is a hash of text (`Hashed`), and the two ends write a number differently: the
adapters write the parsed `f64` (`FormatNumber`), the exchange what it has, which for a number in
`Padded` ends in a zero the `f64` has lost (`ExchangeText` in `Adapters`).  So a sound book can fail
its checksum, as the comments at `okx/lob.rs:298` and `kraken/lob.rs:396` say.

`Adapters` gives one of them the market's messages at once, so that it is the data that is checked:
sizes, filters, checksums, entries that are no numbers, a lost update, a reconnect.  The action
property `AgreesWithLevels` of `AdapterLevels` ties these modules to `GuardedBook`, `BitstampSync` and `BitvavoSync`:
each step changes the set of levels exactly as the operator of that module does.  What was shown there
of sets of levels, with queues and delays, is therefore about the same functions.

`TradeFeed` puts them into two tasks of the loop, the first and its replacement, through
batches, refused subscriptions, lost connections and a handover.  The queue, the budget,
authentication and the end of the channel are left to `WsLoop`.

### Startup and the code

A configuration is the record of `config.rs`; `Config` gives the checks of `validate()` in their
order and `ChannelLoop` the parameters of each loop, hooks included.

A spelling of an instrument is its base, separator, quote and case.  An action is
what happens at one await of the call: the exchange's answer (`Answered`), any
failure (`Fails`, which the code only warns about before it goes on to the next
variant), Kraken's own timeout (`KrakenTimesOut`), the caller dropping the future
(`CallDropped`).  `TryNext` is the body of the loop of `validate_with_fallback`;
`Start` is everything after it, in one step because nothing in it awaits.  Bitstamp
compares and subscribes with its normalized symbol (`Normalized`); its list
contains such symbols only, which `Init` states.

Variables marked *history* (`viewAt`, `synced`, `lost`, `since`, `seeded`, `at`,
`handled`, `intact`, `thrown`, `fatalSeen`, `fed`, `unanswered`,
`owed`, `late`, `starved`, `sinceItem`, `sinceDial`, `sender`) are read by properties only.

## 3. Runs

Passing runs:

| run | what it shows | size |
|---|---|---|
| `session` | one task with a budget of two, authentication and acks: the retry budget is exact, only a confirmed subscription restores it, nothing is subscribed unauthenticated; the drain ends, an outlived connection is given up unless a REST answer stays out, and dialling ends if each dial does | 31 000 |
| `swaps` | two tasks and a merge: the old task leaves only for a confirmed heir with data, one fork per connection, no task survives the drop; the loop implements `Channel`, which includes that its end is announced | 654 000 |
| `bitvavo_swap` | a book is the exchange's once synced, what a task shows was true and goes forward (`ShowsTrueBooks`, a refinement of `Replica`) even while two send to one queue, a replacement inherits nothing, the channel catches up unless the last word was a retired task's | 257 000 |
| `bitstamp_sync` | the merge is exact, deltas in flight during the fetch repair the book, no crossed item, what is shown is the book | 896 000 |
| `guarded_book` | OKX and Kraken: never crossed, only refused or wiped levels are missing, a gap drops the book, what is shown is the book | 527 000 |
| `startup` | the symbol subscribed is listed, the best spelling is chosen, one loop per configured kind, no panic, Kraken's call returns | 49 000 |
| `keepalive` | a live connection is kept, a dead one is noticed, a swap needs real silence, dials are spaced | 1 529 000 |
| `adapters` | the four adapters with prices and sizes: the item is the filtered book, the book shown is the exchange's, a checksum fails only over a book that strayed or a number the exchange writes otherwise, each step is that of the module with queues | 538 000 |
| `trade_feed` | a trade is missing only for a reason, its number tells it apart, items tell trades truly, a handover waits for an accepted subscription | 1 930 000 |

Runs that refute a statement of the repository:

| run | statement | what happens |
|---|---|---|
| `merged_drop` | the shared handles cover every live task (`wsloop.rs:28`) | after the merge a new replacement is pushed to the emptied set; the drop misses it |
| `bitvavo_reconnect` | no gaps or stale snapshots (ADR-016) | the old book gets the new subscription's updates until the snapshot comes |
| `bitstamp_wiped` | a wiped book awaits a snapshot (`bitstamp/ws.rs:296`) | deltas queued during the fetch are applied unfiltered, cross the book, and the emptied book is shown again from deltas alone |

More statements the models refute, each a definition next to the properties.  They have no cfg of their own:
put as the only property of the run named, with the bounds of that run, TLC finds each violated within
seconds.

| statement | definition, run | what happens |
|---|---|---|
| dropping the stream aborts all tasks (README:744) | `DropLeavesNoTask`, invariant, `swaps` | the drop falls between the spawn of a replacement and the push of its handle (`wsloop.rs:937`), with `Merging = FALSE` as well |
| only the replacement is left running (ADR-027:26) | `LeavesReplacementRunning`, `swaps` | the replacement confirmed itself, then used up its budget; the old task sees the flag and leaves too |
| two connections only briefly (ADR-027:46) | `TwoOnlyDuringSwap`, invariant, `swaps` | the drain is given up, the old task reconnects, the replacement is not stopped: both feed the channel for good |
| the old connection goes once the new one receives market data (ADR-027:15) | `RetiresToActiveFeed`, `bitvavo_swap` | the ack confirms the replacement, the old task leaves, and nothing is shown until `getBook` is answered |
| a dropped book emits nothing before the next snapshot (`kraken/ws.rs:154`, `okx/ws.rs:136`, `kraken/lob.rs:31`, ADR-020:99) | `AwaitsSnapshot`, `guarded_book` | OKX and Kraken stay connected, where no snapshot comes; updates fill the empty book, which is shown once it has two sides |
| a dead connection is noticed in two intervals (ADR-024:187; `wsloop.rs:20`, `33`) | `NoticedInTwoIntervals`, invariant, `keepalive` | the age of `last_pong` is looked at once per interval only and must exceed two: it takes up to three, with an `Interval` of 3 and a `MaxLate` of 0 as well, so however punctual the loop |
| bids descend, best first (`items.rs:47`, README:152) | `BestBidFirst`, invariant, `adapters` | they ascend, on all four exchanges; `ItemIsFiltered` leaves the direction open |
| the trade counter persists, only a process restart resets it (README:176, ADR-007:82) | `NumbersGoUp`, invariant, `trade_feed` | a replacement has a fresh adapter and numbers from 1 again in the same stream; `NumbersTellTrades` is about one task's numbers |

*Bounds.*  One swap is enough for every interaction of two tasks; two are needed
for a replacement forked after another one has failed.  A budget of two is the
smallest in which "one too many" and "one too few" differ from "at once".  A
queue of one entry makes every send wait.  Three prices are the smallest number at
which a two-sided book has more than one shape: with two, the only two-sided book
is the opening one.  Three or four changes of the market put a change before,
inside and after the snapshot; one reconnect and one fault of each
kind put each against everything else.  The two tasks of `BitvavoSwap` have two feeds, two
sockets and two books: a swap comes within the first change of the market (`MaxSwapMoves`) and each task may lose one
connection; without a swap there are three changes.  A second replacement is left to `WsLoop`.  `bitstamp_wiped` uses two prices and
seven changes because the shortest way to it is long.  With prices 1 to 3 a `MaxLevelPct` of 40
removes the second level of a side in some books and keeps it in others; a `MaxLevel` of 1
always does.  An interval of two ticks lets a pong be early or late
in it, a silence of three falls before, on and after the ping, and the ping timer may be up to one
and a half intervals overdue.  Up to two listed symbols are enough for a wrong preference to show.
In `adapters` the checksum covers one level of a side (ten in the code), so that levels outside it
exist; six filters, with a zero, a negative and a combined one, are asked of every book, whichever
of two the adapter runs with.  One of the two sizes is in `Padded`, so that checksums over rewritten
numbers and over others both occur.  Three trades make a batch of two followed by another trade; one of
them is the odd one, in turn unreadable, of the wrong type, or without price and side.
The bounds are the
constants `Max...`, `AttemptCap` and `ChanCap`, each commented where it is declared.

*Deadlock* is checked for `WsLoop`, where `Finished` is the only legal end, for
`Startup`, where it is `Ended`, and for `Keepalive`, which has none.  The
adapter modules, `Adapters` and `TradeFeed` stop when the bounds on the market and its faults are
used up, so there it is off.

*Fairness.*  `WsLoop`: weak fairness for each group of steps of a task (the
runtime polls a task that is ready) and for the consumer as long as it keeps the
stream; strong fairness for a send (the queue serves waiting senders in order)
and for the timers of the authentication wait and the drain.  The last is an
assumption about the exchange, not a consequence of the code: the `select!` is biased to
the socket, so a timer is seen only when the socket is empty, and a connection
that is never empty starves it.  Nothing is assumed about answers: `connect_async`, the
REST call of a fetch and the hooks have no timeout in the code, so a task that awaits one of
them (`AwaitsAnswer`) may wait forever.  The two properties that would then fail say so:
`OldConnectionGivenUp` supposes that no fetch of the old task stays out for good, `DiallingEnds` that no
dial does.  Nothing is assumed of when the consumer drops the stream.  `BitvavoSwap`: the
exchange publishes the changes of a connected feed, each task handles what it has received, and does not stop between a message and the look at the flag.  That `getBook` is
answered, a connection made or a replacement confirmed is not assumed;
`ChannelCatchesUp` claims something only of tasks that have their snapshot.  `Startup`: the local steps and
Kraken's timer; the REST validations have no timeout, so no return is claimed for them.

*What the conditions of the properties leave out.*  `ExactWhenSynced`,
`ShowsTrueBooks` and `ChannelCatchesUp` hold unless changes were thrown away (`lost`): a
snapshot older than the book, or an update that begins before the snapshot and
ends after it, is lost in the code, silently.  In the overlap of two Bitvavo tasks an item may be
older than the one before it, from the other task; `ShowsTrueBooks` and `StartsClean` claim order per
task only, and `ChannelCatchesUp` leaves out a channel whose last item came from the retired task.
`ViewIsBook` of `GuardedBook` says that what is shown is the book, not that a book rebuilt after
a drop should be shown (`AwaitsSnapshot`).  `MergeIsExact` and
`InFlightRepairs` leave out a REST snapshot older than the subscription.
`OnlyThrownMissing` allows exactly the levels the guard refused or the repair
wiped.  These are weaknesses of the code stated as hazards.

Three things the models taught.  A slow consumer can make a live exchange look dead: blocked in
`send` past the time of the next ping, the loop finds `last_pong` too old before it has sent that
ping; `KeepsLiveConnection` gives the limit: the ping timer may be less than one interval late.  With a REST endpoint that is never behind the
socket, Bitstamp's replay is never needed: every buffered delta is already in the
snapshot.  And two tasks on one queue give up the order of the items for the time of the swap,
which no document mentions: a Bitvavo consumer may be left with the retired task's older book until
the market moves.

Disagreements with the documents that the models simply follow.
On Bitvavo `getBook` is asked for `max_level` levels, so the local book is cut and not only the
item (README:761); `TopOfDepth` in `Adapters` is this cut.  Kraken and OKX apply bids before asks, and the
guard refuses a bid where the same update removes the ask (`kraken/lob.rs:264`);
`OnlyThrownMissing` allows for it.  README:726 says a task shuts down when its receiver is gone;
it takes the path of a failed connection (`wsloop.rs:871`).  README, ADR-017 and ADR-022 still call
Bitstamp's order book disabled; the code enables it, as ADR-026 says.

## 4. Proofs

All proved for every value of the constants, from the assumptions named in the
modules (`ConstantsAssumption`; `MarketAssumption` and `GuardAssumption`;
`StartupAssumption`, `KeepaliveAssumption`, `TradeFeedAssumption`, `AdaptersAssumption`).

**`WsLoopProofs`** (for any number of tasks, any budget, any capacity):
`TypeCorrect`, `BudgetCorrect`, `AuthCorrect`, `RetirementCorrect`,
`HandoverCorrect`, `EndCorrect`, `DropCorrect`, `BudgetRestoreCorrect`,
`ForkCorrect`.  The inductive invariant `IInv` (in `WsLoopProperties`) adds to
the properties four facts:

* `Links`: only `Root` forks, drains or retires, and then it has a replacement.
  Type correctness needs it, since `child` indexes other functions.
* `EndsExplained`: while the receiver is held, every ended task retired or left its
  fatal error in the queue or with the consumer.  `EndIsAnnounced` speaks of the
  last task only and is not inductive.
* `HandlesCover`: until the merge, each live task is in the shared set or is the one
  being pushed.  `DropIsClean` is a property of a step and follows from it.
* `ConfirmedByData`: without acks a confirmed replacement has data.

Each conjunct has its own lemma (`...Inductive`), one case per action.

`ImplementationCorrect` (same module): `Spec => ImplementsChannel`, for every constant.
The initial state maps to the initial state; each group of actions (`SessionRefines`,
`DrainingRefines`, ...) maps to a step of `Channel` or a stutter.  Most steps of a task cannot be told
from a stutter (`MovesOn`).  The step that matters is `Retires`: a task that leaves must
have an heir.  It is the task it forked (`Links`), which has confirmed itself, and by
`EndsExplained` a confirmed task that has ended while the receiver is held has given up or
has been replaced; only `Root` is ever replaced, so it has given up and said so.

`SilenceIsExplained` (same module) carries over what `Channel` is worth: its every behaviour keeps
`NeverJustSilent` (`PromiseIsKept`), so the loop does.

The timers, `Keepalive` (same module; for every interval, silence time, backoff and bound):
`KeepsLiveConnectionCorrect`, `DeadIsNoticedCorrect`, `SilenceIsRealCorrect`, `DialsSpacedCorrect`.  The
invariant `ClocksInv` keeps two sums that time does not change: an unanswered ping is as old as
the time since the ping timer was set, and if none is unanswered then the last sign of
life is not older than that, or is still in the socket (`PingsAccounted`); what is left
of the silence timer and the time since the exchange's last item make up the silence
time, unless that item is still to be read (`SilenceAccounted`).  For the dials, what is left of the
wait and the time since the last dial make up at least the `Spacing` of that dial; that a longer
row of failures never has a shorter delay needs the powers of the multiplier to be at least one (`PowerFacts`), which
`KeepaliveAssumption` asks and `validate()` does not.

**`BitvavoProofs`** (of one task, for any market and any number of reconnects, with
`max_level = None`: with a limit `getBook` cuts the snapshot and the book is not the exchange's):
`ExactWhenSyncedCorrect`, `ShowsTrueBooksCorrect`.  The buffer is replayed by induction: the library's
`WFMin` on the naturals gives `UpTo`, an induction with a set in place of a predicate, and
`ReplayExists` the states between the updates (`MarketProofs`).  The inductive invariant says where
each change is until the snapshot is handled.  A socket holds updates in order and without a gap
(`Feed`); they go on from the changes `Starts`.  `Reaches(k)`: a book after change `k` misses
nothing of what is still to come.  `BufferOK`: each buffered update goes on from the one before it,
or begins at a change the snapshot includes.  `AwaitOK`: what has been read already is
in the snapshot, in the buffer or in the old book.  From these the replay ends at a change
that is reached, or it cut an update, which is what `lost` remembers.

**`GuardedBookProofs`** (for any set of prices, any opening and any number of
faults, reconnects and moves): `GuardTypeCorrect`, `NeverCrossedCorrect`,
`GapDropsBookCorrect`, `ViewIsBookCorrect`, `OnlyThrownMissingCorrect`.  Lemmas say what each stage of `process_msg` returns
(`RepairedFacts` ... `ProcessedFacts`); the rest is bookkeeping of the socket.
`GapDropsBook` is strengthened to `SequenceFollows`: as long as Kraken's book
stands on a snapshot, `last_sequence` is the number of the last handled message,
and a lost connection leaves no number behind.  Without it a gap just after a
reset could go unseen.  `OnlyThrownMissing` needs `FeedTells`: on OKX, and on Kraken as long as the
numbers are consecutive, each update in the socket leads from the change of the message before it to its
own; what the guard refuses or the repair wipes on a side is then the only difference there.

**`BitstampProofs`** (for any filter, snapshot delay and lag): `BitstampViewCorrect`: once seeded, a book that
can be shown is the one last shown, filtered.  `prev_lob` is what suppresses an
item, and it is the previous item itself, so nothing is suppressed that differs.

`MergeCorrect`, `InFlightCorrect` and `NoCrossedCorrect` rest on a second invariant, `BookInv`.  The
buffer starts at the subscription and has no gap (`BufferOK`), so each step of the replay goes from
one book of the exchange to the next (`MergedExact`, by the same induction).  `TellsOK` and
`SeededOK` speak of single levels: a level no delta in the socket tells is now as it was after any
change the socket goes on from, and the merged book agrees with it.  That is why deltas older than
the snapshot, which the code applies unfiltered, do no lasting harm: `InFlightRepairs` is
`SeededOK` carried through the socket.

**`StartupProofs`** (for any configurations and any list): `SubscribesListedCorrect`,
`LoopsMatchConfigCorrect`, `NeverPanicsCorrect`, `ChoosesBestCorrect`.  The inductive invariant adds to the two properties
that a streaming call has passed `Valid`, from which its exchange is known and its region has
endpoints (`AcceptedFacts`, `HooksFacts`), and that
Bitstamp's list holds normalized symbols; the first property rests on the answer being checked against the very
spelling that `Start` then uses.

`ChoosesBestCorrect` relates two orders: the ranks of `Ranked`, as the repository's README gives them, and the
positions the three nested loops produce.  A combination's number is `Place(Q, S, b, q, s)`; `Division` and
`PlaceDigits` take the number apart into the digits `Combination` reads, and `PlaceOrder` says that a smaller
rank has a smaller number.  `PushedUpTo` says of the sequence with one spelling left out that the
predecessors of an element are among the first variant and the elements before it.  `Searched` is the invariant:
while the exchange answers, all variants before the candidate have been refused.

**`TradeFeedProofs`** (for any trades, one of them like one of `Quotes`, and any number of losses and
refusals): `NothingElseMissing`, `ItemsAreTrue`, `NumbersAreRight`, `RetiresOnlyForAccepted`.  Each
exchange has lemmas on its `handle_message` and `subscription_confirmed`: `...HandlesTrade` (which item a trade message gives and what
becomes of the adapter), `...Answers` (an acknowledgement or a refusal gives none).  Of `MissingIsExplained` the step that
matters is reading a message: what was on the wire is now delivered, or was not the first of its
message, so the invariant has to know that all but the first trade of each message still on a wire are in `tails`
(`Messages`).  `ItemsOK` says that an adapter is the one it was at first but for the number of items it
made, the same through every reconnect, which gives the numbers and the contents; `HandoverOK` that before the exchange accepts the
replacement it has sent it nothing but refusals, from which no answer on the way can confirm it.

**`AdapterProofs`** (for each exchange; for any prices and sizes, any `max_level` and `max_level_pct`, any
configured filters, opening book, snapshot delay and checksum depth, and any number of moves, reconnects and
faults): `ItemIsFilteredCorrect`, `ShowsBookCorrect`, `ChecksumTellsCorrect`.  The invariant is `DataInv`:

* `Adapts`: the adapter is one of its exchange and its book has two finite sides (`IsSide`), whatever a
  message held.  Finiteness is what makes a best bid, a sorted side and its top `max_level` exist.
* `Current`: the consumer's last item is the book as it is now, which is `ShowsBook` at any time.  It is not
  inductive by itself, since `emit_lob` compares with `prev_lob`; `Sent` adds that `prev_lob` is that last item.
* `Unsent`: while Bitstamp owes or awaits its REST snapshot, its book is empty and `prev_lob` is `None`.  The
  item of a merged snapshot is not kept in `prev_lob` (`bitstamp/ws.rs`), so an older one would break `Sent`.
* `Uncrossed`: a book crosses only on Bitvavo, which has no guard, and only once it differed from the
  exchange's.  This is what `ItemIsFiltered` needs for the spread.
* `MarketOK`: the exchange's own book is well formed and never crossed.

`ChecksumTells` is a property of steps and is shown of each step from `DataInv` (`StepsTell`): if the
adapter's book is the exchange's and the checksum covers no number in `Padded`, both hash the same
text (`TextsAgree`), so a failure needs a book that strayed or such a number.  It holds for every
set `Padded`, including that of all numbers, where it claims nothing of a sound book.

Three layers of lemmas carry it.  *Lists:* `ListIsSorted` (`Sorted` lists a finite set once, ascending),
`RunExists` and `RunStays` (a fold passes through states that keep what each element keeps), `AmongPicks`.
*Filters:* `ItemFacts` says of `to_lob_item` for any book and filter that the item has exactly `KeptPrices`:
the distance filter keeps the best level of each side (`BestIsKept`), so the best `max_level` of what it keeps begin at
the best price, from which `mid` and `spread` are taken (`EndsAreBest`).  *Adapters:* one lemma for each stage of each
`handle_message` (`OkxProcessed`, `KrakenRepaired`, `BitstampMerged`, `BitvavoUpdateHandled`, ...), joined per
exchange in `OkxTakes` ... `BitvavoTakesUpdate`.  Then one lemma per action of `Adapters` (`SnapshotKeeps`,
`UpdateKeeps`, `RestKeeps`, ...).

*Only model-checked:* the liveness properties, `ChannelCatchesUp` among them, which are out of the prover's
reach; the replacement on Bitvavo (`StartsClean`); and `AgreesWithLevels`, which compares the two descriptions of each adapter step by step and would need
both written out as one.

## 5. Not modelled

* The demo binary and the logger: command line, signals, log set-up.
* Text: the layout of JSON and of item summaries, log lines and the switches that only gate them,
  the bytes of Bitvavo's signature.  Floating-point rounding: prices and sizes are tenths.  Of the text
  of a checksum, everything but trailing zeros: levels, order and moment are modelled.
* The `group=` of Bitstamp's REST call, which is set to `max_level` (`bitstamp/ws.rs:153`): what the
  exchange makes of it is not in the repository.
* `apply_order` and `rebuild_price_level` (`bitstamp/lob.rs`), which no message reaches, and the
  accessors `lob_snapshot`, `lob_update` and `as_f64`, which only tests call.
* Real time is modelled in `Keepalive` only; in `WsLoop` a timer may fire at any moment.
* A socket that is never empty, which would starve the timers (see *Fairness*).
* Panics inside a dependency, and a task whose runtime is shut down.

Four hazards in `PROJECT.json` have no property of a run, each with its reason: the code does what the
hazard says and no line of the repository promises otherwise, or the promise is one of those refuted in
section 3.

## 6. What could follow

1. `StartsClean` as a theorem, from the invariant of `BitvavoProofs` for each of the two tasks.
2. Several channels under one handle: `MergedStream` as a composition of `Channel`s.
3. `AgreesWithLevels` as a theorem, from what each stage of `handle_message` does to the set of levels.
