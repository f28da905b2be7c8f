# market-workbench: verification project

TLA+ models of the parts of market-workbench where order, failure and
concurrency matter: the chart pipeline from the Bybit ingest to MySQL and to
the browser, the bot's detection of closed bars, its record of its positions
and their overlay on the chart, and what a user controls: the zones and the
order switches. TLC checks each model on small instances. TLAPS proves, for
every value of the constants, all the safety properties the passing runs check:
those of the storage worker, the publisher, the fan-out and the zones; that the
bot evaluates every bar it has seen once, in order, and announces what it has
stored; that its records account for the exchange's position, agree with MySQL
and survive a restart; and that an overlay ends up as the exchange's position
and a browser shows the overlays the server has, each with the exceptions it
names. Liveness is TLC's alone.

Paths below are relative to `src/backend` unless they say otherwise.

## 1. The system

Two processes and a browser, joined by NATS JetStream, MySQL, HTTP and
WebSockets:

    Bybit public WS -> ingest service -> publisher -> JetStream CHART_PARTIAL, CHART_CRITICAL
                                                        |                |
                                  gateway (API process) +----------------+
                                     | live candle state, /ws/chart-candles -> browsers
                                     |                                   |
                                     |                     storage worker(s) -> MySQL candles
    bot process: candle detector --HTTP rest-confirmed--> API
    bot process: private WS (execution, position) -> execution store -> JSON file, MySQL positions/fills
    bot process --HTTP--> API: position overlay notices, zone deltas -> browsers
    bot process and API --> MySQL zone_state, zone_projection
    API --/ws/control notice--> bot process --> MySQL strategy_flags

| Component | State it keeps | Operations | What is hard | What makes it correct |
|---|---|---|---|---|
| storage worker `app/api/services/chart_nats_final_durable.py` | JetStream consumer, `chart_event_dedupe`, `candles` | setup, fetch, validate, write, ack/nak/term | crash between commit and ack, redelivery, several workers, lost answers | each valid event applied once; settled means durable |
| publisher `.../chart_broker_shadow.py` | two bounded queues, one task, a connection | enqueue, take, send, retry, connect, close | full queues, timeouts, lost answers, shutdown | finals accounted for, stream order, one copy per window, close ends the task |
| ingest `.../chart_ingest_shadow.py` | WS reader, compare statistics | parse, enqueue, shut down | reconnects | every parsed event offered in order |
| gateway `.../chart_nats_active_gateway.py` | two pull consumers | connect, fetch, handle, ack | two loops, left-over loop after a failure, redelivery | state never goes back |
| fan-out `app/api/ws/chart_candles.py` | live state, finalized bars, last seq, clients | upsert, reconcile, subscribe, unsubscribe, broadcast | overlapping broadcasts, subscription between them | newest state reaches every subscriber |
| shadow subscriber `.../chart_nats_shadow.py` | counters | compare | | statistics only |
| candle detector `core/ws/candle_detector.py` | pending klines, last confirmed end | in-progress upsert, confirm, monitor, delayed REST check | awaits inside iteration, late REST answers | one final candle per bar, corrected by REST |
| candles repo, backfill | MySQL `candles` | upserts | several writers of a row | final values win |
| execution store `core/ws/handlers/execution_handler.py`, `position_handler.py`, `core/trading/execution_store_ops.py`, `core/persistence/execution_store.py`, `positions_repo.py`, `main.py` | records in memory and in a JSON file, `positions`, `fills`, zone switch | entry, close, TP, SL, size message, restart reconciliation | writes one after the other, lost and reordered messages, shared keys | records follow the exchange, and the copies agree |
| order executor `core/trading/order_executor.py` | none | REST orders | side already open | sizes taken from the right record |
| zones `core/persistence/zone_state_repo.py`, `zone_projection_repo.py`, `app/db/crud.py`, `app/api/router.py` | `zone_state`, `zone_projection` | upsert, break, deactivate, user edits | two tables, concurrent edits | projection equals source |
| position overlay `app/api/ws/position_overlay.py`, `core/notifications/position_overlay_notify.py`, `app/api/router.py` | overlays in memory, in each browser | update, patch, clear, snapshot, broadcast | records that share one overlay, notices over HTTP out of order, requests over several awaits, overlapping broadcasts, restart | the overlay is the exchange's position, the browser's is the server's |
| order switches `app/api/router.py`, `app/api/ws/control.py`, `core/ws/strategy_flag_push_listener.py`, `core/config/config_utils.py` | `strategy_flags`, a cache in the bot | set, notify, listen, read again | lost notices, failed readings | the bot does not go on with old switches |
| WS template `core/ws/ws_template.py` | connection, ping and reconnect tasks | connect, authenticate, read | leaked tasks, dropped messages | |
| OTP, config watcher, watchdogs, logs, Telegram, UI shells, research tools | small or none | | | not modelled |

`PROJECT.json` lists every component with its status, and under `hazards`
every point of this code that a test would hardly reach, at its line.

## 2. Modules

| Module | Models |
|---|---|
| `ExactlyOnceStore` | abstract specification: an offered event is applied at most once, atomically with its row |
| `ChartStorage` | storage worker, its consumer and its two tables; implements `ExactlyOnceStore` |
| `ChartPublisher` | queues, publisher task, connection, streams, shutdown |
| `ChartFanout` | gateway loops, live state, broadcasts, clients |
| `ExecutionStore` | private stream, handlers, file, MySQL rows, restart |
| `CandleDetector` | stream reader, missing-confirm monitor, REST checks, `candles` row and file |
| `PositionOverlay` | the overlay of a position at the exchange, in the bot's records and at the API |
| `OverlayFanout` | the API's overlays, its broadcasts and replies, and what the browsers show |
| `ZoneState` | `zone_state` and `zone_projection`, written by bot and API |
| `StrategyFlags` | the order switches: table, notices, listener, cache |
| `ControlPlane` | `ZoneState` and `StrategyFlags` composed: one API process, shared faults |
| `ChartStorage_proofs`, `ChartPublisher_proofs`, `ChartFanout_proofs`, `ExecutionStore_proofs`, `CandleDetector_proofs`, `PositionOverlay_proofs`, `OverlayFanout_proofs` | theorems about the module they are named after |
| `ControlPlane_proofs` | theorems about `ZoneState` and about `ControlPlane` |
| `MC*` | instances for TLC |

### ChartStorage

A worker's program counter follows `consume_once` and `write_event`:
`fetch`, `handle` (validated, before the insert), `upsert` and `commit`
(inside the transaction), `ack`. `dedupe` and `candles` are the *committed*
rows. InnoDB's row locks are guards (`DedupeRowFree`, and the bar in
`UpsertCandle`). JetStream is modelled from the consumer settings the code
passes: explicit ack, `ack_wait`, `max_deliver`, `max_ack_pending`, policy
`all` or `new`, subject filter. Time is abstracted: a nak with a delay leaves
the message pending and `AckWaitExpires` ends the wait either way. Faults:
a statement fails, a commit's answer is lost, an ack is lost, a process dies,
`ack_wait` runs out under a busy worker.

The workers are not the only writers of `candles`: the bot's detector upserts
the same rows from its stream and from REST, and so does `backfill_candles.py`.
`OtherWrites` puts such a row over any bar at any time a transaction does not
hold it, and `OtherCandle` is a row with another source. `TablesAgree` therefore
speaks of this path's writes: a dedupe row has a candle, this path's or one put
over it, and a candle with this path's source has its dedupe row.

### ChartPublisher

Events are numbered as the ingest service sees them. `Accept` and `Refuse`
are `enqueue_event`; `Take`, `Connect`, `Send`, `Succeed`, `Timeout`,
`AttemptFails` are the stages of the one publisher task. `close()` has a step
for each of its waits: `BeginClose`; the poll of the queues until they are empty
or the deadline has passed, which ends in the cancellation (`CancelTask`); the
wait for the task, without a timeout (`TaskCancelled`); and the drain of the
NATS connection, without one either (`FinishClose`). A cancellation is raised
where the task waits. One that meets the answer to a publish is dropped by
`asyncio.wait_for` of Python 3.10, and the task runs on (`CancelDropped`).
`ServerReceives`, `Answer`, `ConnectionDrops` and `WindowExpires` are the server
and the connection.

### ChartFanout

One event loop: a step is the code between two awaits. `_STATE_LOCK` is
never held over an await, so it orders nothing beyond that. A broadcast is a
task with a set of clients still to be sent to; a client's sends return in
order. The loop that `asyncio.gather` leaves behind after a failure keeps
working on its batch, as in the code.

### ExecutionStore

One symbol and side. The handlers do not await, so a message's effect on
memory is one step; its outside writes (file, rows, zone switch) are queued
in the order of the code and done one by one, so that a crash can fall
between any two. A fill's label is `TP_<second>`, `Manual_Reduce_<second>`,
`SL` or the exit label, and booking under an existing label replaces it, as
the Python dictionary does. The size taken for the truth is
the smaller of the stored and the recalculated one. Closing orders carry
keys that are never record keys, so `resolve_position_key_for_close` comes to
the newest open record of the side; size messages go to the manual record
first. The fallbacks to `current_position_link_id` and
`last_execution_order_id` can never be reached (whatever they could return is
a candidate already) and are left out, and so is
`_recover_zone_position_key`, which has no candidate when resolving failed.

The exchange executes an order in one or two fills and reports fills and
size. In the passing run the fills of an order carry different seconds
(`SameSecond = FALSE`) and the size follows the fills
(`PositionFirst = FALSE`); the two violation runs lift one assumption each,
and the theorems of section 4 say which property needs which.

### CandleDetector

One interval (the intervals share nothing). The reader (`handle_kline`), the
monitor (`monitor_pending_candles`) and one check per evaluated bar
(`delayed_rest_check`) are tasks of one event loop; a step is what happens
between two awaits, and each awaited thread call that writes the row or the
file is a step of its own. `Claim` is the test and the move of
`last_confirmed_end` that both callers of `print_candle` do before they await
anything. `save_candle_to_file` rewrites the whole file of the interval in a
thread: `ReadFile` copies it to the writer, `Save` replaces it by the copy with
one bar changed, and what other threads saved in between is gone. `overlapped`
names the bars saved while another thread had the file read; what becomes of
them in the file is not asserted, and it takes two saves at one time, such as a
check that hung for about a bar. Keys of `pending_kline_map` are never removed by a confirm, only by
the monitor, as in the code; the walk of the monitor raises when the set of
keys has changed (`MonitorFile`), and nothing starts it again.
`upsert_candle_from_rest_verify` is a read (`Compare`) and a write (`Repair`).
Faults: an upsert fails (logged), the file cannot be written (the reader
drops the check, the monitor ends), a check's request or write fails, the
process dies. Time is abstracted to the order of events: `due` counts the
bars past their 1200 ms, and `Settled` says that a bar (15 minutes at least)
outlasts a poll of the monitor and a handler. A check may take longer than a
bar.

The row's `source`, the Bollinger files and the caches of `shared_state` are
left out: they are functions of the same candle and no decision reads them.
So is the storage worker, which upserts the same rows: what is said of the rows
here is said of the bot's own writes.

### PositionOverlay

The exchange holds one position per side, changes it by entries, closes of all
or part of it and moves of its take profit, and reports the fill and the
position on the bot's private stream, in either order when `PositionFirst`. The
bot keeps a record per zone order and one for all manual entries of a side, each
with its sizes; several may be open, and all have the one overlay
`pos:SYMBOL:SIDE`. `HandleOpen` makes a record or adds to one, `HandleClose`
books a close on the newest record and clears the overlay when that is used up,
`HandlePosition` passes on what differs from the manual or the newest record. A
handler creates the notice's task; the task reads the record when it starts
(`StartNotice`), a thread posts the notice, and posts may overtake each other
(`NoticeArrives`). `AskSnapshot`, `ExchangeLists` and `WriteSnapshot` are the
stages of `GET /position-overlays/snapshot` between its awaits, `AskEdit`,
`CheckPosition`, `SetTakeProfit` and `Patch` those of
`POST /positions/{id}/tpsl`. Faults: a post or a call fails, the exchange's
answer to an edit is lost, the API restarts, or the bot restarts and loses its
unread stream and its tasks.

Prices are abstracted to what the overlay tells apart: a price of entry is named
by the first entry after which the exchange gives it as the average, 0 stands
for any other, and a fill is at the price the position has or changes the
average by more than the 0.05 % that `position_handler.py:78` ignores. An order
has one fill, and the size a record has left is between what the stored size and
the booked fills give (`ExecutionStore` has both and all the outside writes).
Only the take profit is modelled; the stop loss goes the same way.

`doubt` has the sides whose overlay was touched out of turn, and each place that
puts a side there is named in the model: a notice lost or overtaken, a stale
reading written, a restart; a further entry, of which the API is told nothing;
a record that is closed while another one or the position is left, or that
stays open when the position is gone; a report that overtook a fill of a
position held before and after it, or that found no record to change. These are
the states that `ExecutionStore` reaches and two of the findings below show. Only
a snapshot the exchange answered, written while the bot's record is right, ends
the doubt.

### OverlayFanout

The API's overlays again, this time with the browsers. Any request may put any
overlay at any time (`Notify`, `WriteSnapshot`, `Patch`), which is more than
`PositionOverlay` does, so what holds here holds of the two together and no
module composes them. `_broadcast` takes a list of the clients, a set, and
awaits each: the change of the state and the first write are one step (the lock
is never contended), every further write is one of its own, in any order
(`SendNext`), and other broadcasts, connections and disconnections come in
between. A browser replaces what it shows by a snapshot, of its websocket or of
its own request (`Reply`), and puts up the answer to an edit (`ReplyEdit`),
which the API makes up from the overlay of the first look-up when there is none
left to patch (`router.py:435`). `late` has the browsers told out of turn: by
broadcasts of one side that passed each other, or by a reply older than the
state or of an overlay that is gone. Connecting anew ends that.

### ZoneState, StrategyFlags, ControlPlane

The bot's connection commits every statement, so an operation of
`zone_state_repo.py` is the change of `zone_state` (`Detect`, `BreakByClose`,
`Deactivate`, `AskActive`, `BreakByKey`) and then, per zone, a reading and a
writing of the projection (`SyncRead`, `SyncWrite`); the bot's calls come one
after the other. A request of the API is one transaction: what it read is its
snapshot (`Post`), and its flush updates only the columns the session saw
change (`Commit`). A zone's row has its switch, the user's entry and whether it
is broken; `View` is `build_zone_projection_payload()`. What calls the bot's
operations is the strategy's choice, so any may come at any time. `doubt`
names what the code does leave behind: a zone broken by key, a statement that
failed between the two writes, an edit that crossed a write of the bot.

`StrategyFlags` has the table, the notice to whoever is connected, and the
bot's cache. The listener reads the table after it connects and at every
notice; what a notice says is ignored. A failed reading turns everything off
until the next event. `ControlPlane` joins the two: an API restart ends the
edit and the control connection in one step, a bot restart leaves a projection
unwritten and reads the switches again, and faults are counted together.

## 3. Runs

| Run | Bounds | Shows |
|---|---|---|
| `storage` | 1 bar, 2 workers on one consumer, 2 messages, 3 deliveries, 2 pending, 3 faults, other writers | safety, refinement of `ExactlyOnceStore`, and every offered valid event is stored while faults are fewer than deliveries |
| `publisher` | 2 bars, 3 events, queues of 1, finals tried twice, the window passes once | accounting, order, deduplication, retries end, close ends the task |
| `fanout` | 2 bars, 2 messages, 2 clients, and one redelivery, reconnection or REST confirmation | live state never goes back; finals finalize; the newest state reaches every subscriber, whatever broadcasts overlap |
| `execution` | 2 zones and the manual key, 4 orders, entries of 1 or 2, 1 fault | records track the exchange, agree with MySQL, survive restarts |
| `execution_label` | 1 zone, 2 orders, fills in one second | **violated**: a flat side keeps an open record |
| `execution_order` | 1 zone, 2 orders, size before fill | **violated**: a held position loses its record |
| `detector` | 2 bars, 2 trades each, 2 unread messages, 1 lost connection, 1 fault | one evaluation per bar, none passed over, what is announced is stored and stays, every ended bar gets announced |
| `detector_verified` | 1 bar, no fault | **violated**: a row repaired by REST is overwritten by an older message |
| `detector_monitor` | 2 bars, no fault | **violated**: the monitor ends |
| `overlay` | 1 side, 1 zone and the manual key, entries of 1 or 2, 3 changes of the position, reports before fills, 1 request, 1 fault | the overlay ends up as the exchange's position |
| `overlay_fanout` | 2 browsers, 2 requests, 1 side, 3 changes of the overlay | a browser shows the server's overlays |
| `control` | 1 zone, 1 entry, 1 switch set once, 1 fault | the read model follows the table, a zone switched off stays off, the bot ends up with the switches that are set |

Why the bounds are enough. Storage: two messages of one bar are the least
that race on one dedupe key and share a batch; three faults exhaust
`MaxDeliver = 3`, fewer must not keep a message out. Publisher: with queues of
one place two events fill a queue and the third overflows it, and a retry has
an event behind it. Fan-out: two messages are an update and the final that
passes it; `FinalizedLimit = 1` lets a REST confirmation of the second bar make
the gateway forget the first; a second connection leaves a loop of the first
over; and with two clients a broadcast has one to write to while another
broadcast starts or the other client comes, goes or fails. The three
disturbances take turns (`MaxExtra = 1`); the properties were also run with two
of them together (1.2 million states). Execution: four orders are entry, second
entry, partial and full close, or two lives of the manual key; two faults
were also run with unread messages excluded, with the same result. Detector:
two bars are a bar whose confirm is lost and the one that follows it, two
values make a message older than another; the safety properties were also run
with three bars of one trade. Overlay: three changes are open, edit and close,
open, close and open anew, or a zone's entry, a manual one and a partial close,
the case of two records and one overlay (5.6 million states); one request meets
every notice and the end of its position, and what two do to each other was run
with two changes. Its fan-out: two browsers are the
least a broadcast can be between, two requests the least whose broadcasts
overlap, and three changes let an older one be passed by two (3 million states).
Sides share nothing but the order of a snapshot's writes, and the theorems cover
any number of them. Control: zones do not touch each other except in `BreakByClose`, and
the zone theorems hold for any number of them; one setting and one lost
connection are the case of a notice that never comes.

Deadlock checking is off in all configurations: the bounds end every
instance.

### Fairness

- Storage (`LiveSpec`): every worker step, because Docker restarts the
  worker (`src/deploy/compose.yaml`, `restart: unless-stopped`) and the loop
  goes on; `AckWaitExpires` for messages no worker holds, because JetStream's
  timers fire. Faults have no fairness.
- Publisher: the publisher task (an asyncio task that is always scheduled, and
  whose publish is under a timeout), `CancelTask`, because `close` polls against
  a deadline (`chart_broker_shadow.py:657-665`), and `FinishClose` only when
  there is no connection to drain. The server, the connection, `nats.connect()`
  and `drain()` have none, so the liveness properties hold with a server that
  never answers. Each names its exceptions: `AcceptedFinalSettles` a task that
  is in `nats.connect()` for ever (line 750 puts no timeout on it),
  `CloseReturns` a drain that does not return and a cancellation that is
  dropped.
- Fan-out: every task, because a send returns or raises (uvicorn's pings
  close a dead connection), and `Fetch`, because JetStream delivers.
- Detector: every task of the event loop, because a thread call returns or
  raises; the stream and the connection have none.
- Control: the listener's steps (`Connect`, `RefreshConnected`, `Receive`,
  `Lost`), because it reconnects in a loop for ever and its pings find a dead
  connection. Users, zones and faults have none.
- Execution and overlay: only safety is stated.

### Findings

1. `execution_label`: `execution_handler.py:880` (and 520) builds the TP label
   from a time with one-second resolution. Two fills of one order share it.
2. `execution_order`: `execution_handler.py:688` subtracts a fill that the
   size message has already taken into account.
3. `detector_verified`: `candle_detector.py:557-573` stores any message that
   is read, also of a bar the monitor has evaluated and REST has repaired;
   line 298 promises that the REST values always win. Bars whose confirm
   arrived in time are safe from the bot itself (`AnnouncedIsStored`,
   `RowNeverRegresses`).
4. `detector_monitor`: `candle_detector.py:620` iterates over a dictionary
   the reader writes to during `await print_candle`; the loop that line 615
   announces ends with a `RuntimeError`. The passing properties hold with a
   dead monitor, or say so (`NoBarSkipped`, `EndedIsAnnounced`).

What else the models reach has no run, because what the documents say of it is
less than a run would need, and is listed among the hazards:

- `chart_candles.py:745` broadcasts after the state lock is released. While an
  older broadcast waits for one client to take its message or to leave, a newer
  update is stored; a client further down the list that subscribes then gets the
  newer snapshot first and the older candle last. `docs/ARCHITECTURE.md:171`
  only says that the latest event is delivered, which `NewestReaches` states.
- `execution_handler.py:348` takes the weighted average so that the entry is
  shown right after a further entry, but that branch tells the API nothing, and
  the position message finds record and exchange agreed: the chart keeps the
  old entry.
- A partial close that uses up the newest of two records of a side sends the
  clear (`execution_handler.py:839`) for the overlay both share. The position
  message agrees with the other record, so nothing puts the overlay back.
- Closing the whole side with a zone and a manual record open leaves the older
  one open.

Two more are not in that list: `candles_repo.py:296` and 354 say that the table
holds only confirmed bars, and the reader stores the bar in progress; and a final redelivered
after a reconcile of its bar would overwrite the corrected candle
(`chart_nats_final_durable.py:409` compares nothing), which waits for a producer
of reconciles that this repository does not have.

## 4. Proofs

`ChartStorage_proofs` proves, from `ConstantsAssumption` alone and for every
number of bars, workers, messages, deliveries and faults:

| Theorem | Statement |
|---|---|
| `Invariance` | `Spec => []IInv` |
| `TypeCorrect` | `Spec => []TypeOK` |
| `SettledIsDurableHolds` | `Spec => []SettledIsDurable` |
| `TablesAgreeHolds` | `Spec => []TablesAgree` |
| `GivenUpOnlyAfterFaultsHolds` | `Spec => []GivenUpOnlyAfterFaults` |
| `ImplementsExactlyOnce` | `Spec => ExactlyOnce` |

None of the safety properties is inductive. `SettledIsDurable` needs to know
that a worker about to ack has a stored event in its hands, and `TablesAgree`,
which speaks of the rows this path has written and leaves those of others alone,
that a transaction about to commit is for an event nobody has stored; both
are `TransactionsExclusive`, which in turn rests on the row lock, on
`BatchesFromLog` (a busy worker holds a message of the stream) and on
`NothingBeforeConsumer`. `GivenUpOnlyAfterFaults` follows from a counting
invariant, `DeliveriesPaidByFaults`: every delivery of an unstored valid event
except the one being worked on has cost one fault. `IInv` is the conjunction;
the proof has one step per action. Refinement maps the committed rows to the
abstract store: `Publish` of a valid event is `Offer`, `Commit` and
`CommitAnswerLost` are `Apply`, all else stutters.

`ChartPublisher_proofs` proves, from `PublisherAssumption` and for every
number of events, queue sizes, retries and passings of the window:

| Theorem | Argument |
|---|---|
| `TypeCorrect` | together with `KnownEvents`: what is queued, sent or stored is an event the service has seen |
| `StreamInOrderHolds` | `Ordered`: in each lane the numbers grow from the stream (`StreamFirst`) over the copies on the wire (`WireInOrder`) and the event in the task's hands (`CurInOrder`) to the queue (`QueueInOrder`). Order in the stream alone is not inductive: a copy still on the wire could be stored after a later one |
| `SuccessIsStoredHolds` | `IdsStored`: an id in the duplicate window stands for a stored final of that bar; so the answer to a duplicate means stored as much as the answer to a first copy |
| `OneCopyPerWindowHolds` | `CopiesCounted`: the copies of a bar are at most the passings of its window, and one more while its id is remembered |
| `FinalsAccountedHolds` | `Accounted` with `Ordered`: the places a final can be in are disjoint, and an event is queued at most once because queues are in order |

`ChartFanout_proofs` proves, from `FanoutAssumption` and `NothingAssumption`
and for every number of bars, messages, clients and connections, `TypeCorrect`
and:

| Theorem | Argument |
|---|---|
| `LiveNeverRegressesHolds` | `SrcKept` (the last accepted number is at least that of the live state) and `PartialsNumbered` (only finals go without a number), over the acceptance rule |
| `NewestReachesHolds` | `ReachInv`: a broadcast with clients to come waits for a send that has not returned (`LeftSending`), and nobody is subscribed without a connection (`OutUnsubscribed`) |

All rest on one invariant, `Inv`: the loops (`FeedInv`) and the broadcasts
(`CastInv`), where `SendingBusy` ties a client's pending sends to the broadcasts
under way and `SeqBounded` every number to the counter. `StepKinds` sorts the
steps once by what they do to the state - nothing, accept an event, go on with a
broadcast, end it, or a client's step - so that each theorem has five cases.

`CandleDetector_proofs` proves, from `BoundsAssumption`, `TypeCorrect` and the
module's four safety properties: `EvaluatedOnceHolds`, `NoBarSkippedHolds`,
`AnnouncedIsStoredHolds` and `RowNeverRegressesHolds`.

`EvaluatedOnce`: `last_confirmed_end` protects an evaluated bar only until a restart empties it. The inductive
`OnceInv` adds what protects it afterwards: the bar is closed, and either it
is not after `last_confirmed_end` or it is `Traceless` - not pending, not in
the reader's hands and not on the wire - and stays so, since the stream only
sends the bar after the last closed one. `ConfirmsAreOfClosed` ties the
confirms on their way to the exchange.

The other three add what the tasks and the stream owe each other, each part an
invariant of its own on top of `OnceInv`:

- `StreamInv`: the confirm is the last message of its bar, and what the stream
  says of a bar only grows. `StreamSteps` reduces a step to what it does to the
  messages - one sent, one taken, none gained - once for all these proofs.
- `EvalInv`: between its claim and its check a bar has one evaluator.
- `ReadInv`: a bar that its confirm evaluated has no message left, so only its
  check may still write it.
- `StoredInv` says, for each step of a check, what the file and the row hold
  then, and that a thread which has the file read has the official values of all
  bars in its copy that are safe in the file; its last step gives
  `AnnouncedIsStored`.
- `OrderInv`: a row is at most what is on the wire or in the reader's hands,
  that at most what was traded, and a closed bar's official value at least
  that: every write goes up, which is `RowNeverRegresses`.
- `NoBarSkipped` needs the order of the whole path. `WayInv`: last evaluated
  bar, bars put aside, message in hand and wire stand in the order of the bars.
  `ConfirmFollows`: a closed bar still on the wire is there with its confirm.
  `InTurn`: a bar seen and not evaluated has no confirm of a later bar before
  its own; when a bar closes, this starts from `Settled`, the assumption that
  the monitor polls more often than bars close.

`ExecutionStore_proofs` proves, from `ConstantsAssumption` and
`NoneAssumption`, for any zones, quantities, orders, lags and faults:

| Theorem | Configurations | Argument |
|---|---|---|
| `TypeCorrect` | all | `TypeInv`: the types of messages, queued writes, records and rows |
| `OpenHasSizeHolds` | `Reconcile` | `SizeInv`: an open record in memory has a size and fills left; one in the file, or on its way there, does too or is used up in both, and the reconciliation at start closes it |
| `RestartKeepsOpenHolds` | all | `Synced`: the file is the store, or the last save to come has it |
| `DatabaseAgreesHolds` | `~SameSecond` | `Told`: the row of a zone with the writes to come applied is the row of its record, and the zone is off, or a write to come turns it off, exactly when it was stopped out |
| `TracksExchangeHolds` | `~SameSecond`, `~PositionFirst` | `Account`, below |
| `NeverLessHolds` | `~PositionFirst` | `Account`: the first half of `TracksExchange`, also with fills of one second |
| `FlatIsClosedHolds` | `~SameSecond`, `~PositionFirst` | `Account` |
| `HeldIsOpenHolds` | `~PositionFirst` | `Account` |

The configurations are hypotheses of the theorems, and with the two violation
runs they say what each finding comes from: `FlatIsClosed` fails in
`execution_label` with `SameSecond` alone, and without it holds;
`HeldIsOpen` fails in `execution_order` with `PositionFirst` alone, and without
it holds whatever the seconds. A shared second can make the records keep too
much, never too little. `Reconcile` is the default of
`reconcile_closed_from_fills_on_start` (`main.py:165`), which
`config/config.demo.json` turns off. Without it `OpenHasSize` is false: a take
profit saves a record that is used up before it saves it as closed, and a bot
killed between the two loads it as open (TLC shows this on the instance of
`execution` with `Reconcile = FALSE`).

None of the properties is inductive, for they speak of idle moments only.
`Account` says what lies between: the messages of the stream lead from a size
`L[0]`, which the records account for, to the size the exchange holds, every
entry adding its quantity and every fill of a close taking its own away
(`Level`). The records account for a size (`Accounts`) when the open ones claim
at least that much together, and exactly that when there was never more than
one; a record claims the smaller of its stored and its recalculated size. In the
middle of a stop loss nothing is claimed any more, since its first message
closes the record: hence `Stopping`. Booking a fill takes exactly its quantity
off a record only if its label is new. That is `Fresh`: every second in a label
has passed for the fills that are unread (`Past`), which rests on `Times` (unread
fills carry growing seconds) and on `Clean` (an open record has no fill of the
labels without a second). `Once` says that a zone's key is used by one order, so
that a row is begun once.

The sizes are sums over the fills of a record. What the proofs need of them -
booking a fill under a new label adds its quantity and under an old one at most
that, a sum over records changes with the one that changed - is proved from the
library's definitions of the folds, with a least counterexample in place of an induction:
`WFMin` and `NatLessThanWellFounded` are about sets, so the provers can use them
where the theorems of induction, which take an operator, are out of reach.

`PositionOverlay_proofs` proves, from `OverlayAssumption` and `NoneAssumption`,
`TypeCorrect` and `OverlayFollowsHolds`, for any number of sides, zones, levels,
quantities, requests and faults. The inductive `FollowInv` says of every side
that is not in doubt:

- `TasksCurrent`, `PostsCurrent`: the last task of the side, or when there is
  none the last notice on its way, brings what the bot takes the position for
  (`Live`: the manual or the newest open record);
- `Reported`: the last unread message says what the position is, and is a report,
  a fill that ended it or the fill of a first entry;
- `Known`: when none is unread, the bot knows the position;
- `Settled`: when nothing is left to tell, the overlay is what the bot takes the
  position for.

"Nothing left to tell" is the point. A message that changes nothing of a record
makes no notice, so `Settled` must speak of streams with messages still on them:
`Quiet` says that each of those left will change nothing, and `QuietKnown` that
the bot then knows the position already, since the last of them says what it is.
An edit patches the overlay before its message is read and either has it right or
puts the side in doubt; a snapshot's write ends a doubt only when nothing is
pending and the bot's record is right, and `Readings` says that it writes what it
read. That the newest record and the last message exist is proved from `<` being
well founded (`Greatest`).

`OverlayFanout_proofs` proves, from `FanoutAssumption` and `NoneAssumption`,
`TypeCorrect` and `BrowserFollowsHolds`, for any number of sides, browsers,
requests and changes. What a browser shows says nothing of the server's overlays
while it has messages to read or broadcasts to wait for. The inductive `Informed`
says of every connected browser that is not `late`, per side: the newest
broadcast it waits for has the overlay as it is; and when it waits for none, the
last message on its wire about that side has it, or it shows it already
(`EndsWith`). The numbers of the changes order the broadcasts; one that writes to
a browser still awaited by an older one of its side makes that browser `late`.

`ControlPlane_proofs` proves of `ZoneState`, from `ZoneAssumption` and
`NoneAssumption`, `TypeCorrect`, `ProjectionFollowsHolds`, `DrawnIsTradedHolds` (with nothing left
behind the chart starts with exactly the zones that are traded, at the same
entries) and `StaysOffHolds`, for any zones, entries and faults. The projection
follows because `doubt` takes up exactly the writes that were prepared from a
row that has changed since. `StaysOff` rests on the flush: a column the request
did not change is not written (`FlushedUnchanged`), so an edit that read a zone
while it was on cannot switch on what the bot has switched off.

It carries both over to the composition
(`ControlProjectionFollows`, `ControlStaysOff`): `ControlSteps` shows that a step
of the composition is one of the zones or leaves them alone (`FlagStep`).

Only model-checked is all liveness (`EventuallyStored`, `AcceptedFinalSettles`,
`CloseReturns`, `FinalFinalizes`, `EndedIsAnnounced`, `SwitchesArrive`): fairness
and `ENABLED` are out of the prover's reach. That the properties of the violation
runs fail is TLC's result as well.

## 5. Not modelled

Out of scope: rendering, REST signing, parsing, statistics, alerts, logs, OTP.

Left out of the modelled parts:

- publisher: the Redis Streams variant, which shares the loop; the ingest
  reader in front of it, which parses and counts;
- gateway: the drop of events of an inactive source, the `term` of what
  cannot be parsed, `reset_consumers_on_start = False`;
- execution store: funding (quantity 0), prices, fees, the pruning limits, the
  re-entry guard maps, which nothing in this repository reads;
- candle detector: Bollinger bands, `shared_state`'s caches, the clock;
- candles: the chart's queries, and `backfill_candles.py`, which is run by hand;
- overlay: the stop loss, prices, the strategy's name;
- zones: prices and the columns computed from them, `bulk_upsert_zones`, which
  nobody calls, and the websocket broadcasts with the browser's zone caches:
  the bot broadcasts to the clients of its own process, which has none, so a
  browser learns of the bot's changes by reading again;
- switches: the watcher of `config.json`;
- WebSocket template: authentication, pings and its periodic reconnect, of
  which the models keep the loss of messages;
- frontend stores: the merge of REST pages with live bars.

Hazards without a property are in `PROJECT.json` with the reason. Five more
points of the code were seen and are not in that list, which keeps to the
gravest: a reused manual key goes on adding to a row that is `closed`
(`positions_repo.py:174`); above `EXEC_FILLS_MAX` the file drops a live record's
oldest fills (`execution_store.py:115`); an ingest service that restarts alone
numbers its messages from 1 again, and the gateway refuses partials until they
have caught up or the next bar starts (`chart_candles.py:717`; in
`deploy/compose.yaml` both run in one process); one slow browser holds up a broadcast's
`gather` (`chart_candles.py:612`), in the model only a delay; and a candle file
that cannot be written drops the bar's REST check (`candle_detector.py:593`),
which `CandleDetector` has among its faults.

What could be taken up next is the frontend's data store.
