# TLA+ models of the trading gateway

The gateway sits between trading strategies and brokers ("providers"). A strategy
submits orders over REST and receives events over a WebSocket; an adapter per
provider translates. Everything stateful and concurrent is in `crates/core`, with
one more protocol in `crates/tektii`, where a backtest engine is paced by the
strategy's acknowledgements.

This directory holds TLA+ modules for the two parts where concurrency decides
correctness, the runs that model-check them, and proofs of their main
invariants. Source paths below are relative to `crates/core/src/` unless said
otherwise. `PROJECT.json` maps every definition to its lines.

## Inventory

| Part | State | Operations | What makes it hard | What should hold |
|---|---|---|---|---|
| Exit handler (`exit_management/`) | entries by placeholder, index by primary, buffer of unmatched fills, circuit breaker, one async mutex | register, handle fill, replay, place with retry, resolve the pair, cancel for a position close, clear failed, expire, reset | fills race registration; the close takes no lock; provider answers get lost | no more exit quantity than was filled; no fill stranded; terminal entries stay terminal; the lock is released |
| Leg replacement (`exit_management/replace.rs`) | the same entries | modify in place, or cancel and replace with a fallback | three provider calls, each can fail | a failed move leaves the leg as protected as before; client ids never repeat |
| Submit path (`api/routes.rs`) | none | submit, register exits, replay | retried submissions, answered with one id | an order's exits are registered once |
| Event router (`events/router.rs`), state manager (`state/mod.rs`) | orders, positions, OCO groups and fills | order, position and connection events; reconcile | events from several tasks; reconnect replays | cancels reach every sibling; a double exit is reported when, and only when, there is one |
| Trailing stops (`trailing_stop/`) | entries, tasks and reference counts per symbol, peak prices | register, activate, price update, adjust, cancel | per-entry tasks, provider calls between read and write, cancel-then-place | the stop only tightens; one live stop per entry |
| Provider registry (`websocket/registry.rs`) | providers, connected strategies, one event task each | deliver, mark sent, end of stream, reconnect, staleness, position synthesis | the event task, connections and acknowledgements run concurrently | events are delivered in order, one terminal, reconnection gives up or succeeds |
| Strategy connections (`websocket/connection.rs`, `server.rs`) | connection map, bounded channel each | connect, register, send, receive, leave, shutdown | slow consumers, broken sockets | channels are bounded; a strategy with a gap is disconnected |
| Acknowledgement bridge (`crates/tektii/src/ack_bridge.rs`) | queue of pending events with sent and acked flags, channel to the engine | register, mark sent, strategy acknowledgement, immediate acknowledgement | an acknowledgement may arrive before delivery is confirmed | each event is released once, when acknowledged, and every acknowledgement counts |
| Engine connection (`crates/tektii/src/websocket.rs`) | reader task, writer task | read, forward, write, close | the stream ends with work in flight | the above, up to the end of the stream |
| Circuit breaker, HTTP retry (`circuit_breaker.rs`, `http/`) | failure window, cooldown, attempts | record, check, reset, retry | clocks | opens at the threshold; a retry is bounded |
| Shutdown (`shutdown.rs`) | flag, snapshot | broadcast, log exits, stop providers | requests in flight | nothing is accepted after the snapshot |
| Adapters (`crates/alpaca`, `binance`, `oanda`, `saxo`, `mock`) | sockets, tokens, de-duplication caches | translate requests and messages | per provider | the environment of these models |

## Modules

| Module | What it is |
|---|---|
| `ExitHandler` | the exit handler with the submit path, the router's fills and the position close |
| `MCExitHandler` | its instances for TLC |
| `ExitHandlerProofs` | its type correctness, and that no fill is stranded, proved |
| `AckPacing` | what the acknowledgement path promises the engine |
| `AckDelivery` | the bridge, the engine connection, the provider event task and the strategy connections |
| `AckDeliveryProofs` | its theorems, the refinement of `AckPacing` among them |

### ExitHandler

Who runs concurrently, and which variable holds its progress:

- `submit[s]`: one HTTP task per submission. `SubmitOrder`, `RegisterPendingExits`
  (the provider has answered; no exits, already registered and handler full are the
  early returns), `RegisterLeg` and `IndexLeg` once per leg, `LinkSibling` for each
  leg of a pair, `TakeBufferedFill`, `ReplayFill`. From `RegisterLeg` on each step is
  one access to a concurrent map. `RegisterPendingExits` takes two reads together,
  of the order's exits and of the number of entries; only a second submission with
  the same order id could tell the difference, since the first read does not change
  otherwise. A request lives no longer than its client: `ClientGone` drops a
  submission suspended in the provider call or waiting for the lock, `ReplayDropped`
  one suspended in its replay, where the lock goes with it and the request to the
  provider may or may not have arrived. Both are `HangUp`. That a disconnect drops
  the handler's future is axum's behaviour and external; nothing in `src/main.rs` or
  `api/routes.rs` runs the handler in a task of its own.
- `job`: the holder of `fill_processing_lock`, either the router or a replaying
  submission. `RouterFill` or `ReplayFill` take the lock; `BufferUnmatchedFill` and
  `ReclaimFill` are the miss path; `ProcessEntryFill` is everything
  `process_entry_fill` does before the provider call; `PlaceOk`, `PlaceRetry`,
  `PlaceDeferred` and `PlaceFailed` are the outcomes of an attempt;
  `HandleSuccessfulPlacement` writes the entry. `ExitLegFilled`,
  `CancelSiblingOrder` and `SiblingCancelled` are the fill of an exit leg.
- `closer`: the position close, which collects the entries, cancels their orders
  one call at a time and then marks each. It takes no lock.
- `ClearFailedEntries`, `CleanupExpiredEntries`, `ResetCircuitBreaker`,
  `HandleCancellation`: one step each. The last one is exported for library users;
  the gateway binary never calls it. The refusal of a breaker reset before its
  cooldown is left out: there is no clock, so a reset may come at any time, which
  only adds behaviours.

Data. Quantities are lots. A leg's orders are told apart by the number in their
client order id. `entry.covered` is the sum `calculate_active_coverage` computes;
in this handler tracked orders always count as open, since nothing refreshes their
status. The index is a set of legs where the code has a vector of ids; a
re-registration pushes an id twice there, and the second visit finds the fill
already attempted. Removing ids from the index is one step.

The environment (marked external): a primary fills in any steps up to `Total`; the
router may be told of the current or any older fill, which covers duplicates and
reconciliation; the provider accepts one order per client order id, answers a
repeated id with the order it has, and any answer may be lost after the order was
accepted. Exit orders fill completely. Partial exit fills are ignored by
`handle_fill`, which acts on a full fill only.

History variables: `delivered` is the largest fill handed to `handle_fill`, `lost`
the primaries whose buffered fill expired, was evicted, was overwritten by an older
one, or went with a submission whose client hung up.

### AckDelivery

Engine events are `1 .. Count` in the order of the stream. Those in `Silent` have no
message for strategies and are acknowledged at once, those in `Terminals` are
`backtest_complete`. The bridge's queue is three sets (`pending`, `sent`, `acked`):
its order is diagnostic only, by its own comment, and each bridge operation is one
step because it runs under one write lock. Channels are sets read in order of their
elements, which are sent in increasing order. The provider event task takes an
event (`TakeEvent`), tries each connection (`SendTo`) and then confirms
(`MarkSent`); in between a strategy may already acknowledge. The read lock on
`connected_strategies` held while sending is the guard `~Sending` of registration
and of leaving. `Fallback` is the made-up terminal, numbered after all events.
A strategy may acknowledge (`StrategyAck`) any pending events, sent to it or not,
together with ids the bridge does not know: released already, or never its own.
`confirmed` (acknowledged while pending), `forwarded` and `dropped` are history.

`AckPacing` knows only which events a strategy has processed and how often each was
released; a step may release events only if each was processed or is silent, and
none was released before. `AckDelivery` implements it with `processed <- confirmed`
and `released <- forwarded`.

## Runs

| Run | Instance | Checks | Result |
|---|---|---|---|
| `exit_pair` | one order, both legs, 2 lots, 1 retry, breaker opens at 1 failure, 1 disturbance | `TypeOK`, `FirstLegReached`, `NoPlacementWhileOpen`, `SiblingKeptWhileResting` | holds, 2.4 M states |
| `exit_leg` | one leg, 3 lots, 1 retry, 2 disturbances | `NoOverCoverage` | holds, 0.7 M states |
| `exit_two` | two orders on one symbol, room for one entry | `FirstLegReached` | holds, 0.5 M states |
| `exit_fair` | both legs, 1 lot, 1 retry, fairness | `SubmissionFinishes`, `LockReleased` | holds, 35 k states |
| `exit_every_leg` | both legs, no disturbance | `EveryLegReached` | violated |
| `exit_retried_submit` | two submissions, one order id | `RegisteredOnce` | violated |
| `exit_partial_exit` | both legs, 2 lots | `PairResolvedWhenLegFilled` | violated |
| `exit_close_race` | one leg, one position close | `CancelledIsFinal` | violated |
| `exit_hang_up` | as `exit_fair` | `BufferedFillReplayed` | violated |
| `ack_pace` | 4 events, 1 silent, 1 terminal, 2 connections, capacity 1 | `TypeOK`, `NoAckLost`, `TerminalOnce` | holds, 1.6 M states |
| `ack_fair` | 3 events, otherwise the same, fairness | `AckReachesEngine`, `EnginePaced` | holds, 123 k states |
| `ack_slow` | 3 events, 1 connection, capacity 1 | `NoDeliveryAfterDrop` | violated |

A disturbance is a position close, an exit fill, a cancellation, a clean-up, a
breaker reset, a foreign fill in the buffer or a hang-up; `MaxDisturbances` bounds
only these.

What the properties leave out. `FirstLegReached` speaks of a fill that a registered
leg can still be given: one the buffer gave up, or that a dropped submission took
with it, is exempt, and so is an order whose exits were refused at the limit.
`NoOverCoverage` rests, for a placement whose answer was lost, on the provider
accepting one order per client order id. `NoPlacementWhileOpen` is about fills: a
replacement of a leg does not ask the breaker, and is not modelled.
`AckReachesEngine` ends with the engine connection, and `TerminalOnce` says at most
one terminal, not at least one.

Why the bounds are enough to be interesting: two lots give a partial and a full
fill, three a leg of three orders; one retry gives both a retried and an exhausted
placement; a limit of one entry with two orders makes registration fail and the
overshoot happen; capacity 1 makes every second undelivered event overflow; two
connections allow one to be delivered while the other is not.

### What the violated runs show

- `exit_every_leg`. The legs are inserted one after the other
  (`exit_management/handler.rs:424` and `:446`). A fill handled in between finds the
  stop-loss alone in the index, is processed for that leg and is not buffered. The
  take-profit is indexed next, the replay finds the buffer empty, and the
  take-profit is not placed for that fill.
- `exit_retried_submit`. The check and the registration are separate calls
  (`api/routes.rs:190` and `:195`).
- `exit_partial_exit`. A leg placed over two partial fills is two orders; the first
  to fill drops the leg's entry, and with it the record of the other order, which
  still rests (`fill_handler.rs:265`). The trace has no registered sibling yet; that
  one would be cancelled at the same time follows from the code.
- `exit_close_race`. A placement in flight overwrites the Cancelled state written by
  the close (`fill_handler.rs:929`, `:947`). The close really is concurrent: it
  starts from the position-synthesis task.
- `exit_hang_up`. The submission has taken its fill from the buffer
  (`fill_handler.rs:196`) and waits for the lock (`:98`). In the trace the router task
  that has just buffered the fill still holds it; a fill of another order may
  hold it for as long as its placements take. The client disconnects, and the fill is
  gone with the request. Without `HangUp` the property holds on this instance.
- `ack_slow`. A full channel is reported to callers that only log it
  (`websocket/connection.rs:76`).

### Fairness

`exit_fair`: weak fairness of the fill job, because provider calls end by the HTTP
timeout and retries are finite; weak fairness of a submission's own steps once the
provider has answered, a hang-up being one more way for it to finish; strong
fairness of `ReplayFill`, because the tokio mutex serves waiters first come first
served, so a waiting submission gets the lock although the router keeps taking it. The provider owes nothing: fills, exits and
closes may stop. `ack_fair`: weak fairness of the provider event task, which the
runtime schedules, and of the writer for each event it holds: a write to the engine
completes or fails. The second asks something of the engine, which must read its
socket or break the connection, since a write waits as long as it does neither
(`crates/tektii/src/websocket.rs:215`). A strategy owes nothing.

The runs of `AckDelivery` do not check for deadlock: the engine may end and every
strategy leave, after which nothing is left to do. Those of `ExitHandler` do.

## Proofs

| Theorem | States | Assumes |
|---|---|---|
| `TypeCorrect` | `Spec => []TypeOK` of `ExitHandler` | the constants' types |
| `NoFillStranded` | `Spec => []FirstLegReached` | no two submissions share an order id |
| `AckTypeCorrect` | `Spec => []TypeOK` of `AckDelivery`, the channel bound included | the constants' types |
| `AcksAccounted` | `Spec => []NoAckLost` | the same |
| `OneTerminal` | `Spec => []TerminalOnce` | the same |
| `Paced` | `Spec => EnginePaced` | the same |

`NoFillStranded`. `FirstLegReached` speaks of settled states only, so it is not
inductive. The invariant `IInv` adds: `RegistrationOrder`, how far each submission
has come determines which legs the index can hold, and a fill in process works only
on legs that are asked for and indexed; `JobConsistent`, a leg under placement has
its attempted quantity recorded, and a fill about to be reclaimed is the job's own;
and `FillCarried`, the heart of it: for every delivered fill that the first leg has not
been attempted for, someone still carries it, be it the job, the buffer with a
submission that will look there, or a submission waiting with the fill in hand. The
hard cases are the buffer's insert-then-recheck against the submission's
insert-then-take. A hang-up either exempts the fill or comes when the first leg has
been attempted: a replay is suspended only in a provider call, with the attempt
recorded before it. The assumption is needed: with a shared id a second registration
replaces the entry (`exit_retried_submit`).

`AckDelivery`. The invariant joins: `Counted`, an event read is pending or was
released exactly once; `PendingRead`, nothing is pending that was not read;
`AckedEarly`, what is acknowledged while pending was read, and is marked until it is
released; `Handed`, whatever a strategy holds was taken from the stream, and is
marked sent unless that is due; `Ended`, a made-up terminal implies that none was
relayed. `Bounded`, for the type theorem, is the channels' capacity. `Paced` shows
that each step maps to a step of `AckPacing` or to a stutter; the only steps that release are an acknowledgement, a confirmation that
finds an early one, and a silent event.

Only model-checked: the liveness properties, `NoOverCoverage` (a sum over a set of
orders, which needs induction), `NoPlacementWhileOpen` and
`SiblingKeptWhileResting`.

## Plan

1. `ReplaceExitLeg`: replacement under the same lock, composed with `ExitHandler`.
2. `EventRouting`: the state manager and the router's order, position and OCO
   handling, with an abstract specification of an OCO group; reconciliation after a
   reconnect against live events.
3. `TrailingStop`: entries, tracking tasks, the cancel-then-place executor, and the
   price arithmetic as operators.
4. `ProviderTask`: reconnection, back-off, staleness and position synthesis.
5. `CircuitBreakers`, `HttpRetry`: windows, cooldown and attempts, with a clock.
6. `Shutdown`: the sequence against submissions in flight.
7. Adapter state: Oanda's de-duplication, Saxo's token refresh, Binance's listen key.
8. Proofs: `NoPlacementWhileOpen` and `SiblingKeptWhileResting`; no over-placement,
   from a running total per leg in place of the sum; the invariants of the modules
   above, and their refinements.

## Not modelled

Message and request conversion, configuration, metrics and logging; the adapters
apart from what the models assume of a provider; `AckManager`, `cancel_entry`,
`register_preemptive` and the backup operations, which nothing but tests calls; the
index clean-up in two steps (`exit_management/handler.rs:355`); the placements of a
replacement (`exit_management/replace.rs`). A second position close
does not start while one is running.
