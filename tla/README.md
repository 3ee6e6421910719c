# A TLA+ model of the option-trading framework

This directory holds a verification project for the code under `src/optiontrader`:
TLA+ modules translated from the source, TLC configurations that check them on
small instances, and proofs that TLAPS checks. It is about threads, messages, rows
and schedules; of prices it says what follows from their order alone.

## The system

One process, *core*, trades options through an Interactive Brokers TWS session.
A second process, *web*, offers HTTP routes and reaches core through RabbitMQ. A
third, *scraper*, fills the database with market data.

| component | state it keeps | operations | hard behaviour | what makes it correct |
|---|---|---|---|---|
| Order manager (`order_management.py`) | `orders`; the rows of `equity_order`, `spread_order` | `place_order`, `cancel_order`, `update_order_data`, `get_open_orders`, `get_completed_orders` | waits for callbacks in a loop, writes rows that the reader thread also writes | a call that fails leaves nothing trading; a row says what became of its order |
| IB client, orders (`IBKRClient/ib.py`, `order.py`) | `next_valid_order_id`, `order_lock`, `open_orders`, `completed_orders` | `place_order`, `cancel_order`, callbacks `nextValidId`, `openOrder`, `orderStatus`, `completedOrder`, `execDetails`, `error` | callbacks run in the reader thread, in the broker's order, without the lock; one of them loops over `open_orders` while `place_order` adds to it | client ids are unique; reports reach the right entry |
| IB client, requests (`ib.py`, `requests.py`, `tick.py`) | `handled_requests`, id counters, `contract_details`, `ticks` | `make_request`, contract, tick and account callbacks | check before the lock, registration after the send, id ranges that meet | an answer reaches the request it belongs to |
| Account (`account.py`, `position.py`) | account values, portfolio, greeks | `set_value`, `add_position`, `get_net_greeks`, `compute_option_position_greeks` | written by the reader, iterated by three threads; stale greeks | a greek sum describes one portfolio |
| Core (`core.py`) | session, threads, shutdown flags | `connect`, `start`, `init_ib`, `main_loop`, `shutdown` | reconnects without a reader thread; a signal during start-up or a reconnection | shutdown ends the loops in whatever state it comes |
| Database (`database.py`) | connection pool, tables | upserts, inserts, queries | errors raised inside callbacks; the pool of ten is larger than the number of threads | a row is written whole or not at all |
| Delta hedge (`deltahedge.py`) | shutdown flag | `run`, `get_order_delta`, `hedge` | acts on positions and orders that are reported late, and on every stock order and position, whosever and of whatever stock | trades no more than the exposure has moved; ends inside its margin, as the code measures it (any stock counts as SPY, with delta 1) |
| RPC server, web client (`rpc.py`, `web.py`) | queue, delivery tags, correlation ids | `on_request` and its handlers, `RPCClient.call`, routes | acknowledged after the work; one consumer for everything; a handler's exception ends it | no request is lost; an answer says what was done; one order per click |
| Data collector (`datacollector.py`) | scheduler jobs, option queue, calendar | `init_jobs`, `reset`, `update_option`, ... | jobs overlap a reset that replaces what they use | every symbol is collected in turn |
| Screener, forecast (`screener.py`, `forecast.py`) | option chains, published spreads, cached forecasts | `run`, `get_forecast` | its chains are read while a round changes them; missing data ends the loop | a published spread's loss is bounded; until the first expiry has passed, what is published can be read |
| Mathematics (`option.py`, `mathtools.py`, `util.py`) | none | strikes, payoffs, expiry | boundaries of strike lists and dates | payoffs of a strategy are bounded by its legs |
| Data sources (`datasource/`) | none | web queries, one thread per pair of a batch | some fail | what fails brings nothing and stops nothing else |

How they interact: *web* → queue → RPC thread → order manager → IB client →
socket → TWS; TWS → socket → reader thread (`EClient.run`) → callbacks of class
`IB` → `IBOrder.notify` → `OrderManager.update_order_data` → database. The hedge
thread calls the order manager as well. `Core.main_loop` asks TWS every five
seconds for all open and completed orders. The only locks are `order_lock`
(inside `IB.place_order`) and `request_lock` (inside `make_request`).

## Modules

* `OrderFlow` — the life of an order between the placing threads, the reader
  thread and the broker. This is the core of the system, modelled first.
* `OrderLedger` — what the order manager promises, with no threads, messages or
  ids: each order is offered to the market at most once and while its call runs,
  a call that fails leaves nothing there, a recorded order has been there, a row
  says filled only of an order that traded and never goes back to open.
* `MCOrderFlow` — who places what and how often each event happens, for TLC.
* `OrderFlow_proofs`, `OrderRows_proofs` — theorems about `OrderFlow`, the second on top
  of the first: types and fills; rows, orphans, the refinement of `OrderLedger`, client
  ids and the session.
* `IBRequests` — everything else that is asked of TWS: `make_request`, the registry
  it shares with the callbacks, and the threads that read what has been answered.
* `DeltaHedge` — the hedge engine, with the portfolio that the reader writes, the
  greeks that `main_loop` computes and its own orders at the broker.
* `CoreSession` — the life of the core process: `connect`, `start`, the reconnecting
  `main_loop`, a signal and `shutdown`.
* `RpcBus` — extends `CoreSession` with the queue, the consumer and the web handlers:
  the composition of core, RabbitMQ and web.
* `RpcService` — what a web handler may rely on, with no queue, connection, thread or
  process. `RpcBus` implements it.
* `MarketClock` — the exchange's day and the schedule that two classes keep of it.
* `DataCollector`, `Screener` — the jobs of the one and the thread of the other, each
  on `MarketClock`.
* `MCIBRequests`, `MCDeltaHedge`, `MCRpcBus`, `MCDataCollector`, `MCScreener` — the
  instances for TLC: who asks for what, and what the outside has to say.
* `IBRequests_proofs`, `DeltaHedge_proofs`, `RpcBus_proofs`, `DataCollector_proofs`,
  `Screener_proofs` — the theorems about those components. `DataLemmas` — what putting into
  a queue and taking out of it does to its members, and what a change of its terms does to a
  sum, for the three modules that have one or the other.

### OrderFlow: state and actions

| model | code |
|---|---|
| `pc`, `cid`, `saw`, `obj` | where a `place_order` call is, its `broker_client_id`, the status and broker id read last, and whether `ib_order_data` is still the entry of `open_orders` and has a permId |
| `next`, `lock`, `open` | `next_valid_order_id`, `order_lock`, `open_orders` |
| `db` | rows of both order tables, by order: status and `broker_order_id` |
| `connected`, `reader`, `inbox` | `isConnected()`, the thread that runs `IB.run`, its queue of messages |
| `clash` | `place_order` has added a key to `open_orders` inside the loop that `contractDetails` makes over it in the reader thread (`ib.py:857`) |
| `cancelling` | a `cancel_order` between sending and writing the row |
| `broker`, `budget` | the broker's state of each client id; how many faults are left |

`place_order` is split at every point where another thread can observably run:
`PlaceCall` (the connection check), `Bump`, `Send`, `ReqIds`, `Register` (the four
statements under `order_lock`), `Read`, `Wait` (the loop), `Save`. The
increment and the read of the counter (`Bump`) are one step: CPython 3.13
(`Dockerfile.core`) lets another thread run at function entries, calls and backward
jumps, and between `self.next_valid_order_id += 1` and
`order_id = self.next_valid_order_id` (`ib.py:385`) there is none of these.
`cancel_order` is `CancelSend` and
`CancelWrite`. Each callback is one action with everything it calls: `openOrder`
includes the notification and its UPDATE, or the database error that ends the
reader thread.

A permId is unique and never a small integer, so the model writes the client id
for both; where the code confuses the two (`completedOrder` pops by permId from a
dictionary keyed by client id) the model does what the code does, nothing.

`IB_STATUS_MAP` is looked up with `.get`: a status of TWS that it lacks (`PendingCancel`,
between a cancellation and its confirmation) becomes None, and a row gets the text
`None`. The model has that status, in entries and in rows.

`contractDetails` is in `OrderFlow` for this alone: when `Register` adds a key while the
reader is inside the loop (`Clashes`, one event of the budget), the next thing the reader
does is to raise, which ends the session. What the callback is for is in `IBRequests`.

The broker (`Report`, `Confirm`, `Fill`, `Reject`, `Warn`, and how it answers `reqIds`,
`cancelOrder` and the polls) is external and modelled from how the callbacks use
it. Three constants name what the code cannot decide: `EarlyAck` (a report may
overtake the last statements of `IB.place_order`), `RejectShowsOrder` (a rejection
comes with an openOrder message), `StatusAlone` (an orderStatus may come for an
order whose openOrder this process has not seen).

### IBRequests: state and actions

| model | code |
|---|---|
| `pc`, `ids`, `size`, `mine`, `result` | where a call is; the request ids it has; in the loop over `handled_requests`, the length it began with; the id read under `request_lock` and not yet registered; what it has found |
| `lock`, `next` | `request_lock`; `nextMarketDataId`, `nextContractDetailId`, ... by type |
| `handled`, `status`, `heard` | `handled_requests`, the status of its entries, `contract_details` and `ticks` by id |
| `ready` | `account_data.account_ready` |
| `connected`, `reader` | `isConnected()`, the thread that runs `IB.run` |
| `search` | the reader's loop over `open_orders` in `contractDetails`: none, on, or on with a new entry since |
| `asked`, `ended`, `budget` | what TWS has been asked in this session, what it has answered to the end, how many faults are left |

A call is one run of a handler of the RPC thread (`"ticks"`, `"chain"`, `"legs"`),
one run of `init_ib` (`"init"`, which catches everything and begins again) or one
poll of `main_loop` (`"poll"`). It asks for its keys one after another, and each
pass through `make_request` is `Ask` (the two checks), `Scan` (the loop that
looks for an identical request, *before* the lock), `Send`, `Number` (under the
lock) and `Store` (after it), so that other threads and callbacks run in between. The
`Read...` actions are what the callers do next; a `"legs"` call, its legs found,
ends with `Place`, the `IB.place_order` of the spread. A key stands for what `__eq__`
compares.

TWS's answers arrive and are handled in order by one thread and nothing else looks
at them on the way, so `contractDetails(i, k)` is TWS's sending of an answer to
key `k` under id `i` together with the callback. A callback for an id that is not
in `handled_requests` calls a method of None, which ends the reader (`SetStatus`).
A handler that looks at the statuses of several legs does so in one step
(`ReadTicks`), and `contractDetails` sets the status and appends the contract in one:
the moment in which the status is RESPONDED and the list still empty is left
out. Its loop over `open_orders` (`ib.py:855-864`) is a step of its own
(`Searched`), which raises if `Place`, or an order of another thread (`PlaceOther`), has
added an entry since it began. Error codes of `EXEMPTED_ERROR_CODE` change nothing and
are left out too.

An answer may come as soon as the request is sent, so also before `make_request` has
registered it: the callback then raises, as in the code. `ReaderSurvives` says that this,
the loop over `open_orders` and a lost session are all that ends the reader.

Two assumptions say where the model applies: the threads ask for different
things (`KeysAssumption`: the RPC thread asks for contracts and quotes, `init_ib`
for the account), and the id ranges of the types have not met
(`RangesAssumption`).

### DeltaHedge: state and actions

| model | code |
|---|---|
| `held`, `unit`, `expired` | external: the broker's positions, the delta of one contract, options past expiry |
| `size`, `filled`, `life` | external: stock orders at the broker, the hedge's and the users' (`UserOrders`), each of the stock `StockOf` gives |
| `position`, `delta` | `account_data.portfolio`: `position`, and an option's greeks as one number (None before the first computation) |
| `remaining` | `open_orders[o].remaining` |
| `main`, `exps` | where `compute_position_greeks` is, and the expiries it has a sigma for |
| `hedger`, `seen` | where the hedge thread is; `position_delta` |
| `shock` | history: by how much the exposure has moved without the hedge; a user's stock order counts twice, once for itself and once because a late report of it misleads as one of the hedge's own does |
| `misread` | history: by how much greeks were off when they were computed, since TWS had not yet reported a position in full |
| `happened` | how often each kind of outside event has happened; `Allowed` bounds it in a run and is any operator for the proofs |

A round of the hedge is `get_position_greeks`, then `hedge` or `NoHedge`, then
`Placed`; reports may come between the two sums. The callbacks `openOrder`,
`orderStatus`, `error` and `updatePortfolio` are the sending and the handling of
a message in one. A round of `main_loop` is `get_option_expiries`, then
`compute_option_position_greeks` or `ComputeRaises`. `get_order_delta` sums every stock
order in `open_orders`, the users' too, and `get_net_greeks` gives delta 1 to whatever is
not an option; `Exposure` measures as they do. `UserOrder` is a stock order placed through the
RPC server, of which TWS may never say what remains. Two things are assumed: stocks are
traded through this program only, and the session stays up (what its
loss does to an order is in `OrderFlow`).

### CoreSession, RpcBus: state and actions

| model | code |
|---|---|
| `starter`, `handler` | the main thread: in `connect_ib` or through `start`; in `graceful_shutdown` |
| `dialling`, `connected`, `flags` | who is inside `IB.connect`; `isConnected()`; the shutdown flags that are set |
| `thread` | the threads that `start` starts, but the RPC server's |
| `consumer`, `hand`, `response` | the thread of `RPCServer.start`: which step of `on_request`, for which request, with which answer |
| `queue`, `unacked`, `link`, `replies` | RABBITMQ_QUEUE, the delivery that is not acknowledged, core's connection, replies on their way to callback queues |
| `call` | what `RPCClient.call` has returned |
| `lacking`, `unread` | what the handlers would not find: greeks, a database connection, an expiry to come, ...; calls with a body that their handler cannot convert |
| `stuck` | the wait for TWS that the consumer is in has no end |
| `ran`, `broken` | history: how often a request was carried out; whose delivery was broken off |

`on_request` is `Deliver` (with the connection check), `Handle` or `HandleRaises`, for
handlers that search TWS's contracts `Found`, for an order `Send` and `Answered` (the wait of
`OrderManager.place_order`), then `Publish` and `Ack`; the connection or the
process may go between any two. `Needs` gives for each of the sixteen request types
what its handler raises without. An answer is done, refused (there is no session) or
failed, any other error. 'Failed' can come before the order is sent or after it: the order was
rejected, a warning was taken for that, or the INSERT failed (`rpc.py:486-497`). A wait
may be one that never ends (`Await`), and then holds the only consumer.
A signal is `Signal` (the flags) and `Shutdown`
(disconnects and `close`), between any two steps of the starting thread. RabbitMQ is
external: a delivery that is not acknowledged when its connection goes is
at the head of the queue again.

`RpcService` has `call`, `ran` and `broken` only, so the refinement maps them to
themselves: `ImplementsService` says that queue, acknowledgement, redelivery,
deaths and restarts never let a caller see more than: a request is carried out at
most once unless its delivery was broken off, and answered as done only if it was
carried out and as refused only if not. An answer that it failed promises neither.

### MarketClock, DataCollector, Screener: state and actions

| model | code |
|---|---|
| `day`, `phase` | the date, and the part of the day in New York; `Uncovered` where `exchange_schedule` ends and `is_open_now` raises |
| `jobs`, `cron` | the scheduler's jobs; what the cron job that has fired is doing |
| `todo`, `queue`, `order` | what the threads of `_put_job_queue` have to put, `option_queue`, and the order in which it was filled |
| `batch`, `run`, `closing` | `job_batch` and how far `update_option` is; history: what it has fetched since the close |
| `symbols_curr`, `curr_earning_date`, `lookahead_earning_date`, `asking` | the fields of the same names; `update_earnings` waits for its answer |
| `missed`, `misses` | the day's cron runs that did not happen; how many in all |
| Screener: `thread`, `next`, `batch`, `rounds` | where `run` is, which expiry comes next, whether the list of pairs was built, whether a round is complete |
| `chains`, `moneyed` | `option_chains`: last ticks, and options whose moneyness is computed |
| `draft`, `profitable_spreads` | the list of this round and the published one |

`update_option` takes one pair in each `Take`, so that the close can come between
two; `reset`, the threads of `_put_job_queue` and `init_jobs` are steps of their
own. In `Screener` the mid price, the choice of a condor's strikes, the premium and
the payoff at expiry are operators on whole numbers, translated from `option.py` and
`mathtools.py`; deltas are a choice among curves that decrease in the strike.

## Runs

| run | instance | shows |
|---|---|---|
| `orders_ids` | 3 orders, 2 threads, ids up to 6, one of them a request's too, no faults | `UniqueIds`, `NoOrphans` |
| `orders_ledger` | 2 orders, 2 threads, ids up to 4, one of them a request's too, one cancellation, one restart, one order that meets the loop of `contractDetails` | `RowsAcknowledged`, `ImplementsLedger` |
| `orders_faults` | 1 order, every fault once, reports that overtake, lone statuses, a cancellation that is confirmed later | `TypeOK`, `FilledIsReal`, `NoOrphans`, `FilledRowsStay` |
| `orders_live` | 1 order, two cancellations, two restarts, fair | `Settles`, `PlaceReturns` |
| `orders_rejected` | 1 order, a rejection by error message alone, fair | `PlaceReturns` is violated |
| `orders_rows` | 1 order, fair | `WorkingRowsFound` is violated |
| `requests` | an option chain, then a spread of another expiry, then a quote, while `init_ib` runs; each fault and another thread's order once; answers as early as can be | `TypeOK`, `IdsStand`, `OneSubscription`, `LegsFound`, `ReaderSurvives` |
| `requests_chain` | an option chain while `init_ib` and a poll run, no faults | `ChainWhole` is violated |
| `hedge` | one option, SPY and one other stock, five hedge orders and one of a user; any four of: a trade, a move, an expiry, a cancellation, a rejection, a failing round, a late report; or any three with two trades; or the user's order with any one | `TypeOK`, `TurnoverBounded`, `Rebalances` |
| `desk` | an order and an account request; two of: lost session, failed connect, signal, hedge order, restart, lost connection to RabbitMQ, missing greeks, a body that cannot be read, a wait without end, a caller that leaves | `TypeOK`, `NothingLost`, `AnswersTrue`, `ImplementsService`, `Served`, `Stops` |
| `collector` | two symbols with two and one expiries, four days with a holiday, a schedule of three, one missed cron run | `TypeOK`, `Collects`, `InTurn`, `ClosingSnapshot`, `Drains`, `EveryoneSeen` |
| `screener` | three strikes, expiries on the second and third of three days, a schedule of two days; a whole chain, one with a gap and without trades, an update without a quote | `TypeOK`, `LossBounded`, `ReadersServed`, `Stops` |

`CHECK_DEADLOCK FALSE` everywhere: a system whose orders are all done stops.

Bounds, and why they are enough:

* Orders and threads: the hazards of the id counter need two threads and an
  answer to the `reqIds` of a third, earlier order, so `orders_ids` has three.
  The row and market of an order depend on other orders only through ids and the
  UPDATE's WHERE clause, for which two are enough.
* `MaxId`: each order uses one id, and a restart, lost send or stale answer to
  `reqIds` skips some; the bound leaves at least one spare id in every run. A
  `Bump` beyond it is disabled (the only guard a bound adds to the code's own).
* `Budget`: how often each of cancel, clash, drop, dbFault, restart and warning happens.
* `PlainBroker` (`orders_ids`) and `PromptBroker` (`orders_ledger`) cut states of
  the broker that have no bearing on the question: fills and cancellations on
  ids, and an order held as PendingSubmit, for the ledger.
* `Poll` waits for an empty inbox: `main_loop` sleeps five seconds, the reader
  does not. This keeps the inbox short, and nothing else bounds it.

* `requests`: two chains of two contracts with the same strikes, so that an answer
  of one could be taken for the other's and a search can find half of its legs;
  one quote; the account summary and the PnL subscription, of which the
  second can fail and send `init_ib` back to the first. Five of the six keys are asked for (the
  sixth, executions, is `requests_chain`'s) and ids go up to six: no id range has room
  to spare. `InOrder` has the RPC thread make its calls in one order, and
  the quote wait for `init_ib`; all other interleavings are there.

* `RequestIds` (`orders_ids`, `orders_ledger`): 3 is an order id that `make_request`
  has used too, so that an error for that order goes to the request (`ib.py:474`).
* `hedge`: five orders are as many as the events of the run can call for: a hedge
  that ran out of orders outside its margin would violate `Rebalances`. A user's order can be rejected,
  cancelled, never reported or reported late, of a stock that is not SPY, all within two events, and
  is hedged in SPY. `FewEvents` lets any four kinds of
  event meet in every order, and a second trade overtake the report of the first, whose greeks
  are then of half a position. One option suffices for a sum of which the underlying is
  the other part; `TurnoverIsBounded` holds for any number.
* `desk`: an order waits for TWS and an account request needs greeks, so one can block
  and the other kill the consumer. Two events (`MaxEvents`) make the pairs:
  a lost connection and a restart, a signal while reconnecting, a caller gone before a
  redelivery.
* `collector`: three pairs and batches of two, so that a batch may end in the middle of
  the queue or be cut by its end; the windows of earnings dates (1 or 2 back, 1 ahead
  for 5, 10 and 60) keep their order; the days go over a holiday and past the schedule.
* `screener`: three strikes are the fewest in which long, short and money can differ, and
  in the chain with a gap legs coincide; the first expiry passes on the evening of the second day, and
  the schedule ends before the third.

Assumptions on time, which the guards of the clock's actions state: cron jobs finish,
and a closed option queue has run empty, before the next moment of the day (`Six`
and the others); update_option does not begin again while it runs, since `max_instances` is
1; a run that starts more than one second late is missed (`misfire_grace_time`),
which happens at most `MaxMissed` times; a screener's round does not outlast the evening.
In `DeltaHedge`, a report that is behind when a round begins, or that falls between
its two sums, counts as a "late" event: the loops sleep for seconds
and TWS answers in less.

Fairness:

* `OrderFlow`: weak for each `place_order` call, for `CancelWrite`, the reader and the
  reconnecting main loop (running threads); weak for the broker's first answer to an
  order, which TWS always gives; strong for `Poll`, since `main_loop` repeats it every
  five seconds for as long as the process runs and its guard (an empty inbox) keeps
  recurring. Nobody has to place, cancel or fill. `IBRequests` checks no liveness.
* `DeltaHedge`: weak for the two loops, which catch everything, and for TWS's
  answers and reports, but not for the answer to a user's order, nor for the first report of
  what remains of it. The market has to do nothing; its events are bounded, so it falls
  quiet.
* `RpcBus`: weak for each thread, for the consumer and the broker's deliveries, and for
  `connect_ib`, which tries every five seconds and is refused a bounded number of
  times. A wait for TWS is over once the session is up and read, unless it is one that has
  no end. No caller has to call, nothing that is lacking has to come back.
* `DataCollector`: weak for each job that the scheduler has, in threads of its own. Time
  owes nothing: a property may not rest on a next day.
* `Screener`: weak for its thread, whose calls answer or fail.

### What the violated runs show

* `orders_rejected` — `order_management.py:51` loops while the status is INIT *or*
  the permId is 0. A rejection that TWS reports with `error()` alone sets the
  status to REJECTED (`ib.py:486`) and never gives the `Order` object a permId, so
  the call never raises the `'Order is rejected by IB'` of line 56 and the calling
  thread, which may be the only RPC consumer, is stuck.
* `orders_rows` — the `IBOrder` made by `place_order` is never subscribed to the
  order-update callback (`ib.py:390` stores it as it is; only entries made by
  `openOrder` or `orderStatus` subscribe). A row written as `Submmiting` keeps that
  status while its order works, and the queries for open orders look for
  `Submitted` (`database.py:629`, `698`).

* `requests_chain` — `handle_option_chain_request` stops waiting at status RESPONDED
  (`rpc.py:302`), which `contractDetails` sets for the first contract (`ib.py:852`);
  that there are no more is said by FINISHED (`ib.py:871`). The caller gets the
  contracts that have arrived by then, and nothing tells it that there are more. The
  search for a spread's legs reads the same status but goes on until it has
  them all, which is why `LegsFound` holds.

Facts met on the way, which the properties allow for: rows are brought up to
date by `completedOrder` alone while the process that placed them lives; after a
restart, an `orderStatus` that precedes every `openOrder` ends the reader thread
(`ib.py:777`); a reconnected session has no reader; a crash between sending and
saving leaves an order without a row (`lost` in the model, which `NoOrphans` does
not speak of); a database failure or a warning in that window makes `place_order`
raise while the order works, so `NoOrphans` speaks of the states before the first of
them (`Calm`). The
search for a spread's legs ends only with all of them (`order_management.py:186`): after
an error, or when the chain lacks a strike, the RPC thread turns in it for ever
(`ReadLegs` is not enabled again). A request that failed is never made again: `make_request`
returns the id of the failed one (`ib.py:192`). A status that `IB_STATUS_MAP` lacks, such as the
`PendingCancel` TWS sends after a cancellation, is written to the row as `None`
(`ib.py:723`, `766`, `801`), until a report of how the order ended replaces it.

Two races end the reader thread, and with it the session, while TWS is well. The
reader goes through `open_orders` for each contract that arrives (`ib.py:857`) while
`IB.place_order` adds to it in another thread (`ib.py:390`): a RuntimeError leaves the
callback. And an answer that comes before `make_request` has made its entry in
`handled_requests` (`ib.py:305`) finds None there. `main_loop` reconnects, but nothing
starts another reader.

Of the desk and the session:

* A handler that raises (account values or orders without a database connection, the account
  without greeks, a term structure over an option without moneyness, the portfolio with an
  expired option, the term structure or the GEX with an expired chain) leaves `on_request`. So
  does one that cannot convert its body: `rpc.py:431-465` is outside the `try`, and a request
  for the volatility's history may come without `'history'`. The thread ends, nothing starts
  another, and its message waits unacknowledged until the connection dies; `RPCClient.call` has
  no timeout. `Served` therefore excepts callers of a consumer that is `Deaf`. The handler of
  account values means to catch a failure, but `json.dumps({'error': e})` raises in turn.
* A caller that is told of an error does not know whether its order is out: `rpc.py:486-497`
  answers alike what failed before the order was sent, a rejection, a warning that was taken for
  one, and an INSERT that failed after TWS had taken the order. `RpcService` therefore promises
  nothing of 'failed'.
* Two waits of the one consumer may never end: for the permId of an order that an error alone
  rejected (`order_management.py:51`), and for a leg that TWS does not list or whose
  request failed (`order_management.py:186`). Everyone behind it waits as well;
  `Deaf` names them (`stuck`).
* A redelivered order is placed again (`AnswersTrue` allows it only then), and a caller may be
  told 'refused' by the second delivery of what the first has carried out.
* `shutdown` logs 'Everything stopped' (`core.py:91`). `Stops` has the exceptions: a
  thread that waits inside `place_order`, `init_ib` that looks at no flag while there is no
  session, and an `IB.connect` that was under way and connects after the disconnect.
* `connect_ib` returns after a signal without a session, and `start` starts every thread
  nevertheless.
* `ib.is_connected` is tested without being called in `handle_order_request`
  (`rpc.py:427`); `OrderManager.place_order` makes the test good. The route for an order
  of a single option, and the one for ticks of what is neither equity nor option, use
  names that are not bound, and fail in web.

Of the hedge: `compute_option_position_greeks` multiplies the position that has been reported, which
may not be the one that is held. After a trade and its opposite, of which TWS has reported only the
first, a change of the option's delta is hedged although the account is not exposed to it, and traded
back when the rest is reported. `misread` counts this; TLC found that `TurnoverBounded` does not hold
without that term, nor with it taken once instead of twice. Any stock in the
account, and any working stock order, counts as SPY with delta 1 (`account.py:147-148`,
`deltahedge.py:62-66`), so a user's purchase of another stock is hedged by selling SPY. A user's
order that is rejected, or of which TWS does not say what remains, blinds the hedge as one of its
own does. After a rejection its own order counts as unknown for ever, and after an
expiry `compute_position_greeks` raises in every round, since nothing leaves the
portfolio. `Rebalances` names these (`Blinded`). Forecasts are cached by horizon for as
long as the process lives.

Of the schedules: `reset` assigns `self.schedule`, which nothing reads, so after a week
`check_open` raises and only the market-open job and the bars are left; the screener's thread
ends then. A cron run that was missed is not made up for. A screener that was started with the
market closed has never built its list of pairs, and ends at the next opening; one started on an
expiry day after 20:00 in New York holds a chain without moneyness for ever, over which the term
structure raises, in the RPC server's thread. From the evening of the first expiry on it always
raises, and the GEX with it: `get_dte` asks for a schedule that ends before it begins
(`util.py:22`), and a chain never leaves `option_chains`. `ReadersServed` says so for the
readers of `screener.py:212` and `:223`, and that they find all else. An option without a quote,
or an empty chain, ends the screener. The premium of a published spread is that of its round,
while the prices of its legs go on moving. On a chain with a gap a condor's short put may lie
above its short call; then both wings can lose at once, which is why `Bounded` takes the sum of
the two, and not the wider one.

## Theorems

A theorem holds for every value of the constants that the `ASSUME`s of its module
allow, that is for any number of orders, threads, requests, symbols, expiries, faults and
restarts; a run shows the same on one instance. Where a theorem needs more, it says
so in an `ASSUME ... PROVE` or beside `Spec`; every such condition is named below. Each invariant was
checked by TLC on the instances of the runs before it was proved.

### Orders

| theorem | condition | says |
|---|---|---|
| `OrderFlow_proofs!TypeCorrect` | | `Spec => []TypeOK` |
| `OrderFlow_proofs!FilledRowsAreReal` | | `Spec => []FilledIsReal` |
| `OrderRows_proofs!RowsAreAcknowledged` | | `Spec => []RowsAcknowledged` |
| `OrderRows_proofs!FilledRowsKept` | | `Spec => FilledRowsStay` |
| `OrderRows_proofs!NothingOrphaned` | | `Spec /\ []UniqueIds => []NoOrphans` |
| `OrderRows_proofs!LedgerImplemented` | | `Spec /\ []UniqueIds /\ []Calm => ImplementsLedger` |
| `OrderRows_proofs!IdsAreUnique` | `Desk` | `Spec /\ []connected => []UniqueIds` |
| `OrderRows_proofs!NothingOrphanedOnline`, `LedgerImplementedOnline` | `Desk` | the two before with `[]connected` instead of `[]UniqueIds` |
| `OrderRows_proofs!SessionLasts` | `StatusAlone = FALSE` | `Spec => [](Undisturbed => connected)` |
| `OrderRows_proofs!DeskIsSafe` | `Desk`, `StatusAlone = FALSE` | `Spec => [](Undisturbed => UniqueIds) /\ [](Undisturbed => NoOrphans) /\ ([](Undisturbed /\ Calm) => ImplementsLedger)` |

`Calm`: no statement of the database has failed so far and no warning has come. `Undisturbed`: so far
the connection has not been lost, no statement has failed, and no order has been registered inside
the loop of `contractDetails`. Both are about the behaviour,
not about the constants: the budgets of faults may be what they like, and the theorems say what
holds up to the first of them.

* `TypeOK` is not inductive alone: a restart and `NextFree` need every id the broker
  knows and `next` to be in range, hence `TypeInv == TypeOK /\ IdsAllocated`.
* A row says Filled only if some callback heard it, or `place_order` read it from
  `open_orders`; either was true of the broker then, and Filled is final there. `FilledInv`
  says so of each place a fill can be on its way: the inbox (`ReportsReal`), and `open`,
  `saw` and `db` (`OrdersReal`).
* `RowsInv` follows a status on its way from the broker through the queue, the entries of
  `open_orders` and what `place_order` has read, to the row: none of them speaks of an order the
  broker has not taken (`Told`, `EntryTrue`, `OrderTrue`), and the queue is ordered, so that after
  a fill nothing earlier about the same order comes (`Ordered`, `Late`). This is why no late or
  repeated report undoes a filled row; `cancel_order` can, since it writes its row
  without looking at the order, and `FilledRowsStay` excepts it.
* `NothingOrphaned` needs that bad news is true. `OrphanInv` says that an Inactive, a 202
  or a rejection in the queue is of a dead order, or of one that a row names already (`NewsTrue`),
  and that the entry `place_order` has made is taken away by 202 alone (`CallTrue`). `Calm`
  (in `NoOrphans` itself) and `[]UniqueIds` are needed:
  a warning, a failing INSERT and another call's rejection under the same id each make
  `place_order` raise while its order works. A budget is only ever spent (`BudgetInv`,
  `SpentStays`), so a state that is calm comes after calm ones, and `OrphansUnlessFaults` is
  inductive.
* `LedgerImplemented`: the mapping is the one of the run `orders_ledger`. There is one lemma per
  kind of step (`BeginMoves`, `TakeMoves`, ...) that gives the ledger's step, and `Rests` for
  the stutters. `OwnersInv`, that the broker knows no id that no call has, is what lets a report
  be read as a step of some call's order.
* `IdsAreUnique` is the delicate one. `nextValidId` overwrites the counter with what TWS
  answered to an earlier `reqIds`, in the reader thread and without `order_lock`. `IdsInv` shows
  that this never takes the counter below an id in use while the session stays up: an answer
  under way names one more than the id of an order whose call still waits for a report behind that
  answer (`PendingInv`, `Owns`), so one thread is busy; and the other, being one (`ThreadsInv`), can have
  taken at most one id since, which is the one the answer names. Hence no id given out is above the
  counter, nor above any answer under way (`AboveInv`). `Desk` says just that: two placing threads, which is
  what core has (the RPC consumer and the hedge), and no report before `IB.place_order` has
  left the lock (`EarlyAck = FALSE`: a round trip against two statements). `[]connected` cannot be
  left out. TLC found why: an order sent over a session that is just lost never reaches TWS, whose
  `nextValidId` after the reconnection is at or below its id, and the next call takes that id again while
  the first still waits.
* `SessionLasts`: the only thing besides a lost connection that ends a session is an
  exception in a callback. Three can raise: one whose UPDATE fails, `contractDetails` when its loop
  meets a new order (both end `Undisturbed`), and an orderStatus that finds an entry without a
  contract. `SessionInv` says that an orderStatus follows the openOrder
  of its order, or that this has left an entry with a contract, so `IBOrder.notify` never
  reads what is not there, whatever `place_order` and restarts do in between. `StatusAlone = FALSE`
  rules out a TWS that sends an orderStatus alone; the other two happen in runs, a failing
  UPDATE in `orders_faults` and `contractDetails` in `orders_ledger`.
* `DeskIsSafe` puts the four together: `DeskInv` carries `IdsInv` and `OrphanInv` up to the first
  fault, beside `SessionUndisturbed`, which gives the `connected` that `IdsKept` needs.

### Requests

`IBRequests_proofs` proves `TypeCorrect`, `IdsStandForRequests` (`[]IdsStand`), `AskedOnce`
(`[]OneSubscription`), `LegsAreFound` (`[]LegsFound`) and `ReaderGoesOn` (`ReaderSurvives`) from
the assumptions of the module alone. The last names what ends the reader: a lost session, an answer to a
request that is not registered yet, an order that enters `open_orders` inside the loop of
`contractDetails`; and says that nothing else does. The
invariant is `RegistryInv`. Its heart: a number taken under `request_lock` is one
call's own until that call has registered it (`NumbersInv`), and what a call is about
to register is in no entry, although the scan for it was made before the lock (`NewKeysInv`) —
because the other threads ask for other things (`KeysAssumption`). That an id of one
type is never one of another is a counting argument: every id that was taken belongs to a
key, or for executions to a call, of its own (`OwnersInv`), so no more are taken than
`RangesAssumption` leaves room for.

### Hedge

`DeltaHedge_proofs` proves `TypeCorrect` and `TurnoverIsBounded` (`[]TurnoverBounded`) without
conditions. The property alone is far from inductive: it says what has been traded and nothing
of what is about to be. The proof is an accountant's. `Potential` is the size of all stock
orders, the users' too (`Volume`), plus by how much each option's greeks are behind the truth
(`Lags`), plus what the hedge is yet to trade (`Owed`): how far the greeks and its orders, once
filled, leave it from zero (`Stands`), or in the middle of a round what it is about to trade
(`Net`) and what it will then find. `PotentialInv` bounds the potential by the shocks, twice the
misread greeks, and three for each late report. Every step keeps to that (`EveryMove`):

* A trade, a move or an expiry makes one option lag by as much as the exposure has moved
  (`MarketGrows`); a cancelled or rejected order is owed again, and `shock` counts it; a user's
  order is both volume and owed, and `shock` counts it twice (`UserMoves`).
* New greeks turn lag into debt. What they are off stays as lag and is owed as well, hence twice
  `misread` (`ComputeGrows`).
* `hedge` turns debt into volume: the order is of just the size that was owed (`HedgeMoves`).
* A round that begins with everything reported finds what it owes, since the position, what is
  left of the working orders and what the cancelled ones had filled add up to what the orders
  bring (`OrderParts`, order by order). A round that begins late is wrong by at most all
  that was ever ordered (`ViewWithin`), and an order's report between the two sums by its size
  (`CountTrebles`); so the potential trebles at worst.

The hedge's turnover is within the volume (`TurnoverInVolume`). `OrdersInv` keeps `remaining`
between what is left of an order and its size; `StockInv` says of every stock that its position
is what the orders of that stock have filled (`HeldInv`), and that the reported positions are
what they had filled at some earlier time (`ReportedInv`), which is what makes a late position
no worse than late. Summed over the stocks, that is a sum over the orders (`ReportedSum`). TLC
checked these invariants, and the potential step by step, before they were proved.

The sums are folds of the community modules, and the proof needs that a fold's recursive
function exists. `DataLemmas` shows that from a least counterexample among the finite sets
(`SubsetInduction`, from the library's theorem that strict inclusion is well-founded there), and
then what is used of sums: they are integers, add up term by term, and change by what one term
changes (`SumPlus`, `SumWithin`, `SumChange`, `SumOfPart`), or kind by kind (`SumByKind`).
`Powers` does the same for `PowerOfThree` over the natural numbers.

### Desk

`RpcBus_proofs` proves `TypeCorrect`, `NoRequestLost` (`[]NothingLost`), `AnswersAreTrue`
(`[]AnswersTrue`) and `Implements` (`ImplementsService`) without conditions. `BusInv` says that
the delivery is of a request that is not in the queue, that a request is somewhere until its
caller has an answer, and that the consumer has an answer whenever it is about to publish one.
`TruthInv` adds what makes an answer true: a request in the queue, or just delivered, is
untouched or its delivery was broken off before, and so is one that is still searched for or
about to be sent; an answer 'done' or 'refused' is only given on the right side of the send,
'failed' on either. `RpcService` is implemented with the identity as refinement mapping; each
step is one of the service or leaves its three variables alone.

### Collector and screener

* `DataCollector_proofs`: `TypeCorrect`, `Collecting` (`[]Collects`), `QueueInTurn` (`[]InTurn`),
  `SnapshotComplete` (`[]ClosingSnapshot`). `CollectorInv` hangs on when "option" is in the
  scheduler: as long as it is not, nothing has touched the queue since it was filled
  (`UntouchedInv`); once it is, the market is open, or the job was left over because
  the morning's reset was missed, and then the queue has run empty (`LeftOver`). A batch
  takes from the front and puts to the back, so the queue stays the day's list turned round.
* `Screener_proofs`: `TypeCorrect`, `ReadersFind` (`[]ReadersServed`) and, for `LongTarget <
  ShortTarget`, `LossesBounded` (`[]LossBounded`). The readers find moneyness and prices
  (`Served`) because no download brings options of an expiry that has passed, and the round
  before it passed has computed the moneyness of those that are there (`ChainsInv`, `PassedInv`,
  `ScannedInv`); so `get_dte` alone decides, and they answer until the first expiry has passed
  and never after. The loss is arithmetic over any strikes and quotes: the two legs nearest to
  the targets lie in the order of the targets (`LegsInOrder`), and a wing's long leg pays for
  its short leg beyond it (`WingsPay`), so that a condor loses at most both wings less the
  premium. The condition is a setting's: `.example_env:60-61` has 0.25 for the short and 0.1 for
  the long target; with the two exchanged a condor is bought rather than sold.

### Left to TLC

Every safety and action property and both refinements of the passing runs are theorems,
with the conditions above.

* Liveness, out of the prover's reach: `Settles`, `PlaceReturns`, `Rebalances`, `Served`,
  `Stops`, `Drains`, `EveryoneSeen`. So is deadlock, which is about `ENABLED`.
* Where the runs and the theorems differ: `orders_ledger` checks the refinement through one cancellation
  and one restart, with the ids of `RequestIds` taken by requests; `LedgerImplementedOnline` has any number
  of them. The runs have no early acknowledgement together with `UniqueIds` either.
* The violated runs have counterexamples instead of proofs.

## Plan

1. `OrderFlow`, `OrderLedger` and their first proofs (done).
2. `IBRequests` (done).
3. `DeltaHedge`; `CoreSession`, `RpcBus`, `RpcService`; `MarketClock`,
   `DataCollector`, `Screener` (done).
4. Theorems about `OrderFlow` with the refinement of `OrderLedger`, `RpcBus` with that of
   `RpcService`, `IBRequests`, `DataCollector`, `Screener` (done).
5. `DeltaHedge`: the turnover, through a potential and lemmas about sums (done).
6. `NothingOrphaned`, `SessionLasts` and `DeskIsSafe` up to the first fault, instead of on
   constants without faults (done).
7. A model of `RpcBus` and `OrderFlow` in one, with orders of which the redelivery is
   followed to the rows.

## Not modelled

* Numbers: implied volatilities, greeks, surfaces, regressions, the Monte Carlo
  expected value. They are floating point; where a program step depends on one, the model
  chooses it.
* Account values, PnL and the JSON of positions: stored by one thread and shown.
* The data sources and the web pages and routes that do not ask core: input and output
  without state.
* `execDetails`, which only adds prices; the tables for prices, earnings and company
  data, each of which one caller writes and one reads.
* TWS, RabbitMQ, the exchange's calendar and the scheduler, beyond what the code can see
  of them.
