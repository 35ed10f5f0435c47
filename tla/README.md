# GoQuant in TLA+

A verification project for the GoQuant matching engine: TLA+ modules that model
its order book, its stop orders, the two at work together under the price loop and
the feed, the threads and mutexes of its process, its settings and snapshots over
several lifetimes of that process; TLC configurations that check them on small
instances; and proofs, for instances of any size, of every safety property that the
passing runs check: of the book and its refinement, of the stops, of engine, threads and
mutexes, and of settings, snapshots and load over any number of processes.

## 1. The system

GoQuant is one C++17 process.  Clients send JSON messages over a WebSocket; the
matching engine keeps one limit order book per symbol; a feed broadcasts best
prices, depth and trades; stop orders wait until the mid price reaches them;
snapshots of the books go to SQLite.

| component | source | state | operations |
|---|---|---|---|
| Order, Trade | `include/core/order_types.hpp`, `trade.hpp` | quantities, status | `fill`, `is_fully_filled` |
| OrderBook | `core/order_book.cpp` | `bids_`, `asks_` (price -> queue), `order_lookup_`, `book_mutex_` | `add_order`, `cancel_order`, `modify_order`, best prices, levels |
| MatchingEngine | `core/matching_engine.cpp` | `order_books_`, `engine_mutex_`, counters | `submit_order`, `cancel_order`, `get_order_book`, `add_symbol`, `update_market_price` |
| AdvancedOrderManager | `core/advanced_orders.cpp` | `advanced_orders_`, `orders_mutex_` | four `add_*`, `cancel_advanced_order`, `check_triggers` |
| process | `main.cpp` | the service objects, threads | start-up, price loop, snapshot scheduler, performance monitor, `signal_handler` |
| MarketDataFeed | `market_data/market_data_feed.cpp` | `running_`, thread | `start`, `stop`, `run_feed`, `on_trade_executed` |
| HealthChecker | `monitoring/health_check.cpp` | `running_`, thread, `last_status_` | `start_continuous_check`, `stop_continuous_check`, checks |
| WebSocketServer | `api/websocket_server.cpp` | subscriber maps, connection count, two mutexes | requests, broadcasts |
| SnapshotManager | `persistence/snapshot_manager.cpp` | a SQLite handle, the table behind it | initialize, save, load, clean up |
| ConfigManager | `config/config_manager.cpp` | engine and symbol settings, `config_mutex_` | `load_config`, `save_config`, getters, `validate_order` |
| SystemInfo | `utils/system_info.cpp` | two static counters | `get_system_usage` |
| FeeCalculator, counters, UUIDGenerator, JsonSerializer | `fees/`, `utils/`, `api/` | little or none | arithmetic, measurement, conversion |

`trade.cpp`, `logger`, `benchmark`, `event_logger`, `metrics_collector` and four
of the test files are empty.

**How they interact.**  Every call is synchronous and every component has a
mutex of its own, so the interaction is an order of nested locks:

    check_triggers: orders_mutex_ -> engine_mutex_ -> book_mutex_
    submit_order, while matching:    engine_mutex_ -> book_mutex_ -> subscribers_mutex_
                  afterwards:        engine_mutex_ -> subscribers_mutex_
    close handler:                   connections_mutex_ -> subscribers_mutex_
    feed, health, snapshots:         engine_mutex_, released, then book_mutex_ twice

`submit_order` reports the trades of an order twice: each as it is executed, through the
callback it gives to the book (`matching_engine.cpp:24-26`), with both mutexes held; and
all of them again in a loop (`:34-38`), after `book_mutex_` was given
back.  `signal_handler` runs on whichever thread the signal interrupts, joins feed and
health checker there, and calls `exit`.

**What is hard.**  The matching loop updates the taker, the maker, the level and
the lookup in one round, with cached positions in vectors that shift
(`order_book.cpp:106-135, 205-252`); `check_triggers` erases while it walks and
submits in between (`advanced_orders.cpp:89-167`); six threads share six kinds
of mutexes; the signal handler joins threads; the price loop, the feed and the
snapshots each read a book in two halves with orders in between; a kill may hit
between the opening of the settings file and its writing, or between the parts of a
snapshot; the fill tolerance 1e-10 is used in three places.  `PROJECT.json` lists
the hazards one by one, at their lines, with the properties that cover them.

**What makes each component correct.**

* OrderBook: the lookup locates exactly what rests; fills add up; older orders of a level
  trade first; limits are respected; fill-or-kill is all or nothing; a cancelled order
  never trades; no order gets lost; `add_order` returns.
* AdvancedOrderManager: an order is pending, cancelled or submitted, and the last two
  once; none that is due is passed over; trailing triggers follow the extreme price;
  orders trigger in the order of adding.
* MatchingEngine and process: locks are nested without a cycle; subscribers see the trades
  in the order they are executed, and those of one order (twice) before any of the next;
  the server comes up, and a signal ends it with its services joined.
* Engine (stops, price loop, feed and book together): a stop that triggers gets into the
  book with the type, side, price and quantity it was added with; while there are orders
  on both sides, none triggers at a price the market did not have (on a one-sided book it
  may), and none stays pending while the market stands where it is due; best
  prices and depth keep flowing.
* ConfigManager: settings are taken whole or not at all; what was saved is loaded.
* SnapshotManager: what was saved stays for the retention period; the halves of a snapshot
  belong together; the latest is the newest.
* SystemInfo: the load it shows is that of the time since the call before.

### The sources do not build as they are

`matching_engine.cpp` calls `OrderBook::set_trade_callback` and
`add_order(order, trades)` with a vector and reads `Trade::aggressor_side`,
none of which exists; `OrderBook::add_order` takes an optional callback instead.
Most bodies of `WebSocketServer` are missing; `main.cpp` binds `auto&` to a
returned value.  The models follow the code that is there: `OrderBook` is modelled
as its own file defines it, and `MatchingEngine` by what it does around `add_order`: the
callback it sets gets each trade as it is executed and hands it to `on_trade_executed`,
the vector collects the same trades, and the loop hands them over again, so that
subscribers get every trade twice; and of `WebSocketServer` only the mutexes its lambdas take and
the broadcasts the feed calls, which are marked external in the map.

## 2. Modules

| module | models | how state and actions correspond |
|---|---|---|
| `OrderTypes` | `Order`, `Trade` | records; `Fill`, `IsFullyFilled`; quantities are units, prices ticks, `Eps` is the tolerance in units |
| `OrderBook` | class `OrderBook` | `book` = `bids_` and `asks_`, `lookup` = `order_lookup_`, `order` = the argument of a running `add_order`, `trade` = what `trade_cb` got last, `objects` = the callers' objects. `RejectInvalid`/`AcceptOrder`, `CheckFok`, `MatchStep` (one round of the loop, `execute_trade` and `remove_from_book` included), `RestInBook`, `LeaveBook` are `add_order`; `CancelOrder` and `ModifyOrder` the others |
| `MCOrderBook` | | offers of clients, on two price levels |
| `AbstractBook`, `BookRefinement` | what the book promises | a set of open orders, a taker and the order of arrival, without levels, queues and lookup; open = the orders resting in the queues, taker = the argument of `add_order` |
| `QueueLemmas` | | lemmas on least and greatest elements, on what `RemoveAt` leaves, on sums over finite sets and on ranks |
| `OrderBookProofs`, `RefinementProofs`, `TapeProofs` | | the proofs about the book: its invariant and time priority; that it implements `AbstractBook`; trades, fill-or-kill and depth |
| `AdvancedOrders` | class `AdvancedOrderManager` | `advanced_orders` = `advanced_orders_`; `AddOrder` (all four functions), `CancelAdvanced`, `StartCheck`/`CheckOrder`/`EndCheck` = `check_triggers`, a step per order |
| `MCAdvancedOrders` | | eight requests on two symbols |
| `AdvancedProofs` | | the proofs about `check_triggers` |
| `Engine` | `submit_order`, `cancel_order`, `update_market_price`, the price loop of `main.cpp`, `broadcast_bbo_update` and `broadcast_depth_update` | extends `OrderBook` and `AdvancedOrders`, whose actions it composes. `LookAtBid`, `LookAtAsk` are the two looks of the price loop, `PassStop`, `TriggerStop`, `TriggerInvalid` a step of `check_triggers` with `submit_order` inside; `Feed...`, `Send...` the thread of the feed. Looks need the mutex of the book, which is free when no `add_order` runs |
| `MCEngine` | | three clients, one of four stops, four prices |
| `EngineProofs` | | the proofs about the engine; those about the book and the stops are carried over |
| `Server` | `main.cpp` and the locking of engine, feed, health checker, WebSocket handlers, `load_config` | a thread is a program of instructions (`lock`, `unlock`, `match`, `deliver`, `spawn`, ...), named after the function it stands for; `owner` = the mutexes; `Signal`, `Stop`, `Join`, `Exit` = `signal_handler` |
| `MCServer` | | one symbol, bounds on trades and signals |
| `ServerProofs` | | the proofs about threads and mutexes |
| `Settings` | class `ConfigManager` | `config_file` = what is on disk (a document, torn or missing), `engine_config`, `symbol_configs`; `load_config` is a step per part it assigns (`LoadEngine`, `LoadSymbol`, ...), `save_config` two (`OpenToSave` empties the file, `WriteSettings` fills it) |
| `Snapshots` | class `SnapshotManager`, `run_snapshot_scheduler` | the contents of a book are a version number; `rows`, `last_id`, `tables` = each database, `db_` = the handle; `ReadBids`, `ReadAsks`, `SaveSnapshot`/`SaveFails`, `CleanUp` a round of the scheduler |
| `Monitoring` | class `SystemInfo`, the check of `HealthChecker`, `run_performance_monitor` | three threads in `get_system_usage`, a step per access to `last_total_time_` and `last_process_time_` |
| `Deployment` | start-up of `main.cpp` | composes the three: a process loads its settings, opens the database they name, runs, is edited around, and is killed at any point; then the next one starts on what is on disk |
| `MCDeployment` | | twenty-four documents, seven kinds of history |
| `DeploymentProofs` | | the proofs about settings, snapshots, load and their composition |

`add_order` is modelled round by round although it holds `book_mutex_`
throughout: a loop that does not end is then a behaviour, and termination a
liveness property.  A location in the lookup is used by its side and price, and
by its index in `modify_order`; a missing id makes `operator[]` create a default
location, as in the code.  The price levels of both sides are walked from the
lowest price, as `begin()` of both maps does.

History variables (`arrivals`, `executed`, `cancelled`; `submitted`, `batch`,
`added`, `withdrawn`, `seen`; `window`; `interrupted`, `tape`; `source`, `written`, `changed`;
`taken`, `saved`, `latest`, `orderly`; `figure`, `samples`, `overlapped`) are read by
properties only, except that `arrivals` bounds the number of orders, and `FreshSpec`
and `AddOrder` look there for a fresh id.

`FreshSpec` is the book with clients that never use an id twice, `ReuseSpec`
with clients that may; the code does not check either way.  `tests/websocket_client.py`
draws a uuid for each order, `scripts/load_test.py` sends the same ids in each round.
The theorems are of `FreshRules == Init /\ [][FreshNext]_vars`, which is `FreshSpec`
without its fairness.  `Engine` has clients of the first kind, and `BookRulesKept` says
there that clients, stops and cancels together stay within `FreshNext`, so that what is
proved of `FreshRules` holds of the book in the engine.

In `Engine` prices are counted in half ticks, so that a mid price is a number; a
one-sided book has half the price of its other side as its mid price, as in the code.
The order of two looks at the book is one C++ leaves open within an expression; the
two are alike.

In `Snapshots` a book is never loaded back at the start, since `main.cpp` does not; a
failed `sqlite3_open` leaves a handle that fails every statement; the texts of a row
are read from strings that are gone, so a row holds what the constant `Remains` allows.
Unsigned differences are taken modulo `Word`.

## 3. Runs

Every run takes seconds to three minutes.

| run | checks | shows |
|---|---|---|
| `book` | `TypeOK LookupExact TapeAgrees TimePriority BuyNeverCrosses FokAllOrNothing CancelledStaysOut KeepsThePromise EveryRoundCounts` | every sequence of add, cancel and modify on three orders of all types, valid or not, with fresh ids; that the book implements `AbstractBook`; and that each round of the matching loop makes progress |
| `depth` | `FokAllOrNothing RestingHasLeaves LimitOrdersAccountedFor DepthAgreesWithTape` | four orders without `modify_order` (as `MatchingEngine` uses the book), quantities on both sides of the tolerance: nothing filled lingers, no limit order gets lost, the published depth is what was offered less what was traded |
| `reuse` | `LimitRespected NeverOverfilled LevelsWellFormed` | what survives ids that are used twice |
| `stops` | `StopsTypeOK EachTriggersOnce NothingMissed TrailingFollows FirstAddedFirst` | three stop orders on two symbols, added, cancelled, checked at any sequence of prices |
| `engine` | `EngineTypeOK StopsReachTheBook NoFalseTrigger BookRulesKept AddOrderReturns BboFlows DepthFlows DueStopsTrigger` | three clients, a stop, the price loop and the feed on one book; four of the properties are liveness |
| `server` | `TypeOK NoDeadlock TapeInOrder ServicesJoined` | main, feed, WebSocket server and snapshots from start-up on: two trades and snapshots, or a signal at any point |
| `deployment` | `TypeOK LoadAllOrNothing SaveRoundTrips KeptForRetention SnapshotsInOrder LatestIsNewest FigureIsTrue` | settings loaded, edited and saved, snapshots on two databases, failing disks, a clock that is set, kills at any point |
| `price_priority` | `PricePriority` violated | a sell trades with the lowest bid while a higher one waits (`order_book.cpp:108`) |
| `reuse_loops` | `AddOrderReturns` violated | with an id used twice `add_order` never returns (`order_book.cpp:127`) |
| `signal_hangs` | `StopsOnSignal` violated | a signal that interrupts a thread holding a mutex is never done with (`main.cpp:24-36`) |
| `no_config` | `ComesUp` violated | `load_config` without a file waits for itself (`config_manager.cpp:19`) |
| `garbled` | `SavedAsReported` violated | a snapshot is stored from memory its texts have left (`snapshot_manager.cpp:87`), while "snapshots saved" is printed (`main.cpp:88`) |

**Differences seen and given no run:**

* `test_order_book.cpp:104` expects `CANCELLED` for an unfilled fill-or-kill order, the
  code sets `REJECTED` (`order_book.cpp:167`) and returns true.
* With orders on one side only `main` halves their best price (`main.cpp:189`), for the other
  side counts as 0, and checks the stops with that: a sell stop at 4 goes off while the only
  order is an ask at 6.  The feed asks for both sides (`market_data_feed.cpp:61`).
* Every trade is broadcast twice, by the callback and by the loop of `submit_order`;
  `TapeInOrder` speaks of the order of the broadcasts.
* `main` ignores what `save_snapshot` returns (`main.cpp:84`), a failed `sqlite3_open`
  leaves `db_` set, so that `is_initialized` holds, and "snapshots saved" is printed all
  the same: a save that failed is gone unseen.
* `signal_handler` calls `exit` while snapshot, server and performance threads still run;
  only feed and health checker are joined (`ServicesJoined`).  A service that has set
  `running_` but not yet spawned its thread when the signal comes is not joined either.
* `test_order_book.cpp:59` reads fills from the caller's object, which is a copy from
  before the fills (`order_book.cpp:196`).
* A trailing sell with the default initial price 0 triggers at the first check
  (`advanced_orders.cpp:136-155`).
* `memory_usage_mb` is kilobytes, since bytes are divided once (`system_info.cpp:28`),
  and `health_check.cpp:61-63` calls it MB: a process of more than a megabyte is
  unhealthy, and the check of the load below is never reached.
* When two threads are in `get_system_usage` at once its differences wrap and an idle
  process shows a load beyond 100 %; `FigureIsTrue` therefore speaks of calls that do
  not overlap.
* Before the first health check `main` prints an alert without a message
  (`main.cpp:196-199`).
* An unsubscribe is acknowledged and erases nothing, for `type` is `"unsubscribe"` there
  (`websocket_server.cpp:97`); `tests/websocket_client.py:31-36` writes the key twice.
* Snapshots are never loaded back, the directory of the database is never created, and a
  symbol the engine has but the settings lack is not covered by the price loop.

**Bounds.**  Three orders reach every pair of a taker and a queue of two makers, with a
cancel or a modify in front of, between and behind them; four with two levels (`depth`)
add a sweep over a level boundary, an erase in the middle of a queue of three, and a
fill-or-kill order that needs two makers and is short by a unit.  `Eps = 2` with
quantities 3 and 4 leaves residues of one unit (dropped) and of two (kept).  Offers with
quantity 0, -1 and price 0 are the ones `add_order` turns down.  Ids are interchangeable,
hence the symmetry, which the violation runs do without.  The stops have each type, each
side where it matters, a trigger in the middle of the prices 1, 3 and 4, and a second
symbol that must stay untouched; the trailing ones start at 1 (buy, distance 2) and 5
(sell, distance 3), so that either trigger moves at one of the prices and must not move
back at another.  The server has one symbol (all books are used alike and no thread holds
two), one of the two services (they differ in the broadcast; the feed nests more); the
snapshot scheduler runs beside the trades and not beside the signal, for it holds one
mutex at a time and nobody joins it; two trades are enough for two submitting threads to
overtake each other; up to two stops go off in a check.  A signal comes at most
once.  `engine` has four prices (in half
ticks), so that a mid price lies between two of them and a one-sided book shows half a
price; three clients, who can cross, and one of whom can move the ask while the price loop
is between its two looks at a book with both sides; and one of four stops, at three
triggers, upwards and downwards, one of them turned down by the book (trailing stops are in
`stops`); there is no symmetry there, because of the liveness.  `deployment` chooses
at the start which kinds of event its history may have and how many (`TheBounds`): the
settings alone with every strange document; two databases; three rounds with a kill and a
clock that is set; rounds without a sleep; two symbols; a symbol configured late; the load
sampled twice.  Retention is two ticks on a clock from 0 to 4, so that the cut-off wraps
and rows do expire.  No property of `deployment` reads the texts of the rows, which are
garbage throughout; `garbled` has one history without any fault and texts of all three
kinds.

**Deadlock checking** is off in the `server` and `deployment` runs: the process may end,
`load_config` may wait for itself, and a history comes to its bounds.

**Fairness.**  `FreshSpec` and `ReuseSpec` are fair to the running `add_order`
alone (`WF(Continue)`): nothing waits in it, it holds the mutex.  `Server` is
weakly fair to each thread and to the handler (the system schedules them), and
strongly fair to `Lock`: whoever competes for a mutex sleeps between rounds or
waits for a next message, so that a mutex given back again and again is obtained
at last.  The violations of `signal_hangs` and `no_config` do not hinge on
that: they are cycles of threads that wait for each other.  `Engine` is weakly fair to `Matching`
(the thread in `add_order` holds the mutex), to `PriceLoop` and to `Feed` (each wakes
after its sleep of a second or less); clients run out of ids, so that weak fairness
suffices.  `AddOrderReturns` holds there on account of `BookRulesKept` and
`EveryRoundCounts`.  Nothing is asked of clients, operators, clocks or kills.

## 4. Proofs

Every safety property that a passing run checks is proved for every value of the constants:

| theorem | says | in |
|---|---|---|
| `FreshInvariant` | `IInv` holds in every state of `FreshRules` | `OrderBookProofs` |
| `TypeCorrect` | `TypeOK` | |
| `LookupIsExact` | `LookupExact` | |
| `LevelsAreWellFormed` | `LevelsWellFormed` | |
| `NothingIsOverfilled` | `NeverOverfilled` | |
| `CancelledOrdersStayOut` | `CancelledStaysOut` | |
| `TradesRespectLimits` | `LimitRespected` | |
| `OlderOrdersFirst` | `TimePriority` | |
| `NoBuyCrosses` | `BuyNeverCrosses` | |
| `SafeWithReusedIds` | for `ReuseSpec`: `TypeOK`, `LimitRespected`, `NeverOverfilled`, `LevelsWellFormed` | |
| `BookKeepsThePromise` | `FreshRules` implements `AbstractBook`: `KeepsThePromise` | `RefinementProofs` |
| `MatchingMakesProgress` | `EveryRoundCounts` | `TapeProofs` |
| `TheTapeAgrees` | `TapeAgrees` | |
| `FillOrKillIsAllOrNothing` | `FokAllOrNothing` | |
| `NothingFilledLingers` | without `modify_order`, `RestingHasLeaves` | |
| `NoLimitOrderGetsLost` | without `modify_order`, `LimitOrdersAccountedFor` | |
| `PublishedDepthIsTrue` | without `modify_order`, `DepthAgreesWithTape` | |
| `StopsTypeCorrect` | `StopsTypeOK` | `AdvancedProofs` |
| `NoStopIsMissed` | `NothingMissed` | |
| `StopsInOrder` | `FirstAddedFirst` | |
| `EachStopTriggersOnce` | `EachTriggersOnce` | |
| `TrailingStopsFollow` | `TrailingFollows` | |
| `BookIsUsedByItsRules` | `BookRulesKept`: the engine implements `FreshNext` | `EngineProofs` |
| `BookHoldsInTheEngine`, `StopsHoldInTheEngine` | the invariants of book and stops, in the engine | |
| `EngineTypeCorrect` | `EngineTypeOK` | |
| `StopsGetIntoTheBook` | `StopsReachTheBook`, with type, side, quantity and price | |
| `NoStopGoesOffFalsely` | `NoFalseTrigger`, of markets with both sides | |
| `DeploymentTypes` | `TypeOK` of `Deployment` | `DeploymentProofs` |
| `SettingsAreTakenWhole` | `LoadAllOrNothing` | |
| `SavedSettingsComeBack` | `SaveRoundTrips` | |
| `SnapshotsAreKept` | `KeptForRetention` | |
| `SnapshotsAreInOrder` | `SnapshotsInOrder` | |
| `LatestSnapshotIsNewest` | `LatestIsNewest` | |
| `LoadIsSinceTheCallBefore` | `FigureIsTrue` | |
| `ServerTypeCorrect` | `TypeOK` of `Server` | `ServerProofs` |
| `SubscribersSeeTheTape` | `TapeInOrder`, the order of the broadcasts | |
| `ServicesAreJoined` | `ServicesJoined` | |
| `NoThreadsWaitInACircle` | if no configuration file is missing, `NoDeadlock` | |

The theorems of the book are about `FreshRules` but for the one named, those of the stops
about `StopsSpec`, of the engine about `EngineSpec`, of server and deployment about the
`Spec` of their module.

**Assumptions.**  `TypesAssumption` (prices are naturals, the tolerance is positive, the
sentinel is no order and no trade), `BookAssumption` (offers are fresh `Order` objects),
`AdvancedAssumption` (requests have their type, market prices are positive, 0 is a price),
`EngineAssumption` (stops have ids of their own, prices are whole ticks, the offers of the
book are those of clients and stops), `SettingsAssumption` (default settings and
documents are made of their fields, the defaults are filed under their names),
`SnapshotsAssumption` and `DeploymentAssumption` (no clock, cut-off or count of ticks
reaches `Word`), `ServerAssumption` (symbols are finitely many and not named like the other
mutexes, a signal comes at most once).  TLC evaluates them in the runs.
`NoThreadsWaitInACircle` assumes a configuration file besides, since without one main does
wait for itself (`no_config`); that one is given in the theorem.

### The book

No invariant of the book is inductive alone.  A cancelled order stays out because
`cancel_order` finds it; it finds it because the lookup is exact; the lookup stays
exact because the removal re-indexes the right queue, which needs every order in
the level of its price and side, and every id once; and that needs the new order's
id to rest nowhere.  `IInv` is the conjunction of the state's types, the
well-formed book with sound orders and an exact lookup, and what holds of the
order in hand.  TLC checked `IInv` before it was proved.  The proof has a step per
action; `QueueLemmas` has the least element of a set of prices and what `RemoveAt`
leaves of a queue, and the book lemmas say what `BookWith`, `BookWithout` and their
lookups do, once for matching, resting and cancelling.

`OlderOrdersFirst` needs a second invariant on top of `IInv`, `PriorityInv`: orders
ahead of others on record arrived before them, and everything on record arrived
before the order in hand.  Because the lookup is exact the argument is about
positions on record only: a removal shifts them without changing their order, a
newcomer gets the last one.

`NoBuyCrosses` follows from `PriorityInv` and the end of the loop: a buy that comes to
rest could not match the lowest ask, so it is below all asks; a sell that comes to rest
arrived after every bid on record.  The same argument fails for sells, whose loop looks at
the lowest bid, and there the code and the tests differ (`price_priority`).

`IInv` needs fresh ids, as `reuse_loops` shows: with an id in two places the record of one
order may lead to the other, a removal may take the wrong order or none, and a filled maker
may stay at the head of its queue.  `ReuseInv` is what is left without the exact lookup: queues
of sound orders of their side and price, and records with a position from 1 on, so that
`modify_order`, which looks no further than at the length of the queue, changes some
order there and not a place before it.  `SafeWithReusedIds` follows from that alone.

`BookKeepsThePromise` maps every step to one of `AbstractBook`, or to a stutter.
While the lookup is exact, the resting orders are `{OrderAt(book, lookup, id) : id
\in DOMAIN lookup}`, so the lemmas speak of one record that comes, goes or leads to
a changed order, and not of queues.  `FrontIsNext` is where priority comes in: the
head of the first level is the open order whose turn it is, by price because
`BestLevel` is the least key, by arrival because of `PriorityInv`.
`NothingLeftToMatch` is the converse: when the loop stops, no open order would have
matched.  A third invariant, `RunningCall`, ties the phase of the call to the type
and status of its order, and says that an id that arrived is known to its caller.

`TapeProofs` speaks of the orders on record as well.  A round of the matching loop is
two ids that trade a quantity (`Round`), one of them the smaller of what the two have
left: that one is filled, exactly, and a filled maker loses its record.  `Booked` is the
invariant behind `TapeAgrees`: for what is on record, in hand or back for good, the filled
quantity is what was reported, and for an id that is not in use nothing was; the last part
is what a new order under that id starts from.  `AccountInv` adds, where `modify_order` is
not used, that a record has something left above the tolerance and the quantity its caller
asked for, so that a record that goes in a round has traded all of it but the tolerance.

Fill-or-kill and depth are about sums over queues and levels.  An induction over data is
out of the prover's reach where its hypothesis is an operator, but not where it is a set:
`SmallerSetsFirst` (in `QueueLemmas`) is the well-foundedness of the subsets of a finite
set, said of a set of subsets, and from it follow the sums of a set with one element more,
with one changed, of two functions that agree, and by classes.  `LeavesOnRecord` then turns
the sum over a queue into one over the ids on record at that level, which it visits once
each (`EveryRankIsTaken`).  `FokInv` is the invariant of a fill-or-kill order: once the scan
has let it through, what is offered within its limit covers what it has left, after each
round (`CanBeFilled`).  A round takes the same quantity from both sides of this; when no
level matches any more, nothing is offered, and so nothing is left to fill.

### The stops

`StopInv` is the invariant of `check_triggers`: vectors are in the order of adding, no id
is pending for two symbols, what the walk has passed is not due at its price, and what it
has submitted was added before all that is still ahead.  Erasing at the iterator keeps
that because it moves the orders ahead by one and no other; `Within` says so once for
erasing, cancelling and updating a trailing stop.  `PlaceInv` says that an id that was
added is pending, withdrawn or submitted, exactly one of them and in one place: erasing
takes it out of the first for good, in the same step of the walk that submits
it.  `TrailInv` keeps for each trailing stop the prices it has been looked at for: those
of all checks, and the price of the running check as soon as the walk has passed it; its
trigger is the greatest or least of the distances from them and of where it
started.  `RequestInv` is for the engine: what is pending or submitted is as it was
requested, but for the trigger of a trailing stop.

### The engine

`EngineInv` is the invariants of book and stops together with what ties them: stops come from
requests under ids of their own (`FromRequests`); the book has seen such an id only if the
stop was submitted (`UsedWhenSubmitted`), and has seen it then, or turned it down
(`SubmittedArrive`); the best prices are in `window` from the one look of the price loop to
the other, and the price of a check is the mean of two that were there (`LoopInv`).  From
`UsedWhenSubmitted` and `EachTriggersOnce` every id is fresh when it reaches the book, whence
`BookIsUsedByItsRules`: a step of the engine is one of `FreshNext`, or leaves the book alone.
Thereby the invariants of `FreshRules` are invariants of `EngineSpec`, and likewise those of
the stops, whose steps the engine takes at the prices its loop has worked out.
`NoFalseTrigger` rests on `LoopInv` and `RequestInv`: what triggered was due at the mean of
a bid and an ask of the window, and if it is due at a mean it is due at one of the two.
With an empty side the mean is half of the other price, and nobody need have asked for that.
`StopsReachTheBook` needs that an order keeps the terms it was submitted with
(`SubmittedKept`): every copy under a stop's id, in the book, in hand or with its caller,
has them.  They are the same in the copy that is submitted; no client has that id, so
nothing else puts, cancels or replaces an order under it; and fills change none of them.

### Settings, snapshots, load

`Deployment` is treated component by component: a lemma for each of the three says that every
step of the composition is a step of that component or leaves its variables alone
(`SettingsStep`, `MonitorStep`, and so on; a kill is a step of all of them).  Each has an
invariant of its own, and `DeploymentInv` is their conjunction.

`SettingsInv` says that what is in the file or in memory is well-formed and filed under its
name.  `LoadInv` follows `load_config`: after `k` entries `symbol_configs` is what the
first `k` entries say, the last one of a name counting (`LoadedUpTo`, `FirstSettings`), and
none of them threw.  At the end of the list this is the whole document; if an entry throws,
the handler puts the defaults back in place of all that was assigned by then.

`OrderInv` is the order behind `SnapshotsInOrder`: the ids of a table only grow; what is in
it was read no later than what the scheduler has in hand, and that no later than what is
in the book.  `StampInv` adds for an orderly clock that the rows of a symbol have
increasing timestamps, which needs that a symbol has one turn in a round and that the
scheduler sleeps in between; so the row with the latest timestamp, which `LatestIsNewest`
is about, is the one with the greatest id.  `KeptForRetention` is inductive with the types:
the unsigned difference `now - Retention` may wrap, but SQLite reads it as a signed number,
and by `CutoffProperties` that is the true difference again.

`MonitorInv` concerns the two static counters: as long as no two calls overlapped, they are
those of the last sample, except within the one call that is under way (`Undisturbed`, with a
clause per place in `get_system_usage`).

### Threads and mutexes

What a thread still has to do is a program, and a situation is what it holds, the trades it
has to report and the services it has started.  `Leads(I, p, s, r)` says that program `p` can
be run from situation `s` and ends in `r`, where each instruction has its `Effect`: a mutex
may be locked only above all those held (config < orders, connections < engine < books <
subscribers), unlocked only if held, an order matched only with `engine_mutex_` and nothing
left to report, and each of its trades to be reported twice.  Leading composes over `\o`, and
a lemma for each function of the code says that its program gives back every mutex and makes
every report.

`Works` is the invariant: types (`BaseInv`), each thread in a situation from which its
program leads to an end without mutexes and trades (`Placed`), the `tape` (what the
executed trades are to be reported as) being the reports made and those under way, with
`engine_mutex_` held by whoever has some (`TapeInv`), and, once a signal came to a server
that was up, every service being stopped, joined or gone (`SignalInv`).  In a circle of
waiting threads the one whose mutex has the highest rank waits for one that waits for a
higher rank still; hence `NoDeadlock`.

Without a configuration file `Works` does not hold: `load_config` saves the defaults with its
mutex held.  `Hung` is the invariant of that case: main is about to take, or has, a mutex that
it will ask for again, and nothing else was started.

### Model-checked only

* Liveness, which is beyond the prover: `AddOrderReturns`, `BboFlows`, `DepthFlows`,
  `DueStopsTrigger`.  `EveryRoundCounts` and `BookRulesKept`, on which the first rests, are
  proved.
* The five violations, which are about the instance that shows them.

## 5. Not modelled, and why

* symbols, clocks and trade ids of orders (never read in matching), printing, JSON;
* rounding of doubles, but for what it leaves behind: residues are units below `Eps`;
* the sessions of `WebSocketServer`: the bodies of `start`, `stop`, subscribe, broadcast,
  `unsubscribe_all`, order and cancel requests are declared and not in the sources; only
  the mutexes that the lambdas take and the broadcasts that the feed calls are modelled
  (`stop` is taken to return);
* `validate_order`, `is_valid_symbol`, `load_snapshots`: they only read, and nothing calls
  them; `print_book`, host name and operating system: they only print;
* the histogram, whose `print_histogram` locks its mutex twice: no part of the server has
  one, and a single call blocks in every state;
* the width of `max_order_size`: it is an `int` (`config_manager.hpp:20`) and truncates what the
  document holds, where `FromJson` takes it as it is; only `save_config` reads it;
* the second reading of `last_total_time_` in `get_system_usage`: it is read for the check
  (`system_info.cpp:103`) and for the differences (`:104-105`), in `LoadTotal` once, which
  differs only for calls that overlap, of which no property speaks;
* the `config_mutex_` that `get_engine_config` takes in the snapshot scheduler
  (`main.cpp:67`): nothing else is held then, and nothing taken under it;
* data races on plain variables (`last_status_`, the UUID generator): listed as hazards;
* fees and id generation: arithmetic without interaction; the fee calculator reads a field
  `Trade` does not have;
* the counters of the engine: they are written under `engine_mutex_` and read by monitors.

## 6. Plan

Done, in this order: `OrderTypes`, `OrderBook`, their proofs, `Server`, `AdvancedOrders`,
`AbstractBook` with its refinement and the proof of it; `Settings`, `Snapshots`,
`Deployment`, `Engine` with prices and depth, `Monitoring`; the proofs about all of them.

Modules to come: none; what is left is named in section 5 with its reason.

Theorems to come, the most important first:

1. The book under ids used twice: what of `TapeAgrees` still holds there.
2. The safety half of liveness: a bound on the rounds of the matching loop that are still to
   come, which every round decreases.
