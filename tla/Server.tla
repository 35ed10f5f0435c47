-------------------------------- MODULE Server --------------------------------
(***************************************************************************)
(* The process of main.cpp: its threads, the mutexes they share, the trades *)
(* on their way from a book to the subscribers, and the signal handler.     *)
(*                                                                         *)
(* A thread is a program of instructions, one per lock, unlock or other     *)
(* effect another thread can see.  What the code computes between them is   *)
(* not here (module OrderBook has the book), only which branch it takes.    *)
(* The performance monitor is left out: it takes no mutex after start-up.   *)
(***************************************************************************)
EXTENDS Integers, FiniteSets, SequencesExt

CONSTANTS
    Symbols,        \* symbol_configs; a symbol also names the mutex of its book
    FeedSymbols,    \* get_active_symbols: the sequence of symbols the feed visits
    HealthSymbol,   \* the symbol perform_health_check looks at
    ConfigFiles,    \* what load_config may find: "present", "missing"
    Services,       \* the services main starts, of "feed" and "health"
    Bounds,         \* bounds on a run (its trades, and 0 or 1 signals) with its
                    \* setting of enable_persistence
    MaxStops,       \* bound: the stop orders that are due at one check
    None            \* no thread

Threads == {"main", "feed", "health", "snapshots", "server"}

Mutexes == {"config", "orders", "engine", "subscribers", "connections"} \cup Symbols

ASSUME ServerAssumption ==
    /\ IsFiniteSet(Symbols)
    /\ \A s \in Symbols : s \notin {"config", "orders", "engine", "subscribers", "connections"}
    /\ FeedSymbols \in Seq(Symbols)
    /\ HealthSymbol \in Symbols
    /\ ConfigFiles \subseteq {"present", "missing"}
    /\ Services \subseteq {"feed", "health"}
    /\ Bounds \subseteq [trades : Nat, signals : 0 .. 1, persistence : BOOLEAN]
    /\ IsFiniteSet(Bounds)
    /\ MaxStops \in Nat
    /\ None \notin Threads

VARIABLES
    todo,       \* what each thread still has to do in the current round
    owner,      \* the thread that holds each mutex, or None
    live,       \* the threads that have been started and have not returned
    running,    \* the services whose running_ is true
    spawned,    \* the services whose std::thread is joinable
    found,      \* each thread: the reports its add_order has still to give rise to
    trades,     \* the number of trades so far; they are numbered from 1
    bound,      \* the bound and setting of this run
    delivered,  \* the trades as the subscribers got them
    tape,       \* history: the trades as they are to get them
    handler,    \* the thread the signal handler runs on, or None
    closing,    \* what the signal handler still has to do
    interrupted,\* history: what the signal found when it came
    ended       \* how the process ended, "no" while it runs

vars == <<todo, owner, live, running, spawned, found, trades, bound, delivered,
          tape, handler, closing, interrupted, ended>>

-------------------------------------------------------------------------------
(* Programs *)

Do(op, arg) == [op |-> op, arg |-> arg]

\* std::lock_guard around a body.
Guarded(mutex, body) == <<Do("lock", mutex)>> \o body \o <<Do("unlock", mutex)>>

GetOrderBook == Guarded("engine", <<>>)

\* get_order_book, and then two looks at the book: get_best_bid and
\* get_best_ask, or get_bid_levels and get_ask_levels.
ReadBook(s) == GetOrderBook \o Guarded(s, <<>>) \o Guarded(s, <<>>)

\* (Mutant: the way out of broadcast_market_data forgets the mutex.)
BroadcastKeepsMutex == <<Do("lock", "subscribers")>>

\* broadcast_market_data.
Broadcast == Guarded("subscribers", <<>>)

\* (Mutant: the trade callback asks the engine for the book.)
BroadcastTradeReentering == GetOrderBook \o Guarded("subscribers", <<Do("deliver", None)>>)

\* on_trade_executed, down to broadcast_trade.
BroadcastTrade == Guarded("subscribers", <<Do("deliver", None)>>)

Times(n, program) == FlattenSeq([i \in 1 .. n |-> program])

\* add_order when it produces n trades: the callback that submit_order set
\* reports them, with the mutex of the book held.
AddOrder(s, n) == Guarded(s, <<Do("match", n)>> \o Times(n, BroadcastTrade))

\* (Mutant: the loop reports after engine_mutex_ is given back.)
SubmitOrderReportingLate(s, n) ==
    Guarded("engine", AddOrder(s, n)) \o Times(n, BroadcastTrade)

\* submit_order: its loop reports every trade of add_order again.
SubmitOrder(s, n) == Guarded("engine", AddOrder(s, n) \o Times(n, BroadcastTrade))

MaxTrades == Max({0} \cup {b.trades : b \in Bounds})

Submissions == {SubmitOrder(s, n) : s \in Symbols, n \in 0 .. MaxTrades}

CancelOrder(s) == Guarded("engine", Guarded(s, <<>>))

\* check_triggers submits every order of the symbol that is due, with
\* orders_mutex_ held; ns has the numbers of their trades.
CheckTriggers(s) ==
    {Guarded("orders", FlattenSeq([i \in 1 .. Len(ns) |-> SubmitOrder(s, ns[i])])) :
        ns \in SeqOf(0 .. MaxTrades, MaxStops)}

\* The price loop of main, one symbol.
PriceRounds ==
    {ReadBook(s) : s \in Symbols}
        \cup UNION {{ReadBook(s) \o c : c \in CheckTriggers(s)} : s \in Symbols}

\* run_feed: best prices and depth of every symbol, each sent if there is
\* something to send.
FeedRounds ==
    {FlattenSeq([i \in 1 .. Len(FeedSymbols) |->
        ReadBook(FeedSymbols[i]) \o bbo \o ReadBook(FeedSymbols[i]) \o depth]) :
            bbo, depth \in {<<>>, Broadcast}}

\* perform_health_check.
HealthRounds == {ReadBook(HealthSymbol)}

\* run_snapshot_scheduler, up to the next symbol.
SnapshotRounds == {Guarded("config", <<>>) \o ReadBook(s) : s \in Symbols}

\* The handlers of the WebSocket server: order, cancel, (un)subscribe, close.
RequestRounds ==
    Submissions \cup {CancelOrder(s) : s \in Symbols}
        \cup {Guarded("subscribers", <<>>),
              Guarded("connections", Guarded("subscribers", <<>>))}

Rounds == [main |-> PriceRounds, feed |-> FeedRounds, health |-> HealthRounds,
           snapshots |-> SnapshotRounds, server |-> RequestRounds]

\* load_config; without a file it calls save_config, which locks as well.
LoadConfig(file) ==
    IF file = "missing" THEN Guarded("config", Guarded("config", <<>>))
    ELSE Guarded("config", <<>>)

\* MarketDataFeed::start and start_continuous_check.
Start(x) == IF x \in Services THEN <<Do("run", x), Do("spawn", x)>> ELSE <<>>

\* main, up to its loop.  The constructors of the engine and of the WebSocket
\* server, add_symbol and the start of the services are in the order of the code.
Boot(file) ==
    LoadConfig(file) \o Guarded("config", <<>>)
    \o Times(2, Guarded("engine", <<>>)) \o Times(2, Guarded("config", <<>>))
    \o Times(Cardinality(Symbols), Guarded("engine", <<>>))
    \o <<Do("spawn", "server")>> \o Start("feed") \o Start("health")
    \o <<Do("spawn", "snapshots")>>

\* What a thread does before its first round: run_snapshot_scheduler looks at
\* the configuration.
First(t, file) ==
    IF t = "main" THEN Boot(file)
    ELSE IF t = "snapshots" THEN Guarded("config", <<>>)
    ELSE <<>>

\* (Mutant: stop does not join.)
StopWithoutJoin(x) == <<>>

\* MarketDataFeed::stop and stop_continuous_check, after running_ = false.
StopService(x) == <<Do("join", x)>>

\* signal_handler.  The body of WebSocketServer::stop is not in the sources; it
\* is taken to return.
Shutdown == <<Do("stop", "feed"), Do("stop", "health"), Do("exit", None)>>

-------------------------------------------------------------------------------
(* Threads *)

Init ==
    /\ \E file \in ConfigFiles :
        todo = [t \in Threads |-> First(t, file)]
    /\ owner = [m \in Mutexes |-> None]
    /\ live = {"main"}
    /\ running = {}
    /\ spawned = {}
    /\ found = [t \in Threads |-> <<>>]
    /\ trades = 0
    /\ bound \in Bounds
    /\ delivered = <<>>
    /\ tape = <<>>
    /\ handler = None
    /\ closing = <<>>
    /\ interrupted = [ready |-> FALSE, free |-> FALSE]
    /\ ended = "no"

\* Thread t runs: the process has not ended, and t is not the one that the
\* signal handler interrupted.
Runs(t) == ended = "no" /\ t \in live /\ handler # t

\* The next instruction of t is this one.
NextIs(t, op) == Runs(t) /\ todo[t] # <<>> /\ Head(todo[t]).op = op

Arg(t) == Head(todo[t]).arg

Advance(t) == todo' = [todo EXCEPT ![t] = Tail(@)]

Lock(t) ==
    /\ NextIs(t, "lock")
    /\ owner[Arg(t)] = None
    /\ owner' = [owner EXCEPT ![Arg(t)] = t]
    /\ Advance(t)
    /\ UNCHANGED <<bound, live, running, spawned, found, trades, delivered, tape,
                   handler, closing, interrupted, ended>>

Unlock(t) ==
    /\ NextIs(t, "unlock")
    /\ owner' = [owner EXCEPT ![Arg(t)] = None]
    /\ Advance(t)
    /\ UNCHANGED <<bound, live, running, spawned, found, trades, delivered, tape,
                   handler, closing, interrupted, ended>>

\* add_order: the trades it executes are the next ones.  They are reported as
\* they are executed, and in the same order when add_order has returned.
Match(t) ==
    /\ NextIs(t, "match")
    /\ trades' = trades + Arg(t)
    /\ LET new == [i \in 1 .. Arg(t) |-> trades + i]
       IN  /\ found' = [found EXCEPT ![t] = new \o new]
           /\ tape' = tape \o (new \o new)
    /\ Advance(t)
    /\ UNCHANGED <<bound, owner, live, running, spawned, delivered,
                   handler, closing, interrupted, ended>>

\* A report of submit_order, of its callback or of its loop, reaches the
\* subscribers.
Deliver(t) ==
    /\ NextIs(t, "deliver")
    /\ delivered' = Append(delivered, Head(found[t]))
    /\ found' = [found EXCEPT ![t] = Tail(@)]
    /\ Advance(t)
    /\ UNCHANGED <<bound, owner, live, running, spawned, trades, tape,
                   handler, closing, interrupted, ended>>

\* start of a service: running_ = true, and then the thread.
SetRunning(t) ==
    /\ NextIs(t, "run")
    /\ running' = running \cup {Arg(t)}
    /\ Advance(t)
    /\ UNCHANGED <<bound, owner, live, spawned, found, trades, delivered, tape,
                   handler, closing, interrupted, ended>>

Spawn(t) ==
    /\ NextIs(t, "spawn")
    /\ live' = live \cup {Arg(t)}
    /\ spawned' = spawned \cup {Arg(t)}
    /\ Advance(t)
    /\ UNCHANGED <<bound, owner, running, found, trades, delivered, tape,
                   handler, closing, interrupted, ended>>

\* The number of trades a program asks for.
Matches(program) ==
    SumFunction([i \in DOMAIN program |->
                    IF program[i].op = "match" THEN program[i].arg ELSE 0])

Planned == SumFunction([t \in Threads |-> Matches(todo[t])])

\* The condition of the loop of a thread: a service looks at running_, and the
\* snapshot scheduler has no loop without persistence.
GoesOn(t) ==
    /\ t \in Services => t \in running
    /\ t = "snapshots" => bound.persistence

\* A thread wakes up for its next round.
BeginRound(t) ==
    /\ Runs(t)
    /\ todo[t] = <<>>
    /\ GoesOn(t)
    /\ \E round \in Rounds[t] :
        /\ trades + Planned + Matches(round) <= bound.trades
        /\ todo' = [todo EXCEPT ![t] = round]
    /\ UNCHANGED <<bound, owner, live, running, spawned, found, trades, delivered, tape,
                   handler, closing, interrupted, ended>>

\* The loop of a thread ends, and the thread with it.
Return(t) ==
    /\ Runs(t)
    /\ todo[t] = <<>>
    /\ ~GoesOn(t)
    /\ live' = live \ {t}
    /\ UNCHANGED <<bound, todo, owner, running, spawned, found, trades, delivered, tape,
                   handler, closing, interrupted, ended>>

Step(t) ==
    \/ Lock(t) \/ Unlock(t) \/ Match(t) \/ Deliver(t)
    \/ SetRunning(t) \/ Spawn(t) \/ BeginRound(t) \/ Return(t)

-------------------------------------------------------------------------------
(* The signal *)

Holds(t) == {m \in Mutexes : owner[m] = t}

\* SIGINT or SIGTERM interrupts a thread, wherever it is.
Signal(t) ==
    /\ ended = "no" /\ handler = None /\ t \in live
    /\ bound.signals > 0
    /\ handler' = t
    /\ closing' = Shutdown
    /\ interrupted' = [ready |-> "snapshots" \in spawned,
                       free |-> Holds(t) = {} /\ t \notin Services]
    /\ UNCHANGED <<bound, todo, owner, live, running, spawned, found, trades, delivered, tape, ended>>

ClosingIs(op) ==
    ended = "no" /\ closing # <<>> /\ Head(closing).op = op

Closing == Head(closing).arg

\* stop returns at once when the service is not there or not running.
Stop ==
    /\ ClosingIs("stop")
    /\ running' = running \ {Closing}
    /\ closing' = (IF Closing \in running THEN StopService(Closing) ELSE <<>>)
                    \o Tail(closing)
    /\ UNCHANGED <<bound, todo, owner, live, spawned, found, trades, delivered, tape,
                   handler, interrupted, ended>>

\* join returns when the thread has.  A thread that joins itself gets an
\* exception that nothing catches.
Join ==
    /\ ClosingIs("join")
    /\ \/ /\ Closing \in spawned /\ Closing = handler
          /\ ended' = "abort"
          /\ UNCHANGED closing
       \/ /\ Closing \in spawned => Closing \notin live
          /\ closing' = Tail(closing)
          /\ UNCHANGED ended
    /\ UNCHANGED <<bound, todo, owner, live, running, spawned, found, trades, delivered, tape,
                   handler, interrupted>>

Exit ==
    /\ ClosingIs("exit")
    /\ ended' = "exit"
    /\ UNCHANGED <<bound, todo, owner, live, running, spawned, found, trades, delivered, tape,
                   handler, closing, interrupted>>

HandlerStep == Stop \/ Join \/ Exit

Next == HandlerStep \/ \E t \in Threads : Step(t) \/ Signal(t)

\* Every thread is scheduled, and the signal handler too.  A mutex that is given
\* back again and again is obtained at last: those who compete for it sleep
\* between their rounds, or wait for the next message.
Fairness ==
    /\ \A t \in Threads : WF_vars(Step(t)) /\ SF_vars(Lock(t))
    /\ WF_vars(HandlerStep)

Spec == Init /\ [][Next]_vars /\ Fairness

-------------------------------------------------------------------------------
(* Correctness *)

\* Every variable has its type, and no thread returns with a mutex.
TypeOK ==
    /\ DOMAIN todo = Threads
    /\ owner \in [Mutexes -> live \cup {None}]
    /\ live \subseteq Threads
    /\ running \subseteq Services
    /\ spawned \subseteq Threads \ {"main"}
    /\ found \in [Threads -> Seq(1 .. MaxTrades)]
    /\ trades \in 0 .. MaxTrades
    /\ delivered \in Seq(1 .. MaxTrades) /\ tape \in Seq(1 .. MaxTrades)
    /\ handler \in Threads \cup {None}
    /\ interrupted \in [ready : BOOLEAN, free : BOOLEAN]
    /\ ended \in {"no", "exit", "abort"}

\* The thread that t has to wait for: the holder of its next mutex, or the
\* service that the signal handler joins on it.
WaitsFor(t) ==
    IF handler = t
    THEN IF ClosingIs("join") /\ Closing \in live THEN Closing ELSE None
    ELSE IF NextIs(t, "lock") THEN owner[Arg(t)] ELSE None

\* No set of threads waits for one another, whatever orders_mutex_,
\* engine_mutex_, the mutexes of the books and those of the WebSocket server
\* are nested in: a trigger that submits, a trade that is broadcast under
\* engine_mutex_, a client that goes away.  Nor does the signal handler join
\* a service in vain, provided that the thread it interrupts is not a service
\* and holds no mutex.
NoDeadlock ==
    (handler = None \/ interrupted.free) =>
        ~\E S \in (SUBSET live) \ {{}} : \A t \in S : WaitsFor(t) \in S

\* What the subscribers got is a beginning of the tape: the trades of every order
\* in the order of execution and then the same trades again, before those of the
\* next order, though two threads submit orders and add_order has returned, and
\* given the mutex of the book back, before the second reports.
TapeInOrder == IsPrefix(delivered, tape)

\* Once the server was up, exit is only reached with the threads of the feed
\* and the health checker gone: they use the objects that exit destroys.
ServicesJoined == (ended = "exit" /\ interrupted.ready) => live \cap Services = {}

-------------------------------------------------------------------------------
(* What the program says, and does not do *)

\* main.cpp: "Press Ctrl+C to stop the server".
StopsOnSignal == handler # None ~> ended # "no"

\* config_manager.cpp: "Config file not found, using defaults", and main goes on.
ComesUp == <>("snapshots" \in spawned \/ handler # None)
===============================================================================
