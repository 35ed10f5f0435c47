------------------------------ MODULE Snapshots ------------------------------
(***************************************************************************)
(* The snapshots of the books in SQLite: class SnapshotManager of            *)
(* src/persistence/snapshot_manager.cpp, and run_snapshot_scheduler of        *)
(* main.cpp, over the lifetimes of several processes.                        *)
(*                                                                         *)
(* The contents of a book are a version number: every change of the book     *)
(* makes a new version, and so does a restart, which begins with an empty     *)
(* book (nothing is ever loaded back).  A snapshot is the version its bids    *)
(* were read from and the version its asks were read from.  Time is counted   *)
(* in ticks; a duration of the code is a number of them.                     *)
(***************************************************************************)
EXTENDS Integers, FiniteSets

CONSTANTS
    Symbols,
    Paths,      \* the values of persistence_path, each of which is a database
    Intervals,  \* the values of snapshot_interval_seconds; 0 does not sleep
    Retention,  \* retention_days of cleanup_old_snapshots
    Word,       \* the number of values of a uint64_t
    Times,      \* the values of the system clock
    Faults,     \* what may go wrong: some of "open", "tables", "save", "clock"
    Remains,    \* what the memory of a destroyed std::string may hold when it
                \* is read: "own" (what it held), "other" (the string made after
                \* it), "garbage"
    None        \* no database handle, no symbol, no version read

\* What the constants have to be.  (Whoever uses this module assumes it.)
SnapshotsAssumption ==
    /\ Times \subseteq Nat /\ Intervals \subseteq Nat /\ Retention \in Nat
    /\ Word \in Nat
    /\ \A t \in Times : 2 * t < Word /\ 2 * Retention < Word
    /\ Remains \subseteq {"own", "other", "garbage"}
    /\ None \notin Nat \cup [path : Paths, usable : BOOLEAN]

VARIABLES
    rows,       \* orderbook_snapshots of each database
    last_id,    \* and the last id that AUTOINCREMENT gave out there
    tables,     \* the databases in which the table exists
    now,        \* the system clock
    books,      \* the version of each book
    traded,     \* the symbols that have a book
    db_,        \* the handle: None, or its database and whether that could be opened
    at,         \* where the scheduler stands
    interval,   \* config.snapshot_interval_seconds, as the scheduler copied it
    slept,      \* how long it has slept
    left,       \* the symbols this round has yet to come to
    symbol,     \* the symbol it is at, or None
    bids,       \* the version whose bids it has read, or None
    asks,       \* the version whose asks it has read, or None
    taken,      \* history: what this round read of each symbol
    saved,      \* history: the rows for which save_snapshot returned true
    latest,     \* history: the highest value the clock has had
    orderly     \* history: the clock was never set back, and every round was slept for

database == <<rows, last_id, tables>>
scheduler == <<at, interval, slept, left, symbol, bids, asks>>
history == <<taken, saved, latest, orderly>>
vars == <<database, now, books, traded, db_, scheduler, history>>

Row == [id : Nat, symbol : Symbols, timestamp : Times, read_bids : Nat, read_asks : Nat,
        bids : {"own", "other", "garbage"}, asks : {"own", "other", "garbage"}]

Init ==
    /\ rows = [p \in Paths |-> {}]
    /\ last_id = [p \in Paths |-> 0]
    /\ tables = {}
    /\ now \in Times
    /\ books = [s \in Symbols |-> 0]
    /\ traded = {}
    /\ db_ = None
    /\ at = "off" /\ interval = 0 /\ slept = 0 /\ left = {}
    /\ symbol = None /\ bids = None /\ asks = None
    /\ taken = [s \in {} |-> <<>>]
    /\ saved = [p \in Paths |-> {}]
    /\ latest = now
    /\ orderly = TRUE

-------------------------------------------------------------------------------
(* The world *)

\* An order changes a book.
ChangeBook(s) ==
    /\ s \in traded
    /\ books' = [books EXCEPT ![s] = @ + 1]
    /\ UNCHANGED <<database, now, traded, db_, scheduler, history>>

\* The system clock advances, and what sleeps sleeps on.
Tick ==
    /\ now + 1 \in Times
    /\ now' = now + 1
    /\ latest' = IF now' > latest THEN now' ELSE latest
    /\ slept' = IF at = "sleep" /\ slept < interval THEN slept + 1 ELSE slept
    /\ UNCHANGED <<database, books, traded, db_, at, interval, left, symbol, bids, asks,
                   taken, saved, orderly>>

\* The system clock is set.
SetClock(t) ==
    /\ "clock" \in Faults
    /\ now' = t
    /\ latest' = IF t > latest THEN t ELSE latest
    /\ orderly' = (orderly /\ t >= now)
    /\ UNCHANGED <<database, books, traded, db_, scheduler, taken, saved>>

-------------------------------------------------------------------------------
(* Start and end of a process *)

\* sqlite3_open sets the handle in any case; create_tables may fail, and main
\* goes on either way.  The symbols get their books.  The scheduler returns at
\* once without persistence.
Initialize(path, symbols, seconds, enable_persistence) ==
    /\ db_ = None
    /\ traded' = symbols
    /\ \E usable \in {TRUE} \cup (IF "open" \in Faults THEN {FALSE} ELSE {}) :
        /\ db_' = [path |-> path, usable |-> usable]
        /\ tables' \in {IF usable THEN tables \cup {path} ELSE tables}
                        \cup (IF "tables" \in Faults THEN {tables} ELSE {})
    /\ at' = IF enable_persistence THEN "sleep" ELSE "off"
    /\ interval' = seconds
    /\ orderly' = (orderly /\ seconds > 0)
    /\ UNCHANGED <<rows, last_id, now, books, slept, left, symbol, bids, asks,
                   taken, saved, latest>>

\* The process is killed, at any point: what SQLite has committed stays.
Kill ==
    /\ db_ # None
    /\ db_' = None
    /\ traded' = {}
    /\ books' = [s \in Symbols |-> books[s] + 1]
    /\ at' = "off" /\ interval' = 0 /\ slept' = 0 /\ left' = {}
    /\ symbol' = None /\ bids' = None /\ asks' = None
    /\ taken' = [s \in {} |-> <<>>]
    /\ UNCHANGED <<database, now, saved, latest, orderly>>

-------------------------------------------------------------------------------
(* A round of the scheduler *)

\* The sleep is over.
StartRound(symbols) ==
    /\ at = "sleep" /\ slept = interval
    /\ at' = "bids"
    /\ left' = symbols
    /\ taken' = [s \in {} |-> <<>>]
    /\ UNCHANGED <<database, now, books, traded, db_, interval, slept, symbol, bids, asks,
                   saved, latest, orderly>>

\* get_bid_levels of the next symbol's book, in the order of the hash table.
ReadBids(s) ==
    /\ at = "bids" /\ s \in left /\ s \in traded
    /\ symbol' = s
    /\ left' = left \ {s}
    /\ bids' = books[s]
    /\ at' = "asks"
    /\ UNCHANGED <<database, now, books, traded, db_, interval, slept, asks, history>>

\* A symbol that was configured after the start has no book.
SkipSymbol(s) ==
    /\ at = "bids" /\ s \in left /\ s \notin traded
    /\ left' = left \ {s}
    /\ UNCHANGED <<database, now, books, traded, db_, at, interval, slept, symbol, bids, asks,
                   history>>

ReadAsks ==
    /\ at = "asks"
    /\ asks' = books[symbol]
    /\ at' = "save"
    /\ UNCHANGED <<database, now, books, traded, db_, interval, slept, left, symbol, bids, history>>

\* On to the next symbol, whatever save_snapshot returned.
NextSymbol ==
    /\ at' = "bids"
    /\ taken' = [s \in DOMAIN taken \cup {symbol} |->
                    IF s = symbol THEN [bids |-> bids, asks |-> asks] ELSE taken[s]]
    /\ symbol' = None /\ bids' = None /\ asks' = None

\* (Mutant: bids and asks change places.)
RowsSwapped(path) ==
    {[id |-> last_id[path] + 1, symbol |-> symbol, timestamp |-> now,
      read_bids |-> asks, read_asks |-> bids, bids |-> b, asks |-> a] :
        b \in Remains, a \in Remains \ {"other"}}

\* The row as the INSERT stores it.  Both texts are bound by pointer, into
\* strings that are gone when the statement runs.
RowsFor(path) ==
    {[id |-> last_id[path] + 1, symbol |-> symbol, timestamp |-> now,
      read_bids |-> bids, read_asks |-> asks, bids |-> b, asks |-> a] :
        b \in Remains, a \in Remains \ {"other"}}

SaveSnapshot ==
    /\ at = "save"
    /\ db_.usable /\ db_.path \in tables
    /\ \E row \in RowsFor(db_.path) :
        /\ rows' = [rows EXCEPT ![db_.path] = @ \cup {row}]
        /\ saved' = [saved EXCEPT ![db_.path] = @ \cup {row}]
    /\ last_id' = [last_id EXCEPT ![db_.path] = @ + 1]
    /\ NextSymbol
    /\ UNCHANGED <<tables, now, books, traded, db_, interval, slept, left, latest, orderly>>

\* The statement cannot be prepared, or its execution fails.
SaveFails ==
    /\ at = "save"
    /\ ~db_.usable \/ db_.path \notin tables \/ "save" \in Faults
    /\ NextSymbol
    /\ UNCHANGED <<database, now, books, traded, db_, interval, slept, left, saved, latest, orderly>>

\* "Order book snapshots saved for " so many symbols.
Report ==
    /\ at = "bids" /\ left = {}
    /\ at' = "cleanup"
    /\ UNCHANGED <<database, now, books, traded, db_, interval, slept, left, symbol, bids, asks, history>>

\* (Mutant: the cut-off is compared as it is computed, without a sign.)
CutoffUnsigned(t) == IF t >= Retention THEN t - Retention ELSE t - Retention + Word

\* The difference of two uint64_t, bound as an int64.
AsUnsigned(x) == IF x < 0 THEN x + Word ELSE x
AsSigned(x) == IF 2 * x < Word THEN x ELSE x - Word
Cutoff(t) == AsSigned(AsUnsigned(t - Retention))

CleanUp ==
    /\ at = "cleanup"
    /\ db_.usable /\ db_.path \in tables
    /\ rows' = [rows EXCEPT ![db_.path] = {r \in @ : ~(r.timestamp < Cutoff(now))}]
    /\ at' = "sleep" /\ slept' = 0
    /\ UNCHANGED <<last_id, tables, now, books, traded, db_, interval, left, symbol, bids, asks, history>>

CleanUpFails ==
    /\ at = "cleanup"
    /\ ~db_.usable \/ db_.path \notin tables \/ "save" \in Faults
    /\ at' = "sleep" /\ slept' = 0
    /\ UNCHANGED <<database, now, books, traded, db_, interval, left, symbol, bids, asks, history>>

Next ==
    \/ \E s \in Symbols : ChangeBook(s) \/ ReadBids(s) \/ SkipSymbol(s)
    \/ Tick
    \/ \E t \in Times : SetClock(t)
    \/ \E path \in Paths, symbols \in SUBSET Symbols, seconds \in Intervals, enabled \in BOOLEAN :
        Initialize(path, symbols, seconds, enabled)
    \/ Kill
    \/ \E symbols \in SUBSET Symbols : StartRound(symbols)
    \/ ReadAsks \/ SaveSnapshot \/ SaveFails \/ Report \/ CleanUp \/ CleanUpFails

Spec == Init /\ [][Next]_vars

-------------------------------------------------------------------------------
(* load_latest_snapshot *)

Of(s, table) == {r \in table : r.symbol = s}

\* (Mutant: the order of the query is ascending.)
OldestSnapshots(s, table) ==
    {r \in Of(s, table) : \A q \in Of(s, table) : q.timestamp >= r.timestamp}

\* The rows load_latest_snapshot may return: ORDER BY timestamp DESC LIMIT 1
\* does not say which of two with the same timestamp.
LatestSnapshots(s, table) ==
    {r \in Of(s, table) : \A q \in Of(s, table) : q.timestamp <= r.timestamp}

-------------------------------------------------------------------------------
(* Correctness *)

Handles == [path : Paths, usable : BOOLEAN]

TypeOK ==
    /\ rows \in [Paths -> SUBSET Row] /\ saved \in [Paths -> SUBSET Row]
    /\ last_id \in [Paths -> Nat]
    /\ tables \subseteq Paths
    /\ now \in Times /\ latest \in Times
    /\ books \in [Symbols -> Nat]
    /\ traded \subseteq Symbols
    /\ db_ \in Handles \cup {None}
    /\ at \in {"off", "sleep", "bids", "asks", "save", "cleanup"}
    /\ interval \in Nat /\ slept \in 0 .. interval
    /\ left \subseteq Symbols
    /\ symbol \in Symbols \cup {None} /\ (at \in {"asks", "save"} => symbol \in Symbols)
    /\ bids \in Nat \cup {None} /\ (at \in {"asks", "save"} => bids \in Nat)
    /\ asks \in Nat \cup {None} /\ (at = "save" => asks \in Nat)
    /\ orderly \in BOOLEAN
    /\ db_ = None => at = "off"

\* What save_snapshot has accepted stays for the retention period, whatever is
\* killed, set or cleaned up meanwhile, and also when the clock shows a time
\* within the first days of its epoch, where the cut-off wraps around.
KeptForRetention ==
    \A p \in Paths : \A r \in saved[p] :
        r.timestamp >= latest - Retention => r \in rows[p]

\* The two halves of a snapshot are read one after the other, and snapshots do
\* not overlap: the bids of a later one are never older than the asks of an
\* earlier one, across restarts too.
SnapshotsInOrder ==
    \A p \in Paths : \A q, r \in rows[p] :
        q.symbol = r.symbol =>
            /\ q.read_bids <= q.read_asks
            /\ q.id < r.id => q.read_asks <= r.read_bids

\* load_latest_snapshot returns the snapshot saved last, as long as the clock
\* is never set back and the scheduler sleeps between its rounds: it asks for
\* the highest timestamp, and nothing else keeps timestamps apart.
LatestIsNewest ==
    orderly =>
        \A p \in Paths : \A s \in Symbols : \A r \in LatestSnapshots(s, rows[p]) :
            \A q \in Of(s, rows[p]) : q.id <= r.id

-------------------------------------------------------------------------------
(* What the program says, and does not do *)

\* main.cpp: "Order book snapshots saved for ": the levels that were read are
\* in the database when this is printed.
SavedAsReported ==
    at = "cleanup" =>
        \A s \in DOMAIN taken : \E r \in rows[db_.path] :
            /\ r.symbol = s
            /\ [bids |-> r.read_bids, asks |-> r.read_asks] = taken[s]
            /\ r.bids = "own" /\ r.asks = "own"
===============================================================================
