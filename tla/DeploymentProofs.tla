--------------------------- MODULE DeploymentProofs ---------------------------
(***************************************************************************)
(* A GoQuant installation over any number of processes, databases, symbols,  *)
(* documents and rounds: what holds of its snapshots, of its settings and of *)
(* the load it reports.  Every step of the deployment is a step of one of    *)
(* its components or leaves that component alone.                            *)
(***************************************************************************)
EXTENDS Deployment, FiniteSetTheorems, QueueLemmas

-------------------------------------------------------------------------------
(* What holds of the settings at every moment *)

\* Settings that are a function.
Complete(config) == config = [f \in DOMAIN config |-> config[f]]

\* What load_config can make something of.
Readable(document) ==
    /\ document = [engine |-> document.engine, symbols |-> document.symbols]
    /\ document.symbols \in Seq({document.symbols[i] : i \in DOMAIN document.symbols})
    /\ ~Config!Throws(Defaults, document.engine) =>
            Config!FromJson(Defaults, document.engine) \in EngineConfigs
    /\ \A i \in DOMAIN document.symbols :
        ~Config!Throws(SymbolDefaults, document.symbols[i]) =>
            Config!FromJson(SymbolDefaults, document.symbols[i]) \in Config!KnownSymbolConfigs

\* The settings of each symbol, filed under its name.
Filed(symbols) ==
    /\ symbols = [s \in DOMAIN symbols |-> symbols[s]]
    /\ IsFiniteSet(DOMAIN symbols)
    /\ \A s \in DOMAIN symbols :
        symbols[s] \in Config!KnownSymbolConfigs /\ symbols[s]["symbol"] = s

\* The settings, on disk and in memory, are well-formed.
SettingsInv ==
    /\ stage \in Config!Stages /\ changed \in BOOLEAN
    /\ engine_config \in EngineConfigs
    /\ Filed(symbol_configs)
    /\ config_file \notin {Missing, Torn} => config_file # None /\ Readable(config_file)
    /\ source # None => Readable(source)

\* What the first k entries of a list of symbols say: the last one of a name counts.
LastOf(entries, k, s) ==
    CHOOSE i \in 1 .. k : /\ entries[i]["symbol"] = s
                          /\ \A j \in 1 .. k : entries[j]["symbol"] = s => j <= i

\* What symbol_configs is after k entries of a document.
FirstSettings(entries, k) ==
    [s \in {entries[i]["symbol"] : i \in 1 .. k} |-> entries[LastOf(entries, k, s)]]

\* load_config has looked at k symbols of the document.
LoadedUpTo(k) ==
    /\ Len(config_json.symbols) = Len(source.symbols) - k
    /\ \A i \in 1 .. Len(config_json.symbols) : config_json.symbols[i] = source.symbols[i + k]
    /\ \A i \in 1 .. k : ~Config!Throws(SymbolDefaults, source.symbols[i])
    /\ symbol_configs = FirstSettings(Config!Entries(source), k)

\* load_config has assigned what its document says, up to where it is.
LoadInv ==
    /\ LoadAllOrNothing
    /\ stage \in {"engine", "symbols"} => source # None
    /\ stage = "engine" => config_json = source
    /\ stage = "symbols" =>
        /\ config_json = [engine |-> config_json.engine, symbols |-> config_json.symbols]
        /\ config_json.symbols \in Seq({source.symbols[i] : i \in DOMAIN source.symbols})
        /\ ~Config!Throws(Defaults, source.engine)
        /\ engine_config = Config!FromJson(Defaults, source.engine)
        /\ \E k \in 0 .. Len(source.symbols) : LoadedUpTo(k)

-------------------------------------------------------------------------------
(* What holds of the snapshots at every moment *)

\* The scheduler has bids in hand.
Reading == at \in {"asks", "save"}

\* The ids of a table are given out once each, upwards; what is in it was read
\* before what is in hand, and that before what is in the book.
OrderInv ==
    /\ \A p \in Paths : \A r \in rows[p] :
        /\ r.id <= last_id[p]
        /\ r.read_bids <= r.read_asks /\ r.read_asks <= books[r.symbol]
        /\ Reading /\ r.symbol = symbol => r.read_asks <= bids
    /\ SnapshotsInOrder
    /\ Reading => bids <= books[symbol]
    /\ at = "save" => bids <= asks /\ asks <= books[symbol]

\* The symbols that have their turn in this round yet to come or under way.
Ahead(s) == at \in {"bids", "asks", "save"} /\ (s \in left \/ (Reading /\ s = symbol))

\* While the clock is orderly, the rows of a symbol have timestamps in the order
\* of their ids, and all of them are over when it gets a new one.
StampInv ==
    /\ Reading => symbol \notin left
    /\ orderly =>
        /\ at # "off" => interval > 0
        /\ \A p \in Paths : \A r \in rows[p] :
            /\ r.timestamp <= now
            /\ at = "sleep" => r.timestamp + slept <= now
            /\ Ahead(r.symbol) => r.timestamp < now
            /\ \A q \in rows[p] :
                (q.symbol = r.symbol /\ q.id < r.id) => q.timestamp < r.timestamp

\* The types of the snapshots.
StoreTypes == Store!TypeOK /\ now <= latest /\ (at = "off" => slept = 0)

\* What holds of the snapshots.
StoreInv ==
    /\ StoreTypes
    /\ KeptForRetention
    /\ OrderInv
    /\ StampInv

-------------------------------------------------------------------------------
(* What holds of the threads that watch at every moment *)

\* A thread in get_system_usage.
Active(w) == doing[w] \notin {"off", "asleep"}

\* What a thread has in hand there.
Samples == [memory : Nat, total : Nat, process : Nat, last_total : Nat, last_process : Nat]

\* The numbers of the call that returned last; none.
LastSample == IF samples = <<>> THEN [total |-> 0, process |-> 0] ELSE samples[Len(samples)]

\* What a call that returns after the others is to work out.
Worth(s) == IF samples = <<>> THEN None ELSE Monitor!LoadSince(samples[Len(samples)], s)

\* The types of the monitoring threads.
MonitorTypes ==
    /\ total \in Nat /\ own \in Nat /\ own < total
    /\ last_total_time_ \in 0 .. total /\ last_process_time_ \in 0 .. own
    /\ doing \in [Monitor!Watchers -> {"off", "asleep", "stat", "total_diff", "process_diff",
                                       "store", "return"}]
    /\ sample \in [Monitor!Watchers -> Samples]
    /\ last_status_ \in Monitor!Messages
    /\ figure = [w \in Monitor!Watchers |-> figure[w]]
    /\ overlapped \in BOOLEAN
    /\ samples \in Seq([by : Monitor!Watchers, total : Nat \ {0}, process : Nat])
    /\ bound.ticks \in Nat /\ total + bound.ticks < Word

\* One call at a time: what the thread in it has read so far.
Undisturbed(w) ==
    /\ \A v \in Monitor!Watchers : Active(v) => v = w
    /\ sample[w].total >= LastSample.total
    /\ doing[w] # "stat" => sample[w].process >= LastSample.process
    /\ doing[w] \in {"process_diff", "store", "return"} => sample[w].last_total = LastSample.total
    /\ doing[w] \in {"store", "return"} =>
            sample[w].last_process = LastSample.process /\ figure[w] = Worth(sample[w])
    /\ last_total_time_ = IF doing[w] = "return" THEN sample[w].total ELSE LastSample.total

\* While calls do not overlap, the two counters are those of the last sample.
MonitorInv ==
    /\ MonitorTypes
    /\ ~Up => \A w \in Monitor!Watchers : doing[w] = "off"
    /\ \A w \in Monitor!Watchers : Active(w) =>
        sample[w].total > 0 /\ sample[w].total <= total /\ sample[w].process <= own
    /\ LastSample.total <= total /\ LastSample.process <= own
    /\ FigureIsTrue
    /\ ~overlapped =>
        /\ last_process_time_ = LastSample.process
        /\ \A w \in Monitor!Watchers : Active(w) => Undisturbed(w)
        /\ (\A w \in Monitor!Watchers : ~Active(w)) => last_total_time_ = LastSample.total

-------------------------------------------------------------------------------
(* The steps of the deployment as steps of its components *)

\* The bounds of a history are numbers.
BoundInv ==
    bound \in [files : SUBSET (Documents \cup {Missing, Torn}), clock : SUBSET Times,
               edits : Nat, calls : Nat, changes : Nat, rounds : Nat, kills : Nat,
               ticks : Nat, samples : Nat]

\* The kinds of events they count.
Kinds == {"edits", "calls", "changes", "rounds", "kills", "ticks", "samples"}

\* An event of one kind uses up the bound of that kind.
LEMMA SpendProperties ==
    ASSUME BoundInv, NEW kind \in Kinds, Spend(kind)
    PROVE  BoundInv' /\ bound'.ticks = IF kind = "ticks" THEN bound.ticks - 1 ELSE bound.ticks
<1>1. bound[kind] \in Nat /\ bound[kind] > 0 /\ bound' = [bound EXCEPT ![kind] = bound[kind] - 1]
    BY DEF BoundInv, Kinds, Spend
<1>2. bound[kind] - 1 \in Nat
    BY <1>1
<1> QED
    BY <1>1, <1>2 DEF BoundInv, Kinds

\* The bounds at the start are numbers.
LEMMA InitBoundInv == Init => BoundInv
BY DeploymentAssumption DEF Init, BoundInv

\* Only the ticks of the processor use up ticks.
SpendsNoTick == BoundInv' /\ bound'.ticks = bound.ticks

\* Other events leave the ticks.
LEMMA SpendingNoTick ==
    ASSUME BoundInv, UNCHANGED bound \/ \E kind \in Kinds \ {"ticks"} : Spend(kind)
    PROVE  SpendsNoTick
<1>1. CASE UNCHANGED bound
    BY <1>1, Zenon DEF BoundInv, SpendsNoTick
<1>2. ASSUME NEW kind \in Kinds \ {"ticks"}, Spend(kind) PROVE SpendsNoTick
    BY <1>2, SpendProperties DEF SpendsNoTick
<1> QED
    BY <1>1, <1>2

\* A step spends a tick when the processor ticks, and only then.
LEMMA NextBound ==
    ASSUME BoundInv, [Next]_vars
    PROVE  \/ ProcessorTicks /\ BoundInv' /\ bound'.ticks = bound.ticks - 1
           \/ ~ProcessorTicks /\ SpendsNoTick
<1>1. CASE ProcessorTicks
    <2>1. "ticks" \in Kinds /\ Spend("ticks")
        BY <1>1 DEF ProcessorTicks, Kinds
    <2> QED
        BY <1>1, <2>1, SpendProperties
<1>2. CASE ~ProcessorTicks
    <2>1. UNCHANGED bound \/ \E kind \in Kinds \ {"ticks"} : Spend(kind)
        <3>1. CASE Next
            BY <1>2, <3>1, Zenon DEF Next, Load, Start, BeginRound, Snapshot, Trade, BeginSample,
                Sample, Configure, FinishSave, Edit, TimePasses, KillEarly, Killed, Kinds
        <3>2. CASE UNCHANGED vars
            BY <3>2 DEF vars
        <3> QED
            BY <3>1, <3>2
    <2> QED
        BY <1>2, <2>1, SpendingNoTick
<1> QED
    BY <1>1, <1>2

\* What the settings say of snapshots.
LEMMA PathsAndIntervals ==
    ASSUME engine_config \in EngineConfigs
    PROVE  /\ engine_config["persistence_path"] \in Paths
           /\ engine_config["snapshot_interval_seconds"] \in Intervals
BY DEF Paths, Intervals

\* The symbols with settings are symbols.
LEMMA NamesAreSymbols ==
    ASSUME Filed(symbol_configs)
    PROVE  DOMAIN symbol_configs \subseteq Symbols /\ EngineSymbols \subseteq Symbols
BY DeploymentAssumption DEF Filed

\* What the deployment does to the snapshots.
LEMMA StoreStep ==
    ASSUME SettingsInv, BoundInv, [Next]_vars
    PROVE  [Store!Next]_storeVars
<1>1. engine_config \in EngineConfigs /\ Filed(symbol_configs)
    BY DEF SettingsInv
<1>2. CASE Start
    <2> DEFINE path == engine_config["persistence_path"]
               symbols == EngineSymbols \cup DOMAIN symbol_configs
               seconds == engine_config["snapshot_interval_seconds"]
               enabled == engine_config["enable_persistence"]
    <2>1. path \in Paths /\ seconds \in Intervals /\ symbols \in SUBSET Symbols
        BY <1>1, PathsAndIntervals, NamesAreSymbols
    <2>2. Store!Initialize(path, symbols, seconds, enabled)
        BY <1>2 DEF Start
    <2>3. Store!Initialize(path, symbols, seconds, IF enabled THEN TRUE ELSE FALSE)
        BY <2>2 DEF Store!Initialize
    <2>4. (IF enabled THEN TRUE ELSE FALSE) \in BOOLEAN
        OBVIOUS
    <2> QED
        BY <2>1, <2>3, <2>4 DEF Store!Next
<1>3. CASE BeginRound
    <2>1. DOMAIN symbol_configs \in SUBSET Symbols /\ Store!StartRound(DOMAIN symbol_configs)
        BY <1>1, <1>3, NamesAreSymbols DEF BeginRound
    <2> QED
        BY <2>1 DEF Store!Next
<1>4. CASE Snapshot \/ Trade \/ Killed
    BY <1>4 DEF Snapshot, Trade, Killed, Store!Next
<1>5. CASE TimePasses
    <2>1. bound.clock \subseteq Times
        BY DEF BoundInv
    <2>2. Store!Tick \/ \E t \in Times : Store!SetClock(t)
        BY <1>5, <2>1 DEF TimePasses
    <2> QED
        BY <2>2 DEF Store!Next
<1>6. CASE UNCHANGED storeVars
    BY <1>6
<1>7. \/ UNCHANGED storeVars
      \/ Start \/ BeginRound \/ Snapshot \/ Trade \/ Killed \/ TimePasses
    <2>1. CASE Next
        BY <2>1, Zenon DEF Next, Load, BeginSample, Sample, Configure, FinishSave, Edit,
            ProcessorTicks, KillEarly
    <2>2. CASE UNCHANGED vars
        BY <2>2 DEF vars
    <2> QED
        BY <2>1, <2>2
<1> QED
    BY <1>2, <1>3, <1>4, <1>5, <1>6, <1>7

\* What it does to the settings.
LEMMA SettingsStep ==
    ASSUME BoundInv, [Next]_vars
    PROVE  [Config!Next]_configVars
<1>1. CASE Edit
    <2>1. bound.files \subseteq Documents \cup {Missing, Torn}
        BY DEF BoundInv
    <2>2. \E content \in Documents \cup {Missing, Torn} : Config!EditFile(content)
        BY <1>1, <2>1 DEF Edit
    <2> QED
        BY <2>2 DEF Config!Next
<1>2. CASE Load \/ Configure \/ FinishSave \/ KillEarly \/ Killed
    BY <1>2, Zenon DEF Load, Configure, FinishSave, KillEarly, Killed, Config!Next
<1>3. CASE UNCHANGED configVars
    BY <1>3
<1>4. \/ UNCHANGED configVars
      \/ Edit \/ Load \/ Configure \/ FinishSave \/ KillEarly \/ Killed
    <2>1. CASE Next
        BY <2>1, Zenon DEF Next, Start, BeginRound, Snapshot, Trade, BeginSample, Sample,
            TimePasses, ProcessorTicks
    <2>2. CASE UNCHANGED vars
        BY <2>2 DEF vars
    <2> QED
        BY <2>1, <2>2
<1> QED
    BY <1>1, <1>2, <1>3, <1>4

\* What it does to the threads that watch.
WatchStep ==
    \/ ~Up /\ Monitor!StartWatching
    \/ Monitor!Kill
    \/ \E w \in Monitor!Watchers : Monitor!ReadTotal(w) \/ Monitor!Watch(w)

\* What a step of the deployment is to the monitoring threads.
LEMMA MonitorStep ==
    ASSUME BoundInv, [Next]_vars
    PROVE  \/ Monitor!Elapse /\ bound'.ticks = bound.ticks - 1
           \/ (WatchStep \/ UNCHANGED monitorVars) /\ bound'.ticks = bound.ticks
<1>1. CASE ProcessorTicks
    BY <1>1, NextBound DEF ProcessorTicks
<1>2. CASE ~ProcessorTicks
    <2>1. WatchStep \/ UNCHANGED monitorVars
        <3>1. CASE Next
            BY <1>2, <3>1, Zenon DEF Next, Load, Start, BeginRound, Snapshot, Trade, BeginSample,
                Sample, Configure, FinishSave, Edit, TimePasses, KillEarly, Killed,
                WatchStep
        <3>2. CASE UNCHANGED vars
            BY <3>2 DEF vars
        <3> QED
            BY <3>1, <3>2
    <2> QED
        BY <1>2, <2>1, NextBound DEF SpendsNoTick
<1> QED
    BY <1>1, <1>2

-------------------------------------------------------------------------------
(* Snapshots *)

\* The assumptions on clocks, intervals and texts.
LEMMA StoreFacts ==
    /\ Times \subseteq Nat /\ Intervals \subseteq Nat /\ Retention \in Nat /\ Word \in Nat
    /\ \A t \in Times : 2 * t < Word /\ 2 * Retention < Word
    /\ Remains \subseteq {"own", "other", "garbage"}
    /\ None \notin Nat /\ None \notin Store!Handles
BY StoreAssumption DEF Store!SnapshotsAssumption, Store!Handles

\* The cut-off goes through a uint64_t and an int64, and comes out right.
LEMMA CutoffProperties ==
    ASSUME NEW t \in Times
    PROVE  Store!Cutoff(t) = t - Retention
<1>1. t \in Nat /\ Retention \in Nat /\ Word \in Nat /\ 2 * t < Word /\ 2 * Retention < Word
    BY StoreFacts
<1>2. CASE t - Retention < 0
    <2>1. Store!AsUnsigned(t - Retention) = t - Retention + Word
        BY <1>2 DEF Store!AsUnsigned
    <2>2. ~(2 * (t - Retention + Word) < Word)
        BY <1>1
    <2>3. Store!AsSigned(t - Retention + Word) = t - Retention
        BY <1>1, <2>2 DEF Store!AsSigned
    <2> QED
        BY <2>1, <2>3 DEF Store!Cutoff
<1>3. CASE ~(t - Retention < 0)
    <2>1. 2 * (t - Retention) < Word
        BY <1>1
    <2> QED
        BY <1>3, <2>1 DEF Store!Cutoff, Store!AsSigned, Store!AsUnsigned
<1> QED
    BY <1>2, <1>3

\* The rows save_snapshot may insert.
LEMMA RowsForProperties ==
    ASSUME StoreTypes, at = "save", NEW path \in Paths, NEW row \in Store!RowsFor(path)
    PROVE  /\ row \in Store!Row
           /\ row.id = last_id[path] + 1 /\ row.symbol = symbol /\ row.timestamp = now
           /\ row.read_bids = bids /\ row.read_asks = asks
<1>1. PICK b \in Remains, a \in Remains :
        row = [id |-> last_id[path] + 1, symbol |-> symbol, timestamp |-> now,
               read_bids |-> bids, read_asks |-> asks, bids |-> b, asks |-> a]
    BY DEF Store!RowsFor
<1>2. /\ last_id[path] + 1 \in Nat /\ symbol \in Symbols /\ now \in Times
      /\ bids \in Nat /\ asks \in Nat
    BY DEF StoreTypes, Store!TypeOK
<1>3. a \in {"own", "other", "garbage"} /\ b \in {"own", "other", "garbage"}
    BY StoreFacts
<1> QED
    BY <1>1, <1>2, <1>3 DEF Store!Row

\* The databases start without tables.
LEMMA InitStoreTypes == Init => StoreTypes
<1> SUFFICES ASSUME Init PROVE StoreTypes
    OBVIOUS
<1>1. Store!Init
    BY DEF Init
<1>2. now \in Nat
    BY <1>1, StoreFacts DEF Store!Init
<1> QED
    BY <1>1, <1>2 DEF Store!Init, Store!TypeOK, StoreTypes

\* Types, the highest value of the clock, and the sleep of a scheduler that is off.
LEMMA NextStoreTypes ==
    ASSUME StoreTypes, [Store!Next]_storeVars
    PROVE  StoreTypes'
<1> USE DEF StoreTypes, Store!TypeOK, Store!database, Store!scheduler, Store!history
<1>1. now \in Nat /\ latest \in Nat
    BY StoreFacts
<1>2. ASSUME NEW s \in Symbols, Store!ChangeBook(s) PROVE StoreTypes'
    BY <1>2 DEF Store!ChangeBook
<1>3. ASSUME NEW s \in Symbols, Store!ReadBids(s) PROVE StoreTypes'
    BY <1>3 DEF Store!ReadBids
<1>4. ASSUME NEW s \in Symbols, Store!SkipSymbol(s) PROVE StoreTypes'
    BY <1>4 DEF Store!SkipSymbol
<1>5. CASE Store!Tick
    BY <1>1, <1>5 DEF Store!Tick
<1>6. ASSUME NEW t \in Times, Store!SetClock(t) PROVE StoreTypes'
    <2>1. t \in Nat
        BY StoreFacts
    <2> QED
        BY <1>1, <1>6, <2>1 DEF Store!SetClock
<1>7. ASSUME NEW path \in Paths, NEW symbols \in SUBSET Symbols, NEW seconds \in Intervals,
             NEW enabled \in BOOLEAN, Store!Initialize(path, symbols, seconds, enabled)
      PROVE  StoreTypes'
    <2>1. seconds \in Nat
        BY StoreFacts
    <2>2. db_' \in Store!Handles /\ db_' # None
        <3>1. PICK usable \in BOOLEAN : db_' = [path |-> path, usable |-> usable]
            BY <1>7 DEF Store!Initialize
        <3>2. db_' \in Store!Handles
            BY <3>1 DEF Store!Handles
        <3> QED
            BY <3>2, StoreFacts
    <2>3. tables' \subseteq Paths
        BY <1>7 DEF Store!Initialize
    <2>4. slept = 0
        BY <1>7 DEF Store!Initialize
    <2> QED
        BY <1>7, <2>1, <2>2, <2>3, <2>4 DEF Store!Initialize
<1>8. CASE Store!Kill
    BY <1>8 DEF Store!Kill
<1>9. ASSUME NEW symbols \in SUBSET Symbols, Store!StartRound(symbols) PROVE StoreTypes'
    BY <1>9 DEF Store!StartRound
<1>10. CASE Store!ReadAsks
    BY <1>10 DEF Store!ReadAsks
<1>11. CASE Store!SaveSnapshot
    <2> DEFINE path == db_.path
    <2>1. path \in Paths
        BY <1>11 DEF Store!SaveSnapshot, Store!Handles
    <2>2. PICK row \in Store!RowsFor(path) :
            /\ rows' = [rows EXCEPT ![path] = @ \cup {row}]
            /\ saved' = [saved EXCEPT ![path] = @ \cup {row}]
        BY <1>11 DEF Store!SaveSnapshot
    <2>3. row \in Store!Row
        BY <1>11, <2>1, RowsForProperties DEF Store!SaveSnapshot
    <2>4. rows' \in [Paths -> SUBSET Store!Row] /\ saved' \in [Paths -> SUBSET Store!Row]
        BY <2>1, <2>2, <2>3
    <2>5. last_id' \in [Paths -> Nat]
        BY <1>11, <2>1 DEF Store!SaveSnapshot
    <2> QED
        BY <1>11, <2>4, <2>5 DEF Store!SaveSnapshot, Store!NextSymbol
<1>12. CASE Store!SaveFails
    BY <1>12 DEF Store!SaveFails, Store!NextSymbol
<1>13. CASE Store!Report
    BY <1>13 DEF Store!Report
<1>14. CASE Store!CleanUp
    <2>1. db_.path \in Paths
        BY <1>14 DEF Store!CleanUp, Store!Handles
    <2>2. rows' \in [Paths -> SUBSET Store!Row]
        BY <1>14, <2>1 DEF Store!CleanUp
    <2> QED
        BY <1>14, <2>2 DEF Store!CleanUp
<1>15. CASE Store!CleanUpFails
    BY <1>15 DEF Store!CleanUpFails
<1>16. CASE UNCHANGED storeVars
    BY <1>16 DEF storeVars
<1> QED
    BY <1>2, <1>3, <1>4, <1>5, <1>6, <1>7, <1>8, <1>9, <1>10, <1>11, <1>12, <1>13, <1>14, <1>15,
        <1>16 DEF Store!Next

\* The rows after a step: as before, one more for the symbol in hand, or fewer.
Stored(path, row) ==
    /\ at = "save" /\ path \in Paths
    /\ row \in Store!Row /\ row.id = last_id[path] + 1 /\ row.symbol = symbol
    /\ row.timestamp = now /\ row.read_bids = bids /\ row.read_asks = asks
    /\ rows' = [rows EXCEPT ![path] = @ \cup {row}]
    /\ saved' = [saved EXCEPT ![path] = @ \cup {row}]
    /\ last_id' = [last_id EXCEPT ![path] = @ + 1]
    /\ at' = "bids" /\ symbol' = None
    /\ UNCHANGED <<now, books, interval, slept, left, latest, orderly>>

\* save_snapshot adds one row to one database.
LEMMA SaveStores ==
    ASSUME StoreTypes, Store!SaveSnapshot
    PROVE  \E path \in Paths : \E row \in Store!Row : Stored(path, row)
<1> DEFINE path == db_.path
<1>1. at = "save" /\ path \in Paths
    BY DEF Store!SaveSnapshot, StoreTypes, Store!TypeOK, Store!Handles
<1>2. PICK row \in Store!RowsFor(path) :
        /\ rows' = [rows EXCEPT ![path] = @ \cup {row}]
        /\ saved' = [saved EXCEPT ![path] = @ \cup {row}]
    BY DEF Store!SaveSnapshot
<1>3. Stored(path, row)
    BY <1>1, <1>2, RowsForProperties DEF Store!SaveSnapshot, Store!NextSymbol, Stored
<1>4. row \in Store!Row
    BY <1>1, <1>2, RowsForProperties
<1> QED
    BY <1>1, <1>3, <1>4

\* cleanup_old_snapshots removes what is older than the retention.
LEMMA CleanUpRemoves ==
    ASSUME StoreTypes, Store!CleanUp
    PROVE  \A p \in Paths : /\ rows'[p] \subseteq rows[p]
                            /\ \A r \in rows[p] : r.timestamp >= now - Retention => r \in rows'[p]
<1>1. Store!Cutoff(now) = now - Retention /\ now \in Nat /\ Retention \in Nat
    BY CutoffProperties, StoreFacts DEF StoreTypes, Store!TypeOK
<1>2. rows \in [Paths -> SUBSET Store!Row]
    BY DEF StoreTypes, Store!TypeOK
<1>3. \A r \in Store!Row : r.timestamp \in Nat
    BY StoreFacts DEF Store!Row
<1>4. rows' = [rows EXCEPT ![db_.path] = {r \in @ : ~(r.timestamp < now - Retention)}]
    BY <1>1 DEF Store!CleanUp
<1> QED
    BY <1>1, <1>2, <1>3, <1>4

\* The other steps leave the tables alone.
LEMMA TablesStay ==
    ASSUME StoreTypes, [Store!Next]_storeVars, ~Store!SaveSnapshot, ~Store!CleanUp
    PROVE  UNCHANGED <<rows, last_id, saved>>
<1> USE DEF Store!database, Store!history
<1>1. CASE Store!Next
    BY <1>1, Zenon DEF Store!Next, Store!ChangeBook, Store!ReadBids, Store!SkipSymbol, Store!Tick,
        Store!SetClock, Store!Initialize, Store!Kill, Store!StartRound, Store!ReadAsks,
        Store!SaveFails, Store!Report, Store!CleanUpFails
<1>2. CASE UNCHANGED storeVars
    BY <1>2 DEF storeVars
<1> QED
    BY <1>1, <1>2

\* The highest value of the clock does not sink.
LEMMA LatestGrows ==
    ASSUME StoreTypes, [Store!Next]_storeVars
    PROVE  latest' >= latest
<1>1. now \in Nat /\ latest \in Nat
    BY StoreFacts DEF StoreTypes, Store!TypeOK
<1>2. CASE Store!Tick
    BY <1>1, <1>2 DEF Store!Tick
<1>3. ASSUME NEW t \in Times, Store!SetClock(t) PROVE latest' >= latest
    <2>1. t \in Nat
        BY StoreFacts
    <2> QED
        BY <1>1, <1>3, <2>1 DEF Store!SetClock
<1>4. CASE latest' = latest
    BY <1>1, <1>4
<1>5. \/ latest' = latest \/ Store!Tick \/ \E t \in Times : Store!SetClock(t)
    <2>1. CASE Store!Next
        BY <2>1, Zenon DEF Store!Next, Store!ChangeBook, Store!ReadBids, Store!SkipSymbol,
            Store!Initialize, Store!Kill, Store!StartRound, Store!ReadAsks, Store!SaveSnapshot,
            Store!SaveFails, Store!Report, Store!CleanUp, Store!CleanUpFails, Store!history
    <2>2. CASE UNCHANGED storeVars
        BY <2>2 DEF storeVars
    <2> QED
        BY <2>1, <2>2
<1> QED
    BY <1>2, <1>3, <1>4, <1>5

\* No step loses a row before its time.
LEMMA NextKept ==
    ASSUME StoreTypes, KeptForRetention, [Store!Next]_storeVars
    PROVE  KeptForRetention'
<1> USE DEF KeptForRetention, Store!KeptForRetention
<1>1. /\ latest' \in Nat /\ latest \in Nat /\ now \in Nat /\ Retention \in Nat
      /\ latest' >= latest /\ now <= latest
    BY NextStoreTypes, LatestGrows, StoreFacts DEF StoreTypes, Store!TypeOK
<1>2. /\ rows \in [Paths -> SUBSET Store!Row] /\ saved \in [Paths -> SUBSET Store!Row]
      /\ saved' \in [Paths -> SUBSET Store!Row]
    BY NextStoreTypes DEF StoreTypes, Store!TypeOK
<1>3. \A r \in Store!Row : r.timestamp \in Nat
    BY StoreFacts DEF Store!Row
<1>4. CASE Store!SaveSnapshot
    <2>1. PICK path \in Paths, row \in Store!Row : Stored(path, row)
        BY <1>4, SaveStores
    <2> QED
        BY <1>1, <1>2, <1>3, <2>1 DEF Stored
<1>5. CASE Store!CleanUp
    <2>1. saved' = saved /\ latest' = latest
        BY <1>5 DEF Store!CleanUp, Store!history
    <2>2. ASSUME NEW p \in Paths, NEW r \in saved[p], r.timestamp >= latest - Retention
          PROVE  r \in rows'[p]
        <3>1. r \in rows[p] /\ r.timestamp \in Nat
            BY <1>2, <1>3, <2>2
        <3>2. r.timestamp >= now - Retention
            BY <1>1, <2>2, <3>1
        <3> QED
            BY <1>5, <3>1, <3>2, CleanUpRemoves
    <2> QED
        BY <2>1, <2>2
<1>6. CASE ~Store!SaveSnapshot /\ ~Store!CleanUp
    <2>1. rows' = rows /\ saved' = saved
        BY <1>6, TablesStay
    <2> QED
        BY <1>1, <1>2, <1>3, <2>1
<1> QED
    BY <1>4, <1>5, <1>6

-------------------------------------------------------------------------------
(* The halves of the snapshots and their order *)

\* No step gives a newer row an older version of a book.
LEMMA NextOrder ==
    ASSUME StoreTypes, OrderInv, [Store!Next]_storeVars
    PROVE  OrderInv'
<1> USE DEF OrderInv, SnapshotsInOrder, Store!SnapshotsInOrder, Reading, Store!database,
        Store!scheduler, Store!history
<1>1. /\ rows \in [Paths -> SUBSET Store!Row] /\ last_id \in [Paths -> Nat]
      /\ books \in [Symbols -> Nat]
      /\ Reading => bids \in Nat /\ symbol \in Symbols
      /\ at = "save" => asks \in Nat
    BY DEF StoreTypes, Store!TypeOK
<1>2. \A r \in Store!Row : r.id \in Nat /\ r.read_bids \in Nat /\ r.read_asks \in Nat /\ r.symbol \in Symbols
    BY DEF Store!Row
<1>3. ASSUME NEW s \in Symbols, Store!ChangeBook(s) PROVE OrderInv'
    BY <1>1, <1>2, <1>3 DEF Store!ChangeBook
<1>4. ASSUME NEW s \in Symbols, Store!ReadBids(s) PROVE OrderInv'
    BY <1>1, <1>2, <1>4 DEF Store!ReadBids
<1>5. CASE Store!ReadAsks
    BY <1>1, <1>2, <1>5 DEF Store!ReadAsks
<1>6. CASE Store!Kill
    BY <1>1, <1>2, <1>6 DEF Store!Kill
<1>7. CASE Store!SaveSnapshot
    <2>1. PICK path \in Paths, row \in Store!Row : Stored(path, row)
        BY <1>7, SaveStores
    <2>2. SnapshotsInOrder'
        BY <1>1, <1>2, <2>1 DEF Stored
    <2> QED
        BY <1>1, <1>2, <2>1, <2>2 DEF Stored
<1>8. CASE Store!CleanUp
    <2>1. /\ \A p \in Paths : rows'[p] \subseteq rows[p]
          /\ at = "cleanup" /\ at' = "sleep" /\ UNCHANGED <<last_id, books>>
        BY <1>8, CleanUpRemoves DEF Store!CleanUp
    <2> QED
        BY <1>1, <1>2, <2>1
<1>9. CASE \/ \E s \in Symbols : Store!SkipSymbol(s)
           \/ Store!Tick
           \/ \E t \in Times : Store!SetClock(t)
           \/ \E path \in Paths, symbols \in SUBSET Symbols, seconds \in Intervals, enabled \in BOOLEAN :
                Store!Initialize(path, symbols, seconds, enabled)
           \/ \E symbols \in SUBSET Symbols : Store!StartRound(symbols)
           \/ Store!SaveFails \/ Store!Report \/ Store!CleanUpFails
           \/ UNCHANGED storeVars
    <2>1. /\ UNCHANGED <<rows, last_id, books>>
          /\ (UNCHANGED <<at, symbol, bids, asks>> \/ at' \notin {"asks", "save"})
        BY <1>9, Zenon DEF Store!SkipSymbol, Store!Tick, Store!SetClock, Store!Initialize, Store!StartRound,
            Store!SaveFails, Store!NextSymbol, Store!Report, Store!CleanUpFails, storeVars
    <2> QED
        BY <2>1
<1> QED
    BY <1>3, <1>4, <1>5, <1>6, <1>7, <1>8, <1>9 DEF Store!Next

-------------------------------------------------------------------------------
(* The timestamps of the snapshots *)

\* No step puts the timestamps of an orderly clock out of the order of the ids.
LEMMA NextStamps ==
    ASSUME StoreTypes, StampInv, OrderInv, [Store!Next]_storeVars
    PROVE  StampInv'
<1> USE DEF StampInv, Ahead, Reading, Store!database, Store!scheduler, Store!history
<1>1. /\ rows \in [Paths -> SUBSET Store!Row] /\ last_id \in [Paths -> Nat]
      /\ now \in Nat /\ slept \in Nat /\ interval \in Nat /\ slept <= interval
      /\ orderly \in BOOLEAN
    BY StoreFacts DEF StoreTypes, Store!TypeOK
<1>2. \A r \in Store!Row : r.id \in Nat /\ r.timestamp \in Nat
    BY StoreFacts DEF Store!Row
<1>3. \A p \in Paths : \A r \in rows[p] : r.id <= last_id[p]
    BY DEF OrderInv
<1>4. CASE Store!Tick
    BY <1>1, <1>2, <1>4 DEF Store!Tick
<1>5. ASSUME NEW t \in Times, Store!SetClock(t) PROVE StampInv'
    <2>1. t \in Nat
        BY StoreFacts
    <2>2. /\ now' = t /\ (orderly' => orderly /\ t >= now)
          /\ UNCHANGED <<rows, at, interval, slept, left, symbol>>
        BY <1>5 DEF Store!SetClock
    <2>3. ASSUME orderly', NEW p \in Paths, NEW r \in rows[p]
          PROVE  /\ r.timestamp <= t
                 /\ at = "sleep" => r.timestamp + slept <= t
                 /\ Ahead(r.symbol) => r.timestamp < t
        <3>1. r.timestamp \in Nat /\ t >= now /\ orderly
            BY <1>1, <1>2, <2>2, <2>3
        <3>2. /\ r.timestamp <= now
              /\ at = "sleep" => r.timestamp + slept <= now
              /\ Ahead(r.symbol) => r.timestamp < now
            BY <3>1
        <3> HIDE DEF Ahead
        <3> QED
            BY <1>1, <2>1, <3>1, <3>2
    <2> QED
        BY <2>2, <2>3
<1>6. ASSUME NEW path \in Paths, NEW symbols \in SUBSET Symbols, NEW seconds \in Intervals,
             NEW enabled \in BOOLEAN, Store!Initialize(path, symbols, seconds, enabled)
      PROVE  StampInv'
    <2>1. at = "off" /\ slept = 0
        BY <1>6 DEF Store!Initialize, StoreTypes, Store!TypeOK
    <2>2. /\ at' \in {"sleep", "off"} /\ UNCHANGED <<rows, now, slept, left, symbol>>
          /\ orderly' => orderly /\ interval' > 0
        BY <1>6 DEF Store!Initialize
    <2> QED
        BY <1>1, <1>2, <2>1, <2>2
<1>7. CASE Store!Kill
    BY <1>1, <1>2, <1>7 DEF Store!Kill
<1>8. ASSUME NEW symbols \in SUBSET Symbols, Store!StartRound(symbols) PROVE StampInv'
    BY <1>1, <1>2, <1>8 DEF Store!StartRound
<1>9. ASSUME NEW s \in Symbols, Store!ReadBids(s) PROVE StampInv'
    BY <1>1, <1>2, <1>9 DEF Store!ReadBids
<1>10. ASSUME NEW s \in Symbols, Store!SkipSymbol(s) PROVE StampInv'
    BY <1>1, <1>2, <1>10 DEF Store!SkipSymbol
<1>11. CASE Store!ReadAsks
    BY <1>1, <1>2, <1>11 DEF Store!ReadAsks
<1>12. CASE Store!SaveSnapshot
    <2>1. PICK path \in Paths, row \in Store!Row : Stored(path, row)
        BY <1>12, SaveStores
    <2>2. symbol \notin left /\ UNCHANGED <<now, interval, slept, left, orderly>>
        BY <2>1 DEF Stored
    <2>3. ASSUME orderly, NEW p \in Paths, NEW r \in rows'[p]
          PROVE  /\ r.timestamp <= now /\ (r.symbol \in left => r.timestamp < now)
                 /\ \A q \in rows'[p] :
                        (q.symbol = r.symbol /\ q.id < r.id) => q.timestamp < r.timestamp
        <3>1. /\ rows'[p] = IF p = path THEN rows[p] \cup {row} ELSE rows[p]
              /\ row.id = last_id[path] + 1 /\ row.timestamp = now /\ row.symbol = symbol
            BY <1>1, <2>1 DEF Stored
        <3>2. CASE r \in rows[p]
            BY <1>1, <1>2, <1>3, <2>1, <2>3, <3>1, <3>2 DEF Stored
        <3>3. CASE r \notin rows[p]
            <4>1. r = row /\ p = path
                BY <3>1, <3>3
            <4>2. ASSUME NEW q \in rows[p], q.symbol = symbol PROVE q.timestamp < now
                BY <2>1, <2>3, <4>2 DEF Stored
            <4> QED
                BY <1>1, <2>2, <3>1, <4>1, <4>2
        <3> QED
            BY <3>2, <3>3
    <2>4. at = "save" /\ at' = "bids"
        BY <2>1 DEF Stored
    <2> QED
        BY <2>2, <2>3, <2>4
<1>13. CASE Store!CleanUp
    <2>1. /\ \A p \in Paths : rows'[p] \subseteq rows[p]
          /\ at = "cleanup" /\ at' = "sleep" /\ slept' = 0
          /\ UNCHANGED <<now, interval, left, orderly>>
        BY <1>13, CleanUpRemoves DEF Store!CleanUp
    <2> QED
        BY <1>1, <1>2, <2>1
<1>14. CASE Store!SaveFails
    BY <1>1, <1>2, <1>14 DEF Store!SaveFails, Store!NextSymbol
<1>15. CASE Store!Report
    BY <1>1, <1>2, <1>15 DEF Store!Report
<1>16. CASE Store!CleanUpFails
    BY <1>1, <1>2, <1>16 DEF Store!CleanUpFails
<1>17. ASSUME NEW s \in Symbols, Store!ChangeBook(s) PROVE StampInv'
    BY <1>1, <1>2, <1>17 DEF Store!ChangeBook
<1>18. CASE UNCHANGED storeVars
    BY <1>1, <1>2, <1>18 DEF storeVars
<1> QED
    BY <1>4, <1>5, <1>6, <1>7, <1>8, <1>9, <1>10, <1>11, <1>12, <1>13, <1>14, <1>15, <1>16, <1>17,
        <1>18 DEF Store!Next

\* The invariant of the snapshots holds at the start.
LEMMA InitStoreInv == Init => StoreInv
<1> SUFFICES ASSUME Init PROVE StoreInv
    OBVIOUS
<1>1. Store!Init
    BY DEF Init
<1>2. KeptForRetention /\ OrderInv /\ StampInv
    BY <1>1 DEF Store!Init, KeptForRetention, Store!KeptForRetention, OrderInv, SnapshotsInOrder,
        Store!SnapshotsInOrder, StampInv, Reading, Ahead
<1> QED
    BY <1>2, InitStoreTypes DEF StoreInv

\* And every step keeps it.
LEMMA NextStoreInv == StoreInv /\ [Store!Next]_storeVars => StoreInv'
BY NextStoreTypes, NextKept, NextOrder, NextStamps DEF StoreInv

-------------------------------------------------------------------------------
(* The symbols of a document *)

\* Of two entries of a name the later one counts, and there is a last one.
LEMMA LastOfProperties ==
    ASSUME NEW entries, NEW k \in Nat, NEW s, NEW n \in 1 .. k, entries[n]["symbol"] = s
    PROVE  /\ LastOf(entries, k, s) \in 1 .. k
           /\ entries[LastOf(entries, k, s)]["symbol"] = s
           /\ \A j \in 1 .. k : entries[j]["symbol"] = s => j <= LastOf(entries, k, s)
<1> DEFINE hits == {i \in 1 .. k : entries[i]["symbol"] = s}
           gaps == {k - i : i \in hits}
<1>1. gaps \subseteq Nat /\ gaps # {}
    OBVIOUS
<1>2. PICK g \in gaps : \A h \in gaps : g <= h
    BY <1>1, MinProperties
<1>3. PICK i \in hits : g = k - i
    BY <1>2
<1>4. \A j \in hits : j <= i
    <2>1. ASSUME NEW j \in hits PROVE j <= i
        <3>1. k - j \in gaps
            OBVIOUS
        <3>2. k - i <= k - j
            BY <1>2, <1>3, <3>1
        <3> QED
            BY <3>2
    <2> QED
        BY <2>1
<1>5. /\ i \in 1 .. k /\ entries[i]["symbol"] = s
      /\ \A j \in 1 .. k : entries[j]["symbol"] = s => j <= i
    BY <1>4
<1> QED
    BY <1>5 DEF LastOf

\* There is only one last entry of a name.
LEMMA LastIsUnique ==
    ASSUME NEW entries, NEW k \in Nat, NEW s, NEW i \in 1 .. k, entries[i]["symbol"] = s,
           \A j \in 1 .. k : entries[j]["symbol"] = s => j <= i
    PROVE  LastOf(entries, k, s) = i
<1>1. /\ LastOf(entries, k, s) \in 1 .. k
      /\ entries[LastOf(entries, k, s)]["symbol"] = s
      /\ \A j \in 1 .. k : entries[j]["symbol"] = s => j <= LastOf(entries, k, s)
    BY LastOfProperties
<1> QED
    BY <1>1

\* What a document says of its symbols is what all of its entries say.
LEMMA SettingsInProperties ==
    ASSUME NEW document, NEW k \in Nat, DOMAIN document.symbols = 1 .. k
    PROVE  Config!SettingsIn(document) =
            [engine |-> Config!FromJson(Defaults, document.engine),
             symbols |-> FirstSettings(Config!Entries(document), k)]
<1> DEFINE entries == Config!Entries(document)
           names == {entries[i]["symbol"] : i \in 1 .. k}
           LastNamed(s) == CHOOSE i \in Config!Named(entries, s) : \A j \in Config!Named(entries, s) : j <= i
<1>1. DOMAIN entries = 1 .. k
    BY DEF Config!Entries
<1> HIDE DEF entries
<1>2. ASSUME NEW s \in names PROVE LastNamed(s) = LastOf(entries, k, s)
    <2> DEFINE last == LastOf(entries, k, s)
    <2>1. /\ last \in 1 .. k /\ entries[last]["symbol"] = s
          /\ \A j \in 1 .. k : entries[j]["symbol"] = s => j <= last
        BY LastOfProperties
    <2> HIDE DEF last
    <2>2. last \in Config!Named(entries, s) /\ \A j \in Config!Named(entries, s) : j <= last
        BY <1>1, <2>1 DEF Config!Named
    <2>3. LastNamed(s) \in Config!Named(entries, s) /\ \A j \in Config!Named(entries, s) : j <= LastNamed(s)
        BY <2>2
    <2>4. Config!Named(entries, s) \subseteq Nat
        BY <1>1 DEF Config!Named
    <2>5. last <= LastNamed(s) /\ LastNamed(s) <= last /\ last \in Nat /\ LastNamed(s) \in Nat
        <3> HIDE DEF LastNamed
        <3> QED
            BY <2>2, <2>3, <2>4
    <2>6. LastNamed(s) = last
        <3> HIDE DEF LastNamed
        <3> QED
            BY <2>5
    <2> QED
        BY <2>6 DEF last
<1>3. [s \in names |-> entries[LastNamed(s)]] = FirstSettings(entries, k)
    <2> HIDE DEF LastNamed
    <2> QED
        BY <1>2 DEF FirstSettings
<1>4. {entries[i]["symbol"] : i \in DOMAIN entries} = names
    BY <1>1
<1>5. Config!SettingsIn(document) =
        [engine |-> Config!FromJson(Defaults, document.engine),
         symbols |-> [s \in {entries[i]["symbol"] : i \in DOMAIN entries} |-> entries[LastNamed(s)]]]
    BY DEF Config!SettingsIn, entries
<1> QED
    BY <1>3, <1>4, <1>5 DEF entries

\* One more entry.
LEMMA OneMoreEntry ==
    ASSUME NEW entries, NEW k \in Nat
    PROVE  FirstSettings(entries, k + 1) = Config!WithEntry(FirstSettings(entries, k), entries[k + 1])
<1> DEFINE entry == entries[k + 1]
           before == FirstSettings(entries, k)
           after == FirstSettings(entries, k + 1)
           with == Config!WithEntry(before, entry)
<1>1. DOMAIN before = {entries[i]["symbol"] : i \in 1 .. k}
    BY DEF FirstSettings
<1>2. DOMAIN after = {entries[i]["symbol"] : i \in 1 .. k + 1}
    BY DEF FirstSettings
<1>3. DOMAIN after = DOMAIN before \cup {entry["symbol"]}
    <2>1. 1 .. k + 1 = (1 .. k) \cup {k + 1}
        OBVIOUS
    <2> HIDE DEF before, after
    <2> QED
        BY <1>1, <1>2, <2>1
<1>4. ASSUME NEW s \in DOMAIN after
      PROVE  after[s] = IF s = entry["symbol"] THEN entry ELSE before[s]
    <2>1. after[s] = entries[LastOf(entries, k + 1, s)]
        BY <1>2 DEF FirstSettings
    <2>2. CASE s = entry["symbol"]
        <3>1. k + 1 \in Nat /\ k + 1 \in 1 .. k + 1 /\ \A j \in 1 .. k + 1 : j <= k + 1
            OBVIOUS
        <3>2. LastOf(entries, k + 1, s) = k + 1
            BY <2>2, <3>1, LastIsUnique
        <3> QED
            BY <2>1, <2>2, <3>2
    <2>3. CASE s # entry["symbol"]
        <3> DEFINE last == LastOf(entries, k, s)
        <3>1. s \in DOMAIN before /\ before[s] = entries[last]
            BY <1>3, <2>3 DEF FirstSettings
        <3>2. PICK n \in 1 .. k : entries[n]["symbol"] = s
            BY <1>1, <3>1
        <3>3. /\ last \in 1 .. k /\ entries[last]["symbol"] = s
              /\ \A j \in 1 .. k : entries[j]["symbol"] = s => j <= last
            BY <3>2, LastOfProperties
        <3> HIDE DEF last
        <3>4. \A j \in 1 .. k + 1 : entries[j]["symbol"] = s => j <= last
            BY <2>3, <3>3
        <3>5. last \in 1 .. k + 1 /\ k + 1 \in Nat
            BY <3>3
        <3>6. LastOf(entries, k + 1, s) = last
            BY <3>3, <3>4, <3>5, LastIsUnique
        <3> QED
            BY <2>1, <2>3, <3>1, <3>6
    <2> QED
        BY <2>2, <2>3
<1>5. after = [s \in DOMAIN after |-> after[s]]
    BY DEF FirstSettings
<1>6. with = [s \in DOMAIN before \cup {entry["symbol"]} |->
                IF s = entry["symbol"] THEN entry ELSE before[s]]
    BY DEF Config!WithEntry
<1> HIDE DEF after, before, entry
<1>7. after = [s \in DOMAIN before \cup {entry["symbol"]} |->
                IF s = entry["symbol"] THEN entry ELSE before[s]]
    BY <1>3, <1>4, <1>5
<1>8. after = with
    BY <1>6, <1>7
<1> QED
    BY <1>8 DEF after, before, entry

-------------------------------------------------------------------------------
(* Settings, saved and loaded *)

\* from_json that does not throw gives complete settings.
LEMMA FromJsonProperties ==
    ASSUME NEW defaults, NEW j, Config!WellFormed(defaults, defaults), ~Config!Throws(defaults, j)
    PROVE  /\ Complete(Config!FromJson(defaults, j))
           /\ Config!WellFormed(Config!FromJson(defaults, j), defaults)
BY DEF Config!FromJson, Config!WellFormed, Config!Throws, Complete

\* A complete configuration is read as it was written.
LEMMA CompleteProperties ==
    ASSUME NEW defaults, NEW c, Complete(c), Config!WellFormed(c, defaults), c # NoObject
    PROVE  ~Config!Throws(defaults, c) /\ Config!FromJson(defaults, c) = c
BY DEF Config!FromJson, Config!WellFormed, Config!Throws, Complete

\* Engine settings that were read or set can be written and read again.
LEMMA EngineConfigProperties ==
    ASSUME NEW c \in EngineConfigs
    PROVE  /\ Complete(c) /\ Config!WellFormed(c, Defaults)
           /\ ~Config!Throws(Defaults, c) /\ Config!FromJson(Defaults, c) = c
<1>1. Complete(c) /\ Config!WellFormed(c, Defaults) /\ c # NoObject
    BY ConfigAssumption DEF Config!SettingsAssumption, Complete
<1> QED
    BY <1>1, CompleteProperties

\* And so can the settings of a symbol.
LEMMA KnownProperties ==
    ASSUME NEW c \in Config!KnownSymbolConfigs
    PROVE  /\ Complete(c) /\ Config!WellFormed(c, SymbolDefaults)
           /\ ~Config!Throws(SymbolDefaults, c) /\ Config!FromJson(SymbolDefaults, c) = c
<1>1. c # NoObject
    BY ConfigAssumption DEF Config!SettingsAssumption
<1>2. Complete(c) /\ Config!WellFormed(c, SymbolDefaults)
    <2>1. CASE c \in SymbolConfigs \cup {DefaultSymbols[s] : s \in DOMAIN DefaultSymbols}
        BY <2>1, ConfigAssumption DEF Config!SettingsAssumption, Complete
    <2>2. ASSUME NEW d \in Documents, NEW i \in DOMAIN d.symbols,
                 ~Config!Throws(SymbolDefaults, d.symbols[i]),
                 c = Config!FromJson(SymbolDefaults, d.symbols[i])
          PROVE  Complete(c) /\ Config!WellFormed(c, SymbolDefaults)
        <3>1. Config!WellFormed(SymbolDefaults, SymbolDefaults)
            BY ConfigAssumption DEF Config!SettingsAssumption
        <3> QED
            BY <2>2, <3>1, FromJsonProperties
    <2> QED
        BY <2>1, <2>2 DEF Config!KnownSymbolConfigs
<1> QED
    BY <1>1, <1>2, CompleteProperties

\* A document that was saved can be read.
LEMMA DocumentsAreReadable ==
    ASSUME NEW d \in Documents
    PROVE  Readable(d) /\ d # None
<1>1. /\ d = [engine |-> d.engine, symbols |-> d.symbols]
      /\ d.symbols \in Seq({d.symbols[i] : i \in DOMAIN d.symbols})
      /\ ~Config!Throws(Defaults, d.engine) => Config!FromJson(Defaults, d.engine) \in EngineConfigs
      /\ d # None
    BY ConfigAssumption DEF Config!SettingsAssumption
<1>2. ASSUME NEW i \in DOMAIN d.symbols, ~Config!Throws(SymbolDefaults, d.symbols[i])
      PROVE  Config!FromJson(SymbolDefaults, d.symbols[i]) \in Config!KnownSymbolConfigs
    BY <1>2 DEF Config!KnownSymbolConfigs
<1> QED
    BY <1>1, <1>2 DEF Readable

\* The instance has finite sets of its own.
LEMMA SameCardinality ==
    ASSUME NEW S
    PROVE  Config!Cardinality(S) = Cardinality(S) /\ Config!IsFiniteSet(S) = IsFiniteSet(S)
<1>1. Config!Cardinality(S) = Cardinality(S)
    BY Zenon DEF Config!Cardinality, Cardinality
<1>2. Config!IsFiniteSet(S) = IsFiniteSet(S)
    BY DEF Config!IsFiniteSet, IsFiniteSet
<1> QED
    BY <1>1, <1>2

\* A finite set can be listed.
LEMMA InSomeOrderProperties ==
    ASSUME NEW S, IsFiniteSet(S)
    PROVE  /\ Cardinality(S) \in Nat
           /\ Config!InSomeOrder(S) \in [1 .. Cardinality(S) -> S]
           /\ \A e \in S : \E i \in 1 .. Cardinality(S) : Config!InSomeOrder(S)[i] = e
<1>1. Cardinality(S) \in Nat /\ ExistsBijection(1 .. Cardinality(S), S)
    BY FS_CardinalityType
<1>2. PICK f \in Bijection(1 .. Cardinality(S), S) : TRUE
    BY <1>1 DEF ExistsBijection
<1>3. /\ f \in [1 .. Cardinality(S) -> S]
      /\ \A e \in S : \E i \in DOMAIN f : f[i] = e
    BY <1>2 DEF Bijection, Surjection, Injection
<1>4. \E list \in [1 .. Cardinality(S) -> S] : \A e \in S : \E i \in DOMAIN list : list[i] = e
    BY <1>3
<1>5. /\ Config!InSomeOrder(S) \in [1 .. Cardinality(S) -> S]
      /\ \A e \in S : \E i \in DOMAIN Config!InSomeOrder(S) : Config!InSomeOrder(S)[i] = e
    <2>1. Config!Cardinality(S) = Cardinality(S)
        BY SameCardinality
    <2>2. Config!InSomeOrder(S) =
            CHOOSE list \in [1 .. Cardinality(S) -> S] : \A e \in S : \E i \in DOMAIN list : list[i] = e
        BY <2>1, Zenon DEF Config!InSomeOrder
    <2> HIDE DEF Config!InSomeOrder
    <2> QED
        BY <1>4, <2>2, Zenon
<1> QED
    BY <1>1, <1>5

\* What is saved is read again as it was.
LEMMA SavedDocument ==
    ASSUME NEW engine \in EngineConfigs, NEW symbols, Filed(symbols)
    PROVE  LET d == Config!ToJson(engine, symbols) IN
           /\ d \notin {Missing, Torn, None} /\ Readable(d) /\ ~Config!Faulty(d)
           /\ Config!SettingsIn(d) = [engine |-> engine, symbols |-> symbols]
<1> DEFINE E == {symbols[s] : s \in DOMAIN symbols}
           list == Config!InSomeOrder(E)
           d == Config!ToJson(engine, symbols)
           n == Cardinality(E)
<1>1. /\ symbols = [s \in DOMAIN symbols |-> symbols[s]] /\ IsFiniteSet(DOMAIN symbols)
      /\ E \subseteq Config!KnownSymbolConfigs
      /\ \A s \in DOMAIN symbols : symbols[s]["symbol"] = s
    BY DEF Filed
<1>2. IsFiniteSet(E)
    <2>1. symbols \in Surjection(DOMAIN symbols, E)
        BY <1>1 DEF Surjection
    <2> QED
        BY <1>1, <2>1, FS_Surjection
<1> HIDE DEF E
<1>3. n \in Nat /\ list \in [1 .. n -> E] /\ \A e \in E : \E i \in 1 .. n : list[i] = e
    BY <1>2, InSomeOrderProperties
<1>4. d = [engine |-> engine, symbols |-> list]
    BY DEF Config!ToJson, E
<1> HIDE DEF list, d, n
<1>5. d.engine = engine /\ d.symbols = list
    BY <1>4
<1>6. DOMAIN list = 1 .. n /\ \A i \in 1 .. n : list[i] \in E /\ list[i] \in Config!KnownSymbolConfigs
    BY <1>1, <1>3
<1>7. list \in Seq(Config!KnownSymbolConfigs)
    BY <1>3, <1>6, SeqDef
<1>8. d \notin {Missing, Torn, None}
    <2>1. d \in [engine : EngineConfigs, symbols : Seq(Config!KnownSymbolConfigs)]
        BY <1>4, <1>7
    <2> QED
        BY <2>1, ConfigAssumption DEF Config!SettingsAssumption
<1>9. \A i \in 1 .. n : /\ ~Config!Throws(SymbolDefaults, list[i])
                        /\ Config!FromJson(SymbolDefaults, list[i]) = list[i]
    BY <1>6, KnownProperties
<1>10. ~Config!Throws(Defaults, engine) /\ Config!FromJson(Defaults, engine) = engine
    BY EngineConfigProperties
<1>11. Readable(d)
    <2>1. list \in Seq({list[i] : i \in DOMAIN list})
        BY <1>3, <1>6, SeqDef
    <2>2. d = [engine |-> d.engine, symbols |-> d.symbols]
        BY <1>4
    <2> QED
        BY <1>5, <1>6, <1>9, <1>10, <2>1, <2>2 DEF Readable
<1>12. ~Config!Faulty(d)
    BY <1>5, <1>6, <1>9, <1>10 DEF Config!Faulty
<1>13. FirstSettings(Config!Entries(d), n) = symbols
    <2> DEFINE entries == Config!Entries(d)
    <2>1. DOMAIN entries = 1 .. n /\ \A i \in 1 .. n : entries[i] = list[i]
        BY <1>5, <1>6, <1>9 DEF Config!Entries
    <2> HIDE DEF entries
    <2>2. \A i \in 1 .. n : entries[i]["symbol"] \in DOMAIN symbols /\ entries[i] = symbols[entries[i]["symbol"]]
        BY <1>1, <1>6, <2>1 DEF E
    <2>3. \A s \in DOMAIN symbols : \E i \in 1 .. n : entries[i]["symbol"] = s
        BY <1>1, <1>3, <2>1 DEF E
    <2>4. {entries[i]["symbol"] : i \in 1 .. n} = DOMAIN symbols
        BY <2>2, <2>3
    <2>5. ASSUME NEW s \in DOMAIN symbols PROVE entries[LastOf(entries, n, s)] = symbols[s]
        <3>1. PICK i \in 1 .. n : entries[i]["symbol"] = s
            BY <2>3
        <3>2. LastOf(entries, n, s) \in 1 .. n /\ entries[LastOf(entries, n, s)]["symbol"] = s
            BY <1>3, <3>1, LastOfProperties
        <3> QED
            BY <2>2, <3>2
    <2>6. FirstSettings(entries, n) = [s \in DOMAIN symbols |-> symbols[s]]
        BY <2>4, <2>5 DEF FirstSettings
    <2> QED
        BY <1>1, <2>6 DEF entries
<1>14. Config!SettingsIn(d) = [engine |-> engine, symbols |-> symbols]
    <2>1. DOMAIN d.symbols = 1 .. n
        BY <1>5, <1>6
    <2> QED
        BY <1>3, <1>5, <1>10, <1>13, <2>1, SettingsInProperties
<1> QED
    BY <1>8, <1>11, <1>12, <1>14 DEF d

\* What symbol_configs may hold: nothing, the defaults, and any entry more.
LEMMA FiledSymbols ==
    /\ Filed(Config!NoSymbols)
    /\ Filed(DefaultSymbols)
    /\ \A symbols : \A entry \in Config!KnownSymbolConfigs :
        Filed(symbols) => Filed(Config!WithEntry(symbols, entry))
<1>1. Filed(Config!NoSymbols)
    BY FS_EmptySet DEF Filed, Config!NoSymbols
<1>2. Filed(DefaultSymbols)
    <2>1. /\ DefaultSymbols = [s \in DOMAIN DefaultSymbols |-> DefaultSymbols[s]]
          /\ Config!IsFiniteSet(DOMAIN DefaultSymbols)
          /\ \A s \in DOMAIN DefaultSymbols : DefaultSymbols[s]["symbol"] = s
        BY ConfigAssumption DEF Config!SettingsAssumption
    <2>2. IsFiniteSet(DOMAIN DefaultSymbols)
        BY <2>1, SameCardinality
    <2>3. \A s \in DOMAIN DefaultSymbols : DefaultSymbols[s] \in Config!KnownSymbolConfigs
        BY DEF Config!KnownSymbolConfigs
    <2> QED
        BY <2>1, <2>2, <2>3 DEF Filed
<1>3. ASSUME NEW symbols, NEW entry \in Config!KnownSymbolConfigs, Filed(symbols)
      PROVE  Filed(Config!WithEntry(symbols, entry))
    <2> DEFINE with == Config!WithEntry(symbols, entry)
    <2>1. /\ DOMAIN with = DOMAIN symbols \cup {entry["symbol"]}
          /\ \A s \in DOMAIN with : with[s] = IF s = entry["symbol"] THEN entry ELSE symbols[s]
          /\ with = [s \in DOMAIN with |-> with[s]]
        BY DEF Config!WithEntry
    <2> HIDE DEF with
    <2>2. IsFiniteSet(DOMAIN with)
        BY <1>3, <2>1, FS_AddElement DEF Filed
    <2>3. \A s \in DOMAIN symbols : symbols[s] \in Config!KnownSymbolConfigs /\ symbols[s]["symbol"] = s
        BY <1>3 DEF Filed
    <2>4. Filed(with)
        BY <2>1, <2>2, <2>3 DEF Filed
    <2> QED
        BY <2>4 DEF with
<1> QED
    BY <1>1, <1>2, <1>3

\* The defaults are settings.
LEMMA DefaultsAreKnown == Defaults \in EngineConfigs
BY ConfigAssumption DEF Config!SettingsAssumption

\* What a step of load_config finds in hand.
LEMMA InHand ==
    ASSUME SettingsInv, LoadInv
    PROVE  /\ stage = "engine" => config_json = source /\ Readable(source)
           /\ stage = "symbols" =>
                /\ Readable(source) /\ Len(source.symbols) \in Nat
                /\ DOMAIN source.symbols = 1 .. Len(source.symbols)
                /\ Len(config_json.symbols) \in Nat
                /\ config_json.symbols # <<>> =>
                    /\ Len(config_json.symbols) > 0
                    /\ Head(config_json.symbols) = config_json.symbols[1]
                    /\ \E i \in DOMAIN source.symbols : config_json.symbols[1] = source.symbols[i]
<1>1. CASE stage = "engine"
    BY <1>1 DEF SettingsInv, LoadInv
<1>2. CASE stage = "symbols"
    <2> DEFINE S == {source.symbols[i] : i \in DOMAIN source.symbols}
               rest == config_json.symbols
               all == source.symbols
    <2>1. Readable(source) /\ rest \in Seq(S)
        BY <1>2 DEF SettingsInv, LoadInv
    <2>2. all \in Seq(S)
        BY <2>1 DEF Readable
    <2>3. \A e \in S : \E i \in DOMAIN all : e = all[i]
        OBVIOUS
    <2> HIDE DEF S, rest, all
    <2>4. Len(all) \in Nat /\ DOMAIN all = 1 .. Len(all) /\ Len(rest) \in Nat
        BY <2>1, <2>2, LenProperties
    <2>5. ASSUME rest # <<>>
          PROVE  Len(rest) > 0 /\ Head(rest) = rest[1] /\ rest[1] \in S
        BY <2>1, <2>5, EmptySeq, ElementOfSeq, LenProperties
    <2> QED
        BY <1>2, <2>1, <2>3, <2>4, <2>5 DEF rest, all
<1> QED
    BY <1>1, <1>2

\* Every step of the settings keeps them well-formed.
LEMMA NextSettingsInv ==
    ASSUME SettingsInv, LoadInv, [Config!Next]_configVars
    PROVE  SettingsInv'
<1> USE DEF SettingsInv, Config!Stages
<1>1. ASSUME NEW content \in Documents \cup {Missing, Torn}, Config!EditFile(content) PROVE SettingsInv'
    BY <1>1, DocumentsAreReadable DEF Config!EditFile
<1>2. CASE Config!LoadMissing
    BY <1>2, FiledSymbols, DefaultsAreKnown DEF Config!LoadMissing, Config!ResetToDefaults
<1>3. CASE Config!LoadTorn
    BY <1>3, FiledSymbols, DefaultsAreKnown DEF Config!LoadTorn, Config!ResetToDefaults
<1>4. CASE Config!LoadParsed
    BY <1>4 DEF Config!LoadParsed
<1>5. CASE Config!LoadEngine
    <2>1. stage = "engine" /\ config_json = source /\ Readable(source)
        BY <1>5, InHand DEF Config!LoadEngine
    <2>2. engine_config' \in EngineConfigs
        BY <1>5, <2>1 DEF Config!LoadEngine, Readable
    <2> QED
        BY <1>5, <2>2, FiledSymbols DEF Config!LoadEngine
<1>6. CASE Config!LoadSymbol
    <2> DEFINE entry == Config!FromJson(SymbolDefaults, Head(config_json.symbols))
    <2>1. Readable(source) /\ \E i \in DOMAIN source.symbols : Head(config_json.symbols) = source.symbols[i]
        BY <1>6, InHand DEF Config!LoadSymbol
    <2>2. entry \in Config!KnownSymbolConfigs
        BY <1>6, <2>1 DEF Config!LoadSymbol, Readable
    <2>3. symbol_configs' = Config!WithEntry(symbol_configs, entry)
        BY <1>6 DEF Config!LoadSymbol
    <2>4. Filed(symbol_configs')
        BY <2>2, <2>3, FiledSymbols
    <2> QED
        BY <1>6, <2>4 DEF Config!LoadSymbol
<1>7. CASE Config!LoadFails
    BY <1>7, FiledSymbols, DefaultsAreKnown DEF Config!LoadFails, Config!ResetToDefaults
<1>8. CASE Config!LoadDone
    BY <1>8 DEF Config!LoadDone
<1>9. CASE Config!OpenToSave
    BY <1>9 DEF Config!OpenToSave
<1>10. CASE Config!WriteSettings
    <2>1. config_file' # None /\ Readable(config_file')
        BY <1>10, SavedDocument DEF Config!WriteSettings
    <2> QED
        BY <1>10, <2>1 DEF Config!WriteSettings
<1>11. CASE Config!WriteFails
    BY <1>11 DEF Config!WriteFails
<1>12. ASSUME NEW config \in EngineConfigs, Config!SetEngineConfig(config) PROVE SettingsInv'
    BY <1>12 DEF Config!SetEngineConfig
<1>13. ASSUME NEW config \in SymbolConfigs, Config!SetSymbolConfig(config) PROVE SettingsInv'
    <2>1. config \in Config!KnownSymbolConfigs
        BY DEF Config!KnownSymbolConfigs
    <2>2. Filed(symbol_configs')
        BY <1>13, <2>1, FiledSymbols DEF Config!SetSymbolConfig
    <2> QED
        BY <1>13, <2>2 DEF Config!SetSymbolConfig
<1>14. CASE Config!Crash
    BY <1>14, FiledSymbols, DefaultsAreKnown DEF Config!Crash
<1>15. CASE UNCHANGED configVars
    BY <1>15 DEF configVars
<1> QED
    BY <1>1, <1>2, <1>3, <1>4, <1>5, <1>6, <1>7, <1>8, <1>9, <1>10, <1>11, <1>12, <1>13, <1>14, <1>15
        DEF Config!Next

\* load_config has taken one symbol more.
LEMMA LoadSymbolKeepsLoadInv ==
    ASSUME SettingsInv, LoadInv, Config!LoadSymbol
    PROVE  LoadInv'
<1> DEFINE rest == config_json.symbols
           all == source.symbols
           S == {all[i] : i \in DOMAIN all}
           entries == Config!Entries(source)
<1>1. stage = "symbols" /\ rest # <<>> /\ ~Config!Throws(SymbolDefaults, Head(rest))
    BY DEF Config!LoadSymbol
<1>2. /\ config_json = [engine |-> config_json.engine, symbols |-> rest]
      /\ rest \in Seq(S)
    BY <1>1 DEF LoadInv
<1>3. Len(all) \in Nat /\ DOMAIN all = 1 .. Len(all) /\ Len(rest) \in Nat /\ Len(rest) > 0
      /\ Head(rest) = rest[1]
    BY <1>1, InHand
<1>4. PICK k \in 0 .. Len(all) : LoadedUpTo(k)
    BY <1>1 DEF LoadInv
<1>5. /\ Len(rest) = Len(all) - k
      /\ \A i \in 1 .. Len(rest) : rest[i] = all[i + k]
      /\ \A i \in 1 .. k : ~Config!Throws(SymbolDefaults, all[i])
      /\ symbol_configs = FirstSettings(entries, k)
    BY <1>4 DEF LoadedUpTo
<1>6. config_json' = [config_json EXCEPT !.symbols = Tail(rest)]
    BY DEF Config!LoadSymbol
<1>7. config_json' = [engine |-> config_json'.engine, symbols |-> config_json'.symbols]
      /\ config_json'.symbols = Tail(rest)
    BY <1>2, <1>6
<1>8. symbol_configs' = Config!WithEntry(symbol_configs, Config!FromJson(SymbolDefaults, Head(rest)))
    BY DEF Config!LoadSymbol
<1>9. UNCHANGED <<engine_config, stage, source, changed>>
    BY DEF Config!LoadSymbol
<1>10. entries[k + 1] = Config!FromJson(SymbolDefaults, all[k + 1])
    BY <1>3, <1>5 DEF Config!Entries
<1> HIDE DEF rest, all, S, entries
<1>11. /\ Tail(rest) \in Seq(S) /\ Len(Tail(rest)) = Len(rest) - 1
       /\ \A i \in 1 .. Len(Tail(rest)) : Tail(rest)[i] = rest[i + 1]
    BY <1>1, <1>2, HeadTailProperties
<1>12. k \in Nat /\ k + 1 \in 0 .. Len(all)
    BY <1>3, <1>5
<1>13. /\ Len(Tail(rest)) = Len(all) - (k + 1)
       /\ \A i \in 1 .. Len(Tail(rest)) : Tail(rest)[i] = all[i + (k + 1)]
    <2>1. Len(Tail(rest)) = Len(all) - (k + 1)
        <3>1. Len(Tail(rest)) = Len(rest) - 1 /\ Len(rest) = Len(all) - k
            BY <1>5, <1>11
        <3>2. Len(all) \in Nat /\ k \in Nat
            BY <1>3, <1>12
        <3> QED
            BY <3>1, <3>2
    <2>2. ASSUME NEW i \in 1 .. Len(Tail(rest)) PROVE Tail(rest)[i] = all[i + (k + 1)]
        <3>1. i \in Nat /\ i + 1 \in 1 .. Len(rest) /\ (i + 1) + k = i + (k + 1)
            BY <1>3, <1>11, <1>12
        <3> QED
            BY <1>5, <1>11, <3>1
    <2> QED
        BY <2>1, <2>2
<1>14. Head(rest) = all[k + 1]
    BY <1>3, <1>5, <1>12
<1>15. \A i \in 1 .. k + 1 : ~Config!Throws(SymbolDefaults, all[i])
    BY <1>1, <1>5, <1>12, <1>14
<1>16. symbol_configs' = FirstSettings(entries, k + 1)
    BY <1>5, <1>8, <1>10, <1>12, <1>14, OneMoreEntry
<1>17. LoadedUpTo(k + 1)'
    BY <1>7, <1>9, <1>13, <1>15, <1>16 DEF LoadedUpTo, all, entries
<1>18. \E n \in 0 .. Len(source.symbols) : LoadedUpTo(n)'
    BY <1>12, <1>17 DEF all
<1>19. /\ source' # None
       /\ ~Config!Throws(Defaults, source'.engine)
       /\ engine_config' = Config!FromJson(Defaults, source'.engine)
    BY <1>1, <1>9 DEF LoadInv
<1>20. config_json'.symbols \in Seq({source'.symbols[i] : i \in DOMAIN source'.symbols})
    BY <1>7, <1>9, <1>11 DEF S, all
<1> QED
    BY <1>1, <1>7, <1>9, <1>18, <1>19, <1>20 DEF LoadInv, LoadAllOrNothing, Config!LoadAllOrNothing

\* load_config has come to the end of the symbols.
LEMMA LoadDoneKeepsLoadInv ==
    ASSUME SettingsInv, LoadInv, Config!LoadDone
    PROVE  LoadInv'
<1> DEFINE n == Len(source.symbols)
<1>1. stage = "symbols" /\ config_json.symbols = <<>> /\ stage' = "up"
      /\ UNCHANGED <<engine_config, symbol_configs, source, changed>>
    BY DEF Config!LoadDone
<1>2. n \in Nat /\ DOMAIN source.symbols = 1 .. n /\ Readable(source)
    BY <1>1, InHand
<1>3. PICK k \in 0 .. n : LoadedUpTo(k)
    BY <1>1 DEF LoadInv
<1>4. k = n
    <2>1. Len(config_json.symbols) = 0
        BY <1>1
    <2> QED
        BY <1>2, <1>3, <2>1 DEF LoadedUpTo
<1>5. source # None /\ ~Config!Throws(Defaults, source.engine)
      /\ engine_config = Config!FromJson(Defaults, source.engine)
    BY <1>1 DEF LoadInv
<1>6. ~Config!Faulty(source)
    BY <1>2, <1>3, <1>4, <1>5 DEF LoadedUpTo, Config!Faulty
<1>7. Config!SettingsIn(source) = [engine |-> engine_config, symbols |-> symbol_configs]
    BY <1>2, <1>3, <1>4, <1>5, SettingsInProperties DEF LoadedUpTo
<1>8. LoadAllOrNothing'
    <2>1. Config!InMemory' = Config!SettingsIn(source)
        BY <1>1, <1>7 DEF Config!InMemory
    <2> QED
        BY <1>1, <1>5, <1>6, <2>1 DEF LoadAllOrNothing, Config!LoadAllOrNothing
<1> QED
    BY <1>1, <1>8 DEF LoadInv

\* And every step of load_config has assigned what its document says so far.
LEMMA NextLoadInv ==
    ASSUME SettingsInv, LoadInv, [Config!Next]_configVars
    PROVE  LoadInv'
<1> USE DEF LoadAllOrNothing, Config!LoadAllOrNothing, Config!InMemory, Config!DefaultSettings
<1>1. CASE UNCHANGED <<config_json, engine_config, symbol_configs, stage, source, changed>>
    BY <1>1 DEF LoadInv, LoadedUpTo
<1>2. CASE Config!LoadMissing
    BY <1>2 DEF Config!LoadMissing, LoadInv
<1>3. CASE Config!LoadTorn
    BY <1>3 DEF Config!LoadTorn, Config!ResetToDefaults, LoadInv
<1>4. CASE Config!LoadParsed
    BY <1>4 DEF Config!LoadParsed, SettingsInv, LoadInv
<1>5. CASE Config!LoadEngine
    <2>1. /\ stage = "engine" /\ config_json = source /\ Readable(source) /\ source # None
          /\ ~Config!Throws(Defaults, source.engine)
        BY <1>5, InHand DEF Config!LoadEngine, LoadInv
    <2>2. /\ stage' = "symbols" /\ UNCHANGED <<config_json, source, changed>>
          /\ engine_config' = Config!FromJson(Defaults, source.engine)
          /\ symbol_configs' = Config!NoSymbols
        BY <1>5, <2>1 DEF Config!LoadEngine
    <2>3. /\ source = [engine |-> source.engine, symbols |-> source.symbols]
          /\ source.symbols \in Seq({source.symbols[i] : i \in DOMAIN source.symbols})
        BY <2>1 DEF Readable
    <2>4. Len(source.symbols) \in Nat
        BY <2>3, LenProperties
    <2>5. FirstSettings(Config!Entries(source), 0) = Config!NoSymbols
        BY DEF FirstSettings, Config!NoSymbols
    <2>6. LoadedUpTo(0)'
        BY <2>1, <2>2, <2>4, <2>5 DEF LoadedUpTo
    <2>7. \E k \in 0 .. Len(source'.symbols) : LoadedUpTo(k)'
        BY <2>2, <2>4, <2>6
    <2> HIDE DEF LoadAllOrNothing
    <2>8. LoadAllOrNothing'
        BY <2>2 DEF LoadAllOrNothing
    <2> QED
        BY <2>1, <2>2, <2>3, <2>7, <2>8 DEF LoadInv
<1>6. CASE Config!LoadSymbol
    BY <1>6, LoadSymbolKeepsLoadInv
<1>7. CASE Config!LoadFails
    <2>1. /\ stage' = "up" /\ UNCHANGED <<source, changed>>
          /\ engine_config' = Defaults /\ symbol_configs' = DefaultSymbols
        BY <1>7 DEF Config!LoadFails, Config!ResetToDefaults
    <2>2. Config!Faulty(source)
        <3>1. CASE stage = "engine" /\ Config!Throws(Defaults, config_json.engine)
            BY <3>1 DEF LoadInv, Config!Faulty
        <3>2. CASE /\ stage = "symbols" /\ config_json.symbols # <<>>
                   /\ Config!Throws(SymbolDefaults, Head(config_json.symbols))
            <4>1. \E i \in DOMAIN source.symbols : Head(config_json.symbols) = source.symbols[i]
                BY <3>2, InHand
            <4> QED
                BY <3>2, <4>1 DEF Config!Faulty
        <3> QED
            BY <1>7, <3>1, <3>2 DEF Config!LoadFails, Config!ThrowsNext
    <2> QED
        BY <2>1, <2>2 DEF LoadInv
<1>8. CASE Config!LoadDone
    BY <1>8, LoadDoneKeepsLoadInv
<1>9. CASE Config!OpenToSave
    BY <1>9 DEF Config!OpenToSave, LoadInv
<1>10. CASE Config!WriteSettings \/ Config!WriteFails
    BY <1>10 DEF Config!WriteSettings, Config!WriteFails, LoadInv
<1>11. CASE \/ \E config \in EngineConfigs : Config!SetEngineConfig(config)
            \/ \E config \in SymbolConfigs : Config!SetSymbolConfig(config)
    BY <1>11 DEF Config!SetEngineConfig, Config!SetSymbolConfig, LoadInv
<1>12. CASE Config!Crash
    BY <1>12 DEF Config!Crash, LoadInv
<1>13. \/ UNCHANGED <<config_json, engine_config, symbol_configs, stage, source, changed>>
       \/ Config!Next
    BY DEF configVars
<1>14. ASSUME NEW content, Config!EditFile(content)
       PROVE  UNCHANGED <<config_json, engine_config, symbol_configs, stage, source, changed>>
    BY <1>14 DEF Config!EditFile
<1> QED
    BY <1>1, <1>2, <1>3, <1>4, <1>5, <1>6, <1>7, <1>8, <1>9, <1>10, <1>11, <1>12, <1>13, <1>14
        DEF Config!Next

\* Nothing but save_config and the operator touches the file.
LEMMA NextSaves ==
    ASSUME SettingsInv, SaveRoundTrips, [Config!Next]_configVars
    PROVE  SaveRoundTrips'
<1> USE DEF SaveRoundTrips, Config!SaveRoundTrips
<1>1. CASE Config!WriteSettings
    <2>1. /\ config_file' = Config!ToJson(engine_config, symbol_configs)
          /\ written' = [engine |-> engine_config, symbols |-> symbol_configs]
        BY <1>1 DEF Config!WriteSettings, Config!InMemory
    <2>2. engine_config \in EngineConfigs /\ Filed(symbol_configs)
        BY DEF SettingsInv
    <2> QED
        BY <2>1, <2>2, SavedDocument
<1>2. CASE written' = None
    BY <1>2
<1>3. CASE UNCHANGED <<config_file, written>>
    BY <1>3
<1>4. Config!WriteSettings \/ written' = None \/ UNCHANGED <<config_file, written>>
    <2>1. CASE Config!Next
        BY <2>1, Zenon DEF Config!Next, Config!EditFile, Config!LoadMissing, Config!LoadTorn, Config!LoadParsed,
            Config!LoadEngine, Config!LoadSymbol, Config!LoadFails, Config!LoadDone, Config!OpenToSave,
            Config!WriteFails, Config!SetEngineConfig, Config!SetSymbolConfig, Config!Crash
    <2>2. CASE UNCHANGED configVars
        BY <2>2 DEF configVars
    <2> QED
        BY <2>1, <2>2
<1> QED
    BY <1>1, <1>2, <1>3, <1>4

-------------------------------------------------------------------------------
(* The load *)

\* No process, no threads.
LEMMA NextOff ==
    ASSUME SettingsInv, StoreTypes, MonitorInv, [Next]_vars
    PROVE  ~Up' => \A w \in Monitor!Watchers : doing'[w] = "off"
<1>1. CASE Start
    <2>1. engine_config["persistence_path"] \in Paths
        BY PathsAndIntervals DEF SettingsInv
    <2>2. PICK usable \in BOOLEAN : db_' = [path |-> engine_config["persistence_path"], usable |-> usable]
        BY <1>1 DEF Start, Store!Initialize
    <2>3. db_' \in Store!Handles
        BY <2>1, <2>2 DEF Store!Handles
    <2> QED
        BY <2>3, StoreFacts DEF Up
<1>2. CASE Killed
    BY <1>2 DEF Killed, Monitor!Kill
<1>3. CASE UNCHANGED db_ /\ (UNCHANGED doing \/ BeginSample \/ Sample)
    BY <1>3 DEF BeginSample, Sample, Monitor!ReadTotal, Monitor!Watch, Monitor!ReadProcess, Monitor!LoadTotal,
        Monitor!LoadProcess, Monitor!StoreTotal, Monitor!StoreProcess, Monitor!Advance, MonitorInv, Up
<1>4. Start \/ Killed \/ (UNCHANGED db_ /\ (UNCHANGED doing \/ BeginSample \/ Sample))
    <2> USE DEF storeVars, monitorVars
    <2>1. CASE Load \/ BeginSample \/ Sample \/ Configure \/ FinishSave \/ Edit \/ ProcessorTicks \/ KillEarly
        BY <2>1, Zenon DEF Load, BeginSample, Sample, Configure, FinishSave, Edit, ProcessorTicks, KillEarly,
            Monitor!Elapse
    <2>2. CASE BeginRound \/ Snapshot \/ Trade \/ TimePasses
        <3>1. UNCHANGED doing
            BY <2>2, Zenon DEF BeginRound, Snapshot, Trade, TimePasses
        <3>2. UNCHANGED db_
            BY <2>2, Zenon DEF BeginRound, Snapshot, Trade, TimePasses, Store!StartRound, Store!ReadBids,
                Store!SkipSymbol, Store!ReadAsks, Store!SaveSnapshot, Store!SaveFails, Store!Report, Store!CleanUp,
                Store!CleanUpFails, Store!ChangeBook, Store!Tick, Store!SetClock
        <3> QED
            BY <3>1, <3>2
    <2>3. CASE UNCHANGED vars
        BY <2>3 DEF vars
    <2> QED
        BY <2>1, <2>2, <2>3 DEF Next
<1> QED
    BY <1>1, <1>2, <1>3, <1>4

\* One step of a thread, as far as it is the same for all of them.
LEMMA AdvanceProperties ==
    ASSUME MonitorTypes, NEW w \in Monitor!Watchers, NEW from, NEW to, NEW locals \in Samples,
           Monitor!Advance(w, from, to, locals),
           to \in {"off", "asleep", "stat", "total_diff", "process_diff", "store", "return"}
    PROVE  /\ doing[w] = from /\ doing'[w] = to /\ sample'[w] = locals
           /\ \A v \in Monitor!Watchers \ {w} : doing'[v] = doing[v] /\ sample'[v] = sample[v]
           /\ doing' \in [Monitor!Watchers -> {"off", "asleep", "stat", "total_diff", "process_diff",
                                               "store", "return"}]
           /\ sample' \in [Monitor!Watchers -> Samples]
BY DEF MonitorTypes, Monitor!Advance

\* What a call begins with.
FirstNumbers(n, m) == [Monitor!NoSample EXCEPT !.memory = n, !.total = m]

\* The first sample, and that of no call.
LEMMA NoSampleProperties ==
    ASSUME NEW n \in Nat, NEW m \in Nat
    PROVE  /\ Monitor!NoSample \in Samples
           /\ FirstNumbers(n, m) \in Samples
           /\ FirstNumbers(n, m).total = m /\ FirstNumbers(n, m).process = 0
BY DEF Samples, Monitor!NoSample, FirstNumbers

\* A sample with one number replaced: the processor time of the process,
LEMMA WithProcess ==
    ASSUME NEW s \in Samples, NEW n \in Nat, NEW t, t = [s EXCEPT !.process = n]
    PROVE  t \in Samples /\ t.process = n /\ t.total = s.total /\ t.last_total = s.last_total /\ t.last_process = s.last_process
BY DEF Samples

\* the total of the call before,
LEMMA WithLastTotal ==
    ASSUME NEW s \in Samples, NEW n \in Nat, NEW t, t = [s EXCEPT !.last_total = n]
    PROVE  t \in Samples /\ t.last_total = n /\ t.total = s.total /\ t.process = s.process /\ t.last_process = s.last_process
BY DEF Samples

\* or the time of the process then.
LEMMA WithLastProcess ==
    ASSUME NEW s \in Samples, NEW n \in Nat, NEW t, t = [s EXCEPT !.last_process = n]
    PROVE  t \in Samples /\ t.last_process = n /\ t.total = s.total /\ t.process = s.process /\ t.last_total = s.last_total
BY DEF Samples

\* What has returned is not undone by a call, and counts as the last one.
LEMMA LastSampleProperties ==
    ASSUME MonitorTypes
    PROVE  /\ LastSample.total \in Nat /\ LastSample.process \in Nat
           /\ samples # <<>> =>
                /\ Len(samples) \in Nat \ {0} /\ LastSample = samples[Len(samples)]
                /\ LastSample.total > 0
           /\ samples = <<>> => LastSample.total = 0 /\ LastSample.process = 0
<1> DEFINE S == [by : Monitor!Watchers, total : Nat \ {0}, process : Nat]
<1>1. samples \in Seq(S)
    BY DEF MonitorTypes
<1>2. CASE samples = <<>>
    BY <1>2 DEF LastSample
<1>3. CASE samples # <<>>
    <2> HIDE DEF S
    <2>1. Len(samples) \in Nat \ {0} /\ samples[Len(samples)] \in S
        BY <1>1, <1>3, EmptySeq, LenProperties, ElementOfSeq
    <2> QED
        BY <1>3, <2>1 DEF LastSample, S
<1> QED
    BY <1>2, <1>3

\* Where a thread stands when its figure is the one it returned with.
Resting == {"off", "asleep", "stat", "total_diff", "process_diff"}

\* A step on which no call returns.
LEMMA FigureStays ==
    ASSUME MonitorTypes, FigureIsTrue, samples' = samples, ~overlapped' => ~overlapped,
           \A v \in Monitor!Watchers :
                doing'[v] \in Resting => doing[v] \in Resting /\ figure'[v] = figure[v]
    PROVE  FigureIsTrue'
<1> DEFINE S == [by : Monitor!Watchers, total : Nat \ {0}, process : Nat]
<1>1. samples \in Seq(S)
    BY DEF MonitorTypes
<1>2. \A i \in DOMAIN samples : samples[i].by \in Monitor!Watchers
    <2>1. \A e \in S : e.by \in Monitor!Watchers
        OBVIOUS
    <2> HIDE DEF S
    <2> QED
        BY <1>1, <2>1, ElementOfSeq, LenProperties
<1> QED
    BY <1>2 DEF FigureIsTrue, Monitor!FigureIsTrue, Resting

\* A thread reads, or stores, its numbers: what becomes of the state.
LEMMA ReadTotalKeepsInv ==
    ASSUME MonitorInv, bound'.ticks = bound.ticks, NEW w \in Monitor!Watchers, Monitor!ReadTotal(w),
           ~Up' => \A v \in Monitor!Watchers : doing'[v] = "off"
    PROVE  MonitorInv'
<1>1. PICK memory \in Sizes :
        Monitor!Advance(w, "asleep", "stat", [Monitor!NoSample EXCEPT !.memory = memory, !.total = total])
    BY DEF Monitor!ReadTotal
<1> DEFINE t == FirstNumbers(memory, total)
<1>2. memory \in Nat /\ total \in Nat /\ total > 0 /\ own \in Nat
    BY DeploymentAssumption DEF MonitorInv, MonitorTypes
<1>3. t \in Samples /\ t.total = total /\ t.process = 0
    BY <1>2, NoSampleProperties
<1> HIDE DEF t
<1>4. MonitorTypes /\ Monitor!Advance(w, "asleep", "stat", t)
    BY <1>1 DEF MonitorInv, t, FirstNumbers
<1>5. /\ doing[w] = "asleep" /\ doing'[w] = "stat" /\ sample'[w] = t
      /\ \A v \in Monitor!Watchers \ {w} : doing'[v] = doing[v] /\ sample'[v] = sample[v]
      /\ doing' \in [Monitor!Watchers -> {"off", "asleep", "stat", "total_diff", "process_diff",
                                          "store", "return"}]
      /\ sample' \in [Monitor!Watchers -> Samples]
    BY <1>3, <1>4, AdvanceProperties
<1>6. /\ UNCHANGED <<total, own, last_total_time_, last_process_time_, last_status_, figure, samples>>
      /\ overlapped' = (overlapped \/ \E v \in Monitor!Watchers : doing[v] \notin {"off", "asleep"})
    BY DEF Monitor!ReadTotal
<1>7. MonitorTypes'
    <2>1. overlapped' \in BOOLEAN
        BY <1>6
    <2> QED
        BY <1>4, <1>5, <1>6, <2>1 DEF MonitorTypes
<1>8. LastSample' = LastSample
    BY <1>6 DEF LastSample
<1>9. \A v \in Monitor!Watchers : Active(v)' =>
        sample'[v].total > 0 /\ sample'[v].total <= total' /\ sample'[v].process <= own'
    BY <1>2, <1>3, <1>5, <1>6 DEF MonitorInv, Active
<1>10. FigureIsTrue'
    <2>1. ~overlapped' => ~overlapped
        BY <1>6
    <2>2. \A v \in Monitor!Watchers : doing'[v] \in Resting => doing[v] \in Resting /\ figure'[v] = figure[v]
        BY <1>5, <1>6 DEF Resting
    <2> QED
        BY <1>6, <2>1, <2>2, FigureStays DEF MonitorInv
<1>11. ASSUME ~overlapped'
       PROVE  /\ last_process_time_' = LastSample'.process
              /\ \A v \in Monitor!Watchers : Active(v)' => Undisturbed(v)'
              /\ (\A v \in Monitor!Watchers : ~Active(v)') => last_total_time_' = LastSample'.total
    <2>1. ~overlapped /\ \A v \in Monitor!Watchers : ~Active(v)
        BY <1>6, <1>11 DEF Active
    <2>2. last_process_time_ = LastSample.process /\ last_total_time_ = LastSample.total
        BY <2>1 DEF MonitorInv
    <2>3. \A v \in Monitor!Watchers : Active(v)' => v = w
        BY <1>5, <2>1 DEF Active
    <2>4. LastSample.total <= total
        BY DEF MonitorInv
    <2>5. Undisturbed(w)'
        BY <1>2, <1>3, <1>5, <1>6, <1>8, <2>2, <2>3, <2>4 DEF Undisturbed
    <2> QED
        BY <1>5, <1>6, <1>8, <2>2, <2>3, <2>5 DEF Active
<1> QED
    BY <1>6, <1>7, <1>8, <1>9, <1>10, <1>11 DEF MonitorInv

\* The steps of a call, from the second one on.
CallSteps == {"stat", "total_diff", "process_diff", "store", "return"}

\* A step of a call that neither begins nor returns.
GoesOn(w, from, to, t) ==
    /\ from \in CallSteps /\ to \in CallSteps
    /\ Monitor!Advance(w, from, to, t)
    /\ t \in Samples /\ t.total = sample[w].total /\ t.process <= own
    /\ last_total_time_' \in 0 .. total
    /\ UNCHANGED <<total, own, last_process_time_, last_status_, samples, overlapped>>
    /\ figure' = [v \in Monitor!Watchers |-> figure'[v]]
    /\ \A v \in Monitor!Watchers \ {w} : figure'[v] = figure[v]
    /\ to \in Resting => from \in Resting /\ figure'[w] = figure[w]

\* A step that only one thread's sample sees.
LEMMA GoesOnKeepsInv ==
    ASSUME MonitorInv, bound'.ticks = bound.ticks, NEW w \in Monitor!Watchers,
           NEW from, NEW to, NEW t, GoesOn(w, from, to, t),
           ~overlapped /\ Undisturbed(w) => Undisturbed(w)',
           ~Up' => \A v \in Monitor!Watchers : doing'[v] = "off"
    PROVE  MonitorInv'
<1>1. MonitorTypes /\ t \in Samples /\ Monitor!Advance(w, from, to, t)
      /\ to \in {"off", "asleep", "stat", "total_diff", "process_diff", "store", "return"}
    BY DEF GoesOn, MonitorInv, CallSteps
<1>2. /\ doing[w] = from /\ doing'[w] = to /\ sample'[w] = t
      /\ \A v \in Monitor!Watchers \ {w} : doing'[v] = doing[v] /\ sample'[v] = sample[v]
      /\ doing' \in [Monitor!Watchers -> {"off", "asleep", "stat", "total_diff", "process_diff",
                                          "store", "return"}]
      /\ sample' \in [Monitor!Watchers -> Samples]
    BY <1>1, AdvanceProperties
<1>3. Active(w) /\ Active(w)'
    BY <1>2 DEF GoesOn, Active, CallSteps
<1>4. MonitorTypes'
    BY <1>1, <1>2 DEF GoesOn, MonitorTypes
<1>5. LastSample' = LastSample
    BY DEF GoesOn, LastSample
<1>6. \A v \in Monitor!Watchers : Active(v)' =>
        sample'[v].total > 0 /\ sample'[v].total <= total' /\ sample'[v].process <= own'
    BY <1>2, <1>3 DEF GoesOn, MonitorInv, Active
<1>7. FigureIsTrue'
    <2>1. \A v \in Monitor!Watchers : doing'[v] \in Resting => doing[v] \in Resting /\ figure'[v] = figure[v]
        BY <1>2 DEF GoesOn
    <2> QED
        BY <1>1, <2>1, FigureStays DEF GoesOn, MonitorInv
<1>8. ASSUME ~overlapped'
      PROVE  /\ last_process_time_' = LastSample'.process
             /\ \A v \in Monitor!Watchers : Active(v)' => Undisturbed(v)'
             /\ (\A v \in Monitor!Watchers : ~Active(v)') => last_total_time_' = LastSample'.total
    <2>1. ~overlapped /\ last_process_time_' = last_process_time_
        BY <1>8 DEF GoesOn
    <2>2. Undisturbed(w) /\ Undisturbed(w)' /\ last_process_time_ = LastSample.process
        BY <1>3, <2>1 DEF MonitorInv
    <2>3. \A v \in Monitor!Watchers : Active(v)' => v = w
        BY <2>2 DEF Undisturbed
    <2> QED
        BY <1>3, <1>5, <2>1, <2>2, <2>3
<1>9. LastSample'.total <= total' /\ LastSample'.process <= own'
    BY <1>5 DEF GoesOn, MonitorInv
<1> QED
    BY <1>4, <1>6, <1>7, <1>8, <1>9 DEF MonitorInv

\* What does not change for the call that is alone.
LEMMA StillAlone ==
    ASSUME MonitorInv, NEW w \in Monitor!Watchers, NEW from, NEW to, NEW t, GoesOn(w, from, to, t),
           Undisturbed(w)
    PROVE  /\ \A v \in Monitor!Watchers : Active(v)' => v = w
           /\ doing[w] = from /\ doing'[w] = to /\ sample'[w] = t
           /\ LastSample' = LastSample /\ \A s : Worth(s)' = Worth(s)
           /\ sample[w].total > 0 /\ sample[w].total >= LastSample.total
           /\ LastSample.process \in Nat /\ LastSample.total \in Nat
           /\ LastSample.process <= own /\ sample[w].total <= total
<1>1. MonitorTypes /\ t \in Samples /\ Monitor!Advance(w, from, to, t)
      /\ to \in {"off", "asleep", "stat", "total_diff", "process_diff", "store", "return"}
    BY DEF GoesOn, MonitorInv, CallSteps
<1>2. /\ doing[w] = from /\ doing'[w] = to /\ sample'[w] = t
      /\ \A v \in Monitor!Watchers \ {w} : doing'[v] = doing[v] /\ sample'[v] = sample[v]
    BY <1>1, AdvanceProperties
<1>3. Active(w)
    BY <1>2 DEF GoesOn, Active, CallSteps
<1>4. samples' = samples
    BY DEF GoesOn
<1> QED
    BY <1>1, <1>2, <1>3, <1>4, LastSampleProperties DEF MonitorInv, Undisturbed, Active, LastSample, Worth

\* The thread reads the time of the process.
LEMMA ReadProcessKeepsInv ==
    ASSUME MonitorInv, bound'.ticks = bound.ticks, NEW w \in Monitor!Watchers, Monitor!ReadProcess(w),
           ~Up' => \A v \in Monitor!Watchers : doing'[v] = "off"
    PROVE  MonitorInv'
<1> DEFINE t == [sample[w] EXCEPT !.process = own]
<1>1. sample[w] \in Samples /\ own \in Nat /\ last_total_time_ \in 0 .. total
      /\ figure = [v \in Monitor!Watchers |-> figure[v]]
    BY DEF MonitorInv, MonitorTypes
<1>2. t \in Samples /\ t.process = own /\ t.total = sample[w].total
    BY <1>1, WithProcess
<1> HIDE DEF t
<1>3. GoesOn(w, "stat", "total_diff", t)
    BY <1>1, <1>2 DEF Monitor!ReadProcess, GoesOn, CallSteps, Resting, t
<1>4. ASSUME Undisturbed(w) PROVE Undisturbed(w)'
    BY <1>1, <1>2, <1>3, <1>4, StillAlone DEF Undisturbed, Monitor!ReadProcess
<1> QED
    BY <1>3, <1>4, GoesOnKeepsInv

\* It loads last_total_time_,
LEMMA LoadTotalKeepsInv ==
    ASSUME MonitorInv, bound'.ticks = bound.ticks, NEW w \in Monitor!Watchers, Monitor!LoadTotal(w),
           ~Up' => \A v \in Monitor!Watchers : doing'[v] = "off"
    PROVE  MonitorInv'
<1> DEFINE t == [sample[w] EXCEPT !.last_total = last_total_time_]
<1>1. sample[w] \in Samples /\ last_total_time_ \in 0 .. total /\ last_total_time_ \in Nat
      /\ figure = [v \in Monitor!Watchers |-> figure[v]]
    BY DEF MonitorInv, MonitorTypes
<1>2. t \in Samples /\ t.last_total = last_total_time_ /\ t.total = sample[w].total
      /\ t.process = sample[w].process
    BY <1>1, WithLastTotal
<1> HIDE DEF t
<1>3. sample[w].process <= own
    BY DEF MonitorInv, Active, Monitor!LoadTotal, Monitor!Advance
<1>4. GoesOn(w, "total_diff", "process_diff", t)
    BY <1>1, <1>2, <1>3 DEF Monitor!LoadTotal, GoesOn, CallSteps, Resting, t
<1>5. ASSUME Undisturbed(w) PROVE Undisturbed(w)'
    BY <1>1, <1>2, <1>4, <1>5, StillAlone DEF Undisturbed, Monitor!LoadTotal
<1> QED
    BY <1>4, <1>5, GoesOnKeepsInv

\* stores it,
LEMMA StoreTotalKeepsInv ==
    ASSUME MonitorInv, bound'.ticks = bound.ticks, NEW w \in Monitor!Watchers, Monitor!StoreTotal(w),
           ~Up' => \A v \in Monitor!Watchers : doing'[v] = "off"
    PROVE  MonitorInv'
<1>1. sample[w] \in Samples /\ figure = [v \in Monitor!Watchers |-> figure[v]]
    BY DEF MonitorInv, MonitorTypes
<1>2. sample[w].total <= total /\ sample[w].process <= own /\ total \in Nat /\ sample[w].total \in Nat
    BY <1>1 DEF MonitorInv, MonitorTypes, Active, Monitor!StoreTotal, Monitor!Advance, Samples
<1>3. GoesOn(w, "store", "return", sample[w])
    BY <1>1, <1>2 DEF Monitor!StoreTotal, GoesOn, CallSteps, Resting
<1>4. ASSUME Undisturbed(w) PROVE Undisturbed(w)'
    BY <1>1, <1>3, <1>4, StillAlone DEF Undisturbed, Monitor!StoreTotal
<1> QED
    BY <1>3, <1>4, GoesOnKeepsInv

\* Nothing wraps around while the counters go up.
LEMMA NoWrap == \A x, n \in Nat : x < n => x % n = x
OBVIOUS

\* The load is worked out of the right numbers.
LEMMA LoadIsWorth ==
    ASSUME MonitorTypes, NEW t \in Samples,
           t.last_total = LastSample.total, t.last_process = LastSample.process,
           t.total >= LastSample.total, t.process >= LastSample.process,
           t.total <= total, t.process <= own
    PROVE  Monitor!Load(t) = Worth(t)
<1> DEFINE td == t.total - t.last_total
           pd == t.process - t.last_process
<1>1. /\ t.total \in Nat /\ t.process \in Nat /\ t.last_total \in Nat /\ t.last_process \in Nat
      /\ total \in Nat /\ own \in Nat /\ own < total /\ Word \in Nat /\ total < Word
    BY StoreFacts DEF MonitorTypes, Samples
<1>2. td \in Nat /\ pd \in Nat /\ td < Word /\ pd < Word
    BY <1>1
<1>3. td % Word = td /\ pd % Word = pd
    <2> HIDE DEF td, pd
    <2> QED
        BY <1>1, <1>2, NoWrap
<1>4. Monitor!Load(t) = IF t.last_total > 0 /\ t.last_process > 0 /\ td > 0
                        THEN [process |-> pd, total |-> td] ELSE None
    BY <1>3 DEF Monitor!Load
<1>5. CASE samples = <<>>
    BY <1>1, <1>4, <1>5, LastSampleProperties DEF Worth
<1>6. CASE samples # <<>>
    <2> DEFINE before == samples[Len(samples)]
    <2>1. before = LastSample /\ LastSample.total > 0
        BY <1>6, LastSampleProperties
    <2>2. t.last_total = before.total /\ t.last_process = before.process
        BY <2>1
    <2>3. td > 0 <=> t.total > before.total
        BY <1>1, <2>2
    <2>4. Worth(t) = IF before.process > 0 /\ t.total > before.total
                     THEN [process |-> t.process - before.process, total |-> t.total - before.total]
                     ELSE None
        BY <1>6 DEF Worth, Monitor!LoadSince
    <2> HIDE DEF before
    <2> QED
        BY <1>4, <2>1, <2>2, <2>3, <2>4
<1> QED
    BY <1>5, <1>6

\* loads last_process_time_,
LEMMA LoadProcessKeepsInv ==
    ASSUME MonitorInv, bound'.ticks = bound.ticks, NEW w \in Monitor!Watchers, Monitor!LoadProcess(w),
           ~Up' => \A v \in Monitor!Watchers : doing'[v] = "off"
    PROVE  MonitorInv'
<1> DEFINE t == [sample[w] EXCEPT !.last_process = last_process_time_]
<1>1. sample[w] \in Samples /\ last_total_time_ \in 0 .. total /\ last_process_time_ \in Nat
      /\ figure = [v \in Monitor!Watchers |-> figure[v]]
    BY DEF MonitorInv, MonitorTypes
<1>2. t \in Samples /\ t.last_process = last_process_time_ /\ t.total = sample[w].total
      /\ t.process = sample[w].process /\ t.last_total = sample[w].last_total
    BY <1>1, WithLastProcess
<1> HIDE DEF t
<1>3. sample[w].process <= own
    BY DEF MonitorInv, Active, Monitor!LoadProcess, Monitor!Advance
<1>4. Monitor!Advance(w, "process_diff", "store", t)
    BY DEF Monitor!LoadProcess, t
<1>5. sample'[w] = t
    BY <1>1, <1>4 DEF Monitor!Advance, MonitorInv, MonitorTypes
<1>6. figure' = [figure EXCEPT ![w] = Monitor!Load(t)]
    BY <1>5 DEF Monitor!LoadProcess
<1>7. /\ figure' = [v \in Monitor!Watchers |-> figure'[v]] /\ figure'[w] = Monitor!Load(t)
      /\ \A v \in Monitor!Watchers \ {w} : figure'[v] = figure[v]
    BY <1>1, <1>6
<1>8. GoesOn(w, "process_diff", "store", t)
    BY <1>1, <1>2, <1>3, <1>4, <1>7 DEF Monitor!LoadProcess, GoesOn, CallSteps, Resting
<1>9. ASSUME ~overlapped, Undisturbed(w) PROVE Undisturbed(w)'
    <2>1. last_process_time_ = LastSample.process
        BY <1>9 DEF MonitorInv
    <2>2. /\ sample[w].last_total = LastSample.total /\ sample[w].process >= LastSample.process
          /\ doing[w] = "process_diff"
        BY <1>8, <1>9, StillAlone DEF Undisturbed
    <2>3. sample[w].total >= LastSample.total /\ sample[w].total <= total
        BY <1>8, <1>9, StillAlone
    <2>4. Monitor!Load(t) = Worth(t)
        BY <1>2, <1>3, <2>1, <2>2, <2>3, LoadIsWorth DEF MonitorInv
    <2> QED
        BY <1>1, <1>2, <1>7, <1>8, <1>9, <2>1, <2>2, <2>4, StillAlone DEF Undisturbed, Monitor!LoadProcess
<1> QED
    BY <1>8, <1>9, GoesOnKeepsInv

\* What a call that returns adds.
LEMMA OneMoreSample ==
    ASSUME MonitorTypes, NEW e \in [by : Monitor!Watchers, total : Nat \ {0}, process : Nat],
           samples' = Append(samples, e)
    PROVE  /\ samples' \in Seq([by : Monitor!Watchers, total : Nat \ {0}, process : Nat])
           /\ Len(samples) \in Nat /\ Len(samples') = Len(samples) + 1
           /\ samples' # <<>> /\ samples'[Len(samples')] = e
           /\ \A i \in 1 .. Len(samples) : samples'[i] = samples[i]
           /\ DOMAIN samples = 1 .. Len(samples) /\ DOMAIN samples' = 1 .. Len(samples')
<1> DEFINE S == [by : Monitor!Watchers, total : Nat \ {0}, process : Nat]
<1>1. samples \in Seq(S) /\ e \in S
    BY DEF MonitorTypes
<1> HIDE DEF S
<1>2. Append(samples, e) \in Seq(S) /\ Len(Append(samples, e)) = Len(samples) + 1
      /\ Append(samples, e)[Len(samples) + 1] = e
      /\ \A i \in 1 .. Len(samples) : Append(samples, e)[i] = samples[i]
    BY <1>1, AppendProperties
<1>3. Len(samples) \in Nat /\ DOMAIN samples = 1 .. Len(samples) /\ DOMAIN samples' = 1 .. Len(samples')
    BY <1>1, <1>2, LenProperties
<1>4. samples' # <<>>
    BY <1>2, <1>3, EmptySeq
<1> QED
    BY <1>2, <1>3, <1>4 DEF S

\* A check has one of the known outcomes.
LEMMA StatusIsAMessage == \A s : Monitor!StatusOf(s) \in Monitor!Messages
BY DEF Monitor!StatusOf, Monitor!Messages

\* and stores that too, which ends the call with a figure.
LEMMA StoreProcessKeepsInv ==
    ASSUME MonitorInv, bound'.ticks = bound.ticks, NEW w \in Monitor!Watchers, Monitor!StoreProcess(w),
           ~Up' => \A v \in Monitor!Watchers : doing'[v] = "off"
    PROVE  MonitorInv'
<1> DEFINE to == IF w = "main" THEN "off" ELSE "asleep"
           e == [by |-> w, total |-> sample[w].total, process |-> sample[w].process]
<1>1. MonitorTypes /\ Monitor!NoSample \in Samples /\ to \in {"off", "asleep"}
      /\ Monitor!Advance(w, "return", to, Monitor!NoSample)
    BY NoSampleProperties DEF MonitorInv, Monitor!StoreProcess, Samples, Monitor!NoSample
<1>2. /\ last_process_time_' = sample[w].process
      /\ last_status_' \in Monitor!Messages
      /\ samples' = Append(samples, e)
      /\ UNCHANGED <<total, own, last_total_time_, figure, overlapped>>
    BY <1>1, StatusIsAMessage DEF Monitor!StoreProcess, MonitorTypes
<1> HIDE DEF to
<1>3. /\ doing[w] = "return" /\ doing'[w] = to
      /\ \A v \in Monitor!Watchers \ {w} : doing'[v] = doing[v] /\ sample'[v] = sample[v]
      /\ doing' \in [Monitor!Watchers -> {"off", "asleep", "stat", "total_diff", "process_diff",
                                          "store", "return"}]
      /\ sample' \in [Monitor!Watchers -> Samples]
    BY <1>1, AdvanceProperties
<1>4. Active(w) /\ ~Active(w)'
    BY <1>1, <1>3 DEF Active
<1>5. sample[w].total \in Nat /\ sample[w].process \in Nat
      /\ sample[w].total > 0 /\ sample[w].total <= total /\ sample[w].process <= own
    BY <1>1, <1>4 DEF MonitorInv, MonitorTypes, Samples
<1>6. e.by = w /\ e.total = sample[w].total /\ e.process = sample[w].process
    OBVIOUS
<1>7. e \in [by : Monitor!Watchers, total : Nat \ {0}, process : Nat]
    BY <1>5
<1> HIDE DEF e
<1>8. /\ samples' \in Seq([by : Monitor!Watchers, total : Nat \ {0}, process : Nat])
      /\ Len(samples) \in Nat /\ Len(samples') = Len(samples) + 1
      /\ samples' # <<>> /\ samples'[Len(samples')] = e
      /\ \A i \in 1 .. Len(samples) : samples'[i] = samples[i]
      /\ DOMAIN samples = 1 .. Len(samples) /\ DOMAIN samples' = 1 .. Len(samples')
    BY <1>1, <1>2, <1>7, OneMoreSample
<1>9. LastSample' = e
    BY <1>8 DEF LastSample
<1>10. MonitorTypes'
    <2>1. sample[w].process \in 0 .. own
        BY <1>1, <1>5 DEF MonitorTypes
    <2> QED
        BY <1>1, <1>2, <1>3, <1>8, <2>1 DEF MonitorTypes
<1>11. \A v \in Monitor!Watchers : Active(v)' =>
        sample'[v].total > 0 /\ sample'[v].total <= total' /\ sample'[v].process <= own'
    BY <1>2, <1>3, <1>4 DEF MonitorInv, Active
<1>12. LastSample'.total <= total' /\ LastSample'.process <= own'
    BY <1>2, <1>5, <1>6, <1>9
<1>13. ASSUME ~overlapped
       PROVE  Undisturbed(w)
    BY <1>4, <1>13 DEF MonitorInv
<1>14. ASSUME ~overlapped'
       PROVE  /\ last_process_time_' = LastSample'.process
              /\ \A v \in Monitor!Watchers : ~Active(v)'
              /\ last_total_time_' = LastSample'.total
    <2>1. Undisturbed(w)
        BY <1>2, <1>13, <1>14
    <2>2. \A v \in Monitor!Watchers : ~Active(v)'
        BY <1>3, <1>4, <2>1 DEF Undisturbed, Active
    <2>3. last_total_time_ = sample[w].total
        BY <1>3, <2>1 DEF Undisturbed
    <2> QED
        BY <1>2, <1>6, <1>9, <2>2, <2>3
<1>15. FigureIsTrue'
    <2> SUFFICES ASSUME ~overlapped', NEW i \in 1 .. Len(samples'),
                        doing'[samples'[i].by] \in Resting,
                        \A j \in 1 .. Len(samples') : samples'[j].by = samples'[i].by => j <= i
                 PROVE  figure'[samples'[i].by] =
                            IF i = 1 THEN None ELSE Monitor!LoadSince(samples'[i - 1], samples'[i])
        BY <1>8, Zenon DEF FigureIsTrue, Monitor!FigureIsTrue, Resting
    <2>1. CASE i = Len(samples')
        <3>1. samples'[i] = e
            BY <1>8, <2>1
        <3>2. figure'[w] = Worth(sample[w])
            BY <1>2, <1>3, <1>13 DEF Undisturbed
        <3>3. CASE samples = <<>>
            <4>1. i = 1
                BY <1>8, <2>1, <3>3, EmptySeq
            <4> QED
                BY <1>6, <3>1, <3>2, <3>3, <4>1 DEF Worth
        <3>4. CASE samples # <<>>
            <4>1. Len(samples) # 0
                BY <1>1, <3>4, EmptySeq DEF MonitorTypes
            <4>2. i # 1 /\ i - 1 = Len(samples) /\ i - 1 \in 1 .. Len(samples)
                BY <1>8, <2>1, <4>1
            <4>3. samples'[i - 1] = samples[Len(samples)]
                BY <1>8, <4>2
            <4>4. Worth(sample[w]) = Monitor!LoadSince(samples[Len(samples)], sample[w])
                BY <3>4 DEF Worth
            <4>5. Monitor!LoadSince(samples[Len(samples)], sample[w]) = Monitor!LoadSince(samples[Len(samples)], e)
                BY <1>6 DEF Monitor!LoadSince
            <4> QED
                BY <1>6, <3>1, <3>2, <4>2, <4>3, <4>4, <4>5
        <3> QED
            BY <3>3, <3>4
    <2>2. CASE i # Len(samples')
        <3>1. i \in 1 .. Len(samples) /\ Len(samples') \in 1 .. Len(samples') /\ ~(Len(samples') <= i)
            BY <1>8, <2>2
        <3>2. samples'[i] = samples[i]
            BY <1>8, <3>1
        <3> DEFINE v == samples[i].by
        <3>3. v # w
            BY <1>6, <1>8, <3>1, <3>2
        <3>4. v \in Monitor!Watchers
            <4>1. samples[i] \in [by : Monitor!Watchers, total : Nat \ {0}, process : Nat]
                <5> DEFINE S == [by : Monitor!Watchers, total : Nat \ {0}, process : Nat]
                <5>1. samples \in Seq(S)
                    BY <1>1 DEF MonitorTypes
                <5> HIDE DEF S
                <5>2. samples[i] \in S
                    BY <3>1, <5>1, ElementOfSeq
                <5> QED
                    BY <5>2 DEF S
            <4> QED
                BY <4>1
        <3>5. doing[v] \in Resting /\ figure'[v] = figure[v]
            BY <1>2, <1>3, <3>2, <3>3, <3>4
        <3>6. \A j \in 1 .. Len(samples) : samples[j].by = v => j <= i
            BY <1>8, <3>2
        <3>7. figure[v] = IF i = 1 THEN None ELSE Monitor!LoadSince(samples[i - 1], samples[i])
            <4> HIDE DEF v
            <4>1. FigureIsTrue /\ ~overlapped /\ i \in DOMAIN samples
                BY <1>2, <1>8, <3>1 DEF MonitorInv
            <4> QED
                BY <1>8, <3>5, <3>6, <4>1, Zenon DEF FigureIsTrue, Monitor!FigureIsTrue, Resting, v
        <3>8. i # 1 => samples'[i - 1] = samples[i - 1]
            BY <1>8, <3>1
        <3> QED
            BY <3>2, <3>5, <3>7, <3>8
    <2> QED
        BY <2>1, <2>2
<1> QED
    BY <1>10, <1>11, <1>12, <1>14, <1>15 DEF MonitorInv

\* A tick.
LEMMA ElapseKeepsInv ==
    ASSUME MonitorInv, bound'.ticks = bound.ticks - 1, bound'.ticks \in Nat, Monitor!Elapse,
           ~Up' => \A v \in Monitor!Watchers : doing'[v] = "off"
    PROVE  MonitorInv'
<1>1. /\ total' = total + 1 /\ own' \in {own, own + 1}
      /\ UNCHANGED <<last_total_time_, last_process_time_, doing, sample, last_status_,
                     figure, samples, overlapped>>
    BY DEF Monitor!Elapse
<1>2. /\ total \in Nat /\ own \in Nat /\ own < total /\ bound.ticks \in Nat /\ total + bound.ticks < Word
      /\ Word \in Nat
    BY StoreFacts DEF MonitorInv, MonitorTypes
<1>3. /\ total' \in Nat /\ own' \in Nat /\ own' < total' /\ total <= total' /\ own <= own'
      /\ total' + bound'.ticks < Word
    BY <1>1, <1>2
<1>4. MonitorTypes'
    <2>1. last_total_time_' \in 0 .. total' /\ last_process_time_' \in 0 .. own'
        BY <1>1, <1>2, <1>3 DEF MonitorInv, MonitorTypes
    <2> QED
        BY <1>1, <1>3, <2>1 DEF MonitorInv, MonitorTypes
<1>5. LastSample' = LastSample /\ LastSample.total \in Nat /\ LastSample.process \in Nat
    BY <1>1, LastSampleProperties DEF LastSample, MonitorInv
<1>6. \A v \in Monitor!Watchers : Active(v)' =>
        sample'[v].total > 0 /\ sample'[v].total <= total' /\ sample'[v].process <= own'
    <2>1. \A v \in Monitor!Watchers : sample[v].total \in Nat /\ sample[v].process \in Nat
        BY DEF MonitorInv, MonitorTypes, Samples
    <2> QED
        BY <1>1, <1>2, <1>3, <2>1 DEF MonitorInv, Active
<1>7. LastSample'.total <= total' /\ LastSample'.process <= own'
    BY <1>2, <1>3, <1>5 DEF MonitorInv
<1>8. \A v \in Monitor!Watchers : Undisturbed(v)' = Undisturbed(v) /\ Active(v)' = Active(v)
    <2>1. \A s : Worth(s)' = Worth(s)
        BY <1>1 DEF Worth
    <2> QED
        BY <1>1, <1>5, <2>1 DEF Undisturbed, Active
<1>9. FigureIsTrue'
    BY <1>1 DEF FigureIsTrue, Monitor!FigureIsTrue, MonitorInv
<1> QED
    BY <1>1, <1>4, <1>5, <1>6, <1>7, <1>8, <1>9 DEF MonitorInv

\* The threads start with no call under way.
LEMMA StartWatchingKeepsInv ==
    ASSUME MonitorInv, bound'.ticks = bound.ticks, ~Up, Monitor!StartWatching,
           ~Up' => \A v \in Monitor!Watchers : doing'[v] = "off"
    PROVE  MonitorInv'
<1>1. /\ doing' = [w \in Monitor!Watchers |-> "asleep"]
      /\ UNCHANGED <<total, own, last_total_time_, last_process_time_, sample, last_status_,
                     figure, samples, overlapped>>
      /\ \A w \in Monitor!Watchers : doing[w] = "off"
    BY DEF Monitor!StartWatching, MonitorInv
<1>2. \A w \in Monitor!Watchers : ~Active(w) /\ ~Active(w)'
    BY <1>1 DEF Active
<1>3. MonitorTypes'
    BY <1>1 DEF MonitorTypes, MonitorInv
<1>4. LastSample' = LastSample
    BY <1>1 DEF LastSample
<1>5. FigureIsTrue'
    <2>1. \A v \in Monitor!Watchers : doing[v] \in Resting /\ figure'[v] = figure[v]
        BY <1>1 DEF Resting
    <2> QED
        BY <1>1, <2>1, FigureStays DEF MonitorInv
<1> QED
    BY <1>1, <1>2, <1>3, <1>4, <1>5 DEF MonitorInv

\* No call has been made in this process.
Fresh ==
    /\ total \in Nat /\ total > 0 /\ bound.ticks \in Nat /\ total + bound.ticks < Word
    /\ own = 0 /\ last_total_time_ = 0 /\ last_process_time_ = 0
    /\ doing = [w \in Monitor!Watchers |-> "off"]
    /\ sample = [w \in Monitor!Watchers |-> Monitor!NoSample]
    /\ last_status_ = ""
    /\ figure = [w \in Monitor!Watchers |-> None]
    /\ samples = <<>>
    /\ overlapped = FALSE

\* A fresh process has no sample.
LEMMA FreshMonitorInv == Fresh => MonitorInv
<1> SUFFICES ASSUME Fresh PROVE MonitorInv
    OBVIOUS
<1>1. total \in Nat /\ total > 0 /\ own = 0 /\ last_total_time_ = 0 /\ last_process_time_ = 0
      /\ bound.ticks \in Nat /\ total + bound.ticks < Word
    BY DEF Fresh
<1>2. samples = <<>>
    BY DEF Fresh
<1>3. LastSample.total = 0 /\ LastSample.process = 0
    BY <1>2 DEF LastSample
<1>4. \A w \in Monitor!Watchers : doing[w] = "off" /\ ~Active(w)
    BY DEF Fresh, Active
<1>5. MonitorTypes
    <2>1. Monitor!NoSample \in Samples
        BY DEF Samples, Monitor!NoSample
    <2>2. samples \in Seq([by : Monitor!Watchers, total : Nat \ {0}, process : Nat])
        BY <1>2, EmptySeq
    <2>3. figure = [w \in Monitor!Watchers |-> figure[w]]
        BY DEF Fresh
    <2>4. doing \in [Monitor!Watchers -> {"off", "asleep", "stat", "total_diff", "process_diff",
                                          "store", "return"}]
        BY DEF Fresh
    <2>5. sample \in [Monitor!Watchers -> Samples]
        BY <2>1 DEF Fresh
    <2>6. last_status_ \in Monitor!Messages /\ overlapped \in BOOLEAN
        BY DEF Fresh, Monitor!Messages
    <2>7. own \in Nat /\ own < total /\ last_total_time_ \in 0 .. total /\ last_process_time_ \in 0 .. own
        BY <1>1
    <2> QED
        BY <1>1, <2>2, <2>3, <2>4, <2>5, <2>6, <2>7, Zenon DEF MonitorTypes
<1>6. FigureIsTrue
    <2>1. DOMAIN samples = {}
        BY <1>2
    <2> QED
        BY <2>1, Zenon DEF FigureIsTrue, Monitor!FigureIsTrue
<1>7. LastSample.total <= total /\ LastSample.process <= own
    BY <1>1, <1>3
<1>8. last_process_time_ = LastSample.process /\ last_total_time_ = LastSample.total
    BY <1>1, <1>3
<1> QED
    BY <1>4, <1>5, <1>6, <1>7, <1>8, Zenon DEF MonitorInv

\* The invariant of the load holds at the start,
LEMMA InitMonitorInv == Init => MonitorInv
<1> SUFFICES ASSUME Init PROVE MonitorInv
    OBVIOUS
<1>1. bound.ticks \in Nat /\ 1 + bound.ticks < Word
    BY DeploymentAssumption, StoreFacts DEF Init
<1>2. total = 1 /\ own = 0 /\ last_total_time_ = 0 /\ last_process_time_ = 0
    BY DEF Init, Monitor!Init
<1>3. total \in Nat /\ total > 0 /\ total + bound.ticks < Word
    BY <1>1, <1>2
<1>4. Fresh
    BY <1>1, <1>2, <1>3, Zenon DEF Fresh, Init, Monitor!Init
<1> QED
    BY <1>4, FreshMonitorInv

\* after a kill,
LEMMA KillKeepsInv ==
    ASSUME MonitorInv, bound'.ticks = bound.ticks, Monitor!Kill
    PROVE  MonitorInv'
<1>1. Fresh'
    <2>1. total \in Nat /\ total > 0 /\ bound.ticks \in Nat /\ total + bound.ticks < Word
        BY DEF MonitorInv, MonitorTypes
    <2> QED
        BY <2>1 DEF Fresh, Monitor!Kill, Monitor!Reset
<1>2. Fresh' => MonitorInv'
    BY FreshMonitorInv, PTL
<1> QED
    BY <1>1, <1>2

\* and after every step.
LEMMA NextMonitorInv ==
    ASSUME BoundInv, SettingsInv, StoreTypes, MonitorInv, [Next]_vars
    PROVE  MonitorInv'
<1>1. ~Up' => \A w \in Monitor!Watchers : doing'[w] = "off"
    BY NextOff
<1>2. CASE Monitor!Elapse /\ bound'.ticks = bound.ticks - 1
    <2>1. bound'.ticks \in Nat
        BY NextBound DEF BoundInv, SpendsNoTick
    <2> QED
        BY <1>1, <1>2, <2>1, ElapseKeepsInv
<1>3. CASE WatchStep /\ bound'.ticks = bound.ticks
    <2>1. CASE ~Up /\ Monitor!StartWatching
        BY <1>1, <1>3, <2>1, StartWatchingKeepsInv
    <2>2. CASE Monitor!Kill
        BY <1>3, <2>2, KillKeepsInv
    <2>3. ASSUME NEW w \in Monitor!Watchers, Monitor!ReadTotal(w) \/ Monitor!Watch(w) PROVE MonitorInv'
        BY <1>1, <1>3, <2>3, ReadTotalKeepsInv, ReadProcessKeepsInv, LoadTotalKeepsInv,
            LoadProcessKeepsInv, StoreTotalKeepsInv, StoreProcessKeepsInv DEF Monitor!Watch
    <2> QED
        BY <1>3, <2>1, <2>2, <2>3 DEF WatchStep
<1>4. CASE UNCHANGED monitorVars /\ bound'.ticks = bound.ticks
    <2>1. /\ UNCHANGED <<total, own, last_total_time_, last_process_time_, doing, sample, last_status_,
                         figure, samples, overlapped>>
          /\ bound'.ticks = bound.ticks
        BY <1>4 DEF monitorVars
    <2>2. MonitorTypes'
        BY <2>1 DEF MonitorTypes, MonitorInv
    <2>3. LastSample' = LastSample /\ \A s : Worth(s)' = Worth(s)
        BY <2>1 DEF LastSample, Worth
    <2>4. \A w \in Monitor!Watchers : Undisturbed(w)' = Undisturbed(w) /\ Active(w)' = Active(w)
        BY <2>1, <2>3 DEF Undisturbed, Active
    <2>5. FigureIsTrue'
        BY <2>1 DEF FigureIsTrue, Monitor!FigureIsTrue, MonitorInv
    <2> QED
        BY <1>1, <2>1, <2>2, <2>3, <2>4, <2>5 DEF MonitorInv
<1> QED
    BY <1>2, <1>3, <1>4, MonitorStep

-------------------------------------------------------------------------------
(* The installation *)

\* All of it.
DeploymentInv ==
    /\ BoundInv
    /\ SettingsInv
    /\ LoadInv
    /\ SaveRoundTrips
    /\ StoreInv
    /\ MonitorInv

\* The settings start as they should.
LEMMA InitSettings == Init => SettingsInv /\ LoadInv /\ SaveRoundTrips
<1> SUFFICES ASSUME Init PROVE SettingsInv /\ LoadInv /\ SaveRoundTrips
    OBVIOUS
<1>1. /\ config_file \in Documents \cup {Missing, Torn}
      /\ engine_config = Defaults /\ symbol_configs = Config!NoSymbols
      /\ stage = "down" /\ source = None /\ written = None /\ changed = FALSE
    BY DEF Init, Config!Init
<1>2. config_file \notin {Missing, Torn} => config_file # None /\ Readable(config_file)
    BY <1>1, DocumentsAreReadable
<1>3. stage \in Config!Stages /\ changed \in BOOLEAN /\ stage \notin {"up", "saving", "engine", "symbols"}
    BY <1>1 DEF Config!Stages
<1>4. SettingsInv
    BY <1>1, <1>2, <1>3, FiledSymbols, DefaultsAreKnown DEF SettingsInv
<1>5. LoadInv
    BY <1>3 DEF LoadInv, LoadAllOrNothing, Config!LoadAllOrNothing
<1>6. SaveRoundTrips
    BY <1>1 DEF SaveRoundTrips, Config!SaveRoundTrips
<1> QED
    BY <1>4, <1>5, <1>6

\* What holds of every history.
LEMMA DeploymentInvariant == Spec => []DeploymentInv
<1>1. Init => DeploymentInv
    BY InitBoundInv, InitSettings, InitStoreInv, InitMonitorInv DEF DeploymentInv
<1>2. DeploymentInv /\ [Next]_vars => DeploymentInv'
    <2> SUFFICES ASSUME DeploymentInv, [Next]_vars PROVE DeploymentInv'
        OBVIOUS
    <2>1. BoundInv /\ SettingsInv /\ LoadInv /\ SaveRoundTrips /\ StoreInv /\ MonitorInv
        BY DEF DeploymentInv
    <2>2. BoundInv'
        BY <2>1, NextBound DEF SpendsNoTick
    <2>3. [Config!Next]_configVars
        BY <2>1, SettingsStep
    <2>4. SettingsInv' /\ LoadInv' /\ SaveRoundTrips'
        BY <2>1, <2>3, NextSettingsInv, NextLoadInv, NextSaves
    <2>5. StoreInv'
        BY <2>1, StoreStep, NextStoreInv
    <2>6. MonitorInv'
        BY <2>1, NextMonitorInv DEF StoreInv
    <2> QED
        BY <2>2, <2>4, <2>5, <2>6 DEF DeploymentInv
<1> QED
    BY <1>1, <1>2, PTL DEF Spec

\* Through edits of the file, loads, saves, kills and snapshots, every setting in
\* memory is there and has its type (FromJson fills in what a document lacks, and
\* an exception takes the defaults), and so has all of the scheduler's state and
\* what get_system_usage keeps; its counters never run ahead of the kernel's.
THEOREM DeploymentTypes == Spec => []TypeOK
<1>1. DeploymentInv => TypeOK
    <2> SUFFICES ASSUME DeploymentInv PROVE TypeOK
        OBVIOUS
    <2>1. SettingsInv /\ StoreTypes /\ MonitorTypes
        BY DEF DeploymentInv, StoreInv, MonitorInv
    <2>2. Config!TypeOK
        <3>1. Config!WellFormed(engine_config, Defaults)
            BY <2>1, EngineConfigProperties DEF SettingsInv
        <3>2. ASSUME NEW s \in DOMAIN symbol_configs
              PROVE  Config!WellFormed(symbol_configs[s], SymbolDefaults) /\ symbol_configs[s]["symbol"] = s
            BY <2>1, KnownProperties DEF SettingsInv, Filed
        <3> QED
            BY <2>1, <3>1, <3>2 DEF SettingsInv, Config!TypeOK
    <2>3. Monitor!TypeOK
        <3>1. \A w \in Monitor!Watchers : \A field \in DOMAIN Monitor!NoSample : sample[w][field] \in Nat
            <4> SUFFICES ASSUME NEW w \in Monitor!Watchers
                         PROVE  \A field \in DOMAIN Monitor!NoSample : sample[w][field] \in Nat
                OBVIOUS
            <4>1. sample[w] \in Samples
                BY <2>1 DEF MonitorTypes
            <4> QED
                BY <4>1 DEF Samples, Monitor!NoSample
        <3>2. total \in Nat \ {0}
            BY <2>1 DEF MonitorTypes
        <3> QED
            BY <2>1, <3>1, <3>2 DEF MonitorTypes, Monitor!TypeOK
    <2> QED
        BY <2>1, <2>2, <2>3 DEF TypeOK, StoreTypes
<1> QED
    BY <1>1, DeploymentInvariant, PTL

\* load_config assigns the engine's part before it looks at the symbols, and any of
\* them may make from_json throw: whatever the document, the process is up with
\* all that it says or with all defaults.
THEOREM SettingsAreTakenWhole == Spec => []LoadAllOrNothing
<1>1. DeploymentInv => LoadAllOrNothing
    BY DEF DeploymentInv, LoadInv
<1> QED
    BY <1>1, DeploymentInvariant, PTL

\* What a completed save_config has left in the file is read back as it was, in
\* whatever order the symbols were written and whoever is killed in between.
THEOREM SavedSettingsComeBack == Spec => []SaveRoundTrips
<1>1. DeploymentInv => SaveRoundTrips
    BY DEF DeploymentInv
<1> QED
    BY <1>1, DeploymentInvariant, PTL

\* cleanup_old_snapshots, which subtracts from an unsigned clock, deletes no row
\* that save_snapshot has accepted within the retention period, on any database,
\* with the clock set forwards and back and processes killed at any point.
THEOREM SnapshotsAreKept == Spec => []KeptForRetention
<1>1. DeploymentInv => KeptForRetention
    BY DEF DeploymentInv, StoreInv
<1> QED
    BY <1>1, DeploymentInvariant, PTL

\* The rows of a symbol are in the order in which the book was read: bids before
\* asks, and both before the bids of the row with the next higher id.
THEOREM SnapshotsAreInOrder == Spec => []SnapshotsInOrder
<1>1. DeploymentInv => SnapshotsInOrder
    BY DEF DeploymentInv, StoreInv, OrderInv
<1> QED
    BY <1>1, DeploymentInvariant, PTL

\* ORDER BY timestamp DESC LIMIT 1 finds the row that was saved last, while the
\* scheduler sleeps between its rounds and the clock is not set back.
THEOREM LatestSnapshotIsNewest == Spec => []LatestIsNewest
<1>1. DeploymentInv => LatestIsNewest
    <2> SUFFICES ASSUME DeploymentInv, orderly, NEW p \in Paths, NEW s \in Symbols,
                        NEW r \in Store!LatestSnapshots(s, rows[p]), NEW q \in Store!Of(s, rows[p])
                 PROVE  q.id <= r.id
        BY DEF LatestIsNewest, Store!LatestIsNewest
    <2>1. /\ r \in rows[p] /\ q \in rows[p] /\ r.symbol = q.symbol /\ q.timestamp <= r.timestamp
        BY DEF Store!LatestSnapshots, Store!Of
    <2>2. r.id < q.id => r.timestamp < q.timestamp
        BY <2>1 DEF DeploymentInv, StoreInv, StampInv
    <2>3. r \in Store!Row /\ q \in Store!Row
        BY <2>1 DEF DeploymentInv, StoreInv, StoreTypes, Store!TypeOK
    <2>4. r.id \in Nat /\ q.id \in Nat /\ r.timestamp \in Nat /\ q.timestamp \in Nat
        BY <2>3, StoreFacts DEF Store!Row
    <2> QED
        BY <2>1, <2>2, <2>4
<1> QED
    BY <1>1, DeploymentInvariant, PTL

\* get_system_usage keeps the numbers of the last call in two static members that
\* it reads and writes without a lock: as long as no call begins during another,
\* every thread gets the load since the call before, and no difference of the
\* unsigned counters wraps around.
THEOREM LoadIsSinceTheCallBefore == Spec => []FigureIsTrue
<1>1. DeploymentInv => FigureIsTrue
    BY DEF DeploymentInv, MonitorInv
<1> QED
    BY <1>1, DeploymentInvariant, PTL
===============================================================================
