------------------------------ MODULE Deployment ------------------------------
(***************************************************************************)
(* A GoQuant installation over the lifetimes of its processes: the start-up  *)
(* of main.cpp, which loads the settings (module Settings) and opens the     *)
(* database they name (module Snapshots), the snapshots under way, the         *)
(* threads that watch the process (module Monitoring), operators that edit   *)
(* the file, and kills at any point.                                         *)
(***************************************************************************)
EXTENDS Integers, Sequences, FiniteSets

CONSTANTS
    Defaults, SymbolDefaults, DefaultSymbols, Documents, EngineConfigs, SymbolConfigs,
    Missing, Torn, NoObject, BadValue,
    Symbols, Retention, Word, Times, Faults, Remains, Sizes,
    EngineSymbols,  \* the symbols the constructor of the engine adds
    Bounds,         \* bounds on a history: one is chosen at the start
    None

VARIABLES
    config_file, config_json, engine_config, symbol_configs, stage, source, written, changed,
    rows, last_id, tables, now, books, traded, db_,
    at, interval, slept, left, symbol, bids, asks, taken, saved, latest, orderly,
    total, own, last_total_time_, last_process_time_, doing, sample, last_status_,
    figure, samples, overlapped,
    bound           \* how often each kind of event may still happen

Paths == {c["persistence_path"] : c \in EngineConfigs}
Intervals == {c["snapshot_interval_seconds"] : c \in EngineConfigs}

Config == INSTANCE Settings
Store == INSTANCE Snapshots
Monitor == INSTANCE Monitoring

configVars == <<config_file, config_json, engine_config, symbol_configs, stage,
                source, written, changed>>
storeVars == <<rows, last_id, tables, now, books, traded, db_, at, interval, slept, left,
               symbol, bids, asks, taken, saved, latest, orderly>>
monitorVars == <<total, own, last_total_time_, last_process_time_, doing, sample, last_status_,
                 figure, samples, overlapped>>
vars == <<configVars, storeVars, monitorVars, bound>>

\* The documents and clock of a history, and how many edits of the file, calls of
\* the setters and of save_config, changes of a book, rounds of the scheduler, kills,
\* ticks of the processor and calls of get_system_usage it may have.
\* The ticks of a history do not make a uint64_t overflow.
ASSUME DeploymentAssumption ==
    /\ Bounds \subseteq [files : SUBSET (Documents \cup {Missing, Torn}), clock : SUBSET Times,
                         edits : Nat, calls : Nat, changes : Nat, rounds : Nat, kills : Nat,
                         ticks : Nat, samples : Nat]
    /\ \A b \in Bounds : b.ticks + 1 < Word
    /\ Sizes \subseteq Nat
    /\ EngineSymbols \subseteq Symbols
    /\ \A c \in Config!KnownSymbolConfigs : c["symbol"] \in Symbols

ASSUME StoreAssumption == Store!SnapshotsAssumption
ASSUME ConfigAssumption == Config!SettingsAssumption

Spend(kind) == bound[kind] > 0 /\ bound' = [bound EXCEPT ![kind] = @ - 1]

Init ==
    /\ bound \in Bounds
    /\ Config!Init /\ config_file \in bound.files
    /\ Store!Init /\ now \in bound.clock
    /\ Monitor!Init

-------------------------------------------------------------------------------
(* main *)

\* main has come past load_config and the opening of the database.
Up == db_ # None

Load ==
    /\ \/ Config!LoadMissing \/ Config!LoadTorn \/ Config!LoadParsed
       \/ Config!LoadEngine \/ Config!LoadSymbol \/ Config!LoadFails \/ Config!LoadDone
    /\ UNCHANGED <<storeVars, monitorVars, bound>>

\* The database the settings name is opened; the constructor of the engine and
\* the loop over the settings make the books; the scheduler starts.
Start ==
    /\ stage = "up" /\ ~Up
    /\ Store!Initialize(engine_config["persistence_path"],
                        EngineSymbols \cup DOMAIN symbol_configs,
                        engine_config["snapshot_interval_seconds"],
                        engine_config["enable_persistence"])
    /\ Monitor!StartWatching
    /\ UNCHANGED <<configVars, bound>>

\* The scheduler asks for the symbols each time, under config_mutex_.
BeginRound ==
    /\ stage = "up"
    /\ Spend("rounds")
    /\ Store!StartRound(DOMAIN symbol_configs)
    /\ UNCHANGED <<configVars, monitorVars>>

Snapshot ==
    /\ \/ \E s \in Symbols : Store!ReadBids(s) \/ Store!SkipSymbol(s)
       \/ Store!ReadAsks \/ Store!SaveSnapshot \/ Store!SaveFails
       \/ Store!Report \/ Store!CleanUp \/ Store!CleanUpFails
    /\ UNCHANGED <<configVars, monitorVars, bound>>

Trade ==
    /\ Spend("changes")
    /\ \E s \in Symbols : Store!ChangeBook(s)
    /\ UNCHANGED <<configVars, monitorVars>>

BeginSample ==
    /\ Spend("samples")
    /\ \E w \in Monitor!Watchers : Monitor!ReadTotal(w)
    /\ UNCHANGED <<configVars, storeVars>>

Sample ==
    /\ \E w \in Monitor!Watchers : Monitor!Watch(w)
    /\ UNCHANGED <<configVars, storeVars, bound>>

-------------------------------------------------------------------------------
(* Around it *)

\* The public operations of ConfigManager, which main itself does not call.
Configure ==
    /\ Up
    /\ Spend("calls")
    /\ \/ Config!OpenToSave
       \/ \E config \in EngineConfigs : Config!SetEngineConfig(config)
       \/ \E config \in SymbolConfigs : Config!SetSymbolConfig(config)
    /\ UNCHANGED <<storeVars, monitorVars>>

FinishSave ==
    /\ Config!WriteSettings \/ Config!WriteFails
    /\ UNCHANGED <<storeVars, monitorVars, bound>>

Edit ==
    /\ Spend("edits")
    /\ \E content \in bound.files : Config!EditFile(content)
    /\ UNCHANGED <<storeVars, monitorVars>>

TimePasses ==
    /\ \/ now + 1 \in bound.clock /\ Store!Tick
       \/ \E t \in bound.clock : Store!SetClock(t)
    /\ UNCHANGED <<configVars, monitorVars, bound>>

ProcessorTicks ==
    /\ Spend("ticks")
    /\ Monitor!Elapse
    /\ UNCHANGED <<configVars, storeVars>>

\* A kill takes the settings down, and with them what has been started.
KillEarly ==
    /\ ~Up
    /\ Spend("kills")
    /\ Config!Crash
    /\ UNCHANGED <<storeVars, monitorVars>>

Killed ==
    /\ Spend("kills")
    /\ Config!Crash
    /\ Store!Kill
    /\ Monitor!Kill

Next ==
    \/ Load \/ Start \/ BeginRound \/ Snapshot \/ Trade \/ BeginSample \/ Sample
    \/ Configure \/ FinishSave \/ Edit \/ TimePasses \/ ProcessorTicks
    \/ KillEarly \/ Killed

Spec == Init /\ [][Next]_vars

-------------------------------------------------------------------------------
(* Correctness *)

TypeOK == Config!TypeOK /\ Store!TypeOK /\ Monitor!TypeOK

\* See Settings, Snapshots and Monitoring.
LoadAllOrNothing == Config!LoadAllOrNothing
SaveRoundTrips == Config!SaveRoundTrips
KeptForRetention == Store!KeptForRetention
SnapshotsInOrder == Store!SnapshotsInOrder
LatestIsNewest == Store!LatestIsNewest
FigureIsTrue == Monitor!FigureIsTrue
SavedAsReported == Store!SavedAsReported
===============================================================================
