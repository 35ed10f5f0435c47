------------------------------- MODULE Settings -------------------------------
(***************************************************************************)
(* The settings in memory and in their file: class ConfigManager of         *)
(* include/config/config_manager.hpp and src/config/config_manager.cpp.     *)
(*                                                                         *)
(* Every operation holds config_mutex_.  load_config is a step per part it   *)
(* assigns and save_config two steps, opening the file (which empties it)    *)
(* and writing it, because an exception or a crash may come between them.    *)
(* A JSON object is a function from the keys it has to their values.         *)
(***************************************************************************)
EXTENDS Integers, Sequences, FiniteSets

CONSTANTS
    Defaults,       \* EngineConfig(): field -> value
    SymbolDefaults, \* SymbolConfig(): field -> value, one of them "symbol"
    DefaultSymbols, \* init_default_symbols: symbol -> SymbolConfig
    Documents,      \* the JSON documents an operator may put into the file
    EngineConfigs,  \* what set_engine_config and set_symbol_config are called with
    SymbolConfigs,
    Missing,        \* there is no file
    Torn,           \* the file is not a JSON document: empty, cut off, mistyped
    NoObject,       \* a JSON value that is not an object, null included
    BadValue,       \* a value of the wrong type for its field
    None            \* no document in hand, no completed save

VARIABLES
    config_file,    \* what is on disk
    config_json,    \* the document load_config has parsed, or None
    engine_config,  \* engine_config_
    symbol_configs, \* symbol_configs_: symbol -> SymbolConfig
    stage,          \* what the process does with its settings
    source,         \* history: the document load_config found, or None if it found none
    written,        \* history: the settings a completed save left in the file, or None
    changed         \* history: a setter was called since load_config returned

vars == <<config_file, config_json, engine_config, symbol_configs, stage,
          source, written, changed>>

\* "down": no process; "engine", "symbols": in load_config, before that part;
\* "stuck": in the save_config that load_config calls; "up": free; "saving": in
\* save_config, the file open and empty.
Stages == {"down", "engine", "symbols", "stuck", "up", "saving"}

-------------------------------------------------------------------------------
(* Conversions *)

\* from_json throws for a value that is no object and for one of the wrong type.
Throws(defaults, j) ==
    j # NoObject => \E f \in DOMAIN defaults \cap DOMAIN j : j[f] = BadValue

\* j.value(f, default), field by field; keys it does not know are skipped.
FromJson(defaults, j) ==
    [f \in DOMAIN defaults |-> IF f \in DOMAIN j THEN j[f] ELSE defaults[f]]

\* The entries in the order of the hash table, which is none.
InSomeOrder(entries) ==
    CHOOSE list \in [1 .. Cardinality(entries) -> entries] :
        \A e \in entries : \E i \in DOMAIN list : list[i] = e

\* (Mutant: to_json of a symbol writes its name only.)
ToJsonOfNames(engine, symbols) ==
    [engine |-> engine,
     symbols |-> InSomeOrder({[f \in {"symbol"} |-> s] : s \in DOMAIN symbols})]

\* What save_config writes: every field of every part.
ToJson(engine, symbols) ==
    [engine |-> engine, symbols |-> InSomeOrder({symbols[s] : s \in DOMAIN symbols})]

\* What a document says, all of it: of two entries for a symbol the later one counts.
Entries(document) ==
    [i \in DOMAIN document.symbols |-> FromJson(SymbolDefaults, document.symbols[i])]

Named(entries, s) == {i \in DOMAIN entries : entries[i]["symbol"] = s}

SettingsIn(document) ==
    LET entries == Entries(document)
    IN  [engine |-> FromJson(Defaults, document.engine),
         symbols |-> [s \in {entries[i]["symbol"] : i \in DOMAIN entries} |->
                        entries[CHOOSE i \in Named(entries, s) :
                                    \A j \in Named(entries, s) : j <= i]]]

DefaultSettings == [engine |-> Defaults, symbols |-> DefaultSymbols]

InMemory == [engine |-> engine_config, symbols |-> symbol_configs]

\* The settings of symbols that can come up: the defaults, what the setter is
\* called with, and what is in a document.
KnownSymbolConfigs ==
    SymbolConfigs \cup {DefaultSymbols[s] : s \in DOMAIN DefaultSymbols}
        \cup UNION {{FromJson(SymbolDefaults, d.symbols[i]) :
                        i \in {j \in DOMAIN d.symbols : ~Throws(SymbolDefaults, d.symbols[j])}} :
                    d \in Documents}

\* A complete configuration, without a value of the wrong type.
WellFormed(config, defaults) ==
    /\ DOMAIN config = DOMAIN defaults
    /\ \A f \in DOMAIN config : config[f] # BadValue

\* What the constants have to be: EngineConfigs has whatever the engine can be
\* configured with, and a document is one.  (Whoever uses this module assumes it.)
SettingsAssumption ==
    /\ Defaults \in EngineConfigs
    /\ \A c \in EngineConfigs :
        WellFormed(c, Defaults) /\ c # NoObject /\ c = [f \in DOMAIN c |-> c[f]]
    /\ "symbol" \in DOMAIN SymbolDefaults
    /\ \A c \in SymbolConfigs \cup {SymbolDefaults} \cup {DefaultSymbols[s] : s \in DOMAIN DefaultSymbols} :
        WellFormed(c, SymbolDefaults) /\ c = [f \in DOMAIN c |-> c[f]]
    /\ NoObject \notin KnownSymbolConfigs
    /\ IsFiniteSet(DOMAIN DefaultSymbols)
    /\ \A s \in DOMAIN DefaultSymbols : DefaultSymbols[s]["symbol"] = s
    /\ DefaultSymbols = [s \in DOMAIN DefaultSymbols |-> DefaultSymbols[s]]
    /\ \A d \in Documents :
        /\ d = [engine |-> d.engine, symbols |-> d.symbols]
        /\ d.symbols \in Seq({d.symbols[i] : i \in DOMAIN d.symbols})
        /\ ~Throws(Defaults, d.engine) => FromJson(Defaults, d.engine) \in EngineConfigs
    /\ \A m \in {Missing, Torn, None} :
        m \notin Documents \cup [engine : EngineConfigs, symbols : Seq(KnownSymbolConfigs)]

NoSymbols == [s \in {} |-> SymbolDefaults]

-------------------------------------------------------------------------------
(* The file *)

Init ==
    /\ config_file \in Documents \cup {Missing, Torn}
    /\ config_json = None
    /\ engine_config = Defaults
    /\ symbol_configs = NoSymbols
    /\ stage = "down"
    /\ source = None
    /\ written = None
    /\ changed = FALSE

\* An operator replaces the file or removes it.
EditFile(content) ==
    /\ config_file' = content
    /\ written' = None
    /\ UNCHANGED <<config_json, engine_config, symbol_configs, stage, source, changed>>

-------------------------------------------------------------------------------
(* load_config *)

\* (Mutant: the settings of the engine stay as they are.)
ResetSymbolsOnly == UNCHANGED engine_config /\ symbol_configs' = DefaultSymbols

\* init_default_config.
ResetToDefaults == engine_config' = Defaults /\ symbol_configs' = DefaultSymbols

\* Without a file the defaults are taken and saved, under the mutex that is
\* held already.
LoadMissing ==
    /\ stage = "down" /\ config_file = Missing
    /\ ResetToDefaults
    /\ stage' = "stuck"
    /\ source' = None
    /\ UNCHANGED <<config_file, config_json, written, changed>>

LoadTorn ==
    /\ stage = "down" /\ config_file = Torn
    /\ ResetToDefaults
    /\ stage' = "up"
    /\ source' = None
    /\ UNCHANGED <<config_file, config_json, written, changed>>

LoadParsed ==
    /\ stage = "down" /\ config_file \notin {Missing, Torn}
    /\ config_json' = config_file
    /\ source' = config_file
    /\ stage' = "engine"
    /\ UNCHANGED <<config_file, engine_config, symbol_configs, written, changed>>

LoadEngine ==
    /\ stage = "engine"
    /\ ~Throws(Defaults, config_json.engine)
    /\ engine_config' = FromJson(Defaults, config_json.engine)
    /\ symbol_configs' = NoSymbols
    /\ stage' = "symbols"
    /\ UNCHANGED <<config_file, config_json, source, written, changed>>

\* (Mutant: the key is read before the entry is.)
WithEntryUnnamed(symbols, entry) ==
    [s \in DOMAIN symbols \cup {SymbolDefaults["symbol"]} |->
        IF s = SymbolDefaults["symbol"] THEN entry ELSE symbols[s]]

\* symbol_configs_[config.symbol] = config.
WithEntry(symbols, entry) ==
    [s \in DOMAIN symbols \cup {entry["symbol"]} |->
        IF s = entry["symbol"] THEN entry ELSE symbols[s]]

\* One round of the loop over the symbols; the rest of them stays in hand.
LoadSymbol ==
    /\ stage = "symbols" /\ config_json.symbols # <<>>
    /\ ~Throws(SymbolDefaults, Head(config_json.symbols))
    /\ symbol_configs' =
            WithEntry(symbol_configs, FromJson(SymbolDefaults, Head(config_json.symbols)))
    /\ config_json' = [config_json EXCEPT !.symbols = Tail(@)]
    /\ UNCHANGED <<config_file, engine_config, stage, source, written, changed>>

\* What load_config reads next makes from_json throw.
ThrowsNext ==
    \/ stage = "engine" /\ Throws(Defaults, config_json.engine)
    \/ /\ stage = "symbols" /\ config_json.symbols # <<>>
       /\ Throws(SymbolDefaults, Head(config_json.symbols))

\* The exception handler.
LoadFails ==
    /\ ThrowsNext
    /\ ResetToDefaults
    /\ config_json' = None
    /\ stage' = "up"
    /\ UNCHANGED <<config_file, source, written, changed>>

LoadDone ==
    /\ stage = "symbols" /\ config_json.symbols = <<>>
    /\ config_json' = None
    /\ stage' = "up"
    /\ UNCHANGED <<config_file, engine_config, symbol_configs, source, written, changed>>

-------------------------------------------------------------------------------
(* save_config and the setters *)

\* The file is opened and thereby emptied.  A directory that cannot be made is
\* an exception, a file that cannot be opened goes unnoticed: neither changes
\* anything.
OpenToSave ==
    /\ stage = "up"
    /\ stage' = "saving"
    /\ config_file' = Torn
    /\ written' = None
    /\ UNCHANGED <<config_json, engine_config, symbol_configs, source, changed>>

WriteSettings ==
    /\ stage = "saving"
    /\ stage' = "up"
    /\ config_file' = ToJson(engine_config, symbol_configs)
    /\ written' = InMemory
    /\ UNCHANGED <<config_json, engine_config, symbol_configs, source, changed>>

\* The disk is full: nobody looks at the state of the stream, and save_config
\* returns true.
WriteFails ==
    /\ stage = "saving"
    /\ stage' = "up"
    /\ UNCHANGED <<config_file, config_json, engine_config, symbol_configs,
                   source, written, changed>>

SetEngineConfig(config) ==
    /\ stage = "up"
    /\ engine_config' = config
    /\ changed' = TRUE
    /\ UNCHANGED <<config_file, config_json, symbol_configs, stage, source, written>>

SetSymbolConfig(config) ==
    /\ stage = "up"
    /\ symbol_configs' = WithEntry(symbol_configs, config)
    /\ changed' = TRUE
    /\ UNCHANGED <<config_file, config_json, engine_config, stage, source, written>>

\* The process is killed, at any point; the next one starts with the members
\* as they are constructed.
Crash ==
    /\ stage # "down"
    /\ stage' = "down"
    /\ config_json' = None
    /\ engine_config' = Defaults
    /\ symbol_configs' = NoSymbols
    /\ changed' = FALSE
    /\ UNCHANGED <<config_file, source, written>>

-------------------------------------------------------------------------------
(* Specification *)

Next ==
    \/ \E content \in Documents \cup {Missing, Torn} : EditFile(content)
    \/ LoadMissing \/ LoadTorn \/ LoadParsed
    \/ LoadEngine \/ LoadSymbol \/ LoadFails \/ LoadDone
    \/ OpenToSave \/ WriteSettings \/ WriteFails
    \/ \E config \in EngineConfigs : SetEngineConfig(config)
    \/ \E config \in SymbolConfigs : SetSymbolConfig(config)
    \/ Crash

Spec == Init /\ [][Next]_vars

-------------------------------------------------------------------------------
(* Correctness *)

\* Every setting in memory is there and has its type, and a symbol's are filed
\* under its name.
TypeOK ==
    /\ stage \in Stages
    /\ changed \in BOOLEAN
    /\ WellFormed(engine_config, Defaults)
    /\ \A s \in DOMAIN symbol_configs :
        /\ WellFormed(symbol_configs[s], SymbolDefaults)
        /\ symbol_configs[s]["symbol"] = s

\* Something in a document makes from_json throw.
Faulty(document) ==
    \/ Throws(Defaults, document.engine)
    \/ \E i \in DOMAIN document.symbols : Throws(SymbolDefaults, document.symbols[i])

\* Settings are taken as a whole: once load_config has returned they are all
\* that the document says, or all defaults if there is anything wrong with it,
\* though the engine's part is assigned before the symbols are looked at.
LoadAllOrNothing ==
    (stage \in {"up", "saving"} /\ ~changed) =>
        InMemory = IF source = None \/ Faulty(source) THEN DefaultSettings
                   ELSE SettingsIn(source)

\* What a completed save_config has written, load_config takes back unchanged,
\* in this process or, after a crash, in the next one.
SaveRoundTrips ==
    written # None =>
        /\ config_file \notin {Missing, Torn}
        /\ ~Faulty(config_file)
        /\ SettingsIn(config_file) = written
===============================================================================
