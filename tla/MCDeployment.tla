----------------------------- MODULE MCDeployment -----------------------------
(***************************************************************************)
(* Model values for an installation: settings with the three fields the      *)
(* start-up looks at, symbols with one field beside their name.               *)
(***************************************************************************)
EXTENDS Deployment

CONSTANTS btc, eth, data, other

Engine(path, seconds, enabled) ==
    [f \in {"persistence_path", "snapshot_interval_seconds", "enable_persistence"} |->
        CASE f = "persistence_path" -> path
          [] f = "snapshot_interval_seconds" -> seconds
          [] OTHER -> enabled]

Symbol(name, tick) == [f \in {"symbol", "price_tick"} |-> IF f = "symbol" THEN name ELSE tick]

TheDefaults == Engine(data, 1, TRUE)
TheSymbolDefaults == Symbol("", 1)
TheDefaultSymbols == [s \in {btc} |-> Symbol(s, 1)]

TheEngineConfigs == {TheDefaults, Engine(other, 1, TRUE), Engine(data, 0, TRUE), Engine(data, 1, FALSE)}
TheSymbolConfigs == {Symbol(btc, 2), Symbol(eth, 1)}

Only(f, v) == [x \in {f} |-> v]
Document(engine, symbols) == [engine |-> engine, symbols |-> symbols]

\* Documents of a working installation: another database, no sleep, a symbol.
Elsewhere == Document(Only("persistence_path", other), <<Symbol(btc, 1)>>)
Sleepless == Document(Only("snapshot_interval_seconds", 0), <<Symbol(btc, 1)>>)
Plain == Document(TheDefaults, <<Symbol(btc, 1)>>)
Both == Document(TheDefaults, <<Symbol(btc, 1), Symbol(eth, 1)>>)

\* Documents that are strange: parts missing or of the wrong type, at every
\* place, a symbol twice, a symbol without a name, a key nobody knows.
Parts == {NoObject, Only("enable_persistence", BadValue), Only("comment", BadValue),
          Only("persistence_path", other)}
Lists == {<<>>, <<Symbol(eth, 2), Only("price_tick", BadValue)>>, <<NoObject>>,
          <<Symbol(btc, 2), Symbol(eth, 2), Symbol(btc, 1)>>, <<Only("price_tick", 2)>>}
Strange == {Document(engine, list) : engine \in Parts, list \in Lists}

TheDocuments == Strange \cup {Elsewhere, Sleepless, Plain, Both}
TheSymbols == {btc, eth, ""}

NoEvents == [files |-> {}, clock |-> {3}, edits |-> 0, calls |-> 0, changes |-> 0,
             rounds |-> 0, kills |-> 0, ticks |-> 0, samples |-> 0]

\* The settings on their own: any document, edited and saved.  Snapshots on two
\* databases; three rounds; both with a kill and a clock that is set.  Rounds
\* without a sleep.  Two symbols.  A symbol that is configured while the process
\* runs.  The load of the processor, sampled twice.
TheBounds ==
    {[NoEvents EXCEPT !.files = TheDocuments \cup {Missing, Torn},
                      !.edits = 1, !.calls = 2, !.kills = 1],
     [NoEvents EXCEPT !.files = {Plain, Elsewhere}, !.clock = 0 .. 4,
                      !.edits = 1, !.rounds = 2, !.kills = 1],
     [NoEvents EXCEPT !.files = {Plain}, !.clock = 0 .. 4, !.rounds = 3, !.kills = 1],
     [NoEvents EXCEPT !.files = {Sleepless}, !.clock = {2, 3, 4}, !.changes = 2, !.rounds = 3],
     [NoEvents EXCEPT !.files = {Both}, !.clock = {3, 4}, !.changes = 2, !.rounds = 2],
     [NoEvents EXCEPT !.files = {Plain}, !.clock = {3, 4}, !.changes = 1, !.calls = 1, !.rounds = 2],
     [NoEvents EXCEPT !.files = {Plain}, !.ticks = 2, !.samples = 2]}

\* One snapshot when nothing goes wrong.
OneRound == {[NoEvents EXCEPT !.files = {Plain}, !.clock = {3, 4}, !.changes = 1, !.rounds = 1]}
===============================================================================
