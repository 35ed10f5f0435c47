------------------------------- MODULE MCServer -------------------------------
(***************************************************************************)
(* Model values for the process: one symbol, which the feed visits.         *)
(***************************************************************************)
EXTENDS Server

CONSTANT btc

OneFeedSymbol == <<btc>>

\* Two trades, while snapshots are taken, and no signal; or a signal at any
\* point, while orders find nothing to match.
TradesOrSignal ==
    {[trades |-> 2, signals |-> 0, persistence |-> TRUE],
     [trades |-> 0, signals |-> 1, persistence |-> FALSE]}

\* At most one signal, while orders find nothing to match.
OneSignal == {[trades |-> 0, signals |-> 1, persistence |-> FALSE]}
===============================================================================
