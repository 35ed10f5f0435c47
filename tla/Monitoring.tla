------------------------------ MODULE Monitoring ------------------------------
(***************************************************************************)
(* The threads that watch the process: run_performance_monitor of main.cpp,   *)
(* run_health_check of src/monitoring/health_check.cpp, and main itself, once *)
(* at the start.  They call SystemInfo::get_system_usage, which takes no lock *)
(* and works out the load since the last call from two static members.        *)
(*                                                                         *)
(* The kernel counts in ticks: all of them, and those of this process.  The   *)
(* load is kept as the two differences it is the quotient of.                *)
(***************************************************************************)
EXTENDS Integers, Sequences

CONSTANTS
    Word,       \* the number of values of a uint64_t
    Sizes,      \* resident sizes of the process, in KB; 0 if /proc does not tell
    None        \* no figure: cpu_percent is 0.0

VARIABLES
    total,              \* the ticks /proc/stat counts
    own,                \* the ticks /proc/self/stat counts
    last_total_time_,
    last_process_time_,
    doing,              \* where each thread stands in get_system_usage
    sample,             \* its local variables
    last_status_,       \* last_status_.message of the health checker
    figure,             \* history: the load each thread worked out last
    samples,            \* history: the two numbers of each call, in the order of returns
    overlapped          \* history: a call began while another thread was in one

vars == <<total, own, last_total_time_, last_process_time_, doing, sample, last_status_,
          figure, samples, overlapped>>

Watchers == {"main", "performance", "health"}

Messages == {"", "High memory usage", "High CPU usage", "All systems operational"}

NoSample == [memory |-> 0, total |-> 0, process |-> 0, last_total |-> 0, last_process |-> 0]

Reset ==
    /\ own' = 0
    /\ last_total_time_' = 0 /\ last_process_time_' = 0
    /\ sample' = [w \in Watchers |-> NoSample]
    /\ last_status_' = ""
    /\ figure' = [w \in Watchers |-> None]
    /\ samples' = <<>>
    /\ overlapped' = FALSE

Init ==
    /\ total = 1 /\ own = 0
    /\ last_total_time_ = 0 /\ last_process_time_ = 0
    /\ doing = [w \in Watchers |-> "off"]
    /\ sample = [w \in Watchers |-> NoSample]
    /\ last_status_ = ""
    /\ figure = [w \in Watchers |-> None]
    /\ samples = <<>>
    /\ overlapped = FALSE

\* A tick, of this process or of another one.
Elapse ==
    /\ total' = total + 1
    /\ own' \in {own, own + 1}
    /\ UNCHANGED <<last_total_time_, last_process_time_, doing, sample, last_status_,
                   figure, samples, overlapped>>

\* main starts the threads; the end of the process ends them.
StartWatching ==
    /\ doing' = [w \in Watchers |-> "asleep"]
    /\ UNCHANGED <<total, own, last_total_time_, last_process_time_, sample, last_status_,
                   figure, samples, overlapped>>

Kill ==
    /\ doing' = [w \in Watchers |-> "off"]
    /\ Reset
    /\ UNCHANGED total

-------------------------------------------------------------------------------
(* get_system_usage *)

\* One step of a thread, which changes its local variables.
Advance(w, from, to, locals) ==
    /\ doing[w] = from
    /\ doing' = [doing EXCEPT ![w] = to]
    /\ sample' = [sample EXCEPT ![w] = locals]

\* get_process_memory_usage, and the first line of /proc/stat.
ReadTotal(w) ==
    /\ \E memory \in Sizes :
        Advance(w, "asleep", "stat", [NoSample EXCEPT !.memory = memory, !.total = total])
    /\ overlapped' = (overlapped \/ \E v \in Watchers : doing[v] \notin {"off", "asleep"})
    /\ UNCHANGED <<total, own, last_total_time_, last_process_time_, last_status_, figure, samples>>

\* /proc/self/stat.
ReadProcess(w) ==
    /\ Advance(w, "stat", "total_diff", [sample[w] EXCEPT !.process = own])
    /\ UNCHANGED <<total, own, last_total_time_, last_process_time_, last_status_, figure,
                   samples, overlapped>>

LoadTotal(w) ==
    /\ Advance(w, "total_diff", "process_diff", [sample[w] EXCEPT !.last_total = last_total_time_])
    /\ UNCHANGED <<total, own, last_total_time_, last_process_time_, last_status_, figure,
                   samples, overlapped>>

\* (Mutant: the times since the start, and not since the last call.)
LoadSinceStart(s) ==
    IF s.last_total > 0 /\ s.last_process > 0 /\ s.total # s.last_total
    THEN [process |-> s.process, total |-> s.total] ELSE None

\* cpu_percent, as the two differences of unsigned numbers.
Load(s) ==
    LET total_diff == (s.total - s.last_total) % Word
    IN  IF s.last_total > 0 /\ s.last_process > 0 /\ total_diff > 0
        THEN [process |-> (s.process - s.last_process) % Word, total |-> total_diff] ELSE None

LoadProcess(w) ==
    /\ Advance(w, "process_diff", "store", [sample[w] EXCEPT !.last_process = last_process_time_])
    /\ figure' = [figure EXCEPT ![w] = Load(sample'[w])]
    /\ UNCHANGED <<total, own, last_total_time_, last_process_time_, last_status_,
                   samples, overlapped>>

StoreTotal(w) ==
    /\ Advance(w, "store", "return", sample[w])
    /\ last_total_time_' = sample[w].total
    /\ UNCHANGED <<total, own, last_process_time_, last_status_, figure, samples, overlapped>>

-------------------------------------------------------------------------------
(* What becomes of it *)

\* Bytes, divided by 1024 once only.
MemoryUsageMb(s) == (s.memory * 1024) \div 1024

\* perform_health_check.
StatusOf(s) ==
    CASE MemoryUsageMb(s) > 1024 -> "High memory usage"
      [] MemoryUsageMb(s) <= 1024 /\ Load(s) # None /\ 100 * Load(s).process > 90 * Load(s).total
            -> "High CPU usage"
      [] OTHER -> "All systems operational"

\* get_system_usage returns.  main does not call it again.
StoreProcess(w) ==
    /\ Advance(w, "return", IF w = "main" THEN "off" ELSE "asleep", NoSample)
    /\ last_process_time_' = sample[w].process
    /\ last_status_' = IF w = "health" THEN StatusOf(sample[w]) ELSE last_status_
    /\ samples' = Append(samples, [by |-> w, total |-> sample[w].total, process |-> sample[w].process])
    /\ UNCHANGED <<total, own, last_total_time_, figure, overlapped>>

Watch(w) ==
    \/ ReadProcess(w) \/ LoadTotal(w) \/ LoadProcess(w) \/ StoreTotal(w) \/ StoreProcess(w)

-------------------------------------------------------------------------------
(* Correctness *)

TypeOK ==
    /\ total \in Nat \ {0} /\ own \in Nat
    /\ last_total_time_ \in 0 .. total /\ last_process_time_ \in 0 .. own
    /\ doing \in [Watchers -> {"off", "asleep", "stat", "total_diff", "process_diff", "store", "return"}]
    /\ \A w \in Watchers : \A field \in DOMAIN NoSample : sample[w][field] \in Nat
    /\ last_status_ \in Messages
    /\ overlapped \in BOOLEAN

\* The load since the call before, of the two numbers a call has read; there is
\* none if that was the first, if it came too early in the life of the process,
\* or if the clock stood still.
LoadSince(before, s) ==
    IF before.process > 0 /\ s.total > before.total
    THEN [process |-> s.process - before.process, total |-> s.total - before.total] ELSE None

\* As long as the calls of the threads do not overlap, the load a thread worked
\* out is that of the time since the call before, whichever thread made that one.
\* (When they overlap, the differences may be negative, which is to say huge.)
FigureIsTrue ==
    ~overlapped =>
        \A i \in DOMAIN samples :
            LET w == samples[i].by
            IN  (doing[w] \in {"off", "asleep", "stat", "total_diff", "process_diff"}
                    /\ \A j \in DOMAIN samples : samples[j].by = w => j <= i) =>
                figure[w] = IF i = 1 THEN None ELSE LoadSince(samples[i - 1], samples[i])
===============================================================================
