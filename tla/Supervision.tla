---------------------------- MODULE Supervision ----------------------------
(* The supervision of the shard processes of one venue by the daemon:
   orchestration/supervisor.py (restarts, circuit breaker, one alert per open
   episode), orchestration/shard_watchdog.py (which silent shard is restarted)
   and what the daemon does with their answers in each cycle.

   A tick is one cycle of the daemon.  Times are ages in ticks; an age that no
   longer matters is dropped.  One day is modelled. *)
EXTENDS Integers, Sequences, SequencesExt, FiniteSets, FiniteSetsExt

CONSTANTS Kids,                     \* the shards of the venue
          MaxRestarts, Window,      \* RestartCircuitBreaker
          ProbeBase, ProbeMax,
          Limit, MaxStale           \* ShardWatchdog: limit_s, max_restarts_per_day

ASSUME SupervisionAssumption ==
    /\ IsFiniteSet(Kids) /\ {MaxRestarts, Window, ProbeBase, ProbeMax, Limit} \subseteq Nat \ {0}
    /\ MaxStale \in Nat /\ ProbeMax >= ProbeBase

VARIABLES sup,       \* the ProcessSupervisor of each shard, with its breaker
          silent,    \* the age of the newest journal file or start of each shard, up to Limit + 1
          stale,     \* the restarts of the day that the watchdog asked for
          due        \* what is left of the cycle: the shards to supervise, then the watchdog

supVars == <<sup, silent, stale, due>>

SupInit ==
    /\ sup = [k \in Kids |-> [proc |-> "never", stamps |-> <<>>, armed |-> FALSE, alerted |-> FALSE, pages |-> 0]]
    /\ silent = [k \in Kids |-> 0] /\ stale = [k \in Kids |-> 0] /\ due = Kids

\* The breaker, over the ages of the restarts in its window.
is_open(k) == Len(sup[k].stamps) >= MaxRestarts
NoSpacing(k) == 0
ProbeSpacing(k) == LET beyond == Len(sup[k].stamps) - MaxRestarts
                   IN IF beyond >= 0 THEN Min({ProbeMax, ProbeBase * 2^beyond}) ELSE 0
allow_probe(k) == is_open(k) /\ Min(ToSet(sup[k].stamps)) >= ProbeSpacing(k)

\* ensure_running, and the alert the caller takes when the circuit is open.
Relaunched(k) == [sup[k] EXCEPT !.proc = "up", !.armed = FALSE,
                                !.stamps = IF sup[k].proc = "never" THEN @ ELSE Append(@, 0),
                                !.alerted = @ /\ is_open(k), !.pages = IF is_open(k) THEN @ ELSE 0]
take_circuit_alert(k) == [sup[k] EXCEPT !.alerted = TRUE, !.pages = IF sup[k].alerted THEN @ ELSE @ + 1]
EnsureRunning(k) ==
    /\ k \in due /\ due' = due \ {k}
    /\ \/ /\ sup[k].proc = "up"
          /\ sup' = [sup EXCEPT ![k].alerted = @ /\ is_open(k), ![k].pages = IF is_open(k) THEN @ ELSE 0]
          /\ UNCHANGED silent
       \/ /\ sup[k].proc = "never" \/ (sup[k].proc = "dead" /\ (~is_open(k) \/ allow_probe(k)))
          /\ sup' = [sup EXCEPT ![k] = Relaunched(k)] /\ silent' = [silent EXCEPT ![k] = 0]
       \/ /\ sup[k].proc = "dead" /\ is_open(k) /\ ~allow_probe(k)
          /\ sup' = [sup EXCEPT ![k] = take_circuit_alert(k)] /\ UNCHANGED silent
    /\ UNCHANGED stale

\* ShardWatchdog.evaluate over the running shards, and _apply_shard_decisions: one stop a cycle.
Running == {k \in Kids : sup[k].proc = "up"}
StaleKeys == {k \in Running : silent[k] > Limit}
VenueWide == Cardinality(Running) >= 2 /\ StaleKeys = Running
Restartable == IF VenueWide THEN {} ELSE {k \in StaleKeys : stale[k] < MaxStale}
Watch ==
    /\ due = {} /\ due' = {"env"}
    /\ IF Restartable = {} THEN UNCHANGED <<sup, stale>>
       ELSE \E k \in Restartable :
              /\ sup' = [sup EXCEPT ![k].proc = "dead", ![k].armed = TRUE]
              /\ stale' = [stale EXCEPT ![k] = @ + 1]
    /\ UNCHANGED silent

\* The restarts of the breaker's window, one tick later.
_prune(k) == SelectSeq([i \in DOMAIN sup[k].stamps |-> sup[k].stamps[i] + 1], LAMBDA a : a < Window)

\* Until the next cycle a shard may die or write a frame, and time passes.
Pass ==
    /\ due = {"env"} /\ due' = Kids
    /\ \E dead \in SUBSET Running, heard \in SUBSET Running :
         /\ silent' = [k \in Kids |-> IF k \in heard THEN 0 ELSE Min({silent[k] + 1, Limit + 1})]
         /\ sup' = [k \in Kids |->
              [sup[k] EXCEPT !.proc = IF k \in dead THEN "dead" ELSE @,
                             !.stamps = _prune(k)]]
    /\ UNCHANGED stale

SupNext == (\E k \in Kids : EnsureRunning(k)) \/ Watch \/ Pass
SupSpec == SupInit /\ [][SupNext]_supVars

-----------------------------------------------------------------------------
\* Supervisors and watchdog counts have their types.
SupTypeOK ==
    /\ \A k \in Kids : sup[k].proc \in {"never", "up", "dead"} /\ silent[k] \in 0..Limit + 1 /\ stale[k] \in 0..MaxStale
    /\ due \subseteq Kids \cup {"env"}

\* A shard that dies again and again is restarted at most MaxRestarts times and then, in the rest
\* of the window, at most once per probe interval: the breaker's doubling intervals and the sliding
\* window never let the rate climb again.
RestartRate == \A k \in Kids : Len(sup[k].stamps) <= MaxRestarts + 1 + (Window \div ProbeMax)

\* The operator is paged at most once in an episode of an open circuit, whatever probes do meanwhile.
OnePagePerEpisode == \A k \in Kids : sup[k].pages <= 1

\* A shard that cannot run costs a bounded number of restarts, and one page (RestartSupervisor).
FailuresContained == SupTypeOK /\ RestartRate /\ OnePagePerEpisode

=============================================================================
