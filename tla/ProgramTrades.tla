---------------------------- MODULE ProgramTrades ----------------------------
(* The nightly program-trade sync: sync_program_trades_forward                      *)
(* (src/marketdata/program_trade_service.py), its gap check                         *)
(* (src/marketdata/toss_program_trades.py), the month-partitioned store             *)
(* (src/marketdata/partitioned_store.py) and the exit code of                       *)
(* src/cli/toss_program_trades_sync.py.                                             *)
(*                                                                                  *)
(* A row is a pair <<stock, day>>; volumes are left out.  Every day of the model is *)
(* a business day on which every stock trades.  A fetch returns the vendor's rows   *)
(* from a floor on; its paging, its token (SharedToken) and its pacing (Pacing)     *)
(* are left out.  One process writes the store.                                     *)
EXTENDS Integers, FiniteSetsExt

CONSTANTS Stocks, Active,        \* Active: listed in the market map
          FirstDay, LastDay,     \* syncs run on FirstDay..LastDay; history begins at day 1
          MonthDays,             \* days per month file
          Lookback,              \* auto_backfill_lookback_days
          GapWindow,             \* gap_check_business_days
          StalePct, EmptyPct,    \* max_stale_ratio, gap_vendor_empty_max_day_ratio
          MaxSetbacks

VARIABLES store,     \* rows on disk
          today,     \* session_date
          sync,      \* the child of today
          exit,      \* its exit code, or NoExit
          torn,      \* history: stocks whose write was cut between two months
          withheld,  \* history: rows the vendor did not return when asked for
          setbacks

progVars == <<store, today, sync, exit, torn, withheld, setbacks>>

NoExit   == -1
AllDays  == 1..LastDay
Month(d) == (d - 1) \div MonthDays
Setback(b) == IF b THEN setbacks < MaxSetbacks /\ setbacks' = setbacks + 1 ELSE UNCHANGED setbacks

DaysOf(rows, s) == {r[2] : r \in {q \in rows : q[1] = s}}
Tracked(rows)   == {r[1] : r \in rows}

------------------------------------------------------------------------------
(* Reading the store *)

symbols_needing_backfill(rows, wanted, floor) ==
    {s \in wanted : DaysOf(rows, s) = {} \/ Min(DaysOf(rows, s)) > floor}

\* complete_through is the business day before session_date.
complete_through == today - 1
WindowDays == {d \in AllDays : complete_through - GapWindow < d /\ d <= complete_through}

\* Traded days of the window from each symbol's first stored date on that are not stored.
find_program_trade_gaps(rows) ==
    [s \in Tracked(rows) \cap Active |->
        {d \in WindowDays : d >= Min(DaysOf(rows, s))} \ DaysOf(rows, s)]

\* A refetched pair that is still empty is accepted, unless too many of its day are.
exclude_vendor_empty_pairs(missing, floors, tracked) ==
    LET candidates == {r \in Stocks \X AllDays : /\ r[1] \in DOMAIN missing /\ r[2] \in missing[r[1]]
                                                 /\ r[1] \in DOMAIN floors /\ r[2] >= floors[r[1]]}
        accepted   == {r \in candidates : Cardinality({q \in candidates : q[2] = r[2]}) * 100
                                              <= EmptyPct * tracked}
    IN  [s \in DOMAIN missing |-> {d \in missing[s] : <<s, d>> \notin accepted}]

HasGaps(missing) == \E s \in DOMAIN missing : missing[s] # {}

------------------------------------------------------------------------------
(* The sync *)

Asleep == [at |-> "asleep", floors |-> <<>>, fetched |-> {}, refetched |-> {}, hidden |-> {}]

\* Rows of a store as earlier runs leave it: each stock's days up to the day before.
ProgInit ==
    /\ today = FirstDay
    /\ \E first \in [Stocks -> AllDays] :
          store = {r \in Stocks \X AllDays : first[r[1]] <= r[2] /\ r[2] < FirstDay}
    /\ sync = Asleep /\ exit = NoExit /\ torn = {} /\ withheld = {} /\ setbacks = 0

\* From where each symbol is fetched: behind session_date from its newest row on; with
\* interior gaps from the first of them; a candidate from the lookback.
FetchFloors(candidates) ==
    LET gaps    == find_program_trade_gaps(store)
        gapped  == {s \in DOMAIN gaps : gaps[s] # {}}
        forward == {s \in Tracked(store) \cap Active : Max(DaysOf(store, s)) < today}
        history == symbols_needing_backfill(store, candidates, today - Lookback)
    IN  [s \in forward \cup gapped \cup history |->
            Min((IF s \in forward THEN {Max(DaysOf(store, s)) + 1} ELSE {}) \cup
                (IF s \in gapped THEN {Min(gaps[s])} ELSE {}) \cup
                (IF s \in history THEN {today - Lookback} ELSE {}))]

StartSync ==
    /\ sync.at = "asleep" /\ exit = NoExit
    /\ \E candidates \in SUBSET Stocks :
          sync' = [Asleep EXCEPT !.at = "fetch", !.floors = FetchFloors(candidates)]
    /\ UNCHANGED <<store, today, exit, torn, withheld, setbacks>>

Asked(ok) == {r \in Stocks \X AllDays : r[1] \in ok /\ r[2] >= sync.floors[r[1]] /\ r[2] <= today}

AtMostOne(rows) == {{}} \cup {{r} : r \in rows}

\* One symbol after the other.  A symbol that fails is skipped with all its rows; a row
\* the vendor leaves out is not noticed (today's row is often not there yet).  A token
\* that cannot be issued ends the run with nothing written.
FetchAll ==
    /\ sync.at = "fetch"
    /\ \/ \E failed \in SUBSET DOMAIN sync.floors :
             \E hidden \in AtMostOne(Asked(DOMAIN sync.floors \ failed)) :
                /\ Setback(failed # {} \/ \E r \in hidden : r[2] # today)
                /\ sync' = [sync EXCEPT !.at = "write", !.fetched = Asked(DOMAIN sync.floors \ failed) \ hidden,
                                        !.refetched = DOMAIN sync.floors \ failed, !.hidden = hidden]
                /\ withheld' = withheld \cup hidden
                /\ UNCHANGED exit
       \/ /\ Setback(TRUE)
          /\ sync' = Asleep /\ exit' = 1
          /\ UNCHANGED withheld
    /\ UNCHANGED <<store, today, torn>>

\* upsert_month_partitions: one month file after the other, oldest first, each replaced
\* atomically.  The run may end between two of them: an unreadable file (exit 1) or the
\* child is killed (no exit code; the day's sync is not started again).
upsert_month_partitions ==
    /\ sync.at = "write" /\ sync.fetched # {}
    /\ LET month == Min({Month(r[2]) : r \in sync.fetched})
           part  == {r \in sync.fetched : Month(r[2]) = month}
       IN  \/ /\ store' = store \cup part
              /\ sync' = [sync EXCEPT !.fetched = @ \ part]
              /\ Setback(FALSE)
              /\ UNCHANGED <<exit, torn>>
           \/ /\ Setback(TRUE)
              /\ sync' = Asleep /\ exit' = 1
              /\ torn' = torn \cup Tracked(sync.fetched)
              /\ UNCHANGED store
    /\ UNCHANGED <<today, withheld>>


\* The gap report after the write, and main's exit code.
ReportSync ==
    /\ sync.at = "write" /\ sync.fetched = {}
    /\ LET tracked == Tracked(store) \cap Active
           stale   == {s \in tracked : Max(DaysOf(store, s)) < complete_through}
           floors  == [s \in sync.refetched |-> sync.floors[s]]
           missing == exclude_vendor_empty_pairs(find_program_trade_gaps(store), floors, Cardinality(tracked))
       IN  exit' = IF Cardinality(stale) * 100 > StalePct * Cardinality(tracked) \/ HasGaps(missing)
                   THEN 2 ELSE 0
    /\ sync' = Asleep
    /\ UNCHANGED <<store, today, torn, withheld, setbacks>>

NextSession ==
    /\ sync.at = "asleep" /\ exit # NoExit /\ today < LastDay
    /\ today' = today + 1 /\ exit' = NoExit
    /\ UNCHANGED <<store, sync, torn, withheld, setbacks>>

ProgNext == StartSync \/ FetchAll \/ upsert_month_partitions \/ ReportSync \/ NextSession

------------------------------------------------------------------------------
(* Properties *)

\* Every variable has its type.
ProgTypeOK ==
    /\ store \subseteq Stocks \X AllDays /\ today \in FirstDay..LastDay
    /\ sync.at \in {"asleep", "fetch", "write"} /\ sync.refetched \subseteq DOMAIN sync.floors
    /\ DOMAIN sync.floors \subseteq Stocks
    /\ exit \in {NoExit, 0, 1, 2} /\ torn \subseteq Stocks /\ setbacks \in 0..MaxSetbacks

\* Exit 0, "a verified calendar and no residual gaps": every listed, tracked symbol has
\* each day of the window from its first row on, except rows the vendor left out when
\* this very run asked for them.
OkMeansNoGap ==
    (ReportSync /\ exit' = 0) =>
       \A s \in Tracked(store) \cap Active : \A d \in WindowDays :
           d >= Min(DaysOf(store, s)) => <<s, d>> \in store \cup sync.hidden

\* sync_program_trades_forward, "one run heals them": a run in which every fetch and
\* write succeeded leaves no gap of the window, whatever earlier runs left behind, so the
\* alarm of a gap does not outlive the next clean run.
CleanRunHeals ==
    (ReportSync /\ sync.refetched = DOMAIN sync.floors /\ sync.hidden = {}) => exit' = 0

\* symbols_needing_backfill, "a partial or gapped history for it cannot exist": between a
\* symbol's first and last row nothing is missing, except what the vendor left out and
\* what the write of several months, cut between two of them, did not reach.
NoHiddenGap ==
    sync.at = "asleep" =>
        \A s \in Tracked(store) \ torn : \A d \in Min(DaysOf(store, s))..Max(DaysOf(store, s)) :
            <<s, d>> \in store \cup withheld


==============================================================================
