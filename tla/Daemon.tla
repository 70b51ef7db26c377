------------------------------- MODULE Daemon -------------------------------
(* The collector daemon, orchestration/daemon.py: one process that wakes up,
   runs one step() and sleeps, and the child processes it owns.  A step is a
   fixed sequence of handlers; `pc` names the next one.  Children exit, the
   clock moves and the daemon dies between handlers.

   Time is a count of slots.  A slot is a part of the day within which no
   condition of the code on the clock changes; Slot(x) names it.  Date 1 is
   the first day, the hours after midnight are the slot "night" of the date
   after. *)
EXTENDS Integers, Sequences, FiniteSets, SequencesExt

CONSTANTS Calendars,   \* what the dates may be: sequences of "business", "holiday", "weekend"
          Session,     \* the SESSION children that are enabled, see SessionKeys
          Jobs,        \* the enabled nightly jobs, in _NIGHTLY_JOB_ORDER
          MaxFaults    \* unfavourable outcomes of one behaviour, see Faulty

Slots == <<"pre", "streamer", "open", "close", "arm", "after", "eod", "idle", "late", "night">>
SessionKeys == {"regular", "snapshot", "crosscheck", "discovery"}
Venues == {"NXT", "KRX"}
Keys == SessionKeys \cup {"ls_b", "kis", "premarket"} \cup Venues

ASSUME DaemonAssumption ==
    /\ Calendars \subseteq Seq({"business", "holiday", "weekend"})
    /\ \E n \in 1..7 : \A c \in Calendars : Len(c) = n
    /\ Session \subseteq SessionKeys /\ "regular" \in Session
    /\ IsInjective(Jobs) /\ MaxFaults \in Nat

Days == 1 .. Len(CHOOSE c \in Calendars : TRUE)
None == 0                                 \* a date field that was never set

VARIABLES t,        \* the current slot
          Kind,     \* the calendar: one of Calendars, fixed
          now,      \* the slot in which the current or last step began
          run,      \* "up", "stopping", "stopped" (clean) or "dead"
          pc,       \* the next handler of step(), "sleep" between steps
          ch,       \* DaemonChildren: the supervised collectors
          job,      \* DaemonChildren.nightly
          sync,     \* DaemonChildren.program_sync
          mem,      \* DaemonState: what the process remembers, by date
          gate,     \* TradingDayGate: one date, its status and when it was asked
          digest,   \* dates whose end-of-day digest is on disk
          pools,    \* dates whose premarket pool is on disk
          picks,    \* by venue, the date of the after-market selection on disk
          cache,    \* the date of the last calendar answer on disk, -1 without one
          faults    \* unfavourable outcomes so far

vars == <<t, Kind, now, run, pc, ch, job, sync, mem, gate, digest, pools, picks, cache, faults>>
files == <<digest, pools, picks>>

-----------------------------------------------------------------------------
(* The clock, core/calendar.py. *)
Round(x) == x \div Len(Slots) + 1
Slot(x) == Slots[(x % Len(Slots)) + 1]
Date(x) == Round(x) + (IF Slot(x) = "night" THEN 1 ELSE 0)
KindOf(d) == IF d \in Days THEN Kind[d] ELSE "business"
Weekday(x) == KindOf(Date(x)) # "weekend"
End == Len(Slots) * Cardinality(Days)

get_target_state(x) ==
    CASE ~Weekday(x) -> "WEEKEND_SLEEP"
      [] Weekday(x) /\ Slot(x) \in {"night", "pre"} -> "PRE_MARKET_SLEEP"
      [] Weekday(x) /\ Slot(x) = "streamer" -> "STREAMER_ACTIVE"
      [] Weekday(x) /\ Slot(x) \in {"open", "close", "arm"} -> "FULL_ACTIVE"
      [] Weekday(x) /\ Slot(x) = "after" -> "AFTER_MARKET_ACTIVE"
      [] Weekday(x) /\ Slot(x) = "eod" -> "POST_MARKET_EOD"
      [] Weekday(x) /\ Slot(x) \in {"idle", "late"} -> "NIGHT_IDLE"

ActiveStates == {"STREAMER_ACTIVE", "FULL_ACTIVE", "AFTER_MARKET_ACTIVE"}
Active(x) == get_target_state(x) \in ActiveStates
Today == Date(now)

\* Windows of the children, each a set of slots.
spec_active == [regular |-> {"streamer", "open", "close", "arm", "after"},
                snapshot |-> {"streamer", "open", "close"},
                crosscheck |-> {"streamer", "open"}, discovery |-> {"open"}]
regular_kis_collection_due(x) == Slot(x) \in {"streamer", "open"}
premarket_collection_due(x) == Weekday(x) /\ Slot(x) \in {"pre", "streamer"}
premarket_pool_due(x) == Weekday(x) /\ Slot(x) \in {"idle", "late"}
aftermarket_due(x) == CASE Slot(x) = "arm" -> {"NXT"} [] Slot(x) = "after" -> Venues [] OTHER -> {}
nightly_window_open(x) == Slot(x) \in {"late", "night"}
nightly_window_identity(x) == Round(x)

-----------------------------------------------------------------------------
NoChild == [day |-> None, st |-> "none"]
NoJob == [name |-> "none", id |-> None, live |-> FALSE]
NoSync == [day |-> None, live |-> FALSE]
NoGate == [date |-> None, status |-> "unknown", at |-> None, next |-> None]

\* A DaemonState and a gate as a new process has them.
Fresh == [orch |-> None, oday |-> None, retry |-> FALSE, degraded |-> FALSE,
          kisDay |-> None, kisPlan |-> FALSE, lsDay |-> None, lsPlan |-> FALSE,
          refreshed |-> [v \in Venues |-> None], afterDay |-> None, afterPlan |-> {},
          preDay |-> None, shard |-> FALSE, poolDay |-> None,
          eod |-> None, syncDay |-> None, done |-> [j \in ToSet(Jobs) |-> None],
          anchors |-> None]

New(d) == [day |-> d, st |-> "new"]
Owned(k) == ch[k] # NoChild
Live(k) == ch[k].st = "up"
Without(K) == [k \in Keys |-> IF k \in K THEN NoChild ELSE ch[k]]

\* ensure_running of a child: first start, restart of a dead one, or an open breaker.
ensure_running(c, open) ==
    CASE c.st = "new" -> [c EXCEPT !.st = "up"]
      [] c.st = "dead" /\ ~open -> [c EXCEPT !.st = "up"]
      [] OTHER -> c
Dead(k) == {j \in {k} : ch[j].st = "dead"}
EnsureAll(cs, K, open) == [k \in Keys |-> IF k \in K THEN ensure_running(cs[k], k \in open) ELSE cs[k]]

\* A child of its own: created when it is missing, then supervised.
Keep(k, open) == EnsureAll([ch EXCEPT ![k] = IF @ = NoChild THEN New(Date(now)) ELSE @], {k}, open)

\* The vendor's calendar.
TrueStatus(d) == IF KindOf(d) = "business" THEN "business" ELSE "holiday"
next_business_day(d) == CHOOSE n \in d + 1 .. d + 7 :
                           KindOf(n) = "business" /\ \A m \in d + 1 .. n - 1 : KindOf(m) # "business"

Answer(d, s, n) == [date |-> d, status |-> s, at |-> None, next |-> n]
Unknown(d, x) == [date |-> d, status |-> "unknown", at |-> x, next |-> None]

\* trading_day_from_cache: a date is decided by the last answer when it lies between that answer's
\* date and the next business day.  A business day decided so names itself as the next one.
trading_day_from_cache(d, x) ==
    CASE cache = d -> Answer(d, TrueStatus(d), next_business_day(d))
      [] cache >= 0 /\ cache # d /\ d = next_business_day(cache) -> Answer(d, "business", d)
      [] cache >= 0 /\ cache < d /\ d < next_business_day(cache) -> Answer(d, "holiday", next_business_day(cache))
      [] OTHER -> Unknown(d, x)

\* TradingDayGate.view over _resolve_trading_day_with_cache: a status is kept for its date,
\* "unknown" is asked again after a while, and another date is asked at once and replaces the
\* one kept.  The vendor answers, or it does not.
view(d, x) ==
    IF gate.date = d /\ (gate.status # "unknown" \/ gate.at = x)
    THEN {[gate |-> gate, cache |-> cache, bad |-> FALSE]}
    ELSE {[gate |-> Answer(d, TrueStatus(d), next_business_day(d)), cache |-> d, bad |-> FALSE],
          [gate |-> trading_day_from_cache(d, x), cache |-> cache, bad |-> TRUE]}
Kept == [gate |-> gate, cache |-> cache, bad |-> FALSE]

Init ==
    /\ Kind \in Calendars /\ t = 0 /\ now = -1 /\ run = "stopped" /\ pc = "sleep"
    /\ ch = [k \in Keys |-> NoChild] /\ job = NoJob /\ sync = NoSync
    /\ mem = Fresh /\ gate = NoGate
    /\ digest = {} /\ picks = [v \in Venues |-> None]
    /\ \/ cache = -1 /\ pools = {}
       \/ cache = 0 /\ pools = {1}
    /\ faults = 0

-----------------------------------------------------------------------------
(* One step. *)
In(l) == run \in {"up", "stopping"} /\ pc = l
Frame == UNCHANGED <<t, Kind, now, run>>

\* Whatever may go wrong in a step counts: an unreachable calendar, a failed attempt, a breaker
\* that stays open, a child or the daemon that ends.
Faulty(b) == faults' = faults + (IF b THEN 1 ELSE 0) /\ faults' <= MaxFaults
Asked(w) == gate' = w.gate /\ cache' = w.cache

\* step(), up to the branch on the state: anchors, the day's status, and the end of a nightly job.
StepBegin ==
    /\ run = "up" /\ pc = "sleep"
    /\ now' = t
    /\ LET state == get_target_state(t)
           asks == \/ Weekday(t) /\ Slot(t) \notin {"night", "pre"} /\ mem.anchors # Date(t)
                   \/ state \in ActiveStates \cup {"POST_MARKET_EOD"}
       IN \E w \in (IF asks THEN view(Date(t), t) ELSE {Kept}) :
            /\ Asked(w) /\ Faulty(w.bad)
            /\ mem' = [mem EXCEPT !.anchors = IF asks /\ w.gate.status = "business" THEN Date(t) ELSE @]
            /\ job' = IF state \in ActiveStates THEN NoJob ELSE job
            /\ pc' = CASE state \in ActiveStates /\ w.gate.status = "holiday" -> "holiday"
                       [] state \in ActiveStates /\ w.gate.status # "holiday" -> "orchestrate"
                       [] state = "POST_MARKET_EOD" -> "eod"
                       [] OTHER -> "premarket"
    /\ UNCHANGED <<t, Kind, run, ch, sync, files>>

HolidayKeepsLsShard ==
    /\ In("holiday")
    /\ ch' = Without(Keys \ {"premarket", "ls_b"}) /\ job' = NoJob
    /\ pc' = "premarket"
    /\ mem' = [mem EXCEPT !.degraded = FALSE]
    /\ UNCHANGED <<sync, gate, cache, files, faults>> /\ Frame

\* _step_active_session on a holiday.
StopHolidayChildren ==
    /\ In("holiday")
    /\ ch' = Without(Keys \ {"premarket"}) /\ job' = NoJob
    /\ pc' = "premarket"
    /\ mem' = [mem EXCEPT !.degraded = FALSE]
    /\ UNCHANGED <<sync, gate, cache, files, faults>> /\ Frame

\* _reset_for_new_session_day, when the first session state of a date is reached.
Rolled == get_target_state(now) # "AFTER_MARKET_ACTIVE" /\ mem.oday # Today
ResetMem == IF ~Rolled THEN mem
            ELSE [mem EXCEPT !.oday = Today, !.retry = FALSE, !.degraded = FALSE,
                             !.kisDay = None, !.kisPlan = FALSE, !.lsDay = None, !.lsPlan = FALSE]
ResetChildren == IF ~Rolled THEN ch ELSE Without(SessionKeys \cup {"kis", "ls_b"})

\* _maybe_orchestrate when orchestration is done, or its next try is not due.
OrchestrateSkip ==
    /\ In("orchestrate")
    /\ \/ get_target_state(now) = "AFTER_MARKET_ACTIVE"
       \/ ResetMem.orch = Today
       \/ ResetMem.retry
    /\ mem' = ResetMem /\ ch' = ResetChildren
    /\ pc' = "supervise"
    /\ UNCHANGED <<job, sync, gate, cache, files, faults>> /\ Frame

MayOrchestrate ==
    /\ In("orchestrate")
    /\ get_target_state(now) # "AFTER_MARKET_ACTIVE"
    /\ ResetMem.orch # Today

\* The container ends with its first process: every child is gone with the daemon.
GoDown(how) ==
    /\ run' = how /\ pc' = "sleep" /\ now' = -1
    /\ ch' = [k \in Keys |-> NoChild] /\ job' = NoJob /\ sync' = NoSync
    /\ mem' = Fresh /\ gate' = NoGate /\ cache' = cache

\* _start_ready_children: each enabled child is installed anew.  set_child_result() has no field
\* for the discovery child and raises, outside the except clause around orchestration.
StartReadyChildren ==
    /\ MayOrchestrate
    /\ IF "discovery" \in Session
       THEN GoDown("dead") /\ UNCHANGED <<t, Kind, files, faults>>
       ELSE /\ \E shard \in BOOLEAN :
                 /\ Faulty(~shard /\ ResetMem.lsDay # Today)
                 /\ mem' = [ResetMem EXCEPT !.orch = Today, !.retry = FALSE, !.degraded = FALSE,
                                            !.kisDay = IF ResetMem.degraded THEN None ELSE @,
                                            !.lsDay = Today,
                                            !.lsPlan = IF ResetMem.lsDay = Today THEN @ ELSE shard]
            /\ ch' = [k \in Keys |-> IF k \in Session THEN New(Today) ELSE ResetChildren[k]]
            /\ pc' = "supervise"
            /\ UNCHANGED <<job, sync, gate, cache, files>> /\ Frame

\* _handle_orchestration_failure: without a regular child, and with recent candidates, a
\* degraded one is started, and with it the children that may run beside it.
HandleOrchestrationFailure ==
    /\ MayOrchestrate
    /\ \E recent \in BOOLEAN :
         LET starts == recent /\ ResetChildren["regular"] = NoChild IN
         /\ Faulty(TRUE)
         /\ mem' = [ResetMem EXCEPT !.retry = TRUE, !.degraded = @ \/ starts]
         /\ ch' = [k \in Keys |->
                     IF /\ starts
                        /\ k \in Session \cap {"regular", "snapshot"}
                        /\ ResetChildren[k] = NoChild
                     THEN New(Today) ELSE ResetChildren[k]]
    /\ pc' = "supervise"
    /\ UNCHANGED <<job, sync, gate, cache, files>> /\ Frame

\* _supervise_session_children.
SuperviseSession ==
    /\ In("supervise")
    /\ \E open \in SUBSET {k \in Session : ch[k].st = "dead"} :
         /\ Faulty(open # {})
         /\ ch' = EnsureAll(ch, {k \in Session : /\ Slot(now) \in spec_active[k]
                                                 /\ k = "crosscheck" => Owned("regular")}, open)
    /\ pc' = "kis"
    /\ UNCHANGED <<job, sync, mem, gate, cache, files>> /\ Frame

\* _ensure_regular_kis_plan: the memories it may leave.
ensure_regular_kis_plan ==
    IF mem.kisDay = Today THEN {mem}
    ELSE IF mem.degraded THEN {[mem EXCEPT !.kisDay = Today, !.kisPlan = FALSE]}
    ELSE IF mem.orch # Today THEN {mem}
    ELSE {[mem EXCEPT !.kisDay = None]}
         \cup {[mem EXCEPT !.kisDay = Today, !.kisPlan = p] : p \in BOOLEAN}

\* _supervise_regular_kis, for one shard.
SuperviseRegularKis ==
    /\ In("kis")
    /\ \E w \in view(Today, now) :
         /\ Asked(w)
         /\ IF w.gate.status = "holiday" \/ ~regular_kis_collection_due(now)
            THEN ch' = Without({"kis"}) /\ mem' = mem /\ Faulty(w.bad)
            ELSE /\ mem' \in ensure_regular_kis_plan
                 /\ \E open \in SUBSET Dead("kis") :
                      /\ ch' = IF mem'.kisPlan THEN Keep("kis", open) ELSE ch
                      /\ Faulty(w.bad \/ open # {} \/ (mem.orch = Today /\ ~mem'.kisPlan /\ mem # mem'))
    /\ pc' = "ls_b"
    /\ UNCHANGED <<job, sync, files>> /\ Frame

\* _supervise_regular_ls_shard.
SuperviseLsShard ==
    /\ In("ls_b")
    /\ IF Owned("regular") /\ mem.lsDay = Today /\ mem.lsPlan
       THEN \E open \in SUBSET Dead("ls_b") : ch' = Keep("ls_b", open) /\ Faulty(open # {})
       ELSE UNCHANGED <<ch, faults>>
    /\ pc' = "reselect"
    /\ UNCHANGED <<job, sync, mem, gate, cache, files>> /\ Frame

\* _maybe_reselect_aftermarket: each venue once per date, a failed one again a minute later.
ReselectAftermarket ==
    /\ In("reselect")
    /\ \E done \in SUBSET {v \in Venues : mem.refreshed[v] # Today} :
         /\ Slot(now) \notin {"close", "arm"} => done = {}
         /\ Faulty(Slot(now) \in {"close", "arm"} /\ \E v \in Venues \ done : mem.refreshed[v] # Today)
         /\ mem' = [mem EXCEPT !.refreshed = [v \in Venues |-> IF v \in done THEN Today ELSE @[v]]]
         /\ picks' = [v \in Venues |-> IF v \in done THEN Today ELSE picks[v]]
    /\ pc' = IF Slot(now) = "streamer" THEN "premarket" ELSE "aftermarket"
    /\ UNCHANGED <<ch, job, sync, gate, cache, digest, pools>> /\ Frame

\* _ensure_aftermarket_plan, unless a selection is still pending in FULL_ACTIVE: one shard for
\* each venue whose selection can be read, none when planning fails.
ensure_aftermarket_plan ==
    IF \/ aftermarket_due(now) = {}
       \/ get_target_state(now) = "FULL_ACTIVE" /\ \E v \in Venues : mem.refreshed[v] # Today
       \/ mem.afterDay = Today
    THEN {mem}
    ELSE {[mem EXCEPT !.afterDay = Today, !.afterPlan = p] : p \in {{}, {v \in Venues : picks[v] = Today}}}

\* _supervise_aftermarket: a shard waits while a KIS child of the day session holds its slot.
SuperviseAftermarket ==
    /\ In("aftermarket")
    /\ mem' \in ensure_aftermarket_plan
    /\ LET arm == {v \in Venues : /\ mem'.afterDay = Today /\ v \in mem'.afterPlan \cap aftermarket_due(now)
                                  /\ ~Owned(v) /\ ~Live("kis")}
       IN \E open \in SUBSET {v \in Venues : ch[v].st = "dead"} :
            /\ Faulty(open # {} \/ (mem' # mem /\ mem'.afterPlan # {v \in Venues : picks[v] = Today}))
            /\ ch' = EnsureAll([k \in Keys |-> IF k \in arm THEN New(Today) ELSE ch[k]], Venues, open)
    /\ pc' = "premarket"
    /\ UNCHANGED <<job, sync, gate, cache, files>> /\ Frame

\* _step_post_market_eod: the day's children are stopped in every step, the rest once per date.
StepPostMarketEod ==
    /\ In("eod")
    /\ LET first == mem.eod # Today IN
       /\ ch' = Without(SessionKeys \cup {"kis", "ls_b"} \cup (IF first THEN Venues ELSE {}))
       /\ mem' = [mem EXCEPT !.eod = Today, !.degraded = FALSE]
       /\ pc' = IF first THEN "eod_run" ELSE "premarket"
    /\ UNCHANGED <<job, sync, gate, cache, files, faults>> /\ Frame

\* _run_business_eod or _run_holiday_eod, as seen from outside: the digest of a business or
\* unknown day, whose write may fail.
RunEod ==
    /\ In("eod_run")
    /\ \E archived \in BOOLEAN :
         /\ digest' = IF gate.status # "holiday" /\ archived THEN digest \cup {Today} ELSE digest
         /\ Faulty(~archived)
    /\ pc' = "premarket"
    /\ UNCHANGED <<ch, job, sync, mem, gate, cache, pools, picks>> /\ Frame

\* _supervise_premarket with _ensure_premarket_plan.
SupervisePremarket ==
    /\ In("premarket")
    /\ IF ~premarket_collection_due(now)
       THEN ch' = Without({"premarket"}) /\ UNCHANGED <<job, mem, gate, cache, faults>>
       ELSE \E w \in view(Today, now) :
              LET planned == IF mem.preDay = Today THEN {mem}
                             ELSE {[mem EXCEPT !.preDay = Today, !.shard = p] : p \in {FALSE, (Today \in pools)}}
              IN /\ Asked(w)
                 /\ IF w.gate.status = "holiday"
                    THEN ch' = Without({"premarket"}) /\ UNCHANGED <<job, mem>> /\ Faulty(w.bad)
                    ELSE /\ mem' \in planned
                         /\ job' = IF mem'.shard /\ ~Owned("premarket") THEN NoJob ELSE job
                         /\ \E open \in SUBSET Dead("premarket") :
                              /\ ch' = IF mem'.shard THEN Keep("premarket", open) ELSE ch
                              /\ Faulty(open # {} \/ w.bad \/ (mem' # mem /\ Today \in pools /\ ~mem'.shard))
    /\ pc' = "pool"
    /\ UNCHANGED <<sync, files>> /\ Frame

\* _maybe_refresh_premarket_pool: the pool of the next business day, once per evening.  A pool that
\* is there counts as built; building refuses a target that is not after today.
RefreshPremarketPool ==
    /\ In("pool")
    /\ IF premarket_pool_due(now) /\ mem.poolDay # Today
       THEN \E w \in view(Today, now), ok \in BOOLEAN :
              LET target == w.gate.next
                  ready == target \in pools
                  built == ~ready /\ target > Today /\ ok
                  known == w.gate.status = "business"
              IN /\ Asked(w) /\ Faulty(w.bad \/ ~ok)
                 /\ mem' = IF known /\ (ready \/ built) THEN [mem EXCEPT !.poolDay = Today] ELSE mem
                 /\ pools' = IF known /\ built THEN pools \cup {target} ELSE pools
       ELSE UNCHANGED <<mem, gate, cache, pools, faults>>
    /\ pc' = "poll_sync"
    /\ UNCHANGED <<ch, job, sync, digest, picks>> /\ Frame

\* _poll_program_sync: an exit is reaped, a sync over its time limit is stopped.
PollProgramSync ==
    /\ In("poll_sync")
    /\ sync' \in {NoSync} \cup (IF sync.live THEN {sync} ELSE {})
    /\ pc' = "launch_sync"
    /\ UNCHANGED <<ch, job, mem, gate, cache, files, faults>> /\ Frame

\* _maybe_launch_program_sync: once for the date of the last end of day; a failed launch is
\* tried again in the next step.
LaunchProgramSync ==
    /\ In("launch_sync")
    /\ IF job.live \/ sync.live \/ mem.eod = None \/ mem.syncDay = mem.eod
       THEN UNCHANGED <<sync, mem, gate, cache, faults>>
       ELSE \E w \in view(mem.eod, now) :
              /\ Asked(w)
              /\ \E ok \in BOOLEAN :
                   /\ ok => w.gate.status = "business"
                   /\ Faulty(w.bad \/ (~ok /\ w.gate.status = "business"))
                   /\ sync' = IF ok THEN [day |-> mem.eod, live |-> TRUE] ELSE sync
                   /\ mem' = IF ok THEN [mem EXCEPT !.syncDay = mem.eod] ELSE mem
    /\ pc' = "poll_nightly"
    /\ UNCHANGED <<ch, job, files>> /\ Frame

\* _poll_nightly: an exit is reaped, a job that overran its window is stopped.
PollNightly ==
    /\ In("poll_nightly")
    /\ job' = IF ~job.live \/ ~(nightly_window_open(now) /\ nightly_window_identity(now) = job.id) THEN NoJob ELSE job
    /\ pc' = "launch_nightly"
    /\ UNCHANGED <<ch, sync, mem, gate, cache, files, faults>> /\ Frame

nightly_session_live ==
    \/ Active(now)
    \/ \E k \in {"regular", "snapshot", "crosscheck", "premarket", "kis"} \cup Venues : Live(k)

eod_done_for(d) == mem.eod = d \/ d \in digest

\* _maybe_launch_nightly: the first enabled job not yet started in this window.  The clock is read
\* again, the step may have lasted.
LaunchNightly ==
    /\ In("launch_nightly")
    /\ IF Jobs = <<>> \/ job # NoJob \/ sync.live \/ nightly_session_live \/ ~nightly_window_open(t)
       THEN UNCHANGED <<job, mem, gate, cache, faults>>
       ELSE LET id == nightly_window_identity(t)
                todo == {i \in DOMAIN Jobs : mem.done[Jobs[i]] # id}
            IN \E w \in view(id, t) :
                 /\ Asked(w)
                 /\ IF w.gate.status = "unknown" \/ (w.gate.status = "business" /\ ~eod_done_for(id)) \/ todo = {}
                    THEN UNCHANGED <<job, mem>> /\ Faulty(w.bad)
                    ELSE LET next == Jobs[CHOOSE i \in todo : \A j \in todo : i <= j]
                         IN /\ mem' = [mem EXCEPT !.done[next] = id]
                            /\ \E ok \in BOOLEAN : /\ job' = [name |-> next, id |-> id, live |-> ok]
                                                   /\ Faulty(w.bad \/ ~ok)
    /\ pc' = "sleep"
    /\ UNCHANGED <<ch, sync, files>> /\ Frame

-----------------------------------------------------------------------------
(* Around the daemon. *)
\* Time passes.  Slots are longer than the sleeps between steps, so a slot without a step is a
\* fault (the host was suspended), and only a step that runs when a slot ends reaches into the
\* next one; the handlers it may not pass in do not read the clock again.
Tick ==
    /\ t < End - 1
    /\ pc = "sleep" \/ (pc \in {"eod_run", "launch_nightly"} /\ now = t)
    /\ Faulty(run = "up" /\ now # t)
    /\ t' = t + 1
    /\ UNCHANGED <<Kind, now, run, pc, ch, job, sync, mem, gate, cache, files>>

\* A child ends by itself.  Its own handler is the first to see it, so it may as well end between
\* two steps.
ChildExit ==
    /\ pc = "sleep"
    /\ \E k \in Keys : Live(k) /\ ch' = [ch EXCEPT ![k].st = "dead"]
    /\ Faulty(TRUE)
    /\ UNCHANGED <<t, Kind, now, run, pc, job, sync, mem, gate, cache, files>>

JobExit ==
    /\ job.live /\ job' = [job EXCEPT !.live = FALSE]
    /\ UNCHANGED <<t, Kind, now, run, pc, ch, sync, mem, gate, cache, files, faults>>

SyncExit ==
    /\ sync.live /\ sync' = [sync EXCEPT !.live = FALSE]
    /\ UNCHANGED <<t, Kind, now, run, pc, ch, job, mem, gate, cache, files, faults>>

\* A kill, a reboot, or an exception that leaves step().  Only what is on disk remains, so within
\* a step it matters before and after the digest is written.
Die ==
    /\ run \in {"up", "stopping"} /\ pc \in {"sleep", "eod_run"}
    /\ Faulty(TRUE) /\ GoDown("dead")
    /\ UNCHANGED <<t, Kind, files>>

\* SIGTERM only sets a flag, which the loop reads between steps.
Signal ==
    /\ run = "up" /\ run' = "stopping" /\ pc \in {"sleep", "eod_run"} /\ Faulty(TRUE)
    /\ UNCHANGED <<t, Kind, now, pc, ch, job, sync, mem, gate, cache, files>>

\* stop_children and the clean end of the process.
Shutdown ==
    /\ run = "stopping" /\ pc = "sleep"
    /\ GoDown("stopped")
    /\ UNCHANGED <<t, Kind, files, faults>>

Boot ==
    /\ run \in {"stopped", "dead"} /\ run' = "up"
    /\ UNCHANGED <<t, Kind, now, pc, ch, job, sync, mem, gate, cache, files, faults>>

Handlers ==
    \/ StopHolidayChildren \/ OrchestrateSkip \/ StartReadyChildren \/ HandleOrchestrationFailure
    \/ SuperviseSession \/ SuperviseRegularKis \/ SuperviseLsShard \/ ReselectAftermarket
    \/ SuperviseAftermarket \/ StepPostMarketEod \/ RunEod \/ SupervisePremarket
    \/ RefreshPremarketPool \/ PollProgramSync \/ LaunchProgramSync \/ PollNightly \/ LaunchNightly
Next == StepBegin \/ Handlers \/ Shutdown \/ Tick \/ ChildExit \/ JobExit \/ SyncExit \/ Die \/ Signal \/ Boot

Spec == Init /\ [][Next]_vars

-----------------------------------------------------------------------------
Dates == 0 .. Cardinality(Days) + 1
Labels == {"sleep", "holiday", "orchestrate", "supervise", "kis", "ls_b", "reselect", "aftermarket", "eod",
           "eod_run", "premarket", "pool", "poll_sync", "launch_sync", "poll_nightly", "launch_nightly"}
\* The daemon's state has its types.
TypeOK ==
    /\ t \in 0 .. End - 1 /\ now \in -1 .. t
    /\ run \in {"up", "stopping", "stopped", "dead"} /\ pc \in Labels
    /\ ch \in [Keys -> [day : Dates, st : {"none", "new", "up", "dead"}]]
    /\ job \in [name : ToSet(Jobs) \cup {"none"}, id : Dates, live : BOOLEAN]
    /\ sync \in [day : Dates, live : BOOLEAN]
    /\ DOMAIN mem = DOMAIN Fresh /\ mem.done \in [ToSet(Jobs) -> Dates]
    /\ gate.date \in Dates /\ gate.status \in {"business", "holiday", "unknown"} /\ cache \in Dates \cup {-1}
    /\ digest \subseteq Days /\ pools \subseteq Dates /\ picks \in [Venues -> Dates]

\* After a step in session hours every child of the day session was started for that date, even if
\* the end of day that should have stopped yesterday's was missed; on a date known to be a holiday
\* the daemon owns no child at all.
ChildrenOfTheDay ==
    run = "up" /\ pc = "sleep" /\ Active(now) =>
        /\ \A k \in Keys \ Venues : Owned(k) => ch[k].day = Today
        /\ gate.date = Today /\ gate.status = "holiday" => \A k \in Keys : ~Owned(k)

\* A nightly job runs only beside nothing: no collector that _nightly_session_live looks at, no
\* program-trade sync.  On a business day the end of day of its date was attempted by this process,
\* or archived by an earlier one.
NightAlone ==
    job.live => /\ \A k \in Keys \ {"ls_b"} : ~Live(k)
                /\ ~sync.live
                /\ KindOf(job.id) = "business" => (mem.eod = job.id \/ job.id \in digest)

\* End-of-day maintenance compresses and deletes the day's files: no collector of the day is left.
EodQuiet == pc = "eod_run" => \A k \in Keys \ {"premarket"} : ~Owned(k)

\* A credential slot has one connection: the KIS child of the day session and an after-market shard
\* of the same date never run together.
SlotExclusive == \A v \in Venues : ~(Live("kis") /\ Live(v) /\ ch["kis"].day = ch[v].day)

\* The children of the daemon are those that its date and the clock call for, and those that use the
\* same files or the same credential do not run together (step and its handlers).
ChildrenAsPlanned == TypeOK /\ ChildrenOfTheDay /\ NightAlone /\ EodQuiet /\ SlotExclusive

=============================================================================
