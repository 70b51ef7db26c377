------------------------------ MODULE MinuteRun ------------------------------
(* The nightly minute-bar job, src/marketdata/minute_backfill.py, over the page     *)
(* walk of src/marketdata/kis_minute_history.py.  A cell is a symbol and a day; its *)
(* bars are the minutes 1..Close of the session, 1 the opening minute.  A run walks *)
(* its cells one after the other, stages their rows, publishes one partition per    *)
(* day and then notes the cells in its ledger, which decides what the next run      *)
(* fetches.  Off-hours bars, which are dropped, are left out.                       *)
EXTENDS Integers, Sequences, FiniteSetsExt

CONSTANTS MinuteCells,   \* the targets, a sequence of <<symbol, day>> in the order of the plan
          Close,         \* the last minute
          CompleteEarly, \* an earliest bar up to this minute is complete
          PageBars,      \* bars of a page
          CallBudget,    \* max_calls_per_run
          DayBars,       \* what the vendor may have of a cell
          MaxSlips       \* failures and crashes

VARIABLES have,      \* the vendor's bars of each cell
          repeats,   \* below its first bar the vendor repeats a page, rather than none
          job,       \* the run
          walk,      \* the walk of the cell at the head of job.left
          calls,     \* calls_used
          published, \* for each cell, the sets of bars in partitions, one per run
          notes,     \* the ledger: <<cell, status>>
          botched,   \* history: the end of some run failed, or some run crashed
          slips

minuteVars == <<have, repeats, job, walk, calls, published, notes, botched, slips>>

CellSet == {MinuteCells[k] : k \in DOMAIN MinuteCells}
Slip(b) == IF b THEN slips < MaxSlips /\ slips' = slips + 1 ELSE UNCHANGED slips

OffDuty   == [at |-> "off", left |-> <<>>, rows |-> <<>>, lines |-> <<>>, reason |-> "", settled |-> 0]
FreshWalk == [cursor |-> Close, kept |-> {}, pages |-> 0]

MinuteInit ==
    /\ have \in [CellSet -> DayBars] /\ repeats \in BOOLEAN
    /\ job = OffDuty /\ walk = FreshWalk /\ calls = 0
    /\ published = [c \in CellSet |-> <<>>] /\ notes = {} /\ botched = FALSE /\ slips = 0

read_minute_ledger_done == {c \in CellSet : <<c, "complete">> \in notes \/ <<c, "vendor_empty">> \in notes}

\* The start of a run: plan_minute_targets drops what the ledger has.
StartMinuteRun ==
    /\ job.at = "off"
    /\ LET left == SelectSeq(MinuteCells, LAMBDA c : c \notin read_minute_ledger_done)
       IN  left # <<>> /\ job' = [OffDuty EXCEPT !.at = "walk", !.left = left]
    /\ walk' = FreshWalk /\ calls' = 0
    /\ UNCHANGED <<have, repeats, published, notes, botched, slips>>

Cell == Head(job.left)

\* The vendor's page: its last bars up to the cursor; below its first bar none, or its
\* earliest page again.
Page(c, cursor) ==
    LET below == {m \in have[c] : m <= cursor}
        Last(S) == {m \in S : Cardinality({n \in S : n > m}) < PageBars}
    IN  IF below # {} \/ ~repeats THEN Last(below)
        ELSE {m \in have[c] : Cardinality({n \in have[c] : n < m}) < PageBars}

Settled(status) ==
    [job EXCEPT !.left = Tail(@), !.lines = Append(@, <<Cell, status>>), !.settled = @ + 1]
NextCell == [job EXCEPT !.left = Tail(@)]

\* An empty page ends a day as complete only if the bars reach back to the opening.
ReachesOpen(kept) == kept # {} /\ Min(kept) <= CompleteEarly

\* One page of walk_kis_minute_day.  The boundary (calls, deadline) ends the run's walks.
walk_kis_minute_day ==
    /\ job.at = "walk" /\ job.left # <<>> /\ calls < CallBudget
    /\ calls' = calls + 1
    /\ LET page == Page(Cell, walk.cursor)
           kept == walk.kept \cup page
       IN  IF page = {} /\ walk.pages = 0
           THEN job' = Settled("vendor_empty") /\ walk' = FreshWalk
           ELSE IF page = {} /\ ~ReachesOpen(walk.kept)
           THEN job' = NextCell /\ walk' = FreshWalk
           ELSE IF page = {} \/ Min(page) > walk.cursor \/ 1 \in kept
           THEN /\ job' = [Settled("complete") EXCEPT !.rows = Append(@, <<Cell, kept>>)]
                /\ walk' = FreshWalk
           ELSE /\ walk' = [cursor |-> Min(page) - 1, kept |-> kept, pages |-> walk.pages + 1]
                /\ UNCHANGED job
    /\ UNCHANGED <<have, repeats, published, notes, botched, slips>>

\* A failed call skips the cell; a failed token ("auth") ends the walks.
FailCell ==
    /\ job.at = "walk" /\ job.left # <<>> /\ calls < CallBudget
    /\ Slip(TRUE)
    /\ calls' = calls + 1 /\ walk' = FreshWalk
    /\ \/ job' = NextCell
       \/ job' = [job EXCEPT !.left = <<>>, !.reason = "auth"]
    /\ UNCHANGED <<have, repeats, published, notes, botched>>

\* No cell is left, or the boundary was met: an unfinished cell is dropped.
StopWalking ==
    /\ job.at = "walk" /\ (job.left = <<>> \/ calls >= CallBudget)
    /\ job' = [job EXCEPT !.at = "publish", !.left = <<>>]
    /\ walk' = FreshWalk
    /\ UNCHANGED <<have, repeats, calls, published, notes, botched, slips>>

DaysLeft == {job.rows[k][1][2] : k \in DOMAIN job.rows}

\* The final flush publishes one day after the other.
PublishMinutes ==
    /\ job.at = "publish" /\ job.rows # <<>>
    /\ LET day  == Min(DaysLeft)
           mine == SelectSeq(job.rows, LAMBDA r : r[1][2] = day)
       IN  /\ published' = [c \in CellSet |->
                published[c] \o SelectSeq(mine, LAMBDA r : r[1] = c)]
           /\ job' = [job EXCEPT !.rows = SelectSeq(@, LAMBDA r : r[1][2] # day)]
    /\ UNCHANGED <<have, repeats, walk, calls, notes, botched, slips>>

Noted(lines) == notes' = notes \cup {lines[k] : k \in DOMAIN lines}

NoteFirst ==
    /\ job.at = "publish" /\ (job.lines # <<>> \/ job.rows = <<>>)
    /\ Noted(job.lines)
    /\ job' = [job EXCEPT !.lines = <<>>, !.at = IF job.rows = <<>> THEN "summed" ELSE "publish"]
    /\ UNCHANGED <<have, repeats, walk, calls, published, botched, slips>>

\* The ledger is written once every partition is out.
append_minute_ledger ==
    /\ job.at = "publish" /\ job.rows = <<>>
    /\ Noted(job.lines)
    /\ job' = [job EXCEPT !.at = "summed"]
    /\ UNCHANGED <<have, repeats, walk, calls, published, botched, slips>>

\* What an append that is cut leaves: some of its lines (a torn last line is skipped by
\* the reader and removed by the next append).
TornAppend ==
    IF job.at = "publish" /\ job.rows = <<>>
    THEN \E k \in 0..Len(job.lines) : Noted(SubSeq(job.lines, 1, k))
    ELSE UNCHANGED notes

\* The final flush or the append fails: nothing more is written, and the summary counts
\* nothing, unless the run had already ended for its token.
FailFinish ==
    /\ job.at = "publish" /\ Slip(TRUE) /\ TornAppend
    /\ job' = [job EXCEPT !.at = "summed", !.reason = IF @ = "" THEN "write" ELSE @,
                          !.settled = IF job.reason = "" THEN 0 ELSE @]
    /\ botched' = TRUE
    /\ UNCHANGED <<have, repeats, walk, calls, published>>

\* The full buffer cannot be staged: nothing of the run is published.
FailStaging ==
    /\ job.at = "walk" /\ job.rows # <<>> /\ walk = FreshWalk /\ Slip(TRUE)
    /\ job' = [job EXCEPT !.at = "summed", !.reason = "persistence", !.settled = 0]
    /\ UNCHANGED <<have, repeats, walk, calls, published, notes, botched>>

EndMinuteRun ==
    /\ job.at = "summed"
    /\ job' = OffDuty /\ calls' = 0
    /\ UNCHANGED <<have, repeats, walk, published, notes, botched, slips>>

CrashMinuteRun ==
    /\ job.at \in {"walk", "publish"} /\ Slip(TRUE) /\ TornAppend
    /\ job' = OffDuty /\ walk' = FreshWalk /\ calls' = 0 /\ botched' = TRUE
    /\ UNCHANGED <<have, repeats, published>>

MinuteStep ==
    \/ StartMinuteRun \/ walk_kis_minute_day \/ StopWalking \/ PublishMinutes \/ append_minute_ledger \/ EndMinuteRun
MinuteNext == MinuteStep \/ FailCell \/ FailStaging \/ FailFinish \/ CrashMinuteRun

------------------------------------------------------------------------------
(* Properties *)

\* Every variable has its type.
MinuteTypeOK ==
    /\ job.at \in {"off", "walk", "publish", "summed"} /\ {job.left[k] : k \in DOMAIN job.left} \subseteq CellSet
    /\ walk.cursor \in 0..Close /\ walk.kept \subseteq 1..Close /\ calls \in 0..CallBudget
    /\ notes \subseteq CellSet \X {"complete", "vendor_empty"} /\ slips \in 0..MaxSlips

\* run_minute_backfill, "write partitions before ledger lines": what the ledger calls
\* complete is published with every bar the vendor has, and what it calls empty the
\* vendor does not have, over crashes, boundaries and failed writes.
MinuteLedgerTrue ==
    \A c \in CellSet :
        /\ <<c, "complete">> \in notes => \E k \in DOMAIN published[c] : published[c][k][2] = have[c]
        /\ <<c, "vendor_empty">> \in notes => have[c] = {}

\* No symbol-day is published by two runs, unless an earlier run was cut before its ledger
\* was written.
MinuteOnce == ~botched => \A c \in CellSet : Len(published[c]) <= 1

\* What the summary counts is in the ledger.  (After a token failure followed by a failed
\* write it counts cells that are not.)
SummaryTrue ==
    (job.at = "summed" /\ job.reason # "auth" /\ job.settled > 0) =>
        {job.lines[k] : k \in DOMAIN job.lines} \subseteq notes

\* The minute ledger: true of the vendor, written once, and no less than the summary claims.
MinuteLedgerSound == MinuteTypeOK /\ MinuteLedgerTrue /\ MinuteOnce /\ SummaryTrue

\* A walk of the cell ends: its bars reach the opening, it has none, or the vendor repeats
\* its first page.
CanSettle(c) == have[c] = {} \/ ReachesOpen(have[c]) \/ repeats

\* Every symbol-day gets into the ledger, whatever the call budget cuts off, if those
\* before it in the plan do.  (One that stays incomplete is walked again by every run and
\* uses up its calls.)
MinuteSettles ==
    []<>(\A k \in DOMAIN MinuteCells :
            (\A i \in 1..k : CanSettle(MinuteCells[i])) => MinuteCells[k] \in read_minute_ledger_done)
==============================================================================
