------------------------------- MODULE TapeRun --------------------------------
(* The tick-tape job, marketdata/tick_tape_backfill.py over marketdata/
   kiwoom_ticks.py: it walks the vendor's tape of each symbol from the newest
   tick back, stages the days it can certify, publishes them as partitions and
   then notes them in a ledger.  The ledger decides what the next run fetches and
   when the repair may start.  A run may stop at a boundary (page budget, deadline,
   stop request), fail, or crash. *)
EXTENDS Integers, Sequences, FiniteSets, FiniteSetsExt

CONSTANTS Symbols,      \* a sequence: the order of plan_tick_tape_targets
          Days,         \* wanted sessions, as numbers
          Tapes,        \* possible tapes: the day of each tick, newest first
          PageSize,     \* ticks of a page
          MaxTicks,     \* max_ticks_per_day
          FlushRows,    \* _FLUSH_ROW_LIMIT
          MaxUpsets     \* boundaries, failures and crashes

ASSUME TapeAssumption == PageSize \in Nat \ {0} /\ MaxTicks \in Nat /\ FlushRows \in Nat /\ MaxUpsets \in Nat

Names == {Symbols[k] : k \in DOMAIN Symbols}
Cells == Names \X Days

VARIABLES tape,         \* the vendor's tape of each symbol
          phase,        \* of the job: "ended", "walk" or "checkpoint"
          todo,         \* targets left in this pass; the first one is being walked
          pos,          \* ticks of it read so far
          chunks,       \* days of it written to staging
          goal,         \* the target days of this run
          retry,        \* pending_retry
          failures,     \* symbols to be noted as failed
          passes,       \* 1 in the main pass, 2 in the retry pass, 3 after them
          staged,       \* symbol-days in staging, of finished walks
          queue,        \* ledger_queue
          tapeLedger,   \* rows <<symbol, day, status>> of the ledger
          parts,        \* partitions that hold a symbol-day (2: more than one)
          short,        \* symbol-days published with fewer ticks than the vendor has
          noted,        \* history: rows of this run in the ledger
          cut,          \* history: this run met a boundary, was aborted or crashed
          spoiled,      \* history: some checkpoint was not finished
          upsets

jobVars == <<phase, todo, pos, chunks, goal, retry, failures, passes, staged, queue>>
tapeVars == <<tape, jobVars, tapeLedger, parts, short, noted, cut, spoiled, upsets>>

TapeUpset(b) == upsets + (IF b THEN 1 ELSE 0) <= MaxUpsets /\ upsets' = upsets + (IF b THEN 1 ELSE 0)

Count(s, d, upto) == Cardinality({k \in 1..upto : tape[s][k] = d})
Wanted(s) == {d \in Days : <<s, d>> \in goal}
TapeRows_(s, days, status) == {<<s, d, status>> : d \in days}

TapeInit ==
    /\ tape \in [Names -> Tapes]
    /\ phase = "ended" /\ todo = <<>> /\ pos = 0 /\ chunks = {} /\ goal = {} /\ retry = {} /\ failures = {}
    /\ passes = 3 /\ staged = {} /\ queue = {} /\ tapeLedger = {} /\ parts = [c \in Cells |-> 0] /\ short = {}
    /\ noted = {} /\ cut = FALSE /\ spoiled = FALSE /\ upsets = 0

read_ledger_done == {c \in Cells : \E st \in {"complete", "vendor_empty"} : <<c[1], c[2], st>> \in tapeLedger}

StartRun ==
    /\ phase = "ended" /\ Cells # read_ledger_done
    /\ goal' = Cells \ read_ledger_done
    /\ todo' = SelectSeq(Symbols, LAMBDA s : \E d \in Days : <<s, d>> \notin read_ledger_done)
    /\ phase' = "walk" /\ passes' = 1 /\ pos' = 0 /\ chunks' = {} /\ retry' = {} /\ failures' = {}
    /\ staged' = {} /\ queue' = {} /\ noted' = {} /\ cut' = FALSE
    /\ UNCHANGED <<tape, tapeLedger, parts, short, spoiled, upsets>>

-----------------------------------------------------------------------------
(* walk_symbol_tape, after `at` ticks. *)
Oldest(s, at) == tape[s][at]

\* Mutant: a day is whole as soon as the page ends.
CertifyPage(s, at) == {d \in Wanted(s) : Count(s, d, at) > 0}
\* A day is certified once an older tick was seen.
Certified(s, at) == {d \in Wanted(s) : at > 0 /\ Count(s, d, at) > 0 /\ d > Oldest(s, at)}

Breached(s, at) == {d \in Wanted(s) \ Certified(s, at) : Count(s, d, at) > MaxTicks}

vendor_empty(s, at, end) ==
    {d \in Wanted(s) :
        /\ at > 0 /\ Count(s, d, at) = 0
        /\ \/ d < tape[s][1] /\ d > Oldest(s, at) /\ \A e \in Breached(s, at) : d > e
           \/ end /\ d < Oldest(s, at)}

edge_partial(s, at, end) == {d \in Wanted(s) : end /\ at > 0 /\ d = Oldest(s, at)}

\* _process_target after the walk, and _flush_if_needed.
StagedRows(st) == MapThenSumSet(LAMBDA c : Count(c[1], c[2], Len(tape[c[1]])), st)
Finish(s, at, end, days) ==
    /\ staged' = staged \cup {<<s, d>> : d \in days}
    /\ queue' = queue \cup TapeRows_(s, days, "complete") \cup TapeRows_(s, vendor_empty(s, at, end), "vendor_empty")
                      \cup TapeRows_(s, edge_partial(s, at, end), "edge_partial")
    /\ failures' = failures \ {s} /\ retry' = retry \ {s}
    /\ phase' = IF StagedRows(staged') > FlushRows THEN "checkpoint" ELSE "walk"
    /\ pos' = 0 /\ chunks' = {}

\* One page: certified days go to staging, then the walk goes on or ends.
WalkPage ==
    /\ phase = "walk" /\ todo # <<>>
    /\ LET s == Head(todo)
           at == IF pos + PageSize < Len(tape[s]) THEN pos + PageSize ELSE Len(tape[s])
           over == Breached(s, at) # {}
           crossed == at > 0 /\ \A d \in Wanted(s) : Oldest(s, at) < d
           end == at = Len(tape[s]) /\ ~over /\ ~crossed
       IN /\ short' = short \cup {<<s, d>> : d \in {d \in Certified(s, at) \ chunks : Count(s, d, at) < Count(s, d, Len(tape[s]))}}
          /\ IF over \/ crossed \/ end
             THEN /\ Finish(s, at, end, chunks \cup Certified(s, at)) /\ todo' = Tail(todo)
             ELSE /\ pos' = at /\ chunks' = chunks \cup Certified(s, at)
                  /\ UNCHANGED <<phase, todo, retry, failures, staged, queue>>
    /\ UNCHANGED <<tape, goal, passes, tapeLedger, parts, noted, cut, spoiled, upsets>>

\* A boundary inside the walk keeps what is certified; either way no further target is taken.
Boundary ==
    /\ phase = "walk" /\ todo # <<>> /\ TapeUpset(TRUE)
    /\ \/ Finish(Head(todo), pos, FALSE, chunks)
       \/ pos = 0 /\ UNCHANGED <<phase, pos, chunks, retry, failures, staged, queue>>
    /\ todo' = <<>> /\ passes' = 2 /\ cut' = TRUE
    /\ UNCHANGED <<tape, goal, tapeLedger, parts, short, noted, spoiled>>

\* A symbol fails: transient and throttled ones are tried again in the retry pass.
FailSymbol ==
    /\ phase = "walk" /\ todo # <<>> /\ TapeUpset(TRUE)
    /\ LET s == Head(todo) IN
       /\ failures' = failures \cup {s}
       /\ \E retryable \in BOOLEAN :
             retry' = IF ~retryable THEN retry \ {s} ELSE IF passes = 1 THEN retry \cup {s} ELSE retry
    /\ todo' = Tail(todo) /\ pos' = 0 /\ chunks' = {}
    /\ UNCHANGED <<tape, phase, goal, passes, staged, queue, tapeLedger, parts, short, noted, cut, spoiled>>

\* The second rejected token ends the run; what is staged is still published.
AbortAuth ==
    /\ phase = "walk" /\ todo # <<>> /\ TapeUpset(TRUE)
    /\ phase' = "checkpoint" /\ passes' = 3 /\ todo' = <<>> /\ pos' = 0 /\ chunks' = {} /\ cut' = TRUE
    /\ UNCHANGED <<tape, goal, retry, failures, staged, queue, tapeLedger, parts, short, noted, spoiled>>

EndPass ==
    /\ phase = "walk" /\ todo = <<>>
    /\ IF passes = 1 /\ retry # {}
       THEN passes' = 2 /\ todo' = SelectSeq(Symbols, LAMBDA s : s \in retry) /\ UNCHANGED <<phase, queue>>
       ELSE /\ passes' = 3 /\ phase' = "checkpoint" /\ UNCHANGED todo
            /\ queue' = queue \cup UNION {TapeRows_(s, Wanted(s), "failed") : s \in failures}
    /\ UNCHANGED <<tape, pos, chunks, goal, retry, failures, staged, tapeLedger, parts, short, noted, cut, spoiled, upsets>>

-----------------------------------------------------------------------------
(* _checkpoint: the partitions, day by day, then the rows of the ledger. *)
PublishDay ==
    /\ phase = "checkpoint" /\ staged # {}
    /\ LET d == Min({c[2] : c \in staged}) IN
       /\ parts' = [c \in Cells |-> IF c \in staged /\ c[2] = d THEN IF parts[c] = 0 THEN 1 ELSE 2 ELSE parts[c]]
       /\ staged' = {c \in staged : c[2] # d}
    /\ UNCHANGED <<tape, phase, todo, pos, chunks, goal, retry, failures, passes, queue, tapeLedger, short, noted, cut, spoiled, upsets>>

_append_ledger_lines ==
    /\ phase = "checkpoint" /\ staged = {}
    /\ tapeLedger' = tapeLedger \cup queue /\ noted' = noted \cup queue /\ queue' = {}
    /\ phase' = IF passes = 3 THEN "ended" ELSE "walk"
    /\ UNCHANGED <<tape, todo, pos, chunks, goal, retry, failures, passes, staged, parts, short, cut, spoiled, upsets>>

\* An I/O error in staging or in a checkpoint ends the run without one; a crash ends it
\* anywhere.  A write of the ledger that is interrupted leaves some of its lines.
Stop ==
    /\ phase # "ended" /\ TapeUpset(TRUE)
    /\ \E lines \in IF phase = "checkpoint" /\ staged = {} THEN SUBSET queue ELSE {{}} :
          tapeLedger' = tapeLedger \cup lines /\ noted' = noted \cup lines
    /\ phase' = "ended" /\ todo' = <<>> /\ pos' = 0 /\ chunks' = {} /\ retry' = {} /\ failures' = {}
    /\ passes' = 3 /\ staged' = {} /\ queue' = {} /\ cut' = TRUE
    /\ spoiled' = (spoiled \/ phase = "checkpoint")
    /\ UNCHANGED <<tape, goal, parts, short>>

TapeStep == WalkPage \/ EndPass \/ PublishDay \/ _append_ledger_lines
TapeNext == StartRun \/ TapeStep \/ Boundary \/ FailSymbol \/ AbortAuth \/ Stop
TapeSpec == TapeInit /\ [][TapeNext]_tapeVars
-----------------------------------------------------------------------------
TapeTypeOK ==
    /\ phase \in {"ended", "walk", "checkpoint"} /\ passes \in 1..3 /\ upsets \in 0..MaxUpsets
    /\ staged \subseteq Cells /\ goal \subseteq Cells /\ retry \subseteq failures /\ failures \subseteq Names
    /\ (queue \cup tapeLedger) \subseteq Names \X Days \X {"complete", "vendor_empty", "edge_partial", "failed"}

HasRow(s, d) == Count(s, d, Len(tape[s])) > 0
NewerTick(s, d) == \E k \in DOMAIN tape[s] : tape[s][k] > d
OlderTick(s, d) == \E k \in DOMAIN tape[s] : tape[s][k] < d

\* However the tape is cut into pages and wherever a run stops, what the ledger says of a
\* day is true of the vendor's tape: a complete day has all its ticks in a partition and
\* is not the last of the tape, an empty one has none and lies before the newest tick.
LedgerTrue ==
    /\ short = {}
    /\ \A <<s, d>> \in Cells :
          /\ <<s, d, "complete">> \in tapeLedger => HasRow(s, d) /\ OlderTick(s, d) /\ parts[<<s, d>>] > 0
          /\ <<s, d, "vendor_empty">> \in tapeLedger => ~HasRow(s, d) /\ NewerTick(s, d)
          /\ <<s, d, "edge_partial">> \in tapeLedger => HasRow(s, d) /\ ~OlderTick(s, d)

\* A day is published twice only after a checkpoint that was not finished.
PublishedOnce == spoiled \/ \A c \in Cells : parts[c] < 2

TooMany(s, d) == Count(s, d, Len(tape[s])) > MaxTicks
Ledgerable(s, d) == NewerTick(s, d) \/ HasRow(s, d)

\* A run that ran to its end has a row for each of its target days, so the attempts are
\* counted (read_ledger_attempts); it has none only where the vendor shows no tick of the
\* day or later, or where a day above the limit stops the walk.
RunAccounts ==
    (phase = "ended" /\ ~cut) =>
        \A <<s, d>> \in goal :
            \/ \E st \in {"complete", "vendor_empty", "edge_partial", "failed"} : <<s, d, st>> \in noted
            \/ ~Ledgerable(s, d)
            \/ \E e \in Days : e >= d /\ TooMany(s, e)

\* The tape ledger: true of the vendor, written once, and with a row for each day a run was to fetch.
TapeLedgerSound == TapeTypeOK /\ LedgerTrue /\ PublishedOnce /\ RunAccounts

\* If runs keep being started and the upsets end, each day is settled, unless it is the
\* last of the tape, the vendor shows nothing of it or later, or a day above the limit is met.
TapeSettles ==
    <>[](\A <<s, d>> \in Cells :
            \/ \E st \in {"complete", "vendor_empty", "edge_partial"} : <<s, d, st>> \in tapeLedger
            \/ ~Ledgerable(s, d) \/ \E e \in Days : e >= d /\ TooMany(s, e))
=============================================================================
