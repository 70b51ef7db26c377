------------------------------ MODULE TickAudit ------------------------------
(* The loss ledger of one symbol, storage/l0_audit.py: the vendor numbers the
   trades of a symbol, and the audit reads the journal in reception order and
   turns jumps of the counter into loss intervals.  Two connections overlap in a
   handover and the vendor delivers the trades of one second out of order, so a
   counter may arrive late, or again.

   A frame is a connection and a counter; every trade has volume one, so an
   interval always has a volume deficit and is of kind "confirmed". *)
EXTENDS Integers, Sequences, FiniteSets, SequencesExt

CONSTANTS Counters,        \* the counters of the day: 1..n
          Conns,           \* connection ids
          Confirm,         \* counter_reset_confirm_frames
          MaxIntervals,    \* max_intervals_per_symbol
          MaxRepeats       \* counters that arrive again

ASSUME AuditAssumption == Confirm \in Nat \ {0, 1} /\ MaxIntervals \in Nat \ {0} /\ MaxRepeats \in Nat

VARIABLES seg,       \* _Segment and the counts of _SymbolState
          got,       \* history: the counters that have arrived
          repeats,   \* history: frames whose counter had arrived before
          early      \* history: frames below the first counter

auditVars == <<seg, got, repeats, early>>

Nothing == [conn |-> "none", cum |-> 0]
AuditInit ==
    /\ seg = [first |-> 0, max |-> Nothing, run |-> <<>>, intervals |-> <<>>, count |-> 0, made |-> 0, confirmed |-> 0,
              accepted |-> 0, net |-> 0, conns |-> {}, resets |-> 0]
    /\ got = {} /\ repeats = 0 /\ early = 0

\* The interval list is sorted by size, then by age, and cut, whenever one is appended.
Larger(a, b) == a.missing > b.missing \/ (a.missing = b.missing /\ a.no < b.no)
Cut(list) == LET sorted == SortSeq(list, Larger) IN SubSeq(sorted, 1, IF Len(list) > MaxIntervals THEN MaxIntervals ELSE Len(list))
LossInterval(s, f, missing) == [lo |-> s.max.cum, hi |-> f.cum, missing |-> missing, no |-> s.made]

Advanced(s, f, missing) ==
    LET moved == [s EXCEPT !.max = f, !.accepted = @ + 1]
    IN IF missing < 1 THEN moved
       ELSE [moved EXCEPT !.intervals = Cut(Append(@, LossInterval(s, f, missing))),
                          !.count = @ + 1, !.made = @ + 1, !.confirmed = @ + missing]
record_advance(s, f) == Advanced(s, f, f.cum - s.max.cum - 1)

\* A frame of an earlier connection after another one has advanced the counter.
is_overlap(s, f) == s.first # 0 /\ f.cum <= s.max.cum /\ f.conn # s.max.conn /\ f.conn \in s.conns
fills_open_interval(s, f) == s.first # 0 /\ f.cum < s.max.cum /\ \E k \in DOMAIN s.intervals : s.intervals[k].lo <= f.cum /\ f.cum <= s.intervals[k].hi

Holding(s, f) == {k \in DOMAIN s.intervals : s.intervals[k].lo < f.cum /\ f.cum < s.intervals[k].hi}
\* Mutant: the interval is closed by the first late frame.
AbsorbWhole(s, f) ==
    IF Holding(s, f) = {} THEN s
    ELSE LET k == Min(Holding(s, f)) IN
         [s EXCEPT !.intervals = RemoveAt(@, k), !.count = @ - 1, !.confirmed = @ - s.intervals[k].missing, !.accepted = @ + 1]
absorb_overlap(s, f) ==
    IF Holding(s, f) = {} THEN s
    ELSE LET k == Min(Holding(s, f))
             found == [s EXCEPT !.confirmed = @ - 1, !.accepted = @ + 1]
         IN IF s.intervals[k].missing = 1 THEN [found EXCEPT !.intervals = RemoveAt(@, k), !.count = @ - 1]
            ELSE [found EXCEPT !.intervals[k].missing = @ - 1]

\* A counter below the high that no interval explains; Confirm of them in order are a reset.
NonDecreasing(run) == \A k \in 1 .. Len(run) - 1 : run[k].cum <= run[k + 1].cum
Tail3(run) == SubSeq(run, IF Len(run) > Confirm THEN Len(run) - Confirm + 1 ELSE 1, Len(run))
Regress(s, f) ==
    LET run == Tail3(Append(s.run, f))
        restarted == [s EXCEPT !.net = @ + (s.max.cum - s.first) - (s.accepted - 1), !.first = run[1].cum,
                               !.max = run[1], !.accepted = 1, !.run = <<>>, !.resets = @ + 1]
        advance[k \in 1 .. Confirm] == IF k = 1 THEN restarted ELSE record_advance(advance[k - 1], run[k])
    IN IF Len(run) >= Confirm /\ NonDecreasing(run) THEN advance[Confirm] ELSE [s EXCEPT !.run = run]

Same(f, g) == f.cum = g.cum                \* _is_duplicate: equal content, whatever the connection
advance_segment(s, f) ==
    IF (s.first # 0 /\ Same(s.max, f)) \/ (s.run # <<>> /\ Same(s.run[Len(s.run)], f)) THEN s
    ELSE IF is_overlap(s, f) \/ fills_open_interval(s, f) THEN absorb_overlap(s, f)
    ELSE LET seen == [s EXCEPT !.conns = @ \cup {f.conn}] IN
         IF s.first = 0 THEN [seen EXCEPT !.first = f.cum, !.max = f, !.accepted = 1]
         ELSE IF f.cum < s.max.cum THEN Regress(seen, f)
         ELSE record_advance([seen EXCEPT !.run = <<>>], f)

Read(f) ==
    /\ seg' = advance_segment(seg, f)
    /\ got' = got \cup {f.cum}
    /\ repeats' = repeats + (IF f.cum \in got THEN 1 ELSE 0) /\ repeats' <= MaxRepeats
    /\ early' = early + (IF seg.first > f.cum /\ f.cum \notin got THEN 1 ELSE 0)

AuditNext == \E c \in Conns, n \in Counters : Read([conn |-> c, cum |-> n])
AuditSpec == AuditInit /\ [][AuditNext]_auditVars

net_missing(s) == s.net + (s.max.cum - s.first) - (s.accepted - 1)      \* finalize_ledger

-----------------------------------------------------------------------------
AuditTypeOK ==
    /\ got \subseteq Counters /\ repeats \in 0..MaxRepeats /\ early \in 0 .. Cardinality(Counters)
    /\ seg.intervals \in Seq([lo : Counters, hi : Counters, missing : Counters, no : 0 .. seg.made])
    /\ Len(seg.run) <= Confirm /\ seg.conns \subseteq Conns /\ seg.count >= Len(seg.intervals)

Lost == {n \in Counters : \E a, b \in got : a < n /\ n < b} \ got
Intervals == Range(seg.intervals)
Uncut == seg.count = Len(seg.intervals)     \* no interval was cut

\* Whatever the order of arrival over the connections, both counts of the ledger are
\* exactly the trades that never came, as long as each comes once and none before the
\* first (record_advance, is_overlap, fills_open_interval and absorb_overlap together).
LossExact ==
    (got # {} /\ repeats = 0 /\ early = 0 /\ Uncut) =>
        seg.confirmed = Cardinality(Lost) /\ net_missing(seg) = Cardinality(Lost)

\* Counters that come again never make the ledger report more than was lost, as long as
\* they are fewer than the frames that confirm a counter reset.
LossNotOver == (repeats < Confirm /\ early = 0 /\ Uncut) => seg.confirmed <= Cardinality(Lost)

\* The intervals lie apart and hold the loss: every lost counter is strictly inside one,
\* and each counts the counters lost inside it.  The repair looks nowhere else.
IntervalsCover ==
    (repeats = 0 /\ early = 0 /\ Uncut) =>
        /\ \A n \in Lost : \E i \in Intervals : i.lo < n /\ n < i.hi
        /\ \A i \in Intervals : i.missing = Cardinality({n \in Lost : i.lo < n /\ n < i.hi})
        /\ \A i, j \in Intervals : i = j \/ i.hi <= j.lo \/ j.hi <= i.lo

\* The loss ledger of a symbol counts the lost trades and knows where they are missing.
LossLedgerTrue == AuditTypeOK /\ LossNotOver /\ LossExact /\ IntervalsCover
=============================================================================
