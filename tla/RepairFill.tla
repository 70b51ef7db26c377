----------------------------- MODULE RepairFill ------------------------------
(* Repair of one audited symbol-day: storage/l0_gapfill.py looks for the lost
   trades in a peer vendor's journal and in the tick tape, storage/
   l0_repair_merge.py merges live and found trades into the table that replaces
   the journal.  The two stages may run in different nights, with another run of
   the tape job in between.

   Trade n has counter n and volume one, so n is also its cumulative volume.  The
   live frames came as a rising pass and late ones (TickAudit). *)
EXTENDS Integers, Sequences, FiniteSets, SequencesExt, FiniteSetsExt

CONSTANTS Trades,      \* 1..n, in the order of the venue
          Seconds,     \* chetime
          Prices,
          Unheard      \* a trade the tape's vendor may lack

VARIABLES sec, price,      \* of each trade
          rising, late,    \* the live frames
          peer,            \* trades in the peer's journal
          runs,            \* tape runs with this symbol-day: the trades each has
          done,            \* how far the day is: "audited", "filled", "merged" or "mismatch"
          fills,           \* rows of the gap-fill file
          report,          \* recovered trades by interval (and of those from the peer)
          table,           \* rows of the repaired table
          unplaced         \* tape_topup_unplaced

repairVars == <<sec, price, rising, late, peer, runs, done, fills, report, table, unplaced>>
RepairInputs == <<sec, price, rising, late, peer>>

What(n) == <<sec[n], price[n]>>
Before(j, k) == j < k
Sorted(S, Less(_, _)) == [k \in 1 .. Cardinality(S) |-> CHOOSE x \in S : Cardinality({y \in S : Less(y, x)}) = k - 1]
Live == rising \cup late

-----------------------------------------------------------------------------
(* The audited intervals, in the order of the audit: larger ones first. *)
Missing(i) == Cardinality((i.lo + 1 .. i.hi - 1) \ late)
Gaps ==
    {i \in [lo : rising, hi : rising] :
        i.lo < i.hi /\ (i.lo + 1 .. i.hi - 1) \cap rising = {} /\ Missing(i) > 0}

derive_cross_vendor_fill(i) ==
    LET found == {n \in peer : i.lo < n /\ n < i.hi}
    IN IF Cardinality(found) <= Missing(i) THEN found ELSE {}

Left(i) == Missing(i) - Cardinality(derive_cross_vendor_fill(i))
Open == {i \in Gaps : Left(i) > 0}

\* Gaps whose second ranges touch share a cluster, members in time order.
Sooner(i, j) ==
    \/ sec[i.lo] < sec[j.lo]
    \/ sec[i.lo] = sec[j.lo] /\ (Missing(i) > Missing(j) \/ (Missing(i) = Missing(j) /\ i.lo < j.lo))
_clusters ==
    LET Join(acc, i) ==
            IF acc # <<>> /\ \E j \in Range(Last(acc)) : sec[i.lo] <= sec[j.hi]
            THEN [acc EXCEPT ![Len(acc)] = Append(@, i)] ELSE Append(acc, <<i>>)
    IN FoldLeft(Join, <<>>, Sorted(Open, Sooner))

\* load_tape_for_symbols: all runs, one after the other.
Tape == FoldLeft(LAMBDA acc, run : acc \o Sorted(run, Before), <<>>, runs)

\* What the live frames, and the peer, already have of each kind of trade.
received(found) ==
    [w \in Seconds \X Prices |-> Cardinality({n \in Live : What(n) = w}) + Cardinality({n \in found : What(n) = w})]

\* Positions of the tape in the cluster's seconds, less the ones already had.
_pooled_rows(cluster, tape, have) ==
    LET from == sec[cluster[1].lo]
        to == {sec[i.hi] : i \in Range(cluster)}
        nth(k) == Cardinality({j \in 1..k : What(tape[j]) = What(tape[k])})
        left == {k \in DOMAIN tape : /\ from <= sec[tape[k]] /\ \E s \in to : sec[tape[k]] <= s
                                     /\ nth(k) > have[What(tape[k])]}
    IN Sorted(left, LAMBDA j, k : sec[tape[j]] < sec[tape[k]] \/ (sec[tape[j]] = sec[tape[k]] /\ j < k))

\* With volumes of one _trim_surplus drops the latest rows; the rest is handed out in member order.
TapeRows(cluster, tape, have) ==
    LET pool == _pooled_rows(cluster, tape, have)
        upto(m) == FoldLeft(LAMBDA acc, i : acc + Left(i), 0, SubSeq(cluster, 1, m))
    IN UNION {{[gap |-> cluster[m], what |-> What(tape[pool[k]]), seq |-> pool[k], peer |-> FALSE] :
                  k \in {k \in DOMAIN pool : upto(m - 1) < k /\ k <= upto(m)}} : m \in DOMAIN cluster}
derive_gapfill ==
    LET tape == Tape
        found == [i \in Gaps |-> derive_cross_vendor_fill(i)]
        have == received(UNION Range(found))
    IN UNION {{[gap |-> i, what |-> What(n), seq |-> n, peer |-> TRUE] : n \in found[i]} : i \in DOMAIN found}
       \cup UNION {TapeRows(c, tape, have) : c \in Range(_clusters)}

\* The repair job fills the gaps: rows and report are written together.
FillGaps ==
    /\ done = "audited" /\ done' = "filled"
    /\ LET rows == derive_gapfill IN
       /\ fills' = rows
       /\ report' = [i \in Gaps |-> Cardinality({r \in rows : r.gap = i})]
    /\ UNCHANGED <<RepairInputs, runs, table, unplaced>>

-----------------------------------------------------------------------------
(* _build_repaired_ticks: the fills, in time order, take the free counters of
   their gap; one that equals a late live frame of the gap is that frame. *)
Filled(i) == \E r \in fills : r.gap = i
Ordered(rows) == Sorted(rows, LAMBDA a, b : a.what[1] < b.what[1] \/ (a.what[1] = b.what[1] /\ a.seq < b.seq)
                                              \/ (a.what[1] = b.what[1] /\ a.seq = b.seq /\ a.peer /\ ~b.peer))
LateOf(i) == {n \in Live : i.lo < n /\ n < i.hi}
FreeSlots(m, i) == {s \in m.next[i] .. i.hi - 1 : s \notin m.taken}

TakeSlot(m, r) ==
    IF FreeSlots(m, r.gap) = {} THEN [m EXCEPT !.dropped = @ + 1]
    ELSE LET slot == Min(FreeSlots(m, r.gap)) IN
         [m EXCEPT !.rows = @ \cup {[cum |-> slot, what |-> r.what, from |-> "fill"]},
                   !.taken = @ \cup {slot}, !.next[r.gap] = slot + 1]
Place(m, r) ==
    LET twins == {n \in m.late : r.gap.lo < n /\ n < r.gap.hi /\ What(n) = r.what}
    IN IF twins # {} THEN [m EXCEPT !.late = @ \ {Min(twins)}]
       ELSE TakeSlot(m, r)

Merged ==
    LET start == [rows |-> {[cum |-> n, what |-> What(n), from |-> "live"] : n \in Live}, taken |-> Live,
                  late |-> UNION {LateOf(i) : i \in {g \in Gaps : Filled(g)}}, dropped |-> 0, next |-> [i \in Gaps |-> i.lo + 1]]
    IN FoldLeft(Place, start, Ordered(fills))

\* _load_tape_rows: the largest run, the first of equals.
BestRun == CHOOSE k \in DOMAIN runs : \A j \in DOMAIN runs :
               Cardinality(runs[j]) < Cardinality(runs[k]) \/ (Cardinality(runs[j]) = Cardinality(runs[k]) /\ k <= j)

\* _apply_tape_topup: tape trades the table lacks, into free counters whose neighbours bracket their second.
Lacking(rows) ==
    LET nth(n) == Cardinality({m \in runs[BestRun] : m <= n /\ What(m) = What(n)})
        want(w) == Cardinality({m \in runs[BestRun] : What(m) = w})
        have(w) == Cardinality({r \in rows : r.what = w})
    IN IF runs = <<>> THEN <<>>
       ELSE Sorted({n \in runs[BestRun] : nth(n) <= want(What(n)) - have(What(n))},
                         LAMBDA a, b : sec[a] < sec[b] \/ (sec[a] = sec[b] /\ a < b))
TopGaps(rows) ==
    LET cums == Sorted({r.cum : r \in rows}, Before)
        at(c) == (CHOOSE r \in rows : r.cum = c).what[1]
        gap == [k \in DOMAIN cums |-> [lo |-> IF k = 1 THEN 0 ELSE cums[k - 1], hi |-> cums[k],
                                       from |-> IF k = 1 THEN 0 ELSE at(cums[k - 1]), to |-> at(cums[k])]]
    IN SelectSeq(gap, LAMBDA g : g.hi - g.lo > 1)

Bracket(trades, acc, g) ==
    LET pointer == {k \in DOMAIN trades : k >= acc.pointer /\ k \notin acc.used /\ sec[trades[k]] >= g.from}
        first == IF pointer = {} THEN Len(trades) + 1 ELSE Min(pointer)
        fit == Sorted({k \in first .. Len(trades) : k \notin acc.used /\ sec[trades[k]] <= g.to}, Before)
        take == SubSeq(fit, 1, IF Len(fit) < g.hi - g.lo - 1 THEN Len(fit) ELSE g.hi - g.lo - 1)
    IN [pointer |-> first, used |-> acc.used \cup Range(take),
        rows |-> acc.rows \cup {[cum |-> g.lo + k, what |-> What(trades[take[k]]), from |-> "topup"] : k \in DOMAIN take}]

\* Mutant: no top-up.
NoTopup(rows) == [rows |-> rows, left |-> 0]
_apply_tape_topup(rows) ==
    LET trades == Lacking(rows)
        end == FoldLeft(LAMBDA acc, g : Bracket(trades, acc, g), [pointer |-> 1, used |-> {}, rows |-> rows], TopGaps(rows))
    IN [rows |-> end.rows, left |-> Len(trades) - Cardinality(end.used)]

\* overfill_tolerance_ratio is 0.02.
build_repaired_ticks ==
    /\ done = "filled"
    /\ LET m == Merged
           top == _apply_tape_topup(m.rows)
       IN IF m.dropped * 50 > Cardinality(fills) THEN done' = "mismatch" /\ UNCHANGED <<table, unplaced>>
          ELSE done' = "merged" /\ table' = top.rows /\ unplaced' = top.left
    /\ UNCHANGED <<RepairInputs, runs, fills, report>>

-----------------------------------------------------------------------------
Rising(f) == \A m, n \in Trades : m <= n => f[m] <= f[n]
LastTrade == CHOOSE n \in Trades : \A m \in Trades : m <= n

\* The tape job publishes a run of the day, and a second one if it stopped before the ledger
\* said so.  The repair waits for the ledger, which may also say that the vendor has nothing.
Publish == \E run \in {Trades, Trades \ {Unheard}} :
    /\ Len(runs) < 2 /\ (runs # <<>> => run = Trades) /\ done = "audited"
    /\ runs' = Append(runs, run)
    /\ UNCHANGED <<RepairInputs, done, fills, report, table, unplaced>>

\* The last trade is live: what is lost after the last frame shows in no counter.
RepairInit ==
    /\ sec \in {f \in [Trades -> Seconds] : Rising(f)} /\ price \in {f \in [Trades -> Prices] : f[1] = 1}
    /\ rising \in {r \in SUBSET Trades : LastTrade \in r}
    /\ late \in SUBSET {n \in Trades \ rising : \E m \in rising : m < n}
    /\ peer \in SUBSET (Trades \ {1, LastTrade})
    /\ runs = <<>> /\ done = "audited" /\ fills = {} /\ report = <<>> /\ table = {} /\ unplaced = 0

RepairNext == FillGaps \/ build_repaired_ticks \/ Publish
RepairSpec == RepairInit /\ [][RepairNext]_repairVars

-----------------------------------------------------------------------------
Built == done = "merged"
RepairTypeOK ==
    /\ Len(runs) <= 2 /\ unplaced \in 0 .. Cardinality(Trades)
    /\ Built => \A r \in table : r.cum \in Trades /\ r.what \in Seconds \X Prices

\* No gap is reported to have more trades found than it lost, and its rows are as many as the report says.
FillsWithinLoss == \A i \in DOMAIN report : report[i] <= Missing(i)

\* Two rows of the table never share a counter: fills and top-up take free ones only.
SlotsUnique == Built => \A r, s \in table : r.cum = s.cum => r = s

Copies(w) == Cardinality({r \in table : r.what = w})
Truly(w) == Cardinality({n \in Trades : What(n) = w})

\* The table holds no trade more often than the venue traded it, as long as the tape has
\* the day once: the gap-fill reads the runs of a day one after the other, and with two
\* of them it takes a live trade's second copy for a lost one.
NothingInvented == (Built /\ Len(runs) <= 1) => \A w \in Seconds \X Prices : Copies(w) <= Truly(w)

OneWholeTape == runs = <<Trades>>
LackOf(w) == Truly(w) - Copies(w)

Mistaken == \E n \in late : n \in peer \/ \E m \in Trades \ Live : What(m) = What(n)

\* With one whole tape the table is complete if the audit saw the first trade, unless a
\* late live frame is found again at the peer or has the second and price of a lost trade:
\* the gap-fill has then taken it off already and the merge takes it off again.  What the
\* table lacks, tape_topup_unplaced counts in every case.
TableComplete ==
    (Built /\ OneWholeTape) =>
        /\ (1 \in rising /\ ~Mistaken) => \A w \in Seconds \X Prices : LackOf(w) = 0
        /\ MapThenSumSet(LackOf, Seconds \X Prices) = unplaced

\* The repaired table has each trade of the venue once (derive_cross_vendor_fill, the merge, the top-up).
RepairExact == RepairTypeOK /\ FillsWithinLoss /\ SlotsUnique /\ NothingInvented /\ TableComplete
=============================================================================
