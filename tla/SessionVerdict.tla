---------------------------- MODULE SessionVerdict ----------------------------
(* The verdict of the end of day on the regular session: _clip_merge_spans,          *)
(* _split_silent_loss_spans, evaluate_session_gap_budget and                         *)
(* check_session_reconciliation of src/orchestration/eod.py, over the manifests that  *)
(* _reconcile_regular_session goes through.  The state is the evidence, which grows   *)
(* as the session loses data; ratios are percentages of the trades observed.  A       *)
(* breaching symbol is one with enough trades and too many of them lost.              *)
EXTENDS Integers, Sequences, FiniteSets, TLC, Functions

CONSTANTS Manifests, Instruments,
          RegOpen, RegClose, LastSecond, \* the session, and the seconds 0..LastSecond
          MaxGap,                        \* MAX_SESSION_GAP_S
          FailPct, SymbolFailPct, SymbolMinTrades, TailMax, \* AuditSettings
          TradeCounts,                   \* trades observed, for each instrument
          MaxEvidence                    \* gaps, losses and silences recorded

VARIABLES setup,   \* mode, audit ("NONE": none of this day that is OK or PARTIAL), repair_pending, trades
          spans,   \* the gaps of the manifests: <<manifest, start, end>>
          losses,  \* lost trades: <<instrument, second>>
          tail,    \* tail_silence_s
          holes,   \* structural issues: manifests or journals missing or unreadable
          failed   \* history: the session already had evidence it fails on

verdictVars == <<setup, spans, losses, tail, holes, failed>>

VerdictInit ==
    /\ setup \in [mode : {"OFF", "SHADOW", "ENFORCE"}, audit : {"OK", "PARTIAL", "NONE"},
                  pending : BOOLEAN, trades : [Instruments -> TradeCounts]]
    /\ spans = <<>> /\ losses = {} /\ tail = 0 /\ holes = {} /\ failed = FALSE

Evidence == Len(spans) + Cardinality(losses) + tail + Cardinality(holes)

------------------------------------------------------------------------------
(* The evaluation *)

\* An unreadable manifest has no gaps.
GapsOf(m) == IF m \in holes THEN <<>> ELSE SelectSeq(spans, LAMBDA g : g[1] = m)

ExtendOrAppend(merged, g) ==
    IF merged # <<>> /\ g[1] <= merged[Len(merged)][2]
    THEN [merged EXCEPT ![Len(merged)] = <<@[1], IF g[2] > @[2] THEN g[2] ELSE @[2]>>]
    ELSE Append(merged, g)

Clip(g) == <<IF g[2] < RegOpen THEN RegOpen ELSE g[2], IF g[3] > RegClose THEN RegClose ELSE g[3]>>
Earlier(g, h) == g[1] < h[1] \/ (g[1] = h[1] /\ g[2] <= h[2])

\* Clipped to the session, sorted, merged where they touch.
_clip_merge_spans(gaps) ==
    LET clipped == SelectSeq([k \in DOMAIN gaps |-> Clip(gaps[k])], LAMBDA g : g[2] > g[1])
        sorted  == SortSeq(clipped, Earlier)
        merged[k \in 0..Len(sorted)] == IF k = 0 THEN <<>> ELSE ExtendOrAppend(merged[k - 1], sorted[k])
    IN  merged[Len(sorted)]

Length(merged) ==
    LET sum[k \in 0..Len(merged)] == IF k = 0 THEN 0 ELSE sum[k - 1] + merged[k][2] - merged[k][1]
    IN  sum[Len(merged)]

\* A span is one of loss if a confirmed loss of the session lies in it.
Touched(g) == \E l \in losses : g[1] <= l[2] /\ l[2] < g[2]
_split_silent_loss_spans(merged) ==
    <<Length(SelectSeq(merged, LAMBDA g : ~Touched(g))), Length(SelectSeq(merged, Touched))>>

LostOf(i)    == Cardinality({l \in losses : l[1] = i})
Traded     == SumFunction(setup.trades)
OverGap(m) == Length(_clip_merge_spans(GapsOf(m))) > MaxGap

LegacyReasons(m) == IF OverGap(m) THEN {"gap"} ELSE {}

Breaching(i) ==
    setup.trades[i] >= SymbolMinTrades /\ setup.trades[i] > 0 /\ 100 * LostOf(i) > SymbolFailPct * setup.trades[i]

LedgerAlone(m) ==
    (IF 100 * Cardinality(losses) > FailPct * Traded THEN {"trade_loss"} ELSE {})
        \cup (IF \E i \in Instruments : Breaching(i) THEN {"symbol_loss"} ELSE {})
        \cup (IF tail > TailMax THEN {"tail"} ELSE {})

\* evaluate_session_gap_budget: the reasons of a FAIL.
evaluate_session_gap_budget(m) ==
    LedgerAlone(m) \cup (IF setup.audit = "PARTIAL" /\ OverGap(m) THEN {"gap"} ELSE {})

LossReasons == {"trade_loss", "symbol_loss"}

PendingAny(m) ==
    IF setup.mode = "OFF" \/ setup.audit = "NONE" \/ Traded = 0 \/ setup.mode = "SHADOW"
    THEN m \notin holes /\ LegacyReasons(m) = {}
    ELSE LET reasons == evaluate_session_gap_budget(m)
         IN  m \notin holes /\ (reasons = {} \/ (setup.pending /\ reasons \cap LossReasons # {}))

\* Without a usable audit, and in shadow mode, the time budget decides; otherwise the
\* ledger of lost trades, where losses alone wait for the repair.
check_session_reconciliation(m) ==
    IF setup.mode = "OFF" \/ setup.audit = "NONE" \/ Traded = 0 \/ setup.mode = "SHADOW"
    THEN m \notin holes /\ LegacyReasons(m) = {}
    ELSE LET reasons == evaluate_session_gap_budget(m)
         IN  m \notin holes /\ (reasons = {} \/ (setup.pending /\ reasons \subseteq LossReasons))

_reconcile_regular_session == \A m \in Manifests : check_session_reconciliation(m)

------------------------------------------------------------------------------
(* The evidence *)

\* A gap is recorded when it ends.
NoteSpan ==
    /\ \E m \in Manifests, s, e \in 0..LastSecond :
        /\ s < e /\ (spans # <<>> => spans[Len(spans)][3] <= e)
        /\ spans' = Append(spans, <<m, s, e>>)
    /\ UNCHANGED <<setup, losses, tail, holes>>
LoseOne ==
    /\ \E i \in Instruments, s \in RegOpen..(RegClose - 1) :
        setup.trades[i] > 0 /\ <<i, s>> \notin losses /\ losses' = losses \cup {<<i, s>>}
    /\ UNCHANGED <<setup, spans, tail, holes>>
TailGrows == tail' = tail + 1 /\ UNCHANGED <<setup, spans, losses, holes>>
LoseFile  == \E m \in Manifests \ holes : holes' = holes \cup {m} /\ UNCHANGED <<setup, spans, losses, tail>>

VerdictNext ==
    /\ Evidence < MaxEvidence /\ (NoteSpan \/ LoseOne \/ TailGrows \/ LoseFile)
    /\ failed' = (failed \/ ~_reconcile_regular_session)

------------------------------------------------------------------------------
(* Properties *)

\* Every variable has its type.
VerdictTypeOK ==
    /\ setup.audit \in {"OK", "PARTIAL", "NONE"} /\ holes \subseteq Manifests
    /\ Evidence \in 0..MaxEvidence
    /\ \A k \in DOMAIN spans : spans[k][1] \in Manifests /\ spans[k][2] < spans[k][3]

\* _clip_merge_spans against its meaning: the merged spans add up to the seconds of the
\* session that lie in some gap, however the gaps overlap, contain each other or stick out,
\* and the silent and the lost part add up to the whole.
MergedExact ==
    \A m \in Manifests :
        LET merged == _clip_merge_spans(GapsOf(m))
            gaps   == {GapsOf(m)[k] : k \in DOMAIN GapsOf(m)}
            split  == _split_silent_loss_spans(merged)
        IN  /\ Length(merged) =
                 Cardinality({t \in RegOpen..(RegClose - 1) : \E g \in gaps : g[2] <= t /\ t < g[3]})
            /\ split[1] + split[2] = Length(merged)

\* A session that failed its reconciliation is not reconciled by losing more: not by
\* another lost trade that a pending repair would excuse, nor by more silence or a lost file.
MoreLossNeverPasses == failed => ~_reconcile_regular_session

\* check_session_reconciliation, the rollout of the audit: outside ENFORCE the audit never
\* changes the outcome, and a PARTIAL audit never passes what the time budget fails.
AuditOnlyTightens ==
    \A m \in Manifests \ holes :
        /\ setup.mode # "ENFORCE" => (check_session_reconciliation(m) <=> ~OverGap(m))
        /\ (setup.audit = "PARTIAL" /\ OverGap(m)) => ~check_session_reconciliation(m)

\* The verdict on a session follows its loss.
VerdictSound == VerdictTypeOK /\ MergedExact /\ MoreLossNeverPasses /\ AuditOnlyTightens
==============================================================================
