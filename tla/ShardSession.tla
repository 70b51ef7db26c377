----------------------------- MODULE ShardSession -----------------------------
(* One KIS stream child over its session, and what the end of day concludes from its *)
(* manifest: src/cli/collect_premarket.py, collect_regular_kis.py and               *)
(* collect_aftermarket.py on top of bootstrap_session (src/realtime/session.py),     *)
(* run_streaming_child (src/realtime/streaming_child.py), SessionFrameSink and       *)
(* SessionManifest; the verdicts are those of src/orchestration/eod.py.  The         *)
(* manifest in memory is ahead of the file: acks and frame counts are saved at       *)
(* checkpoints, gaps at once.  A child that does not fit its plan (credential,       *)
(* symbols, capacity, clock) ends before it touches a file, and is left out.         *)
EXTENDS Integers, FiniteSetsExt

CONSTANTS ShardSymbols,    \* the symbols of the shard
          Trs,        \* its streams
          ChildKinds, \* among "premarket", "regular", "after"
          OpenAt, CloseAt, Grace, SessionEnd, \* session and clock
          Checkpoint, \* ticks between two saves by flushes
          MaxBoots, MaxFaults, MaxFrames

VARIABLES kind,     \* the child
          clock,
          file,     \* the manifest on disk: state "none", "ok" or "bad", and its contents
          proc,     \* the process
          journal,  \* frames on disk, <<pair, time>>
          recorded,      \* history: frames recorded
          before,   \* history: pairs accepted before the open
          atOpen,   \* history: pairs streamed at the open
          closedBy, \* history: the boot that closed the writer last
          faults    \* history: the faults so far

shardVars == <<kind, clock, file, proc, journal, recorded, before, atOpen, closedBy, faults>>

PairSet == ShardSymbols \X Trs

SessionManifest(t) ==
    [started |-> t, acks |-> {}, gaps |-> {}, closed |-> FALSE, boots |-> 0, counted |-> {}]
Gone(t) == [at |-> "down", m |-> SessionManifest(0), buf |-> {}, subs |-> {}, saved |-> -1,
            outage |-> -1, died |-> t]

ShardInit ==
    /\ kind \in ChildKinds /\ clock = 0
    /\ file = [state |-> "none", m |-> SessionManifest(0)]
    /\ proc = Gone(-1) /\ journal = {} /\ recorded = {} /\ before = {} /\ atOpen = {} /\ closedBy = 0
    /\ faults = {}

CanFail == Cardinality(faults) < MaxFaults

save(m) == file' = [state |-> "ok", m |-> m]
Times(S) == {e[2] : e \in S}


\* last_journal_write_ns: from the newest frame on disk to this boot.
RestartGap(m) ==
    IF m.boots > 0 /\ journal # {} /\ clock > Max(Times(journal))
    THEN {<<Max(Times(journal)), clock>>} ELSE {}

\* A manifest that is there is continued; an unreadable one is moved away.  The stamp of a
\* writer that has closed stays.
bootstrap_session ==
    LET old == IF file.state = "ok" THEN file.m ELSE SessionManifest(clock)
    IN  [old EXCEPT !.gaps = @ \cup RestartGap(old), !.boots = @ + 1]

\* Premarket and regular children end by themselves; nothing is streamed after that.
DeadlineAt == IF kind = "after" THEN SessionEnd + 1 ELSE CloseAt + Grace

Start ==
    /\ proc.at = "down" /\ clock > proc.died /\ file.m.boots < MaxBoots
    /\ save(bootstrap_session)
    /\ proc' = IF clock >= DeadlineAt THEN Gone(clock)
               ELSE [Gone(-1) EXCEPT !.at = "up", !.m = bootstrap_session]
    /\ UNCHANGED <<kind, clock, journal, recorded, before, atOpen, closedBy, faults>>

collect_premarket   == kind = "premarket" /\ Start
collect_regular_kis == kind = "regular" /\ Start
collect_aftermarket == kind = "after" /\ Start

\* connect, subscribe and record_ack for every pair; at most one is refused.
Connected ==
    /\ proc.at = "up" /\ clock < DeadlineAt
    /\ \E refused \in {{}} \cup {{p} : p \in PairSet} :
        LET ok == PairSet \ refused
        IN  /\ proc' = [proc EXCEPT !.at = "on", !.subs = ok,
                                    !.m.acks = @ \cup {<<p, clock>> : p \in ok}]
            /\ before' = IF clock < OpenAt THEN before \cup ok ELSE before
    /\ UNCHANGED <<kind, clock, file, journal, recorded, atOpen, closedBy, faults>>

ClosedOutage(m) == IF proc.outage >= 0 THEN [m EXCEPT !.gaps = @ \cup {<<proc.outage, clock>>}] ELSE m

\* The first frame after an outage notes its gap, which saves the manifest; then the frame
\* goes to its journal's buffer and is counted.
record(p) ==
    /\ proc.at = "on" /\ p \in proc.subs /\ <<p, clock>> \notin recorded /\ Cardinality(recorded) < MaxFrames
    /\ LET m == ClosedOutage(proc.m)
       IN  /\ IF proc.outage >= 0 THEN save(m) ELSE UNCHANGED file
           /\ proc' = [proc EXCEPT !.m = [m EXCEPT !.counted = @ \cup {p[1]}], !.outage = -1,
                                   !.buf = @ \cup {<<p, clock>>},
                                   !.saved = IF proc.outage >= 0 THEN clock ELSE @]
    /\ recorded' = recorded \cup {<<p, clock>>}
    /\ UNCHANGED <<kind, clock, journal, before, atOpen, closedBy, faults>>

\* Journals first, then the manifest if the last save is a checkpoint interval ago.
flush ==
    /\ proc.at = "on" /\ proc.buf # {}
    /\ journal' = journal \cup proc.buf
    /\ LET due == proc.saved = -1 \/ clock - proc.saved >= Checkpoint
       IN  /\ IF due THEN save(proc.m) ELSE UNCHANGED file
           /\ proc' = [proc EXCEPT !.buf = {}, !.saved = IF due THEN clock ELSE @]
    /\ UNCHANGED <<kind, clock, recorded, before, atOpen, closedBy, faults>>

\* The connection ends: the journals are flushed and the process connects again.
LoseConnection ==
    /\ proc.at = "on" /\ CanFail
    /\ journal' = journal \cup proc.buf
    /\ proc' = [proc EXCEPT !.at = "up", !.buf = {}, !.subs = {},
                            !.outage = IF @ >= 0 THEN @ ELSE clock]
    /\ faults' = faults \cup {<<"outage", clock>>}
    /\ UNCHANGED <<kind, clock, file, recorded, before, atOpen, closedBy>>

\* SIGTERM or the deadline: the journals are flushed, an open outage is noted, the manifest
\* is saved, stamped closed and saved.
run_streaming_child ==
    /\ proc.at # "down"
    /\ journal' = journal \cup proc.buf
    /\ save([ClosedOutage(proc.m) EXCEPT !.closed = TRUE])
    /\ closedBy' = proc.m.boots /\ proc' = Gone(clock)
    /\ UNCHANGED <<kind, clock, recorded, before, atOpen, faults>>

CrashShard ==
    /\ proc.at # "down" /\ CanFail
    /\ proc' = Gone(clock) /\ faults' = faults \cup {<<"crash", clock>>}
    /\ UNCHANGED <<kind, clock, file, journal, recorded, before, atOpen, closedBy>>

\* The file is damaged while no process owns it.
Garble ==
    /\ proc.at = "down" /\ file.state = "ok" /\ CanFail
    /\ file' = [file EXCEPT !.state = "bad"] /\ faults' = faults \cup {<<"garble", clock>>}
    /\ UNCHANGED <<kind, clock, proc, journal, recorded, before, atOpen, closedBy>>

\* A child past its deadline has stopped.
PassTime ==
    /\ clock < SessionEnd /\ (proc.at # "down" => clock < DeadlineAt)
    /\ clock' = clock + 1
    /\ atOpen' = IF clock' = OpenAt THEN proc.subs ELSE atOpen
    /\ UNCHANGED <<kind, file, proc, journal, recorded, before, closedBy, faults>>

ShardNext ==
    \/ collect_premarket \/ collect_regular_kis \/ collect_aftermarket \/ Connected
    \/ \E p \in PairSet : record(p)
    \/ flush \/ LoseConnection \/ run_streaming_child \/ CrashShard \/ Garble \/ PassTime

------------------------------------------------------------------------------
(* What the end of day makes of the manifest *)

Accepted == {a[1] : a \in file.m.acks}

\* _aftermarket_streams_ok and _expected_aftermarket_shards_ready, for this shard.
ShardReady == file.state = "ok" /\ file.m.closed /\ PairSet \subseteq Accepted

aftermarket_eod_ready == clock >= CloseAt /\ ShardReady

premarket_eod_report == file.state = "ok" /\ file.m.closed

FirstAck(p) == Min({a[2] : a \in {b \in file.m.acks : b[1] = p}})

check_aftermarket_prearm ==
    IF file.state # "ok" THEN "UNVERIFIABLE"
    ELSE IF file.m.started >= OpenAt THEN "LATE_START"
    ELSE IF ~(PairSet \subseteq Accepted) THEN "UNVERIFIABLE"
    ELSE IF \E p \in PairSet : FirstAck(p) >= OpenAt THEN "LATE_ACK"
    ELSE "ARMED"

check_aftermarket_symbol_coverage == {s \in ShardSymbols : (\E p \in Accepted : p[1] = s) /\ s \notin file.m.counted}

Judged == proc.at = "down" /\ clock >= CloseAt

------------------------------------------------------------------------------
(* Properties *)

\* Every variable has its type.
ShardTypeOK ==
    /\ clock \in 0..SessionEnd /\ file.state \in {"none", "ok", "bad"} /\ proc.at \in {"down", "up", "on"}
    /\ file.m.boots \in 0..MaxBoots /\ proc.subs \subseteq PairSet
    /\ journal \subseteq recorded /\ recorded \subseteq PairSet \X (0..SessionEnd)

\* A session that the end of day takes for complete (aftermarket_eod_ready,
\* premarket_eod_report) and whose writer was closed by its last boot has every frame it
\* recorded on disk or inside a recorded gap; only frames lost before the first journal
\* write are in no gap.
ReadyHidesNoLoss ==
    (Judged /\ (aftermarket_eod_ready \/ premarket_eod_report) /\ closedBy = file.m.boots) =>
        \A e \in recorded \ journal :
            \/ \E g \in file.m.gaps : g[1] <= e[2] /\ e[2] <= g[2]
            \/ \A j \in journal : j[2] >= e[2]
            \/ \E f \in faults : f[1] = "garble"

\* check_aftermarket_prearm: ARMED only if every pair had been accepted before the open,
\* over every restart and reconnect; an undisturbed shard that streamed every pair at the
\* open is called ARMED; LATE_START only if nothing was accepted before the open.
PrearmTrue ==
    Judged =>
        /\ check_aftermarket_prearm = "ARMED" => before = PairSet
        /\ (faults = {} /\ atOpen = PairSet) => check_aftermarket_prearm = "ARMED"
        /\ (check_aftermarket_prearm = "LATE_START" /\ \A f \in faults : f[1] # "garble") => before = {}

\* check_aftermarket_symbol_coverage, "zero journaled frames on every stream": in a session
\* without a crash the reported symbols are the accepted ones with no frame on disk.  (A
\* crash drops the counts since the last checkpoint, not the frames.)
CoverageTrue ==
    (Judged /\ file.state = "ok" /\ \A f \in faults : f[1] = "outage") =>
        check_aftermarket_symbol_coverage =
            {s \in ShardSymbols : /\ \E p \in Accepted : p[1] = s
                             /\ \A e \in journal : e[1][1] # s}

==============================================================================
