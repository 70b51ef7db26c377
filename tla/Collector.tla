------------------------------ MODULE Collector ------------------------------
(***************************************************************************)
(* One collection process over a day: the receive and reconnect loops of   *)
(* RealtimeStreamer (realtime/streamer.py), the session it writes to       *)
(* (realtime/session.py), the L0 journals (storage/journal.py) and the     *)
(* gaps of the manifest (realtime/manifest.py).  The process can die at    *)
(* any step and is started again.  Handover models the second connection.  *)
(*                                                                         *)
(* Time is a count of ticks.  The vendor publishes at most one event per   *)
(* tick, so an event is named by its time; fate says what became of it.    *)
(* Each pair has a symbol and a stream of its own, hence its own journal.  *)
(***************************************************************************)
EXTENDS Integers, Sequences, FiniteSets, FiniteSetsExt

CONSTANTS
    Pairs,       \* the subscribed pairs, in the order they are subscribed
    MaxTime,     \* bound: ticks of the day
    MaxBoots,    \* bound: starts of the process
    MaxPumps,    \* bound: connections per start
    Lag,         \* the longest delivery of an event takes, in ticks
    Hour,        \* ticks per journal file
    TornFlush,   \* whether a flush can fail or be cut short between two files
    Refusals     \* whether the vendor may refuse a pair

ASSUME CollectorAssumption ==
    /\ Pairs \in Seq(STRING) /\ Pairs # <<>>
    /\ {MaxTime, MaxBoots, MaxPumps, Lag} \subseteq Nat /\ Hour \in Nat \ {0}
    /\ TornFlush \in BOOLEAN /\ Refusals \in BOOLEAN

VARIABLES
    now,        \* the clock
    pair,       \* which pair an event is of
    fate,       \* what became of it
    rcv,        \* when it was received (recv_wall_ns)
    conn,       \* the connection: "off", "on", "mute" (open, but silent), "dead"
    pc,         \* where the process is
    after,      \* where it goes when a flush is over
    index,      \* the pair a loop of the code has reached
    hour,       \* the journal file a flush has reached
    subs,       \* the pairs accepted on this connection
    cur,        \* the event being handled
    fed,        \* frames > 0 on this connection
    subscribed, \* subscribed_ns
    started,    \* when the process started
    lastFrame,  \* _last_frame_wall_ns
    outage,     \* the start of the open outage
    gapEnd,     \* its end, while it is being recorded
    pumps, stop,
    mtime,      \* per pair: the newest reception its journal files are stamped with
    copies,     \* how often an event is in the journal files
    gaps,       \* the gaps of the saved manifest
    boots       \* how many boots the saved manifest lists

eventVars == <<pair, fate, rcv>>
diskVars  == <<mtime, copies, gaps, boots>>
procVars  == <<after, index, hour, subs, cur, fed, subscribed, started, lastFrame, outage, gapEnd,
               pumps, stop>>
vars == <<now, eventVars, conn, pc, procVars, diskVars>>

Times  == 1..MaxTime
Never  == -1
PairSet == {Pairs[i] : i \in DOMAIN Pairs}
Held   == {"flight", "pending", "buffer"}    \* events only the process or the wire has
With(f) == {t \in Times : fate[t] = f}
Gap(p, a, b) == [pair |-> p, from |-> a, to |-> b]

\* Type invariant.
TypeOK ==
    /\ now \in 0..MaxTime
    /\ pair \in [Times -> PairSet]
    /\ fate \in [Times -> Held \cup {"none", "disk", "refused", "startup", "lost"}]
    /\ rcv \in [Times -> Times \cup {Never}]
    /\ conn \in {"off", "on", "mute", "dead"}
    /\ pc \in {"down", "connect", "subscribe", "loop", "gap", "record", "flush", "backoff"}
    /\ after \in {"loop", "backoff", "stop", "exit"}
    /\ index \in 1..(Len(Pairs) + 1) /\ hour \in 0..(MaxTime + 1) /\ subs \subseteq PairSet
    /\ cur \in Times \cup {Never} /\ fed \in BOOLEAN /\ stop \in BOOLEAN
    /\ {subscribed, started, lastFrame, outage, gapEnd} \subseteq 0..MaxTime \cup {Never}
    /\ pumps \in 0..MaxPumps /\ boots \in 0..MaxBoots
    /\ mtime \in [PairSet -> Times \cup {Never}]
    /\ copies \in [Times -> 0..2]
    /\ gaps \subseteq [pair : PairSet, from : 0..MaxTime, to : 0..MaxTime]

Init ==
    /\ now = 0 /\ pair = [t \in Times |-> Pairs[1]]
    /\ fate = [t \in Times |-> "none"] /\ rcv = [t \in Times |-> Never]
    /\ conn = "off" /\ pc = "down" /\ after = "loop" /\ index = 1 /\ hour = 0 /\ subs = {} /\ cur = Never
    /\ fed = FALSE /\ pumps = 0 /\ stop = FALSE
    /\ subscribed = Never /\ started = Never /\ lastFrame = Never /\ outage = Never /\ gapEnd = Never
    /\ mtime = [p \in PairSet |-> Never] /\ copies = [t \in Times |-> 0]
    /\ gaps = {} /\ boots = 0

(***************************************************************************)
(* The vendor and the clock.                                               *)
(***************************************************************************)
\* An event of p that is published now is not received if the connection does not carry p.
\* Until a boot has subscribed or failed, the code keeps no account of what it misses.
FateNow(p) ==
    CASE conn = "on" /\ p \in subs -> "flight"
      [] conn = "on" /\ p \notin subs /\ pc \notin {"connect", "subscribe"} -> "refused"
      [] pc \in {"connect", "subscribe"} /\ lastFrame = Never /\ outage = Never -> "startup"
      [] OTHER -> "lost"

Tick ==
    /\ now < MaxTime /\ now' = now + 1
    /\ \A t \in With("flight") : now - t < Lag
    /\ \/ UNCHANGED eventVars
       \/ \E p \in PairSet :
             /\ pair' = [pair EXCEPT ![now + 1] = p]
             /\ fate' = [fate EXCEPT ![now + 1] = FateNow(p)]
             /\ UNCHANGED rcv
    /\ UNCHANGED <<conn, pc, procVars, diskVars>>

\* The connection falls silent or is dropped.  Of what is on the way, the events after k
\* never arrive.
Fail ==
    /\ conn = "on" /\ pc = "loop"
    /\ conn' \in {"mute", "dead"}
    /\ \E k \in 0..MaxTime :
          fate' = [t \in Times |-> IF fate[t] = "flight" /\ t > k THEN "lost" ELSE fate[t]]
    /\ UNCHANGED <<now, pair, rcv, pc, procVars, diskVars>>

\* SIGTERM.
Terminate ==
    /\ pc # "down" /\ ~stop /\ stop' = TRUE
    /\ UNCHANGED <<now, eventVars, conn, pc, after, index, hour, subs, cur, fed, subscribed,
                   started, lastFrame, outage, gapEnd, pumps, diskVars>>

(***************************************************************************)
(* Start and death of the process.                                         *)
(***************************************************************************)
\* The process is gone with all it held in memory.
Die ==
    /\ pc' = "down" /\ conn' = "off"
    /\ fate' = [t \in Times |->
                  CASE fate[t] \in Held /\ copies[t] > 0 -> "disk"
                    [] fate[t] \in Held /\ copies[t] = 0 -> "lost"
                    [] OTHER -> fate[t]]
    /\ after' = "loop" /\ index' = 1 /\ hour' = 0 /\ subs' = {} /\ cur' = Never /\ fed' = FALSE
    /\ pumps' = 0 /\ stop' = FALSE /\ rcv' = [t \in Times |-> Never]
    /\ subscribed' = Never /\ started' = Never /\ lastFrame' = Never /\ outage' = Never /\ gapEnd' = Never
    /\ UNCHANGED <<now, pair, diskVars>>

\* bootstrap_session: a boot that is not the first records what lies between the newest
\* journal file and itself as a gap of every symbol.  A restart takes more than a tick.
\* With no journal file there is nothing to date the gap by.
LastWrite == Max({mtime[p] : p \in PairSet})

RestartGaps ==
    IF boots > 0 /\ LastWrite # Never /\ now > LastWrite
    THEN {Gap(p, LastWrite, now) : p \in PairSet} ELSE {}

Boot ==
    /\ pc = "down" /\ boots < MaxBoots /\ now > LastWrite
    /\ pc' = "connect" /\ started' = now
    /\ boots' = boots + 1 /\ gaps' = gaps \cup RestartGaps
    /\ fate' = [t \in Times |-> IF fate[t] = "lost" /\ LastWrite = Never THEN "startup" ELSE fate[t]]
    /\ UNCHANGED <<now, pair, rcv, conn, after, index, hour, subs, cur, fed, subscribed, lastFrame,
                   outage, gapEnd, pumps, stop, mtime, copies>>

Crash == pc # "down" /\ (pc = "flush" => TornFlush) /\ Die

(***************************************************************************)
(* pump: connect, subscribe, receive.                                      *)
(***************************************************************************)
\* The end of pump: what is on the way is discarded, then the journals are flushed.
Leave(dest) ==
    /\ conn' = "off" /\ pc' = "flush" /\ after' = dest /\ index' = 1 /\ hour' = 0 /\ cur' = Never
    /\ fate' = [t \in Times |-> IF fate[t] \in {"flight", "pending"} THEN "lost" ELSE fate[t]]
    /\ subs' = {} /\ fed' = FALSE /\ subscribed' = Never /\ gapEnd' = Never
    /\ UNCHANGED <<now, pair, rcv, started, lastFrame, outage, pumps, stop, diskVars>>

\* run_forever's last call, and the loop head that leads to it.
CloseOutage ==
    IF outage = Never THEN Die
    ELSE /\ pc' = "gap" /\ cur' = Never /\ index' = 1 /\ gapEnd' = now
         /\ UNCHANGED <<now, eventVars, conn, after, hour, subs, fed, subscribed, started, lastFrame,
                        outage, pumps, stop, diskVars>>

\* Mutant: the process waits for the outage to end before it stops.
StopHeadHealthy == pc = "connect" /\ stop /\ outage = Never /\ CloseOutage

StopHead == pc = "connect" /\ stop /\ CloseOutage

Connect ==
    /\ pc = "connect" /\ ~stop /\ pumps < MaxPumps
    /\ pumps' = pumps + 1
    /\ pc' = "subscribe" /\ conn' = "on"
    /\ UNCHANGED <<now, eventVars, after, index, hour, subs, cur, fed, subscribed, started, lastFrame, outage, gapEnd,
                   stop, diskVars>>

\* The answer for the next pair.  The loop starts once all pairs are answered.
Subscribe ==
    /\ pc = "subscribe" /\ index <= Len(Pairs)
    /\ \/ subs' = subs \cup {Pairs[index]}
       \/ Refusals /\ UNCHANGED subs
    /\ index' = index + 1
    /\ UNCHANGED <<now, eventVars, conn, pc, after, hour, cur, fed, subscribed, started, lastFrame,
                   outage, gapEnd, pumps, stop, diskVars>>

\* A frame that is read while an answer is awaited goes to the adapter's _pending.
ReadPending ==
    /\ pc = "subscribe" /\ With("flight") # {}
    /\ LET t == Min(With("flight")) IN
       fate' = [fate EXCEPT ![t] = "pending"] /\ rcv' = [rcv EXCEPT ![t] = now]
    /\ UNCHANGED <<now, pair, conn, pc, procVars, diskVars>>

Subscribed ==
    /\ pc = "subscribe" /\ index > Len(Pairs)
    /\ pc' = "loop" /\ subscribed' = now
    /\ UNCHANGED <<now, eventVars, conn, after, index, hour, subs, cur, fed, started, lastFrame,
                   outage, gapEnd, pumps, stop, diskVars>>

\* Connecting fails, the connection drops, or the adapter takes the refusal of every pair for one
\* of the credentials.
SubscribeFails == pc = "subscribe" /\ Leave("backoff")

\* Mutant: the outage ends with the first frame, even one read before the last pair was subscribed.
ReceiveEarly ==
    /\ pc = "loop" /\ ~stop
    /\ LET queue == IF With("pending") # {} THEN With("pending") ELSE With("flight")
           t == Min(queue)
           at == IF fate[t] = "pending" THEN rcv[t] ELSE now IN
       /\ queue # {}
       /\ cur' = t /\ rcv' = [rcv EXCEPT ![t] = at]
       /\ IF fed \/ outage = Never THEN pc' = "record" /\ UNCHANGED gapEnd
          ELSE pc' = "gap" /\ gapEnd' = at
    /\ index' = 1
    /\ UNCHANGED <<now, pair, fate, conn, after, hour, subs, fed, subscribed, started, lastFrame,
                   outage, pumps, stop, diskVars>>

\* recv returns a frame: those of _pending first.  The first one on a connection ends the
\* outage, but not before every pair was subscribed.
Receive ==
    /\ pc = "loop" /\ ~stop
    /\ LET queue == IF With("pending") # {} THEN With("pending") ELSE With("flight")
           t == Min(queue)
           at == IF fate[t] = "pending" THEN rcv[t] ELSE now IN
       /\ queue # {}
       /\ cur' = t /\ rcv' = [rcv EXCEPT ![t] = at]
       /\ IF fed \/ outage = Never THEN pc' = "record" /\ UNCHANGED gapEnd
          ELSE pc' = "gap" /\ gapEnd' = Max({at, subscribed})
    /\ index' = 1
    /\ UNCHANGED <<now, pair, fate, conn, after, hour, subs, fed, subscribed, started, lastFrame,
                   outage, pumps, stop, diskVars>>

\* _close_outage: one saved gap per symbol.
NoteGap ==
    /\ pc = "gap"
    /\ gaps' = gaps \cup {Gap(Pairs[index], outage, Max({outage, gapEnd}))}
    /\ IF index < Len(Pairs)
       THEN index' = index + 1 /\ UNCHANGED <<pc, outage, gapEnd>>
       ELSE index' = 1 /\ outage' = Never /\ gapEnd' = Never
            /\ pc' = IF cur = Never THEN "connect" ELSE "record"
    /\ UNCHANGED <<now, eventVars, conn, after, hour, subs, cur, fed, subscribed, started, lastFrame,
                   pumps, stop, mtime, copies, boots>>

\* The manifest cannot be saved: the outage stays open, or the process exits.
NoteGapFails == pc = "gap" /\ IF cur = Never THEN Die ELSE Leave("backoff")

Record ==
    /\ pc = "record" /\ pc' \in {"loop", "flush"}
    /\ fate' = [fate EXCEPT ![cur] = "buffer"]
    /\ lastFrame' = rcv[cur] /\ fed' = TRUE /\ cur' = Never
    /\ after' = "loop" /\ index' = 1 /\ hour' = 0
    /\ UNCHANGED <<now, pair, rcv, conn, subs, subscribed, started, outage, gapEnd, pumps, stop,
                   diskVars>>

\* record_frame raises: an exhausted disk ends the process, anything else the connection.
RecordFails == pc = "record" /\ \E dest \in {"exit", "backoff"} : Leave(dest)

\* recv raises, or the silence watchdog fires.
Broken ==
    /\ pc = "loop" /\ ~stop /\ conn \in {"mute", "dead"}
    /\ With("pending") \cup With("flight") = {}
    /\ Leave("backoff")

StopLoop == pc = "loop" /\ stop /\ Leave("stop")

(***************************************************************************)
(* flush_journals: the journals one after the other, each with one append  *)
(* per file; the buffer is cleared when all files of a journal are done.   *)
(***************************************************************************)
HourOf(t) == rcv[t] \div Hour
Buffered == {t \in With("buffer") : pair[t] = Pairs[index]}
Due == {t \in Buffered : HourOf(t) >= hour}

WriteFile ==
    /\ pc = "flush" /\ index <= Len(Pairs) /\ Due # {}
    /\ LET h == Min({HourOf(t) : t \in Due})
           file == {t \in Due : HourOf(t) = h} IN
       /\ copies' = [t \in Times |-> IF t \in file THEN Min({copies[t] + 1, 2}) ELSE copies[t]]
       /\ mtime' = [mtime EXCEPT ![Pairs[index]] = Max({@} \cup {rcv[t] : t \in file})]
       /\ hour' = h + 1
    /\ UNCHANGED <<now, eventVars, conn, pc, after, index, subs, cur, fed, subscribed, started,
                   lastFrame, outage, gapEnd, pumps, stop, gaps, boots>>


ClearBuffer ==
    /\ pc = "flush" /\ index <= Len(Pairs) /\ Due = {}
    /\ fate' = [t \in Times |-> IF t \in Buffered THEN "disk" ELSE fate[t]]
    /\ rcv' = [t \in Times |-> IF t \in Buffered THEN Never ELSE rcv[t]]
    /\ index' = index + 1 /\ hour' = 0
    /\ UNCHANGED <<now, pair, conn, pc, after, subs, cur, fed, subscribed, started, lastFrame,
                   outage, gapEnd, pumps, stop, diskVars>>

\* A failed append inside the loop ends pump, which flushes again; there it is final.
FlushFails ==
    /\ pc = "flush" /\ TornFlush /\ index <= Len(Pairs) /\ Due # {}
    /\ IF after = "loop" THEN Leave("exit") ELSE Die

Flushed == pc = "flush" /\ index > Len(Pairs)

BackToLoop ==
    /\ Flushed /\ after = "loop" /\ pc' = "loop" /\ index' = 1
    /\ UNCHANGED <<now, eventVars, conn, after, hour, subs, cur, fed, subscribed, started, lastFrame,
                   outage, gapEnd, pumps, stop, diskVars>>

\* run_forever after a failed pump: an outage opens at the last frame, unless one is open.
OpenOutage ==
    /\ Flushed /\ after = "backoff" /\ pc' = "backoff" /\ index' = 1
    /\ outage' = IF outage # Never THEN outage ELSE IF lastFrame # Never THEN lastFrame ELSE started
    /\ UNCHANGED <<now, eventVars, conn, after, hour, subs, cur, fed, subscribed, started, lastFrame,
                   gapEnd, pumps, stop, diskVars>>

StopPump == Flushed /\ after = "stop" /\ CloseOutage

Exit == Flushed /\ after = "exit" /\ Die

Backoff ==
    /\ pc = "backoff" /\ pc' = "connect"
    /\ UNCHANGED <<now, eventVars, conn, procVars, diskVars>>

DayOver == now = MaxTime /\ pc = "down" /\ UNCHANGED vars

Process ==
    \/ StopHead \/ Connect \/ Subscribe \/ Subscribed \/ SubscribeFails
    \/ Receive \/ NoteGap \/ NoteGapFails \/ Record \/ RecordFails \/ Broken \/ StopLoop
    \/ WriteFile \/ ClearBuffer \/ FlushFails \/ BackToLoop \/ OpenOutage \/ StopPump \/ Exit \/ Backoff

Next == Tick \/ Fail \/ Terminate \/ Boot \/ Crash \/ ReadPending \/ Process \/ DayOver

Spec == Init /\ [][Next]_vars
FairSpec == Spec /\ WF_vars(Process)

(***************************************************************************)
(* Properties.                                                             *)
(***************************************************************************)
\* Once frames flow on a connection, every event the collector lost since the first
\* durable frame (while it was down, reconnecting, mute, or in memory when it died) lies in
\* a recorded gap of its symbol, up to the delivery lag: _close_outage, run_forever,
\* bootstrap_session.  Events missed between a boot and its first subscription are outside.
LossesInGaps ==
    pc = "loop" /\ conn = "on" /\ fed =>
        \A t \in With("lost") : \E g \in gaps : g.pair = pair[t] /\ g.from - Lag <= t /\ t <= g.to

\* No event is twice in the journal files, whatever flush fails and is tried again:
\* flush clears a journal's buffer as soon as that journal is written.
JournalOnce == \A t \in Times : copies[t] <= 1

\* The journals of a session hold what the collector recorded, once each.
JournalSound == TypeOK /\ JournalOnce

\* A stop request ends the process, whatever pump was doing: run_forever and its loops
\* look at the stop event.
StopEnds == stop ~> pc = "down"
=============================================================================
