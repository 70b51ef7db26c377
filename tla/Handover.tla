------------------------------ MODULE Handover ------------------------------
(***************************************************************************)
(* Proactive reconnect (realtime/connection_handover.py) driven from the   *)
(* receive loop of RealtimeStreamer.pump (realtime/streamer.py).           *)
(*                                                                         *)
(* A streamer receives one vendor's events on its "old" connection.  On    *)
(* demand a "new" one is opened beside it; while both are open the same    *)
(* event arrives twice and the copy that comes second is dropped.  Then    *)
(* the new connection replaces the old one.                                *)
(*                                                                         *)
(* Events are numbered in the order the vendor publishes them; q[c] is     *)
(* what connection c still has to deliver.  Clocks are choices: whether a  *)
(* cooldown has passed, a standby is stalled or max_s has elapsed.  So are *)
(* the answers of the lease ledger, which WsLease models.                  *)
(***************************************************************************)
EXTENDS Integers, Sequences, SequencesExt, FiniteSetsExt

CONSTANTS
    MaxEvents,     \* bound: events the vendor publishes
    MaxStandbys,   \* bound: bring-ups of a second connection
    MaxPumps,      \* bound: connections made by pump itself
    MaxLag,        \* bound: how many events behind the vendor a connection is
    PerSecond,     \* events that share one event second
    Untimed,       \* events without a readable event time
    SeenCap,       \* _SEEN_CAP
    MaxSessions,   \* the vendor's cap on connections
    StallRefresh,  \* whether stall_lag_s is configured
    HotWindow      \* whether a hot-standby window is configured

ASSUME HandoverAssumption ==
    /\ {MaxEvents, MaxStandbys, MaxPumps, MaxLag, MaxSessions} \subseteq Nat
    /\ PerSecond \in Nat \ {0} /\ SeenCap \in Nat \ {0}
    /\ Untimed \subseteq Nat /\ StallRefresh \in BOOLEAN /\ HotWindow \in BOOLEAN

VARIABLES
    published,      \* how many events there have been
    conn,           \* per connection: "off", "on" (subscribed), "dead" (dropped by the vendor)
    q,              \* per connection: the events still to be delivered, oldest first
    recorded,       \* how often each event reached the sink
    pc,             \* where the receive loop is
    done,           \* what the last wait returned
    fed,            \* frames > 0 on this connection
    pumps,          \* connections pump has made
    request,        \* the SwapRequest
    window,         \* the hot-standby window: "before", "open", "after"
    opening,        \* the bring-up task
    standby,        \* a standby has been adopted
    first,          \* its first_event_s, or NoTime
    owner,          \* _standby_owner
    seen,           \* the payloads of _seen with their owners, oldest first
    primarySecond,  \* _primary_event_s
    refreshPending, refreshOverlap,
    episode         \* history: events recorded since both connections are open

streamVars == <<published, recorded, pumps>>
loopVars   == <<done, fed>>
swapVars   == <<opening, standby, first, owner, seen, primarySecond, refreshPending, refreshOverlap>>
vars == <<streamVars, conn, q, pc, loopVars, request, window, swapVars, episode>>

Events == 1..MaxEvents
Conns  == {"old", "new"}
NoTime == -1
Second(n)  == (n - 1) \div PerSecond
Seconds    == {Second(n) : n \in Events}
InFlight(c) == {q[c][i] : i \in DOMAIN q[c]}

TypeOK ==
    /\ published \in 0..MaxEvents /\ pumps \in 0..MaxPumps
    /\ conn \in [Conns -> {"off", "on", "dead"}]
    /\ q \in [Conns -> Seq(Events)]
    /\ recorded \in [Events -> 0..2]
    /\ pc \in {"connect", "start", "wait", "standby", "step", "primary", "stopped"}
    /\ done \subseteq {"primary", "standby", "opening"}
    /\ fed \in BOOLEAN /\ request \in BOOLEAN /\ standby \in BOOLEAN
    /\ window \in {"before", "open", "after"}
    /\ opening \in {"none", "connecting", "subscribing", "ready", "failed"}
    /\ first \in Seconds \cup {NoTime} /\ primarySecond \in Seconds \cup {NoTime}
    /\ owner \in 0..MaxStandbys
    /\ seen \in Seq([event : Events, owner : 0..MaxStandbys]) /\ Len(seen) <= SeenCap + 1
    /\ refreshPending \in BOOLEAN /\ refreshOverlap \in BOOLEAN
    /\ episode \subseteq Events

Init ==
    /\ published = 0 /\ pumps = 0
    /\ conn = [c \in Conns |-> "off"] /\ q = [c \in Conns |-> <<>>]
    /\ recorded = [n \in Events |-> 0]
    /\ pc = "connect" /\ done = {} /\ fed = FALSE
    /\ request = FALSE /\ window = "before"
    /\ opening = "none" /\ standby = FALSE /\ first = NoTime /\ owner = 0
    /\ seen = <<>> /\ primarySecond = NoTime
    /\ refreshPending = FALSE /\ refreshOverlap = FALSE
    /\ episode = {}

(***************************************************************************)
(* The vendor and the clock: they move while the loop waits.               *)
(***************************************************************************)
Waiting == pc \in {"connect", "wait"}

\* An event goes out on every subscribed connection.
Publish ==
    /\ Waiting /\ published < MaxEvents
    /\ \A c \in Conns : q[c] # <<>> => published + 1 - Head(q[c]) < MaxLag
    /\ published' = published + 1
    /\ q' = [c \in Conns |-> IF conn[c] = "on" THEN Append(q[c], published + 1) ELSE q[c]]
    /\ UNCHANGED <<recorded, pumps, conn, pc, loopVars, request, window, swapVars, episode>>

\* The vendor drops a connection; what it already sent still arrives.
Drop(c) ==
    /\ pc = "wait" /\ conn[c] = "on"
    /\ conn' = [conn EXCEPT ![c] = "dead"]
    /\ UNCHANGED <<streamVars, q, pc, loopVars, request, window, swapVars, episode>>

\* The lag monitor asks for a swap (SwapRequest.request).
Ask ==
    /\ pc = "wait" /\ ~request
    /\ request' = TRUE
    /\ UNCHANGED <<streamVars, conn, q, pc, loopVars, window, swapVars, episode>>

TurnWindow ==
    /\ pc = "wait" /\ HotWindow /\ window # "after"
    /\ window' = IF window = "before" THEN "open" ELSE "after"
    /\ UNCHANGED <<streamVars, conn, q, pc, loopVars, request, swapVars, episode>>

(***************************************************************************)
(* The bring-up task (_open): frames can arrive from the moment the vendor *)
(* accepts a subscription, before subscribe() has returned.                *)
(***************************************************************************)
OpenSubscribes ==
    /\ pc = "wait" /\ opening = "connecting"
    /\ opening' = "subscribing"
    /\ conn' = [conn EXCEPT !["new"] = "on"]
    /\ UNCHANGED <<streamVars, q, pc, loopVars, request, window, standby, first, owner, seen,
                   primarySecond, refreshPending, refreshOverlap, episode>>

OpenReturns ==
    /\ pc = "wait" /\ opening = "subscribing"
    /\ opening' = "ready"
    /\ UNCHANGED <<streamVars, conn, q, pc, loopVars, request, window, standby, first, owner, seen,
                   primarySecond, refreshPending, refreshOverlap, episode>>

\* Connecting or subscribing fails, or a lost lease cancels the task: the adapter is closed.
OpenFails ==
    /\ pc = "wait" /\ opening \in {"connecting", "subscribing"}
    /\ opening' = "failed"
    /\ conn' = [conn EXCEPT !["new"] = "off"]
    /\ q' = [q EXCEPT !["new"] = <<>>]
    /\ UNCHANGED <<streamVars, pc, loopVars, request, window, standby, first, owner, seen,
                   primarySecond, refreshPending, refreshOverlap, episode>>

(***************************************************************************)
(* The receive loop.                                                       *)
(***************************************************************************)
\* pump connects and subscribes its own connection; a failed attempt is tried again.
Connect ==
    /\ pc = "connect" /\ pumps < MaxPumps
    /\ conn' = [conn EXCEPT !["old"] = "on"]
    /\ pumps' = pumps + 1 /\ pc' = "start" /\ fed' = FALSE
    /\ UNCHANGED <<published, recorded, q, done, request, window, swapVars, episode>>

\* maybe_start: the standby in place is stalled, so a request replaces it.
AskRefresh ==
    /\ pc = "start" /\ pc' = "wait" /\ opening = "none"
    /\ StallRefresh /\ standby /\ request
    /\ request' = FALSE /\ refreshPending' = TRUE
    /\ UNCHANGED <<streamVars, conn, q, loopVars, window, opening, standby, first, owner, seen,
                   primarySecond, refreshOverlap, episode>>

\* Mutant of StartStandby: an adopted standby does not prevent another bring-up.
StartStandbyAgain ==
    /\ pc = "start" /\ pc' = "wait" /\ opening = "none"
    /\ request \/ window = "open"
    /\ fed /\ owner < MaxStandbys
    /\ request' = FALSE /\ opening' = "connecting"
    /\ UNCHANGED <<streamVars, conn, q, loopVars, window, standby, first, owner, seen,
                   primarySecond, refreshPending, refreshOverlap, episode>>

\* maybe_start: a request or the window starts a bring-up.
StartStandby ==
    /\ pc = "start" /\ pc' = "wait" /\ opening = "none"
    /\ ~(StallRefresh /\ standby /\ request)
    /\ request \/ window = "open"
    /\ fed /\ ~standby /\ 1 < MaxSessions /\ owner < MaxStandbys
    /\ request' = FALSE /\ opening' = "connecting"
    /\ UNCHANGED <<streamVars, conn, q, loopVars, window, standby, first, owner, seen,
                   primarySecond, refreshPending, refreshOverlap, episode>>

\* maybe_start without a start: busy, not asked, not eligible, cooling down or no lease.
\* A request survives only when there is a bring-up or a standby it may still replace.
NoStart ==
    /\ pc = "start" /\ pc' = "wait"
    /\ request' = (request /\ (opening # "none" \/ (StallRefresh /\ standby)))
    /\ UNCHANGED <<streamVars, conn, q, loopVars, window, swapVars, episode>>

\* asyncio.wait returns: on some of what is ready, or on its timeout.  A frame can be in
\* flight and its recv not finished yet; a bring-up that has ended is always seen.
Ready ==
    {x \in {"primary", "standby", "opening"} :
        \/ x = "primary" /\ (q["old"] # <<>> \/ conn["old"] = "dead")
        \/ x = "standby" /\ standby /\ (q["new"] # <<>> \/ conn["new"] = "dead")
        \/ x = "opening" /\ opening \in {"ready", "failed"}}

Wake ==
    /\ pc = "wait" /\ pc' = "standby"
    /\ done' \in SUBSET Ready
    /\ "opening" \in Ready => "opening" \in done'
    /\ UNCHANGED <<streamVars, conn, q, fed, request, window, swapVars, episode>>

(***************************************************************************)
(* admit: while two connections overlap, the payload belongs to the one    *)
(* that delivered it first.                                                *)
(***************************************************************************)
Overlapping == standby \/ refreshOverlap
Token(c) == IF c = "new" THEN owner ELSE 0
Kept == IF Len(seen) > SeenCap THEN SubSeq(seen, SeenCap \div 4 + 1, Len(seen)) ELSE seen
Owners(n) == {Kept[i].owner : i \in {j \in DOMAIN Kept : Kept[j].event = n}}

Admits(n, c) == Overlapping => Owners(n) \subseteq {Token(c)}

Remember(n, c) ==
    seen' = IF ~Overlapping THEN seen
            ELSE IF Owners(n) # {} THEN Kept
            ELSE Append(Kept, [event |-> n, owner |-> Token(c)])

\* The frame at the head of connection c is delivered, and recorded if it is admitted.
Take(c) ==
    LET n == Head(q[c]) IN
    /\ q' = [q EXCEPT ![c] = Tail(@)]
    /\ Remember(n, c)
    /\ IF Admits(n, c)
       THEN /\ recorded' = [recorded EXCEPT ![n] = Min({@ + 1, 2})]
            /\ episode' = IF Overlapping THEN episode \cup {n} ELSE episode
       ELSE UNCHANGED <<recorded, episode>>

TakeStandby ==
    /\ pc = "standby" /\ pc' = "step"
    /\ standby /\ "standby" \in done /\ q["new"] # <<>>
    /\ Take("new")
    /\ LET n == Head(q["new"]) IN
       /\ first' = IF first = NoTime /\ n \notin Untimed THEN Second(n) ELSE first
       /\ fed' = (fed \/ Admits(n, "new"))
    /\ done' = done \ {"standby"}
    /\ UNCHANGED <<published, pumps, conn, request, window, opening, standby, owner,
                   primarySecond, refreshPending, refreshOverlap>>

NoStandbyFrame ==
    /\ pc = "standby" /\ pc' = "step"
    /\ ~("standby" \in done /\ q["new"] # <<>>)
    /\ UNCHANGED <<streamVars, conn, q, loopVars, request, window, swapVars, episode>>

(***************************************************************************)
(* step: exactly one of the following.                                     *)
(***************************************************************************)
\* _drop_standby closes the new connection; the memory of payloads becomes s.
DropStandby(s) ==
    /\ standby' = FALSE /\ first' = NoTime /\ seen' = s
    /\ conn' = [conn EXCEPT !["new"] = "off"]
    /\ q' = [q EXCEPT !["new"] = <<>>]

\* Mutants of Refresh: the dropped standby's payloads are forgotten; the owner token is
\* advanced here although the adoption advances it.
RefreshForgets ==
    /\ pc = "step" /\ pc' = "primary"
    /\ refreshPending /\ refreshPending' = FALSE
    /\ DropStandby(<<>>)
    /\ opening' = "connecting" /\ refreshOverlap' = TRUE
    /\ UNCHANGED <<streamVars, loopVars, request, window, owner, primarySecond, episode>>

\* A stalled standby is dropped, its payloads remembered, and another one opened unless
\* the ledger denies the slot.
Refresh ==
    /\ pc = "step" /\ pc' = "primary"
    /\ refreshPending /\ refreshPending' = FALSE
    /\ DropStandby(seen)
    /\ \/ owner < MaxStandbys /\ opening' = "connecting" /\ refreshOverlap' = TRUE /\ UNCHANGED episode
       \/ UNCHANGED opening /\ refreshOverlap' = FALSE /\ episode' = {}
    /\ UNCHANGED <<streamVars, loopVars, request, window, owner, primarySecond>>

\* The bring-up succeeded: its connection becomes the standby.
Adopt ==
    /\ pc = "step" /\ pc' = "primary"
    /\ ~refreshPending /\ "opening" \in done /\ opening = "ready"
    /\ opening' = "none" /\ standby' = TRUE /\ first' = NoTime
    /\ owner' = owner + 1
    /\ seen' = IF refreshOverlap THEN seen ELSE <<>>
    /\ episode' = IF refreshOverlap THEN episode ELSE {}
    /\ primarySecond' = NoTime /\ refreshOverlap' = FALSE
    /\ UNCHANGED <<streamVars, conn, q, loopVars, request, window, refreshPending>>

\* The bring-up failed or was cancelled.
OpenFailed ==
    /\ pc = "step" /\ pc' = "primary"
    /\ ~refreshPending /\ "opening" \in done /\ opening = "failed"
    /\ opening' = "none" /\ seen' = <<>> /\ refreshOverlap' = FALSE /\ episode' = {}
    /\ UNCHANGED <<streamVars, conn, q, loopVars, request, window, standby, first, owner,
                   primarySecond, refreshPending>>

Settled == pc = "step" /\ ~refreshPending /\ "opening" \notin done

\* The standby's recv failed, or its lease is gone (found while tending the leases or
\* at the cut-over).
LoseStandby ==
    /\ Settled /\ pc' = "primary" /\ standby
    /\ DropStandby(<<>>) /\ episode' = {}
    /\ UNCHANGED <<streamVars, loopVars, request, window, opening, owner, primarySecond,
                   refreshPending, refreshOverlap>>

StandbyFailed == "standby" \in done

CaughtUp == first # NoTime /\ primarySecond >= first

\* The new connection replaces the old one, which is closed with all it still had to
\* deliver; a pending request is discarded.
CutOver ==
    /\ standby
    /\ conn' = [old |-> conn["new"], new |-> "off"]
    /\ q' = [old |-> q["new"], new |-> <<>>]
    /\ standby' = FALSE /\ first' = NoTime /\ seen' = <<>> /\ episode' = {}
    /\ request' = FALSE /\ pc' = "start" /\ done' = {}
    /\ UNCHANGED <<streamVars, fed, window, opening, owner, primarySecond,
                   refreshPending, refreshOverlap>>

CutOverCaughtUp == Settled /\ ~StandbyFailed /\ window # "open" /\ CaughtUp /\ CutOver
CutOverForced   == Settled /\ ~StandbyFailed /\ window # "open" /\ ~CaughtUp /\ CutOver

\* Nothing is due.
Hold ==
    /\ Settled /\ pc' = "primary"
    /\ standby => ~StandbyFailed /\ (window = "open" \/ ~CaughtUp)
    /\ UNCHANGED <<streamVars, conn, q, loopVars, request, window, swapVars, episode>>

(***************************************************************************)
(* The primary's frame or failure, and the end of pump.                    *)
(***************************************************************************)
TakePrimary ==
    /\ pc = "primary" /\ pc' = "start"
    /\ "primary" \in done /\ q["old"] # <<>>
    /\ Take("old")
    /\ LET n == Head(q["old"]) IN
       primarySecond' = IF Overlapping /\ n \notin Untimed
                        THEN Max({primarySecond, Second(n)}) ELSE primarySecond
    /\ fed' = TRUE /\ done' = {}
    /\ UNCHANGED <<published, pumps, conn, request, window, opening, standby, first, owner,
                   refreshPending, refreshOverlap>>

NoPrimaryFrame ==
    /\ pc = "primary" /\ pc' = "start"
    /\ "primary" \notin done /\ done' = {}
    /\ UNCHANGED <<streamVars, conn, q, fed, request, window, swapVars, episode>>

PrimaryFailed == pc = "primary" /\ "primary" \in done /\ q["old"] = <<>>

\* on_primary_failure: a standby takes over at once.
CutOverFailed == PrimaryFailed /\ CutOver

\* Handover.aclose and the adapter's aclose: both connections are gone.
Close ==
    /\ conn' = [c \in Conns |-> "off"] /\ q' = [c \in Conns |-> <<>>]
    /\ opening' = "none" /\ standby' = FALSE /\ first' = NoTime
    /\ seen' = <<>> /\ refreshOverlap' = FALSE /\ episode' = {} /\ done' = {}
    /\ UNCHANGED <<streamVars, fed, request, window, owner, primarySecond, refreshPending>>

Disconnect == PrimaryFailed /\ ~standby /\ Close /\ pc' = "connect"
Watchdog   == pc = "start" /\ Close /\ pc' = "connect"
Stop       == pc \in {"start", "connect"} /\ Close /\ pc' = "stopped"
Stopped    == pc = "stopped" /\ UNCHANGED vars

Next ==
    \/ Publish \/ (\E c \in Conns : Drop(c)) \/ Ask \/ TurnWindow
    \/ OpenSubscribes \/ OpenReturns \/ OpenFails
    \/ Connect \/ AskRefresh \/ StartStandby \/ NoStart \/ Wake
    \/ TakeStandby \/ NoStandbyFrame
    \/ Refresh \/ Adopt \/ OpenFailed \/ LoseStandby
    \/ CutOverCaughtUp \/ CutOverForced \/ Hold
    \/ TakePrimary \/ NoPrimaryFrame \/ CutOverFailed \/ Disconnect \/ Watchdog
    \/ Stop \/ Stopped

Spec == Init /\ [][Next]_vars

(***************************************************************************)
(* Properties.                                                             *)
(***************************************************************************)
\* While two connections overlap, refreshes of the standby included, an event is recorded
\* from one of them only (admit, and step's care for the keys of a dropped standby).
OnceInOverlap == [][\A n \in Events : recorded'[n] > recorded[n] => n \notin episode]_vars

\* The streamer never has more than two connections: nothing is brought up beside a
\* standby (maybe_start, and the order of drop and start in step's refresh).
TwoConnections == opening # "none" => ~standby

\* A hand-over is between two connections, whatever starts it (maybe_start, step, pump).
ConnectionsSound == TypeOK /\ TwoConnections


=============================================================================
