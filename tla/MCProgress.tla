----------------------------- MODULE MCProgress -----------------------------
(* What goes on by retrying, for TLC: the websocket slots, the supervision of the
   shard processes, the live watch of discovered symbols, and the two jobs that
   fetch history.  They are independent: a behaviour runs one of them. *)
EXTENDS Leases, Supervision, LiveWatch, TapeRun, MinuteRun

VARIABLE part

progressVars == <<part, leaseVars, supVars, liveVars, tapeVars, minuteVars>>

\* Rankings of the vendor, and the slots of its feed.
RankingsOfRun == {<<"a">>, <<"b", "a">>, <<"c", "s">>}
FillOrderOfRun == <<"kis">>
FeedCapOfRun == [f \in {"kis"} |-> 2]

\* Tapes by the day of each tick, newest first: none, one with a day before the window, one
\* that ends in it, one of a day only, and one with a day of too many ticks.
TapeSymbols == <<"a", "b">>
TapesOfRun == {<<>>, <<2, 2, 1, 0>>, <<2, 1>>, <<2, 2>>, <<2, 2, 2, 2, 1, 0>>}

\* Minutes with a bar: none, all, and none before the middle.
CellsOfRun == <<<<"p", 1>>, <<"p", 2>>, <<"q", 1>>>>
BarsOfRun == {{}, {1, 2, 3, 4}, {3, 4}}

Parts == {"lease", "supervision", "live", "tape", "minute"}

\* The inputs of a component that does not run are fixed, to ones that it can never settle.
Idle == /\ part # "tape" => tape = [s \in Names |-> <<>>]
        /\ part # "minute" => have = [c \in CellSet |-> {3, 4}] /\ repeats = FALSE

Init == /\ part \in Parts /\ Idle
        /\ LeaseInit /\ SupInit /\ DiscInit /\ LiveInit /\ TapeInit /\ MinuteInit

InLease(A) == part = "lease" /\ A /\ UNCHANGED <<part, supVars, liveVars, tapeVars, minuteVars>>
InLive(A) == part = "live" /\ A /\ UNCHANGED <<part, leaseVars, supVars, tapeVars, minuteVars>>
InTape(A) == part = "tape" /\ A /\ UNCHANGED <<part, leaseVars, supVars, liveVars, minuteVars>>
InMinute(A) == part = "minute" /\ A /\ UNCHANGED <<part, leaseVars, supVars, liveVars, tapeVars>>
RunLease == InLease(LeaseNext)
RunSupervision == part = "supervision" /\ SupNext /\ UNCHANGED <<part, leaseVars, liveVars, tapeVars, minuteVars>>
RunLive == InLive(LiveNext)
RunTape == InTape(TapeNext)
RunMinute == InMinute(MinuteNext)

Next == RunLease \/ RunSupervision \/ RunLive \/ RunTape \/ RunMinute

Spec == Init /\ [][Next]_progressVars

\* Time goes on and a running shard takes its steps; the daemon goes on with its cycles, the
\* watcher with its ticks and a job with its pages; an answer that cannot come times out, and
\* the tape job is started every night.  (One fairness condition for steps of several
\* components is one for each: a behaviour has one component.)
Steps == RunSupervision \/ InLive(LiveStep) \/ InTape(TapeStep) \/ InMinute(MinuteStep)
FairSpec == /\ Spec
            /\ SF_progressVars(InLease(LeaseTick))
            /\ \A s \in Shards : WF_progressVars(InLease(ShardStep(s)))
            /\ WF_progressVars(Steps)
            /\ WF_progressVars(InLive(Unbound) \/ InTape(StartRun))

\* A shard that is started again and again gets a slot, whatever its predecessor left behind in
\* the ledger: _claim_primary exits or waits, and the entries of dead processes expire.
ShardServed == \A s \in Shards : []<>(part = "lease" => sh[s].lease # NoLease)

\* A dead shard is started again by ensure_running, however often it has died: an open circuit
\* lets probes through.
NeverGivenUp == \A k \in Kids : []<>(part = "supervision" => sup[k].proc = "up")

\* Nothing waits for ever: each of the components gets done what it goes on trying.
Progress == ShardServed /\ NeverGivenUp /\ EntryServed /\ TapeSettles /\ MinuteSettles
=============================================================================
