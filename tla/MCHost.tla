------------------------------- MODULE MCHost -------------------------------
(* The files that the processes of one host share, for TLC.  The components do
   not interact, so a behaviour runs one of them, and the states of the run are
   the sum of theirs. *)
EXTENDS Pacing, KisToken, SharedToken, Alerts, Lifecycle

VARIABLE part

hostVars == <<part, pacingVars, kisVars, sharedVars, alertVars, lifeVars>>

Init == /\ part \in {"pacing", "kis", "shared", "alerts", "lifecycle"}
        /\ PacingInit /\ KisInit /\ SharedInit /\ AlertInit /\ LifeInit
        /\ part # "shared" => vendor = "toss"

RunPacing == part = "pacing" /\ PacingNext
             /\ UNCHANGED <<part, kisVars, sharedVars, alertVars, lifeVars>>
RunKis == part = "kis" /\ KisNext
          /\ UNCHANGED <<part, pacingVars, sharedVars, alertVars, lifeVars>>
RunShared == part = "shared" /\ SharedNext
             /\ UNCHANGED <<part, pacingVars, kisVars, alertVars, lifeVars>>
RunAlerts == part = "alerts" /\ AlertNext
             /\ UNCHANGED <<part, pacingVars, kisVars, sharedVars, lifeVars>>
RunLifecycle == part = "lifecycle" /\ LifeNext
                /\ UNCHANGED <<part, pacingVars, kisVars, sharedVars, alertVars>>

\* The bounded clocks and counts of two of the components run out.
Over == /\ \/ part = "pacing" /\ clock = MaxClock
           \/ part = "lifecycle" /\ daemon.run = MaxRuns
        /\ UNCHANGED hostVars

Next == \/ RunPacing \/ RunKis \/ RunShared \/ RunAlerts \/ RunLifecycle \/ Over

Spec == Init /\ [][Next]_hostVars


\* What the operator is told is neither silenced by a send that failed nor untrue of how the
\* daemon's last run ended (_reap_abandoned, classify_previous_run).
AlertingTrue == [][NotSilenced /\ ReportTrue]_hostVars
=============================================================================
