----------------------------- MODULE Lifecycle -----------------------------
(* The lifecycle record of the daemon, core/lifecycle.py, and its use at the
   start and at every end of run_collector_daemon: a start tells a predecessor
   that was killed from one that crashed or ended, and alerts for both are
   bounded per day by a count kept in the record. *)
EXTENDS Integers

CONSTANTS AlertBudget,       \* crash_alert_daily_budget
          MaxRuns, MaxCrashDay, MaxWriteFaults

ASSUME LifecycleAssumption == {AlertBudget, MaxRuns, MaxCrashDay, MaxWriteFaults} \subseteq Nat

VARIABLES crashDay,     \* the day
          daemon,       \* "down" or "up", the record in memory and the number of the run
          lifeFile,     \* the record on disk, or NoLife
          last,         \* history: how the last run really ended
          report,       \* history: what the last start reported of its predecessor
          alerted,      \* history: alerts of each day
          writeFaults

lifeVars == <<crashDay, daemon, lifeFile, last, report, alerted, writeFaults>>

NoLife == [clean |-> TRUE, crash |-> FALSE, day |-> -1, sent |-> 0]

LifeInit ==
    /\ crashDay = 0 /\ daemon = [st |-> "down", rec |-> NoLife, run |-> 0] /\ lifeFile = NoLife
    /\ last = "none" /\ report = "none" /\ alerted = [d \in 0..MaxCrashDay |-> 0] /\ writeFaults = 0

crash_alert_allowed(r) == r.day # crashDay \/ r.sent < AlertBudget
Counted(r) == [r EXCEPT !.day = crashDay, !.sent = IF r.day = crashDay THEN @ + 1 ELSE 1]
Charge(r) == IF crash_alert_allowed(r) THEN Counted(r) ELSE r
Alert(r) == alerted' = IF crash_alert_allowed(r) THEN [alerted EXCEPT ![crashDay] = @ + 1] ELSE alerted

\* _write_record: an atomic replacement whose failure is only logged.
Write(r) == \/ lifeFile' = r /\ UNCHANGED writeFaults
            \/ writeFaults < MaxWriteFaults /\ writeFaults' = writeFaults + 1 /\ UNCHANGED lifeFile

\* The start: report the predecessor, charge an alert if it was killed, write the new record.
StartDaemon ==
    /\ daemon.st = "down" /\ daemon.run < MaxRuns
    /\ LET killed == ~lifeFile.clean /\ ~lifeFile.crash
           r == IF killed THEN Charge(lifeFile) ELSE lifeFile
           rec == [r EXCEPT !.clean = FALSE, !.crash = FALSE]
       IN /\ report' = IF killed THEN "killed" ELSE IF ~lifeFile.clean THEN "crashed" ELSE "clean"
          /\ IF killed THEN Alert(lifeFile) ELSE UNCHANGED alerted
          /\ daemon' = [st |-> "up", rec |-> rec, run |-> daemon.run + 1]
          /\ Write(rec)
    /\ UNCHANGED <<crashDay, last>>

\* _finish_graceful, for a shutdown, SystemExit or KeyboardInterrupt.
FinishGraceful ==
    /\ daemon.st = "up" /\ daemon' = [daemon EXCEPT !.st = "down"]
    /\ Write([daemon.rec EXCEPT !.clean = TRUE])
    /\ last' = "clean" /\ UNCHANGED <<crashDay, report, alerted>>

\* An exception leaves the loop: alert within the budget of the day, and record the crash.
CrashDaemon ==
    /\ daemon.st = "up" /\ daemon' = [daemon EXCEPT !.st = "down"]
    /\ Alert(daemon.rec) /\ Write([Charge(daemon.rec) EXCEPT !.crash = TRUE])
    /\ last' = "crashed" /\ UNCHANGED <<crashDay, report>>

\* SIGKILL, out of memory, power: nothing is written.
KillDaemon ==
    /\ daemon.st = "up" /\ daemon' = [daemon EXCEPT !.st = "down"]
    /\ last' = "killed" /\ UNCHANGED <<crashDay, lifeFile, report, alerted, writeFaults>>

NextCrashDay == /\ crashDay < MaxCrashDay /\ crashDay' = crashDay + 1
                /\ UNCHANGED <<daemon, lifeFile, last, report, alerted, writeFaults>>

LifeNext == StartDaemon \/ FinishGraceful \/ CrashDaemon \/ KillDaemon \/ NextCrashDay
LifeSpec == LifeInit /\ [][LifeNext]_lifeVars

-----------------------------------------------------------------------------
\* Record and counts have their types.
LifeTypeOK == lifeFile.sent \in 0..AlertBudget /\ lifeFile.day \in -1..crashDay /\ daemon.st \in {"down", "up"}

\* However the daemon dies and is started again, a day has no more crash alerts than its budget,
\* plus one for every write of the record that failed.
AlertsBounded == \A d \in DOMAIN alerted : alerted[d] <= AlertBudget + writeFaults

\* A start reports how its predecessor ended, if the record could be written.
ReportTrue ==
    daemon.st = "down" /\ daemon'.st = "up" /\ last # "none" /\ writeFaults = 0 => report' = last
=============================================================================
