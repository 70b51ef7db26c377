------------------------------- MODULE MCData -------------------------------
(* The recorded data from the session to the archive, for TLC.  The components
   share files but take no steps together, so a behaviour runs one of them, and
   the states of the run are the sum of theirs. *)
EXTENDS Archive, TickAudit, RepairFill, ProgramTrades, ShardSession, SessionVerdict

VARIABLE part

dataVars == <<part, archiveVars, auditVars, repairVars, progVars, shardVars, verdictVars>>

Parts == {"archive", "audit", "repair", "program", "session", "verdict"}

\* The inputs of a component that does not run are fixed.
Idle == /\ part # "archive" => weekday = 4 /\ corrupt = {} /\ lossy = FALSE
        /\ part # "repair" => sec = [n \in Trades |-> 1] /\ price = sec /\ rising = Trades /\ late = {} /\ peer = {}
        /\ part # "program" => store = {}
        /\ part # "session" => kind = "after"
        /\ part # "verdict" => setup = [mode |-> "OFF", audit |-> "NONE", pending |-> FALSE,
                                        trades |-> [i \in Instruments |-> 4]]

\* The first trade is in the first second, and the peer has nothing or the two after it.
InputsOfRun == sec[1] = 1 /\ peer \in {{}, {2, 3}}

Init == /\ part \in Parts /\ Idle
        /\ ArchiveInit /\ AuditInit /\ RepairInit /\ ProgInit /\ ShardInit /\ VerdictInit
        /\ InputsOfRun

RunArchive == part = "archive" /\ ArchiveNext
              /\ UNCHANGED <<part, auditVars, repairVars, progVars, shardVars, verdictVars>>
RunAudit == part = "audit" /\ AuditNext
            /\ UNCHANGED <<part, archiveVars, repairVars, progVars, shardVars, verdictVars>>
RunRepair == part = "repair" /\ RepairNext
             /\ UNCHANGED <<part, archiveVars, auditVars, progVars, shardVars, verdictVars>>
RunProgram == part = "program" /\ ProgNext
              /\ UNCHANGED <<part, archiveVars, auditVars, repairVars, shardVars, verdictVars>>
RunSession == part = "session" /\ ShardNext
              /\ UNCHANGED <<part, archiveVars, auditVars, repairVars, progVars, verdictVars>>
RunVerdict == part = "verdict" /\ VerdictNext
              /\ UNCHANGED <<part, archiveVars, auditVars, repairVars, progVars, shardVars>>

\* All components but the archive are bounded and end.
Over == part # "archive" /\ UNCHANGED dataVars

Next == RunArchive \/ RunAudit \/ RunRepair \/ RunProgram \/ RunSession \/ RunVerdict \/ Over

Spec == Init /\ [][Next]_dataVars
=============================================================================
