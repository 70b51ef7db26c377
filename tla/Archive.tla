------------------------------ MODULE Archive ------------------------------
(* What becomes of the tick journals (L0) of one trading day: the end-of-day
   housekeeping of orchestration/daemon.py over storage/retention.py and
   storage/remote.py, which turns them into parquet (L1), uploads it and only
   then deletes L0; the repair chain of storage/l0_repair.py, which holds L0
   until its lost trades have been filled in; the nightly host backup.

   The day is `age` days old.  It has one partition per vendor: "ls", the
   feed that is repaired, and "kis", the peer that the repair reads. *)
EXTENDS Integers, FiniteSets

CONSTANTS Records,         \* the journal records of a partition
          Retain,          \* journal_retain_days
          Extra,           \* hold_max_extra_days
          Lead,            \* expiry_page_lead_days
          ArchiveRetain,   \* archive_retain_days
          Weekdays,        \* what weekday the day may be; 5 and 6 are the weekend
          TornDelete,      \* whether a deletion may be cut short
          MaxMishaps       \* failures of one behaviour, see Mishap

ASSUME ArchiveAssumption ==
    /\ {Retain, Extra, Lead, ArchiveRetain, MaxMishaps} \subseteq Nat
    /\ Weekdays \subseteq 0..4 /\ TornDelete \in BOOLEAN /\ IsFiniteSet(Records)

VARIABLES age,       \* days since the session
          weekday,   \* of the session
          stage,     \* the next step of the EOD; "night" once it is over
          unvisited,      \* partitions the running maintenance pass has still to visit
          disk_ok,   \* check_disk_watermark, asked once per EOD
          verified,  \* the L1 objects that this EOD found identical remotely
          l0, l1,    \* local journals and parquet, by vendor: the records they hold
          r0, r1,    \* the same on the remote drive
          quarantine,
          corrupt,   \* vendors whose journals hold conflicting records
          lossy,     \* whether the ls journals miss trades
          rep,       \* the files of the repair: audits, tape ledger, report, merged ticks
          paged,     \* DaemonState.repair_expiry_paged: labels paged by this process
          warned,    \* history: vendors the operator was paged about
          mishaps    \* failures so far

archiveVars == <<age, weekday, stage, unvisited, disk_ok, verified, l0, l1, r0, r1, quarantine, corrupt, lossy, rep,
                 paged, warned, mishaps>>

Vendors == {"ls", "kis"}                  \* gate_vendors
Horizon == Retain + Extra
\* From LastAge on nothing depends on the age but the weekday, so it turns by weeks.
LastAge == (IF Horizon > ArchiveRetain THEN Horizon ELSE ArchiveRetain) + 8
Weekend(a) == (weekday + a) % 7 \in {5, 6}
Stored(f, v) == f[v] # {}

Mishap(b) == mishaps' = mishaps + (IF b THEN 1 ELSE 0) /\ mishaps' <= MaxMishaps

ArchiveInit ==
    /\ age = 0 /\ weekday \in Weekdays /\ stage = "eod" /\ unvisited = {} /\ disk_ok = TRUE /\ verified = {}
    /\ l0 = [v \in Vendors |-> Records]
    /\ l1 = [v \in Vendors |-> {}] /\ r0 = l1 /\ r1 = l1 /\ quarantine = l1
    /\ corrupt \in SUBSET Vendors /\ lossy \in BOOLEAN
    /\ rep = [ls |-> "none", kis |-> "none", tape |-> FALSE, report |-> FALSE, merged |-> FALSE]
    /\ paged = {} /\ warned = {} /\ mishaps = 0

-----------------------------------------------------------------------------
(* The repair gate. *)
ArchiveDone == {"clean", "repaired"}
derive_day_repair(v) ==
    CASE rep[v] = "none" -> "unaudited"
      [] rep[v] # "none" /\ v # "ls" -> "clean"
      [] v = "ls" /\ rep.ls = "clean" -> IF rep.merged THEN "clean" ELSE "merge_pending"
      [] v = "ls" /\ rep.ls = "gaps" ->
           CASE ~rep.tape -> "tape_pending"
             [] rep.tape /\ ~rep.report -> "gapfill_pending"
             [] rep.report /\ ~rep.merged -> "merge_pending"
             [] rep.report /\ rep.merged -> "repaired"

\* Mutant: a peer is held for its own state only.
OwnStateOnly(v) == derive_day_repair(v) \notin ArchiveDone
_pending_repair(v) ==
    \/ derive_day_repair(v) \notin ArchiveDone
    \/ v = "kis" /\ (Stored(l0, "ls") \/ rep.ls # "none") /\ derive_day_repair("ls") \notin ArchiveDone

l0_hold_reason(v) == _pending_repair(v) /\ (age - Retain) <= Extra

-----------------------------------------------------------------------------
(* _run_eod_housekeeping. *)
Due == {v \in Vendors : Stored(l0, v) /\ age > Retain}
Enter(s) == stage' = s /\ unvisited' = IF s \in {"pass1", "pass2"} THEN Due ELSE {}
still == UNCHANGED <<age, weekday, corrupt, lossy>>

\* The disk check; on a day of its own the session is audited first.
BeginEod ==
    /\ stage = "eod"
    /\ \E ok \in BOOLEAN, audited \in SUBSET Vendors :
         /\ Mishap(~ok) /\ disk_ok' = ok /\ Enter(IF ok THEN "pass1" ELSE "offload")
         /\ age > 0 => audited = {}
         /\ rep' = [rep EXCEPT !.ls = IF "ls" \in audited THEN (IF lossy THEN "gaps" ELSE "clean") ELSE @,
                               !.kis = IF "kis" \in audited THEN "clean" ELSE @]
    /\ still /\ UNCHANGED <<verified, l0, l1, r0, r1, quarantine, paged, warned>>

\* One partition of prune_old_journals goes through the isolated normaliser.
\* A worker that fails leaves L1 alone (it is written aside and renamed).
Normalize(v) ==
    /\ IF v \in corrupt
       THEN /\ Mishap(FALSE) /\ UNCHANGED l1
            /\ IF Stored(quarantine, v) THEN UNCHANGED <<l0, quarantine>>
               ELSE quarantine' = [quarantine EXCEPT ![v] = l0[v]] /\ l0' = [l0 EXCEPT ![v] = {}]
       ELSE /\ \E ok \in BOOLEAN : Mishap(~ok) /\ l1' = IF ok THEN [l1 EXCEPT ![v] = l0[v]] ELSE l1
            /\ UNCHANGED <<l0, quarantine>>

Visited(v) == unvisited' = unvisited \ {v} /\ UNCHANGED stage

\* The first pass has no verified set: it only normalises.
FirstPass(v) ==
    /\ stage = "pass1" /\ v \in unvisited
    /\ Normalize(v) /\ Visited(v)
    /\ still /\ UNCHANGED <<disk_ok, verified, r0, r1, rep, paged, warned>>

EndFirstPass ==
    /\ stage = "pass1" /\ unvisited = {} /\ Enter("offload")
    /\ still /\ UNCHANGED <<disk_ok, verified, l0, l1, r0, r1, quarantine, rep, paged, warned, mishaps>>

\* prune_local_l1, over what the remote lists and whose journals are gone.
Pruned(remote) ==
    [v \in Vendors |-> IF age > ArchiveRetain /\ Stored(remote, v) /\ ~Stored(l0, v) THEN {} ELSE l1[v]]

verified_paths(remote) == {v \in Vendors : Stored(l1, v) /\ remote[v] = l1[v]}

\* run_eod_offload: the remote is complete, is not configured, or fails on some objects.
Offload ==
    /\ stage = "offload"
    /\ \/ LET up == [v \in Vendors |-> IF Stored(l1, v) THEN l1[v] ELSE r1[v]] IN
          /\ Mishap(FALSE) /\ r1' = up /\ verified' = verified_paths(up) /\ l1' = Pruned(up) /\ Enter("pass2")
       \/ Mishap(TRUE) /\ verified' = {} /\ UNCHANGED <<r1, l1>> /\ Enter("pass2")
       \/ \E sent \in SUBSET Vendors :
            /\ Mishap(TRUE) /\ verified' = {} /\ UNCHANGED l1 /\ Enter("page")
            /\ r1' = [v \in Vendors |-> IF v \in sent /\ Stored(l1, v) THEN l1[v] ELSE r1[v]]
    /\ still /\ UNCHANGED <<disk_ok, l0, r0, quarantine, rep, paged, warned>>

MayDelete(v) == Stored(l1, v) /\ v \in verified /\ (disk_ok => ~l0_hold_reason(v))

\* The second pass: a fresh L1 is reused, and its journals are deleted once they are
\* verified and not held.  With a low disk the hold is overridden.
SecondPass(v) ==
    /\ stage = "pass2" /\ v \in unvisited
    /\ \/ /\ MayDelete(v) /\ Visited(v)
          /\ l0' = [l0 EXCEPT ![v] = {}] /\ UNCHANGED <<l1, quarantine, verified>> /\ Mishap(FALSE)
       \/ /\ MayDelete(v) /\ TornDelete /\ Mishap(TRUE)          \* the process dies in rmtree
          /\ \E rest \in SUBSET l0[v] \ {{}, l0[v]} : l0' = [l0 EXCEPT ![v] = rest]
          /\ stage' = "down" /\ unvisited' = {} /\ UNCHANGED <<l1, quarantine, verified>>
       \/ /\ ~MayDelete(v) /\ (Stored(l1, v) \/ ~disk_ok) /\ Visited(v)
          /\ verified' = IF disk_ok THEN verified \ {v} ELSE verified
          /\ UNCHANGED <<l0, l1, quarantine>> /\ Mishap(FALSE)
       \/ /\ ~Stored(l1, v) /\ disk_ok /\ Visited(v)
          /\ verified' = verified \ {v} /\ Normalize(v)
    /\ still /\ UNCHANGED <<disk_ok, r0, r1, rep, paged, warned>>

EndSecondPass ==
    /\ stage = "pass2" /\ unvisited = {} /\ Enter("purge")
    /\ still /\ UNCHANGED <<disk_ok, verified, l0, l1, r0, r1, quarantine, rep, paged, warned, mishaps>>

\* run_eod_remote_l0_purge and purge_superseded_l0: a failure leaves the object.
Superseded == {v \in verified : ~Stored(l0, v) /\ ~Stored(quarantine, v)}
Purge ==
    /\ stage = "purge" /\ Enter("page")
    /\ \E failed \in SUBSET Superseded :
         /\ Mishap(failed # {})
         /\ r0' = [v \in Vendors |-> IF v \in Superseded \ failed THEN {} ELSE r0[v]]
    /\ still /\ UNCHANGED <<disk_ok, verified, l0, l1, r1, quarantine, rep, paged, warned>>

\* _page_repair_expiry: once per label, for days whose deletion is near.
_repair_expiring == {v \in Vendors : Stored(l0, v) /\ derive_day_repair(v) \notin ArchiveDone /\ age <= Horizon
                                     /\ age >= Horizon + 1 - Lead}
PageExpiry ==
    /\ stage = "page" /\ Enter("night")
    /\ LET label(v) == <<v, derive_day_repair(v)>>
           fresh == {v \in _repair_expiring : label(v) \notin paged}
       IN paged' = paged \cup {label(v) : v \in fresh} /\ warned' = warned \cup fresh
    /\ still /\ UNCHANGED <<disk_ok, verified, l0, l1, r0, r1, quarantine, rep, mishaps>>

\* The daemon dies in the EOD.  Started again in time, it runs the EOD from the start.
CrashEod ==
    /\ stage \in {"pass1", "offload", "pass2", "purge", "page"} /\ Mishap(TRUE) /\ Enter("down")
    /\ still /\ UNCHANGED <<disk_ok, verified, l0, l1, r0, r1, quarantine, rep, paged, warned>>
Reboot ==
    /\ stage = "down" /\ stage' \in {"eod", "night"} /\ paged' = {}
    /\ still /\ UNCHANGED <<unvisited, disk_ok, verified, l0, l1, r0, r1, quarantine, rep, warned, mishaps>>

-----------------------------------------------------------------------------
(* The night. *)
\* The tape backfill closes the day's gap symbols (modelled in TapeRun).
FillTape ==
    /\ stage = "night" /\ rep.ls = "gaps" /\ ~rep.tape /\ rep' = [rep EXCEPT !.tape = TRUE]
    /\ still /\ UNCHANGED <<stage, unvisited, disk_ok, verified, l0, l1, r0, r1, quarantine, paged, warned, mishaps>>

\* One unit of _run_locked: audit, gap-fill, merge, each of which may fail or run out of time.
Audit(v) ==
    /\ derive_day_repair(v) = "unaudited"
    /\ rep' = [rep EXCEPT ![v] = IF v = "ls" /\ lossy THEN "gaps" ELSE "clean"]
Gapfill(v) == v = "ls" /\ derive_day_repair(v) = "gapfill_pending" /\ rep' = [rep EXCEPT !.report = TRUE]
\* build_repaired_ticks refuses a journal that no longer has what the audit counted.
Merge(v) == v = "ls" /\ derive_day_repair(v) = "merge_pending" /\ l0[v] = Records /\ rep' = [rep EXCEPT !.merged = TRUE]
RepairUnit(v) ==
    /\ stage = "night" /\ Stored(l0, v) /\ age <= Horizon + 1
    /\ Audit(v) \/ Gapfill(v) \/ Merge(v)
    /\ still /\ UNCHANGED <<stage, unvisited, disk_ok, verified, l0, l1, r0, r1, quarantine, paged, warned, mishaps>>

\* krx-host-backup.sh: rclone copy adds and replaces, and deletes nothing.
HostBackup ==
    /\ stage = "night" /\ r0' = [v \in Vendors |-> r0[v] \cup l0[v]]
    /\ still /\ UNCHANGED <<stage, unvisited, disk_ok, verified, l0, l1, r1, quarantine, rep, paged, warned, mishaps>>

\* No EOD runs at a weekend, nor on a day the daemon is down for.
NextDay ==
    /\ stage = "night" /\ age' = IF age = LastAge THEN age - 6 ELSE age + 1
    /\ \E up \in BOOLEAN : Mishap(~up) /\ stage' = IF Weekend(age') \/ ~up THEN "night" ELSE "eod"
    /\ UNCHANGED <<weekday, unvisited, disk_ok, verified, l0, l1, r0, r1, quarantine, corrupt, lossy, rep, paged, warned>>

Eod == BeginEod \/ (\E v \in Vendors : FirstPass(v) \/ SecondPass(v)) \/ EndFirstPass \/ Offload \/ EndSecondPass
       \/ Purge \/ PageExpiry \/ Reboot
Night == FillTape \/ (\E v \in Vendors : RepairUnit(v)) \/ HostBackup
ArchiveNext == Eod \/ CrashEod \/ Night \/ NextDay

-----------------------------------------------------------------------------
ArchiveTypeOK ==
    /\ age \in 0..LastAge /\ weekday \in Weekdays /\ mishaps \in 0..MaxMishaps
    /\ stage \in {"eod", "pass1", "offload", "pass2", "purge", "page", "night", "down"}
    /\ unvisited \subseteq Vendors /\ verified \subseteq Vendors /\ warned \subseteq Vendors /\ disk_ok \in BOOLEAN
    /\ {l0, l1, r0, r1, quarantine} \subseteq [Vendors -> SUBSET Records]
    /\ rep \in [ls : {"none", "clean", "gaps"}, kis : {"none", "clean"}, tape : BOOLEAN, report : BOOLEAN, merged : BOOLEAN]

\* No record is ever lost: whatever EOD was cut short, and whichever upload failed, each
\* record is in the local journals, in quarantine or in the remote L1 (prune_old_journals,
\* run_eod_offload and run_eod_remote_l0_purge together).
NothingLost == \A v \in Vendors : l0[v] \cup quarantine[v] \cup r1[v] = Records


\* While the disk has room, journals whose repair is open are deleted only when the hold
\* has run out (l0_hold_reason in both maintenance passes, whatever the night jobs did).
DeletedWhenRepaired ==
    \A v \in Vendors : (Stored(l0, v) /\ ~Stored(l0', v) /\ quarantine' = quarantine)
       => derive_day_repair(v) \in ArchiveDone \/ age > Horizon \/ ~disk_ok

\* However late the tape arrives, the gap-fill of the ls feed finds the journals of its
\* peer whole, unless the hold has run out (_pending_repair keeps them for the other vendor).
GapfillSeesPeer ==
    (rep'.report /\ ~rep.report /\ mishaps = 0 /\ "kis" \notin corrupt /\ age <= Horizon)
       => l0["kis"] = Records

\* Deleted when its hold ran out, with the repair still open.
Expired(v) == Stored(l0, v) /\ ~Stored(l0', v) /\ quarantine' = quarantine /\ derive_day_repair(v) \notin ArchiveDone

\* Without failures, an unrepaired day is deleted only after the operator was paged, if
\* one of the Lead days before the deletion is a working day (_repair_expiring, l0_hold_reason).
PagedInTime ==
    \A v \in Vendors : (Expired(v) /\ mishaps = 0 /\ \E a \in Horizon + 1 - Lead .. Horizon : ~Weekend(a))
       => v \in warned

\* The hold on unrepaired journals, over the whole life of a day: kept until repaired or expired,
\* useful to the other vendor's repair, and not given up without a page.
RepairHeld == [][DeletedWhenRepaired /\ GapfillSeesPeer /\ PagedInTime]_archiveVars

ArchiveSpec == ArchiveInit /\ [][ArchiveNext]_archiveVars
=============================================================================
