------------------------------- MODULE Leases -------------------------------
(* The ledger of websocket slots, realtime/ws_lease.py, and the processes that
   use it: the shards of the LS collector, each with one PRIMARY connection,
   and shard 0 also with a STANDBY (realtime/connection_handover.py,
   cli/collect_stream.py).  Every call of the ledger is one locked
   read-modify-write of its file.

   Time is a count of thirds of the lease time: a lease lives TTL ticks and a
   running shard tends its leases once per tick.  Times are kept as what is
   left of them, so an entry that expires leaves the ledger with the tick. *)
EXTENDS Integers, Sequences, SequencesExt, FiniteSets

CONSTANTS Shards,          \* shard numbers; 0 may open a standby and may go on without a slot
          Cap,             \* max_connections
          MaxLeaseFaults   \* crashes, stalls and failed ledger calls of one behaviour

ASSUME LeaseAssumption == Shards \subseteq Nat /\ 0 \in Shards /\ Cap \in Nat \ {0} /\ MaxLeaseFaults \in Nat

TTL == 3
_SHARD0_LEASE_WAIT_TTLS == 2
Wait == _SHARD0_LEASE_WAIT_TTLS * TTL
NoLease == 0

VARIABLES ledger,       \* entries in the order they were granted
          ledgerFile,   \* "ok" or "corrupt"
          blocked,      \* what is left of standby_blocked_until_ns
          sh,           \* the shard processes
          late,         \* history: a shard missed a tick or a call of the ledger failed
          leaseFaults

leaseVars == <<ledger, ledgerFile, blocked, sh, late, leaseFaults>>

Down == [pc |-> "down", lease |-> NoLease, standby |-> NoLease, retired |-> NoLease,
         waited |-> 0, forced |-> "no", tended |-> TRUE]
Tokens == 1 .. 2 * Cap + Cardinality(Shards)
NewToken == CHOOSE k \in Tokens :
              \A s \in Shards : k \notin {sh[s].lease, sh[s].standby, sh[s].retired} \cup {e.tok : e \in ToSet(ledger)}

LeaseInit ==
    /\ ledger = <<>> /\ ledgerFile = "ok" /\ blocked = 0
    /\ sh = [s \in Shards |-> Down]
    /\ late = FALSE /\ leaseFaults = 0

-----------------------------------------------------------------------------
(* What a call does to the entries. *)
Entry(owner, role) == [tok |-> NewToken, owner |-> owner, role |-> role, left |-> TTL, preempt |-> FALSE]
Standbys == {i \in DOMAIN ledger : ledger[i].role = "standby"}
Has(k) == \E i \in DOMAIN ledger : ledger[i].tok = k
At(k) == CHOOSE i \in DOMAIN ledger : ledger[i].tok = k
GrantedUnblocked(owner, role) == Len(ledger) < Cap
SpareForStandby(owner, role) == Len(ledger) < (IF owner = 0 THEN Cap ELSE Cap - 1) /\ ~(role = "standby" /\ blocked > 0)
Granted(owner, role) == Len(ledger) < Cap /\ ~(role = "standby" /\ blocked > 0)
Preempts(role) == /\ Len(ledger) >= Cap /\ role = "primary"
                  /\ Standbys # {} /\ \A i \in Standbys : ~ledger[i].preempt

acquire(owner, role) ==
    IF Granted(owner, role) THEN Append(ledger, Entry(owner, role))
    ELSE IF Preempts(role) THEN [ledger EXCEPT ![CHOOSE i \in Standbys : \A j \in Standbys : i <= j].preempt = TRUE]
    ELSE ledger
Renewable(k) == Has(k) /\ ~ledger[At(k)].preempt
renew(k) == IF Renewable(k) THEN [ledger EXCEPT ![At(k)].left = TTL] ELSE ledger
_drop_expired(es) == SelectSeq(es, LAMBDA e : e.left > 0)
release(k) == SelectSeq(ledger, LAMBDA e : e.tok # k)
Promotable(k) == Renewable(k) /\ ledger[At(k)].role = "standby"
promote(k) == [ledger EXCEPT ![At(k)].role = "primary", ![At(k)].left = TTL]

LeaseFaulty(b) == leaseFaults' = leaseFaults + (IF b THEN 1 ELSE 0) /\ leaseFaults' <= MaxLeaseFaults

\* A call that goes through.
Done(entries) == /\ ledgerFile = "ok" /\ ledger' = entries
                 /\ UNCHANGED <<ledgerFile, blocked, late, leaseFaults>>

\* A call that raises LeaseUnavailable: the file cannot be read or written, or it is corrupt.  A
\* corrupt ledger is set aside and an empty one stored that blocks standbys, if that can be stored.
Fails ==
    \/ /\ ledgerFile = "ok" /\ LeaseFaulty(TRUE) /\ late' = TRUE
       /\ UNCHANGED <<ledger, ledgerFile, blocked>>
    \/ /\ ledgerFile = "corrupt" /\ ledgerFile' = "ok" /\ ledger' = <<>>
       /\ blocked' \in {0, TTL} /\ LeaseFaulty(blocked' = 0) /\ late' = (late \/ blocked' = 0)

-----------------------------------------------------------------------------
(* The shards.  A turn of Handover.step tends the leases when they are due and then drops the
   standby or cuts over; a standby may be opened at any turn. *)
Shard(s, x) == sh' = [sh EXCEPT ![s] = x]
Up(s) == sh[s].pc = "up"

\* _claim_primary: shard 0 tries for two lease times and then goes on without a slot, another
\* shard exits at once and is started again by its supervisor.
Claim(s) ==
    /\ sh[s].pc \in {"down", "claim"} /\ (sh[s].pc = "claim" => ~sh[s].tended)
    /\ \/ /\ Done(acquire(s, "primary"))
          /\ Shard(s, IF Granted(s, "primary") THEN [Down EXCEPT !.pc = "up", !.lease = NewToken]
                      ELSE IF s # 0 THEN Down
                      ELSE IF sh[s].waited < Wait THEN [sh[s] EXCEPT !.pc = "claim", !.tended = TRUE]
                      ELSE [Down EXCEPT !.pc = "up", !.forced = "full"])
       \/ /\ Fails
          /\ Shard(s, IF s # 0 THEN Down
                      ELSE IF sh[s].waited < Wait THEN [sh[s] EXCEPT !.pc = "claim", !.tended = TRUE]
                      ELSE [Down EXCEPT !.pc = "up", !.forced = "ledger"])

\* _tend_leases: the standby first, then the primary, which is acquired again if it is gone.
Tend(s) ==
    /\ Up(s) /\ ~sh[s].tended
    /\ Shard(s, [sh[s] EXCEPT !.tended = TRUE, !.pc = IF sh[s].standby # NoLease THEN "tend_standby" ELSE "tend_primary"])
    /\ UNCHANGED <<ledger, ledgerFile, blocked, late, leaseFaults>>
TendStandby(s) ==
    /\ sh[s].pc = "tend_standby"
    /\ \/ /\ Done(renew(sh[s].standby))
          /\ Shard(s, [sh[s] EXCEPT !.pc = IF Renewable(sh[s].standby) THEN "tend_primary" ELSE "drop_tending"])
       \/ Fails /\ Shard(s, [sh[s] EXCEPT !.pc = "tend_primary"])
TendPrimary(s) ==
    /\ sh[s].pc = "tend_primary" /\ sh[s].lease # NoLease
    /\ \/ /\ Done(renew(sh[s].lease))
          /\ Shard(s, IF Renewable(sh[s].lease) THEN [sh[s] EXCEPT !.pc = "up"]
                      ELSE [sh[s] EXCEPT !.pc = "acquire", !.lease = NoLease])
       \/ Fails /\ Shard(s, [sh[s] EXCEPT !.pc = "up"])
AcquirePrimary(s) ==
    /\ sh[s].pc = "acquire" \/ (sh[s].pc = "tend_primary" /\ sh[s].lease = NoLease)
    /\ LET then == IF sh[s].retired # NoLease THEN "retire" ELSE "up"
       IN \/ /\ Done(acquire(s, "primary"))
             /\ Shard(s, IF Granted(s, "primary") THEN [sh[s] EXCEPT !.pc = then, !.lease = NewToken, !.forced = "no"]
                         ELSE [sh[s] EXCEPT !.pc = then])
          \/ Fails /\ Shard(s, [sh[s] EXCEPT !.pc = then])

\* _start_opening: the slot of the standby before its connection.
OpenStandby ==
    /\ Up(0) /\ sh[0].standby = NoLease
    /\ \/ /\ Done(acquire(0, "standby"))
          /\ Shard(0, IF Granted(0, "standby") THEN [sh[0] EXCEPT !.standby = NewToken] ELSE sh[0])
       \/ Fails /\ UNCHANGED sh

\* _drop_standby closes the connection and releases its slot; a failed release is left to expire.
DropStandby(s) ==
    /\ (Up(s) /\ sh[s].tended /\ sh[s].standby # NoLease) \/ sh[s].pc = "drop_tending"
    /\ Done(release(sh[s].standby)) \/ Fails
    /\ Shard(s, [sh[s] EXCEPT !.standby = NoLease, !.pc = IF Up(s) THEN "up" ELSE "tend_primary"])

\* _take_over_primary_lease: promote the standby's slot or acquire one, then release the old one.
CutOver(s) ==
    /\ Up(s) /\ sh[s].tended /\ sh[s].standby # NoLease
    /\ LET k == sh[s].standby
           cut == [sh[s] EXCEPT !.standby = NoLease, !.lease = NoLease, !.retired = sh[s].lease]
       IN \/ /\ Promotable(k) /\ Done(promote(k))
             /\ Shard(s, [cut EXCEPT !.lease = k, !.forced = "no", !.pc = "retire"])
          \/ /\ ~Promotable(k) /\ Done(release(k))
             /\ Shard(s, [cut EXCEPT !.pc = "acquire"])
          \/ Fails /\ Shard(s, [cut EXCEPT !.pc = "acquire"])
Retire(s) ==
    /\ sh[s].pc = "retire"
    /\ Done(release(sh[s].retired)) \/ Fails
    /\ Shard(s, [sh[s] EXCEPT !.retired = NoLease, !.pc = "up"])

\* The end of run_streaming_child: the connections are closed, the slot is released.
StopShard(s) ==
    /\ Up(s) /\ sh[s].standby = NoLease /\ LeaseFaulty(TRUE) /\ ledgerFile = "ok"
    /\ ledger' = release(sh[s].lease) /\ Shard(s, Down)
    /\ UNCHANGED <<ledgerFile, blocked, late>>

CrashShard(s) ==
    /\ sh[s].pc # "down" /\ Shard(s, Down) /\ LeaseFaulty(TRUE)
    /\ UNCHANGED <<ledger, ledgerFile, blocked, late>>

\* The file is damaged from outside; the ledger itself replaces it atomically.
CorruptLedger ==
    /\ ledgerFile = "ok" /\ ledgerFile' = "corrupt" /\ LeaseFaulty(TRUE)
    /\ UNCHANGED <<ledger, blocked, sh, late>>

\* Time: a running shard that has not tended its leases when the tick ends is a fault.
LeaseTick ==
    /\ LET idle == {s \in Shards : sh[s].pc \in {"down", "claim", "up"}}
           behind == {s \in Shards \ {t \in Shards : sh[t].pc = "down"} : ~sh[s].tended}
       IN idle = Shards /\ LeaseFaulty(behind # {}) /\ late' = (late \/ behind # {})
    /\ ledger' = _drop_expired([i \in DOMAIN ledger |-> [ledger[i] EXCEPT !.left = @ - 1]])
    /\ blocked' = IF blocked > 0 THEN blocked - 1 ELSE 0
    /\ sh' = [s \in Shards |-> IF sh[s].pc = "down" THEN Down
                               ELSE [sh[s] EXCEPT !.tended = FALSE,
                                                  !.waited = IF sh[s].pc = "claim" THEN @ + 1 ELSE @]]
    /\ UNCHANGED ledgerFile

ShardStep(s) == \/ Claim(s) \/ Tend(s) \/ TendStandby(s) \/ TendPrimary(s) \/ AcquirePrimary(s)
                \/ Retire(s)
                \/ (sh[s].pc = "drop_tending" /\ DropStandby(s))
LeaseNext ==
    \/ \E s \in Shards : ShardStep(s) \/ DropStandby(s) \/ CutOver(s) \/ StopShard(s) \/ CrashShard(s)
    \/ OpenStandby \/ CorruptLedger \/ LeaseTick

LeaseSpec == LeaseInit /\ [][LeaseNext]_leaseVars

-----------------------------------------------------------------------------
\* The ledger and the shards have their types.
LeaseTypeOK ==
    /\ \A i \in DOMAIN ledger : /\ ledger[i].tok \in Tokens /\ ledger[i].owner \in Shards
                                /\ ledger[i].role \in {"primary", "standby"} /\ ledger[i].left \in 1..TTL
    /\ ledgerFile \in {"ok", "corrupt"} /\ blocked \in 0..TTL
    /\ \A s \in Shards : sh[s].waited \in 0..Wait + MaxLeaseFaults /\ sh[s].forced \in {"no", "full", "ledger"}

\* Shard 0 goes on without a slot only when the ledger itself failed: the slots that dead processes
\* left, and a standby in its way, are free before its waiting time ends.
ForcedOnlyByLedger == sh[0].forced # "full"

\* As long as the shards tend their leases in time and the ledger can be read and written, no
\* standby is granted while a shard holds a slot the ledger has forgotten: after a corrupt ledger
\* every running primary is registered again before the first standby.
StandbyAfterPrimaries ==
    ~late /\ ledgerFile = "ok" /\ Standbys # {} =>
        \A s \in Shards : Up(s) /\ sh[s].lease # NoLease => Has(sh[s].lease)

\* The slots of the vendor go to the shards first (_claim_primary, try_claim_standby, tend).
PrimariesFirst == LeaseTypeOK /\ ForcedOnlyByLedger /\ StandbyAfterPrimaries
=============================================================================
