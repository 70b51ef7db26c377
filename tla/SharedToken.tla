---------------------------- MODULE SharedToken ----------------------------
(* A vendor token that the processes of the host share through one record file:
   marketdata/toss_token_store.py ("toss" users), and the token stores of
   deploy/shared/host_broker_contract.py as marketdata/host_token_store.py uses
   them ("contract" users).  Issuing a token ends the life of the one before.

   Time is in ticks.  A token can be used for MaxAge ticks after its issuance,
   is not replaced within the cooldown after it (LS and DB), and DB has an
   interval between two issuances. *)
EXTENDS Integers

CONSTANTS TossUsers, ContractUsers, MaxTime, MaxTokenFaults

ASSUME SharedAssumption == TossUsers \cap ContractUsers = {} /\ MaxTime \in Nat /\ MaxTokenFaults \in Nat

Users == TossUsers \cup ContractUsers
MaxAge == 3
MIN_ISSUE_INTERVAL_S == [toss |-> 0, ls |-> 0, dbsec |-> 2]
rotation_cooldown_s == [toss |-> 0, ls |-> 1, dbsec |-> 1]
NoRecord == [tok |-> 0, gen |-> 0, at |-> 0]
Invalid == [tok |-> 0, gen |-> -1, at |-> 0]     \* unreadable or of another schema
Nobody == "nobody"
NoGuard == -2

VARIABLES vendor, time, record, guard, storeLock,
          current,       \* the token the vendor accepts
          user,
          unpublished,   \* history: a token was issued and not published
          tokenFaults

sharedVars == <<vendor, time, record, guard, storeLock, current, user, unpublished, tokenFaults>>

Ready == [pc |-> "ready", tok |-> 0, rejected |-> 0, cached |-> NoRecord]

SharedInit ==
    /\ vendor \in DOMAIN MIN_ISSUE_INTERVAL_S
    /\ time = 0 /\ record = NoRecord /\ guard = NoGuard /\ storeLock = Nobody /\ current = 0
    /\ user = [u \in Users |-> Ready] /\ unpublished = FALSE /\ tokenFaults = 0

TokenFaulty(b) == tokenFaults' = tokenFaults + (IF b THEN 1 ELSE 0) /\ tokenFaults' <= MaxTokenFaults
Usr(u, x) == user' = [user EXCEPT ![u] = x]
Toss(u) == vendor = "toss" /\ u \in TossUsers
Stored == record.gen > 0
_is_usable(k) == k.gen > 0 /\ time - k.at < MaxAge

\* read: an invalid record is no record to a toss user and an error to a contract user.
Readable(u) == Toss(u) \/ record # Invalid
GiveUp(u) == Usr(u, Ready)
Take(u) == Usr(u, [Ready EXCEPT !.pc = "use", !.tok = record.tok])

\* get_or_issue before the lock.
GetToken(u) ==
    /\ user[u].pc = "ready"
    /\ IF ~Readable(u) THEN GiveUp(u)
       ELSE IF _is_usable(record) THEN Take(u)
       ELSE Usr(u, [Ready EXCEPT !.pc = "get"])
    /\ UNCHANGED <<vendor, time, record, guard, storeLock, current, unpublished, tokenFaults>>

\* The token is used.  The vendor refuses it if it is not the current one, or for no reason, which
\* is a fault; the user then asks for a replacement.
UseToken(u) ==
    /\ user[u].pc = "use"
    /\ \/ user[u].tok = current /\ GiveUp(u) /\ TokenFaulty(FALSE)
       \/ /\ Usr(u, [user[u] EXCEPT !.pc = "replace", !.rejected = user[u].tok])
          /\ TokenFaulty(user[u].tok = current)
    /\ UNCHANGED <<vendor, time, record, guard, storeLock, current, unpublished>>

\* _hold_lock and what get_or_issue and replace_rejected do under it before they issue: take the
\* record if it serves, return the rejected token if it is too young to be replaced, keep to the
\* issuance guard and write it.
ServesGetStale(u) == FALSE
ServesGet(u) == _is_usable(record)
ServesReplace(u) == /\ Stored /\ record.tok # user[u].rejected
                    /\ ~Toss(u) => _is_usable(record)
TooYoung(u) == user[u].pc = "replace" /\ Stored /\ record.tok = user[u].rejected /\ time - record.at < rotation_cooldown_s[vendor]
Throttled(u) == ~Toss(u) /\ guard # NoGuard /\ time < guard + MIN_ISSUE_INTERVAL_S[vendor]
LockFree(u) == storeLock = Nobody
LockStore(u) ==
    /\ user[u].pc \in {"get", "replace"} /\ LockFree(u)
    /\ \/ /\ \/ ~Readable(u) /\ GiveUp(u)
             \/ Readable(u) /\ user[u].pc = "get" /\ ServesGet(u) /\ Take(u)
             \/ Readable(u) /\ user[u].pc = "replace" /\ ServesReplace(u) /\ Take(u)
          /\ UNCHANGED <<guard, storeLock>>
       \/ /\ Readable(u)
          /\ ~(user[u].pc = "get" /\ ServesGet(u)) /\ ~(user[u].pc = "replace" /\ ServesReplace(u))
          /\ IF Throttled(u) \/ (Toss(u) /\ TooYoung(u))
             THEN GiveUp(u) /\ UNCHANGED <<guard, storeLock>>
             ELSE /\ guard' = IF MIN_ISSUE_INTERVAL_S[vendor] > 0 THEN time ELSE guard
                  /\ IF TooYoung(u) THEN GiveUp(u) /\ UNCHANGED storeLock
                     ELSE storeLock' = u /\ Usr(u, [user[u] EXCEPT !.pc = "issue", !.cached = record])
    /\ UNCHANGED <<vendor, time, record, current, unpublished, tokenFaults>>

\* TokenStoreLockTimeout: the lock is held for longer than the user waits.
LockTimeout(u) ==
    /\ user[u].pc \in {"get", "replace"} /\ storeLock # Nobody /\ TokenFaulty(TRUE) /\ GiveUp(u)
    /\ UNCHANGED <<vendor, time, record, guard, storeLock, current, unpublished>>

\* The vendor's answer.
IssueToken(u) ==
    /\ user[u].pc = "issue"
    /\ \/ /\ current' = current + 1 /\ TokenFaulty(FALSE)
          /\ Usr(u, [user[u] EXCEPT !.pc = "publish", !.tok = current + 1])
          /\ UNCHANGED storeLock
       \/ TokenFaulty(TRUE) /\ GiveUp(u) /\ storeLock' = Nobody /\ UNCHANGED current
    /\ UNCHANGED <<vendor, time, record, guard, unpublished>>

\* _build_record and _publish: an atomic replacement, which may fail.
KeepUsable(u) == IF _is_usable(record) THEN record
                 ELSE [tok |-> user[u].tok, at |-> time, gen |-> IF user[u].cached.gen > 0 THEN user[u].cached.gen + 1 ELSE 1]
_build_record(u) == [tok |-> user[u].tok, at |-> time,
                     gen |-> IF user[u].cached.gen > 0 THEN user[u].cached.gen + 1 ELSE 1]
Publish(u) ==
    /\ user[u].pc = "publish" /\ storeLock' = Nobody
    /\ \/ record' = _build_record(u) /\ TokenFaulty(FALSE) /\ unpublished' = FALSE
          /\ Usr(u, [Ready EXCEPT !.pc = "use", !.tok = user[u].tok])
       \/ TokenFaulty(TRUE) /\ GiveUp(u) /\ unpublished' = TRUE /\ UNCHANGED record
    /\ UNCHANGED <<vendor, time, guard, current>>

UserDies(u) ==
    /\ user[u].pc # "ready" /\ TokenFaulty(TRUE) /\ GiveUp(u)
    /\ storeLock' = IF storeLock = u THEN Nobody ELSE storeLock
    /\ unpublished' = (unpublished \/ user[u].pc = "publish")
    /\ UNCHANGED <<vendor, time, record, guard, current>>

RecordDamaged ==
    /\ Stored /\ record' = Invalid /\ TokenFaulty(TRUE)
    /\ UNCHANGED <<vendor, time, guard, storeLock, current, user, unpublished>>

SharedTick ==
    /\ time < MaxTime /\ time' = time + 1
    /\ UNCHANGED <<vendor, record, guard, storeLock, current, user, unpublished, tokenFaults>>

SharedNext ==
    \/ \E u \in Users : \/ GetToken(u) \/ UseToken(u) \/ LockStore(u) \/ LockTimeout(u)
                        \/ IssueToken(u) \/ Publish(u) \/ UserDies(u)
    \/ RecordDamaged \/ SharedTick
SharedSpec == SharedInit /\ [][SharedNext]_sharedVars

-----------------------------------------------------------------------------
\* The record, the guard and the users have their types.
SharedTypeOK ==
    /\ record.tok \in 0..current /\ record.gen \in -1..current /\ record.at <= time
    /\ guard <= time /\ storeLock \in Users \cup {Nobody}
    /\ \A u \in Users : user[u].tok \in 0..current

\* When no user is between an issuance and its publication, the record holds the token the vendor
\* accepts, unless an issued token was never published.
StoredIsCurrent ==
    Stored /\ ~unpublished /\ (\A u \in Users : user[u].pc # "publish") => record.tok = current

\* The record of the shared token, whoever wrote it last, is the token the vendor accepts.
RecordSound == SharedTypeOK /\ StoredIsCurrent

\* A token is issued, which ends the one in use everywhere, only when the stored one is missing or
\* too old, or when the vendor refused it to the user that issues.
NoNeedlessIssue ==
    [][current' # current =>
         \E u \in Users : user[u].pc = "issue" /\ (_is_usable(record) => record.tok = user[u].rejected)]_sharedVars

=============================================================================
