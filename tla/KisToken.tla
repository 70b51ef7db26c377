------------------------------ MODULE KisToken ------------------------------
(* The KIS access token that all processes of the host share through one cache
   file (brokers/kis/auth.py), and the GET transport that sends requests with
   it (brokers/kis/http.py).  A token lives a day; one may be issued per day.

   Time is in half days: a token granted at time t can be used at t and t + 1,
   and the day of t is t \div 2.  The vendor may stop accepting a token early. *)
EXTENDS Integers, Sequences, FiniteSets

CONSTANTS Procs, Issuers,        \* processes; those with allow_issue
          MaxHalf, MaxKisFaults

ASSUME KisAssumption == Issuers \subseteq Procs /\ MaxHalf \in Nat /\ MaxKisFaults \in Nat

MAX_SAFE_RETRIES == 2
MAX_TRANSPORT_RETRIES == 2
Day(t) == t \div 2
None == [id |-> 0, at |-> 0]     \* no token

VARIABLES half,        \* the time
          cache,       \* the cache file
          tokenLock,   \* holder of the lock of the cache file
          live,        \* the tokens the vendor accepts
          grants,      \* the day of each token the vendor granted, and the day it was stored under, if it was
          req,         \* the processes and their requests
          kisFaults

kisVars == <<half, cache, tokenLock, live, grants, req, kisFaults>>

Idle == [pc |-> "idle", memory |-> None, failedAt |-> -1, now |-> 0, sent |-> None, rejected |-> 0,
         force |-> FALSE, refreshed |-> FALSE, retries |-> 0, transport |-> 0, heals |-> TRUE, result |-> "none"]
Free == "free"

KisInit ==
    /\ half = 0 /\ cache = None /\ tokenLock = Free /\ live = {} /\ grants = <<>>
    /\ req = [p \in Procs |-> Idle] /\ kisFaults = 0

KisFaulty(b) == kisFaults' = kisFaults + (IF b THEN 1 ELSE 0) /\ kisFaults' <= MaxKisFaults
Usable(k, t) == k # None /\ t < k.at + 2
\* _backoff_active: TOKEN_ISSUE_RETRY_BACKOFF is a part of a half day.
_backoff_active(p) == IF req[p].failedAt = half THEN BOOLEAN ELSE {FALSE}
NotStored == -1

\* A cached token may take the place of the one the vendor rejected, if it is another one.
Adoptable(p, t) == Usable(cache, t) /\ cache.id # req[p].rejected
\* The guard of one issuance a day, on the day the request was made.
IssuedThisHalf(p) == cache # None /\ cache.at = req[p].now
IssuedToday(p) == cache # None /\ Day(cache.at) = Day(req[p].now)
CacheHeals == Usable(cache, half) /\ cache.id \in live

\* Every step of p ends with this: heals says that all along the request the cache held a token
\* that is usable and accepted.
Proc(p, r) == req' = [req EXCEPT ![p] = [r EXCEPT !.heals = r.heals /\ CacheHeals]]
Fail(p, why) == Proc(p, [req[p] EXCEPT !.pc = "idle", !.result = why])

StartGet(p) ==
    /\ req[p].pc = "idle"
    /\ Proc(p, [req[p] EXCEPT !.pc = "auth", !.refreshed = FALSE, !.retries = 0, !.transport = 0,
                              !.heals = TRUE, !.rejected = 0, !.result = "none"])
    /\ UNCHANGED <<half, cache, tokenLock, live, grants, kisFaults>>

\* authorized_headers, access_token without force: memory, the cache file, or an issuance.
Authorize(p) ==
    /\ req[p].pc = "auth"
    /\ LET r == [req[p] EXCEPT !.now = half]
       IN IF Usable(r.memory, half) THEN Proc(p, [r EXCEPT !.pc = "send", !.sent = r.memory])
          ELSE IF Usable(cache, half) THEN Proc(p, [r EXCEPT !.pc = "send", !.memory = cache, !.sent = cache])
          ELSE \E backoff \in _backoff_active(p) :
                 IF p \notin Issuers \/ backoff THEN Fail(p, "refused")
                 ELSE Proc(p, [r EXCEPT !.pc = "issue", !.force = FALSE])
    /\ UNCHANGED <<half, cache, tokenLock, live, grants, kisFaults>>

\* The answer of the vendor and classify_kis_retry.  A lost or a rate-limited request is a fault.
SendGet(p) ==
    /\ req[p].pc = "send"
    /\ \/ /\ req[p].sent.id \in live /\ KisFaulty(FALSE)
          /\ Proc(p, [req[p] EXCEPT !.pc = "idle", !.result = "ok"])
       \/ /\ req[p].sent.id \notin live /\ KisFaulty(FALSE)
          /\ IF req[p].refreshed THEN Fail(p, "refused")
             ELSE Proc(p, [req[p] EXCEPT !.pc = "refresh", !.refreshed = TRUE, !.rejected = req[p].sent.id])
       \/ /\ KisFaulty(TRUE)
          /\ IF req[p].retries < MAX_SAFE_RETRIES
             THEN Proc(p, [req[p] EXCEPT !.pc = "auth", !.retries = @ + 1]) ELSE Fail(p, "limited")
       \/ /\ KisFaulty(TRUE)
          /\ IF req[p].transport < MAX_TRANSPORT_RETRIES
             THEN Proc(p, [req[p] EXCEPT !.pc = "auth", !.transport = @ + 1]) ELSE Fail(p, "transport")
    /\ UNCHANGED <<half, cache, tokenLock, live, grants>>

\* refresh_token, access_token with force: a valid cached token that is not the rejected one is
\* adopted by a process that may not issue, or that is in backoff; else the lock decides.
RefreshToken(p) ==
    /\ req[p].pc = "refresh"
    /\ LET r == [req[p] EXCEPT !.now = half]
       IN \E backoff \in _backoff_active(p) :
            IF p \in Issuers /\ ~backoff THEN Proc(p, [r EXCEPT !.pc = "issue", !.force = TRUE])
            ELSE IF Adoptable(p, half)
                 THEN Proc(p, [r EXCEPT !.memory = cache, !.pc = "auth"])
            ELSE Fail(p, "refused")
    /\ UNCHANGED <<half, cache, tokenLock, live, grants, kisFaults>>

\* _issue_token_and_report, once the lock is held: adopt a token that a peer stored meanwhile,
\* keep to one issuance a day, or go on to issue.
IssueLocked(p) ==
    /\ req[p].pc = "issue" /\ tokenLock = Free
    /\ LET r == req[p]
           adopts == IF r.force THEN Adoptable(p, r.now) ELSE Usable(cache, r.now)
       IN IF adopts THEN Proc(p, [r EXCEPT !.memory = cache, !.pc = IF r.force THEN "auth" ELSE "send",
                                           !.sent = cache]) /\ UNCHANGED tokenLock
          ELSE IF IssuedToday(p) THEN Fail(p, "refused") /\ UNCHANGED tokenLock
          ELSE Proc(p, [r EXCEPT !.pc = "grant"]) /\ tokenLock' = p
    /\ UNCHANGED <<half, cache, live, grants, kisFaults>>

\* _issue_token_unlocked: the vendor's answer, then the replacement of the cache file.
Grant(p) ==
    /\ req[p].pc = "grant"
    /\ \/ LET id == Len(grants) + 1
          IN /\ grants' = Append(grants, [day |-> Day(half), stored |-> NotStored]) /\ live' \in {{id}, live \cup {id}} /\ KisFaulty(FALSE)
             /\ Proc(p, [req[p] EXCEPT !.pc = "store", !.memory = [id |-> id, at |-> req[p].now]])
             /\ UNCHANGED tokenLock
       \/ /\ KisFaulty(TRUE) /\ tokenLock' = Free
          /\ Proc(p, [req[p] EXCEPT !.pc = "idle", !.failedAt = req[p].now, !.result = "refused"])
          /\ UNCHANGED <<grants, live>>
    /\ UNCHANGED <<half, cache>>
StoreToken(p) ==
    /\ req[p].pc = "store" /\ tokenLock' = Free
    /\ \/ /\ cache' = req[p].memory /\ KisFaulty(FALSE)
          /\ grants' = [grants EXCEPT ![cache'.id].stored = Day(cache'.at)]
          /\ Proc(p, [req[p] EXCEPT !.failedAt = -1, !.sent = req[p].memory,
                                    !.pc = IF req[p].force THEN "auth" ELSE "send"])
       \/ KisFaulty(TRUE) /\ Fail(p, "disk") /\ UNCHANGED <<cache, grants>>
    /\ UNCHANGED <<half, live>>

\* The process dies, wherever it is; the lock goes with it.
ProcDies(p) ==
    /\ req[p].pc # "idle" /\ KisFaulty(TRUE)
    /\ req' = [req EXCEPT ![p] = Idle] /\ tokenLock' = IF tokenLock = p THEN Free ELSE tokenLock
    /\ UNCHANGED <<half, cache, live, grants>>

\* The vendor stops accepting the tokens it granted.
Revoke ==
    /\ live # {} /\ live' = {} /\ KisFaulty(TRUE)
    /\ req' = [p \in Procs |-> [req[p] EXCEPT !.heals = FALSE]]
    /\ UNCHANGED <<half, cache, tokenLock, grants>>

\* Half a day passes, in which the processes finish what they do or are stuck, which is a fault.
HalfDay ==
    /\ half < MaxHalf /\ half' = half + 1
    /\ KisFaulty(\E p \in Procs : req[p].pc # "idle")
    /\ req' = [p \in Procs |-> [req[p] EXCEPT !.heals = FALSE]]
    /\ UNCHANGED <<cache, tokenLock, live, grants>>

ProcStep(p) == \/ Authorize(p) \/ SendGet(p) \/ RefreshToken(p) \/ IssueLocked(p) \/ Grant(p) \/ StoreToken(p)
KisNext == \/ \E p \in Procs : StartGet(p) \/ ProcStep(p) \/ ProcDies(p)
           \/ Revoke \/ HalfDay
KisSpec == KisInit /\ [][KisNext]_kisVars

-----------------------------------------------------------------------------
\* The cache, the lock and the requests have their types.
KisTypeOK ==
    /\ half \in 0..MaxHalf /\ cache.id \in 0..Len(grants) /\ live \subseteq 1..Len(grants)
    /\ tokenLock \in Procs \cup {Free}
    /\ \A p \in Procs : req[p].retries <= MAX_SAFE_RETRIES /\ req[p].transport <= MAX_TRANSPORT_RETRIES

\* One token a day: the vendor grants a second token on one day only if the first was granted but
\* not stored, or a process that stood still over midnight stored it under the day before.
OneGrantPerDay ==
    \A i, j \in DOMAIN grants : i < j /\ grants[i].day = grants[j].day => grants[i].stored # grants[i].day

\* A request is refused for its token only if the shared cache did not hold, all along the request,
\* a token that is usable and accepted: a process with an old token finds its way to a peer's.
RequestHeals == \A p \in Procs : req[p].result = "refused" => ~req[p].heals

\* A rejected token is not sent again by the request it was rejected for.
NotSentAgain == \A p \in Procs : req[p].pc = "send" /\ req[p].refreshed => req[p].sent.id # req[p].rejected

\* The KIS token: granted once a day, found by every process that needs it, and not used once it
\* was rejected (_issue_or_adopt, _request and the day cache).
TokenSound == KisTypeOK /\ OneGrantPerDay /\ RequestHeals /\ NotSentAgain
=============================================================================
