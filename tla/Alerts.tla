------------------------------- MODULE Alerts -------------------------------
(* Operator mails, core/alerts.py: every process of the deployment sends pages
   through its EmailAlertHandler, and all share one FileAlertLedger that bounds
   the mails of a day, in all and per page key.  A page is reserved in the
   ledger, sent, and committed or released.  A ledger that fails lets it pass.

   Every call of the ledger is one locked read-modify-write.  With one mail per
   key and day the limits on repeats and the cooldown never decide. *)
EXTENDS Integers, FiniteSets

CONSTANTS Pagers, PageKeys, DailyCap, MaxDay, MaxAlertFaults

ASSUME AlertAssumption == DailyCap \in Nat \ {0} /\ MaxDay \in Nat /\ MaxAlertFaults \in Nat /\ IsFiniteSet(PageKeys)

ALERT_PER_KEY_DAILY_CAP == 1
NoKey == "none"

VARIABLES today,
          budget,       \* the ledger file: its day, the confirmed keys, the reservations
          pager,        \* each process: what it sends, the day and whether it has a reservation
          mails,        \* history: the mails delivered, by day, key and process
          loose,        \* history: a mail was delivered that the ledger does not know
          alertFaults

alertVars == <<today, budget, pager, mails, loose, alertFaults>>

Quiet == [pc |-> "quiet", key |-> NoKey, day |-> 0, reserved |-> FALSE, boot |-> 0, why |-> "none"]
EmptyBudget(d) == [day |-> d, confirmed |-> {}, pending |-> {}]

AlertInit ==
    /\ today = 0 /\ budget = EmptyBudget(0) /\ pager = [p \in Pagers |-> Quiet]
    /\ mails = {} /\ loose = FALSE /\ alertFaults = 0

AlertFaulty(b) == alertFaults' = alertFaults + (IF b THEN 1 ELSE 0) /\ alertFaults' <= MaxAlertFaults
Pager(p, x) == pager' = [pager EXCEPT ![p] = [x EXCEPT !.boot = pager[p].boot]]
Reservation(p) == [key |-> pager[p].key, by |-> p, boot |-> pager[p].boot]

\* The ledger of the day, without the reservations of processes that are gone.
ReapNone(b) == b
_reap_abandoned(b) == [b EXCEPT !.pending = {r \in @ : r.boot = pager[r.by].boot}]
Loaded == _reap_abandoned(IF budget.day = today THEN budget ELSE EmptyBudget(today))
Count(b, k) == (IF k \in b.confirmed THEN 1 ELSE 0) + Cardinality({r \in b.pending : r.key = k})
SentToday(b) == Cardinality(b.confirmed) + Cardinality(b.pending)
_decide_suppression(b, k) == IF SentToday(b) >= DailyCap THEN "daily_cap"
                             ELSE IF Count(b, k) >= ALERT_PER_KEY_DAILY_CAP THEN "per_key_cap" ELSE "none"

\* _emit_guarded and _deliver up to reserve.  A ledger that cannot be used lets the page pass.
Reserve(p, k) ==
    /\ pager[p].pc = "quiet"
    /\ \/ LET why == _decide_suppression(Loaded, k)
          IN /\ AlertFaulty(FALSE)
             /\ IF why = "none"
                THEN /\ budget' = [Loaded EXCEPT !.pending = @ \cup {[key |-> k, by |-> p, boot |-> pager[p].boot]}]
                     /\ Pager(p, [Quiet EXCEPT !.pc = "send", !.key = k, !.day = today, !.reserved = TRUE])
                ELSE /\ budget' = IF Loaded.day # budget.day \/ Loaded = budget THEN budget ELSE Loaded
                     /\ Pager(p, [Quiet EXCEPT !.key = k, !.day = today, !.why = why])
       \/ /\ AlertFaulty(TRUE) /\ UNCHANGED budget
          /\ Pager(p, [Quiet EXCEPT !.pc = "send", !.key = k, !.day = today])
    /\ UNCHANGED <<today, mails, loose>>

\* The sender with its attempts: delivered, or failed in the last of them.
SendMail(p) ==
    /\ pager[p].pc = "send"
    /\ \/ /\ mails' = mails \cup {[day |-> pager[p].day, key |-> pager[p].key, by |-> p]}
          /\ loose' = (loose \/ ~pager[p].reserved)
          /\ Pager(p, [pager[p] EXCEPT !.pc = "commit"]) /\ AlertFaulty(FALSE)
       \/ /\ AlertFaulty(TRUE) /\ Pager(p, [pager[p] EXCEPT !.pc = "release"]) /\ UNCHANGED <<mails, loose>>
    /\ UNCHANGED <<today, budget>>

\* finish: the reservation goes, and its key is confirmed if the mail went out.
Finished(b, p) ==
    [b EXCEPT !.pending = @ \ {Reservation(p)},
              !.confirmed = IF pager[p].pc = "commit" /\ Reservation(p) \in b.pending THEN @ \cup {pager[p].key} ELSE @]
Finish(p) ==
    /\ pager[p].pc \in {"commit", "release"} /\ Pager(p, Quiet)
    /\ \/ /\ AlertFaulty(FALSE) /\ UNCHANGED loose
          /\ budget' = IF pager[p].reserved /\ budget.day = pager[p].day THEN Finished(budget, p) ELSE budget
       \/ /\ pager[p].reserved /\ AlertFaulty(TRUE) /\ UNCHANGED budget /\ loose' = TRUE
    /\ UNCHANGED <<today, mails>>

PagerDies(p) ==
    /\ pager[p].pc # "quiet" /\ AlertFaulty(TRUE)
    /\ pager' = [pager EXCEPT ![p] = [Quiet EXCEPT !.boot = pager[p].boot + 1]]
    /\ loose' = (loose \/ pager[p].pc = "commit")
    /\ UNCHANGED <<today, budget, mails>>

\* The file is damaged: _load_unlocked starts an empty ledger.
BudgetLost ==
    /\ budget # EmptyBudget(budget.day) /\ budget' = EmptyBudget(today) /\ AlertFaulty(TRUE) /\ loose' = TRUE
    /\ UNCHANGED <<today, pager, mails>>

Midnight == today < MaxDay /\ today' = today + 1 /\ UNCHANGED <<budget, pager, mails, loose, alertFaults>>

AlertNext ==
    \/ \E p \in Pagers : (\E k \in PageKeys : Reserve(p, k)) \/ SendMail(p) \/ Finish(p) \/ PagerDies(p)
    \/ BudgetLost \/ Midnight
AlertSpec == AlertInit /\ [][AlertNext]_alertVars

-----------------------------------------------------------------------------
\* The ledger and the processes have their types.
AlertTypeOK ==
    /\ today \in 0..MaxDay /\ budget.day \in 0..today /\ budget.confirmed \subseteq PageKeys
    /\ \A r \in budget.pending : r.key \in PageKeys /\ r.by \in Pagers

Of(d) == {m \in mails : m.day = d}
\* As long as every delivered mail is in the ledger, no more mails than the daily cap go out on a
\* day, and no key is mailed twice, by whichever processes.
MailsBounded ==
    ~loose => \A d \in 0..today : /\ Cardinality(Of(d)) <= DailyCap
                                  /\ \A a, b \in Of(d) : a.key = b.key => a = b

\* A page is held back as a repetition only when its key was delivered that day, or is being sent:
\* a failed or an interrupted send does not silence its key.
NotSilenced ==
    \A p \in Pagers : pager'[p].why = "per_key_cap" /\ pager[p].why = "none" /\ ~loose =>
      \/ \E m \in Of(today) : m.key = pager'[p].key
      \/ \E q \in Pagers : pager[q].key = pager'[p].key /\ pager[q].pc # "quiet"
=============================================================================
