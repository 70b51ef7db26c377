------------------------------- MODULE Pacing -------------------------------
(* Host-wide pacing of the requests on one vendor credential: the state file
   of brokers/kis/rate.py and of the pacers of host_broker_contract.py holds
   the time of the next free slot.  A caller books a slot under the file lock
   and sleeps until it.  A bounded caller books only a slot at most Lead away
   and else asks again later; a critical caller books any slot.

   Time is in ticks of one clock, which all processes of the host share. *)
EXTENDS Integers, FiniteSets

CONSTANTS Critical, Bounded,      \* callers without and with max_lead_s
          Interval, Lead,         \* in ticks
          MaxClock, MaxPacingFaults

ASSUME PacingAssumption ==
    /\ Interval \in Nat \ {0} /\ Lead \in Nat /\ MaxClock \in Nat /\ MaxPacingFaults \in Nat
    /\ Critical \cap Bounded = {}

Callers == Critical \cup Bounded
Later(a, b) == IF a >= b THEN a ELSE b

VARIABLES clock,
          nextFree,       \* the state file; 0 when it is empty or malformed
          booked,         \* history: the slots booked since the file was last reset
          caller,         \* what each caller does
          pacingFaults

pacingVars == <<clock, nextFree, booked, caller, pacingFaults>>

PacingInit ==
    /\ clock = 0 /\ nextFree = 0 /\ booked = {}
    /\ caller = [c \in Callers |-> [pc |-> "idle", until |-> 0]]
    /\ pacingFaults = 0

Slot == Later(clock, nextFree)
Wakes(c) == caller[c].pc = "idle" \/ (caller[c].pc = "retry" /\ caller[c].until <= clock)
WithinLead(c) == c \in Bounded => Slot - clock <= Lead

\* _book_unconditional, _try_book_or_wait and _book_slot, when the slot is taken.
BookFromNow(c) ==
    /\ Wakes(c) /\ WithinLead(c)
    /\ nextFree' = clock + Interval
    /\ booked' = booked \cup {[slot |-> Slot, by |-> c]}
    /\ caller' = [caller EXCEPT ![c] = [pc |-> "sleep", until |-> Slot]]
    /\ UNCHANGED <<clock, pacingFaults>>
BookAnySlot(c) ==
    /\ Wakes(c)
    /\ nextFree' = Slot + Interval
    /\ booked' = booked \cup {[slot |-> Slot, by |-> c]}
    /\ caller' = [caller EXCEPT ![c] = [pc |-> "sleep", until |-> Slot]]
    /\ UNCHANGED <<clock, pacingFaults>>
Book(c) ==
    /\ Wakes(c) /\ WithinLead(c)
    /\ nextFree' = Slot + Interval
    /\ booked' = booked \cup {[slot |-> Slot, by |-> c]}
    /\ caller' = [caller EXCEPT ![c] = [pc |-> "sleep", until |-> Slot]]
    /\ UNCHANGED <<clock, pacingFaults>>

\* The slot is too far away: the file is not written, the caller sleeps and asks again.
Defer(c) ==
    /\ Wakes(c) /\ ~WithinLead(c)
    /\ caller' = [caller EXCEPT ![c] = [pc |-> "retry", until |-> clock + Later(Slot - clock - Lead, Interval)]]
    /\ UNCHANGED <<clock, nextFree, booked, pacingFaults>>

\* acquire returns at or after the slot.
Send(c) ==
    /\ caller[c].pc = "sleep" /\ caller[c].until <= clock
    /\ caller' = [caller EXCEPT ![c] = [pc |-> "idle", until |-> 0]]
    /\ UNCHANGED <<clock, nextFree, booked, pacingFaults>>

\* A caller dies; a slot it booked stays booked.
CallerDies(c) ==
    /\ pacingFaults < MaxPacingFaults /\ pacingFaults' = pacingFaults + 1
    /\ caller[c].pc # "idle" /\ caller' = [caller EXCEPT ![c] = [pc |-> "idle", until |-> 0]]
    /\ UNCHANGED <<clock, nextFree, booked>>

\* It dies between truncating and writing the file, or the file is damaged: the next reader
\* resets the state, _read_next_free_locked.
StateReset ==
    /\ pacingFaults < MaxPacingFaults /\ pacingFaults' = pacingFaults + 1
    /\ nextFree' = 0 /\ booked' = {}
    /\ UNCHANGED <<clock, caller>>

PacingTick ==
    /\ clock < MaxClock /\ clock' = clock + 1
    /\ UNCHANGED <<nextFree, booked, caller, pacingFaults>>

PacingNext == \/ \E c \in Callers : Book(c) \/ Defer(c) \/ Send(c) \/ CallerDies(c)
              \/ StateReset \/ PacingTick
PacingSpec == PacingInit /\ [][PacingNext]_pacingVars

-----------------------------------------------------------------------------
\* The clock, the state file, the booked slots and the callers have their types.
PacingTypeOK ==
    /\ clock \in Nat /\ nextFree \in Nat /\ pacingFaults \in Nat
    /\ booked \subseteq [slot : Nat, by : Callers]
    /\ caller \in [Callers -> [pc : {"idle", "sleep", "retry"}, until : Nat]]

\* No two slots booked on one state file, by whichever processes and kinds of caller, are closer
\* together than the vendor's interval.
SlotsSpaced ==
    \A a, b \in booked : a # b => a.slot + Interval <= b.slot \/ b.slot + Interval <= a.slot

\* The slots of the state file keep the vendor's interval.
PacingSound == PacingTypeOK /\ SlotsSpaced

\* Bounded callers leave the next slot within Lead and one interval of now, so all that can delay
\* a critical caller further is the slots other critical callers have booked ahead of now.
CriticalWait ==
    nextFree <= clock + Lead + Interval
                + Interval * Cardinality({b \in booked : b.by \in Critical /\ b.slot >= clock})
=============================================================================
