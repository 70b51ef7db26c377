----------------------------- MODULE OrderLife ------------------------------
(***************************************************************************)
(* What the order subsystem promises about each order, whatever processes  *)
(* come and go: one life along the transition table of contracts.py, fills *)
(* that only grow, and statuses that say the truth about the fills.        *)
(***************************************************************************)
EXTENDS Contracts

CONSTANTS Ids, Quantities
VARIABLES life, filled, qty     \* by client id; life is "none" before the intent

lifeVars == <<life, filled, qty>>

LifeInit ==
    /\ life   = [c \in Ids |-> "none"]
    /\ filled = [c \in Ids |-> 0]
    /\ qty    = [c \in Ids |-> 0]

\* The status is one the traded quantity allows.
Fits(st, f, q) ==
    CASE st \in {"pending_submit", "accepted", "rejected"} -> f = 0
      [] st = "partially_filled"                           -> 0 < f /\ f < q
      [] st = "filled"                                     -> f = q
      [] st = "cancelled"                                  -> f < q
      [] OTHER                                             -> TRUE

Begin(c) ==
    /\ life[c] = "none"
    /\ life' = [life EXCEPT ![c] = "pending_submit"]
    /\ \E q \in Quantities : qty' = [qty EXCEPT ![c] = q]
    /\ UNCHANGED filled

Trade(c) ==
    /\ life[c] \in {"unknown", "accepted", "partially_filled"}
    /\ \E f \in (filled[c] + 1)..qty[c] : filled' = [filled EXCEPT ![c] = f]
    /\ UNCHANGED <<life, qty>>

Move(c) ==
    /\ life[c] \in OrderStatus
    /\ \E st \in ALLOWED_TRANSITIONS[life[c]] :
        /\ Fits(st, filled[c], qty[c])
        /\ life' = [life EXCEPT ![c] = st]
    /\ UNCHANGED <<filled, qty>>

LifeNext == \E c \in Ids : Begin(c) \/ Trade(c) \/ Move(c)

LifeSpec == LifeInit /\ [][LifeNext]_lifeVars
=============================================================================
