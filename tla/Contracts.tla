------------------------------ MODULE Contracts ------------------------------
(***************************************************************************)
(* The order-execution domain contracts of src/execution/contracts.py:     *)
(* order statuses, the transition table, and the mapping from a broker     *)
(* row to a local status.  No state; the order manager is built on it.     *)
(***************************************************************************)
EXTENDS Integers

Side == {"buy", "sell"}

OrderStatus == {"pending_submit", "accepted", "partially_filled", "filled",
                "cancelled", "rejected", "unknown"}

TERMINAL_STATUSES == {"filled", "cancelled", "rejected"}

OPEN_STATUSES == {"pending_submit", "accepted", "partially_filled", "unknown"}

ALLOWED_TRANSITIONS ==
    [s \in OrderStatus |->
        CASE s = "pending_submit"   -> {"accepted", "rejected", "unknown"}
          [] s = "unknown"          -> {"accepted", "partially_filled"} \cup TERMINAL_STATUSES
          [] s = "accepted"         -> {"partially_filled"} \cup TERMINAL_STATUSES
          [] s = "partially_filled" -> {"filled", "cancelled"}
          [] OTHER                  -> {}]

\* transition() raises IllegalTransitionError exactly when this is FALSE.
LegalTransition(current, new) == new = current \/ new \in ALLOWED_TRANSITIONS[current]

\* Mutant: a partly filled order that the broker closed is called rejected.
derive_status_RejectsPartials(ordered, filled, end) ==
    IF filled = ordered THEN "filled"
    ELSE IF end # "open" THEN IF end = "rejected" \/ filled > 0 THEN "rejected" ELSE "cancelled"
    ELSE IF filled > 0 THEN "partially_filled"
    ELSE "accepted"

(***************************************************************************)
(* derive_status.  end says how the broker closed the row: "open",         *)
(* "cancelled" (cncl_yn set, or a cancel order names it as its original) or*)
(* "rejected" (rejected_qty > 0).  A closed row has remaining_qty = 0.     *)
(***************************************************************************)
derive_status(ordered, filled, end) ==
    IF filled = ordered THEN "filled"
    ELSE IF end # "open"
         THEN IF filled = 0 /\ end = "rejected" THEN "rejected" ELSE "cancelled"
    ELSE IF filled > 0 THEN "partially_filled"
    ELSE "accepted"
=============================================================================
