------------------------------- MODULE Broker -------------------------------
(***************************************************************************)
(* The broker and the network in front of it, as the order manager sees    *)
(* them: the day's order listing, the account's holding of one symbol, and *)
(* requests that a client timed out on but that may still arrive.  Nothing *)
(* here is code of this repository; it is the environment that             *)
(* src/brokers/kis/trading.py talks to.                                    *)
(***************************************************************************)
EXTENDS Integers, FiniteSets

CONSTANTS MaxNo,        \* bound on broker order numbers of the day
          MaxForeign,   \* bound on orders placed outside this program
          InitHeld,     \* shares held when the day starts
          Intents       \* the order intents that may be submitted

ASSUME BrokerAssumption ==
    /\ MaxNo \in Nat /\ InitHeld \in Nat
    /\ \A i \in Intents : i.side \in {"buy", "sell"} /\ i.qty \in Nat

VARIABLES rows,         \* broker order number -> listed row, or Absent
          wire,         \* new-order requests still travelling
          wireCancel,   \* numbers of orders with a cancel still travelling
          held          \* shares the account holds

brokerVars == <<rows, wire, wireCancel, held>>

Nos == 1..MaxNo

\* Row owners: a client id (a positive number), or one of these two.
Nobody  == -1
Foreign == 0

Absent == [owner |-> Nobody, side |-> "buy", qty |-> 0, filled |-> 0, at |-> 0, end |-> "open"]

\* The same intent always prices the same here, so the match key is side and qty;
\* at is the logical time of the row: how many intents were journalled before it.
NewRow(owner, intent, at) ==
    [owner |-> owner, side |-> intent.side, qty |-> intent.qty, filled |-> 0,
     at |-> at, end |-> "open"]

Listed(n) == rows[n].owner # Nobody
Live(row) == row.end = "open" /\ row.filled < row.qty
Fresh(n)  == ~Listed(n) /\ \A m \in 1..(n - 1) : Listed(m)

\* A signed share count: what one share of the side does to the holding.
Signed(side, qty) == IF side = "buy" THEN qty ELSE -qty

BrokerInit ==
    /\ rows = [n \in Nos |-> Absent]
    /\ wire = {}
    /\ wireCancel = {}
    /\ held = InitHeld

\* The exchange accepts an order: the next number is assigned to it.
Land(n, owner, intent, at) ==
    /\ Fresh(n)
    /\ rows' = [rows EXCEPT ![n] = NewRow(owner, intent, at)]

CloseRow(n, how) == rows' = [rows EXCEPT ![n].end = how]

(***************************************************************************)
(* Steps the broker and the network take on their own.                     *)
(***************************************************************************)
\* One more share of a live order trades; only held shares can be sold.
BrokerFill ==
    \E n \in Nos :
        /\ Live(rows[n])
        /\ rows[n].side = "sell" => held > 0
        /\ rows' = [rows EXCEPT ![n].filled = @ + 1]
        /\ held' = held + Signed(rows[n].side, 1)
        /\ UNCHANGED <<wire, wireCancel>>

\* The exchange refuses an accepted order before anything traded.
BrokerReject ==
    \E n \in Nos :
        /\ Live(rows[n]) /\ rows[n].filled = 0
        /\ CloseRow(n, "rejected")
        /\ UNCHANGED <<wire, wireCancel, held>>

\* A request the client gave up on arrives after all.
LateOrder(now) ==
    \E req \in wire, n \in Nos :
        /\ Land(n, req.id, req, now)
        /\ wire' = wire \ {req}
        /\ UNCHANGED <<wireCancel, held>>

LateCancel ==
    \E n \in wireCancel :
        /\ Live(rows[n])
        /\ CloseRow(n, "cancelled")
        /\ wireCancel' = wireCancel \ {n}
        /\ UNCHANGED <<wire, held>>

\* A travelling order is lost for good.  (A lost cancel is one that never arrives.)
WireDrop ==
    /\ \E req \in wire : wire' = wire \ {req}
    /\ UNCHANGED <<rows, wireCancel, held>>

\* Somebody places an order on the same account by other means.
ForeignOrder(now) ==
    /\ Cardinality({n \in Nos : rows[n].owner = Foreign}) < MaxForeign
    /\ \E n \in Nos, intent \in Intents : Land(n, Foreign, intent, now)
    /\ UNCHANGED <<wire, wireCancel, held>>
=============================================================================
