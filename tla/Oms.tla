-------------------------------- MODULE Oms ---------------------------------
(***************************************************************************)
(* The order manager (src/execution/oms.py) over the live gateway, its     *)
(* append-only journal (journal.py) and the same-day restore (recovery.py).*)
(*                                                                         *)
(* The journal is represented by what restore_session folds out of it: the *)
(* orders (disk), the highest sequence number (dseq), the holdings of the  *)
(* earliest session_start (dbase), the ledger replayed from there (dpos),  *)
(* whether the restore would refuse it (corrupt) and whether its last line *)
(* is torn (torn).  The fold is exact because restore_session reads the    *)
(* lines from first to last.                                               *)
(*                                                                         *)
(* Orders are numbered by the sequence in their client id.  One symbol.    *)
(***************************************************************************)
EXTENDS Broker, Contracts, Risk, FiniteSetsExt

CONSTANTS MaxOrders,    \* bound on orders submitted during the day
          MatchSkew,    \* _UNKNOWN_MATCH_SKEW in logical time: 0 or 1 intents
          Lagging,      \* whether a listing may lag behind the fills
          Market,       \* what the gate reads besides the manager's own state
          Limits        \* RiskLimits

ASSUME OmsAssumption == MaxOrders \in Nat /\ MatchSkew \in Nat

VARIABLES mem,          \* OrderManager.orders
          seq,          \* OrderManager._seq
          pos,          \* the ledger's quantity
          blocked,      \* submit_block_reason is not None
          pc,           \* where the process is; "down" when there is none
          ret,          \* where reconcile() returns to
          snap,         \* the listing reconcile() fetched
          cur,          \* the order a loop of reconcile() is at
          known,        \* reconcile()'s set of numbers already taken
          disk, dseq, dbase, dpos, corrupt, torn

ledgerVars == <<pos, blocked>>
loopVars   == <<ret, snap, cur, known>>
diskVars   == <<disk, dseq, dbase, dpos, corrupt, torn>>

Ids    == 1..MaxOrders
NoNo   == 0
NoBase == -1
NoOrder == [st |-> "none", no |-> NoNo, filled |-> 0, side |-> "buy", qty |-> 0]

Order(intent, st) ==
    [st |-> st, no |-> NoNo, filled |-> 0, side |-> intent.side, qty |-> intent.qty]

Terminal(order) == order.st \in TERMINAL_STATUSES
Open(order)     == order.st \in OPEN_STATUSES
Numbers(orders) == {orders[c].no : c \in Ids} \ {NoNo}

First(c, S)     == \A d \in S : c <= d

\* Mutant: what was filled is reserved instead of what is still open.
OpenQty_Filled(orders, side) ==
    MapThenSumSet(LAMBDA c : orders[c].filled,
                  {c \in Ids : Open(orders[c]) /\ orders[c].side = side})

\* Quantity still open on one side: what the gate reserves against the position.
OpenQty(orders, side) ==
    MapThenSumSet(LAMBDA c : orders[c].qty - orders[c].filled,
                  {c \in Ids : Open(orders[c]) /\ orders[c].side = side})

\* The signed sum of a function over the orders, from the first order on.
Total(f) ==
    LET sum[c \in 0..MaxOrders] == IF c = 0 THEN 0 ELSE sum[c - 1] + f[c]
    IN  sum[MaxOrders]

SignedFills(orders) == [c \in Ids |-> Signed(orders[c].side, orders[c].filled)]
FillsOf(orders) == Total(SignedFills(orders))

EmptySnap == [n \in Nos |-> Absent]

(***************************************************************************)
(* Restore.  An order whose result never reached the journal may be at the *)
(* broker, so pending_submit comes back as unknown.                        *)
(***************************************************************************)
RestoreStatus(st) == IF st = "pending_submit" THEN "unknown" ELSE st

restore_session == [c \in Ids |-> [disk[c] EXCEPT !.st = RestoreStatus(@)]]

(***************************************************************************)
(* Appends, as changes of the fold.  A record the restore would refuse     *)
(* sets corrupt.                                                           *)
(***************************************************************************)
\* Mutant: the sequence is not rebuilt from intents.
AppendIntent_NoSeq(c, intent) ==
    /\ corrupt' = (corrupt \/ disk[c].st # "none")
    /\ disk' = [disk EXCEPT ![c] = Order(intent, "pending_submit")]
    /\ UNCHANGED <<dseq, dbase, dpos, torn>>

AppendIntent(c, intent) ==
    /\ corrupt' = (corrupt \/ disk[c].st # "none")
    /\ disk' = [disk EXCEPT ![c] = Order(intent, "pending_submit")]
    /\ dseq' = c
    /\ UNCHANGED <<dbase, dpos, torn>>

AppendRiskReject(c) == dseq' = c /\ UNCHANGED <<disk, dbase, dpos, corrupt, torn>>

\* Mutant: the number is not recorded.
AppendOrderEvent_NoNumber(c, st, no) ==
    /\ corrupt' = (corrupt \/ disk[c].st = "none")
    /\ disk' = [disk EXCEPT ![c].st = st]
    /\ UNCHANGED <<dseq, dbase, dpos, torn>>

\* submit_result, unknown_adopted, unknown_resolved.
AppendOrderEvent(c, st, no) ==
    /\ corrupt' = (corrupt \/ disk[c].st = "none")
    /\ disk' = [disk EXCEPT ![c].st = st, ![c].no = no]
    /\ UNCHANGED <<dseq, dbase, dpos, torn>>

\* Mutant: the ordered quantity is recorded as the cumulative fill.
AppendFill_Ordered(c, delta, cumulative) ==
    /\ disk' = [disk EXCEPT ![c].filled = disk[c].qty]
    /\ dpos' = dpos + Signed(disk[c].side, delta)
    /\ UNCHANGED <<dseq, dbase, torn, corrupt>>

\* delta is what the caller's memory says: the restore recomputes it for the order and
\* _replay_ledger applies it to the ledger.
AppendFill(c, delta, cumulative) ==
    /\ corrupt' = (\/ corrupt
                   \/ disk[c].st = "none"
                   \/ ~(disk[c].filled < cumulative /\ cumulative <= disk[c].qty)
                   \/ delta # cumulative - disk[c].filled)
    /\ disk' = [disk EXCEPT ![c].filled = cumulative]
    /\ dpos' = dpos + Signed(disk[c].side, delta)
    /\ UNCHANGED <<dseq, dbase, torn>>

AppendStatus(c, st, filled) ==
    /\ corrupt' = (corrupt \/ disk[c].st = "none" \/ disk[c].filled # filled)
    /\ disk' = [disk EXCEPT ![c].st = st]
    /\ UNCHANGED <<dseq, dbase, dpos, torn>>

\* Only the earliest one counts.
AppendSessionStart(holding) ==
    /\ dbase' = IF dbase = NoBase THEN holding ELSE dbase
    /\ dpos' = IF dbase = NoBase THEN holding ELSE dpos
    /\ UNCHANGED <<disk, dseq, corrupt, torn>>

OmsInit ==
    /\ mem = [c \in Ids |-> NoOrder]
    /\ seq = 0
    /\ pos = 0
    /\ blocked = FALSE
    /\ pc = "down"
    /\ ret = "none"
    /\ snap = EmptySnap
    /\ cur = 0
    /\ known = {}
    /\ disk = [c \in Ids |-> NoOrder]
    /\ dseq = 0
    /\ dbase = NoBase
    /\ dpos = 0
    /\ corrupt = FALSE
    /\ torn = FALSE

(***************************************************************************)
(* submit(): the gate, then the intent record, then the request.           *)
(***************************************************************************)
RiskContext(intent, m) ==
    [kill_switch        |-> m.kill_switch,
     unknown_pending    |-> \E c \in Ids : mem[c].st = "unknown" /\ mem[c].side = intent.side,
     orders_last_minute |-> m.orders_last_minute,
     realized_pnl_krw   |-> m.realized_pnl_krw,
     position_qty       |-> pos,
     open_buy_qty       |-> OpenQty(mem, "buy"),
     open_sell_qty      |-> OpenQty(mem, "sell"),
     orderable_cash_krw |-> m.orderable_cash_krw,
     est_commission_krw |-> m.est_commission_krw,
     blocked            |-> blocked]

Gate(intent, m) == check_intent(intent, m.quote, Limits, RiskContext(intent, m))

\* get_quote or, for a buy, orderable_cash raises KisApiError before anything is recorded.
SubmitNoQuote ==
    /\ pc = "ready"
    /\ pc' = "kis_error"
    /\ UNCHANGED <<brokerVars, mem, seq, ledgerVars, loopVars, diskVars>>

SubmitRiskReject(intent, m) ==
    /\ pc = "ready"
    /\ seq < MaxOrders
    /\ Gate(intent, m) # "ok"
    /\ seq' = seq + 1
    /\ mem' = [mem EXCEPT ![seq + 1] = Order(intent, "rejected")]
    /\ AppendRiskReject(seq + 1)
    /\ pc' = "submitted"
    /\ UNCHANGED <<brokerVars, ledgerVars, loopVars>>

SubmitIntent(intent, m) ==
    /\ pc = "ready"
    /\ seq < MaxOrders
    /\ Gate(intent, m) = "ok"
    /\ seq' = seq + 1
    /\ mem' = [mem EXCEPT ![seq + 1] = Order(intent, "pending_submit")]
    /\ AppendIntent(seq + 1, intent)
    /\ pc' = "send"
    /\ UNCHANGED <<brokerVars, ledgerVars, loopVars>>

Outcome(st, no) ==
    /\ mem' = [mem EXCEPT ![seq].st = st, ![seq].no = no]
    /\ pc' = "result"
    /\ UNCHANGED <<seq, ledgerVars, loopVars, diskVars>>

Request == [id |-> seq, side |-> mem[seq].side, qty |-> mem[seq].qty]

PostAccepted ==
    /\ pc = "send"
    /\ \E n \in Nos :
        /\ Land(n, seq, mem[seq], dseq)
        /\ Outcome("accepted", n)
    /\ UNCHANGED <<wire, wireCancel, held>>

\* The broker refused the order, or no connection was ever made.
PostRejected ==
    /\ pc = "send"
    /\ Outcome("rejected", NoNo)
    /\ UNCHANGED brokerVars

\* Mutant: a lost answer is taken for a refusal.
PostUnknown_Rejects ==
    /\ pc = "send"
    /\ Outcome("rejected", NoNo)
    /\ \/ \E n \in Nos : Land(n, seq, mem[seq], dseq) /\ UNCHANGED wire
       \/ wire' = wire \cup {Request} /\ UNCHANGED rows
       \/ UNCHANGED <<rows, wire>>
    /\ UNCHANGED <<wireCancel, held>>

\* The request went out and no usable answer came back: it may have been accepted,
\* be travelling still, or be lost.
PostUnknown ==
    /\ pc = "send"
    /\ Outcome("unknown", NoNo)
    /\ \/ \E n \in Nos : Land(n, seq, mem[seq], dseq) /\ UNCHANGED wire
       \/ wire' = wire \cup {Request} /\ UNCHANGED rows
       \/ UNCHANGED <<rows, wire>>
    /\ UNCHANGED <<wireCancel, held>>

\* The token provider raises before the request is sent; the order stays pending.
PostKisError ==
    /\ pc = "send"
    /\ pc' = "kis_error"
    /\ UNCHANGED <<brokerVars, mem, seq, ledgerVars, loopVars, diskVars>>

JournalResult ==
    /\ pc = "result"
    /\ AppendOrderEvent(seq, mem[seq].st, mem[seq].no)
    /\ pc' = "submitted"
    /\ UNCHANGED <<brokerVars, mem, seq, ledgerVars, loopVars>>

(***************************************************************************)
(* cancel(): a request only; reconcile() alone changes the order.  The     *)
(* cancel takes effect, is refused or lost, or arrives late.               *)
(***************************************************************************)
PostCancel(c, next) ==
    /\ ~Terminal(mem[c]) /\ mem[c].no # NoNo
    /\ \/ /\ Live(rows[mem[c].no])
          /\ CloseRow(mem[c].no, "cancelled")
          /\ UNCHANGED wireCancel
       \/ wireCancel' = wireCancel \cup {mem[c].no} /\ UNCHANGED rows
       \/ UNCHANGED <<rows, wireCancel>>
    /\ pc' = "fetch"
    /\ ret' = next
    /\ UNCHANGED <<wire, held, mem, seq, ledgerVars, snap, cur, known, diskVars>>

(***************************************************************************)
(* reconcile().  The listing is fetched once; the loops then run over it   *)
(* while the broker moves on.                                              *)
(***************************************************************************)
\* An open row may be listed one fill short of the truth.
Lag(row) == IF row.end = "open" /\ row.filled > 0 THEN [row EXCEPT !.filled = @ - 1] ELSE row

Reconcile(next) == pc' = "fetch" /\ ret' = next /\ UNCHANGED <<snap, cur, known>>

Fetch ==
    /\ pc = "fetch"
    /\ \E late \in IF Lagging THEN {Nos, {}} ELSE {{}} :
            snap' = [n \in Nos |-> IF n \in late THEN Lag(rows[n]) ELSE rows[n]]
    /\ known' = Numbers(mem)
    /\ cur' = 1
    /\ pc' = "adopt"
    /\ UNCHANGED <<brokerVars, mem, seq, ledgerVars, ret, diskVars>>

FetchFails ==
    /\ pc = "fetch"
    /\ pc' = "kis_error"
    /\ UNCHANGED <<brokerVars, mem, seq, ledgerVars, loopVars, diskVars>>

\* Mutant: rows other orders already hold are candidates too.
Candidates_Taken(c) ==
    {n \in Nos :
        /\ snap[n].owner # Nobody
        /\ snap[n].side = mem[c].side
        /\ snap[n].qty = mem[c].qty
        /\ snap[n].at + MatchSkew >= c}

\* Mutant: the time window is off by one.
Candidates_Later(c) ==
    {n \in Nos :
        /\ snap[n].owner # Nobody
        /\ n \notin known
        /\ snap[n].side = mem[c].side
        /\ snap[n].qty = mem[c].qty
        /\ snap[n].at > c}

Candidates(c) ==
    {n \in Nos :
        /\ snap[n].owner # Nobody
        /\ n \notin known
        /\ snap[n].side = mem[c].side
        /\ snap[n].qty = mem[c].qty
        /\ snap[n].at + MatchSkew >= c}

\* The unknown orders, from cur on, that exactly one listed row fits.  The loop skips
\* the others: no row, or several, which are journalled as ambiguous.
Adoptable == {c \in cur..seq : mem[c].st = "unknown" /\ Cardinality(Candidates(c)) = 1}

\* The first of them takes the number of its row, and the number is recorded.
Adopt ==
    /\ pc = "adopt"
    /\ \E c \in Adoptable :
        /\ First(c, Adoptable)
        /\ \E n \in Candidates(c) :
            /\ mem' = [mem EXCEPT ![c].no = n]
            /\ known' = known \cup {n}
            /\ AppendOrderEvent(c, disk[c].st, n)
        /\ cur' = c + 1
    /\ UNCHANGED <<brokerVars, seq, ledgerVars, pc, ret, snap>>

AdoptDone ==
    /\ pc = "adopt" /\ Adoptable = {}
    /\ pc' = "apply"
    /\ cur' = 1
    /\ UNCHANGED <<brokerVars, mem, seq, ledgerVars, ret, snap, known, diskVars>>

\* The listed row of an order, how much of it is new, and the status it implies.
Seen(c)    == snap[mem[c].no]
Delta(c)   == Seen(c).filled - mem[c].filled
Derived(c) == derive_status(Seen(c).qty, Seen(c).filled, Seen(c).end)

\* The open orders, from cur on, whose listed row says something new.  The loop
\* leaves the others as they are.
News(c) ==
    /\ Open(mem[c]) /\ mem[c].no # NoNo
    /\ Seen(c).owner # Nobody
    /\ Delta(c) # 0 \/ Derived(c) # mem[c].st
Applicable == {c \in cur..seq : News(c)}

\* Fills moved backwards or exceed the order, or sell more than the ledger holds.
Violates(c) ==
    \/ Delta(c) < 0
    \/ Seen(c).filled > mem[c].qty
    \/ mem[c].side = "sell" /\ Delta(c) > pos

ApplyIntegrityError ==
    /\ pc = "apply"
    /\ \E c \in Applicable : First(c, Applicable) /\ Violates(c)
    /\ pc' = "integrity"
    /\ UNCHANGED <<brokerVars, mem, seq, ledgerVars, loopVars, diskVars>>

\* Mutant: the cumulative fill is booked instead of the new part.
ApplyFill_Cumulative ==
    /\ pc = "apply"
    /\ \E c \in Applicable :
        /\ First(c, Applicable) /\ ~Violates(c) /\ Delta(c) > 0
        /\ pos' = pos + Signed(mem[c].side, Seen(c).filled)
        /\ AppendFill(c, Delta(c), Seen(c).filled)
        /\ mem' = [mem EXCEPT ![c].filled = Seen(c).filled]
        /\ cur' = c
    /\ pc' = "status"
    /\ UNCHANGED <<brokerVars, seq, blocked, ret, snap, known>>

\* Mutant: the fill is booked but not recorded.
ApplyFill_Unrecorded ==
    /\ pc = "apply"
    /\ \E c \in Applicable :
        /\ First(c, Applicable) /\ ~Violates(c) /\ Delta(c) > 0
        /\ pos' = pos + Signed(mem[c].side, Delta(c))
        /\ mem' = [mem EXCEPT ![c].filled = Seen(c).filled]
        /\ cur' = c
    /\ pc' = "status"
    /\ UNCHANGED <<brokerVars, seq, blocked, ret, snap, known, diskVars>>

\* Ledger, then the fill record, then the order's own quantity.
ApplyFill ==
    /\ pc = "apply"
    /\ \E c \in Applicable :
        /\ First(c, Applicable) /\ ~Violates(c) /\ Delta(c) > 0
        /\ pos' = pos + Signed(mem[c].side, Delta(c))
        /\ AppendFill(c, Delta(c), Seen(c).filled)
        /\ mem' = [mem EXCEPT ![c].filled = Seen(c).filled]
        /\ cur' = c
    /\ pc' = "status"
    /\ UNCHANGED <<brokerVars, seq, blocked, ret, snap, known>>

\* transition(), and the status record.
SetStatus(c) ==
    /\ LegalTransition(mem[c].st, Derived(c))
    /\ mem' = [mem EXCEPT ![c].st = Derived(c)]
    /\ AppendStatus(c, Derived(c), mem[c].filled)
    /\ cur' = c + 1
    /\ pc' = "apply"
    /\ UNCHANGED <<brokerVars, seq, ledgerVars, ret, snap, known>>

ApplyNoFill ==
    /\ pc = "apply"
    /\ \E c \in Applicable :
        /\ First(c, Applicable) /\ ~Violates(c) /\ Delta(c) = 0
        /\ SetStatus(c)

\* After a fill the status is recorded even when it stays the same.
ApplyStatus == pc = "status" /\ SetStatus(cur)

\* reconcile() returns, and its locals with it.
ApplyDone ==
    /\ pc = "apply" /\ Applicable = {}
    /\ pc' = ret
    /\ snap' = EmptySnap
    /\ cur' = 0
    /\ known' = {}
    /\ UNCHANGED <<brokerVars, mem, seq, ledgerVars, ret, diskVars>>

(***************************************************************************)
(* resolve_unknown() after its reconcile: retire the order.                *)
(***************************************************************************)
ResolveUnknown(c) ==
    /\ mem[c].st = "unknown" /\ mem[c].no = NoNo
    /\ mem' = [mem EXCEPT ![c].st = "rejected"]
    /\ AppendOrderEvent(c, "rejected", disk[c].no)
=============================================================================
