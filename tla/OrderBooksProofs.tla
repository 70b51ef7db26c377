-------------------------- MODULE OrderBooksProofs --------------------------
(***************************************************************************)
(* The books of the order day: a second inductive invariant, on top of the *)
(* one of OrderInv.  Rows only move on, an order and the row it has the    *)
(* number of agree on the terms, a recorded order is never overfilled and  *)
(* has fills only under a number, and the journal is never corrupt.        *)
(***************************************************************************)
EXTENDS OrderProofs, TLAPS

-----------------------------------------------------------------------------
\* What may become of a listed row: it keeps its owner and terms, its fills grow, and
\* once it is not live any more nothing of it changes.
Moves(r, s) ==
    /\ s.owner = r.owner /\ s.side = r.side /\ s.qty = r.qty /\ s.at = r.at
    /\ r.filled <= s.filled
    /\ ~Live(r) => s = r

\* Rows are never overfilled, and a row of the fetched listing has only moved on since.
RowsSound ==
    /\ \A n \in Nos : rows[n].filled <= rows[n].qty
    /\ \A n \in Nos : snap[n].owner # Nobody => Moves(snap[n], rows[n])

\* An order and the row it has the number of agree on the terms.
Terms(o) == o.no # NoNo => rows[o.no].side = o.side /\ rows[o.no].qty = o.qty

\* What a journalled order says of itself.
Recorded(o) ==
    /\ o.st = "none" => o = NoOrder
    /\ o.filled <= o.qty
    /\ o.filled > 0 => o.no # NoNo
    /\ o.st = "partially_filled" => o.filled > 0
    /\ Terms(o)

\* What the running process adds to that.
Running ==
    /\ pc \in {"send", "result"} => disk[seq].filled = 0 /\ disk[seq].no = NoNo
    /\ \A c \in Ids : disk[c].st = "none" => mem[c].filled = 0
    /\ \A c \in Ids : mem[c].st = "pending_submit" => mem[c].no = NoNo
    /\ \A c \in Ids : Terms(mem[c])
    /\ pc = "status" =>
        /\ Open(mem[cur]) /\ mem[cur].filled > 0
        /\ Seen(cur).owner # Nobody /\ mem[cur].filled = Seen(cur).filled

Books == RowsSound /\ (\A c \in Ids : Recorded(disk[c])) /\ Running /\ ~corrupt

-----------------------------------------------------------------------------
\* Moving on is reflexive and transitive.
LEMMA MovesOn ==
    ASSUME NEW r \in RowType, NEW s \in RowType, NEW t \in RowType
    PROVE  Moves(r, r) /\ (Moves(r, s) /\ Moves(s, t) => Moves(r, t))
  BY DEF Moves, RowType

\* Every listed row moves on, and none is overfilled.
RowsForward ==
    /\ \A n \in Nos : Listed(n) => Moves(rows[n], rows'[n])
    /\ \A n \in Nos : rows'[n].filled <= rows'[n].qty

\* Rows that stay move on.
LEMMA RowsStay ==
    ASSUME RowsTyped, RowsSound, rows' = rows
    PROVE  RowsForward
  BY MovesOn DEF RowsTyped, RowsSound, RowsForward

\* A row that lands is new and empty.
LEMMA LandForward ==
    ASSUME RowsTyped, RowsSound, NEW n \in Nos, NEW owner, NEW intent, intent.qty \in Nat, NEW at,
           Land(n, owner, intent, at)
    PROVE  /\ RowsForward
           /\ rows'[n].owner = owner /\ rows'[n].side = intent.side /\ rows'[n].qty = intent.qty
<1> rows \in [Nos -> RowType] /\ ~Listed(n)
  BY DEF RowsTyped, Land, Fresh
<1>1. \A k \in Nos : rows'[k] = IF k = n THEN NewRow(owner, intent, at) ELSE rows[k]
  BY DEF Land
<1>2. \A k \in Nos : Moves(rows[k], rows[k])
  BY MovesOn
<1>3. \A k \in Nos : rows[k].filled <= rows[k].qty
  BY DEF RowsSound
<1> QED
  BY <1>1, <1>2, <1>3 DEF RowsForward, NewRow

\* Only live rows are closed.
LEMMA CloseForward ==
    ASSUME RowsTyped, RowsSound, NEW n \in Nos, Live(rows[n]), NEW how, CloseRow(n, how)
    PROVE  RowsForward
<1> rows \in [Nos -> RowType] /\ rows[n] \in RowType
  BY DEF RowsTyped
<1>1. \A k \in Nos : rows'[k] = IF k = n THEN [rows[k] EXCEPT !.end = how] ELSE rows[k]
  BY DEF CloseRow
<1>2. \A k \in Nos : Moves(rows[k], rows[k])
  BY MovesOn
<1>3. \A k \in Nos : rows[k].filled <= rows[k].qty
  BY DEF RowsSound
<1>4. /\ rows'[n].owner = rows[n].owner /\ rows'[n].side = rows[n].side /\ rows'[n].qty = rows[n].qty
      /\ rows'[n].at = rows[n].at /\ rows'[n].filled = rows[n].filled /\ rows[n].filled \in Nat
  BY Zenon, <1>1 DEF RowType
<1>5. Moves(rows[n], rows'[n])
  BY <1>4 DEF Moves
<1> QED
  BY Zenon, <1>1, <1>2, <1>3, <1>4, <1>5 DEF RowsForward

\* The broker's own steps.
LEMMA BrokerForward ==
    ASSUME IInv, RowsSound, BrokerStep
    PROVE  RowsForward
<1> RowsTyped /\ rows \in [Nos -> RowType] /\ wireCancel \subseteq Nos
      /\ \A req \in wire : req.qty \in Nat
  BY DEF IInv, TypeOK, RowsTyped, WireTyped
<1>1. CASE BrokerFill
  <2>1. PICK n \in Nos : /\ Live(rows[n])
                         /\ rows' = [rows EXCEPT ![n].filled = @ + 1]
    BY Zenon, <1>1 DEF BrokerFill
  <2>2. rows[n] \in RowType /\ \A k \in Nos : Moves(rows[k], rows[k]) /\ rows[k].filled <= rows[k].qty
    BY MovesOn DEF RowsSound
  <2>3. \A k \in Nos : rows'[k] = IF k = n THEN [rows[k] EXCEPT !.filled = @ + 1] ELSE rows[k]
    BY <2>1
  <2>4. /\ rows'[n].owner = rows[n].owner /\ rows'[n].side = rows[n].side /\ rows'[n].qty = rows[n].qty
        /\ rows'[n].at = rows[n].at /\ rows'[n].filled = rows[n].filled + 1
        /\ rows[n].filled \in Nat /\ rows[n].qty \in Nat
    BY Zenon, <2>2, <2>3 DEF RowType
  <2>5. Moves(rows[n], rows'[n]) /\ rows'[n].filled <= rows'[n].qty
    BY <2>1, <2>4 DEF Moves, Live
  <2> QED
    BY Zenon, <2>2, <2>3, <2>5 DEF RowsForward
<1>2. CASE BrokerReject
  <2>1. PICK n \in Nos : Live(rows[n]) /\ CloseRow(n, "rejected")
    BY <1>2 DEF BrokerReject
  <2> QED
    BY <2>1, CloseForward
<1>3. CASE LateOrder(dseq)
  <2>1. PICK req \in wire, n \in Nos : Land(n, req.id, req, dseq)
    BY <1>3 DEF LateOrder
  <2> QED
    BY <2>1, LandForward
<1>4. CASE LateCancel
  <2>1. PICK n \in Nos : Live(rows[n]) /\ CloseRow(n, "cancelled")
    BY <1>4 DEF LateCancel
  <2> QED
    BY <2>1, CloseForward
<1>5. CASE WireDrop
  <2>1. rows' = rows
    BY <1>5 DEF WireDrop
  <2> QED
    BY <2>1, RowsStay
<1>6. CASE ForeignOrder(dseq)
  <2>1. PICK n \in Nos, intent \in Intents : Land(n, Foreign, intent, dseq)
    BY <1>6 DEF ForeignOrder
  <2> QED
    BY <2>1, LandForward, BrokerAssumption
<1> QED
  BY <1>1, <1>2, <1>3, <1>4, <1>5, <1>6 DEF BrokerStep

-----------------------------------------------------------------------------
\* Nothing is recorded and nobody runs at first.
LEMMA InitBooks == Init => Books
<1> SUFFICES ASSUME Init PROVE Books
  OBVIOUS
<1> USE DEF Init, BrokerInit, OmsInit
<1>1. NoOrder.st = "none" /\ NoOrder.no = NoNo /\ NoOrder.filled = 0 /\ NoOrder.qty = 0
  BY Zenon DEF NoOrder
<1>2. RowsSound
  BY DEF RowsSound, Absent, EmptySnap
<1>3. \A c \in Ids : Recorded(disk[c])
  BY <1>1 DEF Recorded, Terms
<1>4. Running
  BY Zenon, <1>1 DEF Running, Terms
<1> QED
  BY <1>2, <1>3, <1>4 DEF Books

\* The listing stays sound while rows move on and the listing is kept or dropped.
LEMMA RowsSoundKept ==
    ASSUME IInv, IInv', RowsSound, RowsForward,
           \A n \in Nos : snap'[n] = snap[n] \/ snap'[n].owner = Nobody
    PROVE  RowsSound'
<1>1. \A n \in Nos : rows'[n].filled <= rows'[n].qty
  BY Zenon DEF RowsForward
<1>2. ASSUME NEW n \in Nos, snap'[n].owner # Nobody PROVE Moves(snap'[n], rows'[n])
  <2>1. snap'[n] = snap[n] /\ snap[n].owner # Nobody
    BY <1>2
  <2>2. snap[n] \in RowType /\ rows[n] \in RowType /\ rows'[n] \in RowType
    BY Zenon DEF IInv, TypeOK, RowsTyped
  <2>3. Moves(snap[n], rows[n]) /\ Moves(rows[n], rows'[n])
    BY Zenon, <2>1 DEF RowsSound, IInv, Listing, RowsForward
  <2> QED
    BY <2>1, <2>2, <2>3, MovesOn
<1> QED
  BY Zenon, <1>1, <1>2 DEF RowsSound, Moves, Live

\* An order and its row still agree when rows move on.
LEMMA TermsKept ==
    ASSUME IInv, RowsForward, NEW o \in OrderType, o.no # NoNo => Listed(o.no), Terms(o), o.no # NoNo
    PROVE  rows'[o.no].side = o.side /\ rows'[o.no].qty = o.qty
<1>1. o.no \in Nos
  BY Zenon DEF OrderType
<1> QED
  BY <1>1 DEF RowsForward, Moves, Terms

\* Of a step that leaves memory and journal as they are: the orders' own clauses stay.
LEMMA OrdersKept ==
    ASSUME IInv, Books, UNCHANGED <<mem, disk>>, RowsForward
    PROVE  \A c \in Ids : Recorded(disk[c])' /\ Terms(mem[c])'
<1> SUFFICES ASSUME NEW c \in Ids PROVE Recorded(disk[c])' /\ Terms(mem[c])'
  OBVIOUS
<1>1. mem[c] \in OrderType /\ disk[c] \in OrderType
  BY Zenon DEF IInv, TypeOK, OrdersTyped
<1>2. (mem[c].no # NoNo => Listed(mem[c].no)) /\ (disk[c].no # NoNo => Listed(disk[c].no))
  BY Zenon DEF IInv, Listing
<1> Terms(mem[c]) /\ Recorded(disk[c]) /\ Terms(disk[c])
  BY Zenon DEF Books, Running, Recorded
<1>3. Terms(mem[c])'
  BY Zenon, <1>1, <1>2, TermsKept DEF Terms
<1>4. Terms(disk[c])'
  BY Zenon, <1>1, <1>2, TermsKept DEF Terms
<1> QED
  BY <1>3, <1>4 DEF Recorded

\* A step that changes no order.
LEMMA BooksKept ==
    ASSUME IInv, Books, RowsSound', RowsForward, UNCHANGED <<mem, disk, seq, corrupt>>,
           pc' \in {"send", "result"} => pc' = pc,
           pc' = "status" => pc = "status" /\ UNCHANGED <<snap, cur>>
    PROVE  Books'
<1>1. \A c \in Ids : Recorded(disk[c])' /\ Terms(mem[c])'
  BY Zenon, OrdersKept
<1>2. pc' = "status" => UNCHANGED Seen(cur)
  BY Zenon DEF Seen
<1>3. Running'
  BY <1>1, <1>2 DEF Books, Running
<1> QED
  BY Zenon, <1>1, <1>3 DEF Books

\* The broker's steps, the handlers' pauses and the cancel request are such steps.
LEMMA QuietBooks ==
    ASSUME IInv, IInv', Books, Pauses \/ Same \/ BrokerStep
    PROVE  Books'
<1> RowsTyped /\ RowsSound
  BY DEF IInv, TypeOK, Books
<1>1. RowsForward
  <2>1. CASE BrokerStep
    BY Zenon, <2>1, BrokerForward
  <2>2. CASE Pauses \/ Same
    BY Zenon, <2>2, RowsStay DEF Pauses, Same, Quiet, brokerVars
  <2> QED
    BY <2>1, <2>2
<1>2. UNCHANGED <<mem, disk, seq, corrupt, snap, cur>>
  BY DEF Pauses, Same, Quiet, BrokerStep, loopVars, diskVars
<1>3. RowsSound'
  BY Zenon, <1>1, <1>2, RowsSoundKept
<1>4. pc' \in {"send", "result", "status"} => pc' = pc
  BY DEF Pauses, Same, Quiet, BrokerStep, Labels
<1> QED
  BY Zenon, <1>1, <1>2, <1>3, <1>4, BooksKept

\* So are the cancel request and the ends of reconcile()'s loops.
LEMMA LoopBooks ==
    ASSUME IInv, IInv', Books,
           AdoptDone \/ ApplyDone \/ \E c \in Ids : pc \in {"ready", "await"} /\ PostCancel(c, "confirm")
    PROVE  Books'
<1> RowsTyped /\ RowsSound
  BY Zenon DEF IInv, TypeOK, Books
<1>1. UNCHANGED <<mem, disk, seq, corrupt>>
  BY DEF AdoptDone, ApplyDone, PostCancel, diskVars
<1>2. RowsForward
  <2>1. CASE rows' = rows
    BY Zenon, <2>1, RowsStay
  <2>2. CASE rows' # rows
    <3>1. PICK c \in Ids : Live(rows[mem[c].no]) /\ CloseRow(mem[c].no, "cancelled") /\ mem[c].no # NoNo
      BY Zenon, <2>2 DEF AdoptDone, ApplyDone, PostCancel, brokerVars
    <3>2. mem[c].no \in Nos
      BY Zenon, <3>1 DEF IInv, TypeOK, OrdersTyped, OrderType
    <3> QED
      BY Zenon, <3>1, <3>2, CloseForward
  <2> QED
    BY <2>1, <2>2
<1>3. snap' = snap \/ snap' = EmptySnap
  BY Zenon DEF AdoptDone, ApplyDone, PostCancel
<1>4. \A n \in Nos : snap'[n] = snap[n] \/ snap'[n].owner = Nobody
  BY <1>3 DEF EmptySnap, Absent
<1>5. RowsSound'
  BY Zenon, <1>2, <1>4, RowsSoundKept
<1>6. pc' \notin {"send", "result", "status"}
  BY DEF AdoptDone, ApplyDone, PostCancel, IInv, TypeOK, LabelsTyped, Returns
<1> QED
  BY <1>1, <1>2, <1>5, <1>6, BooksKept

\* A listing that lags is one its rows have moved on from.
LEMMA LagMoves ==
    ASSUME NEW row \in RowType, row.filled <= row.qty
    PROVE  Moves(Lag(row), row)
  BY DEF Lag, Moves, Live, RowType

\* The listing is fetched.
LEMMA FetchBooks ==
    ASSUME IInv, IInv', Books, Fetch
    PROVE  Books'
<1>1. RowsTyped /\ RowsSound
  BY Zenon DEF IInv, TypeOK, Books
<1>2. /\ pc = "fetch" /\ pc' = "adopt"
      /\ UNCHANGED <<rows, mem, disk, seq, corrupt>>
  BY DEF Fetch, brokerVars, diskVars
<1>3. \A n \in Nos : snap'[n] = rows[n] \/ snap'[n] = Lag(rows[n])
  BY DEF Fetch
<1>4. \A n \in Nos : rows[n] \in RowType /\ rows[n].filled <= rows[n].qty
  BY Zenon, <1>1 DEF RowsTyped, RowsSound
<1>5. \A n \in Nos : Moves(snap'[n], rows'[n])
  BY Zenon, <1>2, <1>3, <1>4, LagMoves, MovesOn
<1>6. RowsSound'
  BY <1>2, <1>4, <1>5 DEF RowsSound, Moves, Live
<1>7. RowsForward
  BY <1>1, <1>2, RowsStay
<1> QED
  BY <1>2, <1>6, <1>7, BooksKept

\* The process ends; the journal stays.
LEMMA EndsBooks ==
    ASSUME IInv, IInv', Books, Ends
    PROVE  Books'
<1>1. /\ UNCHANGED <<rows, disk, corrupt>>
      /\ pc' = "down" /\ snap' = EmptySnap /\ mem' = [c \in Ids |-> NoOrder]
  BY Zenon DEF Ends, Forget, brokerVars
<1>2. RowsTyped /\ RowsSound
  BY DEF IInv, TypeOK, Books
<1>3. RowsForward
  BY Zenon, <1>1, <1>2, RowsStay
<1>4. \A n \in Nos : snap'[n].owner = Nobody
  BY <1>1 DEF EmptySnap, Absent
<1>5. RowsSound'
  BY Zenon, <1>2, <1>3, <1>4, RowsSoundKept
<1>6. \A c \in Ids : Recorded(disk[c])'
  BY Zenon, <1>1 DEF Books, Recorded, Terms
<1>7. Running'
  BY Zenon, <1>1 DEF Running, Terms, NoOrder
<1> QED
  BY <1>1, <1>5, <1>6, <1>7 DEF Books

\* A new process takes the journal's orders and ledger.
LEMMA AssembleBooks ==
    ASSUME IInv, IInv', Books, NEW cm \in Commands, Assemble(cm)
    PROVE  Books'
<1>1. /\ UNCHANGED <<rows, disk, corrupt, snap>>
      /\ mem' = restore_session
      /\ pc' \in {"session_start", "parity"}
  BY Zenon DEF Assemble, brokerVars, loopVars, diskVars
<1>2. RowsSound' /\ (\A c \in Ids : Recorded(disk[c])')
  BY Zenon, <1>1 DEF Books, RowsSound, Moves, Live, Recorded, Terms
<1>3. ASSUME NEW c \in Ids
      PROVE  /\ disk[c].st = "none" => mem'[c].filled = 0
             /\ mem'[c].st # "pending_submit"
             /\ Terms(mem[c])'
  <2>1. disk[c] \in OrderType /\ mem'[c] = [disk[c] EXCEPT !.st = RestoreStatus(disk[c].st)]
    BY <1>1 DEF restore_session, IInv, TypeOK, OrdersTyped
  <2>2. /\ mem'[c].no = disk[c].no /\ mem'[c].filled = disk[c].filled
        /\ mem'[c].side = disk[c].side /\ mem'[c].qty = disk[c].qty
        /\ mem'[c].st = RestoreStatus(disk[c].st)
    BY Zenon, <2>1 DEF OrderType
  <2>3. disk[c].st = "none" => disk[c].filled = 0
    BY DEF Books, Recorded, NoOrder
  <2>4. Terms(disk[c])
    BY Zenon DEF Books, Recorded
  <2> QED
    BY <1>1, <2>2, <2>3, <2>4 DEF Terms, RestoreStatus
<1>4. Running'
  BY <1>1, <1>3 DEF Running
<1> QED
  BY Zenon, <1>1, <1>2, <1>4 DEF Books

\* The session starts.
LEMMA SessionStartBooks ==
    ASSUME IInv, IInv', Books, SessionStart
    PROVE  Books'
<1>1. pc' = "ready" /\ UNCHANGED <<rows, mem, disk, seq, corrupt, snap>>
  BY Zenon DEF SessionStart, AppendSessionStart, brokerVars, loopVars
<1> QED
  BY Zenon, <1>1 DEF Books, RowsSound, Moves, Live, Running, Recorded, Terms

\* The gate refuses, or the intent is recorded: the next id was blank.
LEMMA SubmitBooks ==
    ASSUME IInv, IInv', Books, NEW intent \in Intents, NEW m \in Market,
           SubmitRiskReject(intent, m) \/ SubmitIntent(intent, m)
    PROVE  Books'
<1> DEFINE c == seq + 1
           st == IF pc' = "send" THEN "pending_submit" ELSE "rejected"
           o == Order(intent, st)
<1>1. /\ pc = "ready" /\ pc' \in {"submitted", "send"} /\ seq' = c
      /\ mem' = [mem EXCEPT ![c] = o]
      /\ UNCHANGED <<rows, snap>>
      /\ pc' = "submitted" => disk' = disk /\ corrupt' = corrupt
      /\ pc' = "send" => disk' = [disk EXCEPT ![c] = o] /\ corrupt' = (corrupt \/ disk[c].st # "none")
  BY Zenon DEF SubmitRiskReject, SubmitIntent, AppendRiskReject, AppendIntent, brokerVars, loopVars
<1> c \in Ids /\ mem \in [Ids -> OrderType] /\ disk \in [Ids -> OrderType] /\ disk[c].st = "none"
  <2>1. c \in Ids /\ c > dseq
    <3>1. seq \in 0..MaxOrders /\ seq < MaxOrders /\ dseq = seq
      BY Zenon, <1>1 DEF IInv, TypeOK, CountsTyped, Control, SubmitRiskReject, SubmitIntent
    <3> QED
      BY <3>1, OmsAssumption DEF Ids
  <2> QED
    BY <2>1 DEF IInv, TypeOK, OrdersTyped, Blank
<1> o.filled = 0 /\ o.no = NoNo /\ o.st = st /\ o.qty \in Nat
  BY BrokerAssumption DEF Order
<1> HIDE DEF c, o
<1>2. /\ \A x \in Ids : mem'[x] = IF x = c THEN o ELSE mem[x]
      /\ pc' = "send" => \A x \in Ids : disk'[x] = IF x = c THEN o ELSE disk[x]
  BY Zenon, <1>1
<1>3. RowsSound'
  BY Zenon, <1>1 DEF Books, RowsSound, Moves, Live
<1>4. \A x \in Ids : Recorded(disk[x])'
  <2> TAKE x \in Ids
  <2>1. Recorded(disk[x]) /\ rows' = rows
    BY Zenon, <1>1 DEF Books
  <2>2. CASE pc' = "send" /\ x = c
    <3>1. disk'[x] = o
      BY Zenon, <1>2, <2>2
    <3>2. o.filled <= o.qty /\ ~(o.filled > 0)
      OBVIOUS
    <3> QED
      BY Zenon, <1>1, <2>2, <3>1, <3>2 DEF Recorded, Terms
  <2>3. CASE pc' = "submitted" \/ x # c
    <3>1. disk'[x] = disk[x]
      BY Zenon, <1>1, <1>2, <2>3
    <3> QED
      BY Zenon, <2>1, <3>1 DEF Recorded, Terms
  <2> QED
    BY Zenon, <1>1, <2>2, <2>3
<1>5. Running'
  <2>1. pc' \in {"send", "result"} => disk'[seq'].filled = 0 /\ disk'[seq'].no = NoNo
    BY Zenon, <1>1, <1>2
  <2>2. \A x \in Ids : disk'[x].st = "none" => mem'[x].filled = 0
    BY Zenon, <1>1, <1>2 DEF Books, Running
  <2>3. \A x \in Ids : mem'[x].st = "pending_submit" => mem'[x].no = NoNo
    BY <1>2 DEF Books, Running
  <2>4. \A x \in Ids : Terms(mem[x])'
    BY Zenon, <1>1, <1>2 DEF Books, Running, Terms
  <2> QED
    BY Zenon, <1>1, <2>1, <2>2, <2>3, <2>4 DEF Running
<1>6. ~corrupt'
  <2>1. ~corrupt /\ ~(disk[c].st # "none")
    BY Zenon DEF Books
  <2> QED
    BY <1>1, <2>1, Zenon
<1> QED
  BY Zenon, <1>3, <1>4, <1>5, <1>6 DEF Books

\* The answer to a submit: an accepted order has the terms of its new row.
LEMMA OutcomeBooks ==
    ASSUME IInv, IInv', Books, pc = "send", NEW st, st # "pending_submit", NEW no, Outcome(st, no), RowsForward,
           no # NoNo => rows'[no].side = mem[seq].side /\ rows'[no].qty = mem[seq].qty
    PROVE  Books'
<1>1. /\ mem' = [mem EXCEPT ![seq].st = st, ![seq].no = no] /\ pc' = "result"
      /\ UNCHANGED <<seq, snap, disk, corrupt>>
  BY DEF Outcome, loopVars, diskVars
<1>2. seq \in Ids /\ mem \in [Ids -> OrderType] /\ mem[seq] \in OrderType
  BY Zenon DEF IInv, TypeOK, OrdersTyped, Control
<1>3. \A x \in Ids : mem'[x] = IF x = seq THEN [mem[x] EXCEPT !.st = st, !.no = no] ELSE mem[x]
  BY Zenon, <1>1, <1>2
<1> /\ mem'[seq].st = st /\ mem'[seq].no = no /\ mem'[seq].filled = mem[seq].filled
    /\ mem'[seq].side = mem[seq].side /\ mem'[seq].qty = mem[seq].qty
  BY Zenon, <1>2, <1>3 DEF OrderType
<1>4. RowsSound'
  BY Zenon, <1>1, RowsSoundKept DEF Books
<1>5. ASSUME NEW x \in Ids PROVE Recorded(disk[x])' /\ (x # seq => Terms(mem[x])')
  <2>1. mem[x] \in OrderType /\ disk[x] \in OrderType
    BY Zenon DEF IInv, TypeOK, OrdersTyped
  <2>2. (mem[x].no # NoNo => Listed(mem[x].no)) /\ (disk[x].no # NoNo => Listed(disk[x].no))
    BY Zenon DEF IInv, Listing
  <2> Terms(mem[x]) /\ Recorded(disk[x]) /\ Terms(disk[x])
    BY Zenon DEF Books, Running, Recorded
  <2>3. x # seq => Terms(mem[x])'
    BY Zenon, <1>3, <2>1, <2>2, TermsKept DEF Terms
  <2>4. Terms(disk[x])'
    BY Zenon, <1>1, <2>1, <2>2, TermsKept DEF Terms
  <2> QED
    BY <1>1, <2>3, <2>4 DEF Recorded
<1>6. Terms(mem[seq])'
  BY <1>1 DEF Terms
<1>7. Running'
  <2>1. disk'[seq'].filled = 0 /\ disk'[seq'].no = NoNo
    BY <1>1 DEF Books, Running
  <2>2. \A x \in Ids : disk'[x].st = "none" => mem'[x].filled = 0
    BY Zenon, <1>1, <1>3 DEF Books, Running
  <2>3. \A x \in Ids : mem'[x].st = "pending_submit" => mem'[x].no = NoNo
    BY Zenon, <1>3 DEF Books, Running
  <2>4. \A x \in Ids : Terms(mem[x])'
    BY Zenon, <1>1, <1>5, <1>6
  <2> QED
    BY Zenon, <1>1, <2>1, <2>2, <2>3, <2>4 DEF Running
<1> QED
  BY <1>1, <1>4, <1>5, <1>7 DEF Books

\* The three answers.
LEMMA PostBooks ==
    ASSUME IInv, IInv', Books, PostAccepted \/ PostRejected \/ PostUnknown
    PROVE  Books'
<1> /\ pc = "send" /\ RowsTyped /\ RowsSound /\ mem[seq].qty \in Nat
    /\ \A n \in Nos : n # NoNo
  <2>1. pc = "send"
    BY Zenon DEF PostAccepted, PostRejected, PostUnknown
  <2>2. seq \in Ids /\ mem[seq] \in OrderType /\ RowsTyped
    BY Zenon, <2>1 DEF IInv, TypeOK, OrdersTyped, Control
  <2> QED
    BY <2>1, <2>2, BrokerAssumption DEF Books, OrderType, Nos, NoNo
<1> ASSUME NEW n \in Nos, Land(n, seq, mem[seq], dseq)
      PROVE  RowsForward /\ rows'[n].side = mem[seq].side /\ rows'[n].qty = mem[seq].qty
  BY LandForward
<1>1. rows' = rows => RowsForward
  BY Zenon, RowsStay
<1>2. CASE PostAccepted
  <2>1. PICK n \in Nos : Land(n, seq, mem[seq], dseq) /\ Outcome("accepted", n)
    BY Zenon, <1>2 DEF PostAccepted
  <2> QED
    BY Zenon, <2>1, OutcomeBooks
<1>3. CASE PostRejected
  <2>1. rows' = rows /\ Outcome("rejected", NoNo)
    BY Zenon, <1>3 DEF PostRejected, brokerVars
  <2> QED
    BY Zenon, <1>1, <2>1, OutcomeBooks
<1>4. CASE PostUnknown
  <2>1. Outcome("unknown", NoNo) /\ (rows' = rows \/ \E n \in Nos : Land(n, seq, mem[seq], dseq))
    BY Zenon, <1>4 DEF PostUnknown
  <2>2. RowsForward
    BY Zenon, <1>1, <2>1
  <2> QED
    BY Zenon, <2>1, <2>2, OutcomeBooks
<1> QED
  BY Zenon, <1>2, <1>3, <1>4

\* A step that changes one recorded order, and what it owes the books: o and d are what it
\* makes of mem[c] and disk[c].
BooksStep(c, o, d) ==
    /\ mem' = [mem EXCEPT ![c] = o] /\ disk' = [disk EXCEPT ![c] = d]
    /\ UNCHANGED <<rows, snap>>
    /\ d.st # "none" /\ Recorded(d) /\ Terms(o)
    /\ o.st = "pending_submit" => o.no = NoNo
    /\ pc' \notin {"down", "send", "result"}
    /\ pc' = "status" =>
        /\ cur' = c /\ Open(o) /\ o.filled > 0
        /\ snap[o.no].owner # Nobody /\ o.filled = snap[o.no].filled

\* The books after such a step.
LEMMA UpdateBooks ==
    ASSUME IInv, Books, NEW c \in Ids, NEW o, NEW d, BooksStep(c, o, d), ~corrupt'
    PROVE  Books'
<1>1. /\ \A x \in Ids : x # c => mem'[x] = mem[x] /\ disk'[x] = disk[x]
      /\ mem'[c] = o /\ disk'[c] = d
  BY Zenon DEF BooksStep, IInv, TypeOK, OrdersTyped
<1>2. UNCHANGED <<rows, snap>> /\ Recorded(d) /\ Terms(o)
  BY DEF BooksStep
<1>3. /\ RowsSound /\ \A x \in Ids : Recorded(disk[x]) /\ Terms(mem[x])
      /\ \A x \in Ids : disk[x].st = "none" => mem[x].filled = 0
      /\ \A x \in Ids : mem[x].st = "pending_submit" => mem[x].no = NoNo
  BY Zenon DEF Books, Running
<1>4. RowsSound'
  BY Zenon, <1>2, <1>3 DEF RowsSound, Moves, Live
<1>5. \A x \in Ids : Recorded(disk[x])' /\ Terms(mem[x])'
  <2> TAKE x \in Ids
  <2>1. CASE x = c
    <3>1. disk'[x] = d /\ mem'[x] = o /\ rows' = rows
      BY Zenon, <1>1, <1>2, <2>1
    <3> QED
      BY Zenon, <1>2, <3>1 DEF Recorded, Terms
  <2>2. CASE x # c
    <3>1. /\ disk'[x] = disk[x] /\ mem'[x] = mem[x] /\ rows' = rows
          /\ Recorded(disk[x]) /\ Terms(mem[x])
      BY Zenon, <1>1, <1>2, <1>3, <2>2
    <3> QED
      BY Zenon, <3>1 DEF Recorded, Terms
  <2> QED
    BY Zenon, <2>1, <2>2
<1>6. Running'
  <2>1. d.st # "none" /\ (o.st = "pending_submit" => o.no = NoNo)
    BY Zenon DEF BooksStep
  <2>2. \A x \in Ids : disk'[x].st = "none" => mem'[x].filled = 0
    BY Zenon, <1>1, <1>3, <2>1
  <2>3. \A x \in Ids : mem'[x].st = "pending_submit" => mem'[x].no = NoNo
    BY Zenon, <1>1, <1>3, <2>1
  <2>4. pc' = "status" => cur' = c /\ mem'[cur'] = o /\ Seen(cur)' = snap[o.no]
    BY Zenon, <1>1, <1>2 DEF BooksStep, Seen
  <2> QED
    BY Zenon, <1>5, <2>2, <2>3, <2>4 DEF BooksStep, Running
<1> QED
  BY Zenon, <1>4, <1>5, <1>6 DEF Books

\* The result is recorded.
LEMMA JournalResultBooks ==
    ASSUME IInv, IInv', Books, JournalResult
    PROVE  Books'
<1> DEFINE o == mem[seq]
           d == [disk[seq] EXCEPT !.st = o.st, !.no = o.no]
<1> /\ seq \in Ids /\ pc = "result" /\ pc' = "submitted"
    /\ mem \in [Ids -> OrderType] /\ o \in OrderType /\ disk[seq] \in OrderType
    /\ o.st \in {"accepted", "rejected", "unknown"} /\ disk[seq].st = "pending_submit"
  BY DEF IInv, TypeOK, OrdersTyped, Control, JournalResult
<1>1. /\ UNCHANGED <<rows, snap>>
      /\ mem' = [mem EXCEPT ![seq] = o] /\ disk' = [disk EXCEPT ![seq] = d]
      /\ corrupt' = (corrupt \/ disk[seq].st = "none")
  BY Zenon DEF JournalResult, AppendOrderEvent, loopVars, brokerVars
<1>2. /\ d.st = o.st /\ d.no = o.no /\ d.filled = disk[seq].filled /\ d.side = disk[seq].side
      /\ d.qty = disk[seq].qty
  BY Zenon DEF OrderType
<1>3. disk[seq].filled = 0 /\ disk[seq].no = NoNo /\ Recorded(disk[seq]) /\ Terms(o)
  BY DEF Books, Running
<1>4. o.side = disk[seq].side /\ o.qty = disk[seq].qty
  <2>1. Recovered(disk[seq]) = [o EXCEPT !.st = "unknown", !.no = NoNo]
    BY Zenon DEF IInv, RecoveryExact, restore_session, Recovered
  <2> QED
    BY Zenon, <2>1 DEF Recovered, OrderType
<1> HIDE DEF d, o
<1>5. Recorded(d)
  BY Zenon, <1>2, <1>3, <1>4 DEF Recorded, Terms
<1>6. BooksStep(seq, o, d)
  BY <1>1, <1>2, <1>3, <1>5 DEF BooksStep
<1>7. ~corrupt'
  <2>1. ~corrupt /\ ~(disk[seq].st = "none")
    BY Zenon DEF Books
  <2> QED
    BY <1>1, <2>1, Zenon
<1> QED
  BY Zenon, <1>6, <1>7, UpdateBooks

\* A number is adopted: the row fits the order.
LEMMA AdoptBooks ==
    ASSUME IInv, IInv', Books, Adopt
    PROVE  Books'
<1>1. PICK c \in Adoptable : \E n \in Candidates(c) :
         mem' = [mem EXCEPT ![c].no = n] /\ AppendOrderEvent(c, disk[c].st, n)
  BY Zenon DEF Adopt
<1>2. PICK n \in Candidates(c) :
         mem' = [mem EXCEPT ![c].no = n] /\ AppendOrderEvent(c, disk[c].st, n)
  BY Zenon, <1>1
<1> DEFINE o == [mem[c] EXCEPT !.no = n]
           d == [disk[c] EXCEPT !.st = disk[c].st, !.no = n]
<1> pc = "adopt" /\ pc' = "adopt" /\ UNCHANGED <<rows, snap>>
  BY Zenon DEF Adopt, brokerVars
<1> seq \in 0..MaxOrders /\ cur \in Nat /\ cur >= 1
  BY OmsAssumption DEF IInv, TypeOK, CountsTyped, Control
<1> c \in Ids /\ mem[c].st = "unknown"
  BY OmsAssumption DEF Adoptable, Ids
<1>3. mem \in [Ids -> OrderType] /\ disk \in [Ids -> OrderType] /\ mem[c] \in OrderType /\ disk[c] \in OrderType
  BY Zenon DEF IInv, TypeOK, OrdersTyped
<1> disk[c].st # "none"
  BY Zenon DEF IInv, RecoveryExact
<1>4. disk[c].side = mem[c].side /\ disk[c].qty = mem[c].qty
  BY Zenon, Agree
<1>5. rows[n].side = mem[c].side /\ rows[n].qty = mem[c].qty
  BY <1>2 DEF Candidates, Books, RowsSound, Moves
<1>6. /\ mem' = [mem EXCEPT ![c] = o] /\ disk' = [disk EXCEPT ![c] = d]
      /\ corrupt' = (corrupt \/ disk[c].st = "none")
  BY Zenon, <1>2, <1>3 DEF AppendOrderEvent
<1>7. /\ d.st = disk[c].st /\ d.no = n /\ d.filled = disk[c].filled /\ d.side = disk[c].side
      /\ d.qty = disk[c].qty
      /\ o.st = mem[c].st /\ o.no = n /\ o.side = mem[c].side /\ o.qty = mem[c].qty
  BY <1>3 DEF OrderType
<1> HIDE DEF o, d
<1>8. n # NoNo
  BY <1>2, BrokerAssumption DEF Candidates, Nos, NoNo
<1>9. Recorded(d) /\ Terms(o)
  <2>1. Recorded(disk[c])
    BY Zenon DEF Books
  <2> QED
    BY Zenon, <1>4, <1>5, <1>7, <1>8, <2>1 DEF Recorded, Terms
<1>10. BooksStep(c, o, d)
  BY Zenon, <1>6, <1>7, <1>9 DEF BooksStep
<1>11. ~corrupt'
  <2>1. ~corrupt /\ ~(disk[c].st = "none")
    BY Zenon DEF Books
  <2> QED
    BY <1>6, <2>1, Zenon
<1> QED
  BY <1>10, <1>11, UpdateBooks

\* The row of an order that reconcile() looks at has the order's terms.
LEMMA SeenTerms ==
    ASSUME IInv, Books, NEW c \in Ids, mem[c].no # NoNo, Seen(c).owner # Nobody
    PROVE  /\ Seen(c) \in RowType /\ Seen(c).qty = mem[c].qty
           /\ Seen(c).filled <= rows[mem[c].no].filled
           /\ mem[c].st # "pending_submit"
<1>1. mem[c].no \in Nos
  BY Zenon DEF IInv, TypeOK, OrdersTyped, OrderType
<1>2. Seen(c) \in RowType
  BY Zenon, <1>1 DEF Seen, IInv, TypeOK, RowsTyped
<1>3. Moves(Seen(c), rows[mem[c].no]) /\ Terms(mem[c])
  BY Zenon, <1>1 DEF Seen, Books, RowsSound, Running
<1>4. mem[c].st # "pending_submit"
  BY Zenon DEF Books, Running
<1> QED
  BY Zenon, <1>2, <1>3, <1>4 DEF Moves, Terms

\* What holds of the order whose status is about to be set.
Settling(c) ==
    /\ c \in 1..seq /\ c \in Ids /\ pc \in {"apply", "status"}
    /\ mem[c].no # NoNo /\ disk[c].st # "none" /\ Open(mem[c])
    /\ Seen(c).owner # Nobody /\ mem[c].filled = Seen(c).filled

\* An order whose listing says only a new status is one.
LEMMA ApplyNoFillSettles ==
    ASSUME IInv, Books, ApplyNoFill
    PROVE  \E c \in Ids : Settling(c) /\ SetStatus(c)
<1> PICK c \in Applicable : Delta(c) = 0 /\ SetStatus(c) /\ pc = "apply"
  BY Zenon DEF ApplyNoFill
<1>1. c \in 1..seq /\ c \in Ids /\ mem[c] \in OrderType /\ mem[c].no # NoNo /\ disk[c].st # "none" /\ Seen(c) \in RowType
  BY Zenon, ApplicableOrder
<1>2. mem[c].filled = Seen(c).filled
  BY <1>1 DEF Delta, OrderType, RowType
<1>3. Open(mem[c]) /\ Seen(c).owner # Nobody
  BY Zenon DEF Applicable, News
<1> QED
  BY Zenon, <1>1, <1>2, <1>3 DEF Settling

\* So is the order whose fill was just applied.
LEMMA ApplyStatusSettles ==
    ASSUME IInv, Books, ApplyStatus
    PROVE  cur \in Ids /\ Settling(cur) /\ SetStatus(cur)
<1>1. pc = "status" /\ SetStatus(cur)
  BY Zenon DEF ApplyStatus
<1>2. cur \in 1..seq /\ cur \in Ids /\ mem[cur].no # NoNo /\ disk[cur].st # "none"
  BY <1>1, OmsAssumption DEF IInv, TypeOK, CountsTyped, Control, Ids
<1> QED
  BY <1>1, <1>2 DEF Settling, Books, Running

\* What the derived status says of the fills.
LEMMA DerivedFits ==
    ASSUME IInv, Books, NEW c \in Ids, Settling(c)
    PROVE  /\ Derived(c) \in {"accepted", "partially_filled", "filled", "cancelled", "rejected"}
           /\ Derived(c) \in {"accepted", "rejected"} => mem[c].filled = 0
           /\ Derived(c) = "partially_filled" => 0 < mem[c].filled /\ mem[c].filled < mem[c].qty
           /\ Derived(c) = "filled" => mem[c].filled = mem[c].qty
           /\ Derived(c) = "cancelled" => mem[c].filled < mem[c].qty
<1>1. Seen(c) \in RowType /\ Seen(c).qty = mem[c].qty /\ mem[c].filled = Seen(c).filled
  BY Zenon, SeenTerms DEF Settling
<1>2. disk[c].filled = mem[c].filled /\ disk[c].qty = mem[c].qty /\ Recorded(disk[c])
  BY Zenon, Agree DEF Settling, Books
<1>3. mem[c].filled \in Nat /\ mem[c].qty \in Nat /\ mem[c].filled <= mem[c].qty
  BY Zenon, <1>1, <1>2 DEF RowType, Recorded
<1>4. Derived(c) = derive_status(mem[c].qty, mem[c].filled, Seen(c).end)
  BY Zenon, <1>1 DEF Derived
<1> QED
  BY <1>3, <1>4 DEF derive_status

\* The status is set and recorded.
LEMMA SetStatusBooks ==
    ASSUME IInv, IInv', Books, NEW c \in Ids, Settling(c), SetStatus(c)
    PROVE  Books'
<1> DEFINE st == Derived(c)
           o == [mem[c] EXCEPT !.st = st]
           d == [disk[c] EXCEPT !.st = st]
<1>1. /\ st \in {"accepted", "partially_filled", "filled", "cancelled", "rejected"}
      /\ st = "partially_filled" => mem[c].filled > 0
  BY DerivedFits
<1> /\ mem[c] \in OrderType /\ disk[c] \in OrderType
    /\ disk[c].no = mem[c].no /\ disk[c].filled = mem[c].filled
    /\ disk[c].side = mem[c].side /\ disk[c].qty = mem[c].qty
  BY Zenon, Agree DEF IInv, TypeOK, OrdersTyped, Settling
<1>2. /\ pc \in {"apply", "status"} /\ pc' = "apply" /\ UNCHANGED <<rows, snap>>
      /\ mem' = [mem EXCEPT ![c] = o] /\ disk' = [disk EXCEPT ![c] = d]
      /\ corrupt' = (corrupt \/ disk[c].st = "none" \/ disk[c].filled # mem[c].filled)
  BY Zenon DEF Settling, SetStatus, AppendStatus, brokerVars
<1> HIDE DEF st
<1>3. /\ o.st = st /\ o.no = mem[c].no /\ o.side = mem[c].side /\ o.qty = mem[c].qty
      /\ d.st = st /\ d.no = disk[c].no /\ d.filled = disk[c].filled /\ d.side = disk[c].side
      /\ d.qty = disk[c].qty
  BY DEF OrderType
<1> HIDE DEF o, d
<1>4. Recorded(disk[c]) /\ Terms(mem[c])
  BY Zenon DEF Books, Running
<1>5. Recorded(d) /\ Terms(o)
  BY Zenon, <1>1, <1>3, <1>4 DEF Recorded, Terms
<1>6. BooksStep(c, o, d)
  BY Zenon, <1>1, <1>2, <1>3, <1>5 DEF BooksStep
<1>7. ~corrupt'
  <2>1. ~corrupt /\ ~(disk[c].st = "none") /\ ~(disk[c].filled # mem[c].filled)
    BY Zenon DEF Books, Settling
  <2> QED
    BY <1>2, <2>1, Zenon
<1> QED
  BY Zenon, <1>6, <1>7, UpdateBooks

\* The retired order, and that it has neither number nor fills.
LEMMA RetireOrder ==
    ASSUME IInv, Books, ResolveRetire
    PROVE  /\ cmd.id \in Ids /\ disk[cmd.id].st \in {"pending_submit", "unknown"}
           /\ disk[cmd.id] \in OrderType /\ mem[cmd.id] \in OrderType
           /\ disk[cmd.id].no = NoNo /\ disk[cmd.id].filled = 0 /\ mem[cmd.id].no = NoNo
<1> DEFINE c == cmd.id
<1> pc = "resolve" /\ mem[c].st = "unknown" /\ mem[c].no = NoNo
  BY Zenon DEF ResolveRetire, ResolveUnknown
<1> c \in Ids
  BY Zenon DEF IInv, Control
<1> mem[c] \in OrderType /\ disk[c] \in OrderType /\ disk[c].st # "none"
  BY Zenon DEF IInv, TypeOK, OrdersTyped, RecoveryExact
<1> Recovered(disk[c]) = Recovered(mem[c]) /\ disk[c].no = mem[c].no
  BY Zenon, Agree
<1>1. disk[c].st \in {"pending_submit", "unknown"}
  BY Zenon DEF Recovered, RestoreStatus, OrderType
<1>2. disk[c].filled = 0
  BY DEF Books, Recorded, OrderType
<1> QED
  BY Zenon, <1>1, <1>2

\* It is retired and recorded.
LEMMA ResolveRetireBooks ==
    ASSUME IInv, IInv', Books, ResolveRetire
    PROVE  Books'
<1> DEFINE c == cmd.id
           o == [mem[c] EXCEPT !.st = "rejected"]
           d == [disk[c] EXCEPT !.st = "rejected", !.no = disk[c].no]
<1> /\ c \in Ids /\ disk[c].st \in {"pending_submit", "unknown"}
    /\ disk[c] \in OrderType /\ mem[c] \in OrderType
    /\ disk[c].no = NoNo /\ disk[c].filled = 0 /\ mem[c].no = NoNo
  BY RetireOrder
<1>1. /\ pc = "resolve" /\ pc' = "resolved" /\ UNCHANGED <<rows, snap>>
      /\ mem' = [mem EXCEPT ![c] = o] /\ disk' = [disk EXCEPT ![c] = d]
      /\ corrupt' = (corrupt \/ disk[c].st = "none")
  BY Zenon DEF ResolveRetire, ResolveUnknown, AppendOrderEvent, brokerVars, loopVars
<1>2. /\ o.st = "rejected" /\ o.no = NoNo
      /\ d.st = "rejected" /\ d.no = NoNo /\ d.filled = disk[c].filled /\ d.side = disk[c].side
      /\ d.qty = disk[c].qty /\ d.qty \in Nat
  BY Zenon DEF OrderType
<1> HIDE DEF c, o, d
<1>3. Recorded(d) /\ Terms(o)
  BY <1>2 DEF Recorded, Terms
<1>4. BooksStep(c, o, d)
  BY Zenon, <1>1, <1>2, <1>3 DEF BooksStep
<1>5. ~corrupt'
  <2>1. ~corrupt /\ ~(disk[c].st = "none")
    BY DEF Books
  <2> QED
    BY <1>1, <2>1, Zenon
<1> QED
  BY Zenon, <1>4, <1>5, UpdateBooks

\* The order that a fill is applied to, before and after.
Traded(c) ==
    /\ pc = "apply" /\ c \in 1..seq /\ c \in Ids
    /\ mem[c] \in OrderType /\ disk[c] \in OrderType /\ Seen(c) \in RowType
    /\ mem[c].no # NoNo /\ disk[c].st # "none" /\ Open(mem[c]) /\ Seen(c).owner # Nobody
    /\ disk[c].filled = mem[c].filled /\ disk[c].side = mem[c].side /\ disk[c].qty = mem[c].qty
    /\ mem[c].filled < Seen(c).filled /\ Seen(c).filled <= mem[c].qty
    /\ pos' = pos + Signed(mem[c].side, Delta(c))
    /\ AppendFill(c, Delta(c), Seen(c).filled)
    /\ mem' = [mem EXCEPT ![c].filled = Seen(c).filled]
    /\ cur' = c

\* ApplyFill picks such an order.
LEMMA ApplyFillTrades ==
    ASSUME IInv, Books, ApplyFill
    PROVE  \E c \in Ids : Traded(c)
<1>1. PICK c \in Applicable :
        /\ ~Violates(c) /\ Delta(c) > 0
        /\ pos' = pos + Signed(mem[c].side, Delta(c))
        /\ AppendFill(c, Delta(c), Seen(c).filled)
        /\ mem' = [mem EXCEPT ![c].filled = Seen(c).filled]
        /\ cur' = c
  BY Zenon DEF ApplyFill
<1> pc = "apply"
  BY Zenon DEF ApplyFill
<1> /\ c \in 1..seq /\ c \in Ids /\ mem[c] \in OrderType /\ disk[c] \in OrderType
    /\ mem[c].no # NoNo /\ disk[c].st # "none" /\ Seen(c) \in RowType
  BY Zenon, ApplicableOrder
<1>2. Open(mem[c]) /\ Seen(c).owner # Nobody
  BY Zenon DEF Applicable, News
<1>3. disk[c].filled = mem[c].filled /\ disk[c].side = mem[c].side /\ disk[c].qty = mem[c].qty
  BY Zenon, Agree
<1>4. mem[c].filled < Seen(c).filled /\ Seen(c).filled <= mem[c].qty
  BY <1>1 DEF Delta, Violates, OrderType, RowType
<1> QED
  BY Zenon, <1>1, <1>2, <1>3, <1>4 DEF Traded

\* A fill reaches the ledger, the journal and the order, each by the same amount.
LEMMA ApplyFillBooks ==
    ASSUME IInv, IInv', Books, ApplyFill
    PROVE  Books'
<1> PICK c \in Ids : Traded(c)
  BY Zenon, ApplyFillTrades
<1> DEFINE f == Seen(c).filled
           o == [mem[c] EXCEPT !.filled = f]
           d == [disk[c] EXCEPT !.filled = f]
<1> /\ mem[c] \in OrderType /\ disk[c] \in OrderType /\ Seen(c) \in RowType
    /\ mem[c].no # NoNo /\ disk[c].st # "none" /\ Open(mem[c]) /\ Seen(c).owner # Nobody
    /\ disk[c].filled = mem[c].filled /\ disk[c].side = mem[c].side /\ disk[c].qty = mem[c].qty
    /\ mem[c].filled < f /\ f <= mem[c].qty
  BY DEF Traded
<1> f \in Nat /\ mem[c].filled \in Nat /\ mem[c].qty \in Nat /\ Delta(c) = f - mem[c].filled
  BY Zenon DEF RowType, OrderType, Delta
<1>1. /\ pc = "apply" /\ pc' = "status" /\ UNCHANGED <<rows, snap>> /\ cur' = c
      /\ mem' = [mem EXCEPT ![c] = o] /\ disk' = [disk EXCEPT ![c] = d]
  BY Zenon DEF Traded, ApplyFill, AppendFill, brokerVars
<1>2. corrupt' = (\/ corrupt
                  \/ disk[c].st = "none"
                  \/ ~(disk[c].filled < f /\ f <= disk[c].qty)
                  \/ Delta(c) # f - disk[c].filled)
  BY Zenon DEF Traded, AppendFill
<1> /\ o.st = mem[c].st /\ o.no = mem[c].no /\ o.filled = f /\ o.side = mem[c].side /\ o.qty = mem[c].qty
    /\ d.st = disk[c].st /\ d.no = disk[c].no /\ d.filled = f /\ d.side = disk[c].side /\ d.qty = disk[c].qty
  BY DEF OrderType
<1>3. snap[o.no] = Seen(c)
  BY DEF Seen
<1> HIDE DEF o, d
<1>4. disk[c].no = mem[c].no /\ Recorded(disk[c]) /\ Terms(mem[c]) /\ (mem[c].st = "pending_submit" => mem[c].no = NoNo)
  BY Zenon, <1>1, Agree DEF Books, Running
<1>5. Recorded(d) /\ Terms(o)
  <2>1. d.filled <= d.qty /\ d.st # "none" /\ d.no # NoNo /\ d.filled > 0
    BY <1>4
  <2>2. Terms(d) /\ Terms(o)
    BY Zenon, <1>4 DEF Recorded, Terms
  <2> QED
    BY Zenon, <2>1, <2>2 DEF Recorded
<1>6. BooksStep(c, o, d)
  <2>1. Open(o) /\ o.filled > 0 /\ snap[o.no].owner # Nobody /\ o.filled = snap[o.no].filled
    BY <1>3 DEF Open
  <2>2. d.st # "none" /\ (o.st = "pending_submit" => o.no = NoNo)
    BY Zenon, <1>4
  <2> QED
    BY Zenon, <1>1, <1>5, <2>1, <2>2 DEF BooksStep
<1>7. ~corrupt'
  <2>1. ~corrupt
    BY Zenon DEF Books
  <2>2. ~(disk[c].st = "none") /\ disk[c].filled < f /\ f <= disk[c].qty /\ ~(Delta(c) # f - disk[c].filled)
    OBVIOUS
  <2> QED
    BY <1>2, <2>1, <2>2, Zenon
<1> QED
  BY Zenon, <1>6, <1>7, UpdateBooks

-----------------------------------------------------------------------------
\* Every step keeps the books.
LEMMA NextBooks == IInv /\ Books /\ [Next]_vars => Books'
<1> SUFFICES ASSUME IInv, Books, [Next]_vars PROVE Books'
  OBVIOUS
<1> IInv'
  BY NextInv
<1>1. CASE Ends
  BY <1>1, EndsBooks
<1>2. CASE Pauses \/ Same \/ BrokerStep
  BY <1>2, QuietBooks
<1>3. CASE Acts
  <2>1. CASE ApplyNoFill
    <3>1. PICK c \in Ids : Settling(c) /\ SetStatus(c)
      BY Zenon, <2>1, ApplyNoFillSettles
    <3> QED
      BY <3>1, SetStatusBooks
  <2>2. CASE ApplyStatus
    <3>1. cur \in Ids /\ Settling(cur) /\ SetStatus(cur)
      BY <2>2, ApplyStatusSettles
    <3> QED
      BY <3>1, SetStatusBooks
  <2>3. CASE (\E c \in Commands : Assemble(c)) \/ SessionStart
    BY Zenon, <2>3, AssembleBooks, SessionStartBooks
  <2>4. CASE \E intent \in Intents, m \in Market : SubmitRiskReject(intent, m) \/ SubmitIntent(intent, m)
    BY <2>4, SubmitBooks
  <2>5. CASE PostAccepted \/ PostRejected \/ PostUnknown \/ JournalResult
    BY Zenon, <2>5, PostBooks, JournalResultBooks
  <2>6. CASE Fetch \/ Adopt \/ ApplyFill \/ ResolveRetire
    BY <2>6, FetchBooks, AdoptBooks, ApplyFillBooks, ResolveRetireBooks
  <2>7. CASE AdoptDone \/ ApplyDone \/ \E c \in Ids : pc \in {"ready", "await"} /\ PostCancel(c, "confirm")
    BY <2>7, LoopBooks
  <2> QED
    BY <1>3, <2>1, <2>2, <2>3, <2>4, <2>5, <2>6, <2>7 DEF Acts, Submits, Manages, Cancels
<1> QED
  BY <1>1, <1>2, <1>3, Steps

\* The books hold in every reachable state.
LEMMA BooksHold == Spec => [](IInv /\ Books)
<1>1. Init => IInv /\ Books
  BY InitInv, InitBooks
<1>2. IInv /\ Books /\ [Next]_vars => (IInv /\ Books)'
  BY NextInv, NextBooks
<1> QED
  BY <1>1, <1>2, PTL DEF Spec
=============================================================================
