---------------------------- MODULE OrderProofs -----------------------------
(***************************************************************************)
(* Proofs about the order day of OrderCli, for every number of orders,     *)
(* broker numbers, crashes and foreign orders: the type invariant, that a  *)
(* crash at any moment restores exactly what was in memory, and that no    *)
(* two orders ever share a broker number.                                  *)
(***************************************************************************)
EXTENDS OrderReconcileProofs, TLAPS

\* The status of an order that has a number is set and recorded.
LEMMA SetStatusInv ==
    ASSUME IInv, NEW c \in 1..seq, pc \in {"apply", "status"}, mem[c].no # NoNo, SetStatus(c), Stay
    PROVE  IInv'
<1> DEFINE st == Derived(c)
           o == [mem[c] EXCEPT !.st = st]
           d == [disk[c] EXCEPT !.st = st]
<1>1. st \in {"accepted", "partially_filled", "filled", "cancelled", "rejected"}
  BY DerivedStatus DEF Derived
<1> HIDE DEF st
<1> pc' = "apply" /\ UNCHANGED <<brokerVars, seq, snap, ret, known, pos, blocked>> /\ ret # "none"
  BY DEF SetStatus, ledgerVars, IInv, Control, Looping
<1> c \in Ids /\ c \in Int /\ c >= 1 /\ c <= MaxOrders
  BY OmsAssumption DEF IInv, TypeOK, CountsTyped, Ids
<1> mem[c] \in OrderType /\ disk[c] \in OrderType /\ disk[c].st # "none"
  BY DEF IInv, TypeOK, OrdersTyped, Blank
<1>2. o \in OrderType /\ d \in OrderType /\ o.no = mem[c].no /\ d.no = disk[c].no /\ d.st = st
  BY <1>1 DEF OrderType, OrderStatus
<1>3. Recovered(disk[c]) = Recovered(mem[c]) /\ disk[c].no = mem[c].no
  BY Agree
<1>4. Recovered(d) = Recovered(o)
  <2>1. disk[c].filled = mem[c].filled /\ disk[c].side = mem[c].side /\ disk[c].qty = mem[c].qty
    BY Agree
  <2>2. d = o
    BY <1>3, <2>1 DEF OrderType
  <2> QED
    BY <2>2
<1>5. mem' = [mem EXCEPT ![c] = o] /\ disk' = [disk EXCEPT ![c] = d] /\ dseq' = dseq /\ cur' = c + 1
  BY Zenon DEF SetStatus, AppendStatus, st
<1>6. CountsTyped'
  BY <1>5, OmsAssumption DEF IInv, TypeOK, CountsTyped, SetStatus, AppendStatus, brokerVars
<1>7. FlagsTyped'
  BY DEF IInv, TypeOK, FlagsTyped, SetStatus, AppendStatus
<1>8. cur' >= 1 /\ d.st # "none"
  BY <1>1, <1>2, <1>5
<1> HIDE DEF o, d
<1>9. ReconcileStep(c, o, d)
  BY <1>2, <1>3, <1>4, <1>5, <1>8 DEF ReconcileStep
<1> QED
  BY <1>6, <1>7, <1>9, ReconcileStepInv

\* An unknown order without a number is retired.
LEMMA ResolveRetireInv ==
    ASSUME IInv, ResolveRetire
    PROVE  IInv'
<1> DEFINE c == cmd.id
           o == [mem[c] EXCEPT !.st = "rejected"]
           d == [disk[c] EXCEPT !.st = "rejected", !.no = disk[c].no]
<1> /\ pc = "resolve" /\ pc' = "resolved" /\ Stay
    /\ UNCHANGED <<brokerVars, seq, snap, ret, known, cur, pos, blocked>>
    /\ mem[c].st = "unknown" /\ mem[c].no = NoNo
  BY DEF ResolveRetire, ResolveUnknown, ledgerVars, loopVars
<1> c \in Ids /\ c \in Int
  BY DEF IInv, Control, Ids
<1> mem[c] \in OrderType /\ disk[c] \in OrderType /\ disk[c].st # "none"
  BY Zenon DEF IInv, TypeOK, OrdersTyped, RecoveryExact
<1>1. c \in 1..seq
  BY OmsAssumption DEF IInv, TypeOK, CountsTyped, Control, Blank, Ids
<1>2. o \in OrderType /\ d \in OrderType /\ o.no = mem[c].no /\ d.no = disk[c].no /\ d.st = "rejected"
  BY Zenon DEF OrderType, OrderStatus
<1>3. /\ disk[c].no = mem[c].no /\ disk[c].filled = mem[c].filled
      /\ disk[c].side = mem[c].side /\ disk[c].qty = mem[c].qty
  BY Agree
<1>4. d = o
  BY Zenon, <1>3 DEF OrderType
<1>5. mem' = [mem EXCEPT ![c] = o] /\ disk' = [disk EXCEPT ![c] = d] /\ dseq' = dseq
  BY Zenon DEF ResolveRetire, ResolveUnknown, AppendOrderEvent
<1>6. CountsTyped'
  BY Zenon DEF IInv, TypeOK, CountsTyped, ResolveRetire, ResolveUnknown, AppendOrderEvent, brokerVars
<1>7. FlagsTyped'
  BY Zenon DEF IInv, TypeOK, FlagsTyped, ResolveRetire, ResolveUnknown, AppendOrderEvent
<1> HIDE DEF o, d
<1>8. ReconcileStep(c, o, d)
  BY <1>2, <1>3, <1>4, <1>5 DEF ReconcileStep
<1> QED
  BY <1>1, <1>6, <1>7, <1>8, ReconcileStepInv

\* The broker's side of a step: rows stay listed, and everything has its type.
BrokerMoves ==
    /\ rows' \in [Nos -> RowType] /\ WireTyped' /\ held' \in Int
    /\ \A n \in Nos : Listed(n) => Listed(n)'

\* Closing a row leaves it listed.
LEMMA CloseRows ==
    ASSUME RowsTyped, NEW n \in Nos, NEW how \in {"cancelled", "rejected"}, CloseRow(n, how)
    PROVE  rows' \in [Nos -> RowType] /\ \A k \in Nos : Listed(k) => Listed(k)'
<1>1. rows \in [Nos -> RowType] /\ rows[n] \in RowType
  BY DEF RowsTyped
<1>2. [rows[n] EXCEPT !.end = how] \in RowType /\ [rows[n] EXCEPT !.end = how].owner = rows[n].owner
  BY <1>1 DEF RowType
<1> QED
  BY <1>1, <1>2 DEF CloseRow, Listed

\* A step of the broker or the network alone.
LEMMA BrokerMovesInv ==
    ASSUME IInv, BrokerMoves, UNCHANGED <<mem, seq, ledgerVars, pc, loopVars, diskVars, cliVars>>
    PROVE  IInv'
<1> USE DEF ledgerVars, loopVars, diskVars, cliVars, BrokerMoves
<1>1. RowsTyped' /\ OrdersTyped' /\ WireTyped' /\ FlagsTyped'
  BY DEF IInv, TypeOK, RowsTyped, OrdersTyped, FlagsTyped
<1>2. CountsTyped' /\ LabelsTyped'
  BY DEF IInv, TypeOK, CountsTyped, LabelsTyped
<1>3. Control' /\ Blank' /\ UniqueNumbers' /\ RecoveryExact'
  BY Zenon DEF IInv, Control, Looping, Blank, UniqueNumbers, DistinctNumbers, RecoveryExact, restore_session
<1>4. \A x \in Ids : (mem[x].no # NoNo => mem[x].no \in Nos) /\ (disk[x].no # NoNo => disk[x].no \in Nos)
  BY DEF IInv, TypeOK, OrdersTyped, OrderType
<1>5. Listing'
  BY <1>4 DEF IInv, Listing
<1> QED
  BY <1>1, <1>2, <1>3, <1>5 DEF IInv, TypeOK

\* Each step of the broker and the network keeps the invariant.
LEMMA BrokerStepInv == ASSUME IInv, BrokerStep PROVE IInv'
<1> /\ RowsTyped /\ WireTyped /\ held \in Int /\ dseq \in Nat
    /\ UNCHANGED <<mem, seq, ledgerVars, pc, loopVars, diskVars, cliVars>>
  BY DEF IInv, TypeOK, CountsTyped, BrokerStep
<1>1. CASE BrokerFill
  <2>1. PICK n \in Nos : /\ rows' = [rows EXCEPT ![n].filled = @ + 1]
                         /\ held' = held + Signed(rows[n].side, 1)
                         /\ UNCHANGED <<wire, wireCancel>>
    BY Zenon, <1>1 DEF BrokerFill
  <2>2. rows \in [Nos -> RowType] /\ rows[n] \in RowType
    BY DEF RowsTyped
  <2>3. /\ [rows[n] EXCEPT !.filled = rows[n].filled + 1] \in RowType
        /\ [rows[n] EXCEPT !.filled = rows[n].filled + 1].owner = rows[n].owner
    BY <2>2 DEF RowType
  <2>4. rows' \in [Nos -> RowType] /\ \A k \in Nos : Listed(k) => Listed(k)'
    BY <2>1, <2>2, <2>3 DEF Listed
  <2>5. held' \in Int
    BY <2>1 DEF Signed
  <2>6. WireTyped'
    BY <2>1 DEF WireTyped
  <2> QED
    BY <2>4, <2>5, <2>6, BrokerMovesInv DEF BrokerMoves
<1>2. CASE BrokerReject
  <2>1. PICK n \in Nos : CloseRow(n, "rejected") /\ UNCHANGED <<wire, wireCancel, held>>
    BY <1>2 DEF BrokerReject
  <2>2. WireTyped' /\ held' \in Int
    BY <2>1 DEF WireTyped
  <2> QED
    BY <2>1, <2>2, CloseRows, BrokerMovesInv DEF BrokerMoves
<1>3. CASE LateOrder(dseq)
  <2>1. PICK req \in wire, n \in Nos :
          Land(n, req.id, req, dseq) /\ wire' = wire \ {req} /\ UNCHANGED <<wireCancel, held>>
    BY <1>3 DEF LateOrder
  <2>2. req.id \in Ids \cup {Foreign} /\ req.side \in Side /\ req.qty \in Nat /\ WireTyped' /\ held' \in Int
    BY <2>1 DEF WireTyped
  <2>3. rows' \in [Nos -> RowType] /\ \A k \in Nos : Listed(k) => Listed(k)'
    BY <2>1, <2>2, LandRows
  <2> QED
    BY <2>2, <2>3, BrokerMovesInv DEF BrokerMoves
<1>4. CASE LateCancel
  <2>1. PICK n \in wireCancel :
          CloseRow(n, "cancelled") /\ wireCancel' = wireCancel \ {n} /\ UNCHANGED <<wire, held>>
    BY <1>4 DEF LateCancel
  <2>2. n \in Nos /\ WireTyped' /\ held' \in Int
    BY <2>1 DEF WireTyped
  <2>3. rows' \in [Nos -> RowType] /\ \A k \in Nos : Listed(k) => Listed(k)'
    BY <2>1, <2>2, CloseRows
  <2> QED
    BY <2>2, <2>3, BrokerMovesInv DEF BrokerMoves
<1>5. CASE WireDrop
  <2>1. WireTyped' /\ held' \in Int /\ rows' = rows
    BY <1>5 DEF WireDrop, WireTyped
  <2>2. rows' \in [Nos -> RowType] /\ \A k \in Nos : Listed(k) => Listed(k)'
    BY <2>1 DEF RowsTyped, Listed
  <2> QED
    BY <2>1, <2>2, BrokerMovesInv DEF BrokerMoves
<1>6. CASE ForeignOrder(dseq)
  <2>1. PICK n \in Nos, intent \in Intents : Land(n, Foreign, intent, dseq)
    BY <1>6 DEF ForeignOrder
  <2>2. intent.side \in Side /\ intent.qty \in Nat
    BY BrokerAssumption DEF Side
  <2>3. WireTyped' /\ held' \in Int
    BY <1>6 DEF ForeignOrder, WireTyped
  <2>4. rows' \in [Nos -> RowType] /\ \A k \in Nos : Listed(k) => Listed(k)'
    BY <2>1, <2>2, LandRows
  <2> QED
    BY <2>3, <2>4, BrokerMovesInv DEF BrokerMoves
<1> QED
  BY <1>1, <1>2, <1>3, <1>4, <1>5, <1>6 DEF BrokerStep

\* A cancel request changes nothing of the order; reconcile() follows.
LEMMA PostCancelInv ==
    ASSUME IInv, NEW c \in Ids, pc \notin {"down", "result"}, PostCancel(c, "confirm"), Stay
    PROVE  IInv'
<1> /\ RowsTyped /\ WireTyped /\ held \in Int /\ mem[c].no \in Nos
    /\ UNCHANGED <<wire, held, mem, seq, ledgerVars, snap, cur, known, diskVars>>
    /\ pc' = "fetch" /\ ret' = "confirm"
  BY DEF IInv, TypeOK, OrdersTyped, OrderType, CountsTyped, PostCancel
<1>1. rows' \in [Nos -> RowType] /\ \A k \in Nos : Listed(k) => Listed(k)'
  <2>1. CASE CloseRow(mem[c].no, "cancelled")
    BY <2>1, CloseRows
  <2>2. CASE UNCHANGED rows
    BY Zenon, <2>2 DEF RowsTyped, Listed
  <2> QED
    BY <2>1, <2>2 DEF PostCancel
<1>2. WireTyped'
  BY DEF PostCancel, WireTyped
<1>3. RowsTyped' /\ OrdersTyped' /\ FlagsTyped'
  BY <1>1 DEF IInv, TypeOK, RowsTyped, OrdersTyped, FlagsTyped, ledgerVars, diskVars
<1>4. CountsTyped' /\ LabelsTyped'
  BY DEF IInv, TypeOK, CountsTyped, LabelsTyped, Labels, Returns, ledgerVars, diskVars, Stay, cliVars
<1>5. Control' /\ Blank' /\ UniqueNumbers' /\ RecoveryExact'
  BY Zenon DEF IInv, Control, Looping, Blank, UniqueNumbers, DistinctNumbers, RecoveryExact, restore_session,
     diskVars, Stay, cliVars
<1>6. \A x \in Ids : (mem[x].no # NoNo => mem[x].no \in Nos) /\ (disk[x].no # NoNo => disk[x].no \in Nos)
  BY DEF IInv, TypeOK, OrdersTyped, OrderType
<1>7. Listing'
  BY <1>1, <1>6 DEF IInv, Listing, diskVars
<1> QED
  BY Zenon, <1>2, <1>3, <1>4, <1>5, <1>7 DEF IInv, TypeOK

\* Restoring an order twice is restoring it once.
LEMMA RecoveredOrder ==
    ASSUME NEW order \in OrderType
    PROVE  /\ Recovered(order) \in OrderType
           /\ Recovered(order).no = order.no
           /\ order.st = "none" => Recovered(order).st = "none"
           /\ Recovered(Recovered(order)) = Recovered(order)
  BY Zenon DEF Recovered, RestoreStatus, OrderType, OrderStatus

\* A new process holds what the journal says.
LEMMA AssembleInv ==
    ASSUME IInv, NEW c \in Commands, Assemble(c)
    PROVE  IInv'
<1> /\ pc = "down" /\ pc' \in {"session_start", "parity"} /\ ret = "none" /\ ret' = ret
    /\ UNCHANGED <<disk, dseq, rows, snap, cur, known>> /\ seq' = dseq /\ cmd' = c
  BY DEF Assemble, IInv, Control, brokerVars, diskVars, loopVars
<1> \A x \in Ids : disk[x] \in OrderType /\ mem'[x] = Recovered(disk[x])
  BY DEF Assemble, IInv, TypeOK, OrdersTyped, restore_session, Recovered
<1>1. OrdersTyped'
  <2>1. mem' = [x \in Ids |-> mem'[x]]
    BY Zenon DEF Assemble, restore_session
  <2>2. \A x \in Ids : mem'[x] \in OrderType
    BY Zenon, RecoveredOrder
  <2> QED
    BY <2>1, <2>2 DEF IInv, TypeOK, OrdersTyped
<1>2. \A x \in Ids : mem'[x].no = disk[x].no /\ (disk[x].st = "none" => mem'[x].st = "none")
  BY Zenon, RecoveredOrder
<1>3. RowsTyped' /\ WireTyped' /\ FlagsTyped'
  BY Zenon DEF Assemble, IInv, TypeOK, RowsTyped, WireTyped, FlagsTyped, brokerVars, diskVars, loopVars
<1>4. CountsTyped'
  BY Zenon DEF Assemble, IInv, TypeOK, CountsTyped, brokerVars, diskVars, loopVars
<1>5. c \in CmdType /\ (c.op \in {"cancel", "resolve"} => c.id \in Ids)
  BY OmsAssumption DEF Commands, CmdType, Ids
<1>6. LabelsTyped' /\ Control'
  BY <1>5 DEF IInv, TypeOK, LabelsTyped, Labels, Returns, Control, Looping
<1>7. Blank' /\ UniqueNumbers'
  <2>1. Blank'
    BY Zenon, <1>2 DEF IInv, Blank
  <2>2. DistinctNumbers(mem)'
    BY <1>2 DEF IInv, UniqueNumbers, DistinctNumbers
  <2>3. DistinctNumbers(disk)'
    BY Zenon DEF IInv, UniqueNumbers, DistinctNumbers
  <2> QED
    BY Zenon, <2>1, <2>2, <2>3 DEF UniqueNumbers
<1>8. Listing'
  BY <1>2 DEF IInv, Listing, Listed
<1>9. RecoveryExact'
  <2>1. \A x \in Ids : restore_session'[x] = Recovered(disk[x])
    BY Zenon DEF restore_session, Recovered
  <2>2. \A x \in Ids : restore_session'[x] = Recovered(mem'[x])
    BY <2>1, RecoveredOrder
  <2> QED
    BY <1>2, <2>2 DEF RecoveryExact
<1> QED
  BY Zenon, <1>1, <1>3, <1>4, <1>6, <1>7, <1>8, <1>9 DEF IInv, TypeOK

\* A refused assembly changes only the exit code.
LEMMA SameInv == IInv /\ Same => IInv'
<1> SUFFICES ASSUME IInv, Same PROVE IInv'
  OBVIOUS
<1> USE DEF Same, brokerVars, ledgerVars, loopVars, diskVars
<1>1. TypeOK'
  BY Zenon DEF IInv, TypeOK, RowsTyped, OrdersTyped, WireTyped, CountsTyped, FlagsTyped, LabelsTyped
<1>2. Control' /\ Blank' /\ UniqueNumbers'
  BY DEF IInv, Control, Looping, Blank, UniqueNumbers, DistinctNumbers
<1>3. Listing' /\ RecoveryExact'
  BY Zenon DEF IInv, Listing, Listed, RecoveryExact, restore_session
<1> QED
  BY <1>1, <1>2, <1>3 DEF IInv

\* The session starts: the opening holdings are recorded once.
LEMMA SessionStartInv ==
    ASSUME IInv, SessionStart
    PROVE  IInv'
<1> USE DEF SessionStart, AppendSessionStart, brokerVars, ledgerVars, loopVars, Stay, cliVars
<1>1. RowsTyped' /\ OrdersTyped' /\ WireTyped' /\ FlagsTyped'
  BY Zenon DEF IInv, TypeOK, RowsTyped, OrdersTyped, WireTyped, FlagsTyped
<1>2. CountsTyped' /\ LabelsTyped'
  BY Zenon DEF IInv, TypeOK, CountsTyped, LabelsTyped, Labels
<1>3. Control' /\ Blank' /\ UniqueNumbers'
  BY DEF IInv, Control, Looping, Blank, UniqueNumbers, DistinctNumbers
<1>4. Listing' /\ RecoveryExact'
  BY DEF IInv, Listing, Listed, RecoveryExact, restore_session
<1> QED
  BY Zenon, <1>1, <1>2, <1>3, <1>4 DEF IInv, TypeOK

\* Every step preserves the invariant.
LEMMA NextInv == IInv /\ [Next]_vars => IInv'
<1> SUFFICES ASSUME IInv, [Next]_vars PROVE IInv'
  OBVIOUS
<1>1. CASE Ends
  BY <1>1, ForgetInv DEF Ends
<1>2. CASE Pauses \/ Same \/ BrokerStep
  BY <1>2, QuietInv, SameInv, BrokerStepInv DEF Pauses
<1>3. CASE (\E c \in Commands : Assemble(c)) \/ SessionStart \/ ResolveRetire
  BY <1>3, AssembleInv, SessionStartInv, ResolveRetireInv
<1>4. CASE \E intent \in Intents, m \in Market : Submits(intent, m)
  BY <1>4, SubmitRiskRejectInv, SubmitIntentInv DEF Submits
<1>5. CASE Stay /\ Manages
  <2>1. CASE PostAccepted \/ PostRejected \/ PostUnknown
    BY Zenon, <1>5, <2>1, PostInv
  <2>2. CASE ApplyNoFill
    <3>1. PICK c \in Applicable : SetStatus(c) /\ pc = "apply"
      BY <2>2 DEF ApplyNoFill
    <3> QED
      BY <1>5, <3>1, ApplicableOrder, SetStatusInv
  <2>3. CASE ApplyStatus
    <3>1. pc = "status" /\ SetStatus(cur) /\ cur \in 1..seq /\ mem[cur].no # NoNo
      BY <2>3 DEF ApplyStatus, IInv, Control
    <3> QED
      BY Zenon, <1>5, <3>1, SetStatusInv
  <2>4. CASE JournalResult \/ Fetch \/ Adopt \/ AdoptDone \/ ApplyFill \/ ApplyDone
    BY <1>5, <2>4, JournalResultInv, FetchInv, AdoptInv, LoopEndInv, ApplyFillInv
  <2> QED
    BY <1>5, <2>1, <2>2, <2>3, <2>4 DEF Manages
<1>6. CASE Stay /\ Cancels
  BY <1>6, PostCancelInv DEF Cancels
<1> QED
  BY <1>1, <1>2, <1>3, <1>4, <1>5, <1>6, Steps DEF Acts

\* The invariant holds in every reachable state.
LEMMA Inductive == Spec => []IInv
  BY InitInv, NextInv, PTL DEF Spec

-----------------------------------------------------------------------------
\* The orders, rows, counters and program counter of the order day keep their types.
THEOREM TypeCorrect == Spec => []TypeOK
<1>1. IInv => TypeOK
  BY DEF IInv
<1> QED
  BY <1>1, Inductive, PTL

\* For any number of orders, processes, crashes and broker answers, a crash restores
\* exactly the orders in memory: restore_session (recovery.py:93-169) undoes nothing that
\* submit(), reconcile() and resolve_unknown() did, and invents nothing.
THEOREM CrashRestores == Spec => []RecoveryExact
<1>1. IInv => RecoveryExact
  BY DEF IInv
<1> QED
  BY <1>1, Inductive, PTL

\* No two orders ever share a broker number, in memory or in the journal: adoption in
\* reconcile() (oms.py:285-331) cannot give one broker order to two clients.
THEOREM NumbersUnique == Spec => []UniqueNumbers
<1>1. IInv => UniqueNumbers
  BY DEF IInv
<1> QED
  BY <1>1, Inductive, PTL
=============================================================================
