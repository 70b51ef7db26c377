---------------------------- MODULE OrderReconcileProofs --------------------
(* The inductive invariant is kept by the record of an answer and by the
   loops of reconcile(). *)
EXTENDS OrderInv, TLAPS

\* The result is recorded: memory and journal agree again.
LEMMA JournalResultInv ==
    ASSUME IInv, JournalResult, Stay
    PROVE  IInv'
<1> DEFINE o == mem[seq]
           d == [disk[seq] EXCEPT !.st = o.st, !.no = o.no]
<1> /\ seq \in Ids /\ dseq = seq /\ seq \in Int
    /\ mem \in [Ids -> OrderType] /\ disk \in [Ids -> OrderType]
    /\ o.st \in {"accepted", "rejected", "unknown"} /\ disk[seq].st = "pending_submit"
  BY DEF IInv, TypeOK, OrdersTyped, Control, Ids, JournalResult
<1>1. /\ seq' = seq /\ dseq' = seq /\ pc = "result" /\ pc' = "submitted"
      /\ mem' = mem /\ mem' = [mem EXCEPT ![seq] = o]
      /\ disk' = [disk EXCEPT ![seq] = d]
      /\ ret' = ret /\ rows' = rows /\ snap' = snap
  BY Zenon DEF JournalResult, AppendOrderEvent, loopVars, brokerVars
<1> o \in OrderType /\ disk[seq] \in OrderType
  OBVIOUS
<1> d \in OrderType /\ d.st = o.st /\ d.no = o.no
  BY Zenon DEF OrderType
<1>2. Recovered(d) = Recovered(o)
  <2>1. Recovered(disk[seq]) = [o EXCEPT !.st = "unknown", !.no = NoNo]
    BY Zenon, <1>1 DEF IInv, RecoveryExact, restore_session, Recovered
  <2>2. d.filled = o.filled /\ d.side = o.side /\ d.qty = o.qty
    BY Zenon, <2>1 DEF Recovered, OrderType
  <2>3. d = o
    BY Zenon, <2>2 DEF OrderType
  <2> QED
    BY <2>3
<1>3. o.no # NoNo => Listed(o.no) /\ o.no \in Nos /\ \A x \in Ids \ {seq} : mem[x].no # o.no
  BY DEF IInv, Listing, UniqueNumbers, DistinctNumbers, OrderType
<1>4. d.no # NoNo => \A x \in Ids \ {seq} : disk[x].no # d.no
  <2> SUFFICES ASSUME d.no # NoNo, NEW x \in Ids \ {seq}, disk[x].no = d.no PROVE FALSE
    OBVIOUS
  <2>1. disk[x].st # "none" /\ disk[x] \in OrderType /\ mem[x] \in OrderType
    BY DEF IInv, Blank
  <2>2. disk[x].no = mem[x].no
    BY <1>1, <2>1, Agree
  <2> QED
    BY <2>2, <1>3
<1> HIDE DEF o, d
<1>5. Update(seq, o, d)
  <2>1. dseq' \in Int /\ dseq' >= dseq /\ ~(seq > dseq')
    BY <1>1
  <2>2. /\ \A n \in Nos : Listed(n) => Listed(n)'
        /\ \A n \in Nos : snap'[n].owner # Nobody => snap[n].owner # Nobody
    BY <1>1 DEF Listed
  <2>3. o.no # NoNo => rows'[o.no].owner # Nobody
    BY <1>1, <1>3 DEF Listed
  <2>4. d.st # "none"
    OBVIOUS
  <2> QED
    BY Zenon, <1>1, <1>2, <1>3, <1>4, <2>1, <2>2, <2>3, <2>4 DEF Update
<1>6. OrdersTyped' /\ Blank' /\ Listing' /\ RecoveryExact' /\ UniqueNumbers'
  BY <1>5, UpdateInv
<1>7. RowsTyped' /\ WireTyped' /\ FlagsTyped'
  BY DEF IInv, TypeOK, RowsTyped, WireTyped, FlagsTyped, JournalResult, AppendOrderEvent, ledgerVars, loopVars,
     brokerVars
<1>8. CountsTyped'
  BY DEF IInv, TypeOK, CountsTyped, JournalResult, AppendOrderEvent, ledgerVars, loopVars, brokerVars
<1>9. LabelsTyped'
  BY <1>1 DEF IInv, TypeOK, LabelsTyped, Labels, Stay, cliVars
<1>10. Control'
  BY <1>1 DEF IInv, Control, Looping, Stay, cliVars
<1> QED
  BY <1>6, <1>7, <1>8, <1>9, <1>10 DEF IInv, TypeOK

\* A listing that lags has the type of a listing, and lists nothing new.
LEMMA LagRow ==
    ASSUME NEW row \in RowType
    PROVE  Lag(row) \in RowType /\ Lag(row).owner = row.owner
  BY DEF Lag, RowType

\* Fetching takes the listing and the numbers in use.
LEMMA FetchInv ==
    ASSUME IInv, Fetch, Stay
    PROVE  IInv'
<1>1. PICK late \in {Nos, {}} : snap' = [n \in Nos |-> IF n \in late THEN Lag(rows[n]) ELSE rows[n]]
  BY DEF Fetch
<1> rows \in [Nos -> RowType] /\ rows' = rows
  BY DEF IInv, TypeOK, RowsTyped, Fetch, brokerVars
<1>2. \A n \in Nos : snap'[n] \in RowType /\ snap'[n].owner = rows[n].owner
  <2> SUFFICES ASSUME NEW n \in Nos PROVE snap'[n] \in RowType /\ snap'[n].owner = rows[n].owner
    OBVIOUS
  <2>1. rows[n] \in RowType /\ snap'[n] = IF n \in late THEN Lag(rows[n]) ELSE rows[n]
    BY <1>1
  <2> QED
    BY <2>1, LagRow
<1>3. RowsTyped'
  <2>1. snap' = [n \in Nos |-> snap'[n]]
    BY <1>1
  <2> QED
    BY <1>2, <2>1 DEF RowsTyped
<1>4. OrdersTyped' /\ WireTyped' /\ FlagsTyped'
  BY DEF IInv, TypeOK, OrdersTyped, WireTyped, FlagsTyped, Fetch, brokerVars, ledgerVars, diskVars
<1> mem' = mem /\ disk' = disk /\ seq' = seq /\ dseq' = dseq /\ pc = "fetch" /\ pc' = "adopt" /\ ret' = ret
  BY DEF Fetch, diskVars
<1>5. known' = Numbers(mem) /\ \A c \in Ids : mem[c].no # NoNo => mem[c].no \in Nos
  BY DEF Fetch, IInv, TypeOK, OrdersTyped, OrderType
<1>6. CountsTyped'
  BY <1>5, OmsAssumption DEF IInv, TypeOK, CountsTyped, Fetch, brokerVars, ledgerVars, diskVars, Numbers
<1>7. LabelsTyped' /\ Control'
  BY DEF IInv, TypeOK, LabelsTyped, Labels, Control, Looping, Fetch, Stay, cliVars
<1>8. Blank' /\ UniqueNumbers' /\ RecoveryExact'
  BY Zenon DEF IInv, Blank, UniqueNumbers, DistinctNumbers, RecoveryExact, restore_session
<1>9. Listing'
  BY <1>2, <1>5 DEF IInv, Listing, Listed, Numbers
<1> QED
  BY <1>3, <1>4, <1>6, <1>7, <1>8, <1>9 DEF IInv, TypeOK

\* The loops of reconcile() end: their variables are reset.
LEMMA LoopEndInv ==
    ASSUME IInv, AdoptDone \/ ApplyDone, Stay
    PROVE  IInv'
<1> USE DEF AdoptDone, ApplyDone
<1>1. /\ UNCHANGED <<mem, disk, seq, dseq, rows, ret>> /\ pc \in {"adopt", "apply"}
      /\ pc' \in {"apply", ret} /\ pc' \notin {"down", "send", "result", "adopt", "status", "none"}
      /\ pc' = "apply" => cur' = 1
      /\ snap' \in {snap, EmptySnap}
  BY DEF brokerVars, diskVars, IInv, TypeOK, LabelsTyped, Returns, Control, Looping
<1>2. RowsTyped' /\ OrdersTyped'
  BY <1>1, BlankTypes DEF IInv, TypeOK, RowsTyped, OrdersTyped, EmptySnap
<1>3. WireTyped' /\ FlagsTyped'
  BY DEF IInv, TypeOK, WireTyped, FlagsTyped, brokerVars, ledgerVars, diskVars
<1>4. CountsTyped'
  BY OmsAssumption DEF IInv, TypeOK, CountsTyped, brokerVars, ledgerVars, diskVars
<1>5. LabelsTyped' /\ Control'
  BY <1>1 DEF IInv, TypeOK, LabelsTyped, Labels, Returns, Control, Looping, Stay, cliVars
<1>6. Blank' /\ UniqueNumbers' /\ RecoveryExact'
  BY Zenon, <1>1 DEF IInv, Blank, UniqueNumbers, DistinctNumbers, RecoveryExact, restore_session
<1>7. \A n \in Nos : snap'[n].owner # Nobody => snap[n].owner # Nobody
  BY <1>1 DEF EmptySnap, Absent
<1>8. Listing'
  BY Zenon, <1>1, <1>7 DEF IInv, Listing, Listed
<1> QED
  BY <1>2, <1>3, <1>4, <1>5, <1>6, <1>8 DEF IInv, TypeOK

\* reconcile() changes one order, in memory and in the journal, without touching the
\* broker: the order keeps its number or takes one that no order has.
ReconcileStep(c, o, d) ==
    /\ pc \in {"adopt", "apply", "status", "resolve"}
    /\ pc' \in {"adopt", "apply", "status", "resolved"}
    /\ mem' = [mem EXCEPT ![c] = o] /\ disk' = [disk EXCEPT ![c] = d]
    /\ o \in OrderType /\ d \in OrderType
    /\ disk[c].st # "none" /\ d.st # "none" /\ Recovered(d) = Recovered(o) /\ d.no = o.no
    /\ o.no # mem[c].no => Listed(o.no) /\ \A x \in Ids : mem[x].no # o.no
    /\ pc' = "adopt" => pc = "adopt" /\ known' = known \cup {o.no}
    /\ pc' \in {"adopt", "apply", "status"} => ret # "none"
    /\ pc' \in {"adopt", "apply"} => cur' >= 1
    /\ pc' = "status" => cur' = c /\ o.no # NoNo
    /\ UNCHANGED <<brokerVars, seq, dseq, snap, ret>>

\* The invariant after such a step.
LEMMA ReconcileStepInv ==
    ASSUME IInv, NEW c \in 1..seq, NEW o, NEW d, ReconcileStep(c, o, d), Stay,
           CountsTyped', FlagsTyped'
    PROVE  IInv'
<1> USE DEF ReconcileStep
<1> /\ c \in Ids /\ c \in Int /\ dseq = seq /\ dseq \in Int
    /\ mem \in [Ids -> OrderType] /\ disk \in [Ids -> OrderType]
  BY OmsAssumption DEF IInv, TypeOK, OrdersTyped, CountsTyped, Control, Ids
<1>1. o.no # NoNo => Listed(o.no) /\ \A x \in Ids \ {c} : mem[x].no # o.no
  <2>1. CASE o.no = mem[c].no
    BY Zenon, <2>1 DEF IInv, Listing, UniqueNumbers, DistinctNumbers
  <2>2. CASE o.no # mem[c].no
    BY Zenon, <2>2
  <2> QED
    BY Zenon, <2>1, <2>2
<1>2. o.no # NoNo => \A x \in Ids \ {c} : disk[x].no # o.no
  <2> SUFFICES ASSUME o.no # NoNo, NEW x \in Ids \ {c}, disk[x].no = o.no PROVE FALSE
    OBVIOUS
  <2>1. disk[x].st # "none"
    BY Zenon DEF IInv, Blank
  <2>2. disk[x].no = mem[x].no
    BY <2>1, Agree
  <2> QED
    BY Zenon, <1>1, <2>2
<1>3. Update(c, o, d)
  <2>1. dseq' \in Int /\ dseq' >= dseq /\ ~(c > dseq')
    OBVIOUS
  <2>2. /\ \A n \in Nos : Listed(n) => Listed(n)'
        /\ \A n \in Nos : snap'[n].owner # Nobody => snap[n].owner # Nobody
        /\ o.no # NoNo => rows'[o.no].owner # Nobody
    BY Zenon, <1>1 DEF Listed, brokerVars
  <2>3. pc # "down" /\ pc' # "down" /\ pc # "result" /\ pc' # "result"
    OBVIOUS
  <2>4. pc' = "adopt" => pc = "adopt" /\ known \subseteq known' /\ o.no \in known'
    OBVIOUS
  <2> QED
    BY Zenon, <1>1, <1>2, <2>1, <2>2, <2>3, <2>4 DEF Update
<1>4. OrdersTyped' /\ Blank' /\ Listing' /\ RecoveryExact' /\ UniqueNumbers'
  BY Zenon, <1>3, UpdateInv
<1>5. RowsTyped' /\ WireTyped'
  BY Zenon DEF IInv, TypeOK, RowsTyped, WireTyped, brokerVars
<1>6. LabelsTyped'
  BY Zenon DEF IInv, TypeOK, LabelsTyped, Labels, Stay, cliVars
<1>7. mem'[c] = o /\ disk'[c] = d
  OBVIOUS
<1>8. Control'
  BY <1>7 DEF IInv, Control, Looping, Stay, cliVars
<1> QED
  BY Zenon, <1>4, <1>5, <1>6, <1>8 DEF IInv, TypeOK

\* Adopting: the row is nobody's, and the number goes to memory and journal.
LEMMA AdoptInv ==
    ASSUME IInv, Adopt, Stay
    PROVE  IInv'
<1>1. PICK c \in Adoptable : \E n \in Candidates(c) :
         /\ mem' = [mem EXCEPT ![c].no = n] /\ known' = known \cup {n}
         /\ AppendOrderEvent(c, disk[c].st, n)
         /\ cur' = c + 1
  BY Zenon DEF Adopt
<1>2. PICK n \in Candidates(c) :
         /\ mem' = [mem EXCEPT ![c].no = n] /\ known' = known \cup {n}
         /\ AppendOrderEvent(c, disk[c].st, n)
         /\ cur' = c + 1
  BY Zenon, <1>1
<1> DEFINE o == [mem[c] EXCEPT !.no = n]
           d == [disk[c] EXCEPT !.st = disk[c].st, !.no = n]
<1> pc = "adopt" /\ pc' = "adopt" /\ UNCHANGED <<brokerVars, seq, snap, ret, pos, blocked>>
  BY DEF Adopt, ledgerVars
<1> c \in 1..seq /\ c \in Ids /\ mem[c].st = "unknown" /\ c \in Int /\ c >= 1 /\ c <= MaxOrders
  BY <1>1, OmsAssumption DEF Adoptable, IInv, TypeOK, CountsTyped, Control, Ids
<1> n \in Nos /\ n # NoNo /\ snap[n].owner # Nobody /\ n \notin known
  BY <1>2, BrokerAssumption DEF Candidates, Nos, NoNo
<1> mem \in [Ids -> OrderType] /\ disk \in [Ids -> OrderType] /\ mem[c] \in OrderType /\ disk[c] \in OrderType
  BY DEF IInv, TypeOK, OrdersTyped
<1>3. disk[c].st # "none"
  BY DEF IInv, RecoveryExact
<1>4. o \in OrderType /\ d \in OrderType /\ o.no = n /\ d.no = n /\ d.st = disk[c].st
  BY Zenon DEF OrderType
<1>5. Recovered(d) = Recovered(o)
  <2>1. Recovered(disk[c]) = Recovered(mem[c])
    BY Zenon, <1>3, Agree
  <2> QED
    BY Zenon, <2>1 DEF Recovered, OrderType
<1>6. Listed(n) /\ \A x \in Ids : mem[x].no # n
  BY DEF IInv, Listing
<1>7. mem' = [mem EXCEPT ![c] = o] /\ disk' = [disk EXCEPT ![c] = d] /\ dseq' = dseq /\ cur' >= 1
  <2>1. mem' = [mem EXCEPT ![c] = o]
    BY <1>2
  <2>2. disk' = [disk EXCEPT ![c] = d] /\ dseq' = dseq
    BY Zenon, <1>2 DEF AppendOrderEvent
  <2>3. cur' >= 1
    BY <1>2
  <2> QED
    BY <2>1, <2>2, <2>3
<1>8. ret # "none"
  BY DEF IInv, Control, Looping
<1>9. CountsTyped'
  BY <1>2, OmsAssumption DEF IInv, TypeOK, CountsTyped, AppendOrderEvent, brokerVars
<1>10. FlagsTyped'
  BY <1>2 DEF IInv, TypeOK, FlagsTyped, AppendOrderEvent
<1> HIDE DEF o, d
<1>11. ReconcileStep(c, o, d)
  BY Zenon, <1>2, <1>3, <1>4, <1>5, <1>6, <1>7, <1>8 DEF ReconcileStep
<1> QED
  BY <1>9, <1>10, <1>11, ReconcileStepInv

\* The orders reconcile() may change are recorded and have a listed row.
LEMMA ApplicableOrder ==
    ASSUME IInv, pc = "apply", NEW c \in Applicable
    PROVE  /\ c \in 1..seq /\ c \in Ids /\ c \in Int /\ c >= 1 /\ c <= MaxOrders
           /\ mem[c] \in OrderType /\ disk[c] \in OrderType
           /\ mem[c].no # NoNo /\ disk[c].st # "none"
           /\ Seen(c) \in RowType
<1> c \in 1..seq /\ c \in Ids /\ c \in Int /\ c >= 1 /\ c <= MaxOrders
  BY OmsAssumption DEF Applicable, IInv, TypeOK, CountsTyped, Control, Ids
<1> mem[c] \in OrderType /\ disk[c] \in OrderType /\ mem[c].no # NoNo
  BY Zenon DEF IInv, TypeOK, OrdersTyped, Applicable, News
<1>1. disk[c].st # "none"
  BY Zenon DEF IInv, Blank
<1>2. mem[c].no \in Nos
  BY Zenon DEF OrderType
<1>3. Seen(c) \in RowType
  BY <1>2 DEF Seen, IInv, TypeOK, RowsTyped
<1> QED
  BY Zenon, <1>1, <1>3

\* A fill reaches the ledger, the journal and the order.
LEMMA ApplyFillInv ==
    ASSUME IInv, ApplyFill, Stay
    PROVE  IInv'
<1>1. PICK c \in Applicable :
        /\ pos' = pos + Signed(mem[c].side, Delta(c))
        /\ AppendFill(c, Delta(c), Seen(c).filled)
        /\ mem' = [mem EXCEPT ![c].filled = Seen(c).filled]
        /\ cur' = c
  BY Zenon DEF ApplyFill
<1> DEFINE f == Seen(c).filled
           o == [mem[c] EXCEPT !.filled = f]
           d == [disk[c] EXCEPT !.filled = f]
<1> pc = "apply" /\ pc' = "status" /\ UNCHANGED <<brokerVars, seq, snap, ret, known, blocked>>
  BY Zenon DEF ApplyFill
<1> /\ c \in 1..seq /\ c \in Ids /\ c \in Int /\ c >= 1 /\ c <= MaxOrders
    /\ mem[c] \in OrderType /\ disk[c] \in OrderType
    /\ mem[c].no # NoNo /\ disk[c].st # "none"
    /\ Seen(c) \in RowType
  BY Zenon, ApplicableOrder
<1>2. f \in Nat
  BY DEF RowType
<1> HIDE DEF f
<1>3. o \in OrderType /\ d \in OrderType /\ o.no = mem[c].no /\ d.no = disk[c].no /\ d.st = disk[c].st
  BY Zenon, <1>2 DEF OrderType
<1>4. Recovered(disk[c]) = Recovered(mem[c]) /\ disk[c].no = mem[c].no
  BY Agree
<1>5. Recovered(d) = Recovered(o)
  BY Zenon, <1>4 DEF Recovered, OrderType
<1>6. mem' = [mem EXCEPT ![c] = o] /\ disk' = [disk EXCEPT ![c] = d] /\ dseq' = dseq /\ cur' = c
  BY Zenon, <1>1 DEF AppendFill, f
<1>7. ret # "none"
  BY Zenon DEF IInv, Control, Looping
<1>8. Delta(c) \in Int
  BY <1>2 DEF Delta, OrderType, f
<1>9. Signed(mem[c].side, Delta(c)) \in Int /\ Signed(disk[c].side, Delta(c)) \in Int
  BY <1>8 DEF Signed
<1>10. pos' \in Int /\ dpos' \in Int
  BY <1>1, <1>9 DEF AppendFill, IInv, TypeOK, CountsTyped
<1>11. CountsTyped'
  BY <1>1, <1>10, OmsAssumption DEF IInv, TypeOK, CountsTyped, AppendFill, brokerVars
<1>12. FlagsTyped'
  BY Zenon, <1>1 DEF IInv, TypeOK, FlagsTyped, AppendFill
<1> HIDE DEF o, d
<1>13. ReconcileStep(c, o, d)
  BY <1>3, <1>4, <1>5, <1>6, <1>7 DEF ReconcileStep
<1> QED
  BY <1>11, <1>12, <1>13, ReconcileStepInv

\* A listed row implies one of the five statuses an answered order can have.
LEMMA DerivedStatus ==
    ASSUME NEW ordered, NEW filled, NEW end
    PROVE  derive_status(ordered, filled, end)
               \in {"accepted", "partially_filled", "filled", "cancelled", "rejected"}
  BY DEF derive_status
=============================================================================
