---------------------------- MODULE OrderInv --------------------------------
(***************************************************************************)
(* The inductive invariant of the order day of OrderCli; the kinds its     *)
(* steps come in, which the proofs about it go through one by one (Steps); *)
(* and that ends, pauses and the first steps of an order keep the          *)
(* invariant: intent, request, outcome.                                    *)
(***************************************************************************)
EXTENDS OrderCli, TLAPS

\* Inside one of the loops of reconcile().
Looping == pc \in {"fetch", "adopt", "apply", "status"}

\* Control facts: where the process stands says what its variables hold.
Control ==
    /\ Looping => ret # "none"
    /\ pc \in {"send", "result", "submitted", "once", "await"} \/ ret \in {"once", "await"}
            => seq \in Ids
    /\ cmd.op \in {"cancel", "resolve"} => cmd.id \in Ids
    /\ pc = "resolve" \/ ret = "resolve" => cmd.op = "resolve"
    /\ pc \in {"adopt", "apply"} => cur >= 1
    /\ IF pc = "down" THEN ret = "none" ELSE seq = dseq
    /\ pc = "send" => mem[seq].st = "pending_submit" /\ mem[seq].no = NoNo
    /\ pc \in {"send", "result"} => disk[seq].st = "pending_submit"
    /\ pc = "result" => mem[seq].st \in {"accepted", "rejected", "unknown"}
    /\ pc = "status" => cur \in 1..seq /\ mem[cur].no # NoNo /\ disk[cur].st # "none"

\* An id without an intent record has no number, and every id above the highest
\* recorded one is without.
Blank ==
    \A c \in Ids :
        /\ c > dseq => disk[c].st = "none"
        /\ disk[c].st = "none" => disk[c].no = NoNo /\ mem[c].no = NoNo

\* Numbers come from rows the broker listed, and rows are never unlisted; while
\* reconcile() adopts, known covers every number in memory.
Listing ==
    /\ \A c \in Ids : mem[c].no # NoNo => Listed(mem[c].no)
    /\ \A c \in Ids : disk[c].no # NoNo => Listed(disk[c].no)
    /\ \A n \in Nos : snap[n].owner # Nobody => Listed(n)
    /\ pc = "adopt" => \A c \in Ids : mem[c].no # NoNo => mem[c].no \in known
    /\ pc = "down" => \A c \in Ids : mem[c].no = NoNo

IInv == TypeOK /\ Control /\ Blank /\ Listing /\ RecoveryExact /\ UniqueNumbers

-----------------------------------------------------------------------------
\* The process ends: by a code, or by a crash.
Ends ==
    /\ pc # "down" /\ Forget /\ torn' \in BOOLEAN
    /\ UNCHANGED <<brokerVars, disk, dseq, dbase, dpos, corrupt>>

\* Steps that only move the program counter: orders, rows and journal stay.
Quiet ==
    /\ UNCHANGED <<brokerVars, mem, seq, pos, snap, cur, known, diskVars>>
    /\ blocked' \in BOOLEAN
    /\ pc \notin {"down", "result"}
    /\ pc' \in Labels \ {"down", "send", "result", "adopt", "apply", "status"}
    /\ ret' \in Returns
    /\ cmd' \in CmdType /\ cmd'.op = cmd.op
    /\ cmd.op \in {"cancel", "resolve"} => cmd' = cmd
    /\ pc' = "resolve" \/ ret' = "resolve" => cmd.op = "resolve"
    /\ pc' \in {"submitted", "once", "await"} \/ ret' \in {"once", "await"} => seq \in Ids
    /\ pc' = "fetch" => ret' # "none"

\* The handlers only move on, or nothing but the last exit code changes.
Pauses == Quiet /\ pc # "session_start"
Same   == UNCHANGED <<brokerVars, mem, seq, ledgerVars, pc, loopVars, diskVars, cmd>>

\* The gate's decision, the other steps of the order manager, and the cancel request.
Submits(intent, m) ==
    /\ SubmitRiskReject(intent, m) \/ SubmitIntent(intent, m)
    /\ cmd.op = "order" /\ cmd' = [cmd EXCEPT !.id = seq']
Manages ==
    \/ PostAccepted \/ PostRejected \/ PostUnknown \/ JournalResult
    \/ Fetch \/ Adopt \/ AdoptDone \/ ApplyFill \/ ApplyNoFill \/ ApplyStatus \/ ApplyDone
Cancels == \E c \in Ids : pc \in {"ready", "await"} /\ PostCancel(c, "confirm")

\* What is left when the ends and pauses are set apart: the steps that change orders,
\* journal or listing.
Acts ==
    \/ \E c \in Commands : Assemble(c)
    \/ SessionStart \/ ResolveRetire
    \/ \E intent \in Intents, m \in Market : Submits(intent, m)
    \/ Stay /\ Manages
    \/ Stay /\ Cancels

\* A call of reconcile() is a pause.
LEMMA CallPauses ==
    ASSUME IInv, NEW next \in Returns \ {"none"}, pc \notin {"down", "result", "session_start"},
           Reconcile(next),
           next \in {"once", "await"} => seq \in Ids,
           next = "resolve" => cmd.op = "resolve",
           UNCHANGED <<brokerVars, mem, seq, ledgerVars, diskVars>>, Stay
    PROVE  Pauses
  BY DEF Pauses, Quiet, Reconcile, Labels, Stay, cliVars, ledgerVars, IInv, TypeOK, FlagsTyped, LabelsTyped

\* An exit is an end.
LEMMA ExitEnds ==
    ASSUME IInv, NEW code, pc # "down", Exit(code), UNCHANGED <<brokerVars, diskVars>>
    PROVE  Ends
  BY DEF Exit, Ends, diskVars, IInv, TypeOK, FlagsTyped

\* The assembly's steps after the restore.
LEMMA AssemblySteps ==
    ASSUME IInv, ParityReconcile \/ ParityCheck \/ HoldingsFail
    PROVE  Ends \/ Pauses
<1>1. CASE ParityReconcile /\ \E c \in Ids : Open(mem[c])
  <2>1. /\ pc = "parity" /\ Reconcile("holdings") /\ Stay
        /\ UNCHANGED <<brokerVars, mem, seq, ledgerVars, diskVars>>
    BY <1>1 DEF ParityReconcile
  <2> QED
    BY <2>1, CallPauses DEF Returns
<1>2. CASE ParityReconcile /\ ~\E c \in Ids : Open(mem[c])
  BY <1>2 DEF Pauses, Quiet, ParityReconcile, Labels, Stay, cliVars, ledgerVars, loopVars, IInv, TypeOK,
     FlagsTyped, LabelsTyped, Control
<1>3. CASE ParityCheck
  <2>1. blocked' \in BOOLEAN /\ pc' \in {"session_start", "parity"} /\ pc = "holdings"
    BY Zenon, <1>3 DEF ParityCheck, IInv, TypeOK, FlagsTyped
  <2> QED
    BY <1>3, <2>1 DEF Pauses, Quiet, ParityCheck, Labels, loopVars, IInv, TypeOK, LabelsTyped, Control
<1>4. CASE HoldingsFail
  BY <1>4, ExitEnds DEF HoldingsFail
<1> QED
  BY <1>1, <1>2, <1>3, <1>4

\* submit(), and the handlers that follow it.
LEMMA SubmitSteps ==
    ASSUME IInv, Submit \/ Submitted \/ Once \/ AwaitAgain \/ AwaitOver \/ ConfirmOver
    PROVE  Ends \/ Pauses \/ Acts
<1>1. CASE Submit
  <2>1. CASE SubmitNoQuote
    <3>1. cmd.op = "order" /\ cmd' = [cmd EXCEPT !.id = 0]
      BY <1>1, <2>1 DEF Submit, SubmitNoQuote
    <3>2. cmd' \in CmdType /\ cmd'.op = cmd.op
      BY <3>1, OmsAssumption DEF IInv, TypeOK, LabelsTyped, CmdType
    <3> QED
      BY <2>1, <3>1, <3>2 DEF Pauses, Quiet, SubmitNoQuote, Labels, ledgerVars, loopVars, IInv, TypeOK,
         FlagsTyped, LabelsTyped, Control
  <2>2. CASE ~SubmitNoQuote
    BY <1>1, <2>2 DEF Submit, SubmitRiskReject, SubmitIntent, Submits, Acts
  <2> QED
    BY <2>1, <2>2
<1>2. CASE Submitted
  <2>1. CASE mem[seq].st = "rejected"
    BY <1>2, <2>1, ExitEnds DEF Submitted
  <2>2. CASE mem[seq].st # "rejected"
    <3> DEFINE next == IF mem[seq].st = "unknown" \/ cmd.wait = "no" THEN "once" ELSE "await"
    <3>1. /\ pc = "submitted" /\ Reconcile(next) /\ Stay
          /\ UNCHANGED <<brokerVars, mem, seq, ledgerVars, diskVars>>
      BY <1>2, <2>2 DEF Submitted
    <3>2. seq \in Ids /\ next \in {"once", "await"}
      BY <3>1 DEF IInv, Control
    <3> HIDE DEF next
    <3> QED
      BY <3>1, <3>2, CallPauses DEF Returns
  <2> QED
    BY <2>1, <2>2
<1>3. CASE Once \/ ConfirmOver
  BY <1>3, ExitEnds DEF Once, ConfirmOver
<1>4. CASE AwaitAgain
  <2>1. /\ pc \in {"await", "confirm"} /\ Reconcile(pc) /\ Stay
        /\ UNCHANGED <<brokerVars, mem, seq, ledgerVars, diskVars>>
    BY <1>4 DEF AwaitAgain
  <2>2. pc = "await" => seq \in Ids
    BY DEF IInv, Control
  <2> QED
    BY <2>1, <2>2, CallPauses DEF Returns
<1>5. CASE AwaitOver
  <2> pc = "await" /\ seq \in Ids
    BY <1>5 DEF AwaitOver, IInv, Control
  <2>1. CASE cmd.wait = "cancel" /\ mem[seq].st # "filled" /\ Terminal(mem[seq])
    <3>1. Reconcile("confirm") /\ Stay /\ UNCHANGED <<brokerVars, mem, seq, ledgerVars, diskVars>>
      BY <1>5, <2>1 DEF AwaitOver
    <3> QED
      BY <3>1, CallPauses DEF Returns
  <2>2. CASE cmd.wait = "cancel" /\ mem[seq].st # "filled" /\ ~Terminal(mem[seq])
    BY <1>5, <2>2 DEF AwaitOver, Cancels, Acts
  <2>3. CASE ~(cmd.wait = "cancel" /\ mem[seq].st # "filled")
    BY <1>5, <2>3, ExitEnds DEF AwaitOver
  <2> QED
    BY <2>1, <2>2, <2>3
<1> QED
  BY <1>1, <1>2, <1>3, <1>4, <1>5

\* cancel, status and resolve, and the errors.
LEMMA OtherSteps ==
    ASSUME IInv, run_cancel \/ run_status \/ StatusReport \/ run_resolve \/ ResolveMatched \/ Resolved
                 \/ KisErrorCaught \/ IntegrityErrorRaised
    PROVE  Ends \/ Pauses \/ Acts
<1>1. CASE run_cancel
  <2>1. pc = "ready" /\ cmd.id \in Ids
    BY <1>1 DEF run_cancel, IInv, Control
  <2>2. CASE PostCancel(cmd.id, "confirm") /\ Stay
    BY <2>1, <2>2 DEF Cancels, Acts
  <2>3. CASE (\E code \in {0, 4, 5, 6} : Exit(code)) /\ UNCHANGED <<brokerVars, diskVars>>
    BY <2>1, <2>3, ExitEnds
  <2> QED
    BY <1>1, <2>2, <2>3 DEF run_cancel
<1>2. CASE run_status
  <2>1. /\ pc = "ready" /\ Reconcile("report") /\ Stay
        /\ UNCHANGED <<brokerVars, mem, seq, ledgerVars, diskVars>>
    BY <1>2 DEF run_status
  <2> QED
    BY <2>1, CallPauses DEF Returns
<1>3. CASE run_resolve
  <2>1. CASE mem[cmd.id].st # "unknown"
    BY <1>3, <2>1, ExitEnds DEF run_resolve
  <2>2. CASE mem[cmd.id].st = "unknown"
    <3>1. /\ pc = "ready" /\ cmd.op = "resolve" /\ Reconcile("resolve") /\ Stay
          /\ UNCHANGED <<brokerVars, mem, seq, ledgerVars, diskVars>>
      BY <1>3, <2>2 DEF run_resolve
    <3> QED
      BY <3>1, CallPauses DEF Returns
  <2> QED
    BY <2>1, <2>2
<1>4. CASE KisErrorCaught
  <2>1. CASE ret \in {"once", "await", "confirm"}
    BY <1>4, <2>1 DEF KisErrorCaught, Pauses, Quiet, Labels, Stay, cliVars, ledgerVars, loopVars, IInv, TypeOK,
       FlagsTyped, LabelsTyped, Control
  <2>2. CASE ret \notin {"once", "await", "confirm"}
    BY <1>4, <2>2, ExitEnds DEF KisErrorCaught
  <2> QED
    BY Zenon, <2>1, <2>2
<1>5. CASE StatusReport \/ ResolveMatched \/ Resolved \/ IntegrityErrorRaised
  BY <1>5, ExitEnds DEF StatusReport, ResolveMatched, Resolved, IntegrityErrorRaised
<1> QED
  BY <1>1, <1>2, <1>3, <1>4, <1>5

\* Every step of the order day is of one of these kinds.
LEMMA Steps == IInv /\ [Next]_vars => Ends \/ Pauses \/ Same \/ Acts \/ BrokerStep
<1> SUFFICES ASSUME IInv, [Next]_vars PROVE Ends \/ Pauses \/ Same \/ Acts \/ BrokerStep
  OBVIOUS
<1>1. CASE Start
  BY <1>1 DEF Start, AssembleRefused, Same, Acts
<1>2. CASE ManagerStep
  <2>1. CASE PostKisError \/ FetchFails \/ ApplyIntegrityError
    <3>1. Stay
      BY <1>2 DEF ManagerStep
    <3> QED
      BY <2>1, <3>1 DEF Pauses, Quiet, PostKisError, FetchFails, ApplyIntegrityError, Labels, Stay, cliVars,
         ledgerVars, loopVars, IInv, TypeOK, FlagsTyped, LabelsTyped, Control
  <2>2. CASE ~(PostKisError \/ FetchFails \/ ApplyIntegrityError)
    BY <1>2, <2>2 DEF ManagerStep, Manages, Acts
  <2> QED
    BY <2>1, <2>2
<1>3. CASE CommandStep
  <2>1. CASE SessionStart \/ ResolveRetire
    BY <2>1 DEF Acts
  <2>2. CASE ~(SessionStart \/ ResolveRetire)
    BY <1>3, <2>2, AssemblySteps, SubmitSteps, OtherSteps DEF CommandStep
  <2> QED
    BY <2>1, <2>2
<1>4. CASE Crash
  BY Zenon, <1>4 DEF Crash, Ends, IInv, TypeOK, FlagsTyped
<1>5. CASE UNCHANGED vars
  BY <1>5 DEF vars, Same, cliVars
<1> QED
  BY <1>1, <1>2, <1>3, <1>4, <1>5 DEF Next

-----------------------------------------------------------------------------
\* The blank order and the absent row have their types.
LEMMA BlankTypes == NoOrder \in OrderType /\ Absent \in RowType
  BY DEF NoOrder, OrderType, Absent, RowType, OrderStatus, Side, NoNo, Nobody

\* Nothing recorded, nobody running: the initial state satisfies the invariant.
LEMMA InitInv == Init => IInv
<1> SUFFICES ASSUME Init PROVE IInv
  OBVIOUS
<1> USE BlankTypes, BrokerAssumption, OmsAssumption DEF Init, BrokerInit, OmsInit
<1>1. RowsTyped /\ OrdersTyped /\ WireTyped
  BY DEF RowsTyped, OrdersTyped, WireTyped, EmptySnap
<1>2. CountsTyped
  BY DEF CountsTyped, NoBase
<1>3. FlagsTyped
  BY Zenon DEF FlagsTyped
<1>4. LabelsTyped
  BY DEF LabelsTyped, Labels, Returns, CmdType, NoCmd
<1>5. Control
  BY DEF Control, Looping, NoCmd
<1>6. Blank /\ UniqueNumbers
  BY DEF Blank, UniqueNumbers, DistinctNumbers, NoOrder
<1>7. Listing
  BY DEF Listing, Listed, EmptySnap, NoOrder, Absent
<1>8. RecoveryExact
  BY DEF RecoveryExact
<1> QED
  BY <1>1, <1>2, <1>4, <1>5, <1>6, <1>7, <1>8, <1>3 DEF IInv, TypeOK

\* A process that ends, by exit or by crash, leaves the broker and the journal alone.
LEMMA ForgetInv ==
    ASSUME IInv, Forget, UNCHANGED <<brokerVars, disk, dseq, dbase, dpos, corrupt>>,
           torn' \in BOOLEAN
    PROVE  IInv'
<1> USE BlankTypes, OmsAssumption DEF IInv, TypeOK, Forget, brokerVars
<1>1. RowsTyped' /\ OrdersTyped' /\ WireTyped'
  BY DEF RowsTyped, OrdersTyped, WireTyped, EmptySnap
<1>2. CountsTyped'
  BY DEF CountsTyped
<1>3. FlagsTyped'
  BY Zenon DEF FlagsTyped
<1>4. LabelsTyped'
  BY DEF LabelsTyped, Labels, Returns, CmdType, NoCmd
<1>5. Control'
  BY Zenon DEF Control, Looping, NoCmd
<1>6. Blank' /\ UniqueNumbers'
  BY Zenon DEF Blank, UniqueNumbers, DistinctNumbers, NoOrder
<1>7. Listing'
  BY DEF Listing, Listed, EmptySnap, NoOrder, Absent
<1>8. RecoveryExact'
  BY Zenon DEF RecoveryExact
<1> QED
  BY <1>1, <1>2, <1>4, <1>5, <1>6, <1>7, <1>8, <1>3

\* A step that changes neither orders, rows nor journal keeps the invariant.
LEMMA QuietInv == IInv /\ Quiet => IInv'
<1> SUFFICES ASSUME IInv, Quiet PROVE IInv'
  OBVIOUS
<1> USE DEF IInv, TypeOK, Quiet, brokerVars, diskVars
<1>1. RowsTyped' /\ OrdersTyped' /\ WireTyped'
  BY DEF RowsTyped, OrdersTyped, WireTyped
<1>2. CountsTyped'
  BY DEF CountsTyped
<1>3. FlagsTyped'
  BY DEF FlagsTyped
<1>4. LabelsTyped'
  BY Zenon DEF LabelsTyped
<1>5. Control'
  BY Zenon DEF Control, Looping
<1>6. Blank' /\ UniqueNumbers'
  BY Zenon DEF Blank, UniqueNumbers, DistinctNumbers
<1>7. Listing'
  BY DEF Listing, Listed
<1>8. RecoveryExact'
  BY Zenon DEF RecoveryExact, restore_session
<1> QED
  BY <1>1, <1>2, <1>4, <1>5, <1>6, <1>7, <1>8, <1>3
\* Outside the window between the answer and its record, memory and journal agree on a
\* recorded order in everything but a pending status.
LEMMA Agree ==
    ASSUME IInv, pc # "down", NEW x \in Ids, disk[x].st # "none", ~(pc = "result" /\ x = seq)
    PROVE  /\ Recovered(disk[x]) = Recovered(mem[x])
           /\ disk[x].no = mem[x].no /\ disk[x].filled = mem[x].filled
           /\ disk[x].side = mem[x].side /\ disk[x].qty = mem[x].qty
<1>1. disk[x] \in OrderType /\ mem[x] \in OrderType
  BY DEF IInv, TypeOK, OrdersTyped
<1>2. Recovered(disk[x]) = Recovered(mem[x])
  BY Zenon DEF IInv, RecoveryExact, restore_session, Recovered
<1> QED
  BY <1>1, <1>2 DEF Recovered, OrderType

\* A new order has the type of an order, no number and no fills.
LEMMA NewOrder ==
    ASSUME NEW intent \in Intents, NEW st \in OrderStatus
    PROVE  /\ Order(intent, st) \in OrderType
           /\ Order(intent, st).st = st
           /\ Order(intent, st).no = NoNo
  BY BrokerAssumption DEF Order, OrderType, Side, NoNo

\* A step that changes one order, in memory and in the journal, and what it owes the
\* invariant: o and d are what it makes of mem[c] and disk[c].
Update(c, o, d) ==
    /\ mem' = [mem EXCEPT ![c] = o] /\ disk' = [disk EXCEPT ![c] = d]
    /\ o \in OrderType /\ d \in OrderType
    /\ d.st = "none" => d.no = NoNo /\ o.no = NoNo
    /\ c > dseq' => d.st = "none"
    /\ o.no # NoNo => rows'[o.no].owner # Nobody /\ \A x \in Ids \ {c} : mem[x].no # o.no
    /\ d.no # NoNo => rows'[d.no].owner # Nobody /\ \A x \in Ids \ {c} : disk[x].no # d.no
    /\ pc' = "adopt" /\ o.no # NoNo => o.no \in known'
    /\ IF d.st = "none" THEN o.st \in {"none", "rejected"}
       ELSE Recovered(d) = IF pc' = "result" THEN [o EXCEPT !.st = "unknown", !.no = NoNo]
                           ELSE Recovered(o)
    /\ dseq' \in Int /\ dseq' >= dseq
    /\ pc # "down" /\ pc' # "down"
    /\ pc' = "adopt" => pc = "adopt" /\ known \subseteq known'
    /\ pc = "result" => c = seq
    /\ pc' = "result" => c = seq'
    /\ \A n \in Nos : Listed(n) => Listed(n)'
    /\ \A n \in Nos : snap'[n].owner # Nobody => snap[n].owner # Nobody

\* The order part of the invariant after a step that changes one order.
LEMMA UpdateInv ==
    ASSUME IInv, NEW c \in Ids, NEW o, NEW d, Update(c, o, d)
    PROVE  OrdersTyped' /\ Blank' /\ Listing' /\ RecoveryExact' /\ UniqueNumbers'
<1> mem \in [Ids -> OrderType] /\ disk \in [Ids -> OrderType] /\ dseq \in Int
  BY DEF IInv, TypeOK, OrdersTyped, CountsTyped
<1>1. \A x \in Ids : mem'[x] = IF x = c THEN o ELSE mem[x]
  BY DEF Update
<1>2. \A x \in Ids : disk'[x] = IF x = c THEN d ELSE disk[x]
  BY DEF Update
<1>3. OrdersTyped'
  BY DEF OrdersTyped, Update
<1>4. Blank'
  BY <1>1, <1>2 DEF IInv, Blank, Update, Ids
<1>5. UniqueNumbers'
  BY <1>1, <1>2 DEF IInv, UniqueNumbers, DistinctNumbers, Update
<1>6. \A x \in Ids : (mem[x].no # NoNo => mem[x].no \in Nos) /\ (disk[x].no # NoNo => disk[x].no \in Nos)
  BY DEF OrderType
<1>7. Listing'
  BY <1>1, <1>2, <1>6 DEF IInv, Listing, Update, Listed
<1>8. RecoveryExact'
  <2>1. \A x \in Ids : restore_session[x] = Recovered(disk[x])
    BY DEF restore_session, Recovered
  <2>2. \A x \in Ids : restore_session'[x] = Recovered(IF x = c THEN d ELSE disk[x])
    BY <1>2 DEF restore_session, Recovered
  <2> SUFFICES ASSUME NEW x \in Ids
               PROVE  IF disk'[x].st = "none" THEN mem'[x].st \in {"none", "rejected"}
                      ELSE IF pc' = "result" /\ x = seq'
                           THEN restore_session'[x] = [mem'[x] EXCEPT !.st = "unknown", !.no = NoNo]
                      ELSE restore_session'[x] = Recovered(mem'[x])
    BY Zenon DEF RecoveryExact
  <2>3. CASE x = c
    <3>1. mem'[x] = o /\ disk'[x] = d /\ restore_session'[x] = Recovered(d)
      BY <2>2, <2>3, <1>1, <1>2
    <3>2. /\ pc' = "result" => x = seq'
          /\ IF d.st = "none" THEN o.st \in {"none", "rejected"}
             ELSE Recovered(d) = IF pc' = "result" THEN [o EXCEPT !.st = "unknown", !.no = NoNo]
                                 ELSE Recovered(o)
      BY <2>3 DEF Update
    <3> QED
      BY Zenon, <3>1, <3>2
  <2>4. CASE x # c
    <3>1. mem'[x] = mem[x] /\ disk'[x] = disk[x] /\ restore_session'[x] = restore_session[x]
      BY <2>1, <2>2, <2>4, <1>1, <1>2
    <3>2. pc # "down" /\ ~(pc = "result" /\ x = seq) /\ ~(pc' = "result" /\ x = seq')
      BY <2>4 DEF Update
    <3>3. IF disk[x].st = "none" THEN mem[x].st \in {"none", "rejected"}
          ELSE restore_session[x] = Recovered(mem[x])
      BY Zenon, <3>2 DEF IInv, RecoveryExact
    <3> QED
      BY <3>1, <3>2, <3>3
  <2> QED
    BY <2>3, <2>4
<1> QED
  BY <1>3, <1>4, <1>5, <1>7, <1>8

\* The gate refuses: the order exists in memory only, as rejected.
LEMMA SubmitRiskRejectInv ==
    ASSUME IInv, NEW intent \in Intents, NEW m \in Market, SubmitRiskReject(intent, m),
           cmd.op = "order", cmd' = [cmd EXCEPT !.id = seq']
    PROVE  IInv'
<1> DEFINE o == Order(intent, "rejected")
<1>1. o \in OrderType /\ o.st = "rejected" /\ o.no = NoNo
  BY NewOrder DEF OrderStatus
<1>2. /\ seq + 1 \in Ids /\ seq = dseq /\ seq' = seq + 1 /\ dseq' = seq + 1 /\ dseq \in Int
      /\ pc = "ready" /\ pc' = "submitted"
      /\ mem \in [Ids -> OrderType] /\ mem' = [mem EXCEPT ![seq + 1] = o]
      /\ disk \in [Ids -> OrderType] /\ disk' = disk
      /\ ret' = ret /\ rows' = rows /\ snap' = snap
  BY OmsAssumption DEF IInv, TypeOK, OrdersTyped, CountsTyped, Control, Ids, SubmitRiskReject, AppendRiskReject,
     loopVars, brokerVars
<1> HIDE DEF o
<1>3. disk[seq + 1].st = "none" /\ disk[seq + 1].no = NoNo /\ disk' = [disk EXCEPT ![seq + 1] = disk[seq + 1]]
  BY <1>2 DEF IInv, Blank, Ids
<1>4. Update(seq + 1, o, disk[seq + 1])
  <2> USE <1>1, <1>2, <1>3
  <2>1. mem' = [mem EXCEPT ![seq + 1] = o] /\ disk' = [disk EXCEPT ![seq + 1] = disk[seq + 1]] /\ disk[seq + 1] \in OrderType
    OBVIOUS
  <2>2. dseq' \in Int /\ dseq' >= dseq /\ ~(seq + 1 > dseq')
    OBVIOUS
  <2>3. (\A n \in Nos : Listed(n) => Listed(n)') /\ \A n \in Nos : snap'[n].owner # Nobody => snap[n].owner # Nobody
    BY DEF Listed
  <2> QED BY Zenon, <2>1, <2>2, <2>3 DEF Update
<1>5. OrdersTyped' /\ Blank' /\ Listing' /\ RecoveryExact' /\ UniqueNumbers'
  BY <1>2, <1>4, UpdateInv
<1>6. RowsTyped' /\ WireTyped' /\ FlagsTyped'
  BY DEF IInv, TypeOK, RowsTyped, WireTyped, FlagsTyped, SubmitRiskReject, AppendRiskReject, ledgerVars,
     loopVars, brokerVars
<1>7. CountsTyped'
  BY <1>2 DEF IInv, TypeOK, CountsTyped, Ids, SubmitRiskReject, AppendRiskReject, ledgerVars, loopVars,
     brokerVars
<1>8. LabelsTyped'
  BY <1>2 DEF IInv, TypeOK, LabelsTyped, Labels, CmdType, Ids
<1>9. Control'
  BY <1>2 DEF IInv, TypeOK, LabelsTyped, CmdType, Control, Looping, Ids
<1> QED
  BY <1>5, <1>6, <1>7, <1>8, <1>9 DEF IInv, TypeOK

\* The intent is recorded before the request leaves.
LEMMA SubmitIntentInv ==
    ASSUME IInv, NEW intent \in Intents, NEW m \in Market, SubmitIntent(intent, m),
           cmd.op = "order", cmd' = [cmd EXCEPT !.id = seq']
    PROVE  IInv'
<1> DEFINE o == Order(intent, "pending_submit")
<1>1. o \in OrderType /\ o.st = "pending_submit" /\ o.no = NoNo
  BY NewOrder DEF OrderStatus
<1>2. /\ seq + 1 \in Ids /\ seq = dseq /\ seq' = seq + 1 /\ dseq' = seq + 1 /\ dseq \in Int
      /\ pc = "ready" /\ pc' = "send"
      /\ mem \in [Ids -> OrderType] /\ mem' = [mem EXCEPT ![seq + 1] = o]
      /\ disk \in [Ids -> OrderType] /\ disk' = [disk EXCEPT ![seq + 1] = o]
      /\ ret' = ret /\ rows' = rows /\ snap' = snap
  BY OmsAssumption DEF IInv, TypeOK, OrdersTyped, CountsTyped, Control, Ids, SubmitIntent, AppendIntent,
     loopVars, brokerVars
<1> HIDE DEF o
<1>3. Update(seq + 1, o, o)
  <2> USE <1>1, <1>2
  <2>1. dseq' \in Int /\ dseq' >= dseq /\ ~(seq + 1 > dseq')
    OBVIOUS
  <2>2. /\ \A n \in Nos : Listed(n) => Listed(n)'
        /\ \A n \in Nos : snap'[n].owner # Nobody => snap[n].owner # Nobody
    BY DEF Listed
  <2> QED
    BY <2>1, <2>2 DEF Update
<1>4. OrdersTyped' /\ Blank' /\ Listing' /\ RecoveryExact' /\ UniqueNumbers'
  BY <1>2, <1>3, UpdateInv
<1>5. RowsTyped' /\ WireTyped' /\ FlagsTyped'
  BY DEF IInv, TypeOK, RowsTyped, WireTyped, FlagsTyped, SubmitIntent, AppendIntent, ledgerVars, loopVars,
     brokerVars
<1>6. CountsTyped'
  BY <1>2 DEF IInv, TypeOK, CountsTyped, Ids, SubmitIntent, AppendIntent, ledgerVars, loopVars, brokerVars
<1>7. LabelsTyped'
  BY <1>2 DEF IInv, TypeOK, LabelsTyped, Labels, CmdType, Ids
<1>8. Control'
  BY <1>1, <1>2 DEF IInv, TypeOK, LabelsTyped, CmdType, Control, Looping, Ids
<1> QED
  BY <1>4, <1>5, <1>6, <1>7, <1>8 DEF IInv, TypeOK

\* A row that lands is new, and every other row stays.
LEMMA LandRows ==
    ASSUME RowsTyped, NEW n \in Nos, NEW owner \in Ids \cup {Foreign}, NEW intent,
           intent.side \in Side, intent.qty \in Nat, NEW at \in Nat, Land(n, owner, intent, at)
    PROVE  /\ rows' \in [Nos -> RowType]
           /\ ~Listed(n) /\ rows'[n].owner # Nobody
           /\ \A k \in Nos : Listed(k) => Listed(k)'
<1>1. NewRow(owner, intent, at) \in RowType /\ NewRow(owner, intent, at).owner # Nobody
  BY DEF NewRow, RowType, Nobody, Foreign, Ids
<1> QED
  BY Zenon, <1>1 DEF RowsTyped, Land, Fresh, Listed

\* The answer to a submit, whatever it is: the order takes a status, and a number that
\* no order has.
LEMMA OutcomeInv ==
    ASSUME IInv, pc = "send", NEW st \in {"accepted", "rejected", "unknown"},
           NEW no \in Nos \cup {NoNo}, Outcome(st, no),
           no # NoNo => ~Listed(no) /\ rows'[no].owner # Nobody,
           \A k \in Nos : Listed(k) => Listed(k)',
           rows' \in [Nos -> RowType], WireTyped', held' = held, Stay
    PROVE  IInv'
<1> DEFINE o == [mem[seq] EXCEPT !.st = st, !.no = no]
<1> /\ seq \in Ids /\ dseq = seq /\ seq \in Int
    /\ mem \in [Ids -> OrderType] /\ disk \in [Ids -> OrderType]
    /\ mem[seq].st = "pending_submit" /\ mem[seq].no = NoNo
    /\ disk[seq].st = "pending_submit"
  BY DEF IInv, TypeOK, OrdersTyped, Control, Ids
<1>1. /\ seq' = seq /\ dseq' = seq /\ pc' = "result"
      /\ mem' = [mem EXCEPT ![seq] = o]
      /\ disk' = disk /\ disk' = [disk EXCEPT ![seq] = disk[seq]]
      /\ ret' = ret /\ snap' = snap
  BY Zenon DEF Outcome, loopVars, diskVars
<1> mem[seq] \in OrderType /\ disk[seq] \in OrderType
  BY <1>1
<1> o \in OrderType /\ o.no = no /\ o.st = st
  BY Zenon DEF OrderType, OrderStatus
<1>2. Recovered(disk[seq]) = [o EXCEPT !.st = "unknown", !.no = NoNo]
  <2>1. Recovered(disk[seq]) = Recovered(mem[seq])
    BY <1>1 DEF IInv, RecoveryExact, restore_session, Recovered
  <2>2. Recovered(mem[seq]) = [mem[seq] EXCEPT !.st = "unknown"]
    BY <1>1 DEF Recovered, RestoreStatus, OrderType
  <2>3. [mem[seq] EXCEPT !.st = "unknown"] = [o EXCEPT !.st = "unknown", !.no = NoNo]
    BY Zenon, <1>1 DEF OrderType
  <2> QED
    BY <2>1, <2>2, <2>3
<1>3. \A x \in Ids : mem[x].no # NoNo => Listed(mem[x].no)
  BY DEF IInv, Listing
<1>4. disk[seq].no # NoNo => rows'[disk[seq].no].owner # Nobody /\ \A x \in Ids \ {seq} : disk[x].no # disk[seq].no
  BY <1>1 DEF IInv, Listing, Listed, UniqueNumbers, DistinctNumbers, OrderType
<1> HIDE DEF o
<1>5. Update(seq, o, disk[seq])
  <2>1. dseq' \in Int /\ dseq' >= dseq /\ ~(seq > dseq')
    BY <1>1
  <2>2. o.no # NoNo => rows'[o.no].owner # Nobody /\ \A x \in Ids \ {seq} : mem[x].no # o.no
    BY Zenon, <1>3
  <2>3. \A n \in Nos : snap'[n].owner # Nobody => snap[n].owner # Nobody
    BY Zenon, <1>1
  <2> QED
    BY Zenon, <1>1, <1>2, <1>4, <2>1, <2>2, <2>3 DEF Update
<1>6. OrdersTyped' /\ Blank' /\ Listing' /\ RecoveryExact' /\ UniqueNumbers'
  BY <1>1, <1>5, UpdateInv
<1>7. RowsTyped' /\ FlagsTyped'
  BY DEF IInv, TypeOK, RowsTyped, FlagsTyped, Outcome, ledgerVars, loopVars, diskVars
<1>8. CountsTyped'
  BY Zenon, <1>1 DEF IInv, TypeOK, CountsTyped, Outcome, ledgerVars, loopVars, diskVars
<1>9. LabelsTyped'
  BY Zenon, <1>1 DEF IInv, TypeOK, LabelsTyped, Labels, Stay, cliVars
<1>10. Control'
  BY <1>1 DEF IInv, Control, Looping, Stay, cliVars
<1> QED
  BY Zenon, <1>6, <1>7, <1>8, <1>9, <1>10 DEF IInv, TypeOK

\* The three answers to a submit.
LEMMA PostInv ==
    ASSUME IInv, PostAccepted \/ PostRejected \/ PostUnknown, Stay
    PROVE  IInv'
<1> /\ pc = "send" /\ RowsTyped /\ WireTyped
    /\ mem[seq].side \in Side /\ mem[seq].qty \in Nat /\ dseq \in Nat
    /\ seq \in Ids \cup {Foreign} /\ seq \in Ids
  BY DEF IInv, TypeOK, OrdersTyped, OrderType, CountsTyped, Control, PostAccepted, PostRejected, PostUnknown
<1>1. ASSUME NEW n \in Nos, Land(n, seq, mem[seq], dseq)
      PROVE  /\ rows' \in [Nos -> RowType] /\ ~Listed(n) /\ rows'[n].owner # Nobody
             /\ \A k \in Nos : Listed(k) => Listed(k)'
  BY Zenon, <1>1, LandRows
<1>2. CASE PostAccepted
  <2>1. PICK n \in Nos : Land(n, seq, mem[seq], dseq) /\ Outcome("accepted", n)
    BY Zenon, <1>2 DEF PostAccepted
  <2>2. WireTyped' /\ held' = held
    BY Zenon, <1>2 DEF PostAccepted, WireTyped
  <2> QED
    BY Zenon, <1>1, <2>1, <2>2, OutcomeInv
<1>3. CASE PostRejected
  <2>1. WireTyped' /\ held' = held /\ rows' \in [Nos -> RowType] /\ \A k \in Nos : Listed(k) => Listed(k)'
    BY Zenon, <1>3 DEF PostRejected, WireTyped, RowsTyped, brokerVars, Listed
  <2>2. Outcome("rejected", NoNo)
    BY Zenon, <1>3 DEF PostRejected
  <2> QED
    BY Zenon, <2>1, <2>2, OutcomeInv
<1>4. CASE PostUnknown
  <2>1. Outcome("unknown", NoNo) /\ held' = held
    BY Zenon, <1>4 DEF PostUnknown
  <2>2. WireTyped'
    <3>1. Request.id \in Ids /\ Request \in [id : Ids, side : Side, qty : Nat]
      BY DEF Request
    <3> QED
      BY <1>4, <3>1 DEF PostUnknown, WireTyped
  <2>3. rows' \in [Nos -> RowType] /\ \A k \in Nos : Listed(k) => Listed(k)'
    <3>1. CASE \E n \in Nos : Land(n, seq, mem[seq], dseq)
      BY Zenon, <1>1, <3>1
    <3>2. CASE UNCHANGED rows
      BY <3>2 DEF RowsTyped, Listed
    <3> QED
      BY Zenon, <1>4, <3>1, <3>2 DEF PostUnknown
  <2> QED
    BY Zenon, <2>1, <2>2, <2>3, OutcomeInv
<1> QED
  BY <1>2, <1>3, <1>4
=============================================================================
