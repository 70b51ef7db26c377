------------------------------ MODULE OrderCli ------------------------------
(***************************************************************************)
(* The order commands (src/cli/order.py) and the assembly of a session     *)
(* (src/execution/service.py): each command is a process that takes the    *)
(* session lock, restores the journal, checks the account, does one thing  *)
(* and exits with a code.  A crash may end it anywhere, and may tear the   *)
(* line being appended.                                                    *)
(***************************************************************************)
EXTENDS Oms

CONSTANTS ParityAttempts,   \* settings.position_parity_attempts
          MaxCrashes,       \* bound on crashes during the day
          OperatorChecks    \* whether --confirm-not-at-broker is always true when given

ASSUME ParityAssumption == ParityAttempts \in Nat \ {0}

VARIABLES cmd,      \* the running command: its op, the order it is about, its options
          tries,    \* parity attempts made by the assembly
          exit,     \* the code the last process ended with
          crashes

cliVars == <<cmd, tries, exit, crashes>>
vars == <<brokerVars, mem, seq, ledgerVars, pc, loopVars, diskVars, cliVars>>

NoCmd  == [op |-> "none", id |-> 0, wait |-> "no"]
NoExit == [op |-> "none", id |-> 0, code |-> 0]
Traceback == 1
Killed == -1

\* order waits for the fill or not, and may cancel when the wait is over;
\* --cancel-on-timeout without --wait-s is refused before a session is assembled.
Commands ==
    {[op |-> "order", id |-> 0, wait |-> w] : w \in {"no", "wait", "cancel"}}
    \cup {[op |-> o, id |-> c, wait |-> "no"] : o \in {"cancel", "resolve"}, c \in Ids}
    \cup {[op |-> "status", id |-> 0, wait |-> "no"]}

\* What the operator verified before confirming: the order is not at the broker and
\* can no longer get there.
NotAtBroker(c) ==
    /\ \A n \in Nos : rows[n].owner # c
    /\ \A req \in wire : req.id # c

Forget ==
    /\ mem' = [c \in Ids |-> NoOrder]
    /\ seq' = 0
    /\ pos' = 0
    /\ blocked' = FALSE
    /\ pc' = "down"
    /\ ret' = "none"
    /\ snap' = EmptySnap
    /\ cur' = 0
    /\ known' = {}
    /\ cmd' = NoCmd
    /\ tries' = 0

\* close(): the lock is released and the process ends with a code.
Exit(code) ==
    /\ Forget
    /\ exit' = [op |-> cmd.op, id |-> cmd.id, code |-> code]
    /\ UNCHANGED crashes

Stay == UNCHANGED cliVars

(***************************************************************************)
(* build_order_manager.                                                    *)
(***************************************************************************)
\* The first session of the day takes the broker's holdings as its ledger.
Assemble(c) ==
    /\ pc = "down" /\ ~torn /\ ~corrupt
    /\ c.op = "resolve" /\ OperatorChecks => NotAtBroker(c.id)
    /\ cmd' = c
    /\ mem' = restore_session
    /\ seq' = dseq
    /\ pos' = IF dbase = NoBase THEN held ELSE dpos
    /\ pc' = IF dbase = NoBase THEN "session_start" ELSE "parity"
    /\ tries' = 0
    /\ exit' = NoExit
    /\ UNCHANGED <<brokerVars, blocked, loopVars, diskVars, crashes>>

\* A torn or inconsistent journal refuses every append or the restore itself, and the
\* first session needs the broker's holdings: fail closed.
AssembleRefused ==
    /\ pc = "down" /\ (torn \/ corrupt \/ dbase = NoBase)
    /\ exit' = [op |-> "refused", id |-> 0, code |-> 4]
    /\ UNCHANGED <<brokerVars, mem, seq, ledgerVars, pc, loopVars, diskVars, cmd, tries, crashes>>

\* Orders still open are reconciled before the ledger is compared with the holdings.
ParityReconcile ==
    /\ pc = "parity"
    /\ IF \E c \in Ids : Open(mem[c])
       THEN Reconcile("holdings")
       ELSE pc' = "holdings" /\ UNCHANGED loopVars
    /\ UNCHANGED <<brokerVars, mem, seq, ledgerVars, diskVars>>
    /\ Stay

\* Equal, or attempts left, or the session is blocked for submits.
ParityCheck ==
    /\ pc = "holdings"
    /\ tries' = tries + 1
    /\ IF pos = held THEN pc' = "session_start" /\ UNCHANGED blocked
       ELSE IF tries + 1 < ParityAttempts THEN pc' = "parity" /\ UNCHANGED blocked
       ELSE pc' = "session_start" /\ blocked' = TRUE
    /\ UNCHANGED <<brokerVars, mem, seq, pos, loopVars, diskVars, cmd, exit, crashes>>

\* get_holdings() raises KisApiError: the account check failed.
HoldingsFail == pc = "holdings" /\ Exit(4) /\ UNCHANGED <<brokerVars, diskVars>>

SessionStart ==
    /\ pc = "session_start"
    /\ AppendSessionStart(pos)
    /\ pc' = "ready"
    /\ UNCHANGED <<brokerVars, mem, seq, ledgerVars, loopVars>>
    /\ Stay

(***************************************************************************)
(* The command handlers, between the manager's own steps.                  *)
(***************************************************************************)
Submit ==
    /\ cmd.op = "order"
    /\ \/ SubmitNoQuote
       \/ \E intent \in Intents, m \in Market :
            SubmitRiskReject(intent, m) \/ SubmitIntent(intent, m)
    /\ cmd' = [cmd EXCEPT !.id = IF pc' = "kis_error" THEN 0 ELSE seq']
    /\ UNCHANGED <<tries, exit, crashes>>

\* run() after submit(): rejected ends it; otherwise one reconcile or the wait.
Submitted ==
    /\ pc = "submitted"
    /\ IF mem[seq].st = "rejected"
       THEN Exit(3) /\ UNCHANGED <<brokerVars, diskVars>>
       ELSE /\ Reconcile(IF mem[seq].st = "unknown" \/ cmd.wait = "no" THEN "once" ELSE "await")
            /\ UNCHANGED <<brokerVars, mem, seq, ledgerVars, diskVars>>
            /\ Stay

_submit_exit_code(order) ==
    CASE order.st = "rejected" -> 3
      [] order.st = "unknown"  -> 5
      [] OTHER                 -> 0

Once == pc = "once" /\ Exit(_submit_exit_code(mem[seq])) /\ UNCHANGED <<brokerVars, diskVars>>

\* await_terminal(): reconcile again while the order is open and time is left.
AwaitAgain ==
    /\ pc \in {"await", "confirm"} /\ ~Terminal(mem[cmd.id])
    /\ Reconcile(pc)
    /\ UNCHANGED <<brokerVars, mem, seq, ledgerVars, diskVars>>
    /\ Stay

\* The order is terminal or the wait is over: run() may cancel and wait once more.
AwaitOver ==
    /\ pc = "await"
    /\ IF cmd.wait = "cancel" /\ mem[seq].st # "filled"
       THEN IF Terminal(mem[seq])
            THEN /\ Reconcile("confirm")
                 /\ UNCHANGED <<brokerVars, mem, seq, ledgerVars, diskVars>>
                 /\ Stay
            ELSE PostCancel(seq, "confirm") /\ Stay
       ELSE /\ Exit(IF mem[seq].st = "filled" THEN 0 ELSE 6)
            /\ UNCHANGED <<brokerVars, diskVars>>

\* run() ends on "filled", run_cancel() on "cancelled".
ConfirmOver ==
    /\ pc = "confirm"
    /\ Exit(IF mem[cmd.id].st = (IF cmd.op = "order" THEN "filled" ELSE "cancelled") THEN 0 ELSE 6)
    /\ UNCHANGED <<brokerVars, diskVars>>

run_cancel ==
    /\ pc = "ready" /\ cmd.op = "cancel"
    /\ LET order == mem[cmd.id] IN
       IF order.st = "none" THEN Exit(4) /\ UNCHANGED <<brokerVars, diskVars>>
       ELSE IF Terminal(order)
            THEN Exit(IF order.st = "cancelled" THEN 0 ELSE 6) /\ UNCHANGED <<brokerVars, diskVars>>
       ELSE IF order.no = NoNo THEN Exit(5) /\ UNCHANGED <<brokerVars, diskVars>>
       ELSE PostCancel(cmd.id, "confirm") /\ Stay

run_status ==
    /\ pc = "ready" /\ cmd.op = "status"
    /\ Reconcile("report")
    /\ UNCHANGED <<brokerVars, mem, seq, ledgerVars, diskVars>>
    /\ Stay

StatusReport ==
    /\ pc = "report"
    /\ Exit(IF blocked THEN 7
            ELSE IF \E c \in Ids : mem[c].st = "unknown" THEN 5
            ELSE 0)
    /\ UNCHANGED <<brokerVars, diskVars>>

run_resolve ==
    /\ pc = "ready" /\ cmd.op = "resolve"
    /\ IF mem[cmd.id].st # "unknown" THEN Exit(4) /\ UNCHANGED <<brokerVars, diskVars>>
       ELSE /\ Reconcile("resolve")
            /\ UNCHANGED <<brokerVars, mem, seq, ledgerVars, diskVars>>
            /\ Stay

ResolveRetire ==
    /\ pc = "resolve"
    /\ ResolveUnknown(cmd.id)
    /\ pc' = "resolved"
    /\ UNCHANGED <<brokerVars, seq, ledgerVars, loopVars>>
    /\ Stay

ResolveMatched ==
    /\ pc = "resolve"
    /\ ~(mem[cmd.id].st = "unknown" /\ mem[cmd.id].no = NoNo)
    /\ Exit(4)
    /\ UNCHANGED <<brokerVars, diskVars>>

Resolved == pc = "resolved" /\ Exit(0) /\ UNCHANGED <<brokerVars, diskVars>>

\* Mutant: a failed reconcile after the submit is reported as 4.
KisErrorCaught_AlwaysFour ==
    pc = "kis_error" /\ Exit(4) /\ UNCHANGED <<brokerVars, diskVars>>

\* Mutant: a failed listing is fetched again without looking at the clock.
KisErrorCaught_Retries ==
    /\ pc = "kis_error"
    /\ IF ret \in {"once", "await", "confirm"}
       THEN /\ pc' = "fetch"
            /\ UNCHANGED <<brokerVars, mem, seq, ledgerVars, loopVars, diskVars>>
            /\ Stay
       ELSE Exit(4) /\ UNCHANGED <<brokerVars, diskVars>>

\* KisApiError: a wait swallows it, order's single reconcile too; elsewhere it ends with 4.
KisErrorCaught ==
    /\ pc = "kis_error"
    /\ IF ret \in {"once", "await", "confirm"}
       THEN /\ pc' = ret
            /\ UNCHANGED <<brokerVars, mem, seq, ledgerVars, loopVars, diskVars>>
            /\ Stay
       ELSE Exit(4) /\ UNCHANGED <<brokerVars, diskVars>>

\* BrokerIntegrityError: 4 from the assembly and from run_resolve, else a traceback.
IntegrityErrorRaised ==
    /\ pc = "integrity"
    /\ Exit(IF ret \in {"holdings", "resolve"} THEN 4 ELSE Traceback)
    /\ UNCHANGED <<brokerVars, diskVars>>

Crash ==
    /\ pc # "down" /\ crashes < MaxCrashes
    /\ crashes' = crashes + 1
    /\ Forget
    /\ exit' = [op |-> "killed", id |-> cmd.id, code |-> Killed]
    /\ torn' \in {torn, TRUE}
    /\ UNCHANGED <<brokerVars, disk, dseq, dbase, dpos, corrupt>>

Init ==
    /\ BrokerInit
    /\ OmsInit
    /\ cmd = NoCmd
    /\ tries = 0
    /\ exit = NoExit
    /\ crashes = 0

ManagerStep ==
    /\ \/ PostAccepted \/ PostRejected \/ PostUnknown \/ PostKisError \/ JournalResult
       \/ Fetch \/ FetchFails \/ Adopt \/ AdoptDone
       \/ ApplyIntegrityError \/ ApplyFill \/ ApplyNoFill \/ ApplyStatus \/ ApplyDone
    /\ Stay

CommandStep ==
    \/ ParityReconcile \/ ParityCheck \/ HoldingsFail \/ SessionStart
    \/ Submit \/ Submitted \/ Once \/ AwaitAgain \/ AwaitOver \/ ConfirmOver
    \/ run_cancel \/ run_status \/ StatusReport
    \/ run_resolve \/ ResolveRetire \/ ResolveMatched \/ Resolved
    \/ KisErrorCaught \/ IntegrityErrorRaised

BrokerStep ==
    /\ BrokerFill \/ BrokerReject \/ LateOrder(dseq) \/ LateCancel \/ WireDrop \/ ForeignOrder(dseq)
    /\ UNCHANGED <<mem, seq, ledgerVars, pc, loopVars, diskVars, cliVars>>

Start == AssembleRefused \/ \E c \in Commands : Assemble(c)

Next == Start \/ ManagerStep \/ CommandStep \/ BrokerStep \/ Crash

Spec == Init /\ [][Next]_vars

\* The process keeps running while it is up, and a wait ends when its time is over.
Fairness ==
    /\ WF_vars(ManagerStep \/ CommandStep)
    /\ SF_vars(AwaitOver \/ ConfirmOver)

FairSpec == Spec /\ Fairness

-----------------------------------------------------------------------------
OrderType == [st: OrderStatus \cup {"none"}, no: Nos \cup {NoNo}, filled: Nat, side: Side, qty: Nat]
RowType == [owner: Ids \cup {Nobody, Foreign}, side: Side, qty: Nat, filled: Nat, at: Nat,
            end: {"open", "cancelled", "rejected"}]
Labels == {"down", "session_start", "parity", "holdings", "ready", "send", "result",
           "submitted", "fetch", "adopt", "apply", "status", "once", "await", "confirm",
           "report", "resolve", "resolved", "kis_error", "integrity"}
Returns == {"none", "holdings", "once", "await", "confirm", "report", "resolve"}
CmdType == [op: {"none", "order", "cancel", "resolve", "status"}, id: 0..MaxOrders,
            wait: {"no", "wait", "cancel"}]

RowsTyped   == rows \in [Nos -> RowType] /\ snap \in [Nos -> RowType]
OrdersTyped == mem \in [Ids -> OrderType] /\ disk \in [Ids -> OrderType]
WireTyped   == wire \subseteq [id: Ids, side: Side, qty: Nat] /\ wireCancel \subseteq Nos
CountsTyped ==
    /\ seq \in 0..MaxOrders /\ dseq \in 0..MaxOrders /\ cur \in 0..(MaxOrders + 1)
    /\ held \in Int /\ pos \in Int /\ dbase \in Int /\ dpos \in Int
    /\ known \subseteq Nos
FlagsTyped  == blocked \in BOOLEAN /\ corrupt \in BOOLEAN /\ torn \in BOOLEAN
LabelsTyped == pc \in Labels /\ ret \in Returns /\ cmd \in CmdType

\* Orders, rows, the listing, the counters and the program counter have their types.
TypeOK == RowsTyped /\ OrdersTyped /\ WireTyped /\ CountsTyped /\ FlagsTyped /\ LabelsTyped

\* No two orders hold the same broker number, in memory or in the journal: reconcile()
\* adopts a row for an unknown order only if no order has it (oms.py:285-319), across
\* crashes between adoption and its record.
DistinctNumbers(orders) ==
    \A c, d \in Ids : c # d /\ orders[c].no # NoNo => orders[c].no # orders[d].no
UniqueNumbers == DistinctNumbers(mem) /\ DistinctNumbers(disk)

\* An order that is live at the broker, or still on its way there, has an open order in
\* the journal: no crash, lost answer, cancel race or operator override makes the
\* program forget it (oms.py:162-193, recovery.py:167-169).
LiveOrdersTracked ==
    /\ \A n \in Nos : Live(rows[n]) /\ rows[n].owner \in Ids => Open(disk[rows[n].owner])
    /\ \A req \in wire : Open(disk[req.id])

\* A client id is never used for two broker orders, although the sequence is rebuilt
\* from the journal by every process (recovery.py:82-90, oms.py:106-107).
OneBrokerOrderPerId ==
    /\ \A n, m \in Nos : n # m /\ rows[n].owner \in Ids => rows[n].owner # rows[m].owner
    /\ \A req \in wire, n \in Nos : rows[n].owner # req.id

\* The journal never claims a fill the broker has not reported for that number, and
\* never a fill without a number (oms.py:338-374).
FillsAtBroker ==
    \A c \in Ids : disk[c].filled > 0 =>
        disk[c].no # NoNo /\ disk[c].filled <= rows[disk[c].no].filled

\* The running ledger is the opening holdings plus the fills of all orders, each counted
\* once, also after a crash between the ledger update, the fill record and the status
\* record (oms.py:358-376, recovery.py:174-204).
LedgerCountsFillsOnce ==
    dbase # NoBase /\ pc # "down" => pos = dbase + FillsOf(mem)

\* A crash at any moment restores exactly the orders in memory, except that an order
\* whose answer is not yet recorded comes back as unknown without a number
\* (recovery.py:93-169 against oms.py:162-193, 306-390).
Recovered(order) == [order EXCEPT !.st = RestoreStatus(@)]
RecoveryExact ==
    pc # "down" =>
        \A c \in Ids :
            IF disk[c].st = "none" THEN mem[c].st \in {"none", "rejected"}
            ELSE IF pc = "result" /\ c = seq
                 THEN restore_session[c] = [mem[c] EXCEPT !.st = "unknown", !.no = NoNo]
            ELSE restore_session[c] = Recovered(mem[c])

\* restore_session never refuses a journal this program wrote: its consistency checks
\* (recovery.py:98-99, 111-113, 149-155, 163-166) all pass.
JournalRestorable == ~corrupt

\* reconcile() never asks transition() for a forbidden step (oms.py:376,
\* contracts.py:210-216), whatever the broker did between two listings.
NoIllegalTransition ==
    /\ pc = "apply" =>
        \A c \in Applicable :
            First(c, Applicable) /\ ~Violates(c) => LegalTransition(mem[c].st, Derived(c))
    /\ pc = "status" => LegalTransition(mem[cur].st, Derived(cur))

\* The program never stops on what it wrote or read itself: the journal restores and every status
\* the listing asks for is a legal one (recovery.py:78-171, contracts.py:210-216).
JournalSound == TypeOK /\ JournalRestorable /\ NoIllegalTransition

\* The account never has more shares on offer, at the broker or on the way there, than
\* it holds: the gate counts open and unknown sells against a ledger that may lag
\* behind the broker (risk.py:87-88, oms.py:117-136).
OnOffer ==
    MapThenSumSet(LAMBDA n : rows[n].qty - rows[n].filled,
                  {n \in Nos : rows[n].side = "sell" /\ Live(rows[n])})
    + MapThenSumSet(LAMBDA req : req.qty, {req \in wire : req.side = "sell"})
NeverOversold == OnOffer <= held

\* At most one order per side is unaccounted for (pending or unknown, no number): the
\* UNKNOWN_PENDING gate holds over restarts too (risk.py:54-55, oms.py:118-123).
OneUnknownPerSide ==
    \A c, d \in Ids :
        /\ disk[c].st \in {"pending_submit", "unknown"} /\ disk[c].no = NoNo
        /\ disk[d].st \in {"pending_submit", "unknown"} /\ disk[d].no = NoNo
        /\ disk[c].side = disk[d].side
        => c = d

\* A client id stands for one broker order, and at most one order of a side waits to be found:
\* what adoption relies on (oms.py:286-320).
IdsAccounted == OneBrokerOrderPerId /\ OneUnknownPerSide

\* Exit codes tell the truth: after 3 or 4 from `order` nothing of it is, or will be,
\* working at the broker (cli/order.py:117-118), and after 0 from `order-cancel` the
\* order cannot trade any more (cli/order.py:204).
ExitCodesTruthful ==
    (\/ exit.op = "order" /\ exit.code \in {3, 4}
     \/ exit.op = "cancel" /\ exit.code = 0)
    /\ exit.id # 0
        => /\ \A n \in Nos : rows[n].owner = exit.id => ~Live(rows[n])
           /\ \A req \in wire : req.id # exit.id

\* When reconcile() returns, every order of this program in the listing is tracked under
\* its number with at least the fills listed: nothing is left for an all-clear to
\* overlook (oms.py:285-391, cli/order.py:216-252).
ReconcileComplete ==
    [][pc = "apply" /\ pc' = ret =>
        \A n \in Nos : snap[n].owner \in Ids =>
            LET order == mem'[snap[n].owner] IN
            /\ order.no = n /\ order.filled >= snap[n].filled
            /\ Live(snap[n]) \/ Terminal(order)]_vars

\* A recorded terminal order never changes again, by any process (contracts.py:204-206).
TerminalForGood == [][\A c \in Ids : Terminal(disk[c]) => disk'[c] = disk[c]]_vars

\* Every command ends: no wait, retry or reconcile runs for ever (oms.py:245-272).
CommandsEnd == pc # "down" ~> pc = "down"

\* The journalled orders live as OrderLife promises.  An order without a recorded
\* result is unknown as soon as no process is waiting for its answer.
LifeOf(c) ==
    IF disk[c].st = "pending_submit" /\ ~(pc \in {"send", "result"} /\ c = seq)
    THEN "unknown" ELSE disk[c].st
Life == INSTANCE OrderLife WITH
            Quantities <- {i.qty : i \in Intents},
            life   <- [c \in Ids |-> LifeOf(c)],
            filled <- [c \in Ids |-> disk[c].filled],
            qty    <- [c \in Ids |-> disk[c].qty]
ImplementsOrderLife == Life!LifeSpec

-----------------------------------------------------------------------------
(***************************************************************************)
(* What the source says of itself and the code does not keep: TLC finds    *)
(* the counterexample.                                                     *)
(***************************************************************************)
\* BrokerIntegrityError is the "signal of a broker cumulative-fill invariant violation"
\* (contracts.py:76-77): a broker whose listings never move backwards never causes one.
IntegrityErrorsAreTheBrokers == ~Lagging => pc # "integrity"
=============================================================================
