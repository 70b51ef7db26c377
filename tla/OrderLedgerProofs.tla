-------------------------- MODULE OrderLedgerProofs -------------------------
(***************************************************************************)
(* The ledger of the order day is the opening holdings plus every fill     *)
(* once.  The sum over the orders is a recursive function; what is known   *)
(* of it here is proved by induction, through the least number at which a  *)
(* claim about partial sums would fail.                                    *)
(***************************************************************************)
EXTENDS OrderBooksProofs, WellFoundedInduction, TLAPS

\* A set that holds 0 and with every number the next one is the whole interval: induction,
\* stated about a set.
LEMMA Upwards ==
    ASSUME NEW n \in Nat, NEW S \in SUBSET (0..n), 0 \in S,
           \A k \in 1..n : k - 1 \in S => k \in S
    PROVE  S = 0..n
<1> DEFINE R == {ss \in Nat \X Nat : ss[1] < ss[2]}
           T == (0..n) \ S
<1>1. SUFFICES ASSUME T # {} PROVE FALSE
  OBVIOUS
<1>2. IsWellFoundedOn(R, Nat)
  BY NatLessThanWellFounded DEF OpToRel
<1>3. T \subseteq Nat
  OBVIOUS
<1> HIDE DEF R, T
<1>4. PICK x \in T : \A y \in T : ~(<<y, x>> \in R)
  BY Zenon, <1>1, <1>2, <1>3, WFMin
<1>5. \A y \in T : ~(y < x)
  BY Zenon, <1>3, <1>4 DEF R
<1>6. x \in 1..n /\ x \notin S /\ x - 1 \in 0..n
  BY <1>4 DEF T
<1>7. x - 1 \in T
  BY <1>6 DEF T
<1> QED
  BY <1>5, <1>6, <1>7

\* s adds up f from the front.
Sums(s, f, n) ==
    /\ s \in [0..n -> Int] /\ s[0] = 0
    /\ \A c \in 1..n : s[c] = s[c - 1] + f[c]

\* Every function on the orders has such sums.
LEMMA SumsExist ==
    ASSUME NEW f \in [Ids -> Int]
    PROVE  \E s : Sums(s, f, MaxOrders)
<1> DEFINE S == {n \in 0..MaxOrders : \E s : Sums(s, f, n)}
<1>1. 0 \in S
  <2>1. Sums([c \in 0..0 |-> 0], f, 0)
    BY DEF Sums
  <2> QED
    BY <2>1, OmsAssumption
<1>2. ASSUME NEW n \in 1..MaxOrders, n - 1 \in S PROVE n \in S
  <2>1. PICK s : Sums(s, f, n - 1)
    BY <1>2
  <2> DEFINE t == [c \in 0..n |-> IF c = n THEN s[n - 1] + f[n] ELSE s[c]]
  <2>2. s[n - 1] + f[n] \in Int
    BY <2>1, OmsAssumption DEF Sums, Ids
  <2>3. t \in [0..n -> Int]
    BY <2>1, <2>2, OmsAssumption DEF Sums
  <2>4. t[0] = 0 /\ \A c \in 1..n : t[c] = t[c - 1] + f[c]
    BY <2>1, OmsAssumption DEF Sums
  <2>5. Sums(t, f, n)
    BY Zenon, <2>3, <2>4 DEF Sums
  <2> QED
    BY <2>5, OmsAssumption
<1>3. S \in SUBSET (0..MaxOrders)
  OBVIOUS
<1> HIDE DEF S
<1>4. S = 0..MaxOrders
  BY <1>1, <1>2, <1>3, OmsAssumption, Upwards
<1>5. MaxOrders \in S
  BY <1>4, OmsAssumption
<1> QED
  BY <1>5 DEF S

\* Total is their last one.
LEMMA TotalSums ==
    ASSUME NEW f \in [Ids -> Int]
    PROVE  \E s : Sums(s, f, MaxOrders) /\ Total(f) = s[MaxOrders]
<1> DEFINE Def(s) == [c \in 0..MaxOrders |-> IF c = 0 THEN 0 ELSE s[c - 1] + f[c]]
           sum == CHOOSE s : s = Def(s)
           S == {n \in 0..MaxOrders : sum[n] \in Int}
<1>1. PICK s : Sums(s, f, MaxOrders)
  BY SumsExist
<1>2. s = Def(s)
  <2>1. \A c \in 0..MaxOrders : s[c] = Def(s)[c]
    BY <1>1, OmsAssumption DEF Sums
  <2> QED
    BY <1>1, <2>1 DEF Sums
<1>3. sum = Def(sum)
  BY Zenon, <1>2
<1>4. Total(f) = sum[MaxOrders]
  BY Zenon DEF Total
<1> HIDE DEF sum
<1>5. sum[0] = 0 /\ \A c \in 1..MaxOrders : sum[c] = sum[c - 1] + f[c]
  BY <1>3, OmsAssumption
<1>6. 0 \in S /\ \A n \in 1..MaxOrders : n - 1 \in S => n \in S
  BY <1>5, OmsAssumption DEF Ids
<1>7. S \in SUBSET (0..MaxOrders)
  OBVIOUS
<1>8. S = 0..MaxOrders
  <2> HIDE DEF S
  <2> QED
    BY <1>6, <1>7, OmsAssumption, Upwards
<1>9. \A c \in 0..MaxOrders : sum[c] \in Int
  BY <1>8
<1>10. Sums(sum, f, MaxOrders)
  <2>1. sum = [c \in 0..MaxOrders |-> sum[c]]
    BY Zenon, <1>3
  <2> QED
    BY Zenon, <1>5, <1>9, <2>1 DEF Sums
<1> QED
  BY <1>4, <1>10

\* Changing one term changes the total by as much.
LEMMA TotalChange ==
    ASSUME NEW f \in [Ids -> Int], NEW c \in Ids, NEW v \in Int
    PROVE  Total([f EXCEPT ![c] = v]) = Total(f) - f[c] + v
<1> DEFINE g == [f EXCEPT ![c] = v]
<1>0. g \in [Ids -> Int]
  OBVIOUS
<1>1. PICK s : Sums(s, f, MaxOrders) /\ Total(f) = s[MaxOrders]
  BY TotalSums
<1> HIDE DEF g
<1>2. PICK t : Sums(t, g, MaxOrders) /\ Total(g) = t[MaxOrders]
  BY <1>0, TotalSums
<1> DEFINE Off(n) == IF n < c THEN t[n] = s[n] ELSE t[n] = s[n] - f[c] + v
           S == {n \in 0..MaxOrders : Off(n)}
<1>3. 0 \in S
  BY <1>1, <1>2, OmsAssumption DEF Sums, Ids
<1>4. ASSUME NEW n \in 1..MaxOrders, n - 1 \in S PROVE n \in S
  <2>1. n \in Ids /\ n \in Int /\ c \in Int /\ n - 1 \in 0..MaxOrders /\ n \in 0..MaxOrders
    BY OmsAssumption DEF Ids
  <2>2. s[n] = s[n - 1] + f[n] /\ t[n] = t[n - 1] + g[n]
    BY Zenon, <1>1, <1>2 DEF Sums
  <2>3. /\ s[n - 1] \in Int /\ t[n - 1] \in Int /\ s[n] \in Int /\ t[n] \in Int
        /\ f[n] \in Int /\ f[c] \in Int
    BY Zenon, <1>1, <1>2, <2>1 DEF Sums
  <2>4. Off(n - 1)
    BY <1>4
  <2>5. CASE n < c
    <3>1. g[n] = f[n] /\ n - 1 < c
      BY <2>1, <2>5 DEF g
    <3>2. t[n] = s[n]
      BY Zenon, <2>2, <2>4, <3>1
    <3> QED
      BY <2>1, <2>5, <3>2
  <2>6. CASE n = c
    <3>1. g[n] = v /\ n - 1 < c /\ ~(n < c)
      BY <2>1, <2>6 DEF g
    <3>2. t[n] = s[n] - f[c] + v
      BY <2>2, <2>3, <2>4, <2>6, <3>1
    <3> QED
      BY <2>1, <3>1, <3>2
  <2>7. CASE c < n
    <3>1. g[n] = f[n] /\ ~(n - 1 < c) /\ ~(n < c)
      BY <2>1, <2>7 DEF g
    <3>2. t[n] = s[n] - f[c] + v
      BY <2>2, <2>3, <2>4, <3>1
    <3> QED
      BY <2>1, <3>1, <3>2
  <2> QED
    BY <2>1, <2>5, <2>6, <2>7
<1>5. S \in SUBSET (0..MaxOrders)
  OBVIOUS
<1>6. S = 0..MaxOrders
  <2> HIDE DEF S
  <2> QED
    BY Zenon, <1>3, <1>4, <1>5, OmsAssumption, Upwards
<1>7. Off(MaxOrders)
  BY <1>6, OmsAssumption
<1> QED
  BY <1>1, <1>2, <1>7, OmsAssumption DEF Ids, g

\* Terms of zero total zero.
LEMMA TotalZero ==
    ASSUME NEW f \in [Ids -> Int], \A c \in Ids : f[c] = 0
    PROVE  Total(f) = 0
<1>1. PICK s : Sums(s, f, MaxOrders) /\ Total(f) = s[MaxOrders]
  BY TotalSums
<1> DEFINE S == {n \in 0..MaxOrders : s[n] = 0}
<1>2. 0 \in S /\ \A n \in 1..MaxOrders : n - 1 \in S => n \in S
  BY <1>1, OmsAssumption DEF Sums, Ids
<1>3. S \in SUBSET (0..MaxOrders)
  OBVIOUS
<1>4. S = 0..MaxOrders
  <2> HIDE DEF S
  <2> QED
    BY <1>2, <1>3, OmsAssumption, Upwards
<1> QED
  BY <1>1, <1>4, OmsAssumption

-----------------------------------------------------------------------------
\* Before the first session start nothing is recorded; after it the journal's ledger is
\* the opening holdings plus the recorded fills, and the running ledger is the same.
Ledger ==
    /\ held \in Nat
    /\ dbase = NoBase => /\ pc \in {"down", "session_start"}
                         /\ \A c \in Ids : disk[c].st = "none"
                         /\ pc = "session_start" => pos \in Nat
    /\ dbase # NoBase => /\ dpos = dbase + FillsOf(disk)
                         /\ pc # "down" => pos = dpos

\* An empty journal has no fills.
LEMMA NoFills ==
    ASSUME \A c \in Ids : Recorded(disk[c]) /\ disk[c].st = "none"
    PROVE  FillsOf(disk) = 0
<1>1. \A c \in Ids : Signed(disk[c].side, disk[c].filled) = 0
  BY DEF Recorded, NoOrder, Signed
<1>2. SignedFills(disk) \in [Ids -> Int] /\ \A c \in Ids : SignedFills(disk)[c] = 0
  BY <1>1 DEF SignedFills
<1> QED
  BY Zenon, <1>2, TotalZero DEF FillsOf

\* A signed count, without the sign of zero.
LEMMA SignedIs ==
    ASSUME NEW side, NEW qty \in Int
    PROVE  Signed(side, qty) = IF side = "buy" THEN qty ELSE 0 - qty
  BY DEF Signed

\* The ledger of the journal depends on the signed fills only.
LEMMA FillsSame ==
    ASSUME \A c \in Ids : Signed(disk'[c].side, disk'[c].filled) = Signed(disk[c].side, disk[c].filled)
    PROVE  FillsOf(disk)' = FillsOf(disk)
<1>1. SignedFills(disk)' = SignedFills(disk)
  BY Zenon DEF SignedFills
<1> QED
  BY Zenon, <1>1 DEF FillsOf, Total

\* At the start nothing is recorded and no process runs.
LEMMA InitLedger == Init => Ledger
  BY BrokerAssumption DEF Init, BrokerInit, OmsInit, Ledger, NoOrder

-----------------------------------------------------------------------------
\* A step that records no fill keeps the ledger.
LEMMA UnbookedLedger ==
    ASSUME Ledger, held' \in Nat, UNCHANGED <<dbase, dpos>>,
           \A c \in Ids : Signed(disk'[c].side, disk'[c].filled) = Signed(disk[c].side, disk[c].filled),
           \/ pc \notin {"down", "session_start"} /\ pos' = pos
           \/ disk' = disk /\ (pc' = "down" \/ (pc' = pc /\ pos' = pos))
    PROVE  Ledger'
<1>1. FillsOf(disk)' = FillsOf(disk)
  BY Zenon, FillsSame
<1> QED
  BY <1>1 DEF Ledger

\* The broker's own moves: it sells only what is held.
LEMMA BrokerHolds ==
    ASSUME IInv, Ledger, BrokerStep
    PROVE  held' \in Nat
<1>1. held \in Nat
  BY Zenon DEF Ledger
<1>2. CASE BrokerFill
  <2>1. PICK n \in Nos : (rows[n].side = "sell" => held > 0) /\ held' = held + Signed(rows[n].side, 1)
    BY Zenon, <1>2 DEF BrokerFill
  <2>2. rows[n].side \in {"buy", "sell"}
    BY Zenon DEF IInv, TypeOK, RowsTyped, RowType, Side
  <2> QED
    BY <1>1, <2>1, <2>2, SignedIs
<1>3. CASE ~BrokerFill
  <2>1. held' = held
    BY Zenon, <1>3 DEF BrokerStep, BrokerReject, LateOrder, LateCancel, WireDrop, ForeignOrder
  <2> QED
    BY Zenon, <1>1, <2>1
<1> QED
  BY <1>2, <1>3

\* The steps that leave the recorded orders alone.
LEMMA QuietLedger ==
    ASSUME IInv, Ledger,
           \/ Ends \/ Pauses \/ Same \/ BrokerStep
           \/ \E intent \in Intents, m \in Market : SubmitRiskReject(intent, m)
           \/ PostAccepted \/ PostRejected \/ PostUnknown
           \/ Fetch \/ AdoptDone \/ ApplyDone
           \/ \E c \in Ids : pc \in {"ready", "await"} /\ PostCancel(c, "confirm")
    PROVE  Ledger'
<1>1. CASE BrokerStep
  <2>1. UNCHANGED <<pos, pc, disk, dbase, dpos>>
    BY Zenon, <1>1 DEF BrokerStep, ledgerVars, diskVars
  <2> QED
    BY Zenon, <1>1, <2>1, BrokerHolds, UnbookedLedger
<1>2. CASE ~BrokerStep
  <2>1. held' = held /\ disk' = disk /\ UNCHANGED <<dbase, dpos>>
    <3>1. CASE Ends \/ Pauses \/ Same
      BY Zenon, <3>1 DEF Ends, Pauses, Quiet, Same, brokerVars, diskVars
    <3>2. CASE (\E intent \in Intents, m \in Market : SubmitRiskReject(intent, m)) \/ Fetch \/ AdoptDone \/ ApplyDone
      BY Zenon, <3>2 DEF SubmitRiskReject, AppendRiskReject, Fetch, AdoptDone, ApplyDone, brokerVars, diskVars
    <3>3. CASE PostAccepted \/ PostRejected \/ PostUnknown
      BY Zenon, <3>3 DEF PostAccepted, PostRejected, PostUnknown, Outcome, brokerVars, diskVars
    <3>4. CASE \E c \in Ids : pc \in {"ready", "await"} /\ PostCancel(c, "confirm")
      BY Zenon, <3>4 DEF PostCancel, diskVars
    <3> QED
      BY Zenon, <1>2, <3>1, <3>2, <3>3, <3>4
  <2>2. pc' = "down" \/ (pc' = pc /\ pos' = pos) \/ (pc \notin {"down", "session_start"} /\ pos' = pos)
    <3>1. CASE Ends \/ Pauses \/ Same
      BY Zenon, <3>1 DEF Ends, Forget, Pauses, Quiet, Same, ledgerVars
    <3>2. CASE (\E intent \in Intents, m \in Market : SubmitRiskReject(intent, m)) \/ Fetch \/ AdoptDone \/ ApplyDone
      BY Zenon, <3>2 DEF SubmitRiskReject, Fetch, AdoptDone, ApplyDone, ledgerVars
    <3>3. CASE PostAccepted \/ PostRejected \/ PostUnknown
      BY Zenon, <3>3 DEF PostAccepted, PostRejected, PostUnknown, Outcome, ledgerVars
    <3>4. CASE \E c \in Ids : pc \in {"ready", "await"} /\ PostCancel(c, "confirm")
      BY <3>4 DEF PostCancel, ledgerVars
    <3> QED
      BY Zenon, <1>2, <3>1, <3>2, <3>3, <3>4
  <2>3. held' \in Nat
    BY Zenon, <2>1 DEF Ledger
  <2> QED
    BY Zenon, <2>1, <2>2, <2>3, UnbookedLedger
<1> QED
  BY Zenon, <1>1, <1>2

-----------------------------------------------------------------------------
\* The steps that record something about an order that is no fill.
LEMMA RecordLedger ==
    ASSUME IInv, Books, Ledger,
           \/ \E intent \in Intents, m \in Market : SubmitIntent(intent, m)
           \/ JournalResult \/ Adopt \/ ResolveRetire
           \/ \E c \in Ids : Settling(c) /\ SetStatus(c)
    PROVE  Ledger'
<1>1. held' = held /\ UNCHANGED <<dbase, dpos>> /\ pos' = pos /\ pc \notin {"down", "session_start"}
  <2>1. CASE \E intent \in Intents, m \in Market : SubmitIntent(intent, m)
    BY <2>1 DEF SubmitIntent, AppendIntent, brokerVars, ledgerVars
  <2>2. CASE JournalResult \/ Adopt \/ ResolveRetire
    BY Zenon, <2>2 DEF JournalResult, Adopt, ResolveRetire, ResolveUnknown, AppendOrderEvent, brokerVars, ledgerVars
  <2>3. CASE \E c \in Ids : Settling(c) /\ SetStatus(c)
    BY <2>3 DEF Settling, SetStatus, AppendStatus, brokerVars, ledgerVars
  <2> QED
    BY Zenon, <2>1, <2>2, <2>3
<1>2. disk \in [Ids -> OrderType]
  BY Zenon DEF IInv, TypeOK, OrdersTyped
<1>3. ASSUME NEW c \in Ids
      PROVE  Signed(disk'[c].side, disk'[c].filled) = Signed(disk[c].side, disk[c].filled)
  <2>1. CASE \E intent \in Intents, m \in Market : SubmitIntent(intent, m)
    <3>1. PICK intent \in Intents : disk' = [disk EXCEPT ![seq + 1] = Order(intent, "pending_submit")] /\ seq < MaxOrders /\ pc = "ready"
      BY Zenon, <2>1 DEF SubmitIntent, AppendIntent
    <3>2. CASE c = seq + 1
      <4>1. seq = dseq /\ seq \in 0..MaxOrders
        BY Zenon, <3>1 DEF IInv, TypeOK, CountsTyped, Control
      <4>2. c > dseq
        BY <3>2, <4>1, OmsAssumption
      <4>3. disk[c].st = "none"
        BY Zenon, <4>2 DEF IInv, Blank
      <4>4. disk[c].filled = 0
        BY <4>3 DEF Books, Recorded, NoOrder
      <4>5. disk'[c] = Order(intent, "pending_submit")
        BY Zenon, <1>2, <3>1, <3>2
      <4>6. disk'[c].filled = 0
        BY <4>5 DEF Order
      <4> QED
        BY <4>4, <4>6, SignedIs
    <3>3. CASE c # seq + 1
      BY Zenon, <1>2, <3>1, <3>3
    <3> QED
      BY Zenon, <3>2, <3>3
  <2>2. CASE JournalResult \/ Adopt \/ ResolveRetire
    <3>1. PICK x, st, no : AppendOrderEvent(x, st, no)
      BY Zenon, <2>2 DEF JournalResult, Adopt, ResolveRetire, ResolveUnknown
    <3>2. disk'[c].side = disk[c].side /\ disk'[c].filled = disk[c].filled
      BY <1>2, <3>1 DEF AppendOrderEvent, OrderType
    <3> QED
      BY Zenon, <3>2
  <2>3. CASE \E x \in Ids : Settling(x) /\ SetStatus(x)
    <3>1. PICK x \in Ids : SetStatus(x)
      BY Zenon, <2>3
    <3>2. disk'[c].side = disk[c].side /\ disk'[c].filled = disk[c].filled
      BY <1>2, <3>1 DEF SetStatus, AppendStatus, OrderType
    <3> QED
      BY Zenon, <3>2
  <2> QED
    BY Zenon, <2>1, <2>2, <2>3
<1>4. held' \in Nat
  BY Zenon, <1>1 DEF Ledger
<1> QED
  BY Zenon, <1>1, <1>3, <1>4, UnbookedLedger

\* A new process takes the ledger of the journal, or the holdings before the first start.
LEMMA AssembleLedger ==
    ASSUME Ledger, NEW c \in Commands, Assemble(c)
    PROVE  Ledger'
<1>1. /\ disk' = disk /\ UNCHANGED <<held, dbase, dpos>>
      /\ pos' = IF dbase = NoBase THEN held ELSE dpos
      /\ pc' = IF dbase = NoBase THEN "session_start" ELSE "parity"
  BY Zenon DEF Assemble, brokerVars, diskVars
<1>2. FillsOf(disk)' = FillsOf(disk)
  BY Zenon, <1>1, FillsSame
<1> QED
  BY <1>1, <1>2 DEF Ledger

\* The first start of the session makes the holdings the opening balance.
LEMMA SessionStartLedger ==
    ASSUME IInv, Books, Ledger, SessionStart
    PROVE  Ledger'
<1>1. /\ disk' = disk /\ UNCHANGED <<held, pos>> /\ pc = "session_start" /\ pc' = "ready"
      /\ dbase' = (IF dbase = NoBase THEN pos ELSE dbase) /\ dpos' = (IF dbase = NoBase THEN pos ELSE dpos)
  BY Zenon DEF SessionStart, AppendSessionStart, brokerVars, ledgerVars
<1>2. FillsOf(disk)' = FillsOf(disk)
  BY Zenon, <1>1, FillsSame
<1>3. dbase = NoBase => FillsOf(disk) = 0
  BY Zenon, NoFills DEF Ledger, Books
<1> QED
  BY <1>1, <1>2, <1>3 DEF Ledger, NoBase

\* A fill is recorded: one term of the sum grows by as much as the ledger.
LEMMA ApplyFillLedger ==
    ASSUME IInv, Ledger, NEW c \in Ids, Traded(c), ApplyFill
    PROVE  Ledger'
<1> DEFINE f == Seen(c).filled
           side == mem[c].side
           g == SignedFills(disk)
           v == Signed(side, f)
<1>1. /\ pc = "apply" /\ held' = held /\ UNCHANGED dbase
      /\ pos' = pos + Signed(side, Delta(c)) /\ dpos' = dpos + Signed(side, Delta(c))
      /\ disk' = [disk EXCEPT ![c].filled = f]
  BY Zenon DEF Traded, ApplyFill, AppendFill, brokerVars
<1>2. disk \in [Ids -> OrderType] /\ mem[c].filled \in Nat /\ f \in Nat /\ Delta(c) = f - mem[c].filled
  BY Zenon DEF IInv, TypeOK, OrdersTyped, Traded, OrderType, RowType, Delta
<1>3. \A x \in Ids : Signed(disk[x].side, disk[x].filled) \in Int
  BY <1>2 DEF OrderType, Signed
<1>4. g \in [Ids -> Int] /\ g[c] = Signed(side, mem[c].filled) /\ v \in Int
  BY <1>2, <1>3 DEF Traded, SignedFills, Signed
<1>5. SignedFills(disk)' = [g EXCEPT ![c] = v]
  <2>1. /\ disk'[c].side = side /\ disk'[c].filled = f
        /\ \A x \in Ids : x # c => disk'[x] = disk[x]
    BY Zenon, <1>1, <1>2 DEF Traded, OrderType
  <2> HIDE DEF f, side
  <2> QED
    BY Zenon, <2>1 DEF SignedFills
<1>6. FillsOf(disk)' = Total([g EXCEPT ![c] = v]) /\ FillsOf(disk) = Total(g)
  BY <1>5 DEF FillsOf, Total
<1>7. Total(g) \in Int
  <2>1. PICK s : Sums(s, g, MaxOrders) /\ Total(g) = s[MaxOrders]
    BY Zenon, <1>4, TotalSums
  <2> QED
    BY <2>1, OmsAssumption DEF Sums
<1> HIDE DEF g
<1>8. FillsOf(disk)' = Total(g) - Signed(side, mem[c].filled) + v
  BY Zenon, <1>4, <1>6, TotalChange
<1>9. Signed(side, Delta(c)) = v - Signed(side, mem[c].filled) /\ Signed(side, mem[c].filled) \in Int
  BY <1>2, SignedIs DEF Signed
<1>10. dbase # NoBase /\ held \in Nat /\ dpos = dbase + Total(g) /\ pos = dpos /\ dbase \in Int
  BY <1>1, <1>6 DEF Ledger, IInv, TypeOK, CountsTyped
<1> HIDE DEF v, side, f
<1>11. dpos' = dbase' + FillsOf(disk)' /\ pos' = dpos'
  BY <1>1, <1>4, <1>7, <1>8, <1>9, <1>10
<1> QED
  BY Zenon, <1>1, <1>10, <1>11 DEF Ledger

\* Every step keeps the ledger.
LEMMA NextLedger == IInv /\ Books /\ Ledger /\ [Next]_vars => Ledger'
<1> SUFFICES ASSUME IInv, Books, Ledger, [Next]_vars PROVE Ledger'
  OBVIOUS
<1>1. CASE Ends \/ Pauses \/ Same \/ BrokerStep
  BY Zenon, <1>1, QuietLedger
<1>2. CASE Acts
  <2>1. CASE (\E c \in Commands : Assemble(c)) \/ SessionStart
    BY Zenon, <2>1, AssembleLedger, SessionStartLedger
  <2>2. CASE ApplyFill
    BY Zenon, <2>2, ApplyFillTrades, ApplyFillLedger
  <2>3. CASE ApplyNoFill \/ ApplyStatus
    <3>1. \E c \in Ids : Settling(c) /\ SetStatus(c)
      BY Zenon, <2>3, ApplyNoFillSettles, ApplyStatusSettles
    <3> QED
      BY Zenon, <3>1, RecordLedger
  <2>4. CASE \/ \E intent \in Intents, m \in Market : SubmitIntent(intent, m)
             \/ JournalResult \/ Adopt \/ ResolveRetire
    BY Zenon, <2>4, RecordLedger
  <2> QED
    BY Zenon, <1>2, <2>1, <2>2, <2>3, <2>4, QuietLedger DEF Acts, Submits, Manages, Cancels
<1> QED
  BY Zenon, <1>1, <1>2, Steps

\* Memory and journal have the same signed fills.
LEMMA SameLedger ==
    ASSUME IInv, Books, pc # "down"
    PROVE  FillsOf(mem) = FillsOf(disk)
<1>1. ASSUME NEW c \in Ids
      PROVE  Signed(mem[c].side, mem[c].filled) = Signed(disk[c].side, disk[c].filled)
  <2>1. mem[c] \in OrderType /\ disk[c] \in OrderType
    BY Zenon DEF IInv, TypeOK, OrdersTyped
  <2>2. CASE disk[c].st = "none"
    <3>1. mem[c].filled = 0 /\ disk[c].filled = 0
      BY <2>2 DEF Books, Running, Recorded, NoOrder
    <3> QED
      BY <3>1, SignedIs
  <2>3. CASE disk[c].st # "none" /\ pc = "result" /\ c = seq
    <3>1. Recovered(disk[c]) = [mem[c] EXCEPT !.st = "unknown", !.no = NoNo]
      BY Zenon, <2>3 DEF IInv, RecoveryExact, restore_session, Recovered
    <3>2. disk[c].filled = mem[c].filled /\ disk[c].side = mem[c].side
      BY Zenon, <2>1, <3>1 DEF Recovered, OrderType
    <3> QED
      BY Zenon, <3>2
  <2>4. CASE disk[c].st # "none" /\ ~(pc = "result" /\ c = seq)
    <3>1. disk[c].filled = mem[c].filled /\ disk[c].side = mem[c].side
      BY Zenon, <2>4, Agree
    <3> QED
      BY Zenon, <3>1
  <2> QED
    BY Zenon, <2>2, <2>3, <2>4
<1>2. SignedFills(mem) = SignedFills(disk)
  BY <1>1 DEF SignedFills
<1> QED
  BY Zenon, <1>2 DEF FillsOf

\* For any number of orders, crashes, lagging listings and foreign orders, the running ledger is
\* the opening holdings plus every fill once: _apply_fill and _replay_ledger (oms.py:358-376,
\* recovery.py:174-204) never book a share twice and never lose one.
THEOREM FillsCountedOnce == Spec => []LedgerCountsFillsOnce
<1>1. Init => IInv /\ Books /\ Ledger
  BY Zenon, InitInv, InitBooks, InitLedger
<1>2. IInv /\ Books /\ Ledger /\ [Next]_vars => (IInv /\ Books /\ Ledger)'
  BY Zenon, NextInv, NextBooks, NextLedger
<1>3. IInv /\ Books /\ Ledger => LedgerCountsFillsOnce
  BY Zenon, SameLedger DEF Ledger, LedgerCountsFillsOnce
<1> QED
  BY <1>1, <1>2, <1>3, PTL DEF Spec
=============================================================================
