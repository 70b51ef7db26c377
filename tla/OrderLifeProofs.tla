-------------------------- MODULE OrderLifeProofs ---------------------------
(***************************************************************************)
(* What the books give: the program never stops on what it wrote itself,   *)
(* the journalled orders implement OrderLife, and a recorded end is final. *)
(***************************************************************************)
EXTENDS OrderBooksProofs, TLAPS

-----------------------------------------------------------------------------
\* reconcile() asks only for legal transitions: an order that traded is never called accepted or
\* rejected again.
LEMMA LegalAsked ==
    ASSUME IInv, Books, NEW c \in Ids, mem[c].no # NoNo, disk[c].st # "none", Open(mem[c]),
           pc \in {"apply", "status"}, Seen(c).owner # Nobody, mem[c].filled <= Seen(c).filled
    PROVE  LegalTransition(mem[c].st, Derived(c))
<1>1. mem[c].st \in {"accepted", "partially_filled", "unknown"}
  BY SeenTerms DEF Open, OPEN_STATUSES
<1>2. Derived(c) \in {"accepted", "partially_filled", "filled", "cancelled", "rejected"}
  BY DerivedStatus DEF Derived
<1>3. mem[c].st = "partially_filled" => Derived(c) \notin {"accepted", "rejected"}
  <2> SUFFICES ASSUME mem[c].st = "partially_filled" PROVE Derived(c) \notin {"accepted", "rejected"}
    OBVIOUS
  <2>1. mem[c] \in OrderType /\ disk[c] \in OrderType /\ Seen(c) \in RowType
    BY Zenon, SeenTerms DEF IInv, TypeOK, OrdersTyped
  <2>2. Recovered(disk[c]) = Recovered(mem[c]) /\ disk[c].filled = mem[c].filled
    BY Zenon, Agree
  <2>3. disk[c].st = "partially_filled"
    BY <2>1, <2>2 DEF Recovered, RestoreStatus, OrderType
  <2>4. Seen(c).filled > 0 /\ Seen(c).filled \in Nat
    <3>1. Recorded(disk[c])
      BY Zenon DEF Books
    <3> QED
      BY <2>1, <2>2, <2>3, <3>1 DEF Recorded, OrderType, RowType
  <2> QED
    BY <2>4 DEF Derived, derive_status
<1>4. /\ ALLOWED_TRANSITIONS["unknown"] = {"accepted", "partially_filled", "filled", "cancelled", "rejected"}
      /\ ALLOWED_TRANSITIONS["accepted"] = {"partially_filled", "filled", "cancelled", "rejected"}
      /\ ALLOWED_TRANSITIONS["partially_filled"] = {"filled", "cancelled"}
  BY DEF ALLOWED_TRANSITIONS, OrderStatus, TERMINAL_STATUSES
<1> QED
  BY <1>1, <1>2, <1>3, <1>4 DEF LegalTransition

\* The program never stops on what it wrote or read itself: every journal it writes is one its
\* restore accepts (recovery.py:98-166) and transition() is never asked for a forbidden step
\* (oms.py:376), whatever the broker does between two listings and wherever a process dies.
THEOREM NeverStopsOnItself == Spec => []JournalSound
<1> ASSUME IInv, Books PROVE NoIllegalTransition
  <2> ASSUME pc = "apply", NEW c \in Applicable, ~Violates(c)
        PROVE  LegalTransition(mem[c].st, Derived(c))
    <3>1. /\ c \in Ids /\ mem[c] \in OrderType /\ mem[c].no # NoNo /\ disk[c].st # "none"
          /\ Seen(c) \in RowType
      BY ApplicableOrder
    <3>2. Open(mem[c]) /\ Seen(c).owner # Nobody
      BY DEF Applicable, News
    <3>3. mem[c].filled <= Seen(c).filled
      BY <3>1 DEF Violates, Delta, OrderType, RowType
    <3> QED
      BY Zenon, <3>1, <3>2, <3>3, LegalAsked
  <2> ASSUME pc = "status" PROVE LegalTransition(mem[cur].st, Derived(cur))
    <3>1. cur \in Ids /\ mem[cur].no # NoNo /\ disk[cur].st # "none" /\ mem[cur] \in OrderType
      BY OmsAssumption DEF IInv, TypeOK, OrdersTyped, CountsTyped, Control, Ids
    <3>2. Open(mem[cur]) /\ Seen(cur).owner # Nobody /\ mem[cur].filled = Seen(cur).filled
      BY Zenon DEF Books, Running
    <3>3. mem[cur].filled <= Seen(cur).filled
      BY <3>1, <3>2 DEF OrderType
    <3> QED
      BY Zenon, <3>1, <3>2, <3>3, LegalAsked
  <2> QED
    BY DEF NoIllegalTransition
<1>1. IInv /\ Books => JournalSound
  BY DEF JournalSound, JournalRestorable, IInv, Books
<1> QED
  BY <1>1, BooksHold, PTL

-----------------------------------------------------------------------------
\* The recorded orders as OrderLife sees them: their lives, fills and quantities.
Lives == [c \in Ids |-> LifeOf(c)]
Filled == [c \in Ids |-> disk[c].filled]
Quantity == [c \in Ids |-> disk[c].qty]

\* One order's life moves on along the table.
LifeMoves(c, st) ==
    /\ Lives[c] \in OrderStatus /\ st \in ALLOWED_TRANSITIONS[Lives[c]]
    /\ Lives' = [Lives EXCEPT ![c] = st]
    /\ Filled' = Filled /\ Quantity' = Quantity
    /\ st \in {"pending_submit", "accepted", "rejected"} => Filled[c] = 0
    /\ st = "partially_filled" => 0 < Filled[c] /\ Filled[c] < Quantity[c]
    /\ st = "filled" => Filled[c] = Quantity[c]
    /\ st = "cancelled" => Filled[c] < Quantity[c]

\* Nothing changes for OrderLife.
LifeRests == Lives' = Lives /\ Filled' = Filled /\ Quantity' = Quantity

\* An order is recorded for the first time.
LifeBegins(c) ==
    /\ Lives[c] = "none" /\ Lives' = [Lives EXCEPT ![c] = "pending_submit"]
    /\ \E i \in Intents : Quantity' = [Quantity EXCEPT ![c] = i.qty]
    /\ Filled' = Filled

\* A recorded order's fills grow.
LifeTrades(c) ==
    /\ Lives[c] \in {"unknown", "accepted", "partially_filled"}
    /\ \E f \in (Filled[c] + 1)..Quantity[c] : Filled' = [Filled EXCEPT ![c] = f]
    /\ Lives' = Lives /\ Quantity' = Quantity

\* These are the steps of OrderLife.
LEMMA LifeSteps ==
    ASSUME LifeRests \/ \E c \in Ids : LifeBegins(c) \/ LifeTrades(c) \/ \E st \in OrderStatus : LifeMoves(c, st)
    PROVE  [Life!LifeNext]_(Life!lifeVars)
<1> USE DEF Lives, Filled, Quantity
<1>1. CASE LifeRests
  BY <1>1 DEF LifeRests, Life!lifeVars
<1>2. ASSUME NEW c \in Ids, LifeBegins(c) PROVE Life!LifeNext
  <2>1. Life!Begin(c)
    BY Zenon, <1>2 DEF LifeBegins, Life!Begin
  <2> QED
    BY <2>1 DEF Life!LifeNext
<1>3. ASSUME NEW c \in Ids, LifeTrades(c) PROVE Life!LifeNext
  <2>1. Life!Trade(c)
    BY <1>3 DEF LifeTrades, Life!Trade
  <2> QED
    BY <2>1 DEF Life!LifeNext
<1> ASSUME NEW c \in Ids, NEW st \in OrderStatus, LifeMoves(c, st) PROVE Life!LifeNext
  <2>1. Life!Fits(st, Filled[c], Quantity[c])
    BY Zenon DEF LifeMoves, Life!Fits, OrderStatus
  <2>2. Life!ALLOWED_TRANSITIONS = ALLOWED_TRANSITIONS /\ Life!OrderStatus = OrderStatus
    BY Zenon DEF Life!ALLOWED_TRANSITIONS, ALLOWED_TRANSITIONS, Life!OrderStatus, OrderStatus, Life!TERMINAL_STATUSES,
       TERMINAL_STATUSES
  <2>3. Life!Move(c)
    BY Zenon, <2>1, <2>2 DEF LifeMoves, Life!Move
  <2> QED
    BY <2>3 DEF Life!LifeNext
<1> QED
  BY <1>1, <1>2, <1>3

\* One step of OrderLife, and recorded terminal orders stay as they are.
Lived ==
    /\ LifeRests \/ \E c \in Ids : LifeBegins(c) \/ LifeTrades(c) \/ \E st \in OrderStatus : LifeMoves(c, st)
    /\ \A c \in Ids : Terminal(disk[c]) => disk'[c] = disk[c]

\* A step that records nothing moves at most the order whose answer nobody waits for any more.
LEMMA UnrecordedLives ==
    ASSUME IInv, disk' = disk, pc' \in {"send", "result"} => pc \in {"send", "result"} /\ seq' = seq
    PROVE  Lived
<1> USE DEF Lives, Filled, Quantity
<1>1. Filled' = Filled /\ Quantity' = Quantity
  OBVIOUS
<1>2. CASE pc \in {"send", "result"} /\ pc' \notin {"send", "result"}
  <2>1. seq \in Ids /\ disk[seq].st = "pending_submit"
    BY <1>2 DEF IInv, Control
  <2>2. Lives[seq] = "pending_submit" /\ Lives' = [Lives EXCEPT ![seq] = "unknown"]
    BY Zenon, <1>2, <2>1 DEF LifeOf
  <2>3. "unknown" \in ALLOWED_TRANSITIONS["pending_submit"] /\ "unknown" \in OrderStatus
    BY DEF ALLOWED_TRANSITIONS, OrderStatus
  <2> HIDE DEF Lives, Filled, Quantity
  <2>4. LifeMoves(seq, "unknown")
    BY <1>1, <2>2, <2>3 DEF LifeMoves, OrderStatus
  <2> QED
    BY <2>1, <2>3, <2>4 DEF Lived
<1>3. CASE ~(pc \in {"send", "result"} /\ pc' \notin {"send", "result"})
  <2>1. Lives' = Lives
    BY <1>3 DEF LifeOf
  <2> HIDE DEF Lives, Filled, Quantity
  <2> QED
    BY <1>1, <2>1 DEF Lived, LifeRests
<1> QED
  BY <1>2, <1>3

\* One unfinished order is recorded anew, while nobody waits for an answer.
Rerecords(c, d) ==
    /\ disk' = [disk EXCEPT ![c] = d] /\ ~Terminal(disk[c])
    /\ pc \notin {"send", "result"} /\ pc' \notin {"send", "result"}

\* What that makes of its life.
LEMMA RecordedLife ==
    ASSUME IInv, NEW c \in Ids, NEW d, Rerecords(c, d)
    PROVE  /\ Lives' = [Lives EXCEPT ![c] = IF d.st = "pending_submit" THEN "unknown" ELSE d.st]
           /\ Filled' = [Filled EXCEPT ![c] = d.filled]
           /\ Quantity' = [Quantity EXCEPT ![c] = d.qty]
           /\ Lives[c] = IF disk[c].st = "pending_submit" THEN "unknown" ELSE disk[c].st
           /\ \A x \in Ids : Terminal(disk[x]) => disk'[x] = disk[x]
<1>1. \A x \in Ids : disk'[x] = IF x = c THEN d ELSE disk[x]
  BY DEF IInv, TypeOK, OrdersTyped, Rerecords
<1>2. \A x \in Ids : LifeOf(x) = IF disk[x].st = "pending_submit" THEN "unknown" ELSE disk[x].st
  BY Zenon DEF LifeOf, Rerecords
<1>3. \A x \in Ids : LifeOf(x)' = IF x = c THEN IF d.st = "pending_submit" THEN "unknown" ELSE d.st ELSE LifeOf(x)
  BY <1>1, <1>2 DEF LifeOf, Rerecords
<1>4. Lives' = [Lives EXCEPT ![c] = IF d.st = "pending_submit" THEN "unknown" ELSE d.st]
  BY Zenon, <1>3 DEF Lives
<1>5. \A x \in Ids : /\ disk'[x].filled = IF x = c THEN d.filled ELSE disk[x].filled
                   /\ disk'[x].qty = IF x = c THEN d.qty ELSE disk[x].qty
  BY Zenon, <1>1
<1>6. Filled' = [Filled EXCEPT ![c] = d.filled]
  BY Zenon, <1>5 DEF Filled
<1>7. Quantity' = [Quantity EXCEPT ![c] = d.qty]
  BY Zenon, <1>5 DEF Quantity
<1>8. \A x \in Ids : Terminal(disk[x]) => disk'[x] = disk[x]
  BY <1>1 DEF Rerecords
<1> QED
  BY Zenon, <1>2, <1>4, <1>6, <1>7, <1>8 DEF Lives

\* An update that leaves a function's value leaves the function.
LEMMA Unchanged ==
    /\ \A c \in Ids : [Filled EXCEPT ![c] = Filled[c]] = Filled
    /\ \A c \in Ids : [Quantity EXCEPT ![c] = Quantity[c]] = Quantity
    /\ \A c \in Ids : [Lives EXCEPT ![c] = Lives[c]] = Lives
    /\ \A c \in Ids : Filled[c] = disk[c].filled /\ Quantity[c] = disk[c].qty
  BY Zenon DEF Filled, Quantity, Lives

\* An intent begins a life.
LEMMA IntentLives ==
    ASSUME IInv, Books, NEW intent \in Intents, NEW m \in Market, SubmitIntent(intent, m)
    PROVE  Lived
<1> DEFINE c == seq + 1
           o == Order(intent, "pending_submit")
<1>1. pc = "ready" /\ pc' = "send" /\ seq' = c /\ disk' = [disk EXCEPT ![c] = o]
  BY Zenon DEF SubmitIntent, AppendIntent
<1> c \in Ids /\ disk[c].st = "none" /\ disk \in [Ids -> OrderType]
  <2>1. c \in Ids /\ c > dseq
    BY OmsAssumption DEF IInv, TypeOK, CountsTyped, Control, Ids, SubmitIntent
  <2> QED
    BY Zenon, <2>1 DEF IInv, TypeOK, OrdersTyped, Blank
<1>2. disk[c].filled = 0
  BY DEF Books, Recorded, NoOrder
<1>3. o.st = "pending_submit" /\ o.filled = 0 /\ o.qty = intent.qty
  BY DEF Order
<1> HIDE DEF c, o
<1>4. \A x \in Ids : disk'[x] = IF x = c THEN o ELSE disk[x]
  BY Zenon, <1>1
<1>5. Lives[c] = "none" /\ Lives' = [Lives EXCEPT ![c] = "pending_submit"]
  BY Zenon, <1>1, <1>3, <1>4 DEF Lives, LifeOf
<1>6. Quantity' = [Quantity EXCEPT ![c] = intent.qty] /\ Filled' = Filled
  BY Zenon, <1>2, <1>3, <1>4 DEF Quantity, Filled
<1>7. LifeBegins(c)
  BY Zenon, <1>5, <1>6 DEF LifeBegins
<1>8. \A x \in Ids : Terminal(disk[x]) => disk'[x] = disk[x]
  BY Zenon, <1>4 DEF Terminal, TERMINAL_STATUSES
<1> QED
  BY <1>7, <1>8 DEF Lived

\* The recorded answer moves it on.
LEMMA ResultLives ==
    ASSUME IInv, Books, JournalResult
    PROVE  Lived
<1> DEFINE st == mem[seq].st
           d == [disk[seq] EXCEPT !.st = st, !.no = mem[seq].no]
<1>1. /\ seq \in Ids /\ pc = "result" /\ pc' = "submitted" /\ seq' = seq
      /\ st \in {"accepted", "rejected", "unknown"}
      /\ disk \in [Ids -> OrderType] /\ disk[seq].st = "pending_submit" /\ disk[seq].filled = 0
      /\ disk' = [disk EXCEPT ![seq] = d]
  BY Zenon DEF IInv, TypeOK, OrdersTyped, Control, JournalResult, AppendOrderEvent, Books, Running
<1>2. disk[seq] \in OrderType
  BY <1>1
<1>3. d.st = st /\ d.filled = disk[seq].filled /\ d.qty = disk[seq].qty
  BY <1>2 DEF OrderType
<1> HIDE DEF d, st
<1>4. \A x \in Ids : disk'[x] = IF x = seq THEN d ELSE disk[x]
  BY <1>1
<1>5. Lives[seq] = "pending_submit" /\ Lives' = [Lives EXCEPT ![seq] = st]
  BY Zenon, <1>1, <1>3, <1>4 DEF Lives, LifeOf
<1>6. Filled' = Filled /\ Quantity' = Quantity /\ Filled[seq] = 0
  BY <1>1, <1>3, <1>4 DEF Filled, Quantity
<1>7. ALLOWED_TRANSITIONS["pending_submit"] = {"accepted", "rejected", "unknown"}
  BY DEF ALLOWED_TRANSITIONS, OrderStatus
<1>8. LifeMoves(seq, st) /\ st \in OrderStatus
  BY Zenon, <1>1, <1>5, <1>6, <1>7 DEF LifeMoves, OrderStatus
<1>9. \A x \in Ids : Terminal(disk[x]) => disk'[x] = disk[x]
  BY Zenon, <1>1, <1>4 DEF Terminal, TERMINAL_STATUSES
<1> QED
  BY <1>1, <1>8, <1>9 DEF Lived

\* An adopted number is no part of an order's life.
LEMMA AdoptLives ==
    ASSUME IInv, Adopt
    PROVE  Lived
<1>1. PICK c \in Adoptable : \E n \in Candidates(c) : AppendOrderEvent(c, disk[c].st, n) /\ pc = "adopt" /\ pc' = "adopt"
  BY DEF Adopt
<1> PICK n \in Candidates(c) : AppendOrderEvent(c, disk[c].st, n) /\ pc = "adopt" /\ pc' = "adopt"
  BY Zenon, <1>1
<1> c \in Ids /\ disk[c] \in OrderType /\ disk[c].st # "none" /\ mem[c] \in OrderType /\ mem[c].st = "unknown"
  <2>1. c \in Ids /\ mem[c].st = "unknown"
    BY OmsAssumption DEF Adoptable, IInv, TypeOK, CountsTyped, Control, Ids
  <2> QED
    BY <2>1 DEF IInv, TypeOK, OrdersTyped, RecoveryExact
<1> DEFINE d == [disk[c] EXCEPT !.st = disk[c].st, !.no = n]
<1>2. disk' = [disk EXCEPT ![c] = d]
  BY Zenon DEF AppendOrderEvent
<1>3. d.st = disk[c].st /\ d.filled = disk[c].filled /\ d.qty = disk[c].qty
  BY DEF OrderType
<1> HIDE DEF d
<1>4. ~Terminal(disk[c])
  <2>1. Recovered(disk[c]) = Recovered(mem[c])
    BY Agree
  <2> QED
    BY <2>1 DEF Recovered, RestoreStatus, OrderType, Terminal, TERMINAL_STATUSES
<1>5. Rerecords(c, d)
  BY <1>2, <1>4 DEF Rerecords
<1>6. /\ Lives' = [Lives EXCEPT ![c] = Lives[c]] /\ Filled' = [Filled EXCEPT ![c] = Filled[c]]
      /\ Quantity' = [Quantity EXCEPT ![c] = Quantity[c]]
      /\ \A x \in Ids : Terminal(disk[x]) => disk'[x] = disk[x]
  BY <1>3, <1>5, RecordedLife, Unchanged
<1> QED
  BY <1>6, Unchanged DEF Lived, LifeRests

\* A fill is traded.
LEMMA FillLives ==
    ASSUME IInv, Books, ApplyFill
    PROVE  Lived
<1>1. PICK c \in Ids : Traded(c)
  BY Zenon, ApplyFillTrades
<1> DEFINE f == Seen(c).filled
           d == [disk[c] EXCEPT !.filled = f]
<1>2. /\ mem[c] \in OrderType /\ disk[c] \in OrderType /\ Seen(c) \in RowType
      /\ mem[c].no # NoNo /\ disk[c].st # "none" /\ Open(mem[c])
      /\ disk[c].filled = mem[c].filled /\ disk[c].qty = mem[c].qty
      /\ mem[c].filled < f /\ f <= mem[c].qty
      /\ pc = "apply" /\ pc' = "status" /\ disk' = [disk EXCEPT ![c] = d]
  BY <1>1 DEF Traded, ApplyFill, AppendFill
<1>3. f \in (disk[c].filled + 1)..disk[c].qty
  BY <1>2 DEF RowType, OrderType
<1>4. d.st = disk[c].st /\ d.filled = f /\ d.qty = disk[c].qty
  BY Zenon, <1>2 DEF OrderType
<1> HIDE DEF d, f
<1>5. disk[c].st \in {"pending_submit", "unknown", "accepted", "partially_filled"}
  <2>1. Recovered(disk[c]) = Recovered(mem[c])
    BY Zenon, <1>2, Agree
  <2> QED
    BY Zenon, <1>2, <2>1 DEF Recovered, RestoreStatus, OrderType, Open, OPEN_STATUSES
<1>6. Rerecords(c, d)
  BY <1>2, <1>5 DEF Rerecords, Terminal, TERMINAL_STATUSES
<1>7. /\ Lives' = [Lives EXCEPT ![c] = Lives[c]] /\ Filled' = [Filled EXCEPT ![c] = f]
      /\ Quantity' = [Quantity EXCEPT ![c] = Quantity[c]]
      /\ Lives[c] = IF disk[c].st = "pending_submit" THEN "unknown" ELSE disk[c].st
      /\ \A x \in Ids : Terminal(disk[x]) => disk'[x] = disk[x]
  BY <1>4, <1>6, RecordedLife, Unchanged
<1>8. LifeTrades(c)
  BY Zenon, <1>3, <1>5, <1>7, Unchanged DEF LifeTrades
<1> QED
  BY <1>7, <1>8 DEF Lived

\* A status moves the order on along the table, or is the one it has.
LEMMA StatusLives ==
    ASSUME IInv, Books, NEW c \in Ids, Settling(c), SetStatus(c)
    PROVE  Lived
<1> DEFINE st == Derived(c)
           d == [disk[c] EXCEPT !.st = st]
<1>1. /\ st \in {"accepted", "partially_filled", "filled", "cancelled", "rejected"}
      /\ st \in {"accepted", "rejected"} => mem[c].filled = 0
      /\ st = "partially_filled" => 0 < mem[c].filled /\ mem[c].filled < mem[c].qty
      /\ st = "filled" => mem[c].filled = mem[c].qty
      /\ st = "cancelled" => mem[c].filled < mem[c].qty
  BY DerivedFits
<1> /\ mem[c] \in OrderType /\ disk[c] \in OrderType /\ mem[c].no # NoNo /\ Open(mem[c])
    /\ disk[c].filled = mem[c].filled /\ disk[c].qty = mem[c].qty
    /\ Recovered(disk[c]) = Recovered(mem[c])
  BY Zenon, Agree DEF IInv, TypeOK, OrdersTyped, Settling
<1>2. /\ pc \in {"apply", "status"} /\ pc' = "apply" /\ disk' = [disk EXCEPT ![c] = d]
      /\ st = mem[c].st \/ st \in ALLOWED_TRANSITIONS[mem[c].st]
  BY DEF Settling, SetStatus, AppendStatus, LegalTransition
<1> HIDE DEF st
<1>3. d.st = st /\ d.filled = disk[c].filled /\ d.qty = disk[c].qty
  BY Zenon DEF OrderType
<1> HIDE DEF d
<1> mem[c].st \in {"unknown", "accepted", "partially_filled"}
  BY DEF Books, Running, Open, OPEN_STATUSES
<1>4. disk[c].st = mem[c].st \/ (disk[c].st = "pending_submit" /\ mem[c].st = "unknown")
  BY Zenon DEF Recovered, RestoreStatus, OrderType
<1>5. Rerecords(c, d)
  BY Zenon, <1>2, <1>4 DEF Rerecords, Terminal, TERMINAL_STATUSES
<1>6. /\ Lives' = [Lives EXCEPT ![c] = st] /\ Filled' = [Filled EXCEPT ![c] = Filled[c]]
      /\ Quantity' = [Quantity EXCEPT ![c] = Quantity[c]]
      /\ Lives[c] = mem[c].st /\ Filled[c] = mem[c].filled /\ Quantity[c] = mem[c].qty
      /\ \A x \in Ids : Terminal(disk[x]) => disk'[x] = disk[x]
  BY <1>1, <1>3, <1>4, <1>5, RecordedLife, Unchanged
<1>7. CASE st = mem[c].st
  BY Zenon, <1>6, <1>7, Unchanged DEF Lived, LifeRests
<1>8. CASE st \in ALLOWED_TRANSITIONS[mem[c].st]
  <2>1. LifeMoves(c, st) /\ st \in OrderStatus
    BY Zenon, <1>1, <1>6, <1>8, Unchanged DEF LifeMoves, OrderStatus
  <2> QED
    BY Zenon, <1>6, <2>1 DEF Lived
<1> QED
  BY <1>2, <1>7, <1>8

\* A retired unknown order is rejected, and nothing of it was traded.
LEMMA RetireLives ==
    ASSUME IInv, Books, ResolveRetire
    PROVE  Lived
<1> DEFINE c == cmd.id
           d == [disk[c] EXCEPT !.st = "rejected", !.no = disk[c].no]
<1> /\ c \in Ids /\ disk[c].st \in {"pending_submit", "unknown"}
    /\ disk[c] \in OrderType /\ disk[c].filled = 0
  BY Zenon, RetireOrder
<1>1. pc = "resolve" /\ pc' = "resolved" /\ disk' = [disk EXCEPT ![c] = d]
  BY Zenon DEF ResolveRetire, ResolveUnknown, AppendOrderEvent
<1>2. d.st = "rejected" /\ d.filled = disk[c].filled /\ d.qty = disk[c].qty
  BY DEF OrderType
<1> HIDE DEF c, d
<1>3. Rerecords(c, d)
  BY Zenon, <1>1 DEF Rerecords, Terminal, TERMINAL_STATUSES
<1>4. /\ Lives' = [Lives EXCEPT ![c] = "rejected"] /\ Filled' = [Filled EXCEPT ![c] = Filled[c]]
      /\ Quantity' = [Quantity EXCEPT ![c] = Quantity[c]]
      /\ Lives[c] = "unknown" /\ Filled[c] = 0
      /\ \A x \in Ids : Terminal(disk[x]) => disk'[x] = disk[x]
  BY <1>2, <1>3, RecordedLife, Unchanged
<1>5. "rejected" \in ALLOWED_TRANSITIONS["unknown"]
  BY Zenon DEF ALLOWED_TRANSITIONS, OrderStatus, TERMINAL_STATUSES
<1>6. LifeMoves(c, "rejected") /\ "rejected" \in OrderStatus
  BY Zenon, <1>4, <1>5, Unchanged DEF LifeMoves, OrderStatus
<1> QED
  BY Zenon, <1>4, <1>6 DEF Lived

\* The steps that record nothing about an order.
LEMMA OtherLives ==
    ASSUME IInv,
           \/ Ends \/ Pauses \/ Same \/ BrokerStep
           \/ (\E c \in Commands : Assemble(c)) \/ SessionStart
           \/ \E intent \in Intents, m \in Market : SubmitRiskReject(intent, m)
           \/ PostAccepted \/ PostRejected \/ PostUnknown
           \/ Fetch \/ AdoptDone \/ ApplyDone
           \/ \E c \in Ids : pc \in {"ready", "await"} /\ PostCancel(c, "confirm")
    PROVE  Lived
<1>1. disk' = disk /\ (pc' \in {"send", "result"} => pc \in {"send", "result"} /\ seq' = seq)
  <2>1. CASE Ends \/ Pauses \/ Same \/ BrokerStep
    BY Zenon, <2>1 DEF Ends, Forget, Pauses, Quiet, Same, BrokerStep, diskVars
  <2>2. CASE (\E c \in Commands : Assemble(c)) \/ SessionStart
             \/ \E intent \in Intents, m \in Market : SubmitRiskReject(intent, m)
    BY Zenon, <2>2 DEF Assemble, SessionStart, AppendSessionStart, SubmitRiskReject, AppendRiskReject, diskVars
  <2>3. CASE PostAccepted \/ PostRejected \/ PostUnknown
    BY <2>3 DEF PostAccepted, PostRejected, PostUnknown, Outcome, diskVars
  <2>4. CASE \/ Fetch \/ AdoptDone \/ ApplyDone
             \/ \E c \in Ids : pc \in {"ready", "await"} /\ PostCancel(c, "confirm")
    BY Zenon, <2>4 DEF Fetch, AdoptDone, ApplyDone, PostCancel, diskVars, IInv, TypeOK, LabelsTyped, Returns
  <2> QED
    BY Zenon, <2>1, <2>2, <2>3, <2>4
<1> QED
  BY Zenon, <1>1, UnrecordedLives

\* Every step of the program is one of OrderLife.
LEMMA NextLives == IInv /\ Books /\ [Next]_vars => Lived
<1> SUFFICES ASSUME IInv, Books, [Next]_vars PROVE Lived
  OBVIOUS
<1>1. CASE Ends \/ Pauses \/ Same \/ BrokerStep
  BY Zenon, <1>1, OtherLives
<1>2. CASE Acts
  <2>1. CASE \E intent \in Intents, m \in Market : SubmitIntent(intent, m)
    BY <2>1, IntentLives
  <2>2. CASE ApplyNoFill \/ ApplyStatus
    <3>1. \E c \in Ids : Settling(c) /\ SetStatus(c)
      BY <2>2, ApplyNoFillSettles, ApplyStatusSettles
    <3> QED
      BY <3>1, StatusLives
  <2>3. CASE JournalResult \/ Adopt \/ ApplyFill \/ ResolveRetire
    BY <2>3, ResultLives, AdoptLives, FillLives, RetireLives
  <2> QED
    BY <1>2, <2>1, <2>2, <2>3, OtherLives DEF Acts, Submits, Manages, Cancels
<1> QED
  BY <1>1, <1>2, Steps

\* The journalled orders live as OrderLife promises, whatever processes come and go:
\* crashes, late answers and restarts between any two records included (oms.py,
\* recovery.py).
THEOREM JournalImplementsLives == Spec => ImplementsOrderLife
<1>1. Init => Life!LifeInit
  BY DEF Init, OmsInit, Life!LifeInit, LifeOf, NoOrder
<1>2. IInv /\ Books /\ [Next]_vars => [Life!LifeNext]_(Life!lifeVars)
  BY NextLives, LifeSteps DEF Lived
<1> QED
  BY <1>1, <1>2, BooksHold, PTL DEF Spec, ImplementsOrderLife, Life!LifeSpec

\* A recorded terminal order is never touched again (oms.py:321-376, recovery.py:87-171):
\* no later fill, status, adoption or resolution is recorded for it.
THEOREM EndsForGood == Spec => TerminalForGood
<1>1. IInv /\ Books /\ [Next]_vars => [\A c \in Ids : Terminal(disk[c]) => disk'[c] = disk[c]]_vars
  BY NextLives DEF Lived
<1> QED
  BY <1>1, BooksHold, PTL DEF Spec, TerminalForGood
=============================================================================
