------------------------------ MODULE LiveWatch ------------------------------
(* How an admitted symbol reaches a live connection: DynamicPairWatcher of          *)
(* src/realtime/session.py polls the IPC file that Discovery writes and subscribes  *)
(* new pairs while the receive loop runs (subscribe_live, _await_live_ack and       *)
(* _route_live_ack of src/realtime/adapters/kis.py and json_ws.py).                 *)
(*                                                                                  *)
(* One feed is watched, with one stream, so a pair is its code.  KeyedAcks tells    *)
(* the adapters apart: answers of KIS name their pair; those of LS do not, and LS   *)
(* takes a request of which everything was rejected for a rejected credential.      *)
(* The vendor refuses the codes of Unlisted and answers each request once, in order.*)
EXTENDS Discovery

CONSTANTS Watched, Unlisted, KeyedAcks

VARIABLES link,     \* the primary connection and its adapter
          standby,  \* pairs a standby connection was brought up with, or NoStandby
          watch     \* the watcher

watchVars == <<link, standby, watch>>
liveVars  == <<discVars, watchVars>>

Nobody    == "nobody"
NoStandby == {"no standby"}
NoRev     == -1

\* held: _subscribed; wire: answers on their way; streamed: what the vendor sends.
NewLink(pairs) == [up |-> TRUE, held |-> pairs \ Unlisted, streamed |-> pairs \ Unlisted,
                   waiter |-> Nobody, late |-> 0, wire |-> <<>>]
NoLink  == [NewLink({}) EXCEPT !.up = FALSE]

Entries == SelectSeq(ipc.entries, LAMBDA e : e.feed = Watched)
WantedPairs  == [i \in DOMAIN Entries |-> Entries[i].code]

\* bound: the adapter the watcher works with is still the primary.
LiveInit ==
    /\ link = NoLink /\ standby = NoStandby
    /\ watch = [at |-> "off", bound |-> FALSE, rev |-> NoRev, queue |-> <<>>, acks |-> <<>>,
                accepted |-> {}, rejected |-> {}]

\* pairs() subscribed on a new connection; pump starts the watcher, which is unbound.
ConnectFeed ==
    /\ ~link.up
    /\ link' = NewLink(watch.accepted)
    /\ watch' = [watch EXCEPT !.at = "idle", !.bound = FALSE]
    /\ UNCHANGED <<standby, discVars>>

\* The connection is lost: pump cancels the watcher, in the middle of a tick or not.
\* With reboot, the whole process starts again and reads the pairs of the IPC file.
LoseFeed(reboot) ==
    /\ link.up
    /\ Blow(TRUE)
    /\ link' = NoLink /\ standby' = NoStandby
    /\ watch' = [watch EXCEPT !.at = "off", !.queue = <<>>, !.acks = <<>>,
                              !.accepted = IF reboot THEN Range(WantedPairs) ELSE @,
                              !.rejected = IF reboot THEN {} ELSE @]
    /\ UNCHANGED <<membership, ipc, finder, planned, polls, missed>>

\* The handover brings up a standby with the pairs of that moment, and cuts over later.
BringUpStandby ==
    /\ link.up /\ standby = NoStandby
    /\ Blow(TRUE)
    /\ standby' = watch.accepted
    /\ UNCHANGED <<link, watch, membership, ipc, finder, planned, polls, missed>>

CutOverFeed ==
    /\ link.up /\ standby # NoStandby
    /\ link' = NewLink(standby) /\ standby' = NoStandby
    /\ watch' = [watch EXCEPT !.bound = FALSE]
    /\ UNCHANGED discVars

------------------------------------------------------------------------------
(* The watcher *)

\* A tick up to the first request.  An unchanged revision on the same adapter ends it at
\* once.  More pairs than the adapter has room for: ValueError, and the next tick tries again.
tick ==
    /\ watch.at = "idle" /\ link.up
    /\ ~(watch.bound /\ ipc.rev = watch.rev)
    /\ LET new == SelectSeq(WantedPairs, LAMBDA c : c \notin link.held \cup watch.rejected)
           fits == Cardinality(link.held) + Len(new) <= FeedCap[Watched]
       IN  watch' = [watch EXCEPT !.bound = TRUE,
                                  !.rev = IF new = <<>> \/ fits THEN ipc.rev ELSE NoRev,
                                  !.at = IF new = <<>> \/ ~fits THEN "idle" ELSE "send",
                                  !.queue = new, !.acks = <<>>]
    /\ UNCHANGED <<link, standby, discVars>>

\* subscribe_live sends the next request.  On an adapter that was retired meanwhile the
\* send raises, and the tick ends without a record.
SendRequest ==
    /\ watch.at = "send" /\ watch.queue # <<>>
    /\ IF watch.bound
       THEN LET c == Head(watch.queue)
            IN  /\ link' = [link EXCEPT !.waiter = c,
                                        !.wire = Append(@, [code |-> c, ok |-> c \notin Unlisted]),
                                        !.streamed = @ \cup ({c} \ Unlisted)]
                /\ watch' = [watch EXCEPT !.at = "wait"]
       ELSE /\ watch' = [watch EXCEPT !.at = "idle", !.rev = NoRev, !.queue = <<>>, !.acks = <<>>]
            /\ UNCHANGED link
    /\ UNCHANGED <<standby, discVars>>

Answered(verdict) ==
    watch' = [watch EXCEPT !.at = "send", !.queue = Tail(@),
                           !.acks = Append(@, [code |-> Head(watch.queue), verdict |-> verdict])]

RouteAny(ack) == link.waiter # Nobody

\* The waiter an answer resolves: KIS compares the pair, LS gives it to whoever waits.
Resolves(ack) ==
    link.waiter # Nobody /\ (KeyedAcks => ack.code = link.waiter)

\* recv meets an answer.  One that nobody waits for is expected after a timeout (and on
\* LS ignored anyway); otherwise KIS takes it for an unknown frame and disconnects.
_route_live_ack ==
    /\ link.up /\ link.wire # <<>>
    /\ LET ack  == Head(link.wire)
           rest == [link EXCEPT !.wire = Tail(@)]
       IN  IF Resolves(ack)
           THEN /\ link' = [rest EXCEPT !.waiter = Nobody,
                                        !.held = IF ack.ok THEN @ \cup {link.waiter} ELSE @]
                /\ Answered(IF ack.ok THEN "accepted" ELSE "rejected")
                /\ UNCHANGED standby
           ELSE IF link.waiter # Nobody \/ link.late > 0 \/ ~KeyedAcks
           THEN /\ link' = IF link.waiter = Nobody /\ link.late > 0 THEN [rest EXCEPT !.late = @ - 1] ELSE rest
                /\ UNCHANGED <<standby, watch>>
           ELSE /\ link' = NoLink /\ standby' = NoStandby
                /\ watch' = [watch EXCEPT !.at = "off", !.queue = <<>>, !.acks = <<>>]
    /\ UNCHANGED discVars

\* _await_live_ack gives up.  On a retired adapter it has to: nothing reads its socket.
AckTimeout ==
    /\ watch.at = "wait"
    /\ Blow(watch.bound)
    /\ link' = IF watch.bound THEN [link EXCEPT !.waiter = Nobody, !.late = @ + 1] ELSE link
    /\ Answered("timeout")
    /\ UNCHANGED <<standby, membership, ipc, finder, planned, polls, missed>>

Acked(verdict) == {watch.acks[i].code : i \in {k \in DOMAIN watch.acks : watch.acks[k].verdict = verdict}}

\* The end of subscribe_live.  LS: everything answered was rejected, VendorAuthRejected.
\* Otherwise _record: a timed out pair counts neither as accepted nor as rejected.
_record ==
    /\ watch.at = "send" /\ watch.queue = <<>>
    /\ watch' = IF ~KeyedAcks /\ Acked("accepted") = {} /\ Acked("rejected") # {}
                THEN [watch EXCEPT !.at = "idle", !.rev = NoRev, !.acks = <<>>]
                ELSE [watch EXCEPT !.at = "idle", !.acks = <<>>,
                                   !.accepted = @ \cup Acked("accepted"),
                                   !.rejected = @ \cup Acked("rejected")]
    /\ UNCHANGED <<link, standby, discVars>>

LiveStep == ConnectFeed \/ tick \/ SendRequest \/ _route_live_ack \/ _record
Unbound  == ~watch.bound /\ AckTimeout

LiveNext ==
    \/ DiscNext /\ UNCHANGED watchVars
    \/ LiveStep
    \/ AckTimeout
    \/ \E reboot \in BOOLEAN : LoseFeed(reboot)
    \/ BringUpStandby
    \/ CutOverFeed

------------------------------------------------------------------------------
(* Properties *)

\* Every variable has its type.
LiveTypeOK ==
    /\ link.held \subseteq Codes /\ link.streamed \subseteq Codes /\ link.late \in Nat
    /\ link.waiter \in Codes \cup {Nobody} /\ link.wire \in Seq([code : Codes, ok : BOOLEAN])
    /\ standby \subseteq Codes \/ standby = NoStandby
    /\ watch.at \in {"off", "idle", "send", "wait"} /\ watch.rev \in Nat \cup {NoRev}
    /\ watch.accepted \subseteq Codes /\ watch.rejected \subseteq Codes

\* subscribed_pairs, "Pairs accepted on the current connection": a pair the adapter holds
\* is one the vendor streams on that very connection, over timeouts, answers that come
\* late, cut-overs and reconnections.  (With KeyedAcks = FALSE an answer that comes after
\* its timeout is given to the next pair, and this fails.)
HeldIsStreamed == link.held \subseteq link.streamed

\* _late_acks: an answer that comes after its timeout is expected, so no answer of the
\* vendor to a request of ours ends the connection as an unknown frame.
LateAnswersExpected ==
    (link.up /\ link.wire # <<>> /\ link.waiter = Nobody) => link.late > 0

\* A live subscription is what the adapter says it is (subscribe_live, _await_live_ack).
SubscriptionsTrue == LiveTypeOK /\ HeldIsStreamed /\ LateAnswersExpected

\* tick: whatever the discovery child wrote for this feed, and the vendor lists, is streamed
\* in the end, over lost connections and restarts, cut-overs to a standby brought up
\* earlier, and timeouts in the middle of a subscription.
EntryServed ==
    []<>(Range(WantedPairs) \ Unlisted \subseteq link.streamed)
==============================================================================
