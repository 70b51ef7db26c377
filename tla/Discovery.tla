------------------------------ MODULE Discovery ------------------------------
(* The intraday discovery child (src/cli/collect_intraday_discovery.py) with the    *)
(* admission rule of src/universe/intraday.py and its two files: the membership     *)
(* ledger (src/universe/membership.py) and the dynamic-admissions file, "the IPC    *)
(* file", which the collectors poll.                                                *)
(*                                                                                  *)
(* A ranking is the sequence of the codes that qualify, by trade value; thresholds, *)
(* prices and warning levels are left out.  Ack rows, which every reader of the     *)
(* membership skips, are not modelled.  A write either happens or fails as a whole.     *)
EXTENDS Integers, Sequences, FiniteSetsExt, SequencesExt

CONSTANTS Codes,        \* symbols
          StaticCodes,  \* planned on an LS shard before the open
          Barred,       \* not eligible for admission (read at start-up)
          Suspended,    \* excluded by their security status
          Rankings,     \* what a poll of the ranking may return
          FillOrder,    \* the dynamic feeds, in the order they are filled
          FeedCap,      \* free symbols of each dynamic feed
          MaxPolls, MaxBlows

VARIABLES membership,    \* rows of the membership file
          ipc,       \* [rev, entries] of the IPC file
          finder,    \* the discovery child
          planned,   \* the daemon's plan of the LS shards: "no", "recorded" in time, or not ("late")
          polls,     \* admission polls so far
          missed,    \* history: admitted codes whose IPC entry was never written
          blows      \* crashes and failed calls so far

discVars == <<membership, ipc, finder, planned, polls, missed, blows>>

ASSUME CapAssumption == FeedCap \in [Range(FillOrder) -> Nat]

NoFeed == "none"
Feeds  == Range(FillOrder)
Rows   == [code : Codes, tier : {"A", "B", "C"}, source : {"static", "dynamic", "screen"},
           feed : Feeds \cup {NoFeed}]
TierRank(tier) == CASE tier = "C" -> 0 [] tier = "B" -> 1 [] tier = "A" -> 2

Blow(b) == IF b THEN blows < MaxBlows /\ blows' = blows + 1 ELSE UNCHANGED blows

------------------------------------------------------------------------------
(* The membership ledger *)

\* The last row at the highest tier seen of each symbol.
effective_tiers(rows) ==
    [c \in {rows[i].code : i \in DOMAIN rows} |->
        LET mine == {i \in DOMAIN rows : rows[i].code = c}
            best == {i \in mine : \A j \in mine : TierRank(rows[j].tier) <= TierRank(rows[i].tier)}
        IN  rows[Max(best)]]

DynamicRows(rows, f) == {i \in DOMAIN rows : rows[i].source = "dynamic" /\ rows[i].feed = f}

state_from_ledger(rows) ==
    LET tiers == effective_tiers(rows)
    IN  [collected |-> {c \in DOMAIN tiers : /\ tiers[c].tier \in {"A", "B"}
                                             /\ tiers[c].source \in {"static", "dynamic"}},
         left      |-> [f \in Feeds |-> Max({0, FeedCap[f] - Cardinality(DynamicRows(rows, f))})]]

\* The daemon's plan of the LS shards writes the static rows once a day.  A failed
\* write is logged only; a restarted daemon plans again.
StaticRows ==
    SetToSeq({[code |-> c, tier |-> "A", source |-> "static", feed |-> NoFeed] : c \in StaticCodes})

_record_static_membership ==
    /\ \A i \in DOMAIN membership : membership[i].source # "static"
    /\ \/ /\ membership' = membership \o StaticRows /\ Blow(FALSE)
          /\ planned' = IF planned = "no" THEN "recorded" ELSE planned
       \/ /\ UNCHANGED membership /\ Blow(TRUE)
          /\ planned' = "late"
    /\ UNCHANGED <<ipc, finder, polls, missed>>

------------------------------------------------------------------------------
(* The child *)

FinderDown == [at |-> "down", collected |-> {}, ineligible |-> {}, left |-> FeedCap, reject_once |-> {},
         capacity_once |-> {}, warning_levels |-> {}, admitted |-> <<>>, refused |-> <<>>]

DiscInit ==
    /\ membership = <<>> /\ ipc = [rev |-> 0, entries |-> <<>>] /\ finder = FinderDown
    /\ planned = "no" /\ polls = 0 /\ missed = {} /\ blows = 0

build_discovery ==
    /\ planned # "no" /\ finder.at = "down"
    /\ LET state == state_from_ledger(membership)
       IN  finder' = [FinderDown EXCEPT !.at = "idle", !.ineligible = Barred,
                                  !.collected = state.collected, !.left = state.left]
    /\ UNCHANGED <<membership, ipc, planned, polls, missed, blows>>

\* The slots that are free, in the order they are given away.
FreeSlots(left) ==
    FlattenSeq([i \in DOMAIN FillOrder |-> [k \in 1..left[FillOrder[i]] |-> FillOrder[i]]])

decide_admissions(fresh, left) ==
    LET free == FreeSlots(left)
        n    == Min({Len(fresh), Len(free)})
    IN  [admitted |-> [i \in 1..n |-> [code |-> fresh[i], feed |-> free[i]]],
         rejected |-> SubSeq(fresh, n + 1, Len(fresh))]

\* One admission poll up to the decision.  A failed status lookup (lookup = FALSE) does
\* not exclude.  Symbols refused for capacity are remembered before they are written.
_admission_poll ==
    /\ finder.at = "idle" /\ polls < MaxPolls
    /\ polls' = polls + 1
    /\ \E ranking \in Rankings, lookup \in BOOLEAN :
          LET open      == SelectSeq(ranking, LAMBDA c : c \notin finder.collected \cup finder.reject_once)
              unchecked == Range(open) \ (finder.ineligible \cup finder.warning_levels)
              suspended == IF lookup THEN unchecked \cap Suspended ELSE {}
              fresh     == SelectSeq(open, LAMBDA c : c \notin finder.ineligible \cup suspended)
              decision  == decide_admissions(fresh, finder.left)
              refused   == SelectSeq(decision.rejected, LAMBDA c : c \notin finder.capacity_once)
          IN  /\ ~lookup => unchecked # {}
              /\ Blow(~lookup)
              /\ finder' = [finder EXCEPT
                    !.at = IF decision.admitted = <<>> /\ refused = <<>> THEN "idle" ELSE "append",
                    !.reject_once = @ \cup (Range(open) \cap finder.ineligible) \cup suspended,
                    !.ineligible = @ \cup suspended,
                    !.warning_levels = @ \cup (unchecked \ suspended),
                    !.capacity_once = @ \cup Range(refused),
                    !.admitted = decision.admitted, !.refused = refused]
    /\ UNCHANGED <<membership, ipc, planned, missed>>

Row(c, tier, source, f) == [code |-> c, tier |-> tier, source |-> source, feed |-> f]
TierC(codes) == [i \in DOMAIN codes |-> Row(codes[i], "C", "screen", NoFeed)]

AdmitAfterFailure ==
    /\ finder.at = "append"
    /\ \/ Blow(FALSE) /\ membership' = membership \o [i \in DOMAIN finder.admitted |->
                                  Row(finder.admitted[i].code, "B", "dynamic", finder.admitted[i].feed)]
                                \o TierC(finder.refused)
       \/ Blow(TRUE) /\ UNCHANGED membership
    /\ finder' = [finder EXCEPT !.at = IF finder.admitted = <<>> THEN "idle" ELSE "ipc",
                                !.collected = @ \cup {finder.admitted[i].code : i \in DOMAIN finder.admitted}]
    /\ UNCHANGED <<ipc, planned, polls, missed>>

\* The rows go to the membership first.  After a failed append nothing is admitted; after a
\* successful one the memory is updated before the IPC file is touched.
_publish ==
    /\ finder.at = "append"
    /\ \/ /\ Blow(FALSE)
          /\ membership' = membership \o [i \in DOMAIN finder.admitted |->
                                     Row(finder.admitted[i].code, "B", "dynamic", finder.admitted[i].feed)]
                              \o TierC(finder.refused)
          /\ finder' = [finder EXCEPT
                !.at = IF finder.admitted = <<>> THEN "idle" ELSE "ipc",
                !.collected = @ \cup {finder.admitted[i].code : i \in DOMAIN finder.admitted},
                !.left = [f \in Feeds |->
                    @[f] - Cardinality({i \in DOMAIN finder.admitted : finder.admitted[i].feed = f})]]
       \/ /\ Blow(TRUE)
          /\ finder' = [finder EXCEPT !.at = "idle", !.admitted = <<>>, !.refused = <<>>]
          /\ UNCHANGED membership
    /\ UNCHANGED <<ipc, planned, polls, missed>>

Admitted(child) == {child.admitted[i].code : i \in DOMAIN child.admitted}

\* read_dynamic_admissions, then write_dynamic_admissions of the next revision.
_publish_ipc ==
    /\ finder.at = "ipc"
    /\ finder' = [finder EXCEPT !.at = "idle", !.admitted = <<>>, !.refused = <<>>]
    /\ \/ /\ Blow(FALSE)
          /\ ipc' = [rev |-> ipc.rev + 1, entries |-> ipc.entries \o finder.admitted]
          /\ UNCHANGED missed
       \/ /\ Blow(TRUE)
          /\ missed' = missed \cup Admitted(finder)
          /\ UNCHANGED ipc
    /\ UNCHANGED <<membership, planned, polls>>

\* The last poll, after the cutoff: what qualifies and is in no row becomes Tier C.
_post_close_poll ==
    /\ finder.at = "idle"
    /\ polls' = MaxPolls
    /\ \E ranking \in Rankings :
          LET known  == DOMAIN effective_tiers(membership)
              screen == SelectSeq(ranking, LAMBDA c : c \notin known)
          IN  \/ membership' = membership \o TierC(screen) /\ Blow(FALSE)
              \/ screen # <<>> /\ UNCHANGED membership /\ Blow(TRUE)
    /\ finder' = [finder EXCEPT !.at = "done"]
    /\ UNCHANGED <<ipc, planned, missed>>

\* The child dies at any point; the supervisor starts it again.
DieDiscovery ==
    /\ finder.at \notin {"down", "done"}
    /\ Blow(TRUE)
    /\ finder' = FinderDown
    /\ missed' = IF finder.at = "ipc" THEN missed \cup Admitted(finder) ELSE missed
    /\ UNCHANGED <<membership, ipc, planned, polls>>

DiscNext ==
    \/ _record_static_membership
    \/ build_discovery
    \/ _admission_poll
    \/ _publish
    \/ _publish_ipc
    \/ _post_close_poll
    \/ DieDiscovery

------------------------------------------------------------------------------
(* Properties *)

\* Every variable has its type.
DiscTypeOK ==
    /\ membership \in Seq(Rows)
    /\ ipc.rev \in Nat /\ ipc.entries \in Seq([code : Codes, feed : Feeds])
    /\ finder.at \in {"down", "idle", "append", "ipc", "done"}
    /\ finder.left \in [Feeds -> Nat] /\ finder.collected \subseteq Codes
    /\ planned \in {"no", "recorded", "late"} /\ polls \in 0..MaxPolls /\ blows \in 0..MaxBlows /\ missed \subseteq Codes

\* state_from_ledger: "a restarted child never re-admits or over-fills a feed".  Over
\* crashes at any point and failed writes of either file, the membership and the IPC file
\* give a feed no more symbols than it has room for.
FeedsNotOverfilled ==
    \A f \in Feeds :
        /\ Cardinality(DynamicRows(membership, f)) <= FeedCap[f]
        /\ Cardinality({i \in DOMAIN ipc.entries : ipc.entries[i].feed = f}) <= FeedCap[f]

\* No symbol is handed to the collectors twice, whatever was forgotten by a restart; and
\* none that a shard collects already, if the daemon could record its plan before.
AdmittedOnce ==
    \A i, j \in DOMAIN ipc.entries :
        /\ ipc.entries[i].code = ipc.entries[j].code => i = j
        /\ planned = "recorded" => ipc.entries[i].code \notin StaticCodes

\* The two files agree between publications: what the membership calls admitted is in the
\* IPC file, on the same feed, unless its one chance to be written was lost to a crash
\* or a failed write; and the IPC file holds nothing the membership does not.
FilesAgree ==
    finder.at # "ipc" =>
        LET inLedger == {[code |-> membership[i].code, feed |-> membership[i].feed] :
                             i \in {k \in DOMAIN membership : membership[k].source = "dynamic"}}
            inIpc    == Range(ipc.entries)
        IN  /\ inIpc \subseteq inLedger
            /\ \A e \in inLedger \ inIpc : e.code \in missed

\* What the discovery child admits survives its restarts (state_from_ledger, _publish).
AdmissionsSound == DiscTypeOK /\ FeedsNotOverfilled /\ AdmittedOnce /\ FilesAgree

==============================================================================
