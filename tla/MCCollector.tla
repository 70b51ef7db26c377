---------------------------- MODULE MCCollector ----------------------------
(* The subscribed pairs of the runs.                                       *)
EXTENDS Collector

TwoPairs == <<"a", "b">>
=============================================================================
