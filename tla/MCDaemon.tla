------------------------------ MODULE MCDaemon ------------------------------
(* The daemon over two dates. *)
EXTENDS Daemon

AllCalendars == {<<"business", "business">>,
                 <<"business", "weekend">>, <<"holiday", "business">>}
TwoJobs == <<"tick_tape", "repair">>
=============================================================================
