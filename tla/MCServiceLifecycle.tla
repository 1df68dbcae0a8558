--------------------------- MODULE MCServiceLifecycle --------------------------
(* A small instance of ServiceLifecycle: rule sections as the documents show
   them, one with values the parser does not match, and two with a number
   that no int holds. *)
EXTENDS ServiceLifecycle

InitialRule == [dwell_time_ms |-> 1000, cooldown_ms |-> 5000]
InitialRoi == <<"default">>
SmallVersions ==
  {[roi |-> <<"p", "q", "r">>, dwell_time_ms |-> Number(300), cooldown_ms |-> Number(3000)],
   [roi |-> <<"p", "unmatched">>, dwell_time_ms |-> Number(-1), cooldown_ms |-> Unmatched],
   [roi |-> <<>>, dwell_time_ms |-> Number(2), cooldown_ms |-> Huge],
   [roi |-> <<"p", "huge">>, dwell_time_ms |-> Number(2), cooldown_ms |-> Number(4)]}
================================================================================
