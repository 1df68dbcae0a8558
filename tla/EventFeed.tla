------------------------------- MODULE EventFeed -------------------------------
(***************************************************************************)
(* What web_viewer promises to browsers that open /events: from the moment *)
(* it joins until it leaves, a member is handed every event of the feed,   *)
(* once and in order, and no event is started before the members have the  *)
(* one before.  EventDelivery.tla implements this module.                  *)
(***************************************************************************)
EXTENDS Naturals, Sequences

CONSTANTS Members, Events

VARIABLES feed,      \* the events broadcast so far
          state,     \* of each member: "out", "in" or "gone"
          missed,    \* the events of the feed before a member joined
          got        \* the events handed to each member

feedVars == <<feed, state, missed, got>>

Init ==
  /\ feed = <<>>
  /\ state = [m \in Members |-> "out"]
  /\ missed = [m \in Members |-> 0]
  /\ got = [m \in Members |-> <<>>]

UpToDate(m) == missed[m] + Len(got[m]) = Len(feed)

Broadcast(e) ==
  /\ \A m \in Members : state[m] = "in" => UpToDate(m)
  /\ feed' = Append(feed, e)
  /\ UNCHANGED <<state, missed, got>>

Join(m) ==
  /\ state[m] = "out"
  /\ state' = [state EXCEPT ![m] = "in"]
  /\ missed' = [missed EXCEPT ![m] = Len(feed)]
  /\ UNCHANGED <<feed, got>>

Hand(m) ==
  /\ state[m] = "in" /\ ~UpToDate(m)
  /\ got' = [got EXCEPT ![m] = Append(@, feed[missed[m] + Len(@) + 1])]
  /\ UNCHANGED <<feed, state, missed>>

Leave(m) ==
  /\ state[m] \in {"out", "in"}
  /\ state' = [state EXCEPT ![m] = "gone"]
  /\ UNCHANGED <<feed, missed, got>>

Next == \/ \E e \in Events : Broadcast(e)
        \/ \E m \in Members : Join(m) \/ Hand(m) \/ Leave(m)

Spec == Init /\ [][Next]_feedVars
================================================================================
