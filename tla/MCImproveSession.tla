-------------------------- MODULE MCImproveSession --------------------------
(* Instances of ImproveSession for TLC.  The requests are alike, and begin in *)
(* the order of their numbers.                                                *)
EXTENDS ImproveSession

CONSTANT MaxActive  \* bound: requests that are handled at the same time

BeginInOrder(r) ==
  /\ \A q \in Requests : q < r => pc[q] # "idle"
  /\ Cardinality({q \in Requests : pc[q] \notin Ended \cup {"idle"}}) < MaxActive
  /\ \E auto \in Modes : Begin(r, auto)

MCNext ==
  \/ \E r \in Requests :
       \/ BeginInOrder(r)
       \/ Predict(r) \/ TellNone(r) \/ List(r) \/ Refill(r)
       \/ Merge(r) \/ RemoveOld(r) \/ PublishNew(r) \/ Recover(r)
  \/ Quiescent

MCSpec == Init /\ [][MCNext]_vars
=============================================================================
