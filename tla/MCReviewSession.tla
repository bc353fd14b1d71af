--------------------------- MODULE MCReviewSession ---------------------------
(* Instances of ReviewSession for TLC.  The requests are alike, and begin in *)
(* the order of their numbers.                                               *)
EXTENDS ReviewSession

CONSTANT MaxActive  \* bound: requests that are handled at the same time

Kind(incremental, auto, effort) ==
  [incremental |-> incremental, auto |-> auto, effort |-> effort]

\* A manual /review, and the /review -i of the push commands, which publishes
\* no temporary comment.
MCKinds == {Kind(FALSE, FALSE, "effort 2"), Kind(TRUE, TRUE, "effort 3")}
FullKinds == {Kind(FALSE, FALSE, "effort 2")}
MCEfforts == {"effort 2", "effort 3"}

OpenInOrder(r) ==
  /\ \A q \in Requests : q < r => pc[q] # "idle"
  /\ Cardinality({q \in Requests : pc[q] \notin Ended \cup {"idle"}}) < MaxActive
  /\ Open(r)

MCNext ==
  \/ \E lag \in Lags : Push(lag)
  \/ AddLabel
  \/ \E r \in Requests :
       \/ OpenInOrder(r)
       \/ List(r) \/ Skip(r) \/ Prepare(r) \/ Predict(r)
       \/ ReadLabels(r) \/ WriteLabels(r) \/ Withhold(r) \/ Find(r)
       \/ Edit(r) \/ Announce(r) \/ Create(r) \/ Clean(r)
  \/ Quiescent

MCSpec == Init /\ [][MCNext]_vars
=============================================================================
