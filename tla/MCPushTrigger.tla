---------------------------- MODULE MCPushTrigger ----------------------------
(* Instances of PushTrigger for TLC.  Webhooks are alike except for what     *)
(* they say, so the events are numbered in the order of their pushes (they   *)
(* still arrive in any order), and all but the Odd ones are plain pushes     *)
(* under the default settings (configuration.toml: the backlog is on).       *)
EXTENDS PushTrigger

CONSTANT Odd

MCInit ==
  /\ Init
  /\ \A e \in Events \ Odd : push[e].body = "plain" /\ push[e].backlog

PushInOrder(e) ==
  /\ \A f \in Events : f < e => pc[f] # "idle"
  /\ Push(e)

MCNext ==
  \/ \E e \in Events : PushInOrder(e) \/ TaskStep(e)
  \/ \E w \in Workers : Crash(w)
  \/ Quiescent

MCSpec ==
  /\ MCInit
  /\ [][MCNext]_vars
  /\ \A e \in Events : WF_vars(TaskStep(e))
=============================================================================
