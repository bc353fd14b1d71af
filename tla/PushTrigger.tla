----------------------------- MODULE PushTrigger -----------------------------
(***************************************************************************)
(* The GitHub app's push trigger (pr_insight/servers/github_app.py,        *)
(* handle_push_trigger_for_new_commits).  GitHub delivers one              *)
(* "synchronize" webhook per push.  The first one for a pull request runs  *)
(* the push commands; one that arrives in the meanwhile waits on the pull  *)
(* request's asyncio.Condition as a delegate for everything pushed since,  *)
(* and any further one is discarded.                                       *)
(*                                                                         *)
(* The counters and conditions live in the memory of one gunicorn worker,  *)
(* so they are indexed by a slot, a worker and a pull request.  Inside a   *)
(* worker an action is what the event loop runs between two suspension     *)
(* points.  No body of an `async with` on the condition suspends, except   *)
(* in wait(), which gives the lock up: the lock is always free when it is  *)
(* acquired, and acquiring it is no step of its own.                       *)
(***************************************************************************)
EXTENDS Integers, FiniteSets

CONSTANTS
  Workers,      \* the gunicorn worker processes of the app
  PRs,          \* the pull requests
  Events,       \* the pushes, each with its "synchronize" webhook
  Bodies,       \* what a webhook's body and the repository's settings say
  Backlogs,     \* the values push_trigger_pending_tasks_backlog may have
  NumCommands,  \* the length of github_app.push_commands
  MaxCrashes    \* bound: how often a worker may be killed

\* "ignored": an early return before a slot is claimed (draft or closed pull
\* request, push trigger off, merge commit).  "filtered": the repository's own
\* settings, or the identity provider, turn the sender down, which is decided
\* only once the slot is held.  "plain": anything else.
BodyKinds == {"ignored", "filtered", "plain"}

ASSUME PushTriggerAssumption ==
  /\ Bodies \subseteq BodyKinds
  /\ Backlogs \subseteq BOOLEAN
  /\ NumCommands \in Nat
  /\ MaxCrashes \in Nat

VARIABLES
  push,       \* push[e]: the webhook, fixed by who pushed what where
  pc,         \* pc[e]: where the task that handles e is
  head,       \* head[p]: the number of pushes to p so far
  after,      \* after[e]: the head that push e made
  duplicate_push_triggers,  \* active tasks of a slot (_duplicate_push_triggers)
  resumed,    \* resumed[e]: the head when e's processing was let through
  diff,       \* diff[e]: the head the task's cached diff shows, 0 for none
  done,       \* done[e]: how many of its commands the task is through with
  crashes     \* workers killed so far

vars == <<push, pc, head, after, duplicate_push_triggers, resumed, diff, done,
          crashes>>

Slots == Workers \X PRs
Webhook == [slot : Slots, body : Bodies, backlog : Backlogs]

Waiting == {"waiting"}
Owning == {"notified", "ready", "running"}
Active == Waiting \cup Owning
Ended == {"ignored", "discarded", "finished", "crashed"}
States == {"idle", "sent"} \cup Active \cup Ended

PR(e) == push[e].slot[2]
Counter(e) == duplicate_push_triggers[push[e].slot]

\* Mutants of MaxActive: room for one task too many; the backlog is ignored.
MaxActiveOffByOne(e) == IF push[e].backlog THEN 3 ELSE 2
MaxActiveNoBacklog(e) == 1

\* max_active_tasks
MaxActive(e) == IF push[e].backlog THEN 2 ELSE 1

Goto(e, state) == pc' = [pc EXCEPT ![e] = state]

-----------------------------------------------------------------------------

Init ==
  /\ push \in [Events -> Webhook]
  /\ pc = [e \in Events |-> "idle"]
  /\ head = [p \in PRs |-> 0]
  /\ after = [e \in Events |-> 0]
  /\ duplicate_push_triggers = [s \in Slots |-> 0]
  /\ resumed = [e \in Events |-> 0]
  /\ diff = [e \in Events |-> 0]
  /\ done = [e \in Events |-> 0]
  /\ crashes = 0

\* Somebody pushes to the pull request, and GitHub sends the webhook.
Push(e) ==
  /\ pc[e] = "idle"
  /\ Goto(e, "sent")
  /\ head' = [head EXCEPT ![PR(e)] = @ + 1]
  /\ after' = [after EXCEPT ![e] = head[PR(e)] + 1]
  /\ UNCHANGED <<push, duplicate_push_triggers, resumed, diff, done, crashes>>

\* The early returns before the counter is touched.
Ignore(e) ==
  /\ pc[e] = "sent"
  /\ push[e].body = "ignored"
  /\ Goto(e, "ignored")
  /\ UNCHANGED <<push, head, after, duplicate_push_triggers, resumed, diff,
                 done, crashes>>

\* The task claims a place; the second one of a slot waits on the condition.
Claim(e) ==
  /\ pc[e] = "sent"
  /\ push[e].body # "ignored"
  /\ Counter(e) < MaxActive(e)
  /\ duplicate_push_triggers' =
       [duplicate_push_triggers EXCEPT ![push[e].slot] = @ + 1]
  /\ \/ /\ Counter(e) = 1
        /\ Goto(e, "waiting")
        /\ UNCHANGED resumed
     \/ /\ Counter(e) # 1
        /\ Goto(e, "ready")
        /\ resumed' = [resumed EXCEPT ![e] = head[PR(e)]]
  /\ UNCHANGED <<push, head, after, diff, done, crashes>>

Discard(e) ==
  /\ pc[e] = "sent"
  /\ push[e].body # "ignored"
  /\ Counter(e) >= MaxActive(e)
  /\ Goto(e, "discarded")
  /\ UNCHANGED <<push, head, after, duplicate_push_triggers, resumed, diff,
                 done, crashes>>

\* Mutant of Resume: the run goes by the commit its webhook names.
ResumeAtOwnPush(e) ==
  /\ pc[e] = "notified"
  /\ Goto(e, "ready")
  /\ resumed' = [resumed EXCEPT ![e] = after[e]]
  /\ UNCHANGED <<push, head, after, duplicate_push_triggers, diff, done,
                 crashes>>

\* wait() returns in the task that notify(1) woke.
Resume(e) ==
  /\ pc[e] = "notified"
  /\ Goto(e, "ready")
  /\ resumed' = [resumed EXCEPT ![e] = head[PR(e)]]
  /\ UNCHANGED <<push, head, after, duplicate_push_triggers, diff, done,
                 crashes>>

\* agent.handle_request constructs the next command's tool.  The first tool
\* of the request that lists the pull request's files leaves them in
\* context["git_files"], where the tools after it find them.
StartCommand(e) ==
  /\ pc[e] = "ready"
  /\ push[e].body = "plain"
  /\ done[e] < NumCommands
  /\ Goto(e, "running")
  /\ diff' = [diff EXCEPT ![e] = IF @ = 0 THEN head[PR(e)] ELSE @]
  /\ UNCHANGED <<push, head, after, duplicate_push_triggers, resumed, done,
                 crashes>>

\* A command ends, published or failed: handle_request catches everything.
EndCommand(e) ==
  /\ pc[e] = "running"
  /\ Goto(e, "ready")
  /\ done' = [done EXCEPT ![e] = @ + 1]
  /\ UNCHANGED <<push, head, after, duplicate_push_triggers, resumed, diff,
                 crashes>>

\* A command fails before its tool has listed the files.
FailCommand(e) ==
  /\ pc[e] = "ready"
  /\ push[e].body = "plain"
  /\ done[e] < NumCommands
  /\ done' = [done EXCEPT ![e] = @ + 1]
  /\ UNCHANGED <<push, pc, head, after, duplicate_push_triggers, resumed,
                 diff, crashes>>

\* The commands are through, the sender was turned down, or the settings
\* could not be fetched.
MayRelease(e) ==
  /\ pc[e] = "ready"
  /\ \/ push[e].body = "filtered"
     \/ done[e] = NumCommands
     \/ done[e] = 0

\* Mutants: a failure skips the decrement; nobody is notified.
GiveBackOnSuccess(e) ==
  duplicate_push_triggers' =
    [duplicate_push_triggers EXCEPT ![push[e].slot] =
       IF done[e] = 0 THEN @ ELSE @ - 1]
NotifyNobody(e) == Goto(e, "finished")

\* The decrement of the slot's counter.
GiveBack(e) ==
  duplicate_push_triggers' =
    [duplicate_push_triggers EXCEPT ![push[e].slot] = @ - 1]

\* notify(1): one of the tasks that wait, if any, is woken.
Notify(e) ==
  LET waiters == {f \in Events : pc[f] = "waiting"
                                 /\ push[f].slot = push[e].slot}
  IN  \/ /\ waiters = {}
         /\ Goto(e, "finished")
      \/ \E f \in waiters :
           pc' = [pc EXCEPT ![e] = "finished", ![f] = "notified"]

\* The finally block: notify(1) and the decrement, in one step.
Release(e) ==
  /\ MayRelease(e)
  /\ GiveBack(e)
  /\ Notify(e)
  /\ UNCHANGED <<push, head, after, resumed, diff, done, crashes>>

\* A worker is killed (gunicorn's timeout, a deployment).  Its tasks, already
\* acknowledged to GitHub, are gone, and a fresh process starts empty.
Crash(w) ==
  /\ crashes < MaxCrashes
  /\ crashes' = crashes + 1
  /\ pc' = [e \in Events |-> IF push[e].slot[1] = w /\ pc[e] \in Active
                             THEN "crashed" ELSE pc[e]]
  /\ duplicate_push_triggers' =
       [s \in Slots |-> IF s[1] = w THEN 0 ELSE duplicate_push_triggers[s]]
  /\ UNCHANGED <<push, head, after, resumed, diff, done>>

\* All pushes were made and handled, and nothing is left to do.
Quiescent ==
  /\ \A e \in Events : pc[e] \in Ended
  /\ UNCHANGED vars

\* What the event loop runs next in the task that handles e.
TaskStep(e) ==
  \/ Ignore(e) \/ Claim(e) \/ Discard(e) \/ Resume(e)
  \/ StartCommand(e) \/ EndCommand(e) \/ FailCommand(e) \/ Release(e)

Next ==
  \/ \E e \in Events : Push(e) \/ TaskStep(e)
  \/ \E w \in Workers : Crash(w)
  \/ Quiescent

Spec == Init /\ [][Next]_vars

\* Webhooks that were sent arrive, the event loop runs every task that can
\* go on, and a command ends (the model calls and the HTTP calls have
\* timeouts).  Nobody has to push, and no worker has to crash.
FairSpec == Spec /\ \A e \in Events : WF_vars(TaskStep(e))

-----------------------------------------------------------------------------
(***************************************************************************)
(* Properties.                                                             *)
(***************************************************************************)

\* The type invariant.
TypeOK ==
  /\ push \in [Events -> Webhook]
  /\ pc \in [Events -> States]
  /\ head \in [PRs -> Nat]
  /\ after \in [Events -> Nat]
  /\ duplicate_push_triggers \in [Slots -> 0..2]
  /\ resumed \in [Events -> Nat]
  /\ diff \in [Events -> Nat]
  /\ done \in [Events -> 0..NumCommands]
  /\ crashes \in 0..MaxCrashes

On(s, states) == {e \in Events : push[e].slot = s /\ pc[e] \in states}

\* In a worker, no two tasks process a pull request at the same time, counting
\* the one that has been woken but has not run yet (github_app.py:170).
MutualExclusion ==
  \A s \in Slots : \A e, f \in On(s, Owning) : e = f

\* The counter is the number of tasks that hold or await the slot, at every
\* suspension point and after every crash: it neither leaks nor drifts.
CounterExact ==
  \A s \in Slots : duplicate_push_triggers[s] = Cardinality(On(s, Active))

\* A delegate never waits without a task before it that will notify it: no
\* wakeup is lost between the second event's wait() and the first's notify(1).
NoLostWakeup ==
  \A s \in Slots : On(s, Waiting) # {} => On(s, Owning) # {}

\* A push that was discarded with the backlog on is accounted for by a delegate
\* of the same worker: it still waits, or it was let through, and listed the
\* files, no earlier than that push; or a crash took it (github_app.py:171-174).
DelegateCovers ==
  \A e \in Events : pc[e] = "discarded" /\ push[e].backlog =>
    \E f \in Events \ {e} :
      /\ push[f].slot = push[e].slot
      /\ \/ pc[f] \in {"waiting", "notified", "crashed"}
         \/ resumed[f] >= after[e] /\ (diff[f] # 0 => diff[f] >= after[e])

\* Every webhook that GitHub sent is dealt with: no task waits for ever.
EveryPushEnds ==
  \A e \in Events : pc[e] = "sent" ~> pc[e] \in Ended

\* With one worker, the tasks implement the coalescing of PushCoalescing: a
\* pull request's run is the task that owns its slot, and the debt is the
\* delegate that waits.
Slot(p) == CHOOSE s \in Slots : s[2] = p
PhaseOf(p) ==
  CASE On(Slot(p), {"ready", "running"}) # {} -> "active"
    [] On(Slot(p), {"notified"}) # {} -> "queued"
    [] OTHER -> "idle"

\* The head the latest run of p began with.
Begun(p) == {0} \cup {resumed[e] : e \in {f \in Events : PR(f) = p}}
Latest(p) == CHOOSE n \in Begun(p) : \A m \in Begun(p) : m <= n

Coalescing == INSTANCE PushCoalescing WITH
  phase <- [p \in PRs |-> PhaseOf(p)],
  owed <- [p \in PRs |-> On(Slot(p), Waiting) # {}],
  from <- [p \in PRs |-> Latest(p)]

ImplementsCoalescing == Coalescing!Spec

\* The claim of the comment at github_app.py:169-171: all the events would
\* trigger the exact same processing, so that of a discarded push happens.
SameProcessing ==
  \A e \in Events : pc[e] = "discarded" /\ push[e].body = "plain" =>
    \E f \in Events \ {e} :
      /\ PR(f) = PR(e)
      /\ push[f].body = "plain"
      /\ pc[f] \in {"waiting", "notified"} \/ resumed[f] >= after[e]
=============================================================================
