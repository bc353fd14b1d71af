-------------------------- MODULE PushTriggerProofs --------------------------
(***************************************************************************)
(* Proofs about PushTrigger, for any number of workers, pull requests,     *)
(* pushes, commands and crashes.                                           *)
(***************************************************************************)
EXTENDS PushTrigger, FiniteSetTheorems, TLAPS

Owns(e, s) == push[e].slot = s /\ pc[e] \in Owning
Waits(e, s) == push[e].slot = s /\ pc[e] \in Waiting

\* What ties a slot's counter to the tasks: one task owns the slot whenever
\* the counter is not zero, and one more waits exactly when it is two.
SlotOK(s) ==
  /\ \A e, f \in Events : Owns(e, s) /\ Owns(f, s) => e = f
  /\ \A e, f \in Events : Waits(e, s) /\ Waits(f, s) => e = f
  /\ duplicate_push_triggers[s] = 0 =>
       \A e \in Events : ~Owns(e, s) /\ ~Waits(e, s)
  /\ duplicate_push_triggers[s] = 1 =>
       (\E e \in Events : Owns(e, s)) /\ (\A e \in Events : ~Waits(e, s))
  /\ duplicate_push_triggers[s] = 2 =>
       (\E e \in Events : Owns(e, s)) /\ (\E e \in Events : Waits(e, s))

SlotInv == \A s \in Slots : SlotOK(s)

\* No push is ahead of its pull request's head, a task is let through no
\* earlier than its own push, and it lists no files before that.
HeadInv ==
  \A e \in Events :
    /\ pc[e] # "idle" => after[e] <= head[PR(e)]
    /\ pc[e] \in {"idle", "sent", "waiting", "notified"} => diff[e] = 0

\* A task that runs a command is not through with its commands.
CommandInv ==
  \A e \in Events : pc[e] = "running" => done[e] < NumCommands

IInv == TypeOK /\ SlotInv /\ HeadInv /\ CommandInv /\ DelegateCovers

-----------------------------------------------------------------------------
(***************************************************************************)
(* The parts of a webhook have the types their names promise.              *)
(***************************************************************************)
LEMMA WebhookTypes ==
  ASSUME TypeOK, NEW e \in Events
  PROVE  /\ push[e].slot \in Slots
         /\ PR(e) \in PRs
         /\ push[e].backlog \in BOOLEAN
         /\ Counter(e) \in 0..2
         /\ MaxActive(e) \in 1..2
         /\ head[PR(e)] \in Nat
         /\ after[e] \in Nat /\ resumed[e] \in Nat /\ diff[e] \in Nat
         /\ done[e] \in 0..NumCommands
         /\ pc[e] \in States
<1>1. push[e] \in Webhook
  BY DEF TypeOK
<1>2. push[e].slot \in Slots /\ push[e].backlog \in Backlogs
  BY <1>1 DEF Webhook
<1>3. push[e].slot[2] \in PRs
  BY <1>2 DEF Slots
<1>4. push[e].backlog \in BOOLEAN
  BY <1>2, PushTriggerAssumption
<1>. QED
  BY <1>2, <1>3, <1>4 DEF TypeOK, PR, Counter, MaxActive

(***************************************************************************)
(* The decrement of the finally block never makes a counter negative: a    *)
(* task that owns its slot has counted itself.                             *)
(***************************************************************************)
LEMMA OwnerCounted ==
  ASSUME TypeOK, SlotInv, NEW e \in Events, pc[e] \in Owning
  PROVE  Counter(e) \in 1..2
<1>1. push[e].slot \in Slots /\ Counter(e) \in 0..2
  BY WebhookTypes
<1>2. Owns(e, push[e].slot)
  BY DEF Owns
<1>3. Counter(e) # 0
  BY <1>1, <1>2 DEF SlotInv, SlotOK, Counter
<1>. QED
  BY <1>1, <1>3

LEMMA InitIInv == Init => IInv
<1> SUFFICES ASSUME Init PROVE IInv
  OBVIOUS
<1>1. TypeOK
  BY PushTriggerAssumption DEF Init, TypeOK, States
<1>2. SlotInv
  BY DEF Init, SlotInv, SlotOK, Owns, Waits, Owning, Waiting
<1>3. HeadInv
  BY DEF Init, HeadInv
<1>4. CommandInv
  BY DEF Init, CommandInv
<1>5. DelegateCovers
  BY DEF Init, DelegateCovers
<1>. QED
  BY <1>1, <1>2, <1>3, <1>4, <1>5 DEF IInv

-----------------------------------------------------------------------------
LEMMA TypeStep ==
  ASSUME TypeOK, SlotInv, CommandInv, [Next]_vars
  PROVE  TypeOK'
<1> USE DEF States, Active, Owning, Waiting, Ended
<1>1. ASSUME NEW e \in Events, Push(e) PROVE TypeOK'
  <2>1. PR(e) \in PRs /\ head[PR(e)] + 1 \in Nat
    BY WebhookTypes
  <2>2. head' \in [PRs -> Nat] /\ after' \in [Events -> Nat]
    BY <1>1, <2>1 DEF Push, TypeOK
  <2>. QED
    BY <1>1, <2>2 DEF Push, TypeOK, Goto
<1>2. ASSUME NEW e \in Events, Ignore(e) PROVE TypeOK'
  BY <1>2 DEF Ignore, TypeOK, Goto
<1>3. ASSUME NEW e \in Events, Claim(e) PROVE TypeOK'
  <2>1. /\ head[PR(e)] \in Nat
        /\ push[e].slot \in Slots
        /\ duplicate_push_triggers[push[e].slot] + 1 \in 0..2
    BY <1>3, WebhookTypes DEF Claim, Counter
  <2>2. duplicate_push_triggers' \in [Slots -> 0..2]
    BY <1>3, <2>1 DEF Claim, TypeOK
  <2>3. pc' \in [Events -> States] /\ resumed' \in [Events -> Nat]
    BY <1>3, <2>1 DEF Claim, TypeOK, Goto
  <2>. QED
    BY <1>3, <2>2, <2>3 DEF Claim, TypeOK
<1>4. ASSUME NEW e \in Events, Discard(e) PROVE TypeOK'
  BY <1>4 DEF Discard, TypeOK, Goto
<1>5. ASSUME NEW e \in Events, Resume(e) PROVE TypeOK'
  <2>1. head[PR(e)] \in Nat
    BY WebhookTypes
  <2>. QED
    BY <1>5, <2>1 DEF Resume, TypeOK, Goto
<1>6. ASSUME NEW e \in Events, StartCommand(e) PROVE TypeOK'
  <2>1. head[PR(e)] \in Nat
    BY WebhookTypes
  <2>. QED
    BY <1>6, <2>1 DEF StartCommand, TypeOK, Goto
<1>7. ASSUME NEW e \in Events, EndCommand(e) PROVE TypeOK'
  <2>1. done[e] + 1 \in 0..NumCommands
    BY <1>7, WebhookTypes, PushTriggerAssumption DEF EndCommand, CommandInv
  <2>. QED
    BY <1>7, <2>1 DEF EndCommand, TypeOK, Goto
<1>8. ASSUME NEW e \in Events, FailCommand(e) PROVE TypeOK'
  <2>1. done[e] + 1 \in 0..NumCommands
    BY <1>8, WebhookTypes, PushTriggerAssumption DEF FailCommand
  <2>. QED
    BY <1>8, <2>1 DEF FailCommand, TypeOK
<1>9. ASSUME NEW e \in Events, Release(e) PROVE TypeOK'
  <2>1. /\ push[e].slot \in Slots
        /\ duplicate_push_triggers[push[e].slot] - 1 \in 0..2
    BY <1>9, WebhookTypes, OwnerCounted DEF Release, Notify, GiveBack, MayRelease, Counter
  <2>2. duplicate_push_triggers' \in [Slots -> 0..2]
    BY <1>9, <2>1 DEF Release, Notify, GiveBack, TypeOK
  <2>3. pc' \in [Events -> States]
    BY <1>9 DEF Release, Notify, GiveBack, TypeOK, Goto
  <2>. QED
    BY <1>9, <2>2, <2>3 DEF Release, Notify, GiveBack, TypeOK
<1>10. ASSUME NEW w \in Workers, Crash(w) PROVE TypeOK'
  BY <1>10, PushTriggerAssumption DEF Crash, TypeOK
<1>11. CASE UNCHANGED vars
  BY <1>11 DEF vars, TypeOK
<1>. QED
  BY <1>1, <1>2, <1>3, <1>4, <1>5, <1>6, <1>7, <1>8, <1>9, <1>10, <1>11
     DEF Next, TaskStep, Quiescent

-----------------------------------------------------------------------------
(***************************************************************************)
(* The steps that move a task within its place, or before and after it,    *)
(* leave the slots as they are.                                            *)
(***************************************************************************)
LEMMA SlotUnmoved ==
  ASSUME TypeOK, SlotInv,
         UNCHANGED <<push, duplicate_push_triggers>>,
         \A e \in Events : /\ pc'[e] \in Owning <=> pc[e] \in Owning
                           /\ pc'[e] \in Waiting <=> pc[e] \in Waiting
  PROVE  SlotInv'
<1>1. ASSUME NEW e \in Events, NEW s \in Slots
      PROVE  (Owns(e, s)' <=> Owns(e, s)) /\ (Waits(e, s)' <=> Waits(e, s))
  <2>1. push' = push
    OBVIOUS
  <2>. QED
    BY <2>1 DEF Owns, Waits, Owning, Waiting
<1>2. \A s \in Slots : duplicate_push_triggers'[s] = duplicate_push_triggers[s]
  OBVIOUS
<1>. QED
  BY <1>1, <1>2 DEF SlotInv, SlotOK

LEMMA SlotStep ==
  ASSUME TypeOK, SlotInv, [Next]_vars
  PROVE  SlotInv'
<1> USE DEF Owning, Waiting
<1>1. ASSUME NEW e \in Events,
             \/ Push(e) \/ Ignore(e) \/ Discard(e) \/ Resume(e)
             \/ StartCommand(e) \/ EndCommand(e) \/ FailCommand(e)
      PROVE  SlotInv'
  <2>1. UNCHANGED <<push, duplicate_push_triggers>>
    BY <1>1 DEF Push, Ignore, Discard, Resume, StartCommand, EndCommand,
                FailCommand
  <2>2. \A f \in Events : /\ pc'[f] \in Owning <=> pc[f] \in Owning
                          /\ pc'[f] \in Waiting <=> pc[f] \in Waiting
    BY <1>1 DEF Push, Ignore, Discard, Resume, StartCommand, EndCommand,
                FailCommand, Goto, TypeOK
  <2>. QED
    BY <2>1, <2>2, SlotUnmoved
<1>2. ASSUME NEW e \in Events, Claim(e) PROVE SlotInv'
  <2>0. PICK t \in Slots : t = push[e].slot
    BY WebhookTypes
  <2>1. /\ t \in Slots /\ Counter(e) \in 0..1
        /\ duplicate_push_triggers'[t] = Counter(e) + 1
        /\ \A s \in Slots \ {t} :
             duplicate_push_triggers'[s] = duplicate_push_triggers[s]
    BY <1>2, <2>0, WebhookTypes DEF Claim, TypeOK, Counter
  <2>2. push' = push /\ pc[e] = "sent"
    BY <1>2 DEF Claim
  <2>3. CASE Counter(e) = 0
    <3>1. pc' = [pc EXCEPT ![e] = "ready"]
      BY <1>2, <2>3 DEF Claim, Goto
    <3>2. \A f \in Events : f # e => pc'[f] = pc[f]
      BY <3>1 DEF TypeOK
    <3>3. pc'[e] = "ready"
      BY <3>1 DEF TypeOK
    <3>. QED
      BY <2>0, <2>1, <2>2, <2>3, <3>2, <3>3 DEF SlotInv, SlotOK, Owns, Waits, Counter
  <2>4. CASE Counter(e) = 1
    <3>1. pc' = [pc EXCEPT ![e] = "waiting"]
      BY <1>2, <2>4 DEF Claim, Goto
    <3>2. \A f \in Events : f # e => pc'[f] = pc[f]
      BY <3>1 DEF TypeOK
    <3>3. pc'[e] = "waiting"
      BY <3>1 DEF TypeOK
    <3>. QED
      BY <2>0, <2>1, <2>2, <2>4, <3>2, <3>3 DEF SlotInv, SlotOK, Owns, Waits, Counter
  <2>. QED
    BY <2>1, <2>3, <2>4
<1>3. ASSUME NEW e \in Events, Release(e) PROVE SlotInv'
  <2>0. PICK t \in Slots : t = push[e].slot
    BY WebhookTypes
  <2>1. /\ t \in Slots /\ Counter(e) \in 1..2
        /\ duplicate_push_triggers'[t] = Counter(e) - 1
        /\ \A s \in Slots \ {t} :
             duplicate_push_triggers'[s] = duplicate_push_triggers[s]
    BY <1>3, <2>0, WebhookTypes, OwnerCounted
       DEF Release, Notify, GiveBack, MayRelease, TypeOK, Counter
  <2>2. push' = push /\ pc[e] = "ready"
    BY <1>3 DEF Release, Notify, GiveBack, MayRelease
  <2>3. CASE \A f \in Events : ~Waits(f, t)
    <3>1. pc' = [pc EXCEPT ![e] = "finished"]
      BY <1>3, <2>0, <2>3 DEF Release, Notify, GiveBack, Goto, Waits
    <3>2. \A f \in Events : f # e => pc'[f] = pc[f]
      BY <3>1 DEF TypeOK
    <3>3. pc'[e] = "finished"
      BY <3>1 DEF TypeOK
    <3>4. Counter(e) = 1
      BY <2>0, <2>1, <2>3 DEF SlotInv, SlotOK, Counter
    <3>. QED
      BY <2>0, <2>1, <2>2, <2>3, <3>2, <3>3, <3>4 DEF SlotInv, SlotOK, Owns, Waits
  <2>4. CASE \E f \in Events : Waits(f, t)
    <3>1. PICK f \in Events :
            /\ Waits(f, t)
            /\ pc' = [pc EXCEPT ![e] = "finished", ![f] = "notified"]
      BY <1>3, <2>0, <2>4 DEF Release, Notify, GiveBack, Waits
    <3>2. f # e
      BY <2>2, <3>1 DEF Waits
    <3>3. \A g \in Events : g \notin {e, f} => pc'[g] = pc[g]
      BY <3>1 DEF TypeOK
    <3>4. pc'[e] = "finished" /\ pc'[f] = "notified"
      BY <3>1, <3>2 DEF TypeOK
    <3>5. Counter(e) = 2
      BY <2>0, <2>1, <3>1 DEF SlotInv, SlotOK, Counter
    <3>6. ASSUME NEW g \in Events, NEW s \in Slots
          PROVE  /\ Owns(g, s)' <=>
                      (g \notin {e, f} /\ Owns(g, s)) \/ (g = f /\ s = t)
                 /\ Waits(g, s)' <=> g \notin {e, f} /\ Waits(g, s)
      <4>1. push'[g].slot = push[g].slot
        BY <2>2
      <4>2. CASE g = e
        BY <2>0, <2>2, <3>2, <3>4, <4>1, <4>2 DEF Owns, Waits
      <4>3. CASE g = f
        BY <3>1, <3>2, <3>4, <4>1, <4>3 DEF Owns, Waits
      <4>4. CASE g \notin {e, f}
        BY <3>3, <4>1, <4>4 DEF Owns, Waits
      <4>. QED
        BY <4>2, <4>3, <4>4
    <3>7. Owns(e, t)
      BY <2>0, <2>2 DEF Owns
    <3>8. ASSUME NEW s \in Slots, s # t PROVE SlotOK(s)'
      <4>1. /\ ~Owns(e, s) /\ ~Owns(f, s)
            /\ ~Waits(e, s) /\ ~Waits(f, s)
        BY <2>0, <3>1, <3>8 DEF Owns, Waits
      <4>2. \A g \in Events : /\ Owns(g, s)' <=> Owns(g, s)
                              /\ Waits(g, s)' <=> Waits(g, s)
        BY <3>6, <3>8, <4>1
      <4>3. duplicate_push_triggers'[s] = duplicate_push_triggers[s]
        BY <2>1, <3>8
      <4>. QED
        BY <4>2, <4>3 DEF SlotInv, SlotOK
    <3>9. SlotOK(t)'
      <4>1. duplicate_push_triggers'[t] = 1
        BY <2>1, <3>5
      <4>2. \A g \in Events : Owns(g, t)' <=> g = f
        BY <2>1, <3>6, <3>7 DEF SlotInv, SlotOK
      <4>3. \A g \in Events : ~Waits(g, t)'
        BY <2>1, <3>1, <3>6 DEF SlotInv, SlotOK
      <4>. QED
        BY <4>1, <4>2, <4>3 DEF SlotOK
    <3>. QED
      BY <3>8, <3>9 DEF SlotInv
  <2>. QED
    BY <2>3, <2>4
<1>4. ASSUME NEW w \in Workers, Crash(w) PROVE SlotInv'
  <2>1. push' = push
    BY <1>4 DEF Crash
  <2>2. \A e \in Events : pc'[e] = IF push[e].slot[1] = w /\ pc[e] \in Active
                                   THEN "crashed" ELSE pc[e]
    BY <1>4 DEF Crash
  <2>3. \A s \in Slots : duplicate_push_triggers'[s] =
          IF s[1] = w THEN 0 ELSE duplicate_push_triggers[s]
    BY <1>4 DEF Crash
  <2>. QED
    BY <2>1, <2>2, <2>3 DEF SlotInv, SlotOK, Owns, Waits, Active
<1>5. CASE UNCHANGED vars
  BY <1>5, SlotUnmoved DEF vars
<1>. QED
  BY <1>1, <1>2, <1>3, <1>4, <1>5 DEF Next, TaskStep, Quiescent

-----------------------------------------------------------------------------
(***************************************************************************)
(* Only pushes move a head, and only forward.                              *)
(***************************************************************************)
LEMMA HeadGrows ==
  ASSUME TypeOK, [Next]_vars, NEW p \in PRs
  PROVE  head'[p] \in Nat /\ head'[p] >= head[p]
<1>1. CASE \E e \in Events : Push(e)
  BY <1>1, WebhookTypes DEF Push, TypeOK
<1>2. CASE UNCHANGED head
  BY <1>2 DEF TypeOK
<1>. QED
  BY <1>1, <1>2 DEF Next, TaskStep, Ignore, Claim, Discard, Resume,
     StartCommand, EndCommand, FailCommand, Release, Notify, GiveBack, Crash, Quiescent, vars

LEMMA HeadStep ==
  ASSUME TypeOK, HeadInv, [Next]_vars
  PROVE  HeadInv'
<1>1. ASSUME NEW e \in Events, Push(e) PROVE HeadInv'
  <2>1. /\ PR(e) \in PRs /\ head[PR(e)] \in Nat
        /\ push' = push /\ diff' = diff
    BY <1>1, WebhookTypes DEF Push
  <2>2. ASSUME NEW f \in Events
        PROVE  /\ pc'[f] # "idle" => after'[f] <= head'[PR(f)]
               /\ pc'[f] \in {"idle", "sent", "waiting", "notified"} =>
                    diff'[f] = 0
    <3>1. PR(f) \in PRs /\ head[PR(f)] \in Nat /\ after[f] \in Nat
      BY WebhookTypes
    <3>2. CASE f = e
      BY <1>1, <2>1, <3>1, <3>2 DEF Push, Goto, TypeOK, HeadInv
    <3>3. CASE f # e
      BY <1>1, <2>1, <3>1, <3>3 DEF Push, Goto, TypeOK, HeadInv
    <3>. QED
      BY <3>2, <3>3
  <2>. QED
    BY <2>1, <2>2 DEF HeadInv, PR
<1>2. ASSUME NEW e \in Events,
             \/ Ignore(e) \/ Claim(e) \/ Discard(e) \/ Resume(e)
             \/ EndCommand(e) \/ FailCommand(e)
      PROVE  HeadInv'
  <2>1. UNCHANGED <<push, head, after, diff>>
    BY <1>2 DEF Ignore, Claim, Discard, Resume, EndCommand, FailCommand
  <2>2. \A f \in Events :
          /\ pc'[f] # "idle" => pc[f] # "idle"
          /\ pc'[f] \in {"idle", "sent", "waiting", "notified"} =>
               pc[f] \in {"idle", "sent", "waiting", "notified"}
    BY <1>2 DEF Ignore, Claim, Discard, Resume, EndCommand, FailCommand, Goto,
                TypeOK
  <2>. QED
    BY <2>1, <2>2 DEF HeadInv, PR
<1>3. ASSUME NEW e \in Events, StartCommand(e) PROVE HeadInv'
  <2>1. UNCHANGED <<push, head, after>>
    BY <1>3 DEF StartCommand
  <2>2. \A f \in Events :
          /\ pc'[f] = IF f = e THEN "running" ELSE pc[f]
          /\ f # e => diff'[f] = diff[f]
    BY <1>3 DEF StartCommand, Goto, TypeOK
  <2>3. pc[e] # "idle"
    BY <1>3 DEF StartCommand
  <2>. QED
    BY <2>1, <2>2, <2>3 DEF HeadInv, PR
<1>4. ASSUME NEW e \in Events, Release(e) PROVE HeadInv'
  <2>1. UNCHANGED <<push, head, after, diff>>
    BY <1>4 DEF Release
  <2>2. \A f \in Events :
          /\ pc'[f] # "idle" => pc[f] # "idle"
          /\ pc'[f] \in {"idle", "sent", "waiting", "notified"} =>
               pc[f] \in {"idle", "sent", "waiting", "notified"}
    BY <1>4 DEF Release, Notify, GiveBack, MayRelease, Goto, TypeOK
  <2>. QED
    BY <2>1, <2>2 DEF HeadInv, PR
<1>5. ASSUME NEW w \in Workers, Crash(w) PROVE HeadInv'
  <2>1. UNCHANGED <<push, head, after, diff>>
    BY <1>5 DEF Crash
  <2>2. \A f \in Events : pc'[f] = pc[f] \/ (pc'[f] = "crashed" /\ pc[f] # "idle")
    BY <1>5 DEF Crash, Active, Waiting, Owning
  <2>. QED
    BY <2>1, <2>2 DEF HeadInv, PR
<1>6. CASE UNCHANGED vars
  BY <1>6 DEF vars, HeadInv, PR
<1>. QED
  BY <1>1, <1>2, <1>3, <1>4, <1>5, <1>6 DEF Next, TaskStep, Quiescent

LEMMA CommandStep ==
  ASSUME TypeOK, CommandInv, [Next]_vars
  PROVE  CommandInv'
<1>1. ASSUME NEW e \in Events, StartCommand(e) PROVE CommandInv'
  BY <1>1 DEF StartCommand, Goto, TypeOK, CommandInv
<1>2. ASSUME NEW e \in Events, EndCommand(e) PROVE CommandInv'
  BY <1>2 DEF EndCommand, Goto, TypeOK, CommandInv
<1>3. ASSUME NEW e \in Events, FailCommand(e) PROVE CommandInv'
  BY <1>3 DEF FailCommand, TypeOK, CommandInv
<1>4. ASSUME NEW e \in Events,
             \/ Push(e) \/ Ignore(e) \/ Claim(e) \/ Discard(e) \/ Resume(e)
      PROVE  CommandInv'
  BY <1>4 DEF Push, Ignore, Claim, Discard, Resume, Goto, TypeOK, CommandInv
<1>5. ASSUME NEW e \in Events, Release(e) PROVE CommandInv'
  <2>1. \A f \in Events : pc'[f] = "running" => pc[f] = "running"
    BY <1>5 DEF Release, Notify, GiveBack, Goto, TypeOK
  <2>. QED
    BY <1>5, <2>1 DEF Release, Notify, GiveBack, CommandInv
<1>6. ASSUME NEW w \in Workers, Crash(w) PROVE CommandInv'
  BY <1>6 DEF Crash, CommandInv
<1>7. CASE UNCHANGED vars
  BY <1>7 DEF vars, CommandInv
<1>. QED
  BY <1>1, <1>2, <1>3, <1>4, <1>5, <1>6, <1>7 DEF Next, TaskStep, Quiescent

-----------------------------------------------------------------------------
Covers(f, e) ==
  /\ f # e
  /\ push[f].slot = push[e].slot
  /\ \/ pc[f] \in {"waiting", "notified", "crashed"}
     \/ resumed[f] >= after[e] /\ (diff[f] # 0 => diff[f] >= after[e])

(***************************************************************************)
(* Whatever happens next, a delegate goes on covering what it covers: it   *)
(* is let through, and lists the files, at a head that is no earlier.      *)
(***************************************************************************)
LEMMA CoverStep ==
  ASSUME TypeOK, HeadInv, [Next]_vars,
         NEW e \in Events, pc[e] = "discarded",
         NEW f \in Events, Covers(f, e)
  PROVE  Covers(f, e)'
<1> USE DEF Active, Owning, Waiting
<1>1. /\ PR(f) = PR(e) /\ PR(e) \in PRs
      /\ head[PR(e)] \in Nat /\ head[PR(e)] >= after[e]
      /\ after[e] \in Nat /\ resumed[f] \in Nat /\ diff[f] \in Nat
  BY WebhookTypes DEF Covers, PR, HeadInv
<1>2. push' = push
  BY DEF Next, TaskStep, Push, Ignore, Claim, Discard, Resume, StartCommand,
         EndCommand, FailCommand, Release, Notify, GiveBack, Crash, Quiescent, vars
<1>3. ASSUME NEW g \in Events, Push(g) PROVE Covers(f, e)'
  BY <1>1, <1>3 DEF Push, Goto, Covers, TypeOK
<1>4. ASSUME NEW g \in Events, Ignore(g) \/ Discard(g) PROVE Covers(f, e)'
  BY <1>1, <1>4 DEF Ignore, Discard, Goto, Covers, TypeOK
<1>5. ASSUME NEW g \in Events, Claim(g) \/ Resume(g) PROVE Covers(f, e)'
  <2>1. UNCHANGED <<push, after, diff>>
    BY <1>5 DEF Claim, Resume
  <2>2. CASE g = f
    <3>1. diff[f] = 0
      BY <1>5, <2>2 DEF Claim, Resume, HeadInv
    <3>2. pc'[f] = "waiting" \/ resumed'[f] = head[PR(f)]
      BY <1>5, <2>2 DEF Claim, Resume, Goto, TypeOK
    <3>. QED
      BY <1>1, <2>1, <3>1, <3>2 DEF Covers
  <2>3. CASE g # f
    <3>1. pc'[f] = pc[f] /\ resumed'[f] = resumed[f]
      BY <1>5, <2>3 DEF Claim, Resume, Goto, TypeOK
    <3>. QED
      BY <2>1, <3>1 DEF Covers
  <2>. QED
    BY <2>2, <2>3
<1>6. ASSUME NEW g \in Events, StartCommand(g) PROVE Covers(f, e)'
  <2>1. UNCHANGED <<push, after, resumed>>
    BY <1>6 DEF StartCommand
  <2>2. CASE g = f
    <3>1. /\ resumed[f] >= after[e] /\ (diff[f] # 0 => diff[f] >= after[e])
          /\ diff'[f] = IF diff[f] = 0 THEN head[PR(f)] ELSE diff[f]
      BY <1>6, <2>2 DEF StartCommand, Covers, TypeOK
    <3>. QED
      BY <1>1, <2>1, <3>1 DEF Covers
  <2>3. CASE g # f
    <3>1. pc'[f] = pc[f] /\ diff'[f] = diff[f]
      BY <1>6, <2>3 DEF StartCommand, Goto, TypeOK
    <3>. QED
      BY <2>1, <3>1 DEF Covers
  <2>. QED
    BY <2>2, <2>3
<1>7. ASSUME NEW g \in Events, EndCommand(g) \/ FailCommand(g)
      PROVE  Covers(f, e)'
  BY <1>7 DEF EndCommand, FailCommand, Goto, Covers, TypeOK
<1>8. ASSUME NEW g \in Events, Release(g) PROVE Covers(f, e)'
  <2>1. UNCHANGED <<push, after, resumed, diff>>
    BY <1>8 DEF Release
  <2>2. pc[f] \in {"waiting", "notified", "crashed"} =>
          pc'[f] \in {"waiting", "notified", "crashed"}
    BY <1>8 DEF Release, Notify, GiveBack, MayRelease, Goto, TypeOK
  <2>. QED
    BY <2>1, <2>2 DEF Covers
<1>9. ASSUME NEW w \in Workers, Crash(w) PROVE Covers(f, e)'
  BY <1>9 DEF Crash, Covers
<1>10. CASE UNCHANGED vars
  BY <1>10 DEF vars, Covers
<1>. QED
  BY <1>3, <1>4, <1>5, <1>6, <1>7, <1>8, <1>9, <1>10
     DEF Next, TaskStep, Quiescent

LEMMA DelegateStep ==
  ASSUME TypeOK, SlotInv, HeadInv, DelegateCovers, [Next]_vars
  PROVE  DelegateCovers'
<1>1. push' = push
  BY DEF Next, TaskStep, Push, Ignore, Claim, Discard, Resume, StartCommand,
         EndCommand, FailCommand, Release, Notify, GiveBack, Crash, Quiescent, vars
<1>2. SUFFICES ASSUME NEW e \in Events, pc'[e] = "discarded", push[e].backlog
               PROVE  \E f \in Events : Covers(f, e)'
  BY <1>1 DEF DelegateCovers, Covers
<1>3. CASE pc[e] = "discarded"
  <2>1. PICK f \in Events : Covers(f, e)
    BY <1>2, <1>3 DEF DelegateCovers, Covers
  <2>2. Covers(f, e)'
    BY <1>3, <2>1, CoverStep
  <2>. QED
    BY <2>2
<1>4. CASE pc[e] # "discarded"
  <2>1. Discard(e)
    BY <1>2, <1>4 DEF Next, TaskStep, Push, Ignore, Claim, Discard, Resume,
       StartCommand, EndCommand, FailCommand, Release, Notify, GiveBack, MayRelease, Crash,
       Quiescent, vars, Goto, TypeOK
  <2>2. push[e].slot \in Slots /\ Counter(e) = 2
    BY <1>2, <2>1, WebhookTypes DEF Discard, MaxActive
  <2>3. PICK f \in Events : Waits(f, push[e].slot)
    BY <2>2 DEF SlotInv, SlotOK, Counter
  <2>4. f # e /\ push[f].slot = push[e].slot /\ pc'[f] = "waiting"
    BY <2>1, <2>3 DEF Discard, Goto, TypeOK, Waits, Waiting
  <2>. QED
    BY <1>1, <2>4 DEF Covers
<1>. QED
  BY <1>3, <1>4

-----------------------------------------------------------------------------
LEMMA IInvStep == IInv /\ [Next]_vars => IInv'
BY TypeStep, SlotStep, HeadStep, CommandStep, DelegateStep DEF IInv

LEMMA IInvAlways == Spec => []IInv
BY InitIInv, IInvStep, PTL DEF Spec

(***************************************************************************)
(* The counters of the push trigger stay between 0 and 2, the commands of  *)
(* a task between 0 and their number, and every task is in a known place.  *)
(***************************************************************************)
THEOREM TypeCorrect == Spec => []TypeOK
<1>1. IInv => TypeOK
  BY DEF IInv
<1>. QED
  BY <1>1, IInvAlways, PTL

(***************************************************************************)
(* In a worker no two tasks process a pull request at the same time        *)
(* (github_app.py:170), however pushes, commands and crashes interleave.   *)
(***************************************************************************)
THEOREM Exclusion == Spec => []MutualExclusion
<1>1. IInv => MutualExclusion
  BY DEF IInv, SlotInv, SlotOK, MutualExclusion, On, Owns
<1>. QED
  BY <1>1, IInvAlways, PTL

(***************************************************************************)
(* A slot's counter is the number of tasks that hold or await the slot: no *)
(* path through the handler leaks a place or gives one back twice.         *)
(***************************************************************************)
THEOREM CounterCorrect == Spec => []CounterExact
<1>1. ASSUME IInv, NEW s \in Slots
      PROVE  duplicate_push_triggers[s] = Cardinality(On(s, Active))
  <2>1. SlotOK(s) /\ duplicate_push_triggers[s] \in 0..2
    BY <1>1 DEF IInv, SlotInv, TypeOK
  <2>2. \A e \in Events : e \in On(s, Active) <=> Owns(e, s) \/ Waits(e, s)
    BY DEF On, Active, Owns, Waits
  <2>3. On(s, Active) \subseteq Events
    BY DEF On
  <2>4. CASE duplicate_push_triggers[s] = 0
    <3>1. On(s, Active) = {}
      BY <2>1, <2>2, <2>3, <2>4 DEF SlotOK
    <3>. QED
      BY <2>4, <3>1, FS_EmptySet
  <2>5. CASE duplicate_push_triggers[s] = 1
    <3>1. PICK e \in Events : Owns(e, s)
      BY <2>1, <2>5 DEF SlotOK
    <3>2. On(s, Active) = {e}
      BY <2>1, <2>2, <2>3, <2>5, <3>1 DEF SlotOK
    <3>. QED
      BY <2>5, <3>2, FS_Singleton
  <2>6. CASE duplicate_push_triggers[s] = 2
    <3>1. PICK e \in Events : Owns(e, s)
      BY <2>1, <2>6 DEF SlotOK
    <3>2. PICK f \in Events : Waits(f, s)
      BY <2>1, <2>6 DEF SlotOK
    <3>3. e # f
      BY <3>1, <3>2 DEF Owns, Waits, Owning, Waiting
    <3>4. On(s, Active) = {e} \cup {f}
      BY <2>1, <2>2, <2>3, <2>6, <3>1, <3>2 DEF SlotOK
    <3>5. Cardinality({e}) = 1 /\ IsFiniteSet({e})
      BY FS_Singleton
    <3>6. Cardinality({e} \cup {f}) = 2
      BY <3>3, <3>5, FS_AddElement
    <3>. QED
      BY <2>6, <3>4, <3>6
  <2>. QED
    BY <2>1, <2>4, <2>5, <2>6
<1>2. IInv => CounterExact
  BY <1>1 DEF CounterExact
<1>. QED
  BY <1>2, IInvAlways, PTL

(***************************************************************************)
(* A delegate never waits without a task before it that will notify it.    *)
(***************************************************************************)
THEOREM WakeupSafe == Spec => []NoLostWakeup
<1>1. ASSUME IInv, NEW s \in Slots, On(s, Waiting) # {}
      PROVE  On(s, Owning) # {}
  <2>1. SlotOK(s) /\ duplicate_push_triggers[s] \in 0..2
    BY <1>1 DEF IInv, SlotInv, TypeOK
  <2>2. \E e \in Events : Waits(e, s)
    BY <1>1 DEF On, Waits
  <2>3. \E e \in Events : Owns(e, s)
    BY <2>1, <2>2 DEF SlotOK
  <2>. QED
    BY <2>3 DEF On, Owns
<1>2. IInv => NoLostWakeup
  BY <1>1 DEF NoLostWakeup
<1>. QED
  BY <1>2, IInvAlways, PTL

(***************************************************************************)
(* A push that is discarded with the backlog on is accounted for by a      *)
(* delegate of the same worker, which is let through and lists the files   *)
(* no earlier than that push, unless a crash takes it.                     *)
(***************************************************************************)
THEOREM DelegateCorrect == Spec => []DelegateCovers
<1>1. IInv => DelegateCovers
  BY DEF IInv
<1>. QED
  BY <1>1, IInvAlways, PTL

-----------------------------------------------------------------------------
(***************************************************************************)
(* With one worker, the tasks implement PushCoalescing.                    *)
(***************************************************************************)
OneWorker == \E w \in Workers : Workers = {w}

\* Where a pull request's tasks are.
Held(p) == \E e \in Events : PR(e) = p /\ pc[e] \in {"ready", "running"}
Woken(p) == \E e \in Events : PR(e) = p /\ pc[e] = "notified"
Awaited(p) == \E e \in Events : PR(e) = p /\ pc[e] = "waiting"

\* The value of the refinement mapping's owed.
Owed(p) == On(Slot(p), Waiting) # {}

\* The phase of a pull request is where its tasks are.
PhaseInv ==
  \A p \in PRs :
    /\ Held(p) => ~Woken(p) /\ PhaseOf(p) = "active"
    /\ Woken(p) => PhaseOf(p) = "queued"
    /\ ~Held(p) /\ ~Woken(p) => PhaseOf(p) = "idle"
    /\ Owed(p) <=> Awaited(p)

\* No run began with a head that is yet to come, and none before its task was
\* let through; so among the runs of a pull request one is the latest.
RunInv ==
  /\ \A e \in Events :
       /\ resumed[e] <= head[PR(e)]
       /\ pc[e] \in {"idle", "sent", "waiting", "notified"} => resumed[e] = 0
  /\ \A p \in PRs : \E n \in Begun(p) : \A m \in Begun(p) : m <= n

LEMMA OneSlot ==
  ASSUME OneWorker, NEW p \in PRs
  PROVE  Slot(p) \in Slots /\ Slot(p)[2] = p /\ \A s \in Slots : s[2] = p => s = Slot(p)
<1>1. PICK w \in Workers : Workers = {w}
  BY DEF OneWorker
<1>2. \A s \in Slots : s[2] = p => s = <<w, p>>
  BY <1>1 DEF Slots
<1>3. <<w, p>> \in Slots /\ <<w, p>>[2] = p
  BY <1>1 DEF Slots
<1>4. Slot(p) \in Slots /\ Slot(p)[2] = p
  BY <1>3 DEF Slot
<1>. QED
  BY <1>2, <1>4

LEMMA PhaseIs == OneWorker /\ TypeOK /\ SlotInv => PhaseInv
<1> SUFFICES ASSUME OneWorker, TypeOK, SlotInv, NEW p \in PRs
             PROVE  /\ Held(p) => ~Woken(p) /\ PhaseOf(p) = "active"
                    /\ Woken(p) => PhaseOf(p) = "queued"
                    /\ ~Held(p) /\ ~Woken(p) => PhaseOf(p) = "idle"
                    /\ Owed(p) <=> Awaited(p)
  BY DEF PhaseInv
<1>1. \A e \in Events : push[e].slot = Slot(p) <=> PR(e) = p
  BY OneSlot, WebhookTypes DEF PR
<1>2. /\ (On(Slot(p), {"ready", "running"}) # {}) <=> Held(p)
      /\ (On(Slot(p), {"notified"}) # {}) <=> Woken(p)
      /\ (On(Slot(p), {"waiting"}) # {}) <=> Awaited(p)
  BY <1>1 DEF On, Held, Woken, Awaited
<1>3. Held(p) => ~Woken(p)
  <2>1. SlotOK(Slot(p))
    BY OneSlot DEF SlotInv
  <2>2. \A e, f \in Events : Owns(e, Slot(p)) /\ Owns(f, Slot(p)) => e = f
    BY <2>1 DEF SlotOK
  <2>3. \A e \in Events : PR(e) = p /\ pc[e] \in {"ready", "running", "notified"} =>
          Owns(e, Slot(p))
    BY <1>1 DEF Owns, Owning
  <2>. QED
    BY <2>2, <2>3 DEF Held, Woken
<1>4. CASE Held(p)
  BY <1>2, <1>3, <1>4 DEF PhaseOf, Owed, Waiting
<1>5. CASE Woken(p)
  BY <1>2, <1>3, <1>5 DEF PhaseOf, Owed, Waiting
<1>6. CASE ~Held(p) /\ ~Woken(p)
  BY <1>2, <1>6 DEF PhaseOf, Owed, Waiting
<1>. QED
  BY <1>4, <1>5, <1>6, <1>3

LEMMA PhaseIsNext == OneWorker /\ TypeOK' /\ SlotInv' => PhaseInv'
<1>1. (OneWorker /\ TypeOK /\ SlotInv => PhaseInv)'
  BY PhaseIs, PTL
<1>2. OneWorker' = OneWorker
  BY DEF OneWorker
<1>. QED
  BY <1>1, <1>2

\* The latest run is the one with the largest head.
LEMMA LatestIs ==
  ASSUME TypeOK, NEW p \in PRs, NEW n \in Begun(p), \A m \in Begun(p) : m <= n
  PROVE  Latest(p) = n
<1>1. \A m \in Begun(p) : m \in Nat
  BY DEF Begun, TypeOK
<1>2. Latest(p) \in Begun(p) /\ \A m \in Begun(p) : m <= Latest(p)
  BY DEF Latest
<1>3. Latest(p) <= n /\ n <= Latest(p) /\ Latest(p) \in Nat /\ n \in Nat
  BY <1>1, <1>2
<1>. QED
  BY <1>3

\* Nothing is said of the latest runs by a step that lets no task through.
LEMMA NoRunBegins ==
  ASSUME TypeOK, RunInv, UNCHANGED <<push, resumed>>,
         \A q \in PRs : head'[q] \in Nat /\ head'[q] >= head[q],
         \A e \in Events : pc'[e] \in {"idle", "sent", "waiting", "notified"} =>
                             pc[e] \in {"idle", "sent", "waiting", "notified"}
  PROVE  RunInv' /\ \A q \in PRs : Latest(q)' = Latest(q)
<1>1. \A q \in PRs : Begun(q)' = Begun(q)
  BY DEF Begun, PR
<1>2. \A q \in PRs : Latest(q)' = Latest(q)
  BY <1>1 DEF Latest
<1>3. ASSUME NEW e \in Events PROVE resumed'[e] <= head'[PR(e)]
  <2>1. PR(e) \in PRs /\ head[PR(e)] \in Nat /\ resumed[e] \in Nat
    BY WebhookTypes
  <2>2. resumed[e] <= head[PR(e)] /\ head'[PR(e)] \in Nat /\ head'[PR(e)] >= head[PR(e)]
    BY <2>1 DEF RunInv
  <2>. QED
    BY <2>1, <2>2
<1>. QED
  BY <1>1, <1>2, <1>3 DEF RunInv, PR

\* A task that is let through begins the latest run, with the head of the moment.
LEMMA RunBegins ==
  ASSUME TypeOK, RunInv, NEW e \in Events, NEW p \in PRs, PR(e) = p, UNCHANGED <<push, head>>,
         pc[e] \in {"sent", "notified"}, pc'[e] = "ready",
         \A f \in Events \ {e} : pc'[f] = pc[f],
         resumed' = [resumed EXCEPT ![e] = head[p]]
  PROVE  /\ RunInv'
         /\ \A q \in PRs : Latest(q)' = IF q = p THEN head[q] ELSE Latest(q)
<1>1. /\ head[p] \in Nat /\ resumed[e] = 0
      /\ \A f \in Events \ {e} : resumed'[f] = resumed[f]
      /\ resumed'[e] = head[p]
  BY WebhookTypes DEF RunInv, TypeOK
<1>2. ASSUME NEW q \in PRs, q # p PROVE Begun(q)' = Begun(q)
  BY <1>1, <1>2 DEF Begun, PR
<1>3. /\ head[p] \in Begun(p)'
      /\ \A m \in Begun(p)' : m = 0 \/ \E f \in Events : PR(f) = p /\ m = resumed'[f]
  BY <1>1 DEF Begun, PR
<1>4. \A f \in Events : PR(f) = p => resumed'[f] <= head[p]
  <2>1. ASSUME NEW f \in Events, PR(f) = p PROVE resumed'[f] <= head[p]
    <3>1. CASE f = e
      BY <1>1, <3>1
    <3>2. CASE f # e
      BY <1>1, <2>1, <3>2 DEF RunInv
    <3>. QED
      BY <3>1, <3>2
  <2>. QED
    BY <2>1
<1>5. \A m \in Begun(p)' : m <= head[p]
  BY <1>1, <1>3, <1>4
<1>6. Latest(p)' = head[p]
  <2>1. \A m \in Begun(p)' : m \in Nat
    BY <1>1, <1>3, <1>4 DEF TypeOK
  <2>2. Latest(p)' = CHOOSE n \in Begun(p)' : \A m \in Begun(p)' : m <= n
    BY DEF Latest, PR
  <2>3. Latest(p)' \in Begun(p)' /\ \A m \in Begun(p)' : m <= Latest(p)'
    BY <1>3, <1>5, <2>2
  <2>. QED
    BY <1>1, <1>3, <1>5, <2>1, <2>3
<1>7. ASSUME NEW q \in PRs
      PROVE  /\ Latest(q)' = IF q = p THEN head[q] ELSE Latest(q)
             /\ \E n \in Begun(q)' : \A m \in Begun(q)' : m <= n
  <2>1. CASE q = p
    BY <1>3, <1>5, <1>6, <2>1
  <2>2. CASE q # p
    <3>1. Begun(q)' = Begun(q)
      BY <1>2, <2>2
    <3>2. Latest(q)' = Latest(q)
      BY <3>1 DEF Latest
    <3>. QED
      BY <2>2, <3>1, <3>2 DEF RunInv
  <2>. QED
    BY <2>1, <2>2
<1>9. \A f \in Events : /\ resumed'[f] <= head'[PR(f)']
                        /\ pc'[f] \in {"idle", "sent", "waiting", "notified"} => resumed'[f] = 0
  <2>1. \A f \in Events : PR(f)' = PR(f)
    BY DEF PR
  <2>. QED
    BY <1>1, <2>1 DEF RunInv
<1>. QED
  BY <1>7, <1>9 DEF RunInv

\* Where the tasks of a pull request are decides its phase, and what is owed to it.
LEMMA PhaseStays ==
  ASSUME PhaseInv, PhaseInv', NEW p \in PRs
  PROVE  /\ (Held(p)' <=> Held(p)) /\ (Woken(p)' <=> Woken(p)) => PhaseOf(p)' = PhaseOf(p)
         /\ (Awaited(p)' <=> Awaited(p)) => (Owed(p)' <=> Owed(p))
BY DEF PhaseInv

\* What a step does to the mapped state.
Alike(p) ==
  /\ PhaseOf(p)' = PhaseOf(p)
  /\ Owed(p)' <=> Owed(p)
  /\ Latest(p)' = Latest(p)

LEMMA MapsToStutter ==
  ASSUME head' = head, \A p \in PRs : Alike(p)
  PROVE  UNCHANGED Coalescing!vars
<1>1. [p \in PRs |-> PhaseOf(p)]' = [p \in PRs |-> PhaseOf(p)]
  BY DEF Alike
<1>2. [p \in PRs |-> On(Slot(p), Waiting) # {}]' = [p \in PRs |-> On(Slot(p), Waiting) # {}]
  BY DEF Alike, Owed
<1>3. [p \in PRs |-> Latest(p)]' = [p \in PRs |-> Latest(p)]
  BY DEF Alike
<1>. QED
  BY <1>1, <1>2, <1>3 DEF Coalescing!vars

LEMMA MapsToPush ==
  ASSUME NEW p \in PRs, head' = [head EXCEPT ![p] = @ + 1], \A q \in PRs : Alike(q)
  PROVE  Coalescing!Push(p)
<1>1. [q \in PRs |-> PhaseOf(q)]' = [q \in PRs |-> PhaseOf(q)]
  BY DEF Alike
<1>2. [q \in PRs |-> On(Slot(q), Waiting) # {}]' = [q \in PRs |-> On(Slot(q), Waiting) # {}]
  BY DEF Alike, Owed
<1>3. [q \in PRs |-> Latest(q)]' = [q \in PRs |-> Latest(q)]
  BY DEF Alike
<1>. QED
  BY <1>1, <1>2, <1>3 DEF Coalescing!Push

LEMMA MapsToBegin ==
  ASSUME NEW p \in PRs, head' = head, PhaseOf(p) \in {"idle", "queued"},
         PhaseOf(p)' = "active", Latest(p)' = head[p],
         \A q \in PRs : Owed(q)' <=> Owed(q),
         \A q \in PRs \ {p} : PhaseOf(q)' = PhaseOf(q) /\ Latest(q)' = Latest(q)
  PROVE  Coalescing!Begin(p)
<1>1. [q \in PRs |-> PhaseOf(q)]' = [[q \in PRs |-> PhaseOf(q)] EXCEPT ![p] = "active"]
  OBVIOUS
<1>2. [q \in PRs |-> On(Slot(q), Waiting) # {}]' = [q \in PRs |-> On(Slot(q), Waiting) # {}]
  BY DEF Owed
<1>3. [q \in PRs |-> Latest(q)]' = [[q \in PRs |-> Latest(q)] EXCEPT ![p] = head[p]]
  OBVIOUS
<1>. QED
  BY <1>1, <1>2, <1>3 DEF Coalescing!Begin

LEMMA MapsToOwe ==
  ASSUME NEW p \in PRs, head' = head, PhaseOf(p) # "idle", ~Owed(p), Owed(p)',
         \A q \in PRs : PhaseOf(q)' = PhaseOf(q) /\ Latest(q)' = Latest(q),
         \A q \in PRs \ {p} : Owed(q)' <=> Owed(q)
  PROVE  Coalescing!Owe(p)
<1>1. [q \in PRs |-> PhaseOf(q)]' = [q \in PRs |-> PhaseOf(q)]
  OBVIOUS
<1>2. [q \in PRs |-> On(Slot(q), Waiting) # {}]'
        = [[q \in PRs |-> On(Slot(q), Waiting) # {}] EXCEPT ![p] = TRUE]
  BY DEF Owed
<1>3. [q \in PRs |-> Latest(q)]' = [q \in PRs |-> Latest(q)]
  OBVIOUS
<1>4. ~[q \in PRs |-> On(Slot(q), Waiting) # {}][p] /\ [q \in PRs |-> PhaseOf(q)][p] # "idle"
  BY DEF Owed
<1>. QED
  BY <1>1, <1>2, <1>3, <1>4 DEF Coalescing!Owe

LEMMA MapsToEnd ==
  ASSUME NEW p \in PRs, head' = head, PhaseOf(p) = "active",
         PhaseOf(p)' = IF Owed(p) THEN "queued" ELSE "idle", ~Owed(p)',
         \A q \in PRs : Latest(q)' = Latest(q),
         \A q \in PRs \ {p} : PhaseOf(q)' = PhaseOf(q) /\ (Owed(q)' <=> Owed(q))
  PROVE  Coalescing!End(p)
<1>1. [q \in PRs |-> PhaseOf(q)]'
        = [[q \in PRs |-> PhaseOf(q)] EXCEPT ![p] =
             IF [q \in PRs |-> On(Slot(q), Waiting) # {}][p] THEN "queued" ELSE "idle"]
  BY DEF Owed
<1>2. [q \in PRs |-> On(Slot(q), Waiting) # {}]'
        = [[q \in PRs |-> On(Slot(q), Waiting) # {}] EXCEPT ![p] = FALSE]
  BY DEF Owed
<1>3. [q \in PRs |-> Latest(q)]' = [q \in PRs |-> Latest(q)]
  OBVIOUS
<1>. QED
  BY <1>1, <1>2, <1>3 DEF Coalescing!End

LEMMA MapsToCrash ==
  ASSUME head' = head,
         \A q \in PRs : PhaseOf(q)' = "idle" /\ ~Owed(q)' /\ Latest(q)' = Latest(q)
  PROVE  Coalescing!Crash
<1>1. [q \in PRs |-> PhaseOf(q)]' = [q \in PRs |-> "idle"]
  OBVIOUS
<1>2. [q \in PRs |-> On(Slot(q), Waiting) # {}]' = [q \in PRs |-> FALSE]
  BY DEF Owed
<1>3. [q \in PRs |-> Latest(q)]' = [q \in PRs |-> Latest(q)]
  OBVIOUS
<1>. QED
  BY <1>1, <1>2, <1>3 DEF Coalescing!Crash

Mapped == TypeOK /\ SlotInv /\ PhaseInv /\ RunInv

\* A step that moves no task from one of these places to another.
LEMMA PlacesStay ==
  ASSUME Mapped, PhaseInv', push' = push, NEW p \in PRs,
         \A e \in Events : PR(e) = p =>
           /\ pc'[e] \in {"ready", "running"} <=> pc[e] \in {"ready", "running"}
           /\ pc'[e] = "notified" <=> pc[e] = "notified"
           /\ pc'[e] = "waiting" <=> pc[e] = "waiting"
  PROVE  PhaseOf(p)' = PhaseOf(p) /\ (Owed(p)' <=> Owed(p))
<1>1. \A e \in Events : PR(e)' = PR(e)
  BY DEF PR
<1>2. (Held(p)' <=> Held(p)) /\ (Woken(p)' <=> Woken(p)) /\ (Awaited(p)' <=> Awaited(p))
  BY <1>1 DEF Held, Woken, Awaited
<1>. QED
  BY <1>2, PhaseStays DEF Mapped

LEMMA QuietMaps ==
  ASSUME Mapped, TypeOK', PhaseInv', NEW e \in Events,
         Ignore(e) \/ Discard(e) \/ StartCommand(e) \/ EndCommand(e) \/ FailCommand(e)
  PROVE  RunInv' /\ UNCHANGED Coalescing!vars
<1>1. UNCHANGED <<push, head, resumed>>
  BY DEF Ignore, Discard, StartCommand, EndCommand, FailCommand
<1>2. \A f \in Events :
        /\ pc'[f] \in {"ready", "running"} <=> pc[f] \in {"ready", "running"}
        /\ pc'[f] = "notified" <=> pc[f] = "notified"
        /\ pc'[f] = "waiting" <=> pc[f] = "waiting"
        /\ pc'[f] \in {"idle", "sent", "waiting", "notified"} =>
             pc[f] \in {"idle", "sent", "waiting", "notified"}
  BY DEF Mapped, TypeOK, Ignore, Discard, StartCommand, EndCommand, FailCommand, Goto
<1>3. \A q \in PRs : PhaseOf(q)' = PhaseOf(q) /\ (Owed(q)' <=> Owed(q))
  BY <1>1, <1>2, PlacesStay
<1>4. \A q \in PRs : head'[q] \in Nat /\ head'[q] >= head[q]
  BY <1>1 DEF Mapped, TypeOK
<1>5. RunInv' /\ \A q \in PRs : Latest(q)' = Latest(q)
  BY <1>1, <1>2, <1>4, NoRunBegins DEF Mapped
<1>. QED
  BY <1>1, <1>3, <1>5, MapsToStutter DEF Alike

LEMMA PushMaps ==
  ASSUME Mapped, TypeOK', PhaseInv', NEW e \in Events, Push(e)
  PROVE  RunInv' /\ Coalescing!Push(PR(e))
<1>1. UNCHANGED <<push, resumed>> /\ head' = [head EXCEPT ![PR(e)] = @ + 1]
  BY DEF Push
<1>2. \A f \in Events :
        /\ pc'[f] \in {"ready", "running"} <=> pc[f] \in {"ready", "running"}
        /\ pc'[f] = "notified" <=> pc[f] = "notified"
        /\ pc'[f] = "waiting" <=> pc[f] = "waiting"
        /\ pc'[f] \in {"idle", "sent", "waiting", "notified"} =>
             pc[f] \in {"idle", "sent", "waiting", "notified"}
  BY DEF Mapped, TypeOK, Push, Goto
<1>3. \A q \in PRs : PhaseOf(q)' = PhaseOf(q) /\ (Owed(q)' <=> Owed(q))
  BY <1>1, <1>2, PlacesStay
<1>4. \A q \in PRs : head'[q] \in Nat /\ head'[q] >= head[q]
  BY <1>1 DEF Mapped, TypeOK
<1>5. RunInv' /\ \A q \in PRs : Latest(q)' = Latest(q)
  BY <1>1, <1>2, <1>4, NoRunBegins DEF Mapped
<1>6. PR(e) \in PRs
  BY WebhookTypes DEF Mapped
<1>. QED
  BY <1>1, <1>3, <1>5, <1>6, MapsToPush DEF Alike

\* Task e goes from one place to another, and no other task moves.
Moves(e, state) ==
  /\ pc' = [pc EXCEPT ![e] = state]
  /\ push' = push

LEMMA MoveKeepsOthers ==
  ASSUME Mapped, PhaseInv', NEW e \in Events, NEW state, Moves(e, state),
         NEW q \in PRs, q # PR(e)
  PROVE  PhaseOf(q)' = PhaseOf(q) /\ (Owed(q)' <=> Owed(q))
<1>1. \A f \in Events : PR(f) = q => pc'[f] = pc[f]
  BY DEF Mapped, TypeOK, Moves
<1>. QED
  BY <1>1, PlacesStay DEF Moves

LEMMA ClaimMaps ==
  ASSUME OneWorker, Mapped, TypeOK', PhaseInv', NEW e \in Events, Claim(e),
         NEW p \in PRs, p = PR(e)
  PROVE  RunInv' /\ (Coalescing!Begin(p) \/ Coalescing!Owe(p))
<1> DEFINE s == push[e].slot
<1>1. /\ UNCHANGED <<push, head>> /\ pc[e] = "sent" /\ Counter(e) < MaxActive(e)
      /\ head[p] \in Nat /\ Counter(e) \in 0..2 /\ s \in Slots
      /\ MaxActive(e) \in 1..2 /\ SlotOK(s)
      /\ \A f \in Events : PR(f)' = PR(f)
      /\ \A f \in Events : PR(f) = p => push[f].slot = s
  BY WebhookTypes, OneSlot DEF Claim, Mapped, SlotInv, PR
<1> HIDE DEF s
<1>a. p = PR(e) /\ s = push[e].slot
  BY DEF s
<1>2. CASE Counter(e) # 1
  <2>1. Counter(e) = 0 /\ Moves(e, "ready") /\ resumed' = [resumed EXCEPT ![e] = head[p]]
    BY <1>1, <1>2, <1>a DEF Claim, Moves, Goto
  <2>2. pc'[e] = "ready" /\ \A f \in Events \ {e} : pc'[f] = pc[f]
    BY <2>1 DEF Moves, Mapped, TypeOK
  <2>3. \A f \in Events : PR(f) = p => pc[f] \notin {"ready", "running", "notified", "waiting"}
    BY <1>1, <1>a, <2>1 DEF SlotOK, Counter, Owns, Waits, Owning, Waiting
  <2>4. ~Held(p) /\ ~Woken(p) /\ ~Awaited(p)
    BY <2>3 DEF Held, Woken, Awaited
  <2>5. Held(p)' /\ ~Awaited(p)'
    BY <1>1, <1>a, <2>2, <2>3 DEF Held, Awaited
  <2>6. PhaseOf(p) = "idle" /\ PhaseOf(p)' = "active" /\ ~Owed(p) /\ ~Owed(p)'
    BY <1>1, <2>4, <2>5 DEF Mapped, PhaseInv
  <2>7. RunInv' /\ \A q \in PRs : Latest(q)' = IF q = p THEN head[q] ELSE Latest(q)
    BY <1>1, <1>a, <2>1, <2>2, RunBegins DEF Mapped
  <2>8. \A q \in PRs \ {p} : PhaseOf(q)' = PhaseOf(q) /\ (Owed(q)' <=> Owed(q))
    BY <1>a, <2>1, MoveKeepsOthers
  <2>9. Coalescing!Begin(p)
    BY <1>1, <2>6, <2>7, <2>8, MapsToBegin
  <2>. QED
    BY <1>a, <2>7, <2>9
<1>3. CASE Counter(e) = 1
  <2>1. Moves(e, "waiting") /\ resumed' = resumed
    BY <1>1, <1>3 DEF Claim, Moves, Goto
  <2>2. pc'[e] = "waiting" /\ \A f \in Events \ {e} : pc'[f] = pc[f]
    BY <2>1 DEF Moves, Mapped, TypeOK
  <2>3. /\ \A f \in Events : PR(f) = p => pc[f] # "waiting"
        /\ \E f \in Events : PR(f) = p /\ pc[f] \in {"ready", "running", "notified"}
    BY <1>1, <1>3, <1>a DEF SlotOK, Counter, Owns, Waits, Owning, Waiting, PR
  <2>4. (Held(p) \/ Woken(p)) /\ ~Awaited(p)
    BY <2>3 DEF Held, Woken, Awaited
  <2>5. Awaited(p)' /\ (Held(p)' <=> Held(p)) /\ (Woken(p)' <=> Woken(p))
    BY <1>1, <1>a, <2>2 DEF Awaited, Held, Woken
  <2>6. PhaseOf(p) # "idle" /\ PhaseOf(p)' = PhaseOf(p) /\ ~Owed(p) /\ Owed(p)'
    BY <1>1, <2>4, <2>5 DEF Mapped, PhaseInv
  <2>7. \A q \in PRs : head'[q] \in Nat /\ head'[q] >= head[q]
    BY <1>1 DEF Mapped, TypeOK
  <2>8. RunInv' /\ \A q \in PRs : Latest(q)' = Latest(q)
    BY <1>1, <2>1, <2>2, <2>7, NoRunBegins DEF Mapped
  <2>9. \A q \in PRs \ {p} : PhaseOf(q)' = PhaseOf(q) /\ (Owed(q)' <=> Owed(q))
    BY <1>a, <2>1, MoveKeepsOthers
  <2>10. Coalescing!Owe(p)
    BY <1>1, <2>6, <2>8, <2>9, MapsToOwe
  <2>. QED
    BY <1>a, <2>8, <2>10
<1>. QED
  BY <1>2, <1>3

LEMMA ResumeMaps ==
  ASSUME Mapped, TypeOK', PhaseInv', NEW e \in Events, Resume(e),
         NEW p \in PRs, p = PR(e)
  PROVE  RunInv' /\ Coalescing!Begin(p)
<1>1. /\ UNCHANGED <<push, head>> /\ pc[e] = "notified"
      /\ Moves(e, "ready") /\ resumed' = [resumed EXCEPT ![e] = head[p]]
      /\ \A f \in Events : PR(f)' = PR(f)
  BY WebhookTypes DEF Resume, Mapped, Moves, Goto, PR
<1>2. pc'[e] = "ready" /\ \A f \in Events \ {e} : pc'[f] = pc[f]
  BY <1>1 DEF Moves, Mapped, TypeOK
<1>3. Woken(p) /\ Held(p)' /\ (Awaited(p)' <=> Awaited(p))
  BY <1>1, <1>2 DEF Woken, Held, Awaited
<1>4. PhaseOf(p) = "queued" /\ PhaseOf(p)' = "active" /\ (Owed(p)' <=> Owed(p))
  BY <1>1, <1>3 DEF Mapped, PhaseInv
<1>5. RunInv' /\ \A q \in PRs : Latest(q)' = IF q = p THEN head[q] ELSE Latest(q)
  BY <1>1, <1>2, RunBegins DEF Mapped
<1>6. \A q \in PRs \ {p} : PhaseOf(q)' = PhaseOf(q) /\ (Owed(q)' <=> Owed(q))
  BY <1>1, MoveKeepsOthers
<1>7. Coalescing!Begin(p)
  BY <1>1, <1>4, <1>5, <1>6, MapsToBegin
<1>. QED
  BY <1>5, <1>7

LEMMA ReleaseMaps ==
  ASSUME OneWorker, Mapped, TypeOK', PhaseInv', NEW e \in Events, Release(e),
         NEW p \in PRs, p = PR(e)
  PROVE  RunInv' /\ Coalescing!End(p)
<1> DEFINE s == push[e].slot
<1>1. /\ UNCHANGED <<push, head, resumed>> /\ pc[e] = "ready" /\ Notify(e)
      /\ s \in Slots /\ SlotOK(s)
      /\ \A f \in Events : PR(f)' = PR(f)
      /\ \A f \in Events : PR(f) = p <=> push[f].slot = s
  <2>1. UNCHANGED <<push, head, resumed>> /\ pc[e] = "ready" /\ Notify(e)
    BY DEF Release, MayRelease
  <2>2. s \in Slots
    BY WebhookTypes DEF Mapped
  <2>3. SlotOK(s)
    BY <2>2 DEF Mapped, SlotInv
  <2>4. \A f \in Events : PR(f)' = PR(f)
    BY <2>1 DEF PR
  <2>5. \A f \in Events : PR(f) = p <=> push[f].slot = s
    <3>1. \A f \in Events : push[f].slot \in Slots /\ PR(f) = push[f].slot[2]
      BY WebhookTypes DEF Mapped, PR
    <3>2. \A r \in Slots : r[2] = p => r = Slot(p)
      BY OneSlot
    <3>3. s = Slot(p)
      BY <3>1, <3>2
    <3>. QED
      BY <3>1, <3>2, <3>3
  <2>. QED
    BY <2>1, <2>2, <2>3, <2>4, <2>5
<1> HIDE DEF s
<1>a. s = push[e].slot
  BY DEF s
<1>2. /\ \A f \in Events : PR(f) = p /\ pc[f] \in {"ready", "running", "notified"} => f = e
      /\ \A f, g \in Events :
           PR(f) = p /\ pc[f] = "waiting" /\ PR(g) = p /\ pc[g] = "waiting" => f = g
  <2>1. /\ \A f, g \in Events : Owns(f, s) /\ Owns(g, s) => f = g
        /\ \A f, g \in Events : Waits(f, s) /\ Waits(g, s) => f = g
    BY <1>1 DEF SlotOK
  <2>2. \A f \in Events : /\ Owns(f, s) <=> PR(f) = p /\ pc[f] \in Owning
                          /\ Waits(f, s) <=> PR(f) = p /\ pc[f] = "waiting"
    BY <1>1 DEF Owns, Waits, Waiting
  <2>3. Owns(e, s)
    BY <1>1, <2>2 DEF Owning
  <2>4. \A f \in Events : PR(f) = p /\ pc[f] \in {"ready", "running", "notified"}
                           => Owns(f, s)
    BY <2>2 DEF Owning
  <2>. QED
    BY <2>1, <2>2, <2>3, <2>4
<1>3. Held(p) /\ PhaseOf(p) = "active" /\ (Owed(p) <=> Awaited(p))
  <2>1. Held(p)
    BY <1>1 DEF Held
  <2>. QED
    BY <2>1 DEF Mapped, PhaseInv
<1>4. ASSUME NEW f \in Events, PR(f) = p, pc[f] = "waiting",
             pc' = [pc EXCEPT ![e] = "finished", ![f] = "notified"]
      PROVE  /\ \A g \in Events : pc'[g] = IF g = e THEN "finished"
                                          ELSE IF g = f THEN "notified" ELSE pc[g]
             /\ PhaseOf(p)' = "queued" /\ Owed(p) /\ ~Owed(p)'
  <2>1. e # f
    BY <1>1, <1>4
  <2>2. \A g \in Events : pc'[g] = IF g = e THEN "finished"
                                   ELSE IF g = f THEN "notified" ELSE pc[g]
    BY <1>4, <2>1 DEF Mapped, TypeOK
  <2>3. Awaited(p)
    BY <1>4 DEF Awaited
  <2>4. Woken(p)'
    BY <1>1, <1>4, <2>1, <2>2 DEF Woken
  <2>5. ~Awaited(p)'
    <3>1. \A g \in Events : PR(g) = p /\ pc[g] = "waiting" => g = f
      BY <1>2, <1>4
    <3>2. \A g \in Events : pc'[g] = "waiting" => pc[g] = "waiting" /\ g # f
      BY <2>1, <2>2
    <3>. QED
      BY <1>1, <3>1, <3>2 DEF Awaited
  <2>6. PhaseOf(p)' = "queued" /\ ~Owed(p)'
    <3>1. ~Held(p)'
      <4>1. \A g \in Events : pc'[g] \in {"ready", "running"} =>
              pc[g] \in {"ready", "running", "notified"} /\ g # e
        BY <2>1, <2>2
      <4>. QED
        BY <1>1, <1>2, <4>1 DEF Held
    <3>. QED
      BY <2>4, <2>5, <3>1 DEF PhaseInv
  <2>. QED
    BY <1>3, <2>2, <2>3, <2>6
<1>5. ASSUME \A f \in Events : PR(f) = p => pc[f] # "waiting",
             pc' = [pc EXCEPT ![e] = "finished"]
      PROVE  /\ \A g \in Events : pc'[g] = IF g = e THEN "finished" ELSE pc[g]
             /\ PhaseOf(p)' = "idle" /\ ~Owed(p) /\ ~Owed(p)'
  <2>1. \A g \in Events : pc'[g] = IF g = e THEN "finished" ELSE pc[g]
    BY <1>5 DEF Mapped, TypeOK
  <2>2. ~Woken(p)' /\ ~Held(p)' /\ ~Awaited(p)' /\ ~Awaited(p)
    BY <1>1, <1>2, <1>5, <2>1 DEF Woken, Held, Awaited
  <2>. QED
    BY <1>3, <2>1, <2>2 DEF PhaseInv
<1>6. \/ /\ \A f \in Events : PR(f) = p => pc[f] # "waiting"
         /\ pc' = [pc EXCEPT ![e] = "finished"]
      \/ \E f \in Events : /\ PR(f) = p /\ pc[f] = "waiting"
                           /\ pc' = [pc EXCEPT ![e] = "finished", ![f] = "notified"]
  BY <1>1, <1>a DEF Notify, Goto
<1>7. /\ PhaseOf(p)' = IF Owed(p) THEN "queued" ELSE "idle"
      /\ ~Owed(p)'
      /\ \A g \in Events : PR(g) # p => pc'[g] = pc[g]
      /\ \A g \in Events : pc'[g] \in {"idle", "sent", "waiting", "notified"} =>
           pc[g] \in {"idle", "sent", "waiting", "notified"}
  BY <1>4, <1>5, <1>6
<1>8. \A q \in PRs \ {p} : PhaseOf(q)' = PhaseOf(q) /\ (Owed(q)' <=> Owed(q))
  BY <1>1, <1>7, PlacesStay
<1>9. \A q \in PRs : head'[q] \in Nat /\ head'[q] >= head[q]
  BY <1>1 DEF Mapped, TypeOK
<1>10. RunInv' /\ \A q \in PRs : Latest(q)' = Latest(q)
  BY <1>1, <1>7, <1>9, NoRunBegins DEF Mapped
<1>11. Coalescing!End(p)
  BY <1>1, <1>3, <1>7, <1>8, <1>10, MapsToEnd
<1>. QED
  BY <1>10, <1>11

LEMMA CrashMaps ==
  ASSUME OneWorker, Mapped, TypeOK', PhaseInv', NEW w \in Workers, Crash(w)
  PROVE  RunInv' /\ Coalescing!Crash
<1>1. /\ UNCHANGED <<push, head, resumed>>
      /\ \A e \in Events : pc'[e] = IF push[e].slot[1] = w /\ pc[e] \in Active
                                    THEN "crashed" ELSE pc[e]
  BY DEF Crash
<1>2. \A e \in Events : push[e].slot[1] = w
  BY WebhookTypes DEF OneWorker, Slots, Mapped
<1>3. \A e \in Events : /\ pc'[e] \notin {"ready", "running", "notified", "waiting"}
                        /\ pc'[e] \in {"idle", "sent"} => pc[e] \in {"idle", "sent"}
  BY <1>1, <1>2 DEF Active, Owning, Waiting
<1>4. \A q \in PRs : ~Held(q)' /\ ~Woken(q)' /\ ~Awaited(q)'
  BY <1>3 DEF Held, Woken, Awaited
<1>5. \A q \in PRs : PhaseOf(q)' = "idle" /\ ~Owed(q)'
  BY <1>4 DEF PhaseInv
<1>6. \A q \in PRs : head'[q] \in Nat /\ head'[q] >= head[q]
  BY <1>1 DEF Mapped, TypeOK
<1>7. RunInv' /\ \A q \in PRs : Latest(q)' = Latest(q)
  BY <1>1, <1>3, <1>6, NoRunBegins DEF Mapped
<1>. QED
  BY <1>1, <1>5, <1>7, MapsToCrash

LEMMA StepMaps ==
  OneWorker /\ IInv /\ IInv' /\ RunInv /\ [Next]_vars => RunInv' /\ [Coalescing!Next]_(Coalescing!vars)
<1> SUFFICES ASSUME OneWorker, IInv, IInv', RunInv, [Next]_vars
             PROVE  RunInv' /\ [Coalescing!Next]_(Coalescing!vars)
  OBVIOUS
<1>1. Mapped /\ TypeOK' /\ PhaseInv'
  BY PhaseIs, PhaseIsNext DEF IInv, Mapped
<1>2. \A e \in Events : PR(e) \in PRs
  BY <1>1, WebhookTypes DEF Mapped
<1>3. ASSUME NEW e \in Events, Push(e) \/ TaskStep(e)
      PROVE  RunInv' /\ [Coalescing!Next]_(Coalescing!vars)
  <2>1. CASE Push(e)
    BY <1>1, <1>2, <2>1, PushMaps DEF Coalescing!Next
  <2>2. CASE Ignore(e) \/ Discard(e) \/ StartCommand(e) \/ EndCommand(e) \/ FailCommand(e)
    BY <1>1, <2>2, QuietMaps
  <2>3. CASE Claim(e)
    BY <1>1, <1>2, <2>3, ClaimMaps DEF Coalescing!Next
  <2>4. CASE Resume(e)
    BY <1>1, <1>2, <2>4, ResumeMaps DEF Coalescing!Next
  <2>5. CASE Release(e)
    BY <1>1, <1>2, <2>5, ReleaseMaps DEF Coalescing!Next
  <2>. QED
    BY <1>3, <2>1, <2>2, <2>3, <2>4, <2>5 DEF TaskStep
<1>4. ASSUME NEW w \in Workers, Crash(w)
      PROVE  RunInv' /\ [Coalescing!Next]_(Coalescing!vars)
  BY <1>1, <1>4, CrashMaps DEF Coalescing!Next
<1>5. CASE UNCHANGED vars
  <2>1. RunInv'
    BY <1>5 DEF vars, RunInv, Begun, PR
  <2>2. \A q \in PRs : Alike(q)
    BY <1>5 DEF vars, Alike, PhaseOf, Owed, Latest, Begun, On, PR
  <2>. QED
    BY <1>5, <2>1, <2>2, MapsToStutter DEF vars
<1>. QED
  BY <1>3, <1>4, <1>5 DEF Next, Quiescent

LEMMA InitMaps == OneWorker /\ Init => RunInv /\ Coalescing!Init
<1> SUFFICES ASSUME OneWorker, Init PROVE RunInv /\ Coalescing!Init
  OBVIOUS
<1>1. TypeOK /\ SlotInv
  BY InitIInv DEF IInv
<1>2. \A e \in Events : PR(e) \in PRs
  BY <1>1, WebhookTypes
<1>3. \A p \in PRs : Begun(p) = {0}
  BY DEF Init, Begun
<1>4. RunInv
  BY <1>2, <1>3 DEF Init, RunInv
<1>5. \A p \in PRs : Latest(p) = 0
  BY <1>1, <1>3, LatestIs
<1>6. PhaseInv
  BY <1>1, PhaseIs
<1>7. \A p \in PRs : ~Held(p) /\ ~Woken(p) /\ ~Awaited(p)
  BY DEF Init, Held, Woken, Awaited
<1>8. \A p \in PRs : PhaseOf(p) = "idle" /\ ~(On(Slot(p), Waiting) # {})
  BY <1>6, <1>7 DEF PhaseInv, Owed
<1>. QED
  BY <1>4, <1>5, <1>8 DEF Coalescing!Init, Init

(***************************************************************************)
(* With one worker, the tasks, counters and conditions of the handler do   *)
(* what PushCoalescing promises of a pull request: one run at a time, at   *)
(* most one more owed, which begins with the head of its moment; and a     *)
(* crash is the only way a debt is lost.                                   *)
(***************************************************************************)
THEOREM CoalescingImplemented ==
  ASSUME OneWorker
  PROVE  Spec => ImplementsCoalescing
<1>1. Init => IInv /\ RunInv /\ Coalescing!Init
  BY InitIInv, InitMaps
<1>2. IInv /\ RunInv /\ [Next]_vars =>
        IInv' /\ RunInv' /\ [Coalescing!Next]_(Coalescing!vars)
  BY IInvStep, StepMaps
<1>. QED
  BY <1>1, <1>2, PTL DEF Spec, ImplementsCoalescing, Coalescing!Spec
=============================================================================
