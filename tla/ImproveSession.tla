---------------------------- MODULE ImproveSession ----------------------------
(***************************************************************************)
(* Requests for code suggestions (/improve) on one GitHub pull request:    *)
(* PRCodeSuggestions (pr_insight/tools/pr_code_suggestions.py) and the     *)
(* comment with a history of suggestions that it keeps.                    *)
(*                                                                         *)
(* As in ReviewSession, the calls to GitHub block and a task keeps its     *)
(* worker's event loop from one suspension point to the next: it gives the *)
(* loop up only while it awaits the model.  The settings are the default   *)
(* ones (one persistent comment, a table of suggestions, no committable    *)
(* suggestions) and the pull request has files.                            *)
(***************************************************************************)
EXTENDS Integers, FiniteSets, Sequences

CONSTANTS
  Requests,     \* the requests
  None,         \* no request, no table
  Workers,      \* the gunicorn worker processes
  Modes,        \* config.is_auto_command: an automatic request or a person's
  Outcomes,     \* what may come of the calls to the model
  MaxHistory,   \* pr_code_suggestions.max_history_len
  MaxFailures   \* bound: HTTP calls that fail

\* "suggestions": some are left.  "broken": some, but their table cannot be
\* formatted.  "none": none are left.  "error": an exception.
OutcomeKinds == {"suggestions", "broken", "none", "error"}

ASSUME ImproveSessionAssumption ==
  /\ None \notin Requests
  /\ Modes \subseteq BOOLEAN
  /\ Outcomes \subseteq OutcomeKinds
  /\ MaxHistory \in Nat \ {0}
  /\ MaxFailures \in Nat

VARIABLES
  worker,     \* worker[r]: the worker that is sent r
  thread,     \* the pull request's comments, oldest first
  pc,         \* pc[r]: where the task that handles r is
  loop,       \* loop[w]: the task that keeps w's event loop, or none
  local,      \* local[r]: the task's own variables
  failures,   \* HTTP calls that failed so far
  record      \* what happened, for the properties only

vars == <<worker, thread, pc, loop, local, failures, record>>

Ended == {"done", "failed"}
Synchronous == {"telling", "publishing", "walking", "removing", "appending",
                "failing"}

(* A section is a table of suggestions, and whether it names the commit it  *)
(* was made for.  A comment has a latest section and those of its history.  *)
Section(table, labelled) == [table |-> table, labelled |-> labelled]
Body(kind, latest, older) == [kind |-> kind, latest |-> latest, older |-> older]
Comment(r, body) == [by |-> r, live |-> TRUE, body |-> body]

NoSection == Section(None, FALSE)
Progress == Body("progress", NoSection, <<>>)
NoSuggestions == Body("suggestions", NoSection, <<>>)
Failed == Body("failed", NoSection, <<>>)

\* generate_summarized_suggestions: it formats the table, or returns nothing.
Table(r) == IF local[r].outcome = "suggestions" THEN r ELSE None

NoLocals == [progress |-> 0, outcome |-> "none", listed |-> <<>>, next |-> 1]

-----------------------------------------------------------------------------

Init ==
  /\ worker \in [Requests -> Workers]
  /\ thread = <<>>
  /\ pc = [r \in Requests |-> "idle"]
  /\ loop = [w \in Workers |-> None]
  /\ local = [r \in Requests |-> NoLocals]
  /\ failures = 0
  /\ record = [published |-> <<>>, dropped |-> {}, lost |-> {}, refused |-> {}]

\* Mutant of GotoWith: the calls to the model block the event loop.
GotoWithBlocking(r, state, locals) ==
  /\ pc' = [pc EXCEPT ![r] = state]
  /\ loop' = [loop EXCEPT ![worker[r]] = IF state \in Ended THEN None ELSE r]
  /\ local' = [local EXCEPT ![r] = IF state \in Ended THEN NoLocals ELSE locals]

\* The task goes on to `state` with these variables, and keeps the loop unless
\* it suspends or ends.
GotoWith(r, state, locals) ==
  /\ pc' = [pc EXCEPT ![r] = state]
  /\ loop' = [loop EXCEPT ![worker[r]] =
                IF state \in Synchronous THEN r ELSE None]
  /\ local' = [local EXCEPT ![r] = IF state \in Ended THEN NoLocals ELSE locals]

Goto(r, state) == GotoWith(r, state, local[r])

LoopFree(r) == loop[worker[r]] = None

Succeed == UNCHANGED failures
Fail == failures < MaxFailures /\ failures' = failures + 1

Publish(r, body) == thread' = Append(thread, Comment(r, body))

\* A comment that is gone cannot be edited.
Rewrite(c, body) ==
  thread' = [thread EXCEPT ![c].body = IF thread[c].live THEN body ELSE @]

Refused(r) == record' = [record EXCEPT !.refused = @ \cup {r}]

\* The table of r is now to be seen for the first time, and trimming dropped
\* some others.
Published(r, dropped) ==
  record' = [record EXCEPT
    !.published = IF Table(r) = None \/ \E i \in DOMAIN @ : @[i] = r
                  THEN @ ELSE Append(@, r),
    !.dropped = @ \cup dropped]
-----------------------------------------------------------------------------
(* What a request does. *)

\* The provider is constructed, and a person's request publishes "Generating
\* PR code suggestions", which the suggestions will replace.
Begin(r, auto) ==
  /\ pc[r] = "idle" /\ LoopFree(r)
  /\ \/ /\ Fail
        /\ Goto(r, "failed")
        /\ UNCHANGED thread
     \/ /\ auto
        /\ Succeed
        /\ Goto(r, "waiting")
        /\ UNCHANGED thread
     \/ /\ ~auto
        /\ Succeed
        /\ Publish(r, Progress)
        /\ GotoWith(r, "waiting", [local[r] EXCEPT !.progress = Len(thread) + 1])
     \/ /\ ~auto
        /\ Fail
        /\ Goto(r, "failing")
        /\ UNCHANGED thread
  /\ UNCHANGED <<worker, record>>

\* Mutant of After: an exception is not handled.
AfterUnhandled(o) ==
  CASE o = "none" -> "telling" [] o = "error" -> "failed" [] OTHER -> "publishing"

After(o) ==
  CASE o = "none" -> "telling" [] o = "error" -> "failing" [] OTHER -> "publishing"

\* The calls to the model return, after retries and fallbacks.
Predict(r) ==
  /\ pc[r] = "waiting" /\ LoopFree(r)
  /\ \E o \in Outcomes :
       GotoWith(r, After(o), [local[r] EXCEPT !.outcome = o])
  /\ UNCHANGED <<worker, thread, failures, record>>

\* publish_no_suggestions: "No code suggestions found for the PR".
TellNone(r) ==
  /\ pc[r] = "telling"
  /\ \/ /\ local[r].progress # 0
        /\ Succeed
        /\ Rewrite(local[r].progress, NoSuggestions)
        /\ Goto(r, "done")
        /\ UNCHANGED record
     \/ /\ local[r].progress # 0
        /\ Fail
        /\ Refused(r)
        /\ Goto(r, "done")
        /\ UNCHANGED thread
     \/ /\ local[r].progress = 0
        /\ Succeed
        /\ Publish(r, NoSuggestions)
        /\ Goto(r, "done")
        /\ UNCHANGED record
     \/ /\ local[r].progress = 0
        /\ Fail
        /\ Goto(r, "failing")
        /\ UNCHANGED <<thread, record>>
  /\ UNCHANGED worker

\* publish_persistent_comment_with_history lists the comments once; if it
\* cannot, it publishes without them.
List(r) ==
  /\ pc[r] = "publishing"
  /\ \/ /\ Succeed
        /\ GotoWith(r, "walking", [local[r] EXCEPT !.listed = thread])
     \/ /\ Fail
        /\ Goto(r, "appending")
  /\ UNCHANGED <<worker, thread, record>>

\* The comments that are left to look at and begin with the header.
Candidates(r) ==
  {c \in local[r].next .. Len(local[r].listed) :
     local[r].listed[c].live /\ local[r].listed[c].body.kind = "suggestions"}

Candidate(r) == CHOOSE c \in Candidates(r) : \A d \in Candidates(r) : c <= d
Found(r) == local[r].listed[Candidate(r)].body

HasTable(body) == body.latest.table # None
HasHistory(body) == body.older # <<>>

\* A comment without a table and without a history is filled with the new
\* table, and the walk goes on.  GitHub refuses an empty comment.
Refill(r) ==
  /\ pc[r] = "walking" /\ Candidates(r) # {}
  /\ ~HasHistory(Found(r)) /\ ~HasTable(Found(r))
  /\ \/ /\ Table(r) # None
        /\ Succeed
        /\ Rewrite(Candidate(r), Body("suggestions", Section(Table(r), FALSE), <<>>))
        /\ Published(r, {})
     \/ /\ IF Table(r) = None THEN Succeed ELSE Fail
        /\ UNCHANGED <<thread, record>>
  /\ GotoWith(r, "walking", [local[r] EXCEPT !.next = Candidate(r) + 1])
  /\ UNCHANGED worker

\* Mutant of Trimmed: one section too many is kept.
TrimmedLate(older) ==
  IF Len(older) <= MaxHistory THEN older ELSE SubSeq(older, 1, Len(older) - 1)

\* "Enforce max_previous_comments": what follows the last section that names
\* its commit is cut off together with it.
Trimmed(older) ==
  LET named == {i \in DOMAIN older : older[i].labelled}
      last == CHOOSE i \in named : \A j \in named : j <= i
  IN  IF Len(older) < MaxHistory \/ named = {} THEN older
      ELSE SubSeq(older, 1, last - 1)

\* Mutants of Older: the history starts anew, or grows at its end.
OlderAnew(body) == <<body.latest>>
OlderAppended(body) == Append(Trimmed(body.older), body.latest)

\* The history of the comment that replaces one with this body.
Older(body) ==
  IF HasHistory(body) THEN <<body.latest>> \o Trimmed(body.older)
  ELSE <<body.latest>>

TablesOf(sections) == {sections[i].table : i \in DOMAIN sections} \ {None}
Tables(body) == TablesOf(<<body.latest>> \o body.older)

\* The first comment with suggestions becomes the history of the new one, which
\* takes the place of the progress comment if there is one, or of the old
\* comment.  An edit that fails is logged.
Merge(r) ==
  LET new == Body("suggestions", Section(Table(r), TRUE), Older(Found(r)))
  IN  /\ pc[r] = "walking" /\ Candidates(r) # {}
      /\ HasHistory(Found(r)) \/ HasTable(Found(r))
      /\ \/ /\ Succeed
            /\ Rewrite(IF local[r].progress = 0 THEN Candidate(r)
                       ELSE local[r].progress, new)
            /\ Published(r, TablesOf(Found(r).older) \ TablesOf(Trimmed(Found(r).older)))
         \/ /\ Fail
            /\ Refused(r)
            /\ UNCHANGED thread
      /\ Goto(r, IF local[r].progress = 0 THEN "done" ELSE "removing")
      /\ UNCHANGED worker

\* remove_comment deletes the old comment, whether or not the edit succeeded.
RemoveOld(r) ==
  /\ pc[r] = "removing"
  /\ \/ /\ Succeed
        /\ thread' = [thread EXCEPT ![Candidate(r)].live = FALSE]
        /\ record' = [record EXCEPT !.lost =
             IF r \in record.refused THEN @ \cup Tables(Found(r)) ELSE @]
     \/ /\ Fail
        /\ UNCHANGED <<thread, record>>
  /\ Goto(r, "done")
  /\ UNCHANGED worker

\* No comment with suggestions was found: the new one is published.
PublishNew(r) ==
  LET new == Body("suggestions", Section(Table(r), TRUE), <<>>)
  IN  /\ \/ pc[r] = "walking" /\ Candidates(r) = {}
         \/ pc[r] = "appending"
      /\ \/ /\ local[r].progress # 0
            /\ Succeed
            /\ Rewrite(local[r].progress, new)
            /\ Published(r, {})
            /\ Goto(r, "done")
         \/ /\ local[r].progress # 0
            /\ Fail
            /\ Refused(r)
            /\ Goto(r, "done")
            /\ UNCHANGED thread
         \/ /\ local[r].progress = 0
            /\ Succeed
            /\ Publish(r, new)
            /\ Published(r, {})
            /\ Goto(r, "done")
         \/ /\ local[r].progress = 0
            /\ Fail
            /\ Goto(r, "failing")
            /\ UNCHANGED <<thread, record>>
      /\ UNCHANGED worker

\* The handler of exceptions deletes the progress comment, or says that there
\* are no suggestions.
Recover(r) ==
  /\ pc[r] = "failing"
  /\ \/ /\ local[r].progress # 0
        /\ Succeed
        /\ thread' = [thread EXCEPT ![local[r].progress].live = FALSE]
        /\ UNCHANGED record
     \/ /\ local[r].progress # 0
        /\ Fail
        /\ Refused(r)
        /\ UNCHANGED thread
     \/ /\ local[r].progress = 0
        /\ Succeed
        /\ Publish(r, Failed)
        /\ UNCHANGED record
     \/ /\ local[r].progress = 0
        /\ Fail
        /\ UNCHANGED <<thread, record>>
  /\ Goto(r, "failed")
  /\ UNCHANGED worker

RequestStep(r) ==
  \/ \E auto \in Modes : Begin(r, auto)
  \/ Predict(r) \/ TellNone(r) \/ List(r) \/ Refill(r)
  \/ Merge(r) \/ RemoveOld(r) \/ PublishNew(r) \/ Recover(r)

Quiescent == (\A r \in Requests : pc[r] \in Ended) /\ UNCHANGED vars

Next == (\E r \in Requests : RequestStep(r)) \/ Quiescent

Spec == Init /\ [][Next]_vars

-----------------------------------------------------------------------------
(***************************************************************************)
(* Properties.                                                             *)
(***************************************************************************)

SectionOK(s) == s.table \in Requests \cup {None} /\ s.labelled \in BOOLEAN

BodyOK(b) ==
  /\ b.kind \in {"progress", "suggestions", "failed"}
  /\ SectionOK(b.latest)
  /\ \A i \in DOMAIN b.older : SectionOK(b.older[i])
  /\ b.kind # "suggestions" => ~HasTable(b) /\ ~HasHistory(b)

\* The type invariant.
TypeOK ==
  /\ worker \in [Requests -> Workers]
  /\ \A c \in DOMAIN thread : thread[c].by \in Requests /\ BodyOK(thread[c].body)
  /\ pc \in [Requests -> {"idle", "waiting"} \cup Synchronous \cup Ended]
  /\ loop \in [Workers -> Requests \cup {None}]
  /\ \A r \in Requests :
       /\ local[r].progress \in 0..Len(thread)
       /\ Len(local[r].listed) <= Len(thread)
       /\ local[r].next \in 1..(Len(local[r].listed) + 1)
       /\ pc[r] \in Synchronous <=> loop[worker[r]] = r
  /\ failures \in 0..MaxFailures

Suggestions == {c \in DOMAIN thread : thread[c].live /\ thread[c].body.kind = "suggestions"}
IsPublished(t) == \E i \in DOMAIN record.published : record.published[i] = t

\* In one worker, suggestions that were published stay in the latest section
\* or the history of a comment until they are trimmed, however requests, their
\* fallbacks and failed calls interleave; there is one exception: an edit that
\* failed is followed by the deletion of the comment it was to replace
\* (pr_code_suggestions.py:336-338).
NothingLost ==
  \A t \in Requests :
    IsPublished(t) => \/ t \in record.dropped \cup record.lost
                      \/ \E c \in Suggestions : t \in Tables(thread[c].body)

Rank(t) == CHOOSE i \in DOMAIN record.published : record.published[i] = t

\* A comment shows its suggestions newest first and none of them twice,
\* although it may be filled, merged and moved several times.
NewestFirst ==
  \A c \in Suggestions :
    LET b == thread[c].body
        all == <<b.latest>> \o b.older
    IN  \A i, j \in DOMAIN all :
          i < j /\ all[i].table # None /\ all[j].table # None =>
            Rank(all[i].table) > Rank(all[j].table)

\* A history is never longer than max_history_len, which must be at least 2: the
\* oldest section may not name its commit, and then only the one before it
\* tells where to cut.
HistoryBound ==
  MaxHistory >= 2 =>
    \A c \in Suggestions : Len(thread[c].body.older) <= MaxHistory

\* "Work in progress ..." does not outlive its request, unless the very call
\* that was to replace or to delete it failed.
ProgressEnds ==
  \A c \in DOMAIN thread :
    LET r == thread[c].by
    IN  thread[c].live /\ thread[c].body.kind = "progress" /\ pc[r] \in Ended =>
          r \in record.refused
=============================================================================
