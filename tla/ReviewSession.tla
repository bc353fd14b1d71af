---------------------------- MODULE ReviewSession ----------------------------
(***************************************************************************)
(* Review requests (/review and /review -i) on one GitHub pull request:    *)
(* PRReviewer (pr_insight/tools/pr_reviewer.py) on top of the comments,    *)
(* labels and commits that the provider reads and writes one HTTP call at  *)
(* a time (github_provider_comments.py, github_provider_diff.py,           *)
(* git_provider.py).                                                       *)
(*                                                                         *)
(* The calls to GitHub block, so a task keeps its worker's event loop from *)
(* one suspension point to the next: it gives the loop up only while it    *)
(* awaits the model.  Other workers, and the people who push and label,    *)
(* act between any two calls.  The settings are the default ones: the      *)
(* persistent comment is on and an incremental review has no thresholds.   *)
(***************************************************************************)
EXTENDS Integers, FiniteSets, Sequences

CONSTANTS
  Requests,      \* the review requests
  None,          \* no request
  Workers,       \* the gunicorn worker processes
  Kinds,         \* the requests there may be: [incremental, auto, effort]
  Efforts,       \* the "Review effort n/5" labels
  UserLabel,     \* a label people give the pull request
  Outcomes,      \* what may come of the call to the model
  FinalMessage,  \* pr_reviewer.final_update_message
  Lags,          \* how old a commit may be when it is pushed
  MaxPushes,     \* bound: pushes after the pull request was opened
  MaxFailures    \* bound: HTTP calls that fail

\* "review": a review that can be published.  "quiet": one without major
\* issues, while publish_output_no_suggestions is off.  "garbled": a
\* prediction without a "review" section, of which an empty comment is made,
\* which GitHub refuses.  "empty": no prediction.  "error": an exception.
OutcomeKinds == {"review", "quiet", "garbled", "empty", "error"}

ASSUME ReviewSessionAssumption ==
  /\ None \notin Requests
  /\ Kinds \subseteq [incremental : BOOLEAN, auto : BOOLEAN, effort : Efforts]
  /\ Outcomes \subseteq OutcomeKinds
  /\ FinalMessage \in BOOLEAN
  /\ UserLabel \notin Efforts
  /\ Lags \subseteq Nat
  /\ MaxPushes \in Nat /\ MaxFailures \in Nat

VARIABLES
  request,    \* request[r]: what r asks for, and the worker that handles it
  commits,    \* the pull request's commits: when each was authored and pushed
  clock,      \* the time, which pushes and comments move on
  thread,     \* the pull request's comments, oldest first
  labels,     \* the pull request's labels
  pc,         \* pc[r]: where the task that handles r is
  loop,       \* loop[w]: the task that keeps w's event loop, or none
  local,      \* local[r]: what the task knows of the pull request
  failures,   \* HTTP calls that failed so far
  history     \* what happened, for the properties only

vars == <<request, commits, clock, thread, labels, pc, loop, local, failures,
          history>>

Ended == {"done", "withheld", "failed"}
Synchronous == {"opened", "skipping", "listed", "predicted", "labelling",
                "publishing", "editing", "announcing", "creating", "cleaning"}

CommitIds == 1..(MaxPushes + 1)
Reviews == {"review", "incremental"}

\* A comment: of a review, the commits it shows and the commit its header
\* names; of an announcement, the comment and the commit it says were updated.
Comment(kind, r, shows, upto, about) ==
  [kind |-> kind, by |-> r, shows |-> shows, upto |-> upto, about |-> about,
   created |-> clock + 1, live |-> TRUE]

Live(kinds) == {c \in DOMAIN thread : thread[c].live /\ thread[c].kind \in kinds}

\* Mutant of PersistentReviews: the wrong header is looked for.
PersistentByWrongHeader == Live({"incremental"})

\* The comments that begin with the header of a persistent review.
PersistentReviews == Live({"review"})

Oldest(cs) == CHOOSE c \in cs : \A d \in cs : c <= d
Newest(cs) == CHOOSE c \in cs : \A d \in cs : d <= c

-----------------------------------------------------------------------------

Init ==
  /\ request \in [Requests -> [worker : Workers, is : Kinds]]
  /\ commits = <<[authored |-> 1, pushed |-> 1]>>
  /\ clock = 1
  /\ thread = <<>>
  /\ labels = {}
  /\ pc = [r \in Requests |-> "idle"]
  /\ loop = [w \in Workers |-> None]
  /\ local = [r \in Requests |->
                [upto |-> 0, shows |-> {}, incremental |-> request[r].is.incremental,
                 outcome |-> "none", seen |-> {}, target |-> 0, temporary |-> 0]]
  /\ failures = 0
  /\ history = [published |-> {}, during |-> {}, before |-> [r \in Requests |-> {}],
                unedited |-> {}, undeleted |-> {}, blind |-> 0]

\* The task goes on to `state`, and keeps the loop unless it suspends or ends.
Goto(r, state) ==
  /\ pc' = [pc EXCEPT ![r] = state]
  /\ loop' = [loop EXCEPT ![request[r].worker] =
                IF state \in Synchronous THEN r ELSE None]

HasLoop(r) == loop[request[r].worker] = r
LoopFree(r) == loop[request[r].worker] = None

Learn(r, field, value) == local' = [local EXCEPT ![r][field] = value]

Succeed == UNCHANGED failures
Fail == failures < MaxFailures /\ failures' = failures + 1

Publish(comment) ==
  /\ thread' = Append(thread, comment)
  /\ clock' = clock + 1

PullRequestUnchanged == UNCHANGED <<request, commits, clock, thread, labels>>

-----------------------------------------------------------------------------
(* What other people do. *)

\* Somebody pushes a commit that was authored a while ago.
Push(lag) ==
  /\ Len(commits) <= MaxPushes
  /\ lag < clock
  /\ clock' = clock + 1
  /\ commits' = Append(commits, [authored |-> clock + 1 - lag, pushed |-> clock + 1])
  /\ history' = [history EXCEPT !.during =
       IF \E r \in Requests : pc[r] \in (Synchronous \cup {"waiting"}) \ {"cleaning"}
       THEN @ \cup {Len(commits) + 1} ELSE @]
  /\ UNCHANGED <<request, thread, labels, pc, loop, local, failures>>

\* Somebody labels the pull request.
AddLabel ==
  /\ UserLabel \notin labels
  /\ labels' = labels \cup {UserLabel}
  /\ UNCHANGED <<request, commits, clock, thread, pc, loop, local, failures, history>>

-----------------------------------------------------------------------------
(* What a request does. *)

\* The provider is constructed: it lists the commits, the last of which is the
\* "latest commit" from now on.
Open(r) ==
  /\ pc[r] = "idle" /\ LoopFree(r)
  /\ \/ /\ Succeed
        /\ Goto(r, "opened")
        /\ Learn(r, "upto", Len(commits))
     \/ /\ Fail
        /\ Goto(r, "failed")
        /\ UNCHANGED local
  /\ history' = [history EXCEPT !.before[r] = {q \in Requests : pc[q] \in Ended}]
  /\ PullRequestUnchanged

\* Mutant of NewCommits: the range begins one commit late.
NewCommitsOffByOne(r, since) ==
  {i \in 1..local[r].upto :
     \A j \in (i - 1)..local[r].upto : j > 0 => commits[j].authored > since}

\* get_commit_range: the commits after the last one that is not newer.
NewCommits(r, since) ==
  {i \in 1..local[r].upto : \A j \in i..local[r].upto : commits[j].authored > since}

\* An incremental review looks for the newest review among the comments, and
\* turns into a full one if there is none; the files are listed.
List(r) ==
  /\ pc[r] = "opened"
  /\ \/ /\ Fail
        /\ Goto(r, "failed")
        /\ UNCHANGED local
     \/ /\ Succeed
        /\ \/ /\ local[r].incremental /\ Live(Reviews) # {}
              /\ LET new == NewCommits(r, thread[Newest(Live(Reviews))].created)
                 IN  /\ Learn(r, "shows", new)
                     /\ Goto(r, IF new = {} THEN "skipping" ELSE "listed")
           \/ /\ ~local[r].incremental \/ Live(Reviews) = {}
              /\ local' = [local EXCEPT ![r].shows = DOMAIN commits,
                                        ![r].incremental = FALSE]
              /\ Goto(r, "listed")
  /\ UNCHANGED history
  /\ PullRequestUnchanged

\* "Incremental Review Skipped: no files were changed".
Skip(r) ==
  /\ pc[r] = "skipping"
  /\ \/ /\ Succeed
        /\ Publish(Comment("skipped", r, {}, local[r].upto, 0))
        /\ Goto(r, "done")
     \/ /\ Fail
        /\ Goto(r, "failed")
        /\ UNCHANGED <<thread, clock>>
  /\ UNCHANGED <<request, commits, labels, local, history>>

\* "Preparing review..." is published, and the model is called.
Prepare(r) ==
  /\ pc[r] = "listed"
  /\ \/ /\ request[r].is.auto
        /\ Succeed
        /\ Goto(r, "waiting")
        /\ UNCHANGED <<thread, clock, local>>
     \/ /\ ~request[r].is.auto
        /\ Succeed
        /\ Publish(Comment("temporary", r, {}, 0, 0))
        /\ Learn(r, "temporary", Len(thread) + 1)
        /\ Goto(r, "waiting")
     \/ /\ ~request[r].is.auto
        /\ Fail
        /\ Goto(r, "failed")
        /\ UNCHANGED <<thread, clock, local>>
  /\ UNCHANGED <<request, commits, labels, history>>

\* Mutant of After: nothing is cleaned up when there is no prediction.
AfterWithoutCleaning(o) ==
  CASE o \in {"review", "quiet"} -> "predicted"
    [] o = "garbled" -> "publishing"
    [] o = "empty" -> "done"
    [] o = "error" -> "failed"

After(o) ==
  CASE o \in {"review", "quiet"} -> "predicted"
    [] o = "garbled" -> "publishing"
    [] o = "empty" -> "cleaning"
    [] o = "error" -> "failed"

\* The call to the model returns, after retries and fallbacks.
Predict(r) ==
  /\ pc[r] = "waiting" /\ LoopFree(r)
  /\ \E o \in Outcomes :
       /\ Learn(r, "outcome", o)
       /\ Goto(r, After(o))
  /\ Succeed
  /\ UNCHANGED history
  /\ PullRequestUnchanged

\* Mutant of NewLabels: earlier labels are kept.
NewLabelsKeepingAll(r) == {request[r].is.effort} \cup local[r].seen

\* set_review_labels: what the labels were, with this review's effort label
\* instead of an earlier one.
NewLabels(r) == {request[r].is.effort} \cup (local[r].seen \ Efforts)

\* get_pr_labels answers that there are none if it fails.
ReadLabels(r) ==
  /\ pc[r] = "predicted"
  /\ \/ /\ Succeed
        /\ Learn(r, "seen", labels)
     \/ /\ Fail
        /\ Learn(r, "seen", {})
  /\ Goto(r, "labelling")
  /\ UNCHANGED history
  /\ PullRequestUnchanged

WriteLabels(r) ==
  /\ pc[r] = "labelling"
  /\ \/ /\ NewLabels(r) # local[r].seen
        /\ Succeed
        /\ labels' = NewLabels(r)
     \/ /\ NewLabels(r) # local[r].seen
        /\ Fail
        /\ UNCHANGED labels
     \/ /\ NewLabels(r) = local[r].seen
        /\ Succeed
        /\ UNCHANGED labels
  /\ Goto(r, "publishing")
  /\ UNCHANGED <<request, commits, clock, thread, local, history>>

\* A review without major issues is not published.
Withhold(r) ==
  /\ pc[r] = "publishing"
  /\ local[r].outcome = "quiet"
  /\ Succeed
  /\ Goto(r, "withheld")
  /\ UNCHANGED <<local, history>>
  /\ PullRequestUnchanged

\* Mutants: every review is persistent; the head is looked up again.
PersistentAlways(r) == TRUE
LatestCommitNow(r) == Len(commits)

\* An incremental review is published in a comment of its own.
Persistent(r) == ~local[r].incremental

\* get_latest_commit_url: the last commit when the provider was constructed.
LatestCommit(r) == local[r].upto

\* publish_persistent_comment_full looks for the review to edit; if it cannot,
\* it publishes.  An incremental review always publishes.
Find(r) ==
  /\ pc[r] = "publishing"
  /\ local[r].outcome # "quiet"
  /\ \/ /\ ~Persistent(r) \/ PersistentReviews = {}
        /\ Succeed
        /\ Goto(r, "creating")
        /\ UNCHANGED <<local, history>>
     \/ /\ Persistent(r) /\ PersistentReviews # {}
        /\ Succeed
        /\ Learn(r, "target", Oldest(PersistentReviews))
        /\ Goto(r, "editing")
        /\ UNCHANGED history
     \/ /\ Persistent(r)
        /\ Fail
        /\ Goto(r, "creating")
        /\ history' = [history EXCEPT !.blind = @ + 1]
        /\ UNCHANGED local
  /\ PullRequestUnchanged

\* edit_comment logs an error and goes on, and the edit is announced.
Edit(r) ==
  /\ pc[r] = "editing"
  /\ \/ /\ local[r].outcome = "review"
        /\ Succeed
        /\ thread' = [thread EXCEPT ![local[r].target] =
             [@ EXCEPT !.by = r, !.shows = local[r].shows, !.upto = LatestCommit(r)]]
        /\ history' = [history EXCEPT !.published = @ \cup local[r].shows]
     \/ /\ IF local[r].outcome = "garbled" THEN Succeed ELSE Fail
        /\ history' = [history EXCEPT !.unedited = @ \cup {r}]
        /\ UNCHANGED thread
  /\ Goto(r, IF FinalMessage THEN "announcing" ELSE "cleaning")
  /\ UNCHANGED <<request, commits, clock, labels, local>>

\* If the announcement fails, the review is published once more.
Announce(r) ==
  /\ pc[r] = "announcing"
  /\ \/ /\ Succeed
        /\ Publish(Comment("announcement", r, {}, LatestCommit(r), local[r].target))
        /\ Goto(r, "cleaning")
        /\ UNCHANGED history
     \/ /\ Fail
        /\ Goto(r, "creating")
        /\ history' = [history EXCEPT !.blind = @ + 1]
        /\ UNCHANGED <<thread, clock>>
  /\ UNCHANGED <<request, commits, labels, local>>

Create(r) ==
  /\ pc[r] = "creating"
  /\ \/ /\ local[r].outcome = "review"
        /\ Succeed
        /\ Publish(Comment(IF local[r].incremental THEN "incremental" ELSE "review",
                           r, local[r].shows, 0, 0))
        /\ history' = [history EXCEPT !.published = @ \cup local[r].shows]
        /\ Goto(r, "cleaning")
     \/ /\ IF local[r].outcome = "garbled" THEN Succeed ELSE Fail
        /\ Goto(r, "failed")
        /\ UNCHANGED <<thread, clock, history>>
  /\ UNCHANGED <<request, commits, labels, local>>

\* remove_initial_comment deletes the temporary comment, or logs an error.
Clean(r) ==
  /\ pc[r] = "cleaning"
  /\ \/ /\ local[r].temporary = 0
        /\ Succeed
        /\ UNCHANGED <<thread, history>>
     \/ /\ local[r].temporary # 0
        /\ Succeed
        /\ thread' = [thread EXCEPT ![local[r].temporary].live = FALSE]
        /\ UNCHANGED history
     \/ /\ local[r].temporary # 0
        /\ Fail
        /\ history' = [history EXCEPT !.undeleted = @ \cup {r}]
        /\ UNCHANGED thread
  /\ Goto(r, "done")
  /\ UNCHANGED <<request, commits, clock, labels, local>>

RequestStep(r) ==
  \/ Open(r) \/ List(r) \/ Skip(r) \/ Prepare(r) \/ Predict(r)
  \/ ReadLabels(r) \/ WriteLabels(r) \/ Withhold(r) \/ Find(r)
  \/ Edit(r) \/ Announce(r) \/ Create(r) \/ Clean(r)

\* Every request has been dealt with, and nobody pushes any more.
Quiescent ==
  /\ \A r \in Requests : pc[r] \in Ended
  /\ UNCHANGED vars

Next ==
  \/ \E lag \in Lags : Push(lag)
  \/ AddLabel
  \/ \E r \in Requests : RequestStep(r)
  \/ Quiescent

Spec == Init /\ [][Next]_vars

-----------------------------------------------------------------------------
(***************************************************************************)
(* Properties.                                                             *)
(***************************************************************************)

CommitTimes == [authored : Nat, pushed : Nat]

Comments ==
  [kind : Reviews \cup {"temporary", "announcement", "skipped"}, by : Requests,
   shows : SUBSET CommitIds, upto : 0..(MaxPushes + 1), about : Nat,
   created : Nat, live : BOOLEAN]

Locals ==
  [upto : 0..(MaxPushes + 1), shows : SUBSET CommitIds, incremental : BOOLEAN,
   outcome : OutcomeKinds \cup {"none"}, seen : SUBSET (Efforts \cup {UserLabel}),
   target : Nat, temporary : Nat]

Histories ==
  [published : SUBSET CommitIds, during : SUBSET CommitIds,
   before : [Requests -> SUBSET Requests], unedited : SUBSET Requests,
   undeleted : SUBSET Requests, blind : Nat]

\* The type invariant.
TypeOK ==
  /\ request \in [Requests -> [worker : Workers, is : Kinds]]
  /\ commits \in Seq(CommitTimes)
  /\ Len(commits) \in CommitIds
  /\ clock \in Nat
  /\ \A i \in DOMAIN commits : 1 <= commits[i].authored
                               /\ commits[i].authored <= commits[i].pushed
                               /\ commits[i].pushed <= clock
  /\ thread \in Seq(Comments)
  /\ \A c \in DOMAIN thread : thread[c].about <= Len(thread)
                              /\ thread[c].created \in 1..clock
  /\ labels \subseteq Efforts \cup {UserLabel}
  /\ pc \in [Requests -> {"idle", "waiting"} \cup Synchronous \cup Ended]
  /\ loop \in [Workers -> Requests \cup {None}]
  /\ local \in [Requests -> Locals]
  /\ \A r \in Requests :
       /\ local[r].upto <= Len(commits)
       /\ local[r].shows \subseteq DOMAIN commits
       /\ local[r].target <= Len(thread)
       /\ local[r].temporary <= Len(thread)
       /\ pc[r] \in Synchronous <=> HasLoop(r)
  /\ failures \in 0..MaxFailures
  /\ history \in Histories

\* In one worker, each review edits the previous one: there is one persistent
\* review, and one more for each time the comments could not be listed or the
\* announcement failed (docs/docs/tools/review.md:59).
OneReview == Cardinality(Live({"review"})) <= 1 + history.blind

\* However reviews and people's labels interleave, the pull request never has
\* two effort labels.
OneEffortLabel == Cardinality(labels \cap Efforts) <= 1

\* A "Preparing review..." comment outlives its request only if the request
\* failed, was withheld, or the comment could not be deleted.
NoLitter ==
  \A c \in Live({"temporary"}) :
    LET r == thread[c].by
    IN  pc[r] \in Ended => pc[r] \in {"failed", "withheld"}
                           \/ r \in history.undeleted

\* A review that is edited never goes back behind one of a request that had
\* ended when its own request began, whatever pushes, failures and other
\* requests came in between.
NoStaleOverwrite ==
  [][\A c \in DOMAIN thread :
       thread[c].kind = "review" /\ thread'[c].by # thread[c].by =>
         (thread[c].by \in history.before[thread'[c].by] =>
            thread[c].shows \subseteq thread'[c].shows)]_vars

\* Commit i was shown by some review, or pushed while one was going on, or it
\* or a later one was authored before an earlier push: get_commit_range goes
\* back from the newest commit to the first whose author date is not after the
\* previous review, so a commit that was authored early hides those before it.
Covered(i) ==
  \/ i \in history.published \cup history.during
  \/ \E j \in i..Len(commits) : commits[j].authored < commits[j].pushed

\* When a review was published, or skipped as there was nothing new, each of
\* its commits has been shown by some review, but for those that were pushed
\* while a review was going on or are hidden by an author date.
NothingMissed ==
  \A r \in Requests :
    pc[r] = "done" /\ local[r].outcome \in {"none", "review"}
    /\ r \notin history.unedited =>
      \A i \in 1..local[r].upto : Covered(i)

\* In one worker, the comment that an announcement says was updated to a commit
\* shows just that, unless the edit failed (git_provider.py:319-322).
AnnouncementsTrue ==
  [][Len(thread') > Len(thread) =>
       LET new == thread'[Len(thread')]
       IN  new.kind = "announcement" /\ new.by \notin history.unedited =>
             /\ thread[new.about].by = new.by
             /\ thread[new.about].upto = new.upto]_vars

\* What "Incremental Review Skipped" says (pr_reviewer.py:148-149): no file was
\* changed since the last review.
SkippedMeansReviewed ==
  \A c \in Live({"skipped"}) : 1..thread[c].upto \subseteq history.published
=============================================================================
