------------------------------ MODULE Providers ------------------------------
(***************************************************************************)
(* What /review, /describe and /improve publish on a pull request of the   *)
(* services other than GitHub, through their providers                     *)
(* (pr_insight/git_providers): each implements the operations of           *)
(* GitProvider, but with other calls, and what happens when a call fails   *)
(* differs from one to the next.                                           *)
(*                                                                         *)
(* One pull request of one service; several commands, each with a provider *)
(* object of its own that reads the pull request when it is constructed;   *)
(* people who label and rewrite the pull request between any two calls.    *)
(***************************************************************************)
EXTENDS Integers, FiniteSets, SequencesExt, DiffReading

CONSTANTS
  Sessions,     \* the commands
  Services,     \* the services that the pull request may be of
  Tools,        \* what the commands may be
  Suggestions,  \* what /improve suggests, in order
  Odd,          \* suggestions whose file or lines are not those of the diff
  UserLabels,   \* labels that people put on the pull request
  None,         \* no suggestion
  Fallbacks,    \* how many models are tried after the first
  MaxEdits,     \* bound: changes that people make
  MaxFailures   \* bound: calls that fail

AllServices == {"gitlab", "gitea", "azure", "bitbucket", "bitbucket_server",
                "codecommit", "gerrit", "local"}

ASSUME ProvidersAssumption ==
  /\ Services \subseteq AllServices
  /\ Tools \subseteq {"review", "describe", "improve"}
  /\ Suggestions \in Seq(ToSet(Suggestions)) /\ IsInjective(Suggestions)
  /\ Odd \subseteq ToSet(Suggestions)
  /\ UserLabels \cap (Sessions \cup {"text", "together"}) = {}
  /\ None \notin ToSet(Suggestions)
  /\ Fallbacks \in Nat /\ MaxEdits \in Nat /\ MaxFailures \in Nat

VARIABLES
  service,   \* the service
  tool,      \* tool[s]: the tool of the command s
  answer,    \* answer[s]: what the model answered it
  todo,      \* todo[s]: the calls it has yet to make
  read,      \* read[s]: what its provider read of the pull request
  diff,      \* diff[s]: what it read of the diff, what is kept of that, the
             \* files whose calls failed, and the models that failed
  thread,    \* the comments: [id, kind, by], where a later one has a greater id
  posted,    \* posted[s][x]: how often s published the suggestion x
  labels,    \* the labels; a command's own label is the command
  text,      \* the author's revision in the title and the body, and the version
  ids,       \* comments published so far
  people,    \* the labels that people put, and the author's last revision
  late,      \* what changed or started while a command ran
  edits,     \* changes of people's so far
  failures   \* calls that failed so far

vars == <<service, tool, answer, todo, read, diff, thread, posted, labels, text, ids,
          people, late, edits, failures>>

Suggested == ToSet(Suggestions)
On(ks) == service \in ks

\* Those that show a progress comment rather than a temporary one.
Markdown == {"gitlab", "gitea", "azure"}

\* Those on which a review replaces the previous one.
Persisting == {"gitlab", "gitea", "azure", "bitbucket"}

\* Those with labels, which gerrit and local fail to read.
Labelling == {"gitlab", "gitea", "azure"}

Op(name) == <<name, None>>
Ops(name, xs) == [i \in DOMAIN xs |-> <<name, xs[i]>>]
Calls(s, name) == todo[s] # <<>> /\ Head(todo[s])[1] = name
Subject(s) == Head(todo[s])[2]
Then(s, calls) == todo' = [todo EXCEPT ![s] = calls]
Continue(s) == Then(s, Tail(todo[s]))
Ended(s) == todo[s] = <<>>
Underway(s) == ~Ended(s) /\ ~Calls(s, "start")

(* A call to the service is answered, or refused, or carried out but its     *)
(* answer is lost: a timeout.                                                *)
Call(o) ==
  \/ o = "ok" /\ UNCHANGED failures
  \/ o \in {"refused", "lost"} /\ failures < MaxFailures /\ failures' = failures + 1
Outcomes == {"ok", "refused", "lost"}
Carried(o) == o # "refused"
Raises(o) == o # "ok"

\* Nothing read yet of the diff.
Unread == [entries |-> {}, kept |-> {}, failed |-> {}, models |-> 0]

-----------------------------------------------------------------------------
Init ==
  /\ service \in Services
  /\ tool \in [Sessions -> Tools]
  /\ answer = [s \in Sessions |-> "none"]
  /\ todo = [s \in Sessions |-> <<Op("start")>>]
  /\ text = [title |-> 0, body |-> 0, version |-> 0]
  /\ read = [s \in Sessions |-> [labels |-> {}, text |-> text, note |-> 0]]
  /\ diff = [s \in Sessions |-> Unread]
  /\ thread = {}
  /\ posted = [s \in Sessions |-> [x \in Suggested |-> 0]]
  /\ labels = {}
  /\ people = [labels |-> {}, revision |-> 0]
  /\ ids = 0 /\ late = {} /\ edits = 0 /\ failures = 0

\* What remains to be done after an exception that a call of s raised.
\* /improve deletes its progress comment, which only GitLab's can do.
Except(s) ==
  IF tool[s] # "improve" THEN <<>>
  ELSE IF ~On(Markdown) \/ read[s].note = 0 THEN <<Op("clean"), Op("say_failed")>>
  ELSE IF On({"gitlab"}) THEN <<Op("delete")>>
  ELSE <<>>

ContinueUnless(s, raised) == Then(s, IF raised THEN Except(s) ELSE Tail(todo[s]))

\* A comment of s; the local provider overwrites its one file.
Publish(s, kind, o) ==
  LET c == [id |-> ids + 1, kind |-> kind, by |-> s] IN
  IF Carried(o)
  THEN /\ ids' = ids + 1
       /\ thread' = (IF On({"local"}) THEN {} ELSE thread) \cup {c}
  ELSE UNCHANGED <<ids, thread>>

Delete(id) == thread' = {c \in thread : c.id # id}

-----------------------------------------------------------------------------
(* People. *)

AddLabel(u) ==
  /\ edits < MaxEdits
  /\ u \notin labels
  /\ labels' = labels \cup {u}
  /\ people' = [people EXCEPT !.labels = @ \cup {u}]
  /\ late' = IF \E s \in Sessions : Underway(s) THEN late \cup {u} ELSE late
  /\ edits' = edits + 1
  /\ UNCHANGED <<service, tool, answer, todo, read, diff, thread, posted, text, ids, failures>>

Rewrite ==
  /\ edits < MaxEdits
  /\ edits' = edits + 1
  /\ people' = [people EXCEPT !.revision = edits']
  /\ text' = [title |-> edits', body |-> edits', version |-> text.version + 1]
  /\ late' = IF \E s \in Sessions : Underway(s) THEN late \cup {"text"} ELSE late \ {"text"}
  /\ UNCHANGED <<service, tool, answer, todo, read, diff, thread, posted, labels, ids, failures>>

-----------------------------------------------------------------------------
(* The course of a command. *)

\* The provider reads the pull request.
Start(s) ==
  /\ Calls(s, "start")
  /\ \/ /\ Call("ok")
        /\ read' = [read EXCEPT ![s] = [labels |-> labels, text |-> text, note |-> 0]]
        /\ Then(s, IF tool[s] = "improve" /\ On(Markdown)
                   THEN <<Op("progress"), Op("diff"), Op("think")>>
                   ELSE <<Op("temporary"), Op("diff"), Op("think")>>)
        /\ late' = IF \E t \in Sessions \ {s} : Underway(t) THEN late \cup {"together"} ELSE late
     \/ Call("refused") /\ Then(s, <<>>) /\ UNCHANGED <<read, late>>
  /\ UNCHANGED <<service, tool, answer, thread, diff, posted, labels, text, ids, people, edits>>

PublishReview == <<Op(IF On(Persisting) THEN "list" ELSE "review"), Op("clean")>>

Review ==
  (IF On(Labelling) THEN <<Op("get_labels"), Op("put_labels")>> ELSE <<>>) \o PublishReview

Describe ==
  (IF On(Labelling) THEN <<Op("get_labels"), Op("put_labels")>> ELSE <<>>)
  \o (IF On({"codecommit"}) THEN <<Op("title"), Op("body")>> ELSE <<Op("describe")>>)
  \o (IF On(Persisting) THEN <<Op("say")>> ELSE <<>>) \o <<Op("clean")>>

\* Together; and once more one by one if that was not reported a success,
\* which on Gitea it never is.
Improve ==
  <<Op("clean")>>
  \o (IF On({"gerrit"}) THEN Ops("upload", Suggestions) \o <<Op("patches")>>
      ELSE IF On({"gitea"}) THEN Ops("post", Suggestions) \o Ops("single", Suggestions)
      ELSE Ops("post", Suggestions))
  \o (IF On(Markdown) THEN <<Op("remove_progress")>> ELSE <<>>)

NoSuggestions(s) == <<Op(IF read[s].note # 0 /\ On(Markdown) THEN "edit_progress" ELSE "say")>>

\* There is no answer that can be published.
GiveUp(s) ==
  /\ Then(s, Except(s))
  /\ diff' = [diff EXCEPT ![s] = Unread]
  /\ answer' = [answer EXCEPT ![s] = "error"]

\* retry_with_fallback_models: the diff is read for every model anew.
NextModel(s, d) ==
  IF d.models < Fallbacks
  THEN /\ Then(s, <<Op("diff"), Op("think")>>)
       /\ diff' = [diff EXCEPT ![s] = [d EXCEPT !.models = @ + 1, !.entries = {}]]
       /\ UNCHANGED answer
  ELSE GiveUp(s)

ReadDiff(s) ==
  /\ Calls(s, "diff")
  /\ \E failed \in IF diff[s].kept = {} THEN ReadFailures(service) ELSE {{}} :
     \E o \in IF failed # {} /\ On({"bitbucket_server"}) THEN {"refused", "lost"} ELSE {"refused"} :
       LET r == Reading(service, diff[s].kept, failed, o) IN
       /\ failures + Cardinality(failed) <= MaxFailures
       /\ failures' = failures + Cardinality(failed)
       /\ IF r.raised
          THEN NextModel(s, [diff[s] EXCEPT !.kept = r.kept])
          ELSE /\ diff' = [diff EXCEPT ![s].entries = r.entries, ![s].kept = r.kept,
                            ![s].failed = IF diff[s].kept = {} THEN {c[2] : c \in failed} ELSE @]
               /\ Continue(s) /\ UNCHANGED answer
  /\ UNCHANGED <<service, tool, read, thread, posted, labels, text, ids, people, late, edits>>

(* Without a diff no model is asked.  /review and /describe take a text for   *)
(* an answer, and raise when they come to use it.                            *)
Think(s) ==
  /\ Calls(s, "think")
  /\ \/ Shows(diff[s].entries) /\ NextModel(s, diff[s])
     \/ Shows(diff[s].entries) /\ tool[s] # "improve" /\ GiveUp(s)
     \/ \E a \in {"answer", "empty"} :
          /\ a = "answer" => Shows(diff[s].entries)
          /\ answer' = [answer EXCEPT ![s] = a]
          /\ diff' = [diff EXCEPT ![s] = Unread]
          /\ Then(s, IF a = "empty"
                     THEN IF tool[s] = "improve" THEN NoSuggestions(s) ELSE <<Op("clean")>>
                     ELSE CASE tool[s] = "review" -> Review
                            [] tool[s] = "describe" -> Describe
                            [] tool[s] = "improve" -> Improve)
  /\ UNCHANGED <<service, tool, read, thread, posted, labels, text, ids, people, late,
                 edits, failures>>

-----------------------------------------------------------------------------
(* Comments. *)

(* The "Preparing ..." comment, of which the providers of Bitbucket Server,  *)
(* CodeCommit and Gerrit make nothing.                                       *)
Temporary(s) ==
  /\ Calls(s, "temporary")
  /\ IF On({"bitbucket_server", "codecommit", "gerrit"})
     THEN Continue(s) /\ UNCHANGED <<read, thread, ids, failures>>
     ELSE \E o \in Outcomes :
            /\ Call(o)
            /\ Publish(s, "temporary", o)
            /\ read' = [read EXCEPT ![s].note = IF Raises(o) THEN 0 ELSE ids + 1]
            /\ ContinueUnless(s, Raises(o))
  /\ UNCHANGED <<service, tool, diff, answer, posted, labels, text, people, late, edits>>

\* The comment that shows /improve's progress.
Progress(s) ==
  /\ Calls(s, "progress")
  /\ \E o \in Outcomes :
       /\ Call(o)
       /\ Publish(s, "progress", o)
       /\ read' = [read EXCEPT ![s].note = IF Raises(o) THEN 0 ELSE ids + 1]
       /\ ContinueUnless(s, Raises(o))
  /\ UNCHANGED <<service, tool, diff, answer, posted, labels, text, people, late, edits>>

\* "No code suggestions found" in its place; only GitLab's provider raises.
EditProgress(s) ==
  /\ Calls(s, "edit_progress")
  /\ \E o \in Outcomes :
       /\ Call(o)
       /\ thread' = {IF Carried(o) /\ c.id = read[s].note
                     THEN [c EXCEPT !.kind = "said"] ELSE c : c \in thread}
       /\ ContinueUnless(s, Raises(o) /\ On({"gitlab"}))
  /\ UNCHANGED <<service, tool, answer, read, diff, posted, labels, text, ids, people, late, edits>>

Say(s) ==
  /\ Calls(s, "say")
  /\ \E o \in Outcomes :
       /\ Call(o)
       /\ Publish(s, "said", o)
       /\ ContinueUnless(s, Raises(o))
  /\ UNCHANGED <<service, tool, answer, read, diff, posted, labels, text, people, late, edits>>

\* "Failed to generate code suggestions": what it raises is only logged.
SayFailed(s) ==
  /\ Calls(s, "say_failed")
  /\ \E o \in Outcomes : Call(o) /\ Publish(s, "said", o)
  /\ Continue(s)
  /\ UNCHANGED <<service, tool, answer, read, diff, posted, labels, text, people, late, edits>>

\* Mutant of Cleans: a comment published on Bitbucket is not remembered.
CleansForgotten == {"gitlab", "gitea", "azure"}

\* The services on which remove_initial_comment removes anything.
Cleans == {"gitlab", "gitea", "azure", "bitbucket"}

\* The temporary comments are removed; what that raises is only logged.
Clean(s) ==
  /\ Calls(s, "clean")
  /\ Continue(s)
  /\ IF On(Cleans) /\ \E c \in thread : c.id = read[s].note /\ c.kind = "temporary"
     THEN \E o \in Outcomes :
            Call(o) /\ IF Carried(o) THEN Delete(read[s].note) ELSE UNCHANGED thread
     ELSE UNCHANGED <<thread, failures>>
  /\ UNCHANGED <<service, tool, answer, read, diff, posted, labels, text, ids, people, late, edits>>

\* The progress comment; Gitea's provider raises what its client does.
RemoveProgress(s) ==
  /\ Calls(s, "remove_progress") \/ Calls(s, "delete")
  /\ \E o \in Outcomes :
       /\ Call(o)
       /\ IF Carried(o) THEN Delete(read[s].note) ELSE UNCHANGED thread
       /\ Then(s, IF Raises(o) /\ On({"gitea"}) THEN Except(s) ELSE Tail(todo[s]))
  /\ UNCHANGED <<service, tool, answer, read, diff, posted, labels, text, ids, people, late, edits>>

-----------------------------------------------------------------------------
(* The review, in place of the previous one where there is one. *)

ReviewNow(s) == Then(s, <<Op("review")>> \o Tail(todo[s]))

\* The comments with a review's header.
Reviews == {c \in thread : c.kind = "review"}

\* Mutant of Previous: the comments are searched for another header.
PreviousNone == {}

\* The oldest review, on Azure DevOps the newest.
Previous ==
  {c.id : c \in {r \in Reviews :
     \A q \in Reviews : IF On({"azure"}) THEN q.id <= r.id ELSE r.id <= q.id}}

\* publish_persistent_comment: an exception leads to a comment of its own.
List(s) ==
  /\ Calls(s, "list")
  /\ \/ /\ Call("ok")
        /\ IF Previous = {} THEN ReviewNow(s)
           ELSE \E id \in Previous : Then(s, <<<<"edit", id>>>> \o Tail(todo[s]))
     \/ Call("refused") /\ ReviewNow(s)
  /\ UNCHANGED <<service, tool, answer, read, diff, thread, posted, labels, text, ids, people, late, edits>>

\* The providers of Gitea and Azure DevOps hide that the edit failed.
Edit(s) ==
  /\ Calls(s, "edit")
  /\ \E o \in Outcomes :
       /\ Call(o)
       /\ IF Raises(o) /\ On({"gitlab", "bitbucket"}) THEN ReviewNow(s)
          ELSE Then(s, <<Op("update")>> \o Tail(todo[s]))
  /\ UNCHANGED <<service, tool, answer, read, diff, thread, posted, labels, text, ids, people, late, edits>>

\* "updated to latest commit"; if that fails, the review is published again.
Update(s) ==
  /\ Calls(s, "update")
  /\ \E o \in Outcomes :
       /\ Call(o)
       /\ Publish(s, "update", o)
       /\ IF Raises(o) THEN ReviewNow(s) ELSE Continue(s)
  /\ UNCHANGED <<service, tool, answer, read, diff, posted, labels, text, people, late, edits>>

NewReview(s) ==
  /\ Calls(s, "review")
  /\ \E o \in Outcomes :
       /\ Call(o)
       /\ Publish(s, "review", o)
       /\ ContinueUnless(s, Raises(o))
  /\ UNCHANGED <<service, tool, answer, read, diff, posted, labels, text, people, late, edits>>

-----------------------------------------------------------------------------
(* Labels. *)

\* The labels that commands of this kind set, which a new one replaces.
Own(s) == {t \in Sessions : tool[t] = tool[s]}
NewLabels(s) == {s} \cup (read[s].labels \ Own(s))

\* Of an exception of the provider's, set_review_labels is not disturbed.
LabelsRaise(s) == Then(s, IF tool[s] = "review" THEN PublishReview ELSE Except(s))

\* GitLab's provider answers what it read at first, or last wrote.
GetLabelsGitlab(s) == Continue(s) /\ UNCHANGED <<read, failures>>

GetLabelsGitea(s) ==
  \/ Call("ok") /\ Continue(s) /\ read' = [read EXCEPT ![s].labels = labels]
  \/ Call("refused") /\ LabelsRaise(s) /\ UNCHANGED read

\* Azure's has no labels when the call fails.
GetLabelsAzure(s) ==
  /\ Continue(s)
  /\ \/ Call("ok") /\ read' = [read EXCEPT ![s].labels = labels]
     \/ Call("refused") /\ read' = [read EXCEPT ![s].labels = {}]

GetLabels(s) ==
  /\ Calls(s, "get_labels")
  /\ \/ On({"gitlab"}) /\ GetLabelsGitlab(s)
     \/ On({"gitea"}) /\ GetLabelsGitea(s)
     \/ On({"azure"}) /\ GetLabelsAzure(s)
  /\ UNCHANGED <<service, tool, answer, thread, diff, posted, labels, text, ids, people, late, edits>>

\* All labels are replaced.
PutLabelsGitlab(s) ==
  \E o \in Outcomes :
    /\ Call(o) /\ Continue(s)
    /\ labels' = IF Carried(o) THEN NewLabels(s) ELSE labels

\* Labels are only added, and the previous one of the tool's stays.
PutLabelsGitea(s) ==
  \E o \in Outcomes :
    /\ Call(o)
    /\ IF Raises(o) THEN LabelsRaise(s) ELSE Continue(s)
    /\ labels' = IF Carried(o) THEN labels \cup NewLabels(s) ELSE labels

\* One call for each label, the new one first.
PutLabelsAzure(s) ==
  \E o \in Outcomes :
    /\ Call(o) /\ Continue(s)
    /\ labels' \in IF o = "ok" THEN {labels \cup NewLabels(s)} ELSE {labels, labels \cup {s}}

PutLabels(s) ==
  /\ Calls(s, "put_labels")
  /\ IF NewLabels(s) = read[s].labels
     THEN Continue(s) /\ UNCHANGED <<labels, failures>>
     ELSE \/ On({"gitlab"}) /\ PutLabelsGitlab(s)
          \/ On({"gitea"}) /\ PutLabelsGitea(s)
          \/ On({"azure"}) /\ PutLabelsAzure(s)
  /\ UNCHANGED <<service, tool, answer, read, diff, thread, posted, text, ids, people, late, edits>>

-----------------------------------------------------------------------------
(* The title and the description. *)

\* As read when the command started, with what the model wrote.
Written(s) == [read[s].text EXCEPT !.version = text.version + 1]
TextAfter(s, o) == text' = IF Carried(o) THEN Written(s) ELSE text

DescribeGitlab(s) ==
  \E o \in Outcomes : Call(o) /\ TextAfter(s, o) /\ Continue(s) /\ UNCHANGED <<thread, ids>>

DescribeGitea(s) ==
  \E o \in Outcomes :
    Call(o) /\ TextAfter(s, o) /\ ContinueUnless(s, Raises(o)) /\ UNCHANGED <<thread, ids>>

\* A description that is too long is cut.
DescribeAzure(s) ==
  \E o \in Outcomes : Call(o) /\ TextAfter(s, o) /\ Continue(s) /\ UNCHANGED <<thread, ids>>

\* The status of the response is only logged.
DescribeBitbucket(s) ==
  \E o \in Outcomes :
    Call(o) /\ TextAfter(s, o) /\ ContinueUnless(s, o = "lost") /\ UNCHANGED <<thread, ids>>

\* Mutant of DescribeBitbucketServer: the version is the current one.
DescribeBitbucketServerAnyway(s) ==
  \E o \in Outcomes :
    Call(o) /\ TextAfter(s, o) /\ ContinueUnless(s, Raises(o)) /\ UNCHANGED <<thread, ids>>

\* Bitbucket Server refuses it if the version is not the one that was read.
DescribeBitbucketServer(s) ==
  /\ UNCHANGED <<thread, ids>>
  /\ IF read[s].text.version # text.version
     THEN Then(s, Except(s)) /\ UNCHANGED <<text, failures>>
     ELSE \E o \in Outcomes : Call(o) /\ TextAfter(s, o) /\ ContinueUnless(s, Raises(o))

\* A comment on the change.
DescribeGerrit(s) ==
  \E o \in Outcomes :
    Call(o) /\ Publish(s, "said", o) /\ ContinueUnless(s, Raises(o)) /\ UNCHANGED text

\* A file of its own.
DescribeLocal(s) == Continue(s) /\ UNCHANGED <<text, thread, ids, failures>>

PublishDescription(s) ==
  /\ Calls(s, "describe")
  /\ \/ On({"gitlab"}) /\ DescribeGitlab(s)
     \/ On({"gitea"}) /\ DescribeGitea(s)
     \/ On({"azure"}) /\ DescribeAzure(s)
     \/ On({"bitbucket"}) /\ DescribeBitbucket(s)
     \/ On({"bitbucket_server"}) /\ DescribeBitbucketServer(s)
     \/ On({"gerrit"}) /\ DescribeGerrit(s)
     \/ On({"local"}) /\ DescribeLocal(s)
  /\ UNCHANGED <<service, tool, answer, read, diff, posted, labels, people, late, edits>>

\* CodeCommit takes the title and the description in a call each.
DescribeCodecommit(s) ==
  /\ Calls(s, "title") \/ Calls(s, "body")
  /\ \E o \in Outcomes :
       /\ Call(o)
       /\ text' = IF ~Carried(o) THEN text
                  ELSE IF Calls(s, "title")
                  THEN [text EXCEPT !.title = read[s].text.title, !.version = @ + 1]
                  ELSE [text EXCEPT !.body = read[s].text.body, !.version = @ + 1]
       /\ ContinueUnless(s, Raises(o))
  /\ UNCHANGED <<service, tool, answer, read, diff, thread, posted, labels, ids, people, late, edits>>

-----------------------------------------------------------------------------
(* Suggestions. *)

PostedAfter(s, x, o) ==
  posted' = IF Carried(o) THEN [posted EXCEPT ![s][x] = @ + 1] ELSE posted

\* The batch is abandoned, and every suggestion published on its own.
OneByOne(s) == Then(s, Ops("single", Suggestions))

(* One discussion each; if GitLab does not take it, a note.  A suggestion    *)
(* for which the diff cannot be read is skipped.                             *)
SuggestGitlab(s) ==
  \/ Call("refused") /\ Continue(s) /\ UNCHANGED posted
  \/ \E o \in Outcomes :
       /\ Call(o)
       /\ PostedAfter(s, Subject(s), o)
       /\ Then(s, (IF Raises(o) THEN <<<<"note", Subject(s)>>>> ELSE <<>>) \o Tail(todo[s]))

NoteGitlab(s) ==
  /\ Calls(s, "note")
  /\ \E o \in Outcomes : Call(o) /\ PostedAfter(s, Subject(s), o)
  /\ Continue(s)
  /\ UNCHANGED <<service, tool, answer, read, diff, thread, labels, text, ids, people, late, edits>>

SuggestGitea(s) ==
  \E o \in Outcomes :
    Call(o) /\ PostedAfter(s, Subject(s), o) /\ ContinueUnless(s, Raises(o))

\* Whatever fails, the answer is that it was published.
SuggestAzure(s) ==
  /\ Continue(s)
  /\ IF Subject(s) \in Odd THEN UNCHANGED <<posted, failures>>
     ELSE \E o \in Outcomes : Call(o) /\ PostedAfter(s, Subject(s), o)

\* The status of the response is not looked at.
SuggestBitbucket(s) ==
  IF Subject(s) \in Odd THEN Continue(s) /\ UNCHANGED <<posted, failures>>
  ELSE \E o \in Outcomes :
         /\ Call(o)
         /\ PostedAfter(s, Subject(s), o)
         /\ IF o = "lost" /\ Calls(s, "post") THEN OneByOne(s) ELSE Continue(s)

SuggestBitbucketServer(s) ==
  IF Subject(s) \in Odd THEN Continue(s) /\ UNCHANGED <<posted, failures>>
  ELSE \E o \in Outcomes :
         /\ Call(o)
         /\ PostedAfter(s, Subject(s), o)
         /\ IF Raises(o) /\ Calls(s, "post") THEN OneByOne(s) ELSE Continue(s)

\* Mutant of SuggestCodecommit: it answers False after the first suggestion.
SuggestCodecommitAgain(s) ==
  \E o \in Outcomes :
    /\ Call(o)
    /\ PostedAfter(s, Subject(s), o)
    /\ IF Calls(s, "post") THEN OneByOne(s) ELSE Continue(s)

SuggestCodecommit(s) ==
  \E o \in Outcomes :
    Call(o) /\ PostedAfter(s, Subject(s), o) /\ ContinueUnless(s, Raises(o))

\* It is not implemented.
SuggestLocal(s) == Then(s, Except(s)) /\ UNCHANGED <<posted, failures>>

Suggest(s) ==
  /\ Calls(s, "post") \/ Calls(s, "single")
  /\ \/ On({"gitlab"}) /\ SuggestGitlab(s)
     \/ On({"gitea"}) /\ SuggestGitea(s)
     \/ On({"azure"}) /\ SuggestAzure(s)
     \/ On({"bitbucket"}) /\ SuggestBitbucket(s)
     \/ On({"bitbucket_server"}) /\ SuggestBitbucketServer(s)
     \/ On({"codecommit"}) /\ SuggestCodecommit(s)
     \/ On({"local"}) /\ SuggestLocal(s)
  /\ UNCHANGED <<service, tool, answer, read, diff, thread, labels, text, ids, people, late, edits>>

(* Gerrit: every suggestion is applied to the clone and uploaded as a patch; *)
(* one comment links to them.  A suggestion for a file that the clone does   *)
(* not have raises, and none of them is published.                           *)
UploadGerrit(s) ==
  /\ On({"gerrit"}) /\ Calls(s, "upload")
  /\ \/ \E o \in Outcomes : Call(o) /\ ContinueUnless(s, Raises(o))
     \/ Subject(s) \in Odd /\ Then(s, Except(s)) /\ UNCHANGED failures
  /\ UNCHANGED <<service, tool, answer, read, diff, thread, posted, labels, text, ids, people, late, edits>>

SuggestGerrit(s) ==
  /\ Calls(s, "patches")
  /\ \E o \in Outcomes :
       /\ Call(o)
       /\ posted' = IF Carried(o) THEN [posted EXCEPT ![s] = [x \in Suggested |-> @[x] + 1]]
                    ELSE posted
       /\ ContinueUnless(s, Raises(o))
  /\ UNCHANGED <<service, tool, answer, read, diff, thread, labels, text, ids, people, late, edits>>

-----------------------------------------------------------------------------
Step(s) ==
  \/ Start(s) \/ ReadDiff(s) \/ Think(s)
  \/ Temporary(s) \/ Progress(s) \/ EditProgress(s) \/ Say(s) \/ SayFailed(s)
  \/ Clean(s) \/ RemoveProgress(s)
  \/ List(s) \/ Edit(s) \/ Update(s) \/ NewReview(s)
  \/ GetLabels(s) \/ PutLabels(s)
  \/ PublishDescription(s) \/ DescribeCodecommit(s)
  \/ Suggest(s) \/ NoteGitlab(s) \/ UploadGerrit(s) \/ SuggestGerrit(s)

Quiescent ==
  /\ \A s \in Sessions : Ended(s)
  /\ UNCHANGED vars

Next ==
  \/ \E s \in Sessions : Step(s)
  \/ \E u \in UserLabels : AddLabel(u)
  \/ Rewrite
  \/ Quiescent

Spec == Init /\ [][Next]_vars

-----------------------------------------------------------------------------
(* Reviews that follow one another leave one review on the pull request      *)
(* where a review replaces the previous one: a second needs a failed call,   *)
(* or two commands that were under way together.                             *)
OneReview ==
  On(Persisting) /\ "together" \notin late => Cardinality(Reviews) <= 1 + failures

(* No suggestion is published oftener than once by a command, except that a  *)
(* failed call may be followed by another attempt, and that on Gitea all are *)
(* published twice; and if no call fails, all that have proper lines are.    *)
(* Gerrit's provider instead publishes none of them if one is for a file     *)
(* that does not exist.                                                      *)
SuggestionsOnce ==
  \A s \in Sessions, x \in Suggested :
    /\ posted[s][x] <= failures + (IF On({"gitea"}) THEN 2 ELSE 1)
    /\ tool[s] = "improve" /\ answer[s] = "answer" /\ Ended(s) /\ failures = 0
       /\ x \notin Odd /\ ~On({"local"})
       => \/ posted[s][x] >= 1
          \/ On({"gerrit"}) /\ Odd # {} /\ \A y \in Suggested : posted[s][y] = 0

(* A label of a person's stays, unless it was put there while a command ran  *)
(* on GitLab, whose provider writes all labels as they were when it started; *)
(* a title and a description of the author's stay, unless they were written  *)
(* while a command ran on a service other than Bitbucket Server, which       *)
(* refuses an outdated version.                                              *)
OthersWork ==
  /\ people.labels \subseteq labels \cup (IF On({"gitlab"}) THEN late ELSE {})
  /\ \/ text.title = people.revision /\ text.body = people.revision
     \/ "text" \in late /\ ~On({"bitbucket_server"})

(* Without a failed call, a command leaves no "Preparing ..." comment behind *)
(* when it is done, except the ones that the code forgets: after an error of *)
(* the model's or an answer that raises, of /improve without suggestions,    *)
(* and in the one file of the local provider.                                *)
NoLitter ==
  \A s \in Sessions, c \in thread :
    /\ Ended(s) /\ failures = 0
    /\ c.by = s /\ c.kind \in {"temporary", "progress"}
    => \/ answer[s] = "error" /\ (tool[s] # "improve" \/ On({"gitea", "azure"}))
       \/ answer[s] = "empty" /\ tool[s] = "improve" /\ ~On(Markdown)
       \/ On({"local"})

\* The calls that failed when s read the diff concern this change.
Disturbed(s, c) == diff[s].failed \cap {c.name, ""} # {}

\* Changes that a provider gets wrong although no call fails.
Mistaken(s, c) ==
  \/ On({"gitea"}) /\ Len(c.hunks) > 1
  \/ On({"azure", "bitbucket", "bitbucket_server"}) /\ c.type = "rename"
  \/ On({"codecommit"}) /\ (c.type = "delete" \/ diff[s].models > 0)

(* The model is shown every change as it is, unless a call that concerns it  *)
(* failed: no line is lost, or shown under another file's name, and files    *)
(* that the settings ignore stay out where the provider asks for that.  The  *)
(* exceptions are what providers get wrong: Gitea's keeps the last hunk of a *)
(* file, three of them mistake renamed files, and CodeCommit's drops deleted *)
(* files, and after a failed call all that it had not read until then.       *)
TrueDiff ==
  \A s \in Sessions, c \in ToSet(Changes) :
    Calls(s, "think") /\ ~Disturbed(s, c) /\ ~Mistaken(s, c)
    => /\ PatchOf(diff[s].entries, c.name) =
            IF \/ On({"gerrit", "local"})
               \/ c.valid /\ (~c.ignored \/ On({"codecommit"}))
            THEN Patch(c) ELSE {}
       /\ On({"gitlab"}) => \A f \in c.inside : PatchOf(diff[s].entries, f) # {}

(* Once CodeCommit answers again, a model is shown all modified files.  This *)
(* does not hold: what was read until a call failed is kept for the next     *)
(* model as if it were all.                                                  *)
NothingHidden ==
  \A s \in Sessions, c \in ToSet(Changes) :
    On({"codecommit"}) /\ Calls(s, "think") /\ diff[s].failed = {}
    /\ c.type = "modify" /\ c.valid
    => PatchOf(diff[s].entries, c.name) = Patch(c)
=============================================================================
