----------------------------- MODULE ToolSessions -----------------------------
(***************************************************************************)
(* The commands other than /review and /improve on one GitHub pull         *)
(* request (pr_insight/tools): /describe, /generate_labels, /ask,          *)
(* /ask_line, /add_docs, /update_changelog, /config, /help, /help_docs.    *)
(*                                                                         *)
(* A command reads the pull request, asks the model, and writes what it    *)
(* makes of the answer with a sequence of calls to GitHub.  People and     *)
(* other commands, of this worker or another, act between any two calls.   *)
(* A call that fails either ends the command or is logged and forgotten.   *)
(***************************************************************************)
EXTENDS Naturals, FiniteSets, SequencesExt

CONSTANTS
  Tasks,        \* the commands that are given
  People,       \* the author of what no command wrote
  Tools,        \* the tools they may be of
  Texts,        \* the descriptions that the author may write
  UserLabels,   \* labels that people put on the pull request
  Types,        \* labels of the tools that get_user_labels drops
  Others,       \* labels of the tools that it takes for a person's
  Options,      \* the deployments: subsets of {"markers", "labels", "push"}
  MaxEdits,     \* bound: changes that people make
  MaxFailures   \* bound: calls that fail

\* Blocks of a description.  "section" is a text of the author's under a
\* heading that the tool uses too, "user" the heading "User description",
\* "answer" what the tool generated.
Words == {"intro", "details", "section", "marker"}
Headings == {"section", "user", "answer"}
AllTools == {"describe", "auto_describe", "generate_labels", "ask", "ask_line",
             "add_docs", "update_changelog", "config", "help", "help_docs"}

ASSUME ToolSessionsAssumption ==
  /\ Tools \subseteq AllTools
  /\ Texts \subseteq Seq(Words)
  /\ <<>> \in Texts
  /\ UserLabels \cap (Types \cup Others) = {}
  /\ People \notin Tasks
  /\ Options \subseteq SUBSET {"markers", "labels", "push"}
  /\ MaxEdits \in Nat /\ MaxFailures \in Nat

VARIABLES
  option,     \* the options that are on
  tool,       \* tool[t]: the tool of the command t
  pr,         \* the pull request: title, text, labels, changelog
  people,     \* what people wrote there and no tool was excused to overwrite
  todo,       \* todo[t]: the calls that t has yet to make
  pc,         \* pc[t]: where t is
  seen,       \* seen[t]: what t read of the pull request
  stale,      \* <<t, field>>: what t read was changed since, or not readable
  labels,     \* labels[t]: the labels that the model gave t
  thread,     \* the comments: <<kind, t>>
  edits,      \* changes that people made so far
  failures    \* calls that failed so far

vars == <<option, tool, pr, people, todo, pc, seen, stale, labels, thread,
          edits, failures>>

\* A revision of the title is a number; an entry of the changelog is by its author.
PullRequest ==
  [title : 0..MaxEdits, text : Seq(Words \cup Headings),
   labels : SUBSET (UserLabels \cup Types \cup Others),
   changelog : Seq(Tasks \cup {People})]

Ended == {"done", "failed"}

\* The fields that a tool writes back.
Fields(t) ==
  CASE tool[t] \in {"describe", "auto_describe"} -> {"text", "labels"}
    [] tool[t] = "generate_labels" -> {"labels"}
    [] tool[t] = "update_changelog" -> {"changelog"}
    [] OTHER -> {}

\* What text has of the blocks bs, in its order; of[n] is for its first n blocks.
Block(text, bs) ==
  LET of[n \in 0..Len(text)] ==
        IF n = 0 THEN <<>>
        ELSE IF text[n] \in bs THEN Append(of[n - 1], text[n])
        ELSE of[n - 1]
  IN  of[Len(text)]

-----------------------------------------------------------------------------
\* Mutant of UserDescription: everything below the heading is the author's.
UserDescriptionToEnd(text) ==
  IF text = <<>> \/ Head(text) \notin Headings THEN text
  ELSE IF ~Contains(text, "user") THEN <<>>
  ELSE SubSeq(text, SelectInSeq(text, LAMBDA b : b = "user") + 1, Len(text))

(* get_user_description: the whole text unless it begins with one of the     *)
(* headings; then what is between "User description" and the next heading,   *)
(* or nothing if it has no such heading.                                     *)
UserDescription(text) ==
  IF text = <<>> \/ Head(text) \notin Headings THEN text
  ELSE IF ~Contains(text, "user") THEN <<>>
  ELSE LET begin == SelectInSeq(text, LAMBDA b : b = "user")
           end == SelectInSeq(text, LAMBDA b : b \in Headings \ {"user"})
       IN  IF end > begin THEN SubSeq(text, begin + 1, end - 1) ELSE Tail(text)

\* The markers are replaced in place; without them the answer goes below.
Description(user) ==
  IF "markers" \in option
  THEN [i \in DOMAIN user |-> IF user[i] = "marker" THEN "answer" ELSE user[i]]
  ELSE (IF user = <<>> THEN <<>> ELSE <<"user">> \o user) \o <<"answer">>

GetUserLabels(ls) == ls \ Types

-----------------------------------------------------------------------------
(* The calls that each tool makes, in order.  "think" is the model's, the    *)
(* names with a question mark are calls whose failure is only logged.        *)

\* Until the model answers.
Prologue(t) ==
  CASE tool[t] \in {"auto_describe", "ask_line", "help"} -> {<<"think">>}
    [] tool[t] = "config" -> {<<"say", "clean?">>}
    [] tool[t] = "help_docs" -> {<<"clone", "think">>, <<"clone", "think", "think">>}
    [] OTHER -> {<<"announce", "think">>}

\* Commands that do not come to the model: help without a question or without
\* a key for it, and a line question whose lines are not in the diff.
Unasked(t) ==
  CASE tool[t] = "help" -> {<<"say">>}
    [] tool[t] \in {"ask_line", "help_docs"} -> {<<>>}
    [] OTHER -> {}

Describe(o, ls, auto) ==
  IF o = "empty" THEN <<"clean?">>
  ELSE (IF "labels" \in option /\ ls # {} THEN <<"get_labels?", "put_labels?">> ELSE <<>>)
       \o <<"publish">> \o (IF auto THEN <<>> ELSE <<"say">>) \o <<"clean?">>

GenerateLabels(o) == IF o = "empty" THEN <<>> ELSE <<"put_labels?", "clean?">>

Ask == <<"say", "clean?">>

AskLine == <<"say">>

\* Mutant of AddDocs: documentation that suggests nothing is not cleaned up.
AddDocsUncleaned(o) ==
  CASE o = "answer" -> <<"clean?", "suggest">>
    [] o = "nothing" -> <<"say">>
    [] o = "empty" -> <<>>
    [] o = "unusable" -> <<"clean?">>

\* A text that names the documentation is taken for it, and raises once the
\* temporary comment is gone.
AddDocs(o) ==
  CASE o = "answer" -> <<"clean?", "suggest">>
    [] o = "nothing" -> <<"clean?", "say">>
    [] o = "empty" -> <<>>
    [] o = "unusable" -> <<"clean?">>

UpdateChangelog ==
  <<"clean?">> \o (IF "push" \in option THEN <<"push", "review">> ELSE <<"say">>)

Help(o) == IF o = "empty" THEN <<>> ELSE <<"say">>

HelpDocs(o) == IF o = "answer" THEN <<"say">> ELSE <<>>

\* Once the model has answered o, with the labels ls.
Epilogue(t, o, ls) ==
  CASE tool[t] = "describe" -> Describe(o, ls, FALSE)
    [] tool[t] = "auto_describe" -> Describe(o, ls, TRUE)
    [] tool[t] = "generate_labels" -> GenerateLabels(o)
    [] tool[t] = "ask" -> Ask
    [] tool[t] = "ask_line" -> AskLine
    [] tool[t] = "add_docs" -> AddDocs(o)
    [] tool[t] = "update_changelog" -> UpdateChangelog
    [] tool[t] = "help" -> Help(o)
    [] tool[t] = "help_docs" -> HelpDocs(o)

\* What a tool keeps of the pull request until it has the model's answer.
Unread == [title |-> 0, text |-> <<>>, labels |-> {}, changelog |-> <<>>]
Snapshot(t) ==
  [title |-> IF "text" \in Fields(t) THEN pr.title ELSE 0,
   text |-> IF "text" \in Fields(t) THEN UserDescription(pr.text) ELSE <<>>,
   labels |-> IF Fields(t) = {"labels"} THEN pr.labels ELSE {},
   changelog |-> IF "changelog" \in Fields(t) THEN pr.changelog ELSE <<>>]

-----------------------------------------------------------------------------
Init ==
  /\ option \in Options
  /\ tool \in [Tasks -> Tools]
  /\ \E text \in Texts :
       pr = [title |-> 0, text |-> text, labels |-> {}, changelog |-> <<People>>]
  /\ people = pr
  /\ todo = [t \in Tasks |-> <<>>]
  /\ pc = [t \in Tasks |-> "idle"]
  /\ seen = [t \in Tasks |-> Unread]
  /\ stale = {}
  /\ labels = [t \in Tasks |-> {}]
  /\ thread = {}
  /\ edits = 0
  /\ failures = 0

Succeed == UNCHANGED failures
Fail == failures < MaxFailures /\ failures' = failures + 1

\* The next call of t, and what is left after it.
Calls(t, call) == pc[t] = "running" /\ todo[t] # <<>> /\ Head(todo[t]) = call

Then(t, calls) ==
  /\ todo' = [todo EXCEPT ![t] = calls]
  /\ pc' = [pc EXCEPT ![t] = IF calls = <<>> THEN "done" ELSE "running"]
Continue(t) == Then(t, Tail(todo[t]))
GiveUp(t) ==
  /\ todo' = [todo EXCEPT ![t] = <<>>]
  /\ pc' = [pc EXCEPT ![t] = "failed"]

\* What was read of a field by the commands under way is stale once it changes.
Outdated(field) ==
  {<<t, field>> : t \in {u \in Tasks : pc[u] = "running" /\ field \in Fields(u)}}

-----------------------------------------------------------------------------
(* What people do. *)

\* The author rewrites the description, or the title.
Rewrite(title, text) ==
  /\ edits < MaxEdits
  /\ pr' = [pr EXCEPT !.title = title, !.text = text]
  /\ people' = [people EXCEPT !.title = title, !.text = text]
  /\ stale' = stale \cup Outdated("text")
  /\ edits' = edits + 1
  /\ UNCHANGED <<option, tool, todo, pc, seen, labels, thread, failures>>

AddLabel(l) ==
  /\ edits < MaxEdits
  /\ l \notin pr.labels
  /\ pr' = [pr EXCEPT !.labels = @ \cup {l}]
  /\ people' = [people EXCEPT !.labels = @ \cup {l}]
  /\ stale' = stale \cup Outdated("labels")
  /\ edits' = edits + 1
  /\ UNCHANGED <<option, tool, todo, pc, seen, labels, thread, failures>>

AddEntry ==
  /\ edits < MaxEdits
  /\ pr' = [pr EXCEPT !.changelog = <<People>> \o @]
  /\ people' = [people EXCEPT !.changelog = <<People>> \o @]
  /\ stale' = stale \cup Outdated("changelog")
  /\ edits' = edits + 1
  /\ UNCHANGED <<option, tool, todo, pc, seen, labels, thread, failures>>

-----------------------------------------------------------------------------
(* What a command does. *)

\* The tool and its provider are constructed; the changelog's tool reads the
\* file, and takes it for empty if it cannot.
Open(t) ==
  /\ pc[t] = "idle"
  /\ \/ /\ Succeed
        /\ \E calls \in Prologue(t) \cup Unasked(t) : Then(t, calls)
        /\ seen' = [seen EXCEPT ![t] = Snapshot(t)]
        /\ stale' = stale
     \/ /\ Fail
        /\ tool[t] = "update_changelog"
        /\ \E calls \in Prologue(t) : Then(t, calls)
        /\ seen' = [seen EXCEPT ![t] = Unread]
        /\ stale' = stale \cup {<<t, "changelog">>}
     \/ /\ Fail
        /\ GiveUp(t)
        /\ UNCHANGED <<seen, stale>>
  /\ UNCHANGED <<option, tool, pr, people, labels, thread, edits>>

Announce(t) ==
  /\ Calls(t, "announce")
  /\ \/ Succeed /\ Continue(t) /\ thread' = thread \cup {<<"temporary", t>>}
     \/ Fail /\ GiveUp(t) /\ UNCHANGED thread
  /\ UNCHANGED <<option, tool, pr, people, seen, stale, labels, edits>>

\* help_docs clones the repository, and ends if it finds no documentation.
Clone(t) ==
  /\ Calls(t, "clone")
  /\ \/ Succeed /\ (Continue(t) \/ Then(t, <<>>))
     \/ Fail /\ Then(t, <<>>)
  /\ UNCHANGED <<option, tool, pr, people, seen, stale, labels, thread, edits>>

\* "answer" is one that the tool can use, "nothing" one that suggests nothing,
\* "empty" one without what the tool looks for, "unusable" one of another form
\* than the tool expects: a text where it takes a mapping.
Outcomes(t) ==
  IF tool[t] \in {"describe", "auto_describe"} /\ "markers" \in option
     /\ ~Contains(seen[t].text, "marker")
  THEN {"empty"} ELSE {"answer", "nothing", "empty", "unusable"}

\* Handling such an answer raises: the command ends where it is.
Raises(t, o) ==
  o = "unusable" /\ tool[t] \in {"describe", "auto_describe", "generate_labels"}

\* The labels in it, which generate_labels and the option to set them ask for.
Answers(t) ==
  IF "labels" \in Fields(t) /\ ("labels" \in option \/ Fields(t) = {"labels"})
  THEN SUBSET (Types \cup Others) ELSE {{}}

\* The last answer decides what is done; an unusable ranking of documents ends it.
Think(t) ==
  /\ Calls(t, "think")
  /\ \/ /\ Succeed
        /\ \E o \in Outcomes(t), ls \in Answers(t) :
             /\ ~Raises(t, o)
             /\ labels' = [labels EXCEPT ![t] = ls]
             /\ IF Tail(todo[t]) = <<>> THEN Then(t, Epilogue(t, o, ls))
                ELSE IF o = "answer" THEN Continue(t) ELSE Then(t, <<>>)
     \/ /\ Fail \/ (Succeed /\ \E o \in Outcomes(t) : Raises(t, o))
        /\ GiveUp(t)
        /\ UNCHANGED labels
  /\ UNCHANGED <<option, tool, pr, people, seen, stale, thread, edits>>

GetLabels(t) ==
  /\ Calls(t, "get_labels?")
  /\ Continue(t)
  /\ \/ /\ Succeed
        /\ seen' = [seen EXCEPT ![t].labels = pr.labels]
        /\ stale' = stale \ {<<t, "labels">>}
     \/ /\ Fail
        /\ seen' = [seen EXCEPT ![t].labels = {}]
        /\ stale' = stale \cup {<<t, "labels">>}
  /\ UNCHANGED <<option, tool, pr, people, labels, thread, edits>>

\* Every label is replaced.  /describe refrains if nothing would change.
PutLabels(t) ==
  /\ Calls(t, "put_labels?")
  /\ Continue(t)
  /\ LET new == labels[t] \cup GetUserLabels(seen[t].labels) IN
     \/ /\ Succeed
        /\ IF tool[t] # "generate_labels" /\ new = seen[t].labels
           THEN UNCHANGED <<pr, people>>
           ELSE /\ pr' = [pr EXCEPT !.labels = new]
                /\ people' = [people EXCEPT !.labels =
                     IF <<t, "labels">> \in stale THEN @ \cap new ELSE @]
        /\ stale' = stale \cup (Outdated("labels") \ {<<t, "labels">>})
     \/ /\ Fail
        /\ UNCHANGED <<pr, people, stale>>
  /\ UNCHANGED <<option, tool, seen, labels, thread, edits>>

\* The title and the description are as they were read, with the answer.
Publish(t) ==
  /\ Calls(t, "publish")
  /\ \/ /\ Succeed
        /\ Continue(t)
        /\ pr' = [pr EXCEPT !.title = seen[t].title, !.text = Description(seen[t].text)]
        /\ people' = IF <<t, "text">> \in stale
                     THEN [people EXCEPT !.title = pr'.title, !.text = seen[t].text]
                     ELSE people
        /\ stale' = stale \cup (Outdated("text") \ {<<t, "text">>})
     \/ /\ Fail
        /\ GiveUp(t)
        /\ UNCHANGED <<pr, people, stale>>
  /\ UNCHANGED <<option, tool, seen, labels, thread, edits>>

Say(t) ==
  /\ Calls(t, "say")
  /\ \/ Succeed /\ Continue(t) /\ thread' = thread \cup {<<"answer", t>>}
     \/ Fail /\ GiveUp(t) /\ UNCHANGED thread
  /\ UNCHANGED <<option, tool, pr, people, seen, stale, labels, edits>>

\* The suggestions are published together, or else one by one.
Suggest(t) ==
  /\ Calls(t, "suggest")
  /\ \/ Succeed /\ Continue(t) /\ thread' = thread \cup {<<"answer", t>>}
     \/ /\ Fail
        /\ Continue(t)
        /\ thread' = thread \/ thread' = thread \cup {<<"answer", t>>}
  /\ UNCHANGED <<option, tool, pr, people, seen, stale, labels, edits>>

\* Mutant of NewContent: the entry replaces the file.
NewContentOnly(t) == <<t>>

NewContent(t) == <<t>> \o seen[t].changelog

\* The file is overwritten with the content that was read at the beginning.
Push(t) ==
  /\ Calls(t, "push")
  /\ \/ /\ Succeed
        /\ Continue(t)
        /\ pr' = [pr EXCEPT !.changelog = NewContent(t)]
        /\ people' = [people EXCEPT !.changelog =
             IF <<t, "changelog">> \in stale
             THEN Block(seen[t].changelog, {People}) ELSE @]
        /\ stale' = stale \cup (Outdated("changelog") \ {<<t, "changelog">>})
     \/ /\ Fail
        /\ GiveUp(t)
        /\ UNCHANGED <<pr, people, stale>>
  /\ UNCHANGED <<option, tool, seen, labels, thread, edits>>

\* A review on the pushed file, or else a comment.
Review(t) ==
  /\ Calls(t, "review")
  /\ \/ Succeed /\ Continue(t) /\ thread' = thread \cup {<<"answer", t>>}
     \/ Fail /\ Then(t, <<"say">>) /\ UNCHANGED thread
  /\ UNCHANGED <<option, tool, pr, people, seen, stale, labels, edits>>

Clean(t) ==
  /\ Calls(t, "clean?")
  /\ Continue(t)
  /\ \/ Succeed /\ thread' = thread \ {<<"temporary", t>>}
     \/ Fail /\ UNCHANGED thread
  /\ UNCHANGED <<option, tool, pr, people, seen, stale, labels, edits>>

Step(t) ==
  \/ Open(t) \/ Announce(t) \/ Clone(t) \/ Think(t) \/ GetLabels(t)
  \/ PutLabels(t) \/ Publish(t) \/ Say(t) \/ Suggest(t) \/ Push(t)
  \/ Review(t) \/ Clean(t)

\* Every command has ended and nobody changes anything more.
Quiescent ==
  /\ \A t \in Tasks : pc[t] \in Ended
  /\ UNCHANGED vars

Next ==
  \/ \E t \in Tasks : Step(t)
  \/ \E text \in Texts : Rewrite(people.title, text)
  \/ Rewrite(people.title + 1, people.text)
  \/ \E l \in UserLabels : AddLabel(l)
  \/ AddEntry
  \/ Quiescent

Spec == Init /\ [][Next]_vars

-----------------------------------------------------------------------------
(* Every field keeps to its values, and a command that has ended has no calls *)
(* left to make.                                                             *)
TypeOK ==
  /\ option \in Options
  /\ tool \in [Tasks -> Tools]
  /\ pr \in PullRequest /\ people \in PullRequest
  /\ seen \in [Tasks -> PullRequest]
  /\ pc \in [Tasks -> {"idle", "running"} \cup Ended]
  /\ \A t \in Tasks : pc[t] # "running" <=> todo[t] = <<>>
  /\ stale \subseteq Tasks \X {"text", "labels", "changelog"}
  /\ labels \in [Tasks -> SUBSET (Types \cup Others)]
  /\ thread \subseteq {"temporary", "answer"} \X Tasks
  /\ edits \in 0..MaxEdits /\ failures \in 0..MaxFailures

(* However often and by how many commands a pull request is described, its   *)
(* title and description keep what the author last wrote and hold a single   *)
(* generated part, unless the author wrote while a description was being     *)
(* made (the documented race), or under a heading of the tool's own.         *)
AuthorsText ==
  ~Contains(people.text, "section") =>
    /\ pr.title = people.title
    /\ Block(pr.text, Words \ {"marker"}) = Block(people.text, Words \ {"marker"})
    /\ "markers" \notin option => Len(Block(pr.text, {"answer"})) <= 1

(* A tool takes off no label and no changelog entry of a person's, unless it *)
(* was put there after the tool read the labels or the file, or the reading  *)
(* failed: the labels are replaced as a whole, and so is the file.           *)
OthersWork ==
  /\ people.labels \subseteq pr.labels
  /\ Block(pr.changelog, {People}) = people.changelog

(* The "Preparing ..." comment of a command is gone when the command has      *)
(* ended without a failed call, unless it came to no result because of the   *)
(* model's answer and is one of the three that end without cleaning up then: *)
(* /generate_labels and /add_docs return, /describe and /generate_labels     *)
(* raise.                                                                    *)
NoLitter ==
  \A t \in Tasks :
    /\ pc[t] \in Ended /\ <<"temporary", t>> \in thread
    /\ failures = 0
    => /\ <<"answer", t>> \notin thread
       /\ tool[t] \in IF pc[t] = "failed" THEN {"describe", "generate_labels"}
                     ELSE {"generate_labels", "add_docs"}
=============================================================================
