---------------------------- MODULE RequestSettings ----------------------------
(***************************************************************************)
(* The settings that the commands of a request run under, on every webhook *)
(* server (pr_insight/servers), and the cache of tickets kept in them.     *)
(*                                                                         *)
(* One server process has one event loop.  Some servers copy the settings  *)
(* for each request; on the others every request changes the process's.    *)
(* Onto them go the repository's .pr_insight.toml and the arguments of the *)
(* commands, in an order that differs between a typed and an automatic     *)
(* command.  A value is modelled by its origin: whose file or arguments    *)
(* wrote it.  A command gives the event loop up only at its model call, so *)
(* a request keeps the loop from the end of a command to the next call.    *)
(***************************************************************************)
EXTENDS Naturals, FiniteSets

CONSTANTS
  PRs,          \* pull requests, each of a repository of its own
  Requests,     \* webhook events
  None,         \* a default value, no tickets, nobody
  Files,        \* the sets of keys that a repository's file may set
  Commands,     \* number of configured automatic commands
  MaxFailures   \* bound: reads of a repository's file that fail

\* "knob" is any parameter of a tool.  The others are off unless they are set.
Keys == {"knob", "ignore_title", "ignore_labels", "quiet", "pushes"}
Kinds == {"opened", "push", "comment"}
PerProcess == {"azure", "bitbucket_server"}
Servers == PerProcess \cup
  {"github_app", "gitlab", "bitbucket_app", "gitea", "gerrit", "action"}

ASSUME RequestSettingsAssumption ==
  /\ PRs # {}
  /\ PRs \cap Requests = {}
  /\ None \notin PRs \cup Requests
  /\ Files \subseteq SUBSET Keys
  /\ Commands \in Nat \ {0}
  /\ MaxFailures \in Nat

VARIABLES
  server,    \* the server that is deployed
  file,      \* file[p]: the keys that the file of p's repository sets
  event,     \* event[q]: the event that q handles
  shared,    \* global_settings
  copied,    \* copied[q]: context["settings"] holds a copy
  own,       \* own[q]: that copy
  read,      \* read[q]: context["repo_settings"] is set
  content,   \* content[q]: the keys of the file as q read it
  pc,        \* pc[q]: where the task of q is
  left,      \* left[q]: commands of q still to run
  loop,      \* the request that keeps the event loop, or None
  failures   \* reads of a repository's file that failed so far

settings == <<shared, copied, own>>
vars == <<server, file, event, settings, read, content, pc, left, loop, failures>>

Origins == {None} \cup PRs \cup Requests
Setting == [key : [Keys -> Origins], auto : BOOLEAN, tickets : PRs \cup {None}]
Event == [pr : PRs, kind : Kinds, args : BOOLEAN]
Defaults == [key |-> [k \in Keys |-> None], auto |-> FALSE, tickets |-> None]

Settings(q) == IF copied[q] THEN own[q] ELSE shared
On(s, k) == s.key[k] # None

(* get_settings().set on the request's settings.  The Bitbucket app makes   *)
(* its copy in the background task, the other servers before it.            *)
Set(q, s) ==
  /\ copied' = [copied EXCEPT ![q] = @ \/ server = "bitbucket_app"]
  /\ IF copied'[q] THEN own' = [own EXCEPT ![q] = s] /\ shared' = shared
                   ELSE shared' = s /\ own' = own

Overlay(s, keys, origin) ==
  [s EXCEPT !.key = [k \in Keys |-> IF k \in keys THEN origin ELSE s.key[k]]]

(* update_settings_from_args *)
Args(q, s) == IF event[q].args THEN Overlay(s, {"knob"}, q) ELSE s

(* apply_repo_settings: a provider answers "" when it cannot read the file, *)
(* and that is kept for the rest of the request like a content.  Gitea's    *)
(* has no name of the file to read (GITEA.REPO_SETTING).                    *)
File(q) == IF server = "gitea" THEN {} ELSE file[event[q].pr]
Contents(q) ==
  IF read[q] THEN {content[q]}
             ELSE {File(q)} \cup {c \in {{}} : failures < MaxFailures}
Apply(q, s, c) == Overlay(s, c, event[q].pr)
Read(q, c) ==
  /\ read' = [read EXCEPT ![q] = TRUE]
  /\ content' = [content EXCEPT ![q] = c]
  /\ failures' = IF read[q] \/ c = File(q) THEN failures ELSE failures + 1

-----------------------------------------------------------------------------
\* Mutant of IgnoredByGithub: only the labels are looked at.
IgnoredByLabels(s) == On(s, "ignore_labels")

(* should_process_pr_logic, once per server.  Bitbucket has no labels.      *)
IgnoredByGithub(s) == On(s, "ignore_title") \/ On(s, "ignore_labels")
IgnoredByGitlab(s) == On(s, "ignore_title") \/ On(s, "ignore_labels")
IgnoredByGitea(s) == On(s, "ignore_title") \/ On(s, "ignore_labels")
IgnoredByBitbucket(s) == On(s, "ignore_title")
IgnoredByBitbucketServer(s) == On(s, "ignore_title")

(* Whether a server runs the automatic commands of an event of this kind: s *)
(* are the settings before the repository's file is applied, t after it.    *)
GithubApp(kind, s, t) ==
  /\ ~IgnoredByGithub(s) /\ ~IgnoredByGithub(t)
  /\ kind = "opened" => ~On(t, "quiet")
  /\ kind = "push" => On(t, "pushes")

Gitlab(kind, s, t) ==
  /\ ~IgnoredByGitlab(s) /\ ~IgnoredByGitlab(t)
  /\ kind = "opened" => ~On(t, "quiet")
  /\ kind = "push" => On(t, "pushes")

Gitea(kind, s, t) ==
  /\ ~IgnoredByGitea(s) /\ ~IgnoredByGitea(t)
  /\ kind = "opened" => ~On(t, "quiet")
  /\ kind = "push" => On(s, "pushes")

BitbucketApp(kind, s, t) ==
  /\ kind = "opened" => /\ ~IgnoredByBitbucket(s) /\ ~IgnoredByBitbucket(t)
                        /\ ~On(t, "quiet")
  /\ kind = "push" => On(t, "pushes")

BitbucketServer(kind, s, t) ==
  /\ ~IgnoredByBitbucketServer(t) /\ ~On(t, "quiet")
  /\ kind = "push" => On(t, "pushes")

\* The flag of an automatic command is set before the push trigger is checked.
StaysAuto(t) == server = "bitbucket_server" /\ BitbucketServer("opened", t, t)

Azure(kind, s, t) == kind = "opened" /\ ~On(t, "quiet")

Action(kind, s, t) == kind = "opened"

Admits(kind, s, t) ==
  CASE server = "github_app" -> GithubApp(kind, s, t)
    [] server = "gitlab" -> Gitlab(kind, s, t)
    [] server = "gitea" -> Gitea(kind, s, t)
    [] server = "bitbucket_app" -> BitbucketApp(kind, s, t)
    [] server = "bitbucket_server" -> BitbucketServer(kind, s, t)
    [] server = "azure" -> Azure(kind, s, t)
    [] server = "action" -> Action(kind, s, t)
    [] OTHER -> FALSE

-----------------------------------------------------------------------------
Init ==
  /\ server \in Servers
  /\ file \in [PRs -> Files]
  /\ event \in [Requests -> {[pr |-> p, kind |-> "comment", args |-> FALSE] :
                               p \in {CHOOSE p \in PRs : TRUE}}]
  /\ shared = Defaults
  /\ copied = [q \in Requests |-> FALSE]
  /\ own = [q \in Requests |-> Defaults]
  /\ read = [q \in Requests |-> FALSE]
  /\ content = [q \in Requests |-> {}]
  /\ pc = [q \in Requests |-> "idle"]
  /\ left = [q \in Requests |-> 0]
  /\ loop = None
  /\ failures = 0

Goto(q, label) == pc' = [pc EXCEPT ![q] = label]
MayRun(q) == loop \in {None, q}

\* Mutant of Receive: no server copies the settings.
ReceiveUncopied(q) ==
  /\ pc[q] = "idle"
  /\ \E e \in Event : event' = [event EXCEPT ![q] = e]
  /\ Goto(q, "received")
  /\ UNCHANGED <<server, file, settings, read, content, left, loop, failures>>

(* The server takes an event in, and most copy the settings for it.         *)
Receive(q) ==
  /\ pc[q] = "idle"
  /\ \E e \in Event :
       /\ server = "gerrit" => e.kind = "comment"
       /\ event' = [event EXCEPT ![q] = e]
  /\ copied' = [copied EXCEPT
                  ![q] = server \notin PerProcess \cup {"bitbucket_app"}]
  /\ own' = [own EXCEPT ![q] = shared]
  /\ Goto(q, "received")
  /\ UNCHANGED <<server, file, shared, read, content, left, loop, failures>>

(* The background task begins.  For automatic commands the repository's     *)
(* file is applied and the checks made; any event may be dropped for what   *)
(* is not modelled (a bot, a draft, a sender who is not eligible, an old    *)
(* commit).  The Bitbucket server does this before it answers the webhook,  *)
(* and begins its task later.                                               *)
Dispatch(q) ==
  /\ pc[q] = "received" /\ loop = None
  /\ LET s == Settings(q)
         kind == event[q].kind
     IN \/ /\ kind = "comment"
           /\ Set(q, s) /\ Goto(q, "commands")
           /\ left' = [left EXCEPT ![q] = 1]
           /\ UNCHANGED <<read, content, failures>>
        \/ /\ kind # "comment"
           /\ \E c \in Contents(q) :
                /\ Read(q, c)
                /\ LET t == Apply(q, s, c)
                   IN \/ /\ Admits(kind, s, t)
                         /\ Set(q, [t EXCEPT !.auto = TRUE])
                         /\ Goto(q, "commands")
                         /\ left' = [left EXCEPT ![q] = Commands]
                      \/ /\ Set(q, [t EXCEPT !.auto = @ \/ StaysAuto(t)])
                         /\ Goto(q, "done") /\ left' = left
  /\ loop' = IF pc'[q] = "done" \/ server = "bitbucket_server" THEN None ELSE q
  /\ UNCHANGED <<server, file, event>>

\* Mutant of Configured: the arguments of every command win.
ArgsLast(q, s, c) == Args(q, Apply(q, s, c))

(* What a command runs under.  Typed: the repository's file, then the       *)
(* arguments.  Automatic: the arguments, then PRAgent applies the file.     *)
(* The Bitbucket server: the file, the arguments, and the file again.  The  *)
(* action runs its tools without PRAgent.                                   *)
Configured(q, s, c) ==
  IF server = "bitbucket_server" THEN Apply(q, Args(q, Apply(q, s, c)), c)
  ELSE IF event[q].kind = "comment" THEN Args(q, Apply(q, s, c))
  ELSE IF server = "action" THEN s
  ELSE Apply(q, Args(q, s), c)

(* extract_and_cache_pr_tickets: GitHub and Azure DevOps only, and only     *)
(* when no tickets are cached yet.                                          *)
Extracts(q, s) ==
  IF s.tickets # None \/ server \notin {"github_app", "action", "azure"}
    THEN {s} ELSE {s, [s EXCEPT !.tickets = event[q].pr]}

(* The next command, /describe or /review, up to its model call; or it is   *)
(* refused or fails before that, and the next one follows.                  *)
Command(q) ==
  /\ pc[q] = "commands" /\ left[q] > 0 /\ MayRun(q)
  /\ left' = [left EXCEPT ![q] = @ - 1]
  /\ \E c \in Contents(q) :
       /\ Read(q, c)
       /\ LET s == Configured(q, Settings(q), c)
          IN \/ \E t \in Extracts(q, s) : Set(q, t) /\ Goto(q, "model") /\ loop' = None
             \/ Set(q, s) /\ pc' = pc /\ loop' = q
  /\ UNCHANGED <<server, file, event>>

(* The model has answered: the tool publishes, under the settings of now.   *)
Answer(q) ==
  /\ pc[q] = "model" /\ loop = None
  /\ Goto(q, "commands") /\ loop' = q
  /\ UNCHANGED <<server, file, event, settings, read, content, left, failures>>

Finish(q) ==
  /\ pc[q] = "commands" /\ left[q] = 0 /\ MayRun(q)
  /\ Goto(q, "done") /\ loop' = None
  /\ UNCHANGED <<server, file, event, settings, read, content, left, failures>>

Quiescent == (\A q \in Requests : pc[q] = "done") /\ UNCHANGED vars

Step(q) == Receive(q) \/ Dispatch(q) \/ Command(q) \/ Answer(q) \/ Finish(q)

Next == (\E q \in Requests : Step(q)) \/ Quiescent

Spec == Init /\ [][Next]_vars

-----------------------------------------------------------------------------
TypeOK ==
  /\ server \in Servers
  /\ file \in [PRs -> SUBSET Keys]
  /\ event \in [Requests -> Event]
  /\ shared \in Setting
  /\ copied \in [Requests -> BOOLEAN]
  /\ own \in [Requests -> Setting]
  /\ read \in [Requests -> BOOLEAN]
  /\ content \in [Requests -> SUBSET Keys]
  /\ pc \in [Requests -> {"idle", "received", "commands", "model", "done"}]
  /\ left \in [Requests -> 0..Commands]
  /\ loop \in Requests \cup {None}
  /\ failures \in Nat

Mine(q) == {None, event[q].pr, q}

(* On a server that copies the settings, whatever else the process handles  *)
(* and has handled, a tool at work reads defaults, its own repository's     *)
(* file, its own request's arguments and its own pull request's tickets,    *)
(* before and after the model call, and a typed command is not run as an    *)
(* automatic one.                                                           *)
OwnSettings ==
  server \notin PerProcess =>
    \A q \in Requests : pc[q] = "model" =>
      /\ \A k \in Keys : Settings(q).key[k] \in Mine(q)
      /\ Settings(q).tickets \in {None, event[q].pr}
      /\ event[q].kind = "comment" => ~Settings(q).auto

(* When a tool starts, on any server and after any other request, the       *)
(* values its repository's file sets win over what was there, and the       *)
(* arguments of a typed command win over the file (on the Bitbucket server  *)
(* the file is applied once more and wins).                                 *)
Starts(q) == pc[q] # "model" /\ pc'[q] = "model"
FilePrevails ==
  [][\A q \in Requests : Starts(q) =>
       \A k \in content'[q] :
         \/ Settings(q)'.key[k] = event[q].pr
         \/ /\ k = "knob" /\ event[q].args /\ event[q].kind = "comment"
            /\ server # "bitbucket_server"
            /\ Settings(q)'.key[k] = q]_vars

(* An automatic command never starts on a pull request that the repository's*)
(* own file, as the request read it, tells to ignore by its title or, when  *)
(* it is opened, for which the file disables the automatic feedback.  The   *)
(* handlers of Azure DevOps (no filters), of the action (neither) and of    *)
(* pushes on the Bitbucket app (no filters) do not look.                    *)
Permitted ==
  [][\A q \in Requests : Starts(q) /\ event[q].kind # "comment" =>
       /\ "ignore_title" \in content'[q] =>
            \/ server \in {"azure", "action"}
            \/ server = "bitbucket_app" /\ event[q].kind = "push"
       /\ "quiet" \in content'[q] /\ event[q].kind = "opened" =>
            server = "action"]_vars
=============================================================================
