------------------------ MODULE RequestSettingsProofs ------------------------
(***************************************************************************)
(* Proofs about RequestSettings, for any number of pull requests, requests *)
(* and commands, any files and any failures to read them.                  *)
(***************************************************************************)
EXTENDS RequestSettings, TLAPS

Copying == server \notin PerProcess

\* On a server that copies, nothing is written to the process's settings, since
\* every request has its copy before it writes.
CopyInv ==
  Copying =>
    /\ shared = Defaults
    /\ \A q \in Requests : pc[q] # "idle" => copied[q] \/ server = "bitbucket_app"

\* What the settings of q may hold.
Clean(q, s) ==
  /\ \A k \in Keys : s.key[k] \in Mine(q)
  /\ s.tickets \in {None, event[q].pr}
  /\ event[q].kind = "comment" => ~s.auto

OwnInv == Copying => \A q \in Requests : pc[q] # "idle" => Clean(q, Settings(q))

\* What an event with this file had to be for the server to admit it.
Admitted(kind, c) ==
  /\ "ignore_title" \in c =>
       \/ server \in {"azure", "action"}
       \/ server = "bitbucket_app" /\ kind = "push"
  /\ "quiet" \in c /\ kind = "opened" => server = "action"

\* A request that runs automatic commands has read its file and was admitted with
\* it; the action, which applies the file only once, still has its values.
FileInv ==
  \A q \in Requests :
    event[q].kind # "comment" /\ pc[q] \in {"commands", "model"} =>
      /\ read[q]
      /\ Admitted(event[q].kind, content[q])
      /\ server = "action" => \A k \in content[q] : Settings(q).key[k] = event[q].pr

IInv == TypeOK /\ CopyInv /\ OwnInv /\ FileInv

-----------------------------------------------------------------------------
(***************************************************************************)
(* The parts of an event, and the settings a request runs under, have the  *)
(* types their names promise.                                              *)
(***************************************************************************)
LEMMA EventTypes ==
  ASSUME TypeOK, NEW q \in Requests
  PROVE  /\ event[q] \in Event
         /\ event[q].pr \in PRs /\ event[q].kind \in Kinds /\ event[q].args \in BOOLEAN
         /\ event[q].pr # None /\ q # None
         /\ Settings(q) \in Setting
         /\ copied[q] \in BOOLEAN
<1>1. event[q] \in Event
  BY DEF TypeOK
<1>2. event[q].pr \in PRs /\ event[q].kind \in Kinds /\ event[q].args \in BOOLEAN
  BY <1>1 DEF Event
<1>3. Settings(q) \in Setting
  BY DEF TypeOK, Settings
<1>. QED
  BY <1>1, <1>2, <1>3, RequestSettingsAssumption DEF TypeOK

LEMMA DefaultsType == Defaults \in Setting /\ \A k \in Keys : Defaults.key[k] = None
BY DEF Defaults, Setting, Origins

(***************************************************************************)
(* Overlay writes one origin into some keys and changes nothing else.      *)
(***************************************************************************)
LEMMA OverlayOK ==
  ASSUME NEW s \in Setting, NEW keys \in SUBSET Keys, NEW origin \in Origins
  PROVE  /\ Overlay(s, keys, origin) \in Setting
         /\ \A k \in Keys : Overlay(s, keys, origin).key[k] =
              IF k \in keys THEN origin ELSE s.key[k]
         /\ Overlay(s, keys, origin).tickets = s.tickets
         /\ Overlay(s, keys, origin).auto = s.auto
<1> DEFINE new == [k \in Keys |-> IF k \in keys THEN origin ELSE s.key[k]]
<1>1. s.key \in [Keys -> Origins] /\ s.auto \in BOOLEAN /\ s.tickets \in PRs \cup {None}
  BY DEF Setting
<1>2. new \in [Keys -> Origins]
  BY <1>1
<1>3. Overlay(s, keys, origin) = [key |-> new, auto |-> s.auto, tickets |-> s.tickets]
  BY DEF Overlay, Setting
<1>. HIDE DEF new
<1>4. Overlay(s, keys, origin) \in Setting
  BY <1>1, <1>2, <1>3 DEF Setting
<1>5. /\ Overlay(s, keys, origin).key = new
      /\ Overlay(s, keys, origin).tickets = s.tickets
      /\ Overlay(s, keys, origin).auto = s.auto
  BY <1>3
<1>. QED
  BY <1>4, <1>5 DEF new

LEMMA ApplyOK ==
  ASSUME TypeOK, NEW q \in Requests, NEW s \in Setting, NEW c \in SUBSET Keys
  PROVE  /\ Apply(q, s, c) \in Setting
         /\ \A k \in Keys : Apply(q, s, c).key[k] =
              IF k \in c THEN event[q].pr ELSE s.key[k]
         /\ Apply(q, s, c).tickets = s.tickets
         /\ Apply(q, s, c).auto = s.auto
<1>1. event[q].pr \in Origins
  BY EventTypes DEF Origins
<1>. QED
  BY <1>1, OverlayOK DEF Apply

LEMMA ArgsOK ==
  ASSUME TypeOK, NEW q \in Requests, NEW s \in Setting
  PROVE  /\ Args(q, s) \in Setting
         /\ \A k \in Keys : Args(q, s).key[k] =
              IF k = "knob" /\ event[q].args THEN q ELSE s.key[k]
         /\ Args(q, s).tickets = s.tickets
         /\ Args(q, s).auto = s.auto
<1>1. q \in Origins /\ {"knob"} \in SUBSET Keys
  BY DEF Origins, Keys
<1>2. /\ Overlay(s, {"knob"}, q) \in Setting
      /\ \A k \in Keys : Overlay(s, {"knob"}, q).key[k] =
           IF k \in {"knob"} THEN q ELSE s.key[k]
      /\ Overlay(s, {"knob"}, q).tickets = s.tickets
      /\ Overlay(s, {"knob"}, q).auto = s.auto
  BY <1>1, OverlayOK
<1>3. CASE event[q].args
  BY <1>2, <1>3 DEF Args
<1>4. CASE ~event[q].args
  BY <1>4 DEF Args
<1>. QED
  BY <1>3, <1>4

(***************************************************************************)
(* Whatever the order, a command's settings change in their keys only, to  *)
(* the values of the request's own file and arguments; and where PRAgent   *)
(* applies the file, it prevails over all but typed arguments.             *)
(***************************************************************************)
LEMMA ConfiguredOK ==
  ASSUME TypeOK, NEW q \in Requests, NEW s \in Setting, NEW c \in SUBSET Keys
  PROVE  LET t == Configured(q, s, c) IN
         /\ t \in Setting
         /\ \A k \in Keys : t.key[k] \in {s.key[k], event[q].pr, q}
         /\ t.tickets = s.tickets
         /\ t.auto = s.auto
         /\ server = "action" /\ event[q].kind # "comment"
              => t = s
         /\ server # "action" \/ event[q].kind = "comment" =>
              \A k \in c :
                \/ t.key[k] = event[q].pr
                \/ /\ k = "knob" /\ event[q].args /\ event[q].kind = "comment"
                   /\ server # "bitbucket_server"
                   /\ t.key[k] = q
<1> DEFINE t == Configured(q, s, c)
<1>. c \subseteq Keys
  OBVIOUS
<1>1. CASE server = "bitbucket_server"
  <2>1. t = Apply(q, Args(q, Apply(q, s, c)), c)
    BY <1>1 DEF Configured
  <2>2. Apply(q, s, c) \in Setting /\ Args(q, Apply(q, s, c)) \in Setting
    BY ApplyOK, ArgsOK
  <2>. QED
    BY <1>1, <2>1, <2>2, ApplyOK, ArgsOK
<1>2. CASE server = "action" /\ event[q].kind # "comment"
  <2>1. t = s
    BY <1>2 DEF Configured
  <2>. QED
    BY <1>2, <2>1
<1>3. CASE server # "bitbucket_server" /\ event[q].kind = "comment"
  <2>1. t = Args(q, Apply(q, s, c))
    BY <1>3 DEF Configured
  <2>2. Apply(q, s, c) \in Setting
    BY ApplyOK
  <2>. QED
    BY <1>3, <2>1, <2>2, ApplyOK, ArgsOK
<1>4. CASE server \notin {"bitbucket_server", "action"} /\ event[q].kind # "comment"
  <2>1. t = Apply(q, Args(q, s), c)
    BY <1>4 DEF Configured
  <2>2. Args(q, s) \in Setting
    BY ArgsOK
  <2>. QED
    BY <1>4, <2>1, <2>2, ApplyOK, ArgsOK
<1>. QED
  BY <1>1, <1>2, <1>3, <1>4

(***************************************************************************)
(* A write goes to the copy if there is one, and what is read afterwards   *)
(* is what was written.  No other request's copy changes.                  *)
(***************************************************************************)
LEMMA SetOK ==
  ASSUME TypeOK, NEW q \in Requests, NEW s \in Setting, Set(q, s)
  PROVE  /\ copied' \in [Requests -> BOOLEAN] /\ own' \in [Requests -> Setting]
         /\ shared' \in Setting
         /\ Settings(q)' = s
         /\ copied'[q] = (copied[q] \/ server = "bitbucket_app")
         /\ copied'[q] => shared' = shared
         /\ \A r \in Requests \ {q} : copied'[r] = copied[r] /\ own'[r] = own[r]
<1>1. copied' = [copied EXCEPT ![q] = @ \/ server = "bitbucket_app"]
  BY DEF Set
<1>2. copied' \in [Requests -> BOOLEAN]
  BY <1>1 DEF TypeOK
<1>3. copied'[q] = (copied[q] \/ server = "bitbucket_app")
  BY <1>1 DEF TypeOK
<1>4. \A r \in Requests \ {q} : copied'[r] = copied[r]
  BY <1>1 DEF TypeOK
<1>5. CASE copied'[q]
  <2>1. own' = [own EXCEPT ![q] = s] /\ shared' = shared
    BY <1>5 DEF Set
  <2>2. own' \in [Requests -> Setting] /\ own'[q] = s
    BY <2>1 DEF TypeOK
  <2>3. \A r \in Requests \ {q} : own'[r] = own[r]
    BY <2>1 DEF TypeOK
  <2>4. Settings(q)' = s
    BY <1>5, <2>2 DEF Settings
  <2>. QED
    BY <1>2, <1>3, <1>4, <2>1, <2>2, <2>3, <2>4 DEF TypeOK
<1>6. CASE ~copied'[q]
  <2>1. shared' = s /\ own' = own
    BY <1>6 DEF Set
  <2>2. Settings(q)' = s
    BY <1>6, <2>1 DEF Settings
  <2>. QED
    BY <1>2, <1>3, <1>4, <1>6, <2>1, <2>2 DEF TypeOK
<1>. QED
  BY <1>5, <1>6

(***************************************************************************)
(* A file's content is a set of keys, and once it was read it stays.       *)
(***************************************************************************)
LEMMA ReadOK ==
  ASSUME TypeOK, NEW q \in Requests, NEW c \in Contents(q), Read(q, c)
  PROVE  /\ c \in SUBSET Keys
         /\ read' \in [Requests -> BOOLEAN] /\ read'[q]
         /\ content' \in [Requests -> SUBSET Keys] /\ content'[q] = c
         /\ read[q] => c = content[q]
         /\ failures' \in Nat
         /\ \A r \in Requests \ {q} : read'[r] = read[r] /\ content'[r] = content[r]
<1>1. File(q) \in SUBSET Keys /\ content[q] \in SUBSET Keys
  BY EventTypes DEF TypeOK, File
<1>2. c \in SUBSET Keys
  BY <1>1 DEF Contents
<1>3. read[q] => c = content[q]
  BY DEF Contents
<1>4. read' \in [Requests -> BOOLEAN] /\ read'[q]
  BY DEF TypeOK, Read
<1>5. content' \in [Requests -> SUBSET Keys] /\ content'[q] = c
  BY <1>2 DEF TypeOK, Read
<1>6. failures' \in Nat
  BY DEF TypeOK, Read
<1>7. \A r \in Requests \ {q} : read'[r] = read[r] /\ content'[r] = content[r]
  BY DEF TypeOK, Read
<1>. QED
  BY <1>2, <1>3, <1>4, <1>5, <1>6, <1>7

(***************************************************************************)
(* Extracting tickets touches the tickets only, with the request's own.    *)
(***************************************************************************)
LEMMA ExtractsOK ==
  ASSUME TypeOK, NEW q \in Requests, NEW s \in Setting, NEW t \in Extracts(q, s)
  PROVE  /\ t \in Setting
         /\ t.key = s.key /\ t.auto = s.auto
         /\ t.tickets \in {s.tickets, event[q].pr}
<1>1. t = s \/ t = [s EXCEPT !.tickets = event[q].pr]
  BY DEF Extracts
<1>2. event[q].pr \in PRs
  BY EventTypes
<1>. QED
  BY <1>1, <1>2 DEF Setting

(***************************************************************************)
(* A server's own conditions for automatic commands respect the filters    *)
(* that Permitted asks for.                                                *)
(***************************************************************************)
LEMMA AdmitsOK ==
  ASSUME TypeOK, NEW q \in Requests, NEW s \in Setting, NEW c \in SUBSET Keys,
         event[q].kind # "comment", Admits(event[q].kind, s, Apply(q, s, c))
  PROVE  Admitted(event[q].kind, c)
<1> DEFINE t == Apply(q, s, c)
<1>1. \A k \in c : On(t, k)
  BY ApplyOK, EventTypes DEF On
<1>2. "ignore_title" \in c => On(t, "ignore_title")
  BY <1>1
<1>3. "quiet" \in c => On(t, "quiet")
  BY <1>1
<1>4. server \in Servers
  BY DEF TypeOK
<1>. HIDE DEF t
<1>5. Admits(event[q].kind, s, t)
  BY DEF t
<1>6. event[q].kind \in {"opened", "push"}
  BY EventTypes DEF Kinds
<1>7. CASE server = "github_app"
  BY <1>2, <1>3, <1>5, <1>7 DEF Admits, Admitted, GithubApp, IgnoredByGithub
<1>8. CASE server = "gitlab"
  BY <1>2, <1>3, <1>5, <1>8 DEF Admits, Admitted, Gitlab, IgnoredByGitlab
<1>9. CASE server = "gitea"
  BY <1>2, <1>3, <1>5, <1>9 DEF Admits, Admitted, Gitea, IgnoredByGitea
<1>10. CASE server = "bitbucket_app"
  BY <1>2, <1>3, <1>5, <1>6, <1>10 DEF Admits, Admitted, BitbucketApp, IgnoredByBitbucket
<1>11. CASE server = "bitbucket_server"
  BY <1>2, <1>3, <1>5, <1>11
  DEF Admits, Admitted, BitbucketServer, IgnoredByBitbucketServer
<1>12. CASE server = "azure"
  BY <1>2, <1>3, <1>5, <1>12 DEF Admits, Admitted, Azure
<1>13. CASE server = "action"
  BY <1>13 DEF Admitted
<1>14. CASE server = "gerrit"
  BY <1>5, <1>14 DEF Admits
<1>. QED
  BY <1>4, <1>7, <1>8, <1>9, <1>10, <1>11, <1>12, <1>13, <1>14 DEF Servers, PerProcess

(***************************************************************************)
(* What a command starts under is clean if the request's settings were.    *)
(***************************************************************************)
LEMMA CleanOK ==
  ASSUME TypeOK, NEW q \in Requests, NEW s \in Setting, Clean(q, s),
         NEW c \in SUBSET Keys
  PROVE  /\ Clean(q, Apply(q, s, c))
         /\ Clean(q, Configured(q, s, c))
         /\ \A t \in Extracts(q, Configured(q, s, c)) : Clean(q, t)
<1>1. Clean(q, Apply(q, s, c))
  BY ApplyOK DEF Clean, Mine
<1>2. Clean(q, Configured(q, s, c)) /\ Configured(q, s, c) \in Setting
  BY ConfiguredOK DEF Clean, Mine
<1>3. ASSUME NEW t \in Extracts(q, Configured(q, s, c)) PROVE Clean(q, t)
  BY <1>2, ExtractsOK DEF Clean
<1>. QED
  BY <1>1, <1>2, <1>3

(***************************************************************************)
(* What the beginning of a task with automatic commands writes, and what   *)
(* the start of a command does.                                            *)
(***************************************************************************)
LEMMA DispatchOK ==
  ASSUME TypeOK, NEW q \in Requests, Dispatch(q), event[q].kind # "comment"
  PROVE  \E c \in Contents(q), s \in Setting :
           /\ Read(q, c) /\ Set(q, s)
           /\ s.key = Apply(q, Settings(q), c).key
           /\ s.tickets = Settings(q).tickets
           /\ \/ /\ Goto(q, "commands") /\ left' = [left EXCEPT ![q] = Commands]
                 /\ Admits(event[q].kind, Settings(q), Apply(q, Settings(q), c))
              \/ Goto(q, "done") /\ left' = left
<1> DEFINE u == Settings(q)
<1>1. u \in Setting
  BY EventTypes
<1>. HIDE DEF u
<1>2. PICK c \in Contents(q) :
        /\ Read(q, c)
        /\ LET t == Apply(q, u, c)
           IN \/ /\ Admits(event[q].kind, u, t)
                 /\ Set(q, [t EXCEPT !.auto = TRUE])
                 /\ Goto(q, "commands")
                 /\ left' = [left EXCEPT ![q] = Commands]
              \/ /\ Set(q, [t EXCEPT !.auto = @ \/ StaysAuto(t)])
                 /\ Goto(q, "done") /\ left' = left
  BY DEF Dispatch, u
<1>3. c \in SUBSET Keys
  BY <1>2, ReadOK
<1> DEFINE t == Apply(q, u, c)
<1>4. t \in Setting /\ t.tickets = u.tickets
  BY <1>1, <1>3, ApplyOK
<1>. HIDE DEF t
<1>6. \A b \in BOOLEAN :
        /\ [t EXCEPT !.auto = b] \in Setting
        /\ [t EXCEPT !.auto = b].key = t.key
        /\ [t EXCEPT !.auto = b].tickets = t.tickets
  BY <1>4 DEF Setting
<1>7. [t EXCEPT !.auto = @ \/ StaysAuto(t)] = [t EXCEPT !.auto = t.auto \/ StaysAuto(t)]
  BY <1>4 DEF Setting
<1>8. (t.auto \/ StaysAuto(t)) \in BOOLEAN
  OBVIOUS
<1>9. \E b \in BOOLEAN : Set(q, [t EXCEPT !.auto = b]) /\
        (\/ /\ Goto(q, "commands") /\ left' = [left EXCEPT ![q] = Commands]
            /\ Admits(event[q].kind, u, t)
         \/ Goto(q, "done") /\ left' = left)
  <2>1. CASE Set(q, [t EXCEPT !.auto = TRUE]) /\ Goto(q, "commands")
             /\ left' = [left EXCEPT ![q] = Commands] /\ Admits(event[q].kind, u, t)
    BY <2>1
  <2>2. CASE Set(q, [t EXCEPT !.auto = @ \/ StaysAuto(t)]) /\ Goto(q, "done") /\ left' = left
    BY <1>7, <1>8, <2>2
  <2>. QED
    BY <1>2, <2>1, <2>2 DEF t
<1>10. PICK b \in BOOLEAN : Set(q, [t EXCEPT !.auto = b]) /\
         (\/ /\ Goto(q, "commands") /\ left' = [left EXCEPT ![q] = Commands]
             /\ Admits(event[q].kind, u, t)
          \/ Goto(q, "done") /\ left' = left)
  BY <1>9
<1>. [t EXCEPT !.auto = b] \in Setting
  BY <1>6
<1>. WITNESS c \in Contents(q), [t EXCEPT !.auto = b] \in Setting
<1>. QED
  BY <1>2, <1>4, <1>6, <1>10 DEF t, u

LEMMA CommandOK ==
  ASSUME TypeOK, NEW q \in Requests, Command(q)
  PROVE  \E c \in Contents(q), s \in Setting :
           /\ Read(q, c) /\ Set(q, s)
           /\ s \in Extracts(q, Configured(q, Settings(q), c))
              \/ s = Configured(q, Settings(q), c)
           /\ Goto(q, "model") \/ pc' = pc
           /\ loop' \in {None, q}
<1>1. PICK c \in Contents(q) :
        /\ Read(q, c)
        /\ LET s == Configured(q, Settings(q), c)
           IN \/ \E t \in Extracts(q, s) : Set(q, t) /\ Goto(q, "model") /\ loop' = None
              \/ Set(q, s) /\ pc' = pc /\ loop' = q
  BY DEF Command
<1>2. c \in SUBSET Keys /\ Settings(q) \in Setting
  BY <1>1, ReadOK, EventTypes
<1>3. Configured(q, Settings(q), c) \in Setting
  BY <1>2, ConfiguredOK
<1>4. \A t \in Extracts(q, Configured(q, Settings(q), c)) : t \in Setting
  BY <1>3, ExtractsOK
<1>. QED
  BY <1>1, <1>3, <1>4

-----------------------------------------------------------------------------
LEMMA InitIInv == Init => IInv
<1> SUFFICES ASSUME Init PROVE IInv
  OBVIOUS
<1>1. (CHOOSE p \in PRs : TRUE) \in PRs
  BY RequestSettingsAssumption
<1>2. event \in [Requests -> Event]
  <2> DEFINE p == CHOOSE p \in PRs : TRUE
  <2>1. [pr |-> p, kind |-> "comment", args |-> FALSE] \in Event
    BY <1>1 DEF Event, Kinds
  <2>2. event \in [Requests -> {[pr |-> x, kind |-> "comment", args |-> FALSE] : x \in {p}}]
    BY DEF Init
  <2>. QED
    BY <2>1, <2>2
<1>3. file \in [PRs -> SUBSET Keys]
  BY RequestSettingsAssumption DEF Init
<1>4. left \in [Requests -> 0..Commands]
  BY RequestSettingsAssumption DEF Init
<1>5. TypeOK
  BY <1>2, <1>3, <1>4, DefaultsType DEF Init, TypeOK
<1>6. CopyInv
  BY DEF Init, CopyInv
<1>7. OwnInv
  BY DEF Init, OwnInv
<1>8. FileInv
  BY DEF Init, FileInv
<1>. QED
  BY <1>5, <1>6, <1>7, <1>8 DEF IInv

-----------------------------------------------------------------------------
LEMMA TypeStep ==
  ASSUME TypeOK, [Next]_vars
  PROVE  TypeOK'
<1>1. ASSUME NEW q \in Requests, Receive(q) PROVE TypeOK'
  <2>1. event' \in [Requests -> Event] /\ own' \in [Requests -> Setting]
    BY <1>1 DEF Receive, TypeOK
  <2>2. copied' \in [Requests -> BOOLEAN]
    BY <1>1 DEF Receive, TypeOK
  <2>3. pc' \in [Requests -> {"idle", "received", "commands", "model", "done"}]
    BY <1>1 DEF Receive, TypeOK, Goto
  <2>. QED
    BY <1>1, <2>1, <2>2, <2>3 DEF Receive, TypeOK
<1>2. ASSUME NEW q \in Requests, Dispatch(q) PROVE TypeOK'
  <2>1. Settings(q) \in Setting
    BY EventTypes
  <2>2. loop' \in Requests \cup {None}
    BY <1>2 DEF Dispatch
  <2>3. UNCHANGED <<server, file, event>>
    BY <1>2 DEF Dispatch
  <2>4. CASE event[q].kind = "comment"
    <3>1. Set(q, Settings(q)) /\ Goto(q, "commands") /\ left' = [left EXCEPT ![q] = 1]
      BY <1>2, <2>4 DEF Dispatch
    <3>2. UNCHANGED <<read, content, failures>>
      BY <1>2, <2>4 DEF Dispatch
    <3>3. left' \in [Requests -> 0..Commands]
      BY <3>1, RequestSettingsAssumption DEF TypeOK
    <3>4. pc' \in [Requests -> {"idle", "received", "commands", "model", "done"}]
      BY <3>1 DEF TypeOK, Goto
    <3>5. /\ copied' \in [Requests -> BOOLEAN] /\ own' \in [Requests -> Setting]
          /\ shared' \in Setting
      BY <2>1, <3>1, SetOK
    <3>. QED
      BY <2>2, <2>3, <3>2, <3>3, <3>4, <3>5 DEF TypeOK
  <2>5. CASE event[q].kind # "comment"
    <3>1. PICK c \in Contents(q), s \in Setting :
            /\ Read(q, c) /\ Set(q, s)
            /\ \/ Goto(q, "commands") /\ left' = [left EXCEPT ![q] = Commands]
               \/ Goto(q, "done") /\ left' = left
      BY <1>2, <2>5, DispatchOK
    <3>2. left' \in [Requests -> 0..Commands]
      BY <3>1, RequestSettingsAssumption DEF TypeOK
    <3>3. pc' \in [Requests -> {"idle", "received", "commands", "model", "done"}]
      BY <3>1 DEF TypeOK, Goto
    <3>4. /\ copied' \in [Requests -> BOOLEAN] /\ own' \in [Requests -> Setting]
          /\ shared' \in Setting
      BY <3>1, SetOK
    <3>5. /\ read' \in [Requests -> BOOLEAN] /\ content' \in [Requests -> SUBSET Keys]
          /\ failures' \in Nat
      BY <3>1, ReadOK
    <3>. QED
      BY <2>2, <2>3, <3>2, <3>3, <3>4, <3>5 DEF TypeOK
  <2>. QED
    BY <2>4, <2>5
<1>3. ASSUME NEW q \in Requests, Command(q) PROVE TypeOK'
  <2>1. PICK c \in Contents(q), s \in Setting :
          /\ Read(q, c) /\ Set(q, s)
          /\ Goto(q, "model") \/ pc' = pc
          /\ loop' \in {None, q}
    BY <1>3, CommandOK
  <2>2. left' = [left EXCEPT ![q] = @ - 1] /\ left[q] > 0
    BY <1>3 DEF Command
  <2>3. left' \in [Requests -> 0..Commands]
    BY <2>2, RequestSettingsAssumption DEF TypeOK
  <2>4. pc' \in [Requests -> {"idle", "received", "commands", "model", "done"}]
    BY <2>1 DEF TypeOK, Goto
  <2>5. /\ copied' \in [Requests -> BOOLEAN] /\ own' \in [Requests -> Setting]
        /\ shared' \in Setting
    BY <2>1, SetOK
  <2>6. /\ read' \in [Requests -> BOOLEAN] /\ content' \in [Requests -> SUBSET Keys]
        /\ failures' \in Nat
    BY <2>1, ReadOK
  <2>7. UNCHANGED <<server, file, event>>
    BY <1>3 DEF Command
  <2>. QED
    BY <2>1, <2>3, <2>4, <2>5, <2>6, <2>7 DEF TypeOK
<1>4. ASSUME NEW q \in Requests, Answer(q) PROVE TypeOK'
  BY <1>4 DEF Answer, TypeOK, Goto, settings
<1>5. ASSUME NEW q \in Requests, Finish(q) PROVE TypeOK'
  BY <1>5 DEF Finish, TypeOK, Goto, settings
<1>6. CASE UNCHANGED vars
  BY <1>6 DEF vars, settings, TypeOK
<1>. QED
  BY <1>1, <1>2, <1>3, <1>4, <1>5, <1>6 DEF Next, Step, Quiescent

(***************************************************************************)
(* On a server that copies, a request's write is seen by no other.         *)
(***************************************************************************)
LEMMA OthersKept ==
  ASSUME TypeOK, CopyInv, Copying, NEW q \in Requests, pc[q] # "idle",
         NEW s \in Setting, Set(q, s)
  PROVE  /\ shared' = shared /\ copied'[q]
         /\ \A r \in Requests \ {q} : copied'[r] = copied[r] /\ Settings(r)' = Settings(r)
<1>1. copied[q] \/ server = "bitbucket_app"
  BY DEF CopyInv
<1>2. copied'[q]
  BY <1>1, SetOK
<1>3. /\ shared' = shared
      /\ \A r \in Requests \ {q} : copied'[r] = copied[r] /\ own'[r] = own[r]
  BY <1>2, SetOK
<1>. QED
  BY <1>2, <1>3 DEF Settings

LEMMA CopyStep ==
  ASSUME TypeOK, CopyInv, [Next]_vars
  PROVE  CopyInv'
<1>1. server' = server
  BY DEF Next, Step, Quiescent, vars, Receive, Dispatch, Command, Answer, Finish
<1> SUFFICES ASSUME Copying
             PROVE  /\ shared' = Defaults
                    /\ \A r \in Requests :
                         pc'[r] # "idle" => copied'[r] \/ server = "bitbucket_app"
  BY <1>1 DEF CopyInv, Copying
<1> DEFINE Goal == /\ shared' = Defaults
                   /\ \A r \in Requests :
                        pc'[r] # "idle" => copied'[r] \/ server = "bitbucket_app"
<1>2. shared = Defaults
  BY DEF CopyInv
<1>3. ASSUME NEW q \in Requests, pc[q] # "idle", NEW s \in Setting, Set(q, s),
             \A r \in Requests \ {q} : pc'[r] = pc[r]
      PROVE  Goal
  BY <1>2, <1>3, OthersKept DEF CopyInv
<1>4. ASSUME NEW q \in Requests, Receive(q) PROVE Goal
  <2>1. /\ shared' = shared
        /\ \A r \in Requests \ {q} : pc'[r] = pc[r] /\ copied'[r] = copied[r]
    BY <1>4 DEF Receive, TypeOK, Goto
  <2>2. copied'[q] = (server \notin PerProcess \cup {"bitbucket_app"})
    BY <1>4 DEF Receive, TypeOK
  <2>. QED
    BY <1>2, <2>1, <2>2 DEF CopyInv, Copying
<1>5. ASSUME NEW q \in Requests, Dispatch(q) PROVE Goal
  <2>1. pc[q] # "idle"
    BY <1>5 DEF Dispatch
  <2>2. PICK s \in Setting : Set(q, s) /\ \E label : Goto(q, label)
    BY <1>5, DispatchOK, EventTypes DEF Dispatch
  <2>3. \A r \in Requests \ {q} : pc'[r] = pc[r]
    BY <2>2 DEF TypeOK, Goto
  <2>. QED
    BY <1>3, <2>1, <2>2, <2>3
<1>6. ASSUME NEW q \in Requests, Command(q) PROVE Goal
  <2>1. pc[q] # "idle"
    BY <1>6 DEF Command
  <2>2. PICK s \in Setting : Set(q, s) /\ (Goto(q, "model") \/ pc' = pc)
    BY <1>6, CommandOK
  <2>3. \A r \in Requests \ {q} : pc'[r] = pc[r]
    BY <2>2 DEF TypeOK, Goto
  <2>. QED
    BY <1>3, <2>1, <2>2, <2>3
<1>7. ASSUME NEW q \in Requests, Answer(q) PROVE Goal
  BY <1>2, <1>7 DEF Answer, TypeOK, Goto, settings, CopyInv
<1>8. ASSUME NEW q \in Requests, Finish(q) PROVE Goal
  BY <1>2, <1>8 DEF Finish, TypeOK, Goto, settings, CopyInv
<1>9. CASE UNCHANGED vars
  BY <1>9 DEF vars, settings, CopyInv
<1>. QED
  BY <1>4, <1>5, <1>6, <1>7, <1>8, <1>9 DEF Next, Step, Quiescent

LEMMA OwnStep ==
  ASSUME TypeOK, CopyInv, OwnInv, [Next]_vars
  PROVE  OwnInv'
<1>1. server' = server
  BY DEF Next, Step, Quiescent, vars, Receive, Dispatch, Command, Answer, Finish
<1> SUFFICES ASSUME Copying
             PROVE  \A r \in Requests : pc'[r] # "idle" => Clean(r, Settings(r))'
  BY <1>1 DEF OwnInv, Copying
<1> DEFINE Goal == \A r \in Requests : pc'[r] # "idle" => Clean(r, Settings(r))'
<1>2. \A r \in Requests : pc[r] # "idle" => Clean(r, Settings(r))
  BY DEF OwnInv
<1>3. ASSUME NEW q \in Requests, pc[q] # "idle", event' = event,
             NEW s \in Setting, Set(q, s), Clean(q, s),
             \A r \in Requests \ {q} : pc'[r] = pc[r]
      PROVE  Goal
  <2>1. Settings(q)' = s
    BY <1>3, SetOK
  <2>2. Clean(q, Settings(q))'
    BY <1>3, <2>1 DEF Clean, Mine
  <2>3. \A r \in Requests \ {q} : Settings(r)' = Settings(r)
    BY <1>3, OthersKept
  <2>4. \A r \in Requests \ {q} : pc'[r] # "idle" => Clean(r, Settings(r))'
    BY <1>2, <1>3, <2>3 DEF Clean, Mine
  <2>. QED
    BY <2>2, <2>4
<1>4. ASSUME NEW q \in Requests, Receive(q) PROVE Goal
  <2>1. shared = Defaults /\ shared' = shared
    BY <1>4 DEF Receive, CopyInv
  <2>2. \A r \in Requests \ {q} : /\ pc'[r] = pc[r] /\ copied'[r] = copied[r]
                                  /\ own'[r] = own[r] /\ event'[r] = event[r]
    BY <1>4 DEF Receive, TypeOK, Goto
  <2>3. own'[q] = shared
    BY <1>4 DEF Receive, TypeOK
  <2>4. Settings(q)' = Defaults
    BY <2>1, <2>3 DEF Settings
  <2>5. Clean(q, Settings(q))'
    BY <2>4 DEF Clean, Mine, Defaults
  <2>6. \A r \in Requests \ {q} : pc'[r] # "idle" => Clean(r, Settings(r))'
    BY <1>2, <2>1, <2>2 DEF Clean, Mine, Settings
  <2>. QED
    BY <2>5, <2>6
<1>5. ASSUME NEW q \in Requests, Dispatch(q) PROVE Goal
  <2>1. pc[q] # "idle" /\ event' = event /\ Settings(q) \in Setting
    BY <1>5, EventTypes DEF Dispatch
  <2>2. Clean(q, Settings(q))
    BY <1>2, <2>1
  <2>3. CASE event[q].kind = "comment"
    <3>1. Set(q, Settings(q)) /\ Goto(q, "commands")
      BY <1>5, <2>3 DEF Dispatch
    <3>2. \A r \in Requests \ {q} : pc'[r] = pc[r]
      BY <3>1 DEF TypeOK, Goto
    <3>. QED
      BY <1>3, <2>1, <2>2, <3>1, <3>2
  <2>4. CASE event[q].kind # "comment"
    <3>1. PICK c \in Contents(q), s \in Setting :
            /\ Read(q, c) /\ Set(q, s)
            /\ s.key = Apply(q, Settings(q), c).key /\ s.tickets = Settings(q).tickets
            /\ \E label : Goto(q, label)
      BY <1>5, <2>4, DispatchOK
    <3>2. c \in SUBSET Keys
      BY <3>1, ReadOK
    <3>3. Clean(q, Apply(q, Settings(q), c))
      BY <2>1, <2>2, <3>2, CleanOK
    <3>4. Clean(q, s)
      BY <2>2, <2>4, <3>1, <3>3 DEF Clean
    <3>5. \A r \in Requests \ {q} : pc'[r] = pc[r]
      BY <3>1 DEF TypeOK, Goto
    <3>. QED
      BY <1>3, <2>1, <3>1, <3>4, <3>5
  <2>. QED
    BY <2>3, <2>4
<1>6. ASSUME NEW q \in Requests, Command(q) PROVE Goal
  <2>1. pc[q] # "idle" /\ event' = event /\ Settings(q) \in Setting
    BY <1>6, EventTypes DEF Command
  <2>2. Clean(q, Settings(q))
    BY <1>2, <2>1
  <2>3. PICK c \in Contents(q), s \in Setting :
          /\ Read(q, c) /\ Set(q, s)
          /\ s \in Extracts(q, Configured(q, Settings(q), c))
             \/ s = Configured(q, Settings(q), c)
          /\ Goto(q, "model") \/ pc' = pc
    BY <1>6, CommandOK
  <2>4. c \in SUBSET Keys
    BY <2>3, ReadOK
  <2>5. Clean(q, s)
    BY <2>1, <2>2, <2>3, <2>4, CleanOK
  <2>6. \A r \in Requests \ {q} : pc'[r] = pc[r]
    BY <2>3 DEF TypeOK, Goto
  <2>. QED
    BY <1>3, <2>1, <2>3, <2>5, <2>6
<1>7. ASSUME NEW q \in Requests, Answer(q) PROVE Goal
  BY <1>2, <1>7 DEF Answer, TypeOK, Goto, settings, Clean, Mine, Settings
<1>8. ASSUME NEW q \in Requests, Finish(q) PROVE Goal
  BY <1>2, <1>8 DEF Finish, TypeOK, Goto, settings, Clean, Mine, Settings
<1>9. CASE UNCHANGED vars
  BY <1>2, <1>9 DEF vars, settings, Clean, Mine, Settings
<1>. QED
  BY <1>4, <1>5, <1>6, <1>7, <1>8, <1>9 DEF Next, Step, Quiescent

LEMMA FileStep ==
  ASSUME TypeOK, CopyInv, FileInv, [Next]_vars
  PROVE  FileInv'
<1> DEFINE Good(q) ==
      event[q].kind # "comment" /\ pc[q] \in {"commands", "model"} =>
        /\ read[q]
        /\ Admitted(event[q].kind, content[q])
        /\ server = "action" => \A k \in content[q] : Settings(q).key[k] = event[q].pr
<1>1. \A q \in Requests : Good(q)
  BY DEF FileInv
<1>2. server' = server
  BY DEF Next, Step, Quiescent, vars, Receive, Dispatch, Command, Answer, Finish
<1>3. server = "action" => Copying
  BY DEF Copying, PerProcess
<1>4. ASSUME NEW r \in Requests, event'[r] = event[r], pc'[r] = pc[r],
             read'[r] = read[r], content'[r] = content[r],
             server = "action" => Settings(r)' = Settings(r)
      PROVE  Good(r)'
  BY <1>1, <1>2, <1>4 DEF Admitted
<1>5. ASSUME NEW q \in Requests, NEW c \in Contents(q), Read(q, c), pc[q] # "idle",
             event' = event, NEW s \in Setting, Set(q, s),
             \A r \in Requests \ {q} : pc'[r] = pc[r]
      PROVE  /\ \A r \in Requests \ {q} : Good(r)'
             /\ read'[q] /\ content'[q] = c /\ Settings(q)' = s /\ c \in SUBSET Keys
  <2>1. server = "action" => \A r \in Requests \ {q} : Settings(r)' = Settings(r)
    BY <1>3, <1>5, OthersKept
  <2>2. \A r \in Requests \ {q} : read'[r] = read[r] /\ content'[r] = content[r]
    BY <1>5, ReadOK
  <2>3. \A r \in Requests \ {q} : Good(r)'
    BY <1>4, <1>5, <2>1, <2>2
  <2>4. Settings(q)' = s
    BY <1>5, SetOK
  <2>. HIDE DEF Good
  <2>. QED
    BY <1>5, <2>3, <2>4, ReadOK
<1>6. ASSUME NEW q \in Requests, Receive(q) PROVE \A r \in Requests : Good(r)'
  <2>1. pc'[q] = "received" /\ shared' = shared /\ UNCHANGED <<read, content>>
    BY <1>6 DEF Receive, Goto, TypeOK
  <2>2. \A r \in Requests \ {q} : /\ pc'[r] = pc[r] /\ copied'[r] = copied[r]
                                  /\ own'[r] = own[r] /\ event'[r] = event[r]
    BY <1>6 DEF Receive, TypeOK, Goto
  <2>3. \A r \in Requests \ {q} : Settings(r)' = Settings(r)
    BY <2>1, <2>2 DEF Settings
  <2>4. \A r \in Requests \ {q} : Good(r)'
    BY <1>4, <2>1, <2>2, <2>3
  <2>5. Good(q)'
    BY <2>1
  <2>. QED
    BY <2>4, <2>5
<1>7. ASSUME NEW q \in Requests, Dispatch(q) PROVE \A r \in Requests : Good(r)'
  <2>1. pc[q] # "idle" /\ event' = event /\ Settings(q) \in Setting
    BY <1>7, EventTypes DEF Dispatch
  <2>2. CASE event[q].kind = "comment"
    <3>1. /\ Set(q, Settings(q)) /\ Goto(q, "commands")
          /\ UNCHANGED <<read, content>>
      BY <1>7, <2>2 DEF Dispatch
    <3>2. \A r \in Requests \ {q} : pc'[r] = pc[r]
      BY <3>1 DEF TypeOK, Goto
    <3>3. server = "action" => \A r \in Requests \ {q} : Settings(r)' = Settings(r)
      BY <1>3, <2>1, <3>1, OthersKept
    <3>4. \A r \in Requests \ {q} : Good(r)'
      BY <1>4, <2>1, <3>1, <3>2, <3>3
    <3>5. Good(q)'
      BY <2>1, <2>2
    <3>. QED
      BY <3>4, <3>5
  <2>3. CASE event[q].kind # "comment"
    <3>1. PICK c \in Contents(q), s \in Setting :
            /\ Read(q, c) /\ Set(q, s)
            /\ s.key = Apply(q, Settings(q), c).key
            /\ \/ /\ Goto(q, "commands")
                  /\ Admits(event[q].kind, Settings(q), Apply(q, Settings(q), c))
               \/ Goto(q, "done")
      BY <1>7, <2>3, DispatchOK
    <3>2. \A r \in Requests \ {q} : pc'[r] = pc[r]
      BY <3>1 DEF TypeOK, Goto
    <3>3. /\ \A r \in Requests \ {q} : Good(r)'
          /\ read'[q] /\ content'[q] = c /\ Settings(q)' = s /\ c \in SUBSET Keys
      BY <1>5, <2>1, <3>1, <3>2
    <3>4. CASE Goto(q, "done")
      BY <3>3, <3>4 DEF Goto, TypeOK
    <3>5. CASE /\ Goto(q, "commands")
               /\ Admits(event[q].kind, Settings(q), Apply(q, Settings(q), c))
      <4>1. Admitted(event[q].kind, c)
        BY <2>1, <2>3, <3>3, <3>5, AdmitsOK
      <4>2. Admitted(event[q].kind, content[q])'
        BY <1>2, <2>1, <3>3, <4>1 DEF Admitted
      <4>3. \A k \in c : s.key[k] = event[q].pr
        BY <2>1, <3>1, <3>3, ApplyOK
      <4>4. Good(q)'
        BY <2>1, <3>3, <4>2, <4>3
      <4>. QED
        BY <3>3, <4>4
    <3>. QED
      BY <3>1, <3>4, <3>5
  <2>. QED
    BY <2>2, <2>3
<1>8. ASSUME NEW q \in Requests, Command(q) PROVE \A r \in Requests : Good(r)'
  <2>1. pc[q] = "commands" /\ event' = event /\ Settings(q) \in Setting
    BY <1>8, EventTypes DEF Command
  <2>2. PICK c \in Contents(q), s \in Setting :
          /\ Read(q, c) /\ Set(q, s)
          /\ s \in Extracts(q, Configured(q, Settings(q), c))
             \/ s = Configured(q, Settings(q), c)
          /\ Goto(q, "model") \/ pc' = pc
    BY <1>8, CommandOK
  <2>3. \A r \in Requests \ {q} : pc'[r] = pc[r]
    BY <2>2 DEF TypeOK, Goto
  <2>4. /\ \A r \in Requests \ {q} : Good(r)'
        /\ read'[q] /\ content'[q] = c /\ Settings(q)' = s /\ c \in SUBSET Keys
    BY <1>5, <2>1, <2>2, <2>3
  <2>5. ASSUME event[q].kind # "comment"
        PROVE  Good(q)'
    <3>1. Good(q) /\ read[q]
      BY <1>1, <2>1, <2>5
    <3>2. c = content[q]
      BY <2>2, <3>1, ReadOK
    <3>3. Admitted(event[q].kind, content[q])'
      BY <1>2, <2>1, <2>4, <2>5, <3>1, <3>2 DEF Admitted
    <3>4. ASSUME server = "action" PROVE \A k \in c : s.key[k] = event[q].pr
      <4>1. Configured(q, Settings(q), c) = Settings(q)
        BY <2>1, <2>4, <2>5, <3>4, ConfiguredOK
      <4>2. s.key = Settings(q).key
        BY <2>1, <2>2, <4>1, ExtractsOK
      <4>. QED
        BY <2>1, <2>5, <3>1, <3>2, <3>4, <4>2
    <3>. QED
      BY <1>2, <2>1, <2>4, <3>3, <3>4
  <2>6. Good(q)'
    BY <2>1, <2>5
  <2>. QED
    BY <2>4, <2>6
<1>9. ASSUME NEW q \in Requests, Answer(q) \/ Finish(q) PROVE \A r \in Requests : Good(r)'
  <2>1. /\ UNCHANGED <<event, read, content, shared, copied, own>>
        /\ \A r \in Requests : pc'[r] \in {"commands", "model"} => pc[r] \in {"commands", "model"}
    BY <1>9 DEF Answer, Finish, TypeOK, Goto, settings
  <2>2. \A r \in Requests : Settings(r)' = Settings(r)
    BY <2>1 DEF Settings
  <2>. QED
    BY <1>1, <1>2, <2>1, <2>2 DEF Admitted
<1>10. CASE UNCHANGED vars
  <2>1. \A r \in Requests : Settings(r)' = Settings(r)
    BY <1>10 DEF vars, settings, Settings
  <2>. QED
    BY <1>4, <1>10, <2>1 DEF vars, FileInv
<1>. HIDE DEF Good
<1>11. \A r \in Requests : Good(r)'
  BY <1>6, <1>7, <1>8, <1>9, <1>10 DEF Next, Step, Quiescent, Good, FileInv
<1>. QED
  BY <1>11 DEF FileInv, Good

LEMMA IInvStep == IInv /\ [Next]_vars => IInv'
BY TypeStep, CopyStep, OwnStep, FileStep DEF IInv

LEMMA IInvAlways == Spec => []IInv
BY InitIInv, IInvStep, PTL DEF Spec

-----------------------------------------------------------------------------
(***************************************************************************)
(* Every field keeps to its values, for any commands, files and failures.  *)
(***************************************************************************)
THEOREM TypeCorrect == Spec => []TypeOK
<1>1. IInv => TypeOK
  BY DEF IInv
<1>. QED
  BY <1>1, IInvAlways, PTL

(***************************************************************************)
(* On every server that copies the settings, no command ever reads what    *)
(* another request's file, arguments or tickets left, however many         *)
(* requests one process handles and however they interleave.               *)
(***************************************************************************)
THEOREM OwnSettingsKept == Spec => []OwnSettings
<1>1. IInv => OwnSettings
  BY DEF IInv, OwnInv, OwnSettings, Copying, Clean
<1>. QED
  BY <1>1, IInvAlways, PTL

(***************************************************************************)
(* When a tool starts, its repository's file has won over all that earlier *)
(* requests left, on the servers that share the settings too.              *)
(***************************************************************************)
THEOREM FileWins == Spec => FilePrevails
<1>1. ASSUME IInv, Next, NEW q \in Requests, Starts(q) PROVE Command(q)
  <2>1. ASSUME NEW r \in Requests, Step(r), r # q \/ ~Command(r) PROVE FALSE
    BY <1>1, <2>1 DEF IInv, TypeOK, Starts, Step, Receive, Dispatch, Command, Answer,
                      Finish, Goto
  <2>2. ~Quiescent
    BY <1>1 DEF Starts, Quiescent, vars
  <2>. QED
    BY <1>1, <2>1, <2>2 DEF Next
<1>2. ASSUME IInv, [Next]_vars, NEW q \in Requests, Starts(q), NEW k \in content'[q]
      PROVE  \/ Settings(q)'.key[k] = event[q].pr
             \/ /\ k = "knob" /\ event[q].args /\ event[q].kind = "comment"
                /\ server # "bitbucket_server"
                /\ Settings(q)'.key[k] = q
  <2>1. Command(q)
    BY <1>1, <1>2 DEF Starts, vars
  <2>. TypeOK /\ Settings(q) \in Setting
    BY <1>2, EventTypes DEF IInv
  <2>2. PICK c \in Contents(q), s \in Setting :
          /\ Read(q, c) /\ Set(q, s)
          /\ s \in Extracts(q, Configured(q, Settings(q), c))
             \/ s = Configured(q, Settings(q), c)
    BY <2>1, CommandOK
  <2>3. /\ c \in SUBSET Keys /\ content'[q] = c /\ Settings(q)' = s
        /\ read[q] => c = content[q]
    BY <2>2, ReadOK, SetOK
  <2>4. Configured(q, Settings(q), c) \in Setting
    BY <2>3, ConfiguredOK
  <2>5. s.key = Configured(q, Settings(q), c).key
    BY <2>2, <2>4, ExtractsOK
  <2>6. CASE server # "action" \/ event[q].kind = "comment"
    BY <1>2, <2>3, <2>5, <2>6, ConfiguredOK
  <2>7. CASE server = "action" /\ event[q].kind # "comment"
    <3>1. read[q] /\ \A j \in content[q] : Settings(q).key[j] = event[q].pr
      BY <1>2, <2>1, <2>7 DEF IInv, FileInv, Command
    <3>2. Configured(q, Settings(q), c) = Settings(q)
      BY <2>3, <2>7, ConfiguredOK
    <3>. QED
      BY <1>2, <2>3, <2>5, <3>1, <3>2
  <2>. QED
    BY <2>6, <2>7
<1>3. IInv /\ [Next]_vars =>
        [\A q \in Requests : Starts(q) =>
           \A k \in content'[q] :
             \/ Settings(q)'.key[k] = event[q].pr
             \/ /\ k = "knob" /\ event[q].args /\ event[q].kind = "comment"
                /\ server # "bitbucket_server"
                /\ Settings(q)'.key[k] = q]_vars
  BY <1>2
<1>. QED
  BY <1>3, IInvAlways, PTL DEF Spec, FilePrevails

(***************************************************************************)
(* No automatic command starts against the filters of the repository's own *)
(* file, as the request read it, on the servers that look at them.         *)
(***************************************************************************)
THEOREM PermittedOnly == Spec => Permitted
<1>1. ASSUME IInv, Next, NEW q \in Requests, Starts(q), event[q].kind # "comment"
      PROVE  Admitted(event[q].kind, content'[q])
  <2>1. IInv'
    BY <1>1, IInvStep
  <2>2. event'[q] = event[q] /\ server' = server
    BY <1>1 DEF IInv, TypeOK, Next, Step, Quiescent, vars, Starts, Receive, Dispatch,
                Command, Answer, Finish, Goto
  <2>. QED
    BY <1>1, <2>1, <2>2 DEF IInv, FileInv, Starts, Admitted
<1>2. ASSUME IInv, [Next]_vars, NEW q \in Requests, Starts(q), event[q].kind # "comment"
      PROVE  /\ "ignore_title" \in content'[q] =>
                  \/ server \in {"azure", "action"}
                  \/ server = "bitbucket_app" /\ event[q].kind = "push"
             /\ "quiet" \in content'[q] /\ event[q].kind = "opened" =>
                  server = "action"
  <2>1. Next
    BY <1>2 DEF Starts, vars
  <2>2. Admitted(event[q].kind, content'[q])
    BY <1>1, <1>2, <2>1
  <2>. QED
    BY <2>2 DEF Admitted
<1>3. IInv /\ [Next]_vars =>
        [\A q \in Requests : Starts(q) /\ event[q].kind # "comment" =>
           /\ "ignore_title" \in content'[q] =>
                \/ server \in {"azure", "action"}
                \/ server = "bitbucket_app" /\ event[q].kind = "push"
           /\ "quiet" \in content'[q] /\ event[q].kind = "opened" =>
                server = "action"]_vars
  BY <1>2
<1>. QED
  BY <1>3, IInvAlways, PTL DEF Spec, Permitted
=============================================================================
