# PR-Insight in TLA+

PR-Insight reviews pull requests: a webhook, a comment or a command line starts
a command (`/review`, `/describe`, `/improve`, ...), the command reads the pull
request through a git provider, calls a language model and publishes what the
model answered as comments, labels and descriptions. This directory holds TLA+
models of the parts of the program whose behaviour depends on order: tasks that
share a counter, requests that share the comments of a pull request or the
settings of a process, calls that are retried, calls that fail half way.

All paths below are relative to `src/pr_insight/` unless they begin with `src/`.
`PROJECT.json` has the line of the source each definition stands for, the runs,
the mutants, the hazards and the findings in machine-readable form.

## 1. The system

### How the parts interact

    webhook / comment / CLI
          |
     servers/*  ----(copy of the settings, on most servers)--------+
          |   github_app: push trigger, one counter per worker     |
     agent/pr_insight.py   parses the command, applies settings <--+
          |
     tools/*   constructor: reads the pull request
          |    run(): model call, then publication
          +--> algo/pr_processing: packs the diff, tries the models in order
          |       +--> algo/ai_handlers/litellm: one call, with retries
          +--> git_providers/*: comments, labels, files, one HTTP call each

All tasks of a gunicorn worker share one asyncio event loop. The calls to the
model are awaited; the calls to GitHub (PyGithub) and to the other services block. A
task therefore keeps the loop from one await to the next, which makes everything between two awaits
atomic within a worker, and nothing atomic between workers (the app starts
`cpu_count()*2+1` of them) or towards people who push, comment and label.

### Inventory

| Component | State it keeps | Operations | What is hard about it | What makes it correct |
|---|---|---|---|---|
| Push trigger (`servers/github_app.py:145-206`) | a counter and a condition per pull request, in each worker | claim, wait as a delegate, discard, run the push commands, notify and give back | tasks interleave at every await; commands raise; gunicorn kills workers | one task at a time, exact counter, no lost wakeup, a discarded push is covered |
| Webhooks for comments and opened pull requests (`servers/*.py`) | a copy of the settings per request, or none | run the agent on the command(s) | settings leak from one command to the next, or from one request to another | each command reads its own settings; ignored pull requests stay alone |
| Dictionary with timeout (`servers/utils.py`) | key times, values | get, set, delete, refresh | the comparison of the refresh is inverted: nothing expires | no key that is in use expires |
| Agent (`agent/pr_insight.py`) | none | parse, forbid arguments, apply repository settings, construct the tool, run it | catches every exception | exactly one tool runs; a failure is reported |
| Review (`tools/pr_reviewer.py`) | the commits, files and previous review it read | construct, skip, prepare, predict, label, publish, clean | snapshots are used after a model call; each HTTP call may fail | one persistent review, never set back; every commit shown; one effort label; nothing left behind |
| Improve (`tools/pr_code_suggestions.py`) | progress comment; comment with the history of suggestions | chunk calls and reflections (concurrent), merge into history, trim, recover | edit of one comment, then deletion of another; text surgery on earlier comments | no suggestion lost or shown twice; bounded history; no progress comment left |
| Describe (`tools/pr_description.py`) | title, body, labels of the pull request | extract the author's text, generate, publish | its output is its input next time; people edit in between | the author's text survives any number of runs |
| Model calls (`algo/pr_processing.py:320-369`, `algo/ai_handlers/litellm_ai_handler.py`) | `openai.deployment_id` in the settings | try the models in order, retry, give up | coroutines of a failed round go on running; shared deployment | the first model that works answers; calls name the deployment of the model that is tried; the command ends |
| Diff packing (`algo/pr_processing.py`, `token_handler.py`) | none (pure) | compress, split, list the omitted files | thresholds | every file is sent, kept for the next call, or listed |
| Patch processing (`algo/git_patch_processing.py`) | none (pure) | extend, omit deletions, number lines, move comments into hunks | line arithmetic at the ends of a file | ranges stay inside hunks, headers agree with bodies |
| Provider contract (`git_providers/git_provider.py`) | the provider's cached files and comments | persistent comment, user description | check-then-act over HTTP | one comment per header |
| GitHub provider (`git_providers/github_provider*.py`) | commits, files, comments listed at construction | comments, inline comments, labels, incremental range | failures swallowed; snapshots | see Review, Improve |
| Other providers (`gitlab`, `gitea`, `azuredevops`, `bitbucket`, `bitbucket_server`, `codecommit`, `gerrit`, `local`) | the pull request as read at construction; files of the diff | the operations of `GitProvider`, each with calls of its own | the same contract with different calls, orders and error handling | one review; each suggestion published once; nothing of a person's overwritten; the diff is the pull request's |
| Other tools (`/generate_labels`, `/ask`, `/ask_line`, `/add_docs`, `/update_changelog`, `/config`, `/help`, `/help_docs`) | what they read | read, ask the model, publish | a person acts between read and write; temporary comments | nothing of a person's overwritten; nothing left behind |
| Similar issues (`tools/pr_similar_issue.py`) | one vector database for all repositories | create, index, bring up to date, query | commands overlap; the index is brought up to date only down to the first known issue | no issue is skipped; answers are of the own repository |
| Settings (`config_loader.py`, `git_providers/utils.py`) | a global Dynaconf object; a copy per request | apply repository settings, update from arguments | the order differs between servers; some do not copy | no request sees another's settings |
| Tickets (`tools/ticket_pr_compliance_check.py`) | tickets in the settings | extract once | kept where the settings are kept | a pull request is compared with its own tickets |
| Polling server (`servers/github_polling.py`) | handled ids, a queue | poll, mark, start processes | the same comment seen twice; more than the limit | each command once, at most ten at a time |
| Entry points, model handlers, secrets, parsing of answers, editor extension | little or none | | | see `components` in `PROJECT.json` |

## 2. The models

| Module | Models | Kind |
|---|---|---|
| `PushTrigger` | the GitHub app's push trigger | detailed specification |
| `PushCoalescing` | what the push trigger promises per pull request, without tasks or counters | abstract specification |
| `PushTriggerProofs` | six theorems about `PushTrigger`, among them that it implements `PushCoalescing` | proofs |
| `ReviewSession` | `/review` and `/review -i` on the comments, commits and labels of one GitHub pull request | detailed specification |
| `ReviewSessionProofs` | seven theorems about `ReviewSession` | proofs |
| `ImproveSession` | `/improve` on the comments of one GitHub pull request | detailed specification |
| `ImproveSessionProofs` | five theorems about `ImproveSession` | proofs |
| `ModelFallback` | fallback models, retries and concurrent chunks in the commands of one request | detailed specification |
| `DiffPacking` | which files' patches go into which prompt, under the token budget | detailed specification |
| `PrProcessingProofs` | six theorems about `DiffPacking` and three about `ModelFallback`, the two halves of `pr_processing.py` | proofs |
| `RequestSettings` | whose settings the commands of a request run under, on eight servers | detailed specification |
| `RequestSettingsProofs` | four theorems about `RequestSettings` | proofs |
| `ToolSessions` | the tools other than `/review` and `/improve` (an automatic `/describe` counted apart) on the description, labels, changelog and comments of one GitHub pull request | detailed specification |
| `ToolSessionsProofs` | four theorems about `ToolSessions` | proofs |
| `IssueIndex` | the vector database behind `/similar_issue` and the commands that share it | detailed specification |
| `IssueIndexProofs` | three theorems about `IssueIndex` | proofs |
| `DiffReading` | how eight providers read the diff of a pull request, and what is left when a call fails | operators |
| `Providers` | `/review`, `/describe` and `/improve` through eight providers; extends `DiffReading` | detailed specification |
| `ProvidersProofs` | six theorems about `Providers`, with lemmas about `DiffReading` | proofs |
| `MCPushTrigger`, `MCReviewSession`, `MCImproveSession`, `MCToolSessions`, `MCIssueIndex` | instances for TLC: they add the order in which alike requests begin, and bounds | model checking |
| `MCDiffPacking`, `MCProviders` | instances for TLC: the looks a file may have; the changes of a pull request | model checking |

A definition called "Mutant of X" is a plausible slip in X. Nothing uses it; put
in X's place it breaks the property it is listed with in `PROJECT.json`, which
shows that the property can fail at the bounds of its run.

### PushTrigger

One action is what the event loop runs between two suspension points. `pc[e]`
is where the task of webhook `e` is:

    idle -Push-> sent -Claim-> ready -StartCommand-> running -EndCommand-> ready ... -Release-> finished
                  |     \-> waiting -(another task's Release)-> notified -Resume-> ready
                  |-Ignore-> ignored      \-Crash-> crashed
                  \-Discard-> discarded

`duplicate_push_triggers` is the dictionary of that name. The `asyncio.Condition`
is not a variable: its lock is always free when it is taken, since no body of
`async with` suspends except in `wait()`, and its wait set is the set of tasks
in `waiting`. `head`, `after`, `resumed` and `diff` count pushes: how many there
were, which one a webhook stands for, and the head when a task was let through
and when it first listed the pull request's files (`context["git_files"]`, never
refreshed in a request). What the repository's settings and the sender make of
a webhook is its `body`: turned down before the slot is claimed ("ignored"), or
only after ("filtered").

`PushCoalescing` states the promise: one run at a time, at most one more owed,
and a run begins with the head of the moment it begins. The mapping takes the
task that owns the slot for the run and the waiting delegate for the debt.

### ReviewSession

One action is one HTTP call with what precedes it: `Open` (list the commits),
`List` (find the previous review, compute the incremental range), `Skip`,
`Prepare` (temporary comment), `Predict` (the model's answer), `ReadLabels`,
`WriteLabels`, `Withhold`, `Find` / `Edit` / `Announce` / `Create` (the persistent
comment), `Clean`. Each call has a disjunct in which it fails and the code's
reaction to it: an exception that ends the request, an answer of "none", a log
entry, or the fallback to another call. `loop[w]` is the task that keeps the event
loop of worker `w`; only `Predict` is preceded by giving it up. A comment records
whose review it is, which commits it shows and which one its header names.
`clock` gives the author dates and creation times that `get_commit_range` compares. It
walks back from the newest commit to the first whose author date is not after the previous
review (`github_provider_diff.py:52-62`), so one commit that was authored early ends the
walk and hides the later-dated ones behind it; `Covered` has that as an exception.

### ImproveSession

The same conventions. A comment's body is its kind, its latest section and the
sections of its history. `List` takes the snapshot of all comments that
`publish_persistent_comment_with_history` walks; `Refill`, `Merge` and
`PublishNew` are the three things it does with what it finds, `RemoveOld` is the
deletion that follows a merge into the progress comment, `Recover` the handler of
exceptions. A section knows whether it names its commit, since trimming looks
for the last one that does.

### ModelFallback

Its specification is `CallsSpec` (`CallsInit`, `CallsNext`), so that one proof module can extend it and
`DiffPacking`. `LoopStep` is `retry_with_fallback_models`, `TaskStep(t)` the coroutine of chunk
`t` with the retries of `chat_completion` and the call that reflects on the
suggestions. `asyncio.gather` raises with the first chunk that fails and leaves
the others running, so tasks are indexed by command, model and chunk, and those of
earlier rounds go on. `deployment` is the setting that calls read when they begin.
Of a chunk that is over only its outcome is kept (`NoCall`).

### DiffPacking

A sequential algorithm, one action per turn of its loops. `pc` says which loop runs:

    extending -EndExtend-> done                    the whole diff fits
        |-> packing -EndRound-> listing -List-> done      one prompt, others named
        |      ^  |______________/  |
        |      |____(again)_________|              /describe: several prompts after all
        |-> filling -EndFill-> done                /improve: several prompts at once

`Extend`, `Pack` and `Fill` take the loops' next file, `EndExtend`, `EndRound` and
`EndFill` are what follows them, `List` names the files that are not shown. `Start` begins a
packing; `again` marks the second one of `/describe`, which counts from the prompt it
has for several calls (`BasePrompt`). `todo`, `patches`, `left` and `skipped` are the
code's lists of files at any moment, `prompts` the prompts that are complete.

What a patch says is abstracted to its tokens: as extended, as pruned, and for the
line that names the file (`Shapes`). That line is a quirk of the code the model keeps: it is
added to the count after the comparison with the limit. `Extend` takes files in the
provider's order; they are only summed, so the code's order by language makes no
difference there, while `Before` is that order for the other two loops, where it does.
`clip_tokens` is nondeterministic, both for a patch (`ClipTokens`) and for a list of
names, which it may cut anywhere.

### RequestSettings

A value of a setting is modelled by its origin: the default, the file of a
repository (`.pr_insight.toml`), or the arguments of a request. `shared` is
`global_settings`, `own[q]` the copy in the `starlette_context` of request `q`,
`copied[q]` whether there is one; `PerProcess` are the two servers that never make
one. `Receive` is the webhook's handler, `Dispatch` the beginning of the background task
with its checks, `Command` the next command of the request up to its model call,
`Answer` what follows that call. `loop` is the request that keeps the event loop: it
is given up at the model call only, so requests interleave there.

`Configured` is the order in which file and arguments are applied. It differs between
servers and between typed and automatic commands, and where the file comes last it
wins over the arguments of the configured command. `Admits` selects the server's own
conditions for automatic commands. A read of the repository's file that fails is
kept like a file that sets nothing (`Contents`). What is not a setting and may stop a
request (a bot, a draft, a sender) is the second disjunct of `Dispatch`.

### ToolSessions

A tool is the list of calls it makes to GitHub: `Prologue` until the model answers,
`Epilogue` afterwards, chosen by the answer. `todo[t]` holds what is left of the list, with
"think" for the model; a call with a question mark is one whose failure is only logged,
any other ends the command (`GiveUp`). Between any two calls a person may rewrite
the title or the description, put a label, or add an entry to the changelog. The answer
of the model is usable, without results, empty, or of another form than the tool expects
(`Outcomes`); three commands raise on the last (`Raises`), and end where they are. A
description is a sequence of blocks, so that `UserDescription` is the code's search
for its own headings in the text that it will write back.

`people` is a history variable: what people wrote. Where the code's own reading was
already out of date when it wrote (`stale`), what it overwrote is taken out of
`people`. The invariants then say that this is the only way to lose a person's work.

### IssueIndex

The index is one collection for all repositories. `Construct`, `Create`, `List`, `Walk`, `Index`
and `Query` are the steps of a command between its calls. `Walk` goes back from the newest
issue to the first that is in the index; `Index` stores the records of the new ones, of
which the scan's limit may drop the oldest. The identifier of a record names the issue and the
comment and not the repository, so two repositories overwrite one another's records;
`excused` remembers what went missing this way or through the limit.

### DiffReading and Providers

`DiffReading` has one operator per provider, `ReadGitlab` to `ReadLocal`, from the changes of
the pull request and the set of calls that fail to the entries that `get_diff_files` returns,
those the provider keeps for its next reading, and whether it raised. A patch is a set
of lines, each with the file it is from, so that a patch under another file's name
is a different value. `ReadCalls` lists the calls of each reading whose failure makes a
difference. What is read change after change (Gitea's diff of the whole pull request, the places of
Bitbucket's parts, Bitbucket Server's two variables) is a recursive function over the numbers of the
changes. `ChangesAssumption` says of the changes what git guarantees: a file changes once, no
other path begins with a submodule's, and an added file has only added lines, a
deleted one only removed lines.

`Providers` composes it with the commands. `todo[s]` is the list of calls as in
`ToolSessions`. A call is answered, refused, or carried out without an answer ("lost", a
timeout); `Except(s)` is the tool's handler of the exception that follows, if the provider
lets it through. Each operation has one definition per service: `GetLabelsGitlab`,
`SuggestBitbucket`, `DescribeCodecommit` and so on. `/improve` publishes committable
suggestions here and retries them one by one (the table of suggestions is in
`ImproveSession`). `NextModel` is the fallback, which reads the diff again; after the last model, and
when `/review` or `/describe` cannot handle what a model answered, the command goes on with its
handler (`GiveUp`). Where a provider reads or applies something on its own before a call, as Gerrit's does
with every suggestion (`UploadGerrit`), that may raise without a call having failed.

## 3. What is checked

### Passing runs

- **PushTrigger** (4 pushes, 1 worker, 1 crash, every body and backlog setting for
  the `Odd` events):
  `TypeOK`; `MutualExclusion`; `CounterExact`, the counter is the number of tasks
  that hold or await the slot; `NoLostWakeup`; `DelegateCovers`, a discarded push
  is accounted for by a delegate that lists the files later; `EveryPushEnds`
  (liveness); `ImplementsCoalescing` (refinement). Four pushes are what it takes
  for an owner, a delegate, a discarded push and one that comes after them; one
  crash leaves a fresh counter with old webhooks around it. A second pull request
  would be independent: nothing is shared between slots.
- **ReviewSession** (3 requests, two at a time, 1 worker, 1 push, 1 failed call):
  `OneReview`, `OneEffortLabel`, `NoLitter`, `NothingMissed`, and the action
  properties `NoStaleOverwrite` and `AnnouncementsTrue`. Three requests let two
  race over what the third published or will find. One push before, between or
  during them separates every snapshot from the present. One failure reaches every
  error path. With one push no commit can hide another by its author date; that
  `NothingMissed` holds with any number of pushes is the theorem `NothingMissedHolds`.
- **ImproveSession** (5 requests, two at a time, 1 worker, histories of 2, 1 failed
  call): `NothingLost`, `NewestFirst`, `HistoryBound`, `ProgressEnds`. A history of
  two is full after three tables, and a fifth request trims one whose oldest
  section does not name its commit.
- **ModelFallback** (3 models, 2 chunks, 1 command, 2 attempts per call):
  `FirstThatWorks`, `RoundPaired`, `CommandsEnd` (liveness). Three models are the
  first, the fallback that also reflects, and one that does neither; with two
  chunks one can outlive the round that the other failed, and two rounds. `RoundPaired` names one
  exception, which only a third model brings about: suggestions of that model are
  reflected on by the first, under the third's deployment.
- **DiffPacking** (4 files of 7 looks in 2 languages, thresholds 6 and 3 of 24 tokens,
  at most 3 rounds for `/describe` and 2 calls for `/improve`): `WithinBudget`;
  `ShownOnce`, no file is shown in two prompts; `NothingVanishes`, each is shown, kept or
  skipped for a reason; `NoRoomWasted`, a file is put off only if it does not fit;
  `CallsUsed`. The looks include a file that no prompt can hold, one whose
  name alone takes more than the distance between the thresholds, one that is only
  deletions and one without a patch; the prompts leave room for two or three files,
  for fewer, or for none. Four files of these looks fill two prompts and leave some
  for a third, and use up all the calls.
- **RequestSettings** (2 requests for 2 repositories, each of the 8 servers, 5 repository
  files, 2 automatic commands, 1 file that cannot be read): `OwnSettings`, on the servers
  that copy no request reads another's values or tickets and a typed command is not run
  as an automatic one; `FilePrevails`, a repository's file wins over whatever earlier
  requests left; `Permitted`, automatic commands respect the repository's own filters,
  with the servers named that do not look. Two requests are what it takes for one to
  leave something for the other, two commands for one to leave something for the next.
- **ToolSessions** (2 commands of any two of 10 tools, 4 descriptions, 2 deployments, 1
  change by a person, 1 failed call): `AuthorsText`, the author's description and title survive,
  with one generated part; `OthersWork`, labels and changelog entries of people's
  survive; `NoLitter`, which names the commands that leave "Preparing ..." behind when they come to no
  result because of the model's answer. The second command reads what the first wrote, and the person acts
  before, between or after any of their calls.
- **IssueIndex** (2 repositories, 3 commands, two at a time, at most 3 issues each, scans of
  fewer than 3, 2 results, 1 failed call): `NoGaps`, the index of a repository has no hole below
  an issue that it knows; `OwnAnswers`. Three commands index, bring up to date and overlap;
  two repositories share the identifiers.
- **Providers** (2 commands of 3 tools, 8 services, 2 suggestions of which one has lines outside
  the diff, 6 changes, 2 models, 1 change by a person, 2 failed calls): `OneReview`, `SuggestionsOnce`,
  `OthersWork`, `NoLitter`, `TrueDiff`. The changes are one ignored, one large, one renamed, one
  deleted, one that moves a submodule and one invalid file. Two failures are a call
  and its retry, and Bitbucket's diff both times.

The type invariants that the runs check are those of `PushTrigger`, `ImproveSession` and
`DiffPacking`, and these are also proved. Those of `RequestSettings`, `ReviewSession`,
`ModelFallback`, `IssueIndex` and `ToolSessions` are proved, and so is that of `Providers`, which is
stated in its proof module.

Where a property of the last four runs names exceptions (a service, an answer, a change of
a person's while a command was under way), these are what the code does wrong or documents
as a race. None is there without need: with any one of them left out, TLC finds
the property violated at the same bounds.

### Runs that show a disagreement

Each violates one statement of the repository's documentation or comments; the
findings in `PROJECT.json` quote them.

| Run | Statement | What happens |
|---|---|---|
| `PushFiltered` | a discarded push would trigger the exact same processing | the delegate's sender is turned down after the push was discarded for it |
| `ReviewSkipped` | no files were changed since the previous review | a commit pushed while that review waited for the model is shown by none |
| `PartialDiff` | the provider returns the files that were modified | on CodeCommit the files read before a failed call are kept, and shown to the next model as if they were all |

Further disagreements that are in the models, as exceptions in properties or in comments at
the definitions, or that reading the code showed:

- the push counter is kept per worker (`github_app.py:77`), so a second push that reaches
  another worker does not wait; for the same reason two workers may publish two reviews, as
  neither sees the other's before it lists;
- the deployment of a fallback model stays in the settings for the next command; and from the
  third model on `/improve` reflects with the first model while the settings have the deployment of
  the model that is tried (`pr_code_suggestions.py:403-411`), in `RoundPaired`;
- `/describe` and `/generate_labels` leave "Preparing ..." behind when the answer loads as a text and
  not as a mapping (`pr_description.py:450`, 565, then 197-199; `pr_generate_labels.py:163-164`), and
  `/generate_labels` and `/add_docs` when they return early on an answer without content, in `NoLitter`;
- on Gerrit a suggestion for a file that the clone does not have raises before the comment that
  links to the patches, so that none is published (`gerrit_provider.py:138-147`, 347-361), in
  `SuggestionsOnce`;
- `/improve` fills a comment without suggestions and then publishes the same table again;
- deleted files leave the loop that packs the diff before the table is filled from which the
  prompt would list them;
- Gitea's provider reports no success for suggestions, so all are published twice
  (`gitea_provider.py:328-345`), and it keeps only the last hunk of a file (141-145);
- renamed files lose their patch on Bitbucket, take another file's on Bitbucket Server and
  are shown as new on Azure DevOps; CodeCommit drops deleted files;
- identifiers in the index of issues do not name the repository (`pr_similar_issue.py:676`); with
  pinecone or lancedb the command always fails; and `openai.Embedding`, which embeds the
  issues, is gone from the versions of `openai` that `requirements.txt` asks for;
- the arguments of automatic commands are overridden by the repository's file, and on the
  servers of Azure DevOps and Bitbucket Server settings and tickets stay for all requests.

### Bounds

`MaxCrashes`, `MaxPushes`, `MaxEdits`, `MaxFailures` and `NumCommands` (in
`ModelFallback`) cap what the environment does; `MaxNumber` and `MaxComments` the issues of a
repository and their comments in `IssueIndex`. `ReadFailures` lets one call of a reading
of the diff fail, or Bitbucket's diff both times it is asked for. `MaxActive` in the MC
modules caps the requests that are handled at one time. `MCProviders` declares the commands
symmetric; no definition tells them apart. The MC modules let requests begin in the order of their
numbers: the requests are alike, so this leaves out no behaviour but renamings.
`MCPushTrigger` numbers the events in the order of their pushes (the webhooks still
arrive in any order) and varies what a webhook says, and the backlog setting, for
the `Odd` events only; the others are plain pushes under the default settings. This
does leave out behaviours, those in which more webhooks than `Odd` are out of the
ordinary; the theorems of section 4 cover them for the safety properties.

### Fairness

- `PushTrigger!FairSpec`: weak fairness of each task's next step. A webhook that
  GitHub sent arrives, the event loop runs every task that can go on, and a
  command ends because the HTTP and model calls have timeouts (`config.ai_timeout`,
  120 s). A task in `waiting` has no step of its own: that it ends is what the
  other tasks' `Release` must bring about. Pushes and crashes have no fairness.
- `ModelFallback!FairSpec`: the same for the loop and for each chunk's coroutine.
- The other modules state no fairness; their properties are about safety.

## 4. What is proved

Every theorem holds for every value of the constants that the named assumption
of its module allows, and for `Spec`, so without any fairness. Four theorems are
about one worker and assume `OneWorker`, that the set of workers has one element: the
code keeps its counters and its event loop per process, and with two workers TLC finds what they
say violated (see the list of disagreements above). No other theorem needs it.

### PushTriggerProofs (from `PushTriggerAssumption`)

`TypeCorrect`, `Exclusion` (`MutualExclusion`), `CounterCorrect` (`CounterExact`),
`WakeupSafe` (`NoLostWakeup`) and `DelegateCorrect` (`DelegateCovers`), for any number
of workers, pull requests, pushes, commands and crashes.

The code decides on the counter alone: it lets a task through at 0, makes it wait
or discards it at 1 and 2, and wakes a waiter without looking who waits. None of
the properties is inductive, because the counter says nothing of the tasks. The
invariant `IInv` adds what ties them together:

- `SlotInv`: of the tasks of a slot at most one owns it and at most one waits for it;
  with the counter at 0 there is neither, at 1 an owner only, at 2 both. `Claim` adds
  the owner or the waiter and increments; `Release` takes the owner away, makes an
  owner of the waiter if there is one, and decrements.
- `HeadInv`: no webhook is newer than the head, and a task that has not been let
  through has listed no files. `DelegateCovers` compares these numbers.
- `CommandInv`: a task that runs a command has commands left.

`IInvStep` has one case per action. `MutualExclusion` and `NoLostWakeup` follow from
`SlotInv`; `CounterExact` needs the cardinality of the set of tasks of a slot, which
is empty, a singleton or a pair in the three cases.

`CoalescingImplemented` (`ImplementsCoalescing`, with `OneWorker`) is the refinement, from
`Spec` without its fairness. `PhaseInv` follows from `SlotInv` and reads the phase of a pull request off
its tasks: active while one is let through, queued while a notified one awaits its turn. `RunInv` says that
no run began with a head that is yet to come and that one of a pull request's runs is the
latest, which is what the mapping of `from` takes the maximum for. Then each action has its image:
`Push` is `Push`; `Claim` is `Begin`, `Owe` or a stutter, depending on the counter; `Resume` is
`Begin`; `Release` is `End`; `Crash` is `Crash`; the rest stutter.

### ImproveSessionProofs (from `ImproveSessionAssumption`)

`TypeCorrect` (`TypeOK`), `HistoryBounded` (`HistoryBound`), `ProgressRemoved`
(`ProgressEnds`) and `NewestFirstHolds` (`NewestFirst`), for any number of requests, workers
and failures and any length of the history, and `NothingLostHolds` (`NothingLost`) with
`OneWorker`.

- The length of a history is not inductive. The code looks for the last section that
  names its commit and cuts there, so it drops one section or two, or none if no
  section but the newest names one. `Bodies` therefore holds the form of a body: only
  the oldest section may be unlabelled. Lemma `TrimmedOK` shows that a full history
  of this form has room after trimming, and `OlderOK` that a merge makes a history of
  the form again. This is where `MaxHistory >= 2` is used.
- `ProgressInv` says that a task that has not ended knows its own progress comment,
  and that one which has ended, or is about to delete a merged comment, was refused
  a call or has replaced it. Each error path of the code has its case.
- `LoopInv` ties a worker's event loop to the task that does not await, `BoundInv`
  the snapshot and the walk over it to the comments there are.
- `Least` and `Greatest` (from the well-foundedness of `<` on the naturals) are what the
  walk's and the trimming's choice of a comment or a section rest on.
- `OrderInv`, for `NewestFirst`: the order is that in which tables were published, for the
  comments that are there and for the snapshots of every task, which may be stale. A task that
  has not published its table appears in no comment and no snapshot, so putting it on top
  of whatever the task read keeps the order.
- `KeepInv`, for `NothingLost`, is three statements. `OwnInv`: the progress comment that a task is to
  write to is live and its own. `SnapshotInv`: what a task has yet to walk is still as it was
  listed, and a comment that is about to be deleted has its tables in another one, unless the
  edit was refused. Both rest on there being one event loop, which the walk never gives up. `KeptInv`:
  every table that was published is in a live comment, dropped by trimming, or lost that way.

### ReviewSessionProofs (from `ReviewSessionAssumption`)

`TypesHold` (`TypeOK`), `OneEffortLabelHolds`, `NoLitterHolds`, `NothingMissedHolds` and
`NoStaleOverwriteHolds`, for any number of requests, workers, pushes and failures;
`OneReviewHolds` and `AnnouncementsTrueHolds` with `OneWorker`. They are all the
properties that the run checks. Each has its part in `IInv`:

- `LabelInv` is `OneEffortLabel` as it is: a write replaces all labels and keeps, of what the task
  read earlier, none but the effort label it adds. Reading stale labels cannot break it.
- `TemporaryInv`: a temporary comment is the one that its task remembers, and the task is on
  its way to delete it, gave up, or was refused the deletion.
- `TargetInv`: the comment that a task edits or announces is a review and stays one.
- `ShowsInv`, for `NoStaleOverwrite`: a review shows what its last editor saw, and a full review saw
  everything that those which ended before it began saw.
- `CoverInv`, for `NothingMissed`: the commits that were pushed before a review was published are
  covered. The incremental range leaves out just what is older than the previous review, so a
  task that is to publish shows every commit or knows it to be covered.
- `ReviewInv`, for the two theorems about one worker: a task creates a review only after it found none, or
  could not look, and nothing else ran in between.

The proof of `NothingMissed` showed that an earlier form, in which an early author date excused only its
own commit, was false with two pushes; `Covered` now has what the code does.

### PrProcessingProofs: fallback and retries (from `ModelFallbackAssumption`)

`CallsTypeCorrect` (`CallsTypeOK`), `FirstThatWorksHolds` (`FirstThatWorks`) and `RoundPairedHolds`
(`RoundPaired`), for any number of models, chunks, attempts and commands, with or without
deployments.

- The types alone are not inductive: a coroutine that is to retry must have an attempt left and
  an error that is retried (`RetryInv`), or its count of attempts could pass the limit.
- `DeploymentInv`: the setting is that of the round, and the deployments of a command are those
  configured but for the first one of a later command, which is whatever was left there.
- `ModelInv`: a call of the present round is of the model that is tried, or it reflects and is of
  the one that reflections call, which is another only from the third model on.
- `RoundInv`: a call of the present round that is under way read the setting as it is. Coroutines
  of earlier rounds only read it, so they cannot disturb it.
- `AnswerInv`: every model before the one that is tried has a chunk that failed, and a failed
  coroutine stays one.

### IssueIndexProofs (from `IssueIndexAssumption`)

`TypesHold` (`TypeOK`), `NoGapsHolds` (`NoGaps`) and `OwnAnswersHolds` (`OwnAnswers`), for any
repositories, any number of commands, issues and comments, and without the order in which
the run lets commands begin.

`NoGaps` speaks of the index when no command is about to write; between the walk and the writing
other commands may index the same issues, newer ones, or another repository's with the same identifiers.
`CommandInv` carries the promise through: what a walk has passed it has taken up (`WalkOK`), and when
it is to index, each older issue is taken up too, is in the index, or is excused
(`IndexOK`). Since nothing but an overwriting, which excuses it, removes a record, no other command's
step can break this. `RecordInv` gives `OwnAnswers`: a record names a repository only if the
issue is one of its own.

### ProvidersProofs (from `ProvidersAssumption` and `ChangesAssumption`)

`TypesHold` (the module's `TypeOK`), `OneReviewHolds`, `SuggestionsOnceHolds`,
`OthersWorkHolds`, `NoLitterHolds` and `TrueDiffHolds`, for any subsets of the services and tools, any commands, suggestions,
labels, changes of the diff, fallback models, people's changes and failed calls.

The commands are lists of calls, so the first part of the module says which calls a list holds
(`Names`, `Later`) and what each step makes of it (the lemmas called `...Effect`): it continues, or it
failed and goes on with the handler of the exception, or another call takes the place of one. The
effects are proved once, service by service, and the properties use nothing else of the steps.

- `WorkInv`, for `OthersWork`: what a command read of people's labels and text is theirs but for
  what they did since it started; on Bitbucket Server, if the version is the one that was read then so is
  the text. `CourseInv` is needed with it: only `/describe` writes the text, and only CodeCommit's in two calls.
- `ReviewInv`, for `OneReview`: when the next call publishes a review, the list had none, or a call failed for
  it. The bound is a cardinality, so the reviews are shown to be finite.
- `PostInv`, for `SuggestionsOnce`: `Room` says of a command's remaining calls that each attempt which is still
  to be made leaves room for itself in the bound, that no two of them are the same, and that
  a proper suggestion which is not published yet has its attempt. This covers the batch, the retry one
  by one, GitLab's notes and Gerrit's patches alike. On Gerrit the call that links to the patches comes after all
  uploads (`Ordered`), so an upload that raises leaves none published (`Abandoned`).
- `LitterInv` and `PrepareInv`, for `NoLitter`: while no call failed, a comment that announces work is the one
  its command knows, and among the command's calls is one that deletes or rewrites it or leads to
  such a call, except in the three cases that the property names (`Forgotten`).

`TrueDiff` needs first what a single reading is worth. Lemma `ReadingTrue` says it for any changes and any set of
failed calls: a reading that did not raise has the patch of each file that no failed call concerns, but for
what the property names (`AsItIs`). It rests on one lemma per provider, `GitlabReads` to
`EverythingReads`. Three of these are about recursive functions over the changes. Lemma `Recursion` shows, for a
first value and a step that are given as a set and a function and not as operators,
that such a function exists, and `Numbers` is the induction on the number of changes. So `GiteaReads` follows
the taking apart of the diff line by line, `BitbucketReads` shows that the parts and the files that are not ignored
stay at the same places, and `BitbucketServerReads` that the two variables are set anew at every file that is not renamed.

- `ThinkInv`: no call stands between the reading of the diff and the model. Nothing else may
  therefore change what the model is about to be shown.
- `DiffInv`: what a command will show the model is true of the files, and so is what its provider keeps.
  The property alone says nothing of the second, which becomes the next model's diff without another
  call (`ReadingEnds`, `NextModelDiff`). On CodeCommit a reading that raised keeps the files before the failed one;
  that this is missing from the next model's diff is the case which `Mistaken` names, and
  the finding of `PartialDiff`.

### PrProcessingProofs: packing (from `DiffPackingAssumption`)

`TypeCorrect` (`TypeOK`), `BudgetKept` (`WithinBudget`), `NoneTwice` (`ShownOnce`),
`RoomUsed` (`NoRoomWasted`), `AllAccounted` (`NothingVanishes`) and `CallsSpent`
(`CallsUsed`), for any finite set of files, any tokens and any thresholds of which the
soft one is not below the hard one. They are all the invariants that the run checks.

The properties speak of complete prompts, or of the end; the conjuncts of `IInv` say
what the loops keep true on the way:

- `ModeInv`: which loop runs for which command, so that the limits of one are not
  claimed of another.
- `BudgetInv`: the prompt that is being packed exceeds the soft limit by no more than
  one of its headers. A patch is added only below the limit; once a header has exceeded
  it, nothing more fits, so no second header is added (lemma `PackStep`).
- `RoomInv`: what was put off did not fit then, and the total only grows.
- `AccountInv` and `DisjointInv`: every file is in `todo`, `patches`, `left`, `skipped`
  or a prompt, and those that can be shown are in no more than one. A
  file is skipped only past the hard limit, which a prompt reaches by itself or by one
  long header; that is the reason `NothingVanishes` gives.
- `CallInv`: in the loop of `/improve` the calls used are the prompts packed, and
  after the last there is nothing left to do.

`Appended` and `RoundPrompt` say what a new prompt changes in these statements about
all prompts.

### RequestSettingsProofs (from `RequestSettingsAssumption`)

`TypeCorrect` (`TypeOK`), `OwnSettingsKept` (`OwnSettings`), `FileWins` (`FilePrevails`)
and `PermittedOnly` (`Permitted`), for any number of pull requests, requests and commands, any
files and any failures to read them. They are all the properties that the run checks, and
the type invariant of the module. `FileWins` and `PermittedOnly` are about steps.

- `CopyInv`: on a server that copies, the process's settings are still the defaults, because
  every request has its copy before it writes. `OwnSettings` is not inductive without it:
  a copy is clean only if what it was taken from was. Lemma `OthersKept` is the frame: a
  write then changes what no other request reads.
- `OwnInv` says of every request under way what `OwnSettings` says of one at its model call.
- `FileInv` carries the verdict on the automatic commands from `Dispatch`, where it is given, to
  `Command`, where the tool starts: the file stays as it was read. For the action, whose tools
  run without the agent, it also carries the file's values.
- `ConfiguredOK` goes through the orders in which servers apply the file and the
  arguments, `AdmitsOK` through their conditions.

### ToolSessionsProofs (from `ToolSessionsAssumption`)

`TypesHold` (`TypeOK`), `OthersWorkHolds` (`OthersWork`), `NoLitterHolds` (`NoLitter`) and
`AuthorsTextHolds` (`AuthorsText`), for any number of commands of the nine tools, any texts, labels
and deployments, and any changes by people and failed calls, without the order in which the run
lets commands begin. They are all the properties that the run checks.

The first part of the module is about sequences: what `Block` keeps of a text is found by induction on
its length, over the graph of a function (`Selects`), so that no operator is needed as a parameter; with
it come what `SelectInSeq` finds (the first block of a kind) and hence that
`UserDescription(Description(u)) = u` for a text without headings, and what replacing the markers
leaves. The second part says which calls a command has ahead of it (`TodoEffect` and the lemmas
on it). The properties then need:

- `TodoInv`: the model is asked before anything is written, and labels are read at most once, first
  of what comes after the answer; so what a command writes, it read as `LabelsInv` or `KeptInv` say.
- `LabelsInv` and `ChangelogInv`, for `OthersWork`: what a command read and nobody has changed since
  (`Fresh`) holds all that people put there. The property alone speaks of the pull request only and
  says nothing of what is about to be written over it.
- `LitterInv`, for `NoLitter`: a command that announced itself has the model to wait for or the call
  ahead that takes the comment away, and it has published nothing before the model answered. If
  the answer raises, the command is one of the two that the property names, with nothing published.
- `PlainInv` and `KeptInv`, for `AuthorsText`: the description is the author's last one or is made of it, and
  so is what each command that is not out of date has read, so describing again finds the same text.
  With markers a command publishes only if what it read has a marker (`PlainInv`), so a text that has none left
  is not described again.
- `TitleInv`: a title is a revision that was already made.

## 5. What is only model-checked, and why

- `EveryPushEnds` and `CommandsEnd` are liveness properties under fairness, out of
  the proof system's reach.
- Every other property that a passing run checks, invariant, action property or refinement, is also proved,
  for every value of the constants that its module's assumptions allow (four of them with `OneWorker`).
- That exceptions in properties are needed, and everything the violated runs show.

## 6. What the models leave out

- `ReviewSession` and `ImproveSession` take the default settings of
  `settings/configuration.toml`: one persistent comment, a table of suggestions, no
  committable suggestions, no thresholds of an incremental review. Answer mode,
  automatic approval, merge commits and the reflection of ticked boxes are left out.
- `RequestSettings` keeps of the settings five keys and of the defaults that they are
  defaults. The loading of secrets and the forbidden arguments are left out. The GitHub app's
  push trigger is in `PushTrigger`.
- `ToolSessions` takes the description without the walk through the files, and the model's
  answer for usable, without suggestions, empty, or of another form than the tool expects. A task gives up the event loop at its model
  call only, but the commands here interleave at every call, as those of different workers do.
- `IssueIndex` treats a text that cannot be embedded as the code does (it stores a zero
  vector) and takes the order of the results for arbitrary.
- `Providers` leaves out reactions, links, languages, line questions and the cloning for
  `/help_docs`. A review on Bitbucket Server, CodeCommit, Gerrit and the local provider is a new
  comment each time, as the code has it. An answer of `/review` without the key that it
  looks for, which is published as an empty review, is taken for an answer. The numbers of lines in a patch are left out.
- Not modelled: ranges of hunks and their extension (`git_patch_processing.py`), GitHub's inline
  comments with their verification, the reading of GitHub's diff, the polling server, the numbered chunks that
  `/improve` pairs with its prompts, publication both as a table and as committable suggestions. Nothing
  prevents it; the plan lists them.
- A comment is cut at 65,000 characters by the provider; the models assume that
  the comments are shorter.
- `ModelFallback` has a deployment for every fallback model if any is configured
  (otherwise the code raises before the first call), and the reasoning model is
  the regular one.
- `DiffPacking` takes token counts as given: the estimate of `token_handler.py` and the
  pruning and extending of a patch are not computed. Left out too: the filters on file
  types and languages, the summaries of files that `/describe` asks for the ones
  left over, and the second packing by which `/improve` pairs two kinds of patches.
- People do not edit or delete the bot's comments.
- `PushTrigger` takes the dictionary as the code behaves: nothing expires.
- Parsing of model answers, Markdown and prompts are text; the models keep of them
  only whether they are usable (`Outcomes`).

## 7. Plan

In order of importance; the properties named are part of each.

1. `HunkRanges` (pure): `extend_patch`, `omit_deletion_hunks`,
   `validate_comments_inside_hunks`; headers agree with bodies, moved ranges are inside
   their hunk, against a reference definition over small files.
2. `InlineComments`: publication on GitHub with verification and fallback; each comment at
   most once, no pending review left.
3. `DiffPacking`: the two packings of `/improve`, which are paired by position.
4. `Polling`: handled ids, the queue and the limit on processes.
