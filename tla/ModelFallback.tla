---------------------------- MODULE ModelFallback ----------------------------
(***************************************************************************)
(* The calls to the model that the commands of one request make:           *)
(* retry_with_fallback_models (pr_insight/algo/pr_processing.py) tries the *)
(* configured models in order, each with its deployment, and LiteLLM's     *)
(* handler (litellm_ai_handler.py, chat_completion) retries a call that    *)
(* the API refused.  /improve (pr_code_suggestions.py) splits the diff     *)
(* into chunks, calls the model for all of them at once with               *)
(* asyncio.gather, and has each chunk's suggestions reflected on.          *)
(*                                                                         *)
(* gather raises with the first chunk that fails and leaves the other      *)
(* chunks running.  The deployment is no argument of a call: it is read    *)
(* from the request's settings whenever a call begins.                     *)
(*                                                                         *)
(* The specification is CallsSpec and not Spec, and so on, for the sake of *)
(* modules that extend DiffPacking too, which models the same file.        *)
(***************************************************************************)
EXTENDS Integers

CONSTANTS
  NumModels,            \* config.model and config.fallback_models
  Chunks,               \* the chunks of a command's diff
  FallbackDeployments,  \* whether openai.fallback_deployments is set
  ModelRetries,         \* MODEL_RETRIES
  NumCommands           \* bound: the commands of the request

ASSUME ModelFallbackAssumption ==
  /\ NumModels \in Nat \ {0}
  /\ FallbackDeployments \in BOOLEAN
  /\ ModelRetries \in Nat \ {0}
  /\ NumCommands \in Nat

VARIABLES
  deployment,   \* the setting openai.deployment_id
  command,      \* the command that runs, or is next
  running,      \* whether it is inside retry_with_fallback_models
  deployments,  \* all_deployments
  attempt,      \* the model that is tried
  task,         \* task[t]: the coroutine of a chunk
  result        \* result[k]: the model command k got its answer from, or 0

callsVars ==
  <<deployment, command, running, deployments, attempt, task, result>>

Models == 1..NumModels
Commands == 1..NumCommands
Tasks == Commands \X Models \X Chunks

\* The deployment the configuration has for a model.
Own(m) == IF FallbackDeployments THEN m ELSE 1

InCall == {"calling", "reflecting"}
InRetry == {"retrying", "retrying reflection"}
TaskStates == {"none", "done", "failed"} \cup InCall \cup InRetry

Current(t) == running /\ t[1] = command /\ t[2] = attempt

-----------------------------------------------------------------------------

\* A call begins, with the deployment that the settings name at this moment.
Calling(state, m, d, tries) ==
  [state |-> state, tries |-> tries, model |-> m, deployment |-> d]

\* A coroutine that is over, or not begun, has no call.
NoCall(state) == Calling(state, 1, 1, 0)

CallsInit ==
  /\ deployment = 1
  /\ command = 1
  /\ running = FALSE
  /\ deployments = [m \in Models |-> 1]
  /\ attempt = 1
  /\ task = [t \in Tasks |-> NoCall("none")]
  /\ result = [k \in Commands |-> 0]

\* One round of the loop: the deployment is set, and f(model) begins the call
\* of every chunk.
Try(m, ds) ==
  /\ attempt' = m
  /\ deployment' = ds[m]
  /\ task' = [t \in Tasks |->
                IF t[1] = command /\ t[2] = m
                THEN Calling("calling", m, ds[m], 1) ELSE task[t]]

\* Mutant of AllDeployments: the fallback models share the first deployment.
AllDeploymentsFirst(d) == [m \in Models |-> d]

\* _get_all_deployments, which begins with what the setting is now.
AllDeployments(d) ==
  [m \in Models |-> IF FallbackDeployments /\ m > 1 THEN m ELSE d]

Begin ==
  /\ ~running /\ command \in Commands
  /\ running' = TRUE
  /\ deployments' = AllDeployments(deployment)
  /\ Try(1, AllDeployments(deployment))
  /\ UNCHANGED <<command, result>>

\* Mutant of Broken: a round fails only when no chunk is left.
BrokenWhole ==
  \A t \in Tasks : Current(t) => task[t].state = "failed"

\* gather has raised.
Broken == \E t \in Tasks : Current(t) /\ task[t].state = "failed"

\* The next model is tried after an exception.
Fallback ==
  /\ running /\ Broken
  /\ attempt < NumModels
  /\ Try(attempt + 1, deployments)
  /\ UNCHANGED <<command, running, deployments, result>>

\* "Failed to generate prediction with any model."
GiveUp ==
  /\ running /\ Broken
  /\ attempt = NumModels
  /\ running' = FALSE
  /\ command' = command + 1
  /\ UNCHANGED <<deployment, deployments, attempt, task, result>>

\* Mutant of Whole: one chunk's answer is enough.
WholeByOne == \E t \in Tasks : Current(t) /\ task[t].state = "done"

\* Every chunk of this round has its answer.
Whole == \A t \in Tasks : Current(t) => task[t].state = "done"

Return ==
  /\ running /\ Whole
  /\ result' = [result EXCEPT ![command] = attempt]
  /\ running' = FALSE
  /\ command' = command + 1
  /\ UNCHANGED <<deployment, deployments, attempt, task>>

-----------------------------------------------------------------------------
(* The coroutine of a chunk, which may outlive its round. *)

Set(t, value) ==
  /\ task' = [task EXCEPT ![t] = value]
  /\ UNCHANGED <<deployment, command, running, deployments, attempt, result>>

\* The model that reflects: the first one, or the first fallback model if the
\* chunk's suggestions are that one's.
Reflector(t) == IF t[2] = 2 THEN 2 ELSE 1

\* Suggestions are returned.  If there are any, they are reflected on.
Answer(t) ==
  /\ task[t].state = "calling"
  /\ \/ Set(t, NoCall("done"))
     \/ Set(t, Calling("reflecting", Reflector(t), deployment, 1))

\* The scores are returned, and merged into the suggestions unless the answer
\* is no mapping.
Reflect(t) ==
  /\ task[t].state = "reflecting"
  /\ \E state \in {"done", "failed"} : Set(t, NoCall(state))

\* stop_after_attempt(MODEL_RETRIES)
MayRetry(t) == task[t].tries < ModelRetries

\* The API refuses the call, which is retried but for a refusal over the rate
\* limit and what the handler did not expect.  A reflection that has failed
\* for good is done without.
Refuse(t) ==
  /\ task[t].state \in InCall
  /\ \/ /\ MayRetry(t)
        /\ Set(t, [task[t] EXCEPT !.state = IF @ = "calling" THEN "retrying"
                                            ELSE "retrying reflection"])
     \/ Set(t, NoCall(IF task[t].state = "calling" THEN "failed" ELSE "done"))

Retry(t) ==
  /\ task[t].state \in InRetry
  /\ Set(t, Calling(IF task[t].state = "retrying" THEN "calling" ELSE "reflecting",
                    task[t].model, deployment, task[t].tries + 1))

TaskStep(t) == Answer(t) \/ Reflect(t) \/ Refuse(t) \/ Retry(t)

LoopStep == Begin \/ Fallback \/ GiveUp \/ Return

\* The request has been handled, and nothing runs any more.
Handled ==
  /\ command \notin Commands
  /\ \A t \in Tasks : task[t].state \in {"none", "done", "failed"}
  /\ UNCHANGED callsVars

CallsNext == LoopStep \/ (\E t \in Tasks : TaskStep(t)) \/ Handled

CallsSpec == CallsInit /\ [][CallsNext]_callsVars

\* The event loop runs what can go on, and a call ends within config.ai_timeout.
FairSpec ==
  CallsSpec /\ WF_callsVars(LoopStep) /\ \A t \in Tasks : WF_callsVars(TaskStep(t))

-----------------------------------------------------------------------------
(***************************************************************************)
(* Properties.                                                             *)
(***************************************************************************)

\* The type invariant.
CallsTypeOK ==
  /\ deployment \in Models
  /\ command \in 1..(NumCommands + 1)
  /\ running \in BOOLEAN
  /\ deployments \in [Models -> Models]
  /\ attempt \in Models
  /\ task \in [Tasks -> [state : TaskStates, tries : 0..ModelRetries,
                         model : Models, deployment : Models]]
  /\ result \in [Commands -> 0..NumModels]

\* A command's answer is the first one a model gave to all of its chunks: the
\* models before failed, and only a command that every model failed has none.
\* The chunks of a failed round that still run have no part in it.
FirstThatWorks ==
  \A k \in Commands : k < command =>
    /\ \A m \in Models : result[k] = 0 \/ m < result[k] =>
         \E c \in Chunks : task[<<k, m, c>>].state = "failed"
    /\ result[k] # 0 => \A c \in Chunks : task[<<k, result[k], c>>].state = "done"

(* In the first command, and whenever a fallback model is tried, every call  *)
(* of the round that is under way names the deployment configured for the    *)
(* model that is tried, whatever chunks of earlier rounds still do.  It is a *)
(* call of that model, with one exception: suggestions of the third model or *)
(* a later one are reflected on by the first, which is then called by the    *)
(* other one's deployment.                                                   *)
RoundPaired ==
  \A t \in Tasks :
    Current(t) /\ task[t].state \in InCall /\ (command = 1 \/ attempt > 1) =>
      /\ task[t].deployment = Own(attempt)
      /\ \/ task[t].model = attempt
         \/ attempt > 2 /\ task[t].state = "reflecting" /\ task[t].model = 1

\* Every command returns or gives up.
CommandsEnd == <>(command = NumCommands + 1)
=============================================================================
