# XiaoPaw in TLA+

XiaoPaw (`src/`) is a Feishu chat assistant: messages arrive from a WebSocket
listener, a cron service or a test API, are queued per conversation by a
`Runner`, and are answered by a CrewAI agent that may run *skills* (further
agents with sandbox tools) under the eye of guardrail hooks. All of it is one
asyncio process, apart from the skills' scripts, which run in a sandbox and share
files with it. This directory holds the TLA+ model of that program, the TLC runs
that check it on small instances and the TLAPS proofs about it.

Run from this directory: `tlc -workers 2 -config MCRunner.cfg MCRunner` (and so on
for the table in section 3) and `tlapm RunnerProofs.tla`.

## 1. The system

A *routing key* names a conversation (`p2p:<user>`, `group:<chat>`,
`thread:<chat>:<thread>`). Calls between parts are plain coroutine calls on one
event loop, so two steps interleave only at an `await`; threads appear where
`asyncio.to_thread` is used, and processes where the sandbox is.

| Part | State | Operations | Talks to |
|---|---|---|---|
| Runner queues and workers (`runner.py:41-124, 361-377`) | `_queues`, `_workers`, `_queue_gen`, `_shutting_down` | `dispatch`, `_worker`, `shutdown` | called by listener, cron, test API; calls `_handle` |
| Turn (`runner.py:126-359`) | locals of `_handle`, the adapter, the chat | `_handle`, `_handle_slash` | sessions, sender, agent, hooks |
| SessionManager (`session/manager.py`) | `_index`, `index.json`, `{id}.jsonl`, LRU cache of locks | `get_or_create`, `create_new_session`, `update_verbose`, `load_history`, `append`, `clear_all` | called by turns and the test API |
| CronService, CronStorage (`cron/`) | `jobs`, `_disabled_jobs_raw`, `_last_mtime/_last_size`, `tasks.json` | `start`, `stop`, `_loop` (check, load, fire, post-fire, save) | `Runner.dispatch`; shares `tasks.json` with the skill |
| scheduler_mgr skill (`_tasks_store.py`) | `tasks.json` | `create_job`, `update_job`, `delete_job`, `list_jobs` | another process; file lock |
| Hook framework (`hook_framework/`) | handler lists, `_pending_deny`, `_cleaned`, turn counter | `dispatch`, `dispatch_gate`, adapter callbacks | CrewAI callbacks, `shared_hooks` |
| Agents (`agents/`, `tools/skill_loader.py`) | `_last_msgs`, `_history_len`, context files, CrewAI's global hook list | `run_and_index`, step/task callbacks, `before_llm_hook`, `_run` | LLM, skills, adapter |
| Feishu intake (`feishu/listener.py`, `observability/security.py`) | replay cache, rate windows | `_handle_message_event`, `seen`, `allow` | Feishu's WebSocket, `Runner.dispatch` |
| FeishuSender (`feishu/sender.py`) | a semaphore, calls in flight | `send`, `send_thinking`, `update_card`, `send_text` | Feishu API; called by turns |
| Test API (`api/`) | futures per message, last card | `register`, `wait_for_reply`, sender methods | Runner, sessions |
| Guardrails and audit (`shared_hooks/`) | shared counters, hashes, policies | hook handlers | raise `GuardrailDeny` |
| Tracing (`shared_hooks/langfuse_trace.py`) | span stack in context variables, batch buffer | hook handlers, flush | Langfuse API |
| Memory (`memory/`) | the message list of a session | prune, compress, save, index | files, pgvector |
| Cleanup, config, metrics, loader, main | files by age; values; counters | start, stop | - |

What is hard in it, part by part, and what makes each part correct:

* **Runner.** `asyncio.wait_for` around `queue.get()` races an idle timer, arriving
  messages and cancellation, and workers delete the dictionaries others look at.
  Correct: never two workers for a key, never a queue without one, FIFO per key
  across worker generations, no message silently gone, shutdown returns and
  leaves nothing running.
* **Turn.** Any of ten awaits may fail or be cancelled; a refusal is stored in one
  callback and raised in another. Correct: a refused request is neither answered nor
  saved, every turn ends with an answer, what the user is told agrees with what
  is saved, and every trace is closed once.
* **SessionManager.** File and index are written under different locks, locks can
  be evicted while in use, any write may raise half-way, and the process can die anywhere.
  Correct: the count follows the file, and nothing promised is lost, but for the appends that
  raised between their lines and a save that raised before a restart.
* **Cron.** Two processes read, change and write one file; jobs are dispatched before
  that is recorded. Correct: jobs are neither lost nor skipped nor repeated without
  a reason, and the loop survives bad input and files it cannot read.
* **Agents and memory.** Global CrewAI hooks with several sessions in flight; blocking calls
  on the event loop; a list that is rewritten while its length is remembered. Correct: a
  session's context is its own, what goes to the LLM is well-formed and holds the
  question, and the raw log has every message once.
* **Intake and test API.** Duplicates and limits; answers matched to requests by their
  order alone. Correct: an event is processed at most once, the limit is exact, and
  whoever waits gets an answer, if possible its own.
* **Sender.** Answers to requests get lost, and a slot is held while a call backs off.
  Correct: an answer is not repeated without a reason, and every call ends.
* **Guardrails.** Counters shared by sessions, a tool call seen once by every crew in flight; the first
  denial ends a chain of one kind and is swallowed in the other. Correct: observers, audit log and counters give a true account.
* **Tracing.** Spans opened and closed by different callbacks, some of them several times.
  Correct: a tree per message, everything in it closed, nothing left unsent.

`PROJECT.json` lists the same parts with their status, and every hazard with its
line and the property that covers it, or why none does.

## 2. The modules

| Module | Models | State and actions |
|---|---|---|
| `Runner` | queues and workers; at its end the refinement | `queues`, `queueKeys`, `queueGen`, `workers` are the dictionaries. Each worker task has a `pc`: `waiting` in `wait_for`, `expired` once the timer has fired but the task has not resumed, `fetched` when the inner task of Python 3.11 holds an item the worker has not seen, `handling` in `_handle`. `Dispatch(m)` is `dispatch` (no suspension point, so one step), `Start ... CancelHandling` are what `_worker` does between suspension points, `Exit` the `finally` block. `getRunsAsTask` is the interpreter, chosen in the initial state. `ImplementsKeyedQueues` maps `pending` to `queues` and `active` to the message in hand. |
| `KeyedQueues` | what the Runner promises | per key a bounded FIFO and at most one message in process; keys may be forgotten when idle. |
| `Turn` | `_handle` for one message, both crews' callbacks, the adapter | `pc` is the place in `_handle` or in the agent; `shown` and `unsent` the user's view, `saved` the session's, `events` the turn-level hook events, `pending` the adapter's `_pending_deny`. One action per statement group up to the next await; `Cancel` raises `CancelledError` at any await. |
| `Sessions` | the session manager and its files | one step per section under `_index_lock`; `AskForLock ... AppendDone` split `append` at its suspension points and at the two writes of its thread. `Save` and `WriteFails` may raise with the process going on (`faults` bounds how often): memory is then ahead of `index.json` (`unsaved`), or half a turn is in the file (`pc` is `cut`). `Crash` restarts from `index.json`. |
| `Cron` | the cron service and the scheduler_mgr skill | `file` is `tasks.json`, `changed` the outcome `_check_mtime` would have, `jobs`/`disabled` the copy in memory; `pc` is `down` while the program is not up: `Start` begins a start, which `Boot` completes, `BootWithoutJobs` completes with nothing loaded (a `KeyError`, caught) and `BootFails` ends (a `ValueError`, not caught). A tick is `TickUnchanged`, or `StartRead`, then `ReadStore` or `ReadFails`, and `ApplyLoaded`/`ApplyFails`; then `WriteStore`/`SaveFails`. `SkillLoad`, `SkillDump`, `SkillDies` are the other process. |
| `AgentContext` | the LLM context: `before_llm_hook`, restore, prune, compress, save | `crews` is CrewAI's global hook list, each with its `_history_len` (`hist`) and the list `_last_msgs` refers to (`last`); `lists` the executors' messages, `skill` the latest sub-crew's; `ctx` and `raw` the files. `LlmCall` runs every hook of the process in order, `SkillLlmCall` does so for a sub-crew while the event loop waits, `Finish` is the end of `run_and_index`. |
| `Spans` | `langfuse_trace.py` with the events the adapter sends | `frame` holds the ContextVars of the worker and of the skill's copied context, `obs` every observation created, `buffer` the batch. Handlers are operators on one value; actions are the callbacks of a turn, each with all hooks CrewAI calls for it. |
| `Guards` | `hooks.yaml`, `HookLoader`, `HookRegistry`, the six strategies | `chain` is `_handlers`; `Gate` is `dispatch_gate`, `Dispatch` is `dispatch`; `guards` is what the strategies keep. `LoadHooks` and `LoadStrategy` are start-up, the rest are the adapter's events of several sessions, whose `turn` is with the agent or in a skill. A tool call is one passage through the gate for every crew in flight (`InFlight`, `ToolHooks`); `again` counts the passages after a call's first. |
| `Intake` | `_handle_message_event`, `ReplayCache`, `RateLimiter` | `cache` and `windows` are their dictionaries, as sets of entries whose delivery number `nr` gives their order; `Receive(e)` is the whole handler up to `dispatch` (the lock it awaits is never held across a suspension, so nothing interleaves). |
| `TestApi` | the HTTP front end and `CaptureSender` in front of the Runner's queues | `futures` is the dictionary of open requests and `place` its order, `future` and `reply` what became of each; `queue` and `hand` are the Runner as seen by `KeyedQueues`. `Request(r)` is the handler up to its wait, `Answer` and `AppendFails` what a turn sends. |
| `FeishuSender` | the four sending methods and their caller's order of use | `call` is the place of a message's current call, `attempt` the loop variable, `InSlot` the semaphore's holders; a request may succeed, lose its answer, fail, hit a rate limit or be refused. |
| `MC...` | instances | values of the constants |
| `RunnerProofs`, `AgentProofs` (`Turn` and `AgentContext`), `SessionsProofs`, `CronProofs`, `FeishuProofs` (`Intake` and `FeishuSender`), `TestApiProofs`, `GuardsProofs`, `SpansProofs` | theorems | section 4 |

The modules meet where the code does. `Intake`'s verdict `dispatched` and a fired cron job are
`Runner.Dispatch`, and so is `TestApi`'s `Request`, which takes from `Turn` that a turn whose answer cannot be saved is
answered twice; `Turn` is `HandleDone` and `CancelHandling` seen from inside;
`Turn.AppendTurn` is `Sessions.AskForLock ... AppendDone`; a slash command is one step in
`Turn` and an action in `Sessions`. Three modules open what is a nondeterministic outcome in
`Turn`: `FeishuSender` the sending of a card, `Guards` the verdicts of the guardrails, and
`AgentContext` what the agent does between its callbacks; `Spans` is what the events of `Turn`
and those inside the agent's run become. Each module relies on the others only through
outcomes that are nondeterministic in its own.

Operators marked *Mutant* (or *faulty variant*) are not part of any specification. Each is a
plausible mistake in the operator that follows it and is used to make sure that
the properties notice it.

### Abstractions

Messages, sessions, jobs and events are model values or numbers. Text, names, formatting,
metrics and logging are left out. In `Runner` a worker is named by the message whose `dispatch`
created it. The LLM, the disk and the Feishu API choose their outcomes freely; so do the
guardrails everywhere but in `Guards`. In `Cron` all times are small integers and a tick takes no
time; `NextOccurrence` is the next multiple of the period. In `AgentContext` a message is its
role, the turns it stems from and whether it is a long tool result, which stands for the
token count. In `Guards` the inputs are the four kinds the sandbox guard tells apart. A skill in `Guards` keeps the event loop's
thread, so that no other session acts meanwhile (`Runs`). History
variables (marked in the modules) record what properties speak about and guard nothing.

Whether CrewAI runs the registered LLM hooks for the LLM call with which a summary is made is not
visible in this repository; `AgentContext` takes it that it does not.

## 3. The runs

| Run | Configuration | What it shows |
|---|---|---|
| `runner` | `MCRunner.cfg` | with every order of four dispatches on two keys, timers and shutdown: `WorkerOwnsKey`, `QueueHasWorker`, `NoOvertaking`, `StoppedIsQuiet`, `LossOnlyAtIdleExit`; under fairness `QueuedIsTaken`, `WorkersRetire`, `ShutdownCompletes`; and `ImplementsKeyedQueues`. On Python 3.11 and on 3.12 |
| `turn` | `MCTurn.cfg` | refusals, answers, saving and events agree; `ChatMatchesSession` names the one turn the session remembers and the user believes failed |
| `turn_denied_call` | `MCTurnDenied.cfg` | **refuted**: a refused tool call is not executed |
| `sessions` | `MCSessions.cfg` | with writes and saves that raise and a restart at any step: counts differ from files by the appends that raised between their lines and by nothing else, what was promised survives a restart unless the last save raised, two writers on one file need `max_active_sessions` other sessions in between, and nobody waits for a lock behind a call that has ended |
| `cron` | `MCCron.cfg` | the complete list of reasons for which a job may be repeated, put off or vanish; a tick leaves no due job behind; and a due one-off job in a loadable file is dispatched unless the program goes down, also after failed reads and after an entry that made every load fail is gone |
| `cron_lost_update` | `MCCronLost.cfg` | **refuted**: a job the skill has written is never lost |
| `context` | `MCAgentContext.cfg` | no tool result without its call, whatever is compressed and whichever sessions interleave; the user's question is in every request of the turn; if crews do not overlap, contexts are separate and the raw log has each message once |
| `spans` | `MCSpans.cfg` | the trace tree of a turn: parents open, spans closed whichever way the turn ends, one trace per message, nothing left in the buffer |
| `guards` | `MCGuards.cfg` | observers see every call and refusal; audit log and retry tracker are exact once every crew in flight is reckoned with, and the loop detector finds a loop of what it was shown |
| `intake` | `MCIntake.cfg` | when a redelivered event passes the replay cache; the rate window is exact |
| `test_api` | `MCTestApi.cfg` | requests to one key get their own answers; the complete list of what makes answers go astray; and answers suffice for all who wait unless a message is lost or an id used twice |
| `sender` | `MCFeishuSender.cfg` | repeated cards need lost answers; every call ends |

The refuted statements are those of the repository's documents (quoted in
`PROJECT.json`, `findings`); the modules state next to each what does hold instead
(`JobsKept` beside `NoLostJob`, `DenialEndsTheStep` beside `DeniedCallNotRun`).

### Bounds, and why they are enough

* **Runner:** three messages on one key and one on another, queue of two. Three
  messages fill the queue while one is handled, and allow a key to be retired,
  recreated and retired again; the second key shows that keys do not touch each
  other. Neither interpreter's behaviour contains the other's: on 3.11 a cancellation can be swallowed, on 3.12
  the timer can beat a message that is already there. The run therefore begins with either (`getRunsAsTask`,
  48 000 states together), which matters for liveness; the safety properties are proved for all values and both.
* **Turn:** three tool calls: one that starts a skill, one inside it, and one after it.
  The theorems hold for any number.
* **Sessions:** two turns on one key and one on another, one call each of `/new`, `/verbose` and
  `clear_all`, a cache of one lock, one restart and two reads or writes that raise (9.1 million states). With one lock, the turn on the other
  key is enough to push out a lock that is in use. `max_active_sessions` of the program
  is 1000 by default; the property states the number it takes, and all four properties are proved for every value.
* **Cron:** a one-off and an interval job in the file; a cron job, a second one-off job that deletes itself and two
  cron jobs that make a load fail, one by its expression and one by its time zone, for the skill to create; two calls of
  the skill, one restart, all periods 1 and the clock up to 2 (386 000 states): two occurrences of every
  periodic job, and a bad entry of each kind that is there at a start or comes in between, and goes. `cron_lost_update`
  needs the one-off jobs only. The proofs cover any jobs, periods and numbers of calls and crashes.
* **AgentContext:** three turns in two sessions (interchangeable, so symmetric), three tool calls, one skill
  with one LLM call, and limits of 4, 4 and 7 in place of 20, 20 and 45 % of the model's window (1.5
  million states). Three turns are one that is saved, one that restores it and compresses, and one
  of another session in between; the limits make pruning, compression and a cut inside the turn in hand
  all happen. Proved for all values.
* **Spans:** two turns, three LLM calls, three tool calls, chunks of four events, one lost request
  (1.6 million states). Two turns share the worker's context; three tool calls are a skill, one inside it
  and one refused; a turn makes more events than a chunk holds.
* **Guards:** two sessions, three tool calls, five `AFTER_TURN` events, loops of two, two texts (211 000
  states). The detector keeps twice the threshold, so five events make it forget; the sessions' crews overlap,
  so that one call passes two hooks. Proved for all values.
* **Intake:** four events of two users, one of them from a foreign chat, one without an id, one that
  cannot be parsed; life time, capacity, window and limit of two, five instants, six deliveries (706 000 states):
  expiry, eviction and a full window each happen before, at and after their limit. Proved for all values.
* **TestApi:** three requests to one key, one of them with the id of another, and one to a second key; a queue of
  one (8.1 million states): overlaps, a full queue, a late answer, a second answer and a reused id all happen, alone
  and together. Proved for all values.
* **FeishuSender:** three messages, one of a thread, one slot, two attempts (392 000 states): calls
  wait for each other's retries. The proofs cover any number.

### Fairness

* `Runner`: weak fairness of every worker's steps and of the end of `shutdown()`. The event
  loop runs every ready callback, the idle timer fires, and `_handle` ends because LLM
  requests carry timeouts and skills are assumed to end. Sending and stopping are not fair.
* `Cron`: while the program is up the tick loop runs for ever (it catches every exception): weak fairness
  of the service as a whole, under which no save ever need succeed. Strong fairness of `ReadStore`: reading the file
  may fail any number of times but not for ever, because the skill, the only other user of the lock, holds it for
  one read or one write. Nobody is obliged to start the program, again or at all: `DueJobsFire` excepts a
  program that is down. The clock, the skill and crashes are not fair.
* `FeishuSender`: weak fairness of each caller's steps: the agent ends, and a request is answered or
  raises. A waiting caller gets the slot in the end: each holder leaves after at most
  `MaxRetries` attempts, and a caller with nobody left in front of it stays enabled.
* The other modules state no liveness; their runs may stop anywhere. That an append in `Sessions` is not left waiting
  is the invariant `WaitersAreServed` instead: `asyncio.Lock` wakes its waiters in order, so it takes a call at
  the head of the queue that is still going on, and that is what the invariant says.

`CHECK_DEADLOCK FALSE`: all runs end when the finitely many messages, turns, calls or ticks
are used up.

## 4. The proofs

Assumptions, named in the modules: `ConstantsAssumption` in `Runner` (every message has a key,
the bound is positive, `None` is no message), `TurnAssumption` in `Turn` (the bound on tool calls is
a natural number), `ContextAssumption` in `AgentContext` (the bounds and the threshold are natural numbers, and pruning and
compressing keep at least one message), `SessionsAssumption` in `Sessions` (every call has a key, the cache holds at least
one lock, `None` is no session, and there are finitely many turns, so that appends under way can be
counted), `CronAssumption` in `Cron` (every job has a kind and a positive period, only cron jobs have bad
expressions or time zones, `None` is no entry), `IntakeAssumption` in `Intake` (every event has a user, the life time, capacity, window and limit are
positive), `TestApiAssumption` in `TestApi` (requests have keys and ids, queues hold at least one message, `None` is no
request), `SenderAssumption` in `FeishuSender` (at least one attempt and one slot), `GuardsAssumption` in `Guards` (there are finitely many sessions, the threshold is
positive, an event without output has the text `""`), `SpansAssumption` in `Spans` (the bounds are natural numbers and a
chunk holds at least one event). TLC evaluates them in the
runs.

**Runner** (`RunnerProofs`), for any keys, messages, queue size and both
behaviours of `wait_for`:

* `TypeCorrect`, by one case per action.
* `OneWorkerPerKey` and `QueuesAreServed` from `WorkerInv`. "A live worker is the one `_workers` names,
  and its generation is current" (`WorkerOwnsKey`) is not inductive alone. That `dispatch` starts a
  second worker only when the first is gone rests on `DictsAgree` (while running, a key is in
  `_queues` exactly when `_workers` names a live worker of that key, and nothing is cancelled); that a new task
  is not confused with an old one on `TasksWereSent`; and that a key that comes back starts with an
  empty queue on `NoHiddenQueue`.
* `KeysAreFifo`, `OnlyIdleExitLoses`, `ShutdownLeavesNothing` from `OrderInv`. Its part `LogInv` says
  that the queue of a key is the tail of the key's log of accepted messages and that exactly these
  are marked queued; without it nothing relates the queue, which is thrown away and recreated,
  to the order of arrival. `InHandInv` relates the message a worker holds to its `pc`.
* `RunnerRefinesKeyedQueues`: the initial states of `Runner` are initial states of `KeyedQueues`, and `RefinementStep` maps
  each action to one of its actions or to a stutter: `dispatch` to `Offer`, taking a message to `Begin`, the end
  of `_handle` to `End`, the exit of a worker to `Forget`. What a key has in hand is chosen among its busy workers, so
  the argument needs that there is never more than one (`HandInv`, which follows from `WorkerInv`); `HandOfOneWorker` and
  `HandsUntouched` then say how a step of one worker changes it.

**Turn** (`AgentProofs`), for any number of tool calls: `TurnTypeCorrect`, `DenialsRefuse`,
`DenialsStopTheAgent`, `ChatAgrees`, `TurnsAreAnswered`, `TracesAreClosed`, from one invariant
in three parts: `DenialInv` (where a denial can be: pending, raised, answered, or absorbed by a skill;
this is the argument that the three exits suffice), `ShownInv` (what has been shown and saved at each
point) and `EventsInv` (which events have been dispatched at each point). The last two
are needed because the properties speak about the end of a turn only.

**Sessions** (`SessionsProofs`), for any keys, finite set of turns, commands, cache size and number of
restarts and of reads and writes that raise: `CountsTrackFiles` and `SessionsOutliveRestarts`, from an invariant in four parts.
`Domains` has the types and the fact that `index.json` equals the index unless the last save raised (a save writes the whole
index, so one that works makes up for those that did not; this is what a restart loses, and no more). `Unborn` says that nothing
refers to a session whose creating call has not run, in memory or in `index.json`, so that the name of a new session is fresh.
`Bounded` and `Exact` count: for every session the lines in its file are at least its message count, in memory or in
`index.json`, plus one for each append that has written one line plus two for each that has written both; and without a restart
the file of an active session has exactly that many and the lines of the appends that raised between theirs. `CountTracksFile` alone is not
inductive: it says nothing about the appends under way, and saving the count then needs to know that the two lines it adds are in the
file; and the bound must hold of `index.json` as well, which a restart brings back.
The bookkeeping of the sum is in lemmas on finite sets (`FiniteTurns` and those after it).

`WritersExclude` is about the locks and has an invariant of its own, `LocksInv`. `QueuesInv`: whoever has asked for a lock
stands in the queue of one lock, at one place, and writes only at its head. `OneEntryEach`: the cache has one entry for a
session. `RetentionInv`: as long as fewer than `MaxActiveSessions` other sessions have asked since a call asked, the cache
still has the lock that call uses, with nothing behind it but sessions that asked since. From this a second append of the
same session finds the same lock and waits. `GetIs` and `GetRetains` say what `_LRULockCache.get` does to an
entry: that it is not pushed out follows by counting the entries behind it. `WaitersGetTheirLock` follows from `QueuesInv`
too: a queue holds only calls that are still inside `append()`, so its head is one that will leave it.

**Cron** (`CronProofs`), for any jobs, periods, clock, calls of the skill and crashes: `NoJobFiresTwice`, `SavesKeepJobs` and
`DueJobsAreDispatched`, from `CronInv`. `MemoryInv` says what a store in memory is like. `CopyInv` is
the relation the service relies on: unless `changed`, every job of the file is in the copy in memory, but for
finished one-off jobs; this is what a save needs in order not to drop a job. `CreatedInv` says that no copy knows a
job before it is created. `FiredInv` follows a job that has run through every copy of it there is (memory, buffer,
file, the skill's): each says that the job is not due before its time, or the job is among those `unsaved`, `stale` or
`excused`. No copy can be left out, since each can become the next file. The ticks with and without a
reload share one lemma (`RoundInv`). `DueJobsAreDispatched` has an invariant of its own, `DueInv`: in every copy of the file a
one-off job has the time it was given, or none yet, and a periodic one is at most one period away (`Near`; again each copy can
become the next file), and once a tick has visited the jobs none is due until the clock goes on.

**Intake** (`FeishuProofs`), for any events, users, times, limits and capacities: `LimiterIsExact` from `RateInv` (the grants of a
user are in the order of their times, and the window holds exactly grants, among them all that still count), which makes
the window's size the number of grants in it; and `RedeliveriesAreDropped` from `CacheInv` (an event has one entry) and
`RetentionInv`: the entry of an event that is neither expired nor due for eviction is there, and what the dictionary
holds behind it came after the event. `EvictionNeedsTraffic` is the step that makes this inductive: when the oldest
entry of a full cache goes, all others are behind it.

**TestApi** (`TestApiProofs`), for any requests, ids, keys and queue size: `RequestsGetTheirOwnAnswers` and `AnswersAreEnough`, from
`TestApiInv`. Its part `OrderInv` says why matching by position works while nothing is `mixed`: the requests that
wait are exactly the messages to be answered, all of them of one key, and their places in the dictionary are in the order of the
queue, the message in hand first. `CountInv` needs only that the numbers keep step. `DictInv` is what keeps one request
from removing the future of another.

**FeishuSender** (also in `FeishuProofs`), for any messages, attempts and slots: `SenderTypeCorrect`, with the bound on
attempts, and `RepeatsAreLostAnswers`, from an invariant with two more parts: `WaitsAreEarly` (only a call
with attempts left waits), and `Heard`: a call that is still to be tried has created exactly as many cards as it lost
answers, which is what makes room for one more.

**Guards** (`GuardsProofs`), for any finite set of sessions, texts, threshold and number of events: `RefusalsReachObservers`, `AuditIsComplete`,
`RetriesAddUp` and `LoopsAreFound`, from `GuardsInv`. What an event does depends on the chain `hooks.yaml` builds, so `LoadInv` says
what the three chains are after each entry of the file, in both orders and with or without the sandbox guard, and
`ReadyInv` that no turn begins before the last. Running a chain is a recursion over its length; the lengths that
occur are three and four, for which `RunOfThree` and `RunOfFour` unroll it, and a lemma per event (`GateBeforeCall`,
`DispatchAfterCall`, `AfterTurnIs`) says what is left behind. `Accounts` are the equalities of the properties; they hold together because
a refused call gets its `AFTER_TOOL_CALL` in the same step, from a chain that a denial does not stop. A call goes through as many
hooks as crews are in flight: `ThroughIs` says what one passage adds to the accounts, and `ToolHooksAre` adds up any number, with the
induction done on a set of numbers (`NatUpTo`, `Iterates`). `MemoryInv` says that the
detector's window is the end of all it was shown; `KeptIs` that a window can be kept up from itself, and `RepeatsKept` that it shows
every loop.

**Spans** (`SpansProofs`), for any number of turns, calls and failed requests and any size of a chunk:
`NothingUnderAnEndedParent`, `NothingStaysOpen`, `EachMessageHasItsTrace` and `FailedRequestsCostTheirChunk`, from `Invariant`.
The handlers are operators on the state of one crew, so the argument is one about such states first. `Sound(t)`: what the
context of `t` still holds (root, open generation, stack, spans closed early) exists, has the right kind, lies in the context's trace and
has not been ended by this crew. Each handler `Grows` a sound state: the result is sound, only the crew itself has ended anything,
everything added has a parent the crew had not ended, and nothing of the crew's that is open is lost from sight. `BeforeTurn`
is the exception: it forgets the open generation (`GrowsBut`), and the properties hold all the same because the LLM
call that follows makes another (`Regenerates`). As the hooks of a call run once per crew of the process, `ToolHooksGrow` and `LlmHooksGrow` are
about any number of runs; they are shown with the least number at which a set of naturals would fail (`NatUpTo`), since an
induction theorem cannot be instantiated here. A skill's copy of the context and the main crew's own stay sound beside each other
(`Beside`) because their crews differ; that a new skill starts sound needs `EndedInv`, which says that no
crew that does not exist yet has ended anything. `InChunksBound` injects the events of the failed
chunks into pairs of a chunk and a place in it.

**AgentContext** (`AgentProofs`), for any sessions, number of turns, tool calls and skills and any limits of pruning and
compressing: `CallsFirst`, `QuestionStays`, `SessionsApart` and `RawComplete`, from `ContextInvariant`. Its parts beside the types and
the order of a crew's states:

* `CallsInv`: the property itself, and that the list of a crew with a tool at work ends with the call (`EndsWithCall`), so
  that the result lands behind it. A hook may replace that list, even by one with another session in it; `CutCalls` is
  the reason why compressing does not separate the two: the list is cut behind a user message, and the messages from
  the cut on are kept as they are.
* `AsksInv`: "the question is somewhere in the list" is not inductive, because compressing looks at the last user message that
  leaves `KeepMessages`, and restoring keeps the last user message only. `Asks` says that the question *is* the last user message and that
  fewer messages than that follow it. So `CutAsks` finds it behind every cut, and `RestoredAsks` finds it restored.
* `AloneInv`, for the case that crews run one at a time and none was dropped before its first LLM call: only the last crew is
  busy, and every earlier one has run its hook. Thus the only hook that restores anything in an LLM call is that of the turn in hand,
  and its session is the
  right one (`HooksWithin`). Lists hold finished turns of their own session, and the turn in hand.
* `RawInv`, for the same case while nothing was compressed: the turn in hand is the end of its list, behind `hist` (`EndsWith`);
  what `Finish` appends, the part of the list from `hist` on, is thus the whole turn and nothing of another. In `raw.jsonl` the lines of
  a finished turn are then an interval as long as the turn (`SavedLines`), and later turns are appended behind it.

These conditions can only cease to hold (a crew dropped before its first call stays so), which lets a step be argued with the
conditions before it. Picking messages by role and running the hooks of the process are recursive functions: `Recursion` gives
the sequence of values of such a function, with the induction done on a set of numbers as in `Spans`, and `HookingPreserves` says that
whatever shortening and restoring keep holds after all the hooks of a call. What pruning and compressing keep of a list is said
once (`ShortFacts`) and used for every hook.

The type invariants are proved where there are proofs (`Domains` and `LockTypes` in `Sessions`, `Domains` in `Spans`), and not run as
well. Each invariant above was checked with TLC on the configuration of its component before it was proved.

**Only model-checked:**

* Liveness (`QueuedIsTaken`, `WorkersRetire`, `ShutdownCompletes`, `DueJobsFire`, `AnswersEnd`) is out of TLAPS's reach.

## 5. Where the code differs from its documents

The two refuted runs, and 23 differences met while modelling, are in `PROJECT.json` (`findings`) with
the line of the code and the text they disagree with. The ones with the widest effect:

* A refused tool call is executed (`main_crew.py:209`), and a job can be overwritten (`cron/service.py:268`); these two
  are the refuted runs.
* With two crews in flight one refused call counts as a failure and its retry (`retry_tracker.py:43`), and two sessions that say
  the same make up a loop, for
  which one of them is stopped (`loop_detector.py:33`).
* Turns go missing from the raw log once the context is compressed (`main_crew.py:290`), which is why
  `RawHoldsEveryMessage` speaks of the time before.
* Concurrent requests to the test API can get each other's answers (`capture_sender.py:25`), which an end-to-end test
  excludes; `OwnAnswer` says when.
* A message can be lost between the idle timer and the worker (`runner.py:107`; `LossOnlyAtIdleExit` says that this is
  the only place), and on Python 3.11 a handler can start after `shutdown()` has cancelled its worker (`runner.py:104`).
* A torn line makes a session's history unreadable (`session/manager.py:125`), and one bad cron expression or time zone stops
  all jobs (`cron/service.py:240`); a bad expression that is there at the start ends the program.
* The sandbox guard is not loaded with the repository's own `hooks.yaml`, the cost guard never counts a token, and
  the loop detector cannot deny a tool loop. Nothing ever reaches a Feishu thread, and a refused reply counts as sent.
* The hooks of `skill_loader.py` for tracing work on a second instance of the tracing module.

Smaller ones that are not listed there:

* A full queue drops the message (`runner.py:83-85`); `docs/05-concurrency.md:328` describes a
  producer that waits.
* The `except Exception` of `_worker` is unreachable, and the superseded branch of its `finally`
  is never taken (`WorkerOwnsKey`).
* A refusal inside a skill ends the skill only (the qualification in `DeniedTurnIsRefused`).
* `AFTER_TOOL_CALL` and the final `AFTER_TURN` go through `dispatch`, which swallows denials.
* A turn that fails or is cancelled dispatches no `AFTER_TURN` (`TraceIsClosed`).
* `SESSION_END` is dispatched after the reply, not before it as `crew_adapter.py:334-335` says.
* The final `AFTER_TURN` carries no output, and the loop detector counts it as a repetition of the
  empty one. The audit log's session summary likewise counts the whole process.
* A call refused for a null byte leaves no audit event (`sandbox_guard.py:93`; `CallsAreAudited` excepts it).
* The step callback of the sub-crew sends `AFTER_TURN` only; its docstring (`skill_crew.py:71`) promises `AFTER_TOOL_CALL` too.
* A summary in a saved context is not restored: `main_crew.py:274` looks for a tag that `maybe_compress` does not write.
* If saving the index fails after the lines are written, the user sees an error for a turn the session
  remembers (`saved = "lines"`, the case `ChatMatchesSession` names); if the second line fails, half the turn stays in the file.
* After a save of the index that failed, callers are told of sessions and counts that a restart forgets
  (`SessionsSurvive`).
* On Python 3.12 the idle timer can beat a message that is already in the queue (`QueuedIsTaken`).
* A tool call is traced, audited and counted once for each crew in flight (`CallsAreAudited`).
* An interval job without a stored next run is put off by every reload, and a cron job that is due
  in the tick of a reload skips that occurrence (`DueJobsNotSkipped`).
* A failed cron dispatch goes to the dead-letter file at once; `docs/05-concurrency.md` describes retries.
* The cleanup service stores `session_ttl_days` and never uses it (`cleanup/service.py:24`).

## 6. Not modelled, and why

Each part is listed with its reason in `PROJECT.json`.

* **LLM client, downloader, retry helper, search tools:** one blocking call with a retry loop and no shared state. Their
  outcomes are nondeterministic in the modules that call them.
* **Indexer:** its coroutine is created and never awaited. **Bootstrap, configuration, metrics, logging, trace id,
  structured log:** read once at start-up, or written and never read. **Start-up:** straight-line wiring; the stop of listener and
  cron before the Runner adds nothing `Runner.dispatch` does not already reject.
* **Cleanup:** deletes raw logs and traces by age, once a day, from a thread. A raw log that a session still writes
  is never that old.
* **Skills:** the timeout of 600 s does not free the event loop (leaving the executor's `with` block waits for the
  thread), so only skills that end are modelled; one that hangs stops the program. Discovery, paging and text
  substitution are plain data handling.
* **Hook loader:** the second (workspace) layer, path checks and module import.
* **Tracing:** the bodies and times of events, and tracing switched off.
* **Start of the test API:** with it enabled `main()` raises `UnboundLocalError` (`main.py:126`) before anything is
  served; the end-to-end tests build the front end, the Runner and the sessions themselves, and that is what `TestApi` models.
* **Vendored code:** the `docx`, `pptx`, `xlsx`, `pdf` and `skill-creator` skills are office tooling that runs in the sandbox and
  shares no state with the assistant. They are 56 % of the Python lines of the program, so the
  modules here cover a small share of all lines (13 %). Of the assistant's own code they cover the Runner, session
  manager, cron service, sender, adapter and tracer nearly whole; what is left is single API calls (`feishu_ops`,
  search), prompts, configuration, metrics and comments.

## 7. Plan

Done: all components with interleavings or failures of their own, proofs of every safety property the runs check, and the
refinement of `KeyedQueues`. What the runs check and no theorem states is liveness. If the code changes, the parts of section 6
that would be worth a module first are the second layer of hooks in the hook loader and, once something awaits it, the
indexing coroutine.
