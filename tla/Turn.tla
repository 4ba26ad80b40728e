-------------------------------- MODULE Turn --------------------------------
(***************************************************************************)
(* One turn: Runner._handle of xiaopaw/runner.py for one inbound message,  *)
(* with the agent it runs (xiaopaw/agents, xiaopaw/tools/skill_loader.py)  *)
(* and the guardrails of xiaopaw/hook_framework.                           *)
(*                                                                         *)
(* A guardrail refuses by raising GuardrailDeny.  CrewAI does not let an   *)
(* exception out of a tool hook, so CrewObservabilityAdapter stores it in  *)
(* _pending_deny and the step callback raises it at the end of the step.   *)
(* The skill_loader tool runs a second crew, whose step callback looks at  *)
(* the same adapter.                                                       *)
(*                                                                         *)
(* CrewAI is external and modelled by what the code relies on: the hook of *)
(* the main crew sees the tool calls of a skill's crew too, only a hook    *)
(* that returns False blocks a call, an exception of a callback leaves     *)
(* akickoff(), and an exception of a tool becomes an observation of the    *)
(* agent that called it.  Guardrail verdicts, LLM answers and failures of  *)
(* the disk and the network are nondeterministic.                          *)
(***************************************************************************)
EXTENDS Naturals, Sequences

CONSTANT MaxCalls  \* bound on the tool calls of a turn (max_iter)

ASSUME TurnAssumption == MaxCalls \in Nat

VARIABLES
  pc,        \* where _handle is
  adapter,   \* the turn's adapter: "none", "open", "cleaned"
  card,      \* card_msg_id is set
  shown,     \* the last thing the user was sent for this message
  unsent,    \* a message was not delivered and nobody was told (history)
  saved,     \* append(): "no"; "lines" written but not counted; "yes"
  events,    \* the turn-level events dispatched so far (history)
  crew,      \* whose step it is: "main" or "skill"
  calls,     \* tool calls made
  call,      \* the tool call under way: "none", "allowed" or "denied"
  last,      \* the step under way ends with the crew's answer
  pending,   \* adapter._pending_deny is set
  denied,    \* a guardrail has refused something in this turn (history)
  absorbed,  \* a denial was raised inside a skill's crew (history)
  ran,       \* the verdicts on the tool calls that were executed (history)
  cancelled  \* shutdown() has cancelled the worker

vars == <<pc, adapter, card, shown, unsent, saved, events, crew, calls, call, last,
          pending, denied, absorbed, ran, cancelled>>
agentVars == <<crew, calls, call, last, pending, denied, absorbed, ran>>
userVars == <<card, shown, unsent, saved>>

AgentStates == {"think", "tool", "step", "task"}
PcStates == AgentStates \cup
  {"start", "command", "opened", "history", "thinking", "preflight", "deliver", "append",
   "after", "denied", "failed", "cleanup", "done"}
Shown == {"nothing", "thinking", "command", "reply", "denial", "error"}
Events == {"BEFORE_TURN", "AFTER_TURN", "SESSION_END"}

Init ==
  /\ pc = "start" /\ adapter = "none" /\ card = FALSE
  /\ shown = "nothing" /\ unsent = FALSE /\ saved = "no"
  /\ events = <<>>
  /\ crew = "main" /\ calls = 0 /\ call = "none" /\ last = FALSE
  /\ pending = FALSE /\ denied = FALSE /\ absorbed = FALSE /\ ran = {}
  /\ cancelled = FALSE

-----------------------------------------------------------------------------
(***************************************************************************)
(* The user's chat.  update_card() and send_thinking() swallow failures;   *)
(* send() and send_text() raise them, except that a last attempt refused   *)
(* by the rate limit or the server returns as if it had succeeded.         *)
(***************************************************************************)

Show(what) ==
  \/ shown' = what /\ UNCHANGED unsent
  \/ unsent' = TRUE /\ UNCHANGED shown

\* Answer with the card if there is one, else with a message of its own, which
\* is the only case that can raise.
Answer(what, then) ==
  \/ Show(what) /\ pc' = then
  \/ ~card /\ pc' = "failed" /\ UNCHANGED <<shown, unsent>>

-----------------------------------------------------------------------------
(***************************************************************************)
(* _handle up to the agent.                                                *)
(***************************************************************************)

\* A slash command; what it does to the session is in Sessions.
SlashCommand ==
  /\ pc = "start"
  /\ pc' \in {"command", "failed"}
  /\ UNCHANGED <<adapter, userVars, events, agentVars, cancelled>>

SendCommandReply ==
  /\ pc = "command"
  /\ Answer("command", "cleanup")
  /\ UNCHANGED <<adapter, card, saved, events, agentVars, cancelled>>

GetSession ==
  /\ pc = "start"
  /\ \/ pc' = "opened" /\ adapter' = "open"
     \/ pc' = "failed" /\ UNCHANGED adapter
  /\ UNCHANGED <<userVars, events, agentVars, cancelled>>

\* The attachment is downloaded (a failure only changes the text), then
\* on_turn_start.
BeginTurn ==
  /\ pc = "opened"
  /\ pc' = "history"
  /\ events' = Append(events, "BEFORE_TURN")
  /\ UNCHANGED <<adapter, userVars, agentVars, cancelled>>

LoadHistory ==
  /\ pc = "history"
  /\ pc' \in {"thinking", "failed"}
  /\ UNCHANGED <<adapter, userVars, events, agentVars, cancelled>>

\* A card that was sent may still have no id.
SendThinking ==
  /\ pc = "thinking"
  /\ pc' = "preflight"
  /\ \/ shown' = "thinking" /\ card' \in BOOLEAN
     \/ UNCHANGED <<shown, card>>
  /\ UNCHANGED <<adapter, unsent, saved, events, agentVars, cancelled>>

\* The virtual tool call "agent_execution": here a denial is raised at once.
Preflight ==
  /\ pc = "preflight"
  /\ \/ pc' = "think" /\ UNCHANGED denied
     \/ pc' = "denied" /\ denied' = TRUE
  /\ UNCHANGED <<adapter, userVars, events, crew, calls, call, last, pending, absorbed,
                 ran, cancelled>>

-----------------------------------------------------------------------------
(***************************************************************************)
(* The agent.                                                              *)
(***************************************************************************)

\* akickoff() of the skill's crew has ended, with a result or an exception: for
\* the main agent it is the end of a tool call.
BackToMain == pc' = "step" /\ crew' = "main" /\ last' = FALSE

LLMFails ==
  /\ pc = "think"
  /\ IF crew = "skill" THEN BackToMain
     ELSE pc' = "failed" /\ UNCHANGED <<crew, last>>
  /\ UNCHANGED <<adapter, userVars, events, calls, call, pending, denied, absorbed, ran,
                 cancelled>>

\* before_tool_hook and on_before_tool_call: a denial is stored.
CallTool ==
  /\ pc = "think"
  /\ calls < MaxCalls
  /\ calls' = calls + 1
  /\ pc' = "tool"
  /\ last' = FALSE
  /\ \/ call' = "allowed" /\ UNCHANGED <<pending, denied>>
     \/ call' = "denied" /\ pending' = TRUE /\ denied' = TRUE
  /\ UNCHANGED <<adapter, userVars, events, crew, absorbed, ran, cancelled>>

\* before_tool_hook returns None whatever the verdict: the tool runs.  The main
\* agent's tool may be skill_loader.
RunTool ==
  /\ pc = "tool"
  /\ ran' = ran \cup {call}
  /\ call' = "none"
  /\ \/ pc' = "step" /\ UNCHANGED crew
     \/ crew = "main" /\ pc' = "think" /\ crew' = "skill"
  /\ UNCHANGED <<adapter, userVars, events, calls, last, pending, denied, absorbed,
                 cancelled>>

AgentAnswers ==
  /\ pc = "think"
  /\ pc' = "step"
  /\ last' = TRUE
  /\ UNCHANGED <<adapter, userVars, events, crew, calls, call, pending, denied, absorbed,
                 ran, cancelled>>

\* The step callback of either crew: AFTER_TURN through the gate may deny too,
\* and whatever is pending is raised.
StepForgetsDenial ==                                         \* faulty variant
  /\ pc = "step"
  /\ pending' = FALSE
  /\ IF ~last THEN pc' = "think" /\ UNCHANGED <<crew, last>>
     ELSE IF crew = "skill" THEN BackToMain
     ELSE pc' = "task" /\ UNCHANGED <<crew, last>>
  /\ UNCHANGED <<adapter, userVars, events, calls, call, denied, absorbed, ran, cancelled>>
StepKeepsDenial ==                                           \* faulty variant
  /\ pc = "step"
  /\ IF ~last THEN pc' = "think" /\ UNCHANGED <<crew, last>>
     ELSE IF crew = "skill" THEN BackToMain
     ELSE pc' = "task" /\ UNCHANGED <<crew, last>>
  /\ UNCHANGED <<adapter, userVars, events, calls, call, pending, denied, absorbed, ran,
                 cancelled>>
StepCallback ==
  /\ pc = "step"
  /\ \/ \* raise
        /\ denied' \in {denied, TRUE}
        /\ pending \/ denied'
        /\ pending' = FALSE
        /\ IF crew = "skill" THEN BackToMain /\ absorbed' = TRUE
           ELSE pc' = "denied" /\ UNCHANGED <<crew, last, absorbed>>
     \/ \* go on
        /\ ~pending
        /\ IF ~last THEN pc' = "think" /\ UNCHANGED <<crew, last>>
           ELSE IF crew = "skill" THEN BackToMain
           ELSE pc' = "task" /\ UNCHANGED <<crew, last>>
        /\ UNCHANGED <<pending, denied, absorbed>>
  /\ UNCHANGED <<adapter, userVars, events, calls, call, ran, cancelled>>

\* The task callback, the last place where a pending denial is raised; then
\* run_and_index saves the context, which may fail.
TaskCallback ==
  /\ pc = "task"
  /\ pc' \in IF pending THEN {"denied"} ELSE {"deliver", "failed"}
  /\ pending' = FALSE
  /\ UNCHANGED <<adapter, userVars, events, crew, calls, call, last, denied, absorbed, ran,
                 cancelled>>

-----------------------------------------------------------------------------
(***************************************************************************)
(* _handle after the agent.                                                *)
(***************************************************************************)

Deliver ==
  /\ pc = "deliver"
  /\ Answer("reply", "append")
  /\ UNCHANGED <<adapter, card, saved, events, agentVars, cancelled>>

\* It may fail before the lines are written or when the index is saved.
AppendTurn ==
  /\ pc = "append"
  /\ \/ pc' = "after" /\ saved' = "yes"
     \/ pc' = "failed" /\ saved' \in {"no", "lines"}
  /\ UNCHANGED <<adapter, card, shown, unsent, events, agentVars, cancelled>>

\* dispatch(), not dispatch_gate(): a denial of AFTER_TURN is swallowed here.
AfterTurnGated ==                                            \* faulty variant
  /\ pc = "after"
  /\ pc' \in {"cleanup", "denied"}
  /\ events' = Append(events, "AFTER_TURN")
  /\ UNCHANGED <<adapter, userVars, agentVars, cancelled>>
AfterTurn ==
  /\ pc = "after"
  /\ pc' = "cleanup"
  /\ events' = Append(events, "AFTER_TURN")
  /\ UNCHANGED <<adapter, userVars, agentVars, cancelled>>

\* except GuardrailDeny; the answer's exceptions are swallowed.
Refuse ==
  /\ pc = "denied"
  /\ pc' = "cleanup"
  /\ events' = Append(events, "AFTER_TURN")
  /\ Show("denial")
  /\ UNCHANGED <<adapter, card, saved, agentVars, cancelled>>

\* except Exception
ApologiseOnlyOnCard ==                                       \* faulty variant
  /\ pc = "failed"
  /\ pc' = "cleanup"
  /\ IF card THEN Show("error") ELSE UNCHANGED <<shown, unsent>>
  /\ UNCHANGED <<adapter, card, saved, events, agentVars, cancelled>>
Apologise ==
  /\ pc = "failed"
  /\ pc' = "cleanup"
  /\ Show("error")
  /\ UNCHANGED <<adapter, card, saved, events, agentVars, cancelled>>

\* finally: adapter.cleanup() dispatches SESSION_END once and drops a denial
\* that is still pending.
CleanupUnlessCancelled ==                                    \* faulty variant
  /\ pc = "cleanup"
  /\ pc' = "done"
  /\ IF adapter = "open" /\ ~cancelled
     THEN adapter' = "cleaned" /\ pending' = FALSE /\ events' = Append(events, "SESSION_END")
     ELSE UNCHANGED <<adapter, pending, events>>
  /\ UNCHANGED <<userVars, crew, calls, call, last, denied, absorbed, ran, cancelled>>
Cleanup ==
  /\ pc = "cleanup"
  /\ pc' = "done"
  /\ IF adapter = "open"
     THEN adapter' = "cleaned" /\ pending' = FALSE /\ events' = Append(events, "SESSION_END")
     ELSE UNCHANGED <<adapter, pending, events>>
  /\ UNCHANGED <<userVars, crew, calls, call, last, denied, absorbed, ran, cancelled>>

\* shutdown() cancels the worker: CancelledError is raised at the await the turn
\* is at, passes every except clause and leaves through finally.  The thread of
\* a request or of a write that was under way finishes its work.
Awaits == {"command", "opened", "history", "thinking", "think", "tool", "deliver",
           "append", "denied", "failed"}
Answers == [command |-> "command", deliver |-> "reply", thinking |-> "thinking",
            denied |-> "denial", failed |-> "error"]

Cancel ==
  /\ pc \in Awaits
  /\ ~cancelled
  /\ cancelled' = TRUE
  /\ pc' = "cleanup"
  /\ shown' \in {shown} \cup (IF pc \in DOMAIN Answers THEN {Answers[pc]} ELSE {})
  /\ saved' \in {saved} \cup (IF pc = "append" THEN {"lines"} ELSE {})
  /\ events' = IF pc = "denied" THEN Append(events, "AFTER_TURN") ELSE events
  /\ UNCHANGED <<adapter, card, unsent, agentVars>>

-----------------------------------------------------------------------------
Handle ==
  \/ SlashCommand \/ SendCommandReply \/ GetSession \/ BeginTurn \/ LoadHistory
  \/ SendThinking \/ Preflight \/ Deliver \/ AppendTurn \/ AfterTurn
  \/ Refuse \/ Apologise \/ Cleanup

Agent ==
  \/ LLMFails \/ CallTool \/ RunTool \/ AgentAnswers \/ StepCallback \/ TaskCallback

Next == Handle \/ Agent \/ Cancel

Spec == Init /\ [][Next]_vars

-----------------------------------------------------------------------------
(***************************************************************************)
(* Properties                                                              *)
(***************************************************************************)

\* Every variable stays in its domain, and a tool runs only after its verdict.
TypeOK ==
  /\ pc \in PcStates
  /\ adapter \in {"none", "open", "cleaned"}
  /\ card \in BOOLEAN /\ unsent \in BOOLEAN
  /\ saved \in {"no", "lines", "yes"}
  /\ shown \in Shown
  /\ events \in Seq(Events)
  /\ crew \in {"main", "skill"}
  /\ calls \in 0..MaxCalls
  /\ call \in {"none", "allowed", "denied"}
  /\ last \in BOOLEAN /\ pending \in BOOLEAN /\ denied \in BOOLEAN /\ absorbed \in BOOLEAN
  /\ ran \in SUBSET {"allowed", "denied"}
  /\ cancelled \in BOOLEAN
  /\ pc = "tool" => call # "none"

\* A turn in which a guardrail refused something is never answered nor saved,
\* unless the denial was raised inside a skill's crew: there it ends the skill
\* only, and the main agent may go on to answer.
DeniedTurnIsRefused == denied /\ ~absorbed => shown # "reply" /\ saved = "no"

\* The main agent begins no further step while a denial waits to be raised.
DenialEndsTheStep == pc = "think" /\ crew = "main" => ~pending

\* What the user was told and what the session remembers agree.  A turn that append() has
\* saved and counted is never disowned; and where nothing was cancelled or went undelivered,
\* the turns of which the user keeps the reply are the ones saved, and only one of which
\* append() wrote the lines and then failed is remembered by the session while the user
\* sees an error.
ChatMatchesSession ==
  /\ saved = "yes" => shown \notin {"denial", "error"}
  /\ pc = "done" /\ ~cancelled /\ ~unsent =>
       /\ saved = "yes" <=> shown = "reply"
       /\ saved = "lines" => shown = "error"

\* A turn that was not cancelled ends with a final answer, whatever fails on the way,
\* unless a delivery was lost without an exception or with the last answer: a card whose
\* update fails is left on "thinking".
TurnIsAnswered ==
  pc = "done" /\ ~cancelled => unsent \/ shown \in {"command", "reply", "denial", "error"}

\* Every turn that dispatched BEFORE_TURN ends with exactly one SESSION_END, the
\* last of its events, however it ends; a turn that was saved or refused has
\* exactly one AFTER_TURN before it, one that failed or was cancelled may not.
FullTrace == <<"BEFORE_TURN", "AFTER_TURN", "SESSION_END">>
TraceIsClosed ==
  pc = "done" /\ adapter # "none" =>
    /\ events \in {<<"SESSION_END">>, <<"BEFORE_TURN", "SESSION_END">>, FullTrace}
    /\ saved = "yes" \/ shown = "denial" => events = FullTrace

\* Refuted for the code.  docs/12-hook-hardening.md states that the hook returns
\* False for a denied tool call, so that CrewAI does not execute it.
DeniedCallNotRun == "denied" \notin ran
=============================================================================
