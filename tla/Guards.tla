--------------------------------- MODULE Guards ---------------------------------
(***************************************************************************)
(* The strategies of src/shared_hooks and how they are wired: HookLoader   *)
(* reads hooks.yaml, registers observers and then strategies in the order  *)
(* listed, and HookRegistry runs the chain of an event in two ways.  One   *)
(* set of strategies serves all sessions of the process.  The sessions are *)
(* seen through their CrewObservabilityAdapter; what a refusal does to the *)
(* turn is in Turn; here only the order of their events is kept.  The      *)
(* summary that SESSION_END writes and the observers, which are in Spans,  *)
(* change nothing that the strategies read.                                *)
(*                                                                         *)
(* CrewAI (external) keeps one list of tool hooks for the process.  A crew *)
(* puts its hook on it when it is made and takes it back when it ends, so  *)
(* a tool call goes through the hook of every crew in flight, each time    *)
(* with the adapter of the session that calls.  A skill runs in a thread,  *)
(* but the loader waits for it in the event loop's: nothing else moves.    *)
(* The agent's other tool, the intermediate one, is as a skill_loader call *)
(* that starts no skill.                                                   *)
(*                                                                         *)
(* Nobody passes token counts to AFTER_TURN, so the cost guard's estimate  *)
(* stays 0 and it refuses if and only if its budget is 0.                  *)
(*                                                                         *)
(* Inputs of a tool are what the sandbox guard tells apart, outputs are    *)
(* compared for equality only; "" is the output of an event without one.   *)
(* Bounds: MaxCalls tool calls and MaxOutputs AFTER_TURN events.           *)
(***************************************************************************)
EXTENDS Naturals, Sequences, FiniteSets, SequencesExt

CONSTANTS Sessions, Texts, Threshold, MaxCalls, MaxOutputs

ASSUME GuardsAssumption ==
  /\ "" \in Texts /\ IsFiniteSet(Sessions)
  /\ Threshold \in Nat \ {0} /\ MaxCalls \in Nat /\ MaxOutputs \in Nat

VARIABLES
  settings,   \* hooks.yaml: the strategies in order, those whose constructor takes the
              \* config of their entry, the tools denied, and whether the budget is 0
  entries,    \* strategies of hooks.yaml not loaded yet
  audited,    \* strategies that were given the audit logger
  chain,      \* HookRegistry._handlers: handlers of each event, in order
  guards,     \* what the handlers keep
  turn,       \* per session: where its turn is, and whether a denial is pending
  calls,      \* tool calls that went through the gate (history)
  refused,    \* those that were refused (history)
  again,      \* how often a call, and a refused one, went through it once more (history)
  outputs     \* what the sessions said, in the order of AFTER_TURN (history)

loaded == <<settings, entries, audited, chain>>
counts == <<calls, refused, again>>
vars == <<settings, entries, audited, chain, guards, turn, calls, refused, again, outputs>>

Tools == {"agent_execution", "skill_loader", "sandbox_run"}
Inputs == {"clean", "shell", "nul", "hostile"}
EventTypes == {"BEFORE_TOOL_CALL", "AFTER_TOOL_CALL", "AFTER_TURN"}

Listed == <<"audit_logger", "sandbox_guard", "permission_gate",
            "cost_guard", "loop_detector", "retry_tracker">>

EventsOf(name) ==
  CASE name = "audit_logger" -> {}
    [] name \in {"sandbox_guard", "permission_gate"} -> {"BEFORE_TOOL_CALL"}
    [] name = "cost_guard" -> {"AFTER_TURN", "BEFORE_TOOL_CALL"}
    [] name = "loop_detector" -> {"AFTER_TOOL_CALL", "AFTER_TURN"}
    [] name = "retry_tracker" -> {"AFTER_TOOL_CALL"}

\* The repository's hooks.yaml gives sandbox_guard an audit_file its constructor does not
\* take; a file without it, with the audit logger last, with tools denied, and a budget
\* of 0 (COST_GUARD_BUDGET) are configurations too.  A tool that is not denied has the
\* default permission "warn", which is audited; "allow", which is not, is left out.
Init ==
  /\ settings \in [order : {Listed, Append(Tail(Listed), Head(Listed))},
                   accepted : {ToSet(Listed), ToSet(Listed) \ {"sandbox_guard"}},
                   forbidden : {{}, {"skill_loader"}},
                   broke : BOOLEAN]
  /\ entries = settings.order
  /\ audited = {}
  /\ chain = [e \in EventTypes |-> <<>>]
  /\ guards = [begun |-> 0, ended |-> 0, audit |-> 0, tool |-> <<>>, turn |-> <<>>,
               failures |-> [t \in Tools |-> 0], retries |-> 0, recovered |-> 0,
               unrecorded |-> 0]
  /\ turn = [s \in Sessions |-> [phase |-> "idle", pending |-> FALSE]]
  /\ calls = 0 /\ refused = 0 /\ again = [all |-> 0, refused |-> 0]
  /\ outputs = <<>>

-----------------------------------------------------------------------------
(***************************************************************************)
(* HookLoader and HookRegistry.register                                    *)
(***************************************************************************)

\* Mutant: strategies run before observers.
RegisteredFirst(handlers, name) == <<name>> \o handlers
Registered(handlers, name) == Append(handlers, name)

\* The hooks section comes first: an observer for every event.
LoadHooks ==
  /\ \A e \in EventTypes : chain[e] = <<>>
  /\ chain' = [e \in EventTypes |-> <<"observer">>]
  /\ UNCHANGED <<settings, entries, audited, guards, turn, counts, outputs>>

Loaded(name) == name \in settings.accepted
                /\ \E i \in 1..(Len(settings.order) - Len(entries)) : settings.order[i] = name

\* A constructor that raises costs the strategy, not the program; a dependency that is
\* not there yet is None, and stays so.
LoadStrategy ==
  /\ \E e \in EventTypes : chain[e] # <<>>
  /\ entries # <<>>
  /\ entries' = Tail(entries)
  /\ LET name == Head(entries)
     IN IF name \in settings.accepted
        THEN /\ audited' = IF /\ name \in {"sandbox_guard", "permission_gate"}
                              /\ Loaded("audit_logger")
                           THEN audited \cup {name} ELSE audited
             /\ chain' = [e \in EventTypes |->
                  IF e \in EventsOf(name) THEN Registered(chain[e], name) ELSE chain[e]]
        ELSE UNCHANGED <<audited, chain>>
  /\ UNCHANGED <<settings, guards, turn, counts, outputs>>

-----------------------------------------------------------------------------
(***************************************************************************)
(* The handlers: what they leave behind, and whether they deny.            *)
(***************************************************************************)

Passes(g) == [guards |-> g, deny |-> FALSE]
Denies(g) == [guards |-> g, deny |-> TRUE]

\* Mutant: a later event overwrites the file.
RecordOnce(g, name) == IF name \in audited THEN [g EXCEPT !.audit = 1] ELSE g
Record(g, name) == IF name \in audited THEN [g EXCEPT !.audit = @ + 1] ELSE g

Observe(g, event, ctx) ==
  CASE event = "BEFORE_TOOL_CALL" -> Passes([g EXCEPT !.begun = @ + 1])
    [] event = "AFTER_TOOL_CALL" /\ ~ctx.success -> Passes([g EXCEPT !.ended = @ + 1])
    [] OTHER -> Passes(g)

\* _normalize raises on a null byte before anything is recorded.
Sandbox(g, ctx) ==
  IF ctx.input = "nul" THEN Denies([g EXCEPT !.unrecorded = @ + 1])
  ELSE IF ctx.input = "hostile" \/ (ctx.input = "shell" /\ ctx.tool # "sandbox_run")
  THEN Denies(Record(g, "sandbox_guard"))
  ELSE Passes(g)

Permission(g, ctx) ==
  LET noted == Record(g, "permission_gate")
  IN IF ctx.tool \in settings.forbidden THEN Denies(noted) ELSE Passes(noted)

Cost(g) == IF settings.broke THEN Denies(g) ELSE Passes(g)

Latest(s, n) == SubSeq(s, IF Len(s) > n THEN Len(s) - n + 1 ELSE 1, Len(s))
Repeats(s) ==
  Len(s) >= Threshold /\ Cardinality(ToSet(Latest(s, Threshold))) = 1

\* Mutant: too little history is kept.
KeptShort(s) == Latest(s, Threshold - 1)
Kept(s) == Latest(s, 2 * Threshold)

CheckLoop(g, field, state) ==
  LET g2 == [g EXCEPT ![field] = Kept(Append(@, state))]
  IN IF Repeats(g2[field]) THEN Denies(g2) ELSE Passes(g2)

Retry(g, ctx) ==
  LET before == g.failures[ctx.tool]
  IN Passes(IF ctx.success
            THEN [g EXCEPT !.failures[ctx.tool] = 0,
                           !.recovered = IF before > 0 THEN @ + 1 ELSE @]
            ELSE [g EXCEPT !.failures[ctx.tool] = @ + 1,
                           !.retries = IF before > 0 THEN @ + 1 ELSE @])

Handle(name, g, event, ctx) ==
  CASE name = "observer" -> Observe(g, event, ctx)
    [] name = "sandbox_guard" -> Sandbox(g, ctx)
    [] name = "permission_gate" -> Permission(g, ctx)
    [] name = "cost_guard" -> Cost(g)
    [] name = "loop_detector" /\ event = "AFTER_TURN" -> CheckLoop(g, "turn", ctx.output)
    [] name = "loop_detector" /\ event # "AFTER_TURN" ->
         CheckLoop(g, "tool", <<ctx.tool, ctx.output>>)
    [] name = "retry_tracker" -> Retry(g, ctx)

\* The handlers of an event in turn, up to the first that denies if `stops`.
Then(r, name, event, ctx, stops) ==
  IF stops /\ r.deny THEN r ELSE Handle(name, r.guards, event, ctx)

Run(g, event, ctx, stops) ==
  LET after[n \in 0..Len(chain[event])] ==
        IF n = 0 THEN Passes(g) ELSE Then(after[n - 1], chain[event][n], event, ctx, stops)
  IN after[Len(chain[event])]

\* dispatch_gate: the first denial ends the chain and reaches the caller.
Gate(g, event, ctx) == Run(g, event, ctx, TRUE)

\* Mutant: a denial ends the chain here too.
DispatchStops(g, event, ctx) == Run(g, event, ctx, TRUE).guards

\* dispatch: every handler runs, and a denial is swallowed like any exception.
Dispatch(g, event, ctx) == Run(g, event, ctx, FALSE).guards

-----------------------------------------------------------------------------
(***************************************************************************)
(* The sessions                                                            *)
(***************************************************************************)

ToolContext(tool, input, output, success) ==
  [tool |-> tool, input |-> input, output |-> output, success |-> success]
TurnContext(output) == ToolContext("", "clean", output, TRUE)

Goto(s, phase, pending) == turn' = [turn EXCEPT ![s] = [phase |-> phase, pending |-> pending]]

\* A session acts when no other one holds the event loop's thread in a skill.
Runs(s, phases) ==
  turn[s].phase \in phases /\ \A r \in Sessions \ {s} : turn[r].phase # "skill"

\* on_before_tool_call: a refused call gets its AFTER_TOOL_CALL at once.
BeforeToolCall(g, tool, input) ==
  LET gate == Gate(g, "BEFORE_TOOL_CALL", ToolContext(tool, input, "", TRUE))
  IN [gate EXCEPT !.guards =
        IF gate.deny
        THEN Dispatch(@, "AFTER_TOOL_CALL", ToolContext(tool, input, "[DENIED]", FALSE))
        ELSE @]

\* The same as seen by n hooks, and how many of them refused.
Refused(r) == IF r.deny THEN 1 ELSE 0
Through(t, tool, input) ==
  LET r == BeforeToolCall(t.guards, tool, input)
  IN [guards |-> r.guards, denied |-> t.denied + Refused(r)]
ToolHooks(tool, input, n) ==
  LET after[k \in 0..n] == IF k = 0 THEN [guards |-> guards, denied |-> 0]
                           ELSE Through(after[k - 1], tool, input)
  IN after[n]

\* One call through n hooks.
Count(n, denied) ==
  /\ calls < MaxCalls
  /\ calls' = calls + 1
  /\ refused' = IF denied > 0 THEN refused + 1 ELSE refused
  /\ again' = [all |-> again.all + (n - 1),
               refused |-> again.refused + (IF denied > 0 THEN denied - 1 ELSE 0)]

Call(s, tool, input, n, phase, refusal) ==
  LET result == ToolHooks(tool, input, n)
      denied == result.denied > 0
  IN /\ guards' = result.guards
     /\ Goto(s, IF denied THEN refusal ELSE phase,
             tool # "agent_execution" /\ (turn[s].pending \/ denied))
     /\ Count(n, result.denied)
     /\ UNCHANGED <<loaded, outputs>>

\* Runner._handle asks the adapter itself, before there is a crew.
Preflight(s, input) ==
  /\ entries = <<>> /\ Runs(s, {"idle"})
  /\ Call(s, "agent_execution", input, 1, "agent", "refused")

\* The sessions whose crew has its hook on CrewAI's list.
InFlight == {s \in Sessions : turn[s].phase \in {"agent", "skill"}}

\* The hook does not stop a refused call, so the skill of a refused skill_loader runs too.
CallTool(s, tool, input) ==
  /\ Runs(s, {IF tool = "skill_loader" THEN "agent" ELSE "skill"})
  /\ Call(s, tool, input, Cardinality(InFlight), "skill", "skill")

\* The AFTER_TURN handlers see the output; the loop detector does unless the budget stops
\* the chain first.
Said(output, seen) ==
  /\ Len(outputs) < MaxOutputs
  /\ outputs' = IF seen THEN Append(outputs, output) ELSE outputs

\* dispatch_after_turn, and the step callback raises what is pending: it ends the turn, or
\* the skill, which the loader reports to the agent as an error.
Step(s, text) ==
  /\ Runs(s, {"agent", "skill"})
  /\ LET gate == Gate(guards, "AFTER_TURN", TurnContext(text))
         denied == turn[s].pending \/ gate.deny
         outer == IF turn[s].phase = "skill" THEN "agent" ELSE "refused"
     IN /\ guards' = gate.guards
        /\ Goto(s, IF denied THEN outer ELSE turn[s].phase, FALSE)
  /\ Said(text, ~settings.broke)
  /\ UNCHANGED <<loaded, counts>>

\* The skill ends, well or not; a denial of its latest call stays pending for the agent.
SkillEnds(s) ==
  /\ turn[s].phase = "skill"
  /\ Goto(s, "agent", turn[s].pending)
  /\ UNCHANGED <<loaded, guards, counts, outputs>>

\* The agent has answered, the callback of its last step behind it: AFTER_TOOL_CALL of
\* "agent_execution".
Reply(s, text) ==
  /\ Runs(s, {"agent"}) /\ ~turn[s].pending
  /\ guards' = Dispatch(guards, "AFTER_TOOL_CALL",
                        ToolContext("agent_execution", "clean", text, TRUE))
  /\ Goto(s, "answered", FALSE)
  /\ UNCHANGED <<loaded, counts, outputs>>

\* The turn's own AFTER_TURN, answered or refused, carries no output.
EndTurn(s) ==
  /\ Runs(s, {"answered", "refused"})
  /\ guards' = Dispatch(guards, "AFTER_TURN", TurnContext(""))
  /\ Goto(s, "idle", FALSE)
  /\ Said("", TRUE)
  /\ UNCHANGED <<loaded, counts>>

\* An exception of the agent, the sender or the disk: there is no AFTER_TURN.
TurnFails(s) ==
  /\ Runs(s, {"agent", "answered"})
  /\ Goto(s, "idle", FALSE)
  /\ UNCHANGED <<loaded, guards, counts, outputs>>

SessionStep(s) ==
  \/ \E input \in Inputs : Preflight(s, input)
  \/ \E tool \in Tools \ {"agent_execution"}, input \in Inputs : CallTool(s, tool, input)
  \/ \E text \in Texts : Step(s, text) \/ Reply(s, text)
  \/ SkillEnds(s) \/ EndTurn(s) \/ TurnFails(s)

Next == LoadHooks \/ LoadStrategy \/ \E s \in Sessions : SessionStep(s)

Spec == Init /\ [][Next]_vars

-----------------------------------------------------------------------------
\* Whatever the strategies decide and in whatever order they are listed, the observers
\* have seen every passage of a tool call through the gate begin, and every refused one
\* end as a failure: once per call, and once more for each other crew in flight.
RefusalsAreTraced ==
  guards.begun = calls + again.all /\ guards.ended = refused + again.refused

\* With the audit logger first in hooks.yaml and the default permission, every tool call
\* of every session leaves one audit event, whoever refuses it, except those refused for a
\* null byte; and one more for each other crew that was in flight.
CallsAreAudited ==
  settings.order = Listed => guards.audit + guards.unrecorded = calls + again.all

\* The retry tracker counts every refusal once, as a retry or as the first failure of a
\* series, and every series is over or still running; a loop found on the way to it in
\* the same AFTER_TOOL_CALL hides none.  A call is refused once for each crew in flight.
RefusalsAreCounted ==
  refused + again.refused = guards.retries + guards.recovered
                            + Cardinality({t \in Tools : guards.failures[t] > 0})

\* The loop detector, which forgets old outputs, finds a loop exactly when the latest
\* Threshold outputs of all those it has been shown are the same.
ForgettingHidesNoLoop == Repeats(guards.turn) <=> Repeats(outputs)

=============================================================================
