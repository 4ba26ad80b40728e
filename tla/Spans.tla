------------------------------- MODULE Spans -------------------------------
(***************************************************************************)
(* shared_hooks/langfuse_trace.py: how hook events become a trace tree.    *)
(* The module keeps its state in ContextVars: the trace, its root span,    *)
(* the open generation (one LLM call), the stack of open tool spans and a  *)
(* map of spans closed early.  A worker of the Runner has one context for  *)
(* all its turns; a skill runs in a thread with a copy of it.              *)
(*                                                                         *)
(* The skill loader means to reset that copy and, at the end of the skill, *)
(* to end what it left open (skill_loader.py:108-205).  It imports         *)
(* shared_hooks.langfuse_trace for that, while HookLoader executes the     *)
(* hooks' file a second time as a module of its own (loader.py:216-233):   *)
(* the reset and the clean-up reach the other instance, whose variables    *)
(* are always empty, and change nothing here.                              *)
(*                                                                         *)
(* The events come from CrewObservabilityAdapter: its turn number and its  *)
(* flag "this turn has called the LLM" are shared by main crew and skill.  *)
(* CrewAI (external) calls every registered hook for every LLM call and    *)
(* tool call of the process.  Main crews register their LLM hook and never *)
(* take it back (main_crew.py:227-314), so a turn's calls are seen once    *)
(* per crew made so far; the tool hook is taken back at the end of a turn. *)
(*                                                                         *)
(* The body of an event, its timing, level and text are left out.  The     *)
(* stack of open tool spans is the set of its entries: an entry is pushed  *)
(* when its span is created, so their order is that of the spans' numbers. *)
(*                                                                         *)
(* Bounds: MaxTurns, MaxLlm LLM calls and MaxTools tool calls in all,      *)
(* MaxFailed failed requests to the Langfuse server, Chunk events a        *)
(* request (50).                                                           *)
(***************************************************************************)
EXTENDS Naturals, Sequences, FiniteSets

CONSTANTS MaxTurns, MaxLlm, MaxTools, MaxFailed, Chunk

ASSUME SpansAssumption ==
  /\ MaxTurns \in Nat /\ MaxLlm \in Nat /\ MaxTools \in Nat /\ MaxFailed \in Nat
  /\ Chunk \in Nat \ {0}

VARIABLES
  client,   \* Langfuse is configured (_ensure_client returns a client)
  named,    \* tool messages carry the tool's name (Qwen's do not)
  others,   \* crews of other sessions in flight during these turns
  turns,    \* turns this worker has finished
  phase,    \* where the turn is
  adapter,  \* the turn's adapter: turn number, LLM flag, pending denial
  crews,    \* MemoryAwareCrew instances made in the process: LLM hooks
  frame,    \* main and skill: the crew, its ContextVars, the number of tool messages of
            \* each name after the latest answer, and its place in the step
  used,     \* LLM calls and tool calls so far (bounds)
  obs,      \* every observation ever created, in order (history)
  buffer,   \* number of events in _batch_buffer
  failed,   \* requests that failed (bound)
  lost      \* events in those requests (history)

settings == <<client, named, others>>
flushVars == <<failed, lost>>
vars == <<client, named, others, turns, phase, adapter, crews, frame, used, obs, buffer,
          failed, lost>>

None == 0              \* the empty string as an id
TraceId == turns + 1   \* inbound.trace_id, bound by Runner._handle, is new for each message
Tools == {"agent_execution", "skill_loader", "tool"}
MainCrew == 0          \* a skill's crew has the number of the tool call that starts it

EmptyContext == [trace |-> None, root |-> None, gen |-> None, stack |-> {}, closed |-> {}]
NoResults == [tool \in Tools |-> 0]
NewFrame(crew, c) == [crew |-> crew, c |-> c, results |-> NoResults, step |-> "start"]

Init ==
  /\ client \in BOOLEAN /\ named \in BOOLEAN /\ others \in 0..1
  /\ turns = 0 /\ phase = "idle"
  /\ adapter = [turn |-> 0, llm |-> FALSE, deny |-> FALSE]
  /\ crews = others
  /\ frame = [w \in {"main", "skill"} |-> NewFrame(MainCrew, EmptyContext)]
  /\ used = [llm |-> 0, tools |-> 0]
  /\ obs = <<>> /\ buffer = 0 /\ failed = 0 /\ lost = 0

-----------------------------------------------------------------------------
(***************************************************************************)
(* The handlers, as operators on t: the crew, the observations, the number *)
(* of events buffered and the ContextVars c.                               *)
(***************************************************************************)

State(w) == [crew |-> frame[w].crew, obs |-> obs, buffer |-> buffer, c |-> frame[w].c]
Enqueue(t) == [t EXCEPT !.buffer = @ + 1]

\* "ended" holds the crews that have ended the observation.
Create(t, kind, parent, ended) ==
  [Enqueue(t) EXCEPT !.obs = Append(@,
     [kind |-> kind, parent |-> parent, trace |-> t.c.trace, crew |-> t.crew,
      turn |-> TraceId, ended |-> IF ended THEN {t.crew} ELSE {}])]

EndedBy(o, crew) == [o EXCEPT !.ended = @ \cup {crew}]
EndAll(t, ids) ==
  [t EXCEPT !.obs = [i \in DOMAIN @ |-> IF i \in ids THEN EndedBy(@[i], t.crew) ELSE @[i]],
            !.buffer = @ + Cardinality(ids)]
End(t, i) == EndAll(t, {i})
Newest(t) == Len(t.obs)

Ids(entries) == {e.id : e \in entries}
Last(entries) == CHOOSE e \in entries : \A f \in entries : f.id <= e.id
StackTop(c) == IF c.stack = {} THEN c.root ELSE Last(c.stack).id
ToolParent(c) == IF c.gen # None THEN c.gen ELSE StackTop(c)
GenParent(c) == StackTop(c)

\* The trace is created once per context; its id is the id of the inbound message.
EnsureTrace(t) ==
  IF t.c.trace # None \/ ~client THEN t
  ELSE LET traced == [Enqueue(t) EXCEPT !.c.trace = TraceId]
           rooted == Create(traced, "root", None, FALSE)
       IN [rooted EXCEPT !.c.root = Newest(rooted)]

\* The generation of the turn before is forgotten, not ended.
BeforeTurn(t, message) ==
  LET u == [EnsureTrace(t) EXCEPT !.c.gen = None, !.c.closed = {}]
  IN IF message /\ u.c.trace # None THEN Enqueue(u) ELSE u

\* before_llm_handler goes through the stack from the bottom and gives each entry the
\* first unused tool message of its name, if there is one.
Matched(stack, results) ==
  {e \in stack :
     Cardinality({f \in stack : f.tool = e.tool /\ f.id <= e.id}) <= results[e.tool]}

SameKey(e, f) == e.tool = f.tool /\ e.turn = f.turn

\* Mutant: what the results close stays on the stack.
ReadResultsKeepStack(t, results) == EndAll(t, Ids(Matched(t.c.stack, results)))

\* The map of spans closed early keeps the last of each name and turn.
ReadResults(t, results) ==
  LET read == Matched(t.c.stack, results)
      latest == {e \in read : \A f \in read : SameKey(e, f) => f.id <= e.id}
  IN [EndAll(t, Ids(read)) EXCEPT
        !.c.stack = @ \ read,
        !.c.closed = {e \in @ : \A f \in read : ~SameKey(e, f)} \cup latest]

EndGen(t) == IF t.c.gen = None THEN t ELSE [End(t, t.c.gen) EXCEPT !.c.gen = None]

BeforeLlm(t, results) ==
  LET u == EnsureTrace(t)
      v == IF u.c.gen = None THEN u ELSE EndGen(ReadResults(u, results))
      w == Create(v, "gen", GenParent(v.c), FALSE)
  IN [w EXCEPT !.c.gen = Newest(w)]

BeforeTool(t, tool, turn) ==
  LET u == EnsureTrace(t)
      v == Create(u, "tool", ToolParent(u.c), FALSE)
  IN [v EXCEPT !.c.stack = @ \cup {[id |-> Newest(v), tool |-> tool, turn |-> turn]}]

For(entries, tool, turn) == {e \in entries : e.tool = tool /\ e.turn = turn}

AfterTool(t, tool, turn) ==
  LET open == For(t.c.stack, tool, turn)
      closed == For(t.c.closed, tool, turn)
      u == EnsureTrace(t)
  IN IF open # {} THEN [End(t, Last(open).id) EXCEPT !.c.stack = @ \ {Last(open)}]
     ELSE IF closed # {} THEN [End(t, Last(closed).id) EXCEPT !.c.closed = @ \ closed]
     ELSE Create(u, "tool", ToolParent(u.c), TRUE)

\* Mutant: only the newest of the open spans is ended.
EndStackTop(t) ==
  IF t.c.stack = {} THEN t ELSE [End(t, StackTop(t.c)) EXCEPT !.c.stack = {}]
EndStack(t) == [EndAll(t, Ids(t.c.stack)) EXCEPT !.c.stack = {}]

AfterTurn(t) ==
  LET u == EndStack(EndGen(EnsureTrace(t)))
      v == IF u.c.trace # None THEN Enqueue(u) ELSE u
  IN IF v.c.root # None THEN Enqueue(v) ELSE v

TaskComplete(t) ==
  LET u == EnsureTrace(t) IN Create(u, "task", StackTop(u.c), TRUE)

\* Mutant: the trace id survives the end of the turn.
FlushAndCloseKeepTrace(t) ==
  LET u == EnsureTrace(EndGen(EndStack(t)))
      w == IF u.c.root # None THEN End(u, u.c.root) ELSE u
  IN [w EXCEPT !.c = [EmptyContext EXCEPT !.trace = w.c.trace]]

FlushAndClose(t) ==
  LET u == EnsureTrace(EndGen(EndStack(t)))
      v == IF u.c.trace # None THEN Create(u, "end", u.c.root, TRUE) ELSE u
      w == IF v.c.root # None THEN End(v, v.c.root) ELSE v
  IN [w EXCEPT !.c = EmptyContext]

\* _flush_batch takes the whole buffer and sends it in chunks; a chunk whose
\* request fails is dropped and the next one is tried.  Without a client all is dropped.
Chunks(n) == 1..((n + Chunk - 1) \div Chunk)
InChunks(n, bad) == Cardinality({e \in 1..n : (e - 1) \div Chunk + 1 \in bad})

\* Mutant: the loop stops at the first request that fails.
FlushBatchStops(n) ==
  /\ buffer' = 0
  /\ \E bad \in SUBSET (IF client THEN Chunks(n) ELSE {}) :
       /\ Cardinality(bad) <= 1 /\ failed + Cardinality(bad) <= MaxFailed
       /\ failed' = failed + Cardinality(bad)
       /\ lost' = lost + InChunks(n, {k \in Chunks(n) : \E b \in bad : b <= k})

FlushBatch(n) ==
  /\ buffer' = 0
  /\ \E bad \in SUBSET (IF client THEN Chunks(n) ELSE {}) :
       /\ failed + Cardinality(bad) <= MaxFailed
       /\ failed' = failed + Cardinality(bad)
       /\ lost' = lost + InChunks(n, bad)

-----------------------------------------------------------------------------
(***************************************************************************)
(* The turn: Runner._handle, the crews and the adapter that dispatches.    *)
(***************************************************************************)

Crews == {"main", "skill"}
Keep(w, t) == /\ obs' = t.obs
              /\ frame' = [frame EXCEPT ![w].c = t.c]
Buffered(t) == buffer' = t.buffer /\ UNCHANGED flushVars

\* on_turn_start()
BeginTurn ==
  /\ phase = "idle" /\ turns < MaxTurns
  /\ LET t == BeforeTurn(State("main"), TRUE) IN Keep("main", t) /\ Buffered(t)
  /\ adapter' = [turn |-> 1, llm |-> TRUE, deny |-> FALSE]
  /\ phase' = "begin"
  /\ UNCHANGED <<settings, turns, crews, used>>

\* on_before_tool_call() as seen by n registered hooks; a refused call is followed by
\* AFTER_TOOL_CALL at once.
ToolHook(t, tool, turn, allowed) ==
  LET u == BeforeTool(t, tool, turn) IN IF allowed THEN u ELSE AfterTool(u, tool, turn)
ToolHooks(t, tool, turn, allowed, n) ==
  LET after[k \in 0..n] == IF k = 0 THEN t ELSE ToolHook(after[k - 1], tool, turn, allowed)
  IN after[n]

\* The pre-flight check of Runner._handle, and the crew that registers its hooks.
PreFlight(allowed) ==
  /\ phase = "begin"
  /\ LET t == ToolHooks(State("main"), "agent_execution", adapter.turn, allowed, 1)
     IN /\ Buffered(t) /\ obs' = t.obs
        /\ frame' = [frame EXCEPT !["main"] = NewFrame(MainCrew, t.c)]
  /\ IF allowed THEN phase' = "main" /\ crews' = crews + 1
                 ELSE phase' = "denied" /\ UNCHANGED crews
  /\ UNCHANGED <<settings, turns, adapter, used>>

\* on_before_llm(), once per LLM hook registered in the process.
LlmHooks(t, results, n) ==
  LET after[k \in 0..n] == IF k = 0 THEN t ELSE BeforeLlm(after[k - 1], results)
  IN after[n]

\* CrewAI calls the LLM again within a step when the call failed or the answer was unusable.
LlmCall(w) ==
  /\ phase = w /\ frame[w].step # "act" /\ used.llm < MaxLlm
  /\ LET t == IF adapter.llm THEN State(w) ELSE BeforeTurn(State(w), FALSE)
         u == LlmHooks(t, frame[w].results, crews)
     IN /\ Buffered(u) /\ obs' = u.obs
        /\ frame' = [frame EXCEPT ![w].c = u.c, ![w].step = "answer"]
  /\ adapter' = [adapter EXCEPT !.llm = TRUE, !.turn = IF adapter.llm THEN @ ELSE @ + 1]
  /\ used' = [used EXCEPT !.llm = @ + 1]
  /\ UNCHANGED <<settings, turns, phase, crews>>

\* The tool messages that follow the latest answer of the LLM.
Results(f, tool) ==
  LET before == IF f.step = "answer" THEN NoResults ELSE f.results
  IN IF named THEN [before EXCEPT ![tool] = @ + 1] ELSE before
Acted(f, tool, c) == [f EXCEPT !.c = c, !.step = "act", !.results = Results(f, tool)]

\* A tool call: the hooks run, then the tool (a refused one too, see Turn).
ToolCall(w, allowed) ==
  /\ phase = w /\ frame[w].step \in {"answer", "act"} /\ used.tools < MaxTools
  /\ LET t == ToolHooks(State(w), "tool", adapter.turn, allowed, 1 + others)
     IN /\ Buffered(t) /\ obs' = t.obs
        /\ frame' = [frame EXCEPT ![w] = Acted(@, "tool", t.c)]
  /\ adapter' = [adapter EXCEPT !.deny = @ \/ ~allowed]
  /\ used' = [used EXCEPT !.tools = @ + 1]
  /\ UNCHANGED <<settings, turns, phase, crews>>

\* _run() of the skill loader: the skill's thread starts with a copy of the context.
SkillStart(allowed) ==
  /\ phase = "main" /\ frame["main"].step \in {"answer", "act"} /\ used.tools < MaxTools
  /\ LET t == ToolHooks(State("main"), "skill_loader", adapter.turn, allowed, 1 + others)
     IN /\ Buffered(t) /\ obs' = t.obs
        /\ frame' = [main |-> Acted(frame["main"], "skill_loader", t.c),
                     skill |-> NewFrame(used.tools + 1, t.c)]
  /\ adapter' = [adapter EXCEPT !.deny = @ \/ ~allowed]
  /\ used' = [used EXCEPT !.tools = @ + 1]
  /\ phase' = "skill"
  /\ UNCHANGED <<settings, turns, crews>>

\* The skill ends, well or not, and its copy of the context is gone.
SkillEnd ==
  /\ phase = "skill"
  /\ frame' = [frame EXCEPT !["skill"] = NewFrame(MainCrew, EmptyContext)]
  /\ phase' = "main"
  /\ UNCHANGED <<settings, turns, adapter, crews, used, obs, buffer, flushVars>>

\* dispatch_after_turn() in the step callback; the tracer ignores intermediate turns.
StepDone(w, refused) ==
  /\ phase = w /\ frame[w].step \in {"answer", "act"}
  /\ ~(adapter.deny \/ refused)
  /\ frame' = [frame EXCEPT ![w].step = "think",
                            ![w].results = IF frame[w].step = "act" THEN @ ELSE NoResults]
  /\ adapter' = [adapter EXCEPT !.llm = FALSE]
  /\ UNCHANGED <<settings, turns, phase, crews, used, obs, buffer, flushVars>>

\* The same, but a denial is pending: the callback raises it, and it ends the turn or
\* the skill.
StepRaises(w, refused) ==
  /\ phase = w /\ frame[w].step \in {"answer", "act"}
  /\ adapter.deny \/ refused
  /\ adapter' = [adapter EXCEPT !.llm = FALSE, !.deny = FALSE]
  /\ phase' = IF w = "main" THEN "denied" ELSE "main"
  /\ frame' = IF w = "main" THEN frame ELSE [frame EXCEPT ![w] = NewFrame(MainCrew, EmptyContext)]
  /\ UNCHANGED <<settings, turns, crews, used, obs, buffer, flushVars>>

\* The main crew has its answer: task callback.
TaskDone ==
  /\ phase = "main" /\ frame["main"].step = "think"
  /\ LET t == TaskComplete(State("main")) IN Keep("main", t) /\ Buffered(t)
  /\ phase' = "after"
  /\ UNCHANGED <<settings, turns, adapter, crews, used>>

\* on_after_tool_call("agent_execution") of Runner._handle.
AgentDone ==
  /\ phase = "after"
  /\ LET t == AfterTool(State("main"), "agent_execution", adapter.turn)
     IN Keep("main", t) /\ Buffered(t)
  /\ phase' = "reply"
  /\ UNCHANGED <<settings, turns, adapter, crews, used>>

\* AFTER_TURN, dispatched after the reply was delivered and saved, or for a denial.
TurnDone ==
  /\ phase \in {"reply", "denied"}
  /\ LET t == AfterTurn(State("main")) IN Keep("main", t) /\ FlushBatch(t.buffer)
  /\ phase' = "cleanup"
  /\ UNCHANGED <<settings, turns, adapter, crews, used>>

\* Any exception or cancellation elsewhere in _handle goes straight to its finally block:
\* before the crew, in it, when run_and_index writes its files after it, and in the reply.
\* During a skill the event loop's thread is blocked in _run().
Fail ==
  /\ phase \in {"begin", "main", "after", "reply"}
  /\ phase' = "cleanup"
  /\ UNCHANGED <<settings, turns, adapter, crews, frame, used, obs, buffer, flushVars>>

\* adapter.cleanup(): SESSION_END.
Cleanup ==
  /\ phase = "cleanup"
  /\ LET t == FlushAndClose(State("main")) IN Keep("main", t) /\ FlushBatch(t.buffer)
  /\ phase' = "idle" /\ turns' = turns + 1
  /\ UNCHANGED <<settings, adapter, crews, used>>

Next ==
  \/ BeginTurn \/ SkillEnd \/ TaskDone \/ AgentDone \/ TurnDone \/ Fail \/ Cleanup
  \/ \E b \in BOOLEAN : PreFlight(b) \/ SkillStart(b)
  \/ \E w \in Crews : LlmCall(w)
  \/ \E w \in Crews, b \in BOOLEAN : ToolCall(w, b) \/ StepDone(w, b) \/ StepRaises(w, b)

Spec == Init /\ [][Next]_vars

-----------------------------------------------------------------------------
\* A crew never hangs an observation under one it has ended itself, nor under one of
\* another turn's trace.
OpenParents ==
  \A i \in DOMAIN obs' \ DOMAIN obs :
    LET p == obs'[i].parent
    IN /\ p \in DOMAIN obs => obs'[i].crew \notin obs[p].ended
       /\ p # None => obs'[p].trace = obs'[i].trace
ParentsAreOpen == [][OpenParents]_vars

Replaced(i) == obs[i].kind = "gen" /\ \E j \in DOMAIN obs : j > i /\ obs[j].kind = "gen"

\* Whatever way a turn ends, nothing of the main crew's stays open, but for LLM calls
\* that a later one has replaced.
SpansAreClosed ==
  phase = "idle" =>
    \A i \in DOMAIN obs : obs[i].crew = MainCrew => obs[i].ended # {} \/ Replaced(i)

\* Each message has a trace of its own, and no observation lands in another's.
OwnTrace == \A i \in DOMAIN obs : client => obs[i].trace = obs[i].turn

\* Between turns no event waits in the buffer, and a failed request costs its own chunk only.
EventsLeaveTheBuffer ==
  /\ phase = "idle" => buffer = 0
  /\ lost <= Chunk * failed

============================================================================
