---------------------------- MODULE AgentContext ----------------------------
(***************************************************************************)
(* The LLM context of the sessions: xiaopaw/agents/main_crew.py with       *)
(* xiaopaw/memory/context_mgmt.py and the sub-crews of skill_crew.py.      *)
(*                                                                         *)
(* A turn makes a MemoryAwareCrew; making it registers its before_llm_hook *)
(* in a list CrewAI (external) keeps for the process.  No crew takes its   *)
(* hook back, and CrewAI calls every hook for every LLM call, of whatever  *)
(* crew or skill.  A hook restores its own session into the messages it is *)
(* given the first time it runs, remembers that list, prunes and           *)
(* compresses it.  At the end of a turn the crew saves the list it         *)
(* remembers as ctx.json and appends its new part to raw.jsonl.            *)
(*                                                                         *)
(* A message is its role, the turns it comes from and whether it is a long *)
(* tool result.  serial says whether crews run one at a time: nothing in   *)
(* the Runner sees to it, but with one chat at a time it is so.  Bounds:   *)
(* MaxTurns, MaxSteps tool calls in all, MaxSkillCalls LLM calls a skill.  *)
(*                                                                         *)
(* The parts of the specification are named ContextInit and so on so that  *)
(* AgentProofs can extend this module beside Turn.                         *)
(***************************************************************************)
EXTENDS Integers, Sequences, FiniteSets

CONSTANTS
  Sessions, MaxTurns, MaxSteps, MaxSkillCalls,
  KeepMessages,  \* fresh_keep_turns * 2 = 20
  PruneKeep,     \* keep_turns * 2 = 20
  Threshold      \* model_limit * compress_threshold, in units of a short message

ASSUME ContextAssumption ==
  /\ MaxTurns \in Nat /\ MaxSteps \in Nat /\ MaxSkillCalls \in Nat
  /\ KeepMessages \in Nat \ {0} /\ PruneKeep \in Nat \ {0} /\ Threshold \in Nat

VARIABLES
  serial,   \* crews run one at a time
  ctx,      \* ctx.json of each session
  raw,      \* raw.jsonl of each session
  crews,    \* every crew made, in the order their hooks are called
  lists,    \* the messages of each crew's executor
  skill,    \* the messages of the latest sub-crew, its crew and its LLM calls
  shrunk    \* a list has been compressed (history)

contextVars == <<serial, ctx, raw, crews, lists, skill, shrunk>>

Turns == 1..MaxTurns
Roles == {"system", "user", "assistant", "tool"}
Running == {"made", "ready", "asked", "tool", "skill"}
NoList == MaxTurns + 1   \* _last_msgs = []
SkillList == 0           \* _last_msgs is the latest sub-crew's list

Message(role, k, long) == [role |-> role, turns |-> {k}, long |-> long]
Prompt == [role |-> "system", turns |-> {}, long |-> FALSE]
NewList(k) == <<Prompt, Message("user", k, FALSE)>>

ContextInit ==
  /\ serial \in BOOLEAN
  /\ ctx = [s \in Sessions |-> <<>>] /\ raw = [s \in Sessions |-> <<>>]
  /\ crews = <<>> /\ lists = <<>>
  /\ skill = [crew |-> 0, calls |-> 0, messages |-> <<>>]
  /\ shrunk = FALSE

-----------------------------------------------------------------------------
(* context_mgmt.py *)

LongResults(ms) == {i \in DOMAIN ms : ms[i].long}
Tokens(ms) == Len(ms) + 2 * Cardinality(LongResults(ms))

\* prune_tool_results()
PruneToolResults(ms) ==
  [i \in DOMAIN ms |-> IF i + PruneKeep <= Len(ms) THEN [ms[i] EXCEPT !.long = FALSE] ELSE ms[i]]

Latest(places) == CHOOSE i \in places : \A j \in places : j <= i
Users(ms) == {i \in DOMAIN ms : ms[i].role = "user"}

\* The end of the prefix to compress: the last user message that leaves KeepMessages, or 0.
Splits(ms) == {i \in Users(ms) : i + KeepMessages <= Len(ms)}
\* Mutant: no walk back to a user message.
SplitIndexAnywhere(ms) == IF KeepMessages < Len(ms) THEN Len(ms) - KeepMessages ELSE 0

SplitIndex(ms) == IF Splits(ms) = {} THEN 0 ELSE Latest(Splits(ms))

Summary(ms) ==
  [role |-> "system", turns |-> UNION {ms[i].turns : i \in DOMAIN ms}, long |-> FALSE]

\* maybe_compress()
MaybeCompress(ms) ==
  LET i == SplitIndex(ms)
  IN IF Tokens(ms) < Threshold \/ i = 0 THEN ms
     ELSE <<Summary(SubSeq(ms, 1, i))>> \o SubSeq(ms, i + 1, Len(ms))

-----------------------------------------------------------------------------
(* main_crew.py: the hook *)

\* The messages with these roles, in order.
Select(ms, roles) ==
  LET upTo[i \in 0..Len(ms)] ==
        IF i = 0 THEN <<>>
        ELSE IF ms[i].role \in roles THEN Append(upTo[i - 1], ms[i]) ELSE upTo[i - 1]
  IN upTo[Len(ms)]
SystemMessages(ms) == Select(ms, {"system"})
Conversation(ms) == Select(ms, Roles \ {"system"})

\* Mutant: the first user message instead of the last.
FirstUser(ms) ==
  IF Users(ms) = {} THEN <<>>
  ELSE <<ms[CHOOSE i \in Users(ms) : \A j \in Users(ms) : i <= j]>>
\* The last user message, as a sequence; it may have gone into a summary.
LastUser(ms) == IF Users(ms) = {} THEN <<>> ELSE <<ms[Latest(Users(ms))]>>

\* _restore_session(): a summary is a system message too, and the tag that would keep
\* it, <context_summary>, is not the one maybe_compress writes.
Restored(ms, s) ==
  IF ctx[s] = <<>> THEN ms
  ELSE SystemMessages(ms) \o Conversation(ctx[s]) \o LastUser(ms)

\* Mutant: the system messages are not counted.
RestoredLenHistory(ms, s) == Len(Conversation(ctx[s]))

RestoredLen(ms, s) ==
  IF ctx[s] = <<>> THEN 0
  ELSE Len(SystemMessages(ms)) + Len(Conversation(ctx[s]))

Minus(a, b) == IF a < b THEN 0 ELSE a - b

\* Mutant: the session is restored at every call.
HookRestoresAlways(t, k, id) ==
  LET c == t.crews[k]
      ms == Restored(t.messages, c.session)
      short == MaybeCompress(PruneToolResults(ms))
  IN [messages |-> short,
      crews |-> [t.crews EXCEPT ![k].loaded = TRUE, ![k].last = id,
                                ![k].hist = Minus(RestoredLen(t.messages, c.session), Len(ms) - Len(short))],
      shrunk |-> t.shrunk \/ short # PruneToolResults(ms)]

\* before_llm_hook() of crew k on the list id, as an operator on the messages and the crews.
Hook(t, k, id) ==
  LET c == t.crews[k]
      ms == IF c.loaded THEN t.messages ELSE Restored(t.messages, c.session)
      hist == IF c.loaded THEN c.hist ELSE RestoredLen(t.messages, c.session)
      short == MaybeCompress(PruneToolResults(ms))
  IN [messages |-> short,
      crews |-> [t.crews EXCEPT ![k].loaded = TRUE, ![k].last = id,
                                ![k].hist = Minus(hist, Len(ms) - Len(short))],
      shrunk |-> t.shrunk \/ short # PruneToolResults(ms)]

\* All hooks of the process on one LLM call.
Hooks(ms, id) ==
  LET after[k \in 0..Len(crews)] ==
        IF k = 0 THEN [messages |-> ms, crews |-> crews, shrunk |-> shrunk]
        ELSE Hook(after[k - 1], k, id)
  IN after[Len(crews)]

-----------------------------------------------------------------------------
Busy(k) == crews[k].state \in Running
\* The event loop waits in SkillLoaderTool._run while a skill runs.
LoopFree == \A k \in DOMAIN crews : crews[k].state # "skill"
To(k, state) == crews' = [crews EXCEPT ![k].state = state]

\* agent_fn(): the Runner handles one message of a session at a time.
Make(s) ==
  /\ LoopFree /\ Len(crews) < MaxTurns
  /\ \A k \in DOMAIN crews : Busy(k) => crews[k].session # s /\ ~serial
  /\ crews' = Append(crews, [session |-> s, state |-> "made", steps |-> 0,
                             loaded |-> FALSE, hist |-> 0, last |-> NoList])
  /\ lists' = Append(lists, NewList(Len(lists) + 1))
  /\ UNCHANGED <<serial, ctx, raw, skill, shrunk>>

\* CrewAI calls the LLM; the hooks run before the request leaves.
LlmCall(k) ==
  /\ LoopFree /\ crews[k].state \in {"made", "ready"}
  /\ LET t == Hooks(lists[k], k)
     IN /\ lists' = [lists EXCEPT ![k] = t.messages]
        /\ crews' = [t.crews EXCEPT ![k].state = "asked"]
        /\ shrunk' = t.shrunk
  /\ UNCHANGED <<serial, ctx, raw, skill>>

Steps == LET upTo[k \in 0..Len(crews)] == IF k = 0 THEN 0 ELSE upTo[k - 1] + crews[k].steps
         IN upTo[Len(crews)]

\* The answer asks for a tool.
ToolCalled(k) ==
  /\ LoopFree /\ crews[k].state = "asked" /\ Steps < MaxSteps
  /\ lists' = [lists EXCEPT ![k] = Append(@, Message("assistant", k, FALSE))]
  /\ crews' = [crews EXCEPT ![k].state = "tool", ![k].steps = @ + 1]
  /\ UNCHANGED <<serial, ctx, raw, skill, shrunk>>

\* The tool's result, long or short; of a skill as of any other tool.
ToolReturns(k, long) ==
  /\ crews[k].state \in {"tool", "skill"}
  /\ crews[k].state = "tool" => LoopFree
  /\ lists' = [lists EXCEPT ![k] = Append(@, Message("tool", k, long))]
  /\ To(k, "ready")
  /\ UNCHANGED <<serial, ctx, raw, skill, shrunk>>

\* The tool is a task skill: build_skill_crew() and akickoff().
SkillStart(k) ==
  /\ LoopFree /\ crews[k].state = "tool" /\ MaxSkillCalls > 0
  /\ skill' = [crew |-> k, calls |-> 0, messages |-> NewList(k)]
  /\ To(k, "skill")
  /\ UNCHANGED <<serial, ctx, raw, lists, shrunk>>

\* An LLM call of the sub-crew and the tool call it answers with.
SkillLlmCall(k, long) ==
  /\ crews[k].state = "skill" /\ skill.calls < MaxSkillCalls
  /\ LET t == Hooks(skill.messages, SkillList)
     IN /\ skill' = [skill EXCEPT !.calls = @ + 1,
                       !.messages = t.messages \o
                          <<Message("assistant", k, FALSE), Message("tool", k, long)>>]
        /\ crews' = t.crews
        /\ shrunk' = t.shrunk
  /\ UNCHANGED <<serial, ctx, raw, lists>>

\* The list _last_msgs refers to, now.
LastMessages(k, now) ==
  LET id == crews[k].last
  IN IF id = NoList THEN <<>> ELSE IF id = SkillList THEN skill.messages ELSE now[id]

\* Python's ms[n:]
From(ms, n) == SubSeq(ms, n + 1, Len(ms))

\* run_and_index() after akickoff(): append_session_raw() and save_session_ctx().
Finish(k) ==
  /\ LoopFree /\ crews[k].state = "asked"
  /\ lists' = [lists EXCEPT ![k] = Append(@, Message("assistant", k, FALSE))]
  /\ LET s == crews[k].session
         last == LastMessages(k, lists')
     IN /\ raw' = [raw EXCEPT ![s] = @ \o From(last, crews[k].hist)]
        /\ ctx' = [ctx EXCEPT ![s] = last]
  /\ To(k, "done")
  /\ UNCHANGED <<serial, skill, shrunk>>

\* An exception, a refusal or the cancellation of the worker: nothing is saved.
Fail(k) ==
  /\ LoopFree /\ Busy(k)
  /\ To(k, IF crews[k].loaded THEN "failed" ELSE "unused")
  /\ UNCHANGED <<serial, ctx, raw, lists, skill, shrunk>>

ContextNext ==
  \/ \E s \in Sessions : Make(s)
  \/ \E k \in DOMAIN crews :
       \/ LlmCall(k) \/ ToolCalled(k) \/ SkillStart(k) \/ Finish(k) \/ Fail(k)
       \/ \E long \in BOOLEAN : ToolReturns(k, long) \/ SkillLlmCall(k, long)

ContextSpec == ContextInit /\ [][ContextNext]_contextVars

-----------------------------------------------------------------------------
Everywhere(P(_)) ==
  /\ \A s \in Sessions : P(ctx[s])
  /\ \A k \in DOMAIN lists : P(lists[k])
  /\ P(skill.messages)

CallsPrecede(ms) ==
  \A i \in DOMAIN ms : ms[i].role = "tool" =>
     i > 1 /\ ms[i - 1].role = "assistant" /\ ms[i - 1].turns = ms[i].turns

\* No list sent to the LLM or kept for the next turn has a tool result without the
\* assistant message that called the tool: compressing never cuts between the two,
\* whichever hook does it and however sessions interleave.
ToolResultsFollowTheirCalls == Everywhere(CallsPrecede)

\* What the user asked in this turn is in every request of the turn, as long as the turn
\* itself fits the messages that are kept: neither restoring a session, be it another's,
\* nor compressing removes it.
QuestionIsAsked ==
  \A k \in DOMAIN crews :
    crews[k].state = "asked" /\ 2 * crews[k].steps < KeepMessages =>
      \E i \in DOMAIN lists[k] : lists[k][i].role = "user" /\ lists[k][i].turns = {k}

Of(ms, s) == \A i \in DOMAIN ms : \A k \in ms[i].turns : crews[k].session = s
NoneLeftUnused == \A k \in DOMAIN crews : crews[k].state # "unused"
Separate ==
  /\ \A s \in Sessions : Of(ctx[s], s) /\ Of(raw[s], s)
  /\ \A k \in DOMAIN crews : Of(lists[k], crews[k].session)
  /\ skill.crew # 0 => Of(skill.messages, crews[skill.crew].session)

\* When crews run one at a time and none fails between its construction and its first
\* LLM call, no session's messages reach another's requests or files, although the hooks
\* of earlier sessions still run.
SessionsStaySeparate == serial /\ NoneLeftUnused => Separate

LinesOf(s, k) == {i \in DOMAIN raw[s] : k \in raw[s][i].turns}

\* Under the same conditions, and as long as nothing was compressed, raw.jsonl has every
\* message of every finished turn once: the question, a call and a result for each step,
\* and the reply.
RawHoldsEveryMessage ==
  serial /\ NoneLeftUnused /\ ~shrunk =>
    \A k \in DOMAIN crews : crews[k].state = "done" =>
      Cardinality(LinesOf(crews[k].session, k)) = 2 * crews[k].steps + 2

=============================================================================
