---------------------------- MODULE AgentProofs ----------------------------
(***************************************************************************)
(* Proofs about one turn (Turn) and about the contexts of all turns        *)
(* (AgentContext), for every number of turns, crews and tool calls and     *)
(* every limit on the length of a context.                                 *)
(*                                                                         *)
(* Turn.  Each safety property follows from an inductive invariant that    *)
(* says what is known at each point of _handle: a denial that was not      *)
(* absorbed is either still pending inside the agent, or has left it for   *)
(* good (DenialInv); a final message is shown only on the way out, and     *)
(* nothing is saved before the reply (ShownInv); the events dispatched so  *)
(* far are a function of pc (EventsInv).                                   *)
(*                                                                         *)
(* AgentContext.  The invariant says what holds of the lists of messages   *)
(* between the steps: every list has its results behind their calls, and   *)
(* the list of a crew whose tool is at work ends with the call (CallsInv); *)
(* the last user message of a crew's list is its question, and so few      *)
(* messages follow that compressing never cuts it away (AsksInv).  With    *)
(* crews one at a time only the last one is busy and only its hook has not *)
(* run, so that no hook restores another session (AloneInv); and as long   *)
(* as nothing was compressed its turn is the end of its list, behind hist, *)
(* which is what Finish appends to raw.jsonl (RawInv).                     *)
(*                                                                         *)
(* The hooks of an LLM call are a recursion over the crews.  Recursion     *)
(* gives the sequence of its values, by an induction that is done with     *)
(* sets of numbers (NatUpTo); HookingPreserves says that a property of     *)
(* lists that restoring and shortening keep holds after all the hooks.     *)
(***************************************************************************)
EXTENDS Turn, AgentContext, SequenceTheorems, FiniteSetTheorems, WellFoundedInduction, TLAPS

-----------------------------------------------------------------------------
(* One turn *)

Refused == denied /\ ~absorbed

\* Where a denial is between the guardrail and the user.
DenialInv ==
  /\ Refused => \/ pending /\ pc \in {"think", "tool", "step"}
                \/ pc \in {"denied", "failed", "cleanup", "done"}
  /\ pc = "think" /\ crew = "main" => ~pending
  /\ pending => pc \in {"think", "tool", "step", "cleanup", "done"}
  /\ Refused => shown # "reply" /\ saved = "no"
  /\ shown = "reply" \/ saved # "no" =>
       pc \in {"append", "after", "failed", "cleanup", "done"}

\* What the user sees, against what is saved.
ShownInv ==
  /\ shown \in {"denial", "error"} => pc \in {"cleanup", "done"}
  /\ saved = "yes" => pc \in {"after", "cleanup", "done"}
  /\ saved = "yes" => shown \notin {"denial", "error"}
  /\ pc \in {"append", "after"} => unsent \/ shown = "reply"
  /\ pc \in {"cleanup", "done"} /\ ~cancelled =>
       unsent \/ shown \in {"command", "reply", "denial", "error"}
  /\ pc = "after" => saved = "yes"
  /\ pc \in {"cleanup", "done"} /\ ~cancelled /\ ~unsent =>
       /\ saved = "yes" <=> shown = "reply"
       /\ saved = "lines" => shown = "error"

FullTurn == <<"BEFORE_TURN", "AFTER_TURN">>
Early == {"start", "command"}
Ending == {"failed", "cleanup", "done"}

\* The adapter exists from "opened" on; the events are those of the path taken.
EventsInv ==
  /\ pc \in Early => adapter = "none"
  /\ pc \notin Early \cup Ending => adapter = "open"
  /\ pc = "opened" => events = <<>>
  /\ pc \notin Early \cup Ending \cup {"opened"} => events = <<"BEFORE_TURN">>
  /\ pc \in Early \/ adapter = "none" => events = <<>> /\ saved = "no" /\ shown # "denial"
  /\ pc = "failed" => adapter # "cleaned" /\ events \in {<<>>, <<"BEFORE_TURN">>}
  /\ pc = "cleanup" =>
       /\ adapter # "cleaned"
       /\ events \in {<<>>, <<"BEFORE_TURN">>, FullTurn}
       /\ saved = "yes" \/ shown = "denial" => events = FullTurn
  /\ TraceIsClosed
  /\ pc = "done" => adapter # "open"

IInv == TypeOK /\ DenialInv /\ ShownInv /\ EventsInv

-----------------------------------------------------------------------------

\* TypeOK in two halves, for the provers: the flags and the rest.
Flags ==
  /\ card \in BOOLEAN /\ unsent \in BOOLEAN /\ last \in BOOLEAN
  /\ pending \in BOOLEAN /\ denied \in BOOLEAN /\ absorbed \in BOOLEAN
  /\ cancelled \in BOOLEAN

Domains ==
  /\ pc \in PcStates
  /\ adapter \in {"none", "open", "cleaned"}
  /\ saved \in {"no", "lines", "yes"}
  /\ shown \in Shown
  /\ events \in Seq(Events)
  /\ crew \in {"main", "skill"}
  /\ calls \in 0..MaxCalls
  /\ call \in {"none", "allowed", "denied"}
  /\ ran \in SUBSET {"allowed", "denied"}
  /\ pc = "tool" => call # "none"

\* TypeOK is the two halves.
LEMMA TypeHalves == TypeOK <=> Flags /\ Domains
BY Zenon DEF TypeOK, Flags, Domains

\* The invariant holds at the start.
LEMMA InitInv == Init => IInv
<1>1. Init => Domains
  BY TurnAssumption DEF Init, Domains, PcStates, AgentStates, Shown, Events
<1>2. Init => Flags
  BY Zenon DEF Init, Flags
<1>3. Init => DenialInv /\ ShownInv
  BY DEF Init, DenialInv, ShownInv, Refused
<1>4. Init => EventsInv
  BY DEF Init, EventsInv, TraceIsClosed, Early, Ending
<1> QED BY <1>1, <1>2, <1>3, <1>4, TypeHalves DEF IInv

\* Every step keeps the flags Boolean,
LEMMA FlagsStep == Flags /\ [Next]_vars => Flags'
<1> SUFFICES ASSUME Flags, [Next]_vars PROVE Flags'
  OBVIOUS
<1> USE DEF Flags, userVars, agentVars
<1>1. CASE SlashCommand BY <1>1, Zenon DEF SlashCommand
<1>2. CASE SendCommandReply BY <1>2, Zenon DEF SendCommandReply, Answer, Show
<1>3. CASE GetSession BY <1>3, Zenon DEF GetSession
<1>4. CASE BeginTurn BY <1>4, Zenon DEF BeginTurn
<1>5. CASE LoadHistory BY <1>5, Zenon DEF LoadHistory
<1>6. CASE SendThinking BY <1>6, Zenon DEF SendThinking
<1>7. CASE Preflight BY <1>7, Zenon DEF Preflight
<1>8. CASE Deliver BY <1>8, Zenon DEF Deliver, Answer, Show
<1>9. CASE AppendTurn BY <1>9, Zenon DEF AppendTurn
<1>10. CASE AfterTurn BY <1>10, Zenon DEF AfterTurn
<1>11. CASE Refuse BY <1>11, Zenon DEF Refuse, Show
<1>12. CASE Apologise BY <1>12, Zenon DEF Apologise, Show
<1>13. CASE Cleanup BY <1>13, Zenon DEF Cleanup
<1>14. CASE LLMFails BY <1>14, Zenon DEF LLMFails, BackToMain
<1>15. CASE CallTool BY <1>15, Zenon DEF CallTool
<1>16. CASE RunTool BY <1>16, Zenon DEF RunTool
<1>17. CASE AgentAnswers BY <1>17, Zenon DEF AgentAnswers
<1>18. CASE StepCallback BY <1>18, Zenon DEF StepCallback, BackToMain
<1>19. CASE TaskCallback BY <1>19, Zenon DEF TaskCallback
<1>20. CASE Cancel BY <1>20, Zenon DEF Cancel, Awaits, Answers
<1>21. CASE UNCHANGED vars BY <1>21, Zenon DEF vars
<1> QED
  BY <1>1, <1>2, <1>3, <1>4, <1>5, <1>6, <1>7, <1>8, <1>9, <1>10, <1>11, <1>12, <1>13,
     <1>14, <1>15, <1>16, <1>17, <1>18, <1>19, <1>20, <1>21 DEF Next, Handle, Agent

\* and the rest in its domains.
LEMMA DomainsStep == Domains /\ [Next]_vars => Domains'
<1> SUFFICES ASSUME Domains, [Next]_vars PROVE Domains'
  OBVIOUS
<1> USE TurnAssumption DEF Domains, PcStates, AgentStates, Shown, Events, userVars, agentVars
<1>1. CASE SlashCommand BY <1>1 DEF SlashCommand
<1>2. CASE SendCommandReply BY <1>2 DEF SendCommandReply, Answer, Show
<1>3. CASE GetSession BY <1>3 DEF GetSession
<1>4. CASE BeginTurn BY <1>4 DEF BeginTurn
<1>5. CASE LoadHistory BY <1>5 DEF LoadHistory
<1>6. CASE SendThinking BY <1>6 DEF SendThinking
<1>7. CASE Preflight BY <1>7 DEF Preflight
<1>8. CASE Deliver BY <1>8 DEF Deliver, Answer, Show
<1>9. CASE AppendTurn BY <1>9 DEF AppendTurn
<1>10. CASE AfterTurn BY <1>10 DEF AfterTurn
<1>11. CASE Refuse BY <1>11 DEF Refuse, Show
<1>12. CASE Apologise BY <1>12 DEF Apologise, Show
<1>13. CASE Cleanup BY <1>13 DEF Cleanup
<1>14. CASE LLMFails BY <1>14 DEF LLMFails, BackToMain
<1>15. CASE CallTool BY <1>15 DEF CallTool
<1>16. CASE RunTool BY <1>16 DEF RunTool
<1>17. CASE AgentAnswers BY <1>17 DEF AgentAnswers
<1>18. CASE StepCallback BY <1>18 DEF StepCallback, BackToMain
<1>19. CASE TaskCallback BY <1>19 DEF TaskCallback
<1>20. CASE Cancel BY <1>20 DEF Cancel, Awaits, Answers
<1>21. CASE UNCHANGED vars BY <1>21 DEF vars
<1> QED
  BY <1>1, <1>2, <1>3, <1>4, <1>5, <1>6, <1>7, <1>8, <1>9, <1>10, <1>11, <1>12, <1>13,
     <1>14, <1>15, <1>16, <1>17, <1>18, <1>19, <1>20, <1>21 DEF Next, Handle, Agent

\* Every step keeps TypeOK,
LEMMA TypeStep == TypeOK /\ [Next]_vars => TypeOK'
<1>1. Flags' /\ Domains' => TypeOK'
  BY Zenon DEF TypeOK, Flags, Domains
<1> QED BY <1>1, FlagsStep, DomainsStep, TypeHalves

\* what is known of a denial,
LEMMA DenialStep == TypeOK /\ DenialInv /\ [Next]_vars => DenialInv'
<1> SUFFICES ASSUME TypeOK, DenialInv, [Next]_vars PROVE DenialInv'
  OBVIOUS
<1> USE DEF DenialInv, Refused, userVars, agentVars
<1>1. CASE SlashCommand BY <1>1 DEF SlashCommand
<1>2. CASE SendCommandReply BY <1>2 DEF SendCommandReply, Answer, Show
<1>3. CASE GetSession BY <1>3 DEF GetSession
<1>4. CASE BeginTurn BY <1>4 DEF BeginTurn
<1>5. CASE LoadHistory BY <1>5 DEF LoadHistory
<1>6. CASE SendThinking BY <1>6 DEF SendThinking
<1>7. CASE Preflight BY <1>7 DEF Preflight
<1>8. CASE Deliver BY <1>8 DEF Deliver, Answer, Show
<1>9. CASE AppendTurn BY <1>9 DEF AppendTurn
<1>10. CASE AfterTurn BY <1>10 DEF AfterTurn
<1>11. CASE Refuse BY <1>11 DEF Refuse, Show
<1>12. CASE Apologise BY <1>12 DEF Apologise, Show
<1>13. CASE Cleanup BY <1>13 DEF Cleanup
<1>14. CASE LLMFails BY <1>14 DEF LLMFails, BackToMain, TypeOK
<1>15. CASE CallTool BY <1>15 DEF CallTool
<1>16. CASE RunTool BY <1>16 DEF RunTool
<1>17. CASE AgentAnswers BY <1>17 DEF AgentAnswers
<1>18. CASE StepCallback
  <2>1. CASE pending' = FALSE /\ crew = "skill" /\ BackToMain /\ absorbed' = TRUE
    <3>1. ~Refused' /\ ~pending'
      BY <2>1, Zenon
    <3>2. pc = "step" /\ pc' = "step" /\ shown' = shown /\ saved' = saved
      BY <1>18, <2>1 DEF StepCallback, BackToMain
    <3> QED BY <3>1, <3>2
  <2>2. CASE pending' = FALSE /\ crew # "skill" /\ pc' = "denied"
    <3>1. ~pending'
      BY <2>2, Zenon
    <3>2. pc = "step" /\ shown' = shown /\ saved' = saved
      BY <1>18 DEF StepCallback
    <3> QED BY <2>2, <3>1, <3>2
  <2>3. CASE ~pending /\ UNCHANGED <<pending, denied, absorbed>>
    <3>1. pc = "step" /\ shown' = shown /\ saved' = saved /\ pc' \in {"think", "step", "task", "denied"}
      BY <1>18, <2>3 DEF StepCallback, BackToMain
    <3> QED BY <2>3, <3>1
  <2> QED BY <1>18, <2>1, <2>2, <2>3 DEF StepCallback
<1>19. CASE TaskCallback BY <1>19 DEF TaskCallback
<1>20. CASE Cancel BY <1>20 DEF Cancel, Awaits, Answers
<1>21. CASE UNCHANGED vars BY <1>21 DEF vars
<1> QED
  BY <1>1, <1>2, <1>3, <1>4, <1>5, <1>6, <1>7, <1>8, <1>9, <1>10, <1>11, <1>12, <1>13,
     <1>14, <1>15, <1>16, <1>17, <1>18, <1>19, <1>20, <1>21 DEF Next, Handle, Agent

\* of what is shown and saved,
LEMMA ShownStep == TypeOK /\ DenialInv /\ ShownInv /\ [Next]_vars => ShownInv'
<1> SUFFICES ASSUME TypeOK, DenialInv, ShownInv, [Next]_vars PROVE ShownInv'
  OBVIOUS
<1> USE DEF ShownInv, userVars, agentVars
<1>1. CASE SlashCommand BY <1>1 DEF SlashCommand
<1>2. CASE SendCommandReply BY <1>2 DEF SendCommandReply, Answer, Show, DenialInv
<1>3. CASE GetSession BY <1>3 DEF GetSession
<1>4. CASE BeginTurn BY <1>4 DEF BeginTurn
<1>5. CASE LoadHistory BY <1>5 DEF LoadHistory
<1>6. CASE SendThinking BY <1>6 DEF SendThinking
<1>7. CASE Preflight BY <1>7 DEF Preflight
<1>8. CASE Deliver BY <1>8 DEF Deliver, Answer, Show
<1>9. CASE AppendTurn BY <1>9 DEF AppendTurn
<1>10. CASE AfterTurn BY <1>10 DEF AfterTurn
<1>11. CASE Refuse BY <1>11 DEF Refuse, Show, DenialInv
<1>12. CASE Apologise BY <1>12 DEF Apologise, Show
<1>13. CASE Cleanup BY <1>13 DEF Cleanup
<1>14. CASE LLMFails BY <1>14 DEF LLMFails, BackToMain
<1>15. CASE CallTool BY <1>15 DEF CallTool
<1>16. CASE RunTool BY <1>16 DEF RunTool
<1>17. CASE AgentAnswers BY <1>17 DEF AgentAnswers
<1>18. CASE StepCallback BY <1>18 DEF StepCallback, BackToMain
<1>19. CASE TaskCallback BY <1>19 DEF TaskCallback
<1>20. CASE Cancel BY <1>20 DEF Cancel, Awaits, Answers
<1>21. CASE UNCHANGED vars BY <1>21 DEF vars
<1> QED
  BY <1>1, <1>2, <1>3, <1>4, <1>5, <1>6, <1>7, <1>8, <1>9, <1>10, <1>11, <1>12, <1>13,
     <1>14, <1>15, <1>16, <1>17, <1>18, <1>19, <1>20, <1>21 DEF Next, Handle, Agent

LEMMA AppendToOne == ASSUME NEW a, NEW b PROVE Append(<<a>>, b) = <<a, b>>
<1> DEFINE s == Append(<<a>>, b)
           t == <<a, b>>
<1>1. s \in Seq({a, b}) /\ t \in Seq({a, b})
  BY <<a>> \in Seq({a, b})
<1>2. Len(s) = 2 /\ s[1] = a /\ s[2] = b
  BY <<a>> \in Seq({a, b})
<1>3. Len(t) = 2 /\ t[1] = a /\ t[2] = b
  OBVIOUS
<1>4. \A i \in 1..Len(s) : s[i] = t[i]
  BY <1>2, <1>3
<1> QED BY <1>1, <1>2, <1>3, <1>4, SeqEqual

LEMMA AppendToTwo == ASSUME NEW a, NEW b, NEW c PROVE Append(<<a, b>>, c) = <<a, b, c>>
<1> DEFINE s == Append(<<a, b>>, c)
           t == <<a, b, c>>
<1>1. s \in Seq({a, b, c}) /\ t \in Seq({a, b, c})
  BY <<a, b>> \in Seq({a, b, c})
<1>2. Len(s) = 3 /\ s[1] = a /\ s[2] = b /\ s[3] = c
  BY <<a, b>> \in Seq({a, b, c})
<1>3. Len(t) = 3 /\ t[1] = a /\ t[2] = b /\ t[3] = c
  OBVIOUS
<1>4. \A i \in 1..Len(s) : s[i] = t[i]
  BY <1>2, <1>3
<1> QED BY <1>1, <1>2, <1>3, <1>4, SeqEqual

\* and of the events.
LEMMA EventsStep == TypeOK /\ ShownInv /\ EventsInv /\ [Next]_vars => EventsInv'
<1> SUFFICES ASSUME TypeOK, ShownInv, EventsInv, [Next]_vars PROVE EventsInv'
  OBVIOUS
<1>a. /\ Append(<<>>, "BEFORE_TURN") = <<"BEFORE_TURN">>
      /\ Append(<<"BEFORE_TURN">>, "AFTER_TURN") = FullTurn
      /\ Append(<<>>, "SESSION_END") = <<"SESSION_END">>
      /\ Append(<<"BEFORE_TURN">>, "SESSION_END") = <<"BEFORE_TURN", "SESSION_END">>
      /\ Append(FullTurn, "SESSION_END") = FullTrace
  BY AppendToOne, AppendToTwo DEF FullTurn, FullTrace
<1> HIDE DEF FullTurn, FullTrace
<1> USE DEF EventsInv, TraceIsClosed, ShownInv, Early, Ending, userVars, agentVars
<1>1. CASE SlashCommand BY <1>1 DEF SlashCommand
<1>2. CASE SendCommandReply BY <1>2 DEF SendCommandReply, Answer, Show
<1>3. CASE GetSession BY <1>3 DEF GetSession
<1>4. CASE BeginTurn BY <1>4, <1>a DEF BeginTurn
<1>5. CASE LoadHistory BY <1>5 DEF LoadHistory
<1>6. CASE SendThinking BY <1>6 DEF SendThinking
<1>7. CASE Preflight BY <1>7 DEF Preflight
<1>8. CASE Deliver BY <1>8 DEF Deliver, Answer, Show
<1>9. CASE AppendTurn BY <1>9 DEF AppendTurn
<1>10. CASE AfterTurn BY <1>10, <1>a DEF AfterTurn
<1>11. CASE Refuse BY <1>11, <1>a DEF Refuse, Show
<1>12. CASE Apologise BY <1>12 DEF Apologise, Show
<1>13. CASE Cleanup
  <2>1. /\ pc = "cleanup" /\ pc' = "done" /\ saved' = saved /\ shown' = shown
        /\ adapter = "open" => adapter' = "cleaned" /\ events' = Append(events, "SESSION_END")
        /\ adapter # "open" => adapter' = adapter /\ events' = events
    BY <1>13, Zenon DEF Cleanup
  <2>2. CASE adapter = "open"
    BY <2>1, <2>2, <1>a
  <2>3. CASE adapter # "open"
    BY <2>1, <2>3 DEF TypeOK
  <2> QED BY <2>2, <2>3
<1>14. CASE LLMFails BY <1>14 DEF LLMFails, BackToMain
<1>15. CASE CallTool BY <1>15 DEF CallTool
<1>16. CASE RunTool BY <1>16 DEF RunTool
<1>17. CASE AgentAnswers BY <1>17 DEF AgentAnswers
<1>18. CASE StepCallback BY <1>18 DEF StepCallback, BackToMain
<1>19. CASE TaskCallback BY <1>19 DEF TaskCallback
<1>20. CASE Cancel BY <1>20, <1>a DEF Cancel, Awaits, Answers
<1>21. CASE UNCHANGED vars BY <1>21 DEF vars
<1> QED
  BY <1>1, <1>2, <1>3, <1>4, <1>5, <1>6, <1>7, <1>8, <1>9, <1>10, <1>11, <1>12, <1>13,
     <1>14, <1>15, <1>16, <1>17, <1>18, <1>19, <1>20, <1>21 DEF Next, Handle, Agent

\* The invariant holds in every behaviour of Turn.
LEMMA Invariance == Spec => []IInv
<1>1. IInv /\ [Next]_vars => IInv'
  BY TypeStep, DenialStep, ShownStep, EventsStep DEF IInv
<1> QED BY InitInv, <1>1, PTL DEF Spec

-----------------------------------------------------------------------------

\* Type correctness of Turn: every variable of _handle stays in its domain and
\* the number of tool calls within its bound.
THEOREM TurnTypeCorrect == Spec => []TypeOK
<1>1. IInv => TypeOK
  BY DEF IInv
<1> QED BY <1>1, Invariance, PTL

\* What a guardrail refused is neither answered nor saved, unless a skill's crew
\* absorbed the denial, however many tool calls and skills the agent runs.
THEOREM DenialsRefuse == Spec => []DeniedTurnIsRefused
<1>1. IInv => DeniedTurnIsRefused
  BY DEF IInv, DenialInv, Refused, DeniedTurnIsRefused
<1> QED BY <1>1, Invariance, PTL

\* The main agent takes no step with a denial pending.
THEOREM DenialsStopTheAgent == Spec => []DenialEndsTheStep
<1>1. IInv => DenialEndsTheStep
  BY DEF IInv, DenialInv, DenialEndsTheStep
<1> QED BY <1>1, Invariance, PTL

\* The chat and the session agree: a turn saved and counted is never disowned by a later
\* error or denial, a reply the user keeps is saved, and of what is saved by half the user
\* was told that it failed.
THEOREM ChatAgrees == Spec => []ChatMatchesSession
<1>1. IInv => ChatMatchesSession
  BY DEF IInv, ShownInv, ChatMatchesSession
<1> QED BY <1>1, Invariance, PTL

\* Unless cancelled or undeliverable, every turn ends with a final answer.
THEOREM TurnsAreAnswered == Spec => []TurnIsAnswered
<1>1. IInv => TurnIsAnswered
  BY DEF IInv, ShownInv, TurnIsAnswered
<1> QED BY <1>1, Invariance, PTL

\* However a turn ends, its trace is opened and closed once, in order.
THEOREM TracesAreClosed == Spec => []TraceIsClosed
<1>1. IInv => TraceIsClosed
  BY DEF IInv, EventsInv
<1> QED BY <1>1, Invariance, PTL

-----------------------------------------------------------------------------
(* The context of all turns *)

Messages == [role : Roles, turns : SUBSET Nat, long : BOOLEAN]
Lists == Seq(Messages)
CrewStates == Running \cup {"done", "failed", "unused"}
CrewRecords == [session : Sessions, state : CrewStates, steps : Nat, loaded : BOOLEAN,
                hist : Nat, last : Nat]
Work == [messages : Lists, crews : Seq(CrewRecords), shrunk : BOOLEAN]

\* Every message stems from turns in T.
Within(ms, T) == \A i \in DOMAIN ms : ms[i].turns \subseteq T

\* A tool is at work for the crew, so that its list ends with the call.
Calling(c) == c.state \in {"tool", "skill"}
\* The messages of the turn after its question, in a list nothing was removed from.
Behind(c) == IF Calling(c) THEN 2 * c.steps - 1 ELSE 2 * c.steps

\* The last user message is the question of turn k, and at most n messages follow it.
Asks(ms, k, n) ==
  \E q \in DOMAIN ms : /\ ms[q].role = "user" /\ ms[q].turns = {k} /\ Len(ms) <= q + n
                       /\ \A i \in DOMAIN ms : ms[i].role = "user" => i <= q

\* Turn k begins at some place behind the first hist messages, and n messages follow that place;
\* after the first hist messages nothing is of another turn.
EndsWith(ms, k, hist, n) ==
  \E p \in Nat : /\ hist < p /\ Len(ms) = p + n
                 /\ \A i \in DOMAIN ms : /\ k \in ms[i].turns <=> p <= i
                                         /\ hist < i => ms[i].turns \subseteq {k}

ContextTypeInv ==
  /\ serial \in BOOLEAN /\ shrunk \in BOOLEAN
  /\ ctx \in [Sessions -> Lists] /\ raw \in [Sessions -> Lists]
  /\ crews \in Seq(CrewRecords) /\ lists \in Seq(Lists)
  /\ Len(lists) = Len(crews) /\ Len(crews) <= MaxTurns
  /\ skill \in [crew : 0..Len(crews), calls : Nat, messages : Lists]

KnownInv ==
  /\ \A s \in Sessions : Within(ctx[s], 1..Len(crews)) /\ Within(raw[s], 1..Len(crews))
  /\ \A k \in 1..Len(crews) : /\ Within(lists[k], 1..Len(crews))
                              /\ crews[k].last \in (1..Len(crews)) \cup {SkillList, NoList}
  /\ Within(skill.messages, 1..Len(crews))

StateInv ==
  \A k \in 1..Len(crews) :
    /\ crews[k].state = "made" => crews[k].steps = 0
    /\ ~crews[k].loaded => crews[k].state \in {"made", "unused"} /\ crews[k].hist = 0
    /\ crews[k].state = "skill" => skill.crew = k
    /\ Calling(crews[k]) => crews[k].steps > 0

EndsWithCall(ms, k) ==
  Len(ms) > 0 /\ ms[Len(ms)].role = "assistant" /\ ms[Len(ms)].turns = {k}

CallsInv ==
  /\ \A s \in Sessions : CallsPrecede(ctx[s])
  /\ \A k \in 1..Len(lists) : CallsPrecede(lists[k])
  /\ CallsPrecede(skill.messages)
  /\ \A k \in 1..Len(crews) : Calling(crews[k]) => EndsWithCall(lists[k], k)

AsksInv ==
  \A k \in 1..Len(crews) :
    Busy(k) /\ 2 * crews[k].steps < KeepMessages => Asks(lists[k], k, Behind(crews[k]))

\* The turns whose messages are in the files.
Done(cs) == {k \in 1..Len(cs) : cs[k].state = "done"}
OfSession(cs, s) == {k \in 1..Len(cs) : cs[k].session = s}
\* The places of the messages of turn k.
Lines(ms, k) == {i \in DOMAIN ms : k \in ms[i].turns}

Alone == serial /\ NoneLeftUnused

AloneInv ==
  Alone =>
    /\ \A s \in Sessions : /\ Within(ctx[s], OfSession(crews, s) \cap Done(crews))
                           /\ Within(raw[s], OfSession(crews, s) \cap Done(crews))
    /\ \A k \in 1..Len(crews) :
         Within(lists[k], OfSession(crews, crews[k].session) \cap (Done(crews) \cup {k}))
    /\ skill.crew # 0 => Within(skill.messages, OfSession(crews, crews[skill.crew].session))
    /\ \A k \in 1..Len(crews) : /\ k < Len(crews) => ~Busy(k)
                                /\ ~Busy(k) => crews[k].loaded
                                /\ crews[k].state = "asked" => crews[k].last = k

RawInv ==
  Alone /\ ~shrunk =>
    \A k \in 1..Len(crews) :
      /\ Busy(k) => /\ EndsWith(lists[k], k, crews[k].hist, Behind(crews[k]))
                    /\ ~crews[k].loaded =>
                         \A i \in DOMAIN lists[k] : lists[k][i].role = "system" => lists[k][i].turns = {}
      /\ crews[k].state = "done" =>
           \E a \in Nat : Lines(raw[crews[k].session], k) = a..(a + 2 * crews[k].steps + 1)

ContextInv == ContextTypeInv /\ KnownInv /\ StateInv /\ CallsInv /\ AsksInv /\ AloneInv /\ RawInv

-----------------------------------------------------------------------------
\* A non-empty set of numbers has a least member.
LEMMA LeastNat ==
  ASSUME NEW T, T \subseteq Nat, T # {}
  PROVE  \E x \in T : \A y \in T : x <= y
<1> DEFINE R == OpToRel(<, Nat)
<1>1. IsWellFoundedOn(R, Nat)
  BY NatLessThanWellFounded
<1>2. \A x, y \in Nat : y < x => <<y, x>> \in R
  BY DEF OpToRel
<1> HIDE DEF R
<1>3. T \subseteq Nat
  OBVIOUS
<1>4. PICK x \in T : \A y \in T : <<y, x>> \notin R
  BY <1>1, WFMin
<1>5. ASSUME NEW y \in T PROVE x <= y
  <2>1. x \in Nat /\ y \in Nat /\ ~(y < x)
    BY <1>2, <1>3, <1>4, Zenon
  <2>. QED
    BY <2>1
<1>. QED
  BY <1>5

\* Induction, for a set.
LEMMA NatUpTo ==
  ASSUME NEW n \in Nat, NEW T, 0 \in T, \A k \in 1..n : k - 1 \in T => k \in T
  PROVE  0..n \subseteq T
<1> SUFFICES ASSUME NEW m \in 0..n, m \notin T PROVE FALSE
  OBVIOUS
<1> DEFINE Bad == {k \in 0..n : k \notin T}
<1>1. Bad \subseteq Nat /\ Bad # {}
  OBVIOUS
<1>2. PICK k \in Bad : \A j \in Bad : k <= j
  BY <1>1, LeastNat
<1>3. k \in 1..n /\ k - 1 \in 0..n /\ ~(k <= k - 1)
  BY <1>2
<1>4. k - 1 \in T
  BY <1>2, <1>3
<1>. QED
  BY <1>2, <1>3, <1>4

\* A recursion over 1..n: every element depends on its place and on the element before.
Recurs(S, F, x, n, h) ==
  h \in [0..n -> S] /\ h[0] = x /\ \A k \in 1..n : h[k] = F[<<k, h[k - 1]>>]

\* A recursion over 1..n whose values stay in S has its sequence of values.
LEMMA Recursion ==
  ASSUME NEW S, NEW n \in Nat, NEW F \in [(1..n) \X S -> S], NEW x \in S
  PROVE  \E h : Recurs(S, F, x, n, h)
<1> DEFINE Part(m, h) == h \in [0..m -> S] /\ h[0] = x /\ \A k \in 1..m : h[k] = F[<<k, h[k - 1]>>]
           T == {m \in 0..n : \E h : Part(m, h)}
<1>1. \E h : Part(0, h)
  <2> DEFINE g == [k \in 0..0 |-> x]
  <2>1. Part(0, g)
    OBVIOUS
  <2>. QED
    BY <2>1
<1>2. ASSUME NEW m \in 1..n, NEW h, Part(m - 1, h) PROVE \E g : Part(m, g)
  <2> DEFINE y == F[<<m, h[m - 1]>>]
             g == [k \in 0..m |-> IF k = m THEN y ELSE h[k]]
  <2>1. y \in S
    BY <1>2
  <2>2. g \in [0..m -> S]
    BY <1>2, <2>1
  <2>3. ASSUME NEW k \in 1..m PROVE g[k] = F[<<k, g[k - 1]>>]
    <3>1. k \in 0..m /\ k - 1 \in 0..m /\ k - 1 # m
      OBVIOUS
    <3>2. g[k - 1] = h[k - 1]
      BY <3>1
    <3>3. CASE k = m
      BY <3>1, <3>2, <3>3
    <3>4. CASE k # m
      <4>1. k \in 1..(m - 1) /\ g[k] = h[k]
        BY <3>1, <3>4
      <4>. QED
        BY <1>2, <3>2, <4>1
    <3>. QED
      BY <3>3, <3>4
  <2>4. g[0] = x
    BY <1>2
  <2>5. Part(m, g)
    BY <2>2, <2>3, <2>4
  <2>. HIDE DEF g
  <2>. QED
    BY <2>5
<1> HIDE DEF Part
<1>3. 0 \in T /\ \A k \in 1..n : k - 1 \in T => k \in T
  BY <1>1, <1>2
<1> HIDE DEF T
<1>4. n \in T
  BY <1>3, NatUpTo
<1>. QED
  BY <1>4 DEF T, Part, Recurs

-----------------------------------------------------------------------------
(* Select *)

Selecting(ms, roles, h) ==
  /\ h \in [0..Len(ms) -> Lists] /\ h[0] = <<>> /\ Select(ms, roles) = h[Len(ms)]
  /\ \A i \in 1..Len(ms) :
       h[i] = IF ms[i].role \in roles THEN Append(h[i - 1], ms[i]) ELSE h[i - 1]

\* What is typed about a list of messages.
LEMMA ListFacts ==
  ASSUME NEW ms \in Lists
  PROVE  /\ Len(ms) \in Nat /\ DOMAIN ms = 1..Len(ms)
         /\ \A i \in 1..Len(ms) : /\ ms[i] \in Messages /\ ms[i].role \in Roles
                                  /\ ms[i].turns \subseteq Nat /\ ms[i].long \in BOOLEAN
<1>1. Len(ms) \in Nat /\ DOMAIN ms = 1..Len(ms) /\ \A i \in 1..Len(ms) : ms[i] \in Messages
  BY LenProperties, ElementOfSeq DEF Lists
<1>2. \A m \in Messages : m.role \in Roles /\ m.turns \subseteq Nat /\ m.long \in BOOLEAN
  BY DEF Messages
<1>. QED
  BY <1>1, <1>2

\* Select is a recursion over the places of the list.
LEMMA SelectRecurs ==
  ASSUME NEW ms \in Lists, NEW roles
  PROVE  \E h : Selecting(ms, roles, h)
<1> DEFINE F == [p \in (1..Len(ms)) \X Lists |->
                   IF ms[p[1]].role \in roles THEN Append(p[2], ms[p[1]]) ELSE p[2]]
           G(up) == [i \in 0..Len(ms) |->
                       IF i = 0 THEN <<>>
                       ELSE IF ms[i].role \in roles THEN Append(up[i - 1], ms[i]) ELSE up[i - 1]]
           upTo == CHOOSE up : up = G(up)
<1>1. Len(ms) \in Nat /\ <<>> \in Lists
  BY ListFacts DEF Lists
<1>2. \A i \in 1..Len(ms), s \in Lists : Append(s, ms[i]) \in Lists
  BY ListFacts DEF Lists
<1>3. F \in [(1..Len(ms)) \X Lists -> Lists]
  BY <1>2
<1>4. PICK h : Recurs(Lists, F, <<>>, Len(ms), h)
  BY <1>1, <1>3, Recursion
<1>5. /\ h \in [0..Len(ms) -> Lists] /\ h[0] = <<>>
      /\ \A i \in 1..Len(ms) :
           h[i] = IF ms[i].role \in roles THEN Append(h[i - 1], ms[i]) ELSE h[i - 1]
  <2>1. \A i \in 1..Len(ms) : i - 1 \in 0..Len(ms)
    BY <1>1
  <2>2. h \in [0..Len(ms) -> Lists] /\ h[0] = <<>> /\ \A i \in 1..Len(ms) : h[i] = F[<<i, h[i - 1]>>]
    BY <1>4 DEF Recurs
  <2>. QED
    BY <2>1, <2>2
<1> HIDE DEF F
<1>6. h = G(h)
  <2>1. \A i \in 0..Len(ms) : h[i] = G(h)[i]
    <3> SUFFICES ASSUME NEW i \in 0..Len(ms) PROVE h[i] = G(h)[i]
      OBVIOUS
    <3>1. CASE i = 0
      BY <1>1, <1>5, <3>1
    <3>2. CASE i # 0
      <4>1. i \in 1..Len(ms)
        BY <1>1, <3>2
      <4>2. G(h)[i] = IF ms[i].role \in roles THEN Append(h[i - 1], ms[i]) ELSE h[i - 1]
        BY <3>2
      <4>. QED
        BY <1>5, <4>1, <4>2
    <3>. QED
      BY <3>1, <3>2
  <2>2. h = [i \in 0..Len(ms) |-> h[i]]
    BY <1>5
  <2>3. G(h) = [i \in 0..Len(ms) |-> G(h)[i]]
    OBVIOUS
  <2> HIDE DEF G
  <2>. QED
    BY <2>1, <2>2, <2>3
<1>7. upTo = G(upTo)
  BY <1>6
<1>8. upTo \in [0..Len(ms) -> Lists] /\ upTo = h
  <2> DEFINE T == {i \in 0..Len(ms) : upTo[i] = h[i]}
  <2>1. \A i \in 0..Len(ms) : upTo[i] = G(upTo)[i]
    BY <1>7
  <2>2. 0 \in T
    BY <1>1, <1>5, <2>1
  <2>3. ASSUME NEW i \in 1..Len(ms), i - 1 \in T PROVE i \in T
    <3>1. i \in 0..Len(ms) /\ i # 0
      BY <1>1
    <3>2. upTo[i] = IF ms[i].role \in roles THEN Append(upTo[i - 1], ms[i]) ELSE upTo[i - 1]
      BY <2>1, <3>1
    <3>3. upTo[i - 1] = h[i - 1]
      BY <2>3
    <3> HIDE DEF upTo
    <3>. QED
      BY <1>5, <3>1, <3>2, <3>3
  <2>4. 0..Len(ms) \subseteq T
    <3> HIDE DEF T
    <3>. QED
      BY <1>1, <2>2, <2>3, NatUpTo
  <2>5. upTo = [i \in 0..Len(ms) |-> upTo[i]]
    BY <1>7
  <2>6. h = [i \in 0..Len(ms) |-> h[i]]
    BY <1>5
  <2> HIDE DEF upTo
  <2>. QED
    BY <1>5, <2>4, <2>5, <2>6
<1>9. Select(ms, roles) = upTo[Len(ms)]
  BY DEF Select
<1> HIDE DEF upTo, G
<1>. QED
  BY <1>5, <1>8, <1>9 DEF Selecting

\* Every message of u is one of ms with such a role.
Drawn(u, ms, roles) ==
  \A j \in 1..Len(u) : \E i \in 1..Len(ms) : u[j] = ms[i] /\ ms[i].role \in roles

\* A list and one message more.
LEMMA AppendFacts ==
  ASSUME NEW u \in Lists, NEW m \in Messages
  PROVE  /\ Append(u, m) \in Lists /\ Len(Append(u, m)) = Len(u) + 1
         /\ \A i \in 1..Len(u) : Append(u, m)[i] = u[i]
         /\ Append(u, m)[Len(u) + 1] = m
BY AppendProperties DEF Lists

\* What Select keeps of a list is drawn from it, in its order.
LEMMA SelectDraws ==
  ASSUME NEW ms \in Lists, NEW roles
  PROVE  Select(ms, roles) \in Lists /\ Drawn(Select(ms, roles), ms, roles)
<1>1. PICK h : Selecting(ms, roles, h)
  BY SelectRecurs
<1> DEFINE T == {i \in 0..Len(ms) : h[i] \in Lists /\ Drawn(h[i], ms, roles)}
<1>2. Len(ms) \in Nat
  BY ListFacts
<1>3. 0 \in T
  BY <1>1, <1>2 DEF Selecting, Drawn
<1>4. ASSUME NEW i \in 1..Len(ms), i - 1 \in T PROVE i \in T
  <2>1. ms[i] \in Messages /\ h[i - 1] \in Lists /\ Drawn(h[i - 1], ms, roles)
    BY <1>4, ListFacts
  <2>2. CASE ms[i].role \in roles
    <3>1. h[i] = Append(h[i - 1], ms[i])
      BY <1>1, <2>2 DEF Selecting
    <3>2. /\ h[i] \in Lists /\ Len(h[i]) = Len(h[i - 1]) + 1 /\ Len(h[i - 1]) \in Nat
          /\ \A j \in 1..Len(h[i - 1]) : h[i][j] = h[i - 1][j]
          /\ h[i][Len(h[i - 1]) + 1] = ms[i]
      BY <2>1, <3>1, AppendFacts, ListFacts
    <3>3. Drawn(h[i], ms, roles)
      <4> SUFFICES ASSUME NEW j \in 1..Len(h[i])
                   PROVE \E l \in 1..Len(ms) : h[i][j] = ms[l] /\ ms[l].role \in roles
        BY DEF Drawn
      <4>1. CASE j \in 1..Len(h[i - 1])
        BY <2>1, <3>2, <4>1 DEF Drawn
      <4>2. CASE j = Len(h[i - 1]) + 1
        BY <2>2, <3>2, <4>2
      <4>. QED
        BY <3>2, <4>1, <4>2
    <3>. QED
      BY <3>2, <3>3
  <2>3. CASE ms[i].role \notin roles
    BY <1>1, <2>1, <2>3 DEF Selecting
  <2>. QED
    BY <2>2, <2>3
<1> HIDE DEF T
<1>5. 0..Len(ms) \subseteq T
  BY <1>2, <1>3, <1>4, NatUpTo
<1>6. Len(ms) \in T
  BY <1>2, <1>5
<1>. QED
  BY <1>1, <1>6 DEF T, Selecting

\* Selecting the calls and the results keeps each result behind its call.
LEMMA SelectCalls ==
  ASSUME NEW ms \in Lists, NEW roles, {"assistant", "tool"} \subseteq roles, CallsPrecede(ms)
  PROVE  CallsPrecede(Select(ms, roles))
<1>1. PICK h : Selecting(ms, roles, h)
  BY SelectRecurs
<1> DEFINE Ends(i) == i > 0 /\ ms[i].role \in roles =>
                        Len(h[i]) > 0 /\ h[i][Len(h[i])] = ms[i]
           T == {i \in 0..Len(ms) : CallsPrecede(h[i]) /\ Ends(i)}
<1>2. Len(ms) \in Nat /\ DOMAIN ms = 1..Len(ms)
  BY ListFacts
<1>3. 0 \in T
  BY <1>1, <1>2 DEF Selecting, CallsPrecede
<1>4. ASSUME NEW i \in 1..Len(ms), i - 1 \in T PROVE i \in T
  <2>1. ms[i] \in Messages /\ h[i - 1] \in Lists /\ CallsPrecede(h[i - 1]) /\ Ends(i - 1)
    <3>1. i - 1 \in 0..Len(ms)
      BY <1>2
    <3>. QED
      BY <1>1, <1>4, <3>1, ListFacts DEF Selecting
  <2>2. CASE ms[i].role \in roles
    <3> DEFINE u == h[i - 1]
    <3>1. h[i] = Append(u, ms[i])
      BY <1>1, <2>2 DEF Selecting
    <3> HIDE DEF u
    <3>2. /\ Len(h[i]) = Len(u) + 1 /\ Len(u) \in Nat /\ DOMAIN h[i] = 1..(Len(u) + 1)
          /\ \A j \in 1..Len(u) : h[i][j] = u[j]
          /\ h[i][Len(u) + 1] = ms[i] /\ DOMAIN u = 1..Len(u)
      <4>1. u \in Lists /\ h[i] \in Lists
        BY <2>1, <3>1, AppendFacts DEF u
      <4>. QED
        BY <2>1, <3>1, <4>1, AppendFacts, ListFacts
    <3>3. Ends(i)
      BY <3>2
    <3>4. ASSUME ms[i].role = "tool"
          PROVE  Len(u) > 0 /\ u[Len(u)].role = "assistant" /\ u[Len(u)].turns = ms[i].turns
      <4>1. i > 1 /\ ms[i - 1].role = "assistant" /\ ms[i - 1].turns = ms[i].turns
        BY <1>2, <3>4 DEF CallsPrecede
      <4>2. Len(u) > 0 /\ u[Len(u)] = ms[i - 1]
        BY <2>1, <4>1 DEF u
      <4>. QED
        BY <4>1, <4>2
    <3>5. CallsPrecede(h[i])
      <4> SUFFICES ASSUME NEW j \in 1..(Len(u) + 1), h[i][j].role = "tool"
                   PROVE  /\ j > 1 /\ h[i][j - 1].role = "assistant"
                          /\ h[i][j - 1].turns = h[i][j].turns
        BY <3>2 DEF CallsPrecede
      <4>1. CASE j \in 1..Len(u)
        <5>1. u[j].role = "tool"
          BY <3>2, <4>1
        <5>2. j > 1 /\ u[j - 1].role = "assistant" /\ u[j - 1].turns = u[j].turns
          BY <2>1, <3>2, <4>1, <5>1 DEF CallsPrecede, u
        <5>. QED
          BY <3>2, <4>1, <5>2
      <4>2. CASE j = Len(u) + 1
        BY <3>2, <3>4, <4>2
      <4>. QED
        BY <3>2, <4>1, <4>2
    <3>. QED
      BY <3>3, <3>5
  <2>3. CASE ms[i].role \notin roles
    BY <1>1, <2>1, <2>3 DEF Selecting
  <2>. QED
    BY <2>2, <2>3
<1> HIDE DEF T
<1>5. Len(ms) \in T
  BY <1>2, <1>3, <1>4, NatUpTo
<1>. QED
  BY <1>1, <1>5 DEF T, Selecting

-----------------------------------------------------------------------------
(* Pruning *)

\* Pruning leaves the roles and the turns of a list as they are.
LEMMA Prunes ==
  ASSUME NEW ms \in Lists
  PROVE  /\ PruneToolResults(ms) \in Lists /\ Len(PruneToolResults(ms)) = Len(ms)
         /\ \A i \in 1..Len(ms) : /\ PruneToolResults(ms)[i].role = ms[i].role
                                  /\ PruneToolResults(ms)[i].turns = ms[i].turns
<1> DEFINE u == PruneToolResults(ms)
<1>1. Len(ms) \in Nat /\ DOMAIN ms = 1..Len(ms)
  BY ListFacts
<1>2. \A m \in Messages : /\ [m EXCEPT !.long = FALSE] \in Messages
                          /\ [m EXCEPT !.long = FALSE].role = m.role
                          /\ [m EXCEPT !.long = FALSE].turns = m.turns
  BY DEF Messages
<1>3. ASSUME NEW i \in 1..Len(ms)
      PROVE  u[i] \in Messages /\ u[i].role = ms[i].role /\ u[i].turns = ms[i].turns
  <2>1. ms[i] \in Messages
    BY ListFacts
  <2>2. u[i] = ms[i] \/ u[i] = [ms[i] EXCEPT !.long = FALSE]
    BY <1>1 DEF PruneToolResults
  <2>. QED
    BY <1>2, <2>1, <2>2
<1>4. u = [i \in 1..Len(ms) |-> u[i]]
  BY <1>1 DEF PruneToolResults
<1> HIDE DEF u
<1>5. u \in [1..Len(ms) -> Messages]
  BY <1>3, <1>4
<1>6. u \in Lists /\ Len(u) = Len(ms)
  BY <1>1, <1>5, IsASeq DEF Lists
<1>. QED
  BY <1>3, <1>6 DEF u

-----------------------------------------------------------------------------
(* The last place, and compressing *)

\* Latest is the last of a set of places.
LEMMA LatestIsLast ==
  ASSUME NEW n \in Nat, NEW places, places \subseteq 1..n, places # {}
  PROVE  Latest(places) \in places /\ \A j \in places : j <= Latest(places)
<1> DEFINE T == {m \in Nat : \A j \in places : j <= m}
<1>1. n \in T
  OBVIOUS
<1> HIDE DEF T
<1>2. T \subseteq Nat
  BY DEF T
<1>3. PICK m \in T : \A x \in T : m <= x
  BY <1>1, <1>2, LeastNat
<1>4. m \in Nat /\ \A j \in places : j <= m
  BY DEF T
<1>5. m \in places
  <2> SUFFICES ASSUME m \notin places PROVE FALSE
    OBVIOUS
  <2>1. \A j \in places : j \in 1..n /\ j <= m /\ j # m
    BY <1>4
  <2>3. m - 1 \in Nat /\ \A j \in places : j <= m - 1
    <3>1. PICK x \in places : TRUE
      OBVIOUS
    <3>2. m \in Nat /\ x \in 1..n /\ x <= m
      BY <1>4, <2>1
    <3>3. ASSUME NEW j \in places PROVE j <= m - 1
      <4>1. m \in Nat /\ j \in 1..n /\ j <= m /\ j # m
        BY <1>4, <2>1
      <4>. QED
        BY <4>1
    <3>. QED
      BY <3>2, <3>3
  <2>2. m - 1 \in T
    BY <2>3 DEF T
  <2>. QED
    BY <1>3, <1>4, <2>2
<1>. QED
  BY <1>4, <1>5 DEF Latest

\* The messages up to a user message are one system message in u.
Cut(ms, u, i) ==
  /\ i \in 1..Len(ms) /\ ms[i].role = "user" /\ i + KeepMessages <= Len(ms)
  /\ Len(u) = Len(ms) - i + 1
  /\ u[1].role = "system" /\ u[1].turns = UNION {ms[j].turns : j \in 1..i}
  /\ \A j \in 2..Len(u) : u[j] = ms[j + i - 1]

\* A list is split at a user message that KeepMessages messages follow.
LEMMA SplitIsUser ==
  ASSUME NEW ms \in Lists, SplitIndex(ms) # 0
  PROVE  /\ SplitIndex(ms) \in 1..Len(ms) /\ ms[SplitIndex(ms)].role = "user"
         /\ SplitIndex(ms) + KeepMessages <= Len(ms)
<1>1. Len(ms) \in Nat /\ DOMAIN ms = 1..Len(ms)
  BY ListFacts
<1>2. Splits(ms) \subseteq 1..Len(ms) /\ Splits(ms) # {} /\ SplitIndex(ms) = Latest(Splits(ms))
  BY <1>1 DEF SplitIndex, Splits, Users
<1>3. SplitIndex(ms) \in Splits(ms)
  BY <1>1, <1>2, LatestIsLast
<1>. QED
  BY <1>1, <1>3 DEF Splits, Users

\* A summary is a system message of the turns it stands for.
LEMMA SummaryFacts ==
  ASSUME NEW ms \in Lists
  PROVE  /\ Summary(ms) \in Messages /\ Summary(ms).role = "system"
         /\ Summary(ms).turns = UNION {ms[i].turns : i \in 1..Len(ms)}
<1>1. \A i \in 1..Len(ms) : ms[i].turns \subseteq Nat
  BY ListFacts
<1>2. DOMAIN ms = 1..Len(ms)
  BY ListFacts
<1>3. UNION {ms[i].turns : i \in 1..Len(ms)} \in SUBSET Nat
  BY <1>1
<1> DEFINE all == UNION {ms[i].turns : i \in 1..Len(ms)}
<1>4. Summary(ms) = [role |-> "system", turns |-> all, long |-> FALSE]
  BY <1>2 DEF Summary
<1> HIDE DEF all
<1>5. all \in SUBSET Nat
  BY <1>3 DEF all
<1>. QED
  BY <1>4, <1>5 DEF Messages, Roles, all

\* Compressing leaves a list alone or cuts it at one place.
LEMMA MaybeCompresses ==
  ASSUME NEW ms \in Lists
  PROVE  /\ MaybeCompress(ms) \in Lists
         /\ MaybeCompress(ms) = ms \/ \E i \in 1..Len(ms) : Cut(ms, MaybeCompress(ms), i)
<1> DEFINE i == SplitIndex(ms)
           head == SubSeq(ms, 1, i)
           tail == SubSeq(ms, i + 1, Len(ms))
           u == <<Summary(head)>> \o tail
<1>1. CASE Tokens(ms) < Threshold \/ i = 0
  BY <1>1 DEF MaybeCompress
<1>2. CASE ~(Tokens(ms) < Threshold \/ i = 0)
  <2>1. Len(ms) \in Nat
    BY ListFacts
  <2>2. i \in 1..Len(ms) /\ ms[i].role = "user" /\ i + KeepMessages <= Len(ms)
    BY <1>2, SplitIsUser
  <2>3. MaybeCompress(ms) = u
    BY <1>2 DEF MaybeCompress
  <2> HIDE DEF i
  <2>4. /\ head \in Lists /\ Len(head) = i /\ \A j \in 1..i : head[j] = ms[j]
    BY <2>1, <2>2, SubSeqProperties DEF Lists
  <2>5. /\ tail \in Lists /\ Len(tail) = Len(ms) - i
        /\ \A j \in 1..(Len(ms) - i) : tail[j] = ms[i + j]
    <3>1. i + 1 \in 1..(Len(ms) + 1) /\ Len(ms) \in (i + 1) - 1 .. Len(ms)
      BY <2>1, <2>2
    <3>2. /\ Len(tail) = Len(ms) - (i + 1) + 1
          /\ \A j \in 1..(Len(ms) - (i + 1) + 1) : tail[j] = ms[(i + 1) + j - 1]
      BY <2>1, <2>2, <3>1, SubSeqProperties DEF Lists
    <3>3. tail \in Lists
      BY <2>1, <2>2, <3>1, SubSeqProperties DEF Lists
    <3> HIDE DEF tail
    <3>. QED
      BY <2>1, <2>2, <3>2, <3>3
  <2>6. /\ Summary(head) \in Messages /\ Summary(head).role = "system"
        /\ Summary(head).turns = UNION {ms[j].turns : j \in 1..i}
    <3> HIDE DEF head
    <3>1. Summary(head).turns = UNION {head[j].turns : j \in 1..i}
      BY <2>4, SummaryFacts
    <3>2. UNION {head[j].turns : j \in 1..i} = UNION {ms[j].turns : j \in 1..i}
      BY <2>4
    <3>. QED
      BY <2>4, <3>1, <3>2, SummaryFacts
  <2> HIDE DEF head, tail
  <2> DEFINE m == Summary(head)
  <2>7. /\ <<m>> \in Lists /\ Len(<<m>>) = 1 /\ <<m>>[1] = m
    BY <2>6 DEF Lists
  <2> HIDE DEF m
  <2>8. /\ u \in Lists /\ Len(u) = 1 + Len(tail)
        /\ u[1] = m /\ \A j \in 2..Len(u) : u[j] = tail[j - 1]
    <3>1. u = <<m>> \o tail
      BY DEF m
    <3> HIDE DEF u
    <3>2. u \in Lists /\ Len(u) = Len(<<m>>) + Len(tail)
      BY <2>5, <2>7, <3>1, ConcatProperties DEF Lists
    <3>3. \A j \in 1..Len(u) : u[j] = IF j <= 1 THEN <<m>>[j] ELSE tail[j - 1]
      BY <2>5, <2>7, <3>1, <3>2, ConcatProperties DEF Lists
    <3>. QED
      BY <2>1, <2>2, <2>5, <2>7, <3>2, <3>3
  <2> HIDE DEF u
  <2>9. Cut(ms, u, i)
    <3>1. \A j \in 2..Len(u) : u[j] = ms[j + i - 1]
      BY <2>1, <2>2, <2>5, <2>8
    <3>2. Len(u) = Len(ms) - i + 1
      BY <2>1, <2>2, <2>5, <2>8
    <3>3. u[1].role = "system" /\ u[1].turns = UNION {ms[j].turns : j \in 1..i}
      BY <2>6, <2>8 DEF m
    <3>. QED
      BY <2>2, <3>1, <3>2, <3>3 DEF Cut
  <2>. QED
    BY <2>2, <2>3, <2>8, <2>9
<1>. QED
  BY <1>1, <1>2

\* The same roles and turns at the same places.
Alike(u, ms) ==
  Len(u) = Len(ms) /\ \A i \in 1..Len(ms) : u[i].role = ms[i].role /\ u[i].turns = ms[i].turns

\* A list with the same roles and turns stems from the same turns,
LEMMA AlikeWithin ==
  ASSUME NEW ms \in Lists, NEW u \in Lists, Alike(u, ms), NEW T, Within(ms, T)
  PROVE  Within(u, T)
<1>1. DOMAIN u = 1..Len(ms) /\ DOMAIN ms = 1..Len(ms)
  BY ListFacts DEF Alike
<1>. QED
  BY <1>1 DEF Alike, Within

\* has its results behind their calls,
LEMMA AlikeCalls ==
  ASSUME NEW ms \in Lists, NEW u \in Lists, Alike(u, ms), CallsPrecede(ms)
  PROVE  CallsPrecede(u)
<1>1. DOMAIN u = 1..Len(ms) /\ DOMAIN ms = 1..Len(ms) /\ Len(ms) \in Nat
  BY ListFacts DEF Alike
<1> SUFFICES ASSUME NEW i \in 1..Len(ms), u[i].role = "tool"
             PROVE  i > 1 /\ u[i - 1].role = "assistant" /\ u[i - 1].turns = u[i].turns
  BY <1>1 DEF CallsPrecede
<1>2. i > 1 /\ ms[i - 1].role = "assistant" /\ ms[i - 1].turns = ms[i].turns
  BY <1>1 DEF Alike, CallsPrecede
<1>3. i - 1 \in 1..Len(ms)
  BY <1>1, <1>2
<1>. QED
  BY <1>2, <1>3 DEF Alike

\* asks the same question,
LEMMA AlikeAsks ==
  ASSUME NEW ms \in Lists, NEW u \in Lists, Alike(u, ms), NEW k, NEW n, Asks(ms, k, n)
  PROVE  Asks(u, k, n)
<1>1. DOMAIN u = 1..Len(ms) /\ DOMAIN ms = 1..Len(ms)
  BY ListFacts DEF Alike
<1>. QED
  BY <1>1 DEF Alike, Asks

\* and ends with the same turn.
LEMMA AlikeEnds ==
  ASSUME NEW ms \in Lists, NEW u \in Lists, Alike(u, ms),
         NEW k, NEW hist, NEW n, EndsWith(ms, k, hist, n)
  PROVE  EndsWith(u, k, hist, n)
<1>1. DOMAIN u = 1..Len(ms) /\ DOMAIN ms = 1..Len(ms)
  BY ListFacts DEF Alike
<1>. QED
  BY <1>1 DEF Alike, EndsWith

\* A list that was cut stems from the turns of the whole one.
LEMMA CutWithin ==
  ASSUME NEW ms \in Lists, NEW u \in Lists, NEW i, Cut(ms, u, i), NEW T, Within(ms, T)
  PROVE  Within(u, T)
<1>1. /\ DOMAIN u = 1..Len(u) /\ DOMAIN ms = 1..Len(ms) /\ Len(ms) \in Nat
      /\ i \in 1..Len(ms) /\ Len(u) = Len(ms) - i + 1
  BY ListFacts DEF Cut
<1> SUFFICES ASSUME NEW j \in 1..Len(u) PROVE u[j].turns \subseteq T
  BY <1>1 DEF Within
<1>2. CASE j = 1
  <2>1. \A l \in 1..i : ms[l].turns \subseteq T
    BY <1>1 DEF Within
  <2>. QED
    BY <1>2, <2>1 DEF Cut
<1>3. CASE j # 1
  <2>1. j \in 2..Len(u) /\ j + i - 1 \in 1..Len(ms)
    BY <1>1, <1>3
  <2>2. u[j] = ms[j + i - 1]
    BY <2>1 DEF Cut
  <2>. QED
    BY <1>1, <2>1, <2>2 DEF Within
<1>. QED
  BY <1>2, <1>3

\* A cut begins with a user message, so that no call is cut from its result.
LEMMA CutCalls ==
  ASSUME NEW ms \in Lists, NEW u \in Lists, NEW i, Cut(ms, u, i), CallsPrecede(ms)
  PROVE  CallsPrecede(u)
<1>1. /\ DOMAIN u = 1..Len(u) /\ DOMAIN ms = 1..Len(ms) /\ Len(ms) \in Nat
      /\ i \in 1..Len(ms) /\ Len(u) = Len(ms) - i + 1 /\ u[1].role = "system" /\ ms[i].role = "user"
  BY ListFacts DEF Cut
<1> SUFFICES ASSUME NEW j \in 1..Len(u), u[j].role = "tool"
             PROVE  j > 1 /\ u[j - 1].role = "assistant" /\ u[j - 1].turns = u[j].turns
  BY <1>1 DEF CallsPrecede
<1>2. j \in 2..Len(u)
  BY <1>1
<1> DEFINE l == j + i - 1
<1>3. l \in 1..Len(ms) /\ u[j] = ms[l]
  BY <1>1, <1>2 DEF Cut
<1>4. ms[l - 1].role = "assistant" /\ ms[l - 1].turns = ms[l].turns
  BY <1>1, <1>3 DEF CallsPrecede
<1>5. j > 2
  <2>1. l - 1 # i
    BY <1>1, <1>4
  <2>. QED
    BY <1>1, <1>2, <2>1
<1>6. j - 1 \in 2..Len(u) /\ (j - 1) + i - 1 = l - 1
  BY <1>1, <1>2, <1>5
<1>7. u[j - 1] = ms[l - 1]
  BY <1>6 DEF Cut
<1>. QED
  BY <1>3, <1>4, <1>5, <1>7

\* A question with fewer than KeepMessages behind it is not cut away.
LEMMA CutAsks ==
  ASSUME NEW ms \in Lists, NEW u \in Lists, NEW i, Cut(ms, u, i),
         NEW k, NEW n \in Nat, n < KeepMessages, Asks(ms, k, n)
  PROVE  Asks(u, k, n)
<1>1. /\ DOMAIN u = 1..Len(u) /\ DOMAIN ms = 1..Len(ms) /\ Len(ms) \in Nat /\ KeepMessages \in Nat
      /\ i \in 1..Len(ms) /\ Len(u) = Len(ms) - i + 1 /\ u[1].role = "system"
      /\ i + KeepMessages <= Len(ms)
  BY ListFacts, ContextAssumption DEF Cut
<1>2. PICK q \in 1..Len(ms) : /\ ms[q].role = "user" /\ ms[q].turns = {k} /\ Len(ms) <= q + n
                              /\ \A j \in 1..Len(ms) : ms[j].role = "user" => j <= q
  BY <1>1 DEF Asks
<1> DEFINE p == q - i + 1
<1>3. i < q /\ p \in 2..Len(u) /\ p + i - 1 = q /\ Len(u) <= p + n
  BY <1>1, <1>2
<1>4. u[p] = ms[q]
  BY <1>3 DEF Cut
<1>5. ASSUME NEW j \in 1..Len(u), u[j].role = "user" PROVE j <= p
  <2>1. j \in 2..Len(u)
    BY <1>1, <1>5
  <2>2. u[j] = ms[j + i - 1] /\ j + i - 1 \in 1..Len(ms)
    BY <1>1, <2>1 DEF Cut
  <2>3. j + i - 1 <= q
    BY <1>2, <1>5, <2>2
  <2>. QED
    BY <1>1, <2>1, <2>3
<1> HIDE DEF p
<1>. QED
  BY <1>1, <1>2, <1>3, <1>4, <1>5 DEF Asks

\* What a hook leaves of a list: prune_tool_results() and maybe_compress().
Short(ms) == MaybeCompress(PruneToolResults(ms))

\* A pruned list has the roles and the turns it had.
LEMMA PrunesAlike ==
  ASSUME NEW ms \in Lists
  PROVE  PruneToolResults(ms) \in Lists /\ Alike(PruneToolResults(ms), ms)
BY Prunes DEF Alike

\* Pruning and compressing keep what is known of a list.
LEMMA ShortFacts ==
  ASSUME NEW ms \in Lists
  PROVE  /\ Short(ms) \in Lists /\ Len(Short(ms)) <= Len(ms)
         /\ \A T : Within(ms, T) => Within(Short(ms), T)
         /\ CallsPrecede(ms) => CallsPrecede(Short(ms))
         /\ \A k : \A n \in Nat : n < KeepMessages /\ Asks(ms, k, n) => Asks(Short(ms), k, n)
<1> DEFINE p == PruneToolResults(ms)
<1>1. p \in Lists /\ Alike(p, ms) /\ Len(ms) \in Nat
  BY PrunesAlike, ListFacts
<1> HIDE DEF p
<1>2. Short(ms) = MaybeCompress(p)
  BY DEF Short, p
<1>3. CASE MaybeCompress(p) = p
  BY <1>1, <1>2, <1>3, AlikeWithin, AlikeCalls, AlikeAsks DEF Alike
<1>4. CASE \E i \in 1..Len(p) : Cut(p, MaybeCompress(p), i)
  <2>1. PICK i \in 1..Len(p) : Cut(p, Short(ms), i)
    BY <1>2, <1>4
  <2>2. Short(ms) \in Lists
    BY <1>1, <1>2, MaybeCompresses
  <2>3. Len(Short(ms)) <= Len(ms)
    BY <1>1, <2>1 DEF Cut, Alike
  <2>4. \A T : Within(ms, T) => Within(Short(ms), T)
    BY <1>1, <2>1, <2>2, AlikeWithin, CutWithin
  <2>5. CallsPrecede(ms) => CallsPrecede(Short(ms))
    BY <1>1, <2>1, <2>2, AlikeCalls, CutCalls
  <2>6. \A k : \A n \in Nat : n < KeepMessages /\ Asks(ms, k, n) => Asks(Short(ms), k, n)
    BY <1>1, <2>1, <2>2, AlikeAsks, CutAsks
  <2>. QED
    BY <2>2, <2>3, <2>4, <2>5, <2>6
<1>. QED
  BY <1>1, <1>3, <1>4, MaybeCompresses

-----------------------------------------------------------------------------
(* Restoring *)

\* Two lists in a row.
LEMMA ConcatFacts ==
  ASSUME NEW a \in Lists, NEW b \in Lists
  PROVE  /\ a \o b \in Lists /\ Len(a \o b) = Len(a) + Len(b) /\ Len(a) \in Nat /\ Len(b) \in Nat
         /\ \A i \in 1..Len(a) : (a \o b)[i] = a[i]
         /\ \A i \in 1..Len(b) : (a \o b)[Len(a) + i] = b[i]
<1>1. Len(a) \in Nat /\ Len(b) \in Nat
  BY ListFacts
<1>2. a \o b \in Lists /\ Len(a \o b) = Len(a) + Len(b)
  BY ConcatProperties DEF Lists
<1>3. \A i \in 1 .. Len(a) + Len(b) : (a \o b)[i] = IF i <= Len(a) THEN a[i] ELSE b[i - Len(a)]
  BY ConcatProperties DEF Lists
<1> DEFINE c == a \o b
<1> HIDE DEF c
<1>4. \A i \in 1 .. Len(a) + Len(b) : c[i] = IF i <= Len(a) THEN a[i] ELSE b[i - Len(a)]
  BY <1>3 DEF c
<1>5. \A i \in 1..Len(a) : c[i] = a[i]
  BY <1>1, <1>4
<1>6. ASSUME NEW i \in 1..Len(b) PROVE c[Len(a) + i] = b[i]
  <2>1. Len(a) + i \in 1 .. Len(a) + Len(b) /\ ~(Len(a) + i <= Len(a)) /\ (Len(a) + i) - Len(a) = i
    BY <1>1
  <2>. QED
    BY <1>4, <2>1
<1>. QED
  BY <1>1, <1>2, <1>5, <1>6 DEF c

\* Two lists that stem from T do so together.
LEMMA ConcatWithin ==
  ASSUME NEW a \in Lists, NEW b \in Lists, NEW T, Within(a, T), Within(b, T)
  PROVE  Within(a \o b, T)
<1> DEFINE c == a \o b
<1>1. /\ c \in Lists /\ Len(c) = Len(a) + Len(b) /\ Len(a) \in Nat /\ Len(b) \in Nat
      /\ \A i \in 1..Len(a) : c[i] = a[i]
      /\ \A i \in 1..Len(b) : c[Len(a) + i] = b[i]
  BY ConcatFacts
<1> HIDE DEF c
<1>2. DOMAIN a = 1..Len(a) /\ DOMAIN b = 1..Len(b) /\ DOMAIN c = 1..(Len(a) + Len(b))
  BY <1>1, ListFacts
<1>3. ASSUME NEW i \in 1..(Len(a) + Len(b)) PROVE c[i].turns \subseteq T
  <2>1. CASE i \in 1..Len(a)
    BY <1>1, <1>2, <2>1 DEF Within
  <2>2. CASE i \notin 1..Len(a)
    <3>1. i - Len(a) \in 1..Len(b) /\ Len(a) + (i - Len(a)) = i
      BY <1>1, <2>2
    <3>2. c[i] = b[i - Len(a)]
      BY <1>1, <3>1
    <3>. QED
      BY <1>2, <3>1, <3>2 DEF Within
  <2>. QED
    BY <2>1, <2>2
<1>4. Within(c, T)
  BY <1>2, <1>3 DEF Within
<1>. QED
  BY <1>4 DEF c

\* Results stay behind their calls when two lists are put together.
LEMMA ConcatCalls ==
  ASSUME NEW a \in Lists, NEW b \in Lists, CallsPrecede(a), CallsPrecede(b)
  PROVE  CallsPrecede(a \o b)
<1> DEFINE c == a \o b
<1>1. /\ c \in Lists /\ Len(c) = Len(a) + Len(b) /\ Len(a) \in Nat /\ Len(b) \in Nat
      /\ \A i \in 1..Len(a) : c[i] = a[i]
      /\ \A i \in 1..Len(b) : c[Len(a) + i] = b[i]
  BY ConcatFacts
<1> HIDE DEF c
<1>2. DOMAIN a = 1..Len(a) /\ DOMAIN b = 1..Len(b) /\ DOMAIN c = 1..(Len(a) + Len(b))
  BY <1>1, ListFacts
<1>3. ASSUME NEW i \in 1..(Len(a) + Len(b)), c[i].role = "tool"
      PROVE  i > 1 /\ c[i - 1].role = "assistant" /\ c[i - 1].turns = c[i].turns
  <2>1. CASE i \in 1..Len(a)
    <3>1. i > 1 /\ a[i - 1].role = "assistant" /\ a[i - 1].turns = a[i].turns
      BY <1>1, <1>2, <1>3, <2>1 DEF CallsPrecede
    <3>2. i - 1 \in 1..Len(a)
      BY <1>1, <2>1, <3>1
    <3>. QED
      BY <1>1, <2>1, <3>1, <3>2
  <2>2. CASE i \notin 1..Len(a)
    <3> DEFINE j == i - Len(a)
    <3>1. j \in 1..Len(b) /\ Len(a) + j = i
      BY <1>1, <2>2
    <3>2. c[i] = b[j]
      BY <1>1, <3>1
    <3>3. j > 1 /\ b[j - 1].role = "assistant" /\ b[j - 1].turns = b[j].turns
      BY <1>2, <1>3, <3>1, <3>2 DEF CallsPrecede
    <3>4. j - 1 \in 1..Len(b) /\ Len(a) + (j - 1) = i - 1 /\ i > 1
      BY <1>1, <3>1, <3>3
    <3>5. c[i - 1] = b[j - 1]
      BY <1>1, <3>4
    <3>. QED
      BY <3>2, <3>3, <3>4, <3>5
  <2>. QED
    BY <2>1, <2>2
<1>4. CallsPrecede(c)
  BY <1>2, <1>3 DEF CallsPrecede
<1>. QED
  BY <1>4 DEF c

\* A list drawn from another stems from the same turns.
LEMMA DrawnWithin ==
  ASSUME NEW ms \in Lists, NEW u \in Lists, NEW roles, Drawn(u, ms, roles), NEW T, Within(ms, T)
  PROVE  Within(u, T)
<1>1. DOMAIN u = 1..Len(u) /\ DOMAIN ms = 1..Len(ms)
  BY ListFacts
<1>. QED
  BY <1>1 DEF Drawn, Within

\* A list drawn without the tool results has no result without its call.
LEMMA DrawnCalls ==
  ASSUME NEW ms \in Lists, NEW u \in Lists, NEW roles, Drawn(u, ms, roles), "tool" \notin roles
  PROVE  CallsPrecede(u)
<1>1. DOMAIN u = 1..Len(u) /\ DOMAIN ms = 1..Len(ms)
  BY ListFacts
<1>. QED
  BY <1>1 DEF Drawn, CallsPrecede

\* The last user message of a list that asks question k is that question.
LEMMA LastUserFacts ==
  ASSUME NEW ms \in Lists
  PROVE  /\ LastUser(ms) \in Lists /\ Drawn(LastUser(ms), ms, {"user"})
         /\ \A k, n : Asks(ms, k, n) => /\ Len(LastUser(ms)) = 1 /\ LastUser(ms)[1].role = "user"
                                        /\ LastUser(ms)[1].turns = {k}
<1>1. Len(ms) \in Nat /\ DOMAIN ms = 1..Len(ms) /\ \A i \in 1..Len(ms) : ms[i] \in Messages
  BY ListFacts
<1>2. CASE Users(ms) = {}
  <2>1. LastUser(ms) = <<>> /\ <<>> \in Lists /\ Len(<<>>) = 0
    BY <1>2 DEF LastUser, Lists
  <2>2. \A k, n : ~Asks(ms, k, n)
    BY <1>2 DEF Asks, Users
  <2>. QED
    BY <2>1, <2>2 DEF Drawn
<1>3. CASE Users(ms) # {}
  <2> DEFINE q == Latest(Users(ms))
             m == ms[q]
  <2>1. Users(ms) \subseteq 1..Len(ms)
    BY <1>1 DEF Users
  <2>2. q \in Users(ms) /\ \A j \in Users(ms) : j <= q
    BY <1>1, <1>3, <2>1, LatestIsLast
  <2>3. LastUser(ms) = <<m>>
    BY <1>3 DEF LastUser
  <2> HIDE DEF q
  <2>4. q \in 1..Len(ms) /\ m.role = "user" /\ m \in Messages
    BY <1>1, <2>1, <2>2 DEF Users
  <2>5. \A k, n : Asks(ms, k, n) => m.turns = {k}
    <3> SUFFICES ASSUME NEW k, NEW n, Asks(ms, k, n) PROVE m.turns = {k}
      OBVIOUS
    <3>1. PICK p \in 1..Len(ms) : /\ ms[p].role = "user" /\ ms[p].turns = {k}
                                  /\ \A j \in 1..Len(ms) : ms[j].role = "user" => j <= p
      BY <1>1 DEF Asks
    <3>2. p \in Users(ms)
      BY <1>1, <3>1 DEF Users
    <3>3. p <= q /\ q <= p
      BY <2>2, <2>4, <3>1, <3>2
    <3>4. p = q
      BY <1>1, <2>4, <3>3
    <3>. QED
      BY <3>1, <3>4
  <2>6. m = ms[q]
    OBVIOUS
  <2> HIDE DEF m
  <2>7. <<m>> \in Lists /\ Len(<<m>>) = 1 /\ <<m>>[1] = m
    BY <2>4 DEF Lists
  <2>8. Drawn(LastUser(ms), ms, {"user"})
    BY <2>3, <2>4, <2>6, <2>7 DEF Drawn
  <2>. QED
    BY <2>3, <2>4, <2>5, <2>7, <2>8
<1>. QED
  BY <1>2, <1>3

\* The two parts _restore_session takes a list apart into.
LEMMA PartsFacts ==
  ASSUME NEW ms \in Lists
  PROVE  /\ SystemMessages(ms) \in Lists /\ Drawn(SystemMessages(ms), ms, {"system"})
         /\ Conversation(ms) \in Lists /\ Drawn(Conversation(ms), ms, Roles \ {"system"})
         /\ CallsPrecede(ms) => CallsPrecede(Conversation(ms))
<1>1. {"assistant", "tool"} \subseteq Roles \ {"system"}
  BY DEF Roles
<1>. QED
  BY <1>1, SelectDraws, SelectCalls DEF SystemMessages, Conversation

\* Restoring a session keeps the turns and the calls of the two lists.
LEMMA RestoredFacts ==
  ASSUME NEW ms \in Lists, NEW s, ctx[s] \in Lists
  PROVE  /\ Restored(ms, s) \in Lists /\ RestoredLen(ms, s) \in Nat
         /\ \A T : Within(ms, T) /\ Within(ctx[s], T) => Within(Restored(ms, s), T)
         /\ CallsPrecede(ms) /\ CallsPrecede(ctx[s]) => CallsPrecede(Restored(ms, s))
<1>1. CASE ctx[s] = <<>>
  BY <1>1 DEF Restored, RestoredLen
<1>2. CASE ctx[s] # <<>>
  <2> DEFINE a == SystemMessages(ms)
             b == Conversation(ctx[s])
             c == LastUser(ms)
             r == a \o b \o c
  <2>1. Restored(ms, s) = r /\ RestoredLen(ms, s) = Len(a) + Len(b)
    BY <1>2 DEF Restored, RestoredLen
  <2>2. /\ a \in Lists /\ b \in Lists /\ c \in Lists
        /\ Drawn(a, ms, {"system"}) /\ Drawn(b, ctx[s], Roles \ {"system"}) /\ Drawn(c, ms, {"user"})
        /\ CallsPrecede(ctx[s]) => CallsPrecede(b)
    BY PartsFacts, LastUserFacts
  <2> HIDE DEF a, b, c
  <2>3. a \o b \in Lists /\ r \in Lists /\ Len(a) \in Nat /\ Len(b) \in Nat
    BY <2>2, ConcatFacts
  <2>4. ASSUME NEW T, Within(ms, T), Within(ctx[s], T) PROVE Within(r, T)
    <3>1. Within(a, T) /\ Within(b, T) /\ Within(c, T)
      BY <2>2, <2>4, DrawnWithin
    <3>. QED
      BY <2>2, <2>3, <3>1, ConcatWithin
  <2>5. ASSUME CallsPrecede(ctx[s]) PROVE CallsPrecede(r)
    <3>1. CallsPrecede(a) /\ CallsPrecede(c) /\ CallsPrecede(b)
      BY <2>2, <2>5, DrawnCalls
    <3>. QED
      BY <2>2, <2>3, <3>1, ConcatCalls
  <2> HIDE DEF r
  <2>. QED
    BY <2>1, <2>3, <2>4, <2>5
<1>. QED
  BY <1>1, <1>2

\* Restoring a session puts the question of the turn last.
LEMMA RestoredAsks ==
  ASSUME NEW ms \in Lists, NEW s, ctx[s] \in Lists, NEW k, NEW n \in Nat, Asks(ms, k, n)
  PROVE  Asks(Restored(ms, s), k, n)
<1>1. CASE ctx[s] = <<>>
  BY <1>1 DEF Restored
<1>2. CASE ctx[s] # <<>>
  <2> DEFINE ab == SystemMessages(ms) \o Conversation(ctx[s])
             c == LastUser(ms)
             r == ab \o c
  <2>1. Restored(ms, s) = r
    BY <1>2 DEF Restored
  <2>2. ab \in Lists /\ c \in Lists /\ Len(c) = 1 /\ c[1].role = "user" /\ c[1].turns = {k}
    BY PartsFacts, LastUserFacts, ConcatFacts
  <2> HIDE DEF ab, c
  <2>3. /\ r \in Lists /\ Len(ab) \in Nat /\ Len(r) = Len(ab) + 1 /\ r[Len(ab) + 1] = c[1]
        /\ DOMAIN r = 1..(Len(ab) + 1)
    <3>1. /\ r \in Lists /\ Len(ab) \in Nat /\ Len(r) = Len(ab) + Len(c)
          /\ \A i \in 1..Len(c) : r[Len(ab) + i] = c[i]
      BY <2>2, ConcatFacts
    <3>2. DOMAIN r = 1..Len(r)
      BY <3>1, ListFacts
    <3> HIDE DEF r
    <3>3. 1 \in 1..Len(c)
      BY <2>2
    <3>. QED
      BY <2>2, <3>1, <3>2, <3>3
  <2> HIDE DEF r
  <2>4. Asks(r, k, n)
    <3> DEFINE q == Len(ab) + 1
    <3>1. q \in DOMAIN r /\ Len(r) <= q + n /\ \A i \in DOMAIN r : i <= q
      BY <2>3
    <3>2. r[q].role = "user" /\ r[q].turns = {k}
      BY <2>2, <2>3
    <3> HIDE DEF q
    <3>. QED
      BY <3>1, <3>2 DEF Asks
  <2>. QED
    BY <2>1, <2>4
<1>. QED
  BY <1>1, <1>2

\* Restoring a turn that has only its question puts the question last, behind messages
\* of other turns.
LEMMA RestoredEnds ==
  ASSUME NEW ms \in Lists, NEW s, ctx[s] \in Lists, NEW k,
         Asks(ms, k, 0), EndsWith(ms, k, 0, 0),
         \A i \in DOMAIN ms : ms[i].role = "system" => ms[i].turns = {},
         \A i \in DOMAIN ctx[s] : k \notin ctx[s][i].turns
  PROVE  EndsWith(Restored(ms, s), k, RestoredLen(ms, s), 0)
<1>1. CASE ctx[s] = <<>>
  BY <1>1 DEF Restored, RestoredLen
<1>2. CASE ctx[s] # <<>>
  <2> DEFINE a == SystemMessages(ms)
             b == Conversation(ctx[s])
             ab == a \o b
             c == LastUser(ms)
             r == ab \o c
  <2>1. Restored(ms, s) = r /\ RestoredLen(ms, s) = Len(a) + Len(b)
    BY <1>2 DEF Restored, RestoredLen
  <2>2. /\ a \in Lists /\ b \in Lists /\ c \in Lists
        /\ Drawn(a, ms, {"system"}) /\ Drawn(b, ctx[s], Roles \ {"system"})
        /\ Len(c) = 1 /\ c[1].turns = {k}
    BY PartsFacts, LastUserFacts
  <2>3. DOMAIN ms = 1..Len(ms) /\ DOMAIN ctx[s] = 1..Len(ctx[s])
    BY ListFacts
  <2> HIDE DEF a, b, c
  <2>4. /\ \A i \in 1..Len(a) : k \notin a[i].turns
        /\ \A i \in 1..Len(b) : k \notin b[i].turns
    BY <2>2, <2>3 DEF Drawn
  <2>5. /\ ab \in Lists /\ Len(ab) = Len(a) + Len(b) /\ Len(a) \in Nat /\ Len(b) \in Nat
        /\ \A i \in 1..Len(a) : ab[i] = a[i]
        /\ \A i \in 1..Len(b) : ab[Len(a) + i] = b[i]
    BY <2>2, ConcatFacts
  <2> HIDE DEF ab
  <2>6. ASSUME NEW i \in 1..Len(ab) PROVE k \notin ab[i].turns
    <3>1. CASE i \in 1..Len(a)
      BY <2>4, <2>5, <3>1
    <3>2. CASE i \notin 1..Len(a)
      <4>1. i - Len(a) \in 1..Len(b) /\ Len(a) + (i - Len(a)) = i
        BY <2>5, <3>2
      <4>2. ab[i] = b[i - Len(a)]
        BY <2>5, <4>1
      <4>. QED
        BY <2>4, <4>1, <4>2
    <3>. QED
      BY <3>1, <3>2
  <2>7. /\ r \in Lists /\ Len(ab) \in Nat /\ Len(r) = Len(ab) + 1 /\ r[Len(ab) + 1] = c[1]
        /\ \A i \in 1..Len(ab) : r[i] = ab[i]
    <3>1. /\ r \in Lists /\ Len(ab) \in Nat /\ Len(r) = Len(ab) + Len(c)
          /\ \A i \in 1..Len(ab) : r[i] = ab[i]
          /\ \A i \in 1..Len(c) : r[Len(ab) + i] = c[i]
      BY <2>2, <2>5, ConcatFacts
    <3> HIDE DEF r
    <3>2. 1 \in 1..Len(c)
      BY <2>2
    <3>. QED
      BY <2>2, <3>1, <3>2
  <2> HIDE DEF r
  <2>8. DOMAIN r = 1..(Len(ab) + 1)
    BY <2>7, ListFacts
  <2>9. ASSUME NEW i \in DOMAIN r
        PROVE  /\ k \in r[i].turns <=> Len(ab) + 1 <= i
               /\ Len(ab) < i => r[i].turns \subseteq {k}
    <3>1. CASE i \in 1..Len(ab)
      BY <2>6, <2>7, <3>1
    <3>2. CASE i = Len(ab) + 1
      BY <2>2, <2>7, <3>2
    <3>. QED
      BY <2>7, <2>8, <3>1, <3>2
  <2>10. EndsWith(r, k, Len(ab), 0)
    <3>1. Len(ab) + 1 \in Nat /\ Len(ab) < Len(ab) + 1 /\ Len(r) = (Len(ab) + 1) + 0
      BY <2>7
    <3>. QED
      BY <2>9, <3>1 DEF EndsWith
  <2>. QED
    BY <2>1, <2>5, <2>10
<1>. QED
  BY <1>1, <1>2

-----------------------------------------------------------------------------
(* One hook *)

\* What is typed about a crew.
LEMMA CrewFacts ==
  ASSUME NEW cs \in Seq(CrewRecords), NEW k \in 1..Len(cs)
  PROVE  /\ cs[k] \in CrewRecords /\ cs[k].session \in Sessions /\ cs[k].state \in CrewStates
         /\ cs[k].steps \in Nat /\ cs[k].loaded \in BOOLEAN /\ cs[k].hist \in Nat /\ cs[k].last \in Nat
<1>1. cs[k] \in CrewRecords
  BY ElementOfSeq
<1>. QED
  BY <1>1 DEF CrewRecords

\* The record of crew k is c, every other record stays.
Updated(u, cs, k, c) ==
  u \in Seq(CrewRecords) /\ Len(u) = Len(cs) /\ u[k] = c /\ \A i \in 1..Len(cs) : i # k => u[i] = cs[i]

\* One crew is changed, the others are not.
LEMMA UpdateFacts ==
  ASSUME NEW cs \in Seq(CrewRecords), NEW k \in 1..Len(cs), NEW c \in CrewRecords, NEW u,
         u = [cs EXCEPT ![k] = c]
  PROVE  Updated(u, cs, k, c)
<1>1. Len(cs) \in Nat /\ DOMAIN cs = 1..Len(cs)
  BY LenProperties
<1>2. \A i \in 1..Len(cs) : cs[i] \in CrewRecords
  BY ElementOfSeq
<1>3. u = [i \in 1..Len(cs) |-> IF i = k THEN c ELSE cs[i]]
  BY <1>1
<1>4. \A i \in 1..Len(cs) : u[i] = IF i = k THEN c ELSE cs[i]
  BY <1>3
<1>5. u \in [1..Len(cs) -> CrewRecords]
  BY <1>2, <1>3
<1>6. u \in Seq(CrewRecords) /\ Len(u) = Len(cs)
  BY <1>1, <1>5, IsASeq
<1>. QED
  BY <1>4, <1>6 DEF Updated

HookedCrew(c, id, h) == [c EXCEPT !.loaded = TRUE, !.last = id, !.hist = h]

HookedFrom(d, c, id, h) ==
  /\ d \in CrewRecords /\ d.session = c.session /\ d.state = c.state /\ d.steps = c.steps
  /\ d.loaded = TRUE /\ d.last = id /\ d.hist = h

\* A hook changes only what its crew remembers.
LEMMA HookedCrewFacts ==
  ASSUME NEW c \in CrewRecords, NEW id \in Nat, NEW h \in Nat
  PROVE  HookedFrom(HookedCrew(c, id, h), c, id, h)
BY DEF HookedCrew, CrewRecords, HookedFrom

WorkOf(n) == {t \in Work : Len(t.crews) = n}

\* What is typed about the work of the hooks.
LEMMA WorkFacts ==
  ASSUME NEW n, NEW t \in WorkOf(n)
  PROVE  /\ t.messages \in Lists /\ t.crews \in Seq(CrewRecords) /\ Len(t.crews) = n
         /\ t.shrunk \in BOOLEAN
BY DEF WorkOf, Work

\* The messages the hook of crew k goes on with, and the history among them.
Given(t, k) ==
  IF t.crews[k].loaded THEN t.messages ELSE Restored(t.messages, t.crews[k].session)
GivenHist(t, k) ==
  IF t.crews[k].loaded THEN t.crews[k].hist ELSE RestoredLen(t.messages, t.crews[k].session)

HookGives(t, k, id, u) ==
  /\ u \in WorkOf(Len(t.crews)) /\ u.messages = Short(Given(t, k))
  /\ ~u.shrunk => ~t.shrunk /\ Alike(u.messages, Given(t, k)) /\ u.crews[k].hist = GivenHist(t, k)
  /\ \A i \in 1..Len(t.crews) : i # k => u.crews[i] = t.crews[i]
  /\ u.crews[k].session = t.crews[k].session /\ u.crews[k].state = t.crews[k].state
  /\ u.crews[k].steps = t.crews[k].steps /\ u.crews[k].loaded /\ u.crews[k].last = id

\* The list a hook shortens: the one it is given, restored the first time.
LEMMA GivenFacts ==
  ASSUME NEW n, NEW t \in WorkOf(n), NEW k \in 1..n, ctx \in [Sessions -> Lists]
  PROVE  Given(t, k) \in Lists /\ GivenHist(t, k) \in Nat
<1>1. /\ t.messages \in Lists /\ t.crews[k].session \in Sessions /\ t.crews[k].hist \in Nat
      /\ t.crews[k].loaded \in BOOLEAN
  BY WorkFacts, CrewFacts
<1>2. ctx[t.crews[k].session] \in Lists
  BY <1>1
<1>. QED
  BY <1>1, <1>2, RestoredFacts DEF Given, GivenHist

\* A history is never shorter than nothing.
LEMMA MinusFacts ==
  ASSUME NEW a \in Nat, NEW b \in Int
  PROVE  /\ b >= 0 => Minus(a, b) \in Nat
         /\ b = 0 => Minus(a, b) = a
BY DEF Minus

\* What one hook makes of the list it is given and of its crew.
LEMMA HookStep ==
  ASSUME NEW n, NEW t \in WorkOf(n), NEW k \in 1..n, NEW id \in Nat, ctx \in [Sessions -> Lists]
  PROVE  HookGives(t, k, id, Hook(t, k, id))
<1> DEFINE ms == Given(t, k)
           short == Short(ms)
           hist == Minus(GivenHist(t, k), Len(ms) - Len(short))
           c == HookedCrew(t.crews[k], id, hist)
           cs == [t.crews EXCEPT ![k] = c]
           sh == t.shrunk \/ short # PruneToolResults(ms)
           u == [messages |-> short, crews |-> cs, shrunk |-> sh]
<1>1. /\ t.messages \in Lists /\ t.crews \in Seq(CrewRecords) /\ Len(t.crews) = n
      /\ t.shrunk \in BOOLEAN /\ t.crews[k] \in CrewRecords
  BY WorkFacts, CrewFacts
<1>2. DOMAIN t.crews = 1..n
  BY <1>1, LenProperties
<1>3. Hook(t, k, id) = u
  <2>1. cs = [t.crews EXCEPT ![k].loaded = TRUE, ![k].last = id, ![k].hist = hist]
    BY <1>2 DEF HookedCrew
  <2> HIDE DEF cs
  <2>2. Hook(t, k, id) =
          [messages |-> short,
           crews |-> [t.crews EXCEPT ![k].loaded = TRUE, ![k].last = id, ![k].hist = hist],
           shrunk |-> sh]
    BY DEF Hook, Given, GivenHist, Short
  <2>. QED
    BY <2>1, <2>2
<1>4. ms \in Lists /\ GivenHist(t, k) \in Nat
  BY GivenFacts
<1> HIDE DEF ms
<1>5. short \in Lists /\ Len(short) <= Len(ms) /\ Len(ms) \in Nat /\ Len(short) \in Nat
  BY <1>4, ShortFacts, ListFacts
<1>6. hist \in Nat
  <2>1. Len(ms) - Len(short) \in Int /\ Len(ms) - Len(short) >= 0
    BY <1>5
  <2>. QED
    BY <1>4, <2>1, MinusFacts
<1>7. ~sh => ~t.shrunk /\ Alike(short, ms) /\ hist = GivenHist(t, k)
  <2> SUFFICES ASSUME ~sh PROVE ~t.shrunk /\ Alike(short, ms) /\ hist = GivenHist(t, k)
    OBVIOUS
  <2>1. short = PruneToolResults(ms) /\ ~t.shrunk
    OBVIOUS
  <2>2. Alike(short, ms)
    BY <1>4, <2>1, PrunesAlike
  <2>3. Len(ms) - Len(short) = 0
    BY <1>5, <2>2 DEF Alike
  <2>. QED
    BY <1>4, <2>1, <2>2, <2>3, MinusFacts
<1> HIDE DEF short, hist
<1>8. /\ c \in CrewRecords /\ c.session = t.crews[k].session /\ c.state = t.crews[k].state
      /\ c.steps = t.crews[k].steps /\ c.loaded = TRUE /\ c.last = id /\ c.hist = hist
  <2> DEFINE d == t.crews[k]
  <2>1. d \in CrewRecords /\ hist \in Nat
    BY <1>1, <1>6
  <2> HIDE DEF d
  <2>2. HookedFrom(HookedCrew(d, id, hist), d, id, hist)
    BY <2>1, HookedCrewFacts
  <2>3. HookedFrom(c, t.crews[k], id, hist)
    BY <2>2 DEF d
  <2>. HIDE DEF c
  <2>. QED
    BY <2>3 DEF HookedFrom
<1> HIDE DEF c
<1>9. Updated(cs, t.crews, k, c)
  BY <1>1, <1>8, UpdateFacts
<1> HIDE DEF cs
<1>10. sh \in BOOLEAN
  BY <1>1
<1> HIDE DEF sh
<1>11. u \in WorkOf(Len(t.crews))
  BY <1>5, <1>9, <1>10 DEF WorkOf, Work, Updated
<1>12. u.messages = short /\ u.crews = cs /\ u.shrunk = sh
  OBVIOUS
<1> HIDE DEF u
<1>13. HookGives(t, k, id, u)
  <2>1. u.messages = Short(Given(t, k))
    BY <1>12 DEF short, ms
  <2>2. ~u.shrunk => ~t.shrunk /\ Alike(u.messages, Given(t, k)) /\ u.crews[k].hist = GivenHist(t, k)
    BY <1>7, <1>8, <1>9, <1>12 DEF Updated, ms
  <2>3. \A i \in 1..Len(t.crews) : i # k => u.crews[i] = t.crews[i]
    BY <1>9, <1>12 DEF Updated
  <2>4. u.crews[k] = c
    BY <1>9, <1>12 DEF Updated
  <2>. QED
    BY <1>8, <1>11, <2>1, <2>2, <2>3, <2>4 DEF HookGives
<1>. QED
  BY <1>3, <1>13

-----------------------------------------------------------------------------
(* All hooks *)

Start(ms) == [messages |-> ms, crews |-> crews, shrunk |-> shrunk]

\* h[j] is what the first j hooks make of the messages and the crews.
Hooking(ms, id, h) ==
  /\ h \in [0..Len(crews) -> WorkOf(Len(crews))] /\ h[0] = Start(ms)
  /\ Hooks(ms, id) = h[Len(crews)]
  /\ \A j \in 1..Len(crews) : HookGives(h[j - 1], j, id, h[j])

HookTyped == ctx \in [Sessions -> Lists] /\ crews \in Seq(CrewRecords) /\ shrunk \in BOOLEAN

\* The hooks of an LLM call are a recursion over the crews of the process.
LEMMA HooksRecur ==
  ASSUME NEW ms \in Lists, NEW id \in Nat, HookTyped
  PROVE  \E h : Hooking(ms, id, h)
<1> DEFINE n == Len(crews)
           W == WorkOf(n)
           F == [p \in (1..n) \X W |-> Hook(p[2], p[1], id)]
           G(up) == [j \in 0..Len(crews) |->
                       IF j = 0 THEN [messages |-> ms, crews |-> crews, shrunk |-> shrunk]
                       ELSE Hook(up[j - 1], j, id)]
           after == CHOOSE up : up = G(up)
<1>1. n \in Nat /\ Start(ms) \in W
  BY LenProperties DEF HookTyped, Start, WorkOf, Work
<1>2. ASSUME NEW j \in 1..n, NEW t \in W
      PROVE  Hook(t, j, id) \in W /\ HookGives(t, j, id, Hook(t, j, id))
  <2>1. HookGives(t, j, id, Hook(t, j, id))
    BY HookStep DEF HookTyped
  <2>2. Len(t.crews) = n
    BY WorkFacts
  <2>. QED
    BY <2>1, <2>2 DEF HookGives
<1> HIDE DEF W
<1>3. F \in [(1..n) \X W -> W]
  BY <1>2
<1>4. PICK h : Recurs(W, F, Start(ms), n, h)
  BY <1>1, <1>3, Recursion
<1>5. /\ h \in [0..n -> W] /\ h[0] = Start(ms)
      /\ \A j \in 1..n : h[j] = Hook(h[j - 1], j, id)
  <2>1. \A j \in 1..n : j - 1 \in 0..n
    BY <1>1
  <2>2. h \in [0..n -> W] /\ h[0] = Start(ms) /\ \A j \in 1..n : h[j] = F[<<j, h[j - 1]>>]
    BY <1>4 DEF Recurs
  <2>. QED
    BY <2>1, <2>2
<1> HIDE DEF F
<1>6. h = G(h)
  <2>1. \A j \in 0..n : h[j] = G(h)[j]
    <3> SUFFICES ASSUME NEW j \in 0..n PROVE h[j] = G(h)[j]
      OBVIOUS
    <3>1. CASE j = 0
      BY <1>1, <1>5, <3>1 DEF Start
    <3>2. CASE j # 0
      <4>1. j \in 1..n
        BY <1>1, <3>2
      <4>2. G(h)[j] = Hook(h[j - 1], j, id)
        BY <3>2
      <4>. QED
        BY <1>5, <4>1, <4>2
    <3>. QED
      BY <3>1, <3>2
  <2>2. h = [j \in 0..n |-> h[j]]
    BY <1>5
  <2>3. G(h) = [j \in 0..n |-> G(h)[j]]
    OBVIOUS
  <2> HIDE DEF G
  <2>. QED
    BY <2>1, <2>2, <2>3
<1>7. after = G(after)
  BY <1>6
<1>8. after = h
  <2> DEFINE T == {j \in 0..n : after[j] = h[j]}
  <2>1. \A j \in 0..n : after[j] = G(after)[j]
    BY <1>7
  <2>2. 0 \in T
    BY <1>1, <1>5, <2>1 DEF Start
  <2>3. ASSUME NEW j \in 1..n, j - 1 \in T PROVE j \in T
    <3>1. j \in 0..n /\ j # 0
      BY <1>1
    <3>2. after[j] = Hook(after[j - 1], j, id)
      BY <2>1, <3>1
    <3>3. after[j - 1] = h[j - 1]
      BY <2>3
    <3> HIDE DEF after
    <3>. QED
      BY <1>5, <3>1, <3>2, <3>3
  <2>4. 0..n \subseteq T
    <3> HIDE DEF T
    <3>. QED
      BY <1>1, <2>2, <2>3, NatUpTo
  <2>5. after = [j \in 0..n |-> after[j]]
    BY <1>7
  <2>6. h = [j \in 0..n |-> h[j]]
    BY <1>5
  <2> HIDE DEF after
  <2>. QED
    BY <2>4, <2>5, <2>6
<1>9. Hooks(ms, id) = after[n]
  BY DEF Hooks
<1> HIDE DEF after, G
<1>10. ASSUME NEW j \in 1..n PROVE HookGives(h[j - 1], j, id, h[j])
  <2>1. j - 1 \in 0..n
    BY <1>1
  <2>2. h[j - 1] \in W
    BY <1>5, <2>1
  <2>. QED
    BY <1>2, <1>5, <2>2
<1>. QED
  BY <1>5, <1>8, <1>9, <1>10 DEF Hooking, W

\* The crews after the first j hooks.
CrewsAfter(cs, j, id) ==
  /\ cs \in Seq(CrewRecords) /\ Len(cs) = Len(crews)
  /\ \A i \in 1..Len(crews) :
       /\ cs[i].session = crews[i].session /\ cs[i].state = crews[i].state
       /\ cs[i].steps = crews[i].steps
       /\ i <= j => cs[i].loaded /\ cs[i].last = id
       /\ j < i => cs[i] = crews[i]

\* After j hooks the first j crews have run theirs, and no other has.
LEMMA HookingCrews ==
  ASSUME NEW ms, NEW id, NEW h, Hooking(ms, id, h), crews \in Seq(CrewRecords)
  PROVE  \A j \in 0..Len(crews) : CrewsAfter(h[j].crews, j, id) /\ h[j].messages \in Lists
<1> DEFINE n == Len(crews)
           T == {j \in 0..n : CrewsAfter(h[j].crews, j, id)}
<1>1. n \in Nat
  BY LenProperties
<1>2. \A j \in 0..n : /\ h[j] \in WorkOf(n) /\ h[j].crews \in Seq(CrewRecords) /\ Len(h[j].crews) = n
                      /\ h[j].messages \in Lists
  <2>1. \A j \in 0..n : h[j] \in WorkOf(n)
    BY DEF Hooking
  <2>. QED
    BY <2>1, WorkFacts
<1>3. 0 \in T
  <2>1. h[0].crews = crews
    BY DEF Hooking, Start
  <2>2. CrewsAfter(crews, 0, id)
    BY <1>1 DEF CrewsAfter
  <2>. QED
    BY <1>1, <2>1, <2>2
<1>4. ASSUME NEW j \in 1..n, j - 1 \in T PROVE j \in T
  <2> DEFINE a == h[j - 1].crews
             b == h[j].crews
  <2>1. j - 1 \in 0..n /\ j \in 0..n
    BY <1>1
  <2>2. CrewsAfter(a, j - 1, id) /\ Len(a) = n
    BY <1>2, <1>4, <2>1
  <2>3. HookGives(h[j - 1], j, id, h[j])
    BY DEF Hooking
  <2>4. /\ \A i \in 1..n : i # j => b[i] = a[i]
        /\ b[j].session = a[j].session /\ b[j].state = a[j].state
        /\ b[j].steps = a[j].steps /\ b[j].loaded /\ b[j].last = id
    BY <2>2, <2>3 DEF HookGives
  <2>5. b \in Seq(CrewRecords) /\ Len(b) = n
    BY <1>2, <2>1
  <2> HIDE DEF a, b
  <2>6. ASSUME NEW i \in 1..n
        PROVE  /\ b[i].session = crews[i].session /\ b[i].state = crews[i].state
               /\ b[i].steps = crews[i].steps
               /\ i <= j => b[i].loaded /\ b[i].last = id
               /\ j < i => b[i] = crews[i]
    <3>1. CASE i = j
      BY <1>1, <2>2, <2>4, <3>1 DEF CrewsAfter
    <3>2. CASE i # j
      <4>1. b[i] = a[i] /\ (i <= j <=> i <= j - 1) /\ (j < i => j - 1 < i)
        BY <1>1, <2>4, <3>2
      <4>. QED
        BY <2>2, <4>1 DEF CrewsAfter
    <3>. QED
      BY <3>1, <3>2
  <2>7. CrewsAfter(b, j, id)
    BY <2>5, <2>6 DEF CrewsAfter
  <2>. QED
    BY <2>1, <2>7 DEF b
<1>5. 0..n \subseteq T
  <2> HIDE DEF T
  <2>. QED
    BY <1>1, <1>3, <1>4, NatUpTo
<1>. QED
  BY <1>2, <1>5

\* The messages the hook of crew j works on when it is given ms.
Handed(ms, j) == IF crews[j].loaded THEN ms ELSE Restored(ms, crews[j].session)

\* The j-th hook restores and shortens the list the one before left.
LEMMA HookingStep ==
  ASSUME NEW ms, NEW id, NEW h, Hooking(ms, id, h), crews \in Seq(CrewRecords), NEW j \in 1..Len(crews)
  PROVE  /\ j - 1 \in 0..Len(crews) /\ h[j - 1].messages \in Lists
         /\ h[j].messages = Short(Handed(h[j - 1].messages, j))
         /\ ~h[j].shrunk => /\ ~h[j - 1].shrunk
                            /\ Alike(h[j].messages, Handed(h[j - 1].messages, j))
                            /\ crews[j].loaded => h[j].crews[j].hist = crews[j].hist
                            /\ ~crews[j].loaded =>
                                 h[j].crews[j].hist = RestoredLen(h[j - 1].messages, crews[j].session)
         /\ \A i \in 1..Len(crews) : i # j => h[j].crews[i] = h[j - 1].crews[i]
<1>1. j - 1 \in 0..Len(crews) /\ j - 1 < j
  BY LenProperties
<1>2. CrewsAfter(h[j - 1].crews, j - 1, id) /\ h[j - 1].messages \in Lists
  BY <1>1, HookingCrews
<1>3. h[j - 1].crews[j] = crews[j] /\ Len(h[j - 1].crews) = Len(crews)
  BY <1>1, <1>2 DEF CrewsAfter
<1>4. HookGives(h[j - 1], j, id, h[j])
  BY DEF Hooking
<1>5. Given(h[j - 1], j) = Handed(h[j - 1].messages, j)
  BY <1>3 DEF Given, Handed
<1>6. /\ crews[j].loaded => GivenHist(h[j - 1], j) = crews[j].hist
      /\ ~crews[j].loaded => GivenHist(h[j - 1], j) = RestoredLen(h[j - 1].messages, crews[j].session)
  BY <1>3 DEF GivenHist
<1>. QED
  BY <1>1, <1>2, <1>3, <1>4, <1>5, <1>6 DEF HookGives

\* What shortening a list and restoring the sessions keep, all hooks keep.
LEMMA HookingPreserves ==
  ASSUME NEW ms, NEW id, NEW h, Hooking(ms, id, h), crews \in Seq(CrewRecords),
         NEW P, ms \in P, \A m \in P : Short(m) \in P,
         \A j \in 1..Len(crews) : \A m \in P : Handed(m, j) \in P
  PROVE  Hooks(ms, id).messages \in P
<1> DEFINE n == Len(crews)
           T == {j \in 0..n : h[j].messages \in P}
<1>1. n \in Nat
  BY LenProperties
<1>2. 0 \in T
  BY <1>1 DEF Hooking, Start
<1>3. ASSUME NEW j \in 1..n, j - 1 \in T PROVE j \in T
  <2>1. h[j].messages = Short(Handed(h[j - 1].messages, j))
    BY HookingStep
  <2>2. h[j - 1].messages \in P
    BY <1>3
  <2>3. h[j].messages \in P
    BY <2>1, <2>2
  <2>. QED
    BY <1>1, <2>3
<1>4. 0..n \subseteq T
  <2> HIDE DEF T
  <2>. QED
    BY <1>1, <1>2, <1>3, NatUpTo
<1>5. n \in T
  BY <1>1, <1>4
<1>. QED
  BY <1>5 DEF Hooking

\* What is typed about the list a hook shortens.
LEMMA HandedFacts ==
  ASSUME HookTyped, NEW ms \in Lists, NEW j \in 1..Len(crews)
  PROVE  /\ Handed(ms, j) \in Lists /\ crews[j].session \in Sessions
         /\ ctx[crews[j].session] \in Lists
<1>1. crews[j].session \in Sessions
  BY CrewFacts DEF HookTyped
<1>2. ctx[crews[j].session] \in Lists
  BY <1>1 DEF HookTyped
<1>. QED
  BY <1>1, <1>2, RestoredFacts DEF Handed

\* The hooks bring in only the turns of the sessions they restore.
LEMMA HooksWithin ==
  ASSUME HookTyped, NEW ms \in Lists, NEW id \in Nat, NEW T, Within(ms, T),
         \A j \in 1..Len(crews) : ~crews[j].loaded => Within(ctx[crews[j].session], T)
  PROVE  Within(Hooks(ms, id).messages, T)
<1> DEFINE P == {m \in Lists : Within(m, T)}
<1>1. PICK h : Hooking(ms, id, h)
  BY HooksRecur
<1>2. \A m \in P : Short(m) \in P
  BY ShortFacts
<1>3. ASSUME NEW j \in 1..Len(crews), NEW m \in P PROVE Handed(m, j) \in P
  <2>1. m \in Lists /\ Within(m, T) /\ Handed(m, j) \in Lists /\ ctx[crews[j].session] \in Lists
    BY HandedFacts
  <2>2. Within(Handed(m, j), T)
    BY <2>1, RestoredFacts DEF Handed
  <2>. QED
    BY <2>1, <2>2
<1>4. ms \in P
  OBVIOUS
<1> HIDE DEF P
<1>5. Hooks(ms, id).messages \in P
  BY <1>1, <1>2, <1>3, <1>4, HookingPreserves DEF HookTyped
<1>. QED
  BY <1>5 DEF P

\* Every result stays behind its call through all the hooks of an LLM call.
LEMMA HooksCalls ==
  ASSUME HookTyped, NEW ms \in Lists, NEW id \in Nat, CallsPrecede(ms),
         \A s \in Sessions : CallsPrecede(ctx[s])
  PROVE  CallsPrecede(Hooks(ms, id).messages)
<1> DEFINE P == {m \in Lists : CallsPrecede(m)}
<1>1. PICK h : Hooking(ms, id, h)
  BY HooksRecur
<1>2. \A m \in P : Short(m) \in P
  BY ShortFacts
<1>3. ASSUME NEW j \in 1..Len(crews), NEW m \in P PROVE Handed(m, j) \in P
  <2>1. /\ m \in Lists /\ CallsPrecede(m) /\ Handed(m, j) \in Lists
        /\ crews[j].session \in Sessions /\ ctx[crews[j].session] \in Lists
    BY HandedFacts
  <2>2. CallsPrecede(Handed(m, j))
    BY <2>1, RestoredFacts DEF Handed
  <2>. QED
    BY <2>1, <2>2
<1>4. ms \in P
  OBVIOUS
<1> HIDE DEF P
<1>5. Hooks(ms, id).messages \in P
  BY <1>1, <1>2, <1>3, <1>4, HookingPreserves DEF HookTyped
<1>. QED
  BY <1>5 DEF P

\* The question of the turn stays the last one through all the hooks.
LEMMA HooksAsk ==
  ASSUME HookTyped, NEW ms \in Lists, NEW id \in Nat,
         NEW k, NEW n \in Nat, n < KeepMessages, Asks(ms, k, n)
  PROVE  Asks(Hooks(ms, id).messages, k, n)
<1> DEFINE P == {m \in Lists : Asks(m, k, n)}
<1>1. PICK h : Hooking(ms, id, h)
  BY HooksRecur
<1>2. \A m \in P : Short(m) \in P
  BY ShortFacts
<1>3. ASSUME NEW j \in 1..Len(crews), NEW m \in P PROVE Handed(m, j) \in P
  <2>1. /\ m \in Lists /\ Asks(m, k, n) /\ Handed(m, j) \in Lists
        /\ crews[j].session \in Sessions /\ ctx[crews[j].session] \in Lists
    BY HandedFacts
  <2>2. Asks(Handed(m, j), k, n)
    BY <2>1, RestoredAsks DEF Handed
  <2>. QED
    BY <2>1, <2>2
<1>4. ms \in P
  OBVIOUS
<1> HIDE DEF P
<1>5. Hooks(ms, id).messages \in P
  BY <1>1, <1>2, <1>3, <1>4, HookingPreserves DEF HookTyped
<1>. QED
  BY <1>5 DEF P

\* What the hooks make of the crews.
LEMMA HooksCrews ==
  ASSUME HookTyped, NEW ms \in Lists, NEW id \in Nat
  PROVE  /\ Hooks(ms, id) \in WorkOf(Len(crews)) /\ Hooks(ms, id).messages \in Lists
         /\ Hooks(ms, id).crews \in Seq(CrewRecords) /\ Len(Hooks(ms, id).crews) = Len(crews)
         /\ Hooks(ms, id).shrunk \in BOOLEAN
         /\ \A i \in 1..Len(crews) :
              /\ Hooks(ms, id).crews[i].session = crews[i].session
              /\ Hooks(ms, id).crews[i].state = crews[i].state
              /\ Hooks(ms, id).crews[i].steps = crews[i].steps
              /\ Hooks(ms, id).crews[i].loaded /\ Hooks(ms, id).crews[i].last = id
<1>1. PICK h : Hooking(ms, id, h)
  BY HooksRecur
<1>2. Len(crews) \in 0..Len(crews) /\ Len(crews) \in Nat
  BY LenProperties DEF HookTyped
<1>3. CrewsAfter(Hooks(ms, id).crews, Len(crews), id) /\ Hooks(ms, id).messages \in Lists
  BY <1>1, <1>2, HookingCrews DEF Hooking, HookTyped
<1>4. Hooks(ms, id) \in WorkOf(Len(crews))
  BY <1>1, <1>2 DEF Hooking
<1>. QED
  BY <1>2, <1>3, <1>4, WorkFacts DEF CrewsAfter

\* Lists alike to the same one are alike.
LEMMA AlikeTwice ==
  ASSUME NEW a \in Lists, NEW b, NEW c, Alike(b, a), Alike(c, b)
  PROVE  Alike(c, a)
BY DEF Alike

\* A list is alike to itself.
LEMMA AlikeItself ==
  ASSUME NEW a \in Lists
  PROVE  Alike(a, a)
BY DEF Alike

\* Without a compression the hooks only restore the last crew's session.
LEMMA HooksKeep ==
  ASSUME HookTyped, NEW ms \in Lists, NEW id \in Nat, ~Hooks(ms, id).shrunk,
         NEW k \in 1..Len(crews), k = Len(crews),
         \A j \in 1..Len(crews) : j < k => crews[j].loaded
  PROVE  /\ ~shrunk
         /\ crews[k].loaded => /\ Alike(Hooks(ms, id).messages, ms)
                               /\ Hooks(ms, id).crews[k].hist = crews[k].hist
         /\ ~crews[k].loaded =>
              \E m \in Lists : /\ Alike(m, ms)
                               /\ Alike(Hooks(ms, id).messages, Restored(m, crews[k].session))
                               /\ Hooks(ms, id).crews[k].hist = RestoredLen(m, crews[k].session)
<1>1. PICK h : Hooking(ms, id, h)
  BY HooksRecur
<1> DEFINE T == {j \in 0..(k - 1) : ~h[j].shrunk => ~shrunk /\ Alike(h[j].messages, ms)}
<1>2. k \in Nat /\ k - 1 \in Nat /\ crews \in Seq(CrewRecords)
  BY LenProperties DEF HookTyped
<1>3. 0 \in T
  <2>1. h[0].messages = ms /\ h[0].shrunk = shrunk
    BY <1>1 DEF Hooking, Start
  <2>. QED
    BY <1>2, <2>1, AlikeItself
<1>4. ASSUME NEW j \in 1..(k - 1), j - 1 \in T PROVE j \in T
  <2>1. j \in 1..Len(crews) /\ j < k /\ j \in 0..(k - 1)
    BY <1>2
  <2>2. crews[j].loaded
    BY <2>1
  <2>3. ASSUME ~h[j].shrunk PROVE ~shrunk /\ Alike(h[j].messages, ms)
    <3>1. ~h[j - 1].shrunk /\ Alike(h[j].messages, h[j - 1].messages)
      BY <1>1, <1>2, <2>1, <2>2, <2>3, HookingStep DEF Handed
    <3>2. ~shrunk /\ Alike(h[j - 1].messages, ms)
      BY <1>4, <3>1
    <3>. QED
      BY <3>1, <3>2, AlikeTwice
  <2>. QED
    BY <2>1, <2>3
<1>5. k - 1 \in T
  <2>1. 0..(k - 1) \subseteq T
    <3> HIDE DEF T
    <3>. QED
      BY <1>2, <1>3, <1>4, NatUpTo
  <2>. QED
    BY <1>2, <2>1
<1>6. Hooks(ms, id) = h[k]
  BY <1>1 DEF Hooking
<1> DEFINE m == h[k - 1].messages
<1>7. /\ m \in Lists /\ ~h[k - 1].shrunk /\ Alike(h[k].messages, Handed(m, k))
      /\ crews[k].loaded => h[k].crews[k].hist = crews[k].hist
      /\ ~crews[k].loaded => h[k].crews[k].hist = RestoredLen(m, crews[k].session)
  BY <1>1, <1>2, <1>6, HookingStep
<1>8. ~shrunk /\ Alike(m, ms)
  BY <1>5, <1>7
<1> HIDE DEF m
<1>9. CASE crews[k].loaded
  <2>1. Alike(h[k].messages, m)
    BY <1>7, <1>9 DEF Handed
  <2>2. Alike(h[k].messages, ms)
    BY <1>8, <2>1, AlikeTwice
  <2>. QED
    BY <1>6, <1>7, <1>8, <1>9, <2>2
<1>10. CASE ~crews[k].loaded
  <2>1. Alike(h[k].messages, Restored(m, crews[k].session))
    BY <1>7, <1>10 DEF Handed
  <2>. QED
    BY <1>6, <1>7, <1>8, <1>10, <2>1
<1>. QED
  BY <1>9, <1>10

\* Without a compression the last crew's turn stays where its history ends.
LEMMA HooksEnd ==
  ASSUME HookTyped, NEW ms \in Lists, NEW id \in Nat, ~Hooks(ms, id).shrunk,
         NEW k \in 1..Len(crews), k = Len(crews),
         \A j \in 1..Len(crews) : j < k => crews[j].loaded,
         NEW n, EndsWith(ms, k, crews[k].hist, n),
         ~crews[k].loaded =>
            /\ n = 0 /\ crews[k].hist = 0 /\ Asks(ms, k, 0)
            /\ \A i \in DOMAIN ms : ms[i].role = "system" => ms[i].turns = {}
            /\ \A i \in DOMAIN ctx[crews[k].session] : k \notin ctx[crews[k].session][i].turns
  PROVE  EndsWith(Hooks(ms, id).messages, k, Hooks(ms, id).crews[k].hist, n)
<1> DEFINE u == Hooks(ms, id).messages
           hist == Hooks(ms, id).crews[k].hist
           s == crews[k].session
<1>1. u \in Lists
  BY HooksCrews
<1>2. CASE crews[k].loaded
  <2>1. Alike(u, ms) /\ hist = crews[k].hist
    BY <1>2, HooksKeep
  <2>. QED
    BY <1>1, <2>1, AlikeEnds
<1>3. CASE ~crews[k].loaded
  <2>1. PICK m \in Lists : Alike(m, ms) /\ Alike(u, Restored(m, s)) /\ hist = RestoredLen(m, s)
    BY <1>3, HooksKeep
  <2>2. ctx[s] \in Lists
    BY HandedFacts
  <2>3. Asks(m, k, 0) /\ EndsWith(m, k, 0, 0)
    BY <1>3, <2>1, AlikeAsks, AlikeEnds
  <2>4. \A i \in DOMAIN m : m[i].role = "system" => m[i].turns = {}
    <3>1. DOMAIN m = 1..Len(ms) /\ DOMAIN ms = 1..Len(ms)
      BY <2>1, ListFacts DEF Alike
    <3>. QED
      BY <1>3, <2>1, <3>1 DEF Alike
  <2>5. EndsWith(Restored(m, s), k, RestoredLen(m, s), 0)
    BY <1>3, <2>2, <2>3, <2>4, RestoredEnds
  <2>6. Restored(m, s) \in Lists
    BY <2>2, RestoredFacts
  <2> HIDE DEF u, hist, s
  <2>7. EndsWith(u, k, hist, 0)
    BY <1>1, <2>1, <2>5, <2>6, AlikeEnds
  <2>. QED
    BY <1>3, <2>7 DEF u, hist
<1>. QED
  BY <1>2, <1>3

-----------------------------------------------------------------------------
(* New and longer lists *)

\* What is typed about a message.
LEMMA MessageFacts ==
  ASSUME NEW role \in Roles, NEW k \in Nat, NEW long \in BOOLEAN
  PROVE  /\ Message(role, k, long) \in Messages /\ Message(role, k, long).role = role
         /\ Message(role, k, long).turns = {k}
BY DEF Message, Messages

\* The list of a new turn: its system prompt and its question.
LEMMA NewListFacts ==
  ASSUME NEW k \in Nat
  PROVE  /\ NewList(k) \in Lists /\ Within(NewList(k), {k}) /\ CallsPrecede(NewList(k))
         /\ Asks(NewList(k), k, 0) /\ EndsWith(NewList(k), k, 0, 0)
         /\ \A i \in DOMAIN NewList(k) : NewList(k)[i].role = "system" => NewList(k)[i].turns = {}
<1> DEFINE m == Message("user", k, FALSE)
           u == <<Prompt, m>>
<1>1. m \in Messages /\ m.role = "user" /\ m.turns = {k}
  BY MessageFacts DEF Roles
<1>2. Prompt \in Messages /\ Prompt.role = "system" /\ Prompt.turns = {}
  BY DEF Prompt, Messages, Roles
<1> HIDE DEF m
<1>3. u \in Lists /\ Len(u) = 2 /\ DOMAIN u = 1..2 /\ u[1] = Prompt /\ u[2] = m
  BY <1>1, <1>2 DEF Lists
<1>4. NewList(k) = u
  BY DEF NewList, m
<1> HIDE DEF u
<1>5. \A i \in DOMAIN u : i = 1 \/ i = 2
  BY <1>3
<1>6. Within(u, {k}) /\ CallsPrecede(u)
  BY <1>1, <1>2, <1>3, <1>5 DEF Within, CallsPrecede
<1>7. Asks(u, k, 0)
  <2>1. 2 \in DOMAIN u /\ Len(u) <= 2 + 0 /\ \A i \in DOMAIN u : i <= 2
    BY <1>3
  <2>. QED
    BY <1>1, <1>3, <2>1 DEF Asks
<1>8. EndsWith(u, k, 0, 0)
  <2>1. \A i \in DOMAIN u : (k \in u[i].turns <=> 2 <= i) /\ (0 < i => u[i].turns \subseteq {k})
    BY <1>1, <1>2, <1>3, <1>5
  <2>. QED
    BY <1>3, <2>1 DEF EndsWith
<1>9. \A i \in DOMAIN u : u[i].role = "system" => u[i].turns = {}
  BY <1>1, <1>2, <1>3, <1>5
<1>. QED
  BY <1>3, <1>4, <1>6, <1>7, <1>8, <1>9

\* A list with one more message.
Longer(u, ms, m) ==
  /\ u \in Lists /\ Len(ms) \in Nat /\ Len(u) = Len(ms) + 1
  /\ DOMAIN u = 1..(Len(ms) + 1) /\ DOMAIN ms = 1..Len(ms)
  /\ u[Len(ms) + 1] = m /\ \A i \in 1..Len(ms) : u[i] = ms[i]

\* Appending makes a list longer by one message.
LEMMA AppendLonger ==
  ASSUME NEW ms \in Lists, NEW m \in Messages
  PROVE  Longer(Append(ms, m), ms, m)
<1> DEFINE u == Append(ms, m)
<1>1. /\ u \in Lists /\ Len(u) = Len(ms) + 1 /\ u[Len(ms) + 1] = m
      /\ \A i \in 1..Len(ms) : u[i] = ms[i]
  BY AppendFacts
<1> HIDE DEF u
<1>2. Longer(u, ms, m)
  BY <1>1, ListFacts DEF Longer
<1>. QED
  BY <1>2 DEF u

\* A list longer by a message of T stems from T.
LEMMA LongerWithin ==
  ASSUME NEW ms, NEW m, NEW u, Longer(u, ms, m), NEW T, Within(ms, T), m.turns \subseteq T
  PROVE  Within(u, T)
<1> SUFFICES ASSUME NEW i \in 1..(Len(ms) + 1) PROVE u[i].turns \subseteq T
  BY DEF Within, Longer
<1>1. CASE i \in 1..Len(ms)
  BY <1>1 DEF Within, Longer
<1>2. CASE i = Len(ms) + 1
  BY <1>2 DEF Longer
<1>. QED
  BY <1>1, <1>2 DEF Longer

\* A result may follow only the call of its own turn.
LEMMA LongerCalls ==
  ASSUME NEW ms, NEW m, NEW u, Longer(u, ms, m), CallsPrecede(ms),
         m.role = "tool" => /\ Len(ms) > 0 /\ ms[Len(ms)].role = "assistant"
                            /\ ms[Len(ms)].turns = m.turns
  PROVE  CallsPrecede(u)
<1> SUFFICES ASSUME NEW i \in 1..(Len(ms) + 1), u[i].role = "tool"
             PROVE  i > 1 /\ u[i - 1].role = "assistant" /\ u[i - 1].turns = u[i].turns
  BY DEF CallsPrecede, Longer
<1>1. CASE i \in 1..Len(ms)
  <2>1. i > 1 /\ ms[i - 1].role = "assistant" /\ ms[i - 1].turns = ms[i].turns
    BY <1>1 DEF CallsPrecede, Longer
  <2>2. i - 1 \in 1..Len(ms)
    BY <1>1, <2>1 DEF Longer
  <2>. QED
    BY <1>1, <2>1, <2>2 DEF Longer
<1>2. CASE i = Len(ms) + 1
  <2>1. u[i] = m /\ Len(ms) \in Nat
    BY <1>2 DEF Longer
  <2>2. Len(ms) \in 1..Len(ms) /\ i - 1 = Len(ms) /\ i > 1
    BY <1>2, <2>1
  <2>3. u[i - 1] = ms[Len(ms)]
    BY <2>2 DEF Longer
  <2>. QED
    BY <2>1, <2>2, <2>3
<1>. QED
  BY <1>1, <1>2 DEF Longer

\* One more message follows the question.
LEMMA LongerAsks ==
  ASSUME NEW ms, NEW m, NEW u, Longer(u, ms, m), m.role # "user",
         NEW k, NEW n \in Nat, NEW l, l = n + 1, Asks(ms, k, n)
  PROVE  Asks(u, k, l)
<1>1. PICK q \in 1..Len(ms) : /\ ms[q].role = "user" /\ ms[q].turns = {k} /\ Len(ms) <= q + n
                              /\ \A i \in 1..Len(ms) : ms[i].role = "user" => i <= q
  BY DEF Asks, Longer
<1>2. /\ q \in DOMAIN u /\ u[q].role = "user" /\ u[q].turns = {k} /\ Len(u) <= q + l
  BY <1>1 DEF Longer
<1>3. ASSUME NEW i \in DOMAIN u, u[i].role = "user" PROVE i <= q
  <2>1. i \in 1..Len(ms)
    BY <1>3 DEF Longer
  <2>. QED
    BY <1>1, <1>3, <2>1 DEF Longer
<1>. QED
  BY <1>2, <1>3 DEF Asks

\* One more message follows the place the turn begins at.
LEMMA LongerEnds ==
  ASSUME NEW ms, NEW m, NEW u, Longer(u, ms, m), NEW k, m.turns = {k},
         NEW hist \in Nat, NEW n \in Nat, NEW l, l = n + 1, EndsWith(ms, k, hist, n)
  PROVE  EndsWith(u, k, hist, l)
<1>1. PICK p \in Nat : /\ hist < p /\ Len(ms) = p + n
                       /\ \A i \in 1..Len(ms) : /\ k \in ms[i].turns <=> p <= i
                                                /\ hist < i => ms[i].turns \subseteq {k}
  BY DEF EndsWith, Longer
<1>2. Len(u) = p + l
  BY <1>1 DEF Longer
<1>3. ASSUME NEW i \in DOMAIN u
      PROVE  (k \in u[i].turns <=> p <= i) /\ (hist < i => u[i].turns \subseteq {k})
  <2>1. CASE i \in 1..Len(ms)
    BY <1>1, <2>1 DEF Longer
  <2>2. CASE i = Len(ms) + 1
    BY <1>1, <2>2 DEF Longer
  <2>. QED
    BY <2>1, <2>2 DEF Longer
<1>. QED
  BY <1>1, <1>2, <1>3 DEF EndsWith

-----------------------------------------------------------------------------
(* What steps do to the crews *)

\* Crew k goes to a state and a number of steps, and nothing else changes.
Becomes(u, cs, k, state, steps) ==
  /\ u \in Seq(CrewRecords) /\ Len(u) = Len(cs) /\ \A i \in 1..Len(cs) : i # k => u[i] = cs[i]
  /\ u[k].state = state /\ u[k].steps = steps /\ u[k].session = cs[k].session
  /\ u[k].loaded = cs[k].loaded /\ u[k].hist = cs[k].hist /\ u[k].last = cs[k].last

\* A crew goes to another state.
LEMMA StateBecomes ==
  ASSUME NEW cs \in Seq(CrewRecords), NEW k \in 1..Len(cs), NEW state \in CrewStates, NEW u,
         u = [cs EXCEPT ![k].state = state]
  PROVE  Becomes(u, cs, k, state, cs[k].steps)
<1> DEFINE c == cs[k]
           d == [c EXCEPT !.state = state]
<1>1. c \in CrewRecords /\ Len(cs) \in Nat /\ DOMAIN cs = 1..Len(cs)
  BY CrewFacts, LenProperties
<1>2. u = [cs EXCEPT ![k] = d]
  BY <1>1
<1> HIDE DEF c
<1>3. /\ d \in CrewRecords /\ d.state = state /\ d.steps = c.steps /\ d.session = c.session
      /\ d.loaded = c.loaded /\ d.hist = c.hist /\ d.last = c.last
  BY <1>1 DEF CrewRecords
<1> HIDE DEF d
<1>4. Updated(u, cs, k, d)
  BY <1>2, <1>3, UpdateFacts
<1>. QED
  BY <1>3, <1>4 DEF Updated, Becomes, c

\* A crew goes to another state and has made one more step.
LEMMA StepBecomes ==
  ASSUME NEW cs \in Seq(CrewRecords), NEW k \in 1..Len(cs), NEW state \in CrewStates, NEW u,
         u = [cs EXCEPT ![k].state = state, ![k].steps = @ + 1]
  PROVE  Becomes(u, cs, k, state, cs[k].steps + 1)
<1> DEFINE c == cs[k]
           n == c.steps + 1
           d == [c EXCEPT !.state = state, !.steps = n]
<1>1. c \in CrewRecords /\ c.steps \in Nat /\ Len(cs) \in Nat /\ DOMAIN cs = 1..Len(cs)
  BY CrewFacts, LenProperties
<1>2. u = [cs EXCEPT ![k] = d]
  BY <1>1
<1>5. n \in Nat
  BY <1>1
<1> HIDE DEF c, n
<1>3. /\ d \in CrewRecords /\ d.state = state /\ d.steps = n /\ d.session = c.session
      /\ d.loaded = c.loaded /\ d.hist = c.hist /\ d.last = c.last
  BY <1>1, <1>5 DEF CrewRecords
<1> HIDE DEF d
<1>4. Updated(u, cs, k, d)
  BY <1>2, <1>3, UpdateFacts
<1>. QED
  BY <1>3, <1>4 DEF Updated, Becomes, c, n

\* Another list at place k.
Replaced(u, ls, k, m) ==
  /\ u \in Seq(Lists) /\ Len(u) = Len(ls) /\ u[k] = m /\ \A i \in 1..Len(ls) : i # k => u[i] = ls[i]

\* One list is replaced, the others are not.
LEMMA ReplaceFacts ==
  ASSUME NEW ls \in Seq(Lists), NEW k \in 1..Len(ls), NEW m \in Lists, NEW u,
         u = [ls EXCEPT ![k] = m]
  PROVE  Replaced(u, ls, k, m)
<1>1. Len(ls) \in Nat /\ DOMAIN ls = 1..Len(ls) /\ \A i \in 1..Len(ls) : ls[i] \in Lists
  BY LenProperties, ElementOfSeq
<1>2. u = [i \in 1..Len(ls) |-> IF i = k THEN m ELSE ls[i]]
  BY <1>1
<1>3. \A i \in 1..Len(ls) : u[i] = IF i = k THEN m ELSE ls[i]
  BY <1>2
<1>4. u \in [1..Len(ls) -> Lists]
  BY <1>1, <1>2
<1>5. u \in Seq(Lists) /\ Len(u) = Len(ls)
  BY <1>1, <1>4, IsASeq
<1>. QED
  BY <1>3, <1>5 DEF Replaced

\* A step of crew k: it goes to a state, the others keep theirs.
Moves(k, state) ==
  /\ crews \in Seq(CrewRecords) /\ crews' \in Seq(CrewRecords) /\ Len(crews') = Len(crews)
  /\ k \in 1..Len(crews) /\ crews[k].state \in Running /\ crews'[k].state = state
  /\ \A i \in 1..Len(crews) : /\ crews'[i].session = crews[i].session
                              /\ i # k => crews'[i].state = crews[i].state

\* A crew that moves changes neither the sessions nor, unless it is done, the turns that are.
LEMMA MovesFacts ==
  ASSUME NEW k, NEW state, Moves(k, state)
  PROVE  /\ \A s : OfSession(crews', s) = OfSession(crews, s)
         /\ state # "done" => Done(crews') = Done(crews)
         /\ state = "done" => Done(crews') = Done(crews) \cup {k}
         /\ NoneLeftUnused' => NoneLeftUnused /\ state # "unused"
<1>1. DOMAIN crews = 1..Len(crews) /\ DOMAIN crews' = 1..Len(crews)
  BY LenProperties DEF Moves
<1>2. \A s : OfSession(crews', s) = OfSession(crews, s)
  BY <1>1 DEF Moves, OfSession
<1>3. crews[k].state # "done" /\ crews[k].state # "unused"
  BY DEF Moves, Running
<1>4. \A i \in 1..Len(crews) : crews'[i].state = IF i = k THEN state ELSE crews[i].state
  BY DEF Moves
<1>5. state # "done" => Done(crews') = Done(crews)
  BY <1>3, <1>4 DEF Moves, Done
<1>6. state = "done" => Done(crews') = Done(crews) \cup {k}
  BY <1>3, <1>4 DEF Moves, Done
<1>7. NoneLeftUnused' => NoneLeftUnused /\ state # "unused"
  <2>1. ASSUME NoneLeftUnused' PROVE NoneLeftUnused /\ state # "unused"
    <3>1. \A i \in 1..Len(crews) : crews'[i].state # "unused"
      BY <1>1, <2>1 DEF NoneLeftUnused
    <3>. QED
      BY <1>1, <1>3, <1>4, <3>1 DEF NoneLeftUnused, Moves
  <2>. QED
    BY <2>1
<1>. QED
  BY <1>2, <1>5, <1>6, <1>7

\* What the invariant says about the types.
LEMMA ContextFacts ==
  ASSUME ContextInv
  PROVE  /\ HookTyped /\ lists \in Seq(Lists) /\ Len(lists) = Len(crews) /\ Len(crews) \in Nat
         /\ DOMAIN crews = 1..Len(crews) /\ DOMAIN lists = 1..Len(crews) /\ Len(crews) <= MaxTurns
         /\ \A i \in 1..Len(crews) : lists[i] \in Lists
         /\ \A s \in Sessions : ctx[s] \in Lists /\ raw[s] \in Lists
         /\ skill.crew \in 0..Len(crews) /\ skill.calls \in Nat /\ skill.messages \in Lists
<1>1. ContextTypeInv
  BY DEF ContextInv
<1>2. Len(crews) \in Nat /\ DOMAIN crews = 1..Len(crews) /\ DOMAIN lists = 1..Len(crews)
  BY <1>1, LenProperties DEF ContextTypeInv
<1>3. \A i \in 1..Len(crews) : lists[i] \in Lists
  BY <1>1, ElementOfSeq DEF ContextTypeInv
<1>. QED
  BY <1>1, <1>2, <1>3 DEF ContextTypeInv, HookTyped

\* Alone, the busy crew is the last one, every other crew has run its hook, and no other
\* list or file has a message of it.
LEMMA AloneFacts ==
  ASSUME ContextInv, Alone, NEW k \in 1..Len(crews), Busy(k)
  PROVE  /\ k = Len(crews)
         /\ \A j \in 1..Len(crews) : j # k => j < k /\ ~Busy(j) /\ crews[j].loaded
         /\ crews[k].session \in Sessions /\ k \notin Done(crews)
         /\ Within(ctx[crews[k].session], OfSession(crews, crews[k].session) \cap Done(crews))
         /\ Within(raw[crews[k].session], OfSession(crews, crews[k].session) \cap Done(crews))
         /\ Within(lists[k], OfSession(crews, crews[k].session) \cap (Done(crews) \cup {k}))
<1>1. Len(crews) \in Nat /\ crews[k].session \in Sessions
  BY ContextFacts, CrewFacts DEF HookTyped
<1>2. AloneInv
  BY DEF ContextInv
<1>3. k = Len(crews)
  BY <1>1, <1>2 DEF AloneInv
<1>4. \A j \in 1..Len(crews) : j # k => j < k
  BY <1>1, <1>3
<1>5. \A j \in 1..Len(crews) : j # k => j < k /\ ~Busy(j) /\ crews[j].loaded
  BY <1>2, <1>3, <1>4 DEF AloneInv
<1>6. k \notin Done(crews)
  BY DEF Busy, Running, Done
<1>. QED
  BY <1>1, <1>2, <1>3, <1>5, <1>6 DEF AloneInv

-----------------------------------------------------------------------------
(* The invariant implies the properties and holds initially *)

\* The invariant implies the properties.
LEMMA ContextImplies ==
  ASSUME ContextInv
  PROVE  /\ ToolResultsFollowTheirCalls /\ QuestionIsAsked
         /\ SessionsStaySeparate /\ RawHoldsEveryMessage
<1>1. /\ crews \in Seq(CrewRecords) /\ DOMAIN crews = 1..Len(crews) /\ DOMAIN lists = 1..Len(crews)
      /\ Len(lists) = Len(crews) /\ skill.crew \in 0..Len(crews)
  BY ContextFacts DEF HookTyped
<1>2. ToolResultsFollowTheirCalls
  BY <1>1 DEF ToolResultsFollowTheirCalls, Everywhere, ContextInv, CallsInv
<1>3. QuestionIsAsked
  <2> SUFFICES ASSUME NEW k \in 1..Len(crews), crews[k].state = "asked",
                      2 * crews[k].steps < KeepMessages
               PROVE  \E i \in DOMAIN lists[k] :
                        lists[k][i].role = "user" /\ lists[k][i].turns = {k}
    BY <1>1 DEF QuestionIsAsked
  <2>1. Busy(k)
    BY DEF Busy, Running
  <2>2. Asks(lists[k], k, Behind(crews[k]))
    BY <2>1 DEF ContextInv, AsksInv
  <2>. QED
    BY <2>2 DEF Asks
<1>4. SessionsStaySeparate
  <2> SUFFICES ASSUME Alone PROVE Separate
    BY DEF SessionsStaySeparate, Alone
  <2>1. AloneInv
    BY DEF ContextInv
  <2>2. ASSUME NEW ms, NEW s, NEW T, Within(ms, OfSession(crews, s) \cap T) PROVE Of(ms, s)
    BY <2>2 DEF Within, OfSession, Of
  <2>3. ASSUME NEW ms, NEW s, Within(ms, OfSession(crews, s)) PROVE Of(ms, s)
    BY <2>3 DEF Within, OfSession, Of
  <2>4. \A s \in Sessions : Of(ctx[s], s) /\ Of(raw[s], s)
    BY <2>1, <2>2 DEF AloneInv
  <2>5. \A k \in DOMAIN crews : Of(lists[k], crews[k].session)
    BY <1>1, <2>1, <2>2 DEF AloneInv
  <2>6. skill.crew # 0 => Of(skill.messages, crews[skill.crew].session)
    BY <2>1, <2>3 DEF AloneInv
  <2>. QED
    BY <2>4, <2>5, <2>6 DEF Separate
<1>5. RawHoldsEveryMessage
  <2> SUFFICES ASSUME Alone, ~shrunk, NEW k \in 1..Len(crews), crews[k].state = "done"
               PROVE  Cardinality(LinesOf(crews[k].session, k)) = 2 * crews[k].steps + 2
    BY <1>1 DEF RawHoldsEveryMessage, Alone
  <2>1. PICK a \in Nat : Lines(raw[crews[k].session], k) = a..(a + 2 * crews[k].steps + 1)
    BY DEF ContextInv, RawInv
  <2>2. crews[k].steps \in Nat
    BY <1>1, CrewFacts
  <2> DEFINE b == a + 2 * crews[k].steps + 1
  <2>3. b \in Int /\ a \in Int /\ a <= b /\ b - a + 1 = 2 * crews[k].steps + 2
    BY <2>2
  <2> HIDE DEF b
  <2>4. Cardinality(a..b) = b - a + 1
    BY <2>3, FS_Interval
  <2>5. LinesOf(crews[k].session, k) = Lines(raw[crews[k].session], k)
    BY DEF LinesOf, Lines
  <2>. QED
    BY <2>1, <2>3, <2>4, <2>5 DEF b
<1>. QED
  BY <1>2, <1>3, <1>4, <1>5

\* The invariant holds at the start.
LEMMA ContextInitHolds ==
  ASSUME ContextInit
  PROVE  ContextInv
<1>1. /\ crews = <<>> /\ Len(crews) = 0 /\ crews \in Seq(CrewRecords)
      /\ lists = <<>> /\ Len(lists) = 0 /\ lists \in Seq(Lists)
  BY DEF ContextInit
<1>2. <<>> \in Lists /\ DOMAIN <<>> = {} /\ 1..0 = {}
  BY DEF Lists
<1>3. MaxTurns \in Nat
  BY ContextAssumption
<1>4. skill.crew = 0 /\ skill.messages = <<>> /\ skill \in [crew : 0..0, calls : Nat, messages : Lists]
  BY <1>2 DEF ContextInit
<1>5. ContextTypeInv
  <2>1. ctx \in [Sessions -> Lists] /\ raw \in [Sessions -> Lists]
    BY <1>2 DEF ContextInit
  <2>2. serial \in BOOLEAN /\ shrunk \in BOOLEAN
    BY DEF ContextInit
  <2>3. skill \in [crew : 0..Len(crews), calls : Nat, messages : Lists]
    BY <1>1, <1>4
  <2>. QED
    BY <1>1, <1>3, <2>1, <2>2, <2>3 DEF ContextTypeInv
<1>6. \A T : Within(<<>>, T)
  BY DEF Within
<1>7. CallsPrecede(<<>>)
  BY DEF CallsPrecede
<1>8. \A s \in Sessions : ctx[s] = <<>> /\ raw[s] = <<>>
  BY DEF ContextInit
<1>9. KnownInv
  BY <1>1, <1>2, <1>4, <1>6, <1>8 DEF KnownInv
<1>10. StateInv /\ AsksInv /\ RawInv
  BY <1>1, <1>2 DEF StateInv, AsksInv, RawInv
<1>11. CallsInv
  BY <1>1, <1>2, <1>4, <1>7, <1>8 DEF CallsInv
<1>12. AloneInv
  BY <1>1, <1>2, <1>4, <1>6, <1>8 DEF AloneInv
<1>. QED
  BY <1>5, <1>9, <1>10, <1>11, <1>12 DEF ContextInv

-----------------------------------------------------------------------------
(* Every action keeps the invariant *)

\* What stems from S stems from every larger set.
LEMMA WithinMore ==
  ASSUME NEW ms, NEW S, NEW T, S \subseteq T, Within(ms, S)
  PROVE  Within(ms, T)
BY DEF Within

\* A new crew keeps the invariant.
LEMMA MakeKeeps ==
  ASSUME ContextInv, NEW s \in Sessions, Make(s)
  PROVE  ContextInv'
<1> DEFINE n == Len(crews)
           k == n + 1
           c == [session |-> s, state |-> "made", steps |-> 0, loaded |-> FALSE,
                 hist |-> 0, last |-> NoList]
<1>1. /\ HookTyped /\ lists \in Seq(Lists) /\ Len(lists) = n /\ n \in Nat
      /\ DOMAIN crews = 1..n /\ skill.crew \in 0..n /\ n <= MaxTurns
      /\ \A t \in Sessions : ctx[t] \in Lists /\ raw[t] \in Lists
  BY ContextFacts
<1>2. k \in Nat /\ k <= MaxTurns /\ MaxTurns \in Nat
  BY <1>1, ContextAssumption DEF Make
<1>3. c \in CrewRecords /\ c.state = "made" /\ c.steps = 0 /\ c.loaded = FALSE /\ c.hist = 0
      /\ c.last = NoList /\ c.session = s
  BY <1>2 DEF CrewRecords, CrewStates, Running, NoList
<1>4. UNCHANGED <<serial, ctx, raw, skill, shrunk>>
  BY DEF Make
<1>5. crews' = Append(crews, c) /\ lists' = Append(lists, NewList(k))
  BY <1>1 DEF Make
<1> HIDE DEF c
<1>6. /\ crews' \in Seq(CrewRecords) /\ Len(crews') = k /\ crews'[k] = c
      /\ \A i \in 1..n : crews'[i] = crews[i]
  <2>1. crews \in Seq(CrewRecords)
    BY <1>1 DEF HookTyped
  <2>. QED
    BY <1>1, <1>3, <1>5, <2>1, AppendProperties
<1>7. /\ lists' \in Seq(Lists) /\ Len(lists') = k /\ lists'[k] = NewList(k)
      /\ \A i \in 1..n : lists'[i] = lists[i]
  <2> DEFINE m == NewList(k)
  <2>1. m \in Lists /\ lists' = Append(lists, m)
    BY <1>2, <1>5, NewListFacts
  <2> HIDE DEF m
  <2>2. /\ lists' \in Seq(Lists) /\ Len(lists') = Len(lists) + 1 /\ lists'[Len(lists) + 1] = m
        /\ \A i \in 1..Len(lists) : lists'[i] = lists[i]
    BY <1>1, <2>1, AppendProperties
  <2>. QED
    BY <1>1, <2>2 DEF m
<1>8. \A i \in 1..k : i \in 1..n \/ i = k
  BY <1>1
<1>9. 1..n \subseteq 1..k /\ k \in 1..k /\ k \notin 1..n /\ n < k
  BY <1>1
<1>10. DOMAIN crews' = 1..k
  BY <1>6, LenProperties
<1> HIDE DEF k
<1>11. ContextTypeInv'
  <2>1. skill' \in [crew : 0..Len(crews'), calls : Nat, messages : Lists]
    <3>1. skill \in [crew : 0..n, calls : Nat, messages : Lists]
      BY DEF ContextInv, ContextTypeInv
    <3>2. 0..n \subseteq 0..k
      BY <1>1, <1>2, <1>9
    <3>. QED
      BY <1>4, <1>6, <3>1, <3>2
  <2>. QED
    BY <1>2, <1>4, <1>6, <1>7, <2>1 DEF ContextInv, ContextTypeInv
<1>12. KnownInv'
  <2>1. KnownInv
    BY DEF ContextInv
  <2>2. \A t \in Sessions : Within(ctx'[t], 1..k) /\ Within(raw'[t], 1..k)
    BY <1>4, <1>9, <2>1, WithinMore DEF KnownInv
  <2>3. ASSUME NEW i \in 1..k
        PROVE  Within(lists'[i], 1..k) /\ crews'[i].last \in (1..k) \cup {SkillList, NoList}
    <3>1. CASE i \in 1..n
      BY <1>6, <1>7, <1>9, <2>1, <3>1, WithinMore DEF KnownInv
    <3>2. CASE i = k
      <4>1. Within(NewList(k), {k}) /\ {k} \subseteq 1..k
        BY <1>2, <1>9, NewListFacts
      <4>. QED
        BY <1>3, <1>6, <1>7, <3>2, <4>1, WithinMore
    <3>. QED
      BY <1>8, <3>1, <3>2
  <2>4. Within(skill'.messages, 1..k)
    BY <1>4, <1>9, <2>1, WithinMore DEF KnownInv
  <2>. QED
    BY <1>6, <2>2, <2>3, <2>4 DEF KnownInv
<1>13. StateInv'
  <2> SUFFICES ASSUME NEW i \in 1..k
               PROVE  /\ crews'[i].state = "made" => crews'[i].steps = 0
                      /\ ~crews'[i].loaded =>
                            crews'[i].state \in {"made", "unused"} /\ crews'[i].hist = 0
                      /\ crews'[i].state = "skill" => skill'.crew = i
                      /\ Calling(crews'[i]) => crews'[i].steps > 0
    BY <1>6 DEF StateInv
  <2>1. CASE i \in 1..n
    BY <1>4, <1>6, <2>1 DEF ContextInv, StateInv
  <2>2. CASE i = k
    BY <1>3, <1>6, <2>2 DEF Calling
  <2>. QED
    BY <1>8, <2>1, <2>2
<1>14. CallsInv'
  <2>1. CallsInv
    BY DEF ContextInv
  <2>2. \A i \in 1..k : CallsPrecede(lists'[i])
    BY <1>1, <1>2, <1>7, <1>8, <2>1, NewListFacts DEF CallsInv
  <2>3. \A i \in 1..k : Calling(crews'[i]) => EndsWithCall(lists'[i], i)
    BY <1>3, <1>6, <1>7, <1>8, <2>1 DEF CallsInv, Calling
  <2>. QED
    BY <1>4, <1>6, <1>7, <2>1, <2>2, <2>3 DEF CallsInv
<1>15. AsksInv'
  <2> SUFFICES ASSUME NEW i \in 1..k, Busy(i)', 2 * crews'[i].steps < KeepMessages
               PROVE  Asks(lists'[i], i, Behind(crews'[i]))
    BY <1>6 DEF AsksInv
  <2>1. CASE i \in 1..n
    BY <1>6, <1>7, <2>1 DEF ContextInv, AsksInv, Busy
  <2>2. CASE i = k
    <3>1. Behind(c) = 0
      BY <1>3 DEF Behind, Calling
    <3>. QED
      BY <1>2, <1>6, <1>7, <2>2, <3>1, NewListFacts
  <2>. QED
    BY <1>8, <2>1, <2>2
<1>16. Alone' => Alone /\ \A i \in 1..n : ~Busy(i)
  <2>1. NoneLeftUnused' => NoneLeftUnused
    BY <1>1, <1>6, <1>9, <1>10 DEF NoneLeftUnused
  <2>2. serial => \A i \in 1..n : ~Busy(i)
    BY <1>1 DEF Make
  <2>. QED
    BY <1>4, <2>1, <2>2 DEF Alone
<1>17. /\ Done(crews') = Done(crews) /\ k \in OfSession(crews', s)
       /\ \A t : OfSession(crews, t) \subseteq OfSession(crews', t)
  <2>1. Done(crews') = Done(crews)
    BY <1>3, <1>6, <1>8, <1>9 DEF Done
  <2>2. k \in OfSession(crews', s)
    BY <1>3, <1>6, <1>9 DEF OfSession
  <2>3. \A t : OfSession(crews, t) \subseteq OfSession(crews', t)
    BY <1>6, <1>9 DEF OfSession
  <2>. QED
    BY <2>1, <2>2, <2>3
<1>18. ASSUME Alone' PROVE AloneInv'
  <2>1. Alone /\ AloneInv /\ \A i \in 1..n : ~Busy(i)
    BY <1>16, <1>18 DEF ContextInv
  <2>2. \A t, T : OfSession(crews, t) \cap T \subseteq OfSession(crews', t) \cap T
    BY <1>17
  <2>3. \A t \in Sessions : /\ Within(ctx'[t], OfSession(crews', t) \cap Done(crews'))
                            /\ Within(raw'[t], OfSession(crews', t) \cap Done(crews'))
    <3> SUFFICES ASSUME NEW t \in Sessions
                 PROVE  /\ Within(ctx[t], OfSession(crews', t) \cap Done(crews))
                        /\ Within(raw[t], OfSession(crews', t) \cap Done(crews))
      BY <1>4, <1>17
    <3>1. /\ Within(ctx[t], OfSession(crews, t) \cap Done(crews))
          /\ Within(raw[t], OfSession(crews, t) \cap Done(crews))
      BY <2>1 DEF AloneInv
    <3>2. OfSession(crews, t) \cap Done(crews) \subseteq OfSession(crews', t) \cap Done(crews)
      BY <2>2
    <3>. QED
      BY <3>1, <3>2, WithinMore
  <2>4. ASSUME NEW i \in 1..k
        PROVE  Within(lists'[i], OfSession(crews', crews'[i].session) \cap (Done(crews') \cup {i}))
    <3>1. CASE i \in 1..n
      <4>1. Within(lists[i], OfSession(crews, crews[i].session) \cap (Done(crews) \cup {i}))
        BY <2>1, <3>1 DEF AloneInv
      <4>2. Within(lists[i], OfSession(crews', crews[i].session) \cap (Done(crews) \cup {i}))
        BY <2>2, <4>1, WithinMore
      <4>. QED
        BY <1>6, <1>7, <1>17, <3>1, <4>2
    <3>2. CASE i = k
      <4>1. Within(NewList(k), {k}) /\ {k} \subseteq OfSession(crews', s) \cap (Done(crews') \cup {k})
        BY <1>2, <1>17, NewListFacts
      <4>. QED
        BY <1>3, <1>6, <1>7, <3>2, <4>1, WithinMore
    <3>. QED
      BY <1>8, <3>1, <3>2
  <2>5. skill'.crew # 0 => Within(skill'.messages, OfSession(crews', crews'[skill'.crew].session))
    <3> SUFFICES ASSUME skill.crew # 0
                 PROVE  Within(skill.messages, OfSession(crews', crews'[skill.crew].session))
      BY <1>4
    <3>1. skill.crew \in 1..n
      BY <1>1
    <3>2. Within(skill.messages, OfSession(crews, crews[skill.crew].session))
      BY <2>1 DEF AloneInv
    <3>3. Within(skill.messages, OfSession(crews', crews[skill.crew].session))
      BY <1>17, <3>2, WithinMore
    <3>. QED
      BY <1>6, <3>1, <3>3
  <2>6. ASSUME NEW i \in 1..k
        PROVE  /\ i < k => ~Busy(i)'
               /\ ~Busy(i)' => crews'[i].loaded
               /\ crews'[i].state = "asked" => crews'[i].last = i
    <3>1. CASE i \in 1..n
      BY <1>6, <2>1, <3>1 DEF AloneInv, Busy
    <3>2. CASE i = k
      <4>1. ~(i < k)
        BY <1>2, <3>2
      <4>. QED
        BY <1>3, <1>6, <3>2, <4>1 DEF Busy, Running
    <3>. QED
      BY <1>8, <3>1, <3>2
  <2>. QED
    BY <1>6, <2>3, <2>4, <2>5, <2>6 DEF AloneInv
<1>19. ASSUME Alone', ~shrunk' PROVE RawInv'
  <2>1. Alone /\ ~shrunk /\ RawInv /\ \A i \in 1..n : ~Busy(i)
    BY <1>4, <1>16, <1>19 DEF ContextInv
  <2>3. ASSUME NEW i \in 1..k
        PROVE  /\ Busy(i)' =>
                    /\ EndsWith(lists'[i], i, crews'[i].hist, Behind(crews'[i]))
                    /\ ~crews'[i].loaded => \A j \in DOMAIN lists'[i] :
                         lists'[i][j].role = "system" => lists'[i][j].turns = {}
               /\ crews'[i].state = "done" =>
                    \E a \in Nat : Lines(raw'[crews'[i].session], i) = a..(a + 2 * crews'[i].steps + 1)
    <3>1. CASE i \in 1..n
      BY <1>6, <1>4, <2>1, <3>1 DEF RawInv, Busy
    <3>2. CASE i = k
      <4>1. Behind(c) = 0
        BY <1>3 DEF Behind, Calling
      <4>. QED
        BY <1>2, <1>3, <1>6, <1>7, <3>2, <4>1, NewListFacts
    <3>. QED
      BY <1>8, <3>1, <3>2
  <2>. QED
    BY <1>6, <2>3 DEF RawInv
<1>. QED
  BY <1>11, <1>12, <1>13, <1>14, <1>15, <1>18, <1>19 DEF ContextInv, AloneInv, RawInv

\* A step of crew k changes at most its own list; a hook has run for the other crews or
\* they are as they were.
Step(k, state) ==
  /\ Moves(k, state) /\ lists' \in Seq(Lists) /\ Len(lists') = Len(crews)
  /\ skill' \in [crew : 0..Len(crews), calls : Nat, messages : Lists]
  /\ serial' = serial /\ shrunk' \in BOOLEAN
  /\ \A j \in 1..Len(crews) :
       /\ j # k => lists'[j] = lists[j] /\ crews'[j].steps = crews[j].steps
       /\ crews[j].loaded => crews'[j].loaded
       /\ j # k /\ ~crews'[j].loaded => crews'[j] = crews[j]
       /\ crews'[j].last \in (1..Len(crews)) \cup {SkillList, NoList}

\* The parts of the invariant one after the other, for a crew that takes a step: types,
LEMMA StepKnown ==
  ASSUME ContextInv, NEW k, NEW state, Step(k, state),
         ctx' \in [Sessions -> Lists], raw' \in [Sessions -> Lists],
         \A s \in Sessions : Within(ctx'[s], 1..Len(crews)) /\ Within(raw'[s], 1..Len(crews)),
         Within(lists'[k], 1..Len(crews)), Within(skill'.messages, 1..Len(crews))
  PROVE  ContextTypeInv' /\ KnownInv'
<1>1. Len(crews') = Len(crews) /\ crews' \in Seq(CrewRecords)
  BY DEF Step, Moves
<1>2. ContextTypeInv'
  BY <1>1 DEF Step, ContextInv, ContextTypeInv
<1>3. ASSUME NEW j \in 1..Len(crews)
      PROVE  /\ Within(lists'[j], 1..Len(crews))
             /\ crews'[j].last \in (1..Len(crews)) \cup {SkillList, NoList}
  <2>1. KnownInv
    BY DEF ContextInv
  <2>. QED
    BY <2>1 DEF Step, KnownInv
<1>4. KnownInv'
  BY <1>1, <1>3 DEF KnownInv
<1>. QED
  BY <1>2, <1>4

\* the states of the crews,
LEMMA StepState ==
  ASSUME ContextInv, NEW k, NEW state, Step(k, state), state # "made",
         \/ crews'[k].loaded
         \/ state = "unused" /\ crews'[k].hist = 0,
         state = "skill" => skill'.crew = k, Calling(crews'[k]) => crews'[k].steps > 0,
         \A j \in 1..Len(crews) : crews[j].state = "skill" => skill'.crew = j
  PROVE  StateInv'
<1>1. Len(crews') = Len(crews) /\ k \in 1..Len(crews) /\ crews'[k].state = state
  BY DEF Step, Moves
<1>2. ASSUME NEW j \in 1..Len(crews)
      PROVE  /\ crews'[j].state = "made" => crews'[j].steps = 0
             /\ ~crews'[j].loaded =>
                   crews'[j].state \in {"made", "unused"} /\ crews'[j].hist = 0
             /\ crews'[j].state = "skill" => skill'.crew = j
             /\ Calling(crews'[j]) => crews'[j].steps > 0
  <2>1. CASE j = k
    BY <1>1, <2>1
  <2>2. CASE j # k
    <3>1. crews'[j].state = crews[j].state /\ crews'[j].steps = crews[j].steps
      BY <2>2 DEF Step, Moves
    <3>2. ~crews'[j].loaded => crews'[j] = crews[j]
      BY <2>2 DEF Step
    <3>3. StateInv
      BY DEF ContextInv
    <3>. QED
      BY <3>1, <3>2, <3>3 DEF StateInv, Calling
  <2>. QED
    BY <2>1, <2>2
<1>. QED
  BY <1>1, <1>2 DEF StateInv

\* calls before results,
LEMMA StepCalls ==
  ASSUME ContextInv, NEW k, NEW state, Step(k, state),
         \A s \in Sessions : CallsPrecede(ctx'[s]),
         CallsPrecede(lists'[k]), CallsPrecede(skill'.messages),
         Calling(crews'[k]) => EndsWithCall(lists'[k], k)
  PROVE  CallsInv'
<1>1. Len(crews') = Len(crews) /\ Len(lists') = Len(crews) /\ Len(lists) = Len(crews)
  BY ContextFacts DEF Step, Moves
<1>2. ASSUME NEW j \in 1..Len(crews)
      PROVE  CallsPrecede(lists'[j]) /\ (Calling(crews'[j]) => EndsWithCall(lists'[j], j))
  <2>1. CASE j = k
    BY <2>1
  <2>2. CASE j # k
    <3>1. crews'[j].state = crews[j].state /\ lists'[j] = lists[j]
      BY <2>2 DEF Step, Moves
    <3>2. CallsInv
      BY DEF ContextInv
    <3>. QED
      BY <1>1, <3>1, <3>2 DEF CallsInv, Calling
  <2>. QED
    BY <2>1, <2>2
<1>. QED
  BY <1>1, <1>2 DEF CallsInv

\* the question of the turn,
LEMMA StepAsks ==
  ASSUME ContextInv, NEW k, NEW state, Step(k, state),
         state \in Running /\ 2 * crews'[k].steps < KeepMessages =>
           Asks(lists'[k], k, Behind(crews'[k]))
  PROVE  AsksInv'
<1>1. Len(crews') = Len(crews) /\ crews'[k].state = state
  BY DEF Step, Moves
<1>2. ASSUME NEW j \in 1..Len(crews), Busy(j)', 2 * crews'[j].steps < KeepMessages
      PROVE  Asks(lists'[j], j, Behind(crews'[j]))
  <2>1. CASE j = k
    BY <1>1, <1>2, <2>1 DEF Busy
  <2>2. CASE j # k
    <3>1. /\ crews'[j].state = crews[j].state /\ crews'[j].steps = crews[j].steps
          /\ lists'[j] = lists[j]
      BY <2>2 DEF Step, Moves
    <3>2. Busy(j) /\ Behind(crews'[j]) = Behind(crews[j])
      BY <1>2, <3>1 DEF Busy, Behind, Calling
    <3>. QED
      BY <1>2, <3>1, <3>2 DEF ContextInv, AsksInv
  <2>. QED
    BY <2>1, <2>2
<1>. QED
  BY <1>1, <1>2 DEF AsksInv

\* and, with the crews one at a time, that the one that takes a step is the busy one.
LEMMA StepAlone ==
  ASSUME ContextInv, NEW k, NEW state, Step(k, state)
  PROVE  Alone' => Alone /\ state # "unused" /\ Busy(k) /\ k \in 1..Len(crews)
BY MovesFacts DEF Step, Moves, Alone, Busy

\* A step after which the turn of crew k is not in the files.
LEMMA QuietAlone ==
  ASSUME ContextInv, NEW k, NEW state, Step(k, state), state # "done", UNCHANGED <<ctx, raw>>,
         Alone => /\ Within(lists'[k], OfSession(crews, crews[k].session) \cap (Done(crews) \cup {k}))
                  /\ skill'.crew # 0 =>
                       Within(skill'.messages, OfSession(crews, crews[skill'.crew].session)),
         state \notin Running \ {"asked"} => crews'[k].loaded \/ state = "unused",
         state = "asked" => crews'[k].last = k
  PROVE  AloneInv'
<1> SUFFICES ASSUME Alone' PROVE AloneInv'
  BY DEF AloneInv
<1>1. Alone /\ state # "unused" /\ Busy(k) /\ k \in 1..Len(crews)
  BY StepAlone
<1>2. /\ \A s : OfSession(crews', s) = OfSession(crews, s)
      /\ Done(crews') = Done(crews) /\ Len(crews') = Len(crews)
      /\ crews'[k].state = state
  <2>1. Moves(k, state)
    BY DEF Step
  <2>2. (\A s : OfSession(crews', s) = OfSession(crews, s)) /\ Done(crews') = Done(crews)
    BY <2>1, MovesFacts
  <2>. QED
    BY <2>1, <2>2 DEF Moves
<1>3. \A j \in 1..Len(crews) : crews'[j].session = crews[j].session
  BY DEF Step, Moves
<1>4. AloneInv
  BY DEF ContextInv
<1>5. \A s \in Sessions : /\ Within(ctx'[s], OfSession(crews', s) \cap Done(crews'))
                          /\ Within(raw'[s], OfSession(crews', s) \cap Done(crews'))
  BY <1>1, <1>2, <1>4 DEF AloneInv
<1>6. ASSUME NEW j \in 1..Len(crews)
      PROVE  Within(lists'[j], OfSession(crews', crews'[j].session) \cap (Done(crews') \cup {j}))
  <2>1. CASE j = k
    BY <1>1, <1>2, <1>3, <2>1
  <2>2. CASE j # k
    <3>1. lists'[j] = lists[j]
      BY <2>2 DEF Step
    <3>. QED
      BY <1>1, <1>2, <1>3, <1>4, <3>1 DEF AloneInv
  <2>. QED
    BY <2>1, <2>2
<1>7. skill'.crew # 0 => Within(skill'.messages, OfSession(crews', crews'[skill'.crew].session))
  <2> SUFFICES ASSUME skill'.crew # 0
               PROVE  Within(skill'.messages, OfSession(crews', crews'[skill'.crew].session))
    OBVIOUS
  <2>1. skill'.crew \in 0..Len(crews)
    BY DEF Step
  <2>2. skill'.crew \in 1..Len(crews)
    BY <2>1
  <2>3. Within(skill'.messages, OfSession(crews, crews[skill'.crew].session))
    BY <1>1
  <2>. QED
    BY <1>2, <1>3, <2>2, <2>3
<1>8. ASSUME NEW j \in 1..Len(crews)
      PROVE  /\ j < Len(crews) => ~Busy(j)'
             /\ ~Busy(j)' => crews'[j].loaded
             /\ crews'[j].state = "asked" => crews'[j].last = j
  <2>1. CASE j = k
    <3>1. k = Len(crews) /\ Len(crews) \in Nat
      BY <1>1, AloneFacts, ContextFacts
    <3>2. Busy(k)' <=> state \in Running
      BY <1>2 DEF Busy
    <3>. QED
      BY <1>1, <1>2, <2>1, <3>1, <3>2
  <2>2. CASE j # k
    <3>1. ~Busy(j) /\ crews[j].loaded
      BY <1>1, <2>2, AloneFacts
    <3>2. crews'[j].state = crews[j].state /\ crews'[j].loaded
      BY <2>2, <3>1 DEF Step, Moves
    <3>. QED
      BY <3>1, <3>2 DEF Busy, Running
  <2>. QED
    BY <2>1, <2>2
<1>. QED
  BY <1>2, <1>5, <1>6, <1>7, <1>8 DEF AloneInv

\* A step that saves nothing keeps the part about raw.jsonl.
LEMMA QuietRaw ==
  ASSUME ContextInv, NEW k, NEW state, Step(k, state), state # "done", UNCHANGED <<ctx, raw>>,
         Alone /\ ~shrunk' => ~shrunk,
         Alone /\ ~shrunk' /\ state \in Running =>
           crews'[k].loaded /\ EndsWith(lists'[k], k, crews'[k].hist, Behind(crews'[k]))
  PROVE  RawInv'
<1> SUFFICES ASSUME Alone', ~shrunk' PROVE RawInv'
  BY DEF RawInv
<1>1. Alone /\ ~shrunk /\ Busy(k) /\ k \in 1..Len(crews)
  BY StepAlone
<1>2. Len(crews') = Len(crews) /\ crews'[k].state = state
  BY DEF Step, Moves
<1>3. ASSUME NEW j \in 1..Len(crews)
      PROVE  /\ Busy(j)' =>
                  /\ EndsWith(lists'[j], j, crews'[j].hist, Behind(crews'[j]))
                  /\ ~crews'[j].loaded => \A i \in DOMAIN lists'[j] :
                       lists'[j][i].role = "system" => lists'[j][i].turns = {}
             /\ crews'[j].state = "done" =>
                  \E a \in Nat : Lines(raw'[crews'[j].session], j) = a..(a + 2 * crews'[j].steps + 1)
  <2>1. CASE j = k
    BY <1>1, <1>2, <2>1 DEF Busy
  <2>2. CASE j # k
    <3>1. ~Busy(j)
      BY <1>1, <2>2, AloneFacts
    <3>2. /\ crews'[j].state = crews[j].state /\ crews'[j].steps = crews[j].steps
          /\ crews'[j].session = crews[j].session
      BY <2>2 DEF Step, Moves
    <3>3. RawInv
      BY DEF ContextInv
    <3>. QED
      BY <1>1, <3>1, <3>2, <3>3 DEF RawInv, Busy
  <2>. QED
    BY <2>1, <2>2
<1>. QED
  BY <1>2, <1>3 DEF RawInv

\* The actions that move one crew are steps.
LEMMA BecomesStep ==
  ASSUME ContextInv, NEW k \in 1..Len(crews), crews[k].state \in Running,
         NEW state, NEW steps, Becomes(crews', crews, k, state, steps),
         NEW m, Replaced(lists', lists, k, m),
         skill' \in [crew : 0..Len(crews), calls : Nat, messages : Lists],
         serial' = serial, shrunk' = shrunk
  PROVE  Step(k, state)
<1>1. crews \in Seq(CrewRecords) /\ Len(lists) = Len(crews) /\ shrunk \in BOOLEAN
  BY ContextFacts DEF HookTyped
<1>2. Moves(k, state)
  BY <1>1 DEF Becomes, Moves
<1>3. \A j \in 1..Len(crews) : j = k \/ crews'[j] = crews[j]
  BY DEF Becomes
<1>4. \A j \in 1..Len(crews) : crews'[j].loaded = crews[j].loaded /\ crews'[j].last = crews[j].last
  BY <1>3 DEF Becomes
<1>5. \A j \in 1..Len(crews) : crews[j].last \in (1..Len(crews)) \cup {SkillList, NoList}
  BY DEF ContextInv, KnownInv
<1>. QED
  BY <1>1, <1>2, <1>3, <1>4, <1>5 DEF Step, Replaced

\* Lists left alone are lists replaced by themselves.
LEMMA UnchangedReplaced ==
  ASSUME NEW ls \in Seq(Lists), NEW k \in 1..Len(ls), NEW u, u = ls
  PROVE  Replaced(u, ls, k, ls[k])
BY DEF Replaced

\* The turn of crew k gets one more message.
LEMMA AppendKeeps ==
  ASSUME ContextInv, NEW k \in 1..Len(crews), crews[k].state \in Running, crews[k].loaded,
         NEW state \in {"tool", "ready"}, NEW steps \in Nat,
         Becomes(crews', crews, k, state, steps),
         crews[k].steps <= steps, Behind(crews[k]) \in Nat,
         Behind(crews'[k]) = Behind(crews[k]) + 1,
         NEW m \in Messages, m.turns = {k}, m.role # "user",
         state = "tool" => m.role = "assistant" /\ steps > 0,
         m.role = "tool" => EndsWithCall(lists[k], k),
         lists' = [lists EXCEPT ![k] = Append(lists[k], m)],
         UNCHANGED <<serial, ctx, raw, skill, shrunk>>
  PROVE  ContextInv'
<1> DEFINE u == Append(lists[k], m)
           n == Behind(crews[k])
<1>1. /\ lists \in Seq(Lists) /\ Len(lists) = Len(crews) /\ lists[k] \in Lists
      /\ crews \in Seq(CrewRecords)
  BY ContextFacts DEF HookTyped
<1>2. Longer(u, lists[k], m)
  BY <1>1, AppendLonger
<1>3. lists' = [lists EXCEPT ![k] = u]
  OBVIOUS
<1> HIDE DEF u
<1>4. Replaced(lists', lists, k, u)
  BY <1>1, <1>2, <1>3, ReplaceFacts DEF Longer
<1>5. ContextTypeInv /\ KnownInv /\ CallsInv /\ AsksInv /\ RawInv /\ StateInv
  BY DEF ContextInv
<1>6. skill' \in [crew : 0..Len(crews), calls : Nat, messages : Lists]
  BY <1>5 DEF ContextTypeInv
<1>7. Step(k, state)
  BY <1>4, <1>6, BecomesStep
<1>8. lists'[k] = u /\ crews'[k].state = state /\ crews'[k].steps = steps /\ crews'[k].loaded
      /\ crews'[k].hist = crews[k].hist
  BY <1>4 DEF Replaced, Becomes
<1>9. crews[k].hist \in Nat /\ crews[k].steps \in Nat
  BY <1>1, CrewFacts
<1>10. ContextTypeInv' /\ KnownInv'
  <2>1. Within(u, 1..Len(crews))
    BY <1>2, <1>5, LongerWithin DEF KnownInv
  <2>2. ctx' \in [Sessions -> Lists] /\ raw' \in [Sessions -> Lists]
    BY <1>5 DEF ContextTypeInv
  <2>3. /\ \A s \in Sessions : Within(ctx'[s], 1..Len(crews)) /\ Within(raw'[s], 1..Len(crews))
        /\ Within(skill'.messages, 1..Len(crews))
    BY <1>5 DEF KnownInv
  <2>. QED
    BY <1>7, <1>8, <2>1, <2>2, <2>3, StepKnown
<1>11. StateInv'
  <2>1. state # "made" /\ state # "skill" /\ (Calling(crews'[k]) => crews'[k].steps > 0)
    BY <1>8 DEF Calling
  <2>2. \A j \in 1..Len(crews) : crews[j].state = "skill" => skill'.crew = j
    BY <1>5 DEF StateInv
  <2>. QED
    BY <1>7, <1>8, <2>1, <2>2, StepState
<1>12. CallsInv'
  <2>1. CallsPrecede(u)
    <3>1. CallsPrecede(lists[k])
      BY <1>1, <1>5 DEF CallsInv
    <3>. QED
      BY <1>2, <3>1, LongerCalls DEF EndsWithCall
  <2>2. Calling(crews'[k]) => EndsWithCall(u, k)
    BY <1>2, <1>8 DEF Calling, EndsWithCall, Longer
  <2>3. CallsPrecede(skill'.messages) /\ \A s \in Sessions : CallsPrecede(ctx'[s])
    BY <1>5 DEF CallsInv
  <2>. QED
    BY <1>7, <1>8, <2>1, <2>2, <2>3, StepCalls
<1>13. AsksInv'
  <2>1. ASSUME 2 * crews'[k].steps < KeepMessages
        PROVE  Asks(u, k, Behind(crews'[k]))
    <3>1. 2 * crews[k].steps < KeepMessages
      BY <1>8, <1>9, <2>1, ContextAssumption
    <3>2. Asks(lists[k], k, n)
      BY <1>5, <3>1 DEF AsksInv, Busy
    <3> HIDE DEF n
    <3>. QED
      BY <1>2, <3>2, LongerAsks DEF n
  <2>. QED
    BY <1>7, <1>8, <2>1, StepAsks
<1>14. AloneInv'
  <2>1. ASSUME Alone
        PROVE  /\ Within(u, OfSession(crews, crews[k].session) \cap (Done(crews) \cup {k}))
               /\ skill'.crew # 0 =>
                    Within(skill'.messages, OfSession(crews, crews[skill'.crew].session))
    <3>1. AloneInv
      BY DEF ContextInv
    <3>2. Within(lists[k], OfSession(crews, crews[k].session) \cap (Done(crews) \cup {k}))
      BY <2>1, <3>1 DEF AloneInv
    <3>3. k \in OfSession(crews, crews[k].session)
      BY DEF OfSession
    <3>4. Within(u, OfSession(crews, crews[k].session) \cap (Done(crews) \cup {k}))
      BY <1>2, <3>2, <3>3, LongerWithin
    <3>. QED
      BY <2>1, <3>1, <3>4 DEF AloneInv
  <2>2. state # "done" /\ state # "asked"
    OBVIOUS
  <2>. QED
    BY <1>7, <1>8, <2>1, <2>2, QuietAlone
<1>15. RawInv'
  <2>1. ASSUME Alone, ~shrunk
        PROVE  EndsWith(u, k, crews'[k].hist, Behind(crews'[k]))
    <3>1. EndsWith(lists[k], k, crews[k].hist, n)
      BY <1>5, <2>1 DEF RawInv, Busy
    <3>2. /\ crews'[k].hist = crews[k].hist /\ crews[k].hist \in Nat
          /\ Behind(crews'[k]) = n + 1 /\ n \in Nat
      BY <1>8, <1>9
    <3>3. Longer(u, lists[k], m) /\ m.turns = {k}
      BY <1>2
    <3> HIDE DEF n
    <3>4. EndsWith(u, k, crews[k].hist, n + 1)
      BY <3>1, <3>2, <3>3, LongerEnds
    <3>. QED
      BY <3>2, <3>4
  <2>2. state # "done"
    OBVIOUS
  <2>. QED
    BY <1>7, <1>8, <2>1, <2>2, QuietRaw
<1>. QED
  BY <1>10, <1>11, <1>12, <1>13, <1>14, <1>15 DEF ContextInv

\* A call of a tool keeps the invariant.
LEMMA ToolCalledKeeps ==
  ASSUME ContextInv, NEW k \in 1..Len(crews), ToolCalled(k)
  PROVE  ContextInv'
<1> DEFINE m == Message("assistant", k, FALSE)
           steps == crews[k].steps + 1
<1>1. /\ crews \in Seq(CrewRecords) /\ crews[k].steps \in Nat /\ k \in Nat /\ StateInv
  BY ContextFacts, CrewFacts DEF HookTyped, ContextInv
<1>2. crews[k].state = "asked" /\ crews[k].state \in Running /\ crews[k].loaded
  BY <1>1 DEF ToolCalled, Running, StateInv
<1>3. m \in Messages /\ m.role = "assistant" /\ m.turns = {k}
  BY <1>1, MessageFacts DEF Roles
<1>4. lists' = [lists EXCEPT ![k] = Append(lists[k], m)]
  BY DEF ToolCalled
<1> HIDE DEF m
<1>5. Becomes(crews', crews, k, "tool", steps)
  <2>1. "tool" \in CrewStates
    BY DEF CrewStates, Running
  <2>. QED
    BY <1>1, <2>1, StepBecomes DEF ToolCalled
<1>6. /\ Behind(crews[k]) = 2 * crews[k].steps
      /\ Behind(crews'[k]) = 2 * (crews[k].steps + 1) - 1
  BY <1>2, <1>5 DEF Behind, Calling, Becomes
<1>7. /\ steps \in Nat /\ steps > 0 /\ crews[k].steps <= steps /\ Behind(crews[k]) \in Nat
      /\ Behind(crews'[k]) = Behind(crews[k]) + 1
  BY <1>1, <1>6
<1>8. UNCHANGED <<serial, ctx, raw, skill, shrunk>>
  BY DEF ToolCalled
<1> HIDE DEF steps
<1>. QED
  BY <1>2, <1>3, <1>4, <1>5, <1>7, <1>8, AppendKeeps

\* The result of a tool keeps the invariant.
LEMMA ToolReturnsKeeps ==
  ASSUME ContextInv, NEW k \in 1..Len(crews), NEW long \in BOOLEAN, ToolReturns(k, long)
  PROVE  ContextInv'
<1> DEFINE m == Message("tool", k, long)
           steps == crews[k].steps
<1>1. /\ crews \in Seq(CrewRecords) /\ crews[k].steps \in Nat /\ k \in Nat /\ StateInv /\ CallsInv
  BY ContextFacts, CrewFacts DEF HookTyped, ContextInv
<1>2. /\ Calling(crews[k]) /\ crews[k].state \in Running /\ crews[k].loaded /\ crews[k].steps > 0
  BY <1>1 DEF ToolReturns, Running, StateInv, Calling
<1>3. m \in Messages /\ m.role = "tool" /\ m.turns = {k}
  BY <1>1, MessageFacts DEF Roles
<1>4. lists' = [lists EXCEPT ![k] = Append(lists[k], m)]
  BY DEF ToolReturns
<1> HIDE DEF m
<1>5. Becomes(crews', crews, k, "ready", steps)
  <2>1. "ready" \in CrewStates
    BY DEF CrewStates, Running
  <2>. QED
    BY <1>1, <2>1, StateBecomes DEF ToolReturns, To
<1>6. /\ Behind(crews[k]) = 2 * crews[k].steps - 1
      /\ Behind(crews'[k]) = 2 * crews[k].steps
  BY <1>2, <1>5 DEF Behind, Calling, Becomes
<1>7. /\ steps \in Nat /\ crews[k].steps <= steps /\ Behind(crews[k]) \in Nat
      /\ Behind(crews'[k]) = Behind(crews[k]) + 1
  BY <1>1, <1>2, <1>6
<1>8. UNCHANGED <<serial, ctx, raw, skill, shrunk>> /\ EndsWithCall(lists[k], k)
  BY <1>1, <1>2 DEF ToolReturns, CallsInv
<1> HIDE DEF steps
<1>. QED
  BY <1>2, <1>3, <1>4, <1>5, <1>7, <1>8, AppendKeeps

\* The start of a skill keeps the invariant.
LEMMA SkillStartKeeps ==
  ASSUME ContextInv, NEW k \in 1..Len(crews), SkillStart(k)
  PROVE  ContextInv'
<1>1. /\ crews \in Seq(CrewRecords) /\ lists \in Seq(Lists) /\ Len(lists) = Len(crews)
      /\ lists[k] \in Lists /\ k \in Nat /\ DOMAIN crews = 1..Len(crews) /\ Len(crews) \in Nat
  BY ContextFacts DEF HookTyped
<1>2. ContextTypeInv /\ KnownInv /\ CallsInv /\ AsksInv /\ RawInv /\ StateInv /\ AloneInv
  BY DEF ContextInv
<1>3. /\ crews[k].state = "tool" /\ crews[k].state \in Running /\ crews[k].loaded
      /\ Calling(crews[k]) /\ crews[k].steps > 0
  BY <1>2 DEF SkillStart, Running, StateInv, Calling
<1>4. Becomes(crews', crews, k, "skill", crews[k].steps)
  <2>1. "skill" \in CrewStates
    BY DEF CrewStates, Running
  <2>. QED
    BY <1>1, <2>1, StateBecomes DEF SkillStart, To
<1>5. skill' = [crew |-> k, calls |-> 0, messages |-> NewList(k)]
  BY DEF SkillStart
<1>6. UNCHANGED <<serial, ctx, raw, lists, shrunk>>
  BY DEF SkillStart
<1>7. /\ NewList(k) \in Lists /\ Within(NewList(k), {k}) /\ CallsPrecede(NewList(k))
  BY <1>1, NewListFacts
<1>8. /\ skill'.crew = k /\ skill'.messages = NewList(k)
      /\ skill' \in [crew : 0..Len(crews), calls : Nat, messages : Lists]
  <2> DEFINE m == NewList(k)
  <2>1. m \in Lists /\ skill' = [crew |-> k, calls |-> 0, messages |-> m] /\ k \in 0..Len(crews)
    BY <1>1, <1>5, <1>7
  <2> HIDE DEF m
  <2>2. skill'.messages = m /\ skill'.crew = k
    BY <2>1
  <2>3. skill' \in [crew : 0..Len(crews), calls : Nat, messages : Lists]
    BY <2>1
  <2>. QED
    BY <2>2, <2>3 DEF m
<1>9. Replaced(lists', lists, k, lists[k])
  BY <1>1, <1>6, UnchangedReplaced
<1>10. Step(k, "skill")
  BY <1>3, <1>4, <1>6, <1>8, <1>9, BecomesStep
<1>11. /\ lists'[k] = lists[k] /\ crews'[k].state = "skill" /\ crews'[k].steps = crews[k].steps
       /\ crews'[k].loaded /\ crews'[k].hist = crews[k].hist /\ Calling(crews'[k])
       /\ Behind(crews'[k]) = Behind(crews[k])
  BY <1>3, <1>4, <1>6 DEF Becomes, Behind, Calling
<1>12. ContextTypeInv' /\ KnownInv'
  <2>1. Within(lists'[k], 1..Len(crews))
    BY <1>2, <1>11 DEF KnownInv
  <2>2. ctx' \in [Sessions -> Lists] /\ raw' \in [Sessions -> Lists]
    BY <1>2, <1>6 DEF ContextTypeInv
  <2>3. Within(skill'.messages, 1..Len(crews))
    BY <1>7, <1>8, WithinMore
  <2>4. \A s \in Sessions : Within(ctx'[s], 1..Len(crews)) /\ Within(raw'[s], 1..Len(crews))
    BY <1>2, <1>6 DEF KnownInv
  <2>. QED
    BY <1>10, <2>1, <2>2, <2>3, <2>4, StepKnown
<1>13. StateInv'
  <2>1. \A j \in 1..Len(crews) : crews[j].state # "skill"
    BY <1>1 DEF SkillStart, LoopFree
  <2>. QED
    BY <1>3, <1>8, <1>10, <1>11, <2>1, StepState
<1>14. CallsInv'
  <2>1. CallsPrecede(lists'[k]) /\ EndsWithCall(lists'[k], k)
    BY <1>1, <1>2, <1>3, <1>11 DEF CallsInv
  <2>2. \A s \in Sessions : CallsPrecede(ctx'[s])
    BY <1>2, <1>6 DEF CallsInv
  <2>. QED
    BY <1>7, <1>8, <1>10, <2>1, <2>2, StepCalls
<1>15. AsksInv'
  <2>1. 2 * crews'[k].steps < KeepMessages => Asks(lists'[k], k, Behind(crews'[k]))
    BY <1>2, <1>3, <1>11 DEF AsksInv, Busy
  <2>. QED
    BY <1>10, <2>1, StepAsks
<1>16. AloneInv'
  <2>1. ASSUME Alone
        PROVE  /\ Within(lists'[k], OfSession(crews, crews[k].session) \cap (Done(crews) \cup {k}))
               /\ Within(skill'.messages, OfSession(crews, crews[skill'.crew].session))
    <3>1. {k} \subseteq OfSession(crews, crews[k].session)
      BY DEF OfSession
    <3>2. Within(NewList(k), OfSession(crews, crews[k].session))
      BY <1>7, <3>1, WithinMore
    <3>3. Within(lists[k], OfSession(crews, crews[k].session) \cap (Done(crews) \cup {k}))
      BY <1>2, <2>1 DEF AloneInv
    <3>. QED
      BY <1>8, <1>11, <3>2, <3>3
  <2>. QED
    BY <1>6, <1>10, <1>11, <2>1, QuietAlone
<1>17. RawInv'
  <2>1. Alone /\ ~shrunk => EndsWith(lists'[k], k, crews'[k].hist, Behind(crews'[k]))
    BY <1>2, <1>3, <1>11 DEF RawInv, Busy
  <2>. QED
    BY <1>6, <1>10, <1>11, <2>1, QuietRaw
<1>. QED
  BY <1>12, <1>13, <1>14, <1>15, <1>16, <1>17 DEF ContextInv

\* A crew that fails or is dropped keeps the invariant.
LEMMA FailKeeps ==
  ASSUME ContextInv, NEW k \in 1..Len(crews), Fail(k)
  PROVE  ContextInv'
<1> DEFINE state == IF crews[k].loaded THEN "failed" ELSE "unused"
<1>1. /\ crews \in Seq(CrewRecords) /\ lists \in Seq(Lists) /\ Len(lists) = Len(crews)
      /\ lists[k] \in Lists
  BY ContextFacts DEF HookTyped
<1>2. ContextTypeInv /\ KnownInv /\ CallsInv /\ AsksInv /\ RawInv /\ StateInv /\ AloneInv
  BY DEF ContextInv
<1>3. crews[k].state \in Running
  BY DEF Fail, Busy
<1>4. Becomes(crews', crews, k, state, crews[k].steps)
  <2>1. state \in CrewStates
    BY DEF CrewStates
  <2>2. crews' = [crews EXCEPT ![k].state = state]
    BY DEF Fail, To
  <2> HIDE DEF state
  <2>. QED
    BY <1>1, <2>1, <2>2, StateBecomes
<1>5. UNCHANGED <<serial, ctx, raw, lists, skill, shrunk>>
  BY DEF Fail
<1>6. skill' \in [crew : 0..Len(crews), calls : Nat, messages : Lists]
  BY <1>2, <1>5 DEF ContextTypeInv
<1>7. Replaced(lists', lists, k, lists[k])
  BY <1>1, <1>5, UnchangedReplaced
<1>8. /\ state \notin Running /\ state # "made" /\ state # "done" /\ state # "skill" /\ state # "tool"
      /\ state # "asked" /\ (crews[k].loaded \/ state = "unused")
  BY DEF Running
<1> HIDE DEF state
<1>9. Step(k, state)
  BY <1>3, <1>4, <1>5, <1>6, <1>7, BecomesStep
<1>10. /\ lists'[k] = lists[k] /\ crews'[k].state = state /\ crews'[k].steps = crews[k].steps
       /\ crews'[k].loaded = crews[k].loaded /\ crews'[k].hist = crews[k].hist /\ ~Calling(crews'[k])
  BY <1>4, <1>5, <1>8 DEF Becomes, Calling
<1>11. ContextTypeInv' /\ KnownInv'
  <2>1. /\ Within(lists'[k], 1..Len(crews)) /\ Within(skill'.messages, 1..Len(crews))
        /\ ctx' \in [Sessions -> Lists] /\ raw' \in [Sessions -> Lists]
        /\ \A s \in Sessions : Within(ctx'[s], 1..Len(crews)) /\ Within(raw'[s], 1..Len(crews))
    BY <1>2, <1>5, <1>10 DEF KnownInv, ContextTypeInv
  <2>. QED
    BY <1>9, <2>1, StepKnown
<1>12. StateInv'
  <2>1. \A j \in 1..Len(crews) : crews[j].state = "skill" => skill'.crew = j
    BY <1>2, <1>5 DEF StateInv
  <2>2. crews'[k].loaded \/ (state = "unused" /\ crews'[k].hist = 0)
    <3>1. CASE crews[k].loaded
      BY <1>10, <3>1
    <3>2. CASE ~crews[k].loaded
      <4>1. crews[k].hist = 0
        BY <1>2, <3>2 DEF StateInv
      <4>. QED
        BY <1>8, <1>10, <3>2, <4>1
    <3>. QED
      BY <3>1, <3>2
  <2>. QED
    BY <1>8, <1>9, <1>10, <2>1, <2>2, StepState
<1>13. CallsInv'
  BY <1>1, <1>2, <1>5, <1>9, <1>10, StepCalls DEF CallsInv
<1>14. AsksInv'
  BY <1>8, <1>9, StepAsks
<1>15. AloneInv'
  <2>1. ASSUME Alone
        PROVE  /\ Within(lists'[k], OfSession(crews, crews[k].session) \cap (Done(crews) \cup {k}))
               /\ skill'.crew # 0 =>
                    Within(skill'.messages, OfSession(crews, crews[skill'.crew].session))
    BY <1>2, <1>5, <1>10, <2>1 DEF AloneInv
  <2>2. crews'[k].loaded \/ state = "unused"
    BY <1>8, <1>10
  <2>. QED
    BY <1>5, <1>8, <1>9, <2>1, <2>2, QuietAlone
<1>16. RawInv'
  BY <1>5, <1>8, <1>9, QuietRaw
<1>. QED
  BY <1>11, <1>12, <1>13, <1>14, <1>15, <1>16 DEF ContextInv

\* The files only have known turns and calls before results, whoever's session they are of.
LEMMA FilesFacts ==
  ASSUME ContextInv
  PROVE  /\ \A j \in 1..Len(crews) : Within(ctx[crews[j].session], 1..Len(crews))
         /\ \A s \in Sessions : CallsPrecede(ctx[s])
<1>1. \A j \in 1..Len(crews) : crews[j].session \in Sessions
  BY ContextFacts, CrewFacts DEF HookTyped
<1>. QED
  BY <1>1 DEF ContextInv, KnownInv, CallsInv

\* Alone, the hooks restore nothing but the busy crew's own session.
LEMMA AloneHooks ==
  ASSUME ContextInv, Alone, NEW k \in 1..Len(crews), Busy(k), NEW ms \in Lists, NEW id \in Nat,
         NEW T, Within(ms, T), OfSession(crews, crews[k].session) \cap Done(crews) \subseteq T
  PROVE  Within(Hooks(ms, id).messages, T)
<1>1. ASSUME NEW j \in 1..Len(crews), ~crews[j].loaded
      PROVE  Within(ctx[crews[j].session], T)
  <2>1. j = k
    BY <1>1, AloneFacts
  <2>2. Within(ctx[crews[k].session], OfSession(crews, crews[k].session) \cap Done(crews))
    BY AloneFacts
  <2>. QED
    BY <2>1, <2>2, WithinMore
<1>. QED
  BY <1>1, HooksWithin, ContextFacts

\* An LLM call of a crew keeps the invariant, whatever the hooks do to its list.
LEMMA LlmCallKeeps ==
  ASSUME ContextInv, NEW k \in 1..Len(crews), LlmCall(k)
  PROVE  ContextInv'
<1> DEFINE t == Hooks(lists[k], k)
           u == t.messages
           n == Behind(crews[k])
           S == OfSession(crews, crews[k].session) \cap (Done(crews) \cup {k})
<1>1. /\ HookTyped /\ crews \in Seq(CrewRecords) /\ lists \in Seq(Lists)
      /\ Len(lists) = Len(crews) /\ lists[k] \in Lists /\ k \in Nat
      /\ Len(crews) \in Nat /\ crews[k].steps \in Nat
  BY ContextFacts, CrewFacts DEF HookTyped
<1>2. ContextTypeInv /\ KnownInv /\ CallsInv /\ AsksInv /\ RawInv /\ StateInv /\ AloneInv
  BY DEF ContextInv
<1>3. crews[k].state \in {"made", "ready"} /\ crews[k].state \in Running /\ Busy(k)
  BY DEF LlmCall, Running, Busy
<1>4. /\ u \in Lists /\ t.crews \in Seq(CrewRecords) /\ Len(t.crews) = Len(crews)
      /\ t.shrunk \in BOOLEAN
      /\ \A i \in 1..Len(crews) :
           /\ t.crews[i].session = crews[i].session /\ t.crews[i].state = crews[i].state
           /\ t.crews[i].steps = crews[i].steps /\ t.crews[i].loaded /\ t.crews[i].last = k
  <2>1. HookTyped /\ lists[k] \in Lists /\ k \in Nat
    BY <1>1
  <2> HIDE DEF n, S
  <2>. QED
    BY <2>1, HooksCrews
<1>5. lists' = [lists EXCEPT ![k] = u] /\ crews' = [t.crews EXCEPT ![k].state = "asked"]
      /\ shrunk' = t.shrunk /\ UNCHANGED <<serial, ctx, raw, skill>>
  BY DEF LlmCall
<1>6. Within(lists[k], 1..Len(crews)) /\ CallsPrecede(lists[k])
  BY <1>1, <1>2 DEF KnownInv, CallsInv
<1>7. Within(u, 1..Len(crews)) /\ CallsPrecede(u)
  BY <1>1, <1>6, FilesFacts, HooksWithin, HooksCalls
<1>8. n = 2 * crews[k].steps /\ n \in Nat /\ 2 * crews[k].steps = n
  BY <1>1, <1>3 DEF Behind, Calling
<1>9. n < KeepMessages => Asks(u, k, n)
  <2>1. n < KeepMessages => Asks(lists[k], k, n)
    BY <1>2, <1>3, <1>8 DEF AsksInv
  <2> HIDE DEF n
  <2>. QED
    BY <1>1, <1>8, <2>1, HooksAsk
<1>10. Alone => Within(u, S)
  <2> SUFFICES ASSUME Alone PROVE Within(u, S)
    OBVIOUS
  <2>1. Within(lists[k], S)
    BY <1>2 DEF AloneInv
  <2>2. OfSession(crews, crews[k].session) \cap Done(crews) \subseteq S
    OBVIOUS
  <2> HIDE DEF S
  <2>. QED
    BY <1>1, <1>3, <2>1, <2>2, AloneHooks
<1>11. Alone /\ ~t.shrunk => ~shrunk /\ EndsWith(u, k, t.crews[k].hist, n)
  <2> SUFFICES ASSUME Alone, ~t.shrunk PROVE ~shrunk /\ EndsWith(u, k, t.crews[k].hist, n)
    OBVIOUS
  <2>1. k = Len(crews) /\ \A j \in 1..Len(crews) : j < k => crews[j].loaded
    <3>1. k = Len(crews) /\ \A j \in 1..Len(crews) : j # k => crews[j].loaded
      BY <1>3, AloneFacts
    <3>. QED
      BY <1>1, <3>1
  <2>2. ~shrunk
    BY <1>1, <2>1, HooksKeep
  <2>3. EndsWith(lists[k], k, crews[k].hist, n)
    BY <1>2, <1>3, <2>2 DEF RawInv
  <2>4. ASSUME ~crews[k].loaded
        PROVE  /\ n = 0 /\ crews[k].hist = 0 /\ Asks(lists[k], k, 0)
               /\ \A i \in DOMAIN lists[k] : lists[k][i].role = "system" => lists[k][i].turns = {}
               /\ \A i \in DOMAIN ctx[crews[k].session] : k \notin ctx[crews[k].session][i].turns
    <3>1. crews[k].hist = 0 /\ crews[k].state = "made"
      BY <1>2, <1>3, <2>4 DEF StateInv, Running
    <3>2. crews[k].steps = 0
      BY <1>2, <3>1 DEF StateInv
    <3>3. n = 0 /\ 0 < KeepMessages
      BY <1>8, <3>2, ContextAssumption
    <3>4. Asks(lists[k], k, n)
      BY <1>2, <1>3, <1>8, <3>3 DEF AsksInv
    <3>5. \A i \in DOMAIN lists[k] : lists[k][i].role = "system" => lists[k][i].turns = {}
      BY <1>2, <1>3, <2>2, <2>4 DEF RawInv
    <3>6. /\ Within(ctx[crews[k].session], OfSession(crews, crews[k].session) \cap Done(crews))
          /\ k \notin Done(crews)
      BY <1>3, AloneFacts
    <3>7. \A i \in DOMAIN ctx[crews[k].session] : k \notin ctx[crews[k].session][i].turns
      BY <3>6 DEF Within
    <3>. QED
      BY <3>1, <3>3, <3>4, <3>5, <3>7
  <2> HIDE DEF n
  <2>. QED
    BY <1>1, <2>1, <2>2, <2>3, <2>4, HooksEnd
<1> HIDE DEF t, u, n, S
<1>12. Becomes(crews', t.crews, k, "asked", crews[k].steps)
  <2>1. "asked" \in CrewStates /\ k \in 1..Len(t.crews)
    BY <1>4 DEF CrewStates, Running
  <2>2. Becomes(crews', t.crews, k, "asked", t.crews[k].steps)
    BY <1>4, <1>5, <2>1, StateBecomes
  <2>. QED
    BY <1>4, <2>2
<1>13. /\ crews' \in Seq(CrewRecords) /\ Len(crews') = Len(crews)
       /\ \A i \in 1..Len(crews) :
            /\ crews'[i].session = crews[i].session /\ crews'[i].steps = crews[i].steps
            /\ crews'[i].loaded /\ crews'[i].last = k
            /\ i # k => crews'[i].state = crews[i].state
       /\ crews'[k].state = "asked" /\ crews'[k].hist = t.crews[k].hist
  <2>1. \A i \in 1..Len(crews) : i = k \/ crews'[i] = t.crews[i]
    BY <1>4, <1>12 DEF Becomes
  <2>. QED
    BY <1>4, <1>12, <2>1 DEF Becomes
<1>14. Replaced(lists', lists, k, u)
  BY <1>1, <1>4, <1>5, ReplaceFacts
<1>15. Step(k, "asked")
  <2>1. Moves(k, "asked")
    BY <1>1, <1>3, <1>13 DEF Moves
  <2>2. skill' \in [crew : 0..Len(crews), calls : Nat, messages : Lists]
    BY <1>2, <1>5 DEF ContextTypeInv
  <2>. QED
    BY <1>1, <1>4, <1>5, <1>13, <1>14, <2>1, <2>2 DEF Step, Replaced
<1>16. lists'[k] = u /\ Behind(crews'[k]) = n /\ ~Calling(crews'[k])
  BY <1>8, <1>13, <1>14 DEF Replaced, Behind, Calling
<1>17. ContextTypeInv' /\ KnownInv'
  <2>1. /\ Within(skill'.messages, 1..Len(crews))
        /\ ctx' \in [Sessions -> Lists] /\ raw' \in [Sessions -> Lists]
        /\ \A s \in Sessions : Within(ctx'[s], 1..Len(crews)) /\ Within(raw'[s], 1..Len(crews))
    BY <1>2, <1>5 DEF KnownInv, ContextTypeInv
  <2>. QED
    BY <1>7, <1>15, <1>16, <2>1, StepKnown
<1>18. StateInv'
  <2>1. \A j \in 1..Len(crews) : crews[j].state = "skill" => skill'.crew = j
    BY <1>2, <1>5 DEF StateInv
  <2>. QED
    BY <1>13, <1>15, <1>16, <2>1, StepState
<1>19. CallsInv'
  BY <1>2, <1>5, <1>7, <1>15, <1>16, StepCalls DEF CallsInv
<1>20. AsksInv'
  <2>1. 2 * crews'[k].steps < KeepMessages => Asks(lists'[k], k, Behind(crews'[k]))
    BY <1>8, <1>9, <1>13, <1>16
  <2>. QED
    BY <1>15, <2>1, StepAsks
<1>21. AloneInv'
  <2>1. ASSUME Alone
        PROVE  /\ Within(lists'[k], OfSession(crews, crews[k].session) \cap (Done(crews) \cup {k}))
               /\ skill'.crew # 0 =>
                    Within(skill'.messages, OfSession(crews, crews[skill'.crew].session))
    BY <1>2, <1>5, <1>10, <1>16, <2>1 DEF AloneInv, S
  <2>. QED
    BY <1>5, <1>13, <1>15, <2>1, QuietAlone
<1>22. RawInv'
  <2>1. Alone /\ ~shrunk' =>
          ~shrunk /\ crews'[k].loaded /\ EndsWith(lists'[k], k, crews'[k].hist, Behind(crews'[k]))
    BY <1>5, <1>11, <1>13, <1>16
  <2>. QED
    BY <1>5, <1>15, <2>1, QuietRaw
<1>. QED
  BY <1>17, <1>18, <1>19, <1>20, <1>21, <1>22 DEF ContextInv

\* A call and its result.
LEMMA PairFacts ==
  ASSUME NEW k \in Nat, NEW long \in BOOLEAN, NEW u,
         u = <<Message("assistant", k, FALSE), Message("tool", k, long)>>
  PROVE  u \in Lists /\ Within(u, {k}) /\ CallsPrecede(u)
<1> DEFINE a == Message("assistant", k, FALSE)
           b == Message("tool", k, long)
<1>1. /\ a \in Messages /\ a.role = "assistant" /\ a.turns = {k}
      /\ b \in Messages /\ b.role = "tool" /\ b.turns = {k}
  BY MessageFacts DEF Roles
<1>2. u = <<a, b>>
  OBVIOUS
<1> HIDE DEF a, b
<1>3. u \in Lists /\ Len(u) = 2 /\ DOMAIN u = 1..2 /\ u[1] = a /\ u[2] = b
  <2> DEFINE w == <<a, b>>
  <2>1. w \in Lists /\ Len(w) = 2 /\ DOMAIN w = 1..2 /\ w[1] = a /\ w[2] = b
    BY <1>1 DEF Lists
  <2>. QED
    BY <1>2, <2>1
<1>4. \A i \in DOMAIN u : i = 1 \/ i = 2
  BY <1>3
<1>5. Within(u, {k})
  BY <1>1, <1>3, <1>4 DEF Within
<1>6. CallsPrecede(u)
  <2> SUFFICES ASSUME NEW i \in DOMAIN u, u[i].role = "tool"
               PROVE  i > 1 /\ u[i - 1].role = "assistant" /\ u[i - 1].turns = u[i].turns
    BY DEF CallsPrecede
  <2>1. i = 2
    BY <1>1, <1>3, <1>4
  <2>2. i - 1 = 1 /\ i > 1
    BY <2>1
  <2>. QED
    BY <1>1, <1>3, <2>1, <2>2
<1>. QED
  BY <1>3, <1>5, <1>6

\* An LLM call of a skill keeps the invariant, whatever the hooks do to its list.
LEMMA SkillLlmCallKeeps ==
  ASSUME ContextInv, NEW k \in 1..Len(crews), NEW long \in BOOLEAN, SkillLlmCall(k, long)
  PROVE  ContextInv'
<1> DEFINE t == Hooks(skill.messages, SkillList)
           pair == <<Message("assistant", k, FALSE), Message("tool", k, long)>>
           u == t.messages
           v == u \o pair
           own == OfSession(crews, crews[k].session)
<1>1. /\ HookTyped /\ crews \in Seq(CrewRecords) /\ lists \in Seq(Lists)
      /\ Len(lists) = Len(crews) /\ k \in Nat /\ Len(crews) \in Nat
      /\ skill.messages \in Lists /\ SkillList \in Nat
  BY ContextFacts DEF HookTyped, SkillList
<1>2. ContextTypeInv /\ KnownInv /\ CallsInv /\ AsksInv /\ RawInv /\ StateInv /\ AloneInv
  BY DEF ContextInv
<1>3. /\ crews[k].state = "skill" /\ crews[k].state \in Running /\ Busy(k) /\ Calling(crews[k])
      /\ crews[k].steps > 0 /\ skill.crew = k /\ crews[k].loaded
  <2>1. crews[k].state = "skill"
    BY DEF SkillLlmCall
  <2>2. Calling(crews[k]) /\ crews[k].state \in Running
    BY <2>1 DEF Running, Calling
  <2>. QED
    BY <1>2, <2>1, <2>2 DEF StateInv, Busy
<1>4. /\ u \in Lists /\ t.crews \in Seq(CrewRecords) /\ Len(t.crews) = Len(crews)
      /\ t.shrunk \in BOOLEAN
      /\ \A i \in 1..Len(crews) :
           /\ t.crews[i].session = crews[i].session /\ t.crews[i].state = crews[i].state
           /\ t.crews[i].steps = crews[i].steps /\ t.crews[i].loaded /\ t.crews[i].last = SkillList
  BY <1>1, HooksCrews
<1>5. pair \in Lists /\ Within(pair, {k}) /\ CallsPrecede(pair)
  BY <1>1, PairFacts
<1>6. /\ skill' = [skill EXCEPT !.calls = @ + 1, !.messages = v]
      /\ crews' = t.crews /\ shrunk' = t.shrunk /\ UNCHANGED <<serial, ctx, raw, lists>>
  BY DEF SkillLlmCall
<1>7. Within(u, 1..Len(crews)) /\ CallsPrecede(u)
  <2>1. Within(skill.messages, 1..Len(crews)) /\ CallsPrecede(skill.messages)
    BY <1>2 DEF KnownInv, CallsInv
  <2>. QED
    BY <1>1, <2>1, FilesFacts, HooksWithin, HooksCalls
<1>8. Alone => Within(u, own)
  <2> SUFFICES ASSUME Alone PROVE Within(u, own)
    OBVIOUS
  <2>1. Within(skill.messages, own)
    <3>1. skill.crew # 0
      BY <1>3
    <3>. QED
      BY <1>2, <1>3, <3>1 DEF AloneInv
  <2>2. own \cap Done(crews) \subseteq own
    OBVIOUS
  <2>. QED
    BY <1>1, <1>3, <2>1, <2>2, AloneHooks
<1>9. Alone /\ ~t.shrunk => ~shrunk /\ t.crews[k].hist = crews[k].hist
  <2> SUFFICES ASSUME Alone, ~t.shrunk PROVE ~shrunk /\ t.crews[k].hist = crews[k].hist
    OBVIOUS
  <2>1. k = Len(crews) /\ \A j \in 1..Len(crews) : j < k => crews[j].loaded
    <3>1. k = Len(crews) /\ \A j \in 1..Len(crews) : j # k => crews[j].loaded
      BY <1>3, AloneFacts
    <3>. QED
      BY <1>1, <3>1
  <2>. QED
    BY <1>1, <1>3, <2>1, HooksKeep
<1>10. k \in own
  BY DEF OfSession
<1> HIDE DEF t, u, pair, own
<1>11. /\ v \in Lists /\ Within(v, 1..Len(crews)) /\ CallsPrecede(v) /\ (Alone => Within(v, own))
  <2>1. Within(pair, 1..Len(crews)) /\ Within(pair, own)
    BY <1>5, <1>10, WithinMore
  <2>. QED
    BY <1>4, <1>5, <1>7, <1>8, <2>1, ConcatFacts, ConcatWithin, ConcatCalls
<1> HIDE DEF v
<1>12. /\ skill' \in [crew : 0..Len(crews), calls : Nat, messages : Lists]
       /\ skill'.crew = k /\ skill'.messages = v
  <2>1. skill \in [crew : 0..Len(crews), calls : Nat, messages : Lists]
    BY <1>2 DEF ContextTypeInv
  <2> DEFINE count == skill.calls + 1
  <2>2. count \in Nat /\ skill' = [skill EXCEPT !.calls = count, !.messages = v]
    BY <1>6, <2>1
  <2> HIDE DEF count
  <2>. QED
    BY <1>3, <1>11, <2>1, <2>2
<1>13. Step(k, "skill")
  <2>1. Moves(k, "skill")
    BY <1>1, <1>3, <1>4, <1>6 DEF Moves
  <2>. QED
    BY <1>1, <1>4, <1>6, <1>12, <2>1 DEF Step
<1>14. /\ lists'[k] = lists[k] /\ crews'[k].state = crews[k].state /\ crews'[k].steps = crews[k].steps
       /\ crews'[k].loaded /\ Behind(crews'[k]) = Behind(crews[k]) /\ Calling(crews'[k])
  BY <1>3, <1>4, <1>6 DEF Behind, Calling
<1>15. ContextTypeInv' /\ KnownInv'
  <2>1. /\ Within(lists'[k], 1..Len(crews)) /\ Within(skill'.messages, 1..Len(crews))
        /\ ctx' \in [Sessions -> Lists] /\ raw' \in [Sessions -> Lists]
        /\ \A s \in Sessions : Within(ctx'[s], 1..Len(crews)) /\ Within(raw'[s], 1..Len(crews))
    BY <1>2, <1>6, <1>11, <1>12, <1>14 DEF KnownInv, ContextTypeInv
  <2>. QED
    BY <1>13, <2>1, StepKnown
<1>16. StateInv'
  <2>1. \A j \in 1..Len(crews) : crews[j].state = "skill" => skill'.crew = j
    BY <1>2, <1>3, <1>12 DEF StateInv
  <2>. QED
    BY <1>3, <1>12, <1>13, <1>14, <2>1, StepState
<1>17. CallsInv'
  <2>1. /\ CallsPrecede(lists'[k]) /\ EndsWithCall(lists'[k], k) /\ CallsPrecede(skill'.messages)
        /\ \A s \in Sessions : CallsPrecede(ctx'[s])
    BY <1>1, <1>2, <1>3, <1>6, <1>11, <1>12, <1>14 DEF CallsInv
  <2>. QED
    BY <1>13, <2>1, StepCalls
<1>18. AsksInv'
  <2>1. 2 * crews'[k].steps < KeepMessages => Asks(lists'[k], k, Behind(crews'[k]))
    BY <1>2, <1>3, <1>14 DEF AsksInv
  <2>. QED
    BY <1>13, <2>1, StepAsks
<1>19. AloneInv'
  <2>1. ASSUME Alone
        PROVE  /\ Within(lists'[k], OfSession(crews, crews[k].session) \cap (Done(crews) \cup {k}))
               /\ Within(skill'.messages, OfSession(crews, crews[skill'.crew].session))
    BY <1>2, <1>11, <1>12, <1>14, <2>1 DEF AloneInv, own
  <2>. QED
    BY <1>6, <1>13, <1>14, <2>1, QuietAlone
<1>20. RawInv'
  <2>1. Alone /\ ~shrunk' =>
          ~shrunk /\ crews'[k].loaded /\ EndsWith(lists'[k], k, crews'[k].hist, Behind(crews'[k]))
    BY <1>2, <1>3, <1>6, <1>9, <1>14 DEF RawInv
  <2>. QED
    BY <1>6, <1>13, <2>1, QuietRaw
<1>. QED
  BY <1>15, <1>16, <1>17, <1>18, <1>19, <1>20 DEF ContextInv

\* The part of a list behind its first n messages.
LEMMA FromFacts ==
  ASSUME NEW ms \in Lists, NEW n \in Nat
  PROVE  /\ From(ms, n) \in Lists
         /\ \A T : Within(ms, T) => Within(From(ms, n), T)
         /\ n <= Len(ms) => /\ Len(From(ms, n)) = Len(ms) - n
                            /\ \A i \in 1..(Len(ms) - n) : From(ms, n)[i] = ms[n + i]
<1> DEFINE f == SubSeq(ms, n + 1, Len(ms))
<1>1. Len(ms) \in Nat /\ n + 1 \in Int /\ DOMAIN ms = 1..Len(ms)
  BY ListFacts
<1>2. \A i \in (n + 1)..Len(ms) : i \in 1..Len(ms)
  BY <1>1
<1>3. \A i \in (n + 1)..Len(ms) : ms[i] \in Messages
  BY <1>2, ListFacts
<1>4. /\ f \in Lists /\ Len(f) = IF n + 1 <= Len(ms) THEN Len(ms) - (n + 1) + 1 ELSE 0
      /\ \A i \in 1..(Len(ms) - (n + 1) + 1) : f[i] = ms[(n + 1) + i - 1]
  BY <1>1, <1>3, SubSeqProperties DEF Lists
<1>5. From(ms, n) = f
  BY DEF From
<1> HIDE DEF f
<1>9. Len(f) = IF n <= Len(ms) THEN Len(ms) - n ELSE 0
  <2> DEFINE l == Len(ms)
             k == Len(f)
  <2>1. l \in Nat /\ k = IF n + 1 <= l THEN l - (n + 1) + 1 ELSE 0
    BY <1>1, <1>4
  <2> HIDE DEF l, k
  <2>2. k = IF n <= l THEN l - n ELSE 0
    BY <2>1
  <2>. QED
    BY <2>2 DEF l, k
<1>6. ASSUME NEW i \in 1..Len(f) PROVE n + i \in 1..Len(ms) /\ f[i] = ms[n + i]
  <2>1. n <= Len(ms) /\ i \in 1..(Len(ms) - n)
    <3>1. CASE n <= Len(ms)
      BY <1>9, <3>1
    <3>2. CASE ~(n <= Len(ms))
      <4>1. Len(f) = 0
        BY <1>9, <3>2
      <4>. QED
        BY <4>1
    <3>. QED
      BY <3>1, <3>2
  <2>2. /\ i \in 1..(Len(ms) - (n + 1) + 1) /\ (n + 1) + i - 1 = n + i
        /\ n + i \in 1..Len(ms)
    BY <1>1, <2>1
  <2>. QED
    BY <1>4, <2>2
<1>7. DOMAIN f = 1..Len(f)
  BY <1>4, ListFacts
<1>8. \A T : Within(ms, T) => Within(f, T)
  BY <1>1, <1>6, <1>7 DEF Within
<1>. QED
  BY <1>4, <1>5, <1>6, <1>8, <1>9

\* More lines of other turns.
LEMMA OtherLines ==
  ASSUME NEW r \in Lists, NEW f \in Lists, NEW j, \A i \in 1..Len(f) : j \notin f[i].turns
  PROVE  Lines(r \o f, j) = Lines(r, j)
<1> DEFINE c == r \o f
<1>1. /\ c \in Lists /\ Len(c) = Len(r) + Len(f) /\ Len(r) \in Nat /\ Len(f) \in Nat
      /\ \A i \in 1..Len(r) : c[i] = r[i]
      /\ \A i \in 1..Len(f) : c[Len(r) + i] = f[i]
  BY ConcatFacts
<1> HIDE DEF c
<1>2. DOMAIN r = 1..Len(r) /\ DOMAIN c = 1..(Len(r) + Len(f))
  BY <1>1, ListFacts
<1>3. ASSUME NEW i \in 1..(Len(r) + Len(f)), i \notin 1..Len(r) PROVE j \notin c[i].turns
  <2>1. i - Len(r) \in 1..Len(f) /\ Len(r) + (i - Len(r)) = i
    BY <1>1, <1>3
  <2>2. c[i] = f[i - Len(r)]
    BY <1>1, <2>1
  <2>. QED
    BY <2>1, <2>2
<1>4. 1..Len(r) \subseteq 1..(Len(r) + Len(f))
  BY <1>1
<1>5. Lines(c, j) = Lines(r, j)
  BY <1>1, <1>2, <1>3, <1>4 DEF Lines
<1>. QED
  BY <1>5 DEF c

\* The lines of a turn that begins in the new part.
LEMMA NewLines ==
  ASSUME NEW r \in Lists, NEW f \in Lists, NEW k, \A i \in 1..Len(r) : k \notin r[i].turns,
         NEW b \in Nat, b > 0, \A i \in 1..Len(f) : k \in f[i].turns <=> b <= i
  PROVE  Lines(r \o f, k) = (Len(r) + b)..(Len(r) + Len(f))
<1> DEFINE c == r \o f
<1>1. /\ c \in Lists /\ Len(c) = Len(r) + Len(f) /\ Len(r) \in Nat /\ Len(f) \in Nat
      /\ \A i \in 1..Len(r) : c[i] = r[i]
      /\ \A i \in 1..Len(f) : c[Len(r) + i] = f[i]
  BY ConcatFacts
<1> HIDE DEF c
<1>2. DOMAIN c = 1..(Len(r) + Len(f))
  BY <1>1, ListFacts
<1>3. ASSUME NEW i \in 1..(Len(r) + Len(f))
      PROVE  k \in c[i].turns <=> i \in (Len(r) + b)..(Len(r) + Len(f))
  <2>1. CASE i \in 1..Len(r)
    <3>1. ~(Len(r) + b <= i)
      BY <1>1, <2>1
    <3>. QED
      BY <1>1, <2>1, <3>1
  <2>2. CASE i \notin 1..Len(r)
    <3>1. i - Len(r) \in 1..Len(f) /\ Len(r) + (i - Len(r)) = i
      BY <1>1, <2>2
    <3>2. c[i] = f[i - Len(r)]
      BY <1>1, <3>1
    <3>3. k \in c[i].turns <=> b <= i - Len(r)
      BY <3>1, <3>2
    <3>4. b <= i - Len(r) <=> i \in (Len(r) + b)..(Len(r) + Len(f))
      BY <1>1, <3>1
    <3>. QED
      BY <3>3, <3>4
  <2>. QED
    BY <2>1, <2>2
<1>4. (Len(r) + b)..(Len(r) + Len(f)) \subseteq 1..(Len(r) + Len(f))
  BY <1>1
<1>5. Lines(c, k) = (Len(r) + b)..(Len(r) + Len(f))
  BY <1>2, <1>3, <1>4 DEF Lines
<1>. QED
  BY <1>5 DEF c

Lacks(ms, k) == \A i \in 1..Len(ms) : k \notin ms[i].turns
\* Against r, c has n + 1 lines of turn k in one piece and no new line of another turn.
Saved(r, c, k, n) ==
  /\ \A j : j # k => Lines(c, j) = Lines(r, j)
  /\ \E a \in Nat : Lines(c, k) = a..(a + n)

\* Saving a turn that ends a list: its lines are new, and no other turn gets one.
LEMMA SavedLines ==
  ASSUME NEW r \in Lists, NEW ms \in Lists, NEW k, NEW hist \in Nat, NEW n \in Nat,
         EndsWith(ms, k, hist, n), Lacks(r, k)
  PROVE  Saved(r, r \o From(ms, hist), k, n)
<1> DEFINE f == From(ms, hist)
<1>1. Len(ms) \in Nat /\ DOMAIN ms = 1..Len(ms) /\ Len(r) \in Nat
  BY ListFacts
<1>2. PICK p \in Nat : /\ hist < p /\ Len(ms) = p + n
                       /\ \A i \in 1..Len(ms) : /\ k \in ms[i].turns <=> p <= i
                                                /\ hist < i => ms[i].turns \subseteq {k}
  BY <1>1 DEF EndsWith
<1>3. hist <= Len(ms)
  BY <1>1, <1>2
<1>4. f \in Lists /\ Len(f) = Len(ms) - hist /\ \A i \in 1..Len(f) : f[i] = ms[hist + i]
  BY <1>3, FromFacts
<1> HIDE DEF f
<1>5. \A i \in 1..Len(f) : /\ hist + i \in 1..Len(ms) /\ hist < hist + i
                           /\ p <= hist + i <=> p - hist <= i
  BY <1>1, <1>2, <1>4
<1>6. ASSUME NEW j, j # k PROVE Lines(r \o f, j) = Lines(r, j)
  <2>1. \A i \in 1..Len(f) : j \notin f[i].turns
    BY <1>2, <1>4, <1>5, <1>6
  <2>. QED
    BY <1>4, <2>1, OtherLines
<1> DEFINE b == p - hist
<1>7. b \in Nat /\ b > 0
  BY <1>2
<1>8. \A i \in 1..Len(f) : k \in f[i].turns <=> b <= i
  BY <1>2, <1>4, <1>5
<1>9. Len(r) + b \in Nat /\ Len(r) + Len(f) = (Len(r) + b) + n
  BY <1>1, <1>2, <1>4
<1> HIDE DEF b
<1>10. Lines(r \o f, k) = (Len(r) + b)..(Len(r) + Len(f))
  BY <1>4, <1>7, <1>8, NewLines DEF Lacks
<1>11. Lines(r \o f, k) = (Len(r) + b)..((Len(r) + b) + n)
  BY <1>9, <1>10
<1>. QED
  BY <1>6, <1>9, <1>11 DEF f, Saved

\* Saving a turn keeps the invariant.
LEMMA FinishKeeps ==
  ASSUME ContextInv, NEW k \in 1..Len(crews), Finish(k)
  PROVE  ContextInv'
<1> DEFINE m == Message("assistant", k, FALSE)
           u == Append(lists[k], m)
           s == crews[k].session
           kept == LastMessages(k, lists')
           new == From(kept, crews[k].hist)
           T == OfSession(crews, s) \cap (Done(crews) \cup {k})
           n == Behind(crews[k])
<1>1. /\ HookTyped /\ crews \in Seq(CrewRecords) /\ lists \in Seq(Lists)
      /\ Len(lists) = Len(crews) /\ lists[k] \in Lists /\ k \in Nat /\ Len(crews) \in Nat
      /\ crews[k].steps \in Nat /\ crews[k].hist \in Nat /\ s \in Sessions
      /\ ctx[s] \in Lists /\ raw[s] \in Lists /\ skill.messages \in Lists
  BY ContextFacts, CrewFacts DEF HookTyped
<1>2. ContextTypeInv /\ KnownInv /\ CallsInv /\ AsksInv /\ RawInv /\ StateInv /\ AloneInv
  BY DEF ContextInv
<1>3. /\ crews[k].state = "asked" /\ crews[k].state \in Running /\ Busy(k) /\ crews[k].loaded
      /\ n = 2 * crews[k].steps
  <2>1. crews[k].state = "asked"
    BY DEF Finish
  <2>. QED
    BY <1>2, <2>1 DEF Running, Busy, StateInv, Behind, Calling
<1>4. m \in Messages /\ m.role = "assistant" /\ m.turns = {k}
  BY <1>1, MessageFacts DEF Roles
<1>5. /\ lists' = [lists EXCEPT ![k] = u] /\ crews' = [crews EXCEPT ![k].state = "done"]
      /\ raw' = [raw EXCEPT ![s] = raw[s] \o new] /\ ctx' = [ctx EXCEPT ![s] = kept]
      /\ UNCHANGED <<serial, skill, shrunk>>
  BY DEF Finish, To
<1> HIDE DEF m
<1>6. Longer(u, lists[k], m)
  BY <1>1, <1>4, AppendLonger
<1> HIDE DEF u
<1>7. Replaced(lists', lists, k, u)
  BY <1>1, <1>5, <1>6, ReplaceFacts DEF Longer
<1>8. Within(u, 1..Len(crews)) /\ CallsPrecede(u)
  <2>1. Within(lists[k], 1..Len(crews)) /\ CallsPrecede(lists[k])
    BY <1>1, <1>2 DEF KnownInv, CallsInv
  <2>. QED
    BY <1>4, <1>6, <2>1, LongerWithin, LongerCalls
<1>9. kept \in Lists /\ Within(kept, 1..Len(crews)) /\ CallsPrecede(kept)
  <2>1. crews[k].last \in (1..Len(crews)) \cup {SkillList, NoList}
    BY <1>2 DEF KnownInv
  <2>2. CASE kept = <<>>
    <3>1. <<>> \in Lists /\ Within(<<>>, 1..Len(crews)) /\ CallsPrecede(<<>>)
      BY DEF Lists, Within, CallsPrecede
    <3>. QED
      BY <2>2, <3>1
  <2>3. CASE kept = skill.messages
    <3>1. Within(skill.messages, 1..Len(crews)) /\ CallsPrecede(skill.messages)
      BY <1>2 DEF KnownInv, CallsInv
    <3>. QED
      BY <1>1, <2>3, <3>1
  <2>4. ASSUME NEW i \in 1..Len(crews), kept = lists'[i]
        PROVE  kept \in Lists /\ Within(kept, 1..Len(crews)) /\ CallsPrecede(kept)
    <3>1. CASE i = k
      BY <1>6, <1>7, <1>8, <2>4, <3>1 DEF Replaced, Longer
    <3>2. CASE i # k
      <4>1. lists'[i] = lists[i]
        BY <1>1, <1>7, <3>2 DEF Replaced
      <4>2. lists[i] \in Lists
        BY ContextFacts
      <4>. QED
        BY <1>1, <1>2, <2>4, <4>1, <4>2 DEF KnownInv, CallsInv
    <3>. QED
      BY <3>1, <3>2
  <2>5. kept = <<>> \/ kept = skill.messages \/ \E i \in 1..Len(crews) : kept = lists'[i]
    BY <2>1 DEF LastMessages
  <2>. QED
    BY <2>2, <2>3, <2>4, <2>5
<1>10. Alone => kept = u /\ Within(u, T)
  <2> SUFFICES ASSUME Alone PROVE kept = u /\ Within(u, T)
    OBVIOUS
  <2>1. crews[k].last = k
    BY <1>2, <1>3 DEF AloneInv
  <2>2. k # NoList /\ k # SkillList
    BY <1>1, <1>2, ContextAssumption DEF NoList, SkillList, ContextTypeInv
  <2>3. kept = lists'[k]
    BY <2>1, <2>2 DEF LastMessages
  <2>4. Within(lists[k], T) /\ k \in T
    BY <1>2 DEF AloneInv, OfSession
  <2> HIDE DEF T, kept
  <2>. QED
    BY <1>4, <1>6, <1>7, <2>3, <2>4, LongerWithin DEF Replaced
<1> HIDE DEF kept
<1>11. new \in Lists /\ \A S : Within(kept, S) => Within(new, S)
  BY <1>1, <1>9, FromFacts
<1>12. Alone /\ ~shrunk => EndsWith(kept, k, crews[k].hist, 2 * crews[k].steps + 1)
  <2> SUFFICES ASSUME Alone, ~shrunk
               PROVE  EndsWith(kept, k, crews[k].hist, 2 * crews[k].steps + 1)
    OBVIOUS
  <2> DEFINE l == 2 * crews[k].steps + 1
  <2>1. EndsWith(lists[k], k, crews[k].hist, n)
    BY <1>2, <1>3 DEF RawInv
  <2>2. n \in Nat /\ l = n + 1
    BY <1>1, <1>3
  <2> HIDE DEF n, l
  <2>3. EndsWith(u, k, crews[k].hist, l)
    BY <1>1, <1>4, <1>6, <2>1, <2>2, LongerEnds
  <2>. QED
    BY <1>10, <2>3 DEF l
<1>13. Becomes(crews', crews, k, "done", crews[k].steps)
  <2>1. "done" \in CrewStates
    BY DEF CrewStates
  <2>. QED
    BY <1>1, <1>5, <2>1, StateBecomes
<1>14. /\ crews'[k].state = "done" /\ crews'[k].loaded /\ ~Calling(crews'[k]) /\ lists'[k] = u
       /\ \A i \in 1..Len(crews) : /\ crews'[i].session = crews[i].session
                                   /\ crews'[i].steps = crews[i].steps
                                   /\ (i # k => crews'[i] = crews[i])
  <2>1. \A i \in 1..Len(crews) : i = k \/ crews'[i] = crews[i]
    BY <1>13 DEF Becomes
  <2>. QED
    BY <1>3, <1>7, <1>13, <2>1 DEF Becomes, Calling, Replaced
<1>15. Step(k, "done")
  <2>1. skill' \in [crew : 0..Len(crews), calls : Nat, messages : Lists]
    BY <1>2, <1>5 DEF ContextTypeInv
  <2>. QED
    BY <1>3, <1>5, <1>7, <1>13, <2>1, BecomesStep
<1> DEFINE lines == raw[s] \o new
<1>16. lines \in Lists
  BY <1>1, <1>11, ConcatFacts
<1>17. /\ ctx'[s] = kept /\ raw'[s] = lines
       /\ \A t \in Sessions : t # s => ctx'[t] = ctx[t] /\ raw'[t] = raw[t]
       /\ ctx' \in [Sessions -> Lists] /\ raw' \in [Sessions -> Lists]
  <2>1. ctx \in [Sessions -> Lists] /\ raw \in [Sessions -> Lists]
    BY <1>2 DEF ContextTypeInv
  <2>2. raw' = [raw EXCEPT ![s] = lines]
    BY <1>5
  <2> HIDE DEF lines
  <2>. QED
    BY <1>1, <1>5, <1>9, <1>16, <2>1, <2>2
<1>18. \A S : Within(raw[s], S) /\ Within(kept, S) => Within(lines, S)
  BY <1>1, <1>11, ConcatWithin
<1>19. ContextTypeInv' /\ KnownInv'
  <2>1. ASSUME NEW t \in Sessions
        PROVE  Within(ctx'[t], 1..Len(crews)) /\ Within(raw'[t], 1..Len(crews))
    <3>1. Within(ctx[t], 1..Len(crews)) /\ Within(raw[t], 1..Len(crews))
      BY <1>2 DEF KnownInv
    <3> HIDE DEF lines, s
    <3>. QED
      BY <1>9, <1>17, <1>18, <3>1
  <2>2. Within(skill'.messages, 1..Len(crews))
    BY <1>2, <1>5 DEF KnownInv
  <2>. QED
    BY <1>8, <1>14, <1>15, <1>17, <2>1, <2>2, StepKnown
<1>20. StateInv'
  <2>1. \A j \in 1..Len(crews) : crews[j].state = "skill" => skill'.crew = j
    BY <1>2, <1>5 DEF StateInv
  <2>. QED
    BY <1>14, <1>15, <2>1, StepState
<1>21. CallsInv'
  <2>1. ASSUME NEW t \in Sessions PROVE CallsPrecede(ctx'[t])
    BY <1>2, <1>9, <1>17 DEF CallsInv
  <2>2. CallsPrecede(skill'.messages)
    BY <1>2, <1>5 DEF CallsInv
  <2>. QED
    BY <1>8, <1>14, <1>15, <2>1, <2>2, StepCalls
<1>22. AsksInv'
  BY <1>15, StepAsks DEF Running
<1> HIDE DEF new, lines, n
<1>23. ASSUME Alone'
       PROVE  /\ Alone /\ k = Len(crews) /\ Done(crews') = Done(crews) \cup {k}
              /\ \A t : OfSession(crews', t) = OfSession(crews, t)
              /\ Within(ctx[s], OfSession(crews, s) \cap Done(crews))
              /\ Within(raw[s], OfSession(crews, s) \cap Done(crews)) /\ k \notin Done(crews)
              /\ \A j \in 1..Len(crews) : j # k => ~Busy(j) /\ crews[j].loaded
  <2>1. Alone
    BY <1>15, <1>23, StepAlone
  <2>2. Done(crews') = Done(crews) \cup {k} /\ \A t : OfSession(crews', t) = OfSession(crews, t)
    BY <1>15, MovesFacts DEF Step
  <2>. QED
    BY <1>3, <2>1, <2>2, AloneFacts
<1>24. Len(crews') = Len(crews)
  BY <1>13 DEF Becomes
<1>25. ASSUME Alone' PROVE AloneInv'
  <2>1. /\ Alone /\ k = Len(crews) /\ Done(crews') = Done(crews) \cup {k}
        /\ \A t : OfSession(crews', t) = OfSession(crews, t)
        /\ \A j \in 1..Len(crews) : j # k => ~Busy(j) /\ crews[j].loaded
    BY <1>23, <1>25
  <2>2. ASSUME NEW t \in Sessions
        PROVE  /\ Within(ctx'[t], OfSession(crews, t) \cap (Done(crews) \cup {k}))
               /\ Within(raw'[t], OfSession(crews, t) \cap (Done(crews) \cup {k}))
    <3>1. /\ Within(ctx[t], OfSession(crews, t) \cap (Done(crews) \cup {k}))
          /\ Within(raw[t], OfSession(crews, t) \cap (Done(crews) \cup {k}))
      <4>1. /\ Within(ctx[t], OfSession(crews, t) \cap Done(crews))
            /\ Within(raw[t], OfSession(crews, t) \cap Done(crews))
        BY <1>2, <2>1 DEF AloneInv
      <4>2. OfSession(crews, t) \cap Done(crews)
              \subseteq OfSession(crews, t) \cap (Done(crews) \cup {k})
        OBVIOUS
      <4>. QED
        BY <4>1, <4>2, WithinMore
    <3>2. CASE t = s
      <4>1. Within(kept, T) /\ Within(raw[s], T)
        BY <1>10, <2>1, <3>1, <3>2
      <4>2. Within(lines, T)
        BY <1>18, <4>1
      <4>. QED
        BY <1>17, <3>2, <4>1, <4>2
    <3>3. CASE t # s
      BY <1>17, <3>1, <3>3
    <3>. QED
      BY <3>2, <3>3
  <2>3. ASSUME NEW j \in 1..Len(crews)
        PROVE  Within(lists'[j],
                      OfSession(crews, crews[j].session) \cap ((Done(crews) \cup {k}) \cup {j}))
    <3>1. CASE j = k
      <4>1. T = OfSession(crews, s) \cap ((Done(crews) \cup {k}) \cup {k})
        OBVIOUS
      <4>. QED
        BY <1>10, <1>14, <2>1, <3>1, <4>1
    <3>2. CASE j # k
      <4>1. Within(lists[j], OfSession(crews, crews[j].session) \cap (Done(crews) \cup {j}))
        BY <1>2, <2>1 DEF AloneInv
      <4>2. OfSession(crews, crews[j].session) \cap (Done(crews) \cup {j})
              \subseteq OfSession(crews, crews[j].session) \cap ((Done(crews) \cup {k}) \cup {j})
        OBVIOUS
      <4>3. lists'[j] = lists[j]
        BY <1>15, <3>2 DEF Step
      <4>. QED
        BY <4>1, <4>2, <4>3, WithinMore
    <3>. QED
      BY <3>1, <3>2
  <2>4. skill'.crew # 0 => Within(skill'.messages, OfSession(crews, crews'[skill'.crew].session))
    <3> SUFFICES ASSUME skill.crew # 0
                 PROVE  Within(skill.messages, OfSession(crews, crews'[skill.crew].session))
      BY <1>5
    <3>1. skill.crew \in 0..Len(crews)
      BY ContextFacts
    <3>2. skill.crew \in 1..Len(crews)
      BY <3>1
    <3>3. Within(skill.messages, OfSession(crews, crews[skill.crew].session))
      BY <1>2, <2>1 DEF AloneInv
    <3>. QED
      BY <1>14, <3>2, <3>3
  <2>5. ASSUME NEW j \in 1..Len(crews)
        PROVE  /\ j < Len(crews) => ~Busy(j)'
               /\ ~Busy(j)' => crews'[j].loaded
               /\ crews'[j].state = "asked" => crews'[j].last = j
    <3>1. CASE j = k
      BY <1>1, <1>14, <2>1, <3>1
    <3>2. CASE j # k
      BY <1>14, <2>1, <3>2 DEF Busy, Running
    <3>. QED
      BY <3>1, <3>2
  <2>. QED
    BY <1>14, <1>24, <2>1, <2>2, <2>3, <2>4, <2>5 DEF AloneInv
<1>26. ASSUME Alone', ~shrunk' PROVE RawInv'
  <2>1. /\ Alone /\ ~shrunk /\ k = Len(crews)
        /\ Within(raw[s], OfSession(crews, s) \cap Done(crews)) /\ k \notin Done(crews)
        /\ \A j \in 1..Len(crews) : j # k => ~Busy(j)
    BY <1>5, <1>23, <1>26
  <2>2. \A i \in 1..Len(raw[s]) : k \notin raw[s][i].turns
    <3>1. DOMAIN raw[s] = 1..Len(raw[s])
      BY <1>1, ListFacts
    <3>. QED
      BY <2>1, <3>1 DEF Within
  <2>3. /\ \A j : j # k => Lines(lines, j) = Lines(raw[s], j)
        /\ \E a \in Nat : Lines(lines, k) = a..(a + (2 * crews[k].steps + 1))
    <3> DEFINE l == 2 * crews[k].steps + 1
    <3>1. l \in Nat /\ EndsWith(kept, k, crews[k].hist, l)
      BY <1>1, <1>12, <2>1
    <3> HIDE DEF l
    <3>2. /\ \A j : j # k => Lines(raw[s] \o From(kept, crews[k].hist), j) = Lines(raw[s], j)
          /\ \E a \in Nat : Lines(raw[s] \o From(kept, crews[k].hist), k) = a..(a + l)
      <4> DEFINE r == raw[s]
                 h == crews[k].hist
      <4>1. /\ r \in Lists /\ kept \in Lists /\ h \in Nat /\ EndsWith(kept, k, h, l)
            /\ Lacks(r, k)
        BY <1>1, <1>9, <2>2, <3>1 DEF Lacks
      <4> HIDE DEF r, h
      <4>2. Saved(r, r \o From(kept, h), k, l)
        BY <3>1, <4>1, SavedLines
      <4>. QED
        BY <4>2 DEF r, h, Saved
    <3>. QED
      BY <3>2 DEF lines, new, l
  <2>4. ASSUME NEW j \in 1..Len(crews)
        PROVE  /\ ~Busy(j)'
               /\ crews'[j].state = "done" =>
                    \E a \in Nat : Lines(raw'[crews'[j].session], j) = a..(a + 2 * crews'[j].steps + 1)
    <3>1. CASE j = k
      <4>1. PICK a \in Nat : Lines(lines, k) = a..(a + (2 * crews[k].steps + 1))
        BY <2>3
      <4>2. a + (2 * crews[k].steps + 1) = a + 2 * crews[k].steps + 1
        BY <1>1
      <4>3. raw'[crews'[j].session] = lines /\ crews'[j].steps = crews[k].steps
        BY <1>14, <1>17, <3>1
      <4>4. ~Busy(j)'
        BY <1>14, <3>1 DEF Busy, Running
      <4>. QED
        BY <3>1, <4>1, <4>2, <4>3, <4>4
    <3>2. CASE j # k
      <4>1. crews'[j] = crews[j] /\ ~Busy(j)
        BY <1>14, <2>1, <3>2
      <4>2. crews[j].session \in Sessions
        BY <1>1, CrewFacts
      <4>3. Lines(raw'[crews[j].session], j) = Lines(raw[crews[j].session], j)
        <5>1. CASE crews[j].session = s
          BY <1>17, <2>3, <3>2, <5>1
        <5>2. CASE crews[j].session # s
          BY <1>17, <4>2, <5>2
        <5>. QED
          BY <5>1, <5>2
      <4>. QED
        BY <1>2, <2>1, <4>1, <4>3 DEF RawInv, Busy
    <3>. QED
      BY <3>1, <3>2
  <2>. QED
    BY <1>24, <2>4 DEF RawInv
<1>. QED
  BY <1>19, <1>20, <1>21, <1>22, <1>25, <1>26 DEF ContextInv, AloneInv, RawInv

\* Every step keeps the invariant.
LEMMA ContextStepKeeps ==
  ASSUME ContextInv, [ContextNext]_contextVars
  PROVE  ContextInv'
<1>1. CASE UNCHANGED contextVars
  <2>1. UNCHANGED <<serial, ctx, raw, crews, lists, skill, shrunk>>
    BY <1>1 DEF contextVars
  <2>2. ContextTypeInv /\ KnownInv /\ StateInv /\ CallsInv /\ AsksInv /\ AloneInv /\ RawInv
    BY DEF ContextInv
  <2>3. ContextTypeInv'
    BY <2>1, <2>2 DEF ContextTypeInv
  <2>4. KnownInv'
    BY <2>1, <2>2 DEF KnownInv
  <2>5. StateInv' /\ CallsInv'
    BY <2>1, <2>2 DEF StateInv, CallsInv
  <2>6. AsksInv'
    BY <2>1, <2>2 DEF AsksInv, Busy
  <2>7. Alone' <=> Alone
    BY <2>1 DEF Alone, NoneLeftUnused
  <2>8. AloneInv'
    BY <2>1, <2>2, <2>7 DEF AloneInv, Busy
  <2>9. RawInv'
    BY <2>1, <2>2, <2>7 DEF RawInv, Busy
  <2>. QED
    BY <2>3, <2>4, <2>5, <2>6, <2>8, <2>9 DEF ContextInv
<1>2. CASE ContextNext
  <2>1. CASE \E s \in Sessions : Make(s)
    BY <2>1, MakeKeeps
  <2>2. ASSUME NEW k \in DOMAIN crews,
               \/ LlmCall(k) \/ ToolCalled(k) \/ SkillStart(k) \/ Finish(k) \/ Fail(k)
               \/ \E long \in BOOLEAN : ToolReturns(k, long) \/ SkillLlmCall(k, long)
        PROVE  ContextInv'
    <3>1. k \in 1..Len(crews)
      BY ContextFacts
    <3>2. CASE LlmCall(k)
      BY <3>1, <3>2, LlmCallKeeps
    <3>3. CASE ToolCalled(k)
      BY <3>1, <3>3, ToolCalledKeeps
    <3>4. CASE SkillStart(k)
      BY <3>1, <3>4, SkillStartKeeps
    <3>5. CASE Finish(k)
      BY <3>1, <3>5, FinishKeeps
    <3>6. CASE Fail(k)
      BY <3>1, <3>6, FailKeeps
    <3>7. CASE \E long \in BOOLEAN : ToolReturns(k, long) \/ SkillLlmCall(k, long)
      BY <3>1, <3>7, ToolReturnsKeeps, SkillLlmCallKeeps
    <3>. QED
      BY <2>2, <3>2, <3>3, <3>4, <3>5, <3>6, <3>7
  <2>. QED
    BY <1>2, <2>1, <2>2 DEF ContextNext
<1>. QED
  BY <1>1, <1>2

\* The inductive invariant of the context: the types, the turns every list stems from, and,
\* for the files as for the lists, what the four properties rest on.
THEOREM ContextInvariant == ContextSpec => []ContextInv
<1>. QED
  BY ContextInitHolds, ContextStepKeeps, PTL DEF ContextSpec

\* Whichever hooks run on whichever list, and however sessions interleave, no request and no
\* ctx.json has a tool result without the assistant message that called the tool.
THEOREM CallsFirst == ContextSpec => []ToolResultsFollowTheirCalls
<1>. QED
  BY ContextInvariant, ContextImplies, PTL

\* Every request of a turn has the user's question as long as the turn fits the messages that
\* maybe_compress() keeps.
THEOREM QuestionStays == ContextSpec => []QuestionIsAsked
<1>. QED
  BY ContextInvariant, ContextImplies, PTL

\* When crews run one at a time and none fails before its first LLM call, no session's messages
\* reach another session's requests or files.
THEOREM SessionsApart == ContextSpec => []SessionsStaySeparate
<1>. QED
  BY ContextInvariant, ContextImplies, PTL

\* Under the same conditions, and until something is compressed, raw.jsonl has every message of
\* every finished turn exactly once.
THEOREM RawComplete == ContextSpec => []RawHoldsEveryMessage
<1>. QED
  BY ContextInvariant, ContextImplies, PTL
=============================================================================
