----------------------------- MODULE FeishuSender -----------------------------
(***************************************************************************)
(* xiaopaw/feishu/sender.py under its caller Runner._handle: for every     *)
(* message a thinking card, then the reply (an update of that card if its  *)
(* id is known, else a new card), then an apology if an answer raised; the *)
(* other exits of a turn are in Turn.                                      *)
(* A call holds one of MaxConcurrent slots for all its attempts, waits     *)
(* between them included.                                                  *)
(*                                                                         *)
(* The Feishu server (external) may do what it is asked and answer, do it  *)
(* and lose the answer, fail before doing it, or answer with a code: one   *)
(* of the rate limit codes or another error.  A reply to a thread is sent  *)
(* to the chat "<chat>:<thread>", which does not exist (_parse_routing_key *)
(* cuts the routing key at its first colon), and is always an error.       *)
(*                                                                         *)
(* What other modules call Init, Next, ... is SenderInit, SenderNext, ...  *)
(* here: FeishuProofs extends this module and Intake.                      *)
(***************************************************************************)
EXTENDS Naturals, FiniteSets

CONSTANTS Messages,       \* what the Runner has to answer
          Threads,        \* those that came from a thread
          MaxRetries,     \* attempts of one call
          MaxConcurrent

ASSUME SenderAssumption ==
  /\ Threads \subseteq Messages
  /\ MaxRetries \in Nat \ {0}
  /\ MaxConcurrent \in Nat \ {0}

VARIABLES
  call,     \* where the caller and its call are
  op,       \* the call: send_thinking, send or update_card, send_text
  attempt,  \* the attempt in hand, from 1
  cardId,   \* the caller knows the id of a thinking card
  created,  \* cards that appeared in the chat, per message and call (history)
  unheard   \* of those, the ones whose answer was lost (history)

senderVars == <<call, op, attempt, cardId, created, unheard>>

Ops == {"thinking", "reply", "update", "apology"}
CallStates == {"new", "waiting", "request", "backoff", "thinks", "answered"}
InSlot == {m \in Messages : call[m] \in {"request", "backoff"}}

SenderInit ==
  /\ call = [m \in Messages |-> "new"]
  /\ op = [m \in Messages |-> "thinking"]
  /\ attempt = [m \in Messages |-> 1]
  /\ cardId = [m \in Messages |-> FALSE]
  /\ created = [m \in Messages |-> [o \in Ops |-> 0]]
  /\ unheard = [m \in Messages |-> [o \in Ops |-> 0]]

Goto(m, state) == call' = [call EXCEPT ![m] = state]

\* The call waits for a slot.
Begin(m, o) ==
  /\ Goto(m, "waiting")
  /\ op' = [op EXCEPT ![m] = o]
  /\ attempt' = [attempt EXCEPT ![m] = 1]

SendThinking(m) ==
  /\ call[m] = "new"
  /\ Begin(m, "thinking")
  /\ UNCHANGED <<cardId, created, unheard>>

\* The agent has a reply, a refusal or an error text.
SendReply(m) ==
  /\ call[m] = "thinks"
  /\ Begin(m, IF cardId[m] THEN "update" ELSE "reply")
  /\ UNCHANGED <<cardId, created, unheard>>

EnterSlot(m) ==
  /\ call[m] = "waiting"
  /\ Cardinality(InSlot) < MaxConcurrent
  /\ Goto(m, "request")
  /\ UNCHANGED <<op, attempt, cardId, created, unheard>>

\* Mutant: waiting does not use up an attempt.
AwaitBackoffUncounted(m) ==
  /\ call[m] = "backoff"
  /\ Goto(m, "request")
  /\ UNCHANGED <<op, attempt, cardId, created, unheard>>

AwaitBackoff(m) ==
  /\ call[m] = "backoff"
  /\ Goto(m, "request")
  /\ attempt' = [attempt EXCEPT ![m] = @ + 1]
  /\ UNCHANGED <<op, cardId, created, unheard>>

Creates(o) == o # "update"

\* The call returns, with an id or without one.
Return(m, id) ==
  /\ Goto(m, IF op[m] = "thinking" THEN "thinks" ELSE "answered")
  /\ cardId' = [cardId EXCEPT ![m] = IF op[m] = "thinking" THEN id ELSE @]
  /\ UNCHANGED <<op, attempt>>

\* The call raises.  Nobody hears of it but for a reply: if that was an answer, and not a
\* refusal or an error text, an apology follows.
Raise(m) ==
  \/ Return(m, FALSE)
  \/ op[m] = "reply" /\ Begin(m, "apology") /\ UNCHANGED cardId

Again(m) == /\ attempt[m] < MaxRetries
            /\ Goto(m, "backoff")
            /\ UNCHANGED <<op, attempt, cardId>>

\* Done, and the answer arrives.
Succeeds(m) ==
  /\ call[m] = "request" /\ m \notin Threads
  /\ created' = IF Creates(op[m]) THEN [created EXCEPT ![m][op[m]] = @ + 1] ELSE created
  /\ Return(m, TRUE)
  /\ UNCHANGED unheard

Excepts(m) == Again(m) \/ (attempt[m] = MaxRetries /\ Raise(m))

\* Done, but the client raises: the caller cannot know.
AnswerLost(m) ==
  /\ call[m] = "request" /\ m \notin Threads
  /\ created' = IF Creates(op[m]) THEN [created EXCEPT ![m][op[m]] = @ + 1] ELSE created
  /\ unheard' = IF Creates(op[m]) THEN [unheard EXCEPT ![m][op[m]] = @ + 1] ELSE unheard
  /\ Excepts(m)

RequestFails(m) ==
  /\ call[m] = "request"
  /\ Excepts(m)
  /\ UNCHANGED <<created, unheard>>

\* A rate limit code: create tries again, and on its last attempt returns no id.
\* A patch treats every code alike.
RateLimited(m) ==
  /\ call[m] = "request"
  /\ \/ Again(m)
     \/ attempt[m] = MaxRetries /\ Return(m, FALSE)
  /\ UNCHANGED <<created, unheard>>

\* Mutant: an answer without an id is taken for a failure and tried again.
RefusedAgain(m) ==
  /\ call[m] = "request"
  /\ \/ Again(m)
     \/ attempt[m] = MaxRetries /\ Return(m, FALSE)
  /\ created' = [created EXCEPT ![m][op[m]] = @ + 1]
  /\ UNCHANGED unheard

\* Any other code: create returns at once as if it had succeeded, without an id.
Refused(m) ==
  /\ call[m] = "request"
  /\ IF Creates(op[m])
     THEN Return(m, FALSE)
     ELSE Again(m) \/ (attempt[m] = MaxRetries /\ Return(m, FALSE))
  /\ UNCHANGED <<created, unheard>>

SenderStep(m) ==
  \/ EnterSlot(m) \/ AwaitBackoff(m) \/ SendReply(m)
  \/ Succeeds(m) \/ AnswerLost(m) \/ RequestFails(m) \/ RateLimited(m) \/ Refused(m)

SenderNext == \E m \in Messages : SendThinking(m) \/ SenderStep(m)

SenderSpec == SenderInit /\ [][SenderNext]_senderVars

\* The agent ends, and a request to Feishu is answered or raises; nobody is obliged to write.
FairSenderSpec == SenderSpec /\ \A m \in Messages : WF_senderVars(SenderStep(m))

-----------------------------------------------------------------------------
SenderTypeOK ==
  /\ call \in [Messages -> CallStates]
  /\ op \in [Messages -> Ops]
  /\ attempt \in [Messages -> 1..MaxRetries]
  /\ cardId \in [Messages -> BOOLEAN]
  /\ created \in [Messages -> [Ops -> Nat]]
  /\ unheard \in [Messages -> [Ops -> Nat]]

\* Retries repeat a card in the chat only when the answer to an earlier attempt was lost:
\* one card more than lost answers at most, for each call.
DuplicatesNeedLostAnswers ==
  \A m \in Messages, o \in Ops : created[m][o] <= unheard[m][o] + 1

\* Every call comes to an end, whoever holds the slots and whatever Feishu answers.
AnswersEnd == \A m \in Messages : call[m] = "waiting" ~> call[m] = "answered"

=============================================================================
