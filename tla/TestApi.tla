-------------------------------- MODULE TestApi --------------------------------
(***************************************************************************)
(* xiaopaw/api: the HTTP front end of the end-to-end tests.  A request is  *)
(* a message for the Runner and a future in CaptureSender._futures; what   *)
(* the Runner sends resolves the first future that is not done, whichever  *)
(* message it answers.                                                     *)
(*                                                                         *)
(* The Runner is seen as in KeyedQueues: a bounded queue for each key and  *)
(* one message in hand, with the loss that Runner's LossOnlyAtIdleExit     *)
(* leaves.  A message is answered once, and a second time (an apology) if  *)
(* append() fails after the reply, see Turn; send_thinking gives no card.  *)
(* A request of a client that has gone is handled to the end.  Shutdown,   *)
(* authorisation and malformed bodies are left out, and so is the session  *)
(* id of the response (get_or_create and clear_all are in Sessions).       *)
(*                                                                         *)
(* _futures is a dictionary: the set of the requests whose future it holds *)
(* and, for its order, each request's place in it.                         *)
(***************************************************************************)
EXTENDS Naturals, Sequences, FiniteSets

CONSTANTS Requests, Keys, KeyOf,
          Ids, IdOf,     \* msg_id: the client's, or a new one
          MaxQueueSize, None

ASSUME TestApiAssumption ==
  /\ KeyOf \in [Requests -> Keys]
  /\ IdOf \in [Requests -> Ids]
  /\ MaxQueueSize \in Nat \ {0}
  /\ None \notin Requests

VARIABLES
  pc,        \* the handler of each request
  futures,   \* _futures: the requests whose futures it holds, one for an id
  place,     \* where each has been put in its order
  arrivals,  \* requests registered so far, of which the latest has the last place
  future,    \* the future of each request
  reply,     \* whose answer it was resolved with
  queue,     \* the Runner's queue of each key
  hand,      \* the message each worker handles
  answered,  \* messages answered (history)
  mixed,     \* something happened that lets answers go astray (history)
  short      \* a message or a future was dropped (history)

http == <<pc, futures, place, arrivals, future, reply>>
runner == <<queue, hand>>
vars == <<http, runner, answered, mixed, short>>

Init ==
  /\ pc = [r \in Requests |-> "idle"]
  /\ futures = {} /\ place = [r \in Requests |-> 0] /\ arrivals = 0
  /\ future = [r \in Requests |-> "none"]
  /\ reply = [r \in Requests |-> None]
  /\ queue = [k \in Keys |-> <<>>]
  /\ hand = [k \in Keys |-> None]
  /\ answered = {} /\ mixed = FALSE /\ short = FALSE

Goto(r, where) == pc' = [pc EXCEPT ![r] = where]

-----------------------------------------------------------------------------
Namesakes(r) == {q \in futures : IdOf[q] = IdOf[r]}
Reused(r) == Namesakes(r) # {}

\* Mutant: one future at a time, as in docs/04-api.md.
RegisteredAlone(r) == {r}

\* register(): an id that is there already keeps its place and changes its future.
Registered(r) == (futures \ Namesakes(r)) \cup {r}
PlaceOf(r) == IF Reused(r) THEN place[CHOOSE q \in Namesakes(r) : TRUE] ELSE arrivals + 1

Unanswered(k) == queue[k] # <<>> \/ (hand[k] # None /\ hand[k] \notin answered)
Full(k) == Len(queue[k]) >= MaxQueueSize

\* _handle_message() up to wait_for_reply(): dispatch() does not suspend.
Request(r) ==
  LET k == KeyOf[r]
  IN /\ pc[r] = "idle"
     /\ Goto(r, "waiting")
     /\ futures' = Registered(r)
     /\ place' = [place EXCEPT ![r] = PlaceOf(r)]
     /\ arrivals' = arrivals + 1
     /\ future' = [future EXCEPT ![r] = "pending"]
     /\ queue' = IF Full(k) THEN queue ELSE [queue EXCEPT ![k] = Append(@, r)]
     /\ short' = (short \/ Full(k) \/ Reused(r))
     /\ mixed' = (mixed \/ Full(k) \/ Reused(r) \/ \E j \in Keys \ {k} : Unanswered(j))
     /\ UNCHANGED <<reply, hand, answered>>

\* The timer of wait_for_reply.  Python 3.12 may forget a result that has just arrived.
TimerFires(r) ==
  /\ pc[r] = "waiting"
  /\ Goto(r, "timeout")
  /\ future' = [future EXCEPT ![r] = IF @ = "pending" THEN "cancelled" ELSE @]
  /\ mixed' = (mixed \/ future[r] = "pending")
  /\ UNCHANGED <<futures, place, arrivals, reply, runner, answered, short>>

\* The handler resumes with the answer or with "[timeout]", and takes its id, whoever
\* has it by now, out of the dictionary.
Respond(r) ==
  /\ pc[r] = "timeout" \/ (pc[r] = "waiting" /\ future[r] = "resolved")
  /\ Goto(r, "done")
  /\ futures' = futures \ Namesakes(r)
  /\ UNCHANGED <<place, arrivals, future, reply, runner, answered, mixed, short>>

-----------------------------------------------------------------------------
Pending == {q \in futures : future[q] = "pending"}

Resolve(r, m) ==
  /\ future' = [future EXCEPT ![r] = "resolved"]
  /\ reply' = [reply EXCEPT ![r] = m]

\* Mutant: the newest request gets the answer.
SendToLast(m) ==
  \/ Pending = {} /\ UNCHANGED <<future, reply>>
  \/ \E r \in Pending : (\A q \in Pending : place[q] <= place[r]) /\ Resolve(r, m)

\* CaptureSender.send(), also as send_text().
Send(m) ==
  \/ Pending = {} /\ UNCHANGED <<future, reply>>
  \/ \E r \in Pending : (\A q \in Pending : place[r] <= place[q]) /\ Resolve(r, m)

Take(k) ==
  /\ hand[k] = None /\ queue[k] # <<>>
  /\ hand' = [hand EXCEPT ![k] = Head(queue[k])]
  /\ queue' = [queue EXCEPT ![k] = Tail(@)]
  /\ UNCHANGED <<http, answered, mixed, short>>

\* A reply, the answer to a command, a refusal or an error text.
Answer(k) ==
  /\ hand[k] # None /\ hand[k] \notin answered
  /\ Send(hand[k])
  /\ answered' = answered \cup {hand[k]}
  /\ UNCHANGED <<pc, futures, place, arrivals, runner, mixed, short>>

EndTurn(k) ==
  /\ hand[k] \in answered
  /\ hand' = [hand EXCEPT ![k] = None]
  /\ UNCHANGED <<http, queue, answered, mixed, short>>

\* The turn is answered but cannot be saved: an error text follows.
AppendFails(k) ==
  /\ hand[k] \in answered
  /\ Send(hand[k])
  /\ hand' = [hand EXCEPT ![k] = None]
  /\ mixed' = (mixed \/ Pending # {})
  /\ UNCHANGED <<pc, futures, place, arrivals, queue, answered, short>>

\* The worker leaves on its idle timer although a message has just come in.
IdleExit(k) ==
  /\ hand[k] = None /\ queue[k] # <<>>
  /\ queue' = [queue EXCEPT ![k] = <<>>]
  /\ mixed' = TRUE /\ short' = TRUE
  /\ UNCHANGED <<http, hand, answered>>

Next ==
  \/ \E r \in Requests : Request(r) \/ TimerFires(r) \/ Respond(r)
  \/ \E k \in Keys : Take(k) \/ Answer(k) \/ EndTurn(k) \/ AppendFails(k) \/ IdleExit(k)

Spec == Init /\ [][Next]_vars

-----------------------------------------------------------------------------
\* Requests to one key get their own answers, however many wait at a time, and every message
\* that was answered has reached its request.  Answers go astray only after messages of two
\* keys overlapped, a message was lost, a request timed out, an id was used twice, or an
\* apology followed a reply while others waited.
OwnAnswer ==
  ~mixed => \A r \in Requests : reply[r] = (IF r \in answered THEN r ELSE None)

Waiting == {r \in Requests : future[r] = "pending"}
Owed == {r \in Requests : r \notin answered /\ \E k \in Keys :
           hand[k] = r \/ \E i \in DOMAIN queue[k] : queue[k][i] = r}

\* Answers may be exchanged, but they suffice: as long as no message was lost and no id used
\* twice, as many messages are still to be answered as requests wait, late answers to
\* requests that timed out and second answers to one message notwithstanding.
AnswersSuffice == ~short => Cardinality(Waiting) <= Cardinality(Owed)

=============================================================================
