--------------------------- MODULE TestApiProofs ---------------------------
(***************************************************************************)
(* Proofs about TestApi, for every set of requests, keys and ids and every *)
(* size of the queues.                                                     *)
(***************************************************************************)
EXTENDS TestApi, FiniteSetTheorems, TLAPS

TypeOK ==
  /\ pc \in [Requests -> {"idle", "waiting", "timeout", "done"}]
  /\ futures \in SUBSET Requests
  /\ place \in [Requests -> Nat] /\ arrivals \in Nat
  /\ future \in [Requests -> {"none", "pending", "resolved", "cancelled"}]
  /\ reply \in [Requests -> Requests \cup {None}]
  /\ queue \in [Keys -> Seq(Requests)]
  /\ hand \in [Keys -> Requests \cup {None}]
  /\ answered \in SUBSET Requests
  /\ mixed \in BOOLEAN /\ short \in BOOLEAN

InQueue(r, k) == \E i \in DOMAIN queue[k] : queue[k][i] = r

\* A request that has not come yet is nowhere; one that waits has not given up.
ArrivalInv ==
  \A r \in Requests :
    /\ pc[r] = "idle" => /\ future[r] = "none" /\ r \notin answered /\ reply[r] = None
                         /\ \A k \in Keys : hand[k] # r /\ ~InQueue(r, k)
    /\ future[r] = "pending" => pc[r] = "waiting"
    /\ place[r] <= arrivals

\* One future for an id; until an id is used twice nobody's is taken away too early.
DictInv ==
  /\ \A q, r \in futures : IdOf[q] = IdOf[r] => q = r
  /\ ~short => \A r \in Requests : pc[r] \in {"waiting", "timeout"} => r \in futures

\* Requests that wait and messages to be answered keep step.
CountInv ==
  /\ IsFiniteSet(Waiting) /\ IsFiniteSet(Owed)
  /\ AnswersSuffice

\* While nothing is mixed, the open futures are the messages to be answered: those of one
\* key, in the order of their places.
OrderInv ==
  /\ short => mixed
  /\ ~mixed =>
       /\ Waiting = Owed
       /\ \A j, k \in Keys : Unanswered(j) /\ Unanswered(k) => j = k
       /\ \A k \in Keys : \A i \in DOMAIN queue[k] :
            /\ hand[k] # None => place[hand[k]] < place[queue[k][i]]
            /\ \A h \in DOMAIN queue[k] : h < i => place[queue[k][h]] < place[queue[k][i]]

TestApiInv == ArrivalInv /\ DictInv /\ CountInv /\ OrderInv /\ OwnAnswer
-----------------------------------------------------------------------------
(***************************************************************************)
(* Types, queues and what one send does.                                   *)
(***************************************************************************)

LEMMA ConstantFacts ==
  /\ KeyOf \in [Requests -> Keys] /\ IdOf \in [Requests -> Ids]
  /\ MaxQueueSize \in Nat /\ None \notin Requests
BY TestApiAssumption DEF TestApiAssumption

LEMMA QueueType ==
  ASSUME TypeOK, NEW k \in Keys
  PROVE  /\ queue[k] \in Seq(Requests)
         /\ Len(queue[k]) \in Nat /\ DOMAIN queue[k] = 1 .. Len(queue[k])
         /\ \A i \in DOMAIN queue[k] : queue[k][i] \in Requests
<1> DEFINE q == queue[k]
<1>1. q \in Seq(Requests)
  BY DEF TypeOK
<1>2. Len(q) \in Nat /\ DOMAIN q = 1 .. Len(q)
  BY <1>1
<1>3. ASSUME NEW i \in DOMAIN q PROVE q[i] \in Requests
  <2> HIDE DEF q
  <2> QED
    BY <1>1, <1>2
<1> QED
  BY <1>1, <1>2, <1>3

\* The future that send() resolves, if there is an open one, is the first of them.
LEMMA SendResolvesOne ==
  ASSUME TypeOK, NEW m \in Requests, Send(m)
  PROVE  \/ Pending = {} /\ UNCHANGED <<future, reply>>
         \/ \E r \in Pending : /\ \A q \in Pending : place[r] <= place[q]
                              /\ future' = [future EXCEPT ![r] = "resolved"]
                              /\ reply' = [reply EXCEPT ![r] = m]
                              /\ Waiting' = Waiting \ {r} /\ r \in Waiting
<1>1. CASE Pending = {} /\ UNCHANGED <<future, reply>>
  BY <1>1
<1>2. ASSUME NEW r \in Pending, \A q \in Pending : place[r] <= place[q], Resolve(r, m)
      PROVE  /\ future' = [future EXCEPT ![r] = "resolved"]
             /\ reply' = [reply EXCEPT ![r] = m]
             /\ Waiting' = Waiting \ {r} /\ r \in Waiting
  <2>1. r \in Requests /\ future[r] = "pending"
    BY DEF Pending, TypeOK
  <2>2. \A q \in Requests : future'[q] = IF q = r THEN "resolved" ELSE future[q]
    BY <1>2, <2>1 DEF Resolve, TypeOK
  <2> QED
    BY <1>2, <2>1, <2>2 DEF Resolve, Waiting
<1> QED
  BY <1>1, <1>2 DEF Send

LEMMA TypeInit == Init => TypeOK
<1> SUFFICES ASSUME Init PROVE TypeOK
  OBVIOUS
<1>1. <<>> \in Seq(Requests)
  OBVIOUS
<1>2. queue \in [Keys -> Seq(Requests)]
  BY <1>1 DEF Init
<1> QED
  BY <1>2 DEF Init, TypeOK

LEMMA TypeNext == TypeOK /\ [Next]_vars => TypeOK'
<1> SUFFICES ASSUME TypeOK, [Next]_vars PROVE TypeOK'
  OBVIOUS
<1> USE ConstantFacts
<1>1. ASSUME NEW r \in Requests, Request(r) PROVE TypeOK'
  <2>1. KeyOf[r] \in Keys /\ Append(queue[KeyOf[r]], r) \in Seq(Requests)
    BY QueueType
  <2>2. queue' \in [Keys -> Seq(Requests)]
    BY <1>1, <2>1 DEF Request, TypeOK
  <2>3. PlaceOf(r) \in Nat
    <3>1. Reused(r) => (CHOOSE q \in Namesakes(r) : TRUE) \in futures
      BY DEF Reused, Namesakes
    <3> QED
      BY <3>1 DEF PlaceOf, TypeOK
  <2>4. futures' \in SUBSET Requests
    BY <1>1 DEF Request, Registered, TypeOK
  <2> QED
    BY <1>1, <2>2, <2>3, <2>4 DEF Request, Goto, TypeOK
<1>2. ASSUME NEW r \in Requests, TimerFires(r) PROVE TypeOK'
  BY <1>2 DEF TimerFires, Goto, TypeOK, runner
<1>3. ASSUME NEW r \in Requests, Respond(r) PROVE TypeOK'
  BY <1>3 DEF Respond, Goto, TypeOK, runner
<1>4. ASSUME NEW m \in Requests, Send(m)
      PROVE  /\ future' \in [Requests -> {"none", "pending", "resolved", "cancelled"}]
             /\ reply' \in [Requests -> Requests \cup {None}]
  <2>1. CASE UNCHANGED <<future, reply>>
    BY <2>1 DEF TypeOK
  <2>2. ASSUME NEW r \in Pending, Resolve(r, m)
        PROVE  /\ future' \in [Requests -> {"none", "pending", "resolved", "cancelled"}]
               /\ reply' \in [Requests -> Requests \cup {None}]
    BY <2>2 DEF Resolve, TypeOK
  <2> QED
    BY <1>4, <2>1, <2>2 DEF Send
<1>5. ASSUME NEW k \in Keys, Take(k) PROVE TypeOK'
  <2>1. Head(queue[k]) \in Requests /\ Tail(queue[k]) \in Seq(Requests)
    BY <1>5, QueueType DEF Take
  <2> QED
    BY <1>5, <2>1 DEF Take, TypeOK, http
<1>6. ASSUME NEW k \in Keys, Answer(k) PROVE TypeOK'
  BY <1>4, <1>6 DEF Answer, TypeOK, runner
<1>7. ASSUME NEW k \in Keys, EndTurn(k) PROVE TypeOK'
  BY <1>7 DEF EndTurn, TypeOK, http
<1>8. ASSUME NEW k \in Keys, AppendFails(k) PROVE TypeOK'
  BY <1>4, <1>8 DEF AppendFails, TypeOK
<1>9. ASSUME NEW k \in Keys, IdleExit(k) PROVE TypeOK'
  <2>1. <<>> \in Seq(Requests)
    OBVIOUS
  <2> QED
    BY <1>9, <2>1 DEF IdleExit, TypeOK, http
<1>10. CASE UNCHANGED vars
  BY <1>10 DEF vars, http, runner, TypeOK
<1> QED
  BY <1>1, <1>2, <1>3, <1>5, <1>6, <1>7, <1>8, <1>9, <1>10 DEF Next

\* What a step does to the queues, as sets.
LEMMA RequestQueues ==
  ASSUME TypeOK, NEW r \in Requests, Request(r)
  PROVE  \A q \in Requests : \A k \in Keys :
           InQueue(q, k)' <=> InQueue(q, k) \/ (q = r /\ k = KeyOf[r] /\ ~Full(k))
<1> TAKE q \in Requests
<1> TAKE k \in Keys
<1>1. CASE k = KeyOf[r] /\ ~Full(k)
  <2>1. queue'[k] = Append(queue[k], r)
    BY <1>1 DEF Request, TypeOK
  <2> DEFINE n == Len(queue[k])
  <2>2. /\ n \in Nat /\ DOMAIN queue[k] = 1 .. n /\ DOMAIN queue'[k] = 1 .. n + 1
        /\ \A i \in 1 .. n : queue'[k][i] = queue[k][i]
        /\ queue'[k][n + 1] = r
    BY <2>1, QueueType
  <2> HIDE DEF n
  <2>3. \A i : i \in 1 .. n + 1 <=> i \in 1 .. n \/ i = n + 1
    BY <2>2
  <2> QED
    BY <1>1, <2>2, <2>3 DEF InQueue
<1>2. CASE ~(k = KeyOf[r] /\ ~Full(k))
  <2>1. queue'[k] = queue[k]
    BY <1>2, ConstantFacts DEF Request, TypeOK
  <2> QED
    BY <1>2, <2>1 DEF InQueue
<1> QED
  BY <1>1, <1>2

LEMMA TakeQueues ==
  ASSUME TypeOK, NEW j \in Keys, Take(j)
  PROVE  /\ hand'[j] = queue[j][1] /\ hand'[j] \in Requests
         /\ Len(queue[j]) > 0
         /\ DOMAIN queue'[j] = 1 .. Len(queue[j]) - 1
         /\ \A i \in 1 .. Len(queue[j]) - 1 : queue'[j][i] = queue[j][i + 1]
         /\ \A q \in Requests : hand'[j] = q \/ InQueue(q, j)' <=> InQueue(q, j)
         /\ \A k \in Keys \ {j} : hand'[k] = hand[k] /\ queue'[k] = queue[k]
<1>1. /\ hand[j] = None /\ queue[j] # <<>> /\ hand'[j] = Head(queue[j]) /\ queue'[j] = Tail(queue[j])
      /\ \A k \in Keys \ {j} : hand'[k] = hand[k] /\ queue'[k] = queue[k]
  BY DEF Take, TypeOK
<1> DEFINE n == Len(queue[j])
<1>2. n \in Nat /\ DOMAIN queue[j] = 1 .. n /\ \A i \in DOMAIN queue[j] : queue[j][i] \in Requests
  BY QueueType
<1>3. /\ n > 0 /\ hand'[j] = queue[j][1] /\ DOMAIN queue'[j] = 1 .. n - 1
      /\ \A i \in 1 .. n - 1 : queue'[j][i] = queue[j][i + 1]
  BY <1>1, QueueType
<1> HIDE DEF n
<1>4. hand'[j] \in Requests
  BY <1>2, <1>3
<1>5. ASSUME NEW q \in Requests PROVE hand'[j] = q \/ InQueue(q, j)' <=> InQueue(q, j)
  <2>1. ASSUME InQueue(q, j) PROVE hand'[j] = q \/ InQueue(q, j)'
    <3>1. PICK i \in 1 .. n : queue[j][i] = q
      BY <1>2, <2>1 DEF InQueue
    <3>2. i = 1 \/ (i - 1 \in 1 .. n - 1 /\ i - 1 + 1 = i)
      BY <1>2
    <3> QED
      BY <1>3, <3>1, <3>2 DEF InQueue
  <2>2. ASSUME InQueue(q, j)' PROVE InQueue(q, j)
    <3>1. PICK i \in 1 .. n - 1 : queue'[j][i] = q
      BY <1>3, <2>2 DEF InQueue
    <3>2. i + 1 \in 1 .. n /\ queue[j][i + 1] = q
      BY <1>2, <1>3, <3>1
    <3> QED
      BY <1>2, <3>2 DEF InQueue
  <2>3. 1 \in 1 .. n
    BY <1>2, <1>3
  <2> QED
    BY <1>2, <1>3, <2>1, <2>2, <2>3 DEF InQueue
<1> QED
  BY <1>1, <1>3, <1>4, <1>5 DEF n
-----------------------------------------------------------------------------
(***************************************************************************)
(* Requests and the dictionary.                                            *)
(***************************************************************************)

LEMMA ArrivalNext ==
  ASSUME TypeOK, TypeOK', ArrivalInv, [Next]_vars
  PROVE  ArrivalInv'
<1> USE ConstantFacts
<1>1. ASSUME NEW r \in Requests, Request(r) PROVE ArrivalInv'
  <2>1. \A q \in Requests : place[q] <= arrivals /\ place[q] \in Nat /\ arrivals \in Nat
    BY DEF ArrivalInv, TypeOK
  <2>2. PlaceOf(r) <= arrivals + 1
    <3>1. Reused(r) => (CHOOSE q \in Namesakes(r) : TRUE) \in Requests
      BY DEF Reused, Namesakes, TypeOK
    <3> QED
      BY <2>1, <3>1 DEF PlaceOf
  <2>3. place' = [place EXCEPT ![r] = PlaceOf(r)] /\ arrivals' = arrivals + 1
    BY <1>1 DEF Request
  <2>4. \A q \in Requests : place'[q] <= arrivals'
    <3>1. TAKE q \in Requests
    <3>2. place'[q] = IF q = r THEN PlaceOf(r) ELSE place[q]
      BY <2>3 DEF TypeOK
    <3> QED
      BY <2>1, <2>2, <2>3, <3>2
  <2>5. /\ pc' = [pc EXCEPT ![r] = "waiting"] /\ future' = [future EXCEPT ![r] = "pending"]
        /\ answered' = answered /\ reply' = reply /\ hand' = hand
    BY <1>1 DEF Request, Goto
  <2>6. ASSUME NEW q \in Requests, pc'[q] = "idle"
        PROVE  /\ future'[q] = "none" /\ q \notin answered' /\ reply'[q] = None
               /\ \A k \in Keys : hand'[k] # q /\ ~InQueue(q, k)'
    <3>1. q # r /\ pc[q] = "idle"
      BY <2>5, <2>6 DEF TypeOK
    <3> QED
      BY <1>1, <2>5, <3>1, RequestQueues DEF ArrivalInv, TypeOK
  <2>7. \A q \in Requests : future'[q] = "pending" => pc'[q] = "waiting"
    BY <2>5 DEF ArrivalInv, TypeOK
  <2> QED
    BY <2>4, <2>6, <2>7 DEF ArrivalInv
<1>2. ASSUME NEW r \in Requests, TimerFires(r) PROVE ArrivalInv'
  <2>1. /\ pc[r] = "waiting" /\ pc' = [pc EXCEPT ![r] = "timeout"]
        /\ future' = [future EXCEPT ![r] = IF @ = "pending" THEN "cancelled" ELSE @]
        /\ UNCHANGED <<place, arrivals, reply, queue, hand, answered>>
    BY <1>2 DEF TimerFires, Goto, runner
  <2>2. future'[r] # "pending" /\ \A q \in Requests \ {r} : pc'[q] = pc[q] /\ future'[q] = future[q]
    BY <2>1 DEF TypeOK
  <2>3. pc'[r] = "timeout"
    BY <2>1 DEF TypeOK
  <2> QED
    BY <2>1, <2>2, <2>3 DEF ArrivalInv, InQueue
<1>3. ASSUME NEW r \in Requests, Respond(r) PROVE ArrivalInv'
  <2>1. /\ pc' = [pc EXCEPT ![r] = "done"]
        /\ UNCHANGED <<place, arrivals, future, reply, queue, hand, answered>>
        /\ pc[r] # "idle" /\ future[r] # "pending"
    BY <1>3 DEF Respond, Goto, runner, ArrivalInv
  <2>2. pc'[r] = "done" /\ \A q \in Requests \ {r} : pc'[q] = pc[q]
    BY <2>1 DEF TypeOK
  <2> QED
    BY <2>1, <2>2 DEF ArrivalInv, InQueue
<1>4. ASSUME NEW m \in Requests, Send(m), UNCHANGED <<pc, place, arrivals>>,
             \A q \in Requests : \A k \in Keys : InQueue(q, k)' => InQueue(q, k),
             \A k \in Keys : hand'[k] \in {hand[k], None},
             answered' \ answered \subseteq {m}, pc[m] # "idle"
      PROVE  ArrivalInv'
  <2>1. \A q \in Requests : pc[q] = "idle" => future'[q] = future[q] /\ reply'[q] = reply[q]
    <3>1. \A q \in Waiting : pc[q] # "idle"
      BY DEF ArrivalInv, Waiting
    <3>2. CASE UNCHANGED <<future, reply>>
      BY <3>2
    <3>3. ASSUME NEW r \in Waiting, future' = [future EXCEPT ![r] = "resolved"],
                 reply' = [reply EXCEPT ![r] = m]
          PROVE  \A q \in Requests : pc[q] = "idle" => future'[q] = future[q] /\ reply'[q] = reply[q]
      BY <3>1, <3>3 DEF TypeOK
    <3> QED
      BY <1>4, <3>2, <3>3, SendResolvesOne
  <2>2. \A q \in Requests : future'[q] = "pending" => future[q] = "pending"
    BY <1>4, SendResolvesOne DEF TypeOK
  <2> QED
    BY <1>4, <2>1, <2>2 DEF ArrivalInv, TypeOK
<1>5. ASSUME NEW k \in Keys, hand[k] # None PROVE hand[k] \in Requests /\ pc[hand[k]] # "idle"
  BY <1>5 DEF ArrivalInv, TypeOK
<1>6. ASSUME NEW k \in Keys, Take(k) PROVE ArrivalInv'
  <2>1. UNCHANGED <<pc, place, arrivals, future, reply, answered>>
    BY <1>6 DEF Take, http
  <2>2. ASSUME NEW q \in Requests, pc[q] = "idle", NEW j \in Keys
        PROVE  hand'[j] # q /\ ~InQueue(q, j)'
    <3>1. hand[j] # q /\ ~InQueue(q, j)
      BY <2>2 DEF ArrivalInv
    <3>2. CASE j = k
      BY <1>6, <3>1, <3>2, TakeQueues
    <3>3. CASE j # k
      BY <1>6, <3>1, <3>3, TakeQueues DEF InQueue
    <3> QED
      BY <3>2, <3>3
  <2> QED
    BY <2>1, <2>2 DEF ArrivalInv
<1>7. ASSUME NEW k \in Keys, Answer(k) PROVE ArrivalInv'
  BY <1>4, <1>5, <1>7 DEF Answer, runner, InQueue
<1>8. ASSUME NEW k \in Keys, EndTurn(k) \/ IdleExit(k) PROVE ArrivalInv'
  <2>1. UNCHANGED <<pc, place, arrivals, future, reply, answered>>
    BY <1>8 DEF EndTurn, IdleExit, http
  <2>2. \A j \in Keys : hand'[j] \in {hand[j], None} /\ queue'[j] \in {queue[j], <<>>}
    BY <1>8 DEF EndTurn, IdleExit, TypeOK
  <2>3. \A q \in Requests : \A j \in Keys : InQueue(q, j)' => InQueue(q, j)
    BY <2>2 DEF InQueue
  <2> QED
    BY <2>1, <2>2, <2>3 DEF ArrivalInv
<1>9. ASSUME NEW k \in Keys, AppendFails(k) PROVE ArrivalInv'
  <2>1. hand[k] # None /\ Send(hand[k]) /\ UNCHANGED <<pc, place, arrivals, queue, answered>>
    BY <1>9 DEF AppendFails, TypeOK
  <2>2. \A j \in Keys : hand'[j] \in {hand[j], None}
    BY <1>9 DEF AppendFails, TypeOK
  <2> QED
    BY <1>4, <1>5, <2>1, <2>2 DEF InQueue
<1>10. CASE UNCHANGED vars
  BY <1>10 DEF vars, http, runner, ArrivalInv, InQueue
<1> QED
  BY <1>1, <1>2, <1>3, <1>6, <1>7, <1>8, <1>9, <1>10 DEF Next

LEMMA DictNext ==
  ASSUME TypeOK, DictInv, ArrivalInv, [Next]_vars
  PROVE  DictInv'
<1> USE ConstantFacts
<1>1. ASSUME NEW r \in Requests, Request(r) PROVE DictInv'
  <2>1. /\ futures' = (futures \ Namesakes(r)) \cup {r} /\ pc' = [pc EXCEPT ![r] = "waiting"]
        /\ short' = (short \/ Full(KeyOf[r]) \/ Reused(r))
    BY <1>1 DEF Request, Registered, Goto
  <2>2. \A q, p \in futures' : IdOf[q] = IdOf[p] => q = p
    BY <2>1 DEF DictInv, Namesakes
  <2>3. ASSUME ~short', NEW q \in Requests, pc'[q] \in {"waiting", "timeout"}
        PROVE  q \in futures'
    <3>1. ~short /\ Namesakes(r) = {}
      BY <2>1, <2>3 DEF Reused
    <3> QED
      BY <2>1, <2>3, <3>1 DEF DictInv, TypeOK
  <2> QED
    BY <2>2, <2>3 DEF DictInv
<1>2. ASSUME NEW r \in Requests, TimerFires(r) PROVE DictInv'
  BY <1>2 DEF TimerFires, Goto, DictInv, TypeOK
<1>3. ASSUME NEW r \in Requests, Respond(r) PROVE DictInv'
  <2>1. /\ futures' = futures \ Namesakes(r) /\ short' = short
        /\ pc[r] \in {"waiting", "timeout"} /\ pc' = [pc EXCEPT ![r] = "done"]
    BY <1>3 DEF Respond, Goto
  <2>2. ASSUME ~short, NEW q \in Requests, pc'[q] \in {"waiting", "timeout"}
        PROVE  q \in futures'
    <3>1. q # r /\ q \in futures /\ r \in futures
      BY <2>1, <2>2 DEF DictInv, TypeOK
    <3> QED
      BY <2>1, <3>1 DEF DictInv, Namesakes
  <2> QED
    BY <2>1, <2>2 DEF DictInv
<1>4. ASSUME NEW k \in Keys, Take(k) \/ Answer(k) \/ EndTurn(k) \/ AppendFails(k) \/ IdleExit(k)
      PROVE  DictInv'
  <2>1. futures' = futures /\ pc' = pc /\ (short => short')
    BY <1>4 DEF Take, Answer, EndTurn, AppendFails, IdleExit, http
  <2> QED
    BY <2>1 DEF DictInv
<1>5. CASE UNCHANGED vars
  BY <1>5 DEF vars, http, DictInv
<1> QED
  BY <1>1, <1>2, <1>3, <1>4, <1>5 DEF Next
-----------------------------------------------------------------------------
(***************************************************************************)
(* Requests that wait, and messages that are still to be answered.         *)
(***************************************************************************)

LEMMA OwedOf == \A r : r \in Owed <=> /\ r \in Requests /\ r \notin answered
                                      /\ \E k \in Keys : hand[k] = r \/ InQueue(r, k)
BY DEF Owed, InQueue

LEMMA RequestOwed ==
  ASSUME TypeOK, ArrivalInv, NEW r \in Requests, Request(r)
  PROVE  /\ r \notin Waiting /\ r \notin Owed
         /\ Waiting' = Waiting \cup {r}
         /\ Owed' = IF Full(KeyOf[r]) THEN Owed ELSE Owed \cup {r}
<1>1. /\ pc[r] = "idle" /\ future' = [future EXCEPT ![r] = "pending"]
      /\ answered' = answered /\ hand' = hand
  BY DEF Request
<1>2. /\ r \notin answered /\ future[r] = "none"
      /\ \A k \in Keys : hand[k] # r /\ ~InQueue(r, k)
  BY <1>1 DEF ArrivalInv
<1>3. \A q \in Requests : future'[q] = IF q = r THEN "pending" ELSE future[q]
  BY <1>1 DEF TypeOK
<1>4. Waiting' = Waiting \cup {r} /\ r \notin Waiting
  BY <1>2, <1>3 DEF Waiting
<1>5. r \notin Owed
  BY <1>2, OwedOf
<1>6. Owed' = IF Full(KeyOf[r]) THEN Owed ELSE Owed \cup {r}
  <2>1. ASSUME NEW q \in Requests
        PROVE  q \in Owed' <=> q \in Owed \/ (q = r /\ ~Full(KeyOf[r]))
    <3>1. (\E k \in Keys : hand'[k] = q \/ InQueue(q, k)')
            <=> (\E k \in Keys : hand[k] = q \/ InQueue(q, k)) \/ (q = r /\ ~Full(KeyOf[r]))
      BY <1>1, RequestQueues, ConstantFacts
    <3> QED
      BY <1>1, <1>2, <3>1, OwedOf DEF Owed, InQueue
  <2>2. Owed' \subseteq Requests /\ Owed \subseteq Requests
    BY DEF Owed
  <2> QED
    BY <2>1, <2>2
<1> QED
  BY <1>4, <1>5, <1>6

LEMMA TakeOwed ==
  ASSUME TypeOK, NEW k \in Keys, Take(k)
  PROVE  Owed' = Owed /\ Waiting' = Waiting
<1>1. answered' = answered /\ future' = future /\ hand[k] = None
  BY DEF Take, http
<1>2. ASSUME NEW q \in Requests, NEW j \in Keys
      PROVE  hand'[j] = q \/ InQueue(q, j)' <=> hand[j] = q \/ InQueue(q, j)
  <2>1. CASE j = k
    BY <1>1, <2>1, TakeQueues, ConstantFacts
  <2>2. CASE j # k
    BY <2>2, TakeQueues DEF InQueue
  <2> QED
    BY <2>1, <2>2
<1> QED
  BY <1>1, <1>2 DEF Owed, Waiting, InQueue

LEMMA AnswerOwed ==
  ASSUME TypeOK, NEW k \in Keys, Answer(k)
  PROVE  /\ hand[k] \in Owed
         /\ Owed' = Owed \ {hand[k]}
<1>1. /\ hand[k] \in Requests /\ hand[k] \notin answered /\ answered' = answered \cup {hand[k]}
      /\ UNCHANGED <<hand, queue>>
  BY DEF Answer, runner, TypeOK
<1> QED
  BY <1>1 DEF Owed

\* The end of a turn, also of one whose append() fails.
LEMMA EndOwed ==
  ASSUME TypeOK, NEW k \in Keys, hand[k] \in answered, hand' = [hand EXCEPT ![k] = None],
         UNCHANGED <<queue, answered>>
  PROVE  Owed' = Owed
<1>1. \A q \in Requests : q \notin answered =>
        \A j \in Keys : hand'[j] = q <=> hand[j] = q
  BY ConstantFacts DEF TypeOK
<1> QED
  BY <1>1 DEF Owed

LEMMA CountNext ==
  ASSUME TypeOK, ArrivalInv, DictInv, CountInv, [Next]_vars
  PROVE  CountInv'
<1>0. /\ IsFiniteSet(Waiting) /\ IsFiniteSet(Owed)
      /\ Cardinality(Waiting) \in Nat /\ Cardinality(Owed) \in Nat
      /\ ~short => Cardinality(Waiting) <= Cardinality(Owed)
  BY FS_CardinalityType DEF CountInv, AnswersSuffice
<1>1. ASSUME NEW r \in Requests, Request(r) PROVE CountInv'
  <2>1. /\ IsFiniteSet(Waiting \cup {r}) /\ Cardinality(Waiting \cup {r}) = Cardinality(Waiting) + 1
        /\ IsFiniteSet(Owed \cup {r}) /\ Cardinality(Owed \cup {r}) = Cardinality(Owed) + 1
    BY <1>0, <1>1, RequestOwed, FS_AddElement
  <2>2. ~short' => ~short /\ ~Full(KeyOf[r])
    BY <1>1 DEF Request
  <2> QED
    BY <1>0, <1>1, <2>1, <2>2, RequestOwed DEF CountInv, AnswersSuffice
<1>2. ASSUME Waiting' \subseteq Waiting, Owed' = Owed, short' = short PROVE CountInv'
  <2>1. /\ IsFiniteSet(Waiting') /\ Cardinality(Waiting') <= Cardinality(Waiting)
        /\ Cardinality(Waiting') \in Nat
    BY <1>0, <1>2, FS_Subset, FS_CardinalityType
  <2> QED
    BY <1>0, <1>2, <2>1 DEF CountInv, AnswersSuffice
<1>3. ASSUME NEW r \in Requests, TimerFires(r) PROVE CountInv'
  <2>1. /\ future' = [future EXCEPT ![r] = IF @ = "pending" THEN "cancelled" ELSE @]
        /\ UNCHANGED <<queue, hand, answered, short>>
    BY <1>3 DEF TimerFires, runner
  <2>2. Waiting' \subseteq Waiting /\ Owed' = Owed
    BY <2>1 DEF Waiting, Owed, TypeOK
  <2> QED
    BY <1>2, <2>1, <2>2
<1>4. ASSUME NEW r \in Requests, Respond(r) PROVE CountInv'
  BY <1>2, <1>4 DEF Respond, runner, Waiting, Owed
<1>5. ASSUME NEW k \in Keys, Take(k) PROVE CountInv'
  BY <1>2, <1>5, TakeOwed DEF Take
<1>6. ASSUME NEW k \in Keys, Answer(k) PROVE CountInv'
  <2>1. /\ hand[k] \in Owed /\ Owed' = Owed \ {hand[k]} /\ short' = short
        /\ hand[k] \in Requests /\ Send(hand[k])
    BY <1>6, AnswerOwed DEF Answer, TypeOK
  <2>2. IsFiniteSet(Owed') /\ Cardinality(Owed') = Cardinality(Owed) - 1
    BY <1>0, <2>1, FS_RemoveElement
  <2>3. CASE Pending = {} /\ UNCHANGED <<future, reply>>
    <3>1. Waiting' = Waiting
      BY <2>3 DEF Waiting
    <3>2. ~short => Waiting = {}
      BY <2>3 DEF Waiting, Pending, ArrivalInv, DictInv
    <3>3. Waiting = {} => Cardinality(Waiting) = 0
      BY <1>0, FS_EmptySet
    <3>4. Cardinality(Owed') \in Nat
      BY <2>2, FS_CardinalityType
    <3> QED
      BY <1>0, <2>1, <2>2, <3>1, <3>2, <3>3, <3>4 DEF CountInv, AnswersSuffice
  <2>4. ASSUME NEW r \in Pending, Waiting' = Waiting \ {r}, r \in Waiting PROVE CountInv'
    <3>1. IsFiniteSet(Waiting') /\ Cardinality(Waiting') = Cardinality(Waiting) - 1
      BY <1>0, <2>4, FS_RemoveElement
    <3> QED
      BY <1>0, <2>1, <2>2, <3>1 DEF CountInv, AnswersSuffice
  <2> QED
    BY <2>1, <2>3, <2>4, SendResolvesOne
<1>7. ASSUME NEW k \in Keys, EndTurn(k) PROVE CountInv'
  <2>1. Owed' = Owed
    BY <1>7, EndOwed DEF EndTurn
  <2> QED
    BY <1>2, <1>7, <2>1 DEF EndTurn, http, Waiting
<1>8. ASSUME NEW k \in Keys, AppendFails(k) PROVE CountInv'
  <2>1. Owed' = Owed /\ short' = short
    BY <1>8, EndOwed DEF AppendFails
  <2>2. hand[k] \in Requests /\ Send(hand[k])
    BY <1>8 DEF AppendFails, TypeOK
  <2>3. Waiting' \subseteq Waiting
    BY <2>2, SendResolvesOne DEF Waiting
  <2> QED
    BY <1>2, <2>1, <2>3
<1>9. ASSUME NEW k \in Keys, IdleExit(k) PROVE CountInv'
  <2>1. /\ short' /\ Waiting' = Waiting /\ hand' = hand /\ answered' = answered
        /\ queue' = [queue EXCEPT ![k] = <<>>]
    BY <1>9 DEF IdleExit, http, Waiting
  <2>2. \A j \in Keys : \A q \in Requests : InQueue(q, j)' => InQueue(q, j)
    BY <2>1 DEF InQueue, TypeOK
  <2>3. Owed' \in SUBSET Owed
    BY <2>1, <2>2 DEF Owed, InQueue
  <2> QED
    BY <1>0, <2>1, <2>3, FS_Subset DEF CountInv, AnswersSuffice
<1>10. CASE UNCHANGED vars
  BY <1>2, <1>10 DEF vars, http, runner, Waiting, Owed
<1> QED
  BY <1>1, <1>3, <1>4, <1>5, <1>6, <1>7, <1>8, <1>9, <1>10 DEF Next
-----------------------------------------------------------------------------
(***************************************************************************)
(* While nothing is mixed.                                                 *)
(***************************************************************************)

OneKeyAtATime == \A j, k \in Keys : Unanswered(j) /\ Unanswered(k) => j = k
QueueInOrder(k) ==
  \A i \in DOMAIN queue[k] :
    /\ hand[k] # None => place[hand[k]] < place[queue[k][i]]
    /\ \A h \in DOMAIN queue[k] : h < i => place[queue[k][h]] < place[queue[k][i]]

LEMMA OrderInvParts ==
  OrderInv <=> /\ short => mixed
               /\ ~mixed => /\ Waiting = Owed /\ OneKeyAtATime
                            /\ \A k \in Keys : QueueInOrder(k)
BY DEF OrderInv, OneKeyAtATime, QueueInOrder

\* The message in hand is the first of those to be answered, so its request's future is the
\* one that send() resolves.
LEMMA HandIsFirst ==
  ASSUME TypeOK, ArrivalInv, DictInv, OrderInv, ~mixed, NEW k \in Keys, Answer(k)
  PROVE  /\ hand[k] \in Pending
         /\ \A q \in Pending \ {hand[k]} : place[hand[k]] < place[q]
<1>1. hand[k] \in Owed /\ hand[k] # None /\ hand[k] \notin answered
  BY AnswerOwed DEF Answer
<1>2. ~short /\ Waiting = Owed
  BY DEF OrderInv
<1>3. Pending = Waiting
  <2>1. Waiting \subseteq futures
    BY <1>2 DEF Waiting, DictInv, ArrivalInv
  <2> QED
    BY <2>1 DEF Pending, Waiting, TypeOK
<1>4. ASSUME NEW q \in Owed, q # hand[k] PROVE place[hand[k]] < place[q]
  <2>1. PICK j \in Keys : hand[j] = q \/ InQueue(q, j)
    BY OwedOf
  <2>2. q \notin answered /\ q # None
    BY ConstantFacts DEF Owed
  <2>3. Unanswered(j) /\ Unanswered(k)
    <3>1. InQueue(q, j) => queue[j] # <<>>
      BY DEF InQueue
    <3> QED
      BY <1>1, <2>1, <2>2, <3>1 DEF Unanswered
  <2>4. j = k
    BY <2>3 DEF OrderInv
  <2>5. PICK i \in DOMAIN queue[k] : queue[k][i] = q
    BY <1>4, <2>1, <2>4 DEF InQueue
  <2> QED
    BY <1>1, <2>5 DEF OrderInv
<1> QED
  BY <1>1, <1>2, <1>3, <1>4

LEMMA AnswerReaches ==
  ASSUME TypeOK, ArrivalInv, DictInv, OrderInv, ~mixed, NEW k \in Keys, Answer(k)
  PROVE  /\ Waiting' = Waiting \ {hand[k]}
         /\ reply' = [reply EXCEPT ![hand[k]] = hand[k]]
<1>1. hand[k] \in Requests /\ Send(hand[k])
  BY DEF Answer, TypeOK
<1>2. hand[k] \in Pending /\ \A q \in Pending \ {hand[k]} : place[hand[k]] < place[q]
  BY HandIsFirst
<1>3. ASSUME NEW r \in Pending, \A q \in Pending : place[r] <= place[q] PROVE r = hand[k]
  <2>1. place[r] \in Nat /\ place[hand[k]] \in Nat /\ place[r] <= place[hand[k]]
    BY <1>2, <1>3 DEF Pending, TypeOK
  <2> QED
    BY <1>2, <2>1
<1> QED
  BY <1>1, <1>2, <1>3, SendResolvesOne

LEMMA OrderNext ==
  ASSUME TypeOK, TypeOK', ArrivalInv, DictInv, OrderInv, [Next]_vars
  PROVE  OrderInv'
<1> USE ConstantFacts
<1>0. /\ short => mixed
      /\ ~mixed => Waiting = Owed /\ OneKeyAtATime /\ \A k \in Keys : QueueInOrder(k)
  BY OrderInvParts
<1>1. ASSUME NEW r \in Requests, Request(r) PROVE OrderInv'
  <2>1. short' => mixed'
    BY <1>0, <1>1 DEF Request
  <2>2. ASSUME ~mixed'
        PROVE  Waiting' = Owed' /\ OneKeyAtATime' /\ \A k \in Keys : QueueInOrder(k)'
    <3> DEFINE c == KeyOf[r]
    <3>1. /\ ~mixed /\ ~Full(c) /\ ~Reused(r) /\ \A j \in Keys \ {c} : ~Unanswered(j)
          /\ c \in Keys
      BY <1>1, <2>2 DEF Request
    <3>2. Waiting' = Owed'
      BY <1>0, <1>1, <3>1, RequestOwed
    <3>3. /\ hand' = hand /\ answered' = answered
          /\ queue' = [queue EXCEPT ![c] = Append(queue[c], r)]
          /\ place' = [place EXCEPT ![r] = arrivals + 1] /\ pc[r] = "idle"
      BY <1>1, <3>1 DEF Request, PlaceOf
    <3>4. \A j \in Keys \ {c} : queue'[j] = queue[j] /\ ~Unanswered(j)'
      BY <3>1, <3>3 DEF Unanswered, TypeOK
    <3>5. OneKeyAtATime'
      BY <3>4 DEF OneKeyAtATime
    <3>6. \A q \in Requests \ {r} : place'[q] = place[q] /\ place'[q] < place'[r]
      BY <3>3 DEF ArrivalInv, TypeOK
    <3>7. ASSUME NEW j \in Keys PROVE QueueInOrder(j)'
      <4> DEFINE n == Len(queue[j])
      <4>1. /\ n \in Nat /\ DOMAIN queue[j] = 1 .. n
            /\ \A i \in 1 .. n : queue[j][i] \in Requests \ {r}
        BY <3>3, QueueType DEF ArrivalInv, InQueue
      <4>2. hand[j] # None => hand[j] \in Requests \ {r}
        BY <3>3 DEF ArrivalInv, TypeOK
      <4>3. QueueInOrder(j)
        BY <1>0, <3>1
      <4>4. CASE j # c
        <5>1. queue'[j] = queue[j] /\ hand'[j] = hand[j]
          BY <3>3, <3>4, <4>4
        <5> QED
          <6>1. ASSUME NEW i \in 1 .. n, hand[j] # None
                PROVE  place'[hand[j]] < place'[queue[j][i]]
            BY <3>6, <4>1, <4>2, <4>3, <6>1 DEF QueueInOrder
          <6>2. ASSUME NEW i \in 1 .. n, NEW h \in 1 .. n, h < i
                PROVE  place'[queue[j][h]] < place'[queue[j][i]]
            <7>1. place[queue[j][h]] < place[queue[j][i]]
              BY <4>1, <4>3, <6>2 DEF QueueInOrder
            <7>2. queue[j][h] \in Requests \ {r} /\ queue[j][i] \in Requests \ {r}
              BY <4>1
            <7> QED
              BY <3>6, <7>1, <7>2
          <6> QED
            BY <4>1, <5>1, <6>1, <6>2 DEF QueueInOrder
      <4>5. CASE j = c
        <5>1. /\ DOMAIN queue'[j] = 1 .. n + 1 /\ queue'[j][n + 1] = r
              /\ \A i \in 1 .. n : queue'[j][i] = queue[j][i]
          <6>1. queue'[j] = Append(queue[j], r) /\ queue[j] \in Seq(Requests)
            BY <3>3, <4>5, QueueType DEF TypeOK
          <6> QED
            BY <6>1
        <5> HIDE DEF n
        <5>2. ASSUME NEW i \in 1 .. n + 1, hand'[j] # None
              PROVE  place'[hand'[j]] < place'[queue'[j][i]]
          <6>1. i \in 1 .. n \/ i = n + 1
            BY <4>1
          <6>2. CASE i \in 1 .. n
            BY <3>3, <3>6, <4>1, <4>2, <4>3, <5>1, <5>2, <6>2 DEF QueueInOrder
          <6>3. CASE i = n + 1
            <7>1. hand'[j] \in Requests \ {r} /\ queue'[j][i] = r
              BY <3>3, <4>2, <5>1, <5>2, <6>3
            <7> QED
              BY <3>6, <7>1
          <6> QED
            BY <6>1, <6>2, <6>3
        <5>3. ASSUME NEW i \in 1 .. n + 1, NEW h \in 1 .. n + 1, h < i
              PROVE  place'[queue'[j][h]] < place'[queue'[j][i]]
          <6>1. h \in 1 .. n /\ (i \in 1 .. n \/ i = n + 1)
            BY <4>1, <5>3
          <6>2. CASE i \in 1 .. n
            <7>1. place[queue[j][h]] < place[queue[j][i]]
              BY <4>1, <4>3, <5>3, <6>1, <6>2 DEF QueueInOrder
            <7>2. queue'[j][h] = queue[j][h] /\ queue'[j][i] = queue[j][i]
              BY <5>1, <6>1, <6>2
            <7>3. queue[j][h] \in Requests \ {r} /\ queue[j][i] \in Requests \ {r}
              BY <4>1, <6>1, <6>2
            <7> QED
              BY <3>6, <7>1, <7>2, <7>3
          <6>3. CASE i = n + 1
            <7>1. queue'[j][h] \in Requests \ {r} /\ queue'[j][i] = r
              BY <4>1, <5>1, <6>1, <6>3
            <7> QED
              BY <3>6, <7>1
          <6> QED
            BY <6>1, <6>2, <6>3
        <5> QED
          BY <5>1, <5>2, <5>3 DEF QueueInOrder
      <4> QED
        BY <4>4, <4>5
    <3> QED
      BY <3>2, <3>5, <3>7
  <2> QED
    BY <2>1, <2>2, OrderInvParts DEF OrderInv, OneKeyAtATime, QueueInOrder
<1>2. ASSUME short' = short, mixed => mixed', place' = place,
             ~mixed' => /\ Waiting' = Owed'
                        /\ \A k \in Keys : Unanswered(k)' => Unanswered(k)
                        /\ \A k \in Keys : QueueInOrder(k) => QueueInOrder(k)'
      PROVE  OrderInv'
  <2>1. short' => mixed'
    BY <1>0, <1>2
  <2>2. ~mixed' => OneKeyAtATime'
    BY <1>0, <1>2 DEF OneKeyAtATime
  <2> QED
    BY <1>0, <1>2, <2>1, <2>2 DEF OrderInv, OneKeyAtATime, QueueInOrder
<1>3. ASSUME NEW r \in Requests, TimerFires(r) \/ Respond(r) PROVE OrderInv'
  <2>1. UNCHANGED <<place, queue, hand, answered, short>> /\ (mixed => mixed')
    <3>1. TimerFires(r) => UNCHANGED <<place, queue, hand, answered, short>> /\ (mixed => mixed')
      BY DEF TimerFires, runner
    <3>2. Respond(r) => UNCHANGED <<place, queue, hand, answered, short>> /\ (mixed => mixed')
      BY DEF Respond, runner
    <3> QED
      BY <1>3, <3>1, <3>2
  <2>2. ~mixed' => Waiting' = Waiting
    BY <1>3 DEF TimerFires, Respond, Waiting, TypeOK
  <2>3. Owed' = Owed
    BY <2>1 DEF Owed
  <2> QED
    BY <1>0, <1>2, <2>1, <2>2, <2>3 DEF Unanswered, QueueInOrder
<1>4. ASSUME NEW k \in Keys, Take(k) PROVE OrderInv'
  <2>1. UNCHANGED <<place, short, mixed, answered>> /\ Waiting' = Waiting /\ Owed' = Owed
    BY <1>4, TakeOwed DEF Take, http
  <2>2. ASSUME NEW j \in Keys PROVE Unanswered(j)' => Unanswered(j)
    <3>1. CASE j = k
      BY <1>4, <3>1 DEF Unanswered, Take
    <3>2. CASE j # k
      <4>1. hand'[j] = hand[j] /\ queue'[j] = queue[j]
        BY <1>4, <3>2, TakeQueues
      <4> QED
        BY <2>1, <4>1 DEF Unanswered
    <3> QED
      BY <3>1, <3>2
  <2>3. ASSUME NEW j \in Keys, QueueInOrder(j) PROVE QueueInOrder(j)'
    <3>1. CASE j = k
      <4> DEFINE n == Len(queue[k])
      <4>1. /\ n \in Nat /\ n > 0 /\ DOMAIN queue[k] = 1 .. n /\ hand'[k] = queue[k][1]
            /\ DOMAIN queue'[k] = 1 .. n - 1 /\ \A i \in 1 .. n - 1 : queue'[k][i] = queue[k][i + 1]
        BY <1>4, TakeQueues, QueueType
      <4> HIDE DEF n
      <4>2. \A i \in 1 .. n - 1 : i + 1 \in 1 .. n /\ 1 \in 1 .. n /\ 1 < i + 1
        BY <4>1
      <4>3. \A h, i \in 1 .. n - 1 : h < i => h + 1 < i + 1
        BY <4>1
      <4> QED
        <5>1. \A h, i \in 1 .. n : h < i => place[queue[k][h]] < place[queue[k][i]]
          BY <2>3, <3>1, <4>1 DEF QueueInOrder
        <5>2. \A i \in 1 .. n - 1 : place[hand'[k]] < place[queue'[k][i]]
          BY <4>1, <4>2, <5>1
        <5>3. \A h, i \in 1 .. n - 1 : h < i => place[queue'[k][h]] < place[queue'[k][i]]
          BY <4>1, <4>2, <4>3, <5>1
        <5> QED
          BY <2>1, <3>1, <4>1, <5>2, <5>3 DEF QueueInOrder
    <3>2. CASE j # k
      <4>1. hand'[j] = hand[j] /\ queue'[j] = queue[j]
        BY <1>4, <3>2, TakeQueues
      <4> QED
        BY <2>1, <2>3, <4>1 DEF QueueInOrder
    <3> QED
      BY <3>1, <3>2
  <2> QED
    BY <1>0, <1>2, <2>1, <2>2, <2>3
<1>5. ASSUME NEW k \in Keys, Answer(k) PROVE OrderInv'
  <2>1. UNCHANGED <<place, queue, hand, short, mixed>> /\ answered \subseteq answered'
    BY <1>5 DEF Answer, runner
  <2>2. ~mixed => Waiting' = Owed'
    BY <1>0, <1>5, AnswerOwed, AnswerReaches
  <2> QED
    BY <1>2, <2>1, <2>2 DEF Unanswered, QueueInOrder
<1>6. ASSUME NEW k \in Keys, EndTurn(k) \/ AppendFails(k) PROVE OrderInv'
  <2>1. /\ hand[k] \in answered /\ hand' = [hand EXCEPT ![k] = None]
        /\ UNCHANGED <<place, queue, answered, short>> /\ (mixed => mixed')
    <3>1. CASE EndTurn(k)
      BY <3>1 DEF EndTurn, http
    <3>2. CASE AppendFails(k)
      BY <3>2 DEF AppendFails
    <3> QED
      BY <1>6, <3>1, <3>2
  <2>2. Owed' = Owed
    BY <2>1, EndOwed
  <2>3. ~mixed' => Waiting' = Waiting
    <3>1. CASE EndTurn(k)
      BY <3>1 DEF EndTurn, http, Waiting
    <3>2. CASE AppendFails(k)
      <4>1. ~mixed' => Pending = {} /\ Send(hand[k]) /\ hand[k] \in Requests
        BY <2>1, <3>2 DEF AppendFails, TypeOK
      <4> QED
        BY <4>1, SendResolvesOne DEF Waiting
    <3> QED
      BY <1>6, <3>1, <3>2
  <2>4. \A j \in Keys : hand'[j] \in {hand[j], None}
    BY <2>1 DEF TypeOK
  <2> QED
    BY <1>0, <1>2, <2>1, <2>2, <2>3, <2>4 DEF Unanswered, QueueInOrder
<1>7. ASSUME NEW k \in Keys, IdleExit(k) PROVE OrderInv'
  BY <1>7 DEF IdleExit, OrderInv
<1>8. CASE UNCHANGED vars
  BY <1>8 DEF vars, http, runner, OrderInv, Waiting, Owed, Unanswered
<1> QED
  BY <1>1, <1>3, <1>4, <1>5, <1>6, <1>7, <1>8 DEF Next

LEMMA OwnAnswerNext ==
  ASSUME TypeOK, ArrivalInv, DictInv, OrderInv, OwnAnswer, [Next]_vars
  PROVE  OwnAnswer'
<1>1. ASSUME reply' = reply, answered' = answered, mixed => mixed' PROVE OwnAnswer'
  BY <1>1 DEF OwnAnswer
<1>2. ASSUME NEW k \in Keys, Answer(k) PROVE OwnAnswer'
  <2>1. /\ answered' = answered \cup {hand[k]} /\ mixed' = mixed
        /\ ~mixed => reply' = [reply EXCEPT ![hand[k]] = hand[k]]
    BY <1>2, AnswerReaches DEF Answer
  <2> QED
    BY <2>1 DEF OwnAnswer, TypeOK
<1>3. ASSUME NEW k \in Keys, AppendFails(k) PROVE OwnAnswer'
  <2>1. hand[k] \in Requests /\ Send(hand[k]) /\ answered' = answered
    BY <1>3 DEF AppendFails, TypeOK
  <2>2. ~mixed' => ~mixed /\ Pending = {}
    BY <1>3 DEF AppendFails
  <2>3. ~mixed' => reply' = reply
    BY <2>1, <2>2, SendResolvesOne
  <2> QED
    BY <2>1, <2>2, <2>3 DEF OwnAnswer
<1>4. ASSUME NEW r \in Requests, Request(r) \/ TimerFires(r) \/ Respond(r) PROVE OwnAnswer'
  BY <1>1, <1>4 DEF Request, TimerFires, Respond
<1>5. ASSUME NEW k \in Keys, Take(k) \/ EndTurn(k) \/ IdleExit(k) PROVE OwnAnswer'
  BY <1>1, <1>5 DEF Take, EndTurn, IdleExit, http
<1>6. CASE UNCHANGED vars
  BY <1>1, <1>6 DEF vars, http
<1> QED
  BY <1>2, <1>3, <1>4, <1>5, <1>6 DEF Next

-----------------------------------------------------------------------------
(***************************************************************************)
(* The theorems.                                                           *)
(***************************************************************************)

LEMMA TestApiInit == Init => TypeOK /\ TestApiInv
<1> SUFFICES ASSUME Init PROVE TestApiInv
  BY TypeInit
<1> USE DEF Init
<1>1. ArrivalInv /\ DictInv
  BY ConstantFacts DEF ArrivalInv, DictInv, InQueue
<1>2. Waiting = {} /\ Owed = {}
  BY ConstantFacts DEF Waiting, Owed
<1>3. CountInv
  BY <1>2, FS_EmptySet DEF CountInv, AnswersSuffice
<1>4. OrderInv
  BY <1>2 DEF OrderInv, Unanswered
<1>5. OwnAnswer
  BY DEF OwnAnswer
<1> QED
  BY <1>1, <1>3, <1>4, <1>5 DEF TestApiInv

\* What holds of the handlers, the dictionary and the Runner's queues throughout.
THEOREM TestApiInvCorrect == Spec => [](TypeOK /\ TestApiInv)
<1>1. TypeOK /\ TestApiInv /\ [Next]_vars => (TypeOK /\ TestApiInv)'
  BY TypeNext, ArrivalNext, DictNext, CountNext, OrderNext, OwnAnswerNext DEF TestApiInv
<1> QED
  BY TestApiInit, <1>1, PTL DEF Spec

\* CaptureSender.send() gives a request to the test API its own answer, however many wait on
\* its key, until something of the list that `mixed` records has happened.
THEOREM RequestsGetTheirOwnAnswers == Spec => []OwnAnswer
BY TestApiInvCorrect, PTL DEF TestApiInv

\* As long as no message and no future was dropped, no request waits for an answer that will
\* not come.
THEOREM AnswersAreEnough == Spec => []AnswersSuffice
BY TestApiInvCorrect, PTL DEF TestApiInv, CountInv
=============================================================================
