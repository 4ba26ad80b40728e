---------------------------- MODULE RunnerProofs ----------------------------
(***************************************************************************)
(* Proofs about Runner, for every set of keys and messages, every queue    *)
(* bound and both interpreters (getRunsAsTask).                            *)
(*                                                                         *)
(* WorkerOwnsKey is not inductive: that dispatch() starts a second worker  *)
(* only when the first is gone rests on the three dictionaries having the  *)
(* same keys while the Runner is running (DictsAgree), and that a new task *)
(* is not confused with an old one on tasks existing only for messages     *)
(* that were dispatched (TasksWereSent).                                   *)
(*                                                                         *)
(* NoOvertaking is not inductive either.  It follows from LogOf: the queue *)
(* of a key is the tail of the sequence of messages accepted for it, and   *)
(* these are exactly the ones still queued.  InHandInv ties the fate       *)
(* "taken" to the one worker that has the message in hand.                 *)
(***************************************************************************)
EXTENDS Runner, TLAPS, SequenceTheorems

\* While running, a key is in _queues exactly when it is in _workers, the
\* worker named there is alive and of that key, and nothing is cancelled.
DictsAgree ==
  /\ phase = "running" => cancelled = {}
  /\ \A k \in Keys : workers[k] # None => KeyOf[workers[k]] = k
  /\ phase = "running" =>
       \A k \in Keys : /\ k \in queueKeys <=> workers[k] # None
                       /\ workers[k] # None => Live(workers[k])

\* A key that is not in _queues holds no messages.
NoHiddenQueue == \A k \in Keys : k \notin queueKeys => queues[k] = <<>>

TasksWereSent == \A m \in Messages : fate[m] = "unsent" => pc[m] = "none"

WorkerInv == WorkerOwnsKey /\ DictsAgree /\ NoHiddenQueue /\ TasksWereSent

-----------------------------------------------------------------------------
(***************************************************************************)
(* Type correctness.                                                       *)
(***************************************************************************)

\* Head and tail of a non-empty queue of messages are a message and a shorter
\* queue (used by Take).
LEMMA QueueHeadTail ==
  ASSUME NEW q \in Seq(Messages), q # <<>>
  PROVE  /\ Head(q) \in Messages
         /\ Tail(q) \in Seq(Messages)
         /\ Len(q) \in Nat
         /\ Len(q) > 0
         /\ Len(Tail(q)) = Len(q) - 1
         /\ Head(q) = q[1]
         /\ \A i \in 1..Len(q) - 1 : Tail(q)[i] = q[i + 1]
<1>1. Len(q) \in Nat \ {0}
  BY EmptySeq
<1>2. /\ Head(q) \in Messages
      /\ Tail(q) \in Seq(Messages)
      /\ Len(Tail(q)) = Len(q) - 1
      /\ \A i \in 1..Len(Tail(q)) : Tail(q)[i] = q[i + 1]
  BY HeadTailProperties
<1>. QED
  BY <1>1, <1>2

\* An exit of a worker keeps every variable in its domain.
LEMMA ExitType ==
  ASSUME TypeOK, NEW t \in Messages, NEW f \in Fates, Exit(t, f)
  PROVE  TypeOK'
<1>1. /\ queueKeys' \in SUBSET Keys
      /\ queues' \in [Keys -> Seq(Messages)]
      /\ queueGen' \in [Keys -> Nat \cup {Absent}]
      /\ workers' \in [Keys -> Messages \cup {None}]
      /\ \A k \in Keys : Len(queues'[k]) <= MaxQueueSize
  <2>1. CASE OwnsKey(t)
    <3>1. <<>> \in Seq(Messages) /\ Len(<<>>) = 0
      BY EmptySeq
    <3>2. RemoveKey(KeyOf[t]) /\ KeyOf[t] \in Keys
      BY <2>1, ConstantsAssumption DEF Exit, Cleanup
    <3>3. /\ queues' \in [Keys -> Seq(Messages)]
          /\ \A k \in Keys : Len(queues'[k]) <= MaxQueueSize
      BY <3>1, <3>2, ConstantsAssumption DEF RemoveKey, TypeOK
    <3>4. /\ queueKeys' \in SUBSET Keys
          /\ queueGen' \in [Keys -> Nat \cup {Absent}]
          /\ workers' \in [Keys -> Messages \cup {None}]
      BY <3>2 DEF RemoveKey, TypeOK
    <3>. QED
      BY <3>3, <3>4
  <2>2. CASE ~OwnsKey(t)
    BY <2>2 DEF Exit, Cleanup, dictVars, TypeOK
  <2>. QED
    BY <2>1, <2>2
<1>2. fate' \in [Messages -> Fates]
  BY DEF Exit, FatesAfterExit, TypeOK, Fates
<1>. QED
  BY <1>1, <1>2 DEF Exit, TypeOK, PcStates

\* Every step of the Runner keeps the type invariant.
LEMMA TypeStep == TypeOK /\ [Next]_vars => TypeOK'
<1> SUFFICES ASSUME TypeOK, [Next]_vars PROVE TypeOK'
  OBVIOUS
<1> USE ConstantsAssumption
<1>1. ASSUME NEW m \in Messages, DispatchRejected(m) PROVE TypeOK'
  BY <1>1 DEF DispatchRejected, TypeOK, Fates, dictVars, taskVars
<1>2. ASSUME NEW m \in Messages, DispatchDropped(m) PROVE TypeOK'
  BY <1>2 DEF DispatchDropped, TypeOK, Fates, dictVars, taskVars
<1>3. ASSUME NEW m \in Messages, DispatchAccepted(m) PROVE TypeOK'
  <2> DEFINE k == KeyOf[m]
             base == IF k \in queueKeys THEN queueGen[k] ELSE 0
  <2>1. k \in Keys /\ base \in Int /\ base + 1 \in Nat /\ queues[k] \in Seq(Messages)
    BY DEF TypeOK, Absent
  <2>2. /\ Append(queues[k], m) \in Seq(Messages)
        /\ Len(Append(queues[k], m)) = Len(queues[k]) + 1
        /\ Append(log[k], m) \in Seq(Messages)
        /\ Len(queues[k]) \in Nat
    BY <2>1, AppendProperties, LenProperties DEF TypeOK
  <2>3. base \in Nat \cup {Absent}
    BY <2>1 DEF TypeOK
  <2>4. /\ queues' \in [Keys -> Seq(Messages)]
        /\ log' \in [Keys -> Seq(Messages)]
        /\ \A j \in Keys : Len(queues'[j]) <= MaxQueueSize
        /\ queueKeys' \in SUBSET Keys
    BY <1>3, <2>1, <2>2 DEF DispatchAccepted, HasRoom, TypeOK
  <2>5. /\ queueGen' \in [Keys -> Nat \cup {Absent}]
        /\ workers' \in [Keys -> Messages \cup {None}]
        /\ pc' \in [Messages -> PcStates]
        /\ gen' \in [Messages -> Nat]
    <3>1. CASE NeedsWorker(k)
      <4>1. /\ queueGen' = [queueGen EXCEPT ![k] = base + 1]
            /\ workers' = [workers EXCEPT ![k] = m]
            /\ pc' = [pc EXCEPT ![m] = "new"]
            /\ gen' = [gen EXCEPT ![m] = base + 1]
        BY <1>3, <3>1 DEF DispatchAccepted
      <4> HIDE DEF k, base
      <4>. QED
        BY <2>1, <4>1 DEF TypeOK, PcStates
    <3>2. CASE ~NeedsWorker(k)
      <4>1. /\ queueGen' = [queueGen EXCEPT ![k] = base]
            /\ UNCHANGED <<workers, pc, gen>>
        BY <1>3, <3>2 DEF DispatchAccepted
      <4> HIDE DEF k, base
      <4>. QED
        BY <2>1, <2>3, <4>1 DEF TypeOK
    <3>. QED
      BY <3>1, <3>2
  <2>. QED
    BY <1>3, <2>4, <2>5 DEF DispatchAccepted, TypeOK, Fates
<1>4. ASSUME NEW t \in Messages, Start(t) PROVE TypeOK'
  BY <1>4 DEF Start, TypeOK, PcStates, dictVars
<1>5. ASSUME NEW t \in Messages, Take(t) PROVE TypeOK'
  <2> DEFINE k == KeyOf[t]
  <2>1. k \in Keys /\ queues[k] \in Seq(Messages) /\ queues[k] # <<>>
    BY <1>5 DEF Take, TypeOK
  <2>2. /\ queues' \in [Keys -> Seq(Messages)]
        /\ \A j \in Keys : Len(queues'[j]) <= MaxQueueSize
    BY <1>5, <2>1, QueueHeadTail DEF Take, TypeOK
  <2>3. /\ current' \in [Messages -> Messages \cup {None}]
        /\ fate' \in [Messages -> Fates]
        /\ pc' \in [Messages -> PcStates]
    BY <1>5, <2>1, QueueHeadTail DEF Take, TypeOK, Fates, PcStates
  <2>. QED
    BY <1>5, <2>2, <2>3 DEF Take, TypeOK
<1>6. ASSUME NEW t \in Messages, Resume(t) PROVE TypeOK'
  BY <1>6 DEF Resume, TypeOK, PcStates, dictVars
<1>7. ASSUME NEW t \in Messages, HandleDone(t) PROVE TypeOK'
  BY <1>7 DEF HandleDone, TypeOK, PcStates, Fates, dictVars
<1>8. ASSUME NEW t \in Messages, Expire(t) PROVE TypeOK'
  BY <1>8 DEF Expire, TypeOK, PcStates, dictVars
<1>9. ASSUME NEW t \in Messages, IdleExit(t) \/ CancelWaiting(t) \/ CancelHandling(t)
      PROVE  TypeOK'
  BY <1>9, ExitType DEF IdleExit, CancelWaiting, CancelHandling, Fates
<1>10. ASSUME NEW t \in Messages, CancelNew(t) PROVE TypeOK'
  BY <1>10 DEF CancelNew, TypeOK, PcStates, dictVars
<1>11. CASE ShutdownBegin
  BY <1>11 DEF ShutdownBegin, TypeOK, dictVars
<1>12. CASE ShutdownEnd
  <2>1. <<>> \in Seq(Messages) /\ Len(<<>>) = 0
    BY EmptySeq
  <2>. QED
    BY <1>12, <2>1 DEF ShutdownEnd, TypeOK, Fates, taskVars
<1>13. CASE UNCHANGED vars
  BY <1>13 DEF vars, TypeOK
<1>. QED
  BY <1>1, <1>2, <1>3, <1>4, <1>5, <1>6, <1>7, <1>8, <1>9, <1>10, <1>11, <1>12, <1>13
     DEF Next, Dispatch, WorkerStep

\* The Runner's variables stay in their domains and no queue ever holds more
\* than max_queue_size messages.
THEOREM TypeCorrect == Spec => []TypeOK
<1>1. Init => TypeOK
  <2>1. <<>> \in Seq(Messages) /\ Len(<<>>) = 0
    BY EmptySeq
  <2>. QED
    BY <2>1, ConstantsAssumption DEF Init, TypeOK, PcStates, Fates
<1>. QED
  BY <1>1, TypeStep, PTL DEF Spec

-----------------------------------------------------------------------------
(***************************************************************************)
(* One worker per key.                                                     *)
(***************************************************************************)

\* The exit of a live worker removes its own key and nothing else.
LEMMA ExitRemovesKey ==
  ASSUME TypeOK, WorkerInv, NEW t \in Messages, Live(t), NEW f, Exit(t, f)
  PROVE  RemoveKey(KeyOf[t]) /\ workers[KeyOf[t]] = t /\ OwnsKey(t)
BY DEF WorkerInv, WorkerOwnsKey, Exit, Cleanup

LEMMA ExitWorkerInv ==
  ASSUME TypeOK, WorkerInv, NEW t \in Messages, Live(t), Exit(t, "aborted")
  PROVE  WorkerInv'
<1> DEFINE k == KeyOf[t]
<1>1. RemoveKey(k) /\ workers[k] = t /\ k \in Keys
  BY ExitRemovesKey, ConstantsAssumption
<1>2. \A u \in Messages : KeyOf[u] \in Keys
  BY ConstantsAssumption
<1>3. \A u \in Messages : Live(u)' => u # t /\ Live(u)
  BY DEF Exit, TypeOK, Live
<1>4. WorkerOwnsKey'
  BY <1>1, <1>2, <1>3 DEF Exit, RemoveKey, WorkerInv, WorkerOwnsKey, OwnsKey, TypeOK
<1>5. DictsAgree'
  <2>1. phase' = phase /\ cancelled' = cancelled \ {t}
    BY DEF Exit
  <2>2. \A j \in Keys : workers'[j] # None => workers'[j] = workers[j] /\ j # k
    BY <1>1 DEF RemoveKey, TypeOK
  <2>3. \A j \in Keys : j # k => workers'[j] = workers[j] /\ (j \in queueKeys' <=> j \in queueKeys)
    BY <1>1 DEF RemoveKey, TypeOK
  <2>4. workers'[k] = None /\ k \notin queueKeys'
    BY <1>1 DEF RemoveKey, TypeOK
  <2>5. \A j \in Keys : workers'[j] # None /\ Live(workers[j]) => pc'[workers'[j]] \notin {"none", "gone"}
    <3> SUFFICES ASSUME NEW j \in Keys, workers'[j] # None, Live(workers[j])
                 PROVE  pc'[workers'[j]] \notin {"none", "gone"}
      OBVIOUS
    <3>1. workers'[j] = workers[j] /\ j # k /\ workers[j] \in Messages
      BY <2>2 DEF TypeOK
    <3>2. workers[j] # t
      BY <3>1 DEF WorkerInv, DictsAgree
    <3>. QED
      BY <3>1, <3>2 DEF Exit, Live, TypeOK
  <2>. QED
    BY <1>1, <2>1, <2>2, <2>3, <2>4, <2>5 DEF WorkerInv, DictsAgree, Live
<1>6. NoHiddenQueue'
  BY <1>1 DEF RemoveKey, WorkerInv, NoHiddenQueue, TypeOK
<1>7. TasksWereSent'
  <2> SUFFICES ASSUME NEW m \in Messages, fate'[m] = "unsent"
               PROVE  pc'[m] = "none"
    BY DEF TasksWereSent
  <2>1. fate[m] = "unsent"
    BY DEF Exit, FatesAfterExit, TypeOK
  <2>2. pc[m] = "none" /\ m # t
    BY <2>1 DEF WorkerInv, TasksWereSent, Live
  <2>. QED
    BY <2>2 DEF Exit, TypeOK
<1>. QED
  BY <1>4, <1>5, <1>6, <1>7 DEF WorkerInv

LEMMA AcceptWorkerInv ==
  ASSUME TypeOK, WorkerInv, NEW m \in Messages, DispatchAccepted(m)
  PROVE  WorkerInv'
<1> DEFINE k == KeyOf[m]
           base == IF k \in queueKeys THEN queueGen[k] ELSE 0
<1>1. k \in Keys /\ pc[m] = "none" /\ phase = "running" /\ phase' = "running"
      /\ \A u \in Messages : KeyOf[u] \in Keys
  BY ConstantsAssumption DEF DispatchAccepted, WorkerInv, TasksWereSent
<1>2. /\ queueKeys' = queueKeys \cup {k}
      /\ queues' = [queues EXCEPT ![k] = Append(@, m)]
      /\ fate' = [fate EXCEPT ![m] = "queued"]
      /\ cancelled' = cancelled
  BY DEF DispatchAccepted
<1>3. NoHiddenQueue'
  BY <1>1, <1>2 DEF WorkerInv, NoHiddenQueue, TypeOK
<1>4. CASE NeedsWorker(k)
  <2>1. /\ queueGen' = [queueGen EXCEPT ![k] = base + 1]
        /\ workers' = [workers EXCEPT ![k] = m]
        /\ pc' = [pc EXCEPT ![m] = "new"]
        /\ gen' = [gen EXCEPT ![m] = base + 1]
    BY <1>4 DEF DispatchAccepted
  <2>2. workers[k] = None
    BY <1>1, <1>4 DEF NeedsWorker, WorkerInv, DictsAgree, Live, TypeOK
  <2>3. \A u \in Messages : Live(u) => KeyOf[u] # k
    BY <2>2, ConstantsAssumption DEF WorkerInv, WorkerOwnsKey
  <2> HIDE DEF base
  <2>4. WorkerOwnsKey'
    BY <1>1, <2>1, <2>3 DEF WorkerInv, WorkerOwnsKey, OwnsKey, Live, TypeOK
  <2>5. \A j \in Keys : j # k /\ workers[j] # None => workers[j] # m /\ workers[j] \in Messages
    BY <1>1 DEF WorkerInv, DictsAgree, Live, TypeOK
  <2>6. \A j \in Keys : workers'[j] # None => KeyOf[workers'[j]] = j /\ pc'[workers'[j]] \notin {"none", "gone"}
    <3> SUFFICES ASSUME NEW j \in Keys, workers'[j] # None
                 PROVE  KeyOf[workers'[j]] = j /\ pc'[workers'[j]] \notin {"none", "gone"}
      OBVIOUS
    <3>1. CASE j = k
      BY <1>1, <2>1, <3>1 DEF TypeOK, Live
    <3>2. CASE j # k
      <4>1. workers'[j] = workers[j]
        BY <2>1, <3>2 DEF TypeOK
      <4>2. KeyOf[workers[j]] = j /\ Live(workers[j]) /\ workers[j] # m /\ workers[j] \in Messages
        BY <1>1, <2>5, <3>2, <4>1 DEF WorkerInv, DictsAgree
      <4>. QED
        BY <2>1, <4>1, <4>2 DEF Live, TypeOK
    <3>. QED
      BY <3>1, <3>2
  <2>7. \A j \in Keys : j \in queueKeys' <=> workers'[j] # None
    BY <1>1, <1>2, <2>1, ConstantsAssumption DEF WorkerInv, DictsAgree, TypeOK
  <2>8. DictsAgree'
    BY <1>1, <1>2, <2>6, <2>7 DEF WorkerInv, DictsAgree, Live
  <2>9. TasksWereSent'
    BY <1>2, <2>1 DEF WorkerInv, TasksWereSent, TypeOK
  <2>. QED
    BY <1>3, <2>4, <2>8, <2>9 DEF WorkerInv
<1>5. CASE ~NeedsWorker(k)
  <2>1. k \in queueKeys
    BY <1>1, <1>5, ConstantsAssumption DEF NeedsWorker, WorkerInv, DictsAgree, TypeOK
  <2>2. UNCHANGED <<workers, pc, gen>> /\ queueGen' = [queueGen EXCEPT ![k] = queueGen[k]]
    BY <1>5, <2>1 DEF DispatchAccepted
  <2>3. queueGen' = queueGen /\ queueKeys' = queueKeys
    BY <1>2, <2>1, <2>2 DEF TypeOK
  <2>. QED
    BY <1>1, <1>2, <1>3, <2>2, <2>3
       DEF WorkerInv, WorkerOwnsKey, OwnsKey, Live, DictsAgree, TasksWereSent, TypeOK
<1>. QED
  BY <1>4, <1>5

LEMMA WorkerInvStep == TypeOK /\ WorkerInv /\ [Next]_vars => WorkerInv'
<1> SUFFICES ASSUME TypeOK, WorkerInv, [Next]_vars PROVE WorkerInv'
  OBVIOUS
<1> USE DEF WorkerInv, WorkerOwnsKey, OwnsKey, Live, DictsAgree, NoHiddenQueue,
            TasksWereSent, TypeOK, dictVars, taskVars
<1>1. ASSUME NEW m \in Messages, DispatchRejected(m) \/ DispatchDropped(m)
      PROVE  WorkerInv'
  BY <1>1 DEF DispatchRejected, DispatchDropped
<1>2. ASSUME NEW m \in Messages, DispatchAccepted(m) PROVE WorkerInv'
  BY <1>2, AcceptWorkerInv
<1>3. ASSUME NEW t \in Messages, Start(t) \/ Resume(t) \/ Expire(t) PROVE WorkerInv'
  <2>1. /\ phase' = phase /\ queueKeys' = queueKeys /\ queues' = queues
        /\ queueGen' = queueGen /\ workers' = workers /\ gen' = gen /\ fate' = fate
        /\ cancelled' \in SUBSET cancelled
    BY <1>3 DEF Start, Resume, Expire
  <2>2. pc[t] \notin {"none", "gone"} /\ pc'[t] \notin {"none", "gone"}
    BY <1>3 DEF Start, Resume, Expire
  <2>3. \A u \in Messages : u # t => pc'[u] = pc[u]
    BY <1>3 DEF Start, Resume, Expire
  <2>4. WorkerOwnsKey'
    BY <2>1, <2>2, <2>3
  <2>5. DictsAgree'
    <3>1. \A k \in Keys : workers[k] # None => workers[k] \in Messages
      OBVIOUS
    <3>. QED
      BY <2>1, <2>2, <2>3, <3>1
  <2>6. NoHiddenQueue' /\ TasksWereSent'
    BY <2>1, <2>2, <2>3
  <2>. QED
    BY <2>4, <2>5, <2>6
<1>4. ASSUME NEW t \in Messages, Take(t) PROVE WorkerInv'
  <2>1. /\ KeyOf[t] \in Keys /\ Head(queues[KeyOf[t]]) \in Messages
        /\ KeyOf[t] \in queueKeys
    BY <1>4, QueueHeadTail, ConstantsAssumption DEF Take
  <2>2. /\ Busy(t)' /\ pc[t] = "waiting"
        /\ \A u \in Messages : u # t => pc'[u] = pc[u]
    BY <1>4 DEF Take, Busy
  <2>3. \A u \in Messages : Live(u)' <=> Live(u)
    BY <2>2 DEF Busy
  <2>4. WorkerOwnsKey' /\ DictsAgree'
    BY <1>4, <2>3 DEF Take
  <2>5. NoHiddenQueue'
    BY <1>4, <2>1 DEF Take
  <2>6. TasksWereSent'
    BY <1>4, <2>1, <2>2 DEF Take
  <2>. QED
    BY <2>4, <2>5, <2>6
<1>5. ASSUME NEW t \in Messages, HandleDone(t) PROVE WorkerInv'
  BY <1>5 DEF HandleDone
<1>6. ASSUME NEW t \in Messages, IdleExit(t) \/ CancelWaiting(t) \/ CancelHandling(t)
      PROVE  WorkerInv'
  BY <1>6, ExitWorkerInv DEF IdleExit, CancelWaiting, CancelHandling
<1>7. ASSUME NEW t \in Messages, CancelNew(t) PROVE WorkerInv'
  BY <1>7 DEF CancelNew
<1>8. CASE ShutdownBegin
  BY <1>8 DEF ShutdownBegin
<1>9. CASE ShutdownEnd
  <2>1. \A t \in Messages : ~Live(t)
    BY <1>9, ConstantsAssumption DEF ShutdownEnd, WorkersDone, NeedsWorker
  <2>. QED
    BY <1>9, <2>1 DEF ShutdownEnd
<1>10. CASE UNCHANGED vars
  BY <1>10 DEF vars
<1>. QED
  BY <1>1, <1>2, <1>3, <1>4, <1>5, <1>6, <1>7, <1>8, <1>9, <1>10
     DEF Next, Dispatch, WorkerStep

LEMMA WorkerInvCorrect == Spec => []WorkerInv
<1>1. Init => WorkerInv
  BY DEF Init, WorkerInv, WorkerOwnsKey, DictsAgree, NoHiddenQueue, TasksWereSent, Live
<1>. QED
  BY <1>1, TypeCorrect, WorkerInvStep, PTL DEF Spec

\* There is never a second live worker for a routing key, and no worker ever
\* finds itself superseded when it cleans up.
THEOREM OneWorkerPerKey == Spec => []WorkerOwnsKey
<1>1. WorkerInv => WorkerOwnsKey
  BY DEF WorkerInv
<1>. QED
  BY <1>1, WorkerInvCorrect, PTL

\* Until shutdown() is called, whatever is queued has a live worker of its key.
THEOREM QueuesAreServed == Spec => []QueueHasWorker
<1>1. TypeOK /\ WorkerInv => QueueHasWorker
  BY DEF WorkerInv, DictsAgree, NoHiddenQueue, QueueHasWorker, TypeOK
<1>. QED
  BY <1>1, TypeCorrect, WorkerInvCorrect, PTL

-----------------------------------------------------------------------------
(***************************************************************************)
(* The order in which messages are taken, the ways in which one may be     *)
(* lost, and what shutdown leaves behind.                                  *)
(***************************************************************************)

\* The queue of a key is the tail of its log: the messages still queued, in the
\* order of their arrival.
Served(k) == Len(log[k]) - Len(queues[k])
QueueIsTail(k) ==
  /\ Served(k) >= 0
  /\ \A i \in 1..Len(queues[k]) : queues[k][i] = log[k][Served(k) + i]
  /\ \A i \in 1..Len(log[k]) : fate[log[k][i]] = "queued" <=> i > Served(k)

\* The log of a key holds messages of that key, sent, and each once.
LogIsSound(k) ==
  /\ \A i \in 1..Len(log[k]) : KeyOf[log[k][i]] = k /\ fate[log[k][i]] # "unsent"
  /\ \A i, j \in 1..Len(log[k]) : log[k][i] = log[k][j] => i = j

LogOf(k) == QueueIsTail(k) /\ LogIsSound(k)
LogInv == \A k \in Keys : LogOf(k)

\* A message has the fate "taken" exactly while one busy worker has it in hand.
InHandInv ==
  /\ \A t \in Messages : Busy(t) <=> current[t] # None
  /\ \A t \in Messages : current[t] # None => fate[current[t]] = "taken"
  /\ \A t, u \in Messages : current[t] # None /\ current[t] = current[u] => t = u
  /\ \A m \in Messages : fate[m] = "taken" => \E t \in Messages : current[t] = m

OrderInv == LogInv /\ InHandInv

-----------------------------------------------------------------------------
(***************************************************************************)
(* The log.                                                                *)
(***************************************************************************)

\* Sequence facts that every step below needs.
LEMMA SequenceFacts ==
  ASSUME TypeOK, NEW k \in Keys
  PROVE  /\ Len(log[k]) \in Nat /\ Len(queues[k]) \in Nat
         /\ \A i \in 1..Len(log[k]) : log[k][i] \in Messages
         /\ \A i \in 1..Len(queues[k]) : queues[k][i] \in Messages
<1>1. log[k] \in Seq(Messages) /\ queues[k] \in Seq(Messages)
  BY DEF TypeOK
<1>. QED
  BY <1>1, LenProperties, ElementOfSeq

\* A step that leaves a key's queue, log and the fates of its messages alone.
LEMMA KeyUntouched ==
  ASSUME TypeOK, NEW k \in Keys, LogOf(k),
         log'[k] = log[k], queues'[k] = queues[k],
         \A m \in Messages : KeyOf[m] = k =>
           /\ fate'[m] = "queued" <=> fate[m] = "queued"
           /\ fate'[m] = "unsent" => fate[m] = "unsent"
  PROVE  LogOf(k)'
<1>1. Served(k)' = Served(k)
  BY DEF Served
<1>2. QueueIsTail(k)'
  BY <1>1, SequenceFacts DEF LogOf, QueueIsTail, LogIsSound
<1>3. LogIsSound(k)'
  BY SequenceFacts DEF LogOf, LogIsSound
<1>. QED
  BY <1>2, <1>3 DEF LogOf

\* A step that empties a key's queue and gives its messages another fate.
LEMMA KeyEmptied ==
  ASSUME TypeOK, NEW k \in Keys, LogOf(k),
         log'[k] = log[k], queues'[k] = <<>>,
         \A m \in Messages : KeyOf[m] = k =>
           /\ fate'[m] # "queued"
           /\ fate'[m] = "unsent" => fate[m] = "unsent"
  PROVE  LogOf(k)'
<1>1. Len(queues'[k]) = 0
  BY EmptySeq
<1>2. Len(log[k]) \in Nat /\ Served(k)' = Len(log[k])
  BY <1>1, SequenceFacts DEF Served
<1>3. QueueIsTail(k)'
  BY <1>1, <1>2, SequenceFacts DEF LogOf, QueueIsTail, LogIsSound
<1>4. LogIsSound(k)'
  BY SequenceFacts DEF LogOf, LogIsSound
<1>. QED
  BY <1>3, <1>4 DEF LogOf

\* The message at the head of a queue is queued, and of that key.
LEMMA HeadIsQueued ==
  ASSUME TypeOK, NEW k \in Keys, LogOf(k), queues[k] # <<>>
  PROVE  /\ Head(queues[k]) \in Messages
         /\ Head(queues[k]) = log[k][Served(k) + 1]
         /\ Served(k) + 1 \in 1..Len(log[k])
         /\ fate[Head(queues[k])] = "queued"
         /\ KeyOf[Head(queues[k])] = k
<1>1. queues[k] \in Seq(Messages)
  BY DEF TypeOK
<1>2. Len(queues[k]) > 0 /\ Head(queues[k]) = queues[k][1] /\ Head(queues[k]) \in Messages
  BY <1>1, QueueHeadTail
<1>3. /\ Len(log[k]) \in Nat /\ Len(queues[k]) \in Nat
      /\ Served(k) \in Int /\ Served(k) >= 0 /\ Served(k) + 1 <= Len(log[k])
  BY <1>2, SequenceFacts DEF LogOf, QueueIsTail, Served
<1>4. Head(queues[k]) = log[k][Served(k) + 1] /\ Served(k) + 1 \in 1..Len(log[k])
  BY <1>2, <1>3 DEF LogOf, QueueIsTail
<1>5. fate[Head(queues[k])] = "queued" /\ KeyOf[Head(queues[k])] = k
  BY <1>3, <1>4 DEF LogOf, QueueIsTail, LogIsSound
<1>. QED
  BY <1>2, <1>4, <1>5

LEMMA AcceptLogInv ==
  ASSUME TypeOK, LogInv, NEW m \in Messages, DispatchAccepted(m)
  PROVE  LogInv'
<1> DEFINE k == KeyOf[m]
<1>1. /\ k \in Keys /\ fate[m] = "unsent"
      /\ queues' = [queues EXCEPT ![k] = Append(@, m)]
      /\ log' = [log EXCEPT ![k] = Append(@, m)]
      /\ fate' = [fate EXCEPT ![m] = "queued"]
  BY ConstantsAssumption DEF DispatchAccepted
<1>2. ASSUME NEW j \in Keys, j # k PROVE LogOf(j)'
  <2>1. /\ log'[j] = log[j] /\ queues'[j] = queues[j]
        /\ \A x \in Messages : KeyOf[x] = j => fate'[x] = fate[x]
    BY <1>1, <1>2 DEF TypeOK
  <2>. QED
    BY <2>1, KeyUntouched DEF LogInv
<1>3. LogOf(k)'
  <2>1. log[k] \in Seq(Messages) /\ queues[k] \in Seq(Messages)
    BY <1>1 DEF TypeOK
  <2>2. log'[k] = Append(log[k], m) /\ queues'[k] = Append(queues[k], m)
    BY <1>1 DEF TypeOK
  <2>3. /\ Len(log[k]) \in Nat /\ Len(queues[k]) \in Nat
        /\ Len(log'[k]) = Len(log[k]) + 1
        /\ Len(queues'[k]) = Len(queues[k]) + 1
        /\ \A i \in 1..Len(log[k]) : log'[k][i] = log[k][i]
        /\ \A i \in 1..Len(queues[k]) : queues'[k][i] = queues[k][i]
        /\ log'[k][Len(log[k]) + 1] = m
        /\ queues'[k][Len(queues[k]) + 1] = m
    BY <2>1, <2>2, AppendProperties, LenProperties
  <2>4. \A i \in 1..Len(log[k]) : log[k][i] \in Messages /\ log[k][i] # m
    BY <1>1, SequenceFacts DEF LogInv, LogOf, LogIsSound
  <2>5. \A x \in Messages : x # m => fate'[x] = fate[x]
    BY <1>1 DEF TypeOK
  <2>6. fate'[m] = "queued"
    BY <1>1 DEF TypeOK
  <2>7. LogOf(k)
    BY <1>1 DEF LogInv
  <2>0. KeyOf[m] = k
    OBVIOUS
  <2> HIDE DEF k
  <2>8. QueueIsTail(k)'
    <3>1. Served(k)' = Served(k) /\ Served(k) \in Int /\ Served(k) >= 0
          /\ Served(k) + Len(queues[k]) = Len(log[k])
          /\ Len(log[k]) \in Nat /\ Len(queues[k]) \in Nat
      BY <2>3, <2>7 DEF Served, LogOf, QueueIsTail
    <3>2. \A i \in 1..Len(queues'[k]) : queues'[k][i] = log'[k][Served(k) + i]
      <4> SUFFICES ASSUME NEW i \in 1..Len(queues'[k])
                   PROVE  queues'[k][i] = log'[k][Served(k) + i]
        OBVIOUS
      <4>1. CASE i = Len(queues[k]) + 1
        <5>1. Served(k) + i = Len(log[k]) + 1
          BY <3>1, <4>1
        <5>. QED
          BY <2>3, <4>1, <5>1
      <4>2. CASE i # Len(queues[k]) + 1
        <5>1. i \in 1..Len(queues[k]) /\ Served(k) + i \in 1..Len(log[k])
          BY <2>3, <3>1, <4>2
        <5>. QED
          BY <2>3, <2>7, <5>1 DEF LogOf, QueueIsTail
      <4>. QED
        BY <4>1, <4>2
    <3>3. \A i \in 1..Len(log'[k]) : fate'[log'[k][i]] = "queued" <=> i > Served(k)
      <4> SUFFICES ASSUME NEW i \in 1..Len(log'[k])
                   PROVE  fate'[log'[k][i]] = "queued" <=> i > Served(k)
        OBVIOUS
      <4>1. CASE i = Len(log[k]) + 1
        BY <2>3, <2>6, <3>1, <4>1
      <4>2. CASE i # Len(log[k]) + 1
        <5>1. i \in 1..Len(log[k])
          BY <2>3, <4>2
        <5>. QED
          BY <2>3, <2>4, <2>5, <2>7, <5>1 DEF LogOf, QueueIsTail
      <4>. QED
        BY <4>1, <4>2
    <3>. QED
      BY <3>1, <3>2, <3>3 DEF QueueIsTail
  <2>9. LogIsSound(k)'
    <3>1. ASSUME NEW i \in 1..Len(log'[k])
          PROVE  KeyOf[log'[k][i]] = k /\ fate'[log'[k][i]] # "unsent"
      <4>1. CASE i = Len(log[k]) + 1
        BY <2>0, <2>3, <2>6, <4>1
      <4>2. CASE i # Len(log[k]) + 1
        <5>1. i \in 1..Len(log[k])
          BY <2>3, <4>2
        <5>. QED
          BY <2>3, <2>4, <2>5, <2>7, <5>1 DEF LogOf, LogIsSound
      <4>. QED
        BY <4>1, <4>2
    <3>2. ASSUME NEW i \in 1..Len(log'[k]), NEW j \in 1..Len(log'[k]),
                 log'[k][i] = log'[k][j]
          PROVE  i = j
      <4>1. ASSUME NEW a \in 1..Len(log'[k]), a # Len(log[k]) + 1
            PROVE  a \in 1..Len(log[k]) /\ log'[k][a] = log[k][a] /\ log[k][a] # m
        BY <2>3, <2>4, <4>1
      <4>2. CASE i # Len(log[k]) + 1 /\ j # Len(log[k]) + 1
        BY <2>7, <3>2, <4>1, <4>2 DEF LogOf, LogIsSound
      <4>3. CASE i = Len(log[k]) + 1 \/ j = Len(log[k]) + 1
        BY <2>3, <3>2, <4>1, <4>3
      <4>. QED
        BY <4>2, <4>3
    <3>. QED
      BY <3>1, <3>2 DEF LogIsSound
  <2>. QED
    BY <2>8, <2>9 DEF LogOf
<1>. QED
  BY <1>2, <1>3 DEF LogInv

LEMMA TakeLogInv ==
  ASSUME TypeOK, LogInv, NEW t \in Messages, Take(t)
  PROVE  LogInv'
<1> DEFINE k == KeyOf[t]
<1>1. /\ k \in Keys /\ queues[k] # <<>> /\ LogOf(k)
      /\ queues' = [queues EXCEPT ![k] = Tail(@)]
      /\ fate' = [fate EXCEPT ![Head(queues[k])] = "taken"]
      /\ log' = log
  BY ConstantsAssumption DEF Take, LogInv
<1>2. /\ Head(queues[k]) \in Messages
      /\ Head(queues[k]) = log[k][Served(k) + 1] /\ Served(k) + 1 \in 1..Len(log[k])
      /\ KeyOf[Head(queues[k])] = k
      /\ fate[Head(queues[k])] = "queued"
  BY <1>1, HeadIsQueued
<1>3. ASSUME NEW j \in Keys, j # k PROVE LogOf(j)'
  <2>1. /\ log'[j] = log[j] /\ queues'[j] = queues[j]
        /\ \A x \in Messages : KeyOf[x] = j => fate'[x] = fate[x]
    BY <1>1, <1>2, <1>3 DEF TypeOK
  <2>. QED
    BY <2>1, KeyUntouched DEF LogInv
<1>4. LogOf(k)'
  <2>1. queues[k] \in Seq(Messages) /\ queues'[k] = Tail(queues[k])
    BY <1>1 DEF TypeOK
  <2>2. /\ Len(queues[k]) \in Nat /\ Len(queues[k]) > 0
        /\ Len(queues'[k]) = Len(queues[k]) - 1
        /\ \A i \in 1..Len(queues[k]) - 1 : queues'[k][i] = queues[k][i + 1]
    BY <1>1, <2>1, QueueHeadTail
  <2>3. /\ Len(log[k]) \in Nat
        /\ \A i \in 1..Len(log[k]) : log[k][i] \in Messages
    BY <1>1, SequenceFacts
  <2>4. \A i \in 1..Len(log[k]) :
          fate'[log[k][i]] = IF i = Served(k) + 1 THEN "taken" ELSE fate[log[k][i]]
    BY <1>1, <1>2, <2>3 DEF LogOf, LogIsSound, TypeOK
  <2> HIDE DEF k
  <2>5. QueueIsTail(k)'
    <3>1. Served(k)' = Served(k) + 1 /\ Served(k) \in Int /\ Served(k) >= 0
      <4>1. Served(k) >= 0
        BY <1>1 DEF LogOf, QueueIsTail
      <4>2. log'[k] = log[k]
        BY <1>1
      <4>. QED
        BY <2>2, <2>3, <4>1, <4>2 DEF Served
    <3>2. \A i \in 1..Len(queues'[k]) : queues'[k][i] = log'[k][Served(k) + 1 + i]
      <4> SUFFICES ASSUME NEW i \in 1..Len(queues'[k])
                   PROVE  queues'[k][i] = log'[k][Served(k) + 1 + i]
        OBVIOUS
      <4>1. i \in 1..Len(queues[k]) - 1 /\ i + 1 \in 1..Len(queues[k])
        BY <2>2
      <4>2. queues'[k][i] = queues[k][i + 1]
        BY <2>2, <4>1
      <4>3. queues[k][i + 1] = log[k][Served(k) + (i + 1)]
        BY <1>1, <4>1 DEF LogOf, QueueIsTail
      <4>4. Served(k) + (i + 1) = Served(k) + 1 + i
        BY <3>1
      <4>. QED
        BY <1>1, <4>2, <4>3, <4>4
    <3>3. \A i \in 1..Len(log'[k]) : fate'[log'[k][i]] = "queued" <=> i > Served(k) + 1
      BY <1>1, <2>3, <2>4, <3>1 DEF LogOf, QueueIsTail
    <3>. QED
      BY <3>1, <3>2, <3>3 DEF QueueIsTail
  <2>6. LogIsSound(k)'
    BY <1>1, <2>3, <2>4 DEF LogOf, LogIsSound
  <2>. QED
    BY <2>5, <2>6 DEF LogOf
<1>. QED
  BY <1>3, <1>4 DEF LogInv

LEMMA ExitLogInv ==
  ASSUME TypeOK, WorkerInv, LogInv, InHandInv,
         NEW t \in Messages, Live(t), NEW f \in {"aborted", "handled"}, Exit(t, f)
  PROVE  LogInv'
<1> DEFINE k == KeyOf[t]
<1>1. k \in Keys /\ RemoveKey(k) /\ OwnsKey(t)
  BY ExitRemovesKey, ConstantsAssumption
<1>2. /\ log' = log
      /\ \A m \in Messages :
           fate'[m] = IF m = current[t] THEN f
                      ELSE IF fate[m] = "queued" /\ KeyOf[m] = k THEN "lost" ELSE fate[m]
  BY <1>1 DEF Exit, FatesAfterExit
<1>3. \A m \in Messages : m = current[t] => fate[m] = "taken"
  BY ConstantsAssumption DEF InHandInv
<1>4. ASSUME NEW j \in Keys, j # k PROVE LogOf(j)'
  <2>1. log'[j] = log[j] /\ queues'[j] = queues[j]
    BY <1>1, <1>2, <1>4 DEF RemoveKey, TypeOK
  <2>2. \A x \in Messages : KeyOf[x] = j =>
          /\ fate'[x] = "queued" <=> fate[x] = "queued"
          /\ fate'[x] = "unsent" => fate[x] = "unsent"
    BY <1>2, <1>3, <1>4
  <2>. QED
    BY <2>1, <2>2, KeyUntouched DEF LogInv
<1>5. LogOf(k)'
  <2>1. log'[k] = log[k] /\ queues'[k] = <<>>
    BY <1>1, <1>2 DEF RemoveKey, TypeOK
  <2>2. \A x \in Messages : KeyOf[x] = k =>
          fate'[x] # "queued" /\ (fate'[x] = "unsent" => fate[x] = "unsent")
    BY <1>2
  <2>. QED
    BY <1>1, <2>1, <2>2, KeyEmptied DEF LogInv
<1>. QED
  BY <1>4, <1>5 DEF LogInv

\* Every step of the Runner keeps the log of every key in step with its queue.
LEMMA LogInvStep ==
  TypeOK /\ WorkerInv /\ LogInv /\ InHandInv /\ [Next]_vars => LogInv'
<1> SUFFICES ASSUME TypeOK, WorkerInv, LogInv, InHandInv, [Next]_vars
             PROVE  LogInv'
  OBVIOUS
<1>1. ASSUME log' = log, queues' = queues,
             \A m \in Messages : /\ fate'[m] = "queued" <=> fate[m] = "queued"
                                 /\ fate'[m] = "unsent" => fate[m] = "unsent"
      PROVE  LogInv'
  BY <1>1, KeyUntouched DEF LogInv
<1>2. ASSUME NEW m \in Messages, DispatchRejected(m) \/ DispatchDropped(m)
      PROVE  LogInv'
  BY <1>1, <1>2 DEF DispatchRejected, DispatchDropped, dictVars, TypeOK
<1>3. ASSUME NEW m \in Messages, DispatchAccepted(m) PROVE LogInv'
  BY <1>3, AcceptLogInv
<1>4. ASSUME NEW t \in Messages, Start(t) \/ Resume(t) \/ Expire(t) \/ CancelNew(t)
      PROVE  LogInv'
  BY <1>1, <1>4 DEF Start, Resume, Expire, CancelNew, dictVars
<1>5. ASSUME NEW t \in Messages, Take(t) PROVE LogInv'
  BY <1>5, TakeLogInv
<1>6. ASSUME NEW t \in Messages, HandleDone(t) PROVE LogInv'
  <2>1. current[t] \in Messages => fate[current[t]] = "taken"
    BY ConstantsAssumption DEF InHandInv
  <2>. QED
    BY <1>1, <1>6, <2>1 DEF HandleDone, dictVars, TypeOK
<1>7. ASSUME NEW t \in Messages, IdleExit(t) \/ CancelWaiting(t) \/ CancelHandling(t)
      PROVE  LogInv'
  <2>1. Live(t) /\ Exit(t, "aborted")
    BY <1>7 DEF IdleExit, CancelWaiting, CancelHandling, Live
  <2>. QED
    BY <2>1, ExitLogInv
<1>8. CASE ShutdownBegin
  BY <1>1, <1>8 DEF ShutdownBegin, dictVars
<1>9. CASE ShutdownEnd
  <2>1. ASSUME NEW k \in Keys PROVE LogOf(k)'
    <3>1. log'[k] = log[k] /\ queues'[k] = <<>> /\ LogOf(k)
      BY <1>9 DEF ShutdownEnd, LogInv
    <3>2. \A m \in Messages : fate'[m] # "queued" /\ (fate'[m] = "unsent" => fate[m] = "unsent")
      BY <1>9 DEF ShutdownEnd
    <3>. QED
      BY <3>1, <3>2, KeyEmptied
  <2>. QED
    BY <2>1 DEF LogInv
<1>10. CASE UNCHANGED vars
  BY <1>1, <1>10 DEF vars
<1>. QED
  BY <1>2, <1>3, <1>4, <1>5, <1>6, <1>7, <1>8, <1>9, <1>10
     DEF Next, Dispatch, WorkerStep

-----------------------------------------------------------------------------
(***************************************************************************)
(* The message in hand.                                                    *)
(***************************************************************************)

LEMMA TakeInHand ==
  ASSUME TypeOK, LogInv, InHandInv, NEW t \in Messages, Take(t)
  PROVE  InHandInv'
<1> DEFINE h == Head(queues[KeyOf[t]])
<1>1. h \in Messages /\ fate[h] = "queued"
  BY HeadIsQueued, ConstantsAssumption DEF Take, LogInv
<1>2. /\ current' = [current EXCEPT ![t] = h]
      /\ fate' = [fate EXCEPT ![h] = "taken"]
      /\ pc[t] = "waiting" /\ pc'[t] \in {"fetched", "handling"}
      /\ \A u \in Messages : u # t => pc'[u] = pc[u]
  BY DEF Take, TypeOK
<1> HIDE DEF h
<1>3. /\ h # None /\ current'[t] = h /\ fate'[h] = "taken" /\ current[t] = None
      /\ \A u \in Messages : u # t => current'[u] = current[u]
      /\ \A m \in Messages : m # h => fate'[m] = fate[m]
  BY <1>1, <1>2, ConstantsAssumption DEF InHandInv, Busy, TypeOK
<1>4. \A u \in Messages : current[u] # h /\ (current[u] # None => current[u] \in Messages)
  BY <1>1, <1>3 DEF InHandInv, TypeOK
<1>5. \A u \in Messages : Busy(u)' <=> current'[u] # None
  BY <1>2, <1>3 DEF InHandInv, Busy
<1>6. \A u \in Messages : current'[u] # None => fate'[current'[u]] = "taken"
  BY <1>3, <1>4 DEF InHandInv
<1>7. \A u, v \in Messages : current'[u] # None /\ current'[u] = current'[v] => u = v
  BY <1>3, <1>4 DEF InHandInv
<1>8. \A m \in Messages : fate'[m] = "taken" => \E u \in Messages : current'[u] = m
  <2> SUFFICES ASSUME NEW m \in Messages, fate'[m] = "taken"
               PROVE  \E u \in Messages : current'[u] = m
    OBVIOUS
  <2>1. CASE m = h
    BY <1>3, <2>1
  <2>2. CASE m # h
    <3>1. \A x \in Messages : fate[x] = "taken" => \E u \in Messages : current[u] = x
      BY DEF InHandInv
    <3>2. PICK u \in Messages : current[u] = m
      BY <1>3, <2>2, <3>1
    <3>3. u # t
      BY <1>3, <3>2, ConstantsAssumption
    <3>. QED
      BY <1>3, <3>2, <3>3
  <2>. QED
    BY <2>1, <2>2
<1>. QED
  BY <1>5, <1>6, <1>7, <1>8 DEF InHandInv

\* A worker lets go of the message in hand, whose fate changes with it; other
\* fates may change, but not to or from "taken".
LEMMA ReleaseInHand ==
  ASSUME TypeOK, InHandInv, NEW t \in Messages,
         current' = [current EXCEPT ![t] = None],
         pc'[t] \in {"waiting", "gone"},
         \A u \in Messages : u # t => pc'[u] = pc[u],
         \A m \in Messages : m = current[t] => fate'[m] # "taken",
         \A m \in Messages : m # current[t] => (fate'[m] = "taken" <=> fate[m] = "taken")
  PROVE  InHandInv'
<1>1. /\ current'[t] = None
      /\ \A u \in Messages : u # t => current'[u] = current[u]
      /\ \A u \in Messages : current[u] # None => current[u] \in Messages
  BY DEF TypeOK
<1>2. \A u \in Messages : Busy(u)' <=> current'[u] # None
  BY <1>1 DEF InHandInv, Busy
<1>3. \A u \in Messages : current'[u] # None => fate'[current'[u]] = "taken"
  <2> SUFFICES ASSUME NEW u \in Messages, current'[u] # None
               PROVE  fate'[current'[u]] = "taken"
    OBVIOUS
  <2>1. u # t /\ current'[u] = current[u] /\ current[u] \in Messages
    BY <1>1
  <2>2. current[u] # current[t]
    BY <2>1, ConstantsAssumption DEF InHandInv
  <2>. QED
    BY <2>1, <2>2, ConstantsAssumption DEF InHandInv
<1>4. \A u, v \in Messages : current'[u] # None /\ current'[u] = current'[v] => u = v
  BY <1>1 DEF InHandInv
<1>5. \A m \in Messages : fate[m] = "taken" => \E u \in Messages : current[u] = m
  BY DEF InHandInv
<1>6. \A m \in Messages : fate'[m] = "taken" => \E u \in Messages : current'[u] = m
  <2> SUFFICES ASSUME NEW m \in Messages, fate'[m] = "taken"
               PROVE  \E u \in Messages : current'[u] = m
    OBVIOUS
  <2>1. m # current[t] /\ fate[m] = "taken"
    OBVIOUS
  <2>2. PICK u \in Messages : current[u] = m
    BY <1>5, <2>1
  <2>. QED
    BY <1>1, <2>1, <2>2
<1>. QED
  BY <1>2, <1>3, <1>4, <1>6 DEF InHandInv

\* A message is in one worker's hands at a time, from the get() that took it to
\* the end of _handle.
LEMMA InHandStep ==
  TypeOK /\ WorkerInv /\ LogInv /\ InHandInv /\ [Next]_vars => InHandInv'
<1> SUFFICES ASSUME TypeOK, WorkerInv, LogInv, InHandInv, [Next]_vars
             PROVE  InHandInv'
  OBVIOUS
<1>1. ASSUME current' = current,
             \A u \in Messages : Busy(u)' <=> Busy(u),
             \A m \in Messages : fate'[m] = "taken" <=> fate[m] = "taken"
      PROVE  InHandInv'
  <2>1. \A u \in Messages : current[u] # None => current[u] \in Messages
    BY DEF TypeOK
  <2>. QED
    BY <1>1, <2>1 DEF InHandInv
<1>2. ASSUME NEW m \in Messages, Dispatch(m) PROVE InHandInv'
  <2>1. current' = current /\ fate[m] = "unsent"
    BY <1>2 DEF Dispatch, DispatchRejected, DispatchDropped, DispatchAccepted, taskVars
  <2>2. \A x \in Messages : fate'[x] = "taken" <=> fate[x] = "taken"
    BY <1>2 DEF Dispatch, DispatchRejected, DispatchDropped, DispatchAccepted, TypeOK
  <2>3. pc' = pc \/ pc' = [pc EXCEPT ![m] = "new"]
    BY <1>2 DEF Dispatch, DispatchRejected, DispatchDropped, DispatchAccepted, taskVars
  <2>4. pc[m] = "none"
    BY <2>1 DEF WorkerInv, TasksWereSent
  <2>5. \A u \in Messages : Busy(u)' <=> Busy(u)
    BY <2>3, <2>4 DEF Busy, TypeOK
  <2>. QED
    BY <1>1, <2>1, <2>2, <2>5
<1>3. ASSUME NEW t \in Messages, Start(t) \/ Resume(t) \/ Expire(t) \/ CancelNew(t)
      PROVE  InHandInv'
  <2>1. current' = current /\ fate' = fate
    BY <1>3 DEF Start, Resume, Expire, CancelNew
  <2>2. \A u \in Messages : Busy(u)' <=> Busy(u)
    BY <1>3 DEF Start, Resume, Expire, CancelNew, Busy, TypeOK
  <2>. QED
    BY <1>1, <2>1, <2>2
<1>4. ASSUME NEW t \in Messages, Take(t) PROVE InHandInv'
  BY <1>4, TakeInHand
<1>5. ASSUME NEW t \in Messages, HandleDone(t) PROVE InHandInv'
  <2>1. /\ current' = [current EXCEPT ![t] = None]
        /\ pc'[t] = "waiting" /\ \A u \in Messages : u # t => pc'[u] = pc[u]
        /\ fate' = [fate EXCEPT ![current[t]] = "handled"]
    BY <1>5 DEF HandleDone, TypeOK
  <2>2. /\ \A m \in Messages : m = current[t] => fate'[m] # "taken"
        /\ \A m \in Messages : m # current[t] => (fate'[m] = "taken" <=> fate[m] = "taken")
    BY <2>1 DEF TypeOK
  <2>. QED
    BY <2>1, <2>2, ReleaseInHand
<1>6. ASSUME NEW t \in Messages, Exit(t, "aborted") PROVE InHandInv'
  <2>1. /\ current' = [current EXCEPT ![t] = None]
        /\ pc'[t] = "gone" /\ \A u \in Messages : u # t => pc'[u] = pc[u]
    BY <1>6 DEF Exit, TypeOK
  <2>2. /\ \A m \in Messages : m = current[t] => fate'[m] # "taken"
        /\ \A m \in Messages : m # current[t] => (fate'[m] = "taken" <=> fate[m] = "taken")
    BY <1>6 DEF Exit, FatesAfterExit
  <2>. QED
    BY <2>1, <2>2, ReleaseInHand
<1>7. CASE ShutdownBegin
  BY <1>1, <1>7 DEF ShutdownBegin, Busy
<1>8. CASE ShutdownEnd
  BY <1>1, <1>8 DEF ShutdownEnd, Busy, taskVars
<1>9. CASE UNCHANGED vars
  BY <1>1, <1>9 DEF vars, Busy
<1>. QED
  BY <1>2, <1>3, <1>4, <1>5, <1>6, <1>7, <1>8, <1>9
     DEF Next, WorkerStep, IdleExit, CancelWaiting, CancelHandling

LEMMA OrderInvCorrect == Spec => []OrderInv
<1>1. Init => OrderInv
  <2>1. Init => LogInv
    <3>1. Len(<<>>) = 0
      BY EmptySeq
    <3>2. ASSUME Init, NEW k \in Keys PROVE LogOf(k)
      <4>1. log[k] = <<>> /\ queues[k] = <<>>
        BY <3>2 DEF Init
      <4>. QED
        BY <3>1, <4>1 DEF LogOf, QueueIsTail, Served, LogIsSound
    <3>. QED
      BY <3>2 DEF LogInv
  <2>2. Init => InHandInv
    BY ConstantsAssumption DEF Init, InHandInv, Busy
  <2>. QED
    BY <2>1, <2>2 DEF OrderInv
<1>2. TypeOK /\ WorkerInv /\ OrderInv /\ [Next]_vars => OrderInv'
  BY LogInvStep, InHandStep DEF OrderInv
<1>. QED
  BY <1>1, <1>2, TypeCorrect, WorkerInvCorrect, PTL DEF Spec

\* Messages of one routing key are taken in the order in which dispatch()
\* accepted them, however many workers the key goes through.
THEOREM KeysAreFifo == Spec => []NoOvertaking
<1>1. TypeOK /\ OrderInv => NoOvertaking
  <2> SUFFICES ASSUME TypeOK, OrderInv, NEW k \in Keys,
                      NEW i \in 1..Len(log[k]), NEW j \in 1..Len(log[k]),
                      i < j, fate[log[k][i]] = "queued"
               PROVE  fate[log[k][j]] = "queued"
    BY DEF NoOvertaking
  <2>1. Len(log[k]) \in Nat /\ Len(queues[k]) \in Nat
    BY SequenceFacts
  <2>2. i > Served(k)
    BY DEF OrderInv, LogInv, LogOf, QueueIsTail
  <2>3. Served(k) \in Int /\ i \in Int /\ j \in Int
    BY <2>1 DEF Served
  <2>4. j > Served(k)
    BY <2>2, <2>3
  <2>. QED
    BY <2>4 DEF OrderInv, LogInv, LogOf, QueueIsTail
<1>. QED
  BY <1>1, TypeCorrect, OrderInvCorrect, PTL

-----------------------------------------------------------------------------
(***************************************************************************)
(* How a message can be lost, and what shutdown() leaves.                  *)
(***************************************************************************)

\* While the Runner is running, the only step that loses a queued message is the
\* exit of a worker of its key whose idle timer has fired.
THEOREM OnlyIdleExitLoses == Spec => LossOnlyAtIdleExit
<1> DEFINE A == \A m \in Messages :
                  fate[m] = "queued" /\ fate'[m] = "lost" =>
                    \/ phase # "running"
                    \/ TimerFired(m)
<1>1. TypeOK /\ WorkerInv /\ OrderInv /\ [Next]_vars => [A]_vars
  <2> SUFFICES ASSUME TypeOK, WorkerInv, OrderInv, Next,
                      NEW m \in Messages, fate[m] = "queued", fate'[m] = "lost",
                      phase = "running"
               PROVE  TimerFired(m)
    BY DEF vars
  <2>1. cancelled = {}
    BY DEF WorkerInv, DictsAgree
  <2>2. ASSUME NEW t \in Messages, WorkerStep(t)
        PROVE  IdleExit(t)
    BY <2>1, <2>2 DEF WorkerStep, Start, Take, Resume, HandleDone, Expire, CancelNew,
       CancelWaiting, CancelHandling, TypeOK
  <2>3. PICK t \in Messages : IdleExit(t)
    BY <2>2 DEF Next, Dispatch, DispatchRejected, DispatchDropped, DispatchAccepted,
       ShutdownBegin, ShutdownEnd, TypeOK
  <2>. QED
    BY <2>3 DEF IdleExit, Exit, FatesAfterExit, TimerFired
<1>. QED
  BY <1>1, TypeCorrect, WorkerInvCorrect, OrderInvCorrect, PTL DEF Spec, LossOnlyAtIdleExit

\* Nothing is alive or queued once shutdown() has returned.
StoppedInv ==
  phase = "stopped" => /\ \A t \in Messages : ~Live(t)
                       /\ \A m \in Messages : fate[m] # "queued"

\* When shutdown() has returned, no worker is left and every message has come to
\* an end.
THEOREM ShutdownLeavesNothing == Spec => []StoppedIsQuiet
<1>1. Init => StoppedInv
  BY DEF Init, StoppedInv
<1>2. TypeOK /\ WorkerInv /\ StoppedInv /\ [Next]_vars => StoppedInv'
  <2> SUFFICES ASSUME TypeOK, WorkerInv, StoppedInv, [Next]_vars, phase' = "stopped"
               PROVE  StoppedInv'
    BY DEF StoppedInv
  <2>1. CASE phase # "stopped"
    <3>1. ShutdownEnd
      BY <2>1 DEF Next, Dispatch, DispatchRejected, DispatchDropped, DispatchAccepted,
         WorkerStep, Start, Take, Resume, HandleDone, Expire, IdleExit, CancelNew,
         CancelWaiting, CancelHandling, Exit, ShutdownBegin, vars
    <3>2. \A t \in Messages : ~Live(t)
      BY <3>1, ConstantsAssumption
         DEF ShutdownEnd, WorkersDone, NeedsWorker, WorkerInv, WorkerOwnsKey, Live
    <3>. QED
      BY <3>1, <3>2 DEF ShutdownEnd, StoppedInv, Live, taskVars
  <2>2. CASE phase = "stopped"
    <3>1. \A t \in Messages : ~WorkerStep(t)
      BY <2>2 DEF StoppedInv, Live, WorkerStep, Start, Take, Resume, HandleDone, Expire,
         IdleExit, CancelNew, CancelWaiting, CancelHandling
    <3>2. (\E m \in Messages : DispatchRejected(m)) \/ UNCHANGED vars
      BY <2>2, <3>1 DEF Next, Dispatch, DispatchDropped, DispatchAccepted, ShutdownBegin,
         ShutdownEnd
    <3>. QED
      BY <2>2, <3>2 DEF DispatchRejected, StoppedInv, Live, taskVars, vars, TypeOK
  <2>. QED
    BY <2>1, <2>2
<1>3. StoppedInv /\ OrderInv => StoppedIsQuiet
  <2>1. InHandInv => \A m \in Messages : fate[m] = "taken" => \E t \in Messages : Live(t)
    BY ConstantsAssumption DEF InHandInv, Busy, Live
  <2>. QED
    BY <2>1 DEF StoppedInv, OrderInv, StoppedIsQuiet
<1>. QED
  BY <1>1, <1>2, <1>3, TypeCorrect, WorkerInvCorrect, OrderInvCorrect, PTL DEF Spec

-----------------------------------------------------------------------------
(***************************************************************************)
(* The Runner implements KeyedQueues.                                      *)
(***************************************************************************)

\* The message in hand for a key is that of its one busy worker, if it has one.
HandInv ==
  \A k \in Keys :
    /\ \A t \in Messages : Busy(t) /\ KeyOf[t] = k => InHand(k) = current[t]
    /\ (\A t \in Messages : Busy(t) => KeyOf[t] # k) => InHand(k) = None

LEMMA HandInvHolds == WorkerInv => HandInv
<1> SUFFICES ASSUME WorkerInv, NEW k \in Keys
             PROVE  /\ \A t \in Messages : Busy(t) /\ KeyOf[t] = k => InHand(k) = current[t]
                    /\ (\A t \in Messages : Busy(t) => KeyOf[t] # k) => InHand(k) = None
  BY DEF HandInv
<1> DEFINE busy == {t \in Messages : Busy(t) /\ KeyOf[t] = k}
<1>1. \A t, u \in busy : t = u
  BY DEF WorkerInv, WorkerOwnsKey, Live, Busy
<1>2. ASSUME NEW t \in Messages, Busy(t), KeyOf[t] = k
      PROVE  InHand(k) = current[t]
  <2>1. t \in busy
    BY <1>2
  <2>2. (CHOOSE u \in busy : TRUE) = t
    BY <1>1, <2>1
  <2>. QED
    BY <2>1, <2>2 DEF InHand
<1>3. ASSUME \A t \in Messages : Busy(t) => KeyOf[t] # k
      PROVE  InHand(k) = None
  BY <1>3 DEF InHand
<1>. QED
  BY <1>2, <1>3

\* A step that changes neither who is busy nor what is in hand.
LEMMA HandsUntouched ==
  ASSUME HandInv, HandInv', current' = current,
         \A t \in Messages : Busy(t)' <=> Busy(t)
  PROVE  [k \in Keys |-> InHand(k)]' = [k \in Keys |-> InHand(k)]
<1>1. ASSUME NEW k \in Keys PROVE InHand(k)' = InHand(k)
  <2>1. CASE \E t \in Messages : Busy(t) /\ KeyOf[t] = k
    BY <2>1 DEF HandInv
  <2>2. CASE ~\E t \in Messages : Busy(t) /\ KeyOf[t] = k
    BY <2>2 DEF HandInv
  <2>. QED
    BY <2>1, <2>2
<1>. QED
  BY <1>1

\* A step of the one live worker of a key changes what is in hand for that key
\* only: to the message it has afterwards, or to nothing.
LEMMA HandOfOneWorker ==
  ASSUME WorkerInv, HandInv, HandInv', NEW t \in Messages, Live(t),
         \A u \in Messages : u # t => current'[u] = current[u] /\ pc'[u] = pc[u]
  PROVE  [k \in Keys |-> InHand(k)]'
           = [[k \in Keys |-> InHand(k)] EXCEPT
                ![KeyOf[t]] = IF Busy(t)' THEN current'[t] ELSE None]
<1> DEFINE h == [k \in Keys |-> InHand(k)]
           x == IF Busy(t)' THEN current'[t] ELSE None
<1>1. KeyOf[t] \in Keys
  BY ConstantsAssumption
<1>2. ASSUME NEW u \in Messages, u # t, KeyOf[u] = KeyOf[t] PROVE ~Busy(u)'
  BY <1>2 DEF WorkerInv, WorkerOwnsKey, Live, Busy
<1>3. InHand(KeyOf[t])' = x
  <2>1. CASE Busy(t)'
    BY <1>1, <2>1 DEF HandInv
  <2>2. CASE ~Busy(t)'
    BY <1>1, <1>2, <2>2 DEF HandInv
  <2>. QED
    BY <2>1, <2>2
<1>4. ASSUME NEW k \in Keys, k # KeyOf[t] PROVE InHand(k)' = InHand(k)
  <2>1. \A u \in Messages : KeyOf[u] = k =>
          (Busy(u)' <=> Busy(u)) /\ current'[u] = current[u]
    BY <1>4 DEF Busy
  <2>2. CASE \E u \in Messages : Busy(u) /\ KeyOf[u] = k
    BY <2>1, <2>2 DEF HandInv
  <2>3. CASE ~\E u \in Messages : Busy(u) /\ KeyOf[u] = k
    BY <2>1, <2>3 DEF HandInv
  <2>. QED
    BY <2>2, <2>3
<1>. QED
  BY <1>1, <1>3, <1>4

\* Every step of the Runner is a step of KeyedQueues or leaves its state alone.
LEMMA RefinementStep ==
  TypeOK /\ WorkerInv /\ OrderInv /\ HandInv /\ HandInv' /\ [Next]_vars
    => [Promise!Next]_(Promise!vars)
<1> SUFFICES ASSUME TypeOK, WorkerInv, OrderInv, HandInv, HandInv', [Next]_vars
             PROVE  Promise!Next \/ UNCHANGED Promise!vars
  BY DEF Promise!vars
<1> DEFINE open == phase = "running"
           seen == {m \in Messages : fate[m] # "unsent"}
           active == [k \in Keys |-> InHand(k)]
<1>1. ASSUME NEW m \in Messages, Dispatch(m) PROVE Promise!Offer(m)
  <2>1. /\ m \notin seen /\ KeyOf[m] \in Keys /\ phase' = phase
        /\ current' = current /\ pc[m] = "none"
    BY <1>1, ConstantsAssumption DEF Dispatch, DispatchRejected, DispatchDropped,
       DispatchAccepted, taskVars, WorkerInv, TasksWereSent
  <2>2. seen' = seen \cup {m}
    BY <1>1 DEF Dispatch, DispatchRejected, DispatchDropped, DispatchAccepted, TypeOK
  <2>3. \A u \in Messages : Busy(u)' <=> Busy(u)
    BY <1>1, <2>1 DEF Dispatch, DispatchRejected, DispatchDropped, DispatchAccepted,
       taskVars, Busy, TypeOK
  <2>4. active' = active
    BY <2>1, <2>3, HandsUntouched
  <2>5. CASE DispatchAccepted(m)
    BY <2>1, <2>2, <2>4, <2>5 DEF Promise!Offer, DispatchAccepted, HasRoom
  <2>6. CASE DispatchRejected(m)
    BY <2>1, <2>2, <2>4, <2>6 DEF Promise!Offer, DispatchRejected, dictVars
  <2>7. CASE DispatchDropped(m)
    <3>1. Len(queues[KeyOf[m]]) = MaxQueueSize
      BY <2>1, <2>7, SequenceFacts, ConstantsAssumption DEF DispatchDropped, HasRoom, TypeOK
    <3>. QED
      BY <2>1, <2>2, <2>4, <2>7, <3>1 DEF Promise!Offer, DispatchDropped, dictVars
  <2>. QED
    BY <1>1, <2>5, <2>6, <2>7 DEF Dispatch
<1>2. ASSUME NEW t \in Messages, Start(t) \/ Resume(t) \/ Expire(t) \/ CancelNew(t)
      PROVE  UNCHANGED Promise!vars
  <2>1. /\ phase' = phase /\ queues' = queues /\ current' = current /\ fate' = fate
        /\ \A u \in Messages : Busy(u)' <=> Busy(u)
    BY <1>2 DEF Start, Resume, Expire, CancelNew, dictVars, Busy, TypeOK
  <2>2. active' = active
    BY <2>1, HandsUntouched
  <2>. QED
    BY <2>1, <2>2 DEF Promise!vars
<1>3. ASSUME NEW t \in Messages, Take(t) PROVE Promise!Begin(KeyOf[t])
  <2> DEFINE k == KeyOf[t]
  <2>1. /\ k \in Keys /\ Live(t) /\ ~Busy(t) /\ queues[k] # <<>>
        /\ \A u \in Messages : u # t => current'[u] = current[u] /\ pc'[u] = pc[u]
        /\ Busy(t)' /\ current'[t] = Head(queues[k])
        /\ phase' = phase /\ queues' = [queues EXCEPT ![k] = Tail(@)]
    BY <1>3, ConstantsAssumption DEF Take, Live, Busy, TypeOK
  <2>2. \A u \in Messages : Busy(u) => KeyOf[u] # k
    BY <2>1 DEF WorkerInv, WorkerOwnsKey, Live, Busy
  <2>3. active[k] = None
    BY <2>1, <2>2 DEF HandInv
  <2>4. active' = [active EXCEPT ![k] = Head(queues[k])]
    BY <2>1, HandOfOneWorker
  <2>5. seen' = seen
    BY <1>3, <2>1, HeadIsQueued DEF Take, OrderInv, LogInv, TypeOK
  <2>. QED
    BY <2>1, <2>3, <2>4, <2>5 DEF Promise!Begin
<1>4. ASSUME NEW t \in Messages, HandleDone(t) PROVE Promise!End(KeyOf[t])
  <2> DEFINE k == KeyOf[t]
  <2>1. /\ k \in Keys /\ Live(t) /\ Busy(t)
        /\ \A u \in Messages : u # t => current'[u] = current[u] /\ pc'[u] = pc[u]
        /\ ~Busy(t)' /\ phase' = phase /\ queues' = queues
    BY <1>4, ConstantsAssumption DEF HandleDone, Live, Busy, TypeOK, dictVars
  <2>2. active[k] = current[t] /\ current[t] # None /\ fate[current[t]] = "taken"
    BY <2>1 DEF HandInv, OrderInv, InHandInv
  <2>3. active' = [active EXCEPT ![k] = None]
    BY <2>1, HandOfOneWorker
  <2>4. seen' = seen
    BY <1>4, <2>2 DEF HandleDone, TypeOK
  <2>. QED
    BY <2>1, <2>2, <2>3, <2>4 DEF Promise!End
<1>5. ASSUME NEW t \in Messages, IdleExit(t) \/ CancelWaiting(t) \/ CancelHandling(t)
      PROVE  Promise!Forget(KeyOf[t])
  <2> DEFINE k == KeyOf[t]
  <2>1. k \in Keys /\ Live(t) /\ Exit(t, "aborted")
    BY <1>5, ConstantsAssumption DEF IdleExit, CancelWaiting, CancelHandling, Live
  <2>2. queues' = [queues EXCEPT ![k] = <<>>]
    BY <2>1, ExitRemovesKey DEF RemoveKey
  <2>3. phase = "running" => ~Busy(t)
    BY <1>5 DEF IdleExit, CancelWaiting, CancelHandling, WorkerInv, DictsAgree, Busy
  <2>4. open => active[k] = None
    <3>1. open => \A u \in Messages : Busy(u) => KeyOf[u] # k
      BY <2>1, <2>3 DEF WorkerInv, WorkerOwnsKey, Live, Busy
    <3>. QED
      BY <2>1, <3>1 DEF HandInv
  <2>5. /\ \A u \in Messages : u # t => current'[u] = current[u] /\ pc'[u] = pc[u]
        /\ ~Busy(t)' /\ phase' = phase
    BY <2>1 DEF Exit, Busy, TypeOK
  <2>6. active' = [active EXCEPT ![k] = None]
    BY <2>1, <2>5, HandOfOneWorker
  <2>7. seen' = seen
    <3>1. \A m \in Messages : m = current[t] => fate[m] = "taken"
      BY ConstantsAssumption DEF OrderInv, InHandInv
    <3>. QED
      BY <2>1, <3>1 DEF Exit, FatesAfterExit
  <2>. QED
    BY <2>2, <2>4, <2>5, <2>6, <2>7 DEF Promise!Forget
<1>6. CASE ShutdownBegin
  <2>1. /\ phase = "running" /\ phase' # "running" /\ queues' = queues
        /\ current' = current /\ fate' = fate /\ pc' = pc
    BY <1>6 DEF ShutdownBegin, dictVars
  <2>2. active' = active
    BY <2>1, HandsUntouched DEF Busy
  <2>. QED
    BY <2>1, <2>2 DEF Promise!Next, Promise!Close
<1>7. CASE ShutdownEnd
  <2>1. \A t \in Messages : ~Live(t)
    BY <1>7, ConstantsAssumption
       DEF ShutdownEnd, WorkersDone, NeedsWorker, WorkerInv, WorkerOwnsKey, Live
  <2>2. \A k \in Keys : active[k] = None
    BY <2>1 DEF HandInv, Live, Busy
  <2>3. /\ phase = "stopping" /\ phase' = "stopped" /\ pc' = pc /\ current' = current
        /\ queues' = [k \in Keys |-> <<>>]
    BY <1>7 DEF ShutdownEnd, taskVars
  <2>4. active' = active
    BY <2>3, HandsUntouched DEF Busy
  <2>5. seen' = seen
    BY <1>7 DEF ShutdownEnd
  <2>. QED
    BY <2>2, <2>3, <2>4, <2>5 DEF Promise!Next, Promise!Abandon
<1>8. CASE UNCHANGED vars
  <2>1. active' = active
    BY <1>8, HandsUntouched DEF vars, Busy
  <2>. QED
    BY <1>8, <2>1 DEF vars, Promise!vars
<1>9. \A t \in Messages : KeyOf[t] \in Keys
  BY ConstantsAssumption
<1>. QED
  BY <1>1, <1>2, <1>3, <1>4, <1>5, <1>6, <1>7, <1>8, <1>9
     DEF Next, WorkerStep, Promise!Next

\* Seen from dispatch() and from the handler, the Runner with its workers,
\* generations, timers and cancellations is a bounded FIFO queue per key whose
\* messages are processed one at a time and at most once.
THEOREM RunnerRefinesKeyedQueues == Spec => ImplementsKeyedQueues
<1>1. Init => Promise!Init
  <2> SUFFICES ASSUME Init PROVE Promise!Init
    OBVIOUS
  <2>1. \A k \in Keys : InHand(k) = None
    BY DEF Init, InHand, Busy
  <2>. QED
    BY <2>1 DEF Init, Promise!Init
<1>2. Spec => []HandInv
  BY WorkerInvCorrect, HandInvHolds, PTL
<1>. QED
  BY <1>1, <1>2, RefinementStep, TypeCorrect, WorkerInvCorrect, OrderInvCorrect, PTL
     DEF Spec, ImplementsKeyedQueues, Promise!Spec
=============================================================================
