------------------------------- MODULE Runner -------------------------------
(***************************************************************************)
(* The Runner of xiaopaw/runner.py: one bounded FIFO queue and one worker  *)
(* task per routing key, created on demand by dispatch(), retired after an *)
(* idle timeout, cancelled by shutdown().                                  *)
(*                                                                         *)
(* All of it runs on one asyncio event loop, so a step of this module is   *)
(* what one coroutine does between two suspension points.  dispatch() has  *)
(* no suspension point: _dispatch_lock is never contended and put() on a   *)
(* queue that is not full never waits, so it is one step.                  *)
(*                                                                         *)
(* asyncio.wait_for is where the interleavings are.  Three facts about it  *)
(* are modelled, two of which depend on the interpreter:                   *)
(*  - when the idle timer fires the worker is only scheduled; dispatch()   *)
(*    may run before the worker resumes with TimeoutError ("expired");     *)
(*  - on Python 3.11 (getRunsAsTask) queue.get() runs in an inner task, so *)
(*    an item can be taken off the queue before the worker resumes         *)
(*    ("fetched"), and a cancellation that arrives then is swallowed: the  *)
(*    item is returned as if nothing had happened;                         *)
(*  - from Python 3.12 on the worker awaits get() itself: a cancellation   *)
(*    always wins, and the timer may still beat a wake-up already queued.  *)
(* Which interpreter runs is chosen once, in the initial state.            *)
(***************************************************************************)
EXTENDS Integers, Sequences

CONSTANTS
  Keys,           \* routing keys
  Messages,       \* inbound messages; each is dispatched at most once
  KeyOf,          \* KeyOf[m]: the routing key of m
  MaxQueueSize,   \* max_queue_size of the constructor
  None            \* Python's None

ASSUME ConstantsAssumption ==
  /\ KeyOf \in [Messages -> Keys]
  /\ MaxQueueSize \in Nat \ {0}
  /\ None \notin Messages

VARIABLES
  getRunsAsTask,  \* wait_for runs get() in a task (Python 3.11); never changes
  phase,      \* "running"; "stopping" from shutdown() on; "stopped" at its end
  queueKeys,  \* DOMAIN of self._queues
  queues,     \* queues[k]: contents of self._queues[k]
  queueGen,   \* self._queue_gen, Absent where the key is missing
  workers,    \* self._workers, None where the key is missing
  pc,         \* pc[t]: where the worker task created by dispatch(t) is
  gen,        \* gen[t]: the gen argument of that task
  current,    \* current[t]: the message that task has taken, or None
  cancelled,  \* the tasks with a cancellation not yet delivered
  fate,       \* fate[m]: what has become of m (history)
  log         \* log[k]: messages accepted for k in order of arrival (history)

vars == <<getRunsAsTask, phase, queueKeys, queues, queueGen, workers, pc, gen,
          current, cancelled, fate, log>>
taskVars == <<pc, gen, current, cancelled>>
dictVars == <<queueKeys, queues, queueGen, workers>>

(***************************************************************************)
(* A worker task is named by the message whose dispatch() created it.      *)
(***************************************************************************)
Absent == -1
PcStates == {"none", "new", "waiting", "expired", "fetched", "handling", "gone"}
Fates == {"unsent", "rejected", "dropped", "queued", "taken", "handled",
          "aborted", "lost"}

Live(t) == pc[t] \notin {"none", "gone"}
Busy(t) == pc[t] \in {"fetched", "handling"}

Init ==
  /\ getRunsAsTask \in BOOLEAN
  /\ phase = "running"
  /\ queueKeys = {}
  /\ queues = [k \in Keys |-> <<>>]
  /\ queueGen = [k \in Keys |-> Absent]
  /\ workers = [k \in Keys |-> None]
  /\ pc = [t \in Messages |-> "none"]
  /\ gen = [t \in Messages |-> 0]
  /\ current = [t \in Messages |-> None]
  /\ cancelled = {}
  /\ fate = [m \in Messages |-> "unsent"]
  /\ log = [k \in Keys |-> <<>>]

-----------------------------------------------------------------------------
(***************************************************************************)
(* dispatch(inbound)                                                       *)
(***************************************************************************)

DispatchRejected(m) ==
  /\ fate[m] = "unsent"
  /\ phase # "running"
  /\ fate' = [fate EXCEPT ![m] = "rejected"]
  /\ UNCHANGED <<getRunsAsTask, phase, dictVars, taskVars, log>>

\* q.full() is false.
HasRoomOffByOne(k) == Len(queues[k]) <= MaxQueueSize     \* faulty variant
HasRoom(k) == Len(queues[k]) < MaxQueueSize

\* A full queue drops the message; the caller is not told.
DispatchDropped(m) ==
  /\ fate[m] = "unsent"
  /\ phase = "running"
  /\ ~HasRoom(KeyOf[m])
  /\ fate' = [fate EXCEPT ![m] = "dropped"]
  /\ UNCHANGED <<getRunsAsTask, phase, dictVars, taskVars, log>>

\* key not in self._workers or self._workers[key].done()
NeedsWorkerAlways(k) == k \in Keys                       \* faulty variant
NeedsWorker(k) == \A t \in Messages : workers[k] = t => pc[t] = "gone"

DispatchAccepted(m) ==
  LET k == KeyOf[m]
      base == IF k \in queueKeys THEN queueGen[k] ELSE 0
  IN
  /\ fate[m] = "unsent"
  /\ phase = "running"
  /\ HasRoom(k)
  /\ queueKeys' = queueKeys \cup {k}
  /\ queues' = [queues EXCEPT ![k] = Append(@, m)]
  /\ log' = [log EXCEPT ![k] = Append(@, m)]
  /\ fate' = [fate EXCEPT ![m] = "queued"]
  /\ \/ /\ NeedsWorker(k)
        /\ queueGen' = [queueGen EXCEPT ![k] = base + 1]
        /\ workers' = [workers EXCEPT ![k] = m]
        /\ pc' = [pc EXCEPT ![m] = "new"]
        /\ gen' = [gen EXCEPT ![m] = base + 1]
     \/ /\ ~NeedsWorker(k)
        /\ queueGen' = [queueGen EXCEPT ![k] = base]
        /\ UNCHANGED <<workers, pc, gen>>
  /\ UNCHANGED <<getRunsAsTask, phase, current, cancelled>>

Dispatch(m) == DispatchRejected(m) \/ DispatchDropped(m) \/ DispatchAccepted(m)

-----------------------------------------------------------------------------
(***************************************************************************)
(* _worker(key, gen)                                                       *)
(***************************************************************************)

\* The finally block: a worker whose generation is current removes its key
\* from the three dictionaries, with whatever the queue still holds.  (The
\* except Exception clause before it is never entered: _handle catches every
\* Exception itself.)
OwnsKeyOffByOne(t) == queueGen[KeyOf[t]] = gen[t] + 1    \* faulty variant
OwnsKey(t) == queueGen[KeyOf[t]] = gen[t]

RemoveWorkerOnly(k) ==                                   \* faulty variant
  /\ workers' = [workers EXCEPT ![k] = None]
  /\ UNCHANGED <<queueKeys, queues, queueGen>>
RemoveKey(k) ==
  /\ queueKeys' = queueKeys \ {k}
  /\ queues' = [queues EXCEPT ![k] = <<>>]
  /\ queueGen' = [queueGen EXCEPT ![k] = Absent]
  /\ workers' = [workers EXCEPT ![k] = None]

Cleanup(t) ==
  IF OwnsKey(t) THEN RemoveKey(KeyOf[t]) ELSE UNCHANGED dictVars

\* What cleanup does to the messages: those in the removed queue are lost,
\* the one in hand gets the fate "inHand".
FatesAfterExit(t, inHand) ==
  [m \in Messages |->
     IF m = current[t] THEN inHand
     ELSE IF OwnsKey(t) /\ fate[m] = "queued" /\ KeyOf[m] = KeyOf[t]
          THEN "lost" ELSE fate[m]]

Exit(t, inHand) ==
  /\ Cleanup(t)
  /\ pc' = [pc EXCEPT ![t] = "gone"]
  /\ current' = [current EXCEPT ![t] = None]
  /\ cancelled' = cancelled \ {t}
  /\ fate' = FatesAfterExit(t, inHand)
  /\ UNCHANGED <<getRunsAsTask, phase, gen, log>>

\* The first step of the task runs up to wait_for.
Start(t) ==
  /\ pc[t] = "new" /\ t \notin cancelled
  /\ pc' = [pc EXCEPT ![t] = "waiting"]
  /\ UNCHANGED <<getRunsAsTask, phase, dictVars, gen, current, cancelled,
                 fate, log>>

TakeNewest(t) ==                                         \* faulty variant
  LET k == KeyOf[t]
      n == Len(queues[k])
  IN
  /\ pc[t] = "waiting" /\ n > 0
  /\ queues' = [queues EXCEPT ![k] = SubSeq(@, 1, n - 1)]
  /\ current' = [current EXCEPT ![t] = queues[k][n]]
  /\ fate' = [fate EXCEPT ![queues[k][n]] = "taken"]
  /\ pc' = [pc EXCEPT ![t] = "fetched"]
  /\ UNCHANGED <<getRunsAsTask, phase, queueKeys, queueGen, workers, gen,
                 cancelled, log>>

\* get() completes.  On Python 3.11 the inner task does it, cancelled or not.
Take(t) ==
  LET k == KeyOf[t] IN
  /\ pc[t] = "waiting"
  /\ queues[k] # <<>>
  /\ getRunsAsTask \/ t \notin cancelled
  /\ queues' = [queues EXCEPT ![k] = Tail(@)]
  /\ current' = [current EXCEPT ![t] = Head(queues[k])]
  /\ fate' = [fate EXCEPT ![Head(queues[k])] = "taken"]
  /\ pc' = [pc EXCEPT ![t] = IF getRunsAsTask THEN "fetched" ELSE "handling"]
  /\ UNCHANGED <<getRunsAsTask, phase, queueKeys, queueGen, workers, gen,
                 cancelled, log>>

\* wait_for returns the item to the worker; a cancellation that arrived
\* meanwhile is swallowed.  The worker goes on into _handle.
Resume(t) ==
  /\ pc[t] = "fetched"
  /\ pc' = [pc EXCEPT ![t] = "handling"]
  /\ cancelled' = cancelled \ {t}
  /\ UNCHANGED <<getRunsAsTask, phase, dictVars, gen, current, fate, log>>

HandleThenExit(t) ==                                     \* faulty variant
  /\ pc[t] = "handling" /\ t \notin cancelled
  /\ Exit(t, "handled")

\* _handle returns; the worker loops back into wait_for.
HandleDone(t) ==
  /\ pc[t] = "handling" /\ t \notin cancelled
  /\ pc' = [pc EXCEPT ![t] = "waiting"]
  /\ current' = [current EXCEPT ![t] = None]
  /\ fate' = [fate EXCEPT ![current[t]] = "handled"]
  /\ UNCHANGED <<getRunsAsTask, phase, dictVars, gen, cancelled, log>>

ExpireWhileRunning(t) ==                                 \* faulty variant
  /\ phase = "running"
  /\ pc[t] = "waiting"
  /\ queues[KeyOf[t]] = <<>>
  /\ pc' = [pc EXCEPT ![t] = "expired"]
  /\ UNCHANGED <<getRunsAsTask, phase, dictVars, gen, current, cancelled,
                 fate, log>>

\* The idle timer fires; the worker will resume with TimeoutError.  On Python
\* 3.11 a get() already woken by a put still wins over the timer.  From 3.12 on
\* it does not; that the timer may here beat a message which was in the queue
\* before the worker came to wait is more than the code allows.
Expire(t) ==
  /\ pc[t] = "waiting" /\ t \notin cancelled
  /\ getRunsAsTask => queues[KeyOf[t]] = <<>>
  /\ pc' = [pc EXCEPT ![t] = "expired"]
  /\ UNCHANGED <<getRunsAsTask, phase, dictVars, gen, current, cancelled,
                 fate, log>>

\* except asyncio.TimeoutError: break, then finally.  The queue is not looked
\* at again.
IdleExit(t) ==
  /\ pc[t] = "expired"
  /\ Exit(t, "aborted")

\* CancelledError is delivered.  A task that never started runs no finally.
\* On Python 3.11 an item still in the queue is taken first (Take).
CancelNew(t) ==
  /\ pc[t] = "new" /\ t \in cancelled
  /\ pc' = [pc EXCEPT ![t] = "gone"]
  /\ cancelled' = cancelled \ {t}
  /\ UNCHANGED <<getRunsAsTask, phase, dictVars, gen, current, fate, log>>

CancelWaiting(t) ==
  /\ pc[t] = "waiting" /\ t \in cancelled
  /\ getRunsAsTask => queues[KeyOf[t]] = <<>>
  /\ Exit(t, "aborted")

CancelHandling(t) ==
  /\ pc[t] = "handling" /\ t \in cancelled
  /\ Exit(t, "aborted")

-----------------------------------------------------------------------------
(***************************************************************************)
(* shutdown()                                                              *)
(***************************************************************************)

\* Everything up to the first await: the flag and the cancel() calls.
ShutdownBegin ==
  /\ phase = "running"
  /\ phase' = "stopping"
  /\ cancelled' = {t \in Messages : Live(t) /\ workers[KeyOf[t]] = t}
  /\ UNCHANGED <<getRunsAsTask, dictVars, pc, gen, current, fate, log>>

\* gather() returns when every worker it was given is done.
WorkersDoneUnawaited == phase = "stopping"               \* faulty variant
WorkersDone == \A k \in Keys : NeedsWorker(k)

\* _pending_index_tasks is never filled, so its two statements do nothing.
ShutdownEnd ==
  /\ phase = "stopping"
  /\ WorkersDone
  /\ phase' = "stopped"
  /\ workers' = [k \in Keys |-> None]
  /\ queueKeys' = {}
  /\ queues' = [k \in Keys |-> <<>>]
  /\ fate' = [m \in Messages |-> IF fate[m] = "queued" THEN "lost" ELSE fate[m]]
  /\ UNCHANGED <<getRunsAsTask, queueGen, taskVars, log>>

-----------------------------------------------------------------------------
WorkerStep(t) ==
  \/ Start(t) \/ Take(t) \/ Resume(t) \/ HandleDone(t)
  \/ Expire(t) \/ IdleExit(t)
  \/ CancelNew(t) \/ CancelWaiting(t) \/ CancelHandling(t)

Next ==
  \/ \E m \in Messages : Dispatch(m)
  \/ \E t \in Messages : WorkerStep(t)
  \/ ShutdownBegin
  \/ ShutdownEnd

Spec == Init /\ [][Next]_vars

(***************************************************************************)
(* The event loop runs every ready callback, timers fire, and the agent    *)
(* call inside _handle ends (its LLM calls and tools carry timeouts).      *)
(* Nobody is obliged to send a message or to stop the process.             *)
(***************************************************************************)
Fairness ==
  /\ \A t \in Messages : WF_vars(WorkerStep(t))
  /\ WF_vars(ShutdownEnd)

FairSpec == Spec /\ Fairness

-----------------------------------------------------------------------------
(***************************************************************************)
(* Properties                                                              *)
(***************************************************************************)

\* Every variable stays in its domain and no queue exceeds its bound.
TypeOK ==
  /\ getRunsAsTask \in BOOLEAN
  /\ phase \in {"running", "stopping", "stopped"}
  /\ queueKeys \in SUBSET Keys
  /\ queues \in [Keys -> Seq(Messages)]
  /\ queueGen \in [Keys -> Nat \cup {Absent}]
  /\ workers \in [Keys -> Messages \cup {None}]
  /\ pc \in [Messages -> PcStates]
  /\ gen \in [Messages -> Nat]
  /\ current \in [Messages -> Messages \cup {None}]
  /\ cancelled \in SUBSET Messages
  /\ fate \in [Messages -> Fates]
  /\ log \in [Keys -> Seq(Messages)]
  /\ \A k \in Keys : Len(queues[k]) <= MaxQueueSize

\* A worker that is still alive is the one _workers names for its key, and the
\* generation it was started with is the current one: there are never two
\* workers for a routing key, and no cleanup is ever that of a superseded
\* worker (the else branch of the finally block is not reached).
WorkerOwnsKey ==
  \A t \in Messages : Live(t) => workers[KeyOf[t]] = t /\ OwnsKey(t)

\* While the Runner is not shutting down, a queue that holds messages has a live
\* worker of its own key: no dispatch() leaves a message with nobody to take it.
QueueHasWorker ==
  phase = "running" =>
    \A k \in Keys : queues[k] # <<>> =>
      \E t \in Messages : workers[k] = t /\ KeyOf[t] = k /\ Live(t)

\* Messages of one routing key are taken in the order in which dispatch()
\* accepted them: none is taken while an earlier one is still queued, whatever
\* workers came and went in between.
NoOvertaking ==
  \A k \in Keys : \A i, j \in 1..Len(log[k]) :
    i < j /\ fate[log[k][i]] = "queued" => fate[log[k][j]] = "queued"

\* When shutdown() has returned no worker is left to act on a cleared queue or
\* to start handling a message.
StoppedIsQuiet ==
  phase = "stopped" =>
    /\ \A t \in Messages : ~Live(t)
    /\ \A m \in Messages : fate[m] \notin {"queued", "taken"}

\* The idle timer of the worker of m's key has fired.
TimerFired(m) == \E t \in Messages : KeyOf[t] = KeyOf[m] /\ pc[t] = "expired"

\* A queued message disappears unhandled only when the worker of its key exits
\* after its idle timer had fired, or in a shutdown.
LossOnlyAtIdleExit ==
  [][\A m \in Messages :
       fate[m] = "queued" /\ fate'[m] = "lost" =>
         \/ phase # "running"
         \/ TimerFired(m)]_vars

\* No queued message is left lying: unless the Runner is shut down, it is taken or
\* lost.  On Python 3.11 a message that was queued before the worker's idle timer
\* fired is never the one lost; on 3.12 it can be, because the timer can beat a
\* wake-up that is already due, and what the queue holds goes with it.
QueuedIsTaken ==
  \A m \in Messages :
    (fate[m] = "queued" /\ ~TimerFired(m))
      ~> \/ fate[m] \in {"taken", "handled", "aborted"}
         \/ phase # "running"
         \/ ~getRunsAsTask /\ fate[m] = "lost"

\* Worker, queue and generation entry of an idle routing key are released.
WorkersRetire == \A k \in Keys : k \in queueKeys ~> k \notin queueKeys

\* shutdown() returns, even when a worker swallowed its cancellation.
ShutdownCompletes == phase = "stopping" ~> phase = "stopped"

-----------------------------------------------------------------------------
(***************************************************************************)
(* Refinement                                                              *)
(***************************************************************************)

\* The message a key's worker has in hand.
InHand(k) ==
  LET busy == {t \in Messages : Busy(t) /\ KeyOf[t] = k}
  IN IF busy = {} THEN None ELSE current[CHOOSE t \in busy : TRUE]

Promise == INSTANCE KeyedQueues WITH
  open    <- phase = "running",
  seen    <- {m \in Messages : fate[m] # "unsent"},
  pending <- queues,
  active  <- [k \in Keys |-> InHand(k)]

\* The Runner implements the per-key serial queues of KeyedQueues: dispatch()
\* is Offer, the get() of a worker is Begin, the end of _handle is End, and the
\* cleanup of an idle or cancelled worker is Forget.
ImplementsKeyedQueues == Promise!Spec

=============================================================================
