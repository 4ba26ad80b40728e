---------------------------- MODULE KeyedQueues ----------------------------
(***************************************************************************)
(* What the Runner promises its callers, without workers, generations or   *)
(* timers: for every routing key a bounded FIFO queue whose messages are   *)
(* processed one at a time, at most once each, in the order of arrival.    *)
(*                                                                         *)
(* The promise is at most once, not exactly once: an idle key may be       *)
(* forgotten together with what was queued for it, and closing the service *)
(* abandons everything.                                                    *)
(***************************************************************************)
EXTENDS Naturals, Sequences

CONSTANTS Keys, Messages, KeyOf, MaxQueueSize, None

VARIABLES
  open,     \* FALSE once the service is being closed
  seen,     \* the messages offered so far
  pending,  \* pending[k]: messages waiting, oldest first
  active    \* active[k]: the message being processed, or None

vars == <<open, seen, pending, active>>

Init ==
  /\ open = TRUE
  /\ seen = {}
  /\ pending = [k \in Keys |-> <<>>]
  /\ active = [k \in Keys |-> None]

\* A message is offered: queued if there is room, else refused.
Offer(m) ==
  LET k == KeyOf[m] IN
  /\ m \notin seen
  /\ seen' = seen \cup {m}
  /\ \/ /\ open /\ Len(pending[k]) < MaxQueueSize
        /\ pending' = [pending EXCEPT ![k] = Append(@, m)]
     \/ /\ ~open \/ Len(pending[k]) = MaxQueueSize
        /\ UNCHANGED pending
  /\ UNCHANGED <<open, active>>

Begin(k) ==
  /\ active[k] = None
  /\ pending[k] # <<>>
  /\ active' = [active EXCEPT ![k] = Head(pending[k])]
  /\ pending' = [pending EXCEPT ![k] = Tail(@)]
  /\ UNCHANGED <<open, seen>>

End(k) ==
  /\ active[k] # None
  /\ active' = [active EXCEPT ![k] = None]
  /\ UNCHANGED <<open, seen, pending>>

\* While the service is open only an idle key may be forgotten.
Forget(k) ==
  /\ open => active[k] = None
  /\ pending' = [pending EXCEPT ![k] = <<>>]
  /\ active' = [active EXCEPT ![k] = None]
  /\ UNCHANGED <<open, seen>>

Close ==
  /\ open
  /\ open' = FALSE
  /\ UNCHANGED <<seen, pending, active>>

\* Closing ends with nothing pending and nothing being processed.
Abandon ==
  /\ ~open
  /\ \A k \in Keys : active[k] = None
  /\ pending' = [k \in Keys |-> <<>>]
  /\ UNCHANGED <<open, seen, active>>

Next ==
  \/ \E m \in Messages : Offer(m)
  \/ \E k \in Keys : Begin(k) \/ End(k) \/ Forget(k)
  \/ Close
  \/ Abandon

Spec == Init /\ [][Next]_vars
=============================================================================
