-------------------------------- MODULE Intake --------------------------------
(***************************************************************************)
(* xiaopaw/feishu/listener.py and observability/security.py: what happens  *)
(* to an event that Feishu delivers, up to Runner.dispatch().  The replay  *)
(* cache is an ordered dictionary with a time to live and a capacity; the  *)
(* rate limiter keeps a sliding window per user.  _handle_message_event    *)
(* runs in one go: the cache's lock is never held across an await.  Feishu *)
(* (external) delivers an event any number of times, at any distance.      *)
(*                                                                         *)
(* Both are sets of entries that carry the number of the delivery that put *)
(* them there: it gives the order of the dictionary, and tells entries of  *)
(* the same tick apart in a window, of which the code uses only the size.  *)
(*                                                                         *)
(* Bounds: MaxTime ticks of the clock, MaxDeliveries deliveries.           *)
(***************************************************************************)
EXTENDS Naturals, Sequences, FiniteSets

CONSTANTS Events, Users, UserOf,
          Unnamed,   \* events whose header has no event_id
          Elsewhere, \* events of a chat that allowed_chats does not name
          Broken,    \* events whose content is not JSON: the handler's except clause
          Ttl, CacheSize, Window, Limit, MaxTime, MaxDeliveries

ASSUME IntakeAssumption ==
  /\ UserOf \in [Events -> Users]
  /\ Unnamed \subseteq Events /\ Elsewhere \subseteq Events /\ Broken \subseteq Events
  /\ Ttl \in Nat \ {0} /\ CacheSize \in Nat \ {0}
  /\ Window \in Nat \ {0} /\ Limit \in Nat \ {0}
  /\ MaxTime \in Nat /\ MaxDeliveries \in Nat

VARIABLES
  now,         \* time.monotonic()
  cache,       \* ReplayCache._cache: its entries, of which nr gives the order
  windows,     \* RateLimiter._windows
  deliveries,  \* events delivered so far
  latest,      \* the latest delivery and its verdict (history)
  recorded,    \* when each event was last recorded, 0 if never (history)
  since,       \* other events met since the event's latest delivery (history)
  grants       \* when each user was let through, in that order (history)

vars == <<now, cache, windows, deliveries, latest, recorded, since, grants>>

NoEvent == [event |-> "none", verdict |-> "none"]

\* The clock starts at 1, since recorded uses 0 for "never".
Init ==
  /\ now = 1
  /\ cache = {}
  /\ windows = [u \in Users |-> {}]
  /\ deliveries = 0 /\ latest = NoEvent
  /\ recorded = [e \in Events |-> 0]
  /\ since = [e \in Events |-> {}]
  /\ grants = [u \in Users |-> <<>>]

Tick ==
  /\ now < MaxTime
  /\ now' = now + 1
  /\ latest' = NoEvent
  /\ UNCHANGED <<cache, windows, deliveries, recorded, since, grants>>

-----------------------------------------------------------------------------
(***************************************************************************)
(* ReplayCache.seen()                                                      *)
(***************************************************************************)

Fresh == {x \in cache : now - x.time <= Ttl}
Seen(e) == \E x \in Fresh : x.event = e

\* A hit moves the entry to the end and keeps its time.
MovedToEnd(e) ==
  {IF x.event = e THEN [x EXCEPT !.nr = deliveries'] ELSE x : x \in Fresh}

\* Mutant: the entry that has just been used is the one to go.
EvictNewest(entries) ==
  IF Cardinality(entries) >= CacheSize
  THEN entries \ {x \in entries : \A y \in entries : y.nr <= x.nr} ELSE entries
Evict(entries) ==
  IF Cardinality(entries) >= CacheSize
  THEN entries \ {x \in entries : \A y \in entries : x.nr <= y.nr} ELSE entries

CacheAfter(e) ==
  IF e \in Unnamed THEN cache
  ELSE IF Seen(e) THEN MovedToEnd(e)
  ELSE Evict(Fresh) \cup {[event |-> e, time |-> now, nr |-> deliveries']}

(***************************************************************************)
(* RateLimiter.allow()                                                     *)
(***************************************************************************)

\* Mutant: what is exactly one window old still counts.
RecentInclusive(u) == {x \in windows[u] : x.time + Window >= now}
Recent(u) == {x \in windows[u] : x.time + Window > now}
Allowed(u) == Cardinality(Recent(u)) < Limit

-----------------------------------------------------------------------------
(***************************************************************************)
(* _handle_message_event(): the event is recorded first, then the user's   *)
(* allowance is used, then the event is looked at.                         *)
(***************************************************************************)

Verdict(e) ==
  IF e \notin Unnamed /\ Seen(e) THEN "replay"
  ELSE IF ~Allowed(UserOf[e]) THEN "limited"
  ELSE IF e \in Elsewhere THEN "elsewhere"
  ELSE IF e \in Broken THEN "broken"
  ELSE "dispatched"

Receive(e) ==
  /\ deliveries < MaxDeliveries
  /\ deliveries' = deliveries + 1
  /\ latest' = [event |-> e, verdict |-> Verdict(e)]
  /\ cache' = CacheAfter(e)
  /\ recorded' = IF Verdict(e) = "replay" THEN recorded ELSE [recorded EXCEPT ![e] = now]
  /\ since' = [f \in Events |-> IF f = e THEN {}
                                ELSE IF e \in Unnamed THEN since[f] ELSE since[f] \cup {e}]
  /\ LET u == UserOf[e]
         grant == [time |-> now, nr |-> deliveries']
     IN CASE Verdict(e) = "replay" -> UNCHANGED <<windows, grants>>
          [] Verdict(e) = "limited" -> /\ windows' = [windows EXCEPT ![u] = Recent(u)]
                                       /\ UNCHANGED grants
          [] OTHER -> /\ windows' = [windows EXCEPT ![u] = Recent(u) \cup {grant}]
                      /\ grants' = [grants EXCEPT ![u] = Append(@, grant)]
  /\ UNCHANGED now

Next == Tick \/ \E e \in Events : Receive(e)

Spec == Init /\ [][Next]_vars

-----------------------------------------------------------------------------
\* A redelivered event gets past the replay cache only when its record is older than the
\* time to live, or when the capacity's worth of other events came after its latest delivery.
RedeliveryIsDropped ==
  [][latest'.verdict \notin {"none", "replay"} =>
       LET e == latest'.event
       IN e \in Unnamed \/ recorded[e] = 0 \/ now - recorded[e] > Ttl
          \/ Cardinality(since[e]) >= CacheSize]_vars

\* A user is let through at most Limit times in any window, and turned away only after
\* having been let through Limit times in the window that ends now.
RateIsExact ==
  /\ \A u \in Users : \A i \in DOMAIN grants[u] :
       i + Limit \in DOMAIN grants[u] =>
         grants[u][i + Limit].time >= grants[u][i].time + Window
  /\ latest.verdict = "limited" =>
       LET u == UserOf[latest.event]
       IN Cardinality({i \in DOMAIN grants[u] : grants[u][i].time + Window > now}) >= Limit

=============================================================================
