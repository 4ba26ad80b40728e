---------------------------- MODULE FeishuProofs ----------------------------
(***************************************************************************)
(* Proofs about the two ends of the Feishu connection.                     *)
(*                                                                         *)
(* Intake, for every set of events and users, every capacity, time to      *)
(* live, window and limit.                                                 *)
(***************************************************************************)
EXTENDS Intake, FeishuSender, FiniteSetTheorems, TLAPS

Stamp == [time : Nat, nr : Nat]
Deliveries == [event : Events \cup {"none"},
               verdict : {"none", "replay", "limited", "elsewhere", "broken", "dispatched"}]

TypeOK ==
  /\ now \in Nat \ {0} /\ deliveries \in Nat
  /\ cache \in SUBSET [event : Events, time : Nat, nr : Nat]
  /\ windows \in [Users -> SUBSET Stamp]
  /\ latest \in Deliveries
  /\ recorded \in [Events -> Nat]
  /\ since \in [Events -> SUBSET Events]
  /\ grants \in [Users -> Seq(Stamp)]

\* The user's grants are in the order of the deliveries, and so of their times.
GrantsInOrder(u) ==
  /\ \A i \in DOMAIN grants[u] : grants[u][i].time <= now /\ grants[u][i].nr <= deliveries
  /\ \A i, j \in DOMAIN grants[u] :
       i < j => /\ grants[u][i].time <= grants[u][j].time
                /\ grants[u][i].nr < grants[u][j].nr

\* The window holds grants only, and every grant that still counts.
WindowIsGrants(u) ==
  /\ \A x \in windows[u] : \E i \in DOMAIN grants[u] : x = grants[u][i]
  /\ \A i \in DOMAIN grants[u] : grants[u][i].time + Window > now => grants[u][i] \in windows[u]

RateInv == \A u \in Users : GrantsInOrder(u) /\ WindowIsGrants(u)

\* One entry for an event, and no two entries of one delivery.
CacheInv ==
  /\ IsFiniteSet(cache)
  /\ \A e \in Events : IsFiniteSet(since[e])
  /\ \A x \in cache : /\ x.event \notin Unnamed /\ x.time = recorded[x.event]
                      /\ x.time <= now /\ x.nr <= deliveries
  /\ \A x, y \in cache : x.event = y.event \/ x.nr = y.nr => x = y

\* While e may still be redelivered, its entry is there, and what the dictionary holds
\* behind it came after e.
Retained(e) ==
  \E x \in cache : /\ x.event = e
                   /\ \A y \in cache : y.nr > x.nr => y.event \in since[e]
RetentionInv ==
  \A e \in Events \ Unnamed :
    recorded[e] # 0 /\ now - recorded[e] <= Ttl /\ Cardinality(since[e]) < CacheSize
      => Retained(e)

IntakeInv == RateInv /\ CacheInv /\ RetentionInv
-----------------------------------------------------------------------------
LEMMA ConstantFacts ==
  /\ UserOf \in [Events -> Users] /\ Unnamed \subseteq Events
  /\ Ttl \in Nat /\ CacheSize \in Nat /\ CacheSize > 0
  /\ Window \in Nat /\ Window > 0 /\ Limit \in Nat /\ Limit > 0
BY IntakeAssumption DEF IntakeAssumption

LEMMA VerdictType ==
  ASSUME NEW e \in Events
  PROVE  Verdict(e) \in {"replay", "limited", "elsewhere", "broken", "dispatched"}
BY DEF Verdict

LEMMA TypeInit == Init => TypeOK
<1> SUFFICES ASSUME Init PROVE TypeOK
  OBVIOUS
<1>1. <<>> \in Seq(Stamp)
  OBVIOUS
<1>2. grants \in [Users -> Seq(Stamp)] /\ windows \in [Users -> SUBSET Stamp]
  BY <1>1 DEF Init
<1> QED
  BY <1>2 DEF Init, TypeOK, NoEvent, Deliveries

LEMMA TypeNext == TypeOK /\ [Next]_vars => TypeOK'
<1> SUFFICES ASSUME TypeOK, [Next]_vars PROVE TypeOK'
  OBVIOUS
<1> USE ConstantFacts DEF TypeOK
<1>1. CASE Tick
  BY <1>1 DEF Tick, NoEvent, Deliveries
<1>2. ASSUME NEW e \in Events, Receive(e) PROVE TypeOK'
  <2> DEFINE u == UserOf[e]
             grant == [time |-> now, nr |-> deliveries']
  <2>1. now' \in Nat \ {0} /\ deliveries' \in Nat /\ u \in Users /\ grant \in Stamp
    BY <1>2 DEF Receive, Stamp
  <2>2. cache' \in SUBSET [event : Events, time : Nat, nr : Nat]
    <3>1. MovedToEnd(e) \in SUBSET [event : Events, time : Nat, nr : Nat]
      BY <2>1 DEF MovedToEnd, Fresh
    <3>2. Evict(Fresh) \in SUBSET [event : Events, time : Nat, nr : Nat]
      BY DEF Evict, Fresh
    <3> QED
      BY <1>2, <2>1, <3>1, <3>2 DEF Receive, CacheAfter
  <2>3. latest' \in Deliveries
    BY <1>2, VerdictType DEF Receive, Deliveries
  <2>4. recorded' \in [Events -> Nat] /\ since' \in [Events -> SUBSET Events]
    BY <1>2 DEF Receive
  <2>5. windows' \in [Users -> SUBSET Stamp]
    <3>1. Recent(u) \in SUBSET Stamp
      BY <2>1 DEF Recent
    <3> QED
      BY <1>2, <2>1, <3>1 DEF Receive
  <2>6. grants' \in [Users -> Seq(Stamp)]
    <3>1. Append(grants[u], grant) \in Seq(Stamp)
      BY <2>1
    <3> QED
      BY <1>2, <2>1, <3>1 DEF Receive
  <2> QED
    BY <2>1, <2>2, <2>3, <2>4, <2>5, <2>6
<1>3. CASE UNCHANGED vars
  BY <1>3 DEF vars
<1> QED
  BY <1>1, <1>2, <1>3 DEF Next

-----------------------------------------------------------------------------
(***************************************************************************)
(* The rate limiter.                                                       *)
(***************************************************************************)

\* The positions of the grants that still count: the code counts the entries of the
\* window instead, and there are as many.
Counting(u) == {i \in DOMAIN grants[u] : grants[u][i].time + Window > now}

LEMMA GrantsType ==
  ASSUME TypeOK, NEW u \in Users
  PROVE  /\ Len(grants[u]) \in Nat /\ DOMAIN grants[u] = 1 .. Len(grants[u])
         /\ \A i \in DOMAIN grants[u] : grants[u][i].time \in Nat /\ grants[u][i].nr \in Nat
<1> DEFINE s == grants[u]
<1>1. s \in Seq(Stamp)
  BY DEF TypeOK
<1>2. Len(s) \in Nat /\ DOMAIN s = 1 .. Len(s)
  BY <1>1
<1>3. ASSUME NEW i \in DOMAIN s PROVE s[i].time \in Nat /\ s[i].nr \in Nat
  <2> HIDE DEF s
  <2>1. s[i] \in Stamp
    BY <1>1, <1>2
  <2> QED
    BY <2>1 DEF Stamp
<1> QED
  BY <1>2, <1>3

LEMMA CountingIsFinite ==
  ASSUME TypeOK, NEW u \in Users
  PROVE  IsFiniteSet(Counting(u)) /\ Cardinality(Counting(u)) \in Nat
<1>1. Len(grants[u]) \in Nat /\ DOMAIN grants[u] = 1 .. Len(grants[u])
  BY GrantsType
<1>2. IsFiniteSet(1 .. Len(grants[u]))
  BY <1>1, FS_Interval
<1>3. Counting(u) \in SUBSET (1 .. Len(grants[u]))
  BY <1>1 DEF Counting
<1> QED
  BY <1>2, <1>3, FS_Subset, FS_CardinalityType

LEMMA WindowCounts ==
  ASSUME TypeOK, NEW u \in Users, GrantsInOrder(u), WindowIsGrants(u)
  PROVE  /\ Recent(u) = {grants[u][i] : i \in Counting(u)}
         /\ Cardinality(Recent(u)) = Cardinality(Counting(u))
<1> DEFINE f == [i \in Counting(u) |-> grants[u][i]]
<1>1. Recent(u) = {grants[u][i] : i \in Counting(u)}
  BY DEF Recent, Counting, WindowIsGrants
<1>2. f \in [Counting(u) -> Recent(u)]
  BY <1>1
<1>3. \A i, j \in Counting(u) : f[i] = f[j] => i = j
  <2> SUFFICES ASSUME NEW i \in Counting(u), NEW j \in Counting(u), i < j
               PROVE  f[i] # f[j]
    <3>1. Counting(u) \subseteq Int
      BY DEF Counting, TypeOK
    <3> QED
      BY <3>1
  <2>1. grants[u][i].nr < grants[u][j].nr
    BY DEF Counting, GrantsInOrder
  <2>2. grants[u][i].nr \in Nat /\ grants[u][j].nr \in Nat
    BY GrantsType DEF Counting
  <2> QED
    BY <2>1, <2>2
<1>4. \A x \in Recent(u) : \E i \in Counting(u) : f[i] = x
  BY <1>1
<1>5. f \in Bijection(Counting(u), Recent(u))
  <2> HIDE DEF f
  <2> QED
    BY <1>2, <1>3, <1>4 DEF Bijection, Injection, Surjection, IsInjective
<1> QED
  BY <1>1, <1>5, CountingIsFinite, FS_Bijection DEF ExistsBijection

\* Being let through with fewer than Limit grants in the window: the grant Limit places
\* back is out of it.
LEMMA LimitPlacesBack ==
  ASSUME TypeOK, NEW u \in Users, GrantsInOrder(u), WindowIsGrants(u), Allowed(u),
         NEW i \in DOMAIN grants[u], i + Limit = Len(grants[u]) + 1
  PROVE  grants[u][i].time + Window <= now
<1> DEFINE n == Len(grants[u])
<1>1. n \in Nat /\ DOMAIN grants[u] = 1 .. n
  BY GrantsType
<1>2. \A j \in DOMAIN grants[u] : grants[u][j].time \in Nat
  BY GrantsType
<1> SUFFICES ASSUME grants[u][i].time + Window > now PROVE FALSE
  BY <1>1, <1>2, ConstantFacts DEF TypeOK
<1>3. i .. n \in SUBSET Counting(u)
  <2> SUFFICES ASSUME NEW j \in i .. n PROVE j \in Counting(u)
    OBVIOUS
  <2>1. j \in DOMAIN grants[u] /\ (i = j \/ i < j)
    BY <1>1
  <2>2. grants[u][i].time <= grants[u][j].time
    BY <1>2, <2>1 DEF GrantsInOrder
  <2> QED
    BY <1>2, <2>1, <2>2, ConstantFacts DEF Counting, TypeOK
<1>4. Cardinality(i .. n) = Limit
  <2>1. i \in Int /\ n \in Int /\ ~(i > n) /\ n - i + 1 = Limit
    BY <1>1, ConstantFacts
  <2> HIDE DEF n
  <2> QED
    BY <2>1, FS_Interval
<1>5. Limit <= Cardinality(Counting(u))
  BY <1>3, <1>4, CountingIsFinite, FS_Subset
<1>6. Cardinality(Counting(u)) < Limit
  BY WindowCounts DEF Allowed
<1> QED
  BY <1>5, <1>6, CountingIsFinite, ConstantFacts

LEMMA RateNext ==
  ASSUME TypeOK, TypeOK', RateInv, [Next]_vars
  PROVE  RateInv'
<1> SUFFICES ASSUME NEW u \in Users PROVE GrantsInOrder(u)' /\ WindowIsGrants(u)'
  BY DEF RateInv
<1> DEFINE n == Len(grants[u])
<1>0. /\ GrantsInOrder(u) /\ WindowIsGrants(u)
      /\ n \in Nat /\ DOMAIN grants[u] = 1 .. n
      /\ \A i \in DOMAIN grants[u] : grants[u][i].time \in Nat /\ grants[u][i].nr \in Nat
      /\ now \in Nat /\ deliveries \in Nat
  BY GrantsType DEF RateInv, TypeOK
<1> HIDE DEF n
<1>a. ASSUME grants'[u] = grants[u], now' \in Nat, deliveries' \in Nat,
             now' >= now, deliveries' >= deliveries
      PROVE  GrantsInOrder(u)'
  <2>1. \A i \in DOMAIN grants[u] : grants[u][i].time <= now' /\ grants[u][i].nr <= deliveries'
    BY <1>0, <1>a DEF GrantsInOrder
  <2>. QED
    BY <1>0, <1>a, <2>1 DEF GrantsInOrder
<1>b. ASSUME windows'[u] = windows[u], grants'[u] = grants[u], now' \in Nat, now' >= now
      PROVE  WindowIsGrants(u)'
  BY <1>0, <1>b, ConstantFacts DEF WindowIsGrants
<1>1. ASSUME UNCHANGED <<windows, grants>>, now' \in Nat, deliveries' \in Nat,
             now' >= now, deliveries' >= deliveries
      PROVE  GrantsInOrder(u)' /\ WindowIsGrants(u)'
  BY <1>1, <1>a, <1>b
<1>2. CASE Tick
  BY <1>0, <1>1, <1>2 DEF Tick
<1>3. ASSUME NEW e \in Events, Receive(e) PROVE GrantsInOrder(u)' /\ WindowIsGrants(u)'
  <2> DEFINE grant == [time |-> now, nr |-> deliveries + 1]
  <2>1. now' = now /\ deliveries' = deliveries + 1
    BY <1>3 DEF Receive
  <2>2. CASE Verdict(e) = "replay" \/ u # UserOf[e]
    <3>1. windows'[u] = windows[u] /\ grants'[u] = grants[u]
      BY <1>3, <2>2 DEF Receive, TypeOK
    <3> QED
      BY <1>0, <1>a, <1>b, <2>1, <3>1
  <2>3. CASE Verdict(e) = "limited" /\ u = UserOf[e]
    <3>1. windows'[u] = Recent(u) /\ grants'[u] = grants[u]
      BY <1>3, <2>3 DEF Receive, TypeOK
    <3>2. GrantsInOrder(u)'
      BY <1>0, <1>a, <2>1, <3>1
    <3>3. WindowIsGrants(u)'
      BY <1>0, <2>1, <3>1 DEF WindowIsGrants, Recent
    <3> QED
      BY <3>2, <3>3
  <2>4. CASE Verdict(e) \notin {"replay", "limited"} /\ u = UserOf[e]
    <3>1. windows'[u] = Recent(u) \cup {grant} /\ grants'[u] = Append(grants[u], grant)
      BY <1>3, <2>1, <2>4, VerdictType DEF Receive, TypeOK
    <3>2. grant \in Stamp /\ grants[u] \in Seq(Stamp)
      BY <1>0 DEF Stamp, TypeOK
    <3>3. /\ DOMAIN grants'[u] = 1 .. n + 1
          /\ \A i \in 1 .. n : grants'[u][i] = grants[u][i]
          /\ grants'[u][n + 1] = grant
      BY <1>0, <3>1, <3>2 DEF n
    <3>4. GrantsInOrder(u)'
      <4>1. \A i \in 1 .. n + 1 : grants'[u][i].time <= now /\ grants'[u][i].nr <= deliveries + 1
        <5>1. \A i \in 1 .. n : grants[u][i].time <= now /\ grants[u][i].nr <= deliveries + 1
          BY <1>0 DEF GrantsInOrder
        <5>2. \A i \in 1 .. n + 1 : i \in 1 .. n \/ i = n + 1
          BY <1>0
        <5>3. grant.time <= now /\ grant.nr <= deliveries + 1
          BY <1>0
        <5> HIDE DEF grant
        <5> QED
          BY <3>3, <5>1, <5>2, <5>3
      <4>2. ASSUME NEW i \in 1 .. n + 1, NEW j \in 1 .. n + 1, i < j
            PROVE  /\ grants'[u][i].time <= grants'[u][j].time
                   /\ grants'[u][i].nr < grants'[u][j].nr
        <5>1. CASE j = n + 1
          BY <1>0, <3>3, <4>2, <5>1 DEF GrantsInOrder
        <5>2. CASE j # n + 1
          <6>1. i \in 1 .. n /\ j \in 1 .. n
            BY <1>0, <4>2, <5>2
          <6> QED
            BY <1>0, <3>3, <4>2, <6>1 DEF GrantsInOrder
        <5> QED
          BY <5>1, <5>2
      <4> QED
        BY <2>1, <3>3, <4>1, <4>2 DEF GrantsInOrder
    <3>5. WindowIsGrants(u)'
      <4>1. ASSUME NEW x \in windows'[u] PROVE \E i \in 1 .. n + 1 : x = grants'[u][i]
        <5>1. CASE x = grant
          BY <1>0, <3>3, <5>1
        <5>2. CASE x \in windows[u]
          <6>1. PICK i \in 1 .. n : x = grants[u][i]
            BY <1>0, <5>2 DEF WindowIsGrants
          <6> QED
            BY <1>0, <3>3, <6>1
        <5> QED
          BY <3>1, <4>1, <5>1, <5>2 DEF Recent
      <4>2. ASSUME NEW i \in 1 .. n + 1, grants'[u][i].time + Window > now
            PROVE  grants'[u][i] \in windows'[u]
        <5>1. CASE i = n + 1
          BY <3>1, <3>3, <5>1
        <5>2. CASE i \in 1 .. n
          BY <1>0, <3>1, <3>3, <4>2, <5>2 DEF WindowIsGrants, Recent
        <5> QED
          BY <1>0, <5>1, <5>2
      <4> QED
        BY <2>1, <3>3, <4>1, <4>2 DEF WindowIsGrants
    <3> QED
      BY <3>4, <3>5
  <2> QED
    BY <2>2, <2>3, <2>4
<1>4. CASE UNCHANGED vars
  BY <1>0, <1>1, <1>4 DEF vars
<1> QED
  BY <1>2, <1>3, <1>4 DEF Next

LEMMA RateIsExactNext ==
  ASSUME TypeOK, RateInv, RateIsExact, [Next]_vars
  PROVE  RateIsExact'
<1> USE ConstantFacts
<1>1. CASE Tick
  BY <1>1 DEF Tick, RateIsExact, NoEvent
<1>2. ASSUME NEW e \in Events, Receive(e) PROVE RateIsExact'
  <2> DEFINE v == UserOf[e]
             grant == [time |-> now, nr |-> deliveries + 1]
  <2>0. /\ v \in Users /\ now' = now /\ latest' = [event |-> e, verdict |-> Verdict(e)]
        /\ deliveries' = deliveries + 1
    BY <1>2 DEF Receive
  <2>1. ASSUME NEW u \in Users, NEW i \in DOMAIN grants'[u],
               i + Limit \in DOMAIN grants'[u]
        PROVE  grants'[u][i + Limit].time >= grants'[u][i].time + Window
    <3>1. CASE grants'[u] = grants[u]
      BY <2>1, <3>1 DEF RateIsExact
    <3>2. CASE grants'[u] # grants[u]
      <4> DEFINE n == Len(grants[u])
      <4>1. u = v /\ Allowed(u) /\ grants'[u] = Append(grants[u], grant)
        BY <1>2, <2>0, <3>2 DEF Receive, TypeOK, Verdict
      <4>2. n \in Nat /\ DOMAIN grants[u] = 1 .. n /\ grants[u] \in Seq(Stamp) /\ grant \in Stamp
        BY DEF TypeOK, Stamp
      <4>3. /\ DOMAIN grants'[u] = 1 .. n + 1
            /\ \A k \in 1 .. n : grants'[u][k] = grants[u][k]
            /\ grants'[u][n + 1] = grant
        BY <4>1, <4>2
      <4> HIDE DEF n
      <4>4. i \in 1 .. n
        BY <2>1, <4>2, <4>3
      <4>5. CASE i + Limit = n + 1
        <5>1. grants[u][i].time + Window <= now
          BY <4>1, <4>2, <4>4, <4>5, LimitPlacesBack DEF RateInv, n
        <5>2. grants[u][i].time \in Nat
          BY <4>2, <4>4, GrantsType
        <5> QED
          BY <4>3, <4>4, <4>5, <5>1, <5>2 DEF TypeOK
      <4>6. CASE i + Limit # n + 1
        <5>1. i + Limit \in 1 .. n
          BY <2>1, <4>2, <4>3, <4>6
        <5> QED
          BY <4>2, <4>3, <4>4, <5>1 DEF RateIsExact
      <4> QED
        BY <4>5, <4>6
    <3> QED
      BY <3>1, <3>2
  <2>2. ASSUME latest'.verdict = "limited"
        PROVE  Cardinality(Counting(v)') >= Limit
    <3>1. Verdict(e) = "limited"
      BY <2>0, <2>2
    <3>2. ~Allowed(v) /\ grants' = grants
      BY <1>2, <3>1 DEF Verdict, Receive
    <3>3. Counting(v)' = Counting(v)
      BY <2>0, <3>2 DEF Counting
    <3>4. ~(Cardinality(Counting(v)) < Limit)
      BY <2>0, <3>2, WindowCounts DEF Allowed, RateInv
    <3> QED
      BY <2>0, <3>3, <3>4, CountingIsFinite
  <2>3. latest'.event = e
    BY <2>0
  <2> QED
    BY <2>1, <2>2, <2>3 DEF RateIsExact, Counting
<1>3. CASE UNCHANGED vars
  BY <1>3 DEF vars, RateIsExact
<1> QED
  BY <1>1, <1>2, <1>3 DEF Next
-----------------------------------------------------------------------------
(***************************************************************************)
(* The replay cache.                                                       *)
(***************************************************************************)

LEMMA FreshFacts ==
  ASSUME TypeOK, CacheInv
  PROVE  /\ IsFiniteSet(Fresh) /\ Cardinality(Fresh) \in Nat
         /\ Fresh \subseteq cache
         /\ \A x \in cache : x.event \in Events /\ x.time \in Nat /\ x.nr \in Nat
         /\ \A x \in cache : /\ x.event \notin Unnamed /\ x.time = recorded[x.event]
                           /\ x.time <= now /\ x.nr <= deliveries
         /\ \A x, y \in Fresh : x.event = y.event \/ x.nr = y.nr => x = y
<1>1. Fresh \in SUBSET cache
  BY DEF Fresh
<1>2. IsFiniteSet(Fresh) /\ Cardinality(Fresh) \in Nat
  BY <1>1, FS_Subset, FS_CardinalityType DEF CacheInv
<1> QED
  BY <1>1, <1>2 DEF CacheInv, TypeOK

\* What the cache becomes when a named event is met for the first time, or again.
LEMMA CacheStep ==
  ASSUME NEW e \in Events \ Unnamed, Receive(e), TypeOK, CacheInv
  PROVE  \/ /\ Seen(e) /\ recorded' = recorded
            /\ cache' = {IF x.event = e THEN [x EXCEPT !.nr = deliveries + 1] ELSE x : x \in Fresh}
         \/ /\ ~Seen(e) /\ recorded' = [recorded EXCEPT ![e] = now]
            /\ cache' = Evict(Fresh) \cup {[event |-> e, time |-> now, nr |-> deliveries + 1]}
BY DEF Receive, CacheAfter, MovedToEnd, Verdict

LEMMA CacheNext ==
  ASSUME TypeOK, CacheInv, [Next]_vars
  PROVE  CacheInv'
<1>0. now \in Nat /\ deliveries \in Nat
  BY DEF TypeOK
<1>1. CASE Tick
  <2>1. now' = now + 1 /\ UNCHANGED <<cache, since, deliveries, recorded>>
    BY <1>1 DEF Tick
  <2>2. \A x \in cache : x.time <= now + 1
    BY <1>0, FreshFacts DEF CacheInv
  <2> QED
    BY <2>1, <2>2 DEF CacheInv
<1>2. ASSUME NEW e \in Events, Receive(e) PROVE CacheInv'
  <2>0. now' = now /\ deliveries' = deliveries + 1
    BY <1>2 DEF Receive
  <2>1. \A f \in Events : IsFiniteSet(since'[f])
    <3>1. TAKE f \in Events
    <3>2. since'[f] = {} \/ since'[f] = since[f] \/ since'[f] = since[f] \cup {e}
      BY <1>2 DEF Receive
    <3>3. IsFiniteSet(since[f])
      BY DEF CacheInv
    <3>4. IsFiniteSet({})
      BY FS_EmptySet
    <3>5. IsFiniteSet(since[f] \cup {e})
      BY <3>3, FS_AddElement
    <3> QED
      BY <3>2, <3>3, <3>4, <3>5
  <2> DEFINE new == [event |-> e, time |-> now, nr |-> deliveries + 1]
             move == [x \in Fresh |-> IF x.event = e THEN [x EXCEPT !.nr = deliveries + 1] ELSE x]
  <2>2. CASE e \in Unnamed
    <3>1. cache' = cache
      BY <1>2, <2>2 DEF Receive, CacheAfter
    <3>2. \A x \in cache : x.nr <= deliveries + 1 /\ x.time = recorded'[x.event]
      BY <1>0, <1>2, <2>2, FreshFacts DEF CacheInv, Receive, TypeOK
    <3> QED
      BY <2>0, <2>1, <3>1, <3>2 DEF CacheInv
  <2>3. CASE e \notin Unnamed /\ ~Seen(e)
    <3>1. cache' = Evict(Fresh) \cup {new}
      BY <1>2, <2>3, CacheStep
    <3>2. Evict(Fresh) \in SUBSET Fresh
      BY DEF Evict
    <3>3. IsFiniteSet(cache')
      BY <3>1, <3>2, FreshFacts, FS_Subset, FS_AddElement
    <3>4. \A x \in Fresh : /\ x.event \notin Unnamed /\ x.time <= now /\ x.event # e
                           /\ x.time = recorded'[x.event]
                           /\ x.nr <= deliveries + 1 /\ x.nr # deliveries + 1
      <4>1. TAKE x \in Fresh
      <4>2. x.event # e /\ x.event \in Events
        BY <2>3, FreshFacts DEF Seen
      <4>3. recorded' = [recorded EXCEPT ![e] = now]
        BY <1>2, <2>3, CacheStep
      <4>4. recorded'[x.event] = recorded[x.event]
        BY <4>2, <4>3 DEF TypeOK
      <4> QED
        BY <1>0, <4>2, <4>4, FreshFacts
    <3>5. /\ new.event \notin Unnamed /\ new.time <= now /\ new.nr <= deliveries + 1
          /\ new.event = e /\ new.nr = deliveries + 1 /\ new.time = recorded'[e]
      BY <1>0, <1>2, <2>3, CacheStep DEF TypeOK
    <3>6. \A x \in cache' : x \in Fresh \/ x = new
      BY <3>1, <3>2
    <3> HIDE DEF new
    <3>7. \A x \in cache' : /\ x.event \notin Unnamed /\ x.time = recorded'[x.event]
                            /\ x.time <= now /\ x.nr <= deliveries + 1
      BY <3>4, <3>5, <3>6
    <3>8. \A x, y \in cache' : x.event = y.event \/ x.nr = y.nr => x = y
      BY <3>4, <3>5, <3>6, FreshFacts
    <3> QED
      BY <2>0, <2>1, <3>3, <3>7, <3>8 DEF CacheInv
  <2>4. CASE e \notin Unnamed /\ Seen(e)
    <3>1. cache' = {move[x] : x \in Fresh}
      BY <1>2, <2>4, CacheStep
    <3>2. \A x \in Fresh :
            /\ move[x].event = x.event /\ move[x].time = x.time
            /\ move[x].nr = IF x.event = e THEN deliveries + 1 ELSE x.nr
      BY FreshFacts DEF TypeOK
    <3>3. move \in Surjection(Fresh, cache')
      <4>1. move \in [Fresh -> cache'] /\ \A y \in cache' : \E x \in Fresh : move[x] = y
        BY <3>1
      <4> HIDE DEF move
      <4> QED
        BY <4>1 DEF Surjection
    <3> HIDE DEF move
    <3>4. IsFiniteSet(cache')
      BY <3>3, FreshFacts, FS_Surjection
    <3>5. \A x \in cache' : /\ x.event \notin Unnamed /\ x.time = recorded'[x.event]
                            /\ x.time <= now /\ x.nr <= deliveries + 1
      <4>1. recorded' = recorded
        BY <1>2, <2>4, CacheStep
      <4> QED
        BY <1>0, <3>1, <3>2, <4>1, FreshFacts
    <3>6. \A x, y \in cache' : x.event = y.event \/ x.nr = y.nr => x = y
      <4> SUFFICES ASSUME NEW x \in Fresh, NEW y \in Fresh,
                          move[x].event = move[y].event \/ move[x].nr = move[y].nr
                   PROVE  x = y
        BY <3>1
      <4>1. x.nr # deliveries + 1 /\ y.nr # deliveries + 1
        BY <1>0, FreshFacts
      <4>2. x.event = y.event \/ x.nr = y.nr
        BY <3>2, <4>1
      <4> QED
        BY <4>2, FreshFacts
    <3> QED
      BY <2>0, <2>1, <3>4, <3>5, <3>6 DEF CacheInv
  <2> QED
    BY <2>2, <2>3, <2>4
<1>3. CASE UNCHANGED vars
  BY <1>3 DEF vars, CacheInv
<1> QED
  BY <1>1, <1>2, <1>3 DEF Next

\* A full dictionary whose oldest entry is x has met as many events since x as it holds
\* entries behind x, and one more with the event now met.
LEMMA EvictionNeedsTraffic ==
  ASSUME TypeOK, CacheInv, NEW S, IsFiniteSet(S), NEW x \in Fresh, NEW e \in Events, ~Seen(e),
         \A y \in Fresh \ {x} : y.event \in S, e \in S,
         Cardinality(Fresh) >= CacheSize
  PROVE  Cardinality(S) >= CacheSize
<1> DEFINE m == [y \in Fresh |-> IF y = x THEN e ELSE y.event]
<1>1. m \in [Fresh -> S]
  OBVIOUS
<1>2. \A y, z \in Fresh : m[y] = m[z] => y = z
  BY FreshFacts DEF Seen
<1>3. m \in Injection(Fresh, S)
  <2> HIDE DEF m
  <2> QED
    BY <1>1, <1>2 DEF Injection, IsInjective
<1>4. Cardinality(Fresh) <= Cardinality(S)
  BY <1>3, FS_Injection
<1> QED
  BY <1>4, FreshFacts, FS_CardinalityType, ConstantFacts

LEMMA RetentionNext ==
  ASSUME TypeOK, TypeOK', CacheInv, RetentionInv, [Next]_vars
  PROVE  RetentionInv'
<1> SUFFICES ASSUME NEW f \in Events \ Unnamed,
                    recorded'[f] # 0, now' - recorded'[f] <= Ttl,
                    Cardinality(since'[f]) < CacheSize
             PROVE  Retained(f)'
  BY DEF RetentionInv
<1>0. /\ now \in Nat /\ deliveries \in Nat /\ recorded[f] \in Nat /\ IsFiniteSet(since[f])
      /\ Cardinality(since[f]) \in Nat
  BY FS_CardinalityType DEF TypeOK, CacheInv
<1>1. CASE Tick
  <2>1. now' = now + 1 /\ UNCHANGED <<cache, since, recorded>>
    BY <1>1 DEF Tick
  <2>2. Retained(f)
    BY <1>0, <2>1, ConstantFacts DEF RetentionInv
  <2> QED
    BY <2>1, <2>2 DEF Retained
<1>2. ASSUME NEW e \in Events, Receive(e) PROVE Retained(f)'
  <2>0. /\ now' = now
        /\ since'[f] = IF f = e THEN {} ELSE IF e \in Unnamed THEN since[f] ELSE since[f] \cup {e}
    BY <1>2 DEF Receive
  <2>1. CASE e \in Unnamed
    <3>1. cache' = cache /\ since'[f] = since[f] /\ recorded'[f] = recorded[f]
      BY <1>2, <2>0, <2>1 DEF Receive, CacheAfter, TypeOK
    <3>2. Retained(f)
      BY <2>0, <3>1 DEF RetentionInv
    <3> QED
      BY <3>1, <3>2 DEF Retained
  <2> DEFINE new == [event |-> e, time |-> now, nr |-> deliveries + 1]
             move(x) == IF x.event = e THEN [x EXCEPT !.nr = deliveries + 1] ELSE x
  <2>2. /\ \A x \in Fresh : /\ move(x).event = x.event
                            /\ move(x).nr = IF x.event = e THEN deliveries + 1 ELSE x.nr
        /\ new.event = e /\ new.nr = deliveries + 1
    BY FreshFacts DEF TypeOK
  <2>3. \A x \in Fresh : x.nr \in Nat /\ x.nr <= deliveries
    BY FreshFacts
  <2> HIDE DEF new, move
  <2>4. CASE e = f /\ ~Seen(e)
    <3>1. cache' = Evict(Fresh) \cup {new}
      BY <1>2, <2>4, CacheStep DEF new
    <3>2. \A y \in cache' : ~(y.nr > deliveries + 1)
      BY <1>0, <2>2, <2>3, <3>1 DEF Evict
    <3> QED
      BY <2>2, <2>4, <3>1, <3>2 DEF Retained
  <2>5. CASE e = f /\ Seen(e)
    <3>1. cache' = {move(x) : x \in Fresh}
      BY <1>2, <2>5, CacheStep DEF move
    <3>2. PICK x \in Fresh : x.event = f
      BY <2>5 DEF Seen
    <3>3. \A y \in cache' : ~(y.nr > deliveries + 1)
      BY <1>0, <2>2, <2>3, <3>1
    <3>4. move(x) \in cache' /\ move(x).event = f /\ move(x).nr = deliveries + 1
      BY <2>2, <2>5, <3>1, <3>2
    <3> QED
      BY <3>3, <3>4 DEF Retained
  <2>6. CASE e \notin Unnamed /\ e # f
    <3>1. recorded'[f] = recorded[f] /\ since'[f] = since[f] \cup {e}
      <4>1. recorded' = recorded \/ recorded' = [recorded EXCEPT ![e] = now]
        BY <1>2, <2>6, CacheStep
      <4>2. recorded'[f] = recorded[f]
        BY <2>6, <4>1 DEF TypeOK
      <4> QED
        BY <2>0, <2>6, <4>2
    <3>2. Cardinality(since[f]) <= Cardinality(since'[f]) /\ IsFiniteSet(since'[f])
      BY <1>0, <3>1, FS_AddElement
    <3>3. Cardinality(since'[f]) \in Nat
      BY <3>2, FS_CardinalityType
    <3>4. Retained(f)
      BY <1>0, <2>0, <3>1, <3>2, <3>3, ConstantFacts DEF RetentionInv
    <3>5. PICK x \in cache : /\ x.event = f
                             /\ \A y \in cache : y.nr > x.nr => y.event \in since[f]
      BY <3>4 DEF Retained
    <3>6. x \in Fresh
      BY <2>0, <3>1, <3>5, FreshFacts DEF Fresh
    <3>7. CASE Seen(e)
      <4>1. cache' = {move(y) : y \in Fresh}
        BY <1>2, <2>6, <3>7, CacheStep DEF move
      <4>2. move(x) \in cache' /\ move(x).event = f /\ move(x).nr = x.nr
        BY <2>2, <2>6, <3>5, <3>6, <4>1
      <4>3. \A y \in cache' : y.nr > x.nr => y.event \in since'[f]
        BY <2>2, <3>1, <3>5, <4>1, FreshFacts
      <4> QED
        BY <4>2, <4>3 DEF Retained
    <3>8. CASE ~Seen(e)
      <4>1. cache' = Evict(Fresh) \cup {new}
        BY <1>2, <2>6, <3>8, CacheStep DEF new
      <4>2. Evict(Fresh) \subseteq Fresh
        BY DEF Evict
      <4>3. \A y \in cache' : y.nr > x.nr => y.event \in since'[f]
        BY <2>2, <3>1, <3>5, <4>1, <4>2, FreshFacts
      <4>4. x \in Evict(Fresh)
        <5> SUFFICES ASSUME x \notin Evict(Fresh) PROVE FALSE
          OBVIOUS
        <5>1. Cardinality(Fresh) >= CacheSize /\ \A y \in Fresh : x.nr <= y.nr
          BY <3>6 DEF Evict
        <5>2. \A y \in Fresh \ {x} : y.event \in since'[f]
          <6>1. TAKE y \in Fresh \ {x}
          <6>2. x.nr # y.nr /\ x.nr <= y.nr /\ x.nr \in Nat /\ y.nr \in Nat
            BY <2>3, <3>6, <5>1, FreshFacts
          <6>3. y \in cache /\ y.nr > x.nr
            BY <6>2, FreshFacts
          <6> QED
            BY <3>1, <3>5, <6>3
        <5>3. e \in since'[f]
          BY <3>1
        <5>4. Cardinality(since'[f]) >= CacheSize
          BY <3>2, <3>6, <3>8, <5>1, <5>2, <5>3, EvictionNeedsTraffic
        <5> QED
          BY <3>3, <5>4, ConstantFacts
      <4> QED
        BY <3>5, <4>1, <4>3, <4>4 DEF Retained
    <3> QED
      BY <3>7, <3>8
  <2> QED
    BY <2>1, <2>4, <2>5, <2>6
<1>3. CASE UNCHANGED vars
  BY <1>3 DEF vars, RetentionInv, Retained
<1> QED
  BY <1>1, <1>2, <1>3 DEF Next
-----------------------------------------------------------------------------
(***************************************************************************)
(* The theorems.                                                           *)
(***************************************************************************)

LEMMA IntakeInit == Init => TypeOK /\ IntakeInv /\ RateIsExact
<1> SUFFICES ASSUME Init PROVE IntakeInv /\ RateIsExact
  BY TypeInit
<1>1. RateInv
  BY DEF Init, RateInv, GrantsInOrder, WindowIsGrants
<1>2. CacheInv
  BY FS_EmptySet DEF Init, CacheInv
<1>3. RetentionInv
  BY DEF Init, RetentionInv
<1>4. RateIsExact
  BY DEF Init, RateIsExact, NoEvent
<1> QED
  BY <1>1, <1>2, <1>3, <1>4 DEF IntakeInv

\* What the limiter and the cache hold, at every step of any number of deliveries.
THEOREM IntakeInvCorrect == Spec => [](TypeOK /\ IntakeInv /\ RateIsExact)
<1>1. TypeOK /\ IntakeInv /\ RateIsExact /\ [Next]_vars => (TypeOK /\ IntakeInv /\ RateIsExact)'
  BY TypeNext, RateNext, RateIsExactNext, CacheNext, RetentionNext DEF IntakeInv
<1> QED
  BY IntakeInit, <1>1, PTL DEF Spec

\* RateLimiter.allow() lets a user through at most Limit times in any window, and turns
\* away only a user who has used the window up.
THEOREM LimiterIsExact == Spec => []RateIsExact
BY IntakeInvCorrect, PTL

\* What ReplayCache.seen() lets through again is older than its time to live, or had the
\* capacity's worth of other events after it.
THEOREM RedeliveriesAreDropped == Spec => RedeliveryIsDropped
<1>1. ASSUME TypeOK, IntakeInv, [Next]_vars
      PROVE  [latest'.verdict \notin {"none", "replay"} =>
                LET e == latest'.event
                IN e \in Unnamed \/ recorded[e] = 0 \/ now - recorded[e] > Ttl
                   \/ Cardinality(since[e]) >= CacheSize]_vars
  <2>1. CASE Tick
    BY <2>1 DEF Tick, NoEvent
  <2>2. ASSUME NEW e \in Events, Receive(e), Verdict(e) # "replay", e \notin Unnamed,
               recorded[e] # 0, ~(now - recorded[e] > Ttl),
               ~(Cardinality(since[e]) >= CacheSize)
        PROVE  FALSE
    <3>1. now \in Nat /\ recorded[e] \in Nat /\ Cardinality(since[e]) \in Nat
      <4>1. IsFiniteSet(since[e]) /\ now \in Nat /\ recorded[e] \in Nat
        BY <1>1 DEF TypeOK, IntakeInv, CacheInv
      <4> QED
        BY <4>1, FS_CardinalityType
    <3>2. Retained(e)
      <4>1. RetentionInv /\ now - recorded[e] <= Ttl /\ Cardinality(since[e]) < CacheSize
        BY <1>1, <2>2, <3>1, ConstantFacts DEF IntakeInv
      <4> QED
        BY <2>2, <4>1 DEF RetentionInv
    <3>3. PICK x \in cache : x.event = e /\ x.time = recorded[e]
      BY <1>1, <3>2, FreshFacts DEF Retained, IntakeInv
    <3>4. Seen(e)
      BY <2>2, <3>1, <3>3, ConstantFacts DEF Seen, Fresh
    <3> QED
      BY <2>2, <3>4 DEF Verdict
  <2>3. \A e \in Events : Receive(e) => latest' = [event |-> e, verdict |-> Verdict(e)]
    BY DEF Receive
  <2> QED
    BY <1>1, <2>1, <2>2, <2>3 DEF Next
<1> QED
  BY IntakeInvCorrect, <1>1, PTL DEF Spec, RedeliveryIsDropped

-----------------------------------------------------------------------------
(***************************************************************************)
(* FeishuSender, for any messages, number of attempts and number of slots: *)
(* its type correctness, and that only lost answers repeat a card.         *)
(*                                                                         *)
(* Neither is inductive.  A wait leads to one attempt more, so it must be  *)
(* begun before the last one: WaitsAreEarly.  And that the cards are one   *)
(* more than the lost answers at most does not say that a call which is    *)
(* still to answer may add one: by Heard, what such a call has made so far *)
(* are cards of lost answers only.                                         *)
(***************************************************************************)

\* The calls for a message that have not been heard to succeed, by where its caller is.
StillToCome(m) ==
  CASE call[m] = "new" -> Ops
    [] call[m] = "thinks" -> Ops \ {"thinking"}
    [] call[m] = "answered" -> {}
    [] OTHER -> IF op[m] = "thinking" THEN Ops
                ELSE IF op[m] = "reply" THEN {"reply", "apology"}
                ELSE {op[m]}

WaitsAreEarly == \A m \in Messages : call[m] = "backoff" => attempt[m] < MaxRetries
Heard == \A m \in Messages : \A o \in StillToCome(m) : created[m][o] = unheard[m][o]

SenderInv == SenderTypeOK /\ WaitsAreEarly /\ Heard /\ DuplicatesNeedLostAnswers

LEMMA SenderInitHolds == SenderInit => SenderInv
<1> SUFFICES ASSUME SenderInit PROVE SenderInv OBVIOUS
<1>1. SenderTypeOK BY SenderAssumption DEF SenderInit, SenderTypeOK, Ops, CallStates
<1>2. WaitsAreEarly BY DEF SenderInit, WaitsAreEarly
<1>3. Heard BY DEF SenderInit, Heard, StillToCome, Ops
<1>4. DuplicatesNeedLostAnswers BY DEF SenderInit, DuplicatesNeedLostAnswers, Ops
<1> QED BY <1>1, <1>2, <1>3, <1>4 DEF SenderInv

\* Where the calls go.  What is still to come only shrinks, and a call that returns is not
\* among it any more.
Moves(m) ==
  /\ call' \in [Messages -> CallStates]
  /\ op' \in [Messages -> Ops]
  /\ attempt' \in [Messages -> 1..MaxRetries]
  /\ cardId' \in [Messages -> BOOLEAN]
  /\ WaitsAreEarly'
  /\ \A n \in Messages : StillToCome(n)' \subseteq StillToCome(n)

LEMMA BeginMoves ==
  ASSUME SenderInv, NEW m \in Messages, NEW o \in Ops, Begin(m, o), UNCHANGED cardId,
         \/ call[m] = "new"
         \/ call[m] = "thinks" /\ o # "thinking"
         \/ call[m] = "request" /\ op[m] = "reply" /\ o = "apology"
  PROVE  Moves(m)
BY SenderAssumption
DEF SenderInv, SenderTypeOK, WaitsAreEarly, Begin, Goto, Moves, StillToCome, Ops, CallStates

LEMMA ReturnMoves ==
  ASSUME SenderInv, NEW m \in Messages, call[m] = "request", NEW id \in BOOLEAN, Return(m, id)
  PROVE  Moves(m) /\ op[m] \notin StillToCome(m)'
<1> USE DEF SenderInv, SenderTypeOK, Return, Goto
<1>1. /\ call' \in [Messages -> CallStates]
      /\ op' \in [Messages -> Ops]
      /\ attempt' \in [Messages -> 1..MaxRetries]
  BY DEF CallStates
<1>2. cardId' \in [Messages -> BOOLEAN] OBVIOUS
<1>3. WaitsAreEarly' BY DEF WaitsAreEarly
<1>4. \A n \in Messages : StillToCome(n)' \subseteq StillToCome(n)
  BY DEF StillToCome, Ops
<1>5. op[m] \notin StillToCome(m)' BY DEF StillToCome, Ops
<1> QED BY <1>1, <1>2, <1>3, <1>4, <1>5 DEF Moves

LEMMA AgainMoves ==
  ASSUME SenderInv, NEW m \in Messages, call[m] = "request", Again(m)
  PROVE  Moves(m)
BY DEF SenderInv, SenderTypeOK, WaitsAreEarly, Again, Goto, Moves, StillToCome, Ops, CallStates

LEMMA ExceptsMoves ==
  ASSUME SenderInv, NEW m \in Messages, call[m] = "request", Excepts(m)
  PROVE  Moves(m)
<1>1. CASE Again(m) BY <1>1, AgainMoves
<1>2. CASE Return(m, FALSE) BY <1>2, ReturnMoves
<1>3. CASE op[m] = "reply" /\ Begin(m, "apology") /\ UNCHANGED cardId
  BY <1>3, BeginMoves DEF Ops
<1> QED BY <1>1, <1>2, <1>3 DEF Excepts, Raise

\* A step that makes no card.
LEMMA QuietKeeps ==
  ASSUME SenderInv, NEW m \in Messages, Moves(m), UNCHANGED <<created, unheard>>
  PROVE  SenderInv'
<1>1. SenderTypeOK' BY DEF SenderInv, SenderTypeOK, Moves
<1>2. Heard' BY DEF SenderInv, Heard, Moves
<1>3. DuplicatesNeedLostAnswers' BY DEF SenderInv, DuplicatesNeedLostAnswers
<1> QED BY <1>1, <1>2, <1>3 DEF SenderInv, Moves

\* A card the caller hears of ends its call.
LEMMA HeardCardKeeps ==
  ASSUME SenderInv, NEW m \in Messages, Moves(m), call[m] = "request",
         op[m] \notin StillToCome(m)',
         created' = [created EXCEPT ![m][op[m]] = @ + 1], UNCHANGED unheard
  PROVE  SenderInv'
<1>1. /\ op[m] \in Ops
      /\ created[m][op[m]] = unheard[m][op[m]]
  BY DEF SenderInv, SenderTypeOK, Heard, StillToCome, Ops
<1>2. /\ created' \in [Messages -> [Ops -> Nat]]
      /\ created'[m][op[m]] = created[m][op[m]] + 1
      /\ \A n \in Messages, o \in Ops :
           (n # m \/ o # op[m]) => created'[n][o] = created[n][o]
  BY <1>1 DEF SenderInv, SenderTypeOK
<1>3. SenderTypeOK' BY <1>2 DEF SenderInv, SenderTypeOK, Moves
<1>4. Heard'
  <2> SUFFICES ASSUME NEW n \in Messages, NEW o \in StillToCome(n)'
               PROVE  created'[n][o] = unheard'[n][o]
    BY DEF Heard
  <2>1. o \in StillToCome(n) /\ o \in Ops
    BY DEF Moves, SenderInv, SenderTypeOK, StillToCome, Ops
  <2>2. n # m \/ o # op[m] OBVIOUS
  <2> QED BY <1>2, <2>1, <2>2 DEF SenderInv, Heard
<1>5. DuplicatesNeedLostAnswers'
  BY <1>1, <1>2 DEF SenderInv, SenderTypeOK, DuplicatesNeedLostAnswers
<1> QED BY <1>3, <1>4, <1>5 DEF SenderInv, Moves

\* A card the caller does not hear of is counted with the lost answers.
LEMMA UnheardCardKeeps ==
  ASSUME SenderInv, NEW m \in Messages, Moves(m),
         created' = [created EXCEPT ![m][op[m]] = @ + 1],
         unheard' = [unheard EXCEPT ![m][op[m]] = @ + 1]
  PROVE  SenderInv'
<1>1. op[m] \in Ops BY DEF SenderInv, SenderTypeOK
<1>2. /\ created' \in [Messages -> [Ops -> Nat]]
      /\ unheard' \in [Messages -> [Ops -> Nat]]
      /\ created'[m][op[m]] = created[m][op[m]] + 1
      /\ unheard'[m][op[m]] = unheard[m][op[m]] + 1
      /\ \A n \in Messages, o \in Ops :
           (n # m \/ o # op[m]) => /\ created'[n][o] = created[n][o]
                                   /\ unheard'[n][o] = unheard[n][o]
  BY <1>1 DEF SenderInv, SenderTypeOK
<1>3. SenderTypeOK' BY <1>2 DEF SenderInv, SenderTypeOK, Moves
<1>4. Heard'
  <2> SUFFICES ASSUME NEW n \in Messages, NEW o \in StillToCome(n)'
               PROVE  created'[n][o] = unheard'[n][o]
    BY DEF Heard
  <2>1. o \in StillToCome(n) /\ o \in Ops
    BY DEF Moves, SenderInv, SenderTypeOK, StillToCome, Ops
  <2>2. created[n][o] = unheard[n][o] BY <2>1 DEF SenderInv, Heard
  <2>3. CASE n = m /\ o = op[m] BY <1>2, <2>2, <2>3
  <2>4. CASE n # m \/ o # op[m] BY <1>2, <2>1, <2>2, <2>4
  <2> QED BY <2>3, <2>4
<1>5. DuplicatesNeedLostAnswers'
  BY <1>1, <1>2 DEF SenderInv, SenderTypeOK, DuplicatesNeedLostAnswers
<1> QED BY <1>3, <1>4, <1>5 DEF SenderInv, Moves

LEMMA SenderStepKeeps == SenderInv /\ [SenderNext]_senderVars => SenderInv'
<1> SUFFICES ASSUME SenderInv, [SenderNext]_senderVars PROVE SenderInv' OBVIOUS
<1>1. CASE UNCHANGED senderVars
  BY <1>1 DEF senderVars, SenderInv, SenderTypeOK, WaitsAreEarly, Heard, StillToCome,
         DuplicatesNeedLostAnswers
<1>2. ASSUME NEW m \in Messages, SendThinking(m) PROVE SenderInv'
  <2>1. Moves(m) BY <1>2, BeginMoves DEF SendThinking, Ops
  <2> QED BY <1>2, <2>1, QuietKeeps DEF SendThinking
<1>3. ASSUME NEW m \in Messages, SendReply(m) PROVE SenderInv'
  <2>1. Moves(m) BY <1>3, BeginMoves DEF SendReply, Ops
  <2> QED BY <1>3, <2>1, QuietKeeps DEF SendReply
<1>4. ASSUME NEW m \in Messages, EnterSlot(m) PROVE SenderInv'
  <2>1. Moves(m)
    BY <1>4
    DEF EnterSlot, SenderInv, SenderTypeOK, WaitsAreEarly, Goto, Moves, StillToCome, Ops,
        CallStates
  <2> QED BY <1>4, <2>1, QuietKeeps DEF EnterSlot
<1>5. ASSUME NEW m \in Messages, AwaitBackoff(m) PROVE SenderInv'
  <2>1. Moves(m)
    BY <1>5, SenderAssumption
    DEF AwaitBackoff, SenderInv, SenderTypeOK, WaitsAreEarly, Goto, Moves, StillToCome, Ops,
        CallStates
  <2> QED BY <1>5, <2>1, QuietKeeps DEF AwaitBackoff
<1>6. ASSUME NEW m \in Messages, Succeeds(m) PROVE SenderInv'
  <2>1. Moves(m) /\ op[m] \notin StillToCome(m)' BY <1>6, ReturnMoves DEF Succeeds
  <2>2. CASE Creates(op[m]) BY <1>6, <2>1, <2>2, HeardCardKeeps DEF Succeeds
  <2>3. CASE ~Creates(op[m]) BY <1>6, <2>1, <2>3, QuietKeeps DEF Succeeds
  <2> QED BY <2>2, <2>3
<1>7. ASSUME NEW m \in Messages, AnswerLost(m) PROVE SenderInv'
  <2>1. Moves(m) BY <1>7, ExceptsMoves DEF AnswerLost
  <2>2. CASE Creates(op[m]) BY <1>7, <2>1, <2>2, UnheardCardKeeps DEF AnswerLost
  <2>3. CASE ~Creates(op[m]) BY <1>7, <2>1, <2>3, QuietKeeps DEF AnswerLost
  <2> QED BY <2>2, <2>3
<1>8. ASSUME NEW m \in Messages, RequestFails(m) PROVE SenderInv'
  <2>1. Moves(m) BY <1>8, ExceptsMoves DEF RequestFails
  <2> QED BY <1>8, <2>1, QuietKeeps DEF RequestFails
<1>9. ASSUME NEW m \in Messages, RateLimited(m) PROVE SenderInv'
  <2>1. Moves(m) BY <1>9, AgainMoves, ReturnMoves DEF RateLimited
  <2> QED BY <1>9, <2>1, QuietKeeps DEF RateLimited
<1>10. ASSUME NEW m \in Messages, Refused(m) PROVE SenderInv'
  <2>1. Moves(m) BY <1>10, AgainMoves, ReturnMoves DEF Refused
  <2> QED BY <1>10, <2>1, QuietKeeps DEF Refused
<1> QED
  BY <1>1, <1>2, <1>3, <1>4, <1>5, <1>6, <1>7, <1>8, <1>9, <1>10 DEF SenderNext, SenderStep

\* Every variable stays in its domain; in particular no call makes more attempts than allowed.
THEOREM SenderTypeCorrect == SenderSpec => []SenderTypeOK
<1>1. SenderInv => SenderTypeOK BY DEF SenderInv
<1> QED BY <1>1, SenderInitHolds, SenderStepKeeps, PTL DEF SenderSpec

\* _send_with_retry repeats a card only when the answer to an earlier attempt was lost.
THEOREM RepeatsAreLostAnswers == SenderSpec => []DuplicatesNeedLostAnswers
<1>1. SenderInv => DuplicatesNeedLostAnswers BY DEF SenderInv
<1> QED BY <1>1, SenderInitHolds, SenderStepKeeps, PTL DEF SenderSpec

=============================================================================
