----------------------------- MODULE SpansProofs -----------------------------
(***************************************************************************)
(* Proofs about Spans, for any number of turns, calls and failed requests, *)
(* and any size of a chunk: every message has its own trace, spans are     *)
(* closed, no crew hangs anything under a span it has ended, and a failed  *)
(* request costs its chunk only.                                           *)
(*                                                                         *)
(* The handlers are operators on a state t of one crew, so the invariant   *)
(* is about such states: Sound(t) says that what the context of t holds    *)
(* exists, is of the right kind and of the context's trace, and has not    *)
(* been ended by the crew itself.  Each handler takes a sound state to a   *)
(* sound one and Extends it: it only ends observations, as its crew, and   *)
(* adds observations of its crew's under parents the crew has not ended.   *)
(* Orphans are the main crew's observations that are open and out of its   *)
(* sight; a handler makes none (Grows), but for the generation BeforeTurn  *)
(* forgets (GrowsBut), and the LLM call that follows replaces that.        *)
(*                                                                         *)
(* How often the hooks of a call run depends on the crews of the process.  *)
(* What holds after every number of runs is proved with sets: NatUpTo is   *)
(* induction for a set of numbers, and Iterates gives the sequence of the  *)
(* states that a function of states goes through.                          *)
(*                                                                         *)
(* A skill works on a copy of the main crew's context, and each leaves the *)
(* other's sound because their crews differ (Beside); no two crews are     *)
(* confused as nothing has been ended by a skill still to come: EndedInv.  *)
(***************************************************************************)
EXTENDS Spans, TLAPS, SequenceTheorems, FiniteSetTheorems, WellFoundedInduction

Kinds == {"root", "gen", "tool", "task", "end"}
Observations ==
  [kind : Kinds, parent : Nat, trace : Nat, crew : Nat, turn : Nat, ended : SUBSET Nat]
Entries == [id : Nat, tool : Tools, turn : Nat]
Contexts == [trace : Nat, root : Nat, gen : Nat, stack : SUBSET Entries, closed : SUBSET Entries]
States == [crew : Nat, obs : Seq(Observations), buffer : Nat, c : Contexts]

\* The observations a context may still hang something under or end.
Held(c) == ({c.root, c.gen} \ {None}) \cup Ids(c.stack)

Kind(t, id, kind) == id \in 1..Len(t.obs) /\ t.obs[id].kind = kind

Placed(t) ==
  /\ t.c.root # None => Kind(t, t.c.root, "root")
  /\ t.c.gen # None => Kind(t, t.c.gen, "gen")
  /\ \A e \in t.c.stack \cup t.c.closed : Kind(t, e.id, "tool")
  /\ \A e, f \in t.c.stack : e.id = f.id => e = f
  /\ Ids(t.c.stack) \cap Ids(t.c.closed) = {}

Traced(t) ==
  /\ t.c.trace \in {None, TraceId}
  /\ client => \A i \in 1..Len(t.obs) : t.obs[i].trace = t.obs[i].turn
  /\ client /\ t.c.trace = None => Held(t.c) = {}
  /\ \A id \in Held(t.c) : t.obs[id].trace = t.c.trace

Unended(t) == \A id \in Held(t.c) : t.crew \notin t.obs[id].ended

Sound(t) == turns \in Nat /\ t \in States /\ Placed(t) /\ Traced(t) /\ Unended(t)

\* How a crew may change the observations: it ends some and adds its own, under parents it
\* has not ended.
Same(o, p) == /\ p.kind = o.kind /\ p.parent = o.parent /\ p.trace = o.trace
              /\ p.crew = o.crew /\ p.turn = o.turn

Proper(t, u, i) ==
  /\ u.obs[i].crew = t.crew /\ u.obs[i].ended \subseteq {t.crew}
  /\ LET p == u.obs[i].parent
     IN /\ p # None => p \in 1..Len(u.obs) /\ u.obs[p].trace = u.obs[i].trace
        /\ p \in 1..Len(t.obs) => t.crew \notin t.obs[p].ended

Extends(t, u) ==
  /\ u.crew = t.crew /\ Len(t.obs) <= Len(u.obs)
  /\ \A i \in 1..Len(t.obs) :
       /\ Same(t.obs[i], u.obs[i])
       /\ t.obs[i].ended \subseteq u.obs[i].ended
       /\ u.obs[i].ended \subseteq t.obs[i].ended \cup {t.crew}
  /\ \A i \in (Len(t.obs) + 1)..Len(u.obs) : Proper(t, u, i)

\* The main crew's open observations that its context has lost.
Orphans(t) ==
  {i \in 1..Len(t.obs) : /\ t.obs[i].crew = MainCrew /\ t.obs[i].ended = {}
                         /\ i \notin Held(t.c)}

\* A step of a crew's that loses sight of nothing, but for some observations.
GrowsBut(t, u, forgotten) ==
  Sound(u) /\ Extends(t, u) /\ Orphans(u) \subseteq Orphans(t) \cup forgotten
Grows(t, u) == GrowsBut(t, u, {})

\* The invariant.
Frames == [crew : Nat, c : Contexts, results : [Tools -> Nat],
           step : {"start", "answer", "act", "think"}]

Domains ==
  /\ client \in BOOLEAN /\ named \in BOOLEAN /\ others \in Nat /\ turns \in Nat
  /\ phase \in {"idle", "begin", "main", "skill", "after", "reply", "denied", "cleanup"}
  /\ adapter \in [turn : Nat, llm : BOOLEAN, deny : BOOLEAN]
  /\ crews \in Nat /\ used \in [llm : Nat, tools : Nat] /\ buffer \in Nat
  /\ frame \in [Crews -> Frames]

\* The main crew's context is sound, and it has lost sight of replaced generations only.
MainInv ==
  /\ frame["main"].crew = MainCrew /\ Sound(State("main"))
  /\ \A i \in Orphans(State("main")) : Replaced(i)

SkillInv ==
  phase = "skill" => frame["skill"].crew \in 1..used.tools /\ Sound(State("skill"))

\* Whoever has ended something exists: a skill to come has ended nothing.
EndedInv == \A i \in 1..Len(obs) : obs[i].ended \subseteq 0..used.tools

PhaseInv ==
  /\ phase = "idle" => frame["main"].c = EmptyContext /\ buffer = 0
  /\ phase \in {"main", "skill"} => crews > 0

\* A failed request costs its own chunk.
LostInv == failed \in Nat /\ lost \in Nat /\ lost <= Chunk * failed

IInv == Domains /\ MainInv /\ SkillInv /\ EndedInv /\ PhaseInv /\ LostInv

-----------------------------------------------------------------------------
LEMMA LeastNat ==
  ASSUME NEW T, T \subseteq Nat, T # {}
  PROVE  \E x \in T : \A y \in T : x <= y
<1> DEFINE R == OpToRel(<, Nat)
<1>1. IsWellFoundedOn(R, Nat)
  BY NatLessThanWellFounded
<1>2. \A x, y \in Nat : y < x => <<y, x>> \in R
  BY DEF OpToRel
<1> HIDE DEF R
<1>3. T \subseteq Nat
  OBVIOUS
<1>4. PICK x \in T : \A y \in T : <<y, x>> \notin R
  BY <1>1, WFMin
<1>5. ASSUME NEW y \in T PROVE x <= y
  <2>1. x \in Nat /\ y \in Nat /\ ~(y < x)
    BY <1>2, <1>3, <1>4, Zenon
  <2>. QED
    BY <2>1
<1>. QED
  BY <1>5

\* Induction, for a set.
LEMMA NatUpTo ==
  ASSUME NEW n \in Nat, NEW T, 0 \in T, \A k \in 1..n : k - 1 \in T => k \in T
  PROVE  0..n \subseteq T
<1> SUFFICES ASSUME NEW m \in 0..n, m \notin T PROVE FALSE
  OBVIOUS
<1> DEFINE Bad == {k \in 0..n : k \notin T}
<1>1. Bad \subseteq Nat /\ Bad # {}
  OBVIOUS
<1>2. PICK k \in Bad : \A j \in Bad : k <= j
  BY <1>1, LeastNat
<1>3. k \in 1..n /\ k - 1 \in 0..n /\ ~(k <= k - 1)
  BY <1>2
<1>4. k - 1 \in T
  BY <1>2, <1>3
<1>. QED
  BY <1>2, <1>3, <1>4

\* Applying a function n times.
Iteration(S, F, x, n, h) ==
  h \in [0..n -> S] /\ h[0] = x /\ \A k \in 1..n : h[k] = F[h[k - 1]]

LEMMA Iterates ==
  ASSUME NEW S, NEW F \in [S -> S], NEW x \in S, NEW n \in Nat
  PROVE  \E h : Iteration(S, F, x, n, h)
<1> DEFINE Run(m, h) == Iteration(S, F, x, m, h)
           T == {m \in 0..n : \E h : Run(m, h)}
<1>1. \E h : Run(0, h)
  <2> DEFINE g == [k \in 0..0 |-> x]
  <2>1. Run(0, g)
    BY DEF Iteration
  <2>. QED
    BY <2>1
<1>2. ASSUME NEW m \in 1..n, NEW h, Run(m - 1, h) PROVE \E g : Run(m, g)
  <2> DEFINE g == [k \in 0..m |-> IF k = m THEN F[h[m - 1]] ELSE h[k]]
  <2>1. g \in [0..m -> S]
    BY <1>2 DEF Iteration
  <2>2. \A k \in 1..m : g[k] = F[g[k - 1]]
    BY <1>2 DEF Iteration
  <2>3. g[0] = x
    BY <1>2 DEF Iteration
  <2>4. Run(m, g)
    BY <2>1, <2>2, <2>3 DEF Iteration
  <2>. HIDE DEF g
  <2>. QED
    BY <2>4
<1> HIDE DEF Run
<1>3. 0 \in T /\ \A k \in 1..n : k - 1 \in T => k \in T
  BY <1>1, <1>2
<1> HIDE DEF T
<1>4. n \in T
  BY <1>3, NatUpTo
<1>. QED
  BY <1>4 DEF T, Run

-----------------------------------------------------------------------------
LEMMA StateFacts ==
  ASSUME NEW t \in States
  PROVE  /\ t.crew \in Nat /\ t.buffer \in Nat /\ t.c \in Contexts
         /\ t.obs \in Seq(Observations) /\ Len(t.obs) \in Nat /\ DOMAIN t.obs = 1..Len(t.obs)
         /\ \A i \in 1..Len(t.obs) : t.obs[i] \in Observations
BY DEF States

LEMMA HeldFacts ==
  ASSUME NEW t, Sound(t)
  PROVE  /\ Held(t.c) \subseteq 1..Len(t.obs)
         /\ Ids(t.c.stack \cup t.c.closed) \subseteq 1..Len(t.obs)
         /\ \A ids \in SUBSET (1..Len(t.obs)) : IsFiniteSet(ids) /\ Cardinality(ids) \in Nat
<1>1. t \in States /\ Len(t.obs) \in Nat
  BY StateFacts DEF Sound
<1>2. Ids(t.c.stack \cup t.c.closed) \subseteq 1..Len(t.obs)
  BY DEF Sound, Placed, Kind, Ids
<1>3. Held(t.c) \subseteq 1..Len(t.obs)
  BY <1>2 DEF Sound, Placed, Kind, Ids, Held
<1>4. ASSUME NEW ids \in SUBSET (1..Len(t.obs)) PROVE IsFiniteSet(ids) /\ Cardinality(ids) \in Nat
  <2>1. IsFiniteSet(1..Len(t.obs))
    BY <1>1, FS_Interval
  <2>2. IsFiniteSet(ids)
    BY <2>1, FS_Subset
  <2>. QED
    BY <2>2, FS_CardinalityType
<1>. QED
  BY <1>2, <1>3, <1>4

LEMMA LastFacts ==
  ASSUME NEW n \in Nat, NEW entries, entries # {}, Ids(entries) \subseteq 1..n
  PROVE  Last(entries) \in entries
<1> DEFINE T == {n - i : i \in Ids(entries)}
<1>1. T \subseteq Nat /\ T # {}
  BY DEF Ids
<1>2. PICK x \in T : \A y \in T : x <= y
  BY <1>1, LeastNat
<1>3. PICK e \in entries : x = n - e.id
  BY <1>2 DEF Ids
<1>4. \A f \in entries : f.id <= e.id
  <2> SUFFICES ASSUME NEW f \in entries PROVE f.id <= e.id
    OBVIOUS
  <2>1. f.id \in 1..n /\ e.id \in 1..n /\ n - f.id \in T
    BY DEF Ids
  <2>2. n - e.id <= n - f.id
    BY <1>2, <1>3, <2>1
  <2>. QED
    BY <2>1, <2>2
<1>. QED
  BY <1>4 DEF Last

-----------------------------------------------------------------------------
LEMMA ExtendsSelf ==
  ASSUME NEW t \in States
  PROVE  Extends(t, t)
BY StateFacts DEF Extends, Same

LEMMA ExtendsTwice ==
  ASSUME NEW t \in States, NEW u \in States, NEW v \in States, Extends(t, u), Extends(u, v)
  PROVE  Extends(t, v)
<1>1. /\ Len(t.obs) \in Nat /\ Len(u.obs) \in Nat /\ Len(v.obs) \in Nat
      /\ Len(t.obs) <= Len(u.obs) /\ Len(u.obs) <= Len(v.obs)
      /\ u.crew = t.crew /\ v.crew = t.crew
  BY StateFacts DEF Extends
<1>2. ASSUME NEW i \in 1..Len(t.obs)
      PROVE  /\ Same(t.obs[i], v.obs[i])
             /\ t.obs[i].ended \subseteq v.obs[i].ended
             /\ v.obs[i].ended \subseteq t.obs[i].ended \cup {t.crew}
  <2>1. i \in 1..Len(u.obs)
    BY <1>1
  <2>. QED
    BY <1>1, <2>1 DEF Extends, Same
<1>3. ASSUME NEW i \in (Len(t.obs) + 1)..Len(v.obs) PROVE Proper(t, v, i)
  <2>1. CASE i \in 1..Len(u.obs)
    <3>1. i \in (Len(t.obs) + 1)..Len(u.obs) /\ Proper(t, u, i)
      BY <1>1, <2>1 DEF Extends
    <3>2. Same(u.obs[i], v.obs[i]) /\ v.obs[i].ended \subseteq u.obs[i].ended \cup {t.crew}
      BY <1>1, <2>1 DEF Extends
    <3>3. \A p \in 1..Len(u.obs) : p \in 1..Len(v.obs) /\ Same(u.obs[p], v.obs[p])
      BY <1>1 DEF Extends
    <3>. QED
      BY <3>1, <3>2, <3>3 DEF Proper, Same
  <2>2. CASE i \notin 1..Len(u.obs)
    <3>1. i \in (Len(u.obs) + 1)..Len(v.obs)
      BY <1>1, <2>2
    <3>2. Proper(u, v, i)
      BY <3>1 DEF Extends
    <3>3. \A p \in 1..Len(t.obs) : p \in 1..Len(u.obs) /\ t.obs[p].ended \subseteq u.obs[p].ended
      BY <1>1 DEF Extends
    <3>. QED
      BY <1>1, <3>2, <3>3 DEF Proper
  <2>. QED
    BY <2>1, <2>2
<1>. QED
  BY <1>1, <1>2, <1>3 DEF Extends

LEMMA GrowsSelf ==
  ASSUME NEW t, Sound(t)
  PROVE  Grows(t, t)
BY ExtendsSelf DEF Grows, GrowsBut, Sound

LEMMA GrowsTwice ==
  ASSUME NEW t, Sound(t), NEW u, NEW v, NEW A, NEW B, GrowsBut(t, u, A), GrowsBut(u, v, B)
  PROVE  GrowsBut(t, v, A \cup B)
<1>1. t \in States /\ u \in States /\ v \in States
  BY DEF GrowsBut, Sound
<1>2. Extends(t, v)
  BY <1>1, ExtendsTwice DEF GrowsBut
<1>. QED
  BY <1>2 DEF GrowsBut

LEMMA GrowsThen ==
  ASSUME NEW t, Sound(t), NEW u, NEW v, NEW A
  PROVE  /\ GrowsBut(t, u, A) /\ Grows(u, v) => GrowsBut(t, v, A)
         /\ Grows(t, u) /\ GrowsBut(u, v, A) => GrowsBut(t, v, A)
         /\ Grows(t, u) /\ Grows(u, v) => Grows(t, v)
<1>1. A \cup {} = A /\ {} \cup A = A /\ {} \cup {} = {}
  OBVIOUS
<1>. QED
  BY <1>1, GrowsTwice DEF Grows

-----------------------------------------------------------------------------
(***************************************************************************)
(* The two things handlers do: they end observations and forget some, and  *)
(* they create one and may hold it open.                                   *)
(***************************************************************************)

Closed(t, ids, c) == [EndAll(t, ids) EXCEPT !.c = c]

Ends(t, ids, c, u) ==
  /\ u \in States /\ u.crew = t.crew /\ u.c = c /\ Len(u.obs) = Len(t.obs)
  /\ \A i \in 1..Len(t.obs) :
       /\ Same(t.obs[i], u.obs[i])
       /\ u.obs[i].ended = IF i \in ids THEN t.obs[i].ended \cup {t.crew} ELSE t.obs[i].ended

LEMMA ClosedFacts ==
  ASSUME NEW t, Sound(t), NEW ids \in SUBSET (1..Len(t.obs)), NEW c \in Contexts
  PROVE  Ends(t, ids, c, Closed(t, ids, c))
<1> DEFINE o == [i \in DOMAIN t.obs |-> IF i \in ids THEN EndedBy(t.obs[i], t.crew) ELSE t.obs[i]]
           b == t.buffer + Cardinality(ids)
           u == Closed(t, ids, c)
<1>1. /\ t \in States /\ Len(t.obs) \in Nat /\ DOMAIN t.obs = 1..Len(t.obs) /\ t.crew \in Nat
      /\ t.buffer \in Nat /\ Cardinality(ids) \in Nat
  BY StateFacts, HeldFacts DEF Sound
<1>2. ASSUME NEW e \in Observations
      PROVE  /\ EndedBy(e, t.crew) \in Observations /\ Same(e, EndedBy(e, t.crew))
             /\ EndedBy(e, t.crew).ended = e.ended \cup {t.crew}
  BY <1>1 DEF Observations, EndedBy, Same
<1>3. ASSUME NEW i \in 1..Len(t.obs)
      PROVE  /\ o[i] \in Observations /\ Same(t.obs[i], o[i])
             /\ o[i].ended = IF i \in ids THEN t.obs[i].ended \cup {t.crew} ELSE t.obs[i].ended
  <2>1. t.obs[i] \in Observations
    BY <1>1, StateFacts
  <2>2. Same(t.obs[i], t.obs[i])
    BY DEF Same
  <2>. QED
    BY <1>1, <1>2, <2>1, <2>2
<1>4. o \in [1..Len(t.obs) -> Observations]
  BY <1>1, <1>3
<1>5. o \in Seq(Observations) /\ Len(o) = Len(t.obs)
  <2> HIDE DEF o
  <2>. QED
    BY <1>1, <1>4, SeqDef
<1>6. u = [[t EXCEPT !.obs = o, !.buffer = b] EXCEPT !.c = c]
  BY DEF EndAll, Closed
<1>7. b \in Nat
  BY <1>1
<1> HIDE DEF o, b, u
<1>8. u = [crew |-> t.crew, obs |-> o, buffer |-> b, c |-> c]
  BY <1>1, <1>6 DEF States
<1>9. u \in States
  BY <1>1, <1>5, <1>7, <1>8 DEF States
<1>10. u.crew = t.crew /\ u.c = c /\ u.obs = o
  BY <1>8
<1>. QED
  BY <1>3, <1>5, <1>9, <1>10, Zenon DEF u, Ends

\* What is forgotten without having been ended becomes an orphan.
Narrows(t, ids, c) ==
  /\ c \in Contexts
  /\ c.trace = t.c.trace \/ (c.trace = None /\ Held(c) = {})
  /\ c.root \in {None, t.c.root} /\ c.gen \in {None, t.c.gen} /\ c.stack \subseteq t.c.stack
  /\ c.closed \subseteq t.c.closed \cup t.c.stack /\ Ids(c.stack) \cap Ids(c.closed) = {}
  /\ Held(c) \cap ids = {}

LEMMA Closing ==
  ASSUME NEW t, Sound(t), NEW ids \in SUBSET (1..Len(t.obs)), NEW c, Narrows(t, ids, c)
  PROVE  GrowsBut(t, Closed(t, ids, c), Held(t.c) \ (Held(c) \cup ids))
<1> DEFINE u == Closed(t, ids, c)
<1>1. Ends(t, ids, c, u)
  BY ClosedFacts DEF Narrows
<1> HIDE DEF u
<1>2. Held(t.c) \subseteq 1..Len(t.obs) /\ Len(t.obs) \in Nat
  BY HeldFacts, StateFacts DEF Sound
<1>3. Held(c) \subseteq Held(t.c)
  BY DEF Held, Ids, Narrows
<1>4. \A i, k : Kind(t, i, k) => Kind(u, i, k)
  BY <1>1 DEF Ends, Kind, Same
<1>5. Placed(u)
  <2>1. c.root # None => Kind(u, c.root, "root")
    BY <1>4 DEF Sound, Placed, Narrows
  <2>2. c.gen # None => Kind(u, c.gen, "gen")
    BY <1>4 DEF Sound, Placed, Narrows
  <2>3. \A e \in c.stack \cup c.closed : Kind(u, e.id, "tool")
    BY <1>4 DEF Sound, Placed, Narrows
  <2>4. \A e, f \in c.stack : e.id = f.id => e = f
    BY DEF Sound, Placed, Narrows
  <2>. QED
    BY <1>1, <2>1, <2>2, <2>3, <2>4 DEF Ends, Placed, Narrows
<1>6. Traced(u)
  <2>1. \A i \in 1..Len(t.obs) : u.obs[i].trace = t.obs[i].trace /\ u.obs[i].turn = t.obs[i].turn
    BY <1>1 DEF Ends, Same
  <2>2. client => \A i \in 1..Len(u.obs) : u.obs[i].trace = u.obs[i].turn
    BY <1>1, <2>1 DEF Ends, Sound, Traced
  <2>3. c.trace \in {None, TraceId} /\ (client /\ c.trace = None => Held(c) = {})
    BY <1>3 DEF Sound, Traced, Narrows
  <2>4. \A id \in Held(c) : u.obs[id].trace = c.trace
    BY <1>2, <1>3, <2>1 DEF Sound, Traced, Narrows
  <2>. QED
    BY <1>1, <2>2, <2>3, <2>4 DEF Ends, Traced
<1>7. Unended(u)
  BY <1>1, <1>2, <1>3 DEF Ends, Sound, Unended, Narrows
<1>8. Extends(t, u)
  <2>1. \A i : i \notin (Len(t.obs) + 1)..Len(u.obs)
    BY <1>1, <1>2 DEF Ends
  <2>2. \A i \in 1..Len(t.obs) :
          /\ t.obs[i].ended \subseteq u.obs[i].ended
          /\ u.obs[i].ended \subseteq t.obs[i].ended \cup {t.crew}
    BY <1>1 DEF Ends
  <2>3. Len(t.obs) <= Len(u.obs)
    BY <1>1, <1>2 DEF Ends
  <2>. QED
    BY <1>1, <2>1, <2>2, <2>3, Zenon DEF Ends, Extends
<1>9. Orphans(u) \subseteq Orphans(t) \cup (Held(t.c) \ (Held(c) \cup ids))
  <2> SUFFICES ASSUME NEW i \in Orphans(u), i \notin Held(t.c) \ (Held(c) \cup ids)
               PROVE  i \in Orphans(t)
    OBVIOUS
  <2>1. i \in 1..Len(t.obs) /\ u.obs[i].crew = MainCrew /\ u.obs[i].ended = {} /\ i \notin Held(c)
    BY <1>1 DEF Ends, Orphans
  <2>2. i \notin ids /\ t.obs[i].ended = {} /\ t.obs[i].crew = MainCrew
    BY <1>1, <2>1 DEF Ends, Same
  <2>. QED
    BY <2>1, <2>2 DEF Orphans
<1>. QED
  BY <1>1, <1>5, <1>6, <1>7, <1>8, <1>9 DEF Ends, Sound, GrowsBut, u

Opened(t, kind, parent, ended, c) == [Create(t, kind, parent, ended) EXCEPT !.c = c]

Adds(t, kind, parent, ended, c, u) ==
  LET n == Len(t.obs) + 1
  IN /\ u \in States /\ u.crew = t.crew /\ u.c = c /\ Len(u.obs) = n
     /\ \A i \in 1..Len(t.obs) : u.obs[i] = t.obs[i]
     /\ u.obs[n] = [kind |-> kind, parent |-> parent, trace |-> t.c.trace, crew |-> t.crew,
                    turn |-> TraceId, ended |-> IF ended THEN {t.crew} ELSE {}]

LEMMA OpenedFacts ==
  ASSUME NEW t, Sound(t), NEW kind \in Kinds, NEW parent \in Nat, NEW ended \in BOOLEAN,
         NEW c \in Contexts
  PROVE  Adds(t, kind, parent, ended, c, Opened(t, kind, parent, ended, c))
<1> DEFINE new == [kind |-> kind, parent |-> parent, trace |-> t.c.trace, crew |-> t.crew,
                   turn |-> TraceId, ended |-> IF ended THEN {t.crew} ELSE {}]
           o == Append(t.obs, new)
           b == t.buffer + 1
           u == Opened(t, kind, parent, ended, c)
<1>1. /\ t \in States /\ Len(t.obs) \in Nat /\ t.crew \in Nat /\ t.c.trace \in Nat
      /\ t.buffer \in Nat /\ t.obs \in Seq(Observations) /\ TraceId \in Nat
  BY StateFacts DEF Sound, Contexts, TraceId
<1>2. new \in Observations
  BY <1>1 DEF Observations
<1>3. u = [[[t EXCEPT !.buffer = b] EXCEPT !.obs = o] EXCEPT !.c = c]
  BY <1>1 DEF Opened, Create, Enqueue, States
<1>4. b \in Nat
  BY <1>1
<1> HIDE DEF new
<1>5. /\ o \in Seq(Observations) /\ Len(o) = Len(t.obs) + 1 /\ o[Len(t.obs) + 1] = new
      /\ \A i \in 1..Len(t.obs) : o[i] = t.obs[i]
  BY <1>1, <1>2, AppendProperties
<1> HIDE DEF o, b, u
<1>6. u = [crew |-> t.crew, obs |-> o, buffer |-> b, c |-> c]
  BY <1>1, <1>3 DEF States
<1>7. u \in States
  BY <1>1, <1>4, <1>5, <1>6 DEF States
<1>8. u.crew = t.crew /\ u.c = c /\ u.obs = o
  BY <1>6
<1>. QED
  BY <1>5, <1>7, <1>8, Zenon DEF u, new, Adds

\* The observation is ended at once, or the context holds it from now on.
Takes(t, kind, ended, c) ==
  LET n == Len(t.obs) + 1
  IN /\ c \in Contexts /\ c.trace = t.c.trace /\ c.closed = t.c.closed
     /\ \/ ended /\ c.root = t.c.root /\ c.gen = t.c.gen /\ c.stack = t.c.stack
        \/ /\ ~ended /\ kind = "root" /\ t.c.root = None
           /\ c.root = n /\ c.gen = t.c.gen /\ c.stack = t.c.stack
        \/ /\ ~ended /\ kind = "gen" /\ t.c.gen = None
           /\ c.root = t.c.root /\ c.gen = n /\ c.stack = t.c.stack
        \/ /\ ~ended /\ kind = "tool" /\ c.root = t.c.root /\ c.gen = t.c.gen
           /\ \E e \in Entries : e.id = n /\ c.stack = t.c.stack \cup {e}

LEMMA TakesHeld ==
  ASSUME NEW t, Sound(t), NEW kind, NEW ended \in BOOLEAN, NEW c, Takes(t, kind, ended, c)
  PROVE  Held(c) = IF ended THEN Held(t.c) ELSE Held(t.c) \cup {Len(t.obs) + 1}
<1>1. Len(t.obs) + 1 # None
  BY StateFacts DEF Sound, None
<1>2. CASE ended
  BY <1>2 DEF Takes, Held, Ids
<1>3. CASE ~ended /\ kind = "root"
  BY <1>1, <1>3 DEF Takes, Held, Ids
<1>4. CASE ~ended /\ kind = "gen"
  BY <1>1, <1>4 DEF Takes, Held, Ids
<1>5. CASE ~ended /\ kind = "tool"
  <2>1. PICK e \in Entries : e.id = Len(t.obs) + 1 /\ c.stack = t.c.stack \cup {e}
    BY <1>5 DEF Takes
  <2>2. Ids(c.stack) = Ids(t.c.stack) \cup {Len(t.obs) + 1}
    BY <2>1 DEF Ids
  <2>. QED
    BY <1>5, <2>2 DEF Takes, Held
<1>. QED
  BY <1>2, <1>3, <1>4, <1>5 DEF Takes

LEMMA Creating ==
  ASSUME NEW t, Sound(t), NEW kind \in Kinds, NEW parent \in Held(t.c) \cup {None},
         NEW ended \in BOOLEAN, NEW c, Takes(t, kind, ended, c), client => t.c.trace # None
  PROVE  Grows(t, Opened(t, kind, parent, ended, c))
<1> DEFINE u == Opened(t, kind, parent, ended, c)
           n == Len(t.obs) + 1
<1>1. Held(t.c) \subseteq 1..Len(t.obs) /\ Len(t.obs) \in Nat /\ t.crew \in Nat
  BY HeldFacts, StateFacts DEF Sound
<1>2. Adds(t, kind, parent, ended, c, u)
  BY <1>1, OpenedFacts DEF Takes, None
<1> HIDE DEF u
<1>3. Held(c) = IF ended THEN Held(t.c) ELSE Held(t.c) \cup {n}
  BY TakesHeld
<1>4. \A i \in 1..n : i = n \/ i \in 1..Len(t.obs)
  BY <1>1
<1>5. \A i, k : Kind(t, i, k) => Kind(u, i, k) /\ i # n
  BY <1>1, <1>2 DEF Adds, Kind
<1>6. Kind(u, n, kind)
  BY <1>1, <1>2 DEF Adds, Kind
<1>7. Placed(u)
  <2>1. c.root # None => Kind(u, c.root, "root")
    BY <1>5, <1>6 DEF Takes, Sound, Placed
  <2>2. c.gen # None => Kind(u, c.gen, "gen")
    BY <1>5, <1>6 DEF Takes, Sound, Placed
  <2>3. \A e \in c.stack \cup c.closed : Kind(u, e.id, "tool")
    BY <1>5, <1>6 DEF Takes, Sound, Placed
  <2>4. \A e, f \in c.stack : e.id = f.id => e = f
    BY <1>5 DEF Takes, Sound, Placed
  <2>5. Ids(c.stack) \cap Ids(c.closed) = {}
    BY <1>5 DEF Takes, Sound, Placed, Ids
  <2>. QED
    BY <1>2, <2>1, <2>2, <2>3, <2>4, <2>5 DEF Adds, Placed
<1>8. Traced(u)
  <2>1. c.trace = t.c.trace /\ u.obs[n].trace = t.c.trace /\ u.obs[n].turn = TraceId
    BY <1>2 DEF Takes, Adds
  <2>2. client => \A i \in 1..Len(u.obs) : u.obs[i].trace = u.obs[i].turn
    BY <1>2, <1>4, <2>1 DEF Adds, Sound, Traced
  <2>3. \A id \in Held(c) : u.obs[id].trace = c.trace
    BY <1>1, <1>2, <1>3, <2>1 DEF Adds, Sound, Traced
  <2>. QED
    BY <1>2, <2>1, <2>2, <2>3 DEF Adds, Sound, Traced
<1>9. Unended(u)
  <2>1. u.obs[n].ended = IF ended THEN {t.crew} ELSE {}
    BY <1>2 DEF Adds
  <2>. QED
    BY <1>1, <1>2, <1>3, <2>1 DEF Adds, Sound, Unended
<1>10. Extends(t, u)
  <2>1. /\ u.obs[n].crew = t.crew /\ u.obs[n].ended \subseteq {t.crew}
        /\ u.obs[n].parent = parent /\ u.obs[n].trace = t.c.trace
    BY <1>2 DEF Adds
  <2>2. Proper(t, u, n)
    <3>1. CASE parent = None
      BY <1>1, <2>1, <3>1 DEF Proper, None
    <3>2. CASE parent \in Held(t.c)
      <4>1. parent \in 1..Len(t.obs) /\ parent \in 1..n
        BY <1>1, <3>2
      <4>2. u.obs[parent].trace = t.c.trace /\ t.crew \notin t.obs[parent].ended
        BY <1>2, <3>2, <4>1 DEF Adds, Sound, Traced, Unended
      <4>. QED
        BY <1>2, <2>1, <4>1, <4>2 DEF Proper, Adds
    <3>. QED
      BY <3>1, <3>2
  <2>3. \A i \in (Len(t.obs) + 1)..Len(u.obs) : i = n
    BY <1>1, <1>2 DEF Adds
  <2>4. Len(t.obs) <= Len(u.obs)
    BY <1>1, <1>2 DEF Adds
  <2>5. \A i \in 1..Len(t.obs) :
          /\ Same(t.obs[i], u.obs[i]) /\ t.obs[i].ended \subseteq u.obs[i].ended
          /\ u.obs[i].ended \subseteq t.obs[i].ended \cup {t.crew}
    BY <1>2 DEF Adds, Same
  <2>. QED
    BY <1>2, <2>2, <2>3, <2>4, <2>5 DEF Adds, Extends
<1>11. Orphans(u) \subseteq Orphans(t)
  <2> SUFFICES ASSUME NEW i \in Orphans(u) PROVE i \in Orphans(t)
    OBVIOUS
  <2>1. i \in 1..n /\ u.obs[i].crew = MainCrew /\ u.obs[i].ended = {} /\ i \notin Held(c)
    BY <1>2 DEF Adds, Orphans
  <2>2. i # n
    <3>1. ended => u.obs[n].ended = {t.crew}
      BY <1>2 DEF Adds
    <3>. QED
      BY <1>3, <2>1, <3>1
  <2>3. i \in 1..Len(t.obs) /\ u.obs[i] = t.obs[i] /\ i \notin Held(t.c)
    BY <1>2, <1>3, <1>4, <2>1, <2>2 DEF Adds
  <2>. QED
    BY <2>1, <2>3 DEF Orphans
<1>. QED
  BY <1>2, <1>7, <1>8, <1>9, <1>10, <1>11 DEF Sound, Adds, Grows, GrowsBut, u

-----------------------------------------------------------------------------
(***************************************************************************)
(* The handlers.                                                           *)
(***************************************************************************)

LEMMA CreateFacts ==
  ASSUME NEW t, Sound(t), NEW kind \in Kinds, NEW parent \in Nat, NEW ended \in BOOLEAN
  PROVE  /\ Create(t, kind, parent, ended).c = t.c
         /\ Newest(Create(t, kind, parent, ended)) = Len(t.obs) + 1
         /\ Create(t, kind, parent, ended) = Opened(t, kind, parent, ended, t.c)
<1> DEFINE u == Create(t, kind, parent, ended)
           v == Opened(t, kind, parent, ended, t.c)
<1>1. t \in States /\ t.c \in Contexts
  BY StateFacts DEF Sound
<1>2. u.c = t.c
  BY <1>1 DEF Create, Enqueue, States
<1>3. v = u
  BY <1>1 DEF Opened, Create, Enqueue, States
<1>4. Adds(t, kind, parent, ended, t.c, v)
  BY <1>1, OpenedFacts
<1>. QED
  BY <1>2, <1>3, <1>4 DEF Adds, Newest

LEMMA EndAllC ==
  ASSUME NEW t \in States, NEW ids
  PROVE  EndAll(t, ids).c = t.c /\ EndAll(t, ids) = Closed(t, ids, t.c)
BY DEF EndAll, Closed, States

\* Events alone change nothing.
LEMMA SameGrows ==
  ASSUME NEW t, Sound(t), NEW u \in States, u.crew = t.crew, u.obs = t.obs, u.c = t.c
  PROVE  Grows(t, u)
<1>1. Sound(u)
  BY DEF Sound, Placed, Traced, Unended, Kind
<1>2. Extends(t, u)
  BY ExtendsSelf DEF Extends, Sound
<1>. QED
  BY <1>1, <1>2 DEF Grows, GrowsBut, Orphans

LEMMA EnqueueGrows ==
  ASSUME NEW t, Sound(t)
  PROVE  Grows(t, Enqueue(t)) /\ Enqueue(t).c = t.c
<1>1. t \in States
  BY DEF Sound
<1>2. /\ Enqueue(t) \in States /\ Enqueue(t).crew = t.crew
      /\ Enqueue(t).obs = t.obs /\ Enqueue(t).c = t.c
  BY <1>1 DEF Enqueue, States
<1>. QED
  BY <1>2, SameGrows

Rooted(t, u) ==
  /\ Grows(t, u) /\ (client => u.c.trace # None)
  /\ u.c.gen = t.c.gen /\ u.c.stack = t.c.stack /\ u.c.closed = t.c.closed

LEMMA EnsureTraceRoots ==
  ASSUME NEW t, Sound(t)
  PROVE  Rooted(t, EnsureTrace(t))
<1>1. CASE t.c.trace # None \/ ~client
  <2>1. EnsureTrace(t) = t
    BY <1>1 DEF EnsureTrace
  <2>. QED
    BY <1>1, <2>1, GrowsSelf DEF Rooted
<1>2. CASE t.c.trace = None /\ client
  <2> DEFINE v == [Enqueue(t) EXCEPT !.c.trace = TraceId]
             c == [v.c EXCEPT !.root = Len(v.obs) + 1]
             u == Opened(v, "root", None, FALSE, c)
  <2>1. t \in States /\ TraceId \in Nat /\ TraceId # None /\ Held(t.c) = {}
    BY <1>2 DEF Sound, Traced, TraceId, None
  <2>2. /\ v \in States /\ v.crew = t.crew /\ v.obs = t.obs /\ v.c.trace = TraceId
        /\ v.c.root = t.c.root /\ v.c.gen = t.c.gen /\ v.c.stack = t.c.stack
        /\ v.c.closed = t.c.closed
    <3> DEFINE d == [t.c EXCEPT !.trace = TraceId]
    <3>1. /\ d \in Contexts /\ d.trace = TraceId /\ d.root = t.c.root /\ d.gen = t.c.gen
          /\ d.stack = t.c.stack /\ d.closed = t.c.closed
      BY <2>1, StateFacts DEF Contexts
    <3>2. v = [Enqueue(t) EXCEPT !.c = d]
      BY <2>1 DEF Enqueue, States
    <3> HIDE DEF d, v
    <3>3. v = [crew |-> t.crew, obs |-> t.obs, buffer |-> t.buffer + 1, c |-> d]
      BY <2>1, <3>2 DEF Enqueue, States
    <3>4. v \in States
      BY <2>1, <3>1, <3>3, StateFacts DEF States
    <3>5. v.crew = t.crew /\ v.obs = t.obs /\ v.c = d
      BY <3>3
    <3>. QED
      BY <3>1, <3>4, <3>5
  <2> HIDE DEF v
  <2>3. Held(v.c) = {}
    BY <2>1, <2>2 DEF Held
  <2>4. Sound(v)
    BY <2>1, <2>2, <2>3 DEF Sound, Placed, Traced, Unended, Kind
  <2>5. Extends(t, v)
    BY <2>1, <2>2, ExtendsSelf DEF Extends
  <2>6. Grows(t, v)
    BY <2>1, <2>2, <2>3, <2>4, <2>5 DEF Grows, GrowsBut, Orphans
  <2>7. v.c.root = None
    BY <2>3 DEF Held
  <2>8. v.c \in Contexts /\ Len(v.obs) \in Nat
    BY <2>2, StateFacts
  <2>9. Takes(v, "root", FALSE, c)
    BY <2>7, <2>8 DEF Takes, Contexts
  <2>10. Grows(v, u)
    BY <2>1, <2>2, <2>4, <2>9, Creating DEF Kinds
  <2>11. u.c = c
    <3>1. c \in Contexts /\ "root" \in Kinds /\ None \in Nat
      BY <2>9 DEF Kinds, None, Takes
    <3> HIDE DEF u, c
    <3>2. Adds(v, "root", None, FALSE, c, u)
      BY <2>4, <3>1, OpenedFacts DEF u
    <3>. QED
      BY <3>2 DEF Adds
  <2>12. EnsureTrace(t) = u
    <3>1. EnsureTrace(t) = [Create(v, "root", None, FALSE)
                              EXCEPT !.c.root = Newest(Create(v, "root", None, FALSE))]
      BY <1>2 DEF EnsureTrace, v
    <3>2. /\ Create(v, "root", None, FALSE).c = v.c
          /\ Newest(Create(v, "root", None, FALSE)) = Len(v.obs) + 1
      BY <2>4, CreateFacts DEF Kinds, None
    <3>. QED
      BY <3>1, <3>2 DEF Opened
  <2>13. c.trace = TraceId /\ c.gen = t.c.gen /\ c.stack = t.c.stack /\ c.closed = t.c.closed
    BY <2>2, <2>8 DEF Contexts
  <2> HIDE DEF u, c
  <2>14. Grows(t, u)
    BY <2>6, <2>10, GrowsThen
  <2>. QED
    BY <2>1, <2>11, <2>12, <2>13, <2>14 DEF Rooted
<1>. QED
  BY <1>1, <1>2

LEMMA ClosingAll ==
  ASSUME NEW t, Sound(t), NEW ids \in SUBSET (1..Len(t.obs)), NEW c, Narrows(t, ids, c),
         Held(t.c) \subseteq Held(c) \cup ids
  PROVE  Grows(t, Closed(t, ids, c)) /\ Closed(t, ids, c).c = c
<1>1. GrowsBut(t, Closed(t, ids, c), Held(t.c) \ (Held(c) \cup ids))
  BY Closing
<1>2. Held(t.c) \ (Held(c) \cup ids) = {}
  OBVIOUS
<1>3. Ends(t, ids, c, Closed(t, ids, c))
  BY ClosedFacts DEF Narrows
<1>. QED
  BY <1>1, <1>2, <1>3 DEF Grows, Ends

\* What the kinds of the observations say about a context.
LEMMA Distinct ==
  ASSUME NEW t, Sound(t)
  PROVE  /\ t.c.gen # None => t.c.gen # t.c.root
         /\ \A e \in t.c.stack \cup t.c.closed : e.id \notin {t.c.root, t.c.gen} /\ e.id # None
BY StateFacts DEF Sound, Placed, Kind, None

GenEnded(t, u) ==
  /\ Grows(t, u) /\ u.c.gen = None /\ u.c.trace = t.c.trace /\ u.c.root = t.c.root
  /\ u.c.stack = t.c.stack

LEMMA EndGenEnds ==
  ASSUME NEW t, Sound(t)
  PROVE  GenEnded(t, EndGen(t))
<1>1. CASE t.c.gen = None
  BY <1>1, GrowsSelf DEF EndGen, GenEnded
<1>2. CASE t.c.gen # None
  <2> DEFINE c == [t.c EXCEPT !.gen = None]
             ids == {t.c.gen}
  <2>1. t \in States /\ t.c \in Contexts /\ ids \in SUBSET (1..Len(t.obs))
    BY <1>2, StateFacts, HeldFacts DEF Sound, Held
  <2>2. EndGen(t) = Closed(t, ids, c)
    BY <1>2, <2>1, EndAllC DEF EndGen, End, Closed
  <2>3. /\ c \in Contexts /\ c.gen = None /\ c.trace = t.c.trace /\ c.root = t.c.root
        /\ c.stack = t.c.stack /\ c.closed = t.c.closed
    BY <2>1 DEF Contexts, None
  <2> HIDE DEF c
  <2>4. Held(t.c) = Held(c) \cup ids /\ Held(c) \cap ids = {}
    BY <1>2, <2>3, Distinct DEF Held, Ids
  <2>5. Narrows(t, ids, c)
    BY <2>3, <2>4 DEF Narrows, Sound, Placed
  <2>. QED
    BY <2>1, <2>2, <2>3, <2>4, <2>5, ClosingAll DEF GenEnded
<1>. QED
  BY <1>1, <1>2

StackEnded(t, u) ==
  /\ Grows(t, u) /\ u.c.stack = {} /\ u.c.trace = t.c.trace /\ u.c.root = t.c.root
  /\ u.c.gen = t.c.gen

LEMMA EndStackEnds ==
  ASSUME NEW t, Sound(t)
  PROVE  StackEnded(t, EndStack(t))
<1> DEFINE c == [t.c EXCEPT !.stack = {}]
           ids == Ids(t.c.stack)
<1>1. t \in States /\ t.c \in Contexts /\ ids \in SUBSET (1..Len(t.obs))
  BY StateFacts, HeldFacts DEF Sound, Ids
<1>2. EndStack(t) = Closed(t, ids, c)
  BY <1>1, EndAllC DEF EndStack, Closed
<1>3. /\ c \in Contexts /\ c.gen = t.c.gen /\ c.trace = t.c.trace /\ c.root = t.c.root
      /\ c.stack = {} /\ c.closed = t.c.closed
  BY <1>1 DEF Contexts
<1> HIDE DEF c
<1>4. Held(t.c) = Held(c) \cup ids /\ Held(c) \cap ids = {}
  BY <1>3, Distinct DEF Held, Ids
<1>5. Narrows(t, ids, c)
  BY <1>3, <1>4 DEF Narrows, Ids
<1>. QED
  BY <1>1, <1>2, <1>3, <1>4, <1>5, ClosingAll DEF StackEnded

LEMMA ReadResultsGrows ==
  ASSUME NEW t, Sound(t), NEW results
  PROVE  /\ Grows(t, ReadResults(t, results))
         /\ ReadResults(t, results).c.trace = t.c.trace
<1> DEFINE read == Matched(t.c.stack, results)
           latest == {e \in read : \A f \in read : SameKey(e, f) => f.id <= e.id}
           closed == {e \in t.c.closed : \A f \in read : ~SameKey(e, f)} \cup latest
           c == [t.c EXCEPT !.stack = @ \ read, !.closed = closed]
           ids == Ids(read)
<1>1. read \subseteq t.c.stack
  BY DEF Matched
<1>2. t \in States /\ t.c \in Contexts
  BY StateFacts DEF Sound
<1>3. ids \in SUBSET (1..Len(t.obs))
  BY <1>1, HeldFacts DEF Ids
<1>4. ReadResults(t, results) = [EndAll(t, ids) EXCEPT !.c.stack = @ \ read, !.c.closed = closed]
  BY <1>2, EndAllC DEF ReadResults
<1> HIDE DEF read
<1>5. closed \subseteq t.c.closed \cup read
  OBVIOUS
<1> HIDE DEF closed
<1>6. ReadResults(t, results) = Closed(t, ids, c)
  BY <1>2, <1>4, EndAllC DEF Closed
<1>7. /\ c.gen = t.c.gen /\ c.trace = t.c.trace /\ c.root = t.c.root
      /\ c.stack = t.c.stack \ read /\ c.closed = closed
  BY <1>2 DEF Contexts
<1>8. c \in Contexts
  BY <1>1, <1>2, <1>5 DEF Contexts
<1> HIDE DEF c
<1>9. Ids(t.c.stack) = Ids(c.stack) \cup ids
  BY <1>1, <1>7 DEF Ids
<1>10. Ids(c.stack) \cap ids = {}
  BY <1>1, <1>7 DEF Ids, Sound, Placed
<1>11. Held(t.c) = Held(c) \cup ids /\ Held(c) \cap ids = {}
  <2>1. \A id \in ids : id \notin {t.c.root, t.c.gen}
    BY <1>1, Distinct DEF Ids
  <2>. QED
    BY <1>7, <1>9, <1>10, <2>1 DEF Held
<1>12. Ids(c.stack) \cap Ids(c.closed) = {}
  <2>1. Ids(c.closed) \subseteq Ids(t.c.closed) \cup ids
    BY <1>5, <1>7 DEF Ids
  <2>. QED
    BY <1>9, <1>10, <2>1 DEF Sound, Placed
<1>13. Narrows(t, ids, c)
  BY <1>1, <1>5, <1>7, <1>8, <1>11, <1>12 DEF Narrows
<1>. QED
  BY <1>3, <1>6, <1>7, <1>11, <1>13, ClosingAll

LEMMA HeldAreIds ==
  ASSUME NEW t, Sound(t), NEW p \in Held(t.c) \cup {None}
  PROVE  p \in Nat
<1>1. Held(t.c) \subseteq 1..Len(t.obs) /\ Len(t.obs) \in Nat
  BY HeldFacts, StateFacts DEF Sound
<1>. QED
  BY <1>1 DEF None

LEMMA Parents ==
  ASSUME NEW t, Sound(t)
  PROVE  /\ StackTop(t.c) \in Held(t.c) \cup {None}
         /\ ToolParent(t.c) \in Held(t.c) \cup {None}
<1>1. StackTop(t.c) \in Held(t.c) \cup {None}
  <2>1. CASE t.c.stack = {}
    BY <2>1 DEF StackTop, Held
  <2>2. CASE t.c.stack # {}
    <3>1. Len(t.obs) \in Nat /\ Ids(t.c.stack) \subseteq 1..Len(t.obs)
      BY StateFacts, HeldFacts DEF Sound, Ids
    <3>2. Last(t.c.stack) \in t.c.stack
      BY <2>2, <3>1, LastFacts
    <3>. QED
      BY <2>2, <3>2 DEF StackTop, Held, Ids
  <2>. QED
    BY <2>1, <2>2
<1>. QED
  BY <1>1 DEF ToolParent, Held

\* A generation newer than all there was.
Regenerates(t, u) == \E j \in (Len(t.obs) + 1)..Len(u.obs) : u.obs[j].kind = "gen"

LEMMA BeforeLlmGrows ==
  ASSUME NEW t, Sound(t), NEW results
  PROVE  Grows(t, BeforeLlm(t, results)) /\ Regenerates(t, BeforeLlm(t, results))
<1> DEFINE u == EnsureTrace(t)
           v == IF u.c.gen = None THEN u ELSE EndGen(ReadResults(u, results))
           c == [v.c EXCEPT !.gen = Len(v.obs) + 1]
           w == Opened(v, "gen", GenParent(v.c), FALSE, c)
<1>1. Grows(t, u) /\ Sound(u) /\ (client => u.c.trace # None)
  BY EnsureTraceRoots DEF Rooted, Grows, GrowsBut
<1>2. Grows(t, v) /\ Sound(v) /\ v.c.gen = None /\ (client => v.c.trace # None)
  <2>1. CASE u.c.gen = None
    BY <1>1, <2>1
  <2>2. CASE u.c.gen # None
    <3> DEFINE r == ReadResults(u, results)
    <3>1. Grows(u, r) /\ Sound(r) /\ r.c.trace = u.c.trace
      BY <1>1, ReadResultsGrows DEF Grows, GrowsBut
    <3> HIDE DEF r, u
    <3>2. GenEnded(r, EndGen(r))
      BY <3>1, EndGenEnds
    <3>3. Grows(t, EndGen(r)) /\ Sound(EndGen(r))
      BY <1>1, <3>1, <3>2, GrowsThen DEF GenEnded, Grows, GrowsBut
    <3>. QED
      BY <1>1, <2>2, <3>1, <3>2, <3>3 DEF GenEnded, r
  <2>. QED
    BY <2>1, <2>2
<1>3. BeforeLlm(t, results) = [Create(v, "gen", GenParent(v.c), FALSE)
                                 EXCEPT !.c.gen = Newest(Create(v, "gen", GenParent(v.c), FALSE))]
  BY DEF BeforeLlm
<1> HIDE DEF u, v
<1>4. v \in States /\ v.c \in Contexts /\ Len(v.obs) \in Nat /\ Len(t.obs) \in Nat
  BY <1>2, StateFacts DEF Sound
<1>5. GenParent(v.c) \in Held(v.c) \cup {None} /\ GenParent(v.c) \in Nat
  <2>1. GenParent(v.c) \in Held(v.c) \cup {None}
    BY <1>2, Parents DEF GenParent
  <2>. QED
    BY <1>2, <2>1, HeldAreIds
<1>6. /\ Create(v, "gen", GenParent(v.c), FALSE).c = v.c
      /\ Newest(Create(v, "gen", GenParent(v.c), FALSE)) = Len(v.obs) + 1
  BY <1>2, <1>5, CreateFacts DEF Kinds
<1>7. BeforeLlm(t, results) = w
  BY <1>3, <1>6 DEF Opened
<1>8. Takes(v, "gen", FALSE, c)
  BY <1>2, <1>4 DEF Takes, Contexts
<1> HIDE DEF c
<1>9. Grows(v, w)
  BY <1>2, <1>5, <1>8, Creating DEF Kinds
<1>10. Regenerates(t, w)
  <2>1. Adds(v, "gen", GenParent(v.c), FALSE, c, w)
    BY <1>2, <1>5, <1>8, OpenedFacts DEF Kinds, Takes
  <2>2. Len(t.obs) <= Len(v.obs)
    BY <1>2 DEF Grows, GrowsBut, Extends
  <2> HIDE DEF w
  <2>3. w.obs[Len(v.obs) + 1].kind = "gen" /\ Len(w.obs) = Len(v.obs) + 1
    BY <2>1 DEF Adds
  <2>4. Len(v.obs) + 1 \in (Len(t.obs) + 1)..Len(w.obs)
    BY <1>4, <2>2, <2>3
  <2>. QED
    BY <2>3, <2>4 DEF Regenerates
<1> HIDE DEF w
<1>. QED
  BY <1>2, <1>7, <1>9, <1>10, GrowsThen

LEMMA BeforeToolGrows ==
  ASSUME NEW t, Sound(t), NEW tool \in Tools, NEW turn \in Nat
  PROVE  Grows(t, BeforeTool(t, tool, turn))
<1> DEFINE u == EnsureTrace(t)
           e == [id |-> Len(u.obs) + 1, tool |-> tool, turn |-> turn]
           c == [u.c EXCEPT !.stack = @ \cup {e}]
           w == Opened(u, "tool", ToolParent(u.c), FALSE, c)
<1>1. Grows(t, u) /\ Sound(u) /\ (client => u.c.trace # None)
  BY EnsureTraceRoots DEF Rooted, Grows, GrowsBut
<1>2. u \in States /\ u.c \in Contexts /\ Len(u.obs) \in Nat
  BY <1>1, StateFacts DEF Sound
<1>3. ToolParent(u.c) \in Held(u.c) \cup {None} /\ ToolParent(u.c) \in Nat
  <2>1. ToolParent(u.c) \in Held(u.c) \cup {None}
    BY <1>1, Parents
  <2>. QED
    BY <1>1, <2>1, HeldAreIds
<1>4. BeforeTool(t, tool, turn) =
        [Create(u, "tool", ToolParent(u.c), FALSE) EXCEPT !.c.stack = @ \cup
           {[id |-> Newest(Create(u, "tool", ToolParent(u.c), FALSE)), tool |-> tool,
             turn |-> turn]}]
  BY DEF BeforeTool
<1> HIDE DEF u
<1>5. /\ Create(u, "tool", ToolParent(u.c), FALSE).c = u.c
      /\ Newest(Create(u, "tool", ToolParent(u.c), FALSE)) = Len(u.obs) + 1
  BY <1>1, <1>3, CreateFacts DEF Kinds
<1>6. BeforeTool(t, tool, turn) = w
  BY <1>4, <1>5 DEF Opened
<1>7. Takes(u, "tool", FALSE, c)
  <2>1. e \in Entries /\ e.id = Len(u.obs) + 1
    BY <1>2 DEF Entries
  <2> HIDE DEF e
  <2>2. /\ c \in Contexts /\ c.trace = u.c.trace /\ c.closed = u.c.closed /\ c.root = u.c.root
        /\ c.gen = u.c.gen /\ c.stack = u.c.stack \cup {e}
    BY <1>2, <2>1 DEF Contexts
  <2>. QED
    BY <2>1, <2>2 DEF Takes
<1> HIDE DEF c
<1>8. Grows(u, w)
  BY <1>1, <1>3, <1>7, Creating DEF Kinds
<1> HIDE DEF w
<1>. QED
  BY <1>1, <1>6, <1>8, GrowsThen

\* An observation made and ended at once.
LEMMA EndedAtOnce ==
  ASSUME NEW t, Sound(t), NEW kind \in Kinds, NEW parent \in Held(t.c) \cup {None},
         client => t.c.trace # None
  PROVE  Grows(t, Create(t, kind, parent, TRUE)) /\ Create(t, kind, parent, TRUE).c = t.c
<1>1. t.c \in Contexts /\ parent \in Nat
  BY StateFacts, HeldAreIds DEF Sound
<1>2. Takes(t, kind, TRUE, t.c)
  BY <1>1 DEF Takes
<1>3. Grows(t, Opened(t, kind, parent, TRUE, t.c))
  BY <1>2, Creating
<1>. QED
  BY <1>1, <1>3, CreateFacts

LEMMA TaskCompleteGrows ==
  ASSUME NEW t, Sound(t)
  PROVE  Grows(t, TaskComplete(t))
<1> DEFINE u == EnsureTrace(t)
<1>1. Grows(t, u) /\ Sound(u) /\ (client => u.c.trace # None)
  BY EnsureTraceRoots DEF Rooted, Grows, GrowsBut
<1>2. TaskComplete(t) = Create(u, "task", StackTop(u.c), TRUE)
  BY DEF TaskComplete
<1> HIDE DEF u
<1>3. Grows(u, TaskComplete(t))
  BY <1>1, <1>2, Parents, EndedAtOnce DEF Kinds
<1>. QED
  BY <1>1, <1>3, GrowsThen

LEMMA AfterToolGrows ==
  ASSUME NEW t, Sound(t), NEW tool, NEW turn
  PROVE  Grows(t, AfterTool(t, tool, turn))
<1> DEFINE open == For(t.c.stack, tool, turn)
           closed == For(t.c.closed, tool, turn)
           u == EnsureTrace(t)
<1>1. /\ t \in States /\ t.c \in Contexts /\ Len(t.obs) \in Nat
      /\ open \subseteq t.c.stack /\ closed \subseteq t.c.closed
  BY StateFacts DEF Sound, For
<1>2. Ids(open) \subseteq 1..Len(t.obs) /\ Ids(closed) \subseteq 1..Len(t.obs)
  BY <1>1, HeldFacts DEF Ids
<1>3. CASE open # {}
  <2> DEFINE e == Last(open)
             ids == {e.id}
             c == [t.c EXCEPT !.stack = @ \ {e}]
  <2>1. e \in t.c.stack /\ ids \in SUBSET (1..Len(t.obs))
    BY <1>1, <1>2, <1>3, LastFacts DEF Ids
  <2>2. AfterTool(t, tool, turn) = [End(t, Last(open).id) EXCEPT !.c.stack = @ \ {Last(open)}]
    BY <1>3 DEF AfterTool
  <2> HIDE DEF open, e
  <2>3. AfterTool(t, tool, turn) = Closed(t, ids, c)
    BY <1>1, <2>2, EndAllC DEF End, Closed, e
  <2>4. /\ c \in Contexts /\ c.gen = t.c.gen /\ c.trace = t.c.trace /\ c.root = t.c.root
        /\ c.stack = t.c.stack \ {e} /\ c.closed = t.c.closed
    BY <1>1 DEF Contexts
  <2> HIDE DEF c
  <2>5. Ids(t.c.stack) = Ids(c.stack) \cup ids /\ Ids(c.stack) \cap ids = {}
    BY <2>1, <2>4 DEF Ids, Sound, Placed
  <2>6. Held(t.c) = Held(c) \cup ids /\ Held(c) \cap ids = {}
    <3>1. e.id \notin {t.c.root, t.c.gen}
      BY <2>1, Distinct
    <3>. QED
      BY <2>4, <2>5, <3>1 DEF Held
  <2>7. Narrows(t, ids, c)
    BY <2>4, <2>5, <2>6 DEF Narrows, Sound, Placed
  <2>. QED
    BY <2>1, <2>3, <2>6, <2>7, ClosingAll
<1>4. CASE open = {} /\ closed # {}
  <2> DEFINE e == Last(closed)
             ids == {e.id}
             c == [t.c EXCEPT !.closed = @ \ closed]
  <2>1. e \in t.c.closed /\ ids \in SUBSET (1..Len(t.obs))
    BY <1>1, <1>2, <1>4, LastFacts DEF Ids
  <2>2. AfterTool(t, tool, turn) = [End(t, Last(closed).id) EXCEPT !.c.closed = @ \ closed]
    BY <1>4 DEF AfterTool
  <2> HIDE DEF closed, e
  <2>3. AfterTool(t, tool, turn) = Closed(t, ids, c)
    BY <1>1, <2>2, EndAllC DEF End, Closed, e
  <2>4. /\ c \in Contexts /\ c.gen = t.c.gen /\ c.trace = t.c.trace /\ c.root = t.c.root
        /\ c.stack = t.c.stack /\ c.closed = t.c.closed \ closed
    BY <1>1 DEF Contexts
  <2> HIDE DEF c
  <2>5. Held(t.c) = Held(c)
    BY <2>4 DEF Held
  <2>6. Held(c) \cap ids = {}
    <3>1. e.id \in Ids(t.c.closed) /\ e.id \notin {t.c.root, t.c.gen}
      BY <2>1, Distinct DEF Ids
    <3>2. e.id \notin Ids(t.c.stack)
      BY <3>1 DEF Sound, Placed
    <3>. QED
      BY <2>5, <3>1, <3>2 DEF Held
  <2>7. Narrows(t, ids, c)
    BY <2>4, <2>6 DEF Narrows, Sound, Placed, Ids
  <2>. QED
    BY <2>1, <2>3, <2>5, <2>7, ClosingAll
<1>5. CASE open = {} /\ closed = {}
  <2>1. Grows(t, u) /\ Sound(u) /\ (client => u.c.trace # None)
    BY EnsureTraceRoots DEF Rooted, Grows, GrowsBut
  <2>2. AfterTool(t, tool, turn) = Create(u, "tool", ToolParent(u.c), TRUE)
    BY <1>5 DEF AfterTool
  <2> HIDE DEF u
  <2>3. Grows(u, AfterTool(t, tool, turn))
    BY <2>1, <2>2, Parents, EndedAtOnce DEF Kinds
  <2>. QED
    BY <2>1, <2>3, GrowsThen
<1>. QED
  BY <1>3, <1>4, <1>5

\* Forgetting without ending.
LEMMA EndNothing ==
  ASSUME NEW t, Sound(t)
  PROVE  EndAll(t, {}) = t
<1> DEFINE o == [i \in DOMAIN t.obs |-> IF i \in {} THEN EndedBy(t.obs[i], t.crew) ELSE t.obs[i]]
           b == t.buffer + Cardinality({})
<1>1. t \in States /\ t.obs \in Seq(Observations) /\ t.buffer \in Nat
  BY StateFacts DEF Sound
<1>2. o = t.obs
  BY <1>1
<1>3. b = t.buffer
  BY <1>1, FS_EmptySet
<1>4. EndAll(t, {}) = [t EXCEPT !.obs = o, !.buffer = b]
  BY DEF EndAll
<1> HIDE DEF o, b
<1>. QED
  BY <1>1, <1>2, <1>3, <1>4 DEF States

LEMMA EmptyFacts ==
  /\ EmptyContext \in Contexts /\ Held(EmptyContext) = {} /\ EmptyContext.trace = None
  /\ EmptyContext.root = None /\ EmptyContext.gen = None /\ EmptyContext.stack = {}
  /\ EmptyContext.closed = {}
BY DEF EmptyContext, Contexts, Held, Ids, None

LEMMA FlushAndCloseGrows ==
  ASSUME NEW t, Sound(t)
  PROVE  Grows(t, FlushAndClose(t)) /\ FlushAndClose(t).c = EmptyContext
<1> DEFINE s == EndStack(t)
           g == EndGen(s)
           u == EnsureTrace(g)
           v == IF u.c.trace # None THEN Create(u, "end", u.c.root, TRUE) ELSE u
           w == IF v.c.root # None THEN End(v, v.c.root) ELSE v
<1>1. FlushAndClose(t) = [w EXCEPT !.c = EmptyContext]
  BY DEF FlushAndClose
<1>2. StackEnded(t, s)
  BY EndStackEnds
<1>3. Grows(t, s) /\ Sound(s) /\ s.c.stack = {}
  BY <1>2 DEF StackEnded, Grows, GrowsBut
<1> HIDE DEF s
<1>4. GenEnded(s, g)
  BY <1>3, EndGenEnds
<1>5. Grows(t, g) /\ Sound(g) /\ g.c.stack = {} /\ g.c.gen = None
  BY <1>3, <1>4, GrowsThen DEF GenEnded, Grows, GrowsBut
<1> HIDE DEF g
<1>6. Rooted(g, u)
  BY <1>5, EnsureTraceRoots
<1>7. /\ Grows(t, u) /\ Sound(u) /\ u.c.stack = {} /\ u.c.gen = None
      /\ (client => u.c.trace # None)
  BY <1>5, <1>6, GrowsThen DEF Rooted, Grows, GrowsBut
<1> HIDE DEF u
<1>8. u.c.root \in Held(u.c) \cup {None}
  BY DEF Held
<1>9. Grows(t, v) /\ Sound(v) /\ v.c = u.c
  <2>1. CASE u.c.trace # None
    <3>1. Grows(u, v) /\ v.c = u.c
      BY <1>7, <1>8, <2>1, EndedAtOnce DEF Kinds
    <3>. QED
      BY <1>7, <3>1, GrowsThen DEF Grows, GrowsBut
  <2>2. CASE u.c.trace = None
    BY <1>7, <2>2
  <2>. QED
    BY <2>1, <2>2
<1> HIDE DEF v
<1> DEFINE ids == {v.c.root} \ {None}
<1>10. Held(v.c) = ids
  BY <1>7, <1>9 DEF Held, Ids
<1>11. FlushAndClose(t) = Closed(v, ids, EmptyContext)
  <2>1. CASE v.c.root # None
    <3>1. w = EndAll(v, ids)
      BY <2>1 DEF End
    <3>. QED
      BY <1>1, <3>1 DEF Closed
  <2>2. CASE v.c.root = None
    <3>1. w = EndAll(v, ids)
      <4>1. ids = {}
        BY <2>2
      <4>. QED
        BY <1>9, <2>2, <4>1, EndNothing
    <3>. QED
      BY <1>1, <3>1 DEF Closed
  <2>. QED
    BY <2>1, <2>2
<1>12. ids \in SUBSET (1..Len(v.obs))
  BY <1>9, <1>10, HeldFacts
<1>13. Narrows(v, ids, EmptyContext)
  BY EmptyFacts DEF Narrows, Ids
<1> HIDE DEF w, ids
<1>14. Grows(v, FlushAndClose(t)) /\ FlushAndClose(t).c = EmptyContext
  BY <1>9, <1>10, <1>11, <1>12, <1>13, ClosingAll
<1>. QED
  BY <1>9, <1>14, GrowsThen

LEMMA AfterTurnGrows ==
  ASSUME NEW t, Sound(t)
  PROVE  Grows(t, AfterTurn(t))
<1> DEFINE e == EnsureTrace(t)
           g == EndGen(e)
           u == EndStack(g)
           v == IF u.c.trace # None THEN Enqueue(u) ELSE u
<1>1. AfterTurn(t) = IF v.c.root # None THEN Enqueue(v) ELSE v
  BY DEF AfterTurn
<1>2. Grows(t, e) /\ Sound(e)
  BY EnsureTraceRoots DEF Rooted, Grows, GrowsBut
<1> HIDE DEF e
<1>3. Grows(t, g) /\ Sound(g)
  BY <1>2, EndGenEnds, GrowsThen DEF GenEnded, Grows, GrowsBut
<1> HIDE DEF g
<1>4. Grows(t, u) /\ Sound(u)
  BY <1>3, EndStackEnds, GrowsThen DEF StackEnded, Grows, GrowsBut
<1> HIDE DEF u
<1>5. Grows(t, v) /\ Sound(v)
  BY <1>4, EnqueueGrows, GrowsThen DEF Grows, GrowsBut
<1> HIDE DEF v
<1>. QED
  BY <1>1, <1>5, EnqueueGrows, GrowsThen

\* The generation of the turn before is all that is forgotten.
LEMMA BeforeTurnGrows ==
  ASSUME NEW t, Sound(t), NEW message \in BOOLEAN
  PROVE  GrowsBut(t, BeforeTurn(t, message), {t.c.gen} \ {None})
<1> DEFINE e == EnsureTrace(t)
           c == [e.c EXCEPT !.gen = None, !.closed = {}]
           u == Closed(e, {}, c)
           d == [e EXCEPT !.c.gen = None, !.c.closed = {}]
<1>1. Grows(t, e) /\ Sound(e) /\ e.c.gen = t.c.gen
  BY EnsureTraceRoots DEF Rooted, Grows, GrowsBut
<1>2. d = u
  BY <1>1, EndNothing DEF Closed, Sound, States, Contexts
<1>3. BeforeTurn(t, message) = IF message /\ d.c.trace # None THEN Enqueue(d) ELSE d
  BY DEF BeforeTurn
<1> HIDE DEF e, d
<1>4. /\ c \in Contexts /\ c.gen = None /\ c.trace = e.c.trace /\ c.root = e.c.root
      /\ c.stack = e.c.stack /\ c.closed = {}
  BY <1>1, StateFacts DEF Contexts, None, Sound
<1> HIDE DEF c
<1>5. Narrows(e, {}, c)
  BY <1>4 DEF Narrows, Ids
<1>6. GrowsBut(e, u, Held(e.c) \ (Held(c) \cup {}))
  BY <1>1, <1>5, Closing
<1>7. Held(e.c) \ (Held(c) \cup {}) \subseteq {t.c.gen} \ {None}
  BY <1>1, <1>4 DEF Held
<1>8. GrowsBut(e, u, {t.c.gen} \ {None})
  BY <1>6, <1>7 DEF GrowsBut
<1>9. GrowsBut(t, u, {t.c.gen} \ {None})
  BY <1>1, <1>8, GrowsThen
<1>10. Sound(u)
  BY <1>8 DEF GrowsBut
<1> HIDE DEF u
<1>. QED
  BY <1>2, <1>3, <1>9, <1>10, EnqueueGrows, GrowsThen

-----------------------------------------------------------------------------
(***************************************************************************)
(* A hook registered several times: what each call keeps, all of them keep. *)
(***************************************************************************)

LEMMA ToolHookGrows ==
  ASSUME NEW t, Sound(t), NEW tool \in Tools, NEW turn \in Nat, NEW allowed \in BOOLEAN
  PROVE  Grows(t, ToolHook(t, tool, turn, allowed))
<1> DEFINE u == BeforeTool(t, tool, turn)
<1>1. Grows(t, u) /\ Sound(u)
  BY BeforeToolGrows DEF Grows, GrowsBut
<1>2. ToolHook(t, tool, turn, allowed) = IF allowed THEN u ELSE AfterTool(u, tool, turn)
  BY DEF ToolHook
<1> HIDE DEF u
<1>3. Grows(u, AfterTool(u, tool, turn))
  BY <1>1, AfterToolGrows
<1>. QED
  BY <1>1, <1>2, <1>3, GrowsThen

LEMMA ToolHooksGrow ==
  ASSUME NEW t, Sound(t), NEW tool \in Tools, NEW turn \in Nat, NEW allowed \in BOOLEAN,
         NEW n \in Nat
  PROVE  Grows(t, ToolHooks(t, tool, turn, allowed, n))
<1> DEFINE S == {u \in States : Grows(t, u)}
           F == [u \in S |-> ToolHook(u, tool, turn, allowed)]
           Body(g) == [k \in 0..n |-> IF k = 0 THEN t ELSE ToolHook(g[k - 1], tool, turn, allowed)]
           after == CHOOSE g : g = Body(g)
           T == {k \in 0..n : after[k] \in S}
<1>1. t \in S
  BY GrowsSelf DEF Sound
<1>2. ASSUME NEW u \in S PROVE ToolHook(u, tool, turn, allowed) \in S
  <2>1. Sound(u)
    BY DEF Grows, GrowsBut
  <2>2. Grows(u, ToolHook(u, tool, turn, allowed))
    BY <2>1, ToolHookGrows
  <2>3. Grows(t, ToolHook(u, tool, turn, allowed))
    BY <2>2, GrowsThen
  <2>. QED
    BY <2>3 DEF Grows, GrowsBut, Sound
<1>3. ToolHooks(t, tool, turn, allowed, n) = after[n]
  BY DEF ToolHooks
<1> HIDE DEF S
<1>4. F \in [S -> S]
  BY <1>2
<1> HIDE DEF F
<1>5. PICK h : Iteration(S, F, t, n, h)
  BY <1>1, <1>4, Iterates
<1>6. h = Body(h)
  <2>1. ASSUME NEW k \in 0..n PROVE h[k] = Body(h)[k]
    <3>1. CASE k = 0
      BY <1>5, <3>1 DEF Iteration
    <3>2. CASE k # 0
      <4>1. k \in 1..n /\ k - 1 \in 0..n /\ h[k - 1] \in S
        BY <1>5, <3>2 DEF Iteration
      <4>. QED
        BY <1>5, <3>2, <4>1 DEF F, Iteration
    <3>. QED
      BY <3>1, <3>2
  <2>2. h = [k \in 0..n |-> h[k]]
    BY <1>5 DEF Iteration
  <2>. QED
    BY <2>1, <2>2
<1>7. after = Body(after)
  <2> HIDE DEF Body
  <2>. QED
    BY <1>6
<1> HIDE DEF after
<1>8. 0 \in T /\ \A k \in 1..n : k - 1 \in T => k \in T
  <2>1. after[0] = t
    BY <1>7
  <2>2. ASSUME NEW k \in 1..n, after[k - 1] \in S PROVE after[k] \in S
    <3>1. after[k] = ToolHook(after[k - 1], tool, turn, allowed)
      BY <1>7
    <3>. QED
      BY <1>2, <2>2, <3>1
  <2>. QED
    BY <1>1, <2>1, <2>2
<1> HIDE DEF T
<1>9. n \in T
  BY <1>8, NatUpTo
<1>. QED
  BY <1>3, <1>9 DEF T, S

LEMMA LlmHooksGrow ==
  ASSUME NEW t, Sound(t), NEW results, NEW n \in Nat
  PROVE  /\ Grows(t, LlmHooks(t, results, n))
         /\ n > 0 => Regenerates(t, LlmHooks(t, results, n))
<1> DEFINE S == {u \in States : Grows(t, u)}
           F == [u \in S |-> BeforeLlm(u, results)]
           Body(g) == [k \in 0..n |-> IF k = 0 THEN t ELSE BeforeLlm(g[k - 1], results)]
           after == CHOOSE g : g = Body(g)
           T == {k \in 0..n : after[k] \in S}
<1>1. t \in S
  BY GrowsSelf DEF Sound
<1>2. ASSUME NEW u \in S
      PROVE  BeforeLlm(u, results) \in S /\ Regenerates(t, BeforeLlm(u, results))
  <2>1. Sound(u) /\ Len(t.obs) \in Nat /\ Len(u.obs) \in Nat /\ Len(t.obs) <= Len(u.obs)
    BY StateFacts DEF Grows, GrowsBut, Sound, Extends
  <2>2. Grows(u, BeforeLlm(u, results)) /\ Regenerates(u, BeforeLlm(u, results))
    BY <2>1, BeforeLlmGrows
  <2>3. Grows(t, BeforeLlm(u, results))
    BY <2>2, GrowsThen
  <2>4. Len(BeforeLlm(u, results).obs) \in Nat
    BY <2>3, StateFacts DEF Grows, GrowsBut, Sound
  <2>5. Regenerates(t, BeforeLlm(u, results))
    BY <2>1, <2>2, <2>4 DEF Regenerates
  <2>. QED
    BY <2>3, <2>5 DEF Grows, GrowsBut, Sound
<1>3. LlmHooks(t, results, n) = after[n]
  BY DEF LlmHooks
<1> HIDE DEF S
<1>4. F \in [S -> S]
  BY <1>2
<1> HIDE DEF F
<1>5. PICK h : Iteration(S, F, t, n, h)
  BY <1>1, <1>4, Iterates
<1>6. h = Body(h)
  <2>1. ASSUME NEW k \in 0..n PROVE h[k] = Body(h)[k]
    <3>1. CASE k = 0
      BY <1>5, <3>1 DEF Iteration
    <3>2. CASE k # 0
      <4>1. k \in 1..n /\ k - 1 \in 0..n /\ h[k - 1] \in S
        BY <1>5, <3>2 DEF Iteration
      <4>. QED
        BY <1>5, <3>2, <4>1 DEF F, Iteration
    <3>. QED
      BY <3>1, <3>2
  <2>2. h = [k \in 0..n |-> h[k]]
    BY <1>5 DEF Iteration
  <2>. QED
    BY <2>1, <2>2
<1>7. after = Body(after)
  <2> HIDE DEF Body
  <2>. QED
    BY <1>6
<1> HIDE DEF after
<1>8. \A k \in 1..n : after[k] = BeforeLlm(after[k - 1], results)
  BY <1>7
<1>9. 0 \in T /\ \A k \in 1..n : k - 1 \in T => k \in T
  <2>1. after[0] = t
    BY <1>7
  <2>. QED
    BY <1>1, <1>2, <1>8, <2>1
<1> HIDE DEF T
<1>10. 0..n \subseteq T
  BY <1>9, NatUpTo
<1>11. ASSUME n > 0 PROVE Regenerates(t, after[n])
  <2>1. n - 1 \in 0..n /\ n \in 1..n
    BY <1>11
  <2>2. after[n - 1] \in S
    BY <1>10, <2>1 DEF T
  <2>. QED
    BY <1>2, <1>8, <2>1, <2>2
<1>. QED
  BY <1>3, <1>10, <1>11 DEF T, S

-----------------------------------------------------------------------------
(***************************************************************************)
(* The batch.                                                              *)
(***************************************************************************)

LEMMA Division ==
  ASSUME NEW a \in Nat, NEW d \in Nat \ {0}
  PROVE  /\ a \div d \in Int
         /\ d * (a \div d) <= a /\ a < d * (a \div d) + d
OBVIOUS

\* A chunk holds at most Chunk events.
LEMMA InChunksBound ==
  ASSUME NEW n \in Nat, NEW bad, IsFiniteSet(bad)
  PROVE  InChunks(n, bad) \in Nat /\ InChunks(n, bad) <= Chunk * Cardinality(bad)
<1> DEFINE E == {e \in 1..n : (e - 1) \div Chunk + 1 \in bad}
           P == bad \X (0..(Chunk - 1))
           q(e) == (e - 1) \div Chunk
           f == [e \in E |-> <<q(e) + 1, e - 1 - Chunk * q(e)>>]
<1>1. Chunk \in Nat \ {0}
  BY SpansAssumption
<1>2. ASSUME NEW e \in E
      PROVE  /\ e \in Nat /\ q(e) \in Int /\ q(e) + 1 \in bad
             /\ e - 1 - Chunk * q(e) \in 0..(Chunk - 1)
  <2>1. e - 1 \in Nat
    OBVIOUS
  <2>2. q(e) \in Int /\ Chunk * q(e) <= e - 1 /\ e - 1 < Chunk * q(e) + Chunk
    BY <1>1, <2>1, Division
  <2> HIDE DEF q
  <2>3. Chunk * q(e) \in Int
    BY <1>1, <2>2
  <2>. QED
    BY <1>1, <2>1, <2>2, <2>3 DEF q
<1> HIDE DEF q
<1>3. f \in [E -> P]
  BY <1>2
<1>4. ASSUME NEW x \in E, NEW y \in E, f[x] = f[y] PROVE x = y
  <2>1. q(x) + 1 = q(y) + 1 /\ x - 1 - Chunk * q(x) = y - 1 - Chunk * q(y)
    BY <1>4
  <2>2. q(x) = q(y)
    BY <1>2, <2>1
  <2>3. Chunk * q(x) \in Int
    BY <1>1, <1>2
  <2>. QED
    BY <1>2, <2>1, <2>2, <2>3
<1>5. f \in Injection(E, P)
  <2> HIDE DEF f, E, P
  <2>. QED
    BY <1>3, <1>4 DEF Injection, IsInjective
<1>6. /\ IsFiniteSet(P) /\ Cardinality(P) = Cardinality(bad) * Cardinality(0..(Chunk - 1))
      /\ Cardinality(0..(Chunk - 1)) = Chunk
  <2>1. IsFiniteSet(0..(Chunk - 1)) /\ Cardinality(0..(Chunk - 1)) = Chunk
    BY <1>1, FS_Interval
  <2>. QED
    BY <2>1, FS_Product
<1>7. IsFiniteSet(E) /\ Cardinality(E) <= Cardinality(P)
  <2> HIDE DEF f, E, P
  <2>. QED
    BY <1>5, <1>6, FS_Injection
<1>8. InChunks(n, bad) = Cardinality(E)
  BY DEF InChunks
<1> HIDE DEF E, P
<1>9. Cardinality(E) \in Nat /\ Cardinality(bad) \in Nat
  BY <1>7, FS_CardinalityType
<1>. QED
  BY <1>1, <1>6, <1>7, <1>8, <1>9

LEMMA FlushBatchLoses ==
  ASSUME NEW n \in Nat, LostInv, FlushBatch(n)
  PROVE  LostInv' /\ buffer' = 0
<1>1. PICK bad \in SUBSET (IF client THEN Chunks(n) ELSE {}) :
         /\ failed' = failed + Cardinality(bad)
         /\ lost' = lost + InChunks(n, bad)
  BY DEF FlushBatch
<1>2. Chunk \in Nat \ {0}
  BY SpansAssumption
<1>3. IsFiniteSet(bad)
  <2>1. n + Chunk - 1 \in Nat
    BY <1>2
  <2>2. (n + Chunk - 1) \div Chunk \in Int
    BY <1>2, <2>1, Division
  <2>3. IsFiniteSet(Chunks(n))
    BY <2>2, FS_Interval DEF Chunks
  <2>4. bad \in SUBSET Chunks(n)
    OBVIOUS
  <2>. QED
    BY <2>3, <2>4, FS_Subset
<1>4. /\ InChunks(n, bad) \in Nat /\ InChunks(n, bad) <= Chunk * Cardinality(bad)
      /\ Cardinality(bad) \in Nat
  BY <1>3, InChunksBound, FS_CardinalityType
<1>5. Chunk * (failed + Cardinality(bad)) = Chunk * failed + Chunk * Cardinality(bad)
  BY <1>2, <1>4 DEF LostInv
<1>6. Chunk * failed \in Nat /\ Chunk * Cardinality(bad) \in Nat
  BY <1>2, <1>4 DEF LostInv
<1>. QED
  BY <1>1, <1>4, <1>5, <1>6 DEF LostInv, FlushBatch

-----------------------------------------------------------------------------
(***************************************************************************)
(* From values to states: what a step of a crew's does to the invariant.   *)
(***************************************************************************)

LEMMA SoundLater ==
  ASSUME NEW w \in Crews, NEW t, Sound(t), client' = client, turns' \in Nat,
         turns' = turns \/ t.c.trace = None,
         (State(w) \in States)', State(w)'.crew = t.crew, State(w)'.obs = t.obs,
         State(w)'.c = t.c
  PROVE  Sound(State(w))'
<1>1. Placed(State(w))'
  BY DEF Sound, Placed, Kind
<1>2. Traced(State(w))'
  BY DEF Sound, Traced, TraceId
<1>3. Unended(State(w))'
  BY DEF Sound, Unended
<1>. QED
  BY <1>1, <1>2, <1>3 DEF Sound

LEMMA StateParts ==
  ASSUME NEW w
  PROVE  /\ State(w).crew = frame[w].crew /\ State(w).obs = obs /\ State(w).buffer = buffer
         /\ State(w).c = frame[w].c
BY DEF State

\* A step that takes the main crew from State("main") to t.
MainGoes(t) ==
  /\ Sound(t) /\ t.crew = MainCrew /\ obs' = t.obs /\ frame'["main"].c = t.c
  /\ frame'["main"].crew = MainCrew /\ buffer' \in Nat /\ client' = client
  /\ turns' \in Nat /\ (turns' = turns \/ t.c.trace = None)

LEMMA MainSound ==
  ASSUME NEW t, MainGoes(t)
  PROVE  Sound(State("main"))' /\ Orphans(State("main"))' = Orphans(t)
<1>1. /\ State("main")' = [crew |-> MainCrew, obs |-> t.obs, buffer |-> buffer', c |-> t.c]
  BY DEF State, MainGoes
<1>2. t.obs \in Seq(Observations) /\ t.c \in Contexts
  BY StateFacts DEF MainGoes, Sound
<1>3. (State("main") \in States)'
  BY <1>1, <1>2 DEF States, MainCrew, MainGoes
<1>4. /\ State("main")'.crew = t.crew /\ State("main")'.obs = t.obs /\ State("main")'.c = t.c
  BY <1>1 DEF MainGoes
<1>5. Sound(State("main"))'
  BY <1>3, <1>4, SoundLater DEF MainGoes, Crews
<1>. QED
  BY <1>4, <1>5 DEF Orphans

\* What is replaced stays replaced.
LEMMA ReplacedLater ==
  ASSUME NEW t, t.obs = obs, Len(obs) \in Nat, DOMAIN obs = 1..Len(obs),
         NEW u \in States, Extends(t, u), obs' = u.obs, NEW i \in 1..Len(obs), Replaced(i)
  PROVE  Replaced(i)'
<1>1. PICK j \in 1..Len(obs) : j > i /\ obs[j].kind = "gen"
  BY DEF Replaced
<1>2. DOMAIN u.obs = 1..Len(u.obs) /\ Len(u.obs) \in Nat /\ Len(obs) <= Len(u.obs)
  BY StateFacts DEF Extends
<1>3. j \in DOMAIN obs' /\ obs'[j].kind = "gen" /\ obs'[i].kind = "gen"
  BY <1>1, <1>2 DEF Extends, Same, Replaced
<1>. QED
  BY <1>1, <1>3 DEF Replaced

LEMMA ParentsLater ==
  ASSUME NEW t \in States, t.obs = obs, NEW u \in States, Extends(t, u), obs' = u.obs
  PROVE  OpenParents
<1>1. /\ DOMAIN obs = 1..Len(obs) /\ Len(obs) \in Nat
      /\ DOMAIN obs' = 1..Len(u.obs) /\ Len(u.obs) \in Nat /\ Len(obs) <= Len(u.obs)
  BY StateFacts DEF Extends
<1> SUFFICES ASSUME NEW i \in DOMAIN obs' \ DOMAIN obs
             PROVE  LET p == obs'[i].parent
                    IN /\ p \in DOMAIN obs => obs'[i].crew \notin obs[p].ended
                       /\ p # None => obs'[p].trace = obs'[i].trace
  BY DEF OpenParents
<1>2. i \in (Len(t.obs) + 1)..Len(u.obs)
  BY <1>1
<1>3. Proper(t, u, i)
  BY <1>2 DEF Extends
<1>. QED
  BY <1>1, <1>3 DEF Proper

LEMMA EndedLater ==
  ASSUME NEW t \in States, t.obs = obs, NEW u \in States, Extends(t, u), obs' = u.obs,
         EndedInv, used.tools \in Nat, used'.tools \in Nat, used.tools <= used'.tools,
         t.crew \in 0..used.tools
  PROVE  EndedInv'
<1>1. Len(obs) \in Nat /\ Len(u.obs) \in Nat /\ Len(obs) <= Len(u.obs)
  BY StateFacts DEF Extends
<1> SUFFICES ASSUME NEW i \in 1..Len(u.obs) PROVE u.obs[i].ended \subseteq 0..used'.tools
  BY DEF EndedInv
<1>2. CASE i \in 1..Len(obs)
  <2>1. u.obs[i].ended \subseteq obs[i].ended \cup {t.crew} /\ obs[i].ended \subseteq 0..used.tools
    BY <1>2 DEF EndedInv, Extends
  <2>. QED
    BY <2>1
<1>3. CASE i \notin 1..Len(obs)
  <2>1. i \in (Len(t.obs) + 1)..Len(u.obs)
    BY <1>1, <1>3
  <2>2. u.obs[i].ended \subseteq {t.crew}
    BY <2>1 DEF Extends, Proper
  <2>. QED
    BY <2>2
<1>. QED
  BY <1>2, <1>3

UsedGrows == used.tools \in Nat /\ used'.tools \in Nat /\ used.tools <= used'.tools

\* The main crew works, and what it forgets is an LLM call that it replaces.
LEMMA MainWorks ==
  ASSUME MainInv, EndedInv, UsedGrows, NEW t, NEW A, GrowsBut(State("main"), t, A),
         MainGoes(t),
         A = {} \/ (A \subseteq {frame["main"].c.gen} \ {None} /\ Regenerates(State("main"), t))
  PROVE  MainInv' /\ EndedInv' /\ OpenParents
<1> DEFINE s == State("main")
<1>1. /\ Sound(s) /\ s.crew = MainCrew /\ s.obs = obs /\ s.c = frame["main"].c
      /\ t \in States /\ Extends(s, t)
  BY StateParts DEF MainInv, GrowsBut, Sound
<1> HIDE DEF s
<1>2. /\ s \in States /\ Len(obs) \in Nat /\ DOMAIN obs = 1..Len(obs)
      /\ DOMAIN t.obs = 1..Len(t.obs) /\ Len(t.obs) \in Nat /\ Len(obs) <= Len(t.obs)
  BY <1>1, StateFacts DEF Sound, Extends
<1>3. obs' = t.obs
  BY DEF MainGoes
<1>4. EndedInv' /\ OpenParents
  <2>1. s.crew \in 0..used.tools
    BY <1>1 DEF UsedGrows, MainCrew
  <2>. QED
    BY <1>1, <1>2, <1>3, <2>1, EndedLater, ParentsLater DEF UsedGrows
<1>5. Sound(State("main"))' /\ Orphans(State("main"))' = Orphans(t)
  BY MainSound
<1>6. ASSUME NEW i \in Orphans(t) PROVE Replaced(i)'
  <2>1. i \in Orphans(s) \/ i \in A
    BY DEF GrowsBut, s
  <2>2. CASE i \in Orphans(s)
    <3>1. i \in 1..Len(obs) /\ Replaced(i)
      BY <1>1, <2>2 DEF MainInv, Orphans, s
    <3>. QED
      BY <1>1, <1>2, <1>3, <3>1, ReplacedLater
  <2>3. CASE i \in A
    <3>1. i = s.c.gen /\ i # None /\ Regenerates(s, t)
      BY <1>1, <2>3 DEF s
    <3>2. i \in 1..Len(obs) /\ obs[i].kind = "gen"
      BY <1>1, <3>1 DEF Sound, Placed, Kind
    <3>3. t.obs[i].kind = "gen"
      BY <1>1, <3>2 DEF Extends, Same
    <3>4. PICK j \in (Len(obs) + 1)..Len(t.obs) : t.obs[j].kind = "gen"
      BY <1>1, <3>1 DEF Regenerates
    <3>. QED
      BY <1>2, <1>3, <3>2, <3>3, <3>4 DEF Replaced
  <2>. QED
    BY <2>1, <2>2, <2>3
<1>. QED
  BY <1>4, <1>5, <1>6 DEF MainInv, MainGoes

\* What one crew does leaves the context of another sound.
LEMMA Beside ==
  ASSUME NEW s, Sound(s), NEW a \in States, NEW v, Sound(v), Extends(a, v), a.obs = s.obs,
         a.crew # s.crew, NEW u \in States, u.crew = s.crew, u.c = s.c, u.obs = v.obs
  PROVE  Sound(u) /\ (s.crew = MainCrew => Orphans(u) \subseteq Orphans(s))
<1>1. /\ s \in States /\ v \in States /\ Len(s.obs) \in Nat /\ Len(v.obs) \in Nat
      /\ Len(s.obs) <= Len(v.obs) /\ Held(s.c) \subseteq 1..Len(s.obs)
  BY StateFacts, HeldFacts DEF Sound, Extends
<1>2. \A i \in 1..Len(s.obs) :
        /\ Same(s.obs[i], u.obs[i]) /\ s.obs[i].ended \subseteq u.obs[i].ended
        /\ u.obs[i].ended \subseteq s.obs[i].ended \cup {a.crew}
  BY DEF Extends
<1>3. \A i, k : Kind(s, i, k) => Kind(u, i, k)
  BY <1>1, <1>2 DEF Kind, Same
<1>4. Placed(u)
  <2>1. u.c.root # None => Kind(u, u.c.root, "root")
    BY <1>3 DEF Sound, Placed
  <2>2. u.c.gen # None => Kind(u, u.c.gen, "gen")
    BY <1>3 DEF Sound, Placed
  <2>3. \A e \in u.c.stack \cup u.c.closed : Kind(u, e.id, "tool")
    BY <1>3 DEF Sound, Placed
  <2>. QED
    BY <2>1, <2>2, <2>3 DEF Sound, Placed
<1>5. Traced(u)
  <2>1. \A id \in Held(u.c) : u.obs[id].trace = u.c.trace
    BY <1>1, <1>2 DEF Same, Sound, Traced
  <2>. QED
    BY <2>1 DEF Sound, Traced
<1>6. Unended(u)
  BY <1>1, <1>2 DEF Sound, Unended
<1>7. ASSUME s.crew = MainCrew, NEW i \in Orphans(u) PROVE i \in Orphans(s)
  <2>1. i \in 1..Len(v.obs) /\ u.obs[i].crew = MainCrew /\ u.obs[i].ended = {} /\ i \notin Held(s.c)
    BY <1>7 DEF Orphans
  <2>2. i \in 1..Len(s.obs)
    <3> SUFFICES ASSUME i \notin 1..Len(s.obs) PROVE FALSE
      OBVIOUS
    <3>1. i \in (Len(a.obs) + 1)..Len(v.obs)
      BY <1>1, <2>1
    <3>2. v.obs[i].crew = a.crew
      BY <3>1 DEF Extends, Proper
    <3>. QED
      BY <1>7, <2>1, <3>2
  <2>3. s.obs[i].crew = MainCrew /\ s.obs[i].ended = {}
    BY <1>2, <2>1, <2>2 DEF Same
  <2>. QED
    BY <2>1, <2>2, <2>3 DEF Orphans
<1>. QED
  BY <1>4, <1>5, <1>6, <1>7 DEF Sound

\* A step that takes the skill's crew from State("skill") to t.
SkillGoes(t) ==
  /\ Sound(t) /\ obs' = t.obs /\ buffer' \in Nat /\ client' = client /\ turns' = turns
  /\ frame'["main"].c = frame["main"].c /\ frame'["main"].crew = frame["main"].crew

LEMMA SkillWorks ==
  ASSUME MainInv, EndedInv, UsedGrows, NEW t, NEW A, GrowsBut(State("skill"), t, A),
         SkillGoes(t), Sound(State("skill")), frame["skill"].crew \in 1..used.tools
  PROVE  MainInv' /\ EndedInv' /\ OpenParents
<1> DEFINE s == State("main")
           a == State("skill")
           u == [crew |-> MainCrew, obs |-> t.obs, buffer |-> buffer', c |-> s.c]
<1>1. /\ Sound(s) /\ s.crew = MainCrew /\ s.obs = obs /\ s.c = frame["main"].c
      /\ a.obs = obs /\ a.crew = frame["skill"].crew /\ a \in States
      /\ t \in States /\ Extends(a, t)
  BY StateParts DEF MainInv, GrowsBut, Sound
<1> HIDE DEF s, a
<1>2. /\ Len(obs) \in Nat /\ DOMAIN obs = 1..Len(obs) /\ t.obs \in Seq(Observations)
      /\ s.c \in Contexts /\ turns \in Nat
  BY <1>1, StateFacts DEF Sound
<1>3. obs' = t.obs
  BY DEF SkillGoes
<1>4. EndedInv' /\ OpenParents
  <2>1. a.crew \in 0..used.tools
    BY <1>1 DEF UsedGrows
  <2>. QED
    BY <1>1, <1>2, <1>3, <2>1, EndedLater, ParentsLater DEF UsedGrows
<1>5. u \in States /\ u.crew = MainCrew /\ u.c = s.c /\ u.obs = t.obs
  BY <1>2 DEF States, MainCrew, SkillGoes
<1> HIDE DEF u
<1>6. a.crew # MainCrew
  BY <1>1 DEF MainCrew, UsedGrows
<1>7. Sound(u) /\ Orphans(u) \subseteq Orphans(s)
  BY <1>1, <1>5, <1>6, Beside DEF SkillGoes
<1>8. MainGoes(u)
  BY <1>1, <1>2, <1>5, <1>7 DEF MainGoes, SkillGoes, MainInv
<1>9. Sound(State("main"))' /\ Orphans(State("main"))' = Orphans(u)
  BY <1>8, MainSound
<1>10. ASSUME NEW i \in Orphans(u) PROVE Replaced(i)'
  <2>1. i \in 1..Len(obs) /\ Replaced(i)
    BY <1>1, <1>7 DEF MainInv, Orphans, s
  <2>. QED
    BY <1>1, <1>2, <1>3, <2>1, ReplacedLater
<1>. QED
  BY <1>4, <1>8, <1>9, <1>10 DEF MainInv, MainGoes

\* Steps that touch no observation and not the main crew's context.
LEMMA NobodyWorks ==
  ASSUME MainInv, EndedInv, UsedGrows, obs' = obs, buffer' = buffer, client' = client,
         turns' = turns, frame'["main"].c = frame["main"].c,
         frame'["main"].crew = frame["main"].crew
  PROVE  MainInv' /\ EndedInv' /\ OpenParents
<1>1. Sound(State("main")) /\ State("main") \in States
  BY DEF MainInv, Sound
<1>2. MainGoes(State("main"))
  BY <1>1, StateParts, StateFacts DEF MainGoes, MainInv, Sound
<1>. QED
  BY <1>1, <1>2, GrowsSelf, MainWorks DEF Grows

\* The skill's context, while the skill goes on.
LEMMA SkillStays ==
  ASSUME NEW t, Sound(t), obs' = t.obs, buffer' \in Nat, client' = client, turns' = turns,
         frame'["skill"].c = t.c, frame'["skill"].crew = t.crew
  PROVE  Sound(State("skill"))'
<1>1. State("skill")' = [crew |-> t.crew, obs |-> t.obs, buffer |-> buffer', c |-> t.c]
  BY DEF State
<1>2. t.obs \in Seq(Observations) /\ t.c \in Contexts /\ t.crew \in Nat /\ turns \in Nat
  BY StateFacts DEF Sound
<1>3. (State("skill") \in States)'
  BY <1>1, <1>2 DEF States
<1>4. State("skill")'.crew = t.crew /\ State("skill")'.obs = t.obs /\ State("skill")'.c = t.c
  BY <1>1
<1>. QED
  BY <1>2, <1>3, <1>4, SoundLater DEF Crews

-----------------------------------------------------------------------------
LEMMA InitHolds == Init => IInv
<1> SUFFICES ASSUME Init PROVE IInv
  OBVIOUS
<1>0. MaxTurns \in Nat /\ Chunk \in Nat \ {0}
  BY SpansAssumption
<1>1. EmptyContext \in Contexts /\ Held(EmptyContext) = {}
  BY EmptyFacts
<1>2. NoResults \in [Tools -> Nat]
  BY DEF NoResults
<1>3. NewFrame(MainCrew, EmptyContext) \in Frames
  BY <1>1, <1>2 DEF NewFrame, Frames, MainCrew
<1>4. Domains
  BY <1>3 DEF Domains, Init, Crews
<1>5. /\ frame["main"].crew = MainCrew /\ frame["main"].c = EmptyContext
      /\ State("main").crew = MainCrew /\ State("main").obs = <<>> /\ State("main").buffer = 0
      /\ State("main").c = EmptyContext
  BY DEF Init, NewFrame, State
<1>6. State("main") \in States /\ Len(State("main").obs) = 0
  BY <1>1, <1>5 DEF State, States, MainCrew, Init
<1>7. Sound(State("main"))
  BY <1>1, <1>5, <1>6, EmptyFacts
     DEF Sound, Placed, Traced, Unended, Init, Ids, None
<1>8. Orphans(State("main")) = {}
  BY <1>6 DEF Orphans
<1>9. EndedInv
  BY DEF EndedInv, Init
<1>10. LostInv
  BY <1>0 DEF LostInv, Init
<1>. QED
  BY <1>4, <1>5, <1>7, <1>8, <1>9, <1>10 DEF IInv, MainInv, SkillInv, PhaseInv, Init

LEMMA FrameOf ==
  ASSUME frame \in [Crews -> Frames], NEW w \in Crews, NEW f \in Frames,
         frame' = [frame EXCEPT ![w] = f]
  PROVE  /\ frame' \in [Crews -> Frames] /\ frame'[w] = f
         /\ \A v \in Crews \ {w} : frame'[v] = frame[v]
OBVIOUS

LEMMA MainStep ==
  ASSUME IInv, NEW t, NEW A, GrowsBut(State("main"), t, A), obs' = t.obs, NEW f \in Frames,
         f.c = t.c, f.crew = MainCrew, frame' = [frame EXCEPT !["main"] = f], buffer' \in Nat,
         client' = client, turns' \in Nat, turns' = turns \/ t.c.trace = None, UsedGrows,
         A = {} \/ (A \subseteq {frame["main"].c.gen} \ {None} /\ Regenerates(State("main"), t))
  PROVE  /\ MainInv' /\ EndedInv' /\ OpenParents
         /\ frame' \in [Crews -> Frames] /\ frame'["main"] = f
<1>1. frame' \in [Crews -> Frames] /\ frame'["main"] = f
  BY FrameOf DEF IInv, Domains, Crews
<1>2. Sound(t) /\ t.crew = MainCrew
  BY StateParts DEF GrowsBut, Extends, IInv, MainInv
<1>3. MainGoes(t)
  BY <1>1, <1>2 DEF MainGoes
<1>. QED
  BY <1>1, <1>3, MainWorks DEF IInv

LEMMA SkillStep ==
  ASSUME IInv, phase = "skill", NEW t, NEW A, GrowsBut(State("skill"), t, A), obs' = t.obs,
         NEW f \in Frames, f.c = t.c, f.crew = frame["skill"].crew,
         frame' = [frame EXCEPT !["skill"] = f], buffer' \in Nat,
         client' = client, turns' = turns, UsedGrows
  PROVE  /\ MainInv' /\ EndedInv' /\ OpenParents
         /\ frame' \in [Crews -> Frames] /\ frame'["main"] = frame["main"]
         /\ frame'["skill"].crew \in 1..used'.tools /\ Sound(State("skill"))'
<1>1. /\ frame' \in [Crews -> Frames] /\ frame'["skill"] = f /\ frame'["main"] = frame["main"]
  BY FrameOf DEF IInv, Domains, Crews
<1>2. Sound(t) /\ t.crew = frame["skill"].crew
  BY StateParts DEF GrowsBut, Extends
<1>3. SkillGoes(t)
  BY <1>1, <1>2 DEF SkillGoes
<1>4. Sound(State("skill")) /\ frame["skill"].crew \in 1..used.tools
  BY DEF IInv, SkillInv
<1>5. MainInv' /\ EndedInv' /\ OpenParents
  BY <1>3, <1>4, SkillWorks DEF IInv
<1>6. Sound(State("skill"))'
  BY <1>1, <1>2, SkillStays
<1>7. frame'["skill"].crew \in 1..used'.tools
  BY <1>1, <1>4 DEF UsedGrows
<1>. QED
  BY <1>1, <1>5, <1>6, <1>7

LEMMA Present ==
  ASSUME IInv
  PROVE  /\ Sound(State("main")) /\ State("main").crew = MainCrew
         /\ State("main").obs = obs /\ State("main").c = frame["main"].c
         /\ frame["main"] \in Frames /\ frame["skill"] \in Frames
         /\ turns \in Nat /\ used.tools \in Nat /\ used.llm \in Nat
         /\ adapter.turn \in Nat /\ adapter.llm \in BOOLEAN /\ adapter.deny \in BOOLEAN
BY StateParts DEF IInv, MainInv, Domains, Crews

\* What the handlers return can be stored.
LEMMA Returned ==
  ASSUME NEW t, NEW u, NEW A, GrowsBut(t, u, A)
  PROVE  u.c \in Contexts /\ u.buffer \in Nat /\ Sound(u)
BY StateFacts DEF GrowsBut, Sound

LEMMA FrameC ==
  ASSUME NEW f \in Frames, NEW c \in Contexts
  PROVE  /\ [f EXCEPT !.c = c] \in Frames /\ [f EXCEPT !.c = c].c = c
         /\ [f EXCEPT !.c = c].crew = f.crew
BY DEF Frames

Keeps == IInv' /\ OpenParents

LEMMA MainKeeps ==
  ASSUME IInv, NEW t, NEW A, GrowsBut(State("main"), t, A), Keep("main", t), buffer' \in Nat,
         client' = client, turns' \in Nat, turns' = turns \/ t.c.trace = None, UsedGrows,
         A = {} \/ (A \subseteq {frame["main"].c.gen} \ {None} /\ Regenerates(State("main"), t))
  PROVE  /\ MainInv' /\ EndedInv' /\ OpenParents
         /\ frame' \in [Crews -> Frames] /\ frame'["main"].c = t.c
<1> DEFINE f == [frame["main"] EXCEPT !.c = t.c]
<1>1. /\ f \in Frames /\ f.c = t.c /\ f.crew = MainCrew
  BY Present, Returned, FrameC DEF IInv, MainInv
<1>2. obs' = t.obs /\ frame' = [frame EXCEPT !["main"] = f]
  BY DEF Keep
<1> HIDE DEF f
<1>. QED
  BY <1>1, <1>2, MainStep

LEMMA BeginTurnKeeps == IInv /\ BeginTurn => Keeps
<1> SUFFICES ASSUME IInv, BeginTurn PROVE Keeps
  OBVIOUS
<1> DEFINE s == State("main")
           t == BeforeTurn(s, TRUE)
<1>1. Sound(s) /\ s.c = EmptyContext
  BY Present DEF IInv, PhaseInv, BeginTurn
<1>2. Grows(s, t)
  <2>1. GrowsBut(s, t, {s.c.gen} \ {None})
    BY <1>1, BeforeTurnGrows
  <2>2. {s.c.gen} \ {None} = {}
    BY <1>1, EmptyFacts
  <2>. QED
    BY <2>1, <2>2 DEF Grows
<1>3. Keep("main", t) /\ buffer' = t.buffer /\ failed' = failed /\ lost' = lost
  BY DEF BeginTurn, Buffered, flushVars
<1> HIDE DEF s, t
<1>4. /\ client' = client /\ named' = named /\ others' = others /\ turns' = turns /\ crews' = crews
      /\ used' = used /\ phase' = "begin" /\ adapter' = [turn |-> 1, llm |-> TRUE, deny |-> FALSE]
  BY DEF BeginTurn, settings
<1>5. /\ MainInv' /\ EndedInv' /\ OpenParents /\ frame' \in [Crews -> Frames] /\ buffer' \in Nat
  BY <1>2, <1>3, <1>4, Present, Returned, MainKeeps DEF Grows, UsedGrows, s
<1>6. Domains'
  BY <1>4, <1>5 DEF Domains, IInv
<1>. QED
  BY <1>3, <1>4, <1>5, <1>6 DEF Keeps, IInv, SkillInv, PhaseInv, LostInv

LEMMA NewFrameC ==
  ASSUME NEW crew \in Nat, NEW c \in Contexts
  PROVE  /\ NewFrame(crew, c) \in Frames /\ NewFrame(crew, c).c = c
         /\ NewFrame(crew, c).crew = crew
BY DEF Frames, NewFrame, NoResults

LEMMA ActedC ==
  ASSUME NEW f \in Frames, NEW tool \in Tools, NEW c \in Contexts
  PROVE  /\ Acted(f, tool, c) \in Frames /\ Acted(f, tool, c).c = c
         /\ Acted(f, tool, c).crew = f.crew
<1>1. NoResults \in [Tools -> Nat]
  BY DEF NoResults
<1>2. f.results \in [Tools -> Nat]
  BY DEF Frames
<1>3. \A before \in [Tools -> Nat] : [before EXCEPT ![tool] = @ + 1] \in [Tools -> Nat]
  OBVIOUS
<1>4. Results(f, tool) \in [Tools -> Nat]
  BY <1>1, <1>2, <1>3 DEF Results
<1>. QED
  BY <1>4 DEF Acted, Frames

LEMMA PreFlightKeeps == ASSUME NEW allowed \in BOOLEAN PROVE IInv /\ PreFlight(allowed) => Keeps
<1> SUFFICES ASSUME IInv, PreFlight(allowed) PROVE Keeps
  OBVIOUS
<1> DEFINE s == State("main")
           t == ToolHooks(s, "agent_execution", adapter.turn, allowed, 1)
           f == NewFrame(MainCrew, t.c)
<1>1. Sound(s) /\ s.c = frame["main"].c
  BY Present
<1>2. Grows(s, t)
  BY <1>1, Present, ToolHooksGrow DEF Tools
<1>3. /\ obs' = t.obs /\ buffer' = t.buffer /\ failed' = failed /\ lost' = lost
      /\ frame' = [frame EXCEPT !["main"] = f]
  BY DEF PreFlight, Buffered, flushVars
<1> HIDE DEF s, t
<1>4. /\ client' = client /\ named' = named /\ others' = others /\ turns' = turns
      /\ used' = used /\ adapter' = adapter
      /\ (phase' = "main" /\ crews' = crews + 1) \/ (phase' = "denied" /\ crews' = crews)
  BY DEF PreFlight, settings
<1>5. f \in Frames /\ f.c = t.c /\ f.crew = MainCrew /\ buffer' \in Nat
  BY <1>2, <1>3, Returned, NewFrameC DEF Grows, MainCrew
<1> HIDE DEF f
<1>6. MainInv' /\ EndedInv' /\ OpenParents /\ frame' \in [Crews -> Frames]
  <2>1. turns' \in Nat /\ UsedGrows
    BY <1>4, Present DEF UsedGrows
  <2>2. GrowsBut(State("main"), t, {})
    BY <1>2 DEF Grows, s
  <2>. QED
    BY <1>3, <1>4, <1>5, <2>1, <2>2, MainStep
<1>7. Domains'
  BY <1>4, <1>5, <1>6 DEF Domains, IInv
<1>. QED
  BY <1>3, <1>4, <1>6, <1>7 DEF Keeps, IInv, SkillInv, PhaseInv, LostInv, Domains

LEMMA TaskDoneKeeps == IInv /\ TaskDone => Keeps
<1> SUFFICES ASSUME IInv, TaskDone PROVE Keeps
  OBVIOUS
<1> DEFINE s == State("main")
           t == TaskComplete(s)
<1>1. Grows(s, t)
  BY Present, TaskCompleteGrows
<1>2. Keep("main", t) /\ buffer' = t.buffer /\ failed' = failed /\ lost' = lost
  BY DEF TaskDone, Buffered, flushVars
<1> HIDE DEF s, t
<1>3. /\ client' = client /\ named' = named /\ others' = others /\ turns' = turns /\ crews' = crews
      /\ used' = used /\ phase' = "after" /\ adapter' = adapter
  BY DEF TaskDone, settings
<1>4. MainInv' /\ EndedInv' /\ OpenParents /\ frame' \in [Crews -> Frames] /\ buffer' \in Nat
  BY <1>1, <1>2, <1>3, Present, Returned, MainKeeps DEF Grows, UsedGrows, s
<1>5. Domains'
  BY <1>3, <1>4 DEF Domains, IInv
<1>. QED
  BY <1>2, <1>3, <1>4, <1>5 DEF Keeps, IInv, SkillInv, PhaseInv, LostInv

LEMMA AgentDoneKeeps == IInv /\ AgentDone => Keeps
<1> SUFFICES ASSUME IInv, AgentDone PROVE Keeps
  OBVIOUS
<1> DEFINE s == State("main")
           t == AfterTool(s, "agent_execution", adapter.turn)
<1>1. Grows(s, t)
  BY Present, AfterToolGrows
<1>2. Keep("main", t) /\ buffer' = t.buffer /\ failed' = failed /\ lost' = lost
  BY DEF AgentDone, Buffered, flushVars
<1> HIDE DEF s, t
<1>3. /\ client' = client /\ named' = named /\ others' = others /\ turns' = turns /\ crews' = crews
      /\ used' = used /\ phase' = "reply" /\ adapter' = adapter
  BY DEF AgentDone, settings
<1>4. MainInv' /\ EndedInv' /\ OpenParents /\ frame' \in [Crews -> Frames] /\ buffer' \in Nat
  BY <1>1, <1>2, <1>3, Present, Returned, MainKeeps DEF Grows, UsedGrows, s
<1>5. Domains'
  BY <1>3, <1>4 DEF Domains, IInv
<1>. QED
  BY <1>2, <1>3, <1>4, <1>5 DEF Keeps, IInv, SkillInv, PhaseInv, LostInv

LEMMA TurnDoneKeeps == IInv /\ TurnDone => Keeps
<1> SUFFICES ASSUME IInv, TurnDone PROVE Keeps
  OBVIOUS
<1> DEFINE s == State("main")
           t == AfterTurn(s)
<1>1. Grows(s, t)
  BY Present, AfterTurnGrows
<1>2. Keep("main", t) /\ FlushBatch(t.buffer)
  BY DEF TurnDone
<1> HIDE DEF s, t
<1>3. /\ client' = client /\ named' = named /\ others' = others /\ turns' = turns /\ crews' = crews
      /\ used' = used /\ phase' = "cleanup" /\ adapter' = adapter
  BY DEF TurnDone, settings
<1>4. LostInv' /\ buffer' = 0
  BY <1>1, <1>2, Returned, FlushBatchLoses DEF Grows, IInv
<1>5. MainInv' /\ EndedInv' /\ OpenParents /\ frame' \in [Crews -> Frames]
  BY <1>1, <1>2, <1>3, <1>4, Present, MainKeeps DEF Grows, UsedGrows, s
<1>6. Domains'
  BY <1>3, <1>4, <1>5 DEF Domains, IInv
<1>. QED
  BY <1>3, <1>4, <1>5, <1>6 DEF Keeps, IInv, SkillInv, PhaseInv

LEMMA CleanupKeeps == IInv /\ Cleanup => Keeps
<1> SUFFICES ASSUME IInv, Cleanup PROVE Keeps
  OBVIOUS
<1> DEFINE s == State("main")
           t == FlushAndClose(s)
<1>1. Grows(s, t) /\ t.c = EmptyContext
  BY Present, FlushAndCloseGrows
<1>2. Keep("main", t) /\ FlushBatch(t.buffer)
  BY DEF Cleanup
<1> HIDE DEF s, t
<1>3. /\ client' = client /\ named' = named /\ others' = others /\ turns' = turns + 1
      /\ crews' = crews /\ used' = used /\ phase' = "idle" /\ adapter' = adapter
  BY DEF Cleanup, settings
<1>4. LostInv' /\ buffer' = 0
  BY <1>1, <1>2, Returned, FlushBatchLoses DEF Grows, IInv
<1>5. turns' \in Nat /\ t.c.trace = None
  BY <1>1, <1>3, Present, EmptyFacts
<1>6. /\ MainInv' /\ EndedInv' /\ OpenParents /\ frame' \in [Crews -> Frames]
      /\ frame'["main"].c = EmptyContext
  BY <1>1, <1>2, <1>3, <1>4, <1>5, Present, MainKeeps DEF Grows, UsedGrows, s
<1>7. Domains'
  BY <1>3, <1>4, <1>5, <1>6 DEF Domains, IInv
<1>. QED
  BY <1>3, <1>4, <1>6, <1>7 DEF Keeps, IInv, SkillInv, PhaseInv

\* An LLM call: the turn it may begin forgets the generation before, and the call makes
\* another.
LEMMA LlmWork ==
  ASSUME NEW s, Sound(s), NEW fresh \in BOOLEAN, NEW results, NEW n \in Nat
  PROVE  LET t == IF fresh THEN s ELSE BeforeTurn(s, FALSE)
             u == LlmHooks(t, results, n)
         IN /\ GrowsBut(s, u, IF fresh THEN {} ELSE {s.c.gen} \ {None})
            /\ n > 0 => Regenerates(s, u)
<1> DEFINE t == IF fresh THEN s ELSE BeforeTurn(s, FALSE)
           A == IF fresh THEN {} ELSE {s.c.gen} \ {None}
           u == LlmHooks(t, results, n)
<1>1. GrowsBut(s, t, A)
  BY GrowsSelf, BeforeTurnGrows DEF Grows
<1> HIDE DEF t, A
<1>2. Sound(t) /\ s \in States /\ t \in States
  BY <1>1, Returned DEF Sound
<1>3. Grows(t, u) /\ (n > 0 => Regenerates(t, u))
  BY <1>2, LlmHooksGrow
<1> HIDE DEF u
<1>4. GrowsBut(s, u, A)
  BY <1>1, <1>3, GrowsThen
<1>5. Len(s.obs) \in Nat /\ Len(t.obs) \in Nat /\ Len(s.obs) <= Len(t.obs)
  BY <1>1, <1>2, StateFacts DEF GrowsBut, Extends
<1>6. Regenerates(t, u) => Regenerates(s, u)
  BY <1>5 DEF Regenerates
<1>. QED
  BY <1>3, <1>4, <1>6 DEF t, u, A

LEMMA AdapterOf ==
  ASSUME IInv, NEW n \in Nat, NEW l \in BOOLEAN, NEW d \in BOOLEAN
  PROVE  /\ [adapter EXCEPT !.llm = l, !.turn = n] \in [turn : Nat, llm : BOOLEAN, deny : BOOLEAN]
         /\ [adapter EXCEPT !.llm = l, !.deny = d] \in [turn : Nat, llm : BOOLEAN, deny : BOOLEAN]
         /\ [adapter EXCEPT !.llm = l] \in [turn : Nat, llm : BOOLEAN, deny : BOOLEAN]
         /\ [adapter EXCEPT !.deny = d] \in [turn : Nat, llm : BOOLEAN, deny : BOOLEAN]
BY DEF IInv, Domains

LEMMA UsedOf ==
  ASSUME IInv
  PROVE  /\ [used EXCEPT !.llm = @ + 1] \in [llm : Nat, tools : Nat]
         /\ [used EXCEPT !.tools = @ + 1] \in [llm : Nat, tools : Nat]
BY DEF IInv, Domains

LEMMA LlmCallKeeps == ASSUME NEW w \in Crews PROVE IInv /\ LlmCall(w) => Keeps
<1> SUFFICES ASSUME IInv, LlmCall(w) PROVE Keeps
  OBVIOUS
<1> DEFINE s == State(w)
           t == IF adapter.llm THEN s ELSE BeforeTurn(s, FALSE)
           u == LlmHooks(t, frame[w].results, crews)
           A == IF adapter.llm THEN {} ELSE {s.c.gen} \ {None}
           f == [frame[w] EXCEPT !.c = u.c, !.step = "answer"]
<1>1. phase = w /\ Sound(s) /\ s.c = frame[w].c
  BY Present, StateParts DEF LlmCall, IInv, SkillInv, Crews
<1>2. crews \in Nat /\ crews > 0 /\ adapter.llm \in BOOLEAN
  BY <1>1, Present DEF IInv, PhaseInv, Domains, Crews
<1>3. GrowsBut(s, u, A) /\ Regenerates(s, u)
  BY <1>1, <1>2, LlmWork
<1>4. /\ obs' = u.obs /\ buffer' = u.buffer /\ failed' = failed /\ lost' = lost
      /\ frame' = [frame EXCEPT ![w] = f]
  BY DEF LlmCall, Buffered, flushVars
<1>5. A = {} \/ A \subseteq {frame[w].c.gen} \ {None}
  BY <1>1
<1> HIDE DEF s, t, u, A
<1>6. /\ client' = client /\ named' = named /\ others' = others /\ turns' = turns
      /\ crews' = crews /\ phase' = phase
      /\ used' = [used EXCEPT !.llm = @ + 1]
      /\ adapter' = [adapter EXCEPT !.llm = TRUE, !.turn = IF adapter.llm THEN @ ELSE @ + 1]
  BY DEF LlmCall, settings
<1>7. u.c \in Contexts /\ buffer' \in Nat
  BY <1>3, <1>4, Returned
<1>8. frame[w] \in Frames
  BY Present DEF Crews
<1>9. f \in Frames /\ f.c = u.c /\ f.crew = frame[w].crew
  BY <1>7, <1>8 DEF Frames
<1> HIDE DEF f
<1>10. /\ adapter' \in [turn : Nat, llm : BOOLEAN, deny : BOOLEAN]
       /\ used' \in [llm : Nat, tools : Nat]
  <2> DEFINE n == IF adapter.llm THEN adapter.turn ELSE adapter.turn + 1
  <2>1. n \in Nat
    BY Present
  <2>2. adapter' = [adapter EXCEPT !.llm = TRUE, !.turn = n]
    BY <1>6
  <2> HIDE DEF n
  <2>. QED
    BY <1>6, <2>1, <2>2, AdapterOf, UsedOf
<1>11. turns' \in Nat /\ UsedGrows /\ used'.tools = used.tools
  BY <1>6, Present DEF UsedGrows, IInv, Domains
<1>12. /\ MainInv' /\ EndedInv' /\ OpenParents /\ frame' \in [Crews -> Frames]
       /\ w = "skill" => /\ frame'["skill"].crew \in 1..used'.tools
                         /\ Sound(State("skill"))'
  <2>1. CASE w = "main"
    <3>1. f.crew = MainCrew
      BY <1>9, <2>1 DEF IInv, MainInv
    <3>. QED
      BY <1>3, <1>4, <1>5, <1>6, <1>7, <1>9, <1>11, <2>1, <3>1, MainStep DEF s
  <2>2. CASE w = "skill"
    BY <1>1, <1>3, <1>4, <1>6, <1>7, <1>9, <1>11, <2>2, SkillStep DEF s
  <2>. QED
    BY <2>1, <2>2 DEF Crews
<1>13. Domains'
  BY <1>6, <1>7, <1>10, <1>12 DEF Domains, IInv
<1>14. SkillInv' /\ PhaseInv' /\ LostInv'
  BY <1>1, <1>2, <1>4, <1>6, <1>12 DEF SkillInv, PhaseInv, LostInv, IInv, Crews
<1>. QED
  BY <1>12, <1>13, <1>14 DEF Keeps, IInv

LEMMA ToolCallKeeps ==
  ASSUME NEW w \in Crews, NEW allowed \in BOOLEAN
  PROVE  IInv /\ ToolCall(w, allowed) => Keeps
<1> SUFFICES ASSUME IInv, ToolCall(w, allowed) PROVE Keeps
  OBVIOUS
<1> DEFINE s == State(w)
           u == ToolHooks(s, "tool", adapter.turn, allowed, 1 + others)
           f == Acted(frame[w], "tool", u.c)
<1>1. phase = w /\ Sound(s)
  BY Present DEF ToolCall, IInv, SkillInv, Crews
<1>2. Grows(s, u)
  <2>1. 1 + others \in Nat /\ "tool" \in Tools
    BY DEF IInv, Domains, Tools
  <2>. QED
    BY <1>1, <2>1, Present, ToolHooksGrow
<1>3. /\ obs' = u.obs /\ buffer' = u.buffer /\ failed' = failed /\ lost' = lost
      /\ frame' = [frame EXCEPT ![w] = f]
  BY DEF ToolCall, Buffered, flushVars
<1> HIDE DEF u
<1>4. /\ client' = client /\ named' = named /\ others' = others /\ turns' = turns
      /\ crews' = crews /\ phase' = phase
      /\ used' = [used EXCEPT !.tools = @ + 1]
      /\ adapter' = [adapter EXCEPT !.deny = @ \/ ~allowed]
  BY DEF ToolCall, settings
<1>5. u.c \in Contexts /\ buffer' \in Nat
  BY <1>2, <1>3, Returned DEF Grows
<1>6. f \in Frames /\ f.c = u.c /\ f.crew = frame[w].crew
  <2>1. frame[w] \in Frames /\ "tool" \in Tools
    BY Present DEF Crews, Tools
  <2>. QED
    BY <1>5, <2>1, ActedC
<1> HIDE DEF s, f
<1>7. adapter' \in [turn : Nat, llm : BOOLEAN, deny : BOOLEAN] /\ used' \in [llm : Nat, tools : Nat]
  <2> DEFINE d == adapter.deny \/ ~allowed
  <2>1. d \in BOOLEAN /\ adapter' = [adapter EXCEPT !.deny = d]
    BY <1>4
  <2> HIDE DEF d
  <2>. QED
    BY <1>4, <2>1, AdapterOf, UsedOf
<1>8. turns' \in Nat /\ UsedGrows
  BY <1>4, Present DEF UsedGrows, IInv, Domains
<1>9. GrowsBut(s, u, {})
  BY <1>2 DEF Grows
<1>10. /\ MainInv' /\ EndedInv' /\ OpenParents /\ frame' \in [Crews -> Frames]
       /\ w = "skill" => /\ frame'["skill"].crew \in 1..used'.tools
                         /\ Sound(State("skill"))'
  <2>1. CASE w = "main"
    <3>1. f.crew = MainCrew
      BY <1>6, <2>1 DEF IInv, MainInv
    <3>. QED
      BY <1>3, <1>4, <1>5, <1>6, <1>8, <1>9, <2>1, <3>1, MainStep DEF s
  <2>2. CASE w = "skill"
    BY <1>1, <1>3, <1>4, <1>5, <1>6, <1>8, <1>9, <2>2, SkillStep DEF s
  <2>. QED
    BY <2>1, <2>2 DEF Crews
<1>11. Domains'
  BY <1>4, <1>5, <1>7, <1>10 DEF Domains, IInv
<1>12. SkillInv' /\ PhaseInv' /\ LostInv'
  BY <1>1, <1>3, <1>4, <1>10 DEF SkillInv, PhaseInv, LostInv, IInv, Crews
<1>. QED
  BY <1>10, <1>11, <1>12 DEF Keeps, IInv

LEMMA SkillStartKeeps ==
  ASSUME NEW allowed \in BOOLEAN PROVE IInv /\ SkillStart(allowed) => Keeps
<1> SUFFICES ASSUME IInv, SkillStart(allowed) PROVE Keeps
  OBVIOUS
<1> DEFINE s == State("main")
           u == ToolHooks(s, "skill_loader", adapter.turn, allowed, 1 + others)
           f == Acted(frame["main"], "skill_loader", u.c)
           g == NewFrame(used.tools + 1, u.c)
<1>1. Sound(s) /\ s.obs = obs /\ s.crew = MainCrew
  BY Present
<1>2. Grows(s, u)
  <2>1. 1 + others \in Nat /\ "skill_loader" \in Tools
    BY DEF IInv, Domains, Tools
  <2>. QED
    BY <1>1, <2>1, Present, ToolHooksGrow
<1>3. /\ obs' = u.obs /\ buffer' = u.buffer /\ failed' = failed /\ lost' = lost
      /\ frame' = [main |-> f, skill |-> g] /\ phase = "main"
  BY DEF SkillStart, Buffered, flushVars
<1> HIDE DEF u
<1>4. /\ client' = client /\ named' = named /\ others' = others /\ turns' = turns
      /\ crews' = crews /\ phase' = "skill"
      /\ used' = [used EXCEPT !.tools = @ + 1]
      /\ adapter' = [adapter EXCEPT !.deny = @ \/ ~allowed]
  BY DEF SkillStart, settings
<1>5. u.c \in Contexts /\ buffer' \in Nat /\ Sound(u)
  BY <1>2, <1>3, Returned DEF Grows
<1>6. f \in Frames /\ f.c = u.c /\ f.crew = MainCrew
  <2>1. frame["main"] \in Frames /\ "skill_loader" \in Tools /\ frame["main"].crew = MainCrew
    BY Present DEF Tools, IInv, MainInv
  <2>. QED
    BY <1>5, <2>1, ActedC
<1>7. g \in Frames /\ g.c = u.c /\ g.crew = used.tools + 1
  BY <1>5, Present, NewFrameC
<1> HIDE DEF s, f, g
<1>8. /\ frame' \in [Crews -> Frames] /\ frame'["main"] = f /\ frame'["skill"] = g
  BY <1>3, <1>6, <1>7 DEF Crews
<1>9. adapter' \in [turn : Nat, llm : BOOLEAN, deny : BOOLEAN] /\ used' \in [llm : Nat, tools : Nat]
  <2> DEFINE d == adapter.deny \/ ~allowed
  <2>1. d \in BOOLEAN /\ adapter' = [adapter EXCEPT !.deny = d]
    BY <1>4
  <2> HIDE DEF d
  <2>. QED
    BY <1>4, <2>1, AdapterOf, UsedOf
<1>10. turns' \in Nat /\ UsedGrows /\ used'.tools = used.tools + 1 /\ used.tools \in Nat
  BY <1>4, Present DEF UsedGrows, IInv, Domains
<1>11. Extends(s, u) /\ u.crew = MainCrew /\ s \in States /\ u \in States
  BY <1>1, <1>2, <1>5 DEF Grows, GrowsBut, Extends, Sound
<1>12. MainInv' /\ EndedInv' /\ OpenParents
  <2>1. MainGoes(u)
    BY <1>3, <1>4, <1>5, <1>6, <1>8, <1>10, <1>11 DEF MainGoes
  <2>2. GrowsBut(State("main"), u, {})
    BY <1>2 DEF Grows, s
  <2>. QED
    BY <1>10, <2>1, <2>2, MainWorks DEF IInv
<1>13. Sound(State("skill"))'
  <2> DEFINE v == [crew |-> used.tools + 1, obs |-> u.obs, buffer |-> buffer', c |-> u.c]
  <2>1. v \in States
    BY <1>5, <1>10, <1>11, StateFacts DEF States
  <2>2. v.crew = used.tools + 1 /\ v.obs = u.obs /\ v.c = u.c
    OBVIOUS
  <2> HIDE DEF v
  <2>3. \A i \in 1..Len(u.obs) : used.tools + 1 \notin u.obs[i].ended
    <3> SUFFICES ASSUME NEW i \in 1..Len(u.obs) PROVE used.tools + 1 \notin u.obs[i].ended
      OBVIOUS
    <3>1. Len(obs) \in Nat /\ Len(u.obs) \in Nat
      BY <1>1, <1>11, StateFacts
    <3>2. CASE i \in 1..Len(obs)
      <4>1. /\ u.obs[i].ended \subseteq obs[i].ended \cup {s.crew}
            /\ obs[i].ended \subseteq 0..used.tools
        BY <1>1, <1>11, <3>2 DEF Extends, IInv, EndedInv
      <4>. QED
        BY <1>1, <1>10, <4>1 DEF MainCrew
    <3>3. CASE i \notin 1..Len(obs)
      <4>1. i \in (Len(s.obs) + 1)..Len(u.obs)
        BY <1>1, <3>1, <3>3
      <4>2. u.obs[i].ended \subseteq {s.crew}
        BY <1>11, <4>1 DEF Extends, Proper
      <4>. QED
        BY <1>1, <1>10, <4>2 DEF MainCrew
    <3>. QED
      BY <3>2, <3>3
  <2>4. Held(u.c) \subseteq 1..Len(u.obs)
    BY <1>5, HeldFacts
  <2>5. Placed(v) /\ Traced(v) /\ turns \in Nat
    BY <1>5, <2>2 DEF Sound, Placed, Kind, Traced
  <2>6. Unended(v)
    BY <2>2, <2>3, <2>4 DEF Unended
  <2>7. Sound(v)
    BY <2>1, <2>5, <2>6 DEF Sound
  <2>. QED
    BY <1>3, <1>4, <1>5, <1>7, <1>8, <2>2, <2>7, SkillStays
<1>14. Domains'
  BY <1>4, <1>5, <1>8, <1>9, <1>12 DEF Domains, IInv
<1>15. SkillInv'
  BY <1>7, <1>8, <1>10, <1>13 DEF SkillInv
<1>16. PhaseInv' /\ LostInv'
  BY <1>3, <1>4 DEF PhaseInv, LostInv, IInv
<1>. QED
  BY <1>12, <1>14, <1>15, <1>16 DEF Keeps, IInv

LEMMA NobodyKeeps ==
  ASSUME IInv, obs' = obs, buffer' = buffer, client' = client, turns' = turns, used' = used,
         failed' = failed, lost' = lost, NEW w \in Crews, NEW f \in Frames,
         frame' = [frame EXCEPT ![w] = f],
         w = "main" => f.c = frame["main"].c /\ f.crew = MainCrew
  PROVE  /\ MainInv' /\ EndedInv' /\ OpenParents /\ LostInv'
         /\ frame' \in [Crews -> Frames] /\ frame'["main"].c = frame["main"].c
<1>1. UsedGrows
  BY Present DEF UsedGrows
<1>2. /\ frame' \in [Crews -> Frames] /\ frame'["main"].c = frame["main"].c
      /\ frame'["main"].crew = frame["main"].crew
  BY FrameOf DEF IInv, Domains, Crews, MainInv
<1>. QED
  BY <1>1, <1>2, NobodyWorks DEF IInv, LostInv

LEMMA SkillEndKeeps == IInv /\ SkillEnd => Keeps
<1> SUFFICES ASSUME IInv, SkillEnd PROVE Keeps
  OBVIOUS
<1> DEFINE f == NewFrame(MainCrew, EmptyContext)
<1>1. f \in Frames
  BY EmptyFacts, NewFrameC DEF MainCrew
<1>2. frame' = [frame EXCEPT !["skill"] = f]
  BY DEF SkillEnd
<1> HIDE DEF f
<1>3. /\ client' = client /\ named' = named /\ others' = others /\ turns' = turns /\ obs' = obs
      /\ crews' = crews /\ used' = used /\ phase = "skill" /\ phase' = "main" /\ adapter' = adapter
      /\ buffer' = buffer /\ failed' = failed /\ lost' = lost
  BY DEF SkillEnd, settings, flushVars
<1>4. /\ MainInv' /\ EndedInv' /\ OpenParents /\ LostInv' /\ frame' \in [Crews -> Frames]
  BY <1>1, <1>2, <1>3, NobodyKeeps DEF Crews
<1>5. Domains'
  BY <1>3, <1>4 DEF Domains, IInv
<1>. QED
  BY <1>3, <1>4, <1>5 DEF Keeps, IInv, SkillInv, PhaseInv

LEMMA FailKeeps == IInv /\ Fail => Keeps
<1> SUFFICES ASSUME IInv, Fail PROVE Keeps
  OBVIOUS
<1>1. /\ client' = client /\ named' = named /\ others' = others /\ turns' = turns /\ obs' = obs
      /\ crews' = crews /\ used' = used /\ phase' = "cleanup" /\ adapter' = adapter
      /\ buffer' = buffer /\ failed' = failed /\ lost' = lost /\ frame' = frame
  BY DEF Fail, settings, flushVars
<1>2. UsedGrows
  BY <1>1, Present DEF UsedGrows
<1>3. MainInv' /\ EndedInv' /\ OpenParents
  BY <1>1, <1>2, NobodyWorks DEF IInv
<1>4. Domains' /\ LostInv'
  BY <1>1 DEF Domains, LostInv, IInv
<1>. QED
  BY <1>1, <1>3, <1>4 DEF Keeps, IInv, SkillInv, PhaseInv

LEMMA StepRaisesKeeps ==
  ASSUME NEW w \in Crews, NEW refused \in BOOLEAN
  PROVE  IInv /\ StepRaises(w, refused) => Keeps
<1> SUFFICES ASSUME IInv, StepRaises(w, refused) PROVE Keeps
  OBVIOUS
<1> DEFINE f == NewFrame(MainCrew, EmptyContext)
           g == IF w = "main" THEN frame["main"] ELSE f
<1>1. f \in Frames
  BY EmptyFacts, NewFrameC DEF MainCrew
<1>2. frame' = [frame EXCEPT ![w] = g]
  BY DEF StepRaises, IInv, Domains, Crews
<1> HIDE DEF f
<1>3. g \in Frames /\ (w = "main" => g.c = frame["main"].c /\ g.crew = MainCrew)
  BY <1>1, Present DEF IInv, MainInv
<1> HIDE DEF g
<1>4. /\ client' = client /\ named' = named /\ others' = others /\ turns' = turns /\ obs' = obs
      /\ crews' = crews /\ used' = used /\ phase = w
      /\ phase' = (IF w = "main" THEN "denied" ELSE "main")
      /\ adapter' = [adapter EXCEPT !.llm = FALSE, !.deny = FALSE]
      /\ buffer' = buffer /\ failed' = failed /\ lost' = lost
  BY DEF StepRaises, settings, flushVars
<1>5. /\ MainInv' /\ EndedInv' /\ OpenParents /\ LostInv' /\ frame' \in [Crews -> Frames]
  BY <1>2, <1>3, <1>4, NobodyKeeps
<1>6. adapter' \in [turn : Nat, llm : BOOLEAN, deny : BOOLEAN]
  BY <1>4, AdapterOf, Present
<1>7. Domains'
  BY <1>4, <1>5, <1>6 DEF Domains, IInv
<1>8. phase' \in {"denied", "main"} /\ (phase' = "main" => phase = "skill")
  BY <1>4 DEF Crews
<1>. QED
  BY <1>4, <1>5, <1>7, <1>8 DEF Keeps, IInv, SkillInv, PhaseInv

LEMMA StepDoneKeeps ==
  ASSUME NEW w \in Crews, NEW refused \in BOOLEAN
  PROVE  IInv /\ StepDone(w, refused) => Keeps
<1> SUFFICES ASSUME IInv, StepDone(w, refused) PROVE Keeps
  OBVIOUS
<1> DEFINE r == IF frame[w].step = "act" THEN frame[w].results ELSE NoResults
           f == [frame[w] EXCEPT !.step = "think", !.results = r]
<1>1. frame[w] \in Frames /\ r \in [Tools -> Nat]
  BY Present DEF Crews, Frames, NoResults
<1>2. frame' = [frame EXCEPT ![w] = f]
  BY DEF StepDone
<1> HIDE DEF r
<1>3. f \in Frames /\ f.c = frame[w].c /\ f.crew = frame[w].crew
  BY <1>1 DEF Frames
<1> HIDE DEF f
<1>4. /\ client' = client /\ named' = named /\ others' = others /\ turns' = turns /\ obs' = obs
      /\ crews' = crews /\ used' = used /\ phase = w /\ phase' = phase
      /\ adapter' = [adapter EXCEPT !.llm = FALSE]
      /\ buffer' = buffer /\ failed' = failed /\ lost' = lost
  BY DEF StepDone, settings, flushVars
<1>5. adapter' \in [turn : Nat, llm : BOOLEAN, deny : BOOLEAN]
  BY <1>4, AdapterOf, Present
<1>6. /\ MainInv' /\ EndedInv' /\ OpenParents /\ LostInv' /\ frame' \in [Crews -> Frames]
  <2>1. w = "main" => f.c = frame["main"].c /\ f.crew = MainCrew
    BY <1>3 DEF IInv, MainInv
  <2>. QED
    BY <1>2, <1>3, <1>4, <2>1, NobodyKeeps
<1>7. Domains'
  BY <1>4, <1>5, <1>6 DEF Domains, IInv
<1>8. SkillInv'
  <2> SUFFICES ASSUME w = "skill" PROVE SkillInv'
    BY <1>4 DEF SkillInv
  <2>1. frame'["skill"] = f
    BY <1>2, FrameOf, <1>3 DEF IInv, Domains
  <2>2. Sound(State("skill")) /\ frame["skill"].crew \in 1..used.tools
    BY <1>4 DEF IInv, SkillInv
  <2>3. /\ State("skill").obs = obs' /\ State("skill").c = frame'["skill"].c
        /\ State("skill").crew = frame'["skill"].crew
    BY <1>3, <1>4, <2>1, StateParts
  <2>4. buffer' \in Nat
    BY <1>4 DEF IInv, Domains
  <2>5. Sound(State("skill"))'
    BY <1>4, <2>2, <2>3, <2>4, SkillStays
  <2>. QED
    BY <1>3, <1>4, <2>1, <2>2, <2>5 DEF SkillInv
<1>9. PhaseInv'
  BY <1>4 DEF PhaseInv, IInv, Crews
<1>. QED
  BY <1>6, <1>7, <1>8, <1>9 DEF Keeps, IInv

LEMMA StepKeeps == IInv /\ Next => Keeps
<1> SUFFICES ASSUME IInv, Next PROVE Keeps
  OBVIOUS
<1>1. CASE BeginTurn \/ SkillEnd \/ TaskDone \/ AgentDone \/ TurnDone \/ Fail \/ Cleanup
  BY <1>1, BeginTurnKeeps, SkillEndKeeps, TaskDoneKeeps, AgentDoneKeeps, TurnDoneKeeps,
     FailKeeps, CleanupKeeps
<1>2. CASE \E b \in BOOLEAN : PreFlight(b) \/ SkillStart(b)
  BY <1>2, PreFlightKeeps, SkillStartKeeps
<1>3. CASE \E w \in Crews : LlmCall(w)
  BY <1>3, LlmCallKeeps
<1>4. CASE \E w \in Crews, b \in BOOLEAN : ToolCall(w, b) \/ StepDone(w, b) \/ StepRaises(w, b)
  BY <1>4, ToolCallKeeps, StepDoneKeeps, StepRaisesKeeps
<1>. QED
  BY <1>1, <1>2, <1>3, <1>4 DEF Next

LEMMA StutterKeeps == IInv /\ UNCHANGED vars => Keeps
<1> SUFFICES ASSUME IInv, UNCHANGED vars PROVE Keeps
  OBVIOUS
<1>1. IInv'
  BY DEF vars, IInv, Domains, MainInv, SkillInv, EndedInv, PhaseInv, LostInv, Sound, Placed,
         Traced, Unended, Kind, State, Orphans, Replaced, TraceId
<1>2. OpenParents
  BY DEF vars, OpenParents
<1>. QED
  BY <1>1, <1>2 DEF Keeps

\* The invariant the other theorems rest on: domains, sound contexts, and no lost spans.
THEOREM Invariant == Spec => []IInv
<1>1. IInv /\ [Next]_vars => IInv'
  BY StepKeeps, StutterKeeps DEF Keeps
<1>. QED
  BY InitHolds, <1>1, PTL DEF Spec

\* No handler hangs an observation under one its crew has ended, or one of another trace.
THEOREM NothingUnderAnEndedParent == Spec => ParentsAreOpen
<1>1. IInv /\ [Next]_vars => [OpenParents]_vars
  BY StepKeeps DEF Keeps
<1>. QED
  BY Invariant, <1>1, PTL DEF Spec, ParentsAreOpen

LEMMA ClosedWhenIdle == IInv => SpansAreClosed
<1> SUFFICES ASSUME IInv, phase = "idle", NEW i \in DOMAIN obs, obs[i].crew = MainCrew,
                    obs[i].ended = {}
             PROVE  Replaced(i)
  BY DEF SpansAreClosed
<1>1. /\ State("main").obs = obs /\ Held(State("main").c) = {} /\ DOMAIN obs = 1..Len(obs)
  BY Present, EmptyFacts, StateFacts DEF IInv, PhaseInv, Sound
<1>2. i \in Orphans(State("main"))
  BY <1>1 DEF Orphans
<1>. QED
  BY <1>2 DEF IInv, MainInv

\* However a turn ends, FlushAndClose leaves nothing of the main crew's open, but for LLM
\* calls that later ones have replaced.
THEOREM NothingStaysOpen == Spec => []SpansAreClosed
BY Invariant, ClosedWhenIdle, PTL

\* Every observation is in the trace of the message its turn answers.
THEOREM EachMessageHasItsTrace == Spec => []OwnTrace
<1>1. IInv => OwnTrace
  BY Present, StateFacts DEF OwnTrace, Sound, Traced
<1>. QED
  BY Invariant, <1>1, PTL

\* _flush_batch leaves nothing in the buffer between turns, and loses at most a chunk for
\* every request that fails.
THEOREM FailedRequestsCostTheirChunk == Spec => []EventsLeaveTheBuffer
<1>1. IInv => EventsLeaveTheBuffer
  BY DEF EventsLeaveTheBuffer, IInv, PhaseInv, LostInv
<1>. QED
  BY Invariant, <1>1, PTL
=============================================================================
