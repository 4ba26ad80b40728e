----------------------------- MODULE GuardsProofs -----------------------------
(***************************************************************************)
(* Proofs about Guards, for every set of sessions and texts, every         *)
(* threshold and any number of events.                                     *)
(*                                                                         *)
(* What a chain of handlers leaves behind depends on their order.  LoadInv *)
(* says what the chains are while hooks.yaml is read, so that they are     *)
(* known when the first turn begins (ReadyInv); the lemmas on Run then say *)
(* what an event of each type does to the strategies' state, and the       *)
(* invariant compares that state with what happened.                       *)
(***************************************************************************)
EXTENDS Guards, TLAPS, SequenceTheorems, FiniteSetTheorems,
        WellFoundedInduction

Phases == {"idle", "agent", "skill", "answered", "refused"}
Turns == [Sessions -> [phase : Phases, pending : BOOLEAN]]

Outputs == Texts \cup {"[DENIED]"}
ToolMemory == Seq(Tools \X Outputs)
TurnMemory == Seq(Texts)
Counters == [Tools -> Nat]
GuardStates ==
  [begun : Nat, ended : Nat, audit : Nat, tool : ToolMemory, turn : TurnMemory,
   failures : Counters, retries : Nat, recovered : Nat, unrecorded : Nat]

TypeOK ==
  /\ guards \in GuardStates
  /\ turn \in Turns
  /\ calls \in Nat /\ refused \in Nat /\ again \in [all : Nat, refused : Nat]
  /\ outputs \in Seq(Texts)

AuditFirst == settings.order = Listed

\* How many of the strategies with handlers are loaded.
Stage == IF AuditFirst THEN IF Len(entries) = 6 THEN 0 ELSE 5 - Len(entries)
         ELSE IF entries = <<>> THEN 5 ELSE 6 - Len(entries)

Handlers == {"observer"} \cup ToSet(Listed)

BeforeCall(n) ==
  IF "sandbox_guard" \in settings.accepted
  THEN IF n = 0 THEN <<"observer">>
       ELSE IF n = 1 THEN <<"observer", "sandbox_guard">>
       ELSE IF n = 2 THEN <<"observer", "sandbox_guard", "permission_gate">>
       ELSE <<"observer", "sandbox_guard", "permission_gate", "cost_guard">>
  ELSE IF n < 2 THEN <<"observer">>
       ELSE IF n = 2 THEN <<"observer", "permission_gate">>
       ELSE <<"observer", "permission_gate", "cost_guard">>
AfterCall(n) ==
  IF n < 4 THEN <<"observer">>
  ELSE IF n = 4 THEN <<"observer", "loop_detector">>
  ELSE <<"observer", "loop_detector", "retry_tracker">>
AfterTurn(n) ==
  IF n < 3 THEN <<"observer">>
  ELSE IF n = 3 THEN <<"observer", "cost_guard">>
  ELSE <<"observer", "cost_guard", "loop_detector">>

ChainsAt(n) ==
  /\ chain \in [EventTypes -> Seq(Handlers)]
  /\ chain["BEFORE_TOOL_CALL"] = BeforeCall(n)
  /\ chain["AFTER_TOOL_CALL"] = AfterCall(n)
  /\ chain["AFTER_TURN"] = AfterTurn(n)

\* The strategies are loaded in the order of the file, after the observers, and those that
\* audit have the logger if it comes first.
LoadInv ==
  /\ settings.order \in {Listed, Append(Tail(Listed), Head(Listed))}
  /\ settings.accepted \in {ToSet(Listed), ToSet(Listed) \ {"sandbox_guard"}}
  /\ settings.broke \in BOOLEAN
  /\ entries \in Seq(Handlers) /\ Len(entries) \in 0..6
  /\ \A i \in 1..Len(entries) : entries[i] = settings.order[6 - Len(entries) + i]
  /\ \/ entries = settings.order /\ chain = [e \in EventTypes |-> <<>>]
     \/ ChainsAt(Stage)
  /\ AuditFirst /\ Stage > 0 /\ "sandbox_guard" \in settings.accepted
       => "sandbox_guard" \in audited
  /\ AuditFirst /\ Stage > 1 => "permission_gate" \in audited

\* No turn begins before everything is loaded.
ReadyInv == \A s \in Sessions : turn[s].phase # "idle" => entries = <<>>

\* The loop detector remembers the end of what it was shown.
MemoryInv == guards.turn = Kept(outputs)

\* The calls on record, and those the retry tracker has counted: retries, recoveries and
\* failures not yet recovered from.
Recorded(g) == g.audit + g.unrecorded
Failing(g) == {t \in Tools : g.failures[t] > 0}
Counted(g) == g.retries + g.recovered + Cardinality(Failing(g))

\* The observers, the audit log and the retry tracker keep the same accounts.
Accounts ==
  /\ guards.begun = calls + again.all /\ guards.ended = refused + again.refused
  /\ AuditFirst => Recorded(guards) = calls + again.all
  /\ refused + again.refused = Counted(guards)

GuardsInv == LoadInv /\ ReadyInv /\ MemoryInv /\ Accounts

-----------------------------------------------------------------------------
(***************************************************************************)
(* Chains of handlers                                                      *)
(***************************************************************************)

\* The recursion of Run, unrolled for the lengths that occur.
LEMMA RunOfThree ==
  ASSUME NEW g, NEW event, NEW ctx, NEW stops, Len(chain[event]) = 3
  PROVE  Run(g, event, ctx, stops) =
           Then(Then(Then(Passes(g), chain[event][1], event, ctx, stops),
                     chain[event][2], event, ctx, stops),
                chain[event][3], event, ctx, stops)
<1> DEFINE step(r, n) == Then(r, chain[event][n], event, ctx, stops)
           Rec(h) == h = [n \in 0..Len(chain[event]) |->
                            IF n = 0 THEN Passes(g) ELSE step(h[n - 1], n)]
           r1 == step(Passes(g), 1)
           r2 == step(r1, 2)
           r3 == step(r2, 3)
           f == [n \in 0..3 |-> IF n = 0 THEN Passes(g) ELSE IF n = 1 THEN r1
                                ELSE IF n = 2 THEN r2 ELSE r3]
           run == CHOOSE h : Rec(h)
<1>1. Run(g, event, ctx, stops) = run[Len(chain[event])]
  BY DEF Run
<1> HIDE DEF step
<1>2. Rec(f)
  <2>1. \A n \in 0..3 : f[n] = IF n = 0 THEN Passes(g) ELSE step(f[n - 1], n)
    OBVIOUS
  <2>. QED
    BY <2>1
<1>3. Rec(run)
  BY <1>2
<1>4. run[3] = r3
  <2> HIDE DEF run
  <2>1. run[0] = Passes(g)
    BY <1>3
  <2>2. run[1] = r1
    BY <1>3, <2>1
  <2>3. run[2] = r2
    BY <1>3, <2>2
  <2>. QED
    BY <1>3, <2>3
<1>. QED
  BY <1>1, <1>4 DEF step

LEMMA RunOfFour ==
  ASSUME NEW g, NEW event, NEW ctx, NEW stops, Len(chain[event]) = 4
  PROVE  Run(g, event, ctx, stops) =
           Then(Then(Then(Then(Passes(g), chain[event][1], event, ctx, stops),
                          chain[event][2], event, ctx, stops),
                     chain[event][3], event, ctx, stops),
                chain[event][4], event, ctx, stops)
<1> DEFINE step(r, n) == Then(r, chain[event][n], event, ctx, stops)
           Rec(h) == h = [n \in 0..Len(chain[event]) |->
                            IF n = 0 THEN Passes(g) ELSE step(h[n - 1], n)]
           r1 == step(Passes(g), 1)
           r2 == step(r1, 2)
           r3 == step(r2, 3)
           r4 == step(r3, 4)
           f == [n \in 0..4 |-> IF n = 0 THEN Passes(g) ELSE IF n = 1 THEN r1
                                ELSE IF n = 2 THEN r2 ELSE IF n = 3 THEN r3 ELSE r4]
           run == CHOOSE h : Rec(h)
<1>1. Run(g, event, ctx, stops) = run[Len(chain[event])]
  BY DEF Run
<1> HIDE DEF step
<1>2. Rec(f)
  <2>1. \A n \in 0..4 : f[n] = IF n = 0 THEN Passes(g) ELSE step(f[n - 1], n)
    OBVIOUS
  <2>. QED
    BY <2>1
<1>3. Rec(run)
  BY <1>2
<1>4. run[4] = r4
  <2> HIDE DEF run
  <2>1. run[0] = Passes(g)
    BY <1>3
  <2>2. run[1] = r1
    BY <1>3, <2>1
  <2>3. run[2] = r2
    BY <1>3, <2>2
  <2>4. run[3] = r3
    BY <1>3, <2>3
  <2>. QED
    BY <1>3, <2>4
<1>. QED
  BY <1>1, <1>4 DEF step

-----------------------------------------------------------------------------
(***************************************************************************)
(* Numbers: a set of naturals has a least one, induction for a set, and a  *)
(* function applied n times.                                               *)
(***************************************************************************)

LEMMA LeastNat ==
  ASSUME NEW T, T \subseteq Nat, T # {}
  PROVE  \E x \in T : \A y \in T : x <= y
<1> DEFINE R == OpToRel(<, Nat)
<1>1. IsWellFoundedOn(R, Nat)
  BY NatLessThanWellFounded
<1>2. \A x, y \in Nat : y < x => <<y, x>> \in R
  BY DEF OpToRel
<1> HIDE DEF R
<1>3. T \subseteq Nat
  OBVIOUS
<1>4. PICK x \in T : \A y \in T : <<y, x>> \notin R
  BY <1>1, WFMin
<1>5. ASSUME NEW y \in T PROVE x <= y
  <2>1. x \in Nat /\ y \in Nat /\ ~(y < x)
    BY <1>2, <1>3, <1>4, Zenon
  <2>. QED
    BY <2>1
<1>. QED
  BY <1>5

\* Induction, for a set.
LEMMA NatUpTo ==
  ASSUME NEW n \in Nat, NEW T, 0 \in T, \A k \in 1..n : k - 1 \in T => k \in T
  PROVE  0..n \subseteq T
<1> SUFFICES ASSUME NEW m \in 0..n, m \notin T PROVE FALSE
  OBVIOUS
<1> DEFINE Bad == {k \in 0..n : k \notin T}
<1>1. Bad \subseteq Nat /\ Bad # {}
  OBVIOUS
<1>2. PICK k \in Bad : \A j \in Bad : k <= j
  BY <1>1, LeastNat
<1>3. k \in 1..n /\ k - 1 \in 0..n /\ ~(k <= k - 1)
  BY <1>2
<1>4. k - 1 \in T
  BY <1>2, <1>3
<1>. QED
  BY <1>2, <1>3, <1>4

\* Applying a function n times.
Iteration(S, F, x, n, h) ==
  h \in [0..n -> S] /\ h[0] = x /\ \A k \in 1..n : h[k] = F[h[k - 1]]

LEMMA Iterates ==
  ASSUME NEW S, NEW F \in [S -> S], NEW x \in S, NEW n \in Nat
  PROVE  \E h : Iteration(S, F, x, n, h)
<1> DEFINE Upto(m, h) == Iteration(S, F, x, m, h)
           T == {m \in 0..n : \E h : Upto(m, h)}
<1>1. \E h : Upto(0, h)
  <2> DEFINE g == [k \in 0..0 |-> x]
  <2>1. Upto(0, g)
    BY DEF Iteration
  <2>. QED
    BY <2>1
<1>2. ASSUME NEW m \in 1..n, NEW h, Upto(m - 1, h) PROVE \E g : Upto(m, g)
  <2> DEFINE g == [k \in 0..m |-> IF k = m THEN F[h[m - 1]] ELSE h[k]]
  <2>1. g \in [0..m -> S]
    BY <1>2 DEF Iteration
  <2>2. \A k \in 1..m : g[k] = F[g[k - 1]]
    BY <1>2 DEF Iteration
  <2>3. g[0] = x
    BY <1>2 DEF Iteration
  <2>4. Upto(m, g)
    BY <2>1, <2>2, <2>3 DEF Iteration
  <2>. HIDE DEF g
  <2>. QED
    BY <2>4
<1> HIDE DEF Upto
<1>3. 0 \in T /\ \A k \in 1..n : k - 1 \in T => k \in T
  BY <1>1, <1>2
<1> HIDE DEF T
<1>4. n \in T
  BY <1>3, NatUpTo
<1>. QED
  BY <1>4 DEF T, Upto

-----------------------------------------------------------------------------
(***************************************************************************)
(* The events of a tool call                                               *)
(***************************************************************************)

Contexts == [tool : Tools \cup {""}, input : Inputs, output : Outputs, success : BOOLEAN]
Results == [guards : GuardStates, deny : BOOLEAN]

\* What the strategies in front of a tool call may change is the account of the audit log.
OnlyAudits(g, h) ==
  /\ h.begun = g.begun /\ h.ended = g.ended /\ h.tool = g.tool /\ h.turn = g.turn
  /\ h.failures = g.failures /\ h.retries = g.retries /\ h.recovered = g.recovered

LEMMA RecordIs ==
  ASSUME NEW g \in GuardStates, NEW name
  PROVE  /\ Record(g, name) \in GuardStates /\ OnlyAudits(g, Record(g, name))
         /\ name \in audited => Recorded(Record(g, name)) = Recorded(g) + 1
<1>1. CASE name \notin audited
  BY <1>1 DEF Record, OnlyAudits
<1>2. CASE name \in audited
  <2>1. Record(g, name) = [g EXCEPT !.audit = @ + 1]
    BY <1>2 DEF Record
  <2>2. [g EXCEPT !.audit = @ + 1] \in GuardStates
    BY DEF GuardStates
  <2>. QED
    BY <2>1, <2>2 DEF OnlyAudits, Recorded, GuardStates
<1>. QED
  BY <1>1, <1>2

LEMMA SandboxIs ==
  ASSUME NEW g \in GuardStates, NEW ctx \in Contexts
  PROVE  LET r == Sandbox(g, ctx)
         IN /\ r \in Results /\ OnlyAudits(g, r.guards)
            /\ "sandbox_guard" \in audited =>
                 Recorded(r.guards) = Recorded(g) + (IF r.deny THEN 1 ELSE 0)
<1> DEFINE unsaid == [g EXCEPT !.unrecorded = @ + 1]
<1>1. unsaid \in GuardStates
  BY DEF GuardStates
<1>2. OnlyAudits(g, unsaid) /\ Recorded(unsaid) = Recorded(g) + 1
  BY DEF OnlyAudits, Recorded, GuardStates
<1>3. OnlyAudits(g, g) /\ Recorded(g) \in Nat
  BY DEF OnlyAudits, Recorded, GuardStates
<1>4. Sandbox(g, ctx) \in {Passes(g), Denies(unsaid), Denies(Record(g, "sandbox_guard"))}
  BY DEF Sandbox
<1> HIDE DEF unsaid
<1>5. \A h : /\ Passes(h).guards = h /\ ~Passes(h).deny
             /\ Denies(h).guards = h /\ Denies(h).deny
             /\ h \in GuardStates => Passes(h) \in Results /\ Denies(h) \in Results
  BY DEF Passes, Denies, Results
<1>. QED
  BY <1>1, <1>2, <1>3, <1>4, <1>5, RecordIs

LEMMA PermissionIs ==
  ASSUME NEW g \in GuardStates, NEW ctx \in Contexts
  PROVE  LET r == Permission(g, ctx)
         IN /\ r \in Results /\ OnlyAudits(g, r.guards)
            /\ "permission_gate" \in audited => Recorded(r.guards) = Recorded(g) + 1
BY RecordIs DEF Permission, Passes, Denies, Results

\* The observer sees every call, and with the logger first every call is recorded once: by
\* the sandbox guard if it refuses, else by the permission gate.
LEMMA GateBeforeCall ==
  ASSUME LoadInv, entries = <<>>, NEW g \in GuardStates, NEW ctx \in Contexts
  PROVE  LET r == Gate(g, "BEFORE_TOOL_CALL", ctx)
         IN /\ r \in Results /\ OnlyAudits([g EXCEPT !.begun = @ + 1], r.guards)
            /\ AuditFirst => Recorded(r.guards) = Recorded(g) + 1
<1> DEFINE before == "BEFORE_TOOL_CALL"
           r1 == Passes([g EXCEPT !.begun = @ + 1])
<1>1. /\ Then(Passes(g), "observer", before, ctx, TRUE) = r1
      /\ r1 \in Results /\ r1.deny = FALSE /\ r1.guards \in GuardStates
      /\ r1.guards = [g EXCEPT !.begun = @ + 1]
      /\ Recorded(r1.guards) = Recorded(g) /\ Recorded(g) \in Nat
  BY DEF Then, Passes, Handle, Observe, Results, GuardStates, Recorded
<1>2. \A r : /\ Then(r, "sandbox_guard", before, ctx, TRUE)
                  = IF r.deny THEN r ELSE Sandbox(r.guards, ctx)
             /\ Then(r, "permission_gate", before, ctx, TRUE)
                  = IF r.deny THEN r ELSE Permission(r.guards, ctx)
             /\ Then(r, "cost_guard", before, ctx, TRUE)
                  = IF r.deny THEN r ELSE Cost(r.guards)
  BY DEF Then, Handle
<1>3. /\ Stage = 5 /\ ChainsAt(Stage) /\ (AuditFirst => "permission_gate" \in audited)
      /\ AuditFirst /\ "sandbox_guard" \in settings.accepted => "sandbox_guard" \in audited
  BY DEF LoadInv, Stage, Listed
<1>4. \A r \in Results : ~r.deny => /\ Cost(r.guards) \in Results
                                    /\ Cost(r.guards).guards = r.guards
  BY DEF LoadInv, Cost, Passes, Denies, Results
<1> HIDE DEF r1
<1> DEFINE r2 == Then(r1, "sandbox_guard", before, ctx, TRUE)
<1>5. /\ r2 \in Results /\ OnlyAudits(r1.guards, r2.guards)
      /\ "sandbox_guard" \in audited =>
           Recorded(r2.guards) = Recorded(r1.guards) + (IF r2.deny THEN 1 ELSE 0)
  <2>1. r2 = Sandbox(r1.guards, ctx)
    BY <1>1, <1>2
  <2>. QED
    BY <1>1, <2>1, SandboxIs
<1> HIDE DEF r2
<1>6. ASSUME NEW r \in Results, OnlyAudits(r1.guards, r.guards),
             AuditFirst => Recorded(r.guards) = Recorded(r1.guards) + (IF r.deny THEN 1 ELSE 0)
      PROVE  LET p == Then(r, "permission_gate", before, ctx, TRUE)
                 c == Then(p, "cost_guard", before, ctx, TRUE)
             IN /\ c \in Results /\ OnlyAudits(r1.guards, c.guards)
                /\ AuditFirst => Recorded(c.guards) = Recorded(r1.guards) + 1
  <2> DEFINE p == Then(r, "permission_gate", before, ctx, TRUE)
             c == Then(p, "cost_guard", before, ctx, TRUE)
  <2>1. /\ p \in Results /\ OnlyAudits(r1.guards, p.guards)
        /\ AuditFirst => Recorded(p.guards) = Recorded(r1.guards) + 1
    <3>1. CASE r.deny
      BY <1>2, <1>6, <3>1
    <3>2. CASE ~r.deny
      <4>1. p = Permission(r.guards, ctx) /\ r.guards \in GuardStates
        BY <1>2, <1>6, <3>2 DEF Results
      <4>2. /\ p \in Results /\ OnlyAudits(r.guards, p.guards)
            /\ AuditFirst => Recorded(p.guards) = Recorded(r.guards) + 1
        BY <1>3, <4>1, PermissionIs
      <4>. HIDE DEF p
      <4>3. AuditFirst => Recorded(r.guards) = Recorded(r1.guards)
        BY <1>1, <1>6, <3>2
      <4>. QED
        BY <1>1, <1>6, <4>2, <4>3 DEF OnlyAudits
    <3>. QED
      BY <1>6, <3>1, <3>2 DEF Results
  <2> HIDE DEF p
  <2>2. c \in Results /\ c.guards = p.guards
    BY <1>2, <1>4, <2>1
  <2>. QED
    BY <2>1, <2>2 DEF p
<1>7. CASE "sandbox_guard" \in settings.accepted
  <2>1. chain[before] = <<"observer", "sandbox_guard", "permission_gate", "cost_guard">>
    BY <1>3, <1>7 DEF ChainsAt, BeforeCall
  <2>2. Gate(g, before, ctx)
          = Then(Then(r2, "permission_gate", before, ctx, TRUE), "cost_guard", before, ctx, TRUE)
    <3>1. /\ Len(chain[before]) = 4
          /\ chain[before][1] = "observer" /\ chain[before][2] = "sandbox_guard"
          /\ chain[before][3] = "permission_gate" /\ chain[before][4] = "cost_guard"
      BY <2>1
    <3>2. Run(g, before, ctx, TRUE)
            = Then(Then(Then(Then(Passes(g), chain[before][1], before, ctx, TRUE),
                             chain[before][2], before, ctx, TRUE),
                        chain[before][3], before, ctx, TRUE),
                   chain[before][4], before, ctx, TRUE)
      BY <3>1, RunOfFour, Zenon
    <3>. QED
      BY <1>1, <3>1, <3>2 DEF Gate, r2
  <2>3. AuditFirst => Recorded(r2.guards) = Recorded(r1.guards) + (IF r2.deny THEN 1 ELSE 0)
    BY <1>3, <1>5, <1>7
  <2>. QED
    BY <1>1, <1>5, <1>6, <2>2, <2>3
<1>8. CASE "sandbox_guard" \notin settings.accepted
  <2>1. chain[before] = <<"observer", "permission_gate", "cost_guard">>
    BY <1>3, <1>8 DEF ChainsAt, BeforeCall
  <2>2. Gate(g, before, ctx)
          = Then(Then(r1, "permission_gate", before, ctx, TRUE), "cost_guard", before, ctx, TRUE)
    <3>1. /\ Len(chain[before]) = 3 /\ chain[before][1] = "observer"
          /\ chain[before][2] = "permission_gate" /\ chain[before][3] = "cost_guard"
      BY <2>1
    <3>2. Run(g, before, ctx, TRUE)
            = Then(Then(Then(Passes(g), chain[before][1], before, ctx, TRUE),
                        chain[before][2], before, ctx, TRUE),
                   chain[before][3], before, ctx, TRUE)
      BY <3>1, RunOfThree, Zenon
    <3>. QED
      BY <1>1, <3>1, <3>2 DEF Gate
  <2>3. OnlyAudits(r1.guards, r1.guards) /\ Recorded(r1.guards) \in Nat
    BY <1>1 DEF OnlyAudits, Recorded, Results, GuardStates
  <2>. QED
    <3>1. /\ r1 \in Results /\ OnlyAudits(r1.guards, r1.guards)
          /\ AuditFirst => Recorded(r1.guards) = Recorded(r1.guards) + (IF r1.deny THEN 1 ELSE 0)
      BY <1>1, <2>3
    <3>. QED
      BY <1>1, <1>6, <2>2, <3>1
<1>. QED
  BY <1>7, <1>8

LEMMA ThresholdType == Threshold \in Nat \ {0}
BY GuardsAssumption, Zenon

LEMMA LatestIs ==
  ASSUME NEW S, NEW s \in Seq(S), NEW n \in Nat \ {0}
  PROVE  LET l == Latest(s, n)
         IN /\ l \in Seq(S)
            /\ Len(l) = IF Len(s) > n THEN n ELSE Len(s)
            /\ \A i \in 1..Len(l) : l[i] = s[Len(s) - Len(l) + i]
<1> DEFINE first == IF Len(s) > n THEN Len(s) - n + 1 ELSE 1
           l == SubSeq(s, first, Len(s))
<1>1. Len(s) \in Nat /\ first \in 1..(Len(s) + 1) /\ first \in Int
  BY LenProperties
<1>2. /\ l \in Seq(S) /\ Len(l) = Len(s) - first + 1
      /\ \A i \in 1..Len(l) : l[i] = s[first + i - 1]
  <2> HIDE DEF first
  <2>1. \A i \in first..Len(s) : s[i] \in S
    BY <1>1, ElementOfSeq
  <2>. QED
    BY <1>1, <2>1
<1>3. Latest(s, n) = l
  BY DEF Latest
<1> HIDE DEF l
<1>4. Len(l) = (IF Len(s) > n THEN n ELSE Len(s)) /\ first + 0 = Len(s) - Len(l) + 1
  BY <1>1, <1>2
<1> HIDE DEF first
<1>5. \A i \in 1..Len(l) : l[i] = s[Len(s) - Len(l) + i]
  <2>1. \A i \in 1..Len(l) : first + i - 1 = Len(s) - Len(l) + i
    BY <1>1, <1>2
  <2>. QED
    BY <1>2, <2>1
<1>6. /\ l \in Seq(S) /\ Len(l) = IF Len(s) > n THEN n ELSE Len(s)
  BY <1>2, <1>4
<1>. QED
  BY <1>3, <1>5, <1>6

\* The loop detector only changes what it remembers of one kind of event.
LEMMA CheckLoopIs ==
  ASSUME NEW g \in GuardStates, NEW tool \in Tools, NEW text \in Outputs
  PROVE  LET r == CheckLoop(g, "tool", <<tool, text>>)
         IN /\ r \in Results
            /\ \E memory \in ToolMemory : r.guards = [g EXCEPT !.tool = memory]
<1> DEFINE memory == Kept(Append(g.tool, <<tool, text>>))
           r == CheckLoop(g, "tool", <<tool, text>>)
<1>1. memory \in ToolMemory
  <2>1. g.tool \in ToolMemory
    BY DEF GuardStates
  <2>2. Append(g.tool, <<tool, text>>) \in Seq(Tools \X Outputs)
    BY <2>1 DEF ToolMemory
  <2>. QED
    <3>1. 2 * Threshold \in Nat \ {0}
      BY ThresholdType
    <3>. QED
      BY <2>2, <3>1, LatestIs DEF Kept, ToolMemory
<1>2. r.guards = [g EXCEPT !.tool = memory] /\ r.deny \in BOOLEAN
      /\ r = [guards |-> r.guards, deny |-> r.deny]
  BY DEF CheckLoop, Passes, Denies, GuardStates
<1> HIDE DEF memory, r
<1>3. [g EXCEPT !.tool = memory] \in GuardStates
  BY <1>1 DEF GuardStates
<1>. QED
  BY <1>1, <1>2, <1>3 DEF Results, r

LEMMA FailingIs ==
  ASSUME NEW g \in GuardStates
  PROVE  /\ IsFiniteSet(Failing(g)) /\ Cardinality(Failing(g)) \in Nat
         /\ Counted(g) \in Nat
<1>1. IsFiniteSet(Tools)
  <2>1. Tools = ({"agent_execution"} \cup {"skill_loader"}) \cup {"sandbox_run"}
    BY DEF Tools
  <2>. QED
    BY <2>1, FS_Singleton, FS_Union
<1>2. IsFiniteSet(Failing(g))
  BY <1>1, FS_Subset DEF Failing
<1>3. Cardinality(Failing(g)) \in Nat
  BY <1>2, FS_CardinalityType
<1>. QED
  BY <1>2, <1>3 DEF Counted, GuardStates

LEMMA RetryIs ==
  ASSUME NEW g \in GuardStates, NEW ctx \in Contexts, ctx.tool \in Tools
  PROVE  LET r == Retry(g, ctx)
         IN /\ r \in Results /\ ~r.deny
            /\ Counted(r.guards) = Counted(g) + (IF ctx.success THEN 0 ELSE 1)
            /\ r.guards.begun = g.begun /\ r.guards.ended = g.ended
            /\ r.guards.turn = g.turn /\ Recorded(r.guards) = Recorded(g)
<1> DEFINE t == ctx.tool
           before == g.failures[t]
           h == Retry(g, ctx).guards
<1>0. g.failures \in [Tools -> Nat] /\ before \in Nat /\ t \in Tools
  BY DEF GuardStates, Counters
<1>1. Retry(g, ctx) = [guards |-> h, deny |-> FALSE]
  BY DEF Retry, Passes
<1>2. CASE ctx.success
  <2> DEFINE f == [g.failures EXCEPT ![t] = 0]
             n == IF before > 0 THEN g.recovered + 1 ELSE g.recovered
  <2>1. h = [g EXCEPT !.failures = f, !.recovered = n]
    BY <1>2 DEF Retry, Passes, GuardStates
  <2>2. f \in Counters /\ n \in Nat
    BY <1>0 DEF Counters, GuardStates
  <2>3. /\ h \in GuardStates
        /\ h.begun = g.begun /\ h.ended = g.ended /\ h.turn = g.turn
        /\ Recorded(h) = Recorded(g)
        /\ h.failures = [g.failures EXCEPT ![t] = 0] /\ h.retries = g.retries
        /\ h.recovered = IF before > 0 THEN g.recovered + 1 ELSE g.recovered
    <3>. HIDE DEF h, f, n
    <3>1. h \in GuardStates
      BY <2>1, <2>2 DEF GuardStates
    <3>. QED
      BY <2>1, <3>1 DEF GuardStates, Recorded, f, n
  <2>4. Failing(h) = Failing(g) \ {t}
    BY <1>0, <2>3 DEF Failing
  <2>5. t \in Failing(g) <=> before > 0
    BY <1>0 DEF Failing
  <2>6. Cardinality(Failing(h)) = IF before > 0 THEN Cardinality(Failing(g)) - 1
                                 ELSE Cardinality(Failing(g))
    BY <2>4, <2>5, FailingIs, FS_RemoveElement
  <2>7. Counted(h) = Counted(g)
    BY <1>0, <2>3, <2>6, FailingIs DEF Counted, GuardStates
  <2> HIDE DEF h
  <2>. QED
    BY <1>1, <1>2, <2>3, <2>7, FailingIs DEF Results
<1>3. CASE ~ctx.success
  <2> DEFINE f == [g.failures EXCEPT ![t] = before + 1]
             n == IF before > 0 THEN g.retries + 1 ELSE g.retries
  <2>1. h = [g EXCEPT !.failures = f, !.retries = n]
    BY <1>3 DEF Retry, Passes, GuardStates
  <2>2. f \in Counters /\ n \in Nat
    BY <1>0 DEF Counters, GuardStates
  <2>3. /\ h \in GuardStates
        /\ h.begun = g.begun /\ h.ended = g.ended /\ h.turn = g.turn
        /\ Recorded(h) = Recorded(g)
        /\ h.failures = [g.failures EXCEPT ![t] = before + 1] /\ h.recovered = g.recovered
        /\ h.retries = IF before > 0 THEN g.retries + 1 ELSE g.retries
    <3>. HIDE DEF h, f, n
    <3>1. h \in GuardStates
      BY <2>1, <2>2 DEF GuardStates
    <3>. QED
      BY <2>1, <3>1 DEF GuardStates, Recorded, f, n
  <2>4. Failing(h) = Failing(g) \cup {t}
    BY <1>0, <2>3 DEF Failing
  <2>5. t \in Failing(g) <=> before > 0
    BY <1>0 DEF Failing
  <2>6. Cardinality(Failing(h)) = IF before > 0 THEN Cardinality(Failing(g))
                                 ELSE Cardinality(Failing(g)) + 1
    BY <2>4, <2>5, FailingIs, FS_AddElement
  <2>7. Counted(h) = Counted(g) + 1
    BY <1>0, <2>3, <2>6, FailingIs DEF Counted, GuardStates
  <2> HIDE DEF h
  <2>. QED
    BY <1>1, <1>3, <2>3, <2>7 DEF Results
<1>. QED
  BY <1>2, <1>3

\* After a call, refused or not: the observer sees a failure, and the retry tracker counts
\* it, whatever the loop detector in front of it says.
LEMMA DispatchAfterCall ==
  ASSUME LoadInv, entries = <<>>, NEW g \in GuardStates, NEW ctx \in Contexts,
         ctx.tool \in Tools
  PROVE  LET h == Dispatch(g, "AFTER_TOOL_CALL", ctx)
             failed == IF ctx.success THEN 0 ELSE 1
         IN /\ h \in GuardStates
            /\ h.begun = g.begun /\ h.ended = g.ended + failed
            /\ Counted(h) = Counted(g) + failed
            /\ h.turn = g.turn /\ Recorded(h) = Recorded(g)
<1> DEFINE after == "AFTER_TOOL_CALL"
           failed == IF ctx.success THEN 0 ELSE 1
           g1 == Observe(g, after, ctx).guards
           g2 == CheckLoop(g1, "tool", <<ctx.tool, ctx.output>>).guards
           h == Retry(g2, ctx).guards
<1>1. Dispatch(g, after, ctx) = h
  <2>1. chain[after] = <<"observer", "loop_detector", "retry_tracker">>
    BY DEF LoadInv, Stage, Listed, ChainsAt, AfterCall
  <2>2. /\ Len(chain[after]) = 3 /\ chain[after][1] = "observer"
        /\ chain[after][2] = "loop_detector" /\ chain[after][3] = "retry_tracker"
    BY <2>1
  <2>3. Run(g, after, ctx, FALSE)
          = Then(Then(Then(Passes(g), chain[after][1], after, ctx, FALSE),
                      chain[after][2], after, ctx, FALSE),
                 chain[after][3], after, ctx, FALSE)
    BY <2>2, RunOfThree, Zenon
  <2>4. \A r : /\ Then(r, "observer", after, ctx, FALSE) = Observe(r.guards, after, ctx)
               /\ Then(r, "loop_detector", after, ctx, FALSE)
                    = CheckLoop(r.guards, "tool", <<ctx.tool, ctx.output>>)
               /\ Then(r, "retry_tracker", after, ctx, FALSE) = Retry(r.guards, ctx)
    BY DEF Then, Handle
  <2>5. Passes(g).guards = g
    BY DEF Passes
  <2>. QED
    BY <2>2, <2>3, <2>4, <2>5 DEF Dispatch
<1>2. /\ g1 \in GuardStates /\ g1.begun = g.begun /\ g1.ended = g.ended + failed
      /\ g1.turn = g.turn /\ Recorded(g1) = Recorded(g) /\ Counted(g1) = Counted(g)
  <2>1. CASE ctx.success
    <3>1. g1 = g
      BY <2>1 DEF Observe, Passes
    <3>. QED
      BY <2>1, <3>1 DEF GuardStates
  <2>2. CASE ~ctx.success
    <3>1. g1 = [g EXCEPT !.ended = @ + 1]
      BY <2>2 DEF Observe, Passes
    <3>2. g1 \in GuardStates
      BY <3>1 DEF GuardStates
    <3>. QED
      BY <2>2, <3>1, <3>2 DEF GuardStates, Recorded, Counted, Failing
  <2>. QED
    BY <2>1, <2>2
<1> HIDE DEF g1
<1>3. /\ g2 \in GuardStates /\ g2.begun = g1.begun /\ g2.ended = g1.ended
      /\ g2.turn = g1.turn /\ Recorded(g2) = Recorded(g1) /\ Counted(g2) = Counted(g1)
  <2>1. ctx.output \in Outputs
    BY DEF Contexts
  <2>2. PICK memory \in ToolMemory : g2 = [g1 EXCEPT !.tool = memory]
    BY <1>2, <2>1, CheckLoopIs
  <2>3. g2 \in GuardStates
    BY <1>2, <2>1, CheckLoopIs DEF Results
  <2> HIDE DEF g2
  <2>. QED
    BY <1>2, <2>2, <2>3 DEF GuardStates, Recorded, Counted, Failing
<1> HIDE DEF g2
<1>4. /\ h \in GuardStates /\ h.begun = g2.begun /\ h.ended = g2.ended
      /\ h.turn = g2.turn /\ Recorded(h) = Recorded(g2) /\ Counted(h) = Counted(g2) + failed
  BY <1>3, RetryIs DEF Results
<1> HIDE DEF h, failed
<1>5. /\ h \in GuardStates /\ h.begun = g.begun /\ h.ended = g.ended + failed
      /\ Counted(h) = Counted(g) + failed /\ h.turn = g.turn /\ Recorded(h) = Recorded(g)
  BY <1>2, <1>3, <1>4
<1>. QED
  BY <1>1, <1>5 DEF failed

-----------------------------------------------------------------------------
(***************************************************************************)
(* The event of a turn                                                     *)
(***************************************************************************)

\* What the loop detector does with an output, and that the cost guard in front of it keeps
\* the output from it if and only if it denies and the chain is a gate.
Remembers(g, output) == [g EXCEPT !.turn = Kept(Append(@, output))]

LEMMA AfterTurnIs ==
  ASSUME LoadInv, entries = <<>>, NEW g \in GuardStates, NEW ctx \in Contexts
  PROVE  /\ Dispatch(g, "AFTER_TURN", ctx) = Remembers(g, ctx.output)
         /\ Gate(g, "AFTER_TURN", ctx).guards
              = IF settings.broke THEN g ELSE Remembers(g, ctx.output)
         /\ Gate(g, "AFTER_TURN", ctx).deny \in BOOLEAN
<1> DEFINE event == "AFTER_TURN"
           loop == CheckLoop(g, "turn", ctx.output)
<1>1. /\ Len(chain[event]) = 3 /\ chain[event][1] = "observer"
      /\ chain[event][2] = "cost_guard" /\ chain[event][3] = "loop_detector"
  <2>1. chain[event] = <<"observer", "cost_guard", "loop_detector">>
    BY DEF LoadInv, Stage, Listed, ChainsAt, AfterTurn
  <2>. QED
    BY <2>1
<1>2. \A stops : Run(g, event, ctx, stops)
        = Then(Then(Then(Passes(g), chain[event][1], event, ctx, stops),
                    chain[event][2], event, ctx, stops),
               chain[event][3], event, ctx, stops)
  BY <1>1, RunOfThree, Zenon
<1>3. \A stops : Then(Passes(g), "observer", event, ctx, stops) = Passes(g)
  BY DEF Then, Handle, Observe, Passes
<1>4. \A stops : Then(Passes(g), "cost_guard", event, ctx, stops) = Cost(g)
  BY DEF Then, Handle, Passes
<1>5. /\ Then(Cost(g), "loop_detector", event, ctx, FALSE) = loop
      /\ Then(Cost(g), "loop_detector", event, ctx, TRUE)
           = IF settings.broke THEN Denies(g) ELSE loop
  BY DEF Then, Handle, Passes, Denies, Cost
<1>6. loop.guards = Remembers(g, ctx.output) /\ loop.deny \in BOOLEAN
  BY DEF CheckLoop, Passes, Denies, Remembers, GuardStates
<1>7. Denies(g).guards = g /\ Denies(g).deny \in BOOLEAN
  BY DEF Denies
<1> HIDE DEF loop
<1>8. Run(g, event, ctx, FALSE) = loop
  BY <1>1, <1>2, <1>3, <1>4, <1>5, Zenon
<1>9. Run(g, event, ctx, TRUE) = IF settings.broke THEN Denies(g) ELSE loop
  BY <1>1, <1>2, <1>3, <1>4, <1>5, Zenon
<1>. QED
  BY <1>6, <1>7, <1>8, <1>9 DEF Dispatch, Gate

\* A window of the latest outputs can be kept up from itself, and shows every loop.
LEMMA KeptIs ==
  ASSUME NEW S, NEW s \in Seq(S), NEW x \in S
  PROVE  Kept(s) \in Seq(S) /\ Kept(Append(Kept(s), x)) = Kept(Append(s, x))
<1> DEFINE n == 2 * Threshold
           k == Latest(s, n)
           kx == Append(k, x)
           sx == Append(s, x)
           l == Latest(kx, n)
           m == Latest(sx, n)
<1>1. n \in Nat \ {0}
  BY ThresholdType
<1> HIDE DEF n
<1>2. /\ k \in Seq(S) /\ Len(k) = (IF Len(s) > n THEN n ELSE Len(s))
      /\ \A i \in 1..Len(k) : k[i] = s[Len(s) - Len(k) + i]
  BY <1>1, LatestIs
<1> HIDE DEF k
<1>3. /\ kx \in Seq(S) /\ Len(kx) = Len(k) + 1
      /\ \A i \in 1..Len(k) : kx[i] = k[i]
      /\ kx[Len(k) + 1] = x
  BY <1>2, AppendProperties
<1>4. /\ sx \in Seq(S) /\ Len(sx) = Len(s) + 1
      /\ \A i \in 1..Len(s) : sx[i] = s[i]
      /\ sx[Len(s) + 1] = x
  BY AppendProperties
<1> HIDE DEF kx, sx
<1>5. /\ l \in Seq(S) /\ Len(l) = (IF Len(kx) > n THEN n ELSE Len(kx))
      /\ \A i \in 1..Len(l) : l[i] = kx[Len(kx) - Len(l) + i]
  BY <1>1, <1>3, LatestIs
<1>6. /\ m \in Seq(S) /\ Len(m) = (IF Len(sx) > n THEN n ELSE Len(sx))
      /\ \A i \in 1..Len(m) : m[i] = sx[Len(sx) - Len(m) + i]
  BY <1>1, <1>4, LatestIs
<1> HIDE DEF l, m
<1>7. /\ Len(l) = Len(m) /\ Len(s) \in Nat /\ Len(k) \in Nat /\ Len(m) \in Nat
      /\ Len(m) <= Len(k) + 1 /\ Len(k) <= Len(s)
  <2>1. Len(s) \in Nat /\ Len(k) \in Nat /\ Len(l) \in Nat /\ Len(m) \in Nat
    BY <1>2, <1>5, <1>6, LenProperties
  <2>. QED
    BY <1>1, <1>2, <1>3, <1>4, <1>5, <1>6, <2>1
<1>8. ASSUME NEW i \in 1..Len(m) PROVE l[i] = m[i]
  <2> DEFINE d == Len(k) + 1 - Len(m) + i
             e == Len(s) + 1 - Len(m) + i
  <2>1. l[i] = kx[d] /\ m[i] = sx[e]
    <3>1. Len(kx) - Len(l) + i = d /\ Len(sx) - Len(m) + i = e /\ i \in 1..Len(l)
      BY <1>3, <1>4, <1>7
    <3>. QED
      BY <1>5, <1>6, <3>1
  <2>2. CASE i = Len(m)
    <3>1. d = Len(k) + 1 /\ e = Len(s) + 1
      BY <1>7, <2>2
    <3>. QED
      BY <1>3, <1>4, <2>1, <3>1
  <2>3. CASE i < Len(m)
    <3>1. d \in 1..Len(k) /\ e \in 1..Len(s) /\ e = Len(s) - Len(k) + d
      BY <1>7, <2>3
    <3> HIDE DEF d, e
    <3>. QED
      BY <1>2, <1>3, <1>4, <2>1, <3>1
  <2>. QED
    BY <1>7, <2>2, <2>3
<1>9. l = m
  BY <1>5, <1>6, <1>7, <1>8, SeqEqual
<1>. QED
  BY <1>2, <1>9 DEF Kept, n, k, kx, sx, l, m

LEMMA RepeatsKept ==
  ASSUME NEW S, NEW s \in Seq(S)
  PROVE  Repeats(Kept(s)) <=> Repeats(s)
<1> DEFINE n == 2 * Threshold
           k == Latest(s, n)
           l == Latest(k, Threshold)
           m == Latest(s, Threshold)
<1>1. n \in Nat \ {0} /\ n >= Threshold /\ Threshold \in Nat \ {0}
  BY ThresholdType
<1> HIDE DEF n
<1>2. /\ k \in Seq(S) /\ Len(k) = (IF Len(s) > n THEN n ELSE Len(s))
      /\ \A i \in 1..Len(k) : k[i] = s[Len(s) - Len(k) + i]
  BY <1>1, LatestIs
<1> HIDE DEF k
<1>3. /\ l \in Seq(S) /\ Len(l) = (IF Len(k) > Threshold THEN Threshold ELSE Len(k))
      /\ \A i \in 1..Len(l) : l[i] = k[Len(k) - Len(l) + i]
  BY <1>1, <1>2, LatestIs
<1>4. /\ m \in Seq(S) /\ Len(m) = (IF Len(s) > Threshold THEN Threshold ELSE Len(s))
      /\ \A i \in 1..Len(m) : m[i] = s[Len(s) - Len(m) + i]
  BY <1>1, LatestIs
<1> HIDE DEF l, m
<1>5. /\ Len(l) = Len(m) /\ (Len(k) >= Threshold <=> Len(s) >= Threshold)
      /\ Len(s) \in Nat /\ Len(k) \in Nat /\ Len(m) \in Nat /\ Len(m) <= Len(k)
  BY <1>1, <1>2, <1>3, <1>4, LenProperties
<1>6. ASSUME NEW i \in 1..Len(m) PROVE l[i] = m[i]
  <2>1. l[i] = k[Len(k) - Len(m) + i] /\ m[i] = s[Len(s) - Len(m) + i]
    BY <1>3, <1>4, <1>5
  <2>2. Len(k) - Len(m) + i \in 1..Len(k)
        /\ Len(s) - Len(m) + i = Len(s) - Len(k) + (Len(k) - Len(m) + i)
    BY <1>5
  <2>. QED
    BY <1>2, <2>1, <2>2
<1>7. l = m
  BY <1>3, <1>4, <1>5, <1>6, SeqEqual
<1>. QED
  BY <1>5, <1>7 DEF Kept, Repeats, n, k, l, m

-----------------------------------------------------------------------------
(***************************************************************************)
(* Steps                                                                   *)
(***************************************************************************)

\* Appending to a sequence written out.
LEMMA AppendIs ==
  ASSUME NEW S, NEW s \in Seq(S), NEW t \in Seq(S), NEW x \in S,
         Len(t) = Len(s) + 1, t[Len(s) + 1] = x, \A i \in 1..Len(s) : t[i] = s[i]
  PROVE  Append(s, x) = t
<1>1. \A i \in 1..Len(t) : i \in 1..Len(s) \/ i = Len(s) + 1
  BY LenProperties
<1>2. /\ Append(s, x) \in Seq(S) /\ Len(Append(s, x)) = Len(s) + 1
      /\ \A i \in 1..Len(t) : Append(s, x)[i] = t[i]
  BY <1>1, AppendProperties
<1>. QED
  BY <1>2, SeqEqual

LEMMA AppendToOne ==
  ASSUME NEW a, NEW x
  PROVE  Append(<<a>>, x) = <<a, x>>
<1> DEFINE S == {a, x}
           s == <<a>>
           t == <<a, x>>
<1>1. /\ s \in Seq(S) /\ t \in Seq(S) /\ x \in S
      /\ Len(s) = 1 /\ Len(t) = 2 /\ t[2] = x
      /\ t[1] = s[1]
  OBVIOUS
<1> HIDE DEF s, t, S
<1>2. /\ Len(t) = Len(s) + 1 /\ t[Len(s) + 1] = x
      /\ \A i \in 1..Len(s) : t[i] = s[i]
  BY <1>1
<1>3. Append(s, x) = t
  BY <1>1, <1>2, AppendIs, Zenon
<1>. QED
  BY <1>3 DEF s, t

LEMMA AppendToTwo ==
  ASSUME NEW a, NEW b, NEW x
  PROVE  Append(<<a, b>>, x) = <<a, b, x>>
<1> DEFINE S == {a, b, x}
           s == <<a, b>>
           t == <<a, b, x>>
<1>1. /\ s \in Seq(S) /\ t \in Seq(S) /\ x \in S
      /\ Len(s) = 2 /\ Len(t) = 3 /\ t[3] = x
      /\ t[1] = s[1] /\ t[2] = s[2]
  OBVIOUS
<1> HIDE DEF s, t, S
<1>2. /\ Len(t) = Len(s) + 1 /\ t[Len(s) + 1] = x
      /\ \A i \in 1..Len(s) : t[i] = s[i]
  BY <1>1
<1>3. Append(s, x) = t
  BY <1>1, <1>2, AppendIs, Zenon
<1>. QED
  BY <1>3 DEF s, t

LEMMA AppendToThree ==
  ASSUME NEW a, NEW b, NEW c, NEW x
  PROVE  Append(<<a, b, c>>, x) = <<a, b, c, x>>
<1> DEFINE S == {a, b, c, x}
           s == <<a, b, c>>
           t == <<a, b, c, x>>
<1>1. /\ s \in Seq(S) /\ t \in Seq(S) /\ x \in S
      /\ Len(s) = 3 /\ Len(t) = 4 /\ t[4] = x
      /\ t[1] = s[1] /\ t[2] = s[2] /\ t[3] = s[3]
  OBVIOUS
<1> HIDE DEF s, t, S
<1>2. /\ Len(t) = Len(s) + 1 /\ t[Len(s) + 1] = x
      /\ \A i \in 1..Len(s) : t[i] = s[i]
  BY <1>1
<1>3. Append(s, x) = t
  BY <1>1, <1>2, AppendIs, Zenon
<1>. QED
  BY <1>3 DEF s, t

LEMMA AppendToFive ==
  ASSUME NEW a, NEW b, NEW c, NEW d, NEW e, NEW x
  PROVE  Append(<<a, b, c, d, e>>, x) = <<a, b, c, d, e, x>>
<1> DEFINE S == {a, b, c, d, e, x}
           s == <<a, b, c, d, e>>
           t == <<a, b, c, d, e, x>>
<1>1. /\ s \in Seq(S) /\ t \in Seq(S) /\ x \in S
      /\ Len(s) = 5 /\ Len(t) = 6 /\ t[6] = x
      /\ t[1] = s[1] /\ t[2] = s[2] /\ t[3] = s[3] /\ t[4] = s[4] /\ t[5] = s[5]
  OBVIOUS
<1> HIDE DEF s, t, S
<1>2. /\ Len(t) = Len(s) + 1 /\ t[Len(s) + 1] = x
      /\ \A i \in 1..Len(s) : t[i] = s[i]
  BY <1>1
<1>3. Append(s, x) = t
  BY <1>1, <1>2, AppendIs, Zenon
<1>. QED
  BY <1>3 DEF s, t

\* hooks.yaml with the audit logger at the end.
LoggerLast == <<"sandbox_guard", "permission_gate", "cost_guard", "loop_detector",
                "retry_tracker", "audit_logger">>

LEMMA OrderIs ==
  ASSUME LoadInv
  PROVE  settings.order \in {Listed, LoggerLast} /\ Listed # LoggerLast
<1>1. Tail(Listed) = <<"sandbox_guard", "permission_gate", "cost_guard", "loop_detector",
                       "retry_tracker">>
      /\ Head(Listed) = "audit_logger"
  BY DEF Listed
<1>2. Append(Tail(Listed), Head(Listed)) = LoggerLast
  BY <1>1, AppendToFive, Zenon DEF LoggerLast
<1>3. Listed[1] # LoggerLast[1]
  BY DEF Listed, LoggerLast
<1>. QED
  BY <1>2, <1>3 DEF LoadInv

\* The strategy loaded next has its place at the end of its chains, and the logger if that
\* comes first.
LEMMA LoadKeeps == LoadInv /\ LoadStrategy => LoadInv'
<1> SUFFICES ASSUME LoadInv, LoadStrategy PROVE LoadInv'
  OBVIOUS
<1> DEFINE name == Head(entries)
           n == Len(entries)
           k == Stage
<1>1. UNCHANGED settings /\ entries # <<>> /\ entries' = Tail(entries)
  BY DEF LoadStrategy
<1>2. /\ n \in 1..6 /\ Len(entries') = n - 1 /\ name = settings.order[7 - n]
      /\ \A i \in 1..(n - 1) : entries'[i] = settings.order[7 - n + i]
      /\ entries' = <<>> <=> n = 1
  <2>1. entries \in Seq(Handlers) /\ n \in 1..6 /\ name = entries[1]
    BY <1>1, EmptySeq DEF LoadInv
  <2>2. /\ Tail(entries) \in Seq(Handlers) /\ Len(Tail(entries)) = n - 1
        /\ \A i \in 1..(n - 1) : Tail(entries)[i] = entries[i + 1]
    BY <1>1, <2>1, HeadTailProperties
  <2>3. \A i \in 1..n : entries[i] = settings.order[6 - n + i]
    BY DEF LoadInv
  <2>4. name = settings.order[7 - n]
    BY <2>1, <2>3
  <2>5. ASSUME NEW i \in 1..(n - 1) PROVE entries'[i] = settings.order[7 - n + i]
    <3>1. i + 1 \in 1..n /\ 6 - n + (i + 1) = 7 - n + i
      BY <2>1
    <3>. QED
      BY <1>1, <2>2, <2>3, <3>1
  <2>6. entries' = <<>> <=> n = 1
    BY <1>1, <2>1, <2>2, EmptySeq
  <2>. QED
    BY <1>1, <2>1, <2>2, <2>4, <2>5, <2>6
<1>3. /\ AuditFirst => settings.order = Listed
      /\ ~AuditFirst => settings.order = LoggerLast
  BY OrderIs DEF AuditFirst
<1>4. \/ name = "audit_logger" /\ Stage' = k /\ (AuditFirst => k = 0)
      \/ k = 0 /\ Stage' = 1 /\ name = "sandbox_guard"
      \/ k = 1 /\ Stage' = 2 /\ name = "permission_gate"
      \/ k = 2 /\ Stage' = 3 /\ name = "cost_guard"
      \/ k = 3 /\ Stage' = 4 /\ name = "loop_detector"
      \/ k = 4 /\ Stage' = 5 /\ name = "retry_tracker"
  <2>1. CASE AuditFirst
    <3>1. /\ name = Listed[7 - n] /\ AuditFirst'
          /\ Stage = (IF n = 6 THEN 0 ELSE 5 - n) /\ Stage' = 6 - n
      BY <1>1, <1>2, <1>3, <2>1 DEF Stage, AuditFirst
    <3>2. /\ Listed[1] = "audit_logger" /\ Listed[2] = "sandbox_guard"
          /\ Listed[3] = "permission_gate" /\ Listed[4] = "cost_guard"
          /\ Listed[5] = "loop_detector" /\ Listed[6] = "retry_tracker"
      BY DEF Listed
    <3>3. n \in {1, 2, 3, 4, 5, 6}
      BY <1>2
    <3>. HIDE DEF name, n, k
    <3>. QED
      BY <2>1, <3>1, <3>2, <3>3 DEF k
  <2>2. CASE ~AuditFirst
    <3>1. /\ name = LoggerLast[7 - n] /\ ~AuditFirst'
          /\ Stage = 6 - n /\ Stage' = (IF n = 1 THEN 5 ELSE 7 - n)
      BY <1>1, <1>2, <1>3, <2>2 DEF Stage, AuditFirst
    <3>2. /\ LoggerLast[6] = "audit_logger" /\ LoggerLast[1] = "sandbox_guard"
          /\ LoggerLast[2] = "permission_gate" /\ LoggerLast[3] = "cost_guard"
          /\ LoggerLast[4] = "loop_detector" /\ LoggerLast[5] = "retry_tracker"
      BY DEF LoggerLast
    <3>3. n \in {1, 2, 3, 4, 5, 6}
      BY <1>2
    <3>. HIDE DEF name, n, k
    <3>. QED
      BY <2>2, <3>1, <3>2, <3>3 DEF k
  <2>. QED
    BY <2>1, <2>2
<1>5. ChainsAt(k)
  BY DEF LoadInv, LoadStrategy
<1>6. /\ name \in settings.accepted \/ name = "sandbox_guard"
      /\ name \in settings.accepted =>
           chain' = [e \in EventTypes |->
                       IF e \in EventsOf(name) THEN Append(chain[e], name) ELSE chain[e]]
      /\ name \notin settings.accepted => UNCHANGED <<audited, chain>>
  <2>1. name \in settings.accepted \/ name = "sandbox_guard"
    BY <1>4 DEF LoadInv, Listed, ToSet
  <2>. QED
    BY <2>1 DEF LoadStrategy, Registered
<1>7. /\ audited \subseteq audited'
      /\ AuditFirst /\ name \in settings.accepted
           /\ name \in {"sandbox_guard", "permission_gate"} => name \in audited'
  <2>1. audited \subseteq audited'
    BY DEF LoadStrategy
  <2>2. ASSUME AuditFirst, name \in settings.accepted,
               name \in {"sandbox_guard", "permission_gate"}
        PROVE  name \in audited'
    <3>1. settings.order[1] = "audit_logger" /\ Len(settings.order) = 6
      BY <1>3, <2>2 DEF Listed
    <3>2. n < 6
      BY <1>2, <1>3, <2>2, <3>1
    <3>3. "audit_logger" \in settings.accepted
      BY DEF LoadInv, Listed, ToSet
    <3>4. Loaded("audit_logger")
      BY <1>2, <3>1, <3>2, <3>3 DEF Loaded
    <3>. QED
      BY <2>2, <3>4 DEF LoadStrategy
  <2>. QED
    BY <2>1, <2>2
<1> HIDE DEF name, n, k
<1>8. /\ chain \in [EventTypes -> Seq(Handlers)] /\ name \in Handlers
      /\ chain["BEFORE_TOOL_CALL"] = BeforeCall(k)
      /\ chain["AFTER_TOOL_CALL"] = AfterCall(k)
      /\ chain["AFTER_TURN"] = AfterTurn(k)
  BY <1>4, <1>5 DEF ChainsAt, Handlers, Listed, ToSet
<1>9. chain' \in [EventTypes -> Seq(Handlers)]
  <2>1. CASE name \in settings.accepted
    <3>1. \A e \in EventTypes : Append(chain[e], name) \in Seq(Handlers)
      BY <1>8, AppendProperties
    <3>. QED
      BY <1>6, <1>8, <2>1, <3>1
  <2>. QED
    BY <1>6, <1>8, <2>1
<1>10. /\ chain'["BEFORE_TOOL_CALL"] =
            IF name \in settings.accepted
                 /\ name \in {"sandbox_guard", "permission_gate", "cost_guard"}
            THEN Append(BeforeCall(k), name) ELSE BeforeCall(k)
       /\ chain'["AFTER_TOOL_CALL"] =
            IF name \in {"loop_detector", "retry_tracker"}
            THEN Append(AfterCall(k), name) ELSE AfterCall(k)
       /\ chain'["AFTER_TURN"] =
            IF name \in {"cost_guard", "loop_detector"}
            THEN Append(AfterTurn(k), name) ELSE AfterTurn(k)
  <2>1. /\ "BEFORE_TOOL_CALL" \in EventTypes /\ "AFTER_TOOL_CALL" \in EventTypes
        /\ "AFTER_TURN" \in EventTypes
    BY DEF EventTypes
  <2>2. /\ "BEFORE_TOOL_CALL" \in EventsOf(name)
            <=> name \in {"sandbox_guard", "permission_gate", "cost_guard"}
        /\ "AFTER_TOOL_CALL" \in EventsOf(name) <=> name \in {"loop_detector", "retry_tracker"}
        /\ "AFTER_TURN" \in EventsOf(name) <=> name \in {"cost_guard", "loop_detector"}
    BY <1>4 DEF EventsOf
  <2>. QED
    BY <1>6, <1>8, <2>1, <2>2
<1>11. chain'["BEFORE_TOOL_CALL"] = BeforeCall(Stage)'
  <2>1. CASE name \in {"sandbox_guard", "permission_gate", "cost_guard"}
               /\ name \in settings.accepted
    <3>1. chain'["BEFORE_TOOL_CALL"] = Append(BeforeCall(k), name)
      BY <1>10, <2>1
    <3>2. CASE name = "sandbox_guard"
      BY <1>1, <1>4, <2>1, <3>1, <3>2, AppendToOne DEF BeforeCall
    <3>3. CASE name = "permission_gate"
      BY <1>1, <1>4, <3>1, <3>3, AppendToOne, AppendToTwo DEF BeforeCall
    <3>4. CASE name = "cost_guard"
      <4>1. k = 2 /\ Stage' = 3
        BY <1>4, <3>4
      <4>2. CASE "sandbox_guard" \in settings.accepted
        BY <1>1, <3>1, <3>4, <4>1, <4>2, AppendToThree DEF BeforeCall
      <4>3. CASE "sandbox_guard" \notin settings.accepted
        BY <1>1, <3>1, <3>4, <4>1, <4>3, AppendToTwo DEF BeforeCall
      <4>. QED
        BY <4>2, <4>3
    <3>. QED
      BY <2>1, <3>2, <3>3, <3>4
  <2>2. CASE ~(name \in {"sandbox_guard", "permission_gate", "cost_guard"}
                 /\ name \in settings.accepted)
    BY <1>1, <1>4, <1>6, <1>10, <2>2 DEF BeforeCall
  <2>. QED
    BY <2>1, <2>2
<1>12. chain'["AFTER_TOOL_CALL"] = AfterCall(Stage)'
  <2>1. CASE name = "loop_detector"
    BY <1>4, <1>10, <2>1, AppendToOne DEF AfterCall
  <2>2. CASE name = "retry_tracker"
    BY <1>4, <1>10, <2>2, AppendToTwo DEF AfterCall
  <2>3. CASE name \notin {"loop_detector", "retry_tracker"}
    BY <1>4, <1>10, <2>3 DEF AfterCall
  <2>. QED
    BY <2>1, <2>2, <2>3
<1>13. chain'["AFTER_TURN"] = AfterTurn(Stage)'
  <2>1. CASE name = "cost_guard"
    BY <1>4, <1>10, <2>1, AppendToOne DEF AfterTurn
  <2>2. CASE name = "loop_detector"
    BY <1>4, <1>10, <2>2, AppendToTwo DEF AfterTurn
  <2>3. CASE name \notin {"cost_guard", "loop_detector"}
    BY <1>4, <1>10, <2>3 DEF AfterTurn
  <2>. QED
    BY <2>1, <2>2, <2>3
<1>14. /\ (AuditFirst /\ Stage > 0 /\ "sandbox_guard" \in settings.accepted
            => "sandbox_guard" \in audited)'
       /\ (AuditFirst /\ Stage > 1 => "permission_gate" \in audited)'
  <2>1. /\ AuditFirst /\ k > 0 /\ "sandbox_guard" \in settings.accepted
             => "sandbox_guard" \in audited
        /\ AuditFirst /\ k > 1 => "permission_gate" \in audited
    BY DEF LoadInv, k
  <2>2. AuditFirst' = AuditFirst /\ settings' = settings
    BY <1>1 DEF AuditFirst
  <2>3. name = "permission_gate" => name \in settings.accepted
    BY <1>6
  <2>. QED
    BY <1>4, <1>7, <2>1, <2>2, <2>3
<1>. QED
  <2>1. entries' \in Seq(Handlers) /\ Len(entries)' \in 0..6
    <3>1. entries \in Seq(Handlers)
      BY DEF LoadInv
    <3>2. Tail(entries) \in Seq(Handlers)
      BY <1>1, <3>1, HeadTailProperties
    <3>3. Len(entries') \in 0..6
      BY <1>2
    <3>. QED
      BY <1>1, <3>2, <3>3
  <2>2. (\A i \in 1..Len(entries) : entries[i] = settings.order[6 - Len(entries) + i])'
    BY <1>1, <1>2
  <2>3. ChainsAt(Stage)'
    BY <1>9, <1>11, <1>12, <1>13 DEF ChainsAt
  <2>. QED
    BY <1>1, <1>14, <2>1, <2>2, <2>3 DEF LoadInv

\* The observers come first.
LEMMA HooksKeep == LoadInv /\ LoadHooks => LoadInv'
<1> SUFFICES ASSUME LoadInv, LoadHooks PROVE LoadInv'
  OBVIOUS
<1>1. UNCHANGED <<settings, entries, audited>> /\ chain' = [e \in EventTypes |-> <<"observer">>]
  BY DEF LoadHooks
<1>2. entries = settings.order /\ Len(entries) = 6
  <2>1. chain["BEFORE_TOOL_CALL"] = <<>>
    BY DEF LoadHooks, EventTypes
  <2>2. \A n : BeforeCall(n) # <<>>
    BY DEF BeforeCall
  <2>3. entries = settings.order
    BY <2>1, <2>2 DEF LoadInv, ChainsAt
  <2>4. Len(Listed) = 6 /\ Len(LoggerLast) = 6
    BY DEF Listed, LoggerLast
  <2>. QED
    BY <2>3, <2>4, OrderIs
<1>3. Stage = 0 /\ Stage' = 0
  <2>1. entries # <<>>
    BY <1>2
  <2>. QED
    BY <1>1, <1>2, <2>1 DEF Stage, AuditFirst
<1>4. ChainsAt(0)'
  <2>1. <<"observer">> \in Seq(Handlers)
    BY DEF Handlers
  <2>. QED
    BY <1>1, <2>1 DEF ChainsAt, EventTypes, BeforeCall, AfterCall, AfterTurn
<1>5. ChainsAt(Stage)'
  BY <1>3, <1>4 DEF ChainsAt
<1>. QED
  BY <1>1, <1>3, <1>5 DEF LoadInv, AuditFirst

LEMMA LoadedStays == LoadInv /\ UNCHANGED loaded => LoadInv'
<1> SUFFICES ASSUME LoadInv, UNCHANGED loaded PROVE LoadInv'
  OBVIOUS
<1>1. UNCHANGED <<settings, entries, audited, chain>>
  BY DEF loaded
<1>2. Stage' = Stage /\ AuditFirst' = AuditFirst
  BY <1>1 DEF Stage, AuditFirst
<1>3. ChainsAt(Stage) => ChainsAt(Stage)'
  <2>1. /\ BeforeCall(Stage)' = BeforeCall(Stage) /\ AfterCall(Stage)' = AfterCall(Stage)
        /\ AfterTurn(Stage)' = AfterTurn(Stage)
    BY <1>1, <1>2 DEF BeforeCall, AfterCall, AfterTurn
  <2>. QED
    BY <1>1, <2>1 DEF ChainsAt
<1>. QED
  BY <1>1, <1>2, <1>3 DEF LoadInv

\* A tool call at one hook, whatever becomes of it: one more has begun and is on record, and
\* one more has failed if it is refused.
LEMMA BeforeToolCallIs ==
  ASSUME LoadInv, entries = <<>>, NEW g \in GuardStates,
         NEW tool \in Tools, NEW input \in Inputs
  PROVE  LET r == BeforeToolCall(g, tool, input)
             denied == Refused(r)
         IN /\ r.deny \in BOOLEAN /\ r.guards \in GuardStates
            /\ r.guards.begun = g.begun + 1
            /\ r.guards.ended = g.ended + denied
            /\ Counted(r.guards) = Counted(g) + denied
            /\ r.guards.turn = g.turn
            /\ AuditFirst => Recorded(r.guards) = Recorded(g) + 1
<1> DEFINE r == BeforeToolCall(g, tool, input)
           ctx == ToolContext(tool, input, "", TRUE)
           no == ToolContext(tool, input, "[DENIED]", FALSE)
           gate == Gate(g, "BEFORE_TOOL_CALL", ctx)
           after == Dispatch(gate.guards, "AFTER_TOOL_CALL", no)
           begun == [g EXCEPT !.begun = @ + 1]
<1>1. ctx \in Contexts /\ no \in Contexts
  <2>1. "" \in Outputs /\ "[DENIED]" \in Outputs
    BY GuardsAssumption, Zenon DEF Outputs
  <2>. QED
    BY <2>1 DEF Contexts, ToolContext
<1>2. no.tool \in Tools /\ no.success = FALSE
  BY DEF ToolContext
<1>3. r = [gate EXCEPT !.guards = IF gate.deny THEN after ELSE gate.guards]
  BY DEF BeforeToolCall
<1> HIDE DEF r, ctx, no
<1>4. /\ gate \in Results /\ OnlyAudits(begun, gate.guards)
      /\ AuditFirst => Recorded(gate.guards) = Recorded(g) + 1
  BY <1>1, GateBeforeCall
<1> HIDE DEF gate
<1>5. /\ gate.guards \in GuardStates /\ gate.deny \in BOOLEAN
      /\ r.deny = gate.deny
      /\ r.guards = IF gate.deny THEN after ELSE gate.guards
  BY <1>3, <1>4 DEF Results
<1>6. /\ gate.guards.begun = g.begun + 1 /\ gate.guards.ended = g.ended
      /\ gate.guards.turn = g.turn /\ Counted(gate.guards) = Counted(g)
  BY <1>4 DEF OnlyAudits, GuardStates, Counted, Failing
<1>7. /\ after \in GuardStates /\ after.begun = gate.guards.begun
      /\ after.ended = gate.guards.ended + 1 /\ Counted(after) = Counted(gate.guards) + 1
      /\ after.turn = gate.guards.turn /\ Recorded(after) = Recorded(gate.guards)
  BY <1>1, <1>2, <1>5, DispatchAfterCall
<1> HIDE DEF after
<1>8. g.ended \in Nat /\ Counted(g) \in Nat
  BY FailingIs DEF GuardStates
<1>9. CASE gate.deny
  BY <1>4, <1>5, <1>6, <1>7, <1>9 DEF r, Refused
<1>10. CASE ~gate.deny
  BY <1>4, <1>5, <1>6, <1>8, <1>10 DEF r, Refused
<1>. QED
  BY <1>5, <1>9, <1>10

\* A call that has been through k hooks.
Passed == [guards : GuardStates, denied : Nat]
PassedBy(k) ==
  {t \in Passed :
     /\ t.denied <= k
     /\ t.guards.begun = guards.begun + k /\ t.guards.ended = guards.ended + t.denied
     /\ Counted(t.guards) = Counted(guards) + t.denied
     /\ t.guards.turn = guards.turn
     /\ AuditFirst => Recorded(t.guards) = Recorded(guards) + k}

LEMMA ThroughIs ==
  ASSUME LoadInv, entries = <<>>, NEW t \in Passed,
         NEW tool \in Tools, NEW input \in Inputs
  PROVE  /\ Through(t, tool, input) \in Passed
         /\ \A k \in Nat : guards \in GuardStates /\ t \in PassedBy(k)
                           => Through(t, tool, input) \in PassedBy(k + 1)
<1> DEFINE r == BeforeToolCall(t.guards, tool, input)
           u == Through(t, tool, input)
<1>1. t.guards \in GuardStates /\ t.denied \in Nat
  BY DEF Passed
<1>2. /\ r.guards \in GuardStates
      /\ r.guards.begun = t.guards.begun + 1
      /\ r.guards.ended = t.guards.ended + Refused(r)
      /\ Counted(r.guards) = Counted(t.guards) + Refused(r)
      /\ r.guards.turn = t.guards.turn
      /\ AuditFirst => Recorded(r.guards) = Recorded(t.guards) + 1
  BY <1>1, BeforeToolCallIs
<1>3. Refused(r) \in 0..1
  BY DEF Refused
<1>4. u = [guards |-> r.guards, denied |-> t.denied + Refused(r)]
  BY DEF Through
<1> HIDE DEF r, u
<1>5. u \in Passed /\ u.guards = r.guards /\ u.denied = t.denied + Refused(r)
  BY <1>1, <1>2, <1>3, <1>4 DEF Passed
<1>6. ASSUME NEW k \in Nat, guards \in GuardStates, t \in PassedBy(k)
      PROVE  u \in PassedBy(k + 1)
  <2>1. /\ guards.begun \in Nat /\ guards.ended \in Nat /\ Counted(guards) \in Nat
        /\ Recorded(guards) \in Nat
    BY <1>6, FailingIs DEF GuardStates, Recorded
  <2>2. /\ t.denied <= k
        /\ t.guards.begun = guards.begun + k /\ t.guards.ended = guards.ended + t.denied
        /\ Counted(t.guards) = Counted(guards) + t.denied
        /\ t.guards.turn = guards.turn
        /\ AuditFirst => Recorded(t.guards) = Recorded(guards) + k
    BY <1>6 DEF PassedBy
  <2>3. /\ u.denied <= k + 1
        /\ u.guards.begun = guards.begun + (k + 1)
        /\ u.guards.ended = guards.ended + u.denied
        /\ Counted(u.guards) = Counted(guards) + u.denied
        /\ u.guards.turn = guards.turn
        /\ AuditFirst => Recorded(u.guards) = Recorded(guards) + (k + 1)
    BY <1>1, <1>2, <1>3, <1>5, <2>1, <2>2
  <2>. QED
    BY <1>5, <2>3 DEF PassedBy
<1>. QED
  BY <1>5, <1>6 DEF u

\* A tool call that goes through n hooks.
LEMMA ToolHooksAre ==
  ASSUME LoadInv, entries = <<>>, guards \in GuardStates,
         NEW tool \in Tools, NEW input \in Inputs, NEW n \in Nat
  PROVE  ToolHooks(tool, input, n) \in PassedBy(n)
<1> DEFINE start == [guards |-> guards, denied |-> 0]
           F == [t \in Passed |-> Through(t, tool, input)]
           Body(f) == [k \in 0..n |-> IF k = 0 THEN start ELSE Through(f[k - 1], tool, input)]
           after == CHOOSE f : f = Body(f)
           T == {k \in 0..n : after[k] \in PassedBy(k)}
<1>1. start \in Passed /\ start \in PassedBy(0)
  <2>1. /\ guards.begun \in Nat /\ guards.ended \in Nat /\ Counted(guards) \in Nat
        /\ Recorded(guards) \in Nat
    BY FailingIs DEF GuardStates, Recorded
  <2>2. start \in Passed /\ start.guards = guards /\ start.denied = 0
    BY DEF Passed
  <2>. QED
    BY <2>1, <2>2 DEF PassedBy
<1>2. ToolHooks(tool, input, n) = after[n]
  BY DEF ToolHooks
<1> HIDE DEF start
<1>3. F \in [Passed -> Passed]
  BY ThroughIs
<1>4. PICK h : Iteration(Passed, F, start, n, h)
  BY <1>1, <1>3, Iterates
<1>5. h = Body(h)
  <2>1. ASSUME NEW k \in 0..n PROVE h[k] = Body(h)[k]
    <3>1. CASE k = 0
      BY <1>4, <3>1 DEF Iteration
    <3>2. CASE k # 0
      <4>1. k \in 1..n /\ k - 1 \in 0..n /\ h[k - 1] \in Passed
        BY <1>4, <3>2 DEF Iteration
      <4>. QED
        BY <1>4, <3>2, <4>1 DEF Iteration
    <3>. QED
      BY <3>1, <3>2
  <2>2. h = [k \in 0..n |-> h[k]]
    BY <1>4 DEF Iteration
  <2>. QED
    BY <2>1, <2>2
<1>6. after = Body(after)
  <2> HIDE DEF Body
  <2>. QED
    BY <1>5
<1> HIDE DEF after, F
<1>7. 0 \in T /\ \A k \in 1..n : k - 1 \in T => k \in T
  <2>1. after[0] = start
    BY <1>6
  <2>2. ASSUME NEW k \in 1..n, after[k - 1] \in PassedBy(k - 1) PROVE after[k] \in PassedBy(k)
    <3>1. after[k] = Through(after[k - 1], tool, input)
      BY <1>6
    <3>2. after[k - 1] \in Passed /\ k - 1 \in Nat /\ (k - 1) + 1 = k
      BY <2>2 DEF PassedBy
    <3>. HIDE DEF Body
    <3>3. Through(after[k - 1], tool, input) \in PassedBy((k - 1) + 1)
      BY <2>2, <3>2, ThroughIs
    <3>. QED
      BY <3>1, <3>2, <3>3
  <2>. QED
    BY <1>1, <2>1, <2>2
<1> HIDE DEF T
<1>8. n \in T
  BY <1>7, NatUpTo
<1>. QED
  BY <1>2, <1>8 DEF T

-----------------------------------------------------------------------------
(***************************************************************************)
(* The invariant                                                           *)
(***************************************************************************)

LEMMA AccountsAre == Accounts <=> RefusalsAreTraced /\ CallsAreAudited /\ RefusalsAreCounted
BY DEF Accounts, RefusalsAreTraced, CallsAreAudited, RefusalsAreCounted, AuditFirst,
       Recorded, Counted, Failing

LEMMA Initially == Init => TypeOK /\ GuardsInv
<1> SUFFICES ASSUME Init PROVE TypeOK /\ GuardsInv
  OBVIOUS
<1>1. guards = [begun |-> 0, ended |-> 0, audit |-> 0, tool |-> <<>>, turn |-> <<>>,
                failures |-> [t \in Tools |-> 0], retries |-> 0, recovered |-> 0,
                unrecorded |-> 0]
  BY DEF Init
<1>2. <<>> \in ToolMemory /\ <<>> \in TurnMemory /\ [t \in Tools |-> 0] \in Counters
  BY EmptySeq DEF ToolMemory, TurnMemory, Counters
<1>3. guards \in GuardStates
  BY <1>1, <1>2 DEF GuardStates
<1>4. TypeOK
  <2>1. turn \in Turns
    BY DEF Init, Turns, Phases
  <2>2. <<>> \in Seq(Texts)
    BY EmptySeq
  <2>. QED
    BY <1>3, <2>1, <2>2 DEF Init, TypeOK
<1>5. Accounts
  <2>1. Failing(guards) = {}
    BY <1>1 DEF Failing
  <2>2. Cardinality(Failing(guards)) = 0
    BY <2>1, FS_EmptySet
  <2>3. Counted(guards) = 0 /\ Recorded(guards) = 0
    BY <1>1, <2>2 DEF Counted, Recorded
  <2>. QED
    BY <1>1, <2>3 DEF Init, Accounts
<1>6. MemoryInv
  <2>1. Kept(<<>>) = <<>>
    <3>1. 2 * Threshold \in Nat \ {0}
      BY ThresholdType
    <3>2. ASSUME NEW s \in Seq(Texts), Len(s) = 0 PROVE Kept(s) = <<>>
      <4> DEFINE n == 2 * Threshold
                 l == Latest(s, n)
      <4>1. n \in Nat \ {0} /\ Kept(s) = l
        BY <3>1 DEF Kept
      <4> HIDE DEF n
      <4>2. l \in Seq(Texts) /\ Len(l) = IF Len(s) > n THEN n ELSE Len(s)
        BY <4>1, LatestIs
      <4> HIDE DEF l
      <4>. QED
        BY <3>2, <4>1, <4>2, EmptySeq
    <3>3. <<>> \in Seq(Texts) /\ Len(<<>>) = 0
      OBVIOUS
    <3>. QED
      BY <3>2, <3>3, Zenon
  <2>. QED
    BY <1>1, <2>1 DEF Init, MemoryInv
<1>7. LoadInv
  <2>1. entries = settings.order /\ settings.order \in {Listed, LoggerLast}
    <3>1. Tail(Listed) = <<"sandbox_guard", "permission_gate", "cost_guard", "loop_detector",
                           "retry_tracker">>
          /\ Head(Listed) = "audit_logger"
      BY DEF Listed
    <3>2. Append(Tail(Listed), Head(Listed)) = LoggerLast
      BY <3>1, AppendToFive, Zenon DEF LoggerLast
    <3>. QED
      BY <3>2 DEF Init
  <2>2. /\ Listed \in Seq(Handlers) /\ Len(Listed) = 6
        /\ LoggerLast \in Seq(Handlers) /\ Len(LoggerLast) = 6
    <3>1. /\ "audit_logger" \in Handlers /\ "sandbox_guard" \in Handlers
          /\ "permission_gate" \in Handlers /\ "cost_guard" \in Handlers
          /\ "loop_detector" \in Handlers /\ "retry_tracker" \in Handlers
      BY DEF Handlers, Listed, ToSet
    <3>. QED
      BY <3>1 DEF Listed, LoggerLast
  <2>3. entries \in Seq(Handlers) /\ Len(entries) = 6
    BY <2>1, <2>2
  <2>4. \A i \in 1..Len(entries) : entries[i] = settings.order[6 - Len(entries) + i]
    BY <2>1, <2>3
  <2>5. Stage = 0
    <3>1. entries # <<>>
      BY <2>3
    <3>. QED
      BY <2>3, <3>1 DEF Stage
  <2>6. /\ settings.order \in {Listed, Append(Tail(Listed), Head(Listed))}
        /\ settings.accepted \in {ToSet(Listed), ToSet(Listed) \ {"sandbox_guard"}}
        /\ settings.broke \in BOOLEAN
    BY DEF Init
  <2>7. chain = [e \in EventTypes |-> <<>>]
    BY DEF Init
  <2>. QED
    BY <2>1, <2>3, <2>4, <2>5, <2>6, <2>7 DEF LoadInv
<1>8. ReadyInv
  BY DEF Init, ReadyInv
<1>. QED
  BY <1>4, <1>5, <1>6, <1>7, <1>8 DEF GuardsInv

\* A tool call of a session, through the hooks of n crews: the accounts, which the observers,
\* the audit log and the retry tracker keep, go up together.
LEMMA CallKeeps ==
  ASSUME TypeOK, GuardsInv, entries = <<>>,
         NEW s \in Sessions, NEW tool \in Tools, NEW input \in Inputs, NEW n \in Nat \ {0},
         NEW phase \in Phases, NEW refusal \in Phases,
         Call(s, tool, input, n, phase, refusal)
  PROVE  (TypeOK /\ GuardsInv)'
<1> DEFINE r == ToolHooks(tool, input, n)
           refusals == r.denied
           to == IF refusals > 0 THEN refusal ELSE phase
           pending == tool # "agent_execution" /\ (turn[s].pending \/ refusals > 0)
<1>1. r \in PassedBy(n)
  BY ToolHooksAre DEF TypeOK, GuardsInv
<1>2. /\ guards' = r.guards /\ Goto(s, to, pending) /\ Count(n, refusals)
      /\ UNCHANGED <<loaded, outputs>>
  BY DEF Call
<1>3. to \in Phases
  OBVIOUS
<1>4. pending \in BOOLEAN
  OBVIOUS
<1> HIDE DEF r, to, pending
<1>5. /\ r.guards \in GuardStates /\ refusals \in Nat
      /\ r.guards.begun = guards.begun + n /\ r.guards.ended = guards.ended + refusals
      /\ Counted(r.guards) = Counted(guards) + refusals
      /\ r.guards.turn = guards.turn
      /\ AuditFirst => Recorded(r.guards) = Recorded(guards) + n
  BY <1>1 DEF PassedBy, Passed
<1> HIDE DEF refusals
<1>6. /\ calls \in Nat /\ refused \in Nat /\ again.all \in Nat /\ again.refused \in Nat
      /\ turn \in Turns /\ outputs \in Seq(Texts)
  BY DEF TypeOK
<1>7. /\ calls' = calls + 1 /\ again'.all = again.all + (n - 1)
      /\ calls' \in Nat /\ refused' \in Nat /\ again' \in [all : Nat, refused : Nat]
      /\ refused' + again'.refused = refused + again.refused + refusals
  <2>1. /\ calls' = calls + 1 /\ refused' = IF refusals > 0 THEN refused + 1 ELSE refused
        /\ again' = [all |-> again.all + (n - 1),
                     refused |-> again.refused + (IF refusals > 0 THEN refusals - 1 ELSE 0)]
    BY <1>2 DEF Count
  <2>. QED
    BY <1>5, <1>6, <2>1
<1>8. outputs' = outputs
  BY <1>2
<1>9. turn' \in Turns
  BY <1>2, <1>3, <1>4, <1>6 DEF Goto, Turns
<1>10. TypeOK'
  BY <1>2, <1>5, <1>6, <1>7, <1>8, <1>9 DEF TypeOK
<1>11. Accounts'
  <2>1. /\ guards.begun = calls + again.all /\ guards.ended = refused + again.refused
        /\ AuditFirst => Recorded(guards) = calls + again.all
        /\ refused + again.refused = Counted(guards)
    BY DEF GuardsInv, Accounts
  <2> DEFINE all == calls + again.all
             some == refused + again.refused
  <2>2. all \in Nat /\ some \in Nat
    BY <1>6
  <2>3. calls' + again'.all = all + n /\ refused' + again'.refused = some + refusals
    <3>1. \A a, b \in Nat : (a + 1) + (b + (n - 1)) = (a + b) + n
      OBVIOUS
    <3>2. (calls + 1) + (again.all + (n - 1)) = all + n
      BY <1>6, <3>1
    <3>3. calls' + again'.all = (calls + 1) + (again.all + (n - 1))
      BY <1>7, Zenon
    <3>. QED
      BY <1>7, <3>2, <3>3, Zenon
  <2>4. guards' = r.guards
    BY <1>2
  <2>5. /\ guards'.begun = calls' + again'.all /\ guards'.ended = refused' + again'.refused
        /\ refused' + again'.refused = Counted(guards')
    BY <1>5, <2>1, <2>3, <2>4
  <2>6. AuditFirst => Recorded(guards') = calls' + again'.all
    BY <1>5, <2>1, <2>3, <2>4
  <2>7. AuditFirst' = AuditFirst
    BY <1>2 DEF loaded, AuditFirst
  <2>. QED
    BY <2>5, <2>6, <2>7 DEF Accounts
<1>12. MemoryInv'
  BY <1>2, <1>5, <1>8 DEF GuardsInv, MemoryInv
<1>13. LoadInv'
  BY <1>2, LoadedStays DEF GuardsInv
<1>14. ReadyInv'
  BY <1>2 DEF ReadyInv, loaded
<1>. QED
  BY <1>10, <1>11, <1>12, <1>13, <1>14 DEF GuardsInv

\* What the loop detector is told joins its memory as it joins the history of outputs.
LEMMA RemembersIs ==
  ASSUME TypeOK, MemoryInv, NEW text \in Texts
  PROVE  LET h == Remembers(guards, text)
         IN /\ h \in GuardStates /\ h.begun = guards.begun /\ h.ended = guards.ended
            /\ Recorded(h) = Recorded(guards) /\ Counted(h) = Counted(guards)
            /\ h.turn = Kept(Append(outputs, text))
<1> DEFINE h == Remembers(guards, text)
           memory == Kept(Append(guards.turn, text))
<1>1. guards.turn = Kept(outputs) /\ outputs \in Seq(Texts) /\ guards \in GuardStates
  BY DEF MemoryInv, TypeOK
<1>2. memory = Kept(Append(outputs, text))
  BY <1>1, KeptIs
<1>3. memory \in TurnMemory
  <2>1. Append(outputs, text) \in Seq(Texts)
    BY <1>1
  <2>. QED
    BY <1>2, <2>1, KeptIs DEF TurnMemory
<1>4. h = [guards EXCEPT !.turn = memory]
  BY <1>1 DEF Remembers, GuardStates
<1> HIDE DEF h, memory
<1>5. h \in GuardStates /\ h.turn = memory
  BY <1>1, <1>3, <1>4 DEF GuardStates
<1>6. h.begun = guards.begun /\ h.ended = guards.ended
  BY <1>1, <1>4, <1>5 DEF GuardStates
<1>7. Recorded(h) = Recorded(guards) /\ Counted(h) = Counted(guards)
  BY <1>1, <1>4 DEF Recorded, Counted, Failing, GuardStates
<1>. QED
  BY <1>2, <1>5, <1>6, <1>7 DEF h

\* A step that leaves the accounts alone, but may be told to the loop detector.
LEMMA OtherStepsKeep ==
  ASSUME TypeOK, GuardsInv,
         turn' \in Turns,
         guards' \in GuardStates, outputs' \in Seq(Texts),
         guards'.begun = guards.begun,
         guards'.ended = guards.ended, Counted(guards') = Counted(guards),
         Recorded(guards') = Recorded(guards), guards'.turn = Kept(outputs'),
         LoadInv', ReadyInv', UNCHANGED <<settings, counts>>
  PROVE  (TypeOK /\ GuardsInv)'
<1>1. TypeOK'
  BY DEF TypeOK, counts
<1>2. Accounts'
  BY DEF GuardsInv, Accounts, AuditFirst, counts
<1>. QED
  BY <1>1, <1>2 DEF GuardsInv, MemoryInv

LEMMA TellingKeeps ==
  ASSUME TypeOK, GuardsInv, NEW text \in Texts,
         turn' \in Turns,
         guards' = Remembers(guards, text), outputs' = Append(outputs, text),
         LoadInv', ReadyInv', UNCHANGED <<settings, counts>>
  PROVE  (TypeOK /\ GuardsInv)'
<1>1. outputs' \in Seq(Texts)
  BY DEF TypeOK
<1>. QED
  BY <1>1, RemembersIs, OtherStepsKeep DEF GuardsInv

\* Each step keeps the invariant.
LEMMA Inductive == TypeOK /\ GuardsInv /\ [Next]_vars => (TypeOK /\ GuardsInv)'
<1> SUFFICES ASSUME TypeOK, GuardsInv, [Next]_vars PROVE (TypeOK /\ GuardsInv)'
  OBVIOUS
<1>1. /\ guards \in GuardStates /\ turn \in Turns /\ outputs \in Seq(Texts)
      /\ LoadInv /\ ReadyInv /\ guards.turn = Kept(outputs)
  BY DEF TypeOK, GuardsInv, MemoryInv
<1>2. ASSUME NEW s \in Sessions, NEW phase \in Phases, NEW pending \in BOOLEAN, Goto(s, phase, pending)
      PROVE  turn' \in Turns
  BY <1>1, <1>2 DEF Goto, Turns
<1>3. \A s \in Sessions : turn[s].phase # "idle" => entries = <<>>
  BY <1>1 DEF ReadyInv
<1>4. UNCHANGED loaded => LoadInv' /\ UNCHANGED settings /\ entries' = entries
  BY <1>1, LoadedStays DEF loaded
<1>5. entries = <<>> /\ UNCHANGED loaded => ReadyInv'
  BY <1>4 DEF ReadyInv
<1>6. CASE LoadHooks
  <2>1. LoadInv'
    BY <1>1, <1>6, HooksKeep
  <2>2. UNCHANGED <<settings, entries, guards, turn, counts, outputs>>
    BY <1>6 DEF LoadHooks
  <2>. QED
    BY <1>1, <2>1, <2>2, OtherStepsKeep DEF ReadyInv
<1>7. CASE LoadStrategy
  <2>1. LoadInv'
    BY <1>1, <1>7, LoadKeeps
  <2>2. UNCHANGED <<settings, guards, turn, counts, outputs>> /\ entries # <<>>
    BY <1>7 DEF LoadStrategy
  <2>3. ReadyInv'
    BY <1>3, <2>2 DEF ReadyInv
  <2>. QED
    BY <1>1, <2>1, <2>2, <2>3, OtherStepsKeep
<1>8. ASSUME NEW s \in Sessions, NEW input \in Inputs, Preflight(s, input)
      PROVE  (TypeOK /\ GuardsInv)'
  <2>1. entries = <<>> /\ Call(s, "agent_execution", input, 1, "agent", "refused")
    BY <1>8 DEF Preflight
  <2>2. "agent" \in Phases /\ "refused" \in Phases /\ "agent_execution" \in Tools
    BY DEF Phases, Tools
  <2>. QED
    BY <2>1, <2>2, CallKeeps
<1>9. ASSUME NEW s \in Sessions, NEW tool \in Tools, NEW input \in Inputs,
             CallTool(s, tool, input)
      PROVE  (TypeOK /\ GuardsInv)'
  <2> DEFINE n == Cardinality(InFlight)
  <2>1. turn[s].phase \in {"agent", "skill"} /\ Call(s, tool, input, n, "skill", "skill")
    BY <1>9 DEF CallTool, Runs
  <2>2. n \in Nat \ {0}
    <3>1. InFlight \subseteq Sessions /\ s \in InFlight /\ IsFiniteSet(Sessions)
      BY <2>1, GuardsAssumption DEF InFlight
    <3>2. IsFiniteSet(InFlight)
      BY <3>1, FS_Subset
    <3>. QED
      BY <3>1, <3>2, FS_CardinalityType, FS_EmptySet
  <2> HIDE DEF n
  <2>3. entries = <<>> /\ "skill" \in Phases
    BY <1>3, <2>1 DEF Phases
  <2>. QED
    BY <2>1, <2>2, <2>3, CallKeeps
<1>10. ASSUME NEW s \in Sessions, NEW text \in Texts, Step(s, text)
       PROVE  (TypeOK /\ GuardsInv)'
  <2> DEFINE ctx == TurnContext(text)
             gate == Gate(guards, "AFTER_TURN", ctx)
             outer == IF turn[s].phase = "skill" THEN "agent" ELSE "refused"
             phase == IF turn[s].pending \/ gate.deny THEN outer ELSE turn[s].phase
  <2>1. /\ turn[s].phase # "idle" /\ phase \in Phases
        /\ guards' = gate.guards /\ Goto(s, phase, FALSE)
        /\ Said(text, ~settings.broke) /\ UNCHANGED <<loaded, counts>>
    BY <1>1, <1>10 DEF Step, Runs, Turns, Phases
  <2>2. ctx \in Contexts /\ ctx.output = text
    BY DEF TurnContext, ToolContext, Contexts, Outputs, Inputs
  <2>3. entries = <<>> /\ LoadInv' /\ ReadyInv' /\ UNCHANGED settings
    BY <1>3, <1>4, <1>5, <2>1
  <2>4. turn' \in Turns
    BY <1>2, <2>1 DEF Phases
  <2> HIDE DEF ctx
  <2>5. gate.guards = IF settings.broke THEN guards ELSE Remembers(guards, text)
    BY <1>1, <2>2, <2>3, AfterTurnIs
  <2> HIDE DEF gate
  <2>6. CASE settings.broke
    <3>1. guards' = guards /\ outputs' = outputs
      BY <2>1, <2>5, <2>6 DEF Said
    <3>. QED
      BY <1>1, <2>1, <2>3, <2>4, <3>1, OtherStepsKeep
  <2>7. CASE ~settings.broke
    <3>1. guards' = Remembers(guards, text) /\ outputs' = Append(outputs, text)
      BY <2>1, <2>5, <2>7 DEF Said
    <3>. QED
      BY <2>1, <2>3, <2>4, <3>1, TellingKeeps
  <2>. QED
    BY <2>6, <2>7
<1>11. ASSUME NEW s \in Sessions, NEW text \in Texts, Reply(s, text)
       PROVE  (TypeOK /\ GuardsInv)'
  <2> DEFINE ctx == ToolContext("agent_execution", "clean", text, TRUE)
  <2>1. /\ turn[s].phase = "agent" /\ guards' = Dispatch(guards, "AFTER_TOOL_CALL", ctx)
        /\ Goto(s, "answered", FALSE) /\ UNCHANGED <<loaded, counts, outputs>>
    BY <1>11 DEF Reply, Runs
  <2>2. ctx \in Contexts /\ ctx.tool \in Tools /\ ctx.success = TRUE
    BY DEF ToolContext, Contexts, Outputs, Inputs, Tools
  <2>3. entries = <<>> /\ LoadInv' /\ ReadyInv' /\ UNCHANGED settings
    BY <1>3, <1>4, <1>5, <2>1
  <2>4. turn' \in Turns
    BY <1>2, <2>1 DEF Phases
  <2> HIDE DEF ctx
  <2>5. /\ guards' \in GuardStates /\ guards'.begun = guards.begun
        /\ guards'.ended = guards.ended + 0 /\ Counted(guards') = Counted(guards) + 0
        /\ guards'.turn = guards.turn /\ Recorded(guards') = Recorded(guards)
    BY <1>1, <2>1, <2>2, <2>3, DispatchAfterCall
  <2>6. guards'.ended = guards.ended /\ Counted(guards') = Counted(guards)
    BY <1>1, <2>5, FailingIs DEF GuardStates
  <2>. QED
    BY <1>1, <2>1, <2>3, <2>4, <2>5, <2>6, OtherStepsKeep
<1>12. ASSUME NEW s \in Sessions, EndTurn(s)
       PROVE  (TypeOK /\ GuardsInv)'
  <2> DEFINE ctx == TurnContext("")
  <2>1. /\ turn[s].phase # "idle" /\ guards' = Dispatch(guards, "AFTER_TURN", ctx)
        /\ Goto(s, "idle", FALSE) /\ Said("", TRUE) /\ UNCHANGED <<loaded, counts>>
    BY <1>12 DEF EndTurn, Runs
  <2>2. "" \in Texts
    BY GuardsAssumption, Zenon
  <2>3. ctx \in Contexts /\ ctx.output = ""
    BY <2>2 DEF TurnContext, ToolContext, Contexts, Outputs, Inputs
  <2>4. entries = <<>> /\ LoadInv' /\ ReadyInv' /\ UNCHANGED settings
    BY <1>3, <1>4, <1>5, <2>1
  <2>5. turn' \in Turns
    BY <1>2, <2>1 DEF Phases
  <2> HIDE DEF ctx
  <2>6. guards' = Remembers(guards, "") /\ outputs' = Append(outputs, "")
    BY <1>1, <2>1, <2>3, <2>4, AfterTurnIs DEF Said
  <2>7. UNCHANGED <<settings, counts>>
    BY <2>1, <2>4
  <2>. QED
    BY <2>2, <2>4, <2>5, <2>6, <2>7, TellingKeeps, Zenon
<1>13. ASSUME NEW s \in Sessions, TurnFails(s)
       PROVE  (TypeOK /\ GuardsInv)'
  <2>1. /\ turn[s].phase # "idle" /\ Goto(s, "idle", FALSE)
        /\ UNCHANGED <<loaded, guards, counts, outputs>>
    BY <1>13 DEF TurnFails, Runs
  <2>2. entries = <<>> /\ LoadInv' /\ ReadyInv' /\ UNCHANGED settings
    BY <1>3, <1>4, <1>5, <2>1
  <2>3. turn' \in Turns
    BY <1>2, <2>1 DEF Phases
  <2>. QED
    BY <1>1, <2>1, <2>2, <2>3, OtherStepsKeep
<1>14. ASSUME NEW s \in Sessions, SkillEnds(s)
       PROVE  (TypeOK /\ GuardsInv)'
  <2>1. /\ turn[s].phase # "idle" /\ Goto(s, "agent", turn[s].pending)
        /\ UNCHANGED <<loaded, guards, counts, outputs>>
    BY <1>14 DEF SkillEnds
  <2>2. entries = <<>> /\ LoadInv' /\ ReadyInv' /\ UNCHANGED settings
    BY <1>3, <1>4, <1>5, <2>1
  <2>3. turn[s].pending \in BOOLEAN
    BY <1>1 DEF Turns
  <2>4. turn' \in Turns
    BY <1>2, <2>1, <2>3 DEF Phases
  <2>. QED
    BY <1>1, <2>1, <2>2, <2>4, OtherStepsKeep
<1>15. CASE UNCHANGED vars
  <2>1. /\ UNCHANGED loaded /\ UNCHANGED <<guards, turn, counts, outputs>>
    BY <1>15 DEF vars, loaded, counts
  <2>. QED
    BY <1>1, <1>4, <2>1, OtherStepsKeep DEF ReadyInv
<1>. QED
  BY <1>6, <1>7, <1>8, <1>9, <1>10, <1>11, <1>12, <1>13, <1>15, <1>14 DEF Next, SessionStep

\* The invariant holds in every state.
THEOREM GuardsCorrect == Spec => [](TypeOK /\ GuardsInv)
BY Initially, Inductive, PTL DEF Spec

\* Whatever the strategies decide and in whichever order hooks.yaml lists them: the
\* observers have seen every tool call begin, and every refused one end (registry.py,
\* crew_adapter.py:on_before_tool_call), once for each crew that was in flight.
THEOREM RefusalsReachObservers == Spec => []RefusalsAreTraced
<1>1. GuardsInv => RefusalsAreTraced
  BY AccountsAre DEF GuardsInv
<1>. QED
  BY <1>1, GuardsCorrect, PTL

\* With the audit logger first in hooks.yaml, every tool call leaves one audit event for each
\* crew whose hook it goes through, itself and those of the other sessions in flight, except
\* those refused for a null byte: the loader gives the logger to the strategies after it, and
\* the sandbox guard records just what does not reach the permission gate.
THEOREM AuditIsComplete == Spec => []CallsAreAudited
<1>1. GuardsInv => CallsAreAudited
  BY AccountsAre DEF GuardsInv
<1>. QED
  BY <1>1, GuardsCorrect, PTL

\* The retry tracker's retries, recoveries and open failures add up to the refusals, whatever
\* the loop detector in front of it decides: one for a refused call when crews run one at a
\* time, and one more for each other crew in flight.
THEOREM RetriesAddUp == Spec => []RefusalsAreCounted
<1>1. GuardsInv => RefusalsAreCounted
  BY AccountsAre DEF GuardsInv
<1>. QED
  BY <1>1, GuardsCorrect, PTL

\* The loop detector, which keeps twice Threshold outputs, decides as if it kept them all.
THEOREM LoopsAreFound == Spec => []ForgettingHidesNoLoop
<1>1. TypeOK /\ GuardsInv => ForgettingHidesNoLoop
  BY RepeatsKept DEF TypeOK, GuardsInv, MemoryInv, ForgettingHidesNoLoop
<1>. QED
  BY <1>1, GuardsCorrect, PTL

=============================================================================
