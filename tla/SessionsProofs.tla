---------------------------- MODULE SessionsProofs ----------------------------
(***************************************************************************)
(* Proofs about Sessions for any keys, turns, commands, cache size, number *)
(* of restarts and number of writes that raise: the counts of the index    *)
(* agree with the files, and the index keeps what it has promised.         *)
(*                                                                         *)
(* CountTracksFile is not inductive: it says nothing while a turn is       *)
(* between its first line and its count.  Bounded and Exact do, by         *)
(* counting the lines that are written and not counted yet.  Bounded must  *)
(* hold of index.json as well as of memory, because a restart may go back  *)
(* to an older one; Exact adds the appends that raised between their       *)
(* lines.  Both need that a new session starts from nothing (Unborn).      *)
(***************************************************************************)
EXTENDS Sessions, TLAPS, FiniteSetTheorems

IndexType ==
  [active : [Keys -> SessionIds \cup {None}], sessions : [Keys -> SUBSET SessionIds],
   count : [SessionIds -> Nat], verbose : SUBSET SessionIds]

Underway == {"opened", "ready", "waiting", "writing", "half", "written"}

\* index.json is what is in memory, unless the last save raised.
Domains ==
  /\ index \in IndexType
  /\ stored \in IndexType
  /\ unsaved \in BOOLEAN
  /\ ~unsaved => stored = index
  /\ files \in [SessionIds -> Seq(Lines)]
  /\ pc \in [Calls -> PcStates]
  /\ session \in [Turns -> SessionIds \cup {None}]
  /\ crashes \in Nat
  /\ \A t \in Turns : pc[t] \in Underway => session[t] \in SessionIds

\* Nothing is known of a session whose creator has not run.
Unknown(known, s) == (\A k \in Keys : known.active[k] # s) /\ known.count[s] = 0
Blank(s) ==
  /\ Unknown(index, s) /\ Unknown(stored, s)
  /\ files[s] = <<>> /\ \A t \in Turns : session[t] # s
Unborn == \A s \in SessionIds : pc[s] = "idle" => Blank(s)

Half(s) == {t \in Turns : session[t] = s /\ pc[t] = "half"}
Written(s) == {t \in Turns : session[t] = s /\ pc[t] = "written"}
Uncounted(s) == Cardinality(Half(s)) + 2 * Cardinality(Written(s))

Bounded ==
  \A s \in SessionIds : /\ index.count[s] + Uncounted(s) <= Len(files[s])
                        /\ stored.count[s] + Uncounted(s) <= Len(files[s])

Tracked(s) == Len(files[s]) = index.count[s] + Uncounted(s) + Cardinality(CutShort(s))
Exact == crashes = 0 => \A s \in SessionIds : Active(s) => Tracked(s)

IInv == Domains /\ Unborn /\ Bounded /\ Exact

-----------------------------------------------------------------------------
LEMMA FiniteTurns ==
  ASSUME NEW s
  PROVE  /\ IsFiniteSet(Half(s)) /\ IsFiniteSet(Written(s)) /\ IsFiniteSet(CutShort(s))
         /\ Cardinality(Half(s)) \in Nat /\ Cardinality(Written(s)) \in Nat
         /\ Cardinality(CutShort(s)) \in Nat
         /\ Uncounted(s) \in Nat
<1>1. Half(s) \subseteq Turns /\ Written(s) \subseteq Turns /\ CutShort(s) \subseteq Turns
  BY DEF Half, Written, CutShort
<1>2. IsFiniteSet(Half(s)) /\ IsFiniteSet(Written(s)) /\ IsFiniteSet(CutShort(s))
  BY <1>1, SessionsAssumption, FS_Subset
<1>3. /\ Cardinality(Half(s)) \in Nat /\ Cardinality(Written(s)) \in Nat
      /\ Cardinality(CutShort(s)) \in Nat
  BY <1>2, FS_CardinalityType
<1> QED BY <1>2, <1>3 DEF Uncounted

LEMMA WithSessionIs ==
  ASSUME index \in IndexType, NEW k \in Keys, NEW s \in SessionIds
  PROVE  /\ WithSession(k, s) \in IndexType
         /\ WithSession(k, s).count = index.count
         /\ WithSession(k, s).active = [index.active EXCEPT ![k] = s]
         /\ WithSession(k, s).sessions = [index.sessions EXCEPT ![k] = @ \cup {s}]
BY DEF IndexType, WithSession

LEMMA CountedIs ==
  ASSUME index \in IndexType, NEW s \in SessionIds
  PROVE  /\ Counted(s) \in IndexType
         /\ Counted(s).active = index.active
         /\ Counted(s).sessions = index.sessions
         /\ Counted(s).count = [index.count EXCEPT ![s] = @ + 2]
BY DEF IndexType, Counted

LEMMA EmptyIndexIs ==
  /\ EmptyIndex \in IndexType
  /\ \A k \in Keys : EmptyIndex.active[k] = None
  /\ \A s \in SessionIds : EmptyIndex.count[s] = 0
BY DEF IndexType, EmptyIndex

LEMMA InitHolds == Init => IInv
<1> SUFFICES ASSUME Init PROVE IInv OBVIOUS
<1>1. Domains
  <2>1. \A t \in Turns : t \in Calls BY DEF Calls, SessionIds
  <2>2. unsaved \in BOOLEAN /\ (~unsaved => stored = index) BY DEF Init
  <2>3. index \in IndexType /\ stored \in IndexType BY EmptyIndexIs DEF Init
  <2>4. files \in [SessionIds -> Seq(Lines)] BY DEF Init
  <2>5. /\ pc \in [Calls -> PcStates] /\ session \in [Turns -> SessionIds \cup {None}]
        /\ crashes \in Nat
        /\ \A t \in Turns : pc[t] \notin Underway
    BY <2>1 DEF Init, PcStates, Underway
  <2> QED BY <2>2, <2>3, <2>4, <2>5 DEF Domains
<1>2. \A s \in SessionIds : ~Active(s) /\ Unknown(index, s) /\ Unknown(stored, s)
  BY EmptyIndexIs, SessionsAssumption DEF Init, Active, Unknown
<1>3. Unborn
  BY <1>2, SessionsAssumption DEF Init, Unborn, Blank
<1>4. Bounded
  <2> SUFFICES ASSUME NEW s \in SessionIds
               PROVE  /\ index.count[s] + Uncounted(s) <= Len(files[s])
                      /\ stored.count[s] + Uncounted(s) <= Len(files[s])
    BY DEF Bounded
  <2>1. \A t \in Turns : pc[t] = "idle" BY DEF Init, Calls, SessionIds
  <2>2. Half(s) = {} /\ Written(s) = {} BY <2>1 DEF Half, Written
  <2>3. Uncounted(s) = 0 BY <2>2, FS_EmptySet DEF Uncounted
  <2>4. index.count[s] = 0 /\ stored.count[s] = 0 /\ files[s] = <<>> BY EmptyIndexIs DEF Init
  <2> QED BY <2>3, <2>4
<1>5. Exact BY <1>2 DEF Exact
<1> QED BY <1>1, <1>3, <1>4, <1>5 DEF IInv

-----------------------------------------------------------------------------
(***************************************************************************)
(* What a step does to the index, and which call moves.                    *)
(***************************************************************************)

SameCounts == /\ index'.active = index.active /\ index'.count = index.count
              /\ index'.sessions = index.sessions

Cleared == \E c \in ClearCalls : pc[c] = "idle" /\ pc'[c] \in {"done", "failed"}

Changed ==
  \/ index' \in IndexType /\ SameCounts
  \/ \E k \in Keys, c \in SessionIds :
       pc[c] = "idle" /\ pc'[c] # "idle" /\ UNCHANGED files /\ index' = WithSession(k, c)
  \/ \E t \in Turns : AppendDone(t) /\ Active(session[t]) /\ index' = Counted(session[t])
  \/ Cleared /\ index' = EmptyIndex

Saved == stored' \in {stored, index'} /\ unsaved' \in BOOLEAN /\ (~unsaved' => stored' = index')

LEMMA SaveIs ==
  ASSUME NEW new, NEW ok \in BOOLEAN, Save(new, ok)
  PROVE  index' = new /\ Saved
BY DEF Save, Saved

LEMMA ChangeIs ==
  ASSUME Domains, NEW c \in Calls, NEW new, ChangeIndex(c, new)
  PROVE  /\ index' = new /\ Saved
         /\ \E v \in {"done", "failed"} : pc' = [pc EXCEPT ![c] = v]
         /\ pc'[c] \in {"done", "failed"}
<1>1. PICK ok \in BOOLEAN : Save(new, ok) /\ pc' = [pc EXCEPT ![c] = IF ok THEN "done" ELSE "failed"]
  BY DEF ChangeIndex
<1> QED BY <1>1, SaveIs DEF Domains

LEMMA CallsAre ==
  /\ \A t \in Turns : t \in Calls /\ t \in SessionIds /\ KeyOf[t] \in Keys
  /\ \A n \in NewCmds : n \in Calls /\ n \in SessionIds /\ KeyOf[n] \in Keys
  /\ \A v \in VerboseCmds : v \in Calls /\ KeyOf[v] \in Keys
  /\ \A c \in ClearCalls : c \in Calls
BY SessionsAssumption DEF Calls, SessionIds

LEMMA IndexMoves ==
  ASSUME Domains, Next, ~Crash
  PROVE  Changed /\ Saved
<1>1. ASSUME UNCHANGED indexVars PROVE Changed /\ Saved
  BY <1>1 DEF indexVars, Domains, Changed, SameCounts, Saved
<1>2. ASSUME NEW t \in Turns, GetOrCreate(t) PROVE Changed /\ Saved
  <2>1. t \in SessionIds /\ t \in Calls /\ KeyOf[t] \in Keys BY CallsAre
  <2>2. pc[t] = "idle" /\ pc'[t] # "idle" /\ UNCHANGED files
    BY <1>2, <2>1 DEF GetOrCreate, Domains, fileVars
  <2>3. UNCHANGED indexVars \/ \E ok \in BOOLEAN : Save(WithSession(KeyOf[t], t), ok)
    BY <1>2 DEF GetOrCreate
  <2> QED BY <1>1, <2>1, <2>2, <2>3, SaveIs DEF Changed
<1>3. ASSUME NEW n \in NewCmds, CreateNewSession(n) PROVE Changed /\ Saved
  <2>1. n \in SessionIds /\ n \in Calls /\ KeyOf[n] \in Keys BY CallsAre
  <2>2. pc[n] = "idle" /\ UNCHANGED files /\ ChangeIndex(n, WithSession(KeyOf[n], n))
    BY <1>3 DEF CreateNewSession, fileVars
  <2>3. pc'[n] # "idle" /\ index' = WithSession(KeyOf[n], n) /\ Saved
    BY <2>1, <2>2, ChangeIs
  <2> QED BY <2>1, <2>2, <2>3 DEF Changed
<1>4. ASSUME NEW v \in VerboseCmds, UpdateVerbose(v) PROVE Changed /\ Saved
  <2>1. v \in Calls /\ KeyOf[v] \in Keys BY CallsAre
  <2>2. CASE UNCHANGED indexVars BY <1>1, <2>2
  <2>3. CASE ~UNCHANGED indexVars
    <3> DEFINE s == index.active[KeyOf[v]]
    <3>1. PICK on \in {{}, {s}} :
            s # None /\ ChangeIndex(v, [index EXCEPT !.verbose = (@ \ {s}) \cup on])
      BY <1>4, <2>3 DEF UpdateVerbose
    <3>2. index' = [index EXCEPT !.verbose = (@ \ {s}) \cup on] /\ Saved
      BY <2>1, <3>1, ChangeIs
    <3>3. s \in SessionIds BY <2>1, <3>1 DEF Domains, IndexType
    <3>4. index' \in IndexType /\ SameCounts
      BY <3>2, <3>3 DEF Domains, IndexType, SameCounts
    <3> QED BY <3>2, <3>4 DEF Changed
  <2> QED BY <2>2, <2>3
<1>5. ASSUME NEW c \in ClearCalls, ClearAll(c) PROVE Changed /\ Saved
  <2>1. pc[c] = "idle" /\ c \in Calls /\ ChangeIndex(c, EmptyIndex)
    BY <1>5, CallsAre DEF ClearAll
  <2> QED BY <2>1, ChangeIs DEF Changed, Cleared
<1>6. ASSUME NEW t \in Turns, AppendDone(t) PROVE Changed /\ Saved
  <2>1. CASE UNCHANGED indexVars BY <1>1, <2>1
  <2>2. CASE ~UNCHANGED indexVars
    <3>1. Active(session[t]) /\ ChangeIndex(t, Counted(session[t])) /\ t \in Calls
      BY <1>6, <2>2, CallsAre DEF AppendDone, CountTurn
    <3> QED BY <1>6, <3>1, ChangeIs DEF Changed
  <2> QED BY <2>1, <2>2
<1>7. ASSUME NEW t \in Turns,
             \/ LoadHistory(t) \/ AskForLock(t) \/ Acquire(t)
             \/ WriteUser(t) \/ WriteAssistant(t) \/ WriteFails(t)
      PROVE  UNCHANGED indexVars
  BY <1>7 DEF LoadHistory, AskForLock, Acquire, WriteUser, WriteAssistant, WriteFails
<1> QED BY <1>1, <1>2, <1>3, <1>4, <1>5, <1>6, <1>7 DEF Next, Turn

\* The moves of a call, with the actions that touch its file.
Move(c, v) ==
  \/ pc[c] = "idle" /\ v \in {"done", "failed"}
  \/ c \in Turns /\ pc[c] = "idle" /\ v = "opened"
  \/ c \in Turns /\ pc[c] = "opened" /\ v \in {"ready", "failed"}
  \/ c \in Turns /\ pc[c] = "ready" /\ v \in {"waiting", "writing"}
  \/ c \in Turns /\ pc[c] = "waiting" /\ v = "writing"
  \/ c \in Turns /\ WriteUser(c) /\ pc[c] = "writing" /\ v = "half"
  \/ c \in Turns /\ WriteAssistant(c) /\ pc[c] = "half" /\ v = "written"
  \/ c \in Turns /\ WriteFails(c) /\ pc[c] = "writing" /\ v = "failed"
  \/ c \in Turns /\ WriteFails(c) /\ pc[c] = "half" /\ v = "cut"
  \/ c \in Turns /\ AppendDone(c) /\ pc[c] = "written" /\ v \in {"done", "failed"}

\* A turn gets its session when it opens: its own, or the active one of its key.
Opens(t, s) ==
  /\ s = t \/ (s \in index.sessions[KeyOf[t]] /\ s = index.active[KeyOf[t]])
  /\ UNCHANGED files
  /\ session' = [session EXCEPT ![t] = s]

LEMMA OneMoves ==
  ASSUME Domains, Next, ~Crash
  PROVE  /\ UNCHANGED crashes
         /\ \E c \in Calls, v \in PcStates :
              /\ Move(c, v) /\ pc' = [pc EXCEPT ![c] = v]
              /\ \/ v # "opened" /\ UNCHANGED session
                 \/ v = "opened" /\ c \in Turns /\ \E s \in SessionIds : Opens(c, s)
<1> DEFINE Moves(c, v) == Move(c, v) /\ pc' = [pc EXCEPT ![c] = v] /\ v # "opened"
           Stays == UNCHANGED <<session, crashes>>
           Goal == /\ UNCHANGED crashes
                   /\ \E c \in Calls, v \in PcStates :
                        /\ Move(c, v) /\ pc' = [pc EXCEPT ![c] = v]
                        /\ \/ v # "opened" /\ UNCHANGED session
                           \/ v = "opened" /\ c \in Turns /\ \E s \in SessionIds : Opens(c, s)
<1>1. ASSUME NEW c \in Calls, NEW v \in PcStates, Moves(c, v), Stays
      PROVE  Goal
  BY <1>1
<1>2. ASSUME NEW t \in Turns, LoadHistory(t) PROVE Goal
  <2>1. Stays /\ \E v \in {"ready", "failed"} : Moves(t, v)
    BY <1>2 DEF LoadHistory, Move
  <2> QED BY <2>1, <1>1, CallsAre DEF PcStates
<1>3. ASSUME NEW t \in Turns, AskForLock(t) PROVE Goal
  <2>1. Stays /\ \E v \in {"writing", "waiting"} : Moves(t, v)
    BY <1>3 DEF AskForLock, counters, Move
  <2> QED BY <2>1, <1>1, CallsAre DEF PcStates
<1>4. ASSUME NEW t \in Turns, Acquire(t) PROVE Goal
  <2>1. Stays /\ Moves(t, "writing") BY <1>4 DEF Acquire, counters, Move
  <2> QED BY <2>1, <1>1, CallsAre DEF PcStates
<1>5. ASSUME NEW t \in Turns, WriteUser(t) PROVE Goal
  <2>1. Stays /\ pc[t] = "writing" /\ pc' = [pc EXCEPT ![t] = "half"]
    BY <1>5 DEF WriteUser, counters
  <2>2. Moves(t, "half") BY <1>5, <2>1 DEF Move
  <2> QED BY <2>1, <2>2, <1>1, CallsAre DEF PcStates
<1>6. ASSUME NEW t \in Turns, WriteAssistant(t) PROVE Goal
  <2>1. Stays /\ pc[t] = "half" /\ pc' = [pc EXCEPT ![t] = "written"]
    BY <1>6 DEF WriteAssistant, counters
  <2>2. Moves(t, "written") BY <1>6, <2>1 DEF Move
  <2> QED BY <2>1, <2>2, <1>1, CallsAre DEF PcStates
<1>7. ASSUME NEW t \in Turns, WriteFails(t) PROVE Goal
  <2>1. /\ Stays
        /\ \/ pc[t] = "half" /\ pc' = [pc EXCEPT ![t] = "cut"]
           \/ pc[t] = "writing" /\ pc' = [pc EXCEPT ![t] = "failed"]
    BY <1>7 DEF WriteFails
  <2>2. \E v \in {"cut", "failed"} : Moves(t, v) BY <1>7, <2>1 DEF Move
  <2> QED BY <2>1, <2>2, <1>1, CallsAre DEF PcStates
<1>8. ASSUME NEW t \in Turns, AppendDone(t) PROVE Goal
  <2>1. Stays /\ pc[t] = "written" /\ \E v \in {"done", "failed"} : pc' = [pc EXCEPT ![t] = v]
    BY <1>8, ChangeIs, CallsAre DEF AppendDone, CountTurn
  <2>2. \E v \in {"done", "failed"} : Moves(t, v) BY <1>8, <2>1 DEF Move
  <2> QED BY <2>1, <2>2, <1>1, CallsAre DEF PcStates
<1>9. ASSUME NEW c \in NewCmds \cup VerboseCmds \cup ClearCalls,
             CreateNewSession(c) \/ UpdateVerbose(c) \/ ClearAll(c)
      PROVE  Goal
  <2>0. c \in Calls BY CallsAre
  <2>1. \/ \E new : ChangeIndex(c, new)
        \/ pc' = [pc EXCEPT ![c] = "done"]
    BY <1>9 DEF CreateNewSession, UpdateVerbose, ClearAll
  <2>2. Stays /\ pc[c] = "idle" BY <1>9 DEF CreateNewSession, UpdateVerbose, ClearAll
  <2>3. \E v \in {"done", "failed"} : pc' = [pc EXCEPT ![c] = v]
    BY <2>0, <2>1, ChangeIs
  <2>4. \E v \in {"done", "failed"} : Moves(c, v) BY <2>2, <2>3 DEF Move
  <2> QED BY <2>0, <2>2, <2>4, <1>1 DEF PcStates
<1>10. ASSUME NEW t \in Turns, GetOrCreate(t) PROVE Goal
  <2>1. t \in Calls /\ t \in SessionIds /\ KeyOf[t] \in Keys BY CallsAre
  <2>2. pc[t] = "idle" /\ UNCHANGED <<files, crashes>> BY <1>10 DEF GetOrCreate, fileVars
  <2>3. CASE pc' = [pc EXCEPT ![t] = "failed"]
    <3>1. UNCHANGED session
      <4>1. pc' # [pc EXCEPT ![t] = "opened"] BY <2>1, <2>3 DEF Domains
      <4> QED BY <1>10, <4>1 DEF GetOrCreate
    <3>2. Moves(t, "failed") BY <2>2, <2>3 DEF Move
    <3> QED BY <2>1, <2>2, <3>1, <3>2, <1>1 DEF PcStates
  <2>4. CASE pc' # [pc EXCEPT ![t] = "failed"]
    <3>1. pc' = [pc EXCEPT ![t] = "opened"] BY <1>10, <2>4 DEF GetOrCreate
    <3>2. PICK s \in {t, index.active[KeyOf[t]]} :
            /\ s = t \/ s \in index.sessions[KeyOf[t]]
            /\ session' = [session EXCEPT ![t] = s]
      BY <1>10, <2>4 DEF GetOrCreate
    <3>3. s \in SessionIds /\ Opens(t, s)
      BY <2>1, <2>2, <3>2 DEF Domains, IndexType, Opens
    <3>4. Move(t, "opened") BY <2>2 DEF Move
    <3> QED BY <2>1, <2>2, <3>1, <3>3, <3>4 DEF PcStates
  <2> QED BY <2>3, <2>4
<1> QED
  BY <1>2, <1>3, <1>4, <1>5, <1>6, <1>7, <1>8, <1>9, <1>10 DEF Next, Turn

LEMMA FilesMove ==
  ASSUME Domains, Next
  PROVE  \/ UNCHANGED files
         \/ \E t \in Turns, line \in Lines :
              /\ WriteUser(t) \/ WriteAssistant(t)
              /\ session[t] \in SessionIds
              /\ files' = [files EXCEPT ![session[t]] = Append(@, line)]
<1>1. ASSUME NEW t \in Turns, WriteUser(t) \/ WriteAssistant(t)
      PROVE  /\ session[t] \in SessionIds
             /\ \E line \in Lines : files' = [files EXCEPT ![session[t]] = Append(@, line)]
  <2>1. session[t] \in SessionIds
    BY <1>1 DEF WriteUser, WriteAssistant, Domains, Underway
  <2>2. \E line \in Lines : files' = [files EXCEPT ![session[t]] = Append(@, line)]
    BY <1>1 DEF WriteUser, WriteAssistant, WriteLine, Lines
  <2> QED BY <2>1, <2>2
<1>2. ASSUME NEW t \in Turns,
             \/ GetOrCreate(t) \/ LoadHistory(t) \/ AskForLock(t) \/ Acquire(t)
             \/ WriteFails(t) \/ AppendDone(t)
      PROVE  UNCHANGED files
  BY <1>2 DEF GetOrCreate, LoadHistory, AskForLock, Acquire, WriteFails, AppendDone, fileVars
<1>3. ASSUME NEW c \in NewCmds \cup VerboseCmds \cup ClearCalls,
             CreateNewSession(c) \/ UpdateVerbose(c) \/ ClearAll(c)
      PROVE  UNCHANGED files
  BY <1>3 DEF CreateNewSession, UpdateVerbose, ClearAll, fileVars
<1>4. Crash => UNCHANGED files BY DEF Crash
<1> QED BY <1>1, <1>2, <1>3, <1>4 DEF Next, Turn

LEMMA CrashIs ==
  ASSUME Domains, Crash
  PROVE  /\ index' = stored /\ stored' = stored /\ unsaved' = FALSE
         /\ UNCHANGED <<files, session>> /\ crashes' \in Nat /\ crashes' # 0
         /\ pc' \in [Calls -> PcStates]
         /\ \A c \in Calls : pc'[c] \in {"idle"} \cup Ended /\ (pc'[c] = "idle" => pc[c] = "idle")
  BY DEF Crash, Domains, PcStates, Ended

-----------------------------------------------------------------------------
LEMMA DomainsKept ==
  ASSUME Domains, Next
  PROVE  Domains'
<1>1. files' \in [SessionIds -> Seq(Lines)]
  <2>1. CASE UNCHANGED files BY <2>1 DEF Domains
  <2>2. ASSUME NEW t \in Turns, NEW line \in Lines, session[t] \in SessionIds,
               files' = [files EXCEPT ![session[t]] = Append(@, line)]
        PROVE  files' \in [SessionIds -> Seq(Lines)]
    BY <2>2 DEF Domains
  <2> QED BY <2>1, <2>2, FilesMove
<1>2. CASE Crash
  <2>1. \A t \in Turns : pc'[t] \notin Underway BY <1>2, CrashIs, CallsAre DEF Ended, Underway
  <2>2. /\ index' \in IndexType /\ stored' \in IndexType
        /\ unsaved' \in BOOLEAN /\ (~unsaved' => stored' = index')
    BY <1>2, CrashIs DEF Domains
  <2> QED BY <1>1, <1>2, <2>1, <2>2, CrashIs DEF Domains
<1>3. CASE ~Crash
  <2>1. Changed /\ Saved BY <1>3, IndexMoves
  <2>2. index' \in IndexType
    <3>1. ASSUME NEW k \in Keys, NEW c \in SessionIds, index' = WithSession(k, c)
          PROVE  index' \in IndexType
      BY <3>1, WithSessionIs DEF Domains
    <3>2. ASSUME NEW t \in Turns, AppendDone(t), index' = Counted(session[t])
          PROVE  index' \in IndexType
      <4>1. session[t] \in SessionIds BY <3>2 DEF AppendDone, Domains, Underway
      <4> QED BY <3>2, <4>1, CountedIs DEF Domains
    <3> QED BY <2>1, <3>1, <3>2, EmptyIndexIs DEF Changed
  <2>3. stored' \in IndexType BY <2>1, <2>2 DEF Saved, Domains
  <2>4. unsaved' \in BOOLEAN /\ (~unsaved' => stored' = index') BY <2>1 DEF Saved
  <2>5. PICK c \in Calls, v \in PcStates :
          /\ Move(c, v) /\ pc' = [pc EXCEPT ![c] = v]
          /\ \/ v # "opened" /\ UNCHANGED session
             \/ v = "opened" /\ c \in Turns /\ \E s \in SessionIds : Opens(c, s)
    BY <1>3, OneMoves
  <2>6. pc' \in [Calls -> PcStates] BY <2>5 DEF Domains
  <2>7. /\ session' \in [Turns -> SessionIds \cup {None}]
        /\ \A t \in Turns : pc'[t] \in Underway => session'[t] \in SessionIds
    <3>1. CASE UNCHANGED session /\ v # "opened"
      <4>1. SUFFICES ASSUME NEW t \in Turns, pc'[t] \in Underway PROVE session[t] \in SessionIds
        BY <3>1 DEF Domains
      <4>2. pc[t] \in Underway
        <5>1. CASE t # c BY <2>5, <4>1, <5>1, CallsAre DEF Domains
        <5>2. CASE t = c
          <6>1. v \in Underway BY <2>5, <4>1, <5>2 DEF Domains
          <6> QED BY <2>5, <3>1, <5>2, <6>1 DEF Move, Underway
        <5> QED BY <5>1, <5>2
      <4> QED BY <4>2 DEF Domains
    <3>2. ASSUME NEW s \in SessionIds, Opens(c, s), c \in Turns
          PROVE  /\ session' \in [Turns -> SessionIds \cup {None}]
                 /\ \A u \in Turns : pc'[u] \in Underway => session'[u] \in SessionIds
      BY <2>5, <3>2, CallsAre DEF Domains, Opens
    <3> QED BY <2>5, <3>1, <3>2
  <2>8. crashes' \in Nat BY <1>3, OneMoves DEF Domains
  <2> QED BY <1>1, <2>2, <2>3, <2>4, <2>6, <2>7, <2>8 DEF Domains
<1> QED BY <1>2, <1>3

LEMMA UnbornKept ==
  ASSUME Domains, Unborn, Next
  PROVE  Unborn'
<1> SUFFICES ASSUME NEW s \in SessionIds, pc'[s] = "idle"
             PROVE  Blank(s)'
  BY DEF Unborn
<1>s. s \in Calls BY DEF Calls
<1>1. CASE Crash
  <2>1. Blank(s) BY <1>1, <1>s, CrashIs DEF Unborn
  <2> QED BY <1>1, <2>1, CrashIs DEF Blank, Unknown
<1>2. CASE ~Crash
  <2>1. PICK c \in Calls, v \in PcStates :
          /\ Move(c, v) /\ pc' = [pc EXCEPT ![c] = v]
          /\ \/ v # "opened" /\ UNCHANGED session
             \/ v = "opened" /\ c \in Turns /\ \E r \in SessionIds : Opens(c, r)
    BY <1>2, OneMoves
  <2>2. c # s /\ pc[s] = "idle"
    <3>1. v # "idle" BY <2>1 DEF Move
    <3> QED BY <1>s, <2>1, <3>1 DEF Domains
  <2>3. Blank(s) BY <2>2 DEF Unborn
  <2>4. \A t \in Turns : session'[t] # s
    <3>1. ASSUME NEW r \in SessionIds, Opens(c, r), c \in Turns
          PROVE  \A t \in Turns : session'[t] # s
      <4>1. r # s BY <2>2, <2>3, <3>1, CallsAre DEF Opens, Blank, Unknown
      <4> QED BY <2>3, <3>1, <4>1 DEF Opens, Blank, Domains
    <3> QED BY <2>1, <2>3, <3>1 DEF Blank
  <2>5. files'[s] = <<>>
    <3>1. ASSUME NEW t \in Turns, NEW line \in Lines, session[t] \in SessionIds,
                 files' = [files EXCEPT ![session[t]] = Append(@, line)]
          PROVE  files'[s] = files[s]
      BY <2>3, <3>1 DEF Blank, Domains
    <3> QED BY <2>3, <3>1, FilesMove DEF Blank
  <2>6. Changed /\ Saved BY <1>2, IndexMoves
  <2>7. Unknown(index', s)
    <3>1. CASE SameCounts BY <2>3, <3>1 DEF SameCounts, Blank, Unknown
    <3>2. ASSUME NEW k \in Keys, NEW d \in SessionIds, pc'[d] # "idle", index' = WithSession(k, d)
          PROVE  Unknown(index', s)
      <4>1. d # s BY <3>2
      <4>2. index'.count = index.count /\ index'.active = [index.active EXCEPT ![k] = d]
        BY <3>2, WithSessionIs DEF Domains
      <4> QED BY <2>3, <4>1, <4>2 DEF Blank, Unknown, Domains, IndexType
    <3>3. ASSUME NEW t \in Turns, AppendDone(t), index' = Counted(session[t])
          PROVE  Unknown(index', s)
      <4>1. session[t] \in SessionIds /\ session[t] # s
        BY <2>3, <3>3 DEF AppendDone, Domains, Underway, Blank
      <4>2. /\ index'.active = index.active
            /\ index'.count = [index.count EXCEPT ![session[t]] = @ + 2]
        BY <3>3, <4>1, CountedIs DEF Domains
      <4>3. index'.count[s] = index.count[s] BY <4>1, <4>2 DEF Domains, IndexType
      <4> QED BY <2>3, <4>2, <4>3 DEF Blank, Unknown
    <3>4. CASE index' = EmptyIndex
      BY <3>4, EmptyIndexIs, SessionsAssumption DEF Unknown
    <3> QED BY <2>6, <3>1, <3>2, <3>3, <3>4 DEF Changed
  <2>8. Unknown(stored', s)
    <3>1. stored' = stored \/ stored' = index' BY <2>6 DEF Saved
    <3> QED BY <2>3, <2>7, <3>1 DEF Blank
  <2> QED BY <2>4, <2>5, <2>7, <2>8 DEF Blank, Unknown
<1> QED BY <1>1, <1>2

-----------------------------------------------------------------------------
(***************************************************************************)
(* Bounded and Exact                                                       *)
(***************************************************************************)

Between == {"half", "written"}

\* Unless its thread writes or it is counted, no turn gets to or stays at its lines anew.
LEMMA LinesKept ==
  ASSUME Domains, Next, \A t \in Turns : ~WriteUser(t) /\ ~WriteAssistant(t)
  PROVE  /\ UNCHANGED files
         /\ \A u \in Turns : pc'[u] \in Between => pc'[u] = pc[u] /\ session'[u] = session[u]
<1>1. UNCHANGED files BY FilesMove
<1>2. CASE Crash BY <1>1, <1>2, CrashIs, CallsAre DEF Ended, Between
<1>3. CASE ~Crash
  <2>1. PICK c \in Calls, v \in PcStates :
          /\ Move(c, v) /\ pc' = [pc EXCEPT ![c] = v]
          /\ \/ v # "opened" /\ UNCHANGED session
             \/ v = "opened" /\ c \in Turns /\ \E r \in SessionIds : Opens(c, r)
    BY <1>3, OneMoves
  <2>2. v \notin Between BY <2>1 DEF Move, Between
  <2>3. \A u \in Turns : pc'[u] \in Between => u # c BY <2>1, <2>2, CallsAre DEF Domains
  <2>4. \A u \in Turns : u # c => pc'[u] = pc[u] /\ session'[u] = session[u]
    BY <2>1, CallsAre DEF Domains, Opens
  <2> QED BY <1>1, <2>3, <2>4
<1> QED BY <1>2, <1>3

LEMMA FewerUncounted ==
  ASSUME NEW s, \A u \in Turns : pc'[u] \in Between => pc'[u] = pc[u] /\ session'[u] = session[u]
  PROVE  Uncounted(s)' \in Nat /\ Uncounted(s)' <= Uncounted(s)
<1>1. Half(s)' \subseteq Half(s) /\ Written(s)' \subseteq Written(s) BY DEF Half, Written, Between
<1>2. /\ Cardinality(Half(s)') <= Cardinality(Half(s)) /\ Cardinality(Half(s)') \in Nat
      /\ Cardinality(Written(s)') <= Cardinality(Written(s)) /\ Cardinality(Written(s)') \in Nat
  BY <1>1, FiniteTurns, FS_Subset, FS_CardinalityType
<1> QED BY <1>2, FiniteTurns DEF Uncounted

LEMMA Shifts ==
  ASSUME NEW len \in Nat, NEW new \in Nat, NEW open \in Nat, NEW left \in Nat,
         new + open = len + left
  PROVE  \A n \in Nat : n + open <= len => n + left <= new
OBVIOUS

\* A line more in the file is a line more that is not counted.
LEMMA LineWritten ==
  ASSUME Domains, NEW t \in Turns, WriteUser(t) \/ WriteAssistant(t), Next, ~Crash,
         NEW s \in SessionIds
  PROVE  /\ UNCHANGED <<index, stored, session, crashes>>
         /\ CutShort(s)' = CutShort(s)
         /\ Len(files'[s]) + Uncounted(s) = Len(files[s]) + Uncounted(s)'
         /\ Len(files'[s]) \in Nat /\ Uncounted(s)' \in Nat
<1>1. /\ UNCHANGED <<index, stored, session, crashes>> /\ session[t] \in SessionIds
      /\ \A u \in Turns : u # t => pc'[u] = pc[u]
      /\ \/ pc[t] = "writing" /\ pc'[t] = "half"
         \/ pc[t] = "half" /\ pc'[t] = "written"
  BY CallsAre DEF WriteUser, WriteAssistant, Domains, indexVars, counters, Underway
<1>2. PICK line \in Lines : files' = [files EXCEPT ![session[t]] = Append(@, line)]
  BY DEF WriteUser, WriteAssistant, WriteLine, Lines
<1>3. CutShort(s)' = CutShort(s) BY <1>1 DEF CutShort
<1>4. CASE session[t] # s
  <2>1. files'[s] = files[s] BY <1>1, <1>2, <1>4 DEF Domains
  <2>2. Half(s)' = Half(s) /\ Written(s)' = Written(s) BY <1>1, <1>4 DEF Half, Written
  <2>3. Uncounted(s)' = Uncounted(s) BY <2>2 DEF Uncounted
  <2>4. Len(files[s]) \in Nat BY DEF Domains
  <2> QED BY <1>1, <1>3, <2>1, <2>3, <2>4, FiniteTurns
<1>5. CASE session[t] = s
  <2>1. Len(files'[s]) = Len(files[s]) + 1 /\ Len(files[s]) \in Nat
    BY <1>1, <1>2, <1>5 DEF Domains
  <2>2. Uncounted(s)' = Uncounted(s) + 1
    <3>1. CASE pc[t] = "writing" /\ pc'[t] = "half"
      <4>1. Half(s)' = Half(s) \cup {t} /\ t \notin Half(s) /\ Written(s)' = Written(s)
        BY <1>1, <1>5, <3>1 DEF Half, Written
      <4>2. Cardinality(Half(s)') = Cardinality(Half(s)) + 1
        BY <4>1, FiniteTurns, FS_AddElement
      <4> QED BY <4>1, <4>2, FiniteTurns DEF Uncounted
    <3>2. CASE pc[t] = "half" /\ pc'[t] = "written"
      <4>1. /\ Half(s)' = Half(s) \ {t} /\ t \in Half(s)
            /\ Written(s)' = Written(s) \cup {t} /\ t \notin Written(s)
        BY <1>1, <1>5, <3>2 DEF Half, Written
      <4>2. /\ Cardinality(Half(s)') = Cardinality(Half(s)) - 1
            /\ Cardinality(Written(s)') = Cardinality(Written(s)) + 1
        BY <4>1, FiniteTurns, FS_AddElement, FS_RemoveElement
      <4> QED BY <4>2, FiniteTurns DEF Uncounted
    <3> QED BY <1>1, <3>1, <3>2
  <2> QED BY <1>1, <1>3, <2>1, <2>2, FiniteTurns
<1> QED BY <1>4, <1>5

\* The count of an active session goes up by the two lines of the turn that ends.
LEMMA TurnCounted ==
  ASSUME Domains, NEW t \in Turns, AppendDone(t), Next, ~Crash, NEW s \in SessionIds
  PROVE  /\ UNCHANGED <<files, session, crashes>> /\ index'.active = index.active
         /\ CutShort(s)' = CutShort(s)
         /\ Uncounted(s)' \in Nat /\ index'.count[s] \in Nat
         /\ Active(s) => index'.count[s] + Uncounted(s)' = index.count[s] + Uncounted(s)
         /\ index'.count[s] + Uncounted(s)' <= index.count[s] + Uncounted(s)
         /\ Uncounted(s)' <= Uncounted(s)
<1>1. /\ UNCHANGED <<files, session, crashes>> /\ session[t] \in SessionIds
      /\ pc[t] = "written" /\ t \in Calls
    BY CallsAre DEF AppendDone, Domains, Underway, fileVars
<1>2. pc'[t] \in {"done", "failed"} /\ \A u \in Turns : u # t => pc'[u] = pc[u]
  <2>1. \E v \in {"done", "failed"} : pc' = [pc EXCEPT ![t] = v]
    BY <1>1, ChangeIs DEF AppendDone, CountTurn
  <2> QED BY <1>1, <2>1, CallsAre DEF Domains
<1>3. \/ Active(session[t]) /\ index' = Counted(session[t])
      \/ ~Active(session[t]) /\ index' = index
  BY <1>1, ChangeIs DEF AppendDone, CountTurn, indexVars
<1>4. CutShort(s)' = CutShort(s) BY <1>1, <1>2 DEF CutShort
<1>5. /\ index'.active = index.active
      /\ index'.count[s] = IF s = session[t] /\ Active(s) THEN index.count[s] + 2 ELSE index.count[s]
  <2>1. CASE index' = index /\ ~Active(session[t]) BY <2>1
  <2>2. CASE index' = Counted(session[t]) /\ Active(session[t])
    <3>1. /\ index'.active = index.active
          /\ index'.count = [index.count EXCEPT ![session[t]] = @ + 2]
      BY <1>1, <2>2, CountedIs DEF Domains
    <3> QED BY <1>1, <2>2, <3>1 DEF Domains, IndexType
  <2> QED BY <1>3, <2>1, <2>2
<1>6. index.count[s] \in Nat BY DEF Domains, IndexType
<1>7. CASE session[t] # s
  <2>1. Half(s)' = Half(s) /\ Written(s)' = Written(s) BY <1>1, <1>2, <1>7 DEF Half, Written
  <2>2. Uncounted(s)' = Uncounted(s) BY <2>1 DEF Uncounted
  <2> QED BY <1>1, <1>4, <1>5, <1>6, <1>7, <2>2, FiniteTurns
<1>8. CASE session[t] = s
  <2>1. Half(s)' = Half(s) /\ Written(s)' = Written(s) \ {t} /\ t \in Written(s)
    BY <1>1, <1>2, <1>8 DEF Half, Written
  <2>2. Cardinality(Written(s)') = Cardinality(Written(s)) - 1 /\ Cardinality(Written(s)') \in Nat
    BY <2>1, FiniteTurns, FS_RemoveElement, FS_CardinalityType
  <2>3. Uncounted(s)' = Uncounted(s) - 2 /\ Uncounted(s)' \in Nat
    BY <2>1, <2>2, FiniteTurns DEF Uncounted
  <2> QED BY <1>1, <1>4, <1>5, <1>6, <1>8, <2>3, FiniteTurns
<1> QED BY <1>7, <1>8

LEMMA BoundedKept ==
  ASSUME IInv, Next
  PROVE  Bounded'
<1> USE DEF IInv
<1> SUFFICES ASSUME NEW s \in SessionIds
             PROVE  /\ index'.count[s] + Uncounted(s)' <= Len(files'[s])
                    /\ stored'.count[s] + Uncounted(s)' <= Len(files'[s])
  BY DEF Bounded
<1>1. /\ index.count[s] \in Nat /\ stored.count[s] \in Nat /\ Len(files[s]) \in Nat
      /\ Uncounted(s) \in Nat
      /\ index.count[s] + Uncounted(s) <= Len(files[s])
      /\ stored.count[s] + Uncounted(s) <= Len(files[s])
  BY FiniteTurns DEF Domains, IndexType, Bounded
<1>2. CASE Crash
  <2>1. \A u \in Turns : pc'[u] \notin Between BY <1>2, CrashIs, CallsAre DEF Ended, Between
  <2>2. Uncounted(s)' \in Nat /\ Uncounted(s)' <= Uncounted(s) BY <2>1, FewerUncounted
  <2> QED BY <1>1, <1>2, <2>2, CrashIs
<1>3. ASSUME NEW t \in Turns, WriteUser(t) \/ WriteAssistant(t), ~Crash
      PROVE  /\ index'.count[s] + Uncounted(s)' <= Len(files'[s])
             /\ stored'.count[s] + Uncounted(s)' <= Len(files'[s])
  <2>1. /\ UNCHANGED <<index, stored>>
        /\ Len(files'[s]) + Uncounted(s) = Len(files[s]) + Uncounted(s)'
        /\ Len(files'[s]) \in Nat /\ Uncounted(s)' \in Nat
    BY <1>3, LineWritten
  <2>2. index'.count[s] = index.count[s] /\ stored'.count[s] = stored.count[s] BY <2>1
  <2> QED BY <1>1, <2>1, <2>2, Shifts
<1>4. ASSUME NEW t \in Turns, AppendDone(t), ~Crash
      PROVE  /\ index'.count[s] + Uncounted(s)' <= Len(files'[s])
             /\ stored'.count[s] + Uncounted(s)' <= Len(files'[s])
  <2>1. stored' = stored \/ stored' = index' BY <1>4, IndexMoves DEF Saved
  <2> QED BY <1>1, <1>4, <2>1, TurnCounted
<1>5. CASE ~Crash /\ \A t \in Turns : ~WriteUser(t) /\ ~WriteAssistant(t) /\ ~AppendDone(t)
  <2>1. UNCHANGED files /\ Uncounted(s)' \in Nat /\ Uncounted(s)' <= Uncounted(s)
    BY <1>5, LinesKept, FewerUncounted
  <2>2. index'.count[s] \in Nat /\ index'.count[s] <= index.count[s]
    <3>1. ASSUME NEW k \in Keys, NEW c \in SessionIds, index' = WithSession(k, c)
          PROVE  index'.count = index.count
      BY <3>1, WithSessionIs DEF Domains
    <3> QED BY <1>1, <1>5, <3>1, EmptyIndexIs, IndexMoves DEF Changed, SameCounts
  <2>3. stored' = stored \/ stored' = index' BY <1>5, IndexMoves DEF Saved
  <2> QED BY <1>1, <2>1, <2>2, <2>3
<1> QED BY <1>2, <1>3, <1>4, <1>5

LEMMA ExactKept ==
  ASSUME IInv, Next
  PROVE  Exact'
<1> USE DEF IInv
<1> SUFFICES ASSUME crashes' = 0, NEW s \in SessionIds, Active(s)'
             PROVE  Tracked(s)'
  BY DEF Exact
<1>1. ~Crash BY CrashIs
<1>2. crashes = 0 BY <1>1, OneMoves
<1>3. Active(s) => Tracked(s) BY <1>2 DEF Exact
<1>4. index.count[s] \in Nat /\ Len(files[s]) \in Nat /\ Uncounted(s) \in Nat
  BY FiniteTurns DEF Domains, IndexType
<1>5. ASSUME NEW t \in Turns, WriteUser(t) \/ WriteAssistant(t) PROVE Tracked(s)'
  <2>1. Active(s) BY <1>1, <1>5, LineWritten DEF Active
  <2>2. /\ Len(files'[s]) + Uncounted(s) = Len(files[s]) + Uncounted(s)'
        /\ Len(files'[s]) \in Nat /\ Uncounted(s)' \in Nat
    BY <1>1, <1>5, LineWritten
  <2>3. index'.count[s] = index.count[s] /\ Cardinality(CutShort(s))' = Cardinality(CutShort(s))
    BY <1>1, <1>5, LineWritten
  <2>4. Cardinality(CutShort(s)) \in Nat BY FiniteTurns
  <2>5. Len(files[s]) = index.count[s] + Uncounted(s) + Cardinality(CutShort(s))
    BY <1>3, <2>1 DEF Tracked
  <2>6. Len(files'[s]) = index.count[s] + Uncounted(s)' + Cardinality(CutShort(s))
    <3>1. PICK len \in Nat, open \in Nat, left \in Nat, new \in Nat, n \in Nat, k \in Nat :
            /\ len = Len(files[s]) /\ open = Uncounted(s) /\ left = Uncounted(s)'
            /\ new = Len(files'[s]) /\ n = index.count[s] /\ k = Cardinality(CutShort(s))
      BY <1>4, <2>2, <2>4
    <3>2. new + open = len + left /\ len = n + open + k BY <2>2, <2>5, <3>1
    <3>3. new = n + left + k BY <3>2
    <3> QED BY <3>1, <3>3
  <2>7. Len(files'[s]) = index'.count[s] + Uncounted(s)' + Cardinality(CutShort(s))'
    BY <2>3, <2>6
  <2> QED BY <2>7 DEF Tracked
<1>6. ASSUME NEW t \in Turns, AppendDone(t) PROVE Tracked(s)'
  <2>1. Active(s) BY <1>1, <1>6, TurnCounted DEF Active
  <2>2. /\ UNCHANGED files /\ CutShort(s)' = CutShort(s)
        /\ index'.count[s] + Uncounted(s)' = index.count[s] + Uncounted(s)
    BY <1>1, <1>6, <2>1, TurnCounted
  <2> QED BY <1>3, <1>4, <2>1, <2>2, FiniteTurns DEF Tracked
<1>7. CASE \A t \in Turns : ~WriteUser(t) /\ ~WriteAssistant(t) /\ ~AppendDone(t)
  <2>1. UNCHANGED files /\ index' \in IndexType BY <1>7, FilesMove, DomainsKept DEF Domains
  <2>2. PICK c \in Calls, v \in PcStates :
          /\ Move(c, v) /\ pc' = [pc EXCEPT ![c] = v]
          /\ \/ v # "opened" /\ UNCHANGED session
             \/ v = "opened" /\ c \in Turns /\ \E r \in SessionIds : Opens(c, r)
    BY <1>1, OneMoves
  <2>3. /\ pc'[c] = v /\ \A u \in Turns : u # c => pc'[u] = pc[u] /\ session'[u] = session[u]
        /\ v # "opened" => UNCHANGED session
    BY <2>2, CallsAre DEF Domains, Opens
  <2>4. CASE Active(s) /\ index'.count[s] = index.count[s]
    <3>1. CASE v = "cut" /\ session[c] = s
      <4>1. c \in Turns /\ pc[c] = "half" BY <2>2, <3>1 DEF Move
      <4>2. /\ Half(s)' = Half(s) \ {c} /\ c \in Half(s) /\ Written(s)' = Written(s)
            /\ CutShort(s)' = CutShort(s) \cup {c} /\ c \notin CutShort(s)
        BY <2>3, <3>1, <4>1 DEF Half, Written, CutShort
      <4>3. /\ Cardinality(Half(s)') = Cardinality(Half(s)) - 1
            /\ Cardinality(CutShort(s)') = Cardinality(CutShort(s)) + 1
        BY <4>2, FiniteTurns, FS_AddElement, FS_RemoveElement
      <4>4. Uncounted(s)' = Uncounted(s) - 1 BY <4>2, <4>3, FiniteTurns DEF Uncounted
      <4>5. Len(files[s]) = index.count[s] + Uncounted(s) + Cardinality(CutShort(s))
        BY <1>3, <2>4 DEF Tracked
      <4>6. Cardinality(CutShort(s)) \in Nat BY FiniteTurns
      <4>7. Len(files'[s]) = index'.count[s] + Uncounted(s)' + Cardinality(CutShort(s)')
        BY <1>4, <2>1, <2>4, <4>3, <4>4, <4>5, <4>6
      <4> QED BY <4>7 DEF Tracked
    <3>2. CASE ~(v = "cut" /\ session[c] = s)
      <4>1. v \notin Between BY <1>7, <2>2 DEF Move, Between
      <4>2. pc[c] \in Between => v = "cut" /\ c \in Turns
        BY <1>7, <2>2 DEF Move, Between
      <4>3. pc[c] # "cut" BY <2>2 DEF Move
      <4>4. /\ Half(s)' = Half(s) /\ Written(s)' = Written(s) /\ CutShort(s)' = CutShort(s)
        BY <2>3, <3>2, <4>1, <4>2, <4>3 DEF Half, Written, CutShort, Between
      <4>5. Uncounted(s)' = Uncounted(s) BY <4>4 DEF Uncounted
      <4> QED BY <1>3, <2>1, <2>4, <4>4, <4>5 DEF Tracked
    <3> QED BY <3>1, <3>2
  <2>5. CASE pc[s] = "idle" /\ index'.count[s] = index.count[s]
    <3>1. Blank(s) BY <2>5 DEF Unborn
    <3>2. v \notin Between \cup {"cut"} \/ (v = "cut" /\ pc[c] = "half" /\ c \in Turns)
      BY <1>7, <2>2 DEF Move, Between
    <3>3. Half(s)' = {} /\ Written(s)' = {} /\ CutShort(s)' = {}
      BY <2>2, <2>3, <3>1, <3>2 DEF Half, Written, CutShort, Blank, Between
    <3>4. Uncounted(s)' = 0 /\ Cardinality(CutShort(s)') = 0
      BY <3>3, FS_EmptySet DEF Uncounted
    <3> QED BY <2>1, <2>5, <3>1, <3>4 DEF Tracked, Blank, Unknown
  <2>6. (Active(s) \/ pc[s] = "idle") /\ index'.count[s] = index.count[s]
    <3>1. ASSUME NEW k \in Keys, NEW d \in SessionIds, pc[d] = "idle", index' = WithSession(k, d)
          PROVE  (Active(s) \/ pc[s] = "idle") /\ index'.count[s] = index.count[s]
      <4>1. index'.count = index.count /\ index'.active = [index.active EXCEPT ![k] = d]
        BY <3>1, WithSessionIs DEF Domains
      <4>2. Active(s) \/ s = d BY <4>1 DEF Active, Domains, IndexType
      <4> QED BY <3>1, <4>1, <4>2
    <3>2. CASE SameCounts BY <3>2 DEF SameCounts, Active
    <3>3. index' # EmptyIndex BY EmptyIndexIs, SessionsAssumption DEF Active
    <3> QED BY <1>1, <1>7, <3>1, <3>2, <3>3, IndexMoves DEF Changed
  <2> QED BY <2>4, <2>5, <2>6
<1> QED BY <1>5, <1>6, <1>7

LEMMA StepKeeps == IInv /\ [Next]_vars => IInv'
<1> SUFFICES ASSUME IInv, [Next]_vars PROVE IInv' OBVIOUS
<1>1. CASE Next BY <1>1, DomainsKept, UnbornKept, BoundedKept, ExactKept DEF IInv
<1>2. CASE UNCHANGED vars
  <2>1. /\ UNCHANGED <<index, stored, files, pc, session, crashes>> /\ unsaved' = unsaved
    BY <1>2 DEF vars
  <2>2. Domains' BY <2>1 DEF IInv, Domains
  <2>3. Unborn' BY <2>1 DEF IInv, Unborn, Blank, Unknown
  <2>4. Bounded' BY <2>1 DEF IInv, Bounded, Uncounted, Half, Written
  <2>5. Exact' BY <2>1 DEF IInv, Exact, Tracked, Active, Uncounted, Half, Written, CutShort
  <2> QED BY <2>2, <2>3, <2>4, <2>5 DEF IInv
<1> QED BY <1>1, <1>2

-----------------------------------------------------------------------------
\* The message count of a key's active session is never more than its file holds, even
\* after writes that raised and a restart from an older index.json; without a restart the
\* two differ by the appends that raised between their lines, and by nothing else,
\* whenever no append is between its first line and its count.
THEOREM CountsTrackFiles == Spec => []CountTracksFile
<1>1. ASSUME IInv PROVE CountTracksFile
  <2> SUFFICES ASSUME NEW k \in Keys, index.active[k] # None
               PROVE  LET s == index.active[k]
                      IN /\ index.count[s] <= Len(files[s])
                         /\ (crashes = 0 /\ ~\E t \in Turns :
                                 session[t] = s /\ pc[t] \in {"half", "written"})
                              => Len(files[s]) = index.count[s] + Cardinality(CutShort(s))
    BY DEF CountTracksFile
  <2> DEFINE s == index.active[k]
  <2>1. s \in SessionIds /\ index.count[s] \in Nat /\ Len(files[s]) \in Nat
    BY <1>1 DEF IInv, Domains, IndexType
  <2>2. index.count[s] + Uncounted(s) <= Len(files[s]) BY <1>1, <2>1 DEF IInv, Bounded
  <2>3. crashes = 0 => Tracked(s) BY <1>1, <2>1 DEF IInv, Exact, Active
  <2>4. (~\E t \in Turns : session[t] = s /\ pc[t] \in {"half", "written"})
          => Half(s) = {} /\ Written(s) = {}
    BY DEF Half, Written
  <2>5. Half(s) = {} /\ Written(s) = {} => Uncounted(s) = 0
    BY FS_EmptySet DEF Uncounted
  <2> QED BY <2>1, <2>2, <2>3, <2>4, <2>5, FiniteTurns DEF Tracked
<1> QED BY <1>1, InitHolds, StepKeeps, PTL DEF Spec

\* Sessions and message counts disappear by clear_all, or by a restart after a save that
\* raised, and by nothing else: a restart after a save that worked brings them all back.
THEOREM SessionsOutliveRestarts == Spec => SessionsSurvive
<1> DEFINE Kept == \/ \A k \in Keys : index.sessions[k] \subseteq index'.sessions[k]
                                      /\ \A s \in index.sessions[k] : index.count[s] <= index'.count[s]
                   \/ \E c \in ClearCalls : pc[c] = "idle" /\ pc'[c] \in {"done", "failed"}
                   \/ crashes' # crashes /\ unsaved
<1>1. ASSUME IInv, Next PROVE Kept
  <2> USE <1>1 DEF IInv
  <2>1. \A k \in Keys : index.sessions[k] \subseteq SessionIds BY DEF Domains, IndexType
  <2>2. \A s \in SessionIds : index.count[s] \in Nat BY DEF Domains, IndexType
  <2>3. CASE Crash
    <3>1. crashes' # crashes BY <2>3 DEF Crash, Domains
    <3>2. unsaved \/ index' = index BY <2>3, CrashIs DEF Domains
    <3> QED BY <2>1, <2>2, <3>1, <3>2
  <2>4. CASE SameCounts BY <2>1, <2>2, <2>4 DEF SameCounts
  <2>5. ASSUME NEW k \in Keys, NEW s \in SessionIds, index' = WithSession(k, s) PROVE Kept
    <3>1. /\ index'.count = index.count
          /\ index'.sessions = [index.sessions EXCEPT ![k] = @ \cup {s}]
      BY <2>5, WithSessionIs DEF Domains
    <3> QED BY <2>1, <2>2, <3>1 DEF Domains, IndexType
  <2>6. ASSUME NEW t \in Turns, AppendDone(t), index' = Counted(session[t]) PROVE Kept
    <3>0. session[t] \in SessionIds BY <2>6 DEF AppendDone, Domains, Underway
    <3>1. /\ index'.sessions = index.sessions
          /\ index'.count = [index.count EXCEPT ![session[t]] = @ + 2]
      BY <2>6, <3>0, CountedIs DEF Domains
    <3>2. \A r \in SessionIds : index.count[r] <= index'.count[r]
      BY <2>2, <3>1 DEF Domains, IndexType
    <3> QED BY <2>1, <3>1, <3>2
  <2>7. CASE Cleared BY <2>7 DEF Cleared
  <2> HIDE DEF Kept
  <2> QED BY <2>3, <2>4, <2>5, <2>6, <2>7, IndexMoves DEF Changed
<1>2. IInv /\ [Next]_vars => [Kept]_vars BY <1>1
<1> QED BY <1>2, InitHolds, StepKeeps, PTL DEF Spec, SessionsSurvive

-----------------------------------------------------------------------------
(***************************************************************************)
(* TwoWritersNeedTraffic: what keeps two append() calls from writing one   *)
(* file.  The lock that a call has asked for is in the cache, with entries *)
(* behind it only for sessions that were asked for later, or else enough   *)
(* of those came to push it out.                                           *)
(***************************************************************************)

Entry == [session : SessionIds, lock : Turns]
Asked(t) == pc[t] \in {"waiting", "writing", "half", "written"}

LockTypes ==
  /\ cache \in Seq(Entry)
  /\ lockQueue \in [Turns -> Seq(Turns)]
  /\ since \in [Turns -> SUBSET SessionIds]
  /\ \A t \in Turns : IsFiniteSet(since[t])

\* A call stands in one queue, at one place, from its request to its return, and writes
\* only at the head.
QueuesInv ==
  /\ \A l \in Turns : \A i \in DOMAIN lockQueue[l] : Asked(lockQueue[l][i])
  /\ \A l, m \in Turns : \A i \in DOMAIN lockQueue[l], j \in DOMAIN lockQueue[m] :
       lockQueue[l][i] = lockQueue[m][j] => l = m /\ i = j
  /\ \A t \in Turns : Asked(t) => \E l \in Turns : \E i \in DOMAIN lockQueue[l] :
       lockQueue[l][i] = t /\ (Writing(t) => i = 1)

OneEntryEach == \A i, j \in DOMAIN cache : cache[i].session = cache[j].session => i = j

Retained(t, l) ==
  \E j \in DOMAIN cache : /\ cache[j] = [session |-> session[t], lock |-> l]
                         /\ \A k \in DOMAIN cache : k > j => cache[k].session \in since[t]
RetentionInv ==
  \A l \in Turns : \A i \in DOMAIN lockQueue[l] :
    Cardinality(since[lockQueue[l][i]]) < MaxActiveSessions => Retained(lockQueue[l][i], l)

LocksInv == LockTypes /\ QueuesInv /\ OneEntryEach /\ RetentionInv

LEMMA RemoveAtIs ==
  ASSUME NEW S, NEW q \in Seq(S), NEW i \in 1 .. Len(q)
  PROVE  /\ RemoveAt(q, i) \in Seq(S)
         /\ Len(RemoveAt(q, i)) = Len(q) - 1
         /\ \A j \in 1 .. Len(q) - 1 : RemoveAt(q, i)[j] = IF j < i THEN q[j] ELSE q[j + 1]
<1> DEFINE n == Len(q)
           a == SubSeq(q, 1, i - 1)
           b == SubSeq(q, i + 1, n)
<1>1. n \in Nat /\ i \in 1 .. n
  OBVIOUS
<1>2. a \in Seq(S) /\ Len(a) = i - 1 /\ \A j \in 1 .. i - 1 : a[j] = q[j]
  BY <1>1
<1>3. b \in Seq(S) /\ Len(b) = n - i /\ \A j \in 1 .. n - i : b[j] = q[i + j]
  BY <1>1
<1>4. RemoveAt(q, i) = a \o b
  BY DEF RemoveAt
<1> HIDE DEF a, b, n
<1>5. /\ a \o b \in Seq(S) /\ Len(a \o b) = n - 1
      /\ \A j \in 1 .. n - 1 : (a \o b)[j] = IF j <= i - 1 THEN a[j] ELSE b[j - (i - 1)]
  <2>1. Len(a) \in Nat /\ Len(b) \in Nat /\ Len(a) + Len(b) = n - 1 /\ Len(a) = i - 1
    BY <1>1, <1>2, <1>3
  <2>2. /\ a \o b \in Seq(S) /\ Len(a \o b) = Len(a) + Len(b)
        /\ \A j \in 1 .. Len(a) + Len(b) :
             (a \o b)[j] = IF j <= Len(a) THEN a[j] ELSE b[j - Len(a)]
    <3>1. a \in Seq(S) /\ b \in Seq(S)
      BY <1>2, <1>3
    <3> QED
      BY <3>1
  <2> QED
    BY <2>1, <2>2
<1>6. \A j \in 1 .. n - 1 : IF j < i THEN j \in 1 .. i - 1 /\ j <= i - 1
                            ELSE j - (i - 1) \in 1 .. n - i /\ ~(j <= i - 1) /\ i + (j - (i - 1)) = j + 1
  BY <1>1
<1>7. \A j \in 1 .. n - 1 : (a \o b)[j] = IF j < i THEN q[j] ELSE q[j + 1]
  BY <1>2, <1>3, <1>5, <1>6
<1> QED
  BY <1>4, <1>5, <1>7 DEF n

LEMMA SequenceIs ==
  ASSUME NEW S, NEW q \in Seq(S)
  PROVE  /\ Len(q) \in Nat /\ DOMAIN q = 1 .. Len(q)
         /\ \A i \in DOMAIN q : q[i] \in S
OBVIOUS

\* What _LRULockCache.get() leaves: the entry of the session comes last, what was there
\* before keeps its order, and only the oldest entry may go, by a miss of a full cache.
LEMMA GetIs ==
  ASSUME LocksInv, NEW s \in SessionIds, NEW t \in Turns,
         NEW after, after = CacheAfterGet(s, t), NEW m, m = Len(after)
  PROVE  /\ after \in Seq(Entry)
         /\ m \in Nat /\ m > 0 /\ DOMAIN after = 1 .. m
         /\ after[m].session = s
         /\ \A i, j \in 1 .. m : after[i].session = after[j].session => i = j
         /\ \/ \E h \in DOMAIN cache :
                 /\ cache[h].session = s /\ after[m] = cache[h] /\ m = Len(cache)
                 /\ \A j \in 1 .. m - 1 : after[j] = IF j < h THEN cache[j] ELSE cache[j + 1]
            \/ /\ \A h \in DOMAIN cache : cache[h].session # s
               /\ \/ /\ ~Full /\ m = Len(cache) + 1
                     /\ \A j \in 1 .. m - 1 : after[j] = cache[j]
                  \/ /\ Full /\ m = Len(cache)
                     /\ \A j \in 1 .. m - 1 : after[j] = cache[j + 1]
<1> DEFINE n == Len(cache)
           new == [session |-> s, lock |-> t]
<1>1. cache \in Seq(Entry) /\ n \in Nat /\ DOMAIN cache = 1 .. n /\ new \in Entry
  BY SequenceIs DEF LocksInv, LockTypes, Entry
<1>2. \A i, j \in 1 .. n : cache[i].session = cache[j].session => i = j
  BY <1>1 DEF LocksInv, OneEntryEach
<1>3. ASSUME NEW i \in DOMAIN cache, IsFor(s, i)
      PROVE  \E h \in DOMAIN cache : cache[h].session = s /\ after = Append(RemoveAt(cache, h), cache[h])
  <2> DEFINE h == CHOOSE j \in DOMAIN cache : IsFor(s, j)
  <2>1. h \in DOMAIN cache /\ IsFor(s, h)
    BY <1>3
  <2>2. after = Append(RemoveAt(cache, h), cache[h])
    BY <1>3 DEF CacheAfterGet
  <2> HIDE DEF h
  <2> QED
    BY <2>1, <2>2 DEF IsFor
<1>4. ASSUME NEW h \in DOMAIN cache, cache[h].session = s,
             after = Append(RemoveAt(cache, h), cache[h])
      PROVE  /\ after \in Seq(Entry) /\ Len(after) = n /\ n > 0 /\ after[n] = cache[h]
             /\ \A j \in 1 .. n - 1 : after[j] = IF j < h THEN cache[j] ELSE cache[j + 1]
  <2> DEFINE r == RemoveAt(cache, h)
  <2>1. h \in 1 .. n /\ cache[h] \in Entry
    BY <1>1, SequenceIs
  <2>2. r \in Seq(Entry) /\ Len(r) = n - 1
        /\ \A j \in 1 .. n - 1 : r[j] = IF j < h THEN cache[j] ELSE cache[j + 1]
    BY <1>1, <2>1, RemoveAtIs
  <2> HIDE DEF r, n
  <2>3. after = Append(r, cache[h])
    BY <1>4 DEF r
  <2>4. after \in Seq(Entry) /\ Len(after) = n /\ after[n] = cache[h]
        /\ \A j \in 1 .. n - 1 : after[j] = r[j]
    BY <1>1, <2>1, <2>2, <2>3
  <2> QED
    BY <1>1, <2>1, <2>2, <2>4
<1>5. ASSUME \A h \in DOMAIN cache : cache[h].session # s
      PROVE  /\ after \in Seq(Entry) /\ Len(after) > 0
             /\ after[Len(after)] = new
             /\ \/ /\ ~Full /\ Len(after) = n + 1
                   /\ \A j \in 1 .. n : after[j] = cache[j]
                \/ /\ Full /\ Len(after) = n
                   /\ \A j \in 1 .. n - 1 : after[j] = cache[j + 1]
  <2>1. after = Append(IF Full THEN Tail(cache) ELSE cache, new)
    BY <1>5 DEF CacheAfterGet, IsFor, Missed
  <2> HIDE DEF new
  <2>2. CASE ~Full
    <3>1. after = Append(cache, new)
      BY <2>1, <2>2
    <3> HIDE DEF n
    <3>2. Len(cache) = n /\ Len(after) = n + 1 /\ \A j \in 1 .. n : after[j] = cache[j]
      BY <1>1, <3>1 DEF n
    <3> QED
      BY <1>1, <2>2, <3>1, <3>2
  <2>3. CASE Full
    <3>1. n > 0 /\ cache # <<>>
      BY <1>1, <2>3, SessionsAssumption DEF Full, SessionsAssumption
    <3>2. Tail(cache) \in Seq(Entry) /\ Len(Tail(cache)) = n - 1
          /\ \A j \in 1 .. n - 1 : Tail(cache)[j] = cache[j + 1]
      BY <1>1, <3>1
    <3> QED
      BY <1>1, <2>1, <2>3, <3>1, <3>2
  <2> QED
    BY <2>2, <2>3
<1> HIDE DEF n
<1>6. CASE \E h \in DOMAIN cache : cache[h].session = s
  <2>1. PICK h \in DOMAIN cache : cache[h].session = s /\ after = Append(RemoveAt(cache, h), cache[h])
    BY <1>3, <1>6 DEF IsFor
  <2>2. /\ after \in Seq(Entry) /\ Len(after) = n /\ n > 0 /\ after[n] = cache[h]
        /\ \A j \in 1 .. n - 1 : after[j] = IF j < h THEN cache[j] ELSE cache[j + 1]
    BY <1>4, <2>1
  <2>3. \A i, j \in 1 .. n : after[i].session = after[j].session => i = j
    <3> DEFINE from(j) == IF j = n THEN h ELSE IF j < h THEN j ELSE j + 1
    <3>1. \A j \in 1 .. n : from(j) \in 1 .. n /\ after[j] = cache[from(j)]
      BY <1>1, <2>2
    <3>2. \A i, j \in 1 .. n : from(i) = from(j) => i = j
      BY <1>1
    <3> QED
      BY <1>2, <3>1, <3>2
  <2> QED
    BY <1>1, <2>1, <2>2, <2>3, SequenceIs DEF n
<1>7. CASE \A h \in DOMAIN cache : cache[h].session # s
  <2>1. /\ after \in Seq(Entry) /\ m > 0 /\ after[m] = new
        /\ \/ ~Full /\ m = n + 1 /\ \A j \in 1 .. n : after[j] = cache[j]
           \/ Full /\ m = n /\ \A j \in 1 .. n - 1 : after[j] = cache[j + 1]
    BY <1>5, <1>7
  <2>2. m \in Nat /\ DOMAIN after = 1 .. m
    BY <2>1, SequenceIs
  <2>3. \A j \in 1 .. m - 1 : \E i \in 1 .. n : after[j] = cache[i] /\ i \in {j, j + 1}
    BY <1>1, <2>1, <2>2
  <2>4. \A i, j \in 1 .. m : after[i].session = after[j].session => i = j
    <3>1. \A j \in 1 .. m - 1 : after[j].session # s
      BY <1>1, <1>7, <2>3
    <3>2. after[m].session = s
      BY <2>1
    <3>3. \A i, j \in 1 .. m - 1 : after[i].session = after[j].session => i = j
      BY <1>1, <1>2, <2>1, <2>2
    <3>4. \A j \in 1 .. m : j = m \/ j \in 1 .. m - 1
      BY <2>2
    <3> QED
      BY <3>1, <3>2, <3>3, <3>4
  <2>5. /\ \/ ~Full /\ m = n + 1 /\ \A j \in 1 .. m - 1 : after[j] = cache[j]
           \/ Full /\ m = n /\ \A j \in 1 .. m - 1 : after[j] = cache[j + 1]
    BY <1>1, <2>1
  <2> QED
    BY <1>7, <2>1, <2>2, <2>4, <2>5 DEF n
<1> QED
  BY <1>6, <1>7

\* Steps that leave the locks alone; a turn becomes a writer only at the head of a queue.
LEMMA LocksUntouched ==
  ASSUME LocksInv, UNCHANGED lockVars,
         \A u \in Turns : Asked(u)' <=> Asked(u),
         \A u \in Turns : Asked(u) => session'[u] = session[u],
         \A u \in Turns : Writing(u)' /\ ~Writing(u) =>
           \E l \in Turns : lockQueue[l] # <<>> /\ Head(lockQueue[l]) = u
  PROVE  LocksInv'
<1>1. cache' = cache /\ lockQueue' = lockQueue /\ since' = since
  BY DEF lockVars
<1>2. \A l \in Turns : \A i \in DOMAIN lockQueue[l] : lockQueue[l][i] \in Turns
  BY SequenceIs DEF LocksInv, LockTypes
<1>3. LockTypes' /\ OneEntryEach'
  BY <1>1 DEF LocksInv, LockTypes, OneEntryEach
<1>4. RetentionInv'
  <2> SUFFICES ASSUME NEW l \in Turns, NEW i \in DOMAIN lockQueue[l],
                      Cardinality(since[lockQueue[l][i]]) < MaxActiveSessions
               PROVE  Retained(lockQueue[l][i], l)'
    BY <1>1 DEF RetentionInv
  <2> DEFINE u == lockQueue[l][i]
  <2>1. u \in Turns /\ Asked(u)
    BY <1>2 DEF LocksInv, QueuesInv
  <2>2. session'[u] = session[u]
    BY <2>1
  <2>3. Retained(u, l)
    BY DEF LocksInv, RetentionInv
  <2> QED
    BY <1>1, <2>2, <2>3 DEF Retained
<1>5. QueuesInv'
  <2>1. \A l \in Turns : \A i \in DOMAIN lockQueue[l] : Asked(lockQueue[l][i])'
    BY <1>1, <1>2 DEF LocksInv, QueuesInv
  <2>2. ASSUME NEW u \in Turns, Asked(u)'
        PROVE  \E l \in Turns : \E i \in DOMAIN lockQueue[l] :
                 lockQueue[l][i] = u /\ (Writing(u)' => i = 1)
    <3>1. PICK l \in Turns : \E i \in DOMAIN lockQueue[l] :
                 lockQueue[l][i] = u /\ (Writing(u) => i = 1)
      BY <2>2 DEF LocksInv, QueuesInv
    <3>2. CASE Writing(u)' /\ ~Writing(u)
      <4>1. PICK m \in Turns : lockQueue[m] # <<>> /\ Head(lockQueue[m]) = u
        BY <3>2
      <4>2. lockQueue[m] \in Seq(Turns)
        BY DEF LocksInv, LockTypes
      <4>3. 1 \in DOMAIN lockQueue[m] /\ lockQueue[m][1] = u
        BY <4>1, <4>2
      <4> QED
        BY <4>3
    <3>3. CASE Writing(u)' => Writing(u)
      BY <3>1, <3>3
    <3> QED
      BY <3>2, <3>3
  <2> QED
    BY <1>1, <2>1, <2>2 DEF QueuesInv, LocksInv
<1> QED
  BY <1>3, <1>4, <1>5 DEF LocksInv

\* The entry of a turn that is under way after another request for a lock.
LEMMA GetRetains ==
  ASSUME LocksInv, LockTypes', NEW s \in SessionIds, NEW t \in Turns, cache' = CacheAfterGet(s, t),
         NEW u \in Turns, NEW l \in Turns, session' = session,
         since'[u] = IF session[u] # s THEN since[u] \cup {s} ELSE since[u],
         Cardinality(since'[u]) < MaxActiveSessions,
         Cardinality(since[u]) < MaxActiveSessions => Retained(u, l)
  PROVE  Retained(u, l)'
<1> DEFINE n == Len(cache)
           m == Len(cache')
<1>1. cache \in Seq(Entry) /\ n \in Nat /\ DOMAIN cache = 1 .. n
  BY SequenceIs DEF LocksInv, LockTypes
<1>2. /\ m \in Nat /\ m > 0 /\ DOMAIN cache' = 1 .. m
      /\ cache'[m].session = s
      /\ \/ \E h \in 1 .. n :
              /\ cache[h].session = s /\ cache'[m] = cache[h] /\ m = n
              /\ \A j \in 1 .. m - 1 : cache'[j] = IF j < h THEN cache[j] ELSE cache[j + 1]
         \/ /\ \A h \in 1 .. n : cache[h].session # s
            /\ \/ ~Full /\ m = n + 1 /\ \A j \in 1 .. m - 1 : cache'[j] = cache[j]
               \/ Full /\ m = n /\ \A j \in 1 .. m - 1 : cache'[j] = cache[j + 1]
  <2>1. m = Len(cache') /\ n = Len(cache)
    OBVIOUS
  <2> HIDE DEF m, n
  <2>2. /\ m \in Nat /\ m > 0 /\ DOMAIN cache' = 1 .. m
        /\ cache'[m].session = s
    BY <2>1, GetIs
  <2>3. \/ \E h \in DOMAIN cache :
              /\ cache[h].session = s /\ cache'[m] = cache[h] /\ m = Len(cache)
              /\ \A j \in 1 .. m - 1 : cache'[j] = IF j < h THEN cache[j] ELSE cache[j + 1]
        \/ /\ \A h \in DOMAIN cache : cache[h].session # s
           /\ \/ ~Full /\ m = Len(cache) + 1 /\ \A j \in 1 .. m - 1 : cache'[j] = cache[j]
              \/ Full /\ m = Len(cache) /\ \A j \in 1 .. m - 1 : cache'[j] = cache[j + 1]
    BY <2>1, GetIs
  <2>4. Len(cache) = n /\ DOMAIN cache = 1 .. n
    BY <1>1, <2>1
  <2>5. CASE \E h \in DOMAIN cache :
              /\ cache[h].session = s /\ cache'[m] = cache[h] /\ m = Len(cache)
              /\ \A j \in 1 .. m - 1 : cache'[j] = IF j < h THEN cache[j] ELSE cache[j + 1]
    BY <2>2, <2>4, <2>5
  <2>6. CASE /\ \A h \in DOMAIN cache : cache[h].session # s
             /\ \/ ~Full /\ m = Len(cache) + 1 /\ \A j \in 1 .. m - 1 : cache'[j] = cache[j]
                \/ Full /\ m = Len(cache) /\ \A j \in 1 .. m - 1 : cache'[j] = cache[j + 1]
    BY <2>2, <2>4, <2>6
  <2> QED
    BY <2>3, <2>5, <2>6
<1>3. /\ IsFiniteSet(since[u]) /\ IsFiniteSet(since'[u])
      /\ Cardinality(since[u]) \in Nat /\ Cardinality(since'[u]) \in Nat
      /\ since[u] \subseteq since'[u]
  BY FS_CardinalityType DEF LocksInv, LockTypes
<1>4. Cardinality(since[u]) <= Cardinality(since'[u])
  BY <1>3, FS_Subset
<1>5. MaxActiveSessions \in Nat
  BY SessionsAssumption DEF SessionsAssumption
<1>6. PICK j \in 1 .. n : /\ cache[j] = [session |-> session[u], lock |-> l]
                         /\ \A k \in 1 .. n : k > j => cache[k].session \in since[u]
  BY <1>1, <1>3, <1>4, <1>5 DEF Retained
<1>7. cache[j].session = session[u]
  BY <1>6
<1> HIDE DEF n, m
<1>8. SUFFICES ASSUME NEW i \in 1 .. m, cache'[i] = cache[j],
                      \A k \in 1 .. m : k > i => cache'[k].session \in since'[u]
               PROVE  Retained(u, l)'
  <2>1. \A i \in 1 .. m : i = m \/ i \in 1 .. m - 1
    BY <1>2
  <2>2. CASE session[u] = s
    <3>1. PICK h \in 1 .. n :
             /\ cache[h].session = s /\ cache'[m] = cache[h] /\ m = n
      BY <1>2, <1>7, <2>2
    <3>2. h = j
      BY <1>1, <1>7, <2>2, <3>1 DEF LocksInv, OneEntryEach, n
    <3> QED
      BY <1>2, <1>8, <3>1, <3>2
  <2>3. CASE session[u] # s
    <3>0. s \in since'[u]
      BY <2>3
    <3>1. ASSUME NEW h \in 1 .. n, cache[h].session = s, m = n,
                 \A i \in 1 .. m - 1 : cache'[i] = IF i < h THEN cache[i] ELSE cache[i + 1]
          PROVE  \E i \in 1 .. m : /\ cache'[i] = cache[j]
                                   /\ \A k \in 1 .. m : k > i => cache'[k].session \in since'[u]
      <4>1. h # j
        BY <1>7, <2>3, <3>1
      <4> DEFINE i == IF j < h THEN j ELSE j - 1
      <4>2. i \in 1 .. m - 1 /\ cache'[i] = cache[j]
        BY <1>1, <3>1, <4>1 DEF n
      <4>3. \A k \in 1 .. m - 1 : k > i =>
              IF k < h THEN k > j ELSE k + 1 > j /\ k + 1 \in 1 .. n
        BY <1>1, <3>1, <4>1 DEF n
      <4>4. \A k \in 1 .. m - 1 : k \in 1 .. n
        BY <1>1, <3>1 DEF n
      <4> HIDE DEF i
      <4>5. \A k \in 1 .. m - 1 : k > i => cache'[k].session \in since[u]
        BY <1>6, <3>1, <4>3, <4>4
      <4>6. i \in 1 .. m
        BY <1>2, <4>2
      <4> QED
        BY <1>2, <1>3, <2>1, <3>0, <4>2, <4>5, <4>6
    <3>2. ASSUME m = n + 1, \A i \in 1 .. m - 1 : cache'[i] = cache[i]
          PROVE  \E i \in 1 .. m : /\ cache'[i] = cache[j]
                                   /\ \A k \in 1 .. m : k > i => cache'[k].session \in since'[u]
      <4>1. j \in 1 .. m /\ j \in 1 .. m - 1 /\ \A k \in 1 .. m - 1 : k \in 1 .. n
        BY <1>1, <3>2 DEF n
      <4>2. cache'[j] = cache[j] /\ \A k \in 1 .. m - 1 : k > j => cache'[k].session \in since[u]
        BY <1>6, <3>2, <4>1
      <4> QED
        BY <1>2, <1>3, <2>1, <3>0, <4>1, <4>2
    <3>3. ASSUME Full, m = n, \A i \in 1 .. m - 1 : cache'[i] = cache[i + 1],
                 \A h \in 1 .. n : cache[h].session # s
          PROVE  \E i \in 1 .. m : /\ cache'[i] = cache[j]
                                   /\ \A k \in 1 .. m : k > i => cache'[k].session \in since'[u]
      <4>1. j # 1
        <5> SUFFICES ASSUME j = 1 PROVE FALSE
          OBVIOUS
        <5> DEFINE f == [k \in 1 .. n |-> IF k = 1 THEN s ELSE cache[k].session]
        <5>1. f \in [1 .. n -> since'[u]]
          BY <1>1, <1>3, <1>6, <3>0 DEF n
        <5>2. \A h, k \in 1 .. n : f[h] = f[k] => h = k
          BY <1>1, <3>3 DEF LocksInv, OneEntryEach, n
        <5>3. f \in Injection(1 .. n, since'[u])
          <6> HIDE DEF f
          <6> QED
            BY <5>1, <5>2 DEF Injection, IsInjective
        <5>4. Cardinality(1 .. n) <= Cardinality(since'[u])
          BY <1>3, <5>3, FS_Injection
        <5>5. n \in Nat /\ n > 0 /\ n >= MaxActiveSessions
          BY <1>1, <1>2, <3>3 DEF Full, n
        <5>6. Cardinality(1 .. n) = n
          BY <5>5, FS_Interval
        <5> QED
          BY <1>3, <1>5, <5>4, <5>5, <5>6
      <4>2. j - 1 \in 1 .. m /\ j - 1 \in 1 .. m - 1 /\ j - 1 + 1 = j
        BY <1>1, <3>3, <4>1 DEF n
      <4>3. \A k \in 1 .. m - 1 : k > j - 1 => k + 1 > j /\ k + 1 \in 1 .. n
        BY <1>1, <3>3, <4>1 DEF n
      <4>4. cache'[j - 1] = cache[j]
            /\ \A k \in 1 .. m - 1 : k > j - 1 => cache'[k].session \in since[u]
        BY <1>6, <3>3, <4>2, <4>3
      <4> QED
        BY <1>2, <1>3, <2>1, <3>0, <4>2, <4>4
    <3> QED
      BY <1>2, <1>8, <3>1, <3>2, <3>3
  <2> QED
    BY <2>2, <2>3
<1> QED
  BY <1>2, <1>6, <1>8 DEF Retained, m

\* The end of append()'s first section: the turn joins the queue of the session's lock.
LEMMA AskKeepsLocks ==
  ASSUME IInv, LocksInv, NEW t \in Turns, AskForLock(t)
  PROVE  LocksInv'
<1> DEFINE s == session[t]
           after == CacheAfterGet(s, t)
           m == Len(after)
           l == Last(after).lock
           n == Len(lockQueue[l])
<1>1. /\ pc[t] = "ready" /\ s \in SessionIds /\ session' = session /\ cache' = after
      /\ lockQueue' = [lockQueue EXCEPT ![l] = Append(@, t)]
      /\ pc' = [pc EXCEPT ![t] = IF lockQueue[l] = <<>> THEN "writing" ELSE "waiting"]
      /\ since' = [u \in Turns |-> IF Asked(u) /\ session[u] # s THEN since[u] \cup {s} ELSE since[u]]
  <2>1. pc[t] = "ready" /\ UNCHANGED <<indexVars, fileVars, session, counters>>
    BY DEF AskForLock
  <2>2. s \in SessionIds /\ session' = session
    BY <2>1 DEF IInv, Domains, Underway, counters
  <2> QED
    BY <2>1, <2>2 DEF AskForLock, Asked
<1>2. /\ after \in Seq(Entry) /\ m \in Nat /\ m > 0 /\ DOMAIN after = 1 .. m
      /\ after[m].session = s
      /\ \A i, j \in 1 .. m : after[i].session = after[j].session => i = j
  BY <1>1, GetIs
<1>3. after[m] \in Entry /\ l = after[m].lock /\ l \in Turns
  <2>1. after[m] \in Entry
    <3> HIDE DEF m, after
    <3> QED
      BY <1>2
  <2> QED
    BY <2>1 DEF Last, Entry
<1>4. /\ lockQueue[l] \in Seq(Turns) /\ n \in Nat /\ DOMAIN lockQueue[l] = 1 .. n
      /\ \A k \in Turns : \A i \in DOMAIN lockQueue[k] : lockQueue[k][i] \in Turns
  BY <1>3, SequenceIs DEF LocksInv, LockTypes
<1> HIDE DEF n, l, m, after
<1>5. /\ \A k \in Turns \ {l} : lockQueue'[k] = lockQueue[k]
      /\ DOMAIN lockQueue'[l] = 1 .. n + 1 /\ lockQueue'[l][n + 1] = t
      /\ \A i \in 1 .. n : lockQueue'[l][i] = lockQueue[l][i]
      /\ lockQueue' \in [Turns -> Seq(Turns)]
  <2>1. lockQueue \in [Turns -> Seq(Turns)]
    BY DEF LocksInv, LockTypes
  <2>2. lockQueue'[l] = Append(lockQueue[l], t) /\ Append(lockQueue[l], t) \in Seq(Turns)
    BY <1>1, <1>3, <1>4, <2>1
  <2> QED
    BY <1>1, <1>3, <1>4, <2>1, <2>2 DEF n
<1>6. /\ t \in Calls /\ ~Asked(t) /\ Asked(t)' /\ (Writing(t)' => n = 0)
      /\ \A u \in Turns \ {t} : (Asked(u)' <=> Asked(u)) /\ (Writing(u)' <=> Writing(u))
  <2>1. Turns \subseteq Calls /\ pc \in [Calls -> PcStates]
    BY DEF Calls, SessionIds, IInv, Domains
  <2>2. lockQueue[l] = <<>> => n = 0
    BY DEF n
  <2> QED
    BY <1>1, <2>1, <2>2 DEF Asked, Writing
<1>7. \A k \in Turns : \A i \in DOMAIN lockQueue[k] : lockQueue[k][i] # t
  BY <1>6 DEF LocksInv, QueuesInv
\* Every place in a queue is an old one, or the new one of t.
<1>8. \A k \in Turns : \A i \in DOMAIN lockQueue'[k] :
        \/ i \in DOMAIN lockQueue[k] /\ lockQueue'[k][i] = lockQueue[k][i]
        \/ k = l /\ i = n + 1 /\ lockQueue'[k][i] = t
  <2>1. \A i \in 1 .. n + 1 : i \in 1 .. n \/ i = n + 1
    BY <1>4
  <2> QED
    BY <1>3, <1>4, <1>5, <2>1
<1>9. LockTypes'
  <2>1. since' \in [Turns -> SUBSET SessionIds]
    BY <1>1 DEF LocksInv, LockTypes
  <2>2. \A u \in Turns : IsFiniteSet(since'[u])
    <3>1. TAKE u \in Turns
    <3>2. IsFiniteSet(since[u]) /\ IsFiniteSet(since[u] \cup {s})
      BY FS_AddElement DEF LocksInv, LockTypes
    <3> QED
      BY <1>1, <3>2
  <2> QED
    BY <1>1, <1>2, <1>5, <2>1, <2>2 DEF LockTypes
<1>10. OneEntryEach'
  BY <1>1, <1>2 DEF OneEntryEach
<1>11. QueuesInv'
  <2>1. \A k \in Turns : \A i \in DOMAIN lockQueue'[k] : Asked(lockQueue[k][i])'
    <3>1. TAKE k \in Turns
    <3>2. TAKE i \in DOMAIN lockQueue'[k]
    <3>3. CASE i \in DOMAIN lockQueue[k] /\ lockQueue'[k][i] = lockQueue[k][i]
      BY <1>4, <1>6, <1>7, <3>3 DEF LocksInv, QueuesInv
    <3> QED
      BY <1>6, <1>8, <3>3
  <2>2. \A k, j \in Turns : \A i \in DOMAIN lockQueue'[k], h \in DOMAIN lockQueue'[j] :
          lockQueue'[k][i] = lockQueue'[j][h] => k = j /\ i = h
    BY <1>7, <1>8 DEF LocksInv, QueuesInv
  <2>3. ASSUME NEW u \in Turns, Asked(u)'
        PROVE  \E k \in Turns : \E i \in DOMAIN lockQueue'[k] :
                 lockQueue'[k][i] = u /\ (Writing(u)' => i = 1)
    <3>1. CASE u = t
      <4>1. n + 1 \in DOMAIN lockQueue'[l] /\ (n = 0 => n + 1 = 1)
        BY <1>4, <1>5
      <4> QED
        BY <1>3, <1>5, <1>6, <3>1, <4>1
    <3>2. CASE u # t
      <4>1. PICK k \in Turns : \E i \in DOMAIN lockQueue[k] :
                   lockQueue[k][i] = u /\ (Writing(u) => i = 1)
        BY <1>6, <2>3, <3>2 DEF LocksInv, QueuesInv
      <4>2. PICK i \in DOMAIN lockQueue[k] : lockQueue[k][i] = u /\ (Writing(u) => i = 1)
        BY <4>1
      <4>3. i \in DOMAIN lockQueue'[k] /\ lockQueue'[k][i] = u
        <5>1. CASE k = l
          <6>1. i \in 1 .. n /\ i \in 1 .. n + 1
            BY <1>4, <4>2, <5>1
          <6> QED
            BY <1>5, <4>2, <5>1, <6>1
        <5>2. CASE k # l
          BY <1>5, <4>2, <5>2
        <5> QED
          BY <5>1, <5>2
      <4> QED
        BY <1>6, <3>2, <4>2, <4>3
    <3> QED
      BY <3>1, <3>2
  <2> QED
    BY <2>1, <2>2, <2>3 DEF QueuesInv
<1>12. RetentionInv'
  <2> SUFFICES ASSUME NEW k \in Turns, NEW i \in DOMAIN lockQueue'[k],
                      Cardinality(since'[lockQueue'[k][i]]) < MaxActiveSessions
               PROVE  Retained(lockQueue[k][i], k)'
    BY DEF RetentionInv
  <2>1. CASE i \in DOMAIN lockQueue[k] /\ lockQueue'[k][i] = lockQueue[k][i]
    <3>0. PICK u \in Turns : u = lockQueue[k][i]
      BY <1>4, <2>1
    <3>1. Asked(u) /\ (Cardinality(since[u]) < MaxActiveSessions => Retained(u, k))
      BY <2>1, <3>0 DEF LocksInv, QueuesInv, RetentionInv
    <3>2. since'[u] = IF session[u] # s THEN since[u] \cup {s} ELSE since[u]
      BY <1>1, <3>1
    <3>3. Cardinality(since'[u]) < MaxActiveSessions
      BY <2>1, <3>0
    <3>4. Retained(u, k)'
      BY <1>1, <1>9, <3>1, <3>2, <3>3, GetRetains DEF after
    <3> QED
      BY <2>1, <3>0, <3>4 DEF Retained
  <2>2. CASE k = l /\ i = n + 1 /\ lockQueue'[k][i] = t
    <3>1. cache'[m] = [session |-> session'[t], lock |-> l]
      BY <1>1, <1>2, <1>3 DEF Entry
    <3>2. m \in DOMAIN cache' /\ \A j \in DOMAIN cache' : ~(j > m)
      BY <1>1, <1>2
    <3> QED
      BY <2>2, <3>1, <3>2 DEF Retained
  <2> QED
    BY <1>8, <2>1, <2>2
<1> QED
  BY <1>9, <1>10, <1>11, <1>12 DEF LocksInv

\* However an append() ends, it takes itself out of its queue.
LEMMA ReleaseKeepsLocks ==
  ASSUME IInv, LocksInv, NEW t \in Turns, ReleaseLock(t), UNCHANGED session,
         Writing(t), NEW v \in Ended, pc' = [pc EXCEPT ![t] = v]
  PROVE  LocksInv'
<1>1. /\ Writing(t) /\ pc' = [pc EXCEPT ![t] = v]
      /\ lockQueue' = [l \in Turns |-> IF lockQueue[l] # <<>> /\ Head(lockQueue[l]) = t
                                       THEN Tail(lockQueue[l]) ELSE lockQueue[l]]
      /\ since' = [since EXCEPT ![t] = {}]
      /\ cache' = cache /\ session' = session
  BY DEF ReleaseLock
<1>2. /\ ~Asked(t)' /\ Asked(t) /\ Writing(t)
      /\ \A u \in Turns \ {t} : (Asked(u)' <=> Asked(u)) /\ (Writing(u)' <=> Writing(u))
                               /\ since'[u] = since[u]
  <2>1. Turns \subseteq Calls /\ pc \in [Calls -> PcStates] /\ since \in [Turns -> SUBSET SessionIds]
    BY DEF Calls, SessionIds, IInv, Domains, LocksInv, LockTypes
  <2> QED
    BY <1>1, <2>1 DEF Asked, Writing, Ended
<1>3. PICK l \in Turns : 1 \in DOMAIN lockQueue[l] /\ lockQueue[l][1] = t
  BY <1>2 DEF LocksInv, QueuesInv
<1> DEFINE n == Len(lockQueue[l])
<1>4. /\ lockQueue[l] \in Seq(Turns) /\ n \in Nat /\ DOMAIN lockQueue[l] = 1 .. n
      /\ \A k \in Turns : \A i \in DOMAIN lockQueue[k] : lockQueue[k][i] \in Turns
  BY SequenceIs DEF LocksInv, LockTypes
<1>5. \A k \in Turns \ {l} : lockQueue'[k] = lockQueue[k]
  <2>1. TAKE k \in Turns \ {l}
  <2>2. lockQueue[k] # <<>> => 1 \in DOMAIN lockQueue[k] /\ Head(lockQueue[k]) = lockQueue[k][1]
    <3>1. lockQueue[k] \in Seq(Turns)
      BY DEF LocksInv, LockTypes
    <3> QED
      BY <3>1
  <2>3. 1 \in DOMAIN lockQueue[k] => lockQueue[k][1] # t
    BY <1>3 DEF LocksInv, QueuesInv
  <2> QED
    BY <1>1, <2>2, <2>3
<1>6. lockQueue'[l] = Tail(lockQueue[l]) /\ lockQueue[l] # <<>>
  BY <1>1, <1>3, <1>4
<1>7. DOMAIN lockQueue'[l] = 1 .. n - 1 /\ \A i \in 1 .. n - 1 : lockQueue'[l][i] = lockQueue[l][i + 1]
  BY <1>4, <1>6
<1> HIDE DEF n
\* Every place left is an old one, of a turn other than t, or follows it.
<1>8. \A k \in Turns : \A i \in DOMAIN lockQueue'[k] :
        \E j \in DOMAIN lockQueue[k] :
          /\ lockQueue'[k][i] = lockQueue[k][j] /\ lockQueue[k][j] # t
          /\ j = IF k = l THEN i + 1 ELSE i
  <2>1. \A i \in 1 .. n - 1 : i + 1 \in 1 .. n /\ i + 1 # 1
    BY <1>4
  <2>2. \A k \in Turns : \A j \in DOMAIN lockQueue[k] : lockQueue[k][j] = t => k = l /\ j = 1
    BY <1>3 DEF LocksInv, QueuesInv
  <2> QED
    BY <1>4, <1>5, <1>7, <2>1, <2>2
<1>9. LockTypes'
  <2>1. lockQueue' \in [Turns -> Seq(Turns)]
    <3>1. \A k \in Turns : lockQueue[k] \in Seq(Turns)
      BY DEF LocksInv, LockTypes
    <3>2. Tail(lockQueue[l]) \in Seq(Turns)
      BY <1>4, <1>6
    <3>3. \A k \in Turns : lockQueue'[k] \in Seq(Turns)
      BY <1>5, <1>6, <3>1, <3>2
    <3> QED
      BY <1>1, <3>3
  <2>2. since' \in [Turns -> SUBSET SessionIds] /\ \A u \in Turns : IsFiniteSet(since'[u])
    BY <1>1, FS_EmptySet DEF LocksInv, LockTypes
  <2> QED
    BY <1>1, <2>1, <2>2 DEF LocksInv, LockTypes
<1>10. OneEntryEach'
  BY <1>1 DEF LocksInv, OneEntryEach
<1>11. QueuesInv'
  <2>1. \A k \in Turns : \A i \in DOMAIN lockQueue'[k] : Asked(lockQueue[k][i])'
    <3>1. TAKE k \in Turns
    <3>2. TAKE i \in DOMAIN lockQueue'[k]
    <3>3. PICK j \in DOMAIN lockQueue[k] : lockQueue'[k][i] = lockQueue[k][j] /\ lockQueue[k][j] # t
      BY <1>8
    <3>4. Asked(lockQueue[k][j]) /\ lockQueue[k][j] \in Turns \ {t}
      BY <1>4, <3>3 DEF LocksInv, QueuesInv
    <3>5. \A u \in Turns \ {t} : Asked(u) => pc'[u] \in {"waiting", "writing", "half", "written"}
      BY <1>2 DEF Asked
    <3> QED
      BY <3>3, <3>4, <3>5 DEF Asked
  <2>2. ASSUME NEW k \in Turns, NEW j \in Turns, NEW i \in DOMAIN lockQueue'[k],
               NEW h \in DOMAIN lockQueue'[j], lockQueue'[k][i] = lockQueue'[j][h]
        PROVE  k = j /\ i = h
    <3>1. PICK ii \in DOMAIN lockQueue[k] : /\ lockQueue'[k][i] = lockQueue[k][ii]
                                            /\ ii = IF k = l THEN i + 1 ELSE i
      BY <1>8
    <3>2. PICK hh \in DOMAIN lockQueue[j] : /\ lockQueue'[j][h] = lockQueue[j][hh]
                                            /\ hh = IF j = l THEN h + 1 ELSE h
      BY <1>8
    <3>3. k = j /\ ii = hh
      <4>1. lockQueue[k][ii] = lockQueue[j][hh]
        BY <2>2, <3>1, <3>2
      <4> QED
        BY <4>1 DEF LocksInv, QueuesInv
    <3>4. k = l => i \in Int /\ h \in Int
      BY <1>4, <1>7, <3>3
    <3> QED
      BY <3>1, <3>2, <3>3, <3>4
  <2>3. ASSUME NEW u \in Turns, Asked(u)'
        PROVE  \E k \in Turns : \E i \in DOMAIN lockQueue'[k] :
                 lockQueue'[k][i] = u /\ (Writing(u)' => i = 1)
    <3>1. u # t /\ Asked(u)
      BY <1>2, <2>3
    <3>2. PICK k \in Turns : \E i \in DOMAIN lockQueue[k] :
                 lockQueue[k][i] = u /\ (Writing(u) => i = 1)
      BY <3>1 DEF LocksInv, QueuesInv
    <3>3. PICK i \in DOMAIN lockQueue[k] : lockQueue[k][i] = u /\ (Writing(u) => i = 1)
      BY <3>2
    <3>4. CASE k # l
      BY <1>2, <1>5, <3>1, <3>3, <3>4
    <3>5. CASE k = l
      <4>1. i \in 1 .. n /\ i # 1
        BY <1>3, <1>4, <3>1, <3>3, <3>5
      <4>2. i - 1 \in 1 .. n - 1 /\ i - 1 + 1 = i
        BY <1>4, <4>1
      <4>3. lockQueue'[l][i - 1] = u /\ ~Writing(u)'
        BY <1>2, <1>7, <3>1, <3>3, <3>5, <4>1, <4>2
      <4> QED
        BY <1>7, <4>2, <4>3
    <3> QED
      BY <3>4, <3>5
  <2> QED
    BY <2>1, <2>2, <2>3 DEF QueuesInv
<1>12. RetentionInv'
  <2> SUFFICES ASSUME NEW k \in Turns, NEW i \in DOMAIN lockQueue'[k],
                      Cardinality(since'[lockQueue'[k][i]]) < MaxActiveSessions
               PROVE  Retained(lockQueue[k][i], k)'
    BY DEF RetentionInv
  <2>1. PICK j \in DOMAIN lockQueue[k] : lockQueue'[k][i] = lockQueue[k][j] /\ lockQueue[k][j] # t
    BY <1>8
  <2>2. since'[lockQueue[k][j]] = since[lockQueue[k][j]]
    BY <1>2, <1>4, <2>1
  <2>3. Retained(lockQueue[k][j], k)
    BY <2>1, <2>2 DEF LocksInv, RetentionInv
  <2> QED
    BY <1>1, <2>1, <2>2, <2>3 DEF Retained
<1> QED
  BY <1>9, <1>10, <1>11, <1>12 DEF LocksInv

LEMMA LocksKept ==
  ASSUME IInv, LocksInv, [Next]_vars
  PROVE  LocksInv'
<1>t. Turns \subseteq Calls /\ pc \in [Calls -> PcStates]
  BY DEF Calls, SessionIds, IInv, Domains
\* A turn that goes on.
<1>1. ASSUME NEW t \in Turns, UNCHANGED <<lockVars, session>>,
             NEW v \in {"opened", "ready", "failed", "writing", "half", "written"},
             pc' = [pc EXCEPT ![t] = v],
             Asked(t) <=> v \in {"writing", "half", "written"},
             v = "writing" => \E l \in Turns : lockQueue[l] # <<>> /\ Head(lockQueue[l]) = t,
             v \in {"half", "written"} => Writing(t)
      PROVE  LocksInv'
  <2>1. \A u \in Turns : pc'[u] = IF u = t THEN v ELSE pc[u]
    BY <1>1, <1>t
  <2>2. \A u \in Turns : (Asked(u)' <=> Asked(u)) /\ session'[u] = session[u]
    BY <1>1, <2>1 DEF Asked
  <2>3. \A u \in Turns : Writing(u)' /\ ~Writing(u) =>
          \E l \in Turns : lockQueue[l] # <<>> /\ Head(lockQueue[l]) = u
    BY <1>1, <2>1 DEF Writing
  <2> QED
    BY <1>1, <2>2, <2>3, LocksUntouched
\* A call that is not a turn, or a turn that does not open.
<1>2. ASSUME NEW c \in Calls, NEW v \in {"done", "failed"}, pc[c] = "idle",
             pc' = [pc EXCEPT ![c] = v], UNCHANGED <<lockVars, session>>
      PROVE  LocksInv'
  <2>1. \A u \in Turns : (Asked(u)' <=> Asked(u)) /\ (Writing(u)' => Writing(u))
    BY <1>2, <1>t DEF Asked, Writing
  <2> QED
    BY <1>2, <2>1, LocksUntouched
<1>3. ASSUME NEW t \in Turns, GetOrCreate(t) PROVE LocksInv'
  <2>1. /\ UNCHANGED lockVars /\ pc[t] = "idle"
        /\ \E v \in {"opened", "failed"} : pc' = [pc EXCEPT ![t] = v]
        /\ \/ UNCHANGED session
           \/ \E s \in SessionIds \cup {None} \cup Turns \cup {index.active[KeyOf[t]]} :
                session' = [session EXCEPT ![t] = s]
    BY <1>3 DEF GetOrCreate
  <2>2. \A u \in Turns : u # t => session'[u] = session[u]
    BY <2>1 DEF IInv, Domains
  <2>3. \A u \in Turns : /\ Asked(u)' <=> Asked(u)
                         /\ Writing(u)' => Writing(u)
                         /\ Asked(u) => u # t
    BY <1>t, <2>1 DEF Asked, Writing
  <2> QED
    BY <2>1, <2>2, <2>3, LocksUntouched
<1>4. ASSUME NEW t \in Turns, LoadHistory(t) PROVE LocksInv'
  <2>1. /\ UNCHANGED <<lockVars, session>> /\ pc[t] = "opened"
        /\ \E v \in {"ready", "failed"} : pc' = [pc EXCEPT ![t] = v]
    BY <1>4 DEF LoadHistory
  <2> QED
    BY <1>1, <2>1 DEF Asked
<1>5. ASSUME NEW t \in Turns, Acquire(t) PROVE LocksInv'
  BY <1>1, <1>5 DEF Acquire, Asked
<1>6. ASSUME NEW t \in Turns, WriteUser(t) PROVE LocksInv'
  BY <1>1, <1>6 DEF WriteUser, Asked, Writing
<1>7. ASSUME NEW t \in Turns, WriteAssistant(t) PROVE LocksInv'
  BY <1>1, <1>7 DEF WriteAssistant, Asked, Writing
<1>11. ASSUME NEW t \in Turns, WriteFails(t) \/ AppendDone(t) PROVE LocksInv'
  <2>1. Writing(t) /\ ReleaseLock(t) /\ UNCHANGED session
    BY <1>11 DEF WriteFails, AppendDone, Writing
  <2>2. WriteFails(t) => \E v \in {"cut", "failed"} : pc' = [pc EXCEPT ![t] = v]
    BY DEF WriteFails
  <2>3. AppendDone(t) => \E v \in {"done", "failed"} : pc' = [pc EXCEPT ![t] = v]
    BY ChangeIs, CallsAre DEF AppendDone, CountTurn, IInv
  <2> QED
    BY <1>11, <2>1, <2>2, <2>3, ReleaseKeepsLocks DEF Ended
<1>8. ASSUME NEW c \in NewCmds \cup VerboseCmds \cup ClearCalls,
             CreateNewSession(c) \/ UpdateVerbose(c) \/ ClearAll(c)
      PROVE  LocksInv'
  <2>1. c \in Calls
    BY DEF Calls, SessionIds
  <2>2. /\ pc[c] = "idle" /\ UNCHANGED <<lockVars, session>>
        /\ (\E new : ChangeIndex(c, new)) \/ pc' = [pc EXCEPT ![c] = "done"]
    BY <1>8 DEF CreateNewSession, UpdateVerbose, ClearAll
  <2>3. \E v \in {"done", "failed"} : pc' = [pc EXCEPT ![c] = v]
    BY <2>1, <2>2, ChangeIs DEF IInv
  <2> QED
    BY <1>2, <2>1, <2>2, <2>3
<1>9. CASE Crash
  <2>1. /\ cache' = <<>> /\ lockQueue' = [l \in Turns |-> <<>>] /\ since' = [t \in Turns |-> {}]
        /\ \A t \in Turns : ~Asked(t)'
    BY <1>9, <1>t DEF Crash, Asked, Ended
  <2>2. <<>> \in Seq(Entry) /\ <<>> \in Seq(Turns) /\ IsFiniteSet({}) /\ DOMAIN <<>> = {}
    BY FS_EmptySet
  <2>3. LockTypes'
    BY <2>1, <2>2 DEF LockTypes
  <2>4. QueuesInv'
    BY <2>1, <2>2 DEF QueuesInv
  <2>5. OneEntryEach' /\ RetentionInv'
    BY <2>1, <2>2 DEF OneEntryEach, RetentionInv
  <2> QED
    BY <2>3, <2>4, <2>5 DEF LocksInv
<1>10. CASE UNCHANGED vars
  BY <1>10, LocksUntouched DEF vars, lockVars, Asked, Writing
<1> QED
  BY <1>3, <1>4, <1>5, <1>6, <1>7, <1>8, <1>9, <1>10, <1>11, AskKeepsLocks
     DEF Next, Turn

\* The cache and the lock queues start consistent.
LEMMA LocksInit == Init => LocksInv
<1> SUFFICES ASSUME Init PROVE LocksInv
  OBVIOUS
<1>1. /\ cache = <<>> /\ lockQueue = [l \in Turns |-> <<>>] /\ since = [t \in Turns |-> {}]
      /\ \A t \in Turns : ~Asked(t)
  BY DEF Init, Asked, Calls, SessionIds
<1>2. <<>> \in Seq(Entry) /\ <<>> \in Seq(Turns) /\ IsFiniteSet({}) /\ DOMAIN <<>> = {}
  BY FS_EmptySet
<1>3. LockTypes
  BY <1>1, <1>2 DEF LockTypes
<1>4. QueuesInv
  BY <1>1, <1>2 DEF QueuesInv
<1>5. OneEntryEach /\ RetentionInv
  BY <1>1, <1>2 DEF OneEntryEach, RetentionInv
<1> QED
  BY <1>3, <1>4, <1>5 DEF LocksInv

\* The LRU cache of locks keeps two append() calls from writing one session's file at a
\* time, unless max_active_sessions other sessions were asked for meanwhile.
THEOREM WritersExclude == Spec => []TwoWritersNeedTraffic
<1>1. ASSUME LocksInv PROVE TwoWritersNeedTraffic
  <2> SUFFICES ASSUME NEW t \in Turns, NEW u \in Turns, t # u, Writing(t), Writing(u),
                      session[t] = session[u],
                      ~(Cardinality(since[t]) >= MaxActiveSessions),
                      ~(Cardinality(since[u]) >= MaxActiveSessions)
               PROVE  FALSE
    BY DEF TwoWritersNeedTraffic
  <2>1. /\ Cardinality(since[t]) < MaxActiveSessions /\ Cardinality(since[u]) < MaxActiveSessions
    <3>1. Cardinality(since[t]) \in Nat /\ Cardinality(since[u]) \in Nat /\ MaxActiveSessions \in Nat
      BY <1>1, SessionsAssumption, FS_CardinalityType DEF LocksInv, LockTypes, SessionsAssumption
    <3> QED
      BY <3>1
  <2>2. PICK l \in Turns : 1 \in DOMAIN lockQueue[l] /\ lockQueue[l][1] = t
    BY <1>1 DEF LocksInv, QueuesInv, Asked, Writing
  <2>3. PICK m \in Turns : 1 \in DOMAIN lockQueue[m] /\ lockQueue[m][1] = u
    BY <1>1 DEF LocksInv, QueuesInv, Asked, Writing
  <2>4. Retained(t, l) /\ Retained(u, m)
    BY <1>1, <2>1, <2>2, <2>3 DEF LocksInv, RetentionInv
  <2>5. PICK i \in DOMAIN cache : cache[i] = [session |-> session[t], lock |-> l]
    BY <2>4 DEF Retained
  <2>6. PICK j \in DOMAIN cache : cache[j] = [session |-> session[u], lock |-> m]
    BY <2>4 DEF Retained
  <2>7. i = j
    BY <1>1, <2>5, <2>6 DEF LocksInv, OneEntryEach
  <2>8. l = m
    BY <2>5, <2>6, <2>7
  <2> QED
    BY <2>2, <2>3, <2>8
<1>2. IInv /\ LocksInv /\ [Next]_vars => LocksInv'
  BY LocksKept
<1> QED
  BY <1>1, <1>2, LocksInit, InitHolds, StepKeeps, PTL DEF Spec

\* Whatever locks are pushed out of the cache and whatever writes raise, a call that
\* waits for a lock stands behind a call that is still inside append().
THEOREM WaitersGetTheirLock == Spec => []WaitersAreServed
<1>1. ASSUME LocksInv PROVE WaitersAreServed
  <2> SUFFICES ASSUME NEW t \in Turns, pc[t] = "waiting"
               PROVE  \E l \in Turns : /\ t \in ToSet(lockQueue[l])
                                      /\ Asked(Head(lockQueue[l]))
    BY DEF WaitersAreServed, Asked, Writing
  <2>1. PICK l \in Turns : \E i \in DOMAIN lockQueue[l] : lockQueue[l][i] = t
    BY <1>1 DEF LocksInv, QueuesInv, Asked
  <2>2. t \in ToSet(lockQueue[l])
    BY <2>1 DEF ToSet
  <2>3. lockQueue[l] \in Seq(Turns) /\ lockQueue[l] # <<>>
    BY <1>1, <2>1 DEF LocksInv, LockTypes
  <2>4. 1 \in DOMAIN lockQueue[l] /\ Head(lockQueue[l]) = lockQueue[l][1]
    BY <2>3
  <2>5. Asked(Head(lockQueue[l]))
    BY <1>1, <2>4 DEF LocksInv, QueuesInv
  <2> QED
    BY <2>2, <2>5
<1>2. IInv /\ LocksInv /\ [Next]_vars => LocksInv'
  BY LocksKept
<1> QED
  BY <1>1, <1>2, LocksInit, InitHolds, StepKeeps, PTL DEF Spec

=============================================================================
