------------------------------ MODULE Sessions ------------------------------
(***************************************************************************)
(* The SessionManager of xiaopaw/session/manager.py: an index of sessions  *)
(* per routing key, kept in memory and in index.json, and one JSONL file   *)
(* per session, appended to under a per-session lock from a bounded LRU    *)
(* cache.                                                                  *)
(*                                                                         *)
(* Every section under _index_lock is free of suspension points, so it is  *)
(* one step and the lock is never contended.  The JSONL file is read and   *)
(* written by threads (asyncio.to_thread): there a turn's two lines are    *)
(* two steps, because a reply larger than the buffer of the text file      *)
(* reaches the file in several writes.                                     *)
(*                                                                         *)
(* Any write may raise (a full disk, a file held open on Windows) with the *)
(* process going on: _save_index after memory has changed, the thread of   *)
(* append() between its lines or in the middle of one.                     *)
(*                                                                         *)
(* The callers are those of the program: turns (Runner._handle), the       *)
(* commands /new and /verbose, and clear_all from the test API.  Nothing   *)
(* is assumed about which of them overlap; the Runner serialises those of  *)
(* one routing key, the manager does not rely on it.                       *)
(***************************************************************************)
EXTENDS Integers, Sequences, FiniteSets, SequencesExt

CONSTANTS
  Keys,       \* routing keys
  Turns,      \* calls of get_or_create, load_history and append, in this order
  NewCmds,    \* calls of create_new_session
  VerboseCmds,\* calls of update_verbose
  ClearCalls, \* calls of clear_all
  KeyOf,      \* the routing key of a turn or command
  MaxActiveSessions,
  MaxCrashes, \* bound on the restarts explored
  MaxFaults,  \* bound on the reads and writes that raise
  None

\* A session is named by the turn or the /new that created it.
SessionIds == Turns \cup NewCmds
Calls == SessionIds \cup VerboseCmds \cup ClearCalls

ASSUME SessionsAssumption ==
  /\ KeyOf \in [Turns \cup NewCmds \cup VerboseCmds -> Keys]
  /\ MaxActiveSessions \in Nat \ {0}
  /\ MaxCrashes \in Nat
  /\ MaxFaults \in Nat
  /\ None \notin SessionIds
  /\ IsFiniteSet(Turns)

VARIABLES
  index,     \* self._index
  stored,    \* what index.json holds
  files,     \* files[s]: the complete lines of {s}.jsonl
  torn,      \* the sessions whose file ends in a line without its newline
  cache,     \* self._jsonl_locks, least recently used entry first
  lockQueue, \* lockQueue[l]: holder and then waiters of the lock created by l
  pc,        \* pc[c]: how far call c has come
  session,   \* session[t]: the session turn t was given
  since,     \* since[t]: sessions whose lock was asked for after t's (history)
  crashes,   \* number of restarts
  faults,    \* number of reads and writes that raised
  unsaved    \* the last _save_index raised (history)

vars == <<index, stored, files, torn, cache, lockQueue, pc, session, since, crashes,
          faults, unsaved>>
lockVars == <<cache, lockQueue, since>>
indexVars == <<index, stored, unsaved>>
fileVars == <<files, torn>>
counters == <<crashes, faults>>

\* A line of a JSONL file: one of a turn, or one that is not JSON.
Broken == [turn |-> None, role |-> "broken"]
Lines == [turn : Turns, role : {"user", "assistant"}] \cup {Broken}

\* A call ends in "done", or raises: "cut" is an append() that raised between its
\* lines, "failed" any other call that raised.  "dead" went down with the process.
PcStates == {"idle", "opened", "ready", "waiting", "writing", "half", "written",
             "done", "failed", "cut", "dead"}
Ended == {"done", "failed", "cut", "dead"}

EmptyIndex ==
  [active   |-> [k \in Keys |-> None],      \* active_session_id
   sessions |-> [k \in Keys |-> {}],        \* the ids in entry.sessions
   count    |-> [s \in SessionIds |-> 0],   \* message_count
   verbose  |-> {}]                         \* the sessions with verbose set

Init ==
  /\ index = EmptyIndex
  /\ stored = EmptyIndex
  /\ files = [s \in SessionIds |-> <<>>]
  /\ torn = {}
  /\ cache = <<>>
  /\ lockQueue = [c \in Turns |-> <<>>]
  /\ pc = [c \in Calls |-> "idle"]
  /\ session = [t \in Turns |-> None]
  /\ since = [t \in Turns |-> {}]
  /\ crashes = 0
  /\ faults = 0
  /\ unsaved = FALSE

-----------------------------------------------------------------------------
(***************************************************************************)
(* The index.                                                              *)
(***************************************************************************)

\* Something raises: possible as long as the bound allows.
Raises == faults < MaxFaults /\ faults' = faults + 1

SaveNothing(new, ok) ==                                     \* faulty variant
  /\ IF ok THEN UNCHANGED faults ELSE Raises
  /\ index' = new
  /\ unsaved' = ~ok
  /\ UNCHANGED stored
\* Every change of the index is followed by _save_index in the same section.  It
\* replaces index.json as a whole, or raises and leaves memory ahead of the file.
Save(new, ok) ==
  /\ IF ok THEN UNCHANGED faults ELSE Raises
  /\ index' = new
  /\ stored' = IF ok THEN new ELSE stored
  /\ unsaved' = ~ok

\* The call c changes the index and returns, or raises because the save does.
ChangeIndex(c, new) ==
  \E ok \in BOOLEAN :
    /\ Save(new, ok)
    /\ pc' = [pc EXCEPT ![c] = IF ok THEN "done" ELSE "failed"]

WithSession(k, s) ==
  [index EXCEPT !.active[k] = s, !.sessions[k] = @ \cup {s}]

\* get_or_create: the active session of the key, if its entry is in the list.  If
\* the save raises the new session is in memory and t does not get it.
GetOrCreate(t) ==
  LET k == KeyOf[t]
      s == index.active[k]
  IN
  /\ pc[t] = "idle"
  /\ \/ /\ s \in index.sessions[k]
        /\ session' = [session EXCEPT ![t] = s]
        /\ pc' = [pc EXCEPT ![t] = "opened"]
        /\ UNCHANGED <<indexVars, faults>>
     \/ /\ s \notin index.sessions[k]
        /\ \/ /\ Save(WithSession(k, t), TRUE)
              /\ session' = [session EXCEPT ![t] = t]
              /\ pc' = [pc EXCEPT ![t] = "opened"]
           \/ /\ Save(WithSession(k, t), FALSE)
              /\ pc' = [pc EXCEPT ![t] = "failed"]
              /\ UNCHANGED session
  /\ UNCHANGED <<fileVars, lockVars, crashes>>

CreateNewSession(n) ==
  /\ pc[n] = "idle"
  /\ ChangeIndex(n, WithSession(KeyOf[n], n))
  /\ UNCHANGED <<fileVars, lockVars, session, crashes>>

UpdateVerbose(v) ==
  LET s == index.active[KeyOf[v]] IN
  /\ pc[v] = "idle"
  /\ \/ s = None /\ pc' = [pc EXCEPT ![v] = "done"] /\ UNCHANGED <<indexVars, faults>>
     \/ s # None /\ \E on \in {{}, {s}} :
          ChangeIndex(v, [index EXCEPT !.verbose = (@ \ {s}) \cup on])
  /\ UNCHANGED <<fileVars, lockVars, session, crashes>>

ClearAll(c) ==
  /\ pc[c] = "idle"
  /\ ChangeIndex(c, EmptyIndex)
  /\ UNCHANGED <<fileVars, lockVars, session, crashes>>

\* message_count is updated only in the entry of a key whose active session it
\* is: a turn that outlives /new or clear_all is not counted, and saves nothing.
Active(s) == \E k \in Keys : index.active[k] = s

CountedOnce(s) == [index EXCEPT !.count[s] = @ + 1]         \* faulty variant
Counted(s) == [index EXCEPT !.count[s] = @ + 2]

-----------------------------------------------------------------------------
(***************************************************************************)
(* The JSONL files.                                                        *)
(***************************************************************************)

Readable(s) ==
  /\ s \notin torn
  /\ \A i \in 1..Len(files[s]) : files[s][i] # Broken

\* load_history, which json.loads() every line; the turn fails if one is not
\* JSON, or if the file cannot be read.
LoadHistory(t) ==
  /\ pc[t] = "opened"
  /\ \/ Readable(session[t]) /\ pc' = [pc EXCEPT ![t] = "ready"] /\ UNCHANGED faults
     \/ ~Readable(session[t]) /\ pc' = [pc EXCEPT ![t] = "failed"] /\ UNCHANGED faults
     \/ Raises /\ pc' = [pc EXCEPT ![t] = "failed"]
  /\ UNCHANGED <<indexVars, fileVars, lockVars, session, crashes>>

\* _LRULockCache.get: a hit moves to the end, a miss may push out the oldest
\* entry, held or not.  In both cases the lock is the one of the last entry.
Full == Len(cache) >= MaxActiveSessions

IsFor(s, i) == i \in DOMAIN cache /\ cache[i].session = s
Missed(s, t) == Append(IF Full THEN Tail(cache) ELSE cache, [session |-> s, lock |-> t])

CacheAfterGetAnew(s, t) ==                                 \* faulty variant: a hit is not used
  IF \E i \in DOMAIN cache : IsFor(s, i)
  THEN Append(RemoveAt(cache, CHOOSE i \in DOMAIN cache : IsFor(s, i)), [session |-> s, lock |-> t])
  ELSE Missed(s, t)

CacheAfterGet(s, t) ==
  IF \E i \in DOMAIN cache : IsFor(s, i)
  THEN LET i == CHOOSE i \in DOMAIN cache : IsFor(s, i)
       IN Append(RemoveAt(cache, i), cache[i])
  ELSE Missed(s, t)

\* append(), up to the first suspension: get the lock and ask for it.
AskForLock(t) ==
  LET s == session[t]
      after == CacheAfterGet(s, t)
      l == Last(after).lock
  IN
  /\ pc[t] = "ready"
  /\ cache' = after
  /\ lockQueue' = [lockQueue EXCEPT ![l] = Append(@, t)]
  /\ pc' = [pc EXCEPT ![t] = IF lockQueue[l] = <<>> THEN "writing" ELSE "waiting"]
  /\ since' = [u \in Turns |->
                 IF pc[u] \in {"waiting", "writing", "half", "written"} /\ session[u] # s
                 THEN since[u] \cup {s} ELSE since[u]]
  /\ UNCHANGED <<indexVars, fileVars, session, counters>>

\* asyncio.Lock is fair: waiters get it in the order they asked.
Acquire(t) ==
  /\ pc[t] = "waiting"
  /\ \E l \in Turns : lockQueue[l] # <<>> /\ Head(lockQueue[l]) = t
  /\ pc' = [pc EXCEPT ![t] = "writing"]
  /\ UNCHANGED <<indexVars, fileVars, lockVars, session, counters>>

\* A line written after a torn one continues it.
WriteLine(s, line) ==
  /\ files' = [files EXCEPT ![s] = Append(@, IF s \in torn THEN Broken ELSE line)]
  /\ torn' = torn \ {s}

\* The thread of _write; it goes on whatever the event loop does meanwhile.
WriteUser(t) ==
  /\ pc[t] = "writing"
  /\ pc' = [pc EXCEPT ![t] = "half"]
  /\ WriteLine(session[t], [turn |-> t, role |-> "user"])
  /\ UNCHANGED <<indexVars, lockVars, session, counters>>

WriteAssistant(t) ==
  /\ pc[t] = "half"
  /\ pc' = [pc EXCEPT ![t] = "written"]
  /\ WriteLine(session[t], [turn |-> t, role |-> "assistant"])
  /\ UNCHANGED <<indexVars, lockVars, session, counters>>

\* Leaving "async with lock".
ReleaseLock(t) ==
  /\ lockQueue' = [l \in Turns |->
       IF lockQueue[l] # <<>> /\ Head(lockQueue[l]) = t
       THEN Tail(lockQueue[l]) ELSE lockQueue[l]]
  /\ since' = [since EXCEPT ![t] = {}]
  /\ UNCHANGED cache

\* A write raises out of append(): the lines written stay, part of the next one may
\* be there too, and nothing is counted.
WriteFails(t) ==
  /\ pc[t] \in {"writing", "half"}
  /\ Raises
  /\ pc' = [pc EXCEPT ![t] = IF pc[t] = "half" THEN "cut" ELSE "failed"]
  /\ torn' \in {torn, torn \cup {session[t]}}
  /\ ReleaseLock(t)
  /\ UNCHANGED <<indexVars, files, session, crashes>>

CountTurn(t) ==
  \/ Active(session[t]) /\ ChangeIndex(t, Counted(session[t]))
  \/ ~Active(session[t]) /\ pc' = [pc EXCEPT ![t] = "done"] /\ UNCHANGED <<indexVars, faults>>

AppendKeepsLock(t) ==                                        \* faulty variant
  /\ pc[t] = "written"
  /\ CountTurn(t)
  /\ UNCHANGED <<fileVars, lockVars, session, crashes>>

\* The rest of append(): release the lock, count the two messages.
AppendDone(t) ==
  /\ pc[t] = "written"
  /\ ReleaseLock(t)
  /\ CountTurn(t)
  /\ UNCHANGED <<fileVars, session, crashes>>

-----------------------------------------------------------------------------
(***************************************************************************)
(* The process dies and is started again: __init__ reads index.json back,  *)
(* locks and calls are gone, and a write that was under way may have put   *)
(* part of a line into the file.                                           *)
(***************************************************************************)
Crash ==
  /\ crashes < MaxCrashes
  /\ crashes' = crashes + 1
  /\ index' = stored
  /\ unsaved' = FALSE
  /\ cache' = <<>>
  /\ lockQueue' = [l \in Turns |-> <<>>]
  /\ pc' = [c \in Calls |-> IF pc[c] \in {"idle"} \cup Ended THEN pc[c] ELSE "dead"]
  /\ \E cut \in SUBSET {session[t] : t \in {u \in Turns : pc[u] \in {"writing", "half"}}} :
       torn' = torn \cup cut
  /\ since' = [t \in Turns |-> {}]
  /\ UNCHANGED <<stored, files, session, faults>>

Turn(t) ==
  \/ GetOrCreate(t) \/ LoadHistory(t) \/ AskForLock(t) \/ Acquire(t)
  \/ WriteUser(t) \/ WriteAssistant(t) \/ WriteFails(t) \/ AppendDone(t)

Next ==
  \/ \E t \in Turns : Turn(t)
  \/ \E n \in NewCmds : CreateNewSession(n)
  \/ \E v \in VerboseCmds : UpdateVerbose(v)
  \/ \E c \in ClearCalls : ClearAll(c)
  \/ Crash

Spec == Init /\ [][Next]_vars

-----------------------------------------------------------------------------
(***************************************************************************)
(* Properties                                                              *)
(***************************************************************************)

Writing(t) == pc[t] \in {"writing", "half", "written"}

\* Two append() calls write one session's file at the same time only if the
\* lock of the earlier one was pushed out of the cache, which takes requests for
\* at least max_active_sessions other sessions while it was under way.
TwoWritersNeedTraffic ==
  \A t, u \in Turns :
    t # u /\ Writing(t) /\ Writing(u) /\ session[t] = session[u] =>
      Cardinality(since[t]) >= MaxActiveSessions \/ Cardinality(since[u]) >= MaxActiveSessions

\* The appends to s that raised with their first line in the file.
CutShort(s) == {t \in Turns : session[t] = s /\ pc[t] = "cut"}

\* message_count of a key's active session never exceeds what its file holds,
\* also after a restart from an older index.json and after writes that raised.
\* Without restarts the two differ, when no append to the session is under way, by
\* exactly the appends that raised between their two lines: an error after the
\* lines (the save of the index) leaves them counted, one before them leaves none.
CountTracksFile ==
  \A k \in Keys :
    LET s == index.active[k] IN
    s # None =>
      /\ index.count[s] <= Len(files[s])
      /\ (crashes = 0 /\ ~\E t \in Turns : session[t] = s /\ pc[t] \in {"half", "written"})
           => Len(files[s]) = index.count[s] + Cardinality(CutShort(s))

\* Sessions and message counts that are in memory, and so are told to every later
\* caller, only disappear by clear_all, or by a restart when the last _save_index
\* before it raised: one later save that works brings index.json up to date again.
SessionsSurvive ==
  [][\/ \A k \in Keys : index.sessions[k] \subseteq index'.sessions[k]
        /\ \A s \in index.sessions[k] : index.count[s] <= index'.count[s]
     \/ \E c \in ClearCalls : pc[c] = "idle" /\ pc'[c] \in {"done", "failed"}
     \/ crashes' # crashes /\ unsaved]_vars

\* Every append() that waits for a lock stands in that lock's queue behind a call
\* which is itself still inside append(): neither a lock pushed out of the cache, nor
\* a write that raised, nor a turn that was not counted leaves waiters behind a call
\* that has ended, where no release would ever wake them.
WaitersAreServed ==
  \A t \in Turns : pc[t] = "waiting" =>
    \E l \in Turns :
      t \in ToSet(lockQueue[l]) /\ (pc[Head(lockQueue[l])] = "waiting" \/ Writing(Head(lockQueue[l])))

=============================================================================
