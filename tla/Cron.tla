-------------------------------- MODULE Cron --------------------------------
(***************************************************************************)
(* Scheduled tasks: the CronService of xiaopaw/cron and the scheduler_mgr  *)
(* skill, two processes that share cron/tasks.json.                        *)
(*                                                                         *)
(* Each reads or writes the whole file under a file lock, so a read and a  *)
(* write are one step each; but the lock is released between the read and  *)
(* the write of the skill, and the service works on a copy in memory that  *)
(* it refreshes only when it sees that the file has changed.               *)
(*                                                                         *)
(* The service is one coroutine.  It suspends when a thread reads or       *)
(* writes the file and when it sleeps; dispatching a due job puts a        *)
(* message into a Runner queue and never waits, so a whole round of        *)
(* dispatches with its _post_fire is part of one step.                     *)
(***************************************************************************)
EXTENDS Integers, FiniteSets

CONSTANTS
  Jobs,        \* job ids
  Kind,        \* Kind[j]: "at", "every" or "cron"
  Period,      \* Period[j]: when an "at" job is due; the interval of an "every"
               \* job; the distance of the occurrences of a "cron" job
  DeleteAfter, \* the jobs with delete_after_run
  BadExpr,     \* "cron" jobs whose expression croniter refuses (ValueError)
  BadZone,     \* "cron" jobs whose time zone is not known (a KeyError)
  Preset,      \* the jobs in the file at the start
  MaxTime,     \* bound on the clock
  MaxSkillOps, \* bound on the calls of the skill
  MaxCrashes,  \* bound on the restarts of the service
  None

ASSUME CronAssumption ==
  /\ Kind \in [Jobs -> {"at", "every", "cron"}]
  /\ Period \in [Jobs -> Nat \ {0}]
  /\ DeleteAfter \subseteq Jobs
  /\ BadExpr \cup BadZone \subseteq {j \in Jobs : Kind[j] = "cron"}
  /\ Preset \subseteq Jobs
  /\ MaxTime \in Nat /\ MaxSkillOps \in Nat /\ MaxCrashes \in Nat
  /\ None \notin [enabled : BOOLEAN, next : Int]

VARIABLES
  now,      \* the clock
  file,     \* tasks.json: file[j] is the entry of job j, or None
  changed,  \* _check_mtime(): the file is not as the service last saw it
  pc,       \* where the service is; "down" while the program does not run
  buffer,   \* what aload() has read
  jobs,     \* self.jobs
  disabled, \* self._disabled_jobs_raw
  skill,    \* the running call of the skill, or None
  skillOps, \* number of calls made
  created,  \* the jobs whose creation the skill has reported (history)
  crashes,  \* number of restarts
  fires,    \* fires[j]: how often j was dispatched (history)
  lastFire, \* lastFire[j]: when, the last time (history)
  visited,  \* a tick has gone through self.jobs at this time (history)
  unsaved,  \* jobs dispatched since the last successful save (history)
  stale,    \* jobs whose last dispatch the skill's copy misses (history)
  excused   \* jobs with a reason to be dispatched again (history)

vars == <<now, file, changed, pc, buffer, jobs, disabled, skill, skillOps,
          created, crashes, fires, lastFire, visited, unsaved, stale, excused>>
memVars == <<buffer, jobs, disabled>>
skillVars == <<skill, skillOps, created>>
historyVars == <<fires, lastFire, visited, unsaved, stale, excused>>

\* state.next_run_at_ms of an entry that has none.
NoRun == -1
NoJobs == [j \in Jobs |-> None]
NewEntry == [enabled |-> TRUE, next |-> NoRun]

Init ==
  /\ now = 0
  /\ file = [j \in Jobs |-> IF j \in Preset THEN NewEntry ELSE None]
  /\ changed = FALSE
  /\ pc = "down"
  /\ buffer = NoJobs
  /\ jobs = NoJobs
  /\ disabled = NoJobs
  /\ skill = None
  /\ skillOps = 0
  /\ created = Preset
  /\ crashes = 0
  /\ fires = [j \in Jobs |-> 0]
  /\ lastFire = [j \in Jobs |-> NoRun]
  /\ visited = FALSE
  /\ unsaved = {}
  /\ stale = {}
  /\ excused = {}

Tick ==
  /\ now < MaxTime
  /\ now' = now + 1
  /\ visited' = FALSE
  /\ UNCHANGED <<file, changed, pc, memVars, skillVars, crashes, fires, lastFire, unsaved,
                 stale, excused>>

-----------------------------------------------------------------------------
(***************************************************************************)
(* CronService: loading.                                                   *)
(***************************************************************************)

Enabled(store) == {j \in Jobs : store[j] # None /\ store[j].enabled}

\* croniter.get_next: the first occurrence after t.
NextOccurrence(j, t) == ((t \div Period[j]) + 1) * Period[j]

\* state.next_run_at_ms after _apply_loaded: always recomputed for "cron",
\* else kept if it is there.
NextRunRecomputed(j, e) ==                                    \* faulty variant
  IF Kind[j] = "at" THEN Period[j] ELSE now + Period[j]
NextRunOnlyCron(j, e) ==                                      \* faulty variant
  IF Kind[j] = "cron" THEN NextOccurrence(j, now) ELSE e.next
NextRun(j, e) ==
  CASE Kind[j] = "cron"                     -> NextOccurrence(j, now)
    [] Kind[j] # "cron" /\ e.next # NoRun   -> e.next
    [] Kind[j] = "at" /\ e.next = NoRun     -> Period[j]
    [] Kind[j] = "every" /\ e.next = NoRun  -> now + Period[j]

LoadedJobs(store) ==
  [j \in Jobs |-> IF j \in Enabled(store)
                  THEN [store[j] EXCEPT !.next = NextRun(j, store[j])] ELSE None]
DisabledJobs(store) ==
  [j \in Jobs |-> IF j \in Enabled(store) THEN None ELSE store[j]]

\* One entry that cannot be scheduled makes the whole load fail.
LoadFails(store) == Enabled(store) \cap (BadExpr \cup BadZone) # {}

-----------------------------------------------------------------------------
(***************************************************************************)
(* CronService: firing and saving.                                         *)
(***************************************************************************)

IsDue(e) == e # None /\ e.next # NoRun /\ e.next <= now

\* _post_fire for one job.
AtStaysEnabled(j, e) ==                                       \* faulty variant
  CASE Kind[j] = "at"    -> IF j \in DeleteAfter THEN None ELSE e
    [] Kind[j] = "every" -> [e EXCEPT !.next = e.next + Period[j]]
    [] Kind[j] = "cron"  -> [e EXCEPT !.next = NextOccurrence(j, now)]
AfterFire(j, e) ==
  CASE Kind[j] = "at"    -> IF j \in DeleteAfter THEN None
                            ELSE [enabled |-> FALSE, next |-> NoRun]
    [] Kind[j] = "every" -> [e EXCEPT !.next = now + Period[j]]
    [] Kind[j] = "cron"  -> [e EXCEPT !.next = NextOccurrence(j, now)]

\* The rest of a tick once memory is up to date: dispatch what is due, update
\* it, and go on to save; or go to sleep.
FireDue(loaded, off) ==
  LET due == {j \in Jobs : IsDue(loaded[j])} IN
  /\ disabled' = off
  /\ jobs' = [j \in Jobs |-> IF j \in due THEN AfterFire(j, loaded[j]) ELSE loaded[j]]
  /\ pc' = IF due = {} THEN "sleeping" ELSE "saving"
  /\ fires' = [j \in Jobs |-> IF j \in due THEN fires[j] + 1 ELSE fires[j]]
  /\ lastFire' = [j \in Jobs |-> IF j \in due THEN now ELSE lastFire[j]]
  /\ visited' = TRUE
  /\ unsaved' = unsaved \cup due
  /\ stale' = IF skill = None THEN {} ELSE stale \cup due
  /\ excused' = excused \ due

\* Somebody starts the program, and start() reads the file.  If that fails the
\* program is not up, as before.
Start ==
  /\ pc = "down"
  /\ pc' = "booting"
  /\ buffer' = file
  /\ changed' = FALSE
  /\ UNCHANGED <<now, file, jobs, disabled, skillVars, crashes, historyVars>>

Boot ==
  /\ pc = "booting"
  /\ ~LoadFails(buffer)
  /\ pc' = "sleeping"
  /\ jobs' = LoadedJobs(buffer)
  /\ disabled' = DisabledJobs(buffer)
  /\ UNCHANGED <<now, file, changed, buffer, skillVars, crashes, historyVars>>

\* The KeyError of a bad time zone is caught: the loop starts without jobs, and
\* its ticks read the file again.
BootWithoutJobs ==
  /\ pc = "booting"
  /\ Enabled(buffer) \cap BadZone # {}
  /\ pc' = "sleeping"
  /\ changed' = TRUE
  /\ disabled' = DisabledJobs(buffer)
  /\ UNCHANGED <<now, file, buffer, jobs, skillVars, crashes, historyVars>>

\* The ValueError of a bad expression is not: it leaves start() and ends main().
BootFails ==
  /\ pc = "booting"
  /\ Enabled(buffer) \cap BadExpr # {}
  /\ pc' = "down"
  /\ buffer' = NoJobs
  /\ UNCHANGED <<now, file, changed, jobs, disabled, skillVars, crashes, historyVars>>

\* A tick that finds the file as it was.
TickUnchanged ==
  /\ pc = "sleeping"
  /\ ~changed
  /\ FireDue(jobs, disabled)
  /\ UNCHANGED <<now, file, changed, buffer, skillVars, crashes>>

\* A tick that finds it changed has a thread read it.
StartRead ==
  /\ pc = "sleeping"
  /\ changed
  /\ pc' = "reading"
  /\ UNCHANGED <<now, file, changed, memVars, skillVars, crashes, historyVars>>

ReadStore ==
  /\ pc = "reading"
  /\ pc' = "loading"
  /\ buffer' = file
  /\ changed' = FALSE
  /\ excused' = excused \cup unsaved
  /\ UNCHANGED <<now, file, jobs, disabled, skillVars, crashes, fires, lastFire, visited,
                 unsaved, stale>>

\* The second lock timeout, or an error of the file system: the tick ends before
\* it has looked at a job, and the next one tries again.
ReadFails ==
  /\ pc = "reading"
  /\ pc' = "sleeping"
  /\ UNCHANGED <<now, file, changed, memVars, skillVars, crashes, historyVars>>

\* The service takes over what was read and goes on with the tick.
ApplyLoaded ==
  /\ pc = "loading"
  /\ ~LoadFails(buffer)
  /\ FireDue(LoadedJobs(buffer), DisabledJobs(buffer))
  /\ UNCHANGED <<now, file, changed, buffer, skillVars, crashes>>

\* The load fails.  _last_mtime stays as it was, so that every later tick reads
\* the file again; what is left in self.jobs is not looked at before that.
ApplyFails ==
  /\ pc = "loading"
  /\ LoadFails(buffer)
  /\ pc' = "sleeping"
  /\ changed' = TRUE
  /\ jobs' = NoJobs
  /\ disabled' = DisabledJobs(buffer)
  /\ UNCHANGED <<now, file, buffer, skillVars, crashes, historyVars>>

\* _save_store_async: memory replaces the file, and the result counts as seen,
\* whatever else was written to the file since it was read.
EnabledOnly == jobs                                           \* faulty variant
StoreToSave == [j \in Jobs |-> IF jobs[j] # None THEN jobs[j] ELSE disabled[j]]

WriteStore ==
  /\ pc = "saving"
  /\ pc' = "sleeping"
  /\ file' = StoreToSave
  /\ changed' = FALSE
  /\ unsaved' = {}
  /\ UNCHANGED <<now, memVars, skillVars, crashes, fires, lastFire, visited, stale, excused>>

\* Two lock timeouts, or a full disk: the loop logs the exception and goes on.
SaveFails ==
  /\ pc = "saving"
  /\ pc' = "sleeping"
  /\ UNCHANGED <<now, file, changed, memVars, skillVars, crashes, historyVars>>

Crash ==
  /\ pc # "down"
  /\ crashes < MaxCrashes
  /\ crashes' = crashes + 1
  /\ pc' = "down"
  /\ jobs' = NoJobs /\ disabled' = NoJobs /\ buffer' = NoJobs
  /\ changed' = FALSE
  /\ visited' = FALSE
  /\ unsaved' = {}
  /\ excused' = excused \cup unsaved
  /\ UNCHANGED <<now, file, skillVars, fires, lastFire, stale>>

-----------------------------------------------------------------------------
(***************************************************************************)
(* The skill: one call loads the file, changes its copy and dumps it.      *)
(***************************************************************************)

\* The calls that get past _load_store and their checks.
SkillCalls ==
  [op : {"create"}, job : {j \in Jobs : file[j] = None /\ j \notin created},
   enabled : {TRUE}]
  \cup [op : {"delete"}, job : {j \in Jobs : file[j] # None}, enabled : {TRUE}]
  \cup [op : {"update"}, job : {j \in Jobs : file[j] # None}, enabled : BOOLEAN]

SkillLoad ==
  /\ skill = None
  /\ skillOps < MaxSkillOps
  /\ skillOps' = skillOps + 1
  /\ \E c \in SkillCalls : skill' = [call |-> c, copy |-> file]
  /\ stale' = unsaved
  /\ UNCHANGED <<now, file, changed, pc, memVars, created, crashes, fires, lastFire,
                 visited, unsaved, excused>>

\* update_job clears next_run_at_ms whatever was updated.
Changed(c, copy) ==
  CASE c.op = "create" -> [copy EXCEPT ![c.job] = NewEntry]
    [] c.op = "delete" -> [copy EXCEPT ![c.job] = None]
    [] c.op = "update" -> [copy EXCEPT ![c.job] = [enabled |-> c.enabled, next |-> NoRun]]

SkillDump ==
  /\ skill # None
  /\ file' = Changed(skill.call, skill.copy)
  /\ changed' = TRUE
  /\ created' = IF skill.call.op = "create" THEN created \cup {skill.call.job} ELSE created
  /\ excused' = excused \cup stale
                \cup (IF skill.call.op = "update" /\ Kind[skill.call.job] = "at"
                      THEN {skill.call.job} ELSE {})
  /\ skill' = None
  /\ stale' = {}
  /\ UNCHANGED <<now, pc, memVars, skillOps, crashes, fires, lastFire, visited, unsaved>>

\* A lock timeout or the end of the sandbox process.
SkillDies ==
  /\ skill # None
  /\ skill' = None
  /\ stale' = {}
  /\ UNCHANGED <<now, file, changed, pc, memVars, skillOps, created, crashes, fires,
                 lastFire, visited, unsaved, excused>>

-----------------------------------------------------------------------------
ServiceStep ==
  \/ Boot \/ BootWithoutJobs \/ BootFails
  \/ TickUnchanged \/ StartRead \/ ReadStore \/ ReadFails \/ ApplyLoaded \/ ApplyFails
  \/ WriteStore \/ SaveFails

SkillStep == SkillLoad \/ SkillDump \/ SkillDies

Next == Tick \/ Start \/ ServiceStep \/ Crash \/ SkillStep

Spec == Init /\ [][Next]_vars

(***************************************************************************)
(* While the program is up its tick loop goes on, and reading the file     *)
(* does not fail for ever: the skill, the only other user of the lock,     *)
(* holds it for one read or one write.  Nobody is obliged to start the     *)
(* program, and the clock, the skill and crashes not to do anything.       *)
(***************************************************************************)
FairSpec == Spec /\ WF_vars(ServiceStep) /\ SF_vars(ReadStore)

-----------------------------------------------------------------------------
(***************************************************************************)
(* Properties                                                              *)
(***************************************************************************)

\* A one-off job is dispatched once and an interval job not before its interval
\* is over, unless the service died or could not save after the dispatch, the
\* skill wrote back a copy that predates it, or (one-off) the job was updated.
\* Two dispatches of a cron job are always separated by an occurrence.
NoSpuriousFire ==
  [][\A j \in Jobs :
       fires'[j] > fires[j] /\ fires[j] > 0 =>
         CASE Kind[j] = "at"    -> j \in excused
           [] Kind[j] = "every" -> j \in excused \/ now >= lastFire[j] + Period[j]
           [] Kind[j] = "cron"  -> NextOccurrence(j, lastFire[j]) <= now]_vars

\* An entry leaves the file only by delete_job, by the end of a one-off job, or
\* when the service overwrites a change of the file it has not seen.
JobsKept ==
  [][\A j \in Jobs :
       file[j] # None /\ file'[j] = None =>
         \/ skill # None /\ skill.call.op = "delete" /\ skill.call.job = j
         \/ Kind[j] = "at" /\ j \in DeleteAfter /\ fires[j] > 0
         \/ changed
         \/ skill # None /\ skill' = None /\ skill.copy[j] = None]_vars

\* When a tick has gone through the jobs in memory none of them is due any more.
\* An enabled one-off job is there with the time it was given, and the next run of
\* a periodic one is at most one period away, however often it is put off.
NoneLeftDue ==
  /\ visited => \A j \in Jobs : ~IsDue(jobs[j])
  /\ \A j \in Enabled(jobs) :
       IF Kind[j] = "at" THEN jobs[j].next = Period[j] ELSE jobs[j].next <= now + Period[j]

\* ... and what has made it so is its dispatch.  Only a reload can put a due job
\* off: a cron job, whose next run is then computed afresh, by one occurrence; or a
\* job of which the file says something else, among them an interval job that has
\* no first run yet, by one interval.
DueIsMet(j) ==
  IsDue(jobs[j]) /\ ~IsDue(jobs'[j]) /\ pc' # "down" =>
    \/ fires'[j] = fires[j] + 1
    \/ pc = "loading" /\ (\/ LoadFails(buffer)
                         \/ Kind[j] = "cron"
                         \/ buffer[j] # jobs[j])

\* Every tick dispatches every job that is due in it: a tick of a service that does
\* nothing, or one that only moves the next run on, is none.
DueJobsNotSkipped == []NoneLeftDue /\ [][\A j \in Jobs : DueIsMet(j)]_vars

\* A one-off job that is due in a file the service can load is dispatched unless
\* the program goes down: also when reads failed before, or an entry that nobody
\* could schedule stood in the file and was removed.
DueInFile(j) ==
  /\ file[j] # None /\ file[j].enabled
  /\ Period[j] <= now
  /\ file[j].next \in {NoRun, Period[j]}
  /\ ~LoadFails(file)
DueJobsFire ==
  \A j \in {i \in Jobs : Kind[i] = "at"} :
    (DueInFile(j) /\ fires[j] = 0) ~> (fires[j] > 0 \/ ~DueInFile(j) \/ pc = "down")

\* Refuted for the code.  The comment of _check_mtime and the skill's SKILL.md
\* state that the service notices every change of the file at its next tick: a
\* job whose creation was reported is in the file until it has run or is deleted.
NoLostJob ==
  [][\A j \in created :
       file[j] # None /\ file'[j] = None =>
         (skill # None /\ skill.call.op = "delete") \/ fires[j] > 0]_vars

=============================================================================
