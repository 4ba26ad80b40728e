----------------------------- MODULE CronProofs -----------------------------
(***************************************************************************)
(* Proofs about Cron, for every set of jobs, every period and every number *)
(* of calls and restarts.                                                  *)
(*                                                                         *)
(* The three action properties are about one step, but each rests on how   *)
(* the copies of tasks.json differ: memory, the buffer of a running load,  *)
(* the copy of a running skill call and the file itself.                   *)
(***************************************************************************)
EXTENDS Cron, TLAPS

Entry == [enabled : BOOLEAN, next : Nat \cup {NoRun}]
Stores == [Jobs -> Entry \cup {None}]
Calls == [call : [op : {"create", "delete", "update"}, job : Jobs, enabled : BOOLEAN],
          copy : Stores]

TypeOK ==
  /\ now \in Nat
  /\ file \in Stores /\ buffer \in Stores /\ jobs \in Stores /\ disabled \in Stores
  /\ changed \in BOOLEAN
  /\ pc \in {"down", "booting", "sleeping", "reading", "loading", "saving"}
  /\ visited \in BOOLEAN
  /\ skill \in Calls \cup {None}
  /\ created \in SUBSET Jobs
  /\ fires \in [Jobs -> Nat]
  /\ lastFire \in [Jobs -> Nat \cup {NoRun}]
  /\ unsaved \in SUBSET Jobs /\ stale \in SUBSET Jobs /\ excused \in SUBSET Jobs

\* What a store in memory is like: only entries without a next run are disabled.
Scheduled(store) == \A j \in Jobs : store[j] # None =>
                                      store[j].enabled \/ store[j].next = NoRun
SwitchedOff(store) == \A j \in Jobs : store[j] # None => ~store[j].enabled

MemoryInv ==
  /\ pc \in {"down", "booting"} => jobs = NoJobs /\ unsaved = {} /\ ~visited
  /\ Scheduled(jobs)
  /\ SwitchedOff(disabled)

\* Unless the file has changed, memory or the buffer has every job of it, save
\* for one-off jobs that have run and are to be deleted.
Finished(j) == Kind[j] = "at" /\ j \in DeleteAfter /\ fires[j] > 0
CopyInv ==
  ~changed =>
    /\ pc \in {"booting", "loading"} => buffer = file
    /\ pc \in {"sleeping", "reading", "saving"} =>
         \A j \in Jobs :
           file[j] # None => jobs[j] # None \/ disabled[j] # None \/ Finished(j)

\* No copy knows a job before the skill has reported its creation.
Unknown(store) == \A j \in Jobs \ created : store[j] = None
CreatedInv ==
  /\ Unknown(file) /\ Unknown(buffer) /\ Unknown(jobs) /\ Unknown(disabled)
  /\ \A j \in Jobs \ created : fires[j] = 0
  /\ skill # None => /\ Unknown(skill.copy)
                     /\ skill.call.op = "create" <=> skill.call.job \notin created

\* An entry that cannot make a job that has run already run too early.
Settled(j, e) ==
  e # None /\ e.enabled =>
    /\ Kind[j] # "at"
    /\ Kind[j] = "every" => e.next = NoRun \/ e.next >= lastFire[j] + Period[j]
OnNextOccurrence(j, e) ==
  Kind[j] = "cron" /\ e # None /\ e.next # NoRun =>
    e.next >= NextOccurrence(j, lastFire[j])

FiredInv ==
  \A j \in Jobs : fires[j] > 0 =>
    /\ lastFire[j] \in Nat /\ lastFire[j] <= now
    /\ OnNextOccurrence(j, jobs[j])
    /\ j \notin excused =>
         /\ Settled(j, jobs[j])
         /\ j \in unsaved \/ Settled(j, file[j])
         /\ pc \in {"booting", "loading"} => Settled(j, buffer[j])
         /\ skill # None => j \in stale \/ Settled(j, skill.copy[j])

CronInv == MemoryInv /\ CopyInv /\ CreatedInv /\ FiredInv

-----------------------------------------------------------------------------
(***************************************************************************)
(* Occurrences, stores and loads.                                          *)
(***************************************************************************)

\* The next occurrence of a cron job lies in the future, and no earlier than the
\* one computed at an earlier time.
LEMMA NextOccurrenceFacts ==
  ASSUME NEW j \in Jobs, NEW t \in Nat
  PROVE  /\ NextOccurrence(j, t) \in Nat
         /\ NextOccurrence(j, t) > t
         /\ \A s \in 0..t : NextOccurrence(j, s) <= NextOccurrence(j, t)
<1> DEFINE p == Period[j]
<1>1. p \in Nat \ {0}
  BY CronAssumption
<1> HIDE DEF p
<1>2. ASSUME NEW a \in Nat
      PROVE  /\ a \div p \in Nat
             /\ (a \div p) * p <= a
             /\ a < ((a \div p) + 1) * p
  BY <1>1
<1>3. ASSUME NEW a \in Nat, NEW b \in Nat, a <= b
      PROVE  a \div p <= b \div p
  <2>1. a \div p \in Nat /\ b \div p \in Nat
    BY <1>2
  <2>2. SUFFICES ASSUME (b \div p) + 1 <= a \div p PROVE FALSE
    BY <2>1
  <2>3. ((b \div p) + 1) * p <= (a \div p) * p
    BY <1>1, <2>1, <2>2
  <2>4. b < a
    BY <1>2, <2>3, <2>1, <1>1
  <2>. QED
    BY <1>3, <2>4
<1>4. ASSUME NEW a \in Nat, NEW b \in Nat, a <= b
      PROVE  (a + 1) * p <= (b + 1) * p
  BY <1>1, <1>4
<1>5. \A a \in Nat : NextOccurrence(j, a) = ((a \div p) + 1) * p
  BY DEF NextOccurrence, p
<1>6. NextOccurrence(j, t) \in Nat /\ NextOccurrence(j, t) > t
  BY <1>1, <1>2, <1>5
<1>7. ASSUME NEW s \in 0..t PROVE NextOccurrence(j, s) <= NextOccurrence(j, t)
  <2>1. s \div p <= t \div p /\ s \div p \in Nat /\ t \div p \in Nat
    BY <1>2, <1>3
  <2>. QED
    BY <1>4, <1>5, <2>1
<1>. QED
  BY <1>6, <1>7

LEMMA StoreEntry ==
  ASSUME NEW store \in Stores, NEW j \in Jobs, store[j] # None
  PROVE  /\ store[j] \in Entry
         /\ store[j].enabled \in BOOLEAN
         /\ store[j].next \in Nat \cup {NoRun}
BY DEF Stores, Entry

\* No entry is None, and an entry is due only with a run time that has come.
LEMMA EntryNotNone == \A e \in Entry : e # None
  BY CronAssumption DEF Entry, NoRun

\* The next run computed for an entry is a time.
LEMMA NextRunType ==
  ASSUME NEW j \in Jobs, NEW e \in Entry, now \in Nat
  PROVE  NextRun(j, e) \in Nat
<1>1. Kind[j] \in {"at", "every", "cron"} /\ Period[j] \in Nat
  BY CronAssumption
<1>2. e.next \in Nat \cup {NoRun}
  BY DEF Entry
<1>3. NextOccurrence(j, now) \in Nat
  BY NextOccurrenceFacts
<1>4. CASE Kind[j] = "cron"
  BY <1>3, <1>4 DEF NextRun
<1>5. CASE Kind[j] = "at"
  BY <1>1, <1>2, <1>5 DEF NextRun
<1>6. CASE Kind[j] = "every"
  BY <1>1, <1>2, <1>6 DEF NextRun
<1>. QED
  BY <1>1, <1>4, <1>5, <1>6

LEMMA RescheduledEntry ==
  ASSUME NEW store \in Stores, now \in Nat, NEW j \in Jobs, store[j] # None
  PROVE  /\ [store[j] EXCEPT !.next = NextRun(j, store[j])] \in Entry
         /\ [store[j] EXCEPT !.next = NextRun(j, store[j])].next = NextRun(j, store[j])
         /\ [store[j] EXCEPT !.next = NextRun(j, store[j])].enabled = store[j].enabled
<1>1. store[j] \in Entry /\ NextRun(j, store[j]) \in Nat
  BY StoreEntry, NextRunType
<1>. QED
  BY <1>1 DEF Entry

\* A load splits a store into what is enabled and what is not.
LEMMA LoadedStores ==
  ASSUME NEW store \in Stores, now \in Nat
  PROVE  /\ LoadedJobs(store) \in Stores /\ DisabledJobs(store) \in Stores
         /\ SwitchedOff(DisabledJobs(store)) /\ Scheduled(LoadedJobs(store))
<1>1. \A j \in Jobs : j \in Enabled(store) <=> store[j] # None /\ store[j].enabled
  BY DEF Enabled
<1>2. LoadedJobs(store) \in Stores
  BY <1>1, RescheduledEntry DEF LoadedJobs, Stores
<1>3. DisabledJobs(store) \in Stores /\ SwitchedOff(DisabledJobs(store))
  BY <1>1 DEF DisabledJobs, Stores, SwitchedOff
<1>4. Scheduled(LoadedJobs(store))
  BY <1>1, RescheduledEntry DEF LoadedJobs, Scheduled
<1>. QED
  BY <1>2, <1>3, <1>4

\* It takes over every entry, the enabled ones with their next run.
LEMMA LoadedEntry ==
  ASSUME NEW store \in Stores, now \in Nat, NEW j \in Jobs
  PROVE  /\ store[j] # None => \/ LoadedJobs(store)[j] # None
                               \/ DisabledJobs(store)[j] # None
         /\ store[j] = None => LoadedJobs(store)[j] = None /\ DisabledJobs(store)[j] = None
         /\ LoadedJobs(store)[j] # None =>
              /\ store[j] # None /\ store[j].enabled
              /\ LoadedJobs(store)[j].enabled
              /\ LoadedJobs(store)[j].next = NextRun(j, store[j])
<1>1. j \in Enabled(store) <=> store[j] # None /\ store[j].enabled
  BY DEF Enabled
<1>2. LoadedJobs(store)[j] # None =>
        /\ store[j] # None /\ store[j].enabled
        /\ LoadedJobs(store)[j].enabled
        /\ LoadedJobs(store)[j].next = NextRun(j, store[j])
  BY <1>1, RescheduledEntry DEF LoadedJobs
<1>3. store[j] # None => LoadedJobs(store)[j] # None \/ DisabledJobs(store)[j] # None
  BY <1>1, RescheduledEntry, EntryNotNone DEF LoadedJobs, DisabledJobs
<1>. QED
  BY <1>1, <1>2, <1>3 DEF LoadedJobs, DisabledJobs

\* What _post_fire leaves of an entry that was due.
LEMMA AfterFireEntry ==
  ASSUME NEW j \in Jobs, NEW e \in Entry, IsDue(e), e.enabled, now \in Nat
  PROVE  /\ AfterFire(j, e) \in Entry \cup {None}
         /\ AfterFire(j, e) = None => Kind[j] = "at" /\ j \in DeleteAfter
         /\ AfterFire(j, e) # None =>
              /\ Kind[j] = "at" => ~AfterFire(j, e).enabled /\ AfterFire(j, e).next = NoRun
              /\ Kind[j] # "at" => AfterFire(j, e).enabled
              /\ Kind[j] = "every" => AfterFire(j, e).next = now + Period[j]
              /\ Kind[j] = "cron" => AfterFire(j, e).next = NextOccurrence(j, now)
<1>1. Kind[j] \in {"at", "every", "cron"} /\ Period[j] \in Nat
  BY CronAssumption
<1>2. NextOccurrence(j, now) \in Nat
  BY NextOccurrenceFacts
<1>3. CASE Kind[j] = "at"
  BY <1>3, EntryNotNone DEF AfterFire, Entry
<1>4. CASE Kind[j] = "every"
  BY <1>1, <1>4, EntryNotNone DEF AfterFire, Entry
<1>5. CASE Kind[j] = "cron"
  BY <1>2, <1>5, EntryNotNone DEF AfterFire, Entry
<1>. QED
  BY <1>1, <1>3, <1>4, <1>5

-----------------------------------------------------------------------------
(***************************************************************************)
(* One round of dispatches.                                                *)
(***************************************************************************)

\* What memory must be like when a round begins, whether it was just loaded or
\* is what the round before has left.
Ready(store) ==
  /\ Scheduled(store)
  /\ Unknown(store)
  /\ \A j \in Jobs : fires[j] > 0 =>
       /\ OnNextOccurrence(j, store[j])
       /\ j \notin excused => Settled(j, store[j])

LEMMA DueEntry ==
  ASSUME NEW store \in Stores, Scheduled(store), NEW j \in Jobs, IsDue(store[j]),
         now \in Nat
  PROVE  /\ store[j] \in Entry /\ store[j].enabled
         /\ store[j].next \in Nat /\ store[j].next <= now
BY StoreEntry DEF IsDue, Scheduled

\* Memory after a round, job by job.
LEMMA RoundMemory ==
  ASSUME TypeOK, NEW loaded \in Stores, NEW off, Scheduled(loaded), FireDue(loaded, off),
         NEW j \in Jobs
  PROVE  /\ IsDue(loaded[j]) => /\ jobs'[j] = AfterFire(j, loaded[j])
                                /\ fires'[j] = fires[j] + 1 /\ lastFire'[j] = now
                                /\ j \in unsaved' /\ j \notin excused'
         /\ ~IsDue(loaded[j]) => /\ jobs'[j] = loaded[j] /\ fires'[j] = fires[j]
                                 /\ lastFire'[j] = lastFire[j]
                                 /\ j \in unsaved' <=> j \in unsaved
                                 /\ j \in excused' <=> j \in excused
         /\ jobs'[j] \in Entry \cup {None}
<1>1. IsDue(loaded[j]) => AfterFire(j, loaded[j]) \in Entry \cup {None}
  BY DueEntry, AfterFireEntry DEF TypeOK
<1>2. loaded[j] \in Entry \cup {None}
  BY DEF Stores
<1>3. /\ IsDue(loaded[j]) => /\ jobs'[j] = AfterFire(j, loaded[j])
                             /\ fires'[j] = fires[j] + 1 /\ lastFire'[j] = now
      /\ ~IsDue(loaded[j]) => /\ jobs'[j] = loaded[j] /\ fires'[j] = fires[j]
                              /\ lastFire'[j] = lastFire[j]
  BY DEF FireDue
<1>4. /\ IsDue(loaded[j]) => j \in unsaved' /\ j \notin excused'
      /\ ~IsDue(loaded[j]) => /\ j \in unsaved' <=> j \in unsaved
                              /\ j \in excused' <=> j \in excused
  BY DEF FireDue
<1>. QED
  BY <1>1, <1>2, <1>3, <1>4

\* A round keeps the invariant.
LEMMA RoundInv ==
  ASSUME TypeOK, CronInv, NEW loaded \in Stores, NEW off \in Stores,
         Ready(loaded), SwitchedOff(off), Unknown(off),
         ~changed => \A j \in Jobs : file[j] # None =>
                       loaded[j] # None \/ off[j] # None \/ Finished(j),
         FireDue(loaded, off),
         UNCHANGED <<now, file, changed, buffer, skillVars, crashes>>
  PROVE  TypeOK' /\ CronInv'
<1> USE DEF skillVars
<1>1. \A j \in Jobs :
        /\ IsDue(loaded[j]) => /\ jobs'[j] = AfterFire(j, loaded[j])
                               /\ fires'[j] = fires[j] + 1 /\ lastFire'[j] = now
                               /\ j \in unsaved' /\ j \notin excused'
        /\ ~IsDue(loaded[j]) => /\ jobs'[j] = loaded[j] /\ fires'[j] = fires[j]
                                /\ lastFire'[j] = lastFire[j]
                                /\ j \in unsaved' <=> j \in unsaved
                                /\ j \in excused' <=> j \in excused
        /\ jobs'[j] \in Entry \cup {None}
  BY RoundMemory DEF Ready
<1>2. \A j \in Jobs : IsDue(loaded[j]) =>
        /\ loaded[j] # None /\ loaded[j] \in Entry
        /\ AfterFire(j, loaded[j]) = None => Kind[j] = "at" /\ j \in DeleteAfter
        /\ AfterFire(j, loaded[j]) # None =>
              /\ Kind[j] = "at" => /\ ~AfterFire(j, loaded[j]).enabled
                                   /\ AfterFire(j, loaded[j]).next = NoRun
              /\ Kind[j] # "at" => AfterFire(j, loaded[j]).enabled
              /\ Kind[j] = "every" => AfterFire(j, loaded[j]).next = now + Period[j]
              /\ Kind[j] = "cron" => AfterFire(j, loaded[j]).next = NextOccurrence(j, now)
  BY DueEntry, AfterFireEntry DEF TypeOK, Ready, IsDue
<1>3. pc' \in {"sleeping", "saving"} /\ disabled' = off
      /\ stale' = IF skill = None THEN {} ELSE stale \cup {j \in Jobs : IsDue(loaded[j])}
  BY DEF FireDue
<1>4. TypeOK'
  <2>1. jobs' \in Stores
    BY <1>1 DEF FireDue, Stores
  <2>2. fires' \in [Jobs -> Nat] /\ lastFire' \in [Jobs -> Nat \cup {NoRun}]
    BY DEF FireDue, TypeOK
  <2>3. unsaved' \in SUBSET Jobs /\ stale' \in SUBSET Jobs /\ excused' \in SUBSET Jobs
    BY DEF FireDue, TypeOK
  <2>4. visited' = TRUE
    BY DEF FireDue
  <2>. QED
    BY <1>3, <2>1, <2>2, <2>3, <2>4 DEF TypeOK
<1>5. MemoryInv'
  <2>1. Scheduled(jobs)'
    BY <1>1, <1>2 DEF Ready, Scheduled
  <2>. QED
    BY <1>3, <2>1 DEF MemoryInv, SwitchedOff
<1>6. CopyInv'
  <2> SUFFICES ASSUME ~changed, NEW j \in Jobs, file[j] # None
               PROVE  jobs'[j] # None \/ disabled'[j] # None \/ Finished(j)'
    BY <1>3 DEF CopyInv
  <2>1. fires[j] \in Nat
    BY DEF TypeOK
  <2>2. CASE IsDue(loaded[j])
    BY <1>1, <1>2, <2>1, <2>2 DEF Finished
  <2>3. CASE ~IsDue(loaded[j])
    BY <1>1, <1>3, <2>3 DEF Finished
  <2>. QED
    BY <2>2, <2>3
<1>7. CreatedInv'
  <2>1. \A j \in Jobs \ created : ~IsDue(loaded[j])
    BY DEF Ready, Unknown, IsDue
  <2>. QED
    BY <1>1, <1>3, <2>1 DEF CronInv, CreatedInv, Ready, Unknown
<1>8. FiredInv'
  <2> SUFFICES ASSUME NEW j \in Jobs, fires'[j] > 0
               PROVE  /\ lastFire'[j] \in Nat /\ lastFire'[j] <= now
                      /\ OnNextOccurrence(j, jobs[j])'
                      /\ j \notin excused' =>
                           /\ Settled(j, jobs[j])'
                           /\ j \in unsaved' \/ Settled(j, file[j])'
                           /\ skill # None => j \in stale' \/ Settled(j, skill.copy[j])'
    BY <1>3 DEF FiredInv
  <2>1. CASE IsDue(loaded[j])
    <3>1. NextOccurrence(j, now) \in Nat /\ now \in Nat /\ Period[j] \in Nat
      BY NextOccurrenceFacts, CronAssumption DEF TypeOK
    <3>. QED
      BY <1>1, <1>2, <1>3, <2>1, <3>1 DEF OnNextOccurrence, Settled
  <2>2. CASE ~IsDue(loaded[j])
    <3>1. fires[j] > 0
      BY <1>1, <2>2
    <3>2. /\ lastFire[j] \in Nat /\ lastFire[j] <= now
          /\ OnNextOccurrence(j, loaded[j])
          /\ j \notin excused =>
               /\ Settled(j, loaded[j])
               /\ j \in unsaved \/ Settled(j, file[j])
               /\ skill # None => j \in stale \/ Settled(j, skill.copy[j])
      BY <3>1 DEF CronInv, FiredInv, Ready
    <3>. QED
      BY <1>1, <1>3, <2>2, <3>2 DEF OnNextOccurrence, Settled
  <2>. QED
    BY <2>1, <2>2
<1>. QED
  BY <1>4, <1>5, <1>6, <1>7, <1>8 DEF CronInv

-----------------------------------------------------------------------------
(***************************************************************************)
(* The invariant.                                                          *)
(***************************************************************************)

\* What is read from a store without premature runs can be worked with.
LEMMA LoadReady ==
  ASSUME TypeOK, CronInv, NEW store \in Stores, Unknown(store),
         \A j \in Jobs : fires[j] > 0 /\ j \notin excused => Settled(j, store[j])
  PROVE  Ready(LoadedJobs(store))
<1>1. now \in Nat
  BY DEF TypeOK
<1>2. Scheduled(LoadedJobs(store)) /\ Unknown(LoadedJobs(store))
  BY <1>1, LoadedStores, LoadedEntry DEF Unknown
<1>3. ASSUME NEW j \in Jobs, fires[j] > 0 PROVE OnNextOccurrence(j, LoadedJobs(store)[j])
  <2> SUFFICES ASSUME Kind[j] = "cron", LoadedJobs(store)[j] # None
               PROVE  LoadedJobs(store)[j].next >= NextOccurrence(j, lastFire[j])
    BY DEF OnNextOccurrence
  <2>1. LoadedJobs(store)[j].next = NextOccurrence(j, now)
    BY <1>1, LoadedEntry DEF NextRun
  <2>2. lastFire[j] \in 0..now
    BY <1>1, <1>3 DEF CronInv, FiredInv
  <2>3. NextOccurrence(j, lastFire[j]) \in Nat /\ NextOccurrence(j, now) \in Nat
        /\ NextOccurrence(j, lastFire[j]) <= NextOccurrence(j, now)
    BY <1>1, <2>2, NextOccurrenceFacts
  <2>. QED
    BY <2>1, <2>3
<1>4. ASSUME NEW j \in Jobs, fires[j] > 0, j \notin excused
      PROVE  Settled(j, LoadedJobs(store)[j])
  <2> SUFFICES ASSUME LoadedJobs(store)[j] # None
               PROVE  /\ Kind[j] # "at"
                      /\ Kind[j] = "every" =>
                           LoadedJobs(store)[j].next >= lastFire[j] + Period[j]
    BY DEF Settled
  <2>1. /\ store[j] # None /\ store[j].enabled /\ store[j].next \in Nat \cup {NoRun}
        /\ LoadedJobs(store)[j].next = NextRun(j, store[j])
    BY <1>1, LoadedEntry, StoreEntry
  <2>2. /\ Kind[j] # "at"
        /\ Kind[j] = "every" =>
             store[j].next = NoRun \/ store[j].next >= lastFire[j] + Period[j]
    BY <1>4, <2>1 DEF Settled
  <2>3. lastFire[j] \in Nat /\ lastFire[j] <= now /\ Period[j] \in Nat
    BY <1>4, CronAssumption DEF CronInv, FiredInv
  <2>. QED
    BY <1>1, <2>1, <2>2, <2>3 DEF NextRun
<1>. QED
  BY <1>2, <1>3, <1>4 DEF Ready

\* What the first load and a load in a tick have read is such a store.
LEMMA BufferReady ==
  ASSUME TypeOK, CronInv, pc \in {"booting", "loading"}
  PROVE  Ready(LoadedJobs(buffer))
<1>1. \A j \in Jobs : fires[j] > 0 /\ j \notin excused => Settled(j, buffer[j])
  BY DEF CronInv, FiredInv
<1>. QED
  BY <1>1, LoadReady DEF CronInv, CreatedInv, TypeOK

LEMMA MemoryReady ==
  ASSUME TypeOK, CronInv
  PROVE  Ready(jobs)
BY DEF Ready, CronInv, CreatedInv, MemoryInv, FiredInv

\* A round in a tick that found the file unchanged, or loaded it.
LEMMA TickUnchangedInv ==
  ASSUME TypeOK, CronInv, TickUnchanged
  PROVE  TypeOK' /\ CronInv'
<1>1. FireDue(jobs, disabled) /\ jobs \in Stores /\ disabled \in Stores
  BY DEF TickUnchanged, TypeOK
<1>2. SwitchedOff(disabled) /\ Unknown(disabled)
  BY DEF CronInv, MemoryInv, CreatedInv
<1>3. \A j \in Jobs : file[j] # None =>
        jobs[j] # None \/ disabled[j] # None \/ Finished(j)
  BY DEF CronInv, CopyInv, TickUnchanged
<1>4. UNCHANGED <<now, file, changed, buffer, skillVars, crashes>>
  BY DEF TickUnchanged
<1>5. Ready(jobs)
  BY MemoryReady
<1>. QED
  BY <1>1, <1>2, <1>3, <1>4, <1>5, RoundInv

LEMMA ApplyLoadedInv ==
  ASSUME TypeOK, CronInv, ApplyLoaded
  PROVE  TypeOK' /\ CronInv'
<1> DEFINE loaded == LoadedJobs(buffer)
           off == DisabledJobs(buffer)
<1>1. FireDue(loaded, off) /\ pc = "loading" /\ buffer \in Stores /\ now \in Nat
  BY DEF ApplyLoaded, TypeOK
<1>2. /\ loaded \in Stores /\ off \in Stores /\ SwitchedOff(off)
      /\ \A j \in Jobs : /\ buffer[j] # None => loaded[j] # None \/ off[j] # None
                         /\ buffer[j] = None => off[j] = None
  BY <1>1, LoadedStores, LoadedEntry
<1>3. Unknown(off)
  BY <1>2 DEF CronInv, CreatedInv, Unknown
<1>4. ~changed => \A j \in Jobs : file[j] # None =>
        loaded[j] # None \/ off[j] # None \/ Finished(j)
  BY <1>1, <1>2 DEF CronInv, CopyInv
<1>5. Ready(loaded)
  BY <1>1, BufferReady
<1>6. UNCHANGED <<now, file, changed, buffer, skillVars, crashes>>
  BY DEF ApplyLoaded
<1> HIDE DEF loaded, off
<1>. QED
  BY <1>1, <1>2, <1>3, <1>4, <1>5, <1>6, RoundInv

LEMMA BootInv ==
  ASSUME TypeOK, CronInv, Boot \/ BootWithoutJobs
  PROVE  TypeOK' /\ CronInv'
<1> USE DEF skillVars, historyVars
<1>1. /\ pc = "booting" /\ pc' = "sleeping" /\ changed' \in BOOLEAN
      /\ jobs' \in {LoadedJobs(buffer), NoJobs}
      /\ ~changed' => ~changed /\ jobs' = LoadedJobs(buffer)
      /\ disabled' = DisabledJobs(buffer)
      /\ UNCHANGED <<now, file, buffer, skill, skillOps, created, crashes,
                     fires, lastFire, visited, unsaved, stale, excused>>
      /\ buffer \in Stores /\ now \in Nat
  BY DEF Boot, BootWithoutJobs, TypeOK, CronInv, MemoryInv
<1>2. NoJobs \in Stores
  BY DEF NoJobs, Stores
<1>3. LoadedJobs(buffer) \in Stores /\ DisabledJobs(buffer) \in Stores
      /\ SwitchedOff(DisabledJobs(buffer))
  BY <1>1, LoadedStores
<1>4. TypeOK'
  BY <1>1, <1>2, <1>3 DEF TypeOK
<1>5. Ready(jobs')
  <2>1. Ready(LoadedJobs(buffer))
    BY <1>1, BufferReady
  <2>2. Ready(NoJobs)
    BY DEF Ready, NoJobs, Scheduled, Unknown, OnNextOccurrence, Settled
  <2>. QED
    BY <1>1, <2>1, <2>2
<1>6. MemoryInv'
  BY <1>1, <1>3, <1>5 DEF MemoryInv, Ready, Scheduled, SwitchedOff
<1>7. CopyInv'
  BY <1>1, LoadedEntry DEF CopyInv, CronInv
<1>8. CreatedInv'
  <2>1. \A j \in Jobs \ created : DisabledJobs(buffer)[j] = None
    BY <1>1, LoadedEntry DEF CronInv, CreatedInv, Unknown
  <2>. QED
    BY <1>1, <1>5, <2>1 DEF CronInv, CreatedInv, Ready, Unknown
<1>9. FiredInv'
  BY <1>1, <1>5 DEF CronInv, FiredInv, Ready, OnNextOccurrence, Settled
<1>. QED
  BY <1>4, <1>6, <1>7, <1>8, <1>9 DEF CronInv

LEMMA ApplyFailsInv ==
  ASSUME TypeOK, CronInv, ApplyFails
  PROVE  TypeOK' /\ CronInv'
<1> USE DEF skillVars, historyVars
<1>1. /\ pc' = "sleeping" /\ changed' = TRUE /\ jobs' = NoJobs
      /\ disabled' = DisabledJobs(buffer) /\ buffer \in Stores /\ now \in Nat
      /\ UNCHANGED <<now, file, buffer, skill, skillOps, created, crashes,
                     fires, lastFire, visited, unsaved, stale, excused>>
  BY DEF ApplyFails, TypeOK
<1>2. NoJobs \in Stores /\ Scheduled(NoJobs) /\ Unknown(NoJobs)
      /\ \A j \in Jobs : Settled(j, NoJobs[j]) /\ OnNextOccurrence(j, NoJobs[j])
  BY DEF NoJobs, Stores, Scheduled, Unknown, Settled, OnNextOccurrence
<1>3. DisabledJobs(buffer) \in Stores /\ SwitchedOff(DisabledJobs(buffer))
  BY <1>1, LoadedStores
<1>4. Unknown(DisabledJobs(buffer))
  BY <1>1, LoadedEntry DEF CronInv, CreatedInv, Unknown
<1>5. TypeOK'
  BY <1>1, <1>2, <1>3 DEF TypeOK
<1>6. MemoryInv' /\ CopyInv' /\ CreatedInv'
  BY <1>1, <1>2, <1>3, <1>4
     DEF CronInv, MemoryInv, CopyInv, CreatedInv, Scheduled, SwitchedOff, Unknown
<1>7. FiredInv'
  BY <1>1, <1>2 DEF CronInv, FiredInv, Settled, OnNextOccurrence
<1>. QED
  BY <1>5, <1>6, <1>7 DEF CronInv

LEMMA WriteStoreInv ==
  ASSUME TypeOK, CronInv, WriteStore
  PROVE  TypeOK' /\ CronInv'
<1> USE DEF skillVars, memVars
<1>1. /\ pc = "saving" /\ pc' = "sleeping" /\ file' = StoreToSave /\ changed' = FALSE
      /\ unsaved' = {}
      /\ UNCHANGED <<now, buffer, jobs, disabled, skill, skillOps, created, crashes,
                     fires, lastFire, visited, stale, excused>>
  BY DEF WriteStore
<1>2. \A j \in Jobs : StoreToSave[j] = IF jobs[j] # None THEN jobs[j] ELSE disabled[j]
  BY DEF StoreToSave
<1>3. StoreToSave \in Stores
  BY DEF StoreToSave, Stores, TypeOK
<1>4. TypeOK'
  BY <1>1, <1>3 DEF TypeOK
<1>5. MemoryInv' /\ CopyInv' /\ CreatedInv'
  BY <1>1, <1>2
     DEF CronInv, MemoryInv, CopyInv, CreatedInv, Scheduled, SwitchedOff, Unknown
<1>6. \A j \in Jobs : Settled(j, jobs[j]) => Settled(j, StoreToSave[j])
  BY <1>2 DEF CronInv, MemoryInv, SwitchedOff, Settled
<1>7. FiredInv'
  BY <1>1, <1>6 DEF CronInv, FiredInv, Settled, OnNextOccurrence
<1>. QED
  BY <1>4, <1>5, <1>7 DEF CronInv

\* The copy a call dumps knows only jobs that exist by then, and makes no job run
\* too early unless the copy was stale or a one-off job was updated.
LEMMA SkillDumpInv ==
  ASSUME TypeOK, CronInv, SkillDump
  PROVE  TypeOK' /\ CronInv'
<1> DEFINE c == skill.call
           copy == skill.copy
           rerun == IF c.op = "update" /\ Kind[c.job] = "at" THEN {c.job} ELSE {}
<1> USE DEF memVars
<1>1. /\ skill # None /\ file' = Changed(c, copy) /\ changed' = TRUE /\ skill' = None
      /\ created' = IF c.op = "create" THEN created \cup {c.job} ELSE created
      /\ excused' = excused \cup stale \cup rerun
      /\ stale' = {}
      /\ UNCHANGED <<now, pc, buffer, jobs, disabled, skillOps, crashes, fires, lastFire,
                     visited, unsaved>>
  BY DEF SkillDump
<1>2. /\ c.op \in {"create", "delete", "update"} /\ c.job \in Jobs
      /\ c.enabled \in BOOLEAN /\ copy \in Stores
  BY <1>1 DEF TypeOK, Calls
<1> HIDE DEF c, copy
<1>3. \A j \in Jobs : j # c.job => Changed(c, copy)[j] = copy[j]
  BY <1>2 DEF Changed, Stores
<1>4. /\ c.op = "create" => Changed(c, copy)[c.job] = NewEntry
      /\ c.op = "delete" => Changed(c, copy)[c.job] = None
      /\ c.op = "update" =>
           Changed(c, copy)[c.job] = [enabled |-> c.enabled, next |-> NoRun]
  BY <1>2 DEF Changed, Stores
<1>5. Changed(c, copy) \in Stores
  <2>1. NewEntry \in Entry /\ [enabled |-> c.enabled, next |-> NoRun] \in Entry
    BY <1>2 DEF NewEntry, Entry
  <2>. QED
    BY <1>2, <2>1 DEF Changed, Stores
<1>6. TypeOK'
  BY <1>1, <1>2, <1>5 DEF TypeOK
<1>7. MemoryInv' /\ CopyInv'
  BY <1>1 DEF CronInv, MemoryInv, CopyInv, Scheduled, SwitchedOff
<1>8. Unknown(copy) /\ (c.op = "create" <=> c.job \notin created)
  BY <1>1 DEF CronInv, CreatedInv, c, copy
<1>9. CreatedInv'
  <2>1. created \subseteq created' /\ c.job \in created'
    BY <1>1, <1>8
  <2>2. Unknown(file)'
    BY <1>1, <1>3, <1>8, <2>1 DEF Unknown
  <2>. QED
    BY <1>1, <2>1, <2>2 DEF CronInv, CreatedInv, Unknown
<1>10. FiredInv'
  <2> SUFFICES ASSUME NEW j \in Jobs, fires[j] > 0
               PROVE  /\ lastFire[j] \in Nat /\ lastFire[j] <= now
                      /\ OnNextOccurrence(j, jobs[j])
                      /\ j \notin excused' =>
                           /\ Settled(j, jobs[j])
                           /\ Settled(j, Changed(c, copy)[j])
                           /\ pc \in {"booting", "loading"} => Settled(j, buffer[j])
    BY <1>1 DEF FiredInv, Settled, OnNextOccurrence
  <2>1. j \in created
    BY DEF CronInv, CreatedInv
  <2>2. /\ lastFire[j] \in Nat /\ lastFire[j] <= now
        /\ OnNextOccurrence(j, jobs[j])
        /\ j \notin excused =>
             /\ Settled(j, jobs[j])
             /\ pc \in {"booting", "loading"} => Settled(j, buffer[j])
             /\ j \in stale \/ Settled(j, copy[j])
    BY <1>1 DEF CronInv, FiredInv, copy
  <2>3. ASSUME j \notin excused' PROVE Settled(j, Changed(c, copy)[j])
    <3>1. j \notin excused /\ j \notin stale /\ j \notin rerun
      BY <1>1, <2>3
    <3>2. CASE j # c.job
      BY <1>3, <2>2, <3>1, <3>2
    <3>3. CASE j = c.job
      <4>1. c.op # "create"
        BY <1>8, <2>1, <3>3
      <4>2. CASE c.op = "delete"
        BY <1>4, <3>3, <4>2 DEF Settled
      <4>3. CASE c.op = "update"
        BY <1>4, <3>1, <3>3, <4>3 DEF Settled
      <4>. QED
        BY <1>2, <4>1, <4>2, <4>3
    <3>. QED
      BY <3>2, <3>3
  <2>. QED
    BY <1>1, <2>2, <2>3
<1>. QED
  BY <1>6, <1>7, <1>9, <1>10 DEF CronInv

\* Every step keeps the invariant.
LEMMA CronStep == TypeOK /\ CronInv /\ [Next]_vars => TypeOK' /\ CronInv'
<1> SUFFICES ASSUME TypeOK, CronInv, [Next]_vars PROVE TypeOK' /\ CronInv'
  OBVIOUS
<1> USE DEF memVars, skillVars, historyVars
<1>1. CASE Tick
  <2>1. now' = now + 1 /\ now \in Nat /\ ~visited' /\ visited' \in BOOLEAN
        /\ UNCHANGED <<file, changed, pc, memVars, skillVars, crashes, fires, lastFire,
                       unsaved, stale, excused>>
    BY <1>1 DEF Tick, TypeOK
  <2>2. TypeOK'
    BY <2>1 DEF TypeOK
  <2>3. MemoryInv' /\ CopyInv' /\ CreatedInv'
    BY <2>1 DEF CronInv, MemoryInv, CopyInv, CreatedInv, Scheduled, SwitchedOff, Unknown,
       Finished
  <2>4. FiredInv'
    BY <2>1 DEF CronInv, FiredInv, Settled, OnNextOccurrence
  <2>. QED
    BY <2>2, <2>3, <2>4 DEF CronInv
<1>14. CASE Start
  <2>1. /\ pc = "down" /\ pc' = "booting" /\ buffer' = file /\ changed' = FALSE
        /\ UNCHANGED <<now, file, jobs, disabled, skillVars, crashes, historyVars>>
    BY <1>14 DEF Start
  <2>2. TypeOK'
    BY <2>1 DEF TypeOK
  <2>3. MemoryInv' /\ CopyInv' /\ CreatedInv'
    BY <2>1 DEF CronInv, MemoryInv, CopyInv, CreatedInv, Scheduled, SwitchedOff, Unknown
  <2>4. FiredInv'
    BY <2>1 DEF CronInv, MemoryInv, FiredInv, Settled, OnNextOccurrence
  <2>. QED
    BY <2>2, <2>3, <2>4 DEF CronInv
<1>2. CASE Boot \/ BootWithoutJobs
  BY <1>2, BootInv
<1>15. CASE BootFails
  <2>1. /\ pc = "booting" /\ pc' = "down" /\ buffer' = NoJobs
        /\ UNCHANGED <<now, file, changed, jobs, disabled, skillVars, crashes, historyVars>>
    BY <1>15 DEF BootFails
  <2>2. NoJobs \in Stores /\ \A j \in Jobs : NoJobs[j] = None
    BY DEF NoJobs, Stores
  <2>3. TypeOK'
    BY <2>1, <2>2 DEF TypeOK
  <2>4. MemoryInv' /\ CopyInv' /\ CreatedInv'
    BY <2>1, <2>2 DEF CronInv, MemoryInv, CopyInv, CreatedInv, Scheduled, SwitchedOff, Unknown
  <2>5. FiredInv'
    BY <2>1, <2>2 DEF CronInv, FiredInv, Settled, OnNextOccurrence
  <2>. QED
    BY <2>3, <2>4, <2>5 DEF CronInv
<1>3. CASE TickUnchanged
  BY <1>3, TickUnchangedInv
<1>16. CASE StartRead \/ ReadFails
  <2>1. /\ <<pc, pc'>> \in {<<"sleeping", "reading">>, <<"reading", "sleeping">>}
        /\ UNCHANGED <<now, file, changed, memVars, skillVars, crashes, historyVars>>
    BY <1>16 DEF StartRead, ReadFails
  <2>2. TypeOK'
    BY <2>1 DEF TypeOK
  <2>3. MemoryInv' /\ CopyInv' /\ CreatedInv'
    BY <2>1 DEF CronInv, MemoryInv, CopyInv, CreatedInv, Scheduled, SwitchedOff, Unknown,
       Finished
  <2>4. FiredInv'
    BY <2>1 DEF CronInv, FiredInv, Settled, OnNextOccurrence
  <2>. QED
    BY <2>2, <2>3, <2>4 DEF CronInv
<1>4. CASE ReadStore
  <2>1. /\ pc = "reading" /\ pc' = "loading" /\ buffer' = file /\ changed' = FALSE
        /\ excused' = excused \cup unsaved
        /\ UNCHANGED <<now, file, jobs, disabled, skillVars, crashes, fires, lastFire,
                       visited, unsaved, stale>>
    BY <1>4 DEF ReadStore
  <2>2. TypeOK'
    BY <2>1 DEF TypeOK
  <2>3. MemoryInv' /\ CopyInv' /\ CreatedInv'
    BY <2>1 DEF CronInv, MemoryInv, CopyInv, CreatedInv, Scheduled, SwitchedOff, Unknown
  <2>4. FiredInv'
    BY <2>1 DEF CronInv, FiredInv, Settled, OnNextOccurrence
  <2>. QED
    BY <2>2, <2>3, <2>4 DEF CronInv
<1>5. CASE ApplyLoaded
  BY <1>5, ApplyLoadedInv
<1>6. CASE ApplyFails
  BY <1>6, ApplyFailsInv
<1>7. CASE WriteStore
  BY <1>7, WriteStoreInv
<1>8. CASE SaveFails
  <2>1. /\ pc = "saving" /\ pc' = "sleeping"
        /\ UNCHANGED <<now, file, changed, memVars, skillVars, crashes, historyVars>>
    BY <1>8 DEF SaveFails
  <2>2. TypeOK'
    BY <2>1 DEF TypeOK
  <2>3. MemoryInv' /\ CopyInv' /\ CreatedInv'
    BY <2>1 DEF CronInv, MemoryInv, CopyInv, CreatedInv, Scheduled, SwitchedOff, Unknown,
       Finished
  <2>4. FiredInv'
    BY <2>1 DEF CronInv, FiredInv, Settled, OnNextOccurrence
  <2>. QED
    BY <2>2, <2>3, <2>4 DEF CronInv
<1>9. CASE Crash
  <2>1. /\ pc' = "down" /\ visited' = FALSE /\ jobs' = NoJobs /\ disabled' = NoJobs /\ buffer' = NoJobs
        /\ changed' = FALSE /\ unsaved' = {} /\ excused' = excused \cup unsaved
        /\ UNCHANGED <<now, file, skillVars, fires, lastFire, stale>>
    BY <1>9 DEF Crash
  <2>2. NoJobs \in Stores /\ \A j \in Jobs : NoJobs[j] = None
    BY DEF NoJobs, Stores
  <2>3. TypeOK'
    BY <2>1, <2>2 DEF TypeOK
  <2>4. MemoryInv' /\ CopyInv' /\ CreatedInv'
    BY <2>1, <2>2 DEF CronInv, MemoryInv, CopyInv, CreatedInv, Scheduled, SwitchedOff, Unknown
  <2>5. FiredInv'
    BY <2>1, <2>2 DEF CronInv, FiredInv, Settled, OnNextOccurrence
  <2>. QED
    BY <2>3, <2>4, <2>5 DEF CronInv
<1>10. CASE SkillLoad
  <2>1. /\ stale' = unsaved /\ skill = None
        /\ UNCHANGED <<now, file, changed, pc, memVars, created, crashes, fires, lastFire,
                       visited, unsaved, excused>>
    BY <1>10 DEF SkillLoad
  <2>2. PICK c \in SkillCalls : skill' = [call |-> c, copy |-> file]
    BY <1>10 DEF SkillLoad
  <2>3. /\ c \in [op : {"create", "delete", "update"}, job : Jobs, enabled : BOOLEAN]
        /\ c.op = "create" <=> file[c.job] = None /\ c.job \notin created
        /\ c.op # "create" => file[c.job] # None
    BY <2>2 DEF SkillCalls
  <2>4. skill'.call = c /\ skill'.copy = file /\ skill' \in Calls
    BY <2>2, <2>3 DEF Calls, TypeOK
  <2>5. TypeOK'
    BY <2>1, <2>4 DEF TypeOK
  <2>6. MemoryInv' /\ CopyInv'
    BY <2>1 DEF CronInv, MemoryInv, CopyInv, Scheduled, SwitchedOff, Finished
  <2>7. c.op = "create" <=> c.job \notin created
    BY <2>3 DEF CronInv, CreatedInv, Unknown
  <2>8. CreatedInv'
    BY <2>1, <2>4, <2>7 DEF CronInv, CreatedInv, Unknown
  <2>9. FiredInv'
    BY <2>1, <2>4 DEF CronInv, FiredInv, Settled, OnNextOccurrence
  <2>. QED
    BY <2>5, <2>6, <2>8, <2>9 DEF CronInv
<1>11. CASE SkillDump
  BY <1>11, SkillDumpInv
<1>12. CASE SkillDies
  <2>1. /\ skill' = None /\ stale' = {}
        /\ UNCHANGED <<now, file, changed, pc, memVars, skillOps, created, crashes, fires,
                       lastFire, visited, unsaved, excused>>
    BY <1>12 DEF SkillDies
  <2>2. TypeOK'
    BY <2>1 DEF TypeOK
  <2>3. MemoryInv' /\ CopyInv' /\ CreatedInv'
    BY <2>1 DEF CronInv, MemoryInv, CopyInv, CreatedInv, Scheduled, SwitchedOff, Unknown,
       Finished
  <2>4. FiredInv'
    BY <2>1 DEF CronInv, FiredInv, Settled, OnNextOccurrence
  <2>. QED
    BY <2>2, <2>3, <2>4 DEF CronInv
<1>13. CASE UNCHANGED vars
  <2>1. TypeOK'
    BY <1>13 DEF TypeOK, vars
  <2>2. MemoryInv' /\ CopyInv' /\ CreatedInv'
    BY <1>13 DEF CronInv, MemoryInv, CopyInv, CreatedInv, Scheduled, SwitchedOff, Unknown,
       Finished, vars
  <2>3. FiredInv'
    BY <1>13 DEF CronInv, FiredInv, Settled, OnNextOccurrence, vars
  <2>. QED
    BY <2>1, <2>2, <2>3 DEF CronInv
<1>. QED
  BY <1>1, <1>2, <1>3, <1>4, <1>5, <1>6, <1>7, <1>8, <1>9, <1>10, <1>11, <1>12, <1>13,
     <1>14, <1>15, <1>16 DEF Next, ServiceStep, SkillStep

\* The copies of tasks.json and the histories stay in their domains, and what the
\* copies may disagree about is bounded by CronInv.
THEOREM CronInvCorrect == Spec => [](TypeOK /\ CronInv)
<1>1. Init => TypeOK /\ CronInv
  <2> SUFFICES ASSUME Init PROVE TypeOK /\ CronInv
    OBVIOUS
  <2>1. NewEntry \in Entry /\ NoJobs \in Stores /\ \A j \in Jobs : NoJobs[j] = None
    BY DEF NewEntry, Entry, NoJobs, Stores
  <2>2. file \in Stores
    BY <2>1 DEF Init, Stores
  <2>3. TypeOK
    BY <2>1, <2>2, CronAssumption DEF Init, TypeOK, NoRun
  <2>4. MemoryInv /\ CopyInv /\ CreatedInv /\ FiredInv
    BY <2>1 DEF Init, MemoryInv, CopyInv, CreatedInv, FiredInv, Scheduled, SwitchedOff,
       Unknown
  <2>. QED
    BY <2>3, <2>4 DEF CronInv
<1>. QED
  BY <1>1, CronStep, PTL DEF Spec

-----------------------------------------------------------------------------
(***************************************************************************)
(* What the service may do in a step.                                      *)
(***************************************************************************)

\* Jobs are dispatched only in a round of a tick, from memory that is ready.
LEMMA OnlyRoundsFire ==
  ASSUME TypeOK, CronInv, [Next]_vars, NEW j \in Jobs, fires'[j] # fires[j]
  PROVE  \/ TickUnchanged /\ FireDue(jobs, disabled) /\ Ready(jobs)
         \/ /\ ApplyLoaded /\ FireDue(LoadedJobs(buffer), DisabledJobs(buffer))
            /\ Ready(LoadedJobs(buffer))
<1>1. TickUnchanged \/ ApplyLoaded
  BY DEF Next, ServiceStep, SkillStep, Tick, Start, Boot, BootWithoutJobs, BootFails,
     StartRead, ReadStore, ReadFails, ApplyFails, WriteStore, SaveFails, Crash, SkillLoad, SkillDump, SkillDies, historyVars, vars
<1>. QED
  BY <1>1, MemoryReady, BufferReady DEF TickUnchanged, ApplyLoaded

\* A one-off job is dispatched once, an interval job not before its interval is
\* over and a cron job not twice for one occurrence, whatever loads, saves, calls
\* of the skill and restarts come between, except for the named excuses.
THEOREM NoJobFiresTwice == Spec => NoSpuriousFire
<1> DEFINE Timely(j) ==
             CASE Kind[j] = "at"    -> j \in excused
               [] Kind[j] = "every" -> j \in excused \/ now >= lastFire[j] + Period[j]
               [] Kind[j] = "cron"  -> NextOccurrence(j, lastFire[j]) <= now
           A == \A j \in Jobs : fires'[j] > fires[j] /\ fires[j] > 0 => Timely(j)
<1>1. TypeOK /\ CronInv /\ [Next]_vars => [A]_vars
  <2> SUFFICES ASSUME TypeOK, CronInv, [Next]_vars, NEW j \in Jobs,
                      fires'[j] > fires[j], fires[j] > 0
               PROVE  Timely(j)
    OBVIOUS
  <2>1. /\ fires'[j] # fires[j] /\ now \in Nat /\ lastFire[j] \in Nat
        /\ Kind[j] \in {"at", "every", "cron"} /\ Period[j] \in Nat
    BY CronAssumption DEF TypeOK, CronInv, FiredInv
  <2>2. PICK loaded \in Stores :
          Ready(loaded) /\ \E off : FireDue(loaded, off)
    BY <2>1, OnlyRoundsFire, LoadedStores DEF TypeOK
  <2>3. IsDue(loaded[j])
    BY <2>1, <2>2, RoundMemory DEF Ready
  <2>4. /\ loaded[j] # None /\ loaded[j].enabled /\ loaded[j].next # NoRun
        /\ loaded[j].next \in Nat /\ loaded[j].next <= now
    BY <2>1, <2>2, <2>3, DueEntry DEF Ready, IsDue
  <2>5. OnNextOccurrence(j, loaded[j]) /\ (j \notin excused => Settled(j, loaded[j]))
    BY <2>2 DEF Ready
  <2>6. Kind[j] = "at" => j \in excused
    BY <2>4, <2>5 DEF Settled
  <2>7. Kind[j] = "every" => j \in excused \/ now >= lastFire[j] + Period[j]
    BY <2>1, <2>4, <2>5 DEF Settled
  <2>8. Kind[j] = "cron" => NextOccurrence(j, lastFire[j]) <= now
    <3>1. NextOccurrence(j, lastFire[j]) \in Nat
      BY <2>1, NextOccurrenceFacts
    <3>. QED
      BY <2>1, <2>4, <2>5, <3>1 DEF OnNextOccurrence
  <2>. QED
    BY <2>1, <2>6, <2>7, <2>8
<1>. QED
  BY <1>1, CronInvCorrect, PTL DEF Spec, NoSpuriousFire

\* An entry leaves tasks.json only for the named reasons; in particular a save of
\* the service keeps every job of a file it has seen.
THEOREM SavesKeepJobs == Spec => JobsKept
<1> DEFINE A == \A j \in Jobs :
                  file[j] # None /\ file'[j] = None =>
                    \/ skill # None /\ skill.call.op = "delete" /\ skill.call.job = j
                    \/ Kind[j] = "at" /\ j \in DeleteAfter /\ fires[j] > 0
                    \/ changed
                    \/ skill # None /\ skill' = None /\ skill.copy[j] = None
<1>1. TypeOK /\ CronInv /\ [Next]_vars => [A]_vars
  <2> SUFFICES ASSUME TypeOK, CronInv, [Next]_vars, NEW j \in Jobs,
                      file[j] # None, file'[j] = None
               PROVE  \/ skill # None /\ skill.call.op = "delete" /\ skill.call.job = j
                      \/ Kind[j] = "at" /\ j \in DeleteAfter /\ fires[j] > 0
                      \/ changed
                      \/ skill # None /\ skill' = None /\ skill.copy[j] = None
    OBVIOUS
  <2>1. WriteStore \/ SkillDump
    BY DEF Next, ServiceStep, SkillStep, Tick, Start, Boot, BootWithoutJobs, BootFails,
       TickUnchanged, StartRead, ReadStore, ReadFails, ApplyLoaded, ApplyFails, SaveFails, Crash, SkillLoad, SkillDies, vars
  <2>2. CASE WriteStore
    BY <2>2 DEF WriteStore, StoreToSave, CronInv, CopyInv, Finished
  <2>3. CASE SkillDump
    <3>1. /\ skill # None /\ skill' = None /\ skill \in Calls
          /\ Changed(skill.call, skill.copy)[j] = None
      BY <2>3 DEF SkillDump, TypeOK
    <3>2. /\ skill.call.op \in {"create", "delete", "update"} /\ skill.call.job \in Jobs
          /\ skill.call.enabled \in BOOLEAN /\ skill.copy \in Stores
      BY <3>1 DEF Calls
    <3>3. NewEntry # None /\ [enabled |-> skill.call.enabled, next |-> NoRun] # None
      BY <3>2, EntryNotNone DEF NewEntry, Entry
    <3>. QED
      BY <3>1, <3>2, <3>3 DEF Changed, Stores
  <2>. QED
    BY <2>1, <2>2, <2>3
<1>. QED
  BY <1>1, CronInvCorrect, PTL DEF Spec, JobsKept

-----------------------------------------------------------------------------
(***************************************************************************)
(* Nothing due is left behind.                                             *)
(***************************************************************************)

\* A one-off job has the time it was given or none, and a periodic one is never
\* more than a period away.
Near(store) ==
  \A j \in Jobs : store[j] # None =>
    IF Kind[j] = "at" THEN store[j].next \in {NoRun, Period[j]}
    ELSE store[j].next <= now + Period[j]

DueInv ==
  /\ Near(file) /\ Near(buffer) /\ Near(jobs) /\ Near(disabled)
  /\ skill # None => Near(skill.copy)
  /\ \A j \in Enabled(jobs) : Kind[j] = "at" => jobs[j].next # NoRun
  /\ visited => \A j \in Jobs : ~IsDue(jobs[j])

\* The occurrence after t is at most one period after it.
LEMMA OccurrenceIsNear ==
  ASSUME NEW j \in Jobs, NEW t \in Nat
  PROVE  NextOccurrence(j, t) <= t + Period[j]
<1> DEFINE p == Period[j]
           q == t \div p
<1>1. p \in Nat \ {0}
  BY CronAssumption
<1> HIDE DEF p
<1>2. q \in Nat /\ q * p <= t
  BY <1>1
<1>3. (q + 1) * p = q * p + p
  <2> HIDE DEF q
  <2> QED
    BY <1>1, <1>2
<1>4. NextOccurrence(j, t) = (q + 1) * p
  BY DEF NextOccurrence, p
<1> QED
  <2> HIDE DEF q
  <2>1. q * p \in Nat
    BY <1>1, <1>2
  <2> QED
    BY <1>1, <1>2, <1>3, <1>4, <2>1 DEF p

\* Loading a store that is near makes memory that is, with a time for every job.
LEMMA LoadedNear ==
  ASSUME NEW store \in Stores, now \in Nat, Near(store)
  PROVE  /\ Near(LoadedJobs(store)) /\ Near(DisabledJobs(store))
         /\ \A j \in Jobs : LoadedJobs(store)[j] # None => LoadedJobs(store)[j].next # NoRun
<1>1. ASSUME NEW j \in Jobs, LoadedJobs(store)[j] # None
      PROVE  /\ LoadedJobs(store)[j].next # NoRun
             /\ IF Kind[j] = "at" THEN LoadedJobs(store)[j].next = Period[j]
                ELSE LoadedJobs(store)[j].next <= now + Period[j]
  <2>1. /\ store[j] # None /\ LoadedJobs(store)[j].next = NextRun(j, store[j])
        /\ store[j].next \in Nat \cup {NoRun}
    BY <1>1, LoadedEntry, StoreEntry
  <2>2. NextRun(j, store[j]) # NoRun
    BY <2>1, StoreEntry, NextRunType DEF NoRun
  <2>3. IF Kind[j] = "at" THEN store[j].next \in {NoRun, Period[j]}
        ELSE store[j].next <= now + Period[j]
    BY <2>1 DEF Near
  <2>4. Kind[j] \in {"at", "every", "cron"} /\ Period[j] \in Nat
    BY CronAssumption
  <2>5. CASE Kind[j] = "at"
    BY <2>1, <2>2, <2>3, <2>5 DEF NextRun
  <2>6. CASE Kind[j] = "every"
    BY <2>1, <2>2, <2>3, <2>4, <2>6 DEF NextRun
  <2>7. CASE Kind[j] = "cron"
    BY <2>1, <2>2, <2>7, OccurrenceIsNear DEF NextRun
  <2> QED
    BY <2>4, <2>5, <2>6, <2>7
<1>2. Near(DisabledJobs(store))
  BY DEF DisabledJobs, Near
<1> QED
  BY <1>1, <1>2 DEF Near

\* After a round nothing is due, and what is enabled has a time that is near.
LEMMA RoundDue ==
  ASSUME TypeOK, NEW loaded \in Stores, NEW off, Scheduled(loaded), FireDue(loaded, off),
         Near(loaded), \A j \in Jobs : loaded[j] # None /\ loaded[j].enabled =>
                                         (Kind[j] = "at" => loaded[j].next # NoRun)
  PROVE  /\ Near(jobs)' \/ now' # now
         /\ \A j \in Jobs : jobs'[j] # None /\ jobs'[j].enabled =>
                              (Kind[j] = "at" => jobs'[j].next # NoRun)
         /\ \A j \in Jobs : jobs'[j] # None =>
              jobs'[j].next = NoRun \/ jobs'[j].next > now
<1>1. now \in Nat
  BY DEF TypeOK
<1>2. ASSUME NEW j \in Jobs, jobs'[j] # None
      PROVE  /\ IF Kind[j] = "at" THEN jobs'[j].next \in {NoRun, Period[j]}
                ELSE jobs'[j].next <= now + Period[j]
             /\ jobs'[j].enabled => (Kind[j] = "at" => jobs'[j].next # NoRun)
             /\ jobs'[j].next = NoRun \/ jobs'[j].next > now
  <2>1. Kind[j] \in {"at", "every", "cron"} /\ Period[j] \in Nat /\ Period[j] > 0
    BY CronAssumption
  <2>2. CASE IsDue(loaded[j])
    <3>1. jobs'[j] = AfterFire(j, loaded[j])
      BY <2>2, RoundMemory
    <3>2. loaded[j] \in Entry /\ loaded[j].enabled
      BY <1>1, <2>2, DueEntry
    <3>3. /\ Kind[j] = "at" => ~jobs'[j].enabled /\ jobs'[j].next = NoRun
          /\ Kind[j] = "every" => jobs'[j].next = now + Period[j]
          /\ Kind[j] = "cron" => jobs'[j].next = NextOccurrence(j, now)
      BY <1>1, <1>2, <2>2, <3>1, <3>2, AfterFireEntry
    <3>4. NextOccurrence(j, now) <= now + Period[j] /\ NextOccurrence(j, now) > now
      BY <1>1, OccurrenceIsNear, NextOccurrenceFacts
    <3> QED
      BY <1>1, <2>1, <3>3, <3>4
  <2>3. CASE ~IsDue(loaded[j])
    <3>1. jobs'[j] = loaded[j] /\ loaded[j] # None
      BY <1>2, <2>3, RoundMemory
    <3>2. loaded[j].next \in Nat \cup {NoRun}
      BY <3>1, StoreEntry
    <3>3. loaded[j].next = NoRun \/ loaded[j].next > now
      BY <1>1, <2>3, <3>1, <3>2 DEF IsDue, NoRun
    <3> QED
      BY <3>1, <3>3 DEF Near
  <2> QED
    BY <2>2, <2>3
<1> QED
  BY <1>2 DEF Near

LEMMA DueStep == TypeOK /\ CronInv /\ DueInv /\ [Next]_vars => DueInv'
<1> SUFFICES ASSUME TypeOK, CronInv, DueInv, [Next]_vars PROVE DueInv'
  OBVIOUS
<1> USE DEF memVars, skillVars, historyVars
<1>1. now \in Nat /\ file \in Stores /\ buffer \in Stores /\ jobs \in Stores
      /\ disabled \in Stores /\ Scheduled(jobs)
  BY DEF TypeOK, CronInv, MemoryInv
<1>2. Near(NoJobs) /\ \A j \in Jobs : NoJobs[j] = None
  BY DEF Near, NoJobs
<1>3. CASE Tick
  <2>1. now' = now + 1 /\ ~visited' /\ file' = file /\ buffer' = buffer /\ jobs' = jobs
        /\ disabled' = disabled /\ skill' = skill
    BY <1>3 DEF Tick
  <2>2. ASSUME NEW store \in Stores, Near(store)
        PROVE  \A j \in Jobs : store[j] # None =>
                 IF Kind[j] = "at" THEN store[j].next \in {NoRun, Period[j]}
                 ELSE store[j].next <= now + 1 + Period[j]
    <3> SUFFICES ASSUME NEW j \in Jobs, store[j] # None, Kind[j] # "at"
                 PROVE  store[j].next <= now + 1 + Period[j]
      BY <2>2 DEF Near
    <3>1. store[j].next <= now + Period[j] /\ store[j].next \in Nat \cup {NoRun}
          /\ Period[j] \in Nat
      BY <2>2, StoreEntry, CronAssumption DEF Near
    <3> QED
      BY <1>1, <3>1 DEF NoRun
  <2>3. skill # None => skill.copy \in Stores
    BY DEF TypeOK, Calls
  <2>4. Near(file)' /\ Near(buffer)' /\ Near(jobs)' /\ Near(disabled)'
    BY <1>1, <2>1, <2>2 DEF Near, DueInv
  <2>5. skill # None => Near(skill.copy)'
    BY <2>1, <2>2, <2>3 DEF Near, DueInv
  <2> QED
    BY <2>1, <2>4, <2>5 DEF DueInv, Enabled
<1>4. CASE Start \/ StartRead \/ ReadStore \/ ReadFails \/ SaveFails
  <2>1. /\ buffer' \in {buffer, file}
        /\ UNCHANGED <<now, file, jobs, disabled, skill, visited>>
    BY <1>4 DEF Start, StartRead, ReadStore, ReadFails, SaveFails
  <2> QED
    BY <2>1 DEF DueInv, Near, Enabled, IsDue
<1>5. CASE Boot \/ BootWithoutJobs \/ BootFails \/ ApplyFails \/ Crash
  <2>1. /\ jobs' \in {LoadedJobs(buffer), jobs, NoJobs}
        /\ disabled' \in {DisabledJobs(buffer), disabled, NoJobs}
        /\ buffer' \in {buffer, NoJobs}
        /\ UNCHANGED <<now, file, skill>>
    BY <1>5 DEF Boot, BootWithoutJobs, BootFails, ApplyFails, Crash
  <2>2. /\ Near(LoadedJobs(buffer)) /\ Near(DisabledJobs(buffer))
        /\ \A j \in Jobs : LoadedJobs(buffer)[j] # None => LoadedJobs(buffer)[j].next # NoRun
    BY <1>1, LoadedNear DEF DueInv
  <2>3. Near(file)' /\ Near(buffer)' /\ Near(jobs)' /\ Near(disabled)'
        /\ (skill # None => Near(skill.copy))'
    BY <1>2, <2>1, <2>2 DEF DueInv, Near
  <2>4. \A j \in Enabled(jobs)' : Kind[j] = "at" => jobs'[j].next # NoRun
    BY <1>2, <2>1, <2>2 DEF DueInv, Enabled
  <2>5. visited' => \A j \in Jobs : ~IsDue(jobs[j])'
    <3>1. CASE Boot \/ BootWithoutJobs \/ BootFails
      <4>1. pc = "booting" /\ visited' = visited
        BY <3>1 DEF Boot, BootWithoutJobs, BootFails
      <4>2. ~visited
        BY <4>1 DEF CronInv, MemoryInv
      <4> QED
        BY <4>1, <4>2
    <3>2. CASE ApplyFails \/ Crash
      BY <1>2, <3>2 DEF ApplyFails, Crash, IsDue
    <3> QED
      BY <1>5, <3>1, <3>2
  <2> QED
    BY <2>3, <2>4, <2>5 DEF DueInv
<1>6. CASE TickUnchanged \/ ApplyLoaded
  <2>1. PICK loaded, off :
          /\ FireDue(loaded, off) /\ loaded \in Stores /\ Scheduled(loaded)
          /\ Near(loaded) /\ Near(off)
          /\ \A j \in Jobs : loaded[j] # None /\ loaded[j].enabled =>
                               (Kind[j] = "at" => loaded[j].next # NoRun)
    <3>1. CASE TickUnchanged
      BY <1>1, <3>1 DEF TickUnchanged, DueInv, Enabled
    <3>2. CASE ApplyLoaded
      BY <1>1, <3>2, LoadedNear, LoadedStores DEF ApplyLoaded, DueInv
    <3> QED
      BY <1>6, <3>1, <3>2
  <2>2. /\ Near(jobs)' \/ now' # now
        /\ \A j \in Jobs : jobs'[j] # None /\ jobs'[j].enabled =>
                             (Kind[j] = "at" => jobs'[j].next # NoRun)
        /\ \A j \in Jobs : jobs'[j] # None => jobs'[j].next = NoRun \/ jobs'[j].next > now
        /\ \A j \in Jobs : jobs'[j] \in Entry \cup {None}
    BY <2>1, RoundDue, RoundMemory
  <2>3. /\ UNCHANGED <<now, file, buffer, skill>>
        /\ disabled' = off
    BY <1>6, <2>1 DEF TickUnchanged, ApplyLoaded, FireDue
  <2>4. disabled' = off
    BY <2>3
  <2>5. Near(file)' /\ Near(buffer)' /\ (skill # None => Near(skill.copy))'
    BY <2>3 DEF Near, DueInv
  <2>6. Near(disabled)'
    BY <2>1, <2>3 DEF Near
  <2>7. \A j \in Jobs : ~IsDue(jobs[j])'
    <3> SUFFICES ASSUME NEW j \in Jobs, IsDue(jobs[j])' PROVE FALSE
      OBVIOUS
    <3>1. jobs'[j] # None /\ jobs'[j].next # NoRun /\ jobs'[j].next <= now
      BY <2>3 DEF IsDue
    <3>2. jobs'[j].next > now /\ jobs'[j].next \in Nat \cup {NoRun}
      BY <2>2, <3>1 DEF Entry
    <3> QED
      BY <1>1, <3>1, <3>2 DEF NoRun
  <2> QED
    BY <2>2, <2>3, <2>5, <2>6, <2>7 DEF DueInv, Enabled
<1>7. CASE WriteStore
  <2>1. /\ file' = StoreToSave
        /\ UNCHANGED <<now, buffer, jobs, disabled, skill, visited>>
    BY <1>7 DEF WriteStore
  <2>2. Near(file)'
    BY <2>1 DEF DueInv, Near, StoreToSave
  <2> QED
    BY <2>1, <2>2 DEF DueInv, Near, Enabled, IsDue
<1>8. CASE SkillLoad
  <2>1. PICK c \in SkillCalls : skill' = [call |-> c, copy |-> file]
    BY <1>8 DEF SkillLoad
  <2>2. skill'.copy = file /\ UNCHANGED <<now, file, buffer, jobs, disabled, visited>>
    BY <1>8, <2>1 DEF SkillLoad
  <2> QED
    BY <2>2 DEF DueInv, Near, Enabled, IsDue
<1>9. CASE SkillDump
  <2>1. /\ skill # None /\ skill' = None /\ file' = Changed(skill.call, skill.copy)
        /\ UNCHANGED <<now, buffer, jobs, disabled, visited>>
    BY <1>9 DEF SkillDump
  <2>2. /\ skill.call.op \in {"create", "delete", "update"} /\ skill.call.job \in Jobs
        /\ skill.copy \in Stores /\ Near(skill.copy)
    BY <2>1 DEF TypeOK, Calls, DueInv
  <2>3. ASSUME NEW j \in Jobs, file'[j] # None
        PROVE  file'[j].next = NoRun \/ (skill.copy[j] # None /\ file'[j] = skill.copy[j])
    BY <2>1, <2>2, <2>3 DEF Changed, Stores, NewEntry
  <2>4. Near(file)'
    <3> SUFFICES ASSUME NEW j \in Jobs, file'[j] # None
                 PROVE  IF Kind[j] = "at" THEN file'[j].next \in {NoRun, Period[j]}
                        ELSE file'[j].next <= now + Period[j]
      BY <2>1 DEF Near
    <3>1. Period[j] \in Nat
      BY CronAssumption
    <3> QED
      BY <1>1, <2>2, <2>3, <3>1 DEF Near, NoRun
  <2> QED
    BY <2>1, <2>4 DEF DueInv, Near, Enabled, IsDue
<1>10. CASE SkillDies
  <2>1. skill' = None /\ UNCHANGED <<now, file, buffer, jobs, disabled, visited>>
    BY <1>10 DEF SkillDies
  <2> QED
    BY <2>1 DEF DueInv, Near, Enabled, IsDue
<1>11. CASE UNCHANGED vars
  BY <1>11 DEF vars, DueInv, Near, Enabled, IsDue
<1> QED
  BY <1>3, <1>4, <1>5, <1>6, <1>7, <1>8, <1>9, <1>10, <1>11 DEF Next, ServiceStep, SkillStep

\* A job in memory stops being due only by its dispatch, unless the tick reloads
\* the file and the file says something else.
LEMMA DueIsMetStep ==
  ASSUME TypeOK, CronInv, [Next]_vars, NEW j \in Jobs
  PROVE  DueIsMet(j)
<1> SUFFICES ASSUME IsDue(jobs[j]), ~IsDue(jobs'[j]), pc' # "down",
                    fires'[j] # fires[j] + 1
             PROVE  pc = "loading" /\ (\/ LoadFails(buffer)
                                       \/ Kind[j] = "cron"
                                       \/ buffer[j] # jobs[j])
  BY DEF DueIsMet
<1>1. jobs[j] \in Entry /\ jobs[j] # None /\ jobs[j].next # NoRun /\ jobs[j].enabled
      /\ jobs[j].next \in Nat /\ jobs[j].next <= now /\ now \in Nat
  BY DueEntry DEF IsDue, TypeOK, CronInv, MemoryInv
<1>2. jobs' # jobs \/ now' # now
  BY DEF IsDue
<1>3. TickUnchanged \/ ApplyLoaded \/ ApplyFails \/ Boot \/ Tick
  BY <1>2 DEF Next, ServiceStep, SkillStep, Start, BootWithoutJobs, BootFails, StartRead,
     ReadStore, ReadFails, WriteStore, SaveFails, Crash, SkillLoad, SkillDump, SkillDies,
     memVars, vars
<1>4. ~Boot
  BY <1>1 DEF Boot, CronInv, MemoryInv, NoJobs
<1>5. ~Tick
  BY <1>1 DEF Tick, IsDue, memVars
<1>6. ~TickUnchanged
  <2> SUFFICES ASSUME TickUnchanged PROVE FALSE
    OBVIOUS
  <2>1. FireDue(jobs, disabled) /\ Scheduled(jobs) /\ jobs \in Stores
    BY DEF TickUnchanged, CronInv, MemoryInv, TypeOK
  <2>. QED
    BY <2>1, RoundMemory
<1>7. CASE ApplyFails
  BY <1>7 DEF ApplyFails
<1>8. CASE ApplyLoaded
  <2> SUFFICES ASSUME Kind[j] # "cron", buffer[j] = jobs[j] PROVE FALSE
    BY <1>8 DEF ApplyLoaded
  <2>1. /\ FireDue(LoadedJobs(buffer), DisabledJobs(buffer)) /\ buffer \in Stores
        /\ LoadedJobs(buffer) \in Stores /\ Scheduled(LoadedJobs(buffer))
    BY <1>1, <1>8, LoadedStores DEF ApplyLoaded, TypeOK
  <2>2. j \in Enabled(buffer)
    BY <1>1 DEF Enabled
  <2>3. LoadedJobs(buffer)[j] # None /\ LoadedJobs(buffer)[j].next = jobs[j].next
    <3>1. LoadedJobs(buffer)[j] # None
      BY <1>1, <2>1, <2>2, RescheduledEntry, EntryNotNone DEF LoadedJobs
    <3>2. NextRun(j, buffer[j]) = jobs[j].next
      BY <1>1 DEF NextRun
    <3>. QED
      BY <1>1, <2>1, <3>1, <3>2, LoadedEntry
  <2>4. IsDue(LoadedJobs(buffer)[j])
    BY <1>1, <2>3 DEF IsDue
  <2>. QED
    BY <2>1, <2>4, RoundMemory
<1>. QED
  BY <1>3, <1>4, <1>5, <1>6, <1>7, <1>8

\* When a tick has gone through the jobs none is due any more, and it is by being
\* dispatched that a due job has ceased to be, but for what a reload may put off by
\* one period at most.
THEOREM DueJobsAreDispatched == Spec => DueJobsNotSkipped
<1> DEFINE A == \A j \in Jobs : DueIsMet(j)
<1>1. Init => DueInv
  BY CronAssumption DEF Init, DueInv, Near, NoJobs, NewEntry, NoRun, Enabled
<1>2. TypeOK /\ DueInv => NoneLeftDue
  <2> SUFFICES ASSUME TypeOK, DueInv, NEW j \in Enabled(jobs)
               PROVE  IF Kind[j] = "at" THEN jobs[j].next = Period[j]
                      ELSE jobs[j].next <= now + Period[j]
    BY DEF NoneLeftDue, DueInv
  <2> QED
    BY DEF DueInv, Near, Enabled
<1>3. TypeOK /\ CronInv /\ [Next]_vars => [A]_vars
  BY DueIsMetStep
<1> HIDE DEF A
<1>4. Spec => [](TypeOK /\ CronInv /\ DueInv)
  BY <1>1, CronInvCorrect, DueStep, PTL DEF Spec
<1>5. Spec => []NoneLeftDue
  BY <1>2, <1>4, PTL
<1>6. Spec => [][A]_vars
  BY <1>3, CronInvCorrect, PTL DEF Spec
<1>. QED
  BY <1>5, <1>6, PTL DEF DueJobsNotSkipped, A
=============================================================================
