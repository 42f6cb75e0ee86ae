---------------------------- MODULE OrgSettings ----------------------------
(***************************************************************************)
(* domain/org_settings.py: one organisation's row and the cached copy that  *)
(* each process keeps of it.  The lock covers a look at the cache and a     *)
(* write to it, not the query in between.  Ages are in ticks; the age of a  *)
(* copy starts with the look at the clock before the query, and ages        *)
(* saturate at the time to live.  The fields are those no tier preset sets; *)
(* a value is told apart by the update that wrote it.                       *)
(***************************************************************************)
EXTENDS Naturals

CONSTANTS
  Tasks,       \* requests that read or update the settings
  ProcessOf,   \* [Tasks -> processes]
  Fields,
  Ttl,         \* CACHE_TTL_SECONDS
  MaxUpdates,  \* bound on the updates
  NoCopy

ASSUME SettingsAssumption == Ttl \in Nat /\ MaxUpdates \in Nat

Processes == {ProcessOf[t] : t \in Tasks}

VARIABLES
  settings,   \* the row of org_settings
  updates,    \* updates made so far
  changed,    \* ticks since the row last changed (history)
  copy,       \* _cache of a process: [value, age] or NoCopy
  task        \* [at, value, age, field] of a task; field is NoCopy for a reader

settingsVars == <<settings, updates, changed, copy, task>>

Defaults == [f \in Fields |-> 0]
Resting  == [at |-> "idle", value |-> NoCopy, age |-> 0, field |-> NoCopy]

SettingsInit == /\ settings = Defaults /\ updates = 0 /\ changed = Ttl
                /\ copy = [p \in Processes |-> NoCopy]
                /\ task = [t \in Tasks |-> Resting]

Fresh(p) == copy[p] # NoCopy /\ copy[p].age < Ttl

\* Where a task goes once it has the value: an update writes next.
Got(t, v) == IF task[t].field = NoCopy THEN Resting
             ELSE [task[t] EXCEPT !.at = "writing", !.value = v]

\* get_org_settings, upsert_org_settings or the reset endpoint is called.
Begin(t) == /\ task[t] = Resting
            /\ \/ \E f \in Fields \cup {NoCopy} :
                    task' = [task EXCEPT ![t].at = "getting", ![t].field = f]
               \/ task' = [task EXCEPT ![t].at = "writing", ![t].value = Defaults]
            /\ UNCHANGED <<settings, updates, changed, copy>>

\* The clock is read, then the cache.
LookUp(t) ==
  /\ task[t].at = "getting"
  /\ task' = [task EXCEPT ![t] = IF Fresh(ProcessOf[t]) THEN Got(t, copy[ProcessOf[t]].value)
                                 ELSE [@ EXCEPT !.at = "querying", !.age = 0]]
  /\ UNCHANGED <<settings, updates, changed, copy>>

Query(t) == /\ task[t].at = "querying"
            /\ task' = [task EXCEPT ![t].at = "keeping", ![t].value = settings]
            /\ UNCHANGED <<settings, updates, changed, copy>>

AgeOfBug(t) == 0
AgeOf(t)    == task[t].age

\* The copy is dated with the clock as it was before the query.
Keep(t) ==
  /\ task[t].at = "keeping"
  /\ copy' = [copy EXCEPT ![ProcessOf[t]] = [value |-> task[t].value, age |-> AgeOf(t)]]
  /\ task' = [task EXCEPT ![t] = Got(t, task[t].value)]
  /\ UNCHANGED <<settings, updates, changed>>

\* The whole row is written, the value the task has with its field changed; a
\* reset deletes the row.
Write(t) ==
  /\ task[t].at = "writing" /\ updates < MaxUpdates
  /\ updates' = updates + 1 /\ changed' = 0
  /\ settings' = [f \in Fields |-> IF f = task[t].field THEN updates' ELSE task[t].value[f]]
  /\ task' = [task EXCEPT ![t].at = "invalidating", ![t].value = NoCopy]
  /\ UNCHANGED copy

\* Only this process forgets its copy; the task then reads the settings again.
Invalidate(t) ==
  /\ task[t].at = "invalidating"
  /\ copy' = [copy EXCEPT ![ProcessOf[t]] = NoCopy]
  /\ task' = [task EXCEPT ![t] = [Resting EXCEPT !.at = "getting"]]
  /\ UNCHANGED <<settings, updates, changed>>

Aged(n) == IF n < Ttl THEN n + 1 ELSE Ttl

SettingsTick == /\ changed' = Aged(changed)
        /\ copy' = [p \in Processes |-> IF copy[p] = NoCopy THEN NoCopy
                                        ELSE [copy[p] EXCEPT !.age = Aged(@)]]
        /\ task' = [t \in Tasks |-> IF task[t].at \in {"querying", "keeping"}
                                    THEN [task[t] EXCEPT !.age = Aged(@)] ELSE task[t]]
        /\ UNCHANGED <<settings, updates>>

SettingsNext ==
  \/ \E t \in Tasks : \/ Begin(t) \/ LookUp(t) \/ Query(t) \/ Keep(t)
                      \/ Write(t) \/ Invalidate(t)
  \/ SettingsTick

SettingsSpec == SettingsInit /\ [][SettingsNext]_settingsVars

(***************************************************************************)
(* Settings that are handed out were the row's at some moment of the last   *)
(* Ttl ticks, whatever queries, updates and invalidations overlap: a copy   *)
(* may be put back after an invalidation, and another process is never      *)
(* told, but it is never older than its age says (org_settings.py:94).      *)
(***************************************************************************)
StaleAtMostTtl ==
  \A p \in Processes : Fresh(p) /\ copy[p].value # settings => changed <= copy[p].age
=============================================================================
