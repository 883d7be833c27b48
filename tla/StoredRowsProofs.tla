--------------------------- MODULE StoredRowsProofs ---------------------------
(***************************************************************************)
(* Two components that work on copies of stored rows: the tasks spawned by *)
(* a use of an API key, and the jobs made of a discovery's schedule.       *)
(* Proved for any number of keys, uses and requests, and of discoveries,   *)
(* jobs and cron expressions.                                              *)
(***************************************************************************)
EXTENDS ApiKeys, DiscoverySchedule, FiniteSetTheorems, TLAPS

-----------------------------------------------------------------------------
(* API keys                                                                *)

\* What a task is going to write differs from what it read only in the time of use, or,
\* when the time limit has passed, in being disabled (check_key_validity).
TasksWriteWhatTheyRead ==
    \A s \in spawned :
        /\ s.row.hash = s.base.hash /\ s.row.limited = s.base.limited
        /\ s.row.enabled = s.base.enabled \/ (late /\ ~s.row.enabled)

\* The inductive invariant.
KeysInv == KeysTypeOK /\ DeletedKeysStayDeleted /\ TasksWriteWhatTheyRead /\ KeysAreAsIssued

-----------------------------------------------------------------------------
\* A use of a key leaves the rows alone and spawns a task that writes what it read.
LEMMA UseKeyKeepsInv ==
    ASSUME KeysInv, NEW k \in Keys, NEW h, UseKey(h, k)
    PROVE  KeysInv'
<1> USE DEF KeysInv
<1>1. key[k] \in KeyRow
  BY DEF UseKey, KeysTypeOK
<1>2. UNCHANGED <<key, gone, late, handler, hashes, requests, issued, stale>>
  BY DEF UseKey
<1>3. uses' = uses + 1 /\ uses' \in 0..MaxUses
  BY KeysAssumption DEF UseKey, KeysTypeOK
<1>4. ASSUME NEW s \in spawned', s \notin spawned
      PROVE  /\ s \in [id : Keys, base : KeyRow, row : KeyRow]
             /\ s.row.hash = s.base.hash /\ s.row.limited = s.base.limited
             /\ s.row.enabled = s.base.enabled \/ (late /\ ~s.row.enabled)
  <2>1. PICK r : /\ s = [id |-> k, base |-> key[k], row |-> r]
                 /\ \/ late /\ r = [key[k] EXCEPT !.enabled = FALSE]
                    \/ r = [key[k] EXCEPT !.used = uses + 1]
    BY <1>4 DEF UseKey, IsExpired
  <2>2. r \in KeyRow
    BY <1>1, <1>3, <2>1 DEF KeyRow
  <2> QED
    BY <1>1, <2>1, <2>2 DEF KeyRow
<1>5. KeysTypeOK'
  BY <1>2, <1>3, <1>4 DEF KeysTypeOK
<1>6. TasksWriteWhatTheyRead'
  BY <1>2, <1>4 DEF TasksWriteWhatTheyRead
<1> QED
  BY <1>2, <1>5, <1>6 DEF DeletedKeysStayDeleted, KeysAreAsIssued

\* A task that writes back: the row is as it was read, so only the time of use changes or
\* an expired key is disabled; or it is not, and stale says so.
LEMMA WriteBackKeepsInv ==
    ASSUME KeysInv, NEW s \in spawned, WriteBack(s)
    PROVE  KeysInv'
<1> USE DEF KeysInv
<1>1. s.id \in Keys /\ s.base \in KeyRow /\ s.row \in KeyRow
  BY DEF KeysTypeOK
<1>2. /\ UNCHANGED <<gone, late, handler, hashes, uses, requests, issued>>
      /\ spawned' \subseteq spawned
      /\ key' = IF key[s.id] = NoKey THEN key ELSE [key EXCEPT ![s.id] = s.row]
      /\ stale' = (stale \/ (key[s.id] # NoKey /\ [key[s.id] EXCEPT !.used = s.base.used] # s.base))
  BY DEF WriteBack, Stores
<1>3. stale' \in BOOLEAN
  BY <1>2 DEF KeysTypeOK
<1>4. KeysTypeOK'
  BY <1>1, <1>2, <1>3 DEF KeysTypeOK
<1>5. DeletedKeysStayDeleted'
  BY <1>1, <1>2 DEF DeletedKeysStayDeleted, KeysTypeOK
<1>6. TasksWriteWhatTheyRead'
  BY <1>2 DEF TasksWriteWhatTheyRead
<1>7. KeysAreAsIssued'
  <2> SUFFICES ASSUME ~stale', NEW k \in Keys, key'[k] # NoKey
               PROVE  /\ key'[k].hash = issued'[k].hash /\ key'[k].limited = issued'[k].limited
                      /\ key'[k].enabled = issued'[k].enabled \/ (late' /\ ~key'[k].enabled)
    BY DEF KeysAreAsIssued
  <2>1. ~stale /\ key[k] # NoKey
    BY <1>1, <1>2 DEF KeysTypeOK
  <2>2. /\ key[k].hash = issued[k].hash /\ key[k].limited = issued[k].limited
        /\ key[k].enabled = issued[k].enabled \/ (late /\ ~key[k].enabled)
    BY <2>1 DEF KeysAreAsIssued
  <2>3. CASE k # s.id
    BY <1>1, <1>2, <2>2, <2>3 DEF KeysTypeOK
  <2>4. CASE k = s.id
    <3>1. key'[k] = s.row /\ [key[k] EXCEPT !.used = s.base.used] = s.base
      BY <1>1, <1>2, <2>1, <2>4 DEF KeysTypeOK
    <3>2. key[k] \in KeyRow
      BY <2>1 DEF KeysTypeOK
    <3>3. key[k].hash = s.base.hash /\ key[k].limited = s.base.limited /\ key[k].enabled = s.base.enabled
      BY <3>1, <3>2, <1>1 DEF KeyRow
    <3>4. /\ s.row.hash = s.base.hash /\ s.row.limited = s.base.limited
          /\ s.row.enabled = s.base.enabled \/ (late /\ ~s.row.enabled)
      BY DEF TasksWriteWhatTheyRead
    <3> QED
      BY <1>2, <2>2, <3>1, <3>3, <3>4
  <2> QED
    BY <2>3, <2>4
<1> QED
  BY <1>4, <1>5, <1>6, <1>7

\* The handlers that read a row keep it for later and change no row.
LEMMA ReadsKeepInv ==
    ASSUME KeysInv, NEW k \in Keys,
           RotateReads(k) \/ \E enabled, limited \in BOOLEAN : UpdateReads(k, enabled, limited)
    PROVE  KeysInv'
<1> USE DEF KeysInv
<1>1. key[k] \in KeyRow
  BY DEF RotateReads, UpdateReads, KeysTypeOK
<1>2. UNCHANGED <<key, gone, late, spawned, uses, issued, stale>>
  BY DEF RotateReads, UpdateReads
<1>3. requests' \in 0..MaxRequests
  BY KeysAssumption DEF RotateReads, UpdateReads, Requests, KeysTypeOK
<1>4. hashes' \in 0..MaxHashes /\ handler' \in [at : {"write"}, id : Keys, base : KeyRow, row : KeyRow]
  <2>1. CASE RotateReads(k)
    <3>1. hashes + 1 \in 1..MaxHashes
      BY <2>1, KeysAssumption DEF RotateReads, KeysTypeOK
    <3>2. [key[k] EXCEPT !.hash = hashes + 1] \in KeyRow
      BY <1>1, <3>1 DEF KeyRow
    <3> QED
      BY <1>1, <2>1, <3>1, <3>2 DEF RotateReads
  <2>2. ASSUME NEW enabled \in BOOLEAN, NEW limited \in BOOLEAN, UpdateReads(k, enabled, limited)
        PROVE  hashes' \in 0..MaxHashes /\ handler' \in [at : {"write"}, id : Keys, base : KeyRow, row : KeyRow]
    <3>1. Preserved(key[k], enabled, limited) \in KeyRow
      BY <1>1 DEF Preserved, KeyRow
    <3> QED
      BY <1>1, <2>2, <3>1 DEF UpdateReads, KeysTypeOK
  <2> QED
    BY <2>1, <2>2
<1>5. KeysTypeOK'
  BY <1>2, <1>3, <1>4 DEF KeysTypeOK
<1> QED
  BY <1>2, <1>5 DEF DeletedKeysStayDeleted, TasksWriteWhatTheyRead, KeysAreAsIssued

\* The request's write: the owner is told what is stored.
LEMMA RequestWritesKeepsInv ==
    ASSUME KeysInv, RequestWrites
    PROVE  KeysInv'
<1> USE DEF KeysInv
<1> DEFINE k == handler.id
<1>1. k \in Keys /\ handler.row \in KeyRow
  BY DEF RequestWrites, KeysTypeOK, NoHandler
<1>2. /\ UNCHANGED <<gone, late, spawned, hashes, uses, requests>>
      /\ handler' = NoHandler
      /\ key' = IF key[k] = NoKey THEN key ELSE [key EXCEPT ![k] = handler.row]
      /\ issued' = IF key[k] = NoKey THEN issued ELSE [issued EXCEPT ![k] = handler.row]
      /\ stale' \in BOOLEAN /\ (stale => stale')
  BY DEF RequestWrites, Stores, KeysTypeOK
<1> HIDE DEF k
<1>3. KeysTypeOK'
  BY <1>1, <1>2 DEF KeysTypeOK
<1>4. DeletedKeysStayDeleted'
  BY <1>1, <1>2 DEF DeletedKeysStayDeleted, KeysTypeOK
<1>5. TasksWriteWhatTheyRead'
  BY <1>2 DEF TasksWriteWhatTheyRead
<1>6. KeysAreAsIssued'
  <2> SUFFICES ASSUME ~stale', NEW j \in Keys, key'[j] # NoKey
               PROVE  /\ key'[j].hash = issued'[j].hash /\ key'[j].limited = issued'[j].limited
                      /\ key'[j].enabled = issued'[j].enabled \/ (late' /\ ~key'[j].enabled)
    BY DEF KeysAreAsIssued
  <2>1. CASE j = k /\ key[k] # NoKey
    BY <1>1, <1>2, <2>1 DEF KeysTypeOK
  <2>2. CASE j # k \/ key[k] = NoKey
    BY <1>1, <1>2, <2>2 DEF KeysTypeOK, KeysAreAsIssued
  <2> QED
    BY <2>1, <2>2
<1> QED
  BY <1>3, <1>4, <1>5, <1>6

\* A new key is as its owner is told, and its id was never used before.
LEMMA CreateKeyKeepsInv ==
    ASSUME KeysInv, NEW k \in Keys, NEW enabled \in BOOLEAN, NEW limited \in BOOLEAN,
           CreateKey(k, enabled, limited)
    PROVE  KeysInv'
<1> USE DEF KeysInv
<1> DEFINE new == NewKey(enabled, limited)
<1>1. hashes + 1 \in 1..MaxHashes /\ requests' \in 0..MaxRequests /\ hashes' = hashes + 1
  BY KeysAssumption DEF CreateKey, Requests, KeysTypeOK
<1>2. new \in KeyRow
  BY <1>1, KeysAssumption DEF NewKey, KeyRow
<1>3. /\ UNCHANGED <<gone, late, spawned, handler, uses, stale>>
      /\ key' = [key EXCEPT ![k] = new] /\ issued' = [issued EXCEPT ![k] = new]
      /\ k \notin gone
  BY DEF CreateKey
<1> HIDE DEF new
<1>4. KeysTypeOK'
  BY <1>1, <1>2, <1>3 DEF KeysTypeOK
<1>5. DeletedKeysStayDeleted'
  BY <1>3 DEF DeletedKeysStayDeleted, KeysTypeOK
<1>6. TasksWriteWhatTheyRead'
  BY <1>3 DEF TasksWriteWhatTheyRead
<1>7. KeysAreAsIssued'
  BY <1>3 DEF KeysAreAsIssued, KeysTypeOK
<1> QED
  BY <1>4, <1>5, <1>6, <1>7

\* A deletion, the passing of time and a restart take away or change no setting of a row.
LEMMA OthersKeepInv ==
    ASSUME KeysInv, (\E k \in Keys : DeleteKey(k)) \/ KeysExpire \/ KeysRestart \/ UNCHANGED keyVars
    PROVE  KeysInv'
<1> USE DEF KeysInv
<1>1. ASSUME NEW k \in Keys, DeleteKey(k)
      PROVE  KeysInv'
  <2>1. requests' \in 0..MaxRequests
    BY <1>1, KeysAssumption DEF DeleteKey, Requests, KeysTypeOK
  <2>2. /\ UNCHANGED <<late, spawned, handler, hashes, uses, issued, stale>>
        /\ key' = [key EXCEPT ![k] = NoKey] /\ gone' = gone \cup {k}
    BY <1>1 DEF DeleteKey
  <2>3. KeysTypeOK'
    BY <2>1, <2>2 DEF KeysTypeOK
  <2> QED
    BY <2>2, <2>3 DEF KeysTypeOK, DeletedKeysStayDeleted, TasksWriteWhatTheyRead, KeysAreAsIssued
<1>2. CASE KeysExpire
  <2>1. late' = TRUE /\ UNCHANGED <<key, gone, spawned, handler, hashes, uses, requests, issued, stale>>
    BY <1>2 DEF KeysExpire
  <2> QED
    BY <2>1 DEF KeysTypeOK, DeletedKeysStayDeleted, TasksWriteWhatTheyRead, KeysAreAsIssued
<1>3. CASE KeysRestart
  <2>1. /\ spawned' = {} /\ handler' = NoHandler
        /\ UNCHANGED <<key, gone, late, hashes, uses, requests, issued, stale>>
    BY <1>3 DEF KeysRestart
  <2> QED
    BY <2>1 DEF KeysTypeOK, DeletedKeysStayDeleted, TasksWriteWhatTheyRead, KeysAreAsIssued
<1>4. CASE UNCHANGED keyVars
  BY <1>4 DEF keyVars, KeysTypeOK, DeletedKeysStayDeleted, TasksWriteWhatTheyRead, KeysAreAsIssued
<1> QED
  BY <1>1, <1>2, <1>3, <1>4

\* For any number of keys, uses and requests: deleted keys stay deleted, and a key is as
\* its owner was told last unless a row was written that was read before another write.
THEOREM KeysInvariant == KeysSpec => [](KeysTypeOK /\ DeletedKeysStayDeleted /\ KeysAreAsIssued)
<1>1. KeysInit => KeysInv
  <2> SUFFICES ASSUME KeysInit PROVE KeysInv
    OBVIOUS
  <2>1. hashes \in 0..MaxHashes /\ uses \in 0..MaxUses /\ requests \in 0..MaxRequests
    BY KeysAssumption DEF KeysInit
  <2>2. KeysTypeOK
    BY <2>1 DEF KeysInit, KeysTypeOK
  <2> QED
    BY <2>2 DEF KeysInit, KeysInv, DeletedKeysStayDeleted, TasksWriteWhatTheyRead, KeysAreAsIssued
<1>2. KeysInv /\ [KeysNext]_keyVars => KeysInv'
  BY UseKeyKeepsInv, WriteBackKeepsInv, ReadsKeepInv, RequestWritesKeepsInv, CreateKeyKeepsInv,
     OthersKeepInv DEF KeysNext
<1>3. KeysInv => KeysTypeOK /\ DeletedKeysStayDeleted /\ KeysAreAsIssued
  BY DEF KeysInv
<1> QED
  BY <1>1, <1>2, <1>3, PTL DEF KeysSpec

-----------------------------------------------------------------------------
(* Discovery schedules                                                     *)

\* The inductive invariant: a job's number comes from how many jobs there are.
ScheduleInv == ScheduleTypeOK /\ IsFiniteSet(jobs)

-----------------------------------------------------------------------------
\* What marks the absence of a row is no row.
LEMMA MarkersAreNoSettings ==
    Unborn \notin Settings /\ Deleted \notin Settings /\ Nothing \notin Settings /\ Unborn # Deleted
  BY ScheduleAssumption DEF Unborn, Deleted, Nothing, Settings

\* schedule_discovery adds at most one job, with a clone of the row.
LEMMA ScheduleFacts ==
    ASSUME ScheduleInv, NEW x \in Discoveries, NEW r \in Settings,
           Schedulable(r) => Cardinality(jobs) < MaxJobs
    PROVE  /\ Schedule(jobs, x, r) \subseteq Job
           /\ jobs \subseteq Schedule(jobs, x, r)
           /\ IsFiniteSet(Schedule(jobs, x, r))
<1>1. Cardinality(jobs) \in Nat
  BY FS_CardinalityType DEF ScheduleInv
<1>2. CASE ~Schedulable(r)
  BY <1>2 DEF Schedule, ScheduleInv, ScheduleTypeOK
<1>3. CASE Schedulable(r)
  <2> DEFINE j == [id |-> Cardinality(jobs) + 1, disc |-> x, clone |-> r]
  <2>1. Schedule(jobs, x, r) = jobs \cup {j}
    BY <1>3 DEF Schedule
  <2>2. Cardinality(jobs) + 1 \in 1..MaxJobs
    BY <1>1, <1>3, ScheduleAssumption
  <2>3. j \in Job
    BY <2>2 DEF Job
  <2> HIDE DEF j
  <2>4. IsFiniteSet(jobs \cup {j})
    BY FS_AddElement DEF ScheduleInv
  <2> QED
    BY <2>1, <2>3, <2>4 DEF ScheduleInv, ScheduleTypeOK
<1> QED
  BY <1>2, <1>3

\* storage.update leaves a table of rows, and what is no row stays as it is.
LEMMA StoreFacts ==
    ASSUME ScheduleTypeOK, NEW x \in Discoveries, NEW r \in Settings
    PROVE  /\ Store(x, r) \in [Discoveries -> Settings \cup {Unborn, Deleted}]
           /\ \A y \in Discoveries : row[y] \notin Settings => Store(x, r)[y] = row[y]
  BY DEF Store, Exists, ScheduleTypeOK

-----------------------------------------------------------------------------
\* The generic handlers, which do not know of the scheduler.
LEMMA ApiKeepsInv ==
    ASSUME ScheduleInv, NEW x \in Discoveries, NEW r \in Settings,
           ApiCreate(x, r) \/ ApiUpdate(x, r) \/ ApiDelete(x) \/ StartRead(x) \/ StartFails(x)
    PROVE  ScheduleInv'
<1> USE DEF ScheduleInv, ScheduleTypeOK
<1>1. CASE ApiCreate(x, r)
  BY <1>1 DEF ApiCreate
<1>2. CASE ApiUpdate(x, r)
  BY <1>2, StoreFacts DEF ApiUpdate
<1>3. CASE ApiDelete(x)
  BY <1>3 DEF ApiDelete
<1>4. CASE StartRead(x)
  BY <1>4 DEF StartRead, Exists
<1>5. CASE StartFails(x)
  BY <1>5 DEF StartFails
<1> QED
  BY <1>1, <1>2, <1>3, <1>4, <1>5

\* The calls that add a job.
LEMMA ServiceKeepsInv ==
    ASSUME ScheduleInv, NEW x \in Discoveries
    PROVE  /\ \A r \in Settings : CreateDiscovery(x, r) => ScheduleInv'
           /\ UpdateDiscovery(x) => ScheduleInv'
<1>1. ASSUME NEW r \in Settings, CreateDiscovery(x, r)
      PROVE  ScheduleInv'
  <2>1. /\ jobs' = Schedule(jobs, x, r) /\ UNCHANGED <<firing, starting>>
        /\ row' = [row EXCEPT ![x] = r] /\ Cardinality(jobs) < MaxJobs
    BY <1>1 DEF CreateDiscovery, Disable
  <2> QED
    BY <2>1, ScheduleFacts DEF ScheduleInv, ScheduleTypeOK
<1>2. ASSUME UpdateDiscovery(x)
      PROVE  ScheduleInv'
  <2> DEFINE new == starting[x]
  <2>1. new \in Settings
    BY <1>2 DEF UpdateDiscovery, ScheduleInv, ScheduleTypeOK
  <2>2. /\ row' = Store(x, new) /\ UNCHANGED firing
        /\ starting' = [starting EXCEPT ![x] = Nothing]
        /\ \/ jobs' = jobs
           \/ jobs' = Schedule(jobs, x, new) /\ Cardinality(jobs) < MaxJobs
    BY <1>2 DEF UpdateDiscovery, Disable, RemoveJob
  <2> HIDE DEF new
  <2> QED
    BY <2>1, <2>2, ScheduleFacts, StoreFacts DEF ScheduleInv, ScheduleTypeOK
<1> QED
  BY <1>1, <1>2

\* A job that fires, and what it writes.
LEMMA FireKeepsInv ==
    ASSUME ScheduleInv, NEW j \in jobs, Fire(j) \/ FireWrites(j) \/ FireFails(j)
    PROVE  ScheduleInv'
<1>1. j.disc \in Discoveries /\ j.clone \in Settings
  BY DEF ScheduleInv, ScheduleTypeOK, Job
<1>2. UNCHANGED <<jobs, starting>> /\ firing' \subseteq jobs
  BY DEF Fire, FireWrites, FireFails, ScheduleInv, ScheduleTypeOK
<1>3. row' = row \/ row' = Store(j.disc, j.clone)
  BY DEF Fire, FireWrites, FireFails
<1> QED
  BY <1>1, <1>2, <1>3, StoreFacts DEF ScheduleInv, ScheduleTypeOK

\* A restart numbers the jobs anew and changes no row.
LEMMA RestartKeepsInv ==
    ASSUME ScheduleInv, SchedulerRestart
    PROVE  ScheduleInv' /\ row' = row
<1> DEFINE good == Scheduled(ScheduledRows)
<1>1. good \subseteq Discoveries /\ \A x \in good : row[x] \in Settings
  BY DEF Scheduled, ScheduledRows, Exists
<1>2. IsFiniteSet(good) /\ Cardinality(good) \in Nat
  BY <1>1, ScheduleAssumption, FS_Subset, FS_CardinalityType
<1>3. /\ Cardinality(good) <= MaxJobs
      /\ firing' = {} /\ starting' = [x \in Discoveries |-> Nothing]
  BY DEF SchedulerRestart
<1>4. PICK number \in [good -> 1..Cardinality(good)] :
         jobs' = {[id |-> number[x], disc |-> x, clone |-> row[x]] : x \in good}
  BY DEF SchedulerRestart
<1>5. row' = row
  <2>1. row' = [x \in Discoveries |-> row[x]]
    BY DEF SchedulerRestart, Disable
  <2> QED
    BY <2>1 DEF ScheduleInv, ScheduleTypeOK
<1> HIDE DEF good
<1>6. jobs' \subseteq Job
  <2> SUFFICES ASSUME NEW x \in good
               PROVE  [id |-> number[x], disc |-> x, clone |-> row[x]] \in Job
    BY <1>4
  <2>1. number[x] \in 1..MaxJobs
    BY <1>2, <1>3, ScheduleAssumption
  <2> QED
    BY <1>1, <2>1 DEF Job
<1>7. IsFiniteSet(jobs')
  <2> DEFINE f == [x \in good |-> [id |-> number[x], disc |-> x, clone |-> row[x]]]
  <2>1. f \in Surjection(good, jobs')
    BY <1>4 DEF Surjection
  <2> QED
    BY <1>2, <2>1, FS_Surjection
<1> QED
  BY <1>3, <1>5, <1>6, <1>7 DEF ScheduleInv, ScheduleTypeOK

\* A step of the system keeps the invariant and revives no deleted discovery:
\* whatever copies a firing job or a start-session call took before are written
\* with an UPDATE that finds no row.
LEMMA StepFacts ==
    ASSUME ScheduleInv, ScheduleNext
    PROVE  /\ ScheduleInv'
           /\ \A x \in Discoveries : row[x] = Deleted => row'[x] = Deleted
<1> USE MarkersAreNoSettings
<1> DEFINE Kept == \A x \in Discoveries : row[x] = Deleted => row'[x] = Deleted
<1>0. row \in [Discoveries -> Settings \cup {Unborn, Deleted}]
  BY DEF ScheduleInv, ScheduleTypeOK
<1>a. \A x \in Discoveries, r \in Settings : row' = Store(x, r) => Kept
  BY StoreFacts DEF ScheduleInv
<1>1. ASSUME NEW x \in Discoveries, NEW r \in Settings,
             ApiCreate(x, r) \/ ApiUpdate(x, r) \/ CreateDiscovery(x, r)
      PROVE  ScheduleInv' /\ Kept
  <2>1. ScheduleInv'
    BY <1>1, ApiKeepsInv, ServiceKeepsInv
  <2>2. \/ row[x] = Unborn /\ row' = [row EXCEPT ![x] = r]
        \/ row' = Store(x, r)
    BY <1>1 DEF ApiCreate, ApiUpdate, CreateDiscovery, Disable
  <2> QED
    BY <1>0, <1>a, <2>1, <2>2
<1>2. ASSUME NEW x \in Discoveries, ApiDelete(x) \/ StartRead(x) \/ StartFails(x)
      PROVE  ScheduleInv' /\ Kept
  <2>1. PICK r : r \in Settings
    <3>1. [cron |-> AdHoc, enabled |-> FALSE] \in Settings
      BY DEF Settings
    <3> QED
      BY <3>1
  <2>2. ScheduleInv'
    BY <1>2, <2>1, ApiKeepsInv
  <2>3. row' = row \/ row' = [row EXCEPT ![x] = Deleted]
    BY <1>2 DEF ApiDelete, StartRead, StartFails
  <2> QED
    BY <1>0, <2>2, <2>3
<1>3. ASSUME NEW x \in Discoveries, UpdateDiscovery(x)
      PROVE  ScheduleInv' /\ Kept
  <2>1. starting[x] \in Settings /\ row' = Store(x, starting[x])
    BY <1>3 DEF UpdateDiscovery, Disable, ScheduleInv, ScheduleTypeOK
  <2> QED
    BY <1>3, <1>a, <2>1, ServiceKeepsInv
<1>4. ASSUME NEW j \in jobs, Fire(j) \/ FireWrites(j) \/ FireFails(j)
      PROVE  ScheduleInv' /\ Kept
  <2>1. j.disc \in Discoveries /\ j.clone \in Settings
    BY DEF ScheduleInv, ScheduleTypeOK, Job
  <2>2. row' = row \/ row' = Store(j.disc, j.clone)
    BY <1>4 DEF Fire, FireWrites, FireFails
  <2> QED
    BY <1>4, <1>a, <2>1, <2>2, FireKeepsInv
<1>5. CASE SchedulerRestart
  BY <1>5, RestartKeepsInv
<1> QED
  BY <1>1, <1>2, <1>3, <1>4, <1>5 DEF ScheduleNext

\* ScheduleInv is inductive.
LEMMA ScheduleInductive == ScheduleSpec => []ScheduleInv
<1>1. ScheduleInit => ScheduleInv
  BY FS_EmptySet DEF ScheduleInit, ScheduleInv, ScheduleTypeOK
<1>2. ScheduleInv /\ [ScheduleNext]_scheduleVars => ScheduleInv'
  BY StepFacts DEF scheduleVars, ScheduleInv, ScheduleTypeOK
<1> QED
  BY <1>1, <1>2, PTL DEF ScheduleSpec

-----------------------------------------------------------------------------
\* The table, the jobs and what the calls under way have read are well typed:
\* a job that fires is one of the scheduler's, and its number is in bounds.
THEOREM ScheduleTypes == ScheduleSpec => []ScheduleTypeOK
<1>1. ScheduleInv => ScheduleTypeOK
  BY DEF ScheduleInv
<1> QED
  BY <1>1, ScheduleInductive, PTL

\* No call of the API, no job that fires and no restart brings back a discovery
\* that was deleted.
THEOREM DeletedForGood == ScheduleSpec => DeletedStaysDeleted
<1>1. ScheduleInv /\ [ScheduleNext]_scheduleVars =>
        [\A x \in Discoveries : row[x] = Deleted => row'[x] = Deleted]_scheduleVars
  BY StepFacts
<1> QED
  BY <1>1, ScheduleInductive, PTL DEF ScheduleSpec, DeletedStaysDeleted

\* start_scheduler leaves exactly one job for every row that can be scheduled.
THEOREM RestartRepairs == ScheduleSpec => RestartSchedulesAll
<1>1. SchedulerRestart =>
        {<<j.disc, j.clone>> : j \in jobs'} =
          {<<x, row[x]>> : x \in {y \in Discoveries : Exists(y) /\ Schedulable(row[y])}}
  <2> SUFFICES ASSUME SchedulerRestart
               PROVE  {<<j.disc, j.clone>> : j \in jobs'} =
                        {<<x, row[x]>> : x \in {y \in Discoveries : Exists(y) /\ Schedulable(row[y])}}
    OBVIOUS
  <2> DEFINE good == Scheduled(ScheduledRows)
  <2>1. good = {y \in Discoveries : Exists(y) /\ Schedulable(row[y])}
    BY ScheduleAssumption DEF Scheduled, ScheduledRows, Schedulable
  <2>2. PICK number : jobs' = {[id |-> number[x], disc |-> x, clone |-> row[x]] : x \in good}
    BY DEF SchedulerRestart
  <2> HIDE DEF good
  <2>3. ASSUME NEW x \in good
        PROVE  <<x, row[x]>> \in {<<j.disc, j.clone>> : j \in jobs'}
    <3> DEFINE j == [id |-> number[x], disc |-> x, clone |-> row[x]]
    <3>1. j \in jobs' /\ j.disc = x /\ j.clone = row[x]
      BY <2>2
    <3> HIDE DEF j
    <3> QED
      BY <3>1
  <2>4. ASSUME NEW j \in jobs'
        PROVE  <<j.disc, j.clone>> \in {<<x, row[x]>> : x \in good}
    <3>1. PICK x \in good : j = [id |-> number[x], disc |-> x, clone |-> row[x]]
      BY <2>2
    <3>2. j.disc = x /\ j.clone = row[x]
      BY <3>1
    <3> QED
      BY <3>2
  <2>5. {<<j.disc, j.clone>> : j \in jobs'} = {<<x, row[x]>> : x \in good}
    BY <2>3, <2>4
  <2> QED
    BY <2>1, <2>5
<1> QED
  BY <1>1, PTL DEF RestartSchedulesAll
=============================================================================
