-------------------------- MODULE DiscoverySchedule --------------------------
(***************************************************************************)
(* Scheduled discoveries: the rows of the discovery table, the jobs of the *)
(* cron scheduler and the operations that change either                    *)
(* (server/discovery/service.rs, server/discovery/handlers.rs).            *)
(*                                                                         *)
(* A job owns a clone of the row it was made from.  The API creates,       *)
(* updates and deletes rows through the generic service, which does not    *)
(* know of the scheduler.                                                  *)
(***************************************************************************)
EXTENDS Integers, FiniteSets

CONSTANTS
    Discoveries,   \* discovery ids; never reused
    Crons,         \* cron expressions; they also stand for a row's other settings
    BadCrons,      \* the expressions Job::new_async refuses
    AdHoc,         \* in place of an expression: RunType::AdHoc
    MaxJobs        \* bounds the jobs a server adds between two restarts

ASSUME ScheduleAssumption ==
    /\ BadCrons \subseteq Crons
    /\ AdHoc \notin Crons
    /\ {"unborn", "deleted", "nothing"} \cap (Crons \cup {AdHoc}) = {}
    /\ IsFiniteSet(Discoveries)
    /\ MaxJobs \in Nat

VARIABLES
    row,       \* [Discoveries -> Row]: the table
    jobs,      \* the scheduler's jobs, with the clone each one owns
    firing,    \* jobs that have started their session and not written back
    starting   \* [Discoveries -> Row]: what a start-session call has read

scheduleVars == <<row, jobs, firing, starting>>

Settings == [cron : Crons \cup {AdHoc}, enabled : BOOLEAN]
Unborn   == [cron |-> "unborn", enabled |-> FALSE]
Deleted  == [cron |-> "deleted", enabled |-> FALSE]
Nothing  == [cron |-> "nothing", enabled |-> FALSE]
Job      == [id : 1..MaxJobs, disc : Discoveries, clone : Settings]

ScheduleTypeOK ==
    /\ row \in [Discoveries -> Settings \cup {Unborn, Deleted}]
    /\ jobs \subseteq Job
    /\ firing \subseteq jobs
    /\ starting \in [Discoveries -> Settings \cup {Nothing}]

Exists(x) == row[x] \in Settings

ScheduleInit ==
    /\ row = [x \in Discoveries |-> Unborn]
    /\ jobs = {}
    /\ firing = {}
    /\ starting = [x \in Discoveries |-> Nothing]

-----------------------------------------------------------------------------
(* Building blocks *)

\* schedule_discovery succeeds: the row is Scheduled and enabled, and the
\* scheduler accepts the expression.
Schedulable(r) == r.cron \in Crons \ BadCrons /\ r.enabled

\* A job id is made by Job::new_async; it is not the discovery's id.
Schedule(J, x, r) ==
    IF Schedulable(r)
    THEN J \cup {[id |-> Cardinality(J) + 1, disc |-> x, clone |-> r]}
    ELSE J

\* scheduler.remove(&discovery.id): no job has that id.
RemoveJob(J, x) == J

\* Discovery::disable assigns to a copy of the field.
Disable(r) == r

\* Mutant: the row is inserted when it is not there.
StoreUpsert(x, r) == [row EXCEPT ![x] = r]

\* storage.update is an UPDATE ... WHERE id: it does not bring a row back.
Store(x, r) == [row EXCEPT ![x] = IF Exists(x) THEN r ELSE @]

-----------------------------------------------------------------------------
(* The API: create_handler, update_handler, delete_handler *)

ApiCreate(x, r) ==
    /\ row[x] = Unborn
    /\ row' = [row EXCEPT ![x] = r]
    /\ UNCHANGED <<jobs, firing, starting>>

ApiUpdate(x, r) ==
    /\ Exists(x)
    /\ row' = Store(x, r)
    /\ UNCHANGED <<jobs, firing, starting>>

ApiDelete(x) ==
    /\ Exists(x)
    /\ row' = [row EXCEPT ![x] = Deleted]
    /\ UNCHANGED <<jobs, firing, starting>>

-----------------------------------------------------------------------------
(* DiscoveryService *)

\* create_discovery, called by register_daemon with an enabled schedule.
CreateDiscovery(x, r) ==
    /\ row[x] = Unborn
    /\ r.enabled
    /\ Cardinality(jobs) < MaxJobs
    /\ row' = [row EXCEPT ![x] =
                 IF r.cron \in Crons /\ ~Schedulable(r) THEN Disable(r) ELSE r]
    /\ jobs' = Schedule(jobs, x, r)
    /\ UNCHANGED <<firing, starting>>

\* The start-session handler: it reads the row, starts a session, and writes
\* what it read back through update_discovery.  What update_discovery itself
\* reads and writes is one step.
StartRead(x) ==
    /\ Exists(x)
    /\ starting[x] = Nothing
    /\ starting' = [starting EXCEPT ![x] = row[x]]
    /\ UNCHANGED <<row, jobs, firing>>

UpdateDiscovery(x) ==
    LET new        == starting[x]
        reschedule == new.cron \in Crons /\ row[x].cron \in Crons /\ new.cron # row[x].cron
    IN  /\ new # Nothing
        /\ Exists(x)
        /\ reschedule => Cardinality(jobs) < MaxJobs
        /\ row' = Store(x, IF reschedule /\ ~Schedulable(new) THEN Disable(new) ELSE new)
        /\ jobs' = IF reschedule THEN Schedule(RemoveJob(jobs, x), x, new) ELSE jobs
        /\ starting' = [starting EXCEPT ![x] = Nothing]
        /\ UNCHANGED firing

\* start_session failed, or the row was deleted in between ("Could not find
\* discovery"): nothing is written.
StartFails(x) ==
    /\ starting[x] # Nothing
    /\ starting' = [starting EXCEPT ![x] = Nothing]
    /\ UNCHANGED <<row, jobs, firing>>

\* A job fires: start_session on its clone, whatever became of the row ...
Fire(j) ==
    /\ j \notin firing
    /\ firing' = firing \cup {j}
    /\ UNCHANGED <<row, jobs, starting>>

\* ... and then the clone is written back.
FireWrites(j) ==
    /\ j \in firing
    /\ firing' = firing \ {j}
    /\ row' = Store(j.disc, j.clone)
    /\ UNCHANGED <<jobs, starting>>

\* ... unless start_session failed: the daemon lookup or its request.
FireFails(j) ==
    /\ j \in firing
    /\ firing' = firing \ {j}
    /\ UNCHANGED <<row, jobs, starting>>

\* The filter scheduled_discovery.
ScheduledRows ==
    {x \in Discoveries : Exists(x) /\ row[x].cron \in Crons /\ row[x].enabled}

\* Mutant: the first row that cannot be scheduled ends start_scheduler.
ScheduledUntilError(rows) ==
    IF \E x \in rows : ~Schedulable(row[x]) THEN {} ELSE rows

\* The loop of start_scheduler goes on past a row that cannot be scheduled.
Scheduled(rows) == {x \in rows : Schedulable(row[x])}

\* Mutant: firing jobs outlive the process.
RestartKeepsFiring ==
    /\ jobs' = {[id |-> 1, disc |-> x, clone |-> row[x]] : x \in Scheduled(ScheduledRows)}
    /\ starting' = [x \in Discoveries |-> Nothing]
    /\ UNCHANGED <<row, firing>>

\* A new process: start_scheduler schedules the rows that are Scheduled and
\* enabled, and disables those it cannot schedule.
SchedulerRestart ==
    LET rows == ScheduledRows
        good == Scheduled(rows)
    IN  /\ Cardinality(good) <= MaxJobs
        /\ \E number \in [good -> 1..Cardinality(good)] :
             /\ \A x, y \in good : x # y => number[x] # number[y]
             /\ jobs' = {[id |-> number[x], disc |-> x, clone |-> row[x]] : x \in good}
        /\ row' = [x \in Discoveries |-> IF x \in rows \ good THEN Disable(row[x]) ELSE row[x]]
        /\ firing' = {}
        /\ starting' = [x \in Discoveries |-> Nothing]

-----------------------------------------------------------------------------
ScheduleNext ==
    \/ \E x \in Discoveries : \/ \E r \in Settings : \/ ApiCreate(x, r)
                                                     \/ ApiUpdate(x, r)
                                                     \/ CreateDiscovery(x, r)
                              \/ ApiDelete(x)
                              \/ StartRead(x)
                              \/ UpdateDiscovery(x)
                              \/ StartFails(x)
    \/ \E j \in jobs : Fire(j) \/ FireWrites(j) \/ FireFails(j)
    \/ SchedulerRestart

ScheduleSpec == ScheduleInit /\ [][ScheduleNext]_scheduleVars

-----------------------------------------------------------------------------
\* A deleted discovery stays deleted, although a job that is firing and a
\* start-session call write back copies they took before.
DeletedStaysDeleted ==
    [][\A x \in Discoveries : row[x] = Deleted => row'[x] = Deleted]_scheduleVars

\* After start-up the jobs are those of the enabled, valid schedules in the
\* table, one each: a restart undoes every drift between jobs and rows.
RestartSchedulesAll ==
    [][SchedulerRestart => {<<j.disc, j.clone>> : j \in jobs'} =
                     {<<x, row[x]>> : x \in {y \in Discoveries : Exists(y) /\ Schedulable(row[y])}}]_scheduleVars

\* "Remove old schedule first" (update_discovery): a discovery has one job.
OneJobPerDiscovery ==
    \A i, j \in jobs : i.disc = j.disc => i = j
=============================================================================
