--------------------------- MODULE DaemonDiscovery ---------------------------
(***************************************************************************)
(* The daemon's side of a discovery session: the session manager           *)
(* (daemon/discovery/manager.rs), the tasks it spawns                      *)
(* (daemon/discovery/service/{base,network,docker,self_report}.rs) and the *)
(* pull loop (daemon/runtime/service.rs).                                  *)
(*                                                                         *)
(* A task reports by POSTing to the server and awaits the answer; reports  *)
(* in flight are in posts.  All tasks of a daemon report as the session in *)
(* the shared current_session (curSess), not as the one they were spawned  *)
(* for.                                                                    *)
(***************************************************************************)
EXTENDS DiscoveryCommon

CONSTANTS
    Kind,      \* Kind[s]: the DiscoveryType of a session
    Slots,     \* bounds the tasks alive at one time, over all daemons
    NoSlot

ASSUME DaemonAssumption ==
    /\ Kind \in [Sessions -> {"Network", "Docker", "SelfReport"}]
    /\ Slots \subseteq Nat /\ NoSlot \notin Slots

VARIABLES
    task,      \* [Slots -> Task]: spawned tasks
    current,   \* [Daemons -> slot or NoSlot]: current_task, the last one spawned
    curSess,   \* [Daemons -> session or NoSession]: current_session
    posts,     \* reports in flight: slot is NoSlot once the sender stopped waiting,
               \* sess the session reported on, by the session the task was spawned for
    loop       \* [Daemons -> Loop]: one iteration of request_work; the reply's
               \* cancel is only a Boolean, cancel keeps the session it was meant for

daemonVars == <<task, current, curSess, posts, loop>>

\* A task's pc is a local step or the report it has to make next: "Half" is
\* the 50% report between the two phases of a network scan.
Working   == {"prep", "setup", "phase1", "phase2", "clear"}
Reporting == {"Half"} \cup Reported

Task == [sess : Sessions \cup {NoSession}, pc : {"free"} \cup Working \cup Reporting,
         cancelled : BOOLEAN, fin : Sessions \cup {NoSession}]
Post == [slot : Slots \cup {NoSlot}, sess : Sessions, by : Sessions, phase : Reported]
Loop == [pc : {"idle", "asked", "answered", "start"},
         next : Sessions \cup {NoSession}, cancel : Sessions \cup {NoSession}]

FreeTask == [sess |-> NoSession, pc |-> "free", cancelled |-> FALSE, fin |-> NoSession]
IdleLoop == [pc |-> "idle", next |-> NoSession, cancel |-> NoSession]

DaemonTypeOK ==
    /\ task \in [Slots -> Task]
    /\ current \in [Daemons -> Slots \cup {NoSlot}]
    /\ curSess \in [Daemons -> Sessions \cup {NoSession}]
    /\ posts \subseteq Post
    /\ loop \in [Daemons -> Loop]

DaemonInit ==
    /\ task = [k \in Slots |-> FreeTask]
    /\ current = [d \in Daemons |-> NoSlot]
    /\ curSess = [d \in Daemons |-> NoSession]
    /\ posts = {}
    /\ loop = [d \in Daemons |-> IdleLoop]

Alive(k)   == task[k].pc # "free"
DaemonOf(k) == Owner[task[k].sess]
TasksOf(d) == {k \in Slots : Alive(k) /\ DaemonOf(k) = d}

-----------------------------------------------------------------------------
(* DaemonDiscoverySessionManager *)

\* is_discovery_running: the last spawned task has not finished.  (Its slot may
\* have gone to another daemon's task since.)
Running(d) == current[d] \in TasksOf(d)

\* initiate_session: a new token, a new task, whatever is running already.
\* Tasks are interchangeable: the new one takes the first free slot.
Initiate(s, k) ==
    /\ ~Alive(k) /\ \A j \in Slots : j < k => Alive(j)
    /\ task' = [task EXCEPT ![k] = [FreeTask EXCEPT !.sess = s, !.pc = "prep"]]
    /\ current' = [current EXCEPT ![Owner[s]] = k]

\* cancel_current_session: the token of the last spawned task, if it runs.
CancelCurrent(d) ==
    task' = IF Running(d) THEN [task EXCEPT ![current[d]].cancelled = TRUE] ELSE task

-----------------------------------------------------------------------------
(* A discovery task *)

Step(k, pc) == task' = [task EXCEPT ![k].pc = pc]
End(k)      == task' = [task EXCEPT ![k] = FreeTask]

\* Mutant: a current session that is already there is left alone.
TaskBeginKeeps(k) ==
    /\ task[k].pc = "prep"
    /\ curSess' = [curSess EXCEPT ![DaemonOf(k)] = IF @ = NoSession THEN task[k].sess ELSE @]
    /\ Step(k, IF Kind[task[k].sess] = "SelfReport" THEN "setup" ELSE "Started")
    /\ UNCHANGED <<current, posts, loop>>

\* The preparation succeeded: the task becomes the current session.
TaskBegin(k) ==
    /\ task[k].pc = "prep"
    /\ curSess' = [curSess EXCEPT ![DaemonOf(k)] = task[k].sess]
    /\ Step(k, IF Kind[task[k].sess] = "SelfReport" THEN "setup" ELSE "Started")
    /\ UNCHANGED <<current, posts, loop>>

\* An error that leaves discover() through `?` outside of finish_discovery: the
\* task ends with a log line and the server hears nothing.
TaskGivesUp(k) ==
    /\ \/ task[k].pc = "prep"
       \/ task[k].pc = "setup" /\ Kind[task[k].sess] \in {"Docker", "SelfReport"}
    /\ End(k)
    /\ UNCHANGED <<current, curSess, posts, loop>>

TaskSetUp(k) ==
    /\ task[k].pc = "setup"
    /\ Step(k, IF Kind[task[k].sess] = "SelfReport" THEN "Complete" ELSE "Scanning")
    /\ UNCHANGED <<current, curSess, posts, loop>>

Outstanding(k) == \E m \in posts : m.slot = k

\* Mutant: the 50% report carries a phase of its own.
TaskReportHalf(k) ==
    /\ task[k].pc \in Reporting
    /\ ~Outstanding(k)
    /\ curSess[DaemonOf(k)] # NoSession
    /\ posts' = posts \cup {[slot |-> k, sess |-> curSess[DaemonOf(k)], by |-> task[k].sess,
                             phase |-> task[k].pc]}
    /\ UNCHANGED <<task, current, curSess, loop>>

\* report_discovery_update up to the POST.  finish_discovery remembers the
\* session it read.
TaskReport(k) ==
    LET d == DaemonOf(k)
    IN  /\ task[k].pc \in Reporting
        /\ ~Outstanding(k)
        /\ curSess[d] # NoSession
        /\ posts' = posts \cup {[slot |-> k, sess |-> curSess[d], by |-> task[k].sess,
                                 phase |-> IF task[k].pc = "Half" THEN "Scanning" ELSE task[k].pc]}
        /\ task' = IF task[k].pc \in Terminal THEN [task EXCEPT ![k].fin = curSess[d]] ELSE task
        /\ UNCHANGED <<current, curSess, loop>>

\* get_session finds no current session: the error ends the task.
TaskHasNoSession(k) ==
    /\ task[k].pc \in Reporting
    /\ ~Outstanding(k)
    /\ curSess[DaemonOf(k)] = NoSession
    /\ End(k)
    /\ UNCHANGED <<current, curSess, posts, loop>>

\* The POST returned, with an answer or with an error that is only logged.
Resume(k) ==
    CASE task[k].pc = "Started"  -> Step(k, "setup")
      [] task[k].pc = "Scanning" -> Step(k, "phase1")
      [] task[k].pc = "Half"     -> Step(k, "phase2")
      [] OTHER -> IF Kind[task[k].sess] = "SelfReport" THEN End(k) ELSE Step(k, "clear")

\* The scan returned an error: finish_discovery calls it a cancellation if the
\* token is cancelled by then.
TaskScanFails(k) ==
    /\ \/ task[k].pc = "setup" /\ Kind[task[k].sess] = "Network"
       \/ task[k].pc \in {"phase1", "phase2"}
    /\ Step(k, IF task[k].cancelled THEN "Cancelled" ELSE "Failed")
    /\ UNCHANGED <<current, curSess, posts, loop>>

\* The token is looked at for the last time at the end of phase 1.
TaskPhase1(k) ==
    /\ task[k].pc = "phase1"
    /\ ~task[k].cancelled
    /\ Step(k, IF Kind[task[k].sess] = "Network" THEN "Half" ELSE "Complete")
    /\ UNCHANGED <<current, curSess, posts, loop>>

\* Phase 2 turns errors and cancellations of single hosts into missing hosts.
TaskPhase2(k) ==
    /\ task[k].pc = "phase2"
    /\ Step(k, "Complete")
    /\ UNCHANGED <<current, curSess, posts, loop>>

\* The end of finish_discovery.
TaskClear(k) ==
    LET d == DaemonOf(k)
    IN  /\ task[k].pc = "clear"
        /\ curSess' = [curSess EXCEPT ![d] = IF @ = task[k].fin THEN NoSession ELSE @]
        /\ End(k)
        /\ UNCHANGED <<current, posts, loop>>

TaskStep(k) ==
    \/ TaskBegin(k)
    \/ TaskSetUp(k)
    \/ TaskReport(k)
    \/ TaskHasNoSession(k)
    \/ TaskScanFails(k)
    \/ TaskPhase1(k)
    \/ TaskPhase2(k)
    \/ TaskClear(k)

-----------------------------------------------------------------------------
(* request_work after the reply: cancel first, then start what the reply   *)
(* brought unless something is running.                                    *)

WorkCancel(d) ==
    /\ loop[d].pc = "answered"
    /\ IF loop[d].cancel # NoSession THEN CancelCurrent(d) ELSE UNCHANGED task
    /\ loop' = [loop EXCEPT ![d].pc = "start"]
    /\ UNCHANGED <<current, curSess, posts>>

\* Mutant: what the reply brought is started whatever is running.
WorkStartAlways(d) ==
    /\ loop[d].pc = "start"
    /\ IF loop[d].next # NoSession
       THEN \E k \in Slots : Initiate(loop[d].next, k)
       ELSE UNCHANGED <<task, current>>
    /\ loop' = [loop EXCEPT ![d] = IdleLoop]
    /\ UNCHANGED <<curSess, posts>>

WorkStart(d) ==
    /\ loop[d].pc = "start"
    /\ IF loop[d].next # NoSession /\ ~Running(d)
       THEN \E k \in Slots : Initiate(loop[d].next, k)
       ELSE UNCHANGED <<task, current>>
    /\ loop' = [loop EXCEPT ![d] = IdleLoop]
    /\ UNCHANGED <<curSess, posts>>

\* No reply: the error is logged and the loop goes on.
WorkLost(d) ==
    /\ loop[d].pc \in {"asked", "answered"}
    /\ loop' = [loop EXCEPT ![d] = IdleLoop]
    /\ UNCHANGED <<task, current, curSess, posts>>

-----------------------------------------------------------------------------
(* Faults *)

Abandon(m) == [m EXCEPT !.slot = NoSlot]

\* The POST fails before it reaches the server.
PostLost(m) ==
    /\ m.slot # NoSlot
    /\ posts' = posts \ {m}
    /\ Resume(m.slot)
    /\ UNCHANGED <<current, curSess, loop>>

\* The client's 30 s timeout passes; the server may still see the request.
PostLate(m) ==
    /\ m.slot # NoSlot
    /\ posts' = (posts \ {m}) \cup {Abandon(m)}
    /\ Resume(m.slot)
    /\ UNCHANGED <<current, curSess, loop>>

\* The daemon process dies and comes back with nothing in memory.
DaemonCrash(d) ==
    /\ TasksOf(d) # {} \/ loop[d] # IdleLoop
    /\ task' = [k \in Slots |-> IF k \in TasksOf(d) THEN FreeTask ELSE task[k]]
    /\ current' = [current EXCEPT ![d] = NoSlot]
    /\ curSess' = [curSess EXCEPT ![d] = NoSession]
    /\ posts' = {IF m.slot \in TasksOf(d) THEN Abandon(m) ELSE m : m \in posts}
    /\ loop' = [loop EXCEPT ![d] = IdleLoop]
=============================================================================
