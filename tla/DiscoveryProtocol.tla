-------------------------- MODULE DiscoveryProtocol --------------------------
(***************************************************************************)
(* The server's DiscoveryService and the daemons' discovery tasks together *)
(* (receive_discovery_update, receive_work_request, initiate, cancel):     *)
(* every HTTP exchange between them joins an action of one with an action  *)
(* of the other.                                                           *)
(*                                                                         *)
(* Failures (lost and late requests, replies and rows, crashes, dropped    *)
(* handlers, tasks that give up) are drawn from a budget of MaxFaults.     *)
(***************************************************************************)
EXTENDS DiscoveryService, DaemonDiscovery

CONSTANTS
    MaxFaults,     \* bounds the failures of a behaviour
    Cancellable    \* Cancellable[m]: the sessions users try to cancel when daemons run in mode m

ASSUME ProtocolAssumption == MaxFaults \in Nat /\ Cancellable \in [{"Push", "Pull"} -> SUBSET Sessions]

VARIABLE faults   \* failures so far

serverVars == vars
allVars    == <<vars, daemonVars, faults>>

ProtocolTypeOK ==
    /\ TypeOK
    /\ DaemonTypeOK
    /\ faults \in 0..MaxFaults

ProtocolInit ==
    /\ Init
    /\ DaemonInit
    /\ faults = 0

Fault == faults < MaxFaults /\ faults' = faults + 1

-----------------------------------------------------------------------------
(* The user *)

UserAsks(s) ==
    /\ StartInsert(s) \/ (s \in Cancellable[mode[Owner[s]]] /\ CancelRead(s))
    /\ UNCHANGED <<daemonVars, faults>>

-----------------------------------------------------------------------------
(* Steps of the server alone *)

ServerStep(s) ==
    /\ \/ StartCheck(s)
       \/ StartPush(s)
       \/ CancelPending(s)
       \/ CancelFlag(s)
       \/ CancelUnreachable(s, TRUE)
       \/ CleanupOld(s)
    /\ UNCHANGED <<daemonVars, faults>>

ServerStall(s) ==
    /\ CleanupStalled(s, TRUE)
    /\ UNCHANGED <<daemonVars, faults>>

ServerFault ==
    /\ \/ \E s \in Sessions : \/ StartDropped(s)
                              \/ CancelDropped(s)
                              \/ CancelUnreachable(s, FALSE)
                              \/ CleanupStalled(s, FALSE)
                              \/ StartSendDone(s)
                              \/ CancelSent(s, FALSE)
       \/ UpdateSendDone
    /\ Fault
    /\ UNCHANGED daemonVars

\* Work requests the old process was serving fail with it.
ServerCrash ==
    /\ ServerRestart
    /\ loop' = [d \in Daemons |-> IF loop[d].pc = "asked" THEN IdleLoop ELSE loop[d]]
    /\ Fault
    /\ UNCHANGED <<task, current, curSess, posts>>

-----------------------------------------------------------------------------
(* Reports *)

\* The answer to report m reaches the task that waits for it, if it still does.
Answer(m) ==
    /\ posts' = posts \ {m}
    /\ IF m.slot = NoSlot THEN UNCHANGED task ELSE Resume(m.slot)
    /\ UNCHANGED <<current, curSess, loop>>

\* receive_discovery_update
ReceiveUpdate(m) ==
    /\ \/ UpdateProgress(m.sess, m.phase) /\ UNCHANGED faults
       \/ UpdateTerminal(m.sess, m.phase, TRUE) /\ UNCHANGED faults
       \/ UpdateTerminal(m.sess, m.phase, FALSE) /\ Fault
       \/ \E saved \in BOOLEAN : UpdateDropped(m.sess, m.phase, saved) /\ Fault
    /\ Answer(m)

-----------------------------------------------------------------------------
(* Push: requests the server sends to a daemon *)

\* /api/discovery/initiate, sent by start_session or by update_session.
DaemonInitiates(s) ==
    /\ StartSendDone(s) \/ (updSend = s /\ UpdateSendDone)
    /\ \E k \in Slots : Initiate(s, k)
    /\ UNCHANGED <<curSess, posts, loop, faults>>

\* /api/discovery/cancel: the session id in the request is only logged.
DaemonCancels(s) ==
    /\ CancelSent(s, Running(Owner[s]))
    /\ CancelCurrent(Owner[s])
    /\ UNCHANGED <<current, curSess, posts, loop, faults>>

-----------------------------------------------------------------------------
(* Pull: receive_work_request reads the sessions, then takes the flag, and *)
(* answers with the first session and with whether there was a flag.       *)

WorkRead(d) ==
    /\ mode[d] = "Pull"
    /\ loop[d].pc = "idle"
    /\ \E s \in IF SessionsFor(d) = {} THEN {NoSession} ELSE SessionsFor(d) :
          loop' = [loop EXCEPT ![d] = [IdleLoop EXCEPT !.pc = "asked", !.next = s]]
    /\ UNCHANGED <<serverVars, task, current, curSess, posts, faults>>

WorkTake(d) ==
    /\ loop[d].pc = "asked"
    /\ TakeCancellation(d)
    /\ loop' = [loop EXCEPT ![d].pc = "answered", ![d].cancel = pullCancel[d]]
    /\ UNCHANGED <<task, current, curSess, posts, faults>>

WorkAct(d) ==
    /\ WorkCancel(d) \/ WorkStart(d)
    /\ UNCHANGED <<serverVars, faults>>

\* The reply outlived the session it brought: the daemon runs it once more.
StaleStart(d) ==
    /\ WorkStart(d)
    /\ loop[d].next # NoSession
    /\ sessions[loop[d].next] = "Absent"
    /\ ~Running(d)

-----------------------------------------------------------------------------
(* Tasks and daemon faults *)

TaskRuns(k) ==
    /\ TaskStep(k)
    /\ UNCHANGED <<serverVars, faults>>

DaemonFault ==
    /\ \/ \E k \in Slots : TaskGivesUp(k)
       \/ \E m \in posts : PostLost(m) \/ PostLate(m)
       \/ \E d \in Daemons : WorkLost(d) \/ DaemonCrash(d)
    /\ Fault
    /\ UNCHANGED serverVars

-----------------------------------------------------------------------------
ProtocolNext ==
    \/ \E s \in Sessions : \/ UserAsks(s)
                           \/ ServerStep(s)
                           \/ ServerStall(s)
                           \/ DaemonInitiates(s)
                           \/ DaemonCancels(s)
    \/ \E m \in posts : ReceiveUpdate(m)
    \/ \E d \in Daemons : WorkRead(d) \/ WorkTake(d) \/ WorkAct(d)
    \/ \E k \in Slots : TaskRuns(k)
    \/ ServerFault
    \/ ServerCrash
    \/ DaemonFault

ProtocolSpec == ProtocolInit /\ [][ProtocolNext]_allVars

\* Futures that can run are polled, requests that are awaited are answered, and
\* request_work loops for ever.  Users, clean-ups and faults owe nothing.
Fairness ==
    /\ \A s \in Sessions : /\ WF_allVars(ServerStep(s))
                           /\ WF_allVars(DaemonInitiates(s))
                           /\ WF_allVars(DaemonCancels(s))
    /\ \A d \in Daemons : WF_allVars(WorkRead(d) \/ WorkTake(d) \/ WorkAct(d))
    /\ \A k \in Slots : /\ WF_allVars(TaskRuns(k))
                        /\ WF_allVars(\E m \in posts : m.slot = k /\ ReceiveUpdate(m))

\* A reply overtakes the end of its session only finitely often: reading and
\* acting on it takes one HTTP round trip of a loop with a 30 s period.
FewStaleStarts == <>[][\A d \in Daemons : ~StaleStart(d)]_allVars

FairProtocolSpec == ProtocolSpec /\ Fairness /\ FewStaleStarts

\* The sessions of push daemons need the clean-up task as well, which runs every 60 s
\* and finds what has stopped reporting.
RecoveringSpec ==
    /\ FairProtocolSpec
    /\ \A s \in Sessions : WF_allVars(mode[Owner[s]] = "Push" /\ ServerStall(s))

-----------------------------------------------------------------------------
\* A daemon that asks for its work runs one discovery at a time: "Initiate session on
\* daemon if none are running".
OneTaskPerDaemon ==
    \A d \in Daemons : mode[d] = "Pull" => Cardinality(TasksOf(d)) <= 1

\* A report is about the session its task was spawned for, although every task
\* reports as the daemon's shared current_session: no session's phase, end or
\* Historical row comes from another session's task.  (A push daemon is sent its next
\* session while the last report of the task before is still being answered.)
ReportsAreOwn ==
    \A m \in posts : mode[Owner[m.by]] = "Pull" => m.sess = m.by

\* A session that reached its daemon's queue does not stay there for ever.
QueuedSessionsLeave ==
    \A s \in Sessions :
        (sessions[s] # "Absent" /\ s \in Queued(Owner[s])) ~> sessions[s] = "Absent"

\* A session in the queue of a daemon that asks for its work leaves the server without
\* the help of the clean-up task, and a session a push daemon has reported on leaves it
\* even if that daemon goes silent, a later report resurrects it, or the next dispatch
\* fails.
Served(s) ==
    /\ s \in Tracked
    /\ IF mode[Owner[s]] = "Pull" THEN s \in Queued(Owner[s]) ELSE s \in updated
ServedSessionsLeave == \A s \in Sessions : Served(s) ~> s \notin Tracked
=============================================================================
