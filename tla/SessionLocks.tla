---------------------------- MODULE SessionLocks ----------------------------
(***************************************************************************)
(* The four tokio RwLocks of DiscoveryService and the order in which its   *)
(* operations take them.  An operation is the list of its lock, unlock and *)
(* send steps in program order; what it does to the maps is in             *)
(* DiscoveryService.                                                       *)
(*                                                                         *)
(* A lock is granted in the order of the requests: neighbouring readers    *)
(* share it, a waiting writer holds back the readers behind it.            *)
(***************************************************************************)
EXTENDS Integers, Sequences, FiniteSets

CONSTANTS
    Procs,    \* concurrent calls
    OpOf      \* OpOf[p]: the operation a call runs

Locks == {"sessions", "last_updated", "daemon_sessions", "pull_cancellations"}

Read(l)   == [do |-> "lock", lock |-> l, mode |-> "r"]
Drop(l)   == [do |-> "unlock", lock |-> l]
SendNext  == [do |-> "send"]

\* Mutant: a third mode.
Upgradable(l) == [do |-> "lock", lock |-> l, mode |-> "u"]

Write(l)  == [do |-> "lock", lock |-> l, mode |-> "w"]

-----------------------------------------------------------------------------
(* The operations *)

\* The guard on daemon_sessions lives until the function returns.
GetSessionsForDaemon ==
    << Read("daemon_sessions"), Read("sessions"), Drop("sessions"), Drop("daemon_sessions") >>

PullCancellation == << Write("pull_cancellations"), Drop("pull_cancellations") >>

\* receive_work_request
WorkRequest == GetSessionsForDaemon \o PullCancellation

GetAllSessions == << Read("sessions"), Drop("sessions") >>

StartSession ==
    << Write("sessions"), Drop("sessions"),
       Read("daemon_sessions"), Drop("daemon_sessions"),
       Write("daemon_sessions"), Drop("daemon_sessions") >>

AutoCreate == << Write("daemon_sessions"), Drop("daemon_sessions") >>

ProgressUpdate ==
    << Write("sessions"), Write("last_updated") >> \o AutoCreate
       \o << Drop("last_updated"), Drop("sessions") >>

\* last_updated is still held while the next session's request is sent.
TerminalUpdate ==
    << Write("sessions"), Write("last_updated") >> \o AutoCreate \o PullCancellation
       \o << Write("daemon_sessions"), Drop("daemon_sessions"),
             Drop("sessions"), SendNext, Drop("last_updated") >>

CancelPendingSession ==
    << Read("sessions"), Drop("sessions"),
       Write("sessions"), Write("daemon_sessions"),
       Drop("sessions"), Drop("daemon_sessions") >>

CleanupOldSessions ==
    << Write("sessions"), Write("daemon_sessions"), Write("pull_cancellations"),
       Drop("pull_cancellations"), Drop("daemon_sessions"), Drop("sessions") >>

\* Mutant: the update times before the session map.
CleanupStalledReversed ==
    << Write("last_updated"), Write("sessions"), Write("daemon_sessions"),
       Write("pull_cancellations"), Drop("pull_cancellations"), Drop("daemon_sessions"),
       Drop("last_updated"), Drop("sessions") >>

CleanupStalledSessions ==
    << Write("sessions"), Write("last_updated"), Write("daemon_sessions"),
       Write("pull_cancellations"), Drop("pull_cancellations"), Drop("daemon_sessions"),
       Drop("last_updated"), Drop("sessions") >>

Program(op) ==
    CASE op = "work"     -> WorkRequest
      [] op = "list"     -> GetAllSessions
      [] op = "start"    -> StartSession
      [] op = "progress" -> ProgressUpdate
      [] op = "terminal" -> TerminalUpdate
      [] op = "cancel"   -> CancelPendingSession
      [] op = "old"      -> CleanupOldSessions
      [] op = "stalled"  -> CleanupStalledSessions

Ops == {"work", "list", "start", "progress", "terminal", "cancel", "old", "stalled"}

ASSUME LocksAssumption == OpOf \in [Procs -> Ops]

-----------------------------------------------------------------------------
VARIABLES
    pc,       \* [Procs -> Nat]: steps a call has completed
    held,     \* [Locks -> set of <<call, mode>>]: who holds a lock
    waiting   \* [Locks -> Seq(<<call, mode>>)]: who waits for it, in order

lockVars == <<pc, held, waiting>>

Code(p)     == Program(OpOf[p])
Finished(p) == pc[p] = Len(Code(p))
Instr(p)    == Code(p)[pc[p] + 1]
Does(p, do) == ~Finished(p) /\ Instr(p).do = do
Waits(p)    == \E l \in Locks : \E i \in 1..Len(waiting[l]) : waiting[l][i][1] = p

LocksTypeOK ==
    /\ pc \in [Procs -> Nat] /\ \A p \in Procs : pc[p] <= Len(Code(p))
    /\ held \in [Locks -> SUBSET (Procs \X {"r", "w"})]
    /\ waiting \in [Locks -> Seq(Procs \X {"r", "w"})]

LocksInit ==
    /\ pc = [p \in Procs |-> 0]
    /\ held = [l \in Locks |-> {}]
    /\ waiting = [l \in Locks |-> <<>>]

\* .read().await or .write().await is polled for the first time.
Request(p) ==
    /\ Does(p, "lock")
    /\ ~Waits(p)
    /\ waiting' = [waiting EXCEPT ![Instr(p).lock] = Append(@, <<p, Instr(p).mode>>)]
    /\ UNCHANGED <<pc, held>>

Compatible(l, mode) ==
    IF mode = "w" THEN held[l] = {} ELSE \A h \in held[l] : h[2] = "r"

\* The call at the head of the line gets the lock.
Grant(l) ==
    /\ waiting[l] # <<>>
    /\ Compatible(l, Head(waiting[l])[2])
    /\ held' = [held EXCEPT ![l] = @ \cup {Head(waiting[l])}]
    /\ waiting' = [waiting EXCEPT ![l] = Tail(@)]
    /\ pc' = [pc EXCEPT ![Head(waiting[l])[1]] = @ + 1]

Release(p) ==
    /\ Does(p, "unlock")
    /\ held' = [held EXCEPT ![Instr(p).lock] = {h \in @ : h[1] # p}]
    /\ pc' = [pc EXCEPT ![p] = @ + 1]
    /\ UNCHANGED waiting

\* The daemon answers the request, or it fails.  The client has no timeout.
Answered(p) ==
    /\ Does(p, "send")
    /\ pc' = [pc EXCEPT ![p] = @ + 1]
    /\ UNCHANGED <<held, waiting>>

LocksNext ==
    \/ \E p \in Procs : Request(p) \/ Release(p) \/ Answered(p)
    \/ \E l \in Locks : Grant(l)

LocksSpec == LocksInit /\ [][LocksNext]_lockVars

\* The runtime polls every future that can run, and daemons answer.
LocksFairSpec ==
    /\ LocksSpec
    /\ \A p \in Procs : WF_lockVars(Request(p) \/ Release(p)) /\ WF_lockVars(Answered(p))
    /\ \A l \in Locks : WF_lockVars(Grant(l))

-----------------------------------------------------------------------------
\* No set of calls waits for one another: as long as calls are unfinished, one
\* of them has a step to take or a lock to get.  A call is a finite list of
\* steps, so under LocksFairSpec every call then returns.
NoCallIsStuck ==
    \/ \A p \in Procs : Finished(p)
    \/ \E p \in Procs : ~Finished(p) /\ (Instr(p).do # "lock" \/ ~Waits(p))
    \/ \E l \in Locks : waiting[l] # <<>> /\ Compatible(l, Head(waiting[l])[2])

\* "Returns tuple of (next_session, should_cancel)" (receive_work_request): a
\* daemon that asks for work gets an answer.
WorkRequestReturns == \A p \in Procs : OpOf[p] = "work" => <>Finished(p)
=============================================================================
