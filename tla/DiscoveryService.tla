--------------------------- MODULE DiscoveryService ---------------------------
(***************************************************************************)
(* DiscoveryService (server/discovery/service.rs): the in-memory session   *)
(* map, the per-daemon queues, the pull-cancellation flags and the         *)
(* operations on them.                                                     *)
(*                                                                         *)
(* Each field is an Arc<RwLock<HashMap>> of its own, so an operation that  *)
(* takes the locks one after the other is several actions here, with what  *)
(* it read kept in startPc and cancelPc.  update_session holds sessions    *)
(* and last_updated from its first line, so it is one action up to the     *)
(* point where it drops sessions; it keeps last_updated while it sends the *)
(* next request, which updSend records.                                    *)
(*                                                                         *)
(* Nothing is assumed here about what daemons report: Spec lets any update *)
(* for any session arrive at any time.                                     *)
(***************************************************************************)
EXTENDS DiscoveryCommon

VARIABLES
    sessions,     \* [Sessions -> Phase]: the session map
    queue,        \* [Daemons -> Seq(Sessions)]: daemon_sessions
    pullCancel,   \* [Daemons -> session or NoSession]: daemon_pull_cancellations
    updated,      \* sessions with an entry in session_last_updated
    recorded,     \* sessions with a Historical row in the database
    startPc,      \* progress of start_session for each session
    cancelPc,     \* progress of a cancel_session call for each session
    updSend,      \* session whose request update_session is sending
    mode          \* [Daemons -> DaemonMode]: the mode in the daemon's row

vars == <<sessions, queue, pullCancel, updated, recorded, startPc, cancelPc, updSend,
          mode>>

StartPc  == {"new", "check", "pushBusy", "pushIdle", "sending", "done", "dropped"}
CancelPc == {"none", "sawPending", "flag", "sending", "unreachable"}

Tracked == {s \in Sessions : sessions[s] # "Absent"}

\* A start_session call that still owes its push, or will never push.
Unqueued == {"check", "pushIdle", "pushBusy", "dropped"}

TypeOK ==
    /\ sessions \in [Sessions -> Phase]
    /\ queue \in [Daemons -> Seq(Sessions)]
    /\ pullCancel \in [Daemons -> Sessions \cup {NoSession}]
    /\ updated \subseteq Sessions
    /\ recorded \subseteq Sessions
    /\ startPc \in [Sessions -> StartPc]
    /\ cancelPc \in [Sessions -> CancelPc]
    /\ updSend \in Sessions \cup {NoSession}
    /\ mode \in [Daemons -> {"Push", "Pull"}]

Init ==
    /\ sessions = [s \in Sessions |-> "Absent"]
    /\ queue = [d \in Daemons |-> <<>>]
    /\ pullCancel = [d \in Daemons |-> NoSession]
    /\ updated = {}
    /\ recorded = {}
    /\ startPc = [s \in Sessions |-> "new"]
    /\ cancelPc = [s \in Sessions |-> "none"]
    /\ updSend = NoSession
    /\ mode \in [Daemons -> Modes]

-----------------------------------------------------------------------------
(* The Vec of a daemon's queue.  It can hold an id twice, but it is only   *)
(* asked for its first element, for membership and for emptiness, and      *)
(* retain drops every copy: the model keeps the first copy of each id.     *)

Position(q, s) == CHOOSE i \in 1..Len(q) : q[i] = s

Has(q, s) == \E i \in 1..Len(q) : q[i] = s

Queued(d) == {s \in Sessions : Has(queue[d], s)}

Push(q, s) == IF Has(q, s) THEN q ELSE Append(q, s)

Retain(q, s) ==
    IF Has(q, s)
    THEN [i \in 1..(Len(q) - 1) |-> IF i < Position(q, s) THEN q[i] ELSE q[i + 1]]
    ELSE q

-----------------------------------------------------------------------------
(* start_session: insert, look at the queue, push, send.  A new id every   *)
(* call, so a session is started once.                                     *)

StartInsert(s) ==
    /\ startPc[s] = "new"
    /\ sessions' = [sessions EXCEPT ![s] = "Pending"]
    /\ startPc' = [startPc EXCEPT ![s] = "check"]
    /\ UNCHANGED <<queue, pullCancel, updated, recorded, cancelPc, updSend, mode>>

StartCheck(s) ==
    /\ startPc[s] = "check"
    /\ startPc' = [startPc EXCEPT ![s] =
                     IF queue[Owner[s]] = <<>> THEN "pushIdle" ELSE "pushBusy"]
    /\ UNCHANGED <<sessions, queue, pullCancel, updated, recorded, cancelPc, updSend, mode>>

StartPush(s) ==
    /\ startPc[s] \in {"pushIdle", "pushBusy"}
    /\ queue' = [queue EXCEPT ![Owner[s]] = Push(@, s)]
    /\ startPc' = [startPc EXCEPT ![s] =
                     IF @ = "pushIdle" /\ mode[Owner[s]] = "Push" THEN "sending" ELSE "done"]
    /\ UNCHANGED <<sessions, pullCancel, updated, recorded, cancelPc, updSend, mode>>

\* The request was answered, or the daemon lookup or the request failed: an
\* error leaves the session where it is.
StartSendDone(s) ==
    /\ startPc[s] = "sending"
    /\ startPc' = [startPc EXCEPT ![s] = "done"]
    /\ UNCHANGED <<sessions, queue, pullCancel, updated, recorded, cancelPc, updSend, mode>>

\* The client of the HTTP handler went away and the future was dropped at an
\* await before the push: the session stays in the map and in no queue.
StartDropped(s) ==
    /\ startPc[s] \in {"check", "pushIdle", "pushBusy"}
    /\ startPc' = [startPc EXCEPT ![s] = "dropped"]
    /\ UNCHANGED <<sessions, queue, pullCancel, updated, recorded, cancelPc, updSend, mode>>

-----------------------------------------------------------------------------
(* update_session *)

\* Mutant: auto-create fills the session map only.
QueueWithout(s) == queue[Owner[s]]

\* The queue once a vacant entry for s has been filled (auto-create).
QueueWith(s) ==
    IF sessions[s] = "Absent" THEN Push(queue[Owner[s]], s) ELSE queue[Owner[s]]

\* first().and_then(|id| sessions.get_mut(id)): the head, if it is in the map.
NextInQueue(q) ==
    IF q # <<>> /\ sessions[Head(q)] # "Absent" THEN Head(q) ELSE NoSession

\* A row that could not be written is only logged.
Record(s, saved) == IF saved THEN recorded \cup {s} ELSE recorded

UpdateProgress(s, p) ==
    /\ updSend = NoSession
    /\ p \in Active
    /\ sessions' = [sessions EXCEPT ![s] = p]
    /\ queue' = [queue EXCEPT ![Owner[s]] = QueueWith(s)]
    /\ updated' = updated \cup {s}
    /\ UNCHANGED <<pullCancel, recorded, startPc, cancelPc, updSend, mode>>

UpdateTerminal(s, p, saved) ==
    LET d    == Owner[s]
        rest == Retain(QueueWith(s), s)
        next == NextInQueue(rest)
    IN  /\ updSend = NoSession
        /\ p \in Terminal
        /\ sessions' = [t \in Sessions |-> IF t = s THEN "Absent"
                                       ELSE IF t = next THEN "Pending" ELSE sessions[t]]
        /\ queue' = [queue EXCEPT ![d] = rest]
        /\ pullCancel' = [pullCancel EXCEPT ![d] = NoSession]
        /\ updated' = updated \cup {s}
        /\ recorded' = Record(s, saved)
        /\ updSend' = IF mode[d] = "Push" THEN next ELSE NoSession
        /\ UNCHANGED <<startPc, cancelPc, mode>>

\* The daemon gave up waiting and the future was dropped while it wrote the
\* historical row: the session stays in the map in a terminal phase.
UpdateDropped(s, p, saved) ==
    /\ updSend = NoSession
    /\ p \in Terminal
    /\ sessions' = [sessions EXCEPT ![s] = p]
    /\ queue' = [queue EXCEPT ![Owner[s]] = QueueWith(s)]
    /\ pullCancel' = [pullCancel EXCEPT ![Owner[s]] = NoSession]
    /\ updated' = updated \cup {s}
    /\ recorded' = Record(s, saved)
    /\ UNCHANGED <<startPc, cancelPc, updSend, mode>>

\* The request for the next session was answered or failed; last_updated is
\* released either way and nothing is undone.
UpdateSendDone ==
    /\ updSend # NoSession
    /\ updSend' = NoSession
    /\ UNCHANGED <<sessions, queue, pullCancel, updated, recorded, startPc, cancelPc, mode>>

-----------------------------------------------------------------------------
(* cancel_session: it decides on a clone of the session and acts later.    *)

CancelRead(s) ==
    /\ cancelPc[s] = "none"
    /\ sessions[s] \in {"Pending"} \cup Active
    /\ cancelPc' = [cancelPc EXCEPT ![s] =
                      CASE sessions[s] = "Pending"     -> "sawPending"
                        [] mode[Owner[s]] = "Pull"     -> "flag"
                        [] OTHER                       -> "sending"]
    /\ UNCHANGED <<sessions, queue, pullCancel, updated, recorded, startPc, updSend, mode>>

CancelPending(s) ==
    /\ cancelPc[s] = "sawPending"
    /\ sessions' = [sessions EXCEPT ![s] = "Absent"]
    /\ queue' = [queue EXCEPT ![Owner[s]] = Retain(@, s)]
    /\ cancelPc' = [cancelPc EXCEPT ![s] = "none"]
    /\ UNCHANGED <<pullCancel, updated, recorded, startPc, updSend, mode>>

CancelFlag(s) ==
    /\ cancelPc[s] = "flag"
    /\ pullCancel' = [pullCancel EXCEPT ![Owner[s]] = s]
    /\ cancelPc' = [cancelPc EXCEPT ![s] = "none"]
    /\ UNCHANGED <<sessions, queue, updated, recorded, startPc, updSend, mode>>

\* What became of the cancellation request sent to a push daemon.
CancelSent(s, ok) ==
    /\ cancelPc[s] = "sending"
    /\ cancelPc' = [cancelPc EXCEPT ![s] = IF ok THEN "none" ELSE "unreachable"]
    /\ UNCHANGED <<sessions, queue, pullCancel, updated, recorded, startPc, updSend, mode>>

CancelUnreachable(s, saved) ==
    /\ cancelPc[s] = "unreachable"
    /\ cancelPc' = [cancelPc EXCEPT ![s] = "none"]
    /\ IF sessions[s] = "Absent"
       THEN UNCHANGED <<sessions, queue, recorded>>
       ELSE /\ sessions' = [sessions EXCEPT ![s] = "Absent"]
            /\ queue' = [queue EXCEPT ![Owner[s]] = Retain(@, s)]
            /\ recorded' = Record(s, saved)
    /\ UNCHANGED <<pullCancel, updated, startPc, updSend, mode>>

\* The user's request was dropped before cancel_session acted.
CancelDropped(s) ==
    /\ cancelPc[s] # "none"
    /\ cancelPc' = [cancelPc EXCEPT ![s] = "none"]
    /\ UNCHANGED <<sessions, queue, pullCancel, updated, recorded, startPc, updSend, mode>>

-----------------------------------------------------------------------------
(* Background tasks of bin/server.rs.  Both loops hold every lock they     *)
(* need, and time is not modelled, so any subset of the sessions may be    *)
(* old enough: clearing one session per step reaches the same states.      *)

\* Mutant: a session that waits for its turn again is never stalled.
CleanupStalledActive(s, saved) ==
    /\ updSend = NoSession
    /\ sessions[s] \in Active
    /\ s \in updated
    /\ sessions' = [sessions EXCEPT ![s] = "Absent"]
    /\ queue' = [queue EXCEPT ![Owner[s]] = Retain(@, s)]
    /\ updated' = updated \ {s}
    /\ recorded' = Record(s, saved)
    /\ UNCHANGED <<pullCancel, startPc, cancelPc, updSend, mode>>

\* No update for 5 minutes.  Only a session that was updated once can stall:
\* started_at comes with the first update.
CleanupStalled(s, saved) ==
    LET d == Owner[s]
    IN  /\ updSend = NoSession
        /\ sessions[s] \in {"Pending"} \cup Active
        /\ s \in updated
        /\ sessions' = [sessions EXCEPT ![s] = "Absent"]
        /\ queue' = [queue EXCEPT ![d] = Retain(@, s)]
        /\ updated' = updated \ {s}
        /\ pullCancel' = [pullCancel EXCEPT ![d] = IF @ = s THEN NoSession ELSE @]
        /\ recorded' = Record(s, saved)
        /\ UNCHANGED <<startPc, cancelPc, updSend, mode>>

\* finished_at is older than 24 hours; only terminal updates carry one.  (One
\* that was put back to Pending as the next session keeps its finished_at, but
\* it has stalled long before.)
CleanupOld(s) ==
    /\ sessions[s] \in Terminal
    /\ sessions' = [sessions EXCEPT ![s] = "Absent"]
    /\ queue' = [queue EXCEPT ![Owner[s]] = Retain(@, s)]
    /\ pullCancel' = [pullCancel EXCEPT ![Owner[s]] = NoSession]
    /\ UNCHANGED <<updated, recorded, startPc, cancelPc, updSend, mode>>

-----------------------------------------------------------------------------
(* The server's side of a work request, as two calls. *)

\* get_sessions_for_daemon: every tracked session in the queue, in HashMap order.
SessionsFor(d) == {s \in Queued(d) : sessions[s] # "Absent"}

\* pull_cancellation_for_daemon
TakeCancellation(d) ==
    /\ pullCancel' = [pullCancel EXCEPT ![d] = NoSession]
    /\ UNCHANGED <<sessions, queue, updated, recorded, startPc, cancelPc, updSend, mode>>

\* The process is replaced: all of this state is in memory, only rows survive.
ServerRestart ==
    /\ sessions' = [s \in Sessions |-> "Absent"]
    /\ queue' = [d \in Daemons |-> <<>>]
    /\ pullCancel' = [d \in Daemons |-> NoSession]
    /\ updated' = {}
    /\ startPc' = [s \in Sessions |-> IF startPc[s] = "new" THEN "new" ELSE "done"]
    /\ cancelPc' = [s \in Sessions |-> "none"]
    /\ updSend' = NoSession
    /\ UNCHANGED <<recorded, mode>>

\* A heartbeat or a work request stores the mode the daemon runs in, which
\* changes when it is restarted with another configuration.
Heartbeat(d, m) ==
    /\ m # mode[d]
    /\ mode' = [mode EXCEPT ![d] = m]
    /\ UNCHANGED <<sessions, queue, pullCancel, updated, recorded, startPc, cancelPc, updSend>>

-----------------------------------------------------------------------------
Start(s) ==
    \/ StartInsert(s)
    \/ StartCheck(s)
    \/ StartPush(s)
    \/ StartSendDone(s)
    \/ StartDropped(s)

Update(s) ==
    \/ \E p \in Reported : UpdateProgress(s, p)
    \/ \E p \in Reported, saved \in BOOLEAN :
          UpdateTerminal(s, p, saved) \/ UpdateDropped(s, p, saved)

Cancel(s) ==
    \/ CancelRead(s)
    \/ CancelPending(s)
    \/ CancelFlag(s)
    \/ \E ok \in BOOLEAN : CancelSent(s, ok)
    \/ \E saved \in BOOLEAN : CancelUnreachable(s, saved)
    \/ CancelDropped(s)

Cleanup(s) ==
    \/ \E saved \in BOOLEAN : CleanupStalled(s, saved)
    \/ CleanupOld(s)

Next ==
    \/ \E s \in Sessions : Start(s) \/ Update(s) \/ Cancel(s) \/ Cleanup(s)
    \/ \E d \in Daemons : TakeCancellation(d)
    \/ \E d \in Daemons, m \in {"Push", "Pull"} : Heartbeat(d, m)
    \/ UpdateSendDone
    \/ ServerRestart

Spec == Init /\ [][Next]_vars

-----------------------------------------------------------------------------
\* Every session in the map whose start_session call is past the push is in
\* the queue of its daemon, whatever calls, cancellations, clean-ups, dropped
\* requests and reports interleave.  The work endpoint, the dispatch of the
\* next session and the clean-ups find sessions only through that queue, so a
\* tracked session outside it would never run and never end.
TrackedIsQueued ==
    \A s \in Tracked : startPc[s] \notin Unqueued => s \in Queued(Owner[s])
=============================================================================
