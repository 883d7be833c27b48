----------------------- MODULE DiscoveryProtocolProofs -----------------------
(***************************************************************************)
(* The discovery service on its own, and the server and its daemons        *)
(* together, for any number of sessions, daemons and tasks, any reports,   *)
(* any faults and any mix of push and pull daemons.                        *)
(*                                                                         *)
(* TypeOK and TrackedIsQueued are inductive together for DiscoveryService. *)
(* The protocol's steps are steps of the service, so the two carry over.   *)
(* That a pull daemon runs one task at a time and that this task reports   *)
(* on its own session needs facts about both sides: what is in a queue and *)
(* in a reply is the daemon's own, the server sends to push daemons only,  *)
(* and a task that waits for an answer is still there.                     *)
(***************************************************************************)
EXTENDS DiscoveryProtocol, FiniteSetTheorems, TLAPS

-----------------------------------------------------------------------------
(* The operations on a queue *)

\* Pushing an id yields a queue of ids that holds the id and all that was there.
LEMMA PushFacts ==
    ASSUME NEW S, NEW q \in Seq(S), NEW s \in S
    PROVE  /\ Push(q, s) \in Seq(S)
           /\ Has(Push(q, s), s)
           /\ \A t \in S : Has(q, t) => Has(Push(q, s), t)
<1>1. CASE Has(q, s)
  BY <1>1 DEF Push
<1>2. CASE ~Has(q, s)
  <2>1. Push(q, s) = Append(q, s)
    BY <1>2 DEF Push
  <2>2. /\ Len(Append(q, s)) = Len(q) + 1
        /\ Append(q, s)[Len(q) + 1] = s
        /\ \A i \in 1..Len(q) : Append(q, s)[i] = q[i]
    OBVIOUS
  <2> QED
    BY <2>1, <2>2 DEF Has
<1> QED
  BY <1>1, <1>2

\* Retaining everything but s yields a queue of ids with every other id in it.
LEMMA RetainFacts ==
    ASSUME NEW S, NEW q \in Seq(S), NEW s \in S
    PROVE  /\ Retain(q, s) \in Seq(S)
           /\ \A t \in S : Has(q, t) /\ t # s => Has(Retain(q, s), t)
<1>1. CASE ~Has(q, s)
  BY <1>1 DEF Retain
<1>2. CASE Has(q, s)
  <2> DEFINE p == Position(q, s)
             r == [i \in 1..(Len(q) - 1) |-> IF i < p THEN q[i] ELSE q[i + 1]]
  <2>1. Retain(q, s) = r
    BY <1>2 DEF Retain
  <2>2. p \in 1..Len(q) /\ q[p] = s
    BY <1>2 DEF Has, Position
  <2> HIDE DEF p
  <2>3. r \in Seq(S) /\ Len(r) = Len(q) - 1
    BY <2>2
  <2>4. ASSUME NEW t \in S, Has(q, t), t # s
        PROVE  Has(r, t)
    <3>1. PICK j \in 1..Len(q) : q[j] = t
      BY <2>4 DEF Has
    <3>2. CASE j < p
      <4>1. j \in 1..Len(r) /\ r[j] = t
        BY <2>2, <2>3, <3>1, <3>2
      <4> QED
        BY <4>1 DEF Has
    <3>3. CASE j > p
      <4>1. j - 1 \in 1..Len(r) /\ r[j - 1] = t
        BY <2>2, <2>3, <3>1, <3>3
      <4> QED
        BY <4>1 DEF Has
    <3> QED
      BY <2>2, <2>4, <3>1, <3>2, <3>3
  <2> QED
    BY <2>1, <2>3, <2>4
<1> QED
  BY <1>1, <1>2

-----------------------------------------------------------------------------
(* The inductive invariant *)

\* What auto-creation makes of the queue of s's daemon.
LEMMA QueueWithFacts ==
    ASSUME TypeOK, TrackedIsQueued, NEW s \in Sessions
    PROVE  /\ QueueWith(s) \in Seq(Sessions)
           /\ \A t \in Sessions : Has(queue[Owner[s]], t) => Has(QueueWith(s), t)
           /\ startPc[s] \notin Unqueued => Has(QueueWith(s), s)
<1>1. Owner[s] \in Daemons /\ queue[Owner[s]] \in Seq(Sessions)
  BY DiscoveryAssumption DEF TypeOK
<1>2. CASE sessions[s] = "Absent"
  BY <1>1, <1>2, PushFacts DEF QueueWith
<1>3. CASE sessions[s] # "Absent"
  BY <1>1, <1>3 DEF QueueWith, TrackedIsQueued, Tracked, Queued
<1> QED
  BY <1>2, <1>3

\* What follows from dropping s from the map and from its daemon's queue while
\* no start_session call moves.
LEMMA DropKeepsTracked ==
    ASSUME TypeOK, TrackedIsQueued, NEW s \in Sessions,
           sessions' = [sessions EXCEPT ![s] = "Absent"],
           queue' = [queue EXCEPT ![Owner[s]] = Retain(@, s)],
           startPc' = startPc
    PROVE  /\ sessions' \in [Sessions -> Phase]
           /\ queue' \in [Daemons -> Seq(Sessions)]
           /\ TrackedIsQueued'
<1>1. Owner[s] \in Daemons /\ queue[Owner[s]] \in Seq(Sessions)
  BY DiscoveryAssumption DEF TypeOK
<1>2. /\ Retain(queue[Owner[s]], s) \in Seq(Sessions)
      /\ \A t \in Sessions : Has(queue[Owner[s]], t) /\ t # s => Has(Retain(queue[Owner[s]], s), t)
  BY <1>1, RetainFacts
<1>3. sessions' \in [Sessions -> Phase] /\ queue' \in [Daemons -> Seq(Sessions)]
  BY <1>1, <1>2 DEF TypeOK, Phase
<1>4. ASSUME NEW t \in Sessions, sessions'[t] # "Absent", startPc'[t] \notin Unqueued
      PROVE  Has(queue'[Owner[t]], t)
  <2>1. t # s /\ sessions[t] # "Absent" /\ Has(queue[Owner[t]], t)
    BY <1>4 DEF TypeOK, TrackedIsQueued, Tracked, Queued
  <2>2. Owner[t] \in Daemons
    BY DiscoveryAssumption
  <2>3. CASE Owner[t] = Owner[s]
    BY <1>1, <1>2, <2>1, <2>3 DEF TypeOK
  <2>4. CASE Owner[t] # Owner[s]
    BY <1>1, <2>1, <2>2, <2>4 DEF TypeOK
  <2> QED
    BY <2>3, <2>4
<1> QED
  BY <1>3, <1>4 DEF TrackedIsQueued, Tracked, Queued

\* The mirror image: s's queue grows to one that holds s, nothing else leaves
\* the map or its queue, and no start_session call moves.
LEMMA FillKeepsTracked ==
    ASSUME TypeOK, TrackedIsQueued, NEW s \in Sessions, NEW p \in Phase,
           sessions' = [sessions EXCEPT ![s] = p],
           queue' = [queue EXCEPT ![Owner[s]] = QueueWith(s)],
           startPc' = startPc
    PROVE  /\ sessions' \in [Sessions -> Phase]
           /\ queue' \in [Daemons -> Seq(Sessions)]
           /\ TrackedIsQueued'
<1>1. Owner[s] \in Daemons
  BY DiscoveryAssumption
<1>2. sessions' \in [Sessions -> Phase] /\ queue' \in [Daemons -> Seq(Sessions)]
  BY <1>1, QueueWithFacts DEF TypeOK
<1>3. ASSUME NEW t \in Sessions, sessions'[t] # "Absent", startPc'[t] \notin Unqueued
      PROVE  Has(queue'[Owner[t]], t)
  <2>1. Owner[t] \in Daemons
    BY DiscoveryAssumption
  <2>2. CASE t = s
    BY <1>1, <1>3, <2>2, QueueWithFacts DEF TypeOK
  <2>3. CASE t # s
    <3>1. Has(queue[Owner[t]], t)
      BY <1>3, <2>3 DEF TypeOK, TrackedIsQueued, Tracked, Queued
    <3> QED
      BY <1>1, <2>1, <3>1, QueueWithFacts DEF TypeOK
  <2> QED
    BY <2>2, <2>3
<1> QED
  BY <1>2, <1>3 DEF TrackedIsQueued, Tracked, Queued

\* A terminal update drops its own session from the map and the queue and leaves
\* every other session where it is.
LEMMA TerminalKeepsTracked ==
    ASSUME TypeOK, TrackedIsQueued, NEW s \in Sessions, NEW p, NEW saved \in BOOLEAN,
           UpdateTerminal(s, p, saved)
    PROVE  TypeOK' /\ TrackedIsQueued'
<1> DEFINE rest == Retain(QueueWith(s), s)
           next == NextInQueue(rest)
<1>1. Owner[s] \in Daemons
  BY DiscoveryAssumption
<1>2. /\ rest \in Seq(Sessions)
      /\ \A t \in Sessions : Has(queue[Owner[s]], t) /\ t # s => Has(rest, t)
  BY QueueWithFacts, RetainFacts
<1>3. next \in Sessions \cup {NoSession} /\ (next # NoSession => sessions[next] # "Absent")
  <2>1. CASE rest = <<>>
    BY <2>1 DEF NextInQueue
  <2>2. CASE rest # <<>>
    <3>1. Head(rest) \in Sessions
      BY <1>2, <2>2
    <3> QED
      BY <2>2, <3>1 DEF NextInQueue
  <2> QED
    BY <2>1, <2>2
<1> HIDE DEF rest, next
<1>4. /\ sessions' = [t \in Sessions |-> IF t = s THEN "Absent"
                                       ELSE IF t = next THEN "Pending" ELSE sessions[t]]
      /\ queue' = [queue EXCEPT ![Owner[s]] = rest]
      /\ pullCancel' = [pullCancel EXCEPT ![Owner[s]] = NoSession]
      /\ updated' = updated \cup {s}
      /\ recorded' \subseteq recorded \cup {s}
      /\ updSend' \in {next, NoSession}
      /\ startPc' = startPc /\ cancelPc' = cancelPc /\ mode' = mode
  BY DEF UpdateTerminal, Record, rest, next
<1>5. TypeOK'
  BY <1>1, <1>2, <1>3, <1>4 DEF TypeOK, Phase
<1>6. ASSUME NEW t \in Sessions, sessions'[t] # "Absent", startPc'[t] \notin Unqueued
      PROVE  Has(queue'[Owner[t]], t)
  <2>1. t # s /\ sessions[t] # "Absent"
    <3>1. t # s
      BY <1>4, <1>6
    <3>2. CASE t = next
      BY <1>3, <3>1, <3>2, DiscoveryAssumption
    <3>3. CASE t # next
      <4>1. sessions'[t] = sessions[t]
        BY <1>4, <3>1, <3>3
      <4> QED
        BY <1>6, <3>1, <4>1
    <3> QED
      BY <3>2, <3>3
  <2>2. Has(queue[Owner[t]], t) /\ Owner[t] \in Daemons
    BY <1>4, <1>6, <2>1, DiscoveryAssumption DEF TrackedIsQueued, Tracked, Queued
  <2>3. CASE Owner[t] = Owner[s]
    BY <1>1, <1>2, <1>4, <2>1, <2>2, <2>3 DEF TypeOK
  <2>4. CASE Owner[t] # Owner[s]
    BY <1>1, <1>4, <2>2, <2>4 DEF TypeOK
  <2> QED
    BY <2>3, <2>4
<1> QED
  BY <1>5, <1>6 DEF TrackedIsQueued, Tracked, Queued

-----------------------------------------------------------------------------
(* The theorems *)

\* Steps of start_session: a call leaves Unqueued only by its push.
LEMMA StartKeepsTracked ==
    ASSUME TypeOK, TrackedIsQueued, NEW s \in Sessions, Start(s)
    PROVE  TypeOK' /\ TrackedIsQueued'
<1> USE DEF TypeOK, StartPc, TrackedIsQueued, Tracked, Queued, Unqueued
<1>1. CASE StartInsert(s)
  BY <1>1 DEF StartInsert, Phase
<1>2. CASE StartCheck(s)
  BY <1>2 DEF StartCheck
<1>3. CASE StartPush(s)
  <2>1. Owner[s] \in Daemons /\ queue[Owner[s]] \in Seq(Sessions)
    BY DiscoveryAssumption
  <2>2. /\ Push(queue[Owner[s]], s) \in Seq(Sessions)
        /\ Has(Push(queue[Owner[s]], s), s)
        /\ \A t \in Sessions : Has(queue[Owner[s]], t) => Has(Push(queue[Owner[s]], s), t)
    BY <2>1, PushFacts
  <2>3. TypeOK'
    BY <1>3, <2>1, <2>2 DEF StartPush
  <2>4. ASSUME NEW t \in Sessions, sessions'[t] # "Absent", startPc'[t] \notin Unqueued
        PROVE  Has(queue'[Owner[t]], t)
    <3>1. Owner[t] \in Daemons
      BY DiscoveryAssumption
    <3>2. CASE t = s
      BY <1>3, <2>1, <2>2, <3>2 DEF StartPush
    <3>3. CASE t # s
      <4>1. Has(queue[Owner[t]], t)
        BY <1>3, <2>4, <3>3 DEF StartPush
      <4> QED
        BY <1>3, <2>1, <2>2, <3>1, <4>1 DEF StartPush
    <3> QED
      BY <3>2, <3>3
  <2> QED
    BY <2>3, <2>4
<1>4. CASE StartSendDone(s)
  BY <1>4 DEF StartSendDone
<1>5. CASE StartDropped(s)
  BY <1>5 DEF StartDropped
<1> QED
  BY <1>1, <1>2, <1>3, <1>4, <1>5 DEF Start

\* Reports of daemons, whatever they say.
LEMMA UpdateKeepsTracked ==
    ASSUME TypeOK, TrackedIsQueued, NEW s \in Sessions, Update(s)
    PROVE  TypeOK' /\ TrackedIsQueued'
<1>1. ASSUME NEW p \in Reported, UpdateProgress(s, p)
      PROVE  TypeOK' /\ TrackedIsQueued'
  <2>1. p \in Phase
    BY DEF Phase
  <2> QED
    BY <1>1, <2>1, FillKeepsTracked DEF UpdateProgress, TypeOK
<1>2. ASSUME NEW p \in Reported, NEW saved \in BOOLEAN, UpdateTerminal(s, p, saved)
      PROVE  TypeOK' /\ TrackedIsQueued'
  BY <1>2, TerminalKeepsTracked
<1>3. ASSUME NEW p \in Reported, NEW saved \in BOOLEAN, UpdateDropped(s, p, saved)
      PROVE  TypeOK' /\ TrackedIsQueued'
  <2>1. p \in Phase
    BY DEF Phase
  <2>2. TrackedIsQueued' /\ sessions' \in [Sessions -> Phase] /\ queue' \in [Daemons -> Seq(Sessions)]
    BY <1>3, <2>1, FillKeepsTracked DEF UpdateDropped
  <2>3. Owner[s] \in Daemons
    BY DiscoveryAssumption
  <2> QED
    BY <1>3, <2>2, <2>3 DEF UpdateDropped, Record, TypeOK
<1> QED
  BY <1>1, <1>2, <1>3 DEF Update

\* cancel_session, between whatever it read and whatever it finds.
LEMMA CancelKeepsTracked ==
    ASSUME TypeOK, TrackedIsQueued, NEW s \in Sessions, Cancel(s)
    PROVE  TypeOK' /\ TrackedIsQueued'
<1>1. CASE CancelRead(s) \/ CancelDropped(s) \/ CancelFlag(s) \/ \E ok \in BOOLEAN : CancelSent(s, ok)
  <2>1. TypeOK'
    <3> USE DEF TypeOK, CancelPc
    <3>1. CASE CancelRead(s)
      BY <3>1 DEF CancelRead
    <3>2. CASE CancelDropped(s)
      BY <3>2 DEF CancelDropped
    <3>3. CASE CancelFlag(s)
      BY <3>3, DiscoveryAssumption DEF CancelFlag
    <3>4. ASSUME NEW ok \in BOOLEAN, CancelSent(s, ok)
          PROVE  TypeOK'
      BY <3>4 DEF CancelSent
    <3> QED
      BY <1>1, <3>1, <3>2, <3>3, <3>4
  <2>2. UNCHANGED <<sessions, queue, startPc>>
    BY <1>1 DEF CancelRead, CancelDropped, CancelFlag, CancelSent
  <2> QED
    BY <2>1, <2>2 DEF TrackedIsQueued, Tracked, Queued
<1>2. CASE CancelPending(s)
  BY <1>2, DropKeepsTracked DEF CancelPending, TypeOK, CancelPc
<1>3. ASSUME NEW saved \in BOOLEAN, CancelUnreachable(s, saved)
      PROVE  TypeOK' /\ TrackedIsQueued'
  <2>1. CASE sessions[s] = "Absent"
    BY <1>3, <2>1 DEF CancelUnreachable, TypeOK, CancelPc, TrackedIsQueued, Tracked, Queued
  <2>2. CASE sessions[s] # "Absent"
    BY <1>3, <2>2, DropKeepsTracked DEF CancelUnreachable, Record, TypeOK, CancelPc
  <2> QED
    BY <2>1, <2>2
<1> QED
  BY <1>1, <1>2, <1>3 DEF Cancel

\* The background clean-ups.
LEMMA CleanupKeepsTracked ==
    ASSUME TypeOK, TrackedIsQueued, NEW s \in Sessions, Cleanup(s)
    PROVE  TypeOK' /\ TrackedIsQueued'
<1>1. Owner[s] \in Daemons
  BY DiscoveryAssumption
<1>2. ASSUME NEW saved \in BOOLEAN, CleanupStalled(s, saved)
      PROVE  TypeOK' /\ TrackedIsQueued'
  BY <1>1, <1>2, DropKeepsTracked DEF CleanupStalled, Record, TypeOK
<1>3. CASE CleanupOld(s)
  BY <1>1, <1>3, DropKeepsTracked DEF CleanupOld, TypeOK
<1> QED
  BY <1>2, <1>3 DEF Cleanup

\* Every step of the service.
LEMMA ServiceStep ==
    ASSUME TypeOK, TrackedIsQueued, [Next]_vars
    PROVE  TypeOK' /\ TrackedIsQueued'
<1>1. ASSUME NEW s \in Sessions, Start(s) \/ Update(s) \/ Cancel(s) \/ Cleanup(s)
      PROVE  TypeOK' /\ TrackedIsQueued'
  BY <1>1, StartKeepsTracked, UpdateKeepsTracked, CancelKeepsTracked, CleanupKeepsTracked
<1>2. ASSUME NEW d \in Daemons, TakeCancellation(d)
      PROVE  TypeOK' /\ TrackedIsQueued'
  BY <1>2 DEF TakeCancellation, TypeOK, TrackedIsQueued, Tracked, Queued
<1>3. CASE UpdateSendDone
  BY <1>3 DEF UpdateSendDone, TypeOK, TrackedIsQueued, Tracked, Queued
<1>4. CASE ServerRestart
  BY <1>4 DEF ServerRestart, TypeOK, Phase, StartPc, CancelPc, TrackedIsQueued, Tracked
<1>5. ASSUME NEW d \in Daemons, NEW m \in {"Push", "Pull"}, Heartbeat(d, m)
      PROVE  TypeOK' /\ TrackedIsQueued'
  BY <1>5 DEF Heartbeat, TypeOK, TrackedIsQueued, Tracked, Queued
<1>6. CASE UNCHANGED vars
  BY <1>6 DEF vars, TypeOK, TrackedIsQueued, Tracked, Queued
<1> QED
  BY <1>1, <1>2, <1>3, <1>4, <1>5, <1>6 DEF Next

\* A service that has just started.
LEMMA ServiceStarts == Init => TypeOK /\ TrackedIsQueued
<1> SUFFICES ASSUME Init PROVE TypeOK /\ TrackedIsQueued
  OBVIOUS
<1>1. mode \in [Daemons -> {"Push", "Pull"}]
  BY DiscoveryAssumption DEF Init
<1>2. TypeOK
  BY <1>1 DEF Init, TypeOK, Phase, StartPc, CancelPc
<1>3. TrackedIsQueued
  BY DEF Init, TrackedIsQueued, Tracked
<1> QED
  BY <1>2, <1>3

\* The server's state keeps its types, and every tracked session whose start is
\* past the push stays in its daemon's queue: for any number of sessions and
\* daemons, any reports and any interleaving of the operations.
THEOREM ServiceInvariant == Spec => [](TypeOK /\ TrackedIsQueued)
  BY ServiceStarts, ServiceStep, PTL DEF Spec

-----------------------------------------------------------------------------
(* The inductive invariant of the protocol *)

\* A daemon's queue holds its own sessions.
QueuesAreOwn ==
    \A d \in Daemons, s \in Sessions : Has(queue[d], s) => Owner[s] = d

\* Requests to start a session go to push daemons.
SendsArePush ==
    /\ \A s \in Sessions : startPc[s] = "sending" => mode[Owner[s]] = "Push"
    /\ updSend # NoSession => mode[Owner[updSend]] = "Push"

\* What the reply to a work request brings is a session of the daemon that asked.
RepliesAreOwn ==
    \A d \in Daemons : loop[d].next # NoSession => Owner[loop[d].next] = d

TasksHaveSessions ==
    \A k \in Slots : Alive(k) => task[k].sess \in Sessions

\* A report that is waited for has its task, which has no other in flight.
PostsAreAwaited ==
    /\ \A m \in posts : m.slot # NoSlot => /\ task[m.slot].pc \in Reporting
                                           /\ m.by = task[m.slot].sess
    /\ \A m, n \in posts : m.slot = n.slot /\ m.slot # NoSlot => m = n

\* The last task spawned by a pull daemon is its only one ...
PullTaskIsCurrent ==
    \A k \in Slots : Alive(k) /\ mode[DaemonOf(k)] = "Pull" => current[DaemonOf(k)] = k

\* ... and current_session is that task's from its first step on.
PullTaskIsSession ==
    \A k \in Slots : Alive(k) /\ mode[DaemonOf(k)] = "Pull" /\ task[k].pc # "prep"
                        => curSess[DaemonOf(k)] = task[k].sess

ServerInv == TypeOK /\ TrackedIsQueued /\ QueuesAreOwn /\ SendsArePush

DaemonInv ==
    /\ DaemonTypeOK
    /\ RepliesAreOwn
    /\ TasksHaveSessions
    /\ PostsAreAwaited
    /\ PullTaskIsCurrent
    /\ PullTaskIsSession
    /\ ReportsAreOwn

ProtocolInv == ServerInv /\ DaemonInv /\ faults \in 0..MaxFaults

-----------------------------------------------------------------------------
(* The server's side *)

\* A push adds no other session to a queue, and retain adds none.
LEMMA QueueOrigins ==
    ASSUME NEW S, NEW q \in Seq(S), NEW s \in S, NEW t \in S
    PROVE  /\ Has(Push(q, s), t) => Has(q, t) \/ t = s
           /\ Has(Retain(q, s), t) => Has(q, t)
<1>1. ASSUME Has(Push(q, s), t), ~Has(q, s)
      PROVE  Has(q, t) \/ t = s
  <2>1. PICK i \in 1..Len(Append(q, s)) : Append(q, s)[i] = t
    BY <1>1 DEF Push, Has
  <2>2. Len(Append(q, s)) = Len(q) + 1 /\ Append(q, s)[Len(q) + 1] = s
    OBVIOUS
  <2>3. CASE i \in 1..Len(q)
    BY <2>1, <2>3 DEF Has
  <2> QED
    BY <2>1, <2>2, <2>3
<1>2. ASSUME Has(Retain(q, s), t), Has(q, s)
      PROVE  Has(q, t)
  <2> DEFINE p == Position(q, s)
             r == [i \in 1..(Len(q) - 1) |-> IF i < p THEN q[i] ELSE q[i + 1]]
  <2>1. Retain(q, s) = r
    BY <1>2 DEF Retain
  <2> HIDE DEF p
  <2>2. Len(r) = Len(q) - 1
    <3>1. Len(q) # 0
      BY <1>2 DEF Has
    <3> QED
      BY <3>1
  <2>3. PICK i \in 1..(Len(q) - 1) : r[i] = t
    BY <1>2, <2>1, <2>2 DEF Has
  <2>4. q[i] = t \/ q[i + 1] = t
    BY <2>3
  <2>5. i \in 1..Len(q) /\ i + 1 \in 1..Len(q)
    BY <2>3
  <2> QED
    BY <2>4, <2>5 DEF Has
<1>3. (Has(q, s) => Push(q, s) = q) /\ (~Has(q, s) => Retain(q, s) = q)
  BY DEF Push, Retain
<1> QED
  BY <1>1, <1>2, <1>3

\* A session enters the queue of its own daemon only.
LEMMA QueuesStayOwn ==
    ASSUME TypeOK, QueuesAreOwn, [Next]_vars
    PROVE  /\ QueuesAreOwn'
           /\ \A s \in Sessions, t \in Sessions :
                Has(Retain(QueueWith(s), s), t) => Owner[t] = Owner[s]
<1>0. \A s \in Sessions : Owner[s] \in Daemons /\ queue[Owner[s]] \in Seq(Sessions)
  BY DiscoveryAssumption DEF TypeOK
<1>1. ASSUME NEW s \in Sessions, NEW t \in Sessions
      PROVE  /\ QueueWith(s) \in Seq(Sessions)
             /\ Has(Push(queue[Owner[s]], s), t) => Owner[t] = Owner[s]
             /\ Has(Retain(queue[Owner[s]], s), t) => Owner[t] = Owner[s]
             /\ Has(QueueWith(s), t) => Owner[t] = Owner[s]
             /\ Has(Retain(QueueWith(s), s), t) => Owner[t] = Owner[s]
  <2>1. /\ Has(Push(queue[Owner[s]], s), t) => Owner[t] = Owner[s]
        /\ Has(Retain(queue[Owner[s]], s), t) => Owner[t] = Owner[s]
    BY <1>0, QueueOrigins DEF QueuesAreOwn
  <2>2. QueueWith(s) \in Seq(Sessions) /\ (Has(QueueWith(s), t) => Owner[t] = Owner[s])
    BY <1>0, <2>1, PushFacts DEF QueueWith, QueuesAreOwn
  <2> QED
    BY <2>1, <2>2, QueueOrigins
<1> DEFINE New(s) == {Push(queue[Owner[s]], s), Retain(queue[Owner[s]], s),
                      QueueWith(s), Retain(QueueWith(s), s)}
<1>2. \/ queue' = queue
      \/ queue' = [d \in Daemons |-> <<>>]
      \/ \E s \in Sessions : \E q \in New(s) : queue' = [queue EXCEPT ![Owner[s]] = q]
  <2>1. ASSUME NEW s \in Sessions, Start(s) \/ Update(s) \/ Cancel(s) \/ Cleanup(s)
        PROVE  \/ queue' = queue
               \/ \E q \in New(s) : queue' = [queue EXCEPT ![Owner[s]] = q]
    <3>1. CASE Start(s)
      BY <3>1 DEF Start, StartInsert, StartCheck, StartPush, StartSendDone, StartDropped
    <3>2. CASE Update(s)
      BY <3>2 DEF Update, UpdateProgress, UpdateTerminal, UpdateDropped
    <3>3. CASE Cancel(s)
      BY <3>3 DEF Cancel, CancelRead, CancelPending, CancelFlag, CancelSent, CancelUnreachable,
                  CancelDropped
    <3>4. CASE Cleanup(s)
      BY <3>4 DEF Cleanup, CleanupStalled, CleanupOld
    <3> QED
      BY <2>1, <3>1, <3>2, <3>3, <3>4
  <2>2. CASE ~ \E s \in Sessions : Start(s) \/ Update(s) \/ Cancel(s) \/ Cleanup(s)
    BY <2>2 DEF Next, vars, TakeCancellation, Heartbeat, UpdateSendDone, ServerRestart
  <2> QED
    BY <2>1, <2>2
<1>3. CASE queue' = queue
  BY <1>1, <1>3 DEF QueuesAreOwn
<1>4. CASE queue' = [d \in Daemons |-> <<>>]
  BY <1>1, <1>4 DEF QueuesAreOwn, Has
<1>5. ASSUME NEW s \in Sessions, NEW q \in New(s), queue' = [queue EXCEPT ![Owner[s]] = q]
      PROVE  QueuesAreOwn'
  <2>1. \A t \in Sessions : Has(q, t) => Owner[t] = Owner[s]
    BY <1>1
  <2> SUFFICES ASSUME NEW d \in Daemons, NEW t \in Sessions, Has(queue'[d], t)
               PROVE  Owner[t] = d
    BY DEF QueuesAreOwn
  <2>2. queue'[d] = IF d = Owner[s] THEN q ELSE queue[d]
    BY <1>0, <1>5 DEF TypeOK
  <2> QED
    BY <2>1, <2>2 DEF QueuesAreOwn
<1> QED
  BY <1>1, <1>2, <1>3, <1>4, <1>5

\* Whom the server sends to: start_session and update_session look at the mode
\* of the daemon whose queue the session is in.
LEMMA SendsStayPush ==
    ASSUME TypeOK, QueuesAreOwn, SendsArePush, [Next]_vars, mode' = mode
    PROVE  SendsArePush'
<1>1. ASSUME NEW s \in Sessions, Start(s)
      PROVE  SendsArePush'
  BY <1>1 DEF Start, StartInsert, StartCheck, StartPush, StartSendDone, StartDropped,
              SendsArePush, TypeOK
<1>2. ASSUME NEW s \in Sessions, NEW p \in Reported, NEW saved \in BOOLEAN,
             UpdateTerminal(s, p, saved)
      PROVE  SendsArePush'
  <2> DEFINE rest == Retain(QueueWith(s), s)
             next == NextInQueue(rest)
  <2>1. startPc' = startPc /\ updSend' = IF mode[Owner[s]] = "Push" THEN next ELSE NoSession
    BY <1>2 DEF UpdateTerminal
  <2>2. rest \in Seq(Sessions)
    <3>1. Owner[s] \in Daemons /\ queue[Owner[s]] \in Seq(Sessions)
      BY DiscoveryAssumption DEF TypeOK
    <3>2. QueueWith(s) \in Seq(Sessions)
      BY <3>1, PushFacts DEF QueueWith
    <3> QED
      BY <3>2, RetainFacts
  <2>3. next # NoSession => next \in Sessions /\ Has(rest, next)
    <3> SUFFICES ASSUME next # NoSession
                 PROVE  next \in Sessions /\ Has(rest, next)
      OBVIOUS
    <3>1. rest # <<>> /\ next = Head(rest)
      BY DEF NextInQueue
    <3> HIDE DEF rest, next
    <3>2. 1 \in 1..Len(rest) /\ rest[1] = next /\ next \in Sessions
      BY <2>2, <3>1
    <3> QED
      BY <3>2 DEF Has
  <2>4. next # NoSession => Owner[next] = Owner[s]
    BY <2>3, QueuesStayOwn
  <2> HIDE DEF next
  <2> QED
    BY <2>1, <2>4 DEF SendsArePush
<1>3. ASSUME NEW s \in Sessions, Update(s) \/ Cancel(s) \/ Cleanup(s)
      PROVE  SendsArePush'
  <2>1. ASSUME UNCHANGED <<startPc, updSend>>
        PROVE  SendsArePush'
    BY <2>1 DEF SendsArePush
  <2>2. CASE Update(s)
    BY <1>2, <2>1, <2>2 DEF Update, UpdateProgress, UpdateDropped
  <2>3. CASE Cancel(s)
    BY <2>1, <2>3 DEF Cancel, CancelRead, CancelPending, CancelFlag, CancelSent, CancelUnreachable,
                CancelDropped
  <2>4. CASE Cleanup(s)
    BY <2>1, <2>4 DEF Cleanup, CleanupStalled, CleanupOld
  <2> QED
    BY <1>3, <2>2, <2>3, <2>4
<1>4. CASE ServerRestart
  BY <1>4 DEF ServerRestart, SendsArePush
<1>5. CASE \/ UNCHANGED vars \/ UpdateSendDone
           \/ \E d \in Daemons : TakeCancellation(d) \/ \E m \in {"Push", "Pull"} : Heartbeat(d, m)
  BY <1>5 DEF vars, TakeCancellation, Heartbeat, UpdateSendDone, SendsArePush
<1> QED
  BY <1>1, <1>3, <1>4, <1>5 DEF Next

-----------------------------------------------------------------------------
(* The protocol implements the service *)

\* What a step of the protocol does to the server is a step the service may
\* take, and no step changes the mode of a daemon.
LEMMA StepOfService ==
    ASSUME DaemonTypeOK, ProtocolNext
    PROVE  [Next]_vars /\ mode' = mode
<1>1. ASSUME NEW s \in Sessions, UserAsks(s) \/ ServerStep(s) \/ ServerStall(s)
      PROVE  Next /\ mode' = mode
  <2>1. Start(s) \/ Cancel(s) \/ Cleanup(s)
    BY <1>1 DEF UserAsks, ServerStep, ServerStall, Start, Cancel, Cleanup
  <2>2. mode' = mode
    BY <1>1 DEF UserAsks, ServerStep, ServerStall, StartInsert, CancelRead, StartCheck, StartPush,
                CancelPending, CancelFlag, CancelUnreachable, CleanupOld, CleanupStalled
  <2> QED
    BY <2>1, <2>2 DEF Next
<1>2. ASSUME NEW s \in Sessions, DaemonInitiates(s)
      PROVE  Next /\ mode' = mode
  <2>1. Start(s) \/ UpdateSendDone
    BY <1>2 DEF DaemonInitiates, Start
  <2>2. mode' = mode
    BY <1>2 DEF DaemonInitiates, StartSendDone, UpdateSendDone
  <2> QED
    BY <2>1, <2>2 DEF Next
<1>3. ASSUME NEW s \in Sessions, DaemonCancels(s)
      PROVE  Next /\ mode' = mode
  <2>1. PICK ok \in BOOLEAN : CancelSent(s, ok)
    <3>1. Running(Owner[s]) \in BOOLEAN
      BY DEF Running
    <3>2. CancelSent(s, Running(Owner[s]))
      BY <1>3 DEF DaemonCancels
    <3> QED
      BY <3>1, <3>2, Zenon
  <2>2. Cancel(s)
    BY <2>1 DEF Cancel
  <2>3. mode' = mode
    BY <2>1 DEF CancelSent
  <2> QED
    BY <2>2, <2>3 DEF Next
<1>4. ASSUME NEW m \in posts, ReceiveUpdate(m)
      PROVE  Next /\ mode' = mode
  <2>1. m.sess \in Sessions /\ m.phase \in Reported
    BY DEF DaemonTypeOK, Post
  <2>2. Update(m.sess)
    BY <1>4, <2>1 DEF ReceiveUpdate, Update
  <2>3. mode' = mode
    BY <1>4 DEF ReceiveUpdate, UpdateProgress, UpdateTerminal, UpdateDropped
  <2> QED
    BY <2>1, <2>2, <2>3 DEF Next
<1>5. ASSUME NEW d \in Daemons, WorkRead(d) \/ WorkTake(d) \/ WorkAct(d)
      PROVE  [Next]_vars /\ mode' = mode
  <2>1. UNCHANGED vars \/ TakeCancellation(d)
    BY <1>5 DEF WorkRead, WorkTake, WorkAct, serverVars
  <2> QED
    BY <2>1 DEF Next, TakeCancellation, vars
<1>6. CASE DaemonFault \/ \E k \in Slots : TaskRuns(k)
  <2>1. UNCHANGED vars
    BY <1>6 DEF DaemonFault, TaskRuns, serverVars
  <2> QED
    BY <2>1 DEF vars
<1>7. CASE ServerFault
  <2>1. CASE UpdateSendDone
    BY <2>1 DEF Next, UpdateSendDone
  <2>2. ASSUME NEW s \in Sessions,
               \/ StartDropped(s) \/ StartSendDone(s)
               \/ CancelDropped(s) \/ CancelUnreachable(s, FALSE) \/ CancelSent(s, FALSE)
               \/ CleanupStalled(s, FALSE)
        PROVE  Next /\ mode' = mode
    <3>1. Start(s) \/ Cancel(s) \/ Cleanup(s)
      BY <2>2 DEF Start, Cancel, Cleanup
    <3>2. mode' = mode
      BY <2>2 DEF StartDropped, CancelDropped, CancelUnreachable, CleanupStalled, StartSendDone,
                  CancelSent
    <3> QED
      BY <3>1, <3>2 DEF Next
  <2> QED
    BY <1>7, <2>1, <2>2 DEF ServerFault
<1>8. CASE ServerCrash
  BY <1>8 DEF ServerCrash, ServerRestart, Next
<1> QED
  BY <1>1, <1>2, <1>3, <1>4, <1>5, <1>6, <1>7, <1>8 DEF ProtocolNext

\* The server's part of the invariant.
LEMMA ServerKeepsInv ==
    ASSUME ServerInv, DaemonTypeOK, ProtocolNext
    PROVE  ServerInv' /\ mode' = mode
  BY StepOfService, ServiceStep, QueuesStayOwn, SendsStayPush DEF ServerInv

-----------------------------------------------------------------------------
(* The daemons' side.  A step frees tasks, moves tasks that were alive, or *)
(* spawns one; the two lemmas say what is left to show of the first two.   *)

\* Tasks that are still alive have their session and, at a pull daemon, are the
\* current task and the current session.
LEMMA TasksMove ==
    ASSUME DaemonInv, mode' = mode,
           \A j \in Slots : task'[j].pc # "free" =>
              /\ Alive(j) /\ task'[j].sess = task[j].sess
              /\ current'[DaemonOf(j)] = current[DaemonOf(j)]
              /\ mode[DaemonOf(j)] = "Pull" /\ task'[j].pc # "prep" =>
                   curSess'[DaemonOf(j)] = task[j].sess
    PROVE  TasksHaveSessions' /\ PullTaskIsCurrent' /\ PullTaskIsSession'
<1> USE DEF DaemonInv, Alive, DaemonOf
<1>1. TasksHaveSessions'
  BY DEF TasksHaveSessions
<1>2. PullTaskIsCurrent'
  BY DEF PullTaskIsCurrent
<1>3. PullTaskIsSession'
  BY DEF PullTaskIsSession
<1> QED
  BY <1>1, <1>2, <1>3

\* No report is new, those of the tasks in K are answered or abandoned, and the
\* other tasks stand where they were.
LEMMA PostsMove ==
    ASSUME DaemonInv, mode' = mode, NEW K,
           \A j \in Slots \ K : task'[j].pc = task[j].pc /\ task'[j].sess = task[j].sess,
           \A n \in posts' : (n \in posts /\ n.slot \notin K) \/ \E m \in posts : n = Abandon(m)
    PROVE  posts' \subseteq Post /\ PostsAreAwaited' /\ ReportsAreOwn'
<1>0. posts \subseteq Post
  BY DEF DaemonInv, DaemonTypeOK
<1>1. ASSUME NEW m \in posts
      PROVE  /\ Abandon(m) \in Post /\ Abandon(m).slot = NoSlot
             /\ Abandon(m).by = m.by /\ Abandon(m).sess = m.sess
  BY <1>0 DEF Abandon, Post
<1>2. \A n \in posts' : \/ n \in posts /\ n.slot \notin K
                        \/ /\ n \in Post /\ n.slot = NoSlot
                           /\ \E m \in posts : n.by = m.by /\ n.sess = m.sess
  BY <1>1
<1>3. posts' \subseteq Post
  BY <1>0, <1>2
<1>4. ReportsAreOwn'
  BY <1>2 DEF DaemonInv, ReportsAreOwn
<1>5. PostsAreAwaited'
  <2>1. \A n \in posts' : n.slot # NoSlot => n \in posts /\ n.slot \in Slots \ K
    BY <1>0, <1>2 DEF Post
  <2> QED
    BY <2>1 DEF DaemonInv, PostsAreAwaited
<1> QED
  BY <1>3, <1>4, <1>5

\* A pull daemon has no second task.
LEMMA OneOfPull ==
    ASSUME DaemonInv, NEW j \in Slots, NEW k \in Slots, Alive(j), Alive(k),
           DaemonOf(j) = DaemonOf(k), mode[DaemonOf(k)] = "Pull"
    PROVE  j = k
  BY DEF DaemonInv, PullTaskIsCurrent

\* The session and the daemon of a task.
LEMMA TaskFacts ==
    ASSUME DaemonInv, NEW k \in Slots, Alive(k)
    PROVE  /\ task[k] \in Task /\ task[k].sess \in Sessions
           /\ DaemonOf(k) \in Daemons
           /\ Kind[task[k].sess] \in {"Network", "Docker", "SelfReport"}
  BY DiscoveryAssumption, DaemonAssumption
     DEF DaemonInv, DaemonTypeOK, TasksHaveSessions, DaemonOf

\* A task that makes a local step, or ends, without a report in flight.
LEMMA LocalStep ==
    ASSUME DaemonInv, mode' = mode, NEW k \in Slots, Alive(k), ~Outstanding(k),
           UNCHANGED <<current, curSess, posts, loop>>,
           \/ End(k)
           \/ task[k].pc # "prep" /\ \E pc \in Working \cup Reporting : pc # "prep" /\ Step(k, pc)
    PROVE  DaemonInv'
<1>0. task[k] \in Task /\ task \in [Slots -> Task] /\ posts \subseteq Post
  BY TaskFacts DEF DaemonInv, DaemonTypeOK
<1>1. /\ task' \in [Slots -> Task]
      /\ task'[k].pc # "free" => /\ task'[k].sess = task[k].sess /\ task[k].pc # "prep"
      /\ \A j \in Slots \ {k} : task'[j] = task[j]
  <2>1. CASE End(k)
    <3>1. FreeTask \in Task /\ FreeTask.pc = "free"
      BY DEF FreeTask, Task
    <3> QED
      BY <1>0, <2>1, <3>1 DEF End
  <2>2. ASSUME task[k].pc # "prep", NEW pc \in Working \cup Reporting, Step(k, pc)
        PROVE  <1>1!:
    BY <1>0, <2>2 DEF Step, Task
  <2> QED
    BY <2>1, <2>2
<1>2. TasksHaveSessions' /\ PullTaskIsCurrent' /\ PullTaskIsSession'
  BY <1>1, TasksMove DEF DaemonInv, PullTaskIsSession, Alive
<1>3. posts' \subseteq Post /\ PostsAreAwaited' /\ ReportsAreOwn'
  <2>1. \A n \in posts' : n \in posts /\ n.slot \notin {k}
    BY DEF Outstanding
  <2> QED
    BY <1>1, <2>1, PostsMove
<1> QED
  BY <1>1, <1>2, <1>3 DEF DaemonInv, DaemonTypeOK, RepliesAreOwn

\* The task becomes the current session of its daemon.
LEMMA BeginKeepsInv ==
    ASSUME DaemonInv, mode' = mode, NEW k \in Slots, TaskBegin(k)
    PROVE  DaemonInv'
<1>0. Alive(k) /\ task \in [Slots -> Task] /\ posts \subseteq Post
  BY DEF TaskBegin, Alive, DaemonInv, DaemonTypeOK
<1>1. /\ task[k] \in Task /\ task[k].sess \in Sessions /\ DaemonOf(k) \in Daemons
      /\ curSess \in [Daemons -> Sessions \cup {NoSession}]
  BY <1>0, TaskFacts DEF DaemonInv, DaemonTypeOK
<1>2. /\ task' \in [Slots -> Task] /\ task'[k].sess = task[k].sess
      /\ \A j \in Slots \ {k} : task'[j] = task[j]
  <2>1. PICK pc \in {"setup", "Started"} : task' = [task EXCEPT ![k].pc = pc]
    BY DEF TaskBegin, Step
  <2> QED
    BY <1>0, <1>1, <2>1 DEF Task, Working, Reporting, Reported, Active
<1>3. /\ UNCHANGED <<current, posts, loop>>
      /\ curSess' = [curSess EXCEPT ![DaemonOf(k)] = task[k].sess]
  BY DEF TaskBegin
<1>4. TasksHaveSessions' /\ PullTaskIsCurrent' /\ PullTaskIsSession'
  <2>1. ASSUME NEW j \in Slots, task'[j].pc # "free", mode[DaemonOf(j)] = "Pull",
               task'[j].pc # "prep"
        PROVE  curSess'[DaemonOf(j)] = task[j].sess
    <3>1. CASE j = k
      BY <1>1, <1>3, <3>1
    <3>2. CASE j # k
      <4>1. Alive(j) /\ task[j].pc # "prep"
        BY <1>2, <2>1, <3>2 DEF Alive
      <4>2. DaemonOf(j) # DaemonOf(k)
        BY <1>0, <2>1, <3>2, <4>1, OneOfPull
      <4>3. DaemonOf(j) \in Daemons
        BY <4>1, TaskFacts
      <4>4. curSess'[DaemonOf(j)] = curSess[DaemonOf(j)]
        BY <1>1, <1>3, <4>2, <4>3
      <4> QED
        BY <2>1, <4>1, <4>4 DEF DaemonInv, PullTaskIsSession
    <3> QED
      BY <3>1, <3>2
  <2> QED
    BY <1>0, <1>2, <1>3, <2>1, TasksMove DEF Alive
<1>5. posts' \subseteq Post /\ PostsAreAwaited' /\ ReportsAreOwn'
  <2>1. \A n \in posts : n.slot \notin {k}
    <3>1. task[k].pc \notin Reporting
      BY DEF TaskBegin, Reporting, Reported, Active, Terminal
    <3> QED
      BY <1>0, <3>1, DaemonAssumption DEF DaemonInv, PostsAreAwaited
  <2> QED
    BY <1>2, <1>3, <2>1, PostsMove
<1>6. curSess' \in [Daemons -> Sessions \cup {NoSession}]
  BY <1>1, <1>3
<1> QED
  BY <1>2, <1>3, <1>4, <1>5, <1>6 DEF DaemonInv, DaemonTypeOK, RepliesAreOwn

\* The task reports as the current session of its daemon, which is its own if
\* the daemon pulls.
LEMMA ReportKeepsInv ==
    ASSUME DaemonInv, mode' = mode, NEW k \in Slots, TaskReport(k)
    PROVE  DaemonInv'
<1> DEFINE d == DaemonOf(k)
           phase == IF task[k].pc = "Half" THEN "Scanning" ELSE task[k].pc
           n == [slot |-> k, sess |-> curSess[d], by |-> task[k].sess, phase |-> phase]
<1>0. Alive(k) /\ task \in [Slots -> Task] /\ posts \subseteq Post
  BY DEF TaskReport, Alive, Reporting, Reported, Active, Terminal, DaemonInv, DaemonTypeOK
<1>1. /\ task[k] \in Task /\ task[k].sess \in Sessions /\ d \in Daemons
      /\ curSess \in [Daemons -> Sessions \cup {NoSession}]
  BY <1>0, TaskFacts DEF DaemonInv, DaemonTypeOK
<1>2. /\ task[k].pc \in Reporting /\ task[k].pc # "prep" /\ ~Outstanding(k)
      /\ curSess[d] \in Sessions /\ phase \in Reported
  BY <1>1 DEF TaskReport, Reporting, Reported, Active, Terminal
<1>3. posts' = posts \cup {n} /\ UNCHANGED <<current, curSess, loop>>
  BY DEF TaskReport
<1>4. /\ task' \in [Slots -> Task]
      /\ \A j \in Slots : task'[j].pc = task[j].pc /\ task'[j].sess = task[j].sess
  <2>1. task' = task \/ task' = [task EXCEPT ![k].fin = curSess[d]]
    BY DEF TaskReport
  <2> QED
    BY <1>0, <1>1, <1>2, <2>1 DEF Task
<1>5. TasksHaveSessions' /\ PullTaskIsCurrent' /\ PullTaskIsSession'
  BY <1>3, <1>4, TasksMove DEF DaemonInv, PullTaskIsSession, Alive
<1>6. n \in Post /\ n.slot = k /\ n.by = task[k].sess /\ n.sess = curSess[d]
  BY <1>1, <1>2 DEF Post
<1> HIDE DEF n, phase
<1>7. PostsAreAwaited'
  <2>1. \A m \in posts : m.slot # k /\ (m.slot # NoSlot => m.slot \in Slots)
    BY <1>0, <1>2 DEF Outstanding, Post
  <2>2. \A m \in posts' : m.slot # NoSlot => /\ task'[m.slot].pc \in Reporting
                                             /\ m.by = task'[m.slot].sess
    BY <1>2, <1>3, <1>4, <1>6, <2>1 DEF DaemonInv, PostsAreAwaited
  <2>3. \A m, o \in posts' : m.slot = o.slot /\ m.slot # NoSlot => m = o
    BY <1>3, <1>6, <2>1 DEF DaemonInv, PostsAreAwaited
  <2> QED
    BY <2>2, <2>3 DEF PostsAreAwaited
<1>8. mode[Owner[n.by]] = "Pull" => n.sess = n.by
  BY <1>0, <1>2, <1>6 DEF DaemonInv, PullTaskIsSession, DaemonOf
<1>9. ReportsAreOwn'
  BY <1>3, <1>8 DEF DaemonInv, ReportsAreOwn
<1> QED
  BY <1>0, <1>3, <1>4, <1>5, <1>6, <1>7, <1>9 DEF DaemonInv, DaemonTypeOK, RepliesAreOwn

\* The task ends and takes its session with it, if it is still the current one.
LEMMA ClearKeepsInv ==
    ASSUME DaemonInv, mode' = mode, NEW k \in Slots, TaskClear(k)
    PROVE  DaemonInv'
<1> DEFINE d == DaemonOf(k)
<1>0. Alive(k) /\ task \in [Slots -> Task] /\ posts \subseteq Post
  BY DEF TaskClear, Alive, DaemonInv, DaemonTypeOK
<1>1. d \in Daemons /\ curSess \in [Daemons -> Sessions \cup {NoSession}]
  BY <1>0, TaskFacts DEF DaemonInv, DaemonTypeOK
<1>2. /\ task' \in [Slots -> Task] /\ task'[k].pc = "free"
      /\ \A j \in Slots \ {k} : task'[j] = task[j]
  <2>1. FreeTask \in Task /\ FreeTask.pc = "free"
    BY DEF FreeTask, Task
  <2> QED
    BY <1>0, <2>1 DEF TaskClear, End
<1>3. /\ UNCHANGED <<current, posts, loop>>
      /\ curSess' = [curSess EXCEPT ![d] = IF @ = task[k].fin THEN NoSession ELSE @]
  BY DEF TaskClear
<1>4. TasksHaveSessions' /\ PullTaskIsCurrent' /\ PullTaskIsSession'
  <2>1. ASSUME NEW j \in Slots, task'[j].pc # "free", mode[DaemonOf(j)] = "Pull",
               task'[j].pc # "prep"
        PROVE  curSess'[DaemonOf(j)] = task[j].sess
    <3>1. j # k /\ Alive(j) /\ task[j].pc # "prep"
      BY <1>2, <2>1 DEF Alive
    <3>2. DaemonOf(j) # d
      BY <1>0, <2>1, <3>1, OneOfPull
    <3>3. DaemonOf(j) \in Daemons
      BY <3>1, TaskFacts
    <3>4. curSess'[DaemonOf(j)] = curSess[DaemonOf(j)]
      BY <1>1, <1>3, <3>2, <3>3
    <3> QED
      BY <2>1, <3>1, <3>4 DEF DaemonInv, PullTaskIsSession
  <2> QED
    BY <1>0, <1>2, <1>3, <2>1, TasksMove DEF Alive
<1>5. posts' \subseteq Post /\ PostsAreAwaited' /\ ReportsAreOwn'
  <2>1. \A n \in posts : n.slot \notin {k}
    <3>1. task[k].pc \notin Reporting
      BY DEF TaskClear, Reporting, Reported, Active, Terminal
    <3> QED
      BY <1>0, <3>1, DaemonAssumption DEF DaemonInv, PostsAreAwaited
  <2> QED
    BY <1>2, <1>3, <2>1, PostsMove
<1>6. curSess' \in [Daemons -> Sessions \cup {NoSession}]
  BY <1>1, <1>3
<1> QED
  BY <1>2, <1>3, <1>4, <1>5, <1>6 DEF DaemonInv, DaemonTypeOK, RepliesAreOwn

\* A report is answered, lost or timed out, and the task that waits goes on.
LEMMA ResumeKeepsInv ==
    ASSUME DaemonInv, mode' = mode, NEW m \in posts,
           posts' \subseteq (posts \ {m}) \cup {Abandon(m)},
           IF m.slot = NoSlot THEN UNCHANGED task ELSE Resume(m.slot),
           UNCHANGED <<current, curSess, loop>>
    PROVE  DaemonInv'
<1> DEFINE k == m.slot
<1>0. task \in [Slots -> Task] /\ posts \subseteq Post /\ k \in Slots \cup {NoSlot}
  BY DEF DaemonInv, DaemonTypeOK, Post
<1>1. CASE k = NoSlot
  <2>1. task' = task
    BY <1>1
  <2>2. posts' \subseteq Post /\ PostsAreAwaited' /\ ReportsAreOwn'
    <3> DEFINE K == {}
    <3>1. \A j \in Slots \ K : task'[j].pc = task[j].pc /\ task'[j].sess = task[j].sess
      BY <2>1
    <3>2. \A n \in posts' : (n \in posts /\ n.slot \notin K) \/ \E o \in posts : n = Abandon(o)
      OBVIOUS
    <3> HIDE DEF K
    <3> QED
      BY <3>1, <3>2, PostsMove
  <2> QED
    BY <2>1, <2>2 DEF DaemonInv, DaemonTypeOK, RepliesAreOwn, TasksHaveSessions,
                      PullTaskIsCurrent, PullTaskIsSession, Alive, DaemonOf
<1>2. CASE k # NoSlot
  <2>1. k \in Slots /\ task[k].pc \in Reporting /\ task[k] \in Task
    BY <1>0, <1>2 DEF DaemonInv, PostsAreAwaited
  <2>2. Alive(k) /\ task[k].pc # "prep"
    BY <2>1 DEF Alive, Reporting, Reported, Active, Terminal
  <2>3. End(k) \/ \E pc \in {"setup", "phase1", "phase2", "clear"} : Step(k, pc)
    BY <1>2 DEF Resume
  <2>4. /\ task' \in [Slots -> Task]
        /\ task'[k].pc # "free" => task'[k].sess = task[k].sess
        /\ \A j \in Slots \ {k} : task'[j] = task[j]
    <3>1. CASE End(k)
      <4>1. FreeTask \in Task /\ FreeTask.pc = "free"
        BY DEF FreeTask, Task
      <4> QED
        BY <1>0, <2>1, <3>1, <4>1 DEF End
    <3>2. ASSUME NEW pc \in {"setup", "phase1", "phase2", "clear"}, Step(k, pc)
          PROVE  <2>4!:
      BY <1>0, <2>1, <3>2 DEF Step, Task, Working
    <3> QED
      BY <2>3, <3>1, <3>2
  <2>5. TasksHaveSessions' /\ PullTaskIsCurrent' /\ PullTaskIsSession'
    BY <2>2, <2>4, TasksMove DEF DaemonInv, PullTaskIsSession, Alive
  <2>6. posts' \subseteq Post /\ PostsAreAwaited' /\ ReportsAreOwn'
    <3>1. \A n \in posts \ {m} : n.slot \notin {k}
      BY <1>2 DEF DaemonInv, PostsAreAwaited
    <3> QED
      BY <2>4, <3>1, PostsMove
  <2> QED
    BY <2>4, <2>5, <2>6 DEF DaemonInv, DaemonTypeOK, RepliesAreOwn
<1> QED
  BY <1>1, <1>2

\* A task is spawned: by a request to a push daemon, or by the loop of a pull
\* daemon that has found nothing running.
LEMMA InitiateKeepsInv ==
    ASSUME DaemonInv, mode' = mode, NEW s \in Sessions, NEW k \in Slots, Initiate(s, k),
           mode[Owner[s]] = "Pull" => ~Running(Owner[s]),
           UNCHANGED <<curSess, posts>>, loop' \in [Daemons -> Loop], RepliesAreOwn'
    PROVE  DaemonInv'
<1>0. /\ task \in [Slots -> Task] /\ posts \subseteq Post /\ Owner[s] \in Daemons
      /\ current \in [Daemons -> Slots \cup {NoSlot}]
  BY DiscoveryAssumption DEF DaemonInv, DaemonTypeOK
<1>1. /\ ~Alive(k)
      /\ task' = [task EXCEPT ![k] = [FreeTask EXCEPT !.sess = s, !.pc = "prep"]]
      /\ current' = [current EXCEPT ![Owner[s]] = k]
  BY DEF Initiate
<1>2. /\ task' \in [Slots -> Task] /\ task'[k].sess = s /\ task'[k].pc = "prep"
      /\ \A j \in Slots \ {k} : task'[j] = task[j]
  <2> DEFINE t == [FreeTask EXCEPT !.sess = s, !.pc = "prep"]
  <2>1. t \in Task /\ t.sess = s /\ t.pc = "prep"
    BY DEF FreeTask, Task, Working
  <2> HIDE DEF t
  <2>2. task' = [task EXCEPT ![k] = t]
    BY <1>1 DEF t
  <2> QED
    BY <1>0, <2>1, <2>2
<1>3. TasksHaveSessions'
  BY <1>2 DEF DaemonInv, TasksHaveSessions, Alive
<1>4. ASSUME NEW j \in Slots, j # k, Alive(j), mode[DaemonOf(j)] = "Pull"
      PROVE  DaemonOf(j) \in Daemons /\ DaemonOf(j) # Owner[s]
  <2>1. current[DaemonOf(j)] = j
    BY <1>4 DEF DaemonInv, PullTaskIsCurrent
  <2> QED
    BY <1>4, <2>1, TaskFacts DEF Running, TasksOf
<1>5. PullTaskIsCurrent'
  BY <1>0, <1>1, <1>2, <1>4 DEF DaemonInv, PullTaskIsCurrent, Alive, DaemonOf
<1>6. PullTaskIsSession'
  BY <1>2 DEF DaemonInv, PullTaskIsSession, Alive, DaemonOf
<1>7. posts' \subseteq Post /\ PostsAreAwaited' /\ ReportsAreOwn'
  <2>1. \A n \in posts : n.slot \notin {k}
    <3>1. task[k].pc \notin Reporting
      BY <1>1 DEF Alive, Reporting, Reported, Active, Terminal
    <3> QED
      BY <3>1, DaemonAssumption DEF DaemonInv, PostsAreAwaited
  <2> QED
    BY <1>2, <2>1, PostsMove
<1>8. current' \in [Daemons -> Slots \cup {NoSlot}]
  BY <1>0, <1>1
<1> QED
  BY <1>2, <1>3, <1>5, <1>6, <1>7, <1>8 DEF DaemonInv, DaemonTypeOK

\* Cancelling sets a token, and the loop goes on.
LEMMA CancelKeepsInv ==
    ASSUME DaemonInv, mode' = mode,
           UNCHANGED task \/ \E d \in Daemons : CancelCurrent(d),
           UNCHANGED <<current, curSess, posts>>, loop' \in [Daemons -> Loop], RepliesAreOwn'
    PROVE  DaemonInv'
<1>1. /\ task' \in [Slots -> Task]
      /\ \A j \in Slots : task'[j].pc = task[j].pc /\ task'[j].sess = task[j].sess
  <2>1. task \in [Slots -> Task]
    BY DEF DaemonInv, DaemonTypeOK
  <2>2. task' = task \/ \E k \in Slots : task' = [task EXCEPT ![k].cancelled = TRUE]
    BY DEF CancelCurrent, Running, TasksOf
  <2>3. ASSUME NEW k \in Slots, task' = [task EXCEPT ![k].cancelled = TRUE]
        PROVE  <1>1!:
    <3>1. \A j \in Slots : task'[j] = IF j = k THEN [task[k] EXCEPT !.cancelled = TRUE] ELSE task[j]
      BY <2>1, <2>3
    <3>2. task[k] \in Task
      BY <2>1
    <3>3. /\ [task[k] EXCEPT !.cancelled = TRUE] \in Task
          /\ [task[k] EXCEPT !.cancelled = TRUE].pc = task[k].pc
          /\ [task[k] EXCEPT !.cancelled = TRUE].sess = task[k].sess
      BY <3>2 DEF Task
    <3> QED
      BY <2>1, <2>3, <3>1, <3>3
  <2> QED
    BY <2>1, <2>2, <2>3
<1>2. TasksHaveSessions' /\ PullTaskIsCurrent' /\ PullTaskIsSession'
  BY <1>1, TasksMove DEF DaemonInv, PullTaskIsSession, Alive
<1>3. posts' \subseteq Post /\ PostsAreAwaited' /\ ReportsAreOwn'
  <2> DEFINE K == {}
  <2>1. \A j \in Slots \ K : task'[j].pc = task[j].pc /\ task'[j].sess = task[j].sess
    BY <1>1
  <2>2. \A n \in posts' : (n \in posts /\ n.slot \notin K) \/ \E o \in posts : n = Abandon(o)
    OBVIOUS
  <2> HIDE DEF K
  <2> QED
    BY <2>1, <2>2, PostsMove
<1> QED
  BY <1>1, <1>2, <1>3 DEF DaemonInv, DaemonTypeOK

\* A daemon dies: its tasks are gone and what they posted is abandoned.
LEMMA CrashKeepsInv ==
    ASSUME DaemonInv, mode' = mode, NEW d \in Daemons, DaemonCrash(d)
    PROVE  DaemonInv'
<1>0. /\ task \in [Slots -> Task]
      /\ current \in [Daemons -> Slots \cup {NoSlot}]
      /\ curSess \in [Daemons -> Sessions \cup {NoSession}]
      /\ loop \in [Daemons -> Loop]
  BY DEF DaemonInv, DaemonTypeOK
<1>1. /\ task' \in [Slots -> Task]
      /\ \A j \in TasksOf(d) : task'[j].pc = "free"
      /\ \A j \in Slots \ TasksOf(d) : task'[j] = task[j]
  <2>1. FreeTask \in Task /\ FreeTask.pc = "free"
    BY DEF FreeTask, Task
  <2> QED
    BY <1>0, <2>1 DEF DaemonCrash, TasksOf
<1>2. /\ current' = [current EXCEPT ![d] = NoSlot]
      /\ curSess' = [curSess EXCEPT ![d] = NoSession]
      /\ loop' = [loop EXCEPT ![d] = IdleLoop]
  BY DEF DaemonCrash
<1>3. TasksHaveSessions' /\ PullTaskIsCurrent' /\ PullTaskIsSession'
  <2>1. ASSUME NEW j \in Slots, task'[j].pc # "free"
        PROVE  /\ Alive(j) /\ task'[j].sess = task[j].sess /\ task'[j].pc = task[j].pc
               /\ DaemonOf(j) \in Daemons /\ DaemonOf(j) # d
    <3>1. j \notin TasksOf(d)
      BY <1>1, <2>1
    <3>2. Alive(j) /\ task'[j] = task[j]
      BY <1>1, <2>1, <3>1 DEF Alive
    <3> QED
      BY <3>1, <3>2, TaskFacts DEF TasksOf
  <2>2. ASSUME NEW j \in Slots, task'[j].pc # "free"
        PROVE  /\ current'[DaemonOf(j)] = current[DaemonOf(j)]
               /\ curSess'[DaemonOf(j)] = curSess[DaemonOf(j)]
    BY <1>0, <1>2, <2>1, <2>2
  <2> QED
    BY <2>1, <2>2, TasksMove DEF DaemonInv, PullTaskIsSession
<1>4. posts' \subseteq Post /\ PostsAreAwaited' /\ ReportsAreOwn'
  <2>1. ASSUME NEW n \in posts'
        PROVE  (n \in posts /\ n.slot \notin TasksOf(d)) \/ \E m \in posts : n = Abandon(m)
    BY DEF DaemonCrash
  <2> QED
    BY <1>1, <2>1, PostsMove
<1>5. loop' \in [Daemons -> Loop] /\ RepliesAreOwn'
  <2>1. IdleLoop \in Loop /\ IdleLoop.next = NoSession
    BY DEF IdleLoop, Loop
  <2> QED
    BY <1>0, <1>2, <2>1 DEF DaemonInv, RepliesAreOwn
<1>6. /\ current' \in [Daemons -> Slots \cup {NoSlot}]
      /\ curSess' \in [Daemons -> Sessions \cup {NoSession}]
  BY <1>0, <1>2
<1> QED
  BY <1>1, <1>3, <1>4, <1>5, <1>6 DEF DaemonInv, DaemonTypeOK

\* The steps of a task.
LEMMA TaskKeepsInv ==
    ASSUME DaemonInv, mode' = mode, NEW k \in Slots, TaskStep(k) \/ TaskGivesUp(k)
    PROVE  DaemonInv'
<1>1. CASE TaskBegin(k) \/ TaskReport(k) \/ TaskClear(k)
  BY <1>1, BeginKeepsInv, ReportKeepsInv, ClearKeepsInv
<1>2. CASE TaskHasNoSession(k)
  BY <1>2, LocalStep DEF TaskHasNoSession, Alive, Reporting, Reported, Active, Terminal
<1>3. CASE TaskSetUp(k) \/ TaskScanFails(k) \/ TaskPhase1(k) \/ TaskPhase2(k) \/ TaskGivesUp(k)
  <2>1. task[k].pc \in {"prep", "setup", "phase1", "phase2"}
    BY <1>3 DEF TaskSetUp, TaskScanFails, TaskPhase1, TaskPhase2, TaskGivesUp
  <2>2. Alive(k) /\ ~Outstanding(k)
    <3>1. task[k].pc \notin Reporting /\ Alive(k)
      BY <2>1 DEF Alive, Reporting, Reported, Active, Terminal
    <3> QED
      BY <3>1, DaemonAssumption DEF Outstanding, DaemonInv, PostsAreAwaited
  <2>3. \/ End(k)
        \/ task[k].pc # "prep" /\ \E pc \in Reporting : Step(k, pc)
    BY <1>3 DEF TaskSetUp, TaskScanFails, TaskPhase1, TaskPhase2, TaskGivesUp,
                Reporting, Reported, Active, Terminal
  <2>4. UNCHANGED <<current, curSess, posts, loop>>
    BY <1>3 DEF TaskSetUp, TaskScanFails, TaskPhase1, TaskPhase2, TaskGivesUp
  <2>5. \A pc \in Reporting : pc # "prep"
    BY DEF Reporting, Reported, Active, Terminal
  <2> QED
    BY <2>2, <2>3, <2>4, <2>5, LocalStep
<1> QED
  BY <1>1, <1>2, <1>3 DEF TaskStep

\* The pull loop: what it is given comes from the daemon's own queue.
LEMMA WorkKeepsInv ==
    ASSUME ServerInv, DaemonInv, mode' = mode, NEW d \in Daemons,
           WorkRead(d) \/ WorkTake(d) \/ WorkAct(d) \/ WorkLost(d)
    PROVE  DaemonInv'
<1>0. loop \in [Daemons -> Loop] /\ loop[d] \in Loop
  BY DEF DaemonInv, DaemonTypeOK
<1>1. IdleLoop \in Loop /\ IdleLoop.next = NoSession
  BY DEF IdleLoop, Loop
<1>2. CASE WorkRead(d)
  <2>1. PICK s \in IF SessionsFor(d) = {} THEN {NoSession} ELSE SessionsFor(d) :
           loop' = [loop EXCEPT ![d] = [IdleLoop EXCEPT !.pc = "asked", !.next = s]]
    BY <1>2 DEF WorkRead
  <2> DEFINE l == [IdleLoop EXCEPT !.pc = "asked", !.next = s]
  <2>2. s \in Sessions \cup {NoSession} /\ (s # NoSession => Owner[s] = d)
    BY DEF SessionsFor, Queued, ServerInv, QueuesAreOwn
  <2>3. l \in Loop /\ l.next = s
    BY <2>2 DEF IdleLoop, Loop
  <2> HIDE DEF l
  <2>4. loop' = [loop EXCEPT ![d] = l]
    BY <2>1 DEF l
  <2>5. loop' \in [Daemons -> Loop] /\ RepliesAreOwn'
    BY <1>0, <2>2, <2>3, <2>4 DEF DaemonInv, RepliesAreOwn
  <2> QED
    BY <1>2, <2>5, CancelKeepsInv DEF WorkRead
<1>3. CASE WorkTake(d)
  <2>1. /\ loop' = [loop EXCEPT ![d].pc = "answered", ![d].cancel = pullCancel[d]]
        /\ UNCHANGED <<task, current, curSess, posts>>
    BY <1>3 DEF WorkTake
  <2> DEFINE l == [loop[d] EXCEPT !.pc = "answered", !.cancel = pullCancel[d]]
  <2>2. l \in Loop /\ l.next = loop[d].next
    BY <1>0 DEF Loop, ServerInv, TypeOK
  <2>3. loop' = [loop EXCEPT ![d] = l]
    BY <1>0, <2>1
  <2> HIDE DEF l
  <2>4. loop' \in [Daemons -> Loop] /\ RepliesAreOwn'
    BY <1>0, <2>2, <2>3 DEF DaemonInv, RepliesAreOwn
  <2> QED
    BY <2>1, <2>4, CancelKeepsInv
<1>4. CASE WorkCancel(d)
  <2>1. /\ loop' = [loop EXCEPT ![d].pc = "start"]
        /\ UNCHANGED <<current, curSess, posts>>
        /\ CancelCurrent(d) \/ UNCHANGED task
    BY <1>4 DEF WorkCancel
  <2>2. loop' \in [Daemons -> Loop] /\ RepliesAreOwn'
    BY <1>0, <2>1 DEF DaemonInv, RepliesAreOwn, Loop
  <2> QED
    BY <2>1, <2>2, CancelKeepsInv
<1>5. ASSUME loop' = [loop EXCEPT ![d] = IdleLoop]
      PROVE  loop' \in [Daemons -> Loop] /\ RepliesAreOwn'
  BY <1>0, <1>1, <1>5 DEF DaemonInv, RepliesAreOwn
<1>6. CASE WorkStart(d)
  <2>1. loop' = [loop EXCEPT ![d] = IdleLoop] /\ UNCHANGED <<curSess, posts>>
    BY <1>6 DEF WorkStart
  <2>2. CASE loop[d].next # NoSession /\ ~Running(d)
    <3>1. PICK k \in Slots : Initiate(loop[d].next, k)
      BY <1>6, <2>2 DEF WorkStart
    <3>2. loop[d].next \in Sessions /\ Owner[loop[d].next] = d
      BY <1>0, <2>2 DEF Loop, DaemonInv, RepliesAreOwn
    <3> QED
      BY <1>5, <2>1, <2>2, <3>1, <3>2, InitiateKeepsInv
  <2>3. CASE ~(loop[d].next # NoSession /\ ~Running(d))
    BY <1>5, <1>6, <2>1, <2>3, CancelKeepsInv DEF WorkStart
  <2> QED
    BY <2>2, <2>3
<1>7. CASE WorkLost(d)
  BY <1>5, <1>7, CancelKeepsInv DEF WorkLost
<1> QED
  BY <1>2, <1>3, <1>4, <1>6, <1>7 DEF WorkAct

\* Every step of the protocol.
LEMMA DaemonsKeepInv ==
    ASSUME ServerInv, DaemonInv, mode' = mode, ProtocolNext
    PROVE  DaemonInv'
<1>1. ASSUME UNCHANGED daemonVars
      PROVE  DaemonInv'
  BY <1>1 DEF daemonVars, DaemonInv, DaemonTypeOK, RepliesAreOwn, TasksHaveSessions,
              PostsAreAwaited, PullTaskIsCurrent, PullTaskIsSession, ReportsAreOwn, Alive, DaemonOf
<1>2. CASE ServerFault \/ \E s \in Sessions : UserAsks(s) \/ ServerStep(s) \/ ServerStall(s)
  BY <1>1, <1>2 DEF ServerFault, UserAsks, ServerStep, ServerStall
<1>3. CASE ServerCrash
  <2>1. IdleLoop \in Loop /\ IdleLoop.next = NoSession
    BY DEF IdleLoop, Loop
  <2>2. loop' \in [Daemons -> Loop] /\ RepliesAreOwn'
    BY <1>3, <2>1 DEF ServerCrash, DaemonInv, DaemonTypeOK, RepliesAreOwn
  <2> QED
    BY <1>3, <2>2, CancelKeepsInv DEF ServerCrash
<1>4. ASSUME NEW s \in Sessions, DaemonInitiates(s)
      PROVE  DaemonInv'
  <2>1. mode[Owner[s]] = "Push"
    BY <1>4, DiscoveryAssumption DEF DaemonInitiates, StartSendDone, ServerInv, SendsArePush
  <2>2. PICK k \in Slots : Initiate(s, k)
    BY <1>4 DEF DaemonInitiates
  <2>3. UNCHANGED <<curSess, posts, loop>>
    BY <1>4 DEF DaemonInitiates
  <2>4. loop' \in [Daemons -> Loop] /\ RepliesAreOwn'
    BY <2>3 DEF DaemonInv, DaemonTypeOK, RepliesAreOwn
  <2> QED
    BY <2>1, <2>2, <2>3, <2>4, InitiateKeepsInv
<1>5. ASSUME NEW s \in Sessions, DaemonCancels(s)
      PROVE  DaemonInv'
  <2>1. UNCHANGED <<current, curSess, posts, loop>> /\ CancelCurrent(Owner[s])
    BY <1>5 DEF DaemonCancels
  <2>2. loop' \in [Daemons -> Loop] /\ RepliesAreOwn' /\ Owner[s] \in Daemons
    BY <2>1, DiscoveryAssumption DEF DaemonInv, DaemonTypeOK, RepliesAreOwn
  <2> QED
    BY <2>1, <2>2, CancelKeepsInv
<1>6. ASSUME NEW m \in posts, ReceiveUpdate(m) \/ PostLost(m) \/ PostLate(m)
      PROVE  DaemonInv'
  BY <1>6, ResumeKeepsInv DEF ReceiveUpdate, Answer, PostLost, PostLate
<1>7. ASSUME NEW d \in Daemons, WorkRead(d) \/ WorkTake(d) \/ WorkAct(d)
      PROVE  DaemonInv'
  BY <1>7, WorkKeepsInv
<1>8. ASSUME NEW k \in Slots, TaskRuns(k)
      PROVE  DaemonInv'
  BY <1>8, TaskKeepsInv DEF TaskRuns
<1>9. CASE DaemonFault
  BY <1>6, <1>9, TaskKeepsInv, WorkKeepsInv, CrashKeepsInv DEF DaemonFault
<1> QED
  BY <1>2, <1>3, <1>4, <1>5, <1>6, <1>7, <1>8, <1>9 DEF ProtocolNext

-----------------------------------------------------------------------------
(* The theorems *)

\* ProtocolInv is inductive.
LEMMA ProtocolInductive == ProtocolSpec => []ProtocolInv
<1>1. ProtocolInit => ProtocolInv
  <2> SUFFICES ASSUME ProtocolInit PROVE ProtocolInv
    OBVIOUS
  <2>1. ServerInv
    BY ServiceStarts DEF ProtocolInit, Init, ServerInv, QueuesAreOwn, Has, SendsArePush
  <2>2. FreeTask \in Task /\ FreeTask.pc = "free" /\ IdleLoop \in Loop /\ IdleLoop.next = NoSession
    BY DEF FreeTask, Task, IdleLoop, Loop
  <2>3. DaemonInv
    BY <2>2 DEF ProtocolInit, DaemonInit, DaemonInv, DaemonTypeOK, RepliesAreOwn, TasksHaveSessions,
                PostsAreAwaited, PullTaskIsCurrent, PullTaskIsSession, ReportsAreOwn, Alive
  <2> QED
    BY <2>1, <2>3, ProtocolAssumption DEF ProtocolInit, ProtocolInv
<1>2. ProtocolInv /\ [ProtocolNext]_allVars => ProtocolInv'
  <2> SUFFICES ASSUME ProtocolInv, [ProtocolNext]_allVars
               PROVE  ProtocolInv'
    OBVIOUS
  <2>1. CASE ProtocolNext
    <3>1. ServerInv' /\ mode' = mode
      BY <2>1, ServerKeepsInv DEF ProtocolInv, DaemonInv
    <3>2. DaemonInv'
      BY <2>1, <3>1, DaemonsKeepInv DEF ProtocolInv
    <3>3. faults' = faults \/ Fault
      BY <2>1 DEF ProtocolNext, UserAsks, ServerStep, ServerStall, DaemonInitiates, DaemonCancels,
                  ReceiveUpdate, WorkRead, WorkTake, WorkAct, TaskRuns, ServerFault, ServerCrash,
                  DaemonFault
    <3>4. faults' \in 0..MaxFaults
      BY <3>3, ProtocolAssumption DEF Fault, ProtocolInv
    <3> QED
      BY <3>1, <3>2, <3>4 DEF ProtocolInv
  <2>2. CASE UNCHANGED allVars
    BY <2>2 DEF allVars, vars, daemonVars, ProtocolInv, ServerInv, TypeOK, TrackedIsQueued, Tracked,
                Queued, QueuesAreOwn, SendsArePush, DaemonInv, DaemonTypeOK, RepliesAreOwn,
                TasksHaveSessions, PostsAreAwaited, PullTaskIsCurrent, PullTaskIsSession,
                ReportsAreOwn, Alive, DaemonOf
  <2> QED
    BY <2>1, <2>2
<1> QED
  BY <1>1, <1>2, PTL DEF ProtocolSpec

\* The server and the daemons together implement the service: whatever daemons do
\* and whatever fails, the server's state moves as DiscoveryService allows.
THEOREM ProtocolRefinesService == ProtocolSpec => Spec
<1>1. ProtocolInit => Init
  BY DEF ProtocolInit
<1>2. ProtocolInv /\ [ProtocolNext]_allVars => [Next]_vars
  BY StepOfService DEF ProtocolInv, DaemonInv, allVars
<1> QED
  BY <1>1, <1>2, ProtocolInductive, PTL DEF ProtocolSpec, Spec

\* The types of both sides, and every tracked session past its push in its
\* daemon's queue, now with real daemons, lost messages and crashes.
THEOREM ProtocolSafety == ProtocolSpec => [](ProtocolTypeOK /\ TrackedIsQueued)
<1>1. ProtocolInv => ProtocolTypeOK /\ TrackedIsQueued
  BY DEF ProtocolInv, ServerInv, DaemonInv, ProtocolTypeOK
<1> QED
  BY <1>1, ProtocolInductive, PTL

\* However replies are delayed, lost or overtaken by restarts of either side, a
\* pull daemon never runs two discoveries at once.
THEOREM PullRunsOneTask == ProtocolSpec => []OneTaskPerDaemon
<1>1. ProtocolInv => OneTaskPerDaemon
  <2> SUFFICES ASSUME ProtocolInv, NEW d \in Daemons, mode[d] = "Pull"
               PROVE  Cardinality(TasksOf(d)) <= 1
    BY DEF OneTaskPerDaemon
  <2>1. TasksOf(d) \subseteq {current[d]}
    BY DEF ProtocolInv, DaemonInv, PullTaskIsCurrent, TasksOf
  <2>2. IsFiniteSet({current[d]}) /\ Cardinality({current[d]}) = 1
    BY FS_Singleton
  <2> QED
    BY <2>1, <2>2, FS_Subset
<1> QED
  BY <1>1, ProtocolInductive, PTL

\* A pull daemon's report is about the session of the task that sent it, although
\* tasks read the session from state they share.
THEOREM PullReportsOwnSession == ProtocolSpec => []ReportsAreOwn
<1>1. ProtocolInv => ReportsAreOwn
  BY DEF ProtocolInv, DaemonInv
<1> QED
  BY <1>1, ProtocolInductive, PTL
=============================================================================
