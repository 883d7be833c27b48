------------------------- MODULE SessionLocksProofs -------------------------
(***************************************************************************)
(* The locks of DiscoveryService for any number of concurrent calls.       *)
(*                                                                         *)
(* Every operation but the work request takes the locks in the order       *)
(* sessions, session_last_updated, daemon_sessions,                        *)
(* daemon_pull_cancellations.  HeldBy annotates the programs with the      *)
(* locks held before each step; the annotation is checked against the      *)
(* programs step by step, and against the locks as an invariant.  Of the   *)
(* locks somebody waits for, the last in the order is then held by nobody. *)
(***************************************************************************)
EXTENDS SessionLocks, TLAPS

S == "sessions"
L == "last_updated"
D == "daemon_sessions"
C == "pull_cancellations"

\* The order.
Rank == [sessions |-> 1, last_updated |-> 2, daemon_sessions |-> 3, pull_cancellations |-> 4]

\* The locks a call holds before its first step, its second, ..., and at its end.
HeldBy ==
    [work     |-> << {}, {D}, {D, S}, {D}, {}, {C}, {} >>,
     list     |-> << {}, {S}, {} >>,
     start    |-> << {}, {S}, {}, {D}, {}, {D}, {} >>,
     progress |-> << {}, {S}, {S, L}, {S, L, D}, {S, L}, {S}, {} >>,
     terminal |-> << {}, {S}, {S, L}, {S, L, D}, {S, L}, {S, L, C}, {S, L}, {S, L, D}, {S, L},
                     {L}, {L}, {} >>,
     cancel   |-> << {}, {S}, {}, {S}, {S, D}, {D}, {} >>,
     old      |-> << {}, {S}, {S, D}, {S, D, C}, {S, D}, {S}, {} >>,
     stalled  |-> << {}, {S}, {S, L}, {S, L, D}, {S, L, D, C}, {S, L, D}, {S, L}, {S}, {} >>]

\* What step c makes of the locks H.
Acquires(c, H, then) ==
    /\ c.do = "lock" /\ c.lock \in Locks /\ c.mode \in {"r", "w"}
    /\ then = H \cup {c.lock}

Releases(c, H, then) == c.do = "unlock" /\ c.lock \in Locks /\ then = H \ {c.lock}

\* H annotates the program P.
Annotates(P, H) ==
    /\ Len(P) \in Nat
    /\ H[1] = {} /\ H[Len(P) + 1] = {}
    /\ \A i \in 1..Len(P) : /\ H[i] \subseteq Locks
                            /\ \/ Acquires(P[i], H[i], H[i + 1])
                               \/ Releases(P[i], H[i], H[i + 1])
                               \/ P[i].do = "send" /\ H[i + 1] = H[i]

\* The program takes its locks in the order.
InOrder(P, H) ==
    \A i \in 1..Len(P) : P[i].do = "lock" => \A l \in H[i] : Rank[l] < Rank[P[i].lock]

-----------------------------------------------------------------------------
(* The programs *)

\* A program put together of parts is the list of their steps.
LEMMA PartsJoin ==
    ASSUME NEW a, NEW b, NEW c, NEW d, NEW e, NEW f, NEW g, NEW h, NEW i, NEW j, NEW k
    PROVE  /\ LET P == <<a, b, c, d>> \o <<e, f>>
              IN  /\ Len(P) = 6
                  /\ P[1] = a /\ P[2] = b /\ P[3] = c /\ P[4] = d /\ P[5] = e /\ P[6] = f
           /\ LET P == <<a, b>> \o <<c, d>> \o <<e, f>>
              IN  /\ Len(P) = 6
                  /\ P[1] = a /\ P[2] = b /\ P[3] = c /\ P[4] = d /\ P[5] = e /\ P[6] = f
           /\ LET P == <<a, b>> \o <<c, d>> \o <<e, f>> \o <<g, h, i, j, k>>
              IN  /\ Len(P) = 11
                  /\ P[1] = a /\ P[2] = b /\ P[3] = c /\ P[4] = d /\ P[5] = e /\ P[6] = f
                  /\ P[7] = g /\ P[8] = h /\ P[9] = i /\ P[10] = j /\ P[11] = k
  OBVIOUS

\* The annotation fits every program, and the order is kept by all but the work
\* request.
LEMMA ProgramsFit ==
    ASSUME NEW op \in Ops
    PROVE  /\ Annotates(Program(op), HeldBy[op])
           /\ op # "work" => InOrder(Program(op), HeldBy[op])
<1> USE DEF Read, Write, Drop, SendNext, Rank, Locks, S, L, D, C
<1>1. CASE op = "work"
  <2> DEFINE P == WorkRequest
             H == HeldBy["work"]
  <2>1. /\ Len(P) = 6
        /\ P[1] = Read(D) /\ P[2] = Read(S) /\ P[3] = Drop(S) /\ P[4] = Drop(D)
        /\ P[5] = Write(C) /\ P[6] = Drop(C)
    BY PartsJoin DEF WorkRequest, GetSessionsForDaemon, PullCancellation
  <2>2. /\ H[1] = {} /\ H[2] = {D} /\ H[3] = {D, S} /\ H[4] = {D} /\ H[5] = {} /\ H[6] = {C}
        /\ H[7] = {}
    BY DEF HeldBy
  <2>3. Program("work") = P
    BY DEF Program
  <2> HIDE DEF P, H
  <2>4. Annotates(P, H)
    BY <2>1, <2>2 DEF Annotates, Acquires, Releases
  <2> QED
    BY <1>1, <2>3, <2>4 DEF P, H
<1>2. CASE op = "list"
  <2> DEFINE P == GetAllSessions
             H == HeldBy["list"]
  <2>1. /\ Len(P) = 2
        /\ P[1] = Read(S) /\ P[2] = Drop(S)
    BY DEF GetAllSessions
  <2>2. /\ H[1] = {} /\ H[2] = {S} /\ H[3] = {}
    BY DEF HeldBy
  <2>3. Program("list") = P
    BY DEF Program
  <2> HIDE DEF P, H
  <2>4. Annotates(P, H)
    BY <2>1, <2>2 DEF Annotates, Acquires, Releases
  <2>5. InOrder(P, H)
    BY <2>1, <2>2 DEF InOrder
  <2> QED
    BY <1>2, <2>3, <2>4, <2>5 DEF P, H
<1>3. CASE op = "start"
  <2> DEFINE P == StartSession
             H == HeldBy["start"]
  <2>1. /\ Len(P) = 6
        /\ P[1] = Write(S) /\ P[2] = Drop(S) /\ P[3] = Read(D) /\ P[4] = Drop(D)
        /\ P[5] = Write(D) /\ P[6] = Drop(D)
    BY DEF StartSession
  <2>2. /\ H[1] = {} /\ H[2] = {S} /\ H[3] = {} /\ H[4] = {D} /\ H[5] = {} /\ H[6] = {D}
        /\ H[7] = {}
    BY DEF HeldBy
  <2>3. Program("start") = P
    BY DEF Program
  <2> HIDE DEF P, H
  <2>4. Annotates(P, H)
    BY <2>1, <2>2 DEF Annotates, Acquires, Releases
  <2>5. InOrder(P, H)
    BY <2>1, <2>2 DEF InOrder
  <2> QED
    BY <1>3, <2>3, <2>4, <2>5 DEF P, H
<1>4. CASE op = "progress"
  <2> DEFINE P == ProgressUpdate
             H == HeldBy["progress"]
  <2>1. /\ Len(P) = 6
        /\ P[1] = Write(S) /\ P[2] = Write(L) /\ P[3] = Write(D) /\ P[4] = Drop(D)
        /\ P[5] = Drop(L) /\ P[6] = Drop(S)
    BY PartsJoin DEF ProgressUpdate, AutoCreate
  <2>2. /\ H[1] = {} /\ H[2] = {S} /\ H[3] = {S, L} /\ H[4] = {S, L, D} /\ H[5] = {S, L}
        /\ H[6] = {S} /\ H[7] = {}
    BY DEF HeldBy
  <2>3. Program("progress") = P
    BY DEF Program
  <2> HIDE DEF P, H
  <2>4. Annotates(P, H)
    BY <2>1, <2>2 DEF Annotates, Acquires, Releases
  <2>5. InOrder(P, H)
    BY <2>1, <2>2 DEF InOrder
  <2> QED
    BY <1>4, <2>3, <2>4, <2>5 DEF P, H
<1>5. CASE op = "terminal"
  <2> DEFINE P == TerminalUpdate
             H == HeldBy["terminal"]
  <2>1. /\ Len(P) = 11
        /\ P[1] = Write(S) /\ P[2] = Write(L) /\ P[3] = Write(D) /\ P[4] = Drop(D)
        /\ P[5] = Write(C) /\ P[6] = Drop(C) /\ P[7] = Write(D) /\ P[8] = Drop(D)
        /\ P[9] = Drop(S) /\ P[10] = SendNext /\ P[11] = Drop(L)
    BY PartsJoin DEF TerminalUpdate, AutoCreate, PullCancellation
  <2>2. /\ H[1] = {} /\ H[2] = {S} /\ H[3] = {S, L} /\ H[4] = {S, L, D} /\ H[5] = {S, L}
        /\ H[6] = {S, L, C} /\ H[7] = {S, L} /\ H[8] = {S, L, D} /\ H[9] = {S, L}
        /\ H[10] = {L} /\ H[11] = {L} /\ H[12] = {}
    BY DEF HeldBy
  <2>3. Program("terminal") = P
    BY DEF Program
  <2> HIDE DEF P, H
  <2>4. Annotates(P, H)
    BY <2>1, <2>2, SMTT(60) DEF Annotates, Acquires, Releases
  <2>5. InOrder(P, H)
    BY <2>1, <2>2 DEF InOrder
  <2> QED
    BY <1>5, <2>3, <2>4, <2>5 DEF P, H
<1>6. CASE op = "cancel"
  <2> DEFINE P == CancelPendingSession
             H == HeldBy["cancel"]
  <2>1. /\ Len(P) = 6
        /\ P[1] = Read(S) /\ P[2] = Drop(S) /\ P[3] = Write(S) /\ P[4] = Write(D)
        /\ P[5] = Drop(S) /\ P[6] = Drop(D)
    BY DEF CancelPendingSession
  <2>2. /\ H[1] = {} /\ H[2] = {S} /\ H[3] = {} /\ H[4] = {S} /\ H[5] = {S, D} /\ H[6] = {D}
        /\ H[7] = {}
    BY DEF HeldBy
  <2>3. Program("cancel") = P
    BY DEF Program
  <2> HIDE DEF P, H
  <2>4. Annotates(P, H)
    BY <2>1, <2>2 DEF Annotates, Acquires, Releases
  <2>5. InOrder(P, H)
    BY <2>1, <2>2 DEF InOrder
  <2> QED
    BY <1>6, <2>3, <2>4, <2>5 DEF P, H
<1>7. CASE op = "old"
  <2> DEFINE P == CleanupOldSessions
             H == HeldBy["old"]
  <2>1. /\ Len(P) = 6
        /\ P[1] = Write(S) /\ P[2] = Write(D) /\ P[3] = Write(C) /\ P[4] = Drop(C)
        /\ P[5] = Drop(D) /\ P[6] = Drop(S)
    BY DEF CleanupOldSessions
  <2>2. /\ H[1] = {} /\ H[2] = {S} /\ H[3] = {S, D} /\ H[4] = {S, D, C} /\ H[5] = {S, D}
        /\ H[6] = {S} /\ H[7] = {}
    BY DEF HeldBy
  <2>3. Program("old") = P
    BY DEF Program
  <2> HIDE DEF P, H
  <2>4. Annotates(P, H)
    BY <2>1, <2>2 DEF Annotates, Acquires, Releases
  <2>5. InOrder(P, H)
    BY <2>1, <2>2 DEF InOrder
  <2> QED
    BY <1>7, <2>3, <2>4, <2>5 DEF P, H
<1>8. CASE op = "stalled"
  <2> DEFINE P == CleanupStalledSessions
             H == HeldBy["stalled"]
  <2>1. /\ Len(P) = 8
        /\ P[1] = Write(S) /\ P[2] = Write(L) /\ P[3] = Write(D) /\ P[4] = Write(C)
        /\ P[5] = Drop(C) /\ P[6] = Drop(D) /\ P[7] = Drop(L) /\ P[8] = Drop(S)
    BY DEF CleanupStalledSessions
  <2>2. /\ H[1] = {} /\ H[2] = {S} /\ H[3] = {S, L} /\ H[4] = {S, L, D} /\ H[5] = {S, L, D, C}
        /\ H[6] = {S, L, D} /\ H[7] = {S, L} /\ H[8] = {S} /\ H[9] = {}
    BY DEF HeldBy
  <2>3. Program("stalled") = P
    BY DEF Program
  <2> HIDE DEF P, H
  <2>4. Annotates(P, H)
    BY <2>1, <2>2 DEF Annotates, Acquires, Releases
  <2>5. InOrder(P, H)
    BY <2>1, <2>2 DEF InOrder
  <2> QED
    BY <1>8, <2>3, <2>4, <2>5 DEF P, H
<1> QED
  BY <1>1, <1>2, <1>3, <1>4, <1>5, <1>6, <1>7, <1>8 DEF Ops

-----------------------------------------------------------------------------
(* The inductive invariant *)

HeldAt(p) == HeldBy[OpOf[p]][pc[p] + 1]

\* Who waits for a lock is about to take it, and waits once.
Wants(p, l) == ~Finished(p) /\ Instr(p).do = "lock" /\ Instr(p).lock = l

WaitersWant ==
    \A l \in Locks : \A i \in 1..Len(waiting[l]) : Wants(waiting[l][i][1], l)

WaitersAreOnce ==
    \A l \in Locks : \A i, j \in 1..Len(waiting[l]) : waiting[l][i][1] = waiting[l][j][1] => i = j

\* Who holds a lock is where the annotation says so.
HoldersAreAnnotated ==
    \A l \in Locks : \A h \in held[l] : l \in HeldAt(h[1])

LocksInv == LocksTypeOK /\ WaitersWant /\ WaitersAreOnce /\ HoldersAreAnnotated

\* What a call that is not finished does next, in terms of the annotation.
LEMMA NextStep ==
    ASSUME LocksInv, NEW p \in Procs
    PROVE  /\ Len(Code(p)) \in Nat
           /\ HeldBy[OpOf[p]][1] = {} /\ HeldBy[OpOf[p]][Len(Code(p)) + 1] = {}
           /\ ~Finished(p) =>
                /\ pc[p] + 1 \in 1..Len(Code(p))
                /\ \/ Acquires(Instr(p), HeldAt(p), HeldBy[OpOf[p]][pc[p] + 2])
                   \/ Releases(Instr(p), HeldAt(p), HeldBy[OpOf[p]][pc[p] + 2])
                   \/ Instr(p).do = "send" /\ HeldBy[OpOf[p]][pc[p] + 2] = HeldAt(p)
                /\ OpOf[p] # "work" /\ Instr(p).do = "lock" =>
                     \A l \in HeldAt(p) : Rank[l] < Rank[Instr(p).lock]
<1>1. OpOf[p] \in Ops
  BY LocksAssumption
<1>2. Annotates(Code(p), HeldBy[OpOf[p]]) /\ (OpOf[p] # "work" => InOrder(Code(p), HeldBy[OpOf[p]]))
  BY <1>1, ProgramsFit DEF Code
<1>3. Len(Code(p)) \in Nat /\ pc[p] \in Nat /\ pc[p] <= Len(Code(p))
  BY <1>2 DEF Annotates, LocksInv, LocksTypeOK
<1>4. HeldBy[OpOf[p]][1] = {} /\ HeldBy[OpOf[p]][Len(Code(p)) + 1] = {}
  BY <1>2 DEF Annotates
<1>5. ASSUME ~Finished(p)
      PROVE  /\ pc[p] + 1 \in 1..Len(Code(p)) /\ (pc[p] + 1) + 1 = pc[p] + 2
  BY <1>3, <1>5 DEF Finished
<1>6. ASSUME ~Finished(p)
      PROVE  /\ \/ Acquires(Instr(p), HeldAt(p), HeldBy[OpOf[p]][pc[p] + 2])
                \/ Releases(Instr(p), HeldAt(p), HeldBy[OpOf[p]][pc[p] + 2])
                \/ Instr(p).do = "send" /\ HeldBy[OpOf[p]][pc[p] + 2] = HeldAt(p)
             /\ OpOf[p] # "work" /\ Instr(p).do = "lock" =>
                  \A l \in HeldAt(p) : Rank[l] < Rank[Instr(p).lock]
  BY <1>2, <1>5, <1>6 DEF Annotates, InOrder, HeldAt, Instr
<1> QED
  BY <1>3, <1>4, <1>5, <1>6

\* A call joins the line of the lock it takes next.
LEMMA RequestKeepsInv ==
    ASSUME LocksInv, NEW p \in Procs, Request(p)
    PROVE  LocksInv'
<1> DEFINE l == Instr(p).lock
           w == <<p, Instr(p).mode>>
<1>1. ~Finished(p) /\ Instr(p).do = "lock" /\ ~Waits(p) /\ UNCHANGED <<pc, held>>
  BY DEF Request, Does
<1>2. l \in Locks /\ w \in Procs \X {"r", "w"}
  BY <1>1, NextStep DEF Acquires, Releases
<1>3. waiting \in [Locks -> Seq(Procs \X {"r", "w"})]
  BY DEF LocksInv, LocksTypeOK
<1>4. waiting' = [waiting EXCEPT ![l] = Append(@, w)]
  BY DEF Request
<1>5. /\ waiting' \in [Locks -> Seq(Procs \X {"r", "w"})]
      /\ \A k \in Locks : k # l => waiting'[k] = waiting[k]
      /\ Len(waiting'[l]) = Len(waiting[l]) + 1
      /\ \A i \in 1..Len(waiting[l]) : waiting'[l][i] = waiting[l][i]
      /\ waiting'[l][Len(waiting[l]) + 1] = w
  BY <1>2, <1>3, <1>4
<1> HIDE DEF l, w
<1>6. w[1] = p /\ l = Instr(p).lock
  BY DEF w, l
<1>7. \A k \in Locks : \A i \in 1..Len(waiting[k]) : waiting[k][i][1] # p
  BY <1>1 DEF Waits
<1>8. \A q, k : (Wants(q, k)' <=> Wants(q, k)) /\ HeldAt(q)' = HeldAt(q)
  BY <1>1 DEF Wants, Finished, Instr, HeldAt
<1>9. Len(waiting[l]) \in Nat
  BY <1>2, <1>3
<1>10. \A i \in 1..Len(waiting'[l]) : i \in 1..Len(waiting[l]) \/ i = Len(waiting[l]) + 1
  BY <1>5, <1>9
<1>11. WaitersWant'
  <2> SUFFICES ASSUME NEW k \in Locks, NEW i \in 1..Len(waiting'[k])
               PROVE  Wants(waiting'[k][i][1], k)
    BY <1>8 DEF WaitersWant
  <2>1. CASE k = l /\ i = Len(waiting[l]) + 1
    BY <1>1, <1>5, <1>6, <2>1 DEF Wants
  <2>2. CASE ~(k = l /\ i = Len(waiting[l]) + 1)
    BY <1>5, <1>10, <2>2 DEF LocksInv, WaitersWant
  <2> QED
    BY <2>1, <2>2
<1>12. WaitersAreOnce'
  <2> SUFFICES ASSUME NEW k \in Locks, NEW i \in 1..Len(waiting'[k]), NEW j \in 1..Len(waiting'[k]),
                      waiting'[k][i][1] = waiting'[k][j][1]
               PROVE  i = j
    BY DEF WaitersAreOnce
  <2>1. CASE k # l
    BY <1>5, <2>1 DEF LocksInv, WaitersAreOnce
  <2>2. CASE k = l
    <3> DEFINE n == Len(waiting[l])
    <3>1. (i \in 1..n \/ i = n + 1) /\ (j \in 1..n \/ j = n + 1)
      BY <1>10, <2>2
    <3>2. \A m \in 1..n : waiting'[l][m] = waiting[l][m] /\ waiting'[l][m][1] # p
      BY <1>2, <1>5, <1>7
    <3>3. waiting'[l][n + 1][1] = p
      BY <1>5, <1>6
    <3>4. CASE i \in 1..n /\ j \in 1..n
      BY <1>2, <2>2, <3>2, <3>4 DEF LocksInv, WaitersAreOnce
    <3> QED
      BY <2>2, <3>1, <3>2, <3>3, <3>4
  <2> QED
    BY <2>1, <2>2
<1>13. HoldersAreAnnotated' /\ LocksTypeOK'
  BY <1>1, <1>5, <1>8 DEF LocksInv, HoldersAreAnnotated, LocksTypeOK
<1> QED
  BY <1>11, <1>12, <1>13 DEF LocksInv

\* A call that takes a step keeps its bounds; the others stand where they were.
LEMMA Advances ==
    ASSUME LocksInv, NEW p \in Procs, ~Finished(p), pc' = [pc EXCEPT ![p] = @ + 1]
    PROVE  /\ pc' \in [Procs -> Nat] /\ \A q \in Procs : pc'[q] <= Len(Code(q))
           /\ HeldAt(p)' = HeldBy[OpOf[p]][pc[p] + 2]
           /\ \A q \in Procs \ {p} : /\ HeldAt(q)' = HeldAt(q)
                                     /\ \A k : Wants(q, k)' <=> Wants(q, k)
<1>1. pc \in [Procs -> Nat] /\ \A q \in Procs : pc[q] <= Len(Code(q))
  BY DEF LocksInv, LocksTypeOK
<1>2. pc[p] + 1 \in 1..Len(Code(p)) /\ (pc[p] + 1) + 1 = pc[p] + 2
  BY <1>1, NextStep
<1>3. pc'[p] = pc[p] + 1 /\ \A q \in Procs \ {p} : pc'[q] = pc[q]
  BY <1>1
<1>4. pc' \in [Procs -> Nat] /\ \A q \in Procs : pc'[q] <= Len(Code(q))
  BY <1>1, <1>2, <1>3
<1> QED
  BY <1>2, <1>3, <1>4 DEF HeldAt, Wants, Finished, Instr

\* What is left of a line when its head has gone.
LEMMA TailShifts ==
    ASSUME NEW T, NEW q \in Seq(T), q # <<>>
    PROVE  /\ Head(q) \in T /\ Head(q) = q[1] /\ 1 \in 1..Len(q)
           /\ Tail(q) \in Seq(T)
           /\ \A i \in 1..Len(Tail(q)) : /\ i + 1 \in 1..Len(q) /\ i + 1 # 1
                                         /\ Tail(q)[i] = q[i + 1]
<1>1. Len(q) \in Nat /\ Len(q) # 0 /\ Len(Tail(q)) = Len(q) - 1
  OBVIOUS
<1>2. \A i \in 1..(Len(q) - 1) : Tail(q)[i] = q[i + 1]
  OBVIOUS
<1>3. Head(q) \in T /\ Head(q) = q[1] /\ Tail(q) \in Seq(T)
  OBVIOUS
<1> QED
  BY <1>1, <1>2, <1>3

\* A call gets the lock it waits for.
LEMMA GrantKeepsInv ==
    ASSUME LocksInv, NEW l \in Locks, Grant(l)
    PROVE  LocksInv'
<1>1. /\ waiting \in [Locks -> Seq(Procs \X {"r", "w"})]
      /\ held \in [Locks -> SUBSET (Procs \X {"r", "w"})]
  BY DEF LocksInv, LocksTypeOK
<1>2. waiting[l] \in Seq(Procs \X {"r", "w"}) /\ waiting[l] # <<>>
  BY <1>1 DEF Grant
<1> PICK w \in Procs \X {"r", "w"} : w = Head(waiting[l])
  BY <1>2, TailShifts
<1> PICK p \in Procs : p = w[1]
  OBVIOUS
<1>3. w = waiting[l][1] /\ 1 \in 1..Len(waiting[l])
  BY <1>2, TailShifts
<1>4. /\ held' = [held EXCEPT ![l] = @ \cup {w}]
      /\ waiting' = [waiting EXCEPT ![l] = Tail(@)]
      /\ pc' = [pc EXCEPT ![p] = @ + 1]
  BY DEF Grant
<1>5. /\ waiting' \in [Locks -> Seq(Procs \X {"r", "w"})]
      /\ \A k \in Locks : k # l => waiting'[k] = waiting[k]
      /\ \A i \in 1..Len(waiting'[l]) : /\ i + 1 \in 1..Len(waiting[l]) /\ i + 1 # 1
                                        /\ waiting'[l][i] = waiting[l][i + 1]
  <2>1. /\ Tail(waiting[l]) \in Seq(Procs \X {"r", "w"})
        /\ \A i \in 1..Len(Tail(waiting[l])) : /\ i + 1 \in 1..Len(waiting[l]) /\ i + 1 # 1
                                               /\ Tail(waiting[l])[i] = waiting[l][i + 1]
    BY <1>2, TailShifts
  <2>2. waiting'[l] = Tail(waiting[l]) /\ \A k \in Locks : k # l => waiting'[k] = waiting[k]
    BY <1>1, <1>4
  <2>3. waiting' \in [Locks -> Seq(Procs \X {"r", "w"})]
    BY <1>1, <1>4, <2>1
  <2> QED
    BY <2>1, <2>2, <2>3
<1>6. /\ held' \in [Locks -> SUBSET (Procs \X {"r", "w"})]
      /\ \A k \in Locks : held'[k] = IF k = l THEN held[l] \cup {w} ELSE held[k]
  BY <1>1, <1>4
<1>7. Wants(p, l)
  BY <1>3 DEF LocksInv, WaitersWant
<1>8. ~Finished(p) /\ HeldBy[OpOf[p]][pc[p] + 2] = HeldAt(p) \cup {l}
  BY <1>3, <1>7, NextStep DEF Wants, Acquires, Releases
<1>9. /\ pc' \in [Procs -> Nat] /\ \A q \in Procs : pc'[q] <= Len(Code(q))
      /\ HeldAt(p)' = HeldAt(p) \cup {l}
      /\ \A q \in Procs \ {p} : HeldAt(q)' = HeldAt(q) /\ \A k : Wants(q, k)' <=> Wants(q, k)
  BY <1>3, <1>4, <1>8, Advances
<1>10. LocksTypeOK'
  BY <1>5, <1>6, <1>9 DEF LocksTypeOK
<1>11. \A i, j \in 1..Len(waiting[l]) : waiting[l][i][1] = waiting[l][j][1] => i = j
  BY DEF LocksInv, WaitersAreOnce
<1>12. WaitersWant'
  <2> SUFFICES ASSUME NEW k \in Locks, NEW i \in 1..Len(waiting'[k])
               PROVE  Wants(waiting[k][i][1], k)'
    BY DEF WaitersWant
  <2>1. ASSUME NEW q \in Procs \ {p}, q = waiting'[k][i][1], Wants(q, k)
        PROVE  Wants(waiting[k][i][1], k)'
    <3>1. Wants(q, k)'
      BY <1>9, <2>1
    <3> QED
      BY <2>1, <3>1 DEF Wants, Finished, Instr
  <2>2. waiting'[k][i] \in Procs \X {"r", "w"}
    BY <1>5
  <2>3. CASE k # l
    <3>1. Wants(waiting'[k][i][1], k)
      BY <1>5, <2>3 DEF LocksInv, WaitersWant
    <3>2. waiting'[k][i][1] # p
      BY <1>7, <2>3, <3>1 DEF Wants
    <3> QED
      BY <2>1, <2>2, <3>1, <3>2
  <2>4. CASE k = l
    <3>1. Wants(waiting'[l][i][1], l)
      BY <1>5, <2>4 DEF LocksInv, WaitersWant
    <3>2. waiting'[l][i][1] # p
      <4>1. i + 1 \in 1..Len(waiting[l]) /\ i + 1 # 1 /\ waiting'[l][i] = waiting[l][i + 1]
        BY <1>5, <2>4
      <4>2. waiting[l][i + 1][1] # waiting[l][1][1]
        BY <1>3, <1>11, <4>1
      <4> QED
        BY <1>3, <4>1, <4>2
    <3> QED
      BY <2>1, <2>2, <2>4, <3>1, <3>2
  <2> QED
    BY <2>3, <2>4
<1>13. WaitersAreOnce'
  <2> SUFFICES ASSUME NEW k \in Locks, NEW i \in 1..Len(waiting'[k]), NEW j \in 1..Len(waiting'[k]),
                      waiting'[k][i][1] = waiting'[k][j][1]
               PROVE  i = j
    BY DEF WaitersAreOnce
  <2>1. CASE k # l
    BY <1>5, <2>1 DEF LocksInv, WaitersAreOnce
  <2>2. CASE k = l
    <3>1. /\ i + 1 \in 1..Len(waiting[l]) /\ j + 1 \in 1..Len(waiting[l])
          /\ waiting[l][i + 1][1] = waiting[l][j + 1][1]
      BY <1>5, <2>2
    <3>2. i + 1 = j + 1
      BY <1>11, <3>1
    <3> QED
      BY <3>2
  <2> QED
    BY <2>1, <2>2
<1>14. HoldersAreAnnotated'
  <2> SUFFICES ASSUME NEW k \in Locks, NEW h \in held'[k]
               PROVE  k \in HeldAt(h[1])'
    BY DEF HoldersAreAnnotated
  <2>1. h[1] \in Procs
    BY <1>6
  <2>2. CASE k = l /\ h = w
    BY <1>9, <2>2
  <2>3. CASE h \in held[k]
    <3>1. k \in HeldAt(h[1])
      BY <2>3 DEF LocksInv, HoldersAreAnnotated
    <3> QED
      BY <1>9, <2>1, <3>1
  <2> QED
    BY <1>6, <2>2, <2>3
<1> QED
  BY <1>10, <1>12, <1>13, <1>14 DEF LocksInv

\* A call gives a lock back, or hears from the daemon it has sent a request to.
LEMMA ReleaseKeepsInv ==
    ASSUME LocksInv, NEW p \in Procs, Release(p) \/ Answered(p)
    PROVE  LocksInv'
<1>1. /\ waiting \in [Locks -> Seq(Procs \X {"r", "w"})]
      /\ held \in [Locks -> SUBSET (Procs \X {"r", "w"})]
  BY DEF LocksInv, LocksTypeOK
<1>2. /\ ~Finished(p) /\ Instr(p).do \in {"unlock", "send"}
      /\ pc' = [pc EXCEPT ![p] = @ + 1] /\ waiting' = waiting
  BY DEF Release, Answered, Does
<1>3. /\ pc' \in [Procs -> Nat] /\ \A q \in Procs : pc'[q] <= Len(Code(q))
      /\ HeldAt(p)' = HeldBy[OpOf[p]][pc[p] + 2]
      /\ \A q \in Procs \ {p} : HeldAt(q)' = HeldAt(q) /\ \A k : Wants(q, k)' <=> Wants(q, k)
  BY <1>2, Advances
<1>4. /\ held' \in [Locks -> SUBSET (Procs \X {"r", "w"})]
      /\ \A k \in Locks : held'[k] \subseteq held[k]
      /\ \A k \in Locks : k \in HeldAt(p) \ HeldAt(p)' => \A h \in held'[k] : h[1] # p
  <2>1. CASE Release(p)
    <3>1. Releases(Instr(p), HeldAt(p), HeldBy[OpOf[p]][pc[p] + 2])
      BY <1>2, <2>1, NextStep DEF Release, Does, Acquires
    <3>2. Instr(p).lock \in Locks /\ HeldAt(p)' = HeldAt(p) \ {Instr(p).lock}
      BY <1>3, <3>1 DEF Releases
    <3>3. held' = [held EXCEPT ![Instr(p).lock] = {h \in @ : h[1] # p}]
      BY <2>1 DEF Release
    <3> QED
      BY <1>1, <3>2, <3>3
  <2>2. CASE Answered(p)
    <3>1. HeldBy[OpOf[p]][pc[p] + 2] = HeldAt(p)
      BY <1>2, <2>2, NextStep DEF Answered, Does, Acquires, Releases
    <3>2. held' = held
      BY <2>2 DEF Answered
    <3> QED
      BY <1>1, <1>3, <3>1, <3>2
  <2> QED
    BY <2>1, <2>2
<1>5. LocksTypeOK' /\ WaitersAreOnce'
  BY <1>1, <1>2, <1>3, <1>4 DEF LocksInv, LocksTypeOK, WaitersAreOnce
<1>6. WaitersWant'
  <2> SUFFICES ASSUME NEW k \in Locks, NEW i \in 1..Len(waiting[k])
               PROVE  Wants(waiting[k][i][1], k)'
    BY <1>2 DEF WaitersWant
  <2>1. waiting[k][i][1] \in Procs /\ Wants(waiting[k][i][1], k)
    BY <1>1 DEF LocksInv, WaitersWant
  <2>2. waiting[k][i][1] # p
    BY <1>2, <2>1 DEF Wants
  <2>3. \A q \in Procs \ {p} : Wants(q, k) => Wants(q, k)'
    BY <1>3
  <2> DEFINE q == waiting[k][i][1]
  <2>4. Wants(q, k)' <=> Wants(waiting[k][i][1], k)'
    BY <1>2
  <2> QED
    BY <1>2, <2>1, <2>2, <2>3
<1>7. HoldersAreAnnotated'
  <2> SUFFICES ASSUME NEW k \in Locks, NEW h \in held'[k]
               PROVE  k \in HeldAt(h[1])'
    BY DEF HoldersAreAnnotated
  <2>1. h \in held[k] /\ h[1] \in Procs
    BY <1>1, <1>4
  <2>2. k \in HeldAt(h[1])
    BY <2>1 DEF LocksInv, HoldersAreAnnotated
  <2>3. CASE h[1] = p
    BY <1>4, <2>2, <2>3
  <2>4. CASE h[1] # p
    BY <1>3, <2>1, <2>2, <2>4
  <2> QED
    BY <2>3, <2>4
<1> QED
  BY <1>5, <1>6, <1>7 DEF LocksInv

\* The invariant holds from the start and is kept by every step.
LEMMA LocksInductive == LocksSpec => []LocksInv
<1>1. LocksInit => LocksInv
  <2> SUFFICES ASSUME LocksInit
               PROVE  LocksInv
    OBVIOUS
  <2>1. \A p \in Procs : pc[p] = 0 /\ Len(Code(p)) \in Nat
    BY LocksAssumption, ProgramsFit DEF LocksInit, Code, Annotates
  <2>2. /\ \A l \in Locks : held[l] = {} /\ waiting[l] = <<>> /\ Len(waiting[l]) = 0
        /\ pc \in [Procs -> Nat]
        /\ held \in [Locks -> SUBSET (Procs \X {"r", "w"})]
        /\ waiting \in [Locks -> Seq(Procs \X {"r", "w"})]
    BY DEF LocksInit
  <2>3. LocksTypeOK
    BY <2>1, <2>2 DEF LocksTypeOK
  <2> QED
    BY <2>2, <2>3 DEF LocksInv, WaitersWant, WaitersAreOnce, HoldersAreAnnotated
<1>2. LocksInv /\ [LocksNext]_lockVars => LocksInv'
  <2> SUFFICES ASSUME LocksInv, [LocksNext]_lockVars
               PROVE  LocksInv'
    OBVIOUS
  <2>1. CASE LocksNext
    BY <2>1, RequestKeepsInv, GrantKeepsInv, ReleaseKeepsInv DEF LocksNext
  <2>2. CASE UNCHANGED lockVars
    BY <2>2 DEF lockVars, LocksInv, LocksTypeOK, WaitersWant, WaitersAreOnce, HoldersAreAnnotated,
                Wants, Finished, Instr, HeldAt
  <2> QED
    BY <2>1, <2>2
<1> QED
  BY <1>1, <1>2, PTL DEF LocksSpec

\* Whatever the calls, a lock is held and waited for by calls only, for reading
\* or for writing, and no call runs past its end.
THEOREM LocksTypes == LocksSpec => []LocksTypeOK
<1>1. LocksInv => LocksTypeOK
  BY DEF LocksInv
<1> QED
  BY <1>1, LocksInductive, PTL

-----------------------------------------------------------------------------
(* No deadlock *)

\* If calls wait for one another, a lock somebody waits for is held by a call
\* that itself waits for a lock behind it in the order.
LEMMA WaitForLater ==
    ASSUME LocksInv, ~NoCallIsStuck, \A p \in Procs : OpOf[p] # "work",
           NEW l \in Locks, waiting[l] # <<>>
    PROVE  \E k \in Locks : waiting[k] # <<>> /\ Rank[l] < Rank[k]
<1>1. /\ waiting \in [Locks -> Seq(Procs \X {"r", "w"})]
      /\ held \in [Locks -> SUBSET (Procs \X {"r", "w"})]
  BY DEF LocksInv, LocksTypeOK
<1>2. held[l] # {}
  BY DEF NoCallIsStuck, Compatible
<1>3. PICK h \in Procs : l \in HeldAt(h)
  <2>1. PICK x \in held[l] : TRUE
    BY <1>2
  <2>2. x[1] \in Procs /\ l \in HeldAt(x[1])
    BY <1>1 DEF LocksInv, HoldersAreAnnotated
  <2> QED
    BY <2>2
<1>4. ~Finished(h)
  <2> SUFFICES ASSUME Finished(h)
               PROVE  FALSE
    OBVIOUS
  <2>1. HeldAt(h) = {}
    BY NextStep DEF Finished, HeldAt
  <2> QED
    BY <1>3, <2>1
<1>5. Instr(h).do = "lock" /\ Waits(h)
  BY <1>4 DEF NoCallIsStuck
<1>6. PICK k \in Locks : \E i \in 1..Len(waiting[k]) : waiting[k][i][1] = h
  BY <1>5 DEF Waits
<1>7. Wants(h, k)
  BY <1>6 DEF LocksInv, WaitersWant
<1>8. Rank[l] < Rank[k]
  BY <1>3, <1>4, <1>5, <1>7, NextStep DEF Wants
<1>9. waiting[k] # <<>>
  BY <1>1, <1>6
<1> QED
  BY <1>8, <1>9

\* Any number of calls of the operations that keep the order of the locks, in
\* any interleaving, never wait for one another in a circle.  The work request
\* of a daemon is the one operation that does not keep the order.
THEOREM NoDeadlock ==
    ASSUME \A p \in Procs : OpOf[p] # "work"
    PROVE  LocksSpec => []NoCallIsStuck
<1>1. LocksInv => NoCallIsStuck
  <2> SUFFICES ASSUME LocksInv, ~NoCallIsStuck
               PROVE  FALSE
    OBVIOUS
  <2>1. \A l \in Locks : waiting[l] # <<>> =>
           \E k \in Locks : waiting[k] # <<>> /\ Rank[l] < Rank[k]
    BY WaitForLater
  <2>2. /\ Locks = {S, L, D, C}
        /\ Rank[S] = 1 /\ Rank[L] = 2 /\ Rank[D] = 3 /\ Rank[C] = 4
    BY DEF Locks, Rank, S, L, D, C
  <2>3. waiting[C] = <<>>
    BY <2>1, <2>2
  <2>4. waiting[D] = <<>>
    BY <2>1, <2>2, <2>3
  <2>5. waiting[L] = <<>>
    BY <2>1, <2>2, <2>3, <2>4
  <2>6. waiting[S] = <<>>
    BY <2>1, <2>2, <2>3, <2>4, <2>5
  <2>7. \A l \in Locks : waiting[l] = <<>> /\ Len(waiting[l]) = 0
    BY <2>2, <2>3, <2>4, <2>5, <2>6
  <2>8. \A p \in Procs : ~Waits(p)
    BY <2>7 DEF Waits
  <2> QED
    BY <2>8 DEF NoCallIsStuck
<1> QED
  BY <1>1, LocksInductive, PTL
=============================================================================
