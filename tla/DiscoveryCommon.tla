--------------------------- MODULE DiscoveryCommon ---------------------------
(***************************************************************************)
(* What the server and the daemons share: sessions, their phases, and the  *)
(* daemon that owns each session.                                          *)
(***************************************************************************)
EXTENDS Integers, Sequences, FiniteSets

CONSTANTS
    Sessions,     \* session ids (Uuid::new_v4 in start_session: never reused)
    Daemons,      \* daemon ids
    Owner,        \* Owner[s]: the daemon a session was created for
    Modes,        \* the DaemonModes daemons register with
    NoSession     \* the absence of a session id (Uuid::nil, None)

ASSUME DiscoveryAssumption ==
    /\ Owner \in [Sessions -> Daemons]
    /\ Modes \subseteq {"Push", "Pull"}
    /\ NoSession \notin Sessions

\* DiscoveryPhase without Starting, which nothing in the code assigns.
Active   == {"Started", "Scanning"}
Terminal == {"Complete", "Failed", "Cancelled"}

\* The phases a daemon reports ("all subsequent states ... are set by Daemon").
Reported == Active \cup Terminal

\* A session's entry in the server's map; "Absent" when there is none.
Phase == {"Absent", "Pending"} \cup Reported
=============================================================================
