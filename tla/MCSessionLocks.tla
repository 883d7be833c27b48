--------------------------- MODULE MCSessionLocks ---------------------------
EXTENDS SessionLocks, TLC

\* The work request against the end of a session.
MCWork    == ("a" :> "work") @@ ("b" :> "terminal")
=============================================================================
