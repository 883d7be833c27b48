------------------------- MODULE MCDiscoveryProtocol -------------------------
EXTENDS DiscoveryProtocol, TLC

CONSTANTS s1, s2, d1

\* Both sessions belong to d1, so that they share a queue and a daemon.
MCOwner  == [s \in {s1, s2} |-> d1]

MCCancelAny  == [Push |-> {s1}, Pull |-> {s1, s2}]
MCCancelPull == [Push |-> {}, Pull |-> {s1}]
MCCancelNone == [Push |-> {}, Pull |-> {}]

MCNetworkReport == (s1 :> "Network") @@ (s2 :> "SelfReport")
MCDockerReport  == (s1 :> "Docker") @@ (s2 :> "SelfReport")
=============================================================================
