------------------------------ MODULE MCParts ------------------------------
(***************************************************************************)
(* Five parts of the server that do not meet: the locks around the         *)
(* sessions, the schedules, the topologies, the payments and the API keys. *)
(* The initial state chooses one, and only that one moves.                 *)
(***************************************************************************)
EXTENDS SessionLocks, DiscoverySchedule, Topology, Billing, ApiKeys, TLC

VARIABLE part

partVars == <<lockVars, scheduleVars, topologyVars, billingVars, keyVars, part>>

\* One call of every operation but the work request and the listing, which takes one lock.
MCOrdered == ("a" :> "terminal") @@ ("b" :> "stalled") @@ ("c" :> "cancel") @@ ("d" :> "old")
             @@ ("e" :> "progress") @@ ("f" :> "start")

\* Both plans include one network, as Starter does.
MCIncluded == [p \in Plans |-> 1]

PartsInit ==
    /\ part \in {"locks", "schedules", "topologies", "payments", "keys"}
    /\ LocksInit /\ ScheduleInit /\ TopologyInit /\ BillingInit /\ KeysInit
    /\ part # "topologies" => Saved = {}

PartsNext ==
    /\ UNCHANGED part
    /\ \/ /\ part = "locks" /\ LocksNext
          /\ UNCHANGED <<scheduleVars, topologyVars, billingVars, keyVars>>
       \/ /\ part = "schedules" /\ ScheduleNext
          /\ UNCHANGED <<lockVars, topologyVars, billingVars, keyVars>>
       \/ /\ part = "topologies" /\ TopologyNext
          /\ UNCHANGED <<lockVars, scheduleVars, billingVars, keyVars>>
       \/ /\ part = "payments" /\ BillingNext
          /\ UNCHANGED <<lockVars, scheduleVars, topologyVars, keyVars>>
       \/ /\ part = "keys" /\ KeysNext
          /\ UNCHANGED <<lockVars, scheduleVars, topologyVars, billingVars>>

PartsSpec == PartsInit /\ [][PartsNext]_partVars

MCSymmetry == Permutations(Topologies) \cup Permutations(Workers)
=============================================================================
