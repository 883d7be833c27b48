---------------------------- MODULE PortRegistry ----------------------------
(***************************************************************************)
(* What the services of the hosts promise about ports, without hosts,      *)
(* requests or tables: a service holds claims on ports, a claim is for one *)
(* interface or for all of them, and two services never hold claims that   *)
(* overlap.  Inventory is shown to implement this.                         *)
(***************************************************************************)
CONSTANTS
    Services,    \* service ids
    Ports,       \* port ids; a port belongs to one host
    Interfaces,  \* interface ids
    AllIfaces    \* in place of an interface: the claim is for every interface

VARIABLE claims  \* [Services -> SUBSET Claim]

Claim == [port : Ports, iface : Interfaces \cup {AllIfaces}]

\* The same port, and the same interface or either on all of them.
Overlap(a, b) ==
    /\ a.port = b.port
    /\ a.iface = b.iface \/ AllIfaces \in {a.iface, b.iface}

\* B overlaps nothing that a service other than s holds.
Free(s, B) ==
    \A t \in Services \ {s} : \A a \in claims[t], b \in B : ~Overlap(a, b)

RegistryInit == claims = [s \in Services |-> {}]

\* A service is given claims that are free, in place of those it held.
Assign(s) ==
    /\ claims' \in [Services -> SUBSET Claim]
    /\ \A t \in Services \ {s} : claims'[t] = claims[t]
    /\ Free(s, claims'[s])

\* Ports, interfaces, services or hosts are deleted: claims go with them.
Revoke ==
    /\ claims' \in [Services -> SUBSET Claim]
    /\ \A s \in Services : claims'[s] \subseteq claims[s]

RegistryNext == Revoke \/ \E s \in Services : Assign(s)

RegistrySpec == RegistryInit /\ [][RegistryNext]_claims

\* Two services never hold overlapping claims.
PortHeldOnce ==
    \A s, t \in Services : s # t => \A a \in claims[s], b \in claims[t] : ~Overlap(a, b)
=============================================================================
