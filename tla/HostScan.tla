------------------------------- MODULE HostScan --------------------------------
(***************************************************************************)
(* What the daemon does with one address of a subnet, or with one Docker   *)
(* container: check that it answers, scan its TCP and UDP ports, request   *)
(* the endpoints the catalogue asks for, match every service definition    *)
(* and hand the host to the server.                                        *)
(*                                                                         *)
(* The order in which the definitions of one class are tried is the link   *)
(* order of the binary (inventory::iter), so every order is possible.      *)
(***************************************************************************)
EXTENDS ServiceCatalogue, SequencesExt

CONSTANTS
  Hosts,      \* the hosts that may be scanned (their fields: see HostFields)
  MaxLost     \* bound on the probes whose answer is lost in one scan

VARIABLES
  host,       \* the host being scanned: what is really there
  phase,      \* where the scan is
  found,      \* ports seen open
  responses,  \* endpoint responses received
  class,      \* priority class of the definitions being tried
  unbound,    \* found ports that no service has claimed
  services,   \* services matched so far, in order
  hostPorts,  \* how many port entities of each port go to the server
  lost        \* probes lost so far

hostScanVars == <<host, phase, found, responses, class, unbound, services, hostPorts, lost>>

HostFields == {"tcp", "udp", "http", "vendor", "address", "subnetHasGateway", "subnetType",
               "container", "mapped", "arp", "shows"}

Phases == {"check", "tcp", "udp", "endpoints", "match", "done", "silent", "cancelled"}

PortNumbers(protocols) == Nat \X protocols
Responses(ports) == [port : ports, path : STRING, status : 200..599, body : SUBSET STRING,
                     headers : SUBSET (STRING \X STRING)]

ASSUME HostsAssumption ==
  /\ MaxLost \in Nat
  /\ \A h \in Hosts :
       /\ DOMAIN h = HostFields
       /\ h.container \in {"none", "host", "bridge"}
       /\ h.tcp \subseteq PortNumbers({"tcp"}) /\ IsFiniteSet(h.tcp)
       /\ h.udp \subseteq PortNumbers({"udp"}) /\ IsFiniteSet(h.udp)
       /\ h.mapped \subseteq PortNumbers({"tcp", "udp"}) \X PortNumbers({"tcp", "udp"})
       /\ h.http \subseteq Responses(PortNumbers({"tcp"})) /\ IsFiniteSet(h.http)

(* Facts of the catalogue, which TLC evaluates.  Names are unique, the     *)
(* readings of ServicePatterns go as deep as the patterns are nested, and  *)
(* Not is said only of what matches of other definitions do not change.    *)
Combines(p) == p.kind \in {"AnyOf", "AllOf", "Not"}
Plain(p)  == ~Combines(p) /\ p.kind # "Custom"
Leaf(p)   == \/ Plain(p)
             \/ p.kind = "Custom" /\ p.condition \in {"NoNonGatewayMatched", "ContainerNotMatched", "SomePortUnbound"}
Denies(p) == p.kind = "Not" /\ 1 \in DOMAIN p.of /\ Plain(p.of[1]) /\ p.of[1].kind # "Port"
Flat(p)   == \/ Leaf(p) \/ Denies(p)
             \/ p.kind \in {"AnyOf", "AllOf"} /\ \A i \in DOMAIN p.of : Leaf(p.of[i])

ASSUME CatalogueAssumption ==
  /\ {OpenPorts, DockerContainer, Gateway} \subseteq AllServiceDefinitions
  /\ \A d, e \in AllServiceDefinitions : d.name = e.name => d = e
  /\ \A d \in AllServiceDefinitions :
       \/ Flat(d.pattern)
       \/ d.pattern.kind \in {"AnyOf", "AllOf"} /\ \A i \in DOMAIN d.pattern.of : Flat(d.pattern.of[i])

(* A specific definition never asks what other definitions have matched.   *)
Simple(p) == \/ Plain(p) \/ Denies(p)
             \/ p.kind \in {"AnyOf", "AllOf"} /\ \A i \in DOMAIN p.of : Plain(p.of[i])

ASSUME SpecificAssumption ==
  \A d \in AllServiceDefinitions : ~d.generic =>
    \/ Simple(d.pattern)
    \/ d.pattern.kind \in {"AnyOf", "AllOf"} /\ \A i \in DOMAIN d.pattern.of : Simple(d.pattern.of[i])

---------------------------------------------------------------------------
(* Service::all_discovery_ports, all_discovery_endpoints, endpoint_only_ports *)

AllDiscoveryPorts == UNION {PortsOf(d.pattern) : d \in AllServiceDefinitions}
AllDiscoveryEndpoints == UNION {EndpointsOf(d.pattern) : d \in AllServiceDefinitions}
EndpointOnlyPorts == {e[1] : e \in AllDiscoveryEndpoints} \ AllDiscoveryPorts

(* The ports of the patterns of all definitions other than d               *)
OtherPorts == [d \in AllServiceDefinitions |->
                 UNION {PortsOf(e.pattern) : e \in AllServiceDefinitions \ {d}}]

(* sort key of discover_services                                           *)
ClassGenericFirst(d) == CASE d.generic -> 0
                          [] OTHER -> 1
Class(d) == CASE ~d.generic -> 0
              [] d = OpenPorts -> 3
              [] d \in {DockerContainer, Gateway} -> 2
              [] OTHER -> 1

ClassMembers == [c \in 0..3 |-> {d \in AllServiceDefinitions : Class(d) = c}]

---------------------------------------------------------------------------
HostScanInit ==
  /\ host \in Hosts
  /\ phase = "check"
  /\ found = {} /\ responses = {} /\ unbound = {}
  /\ class = 0
  /\ services = << >>
  /\ hostPorts = << >>
  /\ lost = 0

(* A connect or a request that times out is retried once and then given up: *)
(* some of the answers in S are lost.                                       *)
Lossy(S) == {T \in SUBSET S : Cardinality(S \ T) + lost <= MaxLost}
Lose(S, T) == lost' = lost + Cardinality(S \ T)

---------------------------------------------------------------------------
(* Phase 1: is there a host?  An interfaced subnet is asked by ARP, another *)
(* one by connecting to the discovery ports.                                *)
CheckArp ==
  /\ phase = "check" /\ host.container = "none" /\ host.arp
  /\ phase' = "tcp"
  /\ UNCHANGED <<host, found, responses, class, unbound, services, hostPorts, lost>>

CheckPorts ==
  /\ phase = "check" /\ host.container = "none" /\ ~host.arp
  /\ LET open == host.tcp \cap AllDiscoveryPorts
     IN \E seen \in Lossy(open) :
          /\ found' = seen
          /\ Lose(open, seen)
          /\ phase' = IF seen = {} THEN "silent" ELSE "tcp"
  /\ UNCHANGED <<host, responses, class, unbound, services, hostPorts>>

(* Phase 2, deep_scan_host: the TCP ports phase 1 did not find open        *)
ScanTcp ==
  /\ phase = "tcp"
  /\ LET open == host.tcp \ found
     IN \E seen \in Lossy(open) : found' = found \cup seen /\ Lose(open, seen)
  /\ phase' = "udp"
  /\ UNCHANGED <<host, responses, class, unbound, services, hostPorts>>

(* scan_udp_ports has a probe for DNS, NTP and SNMP, and for DHCP when the *)
(* address is in the routing table; every other UDP port counts as closed. *)
UdpProbedNoSnmp == {p \in AllDiscoveryPorts : p \in {<<53, "udp">>, <<123, "udp">>}}
UdpProbed ==
  {p \in AllDiscoveryPorts :
     p \in {<<53, "udp">>, <<123, "udp">>, <<161, "udp">>} \/ (p = <<67, "udp">> /\ host.address = "routed")}

ScanUdp ==
  /\ phase = "udp"
  /\ LET open == host.udp \cap UdpProbed
     IN \E seen \in Lossy(open) : found' = found \cup seen /\ Lose(open, seen)
  /\ phase' = "endpoints"
  /\ UNCHANGED <<host, responses, class, unbound, services, hostPorts>>

(* scan_endpoints on the given ports; a response opens its port if it was  *)
(* not seen open.                                                          *)
RequestEndpoints(ports) ==
  LET answered == {r \in host.http : r.port \in ports /\ <<r.port, r.path>> \in AllDiscoveryEndpoints}
  IN \E received \in Lossy(answered) :
       /\ responses' = received
       /\ Lose(answered, received)

StartMatchingWithRequested(ports) ==
  /\ unbound' = ports \cup EndpointOnlyPorts
  /\ class' = 0
  /\ phase' = "match"

StartMatching(ports) ==
  /\ unbound' = ports
  /\ class' = 0
  /\ phase' = "match"

ScanEndpointsAssumeOpen ==
  /\ phase = "endpoints"
  /\ RequestEndpoints(found \cup EndpointOnlyPorts)
  /\ found' = found \cup EndpointOnlyPorts
  /\ StartMatching(found')
  /\ UNCHANGED <<host, services, hostPorts>>

ScanEndpoints ==
  /\ phase = "endpoints"
  /\ RequestEndpoints(found \cup EndpointOnlyPorts)
  /\ found' = found \cup {r.port : r \in responses'}
  /\ StartMatching(found')
  /\ UNCHANGED <<host, services, hostPorts>>

(* process_host_mode_container: the exposed ports are open, only their     *)
(* endpoints are requested.                                                *)
ScanHostModeContainer ==
  /\ phase = "check" /\ host.container = "host"
  /\ found' = host.tcp \cup host.udp
  /\ RequestEndpoints(found')
  /\ StartMatching(found')
  /\ UNCHANGED <<host, services, hostPorts>>

(* process_bridge_mode_container: every endpoint is requested inside the   *)
(* container, and an answer counts for its port and for the host ports     *)
(* published for it.                                                       *)
ScanBridgeContainer ==
  /\ phase = "check" /\ host.container = "bridge"
  /\ found' = host.tcp \cup host.udp
  /\ LET answered == {r \in host.http : <<r.port, r.path>> \in AllDiscoveryEndpoints}
     IN \E received \in Lossy(answered) :
          /\ responses' = received \cup
               UNION {{[r EXCEPT !.port = m[2]] : m \in {x \in host.mapped : x[1] = r.port}} :
                        r \in received}
          /\ Lose(answered, received)
  /\ StartMatching(found')
  /\ UNCHANGED <<host, services, hostPorts>>

(* The session is cancelled while the scan runs: nothing is reported.      *)
CancelScan ==
  /\ phase \in {"check", "tcp", "udp", "endpoints"}
  /\ phase' = "cancelled"
  /\ UNCHANGED <<host, found, responses, class, unbound, services, hostPorts, lost>>

---------------------------------------------------------------------------
(* discover_services                                                       *)

(* The MAC address is known only where ARP was used.                       *)
MatchParams(d, ports) ==
  [host |-> host, unbound |-> ports, responses |-> responses, matched |-> ToSet(services),
   otherPorts |-> OtherPorts[d], vendor |-> IF host.arp THEN host.vendor ELSE "unknown"]

OutcomesOf(d) == Outcomes(d.pattern, MatchParams(d, unbound))

(* After a service with a container id no other definition can match.      *)
ContainerMatchedIgnored == FALSE
ContainerMatched == host.container # "none" /\ services # << >>

(* A service is bound to its ports on the scanned interface, or to the     *)
(* interface when it has none.                                             *)
NoPort == <<0, "none">>
OwnBindings(ports) ==
  {[port |-> p, interface |-> "own"] : p \in IF ports = {} THEN {NoPort} ELSE ports}

(* from_discovery: a generic service has no confidence; the match claims   *)
(* its ports.                                                              *)
MatchDefinition(d) ==
  /\ phase = "match" /\ class <= 3 /\ ~ContainerMatched
  /\ d \in ClassMembers[class] /\ d.name \notin {services[i].name : i \in DOMAIN services}
  /\ \E m \in OutcomesOf(d) :
       /\ services' = Append(services,
            [name |-> d.name, generic |-> d.generic, gateway |-> ContainsGatewayIp(d.pattern),
             ports |-> m.ports, bindings |-> OwnBindings(m.ports), rank |-> (IF d.generic THEN NotApplicable ELSE m.confidence)
                                         + (IF d.logo THEN 1 ELSE 0)])
       /\ unbound' = unbound \ m.ports
  /\ UNCHANGED <<host, phase, found, responses, class, hostPorts, lost>>

(* No definition of the class that is left matches: on to the next class.  *)
(* (What does not match now never will: OnePassIsEnough.)                  *)
NextClass ==
  /\ phase = "match" /\ class <= 3
  /\ ContainerMatched \/ \A d \in ClassMembers[class] :
       d.name \in {services[i].name : i \in DOMAIN services} \/ OutcomesOf(d) = {}
  /\ class' = class + 1
  /\ UNCHANGED <<host, phase, found, responses, unbound, services, hostPorts, lost>>

(* Best services first: by confidence, a logo counting one level; the sort *)
(* is stable.                                                              *)
SortedServices ==
  LET Before(i, j) == \/ services[i].rank > services[j].rank
                      \/ services[i].rank = services[j].rank /\ i < j
      place == [i \in DOMAIN services |-> 1 + Cardinality({j \in DOMAIN services : Before(j, i)})]
  IN [k \in DOMAIN services |-> services[CHOOSE i \in DOMAIN services : place[i] = k]]

(* process_bridge_mode_container: the service of a container is also bound *)
(* to the container's other ports and, on the Docker host's interface, to  *)
(* the ports published for them; a port binding supersedes the binding to  *)
(* its interface.                                                          *)
BridgeBindings(s) ==
  LET all == s.bindings \cup {[port |-> p, interface |-> "own"] : p \in found}
                        \cup {[port |-> m[2], interface |-> "dockerHost"] : m \in host.mapped}
      Superseded(b) == b.port = NoPort /\ \E c \in all : c.port # NoPort /\ c.interface = b.interface
  IN {b \in all : ~Superseded(b)}

Published == IF host.container = "bridge" THEN {m[2] : m \in host.mapped} ELSE {}

(* The host is complete: every claim, every leftover and every published   *)
(* port becomes a port entity; create_host sends them.                     *)
FinishWithoutLeftovers ==
  /\ phase = "match" /\ class > 3
  /\ services' = [i \in DOMAIN services |->
                    IF host.container = "bridge"
                    THEN [SortedServices[i] EXCEPT !.bindings = BridgeBindings(SortedServices[i])]
                    ELSE SortedServices[i]]
  /\ hostPorts' = [p \in Published \cup UNION {services[i].ports : i \in DOMAIN services} |->
                     Cardinality({i \in DOMAIN services : p \in services[i].ports})
                       + (IF p \in Published THEN Len(services) ELSE 0)]
  /\ phase' = "done"
  /\ UNCHANGED <<host, found, responses, class, unbound, lost>>

FinishMatching ==
  /\ phase = "match" /\ class > 3
  /\ services' = [i \in DOMAIN services |->
                    IF host.container = "bridge"
                    THEN [SortedServices[i] EXCEPT !.bindings = BridgeBindings(SortedServices[i])]
                    ELSE SortedServices[i]]
  /\ hostPorts' = [p \in found \cup Published \cup UNION {services[i].ports : i \in DOMAIN services} |->
                     Cardinality({i \in DOMAIN services : p \in services[i].ports})
                       + (IF p \in unbound THEN 1 ELSE 0)
                       + (IF p \in Published THEN Len(services) ELSE 0)]
  /\ phase' = "done"
  /\ UNCHANGED <<host, found, responses, class, unbound, lost>>

HostScanNext ==
  \/ CheckArp \/ CheckPorts \/ ScanTcp \/ ScanUdp \/ ScanEndpoints
  \/ ScanHostModeContainer \/ ScanBridgeContainer \/ CancelScan
  \/ \E d \in AllServiceDefinitions : MatchDefinition(d)
  \/ NextClass \/ FinishMatching

HostScanSpec == HostScanInit /\ [][HostScanNext]_hostScanVars

---------------------------------------------------------------------------
(* Properties                                                              *)

HostScanTypeOK ==
  /\ host \in Hosts /\ DOMAIN host = HostFields
  /\ phase \in Phases
  /\ class \in 0..4
  /\ responses \subseteq Responses({r.port : r \in host.http} \cup {m[2] : m \in host.mapped})
  /\ unbound \subseteq found
  /\ lost \in 0..MaxLost

Names == {services[i].name : i \in DOMAIN services}

(* A host that shows exactly the evidence one definition asks for is       *)
(* reported with that definition, whatever the link order (deep_scan_host, *)
(* discover_services), when no probe is lost.                              *)
ShownServiceIsFound ==
  phase = "done" /\ lost = 0 /\ host.shows # "nothing" => host.shows \in Names

(* On a scanned host every open port ends in a service, the last resort    *)
(* being Unclaimed Open Ports; and what is not claimed is still reported.  *)
EveryPortIsClaimed ==
  phase = "done" =>
    /\ found \subseteq DOMAIN hostPorts /\ \A p \in found : hostPorts[p] > 0
    /\ host.container = "none" => found \subseteq UNION {services[i].ports : i \in DOMAIN services}

(* A port is reported only if something listens or answers there: on the   *)
(* host itself or, for a container, on a port published for it.            *)
ClaimsAreReal ==
  phase = "done" =>
    DOMAIN hostPorts \subseteq host.tcp \cup host.udp \cup {r.port : r \in host.http}
                              \cup {m[2] : m \in host.mapped}

(* A specific definition never loses to a generic one: if it matches the   *)
(* scanned ports and is not reported, a specific service has its port.     *)
GenericYieldsToSpecific ==
  phase = "done" /\ host.container = "none" =>
    \A d \in ClassMembers[0] : d.name \notin Names =>
      \A m \in Outcomes(d.pattern, MatchParams(d, found)) :
        \E i \in DOMAIN services : ~services[i].generic /\ services[i].ports \cap m.ports # {}

(* One pass over the definitions misses none: matches of others only take  *)
(* away what a definition asks for, so one that does not match when it is  *)
(* tried would not match later either (discover_services).                 *)
OnePassIsEnough ==
  [][\A d \in AllServiceDefinitions :
       phase = "match" /\ phase' = "match" /\ OutcomesOf(d) = {} => OutcomesOf(d)' = {}]_hostScanVars

(* A container is reported as exactly one service, the one it is recognised *)
(* as or the generic Docker container; behind a bridge that service is     *)
(* bound to everything the container exposes, inside and outside.          *)
ContainerIsOneService ==
  phase = "done" /\ host.container # "none" =>
    /\ Len(services) = 1
    /\ host.container = "bridge" =>
         /\ \A p \in found : [port |-> p, interface |-> "own"] \in services[1].bindings
         /\ \A m \in host.mapped : [port |-> m[2], interface |-> "dockerHost"] \in services[1].bindings
=============================================================================
