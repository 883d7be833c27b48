---------------------------- MODULE ServicePatterns ----------------------------
(***************************************************************************)
(* The language in which a service definition says how it is recognised,   *)
(* and its three readings: does it match a scanned host, which ports and   *)
(* which endpoints does it ask the scanner to look at.                     *)
(*                                                                         *)
(* Text is abstracted to marks: a response body or a header value is the   *)
(* set of the catalogue's (lower-case) match strings it contains.          *)
(***************************************************************************)
EXTENDS Integers, Sequences, FiniteSets

---------------------------------------------------------------------------
(* Ports.  Two port types are equal when number and protocol are; a named  *)
(* type and the custom one made by new_tcp(n) differ only in is_custom.    *)

Named(n, protocol) == [config |-> <<n, protocol>>, custom |-> FALSE]
NewTcp(n) == [config |-> <<n, "tcp">>, custom |-> TRUE]

PortType ==
  [ Ssh |-> Named(22, "tcp"), Telnet |-> Named(23, "tcp"), DnsTcp |-> Named(53, "tcp"),
    DnsUdp |-> Named(53, "udp"), Samba |-> Named(445, "tcp"), Nfs |-> Named(2049, "tcp"),
    Sip |-> Named(5060, "tcp"), SipTls |-> Named(5061, "tcp"), Ldap |-> Named(389, "tcp"),
    Ldaps |-> Named(636, "tcp"), Kerberos |-> Named(88, "tcp"), Ftp |-> Named(21, "tcp"),
    Ipp |-> Named(631, "tcp"), LdpTcp |-> Named(515, "tcp"), LdpUdp |-> Named(515, "udp"),
    Snmp |-> Named(161, "udp"), Rdp |-> Named(3389, "tcp"), Ntp |-> Named(123, "udp"), Rtsp |-> Named(554, "tcp"),
    Dhcp |-> Named(67, "udp"), Http |-> Named(80, "tcp"), Http8080 |-> Named(8080, "tcp"),
    Https |-> Named(443, "tcp"), Https8443 |-> Named(8443, "tcp"), MySql |-> Named(3306, "tcp"),
    PostgreSQL |-> Named(5432, "tcp"), MongoDB |-> Named(27017, "tcp"), Redis |-> Named(6379, "tcp"),
    MsSql |-> Named(1433, "tcp"), Docker |-> Named(2375, "tcp"), DockerTls |-> Named(2376, "tcp"),
    Kubernetes |-> Named(6443, "tcp"), RabbitMqMgmt |-> Named(15672, "tcp"), Kafka |-> Named(9092, "tcp"),
    Http3000 |-> Named(3000, "tcp"), Http5000 |-> Named(5000, "tcp"), Http8081 |-> Named(8081, "tcp"),
    Http8082 |-> Named(8082, "tcp"), Http8888 |-> Named(8888, "tcp"), Http9000 |-> Named(9000, "tcp"),
    Https9443 |-> Named(9443, "tcp"), Https10443 |-> Named(10443, "tcp"), Cassandra |-> Named(9042, "tcp"),
    Elasticsearch |-> Named(9200, "tcp"), InfluxDb |-> Named(8086, "tcp"), CouchDb |-> Named(5984, "tcp"),
    Mqtt |-> Named(1883, "tcp"), MqttTls |-> Named(8883, "tcp"), AMQP |-> Named(5672, "tcp"),
    AMQPTls |-> Named(5671, "tcp"), Wireguard |-> Named(51820, "udp"), OpenVPN |-> Named(1194, "udp") ]

---------------------------------------------------------------------------
(* Patterns                                                                *)

NoRange == <<200, 399>>                          \* what an absent code range means
CodeRange(from, to) == <<from, to - 1>>          \* a Rust range excludes its end
AnyPort == Named(0, "any")

Port(p) == [kind |-> "Port", port |-> p]
Endpoint(p, path, mark, codes) ==
  [kind |-> "Endpoint", port |-> p, path |-> path, mark |-> mark, codes |-> codes]
Header(p, name, mark, codes) ==
  [kind |-> "Header", port |-> p, name |-> name, mark |-> mark, codes |-> codes]
AnyOf(patterns) == [kind |-> "AnyOf", of |-> patterns]
AllOf(patterns) == [kind |-> "AllOf", of |-> patterns]
Not(pattern) == [kind |-> "Not", of |-> <<pattern>>]
MacVendor(vendor) == [kind |-> "MacVendor", vendor |-> vendor]
SubnetIsType(type) == [kind |-> "SubnetIsType", type |-> type]
Custom(condition) == [kind |-> "Custom", condition |-> condition]
IsGateway == [kind |-> "IsGateway"]
InDockerContainer == [kind |-> "DockerContainer"]
NoPattern == [kind |-> "None"]

(* A definition of the catalogue: its name, whether it is generic, whether *)
(* it has a logo, and its pattern.                                         *)
Define(name, traits, pattern) ==
  [name |-> name, generic |-> "generic" \in traits, logo |-> "logo" \in traits,
   pattern |-> pattern]

---------------------------------------------------------------------------
(* Pattern::ports, ::endpoints and ::contains_gateway_ip_pattern           *)

Children(p) == IF p.kind \in {"AnyOf", "AllOf"} THEN {p.of[i] : i \in DOMAIN p.of} ELSE {}

(* A pattern, what it combines and what that combines: patterns of the     *)
(* catalogue nest no deeper (CatalogueAssumption of HostScan).             *)
Parts(p) == {p} \cup Children(p) \cup UNION {Children(q) : q \in Children(p)}

PortsOf(p) == {q.port.config : q \in {x \in Parts(p) : x.kind = "Port"}}

(* An Endpoint with a code range of its own is not asked for.              *)
EndpointsOf(p) ==
  {<<q.port.config, q.path>> : q \in {x \in Parts(p) : x.kind = "Endpoint" /\ x.codes = NoRange}} \cup
  {<<IF q.port = AnyPort THEN PortType.Http.config ELSE q.port.config, "/">> :
     q \in {x \in Parts(p) : x.kind = "Header"}}

ContainsGatewayIp(p) == \E q \in Parts(p) : q.kind = "IsGateway"

---------------------------------------------------------------------------
(* Pattern::matches                                                        *)

(* MatchConfidence                                                         *)
NotApplicable == 0
Low == 1
Medium == 2
High == 3

MaxConfidence(S) == CHOOSE c \in S : \A d \in S : d <= c

(* The match strings of the catalogue that contain another one.            *)
Within == { <<"glance", "glances">>, <<"jellyfin", "jellyfin stats for the masses">>,
            <<"linkstack", "linkstack_session">>, <<"promtail", "promtail_build_info">>,
            <<"proxmox", "proxmox-backup-gui">>, <<"true", "truenas">>,
            <<"vault", "openmediavault">>, <<"vault", "vaultwarden web">> }

(* str::contains on the lower-cased texts                                  *)
BodyContains(body, mark) == mark = "" \/ mark \in body \/ \E m \in body : <<mark, m>> \in Within

InRange(status, codes) == codes[1] <= status /\ status <= codes[2]

(* Pattern::IsGateway: a gateway of the routing table within the subnet,   *)
(* or the usual address when the subnet has none.                          *)
GatewayAddress(host) ==
  host.address = "routed" \/ (host.address = "dot1" /\ ~host.subnetHasGateway)

(* The condition and the ports of the three Custom patterns                *)
CustomHoldsAfterOthers(condition, params) ==
  CASE condition = "NoNonGatewayMatched" ->
         \E s \in params.matched : ~s.gateway
    [] condition = "ContainerNotMatched" ->
         params.host.container # "none" /\ params.matched = {}
    [] condition = "SomePortUnbound" -> params.unbound # {}

CustomHolds(condition, params) ==
  CASE condition = "NoNonGatewayMatched" ->
         \A s \in params.matched : s.gateway
    [] condition = "ContainerNotMatched" ->
         params.host.container # "none" /\ params.matched = {}
    [] condition = "SomePortUnbound" -> params.unbound # {}

Matched(ports, confidence) == {[ports |-> ports, confidence |-> confidence]}

(* One outcome per child that matches: the ways to choose them             *)
Selections(outcomes, indices) ==
  {c \in [indices -> UNION {outcomes[i] : i \in indices}] : \A i \in indices : c[i] \in outcomes[i]}

Merge(choice, confidence) ==
  [ports |-> UNION {choice[i].ports : i \in DOMAIN choice}, confidence |-> confidence]

AnyConfidence(choice) == MaxConfidence({Low} \cup {choice[i].confidence : i \in DOMAIN choice})

(* More than three sub-matches raise a low or medium confidence one level  *)
AllConfidence(choice) ==
  LET best == MaxConfidence({Low} \cup {choice[i].confidence : i \in DOMAIN choice})
  IN IF best \in {Low, Medium} /\ Cardinality(DOMAIN choice) > 3 THEN best + 1 ELSE best

(* Each kind of pattern gives the set of its possible results, empty when  *)
(* it does not match.  There are several when more than one response fits: *)
(* the first in the order in which the responses arrived is used.          *)
PortOutcome(p, params) ==
  IF p.port.config \notin params.unbound THEN {}
  ELSE Matched({p.port.config},
               IF p.port.custom /\ p.port.config \notin params.otherPorts THEN Medium ELSE Low)

HeaderOutcome(p, params) ==
  UNION {Matched({r.port}, High) :
           r \in {x \in params.responses :
                    /\ p.port = AnyPort \/ x.port = p.port.config
                    /\ InRange(x.status, p.codes)
                    /\ \E h \in x.headers : h[1] = p.name /\ BodyContains({h[2]}, p.mark)}}

EndpointOutcome(p, params) ==
  UNION {Matched({r.port}, High) :
           r \in {x \in params.responses :
                    /\ x.port = p.port.config /\ x.path = p.path
                    /\ InRange(x.status, p.codes)
                    /\ BodyContains(x.body, p.mark)}}

VendorOutcome(p, params) == IF params.vendor = p.vendor THEN Matched({}, Medium) ELSE {}

NotOutcome(children) == IF children[1] = {} THEN Matched({}, Low) ELSE {}

AnyOutcome(children) ==
  LET matching == {i \in DOMAIN children : children[i] # {}}
  IN IF matching = {} THEN {} ELSE {Merge(c, AnyConfidence(c)) : c \in Selections(children, matching)}

AllOutcome(children) ==
  IF \E i \in DOMAIN children : children[i] = {} THEN {}
  ELSE {Merge(c, AllConfidence(c)) : c \in Selections(children, DOMAIN children)}

GatewayOutcome(params) == IF GatewayAddress(params.host) THEN Matched({}, High) ELSE {}

SubnetOutcome(p, params) == IF params.host.subnetType = p.type THEN Matched({}, Low) ELSE {}

CustomOutcome(p, params) ==
  IF ~CustomHolds(p.condition, params) THEN {}
  ELSE IF p.condition = "SomePortUnbound" THEN Matched(params.unbound, NotApplicable)
  ELSE Matched({}, Low)

ContainerOutcome(params) == IF params.host.container # "none" THEN Matched({}, Low) ELSE {}

(* children: the results of the patterns in p.of                           *)
OutcomesFrom(p, params, children) ==
  CASE p.kind = "Port" -> PortOutcome(p, params)
    [] p.kind = "Header" -> HeaderOutcome(p, params)
    [] p.kind = "Endpoint" -> EndpointOutcome(p, params)
    [] p.kind = "MacVendor" -> VendorOutcome(p, params)
    [] p.kind = "Not" -> NotOutcome(children)
    [] p.kind = "AnyOf" -> AnyOutcome(children)
    [] p.kind = "AllOf" -> AllOutcome(children)
    [] p.kind = "IsGateway" -> GatewayOutcome(params)
    [] p.kind = "SubnetIsType" -> SubnetOutcome(p, params)
    [] p.kind = "Custom" -> CustomOutcome(p, params)
    [] p.kind = "DockerContainer" -> ContainerOutcome(params)
    [] OTHER -> {}

(* Patterns that combine none, or only such, or only those of both kinds   *)
SimpleOutcomes(p, params) == OutcomesFrom(p, params, << >>)
NestedOutcomes(p, params) ==
  OutcomesFrom(p, params, [i \in DOMAIN p.of |-> SimpleOutcomes(p.of[i], params)])
Outcomes(p, params) ==
  OutcomesFrom(p, params, [i \in DOMAIN p.of |-> NestedOutcomes(p.of[i], params)])
=============================================================================
