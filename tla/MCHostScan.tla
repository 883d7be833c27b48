------------------------------ MODULE MCHostScan -------------------------------
(* The hosts that are scanned: for every definition of the catalogue and   *)
(* every way of satisfying its pattern, a host that shows just that.       *)
EXTENDS HostScan

(* Evidence: the ports, responses, vendor and address a pattern asks for.  *)
NoEvidence == [tcp |-> {}, udp |-> {}, http |-> {}, vendor |-> "none", address |-> "plain",
               container |-> "none"]

Listening(p) == IF p[2] = "tcp" THEN [NoEvidence EXCEPT !.tcp = {p}] ELSE [NoEvidence EXCEPT !.udp = {p}]

Answer(p, path, status, body, headers) ==
  [NoEvidence EXCEPT !.tcp = {p},
     !.http = {[port |-> p, path |-> path, status |-> status, body |-> body, headers |-> headers]}]

(* Two answers for one endpoint are one answer with both texts.            *)
JoinAnswers(A, B) ==
  LET same(a) == {b \in B : a.port = b.port /\ a.path = b.path}
      join(a) == [a EXCEPT !.body = @ \cup UNION {b.body : b \in same(a)},
                           !.headers = @ \cup UNION {b.headers : b \in same(a)}]
  IN {join(a) : a \in A} \cup {b \in B : \A a \in A : b \notin same(a)}

Join(a, b) ==
  [tcp |-> a.tcp \cup b.tcp, udp |-> a.udp \cup b.udp, http |-> JoinAnswers(a.http, b.http),
   vendor |-> IF a.vendor = "none" THEN b.vendor ELSE a.vendor,
   address |-> IF a.address = "plain" THEN b.address ELSE a.address,
   container |-> IF a.container = "none" THEN b.container ELSE a.container]

RECURSIVE Evidence(_), EvidenceAll(_)
Evidence(p) ==
  CASE p.kind = "Port" -> {Listening(p.port.config)}
    [] p.kind = "Endpoint" -> {Answer(p.port.config, p.path, p.codes[1], {p.mark}, {})}
    [] p.kind = "Header" ->
         {Answer(IF p.port = AnyPort THEN PortType.Http.config ELSE p.port.config, "/", p.codes[1], {},
                 {<<p.name, p.mark>>})}
    [] p.kind = "MacVendor" -> {[NoEvidence EXCEPT !.vendor = p.vendor]}
    [] p.kind = "IsGateway" -> {[NoEvidence EXCEPT !.address = "routed"]}
    [] p.kind = "DockerContainer" -> {[NoEvidence EXCEPT !.container = "bridge"]}
    [] p.kind = "AnyOf" -> UNION {Evidence(p.of[i]) : i \in DOMAIN p.of}
    [] p.kind = "AllOf" -> EvidenceAll(p.of)
    [] p.kind = "None" -> {}
    [] OTHER -> {NoEvidence}
EvidenceAll(s) ==
  IF s = << >> THEN {NoEvidence}
  ELSE {Join(a, b) : a \in Evidence(Head(s)), b \in EvidenceAll(Tail(s))}

HostOf(e, name) ==
  [tcp |-> e.tcp, udp |-> e.udp, http |-> e.http, vendor |-> e.vendor, address |-> e.address,
   container |-> e.container, subnetHasGateway |-> TRUE, subnetType |-> "Lan",
   mapped |-> {}, arp |-> TRUE, shows |-> name]

Shown(D) == UNION {{HostOf(e, d.name) : e \in Evidence(d.pattern)} : d \in D}

(* Never recognised by a network scan: their endpoint is not requested, or *)
(* their UDP port is not probed.                                           *)
NeverProbed == {AnsibleAWX, BigBlueButton, CrowdSec, FreeIPA, JiraServer, MinIO, Tyk, OpenVpn, Wireguard}

(* Recognised only for some of the alternatives of their pattern           *)
PartlyProbed == {HpPrinter, OpnSense, Plex, PrintServer, DhcpServer}

(* Recognised or not depending on the link order                           *)
OrderDependent == {GoogleHome, ChromecastDevice, Workstation, Switch}

(* These two ask for nothing of their own.                                 *)
Residual == {OpenPorts, DockerContainer}

Alone == Shown(AllServiceDefinitions \ (NeverProbed \cup PartlyProbed \cup OrderDependent \cup Residual))

Silently(H) == {[h EXCEPT !.shows = "nothing"] : h \in H}

(* Hosts that run two services which ask for a common port or address      *)
Contending == {PiHole, PowerDNS, Unbound, Synology, QNAP, FileZillaServer, ActiveDirectory, TrueNAS,
               Workstation, Switch, GoogleHome, ChromecastDevice, EeroGateway, Gateway, Ssh, Overseerr, Jellyseerr}

Pairs == UNION {{HostOf(Join(a, b), "nothing") : a \in Evidence(d.pattern), b \in Evidence(e.pattern)} :
                  d \in Contending, e \in Contending}

(* Hosts reached through a router (no ARP), and hosts at a usual gateway   *)
(* address of a subnet whose gateway the daemon does not know              *)
Elsewhere(D) == {[h EXCEPT !.arp = FALSE] : h \in Silently(Shown(D))}
AtDot1(D) == {[h EXCEPT !.address = "dot1", !.subnetHasGateway = FALSE] : h \in Silently(Shown(D))}

(* The same services in containers: with host networking, or behind a      *)
(* published port                                                          *)
Contained(D) ==
  {[h EXCEPT !.container = "host"] : h \in Silently(Shown(D))} \cup
  {[h EXCEPT !.container = "bridge", !.mapped = {<<p, <<8090, "tcp">>>> : p \in h.tcp}] :
     h \in Silently(Shown(D))}

MCHosts ==
  Alone \cup Pairs \cup Silently(Shown(PartlyProbed \cup OrderDependent \cup NeverProbed)) \cup Elsewhere(Contending)
    \cup AtDot1({Gateway, Switch, FiosExtender, EeroRepeater}) \cup
    Contained(Contending \cup {DockerContainer, QBittorrent, ConfluenceServer, OpenVpn, CrowdSec})

(* For the disagreement                                                    *)
EndpointHosts == Shown({d \in AllServiceDefinitions : d.pattern.kind = "Endpoint"})
=============================================================================
