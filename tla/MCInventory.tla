----------------------------- MODULE MCInventory -----------------------------
(* A machine that is reported twice, the second time with other ids and    *)
(* with a service on a port that is new, and a machine with two addresses  *)
(* on one network card.                                                    *)
EXTENDS Inventory

CONSTANTS h1, h2, h3, h4, i1, i2, i3, i4, i5, p1, p2, p3, p4, p5, p6,
          s1, s2, s3, s4, s5, s6, s7, b1, b2, b3, b4, b5, b6, b7

Binding(b, p, i) == [id |-> b, port |-> p, iface |-> i]
MCService(s, def, name, ctr, bs) == [id |-> s, def |-> def, name |-> name, ctr |-> ctr, bindings |-> bs]

MCFirst == [net |-> "net", host |-> h1,
    ifaces   |-> <<[id |-> i1, ip |-> 1, mac |-> "m1"]>>,
    ports    |-> <<[id |-> p1, num |-> 80], [id |-> p2, num |-> 22]>>,
    services |-> <<MCService(s1, "web", "a", NoContainer, <<Binding(b1, p1, AllIfaces)>>),
                   MCService(s2, "any", "a", NoContainer, <<Binding(b2, p2, i1)>>)>>]

MCAgain == [net |-> "net", host |-> h2,
    ifaces   |-> <<[id |-> i2, ip |-> 1, mac |-> NoMac]>>,
    ports    |-> <<[id |-> p3, num |-> 80], [id |-> p4, num |-> 443]>>,
    services |-> <<MCService(s3, "any", "b", "docker", <<Binding(b3, p3, i2), Binding(b4, p4, i2)>>)>>]

MCOther == [net |-> "net", host |-> h3,
    ifaces   |-> <<[id |-> i3, ip |-> 2, mac |-> "m2"], [id |-> i4, ip |-> 3, mac |-> "m2"]>>,
    ports    |-> <<[id |-> p5, num |-> 80]>>,
    services |-> <<MCService(s4, "gateway", "a", NoContainer, <<Binding(b5, NoPort, i3)>>),
                   MCService(s5, "web", "b", NoContainer, <<Binding(b6, p5, i4)>>)>>]

MCReports == {MCFirst, MCAgain, MCOther}

MCKind == [d \in {"web", "any", "gateway", "open"} |->
             CASE d = "web" -> "specific" [] d = "any" -> "generic" [] OTHER -> "singleton"]
MCNewIds == [host |-> {h4}, iface |-> {i5}, port |-> {p6}, svc |-> {s6, s7}, bind |-> {b7}]
MCDefinitions == DOMAIN MCKind
=============================================================================
