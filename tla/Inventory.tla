------------------------------ MODULE Inventory ------------------------------
(***************************************************************************)
(* Hosts with their interfaces, ports, services and bindings, and the      *)
(* groups of bindings: the tables of the server and the requests that      *)
(* change them (server/hosts, services, bindings, interfaces, ports,       *)
(* groups).                                                                *)
(*                                                                         *)
(* A request is a call in a slot; its steps lie between the database       *)
(* accesses of the code, and a step that fails ends the request there,     *)
(* what it has written so far stays.  An ip stands for subnet and address, *)
(* a number for port number and protocol.  Left out: tags, discovery       *)
(* metadata, the positions services are listed in.                         *)
(***************************************************************************)
EXTENDS Naturals, FiniteSets, SequencesExt

CONSTANTS
    Networks, HostIds, IfaceIds, PortIds, ServiceIds, BindIds, Groups,
    Ips, Macs, Numbers, Names,
    Containers,
    NoMac,         \* mac_address None
    NoContainer,   \* virtualization None
    Definitions,   \* service definitions ...
    Kind,          \* ... each "specific", "generic" or "singleton" (Gateway, OpenPorts)
    OpenPorts,     \* the definition of unclaimed ports
    AllIfaces,     \* interface_id None: the binding is for every interface
    NoPort,        \* an Interface binding
    NoRow,         \* no such row
    Reports,       \* what daemons report and users create: hosts with children
    NoReport,
    NewIds,        \* [table |-> ids the server or the user interface makes]
    Kinds,         \* the kinds of requests there are
    Slots,         \* requests the server may be working on at once: one
    MaxRequests    \* bound: requests in a behaviour

\* What the tables hold, references apart.
Sources   == {"manual", "discovery"}
HostRow   == [net : Networks, src : Sources]
IfaceRow  == [host : HostIds, ip : Ips, mac : Macs \cup {NoMac}]
PortRow   == [host : HostIds, num : Numbers]
SvcRow    == [host : HostIds, def : Definitions, name : Names, src : Sources,
              ctr : Containers \cup {NoContainer}]
BindRow   == [svc : ServiceIds, port : PortIds \cup {NoPort}, iface : IfaceIds \cup {AllIfaces}]

\* What reports and edits hold.
IfaceData == [id : IfaceIds, ip : Ips, mac : Macs \cup {NoMac}]
PortData  == [id : PortIds, num : Numbers]
Bindings  == [id : BindIds, port : PortIds \cup {NoPort}, iface : IfaceIds \cup {AllIfaces}]
SvcData   == [id : ServiceIds, def : Definitions, name : Names, ctr : Containers \cup {NoContainer},
              bindings : Seq(Bindings)]

ASSUME InventoryAssumption ==
    /\ Kind \in [Definitions -> {"specific", "generic", "singleton"}]
    /\ \E x \in Definitions : Kind[x] = "generic"
    /\ OpenPorts \in Definitions /\ Kind[OpenPorts] = "singleton"
    /\ AllIfaces \notin IfaceIds /\ NoPort \notin PortIds
    /\ NoReport \notin Reports
    /\ NoMac \notin Macs
    /\ Names # {}
    /\ MaxRequests \in Nat

ASSUME IdsAssumption ==
    /\ IsFiniteSet(Bindings)
    /\ NewIds.host \subseteq HostIds /\ NewIds.iface \subseteq IfaceIds /\ NewIds.port \subseteq PortIds
    /\ NewIds.svc \subseteq ServiceIds /\ NewIds.bind \subseteq BindIds
    /\ NoRow \notin HostRow /\ NoRow \notin IfaceRow /\ NoRow \notin PortRow
    /\ NoRow \notin SvcRow /\ NoRow \notin BindRow

ASSUME ReportsAssumption ==
    \A r \in Reports : /\ r.net \in Networks /\ r.host \in HostIds
                       /\ r.ifaces \in Seq(IfaceData) /\ r.ports \in Seq(PortData)
                       /\ r.services \in Seq(SvcData)

\* The server checks and writes a service in one step here, which is faithful
\* to the code as long as no other request comes in between.
ASSUME OneRequest == \A s, t \in Slots : s = t

VARIABLES
    db,      \* the tables
    call,    \* [Slots -> what the request in the slot is doing]
    last,    \* the report whose effect the tables still are, or NoReport
    loose,   \* services whose bindings were changed without the checks of ServiceService
    count    \* requests so far

invVars == <<db, call, last, loose, count>>

-----------------------------------------------------------------------------
(* The tables *)

Rows(table) == {x \in DOMAIN table : table[x] # NoRow}

IfacesOf(d, h)   == {i \in Rows(d.iface) : d.iface[i].host = h}
PortsOf(d, h)    == {p \in Rows(d.port) : d.port[p].host = h}
ServicesOf(d, h) == {s \in Rows(d.svc) : d.svc[s].host = h}
BindingsOf(d, s) ==
    {[id |-> b, port |-> d.bind[b].port, iface |-> d.bind[b].iface] :
        b \in {x \in Rows(d.bind) : d.bind[x].svc = s}}

\* Of the rows, the given ones are kept.
Retain(table, ids) == [x \in DOMAIN table |-> IF x \in ids THEN table[x] ELSE NoRow]

\* Mutant: the bindings of a deleted interface stay.
CascadeWithoutInterfaces(d) ==
    LET OnHost(table) == {x \in Rows(table) : d.host[table[x].host] # NoRow}
        s == OnHost(d.svc)
        p == OnHost(d.port)
        b == {x \in Rows(d.bind) : d.bind[x].svc \in s /\ d.bind[x].port \in p \cup {NoPort}}
    IN  [d EXCEPT !.iface = Retain(@, OnHost(@)), !.port = Retain(@, p), !.svc = Retain(@, s),
                  !.bind = Retain(@, b),
                  !.group = [g \in Groups |-> IF @[g] = NoRow THEN NoRow ELSE @[g] \cap b]]

\* ON DELETE CASCADE, from hosts down to group_bindings.
Cascade(d) ==
    LET OnHost(table) == {x \in Rows(table) : d.host[table[x].host] # NoRow}
        i == OnHost(d.iface)
        p == OnHost(d.port)
        s == OnHost(d.svc)
        b == {x \in Rows(d.bind) : /\ d.bind[x].svc \in s
                                   /\ d.bind[x].port \in p \cup {NoPort}
                                   /\ d.bind[x].iface \in i \cup {AllIfaces}}
    IN  [d EXCEPT !.iface = Retain(@, i), !.port = Retain(@, p), !.svc = Retain(@, s),
                  !.bind = Retain(@, b),
                  !.group = [g \in Groups |-> IF @[g] = NoRow THEN NoRow ELSE @[g] \cap b]]

Delete(d, table, ids) ==
    Cascade([d EXCEPT ![table] = [x \in DOMAIN @ |-> IF x \in ids THEN NoRow ELSE @[x]]])

-----------------------------------------------------------------------------
(* Bindings: [id, port, iface] *)

SameType(a, b) == a.port = b.port /\ a.iface = b.iface

\* Two services claim the same port on a common interface.
Overlaps(a, b) ==
    /\ a.port # NoPort /\ a.port = b.port
    /\ a.iface = b.iface \/ AllIfaces \in {a.iface, b.iface}

\* validate_binding_no_conflict: in one service, an Interface binding and a
\* Port binding on that interface, or on all.
Clash(a, b) ==
    /\ (a.port = NoPort) # (b.port = NoPort)
    /\ a.iface = b.iface \/ AllIfaces \in {a.iface, b.iface}

\* An all-interfaces binding of the same port makes a specific one redundant.
Covers(a, b) ==
    a.port # NoPort /\ a.port = b.port /\ a.iface = AllIfaces /\ b.iface # AllIfaces

\* The elements of sequence s at the positions in I.
Select(s, I) ==
    LET upTo[i \in 0..Len(s)] ==
            IF i = 0 THEN <<>> ELSE IF i \in I THEN Append(upTo[i - 1], s[i]) ELSE upTo[i - 1]
    IN  upTo[Len(s)]

\* Mutant: nothing is dropped.
DeduplicateNothing(bs) == bs

\* deduplicate_bindings: the redundant ones go, and all but the first of a type.
Deduplicate(bs) ==
    Select(bs, {i \in DOMAIN bs : /\ ~\E a \in ToSet(bs) : Covers(a, bs[i])
                                  /\ ~\E j \in 1..(i - 1) : SameType(bs[j], bs[i])})

NoConflicts(B) == \A a, b \in B : ~Clash(a, b)

\* validate_bindings_belong_to_host
BelongToHost(d, h, B) ==
    \A b \in B : /\ b.port # NoPort => b.port \in PortsOf(d, h)
                 /\ b.iface # AllIfaces => b.iface \in IfacesOf(d, h)

\* What the other services of the host claim.
ClaimedByOthers(d, h, s) == UNION {BindingsOf(d, t) : t \in ServicesOf(d, h) \ {s}}

\* validate_bindings_available
Available(d, h, s, B) == \A b \in B : \A a \in ClaimedByOthers(d, h, s) : ~Overlaps(a, b)

\* Mutant: what is new replaces what was there.
MergeOneReplaces(B, b) == {b}

\* The loop body of upsert_service: B is what the service has, b what is new.
MergeOne(B, b) ==
    IF (\E a \in B : Covers(a, b)) \/ (\E a \in B : Clash(a, b)) THEN B
    ELSE LET kept == {a \in B : ~Covers(b, a)}
         IN  IF \E a \in kept : SameType(a, b) THEN kept ELSE kept \cup {b}

\* The loop of upsert_service.
Merged(B, bs) ==
    LET upTo[i \in 0..Len(bs)] == IF i = 0 THEN B ELSE MergeOne(upTo[i - 1], bs[i])
    IN  upTo[Len(bs)]

\* save_for_parent: the bindings of s become B, those with an id it has are
\* updated; an id that another service has violates the primary key.
SaveBindings(d, s, B) ==
    LET own  == {b.id : b \in BindingsOf(d, s)}
        kept == Delete(d, "bind", own \ {b.id : b \in B})
    IN  IF \E b \in B : b.id \notin own /\ d.bind[b.id] # NoRow
        THEN [ok |-> FALSE, db |-> kept]
        ELSE [ok |-> TRUE,
              db |-> [kept EXCEPT !.bind = [x \in BindIds |->
                        IF \E b \in B : b.id = x
                        THEN LET b == CHOOSE b \in B : b.id = x
                             IN  [svc |-> s, port |-> b.port, iface |-> b.iface]
                        ELSE @[x]]]]

-----------------------------------------------------------------------------
(* ServiceService *)

\* Service::eq for services of one host: generic ones by container, or by a
\* port if one of them is in none.
SameService(d, x, s, row, B) ==
    \/ x = s
    \/ /\ d.svc[x].def = row.def
       /\ \/ Kind[row.def] # "generic"
          \/ IF NoContainer \in {d.svc[x].ctr, row.ctr}
             THEN \E a \in BindingsOf(d, x), b \in B : a.port # NoPort /\ a.port = b.port
             ELSE d.svc[x].ctr = row.ctr

\* The service that is created is merged into its twin: both are discovered, or
\* they have one id.
Upserts(d, s, row, twin) ==
    twin # NoRow /\ (twin = s \/ (row.src = "discovery" /\ d.svc[twin].src = "discovery"))

\* create: [ok, db] for service s on an existing host; the twin is the equal
\* service that comes first, or NoRow.
CreateService(d, s, row, bindings, twin) ==
    LET bs == Deduplicate(bindings)
        B  == ToSet(bs)
    IN  IF Upserts(d, s, row, twin)
        THEN SaveBindings([d EXCEPT !.svc[twin].src = IF row.src = "discovery" THEN row.src ELSE @,
                                    !.svc[twin].ctr = IF row.ctr # NoContainer THEN row.ctr ELSE @],
                          twin, Merged(BindingsOf(d, twin), bs))
        ELSE IF /\ d.svc[s] = NoRow /\ d.host[row.host] # NoRow
                /\ NoConflicts(B)
                /\ BelongToHost(d, row.host, B)
                /\ row.src = "discovery" \/ Available(d, row.host, s, B)
             THEN SaveBindings([d EXCEPT !.svc[s] = row], s, B)
             ELSE [ok |-> FALSE, db |-> d]

Twins(d, s, row, bindings) ==
    LET equal == {x \in ServicesOf(d, row.host) : SameService(d, x, s, row, ToSet(Deduplicate(bindings)))}
    IN  IF equal = {} THEN {NoRow} ELSE equal

\* Mutant: what other services claim is not looked at.
UpdateServiceUnchecked(d, s, row, bindings) ==
    LET B == ToSet(Deduplicate(bindings))
    IN  IF d.svc[s] # NoRow /\ NoConflicts(B) /\ BelongToHost(d, row.host, B)
        THEN SaveBindings([d EXCEPT !.svc[s] = row], s, B)
        ELSE [ok |-> FALSE, db |-> d]

\* Mutant: the ports and interfaces need not be those of the host.
UpdateServiceAnywhere(d, s, row, bindings) ==
    LET B == ToSet(Deduplicate(bindings))
    IN  IF /\ d.svc[s] # NoRow /\ NoConflicts(B) /\ Available(d, row.host, s, B)
           /\ \A b \in B : /\ b.port # NoPort => d.port[b.port] # NoRow
                           /\ b.iface # AllIfaces => d.iface[b.iface] # NoRow
        THEN SaveBindings([d EXCEPT !.svc[s] = row], s, B)
        ELSE [ok |-> FALSE, db |-> d]

\* update_group_service_bindings: the groups without the bindings lost.
Ungrouped(d, lost) ==
    [g \in Groups |-> IF d.group[g] = NoRow THEN NoRow ELSE d.group[g] \ lost]

UpdateService(d, s, row, bindings) ==
    LET B    == ToSet(Deduplicate(bindings))
        lost == {b.id : b \in BindingsOf(d, s)} \ {b.id : b \in B}
    IN  IF /\ d.svc[s] # NoRow
           /\ NoConflicts(B)
           /\ BelongToHost(d, row.host, B)
           /\ Available(d, row.host, s, B)
        THEN SaveBindings([d EXCEPT !.svc[s] = row, !.group = Ungrouped(d, lost)], s, B)
        ELSE [ok |-> FALSE, db |-> d]

-----------------------------------------------------------------------------
(* Requests *)

Idle == [kind |-> "none", pc |-> "idle"]

\* A request arrives in a free slot.
Begin(slot, c) ==
    /\ call[slot] = Idle
    /\ count < MaxRequests
    /\ count' = count + 1
    /\ call' = [call EXCEPT ![slot] = c]

\* The tables become d; L are the loose services.
Write(d, L) ==
    /\ db' = d
    /\ last' = IF d = db THEN last ELSE NoReport
    /\ loose' = L \cap Rows(d.svc)

\* The slot goes on with c.
Continue(slot, c, d) ==
    /\ call' = [call EXCEPT ![slot] = c]
    /\ Write(d, loose)
    /\ UNCHANGED count

\* A request of one step.
AtOnce(d, L) ==
    /\ \E slot \in Slots : call[slot] = Idle
    /\ count < MaxRequests
    /\ count' = count + 1
    /\ Write(d, L)
    /\ UNCHANGED call

\* A new id: any that is not in use.
Fresh(table) ==
    LET free == NewIds[table] \ Rows(db[table])
    IN  IF free = {} THEN {} ELSE {CHOOSE x \in free : TRUE}

\* The daemon did not receive the answer, the database fails, the server
\* restarts: nothing more of the request happens.
RequestFails(slot) ==
    /\ call[slot] # Idle
    /\ Continue(slot, Idle, db)

-----------------------------------------------------------------------------
(* create_with_children: a report of a daemon (discover_host, upsert) or a *)
(* host made by a user (create_from_request)                               *)

\* Interface::eq; iface is [id, ip, mac]
SameIface(a, b) ==
    \/ a.ip = b.ip
    \/ a.mac = b.mac /\ a.mac # NoMac
    \/ a.id = b.id

IfaceRec(d, i) == [id |-> i, ip |-> d.iface[i].ip, mac |-> d.iface[i].mac]

\* find_matching_host_by_interfaces
MatchingHosts(d, net, ifaces) ==
    {h \in Rows(d.host) :
        /\ d.host[h].net = net
        /\ \E i \in IfacesOf(d, h), j \in ToSet(ifaces) : SameIface(IfaceRec(d, i), j)}

\* upsert_host: a discovered host stays or becomes one.
MergeSource(old, new) == IF new = "discovery" THEN new ELSE old

ReportArrives(slot, r, upsert) ==
    /\ Begin(slot, [kind |-> "report", pc |-> "lookup", report |-> r, upsert |-> upsert,
                    retry |-> upsert /\ r = last])
    /\ UNCHANGED <<db, last, loose>>

DiscoverHost(slot, r) == "report" \in Kinds /\ ReportArrives(slot, r, TRUE)
CreateHost(slot, r)   == "create" \in Kinds /\ ReportArrives(slot, r, FALSE)

\* The host is found by its interfaces; if not, it has the id the daemon gave
\* it, or a new one.
ReportLookup(slot) ==
    LET c       == call[slot]
        matches == MatchingHosts(db, c.report.net, c.report.ifaces)
        ids     == IF matches # {} THEN matches
                   ELSE IF c.upsert THEN {c.report.host} ELSE Fresh("host")
        Found(h) == [kind |-> "report", pc |-> "host", report |-> c.report, upsert |-> c.upsert,
                    retry |-> c.retry, host |-> h, src |-> IF c.upsert THEN "discovery" ELSE "manual"]
    IN  /\ c.pc = "lookup"
        /\ IF matches # {} /\ ~c.upsert
           THEN Continue(slot, Idle, db)
           ELSE \E h \in ids : Continue(slot, Found(h), db)

\* create of HostService: a known host takes the discovered source.
ReportHost(slot) ==
    LET c    == call[slot]
        row  == db.host[c.host]
        next == [kind |-> "report", pc |-> "children", report |-> c.report, upsert |-> c.upsert,
                 retry |-> c.retry, host |-> c.host, src |-> c.src, ifaces |-> <<>>, ports |-> <<>>,
                 done |-> 0, claimed |-> {}, orphans |-> <<>>, held |-> FALSE]
    IN  /\ c.pc = "host"
        /\ IF row = NoRow
           THEN Continue(slot, next, [db EXCEPT !.host[c.host] = [net |-> c.report.net, src |-> c.src]])
           ELSE IF row.net # c.report.net THEN Continue(slot, Idle, db)
           ELSE Continue(slot, next, [db EXCEPT !.host[c.host].src = MergeSource(@, c.src)])

\* An interface or port the daemon reports again is found by id or by its
\* key on the host; everything else is created, unless the host is gone or
\* the id or the key is taken.
ReportIface(slot) ==
    LET c     == call[slot]
        i     == c.report.ifaces[Len(c.ifaces) + 1]
        byKey == {x \in IfacesOf(db, c.host) : db.iface[x].ip = i.ip}
        Got(x) == [c EXCEPT !.ifaces = Append(@, x)]
    IN  /\ c.pc = "children" /\ Len(c.ifaces) < Len(c.report.ifaces)
        /\ IF c.upsert /\ db.iface[i.id] # NoRow THEN Continue(slot, Got(IfaceRec(db, i.id)), db)
           ELSE IF c.upsert /\ byKey # {}
           THEN \E x \in byKey : Continue(slot, Got(IfaceRec(db, x)), db)
           ELSE IF db.iface[i.id] # NoRow \/ byKey # {} \/ db.host[c.host] = NoRow
           THEN Continue(slot, Idle, db)
           ELSE Continue(slot, Got(i), [db EXCEPT !.iface[i.id] =
                    [host |-> c.host, ip |-> i.ip, mac |-> i.mac]])

ReportPort(slot) ==
    LET c     == call[slot]
        p     == c.report.ports[Len(c.ports) + 1]
        byKey == {x \in PortsOf(db, c.host) : db.port[x].num = p.num}
        Got(x, num) == [c EXCEPT !.ports = Append(@, [id |-> x, num |-> num])]
    IN  /\ c.pc = "children" /\ Len(c.ifaces) = Len(c.report.ifaces)
        /\ Len(c.ports) < Len(c.report.ports)
        /\ IF c.upsert /\ db.port[p.id] # NoRow THEN Continue(slot, Got(p.id, db.port[p.id].num), db)
           ELSE IF c.upsert /\ byKey # {}
           THEN \E x \in byKey : Continue(slot, Got(x, p.num), db)
           ELSE IF db.port[p.id] # NoRow \/ byKey # {} \/ db.host[c.host] = NoRow
           THEN Continue(slot, Idle, db)
           ELSE Continue(slot, Got(p.id, p.num), [db EXCEPT !.port[p.id] =
                    [host |-> c.host, num |-> p.num]])

\* The first of the positions in I, or 0.
First(I) == IF I = {} THEN 0 ELSE Min(I)

\* reassign_service_interface_bindings: the ids of the report become those of
\* the tables.  A port binding whose interface is not found is for all of
\* them; a binding whose port, or an Interface binding whose interface, is
\* not found is dropped.
Reassign(c, bindings) ==
    LET Iface(b) ==
            LET old == First({k \in DOMAIN c.report.ifaces : c.report.ifaces[k].id = b.iface})
                new == First({k \in DOMAIN c.ifaces : SameIface(c.ifaces[k], c.report.ifaces[old])})
            IN  IF b.iface = AllIfaces \/ old = 0 THEN AllIfaces
                ELSE IF new = 0 THEN AllIfaces ELSE c.ifaces[new].id
        Port(b) ==
            LET old == First({k \in DOMAIN c.report.ports : c.report.ports[k].id = b.port})
                new == First({k \in DOMAIN c.ports : c.ports[k].num = c.report.ports[old].num})
            IN  IF old = 0 \/ new = 0 THEN NoPort ELSE c.ports[new].id
        Found(b) == IF b.port = NoPort THEN Iface(b) # AllIfaces ELSE Port(b) # NoPort
        Mapped(b) == [id |-> b.id, port |-> IF b.port = NoPort THEN NoPort ELSE Port(b), iface |-> Iface(b)]
    IN  Select([k \in DOMAIN bindings |-> Mapped(bindings[k])], {k \in DOMAIN bindings : Found(bindings[k])})

\* partition_conflicting_bindings: against the tables and the batch.
Conflicting(c, d, s, bs) ==
    {b \in ToSet(bs) : \E a \in c.claimed \cup ClaimedByOthers(d, c.host, s) : Overlaps(a, b)}

\* A row that was found by its id and that a user has moved to another host.
Elsewhere(c, d) ==
    \/ \E i \in ToSet(c.ifaces) : d.iface[i.id].host # c.host
    \/ \E p \in ToSet(c.ports) : d.port[p.id].host # c.host

\* An orphan that a service of the host holds all the same: the dropped
\* service is in the tables, or a later one of the report claims it.
Twice(c) ==
    c.held \/ \E a \in c.claimed, b \in ToSet(c.orphans) : Overlaps(a, b)

\* A service in conflict is dropped and its other bindings are orphans.  The
\* conflicts were sought for svc.id: if there is such a service and the upsert
\* goes to its twin, the two may overlap.
ReportService(slot) ==
    LET c      == call[slot]
        svc    == c.report.services[c.done + 1]
        bs     == Reassign(c, svc.bindings)
        bad    == Conflicting(c, db, svc.id, bs)
        row    == [host |-> c.host, def |-> svc.def, name |-> svc.name, src |-> c.src,
                   ctr |-> svc.ctr]
        Result(twin) == CreateService(db, svc.id, row, bs, twin)
        IsPort(b) == b.port # NoPort
        good   == Select(bs, {k \in DOMAIN bs : bs[k] \notin bad})
        again  == svc.id \in ServicesOf(db, c.host)
        Unsafe(twin) == /\ Upserts(db, svc.id, row, twin)
                        /\ Elsewhere(c, db) \/ (again /\ twin # svc.id)
    IN  /\ c.pc = "children" /\ Len(c.ports) = Len(c.report.ports)
        /\ c.done < Len(c.report.services)
        /\ IF bad # {}
           THEN Continue(slot, [c EXCEPT !.done = @ + 1, !.orphans = @ \o good, !.held = @ \/ again], db)
           ELSE \E twin \in Twins(db, svc.id, row, bs) :
                  /\ call' = [call EXCEPT ![slot] =
                                 IF Result(twin).ok
                                 THEN [c EXCEPT !.done = @ + 1,
                                                !.claimed = @ \cup {b \in ToSet(bs) : IsPort(b)}]
                                 ELSE Idle]
                  /\ Write(Result(twin).db, IF Unsafe(twin) THEN loose \cup {twin} ELSE loose)
                  /\ UNCHANGED count

\* The orphans go to the Open Ports service of the host, then the request is
\* answered.
ReportEnds(slot) ==
    LET c   == call[slot]
        row == [host |-> c.host, def |-> OpenPorts, name |-> CHOOSE n \in Names : TRUE, src |-> "discovery",
                ctr |-> NoContainer]
        Result(s, twin) == CreateService(db, s, row, c.orphans, twin)
        Unsafe(s, twin) == LET merged == Upserts(db, s, row, twin)
                           IN  IF Twice(c) \/ (merged /\ Elsewhere(c, db))
                               THEN {IF merged THEN twin ELSE s} ELSE {}
        Applied(d, L) == /\ db' = d /\ loose' = L \cap Rows(d.svc)
                         /\ last' = IF c.upsert THEN c.report ELSE IF d = db THEN last ELSE NoReport
    IN  /\ c.pc = "children" /\ Len(c.ports) = Len(c.report.ports)
        /\ c.done = Len(c.report.services)
        /\ call' = [call EXCEPT ![slot] = Idle]
        /\ UNCHANGED count
        /\ IF c.orphans = <<>> THEN Applied(db, loose)
           ELSE \E s \in Fresh("svc") :
                \E twin \in Twins(db, s, row, c.orphans) :
                   Applied(Result(s, twin).db, loose \cup Unsafe(s, twin))

-----------------------------------------------------------------------------
(* update_from_request: the user sends the host with all its children *)

\* The children as the user interface shows them.
Shown(d, h) ==
    [ifaces |-> IfacesOf(d, h), ports |-> PortsOf(d, h), added |-> {},
     svcs   |-> [s \in ServicesOf(d, h) |-> BindingsOf(d, s)]]

\* What a user may send: a child removed, a binding changed, moved to another
\* service or exchanged with one, a service added on a new port.
EditsOf(d, h) ==
    LET e == Shown(d, h)
        S == DOMAIN e.svcs
        Owned   == {x \in S \X UNION {e.svcs[s] : s \in S} : x[2] \in e.svcs[x[1]]}
        Targets == [port : e.ports, iface : e.ifaces \cup {AllIfaces}]
                   \cup [port : {NoPort}, iface : e.ifaces]
        With(b, t) == [id |-> b.id, port |-> t.port, iface |-> t.iface]
        Removals  == {[e EXCEPT !.ifaces = @ \ {i}] : i \in e.ifaces}
                     \cup {[e EXCEPT !.ports = @ \ {p}] : p \in e.ports}
                     \cup {[e EXCEPT !.svcs = [x \in S \ {s} |-> e.svcs[x]]] : s \in S}
        Put(m, s, gone, new) == [m EXCEPT ![s] = (@ \ gone) \cup new]
        Changes   == {[e EXCEPT !.svcs = Put(@, x[1], {x[2]}, {With(x[2], t)})] : x \in Owned, t \in Targets}
        Moves     == {[e EXCEPT !.svcs = Put(Put(@, x[1], {x[2]}, {}), t, {}, {x[2]})] : x \in Owned, t \in S}
        Exchanges == {[e EXCEPT !.svcs = Put(Put(@, x[1], {x[2]}, {With(x[2], y[2])}),
                                             y[1], {y[2]}, {With(y[2], x[2])})] : x, y \in Owned}
        Additions == {[ifaces |-> e.ifaces, ports |-> e.ports, added |-> {[id |-> q, num |-> n]},
                       svcs |-> [x \in S \cup {s} |-> IF x \in S THEN e.svcs[x]
                                                       ELSE {[id |-> b, port |-> q, iface |-> AllIfaces]}]] :
                         q \in Fresh("port"), s \in Fresh("svc"), b \in Fresh("bind"), n \in Numbers}
    IN  Removals \cup Changes \cup Moves \cup Exchanges \cup Additions

EditArrives(slot, h, e) ==
    /\ Begin(slot, [kind |-> "edit", pc |-> "edit", host |-> h, input |-> e])
    /\ UNCHANGED <<db, last, loose>>

\* The host row is updated, then the interfaces, the ports and the services
\* are synchronised.
EditHost(slot) ==
    /\ call[slot].pc = "edit"
    /\ Continue(slot, IF db.host[call[slot].host] = NoRow THEN Idle ELSE [call[slot] EXCEPT !.pc = "ifaces"], db)

EditIfaces(slot) ==
    LET c == call[slot]
    IN  /\ c.pc = "ifaces"
        /\ Continue(slot, [c EXCEPT !.pc = "ports"],
                    Delete(db, "iface", IfacesOf(db, c.host) \ c.input.ifaces))

EditPorts(slot) ==
    LET c    == call[slot]
        kept == Delete(db, "port", PortsOf(db, c.host) \ c.input.ports)
        new  == [p \in {x.id : x \in c.input.added} |->
                    [host |-> c.host, num |-> (CHOOSE x \in c.input.added : x.id = p).num]]
        taken == \E p \in DOMAIN new : \/ kept.port[p] # NoRow \/ kept.host[c.host] = NoRow
                                       \/ \E q \in PortsOf(kept, c.host) : kept.port[q].num = new[p].num
    IN  /\ c.pc = "ports"
        /\ IF taken THEN Continue(slot, Idle, kept)
           ELSE Continue(slot, [c EXCEPT !.pc = "removed"],
                         [kept EXCEPT !.port = [p \in PortIds |-> IF p \in DOMAIN new THEN new[p] ELSE @[p]]])

\* The services that are not sent are deleted; of the others, those that lose
\* a port come first.
EditRemoved(slot) ==
    LET c     == call[slot]
        now   == ServicesOf(db, c.host)
        Loses(s) == \E b \in BindingsOf(db, s) :
                       /\ b.port # NoPort
                       /\ ~\E x \in c.input.svcs[s] : SameType(x, b)
        sent  == DOMAIN c.input.svcs
    IN  /\ c.pc = "removed"
        /\ Continue(slot,
                    [kind |-> "edit", pc |-> "services", host |-> c.host, input |-> c.input,
                     known |-> now \cap sent, losing |-> {s \in now \cap sent : Loses(s)},
                     others |-> {s \in sent : s \notin now \/ ~Loses(s)}],
                    Delete(db, "svc", now \ sent))

NextInput(c) == IF c.losing # {} THEN c.losing ELSE c.others

\* One service is updated or, if new, created; the first one refused ends it.
EditService(slot) ==
    LET c   == call[slot]
        Bs(s) == SetToSeq(c.input.svcs[s])
        Row(s) == IF s \in c.known /\ db.svc[s] # NoRow THEN [db.svc[s] EXCEPT !.host = c.host]
                  ELSE [host |-> c.host, def |-> CHOOSE x \in Definitions : Kind[x] = "generic",
                        name |-> CHOOSE n \in Names : TRUE, src |-> "manual", ctr |-> NoContainer]
        Step(s, res) == /\ call' = [call EXCEPT ![slot] =
                                       IF res.ok THEN [c EXCEPT !.losing = @ \ {s}, !.others = @ \ {s}]
                                       ELSE [c EXCEPT !.pc = "refused"]]
                        /\ Write(res.db, IF res.ok THEN loose \ {s} ELSE loose)
                        /\ UNCHANGED count
    IN  /\ c.pc = "services"
        /\ \E s \in NextInput(c) :
             IF s \in c.known THEN Step(s, UpdateService(db, s, Row(s), Bs(s)))
             ELSE \E twin \in Twins(db, s, Row(s), Bs(s)) :
                     Step(s, CreateService(db, s, Row(s), Bs(s), twin))

EditEnds(slot) ==
    /\ \/ call[slot].pc = "refused"
       \/ call[slot].pc = "services" /\ NextInput(call[slot]) = {}
    /\ Continue(slot, Idle, db)

-----------------------------------------------------------------------------
(* consolidate_hosts: other becomes part of host *)

\* Such a host is neither deleted nor consolidated into another.
HasDaemon(h) == h \in db.daemon

ConsolidateArrives(slot, h, o) ==
    /\ h # o /\ ~HasDaemon(o)
    /\ db.host[h].net = db.host[o].net
    /\ Begin(slot, [kind |-> "consolidate", pc |-> "transfer", host |-> h, other |-> o])
    /\ UNCHANGED <<db, last, loose>>

\* Interfaces and ports the host does not have move to it, the others are
\* mapped to those it has.  Until they are moved too, the services of the
\* other host are bound elsewhere.
Transfer(slot) ==
    LET c      == call[slot]
        ifaces == [i \in IfacesOf(db, c.other) |->
                     LET same == {x \in IfacesOf(db, c.host) : SameIface(IfaceRec(db, x), IfaceRec(db, i))}
                     IN  IF same = {} THEN i ELSE CHOOSE x \in same : TRUE]
        ports  == [p \in PortsOf(db, c.other) |->
                     LET same == {x \in PortsOf(db, c.host) : db.port[x].num = db.port[p].num}
                     IN  IF same = {} THEN p ELSE CHOOSE x \in same : TRUE]
        Moved(table, map) == [x \in DOMAIN table |-> IF x \in DOMAIN map /\ map[x] = x
                                                     THEN [table[x] EXCEPT !.host = c.host] ELSE table[x]]
        both   == db.host[c.host] # NoRow /\ db.host[c.other] # NoRow
        next   == [kind |-> "consolidate", pc |-> "merge", host |-> c.host, other |-> c.other,
                   ifaces |-> ifaces, ports |-> ports,
                   left |-> ServicesOf(db, c.other), had |-> ServicesOf(db, c.host)]
    IN  /\ c.pc = "transfer"
        /\ call' = [call EXCEPT ![slot] = IF both THEN next ELSE Idle]
        /\ IF both
           THEN Write([db EXCEPT !.iface = Moved(@, ifaces), !.port = Moved(@, ports),
                                 !.host[c.host].src = MergeSource(@, db.host[c.other].src)],
                      loose \cup ServicesOf(db, c.other))
           ELSE Write(db, loose)
        /\ UNCHANGED count

Remap(c, b) ==
    [id |-> b.id, port |-> IF b.port \in DOMAIN c.ports THEN c.ports[b.port] ELSE b.port,
     iface |-> IF b.iface \in DOMAIN c.ifaces THEN c.ifaces[b.iface]
               ELSE IF b.port = NoPort THEN b.iface ELSE AllIfaces]

\* A service like one the host had is skipped; a refused update ends it.
MergeService(slot) ==
    LET c == call[slot]
        Duplicate(s) == \E t \in c.had \cap Rows(db.svc) :
                            db.svc[t].name = db.svc[s].name /\ db.svc[t].def = db.svc[s].def
        Result(s) == UpdateService(db, s, [db.svc[s] EXCEPT !.host = c.host],
                                   SetToSeq({Remap(c, b) : b \in BindingsOf(db, s)}))
        Next(s, ok) == IF ok THEN [c EXCEPT !.left = @ \ {s}] ELSE Idle
    IN  /\ c.pc = "merge"
        /\ \E s \in c.left :
             IF Duplicate(s) THEN Continue(slot, Next(s, TRUE), db)
             ELSE /\ call' = [call EXCEPT ![slot] = Next(s, Result(s).ok)]
                  /\ Write(Result(s).db, IF Result(s).ok THEN loose \ {s} ELSE loose)
                  /\ UNCHANGED count

\* delete_host of the other: what was not transferred goes with it.
ConsolidateEnds(slot) ==
    LET c == call[slot]
    IN  /\ c.pc = "merge" /\ c.left = {}
        /\ Continue(slot, Idle, IF HasDaemon(c.other) THEN db ELSE Delete(db, "host", {c.other}))

-----------------------------------------------------------------------------
(* Requests for one row *)

\* delete_host and bulk_delete_hosts, and DELETE of the other tables.
DeleteRow(table, x) ==
    /\ x \in Rows(db[table])
    /\ table = "host" => ~HasDaemon(x)
    /\ AtOnce(Delete(db, table, {x}), loose)

\* POST /services
PostService(h, def, name, b) ==
    \E s \in Fresh("svc") :
        LET row == [host |-> h, def |-> def, name |-> name, src |-> "manual", ctr |-> NoContainer]
        IN  \E twin \in Twins(db, s, row, <<b>>) :
               AtOnce(CreateService(db, s, row, <<b>>, twin).db, loose)

\* PUT /services/{id}: the host may be another one of the network.
PutService(s, h, B) ==
    LET res == UpdateService(db, s, [db.svc[s] EXCEPT !.host = h], SetToSeq(B))
    IN  /\ db.host[h].net = db.host[db.svc[s].host].net
        /\ AtOnce(res.db, IF res.ok THEN loose \ {s} ELSE loose)

\* POST /bindings and PUT /bindings/{id}: only the bindings of the service
\* itself are looked at.
PostBinding(s, b) ==
    /\ \A a \in BindingsOf(db, s) : ~Clash(a, b)
    /\ AtOnce(LET d == Delete(db, "bind", {a.id : a \in {a \in BindingsOf(db, s) : Covers(b, a)}})
              IN  [d EXCEPT !.bind[b.id] = [svc |-> s, port |-> b.port, iface |-> b.iface]],
              loose \cup {s})

PutBinding(b) ==
    LET s == db.bind[b.id].svc
    IN  /\ \A a \in BindingsOf(db, s) : a.id # b.id => ~Clash(a, b)
        /\ AtOnce([db EXCEPT !.bind[b.id] = [svc |-> s, port |-> b.port, iface |-> b.iface]],
                  loose \cup {s})

\* POST /ports, POST /interfaces
PostPort(h, num) ==
    /\ \A q \in PortsOf(db, h) : db.port[q].num # num
    /\ \E p \in Fresh("port") : AtOnce([db EXCEPT !.port[p] = [host |-> h, num |-> num]], loose)

PostIface(h, ip, mac) ==
    /\ \A j \in IfacesOf(db, h) : db.iface[j].ip # ip
    /\ \E i \in Fresh("iface") : AtOnce([db EXCEPT !.iface[i] = [host |-> h, ip |-> ip, mac |-> mac]], loose)

\* PUT /ports/{id}, PUT /interfaces/{id}: to another host of the network.
\* The services bound to it are bound to that host from now on.
PutPort(p, h) ==
    /\ h # db.port[p].host /\ db.host[h].net = db.host[db.port[p].host].net
    /\ \A q \in PortsOf(db, h) : db.port[q].num # db.port[p].num
    /\ AtOnce([db EXCEPT !.port[p].host = h],
              loose \cup {db.bind[b].svc : b \in {x \in Rows(db.bind) : db.bind[x].port = p}})

PutIface(i, h) ==
    /\ h # db.iface[i].host /\ db.host[h].net = db.host[db.iface[i].host].net
    /\ \A j \in IfacesOf(db, h) : db.iface[j].ip # db.iface[i].ip
    /\ AtOnce([db EXCEPT !.iface[i].host = h],
              loose \cup {db.bind[b].svc : b \in {x \in Rows(db.bind) : db.bind[x].iface = i}})

\* A group is created or given other bindings, or deleted.
PutGroup(g, B) == AtOnce([db EXCEPT !.group[g] = B], loose)

DeleteGroup(g) == db.group[g] # NoRow /\ AtOnce([db EXCEPT !.group[g] = NoRow], loose)

\* A daemon registers on a host; it is deleted.
RegisterDaemon(h) == ~HasDaemon(h) /\ AtOnce([db EXCEPT !.daemon = @ \cup {h}], loose)
DeleteDaemon(h)   == HasDaemon(h) /\ AtOnce([db EXCEPT !.daemon = @ \ {h}], loose)

-----------------------------------------------------------------------------
NoRows(ids) == [x \in ids |-> NoRow]

InvInit ==
    /\ db = [host |-> NoRows(HostIds), iface |-> NoRows(IfaceIds), port |-> NoRows(PortIds),
             svc |-> NoRows(ServiceIds), bind |-> NoRows(BindIds), group |-> NoRows(Groups), daemon |-> {}]
    /\ call = [slot \in Slots |-> Idle]
    /\ last = NoReport
    /\ loose = {}
    /\ count = 0

ReportStep(slot) ==
    \/ \E r \in Reports : DiscoverHost(slot, r) \/ CreateHost(slot, r)
    \/ ReportLookup(slot) \/ ReportHost(slot) \/ ReportIface(slot) \/ ReportPort(slot)
    \/ ReportService(slot) \/ ReportEnds(slot)

EditStep(slot) ==
    \/ "edit" \in Kinds /\ \E h \in Rows(db.host) : \E e \in EditsOf(db, h) : EditArrives(slot, h, e)
    \/ EditHost(slot) \/ EditIfaces(slot) \/ EditPorts(slot) \/ EditRemoved(slot) \/ EditService(slot) \/ EditEnds(slot)

ConsolidateStep(slot) ==
    \/ "consolidate" \in Kinds /\ \E h, o \in Rows(db.host) : ConsolidateArrives(slot, h, o)
    \/ Transfer(slot) \/ MergeService(slot) \/ ConsolidateEnds(slot)

BindingInputs(id, ports, ifaces) ==
    [id : {id}, port : ports, iface : ifaces \cup {AllIfaces}] \cup [id : {id}, port : {NoPort}, iface : ifaces]

ServiceStep ==
    /\ "service" \in Kinds
    /\ \/ \E h \in Rows(db.host), def \in Definitions, name \in Names, id \in Fresh("bind") :
             \E b \in BindingInputs(id, PortsOf(db, h), IfacesOf(db, h)) : PostService(h, def, name, b)
       \/ \E s \in Rows(db.svc), h \in Rows(db.host) :
             \/ PutService(s, h, BindingsOf(db, s))
             \/ \E b \in BindingsOf(db, s) : \E x \in BindingInputs(b.id, PortsOf(db, h), IfacesOf(db, h)) :
                   PutService(s, h, (BindingsOf(db, s) \ {b}) \cup {x})

RawStep ==
    /\ "raw" \in Kinds
    /\ \/ \E s \in Rows(db.svc), id \in Fresh("bind") :
             \E b \in BindingInputs(id, Rows(db.port), Rows(db.iface)) : PostBinding(s, b)
       \/ \E id \in Rows(db.bind) : \E b \in BindingInputs(id, Rows(db.port), Rows(db.iface)) : PutBinding(b)
       \/ \E h \in Rows(db.host), num \in Numbers : PostPort(h, num)
       \/ \E h \in Rows(db.host), ip \in Ips, mac \in Macs \cup {NoMac} : PostIface(h, ip, mac)
       \/ \E p \in Rows(db.port), h \in Rows(db.host) : PutPort(p, h)
       \/ \E i \in Rows(db.iface), h \in Rows(db.host) : PutIface(i, h)

DeleteStep ==
    "delete" \in Kinds
    /\ \E table \in {"host", "iface", "port", "svc", "bind"} : \E x \in Rows(db[table]) : DeleteRow(table, x)

GroupStep ==
    /\ "group" \in Kinds
    /\ \E g \in Groups : DeleteGroup(g) \/ \E B \in SUBSET Rows(db.bind) : PutGroup(g, B)

DaemonStep == "daemon" \in Kinds /\ \E h \in Rows(db.host) : RegisterDaemon(h) \/ DeleteDaemon(h)

InvNext ==
    \/ \E slot \in Slots : \/ ReportStep(slot) \/ EditStep(slot) \/ ConsolidateStep(slot)
                           \/ RequestFails(slot)
    \/ ServiceStep \/ RawStep \/ DeleteStep \/ GroupStep \/ DaemonStep

InvSpec == InvInit /\ [][InvNext]_invVars

-----------------------------------------------------------------------------
(* Properties *)

Opt(rows) == rows \cup {NoRow}

\* The tables hold rows of their types and no reference to a row that is not
\* there.
InventoryTypeOK ==
    /\ db.host \in [HostIds -> Opt(HostRow)]
    /\ db.iface \in [IfaceIds -> Opt([host : Rows(db.host), ip : Ips, mac : Macs \cup {NoMac}])]
    /\ db.port \in [PortIds -> Opt([host : Rows(db.host), num : Numbers])]
    /\ db.svc \in [ServiceIds -> Opt([host : Rows(db.host), def : Definitions, name : Names,
                                      src : Sources, ctr : Containers \cup {NoContainer}])]
    /\ db.bind \in [BindIds -> Opt([svc : Rows(db.svc), port : Rows(db.port) \cup {NoPort},
                                    iface : Rows(db.iface) \cup {AllIfaces}])]
    /\ db.group \in [Groups -> Opt(SUBSET Rows(db.bind))]
    /\ db.daemon \subseteq Rows(db.host)
    /\ last \in Reports \cup {NoReport}
    /\ loose \subseteq Rows(db.svc)

\* The claims on ports of the services that only ServiceService has changed.
ClaimsOf(s) ==
    IF s \in loose THEN {}
    ELSE {[port |-> b.port, iface |-> b.iface] : b \in {b \in BindingsOf(db, s) : b.port # NoPort}}

Claims == [s \in ServiceIds |-> ClaimsOf(s)]

Registry == INSTANCE PortRegistry
    WITH Services <- ServiceIds, Ports <- PortIds, Interfaces <- IfaceIds, claims <- Claims

\* Whatever reports, edits, consolidations and failures happen in between, a
\* port on an interface is never given to a service while another has it.
ImplementsPortRegistry == Registry!RegistrySpec

\* Bindings name ports and interfaces of the host their service is on.
BindingsOnOwnHost ==
    \A s \in Rows(db.svc) \ loose : BelongToHost(db, db.svc[s].host, BindingsOf(db, s))

\* In one service no binding is there twice, none is redundant, and none for
\* a whole interface is next to one for a port on it.
ServiceBindingsAgree ==
    \A s \in Rows(db.svc) \ loose : \A a, b \in BindingsOf(db, s) :
        a.id # b.id => ~SameType(a, b) /\ ~Covers(a, b) /\ ~Clash(a, b)

\* A report that was applied and is sent again, because the answer was lost,
\* changes nothing (post_with_retry of the daemon).
RetryChangesNothing ==
    [][\A slot \in Slots : call[slot].kind = "report" /\ call[slot].retry => db' = db]_invVars

\* An edit that contradicts nothing: each service's bindings are on the host and agree, no
\* two services want the same port, and no service is left out.
Consistent(d, h, e) ==
    /\ \A s \in DOMAIN e.svcs : /\ BelongToHost(d, h, e.svcs[s])
                                /\ \A a, b \in e.svcs[s] : ~Clash(a, b)
    /\ \A s, t \in DOMAIN e.svcs : s # t => \A a \in e.svcs[s], b \in e.svcs[t] : ~Overlaps(a, b)
    /\ ServicesOf(d, h) \subseteq DOMAIN e.svcs

\* An edit of a host that contradicts nothing is not refused: sync_services puts the
\* services that give bindings up first, "required for port transfers between services to
\* work correctly".
ConsistentEditAccepted ==
    \A slot \in Slots :
        call[slot].pc = "refused" => ~Consistent(db, call[slot].host, call[slot].input)
=============================================================================
