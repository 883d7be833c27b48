CONSTANTS
    h1 = h1  h2 = h2  h3 = h3  h4 = h4
    HostIds = {h1, h2, h3, h4}
    i1 = i1  i2 = i2  i3 = i3  i4 = i4  i5 = i5
    IfaceIds = {i1, i2, i3, i4, i5}
    p1 = p1  p2 = p2  p3 = p3  p4 = p4  p5 = p5  p6 = p6
    PortIds = {p1, p2, p3, p4, p5, p6}
    s1 = s1  s2 = s2  s3 = s3  s4 = s4  s5 = s5  s6 = s6  s7 = s7
    ServiceIds = {s1, s2, s3, s4, s5, s6, s7}
    b1 = b1  b2 = b2  b3 = b3  b4 = b4  b5 = b5  b6 = b6  b7 = b7
    BindIds = {b1, b2, b3, b4, b5, b6, b7}
    Networks = {"net"}
    Groups = {"g"}
    Ips = {1, 2, 3}
    Macs = {"m1", "m2"}
    Numbers = {22, 80, 443}
    Names = {"a", "b"}
    NoMac = NoMac
    Containers = {"docker"}
    NoContainer = NoContainer
    Definitions <- MCDefinitions
    Kind <- MCKind
    OpenPorts = "open"
    AllIfaces = AllIfaces
    NoPort = NoPort
    NoRow = NoRow
    NoReport = NoReport
    NewIds <- MCNewIds
    Reports <- MCReports
    Kinds = {"report", "edit"}
    Slots = {"c1"}
    MaxRequests = 2
SPECIFICATION InvSpec
INVARIANT
    ConsistentEditAccepted
CHECK_DEADLOCK FALSE
