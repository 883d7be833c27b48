SPECIFICATION AccountsSpec
CONSTANTS
    u1 = u1  u2 = u2  u3 = u3  u4 = u4
    o1 = o1  o2 = o2  o3 = o3
    b1 = b1  b2 = b2  s1 = s1  s2 = s2
    e1 = e1  e2 = e2  e3 = e3  e4 = e4
    DemoEmail = e4
    p1 = p1  x1 = x1
    n1 = n1  n2 = n2
    None = None
    Users <- MCUsers
    Orgs <- MCOrgs
    Emails <- MCEmails
    Invites = {i1}
    Tokens = {t1}
    Browsers = {b1, b2}
    Subjects <- MCSubjects
    Providers <- MCProviders
    Provider <- MCProvider
    InitUsers <- MCInitUsers
    InitOrgs <- MCInitOrgs
    InitSessions <- MCInitSessions
    Setups <- MCSetups
    Slots = {s1, s2}
    MaxLoginAttempts = 1
    MaxRequests = 3
INVARIANTS AccountsTypeOK EveryoneCanLogIn 
 
SYMMETRY MCSymmetry
CHECK_DEADLOCK FALSE
