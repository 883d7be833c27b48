--------------------------- MODULE AccountsProofs ---------------------------
(***************************************************************************)
(* Accounts for any number of users, browsers and requests.                *)
(*                                                                         *)
(* A request carries what it has read, so what the tables promise has to   *)
(* hold of the rows in the requests as well: Sound says what is true of a  *)
(* request by itself, Current how it stands to the users, Placed how the   *)
(* setup it applies stands to the networks.                                *)
(***************************************************************************)
EXTENDS Accounts, FiniteSetTheorems, TLAPS

CanLogIn(row) == row.pw \/ row.oidc # None

Sound(r) ==
    /\ r \in Requests
    /\ r.kind = "provision" => Provisioned(r) /\ CanLogIn(r)
    /\ r.kind = "edit" => /\ CanLogIn(r.row)
                          /\ r.row.org = r.read.org
                          /\ r.read.perm = "Owner" => r.row.perm = "Owner"
    /\ r.kind = "delete" => r.owners = {} \/ ~(r.owners \subseteq r.users)

\* The users a request names are still in the organization it read.
Current(r) ==
    /\ r.kind = "edit" /\ users[r.user] # None => users[r.user].org = r.read.org
    /\ r.kind = "delete" => \A u \in r.users : users[u] # None => users[u].org = r.org

\* A setup that is half applied has the first of its networks.
Placed(r) ==
    r.kind = "provision" /\ (r.at = "seed" \/ (r.at = "network" /\ r.next # 1)) =>
        networks[r.setup[1]] # None /\ networks[r.setup[1]].org = r.org

\* The first network of a setup is there if any is, in the same organization.
FirstIsThere ==
    \A q \in Setups : \A n \in Range(q) :
       networks[n] # None => networks[q[1]] # None /\ networks[n].org = networks[q[1]].org

RequestsSound == \A s \in Slots : req[s] # None => Sound(req[s])
RequestsCurrent == \A s \in Slots : req[s] # None => Current(req[s])
SetupsPlaced == ~torn => FirstIsThere /\ \A s \in Slots : req[s] # None => Placed(req[s])

AccountsInv ==
    AccountsTypeOK /\ EveryoneCanLogIn /\ RequestsSound /\ RequestsCurrent /\ SetupsPlaced

\* The types of all but the users, the networks and the requests.
SideTypes ==
    /\ orgs \in [Orgs -> {"regular", "demo", None}]
    /\ invites \in [Invites -> InviteRow \cup {None}]
    /\ keys \subseteq Nets
    /\ sess \in [Browsers -> SessionData]
    /\ attempts \in [Emails -> [n : Nat, old : BOOLEAN]]
    /\ tokens \in [Tokens -> [user : Users, old : BOOLEAN] \cup {None}]
    /\ made \in 0..MaxRequests

ReqTypes == req \in [Slots -> Requests \cup {None}]

-----------------------------------------------------------------------------
(* Frames *)

\* A request is of the kind it says.
LEMMA RequestKinds ==
    ASSUME NEW r \in Requests
    PROVE  /\ r.kind \in {"provision", "login", "edit", "delete", "reset"}
           /\ r.kind = "provision" => r \in Provisions
           /\ r.kind = "login" => r \in Logins
           /\ r.kind = "edit" => r \in UserEdits
           /\ r.kind = "delete" => r \in Deletions
           /\ r.kind = "reset" => r \in Resets
  BY DEF Requests, Provisions, Logins, UserEdits, Deletions, Resets

\* What the invariant says of the state before a step.
LEMMA Before ==
    ASSUME AccountsInv
    PROVE  /\ users \in [Users -> UserRow \cup {None}]
           /\ networks \in [Nets -> NetRow \cup {None}]
           /\ torn \in BOOLEAN
           /\ SideTypes /\ ReqTypes
           /\ \A s \in Slots : req[s] # None => req[s] \in Requests /\ Sound(req[s]) /\ Current(req[s])
           /\ \A u \in Users : users[u] # None => users[u] \in UserRow /\ CanLogIn(users[u])
  BY DEF AccountsInv, AccountsTypeOK, SideTypes, ReqTypes, RequestsSound, RequestsCurrent,
         EveryoneCanLogIn, CanLogIn, Sound

\* A step that leaves the users and the networks alone, and adds only requests
\* that are what the invariant says of requests.
LEMMA RequestStep ==
    ASSUME AccountsInv, UNCHANGED <<users, networks, torn>>, SideTypes', ReqTypes',
           \A s \in Slots : \/ req'[s] \in {req[s], None}
                            \/ Sound(req'[s]) /\ Current(req[s])' /\ Placed(req[s])'
    PROVE  AccountsInv'
<1>1. \A s \in Slots : req'[s] = req[s] => /\ Current(req[s])' <=> Current(req[s])
                                           /\ Placed(req[s])' <=> Placed(req[s])
  BY DEF Current, Placed
<1>2. RequestsSound' /\ RequestsCurrent'
  BY <1>1 DEF AccountsInv, RequestsSound, RequestsCurrent
<1>3. SetupsPlaced'
  BY <1>1 DEF AccountsInv, SetupsPlaced, FirstIsThere
<1>4. AccountsTypeOK'
  BY <1>2, Before DEF AccountsTypeOK, SideTypes, ReqTypes, RequestsSound, Sound
<1>5. EveryoneCanLogIn'
  BY DEF AccountsInv, EveryoneCanLogIn
<1> QED
  BY <1>2, <1>3, <1>4, <1>5 DEF AccountsInv

\* A step that changes the users: it deletes some, or stores a row that can be
\* entered for a new one or for one who stays in the organization.
Changes(u) ==
    \/ users'[u] \in {users[u], None}
    \/ /\ users'[u] \in UserRow /\ CanLogIn(users'[u])
       /\ u \in FreshUsers \/ (users[u] # None /\ users'[u].org = users[u].org)

\* Such a step keeps the invariant.
LEMMA UsersStep ==
    ASSUME AccountsInv, UNCHANGED <<networks, torn>>, SideTypes', ReqTypes',
           users' \in [Users -> UserRow \cup {None}], \A u \in Users : Changes(u),
           \A s \in Slots : \/ req'[s] \in {req[s], None}
                            \/ /\ Sound(req'[s]) /\ Placed(req[s])'
                               /\ req'[s].kind \notin {"edit", "delete"}
    PROVE  AccountsInv'
<1>1. \A s \in Slots : req'[s] = req[s] => (Placed(req[s])' <=> Placed(req[s]))
  BY DEF Placed
<1>2. RequestsSound'
  BY DEF AccountsInv, RequestsSound
<1>3. RequestsCurrent'
  <2> SUFFICES ASSUME NEW s \in Slots, req'[s] # None
               PROVE  Current(req[s])'
    BY DEF RequestsCurrent
  <2>1. CASE req'[s].kind \notin {"edit", "delete"}
    BY <2>1 DEF Current
  <2>2. CASE req'[s] = req[s]
    <3> DEFINE r == req[s]
    <3>1. r # None /\ r \in Requests /\ Current(r)
      BY <2>2, Before
    <3>2. ASSUME NEW u \in Users, u \in Names(r), users'[u] # None
          PROVE  users[u] # None /\ users'[u].org = users[u].org
      BY <3>1, <3>2 DEF Changes, FreshUsers
    <3>3. CASE r.kind = "edit"
      <4>1. r.user \in Users /\ Names(r) = {r.user}
        BY <3>1, <3>3, RequestKinds DEF UserEdits, Names
      <4>2. users'[r.user] # None => users'[r.user].org = r.read.org
        BY <3>1, <3>2, <3>3, <4>1 DEF Current
      <4> QED
        BY <2>2, <3>3, <4>2 DEF Current
    <3>4. CASE r.kind = "delete"
      <4>1. r.users \subseteq Users /\ Names(r) = r.users
        BY <3>1, <3>4, RequestKinds DEF Deletions, Names
      <4>2. \A u \in r.users : users'[u] # None => users'[u].org = r.org
        BY <3>1, <3>2, <3>4, <4>1 DEF Current
      <4> QED
        BY <2>2, <3>4, <4>2 DEF Current
    <3> QED
      BY <2>1, <2>2, <3>3, <3>4
  <2> QED
    BY <2>1, <2>2
<1>4. SetupsPlaced'
  BY <1>1 DEF AccountsInv, SetupsPlaced, FirstIsThere
<1>5. AccountsTypeOK'
  BY <1>2, Before DEF AccountsTypeOK, SideTypes, ReqTypes, RequestsSound, Sound
<1>6. EveryoneCanLogIn'
  BY DEF AccountsInv, EveryoneCanLogIn, Changes, CanLogIn
<1> QED
  BY <1>2, <1>3, <1>4, <1>5, <1>6 DEF AccountsInv

\* The slots of the requests.
LEMMA SlotsStep ==
    ASSUME AccountsInv
    PROVE  /\ AtOnce => req' = req /\ ReqTypes' /\ made' \in 0..MaxRequests
           /\ \A s \in Slots, r \in Requests \cup {None} :
                 Starts(s, r) \/ Continues(s, r) =>
                    /\ ReqTypes' /\ made' \in 0..MaxRequests
                    /\ req'[s] = r /\ \A v \in Slots \ {s} : req'[v] = req[v]
<1>1. made \in 0..MaxRequests /\ MaxRequests \in Nat /\ req \in [Slots -> Requests \cup {None}]
  BY Before, AccountsAssumption DEF SideTypes, ReqTypes
<1>2. AtOnce => req' = req /\ ReqTypes' /\ made' \in 0..MaxRequests
  BY <1>1 DEF AtOnce, ReqTypes
<1>3. ASSUME NEW s \in Slots, NEW r \in Requests \cup {None}, Starts(s, r) \/ Continues(s, r)
      PROVE  /\ ReqTypes' /\ made' \in 0..MaxRequests
             /\ req'[s] = r /\ \A v \in Slots \ {s} : req'[v] = req[v]
  BY <1>1, <1>3 DEF Starts, Continues, ReqTypes
<1> QED
  BY <1>2, <1>3

-----------------------------------------------------------------------------
(* The actions *)

\* A session stays one when a field of it is set.
LEMMA SessionFields ==
    ASSUME AccountsInv, NEW b \in Browsers
    PROVE  LET T == [Browsers -> SessionData]
               U == Users \cup {None}
               I == [id : Invites, org : Orgs, perm : Perms] \cup {None}
               Q == Setups \cup {<<>>}
               M == SUBSET Nets
               F == [kind : {"login", "register", "link"}, provider : Providers] \cup {None}
           IN  /\ sess \in T
               /\ \A u \in U : [sess EXCEPT ![b].user = u] \in T
               /\ \A i \in I : [sess EXCEPT ![b].invite = i] \in T
               /\ \A q \in Q : [sess EXCEPT ![b].setup = q] \in T
               /\ \A d \in M : [sess EXCEPT ![b].daemons = d] \in T
               /\ \A w \in F : [sess EXCEPT ![b].flow = w] \in T
               /\ \A u \in U, w \in F : [sess EXCEPT ![b].user = u, ![b].flow = w] \in T
               /\ \A q \in Q, d \in M : [sess EXCEPT ![b] = [@ EXCEPT !.setup = q, !.daemons = d]] \in T
               /\ sess[b].user \in U /\ sess[b].invite \in I /\ sess[b].setup \in Q
               /\ sess[b].daemons \in M /\ sess[b].flow \in F
<1> DEFINE U == Users \cup {None}
           I == [id : Invites, org : Orgs, perm : Perms] \cup {None}
           Q == Setups \cup {<<>>}
           M == SUBSET Nets
           F == [kind : {"login", "register", "link"}, provider : Providers] \cup {None}
<1>1. sess \in [Browsers -> SessionData]
  BY Before DEF SideTypes
<1>2. SessionData = [user : U, invite : I, setup : Q, daemons : M, flow : F]
  BY DEF SessionData
<1> HIDE DEF U, I, Q, M, F
<1>3. sess \in [Browsers -> [user : U, invite : I, setup : Q, daemons : M, flow : F]]
  BY <1>1, <1>2
<1> DEFINE T == [Browsers -> [user : U, invite : I, setup : Q, daemons : M, flow : F]]
<1>4. /\ \A u \in U : [sess EXCEPT ![b].user = u] \in T
      /\ \A i \in I : [sess EXCEPT ![b].invite = i] \in T
      /\ \A q \in Q : [sess EXCEPT ![b].setup = q] \in T
      /\ \A d \in M : [sess EXCEPT ![b].daemons = d] \in T
      /\ \A w \in F : [sess EXCEPT ![b].flow = w] \in T
      /\ \A u \in U, w \in F : [sess EXCEPT ![b].user = u, ![b].flow = w] \in T
      /\ \A q \in Q, d \in M : [sess EXCEPT ![b] = [@ EXCEPT !.setup = q, !.daemons = d]] \in T
      /\ sess[b].user \in U /\ sess[b].invite \in I /\ sess[b].setup \in Q
      /\ sess[b].daemons \in M /\ sess[b].flow \in F
  BY <1>3
<1> QED
  BY <1>1, <1>2, <1>4, Zenon DEF U, I, Q, M, F

\* A request of one step: only sessions, invites, attempts or tokens change.
LEMMA AtOnceStep ==
    ASSUME AccountsInv, AtOnce, UNCHANGED <<users, orgs, networks, keys, torn>>,
           invites' \in [Invites -> InviteRow \cup {None}],
           sess' \in [Browsers -> SessionData],
           attempts' \in [Emails -> [n : Nat, old : BOOLEAN]],
           tokens' \in [Tokens -> [user : Users, old : BOOLEAN] \cup {None}]
    PROVE  AccountsInv'
<1>1. req' = req /\ ReqTypes' /\ made' \in 0..MaxRequests
  BY SlotsStep
<1>2. SideTypes'
  BY <1>1, Before DEF SideTypes
<1> QED
  BY <1>1, <1>2, RequestStep

\* Who is signed in has a row.
LEMMA SignedInRow ==
    ASSUME AccountsInv, NEW b \in Browsers, SignedIn(b)
    PROVE  /\ sess[b].user \in Users /\ Me(b) \in UserRow /\ CanLogIn(Me(b))
           /\ Me(b) = users[sess[b].user] /\ users[sess[b].user] # None
           /\ Me(b).org \in Orgs /\ Me(b).perm \in Perms
<1>1. sess[b].user \in Users
  BY Before DEF SideTypes, SessionData, SignedIn, Exists
<1>2. users[sess[b].user] # None
  BY DEF SignedIn, Exists
<1>3. Me(b) = users[sess[b].user]
  BY DEF Me
<1>4. Me(b) \in UserRow /\ CanLogIn(Me(b))
  BY <1>1, <1>2, <1>3, Before
<1>5. Me(b).org \in Orgs /\ Me(b).perm \in Perms
  BY <1>4 DEF UserRow
<1> QED
  BY <1>1, <1>2, <1>3, <1>4, <1>5

\* An invite that is used up is gone.
LEMMA UsedTypes ==
    ASSUME AccountsInv
    PROVE  /\ \A i \in Invites : Used(i) \in [Invites -> InviteRow \cup {None}]
           /\ \A b \in Browsers : UseInvite(b) \in [Invites -> InviteRow \cup {None}]
<1>1. invites \in [Invites -> InviteRow \cup {None}] /\ sess \in [Browsers -> SessionData]
  BY Before DEF SideTypes
<1>2. \A i \in Invites : Used(i) \in [Invites -> InviteRow \cup {None}]
  BY <1>1 DEF Used
<1>3. \A b \in Browsers : sess[b].invite # None => sess[b].invite.id \in Invites
  BY <1>1 DEF SessionData
<1> QED
  BY <1>1, <1>2, <1>3 DEF UseInvite

\* What a browser does in one request keeps the invariant.
LEMMA SessionKeepsInv ==
    ASSUME AccountsInv, SessionNext
    PROVE  AccountsInv'
<1>1. PICK b \in Browsers :
       \/ \E q \in Setups : Setup(b, q)
       \/ \E n \in Nets, later \in BOOLEAN : DaemonSetup(b, n, later)
       \/ \E i \in Invites, p \in Perms : CreateInvite(b, i, p)
       \/ \E i \in Invites : RevokeInvite(b, i) \/ AcceptInvite(b, i)
       \/ \E f \in {"login", "register", "link"}, p \in Providers, h \in Hosts : OidcAuthorize(b, f, p, h)
       \/ \E x \in Subjects, h \in Hosts : OidcLogin(b, x, h)
       \/ Logout(b)
  BY DEF SessionNext
<1>2. /\ invites \in [Invites -> InviteRow \cup {None}] /\ sess \in [Browsers -> SessionData]
      /\ attempts \in [Emails -> [n : Nat, old : BOOLEAN]]
      /\ tokens \in [Tokens -> [user : Users, old : BOOLEAN] \cup {None}]
  BY Before DEF SideTypes
<1>3. ASSUME NEW q \in Setups, Setup(b, q)
      PROVE  AccountsInv'
  <2>1. sess' \in [Browsers -> SessionData]
    BY <1>3, SessionFields DEF Setup
  <2> QED
    BY <1>2, <1>3, <2>1, AtOnceStep DEF Setup, db, memory
<1>4. ASSUME NEW n \in Nets, NEW later \in BOOLEAN, DaemonSetup(b, n, later)
      PROVE  AccountsInv'
  <2>1. (sess[b].daemons \ {n}) \cup (IF later THEN {} ELSE {n}) \in SUBSET Nets
    BY SessionFields
  <2>2. sess' \in [Browsers -> SessionData]
    BY <1>4, <2>1, SessionFields DEF DaemonSetup
  <2> QED
    BY <1>2, <1>4, <2>2, AtOnceStep DEF DaemonSetup, db, memory
<1>5. ASSUME NEW i \in Invites, NEW p \in Perms, CreateInvite(b, i, p)
      PROVE  AccountsInv'
  <2>1. Me(b).org \in Orgs /\ sess[b].user \in Users
    BY <1>5, SignedInRow DEF CreateInvite, Administers
  <2>2. invites' \in [Invites -> InviteRow \cup {None}]
    BY <1>2, <1>5, <2>1 DEF CreateInvite, InviteRow
  <2> QED
    BY <1>2, <1>5, <2>2, AtOnceStep DEF CreateInvite, memory
<1>6. ASSUME NEW i \in Invites, RevokeInvite(b, i)
      PROVE  AccountsInv'
  <2>1. invites' \in [Invites -> InviteRow \cup {None}]
    BY <1>2, <1>6 DEF RevokeInvite
  <2> QED
    BY <1>2, <1>6, <2>1, AtOnceStep DEF RevokeInvite, memory
<1>7. ASSUME NEW i \in Invites, AcceptInvite(b, i)
      PROVE  AccountsInv'
  <2>1. invites' \in [Invites -> InviteRow \cup {None}]
    BY <1>2, <1>7, UsedTypes DEF AcceptInvite
  <2>2. [id |-> i, org |-> invites[i].org, perm |-> invites[i].perm] \in [id : Invites, org : Orgs, perm : Perms]
    BY <1>2, <1>7 DEF AcceptInvite, Valid, InviteRow
  <2>3. sess' \in [Browsers -> SessionData]
    <3>1. PICK c \in [id : Invites, org : Orgs, perm : Perms] \cup {None} :
              sess' = [sess EXCEPT ![b].invite = c]
      BY <1>7, <2>2, Zenon DEF AcceptInvite
    <3> QED
      BY <3>1, SessionFields
  <2> QED
    BY <1>2, <1>7, <2>1, <2>3, AtOnceStep DEF AcceptInvite, memory
<1>8. ASSUME NEW f \in {"login", "register", "link"}, NEW p \in Providers, NEW h \in Hosts,
             OidcAuthorize(b, f, p, h)
      PROVE  AccountsInv'
  <2>1. sess' \in [Browsers -> SessionData]
    BY <1>8, SessionFields DEF OidcAuthorize
  <2> QED
    BY <1>2, <1>8, <2>1, AtOnceStep DEF OidcAuthorize, db, memory
<1>9. ASSUME NEW x \in Subjects, NEW h \in Hosts, OidcLogin(b, x, h)
      PROVE  AccountsInv'
  <2>1. PICK u \in Users : sess' = [sess EXCEPT ![b].user = u, ![b].flow = None]
    BY <1>9 DEF OidcLogin, BySubject, Existing
  <2>2. sess' \in [Browsers -> SessionData]
    BY <2>1, SessionFields
  <2> QED
    BY <1>2, <1>9, <2>2, AtOnceStep DEF OidcLogin, db, memory
<1>10. ASSUME Logout(b)
       PROVE  AccountsInv'
  <2>1. sess' \in [Browsers -> SessionData]
    BY <1>2, <1>10 DEF Logout, SessionData, NoSession
  <2> QED
    BY <1>2, <1>10, <2>1, AtOnceStep DEF Logout, db, memory
<1> QED
  BY <1>1, <1>3, <1>4, <1>5, <1>6, <1>7, <1>8, <1>9, <1>10

\* The passing of time, password tokens and a restart keep the invariant.
LEMMA TimeKeepsInv ==
    ASSUME AccountsInv, TimeNext
    PROVE  AccountsInv'
<1>1. /\ invites \in [Invites -> InviteRow \cup {None}]
      /\ attempts \in [Emails -> [n : Nat, old : BOOLEAN]]
      /\ tokens \in [Tokens -> [user : Users, old : BOOLEAN] \cup {None}]
      /\ SideTypes /\ ReqTypes
  BY Before DEF SideTypes
<1>2. ASSUME UNCHANGED <<users, orgs, networks, keys, sess, req, made, torn>>,
             invites' \in [Invites -> InviteRow \cup {None}],
             attempts' \in [Emails -> [n : Nat, old : BOOLEAN]],
             tokens' \in [Tokens -> [user : Users, old : BOOLEAN] \cup {None}]
      PROVE  AccountsInv'
  <2>1. SideTypes' /\ ReqTypes'
    BY <1>1, <1>2 DEF SideTypes, ReqTypes
  <2> QED
    BY <1>2, <2>1, RequestStep
<1>3. ASSUME NEW i \in Invites, InviteExpires(i)
      PROVE  AccountsInv'
  <2>1. invites[i] \in InviteRow
    BY <1>1, <1>3 DEF InviteExpires, Valid
  <2>2. invites' \in [Invites -> InviteRow \cup {None}]
    BY <1>1, <1>3, <2>1 DEF InviteExpires, InviteRow
  <2> QED
    BY <1>1, <1>2, <1>3, <2>2 DEF InviteExpires, memory
<1>4. ASSUME CleanupExpired
      PROVE  AccountsInv'
  <2>1. invites' \in [Invites -> InviteRow \cup {None}]
    BY <1>1, <1>4 DEF CleanupExpired
  <2> QED
    BY <1>1, <1>2, <1>4, <2>1 DEF CleanupExpired, memory
<1>5. ASSUME NEW e \in Emails, LockoutPasses(e)
      PROVE  AccountsInv'
  <2>1. attempts' \in [Emails -> [n : Nat, old : BOOLEAN]]
    BY <1>1, <1>5 DEF LockoutPasses
  <2> QED
    BY <1>1, <1>2, <1>5, <2>1 DEF LockoutPasses, db
<1>6. ASSUME CleanupAttempts
      PROVE  AccountsInv'
  <2>1. attempts' \in [Emails -> [n : Nat, old : BOOLEAN]]
    BY <1>1, <1>6 DEF CleanupAttempts
  <2> QED
    BY <1>1, <1>2, <1>6, <2>1 DEF CleanupAttempts, db
<1>7. ASSUME NEW e \in Emails, NEW t \in Tokens, ForgotPassword(e, t)
      PROVE  AccountsInv'
  <2>1. PICK u \in Users : tokens' = [tokens EXCEPT ![t] = [user |-> u, old |-> FALSE]]
    BY <1>7 DEF ForgotPassword, ByEmail, Existing
  <2>2. tokens' \in [Tokens -> [user : Users, old : BOOLEAN] \cup {None}]
    BY <1>1, <2>1
  <2>3. sess \in [Browsers -> SessionData]
    BY <1>1 DEF SideTypes
  <2> QED
    BY <1>1, <1>7, <2>2, <2>3, AtOnceStep DEF ForgotPassword, db
<1>8. ASSUME NEW t \in Tokens, TokenExpires(t)
      PROVE  AccountsInv'
  <2>1. tokens[t] \in [user : Users, old : BOOLEAN]
    BY <1>1, <1>8 DEF TokenExpires
  <2>2. tokens' \in [Tokens -> [user : Users, old : BOOLEAN] \cup {None}]
    BY <1>1, <1>8, <2>1 DEF TokenExpires
  <2> QED
    BY <1>1, <1>2, <1>8, <2>2 DEF TokenExpires, db
<1>9. ASSUME Restart
      PROVE  AccountsInv'
  <2>1. /\ attempts' \in [Emails -> [n : Nat, old : BOOLEAN]]
        /\ tokens' \in [Tokens -> [user : Users, old : BOOLEAN] \cup {None}]
        /\ ReqTypes' /\ \A s \in Slots : req'[s] = None
    BY <1>9 DEF Restart, ReqTypes
  <2>2. SideTypes'
    BY <1>1, <1>9, <2>1 DEF Restart, SideTypes, db
  <2> QED
    BY <1>9, <2>1, <2>2, RequestStep DEF Restart, db
<1> QED
  BY <1>3, <1>4, <1>5, <1>6, <1>7, <1>8, <1>9 DEF TimeNext

\* A request that starts, or ends at once.
LEMMA StartStep ==
    ASSUME AccountsInv, NEW s \in Slots, NEW r \in Requests, Starts(s, r) \/ AtOnce,
           Sound(r), Current(r), Placed(r),
           UNCHANGED <<users, orgs, networks, keys, attempts, torn>>,
           invites' \in [Invites -> InviteRow \cup {None}],
           sess' \in [Browsers -> SessionData],
           tokens' \in [Tokens -> [user : Users, old : BOOLEAN] \cup {None}]
    PROVE  AccountsInv'
<1>1. attempts' \in [Emails -> [n : Nat, old : BOOLEAN]]
  BY Before DEF SideTypes
<1>2. CASE AtOnce
  BY <1>1, <1>2, AtOnceStep
<1>3. CASE Starts(s, r)
  <2>1. /\ ReqTypes' /\ made' \in 0..MaxRequests
        /\ req'[s] = r /\ \A v \in Slots \ {s} : req'[v] = req[v]
    BY <1>3, SlotsStep
  <2>2. SideTypes'
    BY <1>1, <2>1, Before DEF SideTypes
  <2>3. Sound(req'[s]) /\ Current(req[s])' /\ Placed(req[s])'
    BY <2>1 DEF Current, Placed
  <2> QED
    BY <2>1, <2>2, <2>3, RequestStep
<1> QED
  BY <1>2, <1>3

\* The request that edits a row: it keeps the organization, an owner, and a way in.
LEMMA EditRequest ==
    ASSUME AccountsInv, NEW b \in Browsers, NEW u \in Users, users[u] # None,
           NEW row \in UserRow, NEW signIn \in BOOLEAN,
           CanLogIn(row), row.org = users[u].org, users[u].perm = "Owner" => row.perm = "Owner"
    PROVE  LET r == [kind |-> "edit", browser |-> b, user |-> u, read |-> users[u], row |-> row,
                     signIn |-> signIn]
           IN  r \in Requests /\ Sound(r) /\ Current(r) /\ Placed(r)
<1> DEFINE r == [kind |-> "edit", browser |-> b, user |-> u, read |-> users[u], row |-> row,
                 signIn |-> signIn]
<1>1. r \in UserEdits
  BY Before DEF UserEdits
<1>2. r \in Requests
  BY <1>1 DEF Requests
<1> QED
  BY <1>2 DEF Sound, Current, Placed

\* The request that provisions an account.
LEMMA ProvisionRequest ==
    ASSUME AccountsInv, NEW b \in Browsers, NEW e \in Emails, NEW pw \in BOOLEAN,
           NEW x \in Subjects \cup {None}, pw \/ x # None
    PROVE  LET r == Provision(b, e, pw, x)
           IN  r \in Requests /\ Sound(r) /\ Current(r) /\ Placed(r)
<1> DEFINE r == Provision(b, e, pw, x)
           i == sess[b].invite
<1>1. /\ i \in [id : Invites, org : Orgs, perm : Perms] \cup {None}
      /\ sess[b].setup \in Setups \cup {<<>>} /\ sess[b].daemons \in SUBSET Nets
  BY SessionFields
<1>2. /\ (IF i = None THEN None ELSE i.org) \in Orgs \cup {None}
      /\ (IF i = None THEN "Owner" ELSE i.perm) \in Perms
      /\ (IF i = None THEN sess[b].setup ELSE <<>>) \in Setups \cup {<<>>}
      /\ (IF i = None THEN sess[b].daemons ELSE {}) \in SUBSET Nets
      /\ (IF i = None THEN "org" ELSE "user") \in {"org", "user"}
      /\ (IF i = None THEN "org" ELSE "user") # "org" => (IF i = None THEN None ELSE i.org) \in Orgs
  BY <1>1 DEF Perms
<1>3. /\ r \in Provisions /\ r.kind = "provision" /\ r.next = 1 /\ r.pw = pw /\ r.oidc = x
      /\ r.at \in {"org", "user"} /\ (r.at # "org" => r.org \in Orgs)
  BY <1>2 DEF Provision, Provisions
<1> HIDE DEF r
<1>4. r \in Requests /\ Provisioned(r) /\ CanLogIn(r)
  BY <1>3 DEF Requests, Provisioned, CanLogIn
<1>5. Sound(r) /\ Current(r) /\ Placed(r)
  BY <1>3, <1>4 DEF Sound, Current, Placed
<1> QED
  BY <1>4, <1>5 DEF r

\* Counting the owners: who deletes one of them leaves another.
LEMMA DeleteRequest ==
    ASSUME AccountsInv, NEW o \in Orgs, NEW us \in SUBSET Users,
           \A u \in us : users[u] # None /\ users[u].org = o,
           \/ ~(Owners(o) \subseteq us)
           \/ \E u \in us : us = {u} /\ ~(users[u].perm = "Owner" /\ Cardinality(Owners(o)) = 1)
    PROVE  LET r == [kind |-> "delete", org |-> o, users |-> us, owners |-> Owners(o)]
           IN  r \in Requests /\ Sound(r) /\ Current(r) /\ Placed(r)
<1> DEFINE r == [kind |-> "delete", org |-> o, users |-> us, owners |-> Owners(o)]
<1>1. Owners(o) \subseteq Users
  BY DEF Owners, Existing
<1>2. r \in Requests
  BY <1>1 DEF Requests, Deletions
<1>3. Owners(o) = {} \/ ~(Owners(o) \subseteq us)
  <2> SUFFICES ASSUME NEW u \in us, us = {u}, Owners(o) # {}, Owners(o) \subseteq us,
                      ~(users[u].perm = "Owner" /\ Cardinality(Owners(o)) = 1)
               PROVE  FALSE
    OBVIOUS
  <2>1. Owners(o) = {u}
    OBVIOUS
  <2>2. users[u].perm = "Owner"
    BY <2>1 DEF Owners
  <2>3. Cardinality({u}) = 1
    BY FS_Singleton
  <2> QED
    BY <2>1, <2>2, <2>3
<1> QED
  BY <1>2, <1>3 DEF Sound, Current, Placed

\* The requests that start.
LEMMA RequestKeepsInv ==
    ASSUME AccountsInv, RequestNext
    PROVE  AccountsInv'
<1>1. PICK s \in Slots, b \in Browsers :
       \/ \E e \in Emails : Register(s, b, e)
       \/ \E x \in Subjects, e \in Emails : OidcRegister(s, b, x, e)
       \/ \E e \in Emails, h \in Hosts : Login(s, b, e, h)
       \/ \E pw \in BOOLEAN, e \in Emails \cup {None} : UpdatePassword(s, b, pw, e)
       \/ UpdateUser(s, b)
       \/ \E u \in Users, p \in Perms : AdminUpdateUser(s, b, u, p)
       \/ \E x \in Subjects : OidcLink(s, b, x)
       \/ OidcUnlink(s, b)
       \/ \E t \in Tokens : ResetPassword(s, b, t)
       \/ \E u \in Users : DeleteUser(s, b, u)
       \/ \E us \in SUBSET Users \ {{}} : BulkDeleteUsers(s, b, us)
       \/ \E populate \in BOOLEAN : ResetOrganization(s, b, populate)
  BY DEF RequestNext
<1>2. /\ invites \in [Invites -> InviteRow \cup {None}] /\ sess \in [Browsers -> SessionData]
      /\ tokens \in [Tokens -> [user : Users, old : BOOLEAN] \cup {None}]
  BY Before DEF SideTypes
<1>3. /\ \A x \in Subjects : x # None
      /\ SignedIn(b) => /\ sess[b].user \in Users /\ Me(b) \in UserRow /\ CanLogIn(Me(b))
                        /\ Me(b) = users[sess[b].user] /\ users[sess[b].user] # None
                        /\ Me(b).org \in Orgs /\ Me(b).perm \in Perms
  BY AccountsAssumption, SignedInRow
<1>4. ASSUME NEW r \in Requests, Sound(r), Current(r), Placed(r), Starts(s, r) \/ AtOnce,
             UNCHANGED <<users, orgs, invites, networks, keys, sess, attempts, tokens, torn>>
      PROVE  AccountsInv'
  BY <1>2, <1>4, StartStep
<1>5. ASSUME NEW e \in Emails, Register(s, b, e)
      PROVE  AccountsInv'
  <2> DEFINE r == Provision(b, e, TRUE, None)
  <2>1. r \in Requests /\ Sound(r) /\ Current(r) /\ Placed(r)
    BY ProvisionRequest
  <2> HIDE DEF r
  <2>2. Starts(s, r) \/ AtOnce
    BY <1>5 DEF Register, RegisterEmail, r
  <2>3. sess' \in [Browsers -> SessionData] /\ invites' \in [Invites -> InviteRow \cup {None}]
    BY <1>5, SessionFields, UsedTypes DEF Register
  <2> QED
    BY <1>2, <1>5, <2>1, <2>2, <2>3, StartStep DEF Register, memory
<1>6. ASSUME NEW x \in Subjects, NEW e \in Emails, OidcRegister(s, b, x, e)
      PROVE  AccountsInv'
  <2> DEFINE r == Provision(b, e, FALSE, x)
  <2>1. r \in Requests /\ Sound(r) /\ Current(r) /\ Placed(r)
    BY <1>3, ProvisionRequest
  <2> HIDE DEF r
  <2>2. Starts(s, r) \/ AtOnce
    BY <1>6 DEF OidcRegister, RegisterSubject, r
  <2>3. sess' \in [Browsers -> SessionData] /\ invites' \in [Invites -> InviteRow \cup {None}]
    BY <1>6, SessionFields, UsedTypes DEF OidcRegister
  <2> QED
    BY <1>2, <1>6, <2>1, <2>2, <2>3, StartStep DEF OidcRegister, memory
<1>7. ASSUME NEW e \in Emails, NEW h \in Hosts, Login(s, b, e, h)
      PROVE  AccountsInv'
  <2> DEFINE r == [kind |-> "login", browser |-> b, email |-> e, host |-> h]
  <2>1. r \in Requests /\ Sound(r) /\ Current(r) /\ Placed(r)
    BY DEF Requests, Logins, Sound, Current, Placed
  <2> QED
    BY <1>4, <1>7, <2>1 DEF Login, db, memory
<1>8. ASSUME NEW pw \in BOOLEAN, NEW e \in Emails \cup {None}, UpdatePassword(s, b, pw, e)
      PROVE  AccountsInv'
  <2> DEFINE row == NewCredentials(Me(b), pw, e)
             r == [kind |-> "edit", browser |-> b, user |-> sess[b].user,
                   read |-> users[sess[b].user], row |-> row, signIn |-> FALSE]
  <2>1. SignedIn(b)
    BY <1>8 DEF UpdatePassword, MayEdit
  <2>2. row \in UserRow /\ CanLogIn(row) /\ row.org = Me(b).org /\ row.perm = Me(b).perm
    BY <1>3, <2>1 DEF NewCredentials, UserRow, CanLogIn
  <2> HIDE DEF row
  <2>3. r \in Requests /\ Sound(r) /\ Current(r) /\ Placed(r)
    BY <1>3, <2>1, <2>2, EditRequest
  <2>4. Starts(s, r)
    BY <1>8 DEF UpdatePassword, Edits, row
  <2> HIDE DEF r
  <2> QED
    BY <1>4, <1>8, <2>3, <2>4 DEF UpdatePassword, db, memory
<1>9. ASSUME UpdateUser(s, b)
      PROVE  AccountsInv'
  <2> DEFINE r == [kind |-> "edit", browser |-> b, user |-> sess[b].user,
                   read |-> users[sess[b].user], row |-> Me(b), signIn |-> FALSE]
  <2>1. SignedIn(b)
    BY <1>9 DEF UpdateUser, MayEdit
  <2>2. r \in Requests /\ Sound(r) /\ Current(r) /\ Placed(r)
    BY <1>3, <2>1, EditRequest
  <2>3. Starts(s, r)
    BY <1>9 DEF UpdateUser, Edits
  <2> HIDE DEF r
  <2> QED
    BY <1>4, <1>9, <2>2, <2>3 DEF UpdateUser, db, memory
<1>10. ASSUME NEW u \in Users, NEW p \in Perms, AdminUpdateUser(s, b, u, p)
       PROVE  AccountsInv'
  <2> DEFINE row == [users[u] EXCEPT !.perm = p]
             r == [kind |-> "edit", browser |-> b, user |-> u, read |-> users[u], row |-> row,
                   signIn |-> FALSE]
  <2>1. SignedIn(b) /\ users[u] # None /\ Outranks(Me(b).perm, users[u].perm)
    BY <1>10 DEF AdminUpdateUser, Administers, Exists
  <2>2. users[u] \in UserRow /\ CanLogIn(users[u])
    BY <2>1, Before
  <2>3. row \in UserRow /\ CanLogIn(row) /\ row.org = users[u].org
    BY <2>2 DEF UserRow, CanLogIn
  <2>4. users[u].perm # "Owner"
    BY <1>3, <2>1 DEF Outranks, Rank, Perms
  <2> HIDE DEF row
  <2>5. r \in Requests /\ Sound(r) /\ Current(r) /\ Placed(r)
    BY <2>1, <2>3, <2>4, EditRequest
  <2>6. Starts(s, r)
    BY <1>10 DEF AdminUpdateUser, Edits, row
  <2> HIDE DEF r
  <2> QED
    BY <1>4, <1>10, <2>5, <2>6 DEF AdminUpdateUser, db, memory
<1>11. ASSUME NEW x \in Subjects, OidcLink(s, b, x)
       PROVE  AccountsInv'
  <2> DEFINE row == [Me(b) EXCEPT !.oidc = x]
             r == [kind |-> "edit", browser |-> b, user |-> sess[b].user,
                   read |-> users[sess[b].user], row |-> row, signIn |-> FALSE]
  <2>1. sess' \in [Browsers -> SessionData]
    BY <1>11, SessionFields DEF OidcLink
  <2>2. CASE ~Linkable(b, x)
    <3>1. AtOnce
      BY <1>11, <2>2 DEF OidcLink
    <3>2. attempts \in [Emails -> [n : Nat, old : BOOLEAN]]
      BY Before DEF SideTypes
    <3> QED
      BY <1>2, <1>11, <2>1, <3>1, <3>2, AtOnceStep DEF OidcLink, db, memory
  <2>3. CASE Linkable(b, x)
    <3>1. SignedIn(b)
      BY <2>3 DEF Linkable
    <3>2. row \in UserRow /\ CanLogIn(row) /\ row.org = Me(b).org /\ row.perm = Me(b).perm
      BY <1>3, <3>1 DEF UserRow, CanLogIn
    <3> HIDE DEF row
    <3>3. r \in Requests /\ Sound(r) /\ Current(r) /\ Placed(r)
      BY <1>3, <3>1, <3>2, EditRequest
    <3>4. Starts(s, r)
      BY <1>11, <2>3 DEF OidcLink, Edits, row
    <3> HIDE DEF r
    <3> QED
      BY <1>2, <1>11, <2>1, <3>3, <3>4, StartStep DEF OidcLink, db, memory
  <2> QED
    BY <2>2, <2>3
<1>12. ASSUME OidcUnlink(s, b)
       PROVE  AccountsInv'
  <2> DEFINE row == [Me(b) EXCEPT !.oidc = None]
             r == [kind |-> "edit", browser |-> b, user |-> sess[b].user,
                   read |-> users[sess[b].user], row |-> row, signIn |-> FALSE]
  <2>1. SignedIn(b) /\ Me(b).pw
    BY <1>12 DEF OidcUnlink, MayEdit, Unlinkable
  <2>2. row \in UserRow /\ CanLogIn(row) /\ row.org = Me(b).org /\ row.perm = Me(b).perm
    BY <1>3, <2>1 DEF UserRow, CanLogIn
  <2> HIDE DEF row
  <2>3. r \in Requests /\ Sound(r) /\ Current(r) /\ Placed(r)
    BY <1>3, <2>1, <2>2, EditRequest
  <2>4. Starts(s, r)
    BY <1>12 DEF OidcUnlink, Edits, row
  <2> HIDE DEF r
  <2> QED
    BY <1>4, <1>12, <2>3, <2>4 DEF OidcUnlink, db, memory
<1>13. ASSUME NEW t \in Tokens, ResetPassword(s, b, t)
       PROVE  AccountsInv'
  <2> DEFINE u == tokens[t].user
             row == [users[u] EXCEPT !.pw = TRUE]
             r == [kind |-> "edit", browser |-> b, user |-> u, read |-> users[u], row |-> row,
                   signIn |-> TRUE]
  <2>1. u \in Users
    BY <1>2, <1>13 DEF ResetPassword
  <2>2. tokens' \in [Tokens -> [user : Users, old : BOOLEAN] \cup {None}]
    BY <1>2, <1>13 DEF ResetPassword
  <2>3. CASE AtOnce
    <3>1. attempts \in [Emails -> [n : Nat, old : BOOLEAN]]
      BY Before DEF SideTypes
    <3> QED
      BY <1>2, <1>13, <2>2, <2>3, <3>1, AtOnceStep DEF ResetPassword, db
  <2>4. CASE ~AtOnce
    <3>1. users[u] # None /\ Starts(s, r)
      BY <1>13, <2>4 DEF ResetPassword, Exists, Edits
    <3> HIDE DEF u
    <3>2. users[u] \in UserRow
      BY <2>1, <3>1, Before
    <3>3. row \in UserRow /\ CanLogIn(row) /\ row.org = users[u].org /\ row.perm = users[u].perm
      BY <3>2 DEF UserRow, CanLogIn
    <3> HIDE DEF row
    <3>4. r \in Requests /\ Sound(r) /\ Current(r) /\ Placed(r)
      BY <2>1, <3>1, <3>3, EditRequest
    <3> HIDE DEF r
    <3> QED
      BY <1>2, <1>13, <2>2, <3>1, <3>4, StartStep DEF ResetPassword, db
  <2> QED
    BY <2>3, <2>4
<1>14. ASSUME NEW u \in Users, DeleteUser(s, b, u)
       PROVE  AccountsInv'
  <2> DEFINE o == Me(b).org
             r == [kind |-> "delete", org |-> o, users |-> {u}, owners |-> Owners(o)]
  <2>1. SignedIn(b)
    BY <1>14 DEF DeleteUser, MayEdit
  <2>2. /\ users[u] # None /\ users[u].org = o
        /\ ~(users[u].perm = "Owner" /\ Cardinality(Owners(o)) = 1)
    BY <1>14 DEF DeleteUser, Exists
  <2>3. o \in Orgs
    BY <1>3, <2>1
  <2>4. Starts(s, r)
    BY <1>14 DEF DeleteUser
  <2> HIDE DEF o
  <2>5. r \in Requests /\ Sound(r) /\ Current(r) /\ Placed(r)
    BY <2>2, <2>3, DeleteRequest
  <2> HIDE DEF r
  <2> QED
    BY <1>4, <1>14, <2>4, <2>5 DEF DeleteUser, db, memory
<1>15. ASSUME NEW us \in SUBSET Users \ {{}}, BulkDeleteUsers(s, b, us)
       PROVE  AccountsInv'
  <2> DEFINE o == Me(b).org
             r == [kind |-> "delete", org |-> o, users |-> us, owners |-> Owners(o)]
  <2>1. SignedIn(b)
    BY <1>15 DEF BulkDeleteUsers, MayEdit
  <2>2. /\ us \in SUBSET Users /\ ~(Owners(o) \subseteq us)
        /\ \A u \in us : users[u] # None /\ users[u].org = o
    BY <1>15 DEF BulkDeleteUsers, Exists
  <2>3. o \in Orgs
    BY <1>3, <2>1
  <2>4. Starts(s, r)
    BY <1>15 DEF BulkDeleteUsers
  <2> HIDE DEF o
  <2>5. r \in Requests /\ Sound(r) /\ Current(r) /\ Placed(r)
    BY <2>2, <2>3, DeleteRequest
  <2> HIDE DEF r
  <2> QED
    BY <1>4, <1>15, <2>4, <2>5 DEF BulkDeleteUsers, db, memory
<1>16. ASSUME NEW populate \in BOOLEAN, ResetOrganization(s, b, populate)
       PROVE  AccountsInv'
  <2> DEFINE r == [kind |-> "reset", at |-> "data", org |-> Me(b).org, populate |-> populate]
  <2>1. Me(b).org \in Orgs
    BY <1>3, <1>16 DEF ResetOrganization
  <2>2. r \in Requests /\ Sound(r) /\ Current(r) /\ Placed(r)
    BY <2>1 DEF Requests, Resets, Sound, Current, Placed
  <2>3. Starts(s, r)
    BY <1>16 DEF ResetOrganization
  <2> HIDE DEF r
  <2> QED
    BY <1>4, <1>16, <2>2, <2>3 DEF ResetOrganization, db, memory
<1> QED
  BY <1>1, <1>5, <1>6, <1>7, <1>8, <1>9, <1>10, <1>11, <1>12, <1>13, <1>14, <1>15, <1>16

-----------------------------------------------------------------------------
(* The steps of the requests *)

\* A request that goes on or ends, with nothing but sessions and attempts changed.
LEMMA ContinueStep ==
    ASSUME AccountsInv, NEW s \in Slots, NEW r \in Requests \cup {None}, Continues(s, r),
           r # None => Sound(r) /\ Current(r) /\ Placed(r),
           UNCHANGED <<users, invites, networks, keys, tokens, torn>>,
           orgs' \in [Orgs -> {"regular", "demo", None}],
           sess' \in [Browsers -> SessionData],
           attempts' \in [Emails -> [n : Nat, old : BOOLEAN]]
    PROVE  AccountsInv'
<1>1. /\ ReqTypes' /\ made' \in 0..MaxRequests
      /\ req'[s] = r /\ \A v \in Slots \ {s} : req'[v] = req[v]
  BY SlotsStep
<1>2. SideTypes'
  BY <1>1, Before DEF SideTypes
<1>3. req'[s] # None => Sound(req'[s]) /\ Current(req[s])' /\ Placed(req[s])'
  BY <1>1 DEF Current, Placed
<1> QED
  BY <1>1, <1>2, <1>3, RequestStep

\* A provisioning request, from the invariant.
LEMMA ProvisionRecord ==
    ASSUME AccountsInv, NEW s \in Slots, req[s] # None, req[s].kind = "provision"
    PROVE  /\ req[s] \in Provisions /\ Provisioned(req[s]) /\ CanLogIn(req[s])
           /\ req[s].browser \in Browsers
           /\ req[s].at \in {"network", "seed"} =>
                 /\ req[s].org \in Orgs /\ req[s].setup \in Setups
                 /\ req[s].next \in 1..Len(req[s].setup)
                 /\ req[s].setup[req[s].next] \in Range(req[s].setup)
                 /\ req[s].setup[1] \in Range(req[s].setup)
                 /\ Range(req[s].setup) \subseteq Nets
<1> DEFINE r == req[s]
<1>1. r \in Requests /\ Sound(r)
  BY Before
<1>2. r \in Provisions /\ Provisioned(r) /\ CanLogIn(r)
  BY <1>1, RequestKinds DEF Sound
<1>3. r.browser \in Browsers
  BY <1>2 DEF Provisions
<1>4. ASSUME r.at \in {"network", "seed"}
      PROVE  /\ r.org \in Orgs /\ r.setup \in Setups /\ r.next \in 1..Len(r.setup)
             /\ r.setup[r.next] \in Range(r.setup) /\ r.setup[1] \in Range(r.setup)
             /\ Range(r.setup) \subseteq Nets
  <2>1. r.org \in Orgs /\ r.setup \in Setups /\ r.next \in 1..Len(r.setup)
    BY <1>2, <1>4 DEF Provisioned
  <2>2. r.setup \in Seq(Nets) /\ Len(r.setup) \in Nat /\ 1 \in 1..Len(r.setup)
    BY <2>1, AccountsAssumption
  <2>3. DOMAIN r.setup = 1..Len(r.setup) /\ \A i \in 1..Len(r.setup) : r.setup[i] \in Nets
    BY <2>2
  <2> QED
    BY <2>1, <2>2, <2>3 DEF Range
<1> QED
  BY <1>2, <1>3, <1>4

\* What a registration clears is a session.
LEMMA ClearedTypes ==
    ASSUME AccountsInv, NEW r, r.browser \in Browsers
    PROVE  Cleared(r) \in [Browsers -> SessionData]
  BY SessionFields DEF Cleared

\* A session somebody signs in to stays a session.
LEMMA SignInTypes ==
    ASSUME AccountsInv, NEW b \in Browsers, NEW u \in Users
    PROVE  [sess EXCEPT ![b].user = u] \in [Browsers -> SessionData]
  BY SessionFields

\* A new user can be stored.
LEMMA ProvisionUserKeepsInv ==
    ASSUME AccountsInv, NEW s \in Slots, ProvisionUser(s)
    PROVE  AccountsInv'
<1> DEFINE r == req[s]
           row == [org |-> r.org, perm |-> r.perm, email |-> r.email, pw |-> r.pw, oidc |-> r.oidc]
<1>1. r # None /\ r.kind = "provision" /\ r.at = "user"
  BY DEF ProvisionUser
<1>2. r \in Provisions /\ Provisioned(r) /\ CanLogIn(r) /\ r.browser \in Browsers
  BY <1>1, ProvisionRecord
<1>3. row \in UserRow /\ CanLogIn(row)
  BY <1>1, <1>2 DEF Provisions, Provisioned, UserRow, CanLogIn
<1>4. PICK u \in FreshUsers :
         IF ~Storable(u, row)
         THEN Ends(s) /\ UNCHANGED <<users, sess>>
         ELSE /\ users' = [users EXCEPT ![u] = row]
              /\ sess' = [sess EXCEPT ![r.browser].user = u,
                                      ![r.browser].flow = IF r.pw THEN @ ELSE None]
              /\ IF r.setup = <<>> THEN Ends(s)
                 ELSE Continues(s, [r EXCEPT !.at = "network"])
  BY DEF ProvisionUser
<1>5. u \in Users /\ users \in [Users -> UserRow \cup {None}]
  BY Before DEF FreshUsers
<1>6. UNCHANGED <<orgs, invites, networks, keys, memory>>
  BY DEF ProvisionUser
<1> HIDE DEF row
<1>7. users' \in [Users -> UserRow \cup {None}] /\ \A v \in Users : Changes(v)
  <2>1. CASE UNCHANGED users
    BY <1>5, <2>1 DEF Changes
  <2>2. CASE users' = [users EXCEPT ![u] = row]
    BY <1>3, <1>5, <2>2 DEF Changes
  <2> QED
    BY <1>4, <2>1, <2>2
<1>8. sess' \in [Browsers -> SessionData]
  <2>1. CASE UNCHANGED sess
    BY <2>1, Before DEF SideTypes
  <2>2. CASE sess' = [sess EXCEPT ![r.browser].user = u,
                                  ![r.browser].flow = IF r.pw THEN @ ELSE None]
    <3>1. PICK w : /\ w = IF r.pw THEN sess[r.browser].flow ELSE None
                   /\ sess' = [sess EXCEPT ![r.browser].user = u, ![r.browser].flow = w]
      BY <1>2, <2>2, Before DEF SideTypes, SessionData
    <3>2. PICK b \in Browsers : b = r.browser
      BY <1>2
    <3>3. w \in [kind : {"login", "register", "link"}, provider : Providers] \cup {None}
      BY <3>1, <3>2, SessionFields
    <3>4. [sess EXCEPT ![b].user = u, ![b].flow = w] \in [Browsers -> SessionData]
      BY <1>5, <3>3, SessionFields
    <3> QED
      BY <3>1, <3>2, <3>4
  <2> QED
    BY <1>4, <2>1, <2>2
<1>9. \E c \in Requests \cup {None} :
         /\ Continues(s, c)
         /\ c # None => Sound(c) /\ c.kind = "provision" /\ c.at = "network" /\ c.next = 1
  <2>1. CASE Ends(s)
    BY <2>1 DEF Ends
  <2>2. CASE r.setup # <<>> /\ Continues(s, [r EXCEPT !.at = "network"])
    <3> DEFINE c == [r EXCEPT !.at = "network"]
    <3>1. r.setup \in Setups /\ r.next = 1 /\ r.org \in Orgs
      BY <1>1, <1>2, <2>2 DEF Provisions, Provisioned
    <3>2. 1 \in 1..Len(r.setup)
      BY <3>1, AccountsAssumption
    <3>3. /\ c \in Provisions /\ c.kind = "provision" /\ c.at = "network" /\ c.next = 1
          /\ c.setup = r.setup /\ c.org = r.org /\ c.pw = r.pw /\ c.oidc = r.oidc
      BY <1>1, <1>2, <3>1 DEF Provisions
    <3> HIDE DEF c
    <3>4. c \in Requests /\ Provisioned(c) /\ CanLogIn(c)
      BY <1>2, <3>1, <3>2, <3>3 DEF Requests, Provisioned, CanLogIn
    <3>5. Sound(c)
      BY <3>3, <3>4 DEF Sound
    <3> QED
      BY <2>2, <3>3, <3>4, <3>5 DEF c
  <2> QED
    BY <1>4, <2>1, <2>2
<1>10. PICK c \in Requests \cup {None} :
         /\ Continues(s, c)
         /\ c # None => Sound(c) /\ c.kind = "provision" /\ c.at = "network" /\ c.next = 1
  BY <1>9
<1>11. /\ ReqTypes' /\ made' \in 0..MaxRequests
       /\ req'[s] = c /\ \A v \in Slots \ {s} : req'[v] = req[v]
  BY <1>10, SlotsStep
<1>12. SideTypes'
  BY <1>6, <1>8, <1>11, Before DEF SideTypes, memory
<1>13. c # None => Placed(req[s])'
  BY <1>10, <1>11 DEF Placed
<1> QED
  BY <1>6, <1>7, <1>10, <1>11, <1>12, <1>13, UsersStep DEF memory

\* A step that leaves the users alone and keeps the setups in their place.
LEMMA NetworksStep ==
    ASSUME AccountsInv, UNCHANGED users, networks' \in [Nets -> NetRow \cup {None}],
           torn' \in BOOLEAN, SideTypes', ReqTypes', SetupsPlaced',
           \A s \in Slots : \/ req'[s] \in {req[s], None}
                            \/ Sound(req'[s]) /\ req'[s].kind \notin {"edit", "delete"}
    PROVE  AccountsInv'
<1>1. RequestsSound'
  BY DEF AccountsInv, RequestsSound
<1>2. RequestsCurrent'
  BY DEF AccountsInv, RequestsCurrent, Current
<1>3. AccountsTypeOK'
  BY <1>1, Before DEF AccountsTypeOK, SideTypes, ReqTypes, RequestsSound, Sound
<1>4. EveryoneCanLogIn'
  BY DEF AccountsInv, EveryoneCanLogIn
<1> QED
  BY <1>1, <1>2, <1>3, <1>4 DEF AccountsInv

\* The networks of a setup.
LEMMA SetupNetworks ==
    ASSUME NEW q \in Setups
    PROVE  /\ q[1] \in Range(q) /\ Range(q) \subseteq Nets
           /\ \A p \in Setups : p # q => Range(p) \cap Range(q) = {}
<1>1. q \in Seq(Nets) /\ Len(q) \in Nat /\ 1 \in 1..Len(q)
  BY AccountsAssumption
<1>2. DOMAIN q = 1..Len(q) /\ \A i \in 1..Len(q) : q[i] \in Nets
  BY <1>1
<1>3. q[1] \in Range(q) /\ Range(q) \subseteq Nets
  BY <1>1, <1>2 DEF Range
<1> QED
  BY <1>3, AccountsAssumption

\* A network of a setup is stored, or the setup ends where its id is taken.
LEMMA SetupNetworkKeepsInv ==
    ASSUME AccountsInv, NEW s \in Slots, SetupNetwork(s)
    PROVE  AccountsInv'
<1> DEFINE r == req[s]
           q == r.setup
           n == q[r.next]
<1>1. r # None /\ r.kind = "provision" /\ r.at = "network"
  BY DEF SetupNetwork
<1>2. /\ r \in Provisions /\ Provisioned(r) /\ CanLogIn(r) /\ r.browser \in Browsers
      /\ r.org \in Orgs /\ q \in Setups /\ r.next \in 1..Len(q)
      /\ n \in Range(q) /\ q[1] \in Range(q) /\ Range(q) \subseteq Nets
  BY <1>1, ProvisionRecord
<1>3. UNCHANGED <<users, orgs, invites, keys, attempts, tokens, torn>>
  BY DEF SetupNetwork, memory
<1>4. /\ networks \in [Nets -> NetRow \cup {None}] /\ SideTypes /\ torn \in BOOLEAN
      /\ sess \in [Browsers -> SessionData]
      /\ attempts \in [Emails -> [n : Nat, old : BOOLEAN]]
      /\ orgs \in [Orgs -> {"regular", "demo", None}]
  BY Before DEF SideTypes
<1>5. CASE networks[n] # None
  <2>1. UNCHANGED networks /\ Continues(s, None) /\ sess' = IF r.pw THEN sess ELSE Cleared(r)
    BY <1>5 DEF SetupNetwork, Ends
  <2>2. sess' \in [Browsers -> SessionData]
    BY <1>2, <1>4, <2>1, ClearedTypes
  <2> QED
    BY <1>3, <1>4, <2>1, <2>2, ContinueStep
<1>6. CASE networks[n] = None
  <2> DEFINE c == [r EXCEPT !.at = "seed"]
             row == [org |-> r.org, seeded |-> FALSE]
  <2>1. networks' = [networks EXCEPT ![n] = row] /\ Continues(s, c) /\ UNCHANGED sess
    BY <1>6 DEF SetupNetwork
  <2>2. row \in NetRow /\ row # None /\ row.org = r.org
    <3>1. row \in NetRow /\ row.org = r.org
      BY <1>2 DEF NetRow
    <3>2. None \notin NetRow
      BY AccountsAssumption
    <3> QED
      BY <3>1, <3>2
  <2>3. /\ c \in Provisions /\ c.kind = "provision" /\ c.at = "seed" /\ c.next = r.next
        /\ c.setup = q /\ c.org = r.org /\ c.pw = r.pw /\ c.oidc = r.oidc
    BY <1>1, <1>2 DEF Provisions
  <2> HIDE DEF c, row
  <2>4. c \in Requests /\ Provisioned(c) /\ CanLogIn(c)
    BY <1>2, <2>3 DEF Requests, Provisioned, CanLogIn
  <2>5. Sound(c)
    BY <2>3, <2>4 DEF Sound
  <2>6. /\ ReqTypes' /\ made' \in 0..MaxRequests
        /\ req'[s] = c /\ \A v \in Slots \ {s} : req'[v] = req[v]
    BY <2>1, <2>4, SlotsStep
  <2>7. SideTypes'
    BY <1>3, <1>4, <2>1, <2>6 DEF SideTypes
  <2>8. /\ networks' \in [Nets -> NetRow \cup {None}]
        /\ networks'[n] = row /\ \A m \in Nets : m # n => networks'[m] = networks[m]
    BY <1>2, <1>4, <2>1, <2>2
  <2>9. SetupsPlaced'
    <3> SUFFICES ASSUME ~torn
                 PROVE  FirstIsThere' /\ \A v \in Slots : req'[v] # None => Placed(req[v])'
      BY <1>3 DEF SetupsPlaced
    <3>1. FirstIsThere /\ \A v \in Slots : req[v] # None => Placed(req[v])
      BY DEF AccountsInv, SetupsPlaced
    <3>2. networks'[q[1]] # None /\ networks'[q[1]].org = r.org
      <4>1. CASE r.next = 1
        BY <2>2, <2>8, <4>1
      <4>2. CASE r.next # 1
        <5>1. networks[q[1]] # None /\ networks[q[1]].org = r.org
          BY <1>1, <3>1, <4>2 DEF Placed
        <5> QED
          BY <1>2, <1>6, <2>8, <5>1
      <4> QED
        BY <4>1, <4>2
    <3>3. FirstIsThere'
      <4> SUFFICES ASSUME NEW p \in Setups, NEW m \in Range(p), networks'[m] # None
                   PROVE  networks'[p[1]] # None /\ networks'[m].org = networks'[p[1]].org
        BY DEF FirstIsThere
      <4>1. m \in Nets /\ p[1] \in Range(p) /\ p[1] \in Nets
        BY SetupNetworks
      <4>2. CASE m = n
        <5>1. p = q
          BY <1>2, <4>2, SetupNetworks
        <5> QED
          BY <2>2, <2>8, <3>2, <4>2, <5>1
      <4>3. CASE m # n
        <5>1. networks'[m] = networks[m] /\ networks[m] # None
          BY <2>8, <4>1, <4>3
        <5>2. networks[p[1]] # None /\ networks[m].org = networks[p[1]].org
          BY <3>1, <5>1 DEF FirstIsThere
        <5>3. networks'[p[1]] = networks[p[1]]
          BY <1>6, <2>8, <4>1, <5>2
        <5> QED
          BY <5>1, <5>2, <5>3
      <4> QED
        BY <4>2, <4>3
    <3>4. ASSUME NEW v \in Slots, req'[v] # None
          PROVE  Placed(req[v])'
      <4>1. CASE v = s
        BY <2>3, <2>6, <3>2, <4>1 DEF Placed
      <4>2. CASE v # s
        <5> SUFFICES ASSUME req[v].kind = "provision",
                            req[v].at = "seed" \/ (req[v].at = "network" /\ req[v].next # 1)
                     PROVE  networks'[req[v].setup[1]] # None /\ networks'[req[v].setup[1]].org = req[v].org
          BY <2>6, <4>2 DEF Placed
        <5>1. req[v] # None
          BY <2>6, <3>4, <4>2
        <5>2. networks[req[v].setup[1]] # None /\ networks[req[v].setup[1]].org = req[v].org
          BY <3>1, <5>1 DEF Placed
        <5>3. req[v].setup[1] \in Nets
          BY <5>1, ProvisionRecord
        <5> QED
          BY <1>6, <2>8, <5>2, <5>3
      <4> QED
        BY <4>1, <4>2
    <3> QED
      BY <3>3, <3>4
  <2> QED
    BY <1>3, <1>4, <2>3, <2>5, <2>6, <2>7, <2>8, <2>9, NetworksStep
<1> QED
  BY <1>5, <1>6

\* A network of a setup gets its default data and its daemon's key.
LEMMA SetupSeedKeepsInv ==
    ASSUME AccountsInv, NEW s \in Slots, SetupSeed(s)
    PROVE  AccountsInv'
<1> DEFINE r == req[s]
           q == r.setup
           n == q[r.next]
<1>1. r # None /\ r.kind = "provision" /\ r.at = "seed" /\ networks[n] # None
  BY DEF SetupSeed
<1>2. /\ r \in Provisions /\ Provisioned(r) /\ CanLogIn(r) /\ r.browser \in Browsers
      /\ r.org \in Orgs /\ q \in Setups /\ r.next \in 1..Len(q)
      /\ n \in Range(q) /\ q[1] \in Range(q) /\ Range(q) \subseteq Nets
  BY <1>1, ProvisionRecord
<1>3. UNCHANGED <<users, orgs, invites, attempts, tokens, torn>>
  BY DEF SetupSeed, memory
<1>4. /\ networks \in [Nets -> NetRow \cup {None}] /\ SideTypes /\ torn \in BOOLEAN
      /\ sess \in [Browsers -> SessionData]
  BY Before DEF SideTypes
<1>5. /\ networks' \in [Nets -> NetRow \cup {None}]
      /\ \A m \in Nets : /\ networks'[m] # None <=> networks[m] # None
                         /\ networks[m] # None => networks'[m].org = networks[m].org
  <2>1. networks' = [networks EXCEPT ![n].seeded = TRUE]
    BY DEF SetupSeed
  <2>2. networks[n] \in NetRow
    BY <1>1, <1>2, <1>4
  <2>3. PICK row \in NetRow : row.org = networks[n].org /\ networks' = [networks EXCEPT ![n] = row]
    BY <2>1, <2>2 DEF NetRow
  <2>4. row # None
    BY AccountsAssumption
  <2> QED
    BY <1>1, <1>2, <1>4, <2>3, <2>4
<1>6. keys' \subseteq Nets
  BY <1>2, <1>4 DEF SetupSeed, SideTypes
<1>7. sess' \in [Browsers -> SessionData]
  BY <1>2, <1>4, ClearedTypes DEF SetupSeed
<1>8. PICK c \in Requests \cup {None} :
         /\ Continues(s, c)
         /\ c # None => Sound(c) /\ c.kind = "provision" /\ c.setup = q /\ c.org = r.org
  <2>1. CASE r.next = Len(q)
    BY <2>1 DEF SetupSeed, Ends
  <2>2. CASE r.next # Len(q)
    <3> DEFINE c == [r EXCEPT !.at = "network", !.next = @ + 1]
    <3>1. Continues(s, c)
      BY <2>2 DEF SetupSeed
    <3>2. Len(q) \in Nat /\ r.next + 1 \in 1..Len(q) /\ r.next + 1 \in Nat
      <4>1. q \in Seq(Nets)
        BY <1>2, AccountsAssumption
      <4> QED
        BY <1>2, <2>2, <4>1
    <3>3. /\ c \in Provisions /\ c.kind = "provision" /\ c.at = "network" /\ c.next = r.next + 1
          /\ c.setup = q /\ c.org = r.org /\ c.pw = r.pw /\ c.oidc = r.oidc
      BY <1>1, <1>2, <3>2 DEF Provisions
    <3> HIDE DEF c
    <3>4. c \in Requests /\ Provisioned(c) /\ CanLogIn(c)
      BY <1>2, <3>2, <3>3 DEF Requests, Provisioned, CanLogIn
    <3>5. Sound(c)
      BY <3>3, <3>4 DEF Sound
    <3> QED
      BY <3>1, <3>3, <3>4, <3>5
  <2> QED
    BY <2>1, <2>2
<1>9. /\ ReqTypes' /\ made' \in 0..MaxRequests
      /\ req'[s] = c /\ \A v \in Slots \ {s} : req'[v] = req[v]
  BY <1>8, SlotsStep
<1>10. SideTypes'
  BY <1>3, <1>4, <1>6, <1>7, <1>9 DEF SideTypes
<1>11. SetupsPlaced'
  <2> SUFFICES ASSUME ~torn
               PROVE  FirstIsThere' /\ \A v \in Slots : req'[v] # None => Placed(req[v])'
    BY <1>3 DEF SetupsPlaced
  <2>1. FirstIsThere /\ \A v \in Slots : req[v] # None => Placed(req[v])
    BY DEF AccountsInv, SetupsPlaced
  <2>2. FirstIsThere'
    <3> SUFFICES ASSUME NEW p \in Setups, NEW m \in Range(p), networks'[m] # None
                 PROVE  networks'[p[1]] # None /\ networks'[m].org = networks'[p[1]].org
      BY DEF FirstIsThere
    <3>1. m \in Nets /\ p[1] \in Nets
      BY SetupNetworks
    <3>2. networks[m] # None /\ networks[p[1]] # None /\ networks[m].org = networks[p[1]].org
      BY <1>5, <2>1, <3>1 DEF FirstIsThere
    <3> QED
      BY <1>5, <3>1, <3>2
  <2>3. ASSUME NEW v \in Slots, req'[v] # None
        PROVE  Placed(req[v])'
    <3>1. CASE v = s
      <4>1. networks[q[1]] # None /\ networks[q[1]].org = r.org
        BY <1>1, <2>1 DEF Placed
      <4>2. networks'[q[1]] # None /\ networks'[q[1]].org = r.org
        BY <1>2, <1>5, <4>1
      <4> QED
        BY <1>8, <1>9, <2>3, <3>1, <4>2 DEF Placed
    <3>2. CASE v # s
      <4> SUFFICES ASSUME req[v].kind = "provision",
                          req[v].at = "seed" \/ (req[v].at = "network" /\ req[v].next # 1)
                   PROVE  networks'[req[v].setup[1]] # None /\ networks'[req[v].setup[1]].org = req[v].org
        BY <1>9, <3>2 DEF Placed
      <4>1. req[v] # None
        BY <1>9, <2>3, <3>2
      <4>2. networks[req[v].setup[1]] # None /\ networks[req[v].setup[1]].org = req[v].org
        BY <2>1, <4>1 DEF Placed
      <4>3. req[v].setup[1] \in Nets
        BY <4>1, ProvisionRecord
      <4> QED
        BY <1>5, <4>2, <4>3
    <3> QED
      BY <3>1, <3>2
  <2> QED
    BY <2>2, <2>3
<1> QED
  BY <1>3, <1>4, <1>5, <1>8, <1>9, <1>10, <1>11, NetworksStep

\* The data of an organization is deleted.
LEMMA ResetDataKeepsInv ==
    ASSUME AccountsInv, NEW s \in Slots, ResetData(s)
    PROVE  AccountsInv'
<1> DEFINE r == req[s]
           c == [r EXCEPT !.at = "users"]
<1>1. r # None /\ r.kind = "reset" /\ r.at = "data"
  BY DEF ResetData
<1>2. r \in Resets /\ r.org \in Orgs
  BY <1>1, Before, RequestKinds DEF Resets
<1>3. /\ networks' = [n \in Nets |-> IF networks[n] # None /\ networks[n].org = r.org
                                     THEN None ELSE networks[n]]
      /\ keys' = {n \in keys : networks'[n] # None}
      /\ invites' = [i \in Invites |-> IF invites[i] # None /\ invites[i].org = r.org
                                       THEN None ELSE invites[i]]
      /\ Continues(s, c)
      /\ torn' = (torn \/ \E v \in Slots : SetsUp(v, r.org))
      /\ UNCHANGED <<users, orgs, sess, attempts, tokens>>
  BY DEF ResetData
<1>4. /\ networks \in [Nets -> NetRow \cup {None}] /\ SideTypes /\ torn \in BOOLEAN
  BY Before
<1>5. c \in Requests /\ c.kind = "reset" /\ Sound(c)
  BY <1>1, <1>2 DEF Resets, Requests, Sound
<1> HIDE DEF c
<1>6. /\ ReqTypes' /\ made' \in 0..MaxRequests
      /\ req'[s] = c /\ \A v \in Slots \ {s} : req'[v] = req[v]
  BY <1>3, <1>5, SlotsStep
<1>7. SideTypes'
  BY <1>3, <1>4, <1>6 DEF SideTypes
<1>8. /\ networks' \in [Nets -> NetRow \cup {None}]
      /\ \A n \in Nets : networks'[n] # None => networks[n] # None /\ networks[n].org # r.org
      /\ \A n \in Nets : networks[n] # None /\ networks[n].org # r.org => networks'[n] = networks[n]
      /\ torn' \in BOOLEAN
  BY <1>3, <1>4
<1>9. SetupsPlaced'
  <2> SUFFICES ASSUME ~torn'
               PROVE  FirstIsThere' /\ \A v \in Slots : req'[v] # None => Placed(req[v])'
    BY DEF SetupsPlaced
  <2>1. FirstIsThere /\ \A v \in Slots : req[v] # None => Placed(req[v]) /\ ~SetsUp(v, r.org)
    BY <1>3 DEF AccountsInv, SetupsPlaced
  <2>2. FirstIsThere'
    <3> SUFFICES ASSUME NEW p \in Setups, NEW m \in Range(p), networks'[m] # None
                 PROVE  networks'[p[1]] # None /\ networks'[m].org = networks'[p[1]].org
      BY DEF FirstIsThere
    <3>1. m \in Nets /\ p[1] \in Nets
      BY SetupNetworks
    <3>2. networks[m] # None /\ networks[m].org # r.org /\ networks'[m] = networks[m]
      BY <1>8, <3>1
    <3>3. networks[p[1]] # None /\ networks[m].org = networks[p[1]].org
      BY <2>1, <3>2 DEF FirstIsThere
    <3> QED
      BY <1>8, <3>1, <3>2, <3>3
  <2>3. ASSUME NEW v \in Slots, req'[v] # None
        PROVE  Placed(req[v])'
    <3>1. CASE v = s
      BY <1>5, <1>6, <3>1 DEF Placed
    <3>2. CASE v # s
      <4> SUFFICES ASSUME req[v].kind = "provision",
                          req[v].at = "seed" \/ (req[v].at = "network" /\ req[v].next # 1)
                   PROVE  networks'[req[v].setup[1]] # None /\ networks'[req[v].setup[1]].org = req[v].org
        BY <1>6, <3>2 DEF Placed
      <4>1. req[v] # None
        BY <1>6, <2>3, <3>2
      <4>2. networks[req[v].setup[1]] # None /\ networks[req[v].setup[1]].org = req[v].org
        BY <2>1, <4>1 DEF Placed
      <4>3. req[v].setup[1] \in Nets
        BY <4>1, ProvisionRecord
      <4>4. req[v].org # r.org
        BY <2>1, <4>1 DEF SetsUp
      <4> QED
        BY <1>8, <4>2, <4>3, <4>4
    <3> QED
      BY <3>1, <3>2
  <2> QED
    BY <2>2, <2>3
<1> QED
  BY <1>3, <1>5, <1>6, <1>7, <1>8, <1>9, NetworksStep

\* Users who are deleted, and the invites that go with them.
LEMMA WithoutTypes ==
    ASSUME AccountsInv, NEW us
    PROVE  /\ WithoutUsers(us) \in [Users -> UserRow \cup {None}]
           /\ \A u \in Users : WithoutUsers(us)[u] = IF u \in us THEN None ELSE users[u]
           /\ InvitesWithout(us) \in [Invites -> InviteRow \cup {None}]
<1>1. users \in [Users -> UserRow \cup {None}] /\ invites \in [Invites -> InviteRow \cup {None}]
  BY Before DEF SideTypes
<1> QED
  BY <1>1 DEF WithoutUsers, InvitesWithout

\* A row that was edited is written back.
LEMMA WriteUserKeepsInv ==
    ASSUME AccountsInv, NEW s \in Slots, WriteUser(s)
    PROVE  AccountsInv'
<1> DEFINE r == req[s]
<1>1. r # None /\ r.kind = "edit" /\ Continues(s, None)
  BY DEF WriteUser, Ends
<1>2. /\ r \in UserEdits /\ Sound(r) /\ Current(r)
      /\ r.user \in Users /\ r.row \in UserRow /\ r.browser \in Browsers
  BY <1>1, Before, RequestKinds DEF UserEdits
<1>3. CanLogIn(r.row) /\ r.row.org = r.read.org
  BY <1>1, <1>2 DEF Sound
<1>4. users[r.user] # None => users[r.user].org = r.read.org
  BY <1>1, <1>2 DEF Current
<1>5. users \in [Users -> UserRow \cup {None}] /\ SideTypes /\ sess \in [Browsers -> SessionData]
  BY Before DEF SideTypes
<1>6. /\ UNCHANGED <<orgs, invites, networks, keys, attempts, tokens, torn>>
      /\ \/ UNCHANGED <<users, sess>>
         \/ users[r.user] # None /\ users' = [users EXCEPT ![r.user] = r.row] /\ sess' = AfterReset(r)
  BY DEF WriteUser, memory, Exists
<1> HIDE DEF r
<1>7. users' \in [Users -> UserRow \cup {None}] /\ \A u \in Users : Changes(u)
  BY <1>2, <1>3, <1>4, <1>5, <1>6 DEF Changes
<1>8. sess' \in [Browsers -> SessionData]
  BY <1>2, <1>5, <1>6, SignInTypes DEF AfterReset
<1>9. /\ ReqTypes' /\ made' \in 0..MaxRequests
      /\ req'[s] = None /\ \A v \in Slots \ {s} : req'[v] = req[v]
  BY <1>1, SlotsStep
<1>10. SideTypes'
  BY <1>5, <1>6, <1>8, <1>9 DEF SideTypes
<1> QED
  BY <1>6, <1>7, <1>9, <1>10, UsersStep

\* The other steps of the requests.
LEMMA StepKeepsInv ==
    ASSUME AccountsInv, StepNext
    PROVE  AccountsInv'
<1>1. PICK s \in Slots :
       \/ ProvisionOrg(s) \/ ProvisionUser(s) \/ SetupNetwork(s) \/ SetupSeed(s)
       \/ LoginEnds(s) \/ WriteUser(s) \/ DeleteCommits(s)
       \/ ResetData(s) \/ ResetUsers(s) \/ PopulateAdmin(s)
       \/ RequestFails(s)
  BY DEF StepNext
<1> DEFINE r == req[s]
<1>2. /\ SideTypes /\ orgs \in [Orgs -> {"regular", "demo", None}]
      /\ sess \in [Browsers -> SessionData]
      /\ attempts \in [Emails -> [n : Nat, old : BOOLEAN]]
      /\ users \in [Users -> UserRow \cup {None}]
  BY Before DEF SideTypes
<1>3. r # None => r \in Requests /\ Sound(r)
  BY Before
<1>4. ASSUME NEW us, users' = WithoutUsers(us), invites' = InvitesWithout(us),
             NEW c \in Requests \cup {None}, Continues(s, c),
             c # None => Sound(c) /\ c.kind = "reset",
             UNCHANGED <<orgs, networks, keys, sess, attempts, tokens, torn>>
      PROVE  AccountsInv'
  <2>1. /\ ReqTypes' /\ made' \in 0..MaxRequests
        /\ req'[s] = c /\ \A v \in Slots \ {s} : req'[v] = req[v]
    BY <1>4, SlotsStep
  <2>2. SideTypes'
    BY <1>2, <1>4, <2>1, WithoutTypes DEF SideTypes
  <2>3. users' \in [Users -> UserRow \cup {None}] /\ \A u \in Users : Changes(u)
    BY <1>4, WithoutTypes DEF Changes
  <2>4. c # None => Placed(req[s])'
    BY <1>4, <2>1 DEF Placed
  <2> QED
    BY <1>4, <2>1, <2>2, <2>3, <2>4, UsersStep
<1>5. CASE ProvisionOrg(s)
  <2>1. r # None /\ r.kind = "provision" /\ r.at = "org"
    BY <1>5 DEF ProvisionOrg
  <2>2. r \in Provisions /\ Provisioned(r) /\ CanLogIn(r)
    BY <2>1, ProvisionRecord
  <2>3. PICK o \in Orgs : /\ orgs' = [orgs EXCEPT ![o] = "regular"]
                          /\ Continues(s, [r EXCEPT !.org = o, !.at = "user"])
    BY <1>5 DEF ProvisionOrg
  <2> DEFINE c == [r EXCEPT !.org = o, !.at = "user"]
  <2>4. /\ c \in Provisions /\ c.kind = "provision" /\ c.at = "user" /\ c.next = r.next
        /\ c.org = o /\ c.pw = r.pw /\ c.oidc = r.oidc
    BY <2>1, <2>2 DEF Provisions
  <2> HIDE DEF c
  <2>5. c \in Requests /\ Sound(c) /\ Current(c) /\ Placed(c)
    BY <2>1, <2>2, <2>4 DEF Requests, Provisioned, CanLogIn, Sound, Current, Placed
  <2>6. orgs' \in [Orgs -> {"regular", "demo", None}]
    BY <1>2, <2>3
  <2>7. Continues(s, c)
    BY <2>3 DEF c
  <2> QED
    BY <1>2, <1>5, <2>5, <2>6, <2>7, ContinueStep DEF ProvisionOrg, memory
<1>6. CASE LoginEnds(s)
  <2>1. r # None /\ r.kind = "login" /\ Continues(s, None)
    BY <1>6 DEF LoginEnds, Ends
  <2>2. r.email \in Emails /\ r.browser \in Browsers
    BY <1>3, <2>1, RequestKinds DEF Logins
  <2>3. attempts' \in [Emails -> [n : Nat, old : BOOLEAN]]
    <3>1. LoginFailed(r.email) \/ LoginSucceeded(r.email)
      BY <1>6 DEF LoginEnds
    <3>2. PICK e \in Emails : e = r.email
      BY <2>2
    <3>3. [n |-> attempts[e].n + 1, old |-> FALSE] \in [n : Nat, old : BOOLEAN]
      BY <1>2
    <3>4. [n |-> 0, old |-> FALSE] \in [n : Nat, old : BOOLEAN]
      OBVIOUS
    <3>5. PICK k \in [n : Nat, old : BOOLEAN] : attempts' = [attempts EXCEPT ![e] = k]
      BY <3>1, <3>2, <3>3, <3>4, Zenon DEF LoginFailed, LoginSucceeded
    <3> QED
      BY <1>2, <3>5
  <2>4. sess' \in [Browsers -> SessionData]
    <3>1. UNCHANGED sess \/ \E u \in Users : sess' = [sess EXCEPT ![r.browser].user = u]
      BY <1>6 DEF LoginEnds, Opens, ByEmail, Existing
    <3>2. PICK b \in Browsers : b = r.browser
      BY <2>2
    <3>3. \A u \in Users : [sess EXCEPT ![b].user = u] \in [Browsers -> SessionData]
      BY SignInTypes
    <3> QED
      BY <1>2, <3>1, <3>2, <3>3, Zenon
  <2> QED
    BY <1>2, <1>6, <2>1, <2>3, <2>4, ContinueStep DEF LoginEnds, db
<1>7. CASE DeleteCommits(s)
  BY <1>4, <1>7 DEF DeleteCommits, Ends, memory
<1>8. CASE ResetUsers(s)
  <2> DEFINE others == {u \in Existing : users[u].org = r.org /\ users[u].perm # "Owner"}
             c == IF r.populate THEN [r EXCEPT !.at = "admin"] ELSE None
  <2>1. r # None /\ r.kind = "reset"
    BY <1>8 DEF ResetUsers
  <2>2. r \in Resets
    BY <1>3, <2>1, RequestKinds
  <2>3. c \in Requests \cup {None} /\ (c # None => Sound(c) /\ c.kind = "reset")
    BY <2>1, <2>2 DEF Resets, Requests, Sound
  <2>4. Continues(s, c)
    BY <1>8 DEF ResetUsers, Ends
  <2> HIDE DEF c
  <2>5. users' = WithoutUsers(others) /\ invites' = InvitesWithout(others)
    BY <1>8 DEF ResetUsers
  <2> QED
    BY <1>4, <1>8, <2>3, <2>4, <2>5 DEF ResetUsers, memory
<1>9. CASE PopulateAdmin(s)
  <2> DEFINE row == [org |-> r.org, perm |-> "Admin", email |-> DemoEmail, pw |-> TRUE, oidc |-> None]
  <2>1. r # None /\ r.kind = "reset" /\ Continues(s, None)
    BY <1>9 DEF PopulateAdmin, Ends
  <2>2. r.org \in Orgs
    BY <1>3, <2>1, RequestKinds DEF Resets
  <2>3. row \in UserRow /\ CanLogIn(row)
    BY <2>2, AccountsAssumption DEF UserRow, CanLogIn, Perms
  <2>4. PICK u \in FreshUsers : users' = users \/ users' = [users EXCEPT ![u] = row]
    BY <1>9 DEF PopulateAdmin
  <2> HIDE DEF row
  <2>5. users' \in [Users -> UserRow \cup {None}] /\ \A v \in Users : Changes(v)
    <3>1. u \in Users
      BY DEF FreshUsers
    <3> QED
      BY <1>2, <2>3, <2>4, <3>1 DEF Changes
  <2>6. /\ ReqTypes' /\ made' \in 0..MaxRequests
        /\ req'[s] = None /\ \A v \in Slots \ {s} : req'[v] = req[v]
    BY <2>1, SlotsStep
  <2>7. SideTypes'
    BY <1>2, <1>9, <2>6 DEF SideTypes, PopulateAdmin, memory
  <2> QED
    BY <1>9, <2>5, <2>6, <2>7, UsersStep DEF PopulateAdmin, memory
<1>10. CASE RequestFails(s)
  <2>1. r # None /\ Continues(s, None)
    BY <1>10 DEF RequestFails, Ends
  <2>2. sess' \in [Browsers -> SessionData]
    <3>1. CASE r.kind = "provision"
      BY <1>2, <1>10, <2>1, <3>1, ProvisionRecord, ClearedTypes DEF RequestFails
    <3>2. CASE r.kind # "provision"
      BY <1>2, <1>10, <3>2 DEF RequestFails
    <3> QED
      BY <3>1, <3>2
  <2> QED
    BY <1>2, <1>10, <2>1, <2>2, ContinueStep DEF RequestFails, db, memory
<1> QED
  BY <1>1, <1>5, <1>6, <1>7, <1>8, <1>9, <1>10, ProvisionUserKeepsInv, SetupNetworkKeepsInv,
     SetupSeedKeepsInv, WriteUserKeepsInv, ResetDataKeepsInv

-----------------------------------------------------------------------------
(* The theorems *)

\* The accounts a behaviour starts with are what the invariant says.
LEMMA AccountsStart == AccountsInit => AccountsInv
<1> SUFFICES ASSUME AccountsInit
             PROVE  AccountsInv
  OBVIOUS
<1>1. /\ users \in [Users -> UserRow \cup {None}]
      /\ orgs \in [Orgs -> {"regular", "demo", None}]
      /\ \A u \in Users : users[u] # None => users[u].pw \/ users[u].oidc # None
      /\ MaxRequests \in Nat
  BY AccountsAssumption DEF AccountsInit
<1>2. sess \in [Browsers -> SessionData]
  <2>1. InitSessions \in [Browsers -> Users \cup {None}]
    BY AccountsAssumption
  <2>2. \A b \in Browsers : [NoSession EXCEPT !.user = InitSessions[b]] \in SessionData
    BY <2>1 DEF NoSession, SessionData
  <2> QED
    BY <2>2 DEF AccountsInit
<1>3. /\ invites \in [Invites -> InviteRow \cup {None}]
      /\ networks \in [Nets -> NetRow \cup {None}] /\ \A n \in Nets : networks[n] = None
      /\ keys \subseteq Nets
      /\ attempts \in [Emails -> [n : Nat, old : BOOLEAN]]
      /\ tokens \in [Tokens -> [user : Users, old : BOOLEAN] \cup {None}]
      /\ req \in [Slots -> Requests \cup {None}] /\ \A s \in Slots : req[s] = None
      /\ made = 0 /\ torn = FALSE
  BY DEF AccountsInit
<1>4. AccountsTypeOK
  <2>1. made \in 0..MaxRequests
    BY <1>1, <1>3
  <2>2. torn \in BOOLEAN
    BY <1>3
  <2> QED
    BY <1>1, <1>2, <1>3, <2>1, <2>2, Zenon DEF AccountsTypeOK
<1>5. FirstIsThere
  BY <1>3, SetupNetworks DEF FirstIsThere
<1> QED
  BY <1>1, <1>3, <1>4, <1>5 DEF AccountsInv, EveryoneCanLogIn, RequestsSound, RequestsCurrent, SetupsPlaced

\* The invariant is kept by every step.
LEMMA AccountsStep == AccountsInv /\ [AccountsNext]_accountVars => AccountsInv'
<1> SUFFICES ASSUME AccountsInv, [AccountsNext]_accountVars
             PROVE  AccountsInv'
  OBVIOUS
<1>1. CASE AccountsNext
  BY <1>1, SessionKeepsInv, RequestKeepsInv, StepKeepsInv, TimeKeepsInv DEF AccountsNext
<1>2. CASE UNCHANGED accountVars
  <2>1. SideTypes' /\ ReqTypes' /\ UNCHANGED <<users, networks, torn, req>>
    BY <1>2, Before DEF accountVars, SideTypes, ReqTypes
  <2> QED
    BY <2>1, RequestStep
<1> QED
  BY <1>1, <1>2

\* Hence it is an invariant.
LEMMA AccountsInductive == AccountsSpec => []AccountsInv
  BY AccountsStart, AccountsStep, PTL DEF AccountsSpec

\* Whatever requests run together, fail or are lost in a restart, the tables, the
\* sessions and the requests keep their types; every account can be entered; and
\* the networks of one /setup call stay in one organization.
THEOREM AccountsSafety ==
    AccountsSpec => [](AccountsTypeOK /\ EveryoneCanLogIn /\ SetupStaysTogether)
<1>1. AccountsInv => SetupStaysTogether
  <2> SUFFICES ASSUME AccountsInv, ~torn, NEW q \in Setups, NEW m \in Range(q), NEW n \in Range(q),
                      networks[m] # None, networks[n] # None
               PROVE  networks[m].org = networks[n].org
    BY DEF SetupStaysTogether
  <2>1. FirstIsThere
    BY DEF AccountsInv, SetupsPlaced
  <2> QED
    BY <2>1 DEF FirstIsThere
<1>2. AccountsInv => AccountsTypeOK /\ EveryoneCanLogIn /\ SetupStaysTogether
  BY <1>1 DEF AccountsInv
<1> QED
  BY <1>2, AccountsInductive, PTL

\* A step that takes the last owner from an organization is the end of a request
\* that decided on owners, or on a row, that somebody has changed since.
LEMMA LastOwner ==
    ASSUME AccountsInv, AccountsNext, NEW o \in Orgs, Owners(o) # {}, Owners(o)' = {}
    PROVE  \E s \in Slots : OutOfDate(s, o) /\ req'[s] = None
<1>1. users' # users
  BY DEF Owners, Existing
<1>2. users \in [Users -> UserRow \cup {None}]
  BY Before
<1>3. \A u \in Users : users[u] # None /\ users[u].org = o /\ users[u].perm = "Owner" =>
          users'[u] # users[u]
  BY DEF Owners, Existing
<1>4. PICK w \in Users : users[w] # None /\ users[w].org = o /\ users[w].perm = "Owner"
  BY DEF Owners, Existing
<1>5. PICK s \in Slots : \/ ProvisionUser(s) \/ PopulateAdmin(s) \/ ResetUsers(s)
                         \/ WriteUser(s) \/ DeleteCommits(s)
  <2>1. ~SessionNext
    <3> SUFFICES ASSUME NEW b \in Browsers
                 PROVE  /\ \A q : ~Setup(b, q)
                        /\ \A n, later : ~DaemonSetup(b, n, later)
                        /\ \A i, p : ~CreateInvite(b, i, p)
                        /\ \A i : ~RevokeInvite(b, i) /\ ~AcceptInvite(b, i)
                        /\ \A f, p, h : ~OidcAuthorize(b, f, p, h)
                        /\ \A x, h : ~OidcLogin(b, x, h)
                        /\ ~Logout(b)
      BY Zenon DEF SessionNext
    <3>1. (\A q : ~Setup(b, q)) /\ (\A n, later : ~DaemonSetup(b, n, later)) /\ ~Logout(b)
      BY <1>1 DEF Setup, DaemonSetup, Logout, db
    <3>2. (\A i, p : ~CreateInvite(b, i, p)) /\ (\A i : ~RevokeInvite(b, i) /\ ~AcceptInvite(b, i))
      BY <1>1 DEF CreateInvite, RevokeInvite, AcceptInvite
    <3>3. (\A f, p, h : ~OidcAuthorize(b, f, p, h)) /\ (\A x, h : ~OidcLogin(b, x, h))
      BY <1>1 DEF OidcAuthorize, OidcLogin, db
    <3> QED
      BY <3>1, <3>2, <3>3
  <2>2. ~RequestNext
    <3> SUFFICES ASSUME NEW s \in Slots, NEW b \in Browsers
                 PROVE  /\ \A e : ~Register(s, b, e)
                        /\ \A x, e : ~OidcRegister(s, b, x, e)
                        /\ \A e, h : ~Login(s, b, e, h)
                        /\ \A pw, e : ~UpdatePassword(s, b, pw, e)
                        /\ ~UpdateUser(s, b)
                        /\ \A u, p : ~AdminUpdateUser(s, b, u, p)
                        /\ \A x : ~OidcLink(s, b, x)
                        /\ ~OidcUnlink(s, b)
                        /\ \A t : ~ResetPassword(s, b, t)
                        /\ \A u : ~DeleteUser(s, b, u)
                        /\ \A us : ~BulkDeleteUsers(s, b, us)
                        /\ \A populate : ~ResetOrganization(s, b, populate)
      BY Zenon DEF RequestNext
    <3>1. (\A e : ~Register(s, b, e)) /\ (\A x, e : ~OidcRegister(s, b, x, e)) /\ (\A e, h : ~Login(s, b, e, h))
      BY <1>1 DEF Register, OidcRegister, Login, db
    <3>2. /\ (\A pw, e : ~UpdatePassword(s, b, pw, e)) /\ ~UpdateUser(s, b)
          /\ (\A u, p : ~AdminUpdateUser(s, b, u, p))
      BY <1>1 DEF UpdatePassword, UpdateUser, AdminUpdateUser, db
    <3>3. (\A x : ~OidcLink(s, b, x)) /\ ~OidcUnlink(s, b) /\ (\A t : ~ResetPassword(s, b, t))
      BY <1>1 DEF OidcLink, OidcUnlink, ResetPassword, db
    <3>4. /\ (\A u : ~DeleteUser(s, b, u)) /\ (\A us : ~BulkDeleteUsers(s, b, us))
          /\ (\A populate : ~ResetOrganization(s, b, populate))
      BY <1>1 DEF DeleteUser, BulkDeleteUsers, ResetOrganization, db
    <3> QED
      BY <3>1, <3>2, <3>3, <3>4
  <2>3. ~TimeNext
    BY <1>1 DEF TimeNext, InviteExpires, CleanupExpired, LockoutPasses, CleanupAttempts,
                ForgotPassword, TokenExpires, Restart, db
  <2>4. StepNext
    BY <2>1, <2>2, <2>3 DEF AccountsNext
  <2> QED
    BY <1>1, <2>4 DEF StepNext, ProvisionOrg, SetupNetwork, SetupSeed, LoginEnds, ResetData,
                      RequestFails, db
<1> DEFINE r == req[s]
<1>6. r # None => r \in Requests /\ Sound(r) /\ Current(r)
  BY Before
<1>7. CASE ProvisionUser(s) \/ PopulateAdmin(s)
  <2>1. PICK u \in FreshUsers : users' = users \/ \E row : users' = [users EXCEPT ![u] = row]
    BY <1>7 DEF ProvisionUser, PopulateAdmin
  <2>2. u # w
    BY <1>4 DEF FreshUsers
  <2> QED
    BY <1>2, <1>3, <1>4, <2>1, <2>2
<1>8. CASE ResetUsers(s)
  <2>1. users'[w] = users[w]
    BY <1>4, <1>8, WithoutTypes DEF ResetUsers
  <2> QED
    BY <1>3, <1>4, <2>1
<1>9. CASE WriteUser(s)
  <2>1. /\ r # None /\ r.kind = "edit" /\ Continues(s, None)
        /\ users' = users \/ users' = [users EXCEPT ![r.user] = r.row]
    BY <1>9 DEF WriteUser, Ends
  <2>2. r \in UserEdits /\ r.user \in Users /\ r.row \in UserRow
    BY <1>6, <2>1, RequestKinds DEF UserEdits
  <2>3. r.row.org = r.read.org /\ (r.read.perm = "Owner" => r.row.perm = "Owner")
    BY <1>6, <2>1 DEF Sound
  <2>4. w = r.user /\ users'[w] = r.row
    BY <1>2, <1>3, <1>4, <2>1, <2>2
  <2>5. r.row # None
    BY <2>2, AccountsAssumption
  <2>6. r.read # users[r.user]
    BY <1>4, <2>3, <2>4, <2>5 DEF Owners, Existing
  <2>7. req'[s] = None
    BY <2>1, SlotsStep
  <2> QED
    BY <2>1, <2>6, <2>7 DEF OutOfDate
<1>10. CASE DeleteCommits(s)
  <2>1. r # None /\ r.kind = "delete" /\ Continues(s, None) /\ users' = WithoutUsers(r.users)
    BY <1>10 DEF DeleteCommits, Ends
  <2>2. r \in Deletions /\ r.users \subseteq Users
    BY <1>6, <2>1, RequestKinds DEF Deletions
  <2>3. r.owners = {} \/ ~(r.owners \subseteq r.users)
    BY <1>6, <2>1 DEF Sound
  <2>4. \A u \in Owners(o) : u \in r.users
    BY <1>3, <2>1, WithoutTypes DEF Owners, Existing
  <2>5. r.org = o
    <3>1. w \in r.users
      BY <1>4, <2>4 DEF Owners, Existing
    <3> QED
      BY <1>4, <1>6, <2>1, <3>1 DEF Current
  <2>6. r.owners # Owners(o)
    BY <2>3, <2>4
  <2>7. req'[s] = None
    BY <2>1, SlotsStep
  <2> QED
    BY <2>1, <2>5, <2>6, <2>7 DEF OutOfDate
<1> QED
  BY <1>5, <1>7, <1>8, <1>9, <1>10

\* Two requests that each leave an owner can together leave none, as can an edit of a
\* row that has changed since it was read; nothing else takes the last owner.
THEOREM OwnersGuarded == AccountsSpec => OwnerLostOnlyToStaleRead
<1> DEFINE A == \A o \in Orgs : Owners(o) # {} /\ Owners(o)' = {} =>
                   \E s \in Slots : OutOfDate(s, o) /\ req'[s] = None
<1>1. AccountsInv /\ [AccountsNext]_accountVars => [A]_accountVars
  BY LastOwner
<1> HIDE DEF A
<1>2. AccountsSpec => [][A]_accountVars
  BY <1>1, AccountsInductive, PTL DEF AccountsSpec
<1> QED
  BY <1>2 DEF A, OwnerLostOnlyToStaleRead
=============================================================================
