------------------------------ MODULE Accounts ------------------------------
(***************************************************************************)
(* Organizations, their users and invites, and the browser sessions of the *)
(* users (server/auth, users, invites, organizations).                     *)
(*                                                                         *)
(* A request that reads, decides and then writes is a record in a slot and *)
(* takes its steps one by one, between those of other requests; a request  *)
(* of one database access is a single action.  What a refused request      *)
(* would change is nothing, so it is no step.  Passwords are right or      *)
(* wrong, an account with an external provider is its subject, and of a    *)
(* network only the organization, its default data and its daemon key are  *)
(* kept.  Left out: terms, disposable addresses and other configuration    *)
(* that only refuses, network access lists, mail, the integrated daemon.   *)
(***************************************************************************)
EXTENDS Naturals, Sequences, FiniteSets, Functions

CONSTANTS
    Users, Orgs, Emails, Invites, Tokens, Browsers,
    Subjects, Providers,
    Provider,          \* [Subjects -> Providers]
    InitUsers, InitOrgs,  \* the accounts a behaviour starts with
    InitSessions,      \* and who is signed in where
    Setups,            \* sequences of networks, the ids one /setup call makes
    Slots,             \* requests the server may be working on at once
    DemoEmail,         \* the address of the demo administrator
    MaxLoginAttempts,  \* AuthService::MAX_LOGIN_ATTEMPTS
    MaxRequests,       \* bound: requests in a behaviour
    None

Nets == UNION {Range(q) : q \in Setups}
Perms == {"Viewer", "Member", "Admin", "Owner"}
Hosts == {"main", "demo"}

UserRow == [org : Orgs, perm : Perms, email : Emails, pw : BOOLEAN,
            oidc : Subjects \cup {None}]
NetRow == [org : Orgs, seeded : BOOLEAN]

ASSUME AccountsAssumption ==
    /\ Provider \in [Subjects -> Providers]
    /\ MaxLoginAttempts \in Nat \ {0} /\ MaxRequests \in Nat
    /\ DemoEmail \in Emails
    /\ None \notin Users \cup Orgs \cup Emails \cup Subjects \cup Nets \cup Invites
    /\ None \notin UserRow \cup NetRow
    /\ \A q \in Setups : q \in Seq(Nets) /\ q # <<>>
    /\ \A p, q \in Setups : p # q => Range(p) \cap Range(q) = {}
    /\ InitOrgs \in [Orgs -> {"regular", "demo", None}]
    /\ InitUsers \in [Users -> UserRow \cup {None}]
    /\ \A u \in Users : InitUsers[u] # None => InitUsers[u].pw \/ InitUsers[u].oidc # None
    /\ InitSessions \in [Browsers -> {u \in Users : InitUsers[u] # None} \cup {None}]

VARIABLES
    users, orgs, invites, networks, keys,  \* tables
    sess,                                  \* sessions, kept in the database
    attempts, tokens,                      \* login_attempts and password_reset_tokens, in memory
    req, made,
    torn      \* history: an organization was reset while its setup was being applied

db == <<users, orgs, invites, networks, keys>>
memory == <<attempts, tokens, torn>>
accountVars == <<users, orgs, invites, networks, keys, sess, attempts, tokens, req, made, torn>>

Rank == [Viewer |-> 1, Member |-> 2, Admin |-> 3, Owner |-> 4]
Outranks(p, q) == Rank[p] > Rank[q]

NoSession == [user |-> None, invite |-> None, setup |-> <<>>, daemons |-> {}, flow |-> None]

----------------------------------------------------------------------------
(* Reading the tables. *)

Exists(u) == u # None /\ users[u] # None
Existing == {u \in Users : users[u] # None}
\* An id is new: nothing refers to a user who had it.
Names(r) == CASE r.kind = "edit" -> {r.user} [] r.kind = "delete" -> r.users [] OTHER -> {}
FreshUsers ==
    {u \in Users : /\ users[u] = None
                   /\ \A b \in Browsers : sess[b].user # u
                   /\ \A s \in Slots : req[s] # None => u \notin Names(req[s])
                   /\ \A t \in Tokens : tokens[t] # None => tokens[t].user # u}
ByEmail(e) == {u \in Existing : users[u].email = e}
BySubject(x) == {u \in Existing : users[u].oidc = x}
Owners(o) == {u \in Existing : users[u].org = o /\ users[u].perm = "Owner"}

\* What the unique indexes on the e-mail and on the subject let user u store.
Storable(u, row) ==
    /\ ByEmail(row.email) \subseteq {u}
    /\ row.oidc # None => BySubject(row.oidc) \subseteq {u}

\* The user of a session, as the extractor of the request finds it.
Me(b) == users[sess[b].user]
SignedIn(b) == Exists(sess[b].user)
MayEdit(b) == SignedIn(b) /\ ~(orgs[Me(b).org] = "demo" /\ Me(b).perm # "Owner")
Administers(b) == SignedIn(b) /\ ~Outranks("Admin", Me(b).perm)

\* plan.is_demo() against the host the request came to.
HostAllows(o, host) == orgs[o] = "demo" <=> host = "demo"

Valid(i) == invites[i] # None /\ ~invites[i].expired
\* use_invite
Used(i) == IF Valid(i) THEN [invites EXCEPT ![i] = None] ELSE invites

WithoutUsers(us) == [u \in Users |-> IF u \in us THEN None ELSE users[u]]
\* invites.created_by is deleted with the user.
InvitesWithout(us) ==
    [i \in Invites |-> IF invites[i] # None /\ invites[i].by \in us THEN None ELSE invites[i]]

Starts(s, r) ==
    /\ req[s] = None /\ made < MaxRequests
    /\ req' = [req EXCEPT ![s] = r] /\ made' = made + 1
AtOnce == made < MaxRequests /\ made' = made + 1 /\ UNCHANGED req
Continues(s, r) == req' = [req EXCEPT ![s] = r] /\ UNCHANGED made
Ends(s) == Continues(s, None)

----------------------------------------------------------------------------
(* Before an account exists: what a session remembers. *)

\* setup: the ids of the networks are made now and used at registration.
Setup(b, q) ==
    /\ AtOnce
    /\ \A n \in Range(q) : networks[n] = None /\ \A c \in Browsers : n \notin Range(sess[c].setup)
    /\ \A s \in Slots : req[s] # None /\ req[s].kind = "provision" => req[s].setup # q
    /\ sess' = [sess EXCEPT ![b].setup = q]
    /\ UNCHANGED <<db, memory>>

\* daemon_setup: a later call for the same network replaces the earlier one.
DaemonSetup(b, n, later) ==
    /\ AtOnce
    /\ sess' = [sess EXCEPT ![b].daemons = (@ \ {n}) \cup (IF later THEN {} ELSE {n})]
    /\ UNCHANGED <<db, memory>>

CreateInvite(b, i, p) ==
    /\ AtOnce /\ Administers(b) /\ MayEdit(b)
    /\ ~Outranks(p, Me(b).perm)
    /\ invites[i] = None /\ \A c \in Browsers : sess[c].invite # None => sess[c].invite.id # i
    /\ invites' = [invites EXCEPT ![i] =
                     [org |-> Me(b).org, perm |-> p, by |-> sess[b].user, expired |-> FALSE]]
    /\ UNCHANGED <<users, orgs, networks, keys, sess, memory>>

RevokeInvite(b, i) ==
    /\ AtOnce /\ Administers(b) /\ MayEdit(b)
    /\ Valid(i) /\ invites[i].org = Me(b).org
    /\ \/ invites[i].by = sess[b].user
       \/ Outranks(Me(b).perm, invites[i].perm)
       \/ Me(b).perm = "Owner"
    /\ invites' = [invites EXCEPT ![i] = None]
    /\ UNCHANGED <<users, orgs, networks, keys, sess, memory>>

InviteExpires(i) ==
    /\ Valid(i)
    /\ invites' = [invites EXCEPT ![i].expired = TRUE]
    /\ UNCHANGED <<users, orgs, networks, keys, sess, memory, req, made>>

CleanupExpired ==
    /\ \E i \in Invites : invites[i] # None /\ invites[i].expired
    /\ invites' = [i \in Invites |-> IF Valid(i) THEN invites[i] ELSE None]
    /\ UNCHANGED <<users, orgs, networks, keys, sess, memory, req, made>>

\* accept_invite_link: the session takes a copy of the invite.  A session that is
\* signed in uses the invite up: as a member of an organization it is turned away,
\* and the session of a deleted user consumes it and then finds no user.
AcceptInvite(b, i) ==
    /\ AtOnce /\ Valid(i)
    /\ LET copy == [id |-> i, org |-> invites[i].org, perm |-> invites[i].perm]
           gone == sess[b].user # None /\ ~Exists(sess[b].user)
       IN  sess' = [sess EXCEPT ![b].invite = IF gone THEN None ELSE copy]
    /\ invites' = IF sess[b].user = None THEN invites ELSE Used(i)
    /\ UNCHANGED <<users, orgs, networks, keys, memory>>

----------------------------------------------------------------------------
(* Registration. *)

\* process_pending_invite: an invite that was used, revoked or expired since is only
\* logged; the copy in the session decides.
UseInvite(b) == IF sess[b].invite = None THEN invites ELSE Used(sess[b].invite.id)

ProvisionWithoutOrg(b, e, pw, x) ==
    [kind |-> "provision", at |-> IF sess[b].invite = None THEN "org" ELSE "user", browser |-> b,
     org |-> None, perm |-> "Viewer", email |-> e, pw |-> pw, oidc |-> x, setup |-> <<>>, next |-> 1,
     daemons |-> {}]
Provision(b, e, pw, x) ==
    LET i == sess[b].invite
    IN  [kind |-> "provision", at |-> IF i = None THEN "org" ELSE "user", browser |-> b,
         org |-> IF i = None THEN None ELSE i.org,
         perm |-> IF i = None THEN "Owner" ELSE i.perm,
         email |-> e, pw |-> pw, oidc |-> x,
         setup |-> IF i = None THEN sess[b].setup ELSE <<>>, next |-> 1,
         daemons |-> IF i = None THEN sess[b].daemons ELSE {}]

\* AuthService::register and OidcService::register, which come after the invite.
RegisterEmail(s, b, e) ==
    IF ByEmail(e) = {} THEN Starts(s, Provision(b, e, TRUE, None)) ELSE AtOnce
RegisterSubject(s, b, x, e) ==
    IF BySubject(x) = {} THEN Starts(s, Provision(b, e, FALSE, x)) ELSE AtOnce

Register(s, b, e) ==
    /\ invites' = UseInvite(b)
    /\ sess' = [sess EXCEPT ![b].invite = None]
    /\ RegisterEmail(s, b, e)
    /\ UNCHANGED <<users, orgs, networks, keys, memory>>

OidcAuthorize(b, flow, p, host) ==
    /\ AtOnce
    /\ flow = "register" => host # "demo"
    /\ sess' = [sess EXCEPT ![b].flow = [kind |-> flow, provider |-> p]]
    /\ UNCHANGED <<db, memory>>

\* oidc_callback: the provider answers the flow the session started, with subject x
\* and, at registration, an address e.
Callback(b, flow, x) == sess[b].flow = [kind |-> flow, provider |-> Provider[x]]

OidcRegister(s, b, x, e) ==
    /\ Callback(b, "register", x)
    /\ invites' = UseInvite(b)
    /\ sess' = [sess EXCEPT ![b].invite = None]
    /\ RegisterSubject(s, b, x, e)
    /\ UNCHANGED <<users, orgs, networks, keys, memory>>

ProvisionOrg(s) ==
    /\ req[s] # None /\ req[s].kind = "provision" /\ req[s].at = "org"
    /\ \E o \in Orgs :
          /\ orgs[o] = None
          /\ orgs' = [orgs EXCEPT ![o] = "regular"]
          /\ Continues(s, [req[s] EXCEPT !.org = o, !.at = "user"])
    /\ UNCHANGED <<users, invites, networks, keys, sess, memory>>

\* What a registration leaves in its session once it is over: the password form
\* clears the setup after applying it, the provider's callback for any new
\* organization, whether applying it worked or not.
Cleared(r) ==
    [sess EXCEPT ![r.browser] = [@ EXCEPT !.setup = <<>>, !.daemons = {}]]

ProvisionUser(s) ==
    LET r == req[s]
        row == [org |-> r.org, perm |-> r.perm, email |-> r.email, pw |-> r.pw, oidc |-> r.oidc]
        signed(u) == [sess EXCEPT ![r.browser].user = u,
                                  ![r.browser].flow = IF r.pw THEN @ ELSE None]
    IN  /\ r # None /\ r.kind = "provision" /\ r.at = "user"
        /\ \E u \in FreshUsers :
             IF ~Storable(u, row)
             THEN Ends(s) /\ UNCHANGED <<users, sess>>
             ELSE /\ users' = [users EXCEPT ![u] = row]
                  /\ sess' = signed(u)
                  /\ IF r.setup = <<>> THEN Ends(s)
                     ELSE Continues(s, [r EXCEPT !.at = "network"])
        /\ UNCHANGED <<orgs, invites, networks, keys, memory>>

\* apply_pending_setup, one network after the other, each with the id /setup made; an
\* id that is taken fails the request.
SetupNetworkReuses(s) ==
    LET r == req[s]  n == r.setup[r.next]
    IN  /\ r # None /\ r.kind = "provision" /\ r.at = "network"
        /\ networks' = IF networks[n] # None THEN networks
                       ELSE [networks EXCEPT ![n] = [org |-> r.org, seeded |-> FALSE]]
        /\ Continues(s, [r EXCEPT !.at = "seed"])
        /\ UNCHANGED <<users, orgs, invites, keys, sess, memory>>
SetupNetwork(s) ==
    LET r == req[s]  n == r.setup[r.next]
    IN  /\ r # None /\ r.kind = "provision" /\ r.at = "network"
        /\ IF networks[n] # None
           THEN /\ Ends(s) /\ UNCHANGED networks
                /\ sess' = IF r.pw THEN sess ELSE Cleared(r)
           ELSE /\ networks' = [networks EXCEPT ![n] = [org |-> r.org, seeded |-> FALSE]]
                /\ Continues(s, [r EXCEPT !.at = "seed"])
                /\ UNCHANGED sess
        /\ UNCHANGED <<users, orgs, invites, keys, memory>>

\* Default subnets, a topology, and the key promised to a daemon.
SetupSeed(s) ==
    LET r == req[s]  n == r.setup[r.next]
    IN  /\ r # None /\ r.kind = "provision" /\ r.at = "seed"
        /\ networks[n] # None
        /\ networks' = [networks EXCEPT ![n].seeded = TRUE]
        /\ keys' = keys \cup ({n} \cap r.daemons)
        /\ IF r.next = Len(r.setup)
           THEN Ends(s) /\ sess' = Cleared(r)
           ELSE Continues(s, [r EXCEPT !.at = "network", !.next = @ + 1]) /\ UNCHANGED sess
        /\ UNCHANGED <<users, orgs, invites, memory>>

----------------------------------------------------------------------------
(* Signing in and out. *)

Locked(e) == attempts[e].n >= MaxLoginAttempts /\ ~attempts[e].old

\* check_login_lockout
Login(s, b, e, host) ==
    /\ ~Locked(e)
    /\ Starts(s, [kind |-> "login", browser |-> b, email |-> e, host |-> host])
    /\ UNCHANGED <<db, sess, memory>>

\* try_login: the accounts the right password of this address opens.
Opens(e) == {u \in ByEmail(e) : users[u].pw}

\* AuthService::login counts a failure, and forgets the failures on success ...
LoginFailed(e) == attempts' = [attempts EXCEPT ![e] = [n |-> @.n + 1, old |-> FALSE]]
LoginSucceeded(e) == attempts' = [attempts EXCEPT ![e] = [n |-> 0, old |-> FALSE]]

\* ... even when the handler then finds that the account belongs to the other host.
LoginEnds(s) ==
    LET r == req[s]
    IN  /\ r # None /\ r.kind = "login"
        /\ \/ LoginFailed(r.email) /\ UNCHANGED sess
           \/ \E u \in Opens(r.email) :
                 /\ LoginSucceeded(r.email)
                 /\ sess' = IF HostAllows(users[u].org, r.host)
                            THEN [sess EXCEPT ![r.browser].user = u] ELSE sess
        /\ Ends(s)
        /\ UNCHANGED <<db, tokens, torn>>

OidcLogin(b, x, host) ==
    /\ AtOnce
    /\ Callback(b, "login", x)
    /\ \E u \in BySubject(x) :
          /\ HostAllows(users[u].org, host)
          /\ sess' = [sess EXCEPT ![b].user = u, ![b].flow = None]
    /\ UNCHANGED <<db, memory>>

Logout(b) ==
    /\ AtOnce
    /\ sess' = [sess EXCEPT ![b] = NoSession]
    /\ UNCHANGED <<db, memory>>

\* Fifteen minutes since the last failure.
LockoutPasses(e) ==
    /\ attempts[e].n > 0 /\ ~attempts[e].old
    /\ attempts' = [attempts EXCEPT ![e].old = TRUE]
    /\ UNCHANGED <<db, sess, tokens, req, made, torn>>

CleanupAttempts ==
    /\ \E e \in Emails : attempts[e].old
    /\ attempts' = [e \in Emails |-> IF attempts[e].old THEN [n |-> 0, old |-> FALSE] ELSE attempts[e]]
    /\ UNCHANGED <<db, sess, tokens, req, made, torn>>

----------------------------------------------------------------------------
(* Changing an account: the row is read, edited and written back whole. *)

Edits(s, b, u, row, signIn) ==
    Starts(s, [kind |-> "edit", browser |-> b, user |-> u, read |-> users[u], row |-> row,
               signIn |-> signIn])

\* update_password: a password, an address or both.
NewCredentials(row, pw, e) ==
    [row EXCEPT !.pw = @ \/ pw, !.email = IF e = None THEN @ ELSE e]
UpdatePassword(s, b, pw, e) ==
    /\ MayEdit(b)
    /\ Edits(s, b, sess[b].user, NewCredentials(Me(b), pw, e), FALSE)
    /\ UNCHANGED <<db, sess, memory>>

\* update_user: the user's own record, of which these fields are kept.
UpdateUser(s, b) ==
    /\ MayEdit(b)
    /\ Edits(s, b, sess[b].user, Me(b), FALSE)
    /\ UNCHANGED <<db, sess, memory>>

AdminUpdateUser(s, b, u, p) ==
    /\ Administers(b) /\ MayEdit(b)
    /\ Exists(u) /\ u # sess[b].user
    /\ Outranks(Me(b).perm, users[u].perm)
    /\ Me(b).perm = "Owner" \/ Outranks(Me(b).perm, p)
    /\ Edits(s, b, u, [users[u] EXCEPT !.perm = p], FALSE)
    /\ UNCHANGED <<db, sess, memory>>

\* link_to_user: the subject is nobody's and the user has no other provider.
Linkable(b, x) ==
    /\ BySubject(x) = {} /\ SignedIn(b)
    /\ Me(b).oidc # None => Provider[Me(b).oidc] = Provider[x]

OidcLink(s, b, x) ==
    /\ Callback(b, "link", x)
    /\ sess[b].user # None
    /\ sess' = [sess EXCEPT ![b].flow = None]
    /\ IF Linkable(b, x)
       THEN Edits(s, b, sess[b].user, [Me(b) EXCEPT !.oidc = x], FALSE)
       ELSE AtOnce
    /\ UNCHANGED <<db, memory>>

\* unlink_from_user: only with a password, or the account could not be entered.
UnlinkableWithoutPassword(row) == row.oidc # None
Unlinkable(row) == row.pw

OidcUnlink(s, b) ==
    /\ MayEdit(b)
    /\ Unlinkable(Me(b))
    /\ Edits(s, b, sess[b].user, [Me(b) EXCEPT !.oidc = None], FALSE)
    /\ UNCHANGED <<db, sess, memory>>

\* complete_password_reset keeps the map of tokens locked until the row is written.
TokensFree == \A s \in Slots : req[s] # None /\ req[s].kind = "edit" => ~req[s].signIn

ForgotPassword(e, t) ==
    /\ AtOnce /\ TokensFree
    /\ tokens[t] = None
    /\ \E u \in ByEmail(e) : tokens' = [tokens EXCEPT ![t] = [user |-> u, old |-> FALSE]]
    /\ UNCHANGED <<db, sess, attempts, torn>>

TokenExpires(t) ==
    /\ tokens[t] # None /\ ~tokens[t].old
    /\ tokens' = [tokens EXCEPT ![t].old = TRUE]
    /\ UNCHANGED <<db, sess, attempts, req, made, torn>>

\* complete_password_reset: the token is gone, whatever follows.
ResetPassword(s, b, t) ==
    /\ tokens[t] # None /\ TokensFree
    /\ tokens' = [tokens EXCEPT ![t] = None]
    /\ IF ~tokens[t].old /\ Exists(tokens[t].user)
       THEN Edits(s, b, tokens[t].user, [users[tokens[t].user] EXCEPT !.pw = TRUE], TRUE)
       ELSE AtOnce
    /\ UNCHANGED <<db, sess, attempts, torn>>

\* The handler of a password reset signs the user in.
AfterReset(r) == IF r.signIn THEN [sess EXCEPT ![r.browser].user = r.user] ELSE sess

WriteUser(s) ==
    LET r == req[s]
    IN  /\ r # None /\ r.kind = "edit"
        /\ Ends(s)
        /\ IF Exists(r.user) /\ Storable(r.user, r.row)
           THEN /\ users' = [users EXCEPT ![r.user] = r.row]
                /\ sess' = AfterReset(r)
           ELSE UNCHANGED <<users, sess>>
        /\ UNCHANGED <<orgs, invites, networks, keys, memory>>

----------------------------------------------------------------------------
(* Removing accounts. *)

DeleteUserUncounted(s, b, u) ==
    /\ Administers(b) /\ MayEdit(b)
    /\ Exists(u) /\ users[u].org = Me(b).org
    /\ ~Outranks(users[u].perm, Me(b).perm)
    /\ Starts(s, [kind |-> "delete", org |-> Me(b).org, users |-> {u}, owners |-> Owners(Me(b).org)])
    /\ UNCHANGED <<db, sess, memory>>
DeleteUser(s, b, u) ==
    /\ Administers(b) /\ MayEdit(b)
    /\ Exists(u) /\ users[u].org = Me(b).org
    /\ ~Outranks(users[u].perm, Me(b).perm)
    /\ ~(users[u].perm = "Owner" /\ Cardinality(Owners(Me(b).org)) = 1)
    /\ Starts(s, [kind |-> "delete", org |-> Me(b).org, users |-> {u}, owners |-> Owners(Me(b).org)])
    /\ UNCHANGED <<db, sess, memory>>

BulkDeleteUsers(s, b, us) ==
    /\ Administers(b) /\ MayEdit(b)
    /\ \A u \in us : Exists(u) /\ users[u].org = Me(b).org /\ ~Outranks(users[u].perm, Me(b).perm)
    /\ ~(Owners(Me(b).org) \subseteq us)
    /\ Starts(s, [kind |-> "delete", org |-> Me(b).org, users |-> us, owners |-> Owners(Me(b).org)])
    /\ UNCHANGED <<db, sess, memory>>

DeleteCommits(s) ==
    LET r == req[s]
    IN  /\ r # None /\ r.kind = "delete"
        /\ Ends(s)
        /\ users' = WithoutUsers(r.users) /\ invites' = InvitesWithout(r.users)
        /\ UNCHANGED <<orgs, networks, keys, sess, memory>>

\* reset, and populate_demo_data, which starts with it.
ResetOrganization(s, b, populate) ==
    /\ SignedIn(b) /\ Me(b).perm = "Owner"
    /\ populate => orgs[Me(b).org] = "demo"
    /\ Starts(s, [kind |-> "reset", at |-> "data", org |-> Me(b).org, populate |-> populate])
    /\ UNCHANGED <<db, sess, memory>>

\* apply_pending_setup is at work for organization o.
SetsUp(s, o) ==
    /\ req[s] # None /\ req[s].kind = "provision"
    /\ req[s].at \in {"network", "seed"} /\ req[s].org = o

ResetData(s) ==
    LET r == req[s]
    IN  /\ r # None /\ r.kind = "reset" /\ r.at = "data"
        /\ networks' = [n \in Nets |-> IF networks[n] # None /\ networks[n].org = r.org
                                       THEN None ELSE networks[n]]
        /\ keys' = {n \in keys : networks'[n] # None}
        /\ invites' = [i \in Invites |-> IF invites[i] # None /\ invites[i].org = r.org
                                         THEN None ELSE invites[i]]
        /\ Continues(s, [r EXCEPT !.at = "users"])
        /\ torn' = (torn \/ \E v \in Slots : SetsUp(v, r.org))
        /\ UNCHANGED <<users, orgs, sess, attempts, tokens>>

ResetUsers(s) ==
    LET r == req[s]
        others == {u \in Existing : users[u].org = r.org /\ users[u].perm # "Owner"}
    IN  /\ r # None /\ r.kind = "reset" /\ r.at = "users"
        /\ users' = WithoutUsers(others) /\ invites' = InvitesWithout(others)
        /\ IF r.populate THEN Continues(s, [r EXCEPT !.at = "admin"]) ELSE Ends(s)
        /\ UNCHANGED <<orgs, networks, keys, sess, memory>>

\* The demo administrator is made anew; UserService::create gives it an id of its own.
PopulateAdmin(s) ==
    LET r == req[s]
        row == [org |-> r.org, perm |-> "Admin", email |-> DemoEmail, pw |-> TRUE, oidc |-> None]
    IN  /\ r # None /\ r.kind = "reset" /\ r.at = "admin"
        /\ \E u \in FreshUsers :
              users' = IF Storable(u, row) THEN [users EXCEPT ![u] = row] ELSE users
        /\ Ends(s)
        /\ UNCHANGED <<orgs, invites, networks, keys, sess, memory>>

----------------------------------------------------------------------------
(* Failures. *)

\* A step fails: what the request has written stays.
RequestFails(s) ==
    /\ req[s] # None /\ Ends(s)
    /\ sess' = IF req[s].kind = "provision" /\ ~req[s].pw /\ req[s].at \in {"network", "seed"}
               THEN Cleared(req[s]) ELSE sess
    /\ UNCHANGED <<db, memory>>

\* A restart loses the requests and what is only in memory.
Restart ==
    /\ req' = [s \in Slots |-> None]
    /\ attempts' = [e \in Emails |-> [n |-> 0, old |-> FALSE]]
    /\ tokens' = [t \in Tokens |-> None]
    /\ UNCHANGED <<db, sess, made, torn>>

----------------------------------------------------------------------------
AccountsInit ==
    /\ users = InitUsers /\ orgs = InitOrgs
    /\ invites = [i \in Invites |-> None]
    /\ networks = [n \in Nets |-> None] /\ keys = {}
    /\ sess = [b \in Browsers |-> [NoSession EXCEPT !.user = InitSessions[b]]]
    /\ attempts = [e \in Emails |-> [n |-> 0, old |-> FALSE]]
    /\ tokens = [t \in Tokens |-> None]
    /\ req = [s \in Slots |-> None] /\ made = 0 /\ torn = FALSE

SessionNext ==
    \E b \in Browsers :
       \/ \E q \in Setups : Setup(b, q)
       \/ \E n \in Nets, later \in BOOLEAN : DaemonSetup(b, n, later)
       \/ \E i \in Invites, p \in Perms : CreateInvite(b, i, p)
       \/ \E i \in Invites : RevokeInvite(b, i) \/ AcceptInvite(b, i)
       \/ \E f \in {"login", "register", "link"}, p \in Providers, h \in Hosts : OidcAuthorize(b, f, p, h)
       \/ \E x \in Subjects, h \in Hosts : OidcLogin(b, x, h)
       \/ Logout(b)

RequestNext ==
    \E s \in Slots, b \in Browsers :
       \/ \E e \in Emails : Register(s, b, e)
       \/ \E x \in Subjects, e \in Emails : OidcRegister(s, b, x, e)
       \/ \E e \in Emails, h \in Hosts : Login(s, b, e, h)
       \/ \E pw \in BOOLEAN, e \in Emails \cup {None} : UpdatePassword(s, b, pw, e)
       \/ UpdateUser(s, b)
       \/ \E u \in Users, p \in Perms : AdminUpdateUser(s, b, u, p)
       \/ \E x \in Subjects : OidcLink(s, b, x)
       \/ OidcUnlink(s, b)
       \/ \E t \in Tokens : ResetPassword(s, b, t)
       \/ \E u \in Users : DeleteUser(s, b, u)
       \/ \E us \in SUBSET Users \ {{}} : BulkDeleteUsers(s, b, us)
       \/ \E populate \in BOOLEAN : ResetOrganization(s, b, populate)

StepNext ==
    \E s \in Slots :
       \/ ProvisionOrg(s) \/ ProvisionUser(s) \/ SetupNetwork(s) \/ SetupSeed(s)
       \/ LoginEnds(s) \/ WriteUser(s) \/ DeleteCommits(s)
       \/ ResetData(s) \/ ResetUsers(s) \/ PopulateAdmin(s)
       \/ RequestFails(s)

TimeNext ==
    \/ \E i \in Invites : InviteExpires(i)
    \/ CleanupExpired
    \/ \E e \in Emails : LockoutPasses(e)
    \/ CleanupAttempts
    \/ \E e \in Emails, t \in Tokens : ForgotPassword(e, t)
    \/ \E t \in Tokens : TokenExpires(t)
    \/ Restart

AccountsNext == SessionNext \/ RequestNext \/ StepNext \/ TimeNext

AccountsSpec == AccountsInit /\ [][AccountsNext]_accountVars

----------------------------------------------------------------------------
(* Properties. *)

\* The requests under way.
Logins == [kind : {"login"}, browser : Browsers, email : Emails, host : Hosts]
UserEdits == [kind : {"edit"}, browser : Browsers, user : Users, read : UserRow, row : UserRow,
              signIn : BOOLEAN]
Deletions == [kind : {"delete"}, org : Orgs, users : SUBSET Users, owners : SUBSET Users]
Resets == [kind : {"reset"}, at : {"data", "users", "admin"}, org : Orgs, populate : BOOLEAN]
Provisions ==
    [kind : {"provision"}, at : {"org", "user", "network", "seed"}, browser : Browsers,
     org : Orgs \cup {None}, perm : Perms, email : Emails, pw : BOOLEAN, oidc : Subjects \cup {None},
     setup : Setups \cup {<<>>}, next : Nat, daemons : SUBSET Nets]

Requests == Provisions \cup Logins \cup UserEdits \cup Deletions \cup Resets

\* A registration has an organization when it stores the user, and a network left when it
\* stores networks.
Provisioned(r) ==
    /\ r.at # "org" => r.org \in Orgs
    /\ r.at \in {"network", "seed"} => r.setup \in Setups /\ r.next \in 1..Len(r.setup)
    /\ r.at \in {"org", "user"} => r.next = 1

InviteRow == [org : Orgs, perm : Perms, by : Users, expired : BOOLEAN]
SessionData ==
    [user : Users \cup {None},
     invite : [id : Invites, org : Orgs, perm : Perms] \cup {None},
     setup : Setups \cup {<<>>}, daemons : SUBSET Nets,
     flow : [kind : {"login", "register", "link"}, provider : Providers] \cup {None}]

\* The types of the tables, the sessions, what is in memory and the requests.
AccountsTypeOK ==
    /\ users \in [Users -> UserRow \cup {None}]
    /\ orgs \in [Orgs -> {"regular", "demo", None}]
    /\ invites \in [Invites -> InviteRow \cup {None}]
    /\ networks \in [Nets -> NetRow \cup {None}]
    /\ keys \subseteq Nets
    /\ sess \in [Browsers -> SessionData]
    /\ attempts \in [Emails -> [n : Nat, old : BOOLEAN]]
    /\ tokens \in [Tokens -> [user : Users, old : BOOLEAN] \cup {None}]
    /\ req \in [Slots -> Requests \cup {None}]
    /\ \A s \in Slots : req[s] # None /\ req[s].kind = "provision" => Provisioned(req[s])
    /\ made \in 0..MaxRequests /\ torn \in BOOLEAN

\* Every account can be entered: it has a password or an account with a provider.  A
\* provider is unlinked on a row read earlier, while other requests write that row.
EveryoneCanLogIn ==
    \A u \in Users : users[u] # None => users[u].pw \/ users[u].oidc # None

\* The networks one /setup call named belong to one organization, whatever failed and
\* was tried again in the session that holds the setup: unless an organization is reset
\* while they are being stored, when a second registration from the same session finds
\* the first of them free again.
SetupStaysTogether ==
    ~torn => \A q \in Setups : \A m, n \in Range(q) :
       networks[m] # None /\ networks[n] # None => networks[m].org = networks[n].org

\* An organization loses its last owner only to a request whose reading is out of date:
\* owners counted, or a row read, before another request wrote.
OutOfDate(s, o) ==
    /\ req[s] # None
    /\ \/ req[s].kind = "delete" /\ req[s].org = o /\ req[s].owners # Owners(o)
       \/ req[s].kind = "edit" /\ req[s].read # users[req[s].user]
OwnerLostOnlyToStaleRead ==
    [][\A o \in Orgs : Owners(o) # {} /\ Owners(o)' = {} =>
          \E s \in Slots : OutOfDate(s, o) /\ req'[s] = None]_accountVars
=============================================================================
