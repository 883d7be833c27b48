----------------------------- MODULE MCAccounts -----------------------------
EXTENDS Accounts, TLC
CONSTANTS u1, u2, u3, u4, o1, o2, o3, e1, e2, e3, e4, p1, x1, n1, n2, b1, b2, s1, s2

\* Two owners, one with a password and one with a provider's account.
MCUsers == {u1, u2, u3, u4}
MCOrgs == {o1, o2, o3}
MCEmails == {e1, e2, e3, e4}
MCInitUsers ==
    (u1 :> [org |-> o1, perm |-> "Owner", email |-> e1, pw |-> TRUE, oidc |-> None])
    @@ (u2 :> [org |-> o1, perm |-> "Owner", email |-> e2, pw |-> FALSE, oidc |-> x1])
    @@ [u \in {u3, u4} |-> None]
MCInitOrgs == o1 :> "demo" @@ [o \in {o2, o3} |-> None]
MCInitSessions == b1 :> u1 @@ b2 :> None
MCSubjects == {x1}
MCProviders == {p1}
MCProvider == [x \in MCSubjects |-> p1]
MCSymmetry == Permutations({s1, s2}) \cup Permutations({o2, o3}) \cup Permutations({u3, u4})
MCSetups == {<<n1, n2>>}
=============================================================================
