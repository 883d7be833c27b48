-------------------------- MODULE InventoryProofs ---------------------------
(***************************************************************************)
(* Whatever hosts, services, bindings and reports there are, and however   *)
(* many requests: the tables keep their references, the bindings of a      *)
(* service agree and are for its host, and a port on an interface is never *)
(* given to two services; Inventory implements PortRegistry.               *)
(*                                                                         *)
(* InvInv is the inductive invariant: the tables are Sound and Exclusive,  *)
(* and every request in progress is what CallOK says.  StepOK is what one  *)
(* write to the tables has to do; there is one lemma ...Keeps for every    *)
(* action, and it brings the action down to the few kinds of writes whose  *)
(* StepOK is shown before: rows go (DeletingStep), are added (AddingStep), *)
(* services become loose (LooseStep), or one service is checked and        *)
(* written (AssignStep).                                                   *)
(***************************************************************************)
EXTENDS Inventory, TLAPS, FiniteSetTheorems, WellFoundedInduction

-----------------------------------------------------------------------------
(* Sequences *)

\* A set of numbers that has 0 and with each number the next has all of them:
\* otherwise the smallest number missing would have a predecessor in it.
LEMMA NatSetInduction ==
    ASSUME NEW S, 0 \in S, \A n \in Nat : n \in S => n + 1 \in S
    PROVE  Nat \subseteq S
<1> SUFFICES ASSUME Nat \ S # {} PROVE FALSE
  OBVIOUS
<1>1. PICK x \in Nat \ S : \A y \in Nat \ S : ~(<<y, x>> \in OpToRel(<, Nat))
  BY NatLessThanWellFounded, WFMin
<1>2. x # 0 /\ x - 1 \in Nat /\ x - 1 < x
  OBVIOUS
<1>3. x - 1 \in S => x \in S
  BY <1>2
<1>4. x - 1 \in Nat \ S
  BY <1>2, <1>3
<1>5. <<x - 1, x>> \in OpToRel(<, Nat)
  BY <1>2 DEF OpToRel
<1> QED
  BY <1>1, <1>4, <1>5

\* The function in Merged is the loop of upsert_service: it exists and its
\* values satisfy its equation.
LEMMA MergedLoop ==
    ASSUME NEW V, NEW B, NEW bs \in Seq(V)
    PROVE  \E m : /\ m = [i \in 0..Len(bs) |-> IF i = 0 THEN B ELSE MergeOne(m[i - 1], bs[i])]
                  /\ Merged(B, bs) = m[Len(bs)]
<1> DEFINE Def(m, k) == m = [i \in 0..k |-> IF i = 0 THEN B ELSE MergeOne(m[i - 1], bs[i])]
           S == {k \in Nat : k <= Len(bs) => \E m : Def(m, k)}
<1>1. 0 \in S
  <2>1. Def([i \in 0..0 |-> B], 0)
    OBVIOUS
  <2> QED
    BY <2>1
<1>2. ASSUME NEW k \in Nat, k \in S
      PROVE  k + 1 \in S
  <2> SUFFICES ASSUME k + 1 <= Len(bs)
               PROVE  \E m : Def(m, k + 1)
    OBVIOUS
  <2>1. PICK m : Def(m, k)
    BY <1>2
  <2> DEFINE g == [i \in 0..(k + 1) |-> IF i = k + 1 THEN MergeOne(m[k], bs[k + 1]) ELSE m[i]]
  <2>2. ASSUME NEW i \in 0..(k + 1)
        PROVE  g[i] = IF i = 0 THEN B ELSE MergeOne(g[i - 1], bs[i])
    <3>1. CASE i = 0
      BY <2>1, <3>1
    <3>2. CASE i \in 1..k
      <4>1. i - 1 \in 0..k /\ g[i - 1] = m[i - 1] /\ g[i] = m[i] /\ i \in 0..k /\ i # 0
        BY <3>2
      <4>2. m[i] = MergeOne(m[i - 1], bs[i])
        BY <2>1, <4>1
      <4> HIDE DEF g
      <4> QED
        BY <4>1, <4>2
    <3>3. CASE i = k + 1
      <4>1. g[k + 1] = MergeOne(m[k], bs[k + 1]) /\ g[k] = m[k] /\ i # 0 /\ i - 1 = k
        BY <3>3
      <4> HIDE DEF g
      <4> QED
        BY <3>3, <4>1
    <3> QED
      BY <3>1, <3>2, <3>3
  <2>3. Def(g, k + 1)
    <3>1. g = [i \in 0..(k + 1) |-> g[i]]
      OBVIOUS
    <3> HIDE DEF g
    <3> QED
      BY <2>2, <3>1
  <2> QED
    BY <2>3
<1>3. \E m : Def(m, Len(bs))
  <2> HIDE DEF S
  <2>1. Len(bs) \in S
    BY <1>1, <1>2, NatSetInduction
  <2> QED
    BY <2>1 DEF S
<1>4. Def(CHOOSE m : Def(m, Len(bs)), Len(bs))
  BY <1>3
<1> QED
  BY <1>4 DEF Merged

\* The same of the function in Select.
LEMMA SelectLoop ==
    ASSUME NEW V, NEW s \in Seq(V), NEW I
    PROVE  \E f : /\ f = [i \in 0..Len(s) |->
                            IF i = 0 THEN <<>>
                            ELSE IF i \in I THEN Append(f[i - 1], s[i]) ELSE f[i - 1]]
                  /\ Select(s, I) = f[Len(s)]
<1> DEFINE Step(v, i) == IF i \in I THEN Append(v, s[i]) ELSE v
           Def(f, k) == f = [i \in 0..k |-> IF i = 0 THEN <<>> ELSE Step(f[i - 1], i)]
           S == {k \in Nat : k <= Len(s) => \E f : Def(f, k)}
<1> HIDE DEF Step
<1>1. 0 \in S
  <2>1. Def([i \in 0..0 |-> <<>>], 0)
    OBVIOUS
  <2> QED
    BY <2>1
<1>2. ASSUME NEW k \in Nat, k \in S
      PROVE  k + 1 \in S
  <2> SUFFICES ASSUME k + 1 <= Len(s)
               PROVE  \E f : Def(f, k + 1)
    OBVIOUS
  <2>1. PICK f : Def(f, k)
    BY <1>2
  <2> DEFINE g == [i \in 0..(k + 1) |-> IF i = k + 1 THEN Step(f[k], k + 1) ELSE f[i]]
  <2>2. ASSUME NEW i \in 0..(k + 1)
        PROVE  g[i] = IF i = 0 THEN <<>> ELSE Step(g[i - 1], i)
    <3>1. CASE i = 0
      BY <2>1, <3>1
    <3>2. CASE i \in 1..k
      <4>1. i - 1 \in 0..k /\ g[i - 1] = f[i - 1] /\ g[i] = f[i] /\ i \in 0..k /\ i # 0
        BY <3>2
      <4>2. f[i] = Step(f[i - 1], i)
        BY <2>1, <4>1
      <4> HIDE DEF g
      <4> QED
        BY <4>1, <4>2
    <3>3. CASE i = k + 1
      <4>1. g[k + 1] = Step(f[k], k + 1) /\ g[k] = f[k] /\ i # 0 /\ i - 1 = k
        BY <3>3
      <4> HIDE DEF g
      <4> QED
        BY <3>3, <4>1
    <3> QED
      BY <3>1, <3>2, <3>3
  <2>3. Def(g, k + 1)
    <3>1. g = [i \in 0..(k + 1) |-> g[i]]
      OBVIOUS
    <3> HIDE DEF g
    <3> QED
      BY <2>2, <3>1
  <2> QED
    BY <2>3
<1>3. \E f : Def(f, Len(s))
  <2> HIDE DEF S
  <2>1. Len(s) \in S
    BY <1>1, <1>2, NatSetInduction
  <2> QED
    BY <2>1 DEF S
<1>4. Def(CHOOSE f : Def(f, Len(s)), Len(s))
  BY <1>3
<1> QED
  BY <1>4 DEF Select, Step

\* Select makes a sequence of elements at the positions it is given.
LEMMA SelectRange ==
    ASSUME NEW V, NEW s \in Seq(V), NEW I
    PROVE  /\ Select(s, I) \in Seq(V)
           /\ \A x \in ToSet(Select(s, I)) : \E i \in DOMAIN s : i \in I /\ x = s[i]
<1> DEFINE W == {s[i] : i \in I \cap DOMAIN s}
<1>1. PICK f : /\ f = [i \in 0..Len(s) |->
                         IF i = 0 THEN <<>>
                         ELSE IF i \in I THEN Append(f[i - 1], s[i]) ELSE f[i - 1]]
               /\ Select(s, I) = f[Len(s)]
  BY SelectLoop
<1> DEFINE S == {k \in Nat : k <= Len(s) => f[k] \in Seq(W)}
<1>2. 0 \in S
  BY <1>1
<1>3. ASSUME NEW k \in Nat, k \in S
      PROVE  k + 1 \in S
  <2> SUFFICES ASSUME k + 1 <= Len(s)
               PROVE  f[k + 1] \in Seq(W)
    OBVIOUS
  <2>1. f[k] \in Seq(W) /\ k + 1 \in DOMAIN s /\ k + 1 \in 0..Len(s)
    BY <1>3
  <2>2. f[k + 1] = IF k + 1 \in I THEN Append(f[k], s[k + 1]) ELSE f[k]
    <3> DEFINE n == k + 1
    <3>1. n \in 0..Len(s) /\ n # 0 /\ n - 1 = k
      BY <2>1
    <3> HIDE DEF n
    <3>2. f[n] = IF n \in I THEN Append(f[n - 1], s[n]) ELSE f[n - 1]
      BY <1>1, <3>1
    <3> QED
      BY <3>1, <3>2 DEF n
  <2>3. CASE k + 1 \in I
    <3>1. s[k + 1] \in W
      BY <2>1, <2>3
    <3> HIDE DEF W
    <3> QED
      BY <2>1, <2>2, <2>3, <3>1
  <2>4. CASE k + 1 \notin I
    BY <2>1, <2>2, <2>4
  <2> QED
    BY <2>3, <2>4
<1>4. f[Len(s)] \in Seq(W)
  <2> HIDE DEF S
  <2>1. Len(s) \in S
    BY <1>2, <1>3, NatSetInduction
  <2> QED
    BY <2>1 DEF S
<1>5. \A x \in W : x \in V
  BY SMT
<1>6. Seq(W) \subseteq Seq(V)
  <2> HIDE DEF W
  <2> QED
    BY <1>5
<1>7. \A x \in ToSet(Select(s, I)) : x \in W
  <2> HIDE DEF W
  <2> QED
    BY <1>1, <1>4 DEF ToSet
<1> QED
  BY <1>1, <1>4, <1>6, <1>7

\* Of the bindings of one service no two are of one type, none makes another
\* redundant and none contradicts another.
Agreeing(B) ==
    \A a, b \in B : a # b => ~SameType(a, b) /\ ~Covers(a, b) /\ ~Clash(a, b)

\* deduplicate_bindings keeps bindings it was given; no two of them are of one
\* type and none makes another redundant.
LEMMA DeduplicateKeepsDistinct ==
    ASSUME NEW bs \in Seq(Bindings)
    PROVE  /\ Deduplicate(bs) \in Seq(Bindings)
           /\ ToSet(Deduplicate(bs)) \subseteq ToSet(bs)
           /\ \A a, b \in ToSet(Deduplicate(bs)) : a # b => ~SameType(a, b) /\ ~Covers(a, b)
<1> DEFINE I == {i \in DOMAIN bs : /\ ~\E a \in ToSet(bs) : Covers(a, bs[i])
                                   /\ ~\E j \in 1..(i - 1) : SameType(bs[j], bs[i])}
<1>1. /\ Deduplicate(bs) \in Seq(Bindings)
      /\ \A x \in ToSet(Deduplicate(bs)) : \E i \in DOMAIN bs : i \in I /\ x = bs[i]
  <2> HIDE DEF I
  <2>1. Deduplicate(bs) = Select(bs, I)
    BY DEF Deduplicate, I
  <2> QED
    BY <2>1, SelectRange
<1>2. ToSet(Deduplicate(bs)) \subseteq ToSet(bs)
  BY <1>1 DEF ToSet
<1>3. ASSUME NEW a \in ToSet(Deduplicate(bs)), NEW b \in ToSet(Deduplicate(bs)), a # b
      PROVE  ~SameType(a, b) /\ ~Covers(a, b)
  <2>1. PICK i \in I : a = bs[i]
    BY <1>1
  <2>2. PICK j \in I : b = bs[j]
    BY <1>1
  <2>3. i # j /\ i \in 1..Len(bs) /\ j \in 1..Len(bs)
    BY <1>3, <2>1, <2>2
  <2>4. ~SameType(a, b)
    <3>1. CASE i < j
      BY <2>1, <2>2, <2>3, <3>1 
    <3>2. CASE j < i
      <4>1. ~SameType(b, a)
        BY <2>1, <2>2, <2>3, <3>2
      <4> QED
        BY <4>1 DEF SameType
    <3> QED
      BY <2>3, <3>1, <3>2
  <2>5. ~Covers(a, b)
    BY <1>2, <2>2
  <2> QED
    BY <2>4, <2>5
<1> QED
  BY <1>1, <1>2, <1>3

\* One round of the loop of upsert_service adds at most the new binding and
\* keeps the agreement.
LEMMA MergeOneKeepsAgreement ==
    ASSUME NEW B \in SUBSET Bindings, NEW b \in Bindings
    PROVE  /\ Agreeing(B) => Agreeing(MergeOne(B, b))
           /\ MergeOne(B, b) \subseteq B \cup {b}
<1> DEFINE kept == {a \in B : ~Covers(b, a)}
<1>1. CASE (\E a \in B : Covers(a, b)) \/ (\E a \in B : Clash(a, b))
  BY <1>1 DEF MergeOne
<1>2. CASE ~(\E a \in B : Covers(a, b)) /\ ~(\E a \in B : Clash(a, b)) /\ \E a \in kept : SameType(a, b)
  <2>1. MergeOne(B, b) = kept
    BY <1>2 DEF MergeOne
  <2> QED
    BY <2>1 DEF Agreeing
<1>3. CASE ~(\E a \in B : Covers(a, b)) /\ ~(\E a \in B : Clash(a, b)) /\ ~\E a \in kept : SameType(a, b)
  <2>1. MergeOne(B, b) = kept \cup {b}
    BY <1>3 DEF MergeOne
  <2>2. ASSUME NEW a \in kept
        PROVE  /\ ~SameType(a, b) /\ ~Covers(a, b) /\ ~Clash(a, b)
               /\ ~SameType(b, a) /\ ~Covers(b, a) /\ ~Clash(b, a)
    BY <1>3 DEF SameType, Clash
  <2> QED
    BY <2>1, <2>2 DEF Agreeing
<1> QED
  BY <1>1, <1>2, <1>3

\* The loop of upsert_service: what it makes is from the service or from what
\* was reported, and agrees if the service's bindings did.
LEMMA MergedAgrees ==
    ASSUME NEW B \in SUBSET Bindings, NEW bs \in Seq(Bindings)
    PROVE  /\ Agreeing(B) => Agreeing(Merged(B, bs))
           /\ Merged(B, bs) \subseteq B \cup ToSet(bs)
<1>1. PICK m : /\ m = [i \in 0..Len(bs) |-> IF i = 0 THEN B ELSE MergeOne(m[i - 1], bs[i])]
               /\ Merged(B, bs) = m[Len(bs)]
  BY MergedLoop
<1> DEFINE W == B \cup ToSet(bs)
           S == {k \in Nat : k <= Len(bs) => (Agreeing(B) => Agreeing(m[k])) /\ m[k] \subseteq W}
<1>2. 0 \in S
  BY <1>1
<1>3. ASSUME NEW k \in Nat, k \in S
      PROVE  k + 1 \in S
  <2> SUFFICES ASSUME k + 1 <= Len(bs)
               PROVE  (Agreeing(B) => Agreeing(m[k + 1])) /\ m[k + 1] \subseteq W
    OBVIOUS
  <2>1. /\ Agreeing(B) => Agreeing(m[k])
        /\ m[k] \subseteq W
        /\ k + 1 \in DOMAIN bs /\ k + 1 \in 0..Len(bs)
    BY <1>3
  <2>2. m[k + 1] = MergeOne(m[k], bs[k + 1])
    BY <1>1, <2>1
  <2>3. W \subseteq Bindings /\ bs[k + 1] \in W
    BY <2>1 DEF ToSet
  <2> HIDE DEF W
  <2>4. /\ Agreeing(m[k]) => Agreeing(MergeOne(m[k], bs[k + 1]))
        /\ MergeOne(m[k], bs[k + 1]) \subseteq m[k] \cup {bs[k + 1]}
    BY <2>1, <2>3, MergeOneKeepsAgreement
  <2> QED
    BY <2>1, <2>2, <2>3, <2>4
<1>4. Len(bs) \in S
  <2> HIDE DEF S
  <2> QED
    BY <1>2, <1>3, NatSetInduction
<1> QED
  BY <1>1, <1>4

\* The bindings a request sends as a set are sent in some order.
LEMMA SetToSeqRange ==
    ASSUME NEW B \in SUBSET Bindings
    PROVE  SetToSeq(B) \in Seq(Bindings) /\ ToSet(SetToSeq(B)) \subseteq B
<1>1. IsFiniteSet(B)
  BY IdsAssumption, FS_Subset
<1>2. Cardinality(B) \in Nat /\ \E f : f \in Bijection(1..Cardinality(B), B)
  BY <1>1, FS_CardinalityType DEF ExistsBijection
<1>3. \E f \in [1..Cardinality(B) -> B] : IsInjective(f)
  BY <1>2 DEF Bijection, Injection
<1>4. SetToSeq(B) \in [1..Cardinality(B) -> B]
  BY <1>3 DEF SetToSeq
<1> QED
  BY <1>2, <1>4 DEF ToSet

-----------------------------------------------------------------------------
(* The tables *)

DbType ==
    [host : [HostIds -> Opt(HostRow)], iface : [IfaceIds -> Opt(IfaceRow)], port : [PortIds -> Opt(PortRow)],
     svc : [ServiceIds -> Opt(SvcRow)], bind : [BindIds -> Opt(BindRow)],
     group : [Groups -> Opt(SUBSET BindIds)], daemon : SUBSET HostIds]

\* No row refers to one that is not there.
RefsOK(d) ==
    /\ \A i \in Rows(d.iface) : d.iface[i].host \in Rows(d.host)
    /\ \A p \in Rows(d.port) : d.port[p].host \in Rows(d.host)
    /\ \A s \in Rows(d.svc) : d.svc[s].host \in Rows(d.host)
    /\ \A b \in Rows(d.bind) : /\ d.bind[b].svc \in Rows(d.svc)
                               /\ d.bind[b].port \in Rows(d.port) \cup {NoPort}
                               /\ d.bind[b].iface \in Rows(d.iface) \cup {AllIfaces}
    /\ \A g \in Groups : d.group[g] # NoRow => d.group[g] \subseteq Rows(d.bind)
    /\ d.daemon \subseteq Rows(d.host)

DbOK(d) == d \in DbType /\ RefsOK(d)

\* Rows of a table are of the row type of the table.
LEMMA RowTypes ==
    ASSUME NEW d \in DbType
    PROVE  /\ Rows(d.host) = {x \in HostIds : d.host[x] # NoRow} /\ \A x \in Rows(d.host) : d.host[x] \in HostRow
           /\ Rows(d.iface) = {x \in IfaceIds : d.iface[x] # NoRow} /\ \A x \in Rows(d.iface) : d.iface[x] \in IfaceRow
           /\ Rows(d.port) = {x \in PortIds : d.port[x] # NoRow} /\ \A x \in Rows(d.port) : d.port[x] \in PortRow
           /\ Rows(d.svc) = {x \in ServiceIds : d.svc[x] # NoRow} /\ \A x \in Rows(d.svc) : d.svc[x] \in SvcRow
           /\ Rows(d.bind) = {x \in BindIds : d.bind[x] # NoRow} /\ \A x \in Rows(d.bind) : d.bind[x] \in BindRow
  BY DEF DbType, Opt, Rows

\* The rows of e are rows of d, as they were there.
Sub(e, d) ==
    /\ \A x \in Rows(e.host) : x \in Rows(d.host) /\ e.host[x] = d.host[x]
    /\ \A x \in Rows(e.iface) : x \in Rows(d.iface) /\ e.iface[x] = d.iface[x]
    /\ \A x \in Rows(e.port) : x \in Rows(d.port) /\ e.port[x] = d.port[x]
    /\ \A x \in Rows(e.svc) : x \in Rows(d.svc) /\ e.svc[x] = d.svc[x]
    /\ \A x \in Rows(e.bind) : x \in Rows(d.bind) /\ e.bind[x] = d.bind[x]

\* ON DELETE CASCADE restores the references, and only deletes.
LEMMA CascadeRestores ==
    ASSUME NEW d \in DbType, d.daemon \subseteq Rows(d.host)
    PROVE  /\ DbOK(Cascade(d)) /\ Sub(Cascade(d), d)
           /\ Cascade(d).host = d.host
           /\ RefsOK([d EXCEPT !.group = Cascade(d).group]) =>
                 /\ Cascade(d).iface = d.iface /\ Cascade(d).port = d.port
                 /\ Cascade(d).svc = d.svc /\ Cascade(d).bind = d.bind
           /\ \A x \in Rows(d.svc) : d.svc[x].host \in Rows(d.host) => Cascade(d).svc[x] = d.svc[x]
           /\ Cascade(d).daemon = d.daemon
<1> DEFINE OnHost(table) == {x \in Rows(table) : d.host[table[x].host] # NoRow}
           i == OnHost(d.iface)
           p == OnHost(d.port)
           s == OnHost(d.svc)
           b == {x \in Rows(d.bind) : /\ d.bind[x].svc \in s
                                      /\ d.bind[x].port \in p \cup {NoPort}
                                      /\ d.bind[x].iface \in i \cup {AllIfaces}}
           e == Cascade(d)
<1>1. e \in DbType
  BY DEF DbType, Opt, Rows, Cascade, Retain
<1>2. /\ e.host = d.host /\ e.daemon = d.daemon
      /\ e.iface = [x \in IfaceIds |-> IF x \in i THEN d.iface[x] ELSE NoRow]
      /\ e.port = [x \in PortIds |-> IF x \in p THEN d.port[x] ELSE NoRow]
      /\ e.svc = [x \in ServiceIds |-> IF x \in s THEN d.svc[x] ELSE NoRow]
      /\ e.bind = [x \in BindIds |-> IF x \in b THEN d.bind[x] ELSE NoRow]
      /\ e.group = [g \in Groups |-> IF d.group[g] = NoRow THEN NoRow ELSE d.group[g] \cap b]
  BY DEF DbType, Cascade, Retain
<1> HIDE DEF e
<1>3. /\ Rows(e.host) = Rows(d.host)
      /\ Rows(e.iface) = i /\ Rows(e.port) = p /\ Rows(e.svc) = s /\ Rows(e.bind) = b
      /\ \A x \in i : x \in Rows(d.iface) /\ e.iface[x] = d.iface[x]
      /\ \A x \in p : x \in Rows(d.port) /\ e.port[x] = d.port[x]
      /\ \A x \in s : x \in Rows(d.svc) /\ e.svc[x] = d.svc[x]
      /\ \A x \in b : x \in Rows(d.bind) /\ e.bind[x] = d.bind[x]
  <2>1. /\ DOMAIN d.iface = IfaceIds /\ DOMAIN d.port = PortIds
        /\ DOMAIN d.svc = ServiceIds /\ DOMAIN d.bind = BindIds
    BY DEF DbType
  <2>2. i \in SUBSET Rows(d.iface) /\ p \in SUBSET Rows(d.port) /\ s \in SUBSET Rows(d.svc) /\ b \in SUBSET Rows(d.bind)
    OBVIOUS
  <2> HIDE DEF i, p, s, b
  <2>3. Rows(e.iface) = i /\ \A x \in i : x \in Rows(d.iface) /\ e.iface[x] = d.iface[x]
    BY <1>2, <2>1, <2>2 DEF Rows
  <2>4. Rows(e.port) = p /\ \A x \in p : x \in Rows(d.port) /\ e.port[x] = d.port[x]
    BY <1>2, <2>1, <2>2 DEF Rows
  <2>5. Rows(e.svc) = s /\ \A x \in s : x \in Rows(d.svc) /\ e.svc[x] = d.svc[x]
    BY <1>2, <2>1, <2>2 DEF Rows
  <2>6. Rows(e.bind) = b /\ \A x \in b : x \in Rows(d.bind) /\ e.bind[x] = d.bind[x]
    BY <1>2, <2>1, <2>2 DEF Rows
  <2> QED
    BY <1>2, <2>3, <2>4, <2>5, <2>6
<1>4. /\ \A x \in i : d.iface[x].host \in Rows(d.host)
      /\ \A x \in p : d.port[x].host \in Rows(d.host)
      /\ \A x \in s : d.svc[x].host \in Rows(d.host)
  <2>1. \A x \in HostIds : d.host[x] # NoRow => x \in Rows(d.host)
    BY RowTypes
  <2>2. /\ \A x \in i : d.iface[x].host \in HostIds
        /\ \A x \in p : d.port[x].host \in HostIds
        /\ \A x \in s : d.svc[x].host \in HostIds
    BY RowTypes DEF IfaceRow, PortRow, SvcRow
  <2> QED
    BY <2>1, <2>2
<1>6. \A x \in b : d.bind[x].svc \in s /\ d.bind[x].port \in p \cup {NoPort} /\ d.bind[x].iface \in i \cup {AllIfaces}
  OBVIOUS
<1>7. \A x \in Rows(d.svc) : d.svc[x].host \in Rows(d.host) => x \in s
  BY RowTypes
<1>8. RefsOK([d EXCEPT !.group = e.group]) =>
         /\ \A x \in Rows(d.iface) : x \in i
         /\ \A x \in Rows(d.port) : x \in p
         /\ \A x \in Rows(d.svc) : x \in s
         /\ \A x \in Rows(d.bind) : x \in b
  <2> DEFINE f == [d EXCEPT !.group = e.group]
  <2> SUFFICES ASSUME RefsOK(f)
               PROVE /\ \A x \in Rows(d.iface) : x \in i
                     /\ \A x \in Rows(d.port) : x \in p
                     /\ \A x \in Rows(d.svc) : x \in s
                     /\ \A x \in Rows(d.bind) : x \in b
    OBVIOUS
  <2>1. /\ f.host = d.host /\ f.iface = d.iface /\ f.port = d.port
        /\ f.svc = d.svc /\ f.bind = d.bind
    BY DEF DbType
  <2> HIDE DEF f
  <2>2. /\ \A x \in Rows(d.iface) : x \in i
        /\ \A x \in Rows(d.port) : x \in p
        /\ \A x \in Rows(d.svc) : x \in s
    BY <2>1, RowTypes DEF RefsOK
  <2> HIDE DEF i, p, s
  <2>3. \A x \in Rows(d.bind) : x \in b
    BY <2>1, <2>2 DEF RefsOK
  <2> QED
    BY <2>2, <2>3
<1> HIDE DEF i, p, s, b
<1>9. RefsOK(e)
  BY <1>2, <1>3, <1>4, <1>6 DEF RefsOK
<1>10. Sub(e, d)
  BY <1>2, <1>3 DEF Sub
<1>11. RefsOK([d EXCEPT !.group = e.group]) =>
          e.iface = d.iface /\ e.port = d.port /\ e.svc = d.svc /\ e.bind = d.bind
  <2> HAVE RefsOK([d EXCEPT !.group = e.group])
  <2>1. /\ \A x \in IfaceIds : d.iface[x] # NoRow => x \in i
        /\ \A x \in PortIds : d.port[x] # NoRow => x \in p
        /\ \A x \in ServiceIds : d.svc[x] # NoRow => x \in s
        /\ \A x \in BindIds : d.bind[x] # NoRow => x \in b
    BY <1>8, RowTypes
  <2>2. /\ d.iface = [x \in IfaceIds |-> d.iface[x]] /\ d.port = [x \in PortIds |-> d.port[x]]
        /\ d.svc = [x \in ServiceIds |-> d.svc[x]] /\ d.bind = [x \in BindIds |-> d.bind[x]]
    BY DEF DbType
  <2> QED
    BY <1>2, <2>1, <2>2
<1>12. \A x \in Rows(d.svc) : d.svc[x].host \in Rows(d.host) => e.svc[x] = d.svc[x]
  BY <1>3, <1>7
<1> QED
  BY <1>1, <1>2, <1>9, <1>10, <1>11, <1>12 DEF DbOK, e

TableNames == {"host", "iface", "port", "svc", "bind"}

\* Without some rows of one table.
Without(d, table, ids) ==
    [d EXCEPT ![table] = [x \in DOMAIN @ |-> IF x \in ids THEN NoRow ELSE @[x]]]

\* DELETE of rows leaves the tables well formed and only deletes.
LEMMA DeleteOnlyDeletes ==
    ASSUME NEW d, DbOK(d), NEW table \in TableNames, NEW ids,
           table = "host" => ids \cap d.daemon = {}
    PROVE  /\ DbOK(Delete(d, table, ids)) /\ Sub(Delete(d, table, ids), d)
           /\ table # "host" => Delete(d, table, ids).host = d.host
<1> DEFINE w == Without(d, table, ids)
<1>1. w \in DbType
  BY DEF DbOK, DbType, Opt, TableNames, Without
<1>2. Sub(w, d) /\ w.daemon = d.daemon
  BY DEF DbOK, DbType, TableNames, Without, Sub, Rows
<1>3. w.daemon \subseteq Rows(w.host)
  <2>1. CASE table = "host"
    <3>1. w.host = [x \in HostIds |-> IF x \in ids THEN NoRow ELSE d.host[x]]
      BY <2>1 DEF DbOK, DbType, Without
    <3> QED
      BY <1>2, <2>1, <3>1 DEF DbOK, RefsOK, Rows, DbType
  <2>2. CASE table # "host"
    <3>1. w.host = d.host
      BY <2>2 DEF DbOK, DbType, TableNames, Without
    <3> QED
      BY <1>2, <3>1 DEF DbOK, RefsOK
  <2> QED
    BY <2>1, <2>2
<1>4. Delete(d, table, ids) = Cascade(w)
  BY DEF Delete, Without
<1>5. table # "host" => w.host = d.host
  BY DEF DbOK, DbType, TableNames, Without
<1> HIDE DEF w
<1>6. DbOK(Cascade(w)) /\ Sub(Cascade(w), w) /\ Cascade(w).host = w.host
  BY <1>1, <1>3, CascadeRestores
<1>7. Sub(Cascade(w), d)
  BY <1>2, <1>6 DEF Sub
<1> QED
  BY <1>4, <1>5, <1>6, <1>7

\* DELETE of bindings leaves the other tables alone.
LEMMA DeleteBindings ==
    ASSUME NEW d, DbOK(d), NEW ids
    PROVE  LET e == Delete(d, "bind", ids)
           IN  /\ DbOK(e)
               /\ e.host = d.host /\ e.iface = d.iface /\ e.port = d.port /\ e.svc = d.svc /\ e.daemon = d.daemon
               /\ e.bind = [x \in BindIds |-> IF x \in ids THEN NoRow ELSE d.bind[x]]
<1> DEFINE e == Delete(d, "bind", ids)
           w == Without(d, "bind", ids)
           f == [w EXCEPT !.group = e.group]
<1>1. /\ w \in DbType
      /\ w.host = d.host /\ w.iface = d.iface /\ w.port = d.port /\ w.svc = d.svc /\ w.daemon = d.daemon
      /\ w.bind = [x \in BindIds |-> IF x \in ids THEN NoRow ELSE d.bind[x]]
  BY DEF DbOK, DbType, Opt, Without
<1>2. e = Cascade(w)
  BY DEF Delete, Without
<1>3. w.daemon \subseteq Rows(w.host)
  BY <1>1 DEF DbOK, RefsOK
<1> HIDE DEF w, e
<1>4. DbOK(e) /\ Sub(e, w) /\ e.host = w.host /\ e.daemon = w.daemon
  BY <1>1, <1>2, <1>3, CascadeRestores
<1>5. /\ f.host = d.host /\ f.iface = d.iface /\ f.port = d.port /\ f.svc = d.svc /\ f.daemon = d.daemon
      /\ f.bind = w.bind /\ f.group = e.group
  BY <1>1 DEF DbType
<1>6. \A x \in Rows(w.bind) : x \in Rows(d.bind) /\ w.bind[x] = d.bind[x]
  BY <1>1 DEF DbOK, DbType, Rows
<1> HIDE DEF f
<1>7. \A g \in Groups : f.group[g] # NoRow => f.group[g] \subseteq Rows(f.bind)
  BY <1>4, <1>5 DEF DbOK, RefsOK, Sub
<1>8. RefsOK(f)
  BY <1>5, <1>6, <1>7 DEF DbOK, RefsOK
<1>9. e.iface = w.iface /\ e.port = w.port /\ e.svc = w.svc /\ e.bind = w.bind
  BY <1>1, <1>2, <1>3, <1>8, CascadeRestores DEF f
<1> QED
  BY <1>1, <1>4, <1>9 DEF e

\* DELETE of services leaves the other services alone.
LEMMA DeleteServices ==
    ASSUME NEW d, DbOK(d), NEW ids
    PROVE  \A x \in Rows(d.svc) \ ids : Delete(d, "svc", ids).svc[x] = d.svc[x]
<1> DEFINE w == Without(d, "svc", ids)
<1>1. /\ w \in DbType /\ w.host = d.host /\ w.daemon = d.daemon
      /\ w.svc = [x \in ServiceIds |-> IF x \in ids THEN NoRow ELSE d.svc[x]]
  BY DEF DbOK, DbType, Opt, Without
<1>2. Delete(d, "svc", ids) = Cascade(w)
  BY DEF Delete, Without
<1>3. w.daemon \subseteq Rows(w.host)
  BY <1>1 DEF DbOK, RefsOK
<1> HIDE DEF w
<1>4. \A x \in Rows(w.svc) : w.svc[x].host \in Rows(w.host) => Cascade(w).svc[x] = w.svc[x]
  BY <1>1, <1>3, CascadeRestores
<1>5. \A x \in Rows(d.svc) \ ids : x \in Rows(w.svc) /\ w.svc[x] = d.svc[x]
  BY <1>1 DEF Rows, DbOK, DbType
<1> QED
  BY <1>1, <1>2, <1>4, <1>5 DEF DbOK, RefsOK

\* The bindings of a service are the rows of it.
LEMMA BindingsAreRows ==
    ASSUME NEW d \in DbType, NEW s
    PROVE  /\ BindingsOf(d, s) \in SUBSET Bindings
           /\ \A r \in BindingsOf(d, s) :
                 /\ r.id \in Rows(d.bind) /\ d.bind[r.id].svc = s
                 /\ r.port = d.bind[r.id].port /\ r.iface = d.bind[r.id].iface
           /\ \A x \in Rows(d.bind) :
                 d.bind[x].svc = s => [id |-> x, port |-> d.bind[x].port, iface |-> d.bind[x].iface] \in BindingsOf(d, s)
           /\ \A a, b \in BindingsOf(d, s) : a.id = b.id => a = b
  BY RowTypes DEF BindingsOf, BindRow, Bindings

\* The bindings of a service depend on the rows of bindings only.
LEMMA SameRowsSameBindings ==
    ASSUME NEW d, NEW e, NEW s, e.bind = d.bind
    PROVE  BindingsOf(e, s) = BindingsOf(d, s)
  BY DEF BindingsOf, Rows

\* Only the row of service s and its bindings differ.
OnlyOf(s, d, e) ==
    /\ DbOK(e)
    /\ e.host = d.host /\ e.iface = d.iface /\ e.port = d.port /\ e.daemon = d.daemon
    /\ \A t \in ServiceIds \ {s} : e.svc[t] = d.svc[t] /\ BindingsOf(e, t) = BindingsOf(d, t)

\* The rows that bindings name are there.
Named(d, B) ==
    \A b \in B : b.port \in Rows(d.port) \cup {NoPort} /\ b.iface \in Rows(d.iface) \cup {AllIfaces}

\* save_for_parent gives the service only bindings of the new ones, or takes
\* some of its old ones away when it fails; no other service is touched.
LEMMA SaveBindingsOfOne ==
    ASSUME NEW d, DbOK(d), NEW s \in Rows(d.svc), NEW B \in SUBSET Bindings, Named(d, B)
    PROVE  /\ OnlyOf(s, d, SaveBindings(d, s, B).db) /\ SaveBindings(d, s, B).db.svc = d.svc
           /\ SaveBindings(d, s, B).ok => BindingsOf(SaveBindings(d, s, B).db, s) \subseteq B
           /\ ~SaveBindings(d, s, B).ok => BindingsOf(SaveBindings(d, s, B).db, s) \subseteq BindingsOf(d, s)
           /\ (\A b \in B : \E a \in BindingsOf(d, s) : a.id = b.id) => SaveBindings(d, s, B).ok
<1> DEFINE r    == SaveBindings(d, s, B)
           own  == {b.id : b \in BindingsOf(d, s)}
           lost == own \ {b.id : b \in B}
           kept == Delete(d, "bind", lost)
           bad  == \E b \in B : b.id \notin own /\ d.bind[b.id] # NoRow
           Pick(x) == CHOOSE b \in B : b.id = x
           bind == [x \in BindIds |-> IF \E b \in B : b.id = x
                                      THEN [svc |-> s, port |-> Pick(x).port, iface |-> Pick(x).iface]
                                      ELSE kept.bind[x]]
           new  == [kept EXCEPT !.bind = bind]
<1>1. /\ DbOK(kept)
      /\ kept.host = d.host /\ kept.iface = d.iface /\ kept.port = d.port /\ kept.svc = d.svc
      /\ kept.daemon = d.daemon
      /\ kept.bind = [x \in BindIds |-> IF x \in lost THEN NoRow ELSE d.bind[x]]
  <2> HIDE DEF lost
  <2> QED
    BY DeleteBindings
<1>2. r = IF bad THEN [ok |-> FALSE, db |-> kept] ELSE [ok |-> TRUE, db |-> new]
  BY DEF SaveBindings
<1> HIDE DEF kept, r
<1>3. \A x \in own : x \in Rows(d.bind) /\ d.bind[x].svc = s
  BY BindingsAreRows DEF DbOK
<1>4. ASSUME NEW x \in Rows(d.bind), d.bind[x].svc = s
      PROVE  x \in own
  <2> DEFINE b == [id |-> x, port |-> d.bind[x].port, iface |-> d.bind[x].iface]
  <2>1. b \in BindingsOf(d, s)
    BY <1>4, BindingsAreRows DEF DbOK
  <2>2. b.id = x
    OBVIOUS
  <2> HIDE DEF b
  <2> QED
    BY <2>1, <2>2
<1>5. /\ \A t \in ServiceIds \ {s} : BindingsOf(kept, t) = BindingsOf(d, t)
      /\ BindingsOf(kept, s) \subseteq BindingsOf(d, s)
      /\ \A x \in Rows(kept.bind) : x \in Rows(d.bind) /\ kept.bind[x] = d.bind[x]
  <2>1. \A x \in Rows(kept.bind) : x \in Rows(d.bind) /\ kept.bind[x] = d.bind[x]
    BY <1>1 DEF Rows, DbOK, DbType
  <2>2. \A t \in ServiceIds \ {s} : \A x \in Rows(d.bind) : d.bind[x].svc = t => x \in Rows(kept.bind)
    BY <1>1, <1>3 DEF Rows, DbOK, DbType
  <2>3. \A t \in ServiceIds \ {s} : BindingsOf(kept, t) = BindingsOf(d, t)
    BY <2>1, <2>2 DEF BindingsOf
  <2>4. BindingsOf(kept, s) \subseteq BindingsOf(d, s)
    BY <2>1 DEF BindingsOf
  <2> QED
    BY <2>1, <2>3, <2>4
<1>6. CASE bad
  <2>1. r.db = kept /\ ~r.ok
    BY <1>2, <1>6
  <2>2. OnlyOf(s, d, kept)
    BY <1>1, <1>5 DEF OnlyOf
  <2>3. ~\A b \in B : \E a \in BindingsOf(d, s) : a.id = b.id
    BY <1>6
  <2> QED
    BY <1>1, <1>5, <2>1, <2>2, <2>3 DEF r
<1>7. CASE ~bad
  <2>1. r.db = new /\ r.ok
    BY <1>2, <1>7
  <2>2. \A x \in BindIds : (\E b \in B : b.id = x) => Pick(x) \in B /\ Pick(x).id = x /\ Pick(x) \in Bindings
    OBVIOUS
  <2> HIDE DEF Pick
  <2>3. /\ new.host = d.host /\ new.iface = d.iface /\ new.port = d.port /\ new.svc = d.svc
        /\ new.daemon = d.daemon /\ new.bind = bind /\ new.group = kept.group
    BY <1>1 DEF DbOK, DbType
  <2>4. s \in ServiceIds
    BY RowTypes DEF DbOK
  <2>5. \A x \in BindIds : (\E b \in B : b.id = x) =>
            [svc |-> s, port |-> Pick(x).port, iface |-> Pick(x).iface] \in BindRow
    BY <2>2, <2>4 DEF Bindings, BindRow
  <2>6. bind \in [BindIds -> Opt(BindRow)]
    <3>1. kept.bind \in [BindIds -> Opt(BindRow)]
      BY <1>1 DEF DbOK, DbType
    <3> QED
      BY <2>5, <3>1 DEF Opt
  <2>7. new \in DbType
    BY <1>1, <2>6 DEF DbOK, DbType
  <2>8. \A x \in Rows(new.bind) :
           \/ /\ Pick(x) \in B /\ Pick(x).id = x
              /\ new.bind[x] = [svc |-> s, port |-> Pick(x).port, iface |-> Pick(x).iface]
           \/ /\ x \in Rows(kept.bind) /\ new.bind[x] = kept.bind[x] /\ ~\E b \in B : b.id = x
    <3>1. DOMAIN kept.bind = BindIds
      BY <1>1
    <3> QED
      BY <2>2, <2>3, <3>1 DEF Rows
  <2>9. \A x \in Rows(kept.bind) : x \in Rows(new.bind)
    <3>1. DOMAIN kept.bind = BindIds
      BY <1>1
    <3>2. NoRow \notin BindRow
      BY IdsAssumption
    <3> QED
      BY <2>3, <2>5, <3>1, <3>2 DEF Rows
  <2> HIDE DEF new, bind
  <2>10. RefsOK(new)
    <3>1. \A x \in Rows(new.bind) : /\ new.bind[x].svc \in Rows(new.svc)
                                    /\ new.bind[x].port \in Rows(new.port) \cup {NoPort}
                                    /\ new.bind[x].iface \in Rows(new.iface) \cup {AllIfaces}
      <4> SUFFICES ASSUME NEW x \in Rows(new.bind)
                   PROVE  /\ new.bind[x].svc \in Rows(new.svc)
                          /\ new.bind[x].port \in Rows(new.port) \cup {NoPort}
                          /\ new.bind[x].iface \in Rows(new.iface) \cup {AllIfaces}
        OBVIOUS
      <4>1. CASE x \in Rows(kept.bind) /\ new.bind[x] = kept.bind[x]
        BY <1>1, <2>3, <4>1 DEF DbOK, RefsOK
      <4>2. CASE /\ Pick(x) \in B
                 /\ new.bind[x] = [svc |-> s, port |-> Pick(x).port, iface |-> Pick(x).iface]
        <5>1. new.bind[x].svc = s /\ new.bind[x].port = Pick(x).port /\ new.bind[x].iface = Pick(x).iface
          BY <4>2
        <5> QED
          BY <2>3, <4>2, <5>1 DEF Named
      <4> QED
        BY <2>8, <4>1, <4>2
    <3>2. \A g \in Groups : new.group[g] # NoRow => new.group[g] \subseteq Rows(new.bind)
      BY <1>1, <2>3, <2>9 DEF DbOK, RefsOK
    <3> QED
      BY <1>1, <2>3, <3>1, <3>2 DEF DbOK, RefsOK
  <2>11. BindingsOf(new, s) \subseteq B
    <3> SUFFICES ASSUME NEW a \in BindingsOf(new, s)
                 PROVE  a \in B
      OBVIOUS
    <3>1. /\ a \in Bindings /\ a.id \in Rows(new.bind) /\ new.bind[a.id].svc = s
          /\ a.port = new.bind[a.id].port /\ a.iface = new.bind[a.id].iface
      BY <2>7, BindingsAreRows
    <3>2. CASE /\ Pick(a.id) \in B /\ Pick(a.id).id = a.id
               /\ new.bind[a.id] = [svc |-> s, port |-> Pick(a.id).port, iface |-> Pick(a.id).iface]
      <4>1. a = Pick(a.id)
        BY <3>1, <3>2 DEF Bindings
      <4> QED
        BY <3>2, <4>1
    <3>3. CASE a.id \in Rows(kept.bind) /\ new.bind[a.id] = kept.bind[a.id] /\ ~\E b \in B : b.id = a.id
      <4>1. a.id \in own
        BY <1>4, <1>5, <3>1, <3>3
      <4>2. kept.bind[a.id] = NoRow
        BY <1>1, <3>1, <3>3, <4>1 DEF Bindings
      <4> QED
        BY <3>3, <4>2 DEF Rows
    <3> QED
      BY <2>8, <3>1, <3>2, <3>3
  <2>12. ASSUME NEW t \in ServiceIds \ {s}
         PROVE  BindingsOf(new, t) = BindingsOf(kept, t)
    <3>1. ASSUME NEW x \in Rows(new.bind), new.bind[x].svc = t
          PROVE  x \in Rows(kept.bind) /\ new.bind[x] = kept.bind[x]
      <4>1. new.bind[x] # [svc |-> s, port |-> Pick(x).port, iface |-> Pick(x).iface]
        BY <3>1
      <4> QED
        BY <2>8, <4>1
    <3>2. ASSUME NEW x \in Rows(kept.bind), kept.bind[x].svc = t
          PROVE  x \in Rows(new.bind) /\ new.bind[x] = kept.bind[x]
      <4>1. x \notin own /\ d.bind[x] # NoRow
        BY <1>3, <1>5, <3>2 DEF Rows
      <4>2. ~\E b \in B : b.id = x
        BY <1>7, <4>1
      <4> QED
        BY <2>8, <2>9, <3>2, <4>2
    <3> QED
      BY <3>1, <3>2 DEF BindingsOf
  <2>13. OnlyOf(s, d, new)
    BY <1>5, <2>3, <2>7, <2>10, <2>12 DEF OnlyOf, DbOK
  <2> QED
    BY <2>1, <2>3, <2>11, <2>13 DEF r
<1> QED
  BY <1>6, <1>7

\* No binding in B overlaps one of another service of the host.
FreeOn(d, h, s, B) ==
    \A t \in Rows(d.svc) \ {s} : d.svc[t].host = h => \A a \in BindingsOf(d, t), b \in B : ~Overlaps(a, b)

\* The bindings of s are in order: they agree, are of the host and are free.
InOrder(s, e) ==
    /\ s \in Rows(e.svc)
    /\ Agreeing(BindingsOf(e, s))
    /\ BelongToHost(e, e.svc[s].host, BindingsOf(e, s))
    /\ FreeOn(e, e.svc[s].host, s, BindingsOf(e, s))

\* What belongs to a host is named by rows.
LEMMA OwnIsNamed ==
    ASSUME NEW d \in DbType, NEW h, NEW B \in SUBSET Bindings, BelongToHost(d, h, B)
    PROVE  Named(d, B)
  BY DEF BelongToHost, Named, PortsOf, IfacesOf, Bindings

\* Whether bindings are free and of the host is the same before and after a
\* step that is only about s.
LEMMA OnlyOfOthersSame ==
    ASSUME NEW d \in DbType, NEW e, NEW s \in ServiceIds, OnlyOf(s, d, e), NEW h, NEW B
    PROVE  /\ BelongToHost(d, h, B) <=> BelongToHost(e, h, B)
           /\ FreeOn(d, h, s, B) <=> FreeOn(e, h, s, B)
           /\ \A t \in ServiceIds \ {s} : t \in Rows(e.svc) <=> t \in Rows(d.svc)
<1>1. \A t \in ServiceIds \ {s} : t \in Rows(e.svc) <=> t \in Rows(d.svc)
  BY DEF OnlyOf, Rows, DbOK, DbType
<1>2. BelongToHost(d, h, B) <=> BelongToHost(e, h, B)
  BY DEF OnlyOf, BelongToHost, PortsOf, IfacesOf
<1>3. Rows(e.svc) \subseteq ServiceIds /\ Rows(d.svc) \subseteq ServiceIds
  BY RowTypes DEF OnlyOf, DbOK
<1>4. FreeOn(d, h, s, B) <=> FreeOn(e, h, s, B)
  BY <1>1, <1>3 DEF OnlyOf, FreeOn
<1> QED
  BY <1>1, <1>2, <1>4

WithRow(d, s, row, G) == [d EXCEPT !.svc[s] = row, !.group = G]

\* A row is written for service s, and the groups.
LEMMA RowWritten ==
    ASSUME NEW d, DbOK(d), NEW s \in ServiceIds, NEW row \in SvcRow, row.host \in Rows(d.host),
           NEW G \in [Groups -> Opt(SUBSET BindIds)],
           \A g \in Groups : G[g] # NoRow => G[g] \subseteq Rows(d.bind)
    PROVE  LET e == WithRow(d, s, row, G)
           IN  /\ OnlyOf(s, d, e) /\ s \in Rows(e.svc) /\ e.svc[s] = row
               /\ \A t : BindingsOf(e, t) = BindingsOf(d, t)
<1> DEFINE e == WithRow(d, s, row, G)
<1>1. /\ e.host = d.host /\ e.iface = d.iface /\ e.port = d.port /\ e.daemon = d.daemon /\ e.bind = d.bind
      /\ e.svc = [d.svc EXCEPT ![s] = row] /\ e.group = G
  BY DEF DbOK, DbType, WithRow
<1>2. e \in DbType
  BY DEF DbOK, DbType, Opt, WithRow
<1> HIDE DEF e
<1>3. NoRow # row
  BY IdsAssumption
<1>4. /\ e.svc[s] = row /\ s \in Rows(e.svc)
      /\ \A t \in ServiceIds \ {s} : e.svc[t] = d.svc[t]
      /\ \A t \in Rows(d.svc) : t \in Rows(e.svc)
      /\ \A t \in Rows(e.svc) : t = s \/ (t \in Rows(d.svc) /\ e.svc[t] = d.svc[t])
  BY <1>1, <1>3 DEF Rows, DbOK, DbType
<1>5. RefsOK(e)
  BY <1>1, <1>4 DEF DbOK, RefsOK
<1>6. \A t : BindingsOf(e, t) = BindingsOf(d, t)
  BY <1>1, SameRowsSameBindings
<1> QED
  BY <1>1, <1>2, <1>4, <1>5, <1>6 DEF OnlyOf, DbOK, e

\* update of ServiceService: a service that was updated is in order.  When
\* the update fails, at the checks or at a binding that another service has,
\* the service loses bindings at most, and has the new row or the old one.
LEMMA UpdateServiceChecks ==
    ASSUME NEW d, DbOK(d), NEW s \in Rows(d.svc), NEW row \in SvcRow, row.host \in Rows(d.host),
           NEW bindings \in Seq(Bindings)
    PROVE  LET u == UpdateService(d, s, row, bindings)
           IN  /\ OnlyOf(s, d, u.db)
               /\ u.ok => InOrder(s, u.db) /\ u.db.svc[s] = row
               /\ ~u.ok => /\ BindingsOf(u.db, s) \subseteq BindingsOf(d, s)
                           /\ u.db.svc[s] \in {row, d.svc[s]}
               /\ (\A b \in ToSet(bindings) : \E a \in BindingsOf(d, s) : a.id = b.id) /\ ~u.ok => u.db = d
<1> DEFINE u    == UpdateService(d, s, row, bindings)
           B    == ToSet(Deduplicate(bindings))
           lost == {b.id : b \in BindingsOf(d, s)} \ {b.id : b \in B}
           G    == Ungrouped(d, lost)
           e    == WithRow(d, s, row, G)
           r    == SaveBindings(e, s, B)
           good == /\ NoConflicts(B)
                   /\ BelongToHost(d, row.host, B)
                   /\ Available(d, row.host, s, B)
<1>1. s \in ServiceIds /\ d.svc[s] # NoRow /\ d \in DbType
  BY RowTypes DEF DbOK
<1>2. u = IF good THEN r ELSE [ok |-> FALSE, db |-> d]
  BY <1>1 DEF UpdateService, WithRow
<1> HIDE DEF u
<1>3. /\ B \in SUBSET Bindings /\ B \subseteq ToSet(bindings)
      /\ \A a, b \in B : a # b => ~SameType(a, b) /\ ~Covers(a, b)
  <2>1. ToSet(bindings) \subseteq Bindings
    BY DEF ToSet
  <2> QED
    BY <2>1, DeduplicateKeepsDistinct
<1>4. OnlyOf(s, d, d)
  BY DEF OnlyOf
<1>5. CASE ~good
  <2>1. ~u.ok /\ u.db = d
    BY <1>2, <1>5
  <2> QED
    BY <1>4, <2>1 DEF u
<1>6. CASE good
  <2>1. /\ G \in [Groups -> Opt(SUBSET BindIds)]
        /\ \A g \in Groups : G[g] # NoRow => G[g] \subseteq Rows(d.bind)
    <3>1. G = [g \in Groups |-> IF d.group[g] = NoRow THEN NoRow ELSE d.group[g] \ lost]
      BY DEF Ungrouped
    <3> HIDE DEF G, lost
    <3> QED
      BY <3>1 DEF DbOK, RefsOK, DbType, Opt
  <2> HIDE DEF G
  <2>2. /\ OnlyOf(s, d, e) /\ s \in Rows(e.svc) /\ e.svc[s] = row
        /\ \A t : BindingsOf(e, t) = BindingsOf(d, t)
    BY <1>1, <2>1, RowWritten
  <2> HIDE DEF e, B
  <2>3. DbOK(e) /\ BelongToHost(e, row.host, B)
    BY <1>1, <1>6, <2>2, OnlyOfOthersSame DEF OnlyOf
  <2>4. Named(e, B)
    BY <1>3, <2>3, OwnIsNamed DEF DbOK
  <2>5. /\ OnlyOf(s, e, r.db) /\ r.db.svc = e.svc
        /\ r.ok => BindingsOf(r.db, s) \subseteq B
        /\ ~r.ok => BindingsOf(r.db, s) \subseteq BindingsOf(e, s)
        /\ (\A b \in B : \E a \in BindingsOf(e, s) : a.id = b.id) => r.ok
    BY <1>3, <2>2, <2>3, <2>4, SaveBindingsOfOne
  <2> HIDE DEF r
  <2>6. u = r
    BY <1>2, <1>6
  <2>7. OnlyOf(s, d, r.db)
    BY <2>2, <2>5 DEF OnlyOf
  <2>8. ASSUME r.ok
        PROVE  InOrder(s, r.db) /\ r.db.svc[s] = row
    <3> DEFINE C == BindingsOf(r.db, s)
    <3>1. C \subseteq B
      BY <2>5, <2>8
    <3>2. Agreeing(C)
      BY <1>3, <1>6, <3>1 DEF Agreeing, NoConflicts
    <3>3. BelongToHost(r.db, row.host, C)
      <4>1. BelongToHost(d, row.host, C)
        BY <1>6, <3>1 DEF BelongToHost
      <4> QED
        BY <1>1, <2>7, <4>1, OnlyOfOthersSame
    <3>4. FreeOn(r.db, row.host, s, C)
      <4>1. FreeOn(d, row.host, s, C)
        BY <1>6, <3>1 DEF FreeOn, Available, ClaimedByOthers, ServicesOf
      <4> QED
        BY <1>1, <2>7, <4>1, OnlyOfOthersSame
    <3>5. r.db.svc[s] = row /\ s \in Rows(r.db.svc)
      BY <2>2, <2>5
    <3> QED
      BY <3>2, <3>3, <3>4, <3>5 DEF InOrder
  <2>9. (\A b \in ToSet(bindings) : \E a \in BindingsOf(d, s) : a.id = b.id) => r.ok
    BY <1>3, <2>2, <2>5
  <2> QED
    BY <2>2, <2>5, <2>6, <2>7, <2>8, <2>9 DEF u
<1> QED
  BY <1>5, <1>6

\* create of ServiceService for a service that is new: the tables stay, or
\* the service is there and its bindings agree and are of the host; those a
\* user sent are free too.
LEMMA CreateServiceChecks ==
    ASSUME NEW d, DbOK(d), NEW s \in ServiceIds, NEW row \in SvcRow,
           NEW bindings \in Seq(Bindings), NEW twin, ~Upserts(d, s, row, twin)
    PROVE  LET r == CreateService(d, s, row, bindings, twin)
           IN  \/ r.db = d /\ ~r.ok
               \/ /\ d.svc[s] = NoRow /\ row.host \in Rows(d.host)
                  /\ OnlyOf(s, d, r.db) /\ s \in Rows(r.db.svc) /\ r.db.svc[s] = row
                  /\ BindingsOf(r.db, s) \subseteq ToSet(bindings)
                  /\ Agreeing(BindingsOf(r.db, s))
                  /\ BelongToHost(r.db, row.host, BindingsOf(r.db, s))
                  /\ row.src # "discovery" => FreeOn(r.db, row.host, s, BindingsOf(r.db, s))
<1> DEFINE B    == ToSet(Deduplicate(bindings))
           e    == WithRow(d, s, row, d.group)
           r    == SaveBindings(e, s, B)
           good == /\ d.svc[s] = NoRow /\ d.host[row.host] # NoRow
                   /\ NoConflicts(B)
                   /\ BelongToHost(d, row.host, B)
                   /\ row.src = "discovery" \/ Available(d, row.host, s, B)
<1>1. e = [d EXCEPT !.svc[s] = row]
  BY DEF WithRow, DbOK, DbType
<1>2. CreateService(d, s, row, bindings, twin) = IF good THEN r ELSE [ok |-> FALSE, db |-> d]
  BY <1>1 DEF CreateService
<1>3. /\ B \in SUBSET Bindings /\ B \subseteq ToSet(bindings)
      /\ \A a, b \in B : a # b => ~SameType(a, b) /\ ~Covers(a, b)
  <2>1. ToSet(bindings) \subseteq Bindings
    BY DEF ToSet
  <2> QED
    BY <2>1, DeduplicateKeepsDistinct
<1>4. CASE ~good
  BY <1>2, <1>4
<1>5. CASE good
  <2>1. row.host \in Rows(d.host)
    BY <1>5, RowTypes DEF DbOK, SvcRow
  <2>2. /\ d.group \in [Groups -> Opt(SUBSET BindIds)]
        /\ \A g \in Groups : d.group[g] # NoRow => d.group[g] \subseteq Rows(d.bind)
    BY DEF DbOK, DbType, RefsOK
  <2>3. /\ OnlyOf(s, d, e) /\ s \in Rows(e.svc) /\ e.svc[s] = row
        /\ \A t : BindingsOf(e, t) = BindingsOf(d, t)
    BY <2>1, <2>2, RowWritten
  <2> HIDE DEF e, B
  <2>4. DbOK(e) /\ BelongToHost(e, row.host, B)
    BY <1>5, <2>3, OnlyOfOthersSame DEF OnlyOf, DbOK
  <2>5. Named(e, B)
    BY <1>3, <2>4, OwnIsNamed DEF DbOK
  <2>6. /\ OnlyOf(s, e, r.db) /\ r.db.svc = e.svc
        /\ r.ok => BindingsOf(r.db, s) \subseteq B
        /\ ~r.ok => BindingsOf(r.db, s) \subseteq BindingsOf(e, s)
    BY <1>3, <2>3, <2>4, <2>5, SaveBindingsOfOne
  <2>7. BindingsOf(d, s) = {}
    <3>1. \A x \in Rows(d.bind) : d.bind[x].svc # s
      BY <1>5 DEF DbOK, RefsOK, Rows
    <3> QED
      BY <3>1, BindingsAreRows DEF DbOK
  <2> HIDE DEF r
  <2>8. OnlyOf(s, d, r.db)
    BY <2>3, <2>6 DEF OnlyOf
  <2> DEFINE C == BindingsOf(r.db, s)
  <2>9. C \subseteq B
    BY <2>3, <2>6, <2>7
  <2>10. Agreeing(C)
    BY <1>3, <1>5, <2>9 DEF Agreeing, NoConflicts
  <2>11. BelongToHost(r.db, row.host, C)
    <3>1. BelongToHost(d, row.host, C)
      BY <1>5, <2>9 DEF BelongToHost
    <3> QED
      BY <2>8, <3>1, OnlyOfOthersSame DEF DbOK
  <2>12. row.src # "discovery" => FreeOn(r.db, row.host, s, C)
    <3> HAVE row.src # "discovery"
    <3>1. FreeOn(d, row.host, s, C)
      BY <1>5, <2>9 DEF FreeOn, Available, ClaimedByOthers, ServicesOf
    <3> QED
      BY <2>8, <3>1, OnlyOfOthersSame DEF DbOK
  <2>13. r.db.svc[s] = row /\ s \in Rows(r.db.svc)
    BY <2>3, <2>6
  <2>14. CreateService(d, s, row, bindings, twin) = r
    BY <1>2, <1>5
  <2> QED
    BY <1>3, <1>5, <2>1, <2>8, <2>9, <2>10, <2>11, <2>12, <2>13, <2>14
<1> QED
  BY <1>4, <1>5

\* upsert_service checks nothing but agreement: the twin has only bindings it
\* had and bindings that were reported.
LEMMA UpsertMerges ==
    ASSUME NEW d, DbOK(d), NEW s \in ServiceIds, NEW row \in SvcRow,
           NEW bindings \in Seq(Bindings), Named(d, ToSet(bindings)),
           NEW twin \in Twins(d, s, row, bindings), Upserts(d, s, row, twin)
    PROVE  LET r == CreateService(d, s, row, bindings, twin)
           IN  /\ twin \in ServicesOf(d, row.host)
               /\ OnlyOf(twin, d, r.db) /\ twin \in Rows(r.db.svc) /\ r.db.svc[twin].host = row.host
               /\ BindingsOf(r.db, twin) \subseteq BindingsOf(d, twin) \cup ToSet(bindings)
               /\ Agreeing(BindingsOf(d, twin)) => Agreeing(BindingsOf(r.db, twin))
<1> DEFINE bs  == Deduplicate(bindings)
           old == BindingsOf(d, twin)
           B   == Merged(old, bs)
           new == [d.svc[twin] EXCEPT !.src = IF row.src = "discovery" THEN row.src ELSE @,
                                      !.ctr = IF row.ctr # NoContainer THEN row.ctr ELSE @]
           e   == WithRow(d, twin, new, d.group)
           r   == SaveBindings(e, twin, B)
<1>1. d \in DbType /\ twin \in ServicesOf(d, row.host) /\ twin \in Rows(d.svc) /\ d.svc[twin].host = row.host
  BY DEF Twins, Upserts, ServicesOf, DbOK
<1>2. twin \in ServiceIds /\ d.svc[twin] \in SvcRow /\ row.host \in Rows(d.host)
  BY <1>1, RowTypes DEF DbOK, RefsOK
<1>3. new \in SvcRow /\ new.host = row.host
  BY <1>1, <1>2 DEF SvcRow
<1>4. e = [d EXCEPT !.svc[twin].src = IF row.src = "discovery" THEN row.src ELSE @,
                    !.svc[twin].ctr = IF row.ctr # NoContainer THEN row.ctr ELSE @]
  BY ZenonT(60), <1>1, <1>2 DEF WithRow, DbType, SvcRow
<1>5. CreateService(d, s, row, bindings, twin) = r
  BY <1>4 DEF CreateService
<1> HIDE DEF new
<1>6. /\ d.group \in [Groups -> Opt(SUBSET BindIds)]
      /\ \A g \in Groups : d.group[g] # NoRow => d.group[g] \subseteq Rows(d.bind)
  BY DEF DbOK, DbType, RefsOK
<1>7. /\ OnlyOf(twin, d, e) /\ twin \in Rows(e.svc) /\ e.svc[twin] = new
      /\ \A t : BindingsOf(e, t) = BindingsOf(d, t)
  BY <1>2, <1>3, <1>6, RowWritten
<1>8. bs \in Seq(Bindings) /\ ToSet(bs) \subseteq ToSet(bindings) /\ ToSet(bindings) \subseteq Bindings
  <2>1. ToSet(bindings) \subseteq Bindings
    BY DEF ToSet
  <2> QED
    BY <2>1, DeduplicateKeepsDistinct
<1>9. old \in SUBSET Bindings /\ Named(d, old)
  <2>1. /\ old \in SUBSET Bindings
        /\ \A b \in old : b.id \in Rows(d.bind) /\ b.port = d.bind[b.id].port /\ b.iface = d.bind[b.id].iface
    BY <1>1, BindingsAreRows
  <2> HIDE DEF old
  <2> QED
    BY <2>1 DEF Named, DbOK, RefsOK
<1> HIDE DEF old, bs, e
<1>10. (Agreeing(old) => Agreeing(B)) /\ B \subseteq old \cup ToSet(bs)
  BY <1>8, <1>9, MergedAgrees
<1> HIDE DEF B
<1>11. B \in SUBSET Bindings /\ B \subseteq old \cup ToSet(bindings)
  BY <1>8, <1>9, <1>10
<1>12. DbOK(e) /\ Named(e, B)
  BY <1>7, <1>9, <1>11 DEF Named, OnlyOf
<1>13. /\ OnlyOf(twin, e, r.db) /\ r.db.svc = e.svc
       /\ r.ok => BindingsOf(r.db, twin) \subseteq B
       /\ ~r.ok => BindingsOf(r.db, twin) \subseteq BindingsOf(e, twin)
  BY <1>7, <1>11, <1>12, SaveBindingsOfOne
<1> HIDE DEF r
<1>14. OnlyOf(twin, d, r.db)
  BY <1>7, <1>13 DEF OnlyOf
<1>15. BindingsOf(r.db, twin) \subseteq B \/ BindingsOf(r.db, twin) \subseteq old
  BY <1>7, <1>13 DEF old
<1>16. Agreeing(old) => Agreeing(BindingsOf(r.db, twin))
  BY <1>10, <1>15 DEF Agreeing
<1>17. BindingsOf(r.db, twin) \subseteq old \cup ToSet(bindings)
  BY <1>11, <1>15
<1>18. twin \in Rows(r.db.svc) /\ r.db.svc[twin].host = row.host
  BY <1>3, <1>7, <1>13
<1> QED
  BY <1>1, <1>5, <1>14, <1>16, <1>17, <1>18 DEF old

\* The bindings of every service that is not loose agree and are of its host.
Sound(d, L) ==
    /\ DbOK(d) /\ L \subseteq Rows(d.svc)
    /\ \A s \in Rows(d.svc) \ L :
          Agreeing(BindingsOf(d, s)) /\ BelongToHost(d, d.svc[s].host, BindingsOf(d, s))

\* No two services that are not loose have a port in common.
Exclusive(d, L) ==
    \A s, t \in Rows(d.svc) \ L :
        s # t => \A a \in BindingsOf(d, s), b \in BindingsOf(d, t) : ~Overlaps(a, b)

\* The claims of tables d when the services L are loose.
PortClaims(B) == {[port |-> b.port, iface |-> b.iface] : b \in {b \in B : b.port # NoPort}}

ClaimsIn(d, L) == [s \in ServiceIds |-> IF s \in L THEN {} ELSE PortClaims(BindingsOf(d, s))]

\* The two kinds of steps of PortRegistry, from claims f to claims g.
Revokes(f, g) == \A s \in ServiceIds : g[s] \subseteq f[s]

Assigns(s, f, g) ==
    \A t \in ServiceIds \ {s} :
       g[t] = f[t] /\ \A a \in f[t], b \in g[s] : ~Registry!Overlap(a, b)

\* A step from d, L to e, M keeps the tables sound and is one of PortRegistry.
StepOK(d, L, e, M) ==
    /\ Sound(e, M)
    /\ Exclusive(d, L) => Exclusive(e, M)
    /\ \/ Revokes(ClaimsIn(d, L), ClaimsIn(e, M))
       \/ \E s \in ServiceIds : Assigns(s, ClaimsIn(d, L), ClaimsIn(e, M))

\* What there is no service of has no bindings.
LEMMA NoServiceNoBindings ==
    ASSUME NEW d, DbOK(d), NEW s, s \notin Rows(d.svc)
    PROVE  BindingsOf(d, s) = {}
<1>1. \A x \in Rows(d.bind) : d.bind[x].svc # s
  BY DEF DbOK, RefsOK
<1> QED
  BY <1>1 DEF BindingsOf

\* A step in which services go, become loose or lose bindings.
Shrinks(d, L, e, M) ==
    /\ DbOK(e) /\ M \subseteq Rows(e.svc)
    /\ \A t \in Rows(e.svc) \ M :
          /\ t \in Rows(d.svc) \ L /\ e.svc[t].host = d.svc[t].host
          /\ BindingsOf(e, t) \subseteq BindingsOf(d, t)
          /\ \A b \in BindingsOf(e, t) :
                /\ b.port # NoPort => b.port \in Rows(e.port) /\ e.port[b.port].host = d.port[b.port].host
                /\ b.iface # AllIfaces => b.iface \in Rows(e.iface) /\ e.iface[b.iface].host = d.iface[b.iface].host

\* Such a step revokes claims.
LEMMA ShrinkStep ==
    ASSUME NEW d, NEW L, Sound(d, L), NEW e, NEW M, Shrinks(d, L, e, M)
    PROVE  StepOK(d, L, e, M)
<1>1. ASSUME NEW t \in Rows(e.svc) \ M
      PROVE  Agreeing(BindingsOf(e, t)) /\ BelongToHost(e, e.svc[t].host, BindingsOf(e, t))
  <2>1. /\ t \in Rows(d.svc) \ L /\ e.svc[t].host = d.svc[t].host
        /\ BindingsOf(e, t) \subseteq BindingsOf(d, t)
        /\ Agreeing(BindingsOf(d, t)) /\ BelongToHost(d, d.svc[t].host, BindingsOf(d, t))
    BY DEF Sound, Shrinks
  <2>2. Agreeing(BindingsOf(e, t))
    BY <2>1 DEF Agreeing
  <2>3. ASSUME NEW b \in BindingsOf(e, t)
        PROVE  /\ b.port # NoPort => b.port \in PortsOf(e, e.svc[t].host)
               /\ b.iface # AllIfaces => b.iface \in IfacesOf(e, e.svc[t].host)
    <3>1. /\ b.port # NoPort => b.port \in Rows(e.port) /\ e.port[b.port].host = d.port[b.port].host
          /\ b.iface # AllIfaces => b.iface \in Rows(e.iface) /\ e.iface[b.iface].host = d.iface[b.iface].host
      BY DEF Shrinks
    <3>2. /\ b.port # NoPort => d.port[b.port].host = d.svc[t].host
          /\ b.iface # AllIfaces => d.iface[b.iface].host = d.svc[t].host
      BY <2>1 DEF BelongToHost, PortsOf, IfacesOf
    <3> QED
      BY <2>1, <3>1, <3>2 DEF PortsOf, IfacesOf
  <2> QED
    BY <2>2, <2>3 DEF BelongToHost
<1>2. Sound(e, M)
  BY <1>1 DEF Sound, Shrinks
<1>3. ASSUME NEW s \in ServiceIds
      PROVE  ClaimsIn(e, M)[s] \subseteq ClaimsIn(d, L)[s]
  <2>1. CASE s \in Rows(e.svc) \ M
    BY <2>1 DEF Shrinks, ClaimsIn, PortClaims
  <2>2. CASE s \in M
    BY <2>2 DEF ClaimsIn
  <2>3. CASE s \notin Rows(e.svc)
    <3>1. BindingsOf(e, s) = {}
      BY <2>3, NoServiceNoBindings DEF Shrinks
    <3> QED
      BY <3>1 DEF ClaimsIn, PortClaims
  <2> QED
    BY <2>1, <2>2, <2>3
<1>4. Exclusive(d, L) => Exclusive(e, M)
  BY DEF Exclusive, Shrinks
<1> QED
  BY <1>2, <1>3, <1>4 DEF StepOK, Revokes

\* A step after which service s is in order assigns claims to it: on its host
\* they are free, and the services of other hosts claim other ports.
LEMMA AssignFreeStep ==
    ASSUME NEW d, NEW L, Sound(d, L), NEW e, NEW M, NEW s \in ServiceIds, OnlyOf(s, d, e),
           s \in Rows(e.svc), Agreeing(BindingsOf(e, s)), BelongToHost(e, e.svc[s].host, BindingsOf(e, s)),
           \A t \in Rows(e.svc) \ (L \cup {s}) :
              e.svc[t].host = e.svc[s].host => \A a \in BindingsOf(e, t), b \in BindingsOf(e, s) : ~Overlaps(a, b),
           s \notin M, M = L \ {s}
    PROVE  StepOK(d, L, e, M)
<1>1. /\ d \in DbType /\ DbOK(d) /\ DbOK(e) /\ e \in DbType
      /\ Rows(d.svc) \subseteq ServiceIds /\ Rows(e.svc) \subseteq ServiceIds
  BY RowTypes DEF Sound, DbOK, OnlyOf
<1>2. \A t \in ServiceIds \ {s} : t \in Rows(e.svc) <=> t \in Rows(d.svc)
  BY <1>1, OnlyOfOthersSame
<1>3. ASSUME NEW t \in Rows(e.svc) \ M
      PROVE  Agreeing(BindingsOf(e, t)) /\ BelongToHost(e, e.svc[t].host, BindingsOf(e, t))
  <2>1. CASE t = s
    BY <2>1
  <2>2. CASE t # s
    <3>1. t \in ServiceIds \ {s} /\ t \in Rows(d.svc) \ L
      BY <1>1, <1>2, <2>2
    <3>2. /\ e.svc[t] = d.svc[t] /\ BindingsOf(e, t) = BindingsOf(d, t)
          /\ Agreeing(BindingsOf(d, t)) /\ BelongToHost(d, d.svc[t].host, BindingsOf(d, t))
      BY <3>1 DEF OnlyOf, Sound
    <3> QED
      BY <1>1, <3>2, OnlyOfOthersSame
  <2> QED
    BY <2>1, <2>2
<1>4. M \subseteq Rows(e.svc)
  BY <1>1, <1>2 DEF Sound
<1>5. Sound(e, M)
  BY <1>1, <1>3, <1>4 DEF Sound
<1>6. ASSUME NEW t \in Rows(d.svc) \ (L \cup {s}), NEW x \in BindingsOf(d, t), NEW y \in BindingsOf(e, s)
      PROVE  ~Overlaps(x, y)
  <2>1. /\ t \in ServiceIds \ {s} /\ t \in Rows(e.svc) \ (L \cup {s})
        /\ e.svc[t] = d.svc[t] /\ BindingsOf(e, t) = BindingsOf(d, t)
    BY <1>1, <1>2 DEF OnlyOf
  <2> SUFFICES ASSUME x.port # NoPort, y.port # NoPort
               PROVE  ~Overlaps(x, y)
    BY DEF Overlaps
  <2>2. x.port \in PortsOf(e, e.svc[t].host)
    BY <1>3, <2>1 DEF BelongToHost
  <2>3. y.port \in PortsOf(e, e.svc[s].host)
    BY DEF BelongToHost
  <2>4. CASE e.svc[t].host = e.svc[s].host
    BY <2>1, <2>4
  <2>5. CASE e.svc[t].host # e.svc[s].host
    BY <2>2, <2>3, <2>5 DEF PortsOf, Overlaps
  <2> QED
    BY <2>4, <2>5
<1>7. ASSUME NEW t \in ServiceIds \ {s}
      PROVE  ClaimsIn(e, M)[t] = ClaimsIn(d, L)[t]
  BY DEF ClaimsIn, OnlyOf
<1>8. ASSUME NEW t \in ServiceIds \ {s}, NEW a \in ClaimsIn(d, L)[t], NEW b \in ClaimsIn(e, M)[s]
      PROVE  ~Registry!Overlap(a, b)
  <2>1. t \notin L /\ a \in PortClaims(BindingsOf(d, t)) /\ b \in PortClaims(BindingsOf(e, s))
    BY <1>8 DEF ClaimsIn
  <2>2. PICK x \in BindingsOf(d, t) : x.port # NoPort /\ a = [port |-> x.port, iface |-> x.iface]
    BY <2>1 DEF PortClaims
  <2>3. PICK y \in BindingsOf(e, s) : y.port # NoPort /\ b = [port |-> y.port, iface |-> y.iface]
    BY <2>1 DEF PortClaims
  <2>4. t \in Rows(d.svc)
    BY <1>1, <2>2, NoServiceNoBindings
  <2>5. ~Overlaps(x, y)
    BY <1>6, <2>1, <2>4
  <2> QED
    BY <2>2, <2>3, <2>5 DEF Overlaps, Registry!Overlap
<1>9. ASSUME Exclusive(d, L), NEW t \in Rows(e.svc) \ M, NEW u \in Rows(e.svc) \ M, t # u,
             NEW a \in BindingsOf(e, t), NEW b \in BindingsOf(e, u)
      PROVE  ~Overlaps(a, b)
  <2>1. \A v \in Rows(e.svc) \ M : v # s => v \in Rows(d.svc) \ (L \cup {s}) /\ BindingsOf(e, v) = BindingsOf(d, v)
    BY <1>1, <1>2 DEF OnlyOf
  <2>2. CASE t # s /\ u # s
    BY <1>9, <2>1, <2>2 DEF Exclusive
  <2>3. CASE u = s
    BY <1>6, <1>9, <2>1, <2>3
  <2>4. CASE t = s
    <3>1. ~Overlaps(b, a)
      BY <1>6, <1>9, <2>1, <2>4
    <3> QED
      BY <3>1 DEF Overlaps
  <2> QED
    BY <2>2, <2>3, <2>4
<1>10. Exclusive(d, L) => Exclusive(e, M)
  <2> SUFFICES ASSUME Exclusive(d, L) PROVE Exclusive(e, M)
    OBVIOUS
  <2> QED
    BY <1>9 DEF Exclusive
<1> QED
  BY <1>5, <1>7, <1>8, <1>10 DEF StepOK, Assigns

\* A service that was written and checked, create_service or update_service,
\* is such a service.
LEMMA AssignStep ==
    ASSUME NEW d, NEW L, Sound(d, L), NEW e, NEW M, NEW s \in ServiceIds, OnlyOf(s, d, e), InOrder(s, e),
           s \notin M, M = L \ {s}
    PROVE  StepOK(d, L, e, M)
<1>1. /\ s \in Rows(e.svc) /\ Agreeing(BindingsOf(e, s)) /\ BelongToHost(e, e.svc[s].host, BindingsOf(e, s))
      /\ \A t \in Rows(e.svc) \ (L \cup {s}) :
              e.svc[t].host = e.svc[s].host => \A a \in BindingsOf(e, t), b \in BindingsOf(e, s) : ~Overlaps(a, b)
  BY DEF InOrder, FreeOn
<1> QED
  BY <1>1, AssignFreeStep

\* Rows of bindings name rows that are there.
LEMMA BoundRowsAreThere ==
    ASSUME NEW d, DbOK(d), NEW s, NEW b \in BindingsOf(d, s)
    PROVE  /\ b.port # NoPort => b.port \in Rows(d.port)
           /\ b.iface # AllIfaces => b.iface \in Rows(d.iface)
<1>1. b.id \in Rows(d.bind) /\ b.port = d.bind[b.id].port /\ b.iface = d.bind[b.id].iface
  BY BindingsAreRows DEF DbOK
<1> QED
  BY <1>1 DEF DbOK, RefsOK

\* A step about one service that becomes loose.
LEMMA LooseStep ==
    ASSUME NEW d, NEW L, Sound(d, L), NEW e, NEW s \in ServiceIds, OnlyOf(s, d, e)
    PROVE  StepOK(d, L, e, (L \cup {s}) \cap Rows(e.svc))
<1> DEFINE M == (L \cup {s}) \cap Rows(e.svc)
<1>1. d \in DbType /\ DbOK(e) /\ e \in DbType /\ e.port = d.port /\ e.iface = d.iface
  BY DEF Sound, DbOK, OnlyOf
<1>2. ASSUME NEW t \in Rows(e.svc) \ M
      PROVE  t \in Rows(d.svc) \ L /\ e.svc[t] = d.svc[t] /\ BindingsOf(e, t) = BindingsOf(d, t)
  <2>1. t \in ServiceIds \ {s}
    BY <1>1, RowTypes
  <2> QED
    BY <1>1, <2>1, OnlyOfOthersSame DEF OnlyOf
<1>3. \A t \in Rows(e.svc) \ M : \A b \in BindingsOf(e, t) :
         /\ b.port # NoPort => b.port \in Rows(e.port)
         /\ b.iface # AllIfaces => b.iface \in Rows(e.iface)
  BY <1>1, BoundRowsAreThere
<1>4. Shrinks(d, L, e, M)
  BY <1>1, <1>2, <1>3 DEF Shrinks
<1> QED
  BY <1>4, ShrinkStep

\* A step in which one service loses bindings.
LEMMA LosingStep ==
    ASSUME NEW d, NEW L, Sound(d, L), NEW e, NEW s \in Rows(d.svc), OnlyOf(s, d, e),
           s \in Rows(e.svc), e.svc[s].host = d.svc[s].host, BindingsOf(e, s) \subseteq BindingsOf(d, s)
    PROVE  StepOK(d, L, e, L \cap Rows(e.svc))
<1> DEFINE M == L \cap Rows(e.svc)
<1>1. d \in DbType /\ DbOK(e) /\ e \in DbType /\ e.port = d.port /\ e.iface = d.iface
  BY DEF Sound, DbOK, OnlyOf
<1>2. ASSUME NEW t \in Rows(e.svc) \ M
      PROVE  t \in Rows(d.svc) \ L /\ e.svc[t].host = d.svc[t].host /\ BindingsOf(e, t) \subseteq BindingsOf(d, t)
  <2>1. CASE t = s
    BY <2>1
  <2>2. CASE t # s
    <3>1. t \in ServiceIds \ {s} /\ s \in ServiceIds
      BY <1>1, <2>2, RowTypes
    <3> QED
      BY <1>1, <3>1, OnlyOfOthersSame DEF OnlyOf
  <2> QED
    BY <2>1, <2>2
<1>3. \A t \in Rows(e.svc) \ M : \A b \in BindingsOf(e, t) :
         /\ b.port # NoPort => b.port \in Rows(e.port)
         /\ b.iface # AllIfaces => b.iface \in Rows(e.iface)
  BY <1>1, BoundRowsAreThere
<1>4. Shrinks(d, L, e, M)
  BY <1>1, <1>2, <1>3 DEF Shrinks
<1> QED
  BY <1>4, ShrinkStep

\* A step in which rows are deleted.
LEMMA DeletingStep ==
    ASSUME NEW d, NEW L, Sound(d, L), NEW e, DbOK(e), Sub(e, d)
    PROVE  StepOK(d, L, e, L \cap Rows(e.svc))
<1> DEFINE M == L \cap Rows(e.svc)
<1>1. \A t \in Rows(e.svc) \ M : t \in Rows(d.svc) \ L /\ e.svc[t].host = d.svc[t].host
  BY DEF Sub
<1>2. ASSUME NEW t
      PROVE  BindingsOf(e, t) \subseteq BindingsOf(d, t)
  BY DEF Sub, BindingsOf
<1>3. ASSUME NEW t, NEW b \in BindingsOf(e, t)
      PROVE  /\ b.port # NoPort => b.port \in Rows(e.port) /\ e.port[b.port].host = d.port[b.port].host
             /\ b.iface # AllIfaces => b.iface \in Rows(e.iface) /\ e.iface[b.iface].host = d.iface[b.iface].host
  <2>1. /\ b.port # NoPort => b.port \in Rows(e.port)
        /\ b.iface # AllIfaces => b.iface \in Rows(e.iface)
    BY <1>3, BoundRowsAreThere
  <2> QED
    BY <2>1 DEF Sub
<1>4. Shrinks(d, L, e, M)
  BY <1>1, <1>2, <1>3 DEF Shrinks
<1> QED
  BY <1>4, ShrinkStep

\* A step that leaves services and bindings alone, and takes no interface or
\* port that a service is bound to from its host, unless the service is loose.
LEMMA OtherTablesStep ==
    ASSUME NEW d, NEW L, Sound(d, L), NEW e, DbOK(e), e.svc = d.svc, e.bind = d.bind,
           NEW M, L \subseteq M, M \subseteq Rows(d.svc),
           \A b \in Rows(d.bind) : d.bind[b].svc \notin M =>
              /\ d.bind[b].port # NoPort => e.port[d.bind[b].port].host = d.port[d.bind[b].port].host
              /\ d.bind[b].iface # AllIfaces => e.iface[d.bind[b].iface].host = d.iface[d.bind[b].iface].host
    PROVE  StepOK(d, L, e, M)
<1>1. \A t : BindingsOf(e, t) = BindingsOf(d, t)
  BY SameRowsSameBindings
<1>2. ASSUME NEW t \in Rows(e.svc) \ M, NEW b \in BindingsOf(e, t)
      PROVE  /\ b.port # NoPort => b.port \in Rows(e.port) /\ e.port[b.port].host = d.port[b.port].host
             /\ b.iface # AllIfaces => b.iface \in Rows(e.iface) /\ e.iface[b.iface].host = d.iface[b.iface].host
  <2>1. /\ b.port # NoPort => b.port \in Rows(e.port)
        /\ b.iface # AllIfaces => b.iface \in Rows(e.iface)
    BY <1>2, BoundRowsAreThere
  <2>2. /\ b.id \in Rows(d.bind) /\ d.bind[b.id].svc = t
        /\ b.port = d.bind[b.id].port /\ b.iface = d.bind[b.id].iface
    BY <1>1, <1>2, BindingsAreRows DEF Sound, DbOK
  <2> QED
    BY <1>2, <2>1, <2>2
<1>3. Shrinks(d, L, e, M)
  BY <1>1, <1>2 DEF Shrinks
<1> QED
  BY <1>3, ShrinkStep

\* Nothing changes.
LEMMA NoStep ==
    ASSUME NEW d, NEW L, Sound(d, L)
    PROVE  StepOK(d, L, d, L) /\ StepOK(d, L, d, L \cap Rows(d.svc))
<1>1. DbOK(d) /\ Sub(d, d)
  BY DEF Sound, Sub
<1>2. StepOK(d, L, d, L \cap Rows(d.svc))
  BY <1>1, DeletingStep
<1>3. L = L \cap Rows(d.svc)
  BY DEF Sound
<1> QED
  BY <1>2, <1>3

-----------------------------------------------------------------------------
(* The requests *)

PartialMaps(S, T) == UNION {[A -> T] : A \in SUBSET S}

\* Found(d) are the interfaces and ports the server has found or made.
FoundIfaces(d) == [id : Rows(d.iface), ip : Ips, mac : Macs \cup {NoMac}]
FoundPorts(d)  == [id : Rows(d.port), num : Numbers]

LookupCalls == [kind : {"report"}, pc : {"lookup"}, report : Reports, upsert : BOOLEAN, retry : BOOLEAN]

HostCalls == [kind : {"report"}, pc : {"host"}, report : Reports, upsert : BOOLEAN, retry : BOOLEAN,
              host : HostIds, src : Sources]

ChildrenCalls(d) ==
    [kind : {"report"}, pc : {"children"}, report : Reports, upsert : BOOLEAN, retry : BOOLEAN,
     host : Rows(d.host), src : Sources, ifaces : Seq(FoundIfaces(d)), ports : Seq(FoundPorts(d)),
     done : Nat, claimed : SUBSET Bindings, orphans : Seq(Bindings), held : BOOLEAN]

\* The bindings in B are for interfaces and ports that were found.
From(c, B) ==
    \A b \in B : /\ b.port # NoPort => \E p \in ToSet(c.ports) : b.port = p.id
                 /\ b.iface # AllIfaces => \E i \in ToSet(c.ifaces) : b.iface = i.id

\* The orphans are for rows that were found; no service of the host has one,
\* except for the reasons in Twice.
OrphansOK(c, d) ==
    /\ From(c, ToSet(c.orphans))
    /\ Twice(c) \/ \A s \in ServicesOf(d, c.host) : \A a \in BindingsOf(d, s), b \in ToSet(c.orphans) : ~Overlaps(a, b)

EditInputs == [ifaces : SUBSET IfaceIds, ports : SUBSET PortIds, added : SUBSET PortData,
               svcs : PartialMaps(ServiceIds, SUBSET Bindings)]

EditCalls == [kind : {"edit"}, pc : {"edit"}, host : HostIds, input : EditInputs]

SyncCalls(d) == [kind : {"edit"}, pc : {"ifaces", "ports", "removed"}, host : Rows(d.host), input : EditInputs]

SvcCalls(d) == [kind : {"edit"}, pc : {"services", "refused"}, host : Rows(d.host), input : EditInputs,
                known : SUBSET ServiceIds, losing : SUBSET ServiceIds, others : SUBSET ServiceIds]

\* What sync_services knew of the services when it began is still so.
InputsOK(c, d) ==
    /\ c.known \subseteq ServicesOf(d, c.host) /\ c.losing \subseteq c.known
    /\ c.losing \cup c.others \subseteq DOMAIN c.input.svcs
    /\ (c.others \ c.known) \cap ServicesOf(d, c.host) = {}

TransferCalls == [kind : {"consolidate"}, pc : {"transfer"}, host : HostIds, other : HostIds]

MergeCalls(d) == [kind : {"consolidate"}, pc : {"merge"}, host : Rows(d.host), other : HostIds,
                  ifaces : PartialMaps(IfaceIds, IfaceIds), ports : PartialMaps(PortIds, PortIds),
                  left : SUBSET Rows(d.svc), had : SUBSET ServiceIds]

CallOK(c, d) ==
    \/ c = Idle
    \/ c \in LookupCalls
    \/ c \in HostCalls
    \/ c \in ChildrenCalls(d) /\ OrphansOK(c, d)
    \/ c \in EditCalls
    \/ c \in SyncCalls(d)
    \/ c \in SvcCalls(d) /\ (c.pc = "services" => InputsOK(c, d))
    \/ c \in TransferCalls /\ c.host # c.other
    \/ c \in MergeCalls(d)

\* The inductive invariant.
InvInv ==
    /\ Sound(db, loose) /\ Exclusive(db, loose)
    /\ last \in Reports \cup {NoReport}
    /\ DOMAIN call = Slots /\ call = [slot \in Slots |-> call[slot]]
    /\ \A slot \in Slots : CallOK(call[slot], db)

\* A step keeps the invariant and is a step of PortRegistry.
Keeps == InvInv' /\ StepOK(db, loose, db', loose')

\* A step of the one request there is.
LEMMA SlotStep ==
    ASSUME InvInv, NEW slot \in Slots, NEW c, call' = [call EXCEPT ![slot] = c], CallOK(c, db'),
           last' \in Reports \cup {NoReport}, StepOK(db, loose, db', loose')
    PROVE  Keeps
<1>1. DOMAIN call' = Slots /\ call' = [x \in Slots |-> call'[x]] /\ \A x \in Slots : call'[x] = c
  BY OneRequest DEF InvInv
<1>2. Sound(db', loose') /\ Exclusive(db', loose')
  BY DEF StepOK, InvInv
<1> QED
  BY <1>1, <1>2 DEF InvInv, Keeps

\* A step of a request with the tables it leaves.
LEMMA ContinueStep ==
    ASSUME InvInv, NEW slot \in Slots, NEW c, NEW e, Continue(slot, c, e), CallOK(c, e),
           StepOK(db, loose, e, loose \cap Rows(e.svc))
    PROVE  Keeps
<1>1. /\ db' = e /\ loose' = loose \cap Rows(e.svc) /\ call' = [call EXCEPT ![slot] = c]
      /\ last' \in Reports \cup {NoReport}
  BY DEF Continue, Write, InvInv
<1>2. CallOK(c, db') /\ StepOK(db, loose, db', loose')
  BY <1>1
<1> QED
  BY <1>1, <1>2, SlotStep

\* The tables stay.
LEMMA ContinueSame ==
    ASSUME InvInv, NEW slot \in Slots, NEW c, Continue(slot, c, db), CallOK(c, db)
    PROVE  Keeps
<1>1. StepOK(db, loose, db, loose \cap Rows(db.svc))
  BY NoStep DEF InvInv
<1> QED
  BY <1>1, ContinueStep

\* A request of one step comes when there is no other.
LEMMA AtOnceStep ==
    ASSUME InvInv, NEW e, NEW L, AtOnce(e, L), StepOK(db, loose, e, L \cap Rows(e.svc))
    PROVE  Keeps
<1>1. /\ db' = e /\ loose' = L \cap Rows(e.svc) /\ call' = call
      /\ last' \in Reports \cup {NoReport}
  BY DEF AtOnce, Write, InvInv
<1>2. \A slot \in Slots : call[slot] = Idle
  BY OneRequest DEF AtOnce
<1>3. Sound(db', loose') /\ Exclusive(db', loose') /\ StepOK(db, loose, db', loose')
  BY <1>1 DEF StepOK, InvInv
<1>4. \A slot \in Slots : CallOK(call'[slot], db')
  BY <1>1, <1>2 DEF CallOK
<1> QED
  BY <1>1, <1>3, <1>4 DEF InvInv, Keeps

\* What a request at a given point looks like.
LEMMA PcTells ==
    ASSUME NEW c, NEW d, CallOK(c, d)
    PROVE  /\ c.pc = "lookup" => c \in LookupCalls
           /\ c.pc = "host" => c \in HostCalls
           /\ c.pc = "children" => c \in ChildrenCalls(d) /\ OrphansOK(c, d)
           /\ c.pc = "edit" => c \in EditCalls
           /\ c.pc \in {"ifaces", "ports", "removed"} => c \in SyncCalls(d)
           /\ c.pc = "services" => c \in SvcCalls(d) /\ InputsOK(c, d)
           /\ c.pc = "transfer" => c \in TransferCalls /\ c.host # c.other
           /\ c.pc = "merge" => c \in MergeCalls(d)
  BY DEF CallOK, Idle, LookupCalls, HostCalls, ChildrenCalls, EditCalls, SyncCalls, SvcCalls, TransferCalls, MergeCalls

-----------------------------------------------------------------------------
(* Reports *)

\* What the invariant says of the tables and of one request.
LEMMA CallTypes ==
    ASSUME InvInv, NEW slot \in Slots
    PROVE  CallOK(call[slot], db) /\ db \in DbType /\ DbOK(db)
  BY DEF InvInv, Sound, DbOK

\* An id that is not in use.
LEMMA FreshIsNew ==
    ASSUME NEW table, NEW x \in Fresh(table)
    PROVE  x \in NewIds[table] /\ x \notin Rows(db[table])
  BY DEF Fresh

\* A request ends.
LEMMA EndStep ==
    ASSUME InvInv, NEW slot \in Slots, Continue(slot, Idle, db)
    PROVE  Keeps
  BY ContinueSame DEF CallOK

\* A database access that fails ends the request where it is.
LEMMA FailsKeeps ==
    ASSUME InvInv, NEW slot \in Slots, RequestFails(slot)
    PROVE  Keeps
  BY EndStep DEF RequestFails

\* A request arrives.
LEMMA BeginStep ==
    ASSUME InvInv, NEW slot \in Slots, NEW c, Begin(slot, c), UNCHANGED <<db, last, loose>>, CallOK(c, db)
    PROVE  Keeps
<1>1. StepOK(db, loose, db', loose') /\ CallOK(c, db') /\ last' \in Reports \cup {NoReport}
  <2>1. db' = db /\ loose' = loose /\ last' = last
    OBVIOUS
  <2>2. StepOK(db, loose, db, loose)
    BY NoStep DEF InvInv
  <2> QED
    BY <2>1, <2>2 DEF InvInv
<1>2. call' = [call EXCEPT ![slot] = c]
  BY DEF Begin
<1> QED
  BY <1>1, <1>2, SlotStep

\* A host with children arrives: discover_host or create_host.
LEMMA ReportArrivesKeeps ==
    ASSUME InvInv, NEW slot \in Slots, NEW r \in Reports, DiscoverHost(slot, r) \/ CreateHost(slot, r)
    PROVE  Keeps
<1>1. ASSUME NEW u \in BOOLEAN, ReportArrives(slot, r, u)
      PROVE  Keeps
  <2> DEFINE c == [kind |-> "report", pc |-> "lookup", report |-> r, upsert |-> u, retry |-> u /\ r = last]
  <2>1. Begin(slot, c) /\ UNCHANGED <<db, last, loose>>
    BY <1>1 DEF ReportArrives
  <2>2. CallOK(c, db)
    BY DEF CallOK, LookupCalls
  <2> HIDE DEF c
  <2> QED
    BY <2>1, <2>2, BeginStep
<1> QED
  BY <1>1 DEF DiscoverHost, CreateHost

\* create_with_children looks for a host that is there already.
LEMMA ReportLookupKeeps ==
    ASSUME InvInv, NEW slot \in Slots, ReportLookup(slot)
    PROVE  Keeps
<1> DEFINE c == call[slot]
           matches == MatchingHosts(db, c.report.net, c.report.ifaces)
           ids     == IF matches # {} THEN matches
                      ELSE IF c.upsert THEN {c.report.host} ELSE Fresh("host")
           Found(h) == [kind |-> "report", pc |-> "host", report |-> c.report, upsert |-> c.upsert,
                        retry |-> c.retry, host |-> h, src |-> IF c.upsert THEN "discovery" ELSE "manual"]
<1>1. c.pc = "lookup" /\ (Continue(slot, Idle, db) \/ \E h \in ids : Continue(slot, Found(h), db))
  BY DEF ReportLookup
<1>2. c \in LookupCalls
  BY <1>1, CallTypes, PcTells
<1>3. ids \subseteq HostIds
  <2>1. matches \subseteq HostIds
    BY CallTypes, RowTypes DEF MatchingHosts
  <2>2. c.report.host \in HostIds
    BY <1>2, ReportsAssumption DEF LookupCalls
  <2>3. Fresh("host") \subseteq HostIds
    BY FreshIsNew, IdsAssumption
  <2> QED
    BY <2>1, <2>2, <2>3
<1>4. ASSUME NEW h \in ids, Continue(slot, Found(h), db)
      PROVE  Keeps
  <2>1. Found(h) \in HostCalls
    BY <1>2, <1>3 DEF HostCalls, LookupCalls, Sources
  <2>2. CallOK(Found(h), db)
    BY <2>1 DEF CallOK
  <2> QED
    BY <1>4, <2>2, ContinueSame
<1> QED
  BY <1>1, <1>4, EndStep

\* A host row is written; no other row changes.
LEMMA HostWritten ==
    ASSUME NEW d, DbOK(d), NEW h \in HostIds, NEW row \in HostRow
    PROVE  LET e == [d EXCEPT !.host[h] = row]
           IN  /\ DbOK(e) /\ h \in Rows(e.host)
               /\ e.iface = d.iface /\ e.port = d.port /\ e.svc = d.svc /\ e.bind = d.bind
               /\ \A x \in Rows(d.host) : x \in Rows(e.host)
<1> DEFINE e == [d EXCEPT !.host[h] = row]
<1>1. /\ e.iface = d.iface /\ e.port = d.port /\ e.svc = d.svc /\ e.bind = d.bind
      /\ e.group = d.group /\ e.daemon = d.daemon /\ e.host = [d.host EXCEPT ![h] = row]
  BY DEF DbOK, DbType
<1>2. e \in DbType
  BY DEF DbOK, DbType, Opt
<1>3. row # NoRow
  BY IdsAssumption
<1>4. h \in Rows(e.host) /\ \A x \in Rows(d.host) : x \in Rows(e.host)
  BY <1>1, <1>3 DEF Rows, DbOK, DbType
<1> HIDE DEF e
<1>5. RefsOK(e)
  BY <1>1, <1>4 DEF DbOK, RefsOK
<1> QED
  BY <1>1, <1>2, <1>4, <1>5 DEF DbOK, e

\* create_with_children stores the host, or upserts it.
LEMMA ReportHostKeeps ==
    ASSUME InvInv, NEW slot \in Slots, ReportHost(slot)
    PROVE  Keeps
<1> DEFINE c == call[slot]
           next == [kind |-> "report", pc |-> "children", report |-> c.report, upsert |-> c.upsert,
                    retry |-> c.retry, host |-> c.host, src |-> c.src, ifaces |-> <<>>, ports |-> <<>>,
                    done |-> 0, claimed |-> {}, orphans |-> <<>>, held |-> FALSE]
           e(row) == [db EXCEPT !.host[c.host] = row]
<1>1. c.pc = "host"
  BY DEF ReportHost
<1>2. c \in HostCalls /\ DbOK(db)
  BY <1>1, CallTypes, PcTells
<1>3. ASSUME NEW row \in HostRow, Continue(slot, next, e(row))
      PROVE  Keeps
  <2>1. /\ DbOK(e(row)) /\ c.host \in Rows(e(row).host)
        /\ e(row).iface = db.iface /\ e(row).port = db.port /\ e(row).svc = db.svc /\ e(row).bind = db.bind
    BY <1>2, HostWritten DEF HostCalls
  <2> HIDE DEF e
  <2>2. next \in ChildrenCalls(e(row))
    BY <1>2, <2>1 DEF HostCalls, ChildrenCalls
  <2>3. OrphansOK(next, e(row))
    BY DEF OrphansOK, From, ToSet
  <2> HIDE DEF next
  <2>4. CallOK(next, e(row))
    BY <2>2, <2>3 DEF CallOK
  <2>5. loose \subseteq Rows(db.svc) /\ loose \cap Rows(e(row).svc) = loose
    BY <2>1 DEF InvInv, Sound
  <2>6. StepOK(db, loose, e(row), loose)
    BY <2>1, <2>5, OtherTablesStep DEF InvInv
  <2>7. StepOK(db, loose, e(row), loose \cap Rows(e(row).svc))
    BY <2>5, <2>6
  <2> QED
    BY <1>3, <2>4, <2>7, ContinueStep
<1>4. CASE db.host[c.host] = NoRow
  <2> DEFINE row == [net |-> c.report.net, src |-> c.src]
  <2>1. row \in HostRow
    BY <1>2, ReportsAssumption DEF HostCalls, HostRow
  <2>2. Continue(slot, next, e(row))
    BY <1>4 DEF ReportHost
  <2> HIDE DEF row, next
  <2> QED
    BY <1>3, <2>1, <2>2
<1>5. CASE db.host[c.host] # NoRow /\ db.host[c.host].net # c.report.net
  BY <1>5, EndStep DEF ReportHost
<1>6. CASE db.host[c.host] # NoRow /\ db.host[c.host].net = c.report.net
  <2> DEFINE row == [db.host[c.host] EXCEPT !.src = MergeSource(@, c.src)]
  <2>1. db.host[c.host] \in HostRow
    BY <1>2, <1>6 DEF DbOK, DbType, Opt, HostCalls
  <2>2. row \in HostRow
    BY <1>2, <2>1 DEF HostRow, HostCalls, MergeSource
  <2>3. e(row) = [db EXCEPT !.host[c.host].src = MergeSource(@, c.src)]
    BY <1>2, <2>1 DEF DbOK, DbType, HostRow, HostCalls
  <2>4. Continue(slot, next, [db EXCEPT !.host[c.host].src = MergeSource(@, c.src)])
    BY <1>6 DEF ReportHost
  <2>5. Continue(slot, next, e(row))
    BY <2>3, <2>4
  <2> HIDE DEF row, next
  <2> QED
    BY <1>3, <2>2, <2>5
<1> QED
  BY <1>4, <1>5, <1>6

\* An interface row is written; no other row changes.
LEMMA IfaceWritten ==
    ASSUME NEW d, DbOK(d), NEW i \in IfaceIds, NEW row \in IfaceRow, row.host \in Rows(d.host)
    PROVE  LET e == [d EXCEPT !.iface[i] = row]
           IN  /\ DbOK(e)
               /\ e.host = d.host /\ e.port = d.port /\ e.svc = d.svc /\ e.bind = d.bind
               /\ e.iface[i] = row /\ Rows(e.iface) = Rows(d.iface) \cup {i}
               /\ \A x \in Rows(d.iface) \ {i} : e.iface[x] = d.iface[x]
<1> DEFINE e == [d EXCEPT !.iface[i] = row]
<1>1. /\ e.host = d.host /\ e.port = d.port /\ e.svc = d.svc /\ e.bind = d.bind
      /\ e.group = d.group /\ e.daemon = d.daemon /\ e.iface = [d.iface EXCEPT ![i] = row]
  BY DEF DbOK, DbType
<1>2. e \in DbType
  BY DEF DbOK, DbType, Opt
<1>3. row # NoRow
  BY IdsAssumption
<1>4. /\ Rows(e.iface) = Rows(d.iface) \cup {i} /\ e.iface[i] = row
      /\ \A x \in Rows(d.iface) \ {i} : e.iface[x] = d.iface[x]
  BY <1>1, <1>3 DEF Rows, DbOK, DbType
<1> HIDE DEF e
<1>5. RefsOK(e)
  BY <1>1, <1>4 DEF DbOK, RefsOK
<1> QED
  BY <1>1, <1>2, <1>4, <1>5 DEF DbOK, e

\* A port row is written; no other row changes.
LEMMA PortWritten ==
    ASSUME NEW d, DbOK(d), NEW p \in PortIds, NEW row \in PortRow, row.host \in Rows(d.host)
    PROVE  LET e == [d EXCEPT !.port[p] = row]
           IN  /\ DbOK(e)
               /\ e.host = d.host /\ e.iface = d.iface /\ e.svc = d.svc /\ e.bind = d.bind
               /\ e.port[p] = row /\ Rows(e.port) = Rows(d.port) \cup {p}
               /\ \A x \in Rows(d.port) \ {p} : e.port[x] = d.port[x]
<1> DEFINE e == [d EXCEPT !.port[p] = row]
<1>1. /\ e.host = d.host /\ e.iface = d.iface /\ e.svc = d.svc /\ e.bind = d.bind
      /\ e.group = d.group /\ e.daemon = d.daemon /\ e.port = [d.port EXCEPT ![p] = row]
  BY DEF DbOK, DbType
<1>2. e \in DbType
  BY DEF DbOK, DbType, Opt
<1>3. row # NoRow
  BY IdsAssumption
<1>4. /\ Rows(e.port) = Rows(d.port) \cup {p} /\ e.port[p] = row
      /\ \A x \in Rows(d.port) \ {p} : e.port[x] = d.port[x]
  BY <1>1, <1>3 DEF Rows, DbOK, DbType
<1> HIDE DEF e
<1>5. RefsOK(e)
  BY <1>1, <1>4 DEF DbOK, RefsOK
<1> QED
  BY <1>1, <1>2, <1>4, <1>5 DEF DbOK, e

\* A step that adds rows of interfaces or ports.
LEMMA AddingStep ==
    ASSUME NEW d, NEW L, Sound(d, L), NEW e, DbOK(e), e.svc = d.svc, e.bind = d.bind,
           \A x \in Rows(d.iface) : e.iface[x] = d.iface[x],
           \A x \in Rows(d.port) : e.port[x] = d.port[x]
    PROVE  StepOK(d, L, e, L \cap Rows(e.svc))
<1>1. L = L \cap Rows(e.svc) /\ L \subseteq Rows(d.svc)
  BY DEF Sound
<1>2. \A b \in Rows(d.bind) : /\ d.bind[b].port # NoPort => d.bind[b].port \in Rows(d.port)
                              /\ d.bind[b].iface # AllIfaces => d.bind[b].iface \in Rows(d.iface)
  BY DEF Sound, DbOK, RefsOK
<1>3. StepOK(d, L, e, L)
  BY <1>1, <1>2, OtherTablesStep
<1> QED
  BY <1>1, <1>3

\* A report in which an interface was found or made goes on.
LEMMA FoundIface ==
    ASSUME NEW c, NEW d, NEW e, c \in ChildrenCalls(d), OrphansOK(c, d), NEW x \in FoundIfaces(e),
           e.host = d.host, e.svc = d.svc, e.bind = d.bind,
           Rows(d.iface) \subseteq Rows(e.iface), Rows(d.port) \subseteq Rows(e.port)
    PROVE  CallOK([c EXCEPT !.ifaces = Append(@, x)], e)
<1> DEFINE n == [c EXCEPT !.ifaces = Append(@, x)]
<1>1. c.ifaces \in Seq(FoundIfaces(e)) /\ c.ports \in Seq(FoundPorts(e))
  <2>1. FoundIfaces(d) \subseteq FoundIfaces(e) /\ FoundPorts(d) \subseteq FoundPorts(e)
    BY DEF FoundIfaces, FoundPorts
  <2>2. c.ifaces \in Seq(FoundIfaces(d)) /\ c.ports \in Seq(FoundPorts(d))
    BY DEF ChildrenCalls
  <2> QED
    BY <2>1, <2>2
<1>2. n \in ChildrenCalls(e)
  <2>1. Append(c.ifaces, x) \in Seq(FoundIfaces(e))
    BY <1>1
  <2>2. c.host \in Rows(e.host)
    BY DEF ChildrenCalls
  <2> QED
    BY <1>1, <2>1, <2>2 DEF ChildrenCalls
<1>3. /\ n.ports = c.ports /\ n.claimed = c.claimed /\ n.orphans = c.orphans /\ n.held = c.held /\ n.host = c.host
      /\ n.ifaces = Append(c.ifaces, x)
  BY DEF ChildrenCalls
<1> HIDE DEF n
<1>4. ToSet(c.ifaces) \subseteq ToSet(n.ifaces)
  <2>1. \A k \in DOMAIN c.ifaces : k \in DOMAIN n.ifaces /\ n.ifaces[k] = c.ifaces[k]
    BY <1>1, <1>3
  <2> QED
    BY <2>1 DEF ToSet
<1>5. From(n, ToSet(n.orphans))
  BY <1>3, <1>4 DEF OrphansOK, From
<1>6. Twice(n) <=> Twice(c)
  BY <1>3 DEF Twice
<1>7. /\ ServicesOf(e, n.host) = ServicesOf(d, c.host)
      /\ \A s : BindingsOf(e, s) = BindingsOf(d, s)
  BY <1>3, SameRowsSameBindings DEF ServicesOf
<1>8. OrphansOK(n, e)
  BY <1>3, <1>5, <1>6, <1>7 DEF OrphansOK
<1> QED
  BY <1>2, <1>8 DEF CallOK, n

\* The same for a port.
LEMMA FoundPort ==
    ASSUME NEW c, NEW d, NEW e, c \in ChildrenCalls(d), OrphansOK(c, d), NEW x \in FoundPorts(e),
           e.host = d.host, e.svc = d.svc, e.bind = d.bind,
           Rows(d.iface) \subseteq Rows(e.iface), Rows(d.port) \subseteq Rows(e.port)
    PROVE  CallOK([c EXCEPT !.ports = Append(@, x)], e)
<1> DEFINE n == [c EXCEPT !.ports = Append(@, x)]
<1>1. c.ifaces \in Seq(FoundIfaces(e)) /\ c.ports \in Seq(FoundPorts(e))
  <2>1. FoundIfaces(d) \subseteq FoundIfaces(e) /\ FoundPorts(d) \subseteq FoundPorts(e)
    BY DEF FoundIfaces, FoundPorts
  <2>2. c.ifaces \in Seq(FoundIfaces(d)) /\ c.ports \in Seq(FoundPorts(d))
    BY DEF ChildrenCalls
  <2> QED
    BY <2>1, <2>2
<1>2. n \in ChildrenCalls(e)
  <2>1. Append(c.ports, x) \in Seq(FoundPorts(e))
    BY <1>1
  <2>2. c.host \in Rows(e.host)
    BY DEF ChildrenCalls
  <2> QED
    BY <1>1, <2>1, <2>2 DEF ChildrenCalls
<1>3. /\ n.ifaces = c.ifaces /\ n.claimed = c.claimed /\ n.orphans = c.orphans /\ n.held = c.held /\ n.host = c.host
      /\ n.ports = Append(c.ports, x)
  BY DEF ChildrenCalls
<1> HIDE DEF n
<1>4. ToSet(c.ports) \subseteq ToSet(n.ports)
  <2>1. \A k \in DOMAIN c.ports : k \in DOMAIN n.ports /\ n.ports[k] = c.ports[k]
    BY <1>1, <1>3
  <2> QED
    BY <2>1 DEF ToSet
<1>5. From(n, ToSet(n.orphans))
  BY <1>3, <1>4 DEF OrphansOK, From
<1>6. Twice(n) <=> Twice(c)
  BY <1>3 DEF Twice
<1>7. /\ ServicesOf(e, n.host) = ServicesOf(d, c.host)
      /\ \A s : BindingsOf(e, s) = BindingsOf(d, s)
  BY <1>3, SameRowsSameBindings DEF ServicesOf
<1>8. OrphansOK(n, e)
  BY <1>3, <1>5, <1>6, <1>7 DEF OrphansOK
<1> QED
  BY <1>2, <1>8 DEF CallOK, n

\* An interface of the report is found or stored, or it ends the report.
LEMMA ReportIfaceKeeps ==
    ASSUME InvInv, NEW slot \in Slots, ReportIface(slot)
    PROVE  Keeps
<1> DEFINE c == call[slot]
           i == c.report.ifaces[Len(c.ifaces) + 1]
           byKey == {x \in IfacesOf(db, c.host) : db.iface[x].ip = i.ip}
           Got(x) == [c EXCEPT !.ifaces = Append(@, x)]
           row == [host |-> c.host, ip |-> i.ip, mac |-> i.mac]
           e == [db EXCEPT !.iface[i.id] = row]
<1>1. c.pc = "children" /\ Len(c.ifaces) < Len(c.report.ifaces)
  BY DEF ReportIface
<1>2. c \in ChildrenCalls(db) /\ OrphansOK(c, db) /\ DbOK(db) /\ db \in DbType
  BY <1>1, CallTypes, PcTells
<1>3. i \in IfaceData /\ c.host \in Rows(db.host)
  <2>1. c.report.ifaces \in Seq(IfaceData) /\ Len(c.ifaces) \in Nat
    BY <1>2, ReportsAssumption DEF ChildrenCalls
  <2>2. c.host \in Rows(db.host)
    BY <1>2 DEF ChildrenCalls
  <2> QED
    BY <1>1, <2>1, <2>2
<1> HIDE DEF i
<1>4. \/ \E x \in Rows(db.iface) : Continue(slot, Got(IfaceRec(db, x)), db)
      \/ Continue(slot, Idle, db)
      \/ db.iface[i.id] = NoRow /\ Continue(slot, Got(i), e)
  <2>1. i.id \in IfaceIds
    BY <1>3 DEF IfaceData
  <2>2. db.iface[i.id] # NoRow => i.id \in Rows(db.iface)
    BY <1>2, <2>1, RowTypes
  <2>3. byKey \subseteq Rows(db.iface)
    BY DEF IfacesOf
  <2> QED
    BY <2>2, <2>3 DEF ReportIface, i
<1>5. ASSUME NEW x \in Rows(db.iface), Continue(slot, Got(IfaceRec(db, x)), db)
      PROVE  Keeps
  <2>1. IfaceRec(db, x) \in FoundIfaces(db)
    BY <1>2, RowTypes DEF IfaceRec, FoundIfaces, IfaceRow
  <2>2. CallOK(Got(IfaceRec(db, x)), db)
    BY <1>2, <2>1, FoundIface
  <2> QED
    BY <1>5, <2>2, ContinueSame
<1>6. ASSUME db.iface[i.id] = NoRow, Continue(slot, Got(i), e)
      PROVE  Keeps
  <2>1. row \in IfaceRow /\ row.host \in Rows(db.host) /\ i.id \in IfaceIds
    BY <1>2, <1>3, RowTypes DEF IfaceRow, IfaceData
  <2>2. /\ DbOK(e) /\ e.host = db.host /\ e.port = db.port /\ e.svc = db.svc /\ e.bind = db.bind
        /\ Rows(e.iface) = Rows(db.iface) \cup {i.id}
        /\ \A x \in Rows(db.iface) \ {i.id} : e.iface[x] = db.iface[x]
    <3> HIDE DEF row
    <3> QED
      BY <1>2, <2>1, IfaceWritten
  <2> HIDE DEF e
  <2>3. i \in FoundIfaces(e)
    BY <1>3, <2>2 DEF FoundIfaces, IfaceData
  <2>4. CallOK(Got(i), e)
    BY <1>2, <2>2, <2>3, FoundIface
  <2>5. \A x \in Rows(db.iface) : e.iface[x] = db.iface[x]
    BY <1>6, <2>2 DEF Rows
  <2>6. StepOK(db, loose, e, loose \cap Rows(e.svc))
    BY <2>2, <2>5, AddingStep DEF InvInv
  <2> QED
    BY <1>6, <2>4, <2>6, ContinueStep
<1> QED
  BY <1>4, <1>5, <1>6, EndStep

\* A port of the report is found or stored.
LEMMA ReportPortKeeps ==
    ASSUME InvInv, NEW slot \in Slots, ReportPort(slot)
    PROVE  Keeps
<1> DEFINE c == call[slot]
           p == c.report.ports[Len(c.ports) + 1]
           byKey == {x \in PortsOf(db, c.host) : db.port[x].num = p.num}
           Got(x, num) == [c EXCEPT !.ports = Append(@, [id |-> x, num |-> num])]
           row == [host |-> c.host, num |-> p.num]
           e == [db EXCEPT !.port[p.id] = row]
<1>1. c.pc = "children" /\ Len(c.ports) < Len(c.report.ports)
  BY DEF ReportPort
<1>2. c \in ChildrenCalls(db) /\ OrphansOK(c, db) /\ DbOK(db) /\ db \in DbType
  BY <1>1, CallTypes, PcTells
<1>3. p \in PortData /\ c.host \in Rows(db.host)
  <2>1. c.report.ports \in Seq(PortData) /\ Len(c.ports) \in Nat
    BY <1>2, ReportsAssumption DEF ChildrenCalls
  <2>2. c.host \in Rows(db.host)
    BY <1>2 DEF ChildrenCalls
  <2> QED
    BY <1>1, <2>1, <2>2
<1> HIDE DEF p
<1>4. p.id \in PortIds /\ p.num \in Numbers
  BY <1>3 DEF PortData
<1>5. \/ \E x \in Rows(db.port), n \in Numbers : Continue(slot, Got(x, n), db)
      \/ Continue(slot, Idle, db)
      \/ db.port[p.id] = NoRow /\ Continue(slot, Got(p.id, p.num), e)
  <2>1. db.port[p.id] # NoRow => p.id \in Rows(db.port) /\ db.port[p.id].num \in Numbers
    BY <1>2, <1>4, RowTypes DEF PortRow
  <2>2. byKey \subseteq Rows(db.port)
    BY DEF PortsOf
  <2> QED
    BY <1>4, <2>1, <2>2 DEF ReportPort, p
<1>6. ASSUME NEW x \in Rows(db.port), NEW n \in Numbers, Continue(slot, Got(x, n), db)
      PROVE  Keeps
  <2> DEFINE f == [id |-> x, num |-> n]
  <2>1. f \in FoundPorts(db)
    BY DEF FoundPorts
  <2> HIDE DEF f
  <2>2. CallOK([c EXCEPT !.ports = Append(@, f)], db)
    BY <1>2, <2>1, FoundPort
  <2> QED
    BY <1>6, <2>2, ContinueSame DEF f
<1>7. ASSUME db.port[p.id] = NoRow, Continue(slot, Got(p.id, p.num), e)
      PROVE  Keeps
  <2>1. row \in PortRow /\ row.host \in Rows(db.host)
    BY <1>2, <1>3, <1>4, RowTypes DEF PortRow
  <2>2. /\ DbOK(e) /\ e.host = db.host /\ e.iface = db.iface /\ e.svc = db.svc /\ e.bind = db.bind
        /\ Rows(e.port) = Rows(db.port) \cup {p.id}
        /\ \A x \in Rows(db.port) \ {p.id} : e.port[x] = db.port[x]
    <3> HIDE DEF row
    <3> QED
      BY <1>2, <1>4, <2>1, PortWritten
  <2> HIDE DEF e
  <2> DEFINE f == [id |-> p.id, num |-> p.num]
  <2>3. f \in FoundPorts(e)
    BY <1>4, <2>2 DEF FoundPorts
  <2> HIDE DEF f
  <2>4. CallOK([c EXCEPT !.ports = Append(@, f)], e)
    BY <1>2, <2>2, <2>3, FoundPort
  <2>5. \A x \in Rows(db.port) : e.port[x] = db.port[x]
    BY <1>7, <2>2 DEF Rows
  <2>6. StepOK(db, loose, e, loose \cap Rows(e.svc))
    BY <2>2, <2>5, AddingStep DEF InvInv
  <2>7. CallOK(Got(p.id, p.num), e)
    BY <2>4 DEF f
  <2> QED
    BY <1>7, <2>6, <2>7, ContinueStep
<1> QED
  BY <1>5, <1>6, <1>7, EndStep

\* A set of positions has a least one.
LEMMA MinOfPositions ==
    ASSUME NEW I \in SUBSET Nat, I # {}
    PROVE  Min(I) \in I
<1>1. PICK x \in I : \A y \in I : ~(<<y, x>> \in OpToRel(<, Nat))
  BY NatLessThanWellFounded, WFMin
<1>2. ASSUME NEW y \in I PROVE x <= y
  <2>1. x \in Nat /\ y \in Nat
    OBVIOUS
  <2>2. y < x => <<y, x>> \in OpToRel(<, Nat)
    BY <2>1 DEF OpToRel
  <2>3. ~(<<y, x>> \in OpToRel(<, Nat))
    BY <1>1
  <2>4. ~(y < x)
    BY <2>2, <2>3, Zenon
  <2> QED
    BY <2>1, <2>4
<1> QED
  BY <1>1, <1>2 DEF Min

\* reassign_service_interface_bindings makes bindings for interfaces and
\* ports that were found.
LEMMA ReassignFinds ==
    ASSUME NEW c, NEW d, c \in ChildrenCalls(d), d \in DbType, NEW bs \in Seq(Bindings)
    PROVE  Reassign(c, bs) \in Seq(Bindings) /\ From(c, ToSet(Reassign(c, bs)))
<1> DEFINE Iface(b) ==
            LET old == First({k \in DOMAIN c.report.ifaces : c.report.ifaces[k].id = b.iface})
                new == First({k \in DOMAIN c.ifaces : SameIface(c.ifaces[k], c.report.ifaces[old])})
            IN  IF b.iface = AllIfaces \/ old = 0 THEN AllIfaces
                ELSE IF new = 0 THEN AllIfaces ELSE c.ifaces[new].id
           Port(b) ==
            LET old == First({k \in DOMAIN c.report.ports : c.report.ports[k].id = b.port})
                new == First({k \in DOMAIN c.ports : c.ports[k].num = c.report.ports[old].num})
            IN  IF old = 0 \/ new = 0 THEN NoPort ELSE c.ports[new].id
           Found(b) == IF b.port = NoPort THEN Iface(b) # AllIfaces ELSE Port(b) # NoPort
           Mapped(b) == [id |-> b.id, port |-> IF b.port = NoPort THEN NoPort ELSE Port(b), iface |-> Iface(b)]
           m == [k \in DOMAIN bs |-> Mapped(bs[k])]
           I == {k \in DOMAIN bs : Found(bs[k])}
           OK(x) == /\ x.port = NoPort \/ \E p \in ToSet(c.ports) : x.port = p.id
                    /\ x.iface = AllIfaces \/ \E i \in ToSet(c.ifaces) : x.iface = i.id
           Good == {x \in Bindings : OK(x)}
<1>1. Reassign(c, bs) = Select(m, I)
  BY DEF Reassign
<1>2. /\ DOMAIN c.ifaces \subseteq Nat \ {0} /\ DOMAIN c.ports \subseteq Nat \ {0}
      /\ \A k \in DOMAIN c.ifaces : c.ifaces[k] \in ToSet(c.ifaces) /\ c.ifaces[k].id \in IfaceIds
      /\ \A k \in DOMAIN c.ports : c.ports[k] \in ToSet(c.ports) /\ c.ports[k].id \in PortIds
  <2>1. c.ifaces \in Seq(FoundIfaces(d)) /\ c.ports \in Seq(FoundPorts(d))
    BY DEF ChildrenCalls
  <2>2. \A x \in FoundIfaces(d) : x.id \in IfaceIds
    BY RowTypes DEF FoundIfaces
  <2>3. \A x \in FoundPorts(d) : x.id \in PortIds
    BY RowTypes DEF FoundPorts
  <2> QED
    BY <2>1, <2>2, <2>3 DEF ToSet
<1>3. ASSUME NEW J \in SUBSET Nat, First(J) # 0
      PROVE  First(J) \in J
  BY <1>3, MinOfPositions DEF First
<1>4. ASSUME NEW b
      PROVE  Iface(b) = AllIfaces \/ \E k \in DOMAIN c.ifaces : Iface(b) = c.ifaces[k].id
  <2> DEFINE o == First({k \in DOMAIN c.report.ifaces : c.report.ifaces[k].id = b.iface})
             J == {k \in DOMAIN c.ifaces : SameIface(c.ifaces[k], c.report.ifaces[o])}
  <2>1. Iface(b) = IF b.iface = AllIfaces \/ o = 0 THEN AllIfaces
                   ELSE IF First(J) = 0 THEN AllIfaces ELSE c.ifaces[First(J)].id
    OBVIOUS
  <2>2. J \subseteq DOMAIN c.ifaces
    OBVIOUS
  <2> HIDE DEF o, J, Iface
  <2>3. First(J) # 0 => First(J) \in DOMAIN c.ifaces
    BY <1>2, <1>3, <2>2
  <2> QED
    BY <2>1, <2>3
<1>5. ASSUME NEW b
      PROVE  Port(b) = NoPort \/ \E k \in DOMAIN c.ports : Port(b) = c.ports[k].id
  <2> DEFINE o == First({k \in DOMAIN c.report.ports : c.report.ports[k].id = b.port})
             J == {k \in DOMAIN c.ports : c.ports[k].num = c.report.ports[o].num}
  <2>1. Port(b) = IF o = 0 \/ First(J) = 0 THEN NoPort ELSE c.ports[First(J)].id
    OBVIOUS
  <2>2. J \subseteq DOMAIN c.ports
    OBVIOUS
  <2> HIDE DEF o, J, Port
  <2>3. First(J) # 0 => First(J) \in DOMAIN c.ports
    BY <1>2, <1>3, <2>2
  <2> QED
    BY <2>1, <2>3
<1> HIDE DEF Iface, Port, Found
<1>6. ASSUME NEW b \in Bindings
      PROVE  Mapped(b) \in Good
  <2>1. Port(b) \in PortIds \cup {NoPort} /\ Iface(b) \in IfaceIds \cup {AllIfaces}
    BY <1>2, <1>4, <1>5
  <2>2. Mapped(b) \in Bindings
    BY <2>1 DEF Bindings
  <2>3. Port(b) = NoPort \/ \E p \in ToSet(c.ports) : Port(b) = p.id
    BY <1>2, <1>5
  <2>4. Iface(b) = AllIfaces \/ \E i \in ToSet(c.ifaces) : Iface(b) = i.id
    BY <1>2, <1>4
  <2> QED
    BY <2>2, <2>3, <2>4
<1>7. m \in Seq(Good)
  <2> HIDE DEF Mapped, Good
  <2>1. \A k \in DOMAIN bs : bs[k] \in Bindings
    OBVIOUS
  <2>2. DOMAIN bs = 1..Len(bs) /\ Len(bs) \in Nat
    OBVIOUS
  <2>3. m \in [1..Len(bs) -> Good]
    BY <1>6, <2>1, <2>2
  <2> QED
    BY <2>2, <2>3
<1> HIDE DEF m, I, Good
<1>8. Select(m, I) \in Seq(Good)
  BY <1>7, SelectRange
<1>9. Good \subseteq Bindings /\ \A x \in Good : OK(x)
  BY DEF Good
<1> HIDE DEF OK
<1>10. Select(m, I) \in Seq(Bindings) /\ ToSet(Select(m, I)) \subseteq Good
  BY <1>8, <1>9 DEF ToSet
<1>11. From(c, ToSet(Select(m, I)))
  BY <1>9, <1>10 DEF From, OK
<1> QED
  BY <1>1, <1>10, <1>11

\* A report whose service was created or upserted goes on with the next one.
LEMMA ReportGoesOn ==
    ASSUME NEW c, NEW d, c \in ChildrenCalls(d), OrphansOK(c, d), DbOK(d),
           NEW e, NEW x \in ServiceIds, OnlyOf(x, d, e), NEW bs \in Seq(Bindings),
           x \in Rows(d.svc) => d.svc[x].host = c.host,
           BindingsOf(e, x) \subseteq BindingsOf(d, x) \cup ToSet(bs)
    PROVE  CallOK([c EXCEPT !.done = @ + 1, !.claimed = @ \cup {b \in ToSet(bs) : b.port # NoPort}], e)
<1> DEFINE B == {b \in ToSet(bs) : b.port # NoPort}
           n == [c EXCEPT !.done = @ + 1, !.claimed = @ \cup B]
<1>1. e.host = d.host /\ e.iface = d.iface /\ e.port = d.port /\ DbOK(e) /\ d \in DbType /\ e \in DbType
  BY DEF OnlyOf, DbOK
<1>2. B \in SUBSET Bindings
  BY DEF ToSet
<1> HIDE DEF B
<1>3. n \in ChildrenCalls(e)
  <2>1. FoundIfaces(e) = FoundIfaces(d) /\ FoundPorts(e) = FoundPorts(d)
    BY <1>1 DEF FoundIfaces, FoundPorts
  <2>2. c.claimed \cup B \in SUBSET Bindings /\ c.done + 1 \in Nat
    BY <1>2 DEF ChildrenCalls
  <2> QED
    BY <1>1, <2>1, <2>2 DEF ChildrenCalls
<1>4. /\ n.ports = c.ports /\ n.ifaces = c.ifaces /\ n.claimed = c.claimed \cup B
      /\ n.orphans = c.orphans /\ n.held = c.held /\ n.host = c.host
  BY DEF ChildrenCalls
<1> HIDE DEF n
<1>5. From(n, ToSet(n.orphans))
  BY <1>4 DEF OrphansOK, From
<1>6. ASSUME ~Twice(n), NEW s \in ServicesOf(e, n.host), NEW a \in BindingsOf(e, s), NEW b \in ToSet(n.orphans)
      PROVE  ~Overlaps(a, b)
  <2>1. ~Twice(c) /\ \A z \in B : ~Overlaps(z, b)
    BY <1>4, <1>6 DEF Twice
  <2>2. \A t \in ServicesOf(d, c.host) : \A z \in BindingsOf(d, t) : ~Overlaps(z, b)
    BY <1>4, <2>1 DEF OrphansOK
  <2>3. CASE s # x
    <3>1. s \in ServiceIds \ {x}
      BY <1>1, <2>3, RowTypes DEF ServicesOf
    <3>2. s \in ServicesOf(d, c.host) /\ BindingsOf(e, s) = BindingsOf(d, s)
      BY <1>1, <1>4, <3>1, OnlyOfOthersSame DEF OnlyOf, ServicesOf
    <3> QED
      BY <2>2, <3>2
  <2>4. CASE s = x
    <3>1. a \in BindingsOf(d, x) \/ a \in ToSet(bs)
      BY <2>4
    <3>2. CASE a \in BindingsOf(d, x)
      <4>1. x \in ServicesOf(d, c.host)
        BY <3>2, NoServiceNoBindings DEF ServicesOf
      <4> QED
        BY <2>2, <3>2, <4>1
    <3>3. CASE a \in ToSet(bs)
      BY <2>1, <3>3 DEF B, Overlaps
    <3> QED
      BY <3>1, <3>2, <3>3
  <2> QED
    BY <2>3, <2>4
<1>7. OrphansOK(n, e)
  BY <1>5, <1>6 DEF OrphansOK
<1> QED
  BY <1>3, <1>7 DEF CallOK, n, B

\* A service that is in conflict with another is dropped; what is left of its
\* bindings are orphans.
LEMMA DroppedGoesOn ==
    ASSUME NEW c, NEW d, c \in ChildrenCalls(d), OrphansOK(c, d), NEW s, NEW bs \in Seq(Bindings),
           From(c, ToSet(bs))
    PROVE  CallOK([c EXCEPT !.done = @ + 1,
                            !.orphans = @ \o Select(bs, {k \in DOMAIN bs : bs[k] \notin Conflicting(c, d, s, bs)}),
                            !.held = @ \/ s \in ServicesOf(d, c.host)], d)
<1> DEFINE bad == Conflicting(c, d, s, bs)
           I == {k \in DOMAIN bs : bs[k] \notin bad}
           good == Select(bs, I)
           again == s \in ServicesOf(d, c.host)
           n == [c EXCEPT !.done = @ + 1, !.orphans = @ \o good, !.held = @ \/ again]
<1>1. good \in Seq(Bindings) /\ \A x \in ToSet(good) : \E i \in DOMAIN bs : i \in I /\ x = bs[i]
  <2> HIDE DEF I
  <2> QED
    BY SelectRange
<1>2. ToSet(good) \subseteq ToSet(bs) \ bad
  BY <1>1 DEF ToSet
<1> HIDE DEF good, I
<1>3. n \in ChildrenCalls(d)
  <2>1. c.orphans \o good \in Seq(Bindings) /\ c.done + 1 \in Nat /\ (c.held \/ again) \in BOOLEAN
    BY <1>1 DEF ChildrenCalls
  <2> QED
    BY <2>1 DEF ChildrenCalls
<1>4. /\ n.ports = c.ports /\ n.ifaces = c.ifaces /\ n.claimed = c.claimed
      /\ n.orphans = c.orphans \o good /\ n.held = (c.held \/ again) /\ n.host = c.host
  BY DEF ChildrenCalls
<1> HIDE DEF n, again
<1>5. ToSet(n.orphans) = ToSet(c.orphans) \cup ToSet(good)
  <2>1. c.orphans \in Seq(Bindings)
    BY DEF ChildrenCalls
  <2> DEFINE o == c.orphans
  <2>2. /\ \A k \in DOMAIN (o \o good) : \/ k \in DOMAIN o /\ (o \o good)[k] = o[k]
                                         \/ k - Len(o) \in DOMAIN good /\ (o \o good)[k] = good[k - Len(o)]
        /\ \A k \in DOMAIN o : k \in DOMAIN (o \o good) /\ (o \o good)[k] = o[k]
        /\ \A k \in DOMAIN good : k + Len(o) \in DOMAIN (o \o good) /\ (o \o good)[k + Len(o)] = good[k]
    BY SMTT(30), <1>1, <2>1
  <2> QED
    BY <1>4, <2>2 DEF ToSet
<1>6. From(n, ToSet(n.orphans))
  BY <1>2, <1>4, <1>5 DEF OrphansOK, From
<1>7. ASSUME ~Twice(n), NEW t \in ServicesOf(d, n.host), NEW a \in BindingsOf(d, t), NEW b \in ToSet(n.orphans)
      PROVE  ~Overlaps(a, b)
  <2>1. ~c.held /\ ~again /\ ~Twice(c)
    BY <1>4, <1>5, <1>7 DEF Twice
  <2>2. CASE b \in ToSet(c.orphans)
    BY <1>4, <2>1, <2>2 DEF OrphansOK
  <2>3. CASE b \in ToSet(good)
    <3>1. b \in ToSet(bs) /\ b \notin bad
      BY <1>2, <2>3
    <3>2. t \in ServicesOf(d, c.host) \ {s}
      BY <1>4, <2>1 DEF again
    <3>3. a \in ClaimedByOthers(d, c.host, s)
      BY <3>2 DEF ClaimedByOthers
    <3> QED
      BY <3>1, <3>3 DEF Conflicting
  <2> QED
    BY <1>5, <2>2, <2>3
<1>8. OrphansOK(n, d)
  BY <1>6, <1>7 DEF OrphansOK
<1> QED
  BY <1>3, <1>8 DEF CallOK, n, good, I, again

\* A service that is created assigns its claims, if they are free.
LEMMA CreatedStep ==
    ASSUME NEW d, NEW L, Sound(d, L), NEW s \in ServiceIds, NEW row \in SvcRow,
           NEW bindings \in Seq(Bindings), NEW twin, ~Upserts(d, s, row, twin),
           row.src = "discovery" => FreeOn(d, row.host, s, ToSet(bindings))
    PROVE  LET e == CreateService(d, s, row, bindings, twin).db
           IN  StepOK(d, L, e, L \cap Rows(e.svc))
<1> DEFINE r == CreateService(d, s, row, bindings, twin)
           e == r.db
<1>1. DbOK(d) /\ d \in DbType /\ L \subseteq Rows(d.svc)
  BY DEF Sound, DbOK
<1>2. \/ e = d /\ ~r.ok
      \/ /\ d.svc[s] = NoRow /\ row.host \in Rows(d.host)
         /\ OnlyOf(s, d, e) /\ s \in Rows(e.svc) /\ e.svc[s] = row
         /\ BindingsOf(e, s) \subseteq ToSet(bindings)
         /\ Agreeing(BindingsOf(e, s))
         /\ BelongToHost(e, row.host, BindingsOf(e, s))
         /\ row.src # "discovery" => FreeOn(e, row.host, s, BindingsOf(e, s))
  BY <1>1, CreateServiceChecks
<1> HIDE DEF r
<1>3. CASE e = d
  BY <1>3, NoStep DEF r
<1>4. CASE e # d
  <2>1. s \notin L
    BY <1>1, <1>2, <1>4 DEF Rows
  <2>2. L \cap Rows(e.svc) = L \ {s}
    <3>1. \A t \in L : t \in ServiceIds \ {s} /\ t \in Rows(d.svc)
      BY <1>1, <2>1, RowTypes
    <3>2. \A t \in L : t \in Rows(e.svc)
      BY <1>1, <1>2, <1>4, <3>1, OnlyOfOthersSame
    <3> QED
      BY <2>1, <3>2
  <2>3. FreeOn(e, row.host, s, BindingsOf(e, s))
    <3>1. CASE row.src # "discovery"
      BY <1>2, <1>4, <3>1
    <3>2. CASE row.src = "discovery"
      <4>1. FreeOn(d, row.host, s, BindingsOf(e, s))
        BY <1>2, <1>4, <3>2 DEF FreeOn
      <4> QED
        BY <1>1, <1>2, <1>4, <4>1, OnlyOfOthersSame
    <3> QED
      BY <3>1, <3>2
  <2>4. InOrder(s, e)
    BY <1>2, <1>4, <2>3 DEF InOrder
  <2>5. StepOK(d, L, e, L \cap Rows(e.svc))
    BY <1>2, <1>4, <2>1, <2>2, <2>4, AssignStep
  <2> QED
    BY <2>1, <2>5 DEF r
<1> QED
  BY <1>3, <1>4

\* A service that is merged into its twin: the twin becomes loose, or what was
\* reported is of the host and free.
LEMMA UpsertedStep ==
    ASSUME NEW d, NEW L, Sound(d, L), Exclusive(d, L), NEW s \in ServiceIds, NEW row \in SvcRow,
           NEW bindings \in Seq(Bindings), Named(d, ToSet(bindings)),
           NEW twin \in Twins(d, s, row, bindings), Upserts(d, s, row, twin)
    PROVE  LET e == CreateService(d, s, row, bindings, twin).db
           IN  /\ StepOK(d, L, e, (L \cup {twin}) \cap Rows(e.svc))
               /\ BelongToHost(d, row.host, ToSet(bindings)) /\ FreeOn(d, row.host, twin, ToSet(bindings)) =>
                     StepOK(d, L, e, L \cap Rows(e.svc))
<1> DEFINE r == CreateService(d, s, row, bindings, twin)
           e == r.db
<1>1. DbOK(d) /\ d \in DbType /\ L \subseteq Rows(d.svc)
  BY DEF Sound, DbOK
<1>2. /\ twin \in ServicesOf(d, row.host)
      /\ OnlyOf(twin, d, e) /\ twin \in Rows(e.svc) /\ e.svc[twin].host = row.host
      /\ BindingsOf(e, twin) \subseteq BindingsOf(d, twin) \cup ToSet(bindings)
      /\ Agreeing(BindingsOf(d, twin)) => Agreeing(BindingsOf(e, twin))
  BY <1>1, UpsertMerges
<1> HIDE DEF r
<1>3. twin \in ServiceIds /\ twin \in Rows(d.svc) /\ d.svc[twin].host = row.host
  BY <1>1, <1>2, RowTypes DEF ServicesOf
<1>4. StepOK(d, L, e, (L \cup {twin}) \cap Rows(e.svc))
  BY <1>2, <1>3, LooseStep
<1>5. ASSUME BelongToHost(d, row.host, ToSet(bindings)), FreeOn(d, row.host, twin, ToSet(bindings))
      PROVE  StepOK(d, L, e, L \cap Rows(e.svc))
  <2>1. CASE twin \in L
    <3>1. L \cup {twin} = L
      BY <2>1
    <3> QED
      BY <1>4, <3>1
  <2>2. CASE twin \notin L
    <3>1. Agreeing(BindingsOf(d, twin)) /\ BelongToHost(d, row.host, BindingsOf(d, twin))
      BY <1>3, <2>2 DEF Sound
    <3>2. BelongToHost(e, e.svc[twin].host, BindingsOf(e, twin))
      <4>1. BelongToHost(d, row.host, BindingsOf(e, twin))
        BY <1>2, <1>5, <3>1 DEF BelongToHost
      <4> QED
        BY <1>1, <1>2, <1>3, <4>1, OnlyOfOthersSame
    <3>3. ASSUME NEW t \in Rows(e.svc) \ (L \cup {twin}), e.svc[t].host = e.svc[twin].host,
                 NEW a \in BindingsOf(e, t), NEW b \in BindingsOf(e, twin)
          PROVE  ~Overlaps(a, b)
      <4>1. t \in ServiceIds \ {twin}
        BY <1>2, RowTypes DEF OnlyOf, DbOK
      <4>2. t \in Rows(d.svc) /\ d.svc[t].host = row.host /\ a \in BindingsOf(d, t)
        BY <1>1, <1>2, <1>3, <3>3, <4>1, OnlyOfOthersSame DEF OnlyOf
      <4>3. CASE b \in BindingsOf(d, twin)
        BY <1>3, <2>2, <4>2, <4>3 DEF Exclusive
      <4>4. CASE b \in ToSet(bindings)
        BY <1>5, <4>2, <4>4 DEF FreeOn
      <4> QED
        BY <1>2, <4>3, <4>4
    <3>4. L \cap Rows(e.svc) = L \ {twin}
      <4>1. \A t \in L : t \in ServiceIds \ {twin} /\ t \in Rows(d.svc)
        BY <1>1, <2>2, RowTypes
      <4>2. \A t \in L : t \in Rows(e.svc)
        BY <1>1, <1>2, <1>3, <4>1, OnlyOfOthersSame
      <4> QED
        BY <2>2, <4>2
    <3>5. twin \notin L \cap Rows(e.svc) /\ Agreeing(BindingsOf(e, twin))
      BY <1>2, <2>2, <3>1
    <3> QED
      BY <1>2, <1>3, <3>2, <3>3, <3>4, <3>5, AssignFreeStep
  <2> QED
    BY <2>1, <2>2
<1> QED
  BY <1>4, <1>5 DEF r

\* What was found is named by rows, and is of the host unless it was moved.
LEMMA FoundIsNamed ==
    ASSUME NEW c, NEW d, c \in ChildrenCalls(d), NEW B \in SUBSET Bindings, From(c, B)
    PROVE  /\ Named(d, B)
           /\ ~Elsewhere(c, d) => BelongToHost(d, c.host, B)
<1>1. /\ \A p \in ToSet(c.ports) : p.id \in Rows(d.port)
      /\ \A i \in ToSet(c.ifaces) : i.id \in Rows(d.iface)
  <2>1. c.ifaces \in Seq(FoundIfaces(d)) /\ c.ports \in Seq(FoundPorts(d))
    BY DEF ChildrenCalls
  <2>2. ToSet(c.ifaces) \subseteq FoundIfaces(d) /\ ToSet(c.ports) \subseteq FoundPorts(d)
    BY <2>1 DEF ToSet
  <2> QED
    BY <2>2 DEF FoundIfaces, FoundPorts
<1>2. Named(d, B)
  BY <1>1 DEF From, Named
<1>3. ASSUME ~Elsewhere(c, d)
      PROVE  BelongToHost(d, c.host, B)
  BY <1>1, <1>3 DEF Elsewhere, From, BelongToHost, PortsOf, IfacesOf
<1> QED
  BY <1>2, <1>3

\* A service of the report is created, upserted into the one that is there, or
\* dropped: its bindings are then orphans.
LEMMA ReportServiceKeeps ==
    ASSUME InvInv, NEW slot \in Slots, ReportService(slot)
    PROVE  Keeps
<1> DEFINE c      == call[slot]
           svc    == c.report.services[c.done + 1]
           bs     == Reassign(c, svc.bindings)
           bad    == Conflicting(c, db, svc.id, bs)
           row    == [host |-> c.host, def |-> svc.def, name |-> svc.name, src |-> c.src, ctr |-> svc.ctr]
           Result(twin) == CreateService(db, svc.id, row, bs, twin)
           good   == Select(bs, {k \in DOMAIN bs : bs[k] \notin bad})
           again  == svc.id \in ServicesOf(db, c.host)
           Unsafe(twin) == /\ Upserts(db, svc.id, row, twin)
                           /\ Elsewhere(c, db) \/ (again /\ twin # svc.id)
           n == [c EXCEPT !.done = @ + 1, !.claimed = @ \cup {b \in ToSet(bs) : b.port # NoPort}]
           m == [c EXCEPT !.done = @ + 1, !.orphans = @ \o good, !.held = @ \/ again]
<1>1. c.pc = "children" /\ c.done < Len(c.report.services)
  BY DEF ReportService
<1>2. /\ c \in ChildrenCalls(db) /\ OrphansOK(c, db) /\ DbOK(db) /\ db \in DbType
      /\ Sound(db, loose) /\ Exclusive(db, loose)
  BY <1>1, CallTypes, PcTells DEF InvInv
<1>3. \/ bad # {} /\ Continue(slot, m, db)
      \/ /\ bad = {}
         /\ \E twin \in Twins(db, svc.id, row, bs) :
               /\ call' = [call EXCEPT ![slot] = IF Result(twin).ok THEN n ELSE Idle]
               /\ Write(Result(twin).db, IF Unsafe(twin) THEN loose \cup {twin} ELSE loose)
  BY DEF ReportService
<1>4. svc \in SvcData
  <2>1. c.report.services \in Seq(SvcData) /\ c.done \in Nat
    BY <1>2, ReportsAssumption DEF ChildrenCalls
  <2> QED
    BY <1>1, <2>1
<1> HIDE DEF svc
<1>5. svc.id \in ServiceIds /\ svc.bindings \in Seq(Bindings) /\ row \in SvcRow /\ row.host = c.host
  <2>1. c.host \in HostIds /\ c.src \in Sources
    BY <1>2, RowTypes DEF ChildrenCalls
  <2> QED
    BY <1>4, <2>1 DEF SvcData, SvcRow
<1>6. bs \in Seq(Bindings) /\ From(c, ToSet(bs))
  BY <1>2, <1>5, ReassignFinds
<1> HIDE DEF bs, row
<1>7. ToSet(bs) \in SUBSET Bindings
  BY <1>6 DEF ToSet
<1>8. Named(db, ToSet(bs)) /\ (~Elsewhere(c, db) => BelongToHost(db, c.host, ToSet(bs)))
  BY <1>2, <1>6, <1>7, FoundIsNamed
<1>9. CASE bad # {} /\ Continue(slot, m, db)
  <2>1. CallOK(m, db)
    BY <1>2, <1>6, DroppedGoesOn
  <2> HIDE DEF m
  <2> QED
    BY <1>9, <2>1, ContinueSame
<1>10. ASSUME bad = {}, NEW twin \in Twins(db, svc.id, row, bs),
              call' = [call EXCEPT ![slot] = IF Result(twin).ok THEN n ELSE Idle],
              Write(Result(twin).db, IF Unsafe(twin) THEN loose \cup {twin} ELSE loose)
       PROVE  Keeps
  <2> DEFINE r == Result(twin)
             M == IF Unsafe(twin) THEN loose \cup {twin} ELSE loose
             x == IF Upserts(db, svc.id, row, twin) THEN twin ELSE svc.id
  <2>1. /\ db' = r.db /\ loose' = M \cap Rows(r.db.svc)
        /\ last' \in Reports \cup {NoReport}
    BY <1>10 DEF Write, InvInv
  <2>2. ASSUME NEW t \in ServicesOf(db, c.host) \ {svc.id}, NEW a \in BindingsOf(db, t), NEW b \in ToSet(bs)
        PROVE  ~Overlaps(a, b)
    BY <1>10 DEF Conflicting, ClaimedByOthers
  <2>3. /\ StepOK(db, loose, r.db, M \cap Rows(r.db.svc))
        /\ \/ ~r.ok
           \/ /\ x \in ServiceIds /\ OnlyOf(x, db, r.db)
              /\ x \in Rows(db.svc) => db.svc[x].host = c.host
              /\ BindingsOf(r.db, x) \subseteq BindingsOf(db, x) \cup ToSet(bs)
    <3>1. CASE ~Upserts(db, svc.id, row, twin)
      <4>1. M = loose /\ x = svc.id
        BY <3>1
      <4>2. FreeOn(db, row.host, svc.id, ToSet(bs))
        BY <1>5, <2>2 DEF FreeOn, ServicesOf
      <4>3. StepOK(db, loose, r.db, loose \cap Rows(r.db.svc))
        BY <1>2, <1>5, <1>6, <3>1, <4>2, CreatedStep
      <4>4. \/ ~r.ok
            \/ /\ db.svc[svc.id] = NoRow /\ OnlyOf(svc.id, db, r.db)
               /\ BindingsOf(r.db, svc.id) \subseteq ToSet(bs)
        BY <1>2, <1>5, <1>6, <3>1, CreateServiceChecks
      <4>5. \/ ~r.ok
            \/ /\ x \in ServiceIds /\ OnlyOf(x, db, r.db) /\ x \notin Rows(db.svc)
               /\ BindingsOf(r.db, x) \subseteq BindingsOf(db, x) \cup ToSet(bs)
        <5> HIDE DEF r, x
        <5> QED
          BY <1>5, <4>1, <4>4 DEF Rows
      <4> HIDE DEF r, x, M
      <4> QED
        BY <4>1, <4>3, <4>5
    <3>2. CASE Upserts(db, svc.id, row, twin)
      <4>1. /\ StepOK(db, loose, r.db, (loose \cup {twin}) \cap Rows(r.db.svc))
            /\ BelongToHost(db, row.host, ToSet(bs)) /\ FreeOn(db, row.host, twin, ToSet(bs)) =>
                   StepOK(db, loose, r.db, loose \cap Rows(r.db.svc))
        BY <1>2, <1>5, <1>6, <1>8, <3>2, UpsertedStep
      <4>2. /\ twin \in ServicesOf(db, row.host)
            /\ OnlyOf(twin, db, r.db)
            /\ BindingsOf(r.db, twin) \subseteq BindingsOf(db, twin) \cup ToSet(bs)
        BY <1>2, <1>5, <1>6, <1>8, <3>2, UpsertMerges
      <4>3. x = twin /\ x \in ServiceIds /\ db.svc[x].host = c.host
        BY <1>2, <1>5, <3>2, <4>2, RowTypes DEF ServicesOf
      <4>4. CASE Unsafe(twin)
        <5>1. M = loose \cup {twin}
          BY <4>4
        <5> HIDE DEF r, x, M
        <5> QED
          BY <4>1, <4>2, <4>3, <5>1
      <4>5. CASE ~Unsafe(twin)
        <5>1. M = loose /\ ~Elsewhere(c, db) /\ (~again \/ twin = svc.id)
          BY <3>2, <4>5
        <5>2. FreeOn(db, row.host, twin, ToSet(bs))
          BY <1>5, <2>2, <5>1 DEF FreeOn, ServicesOf
        <5> HIDE DEF r, x, M
        <5> QED
          BY <1>5, <1>8, <4>1, <4>2, <4>3, <5>1, <5>2
      <4> QED
        BY <4>4, <4>5
    <3> QED
      BY <3>1, <3>2
  <2>4. CallOK(IF r.ok THEN n ELSE Idle, r.db)
    <3>1. CASE ~r.ok
      BY <3>1 DEF CallOK
    <3>2. CASE r.ok
      <4> HIDE DEF r, x
      <4>1. CallOK(n, r.db)
        BY <1>2, <1>6, <2>3, <3>2, ReportGoesOn
      <4> QED
        BY <3>2, <4>1
    <3> QED
      BY <3>1, <3>2
  <2>5. call' = [call EXCEPT ![slot] = IF r.ok THEN n ELSE Idle]
    BY <1>10
  <2> HIDE DEF r, M, x, n
  <2>6. CallOK(IF r.ok THEN n ELSE Idle, db') /\ StepOK(db, loose, db', loose')
    BY <2>1, <2>3, <2>4
  <2> QED
    BY <2>1, <2>5, <2>6, SlotStep
<1> QED
  BY <1>3, <1>9, <1>10

\* The orphans go to Open Ports and the report ends.
LEMMA ReportEndsKeeps ==
    ASSUME InvInv, NEW slot \in Slots, ReportEnds(slot)
    PROVE  Keeps
<1> DEFINE c   == call[slot]
           row == [host |-> c.host, def |-> OpenPorts, name |-> CHOOSE n \in Names : TRUE, src |-> "discovery",
                   ctr |-> NoContainer]
           Result(s, twin) == CreateService(db, s, row, c.orphans, twin)
           Unsafe(s, twin) == LET merged == Upserts(db, s, row, twin)
                              IN  IF Twice(c) \/ (merged /\ Elsewhere(c, db))
                                  THEN {IF merged THEN twin ELSE s} ELSE {}
           Applied(d, L) == /\ db' = d /\ loose' = L \cap Rows(d.svc)
                            /\ last' = IF c.upsert THEN c.report ELSE IF d = db THEN last ELSE NoReport
           O == ToSet(c.orphans)
<1>1. /\ c.pc = "children" /\ call' = [call EXCEPT ![slot] = Idle]
      /\ \/ Applied(db, loose)
         \/ \E s \in Fresh("svc") : \E twin \in Twins(db, s, row, c.orphans) :
               Applied(Result(s, twin).db, loose \cup Unsafe(s, twin))
  BY DEF ReportEnds
<1>2. /\ c \in ChildrenCalls(db) /\ OrphansOK(c, db) /\ DbOK(db) /\ db \in DbType
      /\ Sound(db, loose) /\ Exclusive(db, loose)
  BY <1>1, CallTypes, PcTells DEF InvInv
<1>3. ASSUME NEW d, NEW L, Applied(d, L), StepOK(db, loose, d, L \cap Rows(d.svc))
      PROVE  Keeps
  <2>1. last' \in Reports \cup {NoReport}
    BY <1>2, <1>3 DEF InvInv, ChildrenCalls
  <2>2. StepOK(db, loose, db', loose')
    BY <1>3
  <2>3. CallOK(Idle, db')
    BY DEF CallOK
  <2> QED
    BY <1>1, <2>1, <2>2, <2>3, SlotStep
<1>4. ASSUME NEW s \in Fresh("svc"), NEW twin \in Twins(db, s, row, c.orphans)
      PROVE  StepOK(db, loose, Result(s, twin).db, (loose \cup Unsafe(s, twin)) \cap Rows(Result(s, twin).db.svc))
  <2> DEFINE e == Result(s, twin).db
             M == loose \cup Unsafe(s, twin)
  <2>1. s \in ServiceIds /\ s \notin Rows(db.svc)
    BY FreshIsNew, IdsAssumption
  <2>2. row \in SvcRow /\ row.host = c.host /\ row.src = "discovery"
    <3>1. c.host \in HostIds
      BY <1>2, RowTypes DEF ChildrenCalls
    <3>2. (CHOOSE n \in Names : TRUE) \in Names
      BY InventoryAssumption
    <3> QED
      BY <3>1, <3>2, InventoryAssumption DEF SvcRow, Sources
  <2>3. c.orphans \in Seq(Bindings) /\ O \in SUBSET Bindings /\ From(c, O)
    <3>1. c.orphans \in Seq(Bindings)
      BY <1>2 DEF ChildrenCalls
    <3> QED
      BY <1>2, <3>1 DEF OrphansOK, ToSet
  <2>4. Named(db, O) /\ (~Elsewhere(c, db) => BelongToHost(db, c.host, O))
    BY <1>2, <2>3, FoundIsNamed
  <2>5. ASSUME ~Twice(c), NEW t
        PROVE  FreeOn(db, c.host, t, O)
    BY <1>2, <2>5 DEF OrphansOK, FreeOn, ServicesOf
  <2> HIDE DEF row
  <2>6. CASE Upserts(db, s, row, twin)
    <3>1. /\ StepOK(db, loose, e, (loose \cup {twin}) \cap Rows(e.svc))
          /\ BelongToHost(db, row.host, O) /\ FreeOn(db, row.host, twin, O) =>
                 StepOK(db, loose, e, loose \cap Rows(e.svc))
      BY <1>2, <2>1, <2>2, <2>3, <2>4, <2>6, UpsertedStep
    <3>2. CASE Twice(c) \/ Elsewhere(c, db)
      <4>1. M = loose \cup {twin}
        BY <2>6, <3>2
      <4> HIDE DEF e, M
      <4> QED
        BY <3>1, <4>1 DEF e, M
    <3>3. CASE ~(Twice(c) \/ Elsewhere(c, db))
      <4>1. M = loose
        BY <2>6, <3>3
      <4>2. BelongToHost(db, row.host, O) /\ FreeOn(db, row.host, twin, O)
        BY <2>2, <2>4, <2>5, <3>3
      <4> QED
        BY <3>1, <4>1, <4>2
    <3> QED
      BY <3>2, <3>3
  <2>7. CASE ~Upserts(db, s, row, twin)
    <3>1. CASE Twice(c)
      <4>1. M = loose \cup {s}
        BY <2>7, <3>1
      <4>2. e = db \/ OnlyOf(s, db, e)
        BY <1>2, <2>1, <2>2, <2>3, <2>7, CreateServiceChecks
      <4>3. CASE e = db
        <5>1. M \cap Rows(e.svc) = loose
          BY <1>2, <2>1, <4>1, <4>3 DEF Sound
        <5> QED
          BY <1>2, <4>3, <5>1, NoStep
      <4>4. CASE OnlyOf(s, db, e)
        <5>1. StepOK(db, loose, e, (loose \cup {s}) \cap Rows(e.svc))
          <6> HIDE DEF e
          <6> QED
            BY <1>2, <2>1, <4>4, LooseStep
        <5> QED
          BY <4>1, <5>1
      <4> QED
        BY <4>2, <4>3, <4>4
    <3>2. CASE ~Twice(c)
      <4>1. M = loose
        BY <2>7, <3>2
      <4>2. FreeOn(db, row.host, s, O)
        BY <2>2, <2>5, <3>2
      <4>3. StepOK(db, loose, e, loose \cap Rows(e.svc))
        BY <1>2, <2>1, <2>2, <2>3, <2>7, <4>2, CreatedStep
      <4> QED
        BY <4>1, <4>3
    <3> QED
      BY <3>1, <3>2
  <2> QED
    BY <2>6, <2>7
<1>5. CASE Applied(db, loose)
  BY <1>2, <1>3, <1>5, NoStep
<1>6. ASSUME NEW s \in Fresh("svc"), NEW twin \in Twins(db, s, row, c.orphans),
             Applied(Result(s, twin).db, loose \cup Unsafe(s, twin))
      PROVE  Keeps
  <2> DEFINE e == Result(s, twin).db
             M == loose \cup Unsafe(s, twin)
  <2>1. Applied(e, M) /\ StepOK(db, loose, e, M \cap Rows(e.svc))
    BY <1>4, <1>6
  <2> HIDE DEF e, M
  <2> QED
    BY <1>3, <2>1
<1> QED
  BY <1>1, <1>5, <1>6

-----------------------------------------------------------------------------
(* Edits *)

\* A partial map is a function on some of the keys; one of its values may be
\* replaced.
LEMMA PartialMap ==
    ASSUME NEW S, NEW T
    PROVE  /\ \A f \in PartialMaps(S, T) : DOMAIN f \subseteq S /\ f \in [DOMAIN f -> T]
           /\ \A f : DOMAIN f \subseteq S /\ f \in [DOMAIN f -> T] => f \in PartialMaps(S, T)
           /\ \A A \in SUBSET S : [A -> T] \subseteq PartialMaps(S, T)
  BY DEF PartialMaps

\* What a user may send, typed.
LEMMA EditsTyped ==
    ASSUME DbOK(db), NEW h, NEW e \in EditsOf(db, h)
    PROVE  e \in EditInputs
<1> DEFINE f == Shown(db, h)
           S == DOMAIN f.svcs
           Owned   == {x \in S \X UNION {f.svcs[s] : s \in S} : x[2] \in f.svcs[x[1]]}
           Targets == [port : f.ports, iface : f.ifaces \cup {AllIfaces}]
                      \cup [port : {NoPort}, iface : f.ifaces]
           With(b, t) == [id |-> b.id, port |-> t.port, iface |-> t.iface]
           Put(m, s, gone, new) == [m EXCEPT ![s] = (@ \ gone) \cup new]
           Maps == [S -> SUBSET Bindings]
<1>1. db \in DbType
  BY DEF DbOK
<1>2. /\ f.ifaces \in SUBSET IfaceIds /\ f.ports \in SUBSET PortIds /\ f.added = {}
      /\ f.svcs \in Maps /\ S \in SUBSET ServiceIds
      /\ f = [ifaces |-> f.ifaces, ports |-> f.ports, added |-> f.added, svcs |-> f.svcs]
  <2>1. \A s : BindingsOf(db, s) \in SUBSET Bindings
    BY <1>1, BindingsAreRows
  <2>2. IfacesOf(db, h) \subseteq IfaceIds /\ PortsOf(db, h) \subseteq PortIds /\ ServicesOf(db, h) \subseteq ServiceIds
    BY <1>1, RowTypes DEF IfacesOf, PortsOf, ServicesOf
  <2> QED
    BY <2>1, <2>2 DEF Shown
<1> HIDE DEF f, S
<1>3. \A i \in SUBSET IfaceIds, p \in SUBSET PortIds, a \in SUBSET PortData, A \in SUBSET ServiceIds :
         \A m \in [A -> SUBSET Bindings] : [ifaces |-> i, ports |-> p, added |-> a, svcs |-> m] \in EditInputs
  BY PartialMap DEF EditInputs
<1>4. \A x \in Owned : x[1] \in S /\ x[2] \in Bindings /\ x[2] \in f.svcs[x[1]]
  BY <1>2
<1>5. \A x \in Bindings, t \in Targets : With(x, t) \in Bindings
  BY <1>2 DEF Bindings
<1>6. \A x, y \in Bindings : With(x, y) \in Bindings
  BY DEF Bindings
<1>7. {} \in SUBSET PortData
  OBVIOUS
<1> HIDE DEF Owned, Targets, With
<1>8. \A i \in f.ifaces : [f EXCEPT !.ifaces = @ \ {i}] \in EditInputs
  <2> SUFFICES ASSUME NEW i \in f.ifaces PROVE [f EXCEPT !.ifaces = @ \ {i}] \in EditInputs
    OBVIOUS
  <2>1. [f EXCEPT !.ifaces = @ \ {i}] = [ifaces |-> f.ifaces \ {i}, ports |-> f.ports, added |-> {}, svcs |-> f.svcs]
    BY <1>2
  <2> QED
    BY <1>2, <1>3, <1>7, <2>1
<1>9. \A p \in f.ports : [f EXCEPT !.ports = @ \ {p}] \in EditInputs
  <2> SUFFICES ASSUME NEW p \in f.ports PROVE [f EXCEPT !.ports = @ \ {p}] \in EditInputs
    OBVIOUS
  <2>1. [f EXCEPT !.ports = @ \ {p}] = [ifaces |-> f.ifaces, ports |-> f.ports \ {p}, added |-> {}, svcs |-> f.svcs]
    BY <1>2
  <2> QED
    BY <1>2, <1>3, <1>7, <2>1
<1>10. ASSUME NEW A \in SUBSET ServiceIds, NEW m \in [A -> SUBSET Bindings]
       PROVE  [f EXCEPT !.svcs = m] \in EditInputs
  <2>1. [f EXCEPT !.svcs = m] = [ifaces |-> f.ifaces, ports |-> f.ports, added |-> {}, svcs |-> m]
    BY <1>2
  <2> QED
    BY <1>2, <1>3, <1>7, <2>1
<1>11. \A s \in S : [f EXCEPT !.svcs = [x \in S \ {s} |-> f.svcs[x]]] \in EditInputs
  <2> SUFFICES ASSUME NEW s \in S PROVE [f EXCEPT !.svcs = [x \in S \ {s} |-> f.svcs[x]]] \in EditInputs
    OBVIOUS
  <2>1. S \ {s} \in SUBSET ServiceIds /\ [x \in S \ {s} |-> f.svcs[x]] \in [S \ {s} -> SUBSET Bindings]
    BY <1>2
  <2> QED
    BY <1>10, <2>1
<1>12. ASSUME NEW m \in Maps, NEW s \in S, NEW gone, NEW new \in SUBSET Bindings
       PROVE  Put(m, s, gone, new) \in Maps
  BY DEF Put
<1>13. ASSUME NEW m \in Maps
       PROVE  [f EXCEPT !.svcs = m] \in EditInputs
  BY <1>2, <1>10
<1> HIDE DEF Put
<1> DEFINE Changed(x, t) == [f EXCEPT !.svcs = Put(@, x[1], {x[2]}, {With(x[2], t)})]
           Moved(x, t) == [f EXCEPT !.svcs = Put(Put(@, x[1], {x[2]}, {}), t, {}, {x[2]})]
           Exchanged(x, y) == [f EXCEPT !.svcs = Put(Put(@, x[1], {x[2]}, {With(x[2], y[2])}),
                                                     y[1], {y[2]}, {With(y[2], x[2])})]
           Added(q, s, b, n) ==
              [ifaces |-> f.ifaces, ports |-> f.ports, added |-> {[id |-> q, num |-> n]},
               svcs |-> [x \in S \cup {s} |-> IF x \in S THEN f.svcs[x]
                                               ELSE {[id |-> b, port |-> q, iface |-> AllIfaces]}]]
<1>14. ASSUME NEW x \in Owned, NEW t \in Targets
       PROVE  Changed(x, t) \in EditInputs
  <2> DEFINE m == Put(f.svcs, x[1], {x[2]}, {With(x[2], t)})
  <2>1. m \in Maps
    BY <1>2, <1>4, <1>5, <1>12
  <2> HIDE DEF m
  <2>2. [f EXCEPT !.svcs = m] \in EditInputs
    BY <1>13, <2>1
  <2> QED
    BY <2>2 DEF m
<1>15. ASSUME NEW x \in Owned, NEW t \in S
       PROVE  Moved(x, t) \in EditInputs
  <2> DEFINE m == Put(f.svcs, x[1], {x[2]}, {})
             n == Put(m, t, {}, {x[2]})
  <2>1. m \in Maps
    BY <1>2, <1>4, <1>12
  <2> HIDE DEF m
  <2>2. n \in Maps
    BY <1>4, <1>12, <2>1
  <2> HIDE DEF n
  <2>3. [f EXCEPT !.svcs = n] \in EditInputs
    BY <1>13, <2>2
  <2> QED
    BY <2>3 DEF m, n
<1>16. ASSUME NEW x \in Owned, NEW y \in Owned
       PROVE  Exchanged(x, y) \in EditInputs
  <2> DEFINE m == Put(f.svcs, x[1], {x[2]}, {With(x[2], y[2])})
             n == Put(m, y[1], {y[2]}, {With(y[2], x[2])})
  <2>1. m \in Maps
    BY <1>2, <1>4, <1>6, <1>12
  <2> HIDE DEF m
  <2>2. n \in Maps
    BY <1>4, <1>6, <1>12, <2>1
  <2> HIDE DEF n
  <2>3. [f EXCEPT !.svcs = n] \in EditInputs
    BY <1>13, <2>2
  <2> QED
    BY <2>3 DEF m, n
<1>17. ASSUME NEW q \in Fresh("port"), NEW s \in Fresh("svc"), NEW b \in Fresh("bind"), NEW n \in Numbers
       PROVE  Added(q, s, b, n) \in EditInputs
  <2>1. q \in PortIds /\ s \in ServiceIds /\ b \in BindIds
    BY FreshIsNew, IdsAssumption
  <2> DEFINE m == [x \in S \cup {s} |-> IF x \in S THEN f.svcs[x]
                                        ELSE {[id |-> b, port |-> q, iface |-> AllIfaces]}]
             a == {[id |-> q, num |-> n]}
  <2>2. [id |-> b, port |-> q, iface |-> AllIfaces] \in Bindings /\ a \in SUBSET PortData
    BY <2>1 DEF Bindings, PortData
  <2>3. S \cup {s} \in SUBSET ServiceIds /\ m \in [S \cup {s} -> SUBSET Bindings]
    BY <1>2, <2>1, <2>2
  <2> HIDE DEF m, a
  <2>4. [ifaces |-> f.ifaces, ports |-> f.ports, added |-> a, svcs |-> m] \in EditInputs
    BY <1>2, <1>3, <2>2, <2>3
  <2> QED
    BY <2>4 DEF m, a
<1> DEFINE Removals  == {[f EXCEPT !.ifaces = @ \ {i}] : i \in f.ifaces}
                        \cup {[f EXCEPT !.ports = @ \ {p}] : p \in f.ports}
                        \cup {[f EXCEPT !.svcs = [x \in S \ {s} |-> f.svcs[x]]] : s \in S}
           Changes   == {Changed(x, t) : x \in Owned, t \in Targets}
           Moves     == {Moved(x, t) : x \in Owned, t \in S}
           Exchanges == {Exchanged(x, y) : x, y \in Owned}
           Additions == {Added(q, s, b, n) :
                            q \in Fresh("port"), s \in Fresh("svc"), b \in Fresh("bind"), n \in Numbers}
<1>18. EditsOf(db, h) = Removals \cup Changes \cup Moves \cup Exchanges \cup Additions
  BY DEF EditsOf, f, S, Owned, Targets, With, Put
<1> HIDE DEF Changed, Moved, Exchanged, Added
<1>19. Removals \subseteq EditInputs
  BY <1>8, <1>9, <1>11, Zenon
<1>20. Changes \subseteq EditInputs
  BY <1>14
<1>21. Moves \subseteq EditInputs
  BY <1>15
<1>22. Exchanges \subseteq EditInputs
  BY <1>16
<1>23. Additions \subseteq EditInputs
  BY <1>17
<1> HIDE DEF Removals, Changes, Moves, Exchanges, Additions
<1> QED
  BY <1>18, <1>19, <1>20, <1>21, <1>22, <1>23

\* PUT /hosts/{id} arrives.
LEMMA EditArrivesKeeps ==
    ASSUME InvInv, NEW slot \in Slots, NEW h \in Rows(db.host), NEW e \in EditsOf(db, h), EditArrives(slot, h, e)
    PROVE  Keeps
<1> DEFINE c == [kind |-> "edit", pc |-> "edit", host |-> h, input |-> e]
<1>1. Begin(slot, c) /\ UNCHANGED <<db, last, loose>>
  BY DEF EditArrives
<1>2. e \in EditInputs /\ h \in HostIds
  BY CallTypes, EditsTyped, RowTypes
<1>3. CallOK(c, db)
  BY <1>2 DEF CallOK, EditCalls
<1> HIDE DEF c
<1> QED
  BY <1>1, <1>3, BeginStep

\* update_from_request writes the host.
LEMMA EditHostKeeps ==
    ASSUME InvInv, NEW slot \in Slots, EditHost(slot)
    PROVE  Keeps
<1> DEFINE c == call[slot]
           n == [c EXCEPT !.pc = "ifaces"]
<1>1. c.pc = "edit" /\ Continue(slot, IF db.host[c.host] = NoRow THEN Idle ELSE n, db)
  BY DEF EditHost
<1>2. c \in EditCalls
  BY <1>1, CallTypes, PcTells
<1>3. db.host[c.host] # NoRow => CallOK(n, db)
  <2>1. db.host[c.host] # NoRow => c.host \in Rows(db.host)
    BY <1>2, CallTypes, RowTypes DEF EditCalls
  <2>2. db.host[c.host] # NoRow => n \in SyncCalls(db)
    BY <1>2, <2>1 DEF EditCalls, SyncCalls
  <2> QED
    BY <2>2 DEF CallOK
<1> HIDE DEF n
<1> QED
  BY <1>1, <1>3, ContinueSame, EndStep

\* sync_interfaces deletes the interfaces left out.
LEMMA EditIfacesKeeps ==
    ASSUME InvInv, NEW slot \in Slots, EditIfaces(slot)
    PROVE  Keeps
<1> DEFINE c == call[slot]
           n == [c EXCEPT !.pc = "ports"]
           e == Delete(db, "iface", IfacesOf(db, c.host) \ c.input.ifaces)
<1>1. c.pc = "ifaces" /\ Continue(slot, n, e)
  BY DEF EditIfaces
<1>2. c \in SyncCalls(db) /\ DbOK(db)
  BY <1>1, CallTypes, PcTells
<1>3. DbOK(e) /\ Sub(e, db) /\ e.host = db.host
  BY <1>2, DeleteOnlyDeletes DEF TableNames
<1> HIDE DEF e
<1>4. n \in SyncCalls(e)
  BY <1>2, <1>3 DEF SyncCalls
<1>5. CallOK(n, e)
  BY <1>4 DEF CallOK
<1>6. StepOK(db, loose, e, loose \cap Rows(e.svc))
  BY <1>3, DeletingStep DEF InvInv
<1> HIDE DEF n
<1> QED
  BY <1>1, <1>5, <1>6, ContinueStep

\* Rows are deleted, then interfaces or ports are added.
LEMMA DeletingAddingStep ==
    ASSUME NEW d, NEW L, Sound(d, L), NEW k, DbOK(k), Sub(k, d), NEW e, DbOK(e), e.svc = k.svc, e.bind = k.bind,
           \A x \in Rows(k.iface) : e.iface[x] = k.iface[x] /\ x \in Rows(e.iface),
           \A x \in Rows(k.port) : e.port[x] = k.port[x] /\ x \in Rows(e.port)
    PROVE  StepOK(d, L, e, L \cap Rows(e.svc))
<1> DEFINE M == L \cap Rows(e.svc)
<1>1. \A t \in Rows(e.svc) \ M : t \in Rows(d.svc) \ L /\ e.svc[t].host = d.svc[t].host
  BY DEF Sub
<1>2. ASSUME NEW t
      PROVE  BindingsOf(e, t) = BindingsOf(k, t) /\ BindingsOf(k, t) \subseteq BindingsOf(d, t)
  BY SameRowsSameBindings DEF BindingsOf, Sub
<1>3. ASSUME NEW t, NEW b \in BindingsOf(e, t)
      PROVE  /\ b.port # NoPort => b.port \in Rows(e.port) /\ e.port[b.port].host = d.port[b.port].host
             /\ b.iface # AllIfaces => b.iface \in Rows(e.iface) /\ e.iface[b.iface].host = d.iface[b.iface].host
  <2>1. /\ b.port # NoPort => b.port \in Rows(k.port)
        /\ b.iface # AllIfaces => b.iface \in Rows(k.iface)
    BY <1>2, BoundRowsAreThere
  <2> QED
    BY <2>1 DEF Sub
<1>4. Shrinks(d, L, e, M)
  BY <1>1, <1>2, <1>3 DEF Shrinks
<1> QED
  BY <1>4, ShrinkStep

\* Some ports are added to a host.
LEMMA PortsAdded ==
    ASSUME NEW d, DbOK(d), NEW new \in PartialMaps(PortIds, PortRow),
           \A p \in DOMAIN new : new[p].host \in Rows(d.host) /\ p \notin Rows(d.port)
    PROVE  LET e == [d EXCEPT !.port = [p \in PortIds |-> IF p \in DOMAIN new THEN new[p] ELSE @[p]]]
           IN  /\ DbOK(e)
               /\ e.host = d.host /\ e.iface = d.iface /\ e.svc = d.svc /\ e.bind = d.bind
               /\ \A x \in Rows(d.port) : e.port[x] = d.port[x] /\ x \in Rows(e.port)
<1> DEFINE e == [d EXCEPT !.port = [p \in PortIds |-> IF p \in DOMAIN new THEN new[p] ELSE @[p]]]
<1>1. d \in DbType /\ DOMAIN new \subseteq PortIds /\ \A p \in DOMAIN new : new[p] \in PortRow
  BY PartialMap DEF DbOK
<1>2. /\ e.host = d.host /\ e.iface = d.iface /\ e.svc = d.svc /\ e.bind = d.bind
      /\ e.group = d.group /\ e.daemon = d.daemon
      /\ e.port = [p \in PortIds |-> IF p \in DOMAIN new THEN new[p] ELSE d.port[p]]
  BY <1>1 DEF DbType
<1>3. e \in DbType
  <2>1. [p \in PortIds |-> IF p \in DOMAIN new THEN new[p] ELSE d.port[p]] \in [PortIds -> Opt(PortRow)]
    BY <1>1 DEF DbType, Opt
  <2> QED
    BY <1>1, <2>1 DEF DbType
<1> HIDE DEF e
<1>4. /\ \A x \in Rows(d.port) : e.port[x] = d.port[x] /\ x \in Rows(e.port)
      /\ \A x \in Rows(e.port) : \/ x \in DOMAIN new /\ e.port[x] = new[x]
                                 \/ x \in Rows(d.port) /\ e.port[x] = d.port[x]
  <2>1. Rows(d.port) = {x \in PortIds : d.port[x] # NoRow} /\ Rows(e.port) = {x \in PortIds : e.port[x] # NoRow}
    BY <1>1, <1>3, RowTypes
  <2>2. \A x \in PortIds : e.port[x] = IF x \in DOMAIN new THEN new[x] ELSE d.port[x]
    BY <1>2
  <2>3. \A x \in Rows(d.port) : x \notin DOMAIN new
    OBVIOUS
  <2>4. \A x \in Rows(d.port) : e.port[x] = d.port[x] /\ x \in Rows(e.port)
    BY <2>1, <2>2, <2>3
  <2>5. ASSUME NEW x \in Rows(e.port), x \notin DOMAIN new
        PROVE  x \in Rows(d.port) /\ e.port[x] = d.port[x]
    BY <2>1, <2>2, <2>5
  <2>6. \A x \in Rows(e.port) : x \in DOMAIN new => e.port[x] = new[x]
    BY <2>1, <2>2
  <2> QED
    BY <2>4, <2>5, <2>6
<1>5. RefsOK(e)
  BY <1>2, <1>4 DEF DbOK, RefsOK
<1> QED
  BY <1>2, <1>3, <1>4, <1>5 DEF DbOK, e

\* sync_ports deletes the ports left out and stores the new ones.
LEMMA EditPortsKeeps ==
    ASSUME InvInv, NEW slot \in Slots, EditPorts(slot)
    PROVE  Keeps
<1> DEFINE c    == call[slot]
           kept == Delete(db, "port", PortsOf(db, c.host) \ c.input.ports)
           new  == [p \in {x.id : x \in c.input.added} |->
                      [host |-> c.host, num |-> (CHOOSE x \in c.input.added : x.id = p).num]]
           taken == \E p \in DOMAIN new : \/ kept.port[p] # NoRow \/ kept.host[c.host] = NoRow
                                          \/ \E q \in PortsOf(kept, c.host) : kept.port[q].num = new[p].num
           n == [c EXCEPT !.pc = "removed"]
           e == [kept EXCEPT !.port = [p \in PortIds |-> IF p \in DOMAIN new THEN new[p] ELSE @[p]]]
<1>1. c.pc = "ports" /\ (Continue(slot, Idle, kept) \/ (~taken /\ Continue(slot, n, e)))
  BY DEF EditPorts
<1>2. c \in SyncCalls(db) /\ DbOK(db) /\ Sound(db, loose)
  BY <1>1, CallTypes, PcTells DEF InvInv
<1>3. DbOK(kept) /\ Sub(kept, db) /\ kept.host = db.host
  BY <1>2, DeleteOnlyDeletes DEF TableNames
<1> HIDE DEF kept
<1>4. CASE Continue(slot, Idle, kept)
  <2>1. StepOK(db, loose, kept, loose \cap Rows(kept.svc))
    BY <1>2, <1>3, DeletingStep
  <2>2. CallOK(Idle, kept)
    BY DEF CallOK
  <2> QED
    BY <1>4, <2>1, <2>2, ContinueStep
<1>5. CASE ~taken /\ Continue(slot, n, e)
  <2>1. new \in PartialMaps(PortIds, PortRow) /\ \A p \in DOMAIN new : new[p].host = c.host
    <3>1. c.input.added \in SUBSET PortData /\ c.host \in HostIds
      BY <1>2, CallTypes, RowTypes DEF SyncCalls, EditInputs
    <3>2. ASSUME NEW p \in {x.id : x \in c.input.added}
          PROVE  p \in PortIds /\ (CHOOSE x \in c.input.added : x.id = p).num \in Numbers
      <4>1. (CHOOSE x \in c.input.added : x.id = p) \in c.input.added
        OBVIOUS
      <4> QED
        BY <3>1, <4>1 DEF PortData
    <3>3. DOMAIN new \subseteq PortIds /\ new \in [DOMAIN new -> PortRow] /\ \A p \in DOMAIN new : new[p].host = c.host
      BY <3>1, <3>2 DEF PortRow
    <3> HIDE DEF new
    <3> QED
      BY <3>3, PartialMap
  <2>2. \A p \in DOMAIN new : kept.port[p] = NoRow
    BY <1>5
  <2> HIDE DEF new
  <2>3. c.host \in Rows(kept.host)
    BY <1>2, <1>3 DEF SyncCalls
  <2>4. /\ DbOK(e)
        /\ e.host = kept.host /\ e.iface = kept.iface /\ e.svc = kept.svc /\ e.bind = kept.bind
        /\ \A x \in Rows(kept.port) : e.port[x] = kept.port[x] /\ x \in Rows(e.port)
    <3>1. \A p \in DOMAIN new : new[p].host \in Rows(kept.host) /\ p \notin Rows(kept.port)
      BY <2>1, <2>2, <2>3 DEF Rows
    <3> QED
      BY <1>3, <2>1, <3>1, PortsAdded
  <2> HIDE DEF e
  <2>5. StepOK(db, loose, e, loose \cap Rows(e.svc))
    BY <1>2, <1>3, <2>4, DeletingAddingStep
  <2>6. n \in SyncCalls(e)
    BY <1>2, <1>3, <2>4 DEF SyncCalls
  <2>7. CallOK(n, e)
    BY <2>6 DEF CallOK
  <2> HIDE DEF n
  <2> QED
    BY <1>5, <2>5, <2>7, ContinueStep
<1> QED
  BY <1>1, <1>4, <1>5

\* sync_services deletes the services left out and sorts the others.
LEMMA EditRemovedKeeps ==
    ASSUME InvInv, NEW slot \in Slots, EditRemoved(slot)
    PROVE  Keeps
<1> DEFINE c     == call[slot]
           now   == ServicesOf(db, c.host)
           Loses(s) == \E b \in BindingsOf(db, s) :
                          /\ b.port # NoPort
                          /\ ~\E x \in c.input.svcs[s] : SameType(x, b)
           sent  == DOMAIN c.input.svcs
           e     == Delete(db, "svc", now \ sent)
           losing == {s \in now \cap sent : Loses(s)}
           others == {s \in sent : s \notin now \/ ~Loses(s)}
           n     == [kind |-> "edit", pc |-> "services", host |-> c.host, input |-> c.input,
                     known |-> now \cap sent, losing |-> losing, others |-> others]
<1>1. c.pc = "removed" /\ Continue(slot, n, e)
  BY DEF EditRemoved
<1>2. c \in SyncCalls(db) /\ DbOK(db) /\ Sound(db, loose) /\ db \in DbType
  BY <1>1, CallTypes, PcTells DEF InvInv
<1>3. DbOK(e) /\ Sub(e, db) /\ e.host = db.host
  BY <1>2, DeleteOnlyDeletes DEF TableNames
<1>4. \A x \in Rows(db.svc) \ (now \ sent) : e.svc[x] = db.svc[x]
  BY <1>2, DeleteServices
<1> HIDE DEF e
<1>5. StepOK(db, loose, e, loose \cap Rows(e.svc))
  BY <1>2, <1>3, DeletingStep
<1>6. sent \subseteq ServiceIds
  BY <1>2, PartialMap DEF SyncCalls, EditInputs
<1>7. losing \subseteq now \cap sent /\ others \subseteq sent
  OBVIOUS
<1> HIDE DEF Loses, losing, others
<1>8. n \in SvcCalls(e)
  BY <1>2, <1>3, <1>6, <1>7 DEF SyncCalls, SvcCalls
<1>9. InputsOK(n, e)
  <2>1. now \cap sent \subseteq ServicesOf(e, c.host)
    <3>1. \A x \in now \cap sent : x \in ServiceIds /\ x \in Rows(db.svc) /\ e.svc[x] = db.svc[x] /\ db.svc[x].host = c.host
      BY <1>4, <1>6 DEF ServicesOf
    <3>2. \A x \in now \cap sent : x \in Rows(e.svc)
      BY <1>2, <1>3, <3>1, RowTypes DEF DbOK
    <3> QED
      BY <3>1, <3>2 DEF ServicesOf
  <2>2. ServicesOf(e, c.host) \subseteq now
    BY <1>3 DEF Sub, ServicesOf
  <2>3. (others \ (now \cap sent)) \cap ServicesOf(e, c.host) = {}
    BY <1>7, <2>2
  <2> QED
    BY <1>7, <2>1, <2>3 DEF InputsOK
<1>10. CallOK(n, e)
  BY <1>8, <1>9 DEF CallOK
<1> HIDE DEF n
<1> QED
  BY <1>1, <1>5, <1>10, ContinueStep

\* The edit has written its services, or one was refused.
LEMMA EditEndsKeeps ==
    ASSUME InvInv, NEW slot \in Slots, EditEnds(slot)
    PROVE  Keeps
  BY EndStep DEF EditEnds

\* A service that was updated is no longer loose; one that was refused is as
\* it was, or has lost bindings if its host stays.
LEMMA UpdatedStep ==
    ASSUME NEW d, NEW L, Sound(d, L), NEW s \in Rows(d.svc), NEW row \in SvcRow, row.host \in Rows(d.host),
           NEW bindings \in Seq(Bindings),
           \/ row.host = d.svc[s].host
           \/ \A b \in ToSet(bindings) : \E a \in BindingsOf(d, s) : a.id = b.id
    PROVE  LET u == UpdateService(d, s, row, bindings)
           IN  StepOK(d, L, u.db, (IF u.ok THEN L \ {s} ELSE L) \cap Rows(u.db.svc))
<1> DEFINE u == UpdateService(d, s, row, bindings)
           M == IF u.ok THEN L \ {s} ELSE L
<1>1. DbOK(d) /\ d \in DbType /\ L \subseteq Rows(d.svc) /\ s \in ServiceIds
  BY RowTypes DEF Sound, DbOK
<1>2. /\ OnlyOf(s, d, u.db)
      /\ u.ok => InOrder(s, u.db) /\ u.db.svc[s] = row
      /\ ~u.ok => /\ BindingsOf(u.db, s) \subseteq BindingsOf(d, s)
                  /\ u.db.svc[s] \in {row, d.svc[s]}
      /\ (\A b \in ToSet(bindings) : \E a \in BindingsOf(d, s) : a.id = b.id) /\ ~u.ok => u.db = d
  BY <1>1, UpdateServiceChecks
<1> HIDE DEF u
<1>3. CASE u.ok
  <2>1. M \cap Rows(u.db.svc) = L \ {s}
    <3>1. \A t \in L \ {s} : t \in ServiceIds \ {s} /\ t \in Rows(d.svc)
      BY <1>1, RowTypes
    <3>2. \A t \in L \ {s} : t \in Rows(u.db.svc)
      BY <1>1, <1>2, <3>1, OnlyOfOthersSame
    <3> QED
      BY <1>3, <3>2
  <2>2. StepOK(d, L, u.db, L \ {s})
    BY <1>1, <1>2, <1>3, AssignStep
  <2>3. StepOK(d, L, u.db, M \cap Rows(u.db.svc))
    BY <2>1, <2>2
  <2> QED
    BY <2>3 DEF u
<1>4. CASE ~u.ok
  <2>1. CASE row.host = d.svc[s].host
    <3>1. u.db.svc[s] # NoRow /\ u.db.svc[s].host = d.svc[s].host
      <4>1. row # NoRow /\ d.svc[s] # NoRow
        BY IdsAssumption DEF Rows
      <4> QED
        BY <1>2, <1>4, <2>1, <4>1
    <3>2. s \in Rows(u.db.svc)
      BY <1>1, <1>2, <3>1, RowTypes DEF OnlyOf, DbOK
    <3>3. StepOK(d, L, u.db, L \cap Rows(u.db.svc))
      BY <1>2, <1>4, <3>1, <3>2, LosingStep
    <3> QED
      BY <1>4, <3>3 DEF u
  <2>2. CASE \A b \in ToSet(bindings) : \E a \in BindingsOf(d, s) : a.id = b.id
    <3>1. u.db = d
      BY <1>2, <1>4, <2>2
    <3>2. StepOK(d, L, u.db, L \cap Rows(u.db.svc))
      BY <3>1, NoStep
    <3> QED
      BY <1>4, <3>2 DEF u
  <2> QED
    BY <2>1, <2>2
<1> QED
  BY <1>3, <1>4

\* sync_services goes on with the next service, or stops.
LEMMA EditGoesOn ==
    ASSUME NEW c, NEW d, c \in SvcCalls(d), InputsOK(c, d), DbOK(d), NEW s \in ServiceIds, NEW e, OnlyOf(s, d, e),
           s \in c.known => s \in ServicesOf(e, c.host)
    PROVE  /\ CallOK([c EXCEPT !.losing = @ \ {s}, !.others = @ \ {s}], e)
           /\ CallOK([c EXCEPT !.pc = "refused"], e)
<1> DEFINE n == [c EXCEPT !.losing = @ \ {s}, !.others = @ \ {s}]
           m == [c EXCEPT !.pc = "refused"]
<1>1. e.host = d.host /\ d \in DbType /\ DbOK(e) /\ e \in DbType
  BY DEF OnlyOf, DbOK
<1>2. m \in SvcCalls(e) /\ m.pc = "refused"
  BY <1>1 DEF SvcCalls
<1>3. n \in SvcCalls(e)
  BY <1>1 DEF SvcCalls
<1>4. /\ n.host = c.host /\ n.known = c.known /\ n.input = c.input
      /\ n.losing = c.losing \ {s} /\ n.others = c.others \ {s}
      /\ c.known \subseteq ServiceIds /\ c.others \subseteq ServiceIds
  BY DEF SvcCalls
<1> HIDE DEF n, m
<1>5. \A t \in ServiceIds \ {s} : t \in ServicesOf(e, c.host) <=> t \in ServicesOf(d, c.host)
  BY <1>1, OnlyOfOthersSame DEF OnlyOf, ServicesOf
<1>6. InputsOK(n, e)
  <2>1. n.known \subseteq ServicesOf(e, n.host)
    BY <1>4, <1>5 DEF InputsOK
  <2>2. (n.others \ n.known) \cap ServicesOf(e, n.host) = {}
    BY <1>4, <1>5 DEF InputsOK
  <2> QED
    BY <1>4, <2>1, <2>2 DEF InputsOK
<1>7. CallOK(n, e) /\ CallOK(m, e)
  BY <1>2, <1>3, <1>6 DEF CallOK
<1> QED
  BY <1>7 DEF n, m

\* sync_services writes one service, first those that give bindings up.
LEMMA EditServiceKeeps ==
    ASSUME InvInv, NEW slot \in Slots, EditService(slot)
    PROVE  Keeps
<1> DEFINE c   == call[slot]
           Bs(s) == SetToSeq(c.input.svcs[s])
           new == [host |-> c.host, def |-> CHOOSE x \in Definitions : Kind[x] = "generic",
                   name |-> CHOOSE n \in Names : TRUE, src |-> "manual", ctr |-> NoContainer]
           Row(s) == IF s \in c.known /\ db.svc[s] # NoRow THEN [db.svc[s] EXCEPT !.host = c.host] ELSE new
           Next(s, ok) == IF ok THEN [c EXCEPT !.losing = @ \ {s}, !.others = @ \ {s}]
                          ELSE [c EXCEPT !.pc = "refused"]
           Step(s, res) == /\ call' = [call EXCEPT ![slot] = Next(s, res.ok)]
                           /\ Write(res.db, IF res.ok THEN loose \ {s} ELSE loose)
<1>1. /\ c.pc = "services"
      /\ \E s \in NextInput(c) :
             \/ s \in c.known /\ Step(s, UpdateService(db, s, Row(s), Bs(s)))
             \/ s \notin c.known /\ \E twin \in Twins(db, s, Row(s), Bs(s)) :
                                       Step(s, CreateService(db, s, Row(s), Bs(s), twin))
  BY DEF EditService
<1>2. /\ c \in SvcCalls(db) /\ InputsOK(c, db) /\ DbOK(db) /\ db \in DbType
      /\ Sound(db, loose) /\ Exclusive(db, loose)
  BY <1>1, CallTypes, PcTells DEF InvInv
<1>3. ASSUME NEW s \in NextInput(c)
      PROVE  /\ s \in ServiceIds /\ s \in c.losing \cup c.others
             /\ Bs(s) \in Seq(Bindings)
  <2>1. s \in c.losing \cup c.others
    BY DEF NextInput
  <2>2. s \in DOMAIN c.input.svcs
    BY <1>2, <2>1 DEF InputsOK
  <2>3. c.input.svcs \in PartialMaps(ServiceIds, SUBSET Bindings)
    BY <1>2 DEF SvcCalls, EditInputs
  <2>4. s \in ServiceIds /\ c.input.svcs[s] \in SUBSET Bindings
    BY <2>2, <2>3, PartialMap
  <2> QED
    BY <2>1, <2>4, SetToSeqRange
<1>4. c.host \in Rows(db.host) /\ c.host \in HostIds
  BY <1>2, RowTypes DEF SvcCalls
<1>5. new \in SvcRow /\ new.host = c.host /\ new.src = "manual"
  <2>1. (CHOOSE x \in Definitions : Kind[x] = "generic") \in Definitions
    BY InventoryAssumption
  <2>2. (CHOOSE n \in Names : TRUE) \in Names
    BY InventoryAssumption
  <2> QED
    BY <1>4, <2>1, <2>2 DEF SvcRow, Sources
<1> HIDE DEF new, Bs
<1>6. ASSUME NEW s \in ServiceIds, NEW res, Step(s, res), CallOK(Next(s, res.ok), res.db),
             StepOK(db, loose, res.db, (IF res.ok THEN loose \ {s} ELSE loose) \cap Rows(res.db.svc))
      PROVE  Keeps
  <2> DEFINE n == Next(s, res.ok)
  <2>1. db' = res.db /\ loose' = (IF res.ok THEN loose \ {s} ELSE loose) \cap Rows(res.db.svc)
        /\ last' \in Reports \cup {NoReport}
    BY <1>6 DEF Write, InvInv
  <2>2. call' = [call EXCEPT ![slot] = n] /\ CallOK(n, db') /\ StepOK(db, loose, db', loose')
    BY <1>6, <2>1
  <2> HIDE DEF n
  <2> QED
    BY <2>1, <2>2, SlotStep
<1>7. ASSUME NEW s \in NextInput(c), s \in c.known, Step(s, UpdateService(db, s, Row(s), Bs(s)))
      PROVE  Keeps
  <2> DEFINE row == [db.svc[s] EXCEPT !.host = c.host]
             u == UpdateService(db, s, row, Bs(s))
  <2>1. s \in ServicesOf(db, c.host) /\ s \in Rows(db.svc) /\ db.svc[s].host = c.host /\ s \in ServiceIds
    BY <1>2, <1>3, <1>7 DEF InputsOK, ServicesOf
  <2>2. db.svc[s] # NoRow /\ db.svc[s] \in SvcRow
    BY <1>2, <2>1, RowTypes
  <2>3. Row(s) = row /\ row \in SvcRow /\ row.host = c.host
    BY <1>4, <1>7, <2>2 DEF SvcRow
  <2>4. Step(s, u)
    BY <1>7, <2>3
  <2> HIDE DEF row
  <2>5. StepOK(db, loose, u.db, (IF u.ok THEN loose \ {s} ELSE loose) \cap Rows(u.db.svc))
    BY <1>2, <1>3, <1>4, <2>1, <2>3, UpdatedStep
  <2>6. /\ OnlyOf(s, db, u.db)
        /\ u.ok => InOrder(s, u.db) /\ u.db.svc[s] = row
        /\ ~u.ok => u.db.svc[s] \in {row, db.svc[s]}
    BY <1>2, <1>3, <1>4, <2>1, <2>3, UpdateServiceChecks
  <2> HIDE DEF u
  <2>7. s \in ServicesOf(u.db, c.host)
    <3>1. u.db.svc[s] # NoRow /\ u.db.svc[s].host = c.host
      BY <2>1, <2>2, <2>3, <2>6, IdsAssumption
    <3> QED
      BY <2>1, <2>6, <3>1, RowTypes DEF ServicesOf, OnlyOf, DbOK
  <2>8. CallOK(Next(s, u.ok), u.db)
    BY <1>2, <2>1, <2>6, <2>7, EditGoesOn
  <2> HIDE DEF Step, Next
  <2> QED
    BY <1>6, <2>1, <2>4, <2>5, <2>8
<1>8. ASSUME NEW s \in NextInput(c), s \notin c.known, NEW twin \in Twins(db, s, Row(s), Bs(s)),
             Step(s, CreateService(db, s, Row(s), Bs(s), twin))
      PROVE  Keeps
  <2> DEFINE r == CreateService(db, s, new, Bs(s), twin)
  <2>1. Row(s) = new
    BY <1>8
  <2>2. Step(s, r) /\ twin \in Twins(db, s, new, Bs(s))
    BY <1>8, <2>1
  <2>3. s \in ServiceIds /\ s \notin ServicesOf(db, c.host)
    BY <1>2, <1>3, <1>8 DEF InputsOK
  <2>4. ~Upserts(db, s, new, twin)
    BY <1>5, <2>2, <2>3 DEF Upserts, Twins
  <2>5. StepOK(db, loose, r.db, loose \cap Rows(r.db.svc))
    <3>1. new.src # "discovery"
      BY <1>5
    <3> QED
      BY <1>2, <1>3, <1>5, <2>4, <3>1, CreatedStep
  <2>6. \/ r.db = db /\ ~r.ok
        \/ OnlyOf(s, db, r.db) /\ db.svc[s] = NoRow
    BY <1>2, <1>3, <1>5, <2>4, CreateServiceChecks
  <2>7. OnlyOf(s, db, r.db)
    <3>1. OnlyOf(s, db, db)
      BY <1>2 DEF OnlyOf
    <3> HIDE DEF r
    <3> QED
      BY <2>6, <3>1
  <2> HIDE DEF r
  <2>8. StepOK(db, loose, r.db, (IF r.ok THEN loose \ {s} ELSE loose) \cap Rows(r.db.svc))
    <3>1. CASE r.ok
      <4>1. s \notin loose
        BY <1>2, <2>6, <3>1 DEF Sound, Rows
      <4>2. loose \ {s} = loose
        BY <4>1
      <4> QED
        BY <2>5, <3>1, <4>2
    <3>2. CASE ~r.ok
      BY <2>5, <3>2
    <3> QED
      BY <3>1, <3>2
  <2>9. CallOK(Next(s, r.ok), r.db)
    BY <1>2, <1>8, <2>3, <2>7, EditGoesOn
  <2> HIDE DEF Step, Next
  <2> QED
    BY <1>6, <2>2, <2>3, <2>8, <2>9
<1> QED
  BY <1>1, <1>7, <1>8

-----------------------------------------------------------------------------
(* Consolidation *)

\* A consolidation of two hosts arrives.
LEMMA ConsolidateArrivesKeeps ==
    ASSUME InvInv, NEW slot \in Slots, NEW h \in Rows(db.host), NEW o \in Rows(db.host),
           ConsolidateArrives(slot, h, o)
    PROVE  Keeps
<1> DEFINE c == [kind |-> "consolidate", pc |-> "transfer", host |-> h, other |-> o]
<1>1. h # o /\ Begin(slot, c) /\ UNCHANGED <<db, last, loose>>
  BY DEF ConsolidateArrives
<1>2. h \in HostIds /\ o \in HostIds
  BY CallTypes, RowTypes
<1>3. CallOK(c, db)
  BY <1>1, <1>2 DEF CallOK, TransferCalls
<1> HIDE DEF c
<1> QED
  BY <1>1, <1>3, BeginStep

\* Interfaces I and ports P move to a host, whose row is written.
Moving(d, h, row, I, P) ==
    [d EXCEPT !.iface = [x \in DOMAIN @ |-> IF x \in I THEN [@[x] EXCEPT !.host = h] ELSE @[x]],
              !.port = [x \in DOMAIN @ |-> IF x \in P THEN [@[x] EXCEPT !.host = h] ELSE @[x]],
              !.host[h] = row]

\* Moving rows to another host leaves the types and the references as they
\* were.
LEMMA MovingMoves ==
    ASSUME NEW d, DbOK(d), NEW h \in HostIds, NEW row \in HostRow,
           NEW I \in SUBSET Rows(d.iface), NEW P \in SUBSET Rows(d.port)
    PROVE  LET e == Moving(d, h, row, I, P)
           IN  /\ DbOK(e) /\ e.svc = d.svc /\ e.bind = d.bind /\ h \in Rows(e.host)
               /\ \A x \in Rows(d.iface) \ I : e.iface[x] = d.iface[x]
               /\ \A x \in Rows(d.port) \ P : e.port[x] = d.port[x]
<1> DEFINE e == Moving(d, h, row, I, P)
<1>1. /\ d \in DbType /\ I \subseteq IfaceIds /\ P \subseteq PortIds
      /\ \A x \in I : d.iface[x] \in IfaceRow
      /\ \A x \in P : d.port[x] \in PortRow
      /\ DOMAIN d.iface = IfaceIds /\ DOMAIN d.port = PortIds
  BY RowTypes DEF DbOK, DbType
<1>2. /\ e.svc = d.svc /\ e.bind = d.bind /\ e.group = d.group /\ e.daemon = d.daemon
      /\ e.host = [d.host EXCEPT ![h] = row]
      /\ e.iface = [x \in IfaceIds |-> IF x \in I THEN [d.iface[x] EXCEPT !.host = h] ELSE d.iface[x]]
      /\ e.port = [x \in PortIds |-> IF x \in P THEN [d.port[x] EXCEPT !.host = h] ELSE d.port[x]]
  BY <1>1 DEF Moving, DbType
<1> HIDE DEF e
<1>4. /\ \A x \in I : [d.iface[x] EXCEPT !.host = h] \in IfaceRow
      /\ \A x \in P : [d.port[x] EXCEPT !.host = h] \in PortRow
      /\ \A x \in I : [d.iface[x] EXCEPT !.host = h].host = h
      /\ \A x \in P : [d.port[x] EXCEPT !.host = h].host = h
  BY <1>1 DEF IfaceRow, PortRow
<1>5. /\ e.iface \in [IfaceIds -> Opt(IfaceRow)]
      /\ \A x \in IfaceIds : e.iface[x] = IF x \in I THEN [d.iface[x] EXCEPT !.host = h] ELSE d.iface[x]
  BY <1>1, <1>2, <1>4 DEF DbType, Opt
<1>6. /\ e.port \in [PortIds -> Opt(PortRow)]
      /\ \A x \in PortIds : e.port[x] = IF x \in P THEN [d.port[x] EXCEPT !.host = h] ELSE d.port[x]
  BY <1>1, <1>2, <1>4 DEF DbType, Opt
<1>7. /\ e.host \in [HostIds -> Opt(HostRow)] /\ e.host[h] = row
      /\ \A x \in HostIds \ {h} : e.host[x] = d.host[x]
  BY <1>1, <1>2 DEF DbType, Opt
<1>8. e \in DbType
  <2>1. e = [d EXCEPT !.iface = e.iface, !.port = e.port, !.host = e.host]
    BY <1>1, <1>2 DEF e, Moving, DbType
  <2>2. \A A \in [IfaceIds -> Opt(IfaceRow)], B \in [PortIds -> Opt(PortRow)], C \in [HostIds -> Opt(HostRow)] :
           [d EXCEPT !.iface = A, !.port = B, !.host = C] \in DbType
    BY <1>1 DEF DbType
  <2>3. [d EXCEPT !.iface = e.iface, !.port = e.port, !.host = e.host] \in DbType
    BY <1>5, <1>6, <1>7, <2>2
  <2> QED
    BY <2>1, <2>3
<1>9. row # NoRow /\ NoRow \notin IfaceRow /\ NoRow \notin PortRow
  BY IdsAssumption
<1>10. /\ Rows(d.host) = {x \in HostIds : d.host[x] # NoRow} /\ Rows(e.host) = {x \in HostIds : e.host[x] # NoRow}
       /\ Rows(d.iface) = {x \in IfaceIds : d.iface[x] # NoRow} /\ Rows(e.iface) = {x \in IfaceIds : e.iface[x] # NoRow}
       /\ Rows(d.port) = {x \in PortIds : d.port[x] # NoRow} /\ Rows(e.port) = {x \in PortIds : e.port[x] # NoRow}
  BY <1>1, <1>8, RowTypes
<1>11. h \in Rows(e.host) /\ \A x \in Rows(d.host) : x \in Rows(e.host)
  BY <1>7, <1>9, <1>10
<1>12. /\ Rows(e.iface) = Rows(d.iface) /\ \A x \in Rows(d.iface) \ I : e.iface[x] = d.iface[x]
       /\ \A x \in I : e.iface[x].host = h
  <2>1. ASSUME NEW x \in IfaceIds
        PROVE  e.iface[x] # NoRow <=> d.iface[x] # NoRow
    <3>1. CASE x \in I
      BY <1>1, <1>4, <1>5, <1>9, <3>1
    <3>2. CASE x \notin I
      BY <1>5, <3>2
    <3> QED
      BY <3>1, <3>2
  <2> QED
    BY ZenonT(60), <1>1, <1>4, <1>5, <1>10, <2>1
<1>13. /\ Rows(e.port) = Rows(d.port) /\ \A x \in Rows(d.port) \ P : e.port[x] = d.port[x]
       /\ \A x \in P : e.port[x].host = h
  <2>1. ASSUME NEW x \in PortIds
        PROVE  e.port[x] # NoRow <=> d.port[x] # NoRow
    <3>1. CASE x \in P
      BY <1>1, <1>4, <1>6, <1>9, <3>1
    <3>2. CASE x \notin P
      BY <1>6, <3>2
    <3> QED
      BY <3>1, <3>2
  <2> QED
    BY <1>1, <1>4, <1>6, <1>10, <2>1
<1>14. RefsOK(e)
  BY <1>2, <1>11, <1>12, <1>13 DEF DbOK, RefsOK
<1> QED
  BY <1>2, <1>8, <1>11, <1>12, <1>13, <1>14 DEF DbOK, e

\* consolidate_hosts moves the interfaces and ports; the services of the other
\* host are loose until they are moved too.
LEMMA TransferKeeps ==
    ASSUME InvInv, NEW slot \in Slots, Transfer(slot)
    PROVE  Keeps
<1> DEFINE c      == call[slot]
           SameI(i) == {x \in IfacesOf(db, c.host) : SameIface(IfaceRec(db, x), IfaceRec(db, i))}
           SameP(p) == {x \in PortsOf(db, c.host) : db.port[x].num = db.port[p].num}
           ifaces == [i \in IfacesOf(db, c.other) |-> IF SameI(i) = {} THEN i ELSE CHOOSE x \in SameI(i) : TRUE]
           ports  == [p \in PortsOf(db, c.other) |-> IF SameP(p) = {} THEN p ELSE CHOOSE x \in SameP(p) : TRUE]
           Moved(table, map) == [x \in DOMAIN table |-> IF x \in DOMAIN map /\ map[x] = x
                                                        THEN [table[x] EXCEPT !.host = c.host] ELSE table[x]]
           both   == db.host[c.host] # NoRow /\ db.host[c.other] # NoRow
           next   == [kind |-> "consolidate", pc |-> "merge", host |-> c.host, other |-> c.other,
                      ifaces |-> ifaces, ports |-> ports,
                      left |-> ServicesOf(db, c.other), had |-> ServicesOf(db, c.host)]
           e      == [db EXCEPT !.iface = Moved(@, ifaces), !.port = Moved(@, ports),
                                !.host[c.host].src = MergeSource(@, db.host[c.other].src)]
           M      == loose \cup ServicesOf(db, c.other)
           I      == {i \in IfacesOf(db, c.other) : ifaces[i] = i}
           P      == {p \in PortsOf(db, c.other) : ports[p] = p}
           row    == [db.host[c.host] EXCEPT !.src = MergeSource(@, db.host[c.other].src)]
           f      == Moving(db, c.host, row, I, P)
<1>1. /\ c.pc = "transfer"
      /\ \/ call' = [call EXCEPT ![slot] = Idle] /\ Write(db, loose) /\ UNCHANGED count
         \/ both /\ call' = [call EXCEPT ![slot] = next] /\ Write(e, M)
  BY DEF Transfer
<1>2. c \in TransferCalls /\ c.host # c.other /\ DbOK(db) /\ db \in DbType /\ Sound(db, loose)
  BY <1>1, CallTypes, PcTells DEF InvInv
<1>3. c.host \in HostIds /\ c.other \in HostIds
  BY <1>2 DEF TransferCalls
<1>4. CASE call' = [call EXCEPT ![slot] = Idle] /\ Write(db, loose) /\ UNCHANGED count
  BY <1>4, EndStep DEF Continue
<1>5. CASE both /\ call' = [call EXCEPT ![slot] = next] /\ Write(e, M)
  <2>1. /\ IfacesOf(db, c.other) \in SUBSET IfaceIds /\ PortsOf(db, c.other) \in SUBSET PortIds
        /\ IfacesOf(db, c.host) \subseteq IfaceIds /\ PortsOf(db, c.host) \subseteq PortIds
        /\ ServicesOf(db, c.other) \subseteq Rows(db.svc) /\ ServicesOf(db, c.host) \subseteq ServiceIds
    BY <1>2, RowTypes DEF IfacesOf, PortsOf, ServicesOf
  <2>2. ifaces \in [IfacesOf(db, c.other) -> IfaceIds]
    <3>1. \A i : SameI(i) \subseteq IfaceIds
      BY <2>1
    <3> HIDE DEF SameI
    <3>2. ASSUME NEW i \in IfacesOf(db, c.other)
          PROVE  (IF SameI(i) = {} THEN i ELSE CHOOSE x \in SameI(i) : TRUE) \in IfaceIds
      <4>1. SameI(i) # {} => (CHOOSE x \in SameI(i) : TRUE) \in SameI(i)
        OBVIOUS
      <4> QED
        BY <2>1, <3>1, <4>1
    <3> QED
      BY <3>2
  <2>3. ports \in [PortsOf(db, c.other) -> PortIds]
    <3>1. \A i : SameP(i) \subseteq PortIds
      BY <2>1
    <3> HIDE DEF SameP
    <3>2. ASSUME NEW i \in PortsOf(db, c.other)
          PROVE  (IF SameP(i) = {} THEN i ELSE CHOOSE x \in SameP(i) : TRUE) \in PortIds
      <4>1. SameP(i) # {} => (CHOOSE x \in SameP(i) : TRUE) \in SameP(i)
        OBVIOUS
      <4> QED
        BY <2>1, <3>1, <4>1
    <3> QED
      BY <3>2
  <2> HIDE DEF ifaces, ports, SameI, SameP
  <2>4. ifaces \in PartialMaps(IfaceIds, IfaceIds) /\ ports \in PartialMaps(PortIds, PortIds)
    BY <2>1, <2>2, <2>3, PartialMap
  <2>5. db.host[c.host] \in HostRow /\ db.host[c.other] \in HostRow /\ c.host \in Rows(db.host)
    BY <1>2, <1>3, <1>5, RowTypes
  <2>6. row \in HostRow
    BY <2>5 DEF HostRow, MergeSource
  <2>7. I \in SUBSET Rows(db.iface) /\ P \in SUBSET Rows(db.port)
    BY DEF IfacesOf, PortsOf
  <2>8. e = f
    <3>1. Moved(db.iface, ifaces) = [x \in DOMAIN db.iface |-> IF x \in I THEN [db.iface[x] EXCEPT !.host = c.host] ELSE db.iface[x]]
      BY <2>2
    <3>2. Moved(db.port, ports) = [x \in DOMAIN db.port |-> IF x \in P THEN [db.port[x] EXCEPT !.host = c.host] ELSE db.port[x]]
      BY <2>3
    <3> DEFINE A == Moved(db.iface, ifaces)
               B == Moved(db.port, ports)
               X == MergeSource(db.host[c.host].src, db.host[c.other].src)
    <3>3. e = [db EXCEPT !.iface = A, !.port = B, !.host[c.host].src = X]
      OBVIOUS
    <3>4. row = [db.host[c.host] EXCEPT !.src = X]
      OBVIOUS
    <3>5. f = [db EXCEPT !.iface = A, !.port = B, !.host[c.host] = row]
      <4> HIDE DEF I, P, row, A, B
      <4> QED
        BY <3>1, <3>2 DEF Moving, A, B
    <3> HIDE DEF A, B, X, row, e, f
    <3>6. [db EXCEPT !.iface = A, !.port = B, !.host[c.host].src = X]
          = [db EXCEPT !.iface = A, !.port = B, !.host[c.host] = [db.host[c.host] EXCEPT !.src = X]]
      OBVIOUS
    <3> QED
      BY <3>3, <3>4, <3>5, <3>6
  <2> HIDE DEF row
  <2>9. /\ DbOK(f) /\ f.svc = db.svc /\ f.bind = db.bind /\ c.host \in Rows(f.host)
        /\ \A x \in Rows(db.iface) \ I : f.iface[x] = db.iface[x]
        /\ \A x \in Rows(db.port) \ P : f.port[x] = db.port[x]
    <3> HIDE DEF I, P
    <3> QED
      BY ZenonT(60), <1>2, <1>3, <2>6, <2>7, MovingMoves
  <2> HIDE DEF f, e
  <2>10. ASSUME NEW b \in Rows(db.bind), db.bind[b].svc \notin M
         PROVE  /\ db.bind[b].port # NoPort => f.port[db.bind[b].port].host = db.port[db.bind[b].port].host
                /\ db.bind[b].iface # AllIfaces => f.iface[db.bind[b].iface].host = db.iface[db.bind[b].iface].host
    <3> DEFINE s == db.bind[b].svc
               z == [id |-> b, port |-> db.bind[b].port, iface |-> db.bind[b].iface]
    <3>1. s \in Rows(db.svc) \ loose /\ db.svc[s].host # c.other
      BY <1>2, <2>10 DEF DbOK, RefsOK, ServicesOf
    <3>2. z \in BindingsOf(db, s)
      BY <1>2, BindingsAreRows
    <3>3. BelongToHost(db, db.svc[s].host, BindingsOf(db, s))
      BY <1>2, <3>1 DEF Sound
    <3>4. /\ z.port # NoPort => z.port \in PortsOf(db, db.svc[s].host)
          /\ z.iface # AllIfaces => z.iface \in IfacesOf(db, db.svc[s].host)
      <4> HIDE DEF z
      <4> QED
        BY <3>2, <3>3 DEF BelongToHost
    <3>5. /\ db.bind[b].port # NoPort => db.bind[b].port \in Rows(db.port) \ P
          /\ db.bind[b].iface # AllIfaces => db.bind[b].iface \in Rows(db.iface) \ I
      BY <3>1, <3>4 DEF PortsOf, IfacesOf
    <3> QED
      BY <2>9, <3>5
  <2>11. M \subseteq Rows(db.svc) /\ loose \subseteq M
    BY <1>2, <2>1 DEF Sound
  <2>12. StepOK(db, loose, f, M)
    <3> HIDE DEF M
    <3> QED
      BY <1>2, <2>9, <2>10, <2>11, OtherTablesStep
  <2>13. db' = f /\ loose' = M /\ last' \in Reports \cup {NoReport}
    BY <1>5, <2>8, <2>9, <2>11 DEF Write, InvInv
  <2>14. next \in MergeCalls(f)
    BY <1>3, <2>1, <2>4, <2>9 DEF MergeCalls
  <2>15. CallOK(next, f)
    BY <2>14 DEF CallOK
  <2>16. call' = [call EXCEPT ![slot] = next] /\ CallOK(next, db') /\ StepOK(db, loose, db', loose')
    BY <1>5, <2>12, <2>13, <2>15
  <2> HIDE DEF next
  <2> QED
    BY <2>13, <2>16, SlotStep
<1> QED
  BY <1>1, <1>4, <1>5

\* The bindings of a service of the other host, with the ids it had.
LEMMA RemapTyped ==
    ASSUME NEW d, DbOK(d), NEW c \in MergeCalls(d), NEW s
    PROVE  /\ SetToSeq({Remap(c, b) : b \in BindingsOf(d, s)}) \in Seq(Bindings)
           /\ \A b \in ToSet(SetToSeq({Remap(c, b) : b \in BindingsOf(d, s)})) :
                 \E a \in BindingsOf(d, s) : a.id = b.id
<1> DEFINE B == {Remap(c, b) : b \in BindingsOf(d, s)}
<1>1. BindingsOf(d, s) \in SUBSET Bindings
  BY BindingsAreRows DEF DbOK
<1>2. /\ \A x \in DOMAIN c.ports : c.ports[x] \in PortIds
      /\ \A x \in DOMAIN c.ifaces : c.ifaces[x] \in IfaceIds
  <2>1. c.ifaces \in PartialMaps(IfaceIds, IfaceIds) /\ c.ports \in PartialMaps(PortIds, PortIds)
    BY DEF MergeCalls
  <2>2. c.ifaces \in [DOMAIN c.ifaces -> IfaceIds]
    BY <2>1, PartialMap
  <2>3. c.ports \in [DOMAIN c.ports -> PortIds]
    BY <2>1, PartialMap
  <2> QED
    BY <2>2, <2>3
<1>3. \A b \in Bindings : Remap(c, b) \in Bindings /\ Remap(c, b).id = b.id
  BY <1>2 DEF Remap, Bindings
<1>4. B \in SUBSET Bindings
  BY <1>1, <1>3
<1>5. SetToSeq(B) \in Seq(Bindings) /\ ToSet(SetToSeq(B)) \subseteq B
  BY <1>4, SetToSeqRange
<1>6. \A b \in B : \E a \in BindingsOf(d, s) : a.id = b.id
  BY <1>1, <1>3
<1> QED
  BY <1>5, <1>6

\* consolidate_hosts moves one service of the other host, through update_service.
LEMMA MergeServiceKeeps ==
    ASSUME InvInv, NEW slot \in Slots, MergeService(slot)
    PROVE  Keeps
<1> DEFINE c == call[slot]
           Bs(s) == SetToSeq({Remap(c, b) : b \in BindingsOf(db, s)})
           Row(s) == [db.svc[s] EXCEPT !.host = c.host]
           Result(s) == UpdateService(db, s, Row(s), Bs(s))
           Next(s, ok) == IF ok THEN [c EXCEPT !.left = @ \ {s}] ELSE Idle
<1>1. /\ c.pc = "merge"
      /\ \E s \in c.left :
            \/ Continue(slot, Next(s, TRUE), db)
            \/ /\ call' = [call EXCEPT ![slot] = Next(s, Result(s).ok)]
               /\ Write(Result(s).db, IF Result(s).ok THEN loose \ {s} ELSE loose)
  BY DEF MergeService
<1>2. c \in MergeCalls(db) /\ DbOK(db) /\ db \in DbType /\ Sound(db, loose)
  BY <1>1, CallTypes, PcTells DEF InvInv
<1>3. PICK s \in c.left :
            \/ Continue(slot, Next(s, TRUE), db)
            \/ /\ call' = [call EXCEPT ![slot] = Next(s, Result(s).ok)]
               /\ Write(Result(s).db, IF Result(s).ok THEN loose \ {s} ELSE loose)
  BY <1>1
<1>4. s \in Rows(db.svc) /\ s \in ServiceIds /\ db.svc[s] \in SvcRow /\ c.host \in Rows(db.host)
  BY <1>2, RowTypes DEF MergeCalls
<1>5. Row(s) \in SvcRow /\ Row(s).host = c.host
  BY <1>2, <1>4, RowTypes DEF SvcRow
<1>6. Bs(s) \in Seq(Bindings) /\ \A b \in ToSet(Bs(s)) : \E a \in BindingsOf(db, s) : a.id = b.id
  BY <1>2, RemapTyped
<1>7. ASSUME NEW e, DbOK(e), e.host = db.host, \A t \in Rows(db.svc) \ {s} : t \in Rows(e.svc), NEW ok
      PROVE  CallOK(Next(s, ok), e)
  <2>1. [c EXCEPT !.left = @ \ {s}] \in MergeCalls(e)
    BY <1>2, <1>7 DEF MergeCalls
  <2> QED
    BY <2>1 DEF CallOK
<1> HIDE DEF Bs, Row, Next
<1>8. CASE Continue(slot, Next(s, TRUE), db)
  <2>1. CallOK(Next(s, TRUE), db)
    BY <1>2, <1>7
  <2> QED
    BY <1>8, <2>1, ContinueSame
<1>9. CASE /\ call' = [call EXCEPT ![slot] = Next(s, Result(s).ok)]
           /\ Write(Result(s).db, IF Result(s).ok THEN loose \ {s} ELSE loose)
  <2> DEFINE u == Result(s)
             n == Next(s, u.ok)
  <2>1. StepOK(db, loose, u.db, (IF u.ok THEN loose \ {s} ELSE loose) \cap Rows(u.db.svc))
    BY <1>2, <1>4, <1>5, <1>6, UpdatedStep
  <2>2. OnlyOf(s, db, u.db)
    BY <1>2, <1>4, <1>5, <1>6, UpdateServiceChecks
  <2>3. /\ db' = u.db /\ loose' = (IF u.ok THEN loose \ {s} ELSE loose) \cap Rows(u.db.svc)
        /\ last' \in Reports \cup {NoReport} /\ call' = [call EXCEPT ![slot] = n]
    BY <1>9 DEF Write, InvInv
  <2> HIDE DEF Result, u
  <2>4. DbOK(u.db) /\ u.db.host = db.host /\ \A t \in Rows(db.svc) \ {s} : t \in Rows(u.db.svc)
    <3>1. \A t \in Rows(db.svc) : t \in ServiceIds
      BY <1>2, RowTypes
    <3> QED
      BY <1>2, <1>4, <2>2, <3>1, OnlyOfOthersSame DEF OnlyOf
  <2>5. CallOK(n, u.db)
    BY <1>7, <2>4
  <2> HIDE DEF n
  <2>6. CallOK(n, db') /\ StepOK(db, loose, db', loose')
    BY <2>1, <2>3, <2>5
  <2> QED
    BY <2>3, <2>6, SlotStep
<1> QED
  BY <1>3, <1>8, <1>9

\* consolidate_hosts deletes the other host and what is left of it.
LEMMA ConsolidateEndsKeeps ==
    ASSUME InvInv, NEW slot \in Slots, ConsolidateEnds(slot)
    PROVE  Keeps
<1> DEFINE c == call[slot]
           e == Delete(db, "host", {c.other})
<1>1. \/ Continue(slot, Idle, db)
      \/ ~HasDaemon(c.other) /\ Continue(slot, Idle, e)
  BY DEF ConsolidateEnds
<1>2. CASE ~HasDaemon(c.other) /\ Continue(slot, Idle, e)
  <2>1. DbOK(e) /\ Sub(e, db)
    <3>1. {c.other} \cap db.daemon = {}
      BY <1>2 DEF HasDaemon
    <3> QED
      BY <3>1, CallTypes, DeleteOnlyDeletes DEF TableNames
  <2> HIDE DEF e
  <2>2. StepOK(db, loose, e, loose \cap Rows(e.svc))
    BY <2>1, DeletingStep DEF InvInv
  <2>3. CallOK(Idle, e)
    BY DEF CallOK
  <2> QED
    BY <1>2, <2>2, <2>3, ContinueStep
<1> QED
  BY <1>1, <1>2, EndStep

-----------------------------------------------------------------------------
(* Requests for one row *)

\* A DELETE request with its cascade.
LEMMA DeleteRowKeeps ==
    ASSUME InvInv, NEW table \in TableNames, NEW x, DeleteRow(table, x)
    PROVE  Keeps
<1> DEFINE e == Delete(db, table, {x})
<1>1. AtOnce(e, loose) /\ (table = "host" => {x} \cap db.daemon = {})
  BY DEF DeleteRow, HasDaemon
<1>2. DbOK(db) /\ Sound(db, loose)
  BY DEF InvInv, Sound
<1>3. DbOK(e) /\ Sub(e, db)
  BY <1>1, <1>2, DeleteOnlyDeletes
<1> HIDE DEF e
<1>4. StepOK(db, loose, e, loose \cap Rows(e.svc))
  BY <1>2, <1>3, DeletingStep
<1> QED
  BY <1>1, <1>4, AtOnceStep

\* What a user may send as a binding is one, for rows that are there.
LEMMA BindingInputsTyped ==
    ASSUME db \in DbType, NEW id \in BindIds, NEW ps \in SUBSET Rows(db.port), NEW is \in SUBSET Rows(db.iface),
           NEW b \in BindingInputs(id, ps, is)
    PROVE  b \in Bindings /\ b.id = id /\ Named(db, {b})
<1>1. ps \subseteq PortIds /\ is \subseteq IfaceIds
  BY RowTypes
<1> QED
  BY <1>1 DEF BindingInputs, Bindings, Named

\* POST /services goes through create_service.
LEMMA PostServiceKeeps ==
    ASSUME InvInv, NEW h \in Rows(db.host), NEW def \in Definitions, NEW name \in Names, NEW b \in Bindings,
           PostService(h, def, name, b)
    PROVE  Keeps
<1> DEFINE row == [host |-> h, def |-> def, name |-> name, src |-> "manual", ctr |-> NoContainer]
<1>1. PICK s \in Fresh("svc") : \E twin \in Twins(db, s, row, <<b>>) :
         AtOnce(CreateService(db, s, row, <<b>>, twin).db, loose)
  BY DEF PostService
<1>2. PICK twin \in Twins(db, s, row, <<b>>) : AtOnce(CreateService(db, s, row, <<b>>, twin).db, loose)
  BY <1>1
<1>3. DbOK(db) /\ Sound(db, loose) /\ db \in DbType
  BY DEF InvInv, Sound, DbOK
<1>4. row \in SvcRow /\ row.host = h /\ row.src = "manual" /\ <<b>> \in Seq(Bindings)
  BY <1>3, RowTypes DEF SvcRow, Sources
<1>5. s \in ServiceIds /\ s \notin Rows(db.svc)
  BY FreshIsNew, IdsAssumption
<1>6. row.src # "discovery"
  BY <1>4
<1> HIDE DEF row
<1>7. ~Upserts(db, s, row, twin)
  BY <1>4, <1>5 DEF Upserts, Twins, ServicesOf
<1> DEFINE e == CreateService(db, s, row, <<b>>, twin).db
<1>8. StepOK(db, loose, e, loose \cap Rows(e.svc))
  BY <1>3, <1>4, <1>5, <1>6, <1>7, CreatedStep
<1>9. AtOnce(e, loose)
  BY <1>2
<1> HIDE DEF e
<1> QED
  BY <1>8, <1>9, AtOnceStep

\* PUT /services/{id} goes through update_service.
LEMMA PutServiceKeeps ==
    ASSUME InvInv, NEW s \in Rows(db.svc), NEW h \in Rows(db.host), NEW B \in SUBSET Bindings,
           \A b \in B : \E a \in BindingsOf(db, s) : a.id = b.id, PutService(s, h, B)
    PROVE  Keeps
<1> DEFINE row == [db.svc[s] EXCEPT !.host = h]
           u == UpdateService(db, s, row, SetToSeq(B))
           L == IF u.ok THEN loose \ {s} ELSE loose
<1>1. AtOnce(u.db, L)
  BY DEF PutService
<1>2. DbOK(db) /\ Sound(db, loose) /\ db \in DbType
  BY DEF InvInv, Sound, DbOK
<1>3. row \in SvcRow /\ row.host = h
  <2>1. db.svc[s] \in SvcRow /\ h \in HostIds
    BY <1>2, RowTypes
  <2> QED
    BY <2>1 DEF SvcRow
<1>4. SetToSeq(B) \in Seq(Bindings) /\ \A b \in ToSet(SetToSeq(B)) : \E a \in BindingsOf(db, s) : a.id = b.id
  BY SetToSeqRange
<1> HIDE DEF row
<1>5. StepOK(db, loose, u.db, L \cap Rows(u.db.svc))
  BY <1>2, <1>3, <1>4, UpdatedStep
<1> HIDE DEF u, L
<1> QED
  BY <1>1, <1>5, AtOnceStep

\* A row of service s is written among the bindings.
LEMMA BindWritten ==
    ASSUME NEW d, DbOK(d), NEW s \in Rows(d.svc), NEW b \in Bindings, Named(d, {b}),
           d.bind[b.id] # NoRow => d.bind[b.id].svc = s
    PROVE  OnlyOf(s, d, [d EXCEPT !.bind[b.id] = [svc |-> s, port |-> b.port, iface |-> b.iface]])
<1> DEFINE row == [svc |-> s, port |-> b.port, iface |-> b.iface]
           e == [d EXCEPT !.bind[b.id] = row]
<1>1. d \in DbType /\ s \in ServiceIds /\ b.id \in BindIds
  BY RowTypes DEF DbOK, Bindings
<1>2. row \in BindRow /\ row # NoRow /\ row.svc = s /\ row.port = b.port /\ row.iface = b.iface
  BY <1>1, IdsAssumption DEF BindRow, Bindings
<1> HIDE DEF row
<1>3. /\ e.host = d.host /\ e.iface = d.iface /\ e.port = d.port /\ e.svc = d.svc
      /\ e.group = d.group /\ e.daemon = d.daemon /\ e.bind = [d.bind EXCEPT ![b.id] = row]
  BY <1>1 DEF DbType
<1>4. e \in DbType
  BY <1>1, <1>2 DEF DbType, Opt
<1> HIDE DEF e
<1>5. /\ Rows(e.bind) = Rows(d.bind) \cup {b.id} /\ e.bind[b.id] = row
      /\ \A x \in BindIds \ {b.id} : e.bind[x] = d.bind[x]
      /\ Rows(d.bind) \subseteq BindIds
  BY <1>1, <1>2, <1>3 DEF Rows, DbType
<1>6. RefsOK(e)
  <2>1. \A x \in Rows(e.bind) : /\ e.bind[x].svc \in Rows(e.svc)
                                /\ e.bind[x].port \in Rows(e.port) \cup {NoPort}
                                /\ e.bind[x].iface \in Rows(e.iface) \cup {AllIfaces}
    <3> SUFFICES ASSUME NEW x \in Rows(e.bind)
                 PROVE  /\ e.bind[x].svc \in Rows(e.svc)
                        /\ e.bind[x].port \in Rows(e.port) \cup {NoPort}
                        /\ e.bind[x].iface \in Rows(e.iface) \cup {AllIfaces}
      OBVIOUS
    <3>1. CASE x = b.id
      BY <1>2, <1>3, <1>5, <3>1 DEF Named
    <3>2. CASE x # b.id
      BY <1>3, <1>5, <3>2 DEF DbOK, RefsOK
    <3> QED
      BY <3>1, <3>2
  <2> QED
    BY <1>3, <1>5, <2>1 DEF DbOK, RefsOK
<1>7. ASSUME NEW t \in ServiceIds \ {s}
      PROVE  BindingsOf(e, t) = BindingsOf(d, t)
  <2>1. \A x \in Rows(e.bind) : e.bind[x].svc = t => x \in Rows(d.bind) /\ d.bind[x] = e.bind[x]
    BY <1>2, <1>5
  <2>2. \A x \in Rows(d.bind) : d.bind[x].svc = t => x \in Rows(e.bind) /\ d.bind[x] = e.bind[x]
    <3>1. \A x \in Rows(d.bind) : d.bind[x].svc = t => x # b.id
      BY DEF Rows
    <3> QED
      BY <1>5, <3>1
  <2> QED
    BY <2>1, <2>2 DEF BindingsOf
<1> QED
  BY <1>3, <1>4, <1>6, <1>7 DEF OnlyOf, DbOK, e, row

\* A binding is written for a service that becomes loose.
LEMMA RawBindingStep ==
    ASSUME InvInv, NEW s \in Rows(db.svc), NEW k, OnlyOf(s, db, k), k.svc = db.svc,
           NEW b \in Bindings, Named(db, {b}), k.bind[b.id] # NoRow => k.bind[b.id].svc = s,
           AtOnce([k EXCEPT !.bind[b.id] = [svc |-> s, port |-> b.port, iface |-> b.iface]], loose \cup {s})
    PROVE  Keeps
<1> DEFINE e == [k EXCEPT !.bind[b.id] = [svc |-> s, port |-> b.port, iface |-> b.iface]]
<1>1. DbOK(db) /\ Sound(db, loose) /\ db \in DbType /\ s \in ServiceIds
  BY RowTypes DEF InvInv, Sound, DbOK
<1>2. DbOK(k) /\ s \in Rows(k.svc) /\ Named(k, {b})
  BY DEF OnlyOf, Named
<1>3. OnlyOf(s, k, e)
  BY <1>2, BindWritten
<1>4. AtOnce(e, loose \cup {s})
  OBVIOUS
<1> HIDE DEF e
<1>5. OnlyOf(s, db, e)
  BY <1>3 DEF OnlyOf
<1>6. StepOK(db, loose, e, (loose \cup {s}) \cap Rows(e.svc))
  BY <1>1, <1>5, LooseStep
<1> QED
  BY <1>4, <1>6, AtOnceStep

\* POST /bindings skips the checks of ServiceService: the service is loose.
LEMMA PostBindingKeeps ==
    ASSUME InvInv, NEW s \in Rows(db.svc), NEW b \in Bindings, Named(db, {b}), b.id \notin Rows(db.bind),
           PostBinding(s, b)
    PROVE  Keeps
<1> DEFINE ids == {a.id : a \in {a \in BindingsOf(db, s) : Covers(b, a)}}
           k == Delete(db, "bind", ids)
<1>1. AtOnce([k EXCEPT !.bind[b.id] = [svc |-> s, port |-> b.port, iface |-> b.iface]], loose \cup {s})
  BY DEF PostBinding
<1>2. DbOK(db) /\ db \in DbType
  BY DEF InvInv, Sound, DbOK
<1>3. \A x \in ids : x \in Rows(db.bind) /\ db.bind[x].svc = s
  BY <1>2, BindingsAreRows
<1> HIDE DEF ids
<1>4. /\ DbOK(k)
      /\ k.host = db.host /\ k.iface = db.iface /\ k.port = db.port /\ k.svc = db.svc /\ k.daemon = db.daemon
      /\ k.bind = [x \in BindIds |-> IF x \in ids THEN NoRow ELSE db.bind[x]]
  BY <1>2, DeleteBindings
<1> HIDE DEF k
<1>5. Rows(db.bind) = {x \in BindIds : db.bind[x] # NoRow} /\ Rows(k.bind) = {x \in BindIds : k.bind[x] # NoRow}
  BY <1>2, <1>4, RowTypes DEF DbOK
<1>6. ASSUME NEW t \in ServiceIds \ {s}
      PROVE  BindingsOf(k, t) = BindingsOf(db, t)
  <2>1. \A x \in Rows(k.bind) : x \in Rows(db.bind) /\ k.bind[x] = db.bind[x]
    BY <1>4, <1>5
  <2>2. \A x \in Rows(db.bind) : db.bind[x].svc = t => x \in Rows(k.bind)
    BY <1>3, <1>4, <1>5
  <2> QED
    BY <2>1, <2>2 DEF BindingsOf
<1>7. OnlyOf(s, db, k)
  BY <1>4, <1>6 DEF OnlyOf
<1>8. k.bind[b.id] = NoRow
  BY <1>4, <1>5 DEF Bindings
<1> QED
  BY <1>1, <1>4, <1>7, <1>8, RawBindingStep

\* PUT /bindings/{id} skips them too.
LEMMA PutBindingKeeps ==
    ASSUME InvInv, NEW b \in Bindings, Named(db, {b}), b.id \in Rows(db.bind), PutBinding(b)
    PROVE  Keeps
<1> DEFINE s == db.bind[b.id].svc
<1>1. AtOnce([db EXCEPT !.bind[b.id] = [svc |-> s, port |-> b.port, iface |-> b.iface]], loose \cup {s})
  BY DEF PutBinding
<1>2. DbOK(db) /\ s \in Rows(db.svc)
  BY DEF InvInv, Sound, DbOK, RefsOK
<1>3. OnlyOf(s, db, db) /\ db.bind[b.id].svc = s
  BY <1>2 DEF OnlyOf
<1> HIDE DEF s
<1> QED
  BY <1>1, <1>2, <1>3, RawBindingStep

\* POST /ports
LEMMA PostPortKeeps ==
    ASSUME InvInv, NEW h \in Rows(db.host), NEW num \in Numbers, PostPort(h, num)
    PROVE  Keeps
<1> DEFINE row == [host |-> h, num |-> num]
           e(p) == [db EXCEPT !.port[p] = row]
<1>1. PICK p \in Fresh("port") : AtOnce(e(p), loose)
  BY DEF PostPort
<1>2. DbOK(db) /\ Sound(db, loose) /\ db \in DbType
  BY DEF InvInv, Sound, DbOK
<1>3. p \in PortIds /\ p \notin Rows(db.port)
  BY FreshIsNew, IdsAssumption
<1>4. row \in PortRow /\ row.host \in Rows(db.host)
  BY <1>2, RowTypes DEF PortRow
<1> HIDE DEF row
<1>5. /\ DbOK(e(p))
      /\ e(p).host = db.host /\ e(p).iface = db.iface /\ e(p).svc = db.svc /\ e(p).bind = db.bind
      /\ e(p).port[p] = row /\ Rows(e(p).port) = Rows(db.port) \cup {p}
      /\ \A x \in Rows(db.port) \ {p} : e(p).port[x] = db.port[x]
  BY <1>2, <1>3, <1>4, PortWritten
<1> HIDE DEF e
<1>6. StepOK(db, loose, e(p), loose \cap Rows(e(p).svc))
  BY <1>2, <1>3, <1>5, AddingStep
<1> QED
  BY <1>1, <1>6, AtOnceStep

\* POST /interfaces
LEMMA PostIfaceKeeps ==
    ASSUME InvInv, NEW h \in Rows(db.host), NEW ip \in Ips, NEW mac \in Macs \cup {NoMac}, PostIface(h, ip, mac)
    PROVE  Keeps
<1> DEFINE row == [host |-> h, ip |-> ip, mac |-> mac]
           e(p) == [db EXCEPT !.iface[p] = row]
<1>1. PICK p \in Fresh("iface") : AtOnce(e(p), loose)
  BY DEF PostIface
<1>2. DbOK(db) /\ Sound(db, loose) /\ db \in DbType
  BY DEF InvInv, Sound, DbOK
<1>3. p \in IfaceIds /\ p \notin Rows(db.iface)
  BY FreshIsNew, IdsAssumption
<1>4. row \in IfaceRow /\ row.host \in Rows(db.host)
  BY <1>2, RowTypes DEF IfaceRow
<1> HIDE DEF row
<1>5. /\ DbOK(e(p))
      /\ e(p).host = db.host /\ e(p).port = db.port /\ e(p).svc = db.svc /\ e(p).bind = db.bind
      /\ e(p).iface[p] = row /\ Rows(e(p).iface) = Rows(db.iface) \cup {p}
      /\ \A x \in Rows(db.iface) \ {p} : e(p).iface[x] = db.iface[x]
  BY <1>2, <1>3, <1>4, IfaceWritten
<1> HIDE DEF e
<1>6. StepOK(db, loose, e(p), loose \cap Rows(e(p).svc))
  BY <1>2, <1>3, <1>5, AddingStep
<1> QED
  BY <1>1, <1>6, AtOnceStep

\* PUT /ports/{id}: the services bound to the port are loose.
LEMMA PutPortKeeps ==
    ASSUME InvInv, NEW p \in Rows(db.port), NEW h \in Rows(db.host), PutPort(p, h)
    PROVE  Keeps
<1> DEFINE row == [db.port[p] EXCEPT !.host = h]
           e == [db EXCEPT !.port[p] = row]
           bound == {db.bind[b].svc : b \in {x \in Rows(db.bind) : db.bind[x].port = p}}
           M == loose \cup bound
<1>1. AtOnce(e, M)
  BY DEF PutPort
<1>2. DbOK(db) /\ Sound(db, loose) /\ db \in DbType
  BY DEF InvInv, Sound, DbOK
<1>3. row \in PortRow /\ row.host = h /\ p \in PortIds
  <2>1. db.port[p] \in PortRow /\ h \in HostIds /\ p \in PortIds
    BY <1>2, RowTypes
  <2> QED
    BY <2>1 DEF PortRow
<1> HIDE DEF row
<1>4. /\ DbOK(e)
      /\ e.host = db.host /\ e.iface = db.iface /\ e.svc = db.svc /\ e.bind = db.bind
      /\ e.port[p] = row /\ Rows(e.port) = Rows(db.port) \cup {p}
      /\ \A x \in Rows(db.port) \ {p} : e.port[x] = db.port[x]
  BY <1>2, <1>3, PortWritten
<1> HIDE DEF e
<1>5. M \subseteq Rows(db.svc) /\ loose \subseteq M /\ M \cap Rows(e.svc) = M
  BY <1>2, <1>4 DEF Sound, DbOK, RefsOK
<1>6. ASSUME NEW b \in Rows(db.bind), db.bind[b].svc \notin M
      PROVE  /\ db.bind[b].port # NoPort => e.port[db.bind[b].port].host = db.port[db.bind[b].port].host
             /\ db.bind[b].iface # AllIfaces => e.iface[db.bind[b].iface].host = db.iface[db.bind[b].iface].host
  <2>1. db.bind[b].port # p /\ (db.bind[b].port # NoPort => db.bind[b].port \in Rows(db.port))
    BY <1>2, <1>6 DEF DbOK, RefsOK
  <2> QED
    BY <1>4, <2>1
<1> HIDE DEF M
<1>7. StepOK(db, loose, e, M)
  BY <1>2, <1>4, <1>5, <1>6, OtherTablesStep
<1>8. StepOK(db, loose, e, M \cap Rows(e.svc))
  BY <1>5, <1>7
<1> QED
  BY <1>1, <1>8, AtOnceStep

\* PUT /interfaces/{id}: the services bound to the interface are loose.
LEMMA PutIfaceKeeps ==
    ASSUME InvInv, NEW i \in Rows(db.iface), NEW h \in Rows(db.host), PutIface(i, h)
    PROVE  Keeps
<1> DEFINE row == [db.iface[i] EXCEPT !.host = h]
           e == [db EXCEPT !.iface[i] = row]
           bound == {db.bind[b].svc : b \in {x \in Rows(db.bind) : db.bind[x].iface = i}}
           M == loose \cup bound
<1>1. AtOnce(e, M)
  BY DEF PutIface
<1>2. DbOK(db) /\ Sound(db, loose) /\ db \in DbType
  BY DEF InvInv, Sound, DbOK
<1>3. row \in IfaceRow /\ row.host = h /\ i \in IfaceIds
  <2>1. db.iface[i] \in IfaceRow /\ h \in HostIds /\ i \in IfaceIds
    BY <1>2, RowTypes
  <2> QED
    BY <2>1 DEF IfaceRow
<1> HIDE DEF row
<1>4. /\ DbOK(e)
      /\ e.host = db.host /\ e.port = db.port /\ e.svc = db.svc /\ e.bind = db.bind
      /\ e.iface[i] = row /\ Rows(e.iface) = Rows(db.iface) \cup {i}
      /\ \A x \in Rows(db.iface) \ {i} : e.iface[x] = db.iface[x]
  BY <1>2, <1>3, IfaceWritten
<1> HIDE DEF e
<1>5. M \subseteq Rows(db.svc) /\ loose \subseteq M /\ M \cap Rows(e.svc) = M
  BY <1>2, <1>4 DEF Sound, DbOK, RefsOK
<1>6. ASSUME NEW b \in Rows(db.bind), db.bind[b].svc \notin M
      PROVE  /\ db.bind[b].port # NoPort => e.port[db.bind[b].port].host = db.port[db.bind[b].port].host
             /\ db.bind[b].iface # AllIfaces => e.iface[db.bind[b].iface].host = db.iface[db.bind[b].iface].host
  <2>1. db.bind[b].iface # i /\ (db.bind[b].iface # AllIfaces => db.bind[b].iface \in Rows(db.iface))
    BY <1>2, <1>6 DEF DbOK, RefsOK
  <2> QED
    BY <1>4, <2>1
<1> HIDE DEF M
<1>7. StepOK(db, loose, e, M)
  BY <1>2, <1>4, <1>5, <1>6, OtherTablesStep
<1>8. StepOK(db, loose, e, M \cap Rows(e.svc))
  BY <1>5, <1>7
<1> QED
  BY <1>1, <1>8, AtOnceStep

\* Only groups and daemons change.
LEMMA SideStep ==
    ASSUME InvInv, NEW e, e \in DbType, AtOnce(e, loose),
           e.host = db.host, e.iface = db.iface, e.port = db.port, e.svc = db.svc, e.bind = db.bind,
           \A g \in Groups : e.group[g] # NoRow => e.group[g] \subseteq Rows(e.bind),
           e.daemon \subseteq Rows(e.host)
    PROVE  Keeps
<1>1. DbOK(db) /\ Sound(db, loose)
  BY DEF InvInv, Sound
<1>2. DbOK(e)
  BY <1>1 DEF DbOK, RefsOK
<1>3. StepOK(db, loose, e, loose \cap Rows(e.svc))
  BY <1>1, <1>2, AddingStep
<1> QED
  BY <1>3, AtOnceStep

\* A group of bindings is written or deleted.
LEMMA GroupKeeps ==
    ASSUME InvInv, NEW g \in Groups, DeleteGroup(g) \/ \E B \in SUBSET Rows(db.bind) : PutGroup(g, B)
    PROVE  Keeps
<1>1. DbOK(db) /\ db \in DbType
  BY DEF InvInv, Sound, DbOK
<1>2. ASSUME NEW B, AtOnce([db EXCEPT !.group[g] = B], loose), B = NoRow \/ B \in SUBSET Rows(db.bind)
      PROVE  Keeps
  <2> DEFINE e == [db EXCEPT !.group[g] = B]
  <2>1. B \in Opt(SUBSET BindIds)
    BY <1>1, <1>2, RowTypes DEF Opt
  <2>2. e \in DbType
    BY <1>1, <2>1 DEF DbType, Opt
  <2>3. /\ e.host = db.host /\ e.iface = db.iface /\ e.port = db.port /\ e.svc = db.svc /\ e.bind = db.bind
        /\ e.group = [db.group EXCEPT ![g] = B] /\ e.daemon = db.daemon
    BY <1>1 DEF DbType
  <2>4. AtOnce(e, loose)
    BY <1>2
  <2> HIDE DEF e
  <2>5. ASSUME NEW x \in Groups, e.group[x] # NoRow
        PROVE  e.group[x] \subseteq Rows(e.bind)
    <3>1. CASE x = g
      BY <1>1, <1>2, <2>3, <2>5, <3>1 DEF DbType
    <3>2. CASE x # g
      BY <1>1, <2>3, <2>5, <3>2 DEF DbType, DbOK, RefsOK
    <3> QED
      BY <3>1, <3>2
  <2>6. e.daemon \subseteq Rows(e.host)
    BY <1>1, <2>3 DEF DbOK, RefsOK
  <2> QED
    BY <2>2, <2>3, <2>4, <2>5, <2>6, SideStep
<1> QED
  BY <1>2 DEF DeleteGroup, PutGroup

\* A daemon registers on a host or is deleted.
LEMMA DaemonKeeps ==
    ASSUME InvInv, NEW h \in Rows(db.host), RegisterDaemon(h) \/ DeleteDaemon(h)
    PROVE  Keeps
<1>1. DbOK(db) /\ db \in DbType
  BY DEF InvInv, Sound, DbOK
<1>2. ASSUME NEW D \in SUBSET Rows(db.host), AtOnce([db EXCEPT !.daemon = D], loose)
      PROVE  Keeps
  <2> DEFINE e == [db EXCEPT !.daemon = D]
  <2>1. D \in SUBSET HostIds
    BY <1>1, RowTypes
  <2>2. e \in DbType
    BY <1>1, <2>1 DEF DbType
  <2>3. /\ e.host = db.host /\ e.iface = db.iface /\ e.port = db.port /\ e.svc = db.svc /\ e.bind = db.bind
        /\ e.group = db.group /\ e.daemon = D
    BY <1>1 DEF DbType
  <2>4. AtOnce(e, loose)
    BY <1>2
  <2> HIDE DEF e
  <2>5. /\ \A x \in Groups : e.group[x] # NoRow => e.group[x] \subseteq Rows(e.bind)
        /\ e.daemon \subseteq Rows(e.host)
    BY <1>1, <2>3 DEF DbOK, RefsOK
  <2> QED
    BY <2>2, <2>3, <2>4, <2>5, SideStep
<1>3. db.daemon \subseteq Rows(db.host)
  BY <1>1 DEF DbOK, RefsOK
<1>4. CASE RegisterDaemon(h)
  <2>1. AtOnce([db EXCEPT !.daemon = db.daemon \cup {h}], loose)
    BY <1>4 DEF RegisterDaemon
  <2> QED
    BY <1>2, <1>3, <2>1
<1>5. CASE DeleteDaemon(h)
  <2>1. AtOnce([db EXCEPT !.daemon = db.daemon \ {h}], loose)
    BY <1>5 DEF DeleteDaemon
  <2> QED
    BY <1>2, <1>3, <2>1
<1> QED
  BY <1>4, <1>5

-----------------------------------------------------------------------------
(* All steps together *)

\* The tables are empty and no request is under way.
LEMMA InitOK == InvInit => InvInv
<1> SUFFICES ASSUME InvInit PROVE InvInv
  OBVIOUS
<1>1. db \in DbType
  BY DEF InvInit, NoRows, DbType, Opt
<1>2. /\ Rows(db.host) = {} /\ Rows(db.iface) = {} /\ Rows(db.port) = {} /\ Rows(db.svc) = {}
      /\ Rows(db.bind) = {} /\ db.daemon = {} /\ \A g \in Groups : db.group[g] = NoRow
  BY DEF InvInit, NoRows, Rows
<1>3. RefsOK(db)
  BY <1>2 DEF RefsOK
<1>4. Sound(db, loose) /\ Exclusive(db, loose)
  BY <1>1, <1>2, <1>3 DEF Sound, DbOK, Exclusive, InvInit
<1>5. \A slot \in Slots : CallOK(call[slot], db)
  BY DEF InvInit, CallOK
<1> QED
  BY <1>4, <1>5 DEF InvInv, InvInit

\* A step of a report, of POST /hosts/discovery or POST /hosts.
LEMMA ReportStepKeeps ==
    ASSUME InvInv, NEW slot \in Slots, ReportStep(slot)
    PROVE  Keeps
<1>1. CASE \E r \in Reports : DiscoverHost(slot, r) \/ CreateHost(slot, r)
  <2>1. PICK r \in Reports : DiscoverHost(slot, r) \/ CreateHost(slot, r)
    BY <1>1
  <2> QED
    BY <2>1, ReportArrivesKeeps
<1>2. CASE ReportLookup(slot)
  BY <1>2, ReportLookupKeeps
<1>3. CASE ReportHost(slot)
  BY <1>3, ReportHostKeeps
<1>4. CASE ReportIface(slot)
  BY <1>4, ReportIfaceKeeps
<1>5. CASE ReportPort(slot)
  BY <1>5, ReportPortKeeps
<1>6. CASE ReportService(slot)
  BY <1>6, ReportServiceKeeps
<1>7. CASE ReportEnds(slot)
  BY <1>7, ReportEndsKeeps
<1> QED
  BY <1>1, <1>2, <1>3, <1>4, <1>5, <1>6, <1>7 DEF ReportStep

\* A step of an edit, PUT /hosts/{id}.
LEMMA EditStepKeeps ==
    ASSUME InvInv, NEW slot \in Slots, EditStep(slot)
    PROVE  Keeps
<1>1. CASE \E h \in Rows(db.host) : \E e \in EditsOf(db, h) : EditArrives(slot, h, e)
  <2>1. PICK h \in Rows(db.host) : \E e \in EditsOf(db, h) : EditArrives(slot, h, e)
    BY <1>1
  <2>2. PICK e \in EditsOf(db, h) : EditArrives(slot, h, e)
    BY <2>1
  <2> QED
    BY <2>2, EditArrivesKeeps
<1>2. CASE EditHost(slot)
  BY <1>2, EditHostKeeps
<1>3. CASE EditIfaces(slot)
  BY <1>3, EditIfacesKeeps
<1>4. CASE EditPorts(slot)
  BY <1>4, EditPortsKeeps
<1>5. CASE EditRemoved(slot)
  BY <1>5, EditRemovedKeeps
<1>6. CASE EditService(slot)
  BY <1>6, EditServiceKeeps
<1>7. CASE EditEnds(slot)
  BY <1>7, EditEndsKeeps
<1> QED
  BY <1>1, <1>2, <1>3, <1>4, <1>5, <1>6, <1>7 DEF EditStep

\* A step of consolidate_hosts.
LEMMA ConsolidateStepKeeps ==
    ASSUME InvInv, NEW slot \in Slots, ConsolidateStep(slot)
    PROVE  Keeps
<1>1. CASE \E h, o \in Rows(db.host) : ConsolidateArrives(slot, h, o)
  <2>1. PICK h \in Rows(db.host), o \in Rows(db.host) : ConsolidateArrives(slot, h, o)
    BY <1>1
  <2> QED
    BY <2>1, ConsolidateArrivesKeeps
<1>2. CASE Transfer(slot)
  BY <1>2, TransferKeeps
<1>3. CASE MergeService(slot)
  BY <1>3, MergeServiceKeeps
<1>4. CASE ConsolidateEnds(slot)
  BY <1>4, ConsolidateEndsKeeps
<1> QED
  BY <1>1, <1>2, <1>3, <1>4 DEF ConsolidateStep

\* The ids that are new are ids.
LEMMA FreshBindings ==
    ASSUME NEW id \in Fresh("bind")
    PROVE  id \in BindIds /\ id \notin Rows(db.bind)
  BY FreshIsNew, IdsAssumption

\* POST and PUT /services.
LEMMA ServiceStepKeeps ==
    ASSUME InvInv, ServiceStep
    PROVE  Keeps
<1>1. /\ db \in DbType
      /\ \A h : PortsOf(db, h) \in SUBSET Rows(db.port) /\ IfacesOf(db, h) \in SUBSET Rows(db.iface)
  BY DEF InvInv, Sound, DbOK, PortsOf, IfacesOf
<1>2. ASSUME NEW h \in Rows(db.host), NEW def \in Definitions, NEW name \in Names, NEW id \in Fresh("bind"),
             NEW b \in BindingInputs(id, PortsOf(db, h), IfacesOf(db, h)), PostService(h, def, name, b)
      PROVE  Keeps
  <2>1. id \in BindIds
    BY FreshBindings
  <2>2. b \in Bindings
    BY <1>1, <2>1, BindingInputsTyped
  <2> QED
    BY <1>2, <2>2, PostServiceKeeps
<1>3. ASSUME NEW s \in Rows(db.svc), NEW h \in Rows(db.host), PutService(s, h, BindingsOf(db, s))
      PROVE  Keeps
  <2>1. BindingsOf(db, s) \in SUBSET Bindings
    BY <1>1, BindingsAreRows
  <2> QED
    BY <1>3, <2>1, PutServiceKeeps
<1>4. ASSUME NEW s \in Rows(db.svc), NEW h \in Rows(db.host), NEW b \in BindingsOf(db, s),
             NEW x \in BindingInputs(b.id, PortsOf(db, h), IfacesOf(db, h)),
             PutService(s, h, (BindingsOf(db, s) \ {b}) \cup {x})
      PROVE  Keeps
  <2> DEFINE B == (BindingsOf(db, s) \ {b}) \cup {x}
  <2>1. BindingsOf(db, s) \in SUBSET Bindings
    BY <1>1, BindingsAreRows
  <2>2. b.id \in BindIds
    BY <2>1 DEF Bindings
  <2>3. x \in Bindings /\ x.id = b.id
    BY <1>1, <2>2, BindingInputsTyped
  <2>4. B \in SUBSET Bindings /\ \A y \in B : \E a \in BindingsOf(db, s) : a.id = y.id
    BY <2>1, <2>3
  <2>5. PutService(s, h, B)
    BY <1>4
  <2> QED
    BY <2>4, <2>5, PutServiceKeeps
<1>5. \/ \E h \in Rows(db.host), def \in Definitions, name \in Names, id \in Fresh("bind") :
             \E b \in BindingInputs(id, PortsOf(db, h), IfacesOf(db, h)) : PostService(h, def, name, b)
      \/ \E s \in Rows(db.svc), h \in Rows(db.host) :
             \/ PutService(s, h, BindingsOf(db, s))
             \/ \E b \in BindingsOf(db, s) : \E x \in BindingInputs(b.id, PortsOf(db, h), IfacesOf(db, h)) :
                   PutService(s, h, (BindingsOf(db, s) \ {b}) \cup {x})
  BY DEF ServiceStep
<1> QED
  BY <1>2, <1>3, <1>4, <1>5

\* POST and PUT of bindings, ports and interfaces.
LEMMA RawStepKeeps ==
    ASSUME InvInv, RawStep
    PROVE  Keeps
<1>1. /\ db \in DbType /\ Rows(db.bind) \subseteq BindIds
      /\ Rows(db.port) \in SUBSET Rows(db.port) /\ Rows(db.iface) \in SUBSET Rows(db.iface)
  BY RowTypes DEF InvInv, Sound, DbOK
<1>2. ASSUME NEW s \in Rows(db.svc), NEW id \in Fresh("bind"),
             NEW b \in BindingInputs(id, Rows(db.port), Rows(db.iface)), PostBinding(s, b)
      PROVE  Keeps
  <2>1. id \in BindIds /\ id \notin Rows(db.bind)
    BY FreshBindings
  <2>2. b \in Bindings /\ b.id = id /\ Named(db, {b})
    BY <1>1, <2>1, BindingInputsTyped
  <2> QED
    BY <1>2, <2>1, <2>2, PostBindingKeeps
<1>3. ASSUME NEW id \in Rows(db.bind), NEW b \in BindingInputs(id, Rows(db.port), Rows(db.iface)), PutBinding(b)
      PROVE  Keeps
  <2>1. b \in Bindings /\ b.id = id /\ Named(db, {b})
    BY <1>1, BindingInputsTyped
  <2> QED
    BY <1>3, <2>1, PutBindingKeeps
<1>4. ASSUME NEW h \in Rows(db.host), NEW num \in Numbers, PostPort(h, num)
      PROVE  Keeps
  BY <1>4, PostPortKeeps
<1>5. ASSUME NEW h \in Rows(db.host), NEW ip \in Ips, NEW mac \in Macs \cup {NoMac}, PostIface(h, ip, mac)
      PROVE  Keeps
  BY <1>5, PostIfaceKeeps
<1>6. ASSUME NEW p \in Rows(db.port), NEW h \in Rows(db.host), PutPort(p, h)
      PROVE  Keeps
  BY <1>6, PutPortKeeps
<1>7. ASSUME NEW i \in Rows(db.iface), NEW h \in Rows(db.host), PutIface(i, h)
      PROVE  Keeps
  BY <1>7, PutIfaceKeeps
<1> QED
  BY <1>2, <1>3, <1>4, <1>5, <1>6, <1>7 DEF RawStep

\* Every step keeps the invariant and is one of PortRegistry.
LEMMA NextKeeps ==
    ASSUME InvInv, [InvNext]_invVars
    PROVE  Keeps
<1>1. CASE UNCHANGED invVars
  <2>1. UNCHANGED <<db, call, last, loose>>
    BY <1>1 DEF invVars
  <2>2. StepOK(db, loose, db, loose)
    BY NoStep DEF InvInv
  <2>3. StepOK(db, loose, db', loose')
    BY <2>1, <2>2
  <2>4. InvInv'
    BY <2>1 DEF InvInv
  <2> QED
    BY <2>3, <2>4 DEF Keeps
<1>2. ASSUME NEW slot \in Slots,
             ReportStep(slot) \/ EditStep(slot) \/ ConsolidateStep(slot) \/ RequestFails(slot)
      PROVE  Keeps
  BY <1>2, ReportStepKeeps, EditStepKeeps, ConsolidateStepKeeps, FailsKeeps
<1>3. CASE ServiceStep
  BY <1>3, ServiceStepKeeps
<1>4. CASE RawStep
  BY <1>4, RawStepKeeps
<1>5. CASE DeleteStep
  <2>1. PICK table \in TableNames : \E x \in Rows(db[table]) : DeleteRow(table, x)
    BY <1>5 DEF DeleteStep, TableNames
  <2>2. PICK x \in Rows(db[table]) : DeleteRow(table, x)
    BY <2>1
  <2> QED
    BY <2>2, DeleteRowKeeps
<1>6. CASE GroupStep
  <2>1. PICK g \in Groups : DeleteGroup(g) \/ \E B \in SUBSET Rows(db.bind) : PutGroup(g, B)
    BY <1>6 DEF GroupStep
  <2> QED
    BY <2>1, GroupKeeps
<1>7. CASE DaemonStep
  <2>1. PICK h \in Rows(db.host) : RegisterDaemon(h) \/ DeleteDaemon(h)
    BY <1>7 DEF DaemonStep
  <2> QED
    BY <2>1, DaemonKeeps
<1> QED
  BY <1>1, <1>2, <1>3, <1>4, <1>5, <1>6, <1>7 DEF InvNext

\* The tables are always in order.
THEOREM InvInvariant == InvSpec => []InvInv
<1>1. InvInv /\ [InvNext]_invVars => InvInv'
  BY NextKeeps DEF Keeps
<1> QED
  BY <1>1, InitOK, PTL DEF InvSpec

\* The invariant gives the types and the references.
LEMMA TypesFollow == InvInv => InventoryTypeOK
<1> SUFFICES ASSUME InvInv PROVE InventoryTypeOK
  OBVIOUS
<1>1. db \in DbType /\ RefsOK(db) /\ loose \subseteq Rows(db.svc) /\ last \in Reports \cup {NoReport}
  BY DEF InvInv, Sound, DbOK
<1>2. /\ db.host \in [HostIds -> Opt(HostRow)] /\ db.iface \in [IfaceIds -> Opt(IfaceRow)]
      /\ db.port \in [PortIds -> Opt(PortRow)] /\ db.svc \in [ServiceIds -> Opt(SvcRow)]
      /\ db.bind \in [BindIds -> Opt(BindRow)] /\ db.group \in [Groups -> Opt(SUBSET BindIds)]
  BY <1>1 DEF DbType
<1>3. ASSUME NEW i \in IfaceIds
      PROVE  db.iface[i] \in Opt([host : Rows(db.host), ip : Ips, mac : Macs \cup {NoMac}])
  <2>1. db.iface[i] # NoRow => db.iface[i] \in IfaceRow /\ db.iface[i].host \in Rows(db.host)
    BY <1>1, <1>2 DEF RefsOK, Rows, Opt
  <2> QED
    BY <2>1 DEF IfaceRow, Opt
<1>4. ASSUME NEW p \in PortIds
      PROVE  db.port[p] \in Opt([host : Rows(db.host), num : Numbers])
  <2>1. db.port[p] # NoRow => db.port[p] \in PortRow /\ db.port[p].host \in Rows(db.host)
    BY <1>1, <1>2 DEF RefsOK, Rows, Opt
  <2> QED
    BY <2>1 DEF PortRow, Opt
<1>5. ASSUME NEW s \in ServiceIds
      PROVE  db.svc[s] \in Opt([host : Rows(db.host), def : Definitions, name : Names,
                                src : Sources, ctr : Containers \cup {NoContainer}])
  <2>1. db.svc[s] # NoRow => db.svc[s] \in SvcRow /\ db.svc[s].host \in Rows(db.host)
    BY <1>1, <1>2 DEF RefsOK, Rows, Opt
  <2> QED
    BY <2>1 DEF SvcRow, Opt
<1>6. ASSUME NEW b \in BindIds
      PROVE  db.bind[b] \in Opt([svc : Rows(db.svc), port : Rows(db.port) \cup {NoPort},
                                 iface : Rows(db.iface) \cup {AllIfaces}])
  <2>1. db.bind[b] # NoRow => /\ db.bind[b] \in BindRow /\ db.bind[b].svc \in Rows(db.svc)
                              /\ db.bind[b].port \in Rows(db.port) \cup {NoPort}
                              /\ db.bind[b].iface \in Rows(db.iface) \cup {AllIfaces}
    BY <1>1, <1>2 DEF RefsOK, Rows, Opt
  <2> QED
    BY <2>1 DEF BindRow, Opt
<1>7. ASSUME NEW g \in Groups
      PROVE  db.group[g] \in Opt(SUBSET Rows(db.bind))
  BY <1>1, <1>2 DEF RefsOK, Opt
<1>8. db.daemon \subseteq Rows(db.host)
  BY <1>1 DEF RefsOK
<1> QED
  BY <1>1, <1>2, <1>3, <1>4, <1>5, <1>6, <1>7, <1>8 DEF InventoryTypeOK

\* Whatever reports, edits, consolidations, deletions and failures in between:
\* the tables hold rows of their types, ON DELETE CASCADE leaves no reference
\* to a row that is gone, and what is written refers to rows that are there.
THEOREM InventoryTypes == InvSpec => []InventoryTypeOK
  BY InvInvariant, TypesFollow, PTL

\* A binding of a service that only ServiceService has changed is for a port
\* and an interface of the host of the service, also after its host, its port
\* or another service was deleted, edited or consolidated
\* (validate_bindings_belong_to_host).
THEOREM OnOwnHost == InvSpec => []BindingsOnOwnHost
<1>1. InvInv => BindingsOnOwnHost
  BY DEF InvInv, Sound, BindingsOnOwnHost
<1> QED
  BY <1>1, InvInvariant, PTL

\* The bindings of such a service agree: deduplicate_bindings and the loop of
\* upsert_service leave no binding twice, none redundant and none for a whole
\* interface next to one for a port on it.
THEOREM BindingsAgree == InvSpec => []ServiceBindingsAgree
<1>1. InvInv => ServiceBindingsAgree
  BY DEF InvInv, Sound, Agreeing, ServiceBindingsAgree
<1> QED
  BY <1>1, InvInvariant, PTL

\* The claims PortRegistry is given.
LEMMA ClaimsAreIn == Claims = ClaimsIn(db, loose)
  BY DEF Claims, ClaimsOf, ClaimsIn, PortClaims

\* They are claims.
LEMMA ClaimsTyped ==
    ASSUME NEW d, NEW L, Sound(d, L)
    PROVE  ClaimsIn(d, L) \in [ServiceIds -> SUBSET Registry!Claim]
<1>1. ASSUME NEW s \in ServiceIds
      PROVE  PortClaims(BindingsOf(d, s)) \subseteq Registry!Claim
  <2>1. BindingsOf(d, s) \in SUBSET Bindings
    BY BindingsAreRows DEF Sound, DbOK
  <2>2. \A b \in BindingsOf(d, s) : /\ b.port \in PortIds \cup {NoPort}
                                    /\ b.iface \in IfaceIds \cup {AllIfaces}
    BY <2>1 DEF Bindings
  <2> QED
    BY <2>2 DEF PortClaims, Registry!Claim
<1> QED
  BY <1>1 DEF ClaimsIn

\* The detailed specification implements the abstract one: every step of a
\* request is a step of PortRegistry, in which a service is given a port only
\* while no other has it (validate_bindings_available,
\* partition_conflicting_bindings).
THEOREM InventoryImplementsRegistry == InvSpec => ImplementsPortRegistry
<1>1. InvInit => Registry!RegistryInit
  <2> SUFFICES ASSUME InvInit PROVE Registry!RegistryInit
    OBVIOUS
  <2>1. InvInv /\ Rows(db.svc) = {} /\ loose = {}
    BY InitOK DEF InvInit, NoRows, Rows
  <2>2. \A s \in ServiceIds : BindingsOf(db, s) = {}
    BY <2>1, NoServiceNoBindings DEF InvInv, Sound
  <2>3. \A s \in ServiceIds : ClaimsOf(s) = {}
    BY <2>2 DEF ClaimsOf
  <2> QED
    BY <2>3 DEF Registry!RegistryInit, Claims
<1>2. InvInv /\ [InvNext]_invVars => [Registry!RegistryNext]_Claims
  <2> SUFFICES ASSUME InvInv, [InvNext]_invVars PROVE Registry!RegistryNext
    OBVIOUS
  <2>1. InvInv' /\ StepOK(db, loose, db', loose')
    BY NextKeeps DEF Keeps
  <2>2. Claims = ClaimsIn(db, loose) /\ Claims' = ClaimsIn(db', loose')
    BY ClaimsAreIn DEF ClaimsIn, PortClaims, Claims, ClaimsOf, BindingsOf
  <2>3. Claims' \in [ServiceIds -> SUBSET Registry!Claim]
    BY <2>1, <2>2, ClaimsTyped DEF StepOK
  <2>4. CASE Revokes(ClaimsIn(db, loose), ClaimsIn(db', loose'))
    <3>1. Registry!Revoke
      BY <2>2, <2>3, <2>4 DEF Registry!Revoke, Revokes
    <3> QED
      BY <3>1 DEF Registry!RegistryNext
  <2>5. ASSUME NEW s \in ServiceIds, Assigns(s, ClaimsIn(db, loose), ClaimsIn(db', loose'))
        PROVE  Registry!RegistryNext
    <3>1. Registry!Assign(s)
      BY <2>2, <2>3, <2>5 DEF Registry!Assign, Registry!Free, Assigns
    <3> QED
      BY <3>1 DEF Registry!RegistryNext
  <2> QED
    BY <2>1, <2>4, <2>5 DEF StepOK
<1> QED
  BY <1>1, <1>2, InvInvariant, PTL DEF InvSpec, ImplementsPortRegistry, Registry!RegistrySpec

\* Overlap does not depend on which claim was there first.
LEMMA OverlapIsSymmetric ==
    ASSUME NEW a, NEW b
    PROVE  Registry!Overlap(a, b) <=> Registry!Overlap(b, a)
  BY DEF Registry!Overlap

\* The promise of PortRegistry: when claims are assigned only while they are
\* free, no two services ever hold overlapping ones.
THEOREM ExclusiveClaims == Registry!RegistrySpec => []Registry!PortHeldOnce
<1> DEFINE TypeOK == Claims \in [ServiceIds -> SUBSET Registry!Claim]
<1>1. Registry!RegistryInit => TypeOK /\ Registry!PortHeldOnce
  BY DEF Registry!RegistryInit, Registry!PortHeldOnce
<1>2. TypeOK /\ Registry!PortHeldOnce /\ [Registry!RegistryNext]_Claims => TypeOK' /\ Registry!PortHeldOnce'
  <2> SUFFICES ASSUME TypeOK, Registry!PortHeldOnce, [Registry!RegistryNext]_Claims
               PROVE  TypeOK' /\ Registry!PortHeldOnce'
    OBVIOUS
  <2>1. ASSUME NEW s \in ServiceIds, Registry!Assign(s)
        PROVE  TypeOK' /\ Registry!PortHeldOnce'
    <3>1. /\ \A t \in ServiceIds \ {s} : Claims'[t] = Claims[t]
          /\ \A t \in ServiceIds \ {s} : \A a \in Claims[t], b \in Claims'[s] : ~Registry!Overlap(a, b)
          /\ TypeOK'
      BY <2>1 DEF Registry!Assign, Registry!Free
    <3>2. ASSUME NEW t \in ServiceIds, NEW u \in ServiceIds, t # u, NEW a \in Claims'[t], NEW b \in Claims'[u]
          PROVE  ~Registry!Overlap(a, b)
      <4>1. CASE t = s
        <5>1. ~Registry!Overlap(b, a)
          BY <3>1, <3>2, <4>1
        <5> QED
          BY <5>1, OverlapIsSymmetric
      <4>2. CASE u = s
        BY <3>1, <3>2, <4>2
      <4>3. CASE t # s /\ u # s
        BY <3>1, <3>2, <4>3 DEF Registry!PortHeldOnce
      <4> QED
        BY <4>1, <4>2, <4>3
    <3> QED
      BY <3>1, <3>2 DEF Registry!PortHeldOnce
  <2>2. CASE Registry!Revoke
    BY <2>2 DEF Registry!Revoke, Registry!PortHeldOnce
  <2>3. CASE UNCHANGED Claims
    BY <2>3 DEF Registry!PortHeldOnce
  <2> QED
    BY <2>1, <2>2, <2>3 DEF Registry!RegistryNext
<1> QED
  BY <1>1, <1>2, PTL DEF Registry!RegistrySpec

\* Two services that only ServiceService has changed never have the same port
\* on a common interface.
THEOREM HeldOnce == InvSpec => []Registry!PortHeldOnce
  BY InventoryImplementsRegistry, ExclusiveClaims, PTL DEF ImplementsPortRegistry
=============================================================================
