---------------------------- MODULE HostScanProofs ----------------------------
(***************************************************************************)
(* What the scan of any host promises, for every catalogue that has the    *)
(* properties CatalogueAssumption and SpecificAssumption state.            *)
(*                                                                         *)
(* The argument has three parts.  What a pattern claims lies among the     *)
(* ports that are unbound and those that answered (Results).  Claims of    *)
(* other definitions only take ports away from a specific definition       *)
(* (Follows), so one that matched the scanned ports and matches no longer  *)
(* has lost a port.  And the services that are reported are the matched    *)
(* ones in another order (SortedKeepsAll).                                 *)
(***************************************************************************)
EXTENDS HostScan, FiniteSetTheorems, TLAPS


-----------------------------------------------------------------------------
(* What a pattern claims                                                   *)

\* A result claims ports of X and has a confidence.
Results(X) == [ports : SUBSET X, confidence : 0..3]

\* The best of some confidences is one of them.
LEMMA MaxIsThere ==
    ASSUME NEW S \in SUBSET (0..3), S # {}
    PROVE  MaxConfidence(S) \in S
<1>1. \E c \in S : \A d \in S : d <= c
  <2>1. CASE 3 \in S
    BY <2>1
  <2>2. CASE 3 \notin S /\ 2 \in S
    BY <2>2
  <2>3. CASE 3 \notin S /\ 2 \notin S /\ 1 \in S
    BY <2>3
  <2>4. CASE 3 \notin S /\ 2 \notin S /\ 1 \notin S
    <3>1. \A d \in S : d = 0
      BY <2>4
    <3>2. PICK c \in S : TRUE
      OBVIOUS
    <3>3. \A d \in S : d <= c
      BY <3>1, <3>2
    <3> QED
      BY <3>2, <3>3
  <2> QED
    BY <2>1, <2>2, <2>3, <2>4
<1> QED
  BY <1>1 DEF MaxConfidence

\* Choices of results of children are merged into a result.
LEMMA MergedIsResult ==
    ASSUME NEW X, NEW choice, \A i \in DOMAIN choice : choice[i] \in Results(X)
    PROVE  Merge(choice, AnyConfidence(choice)) \in Results(X) /\ Merge(choice, AllConfidence(choice)) \in Results(X)
<1> DEFINE S == {Low} \cup {choice[i].confidence : i \in DOMAIN choice}
           P == UNION {choice[i].ports : i \in DOMAIN choice}
<1>1. S \in SUBSET (0..3) /\ S # {}
  BY DEF Results, Low
<1>2. MaxConfidence(S) \in 0..3
  BY <1>1, MaxIsThere
<1>3. AnyConfidence(choice) \in 0..3
  BY <1>2 DEF AnyConfidence
<1>4. AllConfidence(choice) \in 0..3
  <2> HIDE DEF S
  <2>1. AllConfidence(choice) = IF MaxConfidence(S) \in {Low, Medium} /\ Cardinality(DOMAIN choice) > 3
                                THEN MaxConfidence(S) + 1 ELSE MaxConfidence(S)
    BY DEF AllConfidence, S
  <2> QED
    BY <1>2, <2>1 DEF Low, Medium
<1>5. P \in SUBSET X
  BY DEF Results
<1> QED
  BY <1>3, <1>4, <1>5 DEF Merge, Results

\* What one pattern claims is unbound or has answered, when that is so of the
\* patterns it combines.
LEMMA OneResult ==
    ASSUME NEW p, NEW params, NEW children, NEW X, params.unbound \subseteq X,
           \A r \in params.responses : r.port \in X, \A i \in DOMAIN children : children[i] \subseteq Results(X)
    PROVE  OutcomesFrom(p, params, children) \subseteq Results(X)
<1>1. \A P, c : P \subseteq X /\ c \in 0..3 => Matched(P, c) \subseteq Results(X)
  BY DEF Matched, Results
<1>2. /\ \A c \in {NotApplicable, Low, Medium, High} : c \in 0..3
  BY DEF NotApplicable, Low, Medium, High
<1>3. PortOutcome(p, params) \subseteq Results(X)
  BY <1>1, <1>2 DEF PortOutcome
<1>4. HeaderOutcome(p, params) \subseteq Results(X)
  <2>1. \A r \in params.responses : Matched({r.port}, High) \subseteq Results(X)
    BY <1>1, <1>2
  <2> QED
    BY <2>1 DEF HeaderOutcome
<1>5. EndpointOutcome(p, params) \subseteq Results(X)
  <2>1. \A r \in params.responses : Matched({r.port}, High) \subseteq Results(X)
    BY <1>1, <1>2
  <2> QED
    BY <2>1 DEF EndpointOutcome
<1>6. VendorOutcome(p, params) \subseteq Results(X)
  BY <1>1, <1>2 DEF VendorOutcome
<1>7. NotOutcome(children) \subseteq Results(X)
  BY <1>1, <1>2 DEF NotOutcome
<1>8. GatewayOutcome(params) \subseteq Results(X) /\ SubnetOutcome(p, params) \subseteq Results(X)
  BY <1>1, <1>2 DEF GatewayOutcome, SubnetOutcome
<1>9. CustomOutcome(p, params) \subseteq Results(X) /\ ContainerOutcome(params) \subseteq Results(X)
  BY <1>1, <1>2 DEF CustomOutcome, ContainerOutcome
<1>10. ASSUME NEW I \in SUBSET DOMAIN children, NEW c \in Selections(children, I)
       PROVE  Merge(c, AnyConfidence(c)) \in Results(X) /\ Merge(c, AllConfidence(c)) \in Results(X)
  <2>1. DOMAIN c = I /\ \A i \in I : c[i] \in children[i]
    BY DEF Selections
  <2> QED
    BY <2>1, MergedIsResult
<1>11. AnyOutcome(children) \subseteq Results(X)
  BY <1>10 DEF AnyOutcome
<1>12. AllOutcome(children) \subseteq Results(X)
  BY <1>10 DEF AllOutcome
<1> QED
  BY <1>3, <1>4, <1>5, <1>6, <1>7, <1>8, <1>9, <1>11, <1>12 DEF OutcomesFrom

\* What a pattern claims is unbound or has answered.
LEMMA OutcomesAreResults ==
    ASSUME NEW p, NEW params, NEW X, params.unbound \subseteq X, \A r \in params.responses : r.port \in X
    PROVE  Outcomes(p, params) \subseteq Results(X)
<1>1. ASSUME NEW q
      PROVE  SimpleOutcomes(q, params) \subseteq Results(X)
  BY OneResult DEF SimpleOutcomes
<1>2. ASSUME NEW q
      PROVE  NestedOutcomes(q, params) \subseteq Results(X)
  <2> DEFINE children == [i \in DOMAIN q.of |-> SimpleOutcomes(q.of[i], params)]
  <2>1. \A i \in DOMAIN children : children[i] \subseteq Results(X)
    BY <1>1
  <2> HIDE DEF children
  <2>2. OutcomesFrom(q, params, children) \subseteq Results(X)
    BY <2>1, OneResult
  <2> QED
    BY <2>2 DEF NestedOutcomes, children
<1>3. QED
  <2> DEFINE children == [i \in DOMAIN p.of |-> NestedOutcomes(p.of[i], params)]
  <2>1. \A i \in DOMAIN children : children[i] \subseteq Results(X)
    BY <1>2
  <2> HIDE DEF children
  <2>2. OutcomesFrom(p, params, children) \subseteq Results(X)
    BY <2>1, OneResult
  <2> QED
    BY <2>2 DEF Outcomes, children

-----------------------------------------------------------------------------
(* What is left when other definitions have claimed ports                  *)

\* Results A with all ports, results B when the ports T are taken: a result in A
\* that needs no port of T is in B, and what matches without T matches with it.
Follows(A, B, T) ==
    /\ \A m \in A : m.ports \cap T = {} => m \in B
    /\ B # {} => A # {}

\* Parameters a with all ports and b when the ports T are taken.
Takes(a, b, T) ==
    /\ a.host = b.host /\ a.responses = b.responses /\ a.otherPorts = b.otherPorts /\ a.vendor = b.vendor
    /\ b.unbound \subseteq a.unbound /\ a.unbound \ T \subseteq b.unbound

\* What a selection is.
LEMMA SelectionIs ==
    ASSUME NEW o, NEW I, NEW c, c = [i \in I |-> c[i]], \A i \in I : c[i] \in o[i]
    PROVE  c \in Selections(o, I)
<1>1. \A i \in I : c[i] \in UNION {o[j] : j \in I}
  OBVIOUS
<1>2. [i \in I |-> c[i]] \in [I -> UNION {o[j] : j \in I}]
  BY <1>1
<1>3. c \in [I -> UNION {o[j] : j \in I}]
  BY <1>2
<1> QED
  BY <1>3 DEF Selections

\* A selection takes one of the results of every index.
LEMMA SelectionHas ==
    ASSUME NEW o, NEW I, NEW c \in Selections(o, I)
    PROVE  DOMAIN c = I /\ c = [i \in I |-> c[i]] /\ \A i \in I : c[i] \in o[i]
  BY DEF Selections

\* Where every index has results there is a selection.
LEMMA SelectionExists ==
    ASSUME NEW o, NEW I, \A i \in I : o[i] # {}
    PROVE  Selections(o, I) # {}
<1> DEFINE c == [i \in I |-> CHOOSE x \in o[i] : TRUE]
<1>1. c = [i \in I |-> c[i]] /\ \A i \in I : c[i] \in o[i]
  OBVIOUS
<1> HIDE DEF c
<1>2. c \in Selections(o, I)
  BY <1>1, SelectionIs
<1> QED
  BY <1>2

\* A selection of the results A whose ports are not taken is one of the results B.
LEMMA SelectionFollows ==
    ASSUME NEW A, NEW B, NEW T, NEW I, \A i \in I : Follows(A[i], B[i], T),
           NEW c \in Selections(A, I), NEW k, Merge(c, k).ports \cap T = {}
    PROVE  c \in Selections(B, I)
<1>1. DOMAIN c = I /\ c = [i \in I |-> c[i]] /\ \A i \in I : c[i] \in A[i]
  BY SelectionHas
<1>2. Merge(c, k).ports = UNION {c[i].ports : i \in I}
  BY <1>1 DEF Merge
<1>3. ASSUME NEW i \in I
      PROVE  c[i] \in B[i]
  <2>1. c[i].ports \subseteq Merge(c, k).ports
    BY <1>2
  <2>2. c[i].ports \cap T = {}
    BY <2>1
  <2> QED
    BY <1>1, <2>2 DEF Follows
<1> QED
  BY <1>1, <1>3, SelectionIs

\* AnyOf: a merged result that needs no taken port is a merged result without those
\* ports, since then no child stops matching.
LEMMA AnyFollows ==
    ASSUME NEW A, NEW B, NEW T, DOMAIN A = DOMAIN B, \A i \in DOMAIN A : Follows(A[i], B[i], T)
    PROVE  Follows(AnyOutcome(A), AnyOutcome(B), T)
<1> DEFINE I == {i \in DOMAIN A : A[i] # {}}
           J == {i \in DOMAIN B : B[i] # {}}
<1>1. J \subseteq I
  BY DEF Follows
<1>2. /\ AnyOutcome(A) = IF I = {} THEN {} ELSE {Merge(c, AnyConfidence(c)) : c \in Selections(A, I)}
      /\ AnyOutcome(B) = IF J = {} THEN {} ELSE {Merge(c, AnyConfidence(c)) : c \in Selections(B, J)}
  BY DEF AnyOutcome
<1>3. ASSUME NEW m \in AnyOutcome(A), m.ports \cap T = {}
      PROVE  m \in AnyOutcome(B)
  <2>1. I # {}
    BY <1>2
  <2>2. PICK c \in Selections(A, I) : m = Merge(c, AnyConfidence(c))
    BY <1>2, <2>1
  <2>3. \A i \in I : Follows(A[i], B[i], T)
    OBVIOUS
  <2> HIDE DEF I, J
  <2>4. c \in Selections(B, I)
    BY <1>3, <2>2, <2>3, SelectionFollows
  <2>5. \A i \in I : B[i] # {} /\ i \in DOMAIN B
    BY <2>4, SelectionHas DEF I
  <2>6. I = J
    BY <1>1, <2>5 DEF J
  <2> QED
    BY <1>2, <2>1, <2>2, <2>4, <2>6
<1>4. ASSUME AnyOutcome(B) # {}
      PROVE  AnyOutcome(A) # {}
  <2>1. J # {}
    BY <1>2, <1>4
  <2>2. I # {} /\ \A i \in I : A[i] # {}
    BY <1>1, <2>1
  <2> HIDE DEF I, J
  <2>3. Selections(A, I) # {}
    BY <2>2, SelectionExists
  <2> QED
    BY <1>2, <2>2, <2>3
<1> QED
  BY <1>3, <1>4 DEF Follows

\* AllOf, the same.
LEMMA AllFollows ==
    ASSUME NEW A, NEW B, NEW T, DOMAIN A = DOMAIN B, \A i \in DOMAIN A : Follows(A[i], B[i], T)
    PROVE  Follows(AllOutcome(A), AllOutcome(B), T)
<1> DEFINE I == DOMAIN A
<1>1. ASSUME NEW m \in AllOutcome(A), m.ports \cap T = {}
      PROVE  m \in AllOutcome(B)
  <2>1. PICK c \in Selections(A, I) : m = Merge(c, AllConfidence(c))
    BY DEF AllOutcome
  <2>2. c \in Selections(B, I)
    BY <1>1, <2>1, SelectionFollows
  <2>3. \A i \in I : B[i] # {}
    BY <2>2, SelectionHas
  <2> QED
    BY <2>1, <2>2, <2>3 DEF AllOutcome
<1>2. ASSUME AllOutcome(B) # {}
      PROVE  AllOutcome(A) # {}
  <2>1. \A i \in I : B[i] # {}
    BY <1>2 DEF AllOutcome
  <2>2. \A i \in I : A[i] # {}
    BY <2>1 DEF Follows
  <2>3. Selections(A, I) # {}
    BY <2>2, SelectionExists
  <2> QED
    BY <2>2, <2>3 DEF AllOutcome
<1> QED
  BY <1>1, <1>2 DEF Follows

\* A pattern that combines none and asks for no port does not see who took what.
LEMMA SteadySame ==
    ASSUME NEW p, NEW a, NEW b, NEW T, Takes(a, b, T), Plain(p), p.kind # "Port", NEW x, NEW y
    PROVE  OutcomesFrom(p, a, x) = OutcomesFrom(p, b, y)
<1>1. p.kind \notin {"Port", "Custom", "AnyOf", "AllOf", "Not"}
  BY DEF Plain, Combines
<1>2. /\ HeaderOutcome(p, a) = HeaderOutcome(p, b) /\ EndpointOutcome(p, a) = EndpointOutcome(p, b)
      /\ VendorOutcome(p, a) = VendorOutcome(p, b)
  BY DEF Takes, HeaderOutcome, EndpointOutcome, VendorOutcome
<1>3. /\ GatewayOutcome(a) = GatewayOutcome(b) /\ SubnetOutcome(p, a) = SubnetOutcome(p, b)
      /\ ContainerOutcome(a) = ContainerOutcome(b)
  BY DEF Takes, GatewayOutcome, SubnetOutcome, ContainerOutcome
<1> QED
  BY <1>1, <1>2, <1>3 DEF OutcomesFrom

\* A pattern that combines none matches as before unless its port is taken.
LEMMA PlainFollows ==
    ASSUME NEW p, NEW a, NEW b, NEW T, Takes(a, b, T), Plain(p), NEW x, NEW y
    PROVE  Follows(OutcomesFrom(p, a, x), OutcomesFrom(p, b, y), T)
<1>1. CASE p.kind = "Port"
  <2>1. OutcomesFrom(p, a, x) = PortOutcome(p, a) /\ OutcomesFrom(p, b, y) = PortOutcome(p, b)
    BY <1>1 DEF OutcomesFrom
  <2> DEFINE k(q) == IF p.port.custom /\ p.port.config \notin q.otherPorts THEN Medium ELSE Low
             m == [ports |-> {p.port.config}, confidence |-> k(a)]
  <2>2. k(a) = k(b)
    BY DEF Takes
  <2>3. /\ PortOutcome(p, a) = IF p.port.config \notin a.unbound THEN {} ELSE {m}
        /\ PortOutcome(p, b) = IF p.port.config \notin b.unbound THEN {} ELSE {m}
    BY <2>2 DEF PortOutcome, Matched
  <2>4. m.ports = {p.port.config}
    OBVIOUS
  <2> HIDE DEF m
  <2> QED
    BY <2>1, <2>3, <2>4 DEF Follows, Takes
<1>2. CASE p.kind # "Port"
  <2>1. OutcomesFrom(p, a, x) = OutcomesFrom(p, b, y)
    BY <1>2, SteadySame
  <2> QED
    BY <2>1 DEF Follows
<1> QED
  BY <1>1, <1>2

\* One pattern, when the patterns it combines follow.
LEMMA CombinedFollows ==
    ASSUME NEW p, NEW a, NEW b, NEW T, p.kind \in {"AnyOf", "AllOf"}, NEW A, NEW B,
           DOMAIN A = DOMAIN B, \A i \in DOMAIN A : Follows(A[i], B[i], T)
    PROVE  Follows(OutcomesFrom(p, a, A), OutcomesFrom(p, b, B), T)
<1>1. CASE p.kind = "AnyOf"
  <2>1. OutcomesFrom(p, a, A) = AnyOutcome(A) /\ OutcomesFrom(p, b, B) = AnyOutcome(B)
    BY <1>1 DEF OutcomesFrom
  <2> QED
    BY <2>1, AnyFollows
<1>2. CASE p.kind = "AllOf"
  <2>1. OutcomesFrom(p, a, A) = AllOutcome(A) /\ OutcomesFrom(p, b, B) = AllOutcome(B)
    BY <1>2 DEF OutcomesFrom
  <2> QED
    BY <2>1, AllFollows
<1> QED
  BY <1>1, <1>2

\* Not, of something that claims do not change.
LEMMA DeniedFollows ==
    ASSUME NEW p, NEW a, NEW b, NEW T, Denies(p), NEW A, NEW B, 1 \in DOMAIN A, 1 \in DOMAIN B, A[1] = B[1]
    PROVE  Follows(OutcomesFrom(p, a, A), OutcomesFrom(p, b, B), T)
<1>1. p.kind = "Not"
  BY DEF Denies
<1>2. OutcomesFrom(p, a, A) = NotOutcome(A) /\ OutcomesFrom(p, b, B) = NotOutcome(B)
  BY <1>1 DEF OutcomesFrom
<1>3. NotOutcome(A) = NotOutcome(B)
  BY DEF NotOutcome
<1> QED
  BY <1>2, <1>3 DEF Follows

\* The patterns that SpecificAssumption calls simple, at either level of nesting.
LEMMA SimpleFollows ==
    ASSUME NEW p, NEW a, NEW b, NEW T, Takes(a, b, T), Simple(p), NEW A, NEW B,
           DOMAIN A = DOMAIN p.of, DOMAIN B = DOMAIN p.of,
           \A i \in DOMAIN p.of : \E x, y : A[i] = OutcomesFrom(p.of[i], a, x) /\ B[i] = OutcomesFrom(p.of[i], b, y)
    PROVE  Follows(OutcomesFrom(p, a, A), OutcomesFrom(p, b, B), T)
<1>1. CASE Plain(p)
  BY <1>1, PlainFollows
<1>2. CASE Denies(p)
  <2>1. 1 \in DOMAIN p.of /\ Plain(p.of[1]) /\ p.of[1].kind # "Port"
    BY <1>2 DEF Denies
  <2>2. PICK x, y : A[1] = OutcomesFrom(p.of[1], a, x) /\ B[1] = OutcomesFrom(p.of[1], b, y)
    BY <2>1
  <2>3. OutcomesFrom(p.of[1], a, x) = OutcomesFrom(p.of[1], b, y)
    BY <2>1, SteadySame
  <2> QED
    BY <1>2, <2>1, <2>2, <2>3, DeniedFollows
<1>3. CASE p.kind \in {"AnyOf", "AllOf"} /\ \A i \in DOMAIN p.of : Plain(p.of[i])
  <2>1. ASSUME NEW i \in DOMAIN p.of
        PROVE  Follows(A[i], B[i], T)
    <3>1. PICK x, y : A[i] = OutcomesFrom(p.of[i], a, x) /\ B[i] = OutcomesFrom(p.of[i], b, y)
      OBVIOUS
    <3>2. Follows(OutcomesFrom(p.of[i], a, x), OutcomesFrom(p.of[i], b, y), T)
      BY <1>3, PlainFollows
    <3> QED
      BY <3>1, <3>2
  <2> QED
    BY <1>3, <2>1, CombinedFollows
<1> QED
  BY <1>1, <1>2, <1>3 DEF Simple

\* A specific definition keeps every result that needs no taken port, and matches
\* nothing it did not match before; what else has been matched is nothing to it.
LEMMA SpecificFollows ==
    ASSUME NEW d \in AllServiceDefinitions, ~d.generic, NEW a, NEW b, NEW T, Takes(a, b, T)
    PROVE  Follows(Outcomes(d.pattern, a), Outcomes(d.pattern, b), T)
<1>1. PICK p : p = d.pattern
  OBVIOUS
<1>2. ASSUME NEW q, Simple(q)
      PROVE  Follows(NestedOutcomes(q, a), NestedOutcomes(q, b), T)
  <2> DEFINE A == [i \in DOMAIN q.of |-> SimpleOutcomes(q.of[i], a)]
             B == [i \in DOMAIN q.of |-> SimpleOutcomes(q.of[i], b)]
  <2>1. DOMAIN A = DOMAIN q.of /\ DOMAIN B = DOMAIN q.of
    OBVIOUS
  <2>2. \A i \in DOMAIN q.of : \E x, y : A[i] = OutcomesFrom(q.of[i], a, x) /\ B[i] = OutcomesFrom(q.of[i], b, y)
    BY DEF SimpleOutcomes
  <2>3. NestedOutcomes(q, a) = OutcomesFrom(q, a, A) /\ NestedOutcomes(q, b) = OutcomesFrom(q, b, B)
    BY DEF NestedOutcomes
  <2> HIDE DEF A, B
  <2>4. Follows(OutcomesFrom(q, a, A), OutcomesFrom(q, b, B), T)
    BY <1>2, <2>1, <2>2, SimpleFollows
  <2> QED
    BY <2>3, <2>4
<1> DEFINE A == [i \in DOMAIN p.of |-> NestedOutcomes(p.of[i], a)]
           B == [i \in DOMAIN p.of |-> NestedOutcomes(p.of[i], b)]
<1>3. DOMAIN A = DOMAIN p.of /\ DOMAIN B = DOMAIN p.of
  OBVIOUS
<1>4. Outcomes(p, a) = OutcomesFrom(p, a, A) /\ Outcomes(p, b) = OutcomesFrom(p, b, B)
  BY DEF Outcomes
<1>5. \A i \in DOMAIN p.of : \E x, y : A[i] = OutcomesFrom(p.of[i], a, x) /\ B[i] = OutcomesFrom(p.of[i], b, y)
  BY DEF NestedOutcomes
<1>6. \A i \in DOMAIN p.of : A[i] = NestedOutcomes(p.of[i], a) /\ B[i] = NestedOutcomes(p.of[i], b)
  OBVIOUS
<1> HIDE DEF A, B
<1>7. CASE Simple(p)
  <2>1. Follows(OutcomesFrom(p, a, A), OutcomesFrom(p, b, B), T)
    BY <1>3, <1>5, <1>7, SimpleFollows
  <2> QED
    BY <1>1, <1>4, <2>1
<1>8. CASE p.kind \in {"AnyOf", "AllOf"} /\ \A i \in DOMAIN p.of : Simple(p.of[i])
  <2>1. \A i \in DOMAIN A : Follows(A[i], B[i], T)
    BY <1>2, <1>3, <1>6, <1>8
  <2>2. Follows(OutcomesFrom(p, a, A), OutcomesFrom(p, b, B), T)
    BY <1>3, <1>8, <2>1, CombinedFollows
  <2> QED
    BY <1>1, <1>4, <2>2
<1> QED
  BY <1>1, <1>7, <1>8, SpecificAssumption

-----------------------------------------------------------------------------
(* Sorting                                                                 *)

\* The services are sorted by place: no place is taken twice, so none is left out.
LEMMA SortedKeepsAll ==
    ASSUME DOMAIN services = 1..Len(services), Len(services) \in Nat, \A i \in DOMAIN services : services[i].rank \in Int
    PROVE  /\ \A k \in DOMAIN services : \E i \in DOMAIN services : SortedServices[k] = services[i]
           /\ \A i \in DOMAIN services : \E k \in DOMAIN services : SortedServices[k] = services[i]
<1> DEFINE D == DOMAIN services
           n == Len(services)
           Before(i, j) == \/ services[i].rank > services[j].rank
                           \/ services[i].rank = services[j].rank /\ i < j
           Ahead(i) == {j \in D : Before(j, i)}
           place == [i \in D |-> 1 + Cardinality(Ahead(i))]
<1>1. IsFiniteSet(D) /\ Cardinality(D) = n
  <2>1. IsFiniteSet(1..n) /\ Cardinality(1..n) = IF 1 > n THEN 0 ELSE n - 1 + 1
    BY FS_Interval
  <2> QED
    BY <2>1
<1>2. ASSUME NEW i \in D
      PROVE  /\ IsFiniteSet(Ahead(i)) /\ Cardinality(Ahead(i)) \in Nat /\ place[i] \in D
  <2>1. Ahead(i) \subseteq D \ {i}
    OBVIOUS
  <2>2. IsFiniteSet(D \ {i}) /\ Cardinality(D \ {i}) = n - 1
    BY <1>1, FS_RemoveElement
  <2>3. IsFiniteSet(Ahead(i)) /\ Cardinality(Ahead(i)) <= n - 1 /\ Cardinality(Ahead(i)) \in Nat
    BY <2>1, <2>2, FS_Subset, FS_CardinalityType
  <2>4. place[i] = 1 + Cardinality(Ahead(i))
    OBVIOUS
  <2> HIDE DEF place, Ahead
  <2> QED
    BY <2>3, <2>4
<1>3. ASSUME NEW i \in D, NEW j \in D, Before(i, j)
      PROVE  place[i] < place[j]
  <2>1. Ahead(i) \subseteq Ahead(j) /\ i \in Ahead(j) /\ i \notin Ahead(i)
    BY <1>3
  <2>2. /\ place[i] = 1 + Cardinality(Ahead(i)) /\ place[j] = 1 + Cardinality(Ahead(j))
        /\ IsFiniteSet(Ahead(i)) /\ IsFiniteSet(Ahead(j)) /\ Cardinality(Ahead(i)) \in Nat /\ Cardinality(Ahead(j)) \in Nat
    BY <1>2
  <2> HIDE DEF place, Ahead
  <2>3. Ahead(i) \cup {i} \subseteq Ahead(j)
    BY <2>1
  <2>4. IsFiniteSet(Ahead(i) \cup {i}) /\ Cardinality(Ahead(i) \cup {i}) = Cardinality(Ahead(i)) + 1
    BY <2>1, <2>2, FS_AddElement
  <2>5. Cardinality(Ahead(i) \cup {i}) <= Cardinality(Ahead(j))
    BY <2>2, <2>3, FS_Subset
  <2> QED
    BY <2>2, <2>4, <2>5
<1>4. \A i, j \in D : i # j => Before(i, j) \/ Before(j, i)
  OBVIOUS
<1>5. \A i \in D : place[i] \in D
  BY <1>2
<1>6. \A i, j \in D : i # j => place[i] # place[j]
  <2> SUFFICES ASSUME NEW i \in D, NEW j \in D, i # j
               PROVE  place[i] # place[j]
    OBVIOUS
  <2>1. place[i] \in Int /\ place[j] \in Int
    BY <1>5
  <2>2. place[i] < place[j] \/ place[j] < place[i]
    BY <1>3, <1>4
  <2> HIDE DEF place
  <2> QED
    BY <2>1, <2>2
<1>7. SortedServices = [k \in D |-> services[CHOOSE i \in D : place[i] = k]]
  BY DEF SortedServices
<1> HIDE DEF place, Before
<1>8. \A i \in D : SortedServices[place[i]] = services[i]
  <2> SUFFICES ASSUME NEW i \in D
               PROVE  SortedServices[place[i]] = services[i]
    OBVIOUS
  <2>1. (CHOOSE j \in D : place[j] = place[i]) = i
    BY <1>6
  <2> QED
    BY <1>5, <1>7, <2>1
<1>9. \A k \in D : \E i \in D : place[i] = k
  <2> DEFINE f == [i \in D |-> place[i]]
  <2>1. f \in Injection(D, D)
    BY <1>5, <1>6 DEF Injection, IsInjective
  <2>2. f \in Surjection(D, D)
    BY <1>1, <2>1, FS_Injection
  <2> QED
    BY <2>2 DEF Surjection
<1>10. ASSUME NEW k \in D
       PROVE  \E i \in D : SortedServices[k] = services[i]
  <2>1. PICK i \in D : place[i] = k
    BY <1>9
  <2> QED
    BY <1>8, <2>1
<1> QED
  BY <1>5, <1>8, <1>10

-----------------------------------------------------------------------------
(* The inductive invariant                                                 *)

\* A port the host shows: something listens there or answers there.
Present == host.tcp \cup host.udp \cup {r.port : r \in host.http}

Claimable == found \cup {r.port : r \in responses}

\* The services that definitions give, on ports they can claim.
Given ==
    [name : {d.name : d \in AllServiceDefinitions}, generic : {d.generic : d \in AllServiceDefinitions},
     gateway : BOOLEAN, ports : SUBSET Claimable, bindings : {OwnBindings(P) : P \in SUBSET Claimable},
     rank : Int]

ClaimedPorts == UNION {services[i].ports : i \in DOMAIN services}

NotMatching == phase \notin {"match", "done"} => services = << >> /\ unbound = {} /\ class = 0

\* What is no longer unbound has been claimed.
ClaimsKept == found \ unbound \subseteq ClaimedPorts

\* Every specific definition that is left out has lost a port to another one.
SpecificFirst ==
    \A d \in ClassMembers[0] : d.name \notin Names =>
      \A m \in Outcomes(d.pattern, MatchParams(d, found)) :
        \E i \in DOMAIN services : ~services[i].generic /\ services[i].ports \cap m.ports # {}

Matching ==
    phase = "match" =>
      /\ services \in Seq(Given)
      /\ ClaimsKept
      /\ OpenPorts.name \in Names => unbound = {}
      /\ class = 0 => \A i \in DOMAIN services : ~services[i].generic
      /\ host.container = "none" => (class >= 1 => SpecificFirst) /\ (class > 3 => unbound = {})
      /\ host.container # "none" => Len(services) <= 1 /\ (class >= 3 => services # << >>)

ScanInv ==
    /\ HostScanTypeOK
    /\ found \subseteq Present
    /\ NotMatching
    /\ Matching
    /\ EveryPortIsClaimed
    /\ ClaimsAreReal
    /\ GenericYieldsToSpecific
    /\ ContainerIsOneService

-----------------------------------------------------------------------------
(* The scan                                                                *)

\* What is assumed of the host that is scanned.
LEMMA HostFacts ==
    ASSUME host \in Hosts
    PROVE  /\ DOMAIN host = HostFields /\ MaxLost \in Nat
           /\ host.tcp \subseteq PortNumbers({"tcp"}) /\ IsFiniteSet(host.tcp)
           /\ host.udp \subseteq PortNumbers({"udp"}) /\ IsFiniteSet(host.udp)
           /\ host.mapped \subseteq PortNumbers({"tcp", "udp"}) \X PortNumbers({"tcp", "udp"})
           /\ host.http \subseteq Responses(PortNumbers({"tcp"})) /\ IsFiniteSet(host.http)
  BY HostsAssumption

\* No more answers are lost than the bound allows.
LEMMA LossIsBounded ==
    ASSUME HostScanTypeOK, NEW S, NEW R, IsFiniteSet(R), S \subseteq R, NEW T \in Lossy(S), Lose(S, T)
    PROVE  T \subseteq S /\ lost' \in 0..MaxLost
<1>1. T \subseteq S /\ Cardinality(S \ T) + lost <= MaxLost /\ lost' = lost + Cardinality(S \ T)
  BY DEF Lossy, Lose
<1>2. IsFiniteSet(S \ T)
  BY FS_Subset
<1>3. Cardinality(S \ T) \in Nat
  BY <1>2, FS_CardinalityType
<1>4. lost \in 0..MaxLost /\ MaxLost \in Nat
  BY HostsAssumption DEF HostScanTypeOK
<1> QED
  BY <1>1, <1>3, <1>4

\* A response is a response on its own port.
LEMMA ResponseIsTyped ==
    ASSUME NEW P, NEW Q, NEW r \in Responses(P), r.port \in Q
    PROVE  r \in Responses(Q)
  BY DEF Responses

\* A response published on another port
LEMMA PublishedIsTyped ==
    ASSUME NEW P, NEW Q, NEW r \in Responses(P), NEW p \in Q
    PROVE  [r EXCEPT !.port = p] \in Responses(Q) /\ [r EXCEPT !.port = p].port = p
  BY DEF Responses

\* The properties of a finished scan say nothing of one that is not.
LEMMA NotDone ==
    ASSUME phase # "done"
    PROVE  EveryPortIsClaimed /\ ClaimsAreReal /\ GenericYieldsToSpecific /\ ContainerIsOneService
  BY DEF EveryPortIsClaimed, ClaimsAreReal, GenericYieldsToSpecific, ContainerIsOneService

\* The invariant holds before the scan.
LEMMA InitInv == HostScanInit => ScanInv
<1> SUFFICES ASSUME HostScanInit
             PROVE  ScanInv
  OBVIOUS
<1>1. host \in Hosts /\ phase = "check" /\ found = {} /\ responses = {} /\ unbound = {} /\ class = 0
      /\ services = << >> /\ lost = 0
  BY DEF HostScanInit
<1>2. HostScanTypeOK
  BY <1>1, HostFacts DEF HostScanTypeOK, Phases
<1>3. NotMatching /\ Matching
  BY <1>1 DEF NotMatching, Matching
<1> QED
  BY <1>1, <1>2, <1>3, NotDone DEF ScanInv

\* A step that only looks for open ports.
LEMMA Looking ==
    ASSUME ScanInv, phase \notin {"match", "done"}, phase' \in Phases \ {"match", "done"},
           UNCHANGED <<host, responses, class, unbound, services>>, found' \subseteq Present,
           lost' \in 0..MaxLost
    PROVE  ScanInv'
<1>1. services = << >> /\ unbound = {} /\ class = 0
  BY DEF ScanInv, NotMatching
<1>2. NotMatching' /\ Matching'
  BY <1>1 DEF NotMatching, Matching
<1>3. HostScanTypeOK'
  BY <1>1 DEF ScanInv, HostScanTypeOK
<1>4. Present' = Present
  BY DEF Present
<1>5. (EveryPortIsClaimed /\ ClaimsAreReal /\ GenericYieldsToSpecific /\ ContainerIsOneService)'
  BY DEF EveryPortIsClaimed, ClaimsAreReal, GenericYieldsToSpecific, ContainerIsOneService
<1> QED
  BY <1>2, <1>3, <1>4, <1>5 DEF ScanInv

\* The last step of the scan, which starts the matching.
LEMMA Starting ==
    ASSUME ScanInv, phase \notin {"match", "done"}, UNCHANGED <<host, services>>, StartMatching(found'),
           found' \subseteq Present, lost' \in 0..MaxLost,
           responses' \subseteq Responses({r.port : r \in host.http} \cup {m[2] : m \in host.mapped})
    PROVE  ScanInv'
<1>1. services' = << >> /\ unbound' = found' /\ class' = 0 /\ phase' = "match"
  BY DEF ScanInv, NotMatching, StartMatching
<1>2. HostScanTypeOK'
  BY <1>1 DEF ScanInv, HostScanTypeOK, Phases
<1>3. Matching'
  <2>1. << >> \in Seq(Given')
    OBVIOUS
  <2>2. ClaimsKept'
    BY <1>1 DEF ClaimsKept
  <2>3. Names' = {}
    BY <1>1 DEF Names
  <2> QED
    BY <1>1, <2>1, <2>2, <2>3 DEF Matching
<1>4. NotMatching'
  BY <1>1 DEF NotMatching
<1>5. Present' = Present
  BY DEF Present
<1>6. (EveryPortIsClaimed /\ ClaimsAreReal /\ GenericYieldsToSpecific /\ ContainerIsOneService)'
  BY <1>1 DEF EveryPortIsClaimed, ClaimsAreReal, GenericYieldsToSpecific, ContainerIsOneService
<1> QED
  BY <1>2, <1>3, <1>4, <1>5, <1>6 DEF ScanInv

\* Phase 1, and a cancellation.
LEMMA CheckKeeps ==
    ASSUME ScanInv, CheckArp \/ CheckPorts \/ CancelScan
    PROVE  ScanInv'
<1>1. host \in Hosts /\ HostScanTypeOK /\ found \subseteq Present /\ lost \in 0..MaxLost
  BY DEF ScanInv, HostScanTypeOK
<1>2. CASE CheckArp
  BY <1>1, <1>2, Looking DEF CheckArp, Phases
<1>3. CASE CancelScan
  BY <1>1, <1>3, Looking DEF CancelScan, Phases
<1>4. CASE CheckPorts
  <2> DEFINE open == host.tcp \cap AllDiscoveryPorts
  <2>1. PICK seen \in Lossy(open) : /\ found' = seen /\ Lose(open, seen)
                                    /\ phase' = IF seen = {} THEN "silent" ELSE "tcp"
    BY <1>4 DEF CheckPorts
  <2>2. seen \subseteq open /\ lost' \in 0..MaxLost
    BY <1>1, <2>1, HostFacts, LossIsBounded
  <2>3. phase = "check" /\ UNCHANGED <<host, responses, class, unbound, services>>
    BY <1>4 DEF CheckPorts
  <2>4. found' \subseteq Present
    BY <2>1, <2>2 DEF Present
  <2>5. phase' \in Phases \ {"match", "done"}
    BY <2>1 DEF Phases
  <2> QED
    BY <2>2, <2>3, <2>4, <2>5, Looking
<1> QED
  BY <1>2, <1>3, <1>4

\* The port scans find only ports of the host.
LEMMA ScanPortsKeeps ==
    ASSUME ScanInv, ScanTcp \/ ScanUdp
    PROVE  ScanInv'
<1>1. host \in Hosts /\ HostScanTypeOK /\ found \subseteq Present
  BY DEF ScanInv, HostScanTypeOK
<1>2. PICK R, S, T : /\ R \in {host.tcp, host.udp} /\ S \subseteq R /\ T \in Lossy(S)
                     /\ found' = found \cup T /\ Lose(S, T)
  <2>1. CASE ScanTcp
    BY <2>1 DEF ScanTcp
  <2>2. CASE ScanUdp
    BY <2>2 DEF ScanUdp
  <2> QED
    BY <2>1, <2>2
<1>3. IsFiniteSet(R)
  BY <1>1, <1>2, HostFacts
<1>4. T \subseteq S /\ lost' \in 0..MaxLost
  BY <1>1, <1>2, <1>3, LossIsBounded
<1>5. found' \subseteq Present
  BY <1>1, <1>2, <1>4 DEF Present
<1>6. /\ phase \notin {"match", "done"} /\ phase' \in Phases \ {"match", "done"}
      /\ UNCHANGED <<host, responses, class, unbound, services>>
  BY DEF ScanTcp, ScanUdp, Phases
<1> QED
  BY <1>4, <1>5, <1>6, Looking

\* Responses that are received come from the host.
LEMMA ReceivedAreResponses ==
    ASSUME host \in Hosts, HostScanTypeOK, NEW ports, RequestEndpoints(ports)
    PROVE  /\ responses' \subseteq host.http /\ lost' \in 0..MaxLost
           /\ responses' \subseteq Responses({r.port : r \in host.http} \cup {m[2] : m \in host.mapped})
<1> DEFINE answered == {r \in host.http : r.port \in ports /\ <<r.port, r.path>> \in AllDiscoveryEndpoints}
<1>1. PICK received \in Lossy(answered) : responses' = received /\ Lose(answered, received)
  BY DEF RequestEndpoints
<1>2. received \subseteq answered /\ lost' \in 0..MaxLost
  <2>1. answered \subseteq host.http /\ IsFiniteSet(host.http)
    BY HostFacts
  <2> HIDE DEF answered
  <2> QED
    BY <1>1, <2>1, LossIsBounded
<1>3. responses' \subseteq host.http
  BY <1>1, <1>2
<1>4. ASSUME NEW r \in host.http
      PROVE  r \in Responses({x.port : x \in host.http} \cup {m[2] : m \in host.mapped})
  <2>1. r \in Responses(PortNumbers({"tcp"}))
    BY HostFacts
  <2> QED
    BY <2>1, ResponseIsTyped
<1> QED
  BY <1>2, <1>3, <1>4

\* The endpoint requests of a host and of a host-mode container.
LEMMA RequestKeeps ==
    ASSUME ScanInv, ScanEndpoints \/ ScanHostModeContainer
    PROVE  ScanInv'
<1>1. host \in Hosts /\ HostScanTypeOK /\ found \subseteq Present
  BY DEF ScanInv, HostScanTypeOK
<1>2. \E ports : RequestEndpoints(ports)
  BY DEF ScanEndpoints, ScanHostModeContainer
<1>3. /\ responses' \subseteq host.http /\ lost' \in 0..MaxLost
      /\ responses' \subseteq Responses({r.port : r \in host.http} \cup {m[2] : m \in host.mapped})
  BY <1>1, <1>2, ReceivedAreResponses
<1>4. found' \subseteq Present
  <2>1. CASE ScanEndpoints
    BY <1>1, <1>3, <2>1 DEF ScanEndpoints, Present
  <2>2. CASE ScanHostModeContainer
    BY <2>2 DEF ScanHostModeContainer, Present
  <2> QED
    BY <2>1, <2>2
<1>5. phase \notin {"match", "done"} /\ UNCHANGED <<host, services>> /\ StartMatching(found')
  BY DEF ScanEndpoints, ScanHostModeContainer
<1> QED
  BY <1>3, <1>4, <1>5, Starting

\* The endpoint requests inside a bridge-mode container: an answer counts for the
\* published ports too.
LEMMA BridgeKeeps ==
    ASSUME ScanInv, ScanBridgeContainer
    PROVE  ScanInv'
<1>1. host \in Hosts /\ HostScanTypeOK
  BY DEF ScanInv, HostScanTypeOK
<1> DEFINE answered == {r \in host.http : <<r.port, r.path>> \in AllDiscoveryEndpoints}
           P == {r.port : r \in host.http} \cup {m[2] : m \in host.mapped}
           Copies(r) == {[r EXCEPT !.port = m[2]] : m \in {x \in host.mapped : x[1] = r.port}}
<1>2. PICK received \in Lossy(answered) :
        responses' = received \cup UNION {Copies(r) : r \in received} /\ Lose(answered, received)
  BY DEF ScanBridgeContainer
<1>3. received \subseteq host.http /\ lost' \in 0..MaxLost
  <2>1. answered \subseteq host.http /\ IsFiniteSet(host.http)
    BY <1>1, HostFacts
  <2> HIDE DEF answered
  <2> QED
    BY <1>1, <1>2, <2>1, LossIsBounded
<1>4. ASSUME NEW r \in host.http
      PROVE  r \in Responses(P) /\ Copies(r) \subseteq Responses(P)
  <2>1. r \in Responses(PortNumbers({"tcp"}))
    BY <1>1, HostFacts
  <2>2. r \in Responses(P)
    BY <2>1, ResponseIsTyped
  <2>3. ASSUME NEW m \in host.mapped
        PROVE  [r EXCEPT !.port = m[2]] \in Responses(P)
    <3>1. m[2] \in P
      OBVIOUS
    <3> HIDE DEF P
    <3> QED
      BY <2>1, <3>1, PublishedIsTyped
  <2> HIDE DEF P
  <2> QED
    BY <2>2, <2>3
<1>5. responses' \subseteq Responses(P)
  <2> HIDE DEF P, Copies
  <2> QED
    BY <1>2, <1>3, <1>4
<1>6. found' \subseteq Present
  BY DEF ScanBridgeContainer, Present
<1>7. phase \notin {"match", "done"} /\ UNCHANGED <<host, services>> /\ StartMatching(found')
  BY DEF ScanBridgeContainer
<1> QED
  BY <1>3, <1>5, <1>6, <1>7, Starting

-----------------------------------------------------------------------------
(* Matching                                                                *)

\* The classes that the proof needs
LEMMA ClassFacts ==
    /\ \A c \in 0..3 : \A d : d \in ClassMembers[c] <=> d \in AllServiceDefinitions /\ Class(d) = c
    /\ \A d \in AllServiceDefinitions : Class(d) = 0 => ~d.generic
    /\ OpenPorts \in ClassMembers[3] /\ DockerContainer \in ClassMembers[2]
<1>1. \A c \in 0..3 : \A d : d \in ClassMembers[c] <=> d \in AllServiceDefinitions /\ Class(d) = c
  BY DEF ClassMembers
<1>2. \A d \in AllServiceDefinitions : Class(d) = 0 => ~d.generic
  BY DEF Class
<1>3. /\ OpenPorts.generic /\ DockerContainer.generic
      /\ OpenPorts.name # DockerContainer.name /\ OpenPorts.name # Gateway.name
  BY DEF OpenPorts, DockerContainer, Gateway, Define
<1>4. Class(OpenPorts) = 3 /\ Class(DockerContainer) = 2
  <2>1. OpenPorts \notin {DockerContainer, Gateway}
    BY <1>3
  <2> QED
    BY <1>3, <2>1 DEF Class
<1> QED
  BY <1>1, <1>2, <1>4, CatalogueAssumption

\* The last resort claims all that is unbound.
LEMMA LastResort ==
    ASSUME NEW params
    PROVE  /\ params.unbound # {} => Outcomes(OpenPorts.pattern, params) # {}
           /\ \A m \in Outcomes(OpenPorts.pattern, params) : m.ports = params.unbound
<1>1. OpenPorts.pattern.kind = "Custom" /\ OpenPorts.pattern.condition = "SomePortUnbound"
  BY DEF OpenPorts, Define, Custom
<1>2. Outcomes(OpenPorts.pattern, params) = CustomOutcome(OpenPorts.pattern, params)
  BY <1>1 DEF Outcomes, OutcomesFrom
<1>3. CustomOutcome(OpenPorts.pattern, params) =
        IF params.unbound = {} THEN {} ELSE Matched(params.unbound, NotApplicable)
  BY <1>1 DEF CustomOutcome, CustomHolds
<1>4. Matched(params.unbound, NotApplicable) # {}
      /\ \A m \in Matched(params.unbound, NotApplicable) : m.ports = params.unbound
  BY DEF Matched
<1> QED
  BY <1>2, <1>3, <1>4

\* A container with which nothing has matched is a Docker container.
LEMMA ContainerMatches ==
    ASSUME NEW params, params.host.container # "none", params.matched = {}
    PROVE  Outcomes(DockerContainer.pattern, params) # {}
<1> DEFINE p == DockerContainer.pattern
           children == [i \in DOMAIN p.of |-> NestedOutcomes(p.of[i], params)]
<1>1. p.kind = "AllOf" /\ p.of = <<InDockerContainer, Custom("ContainerNotMatched")>>
  BY DEF DockerContainer, Define, AllOf
<1>2. NestedOutcomes(InDockerContainer, params) = Matched({}, Low)
  BY DEF NestedOutcomes, OutcomesFrom, InDockerContainer, ContainerOutcome
<1>3. NestedOutcomes(Custom("ContainerNotMatched"), params) = Matched({}, Low)
  BY DEF NestedOutcomes, OutcomesFrom, Custom, CustomOutcome, CustomHolds
<1>4. DOMAIN p.of = {1, 2}
  BY <1>1
<1>5. \A i \in DOMAIN p.of : NestedOutcomes(p.of[i], params) # {}
  <2>1. Matched({}, Low) # {}
    BY DEF Matched
  <2>2. p.of[1] = InDockerContainer /\ p.of[2] = Custom("ContainerNotMatched")
    BY <1>1
  <2> HIDE DEF p
  <2> QED
    BY <1>2, <1>3, <1>4, <2>1, <2>2
<1>6. \A i \in DOMAIN children : children[i] # {}
  BY <1>5
<1>7. Outcomes(p, params) = AllOutcome(children)
  BY <1>1 DEF Outcomes, OutcomesFrom
<1> HIDE DEF children, p
<1>8. Selections(children, DOMAIN children) # {}
  BY <1>6, SelectionExists
<1>9. AllOutcome(children) # {}
  BY <1>6, <1>8 DEF AllOutcome
<1> QED
  BY <1>7, <1>9 DEF p

\* Claims take away the ports that are no longer unbound, and nothing else that a
\* specific definition looks at.
LEMMA ClaimsTake ==
    ASSUME NEW d, unbound \subseteq found
    PROVE  Takes(MatchParams(d, found), MatchParams(d, unbound), found \ unbound)
  BY DEF Takes, MatchParams

\* What a specific definition needs does not depend on the services matched.
LEMMA SpecificStays ==
    ASSUME SpecificFirst, UNCHANGED <<host, found, responses>>,
           \A i \in DOMAIN services : \E k \in DOMAIN services' :
             /\ services'[k].name = services[i].name /\ services'[k].generic = services[i].generic
             /\ services'[k].ports = services[i].ports
    PROVE  SpecificFirst'
<1> SUFFICES ASSUME NEW d \in ClassMembers[0], d.name \notin Names',
                    NEW m \in Outcomes(d.pattern, MatchParams(d, found)')
             PROVE  \E k \in DOMAIN services' : ~services'[k].generic /\ services'[k].ports \cap m.ports # {}
  BY DEF SpecificFirst
<1>1. d.name \notin Names
  BY DEF Names
<1>2. Takes(MatchParams(d, found)', MatchParams(d, found), {})
  BY DEF Takes, MatchParams
<1>3. d \in AllServiceDefinitions /\ ~d.generic
  BY ClassFacts
<1>4. Follows(Outcomes(d.pattern, MatchParams(d, found)'), Outcomes(d.pattern, MatchParams(d, found)), {})
  BY <1>2, <1>3, SpecificFollows
<1>5. m \in Outcomes(d.pattern, MatchParams(d, found))
  BY <1>4 DEF Follows
<1>6. PICK i \in DOMAIN services : ~services[i].generic /\ services[i].ports \cap m.ports # {}
  BY <1>1, <1>5 DEF SpecificFirst
<1>7. PICK k \in DOMAIN services' : /\ services'[k].generic = services[i].generic
                                    /\ services'[k].ports = services[i].ports
  OBVIOUS
<1> QED
  BY <1>6, <1>7

\* A definition that matches
LEMMA MatchKeeps ==
    ASSUME ScanInv, NEW d \in AllServiceDefinitions, MatchDefinition(d)
    PROVE  ScanInv'
<1>1. /\ phase = "match" /\ class \in 0..3 /\ ~ContainerMatched /\ d \in ClassMembers[class]
      /\ UNCHANGED <<host, phase, found, responses, class, lost>>
  BY DEF MatchDefinition, ScanInv, HostScanTypeOK
<1>2. /\ services \in Seq(Given) /\ ClaimsKept
      /\ OpenPorts.name \in Names => unbound = {}
      /\ class = 0 => \A i \in DOMAIN services : ~services[i].generic
      /\ host.container = "none" => (class >= 1 => SpecificFirst) /\ (class > 3 => unbound = {})
      /\ host.container # "none" => Len(services) <= 1 /\ (class >= 3 => services # << >>)
  BY <1>1 DEF ScanInv, Matching
<1>3. PICK m \in OutcomesOf(d) : \E s :
        /\ s = [name |-> d.name, generic |-> d.generic, gateway |-> ContainsGatewayIp(d.pattern),
                ports |-> m.ports, bindings |-> OwnBindings(m.ports),
                rank |-> (IF d.generic THEN NotApplicable ELSE m.confidence) + (IF d.logo THEN 1 ELSE 0)]
        /\ services' = Append(services, s)
        /\ unbound' = unbound \ m.ports
  BY DEF MatchDefinition
<1>4. m \in Results(Claimable)
  <2>1. /\ MatchParams(d, unbound).unbound \subseteq Claimable
        /\ \A r \in MatchParams(d, unbound).responses : r.port \in Claimable
    BY DEF ScanInv, HostScanTypeOK, MatchParams, Claimable
  <2>2. Outcomes(d.pattern, MatchParams(d, unbound)) \subseteq Results(Claimable)
    BY <2>1, OutcomesAreResults
  <2> QED
    BY <1>3, <2>2 DEF OutcomesOf
<1>5. PICK s \in Given : /\ services' = Append(services, s) /\ s.name = d.name /\ s.generic = d.generic
                         /\ s.ports = m.ports
  <2>1. PICK s : /\ s = [name |-> d.name, generic |-> d.generic, gateway |-> ContainsGatewayIp(d.pattern),
                         ports |-> m.ports, bindings |-> OwnBindings(m.ports),
                         rank |-> (IF d.generic THEN NotApplicable ELSE m.confidence) + (IF d.logo THEN 1 ELSE 0)]
                 /\ services' = Append(services, s)
    BY <1>3
  <2>2. m.ports \in SUBSET Claimable /\ m.confidence \in 0..3
    BY <1>4 DEF Results
  <2>3. (IF d.generic THEN NotApplicable ELSE m.confidence) + (IF d.logo THEN 1 ELSE 0) \in Int
    BY <2>2 DEF NotApplicable
  <2>4. OwnBindings(m.ports) \in {OwnBindings(P) : P \in SUBSET Claimable}
    BY <2>2
  <2>5. ContainsGatewayIp(d.pattern) \in BOOLEAN
    BY DEF ContainsGatewayIp
  <2>6. s \in Given
    BY <2>1, <2>2, <2>3, <2>4, <2>5 DEF Given
  <2> QED
    BY <2>1, <2>6
<1>6. Given' = Given /\ Present' = Present
  BY <1>1 DEF Given, Present, Claimable
<1>7. /\ services' \in Seq(Given) /\ Len(services') = Len(services) + 1 /\ Len(services) \in Nat
      /\ DOMAIN services = 1..Len(services) /\ DOMAIN services' = 1..Len(services) + 1
      /\ \A i \in DOMAIN services : i \in DOMAIN services' /\ services'[i] = services[i]
      /\ services'[Len(services) + 1] = s
  BY <1>2, <1>5
<1>8. Names' = Names \cup {d.name} /\ ClaimedPorts' = ClaimedPorts \cup m.ports
  <2>1. \A k \in DOMAIN services' : k \in DOMAIN services \/ k = Len(services) + 1
    BY <1>7
  <2> QED
    BY <1>5, <1>7, <2>1 DEF Names, ClaimedPorts
<1>9. unbound' = unbound \ m.ports
  BY <1>3
<1>10. HostScanTypeOK'
  BY <1>1, <1>9 DEF ScanInv, HostScanTypeOK
<1>11. Matching'
  <2>1. ClaimsKept'
    BY <1>1, <1>2, <1>8, <1>9 DEF ClaimsKept
  <2>2. OpenPorts.name \in Names' => unbound' = {}
    <3>1. CASE OpenPorts.name \in Names
      BY <1>2, <1>9, <3>1
    <3>2. CASE OpenPorts.name = d.name
      <4>1. d = OpenPorts
        BY <3>2, CatalogueAssumption
      <4>2. m.ports = unbound
        BY <1>3, <4>1, LastResort DEF OutcomesOf, MatchParams
      <4> QED
        BY <1>9, <4>2
    <3> QED
      BY <1>8, <3>1, <3>2
  <2>3. class' = 0 => \A i \in DOMAIN services' : ~services'[i].generic
    <3>1. class = 0 => ~d.generic
      BY <1>1, ClassFacts
    <3> QED
      BY <1>1, <1>2, <1>5, <1>7, <3>1
  <2>4. host'.container = "none" => (class' >= 1 => SpecificFirst')
    BY <1>1, <1>2, <1>7, SpecificStays
  <2>5. host'.container # "none" => Len(services') <= 1 /\ (class' >= 3 => services' # << >>)
    <3>1. host.container # "none" => services = << >>
      BY <1>1 DEF ContainerMatched
    <3> QED
      BY <1>1, <1>7, <3>1
  <2> QED
    BY <1>1, <1>6, <1>7, <2>1, <2>2, <2>3, <2>4, <2>5 DEF Matching
<1>12. NotMatching'
  BY <1>1 DEF NotMatching
<1>13. (EveryPortIsClaimed /\ ClaimsAreReal /\ GenericYieldsToSpecific /\ ContainerIsOneService)'
  BY <1>1 DEF EveryPortIsClaimed, ClaimsAreReal, GenericYieldsToSpecific, ContainerIsOneService
<1> QED
  BY <1>1, <1>6, <1>10, <1>11, <1>12, <1>13 DEF ScanInv

\* When no specific definition matches any more, each of those left out has lost a port
\* to one of those matched.
LEMMA SpecificTried ==
    ASSUME ScanInv, phase = "match", class = 0, host.container = "none", NextClass
    PROVE  SpecificFirst
<1>1. unbound \subseteq found /\ ClaimsKept /\ \A i \in DOMAIN services : ~services[i].generic
  BY DEF ScanInv, HostScanTypeOK, Matching
<1> SUFFICES ASSUME NEW d \in ClassMembers[0], d.name \notin Names,
                    NEW m \in Outcomes(d.pattern, MatchParams(d, found))
             PROVE  \E i \in DOMAIN services : ~services[i].generic /\ services[i].ports \cap m.ports # {}
  BY DEF SpecificFirst
<1>2. OutcomesOf(d) = {}
  BY DEF NextClass, ContainerMatched, Names
<1>3. d \in AllServiceDefinitions /\ ~d.generic
  BY ClassFacts
<1>4. Takes(MatchParams(d, found), MatchParams(d, unbound), found \ unbound)
  BY <1>1, ClaimsTake
<1>5. Follows(Outcomes(d.pattern, MatchParams(d, found)), Outcomes(d.pattern, MatchParams(d, unbound)), found \ unbound)
  BY <1>3, <1>4, SpecificFollows
<1>6. m.ports \cap (found \ unbound) # {}
  BY <1>2, <1>5 DEF Follows, OutcomesOf
<1>7. PICK p \in m.ports : p \in ClaimedPorts
  BY <1>1, <1>6 DEF ClaimsKept
<1>8. PICK i \in DOMAIN services : p \in services[i].ports
  BY <1>7 DEF ClaimedPorts
<1> QED
  BY <1>1, <1>7, <1>8

\* Going on to the next class: after class 0 the specific definitions have had their
\* turn, after class 2 a container has its service, after class 3 nothing is unbound.
LEMMA NextClassKeeps ==
    ASSUME ScanInv, NextClass
    PROVE  ScanInv'
<1>1. /\ phase = "match" /\ class \in 0..3 /\ class' = class + 1
      /\ UNCHANGED <<host, phase, found, responses, unbound, services, lost>>
  BY DEF NextClass, ScanInv, HostScanTypeOK
<1>2. /\ services \in Seq(Given) /\ ClaimsKept
      /\ OpenPorts.name \in Names => unbound = {}
      /\ host.container = "none" => (class >= 1 => SpecificFirst)
      /\ host.container # "none" => Len(services) <= 1 /\ (class >= 3 => services # << >>)
  BY <1>1 DEF ScanInv, Matching
<1>3. HostScanTypeOK'
  BY <1>1 DEF ScanInv, HostScanTypeOK
<1>4. /\ Given' = Given /\ Present' = Present /\ ClaimsKept' = ClaimsKept /\ Names' = Names
      /\ SpecificFirst' = SpecificFirst
  BY <1>1 DEF Given, Present, Claimable, ClaimsKept, ClaimedPorts, Names, SpecificFirst, MatchParams
<1>5. host.container = "none" => SpecificFirst
  <2>1. CASE class = 0
    BY <1>1, <2>1, SpecificTried
  <2>2. CASE class # 0
    BY <1>1, <1>2, <2>2
  <2> QED
    BY <2>1, <2>2
<1>6. host.container = "none" /\ class = 3 => unbound = {}
  <2> SUFFICES ASSUME host.container = "none", class = 3
               PROVE  unbound = {}
    OBVIOUS
  <2>1. OpenPorts.name \in Names \/ OutcomesOf(OpenPorts) = {}
    BY ClassFacts DEF NextClass, ContainerMatched, Names
  <2>2. OutcomesOf(OpenPorts) = {} => unbound = {}
    BY LastResort DEF OutcomesOf, MatchParams
  <2> QED
    BY <1>2, <2>1, <2>2
<1>7. host.container # "none" /\ class = 2 => services # << >>
  <2> SUFFICES ASSUME host.container # "none", class = 2, services = << >>
               PROVE  FALSE
    OBVIOUS
  <2>1. OutcomesOf(DockerContainer) = {}
    BY ClassFacts DEF NextClass, ContainerMatched
  <2>2. MatchParams(DockerContainer, unbound).matched = {}
    BY DEF MatchParams, ToSet
  <2>3. MatchParams(DockerContainer, unbound).host.container # "none"
    BY DEF MatchParams
  <2> QED
    BY <2>1, <2>2, <2>3, ContainerMatches DEF OutcomesOf
<1>8. Matching'
  BY <1>1, <1>2, <1>4, <1>5, <1>6, <1>7 DEF Matching
<1>9. NotMatching'
  BY <1>1 DEF NotMatching
<1>10. (EveryPortIsClaimed /\ ClaimsAreReal /\ GenericYieldsToSpecific /\ ContainerIsOneService)'
  BY <1>1 DEF EveryPortIsClaimed, ClaimsAreReal, GenericYieldsToSpecific, ContainerIsOneService
<1> QED
  BY <1>1, <1>3, <1>4, <1>8, <1>9, <1>10 DEF ScanInv

\* A service that is reported: one that was matched, its bindings perhaps completed.
Reports(t, s) == t.name = s.name /\ t.generic = s.generic /\ t.ports = s.ports

\* The services that are reported are those that were matched.
LEMMA AllAreReported ==
    ASSUME ScanInv, FinishMatching
    PROVE  /\ Len(services) \in Nat /\ DOMAIN services = 1..Len(services)
           /\ DOMAIN services' = DOMAIN services /\ Len(services') = Len(services)
           /\ \A i \in DOMAIN services : \E k \in DOMAIN services' : Reports(services'[k], services[i])
           /\ host.container = "bridge" =>
                \A k \in DOMAIN services' : services'[k].bindings = BridgeBindings(SortedServices[k])
<1>1. services \in Seq(Given)
  BY DEF ScanInv, Matching, FinishMatching
<1>2. /\ Len(services) \in Nat /\ DOMAIN services = 1..Len(services)
      /\ \A i \in DOMAIN services : services[i] \in Given
  BY <1>1
<1>3. \A i \in DOMAIN services : services[i].rank \in Int
  BY <1>2 DEF Given
<1>4. /\ \A k \in DOMAIN services : \E i \in DOMAIN services : SortedServices[k] = services[i]
      /\ \A i \in DOMAIN services : \E k \in DOMAIN services : SortedServices[k] = services[i]
  BY <1>2, <1>3, SortedKeepsAll
<1> DEFINE Reported(t) == IF host.container = "bridge" THEN [t EXCEPT !.bindings = BridgeBindings(t)] ELSE t
<1>5. services' = [i \in DOMAIN services |-> Reported(SortedServices[i])]
  BY DEF FinishMatching
<1>6. ASSUME NEW t \in Given
      PROVE  Reports(Reported(t), t) /\ (host.container = "bridge" => Reported(t).bindings = BridgeBindings(t))
  BY DEF Reports, Given
<1>7. \A k \in DOMAIN services : SortedServices[k] \in Given
  BY <1>2, <1>4
<1> HIDE DEF Reported
<1>8. DOMAIN services' = DOMAIN services /\ \A k \in DOMAIN services : services'[k] = Reported(SortedServices[k])
  BY <1>5
<1>9. Len(services') = Len(services)
  <2> DEFINE S == {Reported(SortedServices[i]) : i \in DOMAIN services}
  <2>1. services' \in [1..Len(services) -> S]
    BY <1>2, <1>5
  <2> HIDE DEF S
  <2>2. services' \in Seq(S)
    BY <1>2, <2>1
  <2> QED
    BY <1>2, <1>8, <2>2
<1>10. \A i \in DOMAIN services : \E k \in DOMAIN services' : Reports(services'[k], services[i])
  BY <1>4, <1>6, <1>7, <1>8
<1>11. host.container = "bridge" =>
         \A k \in DOMAIN services' : services'[k].bindings = BridgeBindings(SortedServices[k])
  BY <1>6, <1>7, <1>8
<1> QED
  BY <1>2, <1>8, <1>9, <1>10, <1>11

\* The end of the matching: every claim is kept, every leftover counted, and no port
\* is reported that was not shown.
LEMMA FinishKeeps ==
    ASSUME ScanInv, FinishMatching
    PROVE  ScanInv'
<1>1. /\ phase = "match" /\ class \in 0..4 /\ class > 3 /\ phase' = "done"
      /\ UNCHANGED <<host, found, responses, class, unbound, lost>>
  BY DEF FinishMatching, ScanInv, HostScanTypeOK
<1>2. /\ services \in Seq(Given) /\ ClaimsKept
      /\ host.container = "none" => SpecificFirst /\ unbound = {}
      /\ host.container # "none" => Len(services) <= 1 /\ services # << >>
  BY <1>1 DEF ScanInv, Matching
<1>3. /\ Len(services) \in Nat /\ DOMAIN services = 1..Len(services)
      /\ DOMAIN services' = DOMAIN services /\ Len(services') = Len(services)
      /\ \A i \in DOMAIN services : \E k \in DOMAIN services' : Reports(services'[k], services[i])
      /\ host.container = "bridge" =>
           \A k \in DOMAIN services' : services'[k].bindings = BridgeBindings(SortedServices[k])
  BY AllAreReported
<1>4. host \in Hosts /\ found \subseteq Present /\ unbound \subseteq found
  BY DEF ScanInv, HostScanTypeOK
<1>5. HostScanTypeOK'
  BY <1>1 DEF ScanInv, HostScanTypeOK, Phases
<1>6. NotMatching' /\ Matching'
  BY <1>1 DEF NotMatching, Matching
<1>7. Present' = Present
  BY <1>1 DEF Present
<1> DEFINE Claimers(p) == {i \in DOMAIN services : p \in services[i].ports}
           Count(p) == Cardinality(Claimers(p)) + (IF p \in unbound THEN 1 ELSE 0)
                         + (IF p \in Published THEN Len(services) ELSE 0)
<1>8. hostPorts' = [p \in found \cup Published \cup ClaimedPorts |-> Count(p)]
  BY DEF FinishMatching, ClaimedPorts
<1>9. EveryPortIsClaimed'
  <2>1. ASSUME NEW p \in found
        PROVE  p \in DOMAIN hostPorts' /\ hostPorts'[p] > 0
    <3>1. IsFiniteSet(DOMAIN services)
      BY <1>3, FS_Interval
    <3>2. IsFiniteSet(Claimers(p)) /\ Cardinality(Claimers(p)) \in Nat
      BY <3>1, FS_Subset, FS_CardinalityType
    <3>3. p \in unbound \/ Claimers(p) # {}
      BY <1>2 DEF ClaimsKept, ClaimedPorts
    <3>4. Claimers(p) # {} => Cardinality(Claimers(p)) # 0
      BY <3>2, FS_EmptySet
    <3>5. hostPorts'[p] = Count(p) /\ p \in DOMAIN hostPorts'
      BY <1>8
    <3> HIDE DEF Claimers
    <3>6. Count(p) > 0
      BY <1>3, <3>2, <3>3, <3>4
    <3> QED
      BY <3>5, <3>6
  <2>2. host.container = "none" => found \subseteq UNION {services'[i].ports : i \in DOMAIN services'}
    <3> SUFFICES ASSUME host.container = "none", NEW p \in found
                 PROVE  \E k \in DOMAIN services' : p \in services'[k].ports
      OBVIOUS
    <3>1. p \in ClaimedPorts
      BY <1>2 DEF ClaimsKept
    <3>2. PICK i \in DOMAIN services : p \in services[i].ports
      BY <3>1 DEF ClaimedPorts
    <3>3. PICK k \in DOMAIN services' : Reports(services'[k], services[i])
      BY <1>3
    <3> QED
      BY <3>2, <3>3 DEF Reports
  <2> QED
    BY <1>1, <2>1, <2>2 DEF EveryPortIsClaimed
<1>10. ClaimsAreReal'
  <2> DEFINE Real == Present \cup {m[2] : m \in host.mapped}
  <2>1. \A r \in responses : r.port \in Real
    BY DEF ScanInv, HostScanTypeOK, Responses, Present
  <2>2. Claimable \subseteq Real
    BY <1>4, <2>1 DEF Claimable
  <2>3. ClaimedPorts \subseteq Claimable
    <3>1. \A i \in DOMAIN services : services[i] \in Given
      BY <1>2
    <3>2. \A i \in DOMAIN services : services[i].ports \subseteq Claimable
      BY <3>1 DEF Given
    <3> QED
      BY <3>2 DEF ClaimedPorts
  <2>4. Published \subseteq Real
    BY DEF Published
  <2>5. DOMAIN hostPorts' \subseteq Real
    BY <1>4, <1>8, <2>2, <2>3, <2>4
  <2> QED
    BY <1>1, <2>5 DEF ClaimsAreReal, Present
<1>11. GenericYieldsToSpecific'
  <2>1. host.container = "none" => SpecificFirst'
    BY <1>1, <1>2, <1>3, SpecificStays DEF Reports
  <2> QED
    BY <1>1, <2>1 DEF GenericYieldsToSpecific, SpecificFirst
<1>12. ContainerIsOneService'
  <2> SUFFICES ASSUME host.container # "none"
               PROVE  /\ Len(services') = 1
                      /\ host.container = "bridge" =>
                           /\ \A p \in found : [port |-> p, interface |-> "own"] \in services'[1].bindings
                           /\ \A m \in host.mapped :
                                [port |-> m[2], interface |-> "dockerHost"] \in services'[1].bindings
    BY <1>1 DEF ContainerIsOneService
  <2>1. Len(services') = 1
    BY <1>2, <1>3
  <2>2. host.container = "bridge" => services'[1].bindings = BridgeBindings(SortedServices[1])
    BY <1>3, <2>1
  <2>3. \A p \in found : p # NoPort
    BY <1>4, HostFacts DEF NoPort, Present, PortNumbers, Responses
  <2>4. \A m \in host.mapped : m[2] # NoPort
    BY <1>4, HostFacts DEF NoPort, PortNumbers
  <2>5. ASSUME NEW s
        PROVE  /\ \A p \in found : [port |-> p, interface |-> "own"] \in BridgeBindings(s)
               /\ \A m \in host.mapped : [port |-> m[2], interface |-> "dockerHost"] \in BridgeBindings(s)
    BY <2>3, <2>4 DEF BridgeBindings
  <2> QED
    BY <2>1, <2>2, <2>5
<1> QED
  BY <1>1, <1>4, <1>5, <1>6, <1>7, <1>9, <1>10, <1>11, <1>12 DEF ScanInv

\* Steps that change nothing.
LEMMA StutterKeeps ==
    ASSUME ScanInv, UNCHANGED hostScanVars
    PROVE  ScanInv'
<1>1. UNCHANGED <<host, phase, found, responses, class, unbound, services, hostPorts, lost>>
  BY DEF hostScanVars
<1>2. HostScanTypeOK' = HostScanTypeOK /\ Present' = Present /\ NotMatching' = NotMatching
  BY <1>1 DEF HostScanTypeOK, Present, NotMatching
<1>3. /\ Given' = Given /\ ClaimsKept' = ClaimsKept /\ Names' = Names /\ SpecificFirst' = SpecificFirst
  BY <1>1 DEF Given, Claimable, ClaimsKept, ClaimedPorts, Names, SpecificFirst, MatchParams
<1>4. Matching' = Matching
  BY <1>1, <1>3 DEF Matching
<1>5. /\ EveryPortIsClaimed' = EveryPortIsClaimed /\ ClaimsAreReal' = ClaimsAreReal
      /\ ContainerIsOneService' = ContainerIsOneService
  BY <1>1 DEF EveryPortIsClaimed, ClaimsAreReal, ContainerIsOneService
<1>6. GenericYieldsToSpecific' = GenericYieldsToSpecific
  BY <1>1, <1>3 DEF GenericYieldsToSpecific, SpecificFirst
<1> QED
  BY <1>1, <1>2, <1>4, <1>5, <1>6 DEF ScanInv

\* The invariant is inductive.
LEMMA ScanInductive == HostScanSpec => []ScanInv
<1>1. ASSUME ScanInv, [HostScanNext]_hostScanVars
      PROVE  ScanInv'
  <2>1. CASE UNCHANGED hostScanVars
    BY <1>1, <2>1, StutterKeeps
  <2>2. CASE CheckArp \/ CheckPorts \/ CancelScan
    BY <1>1, <2>2, CheckKeeps
  <2>3. CASE ScanTcp \/ ScanUdp
    BY <1>1, <2>3, ScanPortsKeeps
  <2>4. CASE ScanEndpoints \/ ScanHostModeContainer
    BY <1>1, <2>4, RequestKeeps
  <2>5. CASE ScanBridgeContainer
    BY <1>1, <2>5, BridgeKeeps
  <2>6. CASE \E d \in AllServiceDefinitions : MatchDefinition(d)
    BY <1>1, <2>6, MatchKeeps
  <2>7. CASE NextClass
    BY <1>1, <2>7, NextClassKeeps
  <2>8. CASE FinishMatching
    BY <1>1, <2>8, FinishKeeps
  <2> QED
    BY <1>1, <2>1, <2>2, <2>3, <2>4, <2>5, <2>6, <2>7, <2>8 DEF HostScanNext
<1> QED
  BY <1>1, InitInv, PTL DEF HostScanSpec

-----------------------------------------------------------------------------
(* What does not match now never will                                      *)

\* Parameters a, and b when other definitions have matched.
Hinders(a, b) ==
    /\ a.host = b.host /\ a.responses = b.responses /\ a.otherPorts = b.otherPorts /\ a.vendor = b.vendor
    /\ b.unbound \subseteq a.unbound /\ a.matched \subseteq b.matched

\* AnyOf fails when all fail, AllOf when one fails.
LEMMA CombinedFails ==
    ASSUME NEW A
    PROVE  /\ AnyOutcome(A) = {} <=> \A i \in DOMAIN A : A[i] = {}
           /\ AllOutcome(A) = {} <=> \E i \in DOMAIN A : A[i] = {}
<1> DEFINE I == {i \in DOMAIN A : A[i] # {}}
<1>1. \A i \in I : A[i] # {}
  OBVIOUS
<1>2. Selections(A, I) # {}
  <2> HIDE DEF I
  <2> QED
    BY <1>1, SelectionExists
<1>3. AnyOutcome(A) = IF I = {} THEN {} ELSE {Merge(c, AnyConfidence(c)) : c \in Selections(A, I)}
  BY DEF AnyOutcome
<1>4. AnyOutcome(A) = {} <=> I = {}
  <2> HIDE DEF I
  <2> QED
    BY <1>2, <1>3
<1>5. (\A i \in DOMAIN A : A[i] # {}) => Selections(A, DOMAIN A) # {}
  BY SelectionExists
<1>6. AllOutcome(A) = {} <=> \E i \in DOMAIN A : A[i] = {}
  BY <1>5 DEF AllOutcome
<1> QED
  BY <1>4, <1>6

\* A pattern that combines none and fails still fails when other definitions have
\* matched; the three conditions of the Custom patterns ask for less having matched.
LEMMA LeafHindered ==
    ASSUME NEW p, NEW a, NEW b, Hinders(a, b), Leaf(p), NEW x, NEW y, OutcomesFrom(p, a, x) = {}
    PROVE  OutcomesFrom(p, b, y) = {}
<1>1. CASE Plain(p)
  <2>1. Takes(a, b, a.unbound \ b.unbound)
    BY DEF Takes, Hinders
  <2>2. Follows(OutcomesFrom(p, a, x), OutcomesFrom(p, b, y), a.unbound \ b.unbound)
    BY <1>1, <2>1, PlainFollows
  <2> QED
    BY <2>2 DEF Follows
<1>2. CASE p.kind = "Custom" /\ p.condition \in {"NoNonGatewayMatched", "ContainerNotMatched", "SomePortUnbound"}
  <2>1. OutcomesFrom(p, a, x) = CustomOutcome(p, a) /\ OutcomesFrom(p, b, y) = CustomOutcome(p, b)
    BY <1>2 DEF OutcomesFrom
  <2>2. CustomHolds(p.condition, b) => CustomHolds(p.condition, a)
    <3>1. CASE p.condition = "NoNonGatewayMatched"
      BY <3>1 DEF CustomHolds, Hinders
    <3>2. CASE p.condition = "ContainerNotMatched"
      BY <3>2 DEF CustomHolds, Hinders
    <3>3. CASE p.condition = "SomePortUnbound"
      BY <3>3 DEF CustomHolds, Hinders
    <3> QED
      BY <1>2, <3>1, <3>2, <3>3
  <2>3. CustomOutcome(p, a) = {} => ~CustomHolds(p.condition, a)
    BY DEF CustomOutcome, Matched
  <2> QED
    BY <2>1, <2>2, <2>3 DEF CustomOutcome
<1> QED
  BY <1>1, <1>2 DEF Leaf

\* The same for a pattern whose children fail still when they failed before.
LEMMA CombinedHindered ==
    ASSUME NEW p, NEW a, NEW b, p.kind \in {"AnyOf", "AllOf"}, NEW A, NEW B,
           DOMAIN A = DOMAIN B, \A i \in DOMAIN A : A[i] = {} => B[i] = {},
           OutcomesFrom(p, a, A) = {}
    PROVE  OutcomesFrom(p, b, B) = {}
<1>1. CASE p.kind = "AnyOf"
  <2>1. OutcomesFrom(p, a, A) = AnyOutcome(A) /\ OutcomesFrom(p, b, B) = AnyOutcome(B)
    BY <1>1 DEF OutcomesFrom
  <2> QED
    BY <2>1, CombinedFails
<1>2. CASE p.kind = "AllOf"
  <2>1. OutcomesFrom(p, a, A) = AllOutcome(A) /\ OutcomesFrom(p, b, B) = AllOutcome(B)
    BY <1>2 DEF OutcomesFrom
  <2> QED
    BY <2>1, CombinedFails
<1> QED
  BY <1>1, <1>2

\* The patterns that CatalogueAssumption calls flat, at either level of nesting.
LEMMA FlatHindered ==
    ASSUME NEW p, NEW a, NEW b, Hinders(a, b), Flat(p), NEW A, NEW B,
           DOMAIN A = DOMAIN p.of, DOMAIN B = DOMAIN p.of,
           \A i \in DOMAIN p.of :
             \E x, y : A[i] = OutcomesFrom(p.of[i], a, x) /\ B[i] = OutcomesFrom(p.of[i], b, y),
           OutcomesFrom(p, a, A) = {}
    PROVE  OutcomesFrom(p, b, B) = {}
<1>1. CASE Leaf(p)
  BY <1>1, LeafHindered
<1>2. CASE Denies(p)
  <2>1. Takes(a, b, a.unbound \ b.unbound)
    BY DEF Takes, Hinders
  <2>2. Simple(p)
    BY <1>2 DEF Simple
  <2>3. Follows(OutcomesFrom(p, a, A), OutcomesFrom(p, b, B), a.unbound \ b.unbound)
    BY <2>1, <2>2, SimpleFollows
  <2> QED
    BY <2>3 DEF Follows
<1>3. CASE p.kind \in {"AnyOf", "AllOf"} /\ \A i \in DOMAIN p.of : Leaf(p.of[i])
  <2>1. ASSUME NEW i \in DOMAIN p.of, A[i] = {}
        PROVE  B[i] = {}
    <3>1. PICK x, y : A[i] = OutcomesFrom(p.of[i], a, x) /\ B[i] = OutcomesFrom(p.of[i], b, y)
      OBVIOUS
    <3> QED
      BY <1>3, <2>1, <3>1, LeafHindered
  <2>2. DOMAIN A = DOMAIN B /\ \A i \in DOMAIN A : A[i] = {} => B[i] = {}
    BY <2>1
  <2>3. p.kind \in {"AnyOf", "AllOf"}
    BY <1>3
  <2> QED
    BY ONLY <2>2, <2>3, OutcomesFrom(p, a, A) = {}, CombinedHindered
<1> QED
  BY <1>1, <1>2, <1>3 DEF Flat

\* A definition that fails still fails when other definitions have matched.
LEMMA DefinitionHindered ==
    ASSUME NEW d \in AllServiceDefinitions, NEW a, NEW b, Hinders(a, b), Outcomes(d.pattern, a) = {}
    PROVE  Outcomes(d.pattern, b) = {}
<1>1. PICK p : p = d.pattern
  OBVIOUS
<1>2. ASSUME NEW q, Flat(q), NestedOutcomes(q, a) = {}
      PROVE  NestedOutcomes(q, b) = {}
  <2> DEFINE A == [i \in DOMAIN q.of |-> SimpleOutcomes(q.of[i], a)]
             B == [i \in DOMAIN q.of |-> SimpleOutcomes(q.of[i], b)]
  <2>1. DOMAIN A = DOMAIN q.of /\ DOMAIN B = DOMAIN q.of
    OBVIOUS
  <2>2. \A i \in DOMAIN q.of :
          \E x, y : A[i] = OutcomesFrom(q.of[i], a, x) /\ B[i] = OutcomesFrom(q.of[i], b, y)
    BY DEF SimpleOutcomes
  <2>3. NestedOutcomes(q, a) = OutcomesFrom(q, a, A) /\ NestedOutcomes(q, b) = OutcomesFrom(q, b, B)
    BY DEF NestedOutcomes
  <2> HIDE DEF A, B
  <2>4. OutcomesFrom(q, b, B) = {}
    BY <1>2, <2>1, <2>2, <2>3, FlatHindered
  <2> QED
    BY <2>3, <2>4
<1> DEFINE A == [i \in DOMAIN p.of |-> NestedOutcomes(p.of[i], a)]
           B == [i \in DOMAIN p.of |-> NestedOutcomes(p.of[i], b)]
<1>3. DOMAIN A = DOMAIN p.of /\ DOMAIN B = DOMAIN p.of
  OBVIOUS
<1>4. Outcomes(p, a) = OutcomesFrom(p, a, A) /\ Outcomes(p, b) = OutcomesFrom(p, b, B)
  BY DEF Outcomes
<1>5. \A i \in DOMAIN p.of :
        \E x, y : A[i] = OutcomesFrom(p.of[i], a, x) /\ B[i] = OutcomesFrom(p.of[i], b, y)
  BY DEF NestedOutcomes
<1>6. \A i \in DOMAIN p.of : A[i] = NestedOutcomes(p.of[i], a) /\ B[i] = NestedOutcomes(p.of[i], b)
  OBVIOUS
<1> HIDE DEF A, B
<1>7. OutcomesFrom(p, a, A) = {}
  BY <1>1, <1>4
<1>8. CASE Flat(p)
  <2>1. OutcomesFrom(p, b, B) = {}
    BY <1>3, <1>5, <1>7, <1>8, FlatHindered
  <2> QED
    BY <1>1, <1>4, <2>1
<1>9. CASE p.kind \in {"AnyOf", "AllOf"} /\ \A i \in DOMAIN p.of : Flat(p.of[i])
  <2>1. \A i \in DOMAIN A : A[i] = {} => B[i] = {}
    BY <1>2, <1>3, <1>6, <1>9
  <2>2. OutcomesFrom(p, b, B) = {}
    BY <1>3, <1>7, <1>9, <2>1, CombinedHindered
  <2> QED
    BY <1>1, <1>4, <2>2
<1> QED
  BY <1>1, <1>8, <1>9, CatalogueAssumption

-----------------------------------------------------------------------------
(* Theorems                                                                *)

\* HostScanTypeOK: every scan stays within its types and its bound on lost probes.
THEOREM HostScanTypes == HostScanSpec => []HostScanTypeOK
<1>1. ScanInv => HostScanTypeOK
  BY DEF ScanInv
<1> QED
  BY <1>1, ScanInductive, PTL

\* On a scanned host every open port ends in a service, because Unclaimed Open Ports
\* is tried when all the others have been, and takes what is left (discover_services).
THEOREM PortsEndInServices == HostScanSpec => []EveryPortIsClaimed
<1>1. ScanInv => EveryPortIsClaimed
  BY DEF ScanInv
<1> QED
  BY <1>1, ScanInductive, PTL

\* No port is reported where nothing listens or answers, whatever the patterns say.
THEOREM NoPortIsInvented == HostScanSpec => []ClaimsAreReal
<1>1. ScanInv => ClaimsAreReal
  BY DEF ScanInv
<1> QED
  BY <1>1, ScanInductive, PTL

\* The sort key of discover_services does what it is for: whatever the link order, a
\* specific definition that is left out has lost a port to a specific one.
THEOREM SpecificBeforeGeneric == HostScanSpec => []GenericYieldsToSpecific
<1>1. ScanInv => GenericYieldsToSpecific
  BY DEF ScanInv
<1> QED
  BY <1>1, ScanInductive, PTL

\* A container is reported as one service, bound to all it exposes and publishes
\* (process_host_mode_container, process_bridge_mode_container).
THEOREM OneServicePerContainer == HostScanSpec => []ContainerIsOneService
<1>1. ScanInv => ContainerIsOneService
  BY DEF ScanInv
<1> QED
  BY <1>1, ScanInductive, PTL

\* The loop of discover_services tries every definition once.  That is enough: one that
\* does not match when it is tried would not match after the others either.
THEOREM OnePass == HostScanSpec => OnePassIsEnough
<1>1. ASSUME ScanInv, [HostScanNext]_hostScanVars, NEW d \in AllServiceDefinitions,
             phase = "match", phase' = "match", OutcomesOf(d) = {}
      PROVE  OutcomesOf(d)' = {}
  <2>1. services \in Seq(Given)
    BY <1>1 DEF ScanInv, Matching
  <2>2. /\ UNCHANGED <<host, responses>> /\ unbound' \subseteq unbound
        /\ services' = services \/ \E s : services' = Append(services, s)
    <3>1. CASE UNCHANGED hostScanVars
      BY <3>1 DEF hostScanVars
    <3>2. CASE \E e \in AllServiceDefinitions : MatchDefinition(e)
      BY <3>2 DEF MatchDefinition
    <3>3. CASE NextClass
      BY <3>3 DEF NextClass
    <3>4. CASE /\ ~UNCHANGED hostScanVars /\ ~NextClass
               /\ ~\E e \in AllServiceDefinitions : MatchDefinition(e)
      BY <1>1, <3>4 DEF HostScanNext, CheckArp, CheckPorts, ScanTcp, ScanUdp, ScanEndpoints,
                        ScanHostModeContainer, ScanBridgeContainer, CancelScan, FinishMatching
    <3> QED
      BY <3>1, <3>2, <3>3, <3>4
  <2>3. ToSet(services) \subseteq ToSet(services')
    BY <2>1, <2>2 DEF ToSet
  <2>4. Hinders(MatchParams(d, unbound), MatchParams(d, unbound)')
    BY <2>2, <2>3 DEF Hinders, MatchParams
  <2>5. OutcomesOf(d) = Outcomes(d.pattern, MatchParams(d, unbound))
        /\ OutcomesOf(d)' = Outcomes(d.pattern, MatchParams(d, unbound)')
    BY DEF OutcomesOf
  <2> QED
    BY <1>1, <2>4, <2>5, DefinitionHindered
<1>2. ScanInv /\ [HostScanNext]_hostScanVars =>
        [\A d \in AllServiceDefinitions :
           phase = "match" /\ phase' = "match" /\ OutcomesOf(d) = {} => OutcomesOf(d)' = {}]_hostScanVars
  BY <1>1
<1> QED
  BY <1>2, ScanInductive, PTL DEF HostScanSpec, OnePassIsEnough
=============================================================================
