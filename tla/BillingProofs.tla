--------------------------- MODULE BillingProofs ---------------------------
(***************************************************************************)
(* The payments for every number of networks, subscriptions, webhooks and  *)
(* requests: the plan follows the subscription, the quota is kept, what is *)
(* beyond it is charged, and there is one trial, unless what the property  *)
(* names has gone by.                                                      *)
(*                                                                         *)
(* Each property has an invariant of its own about the requests under way: *)
(* what a webhook that is being worked off will store, how many networks   *)
(* are left when its deletions are done, who is about to charge, and       *)
(* whether a request that counts as a new customer is the only one.        *)
(***************************************************************************)
EXTENDS Billing, FiniteSetTheorems, TLAPS

----------------------------------------------------------------------------
(* The invariants *)

\* The webhook that a request works off, also while the subscriber has its turn.
Inner(j) == IF j.at \in {"count", "charge"} THEN j.then ELSE j
Handling(j) == Inner(j).at \in {"onboard", "networks", "downgrade", "apply"}

\* Networks are gone when the webhook is about to store.
Downgraded == \A w \in Workers : Inner(work[w]).at = "apply" => Inner(work[w]).left = {}

\* The webhooks that are stored later are among those sent so far.
Told ==
    /\ \A h \in hooks : h.n <= sent
    /\ \A w \in Workers : Handling(work[w]) => Inner(work[w]).hook.n <= sent

\* When webhook h is the last of t, it tells how the last of the subscriptions s is.
Newest(h, t, s) ==
    h.n = t => h.sub = Len(s) /\ h.status = s[Len(s)].status /\ h.plan = s[Len(s)].plan

\* The organization's row says what webhook h says.
Agrees(o, h) ==
    /\ o.status = h.status
    /\ o.plan = IF h.status = "canceled" THEN NoPlan ELSE h.plan

PlanInv ==
    /\ \A i \in 1..Len(subs) : i # Len(subs) => subs[i].status = "canceled"
    /\ Len(subs) > 0 => sent > 0
    /\ \A h \in hooks : Newest(h, sent, subs)
    /\ \A w \in Workers : Handling(work[w]) => Newest(Inner(work[w]).hook, sent, subs)
    /\ sent > 0 => /\ Len(subs) > 0
                   /\ applied # sent => \E h \in hooks : h.n = sent
                   /\ applied = sent => Agrees(org, subs[Len(subs)])

\* The networks that a plan with a limit leaves.
Fits(p, S) == Limited(p) => Cardinality(S) <= Included[p]

QuotaInv ==
    /\ Fits(org.plan, nets)
    /\ \A w \in Workers :
          LET j == Inner(work[w])
          IN  j.at \in {"downgrade", "apply"} /\ j.hook.status # "canceled" =>
                 Fits(j.hook.plan, nets \ j.left)
    /\ \A w \in Workers :
          work[w].at = "create" /\ Limited(work[w].row.plan) =>
             Cardinality(work[w].seen) < Included[work[w].row.plan]

Counting(j) == j.at \in {"count", "charge"}

\* The last subscription is charged for what there is, or somebody is about to.
ChargeInv ==
    LET s == subs[Len(subs)]
    IN  Len(subs) > 0 /\ applied = sent /\ s.status = "active" /\ s.plan \in Buyable =>
           \/ s.extra = Excess(s.plan, Cardinality(nets))
           \/ \E w \in Workers : Counting(work[w])

CheckingOut(j) == j.at \in {"customer", "store", "session"}

NoTrial == (\A c \in checkouts : ~c.trial) /\ (\A i \in 1..Len(subs) : ~subs[i].trial)

TrialInv ==
    /\ \A v, w \in Workers : CheckingOut(work[v]) /\ CheckingOut(work[w]) => v = w
    /\ \A w \in Workers : work[w].at = "session" => org.customer # NoCustomer
    /\ org.customer = NoCustomer => NoTrial
    /\ \A w \in Workers : CheckingOut(work[w]) /\ ~work[w].returning => NoTrial
    /\ \A c, d \in checkouts : c.trial /\ d.trial => c = d
    /\ \A c \in checkouts, i \in 1..Len(subs) : ~(c.trial /\ subs[i].trial)
    /\ \A i, j \in 1..Len(subs) : subs[i].trial /\ subs[j].trial => i = j

BillingInv ==
    /\ BillingTypeOK /\ Told /\ Downgraded
    /\ lapse \cap {"order", "overwrite", "second"} = {} => PlanInv
    /\ lapse \cap {"overwrite", "late"} = {} => QuotaInv
    /\ lapse \cap {"together", "overwrite"} = {} => TrialInv
    /\ lapse = {} => ChargeInv

----------------------------------------------------------------------------
(* Types *)

LEMMA FreeFields == Free.at = "free" /\ Free \in Work
BY DEF Free, Work

\* What a request has at hand, by what it does next.
LEMMA WorkFields ==
    ASSUME NEW j \in Work
    PROVE  /\ j = Free \/ j.at \in {"onboard", "networks", "downgrade", "apply", "customer", "store",
                                    "session", "rename", "quota", "create", "count", "charge"}
           /\ j.at \in {"onboard", "networks", "downgrade", "apply"} => j \in Webhooks
           /\ j.at = "customer" => j.plan \in Plans /\ j.returning \in BOOLEAN
           /\ j.at = "store" => /\ j.plan \in Plans /\ j.returning \in BOOLEAN
                                /\ j.customer \in Nat /\ j.base \in OrgRow
           /\ j.at = "session" => j.plan \in Plans /\ j.returning \in BOOLEAN /\ j.customer \in Nat
           /\ j.at = "rename" => j.base \in OrgRow
           /\ j.at = "quota" => j.row \in OrgRow
           /\ j.at = "create" => j.row \in OrgRow /\ j.seen \in Sets
           /\ j.at = "count" => j.then \in {Free} \cup Webhooks
           /\ j.at = "charge" => /\ j.plan \in Plans /\ j.customer \in Nat \cup {NoCustomer}
                                 /\ j.count \in Sets /\ j.then \in {Free} \cup Webhooks
<1>1. CASE j = Free
  BY <1>1, FreeFields
<1>2. CASE j \in Webhooks
  <2>1. j.at \in {"onboard", "networks", "downgrade", "apply"}
    BY <1>2 DEF Webhooks
  <2> QED
    BY <1>2, <2>1
<1>3. CASE j \in [at : {"customer"}, plan : Plans, returning : BOOLEAN]
  BY <1>3
<1>4. CASE j \in [at : {"store"}, plan : Plans, returning : BOOLEAN, customer : Nat, base : OrgRow]
  BY <1>4
<1>5. CASE j \in [at : {"session"}, plan : Plans, returning : BOOLEAN, customer : Nat]
  BY <1>5
<1>6. CASE j \in [at : {"rename"}, base : OrgRow]
  BY <1>6
<1>7. CASE j \in [at : {"quota"}, row : OrgRow]
  BY <1>7
<1>8. CASE j \in [at : {"create"}, row : OrgRow, seen : Sets]
  BY <1>8
<1>9. CASE j \in [at : {"count"}, then : {Free} \cup Webhooks]
  BY <1>9
<1>10. CASE j \in [at : {"charge"}, plan : Plans, customer : Nat \cup {NoCustomer}, count : Sets,
                   then : {Free} \cup Webhooks]
  BY <1>10
<1> QED
  BY <1>1, <1>2, <1>3, <1>4, <1>5, <1>6, <1>7, <1>8, <1>9, <1>10 DEF Work

LEMMA WebhookFields ==
    ASSUME NEW j \in Webhooks
    PROVE  /\ j.at \in {"onboard", "networks", "downgrade", "apply"} /\ j \in Work
           /\ j.hook \in Hooks /\ j.base \in OrgRow /\ j.left \in Sets
           /\ j = [at |-> j.at, hook |-> j.hook, base |-> j.base, left |-> j.left]
           /\ j.hook.n \in Nat /\ j.hook.sub \in Nat /\ j.hook.plan \in Plans
           /\ j.hook.status \in Live \cup {"canceled"}
BY DEF Webhooks, Hooks, Work

\* Inner is a webhook or something that is not handling one.
LEMMA InnerFields ==
    ASSUME NEW j \in Work
    PROVE  /\ j.at \in {"onboard", "networks", "downgrade", "apply"} => Inner(j) = j /\ j \in Webhooks
           /\ j.at \in {"count", "charge"} => Inner(j) = j.then /\ j.then \in {Free} \cup Webhooks
           /\ ~(j.at \in {"onboard", "networks", "downgrade", "apply", "count", "charge"}) =>
                 Inner(j) = j /\ ~Handling(j)
           /\ Handling(j) => Inner(j) \in Webhooks
           /\ Inner(j).at \in {"downgrade", "apply"} => Handling(j)
           /\ Inner(j) \in Webhooks => Handling(j)
<1>1. Free.at = "free"
  BY FreeFields
<1>2. CASE j.at \in {"count", "charge"}
  <2>1. Inner(j) = j.then /\ j.then \in {Free} \cup Webhooks
    BY <1>2, WorkFields DEF Inner
  <2> QED
    BY <1>1, <1>2, <2>1, WebhookFields DEF Handling
<1>3. CASE ~(j.at \in {"count", "charge"})
  <2>1. Inner(j) = j
    BY <1>3 DEF Inner
  <2> QED
    BY <1>3, <2>1, WorkFields, WebhookFields DEF Handling
<1> QED
  BY <1>2, <1>3

\* A request takes its next step and the others stay where they are.
LEMMA GoesTyped ==
    ASSUME BillingTypeOK, NEW w \in Workers, NEW v \in Work, Goes(w, v)
    PROVE  /\ work' \in [Workers -> Work] /\ work'[w] = v
           /\ \A u \in Workers : u # w => work'[u] = work[u]
BY DEF BillingTypeOK, Goes

LEMMA SetsFinite ==
    ASSUME NEW S \in Sets
    PROVE  IsFiniteSet(S) /\ Cardinality(S) \in 0..MaxNetworks
<1>1. MaxNetworks \in Int /\ 1 \in Int /\ ~(1 > MaxNetworks) /\ MaxNetworks - 1 + 1 = MaxNetworks
  BY BillingAssumption
<1>2. /\ IsFiniteSet(1..MaxNetworks)
      /\ Cardinality(1..MaxNetworks) = IF 1 > MaxNetworks THEN 0 ELSE MaxNetworks - 1 + 1
  BY <1>1, FS_Interval
<1>3. IsFiniteSet(S) /\ Cardinality(S) <= Cardinality(1..MaxNetworks)
  BY <1>2, FS_Subset DEF Sets
<1>4. Cardinality(S) \in Nat
  BY <1>3, FS_CardinalityType
<1> QED
  BY <1>1, <1>2, <1>3, <1>4

\* Stripe's records.
LEMMA StripeTyped ==
    ASSUME BillingTypeOK
    PROVE  /\ subs \in Seq(Subs) /\ Len(subs) \in Nat /\ DOMAIN subs = 1..Len(subs)
           /\ \A i \in DOMAIN subs : subs[i] \in Subs
           /\ sent \in Nat /\ applied \in 0..sent
           /\ \A h \in hooks : h \in Hooks /\ h.n \in Nat
<1>1. subs \in Seq(Subs) /\ sent \in 0..MaxEvents /\ applied \in 0..sent /\ hooks \subseteq Hooks
  BY DEF BillingTypeOK
<1>2. \A h \in Hooks : h.n \in Nat
  BY DEF Hooks
<1> QED
  BY <1>1, <1>2

LEMMA NetsTyped ==
    ASSUME BillingTypeOK
    PROVE  /\ nets \in Sets /\ IsFiniteSet(nets) /\ Cardinality(nets) \in Nat
           /\ Workers = DOMAIN work /\ \A w \in Workers : work[w] \in Work
<1>1. nets \in Sets
  BY BillingAssumption DEF BillingTypeOK, Sets
<1>2. IsFiniteSet(nets) /\ Cardinality(nets) \in Nat
  BY <1>1, SetsFinite
<1>3. Workers = DOMAIN work /\ \A w \in Workers : work[w] \in Work
  BY DEF BillingTypeOK
<1> QED
  BY <1>1, <1>2, <1>3

LEMMA ExcessTyped ==
    ASSUME NEW S \in Sets, NEW p \in Plans
    PROVE  Excess(p, Cardinality(S)) \in 0..MaxNetworks
BY SetsFinite, BillingAssumption DEF Excess

\* Charging changes nothing but what is charged for.
LEMMA ChargeTyped ==
    ASSUME BillingTypeOK, NEW k, NEW e \in 0..MaxNetworks, subs' = [subs EXCEPT ![k].extra = e]
    PROVE  /\ subs' \in Seq(Subs) /\ Len(subs') = Len(subs)
           /\ \A i \in 1..Len(subs) : /\ subs'[i].status = subs[i].status /\ subs'[i].plan = subs[i].plan
                                      /\ subs'[i].trial = subs[i].trial
           /\ k \in 1..Len(subs) => subs'[k].extra = e
<1>1. Len(subs) \in Nat /\ DOMAIN subs = 1..Len(subs) /\ subs \in [1..Len(subs) -> Subs]
  BY DEF BillingTypeOK
<1>2. DOMAIN subs' = 1..Len(subs) /\ subs' \in [1..Len(subs) -> Subs]
  BY <1>1 DEF Subs
<1>3. subs' \in Seq(Subs) /\ Len(subs') = Len(subs)
  BY <1>1, <1>2
<1> QED
  BY <1>1, <1>3 DEF Subs

LEMMA TurnTyped ==
    ASSUME BillingTypeOK, NEW k \in DOMAIN subs, NEW s \in Live \cup {"canceled"},
           subs' = [subs EXCEPT ![k].status = s]
    PROVE  /\ subs' \in Seq(Subs) /\ Len(subs') = Len(subs) /\ k \in 1..Len(subs)
           /\ subs'[k].status = s /\ subs'[k].plan = subs[k].plan
           /\ \A i \in 1..Len(subs) : subs'[i].trial = subs[i].trial /\ (i # k => subs'[i] = subs[i])
<1>1. Len(subs) \in Nat /\ DOMAIN subs = 1..Len(subs) /\ subs \in [1..Len(subs) -> Subs]
  BY DEF BillingTypeOK
<1>2. DOMAIN subs' = 1..Len(subs) /\ subs' \in [1..Len(subs) -> Subs]
  BY <1>1 DEF Subs
<1>3. subs' \in Seq(Subs) /\ Len(subs') = Len(subs)
  BY <1>1, <1>2
<1> QED
  BY <1>1, <1>3 DEF Subs

LEMMA SubscribeTyped ==
    ASSUME BillingTypeOK, NEW c \in checkouts, Subscribes(c)
    PROVE  /\ c \in [plan : Plans, customer : Nat, trial : BOOLEAN]
           /\ subs' \in Seq(Subs) /\ Len(subs') = Len(subs) + 1 /\ Len(subs') <= MaxSubs
           /\ \A i \in 1..Len(subs) : subs'[i] = subs[i]
           /\ subs'[Len(subs')].trial = c.trial
           /\ LET s == subs'[Len(subs')]
              IN  s \in Subs
                  /\ hooks' = hooks \cup {[n |-> sent + 1, sub |-> Len(subs'), status |-> s.status, plan |-> s.plan]}
           /\ sent' = sent + 1 /\ sent < MaxEvents
<1> DEFINE s == [status |-> IF c.trial THEN "trialing" ELSE "active", plan |-> c.plan,
                 customer |-> c.customer, extra |-> 0, trial |-> c.trial]
<1>1. c \in [plan : Plans, customer : Nat, trial : BOOLEAN]
  BY DEF BillingTypeOK
<1>2. s \in Subs
  BY <1>1, BillingAssumption DEF Subs, Live
<1>3. /\ Len(subs) + 1 <= MaxSubs /\ subs' = Append(subs, s)
      /\ Tells(Len(subs) + 1, s)
  BY DEF Subscribes
<1>4. /\ subs' \in Seq(Subs) /\ Len(subs') = Len(subs) + 1
      /\ subs'[Len(subs')] = s
      /\ \A i \in 1..Len(subs) : subs'[i] = subs[i]
  <2> HIDE DEF s
  <2> QED
    BY <1>2, <1>3 DEF BillingTypeOK
<1>5. s.trial = c.trial
  OBVIOUS
<1> QED
  <2> HIDE DEF s
  <2> QED
    BY <1>1, <1>2, <1>3, <1>4, <1>5 DEF Tells

LEMMA TypesInit == BillingInit => BillingTypeOK
<1> SUFFICES ASSUME BillingInit PROVE BillingTypeOK
  OBVIOUS
<1>1. work \in [Workers -> Work]
  BY FreeFields DEF BillingInit
<1>2. org \in OrgRow
  BY DEF BillingInit, OrgRow
<1> QED
  BY <1>1, <1>2, BillingAssumption DEF BillingInit, BillingTypeOK

LEMMA TypesKept == BillingTypeOK /\ Told /\ BillingNext => BillingTypeOK'
<1> SUFFICES ASSUME BillingTypeOK, Told, BillingNext PROVE BillingTypeOK'
  OBVIOUS
<1> USE DEF Unless, Lapses
<1>0. /\ MaxNetworks \in Nat /\ MaxSubs \in Nat /\ MaxEvents \in Nat /\ MaxHandled \in Nat /\ MaxCalls \in Nat
      /\ Len(subs) \in Nat /\ sent \in Nat /\ applied \in 0..sent
  BY BillingAssumption DEF BillingTypeOK
<1>a. ASSUME NEW c \in checkouts, Subscribes(c) PROVE BillingTypeOK'
  <2> DEFINE s == subs'[Len(subs')]
  <2>0. /\ sent + 1 \in 1..MaxEvents /\ Len(subs') \in 1..MaxSubs /\ sent' \in 0..MaxEvents
        /\ applied \in 0..sent'
    BY <1>0, <1>a, SubscribeTyped
  <2>1. [n |-> sent + 1, sub |-> Len(subs'), status |-> s.status, plan |-> s.plan] \in Hooks
    <3>1. s.status \in Live \cup {"canceled"} /\ s.plan \in Plans
      BY <1>a, SubscribeTyped DEF Subs
    <3> HIDE DEF s
    <3> QED
      BY <2>0, <3>1 DEF Hooks
  <2>2. hooks' \subseteq Hooks /\ \A h \in hooks' : h.sub <= Len(subs')
    <3>1. /\ hooks' = hooks \cup {[n |-> sent + 1, sub |-> Len(subs'), status |-> s.status, plan |-> s.plan]}
          /\ Len(subs') = Len(subs) + 1
      BY <1>a, SubscribeTyped
    <3>2. \A h \in hooks : h \in Hooks /\ h.sub \in 1..MaxSubs /\ h.sub <= Len(subs)
      BY DEF BillingTypeOK, Hooks
    <3> HIDE DEF s
    <3>3. ASSUME NEW h \in hooks' PROVE h \in Hooks /\ h.sub <= Len(subs')
      <4>1. CASE h \in hooks
        BY <1>0, <3>1, <3>2, <4>1
      <4>2. CASE h = [n |-> sent + 1, sub |-> Len(subs'), status |-> s.status, plan |-> s.plan]
        BY <2>0, <2>1, <4>2
      <4> QED
        BY <3>1, <3>3, <4>1, <4>2
    <3> QED
      BY <3>3
  <2> QED
    BY <1>a, <2>0, <2>2, SubscribeTyped DEF BillingTypeOK, Subscribes
<1>b. ASSUME NEW i \in DOMAIN subs, NEW s \in {"active", "past_due", "canceled"}, SubscriptionTurns(i, s)
      PROVE  BillingTypeOK'
  <2>1. s \in Live \cup {"canceled"} /\ subs' = [subs EXCEPT ![i].status = s]
    BY <1>b DEF Live, SubscriptionTurns
  <2>2. subs[i] \in Subs /\ i \in 1..MaxSubs
    BY <2>1, TurnTyped, BillingAssumption DEF BillingTypeOK
  <2>3. /\ sent + 1 \in 1..MaxEvents /\ sent' \in 0..MaxEvents /\ applied \in 0..sent'
        /\ [n |-> sent + 1, sub |-> i, status |-> s, plan |-> subs[i].plan] \in Hooks
    <3>1. sent + 1 \in 1..MaxEvents /\ sent' \in 0..MaxEvents /\ applied \in 0..sent'
      BY <1>0, <1>b DEF SubscriptionTurns, Tells
    <3> QED
      BY <2>1, <2>2, <3>1 DEF Hooks, Subs
  <2>4. hooks' = hooks \cup {[n |-> sent + 1, sub |-> i, status |-> s, plan |-> subs[i].plan]}
    BY <1>b, <2>2 DEF SubscriptionTurns, Tells, Subs
  <2>5. hooks' \subseteq Hooks /\ \A h \in hooks' : h.sub <= Len(subs')
    BY <2>1, <2>3, <2>4, TurnTyped DEF BillingTypeOK
  <2> QED
    BY <1>b, <2>1, <2>3, <2>5, TurnTyped DEF BillingTypeOK, SubscriptionTurns
<1>c. ASSUME NEW w \in Workers, NEW p \in Plans, CheckoutReads(w, p) PROVE BillingTypeOK'
  <2>1. [at |-> "customer", plan |-> p, returning |-> org.customer # NoCustomer] \in Work
    BY DEF Work
  <2>2. work' \in [Workers -> Work]
    BY <1>c, <2>1, GoesTyped DEF CheckoutReads
  <2>3. calls' \in 0..MaxCalls
    BY <1>0, <1>c DEF BillingTypeOK, CheckoutReads, Calls
  <2> QED
    BY <1>c, <2>2, <2>3 DEF BillingTypeOK, CheckoutReads
<1>d. ASSUME NEW w \in Workers, CheckoutCustomer(w) PROVE BillingTypeOK'
  <2>1. work[w].plan \in Plans /\ work[w].returning \in BOOLEAN
    BY <1>d, NetsTyped, WorkFields DEF CheckoutCustomer
  <2>2. CASE org.customer # NoCustomer
    <3>1. [at |-> "session", plan |-> work[w].plan, returning |-> work[w].returning,
           customer |-> org.customer] \in Work
      BY <2>1, <2>2 DEF Work, BillingTypeOK, OrgRow
    <3> QED
      BY <1>d, <2>2, <3>1, GoesTyped DEF BillingTypeOK, CheckoutCustomer
  <2>3. CASE org.customer = NoCustomer
    <3>1. [at |-> "store", plan |-> work[w].plan, returning |-> work[w].returning,
           customer |-> customers + 1, base |-> org] \in Work
      BY <2>1, <2>3 DEF Work, BillingTypeOK
    <3> QED
      BY <1>d, <2>3, <3>1, GoesTyped DEF BillingTypeOK, CheckoutCustomer
  <2> QED
    BY <2>2, <2>3
<1>e. ASSUME NEW w \in Workers, CheckoutStores(w) PROVE BillingTypeOK'
  <2>1. /\ work[w].plan \in Plans /\ work[w].returning \in BOOLEAN
        /\ work[w].customer \in Nat /\ work[w].base \in OrgRow
    BY <1>e, NetsTyped, WorkFields DEF CheckoutStores
  <2>2. [at |-> "session", plan |-> work[w].plan, returning |-> work[w].returning,
         customer |-> work[w].customer] \in Work
    BY <2>1 DEF Work
  <2>3. org' \in OrgRow
    BY <1>e, <2>1 DEF CheckoutStores, Rewrites, OrgRow
  <2> QED
    BY <1>e, <2>2, <2>3, GoesTyped DEF BillingTypeOK, CheckoutStores, Rewrites
<1>f. ASSUME NEW w \in Workers, CheckoutSession(w) PROVE BillingTypeOK'
  <2>1. work[w].plan \in Plans /\ work[w].returning \in BOOLEAN /\ work[w].customer \in Nat
    BY <1>f, NetsTyped, WorkFields DEF CheckoutSession
  <2>2. [plan |-> work[w].plan, customer |-> work[w].customer, trial |-> TrialFor(work[w])]
          \in [plan : Plans, customer : Nat, trial : BOOLEAN]
    BY <2>1 DEF TrialFor
  <2> QED
    BY <1>f, <2>2, GoesTyped, FreeFields DEF BillingTypeOK, CheckoutSession
<1>g. ASSUME NEW w \in Workers, RenameReads(w) PROVE BillingTypeOK'
  <2>1. [at |-> "rename", base |-> org] \in Work
    BY DEF Work, BillingTypeOK
  <2> QED
    BY <1>g, <2>1, GoesTyped, BillingAssumption DEF BillingTypeOK, RenameReads, Calls, stripeVars
<1>h. ASSUME NEW w \in Workers, RenameWrites(w) PROVE BillingTypeOK'
  <2>1. org' \in OrgRow
    BY <1>h, NetsTyped, WorkFields DEF RenameWrites, Rewrites
  <2> QED
    BY <1>h, <2>1, GoesTyped, FreeFields DEF BillingTypeOK, RenameWrites, Rewrites, stripeVars
<1>i. ASSUME NEW w \in Workers, NEW h \in hooks, WebhookReads(w, h) PROVE BillingTypeOK'
  <2>1. PICK at \in {"apply", "onboard", "networks"} :
           Goes(w, [at |-> at, hook |-> h, base |-> org, left |-> {}])
    BY <1>i DEF WebhookReads
  <2>2. [at |-> at, hook |-> h, base |-> org, left |-> {}] \in Work
    BY DEF Work, Webhooks, BillingTypeOK, Sets
  <2>3. work' \in [Workers -> Work]
    BY <2>1, <2>2, GoesTyped
  <2>4. handled' \in 0..MaxHandled
    BY <1>0, <1>i DEF BillingTypeOK, WebhookReads, Idles
  <2>5. UNCHANGED <<org, nets, made, stripeVars, calls, applied, lapse>>
    BY <1>i DEF WebhookReads
  <2> QED
    BY <2>3, <2>4, <2>5 DEF BillingTypeOK, stripeVars
<1>j. ASSUME NEW w \in Workers, WebhookOnboards(w) PROVE BillingTypeOK'
  <2>1. [work[w] EXCEPT !.at = "networks"] \in Work
    <3>1. work[w] \in Webhooks
      BY <1>j, NetsTyped, WorkFields DEF WebhookOnboards
    <3>2. [work[w] EXCEPT !.at = "networks"] \in Webhooks
      BY <3>1 DEF Webhooks
    <3> QED
      BY <3>2 DEF Work
  <2>2. org' \in OrgRow
    BY <1>j DEF WebhookOnboards, OrgRow, BillingTypeOK
  <2> QED
    BY <1>j, <2>1, <2>2, GoesTyped DEF BillingTypeOK, WebhookOnboards, stripeVars
<1>k. ASSUME NEW w \in Workers, WebhookNetworks(w) PROVE BillingTypeOK'
  <2>1. PICK at \in {"apply", "downgrade"}, left \in SUBSET nets :
           Goes(w, [work[w] EXCEPT !.at = at, !.left = left])
    BY <1>k DEF WebhookNetworks
  <2>2. [work[w] EXCEPT !.at = at, !.left = left] \in Work
    <3>1. work[w] \in Webhooks
      BY <1>k, NetsTyped, WorkFields DEF WebhookNetworks
    <3>2. left \in Sets
      BY NetsTyped DEF Sets
    <3>3. [work[w] EXCEPT !.at = at, !.left = left] \in Webhooks
      BY <3>1, <3>2 DEF Webhooks
    <3> QED
      BY <3>3 DEF Work
  <2> QED
    BY <1>k, <2>1, <2>2, GoesTyped DEF BillingTypeOK, WebhookNetworks, stripeVars
<1>l. ASSUME NEW w \in Workers, WebhookDeletes(w) PROVE BillingTypeOK'
  <2>1. work[w].hook \in Hooks /\ work[w].base \in OrgRow /\ work[w].left \in Sets
    BY <1>l, NetsTyped, WorkFields, WebhookFields DEF WebhookDeletes, Publishes
  <2>2. PICK at \in {"apply", "downgrade"}, left \in Sets :
           \/ Goes(w, [at |-> "count", then |-> [at |-> at, hook |-> work[w].hook,
                                                 base |-> work[w].base, left |-> left]])
           \/ Goes(w, Free)
    BY <1>l, <2>1 DEF WebhookDeletes, Publishes, Sets
  <2>3. [at |-> "count", then |-> [at |-> at, hook |-> work[w].hook,
                                   base |-> work[w].base, left |-> left]] \in Work
    BY <2>1 DEF Work, Webhooks
  <2>4. nets' \subseteq nets
    BY <1>l DEF WebhookDeletes, Publishes
  <2> QED
    BY <1>l, <2>2, <2>3, <2>4, GoesTyped, FreeFields DEF BillingTypeOK, WebhookDeletes, Publishes, stripeVars
<1>m. ASSUME NEW w \in Workers, NEW again \in BOOLEAN, WebhookApplies(w, again) PROVE BillingTypeOK'
  <2>1. work[w] \in Webhooks /\ Inner(work[w]) = work[w] /\ Handling(work[w])
    BY <1>m, NetsTyped, InnerFields, WorkFields DEF WebhookApplies, Handling
  <2>2. work[w].hook.n \in 0..sent
    BY <2>1, WebhookFields DEF Told, BillingTypeOK
  <2>3. org' \in OrgRow
    <3>1. org' = After(work[w].base, work[w].hook)
      BY <1>m DEF WebhookApplies
    <3>2. /\ work[w].base \in OrgRow
          /\ work[w].hook.status \in Live \cup {"canceled"} /\ work[w].hook.plan \in Plans
      BY <2>1 DEF Webhooks, Hooks
    <3> QED
      BY <3>1, <3>2 DEF After, OrgRow
  <2> QED
    BY <1>m, <2>2, <2>3, GoesTyped, FreeFields DEF BillingTypeOK, WebhookApplies
<1>n. ASSUME NEW w \in Workers, CreateAsks(w) PROVE BillingTypeOK'
  <2>1. [at |-> "quota", row |-> org] \in Work
    BY DEF Work, BillingTypeOK
  <2> QED
    BY <1>n, <2>1, GoesTyped, BillingAssumption DEF BillingTypeOK, CreateAsks, Calls, stripeVars
<1>o. ASSUME NEW w \in Workers, CreateChecks(w) PROVE BillingTypeOK'
  <2>1. [at |-> "create", row |-> work[w].row, seen |-> nets] \in Work
    BY <1>o, NetsTyped, WorkFields DEF CreateChecks, Work
  <2> QED
    BY <1>o, <2>1, GoesTyped, FreeFields DEF BillingTypeOK, CreateChecks, stripeVars
<1>p. ASSUME NEW w \in Workers, CreateStores(w) PROVE BillingTypeOK'
  <2>1. [at |-> "count", then |-> Free] \in Work
    BY DEF Work
  <2> QED
    BY <1>p, <2>1, GoesTyped, BillingAssumption DEF BillingTypeOK, CreateStores, Publishes, stripeVars
<1>q. ASSUME NEW w \in Workers, NEW n \in nets, DeleteNetwork(w, n) PROVE BillingTypeOK'
  <2>1. [at |-> "count", then |-> Free] \in Work
    BY DEF Work
  <2>2. work' \in [Workers -> Work]
    BY <1>q, <2>1, GoesTyped DEF DeleteNetwork, Publishes
  <2>3. calls' \in 0..MaxCalls
    BY <1>0, <1>q DEF BillingTypeOK, DeleteNetwork, Calls
  <2>4. nets' \subseteq nets /\ UNCHANGED <<org, made, stripeVars, handled, applied, lapse>>
    BY <1>q DEF DeleteNetwork
  <2> QED
    BY <2>2, <2>3, <2>4 DEF BillingTypeOK, stripeVars
<1>r. ASSUME NEW w \in Workers, AddonCounts(w) PROVE BillingTypeOK'
  <2>1. work[w].then \in {Free} \cup Webhooks /\ work[w].then \in Work
    BY <1>r, NetsTyped, WorkFields, FreeFields, WebhookFields DEF AddonCounts
  <2>2. CASE org.plan = NoPlan
    BY <1>r, <2>1, <2>2, GoesTyped DEF BillingTypeOK, AddonCounts, stripeVars
  <2>3. CASE org.plan # NoPlan
    <3>1. [at |-> "charge", plan |-> org.plan, customer |-> org.customer, count |-> nets,
           then |-> work[w].then] \in Work
      BY <2>1, <2>3, NetsTyped DEF Work, BillingTypeOK, OrgRow
    <3> QED
      BY <1>r, <2>3, <3>1, GoesTyped DEF BillingTypeOK, AddonCounts, stripeVars
  <2> QED
    BY <2>2, <2>3
<1>s. ASSUME NEW w \in Workers, AddonCharges(w) PROVE BillingTypeOK'
  <2> DEFINE j == work[w]
             active == {i \in DOMAIN subs : subs[i].customer = j.customer /\ subs[i].status = "active"}
  <2>1. j.then \in Work /\ j.plan \in Plans /\ j.count \in Sets
    BY <1>s, NetsTyped, WorkFields, FreeFields, WebhookFields DEF AddonCharges
  <2>2. Quantity(j) \in 0..MaxNetworks
    BY <2>1, ExcessTyped DEF Quantity
  <2>3. subs' = [subs EXCEPT ![Max(active)].extra = Quantity(j)] \/ subs' = subs
    BY <1>s DEF AddonCharges
  <2>4. subs' \in Seq(Subs) /\ Len(subs') = Len(subs)
    BY <2>2, <2>3, ChargeTyped DEF BillingTypeOK
  <2> QED
    BY <1>s, <2>1, <2>4, GoesTyped DEF BillingTypeOK, AddonCharges
<1>t. ASSUME BillingRestart PROVE BillingTypeOK'
  BY <1>t, FreeFields DEF BillingTypeOK, BillingRestart, stripeVars
<1> QED
  BY <1>a, <1>b, <1>c, <1>d, <1>e, <1>f, <1>g, <1>h, <1>i, <1>j, <1>k, <1>l, <1>m, <1>n, <1>o, <1>p,
     <1>q, <1>r, <1>s, <1>t DEF BillingNext

----------------------------------------------------------------------------
(* What becomes of the webhooks under way *)

\* A webhook is read.
Begins(k) ==
    /\ k.hook \in hooks /\ k.left = {} /\ k.at # "downgrade"
    /\ k.at = "apply" => k.hook.status = "canceled"

\* Webhook j has become k: it is where it was, at the networks, has decided which to delete,
\* or has deleted one.
Continues(j, k) ==
    \/ k = j
    \/ k.hook = j.hook /\ k.at = "networks"
    \/ /\ k.hook = j.hook /\ nets' = nets /\ (k.at = "apply" => k.left = {})
       /\ k.left = IF Limited(j.hook.plan) THEN nets \ Kept(j.hook.plan) ELSE {}
    \/ /\ k.hook = j.hook /\ j.at = "downgrade" /\ (k.at = "apply" => k.left = {})
       /\ nets' \ k.left \subseteq nets \ j.left

LEMMA OthersWait ==
    ASSUME BillingTypeOK, NEW w \in Workers, NEW v, Goes(w, v)
    PROVE  work'[w] = v /\ \A u \in Workers : u # w => work'[u] = work[u]
BY DEF BillingTypeOK, Goes

LEMMA HandlingStep ==
    ASSUME BillingTypeOK, BillingTypeOK', BillingNext
    PROVE  \A v \in Workers : Handling(work'[v]) =>
              \/ Begins(Inner(work'[v]))
              \/ Handling(work[v]) /\ Continues(Inner(work[v]), Inner(work'[v]))
<1> DEFINE Good(v) == Handling(work'[v]) =>
                         \/ Begins(Inner(work'[v]))
                         \/ Handling(work[v]) /\ Continues(Inner(work[v]), Inner(work'[v]))
<1>1. ASSUME NEW v \in Workers, work'[v] = work[v] PROVE Good(v)
  BY <1>1 DEF Continues
<1>2. ASSUME NEW w \in Workers, NEW k, Goes(w, k), Good(w) PROVE \A v \in Workers : Good(v)
  <2>1. \A v \in Workers : v # w => work'[v] = work[v]
    BY <1>2, OthersWait
  <2> HIDE DEF Good
  <2> QED
    BY <1>1, <1>2, <2>1
<1>3. ASSUME NEW w \in Workers, ~Handling(work'[w]) PROVE Good(w)
  BY <1>3
<1>4. \A v \in Workers : work[v] \in Work /\ work'[v] \in Work
  BY DEF BillingTypeOK
<1>5. ASSUME NEW w \in Workers,
             ~(work'[w].at \in {"onboard", "networks", "downgrade", "apply", "count", "charge"})
      PROVE  Good(w)
  BY <1>3, <1>4, <1>5, InnerFields
<1> HIDE DEF Good
<1>6. ASSUME NEW w \in Workers, Goes(w, Free) PROVE Good(w)
  BY <1>5, <1>6, OthersWait, FreeFields
<1>a. ASSUME UNCHANGED work PROVE \A v \in Workers : Good(v)
  BY <1>1, <1>a
<1>b. ASSUME BillingRestart PROVE \A v \in Workers : Good(v)
  BY <1>b, <1>5, FreeFields DEF BillingRestart
<1>c. ASSUME NEW w \in Workers, NEW p \in Plans, CheckoutReads(w, p) PROVE \A v \in Workers : Good(v)
  BY <1>2, <1>5, <1>c, OthersWait DEF CheckoutReads
<1>d. ASSUME NEW w \in Workers, CheckoutCustomer(w) PROVE \A v \in Workers : Good(v)
  BY <1>2, <1>5, <1>d, OthersWait DEF CheckoutCustomer
<1>e. ASSUME NEW w \in Workers, CheckoutStores(w) PROVE \A v \in Workers : Good(v)
  BY <1>2, <1>5, <1>e, OthersWait DEF CheckoutStores
<1>f. ASSUME NEW w \in Workers, CheckoutSession(w) PROVE \A v \in Workers : Good(v)
  BY <1>2, <1>6, <1>f DEF CheckoutSession
<1>g. ASSUME NEW w \in Workers, RenameReads(w) PROVE \A v \in Workers : Good(v)
  BY <1>2, <1>5, <1>g, OthersWait DEF RenameReads
<1>h. ASSUME NEW w \in Workers, RenameWrites(w) PROVE \A v \in Workers : Good(v)
  BY <1>2, <1>6, <1>h DEF RenameWrites
<1>i. ASSUME NEW w \in Workers, NEW h \in hooks, WebhookReads(w, h) PROVE \A v \in Workers : Good(v)
  <2> DEFINE at == CASE h.status = "canceled" -> "apply"
                     [] org.plan = NoPlan     -> "onboard"
                     [] OTHER                 -> "networks"
             k == [at |-> at, hook |-> h, base |-> org, left |-> {}]
  <2>1. Goes(w, k)
    BY <1>i DEF WebhookReads
  <2>2. at \in {"onboard", "networks", "apply"} /\ (at = "apply" => h.status = "canceled")
    OBVIOUS
  <2>3. k.at = at /\ k.hook = h /\ k.left = {}
    OBVIOUS
  <2> HIDE DEF at, k
  <2>4. work'[w] = k /\ Inner(k) = k
    BY <2>1, <2>2, <2>3, OthersWait DEF Inner
  <2>5. Begins(k)
    BY <2>2, <2>3 DEF Begins
  <2> QED
    BY <1>2, <2>1, <2>4, <2>5 DEF Good
<1>j. ASSUME NEW w \in Workers, WebhookOnboards(w) PROVE \A v \in Workers : Good(v)
  <2> DEFINE k == [work[w] EXCEPT !.at = "networks"]
  <2>1. Goes(w, k) /\ work[w] \in Webhooks /\ Inner(work[w]) = work[w] /\ Handling(work[w])
    BY <1>4, <1>j, InnerFields DEF WebhookOnboards, Handling
  <2>2. k.at = "networks" /\ k.hook = work[w].hook
    BY <2>1 DEF Webhooks
  <2> HIDE DEF k
  <2>3. work'[w] = k /\ Inner(k) = k
    BY <2>1, <2>2, OthersWait DEF Inner
  <2> QED
    BY <1>2, <2>1, <2>2, <2>3 DEF Good, Continues
<1>k. ASSUME NEW w \in Workers, WebhookNetworks(w) PROVE \A v \in Workers : Good(v)
  <2> DEFINE p == work[w].hook.plan
             left == IF Limited(p) THEN nets \ Kept(p) ELSE {}
             at == IF left = {} THEN "apply" ELSE "downgrade"
             k == [work[w] EXCEPT !.at = at, !.left = left]
  <2>1. Goes(w, k) /\ work[w] \in Webhooks /\ Inner(work[w]) = work[w] /\ Handling(work[w]) /\ nets' = nets
    BY <1>4, <1>k, InnerFields DEF WebhookNetworks, Handling
  <2>2. at \in {"apply", "downgrade"} /\ (at = "apply" => left = {})
    OBVIOUS
  <2> HIDE DEF at, left
  <2>3. k.at = at /\ k.hook = work[w].hook /\ k.left = left
    BY <2>1 DEF Webhooks
  <2> HIDE DEF k
  <2>4. work'[w] = k /\ Inner(k) = k
    BY <2>1, <2>2, <2>3, OthersWait DEF Inner
  <2>5. Continues(work[w], k)
    BY <2>1, <2>2, <2>3 DEF Continues, left
  <2> QED
    BY <1>2, <2>1, <2>4, <2>5 DEF Good
<1>l. ASSUME NEW w \in Workers, WebhookDeletes(w) PROVE \A v \in Workers : Good(v)
  <2> DEFINE j == work[w]
             n == Min(j.left)
             rest == j.left \ {n}
             k == [at |-> IF rest = {} THEN "apply" ELSE "downgrade",
                   hook |-> j.hook, base |-> j.base, left |-> rest]
             c == [at |-> "count", then |-> k]
  <2>1. j.at = "downgrade" /\ Inner(j) = j /\ Handling(j)
    BY <1>4, <1>l, InnerFields DEF WebhookDeletes, Publishes, Handling
  <2>2. CASE n \notin nets
    BY <1>2, <1>6, <1>l, <2>2 DEF WebhookDeletes, Publishes
  <2>3. CASE n \in nets
    <3>1. Goes(w, c) /\ nets' = nets \ {n}
      BY <1>l, <2>3 DEF WebhookDeletes, Publishes
    <3>2. work'[w] = c /\ Inner(c) = k
      BY <3>1, OthersWait DEF Inner
    <3>3. nets' \ k.left \subseteq nets \ j.left
      BY <3>1
    <3>4. Continues(j, k)
      BY <2>1, <3>3 DEF Continues
    <3> QED
      BY <1>2, <2>1, <3>1, <3>2, <3>4 DEF Good
  <2> QED
    BY <2>2, <2>3
<1>m. ASSUME NEW w \in Workers, NEW again \in BOOLEAN, WebhookApplies(w, again)
      PROVE  \A v \in Workers : Good(v)
  BY <1>2, <1>6, <1>m DEF WebhookApplies
<1>n. ASSUME NEW w \in Workers, CreateAsks(w) PROVE \A v \in Workers : Good(v)
  BY <1>2, <1>5, <1>n, OthersWait DEF CreateAsks
<1>o. ASSUME NEW w \in Workers, CreateChecks(w) PROVE \A v \in Workers : Good(v)
  BY <1>2, <1>5, <1>6, <1>o, OthersWait DEF CreateChecks
<1>7. ASSUME NEW w \in Workers, Goes(w, [at |-> "count", then |-> Free]) PROVE \A v \in Workers : Good(v)
  <2>1. ~Handling(work'[w])
    BY <1>7, OthersWait, FreeFields DEF Handling, Inner
  <2> QED
    BY <1>2, <1>3, <1>7, <2>1
<1>p. ASSUME NEW w \in Workers, CreateStores(w) PROVE \A v \in Workers : Good(v)
  BY <1>7, <1>p DEF CreateStores, Publishes
<1>q. ASSUME NEW w \in Workers, NEW n \in nets, DeleteNetwork(w, n) PROVE \A v \in Workers : Good(v)
  BY <1>7, <1>q DEF DeleteNetwork, Publishes
<1>8. ASSUME NEW w \in Workers, work[w].at \in {"count", "charge"}, Inner(work'[w]) = work[w].then
      PROVE  Good(w)
  BY <1>8 DEF Good, Handling, Inner, Continues
<1>9. ASSUME NEW j \in {Free} \cup Webhooks PROVE Inner(j) = j
  BY <1>9, FreeFields, WebhookFields DEF Inner
<1>r. ASSUME NEW w \in Workers, AddonCounts(w) PROVE \A v \in Workers : Good(v)
  <2> DEFINE c == [at |-> "charge", plan |-> org.plan, customer |-> org.customer, count |-> nets,
                   then |-> work[w].then]
  <2>1. work[w].then \in {Free} \cup Webhooks /\ Inner(c) = work[w].then
    BY <1>4, <1>r, WorkFields DEF AddonCounts, Inner
  <2>2. Inner(work'[w]) = work[w].then
    <3>1. Goes(w, work[w].then) \/ Goes(w, c)
      BY <1>r DEF AddonCounts
    <3> HIDE DEF c
    <3> QED
      BY <1>9, <2>1, <3>1, OthersWait
  <2> QED
    BY <1>2, <1>8, <1>r, <2>2 DEF AddonCounts
<1>s. ASSUME NEW w \in Workers, AddonCharges(w) PROVE \A v \in Workers : Good(v)
  <2>1. work[w].then \in {Free} \cup Webhooks /\ work[w].at = "charge" /\ Goes(w, work[w].then)
    BY <1>4, <1>s, WorkFields DEF AddonCharges
  <2>2. Inner(work'[w]) = work[w].then
    BY <1>9, <2>1, OthersWait
  <2> QED
    BY <1>2, <1>8, <2>1, <2>2
<1>10. \A v \in Workers : Good(v)
  BY <1>a, <1>b, <1>c, <1>d, <1>e, <1>f, <1>g, <1>h, <1>i, <1>j, <1>k, <1>l, <1>m, <1>n, <1>o, <1>p,
     <1>q, <1>r, <1>s DEF BillingNext, Subscribes, SubscriptionTurns
<1> QED
  BY <1>10 DEF Good

\* The steps that change Stripe's subscriptions or webhooks, or store what a webhook says.
LEMMA WhoTellsStripe ==
    ASSUME BillingNext
    PROVE  \/ \E c \in checkouts : Subscribes(c)
           \/ \E i \in DOMAIN subs, s \in {"active", "past_due", "canceled"} : SubscriptionTurns(i, s)
           \/ \E w \in Workers, again \in BOOLEAN : WebhookApplies(w, again)
           \/ \E w \in Workers : AddonCharges(w)
           \/ UNCHANGED <<subs, sent, hooks, applied>>
<1>1. ASSUME NEW w \in Workers,
             \/ \E p \in Plans : CheckoutReads(w, p)
             \/ CheckoutCustomer(w) \/ CheckoutStores(w) \/ CheckoutSession(w)
      PROVE  UNCHANGED <<subs, sent, hooks, applied>>
  BY <1>1 DEF CheckoutReads, CheckoutCustomer, CheckoutStores, CheckoutSession
<1>2. ASSUME NEW w \in Workers,
             \/ RenameReads(w) \/ RenameWrites(w)
             \/ \E h \in hooks : WebhookReads(w, h)
             \/ WebhookOnboards(w) \/ WebhookNetworks(w) \/ WebhookDeletes(w)
      PROVE  UNCHANGED <<subs, sent, hooks, applied>>
  BY <1>2 DEF RenameReads, RenameWrites, WebhookReads, WebhookOnboards, WebhookNetworks, WebhookDeletes,
              stripeVars
<1>3. ASSUME NEW w \in Workers,
             \/ CreateAsks(w) \/ CreateChecks(w) \/ CreateStores(w)
             \/ \E n \in nets : DeleteNetwork(w, n)
             \/ AddonCounts(w)
      PROVE  UNCHANGED <<subs, sent, hooks, applied>>
  BY <1>3 DEF CreateAsks, CreateChecks, CreateStores, DeleteNetwork, AddonCounts, stripeVars
<1>4. BillingRestart => UNCHANGED <<subs, sent, hooks, applied>>
  BY DEF BillingRestart, stripeVars
<1> QED
  BY <1>1, <1>2, <1>3, <1>4 DEF BillingNext

LEMMA ToldKept ==
    ASSUME BillingTypeOK, BillingTypeOK', Told, BillingNext
    PROVE  Told'
<1>1. sent \in Nat /\ sent' \in Nat
  BY DEF BillingTypeOK
<1>2. sent' >= sent /\ \A h \in hooks' : h \in hooks \/ h.n <= sent'
  <2>1. ASSUME NEW c \in checkouts, Subscribes(c) PROVE sent' >= sent /\ \A h \in hooks' : h \in hooks \/ h.n <= sent'
    BY <1>1, <2>1 DEF Subscribes, Tells
  <2>2. ASSUME NEW i \in DOMAIN subs, NEW s \in {"active", "past_due", "canceled"}, SubscriptionTurns(i, s)
        PROVE  sent' >= sent /\ \A h \in hooks' : h \in hooks \/ h.n <= sent'
    BY <1>1, <2>2 DEF SubscriptionTurns, Tells
  <2>3. CASE sent' = sent /\ hooks' \subseteq hooks
    BY <1>1, <2>3
  <2>4. ASSUME NEW w \in Workers, NEW again \in BOOLEAN, WebhookApplies(w, again)
        PROVE  sent' = sent /\ hooks' \subseteq hooks
    BY <2>4 DEF WebhookApplies
  <2>5. ASSUME NEW w \in Workers, AddonCharges(w) PROVE sent' = sent /\ hooks' \subseteq hooks
    BY <2>5 DEF AddonCharges
  <2> QED
    BY <2>1, <2>2, <2>3, <2>4, <2>5, WhoTellsStripe
<1>3. \A h \in hooks' : h.n <= sent'
  <2> SUFFICES ASSUME NEW h \in hooks', h \in hooks PROVE h.n <= sent'
    BY <1>2
  <2>1. h.n \in Nat /\ h.n <= sent
    BY StripeTyped DEF Told
  <2> QED
    BY <1>1, <1>2, <2>1
<1>4. ASSUME NEW v \in Workers, Handling(work'[v]) PROVE Inner(work'[v]).hook.n <= sent'
  <2>1. work'[v] \in Work /\ work[v] \in Work
    BY DEF BillingTypeOK
  <2>2. Inner(work'[v]).hook.n \in Nat
    BY <1>4, <2>1, InnerFields, WebhookFields
  <2>3. \/ Begins(Inner(work'[v]))
        \/ Handling(work[v]) /\ Continues(Inner(work[v]), Inner(work'[v]))
    BY <1>4, HandlingStep
  <2>4. \/ Inner(work'[v]).hook \in hooks
        \/ Handling(work[v]) /\ Inner(work'[v]).hook = Inner(work[v]).hook
    BY <2>3 DEF Begins, Continues
  <2>5. Inner(work'[v]).hook.n <= sent
    BY <2>4 DEF Told
  <2> QED
    BY <1>1, <1>2, <2>2, <2>5
<1> QED
  BY <1>3, <1>4 DEF Told

LEMMA DowngradedKept ==
    ASSUME BillingTypeOK, BillingTypeOK', Downgraded, BillingNext
    PROVE  Downgraded'
<1> SUFFICES ASSUME NEW v \in Workers, Inner(work'[v]).at = "apply"
             PROVE  Inner(work'[v]).left = {}
  BY DEF Downgraded
<1>1. work'[v] \in Work /\ Handling(work'[v])
  BY InnerFields DEF BillingTypeOK, Handling
<1>2. \/ Begins(Inner(work'[v]))
      \/ Handling(work[v]) /\ Continues(Inner(work[v]), Inner(work'[v]))
  BY <1>1, HandlingStep
<1> QED
  BY <1>2 DEF Begins, Continues, Downgraded

----------------------------------------------------------------------------
(* The organization's row and the subscriptions *)

\* A row that was read before and is still the same, but for the onboarding steps.
LEMMA SameRow ==
    ASSUME NEW a \in OrgRow, NEW b \in OrgRow, [a EXCEPT !.onboarded = TRUE] = [b EXCEPT !.onboarded = TRUE]
    PROVE  a.plan = b.plan /\ a.status = b.status /\ a.customer = b.customer
<1>1. [a EXCEPT !.onboarded = TRUE].plan = a.plan /\ [b EXCEPT !.onboarded = TRUE].plan = b.plan
  BY DEF OrgRow
<1>2. [a EXCEPT !.onboarded = TRUE].status = a.status /\ [b EXCEPT !.onboarded = TRUE].status = b.status
  BY DEF OrgRow
<1>3. /\ [a EXCEPT !.onboarded = TRUE].customer = a.customer
      /\ [b EXCEPT !.onboarded = TRUE].customer = b.customer
  BY DEF OrgRow
<1> QED
  BY <1>1, <1>2, <1>3

LEMMA AppliesRow ==
    ASSUME BillingTypeOK, NEW w \in Workers, NEW again \in BOOLEAN, WebhookApplies(w, again)
    PROVE  /\ work[w] \in Webhooks /\ Handling(work[w]) /\ Inner(work[w]) = work[w]
           /\ Agrees(org', work[w].hook)
           /\ "overwrite" \notin lapse' => org'.customer = org.customer
<1>1. work[w] \in Webhooks /\ Handling(work[w]) /\ Inner(work[w]) = work[w]
  BY NetsTyped, InnerFields DEF WebhookApplies, Handling
<1>2. work[w].base \in OrgRow /\ org \in OrgRow
  BY <1>1, WebhookFields DEF BillingTypeOK
<1>3. org' = After(work[w].base, work[w].hook)
  BY DEF WebhookApplies
<1>4. Agrees(org', work[w].hook) /\ org'.customer = work[w].base.customer
  BY <1>2, <1>3 DEF After, Agrees, OrgRow
<1>5. ASSUME "overwrite" \notin lapse' PROVE work[w].base.customer = org.customer
  <2>1. [work[w].base EXCEPT !.onboarded = TRUE] = [org EXCEPT !.onboarded = TRUE]
    BY <1>5 DEF WebhookApplies, Lapses, Unless
  <2> QED
    BY <1>2, <2>1, SameRow
<1> QED
  BY <1>1, <1>4, <1>5

\* Only webhooks change the plan and the status.
LEMMA RowStep ==
    ASSUME BillingTypeOK, BillingNext, "overwrite" \notin lapse'
    PROVE  /\ org.customer # NoCustomer => org'.customer # NoCustomer
           /\ \/ org'.plan = org.plan /\ org'.status = org.status
              \/ \E w \in Workers, again \in BOOLEAN : WebhookApplies(w, again)
<1> DEFINE Good == /\ org.customer # NoCustomer => org'.customer # NoCustomer
                   /\ org'.plan = org.plan /\ org'.status = org.status
<1>1. ASSUME NEW w \in Workers, CheckoutStores(w) PROVE Good
  <2>1. work[w].customer \in Nat /\ work[w].base \in OrgRow /\ org \in OrgRow
    BY <1>1, NetsTyped, WorkFields DEF CheckoutStores, BillingTypeOK
  <2>2. [work[w].base EXCEPT !.onboarded = TRUE] = [org EXCEPT !.onboarded = TRUE]
    BY <1>1 DEF CheckoutStores, Rewrites, Lapses, Unless
  <2>3. org' = [work[w].base EXCEPT !.customer = work[w].customer]
    BY <1>1 DEF CheckoutStores, Rewrites
  <2>4. org'.plan = work[w].base.plan /\ org'.status = work[w].base.status /\ org'.customer = work[w].customer
    BY <2>1, <2>3 DEF OrgRow
  <2> QED
    BY <2>1, <2>2, <2>4, SameRow, BillingAssumption
<1>2. ASSUME NEW w \in Workers, RenameWrites(w) PROVE Good
  <2>1. work[w].base \in OrgRow /\ org \in OrgRow
    BY <1>2, NetsTyped, WorkFields DEF RenameWrites, BillingTypeOK
  <2>2. /\ [work[w].base EXCEPT !.onboarded = TRUE] = [org EXCEPT !.onboarded = TRUE]
        /\ org' = work[w].base
    BY <1>2 DEF RenameWrites, Rewrites, Lapses, Unless
  <2> QED
    BY <2>1, <2>2, SameRow
<1>3. ASSUME NEW w \in Workers, WebhookOnboards(w) PROVE Good
  BY <1>3 DEF WebhookOnboards, BillingTypeOK, OrgRow
<1>4. ASSUME NEW w \in Workers, NEW again \in BOOLEAN, WebhookApplies(w, again)
      PROVE  org.customer # NoCustomer => org'.customer # NoCustomer
  BY <1>4, AppliesRow
<1>5. CASE org' = org
  BY <1>5
<1> QED
  BY <1>1, <1>2, <1>3, <1>4, <1>5
  DEF BillingNext, Subscribes, SubscriptionTurns, CheckoutReads, CheckoutCustomer, CheckoutSession,
      RenameReads, WebhookReads, WebhookNetworks, WebhookDeletes, CreateAsks, CreateChecks,
      CreateStores, DeleteNetwork, AddonCounts, AddonCharges, BillingRestart

\* Other than by Stripe and by storing a webhook, nothing changes but what is charged for.
LEMMA StripeStep ==
    ASSUME BillingTypeOK, BillingNext
    PROVE  \/ \E c \in checkouts : Subscribes(c)
           \/ \E i \in DOMAIN subs, s \in {"active", "past_due", "canceled"} : SubscriptionTurns(i, s)
           \/ /\ Len(subs') = Len(subs) /\ sent' = sent
              /\ \A i \in 1..Len(subs) : /\ subs'[i].status = subs[i].status
                                         /\ subs'[i].plan = subs[i].plan /\ subs'[i].trial = subs[i].trial
              /\ \/ hooks' = hooks /\ applied' = applied
                 \/ \E w \in Workers, again \in BOOLEAN : WebhookApplies(w, again)
<1>1. ASSUME NEW w \in Workers, AddonCharges(w)
      PROVE  /\ Len(subs') = Len(subs) /\ sent' = sent /\ hooks' = hooks /\ applied' = applied
             /\ \A i \in 1..Len(subs) : /\ subs'[i].status = subs[i].status
                                        /\ subs'[i].plan = subs[i].plan /\ subs'[i].trial = subs[i].trial
  <2> DEFINE j == work[w]
             active == {i \in DOMAIN subs : subs[i].customer = j.customer /\ subs[i].status = "active"}
  <2>1. j.plan \in Plans /\ j.count \in Sets
    BY <1>1, NetsTyped, WorkFields DEF AddonCharges
  <2>2. Quantity(j) \in 0..MaxNetworks
    BY <2>1, ExcessTyped DEF Quantity
  <2>3. subs' = [subs EXCEPT ![Max(active)].extra = Quantity(j)] \/ subs' = subs
    BY <1>1 DEF AddonCharges
  <2>4. /\ Len(subs') = Len(subs)
        /\ \A i \in 1..Len(subs) : /\ subs'[i].status = subs[i].status
                                   /\ subs'[i].plan = subs[i].plan /\ subs'[i].trial = subs[i].trial
    BY <2>2, <2>3, ChargeTyped
  <2> QED
    BY <1>1, <2>4 DEF AddonCharges
<1>2. CASE UNCHANGED <<subs, sent, hooks, applied>>
  BY <1>2
<1>3. ASSUME NEW w \in Workers, NEW again \in BOOLEAN, WebhookApplies(w, again)
      PROVE  UNCHANGED <<subs, sent>>
  BY <1>3 DEF WebhookApplies
<1> QED
  BY <1>1, <1>2, <1>3, WhoTellsStripe

\* What has gone by has gone by.
LEMMA LapsesStay == BillingTypeOK /\ BillingNext => lapse \subseteq lapse'
<1> SUFFICES ASSUME BillingNext PROVE lapse \subseteq lapse'
  OBVIOUS
<1>1. \/ \E c \in checkouts : Subscribes(c)
      \/ \E i \in DOMAIN subs, s \in {"active", "past_due", "canceled"} : SubscriptionTurns(i, s)
      \/ BillingRestart
      => lapse \subseteq lapse'
  BY DEF Subscribes, SubscriptionTurns, BillingRestart, Lapses
<1>2. ASSUME NEW w \in Workers,
             \/ \E p \in Plans : CheckoutReads(w, p)
             \/ CheckoutCustomer(w) \/ CheckoutStores(w) \/ CheckoutSession(w)
             \/ RenameReads(w) \/ RenameWrites(w)
      PROVE  lapse \subseteq lapse'
  BY <1>2 DEF CheckoutReads, CheckoutCustomer, CheckoutStores, CheckoutSession, RenameReads, RenameWrites,
              Rewrites, Lapses
<1>3. ASSUME NEW w \in Workers,
             \/ \E h \in hooks : WebhookReads(w, h)
             \/ WebhookOnboards(w) \/ WebhookNetworks(w) \/ WebhookDeletes(w)
             \/ \E again \in BOOLEAN : WebhookApplies(w, again)
      PROVE  lapse \subseteq lapse'
  BY <1>3 DEF WebhookReads, WebhookOnboards, WebhookNetworks, WebhookDeletes, WebhookApplies, Lapses
<1>4. ASSUME NEW w \in Workers,
             \/ CreateAsks(w) \/ CreateChecks(w) \/ CreateStores(w)
             \/ \E n \in nets : DeleteNetwork(w, n)
             \/ AddonCounts(w) \/ AddonCharges(w)
      PROVE  lapse \subseteq lapse'
  BY <1>4 DEF CreateAsks, CreateChecks, CreateStores, DeleteNetwork, AddonCounts, AddonCharges, Lapses
<1> QED
  BY <1>1, <1>2, <1>3, <1>4 DEF BillingNext

----------------------------------------------------------------------------
(* The plan follows the subscription *)

\* The subscription whose change is told in a webhook is the last, and the others have ended.
LEMMA PlanTold ==
    ASSUME BillingTypeOK, BillingTypeOK', Told, Told', PlanInv, BillingNext,
           sent' = sent + 1, applied' = applied, Len(subs') > 0,
           \A i \in 1..Len(subs') : i # Len(subs') => subs'[i].status = "canceled",
           hooks' = hooks \cup {[n |-> sent + 1, sub |-> Len(subs'), status |-> subs'[Len(subs')].status,
                                 plan |-> subs'[Len(subs')].plan]},
           work' = work
    PROVE  PlanInv'
<1>1. sent \in Nat /\ applied \in 0..sent /\ applied' # sent' /\ sent' > 0
  BY DEF BillingTypeOK
<1>2. ASSUME NEW h, h.n \in Nat, h.n <= sent PROVE Newest(h, sent', subs')
  BY <1>1, <1>2 DEF Newest
<1>3. \A h \in hooks' : Newest(h, sent', subs')
  <2>1. \A h \in hooks : h.n \in Nat /\ h.n <= sent
    BY DEF BillingTypeOK, Hooks, Told
  <2> QED
    BY <1>2, <2>1 DEF Newest
<1>4. \A w \in Workers : Handling(work'[w]) => Newest(Inner(work'[w]).hook, sent', subs')
  <2>1. \A w \in Workers : Handling(work[w]) => Inner(work[w]).hook.n \in Nat /\ Inner(work[w]).hook.n <= sent
    BY NetsTyped, InnerFields, WebhookFields DEF Told
  <2> QED
    BY <1>2, <2>1
<1>5. \E h \in hooks' : h.n = sent'
  <2> DEFINE g == [n |-> sent + 1, sub |-> Len(subs'), status |-> subs'[Len(subs')].status,
                   plan |-> subs'[Len(subs')].plan]
  <2>1. g \in hooks' /\ g.n = sent'
    OBVIOUS
  <2> QED
    BY <2>1
<1> QED
  BY <1>1, <1>3, <1>4, <1>5 DEF PlanInv

LEMMA PlanKept ==
    ASSUME BillingTypeOK, BillingTypeOK', Told, Told', PlanInv, BillingNext,
           lapse' \cap {"order", "overwrite", "second"} = {}
    PROVE  PlanInv'
<1>0. Len(subs) \in Nat /\ sent \in Nat /\ DOMAIN subs = 1..Len(subs)
  BY StripeTyped
<1>00. sent > 0 => Len(subs) > 0
  BY DEF PlanInv
<1>1. ASSUME NEW c \in checkouts, Subscribes(c) PROVE PlanInv'
  <2>1. \A i \in 1..Len(subs) : subs[i].status = "canceled"
    BY <1>0, <1>1 DEF Subscribes, Lapses, Unless
  <2>2. applied' = applied /\ work' = work
    BY <1>1 DEF Subscribes
  <2>3. /\ sent' = sent + 1 /\ Len(subs') = Len(subs) + 1
        /\ \A i \in 1..Len(subs) : subs'[i] = subs[i]
        /\ hooks' = hooks \cup {[n |-> sent + 1, sub |-> Len(subs'), status |-> subs'[Len(subs')].status,
                                 plan |-> subs'[Len(subs')].plan]}
    BY <1>1, SubscribeTyped
  <2>4. \A i \in 1..Len(subs') : i # Len(subs') => subs'[i].status = "canceled"
    BY <1>0, <2>1, <2>3
  <2> QED
    BY <1>0, <2>2, <2>3, <2>4, PlanTold
<1>2. ASSUME NEW i \in DOMAIN subs, NEW s \in {"active", "past_due", "canceled"}, SubscriptionTurns(i, s)
      PROVE  PlanInv'
  <2>1. /\ subs[i].status # "canceled" /\ applied' = applied /\ work' = work
        /\ subs' = [subs EXCEPT ![i].status = s] /\ sent' = sent + 1
    BY <1>2 DEF SubscriptionTurns, Tells
  <2>2. i = Len(subs) /\ Len(subs) > 0
    BY <1>0, <2>1 DEF PlanInv
  <2>3. s \in Live \cup {"canceled"}
    BY DEF Live
  <2>4. /\ Len(subs') = Len(subs) /\ subs'[i].status = s /\ subs'[i].plan = subs[i].plan
        /\ \A j \in 1..Len(subs) : j # i => subs'[j] = subs[j]
    BY <2>1, <2>3, TurnTyped
  <2>5. hooks' = hooks \cup {[n |-> sent + 1, sub |-> i, status |-> s, plan |-> subs[i].plan]}
    <3>1. subs[i] \in Subs
      BY StripeTyped
    <3> QED
      BY <1>2, <3>1 DEF SubscriptionTurns, Tells, Subs
  <2>6. \A j \in 1..Len(subs') : j # Len(subs') => subs'[j].status = "canceled"
    BY <2>2, <2>4 DEF PlanInv
  <2> QED
    BY <2>1, <2>2, <2>4, <2>5, <2>6, PlanTold
<1>3. ASSUME /\ Len(subs') = Len(subs) /\ sent' = sent
             /\ \A i \in 1..Len(subs) : subs'[i].status = subs[i].status /\ subs'[i].plan = subs[i].plan,
             NEW h, h \in hooks \/ \E w \in Workers : Handling(work[w]) /\ h = Inner(work[w]).hook
      PROVE  Newest(h, sent', subs')
  <2>1. Newest(h, sent, subs)
    BY <1>3 DEF PlanInv
  <2>2. sent > 0 => Len(subs) \in 1..Len(subs)
    BY <1>0, <1>00
  <2>3. CASE h.n = sent /\ sent > 0
    BY <1>3, <2>1, <2>2, <2>3 DEF Newest
  <2>4. CASE h.n # sent
    BY <1>3, <2>4 DEF Newest
  <2>5. h.n > 0 /\ h.n \in Nat
    BY <1>3, NetsTyped, InnerFields, WebhookFields DEF BillingTypeOK, Hooks
  <2> QED
    BY <1>0, <2>3, <2>4, <2>5
<1>4. ASSUME /\ Len(subs') = Len(subs) /\ sent' = sent
             /\ \A i \in 1..Len(subs) : subs'[i].status = subs[i].status /\ subs'[i].plan = subs[i].plan,
             hooks' \subseteq hooks
      PROVE  /\ \A i \in 1..Len(subs') : i # Len(subs') => subs'[i].status = "canceled"
             /\ Len(subs') > 0 => sent' > 0
             /\ \A h \in hooks' : Newest(h, sent', subs')
             /\ \A w \in Workers : Handling(work'[w]) => Newest(Inner(work'[w]).hook, sent', subs')
  <2>1. ASSUME NEW w \in Workers, Handling(work'[w]) PROVE Newest(Inner(work'[w]).hook, sent', subs')
    <3>1. \/ Begins(Inner(work'[w]))
          \/ Handling(work[w]) /\ Continues(Inner(work[w]), Inner(work'[w]))
      BY <2>1, HandlingStep
    <3>2. \/ Inner(work'[w]).hook \in hooks
          \/ Handling(work[w]) /\ Inner(work'[w]).hook = Inner(work[w]).hook
      BY <3>1 DEF Begins, Continues
    <3> QED
      BY <1>3, <1>4, <3>2
  <2>2. \A h \in hooks' : Newest(h, sent', subs')
    BY <1>3, <1>4
  <2> QED
    BY <1>0, <1>4, <2>1, <2>2 DEF PlanInv
<1>5. ASSUME NEW w \in Workers, NEW again \in BOOLEAN, WebhookApplies(w, again) PROVE PlanInv'
  <2> DEFINE h == work[w].hook
  <2>1. Handling(work[w]) /\ Inner(work[w]) = work[w] /\ work[w] \in Webhooks /\ Agrees(org', h)
    BY <1>5, AppliesRow
  <2>2. Newest(h, sent, subs) /\ h.n \in Nat /\ h.n <= sent
    BY <2>1, WebhookFields DEF PlanInv, Told
  <2>3. UNCHANGED <<subs, sent>> /\ applied' = h.n /\ hooks' \subseteq hooks /\ hooks \ {h} \subseteq hooks'
    BY <1>5 DEF WebhookApplies
  <2>4. h.n >= applied
    BY <1>5 DEF WebhookApplies, Lapses, Unless
  <2>5. sent > 0 => Len(subs) > 0
    BY DEF PlanInv
  <2>6. applied' = sent => Agrees(org', subs[Len(subs)])
    BY <2>1, <2>2, <2>3 DEF Newest, Agrees
  <2>7. ASSUME sent > 0, applied' # sent PROVE \E g \in hooks' : g.n = sent
    <3>1. applied \in Nat /\ applied # sent
      BY <1>0, <2>2, <2>3, <2>4, <2>7 DEF BillingTypeOK
    <3>2. PICK g \in hooks : g.n = sent
      BY <2>7, <3>1 DEF PlanInv
    <3> QED
      BY <2>3, <2>7, <3>2
  <2> HIDE DEF h
  <2> QED
    BY <1>4, <2>3, <2>5, <2>6, <2>7 DEF PlanInv
<1>6. ASSUME Len(subs') = Len(subs), sent' = sent, hooks' = hooks, applied' = applied,
             \A i \in 1..Len(subs) : subs'[i].status = subs[i].status /\ subs'[i].plan = subs[i].plan,
             org'.plan = org.plan, org'.status = org.status
      PROVE  PlanInv'
  <2>1. sent > 0 => Len(subs) > 0 /\ Len(subs) \in 1..Len(subs)
    BY <1>0, <1>00
  <2>2. sent > 0 /\ applied = sent => Agrees(org', subs'[Len(subs)])
    BY <1>6, <2>1 DEF PlanInv, Agrees
  <2>3. sent > 0 /\ applied # sent => \E h \in hooks : h.n = sent
    BY DEF PlanInv
  <2> QED
    BY <1>4, <1>6, <2>1, <2>2, <2>3 DEF PlanInv
<1> QED
  BY <1>1, <1>2, <1>5, <1>6, StripeStep, RowStep

----------------------------------------------------------------------------
(* The quota is kept *)

\* The networks that are kept are counted off by those before them.
LEMMA KeptFits ==
    ASSUME BillingTypeOK, NEW p \in Plans
    PROVE  Kept(p) \subseteq nets /\ Cardinality(Kept(p)) <= Included[p]
<1> DEFINE K == Kept(p)
           k == Included[p]
           f == [n \in K |-> Cardinality({m \in nets : m < n})]
<1>1. K \subseteq nets
  BY DEF Kept
<1>2. IsFiniteSet(nets) /\ nets \subseteq Nat /\ k \in Nat
  BY NetsTyped, BillingAssumption DEF BillingTypeOK
<1>3. IsFiniteSet(K) /\ Cardinality(K) \in Nat
  BY <1>1, <1>2, FS_Subset, FS_CardinalityType
<1>4. ASSUME NEW n \in K PROVE f[n] \in Nat /\ f[n] < k
  <2>1. {m \in nets : m < n} \subseteq nets
    OBVIOUS
  <2>2. Cardinality({m \in nets : m < n}) \in Nat
    BY <1>2, <2>1, FS_Subset, FS_CardinalityType
  <2> QED
    BY <2>2 DEF Kept
<1>5. ASSUME NEW x \in K, NEW y \in K, x < y PROVE f[x] # f[y]
  <2> DEFINE X == {m \in nets : m < x}
             Y == {m \in nets : m < y}
  <2>1. X \subseteq Y /\ x \in Y /\ x \notin X
    <3>1. x \in nets /\ y \in nets /\ x \in Nat /\ y \in Nat
      BY <1>1, <1>2
    <3>2. (\A m \in nets : m < x => m < y) /\ ~(x < x)
      BY <1>2, <1>5, <3>1
    <3> QED
      BY <1>5, <3>1, <3>2, Zenon
  <2>2. IsFiniteSet(Y)
    BY <1>2, FS_Subset
  <2>3. Cardinality(Y) = Cardinality(X) => Y = X
    BY <2>1, <2>2, FS_Subset
  <2> QED
    BY <2>1, <2>3
<1>6. Cardinality(K) <= k
  <2> SUFFICES ASSUME Cardinality(K) > k PROVE FALSE
    BY <1>2, <1>3
  <2> DEFINE T == 0..(k - 1)
  <2>1. IsFiniteSet(T) /\ Cardinality(T) = k
    <3>1. k - 1 \in Int /\ 0 \in Int
      BY <1>2
    <3>2. IsFiniteSet(T) /\ Cardinality(T) = IF 0 > k - 1 THEN 0 ELSE (k - 1) - 0 + 1
      BY <3>1, FS_Interval
    <3> QED
      BY <1>2, <3>2
  <2>2. f \in [K -> T]
    BY <1>2, <1>4
  <2>3. Cardinality(T) < Cardinality(K)
    BY <1>2, <1>3, <2>1
  <2> HIDE DEF f, T, K
  <2>4. PICK x \in K, y \in K : x # y /\ f[x] = f[y]
    BY <1>3, <2>1, <2>2, <2>3, FS_PigeonHole
  <2>5. x < y \/ y < x
    BY <1>1, <1>2, <2>4
  <2> QED
    BY <1>5, <2>4, <2>5
<1> QED
  BY <1>1, <1>6

LEMMA FitsLess ==
    ASSUME NEW p, NEW S, NEW T, IsFiniteSet(T), S \subseteq T, Fits(p, T)
    PROVE  Fits(p, S)
<1>1. Cardinality(S) <= Cardinality(T) /\ Cardinality(S) \in Nat /\ Cardinality(T) \in Nat
  BY FS_Subset, FS_CardinalityType
<1>2. ASSUME Limited(p) PROVE Cardinality(S) <= Included[p]
  <2>1. Included[p] \in Nat
    BY <1>2, BillingAssumption DEF Limited
  <2> QED
    BY <1>1, <1>2, <2>1 DEF Fits
<1> QED
  BY <1>2 DEF Fits

\* Only a request that is told there is room creates a network.
LEMMA NetsStep ==
    ASSUME BillingTypeOK, BillingNext
    PROVE  nets' \subseteq nets \/ \E w \in Workers : CreateStores(w)
<1>1. \/ \E c \in checkouts : Subscribes(c)
      \/ \E i \in DOMAIN subs, s \in {"active", "past_due", "canceled"} : SubscriptionTurns(i, s)
      \/ BillingRestart
      => nets' \subseteq nets
  BY DEF Subscribes, SubscriptionTurns, BillingRestart
<1>2. ASSUME NEW w \in Workers,
             \/ \E p \in Plans : CheckoutReads(w, p)
             \/ CheckoutCustomer(w) \/ CheckoutStores(w) \/ CheckoutSession(w)
             \/ RenameReads(w) \/ RenameWrites(w)
      PROVE  nets' \subseteq nets
  BY <1>2 DEF CheckoutReads, CheckoutCustomer, CheckoutStores, CheckoutSession, RenameReads, RenameWrites
<1>3. ASSUME NEW w \in Workers,
             \/ \E h \in hooks : WebhookReads(w, h)
             \/ WebhookOnboards(w) \/ WebhookNetworks(w) \/ WebhookDeletes(w)
             \/ \E again \in BOOLEAN : WebhookApplies(w, again)
      PROVE  nets' \subseteq nets
  BY <1>3 DEF WebhookReads, WebhookOnboards, WebhookNetworks, WebhookDeletes, WebhookApplies
<1>4. ASSUME NEW w \in Workers,
             \/ CreateAsks(w) \/ CreateChecks(w)
             \/ \E n \in nets : DeleteNetwork(w, n)
             \/ AddonCounts(w) \/ AddonCharges(w)
      PROVE  nets' \subseteq nets
  BY <1>4 DEF CreateAsks, CreateChecks, DeleteNetwork, AddonCounts, AddonCharges
<1> QED
  BY <1>1, <1>2, <1>3, <1>4 DEF BillingNext

\* The requests that check out or create have come there by a step of their own.
LEMMA OwnStep ==
    ASSUME BillingTypeOK, BillingTypeOK', BillingNext, NEW v \in Workers,
           CheckingOut(work'[v]) \/ work'[v].at = "create"
    PROVE  \/ work'[v] = work[v] \/ CreateChecks(v) \/ (\E p \in Plans : CheckoutReads(v, p))
           \/ CheckoutCustomer(v) \/ CheckoutStores(v)
<1>1. ASSUME NEW w \in Workers, NEW k, Goes(w, k), ~(k.at \in {"create", "customer", "store", "session"})
      PROVE  work'[v] = work[v]
  BY <1>1, OthersWait DEF CheckingOut
<1>2. ASSUME NEW w \in Workers, NEW j \in {Free} \cup Webhooks, Goes(w, j) PROVE work'[v] = work[v]
  BY <1>1, <1>2, FreeFields, WebhookFields
<1>3. \A w \in Workers : work[w] \in Work
  BY DEF BillingTypeOK
<1>4. ASSUME NEW w \in Workers, NEW k, Goes(w, k), w # v PROVE work'[v] = work[v]
  BY <1>4, OthersWait
<1>a. CASE UNCHANGED work
  BY <1>a
<1>b. CASE BillingRestart
  BY <1>b, FreeFields DEF BillingRestart, CheckingOut
<1>c. ASSUME NEW w \in Workers, NEW p \in Plans, CheckoutReads(w, p), w # v PROVE work'[v] = work[v]
  BY <1>4, <1>c DEF CheckoutReads
<1>d. ASSUME NEW w \in Workers, CheckoutCustomer(w), w # v PROVE work'[v] = work[v]
  BY <1>4, <1>d DEF CheckoutCustomer
<1>e. ASSUME NEW w \in Workers, CheckoutStores(w), w # v PROVE work'[v] = work[v]
  BY <1>4, <1>e DEF CheckoutStores
<1>f. ASSUME NEW w \in Workers, Goes(w, Free) PROVE work'[v] = work[v]
  BY <1>2, <1>f
<1>g. ASSUME NEW w \in Workers, RenameReads(w) PROVE work'[v] = work[v]
  BY <1>1, <1>g DEF RenameReads
<1>i. ASSUME NEW w \in Workers, NEW h \in hooks, WebhookReads(w, h) PROVE work'[v] = work[v]
  <2>1. PICK at \in {"apply", "onboard", "networks"} :
           Goes(w, [at |-> at, hook |-> h, base |-> org, left |-> {}])
    BY <1>i DEF WebhookReads
  <2> QED
    BY <1>1, <2>1
<1>j. ASSUME NEW w \in Workers, WebhookOnboards(w) PROVE work'[v] = work[v]
  <2>1. [work[w] EXCEPT !.at = "networks"].at = "networks"
    BY <1>3, <1>j, WorkFields DEF WebhookOnboards, Webhooks
  <2> QED
    BY <1>1, <1>j, <2>1 DEF WebhookOnboards
<1>k. ASSUME NEW w \in Workers, WebhookNetworks(w) PROVE work'[v] = work[v]
  <2>1. PICK at \in {"apply", "downgrade"}, left \in SUBSET nets :
           Goes(w, [work[w] EXCEPT !.at = at, !.left = left])
    BY <1>k DEF WebhookNetworks
  <2>2. [work[w] EXCEPT !.at = at, !.left = left].at = at
    BY <1>3, <1>k, WorkFields DEF WebhookNetworks, Webhooks
  <2> QED
    BY <1>1, <2>1, <2>2
<1>l. ASSUME NEW w \in Workers, WebhookDeletes(w) PROVE work'[v] = work[v]
  BY <1>1, <1>f, <1>l DEF WebhookDeletes, Publishes
<1>n. ASSUME NEW w \in Workers, CreateAsks(w) PROVE work'[v] = work[v]
  BY <1>1, <1>n DEF CreateAsks
<1>o. ASSUME NEW w \in Workers, CreateChecks(w), w # v PROVE work'[v] = work[v]
  BY <1>4, <1>o DEF CreateChecks
<1>p. ASSUME NEW w \in Workers, CreateStores(w) PROVE work'[v] = work[v]
  BY <1>1, <1>p DEF CreateStores, Publishes
<1>q. ASSUME NEW w \in Workers, NEW n \in nets, DeleteNetwork(w, n) PROVE work'[v] = work[v]
  BY <1>1, <1>q DEF DeleteNetwork, Publishes
<1>r. ASSUME NEW w \in Workers, AddonCounts(w) PROVE work'[v] = work[v]
  <2>1. work[w].then \in {Free} \cup Webhooks
    BY <1>3, <1>r, WorkFields DEF AddonCounts
  <2> QED
    BY <1>1, <1>2, <1>r, <2>1 DEF AddonCounts
<1>s. ASSUME NEW w \in Workers, AddonCharges(w) PROVE work'[v] = work[v]
  BY <1>2, <1>3, <1>s, WorkFields DEF AddonCharges
<1> QED
  BY <1>a, <1>b, <1>c, <1>d, <1>e, <1>f, <1>g, <1>i, <1>j, <1>k, <1>l, <1>n, <1>o, <1>p, <1>q, <1>r, <1>s
  DEF BillingNext, Subscribes, SubscriptionTurns, CheckoutSession, RenameWrites, WebhookApplies

LEMMA CreateStep ==
    ASSUME BillingTypeOK, BillingTypeOK', BillingNext, NEW v \in Workers, work'[v].at = "create"
    PROVE  \/ work'[v] = work[v]
           \/ work'[v].seen = nets /\ QuotaLeft(work'[v].row)
<1>1. CASE CreateChecks(v)
  <2>1. CASE QuotaLeft(work[v].row)
    <3>1. work'[v] = [at |-> "create", row |-> work[v].row, seen |-> nets]
      BY <1>1, <2>1, OthersWait DEF CreateChecks
    <3> QED
      BY <2>1, <3>1
  <2>2. CASE ~QuotaLeft(work[v].row)
    BY <1>1, <2>2, OthersWait, FreeFields DEF CreateChecks
  <2> QED
    BY <2>1, <2>2
<1>2. ASSUME NEW p \in Plans, CheckoutReads(v, p) PROVE FALSE
  BY <1>2, OthersWait DEF CheckoutReads
<1>3. CASE CheckoutCustomer(v)
  BY <1>3, OthersWait DEF CheckoutCustomer
<1>4. CASE CheckoutStores(v)
  BY <1>4, OthersWait DEF CheckoutStores
<1> QED
  BY <1>1, <1>2, <1>3, <1>4, OwnStep

LEMMA CheckoutStep ==
    ASSUME BillingTypeOK, BillingTypeOK', BillingNext, NEW v \in Workers, CheckingOut(work'[v])
    PROVE  \/ work'[v] = work[v]
           \/ \E p \in Plans : CheckoutReads(v, p)
           \/ /\ CheckingOut(work[v]) /\ work'[v].returning = work[v].returning
              /\ work'[v].at = "session" => org'.customer # NoCustomer
<1>1. CASE CreateChecks(v)
  BY <1>1, OthersWait, FreeFields DEF CreateChecks, CheckingOut
<1>2. CASE CheckoutCustomer(v)
  BY <1>2, OthersWait DEF CheckoutCustomer, CheckingOut
<1>3. CASE CheckoutStores(v)
  <2>1. work[v].customer \in Nat /\ work[v].base \in OrgRow
    BY <1>3, NetsTyped, WorkFields DEF CheckoutStores
  <2>2. org' = [work[v].base EXCEPT !.customer = work[v].customer]
    BY <1>3 DEF CheckoutStores, Rewrites
  <2>3. org'.customer # NoCustomer
    BY <2>1, <2>2, BillingAssumption DEF OrgRow
  <2> QED
    BY <1>3, <2>3, OthersWait DEF CheckoutStores, CheckingOut
<1> QED
  BY <1>1, <1>2, <1>3, OwnStep

LEMMA QuotaKeeps ==
    ASSUME BillingTypeOK, BillingTypeOK', Downgraded, QuotaInv, BillingNext,
           lapse' \cap {"overwrite", "late"} = {}
    PROVE  QuotaInv'
<1>0. IsFiniteSet(nets) /\ Cardinality(nets) \in Nat
  BY NetsTyped
<1>1. ASSUME NEW w \in Workers, CreateStores(w), ~Decided(w)
      PROVE  /\ Limited(org.plan) => Cardinality(nets) + 1 <= Included[org.plan]
             /\ \A v \in Workers : ~(Inner(work'[v]).at \in {"downgrade", "apply"})
  <2>1. /\ work[w].row.plan = org.plan /\ nets \subseteq work[w].seen
        /\ \A v \in Workers : ~(work[v].at \in {"downgrade", "count", "charge", "apply"})
    BY <1>1 DEF Decided
  <2>2. work[w].at = "create" /\ work[w].seen \in Sets
    BY <1>1, NetsTyped, WorkFields DEF CreateStores, Publishes
  <2>3. IsFiniteSet(work[w].seen) /\ Cardinality(work[w].seen) \in Nat
    BY <2>2, SetsFinite
  <2>4. Cardinality(nets) <= Cardinality(work[w].seen)
    BY <2>1, <2>3, FS_Subset
  <2>5. ASSUME Limited(org.plan) PROVE Cardinality(nets) + 1 <= Included[org.plan]
    <3>1. Cardinality(work[w].seen) < Included[org.plan]
      BY <2>1, <2>2, <2>5 DEF QuotaInv
    <3>2. Included[org.plan] \in Nat
      BY <2>5, BillingAssumption DEF Limited
    <3> QED
      BY <1>0, <2>3, <2>4, <3>1, <3>2
  <2>6. ASSUME NEW v \in Workers PROVE ~(Inner(work'[v]).at \in {"downgrade", "apply"})
    <3>1. CASE v = w
      <4>1. work'[v] = [at |-> "count", then |-> Free]
        BY <1>1, <3>1, OthersWait DEF CreateStores, Publishes
      <4> QED
        BY <4>1, FreeFields DEF Inner
    <3>2. CASE v # w
      <4>1. work'[v] = work[v]
        BY <1>1, <3>2, OthersWait DEF CreateStores, Publishes
      <4> QED
        BY <2>1, <4>1 DEF Inner
    <3> QED
      BY <3>1, <3>2
  <2> QED
    BY <2>5, <2>6
<1>2. ASSUME NEW w \in Workers, CreateStores(w) PROVE ~Decided(w)
  BY <1>2 DEF CreateStores, Publishes, Lapses, Unless
<1>3. Fits(org'.plan, nets')
  <2>1. CASE \E w \in Workers : CreateStores(w)
    <3>1. PICK w \in Workers : CreateStores(w)
      BY <2>1
    <3>2. org' = org /\ nets' = nets \cup {made + 1}
      BY <3>1 DEF CreateStores, Publishes
    <3>3. Cardinality(nets') \in Nat /\ Cardinality(nets') <= Cardinality(nets) + 1
      BY <1>0, <3>2, FS_AddElement
    <3>4. ASSUME Limited(org.plan) PROVE Cardinality(nets') <= Included[org.plan]
      <4>1. Cardinality(nets) + 1 <= Included[org.plan]
        BY <1>1, <1>2, <3>1, <3>4
      <4>2. Included[org.plan] \in Nat
        BY <3>4, BillingAssumption DEF Limited
      <4> QED
        BY <1>0, <3>3, <4>1, <4>2
    <3> QED
      BY <3>2, <3>4 DEF Fits
  <2>2. CASE \E w \in Workers, again \in BOOLEAN : WebhookApplies(w, again)
    <3>1. PICK w \in Workers, again \in BOOLEAN : WebhookApplies(w, again)
      BY <2>2
    <3> DEFINE h == work[w].hook
    <3>2. /\ Inner(work[w]) = work[w] /\ work[w].at = "apply" /\ nets' = nets
          /\ Agrees(org', h)
      BY <3>1, AppliesRow DEF WebhookApplies
    <3>3. work[w].left = {}
      BY <3>2 DEF Downgraded
    <3>4. CASE h.status = "canceled"
      BY <3>2, <3>4, BillingAssumption DEF Agrees, Fits, Limited
    <3>5. CASE h.status # "canceled"
      <4>1. Fits(h.plan, nets \ work[w].left)
        BY <3>2, <3>5 DEF QuotaInv
      <4>2. nets \ work[w].left = nets
        BY <3>3
      <4> QED
        BY <3>2, <3>5, <4>1, <4>2 DEF Agrees
    <3> QED
      BY <3>4, <3>5
  <2>3. CASE org'.plan = org.plan /\ nets' \subseteq nets
    BY <1>0, <2>3, FitsLess DEF QuotaInv
  <2> QED
    BY <2>1, <2>2, <2>3, NetsStep, RowStep
<1>4. ASSUME NEW v \in Workers, Inner(work'[v]).at \in {"downgrade", "apply"},
             Inner(work'[v]).hook.status # "canceled"
      PROVE  Fits(Inner(work'[v]).hook.plan, nets' \ Inner(work'[v]).left)
  <2> DEFINE j == Inner(work[v])
             k == Inner(work'[v])
             p == k.hook.plan
  <2>1. work'[v] \in Work /\ work[v] \in Work
    BY DEF BillingTypeOK
  <2>2. Handling(work'[v]) /\ k \in Webhooks
    BY <1>4, <2>1, InnerFields
  <2>3. Handling(work[v]) /\ Continues(j, k)
    BY <1>4, <2>2, HandlingStep DEF Begins
  <2>4. nets' \subseteq nets
    BY <1>1, <1>2, <1>4, NetsStep
  <2>5. p \in Plans
    BY <2>2, WebhookFields
  <2>6. CASE k = j
    <3>1. Fits(p, nets \ j.left)
      BY <1>4, <2>6 DEF QuotaInv
    <3>2. nets' \ k.left \subseteq nets \ j.left /\ IsFiniteSet(nets \ j.left)
      BY <1>0, <2>4, <2>6, FS_Subset
    <3> QED
      BY <3>1, <3>2, FitsLess
  <2>7. CASE k.hook = j.hook /\ j.at = "downgrade" /\ nets' \ k.left \subseteq nets \ j.left
    <3>1. Fits(p, nets \ j.left)
      BY <1>4, <2>7 DEF QuotaInv
    <3>2. IsFiniteSet(nets \ j.left)
      BY <1>0, FS_Subset
    <3> QED
      BY <2>7, <3>1, <3>2, FitsLess
  <2>8. CASE /\ k.hook = j.hook /\ nets' = nets
             /\ k.left = IF Limited(j.hook.plan) THEN nets \ Kept(j.hook.plan) ELSE {}
    <3>1. ASSUME Limited(p) PROVE Cardinality(nets' \ k.left) <= Included[p]
      <4>1. nets' \ k.left = Kept(p)
        BY <2>5, <2>8, <3>1, KeptFits
      <4> QED
        BY <2>5, <4>1, KeptFits
    <3> QED
      BY <3>1 DEF Fits
  <2>9. k.at # "networks"
    BY <1>4
  <2> QED
    BY <2>3, <2>6, <2>7, <2>8, <2>9 DEF Continues
<1>5. ASSUME NEW v \in Workers, work'[v].at = "create", Limited(work'[v].row.plan)
      PROVE  Cardinality(work'[v].seen) < Included[work'[v].row.plan]
  <2>1. CASE work'[v] = work[v]
    BY <1>5, <2>1 DEF QuotaInv
  <2>2. CASE work'[v].seen = nets /\ QuotaLeft(work'[v].row)
    BY <1>5, <2>2 DEF QuotaLeft
  <2> QED
    BY <1>5, <2>1, <2>2, CreateStep
<1> QED
  BY <1>3, <1>4, <1>5 DEF QuotaInv

----------------------------------------------------------------------------
(* There is one trial *)

\* Who checks out and whether the organization counts as new, after a step.
LEMMA CheckingKept ==
    ASSUME BillingTypeOK, BillingTypeOK', TrialInv, BillingNext,
           lapse' \cap {"together", "overwrite"} = {}
    PROVE  /\ \A v, w \in Workers : CheckingOut(work'[v]) /\ CheckingOut(work'[w]) => v = w
           /\ \A w \in Workers : work'[w].at = "session" => org'.customer # NoCustomer
           /\ org'.customer = NoCustomer => org.customer = NoCustomer
           /\ \A w \in Workers : CheckingOut(work'[w]) /\ ~work'[w].returning => NoTrial
<1>1. org.customer # NoCustomer => org'.customer # NoCustomer
  BY RowStep
<1>2. ASSUME NEW v \in Workers, CheckingOut(work'[v]), ~CheckingOut(work[v])
      PROVE  /\ \A w \in Workers : CheckingOut(work'[w]) => w = v
             /\ work'[v].at = "customer" /\ work'[v].returning = (org.customer # NoCustomer)
  <2>1. PICK p \in Plans : CheckoutReads(v, p)
    BY <1>2, CheckoutStep
  <2>2. /\ work'[v] = [at |-> "customer", plan |-> p, returning |-> org.customer # NoCustomer]
        /\ \A w \in Workers : w # v => work'[w] = work[w]
    BY <2>1, OthersWait DEF CheckoutReads
  <2>3. \A w \in Workers : ~CheckingOut(work[w])
    BY <2>1 DEF CheckoutReads, Lapses, Unless, CheckingOut
  <2> QED
    BY <2>2, <2>3
<1>3. ASSUME NEW v \in Workers, CheckingOut(work'[v]), CheckingOut(work[v])
      PROVE  work'[v].returning = work[v].returning
  <2>1. ASSUME NEW p \in Plans, CheckoutReads(v, p) PROVE FALSE
    BY <1>3, <2>1, FreeFields DEF CheckoutReads, Calls, CheckingOut
  <2> QED
    BY <1>3, <2>1, CheckoutStep
<1>4. ASSUME NEW v \in Workers, NEW w \in Workers, CheckingOut(work'[v]), CheckingOut(work'[w])
      PROVE  v = w
  <2>1. CASE ~CheckingOut(work[v])
    BY <1>2, <1>4, <2>1
  <2>2. CASE ~CheckingOut(work[w])
    BY <1>2, <1>4, <2>2
  <2>3. CASE CheckingOut(work[v]) /\ CheckingOut(work[w])
    BY <2>3 DEF TrialInv
  <2> QED
    BY <2>1, <2>2, <2>3
<1>5. ASSUME NEW w \in Workers, work'[w].at = "session" PROVE org'.customer # NoCustomer
  <2>1. CheckingOut(work'[w])
    BY <1>5 DEF CheckingOut
  <2>2. ASSUME NEW p \in Plans, CheckoutReads(w, p) PROVE FALSE
    BY <1>5, <2>2, OthersWait DEF CheckoutReads
  <2>3. CASE work'[w] = work[w]
    BY <1>1, <1>5, <2>3 DEF TrialInv
  <2> QED
    BY <1>5, <2>1, <2>2, <2>3, CheckoutStep
<1>6. ASSUME NEW w \in Workers, CheckingOut(work'[w]), ~work'[w].returning PROVE NoTrial
  <2>1. CASE ~CheckingOut(work[w])
    BY <1>2, <1>6, <2>1 DEF TrialInv
  <2>2. CASE CheckingOut(work[w])
    BY <1>3, <1>6, <2>2 DEF TrialInv
  <2> QED
    BY <2>1, <2>2
<1> QED
  BY <1>1, <1>4, <1>5, <1>6

LEMMA CheckoutsStep ==
    ASSUME BillingTypeOK, BillingNext
    PROVE  checkouts' = checkouts \/ (\E c \in checkouts : Subscribes(c))
           \/ \E w \in Workers : CheckoutSession(w)
<1>1. \/ \E i \in DOMAIN subs, s \in {"active", "past_due", "canceled"} : SubscriptionTurns(i, s)
      \/ BillingRestart
      => checkouts' = checkouts
  BY DEF SubscriptionTurns, BillingRestart, stripeVars
<1>2. ASSUME NEW w \in Workers,
             \/ \E p \in Plans : CheckoutReads(w, p)
             \/ CheckoutCustomer(w) \/ CheckoutStores(w)
             \/ RenameReads(w) \/ RenameWrites(w)
      PROVE  checkouts' = checkouts
  BY <1>2 DEF CheckoutReads, CheckoutCustomer, CheckoutStores, RenameReads, RenameWrites, stripeVars
<1>3. ASSUME NEW w \in Workers,
             \/ \E h \in hooks : WebhookReads(w, h)
             \/ WebhookOnboards(w) \/ WebhookNetworks(w) \/ WebhookDeletes(w)
             \/ \E again \in BOOLEAN : WebhookApplies(w, again)
      PROVE  checkouts' = checkouts
  BY <1>3 DEF WebhookReads, WebhookOnboards, WebhookNetworks, WebhookDeletes, WebhookApplies, stripeVars
<1>4. ASSUME NEW w \in Workers,
             \/ CreateAsks(w) \/ CreateChecks(w) \/ CreateStores(w)
             \/ \E n \in nets : DeleteNetwork(w, n)
             \/ AddonCounts(w) \/ AddonCharges(w)
      PROVE  checkouts' = checkouts
  BY <1>4 DEF CreateAsks, CreateChecks, CreateStores, DeleteNetwork, AddonCounts, AddonCharges, stripeVars
<1> QED
  BY <1>1, <1>2, <1>3, <1>4 DEF BillingNext

LEMMA TrialsStep ==
    ASSUME BillingTypeOK, BillingNext
    PROVE  \/ \E c \in checkouts : Subscribes(c)
           \/ Len(subs') = Len(subs) /\ \A i \in 1..Len(subs) : subs'[i].trial = subs[i].trial
<1>1. ASSUME NEW i \in DOMAIN subs, NEW s \in {"active", "past_due", "canceled"}, SubscriptionTurns(i, s)
      PROVE  Len(subs') = Len(subs) /\ \A j \in 1..Len(subs) : subs'[j].trial = subs[j].trial
  <2>1. subs' = [subs EXCEPT ![i].status = s] /\ s \in Live \cup {"canceled"}
    BY <1>1 DEF SubscriptionTurns, Live
  <2> QED
    BY <2>1, TurnTyped
<1> QED
  BY <1>1, StripeStep

LEMMA TrialKept ==
    ASSUME BillingTypeOK, BillingTypeOK', TrialInv, BillingNext,
           lapse' \cap {"together", "overwrite"} = {}
    PROVE  TrialInv'
<1>0. Len(subs) \in Nat /\ DOMAIN subs = 1..Len(subs)
  BY StripeTyped
<1>1. ASSUME NEW c \in checkouts, Subscribes(c) PROVE TrialInv'
  <2>1. checkouts' = checkouts \ {c} /\ UNCHANGED <<org, work>>
    BY <1>1 DEF Subscribes
  <2>2. /\ Len(subs') = Len(subs) + 1 /\ \A i \in 1..Len(subs) : subs'[i] = subs[i]
        /\ subs'[Len(subs) + 1].trial = c.trial
    BY <1>1, SubscribeTyped
  <2>3. \A i \in 1..Len(subs') : i \in 1..Len(subs) \/ i = Len(subs) + 1
    BY <1>0, <2>2
  <2>4. NoTrial => NoTrial'
    BY <2>1, <2>2, <2>3 DEF NoTrial
  <2>5. \A d \in checkouts', i \in 1..Len(subs') : ~(d.trial /\ subs'[i].trial)
    BY <2>1, <2>2, <2>3 DEF TrialInv
  <2>6. \A i, j \in 1..Len(subs') : subs'[i].trial /\ subs'[j].trial => i = j
    BY <2>2, <2>3 DEF TrialInv
  <2>7. /\ \A v, w \in Workers : CheckingOut(work'[v]) /\ CheckingOut(work'[w]) => v = w
        /\ \A w \in Workers : work'[w].at = "session" => org'.customer # NoCustomer
        /\ org'.customer = NoCustomer => NoTrial
        /\ \A w \in Workers : CheckingOut(work'[w]) /\ ~work'[w].returning => NoTrial
        /\ \A d, e \in checkouts' : d.trial /\ e.trial => d = e
    BY <2>1 DEF TrialInv
  <2> QED
    BY <2>4, <2>5, <2>6, <2>7 DEF TrialInv
<1>2. ASSUME Len(subs') = Len(subs), \A i \in 1..Len(subs) : subs'[i].trial = subs[i].trial,
             checkouts' = checkouts
      PROVE  TrialInv'
  <2>1. NoTrial => NoTrial'
    BY <1>2 DEF NoTrial
  <2>2. org.customer = NoCustomer => NoTrial
    BY DEF TrialInv
  <2>3. /\ \A c, d \in checkouts' : c.trial /\ d.trial => c = d
        /\ \A c \in checkouts', i \in 1..Len(subs') : ~(c.trial /\ subs'[i].trial)
        /\ \A i, j \in 1..Len(subs') : subs'[i].trial /\ subs'[j].trial => i = j
    BY <1>2 DEF TrialInv
  <2> QED
    BY <2>1, <2>2, <2>3, CheckingKept DEF TrialInv
<1>3. ASSUME NEW w \in Workers, CheckoutSession(w) PROVE TrialInv'
  <2> DEFINE j == work[w]
             c == [plan |-> j.plan, customer |-> j.customer, trial |-> TrialFor(j)]
  <2>1. /\ j.at = "session" /\ checkouts' = checkouts \cup {c} /\ UNCHANGED <<org, subs>>
        /\ work'[w] = Free /\ \A v \in Workers : v # w => work'[v] = work[v]
    BY <1>3, OthersWait DEF CheckoutSession
  <2>2. CheckingOut(j) /\ ~CheckingOut(work'[w])
    BY <2>1, FreeFields DEF CheckingOut
  <2>3. \A v \in Workers : ~CheckingOut(work'[v])
    BY <2>1, <2>2 DEF TrialInv
  <2>4. org'.customer # NoCustomer
    BY <2>1 DEF TrialInv
  <2>5. c.trial => NoTrial
    BY <2>2 DEF TrialInv, TrialFor
  <2> HIDE DEF c, j
  <2>6. /\ \A d, e \in checkouts' : d.trial /\ e.trial => d = e
        /\ \A d \in checkouts', i \in 1..Len(subs') : ~(d.trial /\ subs'[i].trial)
        /\ \A i, k \in 1..Len(subs') : subs'[i].trial /\ subs'[k].trial => i = k
    BY <2>1, <2>5 DEF TrialInv, NoTrial
  <2>7. \A v \in Workers : work'[v].at # "session"
    BY <2>3 DEF CheckingOut
  <2> QED
    BY <2>3, <2>4, <2>6, <2>7 DEF TrialInv
<1> QED
  BY <1>1, <1>2, <1>3, CheckoutsStep, TrialsStep

----------------------------------------------------------------------------
(* What is beyond the plan is charged *)

\* Nothing that matters for the charges happens but the steps named here.
LEMMA CountingStep ==
    ASSUME BillingTypeOK, BillingTypeOK', BillingNext
    PROVE  \/ \E c \in checkouts : Subscribes(c)
           \/ \E i \in DOMAIN subs, s \in {"active", "past_due", "canceled"} : SubscriptionTurns(i, s)
           \/ \E w \in Workers, again \in BOOLEAN : WebhookApplies(w, again)
           \/ \E w \in Workers : AddonCounts(w) \/ AddonCharges(w)
           \/ BillingRestart
           \/ \E w \in Workers : Counting(work'[w])
           \/ /\ UNCHANGED <<nets, subs, sent, applied>>
              /\ \A w \in Workers : Counting(work[w]) => work'[w] = work[w]
<1>1. ASSUME NEW w \in Workers, NEW k, Goes(w, k), ~Counting(work[w])
      PROVE  \A v \in Workers : Counting(work[v]) => work'[v] = work[v]
  BY <1>1, OthersWait
<1>2. ASSUME NEW w \in Workers, NEW k, Goes(w, k), Counting(k)
      PROVE  \E v \in Workers : Counting(work'[v])
  BY <1>2, OthersWait
<1>3. ~Counting(Free)
  BY FreeFields DEF Counting
<1>a. ASSUME NEW w \in Workers, WebhookDeletes(w)
      PROVE  \/ \E v \in Workers : Counting(work'[v])
             \/ /\ UNCHANGED <<nets, subs, sent, applied>>
                /\ \A v \in Workers : Counting(work[v]) => work'[v] = work[v]
  <2>1. CASE Min(work[w].left) \in nets
    BY <1>2, <1>a, <2>1 DEF WebhookDeletes, Publishes, Counting
  <2>2. CASE Min(work[w].left) \notin nets
    <3>1. Goes(w, Free) /\ ~Counting(work[w])
      BY <1>a, <2>2 DEF WebhookDeletes, Publishes, Counting
    <3> QED
      BY <1>1, <1>a, <2>2, <3>1 DEF WebhookDeletes, Publishes, stripeVars
  <2> QED
    BY <2>1, <2>2
<1>b. ASSUME NEW w \in Workers, CreateStores(w) \/ \E n \in nets : DeleteNetwork(w, n)
      PROVE  \E v \in Workers : Counting(work'[v])
  BY <1>2, <1>b DEF CreateStores, Publishes, DeleteNetwork, Counting
<1>c. ASSUME NEW w \in Workers,
             \/ \E p \in Plans : CheckoutReads(w, p)
             \/ CheckoutCustomer(w) \/ CheckoutStores(w) \/ CheckoutSession(w)
             \/ RenameReads(w) \/ RenameWrites(w)
             \/ \E h \in hooks : WebhookReads(w, h)
             \/ WebhookOnboards(w) \/ WebhookNetworks(w)
             \/ CreateAsks(w) \/ CreateChecks(w)
      PROVE  /\ UNCHANGED <<nets, subs, sent, applied>>
             /\ \A v \in Workers : Counting(work[v]) => work'[v] = work[v]
  <2>1. ~Counting(work[w])
    BY <1>3, <1>c DEF CheckoutReads, CheckoutCustomer, CheckoutStores, CheckoutSession, RenameReads,
                      RenameWrites, WebhookReads, WebhookOnboards, WebhookNetworks, CreateAsks,
                      CreateChecks, Calls, Idles, Counting
  <2>2. \E k : Goes(w, k)
    BY <1>c DEF CheckoutReads, CheckoutCustomer, CheckoutStores, CheckoutSession, RenameReads,
                RenameWrites, WebhookReads, WebhookOnboards, WebhookNetworks, CreateAsks, CreateChecks
  <2>3. UNCHANGED <<nets, subs, sent, applied>>
    BY <1>c DEF CheckoutReads, CheckoutCustomer, CheckoutStores, CheckoutSession, RenameReads,
                RenameWrites, WebhookReads, WebhookOnboards, WebhookNetworks, CreateAsks, CreateChecks,
                stripeVars
  <2> QED
    BY <1>1, <2>1, <2>2, <2>3
<1> QED
  BY <1>a, <1>b, <1>c DEF BillingNext

\* The only subscription that can be charged is the last.
LEMMA LastActive ==
    ASSUME BillingTypeOK, PlanInv, NEW i \in DOMAIN subs, subs[i].status = "active"
    PROVE  i = Len(subs)
<1>1. i \in 1..Len(subs)
  BY DEF BillingTypeOK
<1> QED
  BY <1>1 DEF PlanInv

LEMMA ChargeKept ==
    ASSUME BillingTypeOK, BillingTypeOK', PlanInv, PlanInv', ChargeInv, BillingNext, lapse' = {}
    PROVE  ChargeInv'
<1> DEFINE s == subs'[Len(subs')]
<1> SUFFICES ASSUME Len(subs') > 0, applied' = sent', s.status = "active", s.plan \in Buyable,
                    \A w \in Workers : ~Counting(work'[w])
             PROVE  s.extra = Excess(s.plan, Cardinality(nets'))
  BY DEF ChargeInv
<1>0. Len(subs) \in Nat /\ sent \in Nat /\ applied \in 0..sent /\ DOMAIN subs = 1..Len(subs)
  BY DEF BillingTypeOK
<1>1. ASSUME sent' = sent + 1, applied' = applied PROVE FALSE
  BY <1>0, <1>1
<1>2. ASSUME NEW c \in checkouts, Subscribes(c) PROVE FALSE
  BY <1>1, <1>2 DEF Subscribes, Tells
<1>3. ASSUME NEW i \in DOMAIN subs, NEW t \in {"active", "past_due", "canceled"}, SubscriptionTurns(i, t)
      PROVE  FALSE
  BY <1>1, <1>3 DEF SubscriptionTurns, Tells
<1>4. ASSUME NEW w \in Workers, NEW again \in BOOLEAN, WebhookApplies(w, again)
      PROVE  s.extra = Excess(s.plan, Cardinality(nets'))
  <2> DEFINE h == work[w].hook
  <2>1. Handling(work[w]) /\ Inner(work[w]) = work[w]
    BY <1>4, AppliesRow
  <2>2. UNCHANGED <<subs, nets, sent>> /\ applied' = h.n
    BY <1>4 DEF WebhookApplies
  <2>3. Newest(h, sent, subs)
    BY <2>1 DEF PlanInv
  <2>4. h.sub = Len(subs) /\ h.status = "active" /\ h.plan = s.plan
    BY <2>2, <2>3 DEF Newest
  <2>5. h.status = "canceled" \/ h.plan \notin Buyable \/ subs[h.sub].extra = Excess(h.plan, Cardinality(nets))
    BY <1>4 DEF WebhookApplies, Lapses, Unless
  <2> QED
    BY <2>2, <2>4, <2>5
<1>5. ASSUME NEW w \in Workers, AddonCounts(w) PROVE FALSE
  <2>1. UNCHANGED <<subs, sent, applied, org>>
    BY <1>5 DEF AddonCounts, stripeVars
  <2>2. org.plan = s.plan
    BY <1>0, <2>1 DEF PlanInv, Agrees
  <2>3. org.plan # NoPlan
    BY <2>2, BillingAssumption
  <2>4. work'[w].at = "charge"
    BY <1>5, <2>3, OthersWait DEF AddonCounts
  <2> QED
    BY <2>4 DEF Counting
<1>6. ASSUME NEW w \in Workers, AddonCharges(w) PROVE s.extra = Excess(s.plan, Cardinality(nets'))
  <2> DEFINE j == work[w]
             active == {i \in DOMAIN subs : subs[i].customer = j.customer /\ subs[i].status = "active"}
  <2>1. UNCHANGED <<sent, applied, org, nets>>
    BY <1>6 DEF AddonCharges
  <2>2. active # {} /\ j.count = nets /\ j.plan = org.plan
    BY <1>6 DEF AddonCharges, Lapses, Unless
  <2>3. active = {Len(subs)}
    BY <2>2, LastActive
  <2>4. Max(active) = Len(subs)
    <3>1. \A x \in {Len(subs)} : x >= x
      BY <1>0
    <3> QED
      BY <1>0, <2>3, <3>1 DEF Max
  <2>5. j.plan \in Plans /\ j.count \in Sets
    BY <1>6, NetsTyped, WorkFields DEF AddonCharges
  <2>6. Quantity(j) \in 0..MaxNetworks
    BY <2>5, ExcessTyped DEF Quantity
  <2>7. Len(subs') = Len(subs) /\ \A i \in 1..Len(subs) : subs'[i].plan = subs[i].plan
    <3>1. subs' = [subs EXCEPT ![Max(active)].extra = Quantity(j)] \/ subs' = subs
      BY <1>6 DEF AddonCharges
    <3> QED
      BY <2>6, <3>1, ChargeTyped
  <2>8. j.plan = s.plan
    <3>1. sent' > 0 /\ Agrees(org', s)
      BY <1>0, <2>1 DEF PlanInv
    <3> QED
      BY <2>1, <2>2, <3>1 DEF Agrees
  <2>9. subs' = [subs EXCEPT ![Len(subs)].extra = Quantity(j)]
    BY <1>6, <2>2, <2>4, <2>8 DEF AddonCharges
  <2>10. Len(subs) \in 1..Len(subs)
    BY <1>0, <2>7
  <2>11. subs'[Len(subs)].extra = Quantity(j)
    BY <2>6, <2>9, <2>10, ChargeTyped
  <2> QED
    BY <2>1, <2>2, <2>7, <2>8, <2>11 DEF Quantity
<1>7. CASE UNCHANGED <<nets, subs, sent, applied>> /\ \A w \in Workers : ~Counting(work[w])
  BY <1>7 DEF ChargeInv
<1>8. ASSUME BillingRestart PROVE UNCHANGED <<nets, subs, sent, applied>> /\ \A w \in Workers : ~Counting(work[w])
  BY <1>8 DEF BillingRestart, stripeVars, Lapses, Unless, Counting
<1> QED
  BY <1>2, <1>3, <1>4, <1>5, <1>6, <1>7, <1>8, CountingStep

----------------------------------------------------------------------------
(* The theorems *)

LEMMA BillingInvInit == BillingInit => BillingInv
<1> SUFFICES ASSUME BillingInit PROVE BillingInv
  OBVIOUS
<1>1. BillingTypeOK
  BY TypesInit
<1>2. \A w \in Workers : work[w] = Free
  BY DEF BillingInit
<1>3. /\ ~Handling(Free) /\ Inner(Free) = Free
      /\ ~(Free.at \in {"downgrade", "apply", "create", "session", "customer", "store"})
      /\ ~CheckingOut(Free)
  BY FreeFields DEF Handling, Inner, CheckingOut
<1>4. Len(subs) = 0 /\ 1..0 = {} /\ ~(0 > 0)
  BY DEF BillingInit
<1>5. Told /\ Downgraded
  BY <1>2, <1>3 DEF Told, Downgraded, BillingInit
<1>6. PlanInv
  BY <1>2, <1>3, <1>4 DEF PlanInv, BillingInit
<1>7. QuotaInv
  BY <1>2, <1>3, BillingAssumption DEF QuotaInv, BillingInit, Fits, Limited
<1>8. TrialInv
  BY <1>2, <1>3, <1>4 DEF TrialInv, NoTrial, BillingInit
<1>9. ChargeInv
  BY <1>4 DEF ChargeInv
<1> QED
  BY <1>1, <1>5, <1>6, <1>7, <1>8, <1>9 DEF BillingInv

LEMMA BillingInvKept == BillingInv /\ [BillingNext]_billingVars => BillingInv'
<1> SUFFICES ASSUME BillingInv, [BillingNext]_billingVars PROVE BillingInv'
  OBVIOUS
<1>1. CASE UNCHANGED billingVars
  BY <1>1 DEF BillingInv, billingVars, BillingTypeOK, Told, Downgraded, PlanInv, QuotaInv, TrialInv,
              NoTrial, ChargeInv, Fits
<1>2. CASE BillingNext
  <2>1. BillingTypeOK /\ Told /\ Downgraded
    BY DEF BillingInv
  <2>2. BillingTypeOK'
    BY <1>2, <2>1, TypesKept
  <2>3. Told' /\ Downgraded'
    BY <1>2, <2>1, <2>2, ToldKept, DowngradedKept
  <2>4. lapse \subseteq lapse'
    BY <1>2, <2>1, LapsesStay
  <2>5. ASSUME lapse' \cap {"order", "overwrite", "second"} = {} PROVE PlanInv /\ PlanInv'
    <3>1. PlanInv
      BY <2>4, <2>5 DEF BillingInv
    <3> QED
      BY <1>2, <2>1, <2>2, <2>3, <2>5, <3>1, PlanKept
  <2>6. ASSUME lapse' \cap {"overwrite", "late"} = {} PROVE QuotaInv'
    <3>1. QuotaInv
      BY <2>4, <2>6 DEF BillingInv
    <3> QED
      BY <1>2, <2>1, <2>2, <2>6, <3>1, QuotaKeeps
  <2>7. ASSUME lapse' \cap {"together", "overwrite"} = {} PROVE TrialInv'
    <3>1. TrialInv
      BY <2>4, <2>7 DEF BillingInv
    <3> QED
      BY <1>2, <2>1, <2>2, <2>7, <3>1, TrialKept
  <2>8. ASSUME lapse' = {} PROVE ChargeInv'
    <3>1. ChargeInv
      BY <2>4, <2>8 DEF BillingInv
    <3> QED
      BY <1>2, <2>1, <2>2, <2>5, <2>8, <3>1, ChargeKept
  <2> QED
    BY <2>2, <2>3, <2>5, <2>6, <2>7, <2>8 DEF BillingInv
<1> QED
  BY <1>1, <1>2

LEMMA BillingInvHolds == BillingSpec => []BillingInv
BY BillingInvInit, BillingInvKept, PTL DEF BillingSpec

\* The organization's row, Stripe's records and the requests under way keep their types
\* through every interleaving of webhooks, checkouts and requests, and no webhook is stored
\* that was not sent (handle_webhook, create_checkout_session, handle_events).
THEOREM BillingTypes == BillingSpec => []BillingTypeOK
<1>1. BillingInv => BillingTypeOK
  BY DEF BillingInv
<1> QED
  BY <1>1, BillingInvHolds, PTL

\* When all webhooks are worked off the organization has the plan and the status of its
\* subscription, for any number of webhooks that are repeated, interrupted by restarts and
\* mixed with each other, unless one of the three named things went by
\* (handle_subscription_update, handle_subscription_deleted).
THEOREM PlanIsFollowed == BillingSpec => []PlanFollowsSubscription
<1>1. BillingInv => PlanFollowsSubscription
  <2> SUFFICES ASSUME BillingInv, Settled, lapse \cap {"order", "overwrite", "second"} = {}, subs # <<>>
               PROVE  Agrees(org, subs[Len(subs)])
    BY DEF PlanFollowsSubscription, Agrees
  <2>1. PlanInv /\ Len(subs) \in Nat /\ sent \in Nat
    BY DEF BillingInv, BillingTypeOK
  <2>2. Len(subs) > 0
    BY <2>1 DEF BillingInv, BillingTypeOK
  <2>3. sent > 0
    BY <2>1, <2>2 DEF PlanInv
  <2> QED
    BY <2>1, <2>3 DEF PlanInv, Settled
<1> QED
  BY <1>1, BillingInvHolds, PTL

\* A limited plan's networks are never more than it includes, while a webhook deletes the
\* others one at a time and networks are created and deleted beside it, unless a network
\* was created on an outdated check or an old row was written back
\* (handle_subscription_update, CreateNetworkFeature).
THEOREM QuotaIsKept == BillingSpec => []QuotaKept
<1>1. BillingInv => QuotaKept
  BY DEF BillingInv, QuotaKept, QuotaInv, Fits
<1> QED
  BY <1>1, BillingInvHolds, PTL

\* What a subscription is charged for is what there is beyond the included networks, when
\* nothing is under way and nothing went by (update_addon_prices).
THEOREM ExtraIsCharged == BillingSpec => []ExtraNetworksCharged
<1>1. BillingInv => ExtraNetworksCharged
  <2> SUFFICES ASSUME BillingInv, Settled, lapse = {}, NEW i \in DOMAIN subs, subs[i].status = "active",
                      subs[i].plan \in Buyable
               PROVE  subs[i].extra = Excess(subs[i].plan, Cardinality(nets))
    BY DEF ExtraNetworksCharged
  <2>1. BillingTypeOK /\ PlanInv /\ ChargeInv
    BY DEF BillingInv
  <2>2. i = Len(subs) /\ Len(subs) > 0
    BY <2>1, LastActive DEF BillingTypeOK
  <2>3. sent > 0
    BY <2>1, <2>2 DEF PlanInv
  <2>4. applied = sent
    BY <2>1, <2>3 DEF PlanInv, Settled
  <2>5. \A w \in Workers : ~Counting(work[w])
    BY FreeFields DEF Settled, Counting
  <2> QED
    BY <2>1, <2>2, <2>4, <2>5 DEF ChargeInv
<1> QED
  BY <1>1, BillingInvHolds, PTL

\* An organization gets at most one trial, however often it checks out, unless it checked
\* out twice at a time or its customer was overwritten (create_checkout_session).
THEOREM TrialIsOnce == BillingSpec => []OneTrial
<1>1. BillingInv => OneTrial
  <2> SUFFICES ASSUME BillingInv, lapse \cap {"together", "overwrite"} = {}
               PROVE  Cardinality({i \in DOMAIN subs : subs[i].trial}) <= 1
    BY DEF OneTrial
  <2> DEFINE T == {i \in DOMAIN subs : subs[i].trial}
  <2>1. TrialInv /\ DOMAIN subs = 1..Len(subs)
    BY DEF BillingInv, BillingTypeOK
  <2>2. CASE T = {}
    BY <2>2, FS_EmptySet
  <2>3. CASE T # {}
    <3>1. PICK i \in T : TRUE
      BY <2>3
    <3>2. T = {i}
      BY <2>1, <3>1 DEF TrialInv
    <3>3. Cardinality({i}) = 1
      BY FS_Singleton
    <3>4. Cardinality(T) = 1
      BY <3>2, <3>3
    <3> HIDE DEF T
    <3>5. Cardinality(T) <= 1
      BY <3>4
    <3> QED
      BY <3>5 DEF T
  <2> QED
    BY <2>2, <2>3
<1> QED
  BY <1>1, BillingInvHolds, PTL
=============================================================================
