------------------------------ MODULE Billing ------------------------------
(***************************************************************************)
(* Paying for an organization (server/billing, the billing and feature     *)
(* middleware, the onboarding subscriber).                                 *)
(*                                                                         *)
(* The subscriptions are kept by Stripe, which tells of every change in a  *)
(* webhook: in any order, and again until the server has answered it well. *)
(* The organization's row holds the plan and its status as the last        *)
(* webhook left them; every writer of the row writes all of it.  Networks  *)
(* beyond the plan are deleted by the webhook, refused, or charged for.    *)
(*                                                                         *)
(* Networks have the order of their creation as their names.  Seats are    *)
(* counted and charged by the same lines as networks and left out; so are  *)
(* prices, the invites a canceled organization loses, and the portal, in   *)
(* which a customer does what the actions of Stripe do.                    *)
(***************************************************************************)
EXTENDS Naturals, Sequences, FiniteSetsExt

CONSTANTS
    Plans,         \* the plans that can be bought
    Included,      \* [Plans -> Nat]: included_networks
    Buyable,       \* the plans with network_cents
    Workers,       \* requests under way at a time
    MaxNetworks,   \* bound: networks ever
    MaxSubs,       \* bound: subscriptions ever
    MaxEvents,     \* bound: webhooks sent
    MaxHandled,    \* bound: webhooks delivered
    MaxCalls,      \* bound: requests by users
    NoPlan, NoStatus, NoCustomer

ASSUME BillingAssumption ==
    /\ Included \in [Plans -> Nat] /\ Buyable \subseteq Plans
    /\ MaxNetworks \in Nat \ {0} /\ {MaxSubs, MaxEvents, MaxHandled, MaxCalls} \subseteq Nat
    /\ NoPlan \notin Plans /\ NoStatus \notin {"trialing", "active", "past_due", "canceled"}
    /\ NoCustomer \notin Nat

VARIABLES
    org,        \* the organization's row
    nets,       \* the networks
    made,       \* networks ever
    customers,  \* Stripe: customers so far
    checkouts,  \* Stripe: checkout pages nobody has finished
    subs,       \* Stripe: [1..n -> subscription]
    hooks,      \* Stripe: webhooks that have not been answered well
    sent, handled, calls,
    work,       \* [Workers -> what the request does next]
    applied,    \* history: the newest webhook that was stored
    lapse       \* history: what has gone by that the properties exclude

billingVars == <<org, nets, made, customers, checkouts, subs, hooks, sent, handled, calls, work, applied, lapse>>

stripeVars == <<customers, checkouts, subs, hooks, sent>>

Free == [at |-> "free"]
Live == {"trialing", "active", "past_due"}
OrgRow == [plan : Plans \cup {NoPlan}, status : Live \cup {"canceled", NoStatus},
           customer : Nat \cup {NoCustomer}, onboarded : BOOLEAN]

\* require_billing_for_users; no plan is the default plan, which needs none.
Served(o) == o.plan = NoPlan \/ o.status \in {"active", "trialing"}

\* The plan limits the networks: there is an included number and no price for more.
Limited(p) == p \in Plans \ Buyable

Excess(p, n) == IF n > Included[p] THEN n - Included[p] ELSE 0

\* Mutant: one more is kept.
KeptOneMore(p) == {n \in nets : Cardinality({m \in nets : m < n}) <= Included[p]}

\* get_all orders by created_at; these are the first ones.
Kept(p) == {n \in nets : Cardinality({m \in nets : m < n}) < Included[p]}

Goes(w, v) == work' = [work EXCEPT ![w] = v]

\* publish waits for the subscribers of networks; then the request goes on with k.
Publishes(w, k) == Goes(w, [at |-> "count", then |-> k])

Lapses(s) == lapse' = lapse \cup s
Unless(b, s) == IF b THEN {} ELSE {s}

BillingInit ==
    /\ org = [plan |-> NoPlan, status |-> NoStatus, customer |-> NoCustomer, onboarded |-> FALSE]
    /\ nets = {1} /\ made = 1
    /\ customers = 0 /\ checkouts = {} /\ subs = <<>> /\ hooks = {}
    /\ sent = 0 /\ handled = 0 /\ calls = 0
    /\ work = [w \in Workers |-> Free]
    /\ applied = 0 /\ lapse = {}

----------------------------------------------------------------------------
(* Stripe, as the code uses it *)

\* A change of subscription i is told in a webhook with the state it has then.
Tells(i, s) ==
    /\ sent < MaxEvents
    /\ sent' = sent + 1
    /\ hooks' = hooks \cup {[n |-> sent + 1, sub |-> i, status |-> s.status, plan |-> s.plan]}

Subscribes(c) ==
    LET i == Len(subs) + 1
        s == [status |-> IF c.trial THEN "trialing" ELSE "active", plan |-> c.plan,
              customer |-> c.customer, extra |-> 0, trial |-> c.trial]
    IN  /\ c \in checkouts /\ i <= MaxSubs
        /\ checkouts' = checkouts \ {c}
        /\ subs' = Append(subs, s)
        /\ Tells(i, s)
        /\ Lapses(Unless(\A j \in DOMAIN subs : subs[j].status = "canceled", "second"))
        /\ UNCHANGED <<org, nets, made, customers, handled, calls, work, applied>>

\* A payment succeeds or fails, the trial ends, the customer or Stripe cancels.
SubscriptionTurns(i, status) ==
    /\ subs[i].status # status /\ subs[i].status # "canceled"
    /\ subs' = [subs EXCEPT ![i].status = status]
    /\ Tells(i, [subs[i] EXCEPT !.status = status])
    /\ UNCHANGED <<org, nets, made, customers, checkouts, handled, calls, work, applied, lapse>>

----------------------------------------------------------------------------
(* create_checkout_session *)

Calls(w) == work[w] = Free /\ calls < MaxCalls /\ calls' = calls + 1

CheckoutReads(w, p) ==
    /\ Calls(w)
    /\ Goes(w, [at |-> "customer", plan |-> p, returning |-> org.customer # NoCustomer])
    /\ Lapses(Unless(\A v \in Workers : work[v].at \notin {"customer", "store", "session"}, "together"))
    /\ UNCHANGED <<org, nets, made, customers, checkouts, subs, hooks, sent, handled, applied>>

\* get_or_create_customer reads the organization once more.
CheckoutCustomer(w) ==
    LET j == work[w]
    IN  /\ j.at = "customer"
        /\ IF org.customer # NoCustomer
           THEN /\ Goes(w, [at |-> "session", plan |-> j.plan, returning |-> j.returning,
                             customer |-> org.customer])
                /\ UNCHANGED customers
           ELSE /\ customers' = customers + 1
                /\ Goes(w, [at |-> "store", plan |-> j.plan, returning |-> j.returning,
                             customer |-> customers + 1, base |-> org])
        /\ UNCHANGED <<org, nets, made, checkouts, subs, hooks, sent, handled, calls, applied, lapse>>

\* A writer of the row writes the row it has read.  The onboarding steps are not part of
\* what the properties exclude: see WebhookOnboards.
Rewrites(base, row) ==
    /\ org' = row
    /\ Lapses(Unless([base EXCEPT !.onboarded = TRUE] = [org EXCEPT !.onboarded = TRUE], "overwrite"))

CheckoutStores(w) ==
    LET j == work[w]
    IN  /\ j.at = "store"
        /\ Rewrites(j.base, [j.base EXCEPT !.customer = j.customer])
        /\ Goes(w, [at |-> "session", plan |-> j.plan, returning |-> j.returning, customer |-> j.customer])
        /\ UNCHANGED <<nets, made, customers, checkouts, subs, hooks, sent, handled, calls, applied>>

\* Mutant: everybody has a trial.
TrialAlways(j) == TRUE

\* "Only apply trial if plan has trial days AND customer is new (not returning)"
TrialFor(j) == ~j.returning

CheckoutSession(w) ==
    LET j == work[w]
    IN  /\ j.at = "session"
        /\ checkouts' = checkouts \cup {[plan |-> j.plan, customer |-> j.customer, trial |-> TrialFor(j)]}
        /\ Goes(w, Free)
        /\ UNCHANGED <<org, nets, made, customers, subs, hooks, sent, handled, calls, applied, lapse>>

----------------------------------------------------------------------------
(* update_org_name *)

RenameReads(w) ==
    /\ Calls(w) /\ Served(org)
    /\ Goes(w, [at |-> "rename", base |-> org])
    /\ UNCHANGED <<org, nets, made, stripeVars, handled, applied, lapse>>

RenameWrites(w) ==
    /\ work[w].at = "rename"
    /\ Rewrites(work[w].base, work[w].base)
    /\ Goes(w, Free)
    /\ UNCHANGED <<nets, made, stripeVars, handled, calls, applied>>

----------------------------------------------------------------------------
(* handle_webhook *)

Idles(w) == work[w] = Free /\ handled < MaxHandled /\ handled' = handled + 1

\* handle_subscription_update: the organization is read first and stored last.
WebhookReads(w, h) ==
    /\ Idles(w) /\ h \in hooks
    /\ Goes(w, [at |-> CASE h.status = "canceled" -> "apply"
                          [] org.plan = NoPlan     -> "onboard"
                          [] OTHER                 -> "networks",
                 hook |-> h, base |-> org, left |-> {}])
    /\ UNCHANGED <<org, nets, made, stripeVars, calls, applied, lapse>>

\* PlanSelected goes to the onboarding subscriber before publish returns: it stores the
\* step in the row, and the webhook, with the row it read before, undoes that.
WebhookOnboards(w) ==
    /\ work[w].at = "onboard"
    /\ org' = [org EXCEPT !.onboarded = TRUE]
    /\ Goes(w, [work[w] EXCEPT !.at = "networks"])
    /\ UNCHANGED <<nets, made, stripeVars, handled, calls, applied, lapse>>

\* "If they can't pay for networks, remove them"
WebhookNetworks(w) ==
    LET p == work[w].hook.plan
        left == IF Limited(p) THEN nets \ Kept(p) ELSE {}
    IN  /\ work[w].at = "networks"
        /\ Goes(w, [work[w] EXCEPT !.at = IF left = {} THEN "apply" ELSE "downgrade", !.left = left])
        /\ UNCHANGED <<org, nets, made, stripeVars, handled, calls, applied, lapse>>

\* Deleting a network somebody else has deleted fails, and with it the webhook.  It goes on
\* when the subscriber has dealt with the deletion.
WebhookDeletes(w) ==
    LET j == work[w]
        n == Min(j.left)
        rest == j.left \ {n}
    IN  /\ j.at = "downgrade"
        /\ IF n \in nets
           THEN /\ nets' = nets \ {n}
                /\ Publishes(w, [at |-> IF rest = {} THEN "apply" ELSE "downgrade",
                                 hook |-> j.hook, base |-> j.base, left |-> rest])
           ELSE Goes(w, Free) /\ UNCHANGED nets
        /\ UNCHANGED <<org, made, stripeVars, handled, calls, applied, lapse>>

\* Mutant: the status is stored as another word.
AfterSpelled(base, h) == [base EXCEPT !.plan = h.plan, !.status = "cancelled"]

\* Mutant: the deletion of a subscription only changes the status.
AfterKeepsPlan(base, h) ==
    IF h.status = "canceled" THEN [base EXCEPT !.status = "canceled"]
    ELSE [base EXCEPT !.plan = h.plan, !.status = h.status]

\* The row after webhook h.
After(base, h) ==
    IF h.status = "canceled" THEN [base EXCEPT !.plan = NoPlan, !.status = "canceled"]
    ELSE [base EXCEPT !.plan = h.plan, !.status = h.status]

\* The answer may be lost, and the webhook sent again.
WebhookApplies(w, again) ==
    LET h == work[w].hook
        charged == h.status = "canceled" \/ h.plan \notin Buyable
                   \/ subs[h.sub].extra = Excess(h.plan, Cardinality(nets))
    IN  /\ work[w].at = "apply"
        /\ org' = After(work[w].base, h)
        /\ hooks' = IF again THEN hooks ELSE hooks \ {h}
        /\ applied' = h.n
        /\ Lapses(Unless(h.n >= applied, "order") \cup Unless(charged, "uncharged")
                  \cup Unless([work[w].base EXCEPT !.onboarded = TRUE] = [org EXCEPT !.onboarded = TRUE], "overwrite"))
        /\ Goes(w, Free)
        /\ UNCHANGED <<nets, made, customers, checkouts, subs, sent, handled, calls>>

----------------------------------------------------------------------------
(* Networks, and BillingService::handle_events, which publish waits for *)

\* The middleware's row is cached for the rest of the request ...
CreateAsks(w) ==
    /\ Calls(w) /\ Served(org) /\ made < MaxNetworks
    /\ Goes(w, [at |-> "quota", row |-> org])
    /\ UNCHANGED <<org, nets, made, stripeVars, handled, applied, lapse>>

QuotaLeft(row) == Limited(row.plan) => Cardinality(nets) < Included[row.plan]

\* ... and CreateNetworkFeature takes the plan from it.
CreateChecks(w) ==
    /\ work[w].at = "quota"
    /\ Goes(w, IF QuotaLeft(work[w].row)
                THEN [at |-> "create", row |-> work[w].row, seen |-> nets] ELSE Free)
    /\ UNCHANGED <<org, nets, made, stripeVars, handled, calls, applied, lapse>>

\* What the check has seen is old, or a webhook is deciding about the networks.
Decided(w) ==
    \/ work[w].row.plan # org.plan \/ ~(nets \subseteq work[w].seen)
    \/ \E v \in Workers : work[v].at \in {"downgrade", "count", "charge", "apply"}

CreateStores(w) ==
    /\ work[w].at = "create" /\ made < MaxNetworks
    /\ made' = made + 1 /\ nets' = nets \cup {made + 1}
    /\ Lapses(Unless(~Decided(w), "late"))
    /\ Publishes(w, Free)
    /\ UNCHANGED <<org, stripeVars, handled, calls, applied>>

DeleteNetwork(w, n) ==
    /\ Calls(w) /\ Served(org) /\ n \in nets
    /\ nets' = nets \ {n}
    /\ Publishes(w, Free)
    /\ UNCHANGED <<org, made, stripeVars, handled, applied, lapse>>

AddonCounts(w) ==
    LET j == work[w]
    IN  /\ j.at = "count"
        /\ Goes(w, IF org.plan = NoPlan THEN j.then
                    ELSE [at |-> "charge", plan |-> org.plan, customer |-> org.customer, count |-> nets,
                          then |-> j.then])
        /\ UNCHANGED <<org, nets, made, stripeVars, handled, calls, applied, lapse>>

\* Mutant: every network is charged, the included ones too.
QuantityAll(j) == Cardinality(j.count)

Quantity(j) == Excess(j.plan, Cardinality(j.count))

\* update_addon_prices: the newest of the customer's active subscriptions; a trial is not
\* active, and the error that there is none is only logged.
AddonCharges(w) ==
    LET j == work[w]
        active == {i \in DOMAIN subs : subs[i].customer = j.customer /\ subs[i].status = "active"}
    IN  /\ j.at = "charge"
        /\ subs' = IF active # {} /\ j.plan \in Buyable
                   THEN [subs EXCEPT ![Max(active)].extra = Quantity(j)]
                   ELSE subs
        /\ Lapses(Unless(active # {} /\ j.count = nets /\ j.plan = org.plan, "uncharged"))
        /\ Goes(w, j.then)
        /\ UNCHANGED <<org, nets, made, customers, checkouts, hooks, sent, handled, calls, applied>>

\* The requests are lost; Stripe keeps its webhooks.
BillingRestart ==
    /\ \E w \in Workers : work[w] # Free
    /\ work' = [w \in Workers |-> Free]
    /\ Lapses(Unless(\A w \in Workers : work[w].at \notin {"count", "charge"}, "uncharged"))
    /\ UNCHANGED <<org, nets, made, stripeVars, handled, calls, applied>>

BillingNext ==
    \/ \E c \in checkouts : Subscribes(c)
    \/ \E i \in DOMAIN subs, s \in {"active", "past_due", "canceled"} : SubscriptionTurns(i, s)
    \/ \E w \in Workers :
         \/ \E p \in Plans : CheckoutReads(w, p)
         \/ CheckoutCustomer(w) \/ CheckoutStores(w) \/ CheckoutSession(w)
         \/ RenameReads(w) \/ RenameWrites(w)
         \/ \E h \in hooks : WebhookReads(w, h)
         \/ WebhookOnboards(w) \/ WebhookNetworks(w) \/ WebhookDeletes(w)
         \/ \E again \in BOOLEAN : WebhookApplies(w, again)
         \/ CreateAsks(w) \/ CreateChecks(w) \/ CreateStores(w)
         \/ \E n \in nets : DeleteNetwork(w, n)
         \/ AddonCounts(w) \/ AddonCharges(w)
    \/ BillingRestart

BillingSpec == BillingInit /\ [][BillingNext]_billingVars

----------------------------------------------------------------------------
Sets == SUBSET (1..MaxNetworks)
Hooks == [n : 1..MaxEvents, sub : 1..MaxSubs, status : Live \cup {"canceled"}, plan : Plans]
Subs == [status : Live \cup {"canceled"}, plan : Plans, customer : Nat, extra : 0..MaxNetworks,
         trial : BOOLEAN]

Webhooks == [at : {"onboard", "networks", "downgrade", "apply"}, hook : Hooks, base : OrgRow, left : Sets]

Work ==
    {Free} \cup Webhooks
    \cup [at : {"customer"}, plan : Plans, returning : BOOLEAN]
    \cup [at : {"store"}, plan : Plans, returning : BOOLEAN, customer : Nat, base : OrgRow]
    \cup [at : {"session"}, plan : Plans, returning : BOOLEAN, customer : Nat]
    \cup [at : {"rename"}, base : OrgRow]
    \cup [at : {"quota"}, row : OrgRow]
    \cup [at : {"create"}, row : OrgRow, seen : Sets]
    \cup [at : {"count"}, then : {Free} \cup Webhooks]
    \cup [at : {"charge"}, plan : Plans, customer : Nat \cup {NoCustomer}, count : Sets,
          then : {Free} \cup Webhooks]

\* The types of the organization's row, the networks, Stripe's records and the requests.
BillingTypeOK ==
    /\ org \in OrgRow
    /\ nets \subseteq 1..made /\ made \in 1..MaxNetworks
    /\ customers \in Nat /\ checkouts \subseteq [plan : Plans, customer : Nat, trial : BOOLEAN]
    /\ subs \in Seq(Subs) /\ Len(subs) <= MaxSubs
    /\ hooks \subseteq Hooks /\ \A h \in hooks : h.sub <= Len(subs)
    /\ sent \in 0..MaxEvents /\ handled \in 0..MaxHandled /\ calls \in 0..MaxCalls
    /\ work \in [Workers -> Work]
    /\ applied \in 0..sent
    /\ lapse \subseteq {"second", "together", "overwrite", "order", "uncharged", "late"}

Settled == hooks = {} /\ \A w \in Workers : work[w] = Free

\* When Stripe has told everything and no request is under way, the organization has the
\* plan and the status of its subscription, however webhooks were repeated, interrupted
\* and mixed with requests: unless a webhook was stored after a later one, somebody wrote
\* the row from an old reading, or there was a second subscription beside a live one.
PlanFollowsSubscription ==
    Settled /\ lapse \cap {"order", "overwrite", "second"} = {} /\ subs # <<>> =>
        LET s == subs[Len(subs)]
        IN  /\ org.status = s.status
            /\ org.plan = IF s.status = "canceled" THEN NoPlan ELSE s.plan

\* An organization with a limited plan has no more networks than the plan includes, at any
\* time and whichever webhook came last, unless one was created on a check that was out of
\* date or an old plan was written back ("If they can't pay for networks, remove them";
\* "Network limit reached").
QuotaKept ==
    lapse \cap {"overwrite", "late"} = {} /\ Limited(org.plan) =>
        Cardinality(nets) <= Included[org.plan]

\* What is charged for networks is what there is beyond the included ones, unless a change
\* could not be charged: on a trial, after a newer count, or when the plan came later than
\* the networks.
ExtraNetworksCharged ==
    Settled /\ lapse = {} =>
        \A i \in DOMAIN subs : subs[i].status = "active" /\ subs[i].plan \in Buyable =>
            subs[i].extra = Excess(subs[i].plan, Cardinality(nets))

\* An organization has at most one trial ("customer is new (not returning)"), unless two
\* checkouts were asked for together or its customer was overwritten.
OneTrial ==
    lapse \cap {"together", "overwrite"} = {} =>
        Cardinality({i \in DOMAIN subs : subs[i].trial}) <= 1

\* "canceled should return 402": a canceled organization is not served.
CanceledIsRefused == org.status = "canceled" => ~Served(org)
=============================================================================
