----------------------------- MODULE MCBilling -----------------------------
EXTENDS Billing

\* The plan includes one network, as Starter does.
MCIncluded == [p \in Plans |-> 1]
=============================================================================
