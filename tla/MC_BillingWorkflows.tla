------------------------ MODULE MC_BillingWorkflows ------------------------
(***************************************************************************)
(* Model: one execution of each billing workflow and two organizations.    *)
(***************************************************************************)
EXTENDS BillingWorkflows

CONSTANTS bc1, dn1, ua1, o1, o2, o3

MCWorkflowOf == [e \in {bc1, dn1, ua1} |-> CASE e = bc1 -> "billing_cycle"
                                             [] e = dn1 -> "dunning"
                                             [] e = ua1 -> "usage_aggregation"]

\* The billing workflows share no state, so each is checked on its own.
MCBillingCycle == {bc1}
MCDunning == {dn1}
MCUsageAggregation == {ua1}
MCCycleAndAggregation == {bc1, ua1}

\* Three organizations: a failed one can come first, last or in between.
MCOrgs == {o1, o2, o3}
=============================================================================
