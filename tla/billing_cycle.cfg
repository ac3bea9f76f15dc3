\* A billing cycle and a usage aggregation run side by side, as the
\* monthly schedule starts both.
CONSTANTS
    bc1 = bc1
    dn1 = dn1
    ua1 = ua1
    o1 = o1
    o2 = o2
    o3 = o3
    Execs <- MCCycleAndAggregation
    WorkflowOf <- MCWorkflowOf
    Orgs <- MCOrgs
SPECIFICATION Spec
INVARIANTS TypeOK AggregationIsolation
PROPERTY BillingRefinement
\* Each execution runs once; when all have finished nothing is left to do.
CHECK_DEADLOCK FALSE
