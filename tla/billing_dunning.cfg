CONSTANTS
    bc1 = bc1
    dn1 = dn1
    ua1 = ua1
    o1 = o1
    o2 = o2
    o3 = o3
    Execs <- MCDunning
    WorkflowOf <- MCWorkflowOf
    Orgs <- MCOrgs
SPECIFICATION Spec

INVARIANT DunningLoopShape
\* Each execution runs once; when all have finished nothing is left to do.
CHECK_DEADLOCK FALSE
