\* An organization that has had a namespace, deleted since, is deleted.
CONSTANTS
    r1 = r1
    r2 = r2
    s1 = s1
    s2 = s2
    u1 = u1
    u2 = u2
    n1 = n1
    Reqs <- MCReqsOne
    Slugs <- MCSlugsOne
    Users <- MCUsersOne
    NsNames <- MCNsNames
    MaxCalls <- MCCallsDelete
SPECIFICATION Spec
INVARIANT DeleteRefusedOnlyWithActiveNamespaces
\* The calls are bounded: once they are spent the service is idle.
CHECK_DEADLOCK FALSE
