\* A key is created, revoked and rotated by one RotateAPIKey request while
\* calls present every key created so far.
CONSTANTS
    w1 = w1
    r1 = r1
    Owners <- MCOwners
    Reqs <- MCReqs
    Expiries <- MCExpiries
    MaxKeys <- MCMaxKeys
    MaxTime <- MCMaxTime
SPECIFICATION Spec
INVARIANT RevocationIsFinal
\* The rows and the clock are bounded; at the bounds nothing is left to do.
CHECK_DEADLOCK FALSE
