\* One user logs in and keeps refreshing, presenting whichever of its
\* tokens is still valid to the refresh endpoint.
CONSTANTS
    a1 = a1
    Users <- MCUsers
    AccessLife <- MCAccessLife
    RefreshLife <- MCRefreshLife
    MaxTime <- MCMaxTime
    MaxTokens <- MCMaxTokens
SPECIFICATION Spec
INVARIANT SessionEndsAfterRefreshLife
\* The clock and the number of tokens are bounded; at the bounds nothing is
\* left to do.
CHECK_DEADLOCK FALSE
