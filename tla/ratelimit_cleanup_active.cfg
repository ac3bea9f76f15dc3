\* One client kept busy by two handler goroutines while the cleanup goroutine
\* of its limiter sleeps its hour.
CONSTANTS
    h1 = h1
    h2 = h2
    c1 = c1
    Handlers <- MCHandlers
    Clients <- MCClients
    Rate <- MCRate
    Burst <- MCBurst
    Hour <- MCHour
    MaxTime <- MCMaxTime
    MaxRequests <- MCMaxRequests
SYMMETRY MCSymmetry
SPECIFICATION Spec
PROPERTY CleanupOnlyAfterInactivity
\* The clock and the number of requests are bounded; at the bounds nothing
\* is left to do.
CHECK_DEADLOCK FALSE
