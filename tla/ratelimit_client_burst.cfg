\* Two handler goroutines serving one client's requests, with the hourly
\* cleanup goroutines.
CONSTANTS
    h1 = h1
    h2 = h2
    c1 = c1
    Handlers <- MCHandlers
    Clients <- MCClients
    Rate <- MCRate
    Burst <- MCBurst
    Hour <- MCHour
    MaxTime <- MCMaxTime
    MaxRequests <- MCMaxRequests

SPECIFICATION Spec
INVARIANT ClientRateBound
\* The clock and the number of requests are bounded; at the bounds nothing
\* is left to do.
CHECK_DEADLOCK FALSE
