---------------------------- MODULE MC_RateLimiter ----------------------------
(***************************************************************************)
(* Model values and bounds for RateLimiter.  Rate 1 and Burst 2 keep the   *)
(* refill and the burst distinct; an hour of 2 time units lets a limiter   *)
(* be drained, refilled and deleted within MaxTime 3.                      *)
(***************************************************************************)
EXTENDS RateLimiter

CONSTANTS h1, h2, c1

MCHandlers == {h1, h2}
MCOneHandler == {h1}
MCClients == {c1}
MCRate == 1
MCBurst == 2
MCHour == 2
MCMaxTime == 3
MCMaxRequests == 5
MCSymmetry == Permutations(MCHandlers)
=============================================================================
