---------------------------- MODULE RateLimiter ----------------------------
(***************************************************************************)
(* The rate-limit interceptor of interceptors/ratelimit.go: WrapUnary      *)
(* looks the client's limiter up in a sync.Map (getLimiter), creating,     *)
(* storing and scheduling the deletion of a new one when the lookup        *)
(* misses, then asks the limiter to Allow the request.                     *)
(*                                                                         *)
(* Each limiter is a golang.org/x/time/rate token bucket: it starts full   *)
(* with Burst tokens, gains Rate tokens per unit of time up to Burst, and  *)
(* Allow takes one token if there is one.  Time advances in units of one   *)
(* refill period; Hour is the cleanup delay in those units.  Handlers are  *)
(* concurrent goroutines; sync.Map and Allow are each atomic.              *)
(***************************************************************************)
EXTENDS Naturals, FiniteSets, FiniteSetsExt, Functions, TLC

CONSTANTS
    Handlers,      \* goroutines serving requests concurrently
    Clients,       \* client ids getClientID can return
    Rate,          \* tokens per time unit (config RequestsPerSec)
    Burst,         \* bucket size (config BurstSize)
    Hour,          \* the cleanup goroutine's sleep, in time units
    MaxTime,       \* bound on the clock
    MaxRequests    \* bound on the requests served in a behaviour

ASSUME Rate \in Nat \ {0} /\ Burst \in Nat \ {0} /\ Hour \in Nat \ {0}

VARIABLES
    now,           \* the clock
    limiters,      \* the sync.Map: a function from some clients to limiter ids
    bucket,        \* limiter id -> [client, created, tokens, last, granted],
                   \* granted counting the requests Allow let through at each time
    cleanups,      \* sleeping cleanup goroutines: [client, at, spawner]
    handler,       \* Handlers -> [phase, client, lim]
    served         \* requests started so far

vars == <<now, limiters, bucket, cleanups, handler, served>>

LimiterIds == 1..MaxRequests

Time == 0..MaxTime

Idle == [phase |-> "idle", client |-> CHOOSE c \in Clients : TRUE, lim |-> 0]

\* rate.Limiter.advance: the tokens at time now, capped at the burst.
Advance(b) ==
    LET t == b.tokens + Rate * (now - b.last) IN IF t > Burst THEN Burst ELSE t

(***************************************************************************)
(* WrapUnary, getClientID and the Load of getLimiter: a hit goes straight  *)
(* to Allow with the limiter found, a miss goes on to create one.          *)
(***************************************************************************)
Load(h) ==
    /\ handler[h].phase = "idle"
    /\ served < MaxRequests
    /\ \E c \in Clients :
         handler' = [handler EXCEPT ![h] =
            IF c \in DOMAIN limiters
            THEN [phase |-> "allow", client |-> c, lim |-> limiters[c]]
            ELSE [phase |-> "create", client |-> c, lim |-> 0]]
    /\ served' = served + 1
    /\ UNCHANGED <<now, limiters, bucket, cleanups>>

(***************************************************************************)
(* getLimiter after a miss: rate.NewLimiter (a full bucket), Store, which  *)
(* overwrites whatever another goroutine stored meanwhile, and `go func`   *)
(* that sleeps an hour and then deletes the client's entry.                *)
(***************************************************************************)
StoreNewLimiter(h) ==
    LET c == handler[h].client
        id == Cardinality(DOMAIN bucket) + 1
    IN
    /\ handler[h].phase = "create"
    /\ bucket' = bucket @@ (id :> [client |-> c, created |-> now, tokens |-> Burst,
                                  last |-> now, granted |-> [t \in Time |-> 0]])
    /\ limiters' = (c :> id) @@ limiters
    /\ cleanups' = cleanups \cup {[client |-> c, at |-> now + Hour, spawner |-> id]}
    /\ handler' = [handler EXCEPT ![h] = [@ EXCEPT !.phase = "allow", !.lim = id]]
    /\ UNCHANGED <<now, served>>

\* limiter.Allow(): take a token if the refilled bucket has one, otherwise
\* leave the limiter as it is and answer ResourceExhausted.
Allow(h) ==
    LET l == handler[h].lim
        t == Advance(bucket[l])
    IN
    /\ handler[h].phase = "allow"
    /\ IF t >= 1
       THEN bucket' = [bucket EXCEPT ![l] = [@ EXCEPT !.tokens = t - 1,
                                                      !.last = now,
                                                      !.granted[now] = @ + 1]]
       ELSE UNCHANGED bucket
    /\ handler' = [handler EXCEPT ![h] = Idle]
    /\ UNCHANGED <<now, limiters, cleanups, served>>

\* The cleanup goroutine wakes after its hour and deletes the client's
\* entry, whichever limiter it holds by then.
Cleanup(k) ==
    /\ k.at = now
    /\ limiters' = [c \in DOMAIN limiters \ {k.client} |-> limiters[c]]
    /\ cleanups' = cleanups \ {k}
    /\ UNCHANGED <<now, bucket, handler, served>>

\* The clock moves on; a goroutine whose sleep ends now runs before the
\* clock passes its wake-up time.
Tick ==
    /\ now < MaxTime
    /\ \A k \in cleanups : k.at > now
    /\ now' = now + 1
    /\ UNCHANGED <<limiters, bucket, cleanups, handler, served>>

Init ==
    /\ now = 0
    /\ limiters = <<>>
    /\ bucket = <<>>
    /\ cleanups = {}
    /\ handler = [h \in Handlers |-> Idle]
    /\ served = 0

Next ==
    \/ \E h \in Handlers : Load(h) \/ StoreNewLimiter(h) \/ Allow(h)
    \/ \E k \in cleanups : Cleanup(k)
    \/ Tick

Spec == Init /\ [][Next]_vars

-----------------------------------------------------------------------------
TypeOK ==
    /\ now \in Time
    /\ DOMAIN limiters \subseteq Clients /\ Range(limiters) \subseteq DOMAIN bucket
    /\ DOMAIN bucket \subseteq LimiterIds
    /\ \A l \in DOMAIN bucket :
         bucket[l] \in [client : Clients, created : Time, tokens : 0..Burst,
                        last : Time, granted : [Time -> Nat]]
    /\ \A k \in cleanups : k.client \in Clients /\ k.spawner \in DOMAIN bucket
    /\ \A h \in Handlers : handler[h].phase \in {"idle", "create", "allow"}
    /\ served \in 0..MaxRequests

\* The requests let through at times a..b by the limiters in set L.
GrantedIn(L, a, b) == SumFunctionOnSet([t \in Time |-> SumFunctionOnSet(
                          [l \in L |-> bucket[l].granted[t]], L)], a..b)

\* The last time limiter l was used: its creation or the latest time at which
\* Allow let a request through it.
LastUse(l) == Max({bucket[l].created} \cup {t \in Time : bucket[l].granted[t] > 0})

\* getLimiter's comment: the cleanup goroutine removes a client's limiter
\* "after 1 hour of inactivity", so an entry leaves the sync.Map only when
\* its limiter has not been used for Hour time units.
CleanupOnlyAfterInactivity ==
    [][\A c \in DOMAIN limiters :
          c \notin DOMAIN limiters' => now >= LastUse(limiters[c]) + Hour]_vars

\* What the interceptor is for: each client, over all the limiters
\* getLimiter ever hands out for it, is let through at most
\* Burst + Rate * (b - a) requests in any interval [a, b].
ClientRateBound ==
    \A c \in Clients : \A a, b \in 0..now :
        a <= b => GrantedIn({l \in DOMAIN bucket : bucket[l].client = c}, a, b)
                    <= Burst + Rate * (b - a)
=============================================================================
