---------------------------- MODULE AuthSessions ----------------------------
(***************************************************************************)
(* The browser session of api/v1/auth.go and service/auth.go: the Google   *)
(* OAuth callback logs a user in (creating the user on first login) and    *)
(* sets an access-token cookie and a refresh-token cookie; the refresh     *)
(* endpoint turns the token in the refresh cookie into a new access token. *)
(*                                                                         *)
(* A token is the set of claims that matter here: its subject, its expiry  *)
(* and whether it was minted as an access or a refresh token.  Signing and *)
(* encoding are not modelled: every token the client holds was signed by   *)
(* the server.  The cookie values are under the client's control, so the   *)
(* client may present any token it holds to either endpoint.  `login` is a *)
(* history variable: the time of the login a token descends from.          *)
(***************************************************************************)
EXTENDS Naturals, FiniteSets

CONSTANTS
    Users,          \* Google accounts (e-mail addresses)
    AccessLife,     \* generateAccessToken's expiry (24 hours), in time units
    RefreshLife,    \* generateRefreshToken's expiry (30 days), in time units
    MaxTime,        \* bound on the clock
    MaxTokens       \* bound on the tokens minted in a behaviour

VARIABLES
    now,            \* the clock
    users,          \* the users rows: the e-mails with an account
    held,           \* the unexpired tokens the browser holds in its cookies
    oauthState,     \* the browser holds an oauth_state cookie of a started login
    minted,         \* tokens minted so far
    answered        \* the status codes the API has answered bearer calls with

vars == <<now, users, held, oauthState, minted, answered>>

Token(u, kind, exp, login) == [sub |-> u, kind |-> kind, exp |-> exp, login |-> login]

\* generateAccessToken: sub, email, iss, aud, exp = now + 24h.
GenerateAccessToken(u, login) == Token(u, "access", now + AccessLife, login)

\* generateRefreshToken: sub, iss, aud, exp = now + 30 days.  It carries no
\* claim telling it apart from an access token but its expiry.
GenerateRefreshToken(u, login) == Token(u, "refresh", now + RefreshLife, login)

\* validateToken: jwt.Parse with the HMAC key; the token is valid while
\* now < exp.  No claim other than the signature and the expiry is read.
ValidateToken(t) == now < t.exp

\* UserRepository on the users table.  A user is identified by its e-mail;
\* the token's sub is the user's id, one id per e-mail row.
UsersGetByEmail(u) == u \in users

UsersGetByID(id) == id \in users

UsersCreate(u) == users \cup {u}

\* CompleteGoogleLogin, after the OAuth exchange and the user-info call
\* (external, assumed to succeed): GetByEmail, Users.Create when there is no
\* user, then the access and the refresh token.
CompleteGoogleLogin(u) ==
    [users |-> IF UsersGetByEmail(u) THEN users ELSE UsersCreate(u),
     tokens |-> {GenerateAccessToken(u, now), GenerateRefreshToken(u, now)}]

\* RefreshAccessToken(refreshToken): validateToken, then Users.GetByID(sub),
\* then a new access token for the user; the set of tokens it returns is
\* empty when it returns an error.
RefreshAccessToken(t) ==
    IF ValidateToken(t) /\ UsersGetByID(t.sub)
    THEN {GenerateAccessToken(t.sub, t.login)} ELSE {}

(***************************************************************************)
(* HandleGoogleLogin: InitiateGoogleLogin draws a random state and builds  *)
(* Google's auth URL with it; the state is set as the oauth_state cookie   *)
(* (MaxAge 600 s, shorter than one time unit).                             *)
(***************************************************************************)
HandleGoogleLogin ==
    /\ oauthState' = TRUE
    /\ UNCHANGED <<now, users, held, minted, answered>>

(***************************************************************************)
(* HandleGoogleCallback: the state query parameter must equal the          *)
(* oauth_state cookie (Google redirects with the state of the auth URL, so *)
(* it matches when the browser started the login); then CompleteGoogleLogin *)
(* and, on success, the state cookie cleared (MaxAge -1) and both tokens  *)
(* set as cookies.  A failed callback changes nothing.                     *)
(***************************************************************************)
HandleGoogleCallback(u) ==
    LET r == CompleteGoogleLogin(u) IN
    /\ oauthState
    /\ minted + 2 <= MaxTokens
    /\ users' = r.users
    /\ held' = held \cup r.tokens
    /\ minted' = minted + 2
    /\ oauthState' = FALSE
    /\ UNCHANGED <<now, answered>>

(***************************************************************************)
(* HandleRefreshToken: the refresh_token cookie's value, whatever token    *)
(* the client put there, to RefreshAccessToken; on success the new token   *)
(* is set as the access-token cookie, on error the handler answers 401.    *)
(***************************************************************************)
HandleRefreshToken(t) ==
    /\ minted < MaxTokens
    /\ RefreshAccessToken(t) # {}
    /\ held' = held \cup RefreshAccessToken(t)
    /\ minted' = minted + 1
    /\ UNCHANGED <<now, users, oauthState, answered>>

\* HandleLogout: both auth cookies are cleared (MaxAge -1).  Nothing is
\* recorded on the server: the tokens stay valid until they expire.
HandleLogout ==
    /\ held # {}
    /\ held' = {}
    /\ UNCHANGED <<now, users, oauthState, minted, answered>>

\* Time passes; a token past its expiry fails validateToken from then on,
\* so it is dropped from what the browser holds, and so is the state cookie.
Tick ==
    /\ now < MaxTime
    /\ now' = now + 1
    /\ held' = {t \in held : now + 1 < t.exp}
    /\ oauthState' = FALSE
    /\ UNCHANGED <<users, minted, answered>>

(***************************************************************************)
(* A Connect API call with a session token as bearer, through the chain    *)
(* recovery -> rate limit -> auth -> audit of main.go (the rate limiter is *)
(* the RateLimiter module; it passes or refuses the call before auth).     *)
(***************************************************************************)
\* IdentityService.ValidateToken: HMAC signature, expiry, iss and aud.  Both
\* generateAccessToken and generateRefreshToken set iss and aud from the
\* same JWT config, so only the expiry can fail.
IdentityValidateToken(t) == now < t.exp

\* AuthInterceptor.validateJWT: after ValidateToken, the claims "org_id" and
\* "role" are read with unchecked type assertions; AuthService's tokens carry
\* neither, so the assertion panics.
ValidateJWT(t) == IF IdentityValidateToken(t) THEN "panic" ELSE "error"

\* AuthInterceptor.WrapUnary for a "Bearer" header without the tc_ prefix.
AuthWrapUnary(t) == IF ValidateJWT(t) = "error" THEN "unauthenticated" ELSE ValidateJWT(t)

\* RecoveryInterceptor.WrapUnary: a panic below it becomes CodeInternal.
RecoveryWrapUnary(r) == IF r = "panic" THEN "internal" ELSE r

CallAPI(t) ==
    /\ answered' = answered \cup {RecoveryWrapUnary(AuthWrapUnary(t))}
    /\ UNCHANGED <<now, users, held, oauthState, minted>>

Init ==
    /\ now = 0
    /\ users = {}
    /\ held = {}
    /\ oauthState = FALSE
    /\ minted = 0
    /\ answered = {}

Next ==
    \/ HandleGoogleLogin
    \/ \E u \in Users : HandleGoogleCallback(u)
    \/ \E t \in held : HandleRefreshToken(t) \/ CallAPI(t)
    \/ HandleLogout
    \/ Tick

Spec == Init /\ [][Next]_vars

-----------------------------------------------------------------------------
\* The refresh cookie lives 30 days (MaxAge 2592000) and refreshing mints
\* only access tokens: no token the server accepts outlives the login it
\* descends from by more than the refresh lifetime plus one access lifetime.
SessionEndsAfterRefreshLife ==
    \A t \in held : t.exp <= t.login + RefreshLife + AccessLife
=============================================================================
