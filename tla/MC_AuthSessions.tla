---------------------------- MODULE MC_AuthSessions ----------------------------
(***************************************************************************)
(* Bounds for AuthSessions.  The code's lifetimes are 24 hours and 30      *)
(* days; the property compares a token's expiry with RefreshLife +         *)
(* AccessLife, which needs only AccessLife >= 2 units (a refresh one unit  *)
(* before expiry still leaves a valid token) and RefreshLife > AccessLife. *)
(* The 30:1 ratio itself plays no part, so it is scaled to 2:1.            *)
(***************************************************************************)
EXTENDS AuthSessions

CONSTANTS a1

MCUsers == {a1}
MCAccessLife == 2
MCRefreshLife == 4
MCMaxTime == 8
MCMaxTokens == 6
=============================================================================
