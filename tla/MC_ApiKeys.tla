------------------------------ MODULE MC_ApiKeys ------------------------------
(***************************************************************************)
(* Bounds for ApiKeys: one owner, one RotateAPIKey request, keys that      *)
(* never expire or expire at time 1, and a clock that passes that expiry.  *)
(* Three rows let a key be rotated twice, or rotated after a failed        *)
(* creation left its predecessor disabled.                                 *)
(***************************************************************************)
EXTENDS ApiKeys

CONSTANTS w1, r1

MCOwners == {w1}
MCReqs == {r1}
MCExpiries == {1}
MCMaxKeys == 3
MCMaxTime == 2
=============================================================================
