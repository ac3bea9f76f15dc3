----------------------- MODULE MC_OrganizationService -----------------------
(***************************************************************************)
(* Model: one slug, two users, one namespace name, and enough calls for   *)
(* an organization to be created, to get a namespace, to delete it and to *)
(* be deleted.                                                             *)
(***************************************************************************)
EXTENDS OrganizationService

CONSTANTS r1, r2, s1, s2, u1, u2, n1

MCReqsOne == {r1}
MCSlugsOne == {s1}
MCUsersOne == {u1}
MCNsNames == {n1}

\* CreateOrganization, CreateNamespace, DeleteNamespace, DeleteOrganization.
MCCallsDelete == 4
=============================================================================
