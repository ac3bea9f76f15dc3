------------------------- MODULE OrganizationService -------------------------
(***************************************************************************)
(* OrganizationService of service/organization.go over the organizations, *)
(* organization_members, subscriptions and user_invitations tables, and   *)
(* the namespace rows it shares with NamespaceService: CreateNamespace     *)
(* inserts them, DeleteNamespace marks them deleting, and the workflows'   *)
(* UpdateNamespaceStateActivity moves them to active and to deleted.       *)
(* Nothing in the code removes a namespace row.                            *)
(*                                                                         *)
(* Handlers run concurrently; each repository call is one atomic SQL       *)
(* statement, and a handler that makes several is split where it waits on  *)
(* the database.  A write may fail (connection, constraint), which the     *)
(* handler returns as its error.  An organization's name and settings are *)
(* each their initial value or the one UpdateOrganization sets; tokens and *)
(* timestamps are data no property here tells apart and are left out.     *)
(***************************************************************************)
EXTENDS Naturals, FiniteSets

CONSTANTS
    Reqs,       \* concurrent handler calls of the multi-statement handlers
    Slugs,      \* organization slugs a CreateOrganization may carry
    Users,      \* user ids (owners, members) and invitee e-mails
    NsNames,    \* namespace names
    MaxCalls    \* bound on the handler calls in a behaviour

VARIABLES
    orgs,        \* organizations rows: set of [id, slug, name, settings]
    members,     \* organization_members rows: set of [org, user, role]
    subs,        \* subscriptions rows: set of [org, plan]
    namespaces,  \* cloud_namespaces rows: set of [org, name, state]
    invitations, \* user_invitations rows: set of [org, email, role]
    req,         \* Reqs -> the multi-statement handler call in progress
    nextId,      \* the organization ids handed out so far
    calls,       \* handler calls started
    refusals     \* history: DeleteOrganization's refusals, each with whether
                 \* the organization then had a namespace not deleted

vars == <<orgs, members, subs, namespaces, invitations, req, nextId, calls, refusals>>

OrgIds == 1..MaxCalls

\* The roles InviteUser accepts, and one it refuses.
Roles == {"owner", "admin", "developer", "read_only"}
RoleInputs == Roles \cup {"billing"}

Idle == [phase |-> "idle", slug |-> CHOOSE s \in Slugs : TRUE,
         owner |-> CHOOSE u \in Users : TRUE, org |-> 0]

(***************************************************************************)
(* The repositories.                                                       *)
(***************************************************************************)
\* OrganizationRepository.GetBySlug: the row with the slug, none when empty.
OrganizationsGetBySlug(s) == {o \in orgs : o.slug = s}

\* Create: the INSERT; the slug is taken to be a unique column, as GetBySlug's
\* QueryRow assumes (the schema is not in the repository).
OrganizationsCreate(o) == orgs \cup {o}

\* GetByID: the row with the id, none when empty.
OrganizationsGetByID(id) == {o \in orgs : o.id = id}

\* Update: SET name, slug, settings WHERE id, from the caller's copy of the
\* row; an id with no row matches nothing and is no error.
OrganizationsUpdate(o) == {IF x.id = o.id THEN o ELSE x : x \in orgs}

\* Delete: DELETE FROM organizations WHERE id; no other table is touched.
OrganizationsDelete(id) == {o \in orgs : o.id # id}

\* AddMember: INSERT ... ON CONFLICT (organization_id, user_id) DO UPDATE role.
OrganizationsAddMember(m) ==
    {x \in members : ~(x.org = m.org /\ x.user = m.user)} \cup {m}

\* RemoveMember: DELETE WHERE organization_id AND user_id.
OrganizationsRemoveMember(id, u) == {x \in members : ~(x.org = id /\ x.user = u)}

\* SubscriptionRepository.Create and GetByOrganizationID.
SubscriptionsCreate(s) == subs \cup {s}

SubscriptionsGetByOrganizationID(id) == {s \in subs : s.org = id}

\* UserRepository.CreateInvitation: upsert on (organization_id, email).
UsersCreateInvitation(i) ==
    {x \in invitations : ~(x.org = i.org /\ x.email = i.email)} \cup {i}

\* NamespaceRepository.ListByOrganization: every row of the organization,
\* whatever its state; GetByOrgAndName; Create.
NamespacesListByOrganization(id) == {n \in namespaces : n.org = id}

NamespacesGetByOrgAndName(id, nm) == {n \in namespaces : n.org = id /\ n.name = nm}

NamespacesCreate(n) == namespaces \cup {n}

\* Update or UpdateState of one row's state.
NamespacesSetState(n, st) == (namespaces \ {n}) \cup {[n EXCEPT !.state = st]}

\* getMaxNamespaces of service/namespace.go.
GetMaxNamespaces(plan) ==
    CASE plan = "essentials" -> 5
      [] plan = "business"   -> 20
      [] plan \in {"enterprise", "mission_critical"} -> 1000
      [] OTHER -> 1

(***************************************************************************)
(* CreateOrganization: after the name and slug validation (a valid slug   *)
(* here), GetBySlug and the early return when it is taken, then three      *)
(* INSERTs in turn; a failing one returns its error and leaves the rows    *)
(* the earlier ones wrote.                                                 *)
(***************************************************************************)
Start(r) == req[r].phase = "idle" /\ calls < MaxCalls /\ calls' = calls + 1

CreateOrganizationCheck(r, s, u) ==
    /\ Start(r)
    /\ req' = IF OrganizationsGetBySlug(s) = {}
              THEN [req EXCEPT ![r] = [Idle EXCEPT !.phase = "co_insert", !.slug = s, !.owner = u]]
              ELSE req
    /\ UNCHANGED <<orgs, members, subs, namespaces, invitations, nextId, refusals>>

\* Organizations.Create with a fresh id.
CreateOrganizationInsert(r) ==
    /\ req[r].phase = "co_insert"
    /\ \E ok \in BOOLEAN :
         IF ok /\ OrganizationsGetBySlug(req[r].slug) = {}
         THEN /\ orgs' = OrganizationsCreate([id |-> nextId + 1, slug |-> req[r].slug,
                                               name |-> "initial", settings |-> "{}"])
              /\ nextId' = nextId + 1
              /\ req' = [req EXCEPT ![r].phase = "co_owner", ![r].org = nextId + 1]
         ELSE /\ req' = [req EXCEPT ![r] = Idle]
              /\ UNCHANGED <<orgs, nextId>>
    /\ UNCHANGED <<members, subs, namespaces, invitations, calls, refusals>>

\* Organizations.AddMember of the owner.
CreateOrganizationAddOwner(r) ==
    /\ req[r].phase = "co_owner"
    /\ \E ok \in BOOLEAN :
         IF ok
         THEN /\ members' = OrganizationsAddMember([org |-> req[r].org, user |-> req[r].owner,
                                                    role |-> "owner"])
              /\ req' = [req EXCEPT ![r].phase = "co_sub"]
         ELSE /\ req' = [req EXCEPT ![r] = Idle]
              /\ UNCHANGED members
    /\ UNCHANGED <<orgs, subs, namespaces, invitations, nextId, calls, refusals>>

\* Subscriptions.Create of the free-tier subscription.
CreateOrganizationSubscribe(r) ==
    /\ req[r].phase = "co_sub"
    /\ \E ok \in BOOLEAN :
         subs' = IF ok THEN SubscriptionsCreate([org |-> req[r].org, plan |-> "free"]) ELSE subs
    /\ req' = [req EXCEPT ![r] = Idle]
    /\ UNCHANGED <<orgs, members, namespaces, invitations, nextId, calls, refusals>>

(***************************************************************************)
(* DeleteOrganization: ListByOrganization(id, 1, 0) and the refusal when   *)
(* it returns a row, then Organizations.Delete.                            *)
(***************************************************************************)
DeleteOrganizationList(r, id) ==
    LET rows == NamespacesListByOrganization(id) IN
    /\ Start(r)
    /\ IF rows # {}
       THEN /\ refusals' = refusals \cup
                  {[org |-> id, active |-> \E n \in rows : n.state # "deleted"]}
            /\ UNCHANGED req
       ELSE /\ req' = [req EXCEPT ![r] = [Idle EXCEPT !.phase = "do_delete", !.org = id]]
            /\ UNCHANGED refusals
    /\ UNCHANGED <<orgs, members, subs, namespaces, invitations, nextId>>

DeleteOrganizationDelete(r) ==
    /\ req[r].phase = "do_delete"
    /\ orgs' = OrganizationsDelete(req[r].org)
    /\ req' = [req EXCEPT ![r] = Idle]
    /\ UNCHANGED <<members, subs, namespaces, invitations, nextId, calls, refusals>>

(***************************************************************************)
(* UpdateOrganization: GetByID ("organization not found" when there is no  *)
(* row), the input's non-nil Name and Settings set on the copy read, then  *)
(* Organizations.Update of the whole copy.                                 *)
(***************************************************************************)
UpdateOrganizationGet(r, id, rename, resettle) ==
    /\ Start(r)
    /\ req' = IF OrganizationsGetByID(id) = {} THEN req
              ELSE LET o == CHOOSE x \in OrganizationsGetByID(id) : TRUE IN
                   [req EXCEPT ![r] = [phase |-> "uo_update", org |-> id,
                        row |-> [o EXCEPT !.name = IF rename THEN "renamed" ELSE @,
                                          !.settings = IF resettle THEN "custom" ELSE @]]]
    /\ UNCHANGED <<orgs, members, subs, namespaces, invitations, nextId, refusals>>

UpdateOrganizationUpdate(r) ==
    /\ req[r].phase = "uo_update"
    /\ \E ok \in BOOLEAN : orgs' = IF ok THEN OrganizationsUpdate(req[r].row) ELSE orgs
    /\ req' = [req EXCEPT ![r] = Idle]
    /\ UNCHANGED <<members, subs, namespaces, invitations, nextId, calls, refusals>>

(***************************************************************************)
(* The single-statement handlers.                                          *)
(***************************************************************************)
Call == calls < MaxCalls /\ calls' = calls + 1

\* UpdateMemberRole: AddMember with the role, whatever it is, for any user.
UpdateMemberRole(id, u, role) ==
    /\ Call
    /\ members' = OrganizationsAddMember([org |-> id, user |-> u, role |-> role])
    /\ UNCHANGED <<orgs, subs, namespaces, invitations, req, nextId, refusals>>

RemoveMember(id, u) ==
    /\ Call
    /\ members' = OrganizationsRemoveMember(id, u)
    /\ UNCHANGED <<orgs, subs, namespaces, invitations, req, nextId, refusals>>

\* InviteUser: the role check, then CreateInvitation.
InviteUser(id, email, role) ==
    /\ Call
    /\ invitations' = IF role \in Roles
                      THEN UsersCreateInvitation([org |-> id, email |-> email, role |-> role])
                      ELSE invitations
    /\ UNCHANGED <<orgs, members, subs, namespaces, req, nextId, refusals>>

\* NamespaceService.CreateNamespace as far as the organization goes: the
\* subscription, the count of ListByOrganization against the plan, the name
\* (retention and region are NamespaceLifecycle's).
CreateNamespace(id, nm) ==
    LET sub == SubscriptionsGetByOrganizationID(id) IN
    /\ Call
    /\ namespaces' =
         IF /\ sub # {}
            /\ Cardinality(NamespacesListByOrganization(id))
                 < GetMaxNamespaces((CHOOSE s \in sub : TRUE).plan)
            /\ NamespacesGetByOrgAndName(id, nm) = {}
         THEN NamespacesCreate([org |-> id, name |-> nm, state |-> "pending"])
         ELSE namespaces
    /\ UNCHANGED <<orgs, members, subs, invitations, req, nextId, refusals>>

\* NamespaceService.DeleteNamespace on an unprotected row: state deleting.
DeleteNamespace(n) ==
    /\ Call
    /\ namespaces' = NamespacesSetState(n, "deleting")
    /\ UNCHANGED <<orgs, members, subs, invitations, req, nextId, refusals>>

\* UpdateNamespaceStateActivity as the provisioning workflow ends (active)
\* and as the deletion workflow ends (deleted).
UpdateNamespaceStateActivity(n) ==
    /\ \/ n.state = "pending" /\ namespaces' = NamespacesSetState(n, "active")
       \/ n.state = "deleting" /\ namespaces' = NamespacesSetState(n, "deleted")
    /\ UNCHANGED <<orgs, members, subs, invitations, req, nextId, calls, refusals>>

Init ==
    /\ orgs = {} /\ members = {} /\ subs = {} /\ namespaces = {} /\ invitations = {}
    /\ req = [r \in Reqs |-> Idle]
    /\ nextId = 0 /\ calls = 0 /\ refusals = {}

OrgIdsInUse == {o.id : o \in orgs}

Next ==
    \/ \E r \in Reqs :
         \/ \E s \in Slugs, u \in Users : CreateOrganizationCheck(r, s, u)
         \/ CreateOrganizationInsert(r) \/ CreateOrganizationAddOwner(r)
         \/ CreateOrganizationSubscribe(r)
         \/ \E id \in OrgIdsInUse : DeleteOrganizationList(r, id)
         \/ DeleteOrganizationDelete(r)
         \/ \E id \in OrgIdsInUse, rn, rs \in BOOLEAN : UpdateOrganizationGet(r, id, rn, rs)
         \/ UpdateOrganizationUpdate(r)
    \/ \E id \in OrgIdsInUse, u \in Users :
         \/ \E role \in Roles : UpdateMemberRole(id, u, role)
         \/ RemoveMember(id, u)
         \/ \E role \in RoleInputs : InviteUser(id, u, role)
    \/ \E id \in OrgIdsInUse, nm \in NsNames : CreateNamespace(id, nm)
    \/ \E n \in namespaces : DeleteNamespace(n) \/ UpdateNamespaceStateActivity(n)

Spec == Init /\ [][Next]_vars

-----------------------------------------------------------------------------
TypeOK ==
    /\ orgs \subseteq [id : OrgIds, slug : Slugs, name : {"initial", "renamed"},
                       settings : {"{}", "custom"}]
    /\ members \subseteq [org : OrgIds, user : Users, role : Roles]
    /\ subs \subseteq [org : OrgIds, plan : {"free"}]
    /\ namespaces \subseteq [org : OrgIds, name : NsNames,
                             state : {"pending", "active", "deleting", "deleted"}]
    /\ invitations \subseteq [org : OrgIds, email : Users, role : Roles]
    /\ nextId \in 0..MaxCalls /\ calls \in 0..MaxCalls
    /\ refusals \subseteq [org : OrgIds, active : BOOLEAN]

\* DeleteOrganization checks "for active namespaces" and refuses with
\* "cannot delete organization with active namespaces": every refusal is of
\* an organization one of whose namespaces is not deleted.
DeleteRefusedOnlyWithActiveNamespaces == \A x \in refusals : x.active
=============================================================================
