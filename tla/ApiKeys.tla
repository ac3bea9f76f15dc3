------------------------------- MODULE ApiKeys -------------------------------
(***************************************************************************)
(* API keys: IdentityService.CreateAPIKey, RevokeAPIKey and RotateAPIKey   *)
(* over the api_keys table of repository/apikey.go, and a Connect call     *)
(* with a "tc_" bearer key through AuthInterceptor.validateAPIKey and      *)
(* IdentityService.ValidateAPIKey.                                         *)
(*                                                                         *)
(* A key is its row: id, owner, disabled flag and expiry.  The plaintext,  *)
(* its prefix and its SHA-256 hash are not modelled: a caller holding a    *)
(* key's plaintext finds exactly that row with GetByHash.  RotateAPIKey's  *)
(* three statements (GetByID, Disable, Create) are steps of their own, so  *)
(* other calls interleave with them.  `from` (the key a key was rotated    *)
(* from), `revoked` and `authenticated` are history: no guard reads them.  *)
(***************************************************************************)
EXTENDS Naturals, FiniteSets

CONSTANTS
    Owners,     \* owner ids (owner_type and owner_id together)
    Reqs,       \* concurrent RotateAPIKey calls
    Expiries,   \* expires_at values a CreateAPIKeyInput may carry
    MaxKeys,    \* bound on the rows inserted
    MaxTime     \* bound on the clock

\* expires_at is an sql.NullTime: NULL, or a time.
ExpiresAt == [valid : {FALSE}, time : {0}] \cup [valid : {TRUE}, time : Expiries]

Ids == 1..MaxKeys

VARIABLES
    keys,           \* the api_keys rows
    nextId,         \* the id of the next row inserted
    now,            \* time.Now()
    req,            \* Reqs -> the phase of a RotateAPIKey call and its read
    revoked,        \* history: ids whose RevokeAPIKey returned success
    authenticated   \* history: each authenticated call's key and the revoked ids before it

vars == <<keys, nextId, now, req, revoked, authenticated>>

Row == [id : Ids, owner : Owners, disabled : BOOLEAN,
        exp : ExpiresAt, from : 0..MaxKeys]

Idle == [phase |-> "idle", id |-> 0]

\* APIKeyRepository.GetByID and GetByHash: the row, or none (sql.ErrNoRows).
KeyRow(id) == CHOOSE k \in keys : k.id = id

HasKey(id) == \E k \in keys : k.id = id

\* APIKeyRepository.Create: INSERT with a fresh uuid, disabled false.
APIKeysCreate(o, exp, from) ==
    keys \cup {[id |-> nextId, owner |-> o, disabled |-> FALSE, exp |-> exp, from |-> from]}

\* APIKeyRepository.Disable: UPDATE api_keys SET disabled = true WHERE id.
APIKeysDisable(id) ==
    {IF k.id = id THEN [k EXCEPT !.disabled = TRUE] ELSE k : k \in keys}

\* IdentityService.ValidateAPIKey after GetByHash: disabled, or
\* ExpiresAt.Before(time.Now()), gives no key info.
ValidateAPIKey(k) == ~k.disabled /\ ~(k.exp.valid /\ k.exp.time < now)

(***************************************************************************)
(* CreateAPIKey: GenerateAPIKey, then APIKeys.Create.  A failure of either *)
(* returns an error and leaves no row, so only success changes state.      *)
(***************************************************************************)
CreateAPIKey(o, exp) ==
    /\ nextId <= MaxKeys
    /\ keys' = APIKeysCreate(o, exp, 0)
    /\ nextId' = nextId + 1
    /\ UNCHANGED <<now, req, revoked, authenticated>>

\* RevokeAPIKey: APIKeys.Disable(id).  The UPDATE matches no row for an
\* unknown id and still returns nil.
RevokeAPIKey(id) ==
    /\ keys' = APIKeysDisable(id)
    /\ revoked' = revoked \cup {id}
    /\ UNCHANGED <<nextId, now, req, authenticated>>

\* RotateAPIKey, first statement: GetByID(id); "API key not found" when
\* there is no row.  existing.Disabled is not looked at.
RotateAPIKeyGet(r, id) ==
    /\ req[r].phase = "idle"
    /\ HasKey(id)
    /\ req' = [req EXCEPT ![r] = [phase |-> "disable", id |-> id, snap |-> KeyRow(id)]]
    /\ UNCHANGED <<keys, nextId, now, revoked, authenticated>>

\* Disable the old key; on error the call returns "failed to disable old key".
RotateAPIKeyDisable(r) ==
    /\ req[r].phase = "disable"
    /\ \E ok \in BOOLEAN :
        /\ keys' = IF ok THEN APIKeysDisable(req[r].id) ELSE keys
        /\ req' = [req EXCEPT ![r] = IF ok THEN [@ EXCEPT !.phase = "create"] ELSE Idle]
    /\ UNCHANGED <<nextId, now, revoked, authenticated>>

\* CreateAPIKey with the owner and ExpiresAt of the row read by GetByID.
\* If it fails, the old key stays disabled and the call returns the error.
RotateAPIKeyCreate(r) ==
    /\ req[r].phase = "create"
    /\ \E ok \in BOOLEAN :
        /\ ok => nextId <= MaxKeys
        /\ keys' = IF ok THEN APIKeysCreate(req[r].snap.owner, req[r].snap.exp, req[r].id)
                         ELSE keys
        /\ nextId' = IF ok THEN nextId + 1 ELSE nextId
    /\ req' = [req EXCEPT ![r] = Idle]
    /\ UNCHANGED <<now, revoked, authenticated>>

(***************************************************************************)
(* A Connect call with "Bearer tc_..." holding the plaintext of key id:    *)
(* AuthInterceptor.WrapUnary takes the tc_ branch, validateAPIKey hashes   *)
(* the key and calls ValidateAPIKey; a nil result is CodeUnauthenticated   *)
(* and changes nothing, otherwise the call reaches the handler.            *)
(***************************************************************************)
CallAPI(id) ==
    /\ HasKey(id)
    /\ ValidateAPIKey(KeyRow(id))
    /\ authenticated' = authenticated \cup {[id |-> id, revokedBefore |-> revoked]}
    /\ UNCHANGED <<keys, nextId, now, req, revoked>>

Tick ==
    /\ now < MaxTime
    /\ now' = now + 1
    /\ UNCHANGED <<keys, nextId, req, revoked, authenticated>>

Init ==
    /\ keys = {}
    /\ nextId = 1
    /\ now = 0
    /\ req = [r \in Reqs |-> Idle]
    /\ revoked = {}
    /\ authenticated = {}

Next ==
    \/ \E o \in Owners, exp \in ExpiresAt : CreateAPIKey(o, exp)
    \/ \E id \in 1..(nextId - 1) : RevokeAPIKey(id) \/ CallAPI(id)
    \/ \E r \in Reqs :
        \/ \E id \in 1..(nextId - 1) : RotateAPIKeyGet(r, id)
        \/ RotateAPIKeyDisable(r)
        \/ RotateAPIKeyCreate(r)
    \/ Tick

Spec == Init /\ [][Next]_vars

-----------------------------------------------------------------------------
TypeOK ==
    /\ keys \subseteq Row
    /\ nextId \in 1..(MaxKeys + 1)
    /\ now \in 0..MaxTime
    /\ revoked \subseteq Ids
    /\ \A r \in Reqs : req[r].phase \in {"idle", "disable", "create"}

\* The key a key descends from by rotation, itself included.
RECURSIVE Lineage(_)
Lineage(id) ==
    {id} \cup (IF HasKey(id) /\ KeyRow(id).from # 0 THEN Lineage(KeyRow(id).from) ELSE {})

\* RevokeAPIKey "revokes an API key": once it has returned for a key, no
\* later call is authenticated by that key or by a key rotated from it.
RevocationIsFinal ==
    \A c \in authenticated : Lineage(c.id) \cap c.revokedBefore = {}
=============================================================================
