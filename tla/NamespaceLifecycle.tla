------------------------- MODULE NamespaceLifecycle -------------------------
(***************************************************************************)
(* One tenant namespace: its row in cloud_namespaces, the NamespaceService *)
(* handlers that read and rewrite that row (service/namespace.go), and the *)
(* three namespace workflows (workflows/provisioner.go) run by the         *)
(* orchestration engine, whose UpdateNamespaceStateActivity writes the     *)
(* row's state column.                                                     *)
(*                                                                         *)
(* Handlers run concurrently: UpdateNamespace and DeleteNamespace read the *)
(* row (GetByID) in one step and write the whole row back (Update) in a    *)
(* later one.  Each ExecuteActivity(...).Get of a workflow is one attempt  *)
(* per engine step under the workflow's RetryPolicy: an attempt succeeds,  *)
(* or fails (an error, a start-to-close timeout, a lost worker) with or    *)
(* without its side effect applied, and is retried until MaximumAttempts;  *)
(* the last error is returned to the workflow code, which stops on a       *)
(* hard-stop step and only logs it on a soft-continue one.                 *)
(***************************************************************************)
EXTENDS Naturals, Sequences, FiniteSets

CONSTANTS
    Execs,        \* workflow executions
    WorkflowOf,   \* Execs -> WorkflowTypes
    Reqs,         \* concurrent NamespaceService requests
    Retentions    \* retention-day values a request may carry

WorkflowTypes == {"provision", "delete", "failover"}

NsStates == {"none", "pending", "active", "updating", "deleting", "deleted"}

VARIABLES
    row,          \* the cloud_namespaces row
    requested,    \* workflow starts asked for by the handlers, per type
    req,          \* Reqs -> the state of one handler call
    status,       \* Execs -> {"idle", "running", "completed", "failed"}
    step,         \* Execs -> index of the step being executed
    attempt,      \* Execs -> attempt number of the current activity (1-based)
    standby,      \* Execs -> input.HAEnabled /\ input.StandbyRegion # ""
    history       \* Execs -> Seq of [step, outcome]: the final result of each step

vars == <<row, requested, req, status, step, attempt, standby, history>>

(***************************************************************************)
(* The workflow definitions of provisioner.go, as step tables.             *)
(***************************************************************************)
WorkflowSteps ==
    [provision |-> <<"select_cluster", "gen_certs", "register_ns",
                     "create_dns", "set_active", "setup_standby">>,
     delete    |-> <<"deprecate", "drain_sleep", "remove_dns",
                     "archive", "set_deleted">>,
     failover  |-> <<"verify_standby", "fence_primary",
                     "promote_standby", "update_dns", "verify_traffic">>]

\* RetryPolicy.MaximumAttempts of each workflow's ActivityOptions.
MaxAttempts == [provision |-> 5, delete |-> 3, failover |-> 3]

\* workflow.Sleep calls; their error is discarded.
SleepSteps == {"drain_sleep"}

\* Steps whose final error is only logged ("Non-fatal, continue").
SoftSteps == {"setup_standby", "remove_dns", "archive", "verify_traffic"}

\* UpdateNamespaceStateActivity calls and the state each one writes.
StateWrittenBy == [set_active |-> "active", set_deleted |-> "deleted"]

StepsOf(e) == WorkflowSteps[WorkflowOf[e]]

Cur(e) == StepsOf(e)[step[e]]

\* Variant: the last step's error is also only logged when DNS creation fails.
IsSoftWithDns(s) == s \in SoftSteps \cup {"create_dns"}

IsSoft(s) == s \in SoftSteps

\* Variant: standby setup runs whatever the HA input says.
RunsAlways(e, i) == TRUE

\* "if input.HAEnabled && input.StandbyRegion != """ guards the standby setup.
Runs(e, i) == StepsOf(e)[i] = "setup_standby" => standby[e]

\* Index of the step after i; the only conditional step is the last one of
\* its workflow, so one skip suffices.
NextIndex(e, i) ==
    IF i + 1 <= Len(StepsOf(e)) /\ ~Runs(e, i + 1) THEN i + 2 ELSE i + 1

\* Variant: one attempt more than MaximumAttempts allows.
CanRetryOnceMore(e) == attempt[e] <= MaxAttempts[WorkflowOf[e]]

\* The engine retries while the attempt count is below MaximumAttempts.
CanRetry(e) == attempt[e] < MaxAttempts[WorkflowOf[e]]

Record(e, outcome) ==
    history' = [history EXCEPT ![e] = Append(@, [step |-> Cur(e), outcome |-> outcome])]

\* Move to the next step with a fresh attempt count, or return nil.
Advance(e) ==
    LET n == NextIndex(e, step[e]) IN
    /\ step' = [step EXCEPT ![e] = n]
    /\ attempt' = [attempt EXCEPT ![e] = 1]
    /\ status' = [status EXCEPT ![e] = IF n > Len(StepsOf(e)) THEN "completed" ELSE "running"]

(***************************************************************************)
(* NamespaceRepository on the single cloud_namespaces row.                 *)
(***************************************************************************)
\* Create: INSERT with the id derived from the name; the primary key refuses
\* a second row with the same id, leaving the row as it was.
NamespacesCreate(ns) == IF row.exists THEN row ELSE ns

\* GetByID and GetByOrgAndName: the row, or nil (NoRow) when there is none.
NamespacesGetByID == row

NamespacesGetByOrgAndName == row

\* ListByOrganization: the organization's rows.
NamespacesListByOrganization == IF row.exists THEN {row} ELSE {}

\* Update: UPDATE ... SET every column WHERE id from the caller's struct; it
\* touches no row if there is none.
NamespacesUpdate(ns) == IF row.exists THEN ns ELSE row

\* UpdateState: UPDATE ... SET state WHERE id, leaving every other column.
NamespacesUpdateState(st) == IF row.exists THEN [row EXCEPT !.state = st] ELSE row

\* The activities of activities.go: UpdateNamespaceStateActivity is the only
\* one that writes the row; the others call external systems (stubs here).
ApplyEffect(e) ==
    IF Cur(e) \in DOMAIN StateWrittenBy
    THEN row' = NamespacesUpdateState(StateWrittenBy[Cur(e)])
    ELSE UNCHANGED row

ActivityRunning(e) == status[e] = "running" /\ Cur(e) \notin SleepSteps

(***************************************************************************)
(* Engine steps of one execution.                                          *)
(***************************************************************************)
StartWorkflow(e) ==
    LET w == WorkflowOf[e] IN
    /\ status[e] = "idle"
    \* provisioning and deletion are started for a handler call; a failover
    \* is started by an operator for any existing namespace
    /\ IF w = "failover" THEN row.exists /\ UNCHANGED requested
       ELSE requested[w] > 0 /\ requested' = [requested EXCEPT ![w] = @ - 1]
    /\ \E ha \in BOOLEAN : standby' = [standby EXCEPT ![e] = ha /\ w = "provision"]
    /\ status' = [status EXCEPT ![e] = "running"]
    /\ step' = [step EXCEPT ![e] = 1]
    /\ attempt' = [attempt EXCEPT ![e] = 1]
    /\ UNCHANGED <<row, req, history>>

ActivitySucceeds(e) ==
    /\ ActivityRunning(e)
    /\ ApplyEffect(e)
    /\ Record(e, "Success")
    /\ Advance(e)
    /\ UNCHANGED <<requested, req, standby>>

\* A failed attempt with attempts left is retried after its backoff.
ActivityAttemptFails(e) ==
    /\ ActivityRunning(e)
    /\ CanRetry(e)
    /\ \/ ApplyEffect(e)          \* the call ran but its result was lost
       \/ UNCHANGED row
    /\ attempt' = [attempt EXCEPT ![e] = @ + 1]
    /\ UNCHANGED <<requested, req, status, step, standby, history>>

\* The last attempt fails: Get returns the error to the workflow code.
ActivityExhausted(e) ==
    /\ ActivityRunning(e)
    /\ ~CanRetry(e)
    /\ \/ ApplyEffect(e)
       \/ UNCHANGED row
    /\ Record(e, "FatalFailure")
    /\ IF IsSoft(Cur(e))
       THEN Advance(e)
       ELSE /\ status' = [status EXCEPT ![e] = "failed"]
            /\ UNCHANGED <<step, attempt>>
    /\ UNCHANGED <<requested, req, standby>>

\* The durable timer of workflow.Sleep fires.
TimerFires(e) ==
    /\ status[e] = "running"
    /\ Cur(e) \in SleepSteps
    /\ Record(e, "Success")
    /\ Advance(e)
    /\ UNCHANGED <<row, requested, req, standby>>

(***************************************************************************)
(* NamespaceService handlers.                                              *)
(***************************************************************************)
Done(r, op) == req' = [req EXCEPT ![r].phase = "done", ![r].op = op]

\* The subscription plans, and getMaxNamespaces / getMaxRetention (an
\* unknown plan gets the free limits).
SubscriptionPlans == {"free", "essentials", "business", "enterprise", "mission_critical"}

GetMaxNamespaces(plan) ==
    CASE plan = "essentials" -> 5
      [] plan = "business"   -> 20
      [] plan \in {"enterprise", "mission_critical"} -> 1000
      [] OTHER               -> 1

GetMaxRetention(plan) ==
    CASE plan = "essentials" -> 30
      [] plan = "business"   -> 90
      [] plan \in {"enterprise", "mission_critical"} -> 365
      [] OTHER               -> 7

(***************************************************************************)
(* CreateNamespace: Subscriptions.GetByOrganizationID (the organization's  *)
(* plan), the namespace-count check over ListByOrganization, the name      *)
(* check with GetByOrgAndName, the retention default (0 -> 7) and its plan *)
(* limit, then Create of a pending row.  Name and region validation are    *)
(* string checks on the input and are left out.  The provisioning start    *)
(* (a TODO in the handler) is what `requested' records.                    *)
(***************************************************************************)
CreateNamespace(r) ==
    /\ req[r].phase = "idle"
    /\ \E plan \in SubscriptionPlans, t \in {0} \cup Retentions, p \in BOOLEAN :
         LET days == IF t = 0 THEN 7 ELSE t IN
         IF /\ Cardinality(NamespacesListByOrganization) < GetMaxNamespaces(plan)
            /\ ~NamespacesGetByOrgAndName.exists
            /\ days <= GetMaxRetention(plan)
         THEN /\ row' = NamespacesCreate([exists |-> TRUE, state |-> "pending",
                                          protected |-> p, retention |-> days])
              /\ requested' = [requested EXCEPT !.provision = @ + 1]
         ELSE UNCHANGED <<row, requested>>
    /\ Done(r, "create")
    /\ UNCHANGED <<status, step, attempt, standby, history>>

\* UpdateNamespace, up to GetByID and the checks on what it read.
\* ret = 0 and prot = "nil" stand for absent fields of the request.
UpdateNamespaceRead(r) ==
    /\ req[r].phase = "idle"
    /\ \E ret \in {0} \cup Retentions, prot \in {"nil", "on", "off"} :
         LET ns == NamespacesGetByID IN
         IF ns.exists /\ (ret = 0 \/ ret >= ns.retention)
         THEN req' = [req EXCEPT ![r] = [phase |-> "read", op |-> "update",
                                         snap |-> ns, ret |-> ret, prot |-> prot]]
         ELSE Done(r, "update")    \* not found / "can only be increased"
    /\ UNCHANGED <<row, requested, status, step, attempt, standby, history>>

\* UpdateNamespace, the Update of the whole row built from what was read.
UpdateNamespaceWrite(r) ==
    LET q == req[r] IN
    /\ q.phase = "read" /\ q.op = "update"
    /\ row' = NamespacesUpdate([q.snap EXCEPT
                 !.retention = IF q.ret = 0 THEN @ ELSE q.ret,
                 !.protected = IF q.prot = "nil" THEN @ ELSE q.prot = "on",
                 !.state = "updating"])
    /\ Done(r, "update")
    /\ UNCHANGED <<requested, status, step, attempt, standby, history>>

DeleteNamespaceRead(r) ==
    /\ req[r].phase = "idle"
    /\ LET ns == NamespacesGetByID IN
       IF ns.exists /\ ~ns.protected
       THEN req' = [req EXCEPT ![r] = [@ EXCEPT !.phase = "read", !.op = "delete",
                                                !.snap = ns]]
       ELSE Done(r, "delete")      \* not found / "deletion protected"
    /\ UNCHANGED <<row, requested, status, step, attempt, standby, history>>

DeleteNamespaceWrite(r) ==
    /\ req[r].phase = "read" /\ req[r].op = "delete"
    /\ row' = NamespacesUpdate([req[r].snap EXCEPT !.state = "deleting"])
    /\ requested' = [requested EXCEPT !.delete = @ + 1]
    /\ Done(r, "delete")
    /\ UNCHANGED <<status, step, attempt, standby, history>>

(***************************************************************************)
(* Specification.                                                          *)
(***************************************************************************)
NoRow == [exists |-> FALSE, state |-> "none", protected |-> FALSE, retention |-> 7]

Init ==
    /\ row = NoRow
    /\ requested = [provision |-> 0, delete |-> 0]
    /\ req = [r \in Reqs |-> [phase |-> "idle", op |-> "none", snap |-> NoRow,
                              ret |-> 0, prot |-> "nil"]]
    /\ status = [e \in Execs |-> "idle"]
    /\ step = [e \in Execs |-> 0]
    /\ attempt = [e \in Execs |-> 0]
    /\ standby = [e \in Execs |-> FALSE]
    /\ history = [e \in Execs |-> <<>>]

EngineStep(e) ==
    \/ ActivitySucceeds(e)
    \/ ActivityAttemptFails(e)
    \/ ActivityExhausted(e)
    \/ TimerFires(e)

Next ==
    \/ \E r \in Reqs :
         \/ CreateNamespace(r)
         \/ UpdateNamespaceRead(r)
         \/ UpdateNamespaceWrite(r)
         \/ DeleteNamespaceRead(r)
         \/ DeleteNamespaceWrite(r)
    \/ \E e \in Execs : StartWorkflow(e) \/ EngineStep(e)

\* The engine keeps every started execution moving: activity tasks are
\* dispatched, every attempt ends by its StartToCloseTimeout at the latest,
\* and durable timers fire.  Callers and operators are not obliged to act.
Fairness == \A e \in Execs : WF_vars(EngineStep(e))

Spec == Init /\ [][Next]_vars /\ Fairness

(***************************************************************************)
(* Properties.                                                             *)
(***************************************************************************)
Row == [exists : BOOLEAN, state : NsStates, protected : BOOLEAN, retention : {7} \cup Retentions]

TypeOK ==
    /\ row \in Row
    /\ requested \in [{"provision", "delete"} -> 0..Cardinality(Reqs)]
    /\ \A r \in Reqs : req[r].phase \in {"idle", "read", "done"} /\ req[r].snap \in Row
    /\ status \in [Execs -> {"idle", "running", "completed", "failed"}]
    /\ \A e \in Execs : attempt[e] \in 0..MaxAttempts[WorkflowOf[e]]
                        /\ step[e] \in 0..Len(StepsOf(e)) + 1
    /\ standby \in [Execs -> BOOLEAN]

Succeeded(e, s) == \E i \in 1..Len(history[e]) :
                       history[e][i] = [step |-> s, outcome |-> "Success"]

\* The row only shows a namespace as active once some provisioning run has
\* created its DNS record (and so registered it), and only shows it deleted
\* once some deletion run has deprecated it in the cluster: the state
\* written by UpdateNamespaceStateActivity is backed by the hard-stop steps
\* that precede it, across retries, lost responses and concurrent handlers.
RowStateBackedBySteps ==
    /\ row.state = "active" =>
         \E e \in Execs : WorkflowOf[e] = "provision" /\ Succeeded(e, "create_dns")
    /\ row.state = "deleted" =>
         \E e \in Execs : WorkflowOf[e] = "delete" /\ Succeeded(e, "deprecate")

\* Every execution of the workflow code behaves as spec.md's abstract
\* execution: steps in table order, retries invisible, a hard-stop step's
\* final failure ends it as Failed, a soft-continue step's failure is
\* recorded and passed over, standby setup only with HA, and (under the
\* engine's fairness) every submitted execution finishes.
AbstractStatus == [idle |-> "Pending", running |-> "Running",
                   completed |-> "Completed", failed |-> "Failed"]

WE == INSTANCE WorkflowExecution WITH
        aStatus <- [x \in Execs |-> AbstractStatus[status[x]]],
        aStep <- step, aHistory <- history, aStandby <- standby

Refinement == WE!ALiveSpec

\* "namespace is deletion protected" (DeleteNamespace): a namespace that is
\* protected never enters the deleting state.
DeleteRespectsProtection ==
    [][(row.state # "deleting" /\ row'.state = "deleting") => ~row.protected]_row
=============================================================================
