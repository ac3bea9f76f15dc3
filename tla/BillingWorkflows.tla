-------------------------- MODULE BillingWorkflows --------------------------
(***************************************************************************)
(* The billing workflows of workflows/billing.go run by the orchestration  *)
(* engine: BillingCycleWorkflow, DunningWorkflow and                        *)
(* UsageAggregationWorkflow.  Each ExecuteActivity(...).Get is one engine   *)
(* step per attempt under the workflow's RetryPolicy, as in                 *)
(* NamespaceLifecycle: an attempt succeeds, or fails with or without its    *)
(* side effect applied, and the last failure is returned to the workflow    *)
(* code.  pc is the step the workflow code is blocked on; the code after    *)
(* each Get, its error checks, early returns and loops, is NextPc.          *)
(***************************************************************************)
EXTENDS Integers, Sequences, FiniteSets, SequencesExt

CONSTANTS
    Execs,        \* workflow executions
    WorkflowOf,   \* Execs -> {"billing_cycle", "dunning", "usage_aggregation"}
    Orgs          \* organizations ListActiveOrganizationsActivity may return

VARIABLES
    status,       \* Execs -> {"idle", "running", "completed", "failed"}
    pc,           \* Execs -> the step being executed
    attempt,      \* Execs -> attempt number of the current activity (1-based)
    checkpoint,   \* Execs -> index into DunningWorkflow's retrySchedule
    orgList,      \* Execs -> the orgIDs returned by ListActiveOrganizations
    orgIdx,       \* Execs -> index of the org being aggregated
    log,          \* Execs -> Seq of [step, org, result]: each step's final result
    paid,         \* Execs -> the dunning invoice has been paid
    paidAt,       \* Execs -> Len(log) when the invoice was paid, or -1
    reported,     \* Execs -> usage reports applied at Stripe
    suspended     \* Execs -> the organization has been suspended

vars == <<status, pc, attempt, checkpoint, orgList, orgIdx, log, paid, paidAt,
          reported, suspended>>

(***************************************************************************)
(* The workflow definitions.                                               *)
(***************************************************************************)
\* RetryPolicy.MaximumAttempts of each workflow's ActivityOptions.
MaxAttempts == [billing_cycle |-> 5, dunning |-> 3, usage_aggregation |-> 3]

\* DunningWorkflow's retrySchedule (days): one checkpoint per delay.
RetrySchedule == <<3, 7, 14>>

FirstStep == [billing_cycle |-> "aggregate_usage", dunning |-> "sleep_checkpoint",
              usage_aggregation |-> "list_active_orgs"]

\* workflow.Sleep calls; their error is discarded.
SleepSteps == {"sleep_finalize", "sleep_checkpoint"}

\* What a successful CheckInvoicePaidActivity returns.
CheckResult(e) == IF paid[e] THEN "paid" ELSE "unpaid"

\* The code after each Get returns: the next step, "done" for a return of
\* nil, "failed" for a return of the error.  result is "error" when Get
\* returned one.

\* Variant: a failed Stripe report is returned like a failed invoice.
BillingCycleNextReportFatal(s, result) ==
    CASE s = "aggregate_usage"     -> IF result = "error" THEN "failed" ELSE "generate_invoice"
      [] s = "generate_invoice"    -> IF result = "error" THEN "failed" ELSE "report_stripe_usage"
      [] s = "report_stripe_usage" -> IF result = "error" THEN "failed" ELSE "sleep_finalize"
      [] s = "sleep_finalize"      -> "send_invoice_email"
      [] s = "send_invoice_email"  -> "done"

\* BillingCycleWorkflow.
BillingCycleNext(s, result) ==
    CASE s = "aggregate_usage"     -> IF result = "error" THEN "failed" ELSE "generate_invoice"
      [] s = "generate_invoice"    -> IF result = "error" THEN "failed" ELSE "report_stripe_usage"
      [] s = "report_stripe_usage" -> "sleep_finalize"
      [] s = "sleep_finalize"      -> "send_invoice_email"
      [] s = "send_invoice_email"  -> "done"

\* Variant: the loop does not return when the invoice is paid.
DunningNextNoEarlyExit(e, s, result) ==
    CASE s = "sleep_checkpoint" -> "send_reminder"
      [] s = "send_reminder"    -> "check_paid"
      [] s = "check_paid"       -> IF checkpoint[e] < Len(RetrySchedule)
                                   THEN "sleep_checkpoint" ELSE "suspend_account"
      [] s = "suspend_account"  -> IF result = "error" THEN "failed" ELSE "done"

\* DunningWorkflow: the reminder's error is discarded; a failed check
\* "continue"s to the next checkpoint exactly as an unpaid invoice does;
\* after the last checkpoint the account is suspended.
DunningNext(e, s, result) ==
    CASE s = "sleep_checkpoint" -> "send_reminder"
      [] s = "send_reminder"    -> "check_paid"
      [] s = "check_paid"       -> IF result = "paid" THEN "done"
                                   ELSE IF checkpoint[e] < Len(RetrySchedule)
                                        THEN "sleep_checkpoint" ELSE "suspend_account"
      [] s = "suspend_account"  -> IF result = "error" THEN "failed" ELSE "done"

\* Variant: a failed organization aborts the whole aggregation.
AggregationNextAbortOnError(e, s, result) ==
    CASE s = "list_active_orgs"    -> IF result = "error" THEN "failed"
                                      ELSE IF orgList'[e] = <<>> THEN "done"
                                      ELSE "aggregate_org_usage"
      [] s = "aggregate_org_usage" -> IF result = "error" THEN "failed"
                                      ELSE IF orgIdx[e] < Len(orgList[e])
                                      THEN "aggregate_org_usage" ELSE "done"

\* UsageAggregationWorkflow: a failed organization is only logged.
AggregationNext(e, s, result) ==
    CASE s = "list_active_orgs"    -> IF result = "error" THEN "failed"
                                      ELSE IF orgList'[e] = <<>> THEN "done"
                                      ELSE "aggregate_org_usage"
      [] s = "aggregate_org_usage" -> IF orgIdx[e] < Len(orgList[e])
                                      THEN "aggregate_org_usage" ELSE "done"

NextPc(e, s, result) ==
    CASE WorkflowOf[e] = "billing_cycle" -> BillingCycleNext(s, result)
      [] WorkflowOf[e] = "dunning"       -> DunningNext(e, s, result)
      [] OTHER                           -> AggregationNext(e, s, result)

NextCheckpoint(e) == checkpoint[e] + 1

\* Record the final result of the current step and run the workflow code up
\* to its next blocking call.
Continue(e, result) ==
    LET s == pc[e]
        n == NextPc(e, s, result)
    IN
    /\ log' = [log EXCEPT ![e] = Append(@, [step |-> s, result |-> result,
                  org |-> IF s = "aggregate_org_usage" THEN orgList[e][orgIdx[e]] ELSE "none"])]
    /\ pc' = [pc EXCEPT ![e] = IF n \in {"done", "failed"} THEN s ELSE n]
    /\ status' = [status EXCEPT ![e] = CASE n = "done" -> "completed"
                                         [] n = "failed" -> "failed"
                                         [] OTHER -> "running"]
    /\ attempt' = [attempt EXCEPT ![e] = 1]
    /\ checkpoint' = [checkpoint EXCEPT ![e] =
                        IF s = "check_paid" /\ n = "sleep_checkpoint" THEN NextCheckpoint(e) ELSE @]
    /\ orgIdx' = [orgIdx EXCEPT ![e] = IF s = "aggregate_org_usage" THEN @ + 1 ELSE 1]

\* The side effect of the current activity at its collaborator.
ApplyEffect(e) ==
    /\ reported' = [reported EXCEPT ![e] = IF pc[e] = "report_stripe_usage" THEN @ + 1 ELSE @]
    /\ suspended' = [suspended EXCEPT ![e] = @ \/ pc[e] = "suspend_account"]

NoEffect == UNCHANGED <<reported, suspended>>

ActivityRunning(e) == status[e] = "running" /\ pc[e] \notin SleepSteps

\* Variant: one attempt more than MaximumAttempts allows.
CanRetryOnceMore(e) == attempt[e] <= MaxAttempts[WorkflowOf[e]]

CanRetry(e) == attempt[e] < MaxAttempts[WorkflowOf[e]]

(***************************************************************************)
(* Engine steps of one execution.                                          *)
(***************************************************************************)
StartWorkflow(e) ==
    /\ status[e] = "idle"
    /\ status' = [status EXCEPT ![e] = "running"]
    /\ pc' = [pc EXCEPT ![e] = FirstStep[WorkflowOf[e]]]
    /\ attempt' = [attempt EXCEPT ![e] = 1]
    /\ checkpoint' = [checkpoint EXCEPT ![e] = 1]
    /\ UNCHANGED <<orgList, orgIdx, log, paid, paidAt, reported, suspended>>

ActivitySucceeds(e) ==
    /\ ActivityRunning(e)
    /\ ApplyEffect(e)
    /\ IF pc[e] = "list_active_orgs"
       THEN \E S \in SUBSET Orgs : \E l \in SetToSeqs(S) : orgList' = [orgList EXCEPT ![e] = l]
       ELSE UNCHANGED orgList
    /\ Continue(e, IF pc[e] = "check_paid" THEN CheckResult(e) ELSE "ok")
    /\ UNCHANGED <<paid, paidAt>>

\* A failed attempt with attempts left is retried after its backoff.
ActivityAttemptFails(e) ==
    /\ ActivityRunning(e)
    /\ CanRetry(e)
    /\ ApplyEffect(e) \/ NoEffect      \* the call ran but its result was lost
    /\ attempt' = [attempt EXCEPT ![e] = @ + 1]
    /\ UNCHANGED <<status, pc, checkpoint, orgList, orgIdx, log, paid, paidAt>>

\* The last attempt fails: Get returns the error to the workflow code.
ActivityExhausted(e) ==
    /\ ActivityRunning(e)
    /\ ~CanRetry(e)
    /\ ApplyEffect(e) \/ NoEffect
    /\ Continue(e, "error")
    /\ UNCHANGED <<orgList, paid, paidAt>>

\* The durable timer of workflow.Sleep fires.
TimerFires(e) ==
    /\ status[e] = "running"
    /\ pc[e] \in SleepSteps
    /\ Continue(e, "ok")
    /\ UNCHANGED <<orgList, paid, paidAt, reported, suspended>>

\* The customer pays the invoice a dunning execution is chasing.
PayInvoice(e) ==
    /\ WorkflowOf[e] = "dunning"
    /\ ~paid[e]
    /\ paid' = [paid EXCEPT ![e] = TRUE]
    /\ paidAt' = [paidAt EXCEPT ![e] = Len(log[e])]
    /\ UNCHANGED <<status, pc, attempt, checkpoint, orgList, orgIdx, log, reported, suspended>>

Init ==
    /\ status = [e \in Execs |-> "idle"]
    /\ pc = [e \in Execs |-> FirstStep[WorkflowOf[e]]]
    /\ attempt = [e \in Execs |-> 0]
    /\ checkpoint = [e \in Execs |-> 0]
    /\ orgList = [e \in Execs |-> <<>>]
    /\ orgIdx = [e \in Execs |-> 1]
    /\ log = [e \in Execs |-> <<>>]
    /\ paid = [e \in Execs |-> FALSE]
    /\ paidAt = [e \in Execs |-> -1]
    /\ reported = [e \in Execs |-> 0]
    /\ suspended = [e \in Execs |-> FALSE]

EngineStep(e) ==
    \/ ActivitySucceeds(e)
    \/ ActivityAttemptFails(e)
    \/ ActivityExhausted(e)
    \/ TimerFires(e)

Next == \E e \in Execs : StartWorkflow(e) \/ EngineStep(e) \/ PayInvoice(e)

\* The engine keeps every started execution moving (see NamespaceLifecycle);
\* starts and payments are up to callers and customers.
Fairness == \A e \in Execs : WF_vars(EngineStep(e))

Spec == Init /\ [][Next]_vars /\ Fairness

(***************************************************************************)
(* Properties.                                                             *)
(***************************************************************************)
Steps == {"aggregate_usage", "generate_invoice", "report_stripe_usage",
          "sleep_finalize", "send_invoice_email", "sleep_checkpoint",
          "send_reminder", "check_paid", "suspend_account", "list_active_orgs",
          "aggregate_org_usage"}

Entry == [step : Steps, result : {"ok", "error", "paid", "unpaid"}, org : Orgs \cup {"none"}]

TypeOK ==
    /\ status \in [Execs -> {"idle", "running", "completed", "failed"}]
    /\ pc \in [Execs -> Steps]
    /\ \A e \in Execs : attempt[e] \in 0..MaxAttempts[WorkflowOf[e]]
    /\ checkpoint \in [Execs -> 0..Len(RetrySchedule)]
    /\ \A e \in Execs : orgList[e] \in Seq(Orgs) /\ orgIdx[e] \in 1..Len(orgList[e]) + 1
    /\ log \in [Execs -> Seq(Entry)]
    /\ paid \in [Execs -> BOOLEAN]
    /\ reported \in [Execs -> Nat]
    /\ suspended \in [Execs -> BOOLEAN]

DunningExecs == {e \in Execs : WorkflowOf[e] = "dunning"}

\* The steps of one checkpoint of DunningWorkflow's loop.
CheckpointSteps == <<"sleep_checkpoint", "send_reminder", "check_paid">>

LastCheckPos == Len(CheckpointSteps) * Len(RetrySchedule)

\* spec.md 4.4 and 8: a dunning execution runs the checkpoints in order,
\* one sleep, one reminder and one check each, returns as soon as a check
\* finds the invoice paid (so a completed execution that was not suspended
\* ended on a paid check, after exactly as many reminders as checks), and
\* only suspends the organization after the last checkpoint, across
\* retries, lost responses and a payment at any moment.
DunningLoopShape ==
    \A e \in DunningExecs :
        LET L == log[e] IN
        /\ \A i \in 1..Len(L) :
              IF i <= LastCheckPos
              THEN L[i].step = CheckpointSteps[((i - 1) % Len(CheckpointSteps)) + 1]
              ELSE i = LastCheckPos + 1 /\ L[i].step = "suspend_account"
        /\ \A i \in 1..Len(L) : L[i].result = "paid" => i = Len(L) /\ status[e] = "completed"
        /\ status[e] = "completed" /\ ~suspended[e] => Last(L).result = "paid"
        /\ suspended[e] => Len(L) >= LastCheckPos

\* DunningWorkflow exists to suspend organizations that do not pay: an
\* organization whose invoice was paid before the last check-paid step
\* finished is never suspended.
SuspendsOnlyUnpaid ==
    \A e \in DunningExecs :
        suspended[e] => ~(paid[e] /\ paidAt[e] < LastCheckPos)

UsageExecs == {e \in Execs : WorkflowOf[e] = "usage_aggregation"}

\* spec.md 4.4: per-organization failures are isolated.  A usage
\* aggregation that lists the organizations completes, after one
\* aggregate-org-usage step for each listed organization in list order
\* whatever their outcomes; it fails only when the listing fails.
AggregationIsolation ==
    \A e \in UsageExecs :
        LET L == log[e] IN
        /\ status[e] = "completed" =>
              /\ L[1] = [step |-> "list_active_orgs", result |-> "ok", org |-> "none"]
              /\ [i \in 1..Len(L) - 1 |-> L[i + 1].org] = orgList[e]
        /\ status[e] = "failed" =>
              L = <<[step |-> "list_active_orgs", result |-> "error", org |-> "none"]>>

\* Every billing-cycle execution behaves as spec.md's abstract execution of
\* the BillingCycle row of 4.4 and, under the engine's fairness, finishes.
BillingCycleExecs == {e \in Execs : WorkflowOf[e] = "billing_cycle"}

AbstractStatus == [idle |-> "Pending", running |-> "Running",
                   completed |-> "Completed", failed |-> "Failed"]

BillingCycleSteps == <<"aggregate_usage", "generate_invoice", "report_stripe_usage",
                       "sleep_finalize", "send_invoice_email">>

AbstractStep(x) ==
    CASE status[x] = "idle"      -> 0
      [] status[x] = "completed" -> Len(BillingCycleSteps) + 1
      [] OTHER                   -> SelectInSeq(BillingCycleSteps, LAMBDA t : t = pc[x])

AbstractOutcome(r) == IF r = "error" THEN "FatalFailure" ELSE "Success"

WE == INSTANCE WorkflowExecution WITH
        Execs <- BillingCycleExecs,
        aStatus <- [x \in BillingCycleExecs |-> AbstractStatus[status[x]]],
        aStep <- [x \in BillingCycleExecs |-> AbstractStep(x)],
        aHistory <- [x \in BillingCycleExecs |->
                       [i \in 1..Len(log[x]) |-> [step |-> log[x][i].step,
                                                  outcome |-> AbstractOutcome(log[x][i].result)]]],
        aStandby <- [x \in BillingCycleExecs |-> FALSE]

BillingRefinement == WE!ALiveSpec
=============================================================================
