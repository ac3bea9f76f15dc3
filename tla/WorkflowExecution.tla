------------------------- MODULE WorkflowExecution -------------------------
(***************************************************************************)
(* What the orchestration engine promises about one workflow execution,    *)
(* as spec.md states it (sections 3, 4.1 and the table of 4.4) for the     *)
(* workflows that are a fixed chain of steps: an                           *)
(* execution is submitted, then steps through its definition one step at a *)
(* time.  Each step ends, as a whole, in Success or FatalFailure; a        *)
(* FatalFailure of a hard-stop step ends the execution as Failed, one of a *)
(* soft-continue step is recorded and the execution goes on.  Retries,     *)
(* attempts and lost responses are invisible at this level.  A step whose  *)
(* condition does not hold (standby setup without HA) is not executed.     *)
(***************************************************************************)
EXTENDS Naturals, Sequences

CONSTANTS
    Execs,        \* workflow executions
    WorkflowOf    \* Execs -> DOMAIN SpecSteps

VARIABLES
    aStatus,      \* Execs -> {"Pending", "Running", "Completed", "Failed"}
    aStep,        \* Execs -> currentStepIndex
    aHistory,     \* Execs -> Seq of [step, outcome] (the StepRecords)
    aStandby      \* Execs -> BOOLEAN, the HA input of a provision execution

avars == <<aStatus, aStep, aHistory, aStandby>>

\* The step tables of spec.md section 4.4.
SpecSteps == [provision |-> <<"select_cluster", "gen_certs", "register_ns",
                              "create_dns", "set_active", "setup_standby">>,
              delete    |-> <<"deprecate", "drain_sleep", "remove_dns",
                              "archive", "set_deleted">>,
              failover  |-> <<"verify_standby", "fence_primary",
                              "promote_standby", "update_dns", "verify_traffic">>,
              billing_cycle |-> <<"aggregate_usage", "generate_invoice",
                              "report_stripe_usage", "sleep_finalize",
                              "send_invoice_email">>]

SpecHard == {"select_cluster", "gen_certs", "register_ns", "create_dns",
             "set_active", "deprecate", "set_deleted", "verify_standby",
             "fence_primary", "promote_standby", "update_dns",
             "aggregate_usage", "generate_invoice"}

SpecSoft == {"setup_standby", "remove_dns", "archive", "verify_traffic",
             "report_stripe_usage", "send_invoice_email"}

StepAt(e, i) == SpecSteps[WorkflowOf[e]][i]

\* "[if HA] setup-standby": the only conditional step.
Executes(e, i) == StepAt(e, i) = "setup_standby" => aStandby[e]

\* The index of the next step to execute after step i (past the end if none).
RECURSIVE NextFrom(_, _)
NextFrom(e, i) ==
    IF i > Len(SpecSteps[WorkflowOf[e]]) \/ Executes(e, i) THEN i
    ELSE NextFrom(e, i + 1)

\* Record the outcome of the current step and move past it.
Proceed(e, outcome) ==
    LET n == NextFrom(e, aStep[e] + 1) IN
    /\ aHistory' = [aHistory EXCEPT ![e] = Append(@, [step |-> StepAt(e, aStep[e]),
                                                      outcome |-> outcome])]
    /\ aStep' = [aStep EXCEPT ![e] = n]
    /\ aStatus' = [aStatus EXCEPT ![e] =
                      IF n > Len(SpecSteps[WorkflowOf[e]]) THEN "Completed" ELSE "Running"]

Submit(e) ==
    /\ aStatus[e] = "Pending"
    /\ \E ha \in BOOLEAN :
         /\ aStandby' = [aStandby EXCEPT ![e] = ha /\ WorkflowOf[e] = "provision"]
         /\ aStep' = [aStep EXCEPT ![e] = 1]
    /\ aStatus' = [aStatus EXCEPT ![e] = "Running"]
    /\ UNCHANGED aHistory

StepSucceeds(e) ==
    /\ aStatus[e] = "Running"
    /\ Proceed(e, "Success")
    /\ UNCHANGED aStandby

StepFailsSoft(e) ==
    /\ aStatus[e] = "Running"
    /\ StepAt(e, aStep[e]) \in SpecSoft
    /\ Proceed(e, "FatalFailure")
    /\ UNCHANGED aStandby

StepFailsHard(e) ==
    /\ aStatus[e] = "Running"
    /\ StepAt(e, aStep[e]) \in SpecHard
    /\ aHistory' = [aHistory EXCEPT ![e] = Append(@, [step |-> StepAt(e, aStep[e]),
                                                      outcome |-> "FatalFailure"])]
    /\ aStatus' = [aStatus EXCEPT ![e] = "Failed"]
    /\ UNCHANGED <<aStep, aStandby>>

AInit ==
    /\ aStatus = [e \in Execs |-> "Pending"]
    /\ aStep = [e \in Execs |-> 0]
    /\ aHistory = [e \in Execs |-> <<>>]
    /\ aStandby = [e \in Execs |-> FALSE]

ANext ==
    \E e \in Execs :
        \/ Submit(e)
        \/ StepSucceeds(e)
        \/ StepFailsSoft(e)
        \/ StepFailsHard(e)

ASpec == AInit /\ [][ANext]_avars

\* Submission is up to callers; a submitted execution keeps stepping until
\* it has finished, so every execution that is submitted terminates.
ALiveSpec == ASpec /\ \A e \in Execs :
    WF_avars(StepSucceeds(e) \/ StepFailsSoft(e) \/ StepFailsHard(e))
=============================================================================
