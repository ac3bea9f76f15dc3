\* All three namespace workflows on one row, with a create and a racing
\* handler call.
CONSTANTS
    p1 = p1
    d1 = d1
    f1 = f1
    r1 = r1
    r2 = r2
    r3 = r3
    Execs <- MCExecs
    WorkflowOf <- MCWorkflowOf
    Reqs <- MCReqsSmall
    Retentions <- MCRetentionsOne
SPECIFICATION Spec
CONSTRAINT FailoverApartFromDeletion
INVARIANT TypeOK
INVARIANT RowStateBackedBySteps
PROPERTY Refinement
\* Finitely many requests and executions: once all have finished the
\* service is idle, which is not a deadlock.
CHECK_DEADLOCK FALSE
