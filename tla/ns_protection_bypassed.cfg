CONSTANTS
    p1 = p1
    d1 = d1
    f1 = f1
    r1 = r1
    r2 = r2
    r3 = r3
    Execs <- MCExecsProvDel
    WorkflowOf <- MCWorkflowOf
    Reqs <- MCReqs
    Retentions <- MCRetentions
SPECIFICATION Spec
PROPERTY DeleteRespectsProtection
\* Finitely many requests and executions: once all have finished the
\* service is idle, which is not a deadlock.
CHECK_DEADLOCK FALSE
