\* Invoices generated while the plan is changed and usage recorded concurrently, checked
\* against the tables of spec.md section 4.5.
CONSTANTS
    g1 = g1
    g2 = g2
    u1 = u1
    u2 = u2
    n1 = n1
    n2 = n2
    Gens <- MCGensOne
    Updates <- MCUpdates
    Usages <- MCUsages
    UsageKeys <- MCUsageKeys
    Deltas <- MCDeltas
    MaxRecords <- MCMaxRecords
SPECIFICATION Spec
INVARIANTS TypeOK 
\* Every call ends; then nothing is enabled.
CHECK_DEADLOCK FALSE
