\* Two GenerateInvoice calls count the invoices before either inserts.
CONSTANTS
    g1 = g1
    g2 = g2
    u1 = u1
    u2 = u2
    n1 = n1
    n2 = n2
    Gens <- MCGens
    Updates <- MCNoUpdates
    Usages <- MCUsagesBoundary
    UsageKeys <- MCOneKey
    Deltas <- MCDeltas
    MaxRecords <- MCNoRecords
SPECIFICATION Spec
INVARIANT InvoiceNumbersUnique
\* Every call ends; then nothing is enabled.
CHECK_DEADLOCK FALSE
