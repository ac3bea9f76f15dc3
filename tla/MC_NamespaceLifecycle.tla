----------------------- MODULE MC_NamespaceLifecycle -----------------------
(***************************************************************************)
(* Model: one namespace, one execution of each namespace workflow, and a   *)
(* few concurrent NamespaceService requests.                               *)
(***************************************************************************)
EXTENDS NamespaceLifecycle, TLC

CONSTANTS p1, d1, f1, r1, r2, r3

MCExecs == {p1, d1, f1}

\* Provisioning racing deletion: the two workflows that write the row.
MCExecsProvDel == {p1, d1}

MCWorkflowOf == [e \in MCExecs |-> CASE e = p1 -> "provision"
                                     [] e = d1 -> "delete"
                                     [] e = f1 -> "failover"]

\* Three requests: a create plus two that race on the row.
MCReqs == {r1, r2, r3}

\* Two requests suffice when the races between handlers are not the point.
MCReqsSmall == {r1, r2}

\* Retention days besides the default 7: one within the free plan's limit
\* only for paid plans (30), one beyond every plan but enterprise (120).
MCRetentions == {30, 120}

\* State constraint for the run with all three workflows.  A failover writes
\* nothing to the row and only needs it to exist, which stays true once it
\* is created, and deletion never reads what a failover does: their steps
\* are independent, so checking only the orders in which one of the two is
\* not running while the other is loses no reachable state of either.  The
\* provisioning interleaves freely with both.
FailoverApartFromDeletion ==
    ~(status[d1] = "running" /\ status[f1] = "running")

\* One retention besides the default, beyond the free plan's limit and within
\* a paid plan's, for the run where retention is not what is checked.
MCRetentionsOne == {30}

MCReqSymmetry == Permutations(MCReqs)
=============================================================================
