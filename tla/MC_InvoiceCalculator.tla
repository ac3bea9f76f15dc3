------------------------- MODULE MC_InvoiceCalculator -------------------------
(***************************************************************************)
(* Model values and usage samples for InvoiceCalculator.  Quantities are   *)
(* in the module's scaled units: actions in thousands, storage in tenths   *)
(* of a GB-hour.                                                           *)
(***************************************************************************)
EXTENDS InvoiceCalculator

CONSTANTS g1, g2, u1, u2, n1, n2

MCGens == {g1, g2}
MCGensOne == {g1}
MCUpdates == {u1, u2}
MCNoUpdates == {}

Usage(a, s, r) == [actions |-> a, active |-> s, retained |-> r]

(* The samples put the action overage of the free plan (100k included) in  *)
(* every tier and exactly on the 5M boundary, contain the two vectors of   *)
(* spec.md section 8 for the business plan (2.6M and 2.5M actions), and    *)
(* put each storage usage below, exactly at and above the included         *)
(* allowance times 744 hours of some plan.                                 *)
MCUsages == {Usage(2500, 0, 0),
             Usage(2600, 744, 29760),
             Usage(5100, 800, 30000),
             Usage(12600, 18600, 297600),
             Usage(30100, 20000, 400000),
             Usage(60000, 75000, 2976000),
             Usage(130000, 400000, 4000000)}

(* Two period summaries one action-thousand apart around the free plan's   *)
(* 5M-overage tier boundary.                                               *)
MCUsagesBoundary == {Usage(5099, 0, 0), Usage(5100, 0, 0)}

\* Two namespaces' usage rows in the period.
MCUsageKeys == {n1, n2}
MCOneKey == {n1}

(* A RecordUsage call adds 100k actions (taking 2.5M to the 2.6M of the    *)
(* spec's business vector and 5.0M past the tier boundary) or a month of   *)
(* 1 GB active and 40 GB retained storage.  Two calls keep every sum       *)
(* within TLC's 32-bit integers.                                           *)
MCDeltas == {Usage(100, 0, 0), Usage(0, 7440, 297600)}
MCMaxRecords == 2
MCNoRecords == 0
=============================================================================
