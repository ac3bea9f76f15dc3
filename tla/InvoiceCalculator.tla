-------------------------- MODULE InvoiceCalculator --------------------------
(***************************************************************************)
(* The billing service of service/billing.go for one organization: the     *)
(* pure line-item calculation (calculateLineItems, getPlanFee,             *)
(* getActionPrice, repository.GetPlanLimits), GenerateInvoice with its     *)
(* "SELECT COUNT + 1" invoice number, UpdateSubscription's read-check-     *)
(* write of the subscription row, and RecordUsage's upsert into the        *)
(* period's usage_records rows, run by concurrent callers.                 *)
(*                                                                         *)
(* Units.  TLC integers are 32 bits wide, so quantities are scaled:        *)
(* actions are counted in thousands and storage in tenths of a GB (or of   *)
(* a GB-hour).  Every sample quantity is a whole number of these units, so *)
(* the scaled formulas are the code's formulas exactly; the float          *)
(* truncation of the action charge is not modelled (README, section 6).    *)
(***************************************************************************)
EXTENDS Integers, Sequences, SequencesExt

CONSTANTS
    Gens,       \* concurrent GenerateInvoice calls for the organization
    Updates,    \* concurrent UpdateSubscription calls
    Usages,     \* usage recorded in the period before the callers start:
                \* records [actions, active, retained] in scaled units
    UsageKeys,  \* usage_records rows of the period: one per namespace
    Deltas,     \* usage records a RecordUsage call may carry
    MaxRecords  \* bound on the RecordUsage calls in a behaviour

VARIABLES
    sub,        \* the subscriptions row: [plan, actions, active, retained]
    invoices,   \* the invoices rows of the organization, in insert order
    gen,        \* Gens -> [phase, inv]: a call's computed invoice
    upd,        \* Updates -> [phase, snap, to]
    usage,      \* UsageKeys -> the usage_records row's counters
    recorded    \* RecordUsage calls so far

vars == <<sub, invoices, gen, upd, usage, recorded>>

Plans == {"free", "essentials", "business", "enterprise", "mission_critical"}

\* getPlanFee: a Go map; a plan missing from it costs 0.
PlanFee(plan) ==
    LET fees == [free |-> 0, essentials |-> 10000, business |-> 50000,
                 enterprise |-> 0, mission_critical |-> 0]
    IN  IF plan \in DOMAIN fees THEN fees[plan] ELSE 0

\* repository.GetPlanLimits: [actions included (thousands), active storage
\* (tenths of a GB), retained storage (tenths of a GB)]; unknown -> free.
GetPlanLimits(plan) ==
    CASE plan = "essentials"       -> [actions |-> 1000,   active |-> 10,   retained |-> 400]
      [] plan = "business"         -> [actions |-> 2500,   active |-> 25,   retained |-> 1000]
      [] plan = "enterprise"       -> [actions |-> 10000,  active |-> 100,  retained |-> 4000]
      [] plan = "mission_critical" -> [actions |-> 100000, active |-> 1000, retained |-> 40000]
      [] OTHER                     -> [actions |-> 100,    active |-> 1,    retained |-> 40]

\* isValidPlanTransition: planOrder[to] >= planOrder[from] (a missing key is 0).
PlanOrder(plan) ==
    LET order == [free |-> 0, essentials |-> 1, business |-> 2,
                  enterprise |-> 3, mission_critical |-> 4]
    IN  IF plan \in DOMAIN order THEN order[plan] ELSE 0

IsValidPlanTransition(from, to) == PlanOrder(to) >= PlanOrder(from)

GetActionPrice(overage) ==
    LET millions == overage \div 1000 IN
    CASE millions < 5   -> 5000
      [] millions < 10  -> 4500
      [] millions < 20  -> 4000
      [] millions < 50  -> 3500
      [] millions < 100 -> 3000
      [] OTHER          -> 2500

Item(kind, amount) == [item |-> kind, amount |-> amount]

\* An overage line item, emitted only when the overage is positive.
Overage(kind, over, amount) == IF over > 0 THEN <<Item(kind, amount)>> ELSE <<>>

\* calculateLineItems(sub, usage).  Storage limits are in GB and usage in
\* GB-hours, one month being 744 hours; amounts are in cents.
CalculateLineItems(s, u) ==
    LET fee       == PlanFee(s.plan)
        actionsOv == u.actions - s.actions
        activeOv  == u.active - s.active * 744
        retainOv  == u.retained - s.retained * 744
    IN  (IF fee > 0 THEN <<Item("plan", fee)>> ELSE <<>>)
        \o Overage("actions", actionsOv,
                   (actionsOv * GetActionPrice(actionsOv)) \div 1000)
        \o Overage("active_storage", activeOv, (activeOv * 4200) \div 1000)
        \o Overage("retained_storage", retainOv, (retainOv * 105) \div 1000)

\* The subtotal loop of GenerateInvoice.
Subtotal(items) == FoldLeft(LAMBDA acc, it : acc + it.amount, 0, items)

\* InvoiceRepository.GenerateInvoiceNumber with the number counted from 0
\* (COUNT(*) without the + 1).
GenerateInvoiceNumberFromZero(rows) == Len(rows)

\* InvoiceRepository.GenerateInvoiceNumber: SELECT COUNT(*) + 1 over the
\* organization's invoices; the number is the formatted count.
GenerateInvoiceNumber(rows) == Len(rows) + 1

(***************************************************************************)
(* The repositories GenerateInvoice, UpdateSubscription and RecordUsage    *)
(* call.                                                                   *)
(***************************************************************************)
\* SubscriptionRepository.GetByOrganizationID: the organization's row.
SubscriptionsGetByOrganizationID == sub

\* SubscriptionRepository.Update: UPDATE ... SET plan, status, limits, Stripe
\* ids and period WHERE id: every column from the caller's struct.
SubscriptionsUpdate(s) == s

\* InvoiceRepository.Create: INSERT of the draft; nothing is unique but id.
InvoicesCreate(inv) == Append(invoices, inv)

UsageFields == {"actions", "active", "retained"}

NoUsage == [f \in UsageFields |-> 0]

\* UsageRepository.GetSummaryByOrganization: COALESCE(SUM(...), 0) of every
\* counter over the organization's rows in the period.
GetSummaryByOrganization ==
    [f \in UsageFields |-> SumFunctionOnSet([k \in UsageKeys |-> usage[k][f]], UsageKeys)]

\* UsageRepository.Create: INSERT ... ON CONFLICT (organization, namespace,
\* period_start) DO UPDATE SET each counter = its old value + the new one;
\* a row that does not exist yet counts as zeros.
UsageCreate(k, d) == [usage EXCEPT ![k] = [f \in UsageFields |-> @[f] + d[f]]]

NoInvoice == [number |-> 0, plan |-> "none", usage |-> NoUsage,
              sub |-> [plan |-> "none", actions |-> 0, active |-> 0, retained |-> 0],
              items |-> <<>>, subtotal |-> 0]

(***************************************************************************)
(* GenerateInvoice, lines up to the invoice number: GetByOrganizationID,   *)
(* GetSummaryByOrganization, the line items and the subtotal, and the      *)
(* count of the organization's invoices.  The three reads are separate     *)
(* statements; each invoice is checked against what it read, and no other  *)
(* call of the model writes invoices between them except InvoiceCreate,    *)
(* whose interleaving with the count is what InvoiceNumbersUnique is about *)
(* (the count is taken in this step, after the other reads).               *)
(***************************************************************************)
GenerateInvoiceRead(g) ==
    LET s     == SubscriptionsGetByOrganizationID
        u     == GetSummaryByOrganization
        items == CalculateLineItems(s, u)
    IN
    /\ gen[g].phase = "idle"
    /\ gen' = [gen EXCEPT ![g] = [phase |-> "numbered",
                 inv |-> [number |-> GenerateInvoiceNumber(invoices),
                          plan |-> s.plan, usage |-> u, sub |-> s,
                          items |-> items, subtotal |-> Subtotal(items)]]]
    /\ UNCHANGED <<sub, invoices, upd, usage, recorded>>

\* GenerateInvoice, InvoiceRepository.Create: the insert of the draft
\* invoice (total = subtotal).  Nothing in the code makes the number unique.
InvoiceCreate(g) ==
    /\ gen[g].phase = "numbered"
    /\ invoices' = InvoicesCreate(gen[g].inv)
    /\ gen' = [gen EXCEPT ![g].phase = "done"]
    /\ UNCHANGED <<sub, upd, usage, recorded>>

\* RecordUsage: one UsageRepository.Create of a record for namespace k.
RecordUsage ==
    /\ recorded < MaxRecords
    /\ \E k \in UsageKeys, d \in Deltas : usage' = UsageCreate(k, d)
    /\ recorded' = recorded + 1
    /\ UNCHANGED <<sub, invoices, gen, upd>>

\* UpdateSubscription up to its check: GetByOrganizationID, then
\* isValidPlanTransition on what was read; a refused transition returns.
UpdateSubscriptionRead(r) ==
    /\ upd[r].phase = "idle"
    /\ \E to \in Plans :
         LET s == SubscriptionsGetByOrganizationID IN
         upd' = [upd EXCEPT ![r] = [phase |-> IF IsValidPlanTransition(s.plan, to)
                                               THEN "checked" ELSE "refused",
                                    snap |-> s, to |-> to]]
    /\ UNCHANGED <<sub, invoices, gen, usage, recorded>>

\* UpdateSubscription: GetPlanLimits(to) into the struct read, then
\* SubscriptionRepository.Update writes the whole row from it.
UpdateSubscriptionWrite(r) ==
    /\ upd[r].phase = "checked"
    /\ sub' = SubscriptionsUpdate(GetPlanLimits(upd[r].to)
                                   @@ [upd[r].snap EXCEPT !.plan = upd[r].to])
    /\ upd' = [upd EXCEPT ![r].phase = "done"]
    /\ UNCHANGED <<invoices, gen, usage, recorded>>

\* An organization's subscription is created on the free plan with the free
\* limits (CreateOrganization); the usage recorded so far sits in one
\* namespace's row.
Init ==
    /\ sub = [plan |-> "free"] @@ GetPlanLimits("free")
    /\ invoices = <<>>
    /\ gen = [g \in Gens |-> [phase |-> "idle", inv |-> NoInvoice]]
    /\ upd = [r \in Updates |-> [phase |-> "idle", snap |-> sub, to |-> "free"]]
    /\ \E u \in Usages, k0 \in UsageKeys :
         usage = [k \in UsageKeys |-> IF k = k0 THEN u ELSE NoUsage]
    /\ recorded = 0

Next ==
    \/ \E g \in Gens : GenerateInvoiceRead(g) \/ InvoiceCreate(g)
    \/ \E r \in Updates : UpdateSubscriptionRead(r) \/ UpdateSubscriptionWrite(r)
    \/ RecordUsage

Spec == Init /\ [][Next]_vars

-----------------------------------------------------------------------------
(***************************************************************************)
(* The reference: spec.md section 4.5, written as its tables and formulas  *)
(* rather than as the code's switch statements.                            *)
(***************************************************************************)
SpecFee == [free |-> 0, essentials |-> 10000, business |-> 50000,
            enterprise |-> 0, mission_critical |-> 0]

\* The action tiers: overage volume below `below' millions -> `rate' cents
\* per million; 2500 at or above 100M.
SpecTiers == <<[below |-> 5, rate |-> 5000], [below |-> 10, rate |-> 4500],
               [below |-> 20, rate |-> 4000], [below |-> 50, rate |-> 3500],
               [below |-> 100, rate |-> 3000]>>

SpecRate(over) ==
    LET fits == {i \in DOMAIN SpecTiers : over < SpecTiers[i].below * 1000}
    IN  IF fits = {} THEN 2500 ELSE SpecTiers[Min(fits)].rate

PosPart(x) == IF x > 0 THEN x ELSE 0

\* Kind -> amount of the line items spec.md 4.5 emits for subscription s and
\* usage u: a fee item when the fee is positive, an overage item only for
\* a positive overage.
SpecCharges(s, u) ==
    LET over == [actions |-> PosPart(u.actions - s.actions),
                 active_storage |-> PosPart(u.active - s.active * 744),
                 retained_storage |-> PosPart(u.retained - s.retained * 744)]
        amount == [actions |-> (over.actions * SpecRate(over.actions)) \div 1000,
                   active_storage |-> (over.active_storage * 42) \div 10,
                   retained_storage |-> (over.retained_storage * 105) \div 1000]
        kinds == {k \in DOMAIN over : over[k] > 0}
    IN  [k \in kinds |-> amount[k]]
        @@ (IF SpecFee[s.plan] > 0 THEN [plan |-> SpecFee[s.plan]] ELSE <<>>)

ItemKinds == {"plan", "actions", "active_storage", "retained_storage"}

InvoiceRow == [number : Nat, plan : Plans, usage : [UsageFields -> Nat],
               sub : [plan : Plans, actions : Nat, active : Nat, retained : Nat],
               items : Seq([item : ItemKinds, amount : Nat]), subtotal : Nat]

TypeOK ==
    /\ sub \in [plan : Plans, actions : Nat, active : Nat, retained : Nat]
    /\ invoices \in Seq(InvoiceRow)
    /\ \A i \in DOMAIN invoices : invoices[i].number >= 1
    /\ \A g \in Gens : gen[g].phase \in {"idle", "numbered", "done"}
    /\ \A r \in Updates : upd[r].phase \in {"idle", "checked", "refused", "done"}
    /\ usage \in [UsageKeys -> [UsageFields -> Nat]]
    /\ recorded \in 0..MaxRecords

InvoiceNumbersUnique ==
    \A i, j \in DOMAIN invoices : i # j => invoices[i].number # invoices[j].number
=============================================================================
