-------------------------------- MODULE Billing --------------------------------
(***************************************************************************)
(* The subscription of one user and all that writes it: Stripe's webhooks  *)
(* and the reconciliation with Stripe (StripeService.ts), the end of a     *)
(* trial (TrialNotificationService.ts), the app stores (routes/billing.ts),*)
(* the user's own downgrade (routes/trial.ts) and an administrator         *)
(* (routes/admin.ts), each with a database round trip between what it      *)
(* reads and what it writes.                                               *)
(*                                                                         *)
(* A trial's end is known by the Stripe subscription it came from.  Of the *)
(* counted resources only the vaults are modelled.                         *)
(***************************************************************************)
EXTENDS Integers, Sequences, FiniteSets

CONSTANTS Plans, Order, Limits,  \* the plans, PLAN_ORDER, PLAN_LIMITS[..].vaults
          MaxInputs              \* changes at Stripe, requests, and failures

ASSUME PlansAssumption ==
  /\ "free" \in Plans
  /\ Order \in [Plans -> Nat] /\ Limits \in [Plans -> Nat]
  /\ \A p, q \in Plans : Order[p] = Order[q] => p = q
  /\ \A p \in Plans : Order["free"] <= Order[p]
ASSUME BillingBoundAssumption == MaxInputs \in Nat

VARIABLES
  stripe,    \* Stripe's subscriptions of the user, oldest first
  events,    \* the webhook events Stripe has to deliver
  row,       \* the user's row of subscriptions
  linked,    \* it has an apple_original_transaction_id
  used,      \* the user's row of usage_counts for vaults
  processed, \* processedEvents
  walk,      \* the reconciliation under way
  flows,     \* the handlers under way, but for it
  count      \* of inputs

billingVars == <<stripe, events, row, linked, used, processed, walk, flows, count>>

Free == [plan |-> "free", status |-> "active"]
PaidPlans == Plans \ {"free"}
Live == {"active", "trialing"}
Over == {"canceled", "unpaid"}
Idle == [at |-> 0, pc |-> "read", list |-> <<>>]

BillingInit ==
  /\ stripe = <<>> /\ events = {}
  /\ row = [plan |-> "free", status |-> "active", trial |-> 0, expired |-> FALSE]
  /\ linked = FALSE
  /\ processed = {} /\ walk = Idle /\ flows = {}
  /\ count = 0

(***************************************************************************)
(* Stripe.  The plan of a subscription is the one in its metadata, written *)
(* at the checkout.  A change sends one of its events; events are          *)
(* delivered late, again, or never.                                        *)
(***************************************************************************)
Sends(status) ==
  CASE status = "trialing" -> {"checkout"}
    [] status = "active"   -> {"updated", "paid"}
    [] status = "past_due" -> {"updated", "failed"}
    [] status = "unpaid"   -> {"updated"}
    [] status = "canceled" -> {"updated", "deleted"}

Send(s, status) ==
  \E kind \in Sends(status) :
    events' = events \cup {[id |-> count + 1, kind |-> kind,
                            sub |-> s, status |-> status]}

Counted == count < MaxInputs /\ count' = count + 1

\* No subscription comes back from canceled, or to its trial.
Becomes(status) ==
  IF status = "canceled" THEN {}
  ELSE {"active", "past_due", "unpaid", "canceled"} \ {status}

StripeCheckout(plan) ==
  /\ Counted
  /\ stripe' = Append(stripe, [plan |-> plan, status |-> "trialing"])
  /\ Send(Len(stripe) + 1, "trialing")
  /\ UNCHANGED <<row, linked, used, processed, walk, flows>>

StripeChanges(s, status) ==
  /\ Counted
  /\ status \in Becomes(stripe[s].status)
  /\ stripe' = [stripe EXCEPT ![s].status = status]
  /\ Send(s, status)
  /\ UNCHANGED <<row, linked, used, processed, walk, flows>>

(***************************************************************************)
(* updateSubscription(): one statement.  A trial's end comes with the      *)
(* status trialing, from subscription s.                                   *)
(***************************************************************************)
updateSubscription(to, s) ==
  row' = IF to.status = "trialing"
         THEN [plan |-> to.plan, status |-> to.status, trial |-> s, expired |-> FALSE]
         ELSE [row EXCEPT !.plan = to.plan, !.status = to.status]

\* handleDowngrade() only writes the log, unless a resource exceeds its new
\* limit: then it reads a column that vaults does not have, and throws.
handleDowngradeThrows(from, to) == Order[to] < Order[from] /\ used > Limits[to]

(***************************************************************************)
(* Handlers that await the database between their steps.                   *)
(***************************************************************************)
Flow(op, pc, to, s) ==
  [id |-> count + 1, op |-> op, pc |-> pc, to |-> to, sub |-> s,
   from |-> "free"]
Goes(f, pc) == flows' = (flows \ {f}) \cup {[f EXCEPT !.pc = pc]}
Ends(f) == flows' = flows \ {f}

\* handleWebhook(): the event counts as processed before it is.
Plan(e) == stripe[e.sub].plan
Webhook(e) ==
  LET To(plan, status) == [plan |-> plan, status |-> status]
      Over_ == [Flow("webhook", "update", Free, e.sub) EXCEPT !.id = e.id, !.from = Plan(e)]
      Set(to) == {[Flow("webhook", "update", to, e.sub) EXCEPT !.id = e.id]}
  IN CASE e.kind = "checkout" ->  \* retrieves the subscription first
            {[Flow("webhook", "retrieve", To(Plan(e), "active"), e.sub) EXCEPT !.id = e.id]}
       [] e.kind = "paid" -> Set(To(Plan(e), "active"))
       [] e.kind = "failed" -> Set(To(Plan(e), "past_due"))
       [] e.kind = "deleted" -> {Over_}
       [] e.kind = "updated" /\ e.status \in Live -> Set(To(Plan(e), e.status))
       [] e.kind = "updated" /\ e.status \in Over -> {Over_}
       [] OTHER -> {}

Deliver(e) ==
  /\ e \notin processed
  /\ processed' = processed \cup {e}
  /\ flows' = flows \cup Webhook(e)
  /\ UNCHANGED <<stripe, events, row, linked, used, walk, count>>

FlowRetrieves(f) ==
  /\ f.pc = "retrieve"
  /\ flows' = (flows \ {f}) \cup
       {[f EXCEPT !.pc = "update",
                  !.to.status = IF stripe[f.sub].status = "trialing" THEN "trialing" ELSE "active"]}
  /\ UNCHANGED <<stripe, events, row, linked, used, processed, walk, count>>

FlowUpdates(f) ==
  /\ f.pc = "update"
  /\ updateSubscription(f.to, f.sub)
  /\ CASE f.op = "webhook" /\ f.from # "free" -> Goes(f, "downgrade")
       [] f.op = "apple" -> Goes(f, "link")
       [] OTHER -> Ends(f)
  /\ UNCHANGED <<stripe, events, linked, used, processed, walk, count>>

\* Before the update of a confirmed downgrade, after that of a webhook.
FlowDowngrades(f) ==
  /\ f.pc = "downgrade"
  /\ IF f.op = "confirm" /\ ~handleDowngradeThrows(f.from, f.to.plan)
     THEN Goes(f, "update") ELSE Ends(f)
  /\ UNCHANGED <<stripe, events, row, linked, used, processed, walk, count>>

FlowLinks(f) ==
  /\ f.pc = "link" /\ Ends(f)
  /\ linked' = TRUE
  /\ UNCHANGED <<stripe, events, row, used, processed, walk, count>>

(***************************************************************************)
(* Requests: the stores' verify and notification routes, the downgrade the *)
(* user confirms, the extension of a trial, and an administrator's plan.   *)
(***************************************************************************)
Request(f) ==
  /\ Counted
  /\ flows' = flows \cup {f}
  /\ UNCHANGED <<stripe, events, row, linked, used, processed, walk>>

AppleVerify(plan) == Request(Flow("apple", "update", [plan |-> plan, status |-> "active"], 0))
GoogleVerify(plan) == Request(Flow("google", "update", [plan |-> plan, status |-> "active"], 0))
\* The plan is free also for a product the server does not know.
AppleNotifies(plan, status) ==
  /\ linked
  /\ status = "canceled" => plan = "free"
  /\ Request(Flow("notified", "update", [plan |-> plan, status |-> status], 0))

DowngradeConfirm(target) ==
  /\ Order[target] < Order[row.plan]
  /\ Request([Flow("confirm", "downgrade", [plan |-> target, status |-> "active"], 0)
                EXCEPT !.from = row.plan])

extendTrial ==
  /\ row.status = "trialing"
  /\ Counted
  /\ row' = [row EXCEPT !.expired = FALSE]
  /\ UNCHANGED <<stripe, events, linked, used, processed, walk, flows>>

\* PUT /api/admin/user/:id/plan
AdminSetsPlan(plan) ==
  /\ Counted
  /\ row' = [row EXCEPT !.plan = plan]
  /\ UNCHANGED <<stripe, events, linked, used, processed, walk, flows>>

(***************************************************************************)
(* Trials end no earlier here than at Stripe.  The job selects expired     *)
(* trials, sends the notifications, and then writes without looking again. *)
(***************************************************************************)
TrialRunsOut ==
  /\ row.status = "trialing" /\ ~row.expired
  /\ stripe[row.trial].status # "trialing"
  /\ row' = [row EXCEPT !.expired = TRUE]
  /\ UNCHANGED <<stripe, events, linked, used, processed, walk, flows, count>>

TrialJob ==
  /\ row.status = "trialing" /\ row.expired
  /\ \A f \in flows : f.op # "trial"
  /\ flows' = flows \cup {[Flow("trial", "update", Free, 0) EXCEPT !.id = 0]}
  /\ UNCHANGED <<stripe, events, row, linked, used, processed, walk, count>>

(***************************************************************************)
(* reconcileSubscriptions(): the list is Stripe's at the start, newest     *)
(* first; the row is read and then written for each.  The walk is over the *)
(* subscriptions of all users.  Those of the others come between and leave *)
(* this row alone, but one whose handleDowngrade() throws ends the walk.   *)
(***************************************************************************)
Wrong_PlanOnly(s) ==  \* mutant
  CASE s.status \in Live -> row.plan # s.plan
    [] s.status = "past_due" -> row.status # "past_due"
    [] s.status \in Over -> row.plan # "free"

Wrong(s) ==
  CASE s.status \in Live -> row.plan # s.plan \/ row.status # s.status
    [] s.status = "past_due" -> row.status # "past_due"
    [] s.status \in Over -> row.plan # "free"

NextAt(k) == IF k = 1 THEN Idle ELSE [walk EXCEPT !.at = k - 1, !.pc = "read"]

WalkStarts ==
  /\ walk.at = 0 /\ stripe # <<>>
  /\ walk' = [at |-> Len(stripe), pc |-> "read", list |-> stripe]
  /\ UNCHANGED <<stripe, events, row, linked, used, processed, flows, count>>

WalkReads ==
  /\ walk.at > 0 /\ walk.pc = "read"
  /\ walk' = IF Wrong(walk.list[walk.at]) THEN [walk EXCEPT !.pc = "update"]
             ELSE NextAt(walk.at)
  /\ UNCHANGED <<stripe, events, row, linked, used, processed, flows, count>>

WalkUpdates ==
  /\ walk.pc = "update"
  /\ LET s == walk.list[walk.at] IN
       IF s.status \in Over
       THEN updateSubscription(Free, 0) /\ walk' = [walk EXCEPT !.pc = "downgrade"]
       ELSE updateSubscription(s, walk.at) /\ walk' = NextAt(walk.at)
  /\ UNCHANGED <<stripe, events, linked, used, processed, flows, count>>

WalkDowngrades ==
  /\ walk.pc = "downgrade"
  /\ walk' = IF handleDowngradeThrows(walk.list[walk.at].plan, "free") THEN Idle
             ELSE NextAt(walk.at)
  /\ UNCHANGED <<stripe, events, row, linked, used, processed, flows, count>>

Walks == WalkReads \/ WalkUpdates \/ WalkDowngrades

NeighbourThrows ==
  /\ walk.at > 0 /\ walk.pc = "read"
  /\ walk' = Idle
  /\ UNCHANGED <<stripe, events, row, linked, used, processed, flows, count>>

\* The walk has come to the last of the user's subscriptions, and is past it.
WalkGetsThrough == walk.at = 1 /\ walk'.at = 0 /\ Walks

(***************************************************************************)
(* Failures: a statement or a call to Stripe rejects; the process restarts.*)
(***************************************************************************)
FlowFails(f) ==
  /\ Counted /\ Ends(f)
  /\ UNCHANGED <<stripe, events, row, linked, used, processed, walk>>

WalkFails ==
  /\ Counted
  /\ walk.at > 0 /\ walk' = Idle
  /\ UNCHANGED <<stripe, events, row, linked, used, processed, flows>>

BillingRestart ==
  /\ Counted
  /\ processed' = {} /\ walk' = Idle /\ flows' = {}
  /\ UNCHANGED <<stripe, events, row, linked, used>>

External ==
  \/ \E plan \in PaidPlans : StripeCheckout(plan)
  \/ \E s \in DOMAIN stripe, status \in {"active", "past_due", "unpaid", "canceled"} :
       StripeChanges(s, status)
  \/ TrialRunsOut

Requests ==
  \/ \E plan \in PaidPlans : AppleVerify(plan) \/ GoogleVerify(plan)
  \/ \E plan \in Plans, status \in {"active", "past_due", "canceled"} : AppleNotifies(plan, status)
  \/ \E target \in Plans : DowngradeConfirm(target)
  \/ \E plan \in Plans : AdminSetsPlan(plan)
  \/ extendTrial

FlowSteps ==
  \E f \in flows : FlowRetrieves(f) \/ FlowUpdates(f) \/ FlowDowngrades(f) \/ FlowLinks(f)

BillingNext ==
  \/ External \/ Requests
  \/ \E e \in events : Deliver(e)
  \/ TrialJob \/ FlowSteps
  \/ WalkStarts \/ Walks \/ NeighbourThrows
  \/ WalkFails \/ \E f \in flows : FlowFails(f)
=============================================================================
