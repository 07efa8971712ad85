--------------------------- MODULE VaultQuota_proofs ---------------------------
(***************************************************************************)
(* Proofs about VaultQuota: for any plans, limits and number of inputs, a  *)
(* user has no more vaults than the highest limit a request was given.     *)
(***************************************************************************)
EXTENDS VaultQuota, FiniteSetTheorems, TLAPS

\* The reconciliation walks over a list Stripe gave, of subscriptions that are
\* still there, and is beyond its read only at one of them.
WalkWithin ==
  /\ walk.pc # "read" => walk.at > 0
  /\ Len(walk.list) <= Len(stripe)
BillingInv == BillingTypeOK /\ WalkWithin

\* What is still to be made, and to be counted down.
Inserting == {a \in asks : a.pc = "insert"}
Uncounting == {a \in asks : a.pc = "uncount"}

\* The count is never below what there is and what is under way, however many
\* requests failed; so what may be inserted was within its limit with the rest.
QuotaFinite == IsFiniteSet(vaults) /\ IsFiniteSet(asks)
AsksWithinHighest == \A a \in asks : a.limit <= highest
CountCovers ==
  ~overlapped => Cardinality(vaults) + Cardinality(Inserting) + Cardinality(Uncounting) <= used
PromisedWithinLimit ==
  ~overlapped => Cardinality(vaults) + Cardinality(Inserting) <= highest
QuotaInv == QuotaFinite /\ AsksWithinHighest /\ CountCovers /\ PromisedWithinLimit
IInv == TypeOK /\ WalkWithin /\ QuotaInv

(***************************************************************************)
(* Types of the subscription's side.                                       *)
(***************************************************************************)
LEMMA LimitsAreNat ==
  \A p \in Plans : Limits[p] \in Nat /\ Order[p] \in Nat
BY PlansAssumption

\* A list of subscriptions that grows, and one with a status changed.
LEMMA StripeGrows ==
  ASSUME NEW s \in Seq(Subscriptions), NEW x \in Subscriptions
  PROVE  /\ Append(s, x) \in Seq(Subscriptions)
         /\ Len(Append(s, x)) = Len(s) + 1 /\ Len(s) \in Nat
         /\ DOMAIN s \subseteq DOMAIN Append(s, x)
         /\ Len(s) + 1 \in DOMAIN Append(s, x)
OBVIOUS

LEMMA StripeSets ==
  ASSUME NEW s \in Seq(Subscriptions), NEW i \in DOMAIN s, NEW status \in Statuses
  PROVE  /\ [s EXCEPT ![i].status = status] \in Seq(Subscriptions)
         /\ Len([s EXCEPT ![i].status = status]) = Len(s)
         /\ DOMAIN [s EXCEPT ![i].status = status] = DOMAIN s
<1>1. [s EXCEPT ![i].status = status] = [s EXCEPT ![i] = [s[i] EXCEPT !.status = status]]
  OBVIOUS
<1>2. s[i] \in Subscriptions
  OBVIOUS
<1>3. [s[i] EXCEPT !.status = status] \in Subscriptions
  BY <1>2 DEF Subscriptions
<1> QED
  BY <1>1, <1>3

LEMMA CheckoutTypes ==
  ASSUME BillingInv, NEW plan \in PaidPlans, StripeCheckout(plan)
  PROVE  BillingInv'
<1> DEFINE x == [plan |-> plan, status |-> "trialing"]
<1>1. x \in Subscriptions
  BY DEF PaidPlans, Subscriptions, Statuses
<1>2. /\ stripe' = Append(stripe, x) /\ stripe \in Seq(Subscriptions)
      /\ count' = count + 1 /\ count' \in 0..MaxInputs /\ count \in Nat
      /\ UNCHANGED <<row, linked, used, processed, walk, flows>>
  BY BillingBoundAssumption DEF StripeCheckout, Counted, BillingInv, BillingTypeOK
<1>3. /\ stripe' \in Seq(Subscriptions) /\ Len(stripe') = Len(stripe) + 1 /\ Len(stripe) \in Nat
      /\ DOMAIN stripe \subseteq DOMAIN stripe'
      /\ Len(stripe) + 1 \in DOMAIN stripe'
  BY <1>1, <1>2, StripeGrows
<1>4. PICK kind \in Sends("trialing") :
        events' = events \cup {[id |-> count + 1, kind |-> kind,
                                sub |-> Len(stripe) + 1, status |-> "trialing"]}
  BY DEF StripeCheckout, Send
<1>5. kind \in {"checkout", "updated", "paid", "failed", "deleted"}
  BY <1>4 DEF Sends
<1> HIDE DEF x
<1> QED
  BY <1>2, <1>3, <1>4, <1>5 DEF BillingInv, BillingTypeOK, WalkWithin, Statuses

LEMMA ChangeTypes ==
  ASSUME BillingInv, NEW s \in DOMAIN stripe,
         NEW status \in {"active", "past_due", "unpaid", "canceled"}, StripeChanges(s, status)
  PROVE  BillingInv'
<1>1. /\ stripe' = [stripe EXCEPT ![s].status = status] /\ stripe \in Seq(Subscriptions)
      /\ count' = count + 1 /\ count' \in 0..MaxInputs /\ count \in Nat
      /\ UNCHANGED <<row, linked, used, processed, walk, flows>>
  BY BillingBoundAssumption DEF StripeChanges, Counted, BillingInv, BillingTypeOK
<1>2. /\ stripe' \in Seq(Subscriptions) /\ Len(stripe') = Len(stripe)
      /\ DOMAIN stripe' = DOMAIN stripe
  <2>1. status \in Statuses
    BY DEF Statuses
  <2> QED
    BY <1>1, <2>1, StripeSets
<1>3. PICK kind \in Sends(status) :
        events' = events \cup {[id |-> count + 1, kind |-> kind,
                                sub |-> s, status |-> status]}
  BY DEF StripeChanges, Send
<1>4. kind \in {"checkout", "updated", "paid", "failed", "deleted"}
  BY <1>3 DEF Sends
<1> QED
  BY <1>1, <1>2, <1>3, <1>4 DEF BillingInv, BillingTypeOK, WalkWithin, Statuses

\* What the row, the flows and the walk may be while Stripe's list stays.
RowSet == [plan : Plans, status : Statuses \ {"unpaid"},
           trial : {0} \cup DOMAIN stripe, expired : BOOLEAN]
FlowSet == [id : Nat, pc : {"retrieve", "update", "downgrade", "link"},
            op : {"webhook", "apple", "google", "notified", "confirm", "trial"},
            to : [plan : Plans, status : Statuses \ {"unpaid"}],
            sub : {0} \cup DOMAIN stripe, from : Plans]
WalkSet == {w \in [at : Nat, pc : {"read", "update", "downgrade"}, list : Seq(Subscriptions)] :
              /\ w.at <= Len(w.list) /\ Len(w.list) <= Len(stripe)
              /\ w.pc # "read" => w.at > 0}

LEMMA BillingInvSays ==
  ASSUME BillingInv
  PROVE  /\ row \in RowSet /\ flows \subseteq FlowSet /\ walk \in WalkSet
         /\ stripe \in Seq(Subscriptions) /\ Len(stripe) \in Nat
         /\ DOMAIN stripe = 1..Len(stripe)
         /\ \A i \in DOMAIN stripe : stripe[i] \in Subscriptions
         /\ linked \in BOOLEAN /\ processed \subseteq events
         /\ used \in Nat /\ count \in 0..MaxInputs /\ count \in Nat
BY BillingBoundAssumption
   DEF BillingInv, BillingTypeOK, WalkWithin, RowSet, FlowSet, WalkSet

LEMMA WhileStripeStays ==
  ASSUME BillingInv, UNCHANGED <<stripe, events>>,
         row' \in RowSet, flows' \subseteq FlowSet, walk' \in WalkSet,
         linked' \in BOOLEAN, processed' \subseteq events,
         used' \in Nat, count' \in 0..MaxInputs
  PROVE  BillingInv'
BY DEF BillingInv, BillingTypeOK, WalkWithin, RowSet, FlowSet, WalkSet

LEMMA CountedTypes ==
  ASSUME BillingInv, Counted
  PROVE  count' \in 0..MaxInputs /\ count + 1 \in Nat /\ count + 1 \in 1..MaxInputs
BY BillingBoundAssumption DEF BillingInv, BillingTypeOK, Counted

\* updateSubscription() writes the status it was given, and never unpaid.
LEMMA UpdateTypes ==
  ASSUME BillingInv, NEW to, to.plan \in Plans, to.status \in Statuses \ {"unpaid"},
         NEW s \in {0} \cup DOMAIN stripe, updateSubscription(to, s)
  PROVE  row' \in RowSet
<1>1. row \in RowSet
  BY BillingInvSays
<1>2. CASE to.status = "trialing"
  BY <1>2 DEF updateSubscription, RowSet
<1>3. CASE to.status # "trialing"
  <2>1. row' = [row EXCEPT !.plan = to.plan, !.status = to.status]
    BY <1>3 DEF updateSubscription
  <2> QED
    BY <1>1, <2>1 DEF RowSet
<1> QED
  BY <1>2, <1>3

LEMMA TrialTypes ==
  ASSUME BillingInv, TrialRunsOut \/ TrialJob \/ extendTrial
  PROVE  BillingInv'
<1> USE BillingInvSays
<1>1. CASE TrialRunsOut
  <2>1. row' \in RowSet
    BY <1>1 DEF TrialRunsOut, RowSet
  <2> QED
    BY <1>1, <2>1, WhileStripeStays DEF TrialRunsOut
<1>2. CASE TrialJob
  <2> DEFINE f == [Flow("trial", "update", Free, 0) EXCEPT !.id = 0]
  <2>1. f \in FlowSet
    BY PlansAssumption DEF Flow, Free, FlowSet, Statuses
  <2>2. flows' = flows \cup {f} /\ UNCHANGED <<stripe, events, row, linked, used, processed, walk, count>>
    BY <1>2 DEF TrialJob
  <2> HIDE DEF f
  <2> QED
    BY <2>1, <2>2, WhileStripeStays
<1>3. CASE extendTrial
  <2>1. row' \in RowSet
    BY <1>3 DEF extendTrial, RowSet
  <2> QED
    BY <1>3, <2>1, CountedTypes, WhileStripeStays DEF extendTrial
<1> QED
  BY <1>1, <1>2, <1>3

\* A handler of an event starts with a flow that is one.
LEMMA WebhookTypes ==
  ASSUME BillingInv, NEW e \in events
  PROVE  Webhook(e) \subseteq FlowSet
<1>1. /\ e \in [id : Nat, kind : {"checkout", "updated", "paid", "failed", "deleted"},
                sub : DOMAIN stripe, status : Statuses]
      /\ stripe[e.sub] \in Subscriptions
  BY BillingInvSays DEF BillingInv, BillingTypeOK
<1>2. Plan(e) \in Plans
  BY <1>1 DEF Plan, Subscriptions
<1> DEFINE F(to) == [Flow("webhook", "update", to, e.sub) EXCEPT !.id = e.id]
           G(to) == [Flow("webhook", "retrieve", to, e.sub) EXCEPT !.id = e.id]
           H(to) == [Flow("webhook", "update", to, e.sub) EXCEPT !.id = e.id, !.from = Plan(e)]
           T(status) == [plan |-> Plan(e), status |-> status]
<1>3. ASSUME NEW to \in [plan : Plans, status : Statuses \ {"unpaid"}]
      PROVE  F(to) \in FlowSet /\ G(to) \in FlowSet /\ H(to) \in FlowSet
  BY <1>1, <1>2, PlansAssumption DEF Flow, FlowSet
<1>4. /\ Free \in [plan : Plans, status : Statuses \ {"unpaid"}]
      /\ \A status \in Statuses \ {"unpaid"} : T(status) \in [plan : Plans, status : Statuses \ {"unpaid"}]
  BY <1>2, PlansAssumption DEF Free, Statuses
<1>5. {"active", "past_due"} \cup Live \subseteq Statuses \ {"unpaid"}
  BY DEF Live, Statuses
<1>6. \/ Webhook(e) = {G(T("active"))} \/ Webhook(e) = {F(T("active"))}
      \/ Webhook(e) = {F(T("past_due"))} \/ Webhook(e) = {H(Free)} \/ Webhook(e) = {}
      \/ e.status \in Live /\ Webhook(e) = {F(T(e.status))}
  <2>1. CASE e.kind = "checkout"
    BY <2>1 DEF Webhook
  <2>2. CASE e.kind = "paid"
    BY <2>2 DEF Webhook
  <2>3. CASE e.kind = "failed"
    BY <2>3 DEF Webhook
  <2>4. CASE e.kind = "deleted"
    BY <2>4 DEF Webhook
  <2>5. CASE e.kind = "updated" /\ e.status \in Live
    BY <2>5 DEF Webhook
  <2>6. CASE e.kind = "updated" /\ e.status \notin Live /\ e.status \in Over
    BY <2>6 DEF Webhook
  <2>7. CASE e.kind = "updated" /\ e.status \notin Live /\ e.status \notin Over
    BY <2>7 DEF Webhook
  <2> QED
    BY <1>1, <2>1, <2>2, <2>3, <2>4, <2>5, <2>6, <2>7
<1> HIDE DEF F, G, H, T
<1> QED
  BY <1>3, <1>4, <1>5, <1>6

LEMMA DeliverTypes ==
  ASSUME BillingInv, NEW e \in events, Deliver(e)
  PROVE  BillingInv'
<1>1. /\ processed' = processed \cup {e} /\ flows' = flows \cup Webhook(e)
      /\ UNCHANGED <<stripe, events, row, linked, used, walk, count>>
  BY DEF Deliver
<1> QED
  BY <1>1, BillingInvSays, WebhookTypes, WhileStripeStays

(***************************************************************************)
(* The flows.                                                              *)
(***************************************************************************)
LEMMA FlowTypes ==
  ASSUME BillingInv, NEW f \in flows,
         \/ FlowRetrieves(f) \/ FlowUpdates(f) \/ FlowDowngrades(f)
         \/ FlowLinks(f) \/ FlowFails(f)
  PROVE  BillingInv'
<1> USE BillingInvSays
<1>1. f \in FlowSet
  OBVIOUS
<1>2. ASSUME NEW pc \in {"retrieve", "update", "downgrade", "link"}
      PROVE  [f EXCEPT !.pc = pc] \in FlowSet
  BY <1>1 DEF FlowSet
<1>3. CASE FlowRetrieves(f)
  <2> DEFINE g == [f EXCEPT !.pc = "update",
                            !.to.status = IF stripe[f.sub].status = "trialing" THEN "trialing" ELSE "active"]
  <2>1. g \in FlowSet
    BY <1>1 DEF FlowSet, Statuses
  <2>2. flows' = (flows \ {f}) \cup {g}
        /\ UNCHANGED <<stripe, events, row, linked, used, processed, walk, count>>
    BY <1>3 DEF FlowRetrieves
  <2> HIDE DEF g
  <2> QED
    BY <2>1, <2>2, WhileStripeStays
<1>4. CASE FlowUpdates(f)
  <2>1. row' \in RowSet
    BY <1>1, <1>4, UpdateTypes DEF FlowUpdates, FlowSet
  <2>2. flows' \subseteq FlowSet
    BY <1>2, <1>4 DEF FlowUpdates, Goes, Ends
  <2> QED
    BY <1>4, <2>1, <2>2, WhileStripeStays DEF FlowUpdates
<1>5. CASE FlowDowngrades(f)
  <2>1. flows' \subseteq FlowSet
    BY <1>2, <1>5 DEF FlowDowngrades, Goes, Ends
  <2> QED
    BY <1>5, <2>1, WhileStripeStays DEF FlowDowngrades
<1>6. CASE FlowLinks(f)
  BY <1>6, WhileStripeStays DEF FlowLinks, Ends
<1>7. CASE FlowFails(f)
  BY <1>7, CountedTypes, WhileStripeStays DEF FlowFails, Ends
<1> QED
  BY <1>3, <1>4, <1>5, <1>6, <1>7

\* A request adds a flow.
LEMMA RequestTypes ==
  ASSUME BillingInv, NEW f \in FlowSet, Request(f)
  PROVE  BillingInv'
BY BillingInvSays, CountedTypes, WhileStripeStays DEF Request

LEMMA RequestsTypes ==
  ASSUME BillingInv, Requests
  PROVE  BillingInv'
<1>1. ASSUME NEW op \in {"apple", "google", "notified"}, NEW plan \in Plans,
             NEW status \in {"active", "past_due", "canceled"},
             Request(Flow(op, "update", [plan |-> plan, status |-> status], 0))
      PROVE  BillingInv'
  <2>1. Flow(op, "update", [plan |-> plan, status |-> status], 0) \in FlowSet
    BY BillingInvSays, PlansAssumption DEF Flow, FlowSet, Statuses
  <2> QED
    BY <1>1, <2>1, RequestTypes
<1>2. ASSUME NEW plan \in PaidPlans, AppleVerify(plan) \/ GoogleVerify(plan)
      PROVE  BillingInv'
  BY <1>1, <1>2 DEF AppleVerify, GoogleVerify, PaidPlans
<1>3. ASSUME NEW plan \in Plans, NEW status \in {"active", "past_due", "canceled"},
             AppleNotifies(plan, status)
      PROVE  BillingInv'
  BY <1>1, <1>3 DEF AppleNotifies
<1>4. ASSUME NEW target \in Plans, DowngradeConfirm(target)
      PROVE  BillingInv'
  <2> DEFINE f == [Flow("confirm", "downgrade", [plan |-> target, status |-> "active"], 0)
                     EXCEPT !.from = row.plan]
  <2>1. row.plan \in Plans
    BY BillingInvSays DEF RowSet
  <2>2. f \in FlowSet
    <3>1. f = [id |-> count + 1, op |-> "confirm", pc |-> "downgrade",
               to |-> [plan |-> target, status |-> "active"], sub |-> 0, from |-> row.plan]
      BY DEF Flow
    <3>2. [plan |-> target, status |-> "active"] \in [plan : Plans, status : Statuses \ {"unpaid"}]
      BY DEF Statuses
    <3> QED
      BY <2>1, <3>1, <3>2, BillingInvSays DEF FlowSet
  <2>3. Request(f)
    BY <1>4 DEF DowngradeConfirm
  <2> HIDE DEF f
  <2> QED
    BY <2>2, <2>3, RequestTypes
<1>5. extendTrial => BillingInv'
  BY TrialTypes
<1>6. ASSUME NEW plan \in Plans, AdminSetsPlan(plan)
      PROVE  BillingInv'
  <2>1. row' \in RowSet
    BY <1>6, BillingInvSays DEF AdminSetsPlan, RowSet
  <2> QED
    BY <1>6, <2>1, BillingInvSays, CountedTypes, WhileStripeStays DEF AdminSetsPlan
<1> QED
  BY <1>2, <1>3, <1>4, <1>5, <1>6 DEF Requests

(***************************************************************************)
(* The reconciliation, and a restart.                                      *)
(***************************************************************************)
LEMMA NextWalk ==
  ASSUME NEW Pcs, NEW Lists, NEW w \in [at : Nat, pc : Pcs, list : Lists],
         NEW k \in Nat, NEW pc \in Pcs
  PROVE  /\ [w EXCEPT !.at = k, !.pc = pc] \in [at : Nat, pc : Pcs, list : Lists]
         /\ [w EXCEPT !.at = k, !.pc = pc].at = k
         /\ [w EXCEPT !.at = k, !.pc = pc].pc = pc
         /\ [w EXCEPT !.at = k, !.pc = pc].list = w.list
OBVIOUS

LEMMA WalkTypes ==
  ASSUME BillingInv, WalkStarts \/ Walks \/ NeighbourThrows \/ WalkFails
  PROVE  BillingInv'
<1> USE BillingInvSays
<1>1. Idle \in WalkSet
  BY DEF Idle, WalkSet
<1>2. ASSUME walk.at > 0
      PROVE  /\ NextAt(walk.at) \in WalkSet
             /\ [walk EXCEPT !.pc = "update"] \in WalkSet
             /\ [walk EXCEPT !.pc = "downgrade"] \in WalkSet
             /\ walk.at \in DOMAIN stripe /\ walk.list[walk.at] \in Subscriptions
  <2>1. /\ walk.at \in Nat /\ walk.list \in Seq(Subscriptions) /\ Len(walk.list) \in Nat
        /\ walk.at \in 1..Len(walk.list) /\ walk.at \in 1..Len(stripe)
    BY <1>2 DEF WalkSet
  <2>2. ASSUME walk.at # 1
        PROVE  [walk EXCEPT !.at = walk.at - 1, !.pc = "read"] \in WalkSet
    <3> DEFINE w == [walk EXCEPT !.at = walk.at - 1, !.pc = "read"]
    <3>1. /\ walk \in [at : Nat, pc : {"read", "update", "downgrade"}, list : Seq(Subscriptions)]
          /\ Len(walk.list) <= Len(stripe)
      BY DEF WalkSet
    <3>2. walk.at - 1 \in Nat /\ walk.at - 1 <= Len(walk.list)
      BY <2>1, <2>2
    <3>3. /\ w \in [at : Nat, pc : {"read", "update", "downgrade"}, list : Seq(Subscriptions)]
          /\ w.at = walk.at - 1 /\ w.pc = "read" /\ w.list = walk.list
      BY <3>1, <3>2, NextWalk
    <3> HIDE DEF w
    <3> QED
      BY <3>1, <3>2, <3>3 DEF WalkSet
  <2>3. NextAt(walk.at) \in WalkSet
    BY <1>1, <2>1, <2>2 DEF NextAt
  <2>4. [walk EXCEPT !.pc = "update"] \in WalkSet
    BY <1>2 DEF WalkSet
  <2>5. [walk EXCEPT !.pc = "downgrade"] \in WalkSet
    BY <1>2 DEF WalkSet
  <2>6. walk.at \in DOMAIN stripe /\ walk.list[walk.at] \in Subscriptions
    BY <2>1
  <2> QED
    BY <2>3, <2>4, <2>5, <2>6
<1>3. walk.pc # "read" => walk.at > 0
  BY DEF WalkSet
<1>4. CASE WalkStarts
  <2>1. walk' \in WalkSet
    BY <1>4 DEF WalkStarts, WalkSet
  <2> QED
    BY <1>4, <2>1, WhileStripeStays DEF WalkStarts
<1>5. CASE WalkReads
  <2>1. walk' \in WalkSet
    BY <1>2, <1>5 DEF WalkReads
  <2> QED
    BY <1>5, <2>1, WhileStripeStays DEF WalkReads
<1>6. CASE WalkUpdates
  <2> DEFINE s == walk.list[walk.at]
  <2>1. walk.at > 0 /\ walk' \in WalkSet /\ s \in Subscriptions
    BY <1>2, <1>3, <1>6 DEF WalkUpdates
  <2>2. CASE s.status \in Over
    <3>1. updateSubscription(Free, 0)
      BY <1>6, <2>2 DEF WalkUpdates
    <3>2. Free.plan \in Plans /\ Free.status \in Statuses \ {"unpaid"}
      BY PlansAssumption DEF Free, Statuses
    <3> QED
      BY <1>6, <2>1, <3>1, <3>2, UpdateTypes, WhileStripeStays DEF WalkUpdates
  <2>3. CASE s.status \notin Over
    <3>1. updateSubscription(s, walk.at)
      BY <1>6, <2>3 DEF WalkUpdates
    <3>2. s.plan \in Plans /\ s.status \in Statuses \ {"unpaid"}
      BY <2>1, <2>3 DEF Subscriptions, Over, Statuses
    <3>3. row' \in RowSet
      BY <1>2, <2>1, <3>1, <3>2, UpdateTypes
    <3> QED
      BY <1>6, <2>1, <3>3, WhileStripeStays DEF WalkUpdates
  <2> QED
    BY <2>2, <2>3
<1>7. CASE WalkDowngrades
  <2>1. walk' \in WalkSet
    BY <1>1, <1>2, <1>3, <1>7 DEF WalkDowngrades
  <2> QED
    BY <1>7, <2>1, WhileStripeStays DEF WalkDowngrades
<1>8. CASE WalkFails
  BY <1>1, <1>8, CountedTypes, WhileStripeStays DEF WalkFails
<1>9. CASE NeighbourThrows
  BY <1>1, <1>9, WhileStripeStays DEF NeighbourThrows
<1> QED
  BY <1>4, <1>5, <1>6, <1>7, <1>8, <1>9 DEF Walks

LEMMA RestartTypes ==
  ASSUME BillingInv, BillingRestart
  PROVE  BillingInv'
<1>1. Idle \in WalkSet
  BY BillingInvSays DEF Idle, WalkSet
<1> QED
  BY <1>1, BillingInvSays, CountedTypes, WhileStripeStays DEF BillingRestart

\* Every step of the subscription's side keeps its types.
LEMMA BillingStepTypes ==
  ASSUME BillingInv, BillingNext
  PROVE  BillingInv'
<1>1. External => BillingInv'
  BY CheckoutTypes, ChangeTypes, TrialTypes DEF External
<1>2. FlowSteps => BillingInv'
  BY FlowTypes DEF FlowSteps
<1> QED
  BY <1>1, <1>2, RequestsTypes, DeliverTypes, TrialTypes, WalkTypes, FlowTypes DEF BillingNext

(***************************************************************************)
(* Counting.                                                               *)
(***************************************************************************)
\* A request that goes on, or is answered, among those that wait for a step.
At(S, pc) == {a \in S : a.pc = pc}

LEMMA AtFinite ==
  ASSUME NEW S, IsFiniteSet(S), NEW pc
  PROVE  IsFiniteSet(At(S, pc)) /\ Cardinality(At(S, pc)) \in Nat
<1>1. At(S, pc) \in SUBSET S
  BY DEF At
<1> QED
  BY <1>1, FS_Subset, FS_CardinalityType

LEMMA AtRemove ==
  ASSUME NEW S, IsFiniteSet(S), NEW a \in S, NEW pc
  PROVE  /\ IsFiniteSet(S \ {a})
         /\ Cardinality(At(S \ {a}, pc)) =
              IF a.pc = pc THEN Cardinality(At(S, pc)) - 1 ELSE Cardinality(At(S, pc))
<1>1. At(S \ {a}, pc) = At(S, pc) \ {a} /\ (a \in At(S, pc) <=> a.pc = pc)
  BY DEF At
<1> QED
  BY <1>1, AtFinite, FS_RemoveElement

LEMMA AtAdd ==
  ASSUME NEW S, IsFiniteSet(S), NEW b, NEW pc
  PROVE  /\ IsFiniteSet(S \cup {b})
         /\ b.pc # pc => Cardinality(At(S \cup {b}, pc)) = Cardinality(At(S, pc))
         /\ b.pc = pc => Cardinality(At(S \cup {b}, pc)) <= Cardinality(At(S, pc)) + 1
<1>1. CASE b.pc # pc
  <2>1. At(S \cup {b}, pc) = At(S, pc)
    BY <1>1 DEF At
  <2> QED
    BY <1>1, <2>1, FS_AddElement
<1>2. CASE b.pc = pc
  <2>1. At(S \cup {b}, pc) = At(S, pc) \cup {b}
    BY <1>2 DEF At
  <2>2. Cardinality(At(S, pc)) \in Nat /\ IsFiniteSet(At(S, pc))
    BY AtFinite
  <2>3. Cardinality(At(S \cup {b}, pc)) =
          IF b \in At(S, pc) THEN Cardinality(At(S, pc)) ELSE Cardinality(At(S, pc)) + 1
    BY <2>1, <2>2, FS_AddElement
  <2>4. Cardinality(At(S \cup {b}, pc)) <= Cardinality(At(S, pc)) + 1
    <3> DEFINE n == Cardinality(At(S, pc))
    <3> HIDE DEF n
    <3> QED
      BY <2>2, <2>3 DEF n
  <2> QED
    BY <1>2, <2>4, FS_AddElement
<1> QED
  BY <1>1, <1>2

\* The counts as numbers: made, to be made, and to be counted down.
Made == Cardinality(vaults)
ToMake == Cardinality(At(asks, "insert"))
ToUncount == Cardinality(At(asks, "uncount"))

LEMMA QuotaCounts ==
  ASSUME QuotaFinite
  PROVE  /\ Made \in Nat /\ ToMake \in Nat /\ ToUncount \in Nat
         /\ Made = Cardinality(vaults)
         /\ ToMake = Cardinality(Inserting) /\ ToUncount = Cardinality(Uncounting)
BY AtFinite, FS_CardinalityType
   DEF QuotaFinite, Made, ToMake, ToUncount, At, Inserting, Uncounting

LEMMA QuotaInvSays ==
  QuotaInv <=> /\ QuotaFinite /\ AsksWithinHighest
               /\ ~overlapped => Made + ToMake + ToUncount <= used
               /\ ~overlapped => Made + ToMake <= highest
BY DEF QuotaInv, CountCovers, PromisedWithinLimit, Made, ToMake, ToUncount, At,
       Inserting, Uncounting

\* What To(a, pc) and Answers(a) do to the counts.
LEMMA MoveCounts ==
  ASSUME TypeOK, QuotaFinite, NEW a \in asks, a.pc = "read",
         NEW pc \in {"insert", "uncount"}, To(a, pc)
  PROVE  /\ IsFiniteSet(asks')
         /\ ToMake' \in Nat /\ ToUncount' \in Nat
         /\ pc = "insert" => ToMake' <= ToMake + 1 /\ ToUncount' = ToUncount
         /\ pc = "uncount" => ToMake' = ToMake /\ ToUncount' <= ToUncount + 1
<1> DEFINE b == [a EXCEPT !.pc = pc]
           R == asks \ {a}
<1>1. asks' = R \cup {b} /\ b.pc = pc
  BY DEF To, TypeOK
<1>2. IsFiniteSet(asks)
  BY DEF QuotaFinite
<1>3. /\ IsFiniteSet(R)
      /\ Cardinality(At(R, "insert")) = ToMake /\ Cardinality(At(R, "uncount")) = ToUncount
  BY <1>2, AtRemove DEF ToMake, ToUncount
<1> HIDE DEF b, R
<1>4. /\ IsFiniteSet(asks')
      /\ pc = "insert" => /\ Cardinality(At(asks', "insert")) <= Cardinality(At(R, "insert")) + 1
                          /\ Cardinality(At(asks', "uncount")) = Cardinality(At(R, "uncount"))
      /\ pc = "uncount" => /\ Cardinality(At(asks', "uncount")) <= Cardinality(At(R, "uncount")) + 1
                           /\ Cardinality(At(asks', "insert")) = Cardinality(At(R, "insert"))
  BY <1>1, <1>3, AtAdd
<1> QED
  BY <1>3, <1>4, AtFinite DEF ToMake, ToUncount

LEMMA AnswerCounts ==
  ASSUME QuotaFinite, NEW a \in asks, Answers(a)
  PROVE  /\ IsFiniteSet(asks')
         /\ ToMake' \in Nat /\ ToUncount' \in Nat
         /\ ToMake' = IF a.pc = "insert" THEN ToMake - 1 ELSE ToMake
         /\ ToUncount' = IF a.pc = "uncount" THEN ToUncount - 1 ELSE ToUncount
BY AtRemove, AtFinite DEF QuotaFinite, Answers, ToMake, ToUncount

(***************************************************************************)
(* The requests about vaults.                                              *)
(***************************************************************************)
AskSet == [id : 1..MaxInputs, op : {"create", "delete"},
           pc : {"read", "insert", "uncount"}, limit : Nat, vault : 0..MaxInputs]

\* The types of this side, while the other's stay.
LEMMA QuotaTypes ==
  ASSUME IInv, UNCHANGED <<stripe, events, row, linked, processed, walk, flows>>,
         used' \in Nat, count' \in 0..MaxInputs,
         vaults' \subseteq 0..MaxInputs, asks' \subseteq AskSet,
         highest' \in Nat, overlapped' \in BOOLEAN
  PROVE  TypeOK' /\ WalkWithin'
<1>1. BillingInv
  BY DEF IInv, TypeOK, BillingInv
<1>2. BillingInv'
  BY <1>1, BillingInvSays, WhileStripeStays
<1> QED
  BY <1>2 DEF BillingInv, TypeOK, AskSet

LEMMA IInvSays ==
  ASSUME IInv
  PROVE  /\ BillingInv /\ QuotaFinite /\ TypeOK
         /\ asks \subseteq AskSet /\ vaults \subseteq 0..MaxInputs
         /\ used \in Nat /\ highest \in Nat /\ overlapped \in BOOLEAN
         /\ count \in 0..MaxInputs /\ count \in Nat /\ MaxInputs \in Nat
         /\ Made \in Nat /\ ToMake \in Nat /\ ToUncount \in Nat
BY BillingBoundAssumption, QuotaCounts
   DEF IInv, QuotaInv, TypeOK, BillingTypeOK, BillingInv, AskSet

LEMMA IInvFollows ==
  ASSUME TypeOK', WalkWithin', QuotaFinite', AsksWithinHighest',
         ~overlapped' => Made' + ToMake' + ToUncount' <= used',
         ~overlapped' => Made' + ToMake' <= highest'
  PROVE  IInv'
BY DEF IInv, QuotaInv, CountCovers, PromisedWithinLimit, Made, ToMake, ToUncount, At,
       Inserting, Uncounting

\* A new request makes nothing yet, and the highest limit covers its own.
LEMMA AsksKeeps ==
  ASSUME IInv, NEW op \in {"create", "delete"}, NEW limit \in Nat, NEW v \in 0..MaxInputs,
         Asks(op, limit, v), highest' \in Nat, highest <= highest', limit <= highest'
  PROVE  IInv'
<1> DEFINE b == [id |-> count + 1, op |-> op, pc |-> "read", limit |-> limit, vault |-> v]
<1> USE IInvSays
<1>1. /\ asks' = asks \cup {b} /\ count' \in 0..MaxInputs
      /\ UNCHANGED <<stripe, events, row, linked, used, processed, walk, flows, vaults, overlapped>>
  BY CountedTypes DEF Asks
<1>2. b \in AskSet /\ b.pc = "read" /\ b.limit = limit
  BY CountedTypes DEF Asks, AskSet
<1> HIDE DEF b
<1>3. TypeOK' /\ WalkWithin'
  BY <1>1, <1>2, QuotaTypes
<1>4. QuotaFinite' /\ ToMake' = ToMake /\ ToUncount' = ToUncount /\ Made' = Made
  <2>1. IsFiniteSet(asks)
    BY DEF QuotaFinite
  <2>2. /\ IsFiniteSet(asks \cup {b})
        /\ Cardinality(At(asks \cup {b}, "insert")) = Cardinality(At(asks, "insert"))
        /\ Cardinality(At(asks \cup {b}, "uncount")) = Cardinality(At(asks, "uncount"))
    BY <1>2, <2>1, AtAdd
  <2> QED
    BY <1>1, <2>2 DEF QuotaFinite, ToMake, ToUncount, Made
<1>5. AsksWithinHighest'
  <2>1. ASSUME NEW a \in asks
        PROVE  a.limit <= highest'
    BY DEF IInv, QuotaInv, AsksWithinHighest, AskSet
  <2> QED
    BY <1>1, <1>2, <2>1 DEF AsksWithinHighest
<1>6. /\ ~overlapped' => Made' + ToMake' + ToUncount' <= used'
      /\ ~overlapped' => Made' + ToMake' <= highest'
  BY <1>1, <1>4, QuotaInvSays DEF IInv
<1> QED
  BY <1>3, <1>4, <1>5, <1>6, IInvFollows

\* A request that keeps its limit.
LEMMA MoveTypes ==
  ASSUME IInv, NEW a \in asks, NEW pc \in {"insert", "uncount"},
         To(a, pc) \/ Answers(a), UNCHANGED highest
  PROVE  asks' \subseteq AskSet /\ AsksWithinHighest'
<1>1. asks \subseteq AskSet /\ \A b \in asks : b.limit <= highest
  BY IInvSays DEF IInv, QuotaInv, AsksWithinHighest
<1>2. [a EXCEPT !.pc = pc] \in AskSet /\ [a EXCEPT !.pc = pc].limit = a.limit
  BY <1>1 DEF AskSet
<1>3. asks' \subseteq asks \cup {[a EXCEPT !.pc = pc]}
  BY DEF To, Answers
<1> QED
  BY <1>1, <1>2, <1>3 DEF AsksWithinHighest

\* What is counted, and to be inserted, was within the limit with all the rest.
LEMMA IncrementKeeps ==
  ASSUME IInv, NEW a \in asks, incrementUsage(a)
  PROVE  IInv'
<1> USE IInvSays
<1>1. /\ a.pc = "read" /\ used' = used + 1
      /\ UNCHANGED <<stripe, events, row, linked, processed, walk, flows, count, highest, vaults, overlapped>>
  BY DEF incrementUsage, UsesOnly
<1>2. a.limit \in Nat /\ a.limit <= highest
  BY DEF AskSet, IInv, QuotaInv, AsksWithinHighest
<1>3. PICK pc \in {"insert", "uncount"} : To(a, pc) /\ (pc = "insert" => used' <= a.limit)
  <2>1. CASE used' > a.limit
    BY <2>1 DEF incrementUsage
  <2>2. CASE ~(used' > a.limit)
    BY <1>1, <1>2, <2>2 DEF incrementUsage
  <2> QED
    BY <2>1, <2>2
<1>4. asks' \subseteq AskSet /\ AsksWithinHighest'
  BY <1>1, <1>3, MoveTypes
<1>5. TypeOK' /\ WalkWithin'
  BY <1>1, <1>4, QuotaTypes
<1>6. /\ IsFiniteSet(asks')
      /\ ToMake' \in Nat /\ ToUncount' \in Nat
      /\ pc = "insert" => ToMake' <= ToMake + 1 /\ ToUncount' = ToUncount
      /\ pc = "uncount" => ToMake' = ToMake /\ ToUncount' <= ToUncount + 1
  BY <1>1, <1>3, MoveCounts
<1>7. QuotaFinite' /\ Made' = Made
  BY <1>1, <1>6 DEF QuotaFinite, Made
<1>8. /\ ~overlapped => Made + ToMake + ToUncount <= used
      /\ ~overlapped => Made + ToMake <= highest
  BY QuotaInvSays DEF IInv
<1>9. ~overlapped' => Made' + ToMake' + ToUncount' <= used'
  BY <1>1, <1>3, <1>6, <1>7, <1>8
<1>10. ~overlapped' => Made' + ToMake' <= highest'
  <2>1. CASE pc = "insert"
    BY <1>1, <1>2, <1>3, <1>6, <1>7, <1>9, <2>1
  <2>2. CASE pc = "uncount"
    BY <1>1, <1>6, <1>7, <1>8, <2>2
  <2> QED
    BY <2>1, <2>2
<1> QED
  BY <1>4, <1>5, <1>7, <1>9, <1>10, IInvFollows

\* A vault is made of one that was to be made.
LEMMA CreateKeeps ==
  ASSUME IInv, NEW a \in asks, createVault(a)
  PROVE  IInv'
<1> USE IInvSays
<1>1. /\ a.pc = "insert" /\ Answers(a) /\ vaults' = vaults \cup {a.id}
      /\ UNCHANGED <<stripe, events, row, linked, processed, walk, flows, count, highest, used, overlapped>>
  BY DEF createVault, UsesOnly
<1>2. asks' \subseteq AskSet /\ AsksWithinHighest'
  BY <1>1, MoveTypes
<1>3. vaults' \subseteq 0..MaxInputs
  BY <1>1 DEF AskSet
<1>4. TypeOK' /\ WalkWithin'
  BY <1>1, <1>2, <1>3, QuotaTypes
<1>5. /\ IsFiniteSet(asks') /\ ToMake' \in Nat /\ ToUncount' \in Nat
      /\ ToMake' = ToMake - 1 /\ ToUncount' = ToUncount
  BY <1>1, AnswerCounts
<1>6. IsFiniteSet(vaults') /\ Made' \in Nat /\ Made' <= Made + 1
  <2>1. /\ IsFiniteSet(vaults')
        /\ Cardinality(vaults') =
             IF a.id \in vaults THEN Cardinality(vaults) ELSE Cardinality(vaults) + 1
    BY <1>1, FS_AddElement DEF QuotaFinite
  <2>2. CASE a.id \in vaults
    BY <2>1, <2>2 DEF Made
  <2>3. CASE a.id \notin vaults
    BY <2>1, <2>3 DEF Made
  <2> QED
    BY <2>1, <2>2, <2>3
<1>7. /\ ~overlapped => Made + ToMake + ToUncount <= used
      /\ ~overlapped => Made + ToMake <= highest
  BY QuotaInvSays DEF IInv
<1>8. /\ ~overlapped' => Made' + ToMake' + ToUncount' <= used'
      /\ ~overlapped' => Made' + ToMake' <= highest'
  BY <1>1, <1>5, <1>6, <1>7
<1> QED
  BY <1>2, <1>4, <1>5, <1>6, <1>8, IInvFollows DEF QuotaFinite

\* A vault that goes becomes one to be counted down, when it was there.
LEMMA DeleteKeeps ==
  ASSUME IInv, NEW a \in asks, deleteVault(a)
  PROVE  IInv'
<1> USE IInvSays
<1>1. /\ a.pc = "read" /\ To(a, "uncount") /\ vaults' = vaults \ {a.vault}
      /\ overlapped' = (overlapped \/ a.vault \notin vaults)
      /\ UNCHANGED <<stripe, events, row, linked, processed, walk, flows, count, highest, used>>
  BY DEF deleteVault, UsesOnly
<1>2. asks' \subseteq AskSet /\ AsksWithinHighest'
  BY <1>1, MoveTypes
<1>3. TypeOK' /\ WalkWithin'
  BY <1>1, <1>2, QuotaTypes
<1>4. /\ IsFiniteSet(asks') /\ ToMake' \in Nat /\ ToUncount' \in Nat
      /\ ToMake' = ToMake /\ ToUncount' <= ToUncount + 1
  BY <1>1, MoveCounts
<1>5. /\ IsFiniteSet(vaults')
      /\ Cardinality(vaults') =
           IF a.vault \in vaults THEN Cardinality(vaults) - 1 ELSE Cardinality(vaults)
  BY <1>1, FS_RemoveElement DEF QuotaFinite
<1>6. ~overlapped' => ~overlapped /\ Made' = Made - 1
  BY <1>1, <1>5 DEF Made
<1>7. /\ ~overlapped => Made + ToMake + ToUncount <= used
      /\ ~overlapped => Made + ToMake <= highest
  BY QuotaInvSays DEF IInv
<1>8. /\ ~overlapped' => Made' + ToMake' + ToUncount' <= used'
      /\ ~overlapped' => Made' + ToMake' <= highest'
  BY <1>1, <1>4, <1>6, <1>7
<1> QED
  BY <1>2, <1>3, <1>4, <1>5, <1>8, IInvFollows DEF QuotaFinite

\* The count goes down for one that was to be counted down, and is not 0 then.
LEMMA DecrementKeeps ==
  ASSUME IInv, NEW a \in asks, decrementUsage(a)
  PROVE  IInv'
<1> USE IInvSays
<1>1. /\ a.pc = "uncount" /\ Answers(a)
      /\ used' = IF used > 0 THEN used - 1 ELSE 0
      /\ UNCHANGED <<stripe, events, row, linked, processed, walk, flows, count, highest, vaults, overlapped>>
  BY DEF decrementUsage, UsesOnly
<1>2. asks' \subseteq AskSet /\ AsksWithinHighest'
  BY <1>1, MoveTypes
<1>3. used' \in Nat /\ used' >= used - 1
  BY <1>1
<1>4. TypeOK' /\ WalkWithin'
  BY <1>1, <1>2, <1>3, QuotaTypes
<1>5. /\ IsFiniteSet(asks') /\ ToMake' \in Nat /\ ToUncount' \in Nat
      /\ ToMake' = ToMake /\ ToUncount' = ToUncount - 1
  BY <1>1, AnswerCounts
<1>6. QuotaFinite' /\ Made' = Made
  BY <1>1, <1>5 DEF QuotaFinite, Made
<1>7. /\ ~overlapped => Made + ToMake + ToUncount <= used
      /\ ~overlapped => Made + ToMake <= highest
  BY QuotaInvSays DEF IInv
<1>8. /\ ~overlapped' => Made' + ToMake' + ToUncount' <= used'
      /\ ~overlapped' => Made' + ToMake' <= highest'
  BY <1>1, <1>3, <1>5, <1>6, <1>7
<1> QED
  BY <1>2, <1>4, <1>6, <1>8, IInvFollows

\* A request that fails leaves the count as it is, so too high.
LEMMA AskFailsKeeps ==
  ASSUME IInv, NEW a \in asks, AskFails(a)
  PROVE  IInv'
<1> USE IInvSays
<1>1. /\ Answers(a) /\ count' \in 0..MaxInputs
      /\ UNCHANGED <<stripe, events, row, linked, used, processed, walk, flows, vaults, highest, overlapped>>
  BY CountedTypes DEF AskFails
<1>2. asks' \subseteq AskSet /\ AsksWithinHighest'
  BY <1>1, MoveTypes
<1>3. TypeOK' /\ WalkWithin'
  BY <1>1, <1>2, QuotaTypes
<1>4. /\ IsFiniteSet(asks') /\ ToMake' \in Nat /\ ToUncount' \in Nat
      /\ ToMake' <= ToMake /\ ToUncount' <= ToUncount
  BY <1>1, AnswerCounts
<1>5. QuotaFinite' /\ Made' = Made
  BY <1>1, <1>4 DEF QuotaFinite, Made
<1>6. /\ ~overlapped => Made + ToMake + ToUncount <= used
      /\ ~overlapped => Made + ToMake <= highest
  BY QuotaInvSays DEF IInv
<1>7. /\ ~overlapped' => Made' + ToMake' + ToUncount' <= used'
      /\ ~overlapped' => Made' + ToMake' <= highest'
  BY <1>1, <1>4, <1>5, <1>6
<1> QED
  BY <1>2, <1>3, <1>5, <1>7, IInvFollows

\* A restart forgets the requests under way, and counts nothing down.
LEMMA RestartKeeps ==
  ASSUME IInv, Restart
  PROVE  IInv'
<1> USE IInvSays
<1>1. /\ BillingInv' /\ asks' = {}
      /\ UNCHANGED <<used, vaults, highest, overlapped>>
  BY RestartTypes DEF Restart, BillingRestart
<1>2. TypeOK' /\ WalkWithin' /\ AsksWithinHighest'
  BY <1>1 DEF BillingInv, TypeOK, AsksWithinHighest
<1>3. QuotaFinite' /\ Made' = Made /\ ToMake' = 0 /\ ToUncount' = 0
  <2>1. \A pc : At({}, pc) = {}
    BY DEF At
  <2> QED
    BY <1>1, <2>1, FS_EmptySet DEF QuotaFinite, Made, ToMake, ToUncount
<1>4. /\ ~overlapped => Made + ToMake + ToUncount <= used
      /\ ~overlapped => Made + ToMake <= highest
  BY QuotaInvSays DEF IInv
<1>5. /\ ~overlapped' => Made' + ToMake' + ToUncount' <= used'
      /\ ~overlapped' => Made' + ToMake' <= highest'
  BY <1>1, <1>3, <1>4
<1> QED
  BY <1>2, <1>3, <1>5, IInvFollows

\* Billing writes neither the count nor what the requests know.
LEMMA BillingKeeps ==
  ASSUME IInv, BillingNext, UNCHANGED quotaVars
  PROVE  IInv'
<1> USE IInvSays
<1>1. BillingInv'
  BY BillingStepTypes
<1>2. UNCHANGED <<used, vaults, asks, highest, overlapped>>
  BY DEF quotaVars, BillingNext, External, Requests, FlowSteps, Walks, StripeCheckout, StripeChanges,
         TrialRunsOut, TrialJob, AppleVerify, GoogleVerify, AppleNotifies, DowngradeConfirm, Request,
         extendTrial, Deliver, FlowRetrieves, FlowUpdates, FlowDowngrades, FlowLinks, FlowFails,
         WalkStarts, WalkReads, WalkUpdates, WalkDowngrades, WalkFails, NeighbourThrows,
         AdminSetsPlan
<1>3. TypeOK' /\ WalkWithin'
  BY <1>1, <1>2 DEF BillingInv, TypeOK
<1> QED
  BY <1>2, <1>3 DEF IInv, QuotaInv, QuotaFinite, AsksWithinHighest, CountCovers, PromisedWithinLimit,
     Inserting, Uncounting

(***************************************************************************)
(* The theorems.                                                           *)
(***************************************************************************)
LEMMA InitIInv == Init => IInv
<1> SUFFICES ASSUME Init
             PROVE  IInv
  OBVIOUS
<1>1. TypeOK /\ WalkWithin
  <2>1. stripe = <<>> /\ stripe \in Seq(Subscriptions) /\ Len(stripe) = 0
    BY DEF Init, BillingInit
  <2>2. row \in RowSet
    BY PlansAssumption DEF Init, BillingInit, RowSet, Statuses
  <2>3. walk \in WalkSet
    BY <2>1 DEF Init, BillingInit, Idle, WalkSet
  <2>4. flows = {} /\ events = {} /\ processed = {} /\ linked \in BOOLEAN /\ overlapped \in BOOLEAN
    BY Zenon DEF Init, BillingInit
  <2>5. count \in 0..MaxInputs /\ used \in Nat /\ highest \in Nat /\ vaults \subseteq 0..MaxInputs
    BY BillingBoundAssumption DEF Init, BillingInit
  <2>6. BillingTypeOK /\ WalkWithin
    BY <2>1, <2>2, <2>3, <2>4, <2>5 DEF BillingTypeOK, WalkWithin, RowSet, WalkSet
  <2>7. asks = {}
    BY DEF Init
  <2> QED
    BY <2>4, <2>5, <2>6, <2>7 DEF TypeOK
<1>2. QuotaFinite /\ Cardinality(vaults) = 1 /\ AsksWithinHighest
  BY FS_Singleton, FS_EmptySet DEF Init, QuotaFinite, AsksWithinHighest
<1>3. Inserting = {} /\ Uncounting = {}
  BY DEF Init, Inserting, Uncounting
<1> QED
  BY <1>1, <1>2, <1>3, FS_EmptySet DEF Init, IInv, QuotaInv, CountCovers, PromisedWithinLimit

LEMMA NextIInv == IInv /\ [Next]_vars => IInv'
<1> SUFFICES ASSUME IInv, [Next]_vars
             PROVE  IInv'
  OBVIOUS
<1>1. CASE BillingNext /\ UNCHANGED quotaVars
  BY <1>1, BillingKeeps
<1>2. CASE CreateReads
  <2>1. Limits[row.plan] \in Nat
    BY IInvSays, BillingInvSays, LimitsAreNat DEF RowSet
  <2>2. highest' \in Nat /\ highest <= highest' /\ Limits[row.plan] <= highest'
    BY <1>2, <2>1, IInvSays DEF CreateReads
  <2> QED
    BY <1>2, <2>1, <2>2, IInvSays, AsksKeeps DEF CreateReads
<1>3. ASSUME NEW v \in vaults, DeleteReads(v)
      PROVE  IInv'
  BY <1>3, IInvSays, AsksKeeps DEF DeleteReads
<1>4. ASSUME NEW a \in asks,
             \/ incrementUsage(a) \/ createVault(a)
             \/ deleteVault(a) \/ decrementUsage(a) \/ AskFails(a)
      PROVE  IInv'
  BY <1>4, IncrementKeeps, CreateKeeps, DeleteKeeps, DecrementKeeps, AskFailsKeeps
<1>5. CASE Restart
  BY <1>5, RestartKeeps
<1>6. CASE UNCHANGED vars
  BY <1>6 DEF vars, billingVars, quotaVars, IInv, TypeOK, BillingTypeOK, WalkWithin, QuotaInv,
              QuotaFinite, AsksWithinHighest, CountCovers, PromisedWithinLimit, Inserting, Uncounting
<1> QED
  BY <1>1, <1>2, <1>3, <1>4, <1>5, <1>6 DEF Next, QuotaStep

\* In every behaviour the subscription, the handlers, the reconciliation and
\* the requests keep to their types: a walk stays within Stripe's list.
THEOREM TypeCorrect == Spec => []TypeOK
<1>1. IInv => TypeOK
  BY DEF IInv
<1> QED
  BY InitIInv, NextIInv, <1>1, PTL DEF Spec

\* Counting first and checking afterwards (routes/vaults.ts:41) keeps the limit:
\* for all plans and limits, however requests overlap, fail or are cut off by a
\* restart, and whatever the webhooks, the stores, the jobs and the user do to
\* the plan meanwhile, there are no more vaults than the highest limit given to
\* a request, unless a vault was deleted by two of them.
THEOREM VaultsNeverExceedLimit == Spec => []VaultsWithinLimit
<1>1. IInv => VaultsWithinLimit
  <2> SUFFICES ASSUME IInv, ~overlapped
               PROVE  Cardinality(vaults) <= highest
    BY DEF VaultsWithinLimit
  <2>1. Made \in Nat /\ ToMake \in Nat /\ highest \in Nat /\ Made + ToMake <= highest
    BY IInvSays, QuotaInvSays DEF IInv
  <2> QED
    BY <2>1 DEF Made
<1> QED
  BY InitIInv, NextIInv, <1>1, PTL DEF Spec
=============================================================================
