------------------------------ MODULE VaultQuota ------------------------------
(***************************************************************************)
(* How many vaults a user may have (routes/vaults.ts): a request counts    *)
(* first and looks at the limit afterwards; deleting counts down.  On top  *)
(* of Billing, which says whose limit it is, and throws by the count.      *)
(***************************************************************************)
EXTENDS Billing

VARIABLES
  vaults,     \* the vaults of the user that are not deleted
  asks,       \* the requests about vaults under way
  highest,    \* the highest limit a request has worked with
  overlapped  \* a vault was deleted by two requests

quotaVars == <<vaults, asks, highest, overlapped>>
vars == <<billingVars, quotaVars>>

\* The user has made a vault already.
Init ==
  /\ BillingInit
  /\ vaults = {0} /\ used = 1
  /\ asks = {} /\ highest = 1 /\ overlapped = FALSE

Asks(op, limit, v) ==
  /\ Counted
  /\ asks' = asks \cup {[id |-> count + 1, op |-> op, pc |-> "read", limit |-> limit, vault |-> v]}
  /\ UNCHANGED <<stripe, events, row, linked, used, processed, walk, flows,
                 vaults, overlapped>>
To(a, pc) == asks' = (asks \ {a}) \cup {[a EXCEPT !.pc = pc]}
Answers(a) == asks' = asks \ {a}
UsesOnly == UNCHANGED <<stripe, events, row, linked, processed, walk, flows, count,
                        highest>>

(***************************************************************************)
(* POST /vaults                                                            *)
(***************************************************************************)
CreateReads ==
  /\ Asks("create", Limits[row.plan], 0)
  /\ highest' = IF Limits[row.plan] > highest THEN Limits[row.plan] ELSE highest

\* Mutant: compares the count before.
incrementUsage_OldCount(a) ==
  /\ a.op = "create" /\ a.pc = "read"
  /\ used' = used + 1
  /\ To(a, IF used > a.limit THEN "uncount" ELSE "insert")
  /\ UsesOnly /\ UNCHANGED <<vaults, overlapped>>

incrementUsage(a) ==
  /\ a.op = "create" /\ a.pc = "read"
  /\ used' = used + 1
  /\ To(a, IF used' > a.limit THEN "uncount" ELSE "insert")
  /\ UsesOnly /\ UNCHANGED <<vaults, overlapped>>

createVault(a) ==
  /\ a.pc = "insert" /\ Answers(a)
  /\ vaults' = vaults \cup {a.id}
  /\ UsesOnly /\ UNCHANGED <<used, overlapped>>

(***************************************************************************)
(* DELETE /vaults/:id                                                      *)
(***************************************************************************)
DeleteReads(v) == Asks("delete", 0, v) /\ UNCHANGED highest

deleteVault(a) ==
  /\ a.op = "delete" /\ a.pc = "read" /\ To(a, "uncount")
  /\ vaults' = vaults \ {a.vault}
  /\ overlapped' = (overlapped \/ a.vault \notin vaults)
  /\ UsesOnly /\ UNCHANGED used

\* Mutant: count - 1.
decrementUsage_Below(a) ==
  /\ a.pc = "uncount" /\ Answers(a)
  /\ used' = used - 1
  /\ UsesOnly /\ UNCHANGED <<vaults, overlapped>>

\* GREATEST(count - 1, 0); also for a vault that was counted past the limit.
decrementUsage(a) ==
  /\ a.pc = "uncount" /\ Answers(a)
  /\ used' = IF used > 0 THEN used - 1 ELSE 0
  /\ UsesOnly /\ UNCHANGED <<vaults, overlapped>>

AskFails(a) ==
  /\ Counted /\ Answers(a)
  /\ UNCHANGED <<stripe, events, row, linked, used, processed, walk, flows,
                 vaults, highest, overlapped>>

Restart ==
  /\ BillingRestart
  /\ asks' = {}
  /\ UNCHANGED <<vaults, highest, overlapped>>

QuotaStep ==
  \/ CreateReads
  \/ \E v \in vaults : DeleteReads(v)
  \/ \E a \in asks : \/ incrementUsage(a) \/ createVault(a)
                     \/ deleteVault(a) \/ decrementUsage(a) \/ AskFails(a)

Next ==
  \/ BillingNext /\ UNCHANGED quotaVars
  \/ QuotaStep
  \/ Restart

Spec == Init /\ [][Next]_vars

\* The database answers, the reconciliation is run by a timer.  Nothing is
\* asked of Stripe, the user, or the job for trials, nor of the neighbours.
FairSpec == /\ Spec
            /\ WF_vars(FlowSteps /\ UNCHANGED quotaVars)
            /\ WF_vars((WalkStarts \/ Walks) /\ UNCHANGED quotaVars)

(***************************************************************************)
(* Properties.                                                             *)
(***************************************************************************)
Statuses == {"active", "trialing", "past_due", "unpaid", "canceled"}
Subscriptions == [plan : Plans, status : Statuses]

BillingTypeOK ==
  /\ stripe \in Seq(Subscriptions)
  /\ events \subseteq [id : Nat, kind : {"checkout", "updated", "paid", "failed", "deleted"},
                       sub : DOMAIN stripe, status : Statuses]
  /\ row \in [plan : Plans, status : Statuses \ {"unpaid"},
              trial : {0} \cup DOMAIN stripe, expired : BOOLEAN]
  /\ linked \in BOOLEAN /\ used \in Nat
  /\ processed \subseteq events
  /\ walk \in [at : Nat, pc : {"read", "update", "downgrade"}, list : Seq(Subscriptions)]
  /\ walk.at <= Len(walk.list)
  /\ flows \subseteq [id : Nat, pc : {"retrieve", "update", "downgrade", "link"},
                      op : {"webhook", "apple", "google", "notified", "confirm", "trial"},
                      to : [plan : Plans, status : Statuses \ {"unpaid"}],
                      sub : {0} \cup DOMAIN stripe, from : Plans]
  /\ count \in 0..MaxInputs

TypeOK ==
  /\ BillingTypeOK
  /\ vaults \subseteq 0..MaxInputs
  /\ asks \subseteq [id : 1..MaxInputs, op : {"create", "delete"},
                     pc : {"read", "insert", "uncount"}, limit : Nat, vault : 0..MaxInputs]
  /\ highest \in Nat /\ overlapped \in BOOLEAN

\* "Increment atomically first, then check - prevents race condition"
\* (routes/vaults.ts:41): however requests overlap, fail or meet a change of
\* plan, there are no more vaults than the highest limit a request was given,
\* as long as no vault is deleted by two requests at once.
VaultsWithinLimit == ~overlapped => Cardinality(vaults) <= highest

\* Whatever webhooks are lost, late, repeated or fail, whatever the stores, the
\* trial job, an administrator and the user's own downgrade write over it, in the
\* end the row says what Stripe says of the user's only subscription, and is free
\* when all of them are over: as long as again and again a walk gets through the
\* user's subscriptions.  (A neighbour whose downgrade throws at every walk keeps
\* every walk from those behind it: NeighbourThrows.)
Says(s) ==
  /\ s.status \in Live => row.plan = s.plan /\ row.status = s.status
  /\ s.status = "past_due" => row.status = "past_due"
  /\ s.status \in Over => row.plan = "free"
OnlyOneCounts == Len(stripe) <= 1 \/ \A s \in DOMAIN stripe : stripe[s].status \in Over
WalksGetThrough == []<><<WalkGetsThrough>>_vars
RowSettles ==
  WalksGetThrough => <>[](OnlyOneCounts => \A s \in DOMAIN stripe : Says(stripe[s]))

\* StripeService.ts:165 "makes our DB match Stripe's view of the world": the row
\* settles on the newest subscription when it is the only one that is not over.
MatchesStripe ==
  <>[](/\ stripe # <<>>
       /\ stripe[Len(stripe)].status \in Live
       /\ \A s \in 1..(Len(stripe) - 1) : stripe[s].status \in Over
       => Says(stripe[Len(stripe)]))
=============================================================================
