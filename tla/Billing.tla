-------------------------------- MODULE Billing --------------------------------
(***************************************************************************)
(* internal/billing: the paid plan of one user or organization.  A row     *)
(* holds the plan and the subscription it comes from; the payment provider *)
(* (Creem, external) owns the subscriptions and tells of them by webhooks, *)
(* which it repeats until one is answered with success, in any order.      *)
(* Webhooks and requests are handled by concurrent goroutines; every       *)
(* statement and every call of the provider is a step of its own.          *)
(*                                                                         *)
(* Users and organizations differ in the table and in who may ask; all     *)
(* statements are about one id, so that one entity stands for each.        *)
(***************************************************************************)
EXTENDS Integers

CONSTANTS Goroutines,
          MaxSubs,     \* subscriptions ever bought (bounds the model)
          MaxEvents    \* events the provider sends (bounds the model)

ASSUME BillingAssumption == MaxSubs \in Nat /\ MaxEvents \in Nat

VARIABLES plan,      \* subscription_plan
          sub,       \* creem_subscription_id
          recorded,  \* the ids in creem_webhook_events
          job,       \* what each goroutine does
          period,    \* provider: the state of each subscription
          product,   \* provider: the product it is for, as a plan
          sold,      \* provider: every plan it was ever for
          event,     \* provider: the events sent
          acked      \* provider: the events answered with success

row == <<plan, sub>>
provider == <<period, product, sold, event>>
vars == <<plan, sub, recorded, job, period, product, sold, event, acked>>

NoSub == 0   \* NULL
Subs == 1 .. MaxSubs

PaidPlans == {"pro", "business"}
Plans == PaidPlans \cup {"free"}
Events == 1 .. MaxEvents

\* planFromProductID maps the four product ids to two plans.  "subscription.paid"
\* is an activation, a refund an expiry.  What changes nothing is "noted": other
\* types, unknown products, no metadata.
Kinds == {"activated", "ended", "noted"}

Event == [kind : Kinds, sub : Subs, plan : PaidPlans]

\* A goroutine's next step, and the locals it needs for it.
Job == [pc    : {"idle", "read", "replace", "install", "downgrade", "upgrade", "drop"},
        event : {0} \cup Events,   \* 0 for a request
        sub   : Subs \cup {NoSub},
        plan  : Plans,
        old   : Subs \cup {NoSub}]

Idle == [pc |-> "idle", event |-> 0, sub |-> NoSub, plan |-> "free", old |-> NoSub]

Init ==
  /\ plan = "free" /\ sub = NoSub
  /\ recorded = {} /\ acked = {}
  /\ job = [g \in Goroutines |-> Idle]
  /\ period = [s \in Subs |-> "none"]
  /\ product = [s \in Subs |-> "pro"]
  /\ sold = [s \in Subs |-> {}]
  /\ event = [e \in {} |-> Idle]

(***************************************************************************)
(* The provider.                                                           *)
(***************************************************************************)
Sent == DOMAIN event

Send(kind, s, p) ==
  \E e \in Events :
    /\ \A d \in Events : d \in Sent <=> d < e
    /\ event' = [d \in Sent \cup {e} |->
                   IF d \in Sent THEN event[d] ELSE [kind |-> kind, sub |-> s, plan |-> p]]

\* The checkout session that CreateCheckout or CreateOrgCheckout opens is paid.  An
\* error of the read that looks for a subscription is discarded, and a session stays
\* open, so this may happen whatever the row says.
Checkout(s, p) ==
  /\ \A r \in Subs : period[r] = "none" <=> r >= s
  /\ period' = [period EXCEPT ![s] = "active"]
  /\ product' = [product EXCEPT ![s] = p]
  /\ sold' = [sold EXCEPT ![s] = @ \cup {p}]
  /\ Send("activated", s, p)
  /\ UNCHANGED <<row, recorded, job, acked>>

Renew(s) ==
  /\ period[s] = "active"
  /\ Send("activated", s, product[s])
  /\ UNCHANGED <<row, recorded, job, period, product, sold, acked>>

\* The paid period of a cancelled subscription ends, or a payment fails for good or
\* is refunded.
End(s) ==
  /\ period[s] \in {"active", "cancelled"}
  /\ period' = [period EXCEPT ![s] = "ended"]
  /\ Send("ended", s, product[s])
  /\ UNCHANGED <<row, recorded, job, product, sold, acked>>

\* A cancelled subscription runs to the end of its period; cancelling it again is
\* no error.
CancelSubscription(s) ==
  /\ product' = product /\ sold' = sold
  /\ \/ period[s] = "active"
        /\ period' = [period EXCEPT ![s] = "cancelled"]
        /\ Send("noted", s, product[s])
     \/ period[s] = "cancelled" /\ UNCHANGED <<period, event>>

\* Prorated and charged at once.
UpgradeSubscription(s, p) ==
  /\ period[s] = "active"
  /\ product' = [product EXCEPT ![s] = p]
  /\ sold' = [sold EXCEPT ![s] = @ \cup {p}]
  /\ Send("activated", s, p)
  /\ UNCHANGED period

(***************************************************************************)
(* Requests of the owner.                                                  *)
(***************************************************************************)
Start(g, j) == job[g].pc = "idle" /\ job' = [job EXCEPT ![g] = j]
Goto(g, pc) == job' = [job EXCEPT ![g] = [job[g] EXCEPT !.pc = pc]]
Return(g)   == job' = [job EXCEPT ![g] = Idle]

\* tryUpgradeExistingSubscription: the id is read, ...
RequestUpgrade(g, p) ==
  /\ sub # NoSub
  /\ Start(g, [pc |-> "upgrade", event |-> 0, sub |-> sub, plan |-> p, old |-> NoSub])
  /\ UNCHANGED <<row, recorded, provider, acked>>

\* ... the provider asked, ...
CallUpgrade(g) ==
  /\ job[g].pc = "upgrade"
  /\ UpgradeSubscription(job[g].sub, job[g].plan)
  /\ Goto(g, "install")
  /\ UNCHANGED <<row, recorded, acked>>

\* cancelEntitySubscription: the id is read, and the provider asked.
RequestCancel(g) ==
  /\ sub # NoSub
  /\ Start(g, [pc |-> "drop", event |-> 0, sub |-> NoSub, plan |-> "free", old |-> sub])
  /\ UNCHANGED <<row, recorded, provider, acked>>

CallCancel(g) ==
  /\ job[g].pc = "drop"
  /\ CancelSubscription(job[g].old)
  /\ Return(g)
  /\ UNCHANGED <<row, recorded, acked>>

(***************************************************************************)
(* Webhooks.                                                               *)
(***************************************************************************)
Ack(g) == acked' = IF job[g].event = 0 THEN acked ELSE acked \cup {job[g].event}

Handle(g, e) ==
  /\ LET v == event[e] IN
       \/ v.kind = "activated"
          /\ Start(g, [pc |-> "read", event |-> e, sub |-> v.sub, plan |-> v.plan, old |-> NoSub])
          /\ UNCHANGED acked
       \/ v.kind = "ended"
          /\ Start(g, [pc |-> "downgrade", event |-> e, sub |-> NoSub, plan |-> "free", old |-> NoSub])
          /\ UNCHANGED acked
       \/ v.kind = "noted"
          /\ job[g].pc = "idle" /\ UNCHANGED job
          /\ acked' = acked \cup {e}
  /\ UNCHANGED <<row, provider>>

\* A plausible mistake, to test the properties: an event is looked up when it
\* arrives and recorded only after it was processed.
DeliverUnrecorded(g, e) ==
  /\ e \in Sent \ recorded
  /\ Handle(g, e)
  /\ UNCHANGED recorded

\* recordEvent inserts the id before anything is done about the event, and the
\* insertion tells whether it was there.
Deliver(g, e) ==
  /\ e \in Sent \ recorded
  /\ recorded' = recorded \cup {e}
  /\ Handle(g, e)

\* A plausible mistake, to test the properties: a duplicate is a conflict.
DuplicateRefused(e) ==
  /\ e \in Sent \cap recorded
  /\ UNCHANGED vars

Duplicate(e) ==
  /\ e \in Sent \cap recorded
  /\ acked' = acked \cup {e}
  /\ UNCHANGED <<row, recorded, job, provider>>

\* handleSubscriptionActivated reads the previous subscription (an error of the
\* read is discarded) and cancels it if it is another.
ReadOld(g) == \E old \in {sub, NoSub} :
  /\ job[g].pc = "read"
  /\ job' = [job EXCEPT ![g] =
               [job[g] EXCEPT !.old = old,
                              !.pc = IF old \in {NoSub, job[g].sub} THEN "install" ELSE "replace"]]
  /\ UNCHANGED <<row, recorded, provider, acked>>

Replace(g) ==
  /\ job[g].pc = "replace"
  /\ CancelSubscription(job[g].old)
  /\ Goto(g, "install")
  /\ UNCHANGED <<row, recorded, acked>>

\* A cancellation that fails is logged.
ReplaceFails(g) ==
  /\ job[g].pc = "replace"
  /\ Goto(g, "install")
  /\ UNCHANGED <<row, recorded, provider, acked>>

\* A plausible mistake, to test the properties: a known subscription is kept.
InstallKeepingSub(g) ==
  /\ job[g].pc = "install"
  /\ plan' = job[g].plan
  /\ sub' = IF sub = NoSub THEN job[g].sub ELSE sub
  /\ Ack(g) /\ Return(g)
  /\ UNCHANGED <<recorded, provider>>

\* updateSubscriptionPlan, for an activation and at the end of an upgrade.
Install(g) ==
  /\ job[g].pc = "install"
  /\ plan' = job[g].plan /\ sub' = job[g].sub
  /\ Ack(g) /\ Return(g)
  /\ UNCHANGED <<recorded, provider>>

\* A plausible mistake, to test the properties: the word for what happened.
DowngradeToExpired(g) ==
  /\ job[g].pc = "downgrade"
  /\ plan' = "expired" /\ sub' = sub
  /\ Ack(g) /\ Return(g)
  /\ UNCHANGED <<recorded, provider>>

\* handleSubscriptionCanceled: the subscription id stays.
Downgrade(g) ==
  /\ job[g].pc = "downgrade"
  /\ plan' = "free" /\ sub' = sub
  /\ Ack(g) /\ Return(g)
  /\ UNCHANGED <<recorded, provider>>

\* A statement or a call fails and the answer is 500, or the process dies.
Abort(g) ==
  /\ job[g].pc # "idle"
  /\ Return(g)
  /\ UNCHANGED <<row, recorded, provider, acked>>

Step(g) ==
  \/ CallUpgrade(g) \/ CallCancel(g)
  \/ ReadOld(g) \/ Replace(g) \/ ReplaceFails(g)
  \/ Install(g) \/ Downgrade(g) \/ Abort(g)

Next ==
  \/ \E s \in Subs : Renew(s) \/ End(s)
  \/ \E s \in Subs, p \in PaidPlans : Checkout(s, p)
  \/ \E g \in Goroutines :
       \/ RequestCancel(g) \/ Step(g)
       \/ \E p \in PaidPlans : RequestUpgrade(g, p)
       \/ \E e \in Events : Deliver(g, e)
  \/ \E e \in Events : Duplicate(e)

Spec == Init /\ [][Next]_vars

\* The provider repeats an event that was not answered with success, and a
\* goroutine goes on or fails.
Fairness ==
  /\ \A e \in Events : SF_vars((\E g \in Goroutines : Deliver(g, e)) \/ Duplicate(e))
  /\ \A g \in Goroutines : WF_vars(Step(g))

FairSpec == Spec /\ Fairness

-----------------------------------------------------------------------------
TypeOK ==
  /\ plan \in Plans /\ sub \in Subs \cup {NoSub}
  /\ recorded \subseteq Sent /\ acked \subseteq Sent
  /\ job \in [Goroutines -> Job]
  /\ period \in [Subs -> {"none", "active", "cancelled", "ended"}]
  /\ product \in [Subs -> PaidPlans]
  /\ sold \in [Subs -> SUBSET PaidPlans]
  /\ Sent \subseteq Events /\ event \in [Sent -> Event]

\* An event is applied at most once, however often and to however many replicas it
\* is delivered: no two goroutines have it.
AppliedOnce ==
  \A g, h \in Goroutines :
    job[g].event # 0 /\ job[g].event = job[h].event => g = h

\* A paid plan is one the provider has sold for the very subscription the row
\* names, whichever webhooks and upgrades overtake each other.
PlanWasSold == plan # "free" => sub # NoSub /\ plan \in sold[sub]

\* Why they hold: the inductive invariant of BillingProofs.
InHandRecorded ==
  \A g \in Goroutines : job[g].event # 0 => job[g].event \in recorded

EventsSold ==
  \A e \in Sent : event[e].kind = "activated" => event[e].plan \in sold[event[e].sub]

ProductsSold == \A s \in Subs : period[s] # "none" => product[s] \in sold[s]

\* A goroutine that is about to install or replace has a sale behind it, and one
\* that is about to ask the provider has a subscription to ask about.
JobSold(j) ==
  /\ j.pc \in {"read", "replace", "install"} => j.sub # NoSub /\ j.plan \in sold[j.sub]
  /\ j.pc \in {"replace", "drop"} => j.old # NoSub
  /\ j.pc = "upgrade" => j.sub # NoSub /\ j.plan # "free"

JobsSold == \A g \in Goroutines : JobSold(job[g])

BillingInv ==
  /\ TypeOK /\ InHandRecorded /\ AppliedOnce
  /\ EventsSold /\ ProductsSold /\ JobsSold /\ PlanWasSold

\* The provider does not repeat an event for ever.
EventsSettle == \A e \in Events : e \in Sent ~> e \in acked

(***************************************************************************)
(* What the repository says and the code does not do.                      *)
(***************************************************************************)

\* "Cancels the current subscription. Access continues until the end of the billing
\* period": while a cancelled subscription of the row runs, the plan is not free.
PaidUntilPeriodEnds ==
  sub # NoSub /\ period[sub] = "cancelled" => plan # "free"
=============================================================================
