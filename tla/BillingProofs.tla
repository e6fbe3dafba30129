----------------------------- MODULE BillingProofs -----------------------------
(***************************************************************************)
(* Billing is well typed, no event is in two hands, and a paid plan was    *)
(* sold: for any goroutines, subscriptions and events.  What DetectSilence *)
(* answers can be cut, whatever ffmpeg wrote.  The instance of MCBilling   *)
(* is a behaviour of both.                                                 *)
(***************************************************************************)
EXTENDS MCBilling, FiniteSetTheorems, WellFoundedInduction, TLAPS

\* What the provider's state allows to be said of an event that was sent.
Grows == \A s \in Subs : sold[s] \subseteq sold'[s]

ProviderTyped ==
  /\ period \in [Subs -> {"none", "active", "cancelled", "ended"}]
  /\ product \in [Subs -> PaidPlans]
  /\ sold \in [Subs -> SUBSET PaidPlans]
  /\ Sent \subseteq Events /\ event \in [Sent -> Event]

RowTyped == plan \in Plans /\ sub \in Subs \cup {NoSub}

LEMMA TypeParts ==
  TypeOK <=> /\ RowTyped /\ ProviderTyped
             /\ recorded \subseteq Sent /\ acked \subseteq Sent
             /\ job \in [Goroutines -> Job]
  BY DEF TypeOK, RowTyped, ProviderTyped

LEMMA NoSubIsNone == NoSub \notin Subs
  BY BillingAssumption DEF NoSub, Subs

(***************************************************************************)
(* Events.                                                                 *)
(***************************************************************************)
LEMMA SendEffect ==
  ASSUME ProviderTyped, NEW kind \in Kinds, NEW s \in Subs, NEW p \in PaidPlans,
         Send(kind, s, p)
  PROVE  /\ Sent \subseteq Sent' /\ Sent' \subseteq Events
         /\ event' \in [Sent' -> Event]
         /\ \A d \in Sent : event'[d] = event[d]
         /\ \A d \in Sent' \ Sent : event'[d] = [kind |-> kind, sub |-> s, plan |-> p]
<1>1. PICK e \in Events :
        event' = [d \in Sent \cup {e} |->
                   IF d \in Sent THEN event[d] ELSE [kind |-> kind, sub |-> s, plan |-> p]]
  BY DEF Send
<1>2. Sent' = Sent \cup {e}
  BY <1>1 DEF Sent
<1>3. [kind |-> kind, sub |-> s, plan |-> p] \in Event
  BY DEF Event
<1>4. Sent \subseteq Events /\ event \in [Sent -> Event]
  BY DEF ProviderTyped
<1>5. \A d \in Sent' : event'[d] = IF d \in Sent THEN event[d]
                                   ELSE [kind |-> kind, sub |-> s, plan |-> p]
  BY <1>1, <1>2
<1>6. event' \in [Sent' -> Event]
  <2>1. event' = [d \in Sent' |-> event'[d]]
    BY <1>1, <1>2
  <2>2. \A d \in Sent' : event'[d] \in Event
    BY <1>3, <1>4, <1>5
  <2> QED BY <2>1, <2>2
<1> QED BY <1>2, <1>4, <1>5, <1>6

\* What is sent for an activation was sold; nothing is ever unsold.
LEMMA SendSold ==
  ASSUME ProviderTyped, EventsSold, Grows,
         NEW kind \in Kinds, NEW s \in Subs, NEW p \in PaidPlans,
         Send(kind, s, p), kind = "activated" => p \in sold'[s]
  PROVE  EventsSold'
<1>1. SUFFICES ASSUME NEW d \in Sent', event'[d].kind = "activated"
               PROVE  event'[d].plan \in sold'[event'[d].sub]
  BY DEF EventsSold
<1>2. CASE d \in Sent
  <2>1. event'[d] = event[d] /\ event[d] \in Event
    BY <1>2, SendEffect DEF ProviderTyped
  <2>2. event[d].plan \in sold[event[d].sub] /\ event[d].sub \in Subs
    BY <1>1, <1>2, <2>1 DEF EventsSold, Event
  <2> QED BY <2>1, <2>2 DEF Grows
<1>3. CASE d \notin Sent
  <2>1. event'[d] = [kind |-> kind, sub |-> s, plan |-> p]
    BY <1>3, SendEffect
  <2> QED BY <1>1, <2>1
<1> QED BY <1>2, <1>3

(***************************************************************************)
(* The provider's operations keep what is said of it.                      *)
(***************************************************************************)
ProviderSold == ProviderTyped /\ EventsSold /\ ProductsSold

LEMMA CancelKeeps ==
  ASSUME ProviderSold, NEW s \in Subs, CancelSubscription(s)
  PROVE  ProviderSold' /\ Grows /\ Sent \subseteq Sent'
<1> USE DEF ProviderSold
<1>1. product' = product /\ sold' = sold /\ Grows
  BY DEF CancelSubscription, Grows
<1>2. CASE period[s] = "active"
  <2>1. Send("noted", s, product[s]) /\ period' = [period EXCEPT ![s] = "cancelled"]
    BY <1>2 DEF CancelSubscription
  <2>2. "noted" \in Kinds /\ product[s] \in PaidPlans
    BY DEF Kinds, ProviderTyped
  <2>3. EventsSold'
    BY <1>1, <2>1, <2>2, SendSold
  <2>4. ProductsSold'
    BY <1>1, <1>2, <2>1 DEF ProductsSold, ProviderTyped
  <2>5. ProviderTyped' /\ Sent \subseteq Sent'
    BY <1>1, <2>1, <2>2, SendEffect DEF ProviderTyped
  <2> QED BY <1>1, <2>3, <2>4, <2>5
<1>3. CASE period[s] = "cancelled"
  <2>1. UNCHANGED <<period, event>>
    BY <1>3 DEF CancelSubscription
  <2> QED BY <1>1, <2>1 DEF ProviderTyped, EventsSold, ProductsSold, Sent
<1> QED BY <1>2, <1>3 DEF CancelSubscription

LEMMA UpgradeKeeps ==
  ASSUME ProviderSold, NEW s \in Subs, NEW p \in PaidPlans, UpgradeSubscription(s, p)
  PROVE  ProviderSold' /\ Grows /\ Sent \subseteq Sent' /\ p \in sold'[s]
<1> USE DEF ProviderSold
<1>1. sold' \in [Subs -> SUBSET PaidPlans] /\ Grows /\ p \in sold'[s]
  BY DEF UpgradeSubscription, ProviderTyped, Grows
<1>2. Send("activated", s, p) /\ "activated" \in Kinds
  BY DEF UpgradeSubscription, Kinds
<1>3. EventsSold'
  BY <1>1, <1>2, SendSold
<1>4. period' = period /\ product' = [product EXCEPT ![s] = p]
  BY DEF UpgradeSubscription
<1>5. ProductsSold'
  BY <1>1, <1>4 DEF ProductsSold, ProviderTyped, Grows
<1>6. ProviderTyped' /\ Sent \subseteq Sent'
  BY <1>1, <1>2, <1>4, SendEffect DEF ProviderTyped
<1> QED BY <1>1, <1>3, <1>5, <1>6

LEMMA CheckoutKeeps ==
  ASSUME ProviderSold, NEW s \in Subs, NEW p \in PaidPlans, Checkout(s, p)
  PROVE  ProviderSold' /\ Grows /\ Sent \subseteq Sent'
<1> USE DEF ProviderSold
<1>1. sold' \in [Subs -> SUBSET PaidPlans] /\ Grows /\ p \in sold'[s]
  BY DEF Checkout, ProviderTyped, Grows
<1>2. Send("activated", s, p) /\ "activated" \in Kinds
  BY DEF Checkout, Kinds
<1>3. EventsSold'
  BY <1>1, <1>2, SendSold
<1>4. period' = [period EXCEPT ![s] = "active"] /\ product' = [product EXCEPT ![s] = p]
  BY DEF Checkout
<1>5. ProductsSold'
  BY <1>1, <1>4 DEF ProductsSold, ProviderTyped, Grows
<1>6. ProviderTyped' /\ Sent \subseteq Sent'
  BY <1>1, <1>2, <1>4, SendEffect DEF ProviderTyped
<1> QED BY <1>1, <1>3, <1>5, <1>6

LEMMA RenewKeeps ==
  ASSUME ProviderSold, NEW s \in Subs, Renew(s)
  PROVE  ProviderSold' /\ Grows /\ Sent \subseteq Sent'
<1> USE DEF ProviderSold
<1>1. UNCHANGED <<period, product, sold>> /\ Grows
  BY DEF Renew, Grows
<1>2. /\ Send("activated", s, product[s]) /\ "activated" \in Kinds
      /\ product[s] \in PaidPlans /\ product[s] \in sold'[s]
  BY <1>1 DEF Renew, Kinds, ProviderTyped, ProductsSold
<1>3. EventsSold'
  BY <1>1, <1>2, SendSold
<1>4. ProviderTyped' /\ Sent \subseteq Sent'
  BY <1>1, <1>2, SendEffect DEF ProviderTyped
<1> QED BY <1>1, <1>3, <1>4 DEF ProductsSold

LEMMA EndKeeps ==
  ASSUME ProviderSold, NEW s \in Subs, End(s)
  PROVE  ProviderSold' /\ Grows /\ Sent \subseteq Sent'
<1> USE DEF ProviderSold
<1>1. sold' = sold /\ product' = product /\ Grows
  BY DEF End, Grows
<1>2. Send("ended", s, product[s]) /\ "ended" \in Kinds /\ product[s] \in PaidPlans
  BY DEF End, Kinds, ProviderTyped
<1>3. EventsSold'
  BY <1>1, <1>2, SendSold
<1>4. period' = [period EXCEPT ![s] = "ended"] /\ period[s] # "none"
  BY DEF End
<1>5. ProductsSold'
  BY <1>1, <1>4 DEF ProductsSold, ProviderTyped
<1>6. ProviderTyped' /\ Sent \subseteq Sent'
  BY <1>1, <1>2, <1>4, SendEffect DEF ProviderTyped
<1> QED BY <1>1, <1>3, <1>5, <1>6

(***************************************************************************)
(* Goroutines.                                                             *)
(***************************************************************************)
\* What is said of the goroutines, and of the row.
HandsInv == /\ job \in [Goroutines -> Job] /\ recorded \subseteq Events
            /\ InHandRecorded /\ AppliedOnce /\ JobsSold

RowInv == RowTyped /\ PlanWasSold

LEMMA InvParts ==
  BillingInv <=> /\ ProviderSold /\ HandsInv /\ RowInv
                 /\ recorded \subseteq Sent /\ acked \subseteq Sent
  BY TypeParts DEF BillingInv, ProviderSold, HandsInv, RowInv, ProviderTyped

LEMMA InvPartsNext ==
  BillingInv' <=> /\ ProviderSold' /\ HandsInv' /\ RowInv'
                  /\ recorded' \subseteq Sent' /\ acked' \subseteq Sent'
<1>1. TypeOK' <=> /\ RowTyped' /\ ProviderTyped'
                  /\ recorded' \subseteq Sent' /\ acked' \subseteq Sent'
                  /\ job' \in [Goroutines -> Job]
  BY DEF TypeOK, RowTyped, ProviderTyped
<1> QED BY <1>1 DEF BillingInv, ProviderSold, HandsInv, RowInv, ProviderTyped

LEMMA IdleIsJob == Idle \in Job /\ Idle.event = 0 /\ JobSold(Idle)
  BY DEF Idle, Job, Plans, JobSold

LEMMA IdleSold == JobSold(Idle)'
  BY DEF Idle, JobSold

\* One goroutine goes on with what it has, with a request, or with an event that
\* was not recorded before.
LEMMA HandsKeep ==
  ASSUME HandsInv, Grows, recorded \subseteq recorded', recorded' \subseteq Events,
         NEW g \in Goroutines, NEW w \in Job, job' = [job EXCEPT ![g] = w],
         JobSold(w)',
         w.event # 0 => w.event \in recorded',
         w.event = 0 \/ w.event = job[g].event \/ w.event \notin recorded
  PROVE  HandsInv'
<1> USE DEF HandsInv
<1>1. job' \in [Goroutines -> Job]
  OBVIOUS
<1>2. \A h \in Goroutines : job'[h] = IF h = g THEN w ELSE job[h]
  OBVIOUS
<1>3. InHandRecorded'
  BY <1>2 DEF InHandRecorded
<1>4. AppliedOnce'
  BY <1>2 DEF AppliedOnce, InHandRecorded
<1>5. ASSUME NEW h \in Goroutines, h # g PROVE JobSold(job[h])'
  <2>1. job'[h] = job[h] /\ job[h] \in Job /\ JobSold(job[h])
    BY <1>2, <1>5 DEF JobsSold
  <2>2. job[h].sub # NoSub => job[h].sub \in Subs
    BY <2>1 DEF Job
  <2> QED BY <2>1, <2>2 DEF JobSold, Grows
<1>6. JobsSold'
  BY <1>2, <1>5 DEF JobsSold
<1> QED BY <1>1, <1>3, <1>4, <1>6

\* Nobody moves.
LEMMA HandsStay ==
  ASSUME HandsInv, Grows, job' = job, recorded \subseteq recorded', recorded' \subseteq Events
  PROVE  HandsInv'
<1> USE DEF HandsInv
<1>1. ASSUME NEW h \in Goroutines PROVE JobSold(job[h])'
  <2>1. job[h] \in Job /\ JobSold(job[h])
    BY DEF JobsSold
  <2>2. job[h].sub # NoSub => job[h].sub \in Subs
    BY <2>1 DEF Job
  <2> QED BY <2>1, <2>2 DEF JobSold, Grows
<1> QED BY <1>1 DEF InHandRecorded, AppliedOnce, JobsSold

LEMMA RowStays ==
  ASSUME RowInv, Grows, UNCHANGED row
  PROVE  RowInv'
  BY DEF RowInv, RowTyped, PlanWasSold, Grows, row

\* The row as a write of the plan and its subscription leaves it.
LEMMA RowInstalled ==
  ASSUME RowInv, Grows, sold' \in [Subs -> SUBSET PaidPlans],
         NEW s \in Subs, NEW p \in PaidPlans, p \in sold[s], plan' = p, sub' = s
  PROVE  RowInv'
  BY NoSubIsNone DEF RowInv, RowTyped, PlanWasSold, Grows, Plans, NoSub

(***************************************************************************)
(* One lemma per kind of step.                                             *)
(***************************************************************************)

\* The provider's own steps, and an event delivered again.
LEMMA ProviderStep ==
  ASSUME BillingInv, ProviderSold', Grows, Sent \subseteq Sent',
         UNCHANGED <<row, recorded, job>>, acked' \subseteq Sent'
  PROVE  BillingInv'
<1>1. HandsInv /\ RowInv /\ recorded \subseteq Sent
  BY InvParts
<1>2. HandsInv' /\ RowInv'
  BY <1>1, HandsStay, RowStays DEF HandsInv
<1> QED BY <1>1, <1>2, InvPartsNext DEF ProviderSold

\* A goroutine's step: what is to be shown of its new state and of the row.
LEMMA GoroutineStep ==
  ASSUME BillingInv, ProviderSold', Grows, Sent \subseteq Sent',
         NEW g \in Goroutines, NEW w \in Job, job' = [job EXCEPT ![g] = w],
         JobSold(w)',
         recorded \subseteq recorded', recorded' \subseteq Sent', acked' \subseteq Sent',
         w.event # 0 => w.event \in recorded',
         w.event = 0 \/ w.event = job[g].event \/ w.event \notin recorded,
         RowInv'
  PROVE  BillingInv'
<1>1. HandsInv /\ Sent' \subseteq Events
  BY InvParts DEF ProviderSold, ProviderTyped
<1>2. HandsInv'
  BY <1>1, HandsKeep
<1> QED BY <1>2, InvPartsNext

LEMMA ProviderIdle ==
  ASSUME BillingInv, UNCHANGED provider
  PROVE  ProviderSold' /\ Grows /\ Sent' = Sent
  BY InvParts DEF provider, ProviderSold, ProviderTyped, EventsSold, ProductsSold, Grows, Sent

LEMMA JobAt ==
  ASSUME BillingInv, NEW g \in Goroutines
  PROVE  /\ job[g] \in Job /\ JobSold(job[g])
         /\ job[g].event # 0 => job[g].event \in recorded
  BY InvParts DEF HandsInv, JobsSold, InHandRecorded

\* A goroutine that only moves on, without a new event.
LEMMA Moved ==
  ASSUME BillingInv, ProviderSold', Grows, Sent \subseteq Sent',
         NEW g \in Goroutines, NEW w \in Job, job' = [job EXCEPT ![g] = w],
         JobSold(w)', w.event \in {0, job[g].event},
         UNCHANGED recorded, acked' \subseteq Sent', RowInv'
  PROVE  BillingInv'
<1>1. recorded \subseteq Sent
  BY InvParts
<1> QED BY <1>1, JobAt, GoroutineStep

LEMMA AckEffect ==
  ASSUME BillingInv, NEW g \in Goroutines, Ack(g), Sent \subseteq Sent'
  PROVE  acked' \subseteq Sent'
  BY InvParts, JobAt DEF Ack

LEMMA RequestUpgradeStep ==
  ASSUME BillingInv, NEW g \in Goroutines, NEW p \in PaidPlans, RequestUpgrade(g, p)
  PROVE  BillingInv'
<1> DEFINE w == [pc |-> "upgrade", event |-> 0, sub |-> sub, plan |-> p, old |-> NoSub]
<1>1. w \in Job /\ w.event = 0
  BY InvParts DEF RowInv, RowTyped, Job, Plans
<1>2. ProviderSold' /\ Grows /\ Sent' = Sent
  BY ProviderIdle DEF RequestUpgrade
<1>3. job' = [job EXCEPT ![g] = w] /\ UNCHANGED <<row, recorded, acked>>
  BY DEF RequestUpgrade, Start
<1>4. w.sub # NoSub /\ w.plan # "free" /\ w.pc = "upgrade"
  BY DEF RequestUpgrade, PaidPlans
<1> HIDE DEF w
<1>5. PICK x \in Job : x = w
  BY <1>1
<1>6. JobSold(x)'
  BY <1>4, <1>5 DEF JobSold
<1>7. RowInv'
  BY <1>2, <1>3, RowStays, InvParts
<1>8. acked' \subseteq Sent'
  BY <1>2, <1>3, InvParts
<1> QED BY <1>1, <1>2, <1>3, <1>5, <1>6, <1>7, <1>8, Moved

LEMMA CallUpgradeStep ==
  ASSUME BillingInv, NEW g \in Goroutines, CallUpgrade(g)
  PROVE  BillingInv'
<1>1. PICK s \in Subs, p \in PaidPlans : s = job[g].sub /\ p = job[g].plan
  BY JobAt DEF CallUpgrade, JobSold, Job, Plans
<1>2. UpgradeSubscription(s, p) /\ UNCHANGED <<row, recorded, acked>>
  BY <1>1 DEF CallUpgrade
<1>3. ProviderSold' /\ Grows /\ Sent \subseteq Sent' /\ p \in sold'[s]
  BY <1>2, UpgradeKeeps, InvParts
<1>4. PICK w \in Job : w = [job[g] EXCEPT !.pc = "install"]
  BY JobAt DEF Job
<1>5. job' = [job EXCEPT ![g] = w]
  BY <1>4 DEF CallUpgrade, Goto
<1>6. /\ w.pc = "install" /\ w.sub = s /\ w.plan = p /\ w.event = job[g].event
      /\ s # NoSub
  BY <1>1, <1>4, JobAt, NoSubIsNone DEF Job
<1>7. JobSold(w)'
  BY <1>3, <1>6 DEF JobSold
<1>8. RowInv' /\ acked' \subseteq Sent'
  BY <1>2, <1>3, RowStays, InvParts
<1> QED BY <1>2, <1>3, <1>5, <1>6, <1>7, <1>8, Moved

LEMMA RequestCancelStep ==
  ASSUME BillingInv, NEW g \in Goroutines, RequestCancel(g)
  PROVE  BillingInv'
<1>1. PICK w \in Job :
        w = [pc |-> "drop", event |-> 0, sub |-> NoSub, plan |-> "free", old |-> sub]
  BY InvParts DEF RowInv, RowTyped, Job, Plans
<1>2. job' = [job EXCEPT ![g] = w] /\ UNCHANGED <<row, recorded, acked>>
  BY <1>1 DEF RequestCancel, Start
<1>3. w.pc = "drop" /\ w.old # NoSub /\ w.event = 0
  BY <1>1 DEF RequestCancel
<1>4. JobSold(w)'
  BY <1>3 DEF JobSold
<1>5. ProviderSold' /\ Grows /\ Sent' = Sent
  BY ProviderIdle DEF RequestCancel
<1>6. RowInv' /\ acked' \subseteq Sent'
  BY <1>2, <1>5, RowStays, InvParts
<1> QED BY <1>2, <1>3, <1>4, <1>5, <1>6, Moved

LEMMA CallCancelStep ==
  ASSUME BillingInv, NEW g \in Goroutines, CallCancel(g)
  PROVE  BillingInv'
<1>1. PICK s \in Subs : s = job[g].old
  BY JobAt DEF CallCancel, JobSold, Job
<1>2. CancelSubscription(s) /\ UNCHANGED <<row, recorded, acked>>
  BY <1>1 DEF CallCancel
<1>3. ProviderSold' /\ Grows /\ Sent \subseteq Sent'
  BY <1>2, CancelKeeps, InvParts
<1>4. job' = [job EXCEPT ![g] = Idle]
  BY DEF CallCancel, Return
<1>5. RowInv' /\ acked' \subseteq Sent'
  BY <1>2, <1>3, RowStays, InvParts
<1> QED BY <1>2, <1>3, <1>4, <1>5, IdleIsJob, IdleSold, Moved

LEMMA ReadOldStep ==
  ASSUME BillingInv, NEW g \in Goroutines, ReadOld(g)
  PROVE  BillingInv'
<1>1. PICK old \in {sub, NoSub} :
        job' = [job EXCEPT ![g] =
                 [job[g] EXCEPT !.old = old,
                   !.pc = IF old \in {NoSub, job[g].sub} THEN "install" ELSE "replace"]]
  BY DEF ReadOld
<1>2. PICK pc \in {"install", "replace"} :
        pc = IF old \in {NoSub, job[g].sub} THEN "install" ELSE "replace"
  OBVIOUS
<1>3. old \in Subs \cup {NoSub}
  BY InvParts DEF RowInv, RowTyped
<1>4. PICK w \in Job : w = [job[g] EXCEPT !.old = old, !.pc = pc]
  BY <1>3, JobAt DEF Job
<1>5. job' = [job EXCEPT ![g] = w]
  BY <1>1, <1>2, <1>4
<1>6. /\ w.pc = pc /\ w.old = old /\ w.event = job[g].event
      /\ w.sub = job[g].sub /\ w.plan = job[g].plan
  BY <1>4, JobAt DEF Job
<1>7. ProviderSold' /\ Grows /\ Sent' = Sent /\ UNCHANGED <<row, recorded, acked>>
  BY ProviderIdle DEF ReadOld
<1>8. job[g].pc = "read" /\ job[g].sub # NoSub /\ job[g].sub \in Subs
      /\ job[g].plan \in sold[job[g].sub]
  BY JobAt DEF ReadOld, JobSold, Job
<1>9. JobSold(w)'
  BY <1>2, <1>6, <1>7, <1>8 DEF JobSold, Grows
<1>10. RowInv' /\ acked' \subseteq Sent'
  BY <1>7, RowStays, InvParts
<1> QED BY <1>5, <1>6, <1>7, <1>9, <1>10, Moved

\* Replace and ReplaceFails go on to install what was sold.
LEMMA InstallNext ==
  ASSUME BillingInv, NEW g \in Goroutines, job[g].pc = "replace", Goto(g, "install"),
         ProviderSold', Grows, Sent \subseteq Sent', UNCHANGED <<row, recorded, acked>>
  PROVE  BillingInv'
<1>1. PICK w \in Job : w = [job[g] EXCEPT !.pc = "install"]
  BY JobAt DEF Job
<1>2. job' = [job EXCEPT ![g] = w]
  BY <1>1 DEF Goto
<1>3. /\ w.pc = "install" /\ w.event = job[g].event
      /\ w.sub = job[g].sub /\ w.plan = job[g].plan
  BY <1>1, JobAt DEF Job
<1>4. job[g].sub # NoSub /\ job[g].sub \in Subs /\ job[g].plan \in sold[job[g].sub]
  BY JobAt DEF JobSold, Job
<1>5. JobSold(w)'
  BY <1>3, <1>4 DEF JobSold, Grows
<1>6. RowInv' /\ acked' \subseteq Sent'
  BY RowStays, InvParts
<1> QED BY <1>2, <1>3, <1>5, <1>6, Moved

LEMMA ReplaceStep ==
  ASSUME BillingInv, NEW g \in Goroutines, Replace(g) \/ ReplaceFails(g)
  PROVE  BillingInv'
<1>1. CASE Replace(g)
  <2>1. PICK s \in Subs : s = job[g].old
    BY <1>1, JobAt DEF Replace, JobSold, Job
  <2>2. ProviderSold' /\ Grows /\ Sent \subseteq Sent'
    BY <1>1, <2>1, CancelKeeps, InvParts DEF Replace
  <2> QED BY <1>1, <2>2, InstallNext DEF Replace
<1>2. CASE ReplaceFails(g)
  <2>1. ProviderSold' /\ Grows /\ Sent' = Sent
    BY <1>2, ProviderIdle DEF ReplaceFails
  <2> QED BY <1>2, <2>1, InstallNext DEF ReplaceFails
<1> QED BY <1>1, <1>2

\* A goroutine that returns, whatever it did to the row.
LEMMA ReturnStep ==
  ASSUME BillingInv, NEW g \in Goroutines, Return(g), UNCHANGED <<recorded, provider>>,
         acked' \subseteq Sent', RowInv'
  PROVE  BillingInv'
<1>1. ProviderSold' /\ Grows /\ Sent' = Sent
  BY ProviderIdle
<1>2. job' = [job EXCEPT ![g] = Idle]
  BY DEF Return
<1> QED BY <1>1, <1>2, IdleIsJob, IdleSold, Moved

LEMMA InstallStep ==
  ASSUME BillingInv, NEW g \in Goroutines, Install(g)
  PROVE  BillingInv'
<1>1. ProviderSold' /\ Grows /\ Sent' = Sent
  BY ProviderIdle DEF Install
<1>2. sold' \in [Subs -> SUBSET PaidPlans] /\ sold \in [Subs -> SUBSET PaidPlans]
  BY <1>1, InvParts DEF ProviderSold, ProviderTyped
<1>3. PICK s \in Subs, p \in PaidPlans : s = job[g].sub /\ p = job[g].plan /\ p \in sold[s]
  BY <1>2, JobAt DEF Install, JobSold, Job
<1>4. RowInv'
  BY <1>1, <1>2, <1>3, RowInstalled, InvParts DEF Install
<1>5. acked' \subseteq Sent'
  BY <1>1, AckEffect DEF Install
<1> QED BY <1>4, <1>5, ReturnStep DEF Install

LEMMA DowngradeStep ==
  ASSUME BillingInv, NEW g \in Goroutines, Downgrade(g)
  PROVE  BillingInv'
<1>1. Sent' = Sent /\ plan' = "free" /\ sub' = sub
  BY ProviderIdle DEF Downgrade
<1>2. RowInv'
  BY <1>1, InvParts DEF RowInv, RowTyped, PlanWasSold, Plans
<1>3. acked' \subseteq Sent'
  BY <1>1, AckEffect DEF Downgrade
<1> QED BY <1>2, <1>3, ReturnStep DEF Downgrade

LEMMA AbortStep ==
  ASSUME BillingInv, NEW g \in Goroutines, Abort(g)
  PROVE  BillingInv'
<1>1. Grows /\ Sent' = Sent /\ UNCHANGED <<row, recorded, provider, acked>>
  BY ProviderIdle DEF Abort
<1>2. RowInv' /\ acked' \subseteq Sent'
  BY <1>1, RowStays, InvParts
<1> QED BY <1>1, <1>2, ReturnStep DEF Abort

\* The one step that takes up an event: it was not recorded, so nobody has it.
LEMMA DeliverStep ==
  ASSUME BillingInv, NEW g \in Goroutines, NEW e \in Events, Deliver(g, e)
  PROVE  BillingInv'
<1>1. /\ e \in Sent \ recorded /\ recorded' = recorded \cup {e}
      /\ UNCHANGED <<row, provider>>
  BY DEF Deliver, Handle
<1>2. ProviderSold' /\ Grows /\ Sent' = Sent
  BY <1>1, ProviderIdle
<1>3. /\ recorded' \subseteq Sent' /\ recorded \subseteq recorded' /\ e # 0
      /\ acked \subseteq Sent' /\ acked \cup {e} \subseteq Sent'
  BY <1>1, <1>2, InvParts DEF Events
<1>4. RowInv'
  BY <1>1, <1>2, RowStays, InvParts
<1>5. event[e] \in Event
  BY <1>1, InvParts DEF ProviderSold, ProviderTyped
<1>6. CASE event[e].kind = "activated"
  <2>1. PICK w \in Job : w = [pc |-> "read", event |-> e, sub |-> event[e].sub,
                              plan |-> event[e].plan, old |-> NoSub]
    BY <1>5 DEF Job, Event, Plans
  <2>2. job' = [job EXCEPT ![g] = w] /\ UNCHANGED acked
    BY <1>6, <2>1 DEF Deliver, Handle, Start
  <2>3. w.pc = "read" /\ w.event = e /\ w.sub = event[e].sub /\ w.plan = event[e].plan
    BY <2>1
  <2>4. event[e].sub \in Subs /\ event[e].plan \in sold[event[e].sub]
    BY <1>1, <1>5, <1>6, InvParts DEF ProviderSold, EventsSold, Event
  <2>5. JobSold(w)'
    BY <1>2, <2>3, <2>4, NoSubIsNone DEF JobSold, Grows
  <2> QED BY <1>1, <1>2, <1>3, <1>4, <2>2, <2>3, <2>5, GoroutineStep
<1>7. CASE event[e].kind = "ended"
  <2>1. PICK w \in Job : w = [pc |-> "downgrade", event |-> e, sub |-> NoSub,
                              plan |-> "free", old |-> NoSub]
    BY DEF Job, Plans
  <2>2. job' = [job EXCEPT ![g] = w] /\ UNCHANGED acked
    BY <1>7, <2>1 DEF Deliver, Handle, Start
  <2>3. w.pc = "downgrade" /\ w.event = e
    BY <2>1
  <2>4. JobSold(w)'
    BY <2>3 DEF JobSold
  <2> QED BY <1>1, <1>2, <1>3, <1>4, <2>2, <2>3, <2>4, GoroutineStep
<1>8. CASE event[e].kind = "noted"
  <2>1. job' = job /\ acked' = acked \cup {e}
    BY <1>8 DEF Deliver, Handle
  <2>2. HandsInv'
    BY <1>2, <1>3, <2>1, HandsStay, InvParts DEF ProviderSold, ProviderTyped
  <2> QED BY <1>2, <1>3, <1>4, <2>1, <2>2, InvPartsNext
<1> QED BY <1>5, <1>6, <1>7, <1>8 DEF Event, Kinds

LEMMA DuplicateStep ==
  ASSUME BillingInv, NEW e \in Events, Duplicate(e)
  PROVE  BillingInv'
<1>1. ProviderSold' /\ Grows /\ Sent' = Sent
  BY ProviderIdle DEF Duplicate
<1> QED BY <1>1, ProviderStep, InvParts DEF Duplicate

LEMMA ProviderSteps ==
  ASSUME BillingInv, NEW s \in Subs,
         \/ Renew(s) \/ End(s)
         \/ \E p \in PaidPlans : Checkout(s, p)
  PROVE  BillingInv'
<1>1. ProviderSold /\ acked \subseteq Sent
  BY InvParts
<1>2. ProviderSold' /\ Grows /\ Sent \subseteq Sent'
  BY <1>1, RenewKeeps, EndKeeps, CheckoutKeeps
<1>3. UNCHANGED <<row, recorded, job, acked>>
  BY DEF Renew, End, Checkout
<1> QED BY <1>1, <1>2, <1>3, ProviderStep

LEMMA BillingInit == Init => BillingInv
<1> SUFFICES ASSUME Init PROVE BillingInv
  OBVIOUS
<1>1. Sent = {}
  BY DEF Init, Sent
<1>2. ProviderSold
  BY <1>1 DEF Init, ProviderSold, ProviderTyped, EventsSold, ProductsSold, PaidPlans
<1>3. HandsInv
  BY IdleIsJob DEF Init, HandsInv, InHandRecorded, AppliedOnce, JobsSold
<1>4. RowInv
  BY DEF Init, RowInv, RowTyped, PlanWasSold, Plans
<1> QED BY <1>2, <1>3, <1>4, InvParts DEF Init

LEMMA BillingNext == BillingInv /\ [Next]_vars => BillingInv'
<1> SUFFICES ASSUME BillingInv, [Next]_vars PROVE BillingInv'
  OBVIOUS
<1>1. CASE UNCHANGED vars
  <2>1. UNCHANGED provider /\ UNCHANGED <<row, recorded, job, acked>>
    BY <1>1 DEF vars, provider, row
  <2>2. ProviderSold' /\ Grows /\ Sent' = Sent
    BY <2>1, ProviderIdle
  <2> QED BY <2>1, <2>2, ProviderStep, InvParts
<1>2. CASE Next
  BY <1>2, ProviderSteps, RequestCancelStep, RequestUpgradeStep, DeliverStep,
     DuplicateStep, CallUpgradeStep, CallCancelStep, ReadOldStep, ReplaceStep,
     InstallStep, DowngradeStep, AbortStep
     DEF Next, Step
<1> QED BY <1>1, <1>2

LEMMA BillingAlways == Spec => []BillingInv
  BY BillingInit, BillingNext, PTL DEF Spec

(***************************************************************************)
(* The row, the handlers and the provider are always well typed.           *)
(***************************************************************************)
THEOREM BillingTyped == Spec => []TypeOK
<1>1. BillingInv => TypeOK
  BY DEF BillingInv
<1> QED BY BillingAlways, <1>1, PTL

\* recordEvent: an event is in at most one hand, whatever is repeated to whichever
\* replica.
THEOREM EventsAppliedOnce == Spec => []AppliedOnce
<1>1. BillingInv => AppliedOnce
  BY DEF BillingInv
<1> QED BY BillingAlways, <1>1, PTL

\* updateSubscriptionPlan writes a plan together with a subscription it was sold
\* for, so that no interleaving pairs a plan with the wrong one.
THEOREM PaidPlansWereSold == Spec => []PlanWasSold
<1>1. BillingInv => PlanWasSold
  BY DEF BillingInv
<1> QED BY BillingAlways, <1>1, PTL

-----------------------------------------------------------------------------
(***************************************************************************)
(* Cuts: what holds by counting, and the two recursive readings.           *)
(***************************************************************************)
\* What holds of 0, and of the successor of each number it holds of, holds of all.
LEMMA CountingUp ==
  ASSUME NEW S, 0 \in S, \A n \in Nat : n \in S => n + 1 \in S
  PROVE  \A n \in Nat : n \in S
<1> SUFFICES ASSUME Nat \ S # {} PROVE FALSE
  OBVIOUS
<1> DEFINE T == Nat \ S
<1>0. T \subseteq Nat /\ T # {}
  OBVIOUS
<1>1. PICK m \in T : \A y \in T : ~ (<<y, m>> \in OpToRel(<, Nat))
  <2> HIDE DEF T
  <2> QED BY <1>0, WFMin, NatLessThanWellFounded
<1>2. \A y \in T : ~(y < m)
  BY <1>0, <1>1 DEF OpToRel
<1>3. m \in Nat /\ m \notin S /\ m # 0
  BY <1>1
<1>4. m - 1 \in Nat /\ m - 1 < m /\ (m - 1) + 1 = m
  BY <1>3
<1>5. m - 1 \in S
  BY <1>2, <1>4
<1> QED BY <1>3, <1>4, <1>5

\* The lines of a log are read one after the other.
LEMMA ReadIs ==
  ASSUME NEW log, Len(log) \in Nat
  PROVE  ReadLines(log) = [i \in 0 .. Len(log) |->
           IF i = 0 THEN [pending |-> -1, found |-> <<>>]
           ELSE ReadLine(ReadLines(log)[i-1], log[i])]
<1> DEFINE first == [pending |-> -1, found |-> <<>>]
           Reads(g, n) == g = [i \in 0 .. n |-> IF i = 0 THEN first ELSE ReadLine(g[i-1], log[i])]
           Read == {n \in Nat : \E g : Reads(g, n)}
<1>1. 0 \in Read
  <2>1. Reads([i \in 0 .. 0 |-> first], 0)
    OBVIOUS
  <2> QED BY <2>1
<1>2. ASSUME NEW n \in Nat, n \in Read PROVE n + 1 \in Read
  <2>1. PICK g : Reads(g, n)
    BY <1>2
  <2> DEFINE h == [i \in 0 .. n + 1 |-> IF i = n + 1 THEN ReadLine(g[n], log[n + 1]) ELSE g[i]]
  <2>2. g[0] = first /\ \A i \in 1 .. n : g[i] = ReadLine(g[i-1], log[i])
    <3> HIDE DEF first
    <3> QED BY <2>1
  <2>3. h[0] = first /\ \A i \in 1 .. n + 1 : h[i] = ReadLine(h[i-1], log[i])
    <3>1. h[0] = first
      BY <2>2
    <3>2. ASSUME NEW i \in 1 .. n + 1 PROVE h[i] = ReadLine(h[i-1], log[i])
      <4>1. CASE i = n + 1
        <5>1. i - 1 = n /\ n \in 0 .. n + 1 /\ n # n + 1
          BY <4>1
        <5>2. h[n] = g[n]
          BY <5>1
        <5> QED BY <4>1, <5>1, <5>2
      <4>2. CASE i # n + 1
        <5>1. /\ i \in 1 .. n /\ i - 1 \in 0 .. n + 1 /\ i \in 0 .. n + 1
              /\ i - 1 # n + 1
          BY <4>2
        <5>2. h[i] = g[i] /\ h[i-1] = g[i-1]
          BY <4>2, <5>1
        <5> QED BY <2>2, <5>1, <5>2
      <4> QED BY <4>1, <4>2
    <3> QED BY <3>1, <3>2
  <2>4. Reads(h, n + 1)
    <3>1. h = [i \in 0 .. n + 1 |-> h[i]]
      OBVIOUS
    <3>2. \A i \in 0 .. n + 1 : h[i] = IF i = 0 THEN first ELSE ReadLine(h[i-1], log[i])
      <4> HIDE DEF h, first
      <4> QED BY <2>3
    <3> HIDE DEF h, first
    <3> QED BY <3>1, <3>2
  <2> HIDE DEF Reads
  <2> QED BY <2>4
<1>3. Len(log) \in Read
  <2> HIDE DEF Read
  <2> QED BY <1>1, <1>2, CountingUp
<1>4. PICK g : Reads(g, Len(log))
  BY <1>3
<1>5. ReadLines(log) = CHOOSE r : Reads(r, Len(log))
  BY DEF ReadLines
<1>6. Reads(ReadLines(log), Len(log))
  <2> HIDE DEF Reads
  <2> QED BY <1>4, <1>5
<1> QED BY <1>6

\* The segments are kept or dropped one after the other.
LEMMA KeepIs ==
  ASSUME NEW found, NEW d, Len(found) \in Nat
  PROVE  KeepEach(found, d) = [i \in 0 .. Len(found) |->
           IF i = 0 THEN <<>>
           ELSE Keep(KeepEach(found, d)[i-1], found[i], d)]
<1> DEFINE Keeps(g, n) == g = [i \in 0 .. n |-> IF i = 0 THEN <<>> ELSE Keep(g[i-1], found[i], d)]
           Kept == {n \in Nat : \E g : Keeps(g, n)}
<1>1. 0 \in Kept
  <2>1. Keeps([i \in 0 .. 0 |-> <<>>], 0)
    OBVIOUS
  <2> QED BY <2>1
<1>2. ASSUME NEW n \in Nat, n \in Kept PROVE n + 1 \in Kept
  <2>1. PICK g : Keeps(g, n)
    BY <1>2
  <2> DEFINE h == [i \in 0 .. n + 1 |-> IF i = n + 1 THEN Keep(g[n], found[n + 1], d) ELSE g[i]]
  <2>2. g[0] = <<>> /\ \A i \in 1 .. n : g[i] = Keep(g[i-1], found[i], d)
    BY <2>1
  <2>3. h[0] = <<>> /\ \A i \in 1 .. n + 1 : h[i] = Keep(h[i-1], found[i], d)
    <3>1. h[0] = <<>>
      BY <2>2
    <3>2. ASSUME NEW i \in 1 .. n + 1 PROVE h[i] = Keep(h[i-1], found[i], d)
      <4>1. CASE i = n + 1
        <5>1. i - 1 = n /\ n \in 0 .. n + 1 /\ n # n + 1
          BY <4>1
        <5>2. h[n] = g[n]
          BY <5>1
        <5> QED BY <4>1, <5>1, <5>2
      <4>2. CASE i # n + 1
        <5>1. /\ i \in 1 .. n /\ i - 1 \in 0 .. n + 1 /\ i \in 0 .. n + 1
              /\ i - 1 # n + 1
          BY <4>2
        <5>2. h[i] = g[i] /\ h[i-1] = g[i-1]
          BY <4>2, <5>1
        <5> QED BY <2>2, <5>1, <5>2
      <4> QED BY <4>1, <4>2
    <3> QED BY <3>1, <3>2
  <2>4. Keeps(h, n + 1)
    <3>1. h = [i \in 0 .. n + 1 |-> h[i]]
      OBVIOUS
    <3>2. \A i \in 0 .. n + 1 : h[i] = IF i = 0 THEN <<>> ELSE Keep(h[i-1], found[i], d)
      <4> HIDE DEF h
      <4> QED BY <2>3
    <3> HIDE DEF h
    <3> QED BY <3>1, <3>2
  <2> HIDE DEF Keeps
  <2> QED BY <2>4
<1>3. Len(found) \in Kept
  <2> HIDE DEF Kept
  <2> QED BY <1>1, <1>2, CountingUp
<1>4. PICK g : Keeps(g, Len(found))
  BY <1>3
<1>5. KeepEach(found, d) = CHOOSE r : Keeps(r, Len(found))
  BY DEF KeepEach
<1>6. Keeps(KeepEach(found, d), Len(found))
  <2> HIDE DEF Keeps
  <2> QED BY <1>4, <1>5
<1> QED BY <1>6

\* The lines of a log are of later and later times.
LEMMA NthAscends ==
  ASSUME NEW T, IsFiniteSet(T), T \subseteq Int
  PROVE  /\ \A i \in 1 .. Cardinality(T) : Nth(T, i) \in T
         /\ \A i, j \in 1 .. Cardinality(T) : i < j => Nth(T, i) < Nth(T, j)
<1> DEFINE n == Cardinality(T)
           below(t) == {u \in T : u < t}
           rank == [t \in T |-> Cardinality(below(t))]
<1>1. n \in Nat
  BY FS_CardinalityType
<1>2. ASSUME NEW t \in T PROVE IsFiniteSet(below(t)) /\ rank[t] \in 0 .. n - 1
  <2>1. below(t) \in SUBSET T /\ t \notin below(t)
    OBVIOUS
  <2>2. rank[t] = Cardinality(below(t))
    OBVIOUS
  <2> HIDE DEF below, rank
  <2>3. IsFiniteSet(below(t)) /\ Cardinality(below(t)) <= n /\ Cardinality(below(t)) # n
    BY <2>1, FS_Subset
  <2>4. Cardinality(below(t)) \in Nat
    BY <2>3, FS_CardinalityType
  <2> HIDE DEF n
  <2> QED BY <1>1, <2>2, <2>3, <2>4
<1>3. ASSUME NEW t \in T, NEW u \in T, t < u PROVE rank[t] < rank[u]
  <2>1. below(t) \in SUBSET below(u) /\ t \in below(u) /\ t \notin below(t)
    <3>1. \A v \in T : v \in Int /\ (v < t => v < u)
      BY <1>3
    <3>2. ~(t < t)
      BY <3>1
    <3> QED BY <1>3, <3>1, <3>2
  <2>2. rank[t] = Cardinality(below(t)) /\ rank[u] = Cardinality(below(u))
    OBVIOUS
  <2> HIDE DEF below
  <2>3. Cardinality(below(t)) <= Cardinality(below(u)) /\ Cardinality(below(t)) # Cardinality(below(u))
    BY <1>2, <2>1, FS_Subset
  <2>4. Cardinality(below(t)) \in Nat /\ Cardinality(below(u)) \in Nat
    BY <1>2, FS_CardinalityType
  <2> QED BY <2>2, <2>3, <2>4
<1>4. rank \in Injection(T, 0 .. n - 1)
  <2>1. rank \in [T -> 0 .. n - 1]
    <3>1. rank = [t \in T |-> rank[t]]
      OBVIOUS
    <3> HIDE DEF rank, n
    <3> QED BY <1>2, <3>1
  <2>2. ASSUME NEW t \in T, NEW u \in T, rank[t] = rank[u] PROVE t = u
    <3>1. t \in Int /\ u \in Int /\ rank[t] \in 0 .. n - 1
      BY <1>2
    <3>2. ~(t < u) /\ ~(u < t)
      <4> HIDE DEF rank, n
      <4> QED BY <1>1, <1>3, <2>2, <3>1
    <3> QED BY <3>1, <3>2
  <2> HIDE DEF rank, n
  <2> QED BY <2>1, <2>2 DEF Injection, IsInjective
<1>5. rank \in Surjection(T, 0 .. n - 1)
  <2>1. IsFiniteSet(0 .. n - 1) /\ Cardinality(0 .. n - 1) = n
    <3> HIDE DEF n
    <3> QED BY <1>1, FS_Interval
  <2> HIDE DEF rank
  <2> QED BY <1>4, <2>1, FS_Injection
<1>6. ASSUME NEW i \in 1 .. n PROVE Nth(T, i) \in T /\ rank[Nth(T, i)] = i - 1
  <2>1. PICK t \in T : rank[t] = i - 1
    <3>1. i - 1 \in 0 .. n - 1
      <4> HIDE DEF n
      <4> QED BY <1>1
    <3> HIDE DEF rank, n
    <3> QED BY <1>5, <3>1 DEF Surjection
  <2>2. Cardinality({u \in T : u < t}) = i - 1
    BY <2>1
  <2>3. Nth(T, i) \in T /\ Cardinality({u \in T : u < Nth(T, i)}) = i - 1
    BY <2>2 DEF Nth
  <2> QED BY <2>3
<1>7. ASSUME NEW i \in 1 .. n, NEW j \in 1 .. n, i < j PROVE Nth(T, i) < Nth(T, j)
  <2> DEFINE t == Nth(T, i)
             u == Nth(T, j)
  <2>1. t \in T /\ u \in T /\ rank[t] = i - 1 /\ rank[u] = j - 1
    BY <1>6
  <2>2. t \in Int /\ u \in Int /\ i \in Int /\ j \in Int
    <3> HIDE DEF n, t, u
    <3> QED BY <1>1, <2>1
  <2> HIDE DEF t, u, rank, n
  <2>3. t # u /\ ~(u < t)
    BY <1>3, <1>7, <2>1, <2>2
  <2> QED BY <2>2, <2>3 DEF t, u
<1> QED BY <1>6, <1>7

(***************************************************************************)
(* Silences one after the other, all over by a time t.                     *)
(***************************************************************************)
Silence == [start : Nat, end : Nat]

InOrder(found, t) ==
  /\ found \in Seq(Silence)
  /\ \A i \in 1 .. Len(found) : found[i].start < found[i].end /\ found[i].end <= t
  /\ \A i \in 2 .. Len(found) : found[i].start >= found[i-1].end

LEMMA EachIsSilence ==
  ASSUME NEW found \in Seq(Silence)
  PROVE  /\ Len(found) \in Nat
         /\ \A i \in 1 .. Len(found) : found[i] \in Silence /\ found[i].start \in Nat /\ found[i].end \in Nat
<1>1. Len(found) \in Nat /\ \A i \in 1 .. Len(found) : found[i] \in Silence
  OBVIOUS
<1> QED BY <1>1 DEF Silence

\* What is over by t is over later.
LEMMA InOrderLater ==
  ASSUME NEW found, NEW t \in Int, NEW u \in Int, InOrder(found, t), t <= u
  PROVE  InOrder(found, u)
<1>1. /\ Len(found) \in Nat
      /\ \A i \in 1 .. Len(found) : found[i].end \in Nat
  BY EachIsSilence DEF InOrder
<1>2. \A i \in 1 .. Len(found) : found[i].end <= u
  <2> TAKE i \in 1 .. Len(found)
  <2>1. found[i].end \in Nat /\ found[i].end <= t
    BY <1>1 DEF InOrder
  <2> QED BY <2>1
<1> QED BY <1>2 DEF InOrder

\* One more, that starts after the others are over.
LEMMA OneMore ==
  ASSUME NEW found, NEW t \in Int, InOrder(found, t),
         NEW s \in Silence, t <= s.start, s.start < s.end
  PROVE  InOrder(Append(found, s), s.end)
<1> DEFINE more == Append(found, s)
<1>1. /\ found \in Seq(Silence) /\ Len(found) \in Nat
      /\ \A i \in 1 .. Len(found) : found[i].start \in Nat /\ found[i].end \in Nat
  BY EachIsSilence DEF InOrder
<1>2. s.start \in Nat /\ s.end \in Nat
  BY DEF Silence
<1>3. /\ more \in Seq(Silence) /\ Len(more) = Len(found) + 1
      /\ more[Len(found) + 1] = s /\ \A i \in 1 .. Len(found) : more[i] = found[i]
  BY <1>1
<1> HIDE DEF more
<1>4. ASSUME NEW i \in 1 .. Len(more)
      PROVE  more[i].start < more[i].end /\ more[i].end <= s.end
  <2>1. CASE i = Len(found) + 1
    BY <1>2, <1>3, <2>1
  <2>2. CASE i \in 1 .. Len(found)
    <3>1. found[i].end \in Nat /\ found[i].start < found[i].end /\ found[i].end <= t
      BY <1>1, <2>2 DEF InOrder
    <3>2. more[i] = found[i]
      BY <1>3, <2>2
    <3> QED BY <1>2, <3>1, <3>2
  <2> QED BY <1>1, <1>3, <2>1, <2>2
<1>5. ASSUME NEW i \in 2 .. Len(more)
      PROVE  more[i].start >= more[i-1].end
  <2>1. i - 1 \in 1 .. Len(found)
    BY <1>1, <1>3
  <2>2. more[i-1] = found[i-1] /\ found[i-1].end \in Nat /\ found[i-1].end <= t
    BY <1>1, <1>3, <2>1 DEF InOrder
  <2>3. CASE i = Len(found) + 1
    BY <1>2, <1>3, <2>2, <2>3
  <2>4. CASE i \in 2 .. Len(found)
    <3>1. i \in 1 .. Len(found)
      BY <1>1, <2>4
    <3>2. found[i].start >= found[i-1].end
      BY <2>4 DEF InOrder
    <3>3. more[i] = found[i]
      BY <1>3, <3>1
    <3> QED BY <2>2, <3>2, <3>3
  <2> QED BY <1>1, <1>3, <2>3, <2>4
<1>6. InOrder(more, s.end)
  BY <1>3, <1>4, <1>5 DEF InOrder
<1> QED BY <1>6 DEF more

(***************************************************************************)
(* A line takes what was read up to t to what is read up to its time.      *)
(***************************************************************************)
ReadUntil(was, t) ==
  /\ was.pending \in Int
  /\ was.pending = -1 => InOrder(was.found, t)
  /\ was.pending # -1 => was.pending \in Nat /\ was.pending <= t /\ InOrder(was.found, was.pending)
  /\ was = [pending |-> was.pending, found |-> was.found]

LEMMA ReadOneLine ==
  ASSUME NEW was, NEW t \in Int, NEW line, ReadUntil(was, t), line.at \in Nat, t < line.at
  PROVE  ReadUntil(ReadLine(was, line), line.at)
<1> DEFINE now == ReadLine(was, line)
<1>1. InOrder(was.found, t)
  <2>1. was.pending # -1 => was.pending \in Int /\ was.pending <= t /\ InOrder(was.found, was.pending)
    BY DEF ReadUntil
  <2>2. was.pending = -1 => InOrder(was.found, t)
    BY DEF ReadUntil
  <2> QED BY <2>1, <2>2, InOrderLater
<1>2. InOrder(was.found, line.at)
  <2>1. line.at \in Int /\ t <= line.at
    OBVIOUS
  <2> QED BY <1>1, <2>1, InOrderLater
<1>3. CASE line.what = "start"
  <2>1. now = [pending |-> line.at, found |-> was.found]
    BY <1>3 DEF ReadLine, ReadUntil
  <2>2. now.pending = line.at /\ now.found = was.found
    BY <2>1
  <2> HIDE DEF now
  <2>3. ReadUntil(now, line.at)
    BY <1>2, <2>1, <2>2 DEF ReadUntil
  <2> QED BY <2>3 DEF now
<1>4. CASE line.what # "start" /\ was.pending = -1
  <2>1. now = was
    BY <1>4 DEF ReadLine
  <2>2. ReadUntil(was, line.at)
    BY <1>2, <1>4 DEF ReadUntil
  <2> QED BY <2>1, <2>2
<1>5. CASE line.what # "start" /\ was.pending # -1
  <2> DEFINE s == [start |-> was.pending, end |-> line.at]
  <2>1. now = [pending |-> -1, found |-> Append(was.found, s)]
    BY <1>5 DEF ReadLine
  <2>2. was.pending \in Nat /\ was.pending <= t /\ InOrder(was.found, was.pending)
    BY <1>5 DEF ReadUntil
  <2>3. s \in Silence /\ was.pending <= s.start /\ s.start < s.end /\ s.end = line.at
    BY <2>2 DEF Silence
  <2>4. now.pending = -1 /\ now.found = Append(was.found, s)
    BY <2>1
  <2> HIDE DEF s, now
  <2>5. InOrder(Append(was.found, s), line.at)
    BY <2>2, <2>3, OneMore
  <2>6. ReadUntil(now, line.at)
    BY <2>1, <2>4, <2>5 DEF ReadUntil
  <2> QED BY <2>6 DEF now
<1> QED BY <1>3, <1>4, <1>5

\* The lines of a log are of later and later times, none beyond the object's end.
LEMMA LogAscends ==
  ASSUME NEW l \in Nat, NEW log \in Logs(l)
  PROVE  /\ Len(log) \in Nat
         /\ \A i \in 1 .. Len(log) : log[i].at \in 0 .. l
         /\ \A i \in 1 .. Len(log), j \in 1 .. Len(log) : i < j => log[i].at < log[j].at
<1> DEFINE line(T, first, i) ==
             [what |-> IF i % 2 = 1 THEN first ELSE IF first = "start" THEN "end" ELSE "start",
              at |-> Nth(T, i)]
<1>1. PICK T \in SUBSET (0 .. l), first \in {"start", "end"} :
        log = [i \in 1 .. Cardinality(T) |-> line(T, first, i)]
  BY DEF Logs
<1>2. IsFiniteSet(T) /\ T \subseteq Int /\ Cardinality(T) \in Nat
  <2>1. IsFiniteSet(0 .. l)
    BY FS_Interval
  <2>2. IsFiniteSet(T)
    BY <2>1, FS_Subset
  <2> QED BY <2>2, FS_CardinalityType
<1>3. \A i \in 1 .. Cardinality(T) : line(T, first, i).at = Nth(T, i)
  OBVIOUS
<1> HIDE DEF line
<1>4. Len(log) = Cardinality(T) /\ \A i \in 1 .. Cardinality(T) : log[i] = line(T, first, i)
  BY <1>1, <1>2
<1>5. \A i \in 1 .. Cardinality(T) : log[i].at = Nth(T, i)
  BY <1>3, <1>4
<1>6. /\ \A i \in 1 .. Cardinality(T) : Nth(T, i) \in T
      /\ \A i, j \in 1 .. Cardinality(T) : i < j => Nth(T, i) < Nth(T, j)
  BY <1>2, NthAscends
<1> QED BY <1>2, <1>4, <1>5, <1>6

\* What ffmpeg's log is read as: silences in order, none beyond the object's end.
LEMMA ParsedInOrder ==
  ASSUME NEW l \in Nat, NEW log \in Logs(l)
  PROVE  InOrder(parseSilenceDetectOutput(log), l)
<1> DEFINE read == ReadLines(log)
           upto(i) == IF i = 0 THEN -1 ELSE log[i].at
           Good == {n \in Nat : n <= Len(log) => ReadUntil(read[n], upto(n))}
<1>1. /\ Len(log) \in Nat
      /\ \A i \in 1 .. Len(log) : log[i].at \in 0 .. l
      /\ \A i \in 1 .. Len(log), j \in 1 .. Len(log) : i < j => log[i].at < log[j].at
  BY LogAscends
<1>2. /\ read[0] = [pending |-> -1, found |-> <<>>]
      /\ \A i \in 1 .. Len(log) : read[i] = ReadLine(read[i-1], log[i])
  <2>1. read = [i \in 0 .. Len(log) |->
          IF i = 0 THEN [pending |-> -1, found |-> <<>>] ELSE ReadLine(read[i-1], log[i])]
    BY <1>1, ReadIs
  <2> HIDE DEF read
  <2>2. 0 \in 0 .. Len(log) /\ \A i \in 1 .. Len(log) : i \in 0 .. Len(log) /\ i # 0
    BY <1>1
  <2> QED BY <2>1, <2>2
<1> HIDE DEF read
<1>3. 0 \in Good
  <2>1. InOrder(<<>>, -1)
    <3>1. <<>> \in Seq(Silence) /\ Len(<<>>) = 0
      OBVIOUS
    <3> QED BY <3>1 DEF InOrder
  <2>2. read[0].pending = -1 /\ read[0].found = <<>>
    BY <1>2
  <2>3. ReadUntil(read[0], -1)
    BY <1>2, <2>1, <2>2 DEF ReadUntil
  <2> QED BY <2>3
<1>4. ASSUME NEW n \in Nat, n \in Good PROVE n + 1 \in Good
  <2> SUFFICES ASSUME n + 1 <= Len(log) PROVE ReadUntil(read[n + 1], log[n + 1].at)
    OBVIOUS
  <2>1. ReadUntil(read[n], upto(n))
    BY <1>1, <1>4
  <2>2. n + 1 \in 1 .. Len(log) /\ (n + 1) - 1 = n
    BY <1>1
  <2>3. log[n + 1].at \in Nat /\ upto(n) \in Int /\ upto(n) < log[n + 1].at
    <3>1. log[n + 1].at \in 0 .. l
      BY <1>1, <2>2
    <3>2. CASE n = 0
      BY <3>1, <3>2
    <3>3. CASE n # 0
      <4>1. n \in 1 .. Len(log) /\ n < n + 1
        BY <1>1, <3>3
      <4>2. log[n].at \in 0 .. l /\ log[n].at < log[n + 1].at
        BY <1>1, <2>2, <4>1
      <4> QED BY <3>1, <3>3, <4>2
    <3> QED BY <3>2, <3>3
  <2>4. read[n + 1] = ReadLine(read[n], log[n + 1])
    BY <1>2, <2>2
  <2> HIDE DEF upto
  <2>5. ReadUntil(ReadLine(read[n], log[n + 1]), log[n + 1].at)
    BY <2>1, <2>3, ReadOneLine
  <2> QED BY <2>4, <2>5
<1>5. Len(log) \in Good
  <2> HIDE DEF Good
  <2> QED BY <1>1, <1>3, <1>4, CountingUp
<1>6. ReadUntil(read[Len(log)], upto(Len(log))) /\ upto(Len(log)) \in Int /\ upto(Len(log)) <= l
  <2>1. ReadUntil(read[Len(log)], upto(Len(log)))
    BY <1>1, <1>5
  <2>2. CASE Len(log) = 0
    BY <2>1, <2>2
  <2>3. CASE Len(log) # 0
    <3>1. Len(log) \in 1 .. Len(log)
      BY <1>1, <2>3
    <3>2. log[Len(log)].at \in 0 .. l
      BY <1>1, <3>1
    <3> QED BY <2>1, <2>3, <3>2
  <2> QED BY <2>2, <2>3
<1>7. InOrder(read[Len(log)].found, l)
  <2> HIDE DEF upto
  <2> DEFINE was == read[Len(log)]
             u == upto(Len(log))
  <2>1. /\ was.pending # -1 => was.pending \in Nat /\ was.pending <= u /\ InOrder(was.found, was.pending)
        /\ was.pending = -1 => InOrder(was.found, u)
    BY <1>6 DEF ReadUntil
  <2>2. u \in Int /\ u <= l
    BY <1>6
  <2> HIDE DEF was, u
  <2>3. CASE was.pending = -1
    BY <2>1, <2>2, <2>3, InOrderLater DEF was
  <2>4. CASE was.pending # -1
    <3>1. was.pending \in Int /\ was.pending <= l /\ InOrder(was.found, was.pending)
      BY <2>1, <2>2, <2>4
    <3>2. InOrder(was.found, l)
      BY <3>1, InOrderLater
    <3> QED BY <3>2 DEF was
  <2> QED BY <2>3, <2>4
<1> QED BY <1>7 DEF parseSilenceDetectOutput, read

(***************************************************************************)
(* A segment is cut at the row's duration, and kept while something of it  *)
(* is left.                                                                *)
(***************************************************************************)
Within(found, m) == \A i \in 1 .. Len(found) : found[i].end <= m

LEMMA KeepOne ==
  ASSUME NEW kept, NEW t \in Int, InOrder(kept, t), NEW d, d * Second \in Nat,
         Within(kept, d * Second), NEW s \in Silence, t <= s.start, s.start < s.end
  PROVE  InOrder(Keep(kept, s, d), s.end) /\ Within(Keep(kept, s, d), d * Second)
<1> DEFINE m == d * Second
           c == Cut(s, d)
<1>1. m \in Nat /\ s.start \in Nat /\ s.end \in Nat
  BY DEF Silence
<1>2. c \in Silence /\ c.start = s.start /\ c.end <= s.end /\ c.end <= m
  <2>1. s = [start |-> s.start, end |-> s.end]
    BY DEF Silence
  <2>2. c = [start |-> s.start, end |-> IF s.end > m THEN m ELSE s.end]
    BY <2>1 DEF Cut
  <2> HIDE DEF m, c
  <2> QED BY <1>1, <2>2 DEF Silence
<1>3. Within(kept, m)
  OBVIOUS
<1>4. Keep(kept, s, d) = IF s.start < m /\ c.end - s.start >= 1 THEN Append(kept, c) ELSE kept
  BY DEF Keep
<1> HIDE DEF m, c
<1>5. CASE s.start < m /\ c.end - s.start >= 1
  <2>1. c.end \in Nat /\ c.start < c.end /\ t <= c.start
    BY <1>1, <1>2, <1>5 DEF Silence
  <2>2. InOrder(Append(kept, c), c.end)
    BY <1>2, <2>1, OneMore
  <2>3. InOrder(Append(kept, c), s.end)
    BY <1>1, <1>2, <2>1, <2>2, InOrderLater
  <2>4. Within(Append(kept, c), m)
    <3> DEFINE more == Append(kept, c)
    <3>1. kept \in Seq(Silence) /\ Len(kept) \in Nat
      BY EachIsSilence DEF InOrder
    <3>2. /\ Len(more) = Len(kept) + 1 /\ more[Len(kept) + 1] = c
          /\ \A i \in 1 .. Len(kept) : more[i] = kept[i]
      BY <1>2, <3>1
    <3> HIDE DEF more
    <3>3. \A i \in 1 .. Len(more) : i = Len(kept) + 1 \/ i \in 1 .. Len(kept)
      BY <3>1, <3>2
    <3>4. Within(more, m)
      BY <1>2, <1>3, <3>2, <3>3 DEF Within
    <3> QED BY <3>4 DEF more
  <2> QED BY <1>4, <1>5, <2>3, <2>4 DEF m
<1>6. CASE ~(s.start < m /\ c.end - s.start >= 1)
  <2>1. InOrder(kept, s.end)
    <3>1. t <= s.end /\ s.end \in Int
      BY <1>1
    <3> QED BY <3>1, InOrderLater
  <2> QED BY <1>3, <1>4, <1>6, <2>1 DEF m
<1> QED BY <1>5, <1>6

\* What is left of silences in order is in order, and within the row's duration.
LEMMA ClampedInOrder ==
  ASSUME NEW l \in Nat, NEW found, InOrder(found, l), NEW d, d * Second \in Nat
  PROVE  InOrder(Clamped(found, d), l) /\ Within(Clamped(found, d), d * Second)
<1> DEFINE kept == KeepEach(found, d)
           upto(i) == IF i = 0 THEN 0 ELSE found[i].end
           Good == {n \in Nat : n <= Len(found) =>
                      InOrder(kept[n], upto(n)) /\ Within(kept[n], d * Second)}
<1>1. /\ found \in Seq(Silence) /\ Len(found) \in Nat
      /\ \A i \in 1 .. Len(found) : /\ found[i] \in Silence
                                    /\ found[i].start \in Nat /\ found[i].end \in Nat
                                    /\ found[i].start < found[i].end /\ found[i].end <= l
      /\ \A i \in 2 .. Len(found) : found[i].start >= found[i-1].end
  BY EachIsSilence DEF InOrder
<1>2. /\ kept[0] = <<>>
      /\ \A i \in 1 .. Len(found) : kept[i] = Keep(kept[i-1], found[i], d)
  <2>1. kept = [i \in 0 .. Len(found) |->
          IF i = 0 THEN <<>> ELSE Keep(kept[i-1], found[i], d)]
    BY <1>1, KeepIs
  <2> HIDE DEF kept
  <2>2. 0 \in 0 .. Len(found) /\ \A i \in 1 .. Len(found) : i \in 0 .. Len(found) /\ i # 0
    BY <1>1
  <2> QED BY <2>1, <2>2
<1> HIDE DEF kept
<1>3. 0 \in Good
  <2>1. <<>> \in Seq(Silence) /\ Len(<<>>) = 0
    OBVIOUS
  <2>2. InOrder(<<>>, 0) /\ Within(<<>>, d * Second)
    BY <2>1 DEF InOrder, Within
  <2> QED BY <1>2, <2>2
<1>4. ASSUME NEW n \in Nat, n \in Good PROVE n + 1 \in Good
  <2> SUFFICES ASSUME n + 1 <= Len(found)
               PROVE  InOrder(kept[n + 1], found[n + 1].end) /\ Within(kept[n + 1], d * Second)
    OBVIOUS
  <2>1. InOrder(kept[n], upto(n)) /\ Within(kept[n], d * Second)
    BY <1>1, <1>4
  <2>2. n + 1 \in 1 .. Len(found) /\ (n + 1) - 1 = n
    BY <1>1
  <2>3. upto(n) \in Int /\ upto(n) <= found[n + 1].start
    <3>1. CASE n = 0
      BY <1>1, <2>2, <3>1
    <3>2. CASE n # 0
      <4>1. n \in 1 .. Len(found) /\ n + 1 \in 2 .. Len(found)
        BY <1>1, <3>2
      <4>2. found[n + 1].start >= found[n].end
        BY <1>1, <2>2, <4>1
      <4> QED BY <1>1, <2>2, <3>2, <4>1, <4>2
    <3> QED BY <3>1, <3>2
  <2>4. kept[n + 1] = Keep(kept[n], found[n + 1], d)
    BY <1>2, <2>2
  <2>5. found[n + 1] \in Silence /\ found[n + 1].start < found[n + 1].end
    BY <1>1, <2>2
  <2> HIDE DEF upto
  <2> QED BY <2>1, <2>3, <2>4, <2>5, KeepOne
<1>5. Len(found) \in Good
  <2> HIDE DEF Good
  <2> QED BY <1>1, <1>3, <1>4, CountingUp
<1>6. /\ InOrder(kept[Len(found)], upto(Len(found))) /\ Within(kept[Len(found)], d * Second)
      /\ upto(Len(found)) \in Int /\ upto(Len(found)) <= l
  <2>1. InOrder(kept[Len(found)], upto(Len(found))) /\ Within(kept[Len(found)], d * Second)
    BY <1>1, <1>5
  <2>2. CASE Len(found) = 0
    BY <2>1, <2>2
  <2>3. CASE Len(found) # 0
    <3>1. Len(found) \in 1 .. Len(found)
      BY <1>1, <2>3
    <3> QED BY <1>1, <2>1, <2>3, <3>1
  <2> QED BY <2>2, <2>3
<1>7. InOrder(kept[Len(found)], l)
  <2> HIDE DEF upto
  <2> QED BY <1>6, InOrderLater
<1> QED BY <1>6, <1>7 DEF Clamped, kept

(***************************************************************************)
(* The inductive invariant: what was found is in order and within the      *)
(* duration that was read, which is the row's as long as nothing changed   *)
(* it; and the object is shorter than the longest row allows.              *)
(***************************************************************************)
FoundInOrder ==
  /\ InOrder(detection.found, (MaxDuration + 1) * Second)
  /\ Within(detection.found, detection.duration * Second)

CutsInv ==
  /\ duration \in 1 .. MaxDuration /\ length \in Times /\ busy \in BOOLEAN
  /\ length < (MaxDuration + 1) * Second
  /\ detection \in [pc : {"none", "listen", "answered"}, duration : 0 .. MaxDuration,
                     found : Seq(Silence), since : BOOLEAN]
  /\ detection.since => duration = detection.duration
  /\ FoundInOrder

LEMMA Lengths ==
  /\ \A d \in 0 .. MaxDuration : d * Second \in Nat /\ (d + 1) * Second <= (MaxDuration + 1) * Second
  /\ (MaxDuration + 1) * Second \in Nat
  /\ \A l \in Times : l < (MaxDuration + 1) * Second => l \div Second \in 0 .. MaxDuration
<1>1. Second \in Nat /\ Second > 0 /\ MaxDuration \in Nat
  BY CutsAssumption
<1>2. \A d \in Nat : d * Second \in Nat
  BY <1>1
<1>3. (MaxDuration + 1) * Second \in Nat
  BY <1>1, <1>2
<1>4. ASSUME NEW d \in 0 .. MaxDuration PROVE (d + 1) * Second <= (MaxDuration + 1) * Second
  <2>1. /\ (MaxDuration - d) \in Nat /\ (MaxDuration - d) * Second \in Nat
        /\ (MaxDuration + 1) * Second = (d + 1) * Second + (MaxDuration - d) * Second
        /\ (d + 1) * Second \in Nat
    BY <1>1, <1>2
  <2> QED BY <1>3, <2>1
<1>5. ASSUME NEW l \in Times, l < (MaxDuration + 1) * Second PROVE l \div Second \in 0 .. MaxDuration
  <2>1. l \in Nat
    BY <1>3 DEF Times
  <2> DEFINE q == l \div Second
  <2>2. q \in Int /\ q * Second <= l /\ l < (q + 1) * Second
    BY <1>1, <2>1
  <2> HIDE DEF q
  <2>3. q >= 0
    BY <1>1, <2>1, <2>2
  <2>4. q <= MaxDuration
    BY <1>1, <1>5, <2>1, <2>2
  <2> QED BY <2>2, <2>3, <2>4 DEF q
<1> QED BY <1>2, <1>3, <1>4, <1>5

\* What changes neither the row's duration, nor the object, nor what was found.
LEMMA CutsFrame ==
  ASSUME CutsInv, UNCHANGED <<duration, length, detection>>, busy' \in BOOLEAN
  PROVE  CutsInv'
BY DEF CutsInv, FoundInOrder, InOrder, Within

\* What changes the row and the object, and says so.
LEMMA CutsChange ==
  ASSUME CutsInv, busy' \in BOOLEAN,
         duration' \in 1 .. MaxDuration, length' \in Times, length' < (MaxDuration + 1) * Second,
         NEW same \in BOOLEAN, detection' = [detection EXCEPT !.since = same],
         same => duration' = detection.duration
  PROVE  CutsInv'
<1>1. /\ detection'.found = detection.found /\ detection'.duration = detection.duration
      /\ detection'.since = same
      /\ detection' \in [pc : {"none", "listen", "answered"}, duration : 0 .. MaxDuration,
                          found : Seq(Silence), since : BOOLEAN]
  BY DEF CutsInv
<1>2. FoundInOrder'
  BY <1>1 DEF CutsInv, FoundInOrder, InOrder, Within
<1> QED BY <1>1, <1>2 DEF CutsInv

LEMMA CutsStart == CutsInit => CutsInv
<1> SUFFICES ASSUME CutsInit PROVE CutsInv
  OBVIOUS
<1>1. duration \in 1 .. MaxDuration /\ length \in Times /\ length < (MaxDuration + 1) * Second
  <2>1. duration \in 1 .. MaxDuration /\ length \in Times /\ length < (duration + 1) * Second
    BY DEF CutsInit, Rounded
  <2>2. (duration + 1) * Second <= (MaxDuration + 1) * Second
    BY <2>1, Lengths
  <2>3. length \in Nat /\ (duration + 1) * Second \in Nat /\ (MaxDuration + 1) * Second \in Nat
    BY <2>1, Lengths, CutsAssumption DEF Times
  <2> QED BY <2>1, <2>2, <2>3
<1>2. <<>> \in Seq(Silence) /\ Len(<<>>) = 0
  OBVIOUS
<1>3. InOrder(<<>>, (MaxDuration + 1) * Second) /\ Within(<<>>, 0 * Second)
  BY <1>2 DEF InOrder, Within
<1>4. detection.found = <<>> /\ detection.duration = 0 /\ detection.since = FALSE
      /\ detection \in [pc : {"none", "listen", "answered"}, duration : 0 .. MaxDuration,
                        found : Seq(Silence), since : BOOLEAN]
  BY <1>2, CutsAssumption DEF CutsInit, NoDetection
<1> QED BY <1>1, <1>3, <1>4 DEF CutsInit, CutsInv, FoundInOrder

LEMMA CutsNextStep == CutsInv /\ [CutsNext]_cutVars => CutsInv'
<1> SUFFICES ASSUME CutsInv, [CutsNext]_cutVars PROVE CutsInv'
  OBVIOUS
<1>1. CASE UNCHANGED cutVars
  BY <1>1, CutsFrame DEF cutVars, CutsInv
<1>2. CASE StartDetection
  <2>1. /\ UNCHANGED <<duration, length, busy>>
        /\ detection' = [pc |-> "listen", duration |-> duration, found |-> <<>>, since |-> TRUE]
    BY <1>2 DEF StartDetection, NoDetection
  <2>2. <<>> \in Seq(Silence) /\ Len(<<>>) = 0
    OBVIOUS
  <2>3. duration \in 0 .. MaxDuration
    BY CutsAssumption DEF CutsInv
  <2>4. /\ detection' \in [pc : {"none", "listen", "answered"}, duration : 0 .. MaxDuration,
                           found : Seq(Silence), since : BOOLEAN]
        /\ detection'.found = <<>> /\ detection'.duration = duration'
    BY <2>1, <2>2, <2>3
  <2>5. FoundInOrder'
    BY <2>2, <2>4 DEF FoundInOrder, InOrder, Within
  <2> QED BY <2>1, <2>4, <2>5 DEF CutsInv
<1>3. CASE RemoveSegments
  BY <1>3, CutsFrame DEF RemoveSegments
<1>4. CASE Trim
  BY <1>4, CutsFrame DEF Trim
<1>5. CASE EditEnds
  <2>1. CASE UNCHANGED <<duration, length, detection>>
    BY <1>5, <2>1, CutsFrame DEF EditEnds
  <2>2. ASSUME NEW d \in 1 .. duration, NEW l \in {k \in Times : k <= length},
               Rounded(d, l), duration' = d, length' = l,
               detection' = [detection EXCEPT !.since = @ /\ d = duration]
        PROVE  CutsInv'
    <3>1. d \in 1 .. MaxDuration /\ l \in Times /\ l <= length
      BY CutsAssumption DEF CutsInv
    <3>2. l < (MaxDuration + 1) * Second
      BY <3>1, Lengths DEF CutsInv, Times
    <3>3. /\ (detection.since /\ d = duration) \in BOOLEAN
          /\ detection.since /\ d = duration => d = detection.duration
          /\ detection' = [detection EXCEPT !.since = (detection.since /\ d = duration)]
      BY <2>2 DEF CutsInv
    <3> QED BY <1>5, <2>2, <3>1, <3>2, <3>3, CutsChange DEF EditEnds
  <2> QED BY <1>5, <2>1, <2>2 DEF EditEnds
<1>6. CASE Probe
  <2> DEFINE d == length \div Second
  <2>1. d \in 0 .. MaxDuration
    BY Lengths DEF CutsInv
  <2>2. d > 0 /\ duration' = d /\ UNCHANGED <<length, busy>>
        /\ detection' = [detection EXCEPT !.since = FALSE]
    BY <1>6 DEF Probe
  <2> HIDE DEF d
  <2>3. duration' \in 1 .. MaxDuration
    BY <2>1, <2>2, CutsAssumption
  <2> QED BY <2>2, <2>3, CutsChange DEF CutsInv
<1>7. ASSUME NEW log \in Logs(length), FinishDetection(log) PROVE CutsInv'
  <2> DEFINE found == Clamped(parseSilenceDetectOutput(log), detection.duration)
             m == (MaxDuration + 1) * Second
  <2>1. length \in Nat /\ length <= m /\ m \in Nat /\ detection.duration * Second \in Nat
    BY Lengths DEF CutsInv, Times
  <2>2. InOrder(parseSilenceDetectOutput(log), length)
    BY <2>1, ParsedInOrder
  <2>3. InOrder(found, length) /\ Within(found, detection.duration * Second)
    BY <2>1, <2>2, ClampedInOrder
  <2>4. detection' = [detection EXCEPT !.pc = "answered", !.found = found]
        /\ UNCHANGED <<duration, length, busy>>
    BY <1>7 DEF FinishDetection
  <2> HIDE DEF found, m
  <2>5. InOrder(found, m) /\ found \in Seq(Silence)
    <3>1. length \in Int /\ m \in Int /\ length <= m /\ InOrder(found, length)
      BY <2>1, <2>3
    <3>2. InOrder(found, m)
      BY <3>1, InOrderLater
    <3> QED BY <3>2 DEF InOrder
  <2>6. /\ detection' \in [pc : {"none", "listen", "answered"}, duration : 0 .. MaxDuration,
                           found : Seq(Silence), since : BOOLEAN]
        /\ detection'.found = found /\ detection'.duration = detection.duration
        /\ detection'.since = detection.since
    BY <2>4, <2>5 DEF CutsInv
  <2>7. FoundInOrder'
    BY <2>3, <2>5, <2>6 DEF FoundInOrder, InOrder, Within, m
  <2> QED BY <2>4, <2>6, <2>7 DEF CutsInv
<1> QED BY <1>1, <1>2, <1>3, <1>4, <1>5, <1>6, <1>7 DEF CutsNext

LEMMA CutsAlways == CutsSpec => []CutsInv
  BY CutsStart, CutsNextStep, PTL DEF CutsSpec

(***************************************************************************)
(* The row, the object and what the last detection found have their types. *)
(***************************************************************************)
THEOREM CutsTyped == CutsSpec => []CutsTypeOK
<1>1. CutsInv => CutsTypeOK
  <2> SUFFICES ASSUME CutsInv PROVE detection.found \in Seq(Segment)
    BY DEF CutsInv, CutsTypeOK
  <2> DEFINE found == detection.found
             m == (MaxDuration + 1) * Second
  <2>1. InOrder(found, m) /\ found \in Seq(Silence) /\ m \in Nat
    BY Lengths DEF CutsInv, FoundInOrder, InOrder
  <2>2. Times = 0 .. m
    BY DEF Times
  <2> HIDE DEF found, m
  <2>3. /\ Len(found) \in Nat
        /\ \A i \in 1 .. Len(found) : /\ found[i] \in Silence
                                      /\ found[i].start \in Nat /\ found[i].end \in Nat
                                      /\ found[i].start < found[i].end /\ found[i].end <= m
    BY <2>1, EachIsSilence DEF InOrder
  <2>4. ASSUME NEW i \in 1 .. Len(found) PROVE found[i] \in Segment
    <3>1. found[i] \in Silence /\ found[i].start \in Times /\ found[i].end \in Times
      BY <2>1, <2>2, <2>3
    <3> QED BY <3>1 DEF Silence, Segment
  <2>5. found = [i \in 1 .. Len(found) |-> found[i]]
    BY <2>1
  <2> QED BY <2>3, <2>4, <2>5 DEF found
<1> QED BY CutsAlways, <1>1, PTL

\* silence.go:87: what DetectSilence answers, RemoveSegments' checks of order, overlap and
\* end let pass, whatever ffmpeg wrote, until the row's duration changes.
THEOREM DetectedStayCuttable == CutsSpec => []DetectedAreCuttable
<1>1. CutsInv => DetectedAreCuttable
  <2> SUFFICES ASSUME CutsInv, detection.since
               PROVE  WellFormed(detection.found) /\ Fits(detection.found, duration)
    BY DEF DetectedAreCuttable
  <2> DEFINE found == detection.found
  <2>1. InOrder(found, (MaxDuration + 1) * Second) /\ Within(found, duration * Second)
    BY DEF CutsInv, FoundInOrder
  <2> HIDE DEF found
  <2>2. /\ Len(found) \in Nat /\ DOMAIN found = 1 .. Len(found)
        /\ \A i \in 1 .. Len(found) : found[i].start \in Nat /\ found[i].end \in Nat
    BY <2>1, EachIsSilence DEF InOrder
  <2>3. Fits(found, duration)
    BY <2>1, <2>2 DEF Fits, Within
  <2>4. \A i \in DOMAIN found : 0 <= found[i].start /\ found[i].start < found[i].end
    BY <2>1, <2>2 DEF InOrder
  <2>5. ASSUME NEW i \in DOMAIN found \ {1}
        PROVE  found[i].start >= found[i-1].start /\ found[i].start >= found[i-1].end
    <3>1. i \in 2 .. Len(found) /\ i - 1 \in 1 .. Len(found) /\ i \in 1 .. Len(found)
      BY <2>2
    <3>2. found[i].start >= found[i-1].end /\ found[i-1].start < found[i-1].end
      BY <2>1, <3>1 DEF InOrder
    <3> QED BY <2>2, <3>1, <3>2
  <2>6. WellFormed(found)
    BY <2>4, <2>5 DEF WellFormed
  <2> QED BY <2>3, <2>6 DEF found
<1> QED BY CutsAlways, <1>1, PTL

-----------------------------------------------------------------------------
(***************************************************************************)
(* The instance TLC runs: a behaviour of Billing and one of Cuts.          *)
(***************************************************************************)
THEOREM BillingAreParts == MCSpec => Spec /\ CutsSpec
<1>1. MCInit => Init /\ CutsInit
  BY DEF MCInit
<1>2. [MCNext]_<<vars, cutVars, part>> => [Next]_vars /\ [CutsNext]_cutVars
  BY DEF MCNext
<1> QED BY <1>1, <1>2, PTL DEF MCSpec, Spec, CutsSpec

\* The state of both has its type in every state of the instance.
THEOREM BillingRunTyped == MCSpec => []TypesOK
<1>1. TypeOK /\ CutsTypeOK => TypesOK
  BY DEF TypesOK
<1> QED BY BillingAreParts, BillingTyped, CutsTyped, <1>1, PTL
=============================================================================
