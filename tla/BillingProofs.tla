---------------------------- MODULE BillingProofs ----------------------------
(***************************************************************************)
(* What Billing promises for any number of subscriptions, payments and     *)
(* requests: cancellations shown are real, every subscription whose        *)
(* creation was not cut off grants a plan and has its invoices, and        *)
(* webhooks that come in order leave row and plan as the provider's.       *)
(***************************************************************************)
EXTENDS Billing, TLAPS

\* The provider has been told that s is to end, or it has ended.
Told(s) == truth[s].ending \/ truth[s].status = "canceled"

\* What an event says about its subscription was so and cannot be undone.
Known(e) ==
    /\ e.sub \in Subs
    /\ e.plan \in Plans
    /\ e.ending => Told(e.sub)
    /\ e.status = "canceled" \/ Action(e.kind) = "deleted"
         => truth[e.sub].status = "canceled"

\* What a request in flight carries, and which of its writes are done.
Request(h) ==
    /\ Known(ev[h])
    /\ data[h].plan \in Plans
    /\ data[h].status \in Statuses
    /\ data[h].ending \in BOOLEAN
    /\ data[h].ending => Told(ev[h].sub)
    /\ pc[h] \in {"grant", "invoice"} => HasRow(ev[h].sub)

\* The creation of s will be delivered again until the row is there.
WillBeCreated(s) ==
    HasRow(s) \/ s \in Unowned
    \/ \E e \in pending : e.sub = s /\ Action(e.kind) = "created"

WillBeGranted(s) ==
    userPlan # "FREE" \/ \E h \in Handlers : pc[h] = "grant" /\ ev[h].sub = s

Types ==
    /\ truth \in [Subs -> [plan : Plans, status : {None, "active", "past_due", "canceled"},
                           ending : BOOLEAN, paid : Nat]]
    /\ row \in [Subs -> [plan : Plans, status : {None} \cup Statuses, ending : BOOLEAN]]
    /\ pc \in [Handlers -> {"idle", "insert", "grant", "invoice"}]
    /\ DOMAIN ev = Handlers
    /\ DOMAIN data = Handlers
    /\ cancel \in Subs \cup {None}

NothingEnded == \A s \in Subs : truth[s].status # "canceled"

IInv ==
    /\ Types
    /\ \A e \in pending : Known(e)
    /\ \A h \in Handlers : pc[h] # "idle" => Request(h)
    /\ CancelShownIsReal
    /\ cancel # None => Told(cancel)
    /\ \A s \in Subs : truth[s].ending => Bought(s)
    /\ \A s \in Subs : Bought(s) => WillBeCreated(s)
    /\ NothingEnded => \A s \in Subs \ torn : HasRow(s) => WillBeGranted(s)

-----------------------------------------------------------------------------

\* Nothing is there at the beginning.
LEMMA InitIInv == Init => IInv
<1> SUFFICES ASSUME Init PROVE IInv
  OBVIOUS
<1>1. Types
  BY DEF Init, Types, Plans, NoRow
<1>2. \A s \in Subs : /\ ~HasRow(s) /\ ~Bought(s)
                     /\ row[s].ending = FALSE /\ truth[s].ending = FALSE
  BY DEF Init, HasRow, Bought, NoRow
<1>3. pending = {} /\ cancel = None /\ \A h \in Handlers : pc[h] = "idle"
  BY DEF Init
<1> QED
  BY <1>1, <1>2, <1>3 DEF IInv, CancelShownIsReal

\* A result parsed from a known event is one that may be written to the row.
LEMMA ParseKnown ==
  ASSUME Types, NEW e, Known(e)
  PROVE  /\ Parse(e).plan \in Plans
         /\ Parse(e).status \in Statuses
         /\ Parse(e).ending \in BOOLEAN
         /\ Parse(e).ending => Told(e.sub)
         /\ Parse(e).action = Action(e.kind)
<1>1. \A status : MapStatus(status) \in Statuses
  BY DEF MapStatus, Statuses
<1>2. truth[e.sub].plan \in Plans /\ truth[e.sub].ending \in BOOLEAN /\ e.plan \in Plans
  BY DEF Types, Known
<1>3. CASE e.kind = "checkout.session.completed"
  BY <1>1, <1>2, <1>3 DEF Parse, ParseCheckout, PlanOf, StatusOf, EndingOf, PaymentOf,
                            Paying, Told, Action, Creations
<1>4. CASE e.kind # "checkout.session.completed"
  <2> DEFINE ending == \/ e.kind = "customer.subscription.updated" /\ e.ending
                       \/ e.kind = "subscription.updated" /\ e.status = "canceled"
  <2>1. Parse(e).ending = ending /\ Parse(e).action = Action(e.kind)
    BY <1>4 DEF Parse, ParseCheckout, PlanOf, StatusOf, EndingOf, PaymentOf, Paying
  <2>2. ending => Told(e.sub)
    BY DEF Known, Told
  <2>3. Parse(e).plan \in Plans /\ Parse(e).status \in Statuses
    BY <1>1, <1>2, <1>4 DEF Parse, ParseCheckout, PlanOf, StatusOf, EndingOf,
                             PaymentOf, Paying, Plans, Statuses
  <2> QED BY <2>1, <2>2, <2>3
<1> QED BY <1>3, <1>4

\* An announcement that takes nothing back, and announces a creation first.
LEMMA AnnounceKeepsIInv ==
  ASSUME IInv, NEW s \in Subs, NEW now, NEW kinds, NEW payment,
         now \in [plan : Plans, status : {"active", "past_due", "canceled"},
                  ending : BOOLEAN, paid : Nat],
         Announce(s, now, kinds, payment),
         truth[s].status # "canceled",
         truth[s].ending => now.ending,
         \A k \in kinds : Action(k) = "deleted" => now.status = "canceled",
         truth[s].status = None => \E k \in kinds : Action(k) = "created",
         UNCHANGED <<tables, request, history>>,
         cancel' = cancel \/ (cancel' = s /\ now.ending)
  PROVE  IInv'
<1>1. /\ truth' = [truth EXCEPT ![s] = now]
      /\ UNCHANGED <<row, userPlan, pc, ev, data, torn>>
  BY DEF Announce, tables, request, history
<1>2. truth'[s] = now /\ \A t \in Subs \ {s} : truth'[t] = truth[t]
  BY <1>1 DEF IInv, Types
<1>3. \A t \in Subs : (Told(t) => Told(t)')
                      /\ (truth[t].status = "canceled" => truth'[t].status = "canceled")
  BY <1>2 DEF Told
<1>4. Types'
  BY <1>1, <1>2 DEF IInv, Types, tables, request
<1>5. PICK priced \in Priced, bare \in {FALSE, (s \in Bare)} : pending' = pending \cup
           {[sub |-> s, rank |-> emits + 1, kind |-> k,
             payment |-> IF k \in Creations /\ bare THEN 0 ELSE payment,
             priced |-> priced \/ now.plan = "PRO" \/ k \notin Invoices, plan |-> now.plan,
             status |-> now.status, ending |-> now.ending] : k \in kinds}
  BY DEF Announce
<1>6. \A e : Known(e) => Known(e)'
  BY <1>3 DEF Known
<1>7. \A e \in pending' : Known(e)'
  <2> SUFFICES ASSUME NEW e \in pending', e \notin pending PROVE Known(e)'
    BY <1>6 DEF IInv
  <2>1. PICK k \in kinds :
          /\ e.sub = s /\ e.kind = k /\ e.plan = now.plan
          /\ e.status = now.status /\ e.ending = now.ending
    BY <1>5
  <2> QED
    BY <2>1, <1>2 DEF Known, Told
<1>8. \A h \in Handlers : pc'[h] # "idle" => Request(h)'
  BY <1>1, <1>3, <1>6 DEF IInv, Request, HasRow, Known
<1>9. CancelShownIsReal'
  BY <1>1, <1>3 DEF IInv, CancelShownIsReal, Told
<1>10. cancel' # None => Told(cancel)'
  BY <1>2, <1>3 DEF IInv, Types, Told
<1>11. ASSUME NEW t \in Subs, Bought(t)' PROVE WillBeCreated(t)'
  <2>1. CASE t = s /\ truth[s].status = None
    <3>1. PICK k \in kinds : Action(k) = "created"
      BY <2>1
    <3> DEFINE event == [sub |-> s, rank |-> emits + 1, kind |-> k,
                         payment |-> IF k \in Creations /\ bare THEN 0 ELSE payment,
                         priced |-> priced \/ now.plan = "PRO" \/ k \notin Invoices, plan |-> now.plan,
                         status |-> now.status, ending |-> now.ending]
    <3>2. event \in pending'
      BY <1>5
    <3>3. event.sub = s /\ event.kind = k
      OBVIOUS
    <3> HIDE DEF event
    <3> QED BY <2>1, <3>1, <3>2, <3>3 DEF WillBeCreated
  <2>2. CASE ~(t = s /\ truth[s].status = None)
    <3>1. Bought(t)
      BY <1>2, <1>11, <2>2 DEF Bought
    <3>2. WillBeCreated(t)
      BY <3>1 DEF IInv
    <3> QED BY <1>1, <1>5, <3>2 DEF WillBeCreated, HasRow
  <2> QED BY <2>1, <2>2
<1>12. NothingEnded' => \A t \in Subs \ torn' : HasRow(t)' => WillBeGranted(t)'
  BY <1>1, <1>3 DEF IInv, NothingEnded, HasRow, WillBeGranted
<1>13. \A t \in Subs : truth'[t].ending => Bought(t)'
  BY <1>2 DEF IInv, Bought, None
<1> QED
  BY <1>4, <1>7, <1>8, <1>9, <1>10, <1>11, <1>12, <1>13 DEF IInv

\* Each action of the providers, and the call of cancelSubscription, announces
\* what AnnounceKeepsIInv asks for.
LEMMA ProviderKeepsIInv ==
  ASSUME IInv, NEW s \in Subs, ProviderStep(s)
  PROVE  IInv'
<1> DEFINE States == [plan : Plans, status : {"active", "past_due", "canceled"},
                      ending : BOOLEAN, paid : Nat]
<1>1. /\ truth[s] \in [plan : Plans, status : {None, "active", "past_due", "canceled"},
                       ending : BOOLEAN, paid : Nat]
      /\ truth[s].ending => truth[s].status # None
      /\ UNCHANGED <<tables, request, history>> /\ cancel' = cancel
  BY DEF IInv, Types, Bought, ProviderStep, Subscribe, ChangePlan, Renew, RenewFails, End,
         External, user
<1>2. CASE Subscribe(s)
  <2> DEFINE kinds == Kinds(s, {"checkout.session.completed", "invoice.payment_succeeded"},
                               {"subscription.activated", "subscription.charged"})
  <2>1. PICK plan \in Plans :
          Announce(s, [plan |-> plan, status |-> "active", ending |-> FALSE, paid |-> 1],
                   kinds, 1)
    BY <1>2 DEF Subscribe
  <2> DEFINE now == [plan |-> plan, status |-> "active", ending |-> FALSE, paid |-> 1]
  <2>2. truth[s].status = None /\ ~truth[s].ending
    BY <1>1, <1>2 DEF Subscribe
  <2>3. /\ \A k \in kinds : Action(k) # "deleted"
        /\ \E k \in kinds : Action(k) = "created"
    BY DEF Kinds, Action, Creations
  <2>4. now \in States /\ truth[s].status # "canceled" /\ Announce(s, now, kinds, 1)
    BY <2>1, <2>2 DEF None
  <2> HIDE DEF now, kinds
  <2> QED BY <1>1, <2>2, <2>3, <2>4, AnnounceKeepsIInv
<1>3. CASE ChangePlan(s)
  <2> DEFINE kinds == Kinds(s, {"customer.subscription.updated"}, {"subscription.updated"})
  <2>1. PICK plan \in Plans : Announce(s, [truth[s] EXCEPT !.plan = plan], kinds, 0)
    BY <1>3 DEF ChangePlan
  <2>2. truth[s].status # None /\ truth[s].status # "canceled"
    BY <1>3 DEF ChangePlan, Alive, None
  <2>3. PICK now \in States : now = [truth[s] EXCEPT !.plan = plan]
    BY <1>1, <2>2
  <2>4. Announce(s, now, kinds, 0) /\ now.ending = truth[s].ending
    BY <1>1, <2>1, <2>3
  <2>5. \A k \in kinds : Action(k) # "deleted"
    BY DEF Kinds, Action, Creations
  <2> HIDE DEF kinds
  <2> QED BY <1>1, <2>2, <2>4, <2>5, AnnounceKeepsIInv
<1>4. CASE Renew(s)
  <2> DEFINE kinds == Kinds(s, {"customer.subscription.updated", "invoice.payment_succeeded"},
                               {"subscription.charged"})
  <2>1. truth[s].status # None /\ truth[s].status # "canceled"
    BY <1>4 DEF Renew, PeriodOver, Alive, None
  <2>2. PICK now \in States : now = [truth[s] EXCEPT !.status = "active", !.paid = @ + 1]
    <3>1. PICK next \in Nat : next = truth[s].paid + 1
      BY <1>1
    <3>2. [truth[s] EXCEPT !.status = "active", !.paid = next] \in States
      BY <1>1, <2>1
    <3> QED BY <3>1, <3>2
  <2>3. PICK paid \in Nat : paid = truth[s].paid + 1
    BY <1>1
  <2>4. Announce(s, now, kinds, paid) /\ now.ending = truth[s].ending
    BY <1>1, <1>4, <2>2, <2>3 DEF Renew
  <2>5. \A k \in kinds : Action(k) # "deleted"
    BY DEF Kinds, Action, Creations
  <2> HIDE DEF kinds
  <2> QED BY <1>1, <2>1, <2>4, <2>5, AnnounceKeepsIInv
<1>5. CASE RenewFails(s)
  <2> DEFINE kinds == Kinds(s, {"customer.subscription.updated", "invoice.payment_failed"},
                               {"subscription.halted"})
  <2>1. truth[s].status # None /\ truth[s].status # "canceled"
    BY <1>5 DEF RenewFails, PeriodOver, Alive, None
  <2>2. PICK now \in States : now = [truth[s] EXCEPT !.status = "past_due"]
    BY <1>1, <2>1
  <2>3. Announce(s, now, kinds, 0) /\ now.ending = truth[s].ending
    BY <1>1, <1>5, <2>2 DEF RenewFails
  <2>4. \A k \in kinds : Action(k) # "deleted"
    BY DEF Kinds, Action, Creations
  <2> HIDE DEF kinds
  <2> QED BY <1>1, <2>1, <2>3, <2>4, AnnounceKeepsIInv
<1>6. CASE End(s)
  <2> DEFINE kinds == Kinds(s, {"customer.subscription.deleted"}, {"subscription.cancelled"})
  <2>1. truth[s].status # None /\ truth[s].status # "canceled"
    BY <1>6 DEF End, Alive, None
  <2>2. PICK now \in States : now = [truth[s] EXCEPT !.status = "canceled"]
    BY <1>1, <2>1
  <2>3. /\ Announce(s, now, kinds, 0)
        /\ now.ending = truth[s].ending /\ now.status = "canceled"
    BY <1>1, <1>6, <2>2 DEF End
  <2> HIDE DEF kinds
  <2> QED BY <1>1, <2>1, <2>3, AnnounceKeepsIInv
<1> QED BY <1>2, <1>3, <1>4, <1>5, <1>6 DEF ProviderStep

-----------------------------------------------------------------------------
\* Steps of the backend leave the providers alone.  Each of the next lemmas is
\* about what the step writes.

\* What holds of an event or a request whatever the backend does.
LEMMA TruthStays ==
  ASSUME UNCHANGED truth
  PROVE  /\ \A e : Known(e) => Known(e)'
         /\ \A s : Told(s)' <=> Told(s)
         /\ \A s : Bought(s)' <=> Bought(s)
         /\ NothingEnded' <=> NothingEnded
BY DEF Known, Told, Bought, NothingEnded

\* An answer drops an event of a creation only where the row is there.
LEMMA AnswerKeepsCreation ==
  ASSUME IInv, NEW e, Answer(e), UNCHANGED truth,
         \A s \in Subs : HasRow(s) => HasRow(s)',
         Action(e.kind) = "created" => HasRow(e.sub)' \/ e.sub \in Unowned
  PROVE  /\ \A f \in pending' : Known(f)'
         /\ \A s \in Subs : Bought(s)' => WillBeCreated(s)'
<1>1. pending' \subseteq pending /\ \A f \in pending : f = e \/ f \in pending'
  BY DEF Answer
<1>2. \A f \in pending' : Known(f)'
  BY <1>1, TruthStays DEF IInv
<1>3. ASSUME NEW s \in Subs, Bought(s)' PROVE WillBeCreated(s)'
  <2>1. WillBeCreated(s)
    BY <1>3, TruthStays DEF IInv
  <2> QED BY <1>1, <2>1 DEF WillBeCreated
<1> QED BY <1>2, <1>3

\* A request that the step does not touch stays as good as it was.
LEMMA OtherRequests ==
  ASSUME IInv, UNCHANGED truth, \A s \in Subs : HasRow(s) => HasRow(s)',
         NEW g \in Handlers, pc[g] # "idle",
         pc'[g] = pc[g], ev'[g] = ev[g], data'[g] = data[g]
  PROVE  Request(g)'
<1>1. Request(g)
  BY DEF IInv
<1> QED BY <1>1, TruthStays DEF Request, Known

\* The request of cancelSubscription tells the provider before the row.
LEMMA CancelAtProviderKeepsIInv ==
  ASSUME IInv, NEW s \in Subs, CancelAtProvider(s)
  PROVE  IInv'
<1> DEFINE States == [plan : Plans, status : {"active", "past_due", "canceled"},
                      ending : BOOLEAN, paid : Nat]
<1>1. /\ truth[s] \in States /\ truth[s].status # None /\ truth[s].status # "canceled"
      /\ UNCHANGED <<tables, request, history>> /\ cancel' = s
  BY DEF IInv, Types, CancelAtProvider, Alive, None
<1>2. PICK now \in States : now = [truth[s] EXCEPT !.ending = TRUE]
  BY <1>1
<1>3. CASE s \in Stripe /\ ~truth[s].ending
  <2>1. Announce(s, now, {"customer.subscription.updated"}, 0) /\ now.ending
    BY <1>1, <1>2, <1>3 DEF CancelAtProvider
  <2>2. \A k \in {"customer.subscription.updated"} : Action(k) # "deleted"
    BY DEF Action, Creations
  <2> QED BY <1>1, <2>1, <2>2, AnnounceKeepsIInv
<1>4. CASE ~(s \in Stripe /\ ~truth[s].ending)
  <2>1. /\ truth' = [truth EXCEPT ![s] = now] /\ pending' = pending
        /\ UNCHANGED <<row, userPlan, pc, ev, data, torn>>
    BY <1>1, <1>2, <1>4 DEF CancelAtProvider, tables, request, history
  <2>2. truth'[s] = now /\ \A t \in Subs \ {s} : truth'[t] = truth[t]
    BY <2>1 DEF IInv, Types
  <2>3. now.ending /\ now.status = truth[s].status
    BY <1>1, <1>2
  <2>4. \A t \in Subs : (Told(t) => Told(t)') /\ truth'[t].status = truth[t].status
    BY <2>2, <2>3 DEF Told
  <2>5. Types' /\ (cancel' # None => Told(cancel)')
    BY <1>1, <2>1, <2>2, <2>3 DEF IInv, Types, Told
  <2>6. \A e : Known(e) => Known(e)'
    BY <2>4 DEF Known
  <2>7. \A e \in pending' : Known(e)'
    BY <2>1, <2>6 DEF IInv
  <2>8. \A h \in Handlers : pc'[h] # "idle" => Request(h)'
    BY <2>1, <2>4, <2>6 DEF IInv, Request, HasRow, Known
  <2>9. CancelShownIsReal'
    BY <2>1, <2>4 DEF IInv, CancelShownIsReal, Told
  <2>10. \A t \in Subs : (truth'[t].ending => Bought(t)') /\ (Bought(t)' => WillBeCreated(t)')
    BY <1>1, <2>1, <2>2, <2>4 DEF IInv, Bought, WillBeCreated, HasRow
  <2>11. NothingEnded' => \A t \in Subs \ torn' : HasRow(t)' => WillBeGranted(t)'
    BY <2>1, <2>4 DEF IInv, NothingEnded, HasRow, WillBeGranted
  <2> QED BY <2>5, <2>7, <2>8, <2>9, <2>10, <2>11 DEF IInv
<1> QED BY <1>3, <1>4

\* Marking the row, or failing to.
LEMMA CancelEndsKeepsIInv ==
  ASSUME IInv, CancelMark \/ CancelAbort
  PROVE  IInv'
<1>1. /\ UNCHANGED <<truth, pending, userPlan, pc, ev, data, torn>>
      /\ cancel' = None
  BY DEF CancelMark, CancelAbort, provider, user, tables, request, history
<1>2. /\ row' \in [Subs -> [plan : Plans, status : {None} \cup Statuses, ending : BOOLEAN]]
      /\ \A s \in Subs : /\ row'[s].status = row[s].status
                         /\ row'[s].ending => row[s].ending \/ Told(s)
  <2>1. CASE CancelMark
    <3>1. cancel \in Subs /\ Told(cancel) /\ row' = [row EXCEPT ![cancel].ending = TRUE]
      BY <2>1 DEF IInv, Types, CancelMark
    <3> QED BY <3>1 DEF IInv, Types
  <2>2. CASE CancelAbort
    BY <2>2 DEF IInv, Types, CancelAbort, tables
  <2> QED BY <2>1, <2>2
<1>3. Types'
  BY <1>1, <1>2 DEF IInv, Types
<1>4. \A s \in Subs : HasRow(s)' <=> HasRow(s)
  BY <1>2 DEF HasRow
<1>5. \A e \in pending' : Known(e)'
  BY <1>1, TruthStays DEF IInv
<1>6. \A h \in Handlers : pc'[h] # "idle" => Request(h)'
  BY <1>1, <1>4, OtherRequests
<1>7. CancelShownIsReal'
  BY <1>1, <1>2 DEF IInv, CancelShownIsReal, Told
<1>8. \A s \in Subs : (truth'[s].ending => Bought(s)') /\ (Bought(s)' => WillBeCreated(s)')
  BY <1>1, <1>4 DEF IInv, Bought, WillBeCreated
<1>9. NothingEnded' => \A s \in Subs \ torn' : HasRow(s)' => WillBeGranted(s)'
  BY <1>1, <1>4 DEF IInv, NothingEnded, WillBeGranted
<1> QED
  BY <1>1, <1>3, <1>5, <1>6, <1>7, <1>8, <1>9 DEF IInv

-----------------------------------------------------------------------------
\* The webhook requests.  What a webhook leaves alone in any case.
LEMMA WebhookFrame ==
  ASSUME IInv, NEW e \in pending, Webhook(e)
  PROVE  /\ UNCHANGED <<truth, cancel, torn>>
         /\ cancel' # None => Told(cancel)'
         /\ \A s \in Subs : truth'[s].ending => Bought(s)'
         /\ \A s \in Subs : Told(s)' <=> Told(s)
         /\ Known(e)
<1>1. UNCHANGED <<truth, cancel, torn>>
  BY DEF Webhook, Created, Updated, Dropped, Deleted, PaymentFailed, provider, user
<1> QED BY <1>1, TruthStays DEF IInv

\* The first read of a creation.
LEMMA CreatedKeepsIInv ==
  ASSUME IInv, NEW h \in Handlers, NEW e \in pending, Created(h, e)
  PROVE  IInv'
<1>1. /\ UNCHANGED <<truth, row, userPlan, cancel, torn>> /\ pc[h] = "idle"
      /\ Parse(e).action = "created"
  BY DEF Created, provider, user, tables
<1>2. /\ cancel' # None => Told(cancel)'
      /\ \A s \in Subs : truth'[s].ending => Bought(s)'
      /\ \A s \in Subs : Told(s)' <=> Told(s)
      /\ Known(e)
  BY WebhookFrame DEF Webhook
<1>3. CancelShownIsReal' /\ (\A s \in Subs : HasRow(s)' <=> HasRow(s))
  BY <1>1 DEF IInv, CancelShownIsReal, HasRow
<1>4. CASE HasRow(e.sub) \/ e.sub \in Unowned
  <2>1. Answer(e) /\ UNCHANGED <<pc, ev, data>>
    BY <1>4 DEF Created, AnswerAtOnce, request
  <2>2. /\ \A f \in pending' : Known(f)'
        /\ \A s \in Subs : Bought(s)' => WillBeCreated(s)'
    BY <1>1, <1>2, <1>3, <1>4, <2>1, AnswerKeepsCreation DEF Known
  <2>3. \A g \in Handlers : pc'[g] # "idle" => Request(g)'
    BY <1>1, <1>3, <2>1, OtherRequests
  <2>4. Types'
    BY <1>1, <2>1 DEF IInv, Types
  <2>5. NothingEnded' => \A s \in Subs \ torn' : HasRow(s)' => WillBeGranted(s)'
    BY <1>1, <1>3, <2>1 DEF IInv, NothingEnded, WillBeGranted
  <2> QED BY <1>2, <1>3, <2>2, <2>3, <2>4, <2>5 DEF IInv
<1>5. CASE ~(HasRow(e.sub) \/ e.sub \in Unowned)
  <2>1. /\ pc' = [pc EXCEPT ![h] = "insert"] /\ ev' = [ev EXCEPT ![h] = e]
        /\ data' = [data EXCEPT ![h] = Parse(e)] /\ pending' = pending
    BY <1>5 DEF Created, GoOn
  <2>2. Types'
    BY <1>1, <2>1 DEF IInv, Types
  <2>3. /\ pc'[h] = "insert" /\ ev'[h] = e /\ data'[h] = Parse(e)
        /\ \A g \in Handlers \ {h} : pc'[g] = pc[g] /\ ev'[g] = ev[g] /\ data'[g] = data[g]
    BY <2>1 DEF IInv, Types
  <2>4. Request(h)'
    <3>1. Known(e)'
      BY <1>1, <1>2, TruthStays
    <3>2. /\ data'[h].plan \in Plans /\ data'[h].status \in Statuses
          /\ data'[h].ending \in BOOLEAN /\ (data'[h].ending => Told(ev'[h].sub))
      BY <1>2, <2>3, ParseKnown DEF IInv
    <3>3. data'[h].ending => Told(ev[h].sub)'
      BY <1>1, <3>2 DEF Told
    <3> QED BY <2>3, <3>1, <3>2, <3>3 DEF Request
  <2>5. \A g \in Handlers : pc'[g] # "idle" => Request(g)'
    BY <1>1, <1>3, <2>3, <2>4, OtherRequests
  <2>6. /\ \A f \in pending' : Known(f)'
        /\ \A s \in Subs : Bought(s)' => WillBeCreated(s)'
    BY <1>1, <1>3, <2>1, TruthStays DEF IInv, WillBeCreated
  <2>7. NothingEnded' => \A s \in Subs \ torn' : HasRow(s)' => WillBeGranted(s)'
    BY <1>1, <1>3, <2>3 DEF IInv, NothingEnded, WillBeGranted
  <2> QED BY <1>2, <1>3, <2>2, <2>5, <2>6, <2>7 DEF IInv
<1> QED BY <1>4, <1>5

\* An update of the row and of the plan.
LEMMA UpdatedKeepsIInv ==
  ASSUME IInv, NEW h \in Handlers, NEW e \in pending, Updated(h, e)
  PROVE  IInv'
<1>1. /\ UNCHANGED <<truth, cancel, torn>> /\ pc[h] = "idle"
      /\ Parse(e).action = "updated" /\ HasRow(e.sub)
      /\ row' = [row EXCEPT ![e.sub] = RowOf(Parse(e))]
      /\ userPlan' = Parse(e).plan
  BY DEF Updated, provider, user, tables
<1>2. /\ cancel' # None => Told(cancel)'
      /\ \A s \in Subs : truth'[s].ending => Bought(s)'
      /\ \A s \in Subs : Told(s)' <=> Told(s)
      /\ Known(e)
  BY WebhookFrame DEF Webhook
<1>3. /\ Parse(e).plan \in Plans /\ Parse(e).status \in Statuses
      /\ Parse(e).ending \in BOOLEAN /\ (Parse(e).ending => Told(e.sub))
      /\ Action(e.kind) = "updated"
  BY <1>1, <1>2, ParseKnown DEF IInv
<1>4. /\ row' \in [Subs -> [plan : Plans, status : {None} \cup Statuses, ending : BOOLEAN]]
      /\ \A s \in Subs : HasRow(s) => HasRow(s)'
      /\ \A s \in Subs : HasRow(s)' => HasRow(s)
      /\ CancelShownIsReal'
  <2>1. e.sub \in Subs
    BY <1>2 DEF Known
  <2>2. RowOf(Parse(e)) \in [plan : Plans, status : Statuses, ending : BOOLEAN]
    BY <1>3 DEF RowOf
  <2>3. row'[e.sub] = RowOf(Parse(e)) /\ \A s \in Subs \ {e.sub} : row'[s] = row[s]
    BY <1>1, <2>1 DEF IInv, Types
  <2>4. row'[e.sub].status \in Statuses /\ (row'[e.sub].ending => Told(e.sub))
    BY <1>3, <2>3 DEF RowOf
  <2>5. \A s \in Subs : (HasRow(s) => HasRow(s)') /\ (HasRow(s)' => HasRow(s))
    BY <1>1, <2>3, <2>4 DEF HasRow, None, Statuses
  <2>6. CancelShownIsReal'
    BY <1>1, <2>3, <2>4 DEF IInv, CancelShownIsReal, Told
  <2>7. row' \in [Subs -> [plan : Plans, status : {None} \cup Statuses, ending : BOOLEAN]]
    BY <1>1, <2>2 DEF IInv, Types
  <2> QED BY <2>5, <2>6, <2>7
<1>5. NothingEnded' => \A s \in Subs \ torn' : HasRow(s)' => WillBeGranted(s)'
  BY <1>1, <1>3 DEF WillBeGranted, Plans
<1>6. CASE Parse(e).payment = 0
  <2>1. Answer(e) /\ UNCHANGED <<pc, ev, data>>
    BY <1>6 DEF Updated, AnswerAtOnce, request
  <2>2. /\ \A f \in pending' : Known(f)'
        /\ \A s \in Subs : Bought(s)' => WillBeCreated(s)'
    BY <1>1, <1>3, <1>4, <2>1, AnswerKeepsCreation
  <2>3. \A g \in Handlers : pc'[g] # "idle" => Request(g)'
    BY <1>1, <1>4, <2>1, OtherRequests
  <2>4. Types'
    BY <1>1, <1>4, <2>1 DEF IInv, Types
  <2> QED BY <1>2, <1>4, <1>5, <2>2, <2>3, <2>4 DEF IInv
<1>7. CASE Parse(e).payment # 0
  <2>1. /\ pc' = [pc EXCEPT ![h] = "invoice"] /\ ev' = [ev EXCEPT ![h] = e]
        /\ data' = [data EXCEPT ![h] = Parse(e)] /\ pending' = pending
    BY <1>7 DEF Updated, GoOn
  <2>2. Types'
    BY <1>1, <1>4, <2>1 DEF IInv, Types
  <2>3. /\ pc'[h] = "invoice" /\ ev'[h] = e /\ data'[h] = Parse(e)
        /\ \A g \in Handlers \ {h} : pc'[g] = pc[g] /\ ev'[g] = ev[g] /\ data'[g] = data[g]
    BY <2>1 DEF IInv, Types
  <2>4. Request(h)'
    <3>1. Known(e)' /\ HasRow(e.sub)'
      BY <1>1, <1>2, <1>4, TruthStays DEF Known
    <3>2. data'[h].ending => Told(ev[h].sub)'
      BY <1>1, <1>3, <2>3 DEF Told
    <3> QED BY <1>3, <2>3, <3>1, <3>2 DEF Request
  <2>5. \A g \in Handlers : pc'[g] # "idle" => Request(g)'
    BY <1>1, <1>4, <2>3, <2>4, OtherRequests
  <2>6. /\ \A f \in pending' : Known(f)'
        /\ \A s \in Subs : Bought(s)' => WillBeCreated(s)'
    BY <1>1, <1>4, <2>1, TruthStays DEF IInv, WillBeCreated
  <2> QED BY <1>2, <1>4, <1>5, <2>2, <2>5, <2>6 DEF IInv
<1> QED BY <1>6, <1>7

\* The webhooks that are answered at once and change at most a status.
LEMMA StatusKeepsIInv ==
  ASSUME IInv, NEW e \in pending,
         Dropped(e) \/ Deleted(e) \/ PaymentFailed(e)
  PROVE  IInv'
<1>1. /\ UNCHANGED <<truth, pc, ev, data, cancel, torn>> /\ Answer(e)
      /\ Parse(e).action # "created"
  BY DEF Dropped, Deleted, PaymentFailed, provider, user, request
<1>2. /\ cancel' # None => Told(cancel)'
      /\ \A s \in Subs : truth'[s].ending => Bought(s)'
      /\ \A s \in Subs : Told(s)' <=> Told(s)
      /\ Known(e)
  BY WebhookFrame DEF Webhook
<1>3. Action(e.kind) # "created"
  BY <1>1, <1>2, ParseKnown DEF IInv
<1>4. /\ row' \in [Subs -> [plan : Plans, status : {None} \cup Statuses, ending : BOOLEAN]]
      /\ \A s \in Subs : row'[s].ending = row[s].ending
      /\ \A s \in Subs : HasRow(s)' <=> HasRow(s)
  <2>1. CASE Dropped(e)
    BY <2>1 DEF IInv, Types, HasRow, Dropped, tables
  <2>2. CASE Deleted(e) \/ PaymentFailed(e)
    <3>1. HasRow(e.sub) /\ e.sub \in Subs
      BY <1>2, <2>2 DEF Deleted, PaymentFailed, Known
    <3>2. PICK status \in {"CANCELED", "PAST_DUE"} :
            row' = [row EXCEPT ![e.sub].status = status]
      BY <2>2 DEF Deleted, PaymentFailed
    <3> QED BY <3>1, <3>2 DEF IInv, Types, HasRow, None, Statuses
  <2> QED BY <1>1, <2>1, <2>2
<1>5. CancelShownIsReal'
  BY <1>2, <1>4 DEF IInv, CancelShownIsReal, Told
<1>6. /\ \A f \in pending' : Known(f)'
      /\ \A s \in Subs : Bought(s)' => WillBeCreated(s)'
  BY <1>1, <1>3, <1>4, AnswerKeepsCreation
<1>7. \A g \in Handlers : pc'[g] # "idle" => Request(g)'
  BY <1>1, <1>4, OtherRequests
<1>8. Types'
  BY <1>1, <1>4 DEF IInv, Types
<1>9. NothingEnded' => \A s \in Subs \ torn' : HasRow(s)' => WillBeGranted(s)'
  <2>1. CASE Deleted(e)
    <3>1. Action(e.kind) = "deleted"
      BY <1>2, <2>1, ParseKnown DEF Deleted, IInv
    <3> QED BY <1>1, <1>2, <3>1 DEF Known, NothingEnded
  <2>2. CASE Dropped(e) \/ PaymentFailed(e)
    <3>1. userPlan' = userPlan
      BY <2>2 DEF Dropped, PaymentFailed, tables
    <3> QED BY <1>1, <1>4, <3>1 DEF IInv, NothingEnded, WillBeGranted
  <2> QED BY <2>1, <2>2
<1> QED BY <1>2, <1>5, <1>6, <1>7, <1>8, <1>9 DEF IInv

\* Once the row is inserted, the request that did it is about to grant.
LEMMA InsertKeepsIInv ==
  ASSUME IInv, NEW h \in Handlers, Insert(h)
  PROVE  IInv'
<1> DEFINE s == ev[h].sub
<1>1. /\ UNCHANGED <<truth, userPlan, pending, ev, data, cancel, torn>>
      /\ pc[h] = "insert" /\ pc' = [pc EXCEPT ![h] = "grant"]
      /\ row' = [row EXCEPT ![s] = RowOf(data[h])]
  BY DEF Insert, Proceed, provider, user, history
<1>2. Request(h) /\ s \in Subs
  BY <1>1 DEF IInv, Request, Known
<1>3. /\ RowOf(data[h]) \in [plan : Plans, status : Statuses, ending : BOOLEAN]
      /\ RowOf(data[h]).ending => Told(s)
  BY <1>2 DEF RowOf, Request
<1>4. row'[s] = RowOf(data[h]) /\ \A t \in Subs \ {s} : row'[t] = row[t]
  BY <1>1, <1>2 DEF IInv, Types
<1>5. row' \in [Subs -> [plan : Plans, status : {None} \cup Statuses, ending : BOOLEAN]]
  BY <1>1, <1>3 DEF IInv, Types
<1>6. HasRow(s)' /\ (\A t \in Subs : HasRow(t) => HasRow(t)')
      /\ (\A t \in Subs \ {s} : HasRow(t)' => HasRow(t))
  <2>1. row'[s].status \in Statuses /\ ev'[h] = ev[h]
    BY <1>1, <1>3, <1>4
  <2>2. \A t \in Subs \ {s} : HasRow(t)' <=> HasRow(t)
    BY <1>4 DEF HasRow
  <2>3. HasRow(s)' /\ \A t \in Subs : t = s => HasRow(t)'
    BY <2>1 DEF HasRow, None, Statuses
  <2> QED BY <2>2, <2>3
<1>7. CancelShownIsReal'
  BY <1>1, <1>3, <1>4 DEF IInv, CancelShownIsReal, Told
<1>8. Types'
  BY <1>1, <1>5 DEF IInv, Types
<1>9. pc'[h] = "grant" /\ \A g \in Handlers \ {h} : pc'[g] = pc[g]
  BY <1>1 DEF IInv, Types
<1>10. \A g \in Handlers : pc'[g] # "idle" => Request(g)'
  <2>1. Request(h)'
    BY <1>1, <1>2, <1>6, TruthStays DEF Request, Known
  <2> QED BY <1>1, <1>6, <1>9, <2>1, OtherRequests
<1>11. /\ \A f \in pending' : Known(f)'
       /\ \A t \in Subs : Bought(t)' => WillBeCreated(t)'
       /\ \A t \in Subs : truth'[t].ending => Bought(t)'
       /\ cancel' # None => Told(cancel)'
  BY <1>1, <1>6, TruthStays DEF IInv, WillBeCreated
<1>12. NothingEnded' => \A t \in Subs \ torn' : HasRow(t)' => WillBeGranted(t)'
  BY <1>1, <1>6, <1>9 DEF IInv, NothingEnded, WillBeGranted
<1> QED BY <1>7, <1>8, <1>10, <1>11, <1>12 DEF IInv

\* The two last writes of a request, and its failure.
LEMMA RequestEndsKeepsIInv ==
  ASSUME IInv, NEW h \in Handlers, Grant(h) \/ RecordInvoice(h) \/ Abort(h)
  PROVE  IInv'
<1>1. /\ UNCHANGED <<truth, row, cancel>> /\ pc[h] # "idle"
      /\ torn \subseteq torn'
  BY DEF Grant, RecordInvoice, Abort, provider, user, tables, history
<1>2. Request(h) /\ (pc[h] \in {"grant", "invoice"} => HasRow(ev[h].sub))
  BY <1>1 DEF IInv, Request
<1>3. /\ CancelShownIsReal' /\ (\A s \in Subs : HasRow(s)' <=> HasRow(s))
      /\ cancel' # None => Told(cancel)'
      /\ \A s \in Subs : truth'[s].ending => Bought(s)'
  BY <1>1, TruthStays DEF IInv, CancelShownIsReal, HasRow
<1>4. \/ pc' = [pc EXCEPT ![h] = "idle"] /\ (Answer(ev[h]) \/ pending' = pending)
         /\ (Answer(ev[h]) => HasRow(ev[h].sub) \/ pending' = pending)
      \/ pc' = [pc EXCEPT ![h] = "invoice"] /\ UNCHANGED <<ev, data, pending>>
         /\ pc[h] = "grant"
  BY <1>2 DEF Grant, RecordInvoice, Abort, Close, Proceed
<1>5. /\ DOMAIN ev' = Handlers /\ DOMAIN data' = Handlers
      /\ \A g \in Handlers \ {h} : ev'[g] = ev[g] /\ data'[g] = data[g]
  BY DEF IInv, Types, Grant, RecordInvoice, Abort, Close, Proceed
<1>6. \A g \in Handlers \ {h} : pc'[g] = pc[g]
  BY <1>4 DEF IInv, Types
<1>7. Types'
  BY <1>1, <1>4, <1>5 DEF IInv, Types
<1>8. /\ \A f \in pending' : Known(f)'
      /\ \A s \in Subs : Bought(s)' => WillBeCreated(s)'
  <2>1. CASE pending' = pending
    BY <1>1, <1>3, <2>1, TruthStays DEF IInv, WillBeCreated
  <2>2. CASE Answer(ev[h]) /\ HasRow(ev[h].sub)
    <3>1. ev[h].sub \in Subs
      BY <1>2 DEF Request, Known
    <3> QED BY <1>1, <1>3, <2>2, <3>1, AnswerKeepsCreation
  <2> QED BY <1>4, <2>1, <2>2
<1>9. \A g \in Handlers : pc'[g] # "idle" => Request(g)'
  <2>1. ASSUME pc'[h] # "idle" PROVE Request(h)'
    <3>1. pc[h] = "grant" /\ UNCHANGED <<ev, data>>
      BY <1>4, <2>1 DEF IInv, Types
    <3>2. HasRow(ev[h].sub)' /\ Known(ev[h])'
      BY <1>1, <1>2, <3>1, TruthStays DEF Request, HasRow
    <3>3. data'[h].ending => Told(ev[h].sub)'
      BY <1>1, <1>2, <3>1 DEF Request, Told
    <3> QED BY <1>2, <3>1, <3>2, <3>3 DEF Request
  <2> QED BY <1>1, <1>3, <1>5, <1>6, <2>1, OtherRequests
<1>10. NothingEnded' => \A s \in Subs \ torn' : HasRow(s)' => WillBeGranted(s)'
  <2>1. CASE Grant(h)
    <3>1. userPlan' \in Plans
      BY <1>2, <2>1 DEF Grant, Request
    <3> QED BY <3>1 DEF WillBeGranted, Plans
  <2>2. CASE RecordInvoice(h) \/ Abort(h)
    <3>1. userPlan' = userPlan /\ (pc[h] = "grant" => ev[h].sub \in torn')
      BY <2>2 DEF RecordInvoice, Abort, tables
    <3>2. SUFFICES ASSUME NothingEnded', NEW s \in Subs \ torn', HasRow(s)'
                   PROVE  WillBeGranted(s)'
      OBVIOUS
    <3>3. WillBeGranted(s)
      BY <1>1, <1>3, <3>2, TruthStays DEF IInv
    <3> QED BY <1>5, <1>6, <3>1, <3>3 DEF WillBeGranted
  <2> QED BY <2>1, <2>2
<1> QED BY <1>3, <1>7, <1>8, <1>9, <1>10 DEF IInv

-----------------------------------------------------------------------------

\* What cancelSubscription reads disturbs nothing; only what it writes does.
LEMMA StutterKeepsIInv ==
  IInv /\ UNCHANGED <<provider, pending, tables, request, cancel, history>> => IInv'
BY DEF provider, tables, request, history, IInv, Types, Known, Told, Request,
       CancelShownIsReal, Bought, WillBeCreated, WillBeGranted, NothingEnded, HasRow

LEMMA NextKeepsIInv == IInv /\ [Next]_vars => IInv'
<1> SUFFICES ASSUME IInv, [Next]_vars PROVE IInv'
  OBVIOUS
<1>1. CASE \E s \in Subs : ProviderStep(s)
  BY <1>1, ProviderKeepsIInv
<1>2. ASSUME NEW e \in pending, Webhook(e) PROVE IInv'
  <2>1. ASSUME NEW h \in Handlers, Created(h, e) \/ Updated(h, e) PROVE IInv'
    BY <2>1, CreatedKeepsIInv, UpdatedKeepsIInv
  <2>2. CASE Dropped(e) \/ Deleted(e) \/ PaymentFailed(e)
    BY <2>2, StatusKeepsIInv
  <2> QED BY <1>2, <2>1, <2>2 DEF Webhook
<1>3. CASE \E h \in Handlers : HandlerStep(h)
  BY <1>3, InsertKeepsIInv, RequestEndsKeepsIInv DEF HandlerStep
<1>4. CASE Cancel
  <2>1. ASSUME NEW s \in Subs, CancelRead(s) \/ CancelAtProvider(s) PROVE IInv'
    BY <2>1, CancelAtProviderKeepsIInv, StutterKeepsIInv DEF CancelRead
  <2> QED BY <1>4, <2>1, CancelEndsKeepsIInv DEF Cancel
<1>5. CASE UNCHANGED vars
  BY <1>5, StutterKeepsIInv DEF vars, user
<1> QED BY <1>1, <1>2, <1>3, <1>4, <1>5 DEF Next

LEMMA AlwaysIInv == Spec => []IInv
BY InitIInv, NextKeepsIInv, PTL DEF Spec

\* A subscription is shown as ending only if the provider was told so: the row
\* is marked after the provider's answer, and no event says more than was so
\* when it was announced.
THEOREM CancellationsAreReal == Spec => []CancelShownIsReal
BY AlwaysIInv, PTL DEF IInv

\* Once every webhook was answered, a subscription whose creation was not cut
\* off has granted a plan, if none was lost: its creating event was answered
\* only with the row there, and the row is there only with the grant to follow.
THEOREM SubscriptionsAreGranted == Spec => []GrantedUnlessEnded
<1>1. IInv => GrantedUnlessEnded
  <2> SUFFICES ASSUME IInv, Settled, NothingEnded, NEW s \in Owned \ torn, Bought(s)
               PROVE  userPlan # "FREE"
    BY DEF GrantedUnlessEnded, NothingEnded
  <2>1. s \in Subs \ torn /\ s \notin Unowned
    BY DEF Owned
  <2>2. HasRow(s)
    BY <2>1 DEF IInv, WillBeCreated, Settled
  <2> QED BY <2>1, <2>2 DEF IInv, WillBeGranted, Settled, Idle
<1> QED BY <1>1, AlwaysIInv, PTL


-----------------------------------------------------------------------------
\* The invoices, and what the rows show: the invariant MInv.

Creation(e) == Action(e.kind) = "created"
Failed(e) == Action(e.kind) = "failed"
Busy(h, s) == pc[h] # "idle" /\ ev[h].sub = s

\* What is true of an event from its announcement to its answer.
Announced(e) ==
    /\ e.sub \in Subs /\ Bought(e.sub) /\ e.rank \in 1 .. emits
    /\ e.status \in {"active", "past_due", "canceled"}
    /\ e.kind \in Paying \cup {"checkout.session.completed"} => e.status = "active"
    /\ e.kind = "subscription.activated" => e.payment \in {0, 1}
    /\ Failed(e) => e.status = "past_due"
    /\ Action(e.kind) = "deleted" <=> e.status = "canceled"
    /\ ~e.priced => e.kind \in Invoices /\ e.sub \in Stripe /\ FALSE \in Priced

\* A creation is announced first of all, a failed payment when nothing is pending.
FirstRanks ==
    \A e, f \in pending : e.sub = f.sub /\ (Creation(e) \/ Failed(e)) => e.rank <= f.rank

\* What a request writes is what its event said when it was delivered.
Carries(h) ==
    /\ Bought(ev[h].sub)
    /\ data[h].action = Action(ev[h].kind)
    /\ pc[h] \in {"insert", "grant"} => data[h].action = "created"
    /\ IF data[h].action = "created" THEN data[h].payment \in {0, 1} /\ ev[h].sub \notin Unowned
       ELSE data[h].payment = PaymentOf(ev[h])

\* A payment that has no invoice yet is about to have one, or is lost.
Awaited(s, p) == \E e \in pending : e.sub = s /\ Action(e.kind) = "updated" /\ PaymentOf(e) = p

Covered(s, p) ==
    \/ <<s, p>> \in invoices \cup lost
    \/ p = 1 /\ \E h \in Handlers : /\ pc[h] \in {"grant", "invoice"} /\ ev[h].sub = s
                                    /\ data[h].action = "created" /\ data[h].payment = 1
    \/ Awaited(s, p)

InvoicesFollow == \A s \in Owned \ torn : HasRow(s) => \A p \in 1 .. truth[s].paid : Covered(s, p)

\* Before the row there is one payment at most, and none has failed; it is still
\* to be delivered or has been dropped.
PaidOnce ==
    \A s \in Subs : /\ ~Bought(s) => truth[s].paid = 0 /\ ~HasRow(s)
                    /\ Bought(s) /\ ~HasRow(s) /\ s \notin Unowned =>
                         truth[s].paid = 1 /\ truth[s].status # "past_due"

FirstPayment ==
    \A s \in Owned : Bought(s) /\ ~HasRow(s) => <<s, 1>> \in lost \/ Awaited(s, 1)

\* Of the events that came in order: one is handled at a time, the earliest, and
\* the latest say how the provider has it now.
Follows(s) ==
    /\ \A h, g \in Handlers : Busy(h, s) /\ Busy(g, s) => h = g
    /\ \A h \in Handlers : Busy(h, s) =>
         ev[h] \in pending /\ \A f \in pending : f.sub = s => ev[h].rank <= f.rank
    /\ \A e \in pending : e.sub = s /\ (\A f \in pending : f.sub = s => f.rank <= e.rank)
         => e.plan = truth[s].plan /\ e.status = truth[s].status

PlansOf(s) == {truth[s].plan} \cup IF s \in Stripe /\ FALSE \in Priced THEN {"PRO"} ELSE {}
Alone(s) == \A t \in Subs \ {s} : ~Bought(t)

RowMirrors(s) ==
    /\ truth[s].status = "active" => row[s].status = "ACTIVE" /\ row[s].plan \in PlansOf(s)
    /\ truth[s].status = "past_due" => row[s].status = "PAST_DUE" /\ row[s].plan \in PlansOf(s)
    /\ truth[s].status = "canceled" => row[s].status = "CANCELED"

UserMirrors(s) ==
    Alone(s) => /\ truth[s].status \in {"active", "past_due"} => userPlan \in PlansOf(s)
                /\ truth[s].status = "canceled" => userPlan = "FREE"

\* Only the last announcement is still to be handled, if any.
Last(s) == \A e, f \in pending : e.sub = s /\ f.sub = s => e.rank = f.rank

\* What is to be shown of a pending event, and of a request, in that case.
EventShown(e, s) ==
    /\ Creation(e) /\ HasRow(s) => /\ RowMirrors(s)
                                   /\ UserMirrors(s) \/ \E h \in Handlers : pc[h] = "grant" /\ ev[h].sub = s
    /\ Failed(e) => row[s].plan \in PlansOf(s) /\ (Alone(s) => userPlan \in PlansOf(s))

RequestShown(h, s) ==
    /\ pc[h] = "insert" => data[h].plan = truth[s].plan /\ data[h].status = MapStatus(truth[s].status)
    /\ pc[h] = "grant" => data[h].plan = truth[s].plan /\ RowMirrors(s)
    /\ pc[h] = "invoice" => RowMirrors(s) /\ UserMirrors(s)

Shown(s) ==
    /\ Bought(s) /\ (\A e \in pending : e.sub # s) => RowMirrors(s) /\ UserMirrors(s)
    /\ Last(s) => /\ \A e \in pending : e.sub = s => EventShown(e, s)
                  /\ \A h \in Handlers : Busy(h, s) => RequestShown(h, s)

MInv ==
    /\ emits \in Nat /\ orderly \subseteq Subs
    /\ \A e \in pending : Announced(e)
    /\ FirstRanks
    /\ \A h \in Handlers : pc[h] # "idle" => Carries(h)
    /\ PaidOnce
    /\ FirstPayment
    /\ InvoicesFollow
    /\ \A s \in orderly : Follows(s)
    /\ \A s \in (orderly \cap Owned) \ torn : Shown(s)

LEMMA InitMInv == Init => MInv
<1> SUFFICES ASSUME Init PROVE MInv
  OBVIOUS
<1>1. \A s \in Subs : ~Bought(s) /\ ~HasRow(s) /\ truth[s].paid = 0
  BY DEF Init, Bought, HasRow, NoRow
<1>2. pending = {} /\ emits = 0 /\ \A h \in Handlers : pc[h] = "idle"
  BY DEF Init
<1>3. \A s : Follows(s)
  BY <1>2 DEF Follows, Busy
<1>4. \A s \in Subs : Shown(s)
  BY <1>1, <1>2 DEF Shown, Busy
<1>5. orderly = Subs
  BY DEF Init
<1> QED BY <1>1, <1>2, <1>3, <1>4, <1>5 DEF MInv, FirstRanks, PaidOnce, FirstPayment, InvoicesFollow, Owned

\* A subscription that the step is not about.
LEMMA OtherSub ==
  ASSUME NEW t \in Subs,
         truth'[t].plan = truth[t].plan /\ truth'[t].status = truth[t].status,
         row'[t].plan = row[t].plan /\ row'[t].status = row[t].status,
         Alone(t)' => Alone(t) /\ userPlan' = userPlan,
         \A f : f.sub = t => (f \in pending' <=> f \in pending),
         \A h \in Handlers : Busy(h, t) \/ Busy(h, t)' =>
            pc'[h] = pc[h] /\ ev'[h] = ev[h] /\ data'[h] = data[h]
  PROVE  /\ Follows(t) => Follows(t)'
         /\ Shown(t) => Shown(t)'
<1>1. \A h \in Handlers : Busy(h, t)' <=> Busy(h, t)
  BY DEF Busy
<1>2. Follows(t) => Follows(t)'
  <2> SUFFICES ASSUME Follows(t) PROVE Follows(t)'
    OBVIOUS
  <2>1. \A h, g \in Handlers : Busy(h, t)' /\ Busy(g, t)' => h = g
    BY <1>1 DEF Follows
  <2>2. \A h \in Handlers : Busy(h, t)' =>
          ev'[h] \in pending' /\ \A f \in pending' : f.sub = t => ev'[h].rank <= f.rank
    BY <1>1 DEF Follows, Busy
  <2>3. \A e \in pending' : e.sub = t /\ (\A f \in pending' : f.sub = t => f.rank <= e.rank)
          => e.plan = truth'[t].plan /\ e.status = truth'[t].status
    BY DEF Follows
  <2> QED BY <2>1, <2>2, <2>3 DEF Follows
<1>3. Shown(t) => Shown(t)'
  <2> SUFFICES ASSUME Shown(t) PROVE Shown(t)'
    OBVIOUS
  <2>1. /\ PlansOf(t)' = PlansOf(t) /\ (RowMirrors(t) => RowMirrors(t)')
        /\ UserMirrors(t) => UserMirrors(t)'
        /\ (Alone(t) => userPlan \in PlansOf(t)) => (Alone(t)' => userPlan' \in PlansOf(t)')
        /\ Bought(t)' <=> Bought(t)
        /\ HasRow(t)' <=> HasRow(t)
    BY DEF PlansOf, RowMirrors, UserMirrors, Bought, HasRow
  <2>2. (\E h \in Handlers : pc[h] = "grant" /\ ev[h].sub = t)
        => \E h \in Handlers : pc'[h] = "grant" /\ ev'[h].sub = t
    BY DEF Busy
  <2>3. \A e : EventShown(e, t) => EventShown(e, t)'
    BY <2>1, <2>2 DEF EventShown
  <2>4. \A h \in Handlers : Busy(h, t) /\ RequestShown(h, t) => RequestShown(h, t)'
    BY <2>1 DEF RequestShown
  <2>5. Last(t)' <=> Last(t)
    BY DEF Last
  <2> QED BY <1>1, <2>1, <2>3, <2>4, <2>5 DEF Shown
<1> QED BY <1>2, <1>3


\* What a provider says of s when it announces events of some kinds.
Fits(s, now, kinds, payment) ==
    /\ now \in [plan : Plans, status : {"active", "past_due", "canceled"}, ending : BOOLEAN, paid : Nat]
    /\ kinds # {}
    /\ \A k \in kinds :
         /\ k \in Paying \cup {"checkout.session.completed"} => now.status = "active"
         /\ k = "subscription.activated" => payment = 1
         /\ Action(k) = "failed" => /\ now.status = "past_due" /\ now.plan = truth[s].plan
                                    /\ truth[s].status = "active" /\ \A e \in pending : e.sub # s
         /\ Action(k) = "deleted" <=> now.status = "canceled"
         /\ Action(k) = "created" => ~Bought(s)
         /\ k \in Invoices => s \in Stripe
    /\ IF now.paid = truth[s].paid THEN Bought(s)
       ELSE /\ now.paid = truth[s].paid + 1 /\ payment = now.paid
            /\ \E k \in kinds : k \in {"invoice.payment_succeeded", "subscription.charged"}
            /\ Bought(s) => truth[s].status = "past_due" \/ \A e \in pending : e.sub # s
    /\ now.status = "past_due" =>
         Bought(s) /\ (truth[s].status = "past_due" \/ \A e \in pending : e.sub # s)

LEMMA AnnounceKeepsMInv ==
  ASSUME IInv, MInv, NEW s \in Subs, NEW now, NEW kinds, NEW payment,
         Fits(s, now, kinds, payment), Announce(s, now, kinds, payment),
         UNCHANGED <<tables, request, history>>
  PROVE  MInv'
<1>1. /\ UNCHANGED <<row, userPlan, invoices, pc, ev, data, orderly, torn, lost>>
      /\ truth'[s] = now /\ \A t \in Subs \ {s} : truth'[t] = truth[t]
      /\ emits \in Nat /\ emits' = emits + 1
  BY DEF Announce, tables, request, history, IInv, Types, MInv
<1>2. /\ now.plan \in Plans /\ now.status \in {"active", "past_due", "canceled"} /\ now.paid \in Nat
      /\ truth[s].paid \in Nat
  BY DEF Fits, IInv, Types
<1>3. Bought(s)' /\ (\A t \in Subs : Bought(t) => Bought(t)') /\ \A t \in Subs \ {s} : Bought(t)' <=> Bought(t)
  BY <1>1, <1>2 DEF Bought, None
<1>4. PICK priced \in Priced, bare \in {FALSE, (s \in Bare)} : pending' = pending \cup
           {[sub |-> s, rank |-> emits + 1, kind |-> k,
             payment |-> IF k \in Creations /\ bare THEN 0 ELSE payment,
             priced |-> priced \/ now.plan = "PRO" \/ k \notin Invoices, plan |-> now.plan,
             status |-> now.status, ending |-> now.ending] : k \in kinds}
  BY DEF Announce
<1>5. ASSUME NEW e \in pending', e \notin pending
      PROVE  /\ e.sub = s /\ e.rank = emits + 1 /\ e.plan = now.plan /\ e.status = now.status
             /\ e.kind \in kinds /\ e.payment \in {0, payment}
  <2>1. PICK k \in kinds :
          e = [sub |-> s, rank |-> emits + 1, kind |-> k,
               payment |-> IF k \in Creations /\ bare THEN 0 ELSE payment,
               priced |-> priced \/ now.plan = "PRO" \/ k \notin Invoices, plan |-> now.plan,
               status |-> now.status, ending |-> now.ending]
    BY <1>4, <1>5
  <2> QED BY <2>1
<1>5a. ASSUME NEW e \in pending', e \notin pending, ~e.priced
       PROVE  e.kind \in Invoices /\ FALSE \in Priced
  <2>1. PICK k \in kinds :
          e = [sub |-> s, rank |-> emits + 1, kind |-> k,
               payment |-> IF k \in Creations /\ bare THEN 0 ELSE payment,
               priced |-> priced \/ now.plan = "PRO" \/ k \notin Invoices, plan |-> now.plan,
               status |-> now.status, ending |-> now.ending]
    BY <1>4, <1>5a
  <2>2. e.kind = k /\ e.priced = (priced \/ now.plan = "PRO" \/ k \notin Invoices)
    BY <2>1
  <2>3. priced = FALSE /\ k \in Invoices
    BY <1>5a, <2>2, BillingAssumption
  <2> QED BY <2>2, <2>3
<1>6. \A k \in kinds : \E e \in pending' :
         e.sub = s /\ e.kind = k /\ e.rank = emits + 1 /\ (k \in Creations \/ e.payment = payment)
  <2> TAKE k \in kinds
  <2> DEFINE event == [sub |-> s, rank |-> emits + 1, kind |-> k,
                       payment |-> IF k \in Creations /\ bare THEN 0 ELSE payment,
                       priced |-> priced \/ now.plan = "PRO" \/ k \notin Invoices, plan |-> now.plan,
                       status |-> now.status, ending |-> now.ending]
  <2>1. event \in pending'
    BY <1>4
  <2>2. /\ event.sub = s /\ event.kind = k /\ event.rank = emits + 1
        /\ k \in Creations \/ event.payment = payment
    OBVIOUS
  <2> HIDE DEF event
  <2> QED BY <2>1, <2>2
<1>7. \A e \in pending : Announced(e) /\ e.rank \in 1 .. emits
  BY DEF MInv, Announced
<1>8. pending \subseteq pending'
  BY <1>4
<1>9. \A e \in pending' : Announced(e)'
  <2>1. ASSUME NEW e \in pending PROVE Announced(e)'
    <3>1. Announced(e) /\ e.rank \in 1 .. emits /\ e.sub \in Subs /\ Bought(e.sub)
      BY <1>7 DEF Announced
    <3>2. e.rank \in 1 .. emits'
      BY <1>1, <3>1
    <3>3. Bought(e.sub)'
      BY <1>3, <3>1
    <3> QED BY <3>1, <3>2, <3>3 DEF Announced
  <2>2. ASSUME NEW e \in pending', e \notin pending PROVE Announced(e)'
    <3>1. e.rank \in 1 .. emits'
      BY <1>1, <1>5, <2>2
    <3>2. ~e.priced => e.kind \in Invoices /\ e.sub \in Stripe /\ FALSE \in Priced
      BY <1>5, <1>5a, <2>2 DEF Fits
    <3> QED BY <1>2, <1>3, <1>5, <2>2, <3>1, <3>2 DEF Announced, Fits, Failed
  <2> QED BY <2>1, <2>2
<1>10. FirstRanks'
  <2> SUFFICES ASSUME NEW e \in pending', NEW f \in pending', e.sub = f.sub, Creation(e) \/ Failed(e)
               PROVE  e.rank <= f.rank
    BY DEF FirstRanks, Creation, Failed
  <2>1. CASE e \in pending /\ f \in pending
    BY <2>1 DEF MInv, FirstRanks
  <2>2. CASE f \notin pending
    BY <1>1, <1>5, <1>7, <2>2
  <2>3. CASE e \notin pending /\ f \in pending
    <3>1. e.kind \in kinds /\ e.sub = s
      BY <1>5, <2>3
    <3>2. CASE Creation(e)
      BY <1>7, <2>3, <3>1, <3>2 DEF Fits, Creation, Announced
    <3>3. CASE Failed(e)
      BY <2>3, <3>1, <3>3 DEF Fits, Failed
    <3> QED BY <3>2, <3>3
  <2> QED BY <2>1, <2>2, <2>3
<1>11. \A h \in Handlers : pc'[h] # "idle" => Carries(h)'
  <2> SUFFICES ASSUME NEW h \in Handlers, pc[h] # "idle" PROVE Carries(h)'
    BY <1>1
  <2>1. Carries(h) /\ ev[h].sub \in Subs
    BY DEF MInv, IInv, Request, Known
  <2>2. Bought(ev[h].sub)'
    BY <1>1, <1>3, <2>1 DEF Carries, Bought
  <2> QED BY <1>1, <2>1, <2>2 DEF Carries
<1>12. PaidOnce'
  <2> SUFFICES ASSUME NEW t \in Subs
               PROVE  /\ ~Bought(t)' => truth'[t].paid = 0 /\ ~HasRow(t)'
                      /\ Bought(t)' /\ ~HasRow(t)' /\ t \notin Unowned =>
                           truth'[t].paid = 1 /\ truth'[t].status # "past_due"
    BY DEF PaidOnce
  <2>1. HasRow(t)' <=> HasRow(t)
    BY <1>1 DEF HasRow
  <2>2. CASE t # s
    BY <1>1, <1>3, <2>1, <2>2 DEF MInv, PaidOnce
  <2>3. CASE t = s
    <3> SUFFICES ASSUME ~HasRow(s), s \notin Unowned PROVE now.paid = 1 /\ now.status # "past_due"
      BY <1>1, <1>3, <2>1, <2>3
    <3>1. Bought(s) => \E e \in pending : e.sub = s
      BY DEF IInv, WillBeCreated
    <3>2. Bought(s) => truth[s].paid = 1 /\ truth[s].status # "past_due"
      BY DEF MInv, PaidOnce
    <3> QED BY <3>1, <3>2 DEF Fits, MInv, PaidOnce
  <2> QED BY <2>2, <2>3
<1>13. InvoicesFollow'
  <2> SUFFICES ASSUME NEW t \in Owned \ torn, HasRow(t), NEW p \in 1 .. truth'[t].paid PROVE Covered(t, p)'
    BY <1>1 DEF InvoicesFollow, HasRow, Owned
  <2>1. t \in Subs /\ truth[t].paid \in Nat
    BY DEF Owned, IInv, Types
  <2>2. CASE p \in 1 .. truth[t].paid
    <3>1. Covered(t, p)
      BY <2>2 DEF MInv, InvoicesFollow
    <3> QED BY <1>1, <1>8, <3>1 DEF Covered, Awaited
  <2>3. CASE p \notin 1 .. truth[t].paid
    <3>1. t = s /\ p = now.paid /\ now.paid # truth[s].paid
      BY <1>1, <1>2, <2>1, <2>3 DEF Fits
    <3>2. PICK k \in kinds : k \in {"invoice.payment_succeeded", "subscription.charged"}
      BY <3>1 DEF Fits
    <3>3. PICK e \in pending' : e.sub = s /\ e.kind = k /\ e.payment = payment
      <4>1. k \notin Creations
        BY <3>2 DEF Creations
      <4> QED BY <1>6, <4>1
    <3>4. Action(e.kind) = "updated" /\ PaymentOf(e) = p
      BY <3>1, <3>2, <3>3 DEF Fits, Action, PaymentOf, Paying, Creations
    <3> QED BY <3>1, <3>3, <3>4 DEF Covered, Awaited
  <2> QED BY <2>2, <2>3
<1>13a. FirstPayment'
  <2> SUFFICES ASSUME NEW t \in Owned, Bought(t)', ~HasRow(t)' PROVE <<t, 1>> \in lost \/ Awaited(t, 1)'
    BY <1>1 DEF FirstPayment, Owned
  <2>1. CASE Bought(t)
    <3>1. <<t, 1>> \in lost \/ Awaited(t, 1)
      BY <1>1, <2>1 DEF MInv, FirstPayment, HasRow
    <3> QED BY <1>8, <3>1 DEF Awaited
  <2>2. CASE ~Bought(t)
    <3>1. t = s /\ truth[s].paid = 0
      BY <1>3, <2>2 DEF Owned, MInv, PaidOnce
    <3>2. PICK k \in kinds : k \in {"invoice.payment_succeeded", "subscription.charged"}
      BY <2>2, <3>1 DEF Fits
    <3>3. payment = 1
      BY <2>2, <3>1 DEF Fits
    <3>4. PICK e \in pending' : e.sub = s /\ e.kind = k /\ e.payment = payment
      <4>1. k \notin Creations
        BY <3>2 DEF Creations
      <4> QED BY <1>6, <4>1
    <3>5. Action(e.kind) = "updated" /\ PaymentOf(e) = 1
      BY <3>2, <3>3, <3>4 DEF Action, PaymentOf, Paying, Creations
    <3> QED BY <3>1, <3>4, <3>5 DEF Awaited
  <2> QED BY <2>1, <2>2
<1>14. ASSUME NEW t \in Subs, t # s
       PROVE  (Follows(t) => Follows(t)') /\ (Shown(t) => Shown(t)')
  <2>1. Alone(t)' => Alone(t)
    BY <1>3 DEF Alone
  <2>2. \A f : f.sub = t => (f \in pending' <=> f \in pending)
    BY <1>5, <1>8, <1>14
  <2> QED BY <1>1, <1>14, <2>1, <2>2, OtherSub
<1>15. ASSUME s \in orderly PROVE Follows(s)'
  <2>1. Follows(s)
    BY <1>15 DEF MInv
  <2>2. ASSUME NEW h \in Handlers, NEW f \in pending', f.sub = s, Busy(h, s)
        PROVE  ev[h] \in pending' /\ ev[h].rank <= f.rank
    BY <1>1, <1>5, <1>7, <1>8, <2>1, <2>2 DEF Follows
  <2>3. \E e \in pending' : e.sub = s /\ e.rank = emits + 1
    <3>1. PICK k \in kinds : TRUE
      BY DEF Fits
    <3> QED BY <1>6, <3>1
  <2>4. ASSUME NEW e \in pending', e.sub = s, \A f \in pending' : f.sub = s => f.rank <= e.rank
        PROVE  e.plan = truth'[s].plan /\ e.status = truth'[s].status
    BY <1>1, <1>5, <1>7, <2>3, <2>4
  <2> QED BY <1>1, <2>1, <2>2, <2>3, <2>4 DEF Follows, Busy
<1>16. ASSUME s \in (orderly \cap Owned) \ torn PROVE Shown(s)'
  <2>1. Follows(s) /\ Shown(s)
    BY <1>16 DEF MInv
  <2>2. PICK e \in pending' : e.sub = s /\ e.rank = emits + 1
    <3>1. PICK k \in kinds : TRUE
      BY DEF Fits
    <3> QED BY <1>6, <3>1
  <2>3. SUFFICES ASSUME Last(s)'
                 PROVE  /\ \A f \in pending' : f.sub = s => EventShown(f, s)'
                        /\ \A h \in Handlers : Busy(h, s)' => RequestShown(h, s)'
    BY <2>2 DEF Shown
  <2>4. \A f \in pending : f.sub # s
    BY <1>1, <1>7, <1>8, <2>2, <2>3 DEF Last
  <2>5. \A h \in Handlers : ~Busy(h, s)'
    BY <1>1, <2>1, <2>4 DEF Follows, Busy
  <2>6. ASSUME NEW f \in pending', f.sub = s PROVE EventShown(f, s)'
    <3>1. f \notin pending /\ f.kind \in kinds
      BY <1>5, <2>4, <2>6
    <3>2. Creation(f) => ~HasRow(s)
      BY <3>1 DEF Fits, Creation, MInv, PaidOnce
    <3>3. ASSUME Failed(f) PROVE row'[s].plan \in PlansOf(s)' /\ (Alone(s)' => userPlan' \in PlansOf(s)')
      <4>1. truth[s].status = "active" /\ now.plan = truth[s].plan
        BY <3>1, <3>3 DEF Fits, Failed
      <4>2. Bought(s) /\ PlansOf(s)' = PlansOf(s)
        BY <1>1, <4>1 DEF Bought, None, PlansOf
      <4>3. RowMirrors(s) /\ UserMirrors(s)
        BY <2>1, <2>4, <4>2 DEF Shown
      <4>4. Alone(s)' => Alone(s)
        BY <1>3 DEF Alone
      <4> QED BY <1>1, <4>1, <4>2, <4>3, <4>4 DEF RowMirrors, UserMirrors
    <3>4. HasRow(s)' <=> HasRow(s)
      BY <1>1 DEF HasRow
    <3> QED BY <3>2, <3>3, <3>4 DEF EventShown
  <2> QED BY <2>5, <2>6
<1>17. \A t \in orderly' : Follows(t)'
  BY <1>1, <1>14, <1>15 DEF MInv
<1>18. \A t \in (orderly' \cap Owned) \ torn' : Shown(t)'
  BY <1>1, <1>14, <1>16 DEF MInv, Owned
<1> QED BY <1>1, <1>9, <1>10, <1>11, <1>12, <1>13, <1>13a, <1>17, <1>18 DEF MInv


\* What the providers announce fits what they said before.
LEMMA ProviderKeepsMInv ==
  ASSUME IInv, MInv, NEW s \in Subs, ProviderStep(s)
  PROVE  MInv'
<1>1. /\ truth[s] \in [plan : Plans, status : {None, "active", "past_due", "canceled"},
                       ending : BOOLEAN, paid : Nat]
      /\ UNCHANGED <<tables, request, history>>
  BY DEF IInv, Types, ProviderStep, Subscribe, ChangePlan, Renew, RenewFails, End, External
<1>2. CASE Subscribe(s)
  <2> DEFINE kinds == Kinds(s, {"checkout.session.completed", "invoice.payment_succeeded"},
                               {"subscription.activated", "subscription.charged"})
  <2>1. PICK plan \in Plans :
          Announce(s, [plan |-> plan, status |-> "active", ending |-> FALSE, paid |-> 1], kinds, 1)
    BY <1>2 DEF Subscribe
  <2>2. PICK now : now = [plan |-> plan, status |-> "active", ending |-> FALSE, paid |-> 1]
    OBVIOUS
  <2>3. ~Bought(s) /\ truth[s].paid = 0
    BY <1>2 DEF Subscribe, Bought, MInv, PaidOnce
  <2>4. /\ now \in [plan : Plans, status : {"active", "past_due", "canceled"}, ending : BOOLEAN, paid : Nat]
        /\ now.status = "active" /\ now.paid = 1
    BY <2>2
  <2>5. Fits(s, now, kinds, 1)
    BY <2>3, <2>4 DEF Fits, Kinds, Action, Creations, Paying, Invoices
  <2>6. Announce(s, now, kinds, 1)
    BY <2>1, <2>2
  <2> HIDE DEF kinds
  <2> QED BY <1>1, <2>5, <2>6, AnnounceKeepsMInv
<1>3. CASE ChangePlan(s)
  <2> DEFINE kinds == Kinds(s, {"customer.subscription.updated"}, {"subscription.updated"})
  <2>1. PICK plan \in Plans : Announce(s, [truth[s] EXCEPT !.plan = plan], kinds, 0)
    BY <1>3 DEF ChangePlan
  <2>2. PICK now : now = [truth[s] EXCEPT !.plan = plan]
    OBVIOUS
  <2>3. truth[s].status \in {"active", "past_due"} /\ Bought(s)
    BY <1>3 DEF ChangePlan, Alive, None, Bought
  <2>4. /\ now \in [plan : Plans, status : {"active", "past_due", "canceled"}, ending : BOOLEAN, paid : Nat]
        /\ now.status = truth[s].status /\ now.paid = truth[s].paid
    BY <1>1, <2>2, <2>3
  <2>5. Fits(s, now, kinds, 0)
    BY <2>3, <2>4 DEF Fits, Kinds, Action, Creations, Paying, Invoices
  <2>6. Announce(s, now, kinds, 0)
    BY <2>1, <2>2
  <2> HIDE DEF kinds
  <2> QED BY <1>1, <2>5, <2>6, AnnounceKeepsMInv
<1>4. CASE Renew(s)
  <2> DEFINE kinds == Kinds(s, {"customer.subscription.updated", "invoice.payment_succeeded"},
                               {"subscription.charged"})
  <2>1. PICK paid \in Nat : paid = truth[s].paid + 1
    BY <1>1
  <2>2. PICK now : now = [truth[s] EXCEPT !.status = "active", !.paid = paid]
    OBVIOUS
  <2>3. /\ truth[s].status \in {"active", "past_due"} /\ Bought(s)
        /\ truth[s].status = "past_due" \/ \A e \in pending : e.sub # s
    BY <1>4 DEF Renew, PeriodOver, Alive, None, Bought
  <2>4. /\ now \in [plan : Plans, status : {"active", "past_due", "canceled"}, ending : BOOLEAN, paid : Nat]
        /\ now.status = "active" /\ now.paid = paid
    BY <1>1, <2>2, <2>3
  <2>5. Fits(s, now, kinds, paid)
    <3>1. truth[s].paid \in Nat
      BY <1>1
    <3> QED BY <2>1, <2>3, <2>4, <3>1 DEF Fits, Kinds, Action, Creations, Paying, Invoices
  <2>6. Announce(s, now, kinds, paid)
    BY <1>4, <2>1, <2>2 DEF Renew
  <2> HIDE DEF kinds
  <2> QED BY <1>1, <2>5, <2>6, AnnounceKeepsMInv
<1>5. CASE RenewFails(s)
  <2> DEFINE kinds == Kinds(s, {"customer.subscription.updated", "invoice.payment_failed"},
                               {"subscription.halted"})
  <2>1. PICK now : now = [truth[s] EXCEPT !.status = "past_due"]
    OBVIOUS
  <2>2. truth[s].status = "active" /\ Bought(s) /\ \A e \in pending : e.sub # s
    BY <1>5 DEF RenewFails, PeriodOver, None, Bought
  <2>3. /\ now \in [plan : Plans, status : {"active", "past_due", "canceled"}, ending : BOOLEAN, paid : Nat]
        /\ now.status = "past_due" /\ now.paid = truth[s].paid /\ now.plan = truth[s].plan
    BY <1>1, <2>1, <2>2
  <2>4. Fits(s, now, kinds, 0)
    BY <2>2, <2>3 DEF Fits, Kinds, Action, Creations, Paying, Invoices
  <2>5. Announce(s, now, kinds, 0)
    BY <1>5, <2>1 DEF RenewFails
  <2> HIDE DEF kinds
  <2> QED BY <1>1, <2>4, <2>5, AnnounceKeepsMInv
<1>6. CASE End(s)
  <2> DEFINE kinds == Kinds(s, {"customer.subscription.deleted"}, {"subscription.cancelled"})
  <2>1. PICK now : now = [truth[s] EXCEPT !.status = "canceled"]
    OBVIOUS
  <2>2. Bought(s)
    BY <1>6 DEF End, Alive, None, Bought
  <2>3. /\ now \in [plan : Plans, status : {"active", "past_due", "canceled"}, ending : BOOLEAN, paid : Nat]
        /\ now.status = "canceled" /\ now.paid = truth[s].paid
    BY <1>1, <2>1
  <2>4. Fits(s, now, kinds, 0)
    BY <2>2, <2>3 DEF Fits, Kinds, Action, Creations, Paying, Invoices
  <2>5. Announce(s, now, kinds, 0)
    BY <1>6, <2>1 DEF End
  <2> HIDE DEF kinds
  <2> QED BY <1>1, <2>4, <2>5, AnnounceKeepsMInv
<1> QED BY <1>2, <1>3, <1>4, <1>5, <1>6 DEF ProviderStep

\* What a user cancels changes nothing of all that.
LEMMA SilentKeepsMInv ==
  ASSUME IInv, MInv, UNCHANGED <<emits, pending, userPlan, invoices, pc, ev, data, orderly, torn, lost>>,
         \A s \in Subs : /\ truth'[s].plan = truth[s].plan /\ truth'[s].status = truth[s].status
                         /\ truth'[s].paid = truth[s].paid
                         /\ row'[s].plan = row[s].plan /\ row'[s].status = row[s].status
  PROVE  MInv'
<1>1. \A s \in Subs : /\ Bought(s)' <=> Bought(s)
                      /\ HasRow(s)' <=> HasRow(s)
  BY DEF Bought, HasRow
<1>2. \A e \in pending : Announced(e) => Announced(e)'
  BY <1>1 DEF Announced
<1>3. FirstRanks' /\ PaidOnce' /\ FirstPayment'
  BY <1>1 DEF MInv, FirstRanks, PaidOnce, FirstPayment, Awaited, Owned
<1>4. \A h \in Handlers : pc'[h] # "idle" => Carries(h)'
  <2> SUFFICES ASSUME NEW h \in Handlers, pc[h] # "idle" PROVE Carries(h)'
    OBVIOUS
  <2>1. Carries(h) /\ ev[h].sub \in Subs
    BY DEF MInv, IInv, Request, Known
  <2>2. Bought(ev[h].sub)'
    BY <2>1 DEF Carries, Bought
  <2> QED BY <2>1, <2>2 DEF Carries
<1>5. InvoicesFollow'
  <2> SUFFICES ASSUME NEW t \in Owned \ torn, HasRow(t)', NEW p \in 1 .. truth'[t].paid PROVE Covered(t, p)'
    BY DEF InvoicesFollow, Owned
  <2>1. Covered(t, p)
    BY <1>1 DEF MInv, InvoicesFollow, Owned
  <2> QED BY <2>1 DEF Covered, Awaited
<1>6. \A t \in Subs : (Follows(t) => Follows(t)') /\ (Shown(t) => Shown(t)')
  <2> SUFFICES ASSUME NEW t \in Subs PROVE (Follows(t) => Follows(t)') /\ (Shown(t) => Shown(t)')
    OBVIOUS
  <2>1. Alone(t)' => Alone(t)
    BY <1>1 DEF Alone
  <2> QED BY <2>1, OtherSub
<1> QED BY <1>2, <1>3, <1>4, <1>5, <1>6 DEF MInv, Owned

LEMMA CancelKeepsMInv ==
  ASSUME IInv, MInv, Cancel \/ UNCHANGED vars
  PROVE  MInv'
<1>1. ASSUME NEW s \in Subs, CancelAtProvider(s) PROVE MInv'
  <2>1. /\ truth[s] \in [plan : Plans, status : {None, "active", "past_due", "canceled"},
                         ending : BOOLEAN, paid : Nat]
        /\ truth[s].status \in {"active", "past_due"} /\ Bought(s)
        /\ UNCHANGED <<tables, request, history>>
    BY <1>1 DEF IInv, Types, CancelAtProvider, Alive, Bought, None
  <2>2. PICK now : now = [truth[s] EXCEPT !.ending = TRUE]
    OBVIOUS
  <2>3. /\ now \in [plan : Plans, status : {"active", "past_due", "canceled"}, ending : BOOLEAN, paid : Nat]
        /\ now.status = truth[s].status /\ now.plan = truth[s].plan /\ now.paid = truth[s].paid
    BY <2>1, <2>2
  <2>4. CASE s \in Stripe /\ ~truth[s].ending
    <3>1. Announce(s, now, {"customer.subscription.updated"}, 0)
      BY <1>1, <2>2, <2>4 DEF CancelAtProvider
    <3>2. Fits(s, now, {"customer.subscription.updated"}, 0)
      BY <2>1, <2>3 DEF Fits, Action, Creations, Paying, Invoices
    <3> QED BY <2>1, <3>1, <3>2, AnnounceKeepsMInv
  <2>5. CASE ~(s \in Stripe /\ ~truth[s].ending)
    <3>1. truth' = [truth EXCEPT ![s] = now] /\ UNCHANGED <<emits, pending>>
      BY <1>1, <2>2, <2>5 DEF CancelAtProvider
    <3>2. \A t \in Subs : /\ truth'[t].plan = truth[t].plan /\ truth'[t].status = truth[t].status
                          /\ truth'[t].paid = truth[t].paid
      BY <2>3, <3>1 DEF IInv, Types
    <3> QED BY <2>1, <3>1, <3>2, SilentKeepsMInv DEF tables, request, history
  <2> QED BY <2>4, <2>5
<1>2. CASE CancelMark
  <2>1. UNCHANGED <<truth, emits, pending, userPlan, invoices, pc, ev, data, orderly, torn, lost>>
    BY <1>2 DEF CancelMark, provider, request, history
  <2>2. \A t \in Subs : row'[t].plan = row[t].plan /\ row'[t].status = row[t].status
    BY <1>2 DEF CancelMark, IInv, Types
  <2> QED BY <2>1, <2>2, SilentKeepsMInv
<1>3. CASE CancelAbort \/ (\E s \in Subs : CancelRead(s)) \/ UNCHANGED vars
  BY <1>3, SilentKeepsMInv DEF CancelAbort, CancelRead, vars, provider, tables, request, history
<1> QED BY <1>1, <1>2, <1>3 DEF Cancel


-----------------------------------------------------------------------------
\* What the webhook requests do to the invoices and to what is shown.

\* What is written for an event is what the provider said with it.
LEMMA ParseFits ==
  ASSUME IInv, MInv, NEW e \in pending
  PROVE  /\ Parse(e).action = Action(e.kind)
         /\ Parse(e).action = "created" /\ ~HasRow(e.sub) /\ e.sub \notin Unowned => Parse(e).payment \in {0, 1}
         /\ Parse(e).action # "created" => Parse(e).payment = PaymentOf(e)
         /\ Parse(e).action = "updated" => e.status \in {"active", "past_due"}
         /\ e.plan = truth[e.sub].plan /\ e.status = truth[e.sub].status =>
              /\ Parse(e).action = "created" => Parse(e).plan = truth[e.sub].plan
              /\ Parse(e).action \in {"created", "updated"} =>
                   Parse(e).plan \in PlansOf(e.sub) /\ Parse(e).status = MapStatus(truth[e.sub].status)
<1>1. Announced(e) /\ e.sub \in Subs /\ Bought(e.sub)
  BY DEF MInv, Announced
<1>2. Parse(e).action = Action(e.kind)
  BY DEF Parse, ParseCheckout, Action, Creations
<1>3. Action(e.kind) = "updated" => e.status \in {"active", "past_due"}
  BY <1>1 DEF Announced
<1>4. CASE e.kind = "checkout.session.completed"
  <2>1. /\ Parse(e).plan = truth[e.sub].plan /\ Parse(e).status = MapStatus(truth[e.sub].status)
        /\ Parse(e).payment \in {0, truth[e.sub].paid} /\ Action(e.kind) = "created"
    BY <1>4 DEF Parse, ParseCheckout, Action, Creations
  <2>2. ~HasRow(e.sub) /\ e.sub \notin Unowned => truth[e.sub].paid = 1
    BY <1>1 DEF MInv, PaidOnce
  <2> QED BY <1>2, <2>1, <2>2 DEF PlansOf
<1>5. CASE e.kind # "checkout.session.completed"
  <2>1. Parse(e).plan = PlanOf(e) /\ Parse(e).status = StatusOf(e) /\ Parse(e).payment = PaymentOf(e)
    BY <1>5 DEF Parse
  <2>2. Action(e.kind) = "created" => e.kind = "subscription.activated"
    BY <1>5 DEF Action, Creations
  <2>3. Action(e.kind) = "created" => PaymentOf(e) \in {0, 1} /\ PlanOf(e) = e.plan
    BY <1>1, <2>2 DEF Announced, PaymentOf, PlanOf, Paying, Invoices
  <2>4. e.plan = truth[e.sub].plan => PlanOf(e) \in PlansOf(e.sub)
    BY <1>1 DEF Announced, PlanOf, PlansOf
  <2>5. StatusOf(e) = MapStatus(e.status)
    BY <1>1 DEF Announced, StatusOf, MapStatus
  <2> QED BY <1>2, <1>3, <2>1, <2>3, <2>4, <2>5
<1> QED BY <1>4, <1>5

\* A request takes the event on, and does what is left to do in steps of its own.
TakenOn(h, e) ==
    /\ pc[h] = "idle" /\ UNCHANGED pending
    /\ \E label \in {"insert", "invoice"} :
         /\ pc' = [pc EXCEPT ![h] = label]
         /\ ev' = [ev EXCEPT ![h] = e]
         /\ data' = [data EXCEPT ![h] = Parse(e)]
         /\ IF label = "insert" THEN Parse(e).action = "created" /\ e.sub \notin Unowned /\ ~HasRow(e.sub)
            ELSE Parse(e).action = "updated" /\ HasRow(e.sub)

\* What every webhook leaves alone.
LEMMA WebhookShape ==
  ASSUME IInv, NEW e \in pending, Webhook(e)
  PROVE  /\ UNCHANGED <<truth, emits, invoices, torn>> /\ lost \subseteq lost' /\ Watch(e)
         /\ \A t \in Subs \ {e.sub} : row'[t] = row[t]
         /\ \A t \in Subs : HasRow(t)' <=> HasRow(t)
         /\ \/ /\ UNCHANGED <<pc, ev, data>> /\ Answer(e)
               /\ Parse(e).action = "updated" => \/ Parse(e).payment = 0 \/ e \in pending'
                                                 \/ <<e.sub, Parse(e).payment>> \in lost'
            \/ \E h \in Handlers : TakenOn(h, e)
<1>1. Known(e) /\ e.sub \in Subs /\ Parse(e).status \in Statuses
  <2>1. Known(e) /\ e.sub \in Subs
    BY DEF IInv, Known
  <2> QED BY <2>1, ParseKnown DEF IInv
<1>2. CASE \E h \in Handlers : Created(h, e)
  BY <1>2 DEF Created, provider, tables, AnswerAtOnce, GoOn, request, TakenOn, HasRow
<1>3. CASE \E h \in Handlers : Updated(h, e)
  <2>1. PICK h \in Handlers : Updated(h, e)
    BY <1>3
  <2>2. /\ UNCHANGED <<truth, emits, invoices, torn, lost>> /\ Watch(e) /\ HasRow(e.sub)
        /\ row' = [row EXCEPT ![e.sub] = RowOf(Parse(e))] /\ Parse(e).action = "updated"
    BY <2>1 DEF Updated, provider
  <2>3. \A t \in Subs \ {e.sub} : row'[t] = row[t]
    BY <2>2 DEF IInv, Types
  <2>4. row'[e.sub].status \in Statuses
    BY <1>1, <2>2 DEF IInv, Types, RowOf
  <2>5. \A t \in Subs : HasRow(t)' <=> HasRow(t)
    <3> SUFFICES ASSUME NEW t \in Subs PROVE HasRow(t)' <=> HasRow(t)
      OBVIOUS
    <3>1. CASE t = e.sub
      BY <2>2, <2>4, <3>1 DEF HasRow, None, Statuses
    <3> QED BY <2>3, <3>1 DEF HasRow
  <2>6. CASE Parse(e).payment = 0
    BY <2>1, <2>2, <2>3, <2>5, <2>6 DEF Updated, AnswerAtOnce, request
  <2>7. CASE Parse(e).payment # 0
    <3>1. TakenOn(h, e)
      BY <2>1, <2>2, <2>7 DEF Updated, GoOn, TakenOn
    <3> QED BY <2>2, <2>3, <2>5, <3>1
  <2> QED BY <2>6, <2>7
<1>4. CASE Dropped(e)
  BY <1>4 DEF Dropped, provider, tables, request, HasRow
<1>5. CASE Deleted(e) \/ PaymentFailed(e)
  <2>1. /\ UNCHANGED <<truth, emits, invoices, torn, lost, pc, ev, data>> /\ Watch(e) /\ HasRow(e.sub) /\ Answer(e)
        /\ Parse(e).action # "updated"
    BY <1>5 DEF Deleted, PaymentFailed, provider, request
  <2>2. PICK status \in {"CANCELED", "PAST_DUE"} : row' = [row EXCEPT ![e.sub].status = status]
    BY <1>5 DEF Deleted, PaymentFailed
  <2>3. \A t \in Subs \ {e.sub} : row'[t] = row[t]
    BY <2>2 DEF IInv, Types
  <2>4. row'[e.sub].status = status
    BY <1>1, <2>2 DEF IInv, Types
  <2>5. \A t \in Subs : HasRow(t)' <=> HasRow(t)
    <3> SUFFICES ASSUME NEW t \in Subs PROVE HasRow(t)' <=> HasRow(t)
      OBVIOUS
    <3>1. CASE t = e.sub
      BY <2>1, <2>4, <3>1 DEF HasRow, None
    <3> QED BY <2>3, <3>1 DEF HasRow
  <2> QED BY <2>1, <2>3, <2>5
<1> QED BY <1>2, <1>3, <1>4, <1>5 DEF Webhook


\* Of what is true of events and requests, a step of the backend changes little.
LEMMA BackendKeeps ==
  ASSUME IInv, MInv, UNCHANGED <<truth, emits>>, pending' \subseteq pending, orderly' \subseteq orderly,
         \A t \in Subs : HasRow(t) => HasRow(t)',
         \A t \in Subs : HasRow(t)' => HasRow(t) \/ Bought(t)
  PROVE  /\ emits' \in Nat /\ orderly' \subseteq Subs
         /\ \A f \in pending' : Announced(f)'
         /\ FirstRanks' /\ PaidOnce'
         /\ \A h \in Handlers : /\ pc[h] # "idle" /\ ev'[h] = ev[h] /\ data'[h] = data[h]
                                   /\ (pc'[h] \in {"insert", "grant"} => pc[h] \in {"insert", "grant"})
                                => Carries(h)'
<1>1. \A f \in pending' : Announced(f)'
  <2> SUFFICES ASSUME NEW f \in pending, Announced(f) PROVE Announced(f)'
    BY DEF MInv
  <2>1. Bought(f.sub)' <=> Bought(f.sub)
    BY DEF Bought
  <2> QED BY <2>1 DEF Announced
<1>2. FirstRanks'
  BY DEF MInv, FirstRanks, Creation, Failed
<1>3. PaidOnce'
  <2>1. \A t \in Subs : Bought(t)' <=> Bought(t)
    BY DEF Bought
  <2> QED BY <2>1 DEF MInv, PaidOnce
<1>4. ASSUME NEW h \in Handlers, pc[h] # "idle", ev'[h] = ev[h], data'[h] = data[h],
             pc'[h] \in {"insert", "grant"} => pc[h] \in {"insert", "grant"}
      PROVE  Carries(h)'
  <2>1. Carries(h)
    BY <1>4 DEF MInv
  <2>2. Bought(ev[h].sub)'
    BY <1>4, <2>1 DEF Carries, Bought
  <2> QED BY <1>4, <2>1, <2>2 DEF Carries
<1> QED BY <1>1, <1>2, <1>3, <1>4 DEF MInv

\* A webhook is not about the other subscriptions.
LEMMA WebhookOthers ==
  ASSUME IInv, MInv, NEW e \in pending, Webhook(e), NEW t \in Subs, t # e.sub
  PROVE  (Follows(t) => Follows(t)') /\ (Shown(t) => Shown(t)')
<1>1. /\ UNCHANGED truth /\ row'[t] = row[t]
      /\ \/ UNCHANGED <<pc, ev, data>> /\ Answer(e)
         \/ \E h \in Handlers : TakenOn(h, e)
  BY WebhookShape
<1>2. Bought(e.sub) /\ e.sub \in Subs
  BY DEF MInv, Announced
<1>3. ~Alone(t)'
  BY <1>1, <1>2 DEF Alone, Bought
<1>4. \A f : f.sub = t => (f \in pending' <=> f \in pending)
  BY <1>1 DEF Answer, TakenOn
<1>5. \A h \in Handlers : Busy(h, t) \/ Busy(h, t)' =>
         pc'[h] = pc[h] /\ ev'[h] = ev[h] /\ data'[h] = data[h]
  <2>1. ASSUME NEW h \in Handlers, NEW g \in Handlers, TakenOn(h, e), Busy(g, t) \/ Busy(g, t)'
        PROVE  pc'[g] = pc[g] /\ ev'[g] = ev[g] /\ data'[g] = data[g]
    <3>1. ev'[h] = e /\ pc[h] = "idle"
      BY <2>1 DEF TakenOn, IInv, Types
    <3>2. g # h
      BY <2>1, <3>1 DEF Busy
    <3> QED BY <2>1, <3>2 DEF TakenOn, IInv, Types
  <2> QED BY <1>1, <2>1
<1> QED BY <1>1, <1>3, <1>4, <1>5, OtherSub

\* What is known of events and requests, and the invoices, survive a webhook.
LEMMA WebhookBase ==
  ASSUME IInv, MInv, NEW e \in pending, Webhook(e)
  PROVE  /\ emits' \in Nat /\ orderly' \subseteq Subs
         /\ \A f \in pending' : Announced(f)'
         /\ FirstRanks' /\ PaidOnce' /\ FirstPayment' /\ InvoicesFollow'
         /\ \A h \in Handlers : pc'[h] # "idle" => Carries(h)'
<1>1. /\ UNCHANGED <<truth, emits, invoices, torn>> /\ lost \subseteq lost' /\ Watch(e)
      /\ \A t \in Subs : HasRow(t)' <=> HasRow(t)
      /\ \/ /\ UNCHANGED <<pc, ev, data>> /\ Answer(e)
            /\ Parse(e).action = "updated" => \/ Parse(e).payment = 0 \/ e \in pending'
                                              \/ <<e.sub, Parse(e).payment>> \in lost'
         \/ \E h \in Handlers : TakenOn(h, e)
  BY WebhookShape
<1>2. /\ Announced(e) /\ Bought(e.sub) /\ e.sub \in Subs
      /\ Parse(e).action = Action(e.kind)
      /\ Parse(e).action = "created" /\ ~HasRow(e.sub) /\ e.sub \notin Unowned => Parse(e).payment \in {0, 1}
      /\ Parse(e).action # "created" => Parse(e).payment = PaymentOf(e)
  BY ParseFits DEF MInv, Announced
<1>3. pending' \subseteq pending /\ orderly' \subseteq orderly
  BY <1>1 DEF Answer, TakenOn, Watch
<1>4. /\ emits' \in Nat /\ orderly' \subseteq Subs
      /\ \A f \in pending' : Announced(f)'
      /\ FirstRanks' /\ PaidOnce'
      /\ \A h \in Handlers : /\ pc[h] # "idle" /\ ev'[h] = ev[h] /\ data'[h] = data[h]
                                /\ (pc'[h] \in {"insert", "grant"} => pc[h] \in {"insert", "grant"})
                             => Carries(h)'
  BY <1>1, <1>3, BackendKeeps
<1>5. ASSUME NEW h \in Handlers, TakenOn(h, e)
      PROVE  /\ ev'[h] = e /\ data'[h] = Parse(e) /\ pc'[h] \in {"insert", "invoice"}
             /\ pc'[h] = "insert" => Parse(e).action = "created" /\ e.sub \notin Unowned /\ ~HasRow(e.sub)
             /\ pc'[h] = "invoice" => Parse(e).action = "updated"
             /\ \A g \in Handlers \ {h} : pc'[g] = pc[g] /\ ev'[g] = ev[g] /\ data'[g] = data[g]
             /\ pc[h] = "idle" /\ pending' = pending
  BY <1>5 DEF TakenOn, IInv, Types
<1>6. \A g \in Handlers : pc'[g] # "idle" => Carries(g)'
  <2>1. CASE UNCHANGED <<pc, ev, data>>
    BY <1>4, <2>1
  <2>2. ASSUME NEW h \in Handlers, TakenOn(h, e) PROVE Carries(h)'
    <3>1. Bought(ev[h].sub)'
      BY <1>1, <1>2, <1>5, <2>2 DEF Bought
    <3> QED BY <1>2, <1>5, <2>2, <3>1 DEF Carries
  <2>3. ASSUME NEW h \in Handlers, TakenOn(h, e), NEW g \in Handlers, g # h, pc'[g] # "idle" PROVE Carries(g)'
    BY <1>4, <1>5, <2>3
  <2> QED BY <1>1, <2>1, <2>2, <2>3
<1>7. ASSUME NEW t, NEW p \in Nat, p # 0, Awaited(t, p) PROVE <<t, p>> \in lost' \/ Awaited(t, p)'
  <2>1. PICK f \in pending : f.sub = t /\ Action(f.kind) = "updated" /\ PaymentOf(f) = p
    BY <1>7 DEF Awaited
  <2>2. CASE f \in pending'
    BY <2>1, <2>2 DEF Awaited
  <2>3. CASE f \notin pending'
    <3>1. f = e /\ \A h \in Handlers : ~TakenOn(h, e)
      BY <1>1, <1>5, <2>3 DEF Answer
    <3> QED BY <1>1, <1>2, <1>7, <2>1, <2>3, <3>1
  <2> QED BY <2>2, <2>3
<1>8. InvoicesFollow'
  <2> SUFFICES ASSUME NEW t \in Owned \ torn, HasRow(t)', NEW p \in 1 .. truth[t].paid PROVE Covered(t, p)'
    BY <1>1 DEF InvoicesFollow, Owned
  <2>1. Covered(t, p)
    BY <1>1 DEF MInv, InvoicesFollow, Owned
  <2>2. CASE <<t, p>> \in invoices \cup lost
    BY <1>1, <2>2 DEF Covered
  <2>3. CASE p = 1 /\ \E h \in Handlers : /\ pc[h] \in {"grant", "invoice"} /\ ev[h].sub = t
                                          /\ data[h].action = "created" /\ data[h].payment = 1
    BY <1>1, <1>5, <2>3 DEF Covered
  <2>4. CASE Awaited(t, p)
    <3>1. truth[t].paid \in Nat
      BY DEF Owned, IInv, Types
    <3>2. p \in Nat /\ p # 0
      BY <3>1
    <3> QED BY <1>7, <2>4, <3>2 DEF Covered
  <2> QED BY <2>1, <2>2, <2>3, <2>4 DEF Covered
<1>9. FirstPayment'
  <2> SUFFICES ASSUME NEW t \in Owned, Bought(t)', ~HasRow(t)' PROVE <<t, 1>> \in lost' \/ Awaited(t, 1)'
    BY DEF FirstPayment, Owned
  <2>1. <<t, 1>> \in lost \/ Awaited(t, 1)
    BY <1>1 DEF MInv, FirstPayment, Bought, Owned
  <2> QED BY <1>1, <1>7, <2>1
<1> QED BY <1>4, <1>6, <1>8, <1>9


\* The last announcement says how the provider has the subscription now.
LEMMA LastIsCurrent ==
  ASSUME MInv, NEW s, Follows(s), Last(s), NEW e \in pending, e.sub = s
  PROVE  e.plan = truth[s].plan /\ e.status = truth[s].status
<1>1. \A f \in pending : f.rank \in 1 .. emits /\ emits \in Nat
  BY DEF MInv, Announced
<1>2. \A f \in pending : f.sub = s => f.rank <= e.rank
  BY <1>1 DEF Last
<1> QED BY <1>2 DEF Follows

\* A row and a plan that mirror the provider are what a pending event asks for.
LEMMA MirroredShown ==
  ASSUME NEW s, NEW f, Failed(f) => truth'[s].status = "past_due", RowMirrors(s)', UserMirrors(s)'
  PROVE  EventShown(f, s)'
BY DEF EventShown, RowMirrors, UserMirrors, Failed, Creation

\* The earliest event is answered, and no request is left.
LEMMA AnsweredFollows ==
  ASSUME MInv, NEW s, Follows(s), NEW e \in pending, e.sub = s, Answer(e), UNCHANGED truth,
         \A f \in pending : f.sub = s => e.rank <= f.rank, \A h \in Handlers : ~Busy(h, s)'
  PROVE  Follows(s)'
<1>1. \A f \in pending : f.rank \in 1 .. emits /\ emits \in Nat
  BY DEF MInv, Announced
<1>2. ASSUME NEW f \in pending', f.sub = s, \A g \in pending' : g.sub = s => g.rank <= f.rank
      PROVE  f.plan = truth'[s].plan /\ f.status = truth'[s].status
  <2>1. f \in pending /\ \A g \in pending : g = e \/ g \in pending'
    BY DEF Answer
  <2>2. \A g \in pending : g.sub = s => g.rank <= f.rank
    BY <1>1, <1>2, <2>1
  <2> QED BY <1>2, <2>1, <2>2 DEF Follows
<1> QED BY <1>2 DEF Follows

LEMMA AnsweredShown ==
  ASSUME MInv, NEW s, Follows(s), NEW e \in pending, e.sub = s, Answer(e), UNCHANGED truth,
         \A f \in pending : f.sub = s => e.rank <= f.rank, \A h \in Handlers : ~Busy(h, s)',
         Last(s) => \/ RowMirrors(s)' /\ UserMirrors(s)'
                    \/ /\ \E f \in pending' : f.sub = s
                       /\ \A f \in pending' : f.sub = s => EventShown(f, s)'
  PROVE  Shown(s)'
<1>1. \A f \in pending : f.rank \in 1 .. emits /\ emits \in Nat /\ Announced(f)
  BY DEF MInv, Announced
<1>2. pending' \subseteq pending /\ \A g \in pending : g = e \/ g \in pending'
  BY DEF Answer
<1>3. (\A f \in pending' : f.sub # s) => Last(s)
  BY <1>2 DEF Last
<1>4. ASSUME Last(s)', ~Last(s), NEW f \in pending', f.sub = s PROVE ~Creation(f) /\ ~Failed(f)
  <2>1. PICK g \in pending : g.sub = s /\ g.rank # e.rank
    BY <1>1, <1>4 DEF Last
  <2>2. g \in pending' /\ g.rank > e.rank
    BY <1>1, <1>2, <2>1
  <2>3. f.rank = g.rank
    BY <1>4, <2>1, <2>2 DEF Last
  <2>4. Creation(f) \/ Failed(f) => f.rank <= e.rank
    BY <1>2, <1>4 DEF MInv, FirstRanks
  <2> QED BY <1>1, <1>2, <2>2, <2>3, <2>4
<1>5. ASSUME Last(s)', NEW f \in pending', f.sub = s PROVE EventShown(f, s)'
  <2>1. CASE ~Last(s)
    <3>1. ~Creation(f)' /\ ~Failed(f)'
      BY <1>4, <1>5, <2>1 DEF Creation, Failed
    <3> QED BY <3>1 DEF EventShown
  <2>2. CASE Last(s)
    <3>1. f \in pending /\ f.status = truth[s].status
      BY <1>2, <1>5, <2>2, LastIsCurrent
    <3>2. Failed(f) => truth'[s].status = "past_due"
      BY <1>1, <3>1 DEF Announced
    <3> QED BY <1>5, <2>2, <3>2, MirroredShown
  <2> QED BY <2>1, <2>2
<1> QED BY <1>3, <1>5 DEF Shown

\* The subscription a webhook is about, if its events came in order.
LEMMA WebhookSubject ==
  ASSUME IInv, MInv, NEW e \in pending, Webhook(e), e.sub \in orderly', IInv'
  PROVE  Follows(e.sub)' /\ (e.sub \in Owned \ torn => Shown(e.sub)')
<1> DEFINE s == e.sub
<1>1. /\ UNCHANGED truth /\ Watch(e) /\ UNCHANGED torn
      /\ s \in Subs /\ s \in orderly /\ Follows(s) /\ Bought(s)
      /\ s \in Owned \ torn => Shown(s)
  BY WebhookShape DEF MInv, Watch, Announced
<1>2. /\ \A h \in Handlers : ~Busy(h, s)
      /\ \A f \in pending : f.sub = s => e.rank <= f.rank
  <2>1. InOrder(e)
    BY <1>1 DEF Watch
  <2>2. \A f \in pending : f.rank \in 1 .. emits /\ emits \in Nat
    BY DEF MInv, Announced
  <2> QED BY <2>1, <2>2 DEF InOrder, Busy
<1>3. /\ Bought(s)' /\ PlansOf(s)' = PlansOf(s)
      /\ Alone(s)' <=> Alone(s)
      /\ UNCHANGED <<row, userPlan>> => /\ RowMirrors(s) => RowMirrors(s)'
                                        /\ UserMirrors(s) => UserMirrors(s)'
                                        /\ HasRow(s)' <=> HasRow(s)
  BY <1>1 DEF Bought, PlansOf, Alone, RowMirrors, UserMirrors, HasRow
<1>4. ASSUME Last(s) PROVE e.plan = truth[s].plan /\ e.status = truth[s].status
  BY <1>1, <1>4, LastIsCurrent
<1>5. /\ Announced(e) /\ Parse(e).action = Action(e.kind)
      /\ Last(s) =>
           /\ Parse(e).action = "created" => Parse(e).plan = truth[s].plan
           /\ Parse(e).action \in {"created", "updated"} =>
                Parse(e).plan \in PlansOf(s) /\ Parse(e).status = MapStatus(truth[s].status)
           /\ Parse(e).action = "updated" => truth[s].status \in {"active", "past_due"}
  BY <1>4, ParseFits DEF MInv
<1>6. ASSUME UNCHANGED <<pc, ev, data>>, Answer(e)
      PROVE  Follows(s)'
  <2>1. \A h \in Handlers : ~Busy(h, s)'
    BY <1>2, <1>6 DEF Busy
  <2> QED BY <1>1, <1>2, <1>6, <2>1, AnsweredFollows
<1>7. ASSUME UNCHANGED <<pc, ev, data>>, Answer(e), s \in Owned \ torn,
             Last(s) => \/ RowMirrors(s)' /\ UserMirrors(s)'
                        \/ /\ \E f \in pending' : f.sub = s
                           /\ \A f \in pending' : f.sub = s => EventShown(f, s)'
      PROVE  Shown(s)'
  <2>1. \A h \in Handlers : ~Busy(h, s)'
    BY <1>2, <1>7 DEF Busy
  <2> QED BY <1>1, <1>2, <1>7, <2>1, AnsweredShown
<1>8. ASSUME NEW h \in Handlers, TakenOn(h, e)
      PROVE  /\ \A g \in Handlers : Busy(g, s)' => g = h
             /\ ev'[h] = e /\ data'[h] = Parse(e) /\ pending' = pending
             /\ pc'[h] \in {"insert", "invoice"}
             /\ pc'[h] = "insert" <=> Parse(e).action = "created"
             /\ Follows(s)'
  <2>1. /\ ev'[h] = e /\ data'[h] = Parse(e) /\ pending' = pending
        /\ pc'[h] \in {"insert", "invoice"} /\ (pc'[h] = "insert" <=> Parse(e).action = "created")
        /\ \A g \in Handlers \ {h} : pc'[g] = pc[g] /\ ev'[g] = ev[g]
    BY <1>8 DEF TakenOn, IInv, Types
  <2>2. \A g \in Handlers : Busy(g, s)' => g = h
    BY <1>2, <2>1 DEF Busy
  <2>3. Follows(s)'
    BY <1>1, <1>2, <2>1, <2>2 DEF Follows
  <2> QED BY <2>1, <2>2, <2>3
<1>9. ASSUME NEW h \in Handlers, TakenOn(h, e), s \in Owned \ torn,
             Last(s) => /\ \A f \in pending' : f.sub = s => EventShown(f, s)'
                        /\ RequestShown(h, s)'
      PROVE  Shown(s)'
  <2>1. pending' = pending /\ \A g \in Handlers : Busy(g, s)' => g = h
    BY <1>8, <1>9
  <2>2. Last(s)' <=> Last(s)
    BY <2>1 DEF Last
  <2> QED BY <1>9, <2>1, <2>2 DEF Shown
<1> HIDE DEF s
<1>10. CASE \E h \in Handlers : Created(h, e)
  <2>1. /\ UNCHANGED <<row, userPlan>> /\ Parse(e).action = "created" /\ Creation(e)
    BY <1>5, <1>10 DEF Created, tables, Creation
  <2>2. CASE (HasRow(s) \/ s \in Unowned) /\ UNCHANGED <<pc, ev, data>> /\ Answer(e)
    <3>1. ASSUME s \in Owned \ torn, Last(s) PROVE RowMirrors(s) /\ UserMirrors(s)
      <4>1. HasRow(s) /\ EventShown(e, s)
        BY <1>1, <2>2, <3>1 DEF Shown, Owned, s
      <4> QED BY <1>2, <2>1, <4>1 DEF EventShown, Busy
    <3> QED BY <1>3, <1>6, <1>7, <2>1, <2>2, <3>1 DEF s
  <2>3. ASSUME NEW h \in Handlers, TakenOn(h, e), ~HasRow(s) PROVE Follows(s)' /\ (s \in Owned \ torn => Shown(s)')
    <3>1. ASSUME s \in Owned \ torn, Last(s), NEW f \in pending', f.sub = s PROVE EventShown(f, s)'
      <4>1. f \in pending /\ EventShown(f, s)
        BY <1>1, <1>8, <2>3, <3>1 DEF Shown
      <4>2. ~HasRow(s)'
        BY <1>3, <2>1, <2>3
      <4> QED BY <1>3, <2>1, <4>1, <4>2 DEF EventShown, Failed
    <3>2. Last(s) => RequestShown(h, s)'
      BY <1>1, <1>5, <1>8, <2>1, <2>3 DEF RequestShown
    <3> QED BY <1>8, <1>9, <2>3, <3>1, <3>2
  <2>4. \/ (HasRow(s) \/ s \in Unowned) /\ UNCHANGED <<pc, ev, data>> /\ Answer(e)
        \/ \E h \in Handlers : TakenOn(h, e) /\ ~HasRow(s)
    BY <1>10 DEF Created, AnswerAtOnce, GoOn, TakenOn, request, s
  <2> QED BY <2>2, <2>3, <2>4 DEF s
<1>11. CASE \E h \in Handlers : Updated(h, e)
  <2>1. /\ row' = [row EXCEPT ![s] = RowOf(Parse(e))] /\ userPlan' = Parse(e).plan
        /\ Parse(e).action = "updated"
    BY <1>11 DEF Updated, s
  <2>2. row'[s].plan = Parse(e).plan /\ row'[s].status = Parse(e).status
    BY <1>1, <2>1 DEF IInv, Types, RowOf
  <2>3. ASSUME Last(s) PROVE RowMirrors(s)' /\ UserMirrors(s)'
    <3>1. /\ Parse(e).plan \in PlansOf(s) /\ Parse(e).status = MapStatus(truth[s].status)
          /\ truth[s].status \in {"active", "past_due"}
      BY <1>5, <2>1, <2>3
    <3> QED BY <1>1, <1>3, <2>1, <2>2, <3>1 DEF RowMirrors, UserMirrors, MapStatus
  <2>4. CASE UNCHANGED <<pc, ev, data>> /\ Answer(e)
    BY <1>6, <1>7, <2>3, <2>4 DEF s
  <2>5. ASSUME NEW h \in Handlers, TakenOn(h, e) PROVE Follows(s)' /\ (s \in Owned \ torn => Shown(s)')
    <3>1. ASSUME Last(s), NEW f \in pending', f.sub = s PROVE EventShown(f, s)'
      <4>1. f \in pending /\ Announced(f) /\ f.status = truth[s].status
        BY <1>1, <1>8, <2>5, <3>1, LastIsCurrent DEF MInv
      <4>2. Failed(f) => truth'[s].status = "past_due"
        BY <1>1, <4>1 DEF Announced
      <4> QED BY <2>3, <3>1, <4>2, MirroredShown
    <3>2. Last(s) => RequestShown(h, s)'
      BY <1>8, <2>1, <2>3, <2>5 DEF RequestShown
    <3> QED BY <1>8, <1>9, <2>5, <3>1, <3>2
  <2>6. \/ UNCHANGED <<pc, ev, data>> /\ Answer(e)
        \/ \E h \in Handlers : TakenOn(h, e)
    BY WebhookShape
  <2> QED BY <2>4, <2>5, <2>6 DEF s
<1>12. CASE Dropped(e)
  <2>1. /\ UNCHANGED <<row, userPlan, pc, ev, data>> /\ Answer(e) /\ ~HasRow(s)
    BY <1>12 DEF Dropped, tables, request, s
  <2>2. ASSUME s \in Owned \ torn, Last(s)
        PROVE  /\ \E f \in pending' : f.sub = s
               /\ \A f \in pending' : f.sub = s => EventShown(f, s)'
    <3>1. ~HasRow(s)'
      BY <1>3, <2>1
    <3>2. \E f \in pending' : f.sub = s
      BY <1>1, <1>3, <2>2, <3>1 DEF IInv, WillBeCreated, Owned, s
    <3>3. ASSUME NEW f \in pending', f.sub = s PROVE EventShown(f, s)'
      <4>1. f \in pending /\ EventShown(f, s)
        BY <1>1, <2>1, <2>2, <3>3 DEF Shown, Answer, s
      <4> QED BY <1>3, <2>1, <3>1, <4>1 DEF EventShown, Failed
    <3> QED BY <3>2, <3>3
  <2> QED BY <1>6, <1>7, <2>1, <2>2 DEF s
<1>13. CASE Deleted(e) \/ PaymentFailed(e)
  <2>1. /\ UNCHANGED <<pc, ev, data>> /\ Answer(e) /\ HasRow(s)
        /\ \/ Action(e.kind) = "deleted" /\ userPlan' = "FREE" /\ row' = [row EXCEPT ![s].status = "CANCELED"]
           \/ Failed(e) /\ userPlan' = userPlan /\ row' = [row EXCEPT ![s].status = "PAST_DUE"]
    BY <1>5, <1>13 DEF Deleted, PaymentFailed, request, Failed, s
  <2>2. /\ row'[s].plan = row[s].plan
        /\ \/ Action(e.kind) = "deleted" /\ row'[s].status = "CANCELED" /\ userPlan' = "FREE"
           \/ Failed(e) /\ row'[s].status = "PAST_DUE" /\ userPlan' = userPlan
    BY <1>1, <2>1 DEF IInv, Types
  <2>3. ASSUME s \in Owned \ torn, Last(s) PROVE RowMirrors(s)' /\ UserMirrors(s)'
    <3>1. CASE Action(e.kind) = "deleted" /\ row'[s].status = "CANCELED" /\ userPlan' = "FREE"
      BY <1>1, <1>4, <1>5, <2>3, <3>1 DEF Announced, RowMirrors, UserMirrors
    <3>2. CASE Failed(e) /\ row'[s].status = "PAST_DUE" /\ userPlan' = userPlan
      <4>1. truth'[s].status = "past_due"
        BY <1>1, <1>4, <1>5, <2>3, <3>2 DEF Announced
      <4>2. row[s].plan \in PlansOf(s) /\ (Alone(s) => userPlan \in PlansOf(s))
        BY <1>1, <2>3, <3>2 DEF Shown, EventShown, s
      <4> QED BY <1>3, <2>2, <3>2, <4>1, <4>2 DEF RowMirrors, UserMirrors
    <3> QED BY <2>2, <3>1, <3>2
  <2> QED BY <1>6, <1>7, <2>1, <2>3 DEF s
<1> QED BY <1>10, <1>11, <1>12, <1>13 DEF Webhook, s


\* The later writes of a request, one after the other.
LEMMA HandlerShape ==
  ASSUME IInv, MInv, NEW h \in Handlers, HandlerStep(h)
  PROVE  /\ UNCHANGED <<truth, emits, orderly>> /\ torn \subseteq torn' /\ invoices \subseteq invoices'
         /\ lost' = lost \/ (pc[h] = "insert" /\ pc'[h] = "grant" /\ lost' = lost \ {<<ev[h].sub, data[h].payment>>})
         /\ pc[h] # "idle" /\ Carries(h) /\ ev[h].sub \in Subs /\ Bought(ev[h].sub)
         /\ \A g \in Handlers \ {h} : pc'[g] = pc[g] /\ ev'[g] = ev[g] /\ data'[g] = data[g]
         /\ \A t \in Subs \ {ev[h].sub} : row'[t] = row[t]
         /\ \/ /\ pc[h] = "insert" /\ pc'[h] = "grant" /\ UNCHANGED <<ev, data, pending, userPlan, torn>>
               /\ ~HasRow(ev[h].sub) /\ row'[ev[h].sub] = RowOf(data[h])
            \/ /\ pc[h] = "grant" /\ pc'[h] = "invoice" /\ UNCHANGED <<ev, data, pending, row, torn>>
               /\ userPlan' = data[h].plan
            \/ /\ pc[h] = "grant" /\ pc'[h] = "idle" /\ UNCHANGED <<row, invoices, torn>> /\ Answer(ev[h])
               /\ userPlan' = data[h].plan /\ data[h].payment = 0
            \/ /\ pc[h] = "invoice" /\ pc'[h] = "idle" /\ UNCHANGED <<row, userPlan, torn>> /\ Answer(ev[h])
               /\ invoices' = invoices \cup {<<ev[h].sub, data[h].payment>>}
            \/ /\ pc'[h] = "idle" /\ UNCHANGED <<row, userPlan, pending, invoices>>
               /\ pc[h] = "grant" \/ (pc[h] = "invoice" /\ data[h].action = "created") => ev[h].sub \in torn'
<1>1. pc[h] # "idle"
  BY DEF HandlerStep, Insert, Grant, RecordInvoice, Abort
<1>2. Carries(h) /\ ev[h].sub \in Subs /\ Bought(ev[h].sub)
  BY <1>1 DEF MInv, IInv, Request, Known, Carries
<1>3. CASE Insert(h)
  <2>1. row' = [row EXCEPT ![ev[h].sub] = RowOf(data[h])]
    BY <1>3 DEF Insert
  <2>2. row'[ev[h].sub] = RowOf(data[h]) /\ \A t \in Subs \ {ev[h].sub} : row'[t] = row[t]
    BY <1>2, <2>1 DEF IInv, Types
  <2>3. /\ UNCHANGED <<truth, emits, orderly, torn, invoices, ev, data, pending, userPlan>>
        /\ lost' = lost \ {<<ev[h].sub, data[h].payment>>}
        /\ pc[h] = "insert" /\ pc' = [pc EXCEPT ![h] = "grant"] /\ ~HasRow(ev[h].sub)
    BY <1>3 DEF Insert, Proceed, provider, history
  <2>4. pc'[h] = "grant" /\ \A g \in Handlers \ {h} : pc'[g] = pc[g]
    BY <2>3 DEF IInv, Types
  <2> QED BY <1>1, <1>2, <2>2, <2>3, <2>4
<1>4. CASE Grant(h)
  <2>1. /\ UNCHANGED <<truth, emits, orderly, torn, lost, invoices, row>>
        /\ pc[h] = "grant" /\ userPlan' = data[h].plan
    BY <1>4 DEF Grant, provider, history
  <2>2. CASE data[h].payment # 0
    <3>1. UNCHANGED <<ev, data, pending>> /\ pc' = [pc EXCEPT ![h] = "invoice"]
      BY <1>4, <2>2 DEF Grant, Proceed
    <3>2. pc'[h] = "invoice" /\ \A g \in Handlers \ {h} : pc'[g] = pc[g]
      BY <3>1 DEF IInv, Types
    <3> QED BY <1>1, <1>2, <2>1, <3>1, <3>2
  <2>3. CASE data[h].payment = 0
    <3>1. Close(h) /\ Answer(ev[h])
      BY <1>4, <2>3 DEF Grant
    <3>2. /\ pc'[h] = "idle"
          /\ \A g \in Handlers \ {h} : pc'[g] = pc[g] /\ ev'[g] = ev[g] /\ data'[g] = data[g]
      BY <3>1 DEF Close, IInv, Types
    <3> QED BY <1>1, <1>2, <2>1, <2>3, <3>1, <3>2
  <2> QED BY <2>2, <2>3
<1>5. CASE RecordInvoice(h) \/ Abort(h)
  <2>1. pc'[h] = "idle" /\ \A g \in Handlers \ {h} : pc'[g] = pc[g] /\ ev'[g] = ev[g] /\ data'[g] = data[g]
    BY <1>5 DEF RecordInvoice, Abort, Close, IInv, Types
  <2>2. CASE RecordInvoice(h)
    BY <1>1, <1>2, <2>1, <2>2 DEF RecordInvoice, provider, history
  <2>3. CASE Abort(h)
    BY <1>1, <1>2, <2>1, <2>3 DEF Abort, provider, tables
  <2> QED BY <1>5, <2>2, <2>3
<1> QED BY <1>3, <1>4, <1>5 DEF HandlerStep

LEMMA HandlerBase ==
  ASSUME IInv, MInv, NEW h \in Handlers, HandlerStep(h)
  PROVE  /\ emits' \in Nat /\ orderly' \subseteq Subs
         /\ \A f \in pending' : Announced(f)'
         /\ FirstRanks' /\ PaidOnce' /\ FirstPayment' /\ InvoicesFollow'
         /\ \A g \in Handlers : pc'[g] # "idle" => Carries(g)'
<1>0. PICK s : s = ev[h].sub
  OBVIOUS
<1>1. /\ UNCHANGED <<truth, emits, orderly>> /\ torn \subseteq torn' /\ invoices \subseteq invoices'
      /\ lost' = lost \/ (pc[h] = "insert" /\ pc'[h] = "grant" /\ lost' = lost \ {<<s, data[h].payment>>})
      /\ pc[h] # "idle" /\ Carries(h) /\ s \in Subs /\ Bought(s)
      /\ \A g \in Handlers \ {h} : pc'[g] = pc[g] /\ ev'[g] = ev[g] /\ data'[g] = data[g]
      /\ \A t \in Subs \ {s} : row'[t] = row[t]
  BY <1>0, HandlerShape
<1>2. \/ /\ pc[h] = "insert" /\ pc'[h] = "grant" /\ UNCHANGED <<ev, data, pending, userPlan, torn>>
         /\ ~HasRow(s) /\ row'[s] = RowOf(data[h])
      \/ /\ pc[h] = "grant" /\ pc'[h] = "invoice" /\ UNCHANGED <<ev, data, pending, row, torn>>
         /\ userPlan' = data[h].plan
      \/ /\ pc[h] = "grant" /\ pc'[h] = "idle" /\ UNCHANGED <<row, invoices, torn>> /\ Answer(ev[h])
         /\ userPlan' = data[h].plan /\ data[h].payment = 0
      \/ /\ pc[h] = "invoice" /\ pc'[h] = "idle" /\ UNCHANGED <<row, userPlan, torn>> /\ Answer(ev[h])
         /\ invoices' = invoices \cup {<<s, data[h].payment>>}
      \/ /\ pc'[h] = "idle" /\ UNCHANGED <<row, userPlan, pending, invoices>>
         /\ pc[h] = "grant" \/ (pc[h] = "invoice" /\ data[h].action = "created") => s \in torn'
  BY <1>0, HandlerShape
<1>3. /\ \A t \in Subs : HasRow(t) => HasRow(t)'
      /\ \A t \in Subs \ {s} : HasRow(t)' => HasRow(t)
  <2>1. \A t \in Subs \ {s} : HasRow(t)' <=> HasRow(t)
    BY <1>1 DEF HasRow
  <2>2. HasRow(s) => HasRow(s)'
    BY <1>1, <1>2 DEF HasRow
  <2> QED BY <1>1, <2>1, <2>2
<1>4. pending' \subseteq pending
  BY <1>2 DEF Answer
<1>5. /\ emits' \in Nat /\ orderly' \subseteq Subs
      /\ \A f \in pending' : Announced(f)'
      /\ FirstRanks' /\ PaidOnce'
      /\ \A g \in Handlers : /\ pc[g] # "idle" /\ ev'[g] = ev[g] /\ data'[g] = data[g]
                                /\ (pc'[g] \in {"insert", "grant"} => pc[g] \in {"insert", "grant"})
                             => Carries(g)'
  BY <1>1, <1>3, <1>4, BackendKeeps
<1>6. \A g \in Handlers : pc'[g] # "idle" => Carries(g)'
  <2>1. pc'[h] # "idle" => Carries(h)'
    BY <1>1, <1>2, <1>5
  <2> QED BY <1>1, <1>5, <2>1
<1>7. ASSUME NEW f \in pending, f \notin pending', Action(f.kind) = "updated"
      PROVE  f.sub = s /\ <<s, PaymentOf(f)>> \in invoices'
  <2>1. f = ev[h] /\ Answer(ev[h])
    BY <1>2, <1>7 DEF Answer
  <2>2. data[h].action = "updated" /\ data[h].payment = PaymentOf(f)
    BY <1>1, <1>7, <2>1 DEF Carries
  <2>3. pc[h] # "grant"
    BY <1>1, <2>2 DEF Carries
  <2> QED BY <1>0, <1>2, <1>7, <2>1, <2>2, <2>3
<1>8. ASSUME NEW t, NEW p, Awaited(t, p) PROVE Awaited(t, p)' \/ (t = s /\ <<t, p>> \in invoices')
  BY <1>7, <1>8 DEF Awaited
<1>9. InvoicesFollow'
  <2> SUFFICES ASSUME NEW t \in Owned \ torn', HasRow(t)', NEW p \in 1 .. truth[t].paid PROVE Covered(t, p)'
    BY <1>1 DEF InvoicesFollow, Owned
  <2>1. t \in Owned \ torn /\ t \in Subs
    BY <1>1 DEF Owned
  <2>2. ASSUME Awaited(t, p) PROVE Covered(t, p)'
    BY <1>8, <2>2 DEF Covered
  <2>3. CASE ~HasRow(t)
    <3>1. t = s /\ pc[h] = "insert" /\ pc'[h] = "grant" /\ UNCHANGED <<ev, data>>
      BY <1>2, <1>3, <2>1, <2>3 DEF HasRow
    <3>2. truth[t].paid = 1 /\ p = 1 /\ data[h].action = "created" /\ data[h].payment \in {0, 1}
      BY <1>1, <2>1, <2>3, <3>1 DEF MInv, PaidOnce, Carries, Owned
    <3>3. CASE data[h].payment = 1
      BY <1>0, <3>1, <3>2, <3>3 DEF Covered
    <3>4. CASE data[h].payment = 0
      <4>1. <<t, 1>> \in lost \/ Awaited(t, 1)
        BY <1>1, <2>1, <2>3, <3>1 DEF MInv, FirstPayment
      <4>2. <<t, 1>> \in lost => <<t, 1>> \in lost'
        BY <1>1, <3>4
      <4> QED BY <2>2, <3>2, <4>1, <4>2 DEF Covered
    <3> QED BY <3>2, <3>3, <3>4
  <2>4. CASE HasRow(t)
    <3>1. Covered(t, p)
      BY <2>1, <2>4 DEF MInv, InvoicesFollow
    <3>2. CASE <<t, p>> \in invoices \cup lost
      <4>1. lost' # lost => t # s
        BY <1>1, <1>2, <2>4
      <4> QED BY <1>1, <3>2, <4>1 DEF Covered
    <3>3. ASSUME p = 1, NEW g \in Handlers, pc[g] \in {"grant", "invoice"}, ev[g].sub = t,
                 data[g].action = "created", data[g].payment = 1
          PROVE  Covered(t, p)'
      <4>1. CASE g # h
        BY <1>1, <3>3, <4>1 DEF Covered
      <4>2. CASE g = h
        <5>1. t = s /\ data[h].payment = 1
          BY <1>0, <3>3, <4>2
        <5>2. CASE pc[h] = "grant" /\ pc'[h] = "invoice" /\ UNCHANGED <<ev, data>>
          BY <3>3, <4>2, <5>2 DEF Covered
        <5>3. CASE invoices' = invoices \cup {<<s, data[h].payment>>}
          BY <3>3, <5>1, <5>3 DEF Covered
        <5> QED BY <1>2, <3>3, <4>2, <5>1, <5>2, <5>3
      <4> QED BY <4>1, <4>2
    <3> QED BY <2>2, <3>1, <3>2, <3>3 DEF Covered
  <2> QED BY <2>3, <2>4
<1>10. FirstPayment'
  <2> SUFFICES ASSUME NEW t \in Owned, Bought(t)', ~HasRow(t)' PROVE <<t, 1>> \in lost' \/ Awaited(t, 1)'
    BY DEF FirstPayment, Owned
  <2>1. t \in Subs /\ Bought(t) /\ ~HasRow(t)
    BY <1>1, <1>3 DEF Owned, Bought
  <2>2. <<t, 1>> \in lost \/ Awaited(t, 1)
    BY <2>1 DEF MInv, FirstPayment
  <2>3. ASSUME NEW f \in pending, f \notin pending', Action(f.kind) = "updated" PROVE f.sub # t
    <3>1. f.sub = s /\ pc[h] = "invoice"
      <4>1. f = ev[h] /\ data[h].action = "updated"
        BY <1>1, <1>2, <2>3 DEF Answer, Carries
      <4> QED BY <1>0, <1>1, <1>2, <2>3, <4>1 DEF Carries
    <3>2. HasRow(s)
      BY <1>0, <1>1, <3>1 DEF IInv, Request
    <3> QED BY <2>1, <3>1, <3>2
  <2>4. Awaited(t, 1) => Awaited(t, 1)'
    BY <2>3 DEF Awaited
  <2>5. <<t, 1>> \in lost => <<t, 1>> \in lost'
    <3>1. lost' # lost => t # s
      <4>1. data[h].status # None
        BY <1>0, <1>1 DEF IInv, Request, Statuses, None
      <4>2. lost' # lost => HasRow(s)'
        BY <1>1, <1>2, <4>1 DEF HasRow, RowOf
      <4> QED BY <4>2
    <3> QED BY <1>1, <3>1
  <2> QED BY <2>2, <2>4, <2>5
<1> QED BY <1>5, <1>6, <1>9, <1>10

LEMMA HandlerOthers ==
  ASSUME IInv, MInv, NEW h \in Handlers, HandlerStep(h), NEW t \in Subs, t # ev[h].sub
  PROVE  (Follows(t) => Follows(t)') /\ (Shown(t) => Shown(t)')
<1>1. /\ UNCHANGED truth /\ row'[t] = row[t] /\ ev[h].sub \in Subs /\ Bought(ev[h].sub)
      /\ \A g \in Handlers \ {h} : pc'[g] = pc[g] /\ ev'[g] = ev[g] /\ data'[g] = data[g]
      /\ pending' = pending \/ Answer(ev[h])
      /\ pc'[h] = "idle" \/ ev'[h] = ev[h]
  BY HandlerShape
<1>2. ~Alone(t)'
  BY <1>1 DEF Alone, Bought
<1>3. \A f : f.sub = t => (f \in pending' <=> f \in pending)
  BY <1>1 DEF Answer
<1>4. ~Busy(h, t) /\ ~Busy(h, t)'
  BY <1>1 DEF Busy
<1> QED BY <1>1, <1>2, <1>3, <1>4, OtherSub


\* The subscription a request is about, if its events came in order.
LEMMA HandlerSubject ==
  ASSUME IInv, MInv, NEW h \in Handlers, HandlerStep(h), NEW s, s = ev[h].sub, s \in orderly
  PROVE  Follows(s)' /\ (s \in Owned \ torn' => Shown(s)')
<1>1. /\ UNCHANGED <<truth, orderly>> /\ torn \subseteq torn'
      /\ pc[h] # "idle" /\ Carries(h) /\ s \in Subs /\ Bought(s)
      /\ \A g \in Handlers \ {h} : pc'[g] = pc[g] /\ ev'[g] = ev[g] /\ data'[g] = data[g]
  BY HandlerShape
<1>2. \/ /\ pc[h] = "insert" /\ pc'[h] = "grant" /\ UNCHANGED <<ev, data, pending, userPlan, torn>>
         /\ ~HasRow(s) /\ row'[s] = RowOf(data[h])
      \/ /\ pc[h] = "grant" /\ pc'[h] = "invoice" /\ UNCHANGED <<ev, data, pending, row, torn>>
         /\ userPlan' = data[h].plan
      \/ /\ pc[h] = "grant" /\ pc'[h] = "idle" /\ UNCHANGED <<row, invoices, torn>> /\ Answer(ev[h])
         /\ userPlan' = data[h].plan /\ data[h].payment = 0
      \/ /\ pc[h] = "invoice" /\ pc'[h] = "idle" /\ UNCHANGED <<row, userPlan, torn>> /\ Answer(ev[h])
      \/ /\ pc'[h] = "idle" /\ UNCHANGED <<row, userPlan, pending>>
         /\ pc[h] = "grant" \/ (pc[h] = "invoice" /\ data[h].action = "created") => s \in torn'
  BY HandlerShape
<1>3. /\ Follows(s) /\ (s \in Owned \ torn' => Shown(s))
      /\ Busy(h, s) /\ (\A g \in Handlers : Busy(g, s) => g = h)
      /\ ev[h] \in pending /\ \A f \in pending : f.sub = s => ev[h].rank <= f.rank
  <2>1. Follows(s) /\ (s \in Owned \ torn' => Shown(s)) /\ Busy(h, s)
    BY <1>1 DEF MInv, Busy
  <2> QED BY <2>1 DEF Follows
<1>4. \A g \in Handlers : Busy(g, s)' => g = h
  BY <1>1, <1>3 DEF Busy
<1>5. /\ Bought(s)' /\ PlansOf(s)' = PlansOf(s)
      /\ Alone(s)' <=> Alone(s)
      /\ UNCHANGED <<row, userPlan>> => /\ RowMirrors(s) => RowMirrors(s)'
                                        /\ UserMirrors(s) => UserMirrors(s)'
      /\ UNCHANGED row => (HasRow(s)' <=> HasRow(s)) /\ (RowMirrors(s) => RowMirrors(s)')
  BY <1>1 DEF Bought, PlansOf, Alone, RowMirrors, UserMirrors, HasRow
<1>6. ASSUME s \in Owned \ torn', Last(s)
      PROVE  /\ RequestShown(h, s) /\ (\A f \in pending : f.sub = s => EventShown(f, s))
             /\ ev[h].status = truth[s].status
             /\ \A f \in pending : f.sub = s /\ Failed(f) => truth[s].status = "past_due"
  <2>1. \A f \in pending : Announced(f)
    BY DEF MInv
  <2>2. \A f \in pending : f.sub = s => f.status = truth[s].status
    BY <1>3, <1>6, LastIsCurrent
  <2> QED BY <1>3, <1>6, <2>1, <2>2 DEF Shown, Announced
<1>7. CASE /\ UNCHANGED pending /\ (UNCHANGED <<ev, data>> \/ pc'[h] = "idle")
           /\ pc'[h] = "idle" /\ pc[h] = "grant" => s \in torn'
           /\ pc'[h] = "idle" => UNCHANGED <<row, userPlan>>
  <2>1. Follows(s)'
    BY <1>1, <1>3, <1>4, <1>7 DEF Follows, Busy
  <2>2. ASSUME s \in Owned \ torn', Last(s)
        PROVE  /\ \A f \in pending : f.sub = s => EventShown(f, s)'
               /\ Busy(h, s)' => RequestShown(h, s)'
    <3>1. CASE pc[h] = "insert" /\ pc'[h] = "grant"
      <4>1. row'[s] = RowOf(data[h]) /\ userPlan' = userPlan /\ ev'[h] = ev[h] /\ data'[h] = data[h]
        BY <1>2, <3>1
      <4>2. data[h].plan = truth[s].plan /\ data[h].status = MapStatus(truth[s].status)
        BY <1>6, <2>2, <3>1 DEF RequestShown
      <4>3. RowMirrors(s)' /\ row'[s].plan \in PlansOf(s)'
        BY <1>1, <4>1, <4>2 DEF RowMirrors, RowOf, MapStatus, PlansOf
      <4>4. RequestShown(h, s)'
        BY <1>1, <3>1, <4>1, <4>2, <4>3 DEF RequestShown
      <4>5. \A f \in pending : f.sub = s => EventShown(f, s)'
        BY <1>5, <1>6, <2>2, <3>1, <4>1, <4>3 DEF EventShown, Failed
      <4> QED BY <4>4, <4>5
    <3>2. CASE pc[h] = "grant" /\ pc'[h] = "invoice"
      <4>1. userPlan' = data[h].plan /\ row' = row
        BY <1>2, <3>2
      <4>2. data[h].plan = truth[s].plan /\ RowMirrors(s)'
        BY <1>5, <1>6, <2>2, <3>2, <4>1 DEF RequestShown
      <4>3. ev[h].status = "active"
        <5>1. Action(ev[h].kind) = "created" /\ Announced(ev[h])
          BY <1>1, <1>3, <3>2 DEF Carries, MInv
        <5> QED BY <5>1 DEF Announced, Action, Creations, Paying
      <4>4. UserMirrors(s)'
        BY <1>1, <1>6, <2>2, <4>1, <4>2, <4>3 DEF UserMirrors, PlansOf
      <4>5. \A f \in pending : f.sub = s => EventShown(f, s)'
        BY <1>1, <1>6, <2>2, <4>2, <4>4, MirroredShown
      <4> QED BY <3>2, <4>2, <4>4, <4>5 DEF RequestShown
    <3>3. CASE pc'[h] = "idle"
      <4>1. UNCHANGED <<row, userPlan>> /\ ~Busy(h, s)'
        BY <1>7, <3>3 DEF Busy
      <4>2. CASE pc[h] = "invoice"
        <5>1. RowMirrors(s)' /\ UserMirrors(s)'
          BY <1>5, <1>6, <2>2, <4>1, <4>2 DEF RequestShown
        <5> QED BY <1>1, <1>6, <2>2, <4>1, <5>1, MirroredShown
      <4>3. CASE pc[h] # "invoice"
        <5>1. pc[h] # "grant"
          BY <1>7, <2>2, <3>3
        <5>2. \A g \in Handlers : ~(pc[g] = "grant" /\ ev[g].sub = s)
          BY <1>3, <5>1 DEF Busy
        <5>3. \A f \in pending : f.sub = s => EventShown(f, s)'
          BY <1>5, <1>6, <2>2, <4>1, <5>2 DEF EventShown, Failed
        <5> QED BY <4>1, <5>3
      <4> QED BY <4>2, <4>3
    <3> QED BY <1>2, <3>1, <3>2, <3>3
  <2>3. Last(s)' <=> Last(s)
    BY <1>7 DEF Last
  <2>4. ASSUME s \in Owned \ torn' PROVE Shown(s)'
    BY <1>3, <1>4, <1>7, <2>2, <2>3, <2>4 DEF Shown
  <2> QED BY <2>1, <2>4
<1>8. CASE pc[h] = "invoice" /\ pc'[h] = "idle" /\ UNCHANGED <<row, userPlan, torn>> /\ Answer(ev[h])
  <2>1. \A g \in Handlers : ~Busy(g, s)'
    BY <1>4, <1>8 DEF Busy
  <2>2. PICK e \in pending : e = ev[h]
    BY <1>3
  <2>3. /\ e.sub = s /\ Answer(e)
        /\ \A f \in pending : f.sub = s => e.rank <= f.rank
    BY <1>3, <1>8, <2>2
  <2>4. Follows(s)'
    BY <1>1, <1>3, <2>1, <2>3, AnsweredFollows
  <2>5. ASSUME s \in Owned \ torn' PROVE Shown(s)'
    <3>1. Last(s) => RowMirrors(s)' /\ UserMirrors(s)'
      BY <1>5, <1>6, <1>8, <2>5 DEF RequestShown
    <3> QED BY <1>1, <1>3, <2>1, <2>3, <3>1, AnsweredShown
  <2> QED BY <2>4, <2>5
<1>9. CASE /\ pc[h] = "grant" /\ pc'[h] = "idle" /\ UNCHANGED <<row, torn>> /\ Answer(ev[h])
           /\ userPlan' = data[h].plan
  <2>1. \A g \in Handlers : ~Busy(g, s)'
    BY <1>4, <1>9 DEF Busy
  <2>2. PICK e \in pending : e = ev[h]
    BY <1>3
  <2>3. /\ e.sub = s /\ Answer(e)
        /\ \A f \in pending : f.sub = s => e.rank <= f.rank
    BY <1>3, <1>9, <2>2
  <2>4. Follows(s)'
    BY <1>1, <1>3, <2>1, <2>3, AnsweredFollows
  <2>5. ASSUME s \in Owned \ torn' PROVE Shown(s)'
    <3>1. ASSUME Last(s) PROVE RowMirrors(s)' /\ UserMirrors(s)'
      <4>1. data[h].plan = truth[s].plan /\ RowMirrors(s)'
        BY <1>5, <1>6, <1>9, <2>5, <3>1 DEF RequestShown
      <4>2. ev[h].status = "active"
        <5>1. Action(ev[h].kind) = "created" /\ Announced(ev[h])
          BY <1>1, <1>3, <1>9 DEF Carries, MInv
        <5> QED BY <5>1 DEF Announced, Action, Creations, Paying
      <4>3. UserMirrors(s)'
        BY <1>1, <1>6, <1>9, <2>5, <3>1, <4>1, <4>2 DEF UserMirrors, PlansOf
      <4> QED BY <4>1, <4>3
    <3> QED BY <1>1, <1>3, <2>1, <2>3, <3>1, AnsweredShown
  <2> QED BY <2>4, <2>5
<1>10. \/ UNCHANGED pending /\ UNCHANGED <<ev, data>> /\ pc'[h] # "idle"
       \/ /\ UNCHANGED <<pending, row, userPlan>> /\ pc'[h] = "idle"
          /\ pc[h] = "grant" => s \in torn'
       \/ pc[h] = "invoice" /\ pc'[h] = "idle" /\ UNCHANGED <<row, userPlan, torn>> /\ Answer(ev[h])
       \/ /\ pc[h] = "grant" /\ pc'[h] = "idle" /\ UNCHANGED <<row, torn>> /\ Answer(ev[h])
          /\ userPlan' = data[h].plan
  BY <1>2
<1> QED BY <1>7, <1>8, <1>9, <1>10

LEMMA NextKeepsMInv == IInv /\ MInv /\ [Next]_vars /\ IInv' => MInv'
<1> SUFFICES ASSUME IInv, MInv, [Next]_vars, IInv' PROVE MInv'
  OBVIOUS
<1>1. CASE \E s \in Subs : ProviderStep(s)
  BY <1>1, ProviderKeepsMInv
<1>2. ASSUME NEW e \in pending, Webhook(e) PROVE MInv'
  <2>1. orderly' \subseteq orderly /\ torn' = torn
    BY <1>2, WebhookShape DEF Watch
  <2>2. ASSUME NEW t \in orderly' PROVE Follows(t)' /\ (t \in Owned \ torn => Shown(t)')
    <3>1. t \in Subs /\ Follows(t) /\ (t \in Owned \ torn => Shown(t))
      BY <2>1, <2>2 DEF MInv
    <3>2. CASE t = e.sub
      BY <1>2, <2>2, <3>2, WebhookSubject
    <3>3. CASE t # e.sub
      BY <1>2, <3>1, <3>3, WebhookOthers
    <3> QED BY <3>2, <3>3
  <2> QED BY <1>2, <2>1, <2>2, WebhookBase DEF MInv
<1>3. ASSUME NEW h \in Handlers, HandlerStep(h) PROVE MInv'
  <2>1. orderly' = orderly /\ torn \subseteq torn'
    BY <1>3, HandlerShape
  <2>2. ASSUME NEW t \in orderly PROVE Follows(t)' /\ (t \in Owned \ torn' => Shown(t)')
    <3>1. t \in Subs /\ Follows(t) /\ (t \in Owned \ torn => Shown(t))
      BY <2>2 DEF MInv
    <3>2. CASE t = ev[h].sub
      BY <1>3, <2>2, <3>2, HandlerSubject
    <3>3. CASE t # ev[h].sub
      BY <1>3, <2>1, <3>1, <3>3, HandlerOthers
    <3> QED BY <3>2, <3>3
  <2> QED BY <1>3, <2>1, <2>2, HandlerBase DEF MInv
<1>4. CASE Cancel \/ UNCHANGED vars
  BY <1>4, CancelKeepsMInv
<1> QED BY <1>1, <1>2, <1>3, <1>4 DEF Next

LEMMA AlwaysMInv == Spec => [](IInv /\ MInv)
<1>1. Init => IInv /\ MInv
  BY InitIInv, InitMInv
<1>2. (IInv /\ MInv) /\ [Next]_vars => (IInv /\ MInv)'
  BY NextKeepsIInv, NextKeepsMInv
<1> QED BY <1>1, <1>2, PTL DEF Spec

\* Once every webhook was answered, every payment of a subscription whose
\* creation was not cut off has its invoice, but one that came before the row and
\* that the creation did not name: before the row there is one payment at most,
\* which the creation records where it names it, and afterwards none is answered
\* unrecorded.
THEOREM PaymentsAreInvoiced == Spec => []EveryPaymentInvoiced
<1>1. IInv /\ MInv => EveryPaymentInvoiced
  <2> SUFFICES ASSUME IInv, MInv, Settled, NEW s \in Owned \ torn, NEW p \in 1 .. truth[s].paid
               PROVE  <<s, p>> \in invoices \cup lost
    BY DEF EveryPaymentInvoiced
  <2>1. s \in Subs /\ s \notin Unowned
    BY DEF Owned
  <2>2. Bought(s)
    BY <2>1 DEF MInv, PaidOnce
  <2>3. HasRow(s)
    BY <2>1, <2>2 DEF IInv, WillBeCreated, Settled
  <2>4. Covered(s, p)
    BY <2>3 DEF MInv, InvoicesFollow
  <2> QED BY <2>4 DEF Covered, Awaited, Settled, Idle
<1> QED BY <1>1, AlwaysMInv, PTL

\* A subscription whose webhooks came in order, one at a time, ends up with the
\* status and the plan the provider has, and so does the user of only one.
THEOREM OrderedWebhooksMirror == Spec => []MirrorsProvider
<1>1. IInv /\ MInv => MirrorsProvider
  <2> SUFFICES ASSUME MInv, Settled, NEW s \in (orderly \cap Owned) \ torn
               PROVE  /\ truth[s].status = "active" => row[s].status = "ACTIVE" /\ row[s].plan \in PlansOf(s)
                      /\ truth[s].status = "past_due" => row[s].status = "PAST_DUE" /\ row[s].plan \in PlansOf(s)
                      /\ truth[s].status = "canceled" => row[s].status = "CANCELED"
                      /\ Alone(s) /\ truth[s].status \in {"active", "past_due"} => userPlan \in PlansOf(s)
                      /\ Alone(s) /\ truth[s].status = "canceled" => userPlan = "FREE"
    BY DEF MirrorsProvider, PlansOf, Alone
  <2>1. Shown(s)
    BY DEF MInv
  <2>2. truth[s].status \in {"active", "past_due", "canceled"} => RowMirrors(s) /\ UserMirrors(s)
    BY <2>1 DEF Shown, Settled, Bought, None
  <2> QED BY <2>2 DEF RowMirrors, UserMirrors
<1> QED BY <1>1, AlwaysMInv, PTL
=============================================================================
