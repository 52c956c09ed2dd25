------------------------------- MODULE Billing -------------------------------
(***************************************************************************)
(* The plan of one user, as the webhooks of Stripe and Razorpay drive it.  *)
(*                                                                         *)
(* A subscription at a provider is a member of Subs.  What the provider    *)
(* knows of it is `truth'; what it announced and got no 200 for is         *)
(* `pending', a set from which any event is delivered at any time, several *)
(* times at once or one after the other, until a 200 for it arrives.       *)
(* Handlers are the webhook requests in flight; a request takes effect     *)
(* with its first read or write that matters, and each later write is a    *)
(* step of its own.  cancelSubscription is the one operation of the user   *)
(* that writes here.  Providers and user are external.                     *)
(***************************************************************************)
EXTENDS Integers, FiniteSets

CONSTANTS
    Subs,        \* provider subscriptions the user may buy
    Stripe,      \* those at Stripe; the others are at Razorpay
    Unowned,     \* those made without the metadata that names the user
    Bare,        \* those whose creation may come without the payment
    Priced,      \* may a Stripe invoice name its line's price?
    MaxPaid,     \* payments of a subscription, at most
    MaxEmits,    \* announcements after which the providers fall silent
    Together,    \* those that may be bought beside one another
    MaxTogether, \* announcements after which the providers are silent about these
    Handlers     \* webhook requests in flight

ASSUME BillingAssumption ==
    /\ Stripe \subseteq Subs
    /\ Unowned \subseteq Subs
    /\ Bare \subseteq Subs
    /\ Together \subseteq Subs
    /\ Priced \subseteq BOOLEAN
    /\ MaxPaid \in Nat \ {0}
    /\ MaxEmits \in Nat /\ MaxTogether \in Nat

VARIABLES
    truth,     \* the provider's view of each subscription
    emits,     \* announcements made, the rank of the last one
    pending,   \* events announced and not yet answered with 200
    row,       \* Subscription rows; status "none" where there is none
    born,      \* Subscription.createdAt, as a rank; 0 where there is none
    userPlan,  \* User.plan
    invoices,  \* Invoice rows, as <<subscription, payment>>
    pc,        \* per handler: the write it is about to execute
    ev,        \* per handler: the event it was sent
    data,      \* per handler: the parsed WebhookResult
    chosen,    \* the row a cancelSubscription request has read
    cancel,    \* the row it is about to mark
    orderly,   \* history: subscriptions whose events came in order, once
    torn,      \* history: subscriptions whose creation was interrupted
    lost       \* history: payments, as in invoices, that came before the row
               \* and that the creation did not name

provider == <<truth, emits>>
tables   == <<row, born, userPlan, invoices>>
request  == <<pc, ev, data>>
user     == <<chosen, cancel>>
history  == <<orderly, torn, lost>>
vars     == <<provider, pending, tables, request, user, history>>

Plans == {"PRO", "BYOK"}
Statuses == {"ACTIVE", "PAST_DUE", "CANCELED"}
None == "none"
NoRow == [plan |-> "PRO", status |-> None, ending |-> FALSE]
HasRow(s) == row[s].status # None

Init ==
    /\ truth = [s \in Subs |-> [plan |-> "PRO", status |-> None,
                                ending |-> FALSE, paid |-> 0]]
    /\ emits = 0
    /\ pending = {}
    /\ row = [s \in Subs |-> NoRow]
    /\ born = [s \in Subs |-> 0]
    /\ userPlan = "FREE"
    /\ invoices = {}
    /\ pc = [h \in Handlers |-> "idle"]
    /\ ev = [h \in Handlers |-> None]
    /\ data = [h \in Handlers |-> None]
    /\ chosen = None
    /\ cancel = None
    /\ orderly = Subs
    /\ torn = {} /\ lost = {}

-----------------------------------------------------------------------------
\* The providers.  Events announced together have the same rank; no order
\* between them is promised.

Kinds(s, stripe, razorpay) == IF s \in Stripe THEN stripe ELSE razorpay

\* The events that name a plan only by the price of an invoice's line, which
\* counts as PRO where it is missing (PlanOf).
Invoices == {"invoice.payment_succeeded", "invoice.payment_failed"}

\* The events that create the row, with the first payment or without.
Creations == {"checkout.session.completed", "subscription.activated"}

Announce(s, now, kinds, payment) ==
    /\ truth' = [truth EXCEPT ![s] = now]
    /\ emits' = emits + 1
    /\ \E priced \in Priced, bare \in {FALSE, (s \in Bare)} :
         pending' = pending \cup
           {[sub |-> s, rank |-> emits + 1, kind |-> k,
             payment |-> IF k \in Creations /\ bare THEN 0 ELSE payment,
             priced |-> priced \/ now.plan = "PRO" \/ k \notin Invoices, plan |-> now.plan,
             status |-> now.status, ending |-> now.ending] : k \in kinds}

External == UNCHANGED <<tables, request, user, history>>

\* The providers are not silent yet.
Speak(s) ==
    LET others == {t \in Subs \ {s} : truth[t].status # None}
    IN \/ others = {} /\ emits < MaxEmits
       \/ others \cup {s} \subseteq Together /\ emits < MaxTogether

\* The user completes the checkout that createCheckoutSession opened.
Subscribe(s) ==
    /\ truth[s].status = None
    /\ Speak(s)
    /\ \E plan \in Plans :
         Announce(s, [plan |-> plan, status |-> "active", ending |-> FALSE, paid |-> 1],
                  Kinds(s, {"checkout.session.completed", "invoice.payment_succeeded"},
                           {"subscription.activated", "subscription.charged"}), 1)
    /\ External

Alive(s) == truth[s].status \in {"active", "past_due"} /\ Speak(s)

ChangePlan(s) ==
    /\ Alive(s)
    /\ \E plan \in Plans \ {truth[s].plan} :
         Announce(s, [truth[s] EXCEPT !.plan = plan],
                  Kinds(s, {"customer.subscription.updated"}, {"subscription.updated"}), 0)
    /\ External

\* A billing period is far longer than a provider keeps retrying a webhook.
PeriodOver(s) == Alive(s) /\ \A e \in pending : e.sub # s

\* The payment of a period, or a later attempt at one that failed.
Renew(s) ==
    /\ Alive(s)
    /\ truth[s].status = "past_due" \/ (PeriodOver(s) /\ ~truth[s].ending)
    /\ truth[s].paid < MaxPaid
    /\ Announce(s, [truth[s] EXCEPT !.status = "active", !.paid = @ + 1],
                Kinds(s, {"customer.subscription.updated", "invoice.payment_succeeded"},
                         {"subscription.charged"}), truth[s].paid + 1)
    /\ External

RenewFails(s) ==
    /\ PeriodOver(s)
    /\ truth[s].status = "active"
    /\ ~truth[s].ending
    /\ Announce(s, [truth[s] EXCEPT !.status = "past_due"],
                Kinds(s, {"customer.subscription.updated", "invoice.payment_failed"},
                         {"subscription.halted"}), 0)
    /\ External

\* At the end of the period, or at once by the provider's own means.
End(s) ==
    /\ Alive(s)
    /\ Announce(s, [truth[s] EXCEPT !.status = "canceled"],
                Kinds(s, {"customer.subscription.deleted"}, {"subscription.cancelled"}), 0)
    /\ External

-----------------------------------------------------------------------------
\* verifyAndParseWebhook.

Action(k) ==
    IF k \in Creations THEN "created"
    ELSE IF k \in {"customer.subscription.deleted", "subscription.cancelled"} THEN "deleted"
    ELSE IF k \in {"invoice.payment_failed", "subscription.halted"} THEN "failed"
    ELSE "updated"

MapStatus(status) ==
    IF status = "canceled" THEN "CANCELED"
    ELSE IF status = "past_due" THEN "PAST_DUE"
    ELSE "ACTIVE"

\* Of a checkout the event names only the subscription; Stripe is asked what it
\* is by now, and names its latest invoice or none.
ParseCheckout(e) ==
    LET now == truth[e.sub]
    IN [action |-> "created", plan |-> now.plan, status |-> MapStatus(now.status),
        ending |-> now.ending,
        payment |-> IF e.payment = 0 THEN 0 ELSE now.paid]

\* A payment, which says "ACTIVE" whatever the subscription's status is.
Paying == {"invoice.payment_succeeded", "subscription.activated", "subscription.charged"}

PlanOf(e) == IF e.priced THEN e.plan ELSE "PRO"
StatusOf(e) == IF e.kind \in Paying THEN "ACTIVE" ELSE MapStatus(e.status)

\* 0 stands for no payment, and then no invoice is recorded.
PaymentOf(e) == IF e.kind \in Paying THEN e.payment ELSE 0

EndingOf(e) ==
    \/ e.kind = "customer.subscription.updated" /\ e.ending
    \/ e.kind = "subscription.updated" /\ e.status = "canceled"

Parse(e) ==
    IF e.kind = "checkout.session.completed" THEN ParseCheckout(e)
    ELSE [action |-> Action(e.kind), plan |-> PlanOf(e), status |-> StatusOf(e),
          ending |-> EndingOf(e), payment |-> PaymentOf(e)]

-----------------------------------------------------------------------------
\* The webhook requests.

\* In order: nothing announced earlier about the subscription is still pending,
\* and no other request is about it.
InOrder(e) ==
    /\ \A f \in pending : f.sub = e.sub => f.rank >= e.rank
    /\ \A h \in Handlers : pc[h] # "idle" => ev[h].sub # e.sub

Watch(e) == orderly' = IF InOrder(e) THEN orderly ELSE orderly \ {e.sub}

\* The handler returned.  Its 200 reaches the provider or is lost.
Answer(e) == pending' \in {pending, pending \ {e}}

\* A request is answered at once, or goes on to write what its event says.
AnswerAtOnce(e) == Answer(e) /\ UNCHANGED request

GoOn(h, e, label) ==
    /\ pc' = [pc EXCEPT ![h] = label]
    /\ ev' = [ev EXCEPT ![h] = e]
    /\ data' = [data EXCEPT ![h] = Parse(e)]
    /\ UNCHANGED pending

Proceed(h, label) ==
    /\ pc' = [pc EXCEPT ![h] = label]
    /\ UNCHANGED <<ev, data, pending>>

Close(h) ==
    /\ pc' = [pc EXCEPT ![h] = "idle"]
    /\ ev' = [ev EXCEPT ![h] = None]
    /\ data' = [data EXCEPT ![h] = None]

\* A call throws, or the process dies: the provider gets no 200 and will try
\* again.
Abort(h) ==
    /\ pc[h] # "idle"
    /\ Close(h)
    /\ torn' = IF pc[h] = "grant" \/ (pc[h] = "invoice" /\ data[h].action = "created")
               THEN torn \cup {ev[h].sub} ELSE torn
    /\ UNCHANGED <<provider, pending, tables, user, orderly, lost>>

\* handleSubscriptionCreated: three writes, no transaction.

\* Mutation: a user who has a row already is not given another.
MutCreated(h, e) ==
    /\ pc[h] = "idle"
    /\ Parse(e).action = "created"
    /\ IF (\E s \in Subs : HasRow(s)) \/ e.sub \in Unowned
         THEN AnswerAtOnce(e) ELSE GoOn(h, e, "insert")
    /\ Watch(e)
    /\ UNCHANGED <<provider, tables, user, torn, lost>>

Created(h, e) ==
    /\ pc[h] = "idle"
    /\ Parse(e).action = "created"
    /\ IF HasRow(e.sub) \/ e.sub \in Unowned
         THEN AnswerAtOnce(e) ELSE GoOn(h, e, "insert")
    /\ Watch(e)
    /\ UNCHANGED <<provider, tables, user, torn, lost>>

RowOf(d) == [plan |-> d.plan, status |-> d.status, ending |-> d.ending]

\* Another request may have inserted the row; then this one throws (Abort).
Insert(h) ==
    /\ pc[h] = "insert"
    /\ ~HasRow(ev[h].sub)
    /\ row' = [row EXCEPT ![ev[h].sub] = RowOf(data[h])]
    /\ born' = [born EXCEPT ![ev[h].sub] = 1 + Cardinality({s \in Subs : HasRow(s)})]
    /\ lost' = lost \ {<<ev[h].sub, data[h].payment>>}
    /\ Proceed(h, "grant")
    /\ UNCHANGED <<provider, userPlan, invoices, user, orderly, torn>>

Grant(h) ==
    /\ pc[h] = "grant"
    /\ userPlan' = data[h].plan
    /\ IF data[h].payment = 0 THEN Close(h) /\ Answer(ev[h]) ELSE Proceed(h, "invoice")
    /\ UNCHANGED <<provider, row, born, invoices, user, history>>

\* Mutation: the payment of a renewal is not recorded.
MutRecordInvoice(h) ==
    /\ pc[h] = "invoice"
    /\ invoices' = IF data[h].action = "created"
                   THEN invoices \cup {<<ev[h].sub, data[h].payment>>} ELSE invoices
    /\ Close(h)
    /\ Answer(ev[h])
    /\ UNCHANGED <<provider, row, born, userPlan, user, history>>

\* createInvoiceRecord, which the unique payment id makes idempotent.
RecordInvoice(h) ==
    /\ pc[h] = "invoice"
    /\ invoices' = invoices \cup {<<ev[h].sub, data[h].payment>>}
    /\ Close(h)
    /\ Answer(ev[h])
    /\ UNCHANGED <<provider, row, born, userPlan, user, history>>

\* An event about a subscription without a row is answered with 200 and dropped.
Dropped(e) ==
    /\ Parse(e).action # "created"
    /\ ~HasRow(e.sub)
    /\ Answer(e)
    /\ lost' = IF e \in pending' \/ Parse(e).payment = 0
               THEN lost ELSE lost \cup {<<e.sub, Parse(e).payment>>}
    /\ Watch(e)
    /\ UNCHANGED <<provider, tables, request, user, torn>>

\* handleSubscriptionUpdated: one transaction, then the invoice.
Updated(h, e) ==
    /\ pc[h] = "idle"
    /\ Parse(e).action = "updated"
    /\ HasRow(e.sub)
    /\ row' = [row EXCEPT ![e.sub] = RowOf(Parse(e))]
    /\ userPlan' = Parse(e).plan
    /\ IF Parse(e).payment = 0 THEN AnswerAtOnce(e) ELSE GoOn(h, e, "invoice")
    /\ Watch(e)
    /\ UNCHANGED <<provider, born, invoices, user, torn, lost>>

\* handleSubscriptionDeleted.
Deleted(e) ==
    /\ Parse(e).action = "deleted"
    /\ HasRow(e.sub)
    /\ row' = [row EXCEPT ![e.sub].status = "CANCELED"]
    /\ userPlan' = "FREE"
    /\ Answer(e)
    /\ Watch(e)
    /\ UNCHANGED <<provider, born, invoices, request, user, torn, lost>>

\* Mutation: a failed payment takes the plan away.
MutPaymentFailed(e) ==
    /\ Parse(e).action = "failed"
    /\ HasRow(e.sub)
    /\ row' = [row EXCEPT ![e.sub].status = "PAST_DUE"]
    /\ userPlan' = "FREE"
    /\ Answer(e)
    /\ Watch(e)
    /\ UNCHANGED <<provider, born, invoices, request, user, torn, lost>>

\* handlePaymentFailed.
PaymentFailed(e) ==
    /\ Parse(e).action = "failed"
    /\ HasRow(e.sub)
    /\ row' = [row EXCEPT ![e.sub].status = "PAST_DUE"]
    /\ Answer(e)
    /\ Watch(e)
    /\ UNCHANGED <<provider, born, userPlan, invoices, request, user, torn, lost>>

-----------------------------------------------------------------------------
\* cancelSubscription.

\* The newest ACTIVE row.
ToCancel(s) ==
    /\ row[s].status = "ACTIVE"
    /\ \A t \in Subs : row[t].status = "ACTIVE" => born[t] <= born[s]

CancelRead(s) ==
    /\ chosen = None /\ cancel = None
    /\ ToCancel(s)
    /\ chosen' = s
    /\ UNCHANGED <<provider, pending, tables, request, cancel, history>>

\* Mutation: that the provider refused goes unnoticed.
MutCancelAtProvider(s) ==
    /\ chosen = s
    /\ chosen' = None
    /\ cancel' = s
    /\ UNCHANGED <<provider, pending, tables, request, history>>

\* Stripe announces the change, Razorpay does not.
CancelAtProvider(s) ==
    /\ chosen = s
    /\ Alive(s)
    /\ IF s \in Stripe /\ ~truth[s].ending
         THEN Announce(s, [truth[s] EXCEPT !.ending = TRUE],
                       {"customer.subscription.updated"}, 0)
         ELSE /\ truth' = [truth EXCEPT ![s].ending = TRUE]
              /\ UNCHANGED <<emits, pending>>
    /\ chosen' = None
    /\ cancel' = s
    /\ UNCHANGED <<tables, request, history>>

CancelMark ==
    /\ cancel # None
    /\ row' = [row EXCEPT ![cancel].ending = TRUE]
    /\ cancel' = None
    /\ UNCHANGED <<provider, pending, born, userPlan, invoices, request, chosen, history>>

\* The provider refuses, a call throws, or the process dies.
CancelAbort ==
    /\ chosen # None \/ cancel # None
    /\ chosen' = None
    /\ cancel' = None
    /\ UNCHANGED <<provider, pending, tables, request, history>>

-----------------------------------------------------------------------------

ProviderStep(s) ==
    Subscribe(s) \/ ChangePlan(s) \/ Renew(s) \/ RenewFails(s) \/ End(s)

Webhook(e) ==
    \/ \E h \in Handlers : Created(h, e) \/ Updated(h, e)
    \/ Dropped(e) \/ Deleted(e) \/ PaymentFailed(e)

HandlerStep(h) == Insert(h) \/ Grant(h) \/ RecordInvoice(h) \/ Abort(h)

Cancel ==
    \/ \E s \in Subs : CancelRead(s) \/ CancelAtProvider(s)
    \/ CancelMark
    \/ CancelAbort

Next ==
    \/ \E s \in Subs : ProviderStep(s)
    \/ \E e \in pending : Webhook(e)
    \/ \E h \in Handlers : HandlerStep(h)
    \/ Cancel

Spec == Init /\ [][Next]_vars

-----------------------------------------------------------------------------

Idle == (\A h \in Handlers : pc[h] = "idle") /\ chosen = None /\ cancel = None

\* Every webhook has been answered with 200 and nothing is in flight.
Settled == Idle /\ pending = {}

Bought(s) == truth[s].status # None
Owned == Subs \ Unowned

\* Once every webhook was answered, a user who bought a subscription and lost
\* none has a paid plan, in whatever order, how often and how concurrently the
\* webhooks came, unless the creation of the row was cut off between its writes.
GrantedUnlessEnded ==
    Settled /\ (\A s \in Subs : truth[s].status # "canceled")
    => ((\E s \in Owned \ torn : Bought(s)) => userPlan # "FREE")

\* Once every webhook was answered, every payment has its invoice.  One that came
\* before the row and was dropped is made up for by the creation if that names
\* its payment; no payment but such a one is lost.
EveryPaymentInvoiced ==
    Settled => \A s \in Owned \ torn : \A p \in 1 .. truth[s].paid :
                   <<s, p>> \in invoices \cup lost

\* A subscription is shown as ending only if the provider was told so, whatever
\* failed in between.
CancelShownIsReal ==
    \A s \in Subs : row[s].ending => truth[s].ending \/ truth[s].status = "canceled"

\* If a subscription's webhooks came in order and one at a time, repeated or not,
\* its row ends up with the status and the plan the provider has; if it is the
\* only one, so does the user.  (Where Stripe's invoices do not name the price,
\* "PRO" may stand for either plan.)
MirrorsProvider ==
    Settled => \A s \in (orderly \cap Owned) \ torn :
        LET status == truth[s].status
            alone == \A t \in Subs \ {s} : ~Bought(t)
            plans == {truth[s].plan} \cup
                     IF s \in Stripe /\ FALSE \in Priced THEN {"PRO"} ELSE {}
        IN /\ status = "active" => row[s].status = "ACTIVE" /\ row[s].plan \in plans
           /\ status = "past_due" => row[s].status = "PAST_DUE" /\ row[s].plan \in plans
           /\ status = "canceled" => row[s].status = "CANCELED"
           /\ alone /\ status \in {"active", "past_due"} => userPlan \in plans
           /\ alone /\ status = "canceled" => userPlan = "FREE"
==============================================================================
