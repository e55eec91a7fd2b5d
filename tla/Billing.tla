------------------------------ MODULE Billing ------------------------------
(***************************************************************************)
(* BillingService and StripeService: the catalogue, checkouts, and the     *)
(* webhook by which Stripe tells of them.  Stripe (external) delivers an   *)
(* event in no given order, again when the answer is an error, is late or  *)
(* is lost, and the handlers keep no trace of the events they have seen:   *)
(* only the unique columns stripeSubscriptionId and number protect the     *)
(* rows.  A number is counted in one query and used in another.            *)
(*                                                                         *)
(* An event is named by what it is about: a checkout that was completed,   *)
(* or a payment of a subscription (invoice.paid).                          *)
(***************************************************************************)
EXTENDS Naturals, FiniteSets

CONSTANTS
  Users,
  Plans,
  OneTimePlans,  \* plans whose cycle is ONE_TIME: a checkout of mode payment
  Checkouts,     \* identities of checkout sessions
  BuyerOf,       \* the user of each
  PlanOf,        \* the plan of each
  Payments,      \* identities of Stripe's invoices
  CheckoutOf,    \* the checkout whose subscription each pays for
  Tries,         \* bound: deliveries of one event under way at a time
  MaxPlans,      \* bound: plans of the catalogue
  MaxFaults      \* bound: answers that Stripe does not wait for, stops, new years

OneTime == {c \in Checkouts : PlanOf[c] \in OneTimePlans}

ASSUME BillingAssumption ==
  /\ OneTimePlans \subseteq Plans /\ Checkouts \cap Payments = {}
  /\ BuyerOf \in [Checkouts -> Users] /\ PlanOf \in [Checkouts -> Plans]
  /\ CheckoutOf \in [Payments -> Checkouts \ OneTime]
  /\ MaxPlans \in Nat /\ MaxFaults \in Nat

VARIABLES
  users,      \* users that exist
  plans,      \* plans of the catalogue
  secret,     \* STRIPE_WEBHOOK_SECRET is set
  event,      \* Stripe: where each event is
  call,       \* per event and try: the webhook request that carries it
  subs,       \* rows of Subscription, counted by checkout
  invoices,   \* rows of Invoice; a number is unique
  year,
  straddled,  \* history: a new year came between a count and its use
  repeated,   \* history: events delivered again though their handler ran, or may have
  faults

vars == <<users, plans, secret, event, call, subs, invoices, year, straddled, repeated, faults>>

Events == Checkouts \union Payments
Numbers == [year: 0 .. 1, n: Nat]
Invoice == [payment: Payments, number: Numbers, status: {"PAID", "VOID"}]
NoCall == [at |-> "idle", late |-> FALSE, ok |-> FALSE, number |-> [year |-> 0, n |-> 0]]
Call == [at: {"idle", "find", "count", "write", "answer"}, late: BOOLEAN, ok: BOOLEAN, number: Numbers]

Init ==
  /\ users = Users
  /\ plans = {}
  /\ secret \in BOOLEAN
  /\ event = [e \in Events |-> "none"]
  /\ call = [x \in Events \X Tries |-> NoCall]
  /\ subs = [c \in Checkouts |-> 0]
  /\ invoices = {}
  /\ year = 0 /\ straddled = FALSE
  /\ repeated = {}
  /\ faults = 0

\* listInvoicesForUser, listSubscriptionsForUser
InvoicesOf(u) == {i \in invoices : BuyerOf[CheckoutOf[i.payment]] = u}
SubscriptionsOf(u) == {c \in Checkouts : BuyerOf[c] = u /\ subs[c] > 0}

-----------------------------------------------------------------------------
(* Requests *)

\* createProduct and createPlan.
CreatePlan(p) ==
  /\ Cardinality(plans) < MaxPlans
  /\ plans' = plans \union {p}
  /\ UNCHANGED <<users, secret, event, call, subs, invoices, year, straddled, repeated, faults>>

\* createCheckoutSession, and the customer pays on the page of Stripe.
Checkout(c) ==
  /\ BuyerOf[c] \in users /\ PlanOf[c] \in plans
  /\ event[c] = "none"
  /\ event' = [event EXCEPT ![c] = "queued"]
  /\ UNCHANGED <<users, plans, secret, call, subs, invoices, year, straddled, repeated, faults>>

\* Mutant: a refund deletes the invoice.
RefundDeletes(i) ==
  /\ invoices' = invoices \ {i}
  /\ UNCHANGED <<users, plans, secret, event, call, subs, year, straddled, repeated, faults>>

\* refundInvoice writes VOID, and asks nothing of Stripe.
Refund(i) ==
  /\ invoices' = (invoices \ {i}) \union {[i EXCEPT !.status = "VOID"]}
  /\ UNCHANGED <<users, plans, secret, event, call, subs, year, straddled, repeated, faults>>

\* A user whom a subscription or an invoice refers to cannot be deleted.
DeleteUser(u) ==
  /\ u \in users /\ InvoicesOf(u) = {} /\ SubscriptionsOf(u) = {}
  /\ users' = users \ {u}
  /\ UNCHANGED <<plans, secret, event, call, subs, invoices, year, straddled, repeated, faults>>

\* The operator sets the secret.
Configure ==
  /\ ~secret /\ secret' = TRUE
  /\ UNCHANGED <<users, plans, event, call, subs, invoices, year, straddled, repeated, faults>>

-----------------------------------------------------------------------------
(* Stripe *)

\* A period of a subscription is paid, the first one with the checkout itself.
Pay(p) ==
  /\ event[p] = "none" /\ event[CheckoutOf[p]] # "none"
  /\ event' = [event EXCEPT ![p] = "queued"]
  /\ UNCHANGED <<users, plans, secret, call, subs, invoices, year, straddled, repeated, faults>>

Deliver(e, r) ==
  /\ event[e] = "queued" /\ call[<<e, r>>] = NoCall
  /\ event' = [event EXCEPT ![e] = "sent"]
  /\ call' = [call EXCEPT ![<<e, r>>].at = "find"]
  /\ UNCHANGED <<users, plans, secret, subs, invoices, year, straddled, repeated, faults>>

\* Stripe has waited long enough, or the answer is lost; the request goes on.
Timeout(e, r) ==
  /\ call[<<e, r>>].at # "idle" /\ ~call[<<e, r>>].late
  /\ faults < MaxFaults /\ faults' = faults + 1
  /\ call' = [call EXCEPT ![<<e, r>>] = IF @.at = "answer" THEN NoCall ELSE [@ EXCEPT !.late = TRUE]]
  /\ event' = [event EXCEPT ![e] = "queued"]
  /\ repeated' = repeated \union {e}
  /\ UNCHANGED <<users, plans, secret, subs, invoices, year, straddled>>

-----------------------------------------------------------------------------
(* handleWebhook *)

\* Request x goes to step at, or to its answer with the given outcome, which nobody
\* reads when it is late.
To(x, at) == call' = [call EXCEPT ![x].at = at]
End(x, ok) == call' = [call EXCEPT ![x] = IF @.late THEN NoCall ELSE [NoCall EXCEPT !.at = "answer", !.ok = ok]]

\* Without its secret the webhook answers 400.
Refused(x) ==
  /\ call[x].at = "find" /\ ~secret
  /\ End(x, FALSE)
  /\ UNCHANGED <<users, plans, secret, event, subs, invoices, year, straddled, repeated, faults>>

\* onCheckoutCompleted: one insertion, which a missing user or a subscription already
\* inserted makes fail; a one-time payment has no subscription to be unique by.
OnCheckoutCompleted(c, r) ==
  LET fits == BuyerOf[c] \in users /\ (c \in OneTime \/ subs[c] = 0)
  IN  /\ call[<<c, r>>].at = "find" /\ secret
      /\ subs' = IF fits THEN [subs EXCEPT ![c] = @ + 1] ELSE subs
      /\ End(<<c, r>>, fits)
      /\ UNCHANGED <<users, plans, secret, event, invoices, year, straddled, repeated, faults>>

\* onInvoicePaid: a payment whose subscription has no row is dropped.
FindSubscription(p, r) ==
  /\ call[<<p, r>>].at = "find" /\ secret
  /\ IF subs[CheckoutOf[p]] > 0 THEN To(<<p, r>>, "count") ELSE End(<<p, r>>, TRUE)
  /\ UNCHANGED <<users, plans, secret, event, subs, invoices, year, straddled, repeated, faults>>

\* Mutant: invoices that were refunded are not counted.
CountPaid(p, r) ==
  /\ call[<<p, r>>].at = "count"
  /\ call' = [call EXCEPT ![<<p, r>>].at = "write",
                ![<<p, r>>].number = [year |-> year, n |-> Cardinality({i \in invoices : i.status = "PAID"}) + 1]]
  /\ UNCHANGED <<users, plans, secret, event, subs, invoices, year, straddled, repeated, faults>>

\* createInvoiceNumber
CreateInvoiceNumber(p, r) ==
  /\ call[<<p, r>>].at = "count"
  /\ call' = [call EXCEPT ![<<p, r>>].at = "write",
                          ![<<p, r>>].number = [year |-> year, n |-> Cardinality(invoices) + 1]]
  /\ UNCHANGED <<users, plans, secret, event, subs, invoices, year, straddled, repeated, faults>>

\* Mutant: something after the insertion throws.
CreateInvoiceThrows(p, r) ==
  LET number == call[<<p, r>>].number
  IN  /\ call[<<p, r>>].at = "write"
      /\ IF \E i \in invoices : i.number = number
         THEN End(<<p, r>>, FALSE) /\ UNCHANGED invoices
         ELSE /\ Cardinality(invoices) < 4
              /\ invoices' = invoices \union {[payment |-> p, number |-> number, status |-> "PAID"]}
              /\ \E ok \in BOOLEAN : End(<<p, r>>, ok)
      /\ UNCHANGED <<users, plans, secret, event, subs, year, straddled, repeated, faults>>

\* The insertion, which a number taken since makes fail.
CreateInvoice(p, r) ==
  LET number == call[<<p, r>>].number
      free == \A i \in invoices : i.number # number
  IN  /\ call[<<p, r>>].at = "write"
      /\ invoices' = invoices \union (IF free THEN {[payment |-> p, number |-> number, status |-> "PAID"]} ELSE {})
      /\ End(<<p, r>>, free)
      /\ UNCHANGED <<users, plans, secret, event, subs, year, straddled, repeated, faults>>

\* 200, or the error that has Stripe deliver the event again.
Answer(e, r) ==
  /\ call[<<e, r>>].at = "answer"
  /\ event' = [event EXCEPT ![e] = IF call[<<e, r>>].ok THEN "done" ELSE "queued"]
  /\ call' = [call EXCEPT ![<<e, r>>] = NoCall]
  /\ UNCHANGED <<users, plans, secret, subs, invoices, year, straddled, repeated, faults>>

BackendStops ==
  /\ faults < MaxFaults /\ faults' = faults + 1
  /\ call' = [x \in Events \X Tries |-> NoCall]
  /\ event' = [e \in Events |-> IF event[e] = "sent" THEN "queued" ELSE event[e]]
  /\ repeated' = repeated \union {e \in Events : event[e] = "sent" /\ \E r \in Tries : call[<<e, r>>].at = "answer"}
  /\ UNCHANGED <<users, plans, secret, subs, invoices, year, straddled>>

NewYear ==
  /\ faults < MaxFaults /\ faults' = faults + 1
  /\ year = 0 /\ year' = 1
  /\ straddled' = \E x \in Events \X Tries : call[x].at = "write"
  /\ UNCHANGED <<users, plans, secret, event, call, subs, invoices, repeated>>

HandleWebhook(e, r) ==
  \/ Refused(<<e, r>>)
  \/ e \in Checkouts /\ OnCheckoutCompleted(e, r)
  \/ e \in Payments /\ (FindSubscription(e, r) \/ CreateInvoiceNumber(e, r) \/ CreateInvoice(e, r))
  \/ Answer(e, r)

BillingController ==
  \/ \E p \in Plans : CreatePlan(p)
  \/ \E c \in Checkouts : Checkout(c)
  \/ \E i \in invoices : Refund(i)
  \/ \E u \in Users : DeleteUser(u)

Stripe == (\E p \in Payments : Pay(p)) \/ (\E e \in Events, r \in Tries : Deliver(e, r) \/ Timeout(e, r))

Next ==
  \/ BillingController \/ Configure \/ Stripe
  \/ \E e \in Events, r \in Tries : HandleWebhook(e, r)
  \/ BackendStops \/ NewYear

Spec == Init /\ [][Next]_vars

\* Stripe delivers an event until it is acknowledged, and queries answer.
FairSpec ==
  /\ Spec
  /\ \A e \in Events :
       /\ WF_vars(\E r \in Tries : Deliver(e, r))
       /\ \A r \in Tries : WF_vars(HandleWebhook(e, r))

-----------------------------------------------------------------------------
(* Properties *)

\* Every row refers to rows that exist: the user of a subscription, the subscription of
\* an invoice; and at most one request carries an event that Stripe waits for.
TypeOK ==
  /\ users \subseteq Users /\ plans \subseteq Plans
  /\ event \in [Events -> {"none", "queued", "sent", "done"}]
  /\ call \in [Events \X Tries -> Call]
  /\ \A c \in Checkouts : subs[c] > 0 => BuyerOf[c] \in users
  /\ \A i \in invoices : i \in Invoice /\ subs[CheckoutOf[i.payment]] > 0
  /\ \A e \in Events : event[e] = "sent" <=> \E r \in Tries : call[<<e, r>>].at # "idle" /\ ~call[<<e, r>>].late

\* Invoice numbers run 1, 2, 3 without a gap or a number given twice, unless the year
\* turned between a count and the insertion that used it (createInvoiceNumber).
NumbersRun ==
  straddled \/ {i.number.n : i \in invoices} = 1 .. Cardinality(invoices)

\* Types, and invoice numbers that run (createInvoiceNumber).
BillingInv == TypeOK /\ NumbersRun

\* A payment has one invoice and a purchase one subscription, unless Stripe delivered
\* again an event that had been handled: retries after an error duplicate nothing.
BilledOnce ==
  /\ \A i, j \in invoices : i.payment = j.payment => i = j \/ i.payment \in repeated
  /\ \A c \in Checkouts : subs[c] > 1 => c \in repeated

\* What was paid is honoured: the buyer is subscribed unless he was deleted, and a
\* payment that Stripe has to deliver when its subscription is known gets an invoice,
\* collisions of numbers, refunds and stops notwithstanding.
PaidHonoured ==
  /\ \A c \in Checkouts : (event[c] = "queued" /\ secret) ~> (subs[c] > 0 \/ BuyerOf[c] \notin users)
  /\ \A p \in Payments : (event[p] = "queued" /\ subs[CheckoutOf[p]] > 0 /\ secret)
                           ~> \E i \in invoices : i.payment = p
=============================================================================
