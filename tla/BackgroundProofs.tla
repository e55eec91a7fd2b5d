-------------------------- MODULE BackgroundProofs --------------------------
(***************************************************************************)
(* What the Backend does when no page asks for it: Stripe's webhook, for   *)
(* any number of users, plans, checkouts, payments, deliveries and         *)
(* failures, and the scheduled tasks, for any number of tasks, overlapping *)
(* ticks, edits and stops.                                                 *)
(***************************************************************************)
EXTENDS Billing, ScheduledTasks, FiniteSetTheorems, TLAPS

-----------------------------------------------------------------------------
(* Types                                                                    *)

Requests == Events \X Tries
Where == {"none", "queued", "sent", "done"}

Typed ==
  /\ users \subseteq Users /\ plans \subseteq Plans
  /\ event \in [Events -> Where]
  /\ call \in [Requests -> Call]
  /\ subs \in [Checkouts -> Nat]
  /\ invoices \subseteq Invoice /\ IsFiniteSet(invoices)
  /\ year \in 0 .. 1 /\ straddled \in BOOLEAN /\ repeated \subseteq Events

LEMMA NoCallType ==
  NoCall \in Call /\ NoCall.at = "idle" /\ NoCall.late = FALSE
BY DEF NoCall, Call, Numbers

LEMMA CallType ==
  ASSUME Typed, NEW x \in Requests
  PROVE  /\ call[x] \in Call /\ call[x].late \in BOOLEAN /\ call[x].ok \in BOOLEAN
         /\ call[x].at \in {"idle", "find", "count", "write", "answer"}
         /\ call[x].number \in Numbers
BY DEF Typed, Call

LEMMA InvoiceType ==
  ASSUME Typed, NEW i \in invoices
  PROVE  /\ i \in Invoice /\ i.payment \in Payments /\ i.number \in Numbers
         /\ i.number.n \in Nat /\ i.status \in {"PAID", "VOID"}
BY DEF Typed, Invoice, Numbers

LEMMA CheckoutType ==
  ASSUME NEW p \in Payments
  PROVE  CheckoutOf[p] \in Checkouts
BY BillingAssumption

-----------------------------------------------------------------------------
(* What a step does to the requests                                         *)

\* Request x alone changes.
Alone(x) ==
  /\ call' \in [Requests -> Call]
  /\ \A y \in Requests \ {x} : call'[y] = call[y]

LEMMA SetCall ==
  ASSUME Typed, NEW x \in Requests, NEW v \in Call, call' = [call EXCEPT ![x] = v]
  PROVE  Alone(x) /\ call'[x] = v
BY DEF Typed, Alone

\* The end of a request: an answer for Stripe, if it still waits.
LEMMA EndType ==
  ASSUME Typed, NEW x \in Requests, NEW ok \in BOOLEAN, End(x, ok)
  PROVE  /\ Alone(x) /\ call'[x].late = FALSE
         /\ call'[x].at = IF call[x].late THEN "idle" ELSE "answer"
         /\ ~call[x].late => call'[x].ok = ok
<1>. DEFINE v == IF call[x].late THEN NoCall ELSE [NoCall EXCEPT !.at = "answer", !.ok = ok]
<1>1. v \in Call /\ v.late = FALSE /\ v.at = (IF call[x].late THEN "idle" ELSE "answer")
  BY NoCallType DEF Call
<1>2. ~call[x].late => v.ok = ok
  BY NoCallType DEF Call
<1>3. call' = [call EXCEPT ![x] = v]
  BY DEF End, Typed
<1>. HIDE DEF v
<1>4. Alone(x) /\ call'[x] = v
  BY <1>1, <1>3, SetCall
<1>. QED
  BY <1>1, <1>2, <1>4

LEMMA ToType ==
  ASSUME Typed, NEW x \in Requests, NEW at \in {"count", "find"}, To(x, at)
  PROVE  /\ Alone(x) /\ call'[x].late = call[x].late /\ call'[x].at = at
<1>. DEFINE v == [call[x] EXCEPT !.at = at]
<1>1. v \in Call /\ v.late = call[x].late /\ v.at = at
  BY CallType DEF Call
<1>2. call' = [call EXCEPT ![x] = v]
  BY DEF To, Typed
<1>. HIDE DEF v
<1>. QED
  BY <1>1, <1>2, SetCall

\* A step of a handler: request x goes on, or ends.
Handles(x) ==
  /\ Alone(x) /\ UNCHANGED <<event, repeated>>
  /\ call[x].at \in {"find", "count", "write"}
  /\ \/ call'[x].late = call[x].late /\ call'[x].at \in {"count", "write"}
     \/ call'[x].late = FALSE /\ call'[x].at = IF call[x].late THEN "idle" ELSE "answer"

LEMMA RefusedHandles ==
  ASSUME Typed, NEW x \in Requests, Refused(x)
  PROVE  Handles(x) /\ call'[x].at # "write"
<1>1. End(x, FALSE) /\ call[x].at = "find" /\ UNCHANGED <<event, repeated>>
  BY DEF Refused
<1>. QED
  BY <1>1, EndType DEF Handles

LEMMA CheckoutHandles ==
  ASSUME Typed, NEW c \in Checkouts, NEW r \in Tries, OnCheckoutCompleted(c, r)
  PROVE  /\ Handles(<<c, r>>) /\ call'[<<c, r>>].at # "write" /\ call[<<c, r>>].at = "find"
         /\ \/ subs' = subs
            \/ /\ subs' = [subs EXCEPT ![c] = @ + 1] /\ BuyerOf[c] \in users
               /\ ~call[<<c, r>>].late => call'[<<c, r>>].at = "answer" /\ call'[<<c, r>>].ok
<1>. DEFINE fits == BuyerOf[c] \in users /\ (c \in OneTime \/ subs[c] = 0)
<1>1. /\ call[<<c, r>>].at = "find" /\ UNCHANGED <<event, repeated>> /\ End(<<c, r>>, fits)
      /\ subs' = IF fits THEN [subs EXCEPT ![c] = @ + 1] ELSE subs
  BY DEF OnCheckoutCompleted
<1>2. PICK x \in Requests : x = <<c, r>>
  BY DEF Requests, Events
<1>3. PICK ok \in BOOLEAN : ok = fits
  OBVIOUS
<1>4. /\ Alone(x) /\ call'[x].late = FALSE
      /\ call'[x].at = IF call[x].late THEN "idle" ELSE "answer"
      /\ ~call[x].late => call'[x].ok = ok
  BY <1>1, <1>2, <1>3, EndType
<1>5. Handles(x) /\ call'[x].at # "write"
  BY <1>1, <1>2, <1>4 DEF Handles
<1>. QED
  BY <1>1, <1>2, <1>3, <1>4, <1>5

LEMMA FindHandles ==
  ASSUME Typed, NEW p \in Payments, NEW r \in Tries, FindSubscription(p, r)
  PROVE  /\ Handles(<<p, r>>) /\ call'[<<p, r>>].at # "write"
         /\ call'[<<p, r>>].at = "count" => subs[CheckoutOf[p]] > 0
<1>1. PICK x \in Requests : x = <<p, r>>
  BY DEF Requests, Events
<1>2. /\ call[x].at = "find" /\ UNCHANGED <<event, repeated>>
      /\ \/ subs[CheckoutOf[p]] > 0 /\ To(x, "count")
         \/ End(x, TRUE)
  BY <1>1 DEF FindSubscription
<1>3. CASE subs[CheckoutOf[p]] > 0 /\ To(x, "count")
  <2>1. Alone(x) /\ call'[x].late = call[x].late /\ call'[x].at = "count"
    BY <1>3, ToType
  <2>. QED
    BY <1>1, <1>2, <1>3, <2>1 DEF Handles
<1>4. CASE End(x, TRUE)
  <2>1. /\ Alone(x) /\ call'[x].late = FALSE
        /\ call'[x].at = IF call[x].late THEN "idle" ELSE "answer"
    BY <1>4, EndType
  <2>. QED
    BY <1>1, <1>2, <2>1 DEF Handles
<1>. QED
  BY <1>2, <1>3, <1>4

LEMMA CountHandles ==
  ASSUME Typed, NEW p \in Payments, NEW r \in Tries, CreateInvoiceNumber(p, r)
  PROVE  /\ Handles(<<p, r>>) /\ call'[<<p, r>>].at = "write" /\ call[<<p, r>>].at = "count"
         /\ call'[<<p, r>>].number = [year |-> year, n |-> Cardinality(invoices) + 1]
<1>1. PICK x \in Requests : x = <<p, r>>
  BY DEF Requests, Events
<1>2. PICK number : number = [year |-> year, n |-> Cardinality(invoices) + 1]
  OBVIOUS
<1>3. number \in Numbers
  BY <1>2, FS_CardinalityType DEF Numbers, Typed
<1>4. PICK v : v = [call[x] EXCEPT !.at = "write", !.number = number]
  OBVIOUS
<1>5. v \in Call /\ v.late = call[x].late /\ v.at = "write" /\ v.number = number
  BY <1>3, <1>4, CallType DEF Call
<1>6. call' = [call EXCEPT ![x] = v]
  BY <1>1, <1>2, <1>4 DEF CreateInvoiceNumber, Typed
<1>7. Alone(x) /\ call'[x] = v
  BY <1>5, <1>6, SetCall
<1>8. call[x].at = "count" /\ UNCHANGED <<event, repeated>>
  BY <1>1 DEF CreateInvoiceNumber
<1>9. Handles(x)
  BY <1>5, <1>7, <1>8 DEF Handles
<1>. QED
  BY <1>1, <1>2, <1>5, <1>7, <1>8, <1>9

NewInvoice(p, r) == [payment |-> p, number |-> call[<<p, r>>].number, status |-> "PAID"]

LEMMA CreateHandles ==
  ASSUME Typed, NEW p \in Payments, NEW r \in Tries, CreateInvoice(p, r)
  PROVE  /\ Handles(<<p, r>>) /\ call'[<<p, r>>].at # "write" /\ call[<<p, r>>].at = "write"
         /\ \/ invoices' = invoices
            \/ /\ invoices' = invoices \union {NewInvoice(p, r)}
               /\ \A i \in invoices : i.number # call[<<p, r>>].number
               /\ ~call[<<p, r>>].late => call'[<<p, r>>].at = "answer" /\ call'[<<p, r>>].ok
<1>. DEFINE free == \A i \in invoices : i.number # call[<<p, r>>].number
<1>1. /\ call[<<p, r>>].at = "write" /\ UNCHANGED <<event, repeated>> /\ End(<<p, r>>, free)
      /\ invoices' = invoices \union (IF free THEN {NewInvoice(p, r)} ELSE {})
  BY DEF CreateInvoice, NewInvoice
<1>2. PICK x \in Requests : x = <<p, r>>
  BY DEF Requests, Events
<1>3. PICK ok \in BOOLEAN : ok = free
  OBVIOUS
<1>4. /\ Alone(x) /\ call'[x].late = FALSE
      /\ call'[x].at = IF call[x].late THEN "idle" ELSE "answer"
      /\ ~call[x].late => call'[x].ok = ok
  BY <1>1, <1>2, <1>3, EndType
<1>5. Handles(x) /\ call'[x].at # "write"
  BY <1>1, <1>2, <1>4 DEF Handles
<1>6. CASE free
  BY <1>1, <1>2, <1>3, <1>4, <1>5, <1>6
<1>7. CASE ~free
  BY <1>1, <1>2, <1>5, <1>7
<1>. QED
  BY <1>6, <1>7

\* What Stripe does, and a stop of the Backend.
LEMMA DeliverType ==
  ASSUME Typed, NEW e \in Events, NEW r \in Tries, Deliver(e, r)
  PROVE  /\ Alone(<<e, r>>) /\ <<e, r>> \in Requests /\ call[<<e, r>>].at = "idle"
         /\ call'[<<e, r>>].at = "find" /\ call'[<<e, r>>].late = FALSE
         /\ event[e] = "queued" /\ event' = [event EXCEPT ![e] = "sent"]
<1>1. PICK x \in Requests : x = <<e, r>>
  BY DEF Requests
<1>2. /\ call[x] = NoCall /\ call' = [call EXCEPT ![x].at = "find"]
      /\ event[e] = "queued" /\ event' = [event EXCEPT ![e] = "sent"]
  BY <1>1 DEF Deliver
<1>3. PICK v : v = [call[x] EXCEPT !.at = "find"]
  OBVIOUS
<1>4. v \in Call /\ v.at = "find" /\ v.late = FALSE
  BY <1>2, <1>3, NoCallType DEF Call
<1>5. call' = [call EXCEPT ![x] = v]
  BY <1>2, <1>3 DEF Typed
<1>6. Alone(x) /\ call'[x] = v
  BY <1>4, <1>5, SetCall
<1>. QED
  BY <1>1, <1>2, <1>4, <1>6, NoCallType

LEMMA TimeoutType ==
  ASSUME Typed, NEW e \in Events, NEW r \in Tries, Timeout(e, r)
  PROVE  /\ Alone(<<e, r>>) /\ <<e, r>> \in Requests
         /\ call[<<e, r>>].at # "idle" /\ call[<<e, r>>].late = FALSE
         /\ \/ call'[<<e, r>>].at = "idle" /\ call'[<<e, r>>].late = FALSE
            \/ /\ call[<<e, r>>].at # "answer" /\ call'[<<e, r>>].late = TRUE
               /\ call'[<<e, r>>].at = call[<<e, r>>].at
               /\ call'[<<e, r>>].number = call[<<e, r>>].number
         /\ event' = [event EXCEPT ![e] = "queued"] /\ repeated' = repeated \union {e}
<1>1. PICK x \in Requests : x = <<e, r>>
  BY DEF Requests
<1>2. /\ call[x].at # "idle" /\ ~call[x].late
      /\ call' = [call EXCEPT ![x] = IF @.at = "answer" THEN NoCall ELSE [@ EXCEPT !.late = TRUE]]
      /\ event' = [event EXCEPT ![e] = "queued"] /\ repeated' = repeated \union {e}
  BY <1>1 DEF Timeout
<1>3. PICK v : v = IF call[x].at = "answer" THEN NoCall ELSE [call[x] EXCEPT !.late = TRUE]
  OBVIOUS
<1>4. call' = [call EXCEPT ![x] = v]
  BY <1>2, <1>3 DEF Typed
<1>5. CASE call[x].at = "answer"
  <2>1. v \in Call /\ v.at = "idle" /\ v.late = FALSE
    BY <1>3, <1>5, NoCallType
  <2>2. Alone(x) /\ call'[x] = v
    BY <1>4, <2>1, SetCall
  <2>. QED
    BY <1>1, <1>2, <2>1, <2>2, CallType
<1>6. CASE call[x].at # "answer"
  <2>1. v \in Call /\ v.at = call[x].at /\ v.late = TRUE /\ v.number = call[x].number
    BY <1>3, <1>6, CallType DEF Call
  <2>2. Alone(x) /\ call'[x] = v
    BY <1>4, <2>1, SetCall
  <2>. QED
    BY <1>1, <1>2, <1>6, <2>1, <2>2, CallType
<1>. QED
  BY <1>5, <1>6

LEMMA AnswerType ==
  ASSUME Typed, NEW e \in Events, NEW r \in Tries, Answer(e, r)
  PROVE  /\ Alone(<<e, r>>) /\ <<e, r>> \in Requests /\ call[<<e, r>>].at = "answer"
         /\ call'[<<e, r>>].at = "idle" /\ call'[<<e, r>>].late = FALSE
         /\ event' = [event EXCEPT ![e] = IF call[<<e, r>>].ok THEN "done" ELSE "queued"]
<1>1. PICK x \in Requests : x = <<e, r>>
  BY DEF Requests
<1>2. /\ call[x].at = "answer" /\ call' = [call EXCEPT ![x] = NoCall]
      /\ event' = [event EXCEPT ![e] = IF call[x].ok THEN "done" ELSE "queued"]
  BY <1>1 DEF Answer
<1>3. Alone(x) /\ call'[x] = NoCall
  BY <1>2, NoCallType, SetCall
<1>. QED
  BY <1>1, <1>2, <1>3, NoCallType

LEMMA StopsType ==
  ASSUME Typed, BackendStops
  PROVE  /\ call' \in [Requests -> Call] /\ \A x \in Requests : call'[x].at = "idle" /\ call'[x].late = FALSE
         /\ event' \in [Events -> Where]
         /\ \A e \in Events : event'[e] = IF event[e] = "sent" THEN "queued" ELSE event[e]
         /\ repeated \subseteq repeated' /\ repeated' \subseteq Events
         /\ \A e \in Events, r \in Tries :
              event[e] = "sent" /\ call[<<e, r>>].at = "answer" => e \in repeated'
<1>1. call' = [x \in Requests |-> NoCall]
  BY DEF BackendStops, Requests
<1>2. event' = [e \in Events |-> IF event[e] = "sent" THEN "queued" ELSE event[e]]
  BY DEF BackendStops
<1>3. repeated' = repeated \union {e \in Events : event[e] = "sent" /\ \E r \in Tries : call[<<e, r>>].at = "answer"}
  BY DEF BackendStops
<1>4. call' \in [Requests -> Call] /\ \A x \in Requests : call'[x].at = "idle" /\ call'[x].late = FALSE
  BY <1>1, NoCallType
<1>5. event' \in [Events -> Where]
  BY <1>2 DEF Typed, Where
<1>6. repeated' \subseteq Events
  BY <1>3 DEF Typed
<1>. QED
  BY <1>2, <1>3, <1>4, <1>5, <1>6

-----------------------------------------------------------------------------
(* The invariants                                                           *)

\* Rows refer to rows that exist, and an invoice is about to be written for a
\* subscription only.
Rows ==
  /\ \A c \in Checkouts : subs[c] > 0 => BuyerOf[c] \in users
  /\ \A i \in invoices : subs[CheckoutOf[i.payment]] > 0
  /\ \A p \in Payments, r \in Tries : call[<<p, r>>].at \in {"count", "write"} => subs[CheckoutOf[p]] > 0

\* Stripe waits for one request of an event at most, and knows which event it
\* has delivered again.
Waits(e, r) == call[<<e, r>>].at # "idle" /\ ~call[<<e, r>>].late
Sending ==
  /\ \A e \in Events : event[e] = "sent" <=> \E r \in Tries : Waits(e, r)
  /\ \A e \in Events, q, r \in Tries : Waits(e, q) /\ Waits(e, r) => q = r
  /\ \A e \in Events, r \in Tries : call[<<e, r>>].late => e \in repeated /\ call[<<e, r>>].at # "answer"

\* What has been inserted for an event that was delivered once is, or is about
\* to be, acknowledged.
Handled(e) ==
  event[e] = "done" \/ \E r \in Tries : call[<<e, r>>].at = "answer" /\ call[<<e, r>>].ok
Once ==
  /\ BilledOnce
  /\ \A i \in invoices : i.payment \in repeated \/ Handled(i.payment)
  /\ \A c \in Checkouts : subs[c] > 0 => c \in repeated \/ Handled(c)

\* The number that a request has counted is the next one, or has been taken
\* since by an invoice of the same number.
Counted(x) == call[x].at = "write"
Counting ==
  /\ straddled => year = 1
  /\ \/ straddled
     \/ /\ {i.number.n : i \in invoices} = 1 .. Cardinality(invoices)
        /\ \A i, j \in invoices : i.number.n = j.number.n => i = j
        /\ \A x \in Requests : Counted(x) =>
             /\ call[x].number.year = year /\ call[x].number.n \in 1 .. Cardinality(invoices) + 1
             /\ \A i \in invoices : i.number.n = call[x].number.n => i.number = call[x].number

Inv == Typed /\ Rows /\ Sending /\ Once /\ Counting

-----------------------------------------------------------------------------
(* Sending                                                                  *)

LEMMA SendingHandles ==
  ASSUME Typed, Sending, NEW e \in Events, NEW r \in Tries, Handles(<<e, r>>)
  PROVE  Sending'
<1>1. <<e, r>> \in Requests
  BY DEF Requests
<1>2. ASSUME NEW f \in Events, NEW q \in Tries, <<f, q>> # <<e, r>>
      PROVE  call'[<<f, q>>] = call[<<f, q>>]
  BY <1>1, <1>2 DEF Handles, Alone, Requests
<1>3. call[<<e, r>>].late \in BOOLEAN
  BY <1>1, CallType
<1>4. Waits(e, r)' <=> Waits(e, r)
  BY <1>3 DEF Handles, Waits
<1>5. ASSUME NEW f \in Events, NEW q \in Tries
      PROVE  Waits(f, q)' <=> Waits(f, q)
  BY <1>2, <1>4 DEF Waits
<1>6. call'[<<e, r>>].late => call[<<e, r>>].late /\ call'[<<e, r>>].at # "answer"
  BY <1>3 DEF Handles
<1>7. ASSUME NEW f \in Events, NEW q \in Tries, call'[<<f, q>>].late
      PROVE  f \in repeated /\ call'[<<f, q>>].at # "answer"
  BY <1>2, <1>6, <1>7 DEF Sending
<1>8. event' = event /\ repeated' = repeated
  BY DEF Handles
<1>. QED
  BY <1>5, <1>7, <1>8 DEF Sending

\* An event that nobody carries changes, or one that is carried no more.
LEMMA SendingQueues ==
  ASSUME Typed, Sending, NEW e \in Events, event[e] = "none",
         event' = [event EXCEPT ![e] = "queued"], UNCHANGED <<call, repeated>>
  PROVE  Sending'
<1>1. \A f \in Events : event'[f] = "sent" <=> event[f] = "sent"
  BY DEF Typed
<1>2. \A f \in Events, r \in Tries : Waits(f, r)' <=> Waits(f, r)
  BY DEF Waits
<1>. QED
  BY <1>1, <1>2 DEF Sending

LEMMA SendingAlone ==
  ASSUME Typed, Sending, NEW e \in Events, NEW r \in Tries, NEW at \in Where, Alone(<<e, r>>),
         event' = [event EXCEPT ![e] = at],
         \A q \in Tries : Waits(e, q) => q = r,
         at = "sent" <=> Waits(e, r)', repeated \subseteq repeated',
         call'[<<e, r>>].late => e \in repeated' /\ call'[<<e, r>>].at # "answer"
  PROVE  Sending'
<1>1. ASSUME NEW f \in Events, NEW q \in Tries, <<f, q>> # <<e, r>>
      PROVE  call'[<<f, q>>] = call[<<f, q>>]
  BY <1>1 DEF Alone, Requests
<1>2. ASSUME NEW f \in Events, NEW q \in Tries, <<f, q>> # <<e, r>>
      PROVE  Waits(f, q)' <=> Waits(f, q)
  BY <1>1, <1>2 DEF Waits
<1>3. \A f \in Events : event'[f] = IF f = e THEN at ELSE event[f]
  BY DEF Typed
<1>4. \A q \in Tries : Waits(e, q)' => q = r
  BY <1>2
<1>5. ASSUME NEW f \in Events
      PROVE  event'[f] = "sent" <=> \E q \in Tries : Waits(f, q)'
  <2>1. CASE f = e
    BY <1>3, <1>4, <2>1
  <2>2. CASE f # e
    BY <1>2, <1>3, <2>2 DEF Sending
  <2>. QED
    BY <2>1, <2>2
<1>6. ASSUME NEW f \in Events, NEW q \in Tries, NEW t \in Tries, Waits(f, q)', Waits(f, t)'
      PROVE  q = t
  <2>1. CASE f = e
    BY <1>4, <1>6, <2>1
  <2>2. CASE f # e
    BY <1>2, <1>6, <2>2 DEF Sending
  <2>. QED
    BY <2>1, <2>2
<1>7. ASSUME NEW f \in Events, NEW q \in Tries, call'[<<f, q>>].late
      PROVE  f \in repeated' /\ call'[<<f, q>>].at # "answer"
  <2>1. CASE <<f, q>> = <<e, r>>
    BY <1>7, <2>1
  <2>2. CASE <<f, q>> # <<e, r>>
    BY <1>1, <1>7, <2>2 DEF Sending
  <2>. QED
    BY <2>1, <2>2
<1>. QED
  BY <1>5, <1>6, <1>7 DEF Sending

LEMMA SendingDeliver ==
  ASSUME Typed, Sending, NEW e \in Events, NEW r \in Tries, Deliver(e, r)
  PROVE  Sending'
<1>1. /\ Alone(<<e, r>>) /\ call'[<<e, r>>].at = "find" /\ call'[<<e, r>>].late = FALSE
      /\ event[e] = "queued" /\ event' = [event EXCEPT ![e] = "sent"]
  BY DeliverType
<1>2. repeated' = repeated
  BY DEF Deliver
<1>3. \A q \in Tries : ~Waits(e, q)
  BY <1>1 DEF Sending
<1>4. Waits(e, r)'
  BY <1>1 DEF Waits
<1>5. "sent" \in Where
  BY DEF Where
<1>. QED
  BY <1>1, <1>2, <1>3, <1>4, <1>5, SendingAlone

LEMMA SendingTimeout ==
  ASSUME Typed, Sending, NEW e \in Events, NEW r \in Tries, Timeout(e, r)
  PROVE  Sending'
<1>1. PICK x \in Requests : x = <<e, r>>
  BY DEF Requests
<1>2. /\ Alone(x) /\ call[x].at # "idle" /\ call[x].late = FALSE
      /\ \/ call'[x].at = "idle" /\ call'[x].late = FALSE
         \/ call[x].at # "answer" /\ call'[x].late = TRUE /\ call'[x].at = call[x].at
      /\ event' = [event EXCEPT ![e] = "queued"] /\ repeated' = repeated \union {e}
  BY <1>1, TimeoutType
<1>3. Waits(e, r)
  BY <1>1, <1>2 DEF Waits
<1>4. \A q \in Tries : Waits(e, q) => q = r
  BY <1>3 DEF Sending
<1>5. ~Waits(e, r)'
  BY <1>1, <1>2 DEF Waits
<1>6. "queued" \in Where
  BY DEF Where
<1>7. call'[x].late => call'[x].at # "answer"
  BY <1>2
<1>. QED
  BY <1>1, <1>2, <1>4, <1>5, <1>6, <1>7, SendingAlone

LEMMA SendingAnswer ==
  ASSUME Typed, Sending, NEW e \in Events, NEW r \in Tries, Answer(e, r)
  PROVE  Sending'
<1>1. PICK x \in Requests : x = <<e, r>>
  BY DEF Requests
<1>2. PICK at \in {"done", "queued"} : at = IF call[x].ok THEN "done" ELSE "queued"
  OBVIOUS
<1>3. /\ Alone(x) /\ call[x].at = "answer" /\ call'[x].at = "idle" /\ call'[x].late = FALSE
      /\ event' = [event EXCEPT ![e] = at]
  BY <1>1, <1>2, AnswerType
<1>4. ~call[x].late
  BY <1>1, <1>3 DEF Sending
<1>5. Waits(e, r) /\ ~Waits(e, r)'
  BY <1>1, <1>3, <1>4 DEF Waits
<1>6. \A q \in Tries : Waits(e, q) => q = r
  BY <1>5 DEF Sending
<1>7. at \in Where /\ at # "sent"
  BY DEF Where
<1>8. repeated' = repeated
  BY DEF Answer
<1>. QED
  BY <1>1, <1>3, <1>5, <1>6, <1>7, <1>8, SendingAlone

LEMMA SendingStops ==
  ASSUME Typed, Sending, BackendStops
  PROVE  Sending'
<1>1. \A e \in Events, r \in Tries : ~Waits(e, r)' /\ ~call'[<<e, r>>].late
  BY StopsType DEF Requests, Waits
<1>2. \A e \in Events : event'[e] # "sent"
  BY StopsType
<1>3. \A e \in Events : event'[e] = "sent" <=> \E r \in Tries : Waits(e, r)'
  BY <1>1, <1>2
<1>. QED
  BY <1>1, <1>3 DEF Sending

LEMMA SendingSame ==
  ASSUME Sending, UNCHANGED <<call, event, repeated>>
  PROVE  Sending'
BY DEF Sending, Waits

-----------------------------------------------------------------------------
(* Once                                                                     *)

\* A request of an event that was delivered once has found nothing of it, until
\* it inserts it.
LEMMA NotHandled ==
  ASSUME Typed, Sending, NEW e \in Events, NEW r \in Tries,
         call[<<e, r>>].at \in {"find", "count", "write"}, e \notin repeated
  PROVE  ~Handled(e) /\ ~call[<<e, r>>].late
<1>1. ~call[<<e, r>>].late
  BY DEF Sending
<1>2. Waits(e, r)
  BY <1>1 DEF Waits
<1>3. event[e] = "sent"
  BY <1>2 DEF Sending
<1>4. ASSUME NEW q \in Tries, call[<<e, q>>].at = "answer"
      PROVE  FALSE
  <2>1. Waits(e, q)
    BY <1>4 DEF Sending, Waits
  <2>2. q = r
    BY <1>2, <2>1 DEF Sending
  <2>. QED
    BY <1>4, <2>2
<1>. QED
  BY <1>1, <1>3, <1>4 DEF Handled

\* One that Stripe does not wait for has no answer on its way.
LEMMA Unsent ==
  ASSUME Typed, Sending, NEW e \in Events, event[e] \in {"none", "queued"}
  PROVE  ~Handled(e)
<1>1. ASSUME NEW q \in Tries, call[<<e, q>>].at = "answer"
      PROVE  FALSE
  BY <1>1 DEF Sending, Waits
<1>. QED
  BY <1>1 DEF Handled

LEMMA OnceKept ==
  ASSUME Typed, Once, UNCHANGED <<invoices, subs>>, repeated \subseteq repeated',
         \A f \in Events : f \in repeated' \/ (Handled(f) => Handled(f)')
  PROVE  Once'
<1>1. \A i \in invoices : i.payment \in Events
  BY InvoiceType DEF Events
<1>2. BilledOnce'
  BY DEF Once, BilledOnce
<1>. QED
  BY <1>1, <1>2 DEF Once, Events

LEMMA HandledKept ==
  ASSUME Typed, NEW e \in Events, NEW r \in Tries, Handles(<<e, r>>), NEW f \in Events, Handled(f)
  PROVE  Handled(f)'
<1>1. ASSUME NEW q \in Tries, call[<<f, q>>].at = "answer"
      PROVE  call'[<<f, q>>] = call[<<f, q>>]
  <2>1. <<f, q>> # <<e, r>>
    BY <1>1 DEF Handles
  <2>. QED
    BY <2>1 DEF Handles, Alone, Requests
<1>2. event' = event
  BY DEF Handles
<1>. QED
  BY <1>1, <1>2 DEF Handled

LEMMA OnceHandles ==
  ASSUME Typed, Once, NEW e \in Events, NEW r \in Tries, Handles(<<e, r>>), UNCHANGED <<invoices, subs>>
  PROVE  Once'
<1>1. \A f \in Events : Handled(f) => Handled(f)'
  BY HandledKept
<1>2. repeated' = repeated
  BY DEF Handles
<1>. QED
  BY <1>1, <1>2, OnceKept

LEMMA OnceCheckout ==
  ASSUME Typed, Sending, Once, NEW c \in Checkouts, NEW r \in Tries, OnCheckoutCompleted(c, r)
  PROVE  Once'
<1>1. /\ Handles(<<c, r>>) /\ call[<<c, r>>].at = "find"
      /\ \/ subs' = subs
         \/ /\ subs' = [subs EXCEPT ![c] = @ + 1]
            /\ ~call[<<c, r>>].late => call'[<<c, r>>].at = "answer" /\ call'[<<c, r>>].ok
  BY CheckoutHandles
<1>2. c \in Events /\ invoices' = invoices /\ repeated' = repeated
  BY DEF Events, OnCheckoutCompleted
<1>3. CASE subs' = subs
  BY <1>1, <1>2, <1>3, OnceHandles
<1>4. CASE /\ subs' = [subs EXCEPT ![c] = @ + 1]
           /\ ~call[<<c, r>>].late => call'[<<c, r>>].at = "answer" /\ call'[<<c, r>>].ok
  <2>1. c \in repeated \/ (~Handled(c) /\ ~call[<<c, r>>].late)
    BY <1>1, <1>2, NotHandled
  <2>2. subs[c] \in Nat /\ (subs[c] > 0 => c \in repeated)
    BY <2>1 DEF Typed, Once
  <2>3. /\ \A b \in Checkouts \ {c} : subs'[b] = subs[b]
        /\ subs'[c] = subs[c] + 1
    BY <1>4 DEF Typed
  <2>4. subs'[c] > 1 => c \in repeated
    BY <2>2, <2>3
  <2>5. BilledOnce'
    BY <1>2, <2>3, <2>4 DEF Once, BilledOnce
  <2>6. c \in repeated \/ Handled(c)'
    BY <1>4, <2>1 DEF Handled
  <2>7. \A f \in Events : Handled(f) => Handled(f)'
    BY <1>1, <1>2, HandledKept
  <2>8. \A i \in invoices : i.payment \in repeated \/ Handled(i.payment)'
    <3>1. \A i \in invoices : i.payment \in Events
      BY InvoiceType DEF Events
    <3>. QED
      BY <2>7, <3>1 DEF Once
  <2>9. \A b \in Checkouts : subs'[b] > 0 => b \in repeated \/ Handled(b)'
    BY <2>3, <2>6, <2>7 DEF Once, Events
  <2>. QED
    BY <1>2, <2>5, <2>8, <2>9 DEF Once
<1>. QED
  BY <1>1, <1>3, <1>4

LEMMA OnceInvoice ==
  ASSUME Typed, Sending, Once, NEW p \in Payments, NEW r \in Tries, CreateInvoice(p, r)
  PROVE  Once'
<1>1. /\ Handles(<<p, r>>) /\ call[<<p, r>>].at = "write"
      /\ \/ invoices' = invoices
         \/ /\ invoices' = invoices \union {NewInvoice(p, r)}
            /\ ~call[<<p, r>>].late => call'[<<p, r>>].at = "answer" /\ call'[<<p, r>>].ok
  BY CreateHandles
<1>2. p \in Events /\ subs' = subs /\ repeated' = repeated
  BY DEF Events, CreateInvoice
<1>3. CASE invoices' = invoices
  BY <1>1, <1>2, <1>3, OnceHandles
<1>4. CASE /\ invoices' = invoices \union {NewInvoice(p, r)}
           /\ ~call[<<p, r>>].late => call'[<<p, r>>].at = "answer" /\ call'[<<p, r>>].ok
  <2>1. p \in repeated \/ (~Handled(p) /\ ~call[<<p, r>>].late)
    BY <1>1, <1>2, NotHandled
  <2>2. \A i \in invoices : i.payment = p => p \in repeated
    BY <2>1 DEF Once
  <2>3. PICK new : new = NewInvoice(p, r)
    OBVIOUS
  <2>4. new.payment = p /\ invoices' = invoices \union {new}
    BY <1>4, <2>3 DEF NewInvoice
  <2>5. BilledOnce'
    BY <1>2, <2>2, <2>4 DEF Once, BilledOnce
  <2>6. p \in repeated \/ Handled(p)'
    BY <1>4, <2>1 DEF Handled
  <2>7. \A f \in Events : Handled(f) => Handled(f)'
    BY <1>1, <1>2, HandledKept
  <2>8. \A i \in invoices' : i.payment \in repeated \/ Handled(i.payment)'
    <3>1. \A i \in invoices : i.payment \in Events
      BY InvoiceType DEF Events
    <3>. QED
      BY <2>4, <2>6, <2>7, <3>1 DEF Once
  <2>9. \A b \in Checkouts : subs'[b] > 0 => b \in repeated \/ Handled(b)'
    BY <1>2, <2>7 DEF Once, Events
  <2>. QED
    BY <1>2, <2>5, <2>8, <2>9 DEF Once
<1>. QED
  BY <1>1, <1>3, <1>4

\* What Stripe does: only the event that it is about changes.
LEMMA HandledOthers ==
  ASSUME Typed, NEW e \in Events, NEW r \in Tries, NEW at \in Where, Alone(<<e, r>>),
         event' = [event EXCEPT ![e] = at], NEW f \in Events \ {e}, Handled(f)
  PROVE  Handled(f)'
<1>1. \A q \in Tries : call'[<<f, q>>] = call[<<f, q>>]
  BY DEF Alone, Requests
<1>2. event'[f] = event[f]
  BY DEF Typed
<1>. QED
  BY <1>1, <1>2 DEF Handled

LEMMA OnceQueues ==
  ASSUME Typed, Sending, Once, NEW e \in Events, event[e] = "none",
         event' = [event EXCEPT ![e] = "queued"], UNCHANGED <<call, repeated, invoices, subs>>
  PROVE  Once'
<1>1. ~Handled(e)
  BY Unsent
<1>2. \A f \in Events \ {e} : Handled(f) => Handled(f)'
  BY DEF Handled, Typed
<1>. QED
  BY <1>1, <1>2, OnceKept

LEMMA OnceDeliver ==
  ASSUME Typed, Sending, Once, NEW e \in Events, NEW r \in Tries, Deliver(e, r)
  PROVE  Once'
<1>1. Alone(<<e, r>>) /\ event[e] = "queued" /\ event' = [event EXCEPT ![e] = "sent"]
  BY DeliverType
<1>2. ~Handled(e)
  BY <1>1, Unsent
<1>3. "sent" \in Where
  BY DEF Where
<1>4. \A f \in Events \ {e} : Handled(f) => Handled(f)'
  BY <1>1, <1>3, HandledOthers
<1>5. UNCHANGED <<invoices, subs>> /\ repeated' = repeated
  BY DEF Deliver
<1>. QED
  BY <1>2, <1>4, <1>5, OnceKept

LEMMA OnceTimeout ==
  ASSUME Typed, Sending, Once, NEW e \in Events, NEW r \in Tries, Timeout(e, r)
  PROVE  Once'
<1>1. /\ Alone(<<e, r>>) /\ event' = [event EXCEPT ![e] = "queued"] /\ repeated' = repeated \union {e}
  BY TimeoutType
<1>2. "queued" \in Where
  BY DEF Where
<1>3. \A f \in Events \ {e} : Handled(f) => Handled(f)'
  BY <1>1, <1>2, HandledOthers
<1>4. UNCHANGED <<invoices, subs>>
  BY DEF Timeout
<1>. QED
  BY <1>1, <1>3, <1>4, OnceKept

LEMMA OnceAnswer ==
  ASSUME Typed, Sending, Once, NEW e \in Events, NEW r \in Tries, Answer(e, r)
  PROVE  Once'
<1>1. PICK at \in {"done", "queued"} : at = IF call[<<e, r>>].ok THEN "done" ELSE "queued"
  OBVIOUS
<1>2. Alone(<<e, r>>) /\ call[<<e, r>>].at = "answer" /\ event' = [event EXCEPT ![e] = at]
  BY <1>1, AnswerType
<1>3. at \in Where
  BY DEF Where
<1>4. \A f \in Events \ {e} : Handled(f) => Handled(f)'
  BY <1>2, <1>3, HandledOthers
<1>5. event'[e] = at
  BY <1>2 DEF Typed
<1>6. Handled(e) => Handled(e)'
  <2>1. CASE call[<<e, r>>].ok
    BY <1>1, <1>5, <2>1 DEF Handled
  <2>2. CASE ~call[<<e, r>>].ok
    <3>1. Waits(e, r)
      BY <1>2 DEF Sending, Waits
    <3>2. ASSUME NEW q \in Tries, call[<<e, q>>].at = "answer", call[<<e, q>>].ok
          PROVE  FALSE
      <4>1. Waits(e, q)
        BY <3>2 DEF Sending, Waits
      <4>2. q = r
        BY <3>1, <4>1 DEF Sending
      <4>. QED
        BY <2>2, <3>2, <4>2
    <3>3. event[e] # "done"
      BY <3>1 DEF Sending
    <3>. QED
      BY <3>2, <3>3 DEF Handled
  <2>. QED
    BY <2>1, <2>2
<1>7. UNCHANGED <<invoices, subs>> /\ repeated' = repeated
  BY DEF Answer
<1>. QED
  BY <1>4, <1>6, <1>7, OnceKept

LEMMA OnceStops ==
  ASSUME Typed, Sending, Once, BackendStops
  PROVE  Once'
<1>1. ASSUME NEW f \in Events, Handled(f), f \notin repeated'
      PROVE  Handled(f)'
  <2>1. ASSUME NEW q \in Tries, call[<<f, q>>].at = "answer"
        PROVE  FALSE
    <3>1. Waits(f, q)
      BY <2>1 DEF Sending, Waits
    <3>2. event[f] = "sent"
      BY <3>1 DEF Sending
    <3>. QED
      BY <1>1, <2>1, <3>2, StopsType
  <2>2. event[f] = "done"
    BY <1>1, <2>1 DEF Handled
  <2>3. event'[f] = "done"
    BY <2>2, StopsType
  <2>. QED
    BY <2>3 DEF Handled
<1>2. repeated \subseteq repeated'
  BY StopsType
<1>3. UNCHANGED <<invoices, subs>>
  BY DEF BackendStops
<1>. QED
  BY <1>1, <1>2, <1>3, OnceKept

LEMMA OnceRefund ==
  ASSUME Typed, Once, NEW i \in invoices, Refund(i)
  PROVE  Once'
<1>1. PICK v : v = [i EXCEPT !.status = "VOID"]
  OBVIOUS
<1>2. invoices' = (invoices \ {i}) \union {v} /\ UNCHANGED <<event, call, subs, repeated>>
  BY <1>1 DEF Refund
<1>3. v.payment = i.payment
  BY <1>1, InvoiceType DEF Invoice
<1>4. BilledOnce'
  BY <1>2, <1>3 DEF Once, BilledOnce
<1>5. \A f : Handled(f)' <=> Handled(f)
  BY <1>2 DEF Handled
<1>. QED
  BY <1>2, <1>3, <1>4, <1>5 DEF Once

LEMMA OnceSame ==
  ASSUME Once, UNCHANGED <<invoices, subs, event, call, repeated>>
  PROVE  Once'
BY DEF Once, BilledOnce, Handled

-----------------------------------------------------------------------------
(* Rows                                                                     *)

LEMMA RowsKept ==
  ASSUME Typed, Rows,
         \A c \in Checkouts : subs[c] > 0 => subs'[c] > 0,
         \A c \in Checkouts : subs'[c] > 0 => BuyerOf[c] \in users',
         \A i \in invoices' : i.payment \in Payments /\ subs[CheckoutOf[i.payment]] > 0,
         \A p \in Payments, r \in Tries :
           call'[<<p, r>>].at \in {"count", "write"} =>
             call[<<p, r>>].at \in {"count", "write"} \/ subs[CheckoutOf[p]] > 0
  PROVE  Rows'
<1>1. \A p \in Payments : CheckoutOf[p] \in Checkouts
  BY CheckoutType
<1>. QED
  BY <1>1 DEF Rows

\* A step in which one request starts, ends or goes on, and no row disappears.
LEMMA RowsCalls ==
  ASSUME Typed, Rows, NEW e \in Events, NEW r \in Tries, Alone(<<e, r>>), UNCHANGED <<users, subs>>,
         \A i \in invoices' : i.payment \in Payments /\ subs[CheckoutOf[i.payment]] > 0,
         \/ call'[<<e, r>>].at \notin {"count", "write"}
         \/ call[<<e, r>>].at \in {"count", "write"}
         \/ e \in Payments /\ subs[CheckoutOf[e]] > 0
  PROVE  Rows'
<1>1. ASSUME NEW p \in Payments, NEW q \in Tries, call'[<<p, q>>].at \in {"count", "write"}
      PROVE  call[<<p, q>>].at \in {"count", "write"} \/ subs[CheckoutOf[p]] > 0
  <2>1. CASE <<p, q>> = <<e, r>>
    BY <1>1, <2>1
  <2>2. CASE <<p, q>> # <<e, r>>
    <3>1. call'[<<p, q>>] = call[<<p, q>>]
      BY <2>2 DEF Alone, Requests, Events
    <3>. QED
      BY <1>1, <3>1
  <2>. QED
    BY <2>1, <2>2
<1>. QED
  BY <1>1, RowsKept DEF Rows

LEMMA PaymentsKept ==
  ASSUME Typed, Rows
  PROVE  \A i \in invoices : i.payment \in Payments /\ subs[CheckoutOf[i.payment]] > 0
BY InvoiceType DEF Rows

LEMMA RowsCheckout ==
  ASSUME Typed, Rows, NEW c \in Checkouts, NEW r \in Tries, OnCheckoutCompleted(c, r)
  PROVE  Rows'
<1>1. PICK e \in Events : e = c
  BY DEF Events
<1>2. /\ Handles(<<e, r>>) /\ call'[<<e, r>>].at # "write" /\ call[<<e, r>>].at = "find"
      /\ subs' = subs \/ (subs' = [subs EXCEPT ![c] = @ + 1] /\ BuyerOf[c] \in users)
  BY <1>1, CheckoutHandles
<1>3. users' = users /\ invoices' = invoices
  BY DEF OnCheckoutCompleted
<1>4. ASSUME NEW p \in Payments, NEW q \in Tries
      PROVE  call'[<<p, q>>] = call[<<p, q>>]
  <2>1. <<p, q>> # <<e, r>>
    BY <1>1, BillingAssumption
  <2>. QED
    BY <1>2, <2>1 DEF Handles, Alone, Requests, Events
<1>5. \A b \in Checkouts : subs[b] \in Nat /\ (subs'[b] = subs[b] \/ (subs'[b] = subs[b] + 1 /\ BuyerOf[b] \in users))
  BY <1>2 DEF Typed
<1>6. \A b \in Checkouts : subs[b] > 0 => subs'[b] > 0
  BY <1>5
<1>7. \A b \in Checkouts : subs'[b] > 0 => BuyerOf[b] \in users'
  BY <1>3, <1>5 DEF Rows
<1>. QED
  BY <1>3, <1>4, <1>6, <1>7, PaymentsKept, RowsKept

LEMMA RowsInvoice ==
  ASSUME Typed, Rows, NEW p \in Payments, NEW r \in Tries, CreateInvoice(p, r)
  PROVE  Rows'
<1>1. PICK e \in Events : e = p
  BY DEF Events
<1>2. /\ Handles(<<e, r>>) /\ call'[<<e, r>>].at # "write" /\ call[<<e, r>>].at = "write"
      /\ invoices' = invoices \/ invoices' = invoices \union {NewInvoice(p, r)}
  BY <1>1, CreateHandles
<1>3. UNCHANGED <<users, subs>>
  BY DEF CreateInvoice
<1>4. subs[CheckoutOf[p]] > 0
  BY <1>1, <1>2 DEF Rows
<1>5. NewInvoice(p, r).payment = p
  BY DEF NewInvoice
<1>6. \A i \in invoices' : i.payment \in Payments /\ subs[CheckoutOf[i.payment]] > 0
  BY <1>2, <1>4, <1>5, PaymentsKept
<1>. QED
  BY <1>2, <1>3, <1>6, RowsCalls DEF Handles

LEMMA RowsRefund ==
  ASSUME Typed, Rows, NEW i \in invoices, Refund(i)
  PROVE  Rows'
<1>1. PICK v : v = [i EXCEPT !.status = "VOID"]
  OBVIOUS
<1>2. invoices' = (invoices \ {i}) \union {v} /\ UNCHANGED <<users, call, subs>>
  BY <1>1 DEF Refund
<1>3. v.payment = i.payment
  BY <1>1, InvoiceType DEF Invoice
<1>4. \A j \in invoices' : j.payment \in Payments /\ subs[CheckoutOf[j.payment]] > 0
  BY <1>2, <1>3, PaymentsKept
<1>. QED
  BY <1>2, <1>4, RowsKept DEF Rows

LEMMA RowsDelete ==
  ASSUME Typed, Rows, NEW u \in Users, DeleteUser(u)
  PROVE  Rows'
<1>1. SubscriptionsOf(u) = {} /\ users' = users \ {u} /\ UNCHANGED <<subs, invoices, call>>
  BY DEF DeleteUser
<1>2. \A c \in Checkouts : subs[c] > 0 => BuyerOf[c] # u
  BY <1>1 DEF SubscriptionsOf
<1>3. \A c \in Checkouts : subs'[c] > 0 => BuyerOf[c] \in users'
  BY <1>1, <1>2 DEF Rows
<1>. QED
  BY <1>1, <1>3, PaymentsKept, RowsKept

-----------------------------------------------------------------------------
(* Counting                                                                 *)

LEMMA CountingKept ==
  ASSUME Counting, UNCHANGED <<invoices, year, straddled>>,
         \A x \in Requests : Counted(x)' => Counted(x) /\ call'[x].number = call[x].number
  PROVE  Counting'
BY DEF Counting, Counted

LEMMA CountingAlone ==
  ASSUME Counting, UNCHANGED <<invoices, year, straddled>>, NEW x \in Requests, Alone(x),
         call'[x].at = "write" => call[x].at = "write" /\ call'[x].number = call[x].number
  PROVE  Counting'
<1>1. \A y \in Requests : Counted(y)' => Counted(y) /\ call'[y].number = call[y].number
  BY DEF Counted, Alone
<1>. QED
  BY <1>1, CountingKept

LEMMA CountingNumber ==
  ASSUME Typed, Counting, NEW p \in Payments, NEW r \in Tries, CreateInvoiceNumber(p, r)
  PROVE  Counting'
<1>1. PICK x \in Requests : x = <<p, r>>
  BY DEF Requests, Events
<1>2. PICK number : number = [year |-> year, n |-> Cardinality(invoices) + 1]
  OBVIOUS
<1>3. /\ Alone(x) /\ call'[x].number = number /\ UNCHANGED <<invoices, year, straddled>>
  BY <1>1, <1>2, CountHandles DEF CreateInvoiceNumber, Handles
<1>4. number.year = year /\ number.n = Cardinality(invoices) + 1 /\ Cardinality(invoices) \in Nat
  BY <1>2, FS_CardinalityType DEF Typed
<1>5. CASE straddled
  BY <1>3, <1>5 DEF Counting
<1>6. CASE ~straddled
  <2>1. /\ {i.number.n : i \in invoices} = 1 .. Cardinality(invoices)
        /\ \A i, j \in invoices : i.number.n = j.number.n => i = j
    BY <1>6 DEF Counting
  <2>2. \A i \in invoices : i.number.n # number.n
    <3>1. \A i \in invoices : i.number.n \in 1 .. Cardinality(invoices)
      BY <2>1
    <3>. QED
      BY <1>4, <3>1
  <2>3. number.n \in 1 .. Cardinality(invoices) + 1
    BY <1>4
  <2>4. ASSUME NEW y \in Requests, Counted(y)'
        PROVE  /\ call'[y].number.year = year /\ call'[y].number.n \in 1 .. Cardinality(invoices) + 1
               /\ \A i \in invoices : i.number.n = call'[y].number.n => i.number = call'[y].number
    <3>1. CASE y = x
      BY <1>3, <1>4, <2>2, <2>3, <3>1
    <3>2. CASE y # x
      <4>1. call'[y] = call[y]
        BY <1>3, <3>2 DEF Alone
      <4>. QED
        BY <1>6, <2>4, <4>1 DEF Counting, Counted
    <3>. QED
      BY <3>1, <3>2
  <2>5. straddled => year = 1
    BY <1>6
  <2>. QED
    BY <1>3, <2>1, <2>4, <2>5 DEF Counting
<1>. QED
  BY <1>5, <1>6

LEMMA CountingInvoice ==
  ASSUME Typed, Counting, NEW p \in Payments, NEW r \in Tries, CreateInvoice(p, r)
  PROVE  Counting'
<1>1. PICK x \in Requests : x = <<p, r>>
  BY DEF Requests, Events
<1>2. PICK new : new = NewInvoice(p, r)
  OBVIOUS
<1>3. /\ Alone(x) /\ call'[x].at # "write" /\ call[x].at = "write"
      /\ \/ invoices' = invoices
         \/ invoices' = invoices \union {new} /\ \A i \in invoices : i.number # call[x].number
  BY <1>1, <1>2, CreateHandles DEF Handles
<1>4. UNCHANGED <<year, straddled>>
  BY DEF CreateInvoice
<1>5. CASE straddled
  BY <1>4, <1>5 DEF Counting
<1>6. CASE invoices' = invoices
  BY <1>3, <1>4, <1>6, CountingAlone
<1>7. CASE ~straddled /\ invoices' = invoices \union {new} /\ \A i \in invoices : i.number # call[x].number
  <2>1. PICK n \in Nat : n = Cardinality(invoices)
    BY FS_CardinalityType DEF Typed
  <2>2. /\ {i.number.n : i \in invoices} = 1 .. n
        /\ \A i, j \in invoices : i.number.n = j.number.n => i = j
    BY <1>7, <2>1 DEF Counting
  <2>3. /\ call[x].number.year = year /\ call[x].number.n \in 1 .. n + 1
        /\ \A i \in invoices : i.number.n # call[x].number.n
    BY <1>3, <1>7, <2>1 DEF Counting, Counted
  <2>4. call[x].number.n = n + 1
    <3>1. call[x].number.n \notin 1 .. n
      BY <2>2, <2>3
    <3>. QED
      BY <2>3, <3>1
  <2>5. new.number = call[x].number
    BY <1>1, <1>2 DEF NewInvoice
  <2>6. new.number.n = n + 1 /\ new.number.year = year
    BY <2>3, <2>4, <2>5
  <2>7. new \notin invoices
    BY <2>3, <2>5
  <2>8. Cardinality(invoices') = n + 1
    BY <1>7, <2>1, <2>7, FS_AddElement DEF Typed
  <2>9. {i.number.n : i \in invoices'} = 1 .. n + 1
    <3>1. {i.number.n : i \in invoices'} = {i.number.n : i \in invoices} \union {new.number.n}
      BY <1>7
    <3>2. 1 .. n + 1 = (1 .. n) \union {n + 1}
      BY <2>1
    <3>. QED
      BY <2>2, <2>6, <3>1, <3>2
  <2>10. \A i, j \in invoices' : i.number.n = j.number.n => i = j
    BY <1>7, <2>2, <2>3, <2>5
  <2>11. ASSUME NEW y \in Requests, Counted(y)'
         PROVE  /\ call'[y].number.year = year /\ call'[y].number.n \in 1 .. n + 2
                /\ \A i \in invoices' : i.number.n = call'[y].number.n => i.number = call'[y].number
    <3>1. y # x
      BY <1>3, <2>11 DEF Counted
    <3>2. call'[y] = call[y] /\ Counted(y)
      BY <1>3, <2>11, <3>1 DEF Alone, Counted
    <3>3. /\ call[y].number.year = year /\ call[y].number.n \in 1 .. n + 1
          /\ \A i \in invoices : i.number.n = call[y].number.n => i.number = call[y].number
      BY <1>7, <2>1, <3>2 DEF Counting
    <3>4. new.number.n = call[y].number.n => new.number = call[y].number
      <4>1. new.number \in Numbers /\ call[y].number \in Numbers
        BY <1>1, <2>5, CallType
      <4>. QED
        BY <2>6, <3>3, <4>1 DEF Numbers
    <3>5. call[y].number.n \in 1 .. n + 2
      BY <2>1, <3>3
    <3>. QED
      BY <1>7, <3>2, <3>3, <3>4, <3>5
  <2>12. n + 2 = (n + 1) + 1
    BY <2>1
  <2>. QED
    BY <1>4, <1>7, <2>8, <2>9, <2>10, <2>11, <2>12 DEF Counting
<1>. QED
  BY <1>3, <1>5, <1>6, <1>7

LEMMA CountingRefund ==
  ASSUME Typed, Counting, NEW i \in invoices, Refund(i)
  PROVE  Counting'
<1>1. PICK v : v = [i EXCEPT !.status = "VOID"]
  OBVIOUS
<1>2. invoices' = (invoices \ {i}) \union {v} /\ UNCHANGED <<call, year, straddled>>
  BY <1>1 DEF Refund
<1>3. v.number = i.number
  BY <1>1, InvoiceType DEF Invoice
<1>4. CASE straddled
  BY <1>2, <1>4 DEF Counting
<1>5. CASE ~straddled
  <2>1. \A j, l \in invoices : j.number.n = l.number.n => j = l
    BY <1>5 DEF Counting
  <2>2. v \notin invoices \ {i}
    BY <1>3, <2>1
  <2>3. Cardinality(invoices') = Cardinality(invoices)
    <3>1. IsFiniteSet(invoices \ {i}) /\ Cardinality(invoices \ {i}) = Cardinality(invoices) - 1
      BY FS_RemoveElement DEF Typed
    <3>2. Cardinality(invoices') = Cardinality(invoices \ {i}) + 1
      BY <1>2, <2>2, <3>1, FS_AddElement
    <3>3. Cardinality(invoices) \in Nat
      BY FS_CardinalityType DEF Typed
    <3>. QED
      BY <3>1, <3>2, <3>3
  <2>4. {j.number.n : j \in invoices'} = {j.number.n : j \in invoices}
    BY <1>2, <1>3
  <2>5. \A j, l \in invoices' : j.number.n = l.number.n => j = l
    BY <1>2, <1>3, <2>1
  <2>6. ASSUME NEW j \in invoices'
        PROVE  \E l \in invoices : l.number = j.number
    BY <1>2, <1>3
  <2>7. ASSUME NEW y \in Requests, Counted(y)'
        PROVE  /\ call'[y].number.year = year' /\ call'[y].number.n \in 1 .. Cardinality(invoices') + 1
               /\ \A j \in invoices' : j.number.n = call'[y].number.n => j.number = call'[y].number
    <3>1. /\ call[y].number.year = year /\ call[y].number.n \in 1 .. Cardinality(invoices) + 1
          /\ \A l \in invoices : l.number.n = call[y].number.n => l.number = call[y].number
      BY <1>2, <1>5, <2>7 DEF Counting, Counted
    <3>2. call'[y] = call[y]
      BY <1>2
    <3>3. ASSUME NEW j \in invoices', j.number.n = call[y].number.n
          PROVE  j.number = call[y].number
      BY <2>6, <3>1, <3>3
    <3>. QED
      BY <1>2, <2>3, <3>1, <3>2, <3>3
  <2>. QED
    BY <1>2, <1>5, <2>3, <2>4, <2>5, <2>7 DEF Counting
<1>. QED
  BY <1>4, <1>5

LEMMA CountingYear ==
  ASSUME Typed, Counting, NewYear
  PROVE  Counting'
<1>1. /\ year = 0 /\ year' = 1 /\ UNCHANGED <<call, invoices>>
      /\ straddled' = \E x \in Requests : Counted(x)
  BY DEF NewYear, Requests, Counted
<1>2. ~straddled
  BY <1>1 DEF Counting
<1>. QED
  BY <1>1, <1>2 DEF Counting, Counted

-----------------------------------------------------------------------------
(* The invariant                                                            *)

LEMMA InitInv == Init => Inv
<1>. SUFFICES ASSUME Init
              PROVE  Inv
  OBVIOUS
<1>1. /\ event = [e \in Events |-> "none"] /\ call = [x \in Requests |-> NoCall]
      /\ subs = [c \in Checkouts |-> 0] /\ invoices = {} /\ repeated = {}
      /\ users = Users /\ plans = {} /\ year = 0 /\ straddled = FALSE
  BY DEF Init, Requests
<1>2. IsFiniteSet(invoices) /\ Cardinality(invoices) = 0
  BY <1>1, FS_EmptySet
<1>3. Typed
  <2>1. call \in [Requests -> Call]
    BY <1>1, NoCallType
  <2>2. event \in [Events -> Where] /\ subs \in [Checkouts -> Nat]
    BY <1>1 DEF Where
  <2>3. year \in 0 .. 1
    BY <1>1
  <2>. QED
    BY <1>1, <1>2, <2>1, <2>2, <2>3 DEF Typed
<1>4. \A e \in Events, r \in Tries : call[<<e, r>>] = NoCall
  BY <1>1 DEF Requests
<1>5. \A p \in Payments, r \in Tries : call[<<p, r>>] = NoCall
  BY <1>4 DEF Events
<1>6. Rows
  BY <1>1, <1>5, NoCallType DEF Rows
<1>7. Sending
  BY <1>1, <1>4, NoCallType DEF Sending, Waits
<1>8. Once
  BY <1>1 DEF Once, BilledOnce
<1>9. \A x \in Requests : ~Counted(x)
  BY <1>1, NoCallType DEF Counted
<1>10. {i.number.n : i \in invoices} = 1 .. Cardinality(invoices)
  BY <1>1, <1>2
<1>11. Counting
  BY <1>1, <1>9, <1>10 DEF Counting
<1>. QED
  BY <1>3, <1>6, <1>7, <1>8, <1>11 DEF Inv

\* A step that changes neither the invoices nor the requests.
LEMMA InvQuiet ==
  ASSUME Inv, Typed', Rows', Sending', Once', UNCHANGED <<call, invoices, year, straddled>>
  PROVE  Inv'
BY CountingKept DEF Inv, Counted

LEMMA CreatePlanInv ==
  ASSUME Inv, NEW p \in Plans, CreatePlan(p)
  PROVE  Inv'
<1>1. /\ UNCHANGED <<users, event, call, subs, invoices, year, straddled, repeated>>
      /\ plans' \subseteq Plans
  BY DEF CreatePlan, Inv, Typed
<1>2. Typed'
  BY <1>1 DEF Inv, Typed
<1>3. Rows'
  BY <1>1 DEF Inv, Rows
<1>4. Sending' /\ Once'
  BY <1>1, SendingSame, OnceSame DEF Inv
<1>. QED
  BY <1>1, <1>2, <1>3, <1>4, InvQuiet

\* A checkout begins, or a period is paid.
LEMMA QueuesInv ==
  ASSUME Inv, NEW e \in Events, event[e] = "none", event' = [event EXCEPT ![e] = "queued"],
         UNCHANGED <<users, plans, call, subs, invoices, year, straddled, repeated>>
  PROVE  Inv'
<1>1. Typed'
  BY DEF Inv, Typed, Where
<1>2. Rows'
  BY DEF Inv, Rows
<1>3. Sending' /\ Once'
  BY SendingQueues, OnceQueues DEF Inv
<1>. QED
  BY <1>1, <1>2, <1>3, InvQuiet

LEMMA RefundInv ==
  ASSUME Inv, NEW i \in invoices, Refund(i)
  PROVE  Inv'
<1>1. PICK v : v = [i EXCEPT !.status = "VOID"]
  OBVIOUS
<1>2. /\ invoices' = (invoices \ {i}) \union {v}
      /\ UNCHANGED <<users, plans, event, call, subs, year, straddled, repeated>>
  BY <1>1 DEF Refund
<1>3. v \in Invoice
  BY <1>1 DEF Inv, Typed, Invoice
<1>4. IsFiniteSet(invoices')
  BY <1>2, FS_RemoveElement, FS_AddElement DEF Inv, Typed
<1>5. Typed'
  BY <1>2, <1>3, <1>4 DEF Inv, Typed
<1>6. Sending'
  BY <1>2, SendingSame DEF Inv
<1>. QED
  BY <1>5, <1>6, RowsRefund, OnceRefund, CountingRefund DEF Inv

LEMMA DeleteUserInv ==
  ASSUME Inv, NEW u \in Users, DeleteUser(u)
  PROVE  Inv'
<1>1. /\ UNCHANGED <<plans, event, call, subs, invoices, year, straddled, repeated>>
      /\ users' \subseteq users
  BY DEF DeleteUser
<1>2. Typed'
  BY <1>1 DEF Inv, Typed
<1>3. Sending' /\ Once'
  BY <1>1, SendingSame, OnceSame DEF Inv
<1>. QED
  BY <1>1, <1>2, <1>3, RowsDelete, InvQuiet DEF Inv

LEMMA SameInv ==
  ASSUME Inv, UNCHANGED <<users, plans, event, call, subs, invoices, year, straddled, repeated>>
  PROVE  Inv'
<1>1. Typed' /\ Rows'
  BY DEF Inv, Typed, Rows
<1>2. Sending' /\ Once'
  BY SendingSame, OnceSame DEF Inv
<1>. QED
  BY <1>1, <1>2, InvQuiet

LEMMA NewYearInv ==
  ASSUME Inv, NewYear
  PROVE  Inv'
<1>1. /\ UNCHANGED <<users, plans, event, call, subs, invoices, repeated>>
      /\ year' \in 0 .. 1 /\ straddled' \in BOOLEAN
  BY DEF NewYear
<1>2. Typed' /\ Rows'
  BY <1>1 DEF Inv, Typed, Rows
<1>3. Sending' /\ Once'
  BY <1>1, SendingSame, OnceSame DEF Inv
<1>. QED
  BY <1>2, <1>3, CountingYear DEF Inv

\* A step that changes requests and what Stripe knows of them, but no row.
LEMMA CallsInv ==
  ASSUME Inv, NEW e \in Events, NEW r \in Tries, Alone(<<e, r>>),
         UNCHANGED <<users, plans, subs, invoices, year, straddled>>,
         event' \in [Events -> Where], repeated' \subseteq Events, Sending', Once',
         \/ call'[<<e, r>>].at \notin {"count", "write"}
         \/ call[<<e, r>>].at \in {"count", "write"}
         \/ e \in Payments /\ subs[CheckoutOf[e]] > 0,
         call'[<<e, r>>].at = "write" =>
           call[<<e, r>>].at = "write" /\ call'[<<e, r>>].number = call[<<e, r>>].number
  PROVE  Inv'
<1>1. PICK x \in Requests : x = <<e, r>>
  BY DEF Requests
<1>2. Typed'
  BY <1>1 DEF Inv, Typed, Alone
<1>3. Rows'
  BY PaymentsKept, RowsCalls DEF Inv
<1>4. Counting'
  BY <1>1, CountingAlone DEF Inv
<1>. QED
  BY <1>2, <1>3, <1>4 DEF Inv

LEMMA DeliverInv ==
  ASSUME Inv, NEW e \in Events, NEW r \in Tries, Deliver(e, r)
  PROVE  Inv'
<1>1. UNCHANGED <<users, plans, subs, invoices, year, straddled, repeated>>
  BY DEF Deliver
<1>2. event' \in [Events -> Where] /\ repeated' \subseteq Events
  BY <1>1, DeliverType DEF Inv, Typed, Where
<1>3. Sending' /\ Once'
  BY SendingDeliver, OnceDeliver DEF Inv
<1>. QED
  BY <1>1, <1>2, <1>3, DeliverType, CallsInv DEF Inv

LEMMA TimeoutInv ==
  ASSUME Inv, NEW e \in Events, NEW r \in Tries, Timeout(e, r)
  PROVE  Inv'
<1>1. UNCHANGED <<users, plans, subs, invoices, year, straddled>>
  BY DEF Timeout
<1>2. event' \in [Events -> Where] /\ repeated' \subseteq Events
  BY TimeoutType DEF Inv, Typed, Where
<1>3. Sending' /\ Once'
  BY SendingTimeout, OnceTimeout DEF Inv
<1>4. /\ Alone(<<e, r>>)
      /\ \/ call'[<<e, r>>].at = "idle"
         \/ /\ call'[<<e, r>>].at = call[<<e, r>>].at
            /\ call'[<<e, r>>].number = call[<<e, r>>].number
  BY TimeoutType DEF Inv
<1>. QED
  BY <1>1, <1>2, <1>3, <1>4, CallsInv

LEMMA AnswerInv ==
  ASSUME Inv, NEW e \in Events, NEW r \in Tries, Answer(e, r)
  PROVE  Inv'
<1>1. UNCHANGED <<users, plans, subs, invoices, year, straddled, repeated>>
  BY DEF Answer
<1>2. event' \in [Events -> Where] /\ repeated' \subseteq Events
  BY <1>1, AnswerType DEF Inv, Typed, Where
<1>3. Sending' /\ Once'
  BY SendingAnswer, OnceAnswer DEF Inv
<1>. QED
  BY <1>1, <1>2, <1>3, AnswerType, CallsInv DEF Inv

LEMMA StopsInv ==
  ASSUME Inv, BackendStops
  PROVE  Inv'
<1>1. UNCHANGED <<users, plans, subs, invoices, year, straddled>>
  BY DEF BackendStops
<1>2. /\ call' \in [Requests -> Call] /\ \A x \in Requests : call'[x].at = "idle"
      /\ event' \in [Events -> Where] /\ repeated' \subseteq Events
  BY StopsType DEF Inv
<1>3. Typed'
  BY <1>1, <1>2 DEF Inv, Typed
<1>4. \A p \in Payments, r \in Tries : call'[<<p, r>>].at = "idle"
  BY <1>2 DEF Requests, Events
<1>5. Rows'
  BY <1>1, <1>4 DEF Inv, Rows
<1>6. \A x \in Requests : ~Counted(x)'
  BY <1>2 DEF Counted
<1>7. Counting'
  BY <1>1, <1>6, CountingKept DEF Inv
<1>. QED
  BY <1>3, <1>5, <1>7, SendingStops, OnceStops DEF Inv

\* A step of a handler that writes no row.
LEMMA HandlesInv ==
  ASSUME Inv, NEW e \in Events, NEW r \in Tries, Handles(<<e, r>>),
         UNCHANGED <<users, plans, subs, invoices, year, straddled>>,
         call'[<<e, r>>].at # "write",
         call'[<<e, r>>].at = "count" => e \in Payments /\ subs[CheckoutOf[e]] > 0
  PROVE  Inv'
<1>1. Alone(<<e, r>>) /\ UNCHANGED <<event, repeated>>
  BY DEF Handles
<1>2. event' \in [Events -> Where] /\ repeated' \subseteq Events
  BY <1>1 DEF Inv, Typed
<1>3. Sending' /\ Once'
  BY SendingHandles, OnceHandles DEF Inv
<1>. QED
  BY <1>1, <1>2, <1>3, CallsInv

LEMMA RefusedInv ==
  ASSUME Inv, NEW e \in Events, NEW r \in Tries, Refused(<<e, r>>)
  PROVE  Inv'
<1>1. PICK x \in Requests : x = <<e, r>>
  BY DEF Requests
<1>2. call[x].at = "find" /\ UNCHANGED <<users, plans, subs, invoices, year, straddled>>
  BY <1>1 DEF Refused
<1>3. Handles(x) /\ call'[x].at \in {"idle", "answer"}
  BY <1>1, EndType, RefusedHandles DEF Inv, Refused
<1>. QED
  BY <1>1, <1>2, <1>3, HandlesInv

LEMMA FindInv ==
  ASSUME Inv, NEW p \in Payments, NEW r \in Tries, FindSubscription(p, r)
  PROVE  Inv'
<1>1. /\ Handles(<<p, r>>) /\ call'[<<p, r>>].at # "write"
      /\ call'[<<p, r>>].at = "count" => subs[CheckoutOf[p]] > 0
  BY FindHandles DEF Inv
<1>2. UNCHANGED <<users, plans, subs, invoices, year, straddled>>
  BY DEF FindSubscription
<1>. QED
  BY <1>1, <1>2, HandlesInv DEF Events

LEMMA NumberInv ==
  ASSUME Inv, NEW p \in Payments, NEW r \in Tries, CreateInvoiceNumber(p, r)
  PROVE  Inv'
<1>1. /\ Handles(<<p, r>>) /\ call[<<p, r>>].at = "count"
      /\ UNCHANGED <<users, plans, event, subs, invoices, year, straddled, repeated>>
  BY CountHandles DEF Inv, CreateInvoiceNumber
<1>2. Alone(<<p, r>>) /\ p \in Events
  BY <1>1 DEF Handles, Events
<1>3. Typed'
  BY <1>1, <1>2 DEF Inv, Typed, Alone
<1>4. Rows'
  BY <1>1, <1>2, PaymentsKept, RowsCalls DEF Inv
<1>5. Sending' /\ Once'
  BY <1>1, <1>2, SendingHandles, OnceHandles DEF Inv
<1>. QED
  BY <1>3, <1>4, <1>5, CountingNumber DEF Inv

LEMMA CheckoutCompletedInv ==
  ASSUME Inv, NEW c \in Checkouts, NEW r \in Tries, OnCheckoutCompleted(c, r)
  PROVE  Inv'
<1>1. PICK x \in Requests : x = <<c, r>>
  BY DEF Requests, Events
<1>2. /\ Handles(x) /\ call'[x].at # "write"
      /\ subs' = subs \/ subs' = [subs EXCEPT ![c] = @ + 1]
  BY <1>1, CheckoutHandles DEF Inv
<1>3. UNCHANGED <<users, plans, event, invoices, year, straddled, repeated>>
  BY DEF OnCheckoutCompleted
<1>4. Alone(x)
  BY <1>2 DEF Handles
<1>5. subs' \in [Checkouts -> Nat]
  BY <1>2 DEF Inv, Typed
<1>6. Typed'
  BY <1>3, <1>4, <1>5 DEF Inv, Typed, Alone
<1>7. Sending'
  BY <1>1, <1>2, SendingHandles DEF Inv, Events
<1>8. Counting'
  BY <1>2, <1>3, <1>4, CountingAlone DEF Inv
<1>. QED
  BY <1>6, <1>7, <1>8, RowsCheckout, OnceCheckout DEF Inv

LEMMA CreateInvoiceInv ==
  ASSUME Inv, NEW p \in Payments, NEW r \in Tries, CreateInvoice(p, r)
  PROVE  Inv'
<1>1. PICK x \in Requests : x = <<p, r>>
  BY DEF Requests, Events
<1>2. PICK new : new = NewInvoice(p, r)
  OBVIOUS
<1>3. invoices' = invoices \/ invoices' = invoices \union {new}
  BY <1>1, <1>2, CreateHandles DEF Inv
<1>4. Handles(x)
  BY <1>1, CreateHandles DEF Inv
<1>5. UNCHANGED <<users, plans, event, subs, year, straddled, repeated>>
  BY DEF CreateInvoice
<1>6. new \in Invoice
  BY <1>1, <1>2, CallType DEF Inv, NewInvoice, Invoice
<1>7. invoices' \subseteq Invoice /\ IsFiniteSet(invoices')
  BY <1>3, <1>6, FS_AddElement DEF Inv, Typed
<1>8. Typed'
  BY <1>4, <1>5, <1>7 DEF Inv, Typed, Handles, Alone
<1>9. Sending'
  BY <1>1, <1>4, SendingHandles DEF Inv, Events
<1>. QED
  BY <1>8, <1>9, RowsInvoice, OnceInvoice, CountingInvoice DEF Inv

LEMMA NextInv == Inv /\ [Next]_vars => Inv'
<1>. SUFFICES ASSUME Inv, [Next]_vars
              PROVE  Inv'
  OBVIOUS
<1>1. CASE BillingController
  <2>1. ASSUME NEW c \in Checkouts, Checkout(c)
        PROVE  Inv'
    <3>1. /\ event[c] = "none" /\ event' = [event EXCEPT ![c] = "queued"]
          /\ UNCHANGED <<users, plans, call, subs, invoices, year, straddled, repeated>>
      BY <2>1 DEF Checkout
    <3>. QED
      BY <3>1, QueuesInv DEF Events
  <2>. QED
    BY <1>1, <2>1, CreatePlanInv, RefundInv, DeleteUserInv DEF BillingController
<1>2. CASE Configure
  <2>1. UNCHANGED <<users, plans, event, call, subs, invoices, year, straddled, repeated>>
    BY <1>2 DEF Configure
  <2>. QED
    BY <2>1, SameInv
<1>3. CASE Stripe
  <2>1. ASSUME NEW p \in Payments, Pay(p)
        PROVE  Inv'
    <3>1. /\ event[p] = "none" /\ event' = [event EXCEPT ![p] = "queued"]
          /\ UNCHANGED <<users, plans, call, subs, invoices, year, straddled, repeated>>
      BY <2>1 DEF Pay
    <3>. QED
      BY <3>1, QueuesInv DEF Events
  <2>. QED
    BY <1>3, <2>1, DeliverInv, TimeoutInv DEF Stripe
<1>4. ASSUME NEW e \in Events, NEW r \in Tries, HandleWebhook(e, r)
      PROVE  Inv'
  BY <1>4, RefusedInv, CheckoutCompletedInv, FindInv, NumberInv, CreateInvoiceInv, AnswerInv DEF HandleWebhook
<1>5. CASE UNCHANGED vars
  <2>1. UNCHANGED <<users, plans, event, call, subs, invoices, year, straddled, repeated>>
    BY <1>5 DEF vars
  <2>. QED
    BY <2>1, SameInv
<1>. QED
  BY <1>1, <1>2, <1>3, <1>4, <1>5, StopsInv, NewYearInv DEF Next

LEMMA SpecInv == Spec => []Inv
BY InitInv, NextInv, PTL DEF Spec

-----------------------------------------------------------------------------
(* The theorems                                                             *)

\* Every subscription has its user and every invoice its subscription, Stripe waits for
\* one request of an event at most, and the numbers that createInvoiceNumber counts
\* and onInvoicePaid inserts run 1, 2, 3: two payments handled at once may count the
\* same number, and the unique column lets one of them have it.
THEOREM BillingCorrect == Spec => []BillingInv
<1>1. Inv => BillingInv
  <2>. SUFFICES ASSUME Inv
                PROVE  BillingInv
    OBVIOUS
  <2>1. \A i \in invoices : i \in Invoice /\ subs[CheckoutOf[i.payment]] > 0
    BY DEF Inv, Typed, Rows
  <2>2. \A c \in Checkouts : subs[c] > 0 => BuyerOf[c] \in users
    BY DEF Inv, Rows
  <2>3. \A e \in Events : event[e] = "sent" <=> \E r \in Tries : call[<<e, r>>].at # "idle" /\ ~call[<<e, r>>].late
    BY DEF Inv, Sending, Waits
  <2>4. /\ users \subseteq Users /\ plans \subseteq Plans
        /\ event \in [Events -> {"none", "queued", "sent", "done"}]
        /\ call \in [Events \X Tries -> Call]
    BY DEF Inv, Typed, Where, Requests
  <2>5. TypeOK
    BY <2>1, <2>2, <2>3, <2>4 DEF TypeOK
  <2>6. NumbersRun
    BY DEF Inv, Counting, NumbersRun
  <2>. QED
    BY <2>5, <2>6 DEF BillingInv
<1>. QED
  BY <1>1, SpecInv, PTL

\* However its events are delivered, again after an error or all at once, a payment has
\* one invoice and a purchase one subscription, unless Stripe delivered again an event
\* that onCheckoutCompleted or onInvoicePaid had, or may have, handled.
THEOREM BilledCorrect == Spec => []BilledOnce
<1>1. Inv => BilledOnce
  BY DEF Inv, Once
<1>. QED
  BY <1>1, SpecInv, PTL

-----------------------------------------------------------------------------
(* The scheduled tasks                                                      *)

\* A tick only begins while the Backend runs, and what it has to do is what makes it busy.
TickRecord == [busy: BOOLEAN, list: SUBSET Tasks, now: Tasks \union {None}]
Ticking ==
  /\ tick \in [Ticks -> TickRecord]
  /\ \A k \in Ticks : tick[k].busy <=> tick[k].list # {} \/ tick[k].now # None
  /\ up \in BOOLEAN /\ cron \in BOOLEAN /\ (cron => up) /\ (~up => \A k \in Ticks : ~tick[k].busy)

TaskRows ==
  /\ rows \in [Tasks -> Row]
  /\ \A t \in Tasks : Exists(t) => ServerOf[t] \in servers

\* A task two ticks hold is shared; one that was executed and is due still, or is still
\* on a list, is being executed, is shared or could not be given its next run.
Executed(t) == t \in shared \union unsaved \/ \E k \in Ticks : tick[k].now = t
Occurrences ==
  /\ OncePerOccurrence
  /\ \A t \in Tasks, j, k \in Ticks : Holds(j, t) /\ Holds(k, t) => j = k \/ t \in shared
  /\ \A t \in Tasks, k \in Ticks : t \in tick[k].list /\ t \in served => t \in shared \union unsaved
  /\ \A t \in Tasks, k \in Ticks : t \in tick[k].list /\ tick[k].now = t => t \in shared
  /\ \A t \in Tasks : Exists(t) /\ rows[t].left = 0 /\ t \in served => Executed(t)

TasksInv == TaskRows /\ Ticking /\ Occurrences

LEMMA IdleTick ==
  Idle \in TickRecord /\ Idle.busy = FALSE /\ Idle.list = {} /\ Idle.now = None
BY DEF Idle, TickRecord

LEMMA RowType ==
  ASSUME TaskRows, NEW t \in Tasks
  PROVE  /\ rows[t] \in Row /\ rows[t].state \in {"new", "row", "gone"}
         /\ rows[t].enabled \in BOOLEAN /\ rows[t].left \in 0 .. MaxPeriod
BY DEF TaskRows, Row

LEMMA TickType ==
  ASSUME Ticking, NEW k \in Ticks
  PROVE  /\ tick[k] \in TickRecord /\ tick[k].list \subseteq Tasks
         /\ tick[k].now \in Tasks \union {None} /\ tick[k].busy \in BOOLEAN
         /\ tick[k].busy <=> tick[k].list # {} \/ tick[k].now # None
         /\ tick[k].busy => up
BY DEF Ticking, TickRecord

LEMMA TasksInitInv == TasksInit => TasksInv
<1>. SUFFICES ASSUME TasksInit
              PROVE  TasksInv
  OBVIOUS
<1>1. /\ rows = [t \in Tasks |-> [state |-> "new", enabled |-> FALSE, left |-> MaxPeriod]]
      /\ up = TRUE /\ cron = FALSE /\ tick = [k \in Ticks |-> Idle]
      /\ served = {} /\ twice = {} /\ shared = {} /\ unsaved = {}
  BY DEF TasksInit
<1>2. [state |-> "new", enabled |-> FALSE, left |-> MaxPeriod] \in Row
  BY TasksAssumption DEF Row
<1>3. TaskRows
  BY <1>1, <1>2 DEF TaskRows, Exists
<1>4. Ticking
  BY <1>1, IdleTick DEF Ticking
<1>5. Occurrences
  BY <1>1, IdleTick, TasksAssumption DEF Occurrences, OncePerOccurrence, Holds, Exists
<1>. QED
  BY <1>3, <1>4, <1>5 DEF TasksInv

\* A step of people or of time: no tick moves.
LEMMA OccurrencesKept ==
  ASSUME Occurrences, UNCHANGED <<tick, twice, shared, unsaved>>, served' \subseteq served,
         \A t \in Tasks : Exists(t)' /\ rows'[t].left = 0 /\ t \in served' => Exists(t) /\ rows[t].left = 0
  PROVE  Occurrences'
<1>1. OncePerOccurrence'
  BY DEF Occurrences, OncePerOccurrence
<1>2. \A t \in Tasks, j, k \in Ticks : Holds(j, t)' /\ Holds(k, t)' => j = k \/ t \in shared'
  BY DEF Occurrences, Holds
<1>3. \A t \in Tasks : Exists(t)' /\ rows'[t].left = 0 /\ t \in served' => Executed(t)'
  BY DEF Occurrences, Executed
<1>. QED
  BY <1>1, <1>2, <1>3 DEF Occurrences

LEMMA TickingKept ==
  ASSUME Ticking, UNCHANGED <<up, cron, tick>>
  PROVE  Ticking'
BY DEF Ticking

LEMMA PanelKeeps ==
  ASSUME TasksInv, ScheduledTasksPanel
  PROVE  TasksInv'
<1>1. PICK t \in Tasks : Create(t) \/ SetEnabled(t) \/ Delete(t)
  BY DEF ScheduledTasksPanel
<1>2. UNCHANGED <<servers, up, cron, tick, served, twice, shared, unsaved>>
  BY <1>1 DEF Create, SetEnabled, Delete
<1>3. PICK r : /\ r \in Row /\ rows' = [rows EXCEPT ![t] = r]
               /\ r.state = "row" => ServerOf[t] \in servers
               /\ r.state = "row" /\ r.left = 0 => Exists(t) /\ rows[t].left = 0
  <2>1. CASE Create(t)
    <3>1. PICK left \in 1 .. MaxPeriod :
            rows' = [rows EXCEPT ![t] = [state |-> "row", enabled |-> TRUE, left |-> left]]
      BY <2>1 DEF Create
    <3>2. PICK r : r = [state |-> "row", enabled |-> TRUE, left |-> left]
      OBVIOUS
    <3>3. left \in 0 .. MaxPeriod /\ left # 0
      BY TasksAssumption
    <3>4. r \in Row /\ r.left # 0
      BY <3>2, <3>3 DEF Row
    <3>5. ServerOf[t] \in servers
      BY <2>1 DEF Create
    <3>. QED
      BY <3>1, <3>2, <3>4, <3>5
  <2>2. CASE SetEnabled(t)
    <3>1. PICK r : r = [rows[t] EXCEPT !.enabled = ~@]
      OBVIOUS
    <3>2. rows' = [rows EXCEPT ![t] = r] /\ Exists(t)
      BY <2>2, <3>1 DEF SetEnabled, TasksInv, TaskRows
    <3>3. r \in Row /\ r.left = rows[t].left
      BY <3>1, RowType DEF TasksInv, Row
    <3>. QED
      BY <3>2, <3>3 DEF TasksInv, TaskRows
  <2>3. CASE Delete(t)
    <3>1. PICK r : r = [rows[t] EXCEPT !.state = "gone"]
      OBVIOUS
    <3>2. rows' = [rows EXCEPT ![t] = r]
      BY <2>3, <3>1 DEF Delete, TasksInv, TaskRows
    <3>3. r \in Row /\ r.state = "gone"
      BY <3>1, RowType DEF TasksInv, Row
    <3>. QED
      BY <3>2, <3>3
  <2>. QED
    BY <1>1, <2>1, <2>2, <2>3
<1>4. TaskRows'
  BY <1>2, <1>3 DEF TasksInv, TaskRows, Exists
<1>5. \A u \in Tasks : Exists(u)' /\ rows'[u].left = 0 => Exists(u) /\ rows[u].left = 0
  BY <1>3 DEF TasksInv, TaskRows, Exists
<1>. QED
  BY <1>2, <1>4, <1>5, OccurrencesKept, TickingKept DEF TasksInv

LEMMA DeleteServerKeeps ==
  ASSUME TasksInv, NEW s \in Servers, DeleteServer(s)
  PROVE  TasksInv'
<1>1. /\ servers' = servers \ {s} /\ UNCHANGED <<up, cron, tick, served, twice, shared, unsaved>>
      /\ rows' = [t \in Tasks |-> IF Exists(t) /\ ServerOf[t] = s
                                  THEN [rows[t] EXCEPT !.state = "gone"] ELSE rows[t]]
  BY DEF DeleteServer
<1>2. ASSUME NEW t \in Tasks
      PROVE  /\ rows'[t] \in Row
             /\ Exists(t)' => Exists(t) /\ rows'[t] = rows[t] /\ ServerOf[t] # s
  <2>1. PICK r : r = [rows[t] EXCEPT !.state = "gone"]
    OBVIOUS
  <2>2. r \in Row /\ r.state = "gone"
    BY <2>1, RowType DEF TasksInv, Row
  <2>3. rows'[t] = IF Exists(t) /\ ServerOf[t] = s THEN r ELSE rows[t]
    BY <1>1, <2>1
  <2>. QED
    BY <2>2, <2>3, RowType DEF TasksInv, Exists
<1>3. TaskRows'
  BY <1>1, <1>2 DEF TasksInv, TaskRows
<1>. QED
  BY <1>1, <1>2, <1>3, OccurrencesKept, TickingKept DEF TasksInv

LEMMA MinuteKeeps ==
  ASSUME TasksInv, Minute
  PROVE  TasksInv'
<1>1. /\ rows' = [t \in Tasks |-> IF Exists(t) /\ rows[t].left > 0 THEN [rows[t] EXCEPT !.left = @ - 1]
                                  ELSE rows[t]]
      /\ served' = served \ {t \in Tasks : rows[t].left = 1} /\ cron' = up
      /\ UNCHANGED <<servers, up, tick, twice, shared, unsaved>>
  BY DEF Minute
<1>2. ASSUME NEW t \in Tasks
      PROVE  /\ rows'[t] \in Row /\ (Exists(t)' <=> Exists(t))
             /\ rows'[t].left = 0 => rows[t].left = 0 \/ rows[t].left = 1
  <2>1. PICK r : r = [rows[t] EXCEPT !.left = @ - 1]
    OBVIOUS
  <2>2. rows[t].left > 0 => rows[t].left - 1 \in 0 .. MaxPeriod
    BY RowType, TasksAssumption DEF TasksInv
  <2>3. /\ rows[t].left > 0 => r \in Row
        /\ r.state = rows[t].state /\ r.left = rows[t].left - 1
    BY <2>1, <2>2, RowType DEF TasksInv, Row
  <2>4. rows'[t] = IF Exists(t) /\ rows[t].left > 0 THEN r ELSE rows[t]
    BY <1>1, <2>1
  <2>5. rows[t].left - 1 = 0 => rows[t].left = 1
    BY RowType, TasksAssumption DEF TasksInv
  <2>. QED
    BY <2>3, <2>4, <2>5, RowType DEF TasksInv, Exists
<1>3. TaskRows'
  BY <1>1, <1>2 DEF TasksInv, TaskRows
<1>4. Ticking'
  BY <1>1 DEF TasksInv, Ticking
<1>. QED
  BY <1>1, <1>2, <1>3, <1>4, OccurrencesKept DEF TasksInv

\* A step of tick k, or one of the Backend.
LEMMA BeginKeeps ==
  ASSUME TasksInv, NEW k \in Ticks, Begin(k)
  PROVE  TasksInv'
<1>1. PICK x : x = IF Due = {} THEN Idle ELSE [busy |-> TRUE, list |-> Due, now |-> None]
  OBVIOUS
<1>2. /\ cron /\ cron' = FALSE /\ ~tick[k].busy /\ tick' = [tick EXCEPT ![k] = x]
      /\ shared' = shared \union {t \in Due : \E other \in Ticks : Holds(other, t)}
      /\ UNCHANGED <<rows, servers, up, served, twice, unsaved>>
  BY <1>1 DEF Begin
<1>3. x \in TickRecord /\ x.list = Due /\ x.now = None /\ (x.busy <=> x.list # {})
  BY <1>1, IdleTick DEF TickRecord, Due
<1>4. tick[k].list = {} /\ tick[k].now = None
  BY <1>2, TickType DEF TasksInv
<1>5. \A j \in Ticks : tick'[j] = IF j = k THEN x ELSE tick[j]
  BY <1>2 DEF TasksInv, Ticking
<1>6. Ticking'
  BY <1>2, <1>3, <1>5 DEF TasksInv, Ticking
<1>7. TaskRows'
  BY <1>2 DEF TasksInv, TaskRows, Exists
<1>8. OncePerOccurrence'
  BY <1>2 DEF TasksInv, Occurrences, OncePerOccurrence
<1>9. ASSUME NEW t \in Tasks, NEW j \in Ticks, Holds(j, t)'
      PROVE  IF j = k THEN t \in Due ELSE Holds(j, t)
  BY <1>3, <1>5, <1>9, TasksAssumption DEF Holds
<1>10. \A t \in Tasks, i, j \in Ticks : Holds(i, t)' /\ Holds(j, t)' => i = j \/ t \in shared'
  BY <1>2, <1>9 DEF TasksInv, Occurrences
<1>11. ASSUME NEW t \in Tasks, NEW j \in Ticks, t \in tick'[j].list, t \in served'
       PROVE  t \in shared' \union unsaved'
  <2>1. CASE j = k
    <3>1. t \in Due
      BY <1>3, <1>5, <1>11, <2>1
    <3>2. Executed(t)
      BY <1>2, <1>11, <3>1 DEF TasksInv, Occurrences, Due
    <3>. QED
      BY <1>2, <3>1, <3>2 DEF Executed, Holds
  <2>2. CASE j # k
    BY <1>2, <1>5, <1>11, <2>2 DEF TasksInv, Occurrences
  <2>. QED
    BY <2>1, <2>2
<1>12. ASSUME NEW t \in Tasks, NEW j \in Ticks, t \in tick'[j].list, tick'[j].now = t
       PROVE  t \in shared'
  BY <1>2, <1>3, <1>5, <1>12, TasksAssumption DEF TasksInv, Occurrences
<1>13. ASSUME NEW t \in Tasks, Exists(t)', rows'[t].left = 0, t \in served'
       PROVE  Executed(t)'
  <2>1. Executed(t)
    BY <1>2, <1>13 DEF TasksInv, Occurrences, Exists
  <2>. QED
    BY <1>2, <1>4, <1>5, <2>1, TasksAssumption DEF Executed
<1>14. Occurrences'
  BY <1>8, <1>10, <1>11, <1>12, <1>13 DEF Occurrences
<1>. QED
  BY <1>6, <1>7, <1>14 DEF TasksInv

LEMMA ExecuteKeeps ==
  ASSUME TasksInv, NEW k \in Ticks, NEW t \in Tasks, Execute(k, t)
  PROVE  TasksInv'
<1>1. PICK x : x = [tick[k] EXCEPT !.list = @ \ {t}, !.now = t]
  OBVIOUS
<1>2. /\ t \in tick[k].list /\ tick[k].now = None /\ tick' = [tick EXCEPT ![k] = x]
      /\ served' = served \union {t} /\ twice' = (IF t \in served THEN twice \union {t} ELSE twice)
      /\ UNCHANGED <<rows, servers, up, cron, shared, unsaved>>
  BY <1>1 DEF Execute, TasksInv, Ticking
<1>3. x \in TickRecord /\ x.list = tick[k].list \ {t} /\ x.now = t /\ x.busy = tick[k].busy
  BY <1>1, TickType DEF TasksInv, TickRecord
<1>4. tick[k].busy
  BY <1>2, TickType DEF TasksInv
<1>5. \A j \in Ticks : tick'[j] = IF j = k THEN x ELSE tick[j]
  BY <1>2 DEF TasksInv, Ticking
<1>6. Ticking'
  BY <1>2, <1>3, <1>4, <1>5, TasksAssumption DEF TasksInv, Ticking
<1>7. TaskRows'
  BY <1>2 DEF TasksInv, TaskRows, Exists
<1>8. OncePerOccurrence'
  BY <1>2 DEF TasksInv, Occurrences, OncePerOccurrence
<1>9. \A u \in Tasks, j \in Ticks : Holds(j, u)' => Holds(j, u)
  BY <1>2, <1>3, <1>5 DEF Holds
<1>10. \A u \in Tasks, i, j \in Ticks : Holds(i, u)' /\ Holds(j, u)' => i = j \/ u \in shared'
  BY <1>2, <1>9 DEF TasksInv, Occurrences
<1>11. ASSUME NEW u \in Tasks, NEW j \in Ticks, u \in tick'[j].list, u \in served'
       PROVE  u \in shared' \union unsaved'
  <2>1. u \in tick[j].list /\ ~(j = k /\ u = t)
    BY <1>3, <1>5, <1>11
  <2>2. CASE u = t
    BY <1>2, <2>1, <2>2 DEF TasksInv, Occurrences, Holds
  <2>3. CASE u # t
    BY <1>2, <1>11, <2>1, <2>3 DEF TasksInv, Occurrences
  <2>. QED
    BY <2>2, <2>3
<1>12. ASSUME NEW u \in Tasks, NEW j \in Ticks, u \in tick'[j].list, tick'[j].now = u
       PROVE  u \in shared'
  BY <1>2, <1>3, <1>5, <1>12 DEF TasksInv, Occurrences
<1>13. ASSUME NEW u \in Tasks, Exists(u)', rows'[u].left = 0, u \in served'
       PROVE  Executed(u)'
  <2>1. CASE u = t
    BY <1>3, <1>5, <2>1 DEF Executed
  <2>2. CASE u # t
    <3>1. Executed(u)
      BY <1>2, <1>13, <2>2 DEF TasksInv, Occurrences, Exists
    <3>. QED
      BY <1>2, <1>5, <3>1, TasksAssumption DEF Executed
  <2>. QED
    BY <2>1, <2>2
<1>14. Occurrences'
  BY <1>8, <1>10, <1>11, <1>12, <1>13 DEF Occurrences
<1>. QED
  BY <1>6, <1>7, <1>14 DEF TasksInv

LEMMA RescheduleKeeps ==
  ASSUME TasksInv, NEW k \in Ticks, Reschedule(k) \/ RescheduleFails(k)
  PROVE  TasksInv'
<1>1. PICK t \in Tasks : tick[k].now = t
  BY TickType DEF Reschedule, RescheduleFails, TasksInv
<1>2. UNCHANGED <<servers, up, cron, served, twice, shared>> /\ unsaved \subseteq unsaved'
  BY DEF Reschedule, RescheduleFails
<1>3. PICK x : /\ x \in TickRecord /\ x.list \subseteq tick[k].list /\ x.now = None
               /\ x.busy <=> x.list # {}
               /\ x.busy => tick[k].busy
               /\ tick' = [tick EXCEPT ![k] = x]
  <2>1. PICK y : y = [tick[k] EXCEPT !.now = None]
    OBVIOUS
  <2>2. y \in TickRecord /\ y.list = tick[k].list /\ y.now = None /\ y.busy = tick[k].busy
    BY <2>1, TickType DEF TasksInv, TickRecord
  <2>3. tick[k].busy
    BY <1>1, TickType, TasksAssumption DEF TasksInv
  <2>4. \/ tick' = [tick EXCEPT ![k] = Idle]
        \/ tick[k].list # {} /\ tick' = [tick EXCEPT ![k] = y]
    BY <1>1, <2>1 DEF Reschedule, RescheduleFails
  <2>. QED
    BY <2>2, <2>3, <2>4, IdleTick
<1>4. \A j \in Ticks : tick'[j] = IF j = k THEN x ELSE tick[j]
  BY <1>3 DEF TasksInv, Ticking
<1>5. Ticking'
  BY <1>2, <1>3, <1>4, TickType DEF TasksInv, Ticking
<1>6. /\ rows' \in [Tasks -> Row]
      /\ \A u \in Tasks : Exists(u)' => Exists(u)
      /\ \A u \in Tasks : Exists(u)' /\ rows'[u].left = 0 => rows[u].left = 0 /\ (u # t \/ t \in unsaved')
  <2>1. CASE Exists(t) /\ rows' # rows
    <3>1. PICK left \in 1 .. MaxPeriod : rows' = [rows EXCEPT ![t].left = left]
      BY <1>1, <2>1 DEF Reschedule, RescheduleFails
    <3>2. PICK r : r = [rows[t] EXCEPT !.left = left]
      OBVIOUS
    <3>3. left \in 0 .. MaxPeriod /\ left # 0
      BY TasksAssumption
    <3>4. r \in Row /\ r.left # 0 /\ r.state = rows[t].state
      BY <3>2, <3>3, RowType DEF TasksInv, Row
    <3>5. rows' = [rows EXCEPT ![t] = r]
      BY <3>1, <3>2 DEF TasksInv, TaskRows
    <3>. QED
      BY <3>4, <3>5 DEF TasksInv, TaskRows, Exists
  <2>2. CASE ~Exists(t)
    <3>1. rows' = rows
      BY <1>1, <2>2 DEF Reschedule, RescheduleFails
    <3>. QED
      BY <2>2, <3>1 DEF TasksInv, TaskRows, Exists
  <2>3. CASE Exists(t) /\ rows' = rows
    <3>1. CASE Reschedule(k)
      <4>1. PICK left \in 1 .. MaxPeriod : rows' = [rows EXCEPT ![t].left = left]
        BY <1>1, <2>3, <3>1 DEF Reschedule
      <4>2. rows'[t].left = left /\ left # 0
        BY <4>1, RowType, TasksAssumption DEF TasksInv, TaskRows, Row
      <4>. QED
        BY <2>3, <4>2 DEF TasksInv, TaskRows, Exists
    <3>2. CASE RescheduleFails(k) /\ unsaved' = unsaved \union {t}
      BY <2>3, <3>2 DEF TasksInv, TaskRows, Exists
    <3>3. CASE RescheduleFails(k) /\ unsaved' # unsaved \union {t}
      <4>1. PICK left \in 1 .. MaxPeriod : rows' = [rows EXCEPT ![t].left = left]
        BY <1>1, <3>3 DEF RescheduleFails
      <4>2. rows'[t].left = left /\ left # 0
        BY <4>1, RowType, TasksAssumption DEF TasksInv, TaskRows, Row
      <4>. QED
        BY <2>3, <4>2 DEF TasksInv, TaskRows, Exists
    <3>. QED
      BY <3>1, <3>2, <3>3
  <2>. QED
    BY <2>1, <2>2, <2>3
<1>7. TaskRows'
  BY <1>2, <1>6 DEF TasksInv, TaskRows
<1>8. OncePerOccurrence'
  BY <1>2 DEF TasksInv, Occurrences, OncePerOccurrence
<1>9. \A u \in Tasks, j \in Ticks : Holds(j, u)' => Holds(j, u)
  BY <1>3, <1>4, TasksAssumption DEF Holds
<1>10. \A u \in Tasks, i, j \in Ticks : Holds(i, u)' /\ Holds(j, u)' => i = j \/ u \in shared'
  BY <1>2, <1>9 DEF TasksInv, Occurrences
<1>11. \A u \in Tasks, j \in Ticks : u \in tick'[j].list /\ u \in served' => u \in shared' \union unsaved'
  BY <1>2, <1>3, <1>4 DEF TasksInv, Occurrences
<1>12. \A u \in Tasks, j \in Ticks : u \in tick'[j].list /\ tick'[j].now = u => u \in shared'
  BY <1>2, <1>3, <1>4, TasksAssumption DEF TasksInv, Occurrences
<1>13. ASSUME NEW u \in Tasks, Exists(u)', rows'[u].left = 0, u \in served'
       PROVE  Executed(u)'
  <2>1. Executed(u) /\ (u # t \/ u \in unsaved')
    BY <1>2, <1>6, <1>13 DEF TasksInv, Occurrences
  <2>. QED
    BY <1>1, <1>2, <1>4, <2>1 DEF Executed
<1>14. Occurrences'
  BY <1>8, <1>10, <1>11, <1>12, <1>13 DEF Occurrences
<1>. QED
  BY <1>5, <1>7, <1>14 DEF TasksInv

LEMMA ProcessStopsKeeps ==
  ASSUME TasksInv, ProcessStops
  PROVE  TasksInv'
<1>1. /\ up' = FALSE /\ cron' = FALSE /\ tick' = [k \in Ticks |-> Idle]
      /\ shared' = shared \union {t \in Tasks : \E k \in Ticks : tick[k].now = t}
      /\ UNCHANGED <<rows, servers, served, twice, unsaved>>
  BY DEF ProcessStops
<1>2. Ticking'
  BY <1>1, IdleTick DEF Ticking
<1>3. TaskRows'
  BY <1>1 DEF TasksInv, TaskRows, Exists
<1>4. OncePerOccurrence'
  BY <1>1 DEF TasksInv, Occurrences, OncePerOccurrence
<1>5. \A k \in Ticks : tick'[k].list = {} /\ tick'[k].now = None
  BY <1>1, IdleTick
<1>6. \A t \in Tasks, k \in Ticks : ~Holds(k, t)'
  BY <1>5, TasksAssumption DEF Holds
<1>7. \A t \in Tasks : Exists(t)' /\ rows'[t].left = 0 /\ t \in served' => Executed(t)'
  BY <1>1 DEF TasksInv, Occurrences, Exists, Executed
<1>8. Occurrences'
  BY <1>4, <1>5, <1>6, <1>7 DEF Occurrences
<1>. QED
  BY <1>2, <1>3, <1>8 DEF TasksInv

LEMMA TasksNextInv == TasksInv /\ [TasksNext]_taskVars => TasksInv'
<1>. SUFFICES ASSUME TasksInv, [TasksNext]_taskVars
              PROVE  TasksInv'
  OBVIOUS
<1>1. ASSUME UNCHANGED <<rows, servers, tick, served, twice, shared, unsaved>>, Ticking'
      PROVE  TasksInv'
  <2>1. TaskRows'
    BY <1>1 DEF TasksInv, TaskRows, Exists
  <2>2. Occurrences'
    BY <1>1, OccurrencesKept DEF TasksInv, Exists
  <2>. QED
    BY <1>1, <2>1, <2>2 DEF TasksInv
<1>2. CASE ProcessStarts
  <2>1. UNCHANGED <<rows, servers, cron, tick, served, twice, shared, unsaved>> /\ up' = TRUE
    BY <1>2 DEF ProcessStarts
  <2>2. Ticking'
    BY <2>1 DEF TasksInv, Ticking
  <2>. QED
    BY <1>1, <2>1, <2>2
<1>3. CASE UNCHANGED taskVars
  BY <1>1, <1>3, TickingKept DEF TasksInv, taskVars
<1>4. ASSUME NEW k \in Ticks, Tick(k)
      PROVE  TasksInv'
  BY <1>4, BeginKeeps, ExecuteKeeps, RescheduleKeeps DEF Tick
<1>5. CASE ListFails
  <2>1. UNCHANGED <<rows, servers, up, tick, served, twice, shared, unsaved>> /\ cron' = FALSE
    BY <1>5 DEF ListFails
  <2>2. Ticking'
    BY <2>1 DEF TasksInv, Ticking
  <2>. QED
    BY <1>1, <2>1, <2>2
<1>. QED
  BY <1>2, <1>3, <1>4, <1>5, PanelKeeps, DeleteServerKeeps, MinuteKeeps, ProcessStopsKeeps DEF TasksNext

\* However long tasks take, whoever edits them and wherever the Backend stops, runDueTasks
\* runs a task once for each time it falls due, unless two ticks had listed it, a stop
\* cut its execution short, or the database refused to write its next run.
THEOREM SchedulerCorrect == TasksSpec => []SchedulerInv
<1>1. TasksSpec => []TasksInv
  BY TasksInitInv, TasksNextInv, PTL DEF TasksSpec
<1>2. TasksInv => SchedulerInv
  BY DEF TasksInv, TaskRows, Ticking, TickRecord, Occurrences, SchedulerInv, TasksTypeOK
<1>. QED
  BY <1>1, <1>2, PTL

\* A task that one tick alone holds, and that is there, is due since it was listed, and
\* was executed if it is being given its next run.
Pending ==
  \A t \in Tasks, k \in Ticks : Holds(k, t) =>
    /\ rows[t].state # "new"
    /\ Exists(t) /\ t \notin shared => rows[t].left = 0 /\ (tick[k].now = t => t \in served)

\* Steps that let no tick take a task.
LEMMA PendingKept ==
  ASSUME Pending, shared \subseteq shared',
         \A t \in Tasks, k \in Ticks : Holds(k, t)' => Holds(k, t) /\ (tick'[k].now = t => tick[k].now = t),
         \A t \in Tasks : rows[t].state # "new" => rows'[t].state # "new",
         \A t \in Tasks, k \in Ticks : Holds(k, t)' /\ Exists(t)' /\ t \notin shared' /\ rows[t].state # "new" =>
           /\ Exists(t) /\ (rows[t].left = 0 => rows'[t].left = 0)
           /\ (t \in served /\ rows[t].left = 0 => t \in served')
  PROVE  Pending'
BY DEF Pending

LEMMA PanelPending ==
  ASSUME TasksInv, Pending, ScheduledTasksPanel
  PROVE  Pending'
<1>1. PICK t \in Tasks : Create(t) \/ SetEnabled(t) \/ Delete(t)
  BY DEF ScheduledTasksPanel
<1>2. UNCHANGED <<tick, served, shared>>
  BY <1>1 DEF Create, SetEnabled, Delete
<1>3. \A u \in Tasks : u # t => rows'[u] = rows[u]
  BY <1>1 DEF Create, SetEnabled, Delete, TasksInv, TaskRows
<1>4. CASE Create(t)
  <2>1. rows[t].state = "new" /\ \A k \in Ticks : ~Holds(k, t)'
    BY <1>2, <1>4 DEF Create, Pending, Holds
  <2>2. rows[t].state # "new" => rows'[t].state # "new"
    BY <2>1
  <2>. QED
    BY <1>2, <1>3, <2>1, <2>2, PendingKept DEF Holds, Exists
<1>5. CASE SetEnabled(t)
  <2>1. rows'[t].state = rows[t].state /\ rows'[t].left = rows[t].left
    BY <1>5, RowType DEF SetEnabled, TasksInv, TaskRows, Row
  <2>. QED
    BY <1>2, <1>3, <2>1, PendingKept DEF Holds, Exists
<1>6. CASE Delete(t)
  <2>1. rows'[t].state = "gone"
    BY <1>6, RowType DEF Delete, TasksInv, TaskRows, Row
  <2>. QED
    BY <1>2, <1>3, <2>1, PendingKept DEF Holds, Exists
<1>. QED
  BY <1>1, <1>4, <1>5, <1>6

LEMMA DeleteServerPending ==
  ASSUME TasksInv, Pending, NEW s \in Servers, DeleteServer(s)
  PROVE  Pending'
<1>1. UNCHANGED <<tick, served, shared>>
  BY DEF DeleteServer
<1>2. ASSUME NEW t \in Tasks
      PROVE  rows'[t] = rows[t] \/ rows'[t].state = "gone"
  <2>1. CASE Exists(t) /\ ServerOf[t] = s
    BY <2>1, RowType DEF DeleteServer, TasksInv, Row
  <2>2. CASE ~(Exists(t) /\ ServerOf[t] = s)
    BY <2>2 DEF DeleteServer
  <2>. QED
    BY <2>1, <2>2
<1>. QED
  BY <1>1, <1>2, PendingKept DEF Holds, Exists

LEMMA MinutePending ==
  ASSUME TasksInv, Pending, Minute
  PROVE  Pending'
<1>1. UNCHANGED <<tick, shared>> /\ served' = served \ {t \in Tasks : rows[t].left = 1}
  BY DEF Minute
<1>2. ASSUME NEW t \in Tasks
      PROVE  rows'[t].state = rows[t].state /\ (rows[t].left = 0 => rows'[t] = rows[t])
  <2>1. CASE Exists(t) /\ rows[t].left > 0
    BY <2>1, RowType, TasksAssumption DEF Minute, TasksInv, Row
  <2>2. CASE ~(Exists(t) /\ rows[t].left > 0)
    BY <2>2 DEF Minute
  <2>. QED
    BY <2>1, <2>2
<1>3. \A t \in Tasks : t \in served /\ rows[t].left = 0 => t \in served'
  BY <1>1
<1>. QED
  BY <1>1, <1>2, <1>3, PendingKept DEF Holds, Exists

LEMMA BeginPending ==
  ASSUME TasksInv, Pending, NEW k \in Ticks, Begin(k)
  PROVE  Pending'
<1>1. PICK x : x = IF Due = {} THEN Idle ELSE [busy |-> TRUE, list |-> Due, now |-> None]
  OBVIOUS
<1>2. tick' = [tick EXCEPT ![k] = x] /\ UNCHANGED <<rows, served>> /\ shared \subseteq shared'
  BY <1>1 DEF Begin
<1>3. x.list = Due /\ x.now = None
  BY <1>1, IdleTick
<1>4. \A j \in Ticks : tick'[j] = IF j = k THEN x ELSE tick[j]
  BY <1>2 DEF TasksInv, Ticking
<1>. SUFFICES ASSUME NEW t \in Tasks, NEW j \in Ticks, Holds(j, t)'
              PROVE  /\ rows'[t].state # "new"
                     /\ Exists(t)' /\ t \notin shared' => rows'[t].left = 0 /\ (tick'[j].now = t => t \in served')
  BY DEF Pending
<1>5. CASE j = k
  <2>1. t \in Due /\ tick'[j].now # t
    BY <1>3, <1>4, <1>5, TasksAssumption DEF Holds
  <2>. QED
    BY <1>2, <2>1 DEF Due, Exists
<1>6. CASE j # k
  BY <1>2, <1>4, <1>6 DEF Pending, Holds, Exists
<1>. QED
  BY <1>5, <1>6

LEMMA ExecutePending ==
  ASSUME TasksInv, Pending, NEW k \in Ticks, NEW t \in Tasks, Execute(k, t)
  PROVE  Pending'
<1>1. PICK x : x = [tick[k] EXCEPT !.list = @ \ {t}, !.now = t]
  OBVIOUS
<1>2. /\ t \in tick[k].list /\ tick' = [tick EXCEPT ![k] = x]
      /\ served' = served \union {t} /\ UNCHANGED <<rows, shared>>
  BY <1>1 DEF Execute, TasksInv, Ticking
<1>3. x.list = tick[k].list \ {t} /\ x.now = t
  BY <1>1, TickType DEF TasksInv, TickRecord
<1>4. \A j \in Ticks : tick'[j] = IF j = k THEN x ELSE tick[j]
  BY <1>2 DEF TasksInv, Ticking
<1>5. \A u \in Tasks, j \in Ticks : Holds(j, u)' => Holds(j, u) /\ (tick'[j].now = u => tick[j].now = u \/ u = t)
  BY <1>2, <1>3, <1>4 DEF Holds
<1>. QED
  BY <1>2, <1>5 DEF Pending, Exists

LEMMA ReschedulePending ==
  ASSUME TasksInv, Pending, NEW k \in Ticks, Reschedule(k) \/ RescheduleFails(k)
  PROVE  Pending'
<1>1. PICK t \in Tasks : tick[k].now = t
  BY TickType DEF Reschedule, RescheduleFails, TasksInv
<1>2. UNCHANGED <<served, shared>>
  BY DEF Reschedule, RescheduleFails
<1>3. PICK x : x.list \subseteq tick[k].list /\ x.now = None /\ tick' = [tick EXCEPT ![k] = x]
  <2>1. PICK y : y = [tick[k] EXCEPT !.now = None]
    OBVIOUS
  <2>2. y.list = tick[k].list /\ y.now = None
    BY <2>1, TickType DEF TasksInv, TickRecord
  <2>3. \/ tick' = [tick EXCEPT ![k] = Idle]
        \/ tick' = [tick EXCEPT ![k] = y]
    BY <1>1, <2>1 DEF Reschedule, RescheduleFails
  <2>. QED
    BY <2>2, <2>3, IdleTick
<1>4. \A j \in Ticks : tick'[j] = IF j = k THEN x ELSE tick[j]
  BY <1>3 DEF TasksInv, Ticking
<1>5. \A u \in Tasks, j \in Ticks : Holds(j, u)' => Holds(j, u) /\ (tick'[j].now = u => tick[j].now = u)
  BY <1>3, <1>4, TasksAssumption DEF Holds
<1>6. /\ \A u \in Tasks : u # t => rows'[u] = rows[u]
      /\ rows'[t].state = rows[t].state
  BY <1>1, RowType DEF Reschedule, RescheduleFails, TasksInv, TaskRows, Row
<1>7. \A j \in Ticks : Holds(j, t)' => t \in shared
  <2>1. Holds(k, t)
    BY <1>1 DEF Holds
  <2>2. \A j \in Ticks \ {k} : Holds(j, t)' => t \in shared
    BY <1>5, <2>1 DEF TasksInv, Occurrences
  <2>3. Holds(k, t)' => t \in shared
    BY <1>1, <1>3, <1>4, TasksAssumption DEF TasksInv, Occurrences, Holds
  <2>. QED
    BY <2>2, <2>3
<1>. QED
  BY <1>2, <1>5, <1>6, <1>7, PendingKept DEF Exists

LEMMA PendingNext == TasksInv /\ Pending /\ [TasksNext]_taskVars => Pending'
<1>. SUFFICES ASSUME TasksInv, Pending, [TasksNext]_taskVars
              PROVE  Pending'
  OBVIOUS
<1>1. CASE ProcessStarts \/ ListFails \/ UNCHANGED taskVars
  <2>1. UNCHANGED <<rows, tick, served, shared>>
    BY <1>1 DEF ProcessStarts, ListFails, taskVars
  <2>. QED
    BY <2>1, PendingKept DEF Holds, Exists
<1>2. CASE ProcessStops
  <2>1. \A t \in Tasks, k \in Ticks : ~Holds(k, t)'
    BY <1>2, IdleTick, TasksAssumption DEF ProcessStops, Holds
  <2>. QED
    BY <2>1 DEF Pending
<1>3. ASSUME NEW k \in Ticks, Tick(k)
      PROVE  Pending'
  BY <1>3, BeginPending, ExecutePending, ReschedulePending DEF Tick
<1>. QED
  BY <1>1, <1>2, <1>3, PanelPending, DeleteServerPending, MinutePending DEF TasksNext

LEMMA NotSkipped ==
  ASSUME TasksInv, Pending, [TasksNext]_taskVars, NEW t \in Tasks,
         Exists(t), rows[t].left = 0, rows'[t].left # 0
  PROVE  t \in served \union shared
<1>1. ASSUME NEW k \in Ticks, Reschedule(k) \/ RescheduleFails(k)
      PROVE  t \in served \union shared
  <2>1. PICK u \in Tasks : tick[k].now = u
    BY <1>1, TickType DEF Reschedule, RescheduleFails, TasksInv
  <2>2. u = t
    BY <1>1, <2>1, RowType DEF Reschedule, RescheduleFails, TasksInv, TaskRows
  <2>3. Holds(k, t)
    BY <2>1, <2>2 DEF Holds
  <2>. QED
    BY <2>1, <2>2, <2>3 DEF Pending
<1>2. CASE ScheduledTasksPanel
  <2>1. PICK u \in Tasks : Create(u) \/ SetEnabled(u) \/ Delete(u)
    BY <1>2 DEF ScheduledTasksPanel
  <2>2. CASE u = t
    BY <2>1, <2>2, RowType DEF Create, SetEnabled, Delete, Exists, TasksInv, TaskRows, Row
  <2>3. CASE u # t
    BY <2>1, <2>3 DEF Create, SetEnabled, Delete, TasksInv, TaskRows
  <2>. QED
    BY <2>2, <2>3
<1>3. ASSUME NEW s \in Servers, DeleteServer(s)
      PROVE  FALSE
  BY <1>3, RowType DEF DeleteServer, TasksInv, Row
<1>4. CASE Minute
  BY <1>4 DEF Minute
<1>5. CASE UNCHANGED rows
  BY <1>5
<1>6. ASSUME NEW k \in Ticks, Tick(k)
      PROVE  t \in served \union shared
  <2>1. ASSUME Begin(k) \/ \E u \in Tasks : Execute(k, u)
        PROVE  UNCHANGED rows
    BY <2>1 DEF Begin, Execute
  <2>. QED
    BY <1>1, <1>5, <1>6, <2>1 DEF Tick
<1>7. CASE ListFails \/ ProcessStops \/ ProcessStarts \/ UNCHANGED taskVars
  BY <1>5, <1>7 DEF ListFails, ProcessStops, ProcessStarts, taskVars
<1>. QED
  BY <1>2, <1>3, <1>4, <1>6, <1>7 DEF TasksNext

\* runDueTasks passes no occurrence over: it gives a due task its next run after having
\* executed it for this one, unless two ticks had listed it.
THEOREM SkippedCorrect == TasksSpec => NoneSkipped
<1>1. TasksInit => TasksInv /\ Pending
  <2>. SUFFICES ASSUME TasksInit
                PROVE  TasksInv /\ Pending
    OBVIOUS
  <2>1. \A t \in Tasks, k \in Ticks : ~Holds(k, t)
    BY IdleTick, TasksAssumption DEF TasksInit, Holds
  <2>. QED
    BY <2>1, TasksInitInv DEF Pending
<1>2. TasksInv /\ Pending /\ [TasksNext]_taskVars => TasksInv' /\ Pending'
  BY TasksNextInv, PendingNext
<1>3. TasksInv /\ Pending /\ [TasksNext]_taskVars =>
        [\A t \in Tasks : Exists(t) /\ rows[t].left = 0 /\ rows'[t].left # 0 => t \in served \union shared]_taskVars
  BY NotSkipped
<1>. QED
  BY <1>1, <1>2, <1>3, PTL DEF TasksSpec, NoneSkipped
=============================================================================
