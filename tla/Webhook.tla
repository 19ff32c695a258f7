------------------------------- MODULE Webhook -------------------------------
(***************************************************************************)
(* webhook-service: reconciling the provider's facts, pushed by webhooks   *)
(* (in any order, repeated, or never) or asked for by the status check.    *)
(* One transaction claims the delivery, correlates it, moves the purchase  *)
(* and settles the attempt; at READ COMMITTED the attempt it correlated    *)
(* may be rewritten by another commit before it writes, so the correlation *)
(* is a step of its own.                                                   *)
(***************************************************************************)
EXTENDS PaymentState

Delivered(id) == \E entry \in ledger : entry[1] = id
\* A concurrent delivery of the same event waits on the ledger's unique index.
BeingReconciled(id) ==
    \E c \in Calls : At(c, "Reconciling") /\ <<calls[c].kind, calls[c].pay>> = id

\* What the provider has to say: failures it reported, captures it made.
Reportable(id) ==
    \/ id[1] = "failed" /\ payments[id[2]].failed
    \/ id[1] \in {"captured", "status"} /\ payments[id[2]].state = "captured"

\* Faulty variant: a payment is taken to be about the newest order.
NewestOrderFor(p) == Newest(Ordered)

\* The attempt a payment is about: the one whose order it was made on.
AttemptOf(p) == payments[p].order

\* Claim and correlate.  An order this system never recorded, or a payment
\* other than the one recorded for the attempt, is rejected for good.
Correlate(c, kind, p) ==
    LET id == <<kind, p>>
        n == AttemptOf(p)
        conflict == attempts[n].payment \notin {NoPayment, p}
    IN  /\ ~Delivered(id) /\ ~BeingReconciled(id)
        /\ Reportable(id)
        /\ IF ~attempts[n].order \/ conflict
             THEN Done(c) /\ ledger' = ledger \cup {<<id, "REJECTED">>}
             ELSE /\ calls' = [calls EXCEPT ![c] =
                        [Idle EXCEPT !.at = "Reconciling", !.n = n, !.pay = p, !.kind = kind]]
                  /\ UNCHANGED ledger
        /\ UNCHANGED <<txn, attempts, terms, hold, sessions, provider>>

\* processWebhook; a delivery seen before changes nothing.
ReceiveWebhook(c, kind, p) ==
    /\ At(c, "Idle") /\ kind \in {"failed", "captured"}
    /\ Correlate(c, kind, p)

Event(c) == IF calls[c].kind = "failed" THEN "PAYMENT_FAILED" ELSE "PAYMENT_CAPTURE_CONFIRMED"
Actor(c) == IF calls[c].kind = "status" THEN "payment_provider" ELSE "payment_webhook"
DeliveryId(c) == <<calls[c].kind, calls[c].pay>>

\* Faulty variant: looks at the attempt being settled instead of the others.
DoubleCaptureOfSame(c) ==
    calls[c].kind # "failed" /\ attempts[calls[c].n].status = "CAPTURED"

\* A capture while another attempt is already CAPTURED.
DoubleCapture(c) ==
    /\ calls[c].kind # "failed"
    /\ \E m \in DOMAIN attempts : m # calls[c].n /\ attempts[m].status = "CAPTURED"

\* The attempt's status follows the transition, never the event on its own,
\* except that a second capture is recorded; the payment id always is.
SettledAttempt(c) ==
    LET row == attempts[calls[c].n]
        settles == Applies(Event(c), Actor(c), DeliveryId(c)) \/ DoubleCapture(c)
    IN  [row EXCEPT !.payment = calls[c].pay,
                    !.status = IF ~settles THEN @
                               ELSE IF calls[c].kind = "failed" THEN "FAILED" ELSE "CAPTURED"]

Decision(c) == Adjudicate(Event(c), Actor(c), DeliveryId(c))

\* Faulty variant: any event that moves the purchase commits the stock.
CompletesOnAnyMove(c) == Decision(c).kind = "APPLY" /\ hold.status = "ACTIVE"

\* finalizeCapturedPayment, in the same transaction: a capture that moved the
\* purchase commits the ACTIVE hold, whatever its expiry, and completes it.
\* Without one the purchase stays at PAYMENT_CAPTURED.
Completes(c) ==
    Decision(c).kind = "APPLY" /\ calls[c].kind # "failed" /\ hold.status = "ACTIVE"

Settle(c) ==
    LET decision == Decision(c)
        completes == Completes(c)
    IN  /\ decision.kind # "INVALID"
        /\ status' = IF completes
                       THEN Resolve(decision.to, "TRANSACTION_COMPLETED", "transaction_service").to
                       ELSE decision.to
        /\ recorded' = IF decision.kind = "APPLY" THEN recorded \cup {DeliveryId(c)} ELSE recorded
        /\ hold' = IF completes THEN [hold EXCEPT !.status = "COMMITTED"] ELSE hold

\* Reconcile and commit.
CommitReconciliation(c) ==
    /\ At(c, "Reconciling")
    /\ Settle(c)
    /\ attempts' = [attempts EXCEPT ![calls[c].n] = SettledAttempt(c)]
    /\ ledger' = ledger \cup
           {<<DeliveryId(c), IF DoubleCapture(c) THEN "MULTIPLE_CAPTURE" ELSE "PROCESSED">>}
    /\ Done(c)
    /\ UNCHANGED <<terms, sessions, provider>>

\* The machine refuses the event, so everything rolls back, the claim included.
RollBackReconciliation(c) ==
    /\ At(c, "Reconciling")
    /\ ~Accepts(Event(c), Actor(c), DeliveryId(c))
    /\ Done(c)
    /\ UNCHANGED <<txn, attempts, terms, hold, ledger, sessions, provider>>

-----------------------------------------------------------------------------
(* checkPaymentWithProvider. *)

\* Only a purchase that waits for its capture asks, about its newest order.
AskProvider(c) ==
    /\ "STATUS" \in Requests /\ At(c, "Idle")
    /\ status \in {"PAYMENT_PENDING", "PAYMENT_VERIFIED"} /\ Ordered # {}
    /\ calls' = [calls EXCEPT ![c] = [Idle EXCEPT !.at = "Asking", !.n = Newest(Ordered)]]
    /\ UNCHANGED <<txn, attempts, terms, hold, ledger, sessions, provider>>

\* listOrderPayments: only payments that name the order.
PaymentsOfOrder(n) == {p \in Payments : payments[p].order = n}

\* A captured payment of that order is reconciled like a webhook's.
ReceiveAnswer(c, p) ==
    /\ At(c, "Asking") /\ p \in PaymentsOfOrder(calls[c].n)
    /\ Correlate(c, "status", p)

\* No capture, no answer, or an answer already reconciled: nothing changes.
NothingToReconcile(c) ==
    /\ At(c, "Asking")
    /\ Done(c)
    /\ UNCHANGED <<txn, attempts, terms, hold, ledger, sessions, provider>>

WebhookStep(c) ==
    \/ \E kind \in {"failed", "captured"}, p \in Payments : ReceiveWebhook(c, kind, p)
    \/ CommitReconciliation(c) \/ RollBackReconciliation(c)
    \/ AskProvider(c) \/ NothingToReconcile(c)
    \/ \E p \in Payments : ReceiveAnswer(c, p)
=============================================================================
