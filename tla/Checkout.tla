------------------------------ MODULE Checkout ------------------------------
(***************************************************************************)
(* checkout-service: handing a browser the order to pay, and verifying the *)
(* signed callback it brings back.  Each reads outside its transaction and *)
(* writes in it.  A dismissal writes an audit record only: no step.        *)
(***************************************************************************)
EXTENDS PaymentState

\* The newest attempt that has an order and is still CREATED.
PayableAttempts == {n \in Ordered : attempts[n].status = "CREATED"}

\* startCheckout, the reads.  A checkout already started is handed out again
\* at once, without a lifecycle move.
StartCheckout(c) ==
    /\ "CHECKOUT" \in Requests /\ At(c, "Idle")
    /\ PayableAttempts # {} /\ HoldIsLive
    /\ \/ /\ status = "PAYMENT_ORDER_CREATED"
          /\ calls' = [calls EXCEPT ![c] =
                 [Idle EXCEPT !.at = "Starting", !.n = Newest(PayableAttempts)]]
          /\ UNCHANGED sessions
       \/ /\ status = "PAYMENT_PENDING"
          /\ sessions' = sessions \cup {Newest(PayableAttempts)}
          /\ UNCHANGED calls
    /\ UNCHANGED <<txn, attempts, terms, hold, ledger, provider>>

CheckoutKey(c) == <<"checkout_started", calls[c].n>>

\* startCheckout, the commit.
CommitCheckout(c) ==
    /\ At(c, "Starting")
    /\ ApplyEvent("PAYMENT_STARTED", "payment_provider", CheckoutKey(c))
    /\ sessions' = sessions \cup {calls[c].n}
    /\ Done(c)
    /\ UNCHANGED <<attempts, terms, hold, ledger, provider>>

-----------------------------------------------------------------------------
\* verifyCheckoutCallback, the reads.  The provider signs a callback for an
\* authorized payment, over the order it was made on, so only the attempt
\* whose order that is verifies.  A payment already recorded, the same or
\* another, answers without a step, and so does every refusal.
ReceiveCallback(c, p) ==
    LET n == payments[p].order
    IN  /\ "CALLBACK" \in Requests /\ At(c, "Idle")
        /\ payments[p].state \in {"authorized", "captured"}
        /\ attempts[n].order /\ attempts[n].payment = NoPayment
        /\ status = "PAYMENT_PENDING"
        /\ \A m \in DOMAIN attempts : m # n => attempts[m].payment # p
        /\ calls' = [calls EXCEPT ![c] = [Idle EXCEPT !.at = "Verifying", !.n = n, !.pay = p]]
        /\ UNCHANGED <<txn, attempts, terms, hold, ledger, sessions, provider>>

\* verifyCheckoutCallback, the commit: the attempt is written unconditionally,
\* and a callback event that is late or already accounted for does not throw.
CommitCallback(c) ==
    /\ At(c, "Verifying")
    /\ ApplyEvent("PAYMENT_CALLBACK_VERIFIED", "payment_provider",
                  <<"payment_verified", calls[c].n>>)
    /\ attempts' = [attempts EXCEPT ![calls[c].n].payment = calls[c].pay,
                                    ![calls[c].n].status = "VERIFIED"]
    /\ Done(c)
    /\ UNCHANGED <<terms, hold, ledger, sessions, provider>>

-----------------------------------------------------------------------------
(* The buyer at the provider (external). *)

\* A payment is made on an order a browser was given; an order takes one
\* successful payment, and a failed payment may be authorized late.
PaidOrders == {payments[p].order : p \in {q \in Payments :
                   payments[q].state \in {"authorized", "captured"}}}

PaymentFails(p) ==
    /\ payments[p].state = "none"
    /\ \E n \in sessions \ PaidOrders :
           payments' = [payments EXCEPT ![p] = [order |-> n, state |-> "failed", failed |-> TRUE]]
    /\ UNCHANGED <<txn, attempts, terms, hold, ledger, calls, sessions, orders, inflight>>

PaymentAuthorized(p) ==
    /\ \/ /\ payments[p].state = "none"
          /\ \E n \in sessions \ PaidOrders :
                 payments' = [payments EXCEPT ![p].order = n, ![p].state = "authorized"]
       \/ /\ payments[p].state = "failed" /\ payments[p].order \notin PaidOrders
          /\ payments' = [payments EXCEPT ![p].state = "authorized"]
    /\ UNCHANGED <<txn, attempts, terms, hold, ledger, calls, sessions, orders, inflight>>

PaymentCaptured(p) ==
    /\ payments[p].state = "authorized"
    /\ payments' = [payments EXCEPT ![p].state = "captured"]
    /\ UNCHANGED <<txn, attempts, terms, hold, ledger, calls, sessions, orders, inflight>>

CheckoutStep(c) ==
    \/ StartCheckout(c) \/ CommitCheckout(c) \/ CommitCallback(c)
    \/ \E p \in Payments : ReceiveCallback(c, p)

BuyerStep ==
    \E p \in Payments : PaymentFails(p) \/ PaymentAuthorized(p) \/ PaymentCaptured(p)
=============================================================================
