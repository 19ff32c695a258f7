----------------------------- MODULE PaymentFlow -----------------------------
(***************************************************************************)
(* The payment of one purchase: every service call that touches it, the    *)
(* buyer, the provider and the passage of time, interleaved.               *)
(***************************************************************************)
EXTENDS PaymentOrders, Checkout, Webhook, PaymentRetry

\* A process dies: its database transaction, if any, rolled back.
Crash(c) ==
    /\ "CRASH" \in World /\ ~At(c, "Idle")
    /\ Done(c)
    /\ UNCHANGED <<txn, attempts, terms, hold, ledger, sessions, provider>>

QuoteGoesStale ==
    /\ "STALE_QUOTE" \in World /\ quote.usable
    /\ quote' = [quote EXCEPT !.usable = FALSE]
    /\ UNCHANGED <<txn, attempts, authorized, hold, ledger, calls, sessions, provider>>

HoldLapses ==
    /\ "LAPSED_HOLD" \in World /\ hold.status = "ACTIVE" /\ ~hold.lapsed
    /\ hold' = [hold EXCEPT !.lapsed = TRUE]
    /\ UNCHANGED <<txn, attempts, terms, ledger, calls, sessions, provider>>

\* releaseLapsedReservations, run by another purchase of the same product.
SweepHold ==
    /\ hold.status = "ACTIVE" /\ hold.lapsed
    /\ hold' = [hold EXCEPT !.status = "EXPIRED"]
    /\ UNCHANGED <<txn, attempts, terms, ledger, calls, sessions, provider>>

PolicyRevised ==
    /\ "POLICY" \in World
    /\ authorized' = ~authorized
    /\ UNCHANGED <<txn, attempts, quote, hold, ledger, calls, sessions, provider>>

WorldStep ==
    \/ QuoteGoesStale \/ HoldLapses \/ SweepHold \/ PolicyRevised
    \/ \E n \in AttemptNumbers : ProviderProcessesLatePost(n)

Next ==
    \/ \E c \in Calls : OrderStep(c) \/ CheckoutStep(c) \/ WebhookStep(c) \/ RetryStep(c) \/ Crash(c)
    \/ BuyerStep \/ DecideApproval \/ ReserveInventory \/ WorldStep

Spec == Init /\ [][Next]_vars

-----------------------------------------------------------------------------
(* Fairness.  A handler that has started goes on (or crashes); the provider *)
(* delivers a capture until it is acknowledged, and a delivery that is      *)
(* retried for ever is not crashed every time.                              *)

Work(c) == ~At(c, "Idle") /\ (OrderStep(c) \/ CheckoutStep(c) \/ WebhookStep(c) \/ RetryStep(c))

Fairness ==
    /\ \A c \in Calls : WF_vars(Work(c)) /\ SF_vars(CommitReconciliation(c))
    /\ \A p \in Payments : SF_vars(\E c \in Calls : ReceiveWebhook(c, "captured", p))

FairSpec == Spec /\ Fairness
=============================================================================
