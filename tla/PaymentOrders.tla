---------------------------- MODULE PaymentOrders ----------------------------
(***************************************************************************)
(* Creating the provider order: payment-order-service and the provider     *)
(* adapter's create and lookup.  Preconditions, then the durable claim,    *)
(* then the external call, then one local commit; and the two endings that *)
(* are not success.  Several calls may run this for one purchase.          *)
(***************************************************************************)
EXTENDS PaymentState

\* The state an order may be created from.
RequiredState(retry) ==
    IF retry = 0 THEN "INVENTORY_RESERVED"
    ELSE IF status = "AUTHORIZED" THEN "AUTHORIZED" ELSE "PAYMENT_FAILED"

\* Quote, stock hold and authority, all re-read at the moment of use.
PreconditionsHold(retry) ==
    /\ status = RequiredState(retry)
    /\ quote.usable
    /\ HoldPricesQuote
    /\ authorized

\* createPaymentOrder up to the claim, for a first order.  Refusals and the
\* replay of an order already made read and answer: no step.
RequestOrder(c) ==
    /\ "ORDER" \in Requests /\ At(c, "Idle")
    /\ PreconditionsHold(0)
    /\ calls' = [calls EXCEPT ![c] = [Idle EXCEPT !.at = "Claim", !.quote = quote.id]]
    /\ UNCHANGED <<txn, attempts, terms, hold, ledger, sessions, provider>>

\* The same for a retry the gate has granted; a refusal ends the call.
RetryOrder(c) ==
    /\ At(c, "Check")
    /\ IF PreconditionsHold(calls[c].retry)
         THEN calls' = [calls EXCEPT ![c].at = "Claim", ![c].quote = quote.id]
         ELSE Done(c)
    /\ UNCHANGED <<txn, attempts, terms, hold, ledger, sessions, provider>>

ClaimedBy(c) ==
    {n \in DOMAIN attempts :
        attempts[n].quote = calls[c].quote /\ attempts[n].retry = calls[c].retry}

\* Faulty variant: no unique key; the caller that read no row inserts one.
ClaimAttemptUnkeyed(c) ==
    /\ At(c, "Claim") /\ LastAttempt < MaxRows
    /\ attempts' = Append(attempts,
           [quote |-> calls[c].quote, retry |-> calls[c].retry, status |-> "CREATED",
            order |-> FALSE, payment |-> NoPayment])
    /\ calls' = [calls EXCEPT ![c].at = "Create", ![c].n = LastAttempt + 1]
    /\ UNCHANGED <<txn, terms, hold, ledger, sessions, provider>>

\* The insert won: this call owns the right to ask the provider.
ClaimAttempt(c) ==
    /\ At(c, "Claim") /\ ClaimedBy(c) = {}
    /\ LastAttempt < MaxRows
    /\ attempts' = Append(attempts,
           [quote |-> calls[c].quote, retry |-> calls[c].retry, status |-> "CREATED",
            order |-> FALSE, payment |-> NoPayment])
    /\ calls' = [calls EXCEPT ![c].at = "Create", ![c].n = LastAttempt + 1]
    /\ UNCHANGED <<txn, terms, hold, ledger, sessions, provider>>

\* Faulty variant: a parked attempt is taken to have its order.
MeaningOfRowTrusting(row) ==
    IF row.order \/ row.status = "RECONCILIATION_REQUIRED" THEN "Finalize" ELSE "Lookup"

\* FAILED falls through to a fresh create.
MeaningOfRow(row) ==
    CASE row.order -> "Finalize"
      [] ~row.order /\ row.status = "FAILED" -> "Create"
      [] ~row.order /\ row.status = "CREATED" -> "Lookup"
      [] OTHER -> "LookupParked"

\* The unique claim key refused the insert: what the existing row means.
JoinAttempt(c) ==
    /\ At(c, "Claim")
    /\ \E n \in ClaimedBy(c) :
           calls' = [calls EXCEPT ![c].at = MeaningOfRow(attempts[n]), ![c].n = n]
    /\ UNCHANGED <<txn, attempts, terms, hold, ledger, sessions, provider>>

\* findOrderByReceipt: what asking the provider for an attempt's receipt may
\* bring.  An answer that cannot be read counts as none.
OrderLookup(n) ==
    {IF n \in orders THEN "FOUND" ELSE "NOT_FOUND"}
        \cup (IF "LOST_ANSWER" \in World THEN {"FAILED"} ELSE {})

\* Somebody else's claim, or a parked attempt: found, finish the local half;
\* not found, create (for a live claim only when its lease has run out, which
\* time alone decides); no answer, stop.
LookupReceipt(c) ==
    /\ At(c, "Lookup") \/ At(c, "LookupParked")
    /\ \E answer \in OrderLookup(calls[c].n) :
           \/ answer = "FOUND" /\ Goto(c, "Finalize")
           \/ answer = "NOT_FOUND" /\ Goto(c, "Create")
           \/ answer = "NOT_FOUND" /\ At(c, "Lookup") /\ Done(c)
           \/ answer = "FAILED" /\ Done(c)
    /\ UNCHANGED <<txn, attempts, terms, hold, ledger, sessions, provider>>

\* POST /orders was answered; a receipt that already has an order gets that one.
CreateOrder(c) ==
    /\ At(c, "Create")
    /\ orders' = orders \cup {calls[c].n}
    /\ Goto(c, "Finalize")
    /\ UNCHANGED <<txn, attempts, terms, hold, ledger, sessions, inflight, payments>>

\* Credentials refused or rate-limited: nothing was created, no lookup.
CreateRefused(c) ==
    /\ "REFUSED_POST" \in World /\ At(c, "Create")
    /\ Goto(c, "Fail")
    /\ UNCHANGED <<txn, attempts, terms, hold, ledger, sessions, provider>>

\* Any other ending: the order may exist, may not, or may still be on its way.
CreateUnanswered(c) ==
    /\ "LOST_ANSWER" \in World /\ At(c, "Create")
    /\ \/ orders' = orders \cup {calls[c].n} /\ UNCHANGED inflight
       \/ UNCHANGED <<orders, inflight>>
       \/ /\ "LATE_POST" \in World /\ inflight' = inflight \cup {calls[c].n}
          /\ UNCHANGED orders
    /\ Goto(c, "Recover")
    /\ UNCHANGED <<txn, attempts, terms, hold, ledger, sessions, payments>>

ProviderProcessesLatePost(n) ==
    /\ n \in inflight
    /\ inflight' = inflight \ {n} /\ orders' = orders \cup {n}
    /\ UNCHANGED <<txn, attempts, terms, hold, ledger, calls, sessions, payments>>

\* resolveByLookup: found means created, not found counts as definitely not
\* created, and only a failed lookup leaves the outcome unknown.
ResolveByLookup(c) ==
    /\ At(c, "Recover")
    /\ \E answer \in OrderLookup(calls[c].n) :
           \/ answer = "FOUND" /\ Goto(c, "Finalize")
           \/ answer = "NOT_FOUND" /\ Goto(c, "Fail")
           \/ answer = "FAILED" /\ Goto(c, "Park")
    /\ UNCHANGED <<txn, attempts, terms, hold, ledger, sessions, provider>>

-----------------------------------------------------------------------------
(* The endings. *)

OrderEvent(c) == IF calls[c].retry = 0 THEN "PAYMENT_ORDER_CREATED" ELSE "PAYMENT_RETRY_REQUESTED"
OrderActor(c) == IF calls[c].retry = 0 THEN "payment_provider" ELSE "transaction_service"

OrderKey(c) == <<"payment_order", calls[c].n>>

\* Faulty variant: the lifecycle moves, the order id is left for later.
FinalizeWithoutOrder(c) ==
    /\ At(c, "Finalize")
    /\ ApplyEvent(OrderEvent(c), OrderActor(c), OrderKey(c))
    /\ attempts' = Set(calls[c].n, "status", "CREATED")
    /\ Done(c)
    /\ UNCHANGED <<terms, hold, ledger, sessions, provider>>

\* finalize: order id, status CREATED and lifecycle move in one commit.  The
\* attempt row is written unconditionally.
Finalize(c) ==
    /\ At(c, "Finalize")
    /\ ApplyEvent(OrderEvent(c), OrderActor(c), OrderKey(c))
    /\ attempts' = [attempts EXCEPT ![calls[c].n].order = TRUE,
                                    ![calls[c].n].status = "CREATED"]
    /\ Done(c)
    /\ UNCHANGED <<terms, hold, ledger, sessions, provider>>

\* The commit rolled back (refused by the machine, or the database failed):
\* somebody else finalized this attempt, or it is parked with its order id.
FinalizeRolledBack(c) ==
    LET row == attempts[calls[c].n]
    IN  /\ At(c, "Finalize")
        /\ "CRASH" \in World \/ ~Accepts(OrderEvent(c), OrderActor(c), OrderKey(c))
        /\ IF row.order /\ row.status = "CREATED" THEN Done(c) ELSE Goto(c, "ParkOrder")
        /\ UNCHANGED <<txn, attempts, terms, hold, ledger, sessions, provider>>

\* recordDefiniteFailure: the attempt alone; no lifecycle event, hold kept.
RecordDefiniteFailure(c) ==
    /\ At(c, "Fail")
    /\ attempts' = Set(calls[c].n, "status", "FAILED")
    /\ Done(c)
    /\ UNCHANGED <<txn, terms, hold, ledger, sessions, provider>>

\* parkForReconciliation, with the order id when one was learned.
ParkForReconciliation(c) ==
    /\ At(c, "Park") \/ At(c, "ParkOrder")
    /\ attempts' = [attempts EXCEPT ![calls[c].n].status = "RECONCILIATION_REQUIRED",
                                    ![calls[c].n].order = @ \/ At(c, "ParkOrder")]
    /\ Done(c)
    /\ UNCHANGED <<txn, terms, hold, ledger, sessions, provider>>

OrderStep(c) ==
    \/ RequestOrder(c) \/ RetryOrder(c) \/ ClaimAttempt(c) \/ JoinAttempt(c)
    \/ LookupReceipt(c) \/ CreateOrder(c) \/ CreateRefused(c) \/ CreateUnanswered(c)
    \/ ResolveByLookup(c) \/ Finalize(c) \/ FinalizeRolledBack(c)
    \/ RecordDefiniteFailure(c) \/ ParkForReconciliation(c)
=============================================================================
