---------------------------- MODULE PaymentState ----------------------------
(***************************************************************************)
(* What the payment services share: the rows of one authorized purchase    *)
(* that holds stock, the payment provider's own records, and the service   *)
(* calls in progress.  The handlers are in PaymentOrders, Checkout,        *)
(* Webhook and PaymentRetry; PaymentFlow composes them.                    *)
(*                                                                         *)
(* A database transaction is one step, and so is every call to the         *)
(* provider.  What a handler reads before it acts is one step too, apart   *)
(* from the action, because other calls run in between; the several        *)
(* queries of one such read are not interleaved with each other.           *)
(***************************************************************************)
EXTENDS TransactionMachine, Naturals, Sequences, FiniteSets

CONSTANTS
    Calls,         \* service calls that may be in progress at the same time
    Payments,      \* payments the buyer makes at the provider
    NoPayment,     \* a payment column that is null
    Requests,      \* the kinds of request the callers make
    World,         \* what may go wrong or change around the services
    MaxAttempts,   \* MAX_PAYMENT_ATTEMPTS
    MaxRows,       \* bound: payment_attempt rows
    MaxQuotes      \* bound: quotes ever issued

RequestKinds == {"ORDER", "CHECKOUT", "CALLBACK", "STATUS", "RETRY", "RESERVE"}
WorldEvents ==
    {"CRASH",            \* a process dies, or its database write fails
     "REFUSED_POST",     \* the provider refuses credentials or rate-limits
     "LOST_ANSWER",      \* a provider call is not answered
     "LATE_POST",        \* an unanswered create is processed after the lookup
     "STALE_QUOTE",      \* the quote expires or the product changes
     "LAPSED_HOLD",      \* the stock hold passes its expiry, and is swept
     "POLICY"}           \* the buyer revises the policy

ASSUME PaymentAssumption ==
    /\ Requests \subseteq RequestKinds /\ World \subseteq WorldEvents
    /\ MaxAttempts \in Nat \ {0} /\ MaxRows \in Nat /\ MaxQuotes \in Nat \ {0}
    /\ NoPayment \notin Payments

VARIABLES
    status,      \* transaction.status
    recorded,    \* idempotency keys of the transition history
    attempts,    \* payment_attempt rows, by attempt number
    quote,       \* the ACTIVE quote: its number, and whether it is usable now
    authorized,  \* what recheckPolicyAuthorization would answer now
    hold,        \* the newest inventory_reservation row
    ledger,      \* webhook_event rows: what became of each delivery
    calls,       \* the service calls in progress
    sessions,    \* attempts whose order id a browser was given to pay
    orders,      \* at the provider: the receipts that have an order
    inflight,    \* at the provider: unanswered creates not yet processed
    payments     \* at the provider: the buyer's payments

txn == <<status, recorded>>
terms == <<quote, authorized>>
provider == <<orders, inflight, payments>>
vars == <<status, recorded, attempts, quote, authorized, hold, ledger, calls,
          sessions, orders, inflight, payments>>

-----------------------------------------------------------------------------
(* Rows and records. *)

AttemptStatuses == {"CREATED", "VERIFIED", "CAPTURED", "FAILED", "RECONCILIATION_REQUIRED"}
LiveStatuses == {"CREATED", "VERIFIED"}
HoldStatuses == {"ACTIVE", "COMMITTED", "RELEASED", "EXPIRED"}
AttemptNumbers == 1 .. MaxRows

\* The claim key: the quote, and the retry's number (0 for a first order).
\* `order`: provider_order_id is recorded; the receipt, and so the order, is
\* the attempt's own.
Attempts ==
    [quote : 1 .. MaxQuotes, retry : 0 .. MaxRows + 1, status : AttemptStatuses,
     order : BOOLEAN, payment : Payments \cup {NoPayment}]

\* A delivery: a webhook event, or a status check's answer, about one payment.
EventIds == {"failed", "captured", "status"} \X Payments
LedgerOutcomes == {"PROCESSED", "MULTIPLE_CAPTURE", "REJECTED"}

\* A payment is made on an order; it may be reported failed and still be
\* authorized later, and an authorized payment may be captured.
PaymentStates == {"none", "failed", "authorized", "captured"}

Stages ==
    {"Idle", "Check", "Claim", "Lookup", "LookupParked", "Create", "Recover", "Finalize", "Fail",
     "Park", "ParkOrder", "Starting", "Verifying", "Asking", "Reconciling",
     "Release", "Requote", "Evaluate", "Rebind"}

CallRecords ==
    [at : Stages, retry : 0 .. MaxRows + 1, quote : 0 .. MaxQuotes, n : 0 .. MaxRows,
     pay : Payments \cup {NoPayment},
     kind : {"none", "failed", "captured", "status", "ALLOWED", "APPROVAL_REQUIRED"}]

Idle == [at |-> "Idle", retry |-> 0, quote |-> 0, n |-> 0, pay |-> NoPayment, kind |-> "none"]

PaymentTypeOK ==
    /\ status \in TransactionStates
    /\ attempts \in Seq(Attempts) /\ Len(attempts) <= MaxRows
    /\ recorded \subseteq ({"payment_order", "checkout_started", "payment_verified",
                            "requote", "policy", "reservation"} \X (0 .. MaxRows)) \cup EventIds
    /\ quote \in [id : 1 .. MaxQuotes, usable : BOOLEAN]
    /\ authorized \in BOOLEAN
    /\ hold \in [status : HoldStatuses, quote : 1 .. MaxQuotes, lapsed : BOOLEAN]
    /\ ledger \subseteq EventIds \X LedgerOutcomes
    /\ calls \in [Calls -> CallRecords]
    /\ sessions \subseteq AttemptNumbers
    /\ orders \subseteq AttemptNumbers /\ inflight \subseteq AttemptNumbers
    /\ payments \in [Payments -> [order : 0 .. MaxRows, state : PaymentStates,
                                  failed : BOOLEAN]]

\* A purchase whose stock has just been reserved under its first quote.
Init ==
    /\ status = "INVENTORY_RESERVED" /\ recorded = {} /\ attempts = <<>>
    /\ quote = [id |-> 1, usable |-> TRUE] /\ authorized = TRUE
    /\ hold = [status |-> "ACTIVE", quote |-> 1, lapsed |-> FALSE]
    /\ ledger = {} /\ calls = [c \in Calls |-> Idle] /\ sessions = {}
    /\ orders = {} /\ inflight = {}
    /\ payments = [p \in Payments |-> [order |-> 0, state |-> "none", failed |-> FALSE]]

-----------------------------------------------------------------------------
(* Helpers of the handlers. *)

At(c, stage) == calls[c].at = stage
Goto(c, stage) == calls' = [calls EXCEPT ![c].at = stage]
Done(c) == calls' = [calls EXCEPT ![c] = Idle]

Set(n, field, value) == [attempts EXCEPT ![n][field] = value]
LastAttempt == Len(attempts)
Ordered == {n \in DOMAIN attempts : attempts[n].order}
Newest(ns) == CHOOSE n \in ns : \A m \in ns : m <= n

HoldIsLive == hold.status = "ACTIVE" /\ ~hold.lapsed

HoldPricesQuote == HoldIsLive /\ hold.quote = quote.id

\* applyTransactionEventWithin, inside the handler's database transaction: a
\* recorded key changes nothing; an invalid event throws, so a handler whose
\* transaction applies an event needs Accepts.
Adjudicate(event, actor, key) ==
    IF key \in recorded THEN [kind |-> "IDEMPOTENT_NO_OP", to |-> status]
                        ELSE Resolve(status, event, actor)
Accepts(event, actor, key) == Adjudicate(event, actor, key).kind # "INVALID"
Applies(event, actor, key) == Adjudicate(event, actor, key).kind = "APPLY"
ApplyEvent(event, actor, key) ==
    /\ Accepts(event, actor, key)
    /\ status' = Adjudicate(event, actor, key).to
    /\ recorded' = IF Applies(event, actor, key) THEN recorded \cup {key} ELSE recorded
=============================================================================
