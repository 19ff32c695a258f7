---------------------------- MODULE PaymentRetry ----------------------------
(***************************************************************************)
(* retry-service: the deterministic gate in front of a second payment, the *)
(* release of stock when the gate ends the workflow, and the re-quote of a *)
(* stale price while the stock is still held (quote-service, policy-       *)
(* service, reservation-service), each in its own transaction.  Also the   *)
(* two buyer decisions the re-quote makes reachable: answering an approval *)
(* and reserving stock again.                                              *)
(***************************************************************************)
EXTENDS PaymentState

CapturedStates == {"PAYMENT_CAPTURED", "COMPLETED"}
RetryEntryStates == {"PAYMENT_FAILED", "AUTHORIZED"}

SomeAttempt(statuses) == \E n \in DOMAIN attempts : attempts[n].status \in statuses

\* Faulty variant: an attempt still under way does not stop a second one.
AttemptInProgressIgnored == FALSE

AttemptInProgress == SomeAttempt(LiveStatuses)

\* Faulty variant: an attempt nobody knows the outcome of counts as failed.
OutcomeUnresolvedIgnored == FALSE

OutcomeUnresolved == SomeAttempt({"RECONCILIATION_REQUIRED"})

\* Faulty variant: the limit counts further attempts, not attempts in all.
WithinAttemptLimitLoosely(used) == used <= MaxAttempts

WithinAttemptLimit(used) == used < MaxAttempts

\* evaluateRetryEligibility: the first check that applies decides.
GateChecks == <<
    <<status \in CapturedStates,                      "PAYMENT_ALREADY_CAPTURED">>,
    <<status \notin RetryEntryStates,                 "TRANSACTION_STATE_INVALID">>,
    <<SomeAttempt({"CAPTURED"}),                      "PAYMENT_ALREADY_CAPTURED">>,
    <<OutcomeUnresolved,                              "OUTCOME_UNRESOLVED">>,
    <<AttemptInProgress,                              "ATTEMPT_IN_PROGRESS">>,
    <<~WithinAttemptLimit(Len(attempts)),             "RETRY_LIMIT_REACHED">>,
    <<~quote.usable /\ HoldIsLive,                    "REQUOTE_ELIGIBLE">>,
    <<~quote.usable,                                  "FINANCIAL_FACTS_CHANGED">>,
    <<~HoldPricesQuote,                               "RESERVATION_NOT_HELD">>,
    <<~authorized,                                    "NOT_AUTHORIZED">>,
    <<TRUE,                                           "ELIGIBLE">> >>

Eligibility ==
    LET i == CHOOSE j \in DOMAIN GateChecks :
                 /\ GateChecks[j][1]
                 /\ \A k \in DOMAIN GateChecks : k < j => ~GateChecks[k][1]
    IN  GateChecks[i][2]

EndsWorkflow(denial) ==
    denial \in {"RETRY_LIMIT_REACHED", "FINANCIAL_FACTS_CHANGED", "NOT_AUTHORIZED",
                "NO_ACTIVE_QUOTE"}

NextAttemptNumber == Len(attempts) + 1

\* requestPaymentRetry: decide, then act on the decision in later steps.  A
\* denial that does not end the workflow only answers.
RequestRetry(c) ==
    /\ "RETRY" \in Requests /\ At(c, "Idle")
    /\ \/ Eligibility = "ELIGIBLE"
          /\ calls' = [calls EXCEPT ![c] =
                 [Idle EXCEPT !.at = "Check", !.retry = NextAttemptNumber]]
       \/ Eligibility = "REQUOTE_ELIGIBLE"
          /\ calls' = [calls EXCEPT ![c] =
                 [Idle EXCEPT !.at = "Requote", !.retry = NextAttemptNumber, !.n = Len(attempts)]]
       \/ EndsWorkflow(Eligibility) /\ Goto(c, "Release")
    /\ UNCHANGED <<txn, attempts, terms, hold, ledger, sessions, provider>>

\* releaseHeldStock, some time after the gate decided; a no-op on a hold that
\* is no longer ACTIVE.
ReleaseHeldStock(c) ==
    /\ At(c, "Release")
    /\ hold' = IF hold.status = "ACTIVE" THEN [hold EXCEPT !.status = "RELEASED"] ELSE hold
    /\ Done(c)
    /\ UNCHANGED <<txn, attempts, terms, ledger, sessions, provider>>

-----------------------------------------------------------------------------
(* requoteAndContinue: three transactions, then the order. *)

CycleKey(c) == <<"requote", calls[c].n>>

\* createTrustedQuote: the new quote and QUOTE_ISSUED commit together; any
\* outcome but APPLIED rolls both back, and the call fails.
IssueQuote(c) ==
    /\ At(c, "Requote")
    /\ Applies("QUOTE_ISSUED", "quote_service", CycleKey(c))
    /\ quote.id < MaxQuotes
    /\ ApplyEvent("QUOTE_ISSUED", "quote_service", CycleKey(c))
    /\ quote' = [id |-> quote.id + 1, usable |-> TRUE]
    /\ authorized' = FALSE
    /\ calls' = [calls EXCEPT ![c].at = "Evaluate", ![c].quote = quote.id + 1]
    /\ UNCHANGED <<attempts, hold, ledger, sessions, provider>>

QuoteNotIssued(c) ==
    /\ At(c, "Requote")
    /\ \/ ~Applies("QUOTE_ISSUED", "quote_service", CycleKey(c)) /\ Done(c)
       \/ Goto(c, "Release")          \* the product can no longer be quoted
    /\ UNCHANGED <<txn, attempts, terms, hold, ledger, sessions, provider>>

\* evaluateQuotePolicy: both lifecycle moves of the decision in one commit.
EvaluatePolicy(c) ==
    LET key == <<"policy", calls[c].n>>
        decided(event) == Resolve("POLICY_EVALUATED", event, "policy_engine").to
    IN  /\ At(c, "Evaluate")
        /\ quote.id = calls[c].quote /\ quote.usable
        /\ Applies("POLICY_EVALUATION_COMPLETED", "policy_engine", key)
        /\ \/ /\ status' = decided("POLICY_ALLOWED") /\ authorized' = TRUE
              /\ calls' = [calls EXCEPT ![c].at = "Rebind", ![c].kind = "ALLOWED"]
           \/ /\ status' = decided("POLICY_REQUIRES_APPROVAL") /\ UNCHANGED authorized
              /\ calls' = [calls EXCEPT ![c].at = "Rebind", ![c].kind = "APPROVAL_REQUIRED"]
           \/ /\ status' = decided("POLICY_BLOCKED") /\ UNCHANGED authorized
              /\ Goto(c, "Release")
        /\ recorded' = recorded \cup {key}
        /\ UNCHANGED <<attempts, quote, hold, ledger, sessions, provider>>

\* The new quote is already unusable again: the workflow ends.
QuoteNotUsable(c) ==
    /\ At(c, "Evaluate") /\ ~(quote.id = calls[c].quote /\ quote.usable)
    /\ Goto(c, "Release")
    /\ UNCHANGED <<txn, attempts, terms, hold, ledger, sessions, provider>>

\* requoteReservation: the live hold is told which quote now prices it.
RebindHold(c) ==
    /\ At(c, "Rebind")
    /\ hold' = IF HoldIsLive THEN [hold EXCEPT !.quote = calls[c].quote] ELSE hold
    /\ IF HoldIsLive /\ calls[c].kind = "ALLOWED"
         THEN calls' = [calls EXCEPT ![c] = [Idle EXCEPT !.at = "Check", !.retry = calls[c].retry]]
         ELSE Done(c)
    /\ UNCHANGED <<txn, attempts, terms, ledger, sessions, provider>>

-----------------------------------------------------------------------------
\* decideApproval, for the quote that is still the active one.
DecideApproval ==
    /\ status = "APPROVAL_REQUIRED"
    /\ \/ /\ quote.usable /\ authorized' = TRUE
          /\ status' = Resolve(status, "APPROVAL_GRANTED", "approval_gate").to
       \/ /\ UNCHANGED authorized
          /\ status' = Resolve(status, "APPROVAL_REJECTED", "approval_gate").to
    /\ UNCHANGED <<recorded, attempts, quote, hold, ledger, calls, sessions, provider>>

\* Faulty variant: the transaction's state is not looked at.
ReserveInAnyState ==
    /\ "RESERVE" \in Requests /\ quote.usable /\ ~HoldIsLive
    /\ hold' = [status |-> "ACTIVE", quote |-> quote.id, lapsed |-> FALSE]
    /\ status' = Resolve(status, "INVENTORY_RESERVED", "inventory_service").to
    /\ UNCHANGED <<recorded, attempts, terms, ledger, calls, sessions, provider>>

\* reserveInventory: the lapsed holds of the product are swept, stock is
\* claimed and a new hold made; one ACTIVE hold per purchase (unique index).
ReserveInventory ==
    /\ "RESERVE" \in Requests
    /\ status = "AUTHORIZED" /\ quote.usable /\ ~HoldIsLive
    /\ hold' = [status |-> "ACTIVE", quote |-> quote.id, lapsed |-> FALSE]
    /\ status' = Resolve(status, "INVENTORY_RESERVED", "inventory_service").to
    /\ UNCHANGED <<recorded, attempts, terms, ledger, calls, sessions, provider>>

RetryStep(c) ==
    \/ RequestRetry(c) \/ ReleaseHeldStock(c)
    \/ IssueQuote(c) \/ QuoteNotIssued(c)
    \/ EvaluatePolicy(c) \/ QuoteNotUsable(c) \/ RebindHold(c)
=============================================================================
