------------------------- MODULE TransactionMachine -------------------------
(***************************************************************************)
(* The pure transaction state machine: the lifecycle states, the events,   *)
(* the one matrix of legal moves and the adjudication of an event against  *)
(* a state.  No variables: every module that moves a transaction decides   *)
(* through Resolve, as every service does through resolveTransition.       *)
(***************************************************************************)

TerminalStates == {"COMPLETED", "BLOCKED", "CANCELLED", "EXPIRED"}

TransactionStates ==
    {"INTENT_RECEIVED", "PRODUCT_SELECTED", "PRODUCT_VERIFIED", "QUOTE_CREATED",
     "POLICY_EVALUATED", "APPROVAL_REQUIRED", "AUTHORIZED", "INVENTORY_RESERVED",
     "PAYMENT_ORDER_CREATED", "PAYMENT_PENDING", "PAYMENT_VERIFIED",
     "PAYMENT_CAPTURED", "PAYMENT_FAILED"} \cup TerminalStates

Actors ==
    {"human_user", "buyer_agent", "product_decision_engine", "merchant_service",
     "quote_service", "policy_engine", "approval_gate", "inventory_service",
     "transaction_service", "payment_provider", "payment_webhook", "system"}

AIActors == {"buyer_agent", "product_decision_engine"}

Events ==
    {"PRODUCT_SELECTION_CONFIRMED", "INTENT_REJECTED", "TRANSACTION_EXPIRED",
     "PRODUCT_VERIFICATION_SUCCEEDED", "PRODUCT_VERIFICATION_FAILED",
     "QUOTE_ISSUED", "QUOTE_EXPIRED", "POLICY_EVALUATION_COMPLETED",
     "POLICY_ALLOWED", "POLICY_REQUIRES_APPROVAL", "POLICY_BLOCKED",
     "APPROVAL_GRANTED", "APPROVAL_REJECTED", "APPROVAL_EXPIRED",
     "INVENTORY_RESERVED", "INVENTORY_UNAVAILABLE", "RESERVATION_EXPIRED",
     "PAYMENT_ORDER_CREATED", "PAYMENT_STARTED", "PAYMENT_CALLBACK_VERIFIED",
     "PAYMENT_CAPTURE_CONFIRMED", "PAYMENT_FAILED", "PAYMENT_RETRY_REQUESTED",
     "PAYMENT_WINDOW_EXPIRED", "TRANSACTION_COMPLETED", "TRANSACTION_CANCELLED"}

\* Events whose authority lies with the payment provider: they arrive late,
\* repeated and out of order, and are never a programming error.
ExternalPaymentEvents ==
    {"PAYMENT_CALLBACK_VERIFIED", "PAYMENT_CAPTURE_CONFIRMED", "PAYMENT_FAILED"}

-----------------------------------------------------------------------------
(* The matrix: [from, event, to, actors]. *)

Moves(from, event, to, actors) ==
    {[from |-> s, event |-> event, to |-> to, actors |-> actors] : s \in from}

ExpiryActors == {"system", "transaction_service"}
BothPaymentActors == {"payment_provider", "payment_webhook"}

CancelMoves ==
    Moves({"INTENT_RECEIVED", "PRODUCT_SELECTED", "PRODUCT_VERIFIED", "QUOTE_CREATED",
           "POLICY_EVALUATED", "APPROVAL_REQUIRED", "AUTHORIZED", "INVENTORY_RESERVED",
           "PAYMENT_ORDER_CREATED", "PAYMENT_FAILED"},
          "TRANSACTION_CANCELLED", "CANCELLED", {"human_user", "transaction_service"})

ExpiryMoves ==
    Moves({"INTENT_RECEIVED", "PRODUCT_SELECTED", "PRODUCT_VERIFIED"},
          "TRANSACTION_EXPIRED", "EXPIRED", ExpiryActors)
    \cup Moves({"QUOTE_CREATED", "POLICY_EVALUATED"}, "QUOTE_EXPIRED", "EXPIRED", ExpiryActors)
    \cup Moves({"APPROVAL_REQUIRED"}, "APPROVAL_EXPIRED", "EXPIRED", ExpiryActors)
    \cup Moves({"INVENTORY_RESERVED", "PAYMENT_FAILED"},
               "RESERVATION_EXPIRED", "EXPIRED", ExpiryActors)
    \cup Moves({"PAYMENT_PENDING"}, "PAYMENT_WINDOW_EXPIRED", "EXPIRED", ExpiryActors)

\* From the shopper's intent to an authorized purchase.
PurchaseMoves ==
    Moves({"INTENT_RECEIVED"}, "PRODUCT_SELECTION_CONFIRMED", "PRODUCT_SELECTED", AIActors)
    \cup Moves({"INTENT_RECEIVED"}, "INTENT_REJECTED", "BLOCKED",
               {"policy_engine", "transaction_service"})
    \cup Moves({"PRODUCT_SELECTED"}, "PRODUCT_VERIFICATION_SUCCEEDED", "PRODUCT_VERIFIED",
               {"merchant_service"})
    \cup Moves({"PRODUCT_SELECTED"}, "PRODUCT_VERIFICATION_FAILED", "BLOCKED",
               {"merchant_service", "transaction_service"})
    \cup Moves({"PRODUCT_VERIFIED", "QUOTE_CREATED", "PAYMENT_FAILED"},
               "QUOTE_ISSUED", "QUOTE_CREATED", {"quote_service"})
    \cup Moves({"QUOTE_CREATED"}, "POLICY_EVALUATION_COMPLETED", "POLICY_EVALUATED",
               {"policy_engine"})
    \cup Moves({"POLICY_EVALUATED"}, "POLICY_ALLOWED", "AUTHORIZED", {"policy_engine"})
    \cup Moves({"POLICY_EVALUATED"}, "POLICY_REQUIRES_APPROVAL", "APPROVAL_REQUIRED",
               {"policy_engine"})
    \cup Moves({"POLICY_EVALUATED"}, "POLICY_BLOCKED", "BLOCKED", {"policy_engine"})
    \cup Moves({"APPROVAL_REQUIRED"}, "APPROVAL_GRANTED", "AUTHORIZED", {"approval_gate"})
    \cup Moves({"APPROVAL_REQUIRED"}, "APPROVAL_REJECTED", "CANCELLED", {"approval_gate"})

\* Faulty variant: a retry may leave any state that has a quote.
RetryMovesFromAnywhere ==
    Moves({"QUOTE_CREATED", "AUTHORIZED", "PAYMENT_VERIFIED", "PAYMENT_CAPTURED",
           "PAYMENT_FAILED"},
          "PAYMENT_RETRY_REQUESTED", "PAYMENT_ORDER_CREATED", {"transaction_service"})

\* Every retry takes this one edge: from the failure it follows, or from the
\* fresh authority a re-quote was given.
RetryMoves ==
    Moves({"AUTHORIZED", "PAYMENT_FAILED"},
          "PAYMENT_RETRY_REQUESTED", "PAYMENT_ORDER_CREATED", {"transaction_service"})

\* Faulty variant: a late failure report undoes a capture.
FailureMovesAfterCapture ==
    Moves({"PAYMENT_PENDING", "PAYMENT_VERIFIED", "PAYMENT_CAPTURED"},
          "PAYMENT_FAILED", "PAYMENT_FAILED", BothPaymentActors)

FailureMoves ==
    Moves({"INVENTORY_RESERVED"}, "PAYMENT_FAILED", "PAYMENT_FAILED", {"payment_provider"})
    \cup Moves({"PAYMENT_ORDER_CREATED", "PAYMENT_PENDING", "PAYMENT_VERIFIED"},
               "PAYMENT_FAILED", "PAYMENT_FAILED", BothPaymentActors)

\* Faulty variant: a capture that arrives after a reported failure is ignored.
CaptureMovesWhilePending ==
    Moves({"PAYMENT_PENDING", "PAYMENT_VERIFIED"}, "PAYMENT_CAPTURE_CONFIRMED",
          "PAYMENT_CAPTURED", BothPaymentActors)

\* A capture is taken wherever money may have moved; where no callback can
\* have been seen, only the webhook may say so.
CaptureMoves ==
    Moves({"PAYMENT_PENDING", "PAYMENT_VERIFIED"}, "PAYMENT_CAPTURE_CONFIRMED",
          "PAYMENT_CAPTURED", BothPaymentActors)
    \cup Moves({"PAYMENT_ORDER_CREATED", "PAYMENT_FAILED"}, "PAYMENT_CAPTURE_CONFIRMED",
               "PAYMENT_CAPTURED", {"payment_webhook"})

\* From an authorized purchase to the money.
PaymentMoves ==
    Moves({"AUTHORIZED"}, "INVENTORY_RESERVED", "INVENTORY_RESERVED", {"inventory_service"})
    \cup Moves({"AUTHORIZED"}, "INVENTORY_UNAVAILABLE", "BLOCKED",
               {"inventory_service", "transaction_service"})
    \cup Moves({"INVENTORY_RESERVED"}, "PAYMENT_ORDER_CREATED", "PAYMENT_ORDER_CREATED",
               {"payment_provider"})
    \cup Moves({"PAYMENT_ORDER_CREATED"}, "PAYMENT_STARTED", "PAYMENT_PENDING",
               {"payment_provider", "transaction_service"})
    \cup Moves({"PAYMENT_PENDING"}, "PAYMENT_CALLBACK_VERIFIED", "PAYMENT_VERIFIED",
               {"payment_provider"})
    \cup Moves({"PAYMENT_CAPTURED"}, "TRANSACTION_COMPLETED", "COMPLETED",
               {"transaction_service"})
    \cup RetryMoves \cup FailureMoves \cup CaptureMoves

Transitions == PurchaseMoves \cup PaymentMoves \cup ExpiryMoves \cup CancelMoves

FindTransition(state, event) == {t \in Transitions : t.from = state /\ t.event = event}

-----------------------------------------------------------------------------
(* Adjudication. *)

MayTake(t, actor) == actor \in t.actors

\* A provider event this transaction has demonstrably moved past.
AlreadyAccountedFor(event, state) ==
    \/ /\ event = "PAYMENT_CALLBACK_VERIFIED"
       /\ state \in {"PAYMENT_VERIFIED", "PAYMENT_CAPTURED", "COMPLETED"}
    \/ event = "PAYMENT_CAPTURE_CONFIRMED" /\ state \in {"PAYMENT_CAPTURED", "COMPLETED"}
    \/ event = "PAYMENT_FAILED" /\ state = "PAYMENT_FAILED"

Verdicts == {"APPLY", "IDEMPOTENT_NO_OP", "LATE_EVENT", "INVALID"}

\* Resolve(...) = [kind, to]; `to` is the current state unless the move applies.
Resolve(state, event, actor) ==
    LET edges == FindTransition(state, event)
        stay(kind) == [kind |-> kind, to |-> state]
    IN  IF event \in ExternalPaymentEvents /\ AlreadyAccountedFor(event, state)
          THEN stay("IDEMPOTENT_NO_OP")
        ELSE IF edges # {}
          THEN IF \E t \in edges : MayTake(t, actor)
                 THEN [kind |-> "APPLY",
                       to |-> (CHOOSE t \in edges : MayTake(t, actor)).to]
                 ELSE stay("INVALID")
        ELSE IF event \in ExternalPaymentEvents THEN stay("LATE_EVENT")
        ELSE stay("INVALID")
=============================================================================
