---------------------------- MODULE MCLifecycle ----------------------------
(***************************************************************************)
(* Instance of Lifecycle for TLC: two concurrent callers and the commands  *)
(* of the main line, the re-quote and retry cycles, both capture sources,  *)
(* an AI actor that asks for more than it may, and a stray cancellation.   *)
(***************************************************************************)
EXTENDS Lifecycle

CONSTANTS c1, c2

MCCallers == {c1, c2}

Ask(event, actor, key) == [event |-> event, actor |-> actor, key |-> key]

MainLine ==
    {Ask("PRODUCT_SELECTION_CONFIRMED", "buyer_agent", NoKey),
     Ask("PRODUCT_VERIFICATION_SUCCEEDED", "merchant_service", NoKey),
     Ask("QUOTE_ISSUED", "quote_service", "quote:1"),
     Ask("POLICY_EVALUATION_COMPLETED", "policy_engine", NoKey),
     Ask("POLICY_ALLOWED", "policy_engine", NoKey),
     Ask("INVENTORY_RESERVED", "inventory_service", NoKey),
     Ask("PAYMENT_ORDER_CREATED", "payment_provider", "order:1"),
     Ask("PAYMENT_STARTED", "payment_provider", "started:1"),
     Ask("PAYMENT_CAPTURE_CONFIRMED", "payment_webhook", "webhook:1"),
     Ask("TRANSACTION_COMPLETED", "transaction_service", NoKey)}

Detours ==
    {Ask("QUOTE_ISSUED", "quote_service", "quote:2"),
     Ask("POLICY_REQUIRES_APPROVAL", "policy_engine", NoKey),
     Ask("APPROVAL_GRANTED", "approval_gate", NoKey),
     Ask("PAYMENT_FAILED", "payment_webhook", "webhook:2"),
     Ask("PAYMENT_RETRY_REQUESTED", "transaction_service", "order:2"),
     Ask("PAYMENT_CALLBACK_VERIFIED", "payment_provider", NoKey),
     Ask("PAYMENT_CAPTURE_CONFIRMED", "payment_provider", "status:1")}

Strays ==
    {Ask("POLICY_ALLOWED", "buyer_agent", NoKey),
     Ask("PAYMENT_CAPTURE_CONFIRMED", "buyer_agent", NoKey),
     Ask("TRANSACTION_CANCELLED", "human_user", NoKey),
     Ask("PAYMENT_WINDOW_EXPIRED", "system", NoKey)}

MCCommands == MainLine \cup Detours \cup Strays
=============================================================================
