---------------------------- MODULE PurchasePage ----------------------------
(***************************************************************************)
(* The purchase page: transaction-overview-service reads one purchase, the *)
(* journey and the action card are decided from that reading, and a button *)
(* leads to the service calls of PaymentFlow.  The page stores nothing and *)
(* sends a transaction id only; the server decides again on arrival, so    *)
(* what can go wrong is an offer the server refuses, or money that no      *)
(* offer leads back to.                                                    *)
(***************************************************************************)
EXTENDS Passport

-----------------------------------------------------------------------------
(* The journey. *)

JourneySteps == <<"INTENT", "PRODUCT", "QUOTE", "POLICY", "APPROVAL", "RESERVATION",
                  "PAYMENT", "CAPTURE">>

StatesOf == [
    INTENT      |-> {"INTENT_RECEIVED"},
    PRODUCT     |-> {"PRODUCT_SELECTED", "PRODUCT_VERIFIED"},
    QUOTE       |-> {"QUOTE_CREATED"},
    POLICY      |-> {"POLICY_EVALUATED", "BLOCKED"},
    APPROVAL    |-> {"APPROVAL_REQUIRED", "AUTHORIZED"},
    RESERVATION |-> {"INVENTORY_RESERVED"},
    PAYMENT     |-> {"PAYMENT_ORDER_CREATED", "PAYMENT_PENDING", "PAYMENT_VERIFIED",
                     "PAYMENT_FAILED", "CANCELLED", "EXPIRED"},
    CAPTURE     |-> {"PAYMENT_CAPTURED", "COMPLETED"}]

StepIndex(s) == CHOOSE i \in DOMAIN JourneySteps : s \in StatesOf[JourneySteps[i]]

\* The steps before the state's own are done; its own is done once the money
\* is, stopped in a halted purchase, and current otherwise.
StepStatus(s, i) ==
    FirstOf(<< <<s = "COMPLETED" \/ i < StepIndex(s), "DONE">>,
               <<i > StepIndex(s),                    "UPCOMING">>,
               <<s \in Halted,                        "STOPPED">>,
               <<s = "PAYMENT_CAPTURED",              "DONE">>,
               <<TRUE,                                "CURRENT">> >>)

-----------------------------------------------------------------------------
(* The action card. *)

\* readRetryStatus: the request's own gate, asked speculatively.
RetryAvailable == Eligibility \in {"ELIGIBLE", "REQUOTE_ELIGIBLE"}

\* Faulty variant: the hold alone decides.
PaymentPreparableByHold(s) == HoldIsLive

\* The quote must still be usable until there is an order.
PaymentPreparable(s) ==
    HoldIsLive /\ (s = "PAYMENT_ORDER_CREATED" \/ quote.usable)

\* The one action offered; "NONE" is a card without a button, or no card.
Offer(s) ==
    FirstOf(<<
        <<s = "APPROVAL_REQUIRED",                                    "DECIDE">>,
        <<s = "AUTHORIZED" /\ HoldIsLive,                             "RETRY">>,
        <<s = "AUTHORIZED",                                           "RESERVE">>,
        <<s \in {"INVENTORY_RESERVED", "PAYMENT_ORDER_CREATED"} /\ PaymentPreparable(s),
                                                                      "PAY">>,
        <<s = "PAYMENT_FAILED" /\ RetryAvailable,                     "RETRY">>,
        <<s = "COMPLETED",                                            "REFUND">>,
        <<TRUE,                                                       "NONE">> >>)

-----------------------------------------------------------------------------
(* What the server makes of a button, pressed at once. *)

\* findSettledOrder: an order made earlier is handed out again.
SettledOrder == status \in {"PAYMENT_ORDER_CREATED", "PAYMENT_PENDING"} /\ Ordered # {}

\* An order is prepared, unless there is one already ...
OrderAnswered == PreconditionsHold(0) \/ SettledOrder

\* ... and a checkout opens on it.
CheckoutAnswered ==
    /\ status \in {"PAYMENT_ORDER_CREATED", "PAYMENT_PENDING"}
    /\ PayableAttempts # {} /\ HoldIsLive

\* onPay: first the order, then the checkout.
PayPressed == OrderAnswered /\ (status = "INVENTORY_RESERVED" \/ CheckoutAnswered)

\* requestRefund looks for the captured payment to return.
RefundPressed == \E n \in DOMAIN attempts : attempts[n].status = "CAPTURED"
                     /\ attempts[n].payment # NoPayment /\ PaidWith(attempts[n].payment)

-----------------------------------------------------------------------------
(* Properties. *)

\* Wherever the page says that the money arrived, in the passport's capture
\* line or as the last step of the journey, the provider has it, paid on an
\* order of this purchase; a verified callback never adds up to that.
ShownMoneyIsMoney ==
    CaptureLine(status) = "CAPTURED" \/ StepStatus(status, Len(JourneySteps)) = "DONE" =>
        \E p \in Payments : PaidWith(p) /\ payments[p].order \in Ordered

\* A buyer who is offered Pay can pay, for stock held at the price being paid:
\* unless the authority was withdrawn meanwhile, the server neither refuses the
\* order nor the checkout, whatever lapsed, was re-quoted, or was cut short by a
\* crash.
PayOfferIsHonoured ==
    /\ HoldPricedByQuote
    /\ Offer(status) = "PAY" /\ authorized => PayPressed

\* A completed purchase can be refunded: the one captured payment is on record
\* with its id, although late reports keep coming in about every attempt.
RefundOfferIsHonoured == Offer(status) = "REFUND" => RefundPressed

\* What the attempt rows say of money is true: a payment belongs to the order
\* of its attempt, one that is captured has made the purchase paid, and the
\* refund finds it again.
AttemptsTellTheMoney ==
    PaymentBindsOrder /\ CapturedAttemptMeansPaid /\ RefundOfferIsHonoured
=============================================================================
