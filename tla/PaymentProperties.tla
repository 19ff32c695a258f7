-------------------------- MODULE PaymentProperties --------------------------
(***************************************************************************)
(* What the payment of one purchase promises: properties that hold, and,   *)
(* at the end, statements the repository makes of itself that do not.      *)
(***************************************************************************)
EXTENDS PaymentFlow

PaidWith(p) == payments[p].state = "captured"
Settled(p) == \E outcome \in {"PROCESSED", "MULTIPLE_CAPTURE"} :
                  <<<<"captured", p>>, outcome>> \in ledger

-----------------------------------------------------------------------------
(* Orders. *)

\* A purchase the buyer is shown as payable has an order id on record, stored
\* by the very commit that moved it: neither half exists without the other,
\* whatever crashed or was parked in between (finalize).
AnnouncedOrderIsStored ==
    status \in {"PAYMENT_ORDER_CREATED", "PAYMENT_PENDING", "PAYMENT_VERIFIED"} =>
        \E n \in Ordered : <<"payment_order", n>> \in recorded

\* An order id on record is an order the provider really has, although creates
\* go unanswered, arrive late, and are looked up by other calls than the one
\* that sent them.
RecordedOrdersExist == Ordered \subseteq orders

\* However many calls ask, one claim leads to at most one order at the
\* provider (the claim key and the receipt).
OneOrderPerClaim ==
    \A m, n \in orders :
        attempts[m].quote = attempts[n].quote /\ attempts[m].retry = attempts[n].retry
        => m = n

\* The rows and the provider agree about the orders there are: none is only
\* recorded, and none is the second for its claim.
OrdersMatchClaims == RecordedOrdersExist /\ OneOrderPerClaim

\* Two attempts of one purchase are never waiting for money at the same time,
\* when its calls run one after the other and the price stands.
OneLiveAttempt ==
    Cardinality({n \in DOMAIN attempts : attempts[n].status \in LiveStatuses}) <= 1

-----------------------------------------------------------------------------
(* Money. *)

\* An attempt never says CAPTURED while the purchase says otherwise, although
\* captures arrive late, for replaced orders and for purchases that moved on.
CapturedAttemptMeansPaid == SomeAttempt({"CAPTURED"}) => status \in CapturedStates

\* A payment id on an attempt is a payment made on that attempt's own order,
\* whichever of two orders the reports about it arrive for.
PaymentBindsOrder ==
    \A n \in DOMAIN attempts :
        attempts[n].payment # NoPayment => payments[attempts[n].payment].order = n

\* Two captured payments on two orders of one price never both go by as
\* ordinary when calls run one after the other: the ledger flags one for an
\* operator to refund, in whichever order they are delivered.
DoubleCaptureFlagged ==
    \A p, q \in Payments :
        Settled(p) /\ Settled(q) /\ payments[p].order # payments[q].order
        => \E e \in ledger : e[2] = "MULTIPLE_CAPTURE"

\* The purchase implements the sale of Sale.tla: booked once, only against
\* captured money, with held stock sold in the same commit and never returned.
Stock == CASE hold.status = "ACTIVE" -> "held"
           [] hold.status = "COMMITTED" -> "sold"
           [] OTHER -> "free"
Promise == INSTANCE Sale WITH
    paid <- \E p \in Payments : PaidWith(p),
    booked <- status \in CapturedStates,
    stock <- Stock
SaleKept == Promise!SaleSpec

\* While the first price stands, the money of a purchase's one payment is booked
\* in the end once it is captured: no lost answer, crash, replay or late failure
\* report leaves it unbooked.  A second payment on the order of a failed one is
\* turned away for good, and a capture that meets a re-quote is held for a
\* person (README section 4): of those this says nothing.
CapturedMoneySettles ==
    \A p \in Payments : PaidWith(p) ~> status \in CapturedStates

-----------------------------------------------------------------------------
(* Retries. *)

\* While the first price stands the attempts of one purchase never exceed the
\* limit, whoever asks for how many retries at once.  After a re-quote the
\* ordinary order path, which counts none, may exceed it (README section 4).
AttemptLimit == Len(attempts) <= MaxAttempts

\* When calls run one after the other and the price stands, a new attempt is
\* claimed only when every earlier one is known to have failed; none is merely
\* slow, unresolved or already paid.
ClaimsOnlyAfterFailure ==
    [][Len(attempts') > Len(attempts) =>
           \A n \in DOMAIN attempts : attempts[n].status = "FAILED"]_vars

\* While the first price stands, this system never announces another order to
\* pay once it has reconciled a capture, although the capture may come between
\* the gate and the order of a retry.
NoOrderAfterCapture ==
    [][status' = "PAYMENT_ORDER_CREATED" /\ status # status' => \A p \in Payments : ~Settled(p)]_vars

\* While the buyer can pay, the stock is held at the price being paid.
HoldPricedByQuote ==
    status \in {"PAYMENT_ORDER_CREATED", "PAYMENT_PENDING", "PAYMENT_VERIFIED"}
    => hold.quote = quote.id

-----------------------------------------------------------------------------
(* Statements of the repository that the code does not keep: checked, each *)
(* ends in a counterexample.  README section 4 says with which instance.   *)

Quiet == \A c \in Calls : At(c, "Idle")

\* payment-order-service: a healthy attempt is not overwritten by a caller
\* whose own commit failed; so a purchase in PAYMENT_ORDER_CREATED, with no
\* call under way, has an attempt a checkout will accept.
OrderedIsPayable ==
    status = "PAYMENT_ORDER_CREATED" /\ Quiet => PayableAttempts # {}

\* webhook-service: the attempt and the transaction cannot disagree about the
\* money; so an attempt that is CAPTURED stays so.
CapturedStays ==
    [][\A n \in DOMAIN attempts :
           attempts[n].status = "CAPTURED" => attempts'[n].status = "CAPTURED"]_vars

\* webhook-service: writing the payment id can only be new, never a
\* contradiction; so an id once recorded is never replaced.
PaymentIdKept ==
    [][\A n \in DOMAIN attempts :
           attempts[n].payment # NoPayment => attempts'[n].payment = attempts[n].payment]_vars

\* webhook-service: a capture on an order of this purchase, first payment or
\* second, is reconciled, never turned away for good.
CapturesAreReconciled ==
    \A p \in Payments, kind \in {"captured", "status"} :
        payments[p].order \in Ordered => <<<<kind, p>>, "REJECTED">> \notin ledger

\* retry-service: the page never offers a button the server would refuse; a
\* purchase the gate calls fit for a new price can be issued one.
RetryOfferKept ==
    Eligibility = "REQUOTE_ELIGIBLE" =>
        Applies("QUOTE_ISSUED", "quote_service", <<"requote", Len(attempts)>>)

\* payment-order-service: the lease on a claim lets a later retry take an
\* abandoned one over; so with no call under way a failed purchase is not
\* refused for an attempt in progress.
AbandonedClaimIsTakenOver ==
    status = "PAYMENT_FAILED" /\ Quiet => Eligibility # "ATTEMPT_IN_PROGRESS"

\* retry-service: held stock is never given back while somebody is in the
\* middle of paying for it.
HoldNotReleasedWhilePaying ==
    [][hold.status = "ACTIVE" /\ hold'.status = "RELEASED"
       => status \notin {"PAYMENT_ORDER_CREATED", "PAYMENT_PENDING", "PAYMENT_VERIFIED"}]_vars

\* docs/16: one active quote per transaction, so two prices are never payable
\* at once; the attempts a checkout will accept are for the active quote.
PayableAtActivePrice ==
    status \in {"PAYMENT_ORDER_CREATED", "PAYMENT_PENDING"} =>
        \A n \in PayableAttempts : attempts[n].quote = quote.id
=============================================================================
