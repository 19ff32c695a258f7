---------------------------- MODULE PurchaseRules ----------------------------
(***************************************************************************)
(* The pure rules a purchase is judged by: the total of a line, the        *)
(* shopper's budget, whether a quote can still be used, and what the       *)
(* buyer's policy says of it.  No variables; amounts are integers of minor *)
(* units.  The quote, approval, policy and decision services all judge     *)
(* through these operators.                                                *)
(***************************************************************************)
EXTENDS Integers, Sequences

SupportedCurrencies == {"INR"}

NoLimit == -1

TotalAmount(unit, quantity) == unit * quantity

\* Faulty variant: an unstated scope is taken for a price per unit.
ScopePerUnit(quantity, authority) ==
    IF authority.scope = "NONE" THEN "PER_UNIT" ELSE authority.scope

\* How a stated limit applies; a quantity of one needs no decision.
Scope(quantity, authority) ==
    IF authority.scope # "NONE" THEN authority.scope
    ELSE IF quantity = 1 THEN "PER_UNIT" ELSE "TOTAL"

RespectsBudget(unit, quantity, authority) ==
    authority.max # NoLimit =>
        authority.max >= IF Scope(quantity, authority) = "PER_UNIT"
                           THEN unit ELSE TotalAmount(unit, quantity)

\* The set of the reasons that hold.
Reasons(table) == {r \in DOMAIN table : table[r]}

\* detectDisqualifyingChange: what the fresh product row has against a quote.
\* A limit without a currency is not compared here.
DisqualifyingChange(product, quantity, authority) ==
    Reasons([CURRENCY_CHANGED |->
                authority.currency # "NONE" /\ product.currency # authority.currency,
             PRODUCT_UNAVAILABLE |-> ~product.available \/ product.stock <= 0,
             INSUFFICIENT_STOCK |->
                product.available /\ product.stock > 0 /\ product.stock < quantity,
             PRICE_CHANGED |->
                /\ authority.currency # "NONE"
                /\ ~RespectsBudget(product.unit, quantity, authority)])

\* What makes a live quote unusable; the price may not move either way.
InvalidationReasons(quote, quantity, product) ==
    Reasons([CURRENCY_CHANGED |-> product.currency # quote.currency,
             PRICE_CHANGED |-> product.unit # quote.unit,
             PRODUCT_UNAVAILABLE |-> ~product.available \/ product.stock <= 0,
             INSUFFICIENT_STOCK |->
                product.available /\ product.stock > 0 /\ product.stock < quantity,
             PRODUCT_VERSION_CHANGED |-> product.version # quote.version])

\* A quote the database has retired is not brought back by fresh facts.
AssessQuote(quote, quantity, product) ==
    IF quote.status = "SUPERSEDED" THEN "INVALIDATED"
    ELSE IF quote.status = "EXPIRED" \/ quote.lapsed THEN "EXPIRED"
    ELSE IF InvalidationReasons(quote, quantity, product) # {} THEN "INVALIDATED"
    ELSE "VALID"

-----------------------------------------------------------------------------
(* evaluatePolicy: the first rule that has something to say decides. *)

NoPolicy ==
    [status |-> "NONE", currency |-> "NONE", auto |-> FALSE, limit |-> 0]

IsPayableAmount(unit, quantity, total) ==
    total > 0 /\ unit > 0 /\ quantity > 0 /\ unit * quantity = total

\* Inclusive: a limit of 300000 allows exactly 300000.
ExceedsLimit(total, policy) == total > policy.limit

PolicyRules(quote, quantity, policy) ==
    LET total == TotalAmount(quote.unit, quantity) IN
    <<<<policy = NoPolicy, "BLOCKED", "NO_POLICY_FOUND">>,
      <<policy.status # "ACTIVE", "BLOCKED", "POLICY_NOT_ACTIVE">>,
      <<quote.currency \notin SupportedCurrencies, "BLOCKED", "UNSUPPORTED_CURRENCY">>,
      <<policy.currency # quote.currency, "BLOCKED", "POLICY_CURRENCY_MISMATCH">>,
      <<~IsPayableAmount(quote.unit, quantity, total), "BLOCKED", "INVALID_QUOTE_AMOUNT">>,
      <<policy.limit < 0, "BLOCKED", "INVALID_POLICY_LIMIT">>,
      <<~policy.auto, "APPROVAL_REQUIRED", "AUTO_PURCHASE_DISABLED">>,
      <<ExceedsLimit(total, policy), "APPROVAL_REQUIRED", "EXCEEDS_AUTO_APPROVE_LIMIT">>,
      <<TRUE, "ALLOWED", "WITHIN_AUTO_APPROVE_LIMIT">>>>

Verdict(quote, quantity, policy) ==
    LET rules == PolicyRules(quote, quantity, policy)
        first == CHOOSE i \in DOMAIN rules : rules[i][1] /\ \A j \in 1 .. i - 1 : ~rules[j][1]
    IN  [decision |-> rules[first][2], reason |-> rules[first][3]]

EvaluatePolicy(quote, quantity, policy) == Verdict(quote, quantity, policy).decision

Decisions == {"BLOCKED", "APPROVAL_REQUIRED", "ALLOWED"}
=============================================================================
