-------------------------- MODULE ProductDecision --------------------------
(***************************************************************************)
(* decidePurchase: the server's own choice, from its own catalog, behind   *)
(* the agent's proposal; it opens the transaction, moves its lifecycle to  *)
(* a verified product and issues the first quote.  One decision of the     *)
(* agent may be submitted again while it is being worked on: the calls     *)
(* meet in the correlation id and in the keys made from it.                *)
(***************************************************************************)
EXTENDS BuyerAgent, TransactionMachine

CONSTANTS
    Deciders    \* calls of decidePurchase for the one decision

VARIABLES
    transactions,  \* rows of the correlation id: status, keys, product selected
    quotes,        \* purchase_quote rows
    deciders       \* the calls in progress

decisionVars == <<transactions, quotes, deciders>>

Decider(at, row, product, unit, result) ==
    [at |-> at, row |-> row, product |-> product, unit |-> unit, result |-> result]
Resting == Decider("Idle", 0, NoProduct, 0, "")

DecisionInit ==
    /\ transactions = <<>> /\ quotes = <<>>
    /\ deciders = [d \in Deciders |-> Resting]

Stands(d, stage) == deciders[d].at = stage

Step(d, at, row, product) ==
    deciders' = [deciders EXCEPT ![d] = Decider(at, row, product, 0, "")]

Result(d, result) ==
    deciders' = [deciders EXCEPT ![d] = Decider("Ended", @.row, @.product, 0, result)]

Row(d) == transactions[deciders[d].row]

-----------------------------------------------------------------------------
(* Opening. *)

WantsToBuy == run.outcome = "SELECTED" /\ run.intent.type = "PURCHASE"

Locked == LockedAuthority(run.intent)

ScopeUnresolved ==
    Locked.max # NoLimit /\ Locked.quantity > 1 /\ Locked.scope = "NONE"

\* Only a purchase whose limit is clear opens anything.  The row of the
\* correlation id is looked for first.
BeginDecision(d) ==
    /\ Stands(d, "Idle") /\ run.at = "Ended"
    /\ IF ~WantsToBuy \/ ScopeUnresolved THEN Result(d, "NOTHING_OPENED")
       ELSE IF transactions = <<>> THEN Step(d, "Opening", 0, run.product)
       ELSE Step(d, "Choosing", 1, run.product)
    /\ UNCHANGED <<transactions, quotes>>

OpenedMeanwhile == transactions # <<>>

\* createTransaction: always at the initial state; who loses the race for the
\* unique index takes the winner's row.
OpenTransaction(d) ==
    /\ Stands(d, "Opening")
    /\ IF OpenedMeanwhile
         THEN Step(d, "Choosing", 1, run.product) /\ UNCHANGED transactions
         ELSE /\ transactions' = Append(transactions, [status |-> "INTENT_RECEIVED", keys |-> {}])
              /\ Step(d, "Choosing", Len(transactions) + 1, run.product)
    /\ UNCHANGED quotes

-----------------------------------------------------------------------------
(* Choosing. *)

\* retrieveCandidates: a search below the limit, and the proposed product.
Candidates ==
    {p \in Products : Listed(p) /\ (Locked.max # NoLimit => catalog[p].unit <= Locked.max)}
        \cup {p \in {run.product} : Listed(p)}

Purchasable(p) == catalog[p].stock > 0

\* assessCandidate: every reason to refuse, not the first.
IneligibilityReasons(p) ==
    Reasons([WRONG_CATEGORY |-> Locked.kind # "any" /\ Kind[p] # Locked.kind,
             NOT_PURCHASABLE |-> ~Purchasable(p),
             INSUFFICIENT_INVENTORY |-> Purchasable(p) /\ catalog[p].stock < Locked.quantity,
             OVER_BUDGET |-> ~RespectsBudget(catalog[p].unit, Locked.quantity, Locked),
             UNMET_HARD_REQUIREMENT |-> ~HardRequirementsMet(p, Locked.requires)])

Eligible == {p \in Candidates : IneligibilityReasons(p) = {}}

\* What no product carries a field for cannot be checked.
Unverifiable == Locked.requires \ {Feature[p] : p \in Candidates}

AvailabilityRefusals == {"NOT_PURCHASABLE", "INSUFFICIENT_INVENTORY"}

\* Faulty variant: being out of stock excuses any other reason.
RefusedForAvailability(reasons) == reasons \cap AvailabilityRefusals # {}

RefusedOnlyForAvailability(reasons) == reasons # {} /\ reasons \subseteq AvailabilityRefusals

\* The cheapest first; of two at one price the catalog's order decides.
NextBest(chosen) ==
    chosen \in Eligible /\ \A p \in Eligible : catalog[chosen].unit <= catalog[p].unit

Choose(d) ==
    LET proposed == run.product
        reasons == IF proposed \in Candidates THEN IneligibilityReasons(proposed) ELSE {}
    IN
    /\ Stands(d, "Choosing")
    /\ IF Unverifiable # {} THEN Result(d, "HARD_REQUIREMENT_UNVERIFIABLE")
       ELSE IF Eligible = {} THEN Result(d, "NO_VALID_CANDIDATE")
       ELSE IF proposed \in Eligible THEN Step(d, "Confirming", deciders[d].row, proposed)
       ELSE IF RefusedOnlyForAvailability(reasons)
         THEN \E chosen \in Products :
                 NextBest(chosen) /\ Step(d, "Confirming", deciders[d].row, chosen)
       ELSE Result(d, "AI_SELECTION_REJECTED")
    /\ UNCHANGED <<transactions, quotes>>

-----------------------------------------------------------------------------
(* The lifecycle, and the quote. *)

\* A keyed transition that is applied already is not applied again.
Advance(d, event, actor) ==
    LET row == Row(d)
        to == Resolve(row.status, event, actor)
    IN  IF event \in row.keys THEN UNCHANGED transactions
        ELSE /\ to.kind = "APPLY"
             /\ transactions' = [transactions EXCEPT ![deciders[d].row] =
                                    [status |-> to.to, keys |-> row.keys \cup {event}]]

ConfirmSelection(d) ==
    /\ Stands(d, "Confirming") /\ Advance(d, "PRODUCT_SELECTION_CONFIRMED", "product_decision_engine")
    /\ Step(d, "Verifying", deciders[d].row, deciders[d].product)
    /\ UNCHANGED quotes

ConfirmVerification(d) ==
    /\ Stands(d, "Verifying") /\ Advance(d, "PRODUCT_VERIFICATION_SUCCEEDED", "merchant_service")
    /\ Step(d, "Pricing", deciders[d].row, deciders[d].product)
    /\ UNCHANGED quotes

FreshRow(p) ==
    [currency |-> "INR", available |-> catalog[p].listed /\ catalog[p].stock > 0,
     stock |-> catalog[p].stock, unit |-> catalog[p].unit]

\* Faulty variant: the quote trusts the check made when the product was chosen.
StillAsChosenAlways(p) == catalog[p].stock >= Locked.quantity

StillAsChosen(p) == DisqualifyingChange(FreshRow(p), Locked.quantity, Locked) = {}

\* createTrustedQuote: a fresh read, then quote and move in one commit; the
\* read is part of the transaction and is not repeated.
ReadForQuote(d) ==
    LET p == deciders[d].product IN
    /\ Stands(d, "Pricing")
    /\ IF StillAsChosen(p)
         THEN deciders' = [deciders EXCEPT ![d].at = "Quoting", ![d].unit = catalog[p].unit]
         ELSE Result(d, "REEVALUATION_REQUIRED")
    /\ UNCHANGED <<transactions, quotes>>

\* Found by the read, or met as the one ACTIVE quote a transaction may have.
QuoteExists(d) == \E q \in DOMAIN quotes : quotes[q].row = deciders[d].row

CreateQuote(d) ==
    /\ Stands(d, "Quoting")
    /\ IF QuoteExists(d)
         THEN /\ \E result \in {"QUOTE_CREATED", "FAILED"} : Result(d, result)
              /\ UNCHANGED <<transactions, quotes>>
         ELSE /\ Advance(d, "QUOTE_ISSUED", "quote_service")
              /\ quotes' = Append(quotes, [row |-> deciders[d].row, product |-> deciders[d].product,
                                           unit |-> deciders[d].unit,
                                           quantity |-> Locked.quantity])
              /\ Result(d, "QUOTE_CREATED")

\* The process stops; the decision may be submitted again.
DeciderCrash(d) ==
    /\ deciders[d].at \notin {"Idle", "Ended"}
    /\ deciders' = [deciders EXCEPT ![d] = Resting]
    /\ UNCHANGED <<transactions, quotes>>

DecisionStep ==
    \E d \in Deciders :
        \/ BeginDecision(d) \/ OpenTransaction(d) \/ Choose(d)
        \/ ConfirmSelection(d) \/ ConfirmVerification(d)
        \/ ReadForQuote(d) \/ CreateQuote(d) \/ DeciderCrash(d)
=============================================================================
