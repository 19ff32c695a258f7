----------------------------- MODULE BuyerAgent -----------------------------
(***************************************************************************)
(* runBuyerAgent: a language model reads the shopper's words, looks at the *)
(* catalog through a few read-only tools and proposes a product.  Whatever *)
(* it answers is checked by pure code.  The model, its provider and the    *)
(* merchant may do anything; the time of one run is bounded.               *)
(***************************************************************************)
EXTENDS PurchaseRules, FiniteSets

CONSTANTS
    Products,       \* product ids
    Facts,          \* what the merchant may say of price and stock
    Kind, Feature,  \* category and attribute of every product
    WordSets,       \* what shoppers write
    Intents,        \* what a model may make of it
    ModelRequests,  \* searches and lookups a model may ask for
    OverallBudget, AttemptTimeout, MinAttemptBudget, MaxAttempts, MaxIterations

ASSUME BuyerAgentAssumption ==
    /\ {OverallBudget, AttemptTimeout, MinAttemptBudget, MaxAttempts} \subseteq Nat \ {0}
    /\ MaxIterations \in Nat /\ MinAttemptBudget <= AttemptTimeout
    /\ Facts \subseteq [unit : Nat, stock : Nat, listed : BOOLEAN]
    /\ ModelRequests \subseteq SUBSET Products
    /\ \A intent \in Intents :
          /\ intent.quantity \in Nat \ {0} /\ intent.claim.amount \in Int
          /\ intent.claim.scope \in {"PER_UNIT", "TOTAL", "NONE"}

VARIABLES
    words,     \* what the shopper wrote
    catalog,   \* the product rows
    run        \* the one run of the agent

agentVars == <<words, catalog, run>>

NoProduct == "none"
Unreadable == 0

\* The text a limit could be read from: what it reads as, and its amount.
Span(reads, amount) == [reads |-> reads, amount |-> amount]

\* A limit the model claims to have read there.
Claim(explicit, amount, span, scope) ==
    [explicit |-> explicit, amount |-> amount, span |-> span, scope |-> scope]
NoClaim == Claim(FALSE, 0, Span("NONE", Unreadable), "NONE")

\* What the model makes of the words.
Intent(type, quantity, claim, kind, requires, unclear) ==
    [type |-> type, quantity |-> quantity, claim |-> claim, kind |-> kind,
     requires |-> requires, unclear |-> unclear]
NoIntent == Intent("NONE", 0, NoClaim, "any", {}, FALSE)

\* limit: the moment at which the attempt under way is given up.
InitialRun ==
    [at |-> "Extract", attempt |-> 1, turn |-> 0, spent |-> 0, limit |-> 0, calls |-> 0,
     intent |-> NoIntent, observed |-> {}, outcome |-> "", product |-> NoProduct]

AgentInit ==
    /\ words \in WordSets
    /\ catalog \in [Products -> Facts]
    /\ run = InitialRun

\* The run ends; its time and counters are of no more use.
End(outcome, product) ==
    run' = [InitialRun EXCEPT !.at = "Ended", !.outcome = outcome, !.product = product,
                              !.intent = run.intent, !.observed = run.observed]

Fail == End("ERROR", NoProduct)

Asking == run.at \in {"Extract", "Select"}
Waiting == Asking /\ run.limit > 0

-----------------------------------------------------------------------------
(* withRetry and withAttemptBudget *)

Remaining == OverallBudget - run.spent

\* Faulty variant: every attempt gets the full timeout.
AttemptBudgetUncapped == AttemptTimeout

AttemptBudget == IF Remaining < AttemptTimeout THEN Remaining ELSE AttemptTimeout

\* Nothing is begun that has no chance to end in time.
BeginAttempt ==
    /\ Asking /\ ~Waiting
    /\ IF Remaining < MinAttemptBudget THEN Fail
       ELSE run' = [run EXCEPT !.limit = run.spent + AttemptBudget, !.calls = @ + 1]
    /\ UNCHANGED <<words, catalog>>

\* Moments at which a provider that answers at all may do so.
Moments == run.spent + 1 .. run.limit - 1

\* The run once the provider answered.
Answered(t) == [run EXCEPT !.spent = t, !.limit = 0, !.attempt = 1]

\* A failed attempt: a pause that never takes time the run has not got.
FailedAt(t, retryable) ==
    IF ~retryable \/ run.attempt = MaxAttempts THEN Fail
    ELSE \E pause \in {0, 1} :
            run' = [run EXCEPT !.spent = IF pause > OverallBudget - t THEN t ELSE t + pause,
                               !.limit = 0, !.attempt = @ + 1]

ProviderFails ==
    /\ Waiting
    /\ \E t \in Moments, retryable \in BOOLEAN : FailedAt(t, retryable)
    /\ UNCHANGED <<words, catalog>>

\* Faulty variant: the abort is asked for, and trusted to be heeded.
AttemptTimesOutIfHeeded == FALSE /\ UNCHANGED agentVars

\* The timer settles the attempt, whether or not the provider heeds the abort.
AttemptTimesOut ==
    /\ Waiting /\ FailedAt(run.limit, TRUE)
    /\ UNCHANGED <<words, catalog>>

-----------------------------------------------------------------------------
(* The shopper's authority. *)

\* verifyBudgetClaim: the amount is read again from the shopper's own words.
Verified(claim) ==
    /\ claim.explicit /\ claim.amount > 0
    /\ claim.span \in words.spans /\ claim.span.reads \in {"CEILING", "BARE"}
    /\ claim.span.amount # Unreadable /\ claim.span.amount = claim.amount

\* messageStatesACeiling
CeilingStated == \E span \in words.spans : span.reads = "CEILING"

HasLimit(intent) == intent.claim # NoClaim /\ Verified(intent.claim)

LockedAuthority(intent) ==
    LET claim == intent.claim IN
    [max |-> IF HasLimit(intent) THEN claim.amount ELSE NoLimit,
     currency |-> IF HasLimit(intent) THEN "INR" ELSE "NONE",
     scope |-> IF ~HasLimit(intent) THEN "NONE"
               ELSE IF claim.scope = "NONE" /\ intent.quantity = 1 THEN "PER_UNIT"
               ELSE claim.scope,
     quantity |-> intent.quantity, kind |-> intent.kind, requires |-> intent.requires]

NeedsClarification(intent) ==
    \/ intent.unclear
    \/ intent.claim # NoClaim /\ ~Verified(intent.claim)
    \/ HasLimit(intent) /\ intent.quantity > 1 /\ LockedAuthority(intent).scope = "NONE"
    \/ intent.claim = NoClaim /\ CeilingStated

\* An answer that does not parse, or is not of the schema, ends the run.
ExtractIntent ==
    /\ Waiting /\ run.at = "Extract"
    /\ \E t \in Moments :
          \/ Fail
          \/ \E intent \in Intents :
                IF NeedsClarification(intent)
                  THEN run' = [InitialRun EXCEPT !.at = "Ended", !.outcome = "CLARIFY",
                                                 !.intent = intent]
                  ELSE run' = [Answered(t) EXCEPT !.at = "Prefetch", !.intent = intent]
    /\ UNCHANGED <<words, catalog>>

-----------------------------------------------------------------------------
(* The catalog, as the tools show it. *)

\* A sighting: the product and what was said of it.
Sighting(p) == [product |-> p, unit |-> catalog[p].unit, stock |-> catalog[p].stock]

Listed(p) == catalog[p].listed

\* A search of one category and below a price per unit.
Search(kind, max) ==
    {p \in Products :
        /\ Listed(p) /\ kind \in {"any", Kind[p]}
        /\ max # NoLimit => catalog[p].unit <= max}

\* observed keeps the last sighting of every product.
Observe(seen) ==
    {s \in run.observed : s.product \notin seen} \cup {Sighting(p) : p \in seen}

\* prefetchCandidates: a limit for the whole order is no price filter.
PrefetchCandidates ==
    LET authority == LockedAuthority(run.intent)
        perUnit == authority.scope = "PER_UNIT" \/ authority.quantity = 1
    IN
    /\ run.at = "Prefetch"
    /\ run' = [run EXCEPT !.at = "Select",
                          !.observed = Observe(Search(authority.kind,
                                                      IF perUnit THEN authority.max ELSE NoLimit))]
    /\ UNCHANGED <<words, catalog>>

\* executeCatalogTool: what a search or a lookup shows; a refused, a mistaken
\* or an unknown call shows none.
ToolShows(asked) == {p \in asked : Listed(p)}

\* The model asks for tools.  The calls of a turn are taken together.
UseTools ==
    /\ Waiting /\ run.at = "Select"
    /\ \E t \in Moments :
          IF run.turn = MaxIterations \/ OverallBudget - t < MinAttemptBudget THEN Fail
          ELSE \E asked \in ModelRequests :
                  run' = [Answered(t) EXCEPT !.turn = @ + 1,
                                             !.observed = Observe(ToolShows(asked))]
    /\ UNCHANGED <<words, catalog>>

-----------------------------------------------------------------------------
(* The deterministic gate. *)

HardRequirementsMet(p, requires) == requires \subseteq {Feature[p]}

Observed(p) == {s \in run.observed : s.product = p}

\* validateSelection compares the price of one unit, whatever the scope.
SelectionValid(p, quantity, authority) ==
    \E s \in Observed(p) :
        /\ s.stock > 0 /\ s.stock >= quantity /\ quantity = authority.quantity
        /\ authority.max # NoLimit => s.unit <= authority.max
        /\ HardRequirementsMet(p, authority.requires)

\* The final answer: a question, no match, or a product of whatever provenance.
Propose ==
    /\ Waiting /\ run.at = "Select"
    /\ \/ End("CLARIFY", NoProduct) \/ End("NO_MATCH", NoProduct)
       \/ \E p \in Products, quantity \in {1, 2} :
             IF SelectionValid(p, quantity, LockedAuthority(run.intent))
               THEN End("SELECTED", p) ELSE Fail
    /\ UNCHANGED <<words, catalog>>

AgentStep ==
    \/ BeginAttempt \/ ProviderFails \/ AttemptTimesOut
    \/ ExtractIntent \/ PrefetchCandidates \/ UseTools \/ Propose

\* The merchant's and other buyers' changes.
CatalogChanges ==
    /\ \E p \in Products, facts \in Facts :
          /\ catalog[p] # facts
          /\ catalog' = [catalog EXCEPT ![p] = facts]
    /\ UNCHANGED <<words, run>>
=============================================================================
