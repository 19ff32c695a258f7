-------------------------------- MODULE Shop --------------------------------
(***************************************************************************)
(* submitRequest: the agent's run, then the purchase decision about what   *)
(* it proposed, while merchant and other buyers change the catalog.        *)
(***************************************************************************)
EXTENDS ProductDecision

shopVars == <<agentVars, decisionVars>>

Init == AgentInit /\ DecisionInit

Next ==
    \/ AgentStep /\ UNCHANGED decisionVars
    \/ DecisionStep /\ UNCHANGED agentVars
    \/ CatalogChanges /\ UNCHANGED decisionVars

Spec == Init /\ [][Next]_shopVars

\* The program's own steps and its timer; nothing is asked of the provider.
Fairness ==
    WF_shopVars((BeginAttempt \/ AttemptTimesOut \/ PrefetchCandidates) /\ UNCHANGED decisionVars)

FairSpec == Spec /\ Fairness

-----------------------------------------------------------------------------
(* Properties. *)

\* Runs, rows, quotes and calls are ones the services know; at most one row
\* has the correlation id.
ShopTypeOK ==
    /\ words \in WordSets /\ catalog \in [Products -> Facts]
    /\ run.at \in {"Extract", "Prefetch", "Select", "Ended"}
    /\ run.product \in Products \cup {NoProduct}
    /\ Len(transactions) <= 1
    /\ \A i \in DOMAIN transactions : transactions[i].status \in TransactionStates
    /\ \A d \in Deciders : deciders[d].row \in 0 .. Len(transactions)

\* No attempt runs past the deadline of its run, and a run asks the model a
\* bounded number of times, whatever the provider does.
AgentWithinBudget ==
    /\ ShopTypeOK
    /\ run.limit <= OverallBudget
    /\ run.calls <= MaxAttempts * (MaxIterations + 2)

\* A run ends, also with a provider that never answers.
AgentAnswers == <>(run.at = "Ended")

\* The amounts the shopper wrote as a limit, or as a bare sum.
StatedAmounts == {span.amount : span \in {s \in words.spans : s.reads \in {"CEILING", "BARE"}}}

\* Whatever model and merchant do: a quote is for the quantity that was asked
\* for, and within an amount the shopper wrote; a stated ceiling is never lost.
QuoteWithinStatedLimit ==
    \A q \in DOMAIN quotes :
        LET quote == quotes[q]
            claim == run.intent.claim
        IN  /\ quote.quantity = run.intent.quantity
            /\ CeilingStated => claim # NoClaim
            /\ claim # NoClaim =>
                  \E limit \in StatedAmounts :
                      /\ limit = claim.amount
                      /\ IF claim.scope = "PER_UNIT" THEN quote.unit <= limit
                         ELSE quote.unit * quote.quantity <= limit

\* Only what the shopper wanted to buy is quoted: of its category, meeting
\* every requirement, once however often the decision is submitted.
QuotedAsAsked ==
    /\ Len(quotes) <= 1
    /\ \A q \in DOMAIN quotes :
          LET p == quotes[q].product IN
          /\ run.intent.type = "PURCHASE"
          /\ run.intent.kind \in {"any", Kind[p]}
          /\ run.intent.requires \subseteq {Feature[p]}

\* What is quoted in the end is what the shopper's words ask for.
QuoteKeepsTheWords == QuoteWithinStatedLimit /\ QuotedAsAsked

\* Another product takes the place of the proposed one only where that one was
\* to the shopper's terms but for its stock.
SubstitutedOnlyForStock ==
    [][\A d \in Deciders :
          Stands(d, "Choosing") /\ deciders'[d].at = "Confirming" =>
              \/ deciders'[d].product = run.product
              \/ /\ catalog[run.product].stock < run.intent.quantity
                 /\ RespectsBudget(catalog[run.product].unit, run.intent.quantity, Locked)]_shopVars

\* Not kept by the code: a limit the shopper wrote for the whole order holds for
\* the whole order; what it applies to is taken from the model.
ScopeOfTheWords ==
    \A q \in DOMAIN quotes :
        words.scope = "TOTAL" /\ run.intent.claim # NoClaim =>
            quotes[q].unit * quotes[q].quantity <= run.intent.claim.amount
=============================================================================
