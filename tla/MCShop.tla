------------------------------- MODULE MCShop -------------------------------
(***************************************************************************)
(* Instance of Shop for TLC.  The run also evaluates the checks of Money,  *)
(* which has no state of its own.                                          *)
(***************************************************************************)
EXTENDS Shop, MoneyChecks, TLC

CONSTANTS mouse, wired, d1, d2

TwoDeciders == {d1, d2}
DeciderSymmetry == Permutations(TwoDeciders)

TwoProducts == {mouse, wired}
AllMice == [p \in TwoProducts |-> "mouse"]
OneWired == [p \in TwoProducts |-> IF p = wired THEN "wired" ELSE "wireless"]

Sold(unit, stock) == [unit |-> unit, stock |-> stock, listed |-> TRUE]
CheapDearOrGone == {Sold(1, 2), Sold(2, 2), Sold(2, 0)}

Under(amount) == Span("CEILING", amount)
Words(spans, scope) == [spans |-> spans, scope |-> scope]
UnderThree == Words({Under(3), Span("BARE", 9)}, "TOTAL")
NoLimitWords == Words({}, "NONE")
SomeWords == {UnderThree, NoLimitWords}

Read(amount, span, scope) == Claim(TRUE, amount, span, scope)
Wants(type, quantity, claim, requires) == Intent(type, quantity, claim, "mouse", requires, FALSE)

\* What the shopper wrote, what he did not write, and no limit at all.
Claims == {NoClaim, Read(3, Under(3), "NONE"), Read(3, Under(3), "TOTAL"), Read(9, Under(9), "TOTAL")}
SomeIntents ==
    {Wants("PURCHASE", quantity, claim, requires) :
        quantity \in {1, 2}, claim \in Claims, requires \in {{}, {"wired"}}}
    \cup {Wants("BROWSE", 1, NoClaim, {})}

PerUnitIntents == {Wants("PURCHASE", 2, Read(3, Under(3), "PER_UNIT"), {})}

AnyRequest == SUBSET TwoProducts
=============================================================================
