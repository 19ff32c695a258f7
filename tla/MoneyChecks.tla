----------------------------- MODULE MoneyChecks -----------------------------
(***************************************************************************)
(* Money evaluated by TLC, on amounts around zero and around the edge of   *)
(* the safe range, against sums and products of the integers themselves.   *)
(***************************************************************************)
EXTENDS Money

Around(x, distance) == x - distance .. x + distance
EdgeIntegers == Around(-Exact, 4) \cup Around(0, 12) \cup Around(Exact, 4)
EdgeAmounts == {Amount(x, "INR") : x \in EdgeIntegers \cap SafeIntegers}

\* "7", "7.5", "7.05" and "7.055", amounts at and beyond the edge, and all of
\* them with a symbol before the digits.
EdgeTexts ==
    {Text(mark, negative, whole, places, fraction) :
        mark \in Marks, negative \in BOOLEAN, whole \in Around(Exact \div MinorPerMajor, 1) \cup 0 .. 2,
        places \in 0 .. 3, fraction \in {0, 5, 9, 24}}

\* An operation answers with the exact result or not at all, and it refuses
\* nothing that is in range.
ExactOrRefused(result, exact) ==
    IF exact \in SafeIntegers THEN result = Amount(exact, "INR") ELSE result.kind # "AMOUNT"

ASSUME SumsAreExact ==
    \A a, b \in EdgeAmounts : ExactOrRefused(AddMoney(a, b), a.minor + b.minor)

ASSUME ProductsAreExact ==
    \A a \in EdgeAmounts, n \in 0 .. 3 : ExactOrRefused(MultiplyMoney(a, n), a.minor * n)

ASSUME TextsAreExact ==
    \A t \in EdgeTexts :
        IF t.mark # "none" \/ t.places > 2 THEN ParseMajorUnits(t, "INR").kind # "AMOUNT"
        ELSE ExactOrRefused(ParseMajorUnits(t, "INR"), Meant(t))

ASSUME ComparisonIsAnOrder ==
    \A a, b \in EdgeAmounts :
        /\ CompareMoney(a, b) = -CompareMoney(b, a)
        /\ CompareMoney(a, b) <= 0 <=> a.minor <= b.minor

\* What is charged is what the quote says, and nothing payable is refused.
ASSUME PayablesAreCharged ==
    \A x \in EdgeIntegers \cup Around(ProviderMinimum, 1) :
        LET payable == AssessPayableAmount(x, "INR") IN
        /\ payable.kind = "PAYABLE" <=> x \in ProviderMinimum .. MaxSafe
        /\ payable.kind = "PAYABLE" => ToProviderAmount(payable) = x
=============================================================================
