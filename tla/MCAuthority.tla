---------------------------- MODULE MCAuthority ----------------------------
(***************************************************************************)
(* Instance of Authority for TLC.                                          *)
(***************************************************************************)
EXTENDS Authority, TLC

CONSTANTS c1, c2

OneCall == {c1}
TwoCalls == {c1, c2}
CallSymmetry == Permutations(TwoCalls)

\* A total of two units: within the budget and the policy, or above both.
Priced(unit) ==
    [unit |-> unit, currency |-> "INR", stock |-> 2, available |-> TRUE, version |-> 0]
CheapOrDear == {Priced(1), Priced(2)}
BudgetOfThree == [max |-> 3, currency |-> "INR", scope |-> "NONE"]

Terms(limit, auto) == [currency |-> "INR", limit |-> limit, auto |-> auto, status |-> "ACTIVE"]
GenerousTerms == {Terms(9, TRUE)}
AutoAndAsk == {Terms(2, TRUE), Terms(9, FALSE)}

ReserveThenFail == {<<"INVENTORY_RESERVED", "inventory_service">>,
                    <<"PAYMENT_FAILED", "payment_provider">>}
=============================================================================
