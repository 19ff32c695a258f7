------------------------------ MODULE MCStock ------------------------------
(***************************************************************************)
(* Instance of Stock for TLC: three purchases, one of them of two units,   *)
(* and two units on hand; two calls at a time.                             *)
(***************************************************************************)
EXTENDS Stock, TLC

CONSTANTS c1, c2, p1, p2, p3

TwoCalls == {c1, c2}
ThreePurchases == {p1, p2, p3}
Quantities == [p \in ThreePurchases |-> IF p = p3 THEN 2 ELSE 1]

\* A payment that fails, and may still be captured later; a purchase that is
\* cancelled while it holds stock.
FailAndCancel == {<<"PAYMENT_FAILED", "payment_provider">>,
                  <<"TRANSACTION_CANCELLED", "human_user">>}

CallSymmetry == Permutations(TwoCalls)
=============================================================================
