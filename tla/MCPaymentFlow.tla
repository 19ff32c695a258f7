---------------------------- MODULE MCPaymentFlow ----------------------------
(***************************************************************************)
(* Instances of PaymentFlow for TLC.  Every configuration names the        *)
(* requests the callers make and what the world may do; the other bounds   *)
(* (calls at a time, payments, attempt rows, quotes) are small numbers.    *)
(***************************************************************************)
EXTENDS PurchasePage, TLC

CONSTANTS c1, c2, p1, p2

TwoCalls == {c1, c2}
OneCall == {c1}
NoPayments == {}
OnePayment == {p1}
TwoPayments == {p1, p2}

\* Nothing tells one payment from another.
PaymentSymmetry == Permutations(TwoPayments)
=============================================================================
