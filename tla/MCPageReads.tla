----------------------------- MODULE MCPageReads -----------------------------
(***************************************************************************)
(* Instances of PageReads for TLC: those of PaymentFlow, with a page load. *)
(***************************************************************************)
EXTENDS MCPaymentFlow, PageReads
=============================================================================
