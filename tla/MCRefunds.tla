------------------------------ MODULE MCRefunds ------------------------------
(***************************************************************************)
(* Instance of Refunds for TLC: two calls at a time, up to three refunds.  *)
(***************************************************************************)
EXTENDS Refunds

CONSTANTS c1, c2

TwoCalls == {c1, c2}
=============================================================================
