---------------------------- MODULE MCRateLimits ----------------------------
(***************************************************************************)
(* Instance of RateLimits for TLC: two clients, days of two minutes and    *)
(* limits small enough that each of the four ceilings refuses somebody.    *)
(***************************************************************************)
EXTENDS RateLimits

CONSTANTS a, b

TwoClients == {a, b}
\* A minute of the first day and two of the third.
Minutes == {0, 4, 5}
BuyersAndPayer == {<<"agent", a>>, <<"agent", b>>, <<"payment", a>>}
=============================================================================
