-------------------------------- MODULE Sale --------------------------------
(***************************************************************************)
(* What the payment of one purchase promises, with no services, calls or   *)
(* messages: the sale is booked once, only against money the provider has  *)
(* taken, and stock that is held at that moment is sold in the same step - *)
(* no other step sells stock, and a booked sale is never undone.           *)
(***************************************************************************)
VARIABLES
    paid,    \* the provider has captured a payment for this purchase
    booked,  \* the purchase counts as paid
    stock    \* its unit of stock: "free", "held" or "sold"

saleVars == <<paid, booked, stock>>

SaleInit == paid = FALSE /\ booked = FALSE /\ stock = "held"

Pay == paid' = TRUE /\ UNCHANGED <<booked, stock>>

Book ==
    /\ paid /\ ~booked
    /\ booked' = TRUE
    /\ stock' = IF stock = "held" THEN "sold" ELSE stock
    /\ UNCHANGED paid

\* Before the sale is booked, stock may be let go, and held again.
HoldAgain ==
    /\ ~booked /\ stock = "free" /\ stock' = "held"
    /\ UNCHANGED <<paid, booked>>

LetGo ==
    /\ ~booked /\ stock = "held" /\ stock' = "free"
    /\ UNCHANGED <<paid, booked>>

SaleSpec == SaleInit /\ [][Pay \/ Book \/ HoldAgain \/ LetGo]_saleVars
=============================================================================
