-------------------------------- MODULE Stock --------------------------------
(***************************************************************************)
(* reservation-service: several purchases of one product compete for its   *)
(* stock.  The product row keeps two counters, `inventory` on hand and     *)
(* `reserved`; a reservation row holds units for a purchase.  A service    *)
(* call is one database transaction at READ COMMITTED: what it has written *)
(* stays in its own record (`marked` rows, `counted` off the product)      *)
(* until it commits, and keeps those rows locked; everybody else reads the *)
(* last committed rows.  The other services' moves of a purchase come from *)
(* the constant Moves.                                                     *)
(***************************************************************************)
EXTENDS TransactionMachine, Integers, Sequences, FiniteSets

CONSTANTS
    Purchases,    \* transactions, each for some units of the one product
    Calls,        \* service calls that may be in progress at the same time
    Quantity,     \* quote.quantity of each purchase
    OnHand,       \* inventory at the start
    OtherMoves,   \* <<event, actor>> of the other services
    MaxRows       \* bound: inventory_reservation rows ever made

ASSUME StockAssumption ==
    /\ Purchases # {} /\ IsFiniteSet(Calls)
    /\ Quantity \in [Purchases -> Nat \ {0}] /\ OnHand \in Nat /\ MaxRows \in Nat
    /\ \A m \in OtherMoves :
          m[1] \in Events \ {"INVENTORY_RESERVED", "PAYMENT_CAPTURE_CONFIRMED",
                             "TRANSACTION_COMPLETED"}

VARIABLES
    status,      \* transaction.status of each purchase
    inventory,   \* product.inventory
    reserved,    \* product.reservedQuantity
    rows,        \* inventory_reservation rows
    calls        \* the service calls in progress

vars == <<status, inventory, reserved, rows, calls>>

HoldStatuses == {"ACTIVE", "COMMITTED", "RELEASED", "EXPIRED"}
Rows == [purchase : Purchases, quantity : Nat \ {0}, status : HoldStatuses, lapsed : BOOLEAN]
Row(p, q, s, lapsed) == [purchase |-> p, quantity |-> q, status |-> s, lapsed |-> lapsed]

\* `to`: what the call makes of the rows in `todo`, one after the other.
Stages == {"Idle", "Denied", "Marking", "Claim"}
CallRecords ==
    [at : Stages, p : Purchases, to : HoldStatuses, todo : SUBSET (1 .. MaxRows),
     marked : SUBSET (1 .. MaxRows), counted : SUBSET (1 .. MaxRows), onHand : Nat]

Call(at, p, to, todo, marked, counted, onHand) ==
    [at |-> at, p |-> p, to |-> to, todo |-> todo,
     marked |-> marked, counted |-> counted, onHand |-> onHand]

NoPurchase == CHOOSE p \in Purchases : TRUE
Idle == Call("Idle", NoPurchase, "ACTIVE", {}, {}, {}, 0)

Init ==
    /\ status = [p \in Purchases |-> "AUTHORIZED"]
    /\ inventory = OnHand /\ reserved = 0 /\ rows = <<>>
    /\ calls = [c \in Calls |-> Idle]

-----------------------------------------------------------------------------
(* Rows, sums and locks. *)

At(c, stage) == calls[c].at = stage
Become(c, call) == calls' = [calls EXCEPT ![c] = call]
Done(c) == Become(c, Idle)

ActiveRows == {i \in DOMAIN rows : rows[i].status = "ACTIVE"}
ActiveRowsOf(p) == {i \in ActiveRows : rows[i].purchase = p}

\* Faulty variant: every hold of the product is swept.
LapsedRowsOrLive == ActiveRows

LapsedRows == {i \in ActiveRows : rows[i].lapsed}

\* The units the rows `is` stand for, and how many they are.
Units(is) == UNION {{i} \X (1 .. rows[i].quantity) : i \in is}
Total(is) == Cardinality(Units(is))

RowFree(c, i) == \A d \in Calls \ {c} : i \notin calls[d].marked
ProductFree(c) == \A d \in Calls \ {c} : calls[d].counted = {}

\* A capture moves its purchase first, so that row is locked until it ends.
BeingSold(p) ==
    \E d \in Calls : At(d, "Marking") /\ calls[d].to = "COMMITTED" /\ calls[d].p = p

-----------------------------------------------------------------------------
(* Updating rows, one at a time, by whichever operation. *)

\* A row somebody settled first is none of this call's business.
PassOverSettled(call, i) ==
    Call(call.at, call.p, call.to, call.todo \ {i}, call.marked, call.counted, call.onHand)

\* Faulty variant: the row is written whatever it says by now.
StillActiveUnchecked(i) == TRUE

StillActive(i) == rows[i].status = "ACTIVE"

\* updateMany where status is ACTIVE; waits for a row another call has written.
MarkRow(c, i) ==
    LET call == calls[c] IN
    /\ At(c, "Marking") /\ call.marked = call.counted
    /\ i \in call.todo /\ RowFree(c, i)
    /\ IF StillActive(i)
         THEN Become(c, Call(call.at, call.p, call.to, call.todo \ {i},
                             call.marked \cup {i}, call.counted, call.onHand))
         ELSE Become(c, PassOverSettled(call, i))
    /\ UNCHANGED <<status, inventory, reserved, rows>>

\* product.update; waits for the product row.
CountRow(c, i) ==
    LET call == calls[c] IN
    /\ At(c, "Marking") /\ i \in call.marked \ call.counted
    /\ ProductFree(c)
    /\ Become(c, Call(call.at, call.p, call.to, call.todo,
                      call.marked, call.counted \cup {i}, call.onHand))
    /\ UNCHANGED <<status, inventory, reserved, rows>>

AllMarked(c, to) ==
    /\ At(c, "Marking") /\ calls[c].to = to
    /\ calls[c].todo = {} /\ calls[c].marked = calls[c].counted

\* The rows once this call commits what it has marked.
Settled(c) ==
    [i \in DOMAIN rows |->
        IF i \in calls[c].marked
          THEN Row(rows[i].purchase, rows[i].quantity, calls[c].to, rows[i].lapsed)
          ELSE rows[i]]

-----------------------------------------------------------------------------
(* reserveInventory *)

RowsToCome == Cardinality({c \in Calls : ~At(c, "Idle") /\ calls[c].to = "EXPIRED"})

\* Only an authorized purchase may hold stock, and its quote must still be
\* good for what is on hand; then the lapsed holds of the product are read.
BeginReserve(c, p) ==
    /\ At(c, "Idle") /\ Len(rows) + RowsToCome < MaxRows
    /\ status[p] = "AUTHORIZED" /\ Quantity[p] <= inventory
    /\ Become(c, Call("Marking", p, "EXPIRED", LapsedRows, {}, {}, 0))
    /\ UNCHANGED <<status, inventory, reserved, rows>>

\* After the sweep: the figures the claim is measured against.
ReadProduct(c) ==
    LET call == calls[c] IN
    /\ AllMarked(c, "EXPIRED")
    /\ Become(c, Call("Claim", call.p, call.to, {}, call.marked, call.counted, inventory))
    /\ UNCHANGED <<status, inventory, reserved, rows>>

\* Faulty variant: measured against the stock read earlier only.
StockSufficesAsRead(c) == Quantity[calls[c].p] <= calls[c].onHand

\* The claim's WHERE, evaluated on the newest row; the call's own sweep shows.
StockSuffices(c) ==
    /\ inventory = calls[c].onHand
    /\ reserved - Total(calls[c].counted) <= calls[c].onHand - Quantity[calls[c].p]

Decision(c) == Resolve(status[calls[c].p], "INVENTORY_RESERVED", "inventory_service")

\* Claim, row, lifecycle move and the sweep commit together.  A purchase has
\* one ACTIVE row at most (unique index).
Reserve(c) ==
    LET p == calls[c].p IN
    /\ At(c, "Claim") /\ ProductFree(c)
    /\ StockSuffices(c)
    /\ ActiveRowsOf(p) \subseteq calls[c].marked
    /\ Decision(c).kind # "INVALID"
    /\ rows' = Append(Settled(c), Row(p, Quantity[p], "ACTIVE", FALSE))
    /\ reserved' = reserved - Total(calls[c].counted) + Quantity[p]
    /\ status' = [status EXCEPT ![p] = Decision(c).to]
    /\ Done(c)
    /\ UNCHANGED inventory

\* Refused: not enough stock, or somebody else moved or reserved the purchase.
\* The sweep is rolled back as well.
RefuseReservation(c) ==
    LET p == calls[c].p IN
    /\ At(c, "Claim") /\ ProductFree(c)
    /\ \/ ~StockSuffices(c)
       \/ ~(ActiveRowsOf(p) \subseteq calls[c].marked)
       \/ Decision(c).kind = "INVALID"
    /\ Done(c)
    /\ UNCHANGED <<status, inventory, reserved, rows>>

-----------------------------------------------------------------------------
(* releaseReservation, by a retry that is refused for good. *)

DenyRetry(c, p) ==
    /\ At(c, "Idle") /\ status[p] \in {"PAYMENT_FAILED", "AUTHORIZED"}
    /\ Become(c, Call("Denied", p, "RELEASED", {}, {}, {}, 0))
    /\ UNCHANGED <<status, inventory, reserved, rows>>

\* releaseHeldStock finds the purchase's ACTIVE row, if there still is one.
FindHeldStock(c) ==
    /\ At(c, "Denied")
    /\ Become(c, Call("Marking", calls[c].p, "RELEASED", ActiveRowsOf(calls[c].p), {}, {}, 0))
    /\ UNCHANGED <<status, inventory, reserved, rows>>

Release(c) ==
    /\ AllMarked(c, "RELEASED")
    /\ rows' = Settled(c)
    /\ reserved' = reserved - Total(calls[c].counted)
    /\ Done(c)
    /\ UNCHANGED <<status, inventory>>

-----------------------------------------------------------------------------
(* commitReservationWithin, inside the transaction that records a capture. *)

Capture(p) == Resolve(status[p], "PAYMENT_CAPTURE_CONFIRMED", "payment_webhook")

\* Faulty variant: a hold past its expiry is not sold.
SellableUnlapsed(p) == ActiveRowsOf(p) \ LapsedRows

\* The expiry of a hold does not matter to a sale, only whether it was swept.
SellableRows(p) == ActiveRowsOf(p)

BeginSale(c, p) ==
    /\ At(c, "Idle") /\ Capture(p).kind = "APPLY" /\ ~BeingSold(p)
    /\ Become(c, Call("Marking", p, "COMMITTED", SellableRows(p), {}, {}, 0))
    /\ UNCHANGED <<status, inventory, reserved, rows>>

\* Faulty variant: the hold is sold but stays counted as held.
HeldAfterSaleUnchanged(c) == reserved

HeldAfterSale(c) == reserved - Total(calls[c].counted)

\* A hold still ACTIVE, lapsed or not, is sold and the purchase completed;
\* without one the purchase stays at PAYMENT_CAPTURED.
Sell(c) ==
    LET p == calls[c].p IN
    /\ AllMarked(c, "COMMITTED")
    /\ rows' = Settled(c)
    /\ inventory' = inventory - Total(calls[c].counted)
    /\ reserved' = HeldAfterSale(c)
    /\ status' = [status EXCEPT ![p] =
           IF calls[c].marked = {} THEN Capture(p).to
           ELSE Resolve(Capture(p).to, "TRANSACTION_COMPLETED", "transaction_service").to]
    /\ Done(c)

-----------------------------------------------------------------------------
(* The world. *)

\* A hold passes its expiry; nothing happens until somebody sweeps it.
Lapse(i) ==
    /\ i \in ActiveRows /\ ~rows[i].lapsed
    /\ rows' = [rows EXCEPT ![i] = Row(rows[i].purchase, rows[i].quantity, "ACTIVE", TRUE)]
    /\ UNCHANGED <<status, inventory, reserved, calls>>

MoveByOthers(p, m) ==
    /\ ~BeingSold(p)
    /\ Resolve(status[p], m[1], m[2]).kind = "APPLY"
    /\ status' = [status EXCEPT ![p] = Resolve(status[p], m[1], m[2]).to]
    /\ UNCHANGED <<inventory, reserved, rows, calls>>

\* The calls a call waits for: a row or the product row is theirs.
Blockers(c) ==
    LET call == calls[c]
        wantsRow == At(c, "Marking") /\ call.marked = call.counted /\ call.todo # {}
        wantsProduct == At(c, "Claim") \/ call.marked # call.counted
    IN  IF wantsProduct THEN {d \in Calls \ {c} : calls[d].counted # {}}
        ELSE IF wantsRow /\ \A i \in call.todo : ~RowFree(c, i)
          THEN {d \in Calls \ {c} : calls[d].marked \cap call.todo # {}}
        ELSE {}

\* Everyone in some group of calls waits for others of the group.
Deadlocked(c) ==
    \E group \in SUBSET Calls :
        c \in group /\ \A d \in group : Blockers(d) # {} /\ Blockers(d) \subseteq group

\* The database ends one of them, which rolls back.
DeadlockVictim(c) ==
    /\ Deadlocked(c)
    /\ Done(c)
    /\ UNCHANGED <<status, inventory, reserved, rows>>

\* The process dies, or the database does not answer.
Crash(c) ==
    /\ ~At(c, "Idle")
    /\ Done(c)
    /\ UNCHANGED <<status, inventory, reserved, rows>>

-----------------------------------------------------------------------------
\* What a call does once it has begun.
CallStep(c) ==
    \/ \E i \in calls[c].todo : MarkRow(c, i)
    \/ \E i \in calls[c].marked : CountRow(c, i)
    \/ ReadProduct(c) \/ Reserve(c) \/ RefuseReservation(c)
    \/ FindHeldStock(c) \/ Release(c) \/ Sell(c)
    \/ DeadlockVictim(c)

Next ==
    \/ \E c \in Calls, p \in Purchases : BeginReserve(c, p) \/ DenyRetry(c, p) \/ BeginSale(c, p)
    \/ \E c \in Calls : CallStep(c) \/ Crash(c)
    \/ \E i \in DOMAIN rows : Lapse(i)
    \/ \E p \in Purchases, m \in OtherMoves : MoveByOthers(p, m)

Spec == Init /\ [][Next]_vars

-----------------------------------------------------------------------------
(* Properties. *)

\* Counters, rows and calls are what the schema and the services allow.
StockTypeOK ==
    /\ status \in [Purchases -> TransactionStates]
    /\ inventory \in Int /\ reserved \in Int
    /\ rows \in Seq(Rows) /\ Len(rows) <= MaxRows
    /\ calls \in [Calls -> CallRecords]

\* The counter on the product is what the holds add up to: no sweep, release
\* or sale is counted twice or forgotten, whoever else writes the same rows.
CounterMatchesHolds == reserved = Total(ActiveRows)

\* Nobody is promised a unit that is not there: the CHECK constraints behind
\* the claim's condition never have to refuse anything.
NeverOversold == 0 <= reserved /\ reserved <= inventory

\* What was on hand at the start is on hand or sold.
UnitsConserved ==
    inventory + Total({i \in DOMAIN rows : rows[i].status = "COMMITTED"}) = OnHand

SoldRowsOf(p) == {i \in DOMAIN rows : rows[i].purchase = p /\ rows[i].status = "COMMITTED"}

\* A purchase is completed exactly when its one hold was sold; money captured
\* while the purchase still had a hold has taken it.
PaidStockIsSold ==
    /\ StockTypeOK
    /\ \A p \in Purchases :
          /\ status[p] = "COMPLETED" <=> SoldRowsOf(p) # {}
          /\ Cardinality(SoldRowsOf(p)) <= 1
          /\ status[p] \in {"PAYMENT_CAPTURED", "COMPLETED"} => ActiveRowsOf(p) = {}

\* A hold that has not lapsed is not taken away by another purchase's sweep,
\* and what became of a hold is final.
HoldsEndOnce ==
    [][\A i \in DOMAIN rows :
          /\ rows[i].status # "ACTIVE" => rows'[i] = rows[i]
          /\ rows'[i].status = "EXPIRED" => rows[i].lapsed]_rows
=============================================================================
