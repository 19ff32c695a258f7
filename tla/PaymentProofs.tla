----------------------------- MODULE PaymentProofs -----------------------------
(***************************************************************************)
(* The payment of one purchase for any number of calls, payments, attempts *)
(* and quotes, whatever the world does.  First what the rows, the provider *)
(* and the calls know of each other: an order belongs to a claim and a     *)
(* payment to an order.  Then what that says about money: the sale is      *)
(* booked against money the provider has taken, its history and its stock  *)
(* follow it, and the page tells the same.  Then what the rows of the      *)
(* attempts say of one another.                                            *)
(***************************************************************************)
EXTENDS PageReads, TransactionMachineProofs, WellFoundedInduction, FiniteSetTheorems

\* The stages at which a call works on an attempt row that exists; on one the
\* provider has an order for; and on one whose order is on record.
ClaimedStages ==
    {"Lookup", "LookupParked", "Create", "Recover", "Finalize", "Fail", "Park", "ParkOrder"}
PaidStages == {"Starting", "Verifying", "Asking", "Reconciling"}

CallFits(call) ==
    /\ call \in CallRecords
    /\ call.at \in {"Claim", "Evaluate", "Rebind"} => call.quote \in 1 .. quote.id
    /\ call.at \in ClaimedStages \cup PaidStages => call.n \in DOMAIN attempts
    /\ call.at \in {"Finalize", "ParkOrder"} => call.n \in orders
    /\ call.at \in PaidStages => call.n \in Ordered
    /\ call.at \in {"Verifying", "Reconciling"} =>
          /\ call.pay \in Payments
          /\ payments[call.pay].order = call.n /\ payments[call.pay].state # "none"
    /\ call.at = "Reconciling" =>
          /\ call.kind \in {"failed", "captured", "status"}
          /\ call.kind # "failed" => payments[call.pay].state = "captured"

CallsFit == \A c \in Calls : CallFits(calls[c])

\* What is on record has a row, and an order at the provider; a payment was
\* made on an order a browser was given; no two rows are one claim.
RowsFit ==
    /\ orders \subseteq DOMAIN attempts /\ inflight \subseteq DOMAIN attempts
    /\ RecordedOrdersExist /\ sessions \subseteq Ordered
    /\ \A n \in DOMAIN attempts : attempts[n].quote <= quote.id
    /\ \A p \in Payments :
          IF payments[p].state = "none" THEN payments[p].order = 0 /\ ~payments[p].failed
          ELSE payments[p].order \in sessions

OneRowPerClaim ==
    \A m, n \in DOMAIN attempts :
        attempts[m].quote = attempts[n].quote /\ attempts[m].retry = attempts[n].retry
        => m = n

PaymentInv ==
    PaymentTypeOK /\ CallsFit /\ RowsFit /\ OneRowPerClaim /\ PaymentBindsOrder

-----------------------------------------------------------------------------
(* What no step ever takes back. *)

Grows ==
    /\ DOMAIN attempts \subseteq DOMAIN attempts'
    /\ \A n \in DOMAIN attempts :
          /\ attempts'[n].quote = attempts[n].quote /\ attempts'[n].retry = attempts[n].retry
          /\ attempts[n].order => attempts'[n].order
    /\ orders \subseteq orders' /\ sessions \subseteq sessions'
    /\ quote.id <= quote'.id
    /\ \A p \in Payments :
          /\ payments[p].state # "none" =>
                payments'[p].state # "none" /\ payments'[p].order = payments[p].order
          /\ payments[p].state = "captured" => payments'[p].state = "captured"

\* A call that has read something may rely on it.
LEMMA FitStays ==
    ASSUME NEW call, CallFits(call), Grows, quote.id \in Nat, quote'.id \in Nat
    PROVE  CallFits(call)'
  <1>1. call \in CallRecords
    BY DEF CallFits
  <1>2. call.at \in {"Claim", "Evaluate", "Rebind"} => call.quote \in 1 .. quote'.id
    BY DEF CallFits, Grows
  <1>3. call.at \in ClaimedStages \cup PaidStages => call.n \in DOMAIN attempts'
    BY DEF CallFits, Grows
  <1>4. call.at \in {"Finalize", "ParkOrder"} => call.n \in orders'
    BY DEF CallFits, Grows
  <1>5. call.at \in PaidStages => call.n \in Ordered'
    BY DEF CallFits, Grows, Ordered
  <1>6. call.at \in {"Verifying", "Reconciling"} =>
          /\ call.pay \in Payments
          /\ payments'[call.pay].order = call.n /\ payments'[call.pay].state # "none"
    BY DEF CallFits, Grows
  <1>7. call.at = "Reconciling" =>
          /\ call.kind \in {"failed", "captured", "status"}
          /\ call.kind # "failed" => payments'[call.pay].state = "captured"
    BY DEF CallFits, Grows
  <1>8. QED
    BY <1>1, <1>2, <1>3, <1>4, <1>5, <1>6, <1>7 DEF CallFits

-----------------------------------------------------------------------------
(* Columns: what the rows of the purchase and its provider leave open. *)

Keys == ({"payment_order", "checkout_started", "payment_verified",
          "requote", "policy", "reservation"} \X (0 .. MaxRows)) \cup EventIds

ColumnsOK ==
    /\ status \in TransactionStates /\ recorded \subseteq Keys
    /\ quote \in [id : 1 .. MaxQuotes, usable : BOOLEAN] /\ authorized \in BOOLEAN
    /\ hold \in [status : HoldStatuses, quote : 1 .. MaxQuotes, lapsed : BOOLEAN]
    /\ ledger \subseteq EventIds \X LedgerOutcomes

\* An event either changes nothing or is recorded with its move.
LEMMA EventApplied ==
    ASSUME ColumnsOK, NEW e, NEW a, NEW key \in Keys, ApplyEvent(e, a, key)
    PROVE  /\ status' \in TransactionStates /\ recorded' \subseteq Keys
           /\ \/ status' = status /\ recorded' = recorded
              \/ /\ Resolve(status, e, a).kind = "APPLY"
                 /\ status' = Resolve(status, e, a).to
                 /\ key \notin recorded /\ recorded' = recorded \cup {key}
  <1>1. CASE Applies(e, a, key)
    BY <1>1, ResolveTo DEF ColumnsOK, ApplyEvent, Applies, Adjudicate
  <1>2. CASE ~Applies(e, a, key)
    BY <1>2, ResolveTo DEF ColumnsOK, ApplyEvent, Applies, Adjudicate
  <1>3. QED
    BY <1>1, <1>2

\* The call that takes a step is the only one whose record changes.
LEMMA CallsStep ==
    ASSUME PaymentInv, Grows, quote'.id \in Nat, NEW c \in Calls, NEW call,
           calls' = [calls EXCEPT ![c] = call], CallFits(call)'
    PROVE  CallsFit' /\ calls' \in [Calls -> CallRecords]
  <1>1. calls \in [Calls -> CallRecords] /\ call \in CallRecords /\ quote.id \in Nat
    BY DEF PaymentInv, PaymentTypeOK, CallFits
  <1>2. ASSUME NEW d \in Calls PROVE CallFits(calls[d])'
    <2>1. CASE d = c
      BY <1>1, <2>1
    <2>2. CASE d # c
      <3>1. PICK other : other = calls[d]
        OBVIOUS
      <3>2. CallFits(other)
        BY <3>1 DEF PaymentInv, CallsFit
      <3>3. CallFits(other)'
        BY <3>2, <1>1, FitStays
      <3>4. calls'[d] = other
        BY <1>1, <2>2, <3>1
      <3>5. QED
        BY <3>3, <3>4
    <2>3. QED
      BY <2>1, <2>2
  <1>3. QED
    BY <1>1, <1>2 DEF CallsFit

LEMMA IdleFits == Idle \in CallRecords /\ CallFits(Idle) /\ CallFits(Idle)'
  BY PaymentAssumption
     DEF CallFits, Idle, CallRecords, Stages, ClaimedStages, PaidStages

-----------------------------------------------------------------------------
(* Shapes of steps. *)

\* Nothing but columns and the acting call changes.
LEMMA ColumnStep ==
    ASSUME PaymentInv, ColumnsOK', quote'.id = quote.id,
           UNCHANGED <<attempts, sessions, provider>>,
           \/ calls' = calls
           \/ \E c \in Calls, call \in CallRecords :
                 CallFits(call) /\ calls' = [calls EXCEPT ![c] = call]
    PROVE  PaymentInv' /\ Grows
  <1>1. Grows /\ quote.id \in Nat /\ quote'.id \in Nat
    BY DEF Grows, PaymentInv, PaymentTypeOK, provider
  <1>2. CallsFit' /\ calls' \in [Calls -> CallRecords]
    <2>1. CASE calls' = calls
      BY <2>1 DEF PaymentInv, PaymentTypeOK, CallsFit, CallFits, Ordered, provider
    <2>2. ASSUME NEW c \in Calls, NEW call \in CallRecords, CallFits(call),
                 calls' = [calls EXCEPT ![c] = call]
          PROVE  CallsFit' /\ calls' \in [Calls -> CallRecords]
      BY <1>1, <2>2, FitStays, CallsStep
    <2>3. QED
      BY <2>1, <2>2
  <1>3. PaymentTypeOK'
    BY <1>2 DEF PaymentInv, PaymentTypeOK, ColumnsOK, Keys, provider
  <1>4. RowsFit'
    BY DEF PaymentInv, RowsFit, RecordedOrdersExist, Ordered, provider
  <1>5. OneRowPerClaim' /\ PaymentBindsOrder'
    BY DEF PaymentInv, OneRowPerClaim, PaymentBindsOrder, provider
  <1>6. QED
    BY <1>1, <1>2, <1>3, <1>4, <1>5 DEF PaymentInv

\* A call reads, or hears from the provider, and goes on.
LEMMA ReadStep ==
    ASSUME PaymentInv, NEW c \in Calls, NEW call, CallFits(call),
           calls' = [calls EXCEPT ![c] = call],
           UNCHANGED <<txn, attempts, terms, hold, ledger, sessions, provider>>
    PROVE  PaymentInv' /\ Grows
  <1>1. ColumnsOK' /\ quote'.id = quote.id /\ call \in CallRecords
    BY DEF PaymentInv, PaymentTypeOK, ColumnsOK, Keys, txn, terms, CallFits
  <1>2. QED
    BY <1>1, ColumnStep

\* One row of a sequence of rows is replaced.
LEMMA RowWritten ==
    ASSUME NEW s \in Seq(Attempts), NEW n \in DOMAIN s, NEW row \in Attempts
    PROVE  /\ [s EXCEPT ![n] = row] \in Seq(Attempts)
           /\ Len([s EXCEPT ![n] = row]) = Len(s)
           /\ DOMAIN [s EXCEPT ![n] = row] = DOMAIN s
           /\ [s EXCEPT ![n] = row][n] = row
           /\ \A m \in DOMAIN s : m # n => [s EXCEPT ![n] = row][m] = s[m]
  OBVIOUS

LEMMA RowOf ==
    ASSUME PaymentInv, NEW n \in DOMAIN attempts
    PROVE  /\ attempts[n] \in Attempts
           /\ n \in 1 .. MaxRows /\ n \in 0 .. MaxRows /\ n \in Nat
  BY PaymentAssumption DEF PaymentInv, PaymentTypeOK

\* A call ends with one commit that writes one attempt row and columns.
LEMMA RowStep ==
    ASSUME PaymentInv, NEW c \in Calls, NEW n \in DOMAIN attempts, NEW row \in Attempts,
           attempts' = [attempts EXCEPT ![n] = row], Done(c),
           row.quote = attempts[n].quote, row.retry = attempts[n].retry,
           attempts[n].order => row.order, row.order => n \in orders,
           row.payment # NoPayment => payments[row.payment].order = n,
           ColumnsOK', quote' = quote, UNCHANGED <<sessions, provider>>
    PROVE  PaymentInv' /\ Grows
  <1>0. attempts \in Seq(Attempts) /\ quote.id \in Nat /\ Len(attempts) <= MaxRows
    BY DEF PaymentInv, PaymentTypeOK
  <1>1. /\ attempts' \in Seq(Attempts) /\ Len(attempts') = Len(attempts)
        /\ DOMAIN attempts' = DOMAIN attempts /\ attempts'[n] = row
        /\ \A m \in DOMAIN attempts : m # n => attempts'[m] = attempts[m]
    BY <1>0, RowWritten
  <1>2. Grows
    BY <1>0, <1>1 DEF Grows, provider
  <1>3. CallsFit' /\ calls' \in [Calls -> CallRecords]
    BY <1>0, <1>2, IdleFits, CallsStep DEF Done
  <1>4. PaymentTypeOK'
    BY <1>0, <1>1, <1>3 DEF PaymentInv, PaymentTypeOK, ColumnsOK, Keys, provider
  <1>5. RowsFit'
    BY <1>1 DEF PaymentInv, RowsFit, RecordedOrdersExist, Ordered, provider
  <1>6. OneRowPerClaim'
    BY <1>1 DEF PaymentInv, OneRowPerClaim
  <1>7. PaymentBindsOrder'
    BY <1>1 DEF PaymentInv, PaymentBindsOrder, provider
  <1>8. QED
    BY <1>2, <1>3, <1>4, <1>5, <1>6, <1>7 DEF PaymentInv

\* Sessions, orders and payments change, and nothing a call relies on is lost.
LEMMA ProviderStep ==
    ASSUME PaymentInv, Grows, UNCHANGED <<attempts, quote>>, ColumnsOK', RowsFit',
           PaymentBindsOrder',
           sessions' \subseteq AttemptNumbers, orders' \subseteq AttemptNumbers,
           inflight' \subseteq AttemptNumbers,
           payments' \in [Payments -> [order : 0 .. MaxRows, state : PaymentStates,
                                       failed : BOOLEAN]],
           \/ calls' = calls
           \/ \E c \in Calls, call \in CallRecords :
                 CallFits(call)' /\ calls' = [calls EXCEPT ![c] = call]
    PROVE  PaymentInv' /\ Grows
  <1>1. quote.id \in Nat /\ quote'.id \in Nat
    BY DEF PaymentInv, PaymentTypeOK
  <1>2. CallsFit' /\ calls' \in [Calls -> CallRecords]
    <2>1. CASE calls' = calls
      <3>1. calls \in [Calls -> CallRecords]
        BY DEF PaymentInv, PaymentTypeOK
      <3>2. ASSUME NEW d \in Calls PROVE CallFits(calls[d])'
        <4>1. PICK other : other = calls[d]
          OBVIOUS
        <4>2. CallFits(other)'
          BY <1>1, <4>1, FitStays DEF PaymentInv, CallsFit
        <4>3. QED
          BY <2>1, <4>1, <4>2
      <3>3. QED
        BY <2>1, <3>1, <3>2 DEF CallsFit
    <2>2. ASSUME NEW c \in Calls, NEW call \in CallRecords, CallFits(call)',
                 calls' = [calls EXCEPT ![c] = call]
          PROVE  CallsFit' /\ calls' \in [Calls -> CallRecords]
      BY <1>1, <2>2, CallsStep
    <2>3. QED
      BY <2>1, <2>2
  <1>3. PaymentTypeOK'
    BY <1>2 DEF PaymentInv, PaymentTypeOK, ColumnsOK, Keys
  <1>4. OneRowPerClaim'
    BY DEF PaymentInv, OneRowPerClaim
  <1>5. QED
    BY <1>2, <1>3, <1>4 DEF PaymentInv

-----------------------------------------------------------------------------
(* PaymentOrders. *)

LEMMA CallOf ==
    ASSUME PaymentInv, NEW c \in Calls
    PROVE  /\ CallFits(calls[c]) /\ calls[c] \in CallRecords
           /\ quote.id \in 1 .. MaxQuotes /\ quote.id \in 0 .. MaxQuotes /\ quote.id \in Nat
           /\ attempts \in Seq(Attempts) /\ Len(attempts) <= MaxRows
           /\ calls \in [Calls -> CallRecords]
  <1>1. quote.id \in 1 .. MaxQuotes /\ quote.id \in Nat
    BY DEF PaymentInv, PaymentTypeOK
  <1>2. quote.id \in 0 .. MaxQuotes
    BY <1>1, PaymentAssumption
  <1>3. QED
    BY <1>1, <1>2 DEF PaymentInv, CallsFit, CallFits, PaymentTypeOK

LEMMA OrderReads ==
    ASSUME PaymentInv, NEW c \in Calls,
           \/ RequestOrder(c) \/ RetryOrder(c) \/ JoinAttempt(c) \/ LookupReceipt(c)
           \/ CreateRefused(c) \/ ResolveByLookup(c) \/ FinalizeRolledBack(c)
    PROVE  PaymentInv' /\ Grows
  <1> USE CallOf, IdleFits, PaymentAssumption DEF Done, Goto, At
  <1>1. CASE RequestOrder(c)
    <2> DEFINE call == [Idle EXCEPT !.at = "Claim", !.quote = quote.id]
    <2>0. quote.id \in 1 .. MaxQuotes /\ quote.id \in 0 .. MaxQuotes /\ quote.id \in Nat
      BY CallOf
    <2>1. CallFits(call)
      <3>1. call \in CallRecords
        BY <2>0 DEF CallRecords, Idle, Stages
      <3>2. call.at = "Claim" /\ call.quote = quote.id
        BY DEF Idle
      <3> HIDE DEF call
      <3>3. QED
        BY <2>0, <3>1, <3>2 DEF CallFits, ClaimedStages, PaidStages
    <2>2. QED
      BY <1>1, <2>1, ReadStep DEF RequestOrder
  <1>2. CASE RetryOrder(c)
    <2> DEFINE call == [calls[c] EXCEPT !.at = "Claim", !.quote = quote.id]
    <2>0. /\ quote.id \in 1 .. MaxQuotes /\ quote.id \in 0 .. MaxQuotes /\ quote.id \in Nat
          /\ calls[c] \in CallRecords
      BY CallOf
    <2>1. CallFits(call)
      <3>1. call \in CallRecords
        BY <2>0 DEF CallRecords, Stages
      <3>2. call.at = "Claim" /\ call.quote = quote.id
        BY <2>0 DEF CallRecords
      <3> HIDE DEF call
      <3>3. QED
        BY <2>0, <3>1, <3>2 DEF CallFits, ClaimedStages, PaidStages
    <2>2. calls' = [calls EXCEPT ![c] = call] \/ calls' = [calls EXCEPT ![c] = Idle]
      BY <1>2 DEF RetryOrder
    <2>3. QED
      BY <1>2, <2>1, <2>2, ReadStep DEF RetryOrder
  <1>3. CASE JoinAttempt(c)
    <2>1. PICK n \in ClaimedBy(c) :
              calls' = [calls EXCEPT ![c] = [calls[c] EXCEPT !.at = MeaningOfRow(attempts[n]), !.n = n]]
      BY <1>3 DEF JoinAttempt
    <2> DEFINE call == [calls[c] EXCEPT !.at = MeaningOfRow(attempts[n]), !.n = n]
    <2>2. n \in DOMAIN attempts /\ n \in 0 .. MaxRows /\ calls[c] \in CallRecords
      BY <2>1, RowOf DEF ClaimedBy
    <2>3. /\ MeaningOfRow(attempts[n]) \in {"Finalize", "Create", "Lookup", "LookupParked"}
          /\ MeaningOfRow(attempts[n]) = "Finalize" => attempts[n].order
      BY <2>2, RowOf DEF MeaningOfRow, Attempts
    <2>4. attempts[n].order => n \in orders
      BY <2>2 DEF PaymentInv, RowsFit, RecordedOrdersExist, Ordered
    <2>5. CallFits(call)
      <3>1. call \in CallRecords
        BY <2>2, <2>3 DEF CallRecords, Stages
      <3>2. call.at = MeaningOfRow(attempts[n]) /\ call.n = n
        BY DEF CallRecords
      <3> HIDE DEF call
      <3>3. QED
        BY <2>2, <2>3, <2>4, <3>1, <3>2 DEF CallFits, ClaimedStages, PaidStages
    <2>6. QED
      BY <1>3, <2>1, <2>5, ReadStep DEF JoinAttempt
  <1>4. CASE LookupReceipt(c)
    <2>1. calls[c].n \in DOMAIN attempts
      BY <1>4 DEF LookupReceipt, CallFits, ClaimedStages
    <2>2. CASE calls[c].n \in orders /\ Goto(c, "Finalize")
      <3>1. CallFits([calls[c] EXCEPT !.at = "Finalize"])
        BY <2>1, <2>2 DEF CallFits, CallRecords, Stages, ClaimedStages, PaidStages
      <3>2. QED
        BY <1>4, <2>2, <3>1, ReadStep DEF LookupReceipt
    <2>3. CASE Goto(c, "Create")
      <3>1. CallFits([calls[c] EXCEPT !.at = "Create"])
        BY <2>1 DEF CallFits, CallRecords, Stages, ClaimedStages, PaidStages
      <3>2. QED
        BY <1>4, <2>3, <3>1, ReadStep DEF LookupReceipt
    <2>4. CASE Done(c)
      BY <1>4, <2>4, ReadStep DEF LookupReceipt
    <2>5. QED
      BY <1>4, <2>2, <2>3, <2>4 DEF LookupReceipt, OrderLookup
  <1>5. CASE CreateRefused(c)
    <2>1. CallFits([calls[c] EXCEPT !.at = "Fail"])
      BY <1>5 DEF CreateRefused, CallFits, CallRecords, Stages, ClaimedStages, PaidStages
    <2>2. QED
      BY <1>5, <2>1, ReadStep DEF CreateRefused
  <1>6. CASE ResolveByLookup(c)
    <2>1. calls[c].n \in DOMAIN attempts
      BY <1>6 DEF ResolveByLookup, CallFits, ClaimedStages
    <2>2. PICK stage \in {"Finalize", "Fail", "Park"} :
              Goto(c, stage) /\ (stage = "Finalize" => calls[c].n \in orders)
      BY <1>6 DEF ResolveByLookup, OrderLookup
    <2>3. CallFits([calls[c] EXCEPT !.at = stage])
      BY <2>1, <2>2 DEF CallFits, CallRecords, Stages, ClaimedStages, PaidStages
    <2>4. QED
      BY <1>6, <2>2, <2>3, ReadStep DEF ResolveByLookup
  <1>7. CASE FinalizeRolledBack(c)
    <2>1. CallFits([calls[c] EXCEPT !.at = "ParkOrder"])
      BY <1>7 DEF FinalizeRolledBack, CallFits, CallRecords, Stages, ClaimedStages, PaidStages
    <2>2. Done(c) \/ Goto(c, "ParkOrder")
      BY <1>7 DEF FinalizeRolledBack
    <2>3. QED
      BY <1>7, <2>1, <2>2, ReadStep DEF FinalizeRolledBack
  <1>8. QED
    BY <1>1, <1>2, <1>3, <1>4, <1>5, <1>6, <1>7

\* The claim: a row nobody else has made, for a quote there is.
LEMMA ClaimRow ==
    ASSUME PaymentInv, NEW c \in Calls, ClaimAttempt(c)
    PROVE  PaymentInv' /\ Grows
  <1> DEFINE row == [quote |-> calls[c].quote, retry |-> calls[c].retry, status |-> "CREATED",
                     order |-> FALSE, payment |-> NoPayment]
             call == [calls[c] EXCEPT !.at = "Create", !.n = Len(attempts) + 1]
  <1>1. /\ quote.id \in 1 .. MaxQuotes /\ quote.id \in Nat /\ quote' = quote
        /\ attempts \in Seq(Attempts) /\ Len(attempts) \in Nat /\ Len(attempts) < MaxRows
        /\ calls \in [Calls -> CallRecords] /\ CallFits(calls[c])
    BY CallOf DEF ClaimAttempt, LastAttempt, terms
  <1>2. /\ calls[c].quote \in 1 .. quote.id /\ calls[c].quote \in 1 .. MaxQuotes
        /\ calls[c].retry \in 0 .. MaxRows + 1
    BY <1>1 DEF CallFits, CallRecords, ClaimAttempt, At
  <1>3. row \in Attempts
    BY <1>2 DEF Attempts, AttemptStatuses
  <1>4. attempts' = Append(attempts, row) /\ calls' = [calls EXCEPT ![c] = call]
    BY <1>1 DEF ClaimAttempt, LastAttempt
  <1>5. /\ attempts' \in Seq(Attempts) /\ Len(attempts') = Len(attempts) + 1
        /\ DOMAIN attempts' = DOMAIN attempts \cup {Len(attempts) + 1}
        /\ \A n \in DOMAIN attempts : attempts'[n] = attempts[n]
        /\ attempts'[Len(attempts) + 1] = row
        /\ Len(attempts) + 1 \in 0 .. MaxRows /\ Len(attempts) + 1 \notin DOMAIN attempts
    BY <1>1, <1>3, <1>4, PaymentAssumption
  <1>6. Grows
    BY <1>1, <1>5 DEF Grows, ClaimAttempt, provider
  <1>7. PICK made : made = call
    OBVIOUS
  <1>8. made \in CallRecords /\ made.at = "Create" /\ made.n = Len(attempts) + 1
    BY <1>1, <1>5, <1>7 DEF CallFits, CallRecords, Stages
  <1>9. CallFits(made)'
    BY <1>5, <1>8 DEF CallFits, ClaimedStages, PaidStages
  <1>10. CallsFit' /\ calls' \in [Calls -> CallRecords]
    BY <1>1, <1>4, <1>6, <1>7, <1>9, CallsStep
  <1>11. PaymentTypeOK'
    <2>1. Len(attempts') <= MaxRows
      BY <1>1, <1>5, PaymentAssumption
    <2>2. QED
      BY <1>5, <1>10, <2>1
         DEF PaymentInv, PaymentTypeOK, ClaimAttempt, txn, terms, provider
  <1>12. RowsFit'
    BY <1>1, <1>2, <1>5
       DEF PaymentInv, RowsFit, RecordedOrdersExist, Ordered, ClaimAttempt, provider
  <1>13. OneRowPerClaim'
    BY <1>5 DEF PaymentInv, OneRowPerClaim, ClaimAttempt, ClaimedBy
  <1>14. PaymentBindsOrder'
    BY <1>5 DEF PaymentInv, PaymentBindsOrder, ClaimAttempt, provider
  <1>15. QED
    BY <1>6, <1>10, <1>11, <1>12, <1>13, <1>14 DEF PaymentInv

\* The provider makes an order of the call's attempt, at once or later.
LEMMA OrderMade ==
    ASSUME PaymentInv,
           \/ \E c \in Calls : CreateOrder(c) \/ CreateUnanswered(c)
           \/ \E n \in AttemptNumbers : ProviderProcessesLatePost(n)
    PROVE  PaymentInv' /\ Grows
  <1>1. /\ attempts \in Seq(Attempts) /\ Len(attempts) <= MaxRows /\ quote.id \in Nat
        /\ calls \in [Calls -> CallRecords]
    BY DEF PaymentInv, PaymentTypeOK
  <1>2. UNCHANGED <<txn, attempts, terms, hold, ledger, sessions, payments>>
    BY DEF CreateOrder, CreateUnanswered, ProviderProcessesLatePost, provider
  <1>3. PICK n \in DOMAIN attempts :
            orders' \subseteq orders \cup {n} /\ inflight' \subseteq inflight \cup {n}
    <2>1. ASSUME NEW c \in Calls, CreateOrder(c) \/ CreateUnanswered(c)
          PROVE  /\ calls[c].n \in DOMAIN attempts
                 /\ orders' \subseteq orders \cup {calls[c].n}
                 /\ inflight' \subseteq inflight \cup {calls[c].n}
      BY <2>1, CallOf DEF CreateOrder, CreateUnanswered, CallFits, ClaimedStages, At
    <2>2. ASSUME NEW n \in AttemptNumbers, ProviderProcessesLatePost(n)
          PROVE  /\ n \in DOMAIN attempts
                 /\ orders' \subseteq orders \cup {n} /\ inflight' \subseteq inflight \cup {n}
      BY <2>2 DEF ProviderProcessesLatePost, PaymentInv, RowsFit
    <2>3. QED
      BY <2>1, <2>2
  <1>4. orders \subseteq orders'
    BY DEF CreateOrder, CreateUnanswered, ProviderProcessesLatePost
  <1>5. Grows
    BY <1>1, <1>2, <1>4 DEF Grows, terms
  <1>6. ColumnsOK'
    BY <1>2 DEF PaymentInv, PaymentTypeOK, ColumnsOK, Keys, txn, terms
  <1>7. RowsFit' /\ PaymentBindsOrder'
    BY <1>2, <1>3, <1>4
       DEF PaymentInv, RowsFit, RecordedOrdersExist, Ordered, PaymentBindsOrder, terms
  <1>8. n \in AttemptNumbers
    BY RowOf DEF AttemptNumbers
  <1>9. /\ sessions' \subseteq AttemptNumbers /\ orders' \subseteq AttemptNumbers
        /\ inflight' \subseteq AttemptNumbers
        /\ payments' \in [Payments -> [order : 0 .. MaxRows, state : PaymentStates,
                                       failed : BOOLEAN]]
    BY <1>2, <1>3, <1>8 DEF PaymentInv, PaymentTypeOK
  <1>10. \/ calls' = calls
         \/ \E c \in Calls, call \in CallRecords :
               CallFits(call)' /\ calls' = [calls EXCEPT ![c] = call]
    <2>1. ASSUME NEW c \in Calls, NEW stage \in {"Finalize", "Recover"}, Goto(c, stage),
                 calls[c].n \in DOMAIN attempts, stage = "Finalize" => calls[c].n \in orders'
          PROVE  \E call \in CallRecords :
                     CallFits(call)' /\ calls' = [calls EXCEPT ![c] = call]
      <3>1. PICK call : call = [calls[c] EXCEPT !.at = stage]
        OBVIOUS
      <3>2. call \in CallRecords /\ call.at = stage /\ call.n = calls[c].n
        BY <1>1, <3>1 DEF CallRecords, Stages
      <3>3. CallFits(call)'
        BY <1>2, <2>1, <3>2 DEF CallFits, ClaimedStages, PaidStages
      <3>4. calls' = [calls EXCEPT ![c] = call]
        BY <1>1, <2>1, <3>1 DEF Goto
      <3>5. QED
        BY <3>2, <3>3, <3>4
    <2>2. ASSUME NEW c \in Calls, CreateOrder(c) \/ CreateUnanswered(c)
          PROVE  /\ calls[c].n \in DOMAIN attempts
                 /\ Goto(c, "Recover") \/ (Goto(c, "Finalize") /\ calls[c].n \in orders')
      BY <2>2, CallOf DEF CreateOrder, CreateUnanswered, CallFits, ClaimedStages, At
    <2>3. QED
      BY <2>1, <2>2 DEF ProviderProcessesLatePost
  <1>11. QED
    BY <1>2, <1>5, <1>6, <1>7, <1>9, <1>10, ProviderStep DEF terms

\* Columns of a step that applies an event and leaves the other columns alone.
LEMMA EventColumns ==
    ASSUME PaymentInv, NEW e, NEW a, NEW key \in Keys, ApplyEvent(e, a, key),
           UNCHANGED <<terms, hold, ledger>>
    PROVE  ColumnsOK' /\ quote' = quote
  <1>1. ColumnsOK
    BY DEF PaymentInv, PaymentTypeOK, ColumnsOK, Keys
  <1>2. QED
    BY <1>1, EventApplied DEF ColumnsOK, terms

\* finalize, recordDefiniteFailure and parkForReconciliation.
LEMMA OrderEndings ==
    ASSUME PaymentInv, NEW c \in Calls,
           Finalize(c) \/ RecordDefiniteFailure(c) \/ ParkForReconciliation(c)
    PROVE  PaymentInv' /\ Grows
  <1>1. /\ CallFits(calls[c]) /\ calls[c].n \in DOMAIN attempts
        /\ calls[c].at \in {"Finalize", "ParkOrder"} => calls[c].n \in orders
        /\ UNCHANGED <<sessions, provider>> /\ Done(c)
    BY CallOf DEF Finalize, RecordDefiniteFailure, ParkForReconciliation, CallFits,
                  ClaimedStages, At
  <1> DEFINE n == calls[c].n
  <1>2. /\ attempts[n] \in Attempts /\ n \in 0 .. MaxRows
        /\ attempts \in Seq(Attempts) /\ calls \in [Calls -> CallRecords]
        /\ attempts[n].order => n \in orders
        /\ attempts[n].payment # NoPayment => payments[attempts[n].payment].order = n
    BY <1>1, RowOf, CallOf
       DEF PaymentInv, RowsFit, RecordedOrdersExist, Ordered, PaymentBindsOrder
  <1>3. \E row \in Attempts :
            /\ attempts' = [attempts EXCEPT ![n] = row]
            /\ row.quote = attempts[n].quote /\ row.retry = attempts[n].retry
            /\ row.payment = attempts[n].payment
            /\ attempts[n].order => row.order
            /\ row.order => n \in orders
    <2>1. CASE Finalize(c)
      <3>1. attempts' = [attempts EXCEPT ![n] = [@ EXCEPT !.order = TRUE, !.status = "CREATED"]]
        BY <1>1, <1>2, <2>1 DEF Finalize
      <3>2. [attempts[n] EXCEPT !.order = TRUE, !.status = "CREATED"] \in Attempts
        BY <1>2 DEF Attempts, AttemptStatuses
      <3>3. QED
        BY <1>1, <1>2, <2>1, <3>1, <3>2 DEF Finalize, At, Attempts
    <2>2. CASE RecordDefiniteFailure(c)
      <3>1. attempts' = [attempts EXCEPT ![n] = [@ EXCEPT !.status = "FAILED"]]
        BY <1>1, <1>2, <2>2 DEF RecordDefiniteFailure, Set
      <3>2. [attempts[n] EXCEPT !.status = "FAILED"] \in Attempts
        BY <1>2 DEF Attempts, AttemptStatuses
      <3>3. QED
        BY <1>2, <3>1, <3>2 DEF Attempts
    <2>3. CASE ParkForReconciliation(c)
      <3> DEFINE learned == attempts[n].order \/ At(c, "ParkOrder")
                 row == [attempts[n] EXCEPT !.status = "RECONCILIATION_REQUIRED",
                                            !.order = learned]
      <3>1. attempts' = [attempts EXCEPT ![n] = row]
        BY <1>1, <1>2, <2>3 DEF ParkForReconciliation
      <3>2. learned \in BOOLEAN
        BY <1>2 DEF Attempts, At
      <3>3. (attempts[n].order => learned) /\ (learned => n \in orders)
        BY <1>1, <1>2 DEF At
      <3> HIDE DEF learned
      <3>4. row \in Attempts
        BY <1>2, <3>2 DEF Attempts, AttemptStatuses
      <3>5. /\ row.quote = attempts[n].quote /\ row.retry = attempts[n].retry
            /\ row.payment = attempts[n].payment /\ row.order = learned
        BY <1>2 DEF Attempts
      <3> HIDE DEF row
      <3>6. QED
        BY <3>1, <3>3, <3>4, <3>5
    <2>4. QED
      BY <2>1, <2>2, <2>3
  <1>4. ColumnsOK' /\ quote' = quote
    <2>1. CASE Finalize(c)
      <3>1. OrderKey(c) \in Keys
        BY <1>2 DEF OrderKey, Keys
      <3>2. QED
        BY <2>1, <3>1, EventColumns DEF Finalize
    <2>2. CASE RecordDefiniteFailure(c) \/ ParkForReconciliation(c)
      BY <2>2 DEF RecordDefiniteFailure, ParkForReconciliation, PaymentInv, PaymentTypeOK,
                  ColumnsOK, Keys, txn, terms
    <2>3. QED
      BY <2>1, <2>2
  <1> HIDE DEF n
  <1>5. PICK row \in Attempts :
            /\ attempts' = [attempts EXCEPT ![n] = row]
            /\ row.quote = attempts[n].quote /\ row.retry = attempts[n].retry
            /\ row.payment = attempts[n].payment
            /\ attempts[n].order => row.order
            /\ row.order => n \in orders
    BY <1>3
  <1>6. n \in DOMAIN attempts
    BY <1>1 DEF n
  <1>7. QED
    BY <1>1, <1>2, <1>4, <1>5, <1>6, RowStep

-----------------------------------------------------------------------------
(* Checkout. *)

\* verifyCheckoutCallback's commit.
LEMMA CallbackCommitted ==
    ASSUME PaymentInv, NEW c \in Calls, CommitCallback(c)
    PROVE  PaymentInv' /\ Grows
  <1> DEFINE n == calls[c].n
             row == [attempts[n] EXCEPT !.payment = calls[c].pay, !.status = "VERIFIED"]
  <1>1. /\ n \in DOMAIN attempts /\ n \in Ordered /\ calls[c].pay \in Payments
        /\ payments[calls[c].pay].order = n
    BY CallOf DEF CommitCallback, CallFits, PaidStages, At
  <1>2. /\ attempts[n] \in Attempts /\ n \in 0 .. MaxRows
        /\ attempts \in Seq(Attempts) /\ n \in orders
    BY <1>1, RowOf, CallOf DEF PaymentInv, RowsFit, RecordedOrdersExist
  <1>3. attempts' = [attempts EXCEPT ![n] = row]
    BY <1>1, <1>2 DEF CommitCallback
  <1>4. row \in Attempts
    BY <1>1, <1>2 DEF Attempts, AttemptStatuses
  <1>5. /\ row.quote = attempts[n].quote /\ row.retry = attempts[n].retry
        /\ row.payment = calls[c].pay /\ row.order = attempts[n].order
    BY <1>2 DEF Attempts
  <1>6. ColumnsOK' /\ quote' = quote
    <2>1. <<"payment_verified", n>> \in Keys
      BY <1>2 DEF Keys
    <2>2. QED
      BY <2>1, EventColumns DEF CommitCallback
  <1>7. Done(c) /\ UNCHANGED <<sessions, provider>>
    BY DEF CommitCallback
  <1> HIDE DEF n, row
  <1>8. QED
    BY <1>1, <1>2, <1>3, <1>4, <1>5, <1>6, <1>7, RowStep

\* The least-number principle, for sets.
LEMMA LeastNatural ==
    ASSUME NEW T \in SUBSET Nat, T # {}
    PROVE  \E x \in T : \A y \in T : x <= y
  <1> DEFINE R == {ss \in Nat \X Nat : ss[1] < ss[2]}
  <1>1. IsWellFoundedOn(R, Nat)
    BY NatLessThanWellFounded DEF OpToRel
  <1> HIDE DEF R
  <1>2. PICK x \in T : \A y \in T : ~ (<<y, x>> \in R)
    BY <1>1, WFMin
  <1>3. \A y \in T : ~ (y < x)
    BY <1>2 DEF R
  <1>4. QED
    BY <1>3

\* The newest of some attempts is one of them.
LEMMA NewestIsOne ==
    ASSUME NEW k \in Nat, NEW ns \in SUBSET (1 .. k), ns # {}
    PROVE  Newest(ns) \in ns /\ \A m \in ns : m <= Newest(ns)
  <1> DEFINE T == {k - n : n \in ns}
  <1>1. T \subseteq Nat
    OBVIOUS
  <1>2. T # {}
    OBVIOUS
  <1>3. PICK x \in T : \A y \in T : x <= y
    BY <1>1, <1>2, LeastNatural
  <1>4. PICK n \in ns : x = k - n
    BY <1>3
  <1>5. \A m \in ns : n <= k /\ k - n <= k - m
    BY <1>3, <1>4
  <1>6. \A m \in ns : m <= n
    BY <1>5
  <1>7. QED
    BY <1>6 DEF Newest

\* A browser is given the order of a call that has it in hand.
LEMMA CheckoutOpened ==
    ASSUME PaymentInv, NEW c \in Calls, StartCheckout(c) \/ CommitCheckout(c)
    PROVE  PaymentInv' /\ Grows
  <1>1. /\ attempts \in Seq(Attempts) /\ Len(attempts) \in Nat /\ Len(attempts) <= MaxRows
        /\ quote.id \in Nat /\ calls \in [Calls -> CallRecords]
        /\ UNCHANGED <<attempts, hold, ledger, quote, authorized, orders, inflight, payments>>
    BY DEF PaymentInv, PaymentTypeOK, StartCheckout, CommitCheckout, provider, terms
  <1>2. PayableAttempts # {} =>
            Newest(PayableAttempts) \in Ordered /\ Newest(PayableAttempts) \in AttemptNumbers
    <2>1. PayableAttempts \subseteq 1 .. Len(attempts)
      BY <1>1 DEF PayableAttempts, Ordered
    <2>2. QED
      BY <1>1, <2>1, NewestIsOne, RowOf DEF PayableAttempts, Ordered, AttemptNumbers
  <1>3. PICK n \in Ordered : n \in AttemptNumbers /\ sessions' \in {sessions, sessions \cup {n}}
    <2>1. CASE StartCheckout(c)
      BY <1>2, <2>1 DEF StartCheckout
    <2>2. CASE CommitCheckout(c)
      <3>1. calls[c].n \in Ordered
        BY <2>2, CallOf DEF CommitCheckout, CallFits, PaidStages, At
      <3>2. calls[c].n \in AttemptNumbers
        BY <3>1, RowOf DEF AttemptNumbers, Ordered
      <3>3. QED
        BY <2>2, <3>1, <3>2 DEF CommitCheckout
    <2>3. QED
      BY <2>1, <2>2
  <1>4. Grows
    BY <1>1, <1>3 DEF Grows
  <1>5. ColumnsOK'
    <2>1. CASE StartCheckout(c)
      BY <1>1, <2>1 DEF StartCheckout, PaymentInv, PaymentTypeOK, ColumnsOK, Keys, txn
    <2>2. CASE CommitCheckout(c)
      <3>1. CheckoutKey(c) \in Keys
        BY CallOf DEF CheckoutKey, Keys, CallRecords
      <3>2. QED
        BY <2>2, <3>1, EventColumns DEF CommitCheckout
    <2>3. QED
      BY <2>1, <2>2
  <1>6. RowsFit' /\ PaymentBindsOrder'
    BY <1>1, <1>3
       DEF PaymentInv, RowsFit, RecordedOrdersExist, Ordered, PaymentBindsOrder
  <1>7. \/ calls' = calls
        \/ \E call \in CallRecords : CallFits(call)' /\ calls' = [calls EXCEPT ![c] = call]
    <2>1. CASE StartCheckout(c) /\ calls' # calls
      <3>1. PICK call : call = [Idle EXCEPT !.at = "Starting", !.n = Newest(PayableAttempts)]
        OBVIOUS
      <3>2. PayableAttempts # {} /\ calls' = [calls EXCEPT ![c] = call]
        BY <2>1, <3>1 DEF StartCheckout
      <3>3. call.at = "Starting" /\ call.n \in Ordered /\ call.n \in 0 .. MaxRows
        BY <1>2, <3>1, <3>2 DEF Idle, AttemptNumbers
      <3>4. call \in CallRecords
        BY <3>1, <3>3, IdleFits DEF CallRecords, Stages, Idle
      <3>5. CallFits(call)'
        BY <1>1, <3>3, <3>4 DEF CallFits, ClaimedStages, PaidStages, Ordered
      <3>6. QED
        BY <3>2, <3>4, <3>5
    <2>2. CASE CommitCheckout(c)
      BY <2>2, IdleFits DEF CommitCheckout, Done
    <2>3. QED
      BY <2>1, <2>2
  <1>8. /\ sessions' \subseteq AttemptNumbers /\ orders' \subseteq AttemptNumbers
        /\ inflight' \subseteq AttemptNumbers
        /\ payments' \in [Payments -> [order : 0 .. MaxRows, state : PaymentStates,
                                       failed : BOOLEAN]]
    BY <1>1, <1>3 DEF PaymentInv, PaymentTypeOK
  <1>9. QED
    BY <1>1, <1>4, <1>5, <1>6, <1>7, <1>8, ProviderStep

\* What the buyer does at the provider is done on an order a browser was given.
LEMMA BuyerPays ==
    ASSUME PaymentInv, NEW p \in Payments,
           PaymentFails(p) \/ PaymentAuthorized(p) \/ PaymentCaptured(p)
    PROVE  PaymentInv' /\ Grows
  <1>1. /\ attempts \in Seq(Attempts) /\ quote.id \in Nat
        /\ sessions \subseteq AttemptNumbers
        /\ payments \in [Payments -> [order : 0 .. MaxRows, state : PaymentStates,
                                      failed : BOOLEAN]]
        /\ UNCHANGED <<txn, attempts, terms, hold, ledger, calls, sessions, orders, inflight>>
    BY DEF PaymentInv, PaymentTypeOK, PaymentFails, PaymentAuthorized, PaymentCaptured
  <1>2. PICK paid : /\ payments' = [payments EXCEPT ![p] = paid]
                    /\ paid \in [order : 0 .. MaxRows, state : PaymentStates, failed : BOOLEAN]
                    /\ paid.state # "none" /\ payments[p].state # "captured"
                    /\ payments[p].state = "none" => paid.order \in sessions
                    /\ payments[p].state # "none" => paid.order = payments[p].order
    <2>1. \A n \in sessions : n \in 0 .. MaxRows
      BY <1>1 DEF AttemptNumbers
    <2>2. CASE PaymentFails(p)
      <3>1. PICK n \in sessions :
                payments' = [payments EXCEPT ![p] = [order |-> n, state |-> "failed", failed |-> TRUE]]
        BY <2>2 DEF PaymentFails
      <3> DEFINE paid == [order |-> n, state |-> "failed", failed |-> TRUE]
      <3>2. paid \in [order : 0 .. MaxRows, state : PaymentStates, failed : BOOLEAN]
        BY <2>1 DEF PaymentStates
      <3>3. paid.state = "failed" /\ paid.order = n /\ payments' = [payments EXCEPT ![p] = paid]
        BY <3>1
      <3> HIDE DEF paid
      <3>4. QED
        BY <2>2, <3>2, <3>3 DEF PaymentFails
    <2>3. CASE PaymentAuthorized(p) /\ payments[p].state = "none"
      <3>1. PICK n \in sessions :
                payments' = [payments EXCEPT ![p].order = n, ![p].state = "authorized"]
        BY <2>3 DEF PaymentAuthorized
      <3> DEFINE paid == [payments[p] EXCEPT !.order = n, !.state = "authorized"]
      <3>2. payments' = [payments EXCEPT ![p] = paid]
        BY <1>1, <3>1
      <3>3. paid \in [order : 0 .. MaxRows, state : PaymentStates, failed : BOOLEAN]
        BY <1>1, <2>1 DEF PaymentStates
      <3>4. paid.state = "authorized" /\ paid.order = n
        BY <1>1
      <3> HIDE DEF paid
      <3>5. QED
        BY <2>3, <3>2, <3>3, <3>4
    <2>4. ASSUME NEW s \in {"authorized", "captured"},
                 payments' = [payments EXCEPT ![p].state = s],
                 payments[p].state \in {"failed", "authorized"}
          PROVE  \E paid :
                    /\ payments' = [payments EXCEPT ![p] = paid]
                    /\ paid \in [order : 0 .. MaxRows, state : PaymentStates, failed : BOOLEAN]
                    /\ paid.state # "none" /\ payments[p].state # "captured"
                    /\ payments[p].state = "none" => paid.order \in sessions
                    /\ payments[p].state # "none" => paid.order = payments[p].order
      <3> DEFINE paid == [payments[p] EXCEPT !.state = s]
      <3>1. payments' = [payments EXCEPT ![p] = paid]
        BY <1>1, <2>4
      <3>2. paid \in [order : 0 .. MaxRows, state : PaymentStates, failed : BOOLEAN]
        BY <1>1 DEF PaymentStates
      <3>3. paid.state = s /\ paid.order = payments[p].order
        BY <1>1
      <3> HIDE DEF paid
      <3>4. QED
        BY <2>4, <3>1, <3>2, <3>3
    <2>5. CASE PaymentAuthorized(p) /\ payments[p].state # "none"
      BY <2>4, <2>5 DEF PaymentAuthorized
    <2>6. CASE PaymentCaptured(p)
      BY <2>4, <2>6 DEF PaymentCaptured
    <2>7. QED
      BY <2>2, <2>3, <2>5, <2>6
  <1>3. /\ payments'[p] = paid /\ \A q \in Payments : q # p => payments'[q] = payments[q]
        /\ payments' \in [Payments -> [order : 0 .. MaxRows, state : PaymentStates,
                                       failed : BOOLEAN]]
    BY <1>1, <1>2
  <1>4. Grows
    BY <1>1, <1>2, <1>3 DEF Grows, terms
  <1>5. ColumnsOK'
    BY <1>1 DEF PaymentInv, PaymentTypeOK, ColumnsOK, Keys, txn, terms
  <1>6. RowsFit'
    BY <1>1, <1>2, <1>3 DEF PaymentInv, RowsFit, RecordedOrdersExist, Ordered, terms
  <1>7. PaymentBindsOrder'
    <2>1. ASSUME NEW n \in DOMAIN attempts', attempts'[n].payment # NoPayment
          PROVE  payments'[attempts'[n].payment].order = n
      <3>1. n \in DOMAIN attempts /\ attempts'[n] = attempts[n] /\ n \in 1 .. MaxRows
        BY <1>1, <2>1, RowOf
      <3>2. attempts[n].payment \in Payments /\ payments[attempts[n].payment].order = n
        BY <2>1, <3>1, RowOf DEF PaymentInv, PaymentBindsOrder, Attempts
      <3>3. payments[attempts[n].payment].state # "none"
        BY <3>1, <3>2 DEF PaymentInv, RowsFit
      <3>4. QED
        BY <1>2, <1>3, <3>1, <3>2, <3>3
    <2>2. QED
      BY <2>1 DEF PaymentBindsOrder
  <1>8. QED
    BY <1>1, <1>3, <1>4, <1>5, <1>6, <1>7, ProviderStep DEF PaymentInv, PaymentTypeOK, terms

-----------------------------------------------------------------------------
(* Webhook, and what the other services only read. *)

\* A callback, a report or a status check arrives, or ends without a word.
LEMMA ReportReads ==
    ASSUME PaymentInv, NEW c \in Calls,
           \/ \E p \in Payments : ReceiveCallback(c, p)
           \/ AskProvider(c) \/ NothingToReconcile(c) \/ RollBackReconciliation(c)
           \/ Crash(c)
    PROVE  PaymentInv' /\ Grows
  <1>1. CASE NothingToReconcile(c) \/ RollBackReconciliation(c) \/ Crash(c)
    BY <1>1, IdleFits, ReadStep DEF NothingToReconcile, RollBackReconciliation, Crash, Done
  <1>2. CASE AskProvider(c)
    <2>1. Newest(Ordered) \in Ordered /\ Newest(Ordered) \in 0 .. MaxRows
      <3>1. Ordered \subseteq 1 .. Len(attempts) /\ Len(attempts) \in Nat
        BY CallOf DEF Ordered
      <3>2. QED
        BY <1>2, <3>1, NewestIsOne, RowOf DEF AskProvider, Ordered
    <2>2. PICK call : call = [Idle EXCEPT !.at = "Asking", !.n = Newest(Ordered)]
      OBVIOUS
    <2>3. call \in CallRecords /\ call.at = "Asking" /\ call.n \in Ordered
      BY <2>1, <2>2, IdleFits DEF CallRecords, Stages, Idle
    <2>4. CallFits(call)
      BY <2>3 DEF CallFits, ClaimedStages, PaidStages, Ordered
    <2>5. QED
      BY <1>2, <2>2, <2>4, ReadStep DEF AskProvider
  <1>3. ASSUME NEW p \in Payments, ReceiveCallback(c, p)
        PROVE  PaymentInv' /\ Grows
    <2>1. payments[p].state # "none" /\ payments[p].order \in Ordered
      BY <1>3 DEF ReceiveCallback, PaymentInv, RowsFit
    <2>2. payments[p].order \in 0 .. MaxRows
      BY <2>1, RowOf DEF Ordered
    <2>3. PICK call : call = [Idle EXCEPT !.at = "Verifying", !.n = payments[p].order, !.pay = p]
      OBVIOUS
    <2>4. /\ call \in CallRecords /\ call.at = "Verifying" /\ call.n \in Ordered
          /\ call.pay = p /\ call.n = payments[p].order
      BY <2>1, <2>2, <2>3, IdleFits DEF CallRecords, Stages, Idle
    <2>5. CallFits(call)
      BY <2>1, <2>4 DEF CallFits, ClaimedStages, PaidStages, Ordered
    <2>6. QED
      BY <1>3, <2>3, <2>5, ReadStep DEF ReceiveCallback
  <1>4. QED
    BY <1>1, <1>2, <1>3

\* A report is correlated with the attempt whose order the payment was made on.
LEMMA ReportCorrelated ==
    ASSUME PaymentInv, NEW c \in Calls, NEW p \in Payments,
           NEW kind \in {"failed", "captured", "status"}, Correlate(c, kind, p)
    PROVE  PaymentInv' /\ Grows
  <1>1. /\ payments[p].state # "none" /\ (kind # "failed" => payments[p].state = "captured")
        /\ payments[p].order \in Ordered /\ payments[p].order \in 0 .. MaxRows
    <2>1. payments[p].state # "none" /\ (kind # "failed" => payments[p].state = "captured")
      BY DEF Correlate, Reportable, PaymentInv, RowsFit
    <2>2. QED
      BY <2>1, RowOf DEF PaymentInv, RowsFit, Ordered
  <1>2. PICK call : call = [Idle EXCEPT !.at = "Reconciling", !.n = payments[p].order,
                                        !.pay = p, !.kind = kind]
    OBVIOUS
  <1>3. /\ call \in CallRecords /\ call.at = "Reconciling" /\ call.n = payments[p].order
        /\ call.pay = p /\ call.kind = kind
    BY <1>1, <1>2, IdleFits DEF CallRecords, Stages, Idle
  <1>4. CallFits(call)
    BY <1>1, <1>3 DEF CallFits, ClaimedStages, PaidStages, Ordered
  <1>5. /\ calls' = [calls EXCEPT ![c] = call] \/ calls' = [calls EXCEPT ![c] = Idle]
        /\ ledger' \in {ledger, ledger \cup {<<<<kind, p>>, "REJECTED">>}}
    BY <1>2 DEF Correlate, Done, AttemptOf
  <1>6. UNCHANGED <<txn, attempts, terms, hold, sessions, provider>>
    BY DEF Correlate
  <1>7. ColumnsOK' /\ quote' = quote
    <2>1. <<<<kind, p>>, "REJECTED">> \in EventIds \X LedgerOutcomes
      BY DEF EventIds, LedgerOutcomes
    <2>2. QED
      BY <1>5, <1>6, <2>1 DEF PaymentInv, PaymentTypeOK, ColumnsOK, Keys, txn, terms
  <1>8. QED
    BY <1>4, <1>5, <1>6, <1>7, <1>3, IdleFits, ColumnStep

\* The event a report leads to is one of the ledger's own keys, recorded with
\* the commit that settles the attempt.
LEMMA ReportCommitted ==
    ASSUME PaymentInv, NEW c \in Calls, CommitReconciliation(c)
    PROVE  PaymentInv' /\ Grows
  <1> DEFINE n == calls[c].n
             row == SettledAttempt(c)
  <1>1. /\ n \in DOMAIN attempts /\ n \in Ordered /\ calls[c].pay \in Payments
        /\ payments[calls[c].pay].order = n
        /\ calls[c].kind \in {"failed", "captured", "status"}
    BY CallOf DEF CommitReconciliation, CallFits, PaidStages, At
  <1>2. /\ attempts[n] \in Attempts /\ n \in 0 .. MaxRows
        /\ attempts \in Seq(Attempts) /\ n \in orders
    BY <1>1, RowOf, CallOf DEF PaymentInv, RowsFit, RecordedOrdersExist
  <1>3. attempts' = [attempts EXCEPT ![n] = row]
    BY DEF CommitReconciliation
  <1>4. /\ row \in Attempts
        /\ row.quote = attempts[n].quote /\ row.retry = attempts[n].retry
        /\ row.payment = calls[c].pay /\ row.order = attempts[n].order
    <2>1. PICK s : /\ s \in AttemptStatuses
                   /\ row = [attempts[n] EXCEPT !.payment = calls[c].pay, !.status = s]
      <3>1. attempts[n].status \in AttemptStatuses
        BY <1>2 DEF Attempts
      <3>2. QED
        BY <3>1 DEF SettledAttempt, AttemptStatuses
    <2>2. QED
      BY <1>1, <1>2, <2>1 DEF Attempts
  <1>5. status' \in TransactionStates
    <2>1. status \in TransactionStates
      BY DEF PaymentInv, PaymentTypeOK
    <2>2. Decision(c).to \in TransactionStates
      BY <2>1, ResolveTo DEF Decision, Adjudicate
    <2>3. QED
      BY <2>2, ResolveTo DEF CommitReconciliation, Settle
  <1>6. DeliveryId(c) \in EventIds
    BY <1>1 DEF DeliveryId, EventIds
  <1>7. ColumnsOK' /\ quote' = quote
    <2>1. recorded' \subseteq Keys
      BY <1>6 DEF PaymentInv, PaymentTypeOK, CommitReconciliation, Settle, Keys
    <2>2. ledger' \subseteq EventIds \X LedgerOutcomes
      BY <1>6 DEF PaymentInv, PaymentTypeOK, CommitReconciliation, LedgerOutcomes
    <2>3. hold' \in [status : HoldStatuses, quote : 1 .. MaxQuotes, lapsed : BOOLEAN]
      BY DEF PaymentInv, PaymentTypeOK, CommitReconciliation, Settle, HoldStatuses
    <2>4. QED
      BY <1>5, <2>1, <2>2, <2>3
         DEF PaymentInv, PaymentTypeOK, CommitReconciliation, ColumnsOK, terms
  <1>8. Done(c) /\ UNCHANGED <<sessions, provider>>
    BY DEF CommitReconciliation
  <1> HIDE DEF n, row
  <1>9. QED
    BY <1>1, <1>2, <1>3, <1>4, <1>7, <1>8, RowStep

-----------------------------------------------------------------------------
(* PaymentRetry, and the world: columns only. *)

\* Steps that end their call, or are nobody's.
LEMMA PlainColumns ==
    ASSUME PaymentInv,
           \/ \E c \in Calls : ReleaseHeldStock(c)
           \/ DecideApproval \/ ReserveInventory
           \/ QuoteGoesStale \/ HoldLapses \/ SweepHold \/ PolicyRevised
    PROVE  PaymentInv' /\ Grows
  <1>1. /\ status \in TransactionStates /\ recorded \subseteq Keys
        /\ quote \in [id : 1 .. MaxQuotes, usable : BOOLEAN] /\ authorized \in BOOLEAN
        /\ hold \in [status : HoldStatuses, quote : 1 .. MaxQuotes, lapsed : BOOLEAN]
        /\ ledger \subseteq EventIds \X LedgerOutcomes
    BY DEF PaymentInv, PaymentTypeOK, Keys
  <1>2. status' \in TransactionStates
    BY <1>1, ResolveTo
       DEF ReleaseHeldStock, DecideApproval, ReserveInventory, QuoteGoesStale, HoldLapses,
           SweepHold, PolicyRevised, txn
  <1>3. hold' \in [status : HoldStatuses, quote : 1 .. MaxQuotes, lapsed : BOOLEAN]
    <2>1. CASE \E c \in Calls : ReleaseHeldStock(c)
      BY <1>1, <2>1 DEF ReleaseHeldStock, HoldStatuses
    <2>2. CASE ReserveInventory
      BY <1>1, <2>2 DEF ReserveInventory, HoldStatuses
    <2>3. CASE HoldLapses \/ SweepHold
      BY <1>1, <2>3 DEF HoldLapses, SweepHold, HoldStatuses
    <2>4. CASE DecideApproval \/ QuoteGoesStale \/ PolicyRevised
      BY <1>1, <2>4 DEF DecideApproval, QuoteGoesStale, PolicyRevised
    <2>5. QED
      BY <2>1, <2>2, <2>3, <2>4
  <1>4. quote' \in [id : 1 .. MaxQuotes, usable : BOOLEAN] /\ quote'.id = quote.id
    BY <1>1
       DEF ReleaseHeldStock, DecideApproval, ReserveInventory, QuoteGoesStale, HoldLapses,
           SweepHold, PolicyRevised, terms
  <1>5. /\ authorized' \in BOOLEAN
        /\ UNCHANGED <<recorded, ledger, attempts, sessions, provider>>
        /\ calls' = calls \/ \E c \in Calls : Done(c)
    BY <1>1
       DEF ReleaseHeldStock, DecideApproval, ReserveInventory, QuoteGoesStale, HoldLapses,
           SweepHold, PolicyRevised, terms, txn
  <1>6. ColumnsOK'
    BY <1>1, <1>2, <1>3, <1>4, <1>5 DEF ColumnsOK
  <1>7. QED
    BY <1>4, <1>5, <1>6, IdleFits, ColumnStep DEF Done

\* The gate's answer, and the ends of a re-quote that change no row.
LEMMA RetryReads ==
    ASSUME PaymentInv, NEW c \in Calls,
           RequestRetry(c) \/ QuoteNotIssued(c) \/ QuoteNotUsable(c)
    PROVE  PaymentInv' /\ Grows
  <1>1. /\ CallFits(calls[c]) /\ calls[c] \in CallRecords
        /\ UNCHANGED <<txn, attempts, terms, hold, ledger, sessions, provider>>
    BY CallOf DEF RequestRetry, QuoteNotIssued, QuoteNotUsable
  <1>2. NextAttemptNumber \in 0 .. MaxRows + 1 /\ Len(attempts) \in 0 .. MaxRows
    BY PaymentAssumption DEF NextAttemptNumber, PaymentInv, PaymentTypeOK
  <1>3. PICK call :
            /\ calls' = [calls EXCEPT ![c] = call]
            /\ \/ call = [Idle EXCEPT !.at = "Check", !.retry = NextAttemptNumber]
               \/ call = [Idle EXCEPT !.at = "Requote", !.retry = NextAttemptNumber,
                                      !.n = Len(attempts)]
               \/ call = [calls[c] EXCEPT !.at = "Release"]
               \/ call = Idle
    BY CallOf DEF RequestRetry, QuoteNotIssued, QuoteNotUsable, Goto, Done
  <1>4. call \in CallRecords /\ call.at \in {"Check", "Requote", "Release", "Idle"}
    <2>1. CASE call = [calls[c] EXCEPT !.at = "Release"]
      BY <1>1, <2>1 DEF CallRecords, Stages
    <2>2. CASE call = Idle
      BY <2>2, IdleFits DEF Idle
    <2>3. CASE call = [Idle EXCEPT !.at = "Check", !.retry = NextAttemptNumber]
      BY <1>2, <2>3, IdleFits DEF CallRecords, Stages, Idle
    <2>4. CASE call = [Idle EXCEPT !.at = "Requote", !.retry = NextAttemptNumber,
                                   !.n = Len(attempts)]
      BY <1>2, <2>4, IdleFits DEF CallRecords, Stages, Idle
    <2>5. QED
      BY <1>3, <2>1, <2>2, <2>3, <2>4
  <1>5. CallFits(call)
    BY <1>4 DEF CallFits, ClaimedStages, PaidStages
  <1>6. QED
    BY <1>1, <1>3, <1>5, ReadStep

\* The re-quote: a new quote, its policy decision, and the hold told of it.
LEMMA Requoted ==
    ASSUME PaymentInv, NEW c \in Calls, IssueQuote(c) \/ EvaluatePolicy(c) \/ RebindHold(c)
    PROVE  PaymentInv' /\ Grows
  <1>1. /\ CallFits(calls[c]) /\ calls[c] \in CallRecords /\ calls \in [Calls -> CallRecords]
        /\ quote.id \in 1 .. MaxQuotes /\ quote.id \in Nat
        /\ UNCHANGED <<attempts, ledger, sessions, provider>>
    BY CallOf DEF IssueQuote, EvaluatePolicy, RebindHold, terms
  <1>2. /\ status \in TransactionStates /\ recorded \subseteq Keys
        /\ quote \in [id : 1 .. MaxQuotes, usable : BOOLEAN] /\ authorized \in BOOLEAN
        /\ hold \in [status : HoldStatuses, quote : 1 .. MaxQuotes, lapsed : BOOLEAN]
        /\ ledger \subseteq EventIds \X LedgerOutcomes /\ ColumnsOK
    BY DEF PaymentInv, PaymentTypeOK, Keys, ColumnsOK
  <1>3. CASE IssueQuote(c)
    <2>1. CycleKey(c) \in Keys
      BY <1>1 DEF CycleKey, Keys, CallRecords
    <2>2. status' \in TransactionStates /\ recorded' \subseteq Keys
      BY <1>2, <1>3, <2>1, EventApplied DEF IssueQuote
    <2>3. quote.id + 1 \in 1 .. MaxQuotes /\ quote.id + 1 \in 0 .. MaxQuotes
      BY <1>1, <1>3, PaymentAssumption DEF IssueQuote
    <2>4. /\ quote' = [id |-> quote.id + 1, usable |-> TRUE] /\ quote'.id = quote.id + 1
          /\ hold' = hold /\ authorized' = FALSE
      BY <1>3 DEF IssueQuote
    <2>5. ColumnsOK'
      BY <1>1, <1>2, <2>2, <2>3, <2>4 DEF ColumnsOK
    <2>6. PICK call : call = [calls[c] EXCEPT !.at = "Evaluate", !.quote = quote.id + 1]
      OBVIOUS
    <2>7. call \in CallRecords /\ call.at = "Evaluate" /\ call.quote = quote.id + 1
      BY <1>1, <2>3, <2>6 DEF CallRecords, Stages
    <2>8. calls' = [calls EXCEPT ![c] = call]
      BY <1>1, <1>3, <2>6 DEF IssueQuote
    <2>9. Grows /\ quote'.id \in Nat
      BY <1>1, <2>4 DEF Grows, provider
    <2>10. CallFits(call)'
      BY <1>1, <2>4, <2>7 DEF CallFits, ClaimedStages, PaidStages
    <2>11. CallsFit' /\ calls' \in [Calls -> CallRecords]
      BY <2>8, <2>9, <2>10, CallsStep
    <2>12. PaymentTypeOK'
      BY <1>1, <2>5, <2>11 DEF PaymentInv, PaymentTypeOK, ColumnsOK, Keys, provider
    <2>13. RowsFit'
      <3>1. \A n \in DOMAIN attempts : attempts[n].quote \in Nat
        BY RowOf DEF Attempts
      <3>2. \A n \in DOMAIN attempts' : attempts'[n].quote <= quote'.id
        BY <1>1, <2>4, <3>1 DEF PaymentInv, RowsFit
      <3>3. QED
        BY <1>1, <3>2 DEF PaymentInv, RowsFit, RecordedOrdersExist, Ordered, provider
    <2>14. OneRowPerClaim' /\ PaymentBindsOrder'
      BY <1>1 DEF PaymentInv, OneRowPerClaim, PaymentBindsOrder, provider
    <2>15. QED
      BY <2>9, <2>11, <2>12, <2>13, <2>14 DEF PaymentInv
  <1>4. CASE EvaluatePolicy(c)
    <2>1. calls[c].quote \in 1 .. quote.id /\ calls[c].at = "Evaluate"
      BY <1>1, <1>4 DEF EvaluatePolicy, CallFits, At
    <2>2. PICK stage \in {"Rebind", "Release"}, kind \in {calls[c].kind, "ALLOWED", "APPROVAL_REQUIRED"} :
              calls' = [calls EXCEPT ![c].at = stage, ![c].kind = kind]
      <3>1. calls' = [calls EXCEPT ![c].at = "Release"]
            => calls' = [calls EXCEPT ![c].at = "Release", ![c].kind = calls[c].kind]
        BY <1>1 DEF CallRecords
      <3>2. QED
        BY <1>4, <3>1 DEF EvaluatePolicy, Goto
    <2>3. PICK call : call = [calls[c] EXCEPT !.at = stage, !.kind = kind]
      OBVIOUS
    <2>4. /\ calls' = [calls EXCEPT ![c] = call]
          /\ call.at = stage /\ call.quote = calls[c].quote /\ call \in CallRecords
      BY <1>1, <2>2, <2>3 DEF CallRecords, Stages
    <2>5. CallFits(call)
      BY <2>1, <2>4 DEF CallFits, ClaimedStages, PaidStages
    <2>6. status' \in TransactionStates
      <3>1. "POLICY_EVALUATED" \in TransactionStates
        BY DEF TransactionStates
      <3>2. QED
        BY <1>4, <3>1, ResolveTo DEF EvaluatePolicy
    <2>7. recorded' \subseteq Keys
      BY <1>1, <1>2, <1>4 DEF EvaluatePolicy, Keys, CallRecords
    <2>8. ColumnsOK' /\ quote'.id = quote.id
      BY <1>2, <1>4, <2>6, <2>7 DEF EvaluatePolicy, ColumnsOK
    <2>9. QED
      BY <1>1, <2>4, <2>5, <2>8, ColumnStep
  <1>5. CASE RebindHold(c)
    <2>1. calls[c].quote \in 1 .. MaxQuotes
      <3>1. calls[c].quote \in 1 .. quote.id
        BY <1>1, <1>5 DEF RebindHold, CallFits, At
      <3>2. QED
        BY <1>1, <3>1, PaymentAssumption
    <2>2. hold' \in [status : HoldStatuses, quote : 1 .. MaxQuotes, lapsed : BOOLEAN]
      BY <1>2, <1>5, <2>1 DEF RebindHold
    <2>3. ColumnsOK' /\ quote'.id = quote.id
      BY <1>1, <1>2, <1>5, <2>2 DEF RebindHold, ColumnsOK, txn, terms
    <2>4. PICK call : /\ calls' = [calls EXCEPT ![c] = call]
                      /\ \/ call = [Idle EXCEPT !.at = "Check", !.retry = calls[c].retry]
                         \/ call = Idle
      BY <1>5 DEF RebindHold, Done
    <2>5. call \in CallRecords /\ call.at \in {"Check", "Idle"}
      <3>1. CASE call = Idle
        BY <3>1, IdleFits DEF Idle
      <3>2. CASE call = [Idle EXCEPT !.at = "Check", !.retry = calls[c].retry]
        <4>1. calls[c].retry \in 0 .. MaxRows + 1
          BY <1>1 DEF CallRecords
        <4>2. QED
          BY <3>2, <4>1, IdleFits DEF CallRecords, Stages, Idle
      <3>3. QED
        BY <2>4, <3>1, <3>2
    <2>6. CallFits(call)
      BY <2>5 DEF CallFits, ClaimedStages, PaidStages
    <2>7. QED
      BY <1>1, <2>3, <2>4, <2>5, <2>6, ColumnStep
  <1>6. QED
    BY <1>3, <1>4, <1>5

-----------------------------------------------------------------------------
(* The theorems of this invariant. *)

LEMMA PaymentInitially == Init => PaymentInv
  <1> SUFFICES ASSUME Init PROVE PaymentInv
    OBVIOUS
  <1>1. 1 \in 1 .. MaxQuotes /\ 0 \in 0 .. MaxRows
    BY PaymentAssumption
  <1>2. calls \in [Calls -> CallRecords] /\ CallsFit
    <2>1. \A c \in Calls : calls[c] = Idle
      BY DEF Init
    <2>2. calls \in [Calls -> CallRecords]
      BY IdleFits DEF Init
    <2>3. CallsFit
      BY <2>1, IdleFits DEF CallsFit
    <2>4. QED
      BY <2>2, <2>3
  <1>3. attempts = <<>> /\ attempts \in Seq(Attempts) /\ Len(attempts) = 0
    BY DEF Init
  <1>4. PaymentTypeOK
    BY <1>1, <1>2, <1>3, PaymentAssumption
       DEF PaymentTypeOK, Init, TransactionStates, HoldStatuses, PaymentStates
  <1>5. RowsFit /\ OneRowPerClaim /\ PaymentBindsOrder
    BY <1>3 DEF RowsFit, RecordedOrdersExist, Ordered, OneRowPerClaim, PaymentBindsOrder, Init
  <1>6. QED
    BY <1>2, <1>4, <1>5 DEF PaymentInv

\* One step of the payment, whoever takes it, keeps the rows and the calls fit,
\* and takes back nothing a call may have read.
LEMMA PaymentKept == PaymentInv /\ [Next]_vars => PaymentInv' /\ Grows
  <1> SUFFICES ASSUME PaymentInv, [Next]_vars PROVE PaymentInv' /\ Grows
    OBVIOUS
  <1>1. CASE UNCHANGED vars
    <2>1. /\ UNCHANGED <<attempts, sessions, provider, calls>> /\ quote'.id = quote.id
          /\ ColumnsOK'
      BY <1>1 DEF vars, provider, PaymentInv, PaymentTypeOK, ColumnsOK, Keys
    <2>2. QED
      BY <2>1, ColumnStep
  <1>2. ASSUME NEW c \in Calls, OrderStep(c) PROVE PaymentInv' /\ Grows
    BY <1>2, OrderReads, ClaimRow, OrderMade, OrderEndings DEF OrderStep
  <1>3. ASSUME NEW c \in Calls, CheckoutStep(c) PROVE PaymentInv' /\ Grows
    BY <1>3, CheckoutOpened, CallbackCommitted, ReportReads DEF CheckoutStep
  <1>4. ASSUME NEW c \in Calls, WebhookStep(c) PROVE PaymentInv' /\ Grows
    BY <1>4, ReportCommitted, ReportReads, ReportCorrelated
       DEF WebhookStep, ReceiveWebhook, ReceiveAnswer
  <1>5. ASSUME NEW c \in Calls, RetryStep(c) PROVE PaymentInv' /\ Grows
    BY <1>5, RetryReads, Requoted, PlainColumns DEF RetryStep
  <1>6. ASSUME NEW c \in Calls, Crash(c) PROVE PaymentInv' /\ Grows
    BY <1>6, ReportReads
  <1>7. CASE BuyerStep
    BY <1>7, BuyerPays DEF BuyerStep
  <1>8. CASE DecideApproval \/ ReserveInventory
    BY <1>8, PlainColumns
  <1>9. CASE WorldStep
    BY <1>9, PlainColumns, OrderMade DEF WorldStep
  <1>10. QED
    BY <1>1, <1>2, <1>3, <1>4, <1>5, <1>6, <1>7, <1>8, <1>9 DEF Next

LEMMA PaymentInvariant == Spec => []PaymentInv
  BY PaymentInitially, PaymentKept, PTL DEF Spec

\* Every row, record and call of the payment services is well formed, however
\* many calls, payments, attempts and quotes there are.
THEOREM PaymentTypes == Spec => []PaymentTypeOK
  BY PaymentInvariant, PTL DEF PaymentInv

\* An order id on record is an order the provider has, and one claim leads to
\* one order, although creates are lost, arrive late and are looked up by other
\* calls than the one that sent them (the claim key and the receipt).
THEOREM OrdersAreTheClaims == Spec => []OrdersMatchClaims
  <1>1. PaymentInv => OrdersMatchClaims
    BY DEF PaymentInv, RowsFit, OneRowPerClaim, OrdersMatchClaims, OneOrderPerClaim
  <1>2. QED
    BY <1>1, PaymentInvariant, PTL

\* A payment id on an attempt is a payment made on that attempt's own order,
\* whichever of several orders the reports about it arrive for.
THEOREM PaymentsStayWithTheirOrder == Spec => []PaymentBindsOrder
  BY PaymentInvariant, PTL DEF PaymentInv

-----------------------------------------------------------------------------
(* The sale. *)


Announced == {"PAYMENT_ORDER_CREATED", "PAYMENT_PENDING", "PAYMENT_VERIFIED"}
Booked == status \in CapturedStates
CaptureIds == {"captured", "status"} \X Payments

\* A capture in the history, or a second one in the ledger, is money the
\* provider has, made on an order of this purchase, and has booked the sale.
CapturesAreMoney ==
    \A id \in CaptureIds :
        id \in recorded \/ <<id, "MULTIPLE_CAPTURE">> \in ledger =>
            PaidWith(id[2]) /\ payments[id[2]].order \in Ordered /\ Booked

\* Only a capture is ever entered as a second one.
MultiplesAreCaptures ==
    \A e \in ledger : e[2] = "MULTIPLE_CAPTURE" => e[1] \in CaptureIds

\* A sale is booked by a capture that is in the history.
BookedIsRecorded == Booked => \E id \in CaptureIds : id \in recorded

\* Stock is sold with the sale, and nothing is held beside a booked sale.
HoldFollowsSale ==
    /\ hold.status = "COMMITTED" => Booked
    /\ Booked => hold.status # "ACTIVE"
    /\ status = "COMPLETED" => hold.status = "COMMITTED"

MoneyInv ==
    /\ AnnouncedOrderIsStored /\ CapturedAttemptMeansPaid
    /\ CapturesAreMoney /\ MultiplesAreCaptures /\ BookedIsRecorded /\ HoldFollowsSale

-----------------------------------------------------------------------------
(* The moves of the matrix the payment services make. *)

\* Where each event of a payment may find the purchase, and leave it.
LEMMA PaymentEdges ==
    \A t \in Transitions :
        /\ t.event \in {"PAYMENT_ORDER_CREATED", "PAYMENT_RETRY_REQUESTED"} =>
              /\ t.from \in {"INVENTORY_RESERVED", "AUTHORIZED", "PAYMENT_FAILED"}
              /\ t.to = "PAYMENT_ORDER_CREATED"
        /\ t.event = "PAYMENT_STARTED" =>
              t.from = "PAYMENT_ORDER_CREATED" /\ t.to = "PAYMENT_PENDING"
        /\ t.event = "PAYMENT_CALLBACK_VERIFIED" =>
              t.from = "PAYMENT_PENDING" /\ t.to = "PAYMENT_VERIFIED"
        /\ t.event = "PAYMENT_FAILED" =>
              t.from \in {"INVENTORY_RESERVED"} \cup Announced /\ t.to = "PAYMENT_FAILED"
        /\ t.event = "PAYMENT_CAPTURE_CONFIRMED" =>
              t.from \in {"PAYMENT_FAILED"} \cup Announced /\ t.to = "PAYMENT_CAPTURED"
  BY DEF Transitions, PurchaseMoves, PaymentMoves, RetryMoves, FailureMoves, CaptureMoves,
         ExpiryMoves, CancelMoves, Moves, BothPaymentActors, Announced

-----------------------------------------------------------------------------
(* Steps that book nothing. *)

\* The step neither books nor unbooks the sale, enters no capture, makes no
\* attempt CAPTURED, and moves the stock of an unbooked sale only, never to sold.
Unbooked ==
    /\ status' \in CapturedStates <=> Booked
    /\ status' = "COMPLETED" <=> status = "COMPLETED"
    /\ status' \in Announced =>
          \/ status \in Announced
          \/ \E n \in Ordered' : <<"payment_order", n>> \in recorded'
    /\ recorded \subseteq recorded' /\ ledger \subseteq ledger'
    /\ \A id \in CaptureIds : id \in recorded' => id \in recorded
    /\ \A e \in ledger' : e[2] = "MULTIPLE_CAPTURE" => e \in ledger
    /\ Booked => hold'.status = hold.status
    /\ hold'.status = "COMMITTED" => hold.status = "COMMITTED"
    /\ \A n \in DOMAIN attempts' : attempts'[n].status = "CAPTURED" =>
          n \in DOMAIN attempts /\ attempts[n].status = "CAPTURED"
    /\ hold' = hold \/ payments' = payments

LEMMA UnbookedKeeps ==
    ASSUME MoneyInv, Unbooked, Grows
    PROVE  MoneyInv'
  <1>1. Ordered \subseteq Ordered'
    BY DEF Grows, Ordered
  <1>2. AnnouncedOrderIsStored'
    BY <1>1 DEF MoneyInv, AnnouncedOrderIsStored, Unbooked, Announced
  <1>3. CapturedAttemptMeansPaid'
    BY DEF MoneyInv, CapturedAttemptMeansPaid, SomeAttempt, Unbooked, Booked
  <1>4. CapturesAreMoney'
    <2>1. ASSUME NEW id \in CaptureIds, id \in recorded' \/ <<id, "MULTIPLE_CAPTURE">> \in ledger'
          PROVE  /\ payments'[id[2]].state = "captured" /\ payments'[id[2]].order \in Ordered'
                 /\ status' \in CapturedStates
      <3>1. id \in recorded \/ <<id, "MULTIPLE_CAPTURE">> \in ledger
        BY <2>1 DEF Unbooked
      <3>2. /\ payments[id[2]].state = "captured" /\ payments[id[2]].order \in Ordered
            /\ Booked /\ id[2] \in Payments
        BY <3>1 DEF MoneyInv, CapturesAreMoney, PaidWith, CaptureIds
      <3>3. QED
        BY <1>1, <3>2 DEF Grows, Unbooked
    <2>2. QED
      BY <2>1 DEF CapturesAreMoney, PaidWith, Booked, CaptureIds
  <1>5. MultiplesAreCaptures' /\ BookedIsRecorded'
    BY DEF MoneyInv, MultiplesAreCaptures, BookedIsRecorded, Unbooked, Booked, CaptureIds
  <1>6. HoldFollowsSale'
    BY DEF MoneyInv, HoldFollowsSale, Unbooked, Booked
  <1>7. QED
    BY <1>2, <1>3, <1>4, <1>5, <1>6 DEF MoneyInv

\* Handlers that change no column of the purchase, its stock or its history.
LEMMA ReadsBookNothing ==
    ASSUME PaymentInv, UNCHANGED <<txn, hold, ledger>>,
           \A n \in DOMAIN attempts' : attempts'[n].status = "CAPTURED" =>
              n \in DOMAIN attempts /\ attempts[n].status = "CAPTURED"
    PROVE  Unbooked
  BY DEF Unbooked, Booked, txn

\* Events of the payment other than reports.
LEMMA EventsBookNothing ==
    ASSUME PaymentInv, NEW key \in Keys, NEW a,
           NEW e \in {"PAYMENT_ORDER_CREATED", "PAYMENT_RETRY_REQUESTED", "PAYMENT_STARTED",
                      "PAYMENT_CALLBACK_VERIFIED", "QUOTE_ISSUED"},
           ApplyEvent(e, a, key), key \notin EventIds, UNCHANGED <<hold, ledger>>,
           e \in {"PAYMENT_ORDER_CREATED", "PAYMENT_RETRY_REQUESTED"} =>
              \E n \in Ordered' : key = <<"payment_order", n>>,
           \A n \in DOMAIN attempts' : attempts'[n].status = "CAPTURED" =>
              n \in DOMAIN attempts /\ attempts[n].status = "CAPTURED"
    PROVE  Unbooked
  <1>1. ColumnsOK
    BY DEF PaymentInv, PaymentTypeOK, ColumnsOK, Keys
  <1>2. \/ status' = status /\ recorded' = recorded
        \/ /\ Resolve(status, e, a).kind = "APPLY" /\ status' = Resolve(status, e, a).to
           /\ recorded' = recorded \cup {key}
    BY <1>1, EventApplied
  <1>3. CASE status' = status /\ recorded' = recorded
    BY <1>3 DEF Unbooked, Booked
  <1>4. CASE /\ Resolve(status, e, a).kind = "APPLY" /\ status' = Resolve(status, e, a).to
             /\ recorded' = recorded \cup {key}
    <2>1. PICK t \in Transitions : t.from = status /\ t.event = e /\ t.to = status'
      BY <1>4, ResolveApplies
    <2>2. /\ status \notin CapturedStates /\ status' \notin CapturedStates
          /\ status' \in Announced =>
                status \in Announced \/ e \in {"PAYMENT_ORDER_CREATED", "PAYMENT_RETRY_REQUESTED"}
      BY <2>1, PaymentEdges, RequoteEdges DEF CapturedStates, Announced
    <2>3. \A id \in CaptureIds : id \in EventIds
      BY DEF CaptureIds, EventIds
    <2>4. QED
      BY <1>4, <2>2, <2>3 DEF Unbooked, Booked, CapturedStates
  <1>5. QED
    BY <1>2, <1>3, <1>4

LEMMA OrderBooksNothing ==
    ASSUME PaymentInv, PaymentInv', NEW c \in Calls, OrderStep(c)
    PROVE  Unbooked
  <1>1. attempts \in Seq(Attempts) /\ calls \in [Calls -> CallRecords]
    BY CallOf
  <1>2. CASE Finalize(c)
    <2>1. calls[c].n \in DOMAIN attempts /\ calls[c].n \in 0 .. MaxRows
      BY <1>2, CallOf, RowOf DEF Finalize, CallFits, ClaimedStages, At
    <2>2. /\ DOMAIN attempts' = DOMAIN attempts
          /\ attempts'[calls[c].n].order /\ attempts'[calls[c].n].status = "CREATED"
          /\ \A m \in DOMAIN attempts : m # calls[c].n => attempts'[m] = attempts[m]
      BY <1>1, <1>2, <2>1, RowOf DEF Finalize, Attempts
    <2>3. OrderKey(c) \in Keys /\ OrderKey(c) \notin EventIds
      BY <2>1 DEF OrderKey, Keys, EventIds
    <2>4. OrderEvent(c) \in {"PAYMENT_ORDER_CREATED", "PAYMENT_RETRY_REQUESTED"}
      BY DEF OrderEvent
    <2>5. calls[c].n \in Ordered' /\ OrderKey(c) = <<"payment_order", calls[c].n>>
      BY <2>1, <2>2 DEF Ordered, OrderKey
    <2>6. QED
      BY <1>2, <2>2, <2>3, <2>4, <2>5, EventsBookNothing DEF Finalize
  <1>3. CASE RecordDefiniteFailure(c) \/ ParkForReconciliation(c)
    <2>1. calls[c].n \in DOMAIN attempts
      BY <1>3, CallOf DEF RecordDefiniteFailure, ParkForReconciliation, CallFits, ClaimedStages, At
    <2>2. /\ DOMAIN attempts' = DOMAIN attempts
          /\ attempts'[calls[c].n].status \in {"FAILED", "RECONCILIATION_REQUIRED"}
          /\ \A m \in DOMAIN attempts : m # calls[c].n => attempts'[m] = attempts[m]
      BY <1>1, <1>3, <2>1, RowOf DEF RecordDefiniteFailure, ParkForReconciliation, Set, Attempts
    <2>3. UNCHANGED <<txn, hold, ledger>>
      BY <1>3 DEF RecordDefiniteFailure, ParkForReconciliation
    <2>4. QED
      BY <2>2, <2>3, ReadsBookNothing
  <1>4. CASE ClaimAttempt(c)
    <2>1. \A n \in DOMAIN attempts' : \/ n \in DOMAIN attempts /\ attempts'[n] = attempts[n]
                                  \/ attempts'[n].status = "CREATED"
      BY <1>1, <1>4 DEF ClaimAttempt
    <2>2. QED
      BY <1>4, <2>1, ReadsBookNothing DEF ClaimAttempt
  <1>5. CASE \/ RequestOrder(c) \/ RetryOrder(c) \/ JoinAttempt(c)
             \/ LookupReceipt(c) \/ CreateOrder(c) \/ CreateRefused(c) \/ CreateUnanswered(c)
             \/ ResolveByLookup(c) \/ FinalizeRolledBack(c)
    <2>1. UNCHANGED <<txn, hold, ledger, attempts>>
      BY <1>5 DEF RequestOrder, RetryOrder, JoinAttempt, LookupReceipt, CreateOrder,
                  CreateRefused, CreateUnanswered, ResolveByLookup, FinalizeRolledBack
    <2>2. QED
      BY <2>1, ReadsBookNothing
  <1>6. QED
    BY <1>2, <1>3, <1>4, <1>5 DEF OrderStep

LEMMA CheckoutBooksNothing ==
    ASSUME PaymentInv, NEW c \in Calls, CheckoutStep(c)
    PROVE  Unbooked
  <1>1. attempts \in Seq(Attempts) /\ calls[c] \in CallRecords
    BY CallOf
  <1>2. calls[c].n \in 0 .. MaxRows
    BY <1>1 DEF CallRecords
  <1>3. CASE CommitCheckout(c)
    <2>1. CheckoutKey(c) \in Keys /\ CheckoutKey(c) \notin EventIds
      BY <1>2 DEF CheckoutKey, Keys, EventIds
    <2>2. QED
      BY <1>3, <2>1, EventsBookNothing DEF CommitCheckout
  <1>4. CASE CommitCallback(c)
    <2>1. calls[c].n \in DOMAIN attempts
      BY <1>4, CallOf DEF CommitCallback, CallFits, PaidStages, At
    <2>2. /\ DOMAIN attempts' = DOMAIN attempts
          /\ attempts'[calls[c].n].status = "VERIFIED"
          /\ \A m \in DOMAIN attempts : m # calls[c].n => attempts'[m] = attempts[m]
      BY <1>1, <1>4, <2>1, RowOf DEF CommitCallback, Attempts
    <2>3. /\ <<"payment_verified", calls[c].n>> \in Keys
          /\ <<"payment_verified", calls[c].n>> \notin EventIds
      BY <1>2 DEF Keys, EventIds
    <2>4. QED
      BY <1>4, <2>2, <2>3, EventsBookNothing DEF CommitCallback
  <1>5. CASE StartCheckout(c) \/ \E p \in Payments : ReceiveCallback(c, p)
    <2>1. UNCHANGED <<txn, hold, ledger, attempts>>
      BY <1>5 DEF StartCheckout, ReceiveCallback
    <2>2. QED
      BY <2>1, ReadsBookNothing
  <1>6. QED
    BY <1>3, <1>4, <1>5 DEF CheckoutStep

LEMMA ReportsBookNothing ==
    ASSUME PaymentInv, NEW c \in Calls, WebhookStep(c), ~CommitReconciliation(c)
    PROVE  Unbooked
  <1>1. UNCHANGED <<txn, hold, attempts>>
    BY DEF WebhookStep, ReceiveWebhook, RollBackReconciliation, AskProvider,
           NothingToReconcile, ReceiveAnswer, Correlate
  <1>2. ledger \subseteq ledger' /\ \A e \in ledger' : e[2] = "MULTIPLE_CAPTURE" => e \in ledger
    <2>1. CASE ledger' = ledger
      BY <2>1
    <2>2. ASSUME NEW kind, NEW p, Correlate(c, kind, p)
          PROVE  ledger \subseteq ledger' /\ \A e \in ledger' : e[2] = "MULTIPLE_CAPTURE" => e \in ledger
      BY <2>2 DEF Correlate
    <2>3. QED
      BY <2>1, <2>2 DEF WebhookStep, ReceiveWebhook, RollBackReconciliation, AskProvider,
                        NothingToReconcile, ReceiveAnswer
  <1>3. QED
    BY <1>1, <1>2 DEF Unbooked, Booked, txn

\* A move made outside the payment itself: none of its ends is paid for.
LEMMA MovesBookNothing ==
    ASSUME PaymentInv, status \notin CapturedStates, status' \notin CapturedStates \cup Announced,
           recorded \subseteq recorded',
           \A id \in CaptureIds : id \in recorded' => id \in recorded,
           UNCHANGED <<attempts, ledger, payments>>,
           hold'.status = "COMMITTED" => hold.status = "COMMITTED"
    PROVE  Unbooked
  BY DEF Unbooked, Booked, CapturedStates

\* The stock of a sale that is not booked is let go, swept, or priced anew.
LEMMA HoldsBookNothing ==
    ASSUME PaymentInv, MoneyInv, UNCHANGED <<txn, attempts, ledger, payments>>,
           hold.status # "ACTIVE" => hold' = hold,
           hold'.status # "COMMITTED" \/ hold' = hold
    PROVE  Unbooked
  BY DEF MoneyInv, HoldFollowsSale, Unbooked, Booked, txn

LEMMA RetryBooksNothing ==
    ASSUME PaymentInv, MoneyInv, NEW c \in Calls, RetryStep(c)
    PROVE  Unbooked
  <1>1. calls[c] \in CallRecords /\ calls[c].n \in 0 .. MaxRows
    BY CallOf DEF CallRecords
  <1>2. CASE RequestRetry(c) \/ QuoteNotIssued(c) \/ QuoteNotUsable(c)
    <2>1. UNCHANGED <<txn, hold, ledger, attempts>>
      BY <1>2 DEF RequestRetry, QuoteNotIssued, QuoteNotUsable
    <2>2. QED
      BY <2>1, ReadsBookNothing
  <1>3. CASE ReleaseHeldStock(c)
    <2>1. hold'.status # "COMMITTED" \/ hold' = hold
      BY <1>3 DEF ReleaseHeldStock, PaymentInv, PaymentTypeOK
    <2>2. QED
      BY <1>3, <2>1, HoldsBookNothing DEF ReleaseHeldStock, provider
  <1>4. CASE RebindHold(c)
    <2>1. (hold.status # "ACTIVE" => hold' = hold) /\ (hold'.status # "COMMITTED" \/ hold' = hold)
      BY <1>4 DEF RebindHold, PaymentInv, PaymentTypeOK, HoldIsLive
    <2>2. QED
      BY <1>4, <2>1, HoldsBookNothing DEF RebindHold, provider
  <1>5. CASE IssueQuote(c)
    <2>1. CycleKey(c) \in Keys /\ CycleKey(c) \notin EventIds
      BY <1>1 DEF CycleKey, Keys, EventIds
    <2>2. QED
      BY <1>5, <2>1, EventsBookNothing DEF IssueQuote
  <1>6. CASE EvaluatePolicy(c)
    <2> DEFINE key == <<"policy", calls[c].n>>
    <2>1. Resolve(status, "POLICY_EVALUATION_COMPLETED", "policy_engine").kind = "APPLY"
      BY <1>6 DEF EvaluatePolicy, Applies, Adjudicate
    <2>2. status = "QUOTE_CREATED"
      BY <2>1, ResolveApplies, RequoteEdges
    <2>3. PICK e \in {"POLICY_ALLOWED", "POLICY_REQUIRES_APPROVAL", "POLICY_BLOCKED"} :
              status' = Resolve("POLICY_EVALUATED", e, "policy_engine").to
      BY <1>6 DEF EvaluatePolicy
    <2>4. status' \in {"POLICY_EVALUATED", "AUTHORIZED", "APPROVAL_REQUIRED", "BLOCKED"}
      BY <2>3, ResolveMoves, RequoteEdges
    <2>5. recorded' = recorded \cup {key} /\ key \notin CaptureIds
      BY <1>6 DEF EvaluatePolicy, CaptureIds
    <2>6. UNCHANGED <<attempts, ledger, payments, hold>>
      BY <1>6 DEF EvaluatePolicy, provider
    <2>7. QED
      BY <2>2, <2>4, <2>5, <2>6, MovesBookNothing DEF CapturedStates, Announced
  <1>7. QED
    BY <1>2, <1>3, <1>4, <1>5, <1>6 DEF RetryStep

LEMMA OthersBookNothing ==
    ASSUME PaymentInv, MoneyInv,
           \/ \E c \in Calls : Crash(c)
           \/ BuyerStep \/ DecideApproval \/ ReserveInventory \/ WorldStep \/ UNCHANGED vars
    PROVE  Unbooked
  <1>1. CASE \/ \E c \in Calls : Crash(c)
             \/ BuyerStep \/ QuoteGoesStale \/ PolicyRevised \/ UNCHANGED vars
             \/ \E n \in AttemptNumbers : ProviderProcessesLatePost(n)
    <2>1. UNCHANGED <<txn, hold, ledger, attempts>>
      BY <1>1 DEF Crash, BuyerStep, PaymentFails, PaymentAuthorized, PaymentCaptured,
                  QuoteGoesStale, PolicyRevised, ProviderProcessesLatePost, vars, txn
    <2>2. QED
      BY <2>1, ReadsBookNothing
  <1>2. CASE HoldLapses \/ SweepHold
    <2>1. hold.status = "ACTIVE" /\ hold'.status \in {"ACTIVE", "EXPIRED"}
      BY <1>2 DEF HoldLapses, SweepHold, PaymentInv, PaymentTypeOK
    <2>2. QED
      BY <1>2, <2>1, HoldsBookNothing DEF HoldLapses, SweepHold, provider
  <1>3. CASE DecideApproval
    <2>1. status = "APPROVAL_REQUIRED" /\ status' \in {"APPROVAL_REQUIRED", "AUTHORIZED", "CANCELLED"}
      BY <1>3, ResolveMoves, RequoteEdges DEF DecideApproval
    <2>2. UNCHANGED <<recorded, attempts, ledger, payments, hold>>
      BY <1>3 DEF DecideApproval, provider
    <2>3. QED
      BY <2>1, <2>2, MovesBookNothing DEF CapturedStates, Announced
  <1>4. CASE ReserveInventory
    <2>1. status = "AUTHORIZED" /\ status' \in {"AUTHORIZED", "INVENTORY_RESERVED"}
      BY <1>4, ResolveMoves, RequoteEdges DEF ReserveInventory
    <2>2. UNCHANGED <<recorded, attempts, ledger, payments>> /\ hold'.status = "ACTIVE"
      BY <1>4 DEF ReserveInventory, provider
    <2>3. QED
      BY <2>1, <2>2, MovesBookNothing DEF CapturedStates, Announced
  <1>5. QED
    BY <1>1, <1>2, <1>3, <1>4 DEF WorldStep

\* Reconciling a report is the one step that may book the sale.
LEMMA OnlyReportsBook ==
    ASSUME PaymentInv, PaymentInv', MoneyInv, [Next]_vars
    PROVE  Unbooked \/ \E c \in Calls : CommitReconciliation(c)
  BY OrderBooksNothing, CheckoutBooksNothing, ReportsBookNothing, RetryBooksNothing,
     OthersBookNothing DEF Next

-----------------------------------------------------------------------------
(* The step that books the sale. *)

\* What a reconciliation writes, for a report that moves the purchase and for
\* one that does not.
LEMMA Reconciled ==
    ASSUME PaymentInv, MoneyInv, NEW c \in Calls, CommitReconciliation(c)
    PROVE  LET n == calls[c].n
               id == DeliveryId(c)
               capture == calls[c].kind # "failed"
           IN  /\ n \in DOMAIN attempts /\ DOMAIN attempts' = DOMAIN attempts
               /\ n \in Ordered /\ payments[calls[c].pay].order = n
               /\ \A m \in DOMAIN attempts : m # n => attempts'[m] = attempts[m]
               /\ id \in EventIds /\ id[2] = calls[c].pay
               /\ capture => id \in CaptureIds /\ PaidWith(id[2])
               /\ ~capture => id \notin CaptureIds
               /\ \/ /\ status' = status /\ recorded' = recorded /\ hold' = hold
                     /\ attempts'[n].status \in {attempts[n].status}
                           \cup (IF DoubleCapture(c) THEN {"CAPTURED"} ELSE {})
                  \/ /\ ~capture /\ ~Booked /\ status' = "PAYMENT_FAILED" /\ hold' = hold
                     /\ recorded' = recorded \cup {id} /\ attempts'[n].status = "FAILED"
                  \/ /\ capture /\ ~Booked /\ status' \in CapturedStates
                     /\ recorded' = recorded \cup {id} /\ attempts'[n].status = "CAPTURED"
                     /\ status' = "COMPLETED" <=> hold.status = "ACTIVE"
                     /\ hold.status = "ACTIVE" => hold' = [hold EXCEPT !.status = "COMMITTED"]
                     /\ hold.status # "ACTIVE" => hold' = hold
  <1> DEFINE n == calls[c].n
             id == DeliveryId(c)
             capture == calls[c].kind # "failed"
  <1>1. /\ n \in Ordered /\ n \in DOMAIN attempts /\ calls[c].pay \in Payments
        /\ payments[calls[c].pay].order = n
        /\ calls[c].kind \in {"failed", "captured", "status"}
        /\ capture => payments[calls[c].pay].state = "captured"
    BY CallOf DEF CommitReconciliation, CallFits, PaidStages, At
  <1>2. attempts \in Seq(Attempts) /\ attempts[n] \in Attempts
    BY <1>1, CallOf, RowOf
  <1>3. /\ id \in EventIds /\ id[2] = calls[c].pay
        /\ capture => id \in CaptureIds /\ PaidWith(id[2])
        /\ ~capture => id \notin CaptureIds
    BY <1>1 DEF DeliveryId, EventIds, CaptureIds, PaidWith
  <1>4. /\ attempts' = [attempts EXCEPT ![n] = SettledAttempt(c)]
        /\ DOMAIN attempts' = DOMAIN attempts /\ attempts'[n] = SettledAttempt(c)
        /\ \A m \in DOMAIN attempts : m # n => attempts'[m] = attempts[m]
    BY <1>1, <1>2 DEF CommitReconciliation
  <1>5. attempts'[n].status =
            IF Decision(c).kind = "APPLY" \/ DoubleCapture(c)
              THEN IF capture THEN "CAPTURED" ELSE "FAILED"
              ELSE attempts[n].status
    <2>1. Applies(Event(c), Actor(c), DeliveryId(c)) <=> Decision(c).kind = "APPLY"
      BY DEF Applies, Decision
    <2>2. PICK s : /\ SettledAttempt(c) = [attempts[n] EXCEPT !.payment = calls[c].pay, !.status = s]
                   /\ s = IF Decision(c).kind = "APPLY" \/ DoubleCapture(c)
                            THEN IF capture THEN "CAPTURED" ELSE "FAILED"
                            ELSE attempts[n].status
      BY <2>1 DEF SettledAttempt
    <2>3. SettledAttempt(c).status = s
      BY <1>2, <2>2 DEF Attempts
    <2>4. QED
      BY <1>4, <2>2, <2>3
  <1>6. DoubleCapture(c) => capture
    BY DEF DoubleCapture
  <1>7. CASE Decision(c).kind # "APPLY"
    <2>1. Decision(c).to = status
      BY <1>7 DEF Decision, Adjudicate, Resolve
    <2>2. status' = status /\ recorded' = recorded /\ hold' = hold
      BY <1>7, <2>1 DEF CommitReconciliation, Settle, Completes
    <2>3. attempts'[n].status \in {attempts[n].status}
              \cup (IF DoubleCapture(c) THEN {"CAPTURED"} ELSE {})
      BY <1>5, <1>6, <1>7
    <2>4. QED
      BY <1>1, <1>3, <1>4, <2>2, <2>3
  <1>8. CASE Decision(c).kind = "APPLY"
    <2>1. /\ Resolve(status, Event(c), Actor(c)).kind = "APPLY"
          /\ Decision(c).to = Resolve(status, Event(c), Actor(c)).to
      BY <1>8 DEF Decision, Adjudicate
    <2>2. PICK t \in Transitions : t.from = status /\ t.event = Event(c) /\ t.to = Decision(c).to
      BY <2>1, ResolveApplies
    <2>3. /\ ~Booked
          /\ ~capture => t.to = "PAYMENT_FAILED"
          /\ capture => t.to = "PAYMENT_CAPTURED"
      BY <2>2, PaymentEdges DEF Event, Booked, CapturedStates, Announced
    <2>4. recorded' = recorded \cup {id}
      BY <1>8 DEF CommitReconciliation, Settle
    <2>5. CASE ~capture
      <3>1. status' = "PAYMENT_FAILED" /\ hold' = hold
        BY <2>2, <2>3, <2>5 DEF CommitReconciliation, Settle, Completes
      <3>2. QED
        BY <1>1, <1>3, <1>4, <1>5, <1>8, <2>3, <2>4, <2>5, <3>1
    <2>6. CASE capture
      <3>1. /\ status' = IF hold.status = "ACTIVE" THEN "COMPLETED" ELSE "PAYMENT_CAPTURED"
            /\ hold.status = "ACTIVE" => hold' = [hold EXCEPT !.status = "COMMITTED"]
            /\ hold.status # "ACTIVE" => hold' = hold
        BY <1>8, <2>2, <2>3, <2>6, CaptureCompletes DEF CommitReconciliation, Settle, Completes
      <3>2. QED
        BY <1>1, <1>3, <1>4, <1>5, <1>8, <2>3, <2>4, <2>6, <3>1 DEF CapturedStates
    <2>7. QED
      BY <2>5, <2>6
  <1>9. QED
    BY <1>7, <1>8

LEMMA ReportKeeps ==
    ASSUME PaymentInv, MoneyInv, Grows, NEW c \in Calls, CommitReconciliation(c)
    PROVE  MoneyInv'
  <1> DEFINE n == calls[c].n
             id == DeliveryId(c)
             capture == calls[c].kind # "failed"
  <1>1. /\ n \in DOMAIN attempts /\ DOMAIN attempts' = DOMAIN attempts
        /\ n \in Ordered /\ payments[calls[c].pay].order = n
        /\ \A m \in DOMAIN attempts : m # n => attempts'[m] = attempts[m]
        /\ id \in EventIds /\ id[2] = calls[c].pay
        /\ capture => id \in CaptureIds /\ PaidWith(id[2])
        /\ ~capture => id \notin CaptureIds
    BY Reconciled
  <1>2. \/ /\ status' = status /\ recorded' = recorded /\ hold' = hold
           /\ attempts'[n].status \in {attempts[n].status}
                 \cup (IF DoubleCapture(c) THEN {"CAPTURED"} ELSE {})
        \/ /\ ~capture /\ ~Booked /\ status' = "PAYMENT_FAILED" /\ hold' = hold
           /\ recorded' = recorded \cup {id} /\ attempts'[n].status = "FAILED"
        \/ /\ capture /\ ~Booked /\ status' \in CapturedStates
           /\ recorded' = recorded \cup {id} /\ attempts'[n].status = "CAPTURED"
           /\ status' = "COMPLETED" <=> hold.status = "ACTIVE"
           /\ hold.status = "ACTIVE" => hold' = [hold EXCEPT !.status = "COMMITTED"]
           /\ hold.status # "ACTIVE" => hold' = hold
    BY Reconciled
  <1>3. DoubleCapture(c) => capture /\ Booked
    BY DEF DoubleCapture, MoneyInv, CapturedAttemptMeansPaid, SomeAttempt, Booked
  <1>4. Booked => status' \in CapturedStates
    BY <1>2 DEF Booked
  <1>5. /\ ledger \subseteq ledger'
        /\ \A e \in ledger' : e[2] = "MULTIPLE_CAPTURE" =>
              e \in ledger \/ (e[1] = id /\ DoubleCapture(c))
    BY DEF CommitReconciliation
  <1>6. Ordered \subseteq Ordered' /\ n \in Ordered' /\ provider' = provider
    BY <1>1 DEF Grows, Ordered, CommitReconciliation
  <1> HIDE DEF n, id, capture
  <1>7. AnnouncedOrderIsStored'
    BY <1>2, <1>6 DEF MoneyInv, AnnouncedOrderIsStored, CapturedStates
  <1>8. CapturedAttemptMeansPaid'
    <2>1. ASSUME NEW m \in DOMAIN attempts', attempts'[m].status = "CAPTURED"
          PROVE  status' \in CapturedStates
      <3>1. CASE m # n
        <4>1. attempts[m].status = "CAPTURED" /\ m \in DOMAIN attempts
          BY <1>1, <2>1, <3>1
        <4>2. QED
          BY <1>4, <4>1 DEF MoneyInv, CapturedAttemptMeansPaid, SomeAttempt, Booked
      <3>2. CASE m = n
        <4>1. attempts[n].status = "CAPTURED" => Booked
          BY <1>1 DEF MoneyInv, CapturedAttemptMeansPaid, SomeAttempt, Booked
        <4>2. QED
          BY <1>2, <1>3, <1>4, <2>1, <3>2, <4>1
      <3>3. QED
        BY <3>1, <3>2
    <2>2. QED
      BY <2>1 DEF CapturedAttemptMeansPaid, SomeAttempt
  <1>9. CapturesAreMoney'
    <2>1. ASSUME NEW other \in CaptureIds,
                 other \in recorded' \/ <<other, "MULTIPLE_CAPTURE">> \in ledger'
          PROVE  /\ payments'[other[2]].state = "captured" /\ payments'[other[2]].order \in Ordered'
                 /\ status' \in CapturedStates
      <3>1. CASE other \in recorded \/ <<other, "MULTIPLE_CAPTURE">> \in ledger
        BY <1>4, <1>6, <3>1 DEF MoneyInv, CapturesAreMoney, PaidWith, provider
      <3>2. CASE /\ other \notin recorded /\ <<other, "MULTIPLE_CAPTURE">> \notin ledger
        <4>1. other = id /\ status' \in CapturedStates
          BY <1>1, <1>2, <1>3, <1>4, <1>5, <2>1, <3>2
        <4>2. QED
          BY <1>1, <1>6, <4>1 DEF PaidWith, provider
      <3>3. QED
        BY <3>1, <3>2
    <2>2. QED
      BY <2>1 DEF CapturesAreMoney, PaidWith, Booked, CaptureIds
  <1>10. MultiplesAreCaptures'
    BY <1>1, <1>3, <1>5 DEF MoneyInv, MultiplesAreCaptures, CaptureIds
  <1>11. BookedIsRecorded'
    BY <1>1, <1>2 DEF MoneyInv, BookedIsRecorded, Booked, CapturedStates, CaptureIds
  <1>12. HoldFollowsSale'
    <2>1. hold.status = "ACTIVE" => [hold EXCEPT !.status = "COMMITTED"].status = "COMMITTED"
      BY DEF PaymentInv, PaymentTypeOK
    <2>2. QED
      BY <1>2, <2>1 DEF MoneyInv, HoldFollowsSale, Booked, CapturedStates
  <1>13. QED
    BY <1>7, <1>8, <1>9, <1>10, <1>11, <1>12 DEF MoneyInv

-----------------------------------------------------------------------------
(* The theorems of this invariant. *)

LEMMA MoneyInitially == Init => MoneyInv
  <1> SUFFICES ASSUME Init PROVE MoneyInv
    OBVIOUS
  <1>1. attempts = <<>> /\ recorded = {} /\ ledger = {} /\ hold.status = "ACTIVE"
        /\ status = "INVENTORY_RESERVED"
    BY DEF Init
  <1>2. QED
    BY <1>1 DEF MoneyInv, AnnouncedOrderIsStored, CapturedAttemptMeansPaid, SomeAttempt,
                CapturesAreMoney, MultiplesAreCaptures, BookedIsRecorded, HoldFollowsSale,
                Booked, CapturedStates

LEMMA MoneyKept == PaymentInv /\ MoneyInv /\ [Next]_vars => MoneyInv'
  BY PaymentKept, OnlyReportsBook, UnbookedKeeps, ReportKeeps

LEMMA MoneyInvariant == Spec => [](PaymentInv /\ MoneyInv)
  <1>1. Init => PaymentInv /\ MoneyInv
    BY PaymentInitially, MoneyInitially
  <1>2. PaymentInv /\ MoneyInv /\ [Next]_vars => (PaymentInv /\ MoneyInv)'
    BY PaymentKept, MoneyKept
  <1>3. QED
    BY <1>1, <1>2, PTL DEF Spec

\* A purchase shown as payable has its order id on record, stored by the commit
\* that announced it, whatever crashed or was parked in between (finalize).
THEOREM AnnouncedOrdersAreStored == Spec => []AnnouncedOrderIsStored
  BY MoneyInvariant, PTL DEF MoneyInv

\* No attempt says CAPTURED while the purchase says otherwise, although captures
\* arrive late, for replaced orders and for purchases that moved on.
THEOREM CapturesBookTheSale == Spec => []CapturedAttemptMeansPaid
  BY MoneyInvariant, PTL DEF MoneyInv

\* What the page has on record as a capture is exactly a booked sale.
LEMMA HasCaptureIsBooked == PaymentInv /\ MoneyInv => (HasCapture <=> Booked)
  <1> SUFFICES ASSUME PaymentInv, MoneyInv PROVE HasCapture <=> Booked
    OBVIOUS
  <1>1. ASSUME NEW e \in ledger, e[2] = "MULTIPLE_CAPTURE" PROVE Booked
    <2>1. e = <<e[1], "MULTIPLE_CAPTURE">> /\ e[1] \in CaptureIds
      BY <1>1 DEF PaymentInv, PaymentTypeOK, MoneyInv, MultiplesAreCaptures
    <2>2. QED
      BY <2>1 DEF MoneyInv, CapturesAreMoney
  <1>2. ASSUME NEW p \in Payments, NEW kind \in {"captured", "status"}, <<kind, p>> \in recorded
        PROVE  Booked
    <2>1. <<kind, p>> \in CaptureIds
      BY DEF CaptureIds
    <2>2. QED
      BY <1>2, <2>1 DEF MoneyInv, CapturesAreMoney
  <1>3. ASSUME Booked
        PROVE  \E p \in Payments : \E kind \in {"captured", "status"} : <<kind, p>> \in recorded
    <2>1. PICK id \in CaptureIds : id \in recorded
      BY <1>3 DEF MoneyInv, BookedIsRecorded
    <2>2. id[2] \in Payments /\ id[1] \in {"captured", "status"} /\ id = <<id[1], id[2]>>
      BY DEF CaptureIds
    <2>3. QED
      BY <2>1, <2>2
  <1>4. SomeAttempt({"CAPTURED"}) => Booked
    BY DEF MoneyInv, CapturedAttemptMeansPaid, Booked
  <1>5. QED
    BY <1>1, <1>2, <1>3, <1>4 DEF HasCapture, PaymentCapturedRecorded, MultipleCaptureDetected

\* The first case that holds decides.
LEMMA FirstCase ==
    ASSUME NEW cases, NEW k \in Nat, DOMAIN cases = 1 .. k, NEW j \in 1 .. k, cases[j][1]
    PROVE  \E i \in 1 .. k :
              /\ cases[i][1] /\ i <= j /\ \A h \in 1 .. k : h < i => ~cases[h][1]
              /\ FirstOf(cases) = cases[i][2]
  <1> DEFINE T == {i \in 1 .. k : cases[i][1]}
             First(i) == cases[i][1] /\ \A h \in DOMAIN cases : h < i => ~cases[h][1]
  <1>1. T \in SUBSET Nat /\ T # {}
    OBVIOUS
  <1>2. PICK i \in T : \A h \in T : i <= h
    BY <1>1, LeastNatural
  <1>3. i \in DOMAIN cases /\ First(i)
    BY <1>2
  <1>4. \A h \in DOMAIN cases : First(h) => h = i
    BY <1>3
  <1>5. FirstOf(cases) = cases[i][2]
    <2>1. (CHOOSE h \in DOMAIN cases : First(h)) = i
      BY <1>3, <1>4
    <2>2. QED
      BY <2>1 DEF FirstOf
  <1>6. QED
    BY <1>2, <1>3, <1>5

LEMMA CaptureLineIs ==
    ASSUME NEW s PROVE CaptureLine(s) = "CAPTURED" <=> HasCapture
  <1> DEFINE cases == << <<HasCapture,                                    "CAPTURED">>,
                         <<s = "PAYMENT_VERIFIED",                        "PENDING">>,
                         <<s = "PAYMENT_FAILED" \/ PaymentFailedRecorded, "FAILED">>,
                         <<TRUE,                                          Outstanding(s)>> >>
  <1>1. DOMAIN cases = 1 .. 4 /\ cases[4][1] /\ 4 \in Nat /\ 4 \in 1 .. 4
    OBVIOUS
  <1>2. CaptureLine(s) = FirstOf(cases)
    BY DEF CaptureLine
  <1>3. /\ cases[1][1] <=> HasCapture
        /\ cases[1][2] = "CAPTURED" /\ cases[2][2] = "PENDING"
        /\ cases[3][2] = "FAILED" /\ cases[4][2] = Outstanding(s)
    OBVIOUS
  <1>4. Outstanding(s) # "CAPTURED"
    BY DEF Outstanding
  <1> HIDE DEF cases
  <1>5. PICK i \in 1 .. 4 :
            /\ cases[i][1] /\ \A h \in 1 .. 4 : h < i => ~cases[h][1]
            /\ FirstOf(cases) = cases[i][2]
    BY <1>1, FirstCase
  <1>6. QED
    BY <1>2, <1>3, <1>4, <1>5

\* Every state has a step of the journey.
LEMMA StepIndexIn ==
    ASSUME NEW s \in TransactionStates
    PROVE  StepIndex(s) \in 1 .. 8 /\ Len(JourneySteps) = 8
  <1>1. DOMAIN JourneySteps = 1 .. 8 /\ Len(JourneySteps) = 8
    BY DEF JourneySteps
  <1>2. \E i \in 1 .. 8 : s \in StatesOf[JourneySteps[i]]
    <2>1. /\ JourneySteps[1] = "INTENT" /\ JourneySteps[2] = "PRODUCT" /\ JourneySteps[3] = "QUOTE"
          /\ JourneySteps[4] = "POLICY" /\ JourneySteps[5] = "APPROVAL"
          /\ JourneySteps[6] = "RESERVATION" /\ JourneySteps[7] = "PAYMENT"
          /\ JourneySteps[8] = "CAPTURE"
      BY DEF JourneySteps
    <2>2. \E name \in {"INTENT", "PRODUCT", "QUOTE", "POLICY", "APPROVAL", "RESERVATION",
                       "PAYMENT", "CAPTURE"} : s \in StatesOf[name]
      BY DEF TransactionStates, TerminalStates, StatesOf
    <2>3. QED
      BY <2>1, <2>2
  <1>3. QED
    BY <1>1, <1>2 DEF StepIndex

\* The last step of the journey is done only in a booked purchase.
LEMMA LastStepDone ==
    ASSUME NEW s \in TransactionStates, StepStatus(s, Len(JourneySteps)) = "DONE"
    PROVE  s \in CapturedStates
  <1> DEFINE cases == << <<s = "COMPLETED" \/ 8 < StepIndex(s), "DONE">>,
                         <<8 > StepIndex(s),                    "UPCOMING">>,
                         <<s \in Halted,                        "STOPPED">>,
                         <<s = "PAYMENT_CAPTURED",              "DONE">>,
                         <<TRUE,                                "CURRENT">> >>
  <1>1. DOMAIN cases = 1 .. 5 /\ cases[5][1] /\ 5 \in Nat /\ 5 \in 1 .. 5
    OBVIOUS
  <1>2. FirstOf(cases) = "DONE"
    BY StepIndexIn DEF StepStatus
  <1>3. /\ cases[1][1] => s = "COMPLETED" \/ 8 < StepIndex(s)
        /\ cases[4][1] => s = "PAYMENT_CAPTURED"
        /\ cases[2][2] = "UPCOMING" /\ cases[3][2] = "STOPPED" /\ cases[5][2] = "CURRENT"
    OBVIOUS
  <1>4. ~(8 < StepIndex(s))
    BY StepIndexIn
  <1> HIDE DEF cases
  <1>5. PICK i \in 1 .. 5 : cases[i][1] /\ FirstOf(cases) = cases[i][2]
    BY <1>1, FirstCase
  <1>6. QED
    BY <1>2, <1>3, <1>4, <1>5 DEF CapturedStates

\* Wherever the page says that the money arrived, the provider has it, paid on
\* an order of this purchase.
THEOREM ShownMoneyIsTaken == Spec => []ShownMoneyIsMoney
  <1>1. PaymentInv /\ MoneyInv => ShownMoneyIsMoney
    <2> SUFFICES ASSUME PaymentInv, MoneyInv,
                        \/ CaptureLine(status) = "CAPTURED"
                        \/ StepStatus(status, Len(JourneySteps)) = "DONE"
                 PROVE  \E p \in Payments : PaidWith(p) /\ payments[p].order \in Ordered
      BY DEF ShownMoneyIsMoney
    <2>1. Booked
      BY CaptureLineIs, HasCaptureIsBooked, LastStepDone DEF Booked, PaymentInv, PaymentTypeOK
    <2>2. PICK id \in CaptureIds : id \in recorded
      BY <2>1 DEF MoneyInv, BookedIsRecorded
    <2>3. PaidWith(id[2]) /\ payments[id[2]].order \in Ordered /\ id[2] \in Payments
      BY <2>2 DEF MoneyInv, CapturesAreMoney, CaptureIds
    <2>4. QED
      BY <2>3
  <1>2. QED
    BY <1>1, MoneyInvariant, PTL

\* A booked sale stays booked.
LEMMA BookedStays ==
    ASSUME PaymentInv, PaymentInv', MoneyInv, [Next]_vars, Booked
    PROVE  status' \in CapturedStates
  <1>1. CASE Unbooked
    BY <1>1 DEF Unbooked
  <1>2. ASSUME NEW c \in Calls, CommitReconciliation(c) PROVE status' \in CapturedStates
    BY <1>2, Reconciled DEF Booked
  <1>3. QED
    BY <1>1, <1>2, OnlyReportsBook

LEMMA ConfirmedIs == CaptureLine(status) = "CAPTURED" <=> HasCapture
  BY CaptureLineIs

\* A confirmation once shown is not taken back, although attempt rows are
\* rewritten by callbacks and failures that come late.
THEOREM ConfirmationStays == Spec => CapturedLineStays
  <1>1. PaymentInv /\ MoneyInv /\ PaymentInv' /\ MoneyInv' /\ [Next]_vars
        => [CaptureLine(status) = "CAPTURED" => CaptureLine(status)' = "CAPTURED"]_vars
    <2> SUFFICES ASSUME PaymentInv, MoneyInv, PaymentInv', MoneyInv', [Next]_vars,
                        CaptureLine(status) = "CAPTURED"
                 PROVE  CaptureLine(status)' = "CAPTURED"
      OBVIOUS
    <2>1. Booked
      BY CaptureLineIs, HasCaptureIsBooked
    <2>2. Booked'
      BY <2>1, BookedStays DEF Booked
    <2>3. HasCapture'
      <3>1. (PaymentInv /\ MoneyInv => (HasCapture <=> Booked))'
        BY HasCaptureIsBooked, PTL
      <3>2. QED
        BY <2>2, <3>1
    <2>4. (CaptureLine(status) = "CAPTURED" <=> HasCapture)'
      BY ConfirmedIs, PTL
    <2>5. QED
      BY <2>3, <2>4
  <1>2. QED
    BY <1>1, MoneyInvariant, PTL DEF Spec, CapturedLineStays

-----------------------------------------------------------------------------
(* The purchase implements the sale of Sale.tla. *)

\* A step that books nothing is a payment, stock let go or held again before
\* the sale, or no step of the sale.
LEMMA UnbookedIsSaleStep ==
    ASSUME PaymentInv, PaymentInv', MoneyInv, Grows, Unbooked
    PROVE  [Promise!Pay \/ Promise!Book \/ Promise!HoldAgain \/ Promise!LetGo]_(Promise!saleVars)
  <1> DEFINE paid == \E p \in Payments : PaidWith(p)
             booked == status \in CapturedStates
  <1>1. booked' = booked /\ (paid => paid')
    BY DEF Unbooked, Booked, Grows, PaidWith
  <1>2. Stock \in {"held", "sold", "free"} /\ Stock' \in {"held", "sold", "free"}
    BY DEF Stock
  <1>3. Stock = "sold" => Stock' = Stock
    BY DEF Stock, Unbooked, Booked, MoneyInv, HoldFollowsSale
  <1>4. Stock' = "sold" => Stock = "sold"
    BY DEF Stock, Unbooked
  <1>5. booked => Stock' = Stock
    BY DEF Stock, Unbooked, Booked
  <1>6. Stock' = Stock \/ paid' = paid
    BY DEF Stock, Unbooked, PaidWith
  <1>7. CASE Stock' = Stock
    BY <1>1, <1>7 DEF Promise!Pay, Promise!saleVars
  <1>8. CASE Stock' # Stock
    <2>1. ~booked /\ paid' = paid /\ booked' = booked
      BY <1>1, <1>5, <1>6, <1>8
    <2>2. \/ Stock = "free" /\ Stock' = "held"
          \/ Stock = "held" /\ Stock' = "free"
      BY <1>2, <1>3, <1>4, <1>8
    <2>3. QED
      BY <2>1, <2>2 DEF Promise!HoldAgain, Promise!LetGo
  <1>9. QED
    BY <1>7, <1>8

\* Reconciling a capture that moves the purchase books the sale.
LEMMA ReportIsSaleStep ==
    ASSUME PaymentInv, MoneyInv, NEW c \in Calls, CommitReconciliation(c)
    PROVE  [Promise!Pay \/ Promise!Book \/ Promise!HoldAgain \/ Promise!LetGo]_(Promise!saleVars)
  <1> DEFINE paid == \E p \in Payments : PaidWith(p)
             booked == status \in CapturedStates
             id == DeliveryId(c)
             capture == calls[c].kind # "failed"
  <1>1. /\ capture => id[2] \in Payments /\ PaidWith(id[2])
        /\ \/ status' = status /\ hold' = hold
           \/ ~Booked /\ status' = "PAYMENT_FAILED" /\ hold' = hold
           \/ /\ capture /\ ~Booked /\ status' \in CapturedStates
              /\ hold.status = "ACTIVE" => hold' = [hold EXCEPT !.status = "COMMITTED"]
              /\ hold.status # "ACTIVE" => hold' = hold
    BY Reconciled DEF CaptureIds
  <1>2. paid' = paid
    BY DEF CommitReconciliation, provider, PaidWith
  <1> HIDE DEF id, capture
  <1>3. CASE hold' = hold /\ (status' = status \/ (~Booked /\ status' = "PAYMENT_FAILED"))
    <2>1. booked' = booked /\ Stock' = Stock
      BY <1>3 DEF Booked, CapturedStates, Stock
    <2>2. QED
      BY <1>2, <2>1 DEF Promise!saleVars
  <1>4. CASE /\ capture /\ ~Booked /\ status' \in CapturedStates
             /\ hold.status = "ACTIVE" => hold' = [hold EXCEPT !.status = "COMMITTED"]
             /\ hold.status # "ACTIVE" => hold' = hold
    <2>1. paid /\ ~booked /\ booked' = TRUE
      BY <1>1, <1>4 DEF Booked
    <2>2. Stock' = IF Stock = "held" THEN "sold" ELSE Stock
      <3>1. hold.status = "ACTIVE" => hold'.status = "COMMITTED"
        BY <1>4 DEF PaymentInv, PaymentTypeOK
      <3>2. QED
        BY <1>4, <3>1 DEF Stock
    <2>3. QED
      BY <1>2, <2>1, <2>2 DEF Promise!Book
  <1>5. QED
    BY <1>1, <1>3, <1>4

\* However the calls, reports and crashes of a purchase interleave, it sells as
\* Sale.tla says: once, against captured money, the held stock with it.
THEOREM PurchaseImplementsSale == Spec => SaleKept
  <1>1. Init => Promise!SaleInit
    BY DEF Init, Promise!SaleInit, PaidWith, CapturedStates, Stock
  <1>2. PaymentInv /\ PaymentInv' /\ MoneyInv /\ [Next]_vars
        => [Promise!Pay \/ Promise!Book \/ Promise!HoldAgain \/ Promise!LetGo]_(Promise!saleVars)
    BY PaymentKept, OnlyReportsBook, UnbookedIsSaleStep, ReportIsSaleStep
  <1>3. QED
    BY <1>1, <1>2, MoneyInvariant, PTL DEF Spec, SaleKept, Promise!SaleSpec

-----------------------------------------------------------------------------
(* One load of the page, its reads spread over any number of steps. *)

\* The gate has nothing to offer once the sale is booked.
LEMMA GateClosed ==
    ASSUME Booked PROVE Eligibility = "PAYMENT_ALREADY_CAPTURED"
  <1>1. /\ GateChecks[1][1] <=> Booked
        /\ GateChecks[1][2] = "PAYMENT_ALREADY_CAPTURED"
        /\ DOMAIN GateChecks = 1 .. 11
    <2>1. GateChecks[1] = <<Booked, "PAYMENT_ALREADY_CAPTURED">>
      BY DEF GateChecks, Booked
    <2>2. DOMAIN GateChecks = 1 .. 11
      BY DEF GateChecks
    <2>3. QED
      BY <2>1, <2>2
  <1> DEFINE First(j) == GateChecks[j][1] /\ \A k \in DOMAIN GateChecks : k < j => ~GateChecks[k][1]
  <1>2. First(1) /\ \A j \in DOMAIN GateChecks : First(j) => j = 1
    BY <1>1
  <1>3. (CHOOSE j \in DOMAIN GateChecks : First(j)) = 1
    BY <1>1, <1>2
  <1>4. QED
    BY <1>1, <1>3 DEF Eligibility

\* No button for paying on stock that is not held, with the gate closed.
LEMMA NothingToPay ==
    ASSUME NEW s, ~HoldIsLive, ~RetryAvailable
    PROVE  Offer(s) \notin {"PAY", "RETRY"}
  <1> DEFINE cases ==
          << <<s = "APPROVAL_REQUIRED", "DECIDE">>,
             <<s = "AUTHORIZED" /\ HoldIsLive, "RETRY">>,
             <<s = "AUTHORIZED", "RESERVE">>,
             <<s \in {"INVENTORY_RESERVED", "PAYMENT_ORDER_CREATED"} /\ PaymentPreparable(s), "PAY">>,
             <<s = "PAYMENT_FAILED" /\ RetryAvailable, "RETRY">>,
             <<s = "COMPLETED", "REFUND">>,
             <<TRUE, "NONE">> >>
  <1>1. DOMAIN cases = 1 .. 7 /\ cases[7][1] /\ 7 \in Nat /\ 7 \in 1 .. 7
    OBVIOUS
  <1>2. Offer(s) = FirstOf(cases)
    BY DEF Offer
  <1>3. ~cases[2][1] /\ ~cases[4][1] /\ ~cases[5][1]
    BY DEF PaymentPreparable
  <1>4. /\ cases[1][2] = "DECIDE" /\ cases[3][2] = "RESERVE" /\ cases[6][2] = "REFUND"
        /\ cases[7][2] = "NONE"
    OBVIOUS
  <1> HIDE DEF cases
  <1>5. PICK i \in 1 .. 7 : cases[i][1] /\ FirstOf(cases) = cases[i][2]
    BY <1>1, FirstCase
  <1>6. QED
    BY <1>2, <1>3, <1>4, <1>5

\* The lines of a page whose purchase is completed by now.
LEMMA CompletedLines ==
    ASSUME PaymentInv, MoneyInv, status = "COMPLETED"
    PROVE  EveryStepRecordedFor("COMPLETED")
  <1>1. Booked /\ HasCapture /\ hold.status = "COMMITTED"
    BY HasCaptureIsBooked DEF Booked, CapturedStates, MoneyInv, HoldFollowsSale
  <1>2. PaymentAmountLine = "VERIFIED"
    <2> DEFINE cases ==
            << <<attempts = <<>>,                                         "NOT_REACHED">>,
               <<\E n \in DOMAIN attempts : attempts[n].quote > quote.id, "BLOCKED">>,
               <<TRUE,                                                    "VERIFIED">> >>
    <2>1. PICK n \in DOMAIN attempts : n \in Ordered
      BY <1>1 DEF MoneyInv, BookedIsRecorded, CapturesAreMoney, Ordered
    <2>2. attempts # <<>>
      BY <2>1
    <2>3. ~\E m \in DOMAIN attempts : attempts[m].quote > quote.id
      <3>1. \A m \in DOMAIN attempts : attempts[m].quote \in Nat /\ attempts[m].quote <= quote.id
        BY RowOf DEF Attempts, PaymentInv, RowsFit
      <3>2. quote.id \in Nat
        BY DEF PaymentInv, PaymentTypeOK
      <3>3. QED
        BY <3>1, <3>2
    <2>4. DOMAIN cases = 1 .. 3 /\ cases[3][1] /\ 3 \in Nat /\ 3 \in 1 .. 3
      OBVIOUS
    <2>5. ~cases[1][1] /\ ~cases[2][1] /\ cases[3][2] = "VERIFIED"
      BY <2>2, <2>3
    <2>6. PaymentAmountLine = FirstOf(cases)
      BY DEF PaymentAmountLine
    <2> HIDE DEF cases
    <2>7. PICK i \in 1 .. 3 : cases[i][1] /\ FirstOf(cases) = cases[i][2]
      BY <2>4, FirstCase
    <2>8. QED
      BY <2>5, <2>6, <2>7
  <1>3. CaptureLine("COMPLETED") = "CAPTURED"
    BY <1>1, CaptureLineIs
  <1>4. InventoryLine = "COMMITTED"
    <2> DEFINE cases == << <<hold.status = "COMMITTED", "COMMITTED">>,
                           <<hold.status = "ACTIVE",    "RESERVED">>,
                           <<TRUE,                      "GIVEN_BACK">> >>
    <2>1. /\ DOMAIN cases = 1 .. 3 /\ 3 \in Nat /\ 1 \in 1 .. 3
          /\ cases[1][1] /\ cases[1][2] = "COMMITTED"
      <3>1. cases[1][1] <=> hold.status = "COMMITTED"
        OBVIOUS
      <3>2. QED
        BY <1>1, <3>1
    <2>2. InventoryLine = FirstOf(cases)
      BY DEF InventoryLine
    <2> HIDE DEF cases
    <2>3. PICK i \in 1 .. 3 :
              /\ cases[i][1] /\ i <= 1 /\ \A h \in 1 .. 3 : h < i => ~cases[h][1]
              /\ FirstOf(cases) = cases[i][2]
      BY <2>1, FirstCase
    <2>4. QED
      BY <2>1, <2>2, <2>3
  <1>5. CommitLine = "COMMITTED"
    <2> DEFINE cases == << <<hold.status = "COMMITTED", "COMMITTED">>,
                           <<HasCapture,                "PENDING">>,
                           <<TRUE,                      "NOT_REACHED">> >>
    <2>1. /\ DOMAIN cases = 1 .. 3 /\ 3 \in Nat /\ 1 \in 1 .. 3
          /\ cases[1][1] /\ cases[1][2] = "COMMITTED"
      <3>1. cases[1][1] <=> hold.status = "COMMITTED"
        OBVIOUS
      <3>2. QED
        BY <1>1, <3>1
    <2>2. CommitLine = FirstOf(cases)
      BY DEF CommitLine
    <2> HIDE DEF cases
    <2>3. PICK i \in 1 .. 3 :
              /\ cases[i][1] /\ i <= 1 /\ \A h \in 1 .. 3 : h < i => ~cases[h][1]
              /\ FirstOf(cases) = cases[i][2]
      BY <2>1, FirstCase
    <2>4. QED
      BY <2>1, <2>2, <2>3
  <1>6. ASSUME NEW refused \in BOOLEAN
        PROVE  CallbackLine("COMPLETED", refused) \in {"VERIFIED", "NOT_REQUIRED"}
                   \cup (IF refused THEN {"BLOCKED"} ELSE {})
    <2> DEFINE cases == << <<PaymentVerifiedRecorded, "VERIFIED">>,
                           <<refused,                 "BLOCKED">>,
                           <<HasCapture,              "NOT_REQUIRED">>,
                           <<TRUE,                    Outstanding("COMPLETED")>> >>
    <2>1. DOMAIN cases = 1 .. 4 /\ cases[3][1] /\ 4 \in Nat /\ 3 \in 1 .. 4
      BY <1>1
    <2>2. /\ cases[1][2] = "VERIFIED" /\ cases[2][2] = "BLOCKED" /\ cases[3][2] = "NOT_REQUIRED"
          /\ cases[2][1] <=> refused
      OBVIOUS
    <2>3. CallbackLine("COMPLETED", refused) = FirstOf(cases)
      BY DEF CallbackLine
    <2> HIDE DEF cases
    <2>4. PICK i \in 1 .. 4 :
              /\ cases[i][1] /\ i <= 3 /\ \A h \in 1 .. 4 : h < i => ~cases[h][1]
              /\ FirstOf(cases) = cases[i][2]
      BY <2>1, FirstCase
    <2>5. QED
      BY <2>2, <2>3, <2>4
  <1>7. QED
    BY <1>2, <1>3, <1>4, <1>5, <1>6 DEF EveryStepRecordedFor

\* A completed purchase stays completed; so what the load read first still holds.
SeenHolds == seen = "COMPLETED" => status = "COMPLETED"

LEMMA SeenStays ==
    PaymentInv /\ MoneyInv /\ SeenHolds /\ [LoadNext]_<<vars, seen>>
    => (PaymentInv /\ MoneyInv /\ SeenHolds)'
  <1> SUFFICES ASSUME PaymentInv, MoneyInv, SeenHolds, [LoadNext]_<<vars, seen>>
               PROVE  (PaymentInv /\ MoneyInv /\ SeenHolds)'
    OBVIOUS
  <1>1. [Next]_vars
    BY DEF LoadNext, ReadTransaction
  <1>2. PaymentInv' /\ MoneyInv'
    BY <1>1, PaymentKept, MoneyKept
  <1>3. status = "COMPLETED" => status' = "COMPLETED"
    <2>1. CASE Unbooked
      BY <2>1 DEF Unbooked
    <2>2. ASSUME NEW c \in Calls, CommitReconciliation(c), status = "COMPLETED"
          PROVE  status' = "COMPLETED"
      BY <2>2, Reconciled DEF Booked, CapturedStates
    <2>3. QED
      BY <1>1, <1>2, <2>1, <2>2, OnlyReportsBook
  <1>4. seen' \in {seen, status}
    BY DEF LoadNext, ReadTransaction
  <1>5. SeenHolds'
    <2>1. CASE seen' = seen
      BY <1>3, <2>1 DEF SeenHolds
    <2>2. CASE seen' = status
      BY <1>3, <2>2 DEF SeenHolds
    <2>3. QED
      BY <1>4, <2>1, <2>2
  <1>6. QED
    BY <1>2, <1>5

\* A page never contradicts itself about the end of a purchase, wherever between
\* its queries the handlers commit.
THEOREM PageNeverContradicts == LoadSpec => []PageIsConsistent
  <1>1. LoadInit => PaymentInv /\ MoneyInv /\ SeenHolds
    BY PaymentInitially, MoneyInitially DEF LoadInit, SeenHolds
  <1>2. PaymentInv /\ MoneyInv /\ SeenHolds => PageIsConsistent
    <2> SUFFICES ASSUME PaymentInv, MoneyInv, SeenHolds PROVE PageIsConsistent
      OBVIOUS
    <2>1. PageIsComplete
      BY CompletedLines DEF PageIsComplete, SeenHolds, EveryStepRecordedFor
    <2>2. ASSUME CaptureLine(seen) = "CAPTURED" PROVE Offer(seen) \notin {"PAY", "RETRY"}
      <3>1. Booked
        BY <2>2, CaptureLineIs, HasCaptureIsBooked
      <3>2. ~HoldIsLive
        BY <3>1 DEF MoneyInv, HoldFollowsSale, HoldIsLive
      <3>3. ~RetryAvailable
        BY <3>1, GateClosed DEF RetryAvailable
      <3>4. QED
        BY <3>2, <3>3, NothingToPay
    <2>3. QED
      BY <2>1, <2>2 DEF PageIsConsistent, NoPaymentOfferedOnceCaptured
  <1>3. QED
    BY <1>1, <1>2, SeenStays, PTL DEF LoadSpec

-----------------------------------------------------------------------------
(* What the rows of the attempts say: how many there may be, which of them *)
(* is waiting for money, what each tells of the money, and when another    *)
(* one may be claimed.  Some of it holds while the first price stands, and *)
(* some while calls come one after the other; the theorems say so as       *)
(* hypotheses.                                                             *)

-----------------------------------------------------------------------------
(* Kinds of steps, for what is true of attempts while calls are under way. *)

OrderStages == {"Claim"} \cup ClaimedStages
RetryStages == {"Check", "Claim", "Requote", "Evaluate", "Rebind"}
UnorderedStages == {"Lookup", "LookupParked", "Create", "Recover", "Fail"}

\* What a call has read when it goes on as `call`.
Reading(c, call) ==
    \/ call.at \in {"Idle", "Release", "Asking"} /\ call.retry \in {0, calls[c].retry}
    \/ call.at = "Starting" /\ call.retry = 0 /\ status = "PAYMENT_ORDER_CREATED"
    \/ /\ call.at = "Verifying" /\ call.retry = 0 /\ status = "PAYMENT_PENDING"
       /\ attempts[call.n].order /\ attempts[call.n].payment = NoPayment
    \/ /\ call.at = "Reconciling" /\ call.retry = 0
       /\ attempts[call.n].payment \in {NoPayment, call.pay}
    \/ /\ call.at \in {"Check", "Requote"} /\ call.retry = Len(attempts) + 1
       /\ status \in RetryEntryStates /\ Len(attempts) < MaxAttempts
       /\ \A n \in DOMAIN attempts : attempts[n].status = "FAILED"
    \/ /\ call.at = "Claim" /\ hold.quote = quote.id /\ call.retry \in {0, calls[c].retry}
       /\ call.retry # 0 => calls[c].at = "Check"
       /\ status = RequiredState(call.retry)
    \/ /\ calls[c].at = "Claim" /\ call.at \in ClaimedStages /\ call.retry = calls[c].retry
       /\ call.n \in ClaimedBy(c)
       /\ call.at \in UnorderedStages => ~attempts[call.n].order
    \/ /\ calls[c].at \in ClaimedStages /\ call.at \in ClaimedStages
       /\ call.retry = calls[c].retry /\ call.n = calls[c].n
       /\ call.at \in UnorderedStages => calls[c].at \in UnorderedStages

Steady ==
    status' = status /\ attempts' = attempts /\ quote'.id = quote.id /\ hold'.quote = hold.quote

\* A call reads and goes on; a checkout handed out again adds a browser.
ReadsOn(c) ==
    /\ Steady /\ payments' = payments /\ (sessions' = sessions \/ status = "PAYMENT_PENDING")
    /\ \E call \in CallRecords : calls' = [calls EXCEPT ![c] = call] /\ Reading(c, call)

\* Time passes, or the buyer or the provider acts.
Outside == Steady /\ UNCHANGED <<sessions, calls>>

Writes(c) ==
    \/ ClaimAttempt(c) \/ Finalize(c) \/ RecordDefiniteFailure(c) \/ ParkForReconciliation(c)
    \/ CommitCheckout(c) \/ CommitCallback(c) \/ CommitReconciliation(c)
    \/ IssueQuote(c) \/ EvaluatePolicy(c) \/ RebindHold(c)

\* The gate lets a retry through only when every attempt has failed.
LEMMA GateOpen ==
    ASSUME PaymentInv, Eligibility \in {"ELIGIBLE", "REQUOTE_ELIGIBLE"}
    PROVE  /\ status \in RetryEntryStates /\ Len(attempts) < MaxAttempts
           /\ \A n \in DOMAIN attempts : attempts[n].status = "FAILED"
  <1>1. DOMAIN GateChecks = 1 .. 11 /\ 11 \in Nat /\ 11 \in 1 .. 11 /\ GateChecks[11][1]
    BY DEF GateChecks
  <1>2. /\ ~GateChecks[2][1] => status \in RetryEntryStates
        /\ ~GateChecks[3][1] => ~SomeAttempt({"CAPTURED"})
        /\ ~GateChecks[4][1] => ~OutcomeUnresolved
        /\ ~GateChecks[5][1] => ~AttemptInProgress
        /\ ~GateChecks[6][1] => WithinAttemptLimit(Len(attempts))
    BY DEF GateChecks
  <1>3. /\ GateChecks[1][2] = "PAYMENT_ALREADY_CAPTURED"
        /\ GateChecks[2][2] = "TRANSACTION_STATE_INVALID"
        /\ GateChecks[3][2] = "PAYMENT_ALREADY_CAPTURED"
        /\ GateChecks[4][2] = "OUTCOME_UNRESOLVED"
        /\ GateChecks[5][2] = "ATTEMPT_IN_PROGRESS"
        /\ GateChecks[6][2] = "RETRY_LIMIT_REACHED"
    BY DEF GateChecks
  <1>4. PICK i \in 1 .. 11 :
            /\ GateChecks[i][1] /\ i <= 11 /\ \A h \in 1 .. 11 : h < i => ~GateChecks[h][1]
            /\ FirstOf(GateChecks) = GateChecks[i][2]
    BY <1>1, FirstCase
  <1>5. Eligibility = FirstOf(GateChecks)
    BY DEF Eligibility, FirstOf
  <1>6. i > 6
    BY <1>3, <1>4, <1>5
  <1>7. /\ status \in RetryEntryStates /\ ~SomeAttempt({"CAPTURED"}) /\ ~OutcomeUnresolved
        /\ ~AttemptInProgress /\ WithinAttemptLimit(Len(attempts))
    BY <1>2, <1>4, <1>6
  <1>8. ASSUME NEW n \in DOMAIN attempts PROVE attempts[n].status = "FAILED"
    BY <1>7, RowOf DEF SomeAttempt, OutcomeUnresolved, AttemptInProgress, LiveStatuses,
                       Attempts, AttemptStatuses
  <1>9. QED
    BY <1>7, <1>8 DEF WithinAttemptLimit

\* The order service between its writes.
LEMMA OrdersReadOn ==
    ASSUME PaymentInv, NEW c \in Calls,
           \/ RequestOrder(c) \/ RetryOrder(c) \/ JoinAttempt(c) \/ LookupReceipt(c)
           \/ CreateOrder(c) \/ CreateRefused(c) \/ CreateUnanswered(c)
           \/ ResolveByLookup(c) \/ FinalizeRolledBack(c)
    PROVE  ReadsOn(c)
  <1>1. Steady /\ payments' = payments /\ sessions' = sessions
    BY DEF RequestOrder, RetryOrder, JoinAttempt, LookupReceipt, CreateOrder, CreateRefused,
           CreateUnanswered, ResolveByLookup, FinalizeRolledBack, Steady, txn, terms, provider
  <1>2. /\ calls[c] \in CallRecords /\ quote.id \in 0 .. MaxQuotes /\ quote.id \in 1 .. MaxQuotes
        /\ calls \in [Calls -> CallRecords] /\ Idle \in CallRecords
    BY CallOf, IdleFits
  <1>3. CASE RequestOrder(c)
    <2>1. PICK call : call = [Idle EXCEPT !.at = "Claim", !.quote = quote.id]
      OBVIOUS
    <2>2. call \in CallRecords /\ call.at = "Claim" /\ call.retry = 0
      BY <1>2, <2>1 DEF CallRecords, Stages, Idle
    <2>3. calls' = [calls EXCEPT ![c] = call]
      BY <1>3, <2>1 DEF RequestOrder
    <2>4. hold.quote = quote.id /\ status = RequiredState(0)
      BY <1>3 DEF RequestOrder, PreconditionsHold, HoldPricesQuote
    <2>5. Reading(c, call)
      BY <2>2, <2>4 DEF Reading
    <2>6. QED
      BY <1>1, <2>2, <2>3, <2>5 DEF ReadsOn
  <1>4. ASSUME RetryOrder(c), ~Done(c) PROVE ReadsOn(c)
    <2>1. PICK call : call = [calls[c] EXCEPT !.at = "Claim", !.quote = quote.id]
      OBVIOUS
    <2>2. call \in CallRecords /\ call.at = "Claim" /\ call.retry = calls[c].retry
      BY <1>2, <2>1 DEF CallRecords, Stages
    <2>3. calls' = [calls EXCEPT ![c] = call]
      BY <1>2, <1>4, <2>1 DEF RetryOrder
    <2>4. hold.quote = quote.id /\ status = RequiredState(calls[c].retry) /\ calls[c].at = "Check"
      BY <1>4 DEF RetryOrder, PreconditionsHold, HoldPricesQuote, At
    <2>5. Reading(c, call)
      BY <2>2, <2>4 DEF Reading
    <2>6. QED
      BY <1>1, <2>2, <2>3, <2>5 DEF ReadsOn
  <1>5. CASE JoinAttempt(c)
    <2>1. PICK n \in ClaimedBy(c) :
              calls' = [calls EXCEPT ![c].at = MeaningOfRow(attempts[n]), ![c].n = n]
      BY <1>5 DEF JoinAttempt
    <2>2. PICK call : call = [calls[c] EXCEPT !.at = MeaningOfRow(attempts[n]), !.n = n]
      OBVIOUS
    <2>3. n \in DOMAIN attempts /\ n \in 0 .. MaxRows /\ attempts[n] \in Attempts
      BY <2>1, RowOf DEF ClaimedBy
    <2>4. /\ MeaningOfRow(attempts[n]) \in {"Finalize", "Create", "Lookup", "LookupParked"}
          /\ MeaningOfRow(attempts[n]) # "Finalize" => ~attempts[n].order
      BY <2>3 DEF MeaningOfRow, Attempts
    <2>5. /\ call \in CallRecords /\ call.at = MeaningOfRow(attempts[n]) /\ call.n = n
          /\ call.retry = calls[c].retry
      BY <1>2, <2>2, <2>3, <2>4 DEF CallRecords, Stages
    <2>6. calls' = [calls EXCEPT ![c] = call] /\ calls[c].at = "Claim"
      BY <1>2, <1>5, <2>1, <2>2 DEF JoinAttempt, At
    <2>7. Reading(c, call)
      BY <2>1, <2>4, <2>5, <2>6 DEF Reading, ClaimedStages, UnorderedStages
    <2>8. QED
      BY <1>1, <2>5, <2>6, <2>7 DEF ReadsOn
  <1>6. ASSUME NEW stage \in ClaimedStages, Goto(c, stage), calls[c].at \in ClaimedStages,
               stage \in UnorderedStages => calls[c].at \in UnorderedStages
        PROVE  ReadsOn(c)
    <2>1. PICK call : call = [calls[c] EXCEPT !.at = stage]
      OBVIOUS
    <2>2. /\ call \in CallRecords /\ call.at = stage /\ call.n = calls[c].n
          /\ call.retry = calls[c].retry
      BY <1>2, <2>1 DEF CallRecords, Stages, ClaimedStages
    <2>3. calls' = [calls EXCEPT ![c] = call]
      BY <1>2, <1>6, <2>1 DEF Goto
    <2>4. Reading(c, call)
      BY <1>6, <2>2 DEF Reading
    <2>5. QED
      BY <1>1, <2>2, <2>3, <2>4 DEF ReadsOn
  <1>7. ASSUME Done(c) PROVE ReadsOn(c)
    <2>1. Idle.at = "Idle" /\ Idle.retry = 0
      BY DEF Idle
    <2>2. Reading(c, Idle)
      BY <2>1 DEF Reading
    <2>3. QED
      BY <1>1, <1>2, <1>7, <2>2 DEF ReadsOn, Done
  <1>8. CASE LookupReceipt(c)
    BY <1>6, <1>7, <1>8 DEF LookupReceipt, At, ClaimedStages, UnorderedStages
  <1>9. CASE CreateOrder(c) \/ CreateRefused(c) \/ CreateUnanswered(c) \/ ResolveByLookup(c)
    BY <1>6, <1>9 DEF CreateOrder, CreateRefused, CreateUnanswered, ResolveByLookup, At,
                      ClaimedStages, UnorderedStages
  <1>10. CASE FinalizeRolledBack(c)
    BY <1>6, <1>7, <1>10 DEF FinalizeRolledBack, At, ClaimedStages, UnorderedStages
  <1>11. QED
    BY <1>3, <1>4, <1>5, <1>7, <1>8, <1>9, <1>10

\* Checkouts, callbacks and reports as they arrive, and calls that end.
LEMMA ReportsReadOn ==
    ASSUME PaymentInv, NEW c \in Calls,
           \/ StartCheckout(c) \/ \E p \in Payments : ReceiveCallback(c, p)
           \/ \E kind \in {"failed", "captured"}, p \in Payments : ReceiveWebhook(c, kind, p)
           \/ RollBackReconciliation(c) \/ AskProvider(c) \/ NothingToReconcile(c)
           \/ \E p \in Payments : ReceiveAnswer(c, p)
           \/ Crash(c)
    PROVE  ReadsOn(c)
  <1>1. Steady /\ payments' = payments /\ (sessions' = sessions \/ status = "PAYMENT_PENDING")
    BY DEF StartCheckout, ReceiveCallback, ReceiveWebhook, RollBackReconciliation, AskProvider,
           NothingToReconcile, ReceiveAnswer, Correlate, Crash, Steady, txn, terms, provider
  <1>2. /\ calls[c] \in CallRecords /\ calls \in [Calls -> CallRecords] /\ Idle \in CallRecords
        /\ Idle.at = "Idle" /\ Idle.retry = 0
    BY CallOf, IdleFits DEF Idle
  <1>3. ASSUME NEW call, call \in CallRecords, calls' = [calls EXCEPT ![c] = call], Reading(c, call)
        PROVE  ReadsOn(c)
    BY <1>1, <1>3 DEF ReadsOn
  <1>4. Done(c) => ReadsOn(c)
    <2>1. Reading(c, Idle)
      BY <1>2 DEF Reading
    <2>2. QED
      BY <1>2, <1>3, <2>1 DEF Done
  <1>5. \A p \in Payments : payments[p].order \in 0 .. MaxRows
    BY DEF PaymentInv, PaymentTypeOK
  <1>6. ASSUME StartCheckout(c), calls' # calls PROVE ReadsOn(c)
    <2>1. PICK call : call = [Idle EXCEPT !.at = "Starting", !.n = Newest(PayableAttempts)]
      OBVIOUS
    <2>2. /\ status = "PAYMENT_ORDER_CREATED" /\ PayableAttempts # {}
          /\ calls' = [calls EXCEPT ![c] = call]
      BY <1>6, <2>1 DEF StartCheckout
    <2>3. Newest(PayableAttempts) \in 0 .. MaxRows
      <3>1. PayableAttempts \subseteq 1 .. Len(attempts) /\ Len(attempts) \in Nat
        BY CallOf DEF PayableAttempts, Ordered
      <3>2. QED
        BY <2>2, <3>1, NewestIsOne, RowOf DEF PayableAttempts, Ordered
    <2>4. call \in CallRecords /\ call.at = "Starting" /\ call.retry = 0
      BY <1>2, <2>1, <2>3 DEF CallRecords, Stages, Idle
    <2>5. Reading(c, call)
      BY <2>2, <2>4 DEF Reading
    <2>6. QED
      BY <1>3, <2>2, <2>4, <2>5
  <1>7. ASSUME calls' = calls, calls[c].at = "Idle" PROVE ReadsOn(c)
    <2>1. Reading(c, calls[c])
      BY <1>7 DEF Reading
    <2>2. calls' = [calls EXCEPT ![c] = calls[c]]
      BY <1>2, <1>7
    <2>3. QED
      BY <1>2, <1>3, <2>1, <2>2
  <1>8. ASSUME NEW p \in Payments, ReceiveCallback(c, p) PROVE ReadsOn(c)
    <2>1. PICK call : call = [Idle EXCEPT !.at = "Verifying", !.n = payments[p].order, !.pay = p]
      OBVIOUS
    <2>2. /\ call \in CallRecords /\ call.at = "Verifying" /\ call.n = payments[p].order
          /\ call.retry = 0
      BY <1>2, <1>5, <2>1 DEF CallRecords, Stages, Idle
    <2>3. Reading(c, call)
      BY <1>8, <2>2 DEF Reading, ReceiveCallback
    <2>4. calls' = [calls EXCEPT ![c] = call]
      BY <1>8, <2>1 DEF ReceiveCallback
    <2>5. QED
      BY <1>3, <2>2, <2>3, <2>4
  <1>9. ASSUME NEW kind \in {"failed", "captured", "status"}, NEW p \in Payments,
               Correlate(c, kind, p), ~Done(c)
        PROVE  ReadsOn(c)
    <2>1. PICK call : call = [Idle EXCEPT !.at = "Reconciling", !.n = AttemptOf(p), !.pay = p,
                                          !.kind = kind]
      OBVIOUS
    <2>2. /\ call \in CallRecords /\ call.at = "Reconciling" /\ call.n = AttemptOf(p)
          /\ call.retry = 0 /\ call.pay = p
      BY <1>2, <1>5, <2>1 DEF CallRecords, Stages, Idle, AttemptOf
    <2>3. calls' = [calls EXCEPT ![c] = call] /\ attempts[AttemptOf(p)].payment \in {NoPayment, p}
      BY <1>9, <2>1 DEF Correlate
    <2>4. Reading(c, call)
      BY <2>2, <2>3 DEF Reading
    <2>5. QED
      BY <1>3, <2>2, <2>3, <2>4
  <1>10. CASE AskProvider(c)
    <2>1. PICK call : call = [Idle EXCEPT !.at = "Asking", !.n = Newest(Ordered)]
      OBVIOUS
    <2>2. Newest(Ordered) \in 0 .. MaxRows
      <3>1. Ordered \subseteq 1 .. Len(attempts) /\ Len(attempts) \in Nat
        BY CallOf DEF Ordered
      <3>2. QED
        BY <1>10, <3>1, NewestIsOne, RowOf DEF AskProvider, Ordered
    <2>3. call \in CallRecords /\ call.at = "Asking" /\ call.retry = 0
      BY <1>2, <2>1, <2>2 DEF CallRecords, Stages, Idle
    <2>4. Reading(c, call)
      BY <2>3 DEF Reading
    <2>5. calls' = [calls EXCEPT ![c] = call]
      BY <1>10, <2>1 DEF AskProvider
    <2>6. QED
      BY <1>3, <2>3, <2>4, <2>5
  <1>11. CASE StartCheckout(c)
    BY <1>6, <1>7, <1>11 DEF StartCheckout, At
  <1>12. CASE \/ \E kind \in {"failed", "captured"}, p \in Payments : ReceiveWebhook(c, kind, p)
              \/ \E p \in Payments : ReceiveAnswer(c, p)
    BY <1>4, <1>9, <1>12 DEF ReceiveWebhook, ReceiveAnswer
  <1>13. CASE RollBackReconciliation(c) \/ NothingToReconcile(c) \/ Crash(c)
    BY <1>4, <1>13 DEF RollBackReconciliation, NothingToReconcile, Crash
  <1>14. QED
    BY <1>8, <1>10, <1>11, <1>12, <1>13

\* The gate's answers, and the ends of a retry that write no row.
LEMMA RetriesReadOn ==
    ASSUME PaymentInv, NEW c \in Calls,
           RequestRetry(c) \/ ReleaseHeldStock(c) \/ QuoteNotIssued(c) \/ QuoteNotUsable(c)
    PROVE  ReadsOn(c)
  <1>1. Steady /\ payments' = payments /\ sessions' = sessions
    <2>1. hold'.quote = hold.quote
      BY DEF RequestRetry, ReleaseHeldStock, QuoteNotIssued, QuoteNotUsable, PaymentInv, PaymentTypeOK
    <2>2. QED
      BY <2>1 DEF RequestRetry, ReleaseHeldStock, QuoteNotIssued, QuoteNotUsable, Steady, txn,
                  terms, provider
  <1>2. /\ calls[c] \in CallRecords /\ calls \in [Calls -> CallRecords] /\ Idle \in CallRecords
        /\ Idle.at = "Idle" /\ Idle.retry = 0
    BY CallOf, IdleFits DEF Idle
  <1>3. ASSUME NEW call, call \in CallRecords, calls' = [calls EXCEPT ![c] = call], Reading(c, call)
        PROVE  ReadsOn(c)
    BY <1>1, <1>3 DEF ReadsOn
  <1>4. Done(c) => ReadsOn(c)
    <2>1. Reading(c, Idle)
      BY <1>2 DEF Reading
    <2>2. QED
      BY <1>2, <1>3, <2>1 DEF Done
  <1>5. Goto(c, "Release") => ReadsOn(c)
    <2>1. PICK call : call = [calls[c] EXCEPT !.at = "Release"]
      OBVIOUS
    <2>2. call \in CallRecords /\ call.at = "Release" /\ call.retry = calls[c].retry
      BY <1>2, <2>1 DEF CallRecords, Stages
    <2>3. Reading(c, call)
      BY <2>2 DEF Reading
    <2>4. Goto(c, "Release") => calls' = [calls EXCEPT ![c] = call]
      BY <1>2, <2>1 DEF Goto
    <2>5. QED
      BY <1>3, <2>2, <2>3, <2>4
  <1>6. ASSUME RequestRetry(c), Eligibility \in {"ELIGIBLE", "REQUOTE_ELIGIBLE"} PROVE ReadsOn(c)
    <2>1. NextAttemptNumber \in 0 .. MaxRows + 1 /\ Len(attempts) \in 0 .. MaxRows
      BY PaymentAssumption DEF NextAttemptNumber, PaymentInv, PaymentTypeOK
    <2>2. ASSUME NEW call, call \in CallRecords, call.at \in {"Check", "Requote"},
                 call.retry = Len(attempts) + 1, calls' = [calls EXCEPT ![c] = call]
          PROVE  ReadsOn(c)
      <3>1. Reading(c, call)
        BY <1>6, <2>2, GateOpen DEF Reading
      <3>2. QED
        BY <1>3, <2>2, <3>1
    <2>3. ASSUME calls' = [calls EXCEPT ![c] =
                              [Idle EXCEPT !.at = "Check", !.retry = NextAttemptNumber]]
          PROVE  ReadsOn(c)
      <3>1. PICK call : call = [Idle EXCEPT !.at = "Check", !.retry = NextAttemptNumber]
        OBVIOUS
      <3>2. call \in CallRecords /\ call.at = "Check" /\ call.retry = Len(attempts) + 1
        BY <1>2, <2>1, <3>1 DEF CallRecords, Stages, Idle, NextAttemptNumber
      <3>3. QED
        BY <2>2, <2>3, <3>1, <3>2
    <2>4. ASSUME calls' = [calls EXCEPT ![c] =
                              [Idle EXCEPT !.at = "Requote", !.retry = NextAttemptNumber,
                                           !.n = Len(attempts)]]
          PROVE  ReadsOn(c)
      <3>1. PICK call : call = [Idle EXCEPT !.at = "Requote", !.retry = NextAttemptNumber,
                                            !.n = Len(attempts)]
        OBVIOUS
      <3>2. call \in CallRecords /\ call.at = "Requote" /\ call.retry = Len(attempts) + 1
        BY <1>2, <2>1, <3>1 DEF CallRecords, Stages, Idle, NextAttemptNumber
      <3>3. QED
        BY <2>2, <2>4, <3>1, <3>2
    <2>5. QED
      BY <1>6, <2>3, <2>4 DEF RequestRetry, EndsWorkflow
  <1>7. QED
    BY <1>4, <1>5, <1>6
       DEF RequestRetry, ReleaseHeldStock, QuoteNotIssued, QuoteNotUsable

\* Every step of the payment is one of these.
LEMMA StepKinds ==
    ASSUME PaymentInv, [Next]_vars
    PROVE  \/ Outside \/ DecideApproval \/ ReserveInventory
           \/ \E c \in Calls : ReadsOn(c) \/ Writes(c)
  <1>1. CASE \/ BuyerStep \/ WorldStep \/ UNCHANGED vars
    <2>1. hold'.quote = hold.quote /\ quote'.id = quote.id
      BY <1>1 DEF BuyerStep, WorldStep, PaymentFails, PaymentAuthorized, PaymentCaptured,
                  QuoteGoesStale, HoldLapses, SweepHold, PolicyRevised,
                  ProviderProcessesLatePost, vars, terms, PaymentInv, PaymentTypeOK
    <2>2. UNCHANGED <<status, attempts, sessions, calls>>
      BY <1>1 DEF BuyerStep, WorldStep, PaymentFails, PaymentAuthorized, PaymentCaptured,
                  QuoteGoesStale, HoldLapses, SweepHold, PolicyRevised,
                  ProviderProcessesLatePost, vars, txn, provider
    <2>3. QED
      BY <2>1, <2>2 DEF Outside, Steady
  <1>2. ASSUME NEW c \in Calls,
               OrderStep(c) \/ CheckoutStep(c) \/ WebhookStep(c) \/ RetryStep(c) \/ Crash(c)
        PROVE  ReadsOn(c) \/ Writes(c)
    BY <1>2, OrdersReadOn, ReportsReadOn, RetriesReadOn
       DEF OrderStep, CheckoutStep, WebhookStep, RetryStep, Writes
  <1>3. QED
    BY <1>1, <1>2 DEF Next

-----------------------------------------------------------------------------
(* What the writes do to the rows, and to the purchase. *)

RowWrite(c) ==
    \/ Finalize(c) \/ RecordDefiniteFailure(c) \/ ParkForReconciliation(c)
    \/ CommitCallback(c) \/ CommitReconciliation(c)

\* A write replaces the row its call works on, and ends the call.
LEMMA RowWrites ==
    ASSUME PaymentInv, NEW c \in Calls, RowWrite(c)
    PROVE  LET n == calls[c].n
           IN  /\ n \in DOMAIN attempts /\ DOMAIN attempts' = DOMAIN attempts
               /\ Len(attempts') = Len(attempts) /\ Done(c)
               /\ UNCHANGED <<quote, sessions, payments>>
               /\ \A m \in DOMAIN attempts : m # n => attempts'[m] = attempts[m]
               /\ attempts'[n].retry = attempts[n].retry
               /\ attempts'[n].order =
                      (attempts[n].order \/ Finalize(c) \/ At(c, "ParkOrder"))
               /\ CommitCallback(c) \/ CommitReconciliation(c) =>
                      attempts'[n].payment = calls[c].pay
               /\ ~CommitCallback(c) /\ ~CommitReconciliation(c) =>
                      attempts'[n].payment = attempts[n].payment
               /\ Finalize(c) => attempts'[n].status = "CREATED"
               /\ RecordDefiniteFailure(c) => attempts'[n].status = "FAILED"
               /\ ParkForReconciliation(c) => attempts'[n].status = "RECONCILIATION_REQUIRED"
               /\ CommitCallback(c) => attempts'[n].status = "VERIFIED"
  <1> DEFINE n == calls[c].n
  <1>1. n \in DOMAIN attempts /\ attempts \in Seq(Attempts) /\ attempts[n] \in Attempts
    BY CallOf, RowOf
       DEF RowWrite, Finalize, RecordDefiniteFailure, ParkForReconciliation, CommitCallback,
           CommitReconciliation, At, CallFits, ClaimedStages, PaidStages
  <1>2. Done(c) /\ UNCHANGED <<quote, sessions, payments>>
    BY DEF RowWrite, Finalize, RecordDefiniteFailure, ParkForReconciliation, CommitCallback,
           CommitReconciliation, terms, provider
  <1>3. ASSUME NEW row \in Attempts, attempts' = [attempts EXCEPT ![n] = row]
        PROVE  /\ DOMAIN attempts' = DOMAIN attempts /\ Len(attempts') = Len(attempts)
               /\ attempts'[n] = row
               /\ \A m \in DOMAIN attempts : m # n => attempts'[m] = attempts[m]
    BY <1>1, <1>3, RowWritten
  <1>4. CASE Finalize(c)
    <2>1. PICK row : row = [attempts[n] EXCEPT !.order = TRUE, !.status = "CREATED"]
      OBVIOUS
    <2>2. attempts' = [attempts EXCEPT ![n] = row]
      BY <1>1, <1>4, <2>1 DEF Finalize
    <2>3. /\ row \in Attempts /\ row.retry = attempts[n].retry /\ row.order = TRUE
          /\ row.status = "CREATED" /\ row.payment = attempts[n].payment
      BY <1>1, <2>1 DEF Attempts, AttemptStatuses
    <2>4. ~CommitCallback(c) /\ ~CommitReconciliation(c) /\ ~RecordDefiniteFailure(c)
          /\ ~ParkForReconciliation(c)
      BY <1>4 DEF Finalize, CommitCallback, CommitReconciliation, RecordDefiniteFailure,
                  ParkForReconciliation, At
    <2> HIDE DEF n
    <2>5. QED
      BY <1>1, <1>2, <1>3, <1>4, <2>2, <2>3, <2>4 DEF n
  <1>5. CASE RecordDefiniteFailure(c)
    <2>1. PICK row : row = [attempts[n] EXCEPT !.status = "FAILED"]
      OBVIOUS
    <2>2. attempts' = [attempts EXCEPT ![n] = row]
      BY <1>1, <1>5, <2>1 DEF RecordDefiniteFailure, Set
    <2>3. /\ row \in Attempts /\ row.retry = attempts[n].retry /\ row.order = attempts[n].order
          /\ row.status = "FAILED" /\ row.payment = attempts[n].payment
      BY <1>1, <2>1 DEF Attempts, AttemptStatuses
    <2>4. /\ ~CommitCallback(c) /\ ~CommitReconciliation(c) /\ ~Finalize(c)
          /\ ~ParkForReconciliation(c) /\ ~At(c, "ParkOrder")
      BY <1>5 DEF Finalize, CommitCallback, CommitReconciliation, RecordDefiniteFailure,
                  ParkForReconciliation, At
    <2>5. attempts[n].order \in BOOLEAN
      BY <1>1 DEF Attempts
    <2> HIDE DEF n
    <2>6. QED
      BY <1>1, <1>2, <1>3, <1>5, <2>2, <2>3, <2>4, <2>5 DEF n
  <1>6. CASE ParkForReconciliation(c)
    <2>1. PICK order : order = (attempts[n].order \/ At(c, "ParkOrder"))
      OBVIOUS
    <2>2. PICK row : row = [attempts[n] EXCEPT !.status = "RECONCILIATION_REQUIRED",
                                               !.order = order]
      OBVIOUS
    <2>3. attempts' = [attempts EXCEPT ![n] = row]
      BY <1>1, <1>6, <2>1, <2>2 DEF ParkForReconciliation, Attempts
    <2>4. /\ row \in Attempts /\ row.retry = attempts[n].retry /\ row.order = order
          /\ row.status = "RECONCILIATION_REQUIRED" /\ row.payment = attempts[n].payment
      BY <1>1, <2>1, <2>2 DEF Attempts, AttemptStatuses
    <2>5. /\ ~CommitCallback(c) /\ ~CommitReconciliation(c) /\ ~Finalize(c)
          /\ ~RecordDefiniteFailure(c)
      BY <1>6 DEF Finalize, CommitCallback, CommitReconciliation, RecordDefiniteFailure,
                  ParkForReconciliation, At
    <2> HIDE DEF n
    <2>6. QED
      BY <1>1, <1>2, <1>3, <1>6, <2>1, <2>3, <2>4, <2>5 DEF n
  <1>7. CASE CommitCallback(c)
    <2>1. PICK row : row = [attempts[n] EXCEPT !.payment = calls[c].pay, !.status = "VERIFIED"]
      OBVIOUS
    <2>2. attempts' = [attempts EXCEPT ![n] = row]
      BY <1>1, <1>7, <2>1 DEF CommitCallback
    <2>3. /\ row \in Attempts /\ row.retry = attempts[n].retry /\ row.order = attempts[n].order
          /\ row.status = "VERIFIED" /\ row.payment = calls[c].pay
      BY <1>1, <2>1, CallOf DEF Attempts, AttemptStatuses, CallRecords
    <2>4. /\ ~RecordDefiniteFailure(c) /\ ~CommitReconciliation(c) /\ ~Finalize(c)
          /\ ~ParkForReconciliation(c) /\ ~At(c, "ParkOrder")
      BY <1>7 DEF Finalize, CommitCallback, CommitReconciliation, RecordDefiniteFailure,
                  ParkForReconciliation, At
    <2>5. attempts[n].order \in BOOLEAN
      BY <1>1 DEF Attempts
    <2> HIDE DEF n
    <2>6. QED
      BY <1>1, <1>2, <1>3, <1>7, <2>2, <2>3, <2>4, <2>5 DEF n
  <1>8. CASE CommitReconciliation(c)
    <2>1. PICK s : /\ SettledAttempt(c) = [attempts[n] EXCEPT !.payment = calls[c].pay, !.status = s]
                   /\ s \in {"CAPTURED", "FAILED", attempts[n].status}
      BY DEF SettledAttempt
    <2>2. PICK row : row = SettledAttempt(c)
      OBVIOUS
    <2>3. attempts' = [attempts EXCEPT ![n] = row]
      BY <1>8, <2>2 DEF CommitReconciliation
    <2>4. /\ row \in Attempts /\ row.retry = attempts[n].retry /\ row.order = attempts[n].order
          /\ row.payment = calls[c].pay
      BY <1>1, <2>1, <2>2, CallOf DEF Attempts, AttemptStatuses, CallRecords
    <2>5. /\ ~RecordDefiniteFailure(c) /\ ~CommitCallback(c) /\ ~Finalize(c)
          /\ ~ParkForReconciliation(c) /\ ~At(c, "ParkOrder")
      BY <1>8 DEF Finalize, CommitCallback, CommitReconciliation, RecordDefiniteFailure,
                  ParkForReconciliation, At
    <2>6. attempts[n].order \in BOOLEAN
      BY <1>1 DEF Attempts
    <2> HIDE DEF n
    <2>7. QED
      BY <1>1, <1>2, <1>3, <1>8, <2>3, <2>4, <2>5, <2>6 DEF n
  <1>9. QED
    BY <1>4, <1>5, <1>6, <1>7, <1>8 DEF RowWrite

\* Where a write may take the purchase.
LEMMA Moved ==
    ASSUME PaymentInv, MoneyInv, NEW c \in Calls, RowWrite(c) \/ CommitCheckout(c)
    PROVE  \/ status' = status
           \/ /\ Finalize(c) /\ status \in {"INVENTORY_RESERVED", "AUTHORIZED", "PAYMENT_FAILED"}
              /\ status' = "PAYMENT_ORDER_CREATED"
           \/ /\ CommitCheckout(c) /\ status = "PAYMENT_ORDER_CREATED"
              /\ status' = "PAYMENT_PENDING"
           \/ /\ CommitCallback(c) /\ status = "PAYMENT_PENDING" /\ status' = "PAYMENT_VERIFIED"
           \/ /\ CommitReconciliation(c) /\ ~Booked
              /\ status' \in {"PAYMENT_FAILED"} \cup CapturedStates
  <1>1. ColumnsOK
    BY DEF PaymentInv, PaymentTypeOK, ColumnsOK, Keys
  <1>2. ASSUME NEW e, NEW a, NEW key \in Keys, ApplyEvent(e, a, key)
        PROVE  status' = status \/ \E t \in Transitions : t.from = status /\ t.event = e /\ t.to = status'
    BY <1>1, <1>2, EventApplied, ResolveApplies
  <1>3. CallFits(calls[c])
    BY CallOf
  <1>4. calls[c].at \in ClaimedStages \cup PaidStages => calls[c].n \in 0 .. MaxRows
    BY <1>3, RowOf DEF CallFits
  <1>5. CASE Finalize(c)
    <2>1. OrderKey(c) \in Keys
      BY <1>4, <1>5 DEF Finalize, At, ClaimedStages, OrderKey, Keys
    <2>2. QED
      BY <1>2, <1>5, <2>1, PaymentEdges DEF Finalize, OrderEvent
  <1>6. CASE CommitCheckout(c)
    <2>1. CheckoutKey(c) \in Keys
      BY <1>4, <1>6 DEF CommitCheckout, At, PaidStages, CheckoutKey, Keys
    <2>2. QED
      BY <1>2, <1>6, <2>1, PaymentEdges DEF CommitCheckout
  <1>7. CASE CommitCallback(c)
    <2>1. <<"payment_verified", calls[c].n>> \in Keys
      BY <1>4, <1>7 DEF CommitCallback, At, PaidStages, Keys
    <2>2. QED
      BY <1>2, <1>7, <2>1, PaymentEdges DEF CommitCallback
  <1>8. CASE CommitReconciliation(c)
    BY <1>8, Reconciled
  <1>9. CASE RecordDefiniteFailure(c) \/ ParkForReconciliation(c)
    BY <1>9 DEF RecordDefiniteFailure, ParkForReconciliation, txn
  <1>10. QED
    BY <1>5, <1>6, <1>7, <1>8, <1>9 DEF RowWrite

PriceStands == quote.id = 1

PriceStates == {"INVENTORY_RESERVED", "PAYMENT_FAILED"} \cup Announced \cup CapturedStates

RetryFits(call) ==
    call.retry # 0 =>
        /\ call.retry \in 2 .. MaxAttempts /\ call.retry <= Len(attempts) + 1
        /\ status # "INVENTORY_RESERVED"

FirstOrderOnly ==
    status = "INVENTORY_RESERVED" =>
        Len(attempts) <= 1 /\ sessions = {} /\ \A c \in Calls : ~At(c, "Starting")

PriceInv ==
    PriceStands =>
        /\ status \in PriceStates
        /\ status # "INVENTORY_RESERVED" => attempts # <<>>
        /\ \A n \in DOMAIN attempts : attempts[n].retry = IF n = 1 THEN 0 ELSE n
        /\ AttemptLimit
        /\ \A c \in Calls : RetryFits(calls[c])
        /\ FirstOrderOnly
        /\ \A p \in Payments : Settled(p) => Booked

\* The first quote is never replaced by another.
LEMMA PriceStood == PaymentInv /\ Grows /\ PaymentInv' /\ PriceStands' => PriceStands
  BY DEF PriceStands, Grows, PaymentInv, PaymentTypeOK

\* A report enters the ledger as reconciled only in the step that reconciles it.
LEMMA LedgerGrows ==
    ASSUME PaymentInv, [Next]_vars
    PROVE  /\ ledger \subseteq ledger'
           /\ \A e \in ledger' :
                 \/ e \in ledger \/ e[2] = "REJECTED"
                 \/ \E c \in Calls : CommitReconciliation(c) /\ e[1] = DeliveryId(c)
  <1>1. ASSUME NEW c \in Calls, OrderStep(c) \/ CheckoutStep(c) \/ RetryStep(c) \/ Crash(c)
        PROVE  ledger' = ledger
    <2>1. CASE OrderStep(c)
      BY <2>1 DEF OrderStep, RequestOrder, RetryOrder, ClaimAttempt, JoinAttempt, LookupReceipt,
                  CreateOrder, CreateRefused, CreateUnanswered, ResolveByLookup, Finalize,
                  FinalizeRolledBack, RecordDefiniteFailure, ParkForReconciliation
    <2>2. CASE CheckoutStep(c)
      BY <2>2 DEF CheckoutStep, StartCheckout, CommitCheckout, CommitCallback, ReceiveCallback
    <2>3. CASE RetryStep(c) \/ Crash(c)
      BY <2>3 DEF RetryStep, RequestRetry, ReleaseHeldStock, IssueQuote, QuoteNotIssued,
                  EvaluatePolicy, QuoteNotUsable, RebindHold, Crash
    <2>4. QED
      BY <1>1, <2>1, <2>2, <2>3
  <1>2. ASSUME NEW c \in Calls, WebhookStep(c)
        PROVE  /\ ledger \subseteq ledger'
               /\ \A e \in ledger' :
                     \/ e \in ledger \/ e[2] = "REJECTED"
                     \/ CommitReconciliation(c) /\ e[1] = DeliveryId(c)
    <2>1. ASSUME NEW kind, NEW p, Correlate(c, kind, p)
          PROVE  ledger \subseteq ledger' /\ \A e \in ledger' : e \in ledger \/ e[2] = "REJECTED"
      <3>1. ledger' \in {ledger, ledger \cup {<<<<kind, p>>, "REJECTED">>}}
        BY <2>1 DEF Correlate
      <3>2. QED
        BY <3>1
    <2>2. CASE CommitReconciliation(c)
      <3>1. PICK outcome : ledger' = ledger \cup {<<DeliveryId(c), outcome>>}
        BY <2>2 DEF CommitReconciliation
      <3>2. QED
        BY <2>2, <3>1
    <2>3. CASE RollBackReconciliation(c) \/ AskProvider(c) \/ NothingToReconcile(c)
      BY <2>3 DEF RollBackReconciliation, AskProvider, NothingToReconcile
    <2>4. QED
      BY <1>2, <2>1, <2>2, <2>3 DEF WebhookStep, ReceiveWebhook, ReceiveAnswer
  <1>3. CASE BuyerStep \/ WorldStep \/ DecideApproval \/ ReserveInventory \/ UNCHANGED vars
    BY <1>3 DEF BuyerStep, WorldStep, PaymentFails, PaymentAuthorized, PaymentCaptured,
                QuoteGoesStale, HoldLapses, SweepHold, PolicyRevised, DecideApproval,
                ReserveInventory, ProviderProcessesLatePost, vars
  <1>4. QED
    BY <1>1, <1>2, <1>3 DEF Next

\* The webhook's capture is taken wherever an order has been announced.
LEMMA CaptureApplies ==
    ASSUME NEW s \in {"PAYMENT_FAILED"} \cup Announced
    PROVE  Resolve(s, "PAYMENT_CAPTURE_CONFIRMED", "payment_webhook").kind = "APPLY"
  <1>1. \E t \in FindTransition(s, "PAYMENT_CAPTURE_CONFIRMED") : MayTake(t, "payment_webhook")
    <2>1. [from |-> s, event |-> "PAYMENT_CAPTURE_CONFIRMED", to |-> "PAYMENT_CAPTURED",
           actors |-> IF s \in {"PAYMENT_PENDING", "PAYMENT_VERIFIED"} THEN BothPaymentActors
                                                                     ELSE {"payment_webhook"}]
          \in CaptureMoves
      BY DEF CaptureMoves, Moves, Announced
    <2>2. QED
      BY <2>1 DEF FindTransition, Transitions, PaymentMoves, MayTake, BothPaymentActors
  <1>2. ~AlreadyAccountedFor("PAYMENT_CAPTURE_CONFIRMED", s)
    BY DEF AlreadyAccountedFor, Announced
  <1>3. QED
    BY <1>1, <1>2 DEF Resolve

\* While no order was announced, no report of a payment can be under way.
LEMMA NoReportYet ==
    ASSUME PaymentInv, PriceInv, PriceStands, status = "INVENTORY_RESERVED", NEW c \in Calls
    PROVE  calls[c].at \notin {"Starting", "Verifying", "Reconciling"}
  BY CallOf DEF PriceInv, FirstOrderOnly, At, CallFits, PaymentInv, RowsFit

\* A reconciled capture has booked the sale.
LEMMA SettledIsBooked ==
    ASSUME PaymentInv, PaymentInv', MoneyInv, PriceInv, PriceStands, [Next]_vars,
           NEW p \in Payments, Settled(p)'
    PROVE  Booked'
  <1>1. PICK outcome \in {"PROCESSED", "MULTIPLE_CAPTURE"} : <<<<"captured", p>>, outcome>> \in ledger'
    BY DEF Settled
  <1>2. CASE Settled(p)
    BY <1>2, BookedStays DEF PriceInv, Booked
  <1>3. CASE ~Settled(p)
    <2>1. <<<<"captured", p>>, outcome>> \notin ledger
      BY <1>3 DEF Settled
    <2>2. PICK c \in Calls : CommitReconciliation(c) /\ DeliveryId(c) = <<"captured", p>>
      BY <1>1, <2>1, LedgerGrows
    <2>3. calls[c].kind = "captured" /\ Event(c) = "PAYMENT_CAPTURE_CONFIRMED"
          /\ Actor(c) = "payment_webhook"
      BY <2>2 DEF DeliveryId, Event, Actor
    <2>4. CASE Booked
      BY <2>4, BookedStays DEF Booked
    <2>5. CASE ~Booked
      <3>1. status \in {"PAYMENT_FAILED"} \cup Announced
        BY <2>2, <2>5, NoReportYet
           DEF PriceInv, PriceStates, Booked, CommitReconciliation, At
      <3>2. DeliveryId(c) \notin recorded
        BY <2>2, <2>5 DEF MoneyInv, CapturesAreMoney, CaptureIds
      <3>3. Decision(c).kind = "APPLY"
        BY <2>3, <3>1, <3>2, CaptureApplies DEF Decision, Adjudicate
      <3>4. PICK t \in Transitions : t.event = "PAYMENT_CAPTURE_CONFIRMED" /\ t.to = Decision(c).to
        BY <2>3, <3>2, <3>3, ResolveApplies DEF Decision, Adjudicate
      <3>5. Decision(c).to = "PAYMENT_CAPTURED"
        BY <3>4, PaymentEdges
      <3>6. status' \in CapturedStates
        BY <2>2, <3>5, CaptureCompletes DEF CommitReconciliation, Settle, CapturedStates
      <3>7. QED
        BY <3>6 DEF Booked
    <2>6. QED
      BY <2>4, <2>5
  <1>4. QED
    BY <1>2, <1>3

\* Rows stay as many as they are, and the acting call knows how many.
LEMMA PriceStep ==
    ASSUME PaymentInv, PriceInv, PriceStands, Grows, attempts' \in Seq(Attempts),
           Len(attempts') = Len(attempts), status' \in PriceStates,
           status' # status => attempts # <<>>,
           status' = "INVENTORY_RESERVED" => status' = status /\ sessions' = sessions,
           \A p \in Payments : Settled(p)' => Booked',
           \/ calls' = calls
           \/ \E c \in Calls, call \in CallRecords :
                 /\ calls' = [calls EXCEPT ![c] = call]
                 /\ call.retry # 0 =>
                       /\ call.retry \in 2 .. MaxAttempts /\ call.retry <= Len(attempts) + 1
                       /\ status' # "INVENTORY_RESERVED"
                 /\ call.at = "Starting" => status' # "INVENTORY_RESERVED"
    PROVE  PriceInv'
  <1>1. /\ calls \in [Calls -> CallRecords] /\ attempts \in Seq(Attempts)
        /\ DOMAIN attempts' = DOMAIN attempts
    BY DEF PaymentInv, PaymentTypeOK
  <1>2. status' # "INVENTORY_RESERVED" => attempts' # <<>>
    BY <1>1 DEF PriceInv
  <1>3. \A n \in DOMAIN attempts' : attempts'[n].retry = IF n = 1 THEN 0 ELSE n
    BY <1>1 DEF PriceInv, Grows
  <1>4. \A c \in Calls : RetryFits(calls[c])'
    <2>1. ASSUME NEW c \in Calls, calls'[c] = calls[c] PROVE RetryFits(calls[c])'
      BY <1>1, <2>1 DEF PriceInv, RetryFits
    <2>2. QED
      BY <1>1, <2>1 DEF RetryFits
  <1>5. FirstOrderOnly'
    BY <1>1 DEF PriceInv, FirstOrderOnly, At
  <1>6. AttemptLimit'
    BY DEF PriceInv, AttemptLimit
  <1>7. QED
    BY <1>2, <1>3, <1>4, <1>5, <1>6 DEF PriceInv

\* A claim makes the row its number says.
LEMMA ClaimIsNext ==
    ASSUME PaymentInv, PriceInv, PriceStands, NEW c \in Calls, ClaimAttempt(c)
    PROVE  /\ calls[c].retry = 0 => attempts = <<>>
           /\ calls[c].retry # 0 => calls[c].retry = Len(attempts) + 1
  <1>1. /\ attempts \in Seq(Attempts) /\ calls[c].quote = 1 /\ calls[c] \in CallRecords
        /\ \A n \in DOMAIN attempts : attempts[n].quote = 1
    <2>1. /\ attempts \in Seq(Attempts) /\ CallFits(calls[c]) /\ calls[c] \in CallRecords
      BY CallOf
    <2>2. \A n \in DOMAIN attempts : attempts[n].quote \in 1 .. MaxQuotes /\ attempts[n].quote <= 1
      BY RowOf DEF Attempts, PaymentInv, RowsFit, PriceStands
    <2>3. QED
      BY <2>1, <2>2, PaymentAssumption DEF ClaimAttempt, At, CallFits, PriceStands
  <1>2. \A n \in DOMAIN attempts : attempts[n].retry # calls[c].retry
    BY <1>1 DEF ClaimAttempt, ClaimedBy
  <1>3. \A n \in DOMAIN attempts : attempts[n].retry = IF n = 1 THEN 0 ELSE n
    BY DEF PriceInv
  <1>4. CASE calls[c].retry = 0
    <2>1. 1 \notin DOMAIN attempts
      BY <1>2, <1>3, <1>4
    <2>2. QED
      BY <1>1, <1>4, <2>1
  <1>5. CASE calls[c].retry # 0
    <2>1. calls[c].retry \in Nat /\ calls[c].retry >= 2 /\ calls[c].retry <= Len(attempts) + 1
      BY <1>5, PaymentAssumption DEF PriceInv, RetryFits
    <2>2. calls[c].retry \notin DOMAIN attempts
      BY <1>2, <1>3, <2>1
    <2>3. Len(attempts) \in Nat /\ DOMAIN attempts = 1 .. Len(attempts)
      BY <1>1
    <2>4. QED
      BY <1>5, <2>1, <2>2, <2>3
  <1>6. QED
    BY <1>4, <1>5

LEMMA ClaimKeepsPrice ==
    ASSUME PaymentInv, PriceInv, PriceStands, NEW c \in Calls, ClaimAttempt(c)
    PROVE  PriceInv'
  <1>1. /\ attempts \in Seq(Attempts) /\ Len(attempts) \in Nat /\ DOMAIN attempts = 1 .. Len(attempts)
        /\ calls \in [Calls -> CallRecords] /\ calls[c] \in CallRecords
    BY CallOf
  <1>2. PICK row : row = [quote |-> calls[c].quote, retry |-> calls[c].retry, status |-> "CREATED",
                          order |-> FALSE, payment |-> NoPayment]
    OBVIOUS
  <1>3. /\ attempts' = Append(attempts, row) /\ row.retry = calls[c].retry
        /\ status' = status /\ sessions' = sessions /\ ledger' = ledger
    BY <1>2 DEF ClaimAttempt, txn
  <1>4. /\ Len(attempts') = Len(attempts) + 1 /\ DOMAIN attempts' = 1 .. Len(attempts) + 1
        /\ attempts'[Len(attempts) + 1] = row /\ attempts' # <<>>
        /\ \A n \in 1 .. Len(attempts) : attempts'[n] = attempts[n]
    BY <1>1, <1>3
  <1>5. /\ calls[c].retry = 0 => Len(attempts) = 0
        /\ calls[c].retry # 0 =>
              /\ calls[c].retry = Len(attempts) + 1 /\ calls[c].retry # 1
              /\ calls[c].retry <= MaxAttempts /\ status # "INVENTORY_RESERVED"
    <2>1. calls[c].retry # 0 =>
              calls[c].retry \in 2 .. MaxAttempts /\ status # "INVENTORY_RESERVED"
      BY DEF PriceInv, RetryFits
    <2>2. QED
      BY <1>1, <2>1, ClaimIsNext, PaymentAssumption
  <1>6. PICK call : call = [calls[c] EXCEPT !.at = "Create", !.n = LastAttempt + 1]
    OBVIOUS
  <1>7. /\ calls' = [calls EXCEPT ![c] = call] /\ call.at = "Create" /\ call.retry = calls[c].retry
    BY <1>1, <1>6 DEF ClaimAttempt, CallRecords
  <1>8. \A n \in DOMAIN attempts' : attempts'[n].retry = IF n = 1 THEN 0 ELSE n
    <2>1. \A n \in 1 .. Len(attempts) : attempts'[n].retry = IF n = 1 THEN 0 ELSE n
      BY <1>1, <1>4 DEF PriceInv
    <2>2. attempts'[Len(attempts) + 1].retry = IF Len(attempts) + 1 = 1 THEN 0 ELSE Len(attempts) + 1
      BY <1>1, <1>3, <1>4, <1>5
    <2>3. QED
      BY <1>1, <1>4, <2>1, <2>2
  <1>9. AttemptLimit'
    BY <1>1, <1>4, <1>5, PaymentAssumption DEF AttemptLimit
  <1>10. \A d \in Calls : RetryFits(calls[d])'
    <2>1. ASSUME NEW d \in Calls PROVE calls'[d].retry = calls[d].retry
      BY <1>1, <1>7
    <2>2. QED
      BY <1>1, <1>3, <1>4, <2>1, PaymentAssumption DEF PriceInv, RetryFits
  <1>11. FirstOrderOnly'
    BY <1>1, <1>3, <1>4, <1>5, <1>7 DEF PriceInv, FirstOrderOnly, At
  <1>12. \A p \in Payments : Settled(p)' => Booked'
    BY <1>3 DEF PriceInv, Settled, Booked
  <1>13. QED
    BY <1>3, <1>4, <1>8, <1>9, <1>10, <1>11, <1>12 DEF PriceInv

LEMMA PriceKept ==
    PaymentInv /\ MoneyInv /\ PriceInv /\ [Next]_vars => PriceInv'
  <1> SUFFICES ASSUME PaymentInv, MoneyInv, PriceInv, [Next]_vars, PriceStands'
               PROVE  PriceInv'
    BY DEF PriceInv
  <1>1. PaymentInv' /\ Grows
    BY PaymentKept
  <1>2. PriceStands /\ attempts' \in Seq(Attempts) /\ attempts \in Seq(Attempts)
    BY <1>1, PriceStood DEF PaymentInv, PaymentTypeOK
  <1>3. \A p \in Payments : Settled(p)' => Booked'
    BY <1>1, <1>2, SettledIsBooked
  <1>4. status \in PriceStates
    BY <1>2 DEF PriceInv
  <1>5. CASE Outside
    BY <1>1, <1>2, <1>3, <1>4, <1>5, PriceStep DEF Outside, Steady
  <1>6. CASE DecideApproval \/ ReserveInventory
    BY <1>4, <1>6 DEF DecideApproval, ReserveInventory, PriceStates, Announced, CapturedStates
  <1>7. ASSUME NEW c \in Calls, ReadsOn(c) PROVE PriceInv'
    <2>1. PICK call \in CallRecords : calls' = [calls EXCEPT ![c] = call] /\ Reading(c, call)
      BY <1>7 DEF ReadsOn
    <2>2. /\ status' = status /\ attempts' = attempts
          /\ sessions' = sessions \/ status = "PAYMENT_PENDING"
      BY <1>7 DEF ReadsOn, Steady
    <2>3. RetryFits(call)
      <3>1. CASE call.retry \in {0, calls[c].retry}
        BY <1>2, <3>1 DEF PriceInv, RetryFits
      <3>2. CASE /\ call.retry = Len(attempts) + 1 /\ status \in RetryEntryStates
                 /\ Len(attempts) < MaxAttempts
        <4>1. Len(attempts) \in Nat /\ Len(attempts) >= 1
          BY <1>2, <1>4, <3>2 DEF PriceInv, RetryEntryStates
        <4>2. QED
          BY <3>2, <4>1, PaymentAssumption DEF RetryFits, RetryEntryStates
      <3>3. QED
        BY <2>1, <3>1, <3>2 DEF Reading
    <2>4. call.at = "Starting" => status # "INVENTORY_RESERVED"
      BY <2>1 DEF Reading, ClaimedStages
    <2>5. QED
      BY <1>1, <1>2, <1>3, <1>4, <2>1, <2>2, <2>3, <2>4, PriceStep DEF RetryFits
  <1>8. ASSUME NEW c \in Calls, RowWrite(c) \/ CommitCheckout(c) PROVE PriceInv'
    <2>1. /\ Idle \in CallRecords /\ Idle.retry = 0 /\ Idle.at # "Starting"
          /\ calls' = [calls EXCEPT ![c] = Idle]
      BY <1>8, IdleFits, RowWrites DEF Idle, Done, CommitCheckout
    <2>2. Len(attempts') = Len(attempts) /\ attempts # <<>>
      <3>1. calls[c].n \in DOMAIN attempts
        BY <1>8, RowWrites, CallOf DEF CommitCheckout, CallFits, At, PaidStages
      <3>2. QED
        BY <1>8, <3>1, RowWrites DEF CommitCheckout
    <2>3. status' \in PriceStates
      BY <1>4, <1>8, Moved DEF PriceStates, Announced
    <2>4. status' = "INVENTORY_RESERVED" => status' = status /\ sessions' = sessions
      <3>1. status' = "INVENTORY_RESERVED" => status' = status
        BY <1>8, Moved DEF CapturedStates
      <3>2. CommitCheckout(c) => status # "INVENTORY_RESERVED"
        BY <1>2, NoReportYet DEF CommitCheckout, At
      <3>3. QED
        BY <1>8, <3>1, <3>2, RowWrites
    <2>5. QED
      BY <1>1, <1>2, <1>3, <2>1, <2>2, <2>3, <2>4, PriceStep
  <1>9. ASSUME NEW c \in Calls, ClaimAttempt(c) PROVE PriceInv'
    BY <1>2, <1>9, ClaimKeepsPrice
  <1>10. ASSUME NEW c \in Calls, IssueQuote(c) \/ EvaluatePolicy(c) PROVE PriceInv'
    <2>1. CASE IssueQuote(c)
      <3>1. quote'.id = quote.id + 1
        BY <2>1 DEF IssueQuote
      <3>2. QED
        BY <1>2, <3>1 DEF PriceStands
    <2>2. CASE EvaluatePolicy(c)
      <3>1. PICK t \in Transitions : t.from = status /\ t.event = "POLICY_EVALUATION_COMPLETED"
        BY <2>2, ResolveApplies DEF EvaluatePolicy, Applies, Adjudicate
      <3>2. QED
        BY <1>4, <3>1, RequoteEdges DEF PriceStates, Announced, CapturedStates
    <2>3. QED
      BY <1>10, <2>1, <2>2
  <1>11. ASSUME NEW c \in Calls, RebindHold(c) PROVE PriceInv'
    <2>1. status' = status /\ attempts' = attempts /\ sessions' = sessions
      BY <1>11 DEF RebindHold, txn
    <2>2. PICK call \in CallRecords : /\ calls' = [calls EXCEPT ![c] = call]
                                      /\ call.at # "Starting" /\ call.retry \in {0, calls[c].retry}
      <3>1. CASE Done(c)
        BY <3>1, IdleFits DEF Done, Idle
      <3>2. CASE ~Done(c)
        <4>1. PICK call : call = [Idle EXCEPT !.at = "Check", !.retry = calls[c].retry]
          OBVIOUS
        <4>2. call \in CallRecords /\ call.at = "Check" /\ call.retry = calls[c].retry
          BY <4>1, CallOf, IdleFits DEF CallRecords, Stages, Idle
        <4>3. QED
          BY <1>11, <3>2, <4>1, <4>2 DEF RebindHold
      <3>3. QED
        BY <3>1, <3>2
    <2>3. RetryFits(call)
      BY <1>2, <2>2 DEF PriceInv, RetryFits
    <2>4. QED
      BY <1>1, <1>2, <1>3, <1>4, <2>1, <2>2, <2>3, PriceStep DEF RetryFits
  <1>12. QED
    BY <1>5, <1>6, <1>7, <1>8, <1>9, <1>10, <1>11, StepKinds DEF Writes, RowWrite

LEMMA PriceInvariant == Spec => [](PaymentInv /\ MoneyInv /\ PriceInv)
  <1>1. Init => PriceInv
    <2> SUFFICES ASSUME Init PROVE PriceInv
      OBVIOUS
    <2>1. /\ status = "INVENTORY_RESERVED" /\ attempts = <<>> /\ sessions = {} /\ ledger = {}
          /\ \A c \in Calls : calls[c].at = "Idle" /\ calls[c].retry = 0
      BY DEF Init, Idle
    <2>2. QED
      BY <2>1, PaymentAssumption
         DEF PriceInv, PriceStates, AttemptLimit, RetryFits, FirstOrderOnly, Settled, At
  <1>2. PriceInv /\ (PaymentInv /\ MoneyInv) /\ [Next]_vars => PriceInv'
    BY PriceKept
  <1>3. QED
    BY <1>1, <1>2, MoneyInvariant, PTL DEF Spec

\* While the first price stands, the attempts never exceed the limit, whoever
\* asks for how many retries at once: every retry claims the next number.
THEOREM AttemptsAreLimited == Spec => [](PriceStands => AttemptLimit)
  BY PriceInvariant, PTL DEF PriceInv

\* A purchase whose first price stands announces no order to pay once a capture
\* has been reconciled.
THEOREM CaptureEndsOrders == Spec /\ []PriceStands => NoOrderAfterCapture
  <1>1. ASSUME PaymentInv, PaymentInv', MoneyInv, PriceInv, PriceStands, [Next]_vars
        PROVE  [status' = "PAYMENT_ORDER_CREATED" /\ status # status' =>
                    \A p \in Payments : ~Settled(p)]_vars
    <2>1. Booked => status' \in CapturedStates
      BY <1>1, BookedStays
    <2>2. QED
      BY <1>1, <2>1 DEF PriceInv, CapturedStates
  <1>2. QED
    BY <1>1, PriceInvariant, PTL DEF Spec, NoOrderAfterCapture

-----------------------------------------------------------------------------
OneByOne == \A c, d \in Calls : c = d \/ At(c, "Idle") \/ At(d, "Idle")

CallAlone(call) ==
    /\ call.at \in OrderStages =>
          /\ status \in {"INVENTORY_RESERVED", "AUTHORIZED", "PAYMENT_FAILED"}
          /\ hold.quote = quote.id
    /\ call.at = "Verifying" => status = "PAYMENT_PENDING"
    /\ call.at = "Rebind" => call.quote = quote.id
    /\ call.at = "Reconciling" => attempts[call.n].payment \in {NoPayment, call.pay}

HoldFollowsQuote == status \in {"INVENTORY_RESERVED"} \cup Announced => hold.quote = quote.id
OrderIsPayable == status = "PAYMENT_ORDER_CREATED" => PayableAttempts # {}
BookedHasRow ==
    Booked => \E n \in DOMAIN attempts :
        /\ attempts[n].status = "CAPTURED"
        /\ attempts[n].payment # NoPayment /\ PaidWith(attempts[n].payment)

AloneInv ==
    /\ \A c \in Calls : CallAlone(calls[c])
    /\ HoldFollowsQuote /\ OrderIsPayable /\ BookedHasRow

\* A call that acts has the purchase to itself, or leaves it as it was.
LEMMA OthersIdle ==
    ASSUME PaymentInv, OneByOne, NEW c \in Calls, ~At(c, "Idle"), NEW call,
           calls' = [calls EXCEPT ![c] = call]
    PROVE  \A d \in Calls : calls'[d] = call \/ calls'[d].at = "Idle"
  BY CallOf DEF OneByOne, At

\* A reading leaves to the call that read what the others may count on.
LEMMA ReadingFits ==
    ASSUME PaymentInv, AloneInv, NEW c \in Calls, ReadsOn(c)
    PROVE  \A d \in Calls : CallAlone(calls[d])'
  <1>1. PICK call \in CallRecords : calls' = [calls EXCEPT ![c] = call] /\ Reading(c, call)
    BY DEF ReadsOn
  <1>2. /\ Steady /\ calls \in [Calls -> CallRecords] /\ \A d \in Calls : CallAlone(calls[d])
    BY CallOf DEF ReadsOn, AloneInv
  <1>3. CallAlone(call)
    <2>1. call.at \in OrderStages =>
              /\ status \in {"INVENTORY_RESERVED", "AUTHORIZED", "PAYMENT_FAILED"}
              /\ hold.quote = quote.id
      <3>1. CASE calls[c].at \in OrderStages
        BY <1>2, <3>1 DEF CallAlone
      <3>2. CASE calls[c].at \notin OrderStages
        BY <1>1, <3>2 DEF Reading, OrderStages, ClaimedStages, RequiredState
      <3>3. QED
        BY <3>1, <3>2
    <2>2. call.at \notin {"Rebind"} /\ (call.at = "Verifying" => status = "PAYMENT_PENDING")
      BY <1>1 DEF Reading, ClaimedStages
    <2>3. call.at = "Reconciling" => attempts[call.n].payment \in {NoPayment, call.pay}
      BY <1>1 DEF Reading, ClaimedStages
    <2>4. QED
      BY <2>1, <2>2, <2>3 DEF CallAlone
  <1>4. ASSUME NEW d \in Calls PROVE CallAlone(calls[d])'
    <2>1. PICK other : other = calls'[d] /\ CallAlone(other)
      BY <1>1, <1>2, <1>3
    <2>2. CallAlone(other)'
      BY <1>2, <2>1 DEF CallAlone, Steady
    <2>3. QED
      BY <2>1, <2>2
  <1>5. QED
    BY <1>4

\* What a commit of a call leaves behind, when the other calls are idle.
LEMMA RowWrittenAlone ==
    ASSUME PaymentInv, MoneyInv, AloneInv, OneByOne, NEW c \in Calls, RowWrite(c)
    PROVE  AloneInv'
  <1> DEFINE n == calls[c].n
  <1>1. /\ n \in DOMAIN attempts /\ DOMAIN attempts' = DOMAIN attempts /\ Done(c)
        /\ payments' = payments /\ quote' = quote
        /\ \A m \in DOMAIN attempts : m # n => attempts'[m] = attempts[m]
        /\ attempts[n].order => attempts'[n].order
    BY RowWrites
  <1>2. CallAlone(calls[c]) /\ calls[c].at # "Idle"
    BY DEF AloneInv, RowWrite, Finalize, RecordDefiniteFailure, ParkForReconciliation,
           CommitCallback, CommitReconciliation, At
  <1>3. \A d \in Calls : CallAlone(calls[d])'
    <2>1. \A d \in Calls : calls'[d] = Idle \/ calls'[d].at = "Idle"
      BY <1>1, <1>2, OthersIdle DEF Done, At
    <2>2. QED
      BY <2>1 DEF CallAlone, Idle, OrderStages, ClaimedStages
  <1>4. ~CommitReconciliation(c) => hold' = hold
    BY DEF RowWrite, Finalize, RecordDefiniteFailure, ParkForReconciliation, CommitCallback
  <1>5. hold'.quote = hold.quote
    <2>1. hold' \in {hold, [hold EXCEPT !.status = "COMMITTED"]}
      BY <1>4 DEF CommitReconciliation, Settle
    <2>2. QED
      BY <2>1 DEF PaymentInv, PaymentTypeOK
  <1> HIDE DEF n
  <1>6. CASE Finalize(c) \/ RecordDefiniteFailure(c) \/ ParkForReconciliation(c)
    <2>1. /\ status \in {"INVENTORY_RESERVED", "AUTHORIZED", "PAYMENT_FAILED"}
          /\ hold.quote = quote.id
      BY <1>2, <1>6 DEF CallAlone, Finalize, RecordDefiniteFailure, ParkForReconciliation, At,
                        OrderStages, ClaimedStages
    <2>2. ~CommitReconciliation(c) /\ ~CommitCallback(c) /\ ~CommitCheckout(c)
      BY <1>6 DEF Finalize, RecordDefiniteFailure, ParkForReconciliation, At,
                  CommitReconciliation, CommitCallback, CommitCheckout
    <2>3. \/ status' = status
          \/ Finalize(c) /\ status' = "PAYMENT_ORDER_CREATED"
      BY <2>2, Moved
    <2>4. ~(status' \in CapturedStates) /\ HoldFollowsQuote'
      BY <1>1, <1>5, <2>1, <2>3 DEF HoldFollowsQuote, CapturedStates
    <2>5. status' = "PAYMENT_ORDER_CREATED" => n \in PayableAttempts'
      BY <1>1, <2>1, <2>3, RowWrites DEF PayableAttempts, Ordered, n
    <2>6. OrderIsPayable' /\ BookedHasRow'
      BY <2>4, <2>5 DEF OrderIsPayable, BookedHasRow, Booked
    <2>7. QED
      BY <1>3, <2>4, <2>6 DEF AloneInv
  <1>7. CASE CommitCallback(c)
    <2>1. status = "PAYMENT_PENDING" /\ calls[c].at = "Verifying"
      BY <1>2, <1>7 DEF CallAlone, CommitCallback, At
    <2>2. status' \in {"PAYMENT_PENDING", "PAYMENT_VERIFIED"}
      BY <1>7, <2>1, Moved
         DEF CommitCallback, At, Finalize, CommitCheckout, CommitReconciliation
    <2>3. HoldFollowsQuote'
      BY <1>1, <1>5, <2>1 DEF AloneInv, HoldFollowsQuote, Announced
    <2>4. OrderIsPayable' /\ BookedHasRow'
      BY <2>2 DEF OrderIsPayable, BookedHasRow, Booked, CapturedStates
    <2>5. QED
      BY <1>3, <2>3, <2>4 DEF AloneInv
  <1>8. CASE CommitReconciliation(c)
    <2> DEFINE capture == calls[c].kind # "failed"
    <2>1. /\ capture => PaidWith(calls[c].pay) /\ calls[c].pay # NoPayment
          /\ DoubleCapture(c) => capture /\ Booked
          /\ \/ /\ status' = status
                /\ attempts'[n].status \in {attempts[n].status}
                      \cup (IF DoubleCapture(c) THEN {"CAPTURED"} ELSE {})
             \/ status' = "PAYMENT_FAILED"
             \/ capture /\ status' \in CapturedStates /\ attempts'[n].status = "CAPTURED"
      <3>1. DoubleCapture(c) => capture /\ Booked
        BY DEF DoubleCapture, MoneyInv, CapturedAttemptMeansPaid, SomeAttempt, Booked
      <3>2. capture => DeliveryId(c) \in CaptureIds /\ PaidWith(calls[c].pay)
        BY <1>8, Reconciled
      <3>3. QED
        BY <1>8, <3>1, <3>2, Reconciled, PaymentAssumption DEF n, CaptureIds, DeliveryId
    <2>2. attempts'[n].payment = calls[c].pay /\ attempts'[n].order = attempts[n].order
      <3>1. ~Finalize(c) /\ ~At(c, "ParkOrder") /\ attempts[n].order \in BOOLEAN
        BY <1>1, <1>8, RowOf DEF CommitReconciliation, Finalize, At, Attempts
      <3>2. QED
        BY <1>8, <3>1, RowWrites DEF n
    <2>3. attempts[n].payment \in {NoPayment, calls[c].pay}
      BY <1>2, <1>8 DEF CallAlone, CommitReconciliation, At, n
    <2> HIDE DEF capture
    <2>4. HoldFollowsQuote'
      BY <1>1, <1>5, <2>1 DEF AloneInv, HoldFollowsQuote, Announced, CapturedStates
    <2>5. OrderIsPayable'
      <3>1. ASSUME status' = "PAYMENT_ORDER_CREATED" PROVE PayableAttempts' # {}
        <4>1. status = "PAYMENT_ORDER_CREATED" /\ attempts'[n].status = attempts[n].status
          BY <2>1, <3>1 DEF Booked, CapturedStates
        <4>2. PICK m \in PayableAttempts : TRUE
          BY <4>1 DEF AloneInv, OrderIsPayable
        <4>3. m \in PayableAttempts'
          BY <1>1, <2>2, <4>1, <4>2 DEF PayableAttempts, Ordered
        <4>4. QED
          BY <4>3
      <3>2. QED
        BY <3>1 DEF OrderIsPayable
    <2>6. BookedHasRow'
      <3>1. ASSUME NEW m \in DOMAIN attempts, attempts'[m].status = "CAPTURED",
                   attempts'[m].payment # NoPayment, PaidWith(attempts'[m].payment)
            PROVE  BookedHasRow'
        BY <1>1, <3>1 DEF BookedHasRow, PaidWith
      <3>2. CASE capture /\ attempts'[n].status = "CAPTURED"
        BY <1>1, <2>1, <2>2, <3>1, <3>2
      <3>3. CASE ~(capture /\ attempts'[n].status = "CAPTURED") /\ status' \in CapturedStates
        <4>1. status' = status /\ attempts'[n].status = attempts[n].status
          BY <2>1, <3>3 DEF CapturedStates
        <4>2. PICK m \in DOMAIN attempts :
                  /\ attempts[m].status = "CAPTURED"
                  /\ attempts[m].payment # NoPayment /\ PaidWith(attempts[m].payment)
          BY <3>3, <4>1 DEF AloneInv, BookedHasRow, Booked
        <4>3. attempts'[m].payment = attempts[m].payment /\ attempts'[m].status = "CAPTURED"
          BY <1>1, <2>2, <2>3, <4>1, <4>2
        <4>4. QED
          BY <3>1, <4>2, <4>3
      <3>4. CASE ~(status' \in CapturedStates)
        BY <3>4 DEF BookedHasRow, Booked
      <3>5. QED
        BY <3>2, <3>3, <3>4
    <2>7. QED
      BY <1>3, <2>4, <2>5, <2>6 DEF AloneInv
  <1>9. QED
    BY <1>6, <1>7, <1>8 DEF RowWrite

\* The rows an order or a refund would be looked for in are still there.
LEMMA RowsStay ==
    ASSUME PaymentInv, AloneInv, Grows, status' = status,
           \A n \in DOMAIN attempts : attempts'[n] = attempts[n]
    PROVE  OrderIsPayable' /\ BookedHasRow'
  <1>1. PayableAttempts \subseteq PayableAttempts'
    BY DEF PayableAttempts, Ordered, Grows
  <1>2. OrderIsPayable'
    BY <1>1 DEF AloneInv, OrderIsPayable
  <1>3. ASSUME Booked PROVE BookedHasRow'
    <2>1. PICK n \in DOMAIN attempts :
              /\ attempts[n].status = "CAPTURED"
              /\ attempts[n].payment # NoPayment /\ PaidWith(attempts[n].payment)
      BY <1>3 DEF AloneInv, BookedHasRow
    <2>2. attempts[n].payment \in Payments
      BY <2>1, RowOf DEF Attempts
    <2>3. payments'[attempts[n].payment].state = "captured"
      BY <2>1, <2>2 DEF Grows, PaidWith
    <2>4. n \in DOMAIN attempts' /\ attempts'[n] = attempts[n]
      BY DEF Grows
    <2>5. QED
      BY <2>1, <2>3, <2>4 DEF BookedHasRow, PaidWith
  <1>4. QED
    BY <1>2, <1>3 DEF BookedHasRow, Booked

LEMMA AloneKept ==
    PaymentInv /\ MoneyInv /\ AloneInv /\ OneByOne /\ [Next]_vars => AloneInv'
  <1> SUFFICES ASSUME PaymentInv, MoneyInv, AloneInv, OneByOne, [Next]_vars PROVE AloneInv'
    OBVIOUS
  <1>1. PaymentInv' /\ Grows
    BY PaymentKept
  <1>2. ASSUME Steady PROVE HoldFollowsQuote' /\ OrderIsPayable' /\ BookedHasRow'
    BY <1>1, <1>2, RowsStay DEF Steady, AloneInv, HoldFollowsQuote
  <1>3. CASE Outside
    <2>1. \A d \in Calls : CallAlone(calls[d])'
      BY <1>3 DEF Outside, Steady, AloneInv, CallAlone
    <2>2. QED
      BY <1>2, <1>3, <2>1 DEF Outside, AloneInv
  <1>4. ASSUME NEW c \in Calls, ReadsOn(c) PROVE AloneInv'
    BY <1>2, <1>4, ReadingFits DEF ReadsOn, AloneInv
  <1>5. CASE DecideApproval
    <2>1. status' \in {"APPROVAL_REQUIRED", "AUTHORIZED", "CANCELLED"}
      BY <1>5, ResolveMoves, RequoteEdges DEF DecideApproval
    <2>2. /\ status = "APPROVAL_REQUIRED" /\ calls' = calls /\ attempts' = attempts
          /\ quote' = quote
      BY <1>5 DEF DecideApproval
    <2>3. \A d \in Calls : CallAlone(calls[d])'
      BY <2>2 DEF AloneInv, CallAlone
    <2>4. HoldFollowsQuote' /\ OrderIsPayable' /\ BookedHasRow'
      BY <2>1 DEF HoldFollowsQuote, OrderIsPayable, BookedHasRow, Announced, Booked, CapturedStates
    <2>5. QED
      BY <2>3, <2>4 DEF AloneInv
  <1>6. CASE ReserveInventory
    <2>1. status' \in {"AUTHORIZED", "INVENTORY_RESERVED"}
      BY <1>6, ResolveMoves, RequoteEdges DEF ReserveInventory
    <2>2. /\ status = "AUTHORIZED" /\ calls' = calls /\ attempts' = attempts
          /\ quote' = quote /\ hold'.quote = quote'.id
      BY <1>6 DEF ReserveInventory, terms
    <2>3. \A d \in Calls : CallAlone(calls[d])'
      BY <2>1, <2>2 DEF AloneInv, CallAlone
    <2>4. HoldFollowsQuote' /\ OrderIsPayable' /\ BookedHasRow'
      BY <2>1, <2>2 DEF HoldFollowsQuote, OrderIsPayable, BookedHasRow, Booked, CapturedStates
    <2>5. QED
      BY <2>3, <2>4 DEF AloneInv
  <1>7. ASSUME NEW c \in Calls, RowWrite(c) PROVE AloneInv'
    BY <1>7, RowWrittenAlone
  <1>8. ASSUME NEW c \in Calls, NEW call, calls' = [calls EXCEPT ![c] = call], ~At(c, "Idle"),
               CallAlone(call)'
        PROVE  \A d \in Calls : CallAlone(calls[d])'
    <2>1. ASSUME NEW d \in Calls PROVE CallAlone(calls[d])'
      <3>1. CASE calls'[d] = call
        BY <1>8, <3>1
      <3>2. CASE calls'[d].at = "Idle"
        BY <3>2 DEF CallAlone, OrderStages, ClaimedStages
      <3>3. QED
        BY <1>8, <3>1, <3>2, OthersIdle
    <2>2. QED
      BY <2>1
  <1>9. ASSUME NEW c \in Calls, CommitCheckout(c) PROVE AloneInv'
    <2>1. /\ ~At(c, "Idle") /\ Done(c) /\ attempts' = attempts /\ quote' = quote /\ hold' = hold
      BY <1>9 DEF CommitCheckout, At, terms
    <2>2. \A d \in Calls : CallAlone(calls[d])'
      <3>1. CallAlone(Idle)'
        BY DEF CallAlone, Idle, OrderStages, ClaimedStages
      <3>2. QED
        BY <1>8, <2>1, <3>1 DEF Done
    <2>3. \/ status' = status
          \/ status = "PAYMENT_ORDER_CREATED" /\ status' = "PAYMENT_PENDING"
      BY <1>9, Moved DEF CommitCheckout, At, Finalize, CommitCallback, CommitReconciliation
    <2>4. HoldFollowsQuote' /\ OrderIsPayable' /\ BookedHasRow'
      <3>1. CASE status' = status
        BY <1>2, <2>1, <3>1 DEF Steady
      <3>2. CASE status = "PAYMENT_ORDER_CREATED" /\ status' = "PAYMENT_PENDING"
        BY <2>1, <3>2 DEF AloneInv, HoldFollowsQuote, OrderIsPayable, BookedHasRow, Announced,
                          Booked, CapturedStates
      <3>3. QED
        BY <2>3, <3>1, <3>2
    <2>5. QED
      BY <2>2, <2>4 DEF AloneInv
  <1>10. ASSUME NEW c \in Calls, ClaimAttempt(c) PROVE AloneInv'
    <2>1. /\ ~At(c, "Idle") /\ calls[c].at = "Claim"
          /\ status' = status /\ quote' = quote /\ hold' = hold
      BY <1>10 DEF ClaimAttempt, At, terms, txn
    <2>2. PICK call : call = [calls[c] EXCEPT !.at = "Create", !.n = LastAttempt + 1]
      OBVIOUS
    <2>3. calls' = [calls EXCEPT ![c] = call] /\ call.at = "Create"
      BY <1>10, <2>2, CallOf DEF ClaimAttempt, CallRecords
    <2>4. CallAlone(call)'
      BY <2>1, <2>3 DEF CallAlone, AloneInv, OrderStages, ClaimedStages
    <2>5. \A n \in DOMAIN attempts : attempts'[n] = attempts[n]
      <3>1. PICK row : attempts' = Append(attempts, row)
        BY <1>10 DEF ClaimAttempt
      <3>2. attempts \in Seq(Attempts)
        BY CallOf
      <3>3. QED
        BY <3>1, <3>2
    <2>6. HoldFollowsQuote' /\ OrderIsPayable' /\ BookedHasRow'
      BY <1>1, <2>1, <2>5, RowsStay DEF AloneInv, HoldFollowsQuote
    <2>7. QED
      BY <1>8, <2>1, <2>3, <2>4, <2>6 DEF AloneInv
  <1>11. ASSUME NEW c \in Calls, IssueQuote(c) PROVE AloneInv'
    <2>1. ~At(c, "Idle") /\ status' = "QUOTE_CREATED"
      <3>1. Applies("QUOTE_ISSUED", "quote_service", CycleKey(c))
            /\ ApplyEvent("QUOTE_ISSUED", "quote_service", CycleKey(c))
        BY <1>11 DEF IssueQuote
      <3>2. PICK t \in Transitions : t.event = "QUOTE_ISSUED" /\ t.to = status'
        BY <3>1, ResolveApplies DEF Applies, ApplyEvent, Adjudicate
      <3>3. QED
        BY <1>11, <3>2, RequoteEdges DEF IssueQuote, At
    <2>2. PICK call : call = [calls[c] EXCEPT !.at = "Evaluate", !.quote = quote.id + 1]
      OBVIOUS
    <2>3. calls' = [calls EXCEPT ![c] = call] /\ call.at = "Evaluate"
      BY <1>11, <2>2, CallOf DEF IssueQuote, CallRecords
    <2>4. CallAlone(call)'
      BY <2>3 DEF CallAlone, OrderStages, ClaimedStages
    <2>5. HoldFollowsQuote' /\ OrderIsPayable' /\ BookedHasRow'
      BY <2>1 DEF HoldFollowsQuote, OrderIsPayable, BookedHasRow, Announced, Booked, CapturedStates
    <2>6. QED
      BY <1>8, <2>1, <2>3, <2>4, <2>5 DEF AloneInv
  <1>12. ASSUME NEW c \in Calls, EvaluatePolicy(c) PROVE AloneInv'
    <2>1. ~At(c, "Idle") /\ calls[c].quote = quote.id /\ quote' = quote
      BY <1>12 DEF EvaluatePolicy, At
    <2>2. status' \in {"POLICY_EVALUATED", "AUTHORIZED", "APPROVAL_REQUIRED", "BLOCKED"}
      BY <1>12, ResolveMoves, RequoteEdges DEF EvaluatePolicy
    <2>3. PICK call : calls' = [calls EXCEPT ![c] = call] /\ call.at \in {"Rebind", "Release"}
                      /\ call.quote = quote.id
      <3>1. PICK allowed : allowed = [calls[c] EXCEPT !.at = "Rebind", !.kind = "ALLOWED"]
        OBVIOUS
      <3>2. PICK asked : asked = [calls[c] EXCEPT !.at = "Rebind", !.kind = "APPROVAL_REQUIRED"]
        OBVIOUS
      <3>3. PICK blocked : blocked = [calls[c] EXCEPT !.at = "Release"]
        OBVIOUS
      <3>4. /\ allowed.at = "Rebind" /\ asked.at = "Rebind" /\ blocked.at = "Release"
            /\ allowed.quote = quote.id /\ asked.quote = quote.id /\ blocked.quote = quote.id
        BY <2>1, <3>1, <3>2, <3>3, CallOf DEF CallRecords
      <3>5. calls' \in {[calls EXCEPT ![c] = allowed], [calls EXCEPT ![c] = asked],
                        [calls EXCEPT ![c] = blocked]}
        BY <1>12, <3>1, <3>2, <3>3, CallOf DEF EvaluatePolicy, Goto
      <3>6. QED
        BY <3>4, <3>5
    <2>4. CallAlone(call)'
      BY <2>1, <2>3 DEF CallAlone, OrderStages, ClaimedStages
    <2>5. HoldFollowsQuote' /\ OrderIsPayable' /\ BookedHasRow'
      BY <2>2 DEF HoldFollowsQuote, OrderIsPayable, BookedHasRow, Announced, Booked, CapturedStates
    <2>6. QED
      BY <1>8, <2>1, <2>3, <2>4, <2>5 DEF AloneInv
  <1>13. ASSUME NEW c \in Calls, RebindHold(c) PROVE AloneInv'
    <2>1. /\ ~At(c, "Idle") /\ status' = status /\ attempts' = attempts /\ quote' = quote
          /\ calls[c].at = "Rebind"
      BY <1>13 DEF RebindHold, At, txn, terms
    <2>2. hold'.quote \in {hold.quote, quote.id}
      <3>1. calls[c].quote = quote.id
        BY <2>1 DEF AloneInv, CallAlone
      <3>2. hold' \in {hold, [hold EXCEPT !.quote = quote.id]}
        BY <1>13, <3>1 DEF RebindHold
      <3>3. QED
        BY <3>2 DEF PaymentInv, PaymentTypeOK
    <2>3. PICK call : calls' = [calls EXCEPT ![c] = call] /\ call.at \in {"Idle", "Check"}
      <3>1. PICK check : check = [Idle EXCEPT !.at = "Check", !.retry = calls[c].retry]
        OBVIOUS
      <3>2. check.at = "Check" /\ Idle.at = "Idle"
        BY <3>1 DEF Idle
      <3>3. calls' \in {[calls EXCEPT ![c] = check], [calls EXCEPT ![c] = Idle]}
        BY <1>13, <3>1 DEF RebindHold, Done
      <3>4. QED
        BY <3>2, <3>3
    <2>4. CallAlone(call)'
      BY <2>3 DEF CallAlone, OrderStages, ClaimedStages
    <2>5. HoldFollowsQuote'
      BY <2>1, <2>2 DEF AloneInv, HoldFollowsQuote
    <2>6. OrderIsPayable' /\ BookedHasRow'
      BY <1>1, <2>1, RowsStay
    <2>7. QED
      BY <1>8, <2>1, <2>3, <2>4, <2>5, <2>6 DEF AloneInv
  <1>14. QED
    BY <1>3, <1>4, <1>5, <1>6, <1>7, <1>9, <1>10, <1>11, <1>12, <1>13, StepKinds
       DEF Writes, RowWrite

LEMMA AloneInvariant == Spec /\ []OneByOne => [](PaymentInv /\ MoneyInv /\ AloneInv)
  <1>1. Init => AloneInv
    <2> SUFFICES ASSUME Init PROVE AloneInv
      OBVIOUS
    <2>1. /\ status = "INVENTORY_RESERVED" /\ hold.quote = quote.id
          /\ \A c \in Calls : calls[c].at = "Idle"
      BY DEF Init, Idle
    <2>2. QED
      BY <2>1 DEF AloneInv, CallAlone, HoldFollowsQuote, OrderIsPayable, BookedHasRow, Booked,
                  CapturedStates, OrderStages, ClaimedStages
  <1>2. AloneInv /\ (PaymentInv /\ MoneyInv) /\ OneByOne /\ [Next]_vars => AloneInv'
    BY AloneKept
  <1>3. QED
    BY <1>1, <1>2, MoneyInvariant, PTL DEF Spec

\* What the page's action card may offer.
LEMMA OfferMeans ==
    ASSUME NEW s
    PROVE  /\ Offer(s) = "PAY" =>
                 s \in {"INVENTORY_RESERVED", "PAYMENT_ORDER_CREATED"} /\ PaymentPreparable(s)
           /\ Offer(s) = "REFUND" => s = "COMPLETED"
  <1> DEFINE cases ==
          << <<s = "APPROVAL_REQUIRED", "DECIDE">>,
             <<s = "AUTHORIZED" /\ HoldIsLive, "RETRY">>,
             <<s = "AUTHORIZED", "RESERVE">>,
             <<s \in {"INVENTORY_RESERVED", "PAYMENT_ORDER_CREATED"} /\ PaymentPreparable(s), "PAY">>,
             <<s = "PAYMENT_FAILED" /\ RetryAvailable, "RETRY">>,
             <<s = "COMPLETED", "REFUND">>,
             <<TRUE, "NONE">> >>
  <1>1. DOMAIN cases = 1 .. 7 /\ cases[7][1] /\ 7 \in Nat /\ 7 \in 1 .. 7
    OBVIOUS
  <1>2. Offer(s) = FirstOf(cases)
    BY DEF Offer
  <1>3. /\ cases[4][1] =>
              s \in {"INVENTORY_RESERVED", "PAYMENT_ORDER_CREATED"} /\ PaymentPreparable(s)
        /\ cases[6][1] => s = "COMPLETED"
    OBVIOUS
  <1>4. /\ cases[1][2] = "DECIDE" /\ cases[2][2] = "RETRY" /\ cases[3][2] = "RESERVE"
        /\ cases[4][2] = "PAY" /\ cases[5][2] = "RETRY" /\ cases[6][2] = "REFUND"
        /\ cases[7][2] = "NONE"
    OBVIOUS
  <1> HIDE DEF cases
  <1>5. PICK i \in 1 .. 7 : cases[i][1] /\ FirstOf(cases) = cases[i][2]
    BY <1>1, FirstCase
  <1>6. QED
    BY <1>2, <1>3, <1>4, <1>5

\* When calls run one after the other, the hold is at the price being paid and
\* a buyer who is offered Pay, with the authority still given, can pay.
THEOREM PayIsHonoured == Spec /\ []OneByOne => []PayOfferIsHonoured
  <1>1. PaymentInv /\ AloneInv => PayOfferIsHonoured
    <2> SUFFICES ASSUME PaymentInv, AloneInv PROVE PayOfferIsHonoured
      OBVIOUS
    <2>1. HoldPricedByQuote
      BY DEF AloneInv, HoldFollowsQuote, Announced, HoldPricedByQuote
    <2>2. ASSUME Offer(status) = "PAY", authorized PROVE PayPressed
      <3>1. /\ status \in {"INVENTORY_RESERVED", "PAYMENT_ORDER_CREATED"}
            /\ HoldIsLive /\ (status = "PAYMENT_ORDER_CREATED" \/ quote.usable)
        BY <2>2, OfferMeans DEF PaymentPreparable
      <3>2. CASE status = "INVENTORY_RESERVED"
        BY <2>2, <3>1, <3>2
           DEF PayPressed, OrderAnswered, PreconditionsHold, RequiredState, HoldPricesQuote,
               AloneInv, HoldFollowsQuote
      <3>3. CASE status = "PAYMENT_ORDER_CREATED"
        <4>1. PayableAttempts # {} /\ Ordered # {}
          BY <3>3 DEF AloneInv, OrderIsPayable, PayableAttempts
        <4>2. QED
          BY <3>1, <3>3, <4>1 DEF PayPressed, OrderAnswered, SettledOrder, CheckoutAnswered
      <3>4. QED
        BY <3>1, <3>2, <3>3
    <2>3. QED
      BY <2>1, <2>2 DEF PayOfferIsHonoured
  <1>2. QED
    BY <1>1, AloneInvariant, PTL

\* When calls run one after the other, what the attempt rows say of money is
\* true, and a completed purchase finds the payment its refund returns.
THEOREM RowsTellTheMoney == Spec /\ []OneByOne => []AttemptsTellTheMoney
  <1>1. PaymentInv /\ MoneyInv /\ AloneInv => AttemptsTellTheMoney
    <2> SUFFICES ASSUME PaymentInv, MoneyInv, AloneInv PROVE AttemptsTellTheMoney
      OBVIOUS
    <2>1. RefundOfferIsHonoured
      BY OfferMeans DEF RefundOfferIsHonoured, RefundPressed, AloneInv, BookedHasRow, Booked,
                        CapturedStates
    <2>2. QED
      BY <2>1 DEF AttemptsTellTheMoney, PaymentInv, MoneyInv
  <1>2. QED
    BY <1>1, AloneInvariant, PTL

-----------------------------------------------------------------------------
Over == {"FAILED", "CAPTURED"}

AttemptAlone(call) ==
    /\ call.at \in RetryStages /\ call.retry # 0 =>
          /\ call.retry = Len(attempts) + 1
          /\ \A n \in DOMAIN attempts : attempts[n].status = "FAILED"
    /\ call.at \in OrderStages /\ call.retry = 0 => status = "INVENTORY_RESERVED"
    /\ call.at \in ClaimedStages =>
          \A n \in DOMAIN attempts : n # call.n => attempts[n].status = "FAILED"
    /\ call.at \in UnorderedStages => ~attempts[call.n].order
    /\ call.at = "Verifying" => attempts[call.n].status \notin Over

AttemptInv ==
    PriceStands =>
        /\ \A c \in Calls : AttemptAlone(calls[c])
        /\ \A m, n \in DOMAIN attempts :
              attempts[m].status \notin Over /\ attempts[n].status \notin Over => m = n
        /\ \A n \in Ordered : attempts[n].status \in Over => attempts[n].payment # NoPayment
        /\ \A p \in Payments : Settled(p) =>
              payments[p].order \in DOMAIN attempts /\ attempts[payments[p].order].status = "CAPTURED"
        /\ DoubleCaptureFlagged

\* What a call is about to work on, as it reads.
LEMMA ReadingOfAttempts ==
    ASSUME PaymentInv, PaymentInv', PriceInv, AttemptInv, PriceStands, NEW c \in Calls, ReadsOn(c)
    PROVE  \A d \in Calls : AttemptAlone(calls[d])'
  <1>1. PICK call \in CallRecords : calls' = [calls EXCEPT ![c] = call] /\ Reading(c, call)
    BY DEF ReadsOn
  <1>2. /\ Steady /\ calls \in [Calls -> CallRecords] /\ attempts \in Seq(Attempts)
        /\ \A d \in Calls : AttemptAlone(calls[d])
    BY CallOf DEF ReadsOn, AttemptInv
  <1>3. AttemptAlone(call)
    <2>1. call.at \in RetryStages /\ call.retry # 0 =>
              /\ call.retry = Len(attempts) + 1
              /\ \A n \in DOMAIN attempts : attempts[n].status = "FAILED"
      BY <1>1, <1>2 DEF Reading, AttemptAlone, RetryStages, ClaimedStages
    <2>2. call.at \in OrderStages /\ call.retry = 0 => status = "INVENTORY_RESERVED"
      BY <1>1, <1>2 DEF Reading, AttemptAlone, OrderStages, ClaimedStages, RequiredState
    <2>3. call.at \in ClaimedStages =>
              \A n \in DOMAIN attempts : n # call.n => attempts[n].status = "FAILED"
      <3>1. CASE calls[c].at = "Claim" /\ call.at \in ClaimedStages
        <4>1. call.retry = calls[c].retry /\ call.n \in DOMAIN attempts
          BY <1>1, <3>1 DEF Reading, ClaimedStages, ClaimedBy
        <4>2. CASE calls[c].retry = 0
          <5>1. Len(attempts) <= 1 /\ DOMAIN attempts = 1 .. Len(attempts) /\ Len(attempts) \in Nat
            BY <1>2, <3>1, <4>2 DEF AttemptAlone, OrderStages, PriceInv, FirstOrderOnly
          <5>2. QED
            BY <4>1, <5>1
        <4>3. CASE calls[c].retry # 0
          BY <1>2, <3>1, <4>3 DEF AttemptAlone, RetryStages
        <4>4. QED
          BY <4>2, <4>3
      <3>2. CASE calls[c].at # "Claim" /\ call.at \in ClaimedStages
        <4>1. calls[c].at \in ClaimedStages /\ call.n = calls[c].n
          BY <1>1, <3>2 DEF Reading, ClaimedStages
        <4>2. QED
          BY <1>2, <4>1 DEF AttemptAlone
      <3>3. QED
        BY <3>1, <3>2
    <2>4. call.at \in UnorderedStages => ~attempts[call.n].order
      BY <1>1, <1>2 DEF Reading, AttemptAlone, UnorderedStages, ClaimedStages
    <2>5. call.at = "Verifying" => attempts[call.n].status \notin Over
      <3>1. ASSUME call.at = "Verifying", call \in CallRecords
            PROVE  attempts[call.n].order /\ attempts[call.n].payment = NoPayment
        BY <1>1, <3>1 DEF Reading, ClaimedStages
      <3>2. call.at = "Verifying" => call.n \in DOMAIN attempts
        <4>1. calls'[c] = call /\ attempts' = attempts /\ CallsFit'
          BY <1>1, <1>2 DEF PaymentInv, Steady
        <4>2. QED
          BY <4>1 DEF CallsFit, CallFits, PaidStages
      <3>3. QED
        BY <1>1, <3>1, <3>2 DEF AttemptInv, Ordered
    <2>6. QED
      BY <2>1, <2>2, <2>3, <2>4, <2>5 DEF AttemptAlone
  <1>4. ASSUME NEW d \in Calls PROVE AttemptAlone(calls[d])'
    <2>1. PICK other : other = calls'[d] /\ AttemptAlone(other)
      BY <1>1, <1>2, <1>3
    <2>2. AttemptAlone(other)'
      BY <1>2, <2>1 DEF AttemptAlone, Steady
    <2>3. QED
      BY <2>1, <2>2
  <1>5. QED
    BY <1>4

\* A settled payment is a captured row, and no row is captured before the sale.
LEMMA NoneSettledYet ==
    ASSUME PaymentInv, MoneyInv, PriceInv, PriceStands, AttemptInv, ~Booked
    PROVE  /\ \A n \in DOMAIN attempts : attempts[n].status # "CAPTURED"
           /\ \A p \in Payments : ~Settled(p)
  BY DEF MoneyInv, CapturedAttemptMeansPaid, SomeAttempt, Booked, PriceInv

\* A step that reconciles nothing settles nothing.
LEMMA SettledBefore ==
    ASSUME PaymentInv, [Next]_vars, \A c \in Calls : ~CommitReconciliation(c)
    PROVE  \A p \in Payments : Settled(p)' => Settled(p)
  <1>1. ASSUME NEW p \in Payments, NEW outcome \in {"PROCESSED", "MULTIPLE_CAPTURE"},
               <<<<"captured", p>>, outcome>> \in ledger'
        PROVE  <<<<"captured", p>>, outcome>> \in ledger
    BY <1>1, LedgerGrows
  <1>2. QED
    BY <1>1 DEF Settled

\* Such a step keeps what is known of settled payments if it keeps their rows.
LEMMA SettledRowsStay ==
    ASSUME PaymentInv, AttemptInv, PriceStands, Grows, [Next]_vars,
           \A c \in Calls : ~CommitReconciliation(c),
           \A n \in DOMAIN attempts :
              attempts[n].status = "CAPTURED" => attempts'[n].status = "CAPTURED"
    PROVE  /\ \A p \in Payments : Settled(p)' =>
                 /\ payments'[p].order \in DOMAIN attempts'
                 /\ attempts'[payments'[p].order].status = "CAPTURED"
           /\ DoubleCaptureFlagged'
  <1>1. ASSUME NEW p \in Payments, Settled(p)'
        PROVE  /\ Settled(p) /\ payments'[p].order = payments[p].order
               /\ payments[p].order \in DOMAIN attempts
               /\ attempts[payments[p].order].status = "CAPTURED"
    <2>1. /\ Settled(p) /\ payments[p].order \in DOMAIN attempts
          /\ attempts[payments[p].order].status = "CAPTURED"
      BY <1>1, SettledBefore DEF AttemptInv
    <2>2. payments[p].state # "none"
      BY <2>1, RowOf, PaymentAssumption DEF PaymentInv, RowsFit
    <2>3. QED
      BY <2>1, <2>2 DEF Grows
  <1>2. DoubleCaptureFlagged'
    BY <1>1, LedgerGrows DEF AttemptInv, DoubleCaptureFlagged
  <1>3. QED
    BY <1>1, <1>2 DEF Grows

\* Reconciling a report, when nobody else is at work.
LEMMA ReportKeepsAttempts ==
    ASSUME PaymentInv, PaymentInv', Grows, MoneyInv, PriceInv, AloneInv, AttemptInv, PriceStands,
           [Next]_vars, NEW c \in Calls, CommitReconciliation(c)
    PROVE  /\ \A p \in Payments : Settled(p)' =>
                 /\ payments'[p].order \in DOMAIN attempts'
                 /\ attempts'[payments'[p].order].status = "CAPTURED"
           /\ DoubleCaptureFlagged'
  <1> DEFINE n == calls[c].n
             pay == calls[c].pay
             capture == calls[c].kind # "failed"
  <1>1. /\ n \in DOMAIN attempts /\ payments[pay].order = n /\ payments' = payments
        /\ DOMAIN attempts' = DOMAIN attempts
        /\ \A m \in DOMAIN attempts : m # n => attempts'[m] = attempts[m]
        /\ \/ /\ status' = status
              /\ attempts'[n].status \in {attempts[n].status}
                    \cup (IF DoubleCapture(c) THEN {"CAPTURED"} ELSE {})
           \/ ~Booked
    BY Reconciled DEF CommitReconciliation, provider
  <1>2. DoubleCapture(c) => attempts'[n].status = "CAPTURED" /\ capture
    <2>1. ASSUME DoubleCapture(c) PROVE SettledAttempt(c).status = "CAPTURED"
      <3>1. attempts[n] \in Attempts /\ capture
        BY <1>1, <2>1, RowOf DEF DoubleCapture
      <3>2. PICK s : SettledAttempt(c) = [attempts[n] EXCEPT !.payment = pay, !.status = s]
                     /\ s = "CAPTURED"
        BY <2>1, <3>1 DEF SettledAttempt
      <3>3. QED
        BY <3>1, <3>2 DEF Attempts
    <2>2. attempts'[n] = SettledAttempt(c)
      BY <1>1, CallOf DEF CommitReconciliation
    <2>3. QED
      BY <2>1, <2>2 DEF DoubleCapture
  <1>3. /\ ledger \subseteq ledger'
        /\ DoubleCapture(c) => \E e \in ledger' : e[2] = "MULTIPLE_CAPTURE"
        /\ \A p \in Payments : Settled(p)' /\ ~Settled(p) => p = pay /\ calls[c].kind = "captured"
    <2>1. ledger' = ledger \cup
              {<<DeliveryId(c), IF DoubleCapture(c) THEN "MULTIPLE_CAPTURE" ELSE "PROCESSED">>}
      BY DEF CommitReconciliation
    <2>2. ASSUME NEW p \in Payments, NEW outcome, <<<<"captured", p>>, outcome>> \in ledger',
                 <<<<"captured", p>>, outcome>> \notin ledger
          PROVE  p = pay /\ calls[c].kind = "captured"
      BY <2>1, <2>2 DEF DeliveryId
    <2>3. ASSUME DoubleCapture(c) PROVE \E e \in ledger' : e[2] = "MULTIPLE_CAPTURE"
      <3>1. PICK e : e = <<DeliveryId(c), "MULTIPLE_CAPTURE">>
        OBVIOUS
      <3>2. e \in ledger' /\ e[2] = "MULTIPLE_CAPTURE"
        BY <2>1, <2>3, <3>1
      <3>3. QED
        BY <3>2
    <2>4. QED
      BY <2>1, <2>2, <2>3 DEF Settled
  <1> HIDE DEF n, pay, capture
  <1>4. ASSUME NEW p \in Payments, Settled(p)
        PROVE  /\ payments[p].order \in DOMAIN attempts
               /\ attempts[payments[p].order].status = "CAPTURED"
               /\ attempts'[payments[p].order].status = "CAPTURED"
    <2>1. /\ payments[p].order \in DOMAIN attempts /\ attempts[payments[p].order].status = "CAPTURED"
          /\ Booked
      BY <1>4 DEF AttemptInv, PriceInv
    <2>2. QED
      BY <1>1, <1>2, <2>1
  <1>5. ASSUME NEW p \in Payments, Settled(p)', ~Settled(p)
        PROVE  attempts'[n].status = "CAPTURED" /\ p = pay
    <2>1. p = pay /\ calls[c].kind = "captured"
      BY <1>3, <1>5
    <2>2. Booked'
      BY <1>5, SettledIsBooked
    <2>3. CASE ~Booked
      <3>1. status' \in CapturedStates
        BY <2>2 DEF Booked
      <3>2. QED
        BY <2>1, <2>3, <3>1, Reconciled DEF n, CapturedStates, Booked
    <2>4. CASE Booked
      <3>1. PICK m \in DOMAIN attempts : attempts[m].status = "CAPTURED"
        BY <2>4 DEF AloneInv, BookedHasRow
      <3>2. CASE m = n
        BY <1>1, <1>2, <2>1, <2>4, <3>1, <3>2
      <3>3. CASE m # n
        BY <1>2, <2>1, <3>1, <3>3 DEF DoubleCapture, n
      <3>4. QED
        BY <3>2, <3>3
    <2>5. QED
      BY <2>1, <2>3, <2>4
  <1>6. ASSUME NEW p \in Payments, Settled(p)'
        PROVE  /\ payments'[p].order \in DOMAIN attempts'
               /\ attempts'[payments'[p].order].status = "CAPTURED"
    BY <1>1, <1>4, <1>5, <1>6
  <1>7. ASSUME NEW p \in Payments, NEW q \in Payments, Settled(p)', Settled(q)',
               payments[p].order # payments[q].order
        PROVE  \E e \in ledger' : e[2] = "MULTIPLE_CAPTURE"
    <2>1. CASE Settled(p) /\ Settled(q)
      BY <1>3, <1>7, <2>1 DEF AttemptInv, DoubleCaptureFlagged
    <2>2. ASSUME NEW r \in Payments, NEW new \in Payments, Settled(r), Settled(new)', ~Settled(new),
                 payments[r].order # payments[new].order
          PROVE  DoubleCapture(c)
      <3>1. new = pay /\ calls[c].kind = "captured"
        BY <1>3, <2>2
      <3>2. payments[r].order \in DOMAIN attempts /\ attempts[payments[r].order].status = "CAPTURED"
        BY <1>4, <2>2
      <3>3. QED
        BY <1>1, <2>2, <3>1, <3>2 DEF DoubleCapture, n
    <2>3. CASE ~Settled(p) /\ ~Settled(q)
      BY <1>3, <1>7, <2>3
    <2>4. QED
      BY <1>3, <1>7, <2>1, <2>2, <2>3
  <1>8. QED
    BY <1>1, <1>6, <1>7 DEF DoubleCaptureFlagged

\* What a commit of a call leaves of the attempts, when the other calls are idle.
LEMMA RowWriteKeepsAttempts ==
    ASSUME PaymentInv, PaymentInv', Grows, MoneyInv, PriceInv, AloneInv, AttemptInv, PriceStands,
           OneByOne, [Next]_vars, NEW c \in Calls, RowWrite(c)
    PROVE  AttemptInv'
  <1> DEFINE n == calls[c].n
  <1>1. /\ n \in DOMAIN attempts /\ DOMAIN attempts' = DOMAIN attempts /\ Done(c)
        /\ \A m \in DOMAIN attempts : m # n => attempts'[m] = attempts[m]
    BY RowWrites
  <1>2. /\ calls[c].at \in ClaimedStages \cup PaidStages /\ AttemptAlone(calls[c])
        /\ CallAlone(calls[c])
    BY DEF AloneInv, AttemptInv, RowWrite, Finalize, RecordDefiniteFailure, ParkForReconciliation,
           CommitCallback, CommitReconciliation, At, ClaimedStages, PaidStages
  <1>3. \A d \in Calls : AttemptAlone(calls[d])'
    <2>1. ~At(c, "Idle")
      BY <1>2 DEF At, ClaimedStages, PaidStages
    <2>2. \A d \in Calls : calls'[d] = Idle \/ calls'[d].at = "Idle"
      BY <1>1, <2>1, OthersIdle DEF Done
    <2>3. \A d \in Calls : calls'[d].at = "Idle"
      BY <2>2 DEF Idle
    <2>4. QED
      BY <2>3 DEF AttemptAlone, RetryStages, OrderStages, ClaimedStages, UnorderedStages
  <1> HIDE DEF n
  <1>4. CASE CommitReconciliation(c)
    <2>1. /\ attempts'[n].status \in Over \cup {attempts[n].status}
          /\ attempts'[n].payment # NoPayment
      <3>1. calls[c].pay \in Payments
        BY <1>4, CallOf DEF CommitReconciliation, At, CallFits
      <3>2. attempts'[n].payment = calls[c].pay
        BY <1>4, RowWrites DEF n
      <3>3. attempts'[n].status \in Over \cup {attempts[n].status}
        BY <1>4, Reconciled DEF n, Over
      <3>4. QED
        BY <3>1, <3>2, <3>3, PaymentAssumption
    <2>2. \A m, k \in DOMAIN attempts' :
              attempts'[m].status \notin Over /\ attempts'[k].status \notin Over => m = k
      BY <1>1, <2>1 DEF AttemptInv
    <2>3. \A m \in Ordered' : attempts'[m].status \in Over => attempts'[m].payment # NoPayment
      BY <1>1, <2>1 DEF AttemptInv, Ordered
    <2>4. QED
      BY <1>3, <1>4, <2>2, <2>3, ReportKeepsAttempts DEF AttemptInv
  <1>5. CASE CommitCallback(c)
    <2>1. calls[c].at = "Verifying" /\ status = "PAYMENT_PENDING" /\ attempts[n].status \notin Over
      BY <1>2, <1>5 DEF CommitCallback, At, CallAlone, AttemptAlone, n
    <2>2. attempts'[n].status = "VERIFIED"
      BY <1>5, RowWrites DEF n
    <2>3. \A d \in Calls : ~CommitReconciliation(d)
      <3>1. \A d \in Calls : calls[d].at # "Reconciling"
        BY <2>1 DEF OneByOne, At
      <3>2. QED
        BY <3>1 DEF CommitReconciliation, At
    <2>4. \A m \in DOMAIN attempts :
              attempts[m].status = "CAPTURED" => attempts'[m].status = "CAPTURED"
      BY <1>1, <2>1 DEF Over
    <2>5. \A m, k \in DOMAIN attempts' :
              attempts'[m].status \notin Over /\ attempts'[k].status \notin Over => m = k
      BY <1>1, <2>1, <2>2 DEF AttemptInv
    <2>6. \A m \in Ordered' : attempts'[m].status \in Over => attempts'[m].payment # NoPayment
      BY <1>1, <2>2 DEF AttemptInv, Ordered, Over
    <2>7. QED
      BY <1>3, <2>3, <2>4, <2>5, <2>6, SettledRowsStay DEF AttemptInv
  <1>6. CASE Finalize(c) \/ RecordDefiniteFailure(c) \/ ParkForReconciliation(c)
    <2>1. calls[c].at \in {"Finalize", "Fail", "Park", "ParkOrder"}
      BY <1>6 DEF Finalize, RecordDefiniteFailure, ParkForReconciliation, At
    <2>2. ~Booked /\ \A m \in DOMAIN attempts : m # n => attempts[m].status = "FAILED"
      BY <1>2, <2>1 DEF CallAlone, AttemptAlone, OrderStages, ClaimedStages, Booked,
                        CapturedStates, n
    <2>3. \A m \in DOMAIN attempts : attempts[m].status # "CAPTURED"
      BY <2>2, NoneSettledYet
    <2>4. \A d \in Calls : ~CommitReconciliation(d)
      <3>1. \A d \in Calls : calls[d].at # "Reconciling"
        BY <2>1 DEF OneByOne, At
      <3>2. QED
        BY <3>1 DEF CommitReconciliation, At
    <2>5. attempts'[n].status \in Over => ~attempts'[n].order
      <3>1. CASE RecordDefiniteFailure(c)
        <4>1. calls[c].at = "Fail"
          BY <3>1 DEF RecordDefiniteFailure, At
        <4>2. ~attempts[n].order /\ ~Finalize(c) /\ ~At(c, "ParkOrder")
          BY <1>2, <4>1 DEF AttemptAlone, UnorderedStages, Finalize, At, n
        <4>3. QED
          BY <4>2, RowWrites DEF n
      <3>2. CASE Finalize(c) \/ ParkForReconciliation(c)
        BY <3>2, RowWrites DEF n, Over
      <3>3. QED
        BY <1>6, <3>1, <3>2
    <2>6. \A m, k \in DOMAIN attempts' :
              attempts'[m].status \notin Over /\ attempts'[k].status \notin Over => m = k
      BY <1>1, <2>2 DEF Over
    <2>7. \A m \in Ordered' : attempts'[m].status \in Over => attempts'[m].payment # NoPayment
      BY <1>1, <2>5 DEF AttemptInv, Ordered
    <2>8. QED
      BY <1>3, <2>3, <2>4, <2>6, <2>7, SettledRowsStay DEF AttemptInv
  <1>7. QED
    BY <1>4, <1>5, <1>6 DEF RowWrite

\* A claim is made of no rows, or after failures only.
LEMMA ClaimAfterFailure ==
    ASSUME PaymentInv, PriceInv, AttemptInv, PriceStands, NEW c \in Calls, ClaimAttempt(c)
    PROVE  \A n \in DOMAIN attempts : attempts[n].status = "FAILED"
  <1>1. CASE calls[c].retry = 0
    BY <1>1, ClaimIsNext
  <1>2. CASE calls[c].retry # 0
    BY <1>2 DEF AttemptInv, AttemptAlone, ClaimAttempt, At, RetryStages
  <1>3. QED
    BY <1>1, <1>2

LEMMA ClaimKeepsAttempts ==
    ASSUME PaymentInv, PaymentInv', Grows, PriceInv, AttemptInv, PriceStands, OneByOne,
           [Next]_vars, NEW c \in Calls, ClaimAttempt(c)
    PROVE  AttemptInv'
  <1>1. /\ attempts \in Seq(Attempts) /\ Len(attempts) \in Nat /\ DOMAIN attempts = 1 .. Len(attempts)
        /\ calls \in [Calls -> CallRecords] /\ calls[c] \in CallRecords
    BY CallOf
  <1>2. PICK row : row = [quote |-> calls[c].quote, retry |-> calls[c].retry, status |-> "CREATED",
                          order |-> FALSE, payment |-> NoPayment]
    OBVIOUS
  <1>3. /\ attempts' = Append(attempts, row) /\ row.status = "CREATED" /\ row.order = FALSE
        /\ status' = status
    BY <1>2 DEF ClaimAttempt, txn
  <1>4. /\ DOMAIN attempts' = 1 .. Len(attempts) + 1 /\ attempts'[Len(attempts) + 1] = row
        /\ \A n \in 1 .. Len(attempts) : attempts'[n] = attempts[n]
    BY <1>1, <1>3
  <1>5. \A n \in 1 .. Len(attempts) : attempts[n].status = "FAILED"
    BY <1>1, ClaimAfterFailure
  <1>6. PICK call : call = [calls[c] EXCEPT !.at = "Create", !.n = LastAttempt + 1]
    OBVIOUS
  <1>7. /\ calls' = [calls EXCEPT ![c] = call] /\ call.at = "Create" /\ call.retry = calls[c].retry
        /\ call.n = Len(attempts) + 1
    BY <1>1, <1>6 DEF ClaimAttempt, CallRecords, LastAttempt
  <1>8. AttemptAlone(call)'
    <2>1. call.retry = 0 => status' = "INVENTORY_RESERVED"
      BY <1>3, <1>7 DEF AttemptInv, AttemptAlone, ClaimAttempt, At, OrderStages
    <2>2. \A n \in DOMAIN attempts' : n # call.n => attempts'[n].status = "FAILED"
      BY <1>1, <1>4, <1>5, <1>7
    <2>3. ~attempts'[call.n].order
      BY <1>3, <1>4, <1>7
    <2>4. QED
      BY <1>7, <2>1, <2>2, <2>3 DEF AttemptAlone, RetryStages
  <1>9. \A d \in Calls : AttemptAlone(calls[d])'
    <2>1. ~At(c, "Idle")
      BY DEF ClaimAttempt, At
    <2>2. \A d \in Calls : calls'[d] = call \/ calls'[d].at = "Idle"
      BY <1>7, <2>1, OthersIdle
    <2>3. ASSUME NEW d \in Calls PROVE AttemptAlone(calls[d])'
      <3>1. CASE calls'[d] = call
        BY <1>8, <3>1
      <3>2. CASE calls'[d].at = "Idle"
        BY <3>2 DEF AttemptAlone, RetryStages, OrderStages, ClaimedStages, UnorderedStages
      <3>3. QED
        BY <2>2, <3>1, <3>2
    <2>4. QED
      BY <2>3
  <1>10. \A m, k \in DOMAIN attempts' :
            attempts'[m].status \notin Over /\ attempts'[k].status \notin Over => m = k
    <2>1. ASSUME NEW m \in DOMAIN attempts', attempts'[m].status \notin Over
          PROVE  m = Len(attempts) + 1
      BY <1>1, <1>4, <1>5, <2>1 DEF Over
    <2>2. QED
      BY <2>1
  <1>11. \A m \in Ordered' : attempts'[m].status \in Over => attempts'[m].payment # NoPayment
    BY <1>1, <1>3, <1>4 DEF AttemptInv, Ordered
  <1>12. \A d \in Calls : ~CommitReconciliation(d)
    <2>1. \A d \in Calls : calls[d].at # "Reconciling"
      BY DEF OneByOne, At, ClaimAttempt
    <2>2. QED
      BY <2>1 DEF CommitReconciliation, At
  <1>13. \A m \in DOMAIN attempts :
            attempts[m].status = "CAPTURED" => attempts'[m].status = "CAPTURED"
    BY <1>1, <1>4
  <1>14. QED
    BY <1>9, <1>10, <1>11, <1>12, <1>13, SettledRowsStay DEF AttemptInv

LEMMA AttemptKept ==
    PaymentInv /\ MoneyInv /\ PriceInv /\ AloneInv /\ AttemptInv /\ OneByOne /\ [Next]_vars
    => AttemptInv'
  <1> SUFFICES ASSUME PaymentInv, MoneyInv, PriceInv, AloneInv, AttemptInv, OneByOne,
                      [Next]_vars, PriceStands'
               PROVE  AttemptInv'
    BY DEF AttemptInv
  <1>1. PaymentInv' /\ Grows
    BY PaymentKept
  <1>2. PriceStands /\ status \in PriceStates
    BY <1>1, PriceStood DEF PriceInv
  <1>3. ASSUME attempts' = attempts, \A d \in Calls : AttemptAlone(calls[d])',
               \A d \in Calls : ~CommitReconciliation(d)
        PROVE  AttemptInv'
    <2>1. \A m, k \in DOMAIN attempts' :
              attempts'[m].status \notin Over /\ attempts'[k].status \notin Over => m = k
      BY <1>2, <1>3 DEF AttemptInv
    <2>2. \A m \in Ordered' : attempts'[m].status \in Over => attempts'[m].payment # NoPayment
      BY <1>2, <1>3 DEF AttemptInv, Ordered
    <2>3. QED
      BY <1>1, <1>2, <1>3, <2>1, <2>2, SettledRowsStay DEF AttemptInv
  <1>4. ASSUME NEW c \in Calls, CommitReconciliation(c) PROVE AttemptInv'
    BY <1>1, <1>2, <1>4, RowWriteKeepsAttempts DEF RowWrite
  <1>5. CASE \A d \in Calls : ~CommitReconciliation(d)
    <2>1. CASE Outside
      <3>1. \A d \in Calls : AttemptAlone(calls[d])'
        BY <1>2, <2>1 DEF Outside, Steady, AttemptInv, AttemptAlone
      <3>2. QED
        BY <1>3, <1>5, <2>1, <3>1 DEF Outside, Steady
    <2>2. CASE DecideApproval \/ ReserveInventory
      BY <1>2, <2>2 DEF DecideApproval, ReserveInventory, PriceStates, Announced, CapturedStates
    <2>3. ASSUME NEW c \in Calls, ReadsOn(c) PROVE AttemptInv'
      BY <1>1, <1>2, <1>3, <1>5, <2>3, ReadingOfAttempts DEF ReadsOn, Steady
    <2>4. ASSUME NEW c \in Calls, RowWrite(c) PROVE AttemptInv'
      BY <1>1, <1>2, <2>4, RowWriteKeepsAttempts
    <2>5. ASSUME NEW c \in Calls, ClaimAttempt(c) PROVE AttemptInv'
      BY <1>1, <1>2, <2>5, ClaimKeepsAttempts
    <2>6. ASSUME NEW c \in Calls, CommitCheckout(c) PROVE AttemptInv'
      <3>1. ~At(c, "Idle") /\ Done(c) /\ attempts' = attempts
        BY <2>6 DEF CommitCheckout, At
      <3>2. \A d \in Calls : calls'[d] = Idle \/ calls'[d].at = "Idle"
        BY <3>1, OthersIdle DEF Done
      <3>3. \A d \in Calls : calls'[d].at = "Idle"
        BY <3>2 DEF Idle
      <3>4. \A d \in Calls : AttemptAlone(calls[d])'
        BY <3>3 DEF AttemptAlone, RetryStages, OrderStages, ClaimedStages, UnorderedStages
      <3>5. QED
        BY <1>3, <1>5, <3>1, <3>4
    <2>7. ASSUME NEW c \in Calls, IssueQuote(c) \/ EvaluatePolicy(c) PROVE FALSE
      <3>1. CASE IssueQuote(c)
        <4>1. quote'.id = quote.id + 1
          BY <3>1 DEF IssueQuote
        <4>2. QED
          BY <1>2, <4>1 DEF PriceStands
      <3>2. CASE EvaluatePolicy(c)
        <4>1. PICK t \in Transitions : t.from = status /\ t.event = "POLICY_EVALUATION_COMPLETED"
          BY <3>2, ResolveApplies DEF EvaluatePolicy, Applies, Adjudicate
        <4>2. QED
          BY <1>2, <4>1, RequoteEdges DEF PriceStates, Announced, CapturedStates
      <3>3. QED
        BY <2>7, <3>1, <3>2
    <2>8. ASSUME NEW c \in Calls, RebindHold(c) PROVE AttemptInv'
      <3>1. ~At(c, "Idle") /\ attempts' = attempts /\ calls[c].at = "Rebind"
        BY <2>8 DEF RebindHold, At
      <3>2. PICK call : /\ calls' = [calls EXCEPT ![c] = call]
                        /\ \/ call.at = "Idle"
                           \/ call.at = "Check" /\ call.retry = calls[c].retry
        <4>1. PICK check : check = [Idle EXCEPT !.at = "Check", !.retry = calls[c].retry]
          OBVIOUS
        <4>2. check.at = "Check" /\ check.retry = calls[c].retry /\ Idle.at = "Idle"
          BY <4>1 DEF Idle
        <4>3. calls' \in {[calls EXCEPT ![c] = check], [calls EXCEPT ![c] = Idle]}
          BY <2>8, <4>1 DEF RebindHold, Done
        <4>4. QED
          BY <4>2, <4>3
      <3>3. AttemptAlone(call)'
        <4>1. AttemptAlone(calls[c])
          BY <1>2 DEF AttemptInv
        <4>2. QED
          BY <3>1, <3>2, <4>1
             DEF AttemptAlone, RetryStages, OrderStages, ClaimedStages, UnorderedStages
      <3>4. ASSUME NEW d \in Calls PROVE AttemptAlone(calls[d])'
        <4>1. CASE calls'[d] = call
          BY <3>3, <4>1
        <4>2. CASE calls'[d].at = "Idle"
          BY <4>2 DEF AttemptAlone, RetryStages, OrderStages, ClaimedStages, UnorderedStages
        <4>3. QED
          BY <3>1, <3>2, <4>1, <4>2, OthersIdle
      <3>5. QED
        BY <1>3, <1>5, <3>1, <3>4
    <2>9. QED
      BY <2>1, <2>2, <2>3, <2>4, <2>5, <2>6, <2>7, <2>8, StepKinds DEF Writes, RowWrite
  <1>6. QED
    BY <1>4, <1>5

LEMMA AttemptInvariant ==
    Spec /\ []OneByOne => [](PaymentInv /\ MoneyInv /\ PriceInv /\ AloneInv /\ AttemptInv)
  <1>1. Init => AttemptInv
    <2> SUFFICES ASSUME Init PROVE AttemptInv
      OBVIOUS
    <2>1. attempts = <<>> /\ ledger = {} /\ \A c \in Calls : calls[c].at = "Idle"
      BY DEF Init, Idle
    <2>2. QED
      BY <2>1 DEF AttemptInv, AttemptAlone, RetryStages, OrderStages, ClaimedStages,
                  UnorderedStages, Ordered, Settled, DoubleCaptureFlagged
  <1>2. AttemptInv /\ (PaymentInv /\ MoneyInv /\ PriceInv) /\ (PaymentInv /\ MoneyInv /\ AloneInv)
        /\ OneByOne /\ [Next]_vars => AttemptInv'
    BY AttemptKept
  <1>3. QED
    BY <1>1, <1>2, PriceInvariant, AloneInvariant, PTL DEF Spec

\* When calls run one after the other and the first price stands, two attempts
\* never wait for money at the same time.
THEOREM AttemptsLiveOneByOne == Spec /\ []OneByOne => [](PriceStands => OneLiveAttempt)
  <1>1. PaymentInv /\ AttemptInv => (PriceStands => OneLiveAttempt)
    <2> SUFFICES ASSUME PaymentInv, AttemptInv, PriceStands PROVE OneLiveAttempt
      OBVIOUS
    <2> DEFINE live == {n \in DOMAIN attempts : attempts[n].status \in LiveStatuses}
    <2>1. \A m, n \in live : m = n
      BY DEF AttemptInv, LiveStatuses, Over
    <2>2. CASE live = {}
      BY <2>2, FS_EmptySet DEF OneLiveAttempt
    <2>3. CASE live # {}
      <3>1. PICK n : live = {n}
        BY <2>1, <2>3
      <3>2. Cardinality(live) = 1
        BY <3>1, FS_Singleton
      <3>3. QED
        BY <3>2 DEF OneLiveAttempt
    <2>4. QED
      BY <2>2, <2>3
  <1>2. QED
    BY <1>1, AttemptInvariant, PTL

\* Under the same two conditions a new attempt is claimed only when every earlier
\* one is known to have failed.
THEOREM ClaimsFollowFailures == Spec /\ []OneByOne /\ []PriceStands => ClaimsOnlyAfterFailure
  <1>1. ASSUME PaymentInv, MoneyInv, PriceInv, AttemptInv, PriceStands, [Next]_vars
        PROVE  [Len(attempts') > Len(attempts) =>
                    \A n \in DOMAIN attempts : attempts[n].status = "FAILED"]_vars
    <2>1. \/ \E c \in Calls : ClaimAttempt(c)
          \/ Len(attempts') = Len(attempts)
      <3>1. ASSUME NEW c \in Calls, Writes(c), ~ClaimAttempt(c) PROVE Len(attempts') = Len(attempts)
        <4>1. CASE RowWrite(c)
          BY <1>1, <3>1, <4>1, RowWrites
        <4>2. CASE ~RowWrite(c)
          BY <3>1, <4>2 DEF Writes, RowWrite, CommitCheckout, IssueQuote, EvaluatePolicy, RebindHold
        <4>3. QED
          BY <4>1, <4>2
      <3>2. CASE Outside \/ DecideApproval \/ ReserveInventory \/ \E c \in Calls : ReadsOn(c)
        BY <3>2 DEF Outside, Steady, DecideApproval, ReserveInventory, ReadsOn
      <3>3. QED
        BY <1>1, <3>1, <3>2, StepKinds
    <2>2. Len(attempts) \in Nat
      BY <1>1 DEF PaymentInv, PaymentTypeOK
    <2>3. QED
      BY <1>1, <2>1, <2>2, ClaimAfterFailure
  <1>2. QED
    BY <1>1, AttemptInvariant, PTL DEF Spec, ClaimsOnlyAfterFailure

\* Under the same two conditions two captured payments on two orders never both
\* go by as ordinary: the ledger flags one for an operator to refund.
THEOREM DoubleCapturesAreFlagged ==
    Spec /\ []OneByOne => [](PriceStands => DoubleCaptureFlagged)
  BY AttemptInvariant, PTL DEF AttemptInv
=============================================================================
