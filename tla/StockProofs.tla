----------------------------- MODULE StockProofs -----------------------------
(***************************************************************************)
(* The stock of a product for any purchases, quantities, calls and moves   *)
(* of the other services.  The counter is what the holds add up to only    *)
(* while no two calls have written the same row, and while what a call has *)
(* written is still ACTIVE to everybody else: StockInv says both.          *)
(***************************************************************************)
EXTENDS Stock, TransactionMachineProofs, FiniteSetTheorems, SequenceTheorems

CallShapes ==
    [at : Stages, p : Purchases \cup {NoPurchase}, to : HoldStatuses, todo : SUBSET Nat,
     marked : SUBSET Nat, counted : SUBSET Nat, onHand : Int]

\* What a call has written is ACTIVE to the others, and what it has counted it
\* has written; outside the sweep, the release and the sale it holds nothing.
Fits(call) ==
    /\ call \in CallShapes
    /\ call.at # "Idle" => call.p \in Purchases
    /\ call.todo \subseteq DOMAIN rows
    /\ call.counted \subseteq call.marked /\ call.marked \subseteq ActiveRows
    /\ call.at \in {"Idle", "Denied"} => call.marked = {}
    /\ call.at = "Claim" => call.to = "EXPIRED" /\ call.marked = call.counted
    /\ call.at = "Marking" => call.to # "ACTIVE"

StoredOK == rows \in Seq(Rows) /\ inventory \in Int /\ reserved \in Int
CallsFit == calls \in [Calls -> CallShapes] /\ \A c \in Calls : Fits(calls[c])
OneWriter == \A c, d \in Calls : c # d => calls[c].marked \cap calls[d].marked = {}

StockInv ==
    /\ StoredOK /\ CallsFit /\ OneWriter
    /\ CounterMatchesHolds /\ NeverOversold /\ UnitsConserved

CommittedRows == {i \in DOMAIN rows : rows[i].status = "COMMITTED"}

-----------------------------------------------------------------------------
(* Units of any sequence of rows. *)

UnitsIn(s, is) == UNION {{i} \X (1 .. s[i].quantity) : i \in is}

LEMMA DomainIsFinite ==
    ASSUME NEW s \in Seq(Rows)
    PROVE  IsFiniteSet(DOMAIN s) /\ DOMAIN s = 1 .. Len(s)
  <1>1. DOMAIN s = 1 .. Len(s) /\ Len(s) \in Nat
    OBVIOUS
  <1>2. QED
    BY <1>1, FS_Interval

LEMMA RowOfSeq ==
    ASSUME NEW s \in Seq(Rows), NEW i \in DOMAIN s
    PROVE  s[i] \in Rows /\ s[i].quantity \in Nat \ {0}
  <1>1. s[i] \in Rows
    BY ElementOfSeq
  <1>2. QED
    BY <1>1 DEF Rows

\* The units of a row, and their number.
LEMMA UnitsOfOne ==
    ASSUME NEW i, NEW n \in Nat
    PROVE  IsFiniteSet({i} \X (1 .. n)) /\ Cardinality({i} \X (1 .. n)) = n
  <1>1. IsFiniteSet({i}) /\ Cardinality({i}) = 1
    BY FS_Singleton
  <1>2. 1 \in Int /\ n \in Int
    OBVIOUS
  <1>3. IsFiniteSet(1 .. n) /\ Cardinality(1 .. n) = IF 1 > n THEN 0 ELSE n - 1 + 1
    BY <1>2, FS_Interval, Zenon
  <1>4. Cardinality(1 .. n) = n
    BY <1>3
  <1>5. /\ IsFiniteSet({i} \X (1 .. n))
        /\ Cardinality({i} \X (1 .. n)) = Cardinality({i}) * Cardinality(1 .. n)
    BY <1>1, <1>3, FS_Product, Zenon
  <1>6. QED
    BY <1>1, <1>4, <1>5

\* Rows hold finitely many units.
LEMMA UnitsAreFinite ==
    ASSUME NEW s \in Seq(Rows), NEW is \in SUBSET (DOMAIN s)
    PROVE  IsFiniteSet(UnitsIn(s, is)) /\ Cardinality(UnitsIn(s, is)) \in Nat
  <1> DEFINE f == [i \in is |-> {i} \X (1 .. s[i].quantity)]
             T == {{i} \X (1 .. s[i].quantity) : i \in is}
  <1>1. IsFiniteSet(is)
    BY DomainIsFinite, FS_Subset
  <1>2. f \in Surjection(is, T)
    BY DEF Surjection
  <1>3. IsFiniteSet(T)
    BY <1>1, <1>2, FS_Surjection
  <1>4. \A t \in T : IsFiniteSet(t)
    <2> SUFFICES ASSUME NEW i \in is
                 PROVE  IsFiniteSet({i} \X (1 .. s[i].quantity))
      OBVIOUS
    <2>1. s[i].quantity \in Nat
      BY RowOfSeq
    <2>2. QED
      BY <2>1, UnitsOfOne, Zenon
  <1>5. IsFiniteSet(UNION T)
    BY <1>3, <1>4, FS_UNION
  <1>6. QED
    BY <1>5, FS_CardinalityType DEF UnitsIn

\* Apart, rows hold together what they hold one by one.
LEMMA UnitsAdd ==
    ASSUME NEW s \in Seq(Rows), NEW is \in SUBSET (DOMAIN s), NEW js \in SUBSET (DOMAIN s),
           is \cap js = {}
    PROVE  Cardinality(UnitsIn(s, is \cup js))
             = Cardinality(UnitsIn(s, is)) + Cardinality(UnitsIn(s, js))
  <1>1. UnitsIn(s, is \cup js) = UnitsIn(s, is) \cup UnitsIn(s, js)
    BY DEF UnitsIn
  <1>2. UnitsIn(s, is) \cap UnitsIn(s, js) = {}
    BY DEF UnitsIn
  <1>3. /\ IsFiniteSet(UnitsIn(s, is)) /\ Cardinality(UnitsIn(s, is)) \in Nat
        /\ IsFiniteSet(UnitsIn(s, js)) /\ Cardinality(UnitsIn(s, js)) \in Nat
    BY UnitsAreFinite
  <1>4. Cardinality({}) = 0
    BY FS_EmptySet
  <1>5. Cardinality(UnitsIn(s, is) \cup UnitsIn(s, js))
          = Cardinality(UnitsIn(s, is)) + Cardinality(UnitsIn(s, js))
              - Cardinality(UnitsIn(s, is) \cap UnitsIn(s, js))
    BY <1>3, FS_Union, Zenon
  <1>6. \A a, b \in Nat : a + b - 0 = a + b
    OBVIOUS
  <1>7. QED
    BY <1>1, <1>2, <1>3, <1>4, <1>5, <1>6, Zenon

\* Only the quantities of the rows matter.
LEMMA UnitsAgree ==
    ASSUME NEW s, NEW t, NEW is, \A i \in is : s[i].quantity = t[i].quantity
    PROVE  UnitsIn(s, is) = UnitsIn(t, is)
  BY DEF UnitsIn

LEMMA UnitsOfRow ==
    ASSUME NEW s \in Seq(Rows), NEW i \in DOMAIN s
    PROVE  Cardinality(UnitsIn(s, {i})) = s[i].quantity
  <1>1. UnitsIn(s, {i}) = {i} \X (1 .. s[i].quantity)
    BY DEF UnitsIn
  <1>2. QED
    BY <1>1, RowOfSeq, UnitsOfOne

\* One row more; one row replaced.
LEMMA RowAppended ==
    ASSUME NEW s \in Seq(Rows), NEW r \in Rows
    PROVE  /\ Append(s, r) \in Seq(Rows)
           /\ DOMAIN Append(s, r) = DOMAIN s \cup {Len(s) + 1} /\ Len(s) + 1 \notin DOMAIN s
           /\ \A i \in DOMAIN s : Append(s, r)[i] = s[i]
           /\ Append(s, r)[Len(s) + 1] = r
  <1>1. DOMAIN s = 1 .. Len(s) /\ Len(s) \in Nat
    OBVIOUS
  <1>2. /\ Append(s, r) \in Seq(Rows) /\ Len(Append(s, r)) = Len(s) + 1
        /\ \A i \in 1 .. Len(s) : Append(s, r)[i] = s[i]
        /\ Append(s, r)[Len(s) + 1] = r
    BY AppendProperties
  <1>3. DOMAIN Append(s, r) = 1 .. Len(s) + 1
    BY <1>2
  <1>4. QED
    BY <1>1, <1>2, <1>3

LEMMA RowReplaced ==
    ASSUME NEW s \in Seq(Rows), NEW i \in DOMAIN s, NEW r \in Rows
    PROVE  /\ [s EXCEPT ![i] = r] \in Seq(Rows) /\ DOMAIN [s EXCEPT ![i] = r] = DOMAIN s
           /\ \A j \in DOMAIN s : [s EXCEPT ![i] = r][j] = IF j = i THEN r ELSE s[j]
  OBVIOUS

LEMMA TotalIsOfRows ==
    ASSUME NEW is
    PROVE  Total(is) = Cardinality(UnitsIn(rows, is))
  BY DEF Total, Units, UnitsIn

\* Units of two disjoint sets of rows add up.
LEMMA TotalsAdd ==
    ASSUME rows \in Seq(Rows), NEW is \in SUBSET (DOMAIN rows),
           NEW js \in SUBSET (DOMAIN rows), is \cap js = {}
    PROVE  Total(is \cup js) = Total(is) + Total(js)
  BY UnitsAdd, TotalIsOfRows, Zenon

-----------------------------------------------------------------------------
(* Steps that leave the rows and the product alone. *)

\* One call goes on; what it has written it may write.
LEMMA QuietStep ==
    ASSUME StockInv, NEW c \in Calls, NEW call, Fits(call),
           \A d \in Calls \ {c} : call.marked \cap calls[d].marked = {},
           calls' = [calls EXCEPT ![c] = call], UNCHANGED <<inventory, reserved, rows>>
    PROVE  StockInv'
  <1>1. /\ calls \in [Calls -> CallShapes] /\ call \in CallShapes
        /\ \A d \in Calls : Fits(calls[d])
    BY DEF StockInv, CallsFit, Fits
  <1>2. calls'[c] = call /\ \A d \in Calls \ {c} : calls'[d] = calls[d]
    BY <1>1
  <1>3. calls' \in [Calls -> CallShapes]
    BY <1>1
  <1>4. \A d \in Calls : Fits(calls'[d])
    BY <1>1, <1>2
  <1>5. CallsFit'
    BY <1>3, <1>4 DEF CallsFit, Fits, ActiveRows
  <1>6. OneWriter'
    BY <1>2 DEF StockInv, OneWriter
  <1>7. (StoredOK /\ CounterMatchesHolds /\ NeverOversold /\ UnitsConserved)'
    BY DEF StockInv, StoredOK, CounterMatchesHolds, NeverOversold, UnitsConserved, Total, Units,
           ActiveRows
  <1>8. QED
    BY <1>5, <1>6, <1>7 DEF StockInv

\* What the invariant says of one call.
LEMMA CallOf ==
    ASSUME StockInv, NEW c \in Calls
    PROVE  /\ Fits(calls[c]) /\ calls[c] \in CallShapes
           /\ \A d \in Calls \ {c} : calls[c].marked \cap calls[d].marked = {}
  BY DEF StockInv, CallsFit, Fits, OneWriter

LEMMA IdleFits == Fits(Idle)
  BY DEF Fits, Idle, Call, CallShapes, Stages, HoldStatuses

\* A call that has written nothing.
LEMMA BlankFits ==
    ASSUME StockInv, NEW p \in Purchases, NEW at \in Stages, NEW to \in HoldStatuses,
           NEW todo \in SUBSET (DOMAIN rows), at # "Claim", at = "Marking" => to # "ACTIVE"
    PROVE  Fits(Call(at, p, to, todo, {}, {}, 0))
  <1>1. DOMAIN rows \subseteq Nat
    BY DEF StockInv, StoredOK
  <1>2. Call(at, p, to, todo, {}, {}, 0) \in CallShapes
    BY <1>1 DEF Call, CallShapes
  <1>3. QED
    BY <1>2 DEF Call, Fits

\* Calls that begin.
LEMMA BeginKeepsInv ==
    ASSUME StockInv, NEW c \in Calls, NEW p \in Purchases,
           BeginReserve(c, p) \/ DenyRetry(c, p) \/ BeginSale(c, p)
    PROVE  StockInv'
  <1>1. PICK at \in Stages, to \in HoldStatuses, todo \in SUBSET (DOMAIN rows) :
            /\ at # "Claim" /\ (at = "Marking" => to # "ACTIVE")
            /\ calls' = [calls EXCEPT ![c] = Call(at, p, to, todo, {}, {}, 0)]
    BY DEF BeginReserve, DenyRetry, BeginSale, Become, LapsedRows, SellableRows, ActiveRowsOf,
           ActiveRows, Stages, HoldStatuses
  <1>2. Fits(Call(at, p, to, todo, {}, {}, 0))
    BY <1>1, BlankFits
  <1>3. Call(at, p, to, todo, {}, {}, 0).marked = {}
    BY DEF Call
  <1>4. UNCHANGED <<inventory, reserved, rows>>
    BY DEF BeginReserve, DenyRetry, BeginSale
  <1>5. QED
    BY <1>1, <1>2, <1>3, <1>4, QuietStep

\* A call that goes on with the rows it has written, or fewer.
LEMMA QuieterStep ==
    ASSUME StockInv, NEW c \in Calls, NEW call, Fits(call), call.marked \subseteq calls[c].marked,
           calls' = [calls EXCEPT ![c] = call], UNCHANGED <<inventory, reserved, rows>>
    PROVE  StockInv'
  <1>1. \A d \in Calls \ {c} : call.marked \cap calls[d].marked = {}
    BY CallOf
  <1>2. QED
    BY <1>1, QuietStep

\* Calls that end without a commit.
LEMMA EndKeepsInv ==
    ASSUME StockInv, NEW c \in Calls, Done(c), UNCHANGED <<inventory, reserved, rows>>
    PROVE  StockInv'
  <1>1. calls' = [calls EXCEPT ![c] = Idle] /\ Idle.marked = {}
    BY DEF Done, Become, Idle, Call
  <1>2. QED
    BY <1>1, IdleFits, QuietStep

\* Calls that write a row, count it, read the product or find their rows.
LEMMA WriteKeepsInv ==
    ASSUME StockInv, NEW c \in Calls,
           \/ \E i \in calls[c].todo : MarkRow(c, i)
           \/ \E i \in calls[c].marked : CountRow(c, i)
           \/ ReadProduct(c) \/ FindHeldStock(c)
    PROVE  StockInv'
  <1> USE CallOf
  <1> DEFINE call == calls[c]
  <1>1. DOMAIN rows \subseteq Nat /\ inventory \in Int
    BY DEF StockInv, StoredOK
  <1>2. CASE \E i \in call.todo : MarkRow(c, i)
    <2>1. PICK i \in call.todo : MarkRow(c, i)
      BY <1>2
    <2>2. CASE StillActive(i)
      <3> DEFINE next == Call(call.at, call.p, call.to, call.todo \ {i},
                              call.marked \cup {i}, call.counted, call.onHand)
      <3>1. calls' = [calls EXCEPT ![c] = next] /\ UNCHANGED <<inventory, reserved, rows>>
        BY <2>1, <2>2 DEF MarkRow, Become
      <3>2. next \in CallShapes
        BY <1>1 DEF Call, CallShapes, Fits
      <3>3. i \in ActiveRows /\ call.at = "Marking"
        BY <2>1, <2>2 DEF StillActive, ActiveRows, Fits, MarkRow, At
      <3>4. Fits(next)
        BY <3>2, <3>3 DEF Call, Fits
      <3>5. \A d \in Calls \ {c} : next.marked \cap calls[d].marked = {}
        BY <2>1 DEF MarkRow, RowFree, Call
      <3>6. QED
        BY <3>1, <3>4, <3>5, QuietStep
    <2>3. CASE ~StillActive(i)
      <3> DEFINE next == PassOverSettled(call, i)
      <3>1. calls' = [calls EXCEPT ![c] = next] /\ UNCHANGED <<inventory, reserved, rows>>
        BY <2>1, <2>3 DEF MarkRow, Become
      <3>2. next \in CallShapes
        BY DEF PassOverSettled, Call, CallShapes
      <3>3. Fits(next) /\ next.marked \subseteq calls[c].marked
        BY <3>2 DEF PassOverSettled, Call, Fits
      <3> HIDE DEF next
      <3>4. QED
        BY <3>1, <3>3, QuieterStep
    <2>4. QED
      BY <2>2, <2>3
  <1>3. CASE \E i \in call.marked : CountRow(c, i)
    <2>1. PICK i \in call.marked : CountRow(c, i)
      BY <1>3
    <2> DEFINE next == Call(call.at, call.p, call.to, call.todo,
                            call.marked, call.counted \cup {i}, call.onHand)
    <2>2. /\ calls' = [calls EXCEPT ![c] = next] /\ UNCHANGED <<inventory, reserved, rows>>
          /\ call.at = "Marking"
      BY <2>1 DEF CountRow, Become, At
    <2>3. next \in CallShapes
      BY DEF Call, CallShapes
    <2>4. Fits(next) /\ next.marked \subseteq calls[c].marked
      BY <2>2, <2>3 DEF Call, Fits
    <2> HIDE DEF next
    <2>5. QED
      BY <2>2, <2>4, QuieterStep
  <1>4. CASE ReadProduct(c)
    <2> DEFINE next == Call("Claim", call.p, call.to, {}, call.marked, call.counted, inventory)
    <2>1. /\ calls' = [calls EXCEPT ![c] = next] /\ UNCHANGED <<inventory, reserved, rows>>
          /\ call.at = "Marking" /\ call.to = "EXPIRED" /\ call.marked = call.counted
      BY <1>4 DEF ReadProduct, Become, AllMarked, At
    <2>2. next \in CallShapes
      BY <1>1 DEF Call, CallShapes, Stages
    <2>3. Fits(next) /\ next.marked \subseteq calls[c].marked
      BY <2>1, <2>2 DEF Call, Fits
    <2> HIDE DEF next
    <2>4. QED
      BY <2>1, <2>3, QuieterStep
  <1>5. CASE FindHeldStock(c)
    <2> DEFINE next == Call("Marking", call.p, "RELEASED", ActiveRowsOf(call.p), {}, {}, 0)
    <2>1. /\ calls' = [calls EXCEPT ![c] = next] /\ UNCHANGED <<inventory, reserved, rows>>
          /\ call.p \in Purchases
      BY <1>5 DEF FindHeldStock, Become, At, Fits
    <2>2. "Marking" \in Stages /\ "RELEASED" \in HoldStatuses /\ "RELEASED" # "ACTIVE"
          /\ "Marking" # "Claim" /\ ActiveRowsOf(call.p) \in SUBSET (DOMAIN rows)
      BY DEF Stages, HoldStatuses, ActiveRowsOf, ActiveRows
    <2>3. Fits(next)
      BY <2>1, <2>2, BlankFits, Zenon
    <2>4. next.marked \subseteq calls[c].marked
      BY DEF Call
    <2> HIDE DEF next
    <2>5. QED
      BY <2>1, <2>3, <2>4, QuieterStep
  <1>6. QED
    BY <1>2, <1>3, <1>4, <1>5

-----------------------------------------------------------------------------
(* Steps that write rows. *)

RowsIn(s, st) == {i \in DOMAIN s : s[i].status = st}

\* The rows a call leaves behind: its own have the status it gives them, the
\* others are as they were, and no quantity changes.
LEMMA SettledRows ==
    ASSUME StockInv, NEW c \in Calls, calls[c].to # "ACTIVE"
    PROVE  /\ Settled(c) \in Seq(Rows) /\ DOMAIN Settled(c) = DOMAIN rows
           /\ Len(Settled(c)) = Len(rows)
           /\ \A i \in DOMAIN rows : Settled(c)[i].quantity = rows[i].quantity
           /\ RowsIn(Settled(c), "ACTIVE") = ActiveRows \ calls[c].marked
           /\ RowsIn(Settled(c), "COMMITTED")
                = IF calls[c].to = "COMMITTED" THEN CommittedRows \cup calls[c].marked
                  ELSE CommittedRows
  <1> DEFINE s == Settled(c)
  <1>1. rows \in Seq(Rows) /\ DOMAIN rows = 1 .. Len(rows) /\ Len(rows) \in Nat
    BY DEF StockInv, StoredOK
  <1>2. calls[c].to \in HoldStatuses /\ calls[c].marked \subseteq ActiveRows
    BY CallOf DEF Fits, CallShapes
  <1>3. DOMAIN s = 1 .. Len(rows)
    BY <1>1 DEF Settled
  <1>4. ASSUME NEW i \in 1 .. Len(rows)
        PROVE  /\ s[i] \in Rows /\ s[i].quantity = rows[i].quantity
               /\ s[i].status = IF i \in calls[c].marked THEN calls[c].to ELSE rows[i].status
    <2>1. rows[i] \in Rows
      BY <1>1
    <2>2. s[i] = IF i \in calls[c].marked
                   THEN Row(rows[i].purchase, rows[i].quantity, calls[c].to, rows[i].lapsed)
                   ELSE rows[i]
      BY <1>1 DEF Settled
    <2>3. Row(rows[i].purchase, rows[i].quantity, calls[c].to, rows[i].lapsed) \in Rows
      BY <1>2, <2>1 DEF Row, Rows
    <2>4. QED
      BY <2>1, <2>2, <2>3 DEF Row
  <1>5. s \in [1 .. Len(rows) -> Rows]
    BY <1>1, <1>4 DEF Settled
  <1>6. s \in Seq(Rows) /\ Len(s) = Len(rows)
    BY <1>1, <1>5, IsASeq, LenProperties
  <1>7. RowsIn(s, "ACTIVE") = ActiveRows \ calls[c].marked
    BY <1>1, <1>2, <1>3, <1>4 DEF RowsIn, ActiveRows
  <1>8. RowsIn(s, "COMMITTED")
          = IF calls[c].to = "COMMITTED" THEN CommittedRows \cup calls[c].marked ELSE CommittedRows
    BY <1>1, <1>2, <1>3, <1>4 DEF RowsIn, ActiveRows, CommittedRows
  <1>9. QED
    BY <1>1, <1>3, <1>4, <1>6, <1>7, <1>8

\* The other calls still hold what they have written.
LEMMA OthersStillFit ==
    ASSUME StockInv, NEW c \in Calls, Done(c), DOMAIN rows \subseteq DOMAIN rows',
           ActiveRows \ calls[c].marked \subseteq ActiveRows'
    PROVE  CallsFit' /\ OneWriter'
  <1>1. calls \in [Calls -> CallShapes] /\ calls' = [calls EXCEPT ![c] = Idle]
    BY DEF StockInv, CallsFit, Done, Become
  <1>2. calls'[c] = Idle /\ \A d \in Calls \ {c} : calls'[d] = calls[d]
    BY <1>1
  <1>3. Idle \in CallShapes /\ Fits(Idle)'
    BY DEF Fits, Idle, Call, CallShapes, Stages, HoldStatuses
  <1>4. \A d \in Calls \ {c} : Fits(calls[d])'
    <2> SUFFICES ASSUME NEW d \in Calls \ {c} PROVE Fits(calls[d])'
      OBVIOUS
    <2>1. Fits(calls[d]) /\ calls[c].marked \cap calls[d].marked = {}
      BY CallOf
    <2>2. calls'[d] = calls[d] /\ calls[d].marked \subseteq ActiveRows'
      BY <1>2, <2>1 DEF Fits
    <2>3. QED
      BY <2>1, <2>2 DEF Fits
  <1>5. CallsFit'
    BY <1>1, <1>2, <1>3, <1>4 DEF CallsFit
  <1>6. OneWriter'
    BY <1>2 DEF StockInv, OneWriter, Idle, Call
  <1>7. QED
    BY <1>5, <1>6

\* The number of units of rows whose quantities agree, before and after.
LEMMA TotalAfter ==
    ASSUME NEW is, \A i \in is : rows'[i].quantity = rows[i].quantity
    PROVE  Cardinality(UnitsIn(rows', is)) = Total(is)
  <1>1. UnitsIn(rows', is) = UnitsIn(rows, is)
    BY DEF UnitsIn
  <1>2. QED
    BY <1>1, TotalIsOfRows

\* The holds without the rows of a call.
LEMMA HoldsWithout ==
    ASSUME StockInv, NEW c \in Calls
    PROVE  /\ Total(calls[c].marked) \in Nat /\ Total(ActiveRows \ calls[c].marked) \in Nat
           /\ reserved = Total(ActiveRows \ calls[c].marked) + Total(calls[c].marked)
           /\ Total(CommittedRows \cup calls[c].marked)
                = Total(CommittedRows) + Total(calls[c].marked)
  <1> DEFINE mine == calls[c].marked
  <1>1. /\ rows \in Seq(Rows) /\ mine \subseteq ActiveRows /\ reserved = Total(ActiveRows)
        /\ ActiveRows \subseteq DOMAIN rows /\ CommittedRows \subseteq DOMAIN rows
        /\ CommittedRows \cap mine = {}
    BY CallOf DEF StockInv, StoredOK, Fits, CounterMatchesHolds, ActiveRows, CommittedRows
  <1>2. Total(mine) \in Nat /\ Total(ActiveRows \ mine) \in Nat
    <2>1. mine \in SUBSET (DOMAIN rows) /\ ActiveRows \ mine \in SUBSET (DOMAIN rows)
      BY <1>1
    <2>2. QED
      BY <1>1, <2>1, UnitsAreFinite, TotalIsOfRows
  <1>3. Total(ActiveRows) = Total(ActiveRows \ mine) + Total(mine)
    <2>1. /\ ActiveRows \ mine \in SUBSET (DOMAIN rows) /\ mine \in SUBSET (DOMAIN rows)
          /\ (ActiveRows \ mine) \cap mine = {} /\ ActiveRows = (ActiveRows \ mine) \cup mine
      BY <1>1
    <2>2. Total((ActiveRows \ mine) \cup mine) = Total(ActiveRows \ mine) + Total(mine)
      BY <1>1, <2>1, TotalsAdd, Zenon
    <2>3. QED
      BY <2>1, <2>2, Zenon
  <1>4. Total(CommittedRows \cup mine) = Total(CommittedRows) + Total(mine)
    <2>1. CommittedRows \in SUBSET (DOMAIN rows) /\ mine \in SUBSET (DOMAIN rows)
      BY <1>1
    <2>2. QED
      BY <1>1, <2>1, TotalsAdd, Zenon
  <1>5. QED
    BY <1>1, <1>2, <1>3, <1>4

\* A release or a sale commits.
LEMMA SettleKeepsInv ==
    ASSUME StockInv, NEW c \in Calls, calls[c].to # "ACTIVE",
           calls[c].marked = calls[c].counted,
           rows' = Settled(c), reserved' = reserved - Total(calls[c].counted),
           inventory' = IF calls[c].to = "COMMITTED" THEN inventory - Total(calls[c].counted)
                        ELSE inventory,
           Done(c)
    PROVE  StockInv'
  <1> DEFINE mine == calls[c].marked
  <1>1. /\ rows' \in Seq(Rows) /\ DOMAIN rows' = DOMAIN rows
        /\ \A i \in DOMAIN rows : rows'[i].quantity = rows[i].quantity
        /\ ActiveRows' = ActiveRows \ mine
        /\ CommittedRows' = IF calls[c].to = "COMMITTED" THEN CommittedRows \cup mine
                            ELSE CommittedRows
    BY SettledRows DEF RowsIn, ActiveRows, CommittedRows
  <1>2. /\ mine \subseteq ActiveRows /\ ActiveRows \subseteq DOMAIN rows
        /\ CommittedRows \subseteq DOMAIN rows
    BY CallOf DEF Fits, ActiveRows, CommittedRows
  <1>3. CallsFit' /\ OneWriter'
    BY <1>1, OthersStillFit
  <1>4. /\ inventory \in Int /\ 0 <= reserved /\ reserved <= inventory
        /\ inventory + Total(CommittedRows) = OnHand
    BY DEF StockInv, StoredOK, NeverOversold, UnitsConserved, CommittedRows
  <1>5. /\ Total(mine) \in Nat /\ Total(ActiveRows \ mine) \in Nat
        /\ reserved = Total(ActiveRows \ mine) + Total(mine)
        /\ Total(CommittedRows \cup mine) = Total(CommittedRows) + Total(mine)
    BY HoldsWithout
  <1>6. Total(CommittedRows) \in Nat
    <2>1. CommittedRows \in SUBSET (DOMAIN rows) /\ rows \in Seq(Rows)
      BY <1>2 DEF StockInv, StoredOK
    <2>2. QED
      BY <2>1, UnitsAreFinite, TotalIsOfRows
  <1>7. Total(ActiveRows)' = Total(ActiveRows \ mine)
    <2>1. Cardinality(UnitsIn(rows', ActiveRows \ mine)) = Total(ActiveRows \ mine)
      BY <1>1, <1>2, TotalAfter
    <2>2. QED
      BY <1>1, <2>1 DEF Total, Units, UnitsIn
  <1>8. Total(CommittedRows)' = IF calls[c].to = "COMMITTED" THEN Total(CommittedRows \cup mine)
                                ELSE Total(CommittedRows)
    <2>1. /\ Cardinality(UnitsIn(rows', CommittedRows)) = Total(CommittedRows)
          /\ Cardinality(UnitsIn(rows', CommittedRows \cup mine)) = Total(CommittedRows \cup mine)
      BY <1>1, <1>2, TotalAfter
    <2>2. QED
      BY <1>1, <2>1 DEF Total, Units, UnitsIn
  <1>9. reserved' = Total(ActiveRows \ mine)
    BY <1>5
  <1>10. StoredOK' /\ CounterMatchesHolds' /\ NeverOversold'
    BY <1>1, <1>4, <1>5, <1>7, <1>9 DEF StoredOK, CounterMatchesHolds, NeverOversold
  <1>11. UnitsConserved'
    BY <1>4, <1>5, <1>6, <1>8 DEF UnitsConserved, CommittedRows
  <1>12. QED
    BY <1>3, <1>10, <1>11 DEF StockInv

\* A claim commits: its sweep, and one row more.
LEMMA ReserveKeepsInv ==
    ASSUME StockInv, NEW c \in Calls, Reserve(c)
    PROVE  StockInv'
  <1> DEFINE mine == calls[c].marked
             s == Settled(c)
             n == Len(rows) + 1
             q == Quantity[calls[c].p]
             new == Row(calls[c].p, q, "ACTIVE", FALSE)
  <1>1. /\ calls[c].at = "Claim" /\ calls[c].to = "EXPIRED" /\ mine = calls[c].counted
        /\ mine \subseteq ActiveRows /\ calls[c].p \in Purchases /\ calls[c].onHand \in Int
    BY CallOf DEF Reserve, At, Fits, CallShapes
  <1>2. /\ rows' = Append(s, new) /\ Done(c) /\ inventory' = inventory
        /\ reserved' = reserved - Total(mine) + q
        /\ reserved - Total(mine) <= inventory - q
    BY <1>1 DEF Reserve, StockSuffices
  <1>3. q \in Nat /\ q # 0 /\ new \in Rows
    BY <1>1, StockAssumption DEF Row, Rows, HoldStatuses
  <1>4. /\ s \in Seq(Rows) /\ DOMAIN s = DOMAIN rows /\ Len(s) = Len(rows)
        /\ \A i \in DOMAIN rows : s[i].quantity = rows[i].quantity
        /\ RowsIn(s, "ACTIVE") = ActiveRows \ mine /\ RowsIn(s, "COMMITTED") = CommittedRows
    BY <1>1, SettledRows
  <1>5. /\ rows' \in Seq(Rows) /\ DOMAIN rows' = DOMAIN rows \cup {n} /\ n \notin DOMAIN rows
        /\ \A i \in DOMAIN rows : rows'[i] = s[i]
        /\ rows'[n] = new
    <2> HIDE DEF new, s
    <2>1. QED
      BY <1>2, <1>3, <1>4, RowAppended
  <1>6. new.status = "ACTIVE" /\ new.quantity = q
    BY DEF Row
  <1>7. ActiveRows' = (ActiveRows \ mine) \cup {n}
    BY <1>4, <1>5, <1>6 DEF RowsIn, ActiveRows
  <1>8. CommittedRows' = CommittedRows
    BY <1>4, <1>5, <1>6 DEF RowsIn, CommittedRows
  <1>9. CallsFit' /\ OneWriter'
    BY <1>2, <1>5, <1>7, OthersStillFit
  <1>10. \A i \in DOMAIN rows : rows'[i].quantity = rows[i].quantity
    BY <1>4, <1>5
  <1>11. /\ ActiveRows \ mine \in SUBSET (DOMAIN rows') /\ {n} \in SUBSET (DOMAIN rows')
         /\ (ActiveRows \ mine) \cap {n} = {}
         /\ ActiveRows \ mine \subseteq DOMAIN rows /\ CommittedRows \subseteq DOMAIN rows
    BY <1>5 DEF ActiveRows, CommittedRows
  <1>12. Total(ActiveRows)' = Total(ActiveRows \ mine) + q
    <2>1. Cardinality(UnitsIn(rows', ActiveRows \ mine)) = Total(ActiveRows \ mine)
      BY <1>10, <1>11, TotalAfter
    <2>2. Cardinality(UnitsIn(rows', {n})) = q
      <3>1. Cardinality(UnitsIn(rows', {n})) = rows'[n].quantity
        BY <1>5, UnitsOfRow
      <3>2. QED
        BY <1>5, <1>6, <3>1
    <2>3. Cardinality(UnitsIn(rows', (ActiveRows \ mine) \cup {n}))
            = Cardinality(UnitsIn(rows', ActiveRows \ mine)) + Cardinality(UnitsIn(rows', {n}))
      BY <1>5, <1>11, UnitsAdd, Zenon
    <2>4. QED
      BY <1>7, <2>1, <2>2, <2>3 DEF Total, Units, UnitsIn
  <1>13. Total(CommittedRows)' = Total(CommittedRows)
    <2>1. Cardinality(UnitsIn(rows', CommittedRows)) = Total(CommittedRows)
      BY <1>10, <1>11, TotalAfter
    <2>2. QED
      BY <1>8, <2>1 DEF Total, Units, UnitsIn
  <1>14. /\ Total(mine) \in Nat /\ Total(ActiveRows \ mine) \in Nat
         /\ reserved = Total(ActiveRows \ mine) + Total(mine)
    BY HoldsWithout
  <1>15. inventory \in Int /\ reserved \in Int
    BY DEF StockInv, StoredOK
  <1>16. reserved' = Total(ActiveRows \ mine) + q /\ reserved' <= inventory'
    BY <1>2, <1>3, <1>14, <1>15
  <1>17. StoredOK' /\ CounterMatchesHolds' /\ NeverOversold'
    <2>1. CounterMatchesHolds'
      BY <1>12, <1>16 DEF CounterMatchesHolds
    <2>2. reserved' \in Nat
      BY <1>3, <1>14, <1>16
    <2>3. reserved' \in Int /\ 0 <= reserved'
      BY <2>2
    <2>4. StoredOK'
      BY <1>2, <1>5, <1>15, <2>3 DEF StoredOK
    <2>5. NeverOversold'
      BY <1>16, <2>3 DEF NeverOversold
    <2>6. QED
      BY <2>1, <2>4, <2>5
  <1>18. UnitsConserved'
    BY <1>2, <1>13 DEF StockInv, UnitsConserved, CommittedRows
  <1>19. QED
    BY <1>9, <1>17, <1>18 DEF StockInv

\* A hold that lapses is still a hold.
LEMMA LapseKeepsInv ==
    ASSUME StockInv, NEW i \in DOMAIN rows, Lapse(i)
    PROVE  StockInv'
  <1> DEFINE new == Row(rows[i].purchase, rows[i].quantity, "ACTIVE", TRUE)
  <1>1. rows \in Seq(Rows) /\ rows[i] \in Rows /\ rows[i].status = "ACTIVE"
    BY RowOfSeq DEF StockInv, StoredOK, Lapse, ActiveRows
  <1>2. new \in Rows /\ new.status = "ACTIVE" /\ new.quantity = rows[i].quantity
    BY <1>1 DEF Row, Rows, HoldStatuses
  <1>3. /\ rows' = [rows EXCEPT ![i] = new]
        /\ UNCHANGED <<inventory, reserved, calls>>
    BY DEF Lapse
  <1>4. /\ rows' \in Seq(Rows) /\ DOMAIN rows' = DOMAIN rows
        /\ \A j \in DOMAIN rows : /\ rows'[j].quantity = rows[j].quantity
                                  /\ rows'[j].status = rows[j].status
    <2> HIDE DEF new
    <2>1. QED
      BY <1>1, <1>2, <1>3, RowReplaced
  <1>5. ActiveRows' = ActiveRows /\ CommittedRows' = CommittedRows
    BY <1>4 DEF ActiveRows, CommittedRows
  <1>6. Total(ActiveRows)' = Total(ActiveRows) /\ Total(CommittedRows)' = Total(CommittedRows)
    <2>1. /\ Cardinality(UnitsIn(rows', ActiveRows)) = Total(ActiveRows)
          /\ Cardinality(UnitsIn(rows', CommittedRows)) = Total(CommittedRows)
      BY <1>4, TotalAfter DEF ActiveRows, CommittedRows
    <2>2. QED
      BY <1>5, <2>1 DEF Total, Units, UnitsIn
  <1>7. CallsFit' /\ OneWriter'
    <2>1. \A c \in Calls : Fits(calls[c]) => Fits(calls[c])'
      BY <1>3, <1>4, <1>5 DEF Fits
    <2>2. QED
      BY <1>3, <2>1 DEF StockInv, CallsFit, OneWriter
  <1>8. (StoredOK /\ CounterMatchesHolds /\ NeverOversold /\ UnitsConserved)'
    BY <1>3, <1>4, <1>6
       DEF StockInv, StoredOK, CounterMatchesHolds, NeverOversold, UnitsConserved, CommittedRows
  <1>9. QED
    BY <1>7, <1>8 DEF StockInv

\* A move of a purchase touches nothing of the stock.
LEMMA StillKeepsInv ==
    ASSUME StockInv, UNCHANGED <<inventory, reserved, rows, calls>>
    PROVE  StockInv'
  BY DEF StockInv, StoredOK, CallsFit, Fits, OneWriter, CounterMatchesHolds, NeverOversold,
         UnitsConserved, Total, Units, ActiveRows

-----------------------------------------------------------------------------
LEMMA StockInitially == Init => StockInv
  <1> SUFFICES ASSUME Init PROVE StockInv
    OBVIOUS
  <1>1. rows = <<>> /\ inventory = OnHand /\ reserved = 0 /\ OnHand \in Nat
    BY StockAssumption DEF Init
  <1>2. ActiveRows = {} /\ CommittedRows = {} /\ DOMAIN rows = {}
    BY <1>1 DEF ActiveRows, CommittedRows
  <1>3. Total({}) = 0
    <2>1. Units({}) = {}
      BY DEF Units
    <2>2. QED
      BY <2>1, FS_EmptySet DEF Total
  <1>4. CallsFit /\ OneWriter
    <2>1. calls = [c \in Calls |-> Idle] /\ Idle.marked = {}
      BY DEF Init, Idle, Call
    <2>2. Idle \in CallShapes
      BY IdleFits DEF Fits
    <2>3. QED
      BY <2>1, <2>2, IdleFits DEF CallsFit, OneWriter
  <1>5. StoredOK /\ CounterMatchesHolds /\ NeverOversold
    BY <1>1, <1>2, <1>3 DEF StoredOK, CounterMatchesHolds, NeverOversold
  <1>6. UnitsConserved
    BY <1>1, <1>2, <1>3 DEF UnitsConserved, CommittedRows
  <1>7. QED
    BY <1>4, <1>5, <1>6 DEF StockInv

LEMMA StockStep == StockInv /\ [Next]_vars => StockInv'
  <1> SUFFICES ASSUME StockInv, [Next]_vars PROVE StockInv'
    OBVIOUS
  <1>1. CASE \E c \in Calls, p \in Purchases :
                BeginReserve(c, p) \/ DenyRetry(c, p) \/ BeginSale(c, p)
    BY <1>1, BeginKeepsInv
  <1>2. CASE \E c \in Calls : CallStep(c) \/ Crash(c)
    <2>1. PICK c \in Calls : CallStep(c) \/ Crash(c)
      BY <1>2
    <2>2. CASE \/ \E i \in calls[c].todo : MarkRow(c, i)
               \/ \E i \in calls[c].marked : CountRow(c, i)
               \/ ReadProduct(c) \/ FindHeldStock(c)
      BY <2>2, WriteKeepsInv
    <2>3. CASE Reserve(c)
      BY <2>3, ReserveKeepsInv
    <2>4. CASE RefuseReservation(c) \/ DeadlockVictim(c) \/ Crash(c)
      BY <2>4, EndKeepsInv DEF RefuseReservation, DeadlockVictim, Crash
    <2>5. CASE Release(c)
      <3>1. /\ calls[c].to = "RELEASED" /\ calls[c].marked = calls[c].counted
            /\ rows' = Settled(c) /\ reserved' = reserved - Total(calls[c].counted)
            /\ Done(c) /\ inventory' = inventory
        BY <2>5 DEF Release, AllMarked
      <3>2. QED
        BY <3>1, SettleKeepsInv
    <2>6. CASE Sell(c)
      <3>1. /\ calls[c].to = "COMMITTED" /\ calls[c].marked = calls[c].counted
            /\ rows' = Settled(c) /\ reserved' = reserved - Total(calls[c].counted)
            /\ Done(c) /\ inventory' = inventory - Total(calls[c].counted)
        BY <2>6 DEF Sell, AllMarked, HeldAfterSale
      <3>2. QED
        BY <3>1, SettleKeepsInv
    <2>7. QED
      BY <2>1, <2>2, <2>3, <2>4, <2>5, <2>6 DEF CallStep
  <1>3. CASE \E i \in DOMAIN rows : Lapse(i)
    BY <1>3, LapseKeepsInv
  <1>4. CASE \E p \in Purchases, m \in OtherMoves : MoveByOthers(p, m)
    BY <1>4, StillKeepsInv DEF MoveByOthers
  <1>5. CASE UNCHANGED vars
    BY <1>5, StillKeepsInv DEF vars
  <1>6. QED
    BY <1>1, <1>2, <1>3, <1>4, <1>5 DEF Next

LEMMA StockInductive == Spec => []StockInv
  BY StockInitially, StockStep, PTL DEF Spec

\* The counter of the product is what its holds add up to, however many
\* purchases, sweeps, releases and sales run at the same time.
THEOREM StockCounterIsExact == Spec => []CounterMatchesHolds
  <1>1. StockInv => CounterMatchesHolds
    BY DEF StockInv
  <1>2. QED
    BY <1>1, StockInductive, PTL

\* No hold is ever granted for a unit that is not there.
THEOREM StockNeverOversold == Spec => []NeverOversold
  <1>1. StockInv => NeverOversold
    BY DEF StockInv
  <1>2. QED
    BY <1>1, StockInductive, PTL

\* A unit leaves the stock only by being sold.
THEOREM StockIsConserved == Spec => []UnitsConserved
  <1>1. StockInv => UnitsConserved
    BY DEF StockInv
  <1>2. QED
    BY <1>1, StockInductive, PTL

-----------------------------------------------------------------------------
(* Sweeps. *)

\* A sweep has only lapsed holds in hand, and only lapsed holds are expired.
SweepInv ==
    /\ \A c \in Calls : calls[c].to = "EXPIRED" =>
          \A i \in calls[c].todo \cup calls[c].marked : rows[i].lapsed
    /\ \A i \in DOMAIN rows : rows[i].status = "EXPIRED" => rows[i].lapsed

\* What a step may make of the rows there are.
RowsGoOn ==
    /\ DOMAIN rows \subseteq DOMAIN rows'
    /\ \A i \in DOMAIN rows :
          /\ rows[i].status # "ACTIVE" => rows'[i] = rows[i]
          /\ rows'[i].status = "EXPIRED" => rows[i].lapsed
          /\ rows[i].lapsed => rows'[i].lapsed
    /\ \A i \in DOMAIN rows' \ DOMAIN rows : rows'[i].status # "EXPIRED"

\* One row of those a call leaves behind.
LEMMA SettledRow ==
    ASSUME StockInv, SweepInv, NEW c \in Calls, NEW i \in DOMAIN rows
    PROVE  /\ rows[i].status # "ACTIVE" => Settled(c)[i] = rows[i]
           /\ Settled(c)[i].status = "EXPIRED" => rows[i].lapsed
           /\ Settled(c)[i].lapsed = rows[i].lapsed
  <1>1. calls[c].marked \subseteq ActiveRows
    BY CallOf DEF Fits
  <1>2. Settled(c)[i] = IF i \in calls[c].marked
                          THEN Row(rows[i].purchase, rows[i].quantity, calls[c].to, rows[i].lapsed)
                          ELSE rows[i]
    BY DEF Settled
  <1>3. QED
    BY <1>1, <1>2 DEF SweepInv, Row, ActiveRows

LEMMA EveryStepRowsGoOn ==
    ASSUME StockInv, SweepInv, [Next]_vars
    PROVE  RowsGoOn
  <1>1. rows \in Seq(Rows)
    BY DEF StockInv, StoredOK
  <1>2. CASE rows' = rows
    BY <1>2 DEF RowsGoOn, SweepInv
  <1>3. ASSUME NEW c \in Calls, Release(c) \/ Sell(c)
        PROVE  RowsGoOn
    <2>1. rows' = Settled(c)
      BY <1>3 DEF Release, Sell
    <2>2. DOMAIN rows' = DOMAIN rows
      BY <2>1 DEF Settled
    <2>3. QED
      BY <2>1, <2>2, SettledRow DEF RowsGoOn
  <1>4. ASSUME NEW c \in Calls, Reserve(c)
        PROVE  RowsGoOn
    <2> DEFINE p == calls[c].p
               new == Row(p, Quantity[p], "ACTIVE", FALSE)
    <2>1. rows' = Append(Settled(c), new) /\ calls[c].to = "EXPIRED" /\ p \in Purchases
      BY <1>4, CallOf DEF Reserve, At, Fits
    <2>2. Settled(c) \in Seq(Rows) /\ DOMAIN Settled(c) = DOMAIN rows
      BY <2>1, SettledRows
    <2>3. new \in Rows /\ new.status = "ACTIVE"
      BY <2>1, StockAssumption DEF Row, Rows, HoldStatuses
    <2> HIDE DEF new
    <2>4. /\ DOMAIN rows' = DOMAIN rows \cup {Len(Settled(c)) + 1}
          /\ \A i \in DOMAIN rows : rows'[i] = Settled(c)[i]
          /\ rows'[Len(Settled(c)) + 1] = new
      BY <2>1, <2>2, <2>3, RowAppended
    <2>5. QED
      BY <2>3, <2>4, SettledRow DEF RowsGoOn
  <1>5. ASSUME NEW i \in DOMAIN rows, Lapse(i)
        PROVE  RowsGoOn
    <2> DEFINE new == Row(rows[i].purchase, rows[i].quantity, "ACTIVE", TRUE)
    <2>1. rows' = [rows EXCEPT ![i] = new] /\ rows[i].status = "ACTIVE"
      BY <1>5 DEF Lapse, ActiveRows
    <2>2. new \in Rows /\ new.status = "ACTIVE" /\ new.lapsed
      BY <1>1, RowOfSeq DEF Row, Rows, HoldStatuses
    <2> HIDE DEF new
    <2>3. QED
      BY <1>1, <2>1, <2>2, RowReplaced DEF RowsGoOn, SweepInv
  <1>6. QED
    BY <1>2, <1>3, <1>4, <1>5
       DEF Next, vars, CallStep, BeginReserve, DenyRetry, BeginSale, MarkRow, CountRow, ReadProduct,
           RefuseReservation, FindHeldStock, DeadlockVictim, Crash, MoveByOthers

\* A call has no other rows in hand than before, or it is no sweep, or it is
\* a sweep that begins with the holds that have lapsed.
LEMMA RowsInHand ==
    ASSUME StockInv, [Next]_vars, NEW c \in Calls
    PROVE  \/ /\ calls'[c].to = calls[c].to
              /\ calls'[c].todo \cup calls'[c].marked \subseteq calls[c].todo \cup calls[c].marked
           \/ calls'[c].to # "EXPIRED"
           \/ calls'[c].todo \cup calls'[c].marked \subseteq LapsedRows
  <1>1. calls \in [Calls -> CallShapes]
    BY DEF StockInv, CallsFit
  <1>2. CASE calls' = calls
    BY <1>2
  <1>3. ASSUME NEW d \in Calls, NEW p \in Purchases,
               BeginReserve(d, p) \/ DenyRetry(d, p) \/ BeginSale(d, p)
        PROVE  /\ \A e \in Calls \ {d} : calls'[e] = calls[e]
               /\ \/ calls'[d].to # "EXPIRED"
                  \/ calls'[d].todo \cup calls'[d].marked \subseteq LapsedRows
    BY <1>1, <1>3 DEF BeginReserve, DenyRetry, BeginSale, Become, Call
  <1>4. ASSUME NEW d \in Calls,
               \/ \E i \in calls[d].todo : MarkRow(d, i)
               \/ \E i \in calls[d].marked : CountRow(d, i)
               \/ ReadProduct(d)
        PROVE  /\ \A e \in Calls \ {d} : calls'[e] = calls[e]
               /\ calls'[d].to = calls[d].to
               /\ calls'[d].todo \cup calls'[d].marked \subseteq calls[d].todo \cup calls[d].marked
    BY <1>1, <1>4 DEF MarkRow, CountRow, ReadProduct, PassOverSettled, Become, Call
  <1>5. ASSUME NEW d \in Calls,
               \/ Reserve(d) \/ RefuseReservation(d) \/ FindHeldStock(d) \/ Release(d)
               \/ Sell(d) \/ DeadlockVictim(d) \/ Crash(d)
        PROVE  /\ \A e \in Calls \ {d} : calls'[e] = calls[e]
               /\ calls'[d].to # "EXPIRED"
    <2>1. CASE FindHeldStock(d)
      BY <1>1, <2>1 DEF FindHeldStock, Become, Call
    <2>2. CASE Done(d)
      BY <1>1, <2>2 DEF Done, Become, Idle, Call
    <2>3. QED
      BY <1>5, <2>1, <2>2 DEF Reserve, RefuseReservation, Release, Sell, DeadlockVictim, Crash
  <1>6. QED
    BY <1>2, <1>3, <1>4, <1>5 DEF Next, CallStep, vars, Lapse, MoveByOthers

LEMMA SweepInductive == Spec => [](StockInv /\ SweepInv)
  <1>1. Init => SweepInv
    BY DEF Init, SweepInv, Idle, Call
  <1>2. StockInv /\ SweepInv /\ [Next]_vars => SweepInv'
    <2> SUFFICES ASSUME StockInv, SweepInv, [Next]_vars PROVE SweepInv'
      OBVIOUS
    <2>1. RowsGoOn
      BY EveryStepRowsGoOn
    <2>2. \A i \in DOMAIN rows' : rows'[i].status = "EXPIRED" => rows'[i].lapsed
      BY <2>1 DEF RowsGoOn
    <2>3. ASSUME NEW c \in Calls, calls'[c].to = "EXPIRED",
                 NEW i \in calls'[c].todo \cup calls'[c].marked
          PROVE  rows'[i].lapsed
      <3>1. calls[c].todo \cup calls[c].marked \subseteq DOMAIN rows /\ LapsedRows \subseteq DOMAIN rows
        BY CallOf DEF Fits, ActiveRows, LapsedRows
      <3>2. i \in DOMAIN rows /\ rows[i].lapsed
        BY <2>3, <3>1, RowsInHand DEF SweepInv, LapsedRows
      <3>3. QED
        BY <2>1, <3>2 DEF RowsGoOn
    <2>4. QED
      BY <2>2, <2>3 DEF SweepInv
  <1>3. QED
    BY <1>1, <1>2, StockInitially, StockStep, PTL DEF Spec

\* What became of a hold is final, and only a hold that has lapsed is swept.
THEOREM StockHoldsEndOnce == Spec => HoldsEndOnce
  <1>1. StockInv /\ SweepInv /\ [Next]_vars =>
            [\A i \in DOMAIN rows :
                /\ rows[i].status # "ACTIVE" => rows'[i] = rows[i]
                /\ rows'[i].status = "EXPIRED" => rows[i].lapsed]_rows
    BY EveryStepRowsGoOn DEF RowsGoOn
  <1>2. QED
    BY <1>1, SweepInductive, PTL DEF Spec, HoldsEndOnce

-----------------------------------------------------------------------------
(* The purchases and their holds.  A sale is one transaction of many steps: *)
(* from its first read on nobody else may move its purchase, and whatever   *)
(* the purchase holds is in the sale's hands.                               *)

Selling(c) == At(c, "Marking") /\ calls[c].to = "COMMITTED"
InHand(call) == call.todo \cup call.marked

\* A sale in progress has in hand all the holds of its purchase and no others.
SaleInProgress(c) ==
    Selling(c) =>
        /\ Capture(calls[c].p).kind = "APPLY"
        /\ ActiveRowsOf(calls[c].p) \subseteq InHand(calls[c])
        /\ \A i \in InHand(calls[c]) : rows[i].purchase = calls[c].p
        /\ \A d \in Calls \ {c} : Selling(d) => calls[d].p # calls[c].p

\* A purchase never has two holds, nor two that were sold.
SoldWithPurchase(p) ==
    /\ status[p] = "COMPLETED" <=> SoldRowsOf(p) # {}
    /\ \A i, j \in SoldRowsOf(p) : i = j
    /\ \A i, j \in ActiveRowsOf(p) : i = j
    /\ status[p] \in {"PAYMENT_CAPTURED", "COMPLETED"} => ActiveRowsOf(p) = {}

SaleInv ==
    /\ status \in [Purchases -> TransactionStates]
    /\ \A c \in Calls : SaleInProgress(c)
    /\ \A p \in Purchases : SoldWithPurchase(p)

\* A capture applies in no state in which stock can be reserved, and none that
\* is captured already; it leads to one that can be completed.
LEMMA CaptureApplies ==
    ASSUME NEW p \in Purchases, Capture(p).kind = "APPLY"
    PROVE  /\ status[p] \notin {"AUTHORIZED", "PAYMENT_CAPTURED", "COMPLETED"}
           /\ Capture(p).to = "PAYMENT_CAPTURED"
  BY ResolveApplies, CaptureEdges DEF Capture

\* A reservation applies to an authorized purchase or not at all.
LEMMA ReservationMoves ==
    ASSUME NEW c \in Calls, Decision(c).kind # "INVALID"
    PROVE  status[calls[c].p] = "AUTHORIZED" /\ Decision(c).to = "INVENTORY_RESERVED"
  <1>1. "INVENTORY_RESERVED" \notin ExternalPaymentEvents
    BY DEF ExternalPaymentEvents
  <1>2. Decision(c).kind = "APPLY"
    BY <1>1 DEF Decision, Resolve
  <1>3. QED
    BY <1>2, ResolveApplies, RequoteEdges DEF Decision

\* The moves of the other services neither capture nor complete.
LEMMA OtherMovesBookNothing ==
    ASSUME NEW p \in Purchases, NEW m \in OtherMoves, Resolve(status[p], m[1], m[2]).kind = "APPLY"
    PROVE  /\ status[p] \notin {"PAYMENT_CAPTURED", "COMPLETED"}
           /\ Resolve(status[p], m[1], m[2]).to \notin {"PAYMENT_CAPTURED", "COMPLETED"}
  <1>1. m[1] \notin {"PAYMENT_CAPTURE_CONFIRMED", "TRANSACTION_COMPLETED"}
    BY StockAssumption
  <1>2. PICK t \in Transitions :
            /\ t.from = status[p] /\ t.event = m[1]
            /\ Resolve(status[p], m[1], m[2]).to = t.to
    BY ResolveApplies
  <1>3. QED
    BY <1>1, <1>2, CaptureEdges

\* One call goes on while purchases and rows stay.
LEMMA SaleGoesOn ==
    ASSUME StockInv, SaleInv, NEW c \in Calls, NEW call, calls' = [calls EXCEPT ![c] = call],
           UNCHANGED <<status, rows>>,
           call.at = "Marking" /\ call.to = "COMMITTED" =>
               /\ Capture(call.p).kind = "APPLY"
               /\ ActiveRowsOf(call.p) \subseteq InHand(call)
               /\ \A i \in InHand(call) : rows[i].purchase = call.p
               /\ \A d \in Calls \ {c} : Selling(d) => calls[d].p # call.p
    PROVE  SaleInv'
  <1>1. calls \in [Calls -> CallShapes]
    BY DEF StockInv, CallsFit
  <1>2. calls'[c] = call /\ \A d \in Calls \ {c} : calls'[d] = calls[d]
    BY <1>1
  <1>3. \A d \in Calls \ {c} : Selling(d)' = Selling(d)
    BY <1>2 DEF Selling, At
  <1>4. \A p : ActiveRowsOf(p)' = ActiveRowsOf(p) /\ SoldRowsOf(p)' = SoldRowsOf(p)
               /\ Capture(p)' = Capture(p)
    BY DEF ActiveRowsOf, ActiveRows, SoldRowsOf, Capture
  <1>5. SaleInProgress(c)'
    BY <1>2, <1>3, <1>4 DEF SaleInProgress, Selling, At
  <1>6. ASSUME NEW d \in Calls \ {c} PROVE SaleInProgress(d)'
    <2>1. SUFFICES ASSUME Selling(d)' PROVE
              /\ Capture(calls[d].p).kind = "APPLY"
              /\ ActiveRowsOf(calls[d].p) \subseteq InHand(calls[d])
              /\ \A i \in InHand(calls[d]) : rows[i].purchase = calls[d].p
              /\ \A e \in Calls \ {d} : Selling(e)' => calls'[e].p # calls[d].p
      BY <1>2, <1>4 DEF SaleInProgress, InHand
    <2>2. Selling(d) /\ SaleInProgress(d)
      BY <1>3, <2>1 DEF SaleInv
    <2>3. Selling(c)' => calls'[c].p # calls[d].p
      BY <1>2, <2>2 DEF Selling, At
    <2>4. QED
      BY <1>2, <1>3, <2>2, <2>3 DEF SaleInProgress
  <1>7. \A p \in Purchases : SoldWithPurchase(p)'
    BY <1>4 DEF SaleInv, SoldWithPurchase
  <1>8. QED
    BY <1>5, <1>6, <1>7 DEF SaleInv

\* Calls that begin.
LEMMA BeginKeepsSale ==
    ASSUME StockInv, SaleInv, NEW c \in Calls, NEW p \in Purchases,
           BeginReserve(c, p) \/ DenyRetry(c, p) \/ BeginSale(c, p)
    PROVE  SaleInv'
  <1>1. CASE BeginReserve(c, p) \/ DenyRetry(c, p)
    <2>1. PICK at, to, todo : /\ ~(at = "Marking" /\ to = "COMMITTED")
                              /\ calls' = [calls EXCEPT ![c] = Call(at, p, to, todo, {}, {}, 0)]
      BY <1>1 DEF BeginReserve, DenyRetry, Become
    <2>2. PICK call : call = Call(at, p, to, todo, {}, {}, 0)
      OBVIOUS
    <2>3. ~(call.at = "Marking" /\ call.to = "COMMITTED") /\ calls' = [calls EXCEPT ![c] = call]
      BY <2>1, <2>2 DEF Call
    <2>4. UNCHANGED <<status, rows>>
      BY <1>1 DEF BeginReserve, DenyRetry
    <2>5. QED
      BY <2>3, <2>4, SaleGoesOn
  <1>2. CASE BeginSale(c, p)
    <2>1. PICK call : call = Call("Marking", p, "COMMITTED", ActiveRowsOf(p), {}, {}, 0)
      OBVIOUS
    <2>2. /\ calls' = [calls EXCEPT ![c] = call] /\ UNCHANGED <<status, rows>>
          /\ Capture(p).kind = "APPLY" /\ ~BeingSold(p)
      BY <1>2, <2>1 DEF BeginSale, Become, SellableRows
    <2>3. call.p = p /\ InHand(call) = ActiveRowsOf(p)
      BY <2>1 DEF Call, InHand
    <2>4. \A i \in InHand(call) : rows[i].purchase = p
      BY <2>3 DEF ActiveRowsOf
    <2>5. \A d \in Calls : Selling(d) => calls[d].p # p
      BY <2>2 DEF BeingSold, Selling
    <2>6. QED
      BY <2>2, <2>3, <2>4, <2>5, SaleGoesOn
  <1>3. QED
    BY <1>1, <1>2

\* Calls that write a row, count it, read the product, find their rows or end.
LEMMA WriteKeepsSale ==
    ASSUME StockInv, SaleInv, NEW c \in Calls,
           \/ \E i \in calls[c].todo : MarkRow(c, i)
           \/ \E i \in calls[c].marked : CountRow(c, i)
           \/ ReadProduct(c) \/ FindHeldStock(c)
           \/ RefuseReservation(c) \/ DeadlockVictim(c) \/ Crash(c)
    PROVE  SaleInv'
  <1>1. UNCHANGED <<status, rows>>
    BY DEF MarkRow, CountRow, ReadProduct, FindHeldStock, RefuseReservation, DeadlockVictim, Crash
  <1>2. SaleInProgress(c)
    BY DEF SaleInv
  <1>3. ASSUME NEW call, calls' = [calls EXCEPT ![c] = call],
               ~(call.at = "Marking" /\ call.to = "COMMITTED")
        PROVE  SaleInv'
    BY <1>1, <1>3, SaleGoesOn
  <1>4. ASSUME NEW call, calls' = [calls EXCEPT ![c] = call], At(c, "Marking"),
               call.to = calls[c].to, call.p = calls[c].p,
               InHand(call) \subseteq InHand(calls[c]),
               \A i \in InHand(calls[c]) \ InHand(call) : i \notin ActiveRows
        PROVE  SaleInv'
    <2>1. ASSUME call.at = "Marking" /\ call.to = "COMMITTED" PROVE Selling(c)
      BY <1>4, <2>1 DEF Selling
    <2>2. ActiveRowsOf(calls[c].p) \subseteq InHand(calls[c]) => ActiveRowsOf(call.p) \subseteq InHand(call)
      BY <1>4 DEF ActiveRowsOf
    <2>3. QED
      BY <1>1, <1>2, <1>4, <2>1, <2>2, SaleGoesOn DEF SaleInProgress
  <1>5. CASE \E i \in calls[c].todo : MarkRow(c, i)
    <2>1. PICK i \in calls[c].todo : MarkRow(c, i)
      BY <1>5
    <2>2. CASE StillActive(i)
      <3>1. PICK call : call = Call(calls[c].at, calls[c].p, calls[c].to, calls[c].todo \ {i},
                                    calls[c].marked \cup {i}, calls[c].counted, calls[c].onHand)
        OBVIOUS
      <3>2. /\ calls' = [calls EXCEPT ![c] = call] /\ At(c, "Marking")
            /\ call.to = calls[c].to /\ call.p = calls[c].p
        BY <2>1, <2>2, <3>1 DEF MarkRow, Become, Call
      <3>3. InHand(call) = InHand(calls[c])
        BY <3>1 DEF InHand, Call
      <3>4. QED
        BY <1>4, <3>2, <3>3
    <2>3. CASE ~StillActive(i)
      <3>1. PICK call : call = PassOverSettled(calls[c], i)
        OBVIOUS
      <3>2. /\ calls' = [calls EXCEPT ![c] = call] /\ At(c, "Marking")
            /\ call.to = calls[c].to /\ call.p = calls[c].p
        BY <2>1, <2>3, <3>1 DEF MarkRow, Become, PassOverSettled, Call
      <3>3. InHand(call) \subseteq InHand(calls[c]) /\ InHand(calls[c]) \ InHand(call) \subseteq {i}
        BY <3>1 DEF InHand, PassOverSettled, Call
      <3>4. i \notin ActiveRows
        BY <2>3 DEF StillActive, ActiveRows
      <3>5. QED
        BY <1>4, <3>2, <3>3, <3>4
    <2>4. QED
      BY <2>2, <2>3
  <1>6. CASE \E i \in calls[c].marked : CountRow(c, i)
    <2>1. PICK i \in calls[c].marked : CountRow(c, i)
      BY <1>6
    <2>2. PICK call : call = Call(calls[c].at, calls[c].p, calls[c].to, calls[c].todo,
                                  calls[c].marked, calls[c].counted \cup {i}, calls[c].onHand)
      OBVIOUS
    <2>3. /\ calls' = [calls EXCEPT ![c] = call] /\ At(c, "Marking")
          /\ call.to = calls[c].to /\ call.p = calls[c].p /\ InHand(call) = InHand(calls[c])
      BY <2>1, <2>2 DEF CountRow, Become, Call, InHand
    <2>4. QED
      BY <1>4, <2>3
  <1>7. CASE ReadProduct(c)
    <2>1. PICK call : call = Call("Claim", calls[c].p, calls[c].to, {}, calls[c].marked,
                                  calls[c].counted, inventory)
      OBVIOUS
    <2>2. calls' = [calls EXCEPT ![c] = call] /\ call.at = "Claim"
      BY <1>7, <2>1 DEF ReadProduct, Become, Call
    <2>3. QED
      BY <1>3, <2>2
  <1>8. CASE FindHeldStock(c)
    <2>1. PICK call : call = Call("Marking", calls[c].p, "RELEASED", ActiveRowsOf(calls[c].p),
                                  {}, {}, 0)
      OBVIOUS
    <2>2. calls' = [calls EXCEPT ![c] = call] /\ call.to = "RELEASED"
      BY <1>8, <2>1 DEF FindHeldStock, Become, Call
    <2>3. QED
      BY <1>3, <2>2
  <1>9. CASE Done(c)
    BY <1>3, <1>9 DEF Done, Become, Idle, Call
  <1>10. QED
    BY <1>5, <1>6, <1>7, <1>8, <1>9 DEF RefuseReservation, DeadlockVictim, Crash

\* Other sales go on when a call ends and leaves their purchases and holds alone.
LEMMA OthersStillSell ==
    ASSUME StockInv, SaleInv, NEW c \in Calls, Done(c),
           \A i \in DOMAIN rows : rows'[i].purchase = rows[i].purchase,
           \A p \in Purchases : (\E d \in Calls \ {c} : Selling(d) /\ calls[d].p = p) =>
               status'[p] = status[p] /\ ActiveRowsOf(p)' \subseteq ActiveRowsOf(p)
    PROVE  \A d \in Calls : SaleInProgress(d)'
  <1>1. calls \in [Calls -> CallShapes] /\ calls' = [calls EXCEPT ![c] = Idle]
    BY DEF StockInv, CallsFit, Done, Become
  <1>2. calls'[c] = Idle /\ \A d \in Calls \ {c} : calls'[d] = calls[d]
    BY <1>1
  <1>3. ~Selling(c)' /\ \A d \in Calls \ {c} : Selling(d)' = Selling(d)
    BY <1>2 DEF Selling, At, Idle, Call
  <1>4. ASSUME NEW d \in Calls, Selling(d)' PROVE SaleInProgress(d)'
    <2>1. d # c /\ Selling(d) /\ calls'[d] = calls[d]
      BY <1>2, <1>3, <1>4
    <2>2. SaleInProgress(d) /\ InHand(calls[d]) \subseteq DOMAIN rows
      BY <2>1, CallOf DEF SaleInv, Fits, InHand, ActiveRows
    <2> DEFINE p == calls[d].p
    <2>3. Capture(p)'.kind = "APPLY" /\ p' = p
      <3>1. p \in Purchases /\ status'[p] = status[p] /\ p' = p
        BY <2>1, CallOf DEF Fits, Selling, At
      <3>2. QED
        BY <2>1, <2>2, <3>1 DEF SaleInProgress, Capture
    <2>4. /\ ActiveRowsOf(p)' \subseteq InHand(calls[d])'
          /\ \A i \in InHand(calls[d])' : rows'[i].purchase = calls'[d].p
      <3>1. PICK q : q = p
        OBVIOUS
      <3>2. q \in Purchases /\ ActiveRowsOf(q)' \subseteq ActiveRowsOf(q)
        BY <2>1, <3>1, CallOf DEF Fits, Selling, At
      <3>3. ActiveRowsOf(q) \subseteq InHand(calls[d]) /\ p' = q
        BY <2>1, <2>2, <2>3, <3>1 DEF SaleInProgress
      <3>4. ActiveRowsOf(p)' = ActiveRowsOf(q)'
        BY <3>3 DEF ActiveRowsOf
      <3>5. \A i \in InHand(calls[d]) : rows'[i].purchase = calls[d].p
        BY <2>1, <2>2 DEF SaleInProgress
      <3>6. InHand(calls[d])' = InHand(calls[d])
        BY <2>1 DEF InHand
      <3>7. QED
        BY <2>1, <3>2, <3>3, <3>4, <3>5, <3>6
    <2>5. \A e \in Calls \ {d} : Selling(e)' => calls'[e].p # calls'[d].p
      BY <1>2, <1>3, <2>1, <2>2 DEF SaleInProgress
    <2>6. QED
      BY <2>3, <2>4, <2>5 DEF SaleInProgress, InHand
  <1>5. QED
    BY <1>4 DEF SaleInProgress

\* What a call that settles its rows makes of the holds of a purchase.
LEMMA HoldsAfter ==
    ASSUME StockInv, NEW c \in Calls, calls[c].to # "ACTIVE", rows' = Settled(c)
    PROVE  /\ \A i \in DOMAIN rows : rows'[i].purchase = rows[i].purchase
           /\ \A p : /\ ActiveRowsOf(p)' = ActiveRowsOf(p) \ calls[c].marked
                     /\ SoldRowsOf(p)' =
                            IF calls[c].to = "COMMITTED"
                              THEN SoldRowsOf(p) \cup {i \in calls[c].marked : rows[i].purchase = p}
                              ELSE SoldRowsOf(p)
  <1>1. /\ DOMAIN rows' = DOMAIN rows
        /\ ActiveRows' = ActiveRows \ calls[c].marked
        /\ CommittedRows' = IF calls[c].to = "COMMITTED" THEN CommittedRows \cup calls[c].marked
                            ELSE CommittedRows
    BY SettledRows DEF RowsIn, ActiveRows, CommittedRows
  <1>2. calls[c].marked \subseteq ActiveRows /\ ActiveRows \subseteq DOMAIN rows
    BY CallOf DEF Fits, ActiveRows
  <1>3. \A i \in DOMAIN rows : rows'[i].purchase = rows[i].purchase
    BY DEF Settled, Row
  <1>4. \A p : SoldRowsOf(p) = {i \in CommittedRows : rows[i].purchase = p}
    BY DEF SoldRowsOf, CommittedRows
  <1>5. \A p : SoldRowsOf(p)' = {i \in CommittedRows' : rows'[i].purchase = p}
    BY DEF SoldRowsOf, CommittedRows
  <1>6. CommittedRows \subseteq DOMAIN rows
    BY DEF CommittedRows
  <1>7. \A p : ActiveRowsOf(p)' = ActiveRowsOf(p) \ calls[c].marked
    BY <1>1, <1>2, <1>3 DEF ActiveRowsOf
  <1>8. QED
    BY <1>1, <1>2, <1>3, <1>4, <1>5, <1>6, <1>7

\* A release returns what it found, and sells nothing.
LEMMA ReleaseKeepsSale ==
    ASSUME StockInv, SaleInv, NEW c \in Calls, Release(c)
    PROVE  SaleInv'
  <1>1. rows' = Settled(c) /\ status' = status /\ Done(c) /\ calls[c].to = "RELEASED"
    BY DEF Release, AllMarked
  <1>2. /\ \A i \in DOMAIN rows : rows'[i].purchase = rows[i].purchase
        /\ \A p : ActiveRowsOf(p)' \subseteq ActiveRowsOf(p) /\ SoldRowsOf(p)' = SoldRowsOf(p)
    BY <1>1, HoldsAfter
  <1>3. \A d \in Calls : SaleInProgress(d)'
    BY <1>1, <1>2, OthersStillSell
  <1>4. \A p \in Purchases : SoldWithPurchase(p)'
    BY <1>1, <1>2 DEF SaleInv, SoldWithPurchase
  <1>5. QED
    BY <1>1, <1>3, <1>4 DEF SaleInv

\* A sale takes the one hold of its purchase, if there still is one.
LEMMA SellKeepsSale ==
    ASSUME StockInv, SaleInv, NEW c \in Calls, Sell(c)
    PROVE  SaleInv'
  <1>1. PICK p, mine : p = calls[c].p /\ mine = calls[c].marked
    OBVIOUS
  <1>2. /\ rows' = Settled(c) /\ Done(c) /\ calls[c].to = "COMMITTED" /\ calls[c].todo = {}
        /\ Selling(c) /\ p \in Purchases /\ mine \subseteq ActiveRows
    BY <1>1, CallOf DEF Sell, AllMarked, Selling, Fits, At
  <1>3. /\ Capture(p).kind = "APPLY" /\ ActiveRowsOf(p) \subseteq mine
        /\ \A i \in mine : rows[i].purchase = p
        /\ \A d \in Calls \ {c} : Selling(d) => calls[d].p # p
    BY <1>1, <1>2 DEF SaleInv, SaleInProgress, InHand
  <1>4. ActiveRowsOf(p) = mine
    BY <1>2, <1>3 DEF ActiveRowsOf
  <1>5. /\ status \in [Purchases -> TransactionStates]
        /\ status' = [status EXCEPT ![p] = IF mine = {} THEN "PAYMENT_CAPTURED" ELSE "COMPLETED"]
    BY <1>1, <1>2, <1>3, CaptureApplies, CaptureCompletes DEF Sell, SaleInv
  <1>6. status[p] \notin {"PAYMENT_CAPTURED", "COMPLETED"}
    BY <1>2, <1>3, CaptureApplies
  <1>7. /\ \A i \in DOMAIN rows : rows'[i].purchase = rows[i].purchase
        /\ \A q : /\ ActiveRowsOf(q)' = ActiveRowsOf(q) \ mine
                  /\ SoldRowsOf(q)' = SoldRowsOf(q) \cup {i \in mine : rows[i].purchase = q}
    BY <1>1, <1>2, HoldsAfter
  <1>8. \A d \in Calls : SaleInProgress(d)'
    <2>1. \A q \in Purchases : q # p => status'[q] = status[q]
      BY <1>5
    <2>2. QED
      BY <1>2, <1>3, <1>7, <2>1, OthersStillSell
  <1>9. SoldWithPurchase(p)'
    <2>1. SoldRowsOf(p) = {} /\ \A i, j \in mine : i = j
      BY <1>2, <1>4, <1>6 DEF SaleInv, SoldWithPurchase
    <2>2. SoldRowsOf(p)' = mine /\ ActiveRowsOf(p)' = {}
      BY <1>3, <1>4, <1>7, <2>1
    <2>3. status'[p] = IF mine = {} THEN "PAYMENT_CAPTURED" ELSE "COMPLETED"
      BY <1>2, <1>5
    <2>4. QED
      BY <2>1, <2>2, <2>3 DEF SoldWithPurchase
  <1>10. ASSUME NEW q \in Purchases, q # p PROVE SoldWithPurchase(q)'
    <2>1. status'[q] = status[q] /\ SoldWithPurchase(q)
      BY <1>5, <1>10 DEF SaleInv
    <2>2. SoldRowsOf(q)' = SoldRowsOf(q) /\ ActiveRowsOf(q)' \subseteq ActiveRowsOf(q)
      BY <1>3, <1>7, <1>10
    <2>3. QED
      BY <2>1, <2>2 DEF SoldWithPurchase
  <1>11. QED
    BY <1>2, <1>5, <1>8, <1>9, <1>10 DEF SaleInv, TransactionStates, TerminalStates

\* A claim gives an authorized purchase, which nobody can be selling, its hold.
LEMMA ReserveKeepsSale ==
    ASSUME StockInv, SaleInv, NEW c \in Calls, Reserve(c)
    PROVE  SaleInv'
  <1> DEFINE p == calls[c].p
             mine == calls[c].marked
             s == Settled(c)
             n == Len(rows) + 1
             new == Row(p, Quantity[p], "ACTIVE", FALSE)
  <1>1. /\ calls[c].to = "EXPIRED" /\ p \in Purchases /\ Done(c) /\ rows' = Append(s, new)
        /\ ActiveRowsOf(p) \subseteq mine /\ Decision(c).kind # "INVALID"
    BY CallOf DEF Reserve, At, Fits
  <1>2. /\ status[p] = "AUTHORIZED" /\ status \in [Purchases -> TransactionStates]
        /\ status' = [status EXCEPT ![p] = "INVENTORY_RESERVED"]
    BY <1>1, ReservationMoves DEF Reserve, SaleInv
  <1>3. new \in Rows /\ new.status = "ACTIVE" /\ new.purchase = p
    BY <1>1, StockAssumption DEF Row, Rows, HoldStatuses
  <1>4. /\ s \in Seq(Rows) /\ DOMAIN s = DOMAIN rows /\ Len(s) = Len(rows)
        /\ RowsIn(s, "ACTIVE") = ActiveRows \ mine /\ RowsIn(s, "COMMITTED") = CommittedRows
        /\ \A i \in DOMAIN rows : s[i].purchase = rows[i].purchase
    BY <1>1, SettledRows DEF Settled, Row
  <1>5. /\ DOMAIN rows' = DOMAIN rows \cup {n} /\ n \notin DOMAIN rows
        /\ \A i \in DOMAIN rows : rows'[i] = s[i]
        /\ rows'[n] = new
    <2> HIDE DEF new, s
    <2>1. QED
      BY <1>1, <1>3, <1>4, RowAppended
  <1> HIDE DEF s, new
  <1>6. ActiveRows' = (ActiveRows \ mine) \cup {n} /\ CommittedRows' = CommittedRows
    BY <1>3, <1>4, <1>5 DEF RowsIn, ActiveRows, CommittedRows
  <1>7. /\ \A i \in DOMAIN rows : rows'[i].purchase = rows[i].purchase
        /\ ActiveRows \subseteq DOMAIN rows /\ CommittedRows \subseteq DOMAIN rows
    BY <1>4, <1>5 DEF ActiveRows, CommittedRows
  <1>8. ASSUME NEW q
        PROVE  /\ ActiveRowsOf(q)' = IF q = p THEN {n} ELSE ActiveRowsOf(q) \ mine
               /\ SoldRowsOf(q)' = SoldRowsOf(q)
    <2>1. ActiveRowsOf(q)' = {i \in ActiveRows' : rows'[i].purchase = q}
      BY DEF ActiveRowsOf
    <2>2. ActiveRowsOf(q)' = IF q = p THEN {n} ELSE ActiveRowsOf(q) \ mine
      BY <1>1, <1>3, <1>5, <1>6, <1>7, <2>1 DEF ActiveRowsOf
    <2>3. /\ SoldRowsOf(q)' = {i \in CommittedRows' : rows'[i].purchase = q}
          /\ SoldRowsOf(q) = {i \in CommittedRows : rows[i].purchase = q}
      BY DEF SoldRowsOf, CommittedRows
    <2>4. QED
      BY <1>6, <1>7, <2>2, <2>3
  <1>9. \A d \in Calls : SaleInProgress(d)'
    <2>1. ASSUME NEW d \in Calls, Selling(d) PROVE calls[d].p # p
      <3>1. calls[d].p \in Purchases /\ Capture(calls[d].p).kind = "APPLY"
        BY <2>1, CallOf DEF SaleInv, SaleInProgress, Selling, At, Fits
      <3>2. QED
        BY <1>2, <3>1, CaptureApplies
    <2>2. ASSUME NEW q \in Purchases, q # p
          PROVE  status'[q] = status[q] /\ ActiveRowsOf(q)' \subseteq ActiveRowsOf(q)
      BY <1>2, <1>8, <2>2
    <2>3. QED
      BY <1>1, <1>7, <2>1, <2>2, OthersStillSell
  <1>10. ASSUME NEW q \in Purchases PROVE SoldWithPurchase(q)'
    <2>1. SoldWithPurchase(q) /\ SoldWithPurchase(p) /\ SoldRowsOf(q)' = SoldRowsOf(q)
      BY <1>1, <1>8 DEF SaleInv
    <2>2. CASE q = p
      <3>1. SoldRowsOf(q) = {} /\ status'[q] = "INVENTORY_RESERVED" /\ ActiveRowsOf(q)' = {n}
        BY <1>1, <1>2, <1>8, <2>1, <2>2 DEF SoldWithPurchase
      <3>2. QED
        BY <2>1, <3>1 DEF SoldWithPurchase
    <2>3. CASE q # p
      <3>1. status'[q] = status[q] /\ ActiveRowsOf(q)' \subseteq ActiveRowsOf(q)
        BY <1>2, <1>8, <2>3
      <3>2. QED
        BY <2>1, <3>1 DEF SoldWithPurchase
    <2>4. QED
      BY <2>2, <2>3
  <1>11. QED
    BY <1>1, <1>2, <1>9, <1>10 DEF SaleInv, TransactionStates

\* Time passes for a hold, and the other services move purchases nobody is
\* selling.
LEMMA WorldKeepsSale ==
    ASSUME StockInv, SaleInv,
           \/ \E i \in DOMAIN rows : Lapse(i)
           \/ \E p \in Purchases, m \in OtherMoves : MoveByOthers(p, m)
           \/ UNCHANGED vars
    PROVE  SaleInv'
  <1>1. /\ calls' = calls /\ DOMAIN rows' = DOMAIN rows
        /\ \A i \in DOMAIN rows : /\ rows'[i].purchase = rows[i].purchase
                                  /\ rows'[i].status = rows[i].status
    <2>1. CASE rows' = rows /\ calls' = calls
      BY <2>1
    <2>2. ASSUME NEW i \in DOMAIN rows, Lapse(i)
          PROVE  /\ calls' = calls /\ DOMAIN rows' = DOMAIN rows
                 /\ \A j \in DOMAIN rows : /\ rows'[j].purchase = rows[j].purchase
                                           /\ rows'[j].status = rows[j].status
      BY <2>2 DEF Lapse, Row, ActiveRows
    <2>3. QED
      BY <2>1, <2>2 DEF MoveByOthers, vars
  <1>2. /\ \A p : ActiveRowsOf(p)' = ActiveRowsOf(p) /\ SoldRowsOf(p)' = SoldRowsOf(p)
        /\ \A c \in Calls : Selling(c)' = Selling(c)
    BY <1>1 DEF ActiveRowsOf, ActiveRows, SoldRowsOf, Selling, At
  <1>3. ASSUME status' \in [Purchases -> TransactionStates],
               \A p \in Purchases :
                  \/ status'[p] = status[p]
                  \/ /\ {status[p], status'[p]} \cap {"PAYMENT_CAPTURED", "COMPLETED"} = {}
                     /\ \A d \in Calls : Selling(d) => calls[d].p # p
        PROVE  SaleInv'
    <2>1. \A p \in Purchases : SoldWithPurchase(p)'
      BY <1>2, <1>3 DEF SaleInv, SoldWithPurchase
    <2>2. ASSUME NEW d \in Calls, Selling(d) PROVE SaleInProgress(d)'
      <3>1. PICK p \in Purchases : p = calls[d].p
        BY <2>2, CallOf DEF Fits, Selling, At
      <3>2. /\ SaleInProgress(d) /\ status'[p] = status[p] /\ InHand(calls[d]) \subseteq DOMAIN rows
            /\ calls'[d] = calls[d]
        BY <1>1, <1>3, <2>2, <3>1, CallOf DEF SaleInv, Fits, InHand, ActiveRows
      <3>3. /\ ActiveRowsOf(p)' \subseteq InHand(calls[d])
            /\ \A i \in InHand(calls[d]) : rows'[i].purchase = p
            /\ \A e \in Calls \ {d} : Selling(e)' => calls'[e].p # p
        BY <1>1, <1>2, <2>2, <3>1, <3>2 DEF SaleInProgress
      <3>4. Capture(p)'.kind = "APPLY"
        BY <2>2, <3>1, <3>2 DEF SaleInProgress, Capture
      <3>5. calls'[d].p = p /\ InHand(calls[d])' = InHand(calls[d])
        BY <3>1, <3>2 DEF InHand
      <3>6. QED
        BY <3>3, <3>4, <3>5 DEF SaleInProgress
    <2>3. \A d \in Calls : SaleInProgress(d)'
      BY <1>2, <2>2 DEF SaleInProgress
    <2>4. QED
      BY <1>3, <2>1, <2>3 DEF SaleInv
  <1>4. CASE status' = status
    BY <1>3, <1>4 DEF SaleInv
  <1>5. ASSUME NEW p \in Purchases, NEW m \in OtherMoves, MoveByOthers(p, m) PROVE SaleInv'
    <2>1. /\ status' = [status EXCEPT ![p] = Resolve(status[p], m[1], m[2]).to]
          /\ Resolve(status[p], m[1], m[2]).kind = "APPLY" /\ ~BeingSold(p)
          /\ status \in [Purchases -> TransactionStates]
      BY <1>5 DEF MoveByOthers, SaleInv
    <2>2. /\ status[p] \notin {"PAYMENT_CAPTURED", "COMPLETED"}
          /\ Resolve(status[p], m[1], m[2]).to \notin {"PAYMENT_CAPTURED", "COMPLETED"}
          /\ Resolve(status[p], m[1], m[2]).to \in TransactionStates
      BY <2>1, OtherMovesBookNothing, ResolveTo
    <2>3. \A d \in Calls : Selling(d) => calls[d].p # p
      BY <2>1 DEF BeingSold, Selling
    <2>4. status'[p] = Resolve(status[p], m[1], m[2]).to
      BY <2>1
    <2>5. \A q \in Purchases : q # p => status'[q] = status[q]
      BY <2>1
    <2>6. status' \in [Purchases -> TransactionStates]
      BY <2>1, <2>2
    <2>7. QED
      BY <1>3, <2>2, <2>3, <2>4, <2>5, <2>6
  <1>6. QED
    BY <1>4, <1>5 DEF Lapse, vars

LEMMA SaleInductive == Spec => [](StockInv /\ SaleInv)
  <1>1. Init => SaleInv
    <2> SUFFICES ASSUME Init PROVE SaleInv
      OBVIOUS
    <2>1. /\ status = [p \in Purchases |-> "AUTHORIZED"] /\ rows = <<>>
          /\ \A c \in Calls : calls[c].at = "Idle"
      BY DEF Init, Idle, Call
    <2>2. \A p : ActiveRowsOf(p) = {} /\ SoldRowsOf(p) = {}
      BY <2>1 DEF ActiveRowsOf, ActiveRows, SoldRowsOf
    <2>3. QED
      BY <2>1, <2>2 DEF SaleInv, SaleInProgress, SoldWithPurchase, Selling, At, TransactionStates
  <1>2. StockInv /\ SaleInv /\ [Next]_vars => SaleInv'
    BY BeginKeepsSale, WriteKeepsSale, ReserveKeepsSale, ReleaseKeepsSale, SellKeepsSale,
       WorldKeepsSale DEF Next, CallStep
  <1>3. QED
    BY <1>1, <1>2, StockInitially, StockStep, PTL DEF Spec

-----------------------------------------------------------------------------
(* Types, with the bound on the rows: a claim has room for the row it will  *)
(* write from the moment it begins.                                         *)

Claiming == {c \in Calls : ~At(c, "Idle") /\ calls[c].to = "EXPIRED"}

RoomInv ==
    /\ Len(rows) + Cardinality(Claiming) <= MaxRows
    /\ \A c \in Calls : calls[c].p \in Purchases /\ calls[c].onHand \in Nat

LEMMA ClaimingIsFinite ==
    /\ IsFiniteSet(Claiming) /\ Cardinality(Claiming) \in Nat
    /\ IsFiniteSet(Claiming)' /\ Cardinality(Claiming)' \in Nat
  <1>1. Claiming \subseteq Calls /\ Claiming' \subseteq Calls
    BY DEF Claiming
  <1>2. IsFiniteSet(Calls)
    BY StockAssumption
  <1>3. IsFiniteSet(Claiming) /\ IsFiniteSet(Claiming')
    BY <1>1, <1>2, FS_Subset
  <1>4. QED
    BY <1>3, FS_CardinalityType

\* One call goes on.
LEMMA RoomGoesOn ==
    ASSUME StockInv, RoomInv, NEW c \in Calls, NEW call, calls' = [calls EXCEPT ![c] = call],
           call.p \in Purchases, call.onHand \in Nat, Len(rows') = Len(rows),
           call.at # "Idle" /\ call.to = "EXPIRED" =>
               c \in Claiming \/ Len(rows) + Cardinality(Claiming) < MaxRows
    PROVE  RoomInv'
  <1>1. /\ calls \in [Calls -> CallShapes] /\ rows \in Seq(Rows) /\ Len(rows) \in Nat
        /\ MaxRows \in Nat
    BY StockAssumption DEF StockInv, CallsFit, StoredOK
  <1>2. calls'[c] = call /\ \A d \in Calls \ {c} : calls'[d] = calls[d]
    BY <1>1
  <1>3. \A d \in Calls : calls'[d].p \in Purchases /\ calls'[d].onHand \in Nat
    BY <1>2 DEF RoomInv
  <1>4. \A d \in Calls \ {c} : d \in Claiming' <=> d \in Claiming
    BY <1>2 DEF Claiming, At
  <1>5. CASE call.at # "Idle" /\ call.to = "EXPIRED" /\ c \notin Claiming
    <2>1. Claiming' \subseteq Claiming \cup {c} /\ c \notin Claiming
      BY <1>4, <1>5 DEF Claiming
    <2>2. Cardinality(Claiming \cup {c}) = Cardinality(Claiming) + 1
          /\ IsFiniteSet(Claiming \cup {c})
      BY <2>1, ClaimingIsFinite, FS_AddElement
    <2>3. Cardinality(Claiming') <= Cardinality(Claiming) + 1
      BY <2>1, <2>2, FS_Subset
    <2>4. QED
      BY <1>1, <1>3, <1>5, <2>3, ClaimingIsFinite DEF RoomInv
  <1>6. CASE ~(call.at # "Idle" /\ call.to = "EXPIRED" /\ c \notin Claiming)
    <2>1. Claiming' \subseteq Claiming
      BY <1>2, <1>4, <1>6 DEF Claiming, At
    <2>2. Cardinality(Claiming') <= Cardinality(Claiming)
      BY <2>1, ClaimingIsFinite, FS_Subset
    <2>3. QED
      BY <1>1, <1>3, <2>2, ClaimingIsFinite DEF RoomInv
  <1>7. QED
    BY <1>5, <1>6

\* A claim that commits uses the room it had.
LEMMA RoomIsUsed ==
    ASSUME StockInv, RoomInv, NEW c \in Calls, Reserve(c)
    PROVE  RoomInv'
  <1>1. /\ calls \in [Calls -> CallShapes] /\ calls' = [calls EXCEPT ![c] = Idle]
        /\ c \in Claiming
    BY CallOf DEF StockInv, CallsFit, Reserve, Done, Become, At, Fits, Claiming
  <1>2. Len(rows') = Len(rows) + 1 /\ Len(rows) \in Nat /\ MaxRows \in Nat
    <2>1. Settled(c) \in Seq(Rows) /\ Len(Settled(c)) = Len(rows) /\ rows \in Seq(Rows)
      BY SettledRows DEF StockInv, StoredOK, Reserve, At, Claiming, Fits, CallsFit
    <2>2. Row(calls[c].p, Quantity[calls[c].p], "ACTIVE", FALSE) \in Rows
      BY StockAssumption DEF RoomInv, Row, Rows, HoldStatuses
    <2>3. rows' = Append(Settled(c), Row(calls[c].p, Quantity[calls[c].p], "ACTIVE", FALSE))
      BY DEF Reserve
    <2>4. QED
      BY <2>1, <2>2, <2>3, StockAssumption, LenProperties, AppendProperties
  <1>3. Idle.at = "Idle" /\ Idle.p \in Purchases /\ Idle.onHand \in Nat
    BY StockAssumption DEF Idle, Call, NoPurchase
  <1>4. Claiming' = Claiming \ {c}
    BY <1>1, <1>3 DEF Claiming, At
  <1>5. Cardinality(Claiming') = Cardinality(Claiming) - 1
    BY <1>1, <1>4, ClaimingIsFinite, FS_RemoveElement
  <1>6. \A d \in Calls : calls'[d].p \in Purchases /\ calls'[d].onHand \in Nat
    BY <1>1, <1>3 DEF RoomInv
  <1>7. QED
    BY <1>2, <1>5, <1>6, ClaimingIsFinite DEF RoomInv

LEMMA RoomStep == StockInv /\ RoomInv /\ [Next]_vars => RoomInv'
  <1> SUFFICES ASSUME StockInv, RoomInv, [Next]_vars PROVE RoomInv'
    OBVIOUS
  <1>1. /\ Idle.at = "Idle" /\ Idle.p \in Purchases /\ Idle.onHand \in Nat
        /\ Claiming = {c \in Calls : calls[c].at # "Idle" /\ calls[c].to = "EXPIRED"}
    BY StockAssumption DEF Idle, Call, NoPurchase, Claiming, At
  <1>2. RowsToCome = Cardinality(Claiming)
    BY DEF RowsToCome, Claiming
  <1>3. ASSUME NEW c \in Calls, NEW at, NEW p \in Purchases, NEW to, NEW todo,
               calls' = [calls EXCEPT ![c] = Call(at, p, to, todo, {}, {}, 0)],
               Len(rows') = Len(rows),
               to = "EXPIRED" => Len(rows) + Cardinality(Claiming) < MaxRows
        PROVE  RoomInv'
    <2>1. PICK call : call = Call(at, p, to, todo, {}, {}, 0)
      OBVIOUS
    <2>2. call.p \in Purchases /\ call.onHand \in Nat /\ call.to = to
      BY <1>3, <2>1 DEF Call
    <2>3. QED
      BY <1>3, <2>1, <2>2, RoomGoesOn
  <1>4. ASSUME NEW c \in Calls, NEW p \in Purchases,
               BeginReserve(c, p) \/ DenyRetry(c, p) \/ BeginSale(c, p)
        PROVE  RoomInv'
    <2>1. CASE BeginReserve(c, p)
      <3>1. /\ calls' = [calls EXCEPT ![c] = Call("Marking", p, "EXPIRED", LapsedRows, {}, {}, 0)]
            /\ Len(rows) + Cardinality(Claiming) < MaxRows /\ rows' = rows
        BY <1>2, <2>1 DEF BeginReserve, Become
      <3>2. QED
        BY <1>3, <3>1, Zenon
    <2>2. CASE DenyRetry(c, p)
      <3>1. /\ calls' = [calls EXCEPT ![c] = Call("Denied", p, "RELEASED", {}, {}, {}, 0)]
            /\ ("RELEASED" = "EXPIRED" => Len(rows) + Cardinality(Claiming) < MaxRows) /\ rows' = rows
        BY <2>2 DEF DenyRetry, Become
      <3>2. QED
        BY <1>3, <3>1, Zenon
    <2>3. CASE BeginSale(c, p)
      <3>1. /\ calls' = [calls EXCEPT ![c] =
                             Call("Marking", p, "COMMITTED", SellableRows(p), {}, {}, 0)]
            /\ ("COMMITTED" = "EXPIRED" => Len(rows) + Cardinality(Claiming) < MaxRows) /\ rows' = rows
        BY <2>3 DEF BeginSale, Become
      <3>2. QED
        BY <1>3, <3>1, Zenon
    <2>4. QED
      BY <1>4, <2>1, <2>2, <2>3
  <1>5. ASSUME NEW c \in Calls, Done(c), Len(rows') = Len(rows) PROVE RoomInv'
    BY <1>1, <1>5, RoomGoesOn DEF Done, Become
  <1>6. ASSUME NEW c \in Calls, Release(c) \/ Sell(c) PROVE RoomInv'
    <2>1. Len(rows') = Len(rows) /\ Done(c)
      BY <1>6, SettledRows DEF Release, Sell, AllMarked
    <2>2. QED
      BY <1>5, <1>6, <2>1
  <1>7. ASSUME NEW c \in Calls, NEW call, calls' = [calls EXCEPT ![c] = call], rows' = rows,
               ~At(c, "Idle"), call.p = calls[c].p, call.to = calls[c].to, call.onHand \in Nat
        PROVE  RoomInv'
    <2>1. call.p \in Purchases
      BY <1>7 DEF RoomInv
    <2>2. call.to = "EXPIRED" => c \in Claiming
      BY <1>7 DEF Claiming
    <2>3. QED
      BY <1>7, <2>1, <2>2, RoomGoesOn
  <1>8. ASSUME NEW c \in Calls, NEW i, MarkRow(c, i) \/ CountRow(c, i) PROVE RoomInv'
    <2>1. PICK call : /\ calls' = [calls EXCEPT ![c] = call] /\ call.p = calls[c].p
                      /\ call.to = calls[c].to /\ call.onHand = calls[c].onHand
      BY <1>8 DEF MarkRow, CountRow, Become, PassOverSettled, Call
    <2>2. rows' = rows /\ ~At(c, "Idle") /\ calls[c].onHand \in Nat
      BY <1>8 DEF MarkRow, CountRow, At, RoomInv
    <2>3. QED
      BY <1>7, <2>1, <2>2
  <1>9. ASSUME NEW c \in Calls, ReadProduct(c) PROVE RoomInv'
    <2>1. PICK call : call = Call("Claim", calls[c].p, calls[c].to, {}, calls[c].marked,
                                  calls[c].counted, inventory)
      OBVIOUS
    <2>2. inventory \in Nat
      BY DEF StockInv, StoredOK, NeverOversold
    <2>3. /\ calls' = [calls EXCEPT ![c] = call] /\ call.p = calls[c].p
          /\ call.to = calls[c].to /\ call.onHand \in Nat /\ rows' = rows /\ ~At(c, "Idle")
      BY <1>9, <2>1, <2>2 DEF ReadProduct, Become, Call, AllMarked, At
    <2>4. QED
      BY <1>7, <2>3
  <1>10. ASSUME NEW c \in Calls, FindHeldStock(c) PROVE RoomInv'
    <2>1. calls[c].p \in Purchases
      BY DEF RoomInv
    <2>2. /\ calls' = [calls EXCEPT ![c] = Call("Marking", calls[c].p, "RELEASED",
                                               ActiveRowsOf(calls[c].p), {}, {}, 0)]
          /\ ("RELEASED" = "EXPIRED" => Len(rows) + Cardinality(Claiming) < MaxRows) /\ rows' = rows
      BY <1>10 DEF FindHeldStock, Become
    <2>3. QED
      BY <1>3, <2>1, <2>2, Zenon
  <1>11. ASSUME calls' = calls, Len(rows') = Len(rows) PROVE RoomInv'
    BY <1>11 DEF RoomInv, Claiming, At
  <1>12. ASSUME NEW i \in DOMAIN rows, Lapse(i) PROVE RoomInv'
    <2>1. rows' \in Seq(Rows) /\ DOMAIN rows' = DOMAIN rows /\ rows \in Seq(Rows)
      <3>1. rows \in Seq(Rows) /\ rows[i] \in Rows
        BY RowOfSeq DEF StockInv, StoredOK
      <3>2. PICK new \in Rows : rows' = [rows EXCEPT ![i] = new]
        BY <1>12, <3>1 DEF Lapse, Row, Rows, HoldStatuses
      <3>3. QED
        BY <3>1, <3>2
    <2>2. QED
      BY <1>11, <1>12, <2>1 DEF Lapse
  <1>13. QED
    BY <1>4, <1>5, <1>6, <1>8, <1>9, <1>10, <1>11, <1>12, RoomIsUsed
       DEF Next, CallStep, RefuseReservation, DeadlockVictim, Crash, MoveByOthers, vars

LEMMA RoomInductive == Spec => [](StockInv /\ RoomInv)
  <1>1. Init => RoomInv
    <2> SUFFICES ASSUME Init PROVE RoomInv
      OBVIOUS
    <2>1. rows = <<>> /\ \A c \in Calls : calls[c] = Idle
      BY DEF Init
    <2>2. Claiming = {}
      BY <2>1 DEF Claiming, At, Idle, Call
    <2>3. Len(rows) + Cardinality(Claiming) = 0 /\ MaxRows \in Nat
      BY <2>1, <2>2, StockAssumption, FS_EmptySet
    <2>4. Idle.p \in Purchases /\ Idle.onHand \in Nat
      BY StockAssumption DEF Idle, Call, NoPurchase
    <2>5. QED
      BY <2>1, <2>3, <2>4 DEF RoomInv
  <1>2. QED
    BY <1>1, RoomStep, StockInitially, StockStep, PTL DEF Spec

\* What a payment took is what was sold: a purchase is completed exactly when
\* its one hold was sold, and no captured purchase still holds stock, however
\* claims, sweeps, releases and sales of many purchases overlap.  Counters,
\* rows and calls are what the schema and the services allow.
THEOREM WhatIsPaidIsSold == Spec => []PaidStockIsSold
  <1>1. StockInv /\ SaleInv /\ RoomInv => PaidStockIsSold
    <2> SUFFICES ASSUME StockInv, SaleInv, RoomInv PROVE PaidStockIsSold
      OBVIOUS
    <2>1. /\ rows \in Seq(Rows) /\ Len(rows) \in Nat /\ DOMAIN rows = 1 .. Len(rows)
          /\ inventory \in Int /\ reserved \in Int /\ MaxRows \in Nat
      BY StockAssumption DEF StockInv, StoredOK
    <2>2. Len(rows) <= MaxRows
      BY <2>1, ClaimingIsFinite DEF RoomInv
    <2>3. ASSUME NEW c \in Calls PROVE calls[c] \in CallRecords
      <3>1. Fits(calls[c]) /\ calls[c] \in CallShapes
        BY CallOf
      <3>2. /\ calls[c].todo \subseteq 1 .. MaxRows /\ calls[c].marked \subseteq 1 .. MaxRows
            /\ calls[c].counted \subseteq 1 .. MaxRows
        BY <2>1, <2>2, <3>1 DEF Fits, ActiveRows
      <3>3. calls[c].p \in Purchases /\ calls[c].onHand \in Nat
        BY DEF RoomInv
      <3>4. QED
        BY <3>1, <3>2, <3>3 DEF CallShapes, CallRecords
    <2>4. calls \in [Calls -> CallRecords]
      BY <2>3 DEF StockInv, CallsFit
    <2>5. StockTypeOK
      BY <2>1, <2>2, <2>4 DEF StockTypeOK, SaleInv
    <2>6. ASSUME NEW p \in Purchases PROVE Cardinality(SoldRowsOf(p)) <= 1
      <3>1. CASE SoldRowsOf(p) = {}
        BY <3>1, FS_EmptySet
      <3>2. CASE SoldRowsOf(p) # {}
        <4>1. PICK i \in SoldRowsOf(p) : TRUE
          BY <3>2
        <4>2. SoldRowsOf(p) = {i}
          BY <4>1 DEF SaleInv, SoldWithPurchase
        <4>3. Cardinality({i}) = 1
          BY FS_Singleton
        <4>4. QED
          BY <4>2, <4>3
      <3>3. QED
        BY <3>1, <3>2
    <2>7. QED
      BY <2>5, <2>6 DEF PaidStockIsSold, SaleInv, SoldWithPurchase
  <1>2. QED
    BY <1>1, SaleInductive, RoomInductive, PTL
=============================================================================
