---------------------------- MODULE RefundProofs ----------------------------
(***************************************************************************)
(* Refunds for any number of calls and refunds.  RefundInv holds whatever  *)
(* the world does.  OnceInv, and with it the promise to return the money   *)
(* at most once, needs NoEarlyCheck: a status check that runs beside the   *)
(* create of the same refund may settle it as failed.                      *)
(***************************************************************************)
EXTENDS Refunds, SequenceTheorems, TLAPS

Holding(c) == calls[c].at \in {"Post", "Recover", "Record", "Check"}
Posting(c) == calls[c].at \in {"Post", "Recover"}

\* What the provider holds has a row, and so has what a call is working on;
\* the call that claimed a row is the only one to send its create.
RowsFirst ==
    /\ \A r \in Receipts : returning[r] # "none" => r \in DOMAIN rows
    /\ \A c \in Calls : Holding(c) => calls[c].r \in DOMAIN rows
OneCreate ==
    /\ \A c, d \in Calls : Posting(c) /\ Posting(d) /\ calls[c].r = calls[d].r => c = d
    /\ \A c \in Calls : At(c, "Post") => returning[calls[c].r] = "none"
ProcessedVerdicts ==
    \A c \in Calls : At(c, "Record") /\ calls[c].word = "PROCESSED"
                     => returning[calls[c].r] = "processed"

RefundInv ==
    RefundTypeOK /\ RowsFirst /\ OneCreate /\ ProcessedVerdicts /\ ProcessedMeansReturned

NoEarlyCheck == "EARLY_CHECK" \notin World

\* No other call works on a refund whose create is under way.
Exclusive ==
    /\ \A c, d \in Calls : Posting(c) /\ Holding(d) /\ calls[c].r = calls[d].r => c = d
    /\ \A c \in Calls : At(c, "Post") => rows[calls[c].r] = "REQUESTED"
FailedVerdicts ==
    \A c \in Calls : At(c, "Record") /\ calls[c].word = "FAILED"
                     => returning[calls[c].r] \in {"none", "failed"}
OneLiveRow ==
    \A r, s \in DOMAIN rows : rows[r] # "FAILED" /\ rows[s] # "FAILED" => r = s

OnceInv == Exclusive /\ FailedVerdicts /\ FailedMeansNotReturned /\ OneLiveRow

-----------------------------------------------------------------------------
\* What a settled row looks like afterwards.
LEMMA SettleEffect ==
    ASSUME rows \in Seq(RefundStatuses), NEW r \in DOMAIN rows, NEW v \in RefundStatuses,
           Settle(r, v)
    PROVE  /\ rows' \in Seq(RefundStatuses) /\ Len(rows') = Len(rows)
           /\ DOMAIN rows' = DOMAIN rows
           /\ \A s \in DOMAIN rows : s # r => rows'[s] = rows[s]
           /\ rows'[r] = IF rows[r] \in OpenStatuses THEN v ELSE rows[r]
  BY DEF Settle

\* What a claim adds.
LEMMA ClaimEffect ==
    ASSUME rows \in Seq(RefundStatuses), rows' = Append(rows, "REQUESTED")
    PROVE  /\ rows' \in Seq(RefundStatuses) /\ Len(rows') = Len(rows) + 1
           /\ DOMAIN rows' = DOMAIN rows \cup {Len(rows) + 1}
           /\ Len(rows) + 1 \notin DOMAIN rows
           /\ \A s \in DOMAIN rows : rows'[s] = rows[s]
           /\ rows'[Len(rows) + 1] = "REQUESTED"
  BY DEF RefundStatuses

LEMMA StatusFromProviderType ==
    ASSUME NEW state
    PROVE  /\ StatusFromProvider(state) \in RefundStatuses
           /\ StatusFromProvider(state) = "PROCESSED" <=> state = "processed"
           /\ StatusFromProvider(state) = "FAILED" <=> state = "failed"
  BY DEF StatusFromProvider, RefundStatuses

LEMMA RefundInitially == Init => RefundInv /\ OnceInv
  BY RefundAssumption
     DEF Init, RefundInv, OnceInv, RefundTypeOK, RowsFirst, OneCreate, ProcessedVerdicts,
         ProcessedMeansReturned, Exclusive, FailedVerdicts, FailedMeansNotReturned, OneLiveRow,
         Holding, Posting, At, Idle, Call, Stages, CallRecords, RefundStatuses,
         ProviderStates, Receipts, RefundEvents

-----------------------------------------------------------------------------
\* Receipts, rows and what calls hold are in range.
LEMMA Ranges ==
    ASSUME RefundInv
    PROVE  /\ MaxRefunds \in Nat /\ Len(rows) \in Nat /\ rows \in Seq(RefundStatuses)
           /\ DOMAIN rows = 1 .. Len(rows) /\ DOMAIN rows \subseteq Receipts
           /\ \A c \in Calls : Holding(c) => calls[c].r \in Receipts
           /\ \A c \in Calls : /\ calls[c].r \in 0 .. MaxRefunds
                               /\ calls[c].word \in RefundStatuses
                               /\ calls[c].at \in Stages
  <1>1. MaxRefunds \in Nat /\ rows \in Seq(RefundStatuses) /\ Len(rows) <= MaxRefunds
    BY RefundAssumption DEF RefundInv, RefundTypeOK
  <1>2. Len(rows) \in Nat /\ DOMAIN rows = 1 .. Len(rows) /\ DOMAIN rows \subseteq Receipts
    BY <1>1 DEF Receipts
  <1>3. \A c \in Calls : calls[c] \in CallRecords
    BY DEF RefundInv, RefundTypeOK
  <1>4. QED
    BY <1>1, <1>2, <1>3 DEF RefundInv, RowsFirst, CallRecords

\* One call moves to a new stage.
LEMMA CallEffect ==
    ASSUME RefundInv, NEW c \in Calls, NEW at \in Stages, NEW r \in 0 .. MaxRefunds,
           NEW word \in RefundStatuses, calls' = [calls EXCEPT ![c] = Call(at, r, word)]
    PROVE  /\ calls' \in [Calls -> CallRecords]
           /\ calls'[c].at = at /\ calls'[c].r = r /\ calls'[c].word = word
           /\ \A d \in Calls : d # c => calls'[d] = calls[d]
  <1>1. calls \in [Calls -> CallRecords]
    BY DEF RefundInv, RefundTypeOK
  <1>2. Call(at, r, word) \in CallRecords
    BY DEF Call, CallRecords
  <1>3. QED
    BY <1>1, <1>2 DEF Call

\* A call that leaves the rows and the provider alone, and comes to hold
\* nothing it has no row or reason for, keeps the invariant.
LEMMA CallStepKeepsInv ==
    ASSUME RefundInv, NEW c \in Calls, NEW at \in Stages, NEW r \in 0 .. MaxRefunds,
           NEW word \in RefundStatuses, calls' = [calls EXCEPT ![c] = Call(at, r, word)],
           rows' = rows, returning' = returning, ledger' = ledger, UNCHANGED facts,
           at \notin {"Post", "Recover"},
           at \in {"Record", "Check"} => r \in DOMAIN rows,
           at = "Record" /\ word = "PROCESSED" => returning[r] = "processed"
    PROVE  RefundInv'
  <1>1. /\ calls' \in [Calls -> CallRecords]
        /\ calls'[c].at = at /\ calls'[c].r = r /\ calls'[c].word = word
        /\ \A d \in Calls : d # c => calls'[d] = calls[d]
    BY CallEffect
  <1>2. RefundTypeOK' /\ ProcessedMeansReturned'
    BY <1>1 DEF RefundInv, RefundTypeOK, ProcessedMeansReturned, facts
  <1>3. RowsFirst' /\ ProcessedVerdicts'
    BY <1>1 DEF RefundInv, RowsFirst, ProcessedVerdicts, Holding, At
  <1>4. OneCreate'
    BY <1>1 DEF RefundInv, OneCreate, Posting, At
  <1>5. QED
    BY <1>2, <1>3, <1>4 DEF RefundInv

\* Requests that end or wait, checks, and lookups.
LEMMA WaitingKeepsInv ==
    ASSUME RefundInv, NEW c \in Calls,
           \/ RequestRefund(c) \/ ClaimRefused(c) \/ Crash(c) \/ PostRefused(c)
           \/ ResolveByLookup(c) \/ ReceiveCheck(c) \/ (\E r \in Receipts : CheckRefund(c, r))
    PROVE  RefundInv'
  <1> USE Ranges DEF Stages, RefundStatuses
  <1> DEFINE held == calls[c].r
  <1>1. CASE RequestRefund(c)
    <2>1. Len(rows) + 1 \in 0 .. MaxRefunds
      BY <1>1 DEF RequestRefund
    <2>2. QED
      BY <1>1, <2>1, CallStepKeepsInv DEF RequestRefund
  <1>2. CASE ClaimRefused(c) \/ Crash(c)
    <2>1. 0 \in 0 .. MaxRefunds
      OBVIOUS
    <2>2. QED
      BY <1>2, <2>1, CallStepKeepsInv DEF ClaimRefused, Crash, Done, Idle
  <1>3. CASE PostRefused(c)
    <2>1. held \in DOMAIN rows /\ held \in 0 .. MaxRefunds
      BY <1>3 DEF PostRefused, At, RefundInv, RowsFirst, Holding
    <2>2. QED
      BY <1>3, <2>1, CallStepKeepsInv DEF PostRefused, RecordLater
  <1>4. CASE ResolveByLookup(c)
    <2>1. held \in DOMAIN rows /\ held \in 0 .. MaxRefunds
      BY <1>4 DEF ResolveByLookup, RefundLookup, At, RefundInv, RowsFirst, Holding
    <2>2. PICK word \in RefundStatuses :
              /\ calls' = [calls EXCEPT ![c] = Call("Record", held, word)]
              /\ word = "PROCESSED" => returning[held] = "processed"
      BY <1>4, StatusFromProviderType DEF ResolveByLookup, RefundLookup, RecordLater, LookupFailedMeans
    <2>3. QED
      BY <1>4, <2>1, <2>2, CallStepKeepsInv DEF ResolveByLookup, RefundLookup
  <1>5. CASE ReceiveCheck(c)
    <2>1. held \in DOMAIN rows /\ held \in 0 .. MaxRefunds /\ 0 \in 0 .. MaxRefunds
      BY <1>5 DEF ReceiveCheck, RefundLookup, At, RefundInv, RowsFirst, Holding
    <2>2. CASE Done(c)
      BY <1>5, <2>1, <2>2, CallStepKeepsInv DEF ReceiveCheck, RefundLookup, Done, Idle
    <2>3. CASE ~Done(c)
      <3>1. PICK word \in RefundStatuses :
              /\ calls' = [calls EXCEPT ![c] = Call("Record", held, word)]
              /\ word = "PROCESSED" => returning[held] = "processed"
        BY <1>5, <2>3, StatusFromProviderType DEF ReceiveCheck, RefundLookup, RecordLater
      <3>2. QED
        BY <1>5, <2>1, <3>1, CallStepKeepsInv DEF ReceiveCheck, RefundLookup
    <2>4. QED
      BY <2>2, <2>3
  <1>6. CASE \E r \in Receipts : CheckRefund(c, r)
    <2>1. PICK r \in Receipts : CheckRefund(c, r)
      BY <1>6
    <2>2. r \in DOMAIN rows /\ rows[r] \in RefundStatuses /\ r \in 0 .. MaxRefunds
      BY <2>1 DEF CheckRefund, NewestOpen, Receipts
    <2>3. QED
      BY <2>1, <2>2, CallStepKeepsInv DEF CheckRefund
  <1>7. QED
    BY <1>1, <1>2, <1>3, <1>4, <1>5, <1>6

\* A claim: the row is new, so nobody else holds it and nothing was sent.
LEMMA ClaimKeepsInv ==
    ASSUME RefundInv, NEW c \in Calls, ClaimRefund(c)
    PROVE  RefundInv'
  <1> DEFINE n == Len(rows) + 1
  <1> USE Ranges DEF Stages
  <1>1. /\ rows' = Append(rows, "REQUESTED") /\ returning' = returning /\ ledger' = ledger
        /\ UNCHANGED facts /\ calls[c].r = n
        /\ calls' = [calls EXCEPT ![c] = Call("Post", n, "REQUESTED")]
    BY DEF ClaimRefund, MayInsert, Goto
  <1>2. n \in 0 .. MaxRefunds /\ n \in Receipts
    BY <1>1 DEF Receipts
  <1>3. /\ rows' \in Seq(RefundStatuses) /\ Len(rows') = n
        /\ DOMAIN rows' = DOMAIN rows \cup {n} /\ n \notin DOMAIN rows
        /\ \A s \in DOMAIN rows : rows'[s] = rows[s]
        /\ rows'[n] = "REQUESTED"
    BY <1>1, ClaimEffect
  <1>4. /\ calls' \in [Calls -> CallRecords]
        /\ calls'[c].at = "Post" /\ calls'[c].r = n /\ calls'[c].word = "REQUESTED"
        /\ \A d \in Calls : d # c => calls'[d] = calls[d]
    BY <1>1, <1>2, CallEffect DEF RefundStatuses
  <1>5. returning[n] = "none" /\ \A d \in Calls : Holding(d) => calls[d].r # n
    BY <1>2, <1>3 DEF RefundInv, RowsFirst
  <1>6. RefundTypeOK'
    BY <1>1, <1>2, <1>3, <1>4 DEF RefundInv, RefundTypeOK, facts, Receipts
  <1>7. RowsFirst'
    BY <1>1, <1>3, <1>4 DEF RefundInv, RowsFirst, Holding
  <1>8. OneCreate'
    BY <1>1, <1>4, <1>5 DEF RefundInv, OneCreate, Posting, Holding, At
  <1>9. ProcessedVerdicts' /\ ProcessedMeansReturned'
    BY <1>1, <1>3, <1>4 DEF RefundInv, ProcessedVerdicts, ProcessedMeansReturned, At
  <1>10. QED
    BY <1>6, <1>7, <1>8, <1>9 DEF RefundInv

\* A create, answered or not: the provider held nothing for the receipt before.
LEMMA PostKeepsInv ==
    ASSUME RefundInv, NEW c \in Calls, PostRefund(c) \/ PostUnanswered(c)
    PROVE  RefundInv'
  <1> DEFINE held == calls[c].r
  <1> USE Ranges
  <1>1. /\ rows' = rows /\ ledger' = ledger /\ UNCHANGED facts
        /\ At(c, "Post")
    BY DEF PostRefund, PostUnanswered
  <1>2. PICK state \in ProviderStates, at \in {"Record", "Recover"}, word \in RefundStatuses :
            /\ returning' = [returning EXCEPT ![held] = state]
            /\ calls' = [calls EXCEPT ![c] = Call(at, held, word)]
            /\ at = "Record" /\ word = "PROCESSED" => state = "processed"
    BY StatusFromProviderType
       DEF PostRefund, PostUnanswered, RecordLater, Goto, ProviderStates, RefundStatuses
  <1>3. /\ held \in DOMAIN rows /\ held \in Receipts /\ held \in 0 .. MaxRefunds
        /\ returning[held] = "none"
    BY <1>1 DEF RefundInv, RowsFirst, OneCreate, Holding, At
  <1>4. /\ calls' \in [Calls -> CallRecords]
        /\ calls'[c].at = at /\ calls'[c].r = held /\ calls'[c].word = word
        /\ \A d \in Calls : d # c => calls'[d] = calls[d]
    <2>1. at \in Stages
      BY DEF Stages
    <2>2. QED
      BY <1>2, <1>3, <2>1, CallEffect
  <1>5. /\ returning' \in [Receipts -> ProviderStates]
        /\ returning'[held] = state
        /\ \A r \in Receipts : r # held => returning'[r] = returning[r]
    BY <1>2, <1>3 DEF RefundInv, RefundTypeOK
  <1>6. RefundTypeOK'
    BY <1>1, <1>4, <1>5 DEF RefundInv, RefundTypeOK, facts
  <1>7. RowsFirst'
    BY <1>1, <1>3, <1>4, <1>5 DEF RefundInv, RowsFirst, Holding
  <1>8. OneCreate'
    <2>1. ASSUME NEW d \in Calls, At(d, "Post")' PROVE returning'[calls'[d].r] = "none"
      <3>1. d # c /\ At(d, "Post")
        BY <1>4, <2>1 DEF At
      <3>2. calls[d].r # held /\ calls[d].r \in Receipts /\ returning[calls[d].r] = "none"
        BY <1>1, <3>1 DEF RefundInv, OneCreate, Posting, Holding, At
      <3>3. QED
        BY <1>4, <1>5, <3>1, <3>2
    <2>2. \A d, e \in Calls : Posting(d)' /\ Posting(e)' /\ calls'[d].r = calls'[e].r => d = e
      BY <1>1, <1>4 DEF RefundInv, OneCreate, Posting, At
    <2>3. QED
      BY <2>1, <2>2 DEF OneCreate
  <1>9. ProcessedVerdicts'
    BY <1>1, <1>2, <1>3, <1>4, <1>5 DEF RefundInv, ProcessedVerdicts, Holding, At
  <1>10. ProcessedMeansReturned'
    BY <1>1, <1>3, <1>5 DEF RefundInv, ProcessedMeansReturned
  <1>11. QED
    BY <1>6, <1>7, <1>8, <1>9, <1>10 DEF RefundInv

\* Recording an answer settles an open row with what the provider said.
LEMMA RecordKeepsInv ==
    ASSUME RefundInv, NEW c \in Calls, RecordOutcome(c)
    PROVE  RefundInv'
  <1> DEFINE held == calls[c].r
  <1> USE Ranges
  <1>1. /\ At(c, "Record") /\ Settle(held, calls[c].word)
        /\ returning' = returning /\ ledger' = ledger /\ UNCHANGED facts
        /\ calls' = [calls EXCEPT ![c] = Call("Idle", 0, "REQUESTED")]
    BY DEF RecordOutcome, Done, Idle
  <1>2. held \in DOMAIN rows /\ calls[c].word \in RefundStatuses
    BY <1>1 DEF RefundInv, RowsFirst, Holding, At
  <1>3. /\ rows' \in Seq(RefundStatuses) /\ Len(rows') = Len(rows)
        /\ DOMAIN rows' = DOMAIN rows
        /\ \A s \in DOMAIN rows : s # held => rows'[s] = rows[s]
        /\ rows'[held] = IF rows[held] \in OpenStatuses THEN calls[c].word ELSE rows[held]
    BY <1>1, <1>2, SettleEffect
  <1>4. /\ calls' \in [Calls -> CallRecords]
        /\ calls'[c].at = "Idle"
        /\ \A d \in Calls : d # c => calls'[d] = calls[d]
    <2>1. "Idle" \in Stages /\ 0 \in 0 .. MaxRefunds /\ "REQUESTED" \in RefundStatuses
      BY DEF Stages, RefundStatuses
    <2>2. QED
      BY <1>1, <2>1, CallEffect
  <1>5. RefundTypeOK'
    BY <1>1, <1>3, <1>4 DEF RefundInv, RefundTypeOK, facts
  <1>6. RowsFirst' /\ OneCreate' /\ ProcessedVerdicts'
    BY <1>1, <1>3, <1>4 DEF RefundInv, RowsFirst, OneCreate, ProcessedVerdicts, Holding, Posting, At
  <1>7. ProcessedMeansReturned'
    BY <1>1, <1>2, <1>3 DEF RefundInv, ProcessedVerdicts, ProcessedMeansReturned, At
  <1>8. QED
    BY <1>5, <1>6, <1>7 DEF RefundInv

\* The provider settles a refund, and its event settles the open row.
LEMMA ProviderKeepsInv ==
    ASSUME RefundInv, NEW r \in Receipts, ProviderSettles(r) \/ ReceiveRefundEvent(r)
    PROVE  RefundInv'
  <1> USE Ranges
  <1>1. CASE ProviderSettles(r)
    <2>1. PICK state \in {"processed", "failed"} :
              returning' = [returning EXCEPT ![r] = state]
      BY <1>1 DEF ProviderSettles
    <2>2. /\ returning[r] = "pending" /\ rows' = rows /\ ledger' = ledger /\ calls' = calls
          /\ UNCHANGED facts
      BY <1>1 DEF ProviderSettles
    <2>3. /\ returning' \in [Receipts -> ProviderStates] /\ returning'[r] = state
          /\ \A s \in Receipts : s # r => returning'[s] = returning[s]
      BY <2>1 DEF RefundInv, RefundTypeOK, ProviderStates
    <2>4. RefundTypeOK' /\ RowsFirst'
      BY <2>2, <2>3 DEF RefundInv, RefundTypeOK, RowsFirst, Holding, facts
    <2>5. OneCreate' /\ ProcessedVerdicts' /\ ProcessedMeansReturned'
      BY <2>2, <2>3 DEF RefundInv, OneCreate, ProcessedVerdicts, ProcessedMeansReturned,
                        Posting, Holding, At
    <2>6. QED
      BY <2>4, <2>5 DEF RefundInv
  <1>2. CASE ReceiveRefundEvent(r)
    <2>1. /\ returning[r] \in {"processed", "failed"} /\ r \in DOMAIN rows
          /\ ledger' = ledger \cup {<<r, returning[r]>>} /\ returning' = returning
          /\ calls' = calls /\ UNCHANGED facts
          /\ Settle(r, StatusFromProvider(returning[r]))
      BY <1>2 DEF ReceiveRefundEvent, EventSettles
    <2>2. /\ rows' \in Seq(RefundStatuses) /\ Len(rows') = Len(rows)
          /\ DOMAIN rows' = DOMAIN rows
          /\ \A s \in DOMAIN rows : s # r => rows'[s] = rows[s]
          /\ rows'[r] = IF rows[r] \in OpenStatuses THEN StatusFromProvider(returning[r])
                                                   ELSE rows[r]
      BY <2>1, SettleEffect, StatusFromProviderType
    <2>3. RefundTypeOK'
      BY <2>1, <2>2 DEF RefundInv, RefundTypeOK, facts, RefundEvents
    <2>4. RowsFirst' /\ OneCreate' /\ ProcessedVerdicts'
      BY <2>1, <2>2 DEF RefundInv, RowsFirst, OneCreate, ProcessedVerdicts, Holding, Posting, At
    <2>5. ProcessedMeansReturned'
      BY <2>1, <2>2, StatusFromProviderType DEF RefundInv, ProcessedMeansReturned
    <2>6. QED
      BY <2>3, <2>4, <2>5 DEF RefundInv
  <1>3. QED
    BY <1>1, <1>2

\* Every step keeps RefundInv, and so does none at all.
LEMMA StepKeepsInv == RefundInv /\ [Next]_vars => RefundInv'
  <1> SUFFICES ASSUME RefundInv, [Next]_vars PROVE RefundInv'
    OBVIOUS
  <1>1. CASE \E c \in Calls : RefundStep(c)
    <2>1. PICK c \in Calls : RefundStep(c)
      BY <1>1
    <2>2. QED
      BY <2>1, WaitingKeepsInv, ClaimKeepsInv, PostKeepsInv, RecordKeepsInv DEF RefundStep
  <1>2. CASE \E r \in Receipts : ProviderSettles(r) \/ ReceiveRefundEvent(r)
    BY <1>2, ProviderKeepsInv
  <1>3. CASE WindowCloses \/ SecondCapture \/ UNCHANGED vars
    <2>1. /\ rows' = rows /\ returning' = returning /\ ledger' = ledger /\ calls' = calls
          /\ captures' \in {1, 2} /\ windowOpen' \in BOOLEAN
      BY <1>3 DEF WindowCloses, SecondCapture, vars, RefundInv, RefundTypeOK
    <2>2. RefundTypeOK' /\ RowsFirst' /\ OneCreate'
      BY <2>1 DEF RefundInv, RefundTypeOK, RowsFirst, OneCreate, Holding, Posting, At
    <2>3. ProcessedVerdicts' /\ ProcessedMeansReturned'
      BY <2>1 DEF RefundInv, ProcessedVerdicts, ProcessedMeansReturned, At
    <2>4. QED
      BY <2>2, <2>3 DEF RefundInv
  <1>4. QED
    BY <1>1, <1>2, <1>3 DEF Next

-----------------------------------------------------------------------------
(* The promise to return the money at most once. *)

\* A call that leaves the rows and the provider alone keeps OnceInv, unless
\* it turns to a refund whose create is another call's.
LEMMA CallStepKeepsOnce ==
    ASSUME RefundInv, OnceInv, NEW c \in Calls, NEW at \in Stages, NEW r \in 0 .. MaxRefunds,
           NEW word \in RefundStatuses, calls' = [calls EXCEPT ![c] = Call(at, r, word)],
           rows' = rows, returning' = returning,
           at \notin {"Post", "Recover"},
           at \in {"Record", "Check"} => \A d \in Calls : Posting(d) /\ d # c => calls[d].r # r,
           at = "Record" /\ word = "FAILED" => returning[r] \in {"none", "failed"}
    PROVE  OnceInv'
  <1>1. /\ calls'[c].at = at /\ calls'[c].r = r /\ calls'[c].word = word
        /\ \A d \in Calls : d # c => calls'[d] = calls[d]
    BY CallEffect
  <1>2. Exclusive'
    <2>1. \A d, e \in Calls : Posting(d)' /\ Holding(e)' /\ calls'[d].r = calls'[e].r => d = e
      BY <1>1 DEF OnceInv, Exclusive, Posting, Holding
    <2>2. \A d \in Calls : At(d, "Post")' => rows'[calls'[d].r] = "REQUESTED"
      BY <1>1 DEF OnceInv, Exclusive, At
    <2>3. QED
      BY <2>1, <2>2 DEF Exclusive
  <1>3. FailedVerdicts'
    BY <1>1 DEF OnceInv, FailedVerdicts, At
  <1>4. FailedMeansNotReturned' /\ OneLiveRow'
    BY DEF OnceInv, FailedMeansNotReturned, OneLiveRow
  <1>5. QED
    BY <1>2, <1>3, <1>4 DEF OnceInv

\* Requests that end or wait, checks, and lookups.
LEMMA WaitingKeepsOnce ==
    ASSUME RefundInv, OnceInv, NoEarlyCheck, NEW c \in Calls,
           \/ RequestRefund(c) \/ ClaimRefused(c) \/ Crash(c) \/ PostRefused(c)
           \/ ResolveByLookup(c) \/ ReceiveCheck(c) \/ (\E r \in Receipts : CheckRefund(c, r))
    PROVE  OnceInv'
  <1> USE Ranges DEF Stages, RefundStatuses
  <1> DEFINE held == calls[c].r
  <1>a. held \in 0 .. MaxRefunds /\ 0 \in 0 .. MaxRefunds
    OBVIOUS
  <1>b. Holding(c) => \A d \in Calls : Posting(d) /\ d # c => calls[d].r # held
    BY DEF OnceInv, Exclusive
  <1>1. CASE RequestRefund(c)
    <2>1. Len(rows) + 1 \in 0 .. MaxRefunds
      BY <1>1 DEF RequestRefund
    <2>2. QED
      BY <1>1, <2>1, CallStepKeepsOnce DEF RequestRefund
  <1>2. CASE ClaimRefused(c) \/ Crash(c)
    BY <1>2, <1>a, CallStepKeepsOnce DEF ClaimRefused, Crash, Done, Idle
  <1>3. CASE PostRefused(c)
    <2>1. Holding(c) /\ returning[held] = "none"
      BY <1>3 DEF PostRefused, At, RefundInv, OneCreate, Holding
    <2>2. QED
      BY <1>3, <1>a, <1>b, <2>1, CallStepKeepsOnce DEF PostRefused, RecordLater
  <1>4. CASE ResolveByLookup(c)
    <2>1. Holding(c)
      BY <1>4 DEF ResolveByLookup, RefundLookup, At, Holding
    <2>2. PICK word \in RefundStatuses :
              /\ calls' = [calls EXCEPT ![c] = Call("Record", held, word)]
              /\ word = "FAILED" => returning[held] \in {"none", "failed"}
      BY <1>4, StatusFromProviderType DEF ResolveByLookup, RefundLookup, RecordLater, LookupFailedMeans
    <2>3. QED
      BY <1>4, <1>a, <1>b, <2>1, <2>2, CallStepKeepsOnce DEF ResolveByLookup, RefundLookup
  <1>5. CASE ReceiveCheck(c)
    <2>1. Holding(c)
      BY <1>5 DEF ReceiveCheck, RefundLookup, At, Holding
    <2>2. CASE Done(c)
      BY <1>5, <1>a, <2>2, CallStepKeepsOnce DEF ReceiveCheck, RefundLookup, Done, Idle
    <2>3. CASE ~Done(c)
      <3>1. PICK word \in RefundStatuses :
              /\ calls' = [calls EXCEPT ![c] = Call("Record", held, word)]
              /\ word = "FAILED" => returning[held] \in {"none", "failed"}
        BY <1>5, <2>3, StatusFromProviderType DEF ReceiveCheck, RefundLookup, RecordLater
      <3>2. QED
        BY <1>5, <1>a, <1>b, <2>1, <3>1, CallStepKeepsOnce DEF ReceiveCheck, RefundLookup
    <2>4. QED
      BY <2>2, <2>3
  <1>6. CASE \E r \in Receipts : CheckRefund(c, r)
    <2>1. PICK r \in Receipts : CheckRefund(c, r)
      BY <1>6
    <2>2. r \in DOMAIN rows /\ rows[r] \in RefundStatuses /\ r \in 0 .. MaxRefunds
      BY <2>1 DEF CheckRefund, NewestOpen, Receipts
    <2>3. \A d \in Calls : ~Posting(d)
      BY <2>1 DEF CheckRefund, NoEarlyCheck, Posting
    <2>4. QED
      BY <2>1, <2>2, <2>3, CallStepKeepsOnce DEF CheckRefund
  <1>7. QED
    BY <1>1, <1>2, <1>3, <1>4, <1>5, <1>6

\* A claim: there was no live row, and nobody else holds the new one.
LEMMA ClaimKeepsOnce ==
    ASSUME RefundInv, OnceInv, NEW c \in Calls, ClaimRefund(c)
    PROVE  OnceInv'
  <1> DEFINE n == Len(rows) + 1
  <1> USE Ranges
  <1>1. /\ rows' = Append(rows, "REQUESTED") /\ returning' = returning
        /\ calls[c].r = n /\ \A s \in DOMAIN rows : rows[s] = "FAILED"
        /\ calls' = [calls EXCEPT ![c] = Call("Post", n, "REQUESTED")]
    BY DEF ClaimRefund, MayInsert, LiveRefund, Goto
  <1>2. /\ DOMAIN rows' = DOMAIN rows \cup {n} /\ n \notin DOMAIN rows
        /\ \A s \in DOMAIN rows : rows'[s] = rows[s]
        /\ rows'[n] = "REQUESTED"
    BY <1>1, ClaimEffect
  <1>3. /\ calls'[c].at = "Post" /\ calls'[c].r = n /\ calls'[c].word = "REQUESTED"
        /\ \A d \in Calls : d # c => calls'[d] = calls[d]
    <2>1. n \in 0 .. MaxRefunds
      BY <1>1
    <2>2. QED
      BY <1>1, <2>1, CallEffect DEF Stages, RefundStatuses
  <1>4. \A d \in Calls : Holding(d) => calls[d].r \in DOMAIN rows /\ calls[d].r # n
    BY <1>2 DEF RefundInv, RowsFirst
  <1>5. Exclusive'
    <2>1. \A d, e \in Calls : Posting(d)' /\ Holding(e)' /\ calls'[d].r = calls'[e].r => d = e
      BY <1>3, <1>4 DEF OnceInv, Exclusive, Posting, Holding
    <2>2. \A d \in Calls : At(d, "Post")' => rows'[calls'[d].r] = "REQUESTED"
      BY <1>2, <1>3, <1>4 DEF OnceInv, Exclusive, At, Holding
    <2>3. QED
      BY <2>1, <2>2 DEF Exclusive
  <1>6. FailedVerdicts'
    BY <1>1, <1>3 DEF OnceInv, FailedVerdicts, At
  <1>7. FailedMeansNotReturned' /\ OneLiveRow'
    BY <1>1, <1>2 DEF OnceInv, FailedMeansNotReturned, OneLiveRow
  <1>8. QED
    BY <1>5, <1>6, <1>7 DEF OnceInv

\* A create: only the caller holds this refund, and its row is not settled.
LEMMA PostKeepsOnce ==
    ASSUME RefundInv, OnceInv, NEW c \in Calls, PostRefund(c) \/ PostUnanswered(c)
    PROVE  OnceInv'
  <1> DEFINE held == calls[c].r
  <1> USE Ranges
  <1>1. rows' = rows /\ At(c, "Post")
    BY DEF PostRefund, PostUnanswered
  <1>2. PICK state \in ProviderStates, at \in {"Record", "Recover"}, word \in RefundStatuses :
            /\ returning' = [returning EXCEPT ![held] = state]
            /\ calls' = [calls EXCEPT ![c] = Call(at, held, word)]
            /\ at = "Record" /\ word = "FAILED" => state = "failed"
    BY StatusFromProviderType
       DEF PostRefund, PostUnanswered, RecordLater, Goto, ProviderStates, RefundStatuses
  <1>3. /\ held \in DOMAIN rows /\ held \in Receipts /\ rows[held] = "REQUESTED"
        /\ \A d \in Calls : d # c /\ Holding(d) => calls[d].r # held
    BY <1>1 DEF RefundInv, RowsFirst, OnceInv, Exclusive, Posting, Holding, At
  <1>4. /\ calls'[c].at = at /\ calls'[c].r = held /\ calls'[c].word = word
        /\ \A d \in Calls : d # c => calls'[d] = calls[d]
    <2>1. at \in Stages
      BY DEF Stages
    <2>2. QED
      BY <1>2, <2>1, CallEffect
  <1>5. /\ returning'[held] = state
        /\ \A r \in Receipts : r # held => returning'[r] = returning[r]
    BY <1>2, <1>3 DEF RefundInv, RefundTypeOK
  <1>6. Exclusive'
    <2>1. \A d, e \in Calls : Posting(d)' /\ Holding(e)' /\ calls'[d].r = calls'[e].r => d = e
      <3>1. /\ Posting(c) /\ Holding(c)
            /\ \A d \in Calls : Posting(d)' => Posting(d) /\ calls'[d].r = calls[d].r
            /\ \A d \in Calls : Holding(d)' => Holding(d) /\ calls'[d].r = calls[d].r
        BY <1>1, <1>4 DEF Posting, Holding, At
      <3>2. QED
        BY <3>1 DEF OnceInv, Exclusive
    <2>2. \A d \in Calls : At(d, "Post")' => rows'[calls'[d].r] = "REQUESTED"
      BY <1>1, <1>4 DEF OnceInv, Exclusive, At
    <2>3. QED
      BY <2>1, <2>2 DEF Exclusive
  <1>7. FailedVerdicts'
    <2> SUFFICES ASSUME NEW d \in Calls, At(d, "Record")', calls'[d].word = "FAILED"
                 PROVE  returning'[calls'[d].r] \in {"none", "failed"}
      BY DEF FailedVerdicts
    <2>1. CASE d = c
      BY <1>2, <1>4, <1>5, <2>1 DEF At
    <2>2. CASE d # c
      <3>1. At(d, "Record") /\ calls[d].word = "FAILED" /\ calls'[d].r = calls[d].r
        BY <1>4, <2>2 DEF At
      <3>2. calls[d].r # held /\ calls[d].r \in Receipts
        BY <1>3, <2>2, <3>1 DEF Holding, At
      <3>3. returning[calls[d].r] \in {"none", "failed"}
        BY <3>1 DEF OnceInv, FailedVerdicts
      <3>4. QED
        BY <1>5, <3>1, <3>2, <3>3
    <2>3. QED
      BY <2>1, <2>2
  <1>8. FailedMeansNotReturned' /\ OneLiveRow'
    BY <1>1, <1>3, <1>5 DEF OnceInv, FailedMeansNotReturned, OneLiveRow
  <1>9. QED
    BY <1>6, <1>7, <1>8 DEF OnceInv

\* Recording an answer: a refund settled as failed was not returned.
LEMMA RecordKeepsOnce ==
    ASSUME RefundInv, OnceInv, NEW c \in Calls, RecordOutcome(c)
    PROVE  OnceInv'
  <1> DEFINE held == calls[c].r
  <1> USE Ranges
  <1>1. /\ At(c, "Record") /\ Settle(held, calls[c].word) /\ returning' = returning
        /\ calls' = [calls EXCEPT ![c] = Call("Idle", 0, "REQUESTED")]
    BY DEF RecordOutcome, Done, Idle
  <1>2. held \in DOMAIN rows /\ calls[c].word \in RefundStatuses /\ Holding(c)
    BY <1>1 DEF RefundInv, RowsFirst, Holding, At
  <1>3. /\ DOMAIN rows' = DOMAIN rows
        /\ \A s \in DOMAIN rows : s # held => rows'[s] = rows[s]
        /\ rows'[held] = IF rows[held] \in OpenStatuses THEN calls[c].word ELSE rows[held]
    BY <1>1, <1>2, SettleEffect
  <1>4. calls'[c].at = "Idle" /\ \A d \in Calls : d # c => calls'[d] = calls[d]
    <2>1. "Idle" \in Stages /\ 0 \in 0 .. MaxRefunds /\ "REQUESTED" \in RefundStatuses
      BY DEF Stages, RefundStatuses
    <2>2. QED
      BY <1>1, <2>1, CallEffect
  <1>5. Exclusive'
    <2>1. \A d, e \in Calls : Posting(d)' /\ Holding(e)' /\ calls'[d].r = calls'[e].r => d = e
      BY <1>4 DEF OnceInv, Exclusive, Posting, Holding
    <2>2. ASSUME NEW d \in Calls, At(d, "Post")' PROVE rows'[calls'[d].r] = "REQUESTED"
      <3>1. d # c /\ calls'[d] = calls[d] /\ Posting(d) /\ Holding(d) /\ At(d, "Post")
        BY <1>4, <2>2 DEF At, Posting, Holding
      <3>2. calls[d].r # held /\ calls[d].r \in DOMAIN rows /\ rows[calls[d].r] = "REQUESTED"
        BY <1>2, <3>1 DEF OnceInv, Exclusive, RefundInv, RowsFirst
      <3>3. QED
        BY <1>3, <3>1, <3>2
    <2>3. QED
      BY <2>1, <2>2 DEF Exclusive
  <1>6. FailedVerdicts'
    BY <1>1, <1>4 DEF OnceInv, FailedVerdicts, At
  <1>7. FailedMeansNotReturned'
    BY <1>1, <1>2, <1>3 DEF OnceInv, FailedVerdicts, FailedMeansNotReturned, At
  <1>8. OneLiveRow'
    BY <1>2, <1>3 DEF OnceInv, OneLiveRow, OpenStatuses
  <1>9. QED
    BY <1>5, <1>6, <1>7, <1>8 DEF OnceInv

\* The provider settles what it holds, and its event settles the open row.
LEMMA ProviderKeepsOnce ==
    ASSUME RefundInv, OnceInv, NEW r \in Receipts, ProviderSettles(r) \/ ReceiveRefundEvent(r)
    PROVE  OnceInv'
  <1> USE Ranges
  <1>1. CASE ProviderSettles(r)
    <2>1. PICK state \in {"processed", "failed"} :
              returning' = [returning EXCEPT ![r] = state]
      BY <1>1 DEF ProviderSettles
    <2>2. returning[r] = "pending" /\ rows' = rows /\ calls' = calls
      BY <1>1 DEF ProviderSettles
    <2>3. \A s \in Receipts : s # r => returning'[s] = returning[s]
      BY <2>1 DEF RefundInv, RefundTypeOK
    <2>4. Exclusive' /\ OneLiveRow'
      BY <2>2 DEF OnceInv, Exclusive, OneLiveRow, Posting, Holding, At
    <2>5. FailedVerdicts'
      BY <2>2, <2>3 DEF OnceInv, FailedVerdicts, Holding, At
    <2>6. FailedMeansNotReturned'
      BY <2>2, <2>3 DEF OnceInv, FailedMeansNotReturned
    <2>7. QED
      BY <2>4, <2>5, <2>6 DEF OnceInv
  <1>2. CASE ReceiveRefundEvent(r)
    <2>1. /\ returning[r] \in {"processed", "failed"} /\ r \in DOMAIN rows
          /\ returning' = returning /\ calls' = calls
          /\ Settle(r, StatusFromProvider(returning[r]))
      BY <1>2 DEF ReceiveRefundEvent, EventSettles
    <2>2. /\ DOMAIN rows' = DOMAIN rows
          /\ \A s \in DOMAIN rows : s # r => rows'[s] = rows[s]
          /\ rows'[r] = IF rows[r] \in OpenStatuses THEN StatusFromProvider(returning[r])
                                                   ELSE rows[r]
      BY <2>1, SettleEffect, StatusFromProviderType
    <2>3. Exclusive'
      <3>1. \A d, e \in Calls : Posting(d)' /\ Holding(e)' /\ calls'[d].r = calls'[e].r => d = e
        BY <2>1 DEF OnceInv, Exclusive, Posting, Holding
      <3>2. \A d \in Calls : At(d, "Post")' => rows'[calls'[d].r] = "REQUESTED"
        BY <2>1, <2>2 DEF OnceInv, Exclusive, RefundInv, OneCreate, RowsFirst, Holding, At
      <3>3. QED
        BY <3>1, <3>2 DEF Exclusive
    <2>4. FailedVerdicts'
      BY <2>1 DEF OnceInv, FailedVerdicts, At
    <2>5. FailedMeansNotReturned'
      BY <2>1, <2>2, StatusFromProviderType DEF OnceInv, FailedMeansNotReturned
    <2>6. OneLiveRow'
      BY <2>1, <2>2 DEF OnceInv, OneLiveRow, OpenStatuses
    <2>7. QED
      BY <2>3, <2>4, <2>5, <2>6 DEF OnceInv
  <1>3. QED
    BY <1>1, <1>2

LEMMA StepKeepsOnce == NoEarlyCheck /\ RefundInv /\ OnceInv /\ [Next]_vars => OnceInv'
  <1> SUFFICES ASSUME NoEarlyCheck, RefundInv, OnceInv, [Next]_vars PROVE OnceInv'
    OBVIOUS
  <1>1. CASE \E c \in Calls : RefundStep(c)
    <2>1. PICK c \in Calls : RefundStep(c)
      BY <1>1
    <2>2. QED
      BY <2>1, WaitingKeepsOnce, ClaimKeepsOnce, PostKeepsOnce, RecordKeepsOnce DEF RefundStep
  <1>2. CASE \E r \in Receipts : ProviderSettles(r) \/ ReceiveRefundEvent(r)
    BY <1>2, ProviderKeepsOnce
  <1>3. CASE WindowCloses \/ SecondCapture \/ UNCHANGED vars
    <2>1. rows' = rows /\ returning' = returning /\ calls' = calls
      BY <1>3 DEF WindowCloses, SecondCapture, vars
    <2>2. QED
      BY <2>1 DEF OnceInv, Exclusive, FailedVerdicts, FailedMeansNotReturned, OneLiveRow,
                  Holding, Posting, At
  <1>4. QED
    BY <1>1, <1>2, <1>3 DEF Next

-----------------------------------------------------------------------------
(* Theorems. *)

\* The inductive invariant holds of every behaviour.
THEOREM RefundInvariant == Spec => []RefundInv
  <1>1. Init => RefundInv
    BY RefundInitially
  <1>2. RefundInv /\ [Next]_vars => RefundInv'
    BY StepKeepsInv
  <1>3. QED
    BY <1>1, <1>2, PTL DEF Spec

\* Types, for any number of calls and refunds.
THEOREM RefundTypeCorrect == Spec => []RefundTypeOK
  <1>1. RefundInv => RefundTypeOK
    BY DEF RefundInv
  <1>2. QED
    BY <1>1, RefundInvariant, PTL

\* The buyer is told of a returned payment only when the provider returned it
\* (statusFromProvider and settle), whatever is lost, late or asked early.
THEOREM ProcessedAlwaysMeansReturned == Spec => []ProcessedMeansReturned
  <1>1. RefundInv => ProcessedMeansReturned
    BY DEF RefundInv
  <1>2. QED
    BY <1>1, RefundInvariant, PTL

\* settle: no answer, however late, moves a settled refund.
THEOREM SettledAlwaysStays == Spec => SettledStays
  <1> DEFINE Stays == \A r \in DOMAIN rows : rows[r] \in {"PROCESSED", "FAILED"} => rows'[r] = rows[r]
  <1>1. RefundInv /\ [Next]_vars => [Stays]_vars
    <2> SUFFICES ASSUME RefundInv, Next PROVE Stays
      BY DEF vars
    <2> USE Ranges
    <2>1. CASE rows' = rows
      BY <2>1
    <2>2. CASE \E c \in Calls : ClaimRefund(c)
      BY <2>2, ClaimEffect DEF ClaimRefund
    <2>3. ASSUME NEW c \in Calls, RecordOutcome(c) PROVE Stays
      <3>1. calls[c].r \in DOMAIN rows /\ calls[c].word \in RefundStatuses
        BY <2>3 DEF RecordOutcome, RefundInv, RowsFirst, Holding, At
      <3>2. QED
        BY <2>3, <3>1, SettleEffect DEF RecordOutcome, OpenStatuses
    <2>4. ASSUME NEW r \in Receipts, ReceiveRefundEvent(r) PROVE Stays
      BY <2>4, SettleEffect, StatusFromProviderType
         DEF ReceiveRefundEvent, EventSettles, OpenStatuses
    <2>5. QED
      BY <2>1, <2>2, <2>3, <2>4
         DEF Next, RefundStep, RequestRefund, ClaimRefused, Crash, PostRefund, PostRefused,
             PostUnanswered, ResolveByLookup, CheckRefund, ReceiveCheck, ProviderSettles,
             WindowCloses, SecondCapture
  <1>2. QED
    BY <1>1, RefundInvariant, PTL DEF Spec, SettledStays

\* Every row but the newest has failed: a claim finds no live row (mayInsert),
\* and settling revives none.
NewestLive == \A r \in DOMAIN rows : rows[r] # "FAILED" => r = Len(rows)

LEMMA StepKeepsNewestLive == RefundInv /\ NewestLive /\ [Next]_vars => NewestLive'
  <1> SUFFICES ASSUME RefundInv, NewestLive, [Next]_vars PROVE NewestLive'
    OBVIOUS
  <1> USE Ranges
  <1>1. CASE rows' = rows
    BY <1>1 DEF NewestLive
  <1>2. ASSUME NEW c \in Calls, ClaimRefund(c) PROVE NewestLive'
    <2>1. \A r \in DOMAIN rows : rows[r] = "FAILED"
      BY <1>2 DEF ClaimRefund, MayInsert, LiveRefund
    <2>2. QED
      BY <1>2, <2>1, ClaimEffect DEF ClaimRefund, NewestLive
  <1>3. ASSUME NEW r \in DOMAIN rows, NEW v \in RefundStatuses, Settle(r, v) PROVE NewestLive'
    BY <1>3, SettleEffect DEF NewestLive, OpenStatuses
  <1>4. ASSUME NEW c \in Calls, RecordOutcome(c) PROVE NewestLive'
    <2>1. calls[c].r \in DOMAIN rows /\ calls[c].word \in RefundStatuses
      BY <1>4 DEF RecordOutcome, RefundInv, RowsFirst, Holding, At
    <2>2. QED
      BY <1>3, <1>4, <2>1 DEF RecordOutcome
  <1>5. ASSUME NEW r \in Receipts, ReceiveRefundEvent(r) PROVE NewestLive'
    BY <1>3, <1>5, StatusFromProviderType DEF ReceiveRefundEvent, EventSettles
  <1>6. QED
    BY <1>1, <1>2, <1>4, <1>5
       DEF Next, RefundStep, RequestRefund, ClaimRefused, Crash, PostRefund, PostRefused,
           PostUnanswered, ResolveByLookup, CheckRefund, ReceiveCheck, ProviderSettles,
           WindowCloses, SecondCapture, vars

\* The card reads the newest row only, and that is enough: a refund is offered
\* only while none is live, and an open one can always be asked about.
THEOREM CardAlwaysTellsAll == Spec => []CardTellsAll
  <1>1. Init => NewestLive
    BY DEF Init, NewestLive
  <1>2. RefundInv /\ NewestLive => CardTellsAll
    <2> SUFFICES ASSUME RefundInv, NewestLive PROVE CardTellsAll
      OBVIOUS
    <2> USE Ranges
    <2>1. RefundCard = "REFUND" => ~LiveRefund
      BY DEF RefundCard, LiveRefund, NewestLive
    <2>2. (\E r \in DOMAIN rows : rows[r] \in OpenStatuses) => RefundCard = "CHECK"
      BY DEF RefundCard, OpenStatuses, NewestLive
    <2>3. QED
      BY <2>1, <2>2 DEF CardTellsAll
  <1>3. QED
    BY <1>1, <1>2, StepKeepsNewestLive, RefundInvariant, PTL DEF Spec

\* A refund recorded as failed is never one the provider holds, provided no
\* status check runs beside a create and no unanswered create takes effect after
\* the lookup that did not find it (the provider of the model does not do that).
THEOREM FailedAlwaysMeansNotReturned ==
    ASSUME NoEarlyCheck PROVE Spec => []FailedMeansNotReturned
  <1>1. Init => OnceInv
    BY RefundInitially
  <1>2. RefundInv /\ OnceInv /\ [Next]_vars => OnceInv'
    BY StepKeepsOnce
  <1>3. OnceInv => FailedMeansNotReturned
    BY DEF OnceInv
  <1>4. QED
    BY <1>1, <1>2, <1>3, RefundInvariant, PTL DEF Spec

\* The money goes back at most once, however many calls ask for a refund and
\* whatever is lost or crashes, under the same two assumptions.
THEOREM MoneyIsReturnedOnce ==
    ASSUME NoEarlyCheck PROVE Spec => []ReturnedOnce
  <1>1. Init => OnceInv
    BY RefundInitially
  <1>2. RefundInv /\ OnceInv /\ [Next]_vars => OnceInv'
    BY StepKeepsOnce
  <1>3. RefundInv /\ OnceInv => ReturnedOnce
    BY DEF RefundInv, RowsFirst, OnceInv, OneLiveRow, FailedMeansNotReturned, ReturnedOnce
  <1>4. QED
    BY <1>1, <1>2, <1>3, RefundInvariant, PTL DEF Spec
=============================================================================
