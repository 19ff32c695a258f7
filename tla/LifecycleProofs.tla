-------------------------- MODULE LifecycleProofs --------------------------
(***************************************************************************)
(* The executor's invariants for any set of concurrent callers and any     *)
(* commands: whatever they ask for, in whatever order their reads and      *)
(* writes interleave.  The strengthening is RowsAreMoves: every row, and   *)
(* every move a caller has decided but not yet written, is a move of the   *)
(* matrix by an actor the matrix permits; and EvaluationFollowsQuote: where*)
(* a grant can be given, an evaluation stands behind the last quote.       *)
(***************************************************************************)
EXTENDS Lifecycle, TransactionMachineProofs

\* One row of the matrix explains the row.
IsMove(row) ==
    \E t \in Transitions :
        /\ t.from = row.from /\ t.event = row.event
        /\ t.to = row.to /\ row.actor \in t.actors

RowsAreMoves ==
    /\ \A i \in DOMAIN history : IsMove(history[i])
    /\ \A c \in Callers : pending[c] # Idle => IsMove(pending[c])

EvaluatedAfterQuote(i) ==
    history[i].event = "POLICY_EVALUATION_COMPLETED" /\ AfterLastQuote(i)

EvaluationFollowsQuote ==
    status \in {"POLICY_EVALUATED", "APPROVAL_REQUIRED"} =>
        \E i \in DOMAIN history : EvaluatedAfterQuote(i)

LifecycleInv ==
    /\ LifecycleTypeOK
    /\ RowsAreMoves
    /\ HistoryExplainsStatus
    /\ OperationAppliedOnce
    /\ EvaluationFollowsQuote
    /\ AuthorityFollowsQuote
    /\ CaptureIsFinal
    /\ AIOnlyProposes

\* A new transaction satisfies the invariant.
LEMMA InitEstablishes == Init => LifecycleInv
  <1> SUFFICES ASSUME Init PROVE LifecycleInv
    OBVIOUS
  <1>1. history = <<>> /\ Len(history) = 0 /\ DOMAIN history = {}
    BY DEF Init
  <1>2. LifecycleTypeOK
    BY <1>1 DEF Init, LifecycleTypeOK, TransactionStates
  <1>3. RowsAreMoves /\ HistoryExplainsStatus /\ OperationAppliedOnce
    BY <1>1 DEF Init, RowsAreMoves, HistoryExplainsStatus, StateAfter, OperationAppliedOnce
  <1>4. EvaluationFollowsQuote /\ AuthorityFollowsQuote /\ AIOnlyProposes
    BY <1>1 DEF Init, EvaluationFollowsQuote, AuthorityFollowsQuote, AuthorizedStates,
                AIOnlyProposes
  <1>5. CaptureIsFinal
    BY <1>1 DEF Init, CaptureIsFinal
  <1>6. QED
    BY <1>2, <1>3, <1>4, <1>5 DEF LifecycleInv

\* Deciding writes nothing but the caller's own move, which the machine chose.
LEMMA DecidePreserves ==
    ASSUME LifecycleInv, NEW c \in Callers, NEW command \in Commands, Decide(c, command)
    PROVE  LifecycleInv'
  <1> DEFINE decision == Resolve(status, command.event, command.actor)
             move == [from |-> status, to |-> decision.to, event |-> command.event,
                      actor |-> command.actor, key |-> command.key]
  <1>1. /\ decision.kind = "APPLY"
        /\ pending' = [pending EXCEPT ![c] = move]
        /\ status' = status /\ history' = history
    BY DEF Decide
  <1>2. PICK t \in Transitions :
            /\ t.from = status /\ t.event = command.event
            /\ command.actor \in t.actors /\ decision.to = t.to
    BY <1>1, ResolveApplies
  <1>3. IsMove(move) /\ move \in Rows
    <2>1. IsMove(move)
      BY <1>2 DEF IsMove
    <2>2. move.from \in TransactionStates /\ move.to \in TransactionStates
      BY <1>2, TransitionsType DEF LifecycleInv, LifecycleTypeOK
    <2>3. move.event \in Events /\ move.actor \in Actors
      BY CommandsAssumption
    <2>4. QED
      BY <2>1, <2>2, <2>3 DEF Rows
  <1>4. LifecycleTypeOK'
    BY <1>1, <1>3 DEF LifecycleInv, LifecycleTypeOK
  <1>5. RowsAreMoves'
    BY <1>1, <1>3 DEF LifecycleInv, RowsAreMoves, LifecycleTypeOK, IsMove
  <1>6. (HistoryExplainsStatus /\ OperationAppliedOnce)'
        /\ (EvaluationFollowsQuote /\ AuthorityFollowsQuote)'
    BY <1>1 DEF LifecycleInv, HistoryExplainsStatus, StateAfter, OperationAppliedOnce,
                EvaluationFollowsQuote, AuthorityFollowsQuote, EvaluatedAfterQuote,
                AfterLastQuote
  <1>7. (CaptureIsFinal /\ AIOnlyProposes)'
    BY <1>1 DEF LifecycleInv, CaptureIsFinal, AIOnlyProposes
  <1>8. QED
    BY <1>4, <1>5, <1>6, <1>7 DEF LifecycleInv

\* A rolled back write leaves the rows and the other callers alone.
LEMMA RollBackPreserves ==
    ASSUME LifecycleInv, NEW c \in Callers, RollBack(c)
    PROVE  LifecycleInv'
  <1>1. pending' = [pending EXCEPT ![c] = Idle] /\ status' = status /\ history' = history
    BY DEF RollBack
  <1>2. LifecycleTypeOK' /\ RowsAreMoves'
    BY <1>1 DEF LifecycleInv, LifecycleTypeOK, RowsAreMoves, IsMove
  <1>3. (HistoryExplainsStatus /\ OperationAppliedOnce)'
        /\ (EvaluationFollowsQuote /\ AuthorityFollowsQuote)'
    BY <1>1 DEF LifecycleInv, HistoryExplainsStatus, StateAfter, OperationAppliedOnce,
                EvaluationFollowsQuote, AuthorityFollowsQuote, EvaluatedAfterQuote,
                AfterLastQuote
  <1>4. (CaptureIsFinal /\ AIOnlyProposes)'
    BY <1>1 DEF LifecycleInv, CaptureIsFinal, AIOnlyProposes
  <1>5. QED
    BY <1>2, <1>3, <1>4 DEF LifecycleInv

\* The write: one more row, whose origin is the status it replaces.
LEMMA CommitPreserves ==
    ASSUME LifecycleInv, NEW c \in Callers, Commit(c)
    PROVE  LifecycleInv'
  <1>0. pending[c] \in Rows \cup {Idle} /\ pending[c] # Idle /\ history \in Seq(Rows)
    BY DEF LifecycleInv, LifecycleTypeOK, Commit
  <1>a. PICK move \in Rows : move = pending[c]
    BY <1>0
  <1>b. PICK n \in Nat : n = Len(history)
    BY <1>0
  <1>1. /\ move # Idle /\ status = move.from /\ ~RecordedKey(move.key)
        /\ status' = move.to /\ history' = Append(history, move)
        /\ pending' = [pending EXCEPT ![c] = Idle]
    BY <1>a DEF Commit
  <1>2. move \in Rows /\ history \in Seq(Rows) /\ n \in Nat /\ n = Len(history)
    BY <1>0, <1>b
  <1>3. /\ Len(history') = n + 1
        /\ DOMAIN history' = 1 .. (n + 1) /\ DOMAIN history = 1 .. n
        /\ history'[n + 1] = move
        /\ \A i \in 1 .. n : history'[i] = history[i]
    BY <1>1, <1>2
  <1>4. PICK t \in Transitions :
            /\ t.from = move.from /\ t.event = move.event
            /\ t.to = move.to /\ move.actor \in t.actors
    BY <1>1, <1>a DEF LifecycleInv, RowsAreMoves, IsMove
  <1>5. LifecycleTypeOK'
    BY <1>1, <1>2 DEF LifecycleInv, LifecycleTypeOK, Rows
  <1>6. RowsAreMoves'
    <2>1. \A i \in DOMAIN history' : IsMove(history[i])' 
      BY <1>3, <1>4 DEF LifecycleInv, RowsAreMoves, IsMove
    <2>2. \A d \in Callers : pending'[d] # Idle => IsMove(pending[d])'
      BY <1>1 DEF LifecycleInv, RowsAreMoves, IsMove, LifecycleTypeOK
    <2>3. QED
      BY <2>1, <2>2 DEF RowsAreMoves
  <1>7. HistoryExplainsStatus'
    <2>1. \A i \in 0 .. n : StateAfter(i)' = StateAfter(i)
      BY <1>2, <1>3 DEF StateAfter
    <2>2. StateAfter(n + 1)' = move.to
      BY <1>2, <1>3 DEF StateAfter
    <2>3. \A i \in 1 .. (n + 1) : history'[i].from = StateAfter(i - 1)'
      <3> SUFFICES ASSUME NEW i \in 1 .. (n + 1) PROVE history'[i].from = StateAfter(i - 1)'
        OBVIOUS
      <3>1. CASE i = n + 1
        <4>1. history'[i].from = StateAfter(n)
          BY <3>1, <1>1, <1>2, <1>3 DEF LifecycleInv, HistoryExplainsStatus
        <4>2. StateAfter(n)' = StateAfter(n) /\ i - 1 = n
          BY <3>1, <1>2, <2>1
        <4>3. StateAfter(i - 1)' = StateAfter(n)'
          BY <4>2 DEF StateAfter
        <4>4. QED
          BY <4>1, <4>2, <4>3
      <3>2. CASE i \in 1 .. n
        BY <3>2, <1>2, <1>3, <2>1 DEF LifecycleInv, HistoryExplainsStatus
      <3>3. QED
        BY <3>1, <3>2, <1>2
    <2>4. QED
      BY <1>1, <1>2, <1>3, <2>2, <2>3 DEF HistoryExplainsStatus
  <1>8. OperationAppliedOnce'
    BY <1>1, <1>2, <1>3 DEF LifecycleInv, OperationAppliedOnce, RecordedKey
  <1>9. (EvaluationFollowsQuote /\ AuthorityFollowsQuote)'
    <2>1. \A i \in DOMAIN history :
              t.event # "QUOTE_ISSUED" => (AfterLastQuote(i) => AfterLastQuote(i)')
      BY <1>2, <1>3, <1>4 DEF AfterLastQuote
    <2>2. t.event # "QUOTE_ISSUED" /\ (\E i \in DOMAIN history : EvaluatedAfterQuote(i))
          => \E i \in DOMAIN history : EvaluatedAfterQuote(i)'
      BY <2>1, <1>2, <1>3 DEF EvaluatedAfterQuote
    <2>3. DOMAIN history \subseteq DOMAIN history'
      BY <1>2, <1>3
    <2>4. EvaluationFollowsQuote'
      <3> SUFFICES ASSUME status' \in {"POLICY_EVALUATED", "APPROVAL_REQUIRED"}
                   PROVE  \E i \in DOMAIN history' : EvaluatedAfterQuote(i)'
        BY DEF EvaluationFollowsQuote
      <3>1. CASE t.event = "POLICY_EVALUATION_COMPLETED"
        <4>1. EvaluatedAfterQuote(n + 1)'
          BY <3>1, <1>2, <1>3, <1>4 DEF EvaluatedAfterQuote, AfterLastQuote
        <4>2. QED
          BY <4>1, <1>2, <1>3
      <3>2. CASE t.event # "QUOTE_ISSUED" /\ t.from = "POLICY_EVALUATED"
        BY <3>2, <2>2, <2>3, <1>1, <1>4 DEF LifecycleInv, EvaluationFollowsQuote
      <3>3. QED
        BY <3>1, <3>2, <1>1, <1>4, EvaluationEdges
    <2>5. AuthorityFollowsQuote'
      <3> SUFFICES ASSUME status' \in AuthorizedStates
                   PROVE  \E i, k \in DOMAIN history' :
                              /\ EvaluatedAfterQuote(i)'
                              /\ history'[k].event \in GrantEvents /\ i < k
        BY DEF AuthorityFollowsQuote, EvaluatedAfterQuote
      <3>1. CASE t.event \in GrantEvents
        <4>1. t.event # "QUOTE_ISSUED" /\ status \in {"POLICY_EVALUATED", "APPROVAL_REQUIRED"}
          BY <3>1, <1>1, <1>4, EvaluationEdges DEF GrantEvents
        <4>2. PICK i \in DOMAIN history : EvaluatedAfterQuote(i)'
          BY <4>1, <2>2 DEF LifecycleInv, EvaluationFollowsQuote
        <4>3. i < n + 1 /\ n + 1 \in DOMAIN history' /\ history'[n + 1].event \in GrantEvents
          BY <4>2, <3>1, <1>2, <1>3, <1>4
        <4>4. QED
          BY <4>2, <4>3, <2>3
      <3>2. CASE t.event # "QUOTE_ISSUED" /\ t.from \in AuthorizedStates
        <4>1. PICK i, k \in DOMAIN history :
                  EvaluatedAfterQuote(i) /\ history[k].event \in GrantEvents /\ i < k
          BY <3>2, <1>1, <1>4 DEF LifecycleInv, AuthorityFollowsQuote, EvaluatedAfterQuote
        <4>2. EvaluatedAfterQuote(i)' /\ history'[k].event \in GrantEvents
          BY <4>1, <3>2, <2>1, <1>2, <1>3 DEF EvaluatedAfterQuote
        <4>3. QED
          BY <4>1, <4>2, <2>3
      <3>3. QED
        BY <3>1, <3>2, <1>1, <1>4, AuthorityEdges DEF AuthorizedStates, GrantEvents
    <2>6. QED
      BY <2>4, <2>5
  <1>10. CaptureIsFinal'
    <2> DEFINE IsCapture(i) == history[i].event = "PAYMENT_CAPTURE_CONFIRMED"
    <2>1. CASE status \in {"PAYMENT_CAPTURED", "COMPLETED"}
      <3>1. t.from = "PAYMENT_CAPTURED" /\ t.to = "COMPLETED" /\ t.event = "TRANSACTION_COMPLETED"
        BY <2>1, <1>1, <1>4, CaptureEdges
      <3>2. \E i \in DOMAIN history : IsCapture(i)
        BY <2>1 DEF LifecycleInv, CaptureIsFinal
      <3>3. QED
        BY <3>1, <3>2, <1>1, <1>2, <1>3, <1>4 DEF LifecycleInv, CaptureIsFinal
    <2>2. CASE status \notin {"PAYMENT_CAPTURED", "COMPLETED"}
      <3>1. \A i \in DOMAIN history : ~IsCapture(i)
        BY <2>2 DEF LifecycleInv, CaptureIsFinal
      <3>2. t.to # "COMPLETED" /\ (t.to = "PAYMENT_CAPTURED" <=> t.event = "PAYMENT_CAPTURE_CONFIRMED")
        BY <2>2, <1>1, <1>4, CaptureEdges
      <3>3. t.event = "PAYMENT_CAPTURE_CONFIRMED" => move.actor \in BothPaymentActors
        BY <1>4, CaptureEdges
      <3>4. QED
        BY <3>1, <3>2, <3>3, <1>1, <1>2, <1>3, <1>4 DEF CaptureIsFinal
    <2>3. QED
      BY <2>1, <2>2
  <1>11. AIOnlyProposes'
    <2>1. move.actor \in AIActors => n = 0
      <3> SUFFICES ASSUME move.actor \in AIActors, n # 0 PROVE FALSE
        OBVIOUS
      <3>1. t.from = "INTENT_RECEIVED"
        BY <1>4, AIEdges
      <3>2. n \in DOMAIN history /\ status = history[n].to
        BY <1>2, <1>3 DEF LifecycleInv, HistoryExplainsStatus, StateAfter
      <3>3. history[n].to # "INTENT_RECEIVED"
        BY <3>2, AIEdges DEF LifecycleInv, RowsAreMoves, IsMove
      <3>4. QED
        BY <3>1, <3>2, <3>3, <1>1, <1>4
    <2>2. QED
      BY <2>1, <1>2, <1>3 DEF LifecycleInv, AIOnlyProposes
  <1>12. QED
    BY <1>5, <1>6, <1>7, <1>8, <1>9, <1>10, <1>11 DEF LifecycleInv

\* Every step of every caller preserves the invariant.
LEMMA StepPreserves == LifecycleInv /\ [Next]_vars => LifecycleInv'
  <1> SUFFICES ASSUME LifecycleInv, [Next]_vars PROVE LifecycleInv'
    OBVIOUS
  <1>1. ASSUME NEW c \in Callers, NEW command \in Commands, Decide(c, command)
        PROVE  LifecycleInv'
    BY <1>1, DecidePreserves
  <1>2. ASSUME NEW c \in Callers, Commit(c) PROVE LifecycleInv'
    BY <1>2, CommitPreserves
  <1>3. ASSUME NEW c \in Callers, RollBack(c) PROVE LifecycleInv'
    BY <1>3, RollBackPreserves
  <1>4. CASE UNCHANGED vars
    BY <1>4 DEF vars, LifecycleInv, LifecycleTypeOK, RowsAreMoves, IsMove,
                HistoryExplainsStatus, StateAfter, OperationAppliedOnce,
                EvaluationFollowsQuote, AuthorityFollowsQuote, EvaluatedAfterQuote,
                AfterLastQuote, CaptureIsFinal, AIOnlyProposes
  <1>5. QED
    BY <1>1, <1>2, <1>3, <1>4 DEF Next

\* The inductive invariant holds in every reachable state of the executor.
THEOREM LifecycleInvariant == Spec => []LifecycleInv
  BY InitEstablishes, StepPreserves, PTL DEF Spec

\* The executor keeps its variables well typed (transition-service).
THEOREM LifecycleTypeCorrect == Spec => []LifecycleTypeOK
  <1>1. LifecycleInv => LifecycleTypeOK
    BY DEF LifecycleInv
  <1>2. QED
    BY <1>1, LifecycleInvariant, PTL

\* The history of a transaction is one unbroken chain that ends in its status.
THEOREM HistoryAlwaysExplainsStatus == Spec => []HistoryExplainsStatus
  <1>1. LifecycleInv => HistoryExplainsStatus
    BY DEF LifecycleInv
  <1>2. QED
    BY <1>1, LifecycleInvariant, PTL

\* No two rows of a transaction carry the same operation key.
THEOREM OperationsApplyOnce == Spec => []OperationAppliedOnce
  <1>1. LifecycleInv => OperationAppliedOnce
    BY DEF LifecycleInv
  <1>2. QED
    BY <1>1, LifecycleInvariant, PTL

\* In the history of any purchase whose stock is held or whose money moves, an
\* evaluation and then a grant come after the last quote: no re-quote is passed
\* by without both.
THEOREM AuthorityAlwaysFollowsQuote == Spec => []AuthorityFollowsQuote
  <1>1. LifecycleInv => AuthorityFollowsQuote
    BY DEF LifecycleInv
  <1>2. QED
    BY <1>1, LifecycleInvariant, PTL

\* Captured money is proved by one provider event and followed by completion only.
THEOREM CaptureIsAlwaysFinal == Spec => []CaptureIsFinal
  <1>1. LifecycleInv => CaptureIsFinal
    BY DEF LifecycleInv
  <1>2. QED
    BY <1>1, LifecycleInvariant, PTL

\* An AI actor's only move is the first one.
THEOREM AIAlwaysOnlyProposes == Spec => []AIOnlyProposes
  <1>1. LifecycleInv => AIOnlyProposes
    BY DEF LifecycleInv
  <1>2. QED
    BY <1>1, LifecycleInvariant, PTL
=============================================================================
