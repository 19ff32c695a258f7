----------------------- MODULE TransactionMachineProofs -----------------------
(***************************************************************************)
(* Facts about the matrix and the adjudication, for every state, event and *)
(* actor.  The proofs about the modules that move transactions cite them.  *)
(***************************************************************************)
EXTENDS TransactionMachine, TLAPS

\* The matrix only names declared states, events and actors, and no move
\* leaves a terminal state (the empty rows at the end of the matrix).
LEMMA TransitionsType ==
    \A t \in Transitions :
        /\ t.from \in TransactionStates \ TerminalStates
        /\ t.event \in Events
        /\ t.to \in TransactionStates
        /\ t.actors \subseteq Actors
  BY DEF Transitions, PurchaseMoves, PaymentMoves, RetryMoves,
         FailureMoves, CaptureMoves, ExpiryMoves, CancelMoves, Moves,
         TransactionStates, TerminalStates, Events, Actors, AIActors, ExpiryActors,
         BothPaymentActors

\* An applied verdict is one move of the matrix, taken by a permitted actor.
LEMMA ResolveApplies ==
    ASSUME NEW s, NEW e, NEW a, Resolve(s, e, a).kind = "APPLY"
    PROVE  \E t \in Transitions :
               /\ t.from = s /\ t.event = e /\ a \in t.actors
               /\ Resolve(s, e, a).to = t.to
  <1>1. PICK t \in FindTransition(s, e) : a \in t.actors
    BY DEF Resolve, MayTake
  <1> DEFINE u == CHOOSE t2 \in FindTransition(s, e) : a \in t2.actors
  <1>2. u \in FindTransition(s, e) /\ a \in u.actors
    BY <1>1
  <1>3. Resolve(s, e, a).to = u.to
    BY <1>1 DEF Resolve, MayTake
  <1>4. QED
    BY <1>2, <1>3 DEF FindTransition

\* Wherever stock is held or money moves, authority is either being granted by
\* this very move or was there before it and no quote was issued by it.
LEMMA AuthorityEdges ==
    \A t \in Transitions :
        t.to \in {"AUTHORIZED", "INVENTORY_RESERVED", "PAYMENT_ORDER_CREATED",
                  "PAYMENT_PENDING", "PAYMENT_VERIFIED", "PAYMENT_CAPTURED",
                  "PAYMENT_FAILED", "COMPLETED"}
        => \/ t.event \in {"POLICY_ALLOWED", "APPROVAL_GRANTED"}
           \/ /\ t.event # "QUOTE_ISSUED"
              /\ t.from \in {"AUTHORIZED", "INVENTORY_RESERVED", "PAYMENT_ORDER_CREATED",
                             "PAYMENT_PENDING", "PAYMENT_VERIFIED", "PAYMENT_CAPTURED",
                             "PAYMENT_FAILED", "COMPLETED"}
  BY DEF Transitions, PurchaseMoves, PaymentMoves, RetryMoves,
         FailureMoves, CaptureMoves, ExpiryMoves, CancelMoves, Moves

\* A grant is given only where a policy evaluation or a question stands, and
\* there only an evaluation leads, or a question out of one.
LEMMA EvaluationEdges ==
    \A t \in Transitions :
        /\ t.event \in {"POLICY_ALLOWED", "APPROVAL_GRANTED"} =>
              t.from \in {"POLICY_EVALUATED", "APPROVAL_REQUIRED"}
        /\ t.to \in {"POLICY_EVALUATED", "APPROVAL_REQUIRED"} =>
              \/ t.event = "POLICY_EVALUATION_COMPLETED"
              \/ t.event # "QUOTE_ISSUED" /\ t.from = "POLICY_EVALUATED"
  BY DEF Transitions, PurchaseMoves, PaymentMoves, RetryMoves,
         FailureMoves, CaptureMoves, ExpiryMoves, CancelMoves, Moves

\* Money is captured by a payment actor only, and a captured purchase can only
\* be completed.
LEMMA CaptureEdges ==
    \A t \in Transitions :
        /\ t.event = "PAYMENT_CAPTURE_CONFIRMED"
               => /\ t.actors \subseteq BothPaymentActors /\ t.to = "PAYMENT_CAPTURED"
                  /\ t.from \in {"PAYMENT_ORDER_CREATED", "PAYMENT_PENDING", "PAYMENT_VERIFIED",
                                 "PAYMENT_FAILED"}
        /\ t.to = "PAYMENT_CAPTURED" => t.event = "PAYMENT_CAPTURE_CONFIRMED"
        /\ t.to = "COMPLETED" <=> t.from = "PAYMENT_CAPTURED"
        /\ t.to = "COMPLETED" => t.event = "TRANSACTION_COMPLETED"
        /\ t.from # "COMPLETED"
  BY DEF Transitions, PurchaseMoves, PaymentMoves, RetryMoves,
         FailureMoves, CaptureMoves, ExpiryMoves, CancelMoves, Moves,
         BothPaymentActors

\* The AI actors own one move, out of the state every transaction starts in.
LEMMA AIEdges ==
    \A t \in Transitions :
        /\ t.actors \cap AIActors # {} => t.from = "INTENT_RECEIVED"
        /\ t.to # "INTENT_RECEIVED"
  BY DEF Transitions, PurchaseMoves, PaymentMoves, RetryMoves,
         FailureMoves, CaptureMoves, ExpiryMoves, CancelMoves, Moves,
         AIActors, BothPaymentActors, ExpiryActors

\* The edges into and out of an open question.
LEMMA ApprovalEdges ==
    \A t \in Transitions :
        /\ t.to = "APPROVAL_REQUIRED" => t.event = "POLICY_REQUIRES_APPROVAL"
        /\ t.from = "APPROVAL_REQUIRED" =>
              t.event \in {"APPROVAL_GRANTED", "APPROVAL_REJECTED", "APPROVAL_EXPIRED",
                          "TRANSACTION_CANCELLED"}
        /\ t.event = "APPROVAL_GRANTED" => t.from = "APPROVAL_REQUIRED" /\ t.to = "AUTHORIZED"
        /\ t.event = "APPROVAL_REJECTED" => t.from = "APPROVAL_REQUIRED" /\ t.to = "CANCELLED"
  BY DEF Transitions, PurchaseMoves, PaymentMoves, RetryMoves,
         FailureMoves, CaptureMoves, ExpiryMoves, CancelMoves, Moves,
         AIActors, BothPaymentActors, ExpiryActors

\* The edges of a re-quote, of a reservation and of a completion.
LEMMA RequoteEdges ==
    \A t \in Transitions :
        /\ t.event = "QUOTE_ISSUED" =>
              /\ t.from \in {"PRODUCT_VERIFIED", "QUOTE_CREATED", "PAYMENT_FAILED"}
              /\ t.to = "QUOTE_CREATED"
        /\ t.event = "POLICY_EVALUATION_COMPLETED" =>
              t.from = "QUOTE_CREATED" /\ t.to = "POLICY_EVALUATED"
        /\ t.event \in {"POLICY_ALLOWED", "POLICY_REQUIRES_APPROVAL", "POLICY_BLOCKED"} =>
              t.to \in {"AUTHORIZED", "APPROVAL_REQUIRED", "BLOCKED"}
        /\ t.event \in {"APPROVAL_GRANTED", "APPROVAL_REJECTED"} =>
              t.to \in {"AUTHORIZED", "CANCELLED"}
        /\ t.event = "INVENTORY_RESERVED" =>
              t.from = "AUTHORIZED" /\ t.to = "INVENTORY_RESERVED"
        /\ t.event = "TRANSACTION_COMPLETED" =>
              t.from = "PAYMENT_CAPTURED" /\ t.to = "COMPLETED"
  BY DEF Transitions, PurchaseMoves, PaymentMoves, RetryMoves, FailureMoves, CaptureMoves,
         ExpiryMoves, CancelMoves, Moves, BothPaymentActors

\* Adjudication either stays or takes a move of that event from that state.
LEMMA ResolveMoves ==
    ASSUME NEW s, NEW e, NEW a
    PROVE  \/ Resolve(s, e, a).to = s
           \/ \E t \in Transitions : t.from = s /\ t.event = e /\ Resolve(s, e, a).to = t.to
  <1>1. CASE Resolve(s, e, a).kind = "APPLY"
    BY <1>1, ResolveApplies
  <1>2. CASE Resolve(s, e, a).kind # "APPLY"
    BY <1>2 DEF Resolve
  <1>3. QED
    BY <1>1, <1>2

\* A captured purchase is completed when it is asked to be.
LEMMA CaptureCompletes ==
    Resolve("PAYMENT_CAPTURED", "TRANSACTION_COMPLETED", "transaction_service").to = "COMPLETED"
  <1> DEFINE edge == [from |-> "PAYMENT_CAPTURED", event |-> "TRANSACTION_COMPLETED",
                      to |-> "COMPLETED", actors |-> {"transaction_service"}]
             edges == FindTransition("PAYMENT_CAPTURED", "TRANSACTION_COMPLETED")
  <1>1. edge \in edges /\ MayTake(edge, "transaction_service")
    BY DEF FindTransition, Transitions, PaymentMoves, Moves, MayTake
  <1>2. \A t \in edges : t.to = "COMPLETED"
    BY RequoteEdges DEF FindTransition
  <1> HIDE DEF edge, edges
  <1>3. (CHOOSE t \in edges : MayTake(t, "transaction_service")) \in edges
    BY <1>1
  <1>4. "TRANSACTION_COMPLETED" \notin ExternalPaymentEvents
    BY DEF ExternalPaymentEvents
  <1>5. QED
    BY <1>1, <1>2, <1>3, <1>4 DEF Resolve, edges

\* Adjudication leads to a state, and anything but APPLY leaves it alone.
LEMMA ResolveTo ==
    ASSUME NEW s \in TransactionStates, NEW e, NEW a
    PROVE  /\ Resolve(s, e, a).to \in TransactionStates
           /\ Resolve(s, e, a).kind # "APPLY" => Resolve(s, e, a).to = s
  <1>1. CASE Resolve(s, e, a).kind = "APPLY"
    BY <1>1, ResolveApplies, TransitionsType
  <1>2. CASE Resolve(s, e, a).kind # "APPLY"
    BY <1>2 DEF Resolve
  <1>3. QED
    BY <1>1, <1>2

\* A replayed provider event changes nothing: whatever an event has moved counts
\* it as accounted for, whoever repeats it; and once the money is captured no
\* provider event is applied or treated as an error, only the completion is left.
THEOREM ReplaysChangeNothing ==
    /\ \A s, a, b : \A e \in ExternalPaymentEvents :
           Resolve(s, e, a).kind = "APPLY"
           => Resolve(Resolve(s, e, a).to, e, b).kind = "IDEMPOTENT_NO_OP"
    /\ \A s \in {"PAYMENT_CAPTURED", "COMPLETED"} : \A e, a :
           /\ Resolve(s, e, a).kind = "APPLY" => e = "TRANSACTION_COMPLETED"
           /\ e \in ExternalPaymentEvents
              => Resolve(s, e, a).kind \in {"IDEMPOTENT_NO_OP", "LATE_EVENT"}
  <1>1. \A t \in Transitions :
            t.event \in ExternalPaymentEvents => AlreadyAccountedFor(t.event, t.to)
    BY DEF Transitions, PurchaseMoves, PaymentMoves, RetryMoves, FailureMoves, CaptureMoves,
           ExpiryMoves, CancelMoves, Moves, ExternalPaymentEvents, AlreadyAccountedFor
  <1>2. ASSUME NEW s, NEW a, NEW b, NEW e \in ExternalPaymentEvents,
               Resolve(s, e, a).kind = "APPLY"
        PROVE  Resolve(Resolve(s, e, a).to, e, b).kind = "IDEMPOTENT_NO_OP"
    <2>1. AlreadyAccountedFor(e, Resolve(s, e, a).to)
      BY <1>1, <1>2, ResolveApplies
    <2>2. PICK state : state = Resolve(s, e, a).to
      OBVIOUS
    <2>3. Resolve(state, e, b).kind = "IDEMPOTENT_NO_OP"
      BY <2>1, <2>2 DEF Resolve
    <2>4. QED
      BY <2>2, <2>3
  <1>3. ASSUME NEW s \in {"PAYMENT_CAPTURED", "COMPLETED"}, NEW e, NEW a
        PROVE  /\ Resolve(s, e, a).kind = "APPLY" => e = "TRANSACTION_COMPLETED"
               /\ e \in ExternalPaymentEvents
                  => Resolve(s, e, a).kind \in {"IDEMPOTENT_NO_OP", "LATE_EVENT"}
    <2>1. \A t \in FindTransition(s, e) : e = "TRANSACTION_COMPLETED"
      BY CaptureEdges DEF FindTransition
    <2>2. Resolve(s, e, a).kind = "APPLY" => e = "TRANSACTION_COMPLETED"
      BY CaptureEdges, ResolveApplies
    <2>3. e \in ExternalPaymentEvents => FindTransition(s, e) = {}
      BY <2>1 DEF ExternalPaymentEvents
    <2>4. e \in ExternalPaymentEvents
          => Resolve(s, e, a).kind \in {"IDEMPOTENT_NO_OP", "LATE_EVENT"}
      BY <2>3 DEF Resolve
    <2>5. QED
      BY <2>2, <2>4
  <1>4. QED
    BY <1>2, <1>3

\* A capture the webhook reports is applied, a duplicate, or held for a person
\* to reconcile, in whatever state it arrives: never discarded as an error.
THEOREM CapturesAreNeverDiscarded ==
    \A s : Resolve(s, "PAYMENT_CAPTURE_CONFIRMED", "payment_webhook").kind # "INVALID"
  <1>1. \A t \in Transitions :
            t.event = "PAYMENT_CAPTURE_CONFIRMED" => MayTake(t, "payment_webhook")
    BY DEF Transitions, PurchaseMoves, PaymentMoves, RetryMoves, FailureMoves, CaptureMoves,
           ExpiryMoves, CancelMoves, Moves, BothPaymentActors, MayTake
  <1>2. \A s : \A t \in FindTransition(s, "PAYMENT_CAPTURE_CONFIRMED") :
            MayTake(t, "payment_webhook")
    BY <1>1 DEF FindTransition
  <1>3. "PAYMENT_CAPTURE_CONFIRMED" \in ExternalPaymentEvents
    BY DEF ExternalPaymentEvents
  <1>4. QED
    BY <1>2, <1>3 DEF Resolve
=============================================================================
