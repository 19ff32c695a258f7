----------------------------- MODULE Lifecycle -----------------------------
(***************************************************************************)
(* The transition executor: the only code that writes transaction.status.  *)
(*                                                                         *)
(* Every service asks it to apply an event, and it runs inside a database  *)
(* transaction at READ COMMITTED: it reads the status and the key, lets    *)
(* the pure machine decide, then writes with an update conditioned on the  *)
(* status it read, and appends one history row under two unique indexes.   *)
(* The read and the write are two steps here, because another caller may   *)
(* commit between them.  Callers are arbitrary: any event, any actor.      *)
(***************************************************************************)
EXTENDS TransactionMachine, Naturals, Sequences

CONSTANTS
    Callers,      \* service calls that may be running at the same time
    Commands,     \* what a caller may ask for: [event, actor, key] records
    NoKey,        \* a command without an idempotency key
    MaxHistory    \* bound on the history rows TLC explores

ASSUME CommandsAssumption ==
    \A c \in Commands : c.event \in Events /\ c.actor \in Actors
ASSUME MaxHistoryAssumption == MaxHistory \in Nat

VARIABLES
    status,       \* transaction.status
    history,      \* transaction_state_transition rows, in sequence order
    pending       \* per caller: the decided move it is about to write

vars == <<status, history, pending>>

Rows == [from : TransactionStates, to : TransactionStates, event : Events,
         actor : Actors, key : {c.key : c \in Commands}]

Idle == [event |-> "none"]

LifecycleTypeOK ==
    /\ status \in TransactionStates
    /\ history \in Seq(Rows)
    /\ pending \in [Callers -> Rows \cup {Idle}]

\* Faulty variant: the history is neither asked for the key nor indexed by it.
RecordedKeyIgnored(key) == FALSE

RecordedKey(key) == key # NoKey /\ \E i \in DOMAIN history : history[i].key = key

-----------------------------------------------------------------------------
Init ==
    /\ status = "INTENT_RECEIVED"
    /\ history = <<>>
    /\ pending = [c \in Callers |-> Idle]

\* Read and adjudicate.  A recorded key answers ALREADY_APPLIED (or a
\* conflict); a verdict other than APPLY answers without writing: neither is
\* a step of the model, since nothing in the database or the caller changes.
Decide(c, command) ==
    LET decision == Resolve(status, command.event, command.actor)
    IN  /\ pending[c] = Idle
        /\ Len(history) < MaxHistory
        /\ ~RecordedKey(command.key)
        /\ decision.kind = "APPLY"
        /\ pending' = [pending EXCEPT ![c] =
               [from |-> status, to |-> decision.to, event |-> command.event,
                actor |-> command.actor, key |-> command.key]]
        /\ UNCHANGED <<status, history>>

\* Faulty variant: the update is not conditioned on the status that was read.
CommitUnconditionally(c) ==
    LET move == pending[c]
    IN  /\ move # Idle
        /\ ~RecordedKey(move.key)
        /\ status' = move.to
        /\ history' = Append(history, move)
        /\ pending' = [pending EXCEPT ![c] = Idle]

\* The conditional update matched its row and the history row was accepted.
Commit(c) ==
    LET move == pending[c]
    IN  /\ move # Idle
        /\ status = move.from
        /\ ~RecordedKey(move.key)
        /\ status' = move.to
        /\ history' = Append(history, move)
        /\ pending' = [pending EXCEPT ![c] = Idle]

\* No row matched, the unique key index refused the row, or the process died:
\* the database transaction rolls back.
RollBack(c) ==
    /\ pending[c] # Idle
    /\ pending' = [pending EXCEPT ![c] = Idle]
    /\ UNCHANGED <<status, history>>

Next == \E c \in Callers :
    \/ \E command \in Commands : Decide(c, command)
    \/ Commit(c)
    \/ RollBack(c)

Spec == Init /\ [][Next]_vars

-----------------------------------------------------------------------------
(* Properties. *)

StateAfter(i) == IF i = 0 THEN "INTENT_RECEIVED" ELSE history[i].to

\* The history is the status: the rows form one unbroken chain from
\* INTENT_RECEIVED to the current status, although two callers may have
\* decided from the same state and the state may have gone round a retry
\* cycle in between (the update conditioned on the status read).
HistoryExplainsStatus ==
    /\ \A i \in DOMAIN history : history[i].from = StateAfter(i - 1)
    /\ status = StateAfter(Len(history))

\* One operation key moves a transaction at most once.  The status condition
\* alone does not give this: QUOTE_ISSUED leaves QUOTE_CREATED where it is,
\* so only the unique index stops a second writer of the same operation.
OperationAppliedOnce ==
    \A i, j \in DOMAIN history :
        history[i].key = history[j].key /\ history[i].key # NoKey => i = j

AuthorizedStates ==
    {"AUTHORIZED", "INVENTORY_RESERVED", "PAYMENT_ORDER_CREATED", "PAYMENT_PENDING",
     "PAYMENT_VERIFIED", "PAYMENT_CAPTURED", "PAYMENT_FAILED", "COMPLETED"}

GrantEvents == {"POLICY_ALLOWED", "APPROVAL_GRANTED"}

AfterLastQuote(i) == \A j \in DOMAIN history : history[j].event = "QUOTE_ISSUED" => j < i

\* A quote voids the authority given before it: wherever stock is held or money
\* moves, the history has an evaluation and then a grant, by the policy or a
\* person, both later than the last quote - also when a failed payment is
\* re-quoted and retried.  Which quote the evaluation had read is not in the
\* history; AnswerIsJustified of Authority is about that.
AuthorityFollowsQuote ==
    status \in AuthorizedStates =>
        \E i, k \in DOMAIN history :
            /\ history[i].event = "POLICY_EVALUATION_COMPLETED" /\ AfterLastQuote(i)
            /\ history[k].event \in GrantEvents /\ i < k

\* Completion is never claimed, it is proved: a captured or completed purchase
\* has exactly one capture in its history, reported by the payment provider,
\* and nothing but the completion follows it.
CaptureIsFinal ==
    LET captures == {i \in DOMAIN history : history[i].event = "PAYMENT_CAPTURE_CONFIRMED"}
    IN  /\ status \in {"PAYMENT_CAPTURED", "COMPLETED"} <=> captures # {}
        /\ \A i \in captures :
               /\ history[i].actor \in BothPaymentActors
               /\ \A j \in DOMAIN history :
                      j > i => history[j].event = "TRANSACTION_COMPLETED"

\* An AI actor proposes a product and does nothing else, whatever it asks for.
AIOnlyProposes ==
    \A i \in DOMAIN history : history[i].actor \in AIActors => i = 1
=============================================================================
