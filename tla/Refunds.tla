------------------------------- MODULE Refunds -------------------------------
(***************************************************************************)
(* Refunds of one completed purchase: requests from several tabs, status   *)
(* checks, the provider, and the refund events it pushes.  A request reads *)
(* the purchase, claims a row, sends one create to the provider, and only  *)
(* then records the answer; checks and events may come in between.         *)
(***************************************************************************)
EXTENDS Naturals, Sequences

CONSTANTS
    Calls,        \* service calls that may be in progress at the same time
    MaxRefunds,   \* bound: refund rows of the purchase
    World         \* what may go wrong or change around the service

WorldEvents ==
    {"CRASH",           \* a process dies
     "REFUSED_POST",    \* the provider refuses credentials or rate-limits
     "LOST_ANSWER",     \* a provider call is not answered
     "EARLY_CHECK",     \* the status is asked while a create is under way
     "WINDOW",          \* the refund window closes
     "SECOND_CAPTURE"}  \* a payment of a replaced order is captured as well

ASSUME RefundAssumption == MaxRefunds \in Nat /\ World \subseteq WorldEvents

VARIABLES
    rows,        \* refund.status, by the ordinal its receipt is derived from
    returning,   \* at the provider: the refund it holds for each receipt
    captures,    \* payment_attempt rows that are CAPTURED
    windowOpen,  \* the purchase completed within the refund window
    ledger,      \* webhook_event rows: the refund events processed
    calls        \* the service calls in progress

facts == <<captures, windowOpen>>
vars == <<rows, returning, captures, windowOpen, ledger, calls>>

RefundStatuses == {"REQUESTED", "PENDING", "PROCESSED", "FAILED", "RECONCILIATION_REQUIRED"}
OpenStatuses == {"REQUESTED", "PENDING", "RECONCILIATION_REQUIRED"}
Receipts == 1 .. MaxRefunds

\* The provider's words for a refund; "none" when it holds none.
ProviderStates == {"none", "pending", "processed", "failed"}

RefundEvents == Receipts \X {"processed", "failed"}

\* `word`: the status a check has read, or the status to record.
Stages == {"Idle", "Claim", "Post", "Recover", "Record", "Check"}
CallRecords == [at : Stages, r : 0 .. MaxRefunds, word : RefundStatuses]

Call(stage, r, word) == [at |-> stage, r |-> r, word |-> word]
Idle == Call("Idle", 0, "REQUESTED")

Init ==
    /\ rows = <<>> /\ returning = [r \in Receipts |-> "none"]
    /\ captures = 1 /\ windowOpen = TRUE
    /\ ledger = {} /\ calls = [c \in Calls |-> Idle]

-----------------------------------------------------------------------------
At(c, stage) == calls[c].at = stage
Goto(c, stage) == calls' = [calls EXCEPT ![c] = Call(stage, calls[c].r, "REQUESTED")]
RecordLater(c, word) == calls' = [calls EXCEPT ![c] = Call("Record", calls[c].r, word)]
Done(c) == calls' = [calls EXCEPT ![c] = Idle]

\* The page's refund card reads the newest row only (readRefund).
RefundCard ==
    IF rows = <<>> \/ rows[Len(rows)] = "FAILED" THEN "REFUND"
    ELSE IF rows[Len(rows)] = "PROCESSED" THEN "SETTLED" ELSE "CHECK"

\* Faulty variant: a refund is live once the provider has confirmed it.
LiveWhenConfirmed == \E r \in DOMAIN rows : rows[r] \in {"PENDING", "PROCESSED"}

LiveRefund == \E r \in DOMAIN rows : rows[r] # "FAILED"

\* assessRefund: one captured payment, nothing returned or on its way, in time.
AssessRefund == captures = 1 /\ ~LiveRefund /\ windowOpen

\* Faulty variant: what has not failed counts as done.
StatusUnlessFailed(state) == IF state = "failed" THEN "FAILED" ELSE "PROCESSED"

StatusFromProvider(state) ==
    IF state = "processed" THEN "PROCESSED" ELSE IF state = "failed" THEN "FAILED" ELSE "PENDING"

\* Faulty variant: the row is written whatever it says by now.
SettleAlways(r, status) == rows' = [rows EXCEPT ![r] = status]

\* settle: only an open row moves.
Settle(r, status) ==
    rows' = IF rows[r] \in OpenStatuses THEN [rows EXCEPT ![r] = status] ELSE rows

-----------------------------------------------------------------------------
(* requestRefund. *)

RequestRefund(c) ==
    /\ At(c, "Idle") /\ AssessRefund /\ Len(rows) < MaxRefunds
    /\ calls' = [calls EXCEPT ![c] = Call("Claim", Len(rows) + 1, "REQUESTED")]
    /\ UNCHANGED <<rows, returning, facts, ledger>>

\* The two unique indexes: one row per receipt, one live row per purchase.
MayInsert(c) == calls[c].r = Len(rows) + 1 /\ ~LiveRefund

ClaimRefund(c) ==
    /\ At(c, "Claim") /\ MayInsert(c)
    /\ rows' = Append(rows, "REQUESTED")
    /\ Goto(c, "Post")
    /\ UNCHANGED <<returning, facts, ledger>>

ClaimRefused(c) ==
    /\ At(c, "Claim") /\ ~MayInsert(c)
    /\ Done(c)
    /\ UNCHANGED <<rows, returning, facts, ledger>>

\* The one create of a refund; the answer may already say how it ended.
PostRefund(c) ==
    /\ At(c, "Post")
    /\ \E state \in {"pending", "processed", "failed"} :
           /\ returning' = [returning EXCEPT ![calls[c].r] = state]
           /\ RecordLater(c, StatusFromProvider(state))
    /\ UNCHANGED <<rows, facts, ledger>>

PostRefused(c) ==
    /\ "REFUSED_POST" \in World /\ At(c, "Post")
    /\ RecordLater(c, "FAILED")
    /\ UNCHANGED <<rows, returning, facts, ledger>>

\* No answer, or one that cannot be read: the refund may exist or not.
PostUnanswered(c) ==
    /\ "LOST_ANSWER" \in World /\ At(c, "Post")
    /\ \E state \in {"none", "pending"} :
           returning' = [returning EXCEPT ![calls[c].r] = state]
    /\ Goto(c, "Recover")
    /\ UNCHANGED <<rows, facts, ledger>>

\* findRefundByReceipt among the payment's refunds.
RefundLookup(r) ==
    {IF returning[r] = "none" THEN "NOT_FOUND" ELSE "FOUND"}
        \cup (IF "LOST_ANSWER" \in World THEN {"FAILED"} ELSE {})

\* Faulty variant: an unanswered lookup counts as "not found".
LookupFailedMeansNone(c) == "FAILED"

LookupFailedMeans(c) == "RECONCILIATION_REQUIRED"

\* resolveRefundByLookup: found is as good as created, not found counts as
\* refused, and a lookup without an answer leaves the outcome unknown.
ResolveByLookup(c) ==
    LET state == returning[calls[c].r]
    IN  /\ At(c, "Recover")
        /\ \E answer \in RefundLookup(calls[c].r) :
              \/ answer = "FOUND" /\ RecordLater(c, StatusFromProvider(state))
              \/ answer = "NOT_FOUND" /\ RecordLater(c, "FAILED")
              \/ answer = "FAILED" /\ RecordLater(c, LookupFailedMeans(c))
        /\ UNCHANGED <<rows, returning, facts, ledger>>

\* applyProviderRefund, and the two other endings: settle the row if open.
RecordOutcome(c) ==
    /\ At(c, "Record")
    /\ Settle(calls[c].r, calls[c].word)
    /\ Done(c)
    /\ UNCHANGED <<returning, facts, ledger>>

-----------------------------------------------------------------------------
(* reconcileRefund: the newest open refund, looked up by its receipt. *)

NewestOpen(r) ==
    /\ r \in DOMAIN rows /\ rows[r] \in OpenStatuses
    /\ \A s \in DOMAIN rows : rows[s] \in OpenStatuses => s <= r

\* The code asks at any time; unless World has EARLY_CHECK, the model does so
\* only when no create is under way.
CheckRefund(c, r) ==
    /\ At(c, "Idle") /\ NewestOpen(r)
    /\ "EARLY_CHECK" \in World \/ \A d \in Calls : calls[d].at \in {"Idle", "Check"}
    /\ calls' = [calls EXCEPT ![c] = Call("Check", r, rows[r])]
    /\ UNCHANGED <<rows, returning, facts, ledger>>

\* Absence settles a refund whose create was never answered; a refund the
\* provider once confirmed is left alone.
ReceiveCheck(c) ==
    LET state == returning[calls[c].r]
    IN  /\ At(c, "Check")
        /\ \E answer \in RefundLookup(calls[c].r) :
              \/ answer = "FOUND" /\ RecordLater(c, StatusFromProvider(state))
              \/ /\ answer = "NOT_FOUND"
                 /\ calls[c].word \in {"RECONCILIATION_REQUIRED", "REQUESTED"}
                 /\ RecordLater(c, "FAILED")
              \/ answer = "NOT_FOUND" /\ calls[c].word = "PENDING" /\ Done(c)
              \/ answer = "FAILED" /\ Done(c)
        /\ UNCHANGED <<rows, returning, facts, ledger>>

-----------------------------------------------------------------------------
(* The provider and its events. *)

ProviderSettles(r) ==
    /\ returning[r] = "pending"
    /\ \E state \in {"processed", "failed"} : returning' = [returning EXCEPT ![r] = state]
    /\ UNCHANGED <<rows, facts, ledger, calls>>

\* Faulty variant: an event settles only a refund the provider has confirmed.
EventSettlesConfirmed(r, state) ==
    rows' = IF rows[r] = "PENDING" THEN [rows EXCEPT ![r] = StatusFromProvider(state)] ELSE rows

EventSettles(r, state) == Settle(r, StatusFromProvider(state))

\* processRefundWebhook with applyRefundWebhook: dedupe and settle in one
\* database transaction; a redelivery changes nothing.
ReceiveRefundEvent(r) ==
    /\ returning[r] \in {"processed", "failed"} /\ r \in DOMAIN rows
    /\ <<r, returning[r]>> \notin ledger
    /\ ledger' = ledger \cup {<<r, returning[r]>>}
    /\ EventSettles(r, returning[r])
    /\ UNCHANGED <<returning, facts, calls>>

WindowCloses ==
    /\ "WINDOW" \in World /\ windowOpen
    /\ windowOpen' = FALSE
    /\ UNCHANGED <<rows, returning, captures, ledger, calls>>

SecondCapture ==
    /\ "SECOND_CAPTURE" \in World /\ captures = 1
    /\ captures' = 2
    /\ UNCHANGED <<rows, returning, windowOpen, ledger, calls>>

Crash(c) ==
    /\ "CRASH" \in World /\ ~At(c, "Idle")
    /\ Done(c)
    /\ UNCHANGED <<rows, returning, facts, ledger>>

-----------------------------------------------------------------------------
RefundStep(c) ==
    \/ RequestRefund(c) \/ ClaimRefund(c) \/ ClaimRefused(c)
    \/ PostRefund(c) \/ PostRefused(c) \/ PostUnanswered(c)
    \/ ResolveByLookup(c) \/ RecordOutcome(c)
    \/ (\E r \in Receipts : CheckRefund(c, r)) \/ ReceiveCheck(c)
    \/ Crash(c)

Next ==
    \/ \E c \in Calls : RefundStep(c)
    \/ \E r \in Receipts : ProviderSettles(r) \/ ReceiveRefundEvent(r)
    \/ WindowCloses \/ SecondCapture

Spec == Init /\ [][Next]_vars

\* The provider delivers an event until it is acknowledged.
FairSpec == Spec /\ \A r \in Receipts : WF_vars(ReceiveRefundEvent(r))

-----------------------------------------------------------------------------
(* Properties. *)

RefundTypeOK ==
    /\ rows \in Seq(RefundStatuses) /\ Len(rows) <= MaxRefunds
    /\ returning \in [Receipts -> ProviderStates]
    /\ captures \in {1, 2} /\ windowOpen \in BOOLEAN
    /\ ledger \subseteq RefundEvents
    /\ calls \in [Calls -> CallRecords]

\* However many tabs ask for a refund, and whatever is lost or crashes, the
\* provider holds at most one refund of the payment that it has not itself
\* failed - as long as nobody asks for the status while a create is under way,
\* a guard that is the model's and not the code's (CheckRefund), and an
\* unanswered create that the lookup did not find takes no effect later.
ReturnedOnce ==
    \A r, s \in Receipts :
        returning[r] \in {"pending", "processed"} /\ returning[s] \in {"pending", "processed"}
        => r = s

\* The buyer is told the money was returned only when the provider returned it
\* for this receipt.
ProcessedMeansReturned ==
    \A r \in DOMAIN rows : rows[r] = "PROCESSED" => returning[r] = "processed"

\* refund-service: "none was made"; a refund recorded as failed, for which the
\* buyer is invited to try again, is not at the provider.  Under the two
\* assumptions of ReturnedOnce; without the first it fails (EarlyCheck).
FailedMeansNotReturned ==
    \A r \in DOMAIN rows : rows[r] = "FAILED" => returning[r] \in {"none", "failed"}

\* The newest row tells the page all there is to know: a refund is offered only
\* while none is live, and an open one can always be asked about.
CardTellsAll ==
    /\ RefundCard = "REFUND" => ~LiveRefund
    /\ (\E r \in DOMAIN rows : rows[r] \in OpenStatuses) => RefundCard = "CHECK"

\* A settled refund stays settled, however late an answer is recorded.
SettledStays ==
    [][\A r \in DOMAIN rows : rows[r] \in {"PROCESSED", "FAILED"} => rows'[r] = rows[r]]_vars

\* Money the provider returned is recorded as returned in the end, also when
\* the create went unanswered and the process died.  Under the two assumptions
\* of ReturnedOnce: a row wrongly settled as failed stays so.
ReturnedMoneyIsRecorded ==
    \A r \in Receipts :
        returning[r] = "processed" ~> r \in DOMAIN rows /\ rows[r] = "PROCESSED"
=============================================================================
