------------------------------ MODULE Authority ------------------------------
(***************************************************************************)
(* How a purchase is given the authority to be paid: quote-service,        *)
(* policy-service, approval-service and authorization-recheck on one       *)
(* transaction.  A call is a sequence of reads and commits; a database     *)
(* transaction at READ COMMITTED is split where another one may commit     *)
(* between its reads and its writes.  Merchant and buyer change product    *)
(* and policy from outside; time passes for quotes and questions.          *)
(***************************************************************************)
EXTENDS TransactionMachine, PurchaseRules, FiniteSets

CONSTANTS
    Calls,             \* service calls that may be in progress at once
    Quantity,          \* units the shopper asked for
    ShopperAuthority,  \* [max, currency, scope] of the shopper's words
    Products,          \* facts a merchant may publish
    PolicyTerms,       \* terms a buyer's policy may get
    OtherMoves,        \* <<event, actor>> of the other services
    MaxQuotes, MaxProductVersions, MaxPolicies, MaxApprovals, MaxEvaluations  \* bounds

\* Published facts and terms are what the schema stores; a limit is stated in a
\* currency (toAuthority), and no service cancels or expires an open question.
ASSUME AuthorityAssumption ==
    /\ Quantity \in Nat \ {0} /\ MaxQuotes \in Nat /\ MaxApprovals \in Nat
    /\ ShopperAuthority.max = NoLimit \/ ShopperAuthority.currency # "NONE"
    /\ Products \subseteq [unit : Int, currency : STRING, stock : Int, available : BOOLEAN,
                           version : Int]
    /\ PolicyTerms \subseteq [currency : STRING, limit : Int, auto : BOOLEAN, status : {"ACTIVE"}]
    /\ \A m \in OtherMoves :
          m[1] \in Events \ {"QUOTE_ISSUED", "POLICY_EVALUATION_COMPLETED", "POLICY_ALLOWED",
                             "POLICY_REQUIRES_APPROVAL", "POLICY_BLOCKED",
                             "APPROVAL_GRANTED", "APPROVAL_REJECTED", "APPROVAL_EXPIRED",
                             "TRANSACTION_CANCELLED"}

VARIABLES
    status,       \* transaction.status
    keys,         \* idempotency keys of applied transitions
    products,     \* the product row as published; the index is its version
    policies,     \* authorization_policy rows; the index is the version
    quotes,       \* purchase_quote rows
    evaluations,  \* audit records of policy evaluations, oldest first
    approvals,    \* approval_request rows
    calls         \* the calls in progress

vars == <<status, keys, products, policies, quotes, evaluations, approvals, calls>>
purchase == <<status, keys, quotes, evaluations, approvals>>
world == <<products, policies>>

QuoteStatuses == {"ACTIVE", "EXPIRED", "INVALIDATED", "SUPERSEDED"}
ApprovalStatuses == {"PENDING", "CONSUMED", "REJECTED", "EXPIRED"}
Stages == {"Idle", "Pricing", "Evaluating", "Retiring", "Recording", "Asking", "Asked",
           "Answering", "Settled", "Granting", "Rechecking", "Comparing", "Consulting",
           "Seeking", "Answered"}

Product == products[Len(products)]

\* `retry`: issued by a retry; all the clicks of its cycle are one operation.
Quote(version, retry) ==
    [unit |-> products[version].unit, currency |-> products[version].currency,
     version |-> version, retry |-> retry, status |-> "ACTIVE", lapsed |-> FALSE]
Evaluation(q, version, decision) == [quote |-> q, version |-> version, decision |-> decision]
Question(q, version) ==
    [quote |-> q, amount |-> TotalAmount(quotes[q].unit, Quantity), version |-> version,
     status |-> "PENDING", closed |-> FALSE]

\* What a call has in hand: a quote, a version, an outcome, approval rows.
Call(at, q, version, outcome, asked) ==
    [at |-> at, quote |-> q, version |-> version, outcome |-> outcome, asked |-> asked]
Idle == Call("Idle", 0, 0, "", {})

Init ==
    /\ status = "PRODUCT_VERIFIED" /\ keys = {}
    /\ \E facts \in Products : products = <<[facts EXCEPT !.version = 1]>>
    /\ \E terms \in PolicyTerms : policies = <<terms>>
    /\ quotes = <<>> /\ evaluations = <<>> /\ approvals = <<>>
    /\ calls = [c \in Calls |-> Idle]

-----------------------------------------------------------------------------
(* Reading. *)

At(c, stage) == calls[c].at = stage
Become(c, call) == calls' = [calls EXCEPT ![c] = call]
Done(c) == Become(c, Idle)

Usability(q) == AssessQuote(quotes[q], Quantity, Product)
ActiveQuotes == {q \in DOMAIN quotes : quotes[q].status = "ACTIVE"}

\* loadPolicySnapshot: the newest policy in force, else the newest there is.
PolicyVersion ==
    LET inForce == {v \in DOMAIN policies : policies[v].status = "ACTIVE"}
    IN  IF inForce = {} THEN Len(policies)
        ELSE CHOOSE v \in inForce : \A w \in inForce : w <= v

DecisionOn(q) == EvaluatePolicy(quotes[q], Quantity, policies[PolicyVersion])

\* readRecordedEvaluation: the newest audit record.
Recorded == evaluations[Len(evaluations)]

\* What the lifecycle makes of an event of one of the services.
Takes(state, event, actor) == Resolve(state, event, actor).kind = "APPLY"
After(state, event, actor) == Resolve(state, event, actor).to

\* A row that a call has written stays locked until that call ends.
RowFree(c, a) ==
    \A d \in Calls \ {c} :
        a \in calls[d].asked => calls[d].at \notin {"Asked", "Settled", "Granting"}

SettleRows(as, to) ==
    [a \in DOMAIN approvals |->
        IF a \in as THEN [approvals[a] EXCEPT !.status = to] ELSE approvals[a]]

-----------------------------------------------------------------------------
(* createTrustedQuote *)

\* A retry has no budget of its own to compare against.
OpenAuthority == [max |-> NoLimit, currency |-> "NONE", scope |-> "NONE"]

\* The one authoritative read of the product.
ReadProduct(c, retry) ==
    /\ At(c, "Idle") /\ Len(quotes) < MaxQuotes
    /\ status \in IF retry THEN {"PAYMENT_FAILED"} ELSE {"PRODUCT_VERIFIED", "QUOTE_CREATED"}
    /\ DisqualifyingChange(Product, Quantity,
                           IF retry THEN OpenAuthority ELSE ShopperAuthority) = {}
    /\ Become(c, Call("Pricing", 0, Len(products), IF retry THEN "retry" ELSE "first", {}))
    /\ UNCHANGED <<purchase, world>>

\* Quote, supersession and lifecycle move commit together, once per operation.
\* Only a retry replaces a live quote.
MayIssue(c) ==
    /\ calls[c].outcome = "retry" \/ ActiveQuotes = {}
    /\ <<calls[c].outcome, "QUOTE_ISSUED">> \notin keys
    /\ Takes(status, "QUOTE_ISSUED", "quote_service")

Supersedable == ActiveQuotes

IssueQuote(c) ==
    /\ At(c, "Pricing") /\ MayIssue(c) /\ Len(quotes) < MaxQuotes
    /\ quotes' = Append([q \in DOMAIN quotes |->
                            IF q \in Supersedable
                              THEN [quotes[q] EXCEPT !.status = "SUPERSEDED"] ELSE quotes[q]],
                        Quote(calls[c].version, calls[c].outcome = "retry"))
    /\ status' = After(status, "QUOTE_ISSUED", "quote_service")
    /\ keys' = keys \cup {<<calls[c].outcome, "QUOTE_ISSUED">>}
    /\ Done(c)
    /\ UNCHANGED <<evaluations, approvals, world>>

\* The existing quote is returned, or everything is rolled back.
KeepQuote(c) ==
    /\ At(c, "Pricing") /\ ~MayIssue(c)
    /\ Done(c)
    /\ UNCHANGED <<purchase, world>>

-----------------------------------------------------------------------------
(* evaluateQuotePolicy, with validateQuoteForUse *)

\* A quote found unusable while it is live is about to be retired.
ValidateQuote(c, q) ==
    /\ At(c, "Idle") /\ Len(evaluations) < MaxEvaluations
    /\ \/ Usability(q) = "VALID" /\ Become(c, Call("Evaluating", q, 0, "", {}))
       \/ /\ Usability(q) # "VALID" /\ quotes[q].status = "ACTIVE"
          /\ Become(c, Call("Retiring", q, 0, Usability(q), {}))
    /\ UNCHANGED <<purchase, world>>

\* By id, whatever the row says by now.
RetireQuote(c) ==
    /\ At(c, "Retiring")
    /\ quotes' = [quotes EXCEPT ![calls[c].quote].status = calls[c].outcome]
    /\ Done(c)
    /\ UNCHANGED <<status, keys, evaluations, approvals, world>>

\* The engine's inputs, read and judged again inside the transaction.
LoadInputs(c) ==
    LET q == calls[c].quote IN
    /\ At(c, "Evaluating")
    /\ IF Usability(q) = "VALID"
         THEN Become(c, Call("Recording", q, PolicyVersion, DecisionOn(q), {}))
         ELSE Done(c)
    /\ UNCHANGED <<purchase, world>>

OutcomeEvent(decision) ==
    CASE decision = "ALLOWED" -> "POLICY_ALLOWED"
      [] decision = "APPROVAL_REQUIRED" -> "POLICY_REQUIRES_APPROVAL"
      [] decision = "BLOCKED" -> "POLICY_BLOCKED"

\* The clicks of a retry cycle share the keys of its two transitions.
AlreadyMoved(q) == quotes[q].retry /\ <<"retry", "POLICY_EVALUATION_COMPLETED">> \in keys

Evaluated == After(status, "POLICY_EVALUATION_COMPLETED", "policy_engine")

\* A replayed evaluation under a newer policy is a record of its own.
RecordedAlready(e, q) == quotes[q].retry /\ e \in {evaluations[i] : i \in DOMAIN evaluations}

\* Record and lifecycle moves commit together, or nothing does.
RecordEvaluation(c) ==
    LET q == calls[c].quote
        e == Evaluation(q, calls[c].version, calls[c].outcome)
    IN
    /\ At(c, "Recording")
    /\ AlreadyMoved(q) \/ Takes(status, "POLICY_EVALUATION_COMPLETED", "policy_engine")
    /\ RecordedAlready(e, q) \/ Len(evaluations) < MaxEvaluations
    /\ evaluations' = IF RecordedAlready(e, q) THEN evaluations ELSE Append(evaluations, e)
    /\ IF AlreadyMoved(q)
         THEN UNCHANGED <<status, keys>>
         ELSE /\ status' = After(Evaluated, OutcomeEvent(e.decision), "policy_engine")
              /\ keys' = IF quotes[q].retry
                           THEN keys \cup {<<"retry", "POLICY_EVALUATION_COMPLETED">>} ELSE keys
    /\ Done(c)
    /\ UNCHANGED <<quotes, approvals, world>>

EvaluationRefused(c) ==
    /\ At(c, "Recording")
    /\ ~AlreadyMoved(calls[c].quote)
    /\ ~Takes(status, "POLICY_EVALUATION_COMPLETED", "policy_engine")
    /\ Done(c)
    /\ UNCHANGED <<purchase, world>>

-----------------------------------------------------------------------------
(* requestApproval *)

Pending == {a \in DOMAIN approvals : approvals[a].status = "PENDING"}
Stale == {a \in Pending : approvals[a].closed}

\* The state is read, and the clock, before anything else.
BeginAsk(c) ==
    /\ At(c, "Idle") /\ status = "APPROVAL_REQUIRED" /\ Len(approvals) < MaxApprovals
    /\ Become(c, Call("Asking", 0, 0, "", Stale))
    /\ UNCHANGED <<purchase, world>>

\* Questions nobody answered in time are marked; without a live one, the
\* record and the quote are read.
ReadForQuestion(c) ==
    LET stale == calls[c].asked \cap Pending IN
    /\ At(c, "Asking") /\ \A a \in calls[c].asked : RowFree(c, a)
    /\ IF Pending = stale /\ \E q \in ActiveQuotes : Usability(q) = "VALID"
         THEN /\ \E q \in ActiveQuotes : Become(c, Call("Asked", q, Recorded.version, "", stale))
              /\ UNCHANGED approvals
         ELSE approvals' = SettleRows(stale, "EXPIRED") /\ Done(c)
    /\ UNCHANGED <<status, keys, quotes, evaluations, world>>

\* A unique index allows one PENDING question; the token goes to the buyer.
OpenQuestion(c) ==
    /\ At(c, "Asked")
    /\ Pending = calls[c].asked /\ Len(approvals) < MaxApprovals
    /\ approvals' = Append(SettleRows(calls[c].asked, "EXPIRED"),
                           Question(calls[c].quote, calls[c].version))
    /\ Done(c)
    /\ UNCHANGED <<status, keys, quotes, evaluations, world>>

QuestionRefused(c) ==
    /\ At(c, "Asked") /\ Pending # calls[c].asked
    /\ Done(c)
    /\ UNCHANGED <<purchase, world>>

-----------------------------------------------------------------------------
(* decideApproval *)

\* The clock is read when the token is presented: a question open then may be
\* settled later.  One that is settled or closed already is refused.
PresentToken(c, a, answer) ==
    /\ At(c, "Idle") /\ a \in Pending /\ ~approvals[a].closed
    /\ Become(c, Call("Answering", 0, 0, answer, {a}))
    /\ UNCHANGED <<purchase, world>>

\* settleApproval: one conditional update, which locks the row.
SettleApproval(c) ==
    LET call == calls[c] IN
    /\ At(c, "Answering") /\ \A a \in call.asked : RowFree(c, a)
    /\ IF call.asked \subseteq Pending
         THEN Become(c, Call("Settled", 0, 0, call.outcome, call.asked))
         ELSE Done(c)
    /\ UNCHANGED <<purchase, world>>

\* Faulty variant: a lifecycle that does not take the rejection is ignored.
RejectionTakenAnyway == TRUE

RejectionTaken == Takes(status, "APPROVAL_REJECTED", "approval_gate")

\* applyRejection: row and lifecycle, or neither.
Reject(c) ==
    /\ At(c, "Settled") /\ calls[c].outcome = "REJECTED"
    /\ IF RejectionTaken
         THEN /\ approvals' = SettleRows(calls[c].asked, "REJECTED")
              /\ status' = After(status, "APPROVAL_REJECTED", "approval_gate")
         ELSE UNCHANGED <<approvals, status>>
    /\ Done(c)
    /\ UNCHANGED <<keys, quotes, evaluations, world>>

\* Consent was about this quote, its amount and this version of the policy.
StillAbout(a) ==
    /\ status = "APPROVAL_REQUIRED"
    /\ approvals[a].quote \in ActiveQuotes /\ Usability(approvals[a].quote) = "VALID"
    /\ approvals[a].amount = TotalAmount(quotes[approvals[a].quote].unit, Quantity)
    /\ DecisionOn(approvals[a].quote) # "BLOCKED"
    /\ approvals[a].version = PolicyVersion

\* applyApproval: everything the consent rests on is judged again.
Revalidate(c) ==
    LET call == calls[c] IN
    /\ At(c, "Settled") /\ call.outcome = "CONSUMED"
    /\ IF \A a \in call.asked : StillAbout(a)
         THEN Become(c, Call("Granting", 0, 0, call.outcome, call.asked))
         ELSE Done(c)
    /\ UNCHANGED <<purchase, world>>

Grant(c) ==
    /\ At(c, "Granting")
    /\ IF Takes(status, "APPROVAL_GRANTED", "approval_gate")
         THEN /\ approvals' = SettleRows(calls[c].asked, "CONSUMED")
              /\ status' = After(status, "APPROVAL_GRANTED", "approval_gate")
         ELSE UNCHANGED <<approvals, status>>
    /\ Done(c)
    /\ UNCHANGED <<keys, quotes, evaluations, world>>

-----------------------------------------------------------------------------
(* recheckPolicyAuthorization: reads only, and no transaction around them. *)

AcceptedStates == {"INVENTORY_RESERVED", "PAYMENT_FAILED", "AUTHORIZED"}

BeginRecheck(c) ==
    /\ At(c, "Idle") /\ status \in AcceptedStates
    /\ Become(c, Call("Rechecking", 0, 0, "", {}))
    /\ UNCHANGED <<purchase, world>>

ReadRecord(c) ==
    /\ At(c, "Rechecking")
    /\ IF evaluations = <<>> THEN Done(c)
       ELSE Become(c, Call("Comparing", Recorded.quote, Recorded.version, "", {}))
    /\ UNCHANGED <<purchase, world>>

RecordedQuoteIsLive(q) == q \in ActiveQuotes /\ Usability(q) = "VALID"

ReadActiveQuote(c) ==
    LET call == calls[c] IN
    /\ At(c, "Comparing")
    /\ IF RecordedQuoteIsLive(call.quote)
         THEN Become(c, Call("Consulting", call.quote, call.version, "", {}))
         ELSE Done(c)
    /\ UNCHANGED <<purchase, world>>

\* Today's verdict, not the recorded one; the version is compared first.
ConsultPolicy(c) ==
    LET call == calls[c]
        decision == DecisionOn(call.quote)
    IN
    /\ At(c, "Consulting")
    /\ IF PolicyVersion # call.version \/ decision = "BLOCKED" THEN Done(c)
       ELSE Become(c, Call(IF decision = "ALLOWED" THEN "Answered" ELSE "Seeking",
                           call.quote, call.version, decision, {}))
    /\ UNCHANGED <<purchase, world>>

\* Faulty variant: any consent under this policy will do.
SatisfyingUnderPolicy(q, version) ==
    {a \in DOMAIN approvals : approvals[a].status = "CONSUMED" /\ approvals[a].version = version}

\* The consumed approval of exactly this quote, amount and policy.
Satisfying(q, version) ==
    {a \in DOMAIN approvals :
        /\ approvals[a].status = "CONSUMED" /\ approvals[a].version = version
        /\ approvals[a].quote = q
        /\ approvals[a].amount = TotalAmount(quotes[q].unit, Quantity)}

FindApproval(c) ==
    LET call == calls[c] IN
    /\ At(c, "Seeking")
    /\ IF Satisfying(call.quote, call.version) # {}
         THEN Become(c, Call("Answered", call.quote, call.version, call.outcome, {}))
         ELSE Done(c)
    /\ UNCHANGED <<purchase, world>>

\* The caller goes on to the payment provider with the answer.
UseAnswer(c) ==
    /\ At(c, "Answered")
    /\ Done(c)
    /\ UNCHANGED <<purchase, world>>

-----------------------------------------------------------------------------
(* The world. *)

Crash(c) ==
    /\ calls[c].at \notin {"Idle", "Answered"}
    /\ Done(c)
    /\ UNCHANGED <<purchase, world>>

\* Every change a merchant publishes has a version of its own.
ProductChanges ==
    /\ Len(products) < MaxProductVersions
    /\ \E facts \in Products :
          LET next == [facts EXCEPT !.version = Len(products) + 1] IN
          /\ next # [Product EXCEPT !.version = next.version]
          /\ products' = Append(products, next)
    /\ UNCHANGED <<purchase, policies, calls>>

\* The buyer's terms change; the version in force before is superseded.
PolicyRevised ==
    /\ Len(policies) < MaxPolicies
    /\ \E terms \in PolicyTerms \ {[policies[PolicyVersion] EXCEPT !.status = "ACTIVE"]} :
          policies' = Append([v \in DOMAIN policies |-> [policies[v] EXCEPT !.status = "SUPERSEDED"]],
                             terms)
    /\ UNCHANGED <<purchase, products, calls>>

PolicyWithdrawn ==
    /\ policies[PolicyVersion].status = "ACTIVE"
    /\ policies' = [policies EXCEPT ![PolicyVersion].status = "SUPERSEDED"]
    /\ UNCHANGED <<purchase, products, calls>>

\* A question's window ends no later than its quote.
QuoteLapses(q) ==
    /\ quotes[q].status = "ACTIVE" /\ ~quotes[q].lapsed
    /\ quotes' = [quotes EXCEPT ![q].lapsed = TRUE]
    /\ approvals' = [a \in DOMAIN approvals |->
                        [approvals[a] EXCEPT !.closed = @ \/ approvals[a].quote = q]]
    /\ UNCHANGED <<status, keys, evaluations, world, calls>>

WindowCloses(a) ==
    /\ approvals[a].status = "PENDING" /\ ~approvals[a].closed
    /\ approvals' = [approvals EXCEPT ![a].closed = TRUE]
    /\ UNCHANGED <<status, keys, quotes, evaluations, world, calls>>

MoveByOthers(m) ==
    /\ Takes(status, m[1], m[2])
    /\ status' = After(status, m[1], m[2])
    /\ UNCHANGED <<keys, quotes, evaluations, approvals, world, calls>>

-----------------------------------------------------------------------------

\* A call begins.
Begin(c) ==
    \/ \E retry \in BOOLEAN : ReadProduct(c, retry)
    \/ \E q \in DOMAIN quotes : ValidateQuote(c, q)
    \/ BeginAsk(c) \/ BeginRecheck(c)
    \/ \E a \in DOMAIN approvals, answer \in {"CONSUMED", "REJECTED"} : PresentToken(c, a, answer)

\* A call goes on.
GoOn(c) ==
    \/ IssueQuote(c) \/ KeepQuote(c)
    \/ RetireQuote(c) \/ LoadInputs(c) \/ RecordEvaluation(c) \/ EvaluationRefused(c)
    \/ ReadForQuestion(c) \/ OpenQuestion(c) \/ QuestionRefused(c)
    \/ SettleApproval(c) \/ Reject(c) \/ Revalidate(c) \/ Grant(c)
    \/ ReadRecord(c) \/ ReadActiveQuote(c) \/ ConsultPolicy(c) \/ FindApproval(c) \/ UseAnswer(c)
    \/ Crash(c)

WorldStep ==
    \/ ProductChanges \/ PolicyRevised \/ PolicyWithdrawn
    \/ \E q \in DOMAIN quotes : QuoteLapses(q)
    \/ \E a \in DOMAIN approvals : WindowCloses(a)
    \/ \E m \in OtherMoves : MoveByOthers(m)

Next == (\E c \in Calls : Begin(c) \/ GoOn(c)) \/ WorldStep

Spec == Init /\ [][Next]_vars

-----------------------------------------------------------------------------
(* The passport's line about human approval: worked out on every read from *)
(* the statuses of all questions ever asked, and from the newest record.   *)

\* Faulty variant: an open question is what counts.
PrecedenceOpenFirst == <<"PENDING", "CONSUMED", "REJECTED", "EXPIRED">>

\* The first of these words that any question carries decides.
Precedence == <<"CONSUMED", "REJECTED", "PENDING", "EXPIRED">>

LineOf == [CONSUMED |-> "APPROVED", REJECTED |-> "REJECTED", PENDING |-> "WAITING",
           EXPIRED |-> "EXPIRED"]

PolicyDecision == IF evaluations = <<>> THEN "NONE" ELSE Recorded.decision

\* Without any question: what the newest evaluation calls for.
UnaskedLine ==
    IF PolicyDecision = "APPROVAL_REQUIRED" THEN "REQUIRED"
    ELSE IF PolicyDecision = "ALLOWED" THEN "NOT_REQUIRED" ELSE "NOT_REACHED"

ApprovalLine ==
    LET words == {approvals[a].status : a \in DOMAIN approvals}
        said == {i \in DOMAIN Precedence : Precedence[i] \in words}
    IN  IF said = {} THEN UnaskedLine
        ELSE LineOf[Precedence[CHOOSE i \in said : \A j \in said : i <= j]]

\* readPassportRows: the quote whose amount the page calls the trusted one; the
\* live quote, else the newest that was neither replaced nor withdrawn.
TrustedQuotes ==
    LET standing == {q \in DOMAIN quotes : quotes[q].status \notin {"SUPERSEDED", "INVALIDATED"}}
    IN  IF ActiveQuotes # {} THEN ActiveQuotes
        ELSE {q \in standing : \A r \in standing : r <= q}

-----------------------------------------------------------------------------
(* Properties. *)

\* Every row, record and call is one the schema and the services know; one
\* live quote and one open question, as the unique indexes demand.
AuthorityTypeOK ==
    /\ status \in TransactionStates
    /\ quotes \in Seq([unit : Int, currency : STRING, version : DOMAIN products, retry : BOOLEAN,
                       status : QuoteStatuses, lapsed : BOOLEAN])
    /\ evaluations \in Seq([quote : DOMAIN quotes, version : DOMAIN policies,
                            decision : Decisions])
    /\ approvals \in Seq([quote : DOMAIN quotes, amount : Int, version : DOMAIN policies,
                          status : ApprovalStatuses, closed : BOOLEAN])
    /\ Cardinality(ActiveQuotes) <= 1 /\ Cardinality(Pending) <= 1
    /\ \A c \in Calls : calls[c].at \in Stages /\ calls[c].asked \subseteq DOMAIN approvals

Allows(version, q) ==
    EvaluatePolicy(quotes[q], Quantity, [policies[version] EXCEPT !.status = "ACTIVE"]) = "ALLOWED"

\* Whoever is told that a purchase is authorized is told so of a quote that an
\* evaluation was recorded for, under a policy that allows its amount by
\* itself, or for which the buyer consented to this quote and this amount.
AnswerIsJustified ==
    \A c \in Calls : At(c, "Answered") =>
        LET q == calls[c].quote
            v == calls[c].version
        IN  /\ \E i \in DOMAIN evaluations :
                  /\ evaluations[i].quote = q /\ evaluations[i].version = v
                  /\ evaluations[i].decision # "BLOCKED"
            /\ \/ Allows(v, q)
               \/ \E a \in DOMAIN approvals :
                    /\ approvals[a].status = "CONSUMED" /\ approvals[a].version = v
                    /\ approvals[a].quote = q
                    /\ approvals[a].amount = TotalAmount(quotes[q].unit, Quantity)

\* A purchase the buyer rejected is over, also when a question was still being
\* opened, answered twice or asked again.
RejectionIsFinal ==
    (\E a \in DOMAIN approvals : approvals[a].status = "REJECTED") => status = "CANCELLED"

\* When the page says that it waits for a person and that no payment can start
\* before the answer, the purchase does stand at the question, and the trusted
\* amount shown is the one the question asks about unless its price has been
\* withdrawn; although a question may be opened behind an answer that was just
\* given, and was re-quoted meanwhile.
WaitingLineIsTrue ==
    ApprovalLine = "WAITING" =>
        /\ status = "APPROVAL_REQUIRED"
        /\ \A a \in Pending, q \in TrustedQuotes :
              \/ approvals[a].amount = TotalAmount(quotes[q].unit, Quantity)
              \/ quotes[approvals[a].quote].status = "INVALIDATED"

\* Not kept by the code: once the re-quoted price is withdrawn, the page goes
\* back to an older quote that only lapsed, and shows its amount.
WaitingAmountIsTrue ==
    ApprovalLine = "WAITING" =>
        \A a \in Pending, q \in TrustedQuotes :
            approvals[a].amount = TotalAmount(quotes[q].unit, Quantity)

\* What the shopper said is about the whole purchase, unless said of one unit.
WithinWords(quote) ==
    LET said == ShopperAuthority IN
    said.max # NoLimit =>
        said.max >= IF said.scope = "PER_UNIT" THEN quote.unit ELSE quote.unit * Quantity

\* A first quote costs no more than the limit the shopper named.
QuotesWithinBudget == \A q \in DOMAIN quotes : ~quotes[q].retry => WithinWords(quotes[q])

\* However issues, retirements and retries overlap, the quotes on record are
\* well formed, at most one of them is live, and none of the first ones goes
\* beyond the shopper's words.
QuotesAreSound == AuthorityTypeOK /\ QuotesWithinBudget

\* Not kept by the code: a retry re-quotes without the shopper's limit, and the
\* dearer price can be authorized without asking anyone.
LimitOutlivesRetry ==
    \A c \in Calls : At(c, "Answered") =>
        \/ WithinWords(quotes[calls[c].quote])
        \/ \E a \in DOMAIN approvals :
              approvals[a].quote = calls[c].quote /\ approvals[a].status = "CONSUMED"
=============================================================================
