# Verification of the agentic commerce backend

An AI buyer agent proposes a product; deterministic services verify it, quote
it, judge it against the buyer's policy, hold stock, take a payment through
Razorpay and complete or refund the purchase. These modules model the services
that decide about authority, stock and money, and the page that reports on
them. TLC checks them on small instances; TLAPS proves, for every instance, what
the runs check of safety: the lifecycle executor, payments with their refinement
of an abstract sale, refunds, stock, decisions of authority, the buyer agent and
its purchase, rate limits and the money arithmetic.

All paths below are in `src/src/` unless they start with `docs/` or `prisma/`.

## 1. Inventory

| Component | State it keeps | Operations | Correct when | Status |
| --- | --- | --- | --- | --- |
| State machine (`domain/transaction/`) | none (a table) | `findTransition`, `resolveTransition` | AI actors only propose; redeliveries change nothing; a reported capture is never discarded, and is final | modelled, proved |
| Transition executor (`services/transition-service.ts`) | `transaction.status`, `transaction_state_transition` rows | `applyTransactionEvent[Within]` | the history explains the status; one operation applies once, whoever races | modelled, proved |
| Payment orders (`payment-order-service.ts`) | `payment_attempt` rows | `createPaymentOrder` and its claim, finalize, park, recover | at most one order per claim; an order announced is stored and exists | modelled, proved |
| Razorpay adapter (`integrations/razorpay-provider.ts`) | none | create, look up and list by receipt | an unanswered create is never guessed | as outcomes |
| Checkout (`checkout-service.ts`) | attempt status, payment id | `startCheckout`, `verifyCheckoutCallback` | a callback proves nothing about money | modelled, proved |
| Webhooks (`webhook-service.ts`) | `webhook_event` ledger | `processWebhook`, `checkPaymentWithProvider`, refund events | money is booked once and only when captured; with one payment and one price, in the end (section 4 for the others) | partly, proved |
| Retry (`retry-service.ts`, `domain/payment/retry.ts`) | none of its own | `evaluateRetryEligibility`, `requestPaymentRetry` with re-quote and re-authorization | at one price: bounded attempts and no order after a capture; with calls one after the other no second order beside a live one (section 4 for the others) | modelled, proved |
| Reservation (`reservation-service.ts`) | `inventory_reservation`, `product.reservedQuantity` | reserve, rebind, release, sweep, commit | stock sold once, never returned after a sale, never oversold | modelled, proved |
| Quote (`quote-service.ts`, `quote-reader.ts`) | `purchase_quote` rows | issue, supersede, retire | one active price, within the shopper's words | modelled, proved |
| Policy and re-check (`policy-service.ts`, `domain/policy/`, `authorization-recheck.ts`) | policy evaluations | evaluate, re-check | authority is for the quote being paid | modelled, proved |
| Approval (`approval-service.ts`) | `approval_request` rows | request, decide, settle, expire | an answer counts once, for the quote it was asked about; a rejection is final | modelled, proved |
| Refunds (`refund-service.ts`, `domain/refund.ts`) | `refund` rows | request, reconcile, refund events | one live refund, as long as no status check runs beside a create (section 4); a settled refund stays settled | modelled, proved |
| Rate limits (`rate-limit-service.ts`, `domain/rate-limit.ts`) | window counters | consume, prune | no window admits more than its limit; no count is lost | modelled, proved |
| Money (`domain/money.ts`, `domain/payment/rules.ts`) | none | parse, add, multiply, format, assess and send to the provider | exact minor units or a refusal | modelled, proved |
| Buyer agent (`buyer-agent-service.ts`, `domain/buyer-agent/`) | one run in memory | extract, prefetch, tools, select | a run ends in its budget; the shopper's limit is never widened | partly, proved |
| Product decision, transaction creation | `transaction`, first quote | decide, substitute, open | one purchase per decision, of what was asked for | modelled, proved |
| Catalog, eligibility | products | read-only queries | filters mean what they say | as the agent uses them |
| Passport, journey, action card, overview | none | views of one purchase | what is shown is so, although the reads are not held together | partly, proved |
| Next.js app, handlers, actions | none | envelopes | what is offered is granted | the offers only |
| Audit trail; insights, history; scripts, CI | `audit_event` | append; views | — | not modelled |

**Interactions.** Services call each other as functions in one process per
request; several requests run at once and meet only in the database (READ
COMMITTED, with conditional updates, row locks and unique indexes as the only
synchronization) and at the provider (HTTP with a deadline; answers may be
lost). Razorpay calls back through at-least-once webhooks in any order, and
through the buyer's browser. Every handler reads, may call the provider, and
then commits one database transaction whose lifecycle part is the executor.

**What is hard.** Reads that are stale when the commit runs; two handlers
finishing the same work; creates that are not answered and are processed later;
crashes between the commits of a long handler (a re-quote has five); captures
that arrive late, for a replaced order, or for a purchase that moved on; two
payments where one was meant; several purchases sweeping and claiming the same
units; a question answered while it lapses, is replaced or the price moves; a
model that answers anything, late or never; a page put together of reads made
at different times. `PROJECT.json` lists each at its line.

## 2. Modules

| Module | Models |
| --- | --- |
| `TransactionMachine` | The table, as a set of moves, and `Resolve`: `resolveTransition` with its ordered verdicts |
| `Lifecycle` | The executor: `Decide` (read and adjudicate), `Commit` (guarded update and history row), `RollBack` |
| `PaymentState` | The rows of one purchase, the provider's records and the calls in progress, shared by the next four |
| `PaymentOrders` | `createPaymentOrder`: request, preconditions, claim, lookup, create, recover, finalize, fail, park |
| `Checkout` | `startCheckout`, the buyer at the provider, `verifyCheckoutCallback` |
| `Webhook` | Deliveries and status checks: correlation, comparison, ledger, transition, completion |
| `PaymentRetry` | The gate, re-quote, evaluation, approval, rebind, reservation, order, release on refusal |
| `PaymentFlow` | Composition of the four, crashes and the passage of time; the specification and its fairness |
| `Sale` | The abstract promise: stock is held, money is taken, the sale is booked with the stock in one step |
| `PaymentProperties` | What is checked of the composition, and the statements of the repository that fail |
| `Passport` | The lines about money and stock that the page certifies, worked out from rows and records |
| `PurchasePage` | The journey, the action card, and what the server makes of a button pressed at once |
| `PageReads` | A page load: the status is read first, everything else in any later state |
| `Refunds` | `requestRefund`, `reconcileRefund`, the refund events of one completed purchase, the provider's side of them, and the refund card |
| `Stock` | reserve with its sweep, release, commit: several purchases, one product, calls as database transactions with row locks |
| `PurchaseRules` | Pure rules: line total, scope and budget, disqualifying changes of a product, policy evaluation |
| `Authority` | Quote, evaluation, question, answer, revalidation, expiry and re-check of one purchase; the passport's approval line |
| `BuyerAgent` | `runBuyerAgent`: time and call budgets, extraction, catalog tools, the deterministic gate |
| `ProductDecision` | `decidePurchase`: opening by correlation id, substitution, verification, first quote, resubmission |
| `Shop` | The agent's run followed by the decision, while the catalog changes |
| `RateLimits` | Ceilings of each surface in order, the upsert with its colliding insert and repetition, pruning |
| `Money` | Amounts in rounded numbers: construction, arithmetic, parsing, formatting, crossings, the amount the provider is told to charge |
| `MoneyChecks` | `Money` evaluated at its edges against integer arithmetic (assumptions TLC evaluates in the `Shop` run) |
| `TransactionMachineProofs`, `LifecycleProofs`, `RefundProofs`, `StockProofs`, `PaymentProofs`, `AuthorityProofs`, `ShopProofs`, `RateLimitProofs` | Theorems (section 5) |
| `MCLifecycle`, `MCPaymentFlow`, `MCPageReads`, `MCRefunds`, `MCStock`, `MCAuthority`, `MCShop`, `MCRateLimits` | Instances for TLC |

The modules compose at the lifecycle: `Authority`, `Stock`, the payment modules
and `ProductDecision` all move `status` through `Resolve`. Each follows its own
part in full and takes what the other services do to the status as a constant
set of moves (`OtherMoves`), or, in the payment modules, as steps of one
purchase whose hold, quote and authority are seen from outside.

A few definitions are marked *Faulty variant*: the same definition with a
plausible bug (a dropped condition, a guess instead of an answer). No
specification uses them; substituted for the real definition, each makes a
property fail, which shows that the property depends on that code.

### From code to model

A call is a record in `calls` whose `at` names the point where the handler
waits; the rest of the record holds the local variables that survive the wait.
One database transaction is one step and so is one provider call; what a
handler reads before it commits is a step of its own, so every other call may
run in between. Where the transaction itself reads before it writes and nothing
is locked in between, it is split again (`Authority`, `Stock`).

- *Lifecycle*: the status, the history and each caller's decided move.
- *Payments*: an attempt has its status, whether the order id is stored, and
  the payment id; the claim key is the pair quote and retry number, the receipt
  is the attempt's own number. The provider has the receipts with an order, the
  creates that were never answered and may still be processed (`inflight`), and
  the buyer's payments.
- *Refunds*: the ordinal of a row stands for the receipt derived from it, and a
  row's status is all that is kept of it.
- *Stock*: the product's two counters and the reservation rows. What a call has
  written stays in its own record (`marked`, `counted`) until it commits, and
  locks those rows; a wait that would close a circle ends one call
  (`DeadlockVictim`), with the effect of a crash: everything is rolled back.
- *Authority*: quotes, evaluation records and questions are sequences, the
  index being the id; products and policies are sequences of versions. Lapsing
  is a flag set by time. The stages of a call follow the service's own order of
  reads, including the commits on the early return paths of `requestApproval`.
- *Shop*: the shopper's words are the set of spans a limit can be read from;
  what a model makes of them is any member of `Intents`. One unit of time is
  about six seconds (42 s per run, 30 s per attempt and 5 s minimum become 7, 5
  and 1). The tool calls of one turn are taken together.
- *Rate limits*: a window is a row (bucket, window start) with its hits. One
  clock; a request keeps the reading it arrived with, and the platform ends it
  after `Patience`.
- *Money*: `Nearest` says of a JavaScript number beyond 2^53 only that it holds
  at most every second integer. `-0` and `0` are one. A text is its sign, its
  digits around one point, and a mark: none, the currency's symbol, or anything
  else that the parser does not read.
- *Page*: passport lines, journey and action card are functions of the payment
  state; they are stored nowhere. `recorded` and `ledger` stand for the audit
  records that a line counts.

**Abstractions.** Wrong amounts and forged signatures are refused before
anything is written and are left out; so is the wording of audit records. The
several queries of one read phase are one step, except where a property is
about them. A second in-process retry after a lease expires is the same as
another caller taking the claim over, so leases are "may have expired". In the
payment modules a policy re-check is the Boolean it answers; `Authority` is
about that answer. The approval token is taken to do what its hash comparison
promises, and the comparison of buyer and approver is left out. `Authority`
leaves out stock moved by sales, and `Stock` follows one product. In the agent,
attribute filters and ranking are left out; a bare number may be verified as a
limit, as in the code.

## 3. What is checked

Bounds are named in the module headers: `Calls` (service calls at a time),
`Payments`, `MaxRows` (attempt or reservation rows), `MaxQuotes`, `MaxHistory`,
`MaxRefunds`, `MaxApprovals`, `MaxEvaluations`, `MaxRequests`. `MaxAttempts` is
the program's own limit of 3, or 2 where a run needs the limit to be reached
early. `Requests` says what the callers of a run ask for and `World` what may
go wrong; runs differ in them so that each question gets all the interleavings
it needs and no others. `CHECK_DEADLOCK FALSE` is used everywhere: a purchase
that is completed, or refused for good, and a finished run of the agent really
have nothing left to do; and every counter is bounded.

| Run | Instance | What it shows |
| --- | --- | --- |
| `Lifecycle` | 2 callers, 21 commands, 14 history rows | First purchase, failure, re-quote with new authority, late capture: the history explains the status, no operation applies twice, an evaluation and a grant follow the last quote wherever stock is held or money moves, a capture is final |
| `Rivals` | 2 calls of any kind, 1 payment, room for 3 attempts where the limit is 2, unanswered and refused creates, failed lookups, crashes, lapsing holds | What is announced is stored; the attempt limit holds at one price; booked only against captured money; two callers never make two orders of one claim; no order after a reconciled capture at the same price; the money of the one payment, at the one price, is booked in the end once captured (two payments and re-quotes: section 4); the page's capture line is true, stays, and every step above a completed one is recorded; implements `Sale` |
| `OneAtATime` | 1 call, 2 payments, 3 attempts, every failure of provider and process, stale quotes, withdrawn policies, a page load | The deep sequences: recorded orders exist, one order per claim, payments keep to their order, one live attempt, a second capture flagged, what completed can be refunded, claims only after failure; a page that mixes readings never contradicts itself about completion nor invites a second payment |
| `Requote` | 1 call, 2 payments, 2 quotes, room for 3 attempts where the limit is 2, crashes between the five commits of a re-quote, unanswered and late creates | Stock held is stock priced; an offered Pay is honoured; implements `Sale` |
| `Refunds` | 2 calls, 3 refunds, crashes, refused and unanswered creates, failed lookups, events before the answer, a second capture | With status checks kept away from creates, and no late effect of an unanswered one, the money goes back at most once, failed means not returned, and what was returned is recorded in the end. Without either assumption, processed means returned and a settled refund stays |
| `Stock` | 3 purchases for 1, 1 and 2 of 2 units; 2 calls; 3 reservation rows; failing and cancelled purchases | Counters agree with holds, no unit is held twice, units leave only by a committed hold, what is paid for is sold, a hold ends once, although sweep, claim, release and sale overlap |
| `Authority` | 2 calls, 2 quotes, product versions, policies, questions and evaluations each; totals below and above budget and policy | Every authorization given out rests on a record and on a policy or a consent for that quote and amount; a rejection is final; the page's waiting line is true and shows the price asked about, unless that price was withdrawn; a first quote keeps to the shopper's words; at most one quote is live |
| `Shop` | 2 products, 2 decisions submitted, 17 readings of two messages, 3 attempts of 2 turns; merchant and stock change at will | Every run ends within its time and calls; a quote is for the quantity asked and within an amount the shopper wrote; quoted is what was asked for, once; another product only for want of stock |
| `Limits` | 3 requests of 2 clients over 3 minutes of 2 days, each ceiling 1 or 2 | Each request is counted once, also when inserts collide or an answer is lost; no window admits more than its limit; a refused client spends nothing of what others share, whose count is at most what each client's own day let through; one repetition is enough; no row is pruned that a request still counts on |

Several of the invariants are conjunctions of named parts, each of them stated
and commented where it is defined: `OrdersMatchClaims` (`RecordedOrdersExist`,
`OneOrderPerClaim`), `AttemptsTellTheMoney` (`PaymentBindsOrder`,
`CapturedAttemptMeansPaid`, `RefundOfferIsHonoured`), `PayOfferIsHonoured` (with
`HoldPricedByQuote`), `PageIsConsistent` (`PageIsComplete`,
`NoPaymentOfferedOnceCaptured`), `QuotesAreSound` (`AuthorityTypeOK`,
`QuotesWithinBudget`), `QuoteKeepsTheWords` (`QuoteWithinStatedLimit`,
`QuotedAsAsked`), `RowsCountRequests` (`RateTypeOK`, `CountsEachRequestOnce`,
`OneRetryIsEnough`), `CeilingsHold` (`AdmittedWithinLimits`,
`SharedCeilingSpared`). `StockTypeOK` and `ShopTypeOK` are parts of
`PaidStockIsSold` and `AgentWithinBudget`. The types of `Lifecycle`, `Refunds`
and the payments are in no run: they are proved (`LifecycleTypeCorrect`,
`RefundTypeCorrect`, `PaymentTypes`).

**Why the bounds are enough.** Two calls at a time are what the races need:
every hazard is between one call that read and one that wrote; a third caller
would repeat one of their parts. Two payments and two or three attempts are
what it takes to have a replaced order paid, a rival capture, and the limit
reached. Two units for a demand of four make every order of winners possible,
one of them a purchase that needs both. The two payments of `OneAtATime` and
`Requote` are interchangeable (nothing in the model tells them apart), as are
the calls of `Stock` and `Authority`, so these runs use symmetry; they check
no liveness. Two versions of everything in
`Authority` make each stored thing stale once. In `Shop` the prices and limits
make the proposed product affordable for one unit only, for two, or gone. The
ceilings of `Limits` are so low that each of the four refuses somebody. Where a
property holds only for calls one after the other (`OneLiveAttempt`), its run
has one call, and its comment says so.

**Fairness.** In `Rivals` a handler that has started goes on or crashes (`WF` on
its work): a process runs its code, and the provider calls have deadlines. The
commit of a reconciliation, and the delivery of a capture, are strongly fair:
the provider redelivers an event until it is acknowledged, and a delivery
repeated for ever is not crashed every time. Nothing is assumed of the buyer,
of callbacks or of status checks. In `Refunds` only the delivery of a refund
event is (weakly) fair, for the same reason; it is one database transaction, so
weak fairness is enough, and no call need ever finish. In `Shop` only the
program's own steps and its timer are fair: the provider of the model may never
answer, and the run ends all the same. The other runs assume nothing.

**Assumptions of single modules.** `Refunds`: a create that went unanswered and
is not found by the lookup that follows never takes effect later; the code
concludes the same (`refund-service.ts:384-385`); and a status check is kept
from running beside a create unless `World` has `EARLY_CHECK`, a guard that
`reconcileRefund` does not have. `ReturnedOnce`, `FailedMeansNotReturned` and
`ReturnedMoneyIsRecorded` rest on both; section 4 shows what happens without the
second. `RateLimits`: a request ends within `Patience`; without that a slow one
could count itself in a window already pruned. `Stock` and `Authority`: the
database is at READ COMMITTED, an update waits for the row's lock and then
evaluates its condition again.

**Refinement.** `SaleKept` (in `Rivals` and `Requote`) is `Sale`'s specification
under the mapping paid = some payment is captured at the provider, booked = the
status is in `CapturedStates`, stock = held, sold or free by the hold's status.
It rules out booking before the money, booking twice, selling stock outside the
booking commit, and returning stock that was sold.

**What the models also show**, and no property claims. These follow from the
code as it stands; most are accepted by its docs.

- A claim that read the product before a sale committed is told
  INSUFFICIENT_STOCK although the hold that stood in its way is gone (`Stock`).
- A fixed window may admit twice its limit across its boundary (`Limits`).
- A question can be opened behind an answer that was just given, on a purchase
  already CANCELLED or AUTHORIZED; the passport's precedence hides it. "Approved
  once" also stays on the page after a re-quote (`Authority`).
- A stalled evaluation of an older quote can leave AUTHORIZED with another
  record; the re-check catches it. `validateQuoteForUse` writes EXPIRED or
  INVALIDATED by id, also over SUPERSEDED, after which an older quote may be the
  newest one "standing" and its amount the trusted one
  (`passport-service.ts:53-60`; `WaitingAmountIsTrue` in section 4).
- The passport's FAILED line says that no money was taken also when a captured
  payment has not been heard of yet, or was rejected for good
  (`OneAtATime`). The journey shows RESERVATION as done for a purchase cancelled
  before it (`domain/journey.ts`).
- A resubmitted decision may substitute another product after a change of
  stock; category and attributes are not read again when quoting (`Shop`).
- A crash while a question is being answered leaves it open until its window
  closes.

## 4. Where the code does not do what it says

Each of these runs checks a statement of the repository and ends in a
counterexample. `PROJECT.json` quotes the statement.

| Run | What happens |
| --- | --- |
| `CallbackOverCapture` | The callback's unconditional update puts VERIFIED over CAPTURED |
| `TwoPrices` | Finalization does not look at the quote again: an order at the superseded price becomes payable |
| `EarlyCheck` | A status check from another tab, between the claim of a refund and its create, finds nothing at the provider and settles the refund as failed; the create then succeeds and its answer is dropped |

The following statements fail as well. They have no run of their own; checking
the statement under the configuration named here, with `Spec` (`LoadSpec` for
`OneAtATime`) and in place of its own properties, shows the sequence.

| Statement | Configuration | What happens |
| --- | --- | --- |
| `OrderedIsPayable` | `Rivals` | Two callers take the same attempt to finalization; the loser's commit fails and it parks an attempt that the winner made payable, which the checkout then refuses (`payment-order-service.ts:847`) |
| `PayOfferIsHonoured` | `Rivals` | The same from the page: Pay is offered and refused. Calls one after the other keep it (`Requote`) |
| `AbandonedClaimIsTakenOver` | `OneAtATime` | A retry dies after its claim; the gate refuses all later ones although the claim's lease expired (`retry-service.ts:271`; "The claim lease is what now lets a later retry take it over", `payment-order-service.ts:973-974`) |
| `PaymentIdKept` | `CallbackOverCapture` | The payment id is compared before the transaction that writes it (`webhook-service.ts:803-806`), so a second report overwrites what is called "never a contradiction" |
| `RefundOfferIsHonoured` | `Rivals` | After a callback wrote VERIFIED over CAPTURED no captured attempt is found and the refund offered is refused. Calls one after the other keep it (`OneAtATime`) |
| `CapturesAreReconciled` | `OneAtATime` | The first payment on an order fails, the second is captured: rejected for good as an id conflict (`webhook-service.ts:240`) |
| `NoOrderAfterCapture` | `Requote` | A capture during a re-quote is held, and the re-quoted purchase announces another order. While the price stands it holds (`Rivals`) |
| `RetryOfferKept` | `Requote` | A crash after re-authorization and a stale quote: the page offers a retry from AUTHORIZED that no transition allows (`retry-service.ts:416`) |
| `AttemptLimit` | `Requote` | A re-quoted purchase that had to be approved or reserved again reaches the ordinary order path, which does not count attempts (`domain/payment/retry.ts:33`). While the price stands it holds (`Rivals`) |
| `OneLiveAttempt` | `TwoPrices`, `Requote`, `Rivals` | With a re-quote two attempts wait for money at once. Under one quote they do when the callback of the first payment writes VERIFIED over FAILED after a retry claimed the next attempt (`Rivals`); under one quote and one call at a time they do not (`OneAtATime`) |
| `ClaimsOnlyAfterFailure` | `Rivals` | The same callback, committed between the check of a retry and its claim |
| `DoubleCaptureFlagged` | `Rivals` with `Payments <- TwoPayments` | A callback writes VERIFIED over the second attempt's CAPTURED, so the late capture of the first one finds no rival and is not flagged (`webhook-service.ts:774`) |
| `ReturnedOnce` | `EarlyCheck` with `MaxRefunds = 2` | The same check settles the first refund as failed while its create succeeds; the page then grants another, and the provider holds two refunds of one payment (`refund-service.ts:360-408`) |
| `HoldNotReleasedWhilePaying` | `TwoPrices` with `World = {"POLICY"}` | A refusal decided on an earlier read releases the stock of a purchase now payable (`retry-service.ts:857-859`) |
| `WaitingAmountIsTrue` | `Authority` with one call, `MaxProductVersions = 3`, `MaxEvaluations = 3` | A question is asked about a re-quoted price, which is then withdrawn because the product changed again; the page goes back to the older quote, which only lapsed, and shows its amount beside the open question (`passport-service.ts:51-60`) |
| `LimitOutlivesRetry` | `Authority` with `PolicyTerms <- GenerousTerms` | A retry re-quotes with no budget of the shopper's (`retry-service.ts:106`), so a dearer price is authorized by the policy alone. `docs/27-payment-retry.md:140-143` says so; `quote-service.ts:286-287` calls the limit "the thing that does not move" |
| `ScopeOfTheWords` | `Shop` with `Intents <- PerUnitIntents` | "3000 total" read by the model as per unit is verified by its amount only, and a total above it is quoted (`buyer-agent-service.ts`, where the budget's scope is taken from the intent; `docs/20-trusted-purchase-quote.md:40-48`) |

## 5. What is proved

The proofs are for every value of the constants, under the named assumptions
about them that TLC also evaluates in the runs. Each component has one inductive
invariant; TLC checked it on the component's runs before it was proved. An
invariant is proved by one lemma per action (or per kind of write), each of them
split by the conjuncts that the action can disturb.

`TransactionMachineProofs`: what adjudication makes of the provider's events. An
event that was applied is a duplicate when it comes again, from either source,
and after the capture none is applied or an error (`ReplaysChangeNothing`); a
capture that the webhook reports is never refused as invalid, in any state
(`CapturesAreNeverDiscarded`). The lemmas say of the table what the rest needs:
which edges lead into the authorized states (`AuthorityEdges`) and to where a
grant can be given (`EvaluationEdges`), into and out of the captured ones
(`CaptureEdges`), and which ones an AI actor may take (`AIEdges`).

`LifecycleProofs`: for every set of callers and every set of commands whose
event and actor are known (`CommandsAssumption`), and with no bound on the
history (`MaxHistory` is any number), each safety property of the `Lifecycle`
run is an invariant, as are type correctness and that an AI actor only proposes
(`LifecycleTypeCorrect`, `AIAlwaysOnlyProposes`). The properties alone are not inductive: a caller has
decided before it writes, and the row it will write must be known to be one the
table permits. The strengthening `RowsAreMoves` says so of every row and of
every decided move; `EvaluationFollowsQuote` adds that wherever a grant can be
given, an evaluation has followed the last quote. `AuthorityAlwaysFollowsQuote`
is about the order of the history's rows only: an evaluation that had read an
older quote may be the one that was recorded (section 3), and that the authority
given out is for the quote at hand is `AnswersAreJustified` of
`AuthorityProofs`. In `Commit` the guard on the
status joins the new row to the history, the table lemmas say what the new row
can be, and each property follows from the row and the property before it.

`PaymentProofs`: for any calls, payments, quotes, attempts and requests, and
whatever the world does. It has three layers.

- *Rows and records.* `PaymentInv` is the types, `CallsFit` (a call that has
  claimed holds a row that exists; one about to finalize an order has it from
  the provider; one that reconciles a capture was told by the provider),
  `RowsFit`, `OneRowPerClaim` (the claim key is unique) and `PaymentBindsOrder`.
  From it: `PaymentTypes`, `OrdersAreTheClaims`, `PaymentsStayWithTheirOrder`.
- *Money.* `MoneyInv` says that an announced order is stored, that a captured
  attempt means a paid purchase, that every recorded capture and every recorded
  double capture is money at the provider, that what is booked has its capture
  on record, and that the hold follows the sale. From it: `ShownMoneyIsTaken`, `ConfirmationStays`, and
  `PurchaseImplementsSale`, the refinement of `Sale` (initial state, then every step
  of every handler is a step of the sale or a stutter). `PageNeverContradicts` is about a page load
  and any steps in between: a completed purchase stays completed, so what the
  load read first still holds of the rows it reads later, and a booked sale
  leaves neither a hold nor an open gate to offer a payment from.
- *Attempts.* `AttemptsAreLimited` and `CaptureEndsOrders` hold of any number of
  simultaneous calls while the first price stands (`PriceStands`, by
  `PriceInv`). `PayIsHonoured` and `RowsTellTheMoney` hold when calls run one
  after the other (`OneByOne`, by `AloneInv`), also after re-quotes.
  `AttemptsLiveOneByOne`, `ClaimsFollowFailures` and `DoubleCapturesAreFlagged`
  need both (`AttemptInv`).

  The hypotheses are not there to ease the proof. Without `OneByOne` the code
  does not keep the properties that have it: two callers finalize one attempt,
  or a callback writes over a failure or a capture (section 4). Without
  `PriceStands` a re-quoted purchase goes through the ordinary order path again,
  which neither counts attempts nor looks for live ones: a claim parked under the
  old quote can then become an order beside a newer one, and a capture for the old
  one is recorded without being booked. One call at a time is also what the runs of
  these properties check, so the theorems widen them in everything else: rows,
  payments, limits and what the world may do.

`RefundProofs`: for any number of calls and refunds, and whatever the world
does, types, `ProcessedMeansReturned` and `SettledStays` hold. `RefundInv` adds
what makes them inductive: what the provider holds or a call works on has a row,
one call only may send the create of a row, and a call about to record
"processed" has it from the provider. `FailedMeansNotReturned` and
`ReturnedOnce` are proved under `NoEarlyCheck`, because without it the code does
not keep them (section 4), and for a provider that does not act on an
unanswered create after the lookup missed it (section 3). `OnceInv` says why they hold: nobody else works on a
refund whose create is under way, so its row is open until the answer is
recorded; a call about to record "failed" has it from the provider; and at most
one row is live, so two refunds at the provider would be two live rows.
`CardAlwaysTellsAll` needs no such assumption: only the newest row can be one
that has not failed (`NewestLive`), so the page may read that row alone.

`StockProofs`: for any purchases, quantities, number of calls and moves of the
other services, the reserved counter is the sum of the active holds
(`StockCounterIsExact`), holds never exceed what is on hand
(`StockNeverOversold`), units leave only by a committed hold
(`StockIsConserved`), what became of a hold is final (`StockHoldsEndOnce`), and
what is paid for is sold (`WhatIsPaidIsSold`).
The counter alone is not inductive: between its first write and its commit a
call has changed rows nobody else sees. `StockInv` adds that what a call has
written is still ACTIVE to everybody else (`Fits`), and that no two calls have
written the same row (`OneWriter`), which is what the row locks and the
re-evaluated condition give; the commit then takes from the counter exactly the
units it takes from the active rows. Sums over holds are cardinalities of sets
of units, so that a row that ends is a difference of finite sets. `SweepInv`
adds that a sweep only ever marks lapsed rows. `SaleInv` adds
that a sale in progress has in hand all the holds of its purchase and no others, so that nobody else can
move them or the purchase until it commits; `RoomInv` bounds the rows by what the claims in progress may
still write.

`AuthorityProofs`: for any calls, published facts, terms and shopper's words.
`AuthorityInv` is `RowsFit` (only the newest quote can be live and the newest
policy in force, at most one question is open, what a policy once blocked it
blocks, and until the first answer every open question stands at
APPROVAL_REQUIRED about the newest quote), `CallsFit` (what a call has read is
still good enough for what it will write: rows are added and change only in ways
that keep what others refer to, `RowsGrow`) and `RowLocks` (a question that a
call has settled in its own transaction is still open to all others, and no two
calls have settled the same one). From it: `QuotesStaySound`,
`AnswersAreJustified`, `RejectionsAreFinal`, `WaitingLineStaysTrue`.

`ShopProofs`: for any catalog, words, readings of the words, budgets and number
of submissions. `ShopInv` is `AgentInv` (the time and the calls of the run add up
to at most its budgets, an intent that is acted on was clear, a selected product
was seen) and `DecisionInv` (one purchase and one quote at most; product,
quantity and price of every caller and quote fit the settled words). From it:
`RunsKeepToTheirBudget`, `QuotesKeepTheWords` and, as an action property,
`SubstitutesAreForStock`. The module ends with the arithmetic the amounts are
reckoned in: for any even safe bound, a sum, a product, a parsed text and a
crossing between integers and JavaScript numbers is exact or refused
(`SumIsExact`, `ProductIsExact`, `ParsedIsMeant`, `CrossingsAreExact`), an
amount is shown with exactly its digits, which no other amount has, and which the
parser refuses with the symbol and reads back without it (`FormatIsExact`), and
the provider
is told to charge the amount of the quote, of which nothing from the minimum up
is held back (`PayableIsCharged`). All rest on one lemma, `RoundedIsUnsafe`: a
number that was rounded is outside the safe range, and the constructor refuses
everything outside it.

`RateLimitProofs`: for any clients, limits, number of requests and course of
time. `RateInv` says that the hits of a row are the number of requests counted
in it, that a row which counts a request at work is not pruned, and that nobody
is through a ceiling that is spent. From it `RowsStayExact` and `CeilingsStay`.
A window that has lost its row has no requests at work in it any more, because a
request ends within `Patience` and pruning spares rows younger than that. For
the day that all clients share, the requests counted in it map one to one into
those that the clients' own days let through (`LetThrough`).

**Assumptions about the constants**, each of them named in its module and
evaluated by TLC: limits that the code configures are at least 1; callers are
requests that there are; published facts, policy terms and the model's intents
are what their schemas admit (`intent.ts:199` for intents: a quantity of at least
1 and integer amounts); clients, and the calls of `Stock`, are finite sets; and
`OtherMoves` has no event of the service that the module models itself, nor, in
`Authority`, the expiry of an approval and the cancellation, which no service
there emits.

**Only model-checked.** Liveness, which this prover does not do:
`CapturedMoneySettles` (`Rivals`), `ReturnedMoneyIsRecorded` (`Refunds`),
`AgentAnswers` (`Shop`). Every other property of the passing runs is the
statement of a theorem, those about attempts under the hypotheses above; the
pure rules of policy and quote (`PurchaseRules`) are proved about only as far as
these theorems need them.

## 6. Not modelled

- Audit trail: append-only records with their wording; the two that are read
  again are in the models (the policy evaluation and the captures a passport
  counts).
- Merchant insights, history, catalog filters and paging, the public catalog
  endpoints: read-only queries without a decision behind them.
- Envelopes, cookies, request validation, layout; which service a handler may
  call is the choice of requests in the model.
- Configuration, migrations, seed data, scripts and CI; the unique constraints
  appear in the modules that depend on them.
- HTTP, signatures, amounts at the provider, error wording; whether a request
  to the rate limiter ever ends.

`PROJECT.json` gives the reason for each part that is left out or partial.

## 7. Plan

Every service that decides about authority, stock or money has its model, and
every safety property that a run checks has its theorem. What comes next:

1. Weaker hypotheses for the attempts: `PayIsHonoured` and `RowsTellTheMoney`
   for concurrent calls without the two races of section 4 (a second finalizer,
   a callback over a capture) in place of `OneByOne`.
2. `CapturedAttemptMeansPaid` and `BookedIsRecorded` carried over to the refund
   card: that a refund is offered only for money that was captured, from the
   payment and refund modules together.
3. A composition of `Authority` with the payment modules on a reduced instance,
   so that the re-check's answer is no longer a Boolean there; and of `Stock`
   with them, so that the hold of one purchase is a row among others.
4. More of the page: the passport's remaining lines, and what the journey says
   of steps before the payment.
