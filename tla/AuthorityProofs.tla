--------------------------- MODULE AuthorityProofs ---------------------------
(***************************************************************************)
(* Theorems about Authority for any number of calls, any words of the      *)
(* shopper, any published facts and any terms of the buyer: an             *)
(* authorization given out is justified, a rejection is final, first       *)
(* quotes keep to the shopper's words, and the page's waiting line is      *)
(* true.  AuthorityInv is the inductive invariant: what the rows say of    *)
(* each other, and what a call between two of its steps may rely on.       *)
(***************************************************************************)
EXTENDS Authority, TransactionMachineProofs, FiniteSetTheorems, TLAPS

-----------------------------------------------------------------------------
(* The policy engine. *)

\* The first rule that has something to say is the verdict.
LEMMA FirstRuleDecides ==
    ASSUME NEW quote, NEW quantity, NEW policy
    PROVE  \E i \in 1 .. 9 :
              /\ PolicyRules(quote, quantity, policy)[i][1]
              /\ \A j \in 1 .. i - 1 : ~PolicyRules(quote, quantity, policy)[j][1]
              /\ EvaluatePolicy(quote, quantity, policy)
                    = PolicyRules(quote, quantity, policy)[i][2]
  <1> DEFINE rules == PolicyRules(quote, quantity, policy)
             First(i) == rules[i][1] /\ \A j \in 1 .. i - 1 : ~rules[j][1]
  <1>1. rules[9][1] /\ DOMAIN rules = 1 .. 9
    BY DEF PolicyRules
  <1> HIDE DEF rules
  <1>2. \E i \in 1 .. 9 : First(i)
    <2>1. CASE rules[1][1]
      BY <2>1
    <2>2. CASE ~rules[1][1] /\ rules[2][1]
      BY <2>2
    <2>3. CASE ~rules[1][1] /\ ~rules[2][1] /\ rules[3][1]
      BY <2>3
    <2>4. CASE ~rules[1][1] /\ ~rules[2][1] /\ ~rules[3][1] /\ rules[4][1]
      BY <2>4
    <2>5. CASE ~rules[1][1] /\ ~rules[2][1] /\ ~rules[3][1] /\ ~rules[4][1] /\ rules[5][1]
      BY <2>5
    <2> DEFINE five == ~rules[1][1] /\ ~rules[2][1] /\ ~rules[3][1] /\ ~rules[4][1] /\ ~rules[5][1]
    <2>6. CASE five /\ rules[6][1]
      BY <2>6
    <2>7. CASE five /\ ~rules[6][1] /\ rules[7][1]
      BY <2>7
    <2>8. CASE five /\ ~rules[6][1] /\ ~rules[7][1] /\ rules[8][1]
      BY <2>8
    <2>9. CASE five /\ ~rules[6][1] /\ ~rules[7][1] /\ ~rules[8][1]
      <3>1. First(9)
        <4>1. \A j \in 1 .. 9 - 1 : j \in {1, 2, 3, 4, 5, 6, 7, 8}
          OBVIOUS
        <4>2. QED
          BY <4>1, <2>9, <1>1
      <3>2. QED
        BY <3>1
    <2>10. QED
      BY <2>1, <2>2, <2>3, <2>4, <2>5, <2>6, <2>7, <2>8, <2>9
  <1> DEFINE i == CHOOSE n \in DOMAIN rules : First(n)
  <1>3. i \in 1 .. 9 /\ First(i)
    BY <1>1, <1>2
  <1>4. EvaluatePolicy(quote, quantity, policy) = rules[i][2]
    BY DEF EvaluatePolicy, Verdict, rules
  <1>5. QED
    BY <1>3, <1>4 DEF rules

\* Only a policy in force allows anything.
LEMMA OnlyForceAllows ==
    ASSUME NEW quote, NEW quantity, NEW policy
    PROVE  /\ EvaluatePolicy(quote, quantity, policy) \in Decisions
           /\ policy.status # "ACTIVE" => EvaluatePolicy(quote, quantity, policy) = "BLOCKED"
  <1> DEFINE rules == PolicyRules(quote, quantity, policy)
  <1>1. PICK i \in 1 .. 9 :
            /\ rules[i][1] /\ \A j \in 1 .. i - 1 : ~rules[j][1]
            /\ EvaluatePolicy(quote, quantity, policy) = rules[i][2]
    BY FirstRuleDecides
  <1>2. \A n \in 1 .. 9 : rules[n][2] \in Decisions
    BY DEF PolicyRules, Decisions
  <1>3. rules[1][2] = "BLOCKED" /\ rules[2][2] = "BLOCKED"
    BY DEF PolicyRules
  <1>4. policy.status # "ACTIVE" => rules[2][1]
    BY DEF PolicyRules
  <1> HIDE DEF rules
  <1>5. ASSUME policy.status # "ACTIVE" PROVE i \in {1, 2}
    <2>1. rules[2][1]
      BY <1>4, <1>5
    <2>2. i > 2 => 2 \in 1 .. i - 1
      OBVIOUS
    <2>3. QED
      BY <1>1, <2>1, <2>2
  <1>6. QED
    BY <1>1, <1>2, <1>3, <1>5

\* The verdict looks at the price of a quote, not at what became of it.
LEMMA VerdictOnPrice ==
    ASSUME NEW q1, NEW q2, NEW quantity, NEW policy,
           q1.unit = q2.unit, q1.currency = q2.currency
    PROVE  EvaluatePolicy(q1, quantity, policy) = EvaluatePolicy(q2, quantity, policy)
  BY DEF EvaluatePolicy, Verdict, PolicyRules

-----------------------------------------------------------------------------
(* The inductive invariant. *)

ProductRows == [unit : Int, currency : STRING, stock : Int, available : BOOLEAN, version : Int]
PolicyRows == [currency : STRING, limit : Int, auto : BOOLEAN, status : {"ACTIVE", "SUPERSEDED"}]
QuoteRows == [unit : Int, currency : STRING, version : Nat, retry : BOOLEAN,
              status : QuoteStatuses, lapsed : BOOLEAN]
EvaluationRows == [quote : Nat, version : Nat, decision : Decisions]
ApprovalRows == [quote : Nat, amount : Int, version : Nat, status : ApprovalStatuses,
                 closed : BOOLEAN]
Outcomes == {"", "first", "retry", "CONSUMED", "REJECTED"} \cup QuoteStatuses \cup Decisions
CallRecords == [at : Stages, quote : Nat, version : Nat, outcome : Outcomes, asked : SUBSET Nat]

RowTypes ==
    /\ products \in Seq(ProductRows) /\ products # <<>>
    /\ policies \in Seq(PolicyRows) /\ policies # <<>>
    /\ quotes \in Seq(QuoteRows) /\ evaluations \in Seq(EvaluationRows)
    /\ approvals \in Seq(ApprovalRows)

\* Rows refer to rows; an amount asked about is that of its quote.
RowsRefer ==
    /\ \A q \in DOMAIN quotes : quotes[q].version \in DOMAIN products
    /\ \A i \in DOMAIN evaluations :
          evaluations[i].quote \in DOMAIN quotes /\ evaluations[i].version \in DOMAIN policies
    /\ \A a \in DOMAIN approvals :
          /\ approvals[a].quote \in DOMAIN quotes /\ approvals[a].version \in DOMAIN policies
          /\ approvals[a].amount = TotalAmount(quotes[approvals[a].quote].unit, Quantity)

\* What the policy as it stood blocked, it blocks: it is withdrawn, not revived.
Blocks(version, q) == EvaluatePolicy(quotes[q], Quantity, policies[version]) = "BLOCKED"

BlockedStays ==
    \A i \in DOMAIN evaluations :
        evaluations[i].decision = "BLOCKED" => Blocks(evaluations[i].version, evaluations[i].quote)

\* Only the newest quote can be live, and it is replaced only by a newer one.
NewestIsLive ==
    /\ ActiveQuotes \subseteq {Len(quotes)}
    /\ quotes # <<>> => quotes[Len(quotes)].status # "SUPERSEDED"

\* Only the newest policy can be in force.
NewestInForce == \A v \in DOMAIN policies : policies[v].status = "ACTIVE" => v = Len(policies)

OneQuestion == \A a, b \in Pending : a = b

QuestionHasRecord == status = "APPROVAL_REQUIRED" => evaluations # <<>>

\* Some question of this purchase has been answered.
WasAnswered == \E a \in DOMAIN approvals : approvals[a].status \in {"CONSUMED", "REJECTED"}

\* Until the first answer, what is open stands at the question, about the newest quote.
OpenStands ==
    ~WasAnswered =>
        \A a \in Pending : status = "APPROVAL_REQUIRED" /\ approvals[a].quote = Len(quotes)

HoldsQuote == {"Evaluating", "Retiring", "Recording", "Asked", "Comparing", "Consulting",
               "Seeking", "Answered"}
HoldsVersion == {"Recording", "Asked", "Comparing", "Consulting", "Seeking", "Answered"}

HoldsKnownRows(k) ==
    /\ k \in CallRecords /\ k.asked \subseteq DOMAIN approvals
    /\ k.at \in HoldsQuote => k.quote \in DOMAIN quotes
    /\ k.at \in HoldsVersion => k.version \in DOMAIN policies
    /\ k.at \in {"Answering", "Settled", "Granting"} => k.asked # {}

\* A first quote is about to be issued at a price within the shopper's words.
PricedWithinWords(k) ==
    k.at = "Pricing" =>
        /\ k.version \in DOMAIN products
        /\ k.outcome # "retry" => WithinWords(products[k.version])

RetiresProperly(k) == k.at = "Retiring" => k.outcome \in QuoteStatuses \ {"ACTIVE", "SUPERSEDED"}

RecordsTruly(k) ==
    k.at = "Recording" =>
        k.outcome \in Decisions /\ (k.outcome = "BLOCKED" => Blocks(k.version, k.quote))

AsksAtQuestion(k) ==
    k.at \in {"Asking", "Asked"} =>
        /\ evaluations # <<>>
        /\ ~WasAnswered =>
              /\ status = "APPROVAL_REQUIRED"
              /\ k.at = "Asked" => k.quote = Len(quotes)

RecordOf(i, k) == evaluations[i].quote = k.quote /\ evaluations[i].version = k.version

RecheckRests(k) ==
    /\ k.at \in {"Comparing", "Consulting"} => \E i \in DOMAIN evaluations : RecordOf(i, k)
    /\ k.at \in {"Seeking", "Answered"} =>
          \E i \in DOMAIN evaluations : RecordOf(i, k) /\ evaluations[i].decision # "BLOCKED"
    /\ k.at = "Answered" => Allows(k.version, k.quote) \/ Satisfying(k.quote, k.version) # {}

CallFits(k) ==
    /\ HoldsKnownRows(k) /\ PricedWithinWords(k) /\ RetiresProperly(k)
    /\ RecordsTruly(k) /\ AsksAtQuestion(k) /\ RecheckRests(k)

CallsFit == calls \in [Calls -> CallRecords] /\ \A c \in Calls : CallFits(calls[c])

\* Rows a call has written are open, and no two calls have written the same one.
Locks(c) == calls[c].at \in {"Asked", "Settled", "Granting"}

RowLocks ==
    /\ \A c \in Calls : calls[c].at \in {"Settled", "Granting"} => calls[c].asked \subseteq Pending
    /\ \A c, d \in Calls : c # d /\ Locks(c) /\ Locks(d) => calls[c].asked \cap calls[d].asked = {}

RowsFit ==
    /\ status \in TransactionStates
    /\ RowTypes /\ RowsRefer /\ BlockedStays
    /\ NewestIsLive /\ NewestInForce /\ OneQuestion
    /\ QuestionHasRecord /\ OpenStands /\ RejectionIsFinal /\ QuotesWithinBudget

AuthorityInv == RowsFit /\ CallsFit /\ RowLocks

-----------------------------------------------------------------------------
(* What a call relies on survives the steps of the others. *)

\* Rows are added and never lose what others refer to.
RowsGrow ==
    /\ DOMAIN products \subseteq DOMAIN products'
    /\ \A v \in DOMAIN products : products'[v] = products[v]
    /\ DOMAIN policies \subseteq DOMAIN policies'
    /\ \A v \in DOMAIN policies :
          \/ policies'[v] = policies[v]
          \/ policies'[v] = [policies[v] EXCEPT !.status = "SUPERSEDED"]
    /\ DOMAIN quotes \subseteq DOMAIN quotes'
    /\ \A q \in DOMAIN quotes :
          quotes'[q].unit = quotes[q].unit /\ quotes'[q].currency = quotes[q].currency
    /\ DOMAIN evaluations \subseteq DOMAIN evaluations'
    /\ \A i \in DOMAIN evaluations : evaluations'[i] = evaluations[i]
    /\ DOMAIN approvals \subseteq DOMAIN approvals'
    /\ \A a \in DOMAIN approvals :
          /\ approvals'[a].quote = approvals[a].quote
          /\ approvals'[a].amount = approvals[a].amount
          /\ approvals'[a].version = approvals[a].version
          /\ approvals[a].status \in {"CONSUMED", "REJECTED"} =>
                approvals'[a].status = approvals[a].status

\* A purchase leaves the question by its answer.
QuestionKept ==
    status = "APPROVAL_REQUIRED" =>
        \/ WasAnswered'
        \/ status' = "APPROVAL_REQUIRED" /\ Len(quotes') = Len(quotes)

LEMMA AnswersStay == ASSUME RowsGrow, WasAnswered PROVE WasAnswered'
  BY DEF RowsGrow, WasAnswered

LEMMA BlocksStays ==
    ASSUME RowTypes, RowsGrow, NEW v \in DOMAIN policies, NEW q \in DOMAIN quotes, Blocks(v, q)
    PROVE  Blocks(v, q)'
  <1>1. EvaluatePolicy(quotes'[q], Quantity, policies[v]) = "BLOCKED"
    BY VerdictOnPrice DEF RowsGrow, Blocks
  <1>2. CASE policies'[v] = policies[v]
    BY <1>1, <1>2 DEF Blocks
  <1>3. CASE policies'[v] = [policies[v] EXCEPT !.status = "SUPERSEDED"]
    <2>1. policies[v] \in PolicyRows
      BY DEF RowTypes
    <2>2. policies'[v].status # "ACTIVE"
      BY <1>3, <2>1 DEF PolicyRows
    <2>3. QED
      BY <2>2, OnlyForceAllows DEF Blocks
  <1>4. QED
    BY <1>2, <1>3 DEF RowsGrow

LEMMA AllowsStays ==
    ASSUME RowTypes, RowsGrow, NEW v \in DOMAIN policies, NEW q \in DOMAIN quotes, Allows(v, q)
    PROVE  Allows(v, q)'
  <1>1. policies[v] \in PolicyRows
    BY DEF RowTypes
  <1>2. [policies'[v] EXCEPT !.status = "ACTIVE"] = [policies[v] EXCEPT !.status = "ACTIVE"]
    BY <1>1 DEF RowsGrow, PolicyRows
  <1>3. QED
    BY <1>2, VerdictOnPrice DEF RowsGrow, Allows

LEMMA SatisfyingStays ==
    ASSUME RowsGrow, NEW v, NEW q \in DOMAIN quotes, Satisfying(q, v) # {}
    PROVE  Satisfying(q, v)' # {}
  <1>1. PICK a \in Satisfying(q, v) : TRUE
    OBVIOUS
  <1>2. a \in Satisfying(q, v)'
    BY <1>1 DEF Satisfying, RowsGrow, TotalAmount
  <1>3. QED
    BY <1>2

LEMMA CallFitsStays ==
    ASSUME RowTypes, RowsGrow, QuestionKept, NEW k, CallFits(k)
    PROVE  CallFits(k)'
  <1> USE DEF CallFits
  <1>1. HoldsKnownRows(k)'
    BY DEF HoldsKnownRows, RowsGrow
  <1>2. PricedWithinWords(k)'
    BY DEF PricedWithinWords, RowsGrow
  <1>3. RetiresProperly(k)'
    BY DEF RetiresProperly
  <1>4. RecordsTruly(k)'
    <2>1. SUFFICES ASSUME k.at = "Recording" PROVE RecordsTruly(k)'
      BY DEF RecordsTruly
    <2>2. k.quote \in DOMAIN quotes /\ k.version \in DOMAIN policies
      BY <2>1 DEF HoldsKnownRows, HoldsQuote, HoldsVersion
    <2>3. QED
      BY <2>1, <2>2, BlocksStays DEF RecordsTruly
  <1>5. AsksAtQuestion(k)'
    <2>1. evaluations # <<>> => evaluations' # <<>>
      <3>1. RowTypes => (evaluations # <<>> => 1 \in DOMAIN evaluations)
        BY DEF RowTypes
      <3>2. QED
        BY <3>1 DEF RowsGrow
    <2>2. QED
      BY <2>1, AnswersStay DEF AsksAtQuestion, QuestionKept
  <1>6. RecheckRests(k)'
    <2>1. \A i \in DOMAIN evaluations : RecordOf(i, k) => RecordOf(i, k)'
      BY DEF RecordOf, RowsGrow
    <2>2. ASSUME k.at = "Answered"
          PROVE  Allows(k.version, k.quote)' \/ Satisfying(k.quote, k.version)' # {}
      <3>1. k.quote \in DOMAIN quotes /\ k.version \in DOMAIN policies
        BY <2>2 DEF HoldsKnownRows, HoldsQuote, HoldsVersion
      <3>2. QED
        BY <2>2, <3>1, AllowsStays, SatisfyingStays DEF RecheckRests
    <2>3. QED
      BY <2>1, <2>2 DEF RecheckRests, RowsGrow
  <1>7. QED
    BY <1>1, <1>2, <1>3, <1>4, <1>5, <1>6

LEMMA IdleFits == CallFits(Idle) /\ Idle.at = "Idle"
  <1>1. Idle.at = "Idle" /\ Idle.asked = {}
    BY DEF Idle, Call
  <1>2. Idle \in CallRecords
    <2>1. "Idle" \in Stages /\ "" \in Outcomes /\ {} \in SUBSET Nat /\ 0 \in Nat
      BY DEF Stages, Outcomes
    <2>2. QED
      BY <2>1 DEF CallRecords, Idle, Call
  <1> HIDE DEF Idle
  <1>3. QED
    BY <1>1, <1>2 DEF CallFits, HoldsKnownRows, PricedWithinWords, RetiresProperly, RecordsTruly,
         AsksAtQuestion, RecheckRests, HoldsQuote, HoldsVersion

\* A step of one call that leaves the rows alone.
LEMMA CallMoves ==
    ASSUME AuthorityInv, UNCHANGED <<purchase, world>>,
           NEW c \in Calls, NEW k, Become(c, k), CallFits(k),
           k.at \in {"Settled", "Granting"} => k.asked \subseteq Pending,
           k.at \in {"Asked", "Settled", "Granting"} =>
               \A d \in Calls \ {c} : Locks(d) => k.asked \cap calls[d].asked = {}
    PROVE  AuthorityInv'
  <1> USE DEF AuthorityInv
  <1>1. RowsFit'
    <2>1. (RowTypes /\ RowsRefer /\ BlockedStays)'
      BY DEF RowsFit, purchase, world, RowTypes, RowsRefer, BlockedStays, Blocks
    <2>2. (NewestIsLive /\ NewestInForce /\ OneQuestion)'
      BY DEF RowsFit, purchase, world, NewestIsLive, ActiveQuotes, NewestInForce,
             OneQuestion, Pending
    <2>3. (QuestionHasRecord /\ OpenStands)'
      BY DEF RowsFit, purchase, QuestionHasRecord, OpenStands, Pending, WasAnswered
    <2>4. (RejectionIsFinal /\ QuotesWithinBudget)'
      BY DEF RowsFit, purchase, RejectionIsFinal, QuotesWithinBudget
    <2>5. QED
      BY <2>1, <2>2, <2>3, <2>4 DEF RowsFit, purchase
  <1>2. \A l : CallFits(l)' = CallFits(l)
    BY DEF purchase, world, CallFits, HoldsKnownRows, PricedWithinWords, RetiresProperly,
           RecordsTruly, AsksAtQuestion, RecheckRests, RecordOf, Blocks, Allows, Satisfying,
           WasAnswered
  <1>3. k \in CallRecords
    BY DEF CallFits, HoldsKnownRows
  <1>4. CallsFit'
    <2>1. calls' \in [Calls -> CallRecords]
      BY <1>3 DEF CallsFit, Become
    <2>2. \A d \in Calls : CallFits(calls'[d])
      BY DEF CallsFit, Become
    <2>3. QED
      BY <1>2, <2>1, <2>2 DEF CallsFit
  <1>5. RowLocks'
    <2>1. Pending' = Pending
      BY DEF Pending, purchase
    <2>2. calls'[c] = k /\ \A d \in Calls \ {c} : calls'[d] = calls[d]
      BY DEF CallsFit, Become
    <2>3. \A d \in Calls : calls'[d].at \in {"Settled", "Granting"} => calls'[d].asked \subseteq Pending
      BY <2>2 DEF RowLocks
    <2>4. \A d, e \in Calls :
             d # e /\ Locks(d)' /\ Locks(e)' => calls'[d].asked \cap calls'[e].asked = {}
      BY <2>2 DEF RowLocks, Locks
    <2>5. QED
      BY <2>1, <2>3, <2>4 DEF RowLocks
  <1>6. QED
    BY <1>1, <1>4, <1>5

\* A call that ends without a trace.
LEMMA CallEnds ==
    ASSUME AuthorityInv, UNCHANGED <<purchase, world>>, NEW c \in Calls, Done(c)
    PROVE  AuthorityInv'
  BY IdleFits, CallMoves DEF Done, Idle, Call

\* A step that changes rows, in the course of a call that ends or outside of all.
LEMMA RowsMove ==
    ASSUME AuthorityInv, RowsFit', RowsGrow, QuestionKept,
           calls' = calls \/ \E c \in Calls : Done(c),
           \A d \in Calls : calls'[d].at \in {"Settled", "Granting"} => calls'[d].asked \subseteq Pending'
    PROVE  AuthorityInv'
  <1> USE DEF AuthorityInv
  <1>1. \A d \in Calls : calls'[d] = calls[d] \/ calls'[d] = Idle
    BY DEF Done, Become, CallsFit
  <1>2. CallsFit'
    <2>1. Idle \in CallRecords
      BY IdleFits DEF CallFits, HoldsKnownRows
    <2>2. calls' \in [Calls -> CallRecords]
      BY <2>1 DEF CallsFit, Done, Become
    <2>3. ASSUME NEW d \in Calls PROVE CallFits(calls[d])' 
      <3>1. PICK k : k = calls'[d]
        OBVIOUS
      <3>2. CallFits(k)
        BY <1>1, <3>1, IdleFits DEF CallsFit
      <3>3. CallFits(k)'
        BY <3>2, CallFitsStays DEF RowsFit
      <3>4. QED
        BY <3>1, <3>3
    <2>4. QED
      BY <2>2, <2>3 DEF CallsFit
  <1>3. RowLocks'
    <2>1. \A d \in Calls : Locks(d)' => Locks(d) /\ calls'[d] = calls[d]
      BY <1>1, IdleFits DEF Locks
    <2>2. \A d, e \in Calls :
             d # e /\ Locks(d)' /\ Locks(e)' => calls'[d].asked \cap calls'[e].asked = {}
      BY <2>1 DEF RowLocks
    <2>3. QED
      BY <2>2 DEF RowLocks
  <1>4. QED
    BY <1>2, <1>3

-----------------------------------------------------------------------------
(* The steps that read. *)

LEMMA CallParts ==
    /\ "Idle" \in Stages /\ "Pricing" \in Stages /\ "Evaluating" \in Stages
    /\ "Retiring" \in Stages /\ "Recording" \in Stages /\ "Asking" \in Stages
    /\ "Asked" \in Stages /\ "Answering" \in Stages /\ "Settled" \in Stages
    /\ "Granting" \in Stages /\ "Rechecking" \in Stages /\ "Comparing" \in Stages
    /\ "Consulting" \in Stages /\ "Seeking" \in Stages /\ "Answered" \in Stages
    /\ "" \in Outcomes /\ "first" \in Outcomes /\ "retry" \in Outcomes
    /\ "CONSUMED" \in Outcomes /\ "REJECTED" \in Outcomes /\ "EXPIRED" \in Outcomes
    /\ "INVALIDATED" \in Outcomes /\ "BLOCKED" \in Outcomes /\ "ALLOWED" \in Outcomes
    /\ "APPROVAL_REQUIRED" \in Outcomes
    /\ 0 \in Nat /\ {} \in SUBSET Nat
  BY DEF Stages, Outcomes, QuoteStatuses, Decisions

LEMMA RowsAreNumbered ==
    ASSUME RowTypes
    PROVE  /\ DOMAIN quotes \subseteq Nat /\ DOMAIN policies \subseteq Nat
           /\ DOMAIN products \subseteq Nat /\ DOMAIN approvals \subseteq Nat
           /\ Len(products) \in DOMAIN products /\ Len(policies) \in DOMAIN policies
           /\ evaluations # <<>> => Len(evaluations) \in DOMAIN evaluations
           /\ \A q \in DOMAIN quotes : quotes[q] \in QuoteRows
           /\ \A a \in DOMAIN approvals : approvals[a] \in ApprovalRows
           /\ \A v \in DOMAIN policies : policies[v] \in PolicyRows
           /\ \A v \in DOMAIN products : products[v] \in ProductRows
           /\ \A i \in DOMAIN evaluations : evaluations[i] \in EvaluationRows
  <1>1. Len(products) \in DOMAIN products /\ DOMAIN products \subseteq Nat
    BY DEF RowTypes
  <1>2. Len(policies) \in DOMAIN policies /\ DOMAIN policies \subseteq Nat
    BY DEF RowTypes
  <1>3. evaluations # <<>> => Len(evaluations) \in DOMAIN evaluations
    BY DEF RowTypes
  <1>4. DOMAIN quotes \subseteq Nat /\ DOMAIN approvals \subseteq Nat
    BY DEF RowTypes
  <1>5. QED
    BY <1>1, <1>2, <1>3, <1>4 DEF RowTypes

LEMMA PolicyIsTheNewest ==
    ASSUME NewestInForce
    PROVE  PolicyVersion = Len(policies)
  <1> DEFINE inForce == {v \in DOMAIN policies : policies[v].status = "ACTIVE"}
  <1>1. CASE inForce = {}
    BY <1>1 DEF PolicyVersion
  <1>2. CASE inForce # {}
    <2>1. inForce = {Len(policies)}
      BY <1>2 DEF NewestInForce
    <2>2. Len(policies) <= Len(policies) => PolicyVersion = Len(policies)
      BY <1>2, <2>1 DEF PolicyVersion
    <2>3. \A v \in inForce : (\A w \in inForce : w <= v) => v = Len(policies)
      BY <2>1
    <2>4. QED
      BY <2>1, <2>2
  <1>3. QED
    BY <1>1, <1>2

\* What the comparison with the shopper's words lets through.
LEMMA PriceIsWithinWords ==
    ASSUME NEW product \in ProductRows,
           DisqualifyingChange(product, Quantity, ShopperAuthority) = {}
    PROVE  WithinWords(product)
  <1>1. ~(ShopperAuthority.currency # "NONE" /\ ~RespectsBudget(product.unit, Quantity, ShopperAuthority))
    BY DEF DisqualifyingChange, Reasons
  <1>2. ShopperAuthority.max # NoLimit => RespectsBudget(product.unit, Quantity, ShopperAuthority)
    BY <1>1, AuthorityAssumption
  <1>3. product.unit \in Int /\ Quantity \in Nat
    BY AuthorityAssumption DEF ProductRows
  <1>4. Quantity = 1 => product.unit * Quantity = product.unit
    BY <1>3
  <1>5. QED
    BY <1>2, <1>4 DEF WithinWords, RespectsBudget, Scope, TotalAmount

LEMMA ReadProductStep ==
    ASSUME AuthorityInv, NEW c \in Calls, NEW retry \in BOOLEAN, ReadProduct(c, retry)
    PROVE  AuthorityInv'
  <1> DEFINE o == IF retry THEN "retry" ELSE "first"
  <1>1. RowTypes
    BY DEF AuthorityInv, RowsFit
  <1>2. PICK n : n = Len(products)
    OBVIOUS
  <1>3. n \in DOMAIN products /\ n \in Nat
    BY <1>1, <1>2, RowsAreNumbered
  <1>4. PICK k : k = Call("Pricing", 0, n, o, {})
    OBVIOUS
  <1>5. /\ k \in CallRecords
        /\ k.at = "Pricing" /\ k.version = n /\ k.outcome = o /\ k.asked = {}
    BY <1>3, <1>4, CallParts DEF Call, CallRecords
  <1>6. ~retry => WithinWords(products[n])
    BY <1>1, <1>2, <1>3, PriceIsWithinWords, RowsAreNumbered DEF ReadProduct, Product
  <1>7. CallFits(k)
    BY <1>3, <1>5, <1>6 DEF CallFits, HoldsKnownRows, PricedWithinWords, RetiresProperly,
       RecordsTruly, AsksAtQuestion, RecheckRests, HoldsQuote, HoldsVersion
  <1>8. Become(c, k) /\ UNCHANGED <<purchase, world>>
    BY <1>2, <1>4 DEF ReadProduct
  <1>9. QED
    BY <1>5, <1>7, <1>8, CallMoves

LEMMA ValidateQuoteStep ==
    ASSUME AuthorityInv, NEW c \in Calls, NEW q \in DOMAIN quotes, ValidateQuote(c, q)
    PROVE  AuthorityInv'
  <1>1. q \in Nat
    BY RowsAreNumbered DEF AuthorityInv, RowsFit
  <1>2. Usability(q) \in {"INVALIDATED", "EXPIRED", "VALID"}
    BY DEF Usability, AssessQuote
  <1>3. CASE Become(c, Call("Evaluating", q, 0, "", {}))
    <2>1. PICK k : k = Call("Evaluating", q, 0, "", {})
      OBVIOUS
    <2>2. k \in CallRecords /\ k.at = "Evaluating" /\ k.quote = q /\ k.asked = {}
      BY <1>1, <2>1, CallParts DEF Call, CallRecords
    <2>3. CallFits(k)
      BY <2>2 DEF CallFits, HoldsKnownRows, PricedWithinWords, RetiresProperly,
         RecordsTruly, AsksAtQuestion, RecheckRests, HoldsQuote, HoldsVersion
    <2>4. QED
      BY <1>3, <2>1, <2>2, <2>3, CallMoves DEF ValidateQuote
  <1>4. CASE /\ Usability(q) # "VALID"
             /\ Become(c, Call("Retiring", q, 0, Usability(q), {}))
    <2>1. PICK o : o = Usability(q)
      OBVIOUS
    <2>2. o \in {"INVALIDATED", "EXPIRED"}
      BY <1>2, <1>4, <2>1
    <2>3. PICK k : k = Call("Retiring", q, 0, o, {})
      OBVIOUS
    <2>4. k \in CallRecords /\ k.at = "Retiring" /\ k.quote = q /\ k.outcome = o /\ k.asked = {}
      BY <1>1, <2>2, <2>3, CallParts DEF Call, CallRecords
    <2>5. CallFits(k)
      BY <2>2, <2>4 DEF CallFits, HoldsKnownRows, PricedWithinWords, RetiresProperly,
         RecordsTruly, AsksAtQuestion, RecheckRests, HoldsQuote, HoldsVersion, QuoteStatuses
    <2>6. QED
      BY <1>4, <2>1, <2>3, <2>4, <2>5, CallMoves DEF ValidateQuote
  <1>5. QED
    BY <1>3, <1>4 DEF ValidateQuote

LEMMA LoadInputsStep ==
    ASSUME AuthorityInv, NEW c \in Calls, LoadInputs(c)
    PROVE  AuthorityInv'
  <1>1. PICK q, v, d : q = calls[c].quote /\ v = PolicyVersion /\ d = DecisionOn(q)
    OBVIOUS
  <1>2. CASE Done(c)
    BY <1>2, CallEnds DEF LoadInputs
  <1>3. CASE Become(c, Call("Recording", q, v, d, {}))
    <2>1. q \in DOMAIN quotes /\ q \in Nat
      BY <1>1, RowsAreNumbered DEF LoadInputs, At, AuthorityInv, RowsFit, CallsFit, CallFits,
         HoldsKnownRows, HoldsQuote
    <2>2. v \in DOMAIN policies /\ v \in Nat
      BY <1>1, PolicyIsTheNewest, RowsAreNumbered DEF AuthorityInv, RowsFit
    <2>3. d = EvaluatePolicy(quotes[q], Quantity, policies[v])
      BY <1>1 DEF DecisionOn
    <2>4. d \in Decisions /\ d \in Outcomes
      BY <2>3, OnlyForceAllows DEF Outcomes
    <2>5. PICK k : k = Call("Recording", q, v, d, {})
      OBVIOUS
    <2>6. /\ k \in CallRecords /\ k.at = "Recording" /\ k.quote = q /\ k.version = v
          /\ k.outcome = d /\ k.asked = {}
      BY <2>1, <2>2, <2>4, <2>5, CallParts DEF Call, CallRecords
    <2>7. CallFits(k)
      BY <2>1, <2>2, <2>3, <2>4, <2>6 DEF CallFits, HoldsKnownRows, PricedWithinWords,
         RetiresProperly, RecordsTruly, Blocks, AsksAtQuestion, RecheckRests, HoldsQuote,
         HoldsVersion
    <2>8. QED
      BY <1>3, <2>5, <2>6, <2>7, CallMoves DEF LoadInputs
  <1>4. QED
    BY <1>1, <1>2, <1>3 DEF LoadInputs

LEMMA BeginAskStep ==
    ASSUME AuthorityInv, NEW c \in Calls, BeginAsk(c)
    PROVE  AuthorityInv'
  <1>1. PICK s : s = Stale
    OBVIOUS
  <1>2. s \subseteq DOMAIN approvals /\ s \in SUBSET Nat
    BY <1>1, RowsAreNumbered DEF Stale, Pending, AuthorityInv, RowsFit
  <1>3. PICK k : k = Call("Asking", 0, 0, "", s)
    OBVIOUS
  <1>4. k \in CallRecords /\ k.at = "Asking" /\ k.asked = s
    BY <1>2, <1>3, CallParts DEF Call, CallRecords
  <1>5. status = "APPROVAL_REQUIRED" /\ evaluations # <<>>
    BY DEF BeginAsk, AuthorityInv, RowsFit, QuestionHasRecord
  <1>6. CallFits(k)
    BY <1>2, <1>4, <1>5 DEF CallFits, HoldsKnownRows, PricedWithinWords, RetiresProperly,
       RecordsTruly, AsksAtQuestion, RecheckRests, HoldsQuote, HoldsVersion
  <1>7. QED
    BY <1>1, <1>3, <1>4, <1>6, CallMoves DEF BeginAsk

\* The question is opened about the newest quote and the newest record.
LEMMA QuestionPreparedStep ==
    ASSUME AuthorityInv, NEW c \in Calls, ReadForQuestion(c), UNCHANGED approvals,
           NEW q \in ActiveQuotes,
           Become(c, Call("Asked", q, Recorded.version, "", calls[c].asked \cap Pending))
    PROVE  AuthorityInv'
  <1>1. PICK k0 : k0 = calls[c]
    OBVIOUS
  <1>2. CallFits(k0) /\ k0.at = "Asking"
    BY <1>1 DEF AuthorityInv, CallsFit, ReadForQuestion, At
  <1>3. PICK s, v : s = k0.asked \cap Pending /\ v = Recorded.version
    OBVIOUS
  <1>4. s \subseteq DOMAIN approvals /\ s \in SUBSET Nat
    BY <1>3, RowsAreNumbered DEF Pending, AuthorityInv, RowsFit
  <1>5. q \in DOMAIN quotes /\ q = Len(quotes) /\ q \in Nat
    BY RowsAreNumbered DEF ActiveQuotes, AuthorityInv, RowsFit, NewestIsLive
  <1>6. v \in DOMAIN policies /\ v \in Nat
    <2>1. Len(evaluations) \in DOMAIN evaluations
      BY <1>2, RowsAreNumbered DEF CallFits, AsksAtQuestion, AuthorityInv, RowsFit
    <2>2. QED
      BY <1>3, <2>1, RowsAreNumbered DEF Recorded, AuthorityInv, RowsFit, RowsRefer
  <1>7. PICK k : k = Call("Asked", q, v, "", s)
    OBVIOUS
  <1>8. k \in CallRecords /\ k.at = "Asked" /\ k.quote = q /\ k.version = v /\ k.asked = s
    BY <1>4, <1>5, <1>6, <1>7, CallParts DEF Call, CallRecords
  <1>9. CallFits(k)
    BY <1>2, <1>4, <1>5, <1>6, <1>8 DEF CallFits, HoldsKnownRows, PricedWithinWords,
       RetiresProperly, RecordsTruly, AsksAtQuestion, RecheckRests, HoldsQuote, HoldsVersion
  <1>10. \A d \in Calls \ {c} : Locks(d) => s \cap calls[d].asked = {}
    BY <1>1, <1>3 DEF ReadForQuestion, RowFree, Locks
  <1>11. UNCHANGED <<purchase, world>>
    BY DEF ReadForQuestion, purchase, world
  <1>12. QED
    BY <1>1, <1>3, <1>7, <1>8, <1>9, <1>10, <1>11, CallMoves

LEMMA PresentTokenStep ==
    ASSUME AuthorityInv, NEW c \in Calls, NEW a \in DOMAIN approvals,
           NEW answer \in {"CONSUMED", "REJECTED"}, PresentToken(c, a, answer)
    PROVE  AuthorityInv'
  <1>1. PICK k : k = Call("Answering", 0, 0, answer, {a})
    OBVIOUS
  <1>2. {a} \in SUBSET Nat
    BY RowsAreNumbered DEF AuthorityInv, RowsFit
  <1>3. k \in CallRecords /\ k.at = "Answering" /\ k.asked = {a}
    BY <1>1, <1>2, CallParts DEF Call, CallRecords
  <1>4. CallFits(k)
    BY <1>3 DEF CallFits, HoldsKnownRows, PricedWithinWords, RetiresProperly,
       RecordsTruly, AsksAtQuestion, RecheckRests, HoldsQuote, HoldsVersion
  <1>5. QED
    BY <1>1, <1>3, <1>4, CallMoves DEF PresentToken

\* The conditional update and the revalidation keep the row of the answer.
LEMMA SettleStep ==
    ASSUME AuthorityInv, NEW c \in Calls, SettleApproval(c) \/ Revalidate(c)
    PROVE  AuthorityInv'
  <1>1. CASE Done(c)
    BY <1>1, CallEnds DEF SettleApproval, Revalidate
  <1>2. PICK k0 : k0 = calls[c]
    OBVIOUS
  <1>3. CallFits(k0) /\ k0.at \in {"Answering", "Settled"}
    BY <1>2 DEF AuthorityInv, CallsFit, SettleApproval, Revalidate, At
  <1>4. /\ k0.asked \in SUBSET Nat /\ k0.asked \subseteq DOMAIN approvals
        /\ k0.asked # {} /\ k0.outcome \in Outcomes
    BY <1>3 DEF CallFits, HoldsKnownRows, CallRecords
  <1>5. ASSUME NEW to \in {"Settled", "Granting"}, Become(c, Call(to, 0, 0, k0.outcome, k0.asked)),
               k0.asked \subseteq Pending,
               \A d \in Calls \ {c} : Locks(d) => k0.asked \cap calls[d].asked = {}
        PROVE  AuthorityInv'
    <2>1. PICK k : k = Call(to, 0, 0, k0.outcome, k0.asked)
      OBVIOUS
    <2>2. k \in CallRecords /\ k.at = to /\ k.asked = k0.asked
      BY <1>4, <2>1, CallParts DEF Call, CallRecords
    <2>3. CallFits(k)
      BY <1>4, <2>2 DEF CallFits, HoldsKnownRows, PricedWithinWords, RetiresProperly,
         RecordsTruly, AsksAtQuestion, RecheckRests, HoldsQuote, HoldsVersion
    <2>4. UNCHANGED <<purchase, world>>
      BY DEF SettleApproval, Revalidate
    <2>5. QED
      BY <1>5, <2>1, <2>2, <2>3, <2>4, CallMoves
  <1>6. CASE SettleApproval(c) /\ ~Done(c)
    <2>1. k0.asked \subseteq Pending /\ Become(c, Call("Settled", 0, 0, k0.outcome, k0.asked))
      BY <1>2, <1>6 DEF SettleApproval
    <2>2. \A d \in Calls \ {c} : Locks(d) => k0.asked \cap calls[d].asked = {}
      BY <1>2, <1>6 DEF SettleApproval, RowFree, Locks
    <2>3. QED
      BY <1>5, <2>1, <2>2
  <1>7. CASE Revalidate(c) /\ ~Done(c)
    <2>1. Become(c, Call("Granting", 0, 0, k0.outcome, k0.asked)) /\ k0.at = "Settled"
      BY <1>2, <1>7 DEF Revalidate, At
    <2>2. k0.asked \subseteq Pending
      BY <1>2, <2>1 DEF AuthorityInv, RowLocks
    <2>3. \A d \in Calls \ {c} : Locks(d) => k0.asked \cap calls[d].asked = {}
      BY <1>2, <2>1 DEF AuthorityInv, RowLocks, Locks
    <2>4. QED
      BY <1>5, <2>1, <2>2, <2>3
  <1>8. QED
    BY <1>1, <1>6, <1>7

LEMMA BeginRecheckStep ==
    ASSUME AuthorityInv, NEW c \in Calls, BeginRecheck(c)
    PROVE  AuthorityInv'
  <1>1. PICK k : k = Call("Rechecking", 0, 0, "", {})
    OBVIOUS
  <1>2. k \in CallRecords /\ k.at = "Rechecking" /\ k.asked = {}
    BY <1>1, CallParts DEF Call, CallRecords
  <1>3. CallFits(k)
    BY <1>2 DEF CallFits, HoldsKnownRows, PricedWithinWords, RetiresProperly,
       RecordsTruly, AsksAtQuestion, RecheckRests, HoldsQuote, HoldsVersion
  <1>4. QED
    BY <1>1, <1>2, <1>3, CallMoves DEF BeginRecheck

\* A stage of the re-check that goes on with the quote and version of a record.
LEMMA RecheckGoesOn ==
    ASSUME AuthorityInv, UNCHANGED <<purchase, world>>, NEW c \in Calls,
           NEW at \in {"Comparing", "Consulting", "Seeking", "Answered"},
           NEW q \in DOMAIN quotes, NEW v \in DOMAIN policies, NEW o \in Outcomes,
           Become(c, Call(at, q, v, o, {})),
           \E i \in DOMAIN evaluations :
               /\ evaluations[i].quote = q /\ evaluations[i].version = v
               /\ at \in {"Seeking", "Answered"} => evaluations[i].decision # "BLOCKED",
           at = "Answered" => Allows(v, q) \/ Satisfying(q, v) # {}
    PROVE  AuthorityInv'
  <1>1. PICK k : k = Call(at, q, v, o, {})
    OBVIOUS
  <1>2. q \in Nat /\ v \in Nat
    BY RowsAreNumbered DEF AuthorityInv, RowsFit
  <1>3. k \in CallRecords /\ k.at = at /\ k.quote = q /\ k.version = v /\ k.asked = {}
    BY <1>1, <1>2, CallParts DEF Call, CallRecords
  <1>4. RecheckRests(k)
    BY <1>3 DEF RecheckRests, RecordOf
  <1>5. CallFits(k)
    BY <1>3, <1>4 DEF CallFits, HoldsKnownRows, PricedWithinWords, RetiresProperly,
       RecordsTruly, AsksAtQuestion, HoldsQuote, HoldsVersion
  <1>6. QED
    BY <1>1, <1>3, <1>5, CallMoves

LEMMA ReadRecordStep ==
    ASSUME AuthorityInv, NEW c \in Calls, ReadRecord(c)
    PROVE  AuthorityInv'
  <1>1. CASE Done(c)
    BY <1>1, CallEnds DEF ReadRecord
  <1>2. CASE evaluations # <<>>
    <2>1. PICK i, q, v : i = Len(evaluations) /\ q = Recorded.quote /\ v = Recorded.version
      OBVIOUS
    <2>2. i \in DOMAIN evaluations /\ evaluations[i].quote = q /\ evaluations[i].version = v
      BY <1>2, <2>1, RowsAreNumbered DEF Recorded, AuthorityInv, RowsFit
    <2>3. q \in DOMAIN quotes /\ v \in DOMAIN policies
      BY <2>2 DEF AuthorityInv, RowsFit, RowsRefer
    <2>4. Become(c, Call("Comparing", q, v, "", {})) /\ UNCHANGED <<purchase, world>>
      BY <1>2, <2>1 DEF ReadRecord
    <2>5. QED
      BY <2>2, <2>3, <2>4, RecheckGoesOn, CallParts
  <1>3. QED
    BY <1>1, <1>2 DEF ReadRecord

\* What a re-checking call has in hand.
LEMMA RecheckHas ==
    ASSUME AuthorityInv, NEW c \in Calls, NEW k, k = calls[c],
           k.at \in {"Comparing", "Consulting", "Seeking"}
    PROVE  /\ k.quote \in DOMAIN quotes /\ k.version \in DOMAIN policies /\ k.outcome \in Outcomes
           /\ \E i \in DOMAIN evaluations :
                 /\ evaluations[i].quote = k.quote /\ evaluations[i].version = k.version
                 /\ k.at = "Seeking" => evaluations[i].decision # "BLOCKED"
  <1>1. CallFits(k)
    BY DEF AuthorityInv, CallsFit
  <1>2. k.quote \in DOMAIN quotes /\ k.version \in DOMAIN policies /\ k.outcome \in Outcomes
    BY <1>1 DEF CallFits, HoldsKnownRows, HoldsQuote, HoldsVersion, CallRecords
  <1>3. QED
    BY <1>1, <1>2 DEF CallFits, RecheckRests, RecordOf

LEMMA ReadActiveQuoteStep ==
    ASSUME AuthorityInv, NEW c \in Calls, ReadActiveQuote(c)
    PROVE  AuthorityInv'
  <1>1. CASE Done(c)
    BY <1>1, CallEnds DEF ReadActiveQuote
  <1>2. CASE Become(c, Call("Consulting", calls[c].quote, calls[c].version, "", {}))
    <2>1. PICK k : k = calls[c]
      OBVIOUS
    <2>2. k.at = "Comparing" /\ UNCHANGED <<purchase, world>>
      BY <2>1 DEF ReadActiveQuote, At
    <2>3. /\ k.quote \in DOMAIN quotes /\ k.version \in DOMAIN policies
          /\ \E i \in DOMAIN evaluations :
                evaluations[i].quote = k.quote /\ evaluations[i].version = k.version
      BY <2>1, <2>2, RecheckHas
    <2>4. QED
      BY <1>2, <2>1, <2>2, <2>3, RecheckGoesOn, CallParts
  <1>3. QED
    BY <1>1, <1>2 DEF ReadActiveQuote

\* Today's verdict under the recorded version: what it does not block it did
\* not block when the evaluation was recorded.
LEMMA ConsultPolicyStep ==
    ASSUME AuthorityInv, NEW c \in Calls, ConsultPolicy(c)
    PROVE  AuthorityInv'
  <1>1. CASE Done(c)
    BY <1>1, CallEnds DEF ConsultPolicy
  <1>2. CASE ~Done(c)
    <2>1. PICK k, d : k = calls[c] /\ d = DecisionOn(k.quote)
      OBVIOUS
    <2>2. PICK at : at = IF d = "ALLOWED" THEN "Answered" ELSE "Seeking"
      OBVIOUS
    <2>3. /\ k.at = "Consulting" /\ UNCHANGED <<purchase, world>>
          /\ k.version = PolicyVersion /\ d # "BLOCKED"
          /\ Become(c, Call(at, k.quote, k.version, d, {}))
      BY <1>2, <2>1, <2>2 DEF ConsultPolicy, At
    <2>4. /\ k.quote \in DOMAIN quotes /\ k.version \in DOMAIN policies
          /\ \E i \in DOMAIN evaluations :
                evaluations[i].quote = k.quote /\ evaluations[i].version = k.version
      BY <2>1, <2>3, RecheckHas
    <2>5. d = EvaluatePolicy(quotes[k.quote], Quantity, policies[k.version])
      BY <2>1, <2>3 DEF DecisionOn
    <2>6. \E i \in DOMAIN evaluations :
             /\ evaluations[i].quote = k.quote /\ evaluations[i].version = k.version
             /\ evaluations[i].decision # "BLOCKED"
      BY <2>3, <2>4, <2>5 DEF AuthorityInv, RowsFit, BlockedStays, Blocks
    <2>7. d \in Decisions /\ d \in Outcomes
      BY <2>5, OnlyForceAllows DEF Outcomes
    <2>8. at = "Answered" => Allows(k.version, k.quote)
      <3>1. SUFFICES ASSUME d = "ALLOWED" PROVE Allows(k.version, k.quote)
        BY <2>2
      <3>2. policies[k.version] \in PolicyRows /\ policies[k.version].status = "ACTIVE"
        BY <2>4, <2>5, <3>1, OnlyForceAllows, RowsAreNumbered DEF AuthorityInv, RowsFit
      <3>3. [policies[k.version] EXCEPT !.status = "ACTIVE"] = policies[k.version]
        BY <3>2 DEF PolicyRows
      <3>4. QED
        BY <2>5, <3>1, <3>3 DEF Allows
    <2>9. QED
      BY <2>2, <2>3, <2>4, <2>6, <2>7, <2>8, RecheckGoesOn
  <1>3. QED
    BY <1>1, <1>2

LEMMA FindApprovalStep ==
    ASSUME AuthorityInv, NEW c \in Calls, FindApproval(c)
    PROVE  AuthorityInv'
  <1>1. CASE Done(c)
    BY <1>1, CallEnds DEF FindApproval
  <1>2. CASE ~Done(c)
    <2>1. PICK k : k = calls[c]
      OBVIOUS
    <2>2. /\ k.at = "Seeking" /\ UNCHANGED <<purchase, world>>
          /\ Satisfying(k.quote, k.version) # {}
          /\ Become(c, Call("Answered", k.quote, k.version, k.outcome, {}))
      BY <1>2, <2>1 DEF FindApproval, At
    <2>3. /\ k.quote \in DOMAIN quotes /\ k.version \in DOMAIN policies /\ k.outcome \in Outcomes
          /\ \E i \in DOMAIN evaluations :
                /\ evaluations[i].quote = k.quote /\ evaluations[i].version = k.version
                /\ evaluations[i].decision # "BLOCKED"
      BY <2>1, <2>2, RecheckHas
    <2>4. QED
      BY <2>2, <2>3, RecheckGoesOn
  <1>3. QED
    BY <1>1, <1>2

\* The ends that leave no trace.
LEMMA QuietEnds ==
    ASSUME AuthorityInv, NEW c \in Calls,
           \/ KeepQuote(c) \/ EvaluationRefused(c) \/ QuestionRefused(c) \/ UseAnswer(c)
           \/ Crash(c)
    PROVE  AuthorityInv'
  BY CallEnds DEF KeepQuote, EvaluationRefused, QuestionRefused, UseAnswer, Crash

-----------------------------------------------------------------------------
(* The steps that write. *)

\* What rows refer to is still there when no row but their own state changed.
LEMMA RefersStay ==
    ASSUME RowTypes, RowsRefer, BlockedStays, RowsGrow, evaluations' = evaluations,
           DOMAIN quotes' = DOMAIN quotes, DOMAIN approvals' = DOMAIN approvals,
           \A q \in DOMAIN quotes : quotes'[q].version = quotes[q].version
    PROVE  RowsRefer' /\ BlockedStays'
  <1>1. RowsRefer'
    BY DEF RowsRefer, RowsGrow, TotalAmount
  <1>2. BlockedStays'
    BY BlocksStays DEF BlockedStays, RowsRefer
  <1>3. QED
    BY <1>1, <1>2

LEMMA MapIsSequence ==
    ASSUME NEW S, NEW n \in Nat, NEW f \in [1 .. n -> S]
    PROVE  f \in Seq(S) /\ Len(f) = n
  OBVIOUS

\* Settling open rows: nothing but their status, and no answer is lost.
SettledFrom(rows, as, to) ==
    /\ rows \in Seq(ApprovalRows) /\ DOMAIN rows = DOMAIN approvals /\ Len(rows) = Len(approvals)
    /\ \A a \in DOMAIN approvals :
          /\ rows[a].quote = approvals[a].quote /\ rows[a].amount = approvals[a].amount
          /\ rows[a].version = approvals[a].version
          /\ rows[a].status = IF a \in as THEN to ELSE approvals[a].status
          /\ approvals[a].status \in {"CONSUMED", "REJECTED"} =>
                rows[a].status = approvals[a].status

LEMMA SettledRows ==
    ASSUME RowTypes, NEW as, as \subseteq Pending, NEW to \in ApprovalStatuses \ {"PENDING"},
           NEW rows, rows = SettleRows(as, to)
    PROVE  SettledFrom(rows, as, to)
  <1>1. rows = [a \in DOMAIN approvals |->
                   IF a \in as THEN [approvals[a] EXCEPT !.status = to] ELSE approvals[a]]
    BY DEF SettleRows
  <1>2. \A a \in DOMAIN approvals : approvals[a] \in ApprovalRows
    BY RowsAreNumbered
  <1>3. \A a \in DOMAIN approvals : rows[a] \in ApprovalRows
    BY <1>1, <1>2 DEF ApprovalRows
  <1>4. approvals \in Seq(ApprovalRows)
    BY DEF RowTypes
  <1>5. PICK n \in Nat : n = Len(approvals) /\ DOMAIN approvals = 1 .. n
    BY <1>4
  <1>6. rows \in [1 .. n -> ApprovalRows]
    BY <1>1, <1>3, <1>5
  <1>7. rows \in Seq(ApprovalRows) /\ Len(rows) = n
    BY <1>6, MapIsSequence
  <1>8. \A a \in DOMAIN approvals :
           /\ rows[a].quote = approvals[a].quote /\ rows[a].amount = approvals[a].amount
           /\ rows[a].version = approvals[a].version
           /\ rows[a].status = IF a \in as THEN to ELSE approvals[a].status
    BY <1>1, <1>2 DEF ApprovalRows
  <1>9. \A a \in as : approvals[a].status = "PENDING"
    BY DEF Pending
  <1>10. \A a \in DOMAIN approvals :
           approvals[a].status \in {"CONSUMED", "REJECTED"} => rows[a].status = approvals[a].status
    BY <1>8, <1>9
  <1>11. QED
    BY <1>5, <1>6, <1>7, <1>8, <1>10 DEF SettledFrom

LEMMA ProductChangesStep ==
    ASSUME AuthorityInv, ProductChanges
    PROVE  AuthorityInv'
  <1> USE DEF AuthorityInv, RowsFit
  <1>1. PICK facts \in Products :
            products' = Append(products, [facts EXCEPT !.version = Len(products) + 1])
    BY DEF ProductChanges
  <1>2. PICK row : row = [facts EXCEPT !.version = Len(products) + 1]
    OBVIOUS
  <1>3. products \in Seq(ProductRows) /\ Len(products) \in Nat
    BY DEF RowTypes
  <1>4. row \in ProductRows
    <2>1. facts \in ProductRows
      BY AuthorityAssumption DEF ProductRows
    <2>2. PICK n \in Nat : n = Len(products)
      BY <1>3
    <2>3. row = [facts EXCEPT !.version = n + 1] /\ n + 1 \in Int
      BY <1>2, <2>2
    <2>4. QED
      BY <2>1, <2>3 DEF ProductRows
  <1>5. products' = Append(products, row)
    BY <1>1, <1>2
  <1>6. /\ products' \in Seq(ProductRows) /\ products' # <<>>
        /\ DOMAIN products \subseteq DOMAIN products'
        /\ \A v \in DOMAIN products : products'[v] = products[v]
    BY <1>3, <1>4, <1>5
  <1>7. UNCHANGED <<status, quotes, evaluations, approvals, policies, calls>>
    BY DEF ProductChanges, purchase
  <1>8. RowsFit'
    <2>1. (RowTypes /\ RowsRefer /\ BlockedStays)'
      BY <1>6, <1>7 DEF RowTypes, RowsRefer, BlockedStays, Blocks
    <2>2. (NewestIsLive /\ NewestInForce /\ OneQuestion)'
      BY <1>7 DEF NewestIsLive, ActiveQuotes, NewestInForce, OneQuestion, Pending
    <2>3. (QuestionHasRecord /\ OpenStands)'
      BY <1>7 DEF QuestionHasRecord, OpenStands, Pending, WasAnswered
    <2>4. (RejectionIsFinal /\ QuotesWithinBudget)'
      BY <1>7 DEF RejectionIsFinal, QuotesWithinBudget
    <2>5. QED
      BY <1>7, <2>1, <2>2, <2>3, <2>4
  <1>9. RowsGrow /\ QuestionKept
    BY <1>6, <1>7 DEF RowsGrow, QuestionKept
  <1>10. \A d \in Calls : calls'[d].at \in {"Settled", "Granting"} => calls'[d].asked \subseteq Pending'
    BY <1>7 DEF RowLocks, Pending
  <1>11. QED
    BY <1>7, <1>8, <1>9, <1>10, RowsMove

\* The buyer's terms change: only the status of the older policies does.
LEMMA PoliciesMove ==
    ASSUME AuthorityInv, UNCHANGED <<purchase, products, calls>>,
           policies' \in Seq(PolicyRows), policies' # <<>>, NewestInForce',
           DOMAIN policies \subseteq DOMAIN policies',
           \A v \in DOMAIN policies :
               \/ policies'[v] = policies[v]
               \/ policies'[v] = [policies[v] EXCEPT !.status = "SUPERSEDED"]
    PROVE  AuthorityInv'
  <1> USE DEF AuthorityInv, RowsFit
  <1>1. UNCHANGED <<status, quotes, evaluations, approvals>>
    BY DEF purchase
  <1>2. RowsGrow /\ QuestionKept
    BY <1>1 DEF RowsGrow, QuestionKept
  <1>3. RowTypes'
    BY <1>1 DEF RowTypes
  <1>4. (RowsRefer /\ BlockedStays)'
    BY <1>1, <1>2, RefersStay
  <1>5. (NewestIsLive /\ OneQuestion)'
    BY <1>1 DEF NewestIsLive, ActiveQuotes, OneQuestion, Pending
  <1>6. (QuestionHasRecord /\ OpenStands)'
    BY <1>1 DEF QuestionHasRecord, OpenStands, Pending, WasAnswered
  <1>7. (RejectionIsFinal /\ QuotesWithinBudget)'
    BY <1>1 DEF RejectionIsFinal, QuotesWithinBudget
  <1>8. \A d \in Calls : calls'[d].at \in {"Settled", "Granting"} => calls'[d].asked \subseteq Pending'
    BY <1>1 DEF RowLocks, Pending
  <1>9. QED
    BY <1>1, <1>2, <1>3, <1>4, <1>5, <1>6, <1>7, <1>8, RowsMove

LEMMA PolicyRevisedStep ==
    ASSUME AuthorityInv, PolicyRevised
    PROVE  AuthorityInv'
  <1>1. PICK terms \in PolicyTerms :
            policies' = Append([v \in DOMAIN policies |->
                                   [policies[v] EXCEPT !.status = "SUPERSEDED"]], terms)
    BY DEF PolicyRevised
  <1>2. PICK old : old = [v \in DOMAIN policies |-> [policies[v] EXCEPT !.status = "SUPERSEDED"]]
    OBVIOUS
  <1>3. policies \in Seq(PolicyRows) /\ \A v \in DOMAIN policies : policies[v] \in PolicyRows
    BY RowsAreNumbered DEF AuthorityInv, RowsFit, RowTypes
  <1>4. PICK n \in Nat : n = Len(policies) /\ DOMAIN policies = 1 .. n
    BY <1>3
  <1>5. \A v \in 1 .. n :
           old[v] \in PolicyRows /\ old[v] = [policies[v] EXCEPT !.status = "SUPERSEDED"]
           /\ old[v].status = "SUPERSEDED"
    BY <1>2, <1>3, <1>4 DEF PolicyRows
  <1>6. old \in Seq(PolicyRows) /\ Len(old) = n
    <2>1. old \in [1 .. n -> PolicyRows]
      BY <1>2, <1>4, <1>5
    <2>2. QED
      BY <2>1
  <1>7. terms \in PolicyRows
    BY AuthorityAssumption DEF PolicyRows
  <1>8. /\ policies' \in Seq(PolicyRows) /\ policies' # <<>>
        /\ Len(policies') = n + 1 /\ DOMAIN policies' = 1 .. n + 1
        /\ \A v \in 1 .. n : policies'[v] = old[v]
    BY <1>1, <1>2, <1>6, <1>7
  <1>9. NewestInForce'
    <2>1. \A v \in 1 .. n : policies'[v].status = "SUPERSEDED"
      BY <1>5, <1>8
    <2>2. \A v \in 1 .. n + 1 : v # n + 1 => v \in 1 .. n
      OBVIOUS
    <2>3. \A v \in DOMAIN policies' : policies'[v].status = "ACTIVE" => v = n + 1
      BY <1>8, <2>1, <2>2
    <2>4. QED
      BY <1>8, <2>3 DEF NewestInForce
  <1>10. DOMAIN policies \subseteq DOMAIN policies'
    BY <1>4, <1>8
  <1>11. \A v \in DOMAIN policies : policies'[v] = [policies[v] EXCEPT !.status = "SUPERSEDED"]
    BY <1>4, <1>5, <1>8
  <1>12. QED
    BY <1>8, <1>9, <1>10, <1>11, PoliciesMove DEF PolicyRevised

LEMMA PolicyWithdrawnStep ==
    ASSUME AuthorityInv, PolicyWithdrawn
    PROVE  AuthorityInv'
  <1>1. PICK n : n = Len(policies)
    OBVIOUS
  <1>2. /\ policies \in Seq(PolicyRows) /\ policies # <<>> /\ n \in DOMAIN policies
        /\ policies[n] \in PolicyRows
    BY <1>1, RowsAreNumbered DEF AuthorityInv, RowsFit, RowTypes
  <1>3. policies' = [policies EXCEPT ![n].status = "SUPERSEDED"]
    BY <1>1, PolicyIsTheNewest DEF PolicyWithdrawn, AuthorityInv, RowsFit
  <1>4. [policies[n] EXCEPT !.status = "SUPERSEDED"] \in PolicyRows
    BY <1>2 DEF PolicyRows
  <1>5. /\ policies' \in Seq(PolicyRows) /\ policies' # <<>>
        /\ Len(policies') = n /\ DOMAIN policies' = DOMAIN policies
        /\ \A v \in DOMAIN policies \ {n} : policies'[v] = policies[v]
        /\ policies'[n] = [policies[n] EXCEPT !.status = "SUPERSEDED"]
    BY <1>1, <1>2, <1>3, <1>4
  <1>6. NewestInForce'
    BY <1>1, <1>5 DEF NewestInForce, AuthorityInv, RowsFit
  <1>7. QED
    BY <1>5, <1>6, PoliciesMove DEF PolicyWithdrawn

\* An applied event is one move of the lifecycle.
LEMMA TakenMove ==
    ASSUME NEW s, NEW e, NEW a, Takes(s, e, a)
    PROVE  \E t \in Transitions : t.from = s /\ t.event = e /\ After(s, e, a) = t.to
  BY ResolveApplies DEF Takes, After

\* No answer and no open question was lost where the questions are untouched.
LEMMA LocksStay ==
    ASSUME AuthorityInv, approvals' = approvals, calls' = calls \/ \E c \in Calls : Done(c)
    PROVE  \A d \in Calls :
              calls'[d].at \in {"Settled", "Granting"} => calls'[d].asked \subseteq Pending'
  <1>1. \A d \in Calls : calls'[d] = calls[d] \/ calls'[d] = Idle
    BY DEF Done, Become, AuthorityInv, CallsFit
  <1>2. \A d \in Calls : calls'[d].at \in {"Settled", "Granting"} => calls'[d] = calls[d]
    BY <1>1, IdleFits
  <1>3. Pending' = Pending
    BY DEF Pending
  <1>4. QED
    BY <1>2, <1>3 DEF AuthorityInv, RowLocks

LEMMA MoveByOthersStep ==
    ASSUME AuthorityInv, NEW m \in OtherMoves, MoveByOthers(m)
    PROVE  AuthorityInv'
  <1> USE DEF AuthorityInv, RowsFit
  <1>1. PICK t \in Transitions : t.from = status /\ t.event = m[1] /\ status' = t.to
    BY TakenMove DEF MoveByOthers
  <1>2. m[1] \notin {"POLICY_REQUIRES_APPROVAL", "APPROVAL_GRANTED", "APPROVAL_REJECTED",
                    "APPROVAL_EXPIRED", "TRANSACTION_CANCELLED"}
    BY AuthorityAssumption
  <1>3. /\ status # "APPROVAL_REQUIRED" /\ status # "CANCELLED"
        /\ status' # "APPROVAL_REQUIRED" /\ status' \in TransactionStates
    <2>1. t.from \notin TerminalStates /\ t.to \in TransactionStates
      BY TransitionsType
    <2>2. t.from # "APPROVAL_REQUIRED" /\ t.to # "APPROVAL_REQUIRED"
      BY <1>1, <1>2, ApprovalEdges
    <2>3. QED
      BY <1>1, <2>1, <2>2 DEF TerminalStates
  <1>4. UNCHANGED <<quotes, evaluations, approvals, products, policies, calls>>
    BY DEF MoveByOthers, world
  <1>5. (RowTypes /\ RowsRefer /\ BlockedStays)'
    BY <1>4 DEF RowTypes, RowsRefer, BlockedStays, Blocks
  <1>6. (NewestIsLive /\ NewestInForce /\ OneQuestion /\ QuotesWithinBudget)'
    BY <1>4 DEF NewestIsLive, ActiveQuotes, NewestInForce, OneQuestion, Pending, QuotesWithinBudget
  <1>7. (QuestionHasRecord /\ OpenStands /\ RejectionIsFinal)'
    BY <1>3, <1>4 DEF QuestionHasRecord, OpenStands, Pending, WasAnswered, RejectionIsFinal
  <1>8. RowsGrow /\ QuestionKept
    BY <1>3, <1>4 DEF RowsGrow, QuestionKept
  <1>9. QED
    BY <1>3, <1>4, <1>5, <1>6, <1>7, <1>8, LocksStay, RowsMove

LEMMA IssueQuoteStep ==
    ASSUME AuthorityInv, NEW c \in Calls, IssueQuote(c)
    PROVE  AuthorityInv'
  <1> USE DEF AuthorityInv, RowsFit
  <1>1. PICK k : k = calls[c]
    OBVIOUS
  <1>2. k.at = "Pricing" /\ HoldsKnownRows(k) /\ PricedWithinWords(k)
    BY <1>1 DEF IssueQuote, At, CallsFit, CallFits
  <1>3. PICK t \in Transitions : t.from = status /\ t.event = "QUOTE_ISSUED" /\ status' = t.to
    BY TakenMove DEF IssueQuote, MayIssue
  <1>4. /\ status \in {"PRODUCT_VERIFIED", "QUOTE_CREATED", "PAYMENT_FAILED"}
        /\ status' = "QUOTE_CREATED" /\ status' \in TransactionStates
    BY <1>3, RequoteEdges, TransitionsType
  <1>5. UNCHANGED <<evaluations, approvals, products, policies>> /\ Done(c)
    BY DEF IssueQuote, world
  <1>6. PICK v : v = k.version
    OBVIOUS
  <1>7. v \in DOMAIN products /\ v \in Nat /\ products[v] \in ProductRows
    BY <1>2, <1>6, RowsAreNumbered DEF PricedWithinWords
  <1>8. PICK old, new :
            /\ old = [q \in DOMAIN quotes |->
                         IF q \in ActiveQuotes
                           THEN [quotes[q] EXCEPT !.status = "SUPERSEDED"] ELSE quotes[q]]
            /\ new = Quote(v, k.outcome = "retry")
            /\ quotes' = Append(old, new)
    BY <1>1, <1>6 DEF IssueQuote, Supersedable
  <1>9. /\ new \in QuoteRows /\ new.unit = products[v].unit /\ new.version = v
        /\ new.status = "ACTIVE" /\ (~new.retry => k.outcome # "retry")
    <2>1. new = [unit |-> products[v].unit, currency |-> products[v].currency, version |-> v,
                 retry |-> (k.outcome = "retry"), status |-> "ACTIVE", lapsed |-> FALSE]
      BY <1>8 DEF Quote
    <2>2. /\ products[v].unit \in Int /\ products[v].currency \in STRING
          /\ "ACTIVE" \in QuoteStatuses
      BY <1>7 DEF ProductRows, QuoteStatuses
    <2>3. QED
      BY <1>7, <2>1, <2>2 DEF QuoteRows
  <1>10. PICK n \in Nat : n = Len(quotes) /\ DOMAIN quotes = 1 .. n
    BY DEF RowTypes
  <1>11. \A q \in 1 .. n :
            /\ old[q] \in QuoteRows /\ old[q].status # "ACTIVE"
            /\ old[q].unit = quotes[q].unit /\ old[q].currency = quotes[q].currency
            /\ old[q].version = quotes[q].version /\ old[q].retry = quotes[q].retry
    <2>1. \A q \in 1 .. n : quotes[q] \in QuoteRows
      BY <1>10, RowsAreNumbered
    <2>2. \A q \in 1 .. n : q \notin ActiveQuotes => quotes[q].status # "ACTIVE"
      BY <1>10 DEF ActiveQuotes
    <2>3. QED
      BY <1>8, <1>10, <2>1, <2>2 DEF QuoteRows, QuoteStatuses
  <1>12. old \in Seq(QuoteRows) /\ Len(old) = n
    BY <1>8, <1>10, <1>11, MapIsSequence
  <1>13. /\ quotes' \in Seq(QuoteRows) /\ Len(quotes') = n + 1 /\ DOMAIN quotes' = 1 .. n + 1
         /\ quotes'[n + 1] = new /\ \A q \in 1 .. n : quotes'[q] = old[q]
    BY <1>8, <1>9, <1>12
  <1>14. \A q \in DOMAIN quotes' : q = n + 1 \/ q \in DOMAIN quotes
    BY <1>10, <1>13
  <1>15. RowsGrow /\ QuestionKept
    BY <1>4, <1>5, <1>10, <1>11, <1>13 DEF RowsGrow, QuestionKept
  <1>16. RowTypes'
    BY <1>5, <1>13 DEF RowTypes
  <1>17. RowsRefer'
    <2>1. \A q \in DOMAIN quotes' : quotes'[q].version \in DOMAIN products'
      BY <1>5, <1>7, <1>9, <1>10, <1>11, <1>13, <1>14 DEF RowsRefer
    <2>2. QED
      BY <1>5, <1>15, <2>1 DEF RowsRefer, RowsGrow, TotalAmount
  <1>18. BlockedStays'
    BY <1>5, <1>15, BlocksStays DEF BlockedStays, RowsRefer
  <1>19. NewestIsLive'
    <2>1. \A q \in DOMAIN quotes' : quotes'[q].status = "ACTIVE" => q = n + 1
      BY <1>10, <1>11, <1>13, <1>14
    <2>2. quotes'[n + 1].status # "SUPERSEDED"
      BY <1>9, <1>13
    <2>3. QED
      BY <1>13, <2>1, <2>2 DEF NewestIsLive, ActiveQuotes
  <1>20. (NewestInForce /\ OneQuestion)'
    BY <1>5 DEF NewestInForce, OneQuestion, Pending
  <1>21. (QuestionHasRecord /\ OpenStands /\ RejectionIsFinal)'
    BY <1>4, <1>5 DEF QuestionHasRecord, OpenStands, Pending, WasAnswered, RejectionIsFinal
  <1>22. QuotesWithinBudget'
    <2>1. ~new.retry => WithinWords(products[v])
      BY <1>2, <1>6, <1>9 DEF PricedWithinWords
    <2>2. ~new.retry => WithinWords(new)
      BY <1>9, <2>1 DEF WithinWords
    <2>3. \A q \in 1 .. n : ~old[q].retry => WithinWords(old[q])
      BY <1>10, <1>11 DEF QuotesWithinBudget, WithinWords
    <2>4. QED
      BY <1>10, <1>13, <1>14, <2>2, <2>3 DEF QuotesWithinBudget
  <1>23. QED
    BY <1>4, <1>5, <1>15, <1>16, <1>17, <1>18, <1>19, <1>20, <1>21, <1>22, LocksStay, RowsMove

\* A live or retired quote changes its own state only.
LEMMA QuoteMoves ==
    ASSUME AuthorityInv, UNCHANGED <<status, evaluations, world>>,
           NEW q \in DOMAIN quotes, NEW row \in QuoteRows, quotes' = [quotes EXCEPT ![q] = row],
           row.unit = quotes[q].unit, row.currency = quotes[q].currency,
           row.version = quotes[q].version, row.retry = quotes[q].retry,
           row.status \in {"EXPIRED", "INVALIDATED", quotes[q].status},
           approvals' \in Seq(ApprovalRows), DOMAIN approvals' = DOMAIN approvals,
           \A a \in DOMAIN approvals :
               /\ approvals'[a].quote = approvals[a].quote
               /\ approvals'[a].amount = approvals[a].amount
               /\ approvals'[a].version = approvals[a].version
               /\ approvals'[a].status = approvals[a].status,
           calls' = calls \/ \E c \in Calls : Done(c)
    PROVE  AuthorityInv'
  <1> USE DEF AuthorityInv, RowsFit
  <1>1. PICK n \in Nat : n = Len(quotes) /\ DOMAIN quotes = 1 .. n
    BY DEF RowTypes
  <1>2. /\ quotes' \in Seq(QuoteRows) /\ Len(quotes') = n /\ DOMAIN quotes' = 1 .. n
        /\ quotes'[q] = row /\ \A r \in 1 .. n : r # q => quotes'[r] = quotes[r]
    BY <1>1 DEF RowTypes
  <1>3. UNCHANGED <<products, policies>>
    BY DEF world
  <1>4. RowsGrow /\ QuestionKept
    BY <1>1, <1>2, <1>3 DEF RowsGrow, QuestionKept
  <1>5. RowTypes'
    BY <1>2, <1>3 DEF RowTypes
  <1>6. (RowsRefer /\ BlockedStays)'
    BY <1>1, <1>2, <1>4, RefersStay
  <1>7. NewestIsLive'
    <2>1. \A r \in 1 .. n : quotes'[r].status = "ACTIVE" => quotes[r].status = "ACTIVE"
      BY <1>1, <1>2
    <2>2. \A r \in 1 .. n : quotes'[r].status = "SUPERSEDED" => quotes[r].status = "SUPERSEDED"
      BY <1>1, <1>2
    <2>3. ActiveQuotes' \subseteq {n}
      BY <1>1, <1>2, <2>1 DEF NewestIsLive, ActiveQuotes
    <2>4. quotes # <<>> /\ n \in 1 .. n
      BY <1>1 DEF RowTypes
    <2>5. QED
      BY <1>1, <1>2, <2>2, <2>3, <2>4 DEF NewestIsLive
  <1>8. Pending' = Pending /\ WasAnswered' = WasAnswered
    BY DEF Pending, WasAnswered
  <1>9. (NewestInForce /\ OneQuestion)'
    BY <1>3, <1>8 DEF NewestInForce, OneQuestion
  <1>10. QuestionHasRecord' /\ OpenStands'
    <2>1. Pending \subseteq DOMAIN approvals
      BY DEF Pending
    <2>2. QED
      BY <1>1, <1>2, <1>8, <2>1 DEF QuestionHasRecord, OpenStands
  <1>11. RejectionIsFinal'
    BY DEF RejectionIsFinal
  <1>12. QuotesWithinBudget'
    BY <1>1, <1>2 DEF QuotesWithinBudget, WithinWords
  <1>13. \A d \in Calls : calls'[d].at \in {"Settled", "Granting"} => calls'[d].asked \subseteq Pending'
    <2>1. \A d \in Calls : calls'[d] = calls[d] \/ calls'[d] = Idle
      BY DEF Done, Become, CallsFit
    <2>2. \A d \in Calls : calls'[d].at \in {"Settled", "Granting"} => calls'[d] = calls[d]
      BY <2>1, IdleFits
    <2>3. QED
      BY <1>8, <2>2 DEF RowLocks
  <1>14. QED
    BY <1>4, <1>5, <1>6, <1>7, <1>9, <1>10, <1>11, <1>12, <1>13, RowsMove

LEMMA RetireQuoteStep ==
    ASSUME AuthorityInv, NEW c \in Calls, RetireQuote(c)
    PROVE  AuthorityInv'
  <1> USE DEF AuthorityInv, RowsFit
  <1>1. PICK k : k = calls[c]
    OBVIOUS
  <1>2. k.at = "Retiring" /\ HoldsKnownRows(k) /\ RetiresProperly(k)
    BY <1>1 DEF RetireQuote, At, CallsFit, CallFits
  <1>3. PICK q, o : q = k.quote /\ o = k.outcome
    OBVIOUS
  <1>4. q \in DOMAIN quotes /\ o \in {"EXPIRED", "INVALIDATED"}
    BY <1>2, <1>3 DEF HoldsKnownRows, HoldsQuote, RetiresProperly, QuoteStatuses
  <1>5. quotes[q] \in QuoteRows
    BY <1>4, RowsAreNumbered
  <1>6. PICK row : row = [quotes[q] EXCEPT !.status = o]
    OBVIOUS
  <1>7. /\ row \in QuoteRows /\ row.status = o /\ row.unit = quotes[q].unit
        /\ row.currency = quotes[q].currency /\ row.version = quotes[q].version
        /\ row.retry = quotes[q].retry
    BY <1>4, <1>5, <1>6 DEF QuoteRows, QuoteStatuses
  <1>8. quotes' = [quotes EXCEPT ![q] = row]
    BY <1>1, <1>3, <1>6 DEF RetireQuote
  <1>9. UNCHANGED <<status, evaluations, approvals, world>> /\ Done(c)
    BY DEF RetireQuote
  <1>10. approvals \in Seq(ApprovalRows)
    BY DEF RowTypes
  <1>11. QED
    BY <1>4, <1>7, <1>8, <1>9, <1>10, QuoteMoves

LEMMA QuoteLapsesStep ==
    ASSUME AuthorityInv, NEW q \in DOMAIN quotes, QuoteLapses(q)
    PROVE  AuthorityInv'
  <1> USE DEF AuthorityInv, RowsFit
  <1>1. quotes[q] \in QuoteRows /\ \A a \in DOMAIN approvals : approvals[a] \in ApprovalRows
    BY RowsAreNumbered
  <1>2. PICK row : row = [quotes[q] EXCEPT !.lapsed = TRUE]
    OBVIOUS
  <1>3. /\ row \in QuoteRows /\ row.status = quotes[q].status /\ row.unit = quotes[q].unit
        /\ row.currency = quotes[q].currency /\ row.version = quotes[q].version
        /\ row.retry = quotes[q].retry
    BY <1>1, <1>2 DEF QuoteRows
  <1>4. quotes' = [quotes EXCEPT ![q] = row]
    BY <1>2 DEF QuoteLapses
  <1>5. PICK n \in Nat : n = Len(approvals) /\ DOMAIN approvals = 1 .. n
    BY DEF RowTypes
  <1>6. \A a \in 1 .. n :
           /\ approvals'[a] \in ApprovalRows
           /\ approvals'[a].quote = approvals[a].quote /\ approvals'[a].amount = approvals[a].amount
           /\ approvals'[a].version = approvals[a].version
           /\ approvals'[a].status = approvals[a].status
    <2>1. TAKE a \in 1 .. n
    <2>2. PICK was \in BOOLEAN : approvals'[a] = [approvals[a] EXCEPT !.closed = was]
      <3>1. approvals'[a] = [approvals[a] EXCEPT !.closed = approvals[a].closed \/ approvals[a].quote = q]
        BY <1>5 DEF QuoteLapses
      <3>2. (approvals[a].closed \/ approvals[a].quote = q) \in BOOLEAN
        OBVIOUS
      <3>3. QED
        BY <3>1, <3>2
    <2>3. QED
      BY <1>1, <1>5, <2>2 DEF ApprovalRows
  <1>7. DOMAIN approvals' = 1 .. n /\ approvals' = [a \in 1 .. n |-> approvals'[a]]
    BY <1>5 DEF QuoteLapses
  <1>8. approvals' \in Seq(ApprovalRows)
    <2>1. approvals' \in [1 .. n -> ApprovalRows]
      BY <1>6, <1>7
    <2>2. QED
      BY <2>1, MapIsSequence
  <1>9. UNCHANGED <<status, evaluations, world, calls>>
    BY DEF QuoteLapses
  <1>10. QED
    BY <1>3, <1>4, <1>5, <1>6, <1>7, <1>8, <1>9, QuoteMoves

LEMMA WindowClosesStep ==
    ASSUME AuthorityInv, NEW a \in DOMAIN approvals, WindowCloses(a)
    PROVE  AuthorityInv'
  <1> USE DEF AuthorityInv, RowsFit
  <1>1. approvals[a] \in ApprovalRows
    BY RowsAreNumbered
  <1>2. PICK row : row = [approvals[a] EXCEPT !.closed = TRUE]
    OBVIOUS
  <1>3. /\ row \in ApprovalRows /\ row.quote = approvals[a].quote
        /\ row.amount = approvals[a].amount /\ row.version = approvals[a].version
        /\ row.status = approvals[a].status
    BY <1>1, <1>2 DEF ApprovalRows
  <1>4. approvals' = [approvals EXCEPT ![a] = row] /\ approvals \in Seq(ApprovalRows)
    BY <1>2 DEF WindowCloses, RowTypes
  <1>5. /\ approvals' \in Seq(ApprovalRows) /\ DOMAIN approvals' = DOMAIN approvals
        /\ \A b \in DOMAIN approvals :
              /\ approvals'[b].quote = approvals[b].quote
              /\ approvals'[b].amount = approvals[b].amount
              /\ approvals'[b].version = approvals[b].version
              /\ approvals'[b].status = approvals[b].status
    BY <1>3, <1>4
  <1>6. UNCHANGED <<status, quotes, evaluations, products, policies, calls>>
    BY DEF WindowCloses, world
  <1>7. RowTypes' /\ RowsGrow /\ QuestionKept
    BY <1>5, <1>6 DEF RowTypes, RowsGrow, QuestionKept
  <1>8. (RowsRefer /\ BlockedStays)'
    BY <1>5, <1>6, <1>7, RefersStay
  <1>9. Pending' = Pending /\ WasAnswered' = WasAnswered
    BY <1>5 DEF Pending, WasAnswered
  <1>10. (NewestIsLive /\ NewestInForce /\ OneQuestion /\ QuotesWithinBudget)'
    BY <1>6, <1>9 DEF NewestIsLive, ActiveQuotes, NewestInForce, OneQuestion, QuotesWithinBudget
  <1>11. (QuestionHasRecord /\ OpenStands /\ RejectionIsFinal)'
    <2>1. Pending \subseteq DOMAIN approvals
      BY DEF Pending
    <2>2. QED
      BY <1>5, <1>6, <1>9, <2>1 DEF QuestionHasRecord, OpenStands, RejectionIsFinal
  <1>12. \A d \in Calls : calls'[d].at \in {"Settled", "Granting"} => calls'[d].asked \subseteq Pending'
    BY <1>6, <1>9 DEF RowLocks
  <1>13. QED
    BY <1>6, <1>7, <1>8, <1>10, <1>11, <1>12, RowsMove

\* Open questions are settled by the call that ends.
LEMMA SettleMoves ==
    ASSUME AuthorityInv, NEW c \in Calls, Done(c), UNCHANGED <<quotes, evaluations, world>>,
           NEW as, as \subseteq Pending, NEW to \in {"EXPIRED", "CONSUMED", "REJECTED"},
           approvals' = SettleRows(as, to),
           \/ to = "EXPIRED" /\ status' = status
           \/ /\ as # {} /\ status = "APPROVAL_REQUIRED"
              /\ \/ to = "CONSUMED" /\ status' = "AUTHORIZED"
                 \/ to = "REJECTED" /\ status' = "CANCELLED",
           \A d \in Calls \ {c} : Locks(d) => as \cap calls[d].asked = {}
    PROVE  AuthorityInv'
  <1> USE DEF AuthorityInv, RowsFit
  <1>1. PICK rows : rows = SettleRows(as, to)
    OBVIOUS
  <1>2. to \in ApprovalStatuses \ {"PENDING"}
    BY DEF ApprovalStatuses
  <1>3. /\ rows \in Seq(ApprovalRows) /\ DOMAIN rows = DOMAIN approvals
        /\ \A a \in DOMAIN approvals :
              /\ rows[a].quote = approvals[a].quote /\ rows[a].amount = approvals[a].amount
              /\ rows[a].version = approvals[a].version
              /\ rows[a].status = IF a \in as THEN to ELSE approvals[a].status
              /\ approvals[a].status \in {"CONSUMED", "REJECTED"} =>
                    rows[a].status = approvals[a].status
    <2>1. SettledFrom(rows, as, to)
      BY <1>1, <1>2, SettledRows
    <2>2. QED
      BY <2>1 DEF SettledFrom
  <1>4. approvals' = rows
    BY <1>1
  <1>5. UNCHANGED <<products, policies>>
    BY DEF world
  <1>6. RowTypes' /\ RowsGrow
    BY <1>3, <1>4, <1>5 DEF RowTypes, RowsGrow
  <1>7. (RowsRefer /\ BlockedStays)'
    BY <1>3, <1>4, <1>6, RefersStay
  <1>8. Pending' = Pending \ as
    BY <1>2, <1>3, <1>4 DEF Pending
  <1>9. to # "EXPIRED" => WasAnswered'
    <2>1. SUFFICES ASSUME to # "EXPIRED" PROVE WasAnswered'
      OBVIOUS
    <2>2. PICK a \in as : TRUE
      BY <2>1
    <2>3. a \in DOMAIN approvals
      BY <2>2 DEF Pending
    <2>4. rows[a].status = to
      BY <1>3, <2>2, <2>3
    <2>5. QED
      BY <1>3, <1>4, <2>1, <2>3, <2>4 DEF WasAnswered
  <1>10. QuestionKept /\ QuestionHasRecord'
    BY <1>9 DEF QuestionKept, QuestionHasRecord
  <1>11. (NewestIsLive /\ NewestInForce /\ OneQuestion /\ QuotesWithinBudget)'
    BY <1>5, <1>8 DEF NewestIsLive, ActiveQuotes, NewestInForce, OneQuestion, QuotesWithinBudget
  <1>12. OpenStands'
    <2>1. CASE WasAnswered'
      BY <2>1 DEF OpenStands
    <2>2. CASE ~WasAnswered'
      <3>1. status' = status /\ ~WasAnswered
        BY <1>6, <1>9, <2>2, AnswersStay
      <3>2. \A a \in Pending' : a \in Pending /\ a \in DOMAIN approvals
        BY <1>8 DEF Pending
      <3>3. QED
        BY <1>3, <1>4, <3>1, <3>2 DEF OpenStands
    <2>3. QED
      BY <2>1, <2>2
  <1>13. RejectionIsFinal'
    BY <1>3, <1>4 DEF RejectionIsFinal
  <1>14. status' \in TransactionStates
    BY DEF TransactionStates, TerminalStates
  <1>15. \A d \in Calls : calls'[d].at \in {"Settled", "Granting"} => calls'[d].asked \subseteq Pending'
    <2>1. SUFFICES ASSUME NEW d \in Calls, calls'[d].at \in {"Settled", "Granting"}
                   PROVE  calls'[d].asked \subseteq Pending'
      OBVIOUS
    <2>2. calls'[c] = Idle /\ \A e \in Calls \ {c} : calls'[e] = calls[e]
      BY DEF Done, Become, CallsFit
    <2>3. d # c /\ calls'[d] = calls[d]
      BY <2>1, <2>2, IdleFits
    <2>4. calls[d].asked \subseteq Pending /\ as \cap calls[d].asked = {}
      BY <2>1, <2>3 DEF RowLocks, Locks
    <2>5. QED
      BY <1>8, <2>3, <2>4
  <1>16. QED
    BY <1>6, <1>7, <1>10, <1>11, <1>12, <1>13, <1>14, <1>15, RowsMove

LEMMA ReadForQuestionStep ==
    ASSUME AuthorityInv, NEW c \in Calls, ReadForQuestion(c)
    PROVE  AuthorityInv'
  <1>1. PICK s : s = calls[c].asked \cap Pending
    OBVIOUS
  <1>2. CASE Pending = s /\ \E q \in ActiveQuotes : Usability(q) = "VALID"
    <2>1. /\ \E q \in ActiveQuotes :
                Become(c, Call("Asked", q, Recorded.version, "", calls[c].asked \cap Pending))
          /\ UNCHANGED approvals
      BY <1>1, <1>2 DEF ReadForQuestion
    <2>2. QED
      BY <2>1, QuestionPreparedStep
  <1>3. CASE ~(Pending = s /\ \E q \in ActiveQuotes : Usability(q) = "VALID")
    <2>1. /\ approvals' = SettleRows(s, "EXPIRED") /\ Done(c)
          /\ UNCHANGED <<status, quotes, evaluations, world>>
      BY <1>1, <1>3 DEF ReadForQuestion
    <2>2. \A d \in Calls \ {c} : Locks(d) => s \cap calls[d].asked = {}
      BY <1>1 DEF ReadForQuestion, RowFree, Locks
    <2>3. QED
      BY <1>1, <2>1, <2>2, SettleMoves
  <1>4. QED
    BY <1>2, <1>3

\* What a call that answers holds: open questions that no other call has written.
LEMMA AnswerHolds ==
    ASSUME AuthorityInv, NEW c \in Calls, calls[c].at \in {"Settled", "Granting"}
    PROVE  /\ calls[c].asked \subseteq Pending /\ calls[c].asked # {}
           /\ \A d \in Calls \ {c} : Locks(d) => calls[c].asked \cap calls[d].asked = {}
  BY DEF AuthorityInv, CallsFit, CallFits, HoldsKnownRows, RowLocks, Locks

LEMMA RejectStep ==
    ASSUME AuthorityInv, NEW c \in Calls, Reject(c)
    PROVE  AuthorityInv'
  <1>1. CASE ~RejectionTaken
    BY <1>1, CallEnds DEF Reject, purchase
  <1>2. CASE RejectionTaken
    <2>1. status = "APPROVAL_REQUIRED" /\ status' = "CANCELLED"
      BY <1>2, TakenMove, ApprovalEdges DEF Reject, RejectionTaken
    <2>2. approvals' = SettleRows(calls[c].asked, "REJECTED") /\ Done(c)
      BY <1>2 DEF Reject
    <2>3. UNCHANGED <<quotes, evaluations, world>> /\ calls[c].at = "Settled"
      BY DEF Reject, At
    <2>4. QED
      BY <2>1, <2>2, <2>3, AnswerHolds, SettleMoves
  <1>3. QED
    BY <1>1, <1>2

LEMMA GrantStep ==
    ASSUME AuthorityInv, NEW c \in Calls, Grant(c)
    PROVE  AuthorityInv'
  <1>1. CASE ~Takes(status, "APPROVAL_GRANTED", "approval_gate")
    BY <1>1, CallEnds DEF Grant, purchase
  <1>2. CASE Takes(status, "APPROVAL_GRANTED", "approval_gate")
    <2>1. status = "APPROVAL_REQUIRED" /\ status' = "AUTHORIZED"
      BY <1>2, TakenMove, ApprovalEdges DEF Grant
    <2>2. approvals' = SettleRows(calls[c].asked, "CONSUMED") /\ Done(c)
      BY <1>2 DEF Grant
    <2>3. UNCHANGED <<quotes, evaluations, world>> /\ calls[c].at = "Granting"
      BY DEF Grant, At
    <2>4. QED
      BY <2>1, <2>2, <2>3, AnswerHolds, SettleMoves
  <1>3. QED
    BY <1>1, <1>2

\* The one question that is open is the one just written, and until an answer
\* was given it stands at the question and is about the newest quote.
LEMMA OpenQuestionStep ==
    ASSUME AuthorityInv, NEW c \in Calls, OpenQuestion(c)
    PROVE  AuthorityInv'
  <1> USE DEF AuthorityInv, RowsFit
  <1>1. PICK k : k = calls[c]
    OBVIOUS
  <1>2. /\ k.at = "Asked" /\ k.asked = Pending /\ Locks(c)
        /\ HoldsKnownRows(k) /\ AsksAtQuestion(k)
    BY <1>1 DEF OpenQuestion, At, CallsFit, CallFits, Locks
  <1>3. PICK q, v : q = k.quote /\ v = k.version
    OBVIOUS
  <1>4. q \in DOMAIN quotes /\ v \in DOMAIN policies /\ q \in Nat /\ v \in Nat /\ quotes[q] \in QuoteRows
    BY <1>2, <1>3, RowsAreNumbered DEF HoldsKnownRows, HoldsQuote, HoldsVersion
  <1>5. PICK rows, row : /\ rows = SettleRows(Pending, "EXPIRED")
                         /\ row = Question(q, v) /\ approvals' = Append(rows, row)
    BY <1>1, <1>2, <1>3 DEF OpenQuestion
  <1>6. /\ row \in ApprovalRows /\ row.quote = q /\ row.version = v /\ row.status = "PENDING"
        /\ row.amount = TotalAmount(quotes[q].unit, Quantity)
    <2>1. quotes[q].unit * Quantity \in Int
      BY <1>4, AuthorityAssumption DEF QuoteRows
    <2>2. row = [quote |-> q, amount |-> quotes[q].unit * Quantity, version |-> v,
                 status |-> "PENDING", closed |-> FALSE]
      BY <1>5 DEF Question, TotalAmount
    <2>3. "PENDING" \in ApprovalStatuses
      BY DEF ApprovalStatuses
    <2>4. QED
      BY <1>4, <2>1, <2>2, <2>3 DEF ApprovalRows, TotalAmount
  <1>7. PICK n \in Nat : n = Len(approvals) /\ DOMAIN approvals = 1 .. n
    BY DEF RowTypes
  <1>8. /\ rows \in Seq(ApprovalRows) /\ Len(rows) = n /\ DOMAIN rows = 1 .. n
        /\ \A a \in 1 .. n :
              /\ rows[a].quote = approvals[a].quote /\ rows[a].amount = approvals[a].amount
              /\ rows[a].version = approvals[a].version
              /\ rows[a].status = IF a \in Pending THEN "EXPIRED" ELSE approvals[a].status
              /\ approvals[a].status \in {"CONSUMED", "REJECTED"} =>
                    rows[a].status = approvals[a].status
    <2>1. "EXPIRED" \in ApprovalStatuses \ {"PENDING"}
      BY DEF ApprovalStatuses
    <2>2. QED
      BY <1>5, <1>7, <2>1, SettledRows DEF SettledFrom
  <1>9. /\ approvals' \in Seq(ApprovalRows) /\ DOMAIN approvals' = 1 .. n + 1
        /\ approvals'[n + 1] = row /\ \A a \in 1 .. n : approvals'[a] = rows[a]
    BY <1>5, <1>6, <1>8
  <1>10. \A a \in DOMAIN approvals' : a = n + 1 \/ a \in 1 .. n
    BY <1>9
  <1>11. UNCHANGED <<status, quotes, evaluations, products, policies>> /\ Done(c)
    BY DEF OpenQuestion, world
  <1>12. RowTypes' /\ RowsGrow /\ QuestionKept
    BY <1>7, <1>8, <1>9, <1>11 DEF RowTypes, RowsGrow, QuestionKept
  <1>13. RowsRefer'
    BY <1>4, <1>6, <1>7, <1>8, <1>9, <1>10, <1>11 DEF RowsRefer
  <1>14. (BlockedStays /\ NewestIsLive /\ NewestInForce /\ QuotesWithinBudget /\ QuestionHasRecord)'
    BY <1>11 DEF BlockedStays, Blocks, NewestIsLive, ActiveQuotes, NewestInForce,
       QuotesWithinBudget, QuestionHasRecord
  <1>15. Pending' = {n + 1}
    <2>1. \A a \in 1 .. n : approvals'[a].status # "PENDING"
      BY <1>7, <1>8, <1>9 DEF Pending
    <2>2. QED
      BY <1>6, <1>9, <1>10, <2>1 DEF Pending
  <1>16. OneQuestion'
    BY <1>15 DEF OneQuestion
  <1>17. OpenStands'
    <2>1. SUFFICES ASSUME ~WasAnswered'
                   PROVE  status' = "APPROVAL_REQUIRED" /\ approvals'[n + 1].quote = Len(quotes')
      BY <1>15 DEF OpenStands
    <2>2. ~WasAnswered
      BY <1>12, <2>1, AnswersStay
    <2>3. QED
      BY <1>2, <1>3, <1>6, <1>9, <1>11, <2>2 DEF AsksAtQuestion
  <1>18. RejectionIsFinal'
    BY <1>6, <1>7, <1>8, <1>9, <1>10, <1>11 DEF RejectionIsFinal
  <1>19. \A d \in Calls : calls'[d].at \in {"Settled", "Granting"} => calls'[d].asked \subseteq Pending'
    <2>1. SUFFICES ASSUME NEW d \in Calls, calls'[d].at \in {"Settled", "Granting"}
                   PROVE  calls'[d].asked \subseteq Pending'
      OBVIOUS
    <2>2. calls'[c] = Idle /\ \A e \in Calls \ {c} : calls'[e] = calls[e]
      BY <1>11 DEF Done, Become, CallsFit
    <2>3. d # c /\ calls'[d] = calls[d]
      BY <2>1, <2>2, IdleFits
    <2>4. calls[d].asked \subseteq Pending /\ calls[c].asked \cap calls[d].asked = {}
      BY <1>2, <2>1, <2>3 DEF RowLocks, Locks
    <2>5. QED
      BY <1>1, <1>2, <2>3, <2>4
  <1>20. QED
    BY <1>11, <1>12, <1>13, <1>14, <1>16, <1>17, <1>18, <1>19, RowsMove

\* Record and moves commit together; a blocked record is one the policy, as it
\* stood when the call judged, did block.
LEMMA RecordEvaluationStep ==
    ASSUME AuthorityInv, NEW c \in Calls, RecordEvaluation(c)
    PROVE  AuthorityInv'
  <1> USE DEF AuthorityInv, RowsFit
  <1>1. PICK k : k = calls[c]
    OBVIOUS
  <1>2. k.at = "Recording" /\ HoldsKnownRows(k) /\ RecordsTruly(k)
    BY <1>1 DEF RecordEvaluation, At, CallsFit, CallFits
  <1>3. PICK q, v, o : q = k.quote /\ v = k.version /\ o = k.outcome
    OBVIOUS
  <1>4. /\ q \in DOMAIN quotes /\ v \in DOMAIN policies /\ q \in Nat /\ v \in Nat
        /\ o \in Decisions /\ (o = "BLOCKED" => Blocks(v, q))
    BY <1>2, <1>3, RowsAreNumbered DEF HoldsKnownRows, HoldsQuote, HoldsVersion, RecordsTruly
  <1>5. PICK e : e = Evaluation(q, v, o)
    OBVIOUS
  <1>6. e \in EvaluationRows /\ e.quote = q /\ e.version = v /\ e.decision = o
    BY <1>4, <1>5 DEF Evaluation, EvaluationRows
  <1>7. /\ evaluations' = IF RecordedAlready(e, q) THEN evaluations ELSE Append(evaluations, e)
        /\ UNCHANGED <<quotes, approvals, products, policies>> /\ Done(c)
    BY <1>1, <1>3, <1>5 DEF RecordEvaluation, world
  <1>8. PICK n \in Nat : n = Len(evaluations) /\ DOMAIN evaluations = 1 .. n
    BY DEF RowTypes
  <1>9. /\ evaluations' \in Seq(EvaluationRows) /\ evaluations' # <<>>
        /\ DOMAIN evaluations \subseteq DOMAIN evaluations'
        /\ \A i \in DOMAIN evaluations : evaluations'[i] = evaluations[i]
        /\ \A i \in DOMAIN evaluations' : i \in DOMAIN evaluations \/ evaluations'[i] = e
    <2>1. CASE RecordedAlready(e, q)
      <3>1. evaluations' = evaluations
        BY <1>7, <2>1
      <3>2. PICK i \in DOMAIN evaluations : TRUE
        BY <2>1 DEF RecordedAlready
      <3>3. evaluations # <<>>
        BY <1>8, <3>2
      <3>4. QED
        BY <3>1, <3>3 DEF RowTypes
    <2>2. CASE ~RecordedAlready(e, q)
      <3>1. evaluations' = Append(evaluations, e) /\ evaluations \in Seq(EvaluationRows)
        BY <1>7, <2>2 DEF RowTypes
      <3>2. /\ evaluations' \in Seq(EvaluationRows) /\ DOMAIN evaluations' = 1 .. n + 1
            /\ evaluations'[n + 1] = e /\ \A i \in 1 .. n : evaluations'[i] = evaluations[i]
        BY <1>6, <1>8, <3>1
      <3>3. evaluations' # <<>>
        BY <3>2
      <3>4. \A i \in 1 .. n + 1 : i \in 1 .. n \/ i = n + 1
        OBVIOUS
      <3>5. QED
        BY <1>8, <3>2, <3>3, <3>4
    <2>3. QED
      BY <2>1, <2>2
  <1>10. /\ status' \in TransactionStates
         /\ status' = status \/ status = "QUOTE_CREATED"
    <2>1. CASE AlreadyMoved(q)
      BY <1>1, <1>3, <2>1 DEF RecordEvaluation
    <2>2. CASE ~AlreadyMoved(q)
      <3>1. Takes(status, "POLICY_EVALUATION_COMPLETED", "policy_engine")
        BY <1>1, <1>3, <2>2 DEF RecordEvaluation
      <3>2. status = "QUOTE_CREATED"
        BY <3>1, TakenMove, RequoteEdges
      <3>3. Evaluated \in TransactionStates
        BY ResolveTo DEF Evaluated, After
      <3>4. \E event : status' = After(Evaluated, event, "policy_engine")
        BY <1>1, <1>3, <2>2 DEF RecordEvaluation
      <3>5. QED
        BY <3>2, <3>3, <3>4, ResolveTo DEF After
    <2>3. QED
      BY <2>1, <2>2
  <1>11. RowTypes' /\ RowsGrow /\ QuestionKept
    BY <1>7, <1>9, <1>10 DEF RowTypes, RowsGrow, QuestionKept
  <1>12. RowsRefer'
    BY <1>4, <1>6, <1>7, <1>9 DEF RowsRefer
  <1>13. BlockedStays'
    BY <1>4, <1>6, <1>7, <1>9 DEF BlockedStays, Blocks
  <1>14. (NewestIsLive /\ NewestInForce /\ OneQuestion /\ QuotesWithinBudget)'
    BY <1>7 DEF NewestIsLive, ActiveQuotes, NewestInForce, OneQuestion, Pending, QuotesWithinBudget
  <1>15. (QuestionHasRecord /\ OpenStands /\ RejectionIsFinal)'
    BY <1>7, <1>9, <1>10 DEF QuestionHasRecord, OpenStands, Pending, WasAnswered, RejectionIsFinal
  <1>16. QED
    BY <1>7, <1>10, <1>11, <1>12, <1>13, <1>14, <1>15, LocksStay, RowsMove

-----------------------------------------------------------------------------
(* The invariant. *)

LEMMA AuthorityStarts == Init => AuthorityInv
  <1> SUFFICES ASSUME Init PROVE AuthorityInv
    OBVIOUS
  <1>1. PICK facts \in Products : products = <<[facts EXCEPT !.version = 1]>>
    BY DEF Init
  <1>2. PICK terms \in PolicyTerms : policies = <<terms>>
    BY DEF Init
  <1>3. /\ status = "PRODUCT_VERIFIED" /\ quotes = <<>> /\ evaluations = <<>> /\ approvals = <<>>
        /\ calls = [c \in Calls |-> Idle]
    BY DEF Init
  <1>4. PICK row : row = [facts EXCEPT !.version = 1]
    OBVIOUS
  <1>5. row \in ProductRows
    <2>1. facts \in ProductRows
      BY AuthorityAssumption DEF ProductRows
    <2>2. QED
      BY <1>4, <2>1 DEF ProductRows
  <1>6. terms \in PolicyRows
    BY AuthorityAssumption DEF PolicyRows
  <1>7. products = <<row>> /\ products \in Seq(ProductRows) /\ products # <<>>
    BY <1>1, <1>4, <1>5
  <1>8. /\ policies \in Seq(PolicyRows) /\ policies # <<>>
        /\ DOMAIN policies = {1} /\ Len(policies) = 1
    BY <1>2, <1>6
  <1>9. DOMAIN quotes = {} /\ DOMAIN evaluations = {} /\ DOMAIN approvals = {} /\ Pending = {}
    BY <1>3 DEF Pending
  <1>10. RowTypes
    BY <1>3, <1>7, <1>8 DEF RowTypes
  <1>11. RowsRefer /\ BlockedStays /\ OneQuestion /\ OpenStands /\ QuotesWithinBudget
    BY <1>9 DEF RowsRefer, BlockedStays, OneQuestion, OpenStands, QuotesWithinBudget
  <1>12. NewestIsLive /\ NewestInForce
    BY <1>3, <1>8, <1>9 DEF NewestIsLive, ActiveQuotes, NewestInForce
  <1>13. status \in TransactionStates /\ QuestionHasRecord /\ RejectionIsFinal
    BY <1>3, <1>9 DEF TransactionStates, QuestionHasRecord, RejectionIsFinal
  <1>14. CallsFit
    <2>1. \A c \in Calls : calls[c] = Idle
      BY <1>3
    <2>2. Idle \in CallRecords
      BY IdleFits DEF CallFits, HoldsKnownRows
    <2>3. QED
      BY <1>3, <2>1, <2>2, IdleFits DEF CallsFit
  <1>15. RowLocks
    <2>1. \A c \in Calls : calls[c].at = "Idle"
      BY <1>3, IdleFits
    <2>2. QED
      BY <2>1 DEF RowLocks, Locks
  <1>16. QED
    BY <1>10, <1>11, <1>12, <1>13, <1>14, <1>15 DEF AuthorityInv, RowsFit

LEMMA AuthorityGoesOn == AuthorityInv /\ [Next]_vars => AuthorityInv'
  <1> SUFFICES ASSUME AuthorityInv, [Next]_vars PROVE AuthorityInv'
    OBVIOUS
  <1>1. CASE UNCHANGED vars
    <2>1. UNCHANGED <<purchase, world>> /\ calls' = calls
      BY <1>1 DEF vars, purchase, world
    <2>2. UNCHANGED <<status, products, policies, quotes, evaluations, approvals>>
      BY <1>1 DEF vars
    <2>3. RowsFit'
      <3>1. (RowTypes /\ RowsRefer /\ BlockedStays)'
        BY <2>2 DEF AuthorityInv, RowsFit, RowTypes, RowsRefer, BlockedStays, Blocks
      <3>2. (NewestIsLive /\ NewestInForce /\ OneQuestion)'
        BY <2>2 DEF AuthorityInv, RowsFit, NewestIsLive, ActiveQuotes, NewestInForce,
           OneQuestion, Pending
      <3>3. (QuestionHasRecord /\ OpenStands)'
        BY <2>2 DEF AuthorityInv, RowsFit, QuestionHasRecord, OpenStands, Pending, WasAnswered
      <3>4. (RejectionIsFinal /\ QuotesWithinBudget)'
        BY <2>2 DEF AuthorityInv, RowsFit, RejectionIsFinal, QuotesWithinBudget
      <3>5. QED
        BY <2>2, <3>1, <3>2, <3>3, <3>4 DEF AuthorityInv, RowsFit
    <2>4. RowsGrow /\ QuestionKept
      BY <2>2 DEF RowsGrow, QuestionKept
    <2>5. QED
      BY <2>1, <2>2, <2>3, <2>4, LocksStay, RowsMove
  <1>2. ASSUME NEW c \in Calls, Begin(c) PROVE AuthorityInv'
    BY <1>2, ReadProductStep, ValidateQuoteStep, BeginAskStep, BeginRecheckStep, PresentTokenStep
       DEF Begin
  <1>3. ASSUME NEW c \in Calls, GoOn(c) PROVE AuthorityInv'
    <2>1. CASE \/ KeepQuote(c) \/ EvaluationRefused(c) \/ QuestionRefused(c) \/ UseAnswer(c)
               \/ Crash(c)
      BY <2>1, QuietEnds
    <2>2. CASE IssueQuote(c) \/ RetireQuote(c) \/ RecordEvaluation(c) \/ LoadInputs(c)
      BY <2>2, IssueQuoteStep, RetireQuoteStep, RecordEvaluationStep, LoadInputsStep
    <2>3. CASE ReadForQuestion(c) \/ OpenQuestion(c) \/ SettleApproval(c) \/ Revalidate(c)
      BY <2>3, ReadForQuestionStep, OpenQuestionStep, SettleStep
    <2>4. CASE Reject(c) \/ Grant(c) \/ ReadRecord(c) \/ ReadActiveQuote(c)
      BY <2>4, RejectStep, GrantStep, ReadRecordStep, ReadActiveQuoteStep
    <2>5. CASE ConsultPolicy(c) \/ FindApproval(c)
      BY <2>5, ConsultPolicyStep, FindApprovalStep
    <2>6. QED
      BY <1>3, <2>1, <2>2, <2>3, <2>4, <2>5 DEF GoOn
  <1>4. CASE WorldStep
    BY <1>4, ProductChangesStep, PolicyRevisedStep, PolicyWithdrawnStep, QuoteLapsesStep,
       WindowClosesStep, MoveByOthersStep DEF WorldStep
  <1>5. QED
    BY <1>1, <1>2, <1>3, <1>4 DEF Next

THEOREM AuthorityHolds == Spec => []AuthorityInv
  <1>1. Init => AuthorityInv
    BY AuthorityStarts
  <1>2. AuthorityInv /\ [Next]_vars => AuthorityInv'
    BY AuthorityGoesOn
  <1>3. QED
    BY <1>1, <1>2, PTL DEF Spec

-----------------------------------------------------------------------------
(* The theorems. *)

\* A sequence of rows whose entries lie in a smaller set.
LEMMA NarrowSequence ==
    ASSUME NEW S, NEW T, NEW seq \in Seq(S), \A i \in DOMAIN seq : seq[i] \in T
    PROVE  seq \in Seq(T)
  <1>1. PICK n \in Nat : n = Len(seq) /\ DOMAIN seq = 1 .. n /\ seq = [i \in 1 .. n |-> seq[i]]
    OBVIOUS
  <1>2. seq \in [1 .. n -> T]
    BY <1>1
  <1>3. QED
    BY <1>2, MapIsSequence

LEMMA AtMostOne ==
    ASSUME NEW S, \A x, y \in S : x = y
    PROVE  Cardinality(S) <= 1
  <1>1. CASE S = {}
    BY <1>1, FS_EmptySet
  <1>2. CASE S # {}
    <2>1. PICK x \in S : TRUE
      BY <1>2
    <2>2. S = {x}
      BY <2>1
    <2>3. Cardinality({x}) = 1
      BY FS_Singleton
    <2>4. QED
      BY <2>2, <2>3
  <1>3. QED
    BY <1>1, <1>2

LEMMA TypesFollow == AuthorityInv => AuthorityTypeOK
  <1> SUFFICES ASSUME AuthorityInv PROVE AuthorityTypeOK
    OBVIOUS
  <1> USE DEF AuthorityInv, RowsFit
  <1>1. quotes \in Seq([unit : Int, currency : STRING, version : DOMAIN products,
                        retry : BOOLEAN, status : QuoteStatuses, lapsed : BOOLEAN])
    <2>1. quotes \in Seq(QuoteRows)
      BY DEF RowTypes
    <2>2. \A q \in DOMAIN quotes :
             quotes[q] \in [unit : Int, currency : STRING, version : DOMAIN products,
                            retry : BOOLEAN, status : QuoteStatuses, lapsed : BOOLEAN]
      BY RowsAreNumbered DEF QuoteRows, RowsRefer
    <2>3. QED
      BY <2>1, <2>2, NarrowSequence
  <1>2. evaluations \in Seq([quote : DOMAIN quotes, version : DOMAIN policies,
                             decision : Decisions])
    <2>1. evaluations \in Seq(EvaluationRows)
      BY DEF RowTypes
    <2>2. \A i \in DOMAIN evaluations :
             evaluations[i] \in [quote : DOMAIN quotes, version : DOMAIN policies,
                                 decision : Decisions]
      BY RowsAreNumbered DEF EvaluationRows, RowsRefer
    <2>3. QED
      BY <2>1, <2>2, NarrowSequence
  <1>3. approvals \in Seq([quote : DOMAIN quotes, amount : Int, version : DOMAIN policies,
                           status : ApprovalStatuses, closed : BOOLEAN])
    <2>1. approvals \in Seq(ApprovalRows)
      BY DEF RowTypes
    <2>2. \A a \in DOMAIN approvals :
             approvals[a] \in [quote : DOMAIN quotes, amount : Int, version : DOMAIN policies,
                               status : ApprovalStatuses, closed : BOOLEAN]
      BY RowsAreNumbered DEF ApprovalRows, RowsRefer
    <2>3. QED
      BY <2>1, <2>2, NarrowSequence
  <1>4. Cardinality(ActiveQuotes) <= 1
    <2>1. \A q, r \in ActiveQuotes : q = r
      BY DEF NewestIsLive
    <2>2. QED
      BY <2>1, AtMostOne
  <1>5. Cardinality(Pending) <= 1
    BY AtMostOne DEF OneQuestion
  <1>6. \A c \in Calls : calls[c].at \in Stages /\ calls[c].asked \subseteq DOMAIN approvals
    BY DEF CallsFit, CallFits, HoldsKnownRows, CallRecords
  <1>7. QED
    BY <1>1, <1>2, <1>3, <1>4, <1>5, <1>6 DEF AuthorityTypeOK

\* Rows, records and calls are always ones the schema and the services know,
\* with one live quote and one open question at most.
THEOREM AuthorityTypes == Spec => []AuthorityTypeOK
  BY AuthorityHolds, TypesFollow, PTL

\* However calls overlap, quotes are well formed and no first quote goes beyond
\* what the shopper said (quote-service, the comparison before issuing).
THEOREM QuotesStaySound == Spec => []QuotesAreSound
  <1>1. AuthorityInv => QuotesAreSound
    BY TypesFollow DEF AuthorityInv, RowsFit, QuotesAreSound
  <1>2. QED
    BY <1>1, AuthorityHolds, PTL

\* Whoever is told that a purchase is authorized (authorization-recheck) is told
\* so of a recorded evaluation, and of a policy or a consent for that amount.
THEOREM AnswersAreJustified == Spec => []AnswerIsJustified
  <1>1. AuthorityInv => AnswerIsJustified
    <2>1. SUFFICES ASSUME AuthorityInv, NEW c \in Calls, At(c, "Answered"),
                          NEW k, k = calls[c]
                   PROVE  /\ \E i \in DOMAIN evaluations :
                                /\ evaluations[i].quote = k.quote
                                /\ evaluations[i].version = k.version
                                /\ evaluations[i].decision # "BLOCKED"
                          /\ \/ Allows(k.version, k.quote)
                             \/ \E a \in DOMAIN approvals :
                                  /\ approvals[a].status = "CONSUMED"
                                  /\ approvals[a].version = k.version
                                  /\ approvals[a].quote = k.quote
                                  /\ approvals[a].amount
                                        = TotalAmount(quotes[k.quote].unit, Quantity)
      BY DEF AnswerIsJustified
    <2>2. k.at = "Answered" /\ RecheckRests(k)
      BY <2>1 DEF At, AuthorityInv, CallsFit, CallFits
    <2>3. QED
      BY <2>2 DEF RecheckRests, RecordOf, Satisfying
  <1>2. QED
    BY <1>1, AuthorityHolds, PTL

\* A rejected purchase is over (applyRejection: row and lifecycle, or neither).
THEOREM RejectionsAreFinal == Spec => []RejectionIsFinal
  <1>1. AuthorityInv => RejectionIsFinal
    BY DEF AuthorityInv, RowsFit
  <1>2. QED
    BY <1>1, AuthorityHolds, PTL

\* What the approval line says when it says that the page waits.
LEMMA WaitingWords ==
    ASSUME ApprovalLine = "WAITING"
    PROVE  Pending # {} /\ ~WasAnswered
  <1> DEFINE words == {approvals[a].status : a \in DOMAIN approvals}
             said == {i \in DOMAIN Precedence : Precedence[i] \in words}
             First(i) == \A j \in said : i <= j
  <1>1. /\ DOMAIN Precedence = {1, 2, 3, 4}
        /\ Precedence[1] = "CONSUMED" /\ Precedence[2] = "REJECTED"
        /\ Precedence[3] = "PENDING" /\ Precedence[4] = "EXPIRED"
    BY DEF Precedence
  <1>2. said # {}
    <2>1. UnaskedLine # "WAITING"
      BY DEF UnaskedLine
    <2>2. QED
      BY <2>1 DEF ApprovalLine
  <1>3. said \subseteq {1, 2, 3, 4}
    BY <1>1
  <1>4. \E i \in said : First(i)
    <2> HIDE DEF said
    <2>1. CASE 1 \in said
      BY <1>3, <2>1
    <2>2. CASE 1 \notin said /\ 2 \in said
      BY <1>3, <2>2
    <2>3. CASE 1 \notin said /\ 2 \notin said /\ 3 \in said
      BY <1>3, <2>3
    <2>4. CASE 1 \notin said /\ 2 \notin said /\ 3 \notin said
      <3>1. said = {4}
        BY <1>2, <1>3, <2>4
      <3>2. QED
        BY <3>1
    <2>5. QED
      BY <2>1, <2>2, <2>3, <2>4
  <1>5. PICK n : n = CHOOSE i \in said : First(i)
    OBVIOUS
  <1>6. n \in said /\ First(n)
    <2> HIDE DEF said, First
    <2>1. QED
      BY <1>4, <1>5
  <1>7. ApprovalLine = LineOf[Precedence[n]]
    BY <1>2, <1>5 DEF ApprovalLine
  <1>8. n = 3
    BY <1>1, <1>3, <1>6, <1>7 DEF LineOf
  <1>9. "PENDING" \in words /\ 1 \notin said /\ 2 \notin said
    BY <1>1, <1>6, <1>8
  <1>10. "CONSUMED" \notin words /\ "REJECTED" \notin words
    BY <1>1, <1>9
  <1>11. QED
    BY <1>9, <1>10 DEF Pending, WasAnswered

\* While the page waits for a person, the purchase stands at the question and
\* the trusted amount is the one asked about, unless its price was withdrawn.
THEOREM WaitingLineStaysTrue == Spec => []WaitingLineIsTrue
  <1>1. AuthorityInv => WaitingLineIsTrue
    <2> SUFFICES ASSUME AuthorityInv, ApprovalLine = "WAITING"
                 PROVE  /\ status = "APPROVAL_REQUIRED"
                        /\ \A a \in Pending, q \in TrustedQuotes :
                              \/ approvals[a].amount = TotalAmount(quotes[q].unit, Quantity)
                              \/ quotes[approvals[a].quote].status = "INVALIDATED"
      BY DEF WaitingLineIsTrue
    <2> USE DEF AuthorityInv, RowsFit
    <2>1. \A a \in Pending : status = "APPROVAL_REQUIRED" /\ approvals[a].quote = Len(quotes)
      BY WaitingWords DEF OpenStands
    <2>2. status = "APPROVAL_REQUIRED"
      BY <2>1, WaitingWords
    <2>3. ASSUME NEW a \in Pending, NEW q \in TrustedQuotes
          PROVE  \/ approvals[a].amount = TotalAmount(quotes[q].unit, Quantity)
                 \/ quotes[approvals[a].quote].status = "INVALIDATED"
      <3>1. PICK n : n = Len(quotes) /\ n = approvals[a].quote
        BY <2>1
      <3>2. /\ approvals[a].amount = TotalAmount(quotes[n].unit, Quantity)
            /\ n \in DOMAIN quotes
        BY <3>1 DEF RowsRefer, Pending
      <3>3. CASE ActiveQuotes # {}
        BY <3>1, <3>2, <3>3 DEF TrustedQuotes, NewestIsLive
      <3>4. CASE ActiveQuotes = {} /\ quotes[n].status # "INVALIDATED"
        <4>1. quotes[n].status \notin {"SUPERSEDED", "INVALIDATED"}
          <5>1. quotes # <<>>
            BY <3>2
          <5>2. QED
            BY <3>1, <3>4, <5>1 DEF NewestIsLive
        <4>2. q \in DOMAIN quotes /\ n <= q
          BY <3>2, <3>4, <4>1 DEF TrustedQuotes
        <4>3. PICK m \in Nat : m = Len(quotes) /\ DOMAIN quotes = 1 .. m
          BY DEF RowTypes
        <4>4. q = n
          <5>1. n = m /\ q \in 1 .. m
            BY <3>1, <4>2, <4>3
          <5>2. QED
            BY <4>2, <5>1
        <4>5. QED
          BY <3>2, <4>4
      <3>5. QED
        BY <3>1, <3>3, <3>4
    <2>4. QED
      BY <2>2, <2>3
  <1>2. QED
    BY <1>1, AuthorityHolds, PTL
=============================================================================
