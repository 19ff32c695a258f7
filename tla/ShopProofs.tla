----------------------------- MODULE ShopProofs -----------------------------
(***************************************************************************)
(* The agent's run and the decision about its proposal, for any catalog,   *)
(* any words, any reading of them, any time and call budgets and any       *)
(* number of submissions: a run keeps to its budget, and what is quoted is *)
(* what the shopper's words ask for.  Then the arithmetic of amounts it is *)
(* reckoned in.                                                            *)
(***************************************************************************)
EXTENDS Shop, Money, TransactionMachineProofs, TLAPS

-----------------------------------------------------------------------------
(* The run. *)

Sightings == [product : Products, unit : Nat, stock : Nat]

Runs ==
    [at : {"Extract", "Prefetch", "Select", "Ended"}, attempt : Nat, turn : Nat,
     spent : Nat, limit : Nat, calls : Nat, intent : Intents \cup {NoIntent},
     observed : SUBSET Sightings,
     outcome : {"", "ERROR", "CLARIFY", "NO_MATCH", "SELECTED"},
     product : Products \cup {NoProduct}]

TimeFits(r) ==
    /\ 1 <= r.attempt /\ r.attempt <= MaxAttempts /\ r.turn <= MaxIterations
    /\ r.spent <= OverallBudget /\ r.limit <= OverallBudget
    /\ r.limit > 0 => r.at \in {"Extract", "Select"}

\* The calls made so far: the attempts of the turns before, and those of this
\* turn, of which the last is under way or has not begun.
CallsFit(r) ==
    /\ r.at = "Extract" => r.turn = 0 /\ r.calls < r.attempt + (IF r.limit > 0 THEN 1 ELSE 0)
    /\ r.at = "Prefetch" => r.turn = 0 /\ r.calls <= MaxAttempts
    /\ r.at = "Select" =>
          r.calls < MaxAttempts * (r.turn + 1) + r.attempt + (IF r.limit > 0 THEN 1 ELSE 0)
    /\ r.at = "Ended" => r.calls = 0

\* What was read of the shopper's words is clear before it is acted on.
IntentFits(r) ==
    /\ r.at \in {"Prefetch", "Select"} \/ r.outcome = "SELECTED" =>
          r.intent \in Intents /\ ~NeedsClarification(r.intent)
    /\ r.outcome = "SELECTED" => r.at = "Ended" /\ r.product \in Products

RunFits(r) == r \in Runs /\ TimeFits(r) /\ CallsFit(r) /\ IntentFits(r)

AgentInv == catalog \in [Products -> Facts] /\ words \in WordSets /\ RunFits(run)

\* The budgets, and the product of two of them.
LEMMA Budgets ==
    /\ OverallBudget \in Nat /\ AttemptTimeout \in Nat /\ MinAttemptBudget \in Nat
    /\ MaxAttempts \in Nat /\ MaxIterations \in Nat
    /\ OverallBudget > 0 /\ AttemptTimeout > 0 /\ MinAttemptBudget > 0 /\ MaxAttempts > 0
    /\ MinAttemptBudget <= AttemptTimeout
  BY BuyerAgentAssumption

LEMMA Turns ==
    ASSUME NEW turn \in Nat
    PROVE  /\ MaxAttempts * (turn + 1) \in Nat
           /\ MaxAttempts * (turn + 1 + 1) = MaxAttempts * (turn + 1) + MaxAttempts
  BY Budgets

LEMMA TurnsBounded ==
    ASSUME NEW turn \in Nat, turn <= MaxIterations
    PROVE  MaxAttempts * (turn + 1) + MaxAttempts <= MaxAttempts * (MaxIterations + 2)
  BY Budgets, SMTT(30)

LEMMA RunFields ==
    ASSUME NEW r \in Runs
    PROVE  /\ r.attempt \in Nat /\ r.turn \in Nat /\ r.spent \in Nat /\ r.limit \in Nat
           /\ r.calls \in Nat /\ r.intent \in Intents \cup {NoIntent}
           /\ r.at \in {"Extract", "Prefetch", "Select", "Ended"}
           /\ r.observed \in SUBSET Sightings
           /\ r.product \in Products \cup {NoProduct}
  BY DEF Runs

LEMMA RunStarts ==
    RunFits(InitialRun)
  BY Budgets DEF RunFits, Runs, TimeFits, CallsFit, IntentFits, InitialRun

\* However a run ends, what it read stays with it.
LEMMA RunEnds ==
    ASSUME AgentInv, NEW outcome \in {"ERROR", "CLARIFY", "NO_MATCH", "SELECTED"},
           NEW product \in Products \cup {NoProduct},
           outcome = "SELECTED" => run.at = "Select" /\ product \in Products,
           End(outcome, product)
    PROVE  RunFits(run')
  <1>1. PICK r : r = run'
    OBVIOUS
  <1>2. r = [at |-> "Ended", attempt |-> 1, turn |-> 0, spent |-> 0, limit |-> 0,
             calls |-> 0, intent |-> run.intent, observed |-> run.observed,
             outcome |-> outcome, product |-> product]
    BY <1>1 DEF End, InitialRun
  <1>3. r \in Runs
    <2>1. run \in Runs
      BY DEF AgentInv, RunFits
    <2>2. QED
      BY <2>1, <1>2 DEF Runs
  <1>4. TimeFits(r) /\ CallsFit(r)
    BY <1>2, Budgets DEF TimeFits, CallsFit
  <1>5. IntentFits(r)
    BY <1>2 DEF IntentFits, RunFits, AgentInv
  <1>6. QED
    BY <1>1, <1>3, <1>4, <1>5 DEF RunFits

\* A failed attempt gives way to the next one, or ends the run.
LEMMA AttemptFails ==
    ASSUME AgentInv, Waiting, NEW t \in Nat, t <= OverallBudget, NEW retryable \in BOOLEAN,
           FailedAt(t, retryable)
    PROVE  RunFits(run')
  <1>1. CASE Fail
    BY <1>1, RunEnds DEF Fail
  <1>2. CASE ~Fail
    <2>1. run \in Runs
      BY DEF AgentInv, RunFits
    <2>2. PICK pause \in {0, 1} :
              run' = [run EXCEPT !.spent = IF pause > OverallBudget - t THEN t ELSE t + pause,
                                 !.limit = 0, !.attempt = @ + 1]
      BY <1>2 DEF FailedAt
    <2>3. run.attempt # MaxAttempts
      BY <1>2 DEF FailedAt
    <2>4. PICK spent \in Nat :
              /\ spent <= OverallBudget
              /\ run' = [run EXCEPT !.spent = spent, !.limit = 0, !.attempt = @ + 1]
      <3>1. PICK spent : spent = IF pause > OverallBudget - t THEN t ELSE t + pause
        OBVIOUS
      <3>2. spent \in Nat /\ spent <= OverallBudget
        BY <3>1, Budgets
      <3>3. run' = [run EXCEPT !.spent = spent, !.limit = 0, !.attempt = @ + 1]
        BY <2>2, <3>1, Zenon
      <3>4. QED
        BY <3>2, <3>3
    <2>5. PICK r : r = run'
      OBVIOUS
    <2>6. r = [at |-> run.at, attempt |-> run.attempt + 1, turn |-> run.turn,
               spent |-> spent, limit |-> 0, calls |-> run.calls, intent |-> run.intent,
               observed |-> run.observed, outcome |-> run.outcome, product |-> run.product]
      BY <2>1, <2>4, <2>5 DEF Runs
    <2>7. r \in Runs
      <3>1. run.attempt + 1 \in Nat
        BY <2>1, RunFields
      <3>2. QED
        BY <2>1, <2>6, <3>1 DEF Runs
    <2>8. TimeFits(r)
      BY <2>1, <2>3, <2>4, <2>6, RunFields, Budgets DEF TimeFits, AgentInv, RunFits
    <2>9. CallsFit(r)
      <3>1. run.limit > 0 /\ run.at \in {"Extract", "Select"}
        BY DEF Waiting, Asking
      <3>2. PICK m \in Nat : m = MaxAttempts * (run.turn + 1)
        BY <2>1, RunFields, Turns
      <3>3. /\ run.at = "Extract" => run.turn = 0 /\ run.calls < run.attempt + 1
            /\ run.at = "Select" => run.calls < m + run.attempt + 1
        BY <3>1, <3>2 DEF AgentInv, RunFits, CallsFit
      <3>4. /\ run.at = "Extract" => run.turn = 0 /\ run.calls < run.attempt + 1 + 0
            /\ run.at = "Select" => run.calls < m + (run.attempt + 1) + 0
        BY <2>1, <3>3, RunFields
      <3>5. QED
        BY <2>6, <3>1, <3>2, <3>4 DEF CallsFit
    <2>10. IntentFits(r)
      BY <2>6 DEF IntentFits, RunFits, AgentInv
    <2>11. QED
      BY <2>5, <2>7, <2>8, <2>9, <2>10 DEF RunFits
  <1>3. QED
    BY <1>1, <1>2

LEMMA BeginAttemptFits ==
    ASSUME AgentInv, BeginAttempt
    PROVE  RunFits(run')
  <1>1. CASE Fail
    BY <1>1, RunEnds DEF Fail
  <1>2. CASE ~Fail
    <2>1. run \in Runs /\ TimeFits(run)
      BY DEF AgentInv, RunFits
    <2>2. /\ Remaining >= MinAttemptBudget
          /\ run' = [run EXCEPT !.limit = run.spent + AttemptBudget, !.calls = @ + 1]
      BY <1>2, <2>1, RunFields, Budgets DEF BeginAttempt, Remaining
    <2>3. PICK limit \in Nat :
              /\ limit > 0 /\ limit <= OverallBudget
              /\ run' = [run EXCEPT !.limit = limit, !.calls = @ + 1]
      <3>1. run.spent \in Nat /\ run.spent <= OverallBudget
        BY <2>1, RunFields DEF TimeFits
      <3>2. /\ AttemptBudget \in Nat /\ AttemptBudget > 0
            /\ run.spent + AttemptBudget <= OverallBudget
        BY <2>2, <3>1, Budgets DEF AttemptBudget, Remaining
      <3>3. PICK limit : limit = run.spent + AttemptBudget
        OBVIOUS
      <3>4. limit \in Nat /\ limit > 0 /\ limit <= OverallBudget
        BY <3>1, <3>2, <3>3, Budgets
      <3>5. run' = [run EXCEPT !.limit = limit, !.calls = @ + 1]
        BY <2>2, <3>3, Zenon
      <3>6. QED
        BY <3>4, <3>5
    <2>4. PICK r : r = run'
      OBVIOUS
    <2>5. r = [at |-> run.at, attempt |-> run.attempt, turn |-> run.turn,
               spent |-> run.spent, limit |-> limit, calls |-> run.calls + 1,
               intent |-> run.intent, observed |-> run.observed,
               outcome |-> run.outcome, product |-> run.product]
      BY <2>1, <2>3, <2>4 DEF Runs
    <2>6. run.at \in {"Extract", "Select"} /\ run.limit = 0
      BY <2>1, RunFields DEF BeginAttempt, Waiting, Asking
    <2>7. r \in Runs
      <3>1. run.calls + 1 \in Nat
        BY <2>1, RunFields
      <3>2. QED
        BY <2>1, <2>5, <3>1 DEF Runs
    <2>8. TimeFits(r)
      BY <2>1, <2>3, <2>5, <2>6 DEF TimeFits
    <2>9. CallsFit(r)
      <3>1. PICK m \in Nat : m = MaxAttempts * (run.turn + 1)
        BY <2>1, RunFields, Turns
      <3>2. /\ run.at = "Extract" => run.turn = 0 /\ run.calls < run.attempt + 0
            /\ run.at = "Select" => run.calls < m + run.attempt + 0
        BY <2>6, <3>1 DEF AgentInv, RunFits, CallsFit
      <3>3. /\ run.at = "Extract" => run.turn = 0 /\ run.calls + 1 < run.attempt + 1
            /\ run.at = "Select" => run.calls + 1 < m + run.attempt + 1
        BY <2>1, <3>2, RunFields
      <3>4. QED
        BY <2>3, <2>5, <2>6, <3>1, <3>3 DEF CallsFit
    <2>10. IntentFits(r)
      BY <2>5 DEF IntentFits, RunFits, AgentInv
    <2>11. QED
      BY <2>4, <2>7, <2>8, <2>9, <2>10 DEF RunFits
  <1>3. QED
    BY <1>1, <1>2

\* An answer comes before the attempt is given up.
LEMMA MomentsFit ==
    ASSUME AgentInv, NEW t \in Moments
    PROVE  t \in Nat /\ t <= OverallBudget
  <1>1. run \in Runs /\ TimeFits(run)
    BY DEF AgentInv, RunFits
  <1>2. run.spent \in Nat /\ run.limit \in Nat /\ run.limit <= OverallBudget
    BY <1>1, RunFields DEF TimeFits
  <1>3. QED
    BY <1>2, Budgets DEF Moments

LEMMA FailureFits ==
    ASSUME AgentInv, ProviderFails \/ AttemptTimesOut
    PROVE  RunFits(run')
  <1>1. CASE ProviderFails
    <2>1. PICK t \in Moments, retryable \in BOOLEAN : FailedAt(t, retryable)
      BY <1>1 DEF ProviderFails
    <2>2. QED
      BY <1>1, <2>1, MomentsFit, AttemptFails DEF ProviderFails
  <1>2. CASE AttemptTimesOut
    <2>1. run \in Runs /\ TimeFits(run)
      BY DEF AgentInv, RunFits
    <2>2. PICK t : t = run.limit
      OBVIOUS
    <2>3. t \in Nat /\ t <= OverallBudget
      BY <2>1, <2>2, RunFields DEF TimeFits
    <2>4. FailedAt(t, TRUE)
      BY <1>2, <2>2 DEF AttemptTimesOut
    <2>5. QED
      BY <1>2, <2>3, <2>4, AttemptFails DEF AttemptTimesOut
  <1>3. QED
    BY <1>1, <1>2

LEMMA ExtractFits ==
    ASSUME AgentInv, ExtractIntent
    PROVE  RunFits(run')
  <1>1. CASE Fail
    BY <1>1, RunEnds DEF Fail
  <1>2. CASE ~Fail
    <2>1. PICK t \in Moments, intent \in Intents :
              IF NeedsClarification(intent)
                THEN run' = [InitialRun EXCEPT !.at = "Ended", !.outcome = "CLARIFY",
                                               !.intent = intent]
                ELSE run' = [Answered(t) EXCEPT !.at = "Prefetch", !.intent = intent]
      BY <1>2 DEF ExtractIntent
    <2>2. t \in Nat /\ t <= OverallBudget
      BY MomentsFit
    <2>3. run \in Runs /\ TimeFits(run) /\ CallsFit(run) /\ run.limit > 0 /\ run.at = "Extract"
      BY DEF AgentInv, RunFits, ExtractIntent, Waiting
    <2>4. PICK r : r = run'
      OBVIOUS
    <2>5. CASE NeedsClarification(intent)
      <3>1. r = [at |-> "Ended", attempt |-> 1, turn |-> 0, spent |-> 0, limit |-> 0,
                 calls |-> 0, intent |-> intent, observed |-> {},
                 outcome |-> "CLARIFY", product |-> NoProduct]
        BY <2>1, <2>4, <2>5 DEF InitialRun
      <3>2. r \in Runs
        BY <3>1 DEF Runs
      <3>3. TimeFits(r) /\ CallsFit(r) /\ IntentFits(r)
        BY <3>1, Budgets DEF TimeFits, CallsFit, IntentFits
      <3>4. QED
        BY <2>4, <3>2, <3>3 DEF RunFits
    <2>6. CASE ~NeedsClarification(intent)
      <3>1. r = [at |-> "Prefetch", attempt |-> 1, turn |-> run.turn, spent |-> t,
                 limit |-> 0, calls |-> run.calls, intent |-> intent,
                 observed |-> run.observed, outcome |-> run.outcome,
                 product |-> run.product]
        BY <2>1, <2>3, <2>4, <2>6 DEF Answered, Runs
      <3>2. r \in Runs
        BY <2>2, <2>3, <3>1 DEF Runs
      <3>3. TimeFits(r)
        BY <2>2, <2>3, <3>1, Budgets DEF TimeFits
      <3>4. CallsFit(r)
        <4>1. run.turn = 0 /\ run.calls < run.attempt + 1 /\ run.attempt <= MaxAttempts
          BY <2>3 DEF CallsFit, TimeFits
        <4>2. run.calls <= MaxAttempts
          BY <2>3, <4>1, RunFields, Budgets
        <4>3. QED
          BY <3>1, <4>1, <4>2 DEF CallsFit
      <3>5. IntentFits(r)
        <4>1. run.outcome # "SELECTED"
          BY <2>3 DEF AgentInv, RunFits, IntentFits
        <4>2. QED
          BY <2>6, <3>1, <4>1 DEF IntentFits
      <3>6. QED
        BY <2>4, <3>2, <3>3, <3>4, <3>5 DEF RunFits
    <2>7. QED
      BY <2>5, <2>6
  <1>3. QED
    BY <1>1, <1>2

\* What a search or a lookup shows is what the catalog says of products.
LEMMA ObservedFits ==
    ASSUME AgentInv, NEW seen \in SUBSET Products
    PROVE  Observe(seen) \in SUBSET Sightings
  <1>1. run.observed \in SUBSET Sightings
    <2>1. run \in Runs
      BY DEF AgentInv, RunFits
    <2>2. QED
      BY <2>1, RunFields
  <1>2. ASSUME NEW p \in seen
        PROVE  Sighting(p) \in Sightings
    <2>1. catalog[p] \in [unit : Nat, stock : Nat, listed : BOOLEAN]
      BY BuyerAgentAssumption DEF AgentInv
    <2>2. QED
      BY <2>1 DEF Sighting, Sightings
  <1>3. QED
    BY <1>1, <1>2 DEF Observe

LEMMA PrefetchFits ==
    ASSUME AgentInv, PrefetchCandidates
    PROVE  RunFits(run')
  <1>1. run \in Runs /\ TimeFits(run) /\ CallsFit(run) /\ run.at = "Prefetch"
    BY DEF AgentInv, RunFits, PrefetchCandidates
  <1>2. PICK seen \in SUBSET Products :
            run' = [run EXCEPT !.at = "Select", !.observed = Observe(seen)]
    BY DEF PrefetchCandidates, Search
  <1>3. PICK observed \in SUBSET Sightings :
            run' = [run EXCEPT !.at = "Select", !.observed = observed]
    BY <1>2, ObservedFits
  <1>4. PICK r : r = run'
    OBVIOUS
  <1>5. r = [at |-> "Select", attempt |-> run.attempt, turn |-> run.turn,
             spent |-> run.spent, limit |-> run.limit, calls |-> run.calls,
             intent |-> run.intent, observed |-> observed,
             outcome |-> run.outcome, product |-> run.product]
    BY <1>1, <1>3, <1>4 DEF Runs
  <1>6. r \in Runs
    BY <1>1, <1>5 DEF Runs
  <1>7. TimeFits(r)
    BY <1>1, <1>5 DEF TimeFits
  <1>8. CallsFit(r)
    <2>1. run.turn = 0 /\ run.calls <= MaxAttempts /\ 1 <= run.attempt /\ ~(run.limit > 0)
      BY <1>1 DEF CallsFit, TimeFits
    <2>2. run.calls < MaxAttempts * (run.turn + 1) + run.attempt + 0
      BY <1>1, <2>1, RunFields, Budgets
    <2>3. QED
      BY <1>5, <2>1, <2>2 DEF CallsFit
  <1>9. IntentFits(r)
    BY <1>1, <1>5 DEF IntentFits, RunFits, AgentInv
  <1>10. QED
    BY <1>4, <1>6, <1>7, <1>8, <1>9 DEF RunFits

LEMMA UseToolsFits ==
    ASSUME AgentInv, UseTools
    PROVE  RunFits(run')
  <1>1. CASE Fail
    BY <1>1, RunEnds DEF Fail
  <1>2. CASE ~Fail
    <2>1. PICK t \in Moments, asked \in ModelRequests :
              /\ run.turn # MaxIterations
              /\ run' = [Answered(t) EXCEPT !.turn = @ + 1,
                                            !.observed = Observe(ToolShows(asked))]
      BY <1>2 DEF UseTools
    <2>2. t \in Nat /\ t <= OverallBudget
      BY MomentsFit
    <2>3. run \in Runs /\ TimeFits(run) /\ CallsFit(run) /\ run.limit > 0 /\ run.at = "Select"
      BY DEF AgentInv, RunFits, UseTools, Waiting
    <2>4. PICK observed \in SUBSET Sightings :
              run' = [Answered(t) EXCEPT !.turn = @ + 1, !.observed = observed]
      <3>1. ToolShows(asked) \in SUBSET Products
        BY BuyerAgentAssumption DEF ToolShows
      <3>2. QED
        BY <2>1, <3>1, ObservedFits
    <2>5. PICK r : r = run'
      OBVIOUS
    <2>6. r = [at |-> "Select", attempt |-> 1, turn |-> run.turn + 1, spent |-> t,
               limit |-> 0, calls |-> run.calls, intent |-> run.intent,
               observed |-> observed, outcome |-> run.outcome, product |-> run.product]
      BY <2>3, <2>4, <2>5 DEF Answered, Runs
    <2>7. r \in Runs
      <3>1. run.turn + 1 \in Nat
        BY <2>3, RunFields
      <3>2. QED
        BY <2>2, <2>3, <2>6, <3>1 DEF Runs
    <2>8. TimeFits(r)
      <3>1. run.turn + 1 <= MaxIterations
        BY <2>1, <2>3, RunFields, Budgets DEF TimeFits
      <3>2. QED
        BY <2>2, <2>6, <3>1, Budgets DEF TimeFits
    <2>9. CallsFit(r)
      <3>1. PICK m \in Nat : /\ m = MaxAttempts * (run.turn + 1)
                             /\ MaxAttempts * (run.turn + 1 + 1) = m + MaxAttempts
        BY <2>3, RunFields, Turns
      <3>2. run.calls < m + run.attempt + 1 /\ run.attempt <= MaxAttempts
        BY <2>3, <3>1 DEF CallsFit, TimeFits
      <3>3. run.calls < (m + MaxAttempts) + 1 + 0
        BY <2>3, <3>2, RunFields, Budgets
      <3>4. QED
        BY <2>6, <3>1, <3>3 DEF CallsFit
    <2>10. IntentFits(r)
      BY <2>3, <2>6 DEF IntentFits, RunFits, AgentInv
    <2>11. QED
      BY <2>5, <2>7, <2>8, <2>9, <2>10 DEF RunFits
  <1>3. QED
    BY <1>1, <1>2

LEMMA ProposeFits ==
    ASSUME AgentInv, Propose
    PROVE  RunFits(run')
  <1>1. PICK outcome \in {"ERROR", "CLARIFY", "NO_MATCH", "SELECTED"},
             product \in Products \cup {NoProduct} :
            /\ outcome = "SELECTED" => product \in Products
            /\ End(outcome, product)
    BY DEF Propose, Fail
  <1>2. QED
    BY <1>1, RunEnds DEF Propose

\* The words stay what they are, and so does what they say of a limit.
LEMMA FitsNext ==
    ASSUME words' = words, RunFits(run')
    PROVE  RunFits(run)'
  BY DEF RunFits, IntentFits, TimeFits, CallsFit, NeedsClarification, HasLimit, Verified,
         CeilingStated, LockedAuthority

LEMMA AgentStepFits ==
    ASSUME AgentInv, AgentStep
    PROVE  AgentInv' /\ run.at # "Ended"
  <1>1. words' = words /\ catalog' = catalog
    BY DEF AgentStep, BeginAttempt, ProviderFails, AttemptTimesOut, ExtractIntent,
           PrefetchCandidates, UseTools, Propose
  <1>2. RunFits(run')
    BY BeginAttemptFits, FailureFits, ExtractFits, PrefetchFits, UseToolsFits, ProposeFits
       DEF AgentStep
  <1>3. run.at # "Ended"
    BY DEF AgentStep, BeginAttempt, ProviderFails, AttemptTimesOut, ExtractIntent,
           PrefetchCandidates, UseTools, Propose, Waiting, Asking
  <1>4. QED
    BY <1>1, <1>2, <1>3, FitsNext DEF AgentInv

LEMMA CatalogFits ==
    ASSUME AgentInv, CatalogChanges
    PROVE  AgentInv'
  <1>1. words' = words /\ run' = run
    BY DEF CatalogChanges
  <1>2. catalog' \in [Products -> Facts]
    BY DEF CatalogChanges, AgentInv
  <1>3. QED
    BY <1>1, <1>2, FitsNext DEF AgentInv

-----------------------------------------------------------------------------
(* The decision. *)

ChosenStages == {"Confirming", "Verifying", "Pricing", "Quoting"}
WorkStages == {"Opening", "Choosing"} \cup ChosenStages

DeciderRecords ==
    [at : {"Idle", "Ended"} \cup WorkStages, row : Nat, product : Products \cup {NoProduct},
     unit : Nat,
     result : {"", "NOTHING_OPENED", "HARD_REQUIREMENT_UNVERIFIABLE", "NO_VALID_CANDIDATE",
               "AI_SELECTION_REJECTED", "REEVALUATION_REQUIRED", "QUOTE_CREATED", "FAILED"}]

Rows == [status : TransactionStates, keys : SUBSET Events]
QuoteRows == [row : Nat, product : Products, unit : Nat, quantity : Nat]

\* The run has proposed a purchase.
Proposed == run.at = "Ended" /\ WantsToBuy

\* What the shopper asked for.
ProductFits(p) ==
    /\ p \in Products /\ run.intent.kind \in {"any", Kind[p]}
    /\ HardRequirementsMet(p, run.intent.requires)

DeciderFits(decider, rows) ==
    /\ decider \in DeciderRecords /\ decider.row <= rows
    /\ decider.at \in WorkStages => Proposed
    /\ decider.at \in WorkStages \ {"Opening"} => decider.row = 1
    /\ decider.at \in ChosenStages => ProductFits(decider.product)
    /\ decider.at = "Quoting" => RespectsBudget(decider.unit, run.intent.quantity, Locked)

QuoteFits(quote) ==
    /\ Proposed /\ quote.row = 1 /\ ProductFits(quote.product)
    /\ quote.quantity = run.intent.quantity
    /\ RespectsBudget(quote.unit, run.intent.quantity, Locked)

DecisionInv ==
    /\ transactions \in Seq(Rows) /\ Len(transactions) <= 1
    /\ quotes \in Seq(QuoteRows) /\ Len(quotes) <= 1
    /\ \A q \in DOMAIN quotes : QuoteFits(quotes[q])
    /\ deciders \in [Deciders -> DeciderRecords]
    /\ \A d \in Deciders : DeciderFits(deciders[d], Len(transactions))

ShopInv == AgentInv /\ DecisionInv

\* What a proposal was made of is settled with the run.
LEMMA SettledNext ==
    ASSUME words' = words, run' = run, NEW quote, NEW decider, NEW rows
    PROVE  /\ QuoteFits(quote)' <=> QuoteFits(quote)
           /\ DeciderFits(decider, rows)' <=> DeciderFits(decider, rows)
  <1>1. Locked' = Locked
    BY DEF Locked, LockedAuthority, HasLimit, Verified
  <1>2. Proposed' <=> Proposed
    BY DEF Proposed, WantsToBuy
  <1>3. \A p : ProductFits(p)' <=> ProductFits(p)
    BY DEF ProductFits, HardRequirementsMet
  <1>4. QuoteFits(quote)' <=> QuoteFits(quote)
    BY <1>1, <1>2, <1>3 DEF QuoteFits, RespectsBudget, Scope, TotalAmount
  <1>5. DeciderFits(decider, rows)' <=> DeciderFits(decider, rows)
    BY <1>1, <1>2, <1>3 DEF DeciderFits, RespectsBudget, Scope, TotalAmount
  <1>6. QED
    BY <1>4, <1>5

LEMMA AskedQuantity ==
    ASSUME AgentInv, Proposed
    PROVE  run.intent \in Intents /\ run.intent.quantity \in Nat \ {0}
  BY BuyerAgentAssumption DEF AgentInv, RunFits, IntentFits, Proposed, WantsToBuy

LEMMA ShopStarts ==
    Init => ShopInv
  <1>1. Init => AgentInv
    BY RunStarts DEF Init, AgentInit, AgentInv
  <1>2. ASSUME Init
        PROVE  DecisionInv
    <2>1. Resting \in DeciderRecords
      BY DEF Resting, Decider, DeciderRecords
    <2>2. DeciderFits(Resting, 0)
      <3>1. Resting.at = "Idle" /\ Resting.row = 0 /\ "Idle" \notin WorkStages
        BY DEF Resting, Decider, WorkStages, ChosenStages
      <3>2. QED
        BY <2>1, <3>1 DEF DeciderFits, WorkStages
    <2>3. transactions = <<>> /\ quotes = <<>> /\ deciders = [d \in Deciders |-> Resting]
      BY <1>2 DEF Init, DecisionInit
    <2>4. QED
      BY <2>1, <2>2, <2>3 DEF DecisionInv
  <1>3. QED
    BY <1>1, <1>2 DEF ShopInv

\* Nobody decides before the run is over.
LEMMA AgentStepKeeps ==
    ASSUME ShopInv, AgentStep, UNCHANGED decisionVars
    PROVE  ShopInv'
  <1>1. AgentInv' /\ run.at # "Ended"
    BY AgentStepFits DEF ShopInv
  <1>2. ~Proposed
    BY <1>1 DEF Proposed
  <1>3. \A d \in Deciders : deciders[d].at \notin WorkStages
    BY <1>2 DEF ShopInv, DecisionInv, DeciderFits
  <1>4. DOMAIN quotes = {}
    BY <1>2 DEF ShopInv, DecisionInv, QuoteFits
  <1>5. transactions' = transactions /\ quotes' = quotes /\ deciders' = deciders
    BY DEF decisionVars
  <1>6. \A d \in Deciders : deciders[d] \in DeciderRecords /\ deciders[d].row <= Len(transactions)
    BY DEF ShopInv, DecisionInv, DeciderFits
  <1>7. \A d \in Deciders : DeciderFits(deciders[d], Len(transactions))'
    BY <1>3, <1>5, <1>6 DEF DeciderFits, WorkStages, ChosenStages
  <1>8. DecisionInv'
    BY <1>4, <1>5, <1>7 DEF ShopInv, DecisionInv
  <1>9. QED
    BY <1>1, <1>8 DEF ShopInv

LEMMA CatalogKeeps ==
    ASSUME ShopInv, CatalogChanges, UNCHANGED decisionVars
    PROVE  ShopInv'
  <1>1. AgentInv' /\ words' = words /\ run' = run
    BY CatalogFits DEF ShopInv, CatalogChanges
  <1>2. transactions' = transactions /\ quotes' = quotes /\ deciders' = deciders
    BY DEF decisionVars
  <1>3. DecisionInv'
    BY <1>1, <1>2, SettledNext DEF ShopInv, DecisionInv
  <1>4. QED
    BY <1>1, <1>3 DEF ShopInv

LEMMA DecisionMoves ==
    ASSUME ShopInv, UNCHANGED agentVars, NEW d \in Deciders, NEW decider,
           deciders' = [deciders EXCEPT ![d] = decider],
           NEW rows, rows = transactions', rows \in Seq(Rows), Len(rows) <= 1,
           Len(transactions) <= Len(rows), DeciderFits(decider, Len(rows)),
           NEW priced, priced = quotes', priced \in Seq(QuoteRows), Len(priced) <= 1,
           \A q \in DOMAIN priced : QuoteFits(priced[q])
    PROVE  ShopInv'
  <1>1. words' = words /\ run' = run /\ catalog' = catalog
    BY DEF agentVars
  <1>2. AgentInv'
    BY <1>1, FitsNext DEF ShopInv, AgentInv
  <1>3. ASSUME NEW c \in Deciders
        PROVE  deciders'[c] \in DeciderRecords /\ DeciderFits(deciders[c], Len(transactions))'
    <2>1. deciders'[c] = IF c = d THEN decider ELSE deciders[c]
      BY DEF ShopInv, DecisionInv
    <2>2. PICK now : now = deciders'[c]
      OBVIOUS
    <2>3. DeciderFits(now, Len(rows))
      <3>1. CASE c = d
        BY <2>1, <2>2, <3>1
      <3>2. CASE c # d
        <4>1. now = deciders[c] /\ DeciderFits(now, Len(transactions))
          BY <2>1, <2>2, <3>2 DEF ShopInv, DecisionInv
        <4>2. now \in DeciderRecords /\ now.row \in Nat /\ now.row <= Len(transactions)
          BY <4>1 DEF DeciderFits, DeciderRecords
        <4>3. Len(transactions) \in Nat /\ Len(rows) \in Nat
          BY DEF ShopInv, DecisionInv
        <4>4. now.row <= Len(rows)
          BY <4>2, <4>3
        <4>5. QED
          BY <4>1, <4>2, <4>4 DEF DeciderFits
      <3>3. QED
        BY <3>1, <3>2
    <2>4. now \in DeciderRecords
      BY <2>3 DEF DeciderFits
    <2>5. DeciderFits(now, Len(rows))'
      BY <1>1, <2>3, SettledNext
    <2>6. QED
      BY <2>2, <2>4, <2>5
  <1>4. deciders' \in [Deciders -> DeciderRecords]
    BY <1>3 DEF ShopInv, DecisionInv
  <1>5. \A q \in DOMAIN priced : QuoteFits(priced[q])'
    BY <1>1, SettledNext
  <1>6. DecisionInv'
    BY <1>3, <1>4, <1>5 DEF DecisionInv
  <1>7. QED
    BY <1>2, <1>6 DEF ShopInv

\* A step that changes the caller only.
LEMMA DeciderMoves ==
    ASSUME ShopInv, UNCHANGED agentVars, NEW d \in Deciders, NEW decider,
           deciders' = [deciders EXCEPT ![d] = decider], UNCHANGED <<transactions, quotes>>,
           DeciderFits(decider, Len(transactions))
    PROVE  ShopInv'
  <1>1. PICK rows : rows = transactions
    OBVIOUS
  <1>2. PICK priced : priced = quotes
    OBVIOUS
  <1>3. /\ rows \in Seq(Rows) /\ Len(rows) <= 1 /\ Len(transactions) <= Len(rows)
        /\ rows = transactions' /\ DeciderFits(decider, Len(rows))
    BY <1>1 DEF ShopInv, DecisionInv
  <1>4. /\ priced \in Seq(QuoteRows) /\ Len(priced) <= 1 /\ priced = quotes'
        /\ \A q \in DOMAIN priced : QuoteFits(priced[q])
    BY <1>2 DEF ShopInv, DecisionInv
  <1>5. QED
    BY <1>3, <1>4, DecisionMoves

\* A call that ends, or stops, is at work no more.
LEMMA RestFits ==
    ASSUME NEW row \in Nat, NEW rows \in Nat, row <= rows,
           NEW product \in Products \cup {NoProduct},
           NEW at \in {"Idle", "Ended"},
           NEW result \in {"", "NOTHING_OPENED", "HARD_REQUIREMENT_UNVERIFIABLE",
                           "NO_VALID_CANDIDATE", "AI_SELECTION_REJECTED",
                           "REEVALUATION_REQUIRED", "QUOTE_CREATED", "FAILED"}
    PROVE  DeciderFits(Decider(at, row, product, 0, result), rows)
  <1>1. PICK decider : decider = Decider(at, row, product, 0, result)
    OBVIOUS
  <1>2. decider \in DeciderRecords /\ decider.at = at /\ decider.row = row
    BY <1>1 DEF Decider, DeciderRecords
  <1>3. decider.at \notin WorkStages
    BY <1>2 DEF WorkStages, ChosenStages
  <1>4. DeciderFits(decider, rows)
    BY <1>2, <1>3 DEF DeciderFits, WorkStages
  <1>5. QED
    BY <1>1, <1>4

LEMMA WorkFits ==
    ASSUME NEW row \in Nat, NEW rows \in Nat, row <= rows,
           NEW product \in Products \cup {NoProduct}, NEW at \in WorkStages, at # "Quoting",
           Proposed, at # "Opening" => row = 1, at \in ChosenStages => ProductFits(product)
    PROVE  DeciderFits(Decider(at, row, product, 0, ""), rows)
  <1>1. PICK decider : decider = Decider(at, row, product, 0, "")
    OBVIOUS
  <1>2. decider.at = at /\ decider.row = row /\ decider.product = product
    BY <1>1 DEF Decider
  <1>3. decider \in DeciderRecords
    BY <1>1 DEF Decider, DeciderRecords
  <1>4. DeciderFits(decider, rows)
    BY <1>2, <1>3 DEF DeciderFits
  <1>5. QED
    BY <1>1, <1>4

\* What a caller knows of its own place.
LEMMA DeciderKnows ==
    ASSUME ShopInv, NEW d \in Deciders
    PROVE  /\ deciders[d] \in DeciderRecords /\ DeciderFits(deciders[d], Len(transactions))
           /\ deciders[d].row \in Nat /\ deciders[d].row <= Len(transactions)
           /\ deciders[d].product \in Products \cup {NoProduct} /\ deciders[d].unit \in Nat
           /\ Len(transactions) \in Nat /\ Len(transactions) <= 1
  <1>1. DeciderFits(deciders[d], Len(transactions)) /\ deciders[d] \in DeciderRecords
    BY DEF ShopInv, DecisionInv
  <1>2. Len(transactions) \in Nat /\ Len(transactions) <= 1
    BY DEF ShopInv, DecisionInv
  <1>3. /\ deciders[d].row \in Nat /\ deciders[d].product \in Products \cup {NoProduct}
        /\ deciders[d].unit \in Nat
    BY <1>1 DEF DeciderRecords
  <1>4. deciders[d].row <= Len(transactions)
    BY <1>1 DEF DeciderFits
  <1>5. QED
    BY <1>1, <1>2, <1>3, <1>4

LEMMA ResultKeeps ==
    ASSUME ShopInv, UNCHANGED agentVars, NEW d \in Deciders, UNCHANGED <<transactions, quotes>>,
           NEW result \in {"", "NOTHING_OPENED", "HARD_REQUIREMENT_UNVERIFIABLE",
                           "NO_VALID_CANDIDATE", "AI_SELECTION_REJECTED",
                           "REEVALUATION_REQUIRED", "QUOTE_CREATED", "FAILED"},
           Result(d, result)
    PROVE  ShopInv'
  <1>1. PICK row, product : row = deciders[d].row /\ product = deciders[d].product
    OBVIOUS
  <1>2. PICK decider : decider = Decider("Ended", row, product, 0, result)
    OBVIOUS
  <1>3. deciders' = [deciders EXCEPT ![d] = decider]
    BY <1>1, <1>2 DEF Result
  <1>4. PICK rows : rows = Len(transactions)
    OBVIOUS
  <1>5. DeciderFits(decider, rows)
    BY <1>1, <1>2, <1>4, RestFits, DeciderKnows
  <1>6. QED
    BY <1>3, <1>4, <1>5, DeciderMoves

LEMMA CrashKeeps ==
    ASSUME ShopInv, UNCHANGED agentVars, NEW d \in Deciders, DeciderCrash(d)
    PROVE  ShopInv'
  <1>1. PICK rows : rows = Len(transactions)
    OBVIOUS
  <1>2. rows \in Nat
    BY <1>1, DeciderKnows
  <1>3. PICK decider : decider = Resting
    OBVIOUS
  <1>4. decider \in DeciderRecords /\ decider.at = "Idle" /\ decider.row = 0
    BY <1>3 DEF Resting, Decider, DeciderRecords
  <1>5. decider.at \notin WorkStages
    BY <1>4 DEF WorkStages, ChosenStages
  <1>6. DeciderFits(decider, rows)
    BY <1>2, <1>4, <1>5 DEF DeciderFits, WorkStages
  <1>7. QED
    BY <1>1, <1>3, <1>6, DeciderMoves DEF DeciderCrash

LEMMA StepKeeps ==
    ASSUME ShopInv, UNCHANGED agentVars, NEW d \in Deciders, UNCHANGED <<transactions, quotes>>,
           NEW at \in WorkStages, at # "Quoting", NEW row,
           row \in {0, deciders[d].row} \/ (row = 1 /\ transactions # <<>>),
           NEW product \in Products \cup {NoProduct}, Proposed, at # "Opening" => row = 1,
           at \in ChosenStages => ProductFits(product), Step(d, at, row, product)
    PROVE  ShopInv'
  <1>1. PICK rows : rows = Len(transactions)
    OBVIOUS
  <1>2. row \in Nat /\ row <= rows /\ rows \in Nat
    BY <1>1, DeciderKnows DEF ShopInv, DecisionInv
  <1>3. DeciderFits(Decider(at, row, product, 0, ""), rows)
    BY <1>2, WorkFits
  <1>4. QED
    BY <1>1, <1>3, DeciderMoves DEF Step

LEMMA BeginKeeps ==
    ASSUME ShopInv, UNCHANGED agentVars, NEW d \in Deciders, BeginDecision(d)
    PROVE  ShopInv'
  <1>1. CASE ~WantsToBuy \/ ScopeUnresolved
    BY <1>1, ResultKeeps DEF BeginDecision
  <1>2. CASE WantsToBuy /\ ~ScopeUnresolved
    <2>1. Proposed /\ run.product \in Products \cup {NoProduct}
      BY <1>2 DEF BeginDecision, Proposed, ShopInv, AgentInv, RunFits, IntentFits, WantsToBuy
    <2>2. PICK product : product = run.product
      OBVIOUS
    <2>3. /\ "Opening" \in WorkStages /\ "Opening" \notin ChosenStages
          /\ "Choosing" \in WorkStages /\ "Choosing" \notin ChosenStages
      BY DEF WorkStages, ChosenStages
    <2>4. CASE transactions = <<>>
      <3>1. Step(d, "Opening", 0, product) /\ UNCHANGED <<transactions, quotes>>
        BY <1>2, <2>2, <2>4 DEF BeginDecision
      <3>2. QED
        BY <2>1, <2>2, <2>3, <3>1, StepKeeps
    <2>5. CASE transactions # <<>>
      <3>1. Step(d, "Choosing", 1, product) /\ UNCHANGED <<transactions, quotes>>
        BY <1>2, <2>2, <2>5 DEF BeginDecision
      <3>2. QED
        BY <2>1, <2>2, <2>3, <2>5, <3>1, StepKeeps
    <2>6. QED
      BY <2>4, <2>5
  <1>3. QED
    BY <1>1, <1>2

\* Whoever opens the row of the correlation id, it is the first and only one.
LEMMA OpenKeeps ==
    ASSUME ShopInv, UNCHANGED agentVars, NEW d \in Deciders, OpenTransaction(d)
    PROVE  ShopInv'
  <1>1. Proposed
    BY DeciderKnows DEF OpenTransaction, Stands, DeciderFits, WorkStages
  <1>2. run.product \in Products \cup {NoProduct}
    BY <1>1 DEF Proposed, ShopInv, AgentInv, RunFits, IntentFits, WantsToBuy
  <1>3. CASE OpenedMeanwhile
    BY <1>1, <1>2, <1>3, StepKeeps DEF OpenTransaction, OpenedMeanwhile, WorkStages, ChosenStages
  <1>4. CASE ~OpenedMeanwhile
    <2>1. transactions = <<>>
      BY <1>4 DEF OpenedMeanwhile
    <2>2. PICK rows : rows = transactions'
      OBVIOUS
    <2>3. rows = <<[status |-> "INTENT_RECEIVED", keys |-> {}]>>
      BY <1>4, <2>1, <2>2 DEF OpenTransaction
    <2>4. rows \in Seq(Rows) /\ Len(rows) = 1
      BY <2>3 DEF Rows, TransactionStates
    <2>5. PICK product, decider :
              product = run.product /\ decider = Decider("Choosing", 1, product, 0, "")
      OBVIOUS
    <2>6. deciders' = [deciders EXCEPT ![d] = decider]
      <3>1. Step(d, "Choosing", Len(transactions) + 1, product)
        BY <1>4, <2>5 DEF OpenTransaction
      <3>2. Len(transactions) + 1 = 1
        BY <2>1
      <3>3. Step(d, "Choosing", 1, product)
        BY <3>1, <3>2
      <3>4. QED
        BY <2>5, <3>3 DEF Step
    <2>7. DeciderFits(decider, 1)
      <3>1. "Choosing" \in WorkStages /\ "Choosing" \notin ChosenStages
        BY DEF WorkStages, ChosenStages
      <3>2. product \in Products \cup {NoProduct}
        BY <1>2, <2>5
      <3>3. QED
        <4>1. 1 \in Nat /\ 1 <= 1
          OBVIOUS
        <4>2. QED
          BY <1>1, <2>5, <3>1, <3>2, <4>1, WorkFits, ZenonT(30)
    <2>8. PICK priced : priced = quotes
      OBVIOUS
    <2>9. /\ priced \in Seq(QuoteRows) /\ Len(priced) <= 1 /\ priced = quotes'
          /\ \A q \in DOMAIN priced : QuoteFits(priced[q])
      BY <2>8 DEF ShopInv, DecisionInv, OpenTransaction
    <2>10. Len(transactions) <= Len(rows) /\ Len(rows) <= 1 /\ DeciderFits(decider, Len(rows))
      <3>1. Len(transactions) = 0 /\ Len(rows) = 1
        BY <2>1, <2>4
      <3>2. Len(transactions) <= Len(rows) /\ Len(rows) <= 1
        BY <3>1
      <3>3. DeciderFits(decider, Len(rows))
        BY <2>7, <3>1
      <3>4. QED
        BY <3>2, <3>3
    <2>11. QED
      BY <2>2, <2>4, <2>6, <2>9, <2>10, DecisionMoves
  <1>5. QED
    BY <1>3, <1>4

\* A product with nothing against it is what the shopper asked for.
LEMMA EligibleFits ==
    ASSUME ShopInv, Proposed, NEW p \in Eligible
    PROVE  ProductFits(p)
  <1>1. run.product \in Products
    BY DEF Proposed, ShopInv, AgentInv, RunFits, IntentFits, WantsToBuy
  <1>2. p \in Products /\ IneligibilityReasons(p) = {}
    BY <1>1 DEF Eligible, Candidates
  <1>3. ~(Locked.kind # "any" /\ Kind[p] # Locked.kind)
    <2>1. "WRONG_CATEGORY" \notin IneligibilityReasons(p)
      BY <1>2
    <2>2. QED
      BY <2>1 DEF IneligibilityReasons, Reasons
  <1>4. HardRequirementsMet(p, Locked.requires)
    <2>1. "UNMET_HARD_REQUIREMENT" \notin IneligibilityReasons(p)
      BY <1>2
    <2>2. QED
      BY <2>1 DEF IneligibilityReasons, Reasons
  <1>5. Locked.kind = run.intent.kind /\ Locked.requires = run.intent.requires
    BY DEF Locked, LockedAuthority
  <1>6. QED
    BY <1>2, <1>3, <1>4, <1>5 DEF ProductFits

LEMMA ChooseKeeps ==
    ASSUME ShopInv, UNCHANGED agentVars, NEW d \in Deciders, Choose(d)
    PROVE  ShopInv'
  <1>1. Proposed /\ deciders[d].row = 1
    BY DeciderKnows DEF Choose, Stands, DeciderFits, WorkStages, ChosenStages
  <1>2. PICK row : row = deciders[d].row
    OBVIOUS
  <1>3. \/ \E result \in {"HARD_REQUIREMENT_UNVERIFIABLE", "NO_VALID_CANDIDATE",
                          "AI_SELECTION_REJECTED"} : Result(d, result)
        \/ \E p \in Eligible : Step(d, "Confirming", row, p)
    BY <1>2 DEF Choose, NextBest
  <1>4. CASE \E result \in {"HARD_REQUIREMENT_UNVERIFIABLE", "NO_VALID_CANDIDATE",
                            "AI_SELECTION_REJECTED"} : Result(d, result)
    BY <1>4, ResultKeeps DEF Choose
  <1>5. ASSUME NEW p \in Eligible, Step(d, "Confirming", row, p)
        PROVE  ShopInv'
    <2>1. ProductFits(p) /\ p \in Products \cup {NoProduct}
      BY <1>1, EligibleFits DEF ProductFits
    <2>2. "Confirming" \in WorkStages
      BY DEF WorkStages, ChosenStages
    <2>3. QED
      BY <1>1, <1>2, <1>5, <2>1, <2>2, StepKeeps DEF Choose
  <1>6. QED
    BY <1>3, <1>4, <1>5

LEMMA OneReplaced ==
    ASSUME NEW S, NEW s \in Seq(S), Len(s) = 1, NEW x \in S
    PROVE  [s EXCEPT ![1] = x] \in Seq(S) /\ Len([s EXCEPT ![1] = x]) = 1
  OBVIOUS

\* The lifecycle moves to a state of the table, on the one row there is.
LEMMA AdvanceFits ==
    ASSUME ShopInv, NEW d \in Deciders, deciders[d].row = 1, NEW event \in Events, NEW actor,
           Advance(d, event, actor)
    PROVE  transactions' \in Seq(Rows) /\ Len(transactions') = Len(transactions)
  <1>1. transactions \in Seq(Rows) /\ Len(transactions) = 1
    <2>1. transactions \in Seq(Rows)
      BY DEF ShopInv, DecisionInv
    <2>2. 1 <= Len(transactions) /\ Len(transactions) <= 1 /\ Len(transactions) \in Nat
      BY DeciderKnows
    <2>3. QED
      BY <2>1, <2>2
  <1>2. Row(d) \in Rows
    BY <1>1 DEF Row
  <1>3. Row(d).status \in TransactionStates /\ Row(d).keys \in SUBSET Events
    BY <1>2 DEF Rows
  <1>4. CASE event \in Row(d).keys
    BY <1>1, <1>4 DEF Advance
  <1>5. CASE event \notin Row(d).keys
    <2>1. PICK row : row = [status |-> Resolve(Row(d).status, event, actor).to,
                            keys |-> Row(d).keys \cup {event}]
      OBVIOUS
    <2>2. Resolve(Row(d).status, event, actor).to \in TransactionStates
      BY <1>3, ResolveTo
    <2>3. row \in Rows
      BY <1>3, <2>1, <2>2 DEF Rows
    <2>4. transactions' = [transactions EXCEPT ![1] = row]
      BY <1>5, <2>1 DEF Advance
    <2>5. PICK rows : rows = transactions'
      OBVIOUS
    <2>6. rows = [transactions EXCEPT ![1] = row]
      BY <2>4, <2>5
    <2>7. rows \in Seq(Rows) /\ Len(rows) = 1
      BY <1>1, <2>3, <2>6, OneReplaced
    <2>8. QED
      BY <1>1, <2>5, <2>7
  <1>6. QED
    BY <1>4, <1>5

\* A step that moves the lifecycle on and goes on with the product chosen.
LEMMA ConfirmKeeps ==
    ASSUME ShopInv, UNCHANGED agentVars, UNCHANGED quotes, NEW d \in Deciders,
           deciders[d].at \in ChosenStages, NEW at \in {"Verifying", "Pricing"},
           NEW event \in Events, NEW actor, Advance(d, event, actor),
           Step(d, at, deciders[d].row, deciders[d].product)
    PROVE  ShopInv'
  <1>1. /\ Proposed /\ deciders[d].row = 1 /\ ProductFits(deciders[d].product)
        /\ deciders[d].product \in Products \cup {NoProduct}
    BY DeciderKnows DEF DeciderFits, WorkStages, ChosenStages
  <1>2. PICK row : row = deciders[d].row
    OBVIOUS
  <1>3. PICK product : product = deciders[d].product
    OBVIOUS
  <1>4. PICK rows : rows = transactions'
    OBVIOUS
  <1>5. /\ rows \in Seq(Rows) /\ Len(rows) = Len(transactions) /\ Len(transactions) \in Nat
        /\ Len(rows) <= 1 /\ Len(transactions) <= Len(rows) /\ row \in Nat /\ row <= Len(rows)
    BY <1>1, <1>2, <1>4, AdvanceFits, DeciderKnows
  <1>6. PICK decider : decider = Decider(at, row, product, 0, "")
    OBVIOUS
  <1>7. deciders' = [deciders EXCEPT ![d] = decider]
    BY <1>2, <1>3, <1>6 DEF Step
  <1>8. DeciderFits(decider, Len(rows))
    <2>1. at \in WorkStages /\ at # "Quoting" /\ Len(rows) \in Nat
      BY <1>5 DEF WorkStages, ChosenStages
    <2>2. QED
      BY <1>1, <1>2, <1>3, <1>5, <1>6, <2>1, WorkFits
  <1>9. PICK priced : priced = quotes
    OBVIOUS
  <1>10. /\ priced \in Seq(QuoteRows) /\ Len(priced) <= 1 /\ priced = quotes'
         /\ \A q \in DOMAIN priced : QuoteFits(priced[q])
    BY <1>9 DEF ShopInv, DecisionInv
  <1>11. QED
    BY <1>4, <1>5, <1>7, <1>8, <1>10, DecisionMoves

\* The fresh read lets only a price through that the limit allows.
LEMMA ReadKeeps ==
    ASSUME ShopInv, UNCHANGED agentVars, NEW d \in Deciders, ReadForQuote(d)
    PROVE  ShopInv'
  <1>1. CASE ~StillAsChosen(deciders[d].product)
    BY <1>1, ResultKeeps DEF ReadForQuote
  <1>2. CASE StillAsChosen(deciders[d].product)
    <2>1. /\ Proposed /\ deciders[d].row = 1 /\ ProductFits(deciders[d].product)
          /\ deciders[d] \in DeciderRecords
      BY DeciderKnows DEF ReadForQuote, Stands, DeciderFits, WorkStages, ChosenStages
    <2>2. PICK old, unit : old = deciders[d] /\ unit = catalog[deciders[d].product].unit
      OBVIOUS
    <2>3. unit \in Nat
      BY <2>1, <2>2, BuyerAgentAssumption DEF ShopInv, AgentInv, ProductFits
    <2>4. PICK decider : decider = [old EXCEPT !.at = "Quoting", !.unit = unit]
      OBVIOUS
    <2>5. deciders' = [deciders EXCEPT ![d] = decider]
      BY <1>2, <2>2, <2>4 DEF ReadForQuote, ShopInv, DecisionInv
    <2>6. /\ decider.at = "Quoting" /\ decider.unit = unit /\ decider.row = old.row
          /\ decider.product = old.product /\ decider \in DeciderRecords
      BY <2>1, <2>2, <2>3, <2>4 DEF DeciderRecords, WorkStages, ChosenStages
    <2>7. RespectsBudget(unit, run.intent.quantity, Locked)
      <3>1. "PRICE_CHANGED" \notin
                DisqualifyingChange(FreshRow(old.product), Locked.quantity, Locked)
        BY <1>2, <2>2 DEF StillAsChosen
      <3>2. Locked.currency = "NONE" \/ RespectsBudget(FreshRow(old.product).unit, Locked.quantity, Locked)
        BY <3>1 DEF DisqualifyingChange, Reasons
      <3>3. /\ FreshRow(old.product).unit = unit /\ Locked.quantity = run.intent.quantity
            /\ Locked.currency = "NONE" => Locked.max = NoLimit
        BY <2>2 DEF FreshRow, Locked, LockedAuthority
      <3>4. QED
        BY <3>2, <3>3 DEF RespectsBudget
    <2>8. PICK rows : rows = Len(transactions)
      OBVIOUS
    <2>9. old.row = 1 /\ old.row <= rows /\ ProductFits(old.product)
      BY <2>1, <2>2, <2>8, DeciderKnows
    <2>10. DeciderFits(decider, rows)
      BY <2>1, <2>6, <2>7, <2>9 DEF DeciderFits
    <2>11. QED
      BY <2>5, <2>8, <2>10, DeciderMoves DEF ReadForQuote
  <1>3. QED
    BY <1>1, <1>2

\* A quote is the first one of the one row, however often it is asked for.
LEMMA CreateKeeps ==
    ASSUME ShopInv, UNCHANGED agentVars, NEW d \in Deciders, CreateQuote(d)
    PROVE  ShopInv'
  <1>1. CASE QuoteExists(d)
    <2>1. PICK result \in {"QUOTE_CREATED", "FAILED"} : Result(d, result)
      BY <1>1 DEF CreateQuote
    <2>2. QED
      BY <1>1, <2>1, ResultKeeps DEF CreateQuote
  <1>2. CASE ~QuoteExists(d)
    <2>1. /\ Proposed /\ deciders[d].row = 1 /\ ProductFits(deciders[d].product)
          /\ RespectsBudget(deciders[d].unit, run.intent.quantity, Locked)
          /\ deciders[d].unit \in Nat
      BY DeciderKnows DEF CreateQuote, Stands, DeciderFits, WorkStages, ChosenStages
    <2>2. PICK rows : rows = transactions'
      OBVIOUS
    <2>3. /\ rows \in Seq(Rows) /\ Len(rows) = Len(transactions) /\ Len(transactions) \in Nat
          /\ Len(rows) <= 1 /\ Len(transactions) <= Len(rows) /\ deciders[d].row <= Len(rows)
      <3>1. Advance(d, "QUOTE_ISSUED", "quote_service") /\ "QUOTE_ISSUED" \in Events
        BY <1>2 DEF CreateQuote, Events
      <3>2. QED
        BY <2>1, <2>2, <3>1, AdvanceFits, DeciderKnows
    <2>4. quotes = <<>>
      <3>1. quotes \in Seq(QuoteRows) /\ \A q \in DOMAIN quotes : quotes[q].row = 1
        BY DEF ShopInv, DecisionInv, QuoteFits
      <3>2. \A q \in DOMAIN quotes : quotes[q].row # 1
        BY <1>2, <2>1 DEF QuoteExists
      <3>3. DOMAIN quotes = {}
        BY <3>1, <3>2
      <3>4. QED
        BY <3>1, <3>3
    <2>5. PICK quote : quote = [row |-> deciders[d].row, product |-> deciders[d].product,
                                unit |-> deciders[d].unit, quantity |-> Locked.quantity]
      OBVIOUS
    <2>6. quote \in QuoteRows /\ QuoteFits(quote)
      <3>1. Locked.quantity = run.intent.quantity /\ run.intent.quantity \in Nat
        BY <2>1, AskedQuantity DEF Locked, LockedAuthority, ShopInv
      <3>2. quote.row = 1 /\ quote.product = deciders[d].product
            /\ quote.unit = deciders[d].unit /\ quote.quantity = run.intent.quantity
        BY <2>1, <2>5, <3>1
      <3>3. QED
        BY <2>1, <2>5, <3>1, <3>2 DEF QuoteRows, QuoteFits, ProductFits
    <2>7. PICK priced : priced = quotes'
      OBVIOUS
    <2>8. priced = <<quote>>
      BY <1>2, <2>4, <2>5, <2>7 DEF CreateQuote
    <2>9. /\ priced \in Seq(QuoteRows) /\ Len(priced) <= 1
          /\ \A q \in DOMAIN priced : QuoteFits(priced[q])
      BY <2>6, <2>8
    <2>10. PICK row, product : row = deciders[d].row /\ product = deciders[d].product
      OBVIOUS
    <2>11. PICK decider : decider = Decider("Ended", row, product, 0, "QUOTE_CREATED")
      OBVIOUS
    <2>12. deciders' = [deciders EXCEPT ![d] = decider]
      BY <1>2, <2>10, <2>11 DEF CreateQuote, Result
    <2>13. DeciderFits(decider, Len(rows))
      <3>1. row \in Nat /\ row <= Len(rows) /\ Len(rows) \in Nat
            /\ product \in Products \cup {NoProduct}
        BY <2>3, <2>10, DeciderKnows
      <3>2. QED
        BY <2>11, <3>1, RestFits
    <2>14. QED
      BY <2>2, <2>3, <2>7, <2>9, <2>12, <2>13, DecisionMoves
  <1>3. QED
    BY <1>1, <1>2

LEMMA DecisionStepKeeps ==
    ASSUME ShopInv, DecisionStep, UNCHANGED agentVars
    PROVE  ShopInv'
  <1>1. PICK d \in Deciders :
            \/ BeginDecision(d) \/ OpenTransaction(d) \/ Choose(d)
            \/ ConfirmSelection(d) \/ ConfirmVerification(d)
            \/ ReadForQuote(d) \/ CreateQuote(d) \/ DeciderCrash(d)
    BY DEF DecisionStep
  <1>2. CASE ConfirmSelection(d)
    <2>1. /\ deciders[d].at \in ChosenStages /\ UNCHANGED quotes
          /\ Advance(d, "PRODUCT_SELECTION_CONFIRMED", "product_decision_engine")
          /\ Step(d, "Verifying", deciders[d].row, deciders[d].product)
      BY <1>2 DEF ConfirmSelection, Stands, ChosenStages
    <2>2. "PRODUCT_SELECTION_CONFIRMED" \in Events
      BY DEF Events
    <2>3. QED
      BY <2>1, <2>2, ConfirmKeeps
  <1>3. CASE ConfirmVerification(d)
    <2>1. /\ deciders[d].at \in ChosenStages /\ UNCHANGED quotes
          /\ Advance(d, "PRODUCT_VERIFICATION_SUCCEEDED", "merchant_service")
          /\ Step(d, "Pricing", deciders[d].row, deciders[d].product)
      BY <1>3 DEF ConfirmVerification, Stands, ChosenStages
    <2>2. "PRODUCT_VERIFICATION_SUCCEEDED" \in Events
      BY DEF Events
    <2>3. QED
      BY <2>1, <2>2, ConfirmKeeps
  <1>4. QED
    BY <1>1, <1>2, <1>3, BeginKeeps, OpenKeeps, ChooseKeeps, ReadKeeps, CreateKeeps, CrashKeeps

\* The invariant of the run and the decision, for all of the constants: what a
\* step acts on was read from the words, checked, and is settled.
THEOREM ShopHolds == Spec => []ShopInv
  <1>1. ShopInv /\ [Next]_shopVars => ShopInv'
    <2> SUFFICES ASSUME ShopInv, [Next]_shopVars
                 PROVE  ShopInv'
      OBVIOUS
    <2>1. CASE AgentStep /\ UNCHANGED decisionVars
      BY <2>1, AgentStepKeeps
    <2>2. CASE DecisionStep /\ UNCHANGED agentVars
      BY <2>2, DecisionStepKeeps
    <2>3. CASE CatalogChanges /\ UNCHANGED decisionVars
      BY <2>3, CatalogKeeps
    <2>4. CASE UNCHANGED shopVars
      <3>1. /\ words' = words /\ run' = run /\ catalog' = catalog
            /\ transactions' = transactions /\ quotes' = quotes /\ deciders' = deciders
        BY <2>4 DEF shopVars, agentVars, decisionVars
      <3>2. AgentInv'
        BY <3>1, FitsNext DEF ShopInv, AgentInv
      <3>3. DecisionInv'
        BY <3>1, SettledNext DEF ShopInv, DecisionInv
      <3>4. QED
        BY <3>2, <3>3 DEF ShopInv
    <2>5. QED
      BY <2>1, <2>2, <2>3, <2>4 DEF Next
  <1>2. QED
    BY <1>1, ShopStarts, PTL DEF Spec

\* Whatever model and provider do, a run gives up each attempt within its
\* deadline and asks the model a bounded number of times.
THEOREM RunsKeepToTheirBudget == Spec => []AgentWithinBudget
  <1>1. ASSUME ShopInv
        PROVE  AgentWithinBudget
    <2>1. run \in Runs /\ TimeFits(run) /\ CallsFit(run)
      BY <1>1 DEF ShopInv, AgentInv, RunFits
    <2>2. ShopTypeOK
      <3>1. \A i \in DOMAIN transactions : transactions[i].status \in TransactionStates
        <4>1. transactions \in Seq(Rows)
          BY <1>1 DEF ShopInv, DecisionInv
        <4>2. \A i \in DOMAIN transactions : transactions[i] \in Rows
          BY <4>1
        <4>3. QED
          BY <4>2 DEF Rows
      <3>2. \A d \in Deciders : deciders[d].row \in 0 .. Len(transactions)
        <4>1. TAKE d \in Deciders
        <4>2. /\ deciders[d].row \in Nat /\ deciders[d].row <= Len(transactions)
              /\ Len(transactions) \in Nat
          BY <1>1, DeciderKnows
        <4>3. QED
          BY <4>2
      <3>3. run.at \in {"Extract", "Prefetch", "Select", "Ended"}
            /\ run.product \in Products \cup {NoProduct}
        BY <2>1, RunFields
      <3>4. QED
        BY <1>1, <3>1, <3>2, <3>3 DEF ShopTypeOK, ShopInv, AgentInv, DecisionInv
    <2>3. run.calls <= MaxAttempts * (MaxIterations + 2)
      <3>1. PICK m \in Nat : m = MaxAttempts * (run.turn + 1)
        BY <2>1, RunFields, Turns
      <3>2. PICK most \in Nat : most = MaxAttempts * (MaxIterations + 2)
        BY Budgets
      <3>3. m + MaxAttempts <= most
        BY <2>1, <3>1, <3>2, RunFields, TurnsBounded DEF TimeFits
      <3>4. run.calls <= m + MaxAttempts
        <4>1. CASE run.at = "Select"
          <5>1. run.calls < m + run.attempt + (IF run.limit > 0 THEN 1 ELSE 0)
            BY <2>1, <3>1, <4>1 DEF CallsFit
          <5>2. run.attempt <= MaxAttempts /\ run.attempt \in Nat /\ run.calls \in Nat
            BY <2>1, RunFields DEF TimeFits
          <5>3. run.calls <= m + run.attempt
            BY <5>1, <5>2
          <5>4. QED
            BY <5>2, <5>3, Budgets
        <4>2. CASE run.at = "Extract"
          <5>1. run.calls < run.attempt + (IF run.limit > 0 THEN 1 ELSE 0)
            BY <2>1, <4>2 DEF CallsFit
          <5>2. run.attempt <= MaxAttempts /\ run.attempt \in Nat /\ run.calls \in Nat
            BY <2>1, RunFields DEF TimeFits
          <5>3. QED
            BY <5>1, <5>2, Budgets
        <4>3. CASE run.at = "Prefetch" \/ run.at = "Ended"
          <5>1. run.calls <= MaxAttempts \/ run.calls = 0
            BY <2>1, <4>3 DEF CallsFit
          <5>2. run.calls \in Nat
            BY <2>1, RunFields
          <5>3. QED
            BY <5>1, <5>2, Budgets
        <4>4. QED
          BY <2>1, <4>1, <4>2, <4>3, RunFields
      <3>5. QED
        BY <2>1, <3>2, <3>3, <3>4, RunFields, Budgets
    <2>4. run.limit <= OverallBudget
      BY <2>1 DEF TimeFits
    <2>5. QED
      BY <2>2, <2>3, <2>4 DEF AgentWithinBudget
  <1>2. QED
    BY <1>1, ShopHolds, PTL

\* Where a limit was read from the words, it is one they state, and the locked
\* limit applies as the claim says.
LEMMA LimitIsStated ==
    ASSUME AgentInv, Proposed
    PROVE  /\ CeilingStated => run.intent.claim # NoClaim
           /\ run.intent.claim # NoClaim =>
                 /\ run.intent.claim.amount \in StatedAmounts
                 /\ Locked.max = run.intent.claim.amount /\ Locked.max # NoLimit
                 /\ run.intent.claim.scope # "NONE" => Locked.scope = run.intent.claim.scope
                 /\ run.intent.claim.scope = "NONE" =>
                       run.intent.quantity = 1 /\ Locked.scope = "PER_UNIT"
  <1>1. /\ run.intent \in Intents /\ ~NeedsClarification(run.intent)
        /\ run.intent.quantity \in Nat \ {0} /\ run.intent.claim.amount \in Int
        /\ run.intent.claim.scope \in {"PER_UNIT", "TOTAL", "NONE"}
    BY AskedQuantity, BuyerAgentAssumption
       DEF AgentInv, RunFits, IntentFits, Proposed, WantsToBuy
  <1>2. /\ run.intent.claim = NoClaim \/ Verified(run.intent.claim)
        /\ ~(HasLimit(run.intent) /\ run.intent.quantity > 1
                /\ LockedAuthority(run.intent).scope = "NONE")
        /\ run.intent.claim # NoClaim \/ ~CeilingStated
    BY <1>1 DEF NeedsClarification
  <1>3. ASSUME run.intent.claim # NoClaim
        PROVE  /\ run.intent.claim.amount \in StatedAmounts
               /\ Locked.max = run.intent.claim.amount /\ Locked.max # NoLimit
               /\ run.intent.claim.scope # "NONE" => Locked.scope = run.intent.claim.scope
               /\ run.intent.claim.scope = "NONE" =>
                     run.intent.quantity = 1 /\ Locked.scope = "PER_UNIT"
    <2>1. HasLimit(run.intent) /\ Verified(run.intent.claim)
      BY <1>2, <1>3 DEF HasLimit
    <2>2. run.intent.claim.amount \in StatedAmounts
      BY <2>1 DEF Verified, StatedAmounts
    <2>3. Locked.max = run.intent.claim.amount /\ Locked.max # NoLimit
      BY <1>1, <2>1 DEF Locked, LockedAuthority, Verified, NoLimit
    <2>4. Locked.scope = IF run.intent.claim.scope = "NONE" /\ run.intent.quantity = 1
                           THEN "PER_UNIT" ELSE run.intent.claim.scope
      BY <2>1 DEF Locked, LockedAuthority
    <2>5. run.intent.claim.scope = "NONE" => run.intent.quantity = 1
      <3>1. SUFFICES ASSUME run.intent.claim.scope = "NONE", run.intent.quantity # 1
                     PROVE  FALSE
        OBVIOUS
      <3>2. Locked.scope = "NONE"
        BY <2>4, <3>1
      <3>3. run.intent.quantity > 1
        BY <1>1, <3>1
      <3>4. QED
        BY <1>2, <2>1, <3>2, <3>3 DEF Locked
    <2>6. QED
      BY <2>2, <2>3, <2>4, <2>5
  <1>4. QED
    BY <1>2, <1>3

\* What is quoted is of the kind, the quantity and the features asked for, once,
\* and within an amount that the shopper wrote, applied as it was read.
THEOREM QuotesKeepTheWords == Spec => []QuoteKeepsTheWords
  <1>1. ASSUME ShopInv
        PROVE  QuoteKeepsTheWords
    <2>1. ASSUME NEW q \in DOMAIN quotes
          PROVE  /\ QuoteFits(quotes[q]) /\ quotes[q] \in QuoteRows
                 /\ quotes[q].unit \in Nat
      <3>1. QuoteFits(quotes[q]) /\ quotes \in Seq(QuoteRows)
        BY <1>1 DEF ShopInv, DecisionInv
      <3>2. quotes[q] \in QuoteRows
        BY <3>1
      <3>3. QED
        BY <3>1, <3>2 DEF QuoteRows
    <2>2. QuoteWithinStatedLimit
      <3> SUFFICES ASSUME NEW q \in DOMAIN quotes
                   PROVE  /\ quotes[q].quantity = run.intent.quantity
                          /\ CeilingStated => run.intent.claim # NoClaim
                          /\ run.intent.claim # NoClaim =>
                                \E limit \in StatedAmounts :
                                    /\ limit = run.intent.claim.amount
                                    /\ IF run.intent.claim.scope = "PER_UNIT"
                                         THEN quotes[q].unit <= limit
                                         ELSE quotes[q].unit * quotes[q].quantity <= limit
        BY DEF QuoteWithinStatedLimit
      <3>1. PICK unit, quantity, limit :
                /\ unit = quotes[q].unit /\ quantity = quotes[q].quantity
                /\ limit = run.intent.claim.amount
        OBVIOUS
      <3>2. /\ Proposed /\ quantity = run.intent.quantity
            /\ RespectsBudget(unit, quantity, Locked)
        BY <2>1, <3>1 DEF QuoteFits
      <3>3. AgentInv
        BY <1>1 DEF ShopInv
      <3>4. unit \in Nat /\ quantity \in Nat /\ limit \in Int
            /\ run.intent.claim.scope \in {"PER_UNIT", "TOTAL", "NONE"}
        BY <2>1, <3>1, <3>2, <3>3, AskedQuantity, BuyerAgentAssumption
      <3>5. CeilingStated => run.intent.claim # NoClaim
        BY <3>2, <3>3, LimitIsStated
      <3>6. ASSUME run.intent.claim # NoClaim
            PROVE  /\ limit \in StatedAmounts
                   /\ IF run.intent.claim.scope = "PER_UNIT" THEN unit <= limit
                      ELSE unit * quantity <= limit
        <4>1. /\ limit \in StatedAmounts /\ Locked.max = limit /\ Locked.max # NoLimit
              /\ run.intent.claim.scope # "NONE" => Locked.scope = run.intent.claim.scope
              /\ run.intent.claim.scope = "NONE" => quantity = 1 /\ Locked.scope = "PER_UNIT"
          BY <3>1, <3>2, <3>3, <3>6, LimitIsStated
        <4>2. /\ Locked.scope = "PER_UNIT" => limit >= unit
              /\ Locked.scope = "TOTAL" => limit >= unit * quantity
          BY <3>2, <4>1 DEF RespectsBudget, Scope, TotalAmount
        <4>3. CASE run.intent.claim.scope = "PER_UNIT"
          BY <3>4, <4>1, <4>2, <4>3
        <4>4. CASE run.intent.claim.scope = "TOTAL"
          <5>1. unit * quantity <= limit
            BY <3>4, <4>1, <4>2, <4>4
          <5>2. QED
            BY <4>1, <4>4, <5>1
        <4>5. CASE run.intent.claim.scope = "NONE"
          <5>1. unit * quantity = unit /\ unit <= limit
            BY <3>4, <4>1, <4>2, <4>5
          <5>2. QED
            BY <4>1, <4>5, <5>1
        <4>6. QED
          BY <3>4, <4>3, <4>4, <4>5
      <3>7. QED
        BY <3>1, <3>2, <3>5, <3>6
    <2>3. QuotedAsAsked
      <3>1. Len(quotes) <= 1
        BY <1>1 DEF ShopInv, DecisionInv
      <3>2. ASSUME NEW q \in DOMAIN quotes
            PROVE  /\ run.intent.type = "PURCHASE"
                   /\ run.intent.kind \in {"any", Kind[quotes[q].product]}
                   /\ run.intent.requires \subseteq {Feature[quotes[q].product]}
        BY <2>1 DEF QuoteFits, ProductFits, Proposed, WantsToBuy, HardRequirementsMet
      <3>3. QED
        BY <3>1, <3>2 DEF QuotedAsAsked
    <2>4. QED
      BY <2>2, <2>3 DEF QuoteKeepsTheWords
  <1>2. QED
    BY <1>1, ShopHolds, PTL

\* A substitute is chosen only where the product that was proposed fits the
\* limit and is merely short of stock.
THEOREM SubstitutesAreForStock == Spec => SubstitutedOnlyForStock
  <1> DEFINE Substituted(d) ==
          Stands(d, "Choosing") /\ deciders'[d].at = "Confirming" =>
              \/ deciders'[d].product = run.product
              \/ /\ catalog[run.product].stock < run.intent.quantity
                 /\ RespectsBudget(catalog[run.product].unit, run.intent.quantity, Locked)
  <1>1. ASSUME ShopInv, [Next]_shopVars, NEW d \in Deciders
        PROVE  Substituted(d)
    <2> SUFFICES ASSUME Stands(d, "Choosing"), deciders'[d].at = "Confirming"
                 PROVE  \/ deciders'[d].product = run.product
                        \/ /\ catalog[run.product].stock < run.intent.quantity
                           /\ RespectsBudget(catalog[run.product].unit, run.intent.quantity, Locked)
      OBVIOUS
    <2>1. deciders \in [Deciders -> DeciderRecords]
      BY <1>1 DEF ShopInv, DecisionInv
    <2>2. deciders'[d] # deciders[d]
      BY DEF Stands
    <2>3. DecisionStep
      BY <1>1, <2>2 DEF Next, shopVars, decisionVars
    <2>4. Choose(d)
      <3>1. PICK c \in Deciders :
                \/ BeginDecision(c) \/ OpenTransaction(c) \/ Choose(c)
                \/ ConfirmSelection(c) \/ ConfirmVerification(c)
                \/ ReadForQuote(c) \/ CreateQuote(c) \/ DeciderCrash(c)
        BY <2>3 DEF DecisionStep
      <3>2. \E k : deciders' = [deciders EXCEPT ![c] = k]
        BY <3>1 DEF BeginDecision, OpenTransaction, Choose, ConfirmSelection,
                    ConfirmVerification, ReadForQuote, CreateQuote, DeciderCrash, Step, Result
      <3>3. c = d
        BY <2>1, <2>2, <3>2
      <3>4. ~DeciderCrash(d)
        <4>1. SUFFICES ASSUME DeciderCrash(d)
                       PROVE  FALSE
          OBVIOUS
        <4>2. deciders'[d] = Resting
          BY <2>1, <4>1 DEF DeciderCrash
        <4>3. PICK k : k = Resting
          OBVIOUS
        <4>4. k.at = "Idle"
          BY <4>3 DEF Resting, Decider
        <4>5. QED
          BY <4>2, <4>3, <4>4
      <3>5. QED
        BY <3>1, <3>3, <3>4 DEF Stands, BeginDecision, OpenTransaction, ConfirmSelection,
                    ConfirmVerification, ReadForQuote, CreateQuote
    <2>5. Proposed
      BY <1>1, DeciderKnows DEF Stands, DeciderFits, WorkStages
    <2>6. /\ Locked.quantity = run.intent.quantity /\ run.intent.quantity \in Nat \ {0}
      BY <1>1, <2>5, AskedQuantity DEF ShopInv, Locked, LockedAuthority
    <2>7. run.product \in Products /\ catalog[run.product] \in [unit : Nat, stock : Nat, listed : BOOLEAN]
      BY <1>1, <2>5, BuyerAgentAssumption
         DEF ShopInv, AgentInv, RunFits, IntentFits, Proposed, WantsToBuy
    <2>8. CASE run.product \in Eligible
      <3>1. Step(d, "Confirming", deciders[d].row, run.product) \/ \E result : Result(d, result)
        BY <2>4, <2>8 DEF Choose
      <3>2. ASSUME NEW result
            PROVE  ~Result(d, result)
        BY <2>1 DEF Result, Decider
      <3>3. PICK row, product : row = deciders[d].row /\ product = run.product
        OBVIOUS
      <3>4. deciders' = [deciders EXCEPT ![d] = Decider("Confirming", row, product, 0, "")]
        BY <3>1, <3>2, <3>3 DEF Step
      <3>5. deciders'[d] = Decider("Confirming", row, product, 0, "")
        BY <2>1, <3>4
      <3>6. PICK k : k = Decider("Confirming", row, product, 0, "")
        OBVIOUS
      <3>7. k.product = product
        BY <3>6 DEF Decider
      <3>8. QED
        BY <3>3, <3>5, <3>6, <3>7
    <2>9. CASE run.product \notin Eligible
      <3>1. \/ \E result : Result(d, result)
            \/ RefusedOnlyForAvailability(IF run.product \in Candidates
                                            THEN IneligibilityReasons(run.product) ELSE {})
        BY <2>4, <2>9 DEF Choose
      <3>2. RefusedOnlyForAvailability(IF run.product \in Candidates
                                         THEN IneligibilityReasons(run.product) ELSE {})
        BY <2>1, <3>1 DEF Result, Decider
      <3>3. /\ "OVER_BUDGET" \notin IneligibilityReasons(run.product)
            /\ \/ "NOT_PURCHASABLE" \in IneligibilityReasons(run.product)
               \/ "INSUFFICIENT_INVENTORY" \in IneligibilityReasons(run.product)
        BY <3>2 DEF RefusedOnlyForAvailability, AvailabilityRefusals
      <3>4. /\ RespectsBudget(catalog[run.product].unit, Locked.quantity, Locked)
            /\ ~Purchasable(run.product) \/ catalog[run.product].stock < Locked.quantity
        BY <3>3 DEF IneligibilityReasons, Reasons
      <3>5. catalog[run.product].stock < run.intent.quantity
        BY <2>6, <2>7, <3>4 DEF Purchasable
      <3>6. QED
        BY <2>6, <3>4, <3>5
    <2>10. QED
      BY <2>8, <2>9
  <1>2. ShopInv /\ [Next]_shopVars => [\A d \in Deciders : Substituted(d)]_shopVars
    BY <1>1
  <1>3. QED
    BY <1>2, ShopHolds, PTL DEF Spec, SubstitutedOnlyForStock

-----------------------------------------------------------------------------
(* The arithmetic of Money, in which limits, prices and totals are         *)
(* computed, is never silently wrong: what its operations return is the    *)
(* exact result or a refusal, although they compute in numbers that round. *)

\* A rounded result is never a safe integer, so the constructor refuses it.
LEMMA RoundedIsUnsafe ==
    ASSUME NEW x \in Int, Nearest(x) \in SafeIntegers
    PROVE  Nearest(x) = x
  BY ExactAssumption, SMTT(30) DEF Nearest, SafeIntegers, MaxSafe

\* money(): an amount that comes out carries the number that went in.
LEMMA ConstructedIsGiven ==
    ASSUME NEW x, NEW cur, MoneyOf(x, cur).kind = "AMOUNT"
    PROVE  x \in SafeIntegers /\ MoneyOf(x, cur) = Amount(x, cur)
  BY DEF MoneyOf, Refused

\* What is built from a rounded number is built from an exact one.
LEMMA ConstructedIsExact ==
    ASSUME NEW x \in Int, NEW cur, MoneyOf(Nearest(x), cur).kind = "AMOUNT"
    PROVE  MoneyOf(Nearest(x), cur) = Amount(x, cur)
  <1>1. Nearest(x) \in SafeIntegers /\ MoneyOf(Nearest(x), cur) = Amount(Nearest(x), cur)
    BY ConstructedIsGiven
  <1>2. Nearest(x) = x
    BY <1>1, RoundedIsUnsafe
  <1> QED
    BY <1>1, <1>2

\* Every amount has an integer number of minor units.
LEMMA AmountsAreIntegers ==
    ASSUME NEW a \in Amounts
    PROVE  a.minor \in SafeIntegers /\ a.minor \in Int /\ a.currency \in CurrencyCodes
  BY ExactAssumption DEF Amounts, Amount, SafeIntegers, MaxSafe

\* addMoney returns the sum of two amounts of one currency, or refuses.
THEOREM SumIsExact ==
    ASSUME NEW a \in Amounts, NEW b \in Amounts, AddMoney(a, b).kind = "AMOUNT"
    PROVE  a.currency = b.currency /\ AddMoney(a, b) = Amount(a.minor + b.minor, a.currency)
  <1>1. a.minor + b.minor \in Int
    BY AmountsAreIntegers
  <1>2. a.currency = b.currency
    BY DEF AddMoney, Refused
  <1> QED
    BY <1>1, <1>2, ConstructedIsExact DEF AddMoney

\* multiplyMoney returns the price of a whole number of units, or refuses.
THEOREM ProductIsExact ==
    ASSUME NEW a \in Amounts, NEW n \in Int, MultiplyMoney(a, n).kind = "AMOUNT"
    PROVE  n >= 0 /\ MultiplyMoney(a, n) = Amount(a.minor * n, a.currency)
  <1>1. a.minor * n \in Int
    BY AmountsAreIntegers
  <1>2. n \in 0 .. MaxSafe
    BY DEF MultiplyMoney, Refused
  <1> QED
    BY <1>1, <1>2, ConstructedIsExact, ExactAssumption DEF MultiplyMoney, MaxSafe

\* What a person types: a sign, digits, digits after the point, and other marks.
Texts == [mark : Marks, negative : BOOLEAN, whole : Nat, places : Nat, fraction : Nat]

LEMMA MeantIsInteger ==
    ASSUME NEW t \in Texts
    PROVE  Meant(t) \in Int
  BY DEF Texts, Meant, Padded, MinorPerMajor

\* parseMajorUnits reads a typed amount exactly, or refuses it: "2999.5" is
\* 299950, and a number too long to be held is not read as a neighbour.
THEOREM ParsedIsMeant ==
    ASSUME NEW t \in Texts, NEW cur, ParseMajorUnits(t, cur).kind = "AMOUNT"
    PROVE  /\ t.mark = "none" /\ t.places <= 2
           /\ ParseMajorUnits(t, cur) = Amount(Meant(t), cur)
  <1>1. Meant(t) \in Int
    BY MeantIsInteger
  <1>2. t.mark = "none" /\ ~(t.places > 2)
    BY DEF ParseMajorUnits, Refused
  <1>3. t.places <= 2
    BY <1>2 DEF Texts
  <1> QED
    BY <1>1, <1>2, <1>3, ConstructedIsExact DEF ParseMajorUnits

\* What formatMoney shows, sign and both parts, means the amount.
LEMMA ShownIsMeant ==
    ASSUME NEW a \in Amounts
    PROVE  Meant(FormatMoney(a)) = a.minor
  <1>1. a.minor \in Int
    BY AmountsAreIntegers
  <1>2. Abs(a.minor) \in Nat
    BY <1>1 DEF Abs
  <1>3. MinorPerMajor * (Abs(a.minor) \div MinorPerMajor) + (Abs(a.minor) % MinorPerMajor)
            = Abs(a.minor)
    BY <1>2 DEF MinorPerMajor
  <1>4. Padded(FormatMoney(a)) = Abs(a.minor) % MinorPerMajor
    BY DEF Padded, FormatMoney, Text
  <1>5. Meant(FormatMoney(a)) = IF a.minor < 0 THEN -Abs(a.minor) ELSE Abs(a.minor)
    BY <1>3, <1>4 DEF Meant, FormatMoney, Text
  <1> QED
    BY <1>1, <1>5 DEF Abs

\* formatMoney shows an amount exactly, so two amounts never look alike.  What it
\* shows is not taken as typed, for its symbol; without it, it is read as the
\* amount that was shown.
THEOREM FormatIsExact ==
    ASSUME NEW a \in Amounts
    PROVE  /\ Meant(FormatMoney(a)) = a.minor
           /\ \A b \in Amounts : FormatMoney(a) = FormatMoney(b) => a.minor = b.minor
           /\ ParseMajorUnits(FormatMoney(a), a.currency).kind = "MONEY_UNPARSEABLE"
           /\ ParseMajorUnits([FormatMoney(a) EXCEPT !.mark = "none"], a.currency) = a
  <1> DEFINE plain == [FormatMoney(a) EXCEPT !.mark = "none"]
  <1>1. a.minor \in SafeIntegers
    BY AmountsAreIntegers
  <1>2. Nearest(a.minor) = a.minor
    BY <1>1, ExactAssumption DEF Nearest, SafeIntegers, MaxSafe
  <1>3. plain.mark = "none" /\ plain.places = 2 /\ Meant(plain) = Meant(FormatMoney(a))
    BY DEF FormatMoney, Text, Meant, Padded
  <1>4. ParseMajorUnits(plain, a.currency) = MoneyOf(a.minor, a.currency)
    BY <1>2, <1>3, ShownIsMeant DEF ParseMajorUnits
  <1>5. a = Amount(a.minor, a.currency)
    BY DEF Amounts, Amount
  <1>6. ParseMajorUnits(plain, a.currency) = a
    BY <1>1, <1>4, <1>5 DEF MoneyOf
  <1>7. ParseMajorUnits(FormatMoney(a), a.currency).kind = "MONEY_UNPARSEABLE"
    BY DEF ParseMajorUnits, FormatMoney, Text, Refused
  <1>8. \A b \in Amounts : FormatMoney(a) = FormatMoney(b) => a.minor = b.minor
    BY ShownIsMeant
  <1>9. QED
    BY <1>6, <1>7, <1>8, ShownIsMeant

\* An amount survives the database and the API, and a stored number outside
\* the safe range is refused, never rounded.
THEOREM CrossingsAreExact ==
    /\ \A a \in Amounts : MoneyFromBigInt(MoneyToBigInt(a), a.currency) = a
    /\ \A a \in Amounts : FromMoneyDto(ToMoneyDto(a)) = a
    /\ \A x \in Int, cur \in CurrencyCodes :
           MoneyFromBigInt(x, cur).kind = "AMOUNT" => MoneyFromBigInt(x, cur) = Amount(x, cur)
  <1>1. ASSUME NEW a \in Amounts
        PROVE  MoneyFromBigInt(a.minor, a.currency) = a
    <2>1. a.minor \in SafeIntegers
      BY AmountsAreIntegers
    <2>2. a = Amount(a.minor, a.currency)
      BY DEF Amounts, Amount
    <2> QED
      BY <2>1, <2>2 DEF MoneyFromBigInt, MoneyOf
  <1>2. ASSUME NEW a \in Amounts
        PROVE  FromMoneyDto(ToMoneyDto(a)) = a
    BY <1>1, AmountsAreIntegers DEF FromMoneyDto, ToMoneyDto
  <1>3. ASSUME NEW x \in Int, NEW cur \in CurrencyCodes,
               MoneyFromBigInt(x, cur).kind = "AMOUNT"
        PROVE  MoneyFromBigInt(x, cur) = Amount(x, cur)
    BY <1>3, ConstructedIsGiven DEF MoneyFromBigInt, Refused
  <1> QED
    BY <1>1, <1>2, <1>3 DEF MoneyToBigInt

\* What the provider is told to charge is the amount of the quote, to the minor
\* unit: the number it is sent stands for no other, and every amount from the
\* provider's minimum up that a quote can have is sent.
THEOREM PayableIsCharged ==
    /\ \A x \in Int : \A cur :
           AssessPayableAmount(x, cur).kind = "PAYABLE" =>
               ToProviderAmount(AssessPayableAmount(x, cur)) = x
    /\ \A a \in Amounts :
           a.minor >= ProviderMinimum =>
               AssessPayableAmount(a.minor, a.currency).kind = "PAYABLE"
  <1>1. Exact \in Nat
    BY ExactAssumption
  <1>2. ASSUME NEW x \in Int, NEW cur, AssessPayableAmount(x, cur).kind = "PAYABLE"
        PROVE  ToProviderAmount(AssessPayableAmount(x, cur)) = x
    <2>1. PICK payable : payable = AssessPayableAmount(x, cur)
      OBVIOUS
    <2>2. /\ x > 0 /\ x <= MaxSafe
          /\ payable.minor = x
      <3>1. \A code : Refused(code).kind = code
        BY DEF Refused
      <3>2. PICK most : most = MaxSafe
        OBVIOUS
      <3>3. most \in Int
        BY <1>1, <3>2 DEF MaxSafe
      <3>4. ~(x <= 0) /\ ~(x > most) /\ payable.minor = x
        BY <1>2, <2>1, <3>1, <3>2 DEF AssessPayableAmount
      <3>5. QED
        BY <3>2, <3>3, <3>4
    <2>3. x \in -Exact .. Exact
      BY <1>1, <2>2 DEF MaxSafe
    <2>4. Nearest(x) = x
      BY <2>3 DEF Nearest
    <2>5. QED
      BY <2>1, <2>2, <2>4 DEF ToProviderAmount
  <1>3. ASSUME NEW a \in Amounts, a.minor >= ProviderMinimum
        PROVE  AssessPayableAmount(a.minor, a.currency).kind = "PAYABLE"
    <2>1. a.minor \in SafeIntegers /\ a.currency \in CurrencyCodes
      BY DEF Amounts, Amount
    <2>2. a.minor <= MaxSafe /\ a.minor > 0 /\ ~(a.minor < ProviderMinimum) /\ a.minor \in Int
      BY <1>1, <1>3, <2>1 DEF SafeIntegers, MaxSafe, ProviderMinimum
    <2>3. QED
      BY <1>1, <2>1, <2>2 DEF AssessPayableAmount, MaxSafe
  <1>4. QED
    BY <1>2, <1>3
=============================================================================
