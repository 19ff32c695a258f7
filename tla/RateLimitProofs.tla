--------------------------- MODULE RateLimitProofs ---------------------------
(***************************************************************************)
(* The rate limiter for any clients, limits, number of requests and course *)
(* of time: a row counts who came, no window lets through more than its    *)
(* limit, and a refused client spends nothing of what others share.        *)
(***************************************************************************)
EXTENDS RateLimits, FiniteSetTheorems, TLAPS

-----------------------------------------------------------------------------
(* The windows a request is counted in, and those it has got through. *)

Win(r, k) == WindowOf(RulesOf(r)[k], r.since)
CountedBy(r) == {Win(r, k) : k \in 1 .. r.counted}

\* The ceilings that did not refuse it.
Passed(r) == IF r.at \in {"Allowed", "Admitted"} THEN 1 .. Len(RulesOf(r)) ELSE 1 .. r.check - 1
PassedBy(r) == {Win(r, k) : k \in Passed(r)}

CountedIn(rs, w) == {i \in DOMAIN rs : w \in CountedBy(rs[i])}
PassedIn(rs, w) == {i \in DOMAIN rs : w \in PassedBy(rs[i])}

LimitOf(name) ==
    CASE name = "agent-minute" -> AgentPerMinute
      [] name = "agent-day" -> AgentPerDay
      [] name = "agent-global-day" -> AgentGlobalPerDay
      [] name = "payment-minute" -> PaymentPerMinute

-----------------------------------------------------------------------------
(* The inductive invariant, of a clock, the rows and the requests. *)

RequestFits(r, t, ws) ==
    /\ r \in Requests /\ r.since <= t
    /\ r.check <= Len(RulesOf(r)) /\ r.counted <= Len(RulesOf(r))
    /\ InProgress(r) => t <= r.since + Patience
    /\ r.at \in {"Counting", "Inserting"} => r.counted = r.check - 1
    /\ r.at \in {"Allowed", "Admitted"} => r.counted = Len(RulesOf(r))
    /\ r.at = "Refused" => r.counted = r.check
    /\ r.at = "Failed" => r.counted \in {r.check - 1, r.check}
    /\ r.again /\ r.at = "Counting" => WindowNow(r) \in DOMAIN ws
    /\ r.again => r.at # "Inserting"

\* A row of rate_limit_window counts who came.
RowFits(w, ws, rs) ==
    /\ w \in RuleNames \X (Clients \cup {Global}) \X Nat
    /\ ws[w] \in Nat /\ ws[w] >= 1
    /\ ws[w] = Cardinality(CountedIn(rs, w))

\* A row that has counted a request is there until it is too old to be read;
\* the rows of one day are there together.
CountsStand(r, t, ws) ==
    /\ \A w \in CountedBy(r) : w \in DOMAIN ws \/ w[3] < t - Retention
    /\ InProgress(r) => CountedBy(r) \subseteq DOMAIN ws
    /\ r.counted = 3 /\ Win(r, 3) \in DOMAIN ws => Win(r, 2) \in DOMAIN ws

\* Nobody got through a ceiling that was spent.
LimitsStand(rs) ==
    \A i \in DOMAIN rs : \A w \in PassedBy(rs[i]) :
        Cardinality(PassedIn(rs, w)) <= LimitOf(w[1])

RateInvOf(t, ws, rs) ==
    /\ t \in Times
    /\ rs \in Seq(Requests) /\ Len(rs) <= MaxRequests
    /\ \A w \in DOMAIN ws : RowFits(w, ws, rs)
    /\ \A i \in DOMAIN rs : RequestFits(rs[i], t, ws) /\ CountsStand(rs[i], t, ws)
    /\ LimitsStand(rs)

RateInv == RateInvOf(now, windows, requests)

-----------------------------------------------------------------------------
(* Rules and windows. *)

LEMMA Limits ==
    /\ AgentPerMinute \in Nat /\ AgentPerDay \in Nat /\ AgentGlobalPerDay \in Nat
    /\ PaymentPerMinute \in Nat /\ MinutesPerDay \in Nat /\ MinutesPerDay >= 1
    /\ AgentPerMinute >= 1 /\ AgentPerDay >= 1 /\ AgentGlobalPerDay >= 1 /\ PaymentPerMinute >= 1
    /\ Patience \in Nat /\ Patience <= MinutesPerDay /\ MaxRequests \in Nat
    /\ Times \subseteq Nat /\ IsFiniteSet(Clients)
  BY RateAssumption

LEMMA WindowContains ==
    ASSUME NEW t \in Nat, NEW minutes \in Nat, minutes >= 1
    PROVE  /\ WindowStartOf(t, minutes) \in Nat
           /\ WindowStartOf(t, minutes) <= t /\ t < WindowStartOf(t, minutes) + minutes
  BY DEF WindowStartOf

LEMMA AgentRules ==
    ASSUME NEW client
    PROVE  /\ Len(Checks("agent", client)) = 3
           /\ Checks("agent", client)[1] = Rule("agent-minute", AgentPerMinute, 1, client)
           /\ Checks("agent", client)[2] = Rule("agent-day", AgentPerDay, MinutesPerDay, client)
           /\ Checks("agent", client)[3] =
                 Rule("agent-global-day", AgentGlobalPerDay, MinutesPerDay, Global)
  BY DEF Checks

LEMMA PaymentRules ==
    ASSUME NEW client
    PROVE  /\ Len(Checks("payment", client)) = 1
           /\ Checks("payment", client)[1] = Rule("payment-minute", PaymentPerMinute, 1, client)
  BY DEF Checks

LEMMA RuleDomains ==
    ASSUME NEW surface, NEW client
    PROVE  DOMAIN Checks(surface, client) = 1 .. Len(Checks(surface, client))
  <1>1. CASE surface = "agent"
    BY <1>1 DEF Checks
  <1>2. CASE surface # "agent"
    BY <1>2 DEF Checks
  <1>3. QED
    BY <1>1, <1>2

\* The two surfaces, rule by rule.
LEMMA RuleCases ==
    ASSUME NEW r \in Requests, NEW k \in 1 .. Len(RulesOf(r))
    PROVE  \/ /\ r.surface = "agent" /\ Len(RulesOf(r)) = 3 /\ k = 1
              /\ RulesOf(r)[k] = Rule("agent-minute", AgentPerMinute, 1, r.client)
           \/ /\ r.surface = "agent" /\ Len(RulesOf(r)) = 3 /\ k = 2
              /\ RulesOf(r)[k] = Rule("agent-day", AgentPerDay, MinutesPerDay, r.client)
           \/ /\ r.surface = "agent" /\ Len(RulesOf(r)) = 3 /\ k = 3
              /\ RulesOf(r)[k] = Rule("agent-global-day", AgentGlobalPerDay, MinutesPerDay, Global)
           \/ /\ r.surface = "payment" /\ Len(RulesOf(r)) = 1 /\ k = 1
              /\ RulesOf(r)[k] = Rule("payment-minute", PaymentPerMinute, 1, r.client)
  <1>1. r.surface \in {"agent", "payment"}
    BY DEF Requests, Surfaces
  <1>2. CASE r.surface = "agent"
    <2>1. RulesOf(r) = Checks("agent", r.client)
      BY <1>2 DEF RulesOf
    <2>2. Len(RulesOf(r)) = 3
      BY <2>1, AgentRules
    <2>3. k = 1 \/ k = 2 \/ k = 3
      BY <2>2
    <2>4. QED
      BY <1>2, <2>1, <2>2, <2>3, AgentRules
  <1>3. CASE r.surface = "payment"
    <2>1. RulesOf(r) = Checks("payment", r.client)
      BY <1>3 DEF RulesOf
    <2>2. Len(RulesOf(r)) = 1
      BY <2>1, PaymentRules
    <2>3. k = 1
      BY <2>2
    <2>4. QED
      BY <1>3, <2>1, <2>2, <2>3, PaymentRules
  <1>4. QED
    BY <1>1, <1>2, <1>3

LEMMA RuleFields ==
    ASSUME NEW r \in Requests, NEW k \in 1 .. Len(RulesOf(r))
    PROVE  /\ RulesOf(r)[k].name \in RuleNames
           /\ RulesOf(r)[k].subject \in Clients \cup {Global}
           /\ RulesOf(r)[k].minutes \in Nat /\ RulesOf(r)[k].minutes >= 1
           /\ RulesOf(r)[k].minutes <= MinutesPerDay
           /\ RulesOf(r)[k].limit = LimitOf(RulesOf(r)[k].name)
           /\ RulesOf(r)[k].limit \in Nat
  <1>1. r.client \in Clients
    BY DEF Requests
  <1>2. PICK rule : rule = RulesOf(r)[k]
    OBVIOUS
  <1>3. \/ rule = Rule("agent-minute", AgentPerMinute, 1, r.client)
        \/ rule = Rule("agent-day", AgentPerDay, MinutesPerDay, r.client)
        \/ rule = Rule("agent-global-day", AgentGlobalPerDay, MinutesPerDay, Global)
        \/ rule = Rule("payment-minute", PaymentPerMinute, 1, r.client)
    BY <1>2, RuleCases
  <1>4. /\ rule.name \in RuleNames /\ rule.subject \in Clients \cup {Global}
        /\ rule.minutes = 1 \/ rule.minutes = MinutesPerDay
    BY <1>1, <1>3 DEF Rule, RuleNames
  <1>5. rule.limit = LimitOf(rule.name) /\ rule.limit \in Nat
    BY <1>3, Limits DEF Rule, LimitOf
  <1>6. QED
    BY <1>2, <1>4, <1>5, Limits

\* Which rule carries which name.
LEMMA RuleNameAt ==
    ASSUME NEW r \in Requests, NEW k \in 1 .. Len(RulesOf(r))
    PROVE  \/ r.surface = "agent" /\ k = 1 /\ RulesOf(r)[k].name = "agent-minute"
           \/ r.surface = "agent" /\ k = 2 /\ RulesOf(r)[k].name = "agent-day"
           \/ r.surface = "agent" /\ k = 3 /\ RulesOf(r)[k].name = "agent-global-day"
           \/ r.surface = "payment" /\ k = 1 /\ RulesOf(r)[k].name = "payment-minute"
  <1>1. \A limit, minutes, subject :
           /\ Rule("agent-minute", limit, minutes, subject).name = "agent-minute"
           /\ Rule("agent-day", limit, minutes, subject).name = "agent-day"
           /\ Rule("agent-global-day", limit, minutes, subject).name = "agent-global-day"
           /\ Rule("payment-minute", limit, minutes, subject).name = "payment-minute"
    BY DEF Rule
  <1>2. QED
    BY <1>1, RuleCases

LEMMA WinFields ==
    ASSUME NEW r \in Requests, NEW k \in 1 .. Len(RulesOf(r))
    PROVE  /\ Win(r, k) \in RuleNames \X (Clients \cup {Global}) \X Nat
           /\ Win(r, k)[1] = RulesOf(r)[k].name
           /\ Win(r, k)[3] \in Nat /\ r.since \in Nat /\ r.since < Win(r, k)[3] + MinutesPerDay
  <1>1. r.since \in Nat
    BY Limits DEF Requests
  <1>2. PICK start : start = WindowStartOf(r.since, RulesOf(r)[k].minutes)
    OBVIOUS
  <1>3. PICK minutes : minutes = RulesOf(r)[k].minutes
    OBVIOUS
  <1>4. minutes \in Nat /\ minutes >= 1 /\ minutes <= MinutesPerDay
    BY <1>3, RuleFields
  <1>5. start \in Nat /\ r.since < start + minutes
    BY <1>1, <1>2, <1>3, <1>4, WindowContains
  <1>6. r.since < start + MinutesPerDay
    BY <1>1, <1>4, <1>5, Limits
  <1>7. Win(r, k) = <<RulesOf(r)[k].name, RulesOf(r)[k].subject, start>>
    BY <1>2 DEF Win, WindowOf
  <1>8. QED
    BY <1>1, <1>5, <1>6, <1>7, RuleFields

\* The ceilings of one request are rows of their own.
LEMMA WinsDiffer ==
    ASSUME NEW r \in Requests, NEW k \in 1 .. Len(RulesOf(r)), NEW l \in 1 .. Len(RulesOf(r)),
           Win(r, k) = Win(r, l)
    PROVE  k = l
  <1>1. RulesOf(r)[k].name = RulesOf(r)[l].name
    BY WinFields
  <1>2. QED
    BY <1>1, RuleNameAt

\* The day a buyer and all buyers are counted in.
LEMMA DayWindows ==
    ASSUME NEW r \in Requests, NEW k \in 1 .. Len(RulesOf(r)),
           Win(r, k)[1] = "agent-global-day"
    PROVE  /\ k = 3 /\ Len(RulesOf(r)) = 3 /\ r.client \in Clients
           /\ Win(r, 3) = <<"agent-global-day", Global, WindowStartOf(r.since, MinutesPerDay)>>
           /\ Win(r, 2) = <<"agent-day", r.client, WindowStartOf(r.since, MinutesPerDay)>>
           /\ RulesOf(r)[2].name = "agent-day"
  <1>1. RulesOf(r)[k].name = "agent-global-day"
    BY WinFields
  <1>3. k = 3 /\ r.surface = "agent"
    BY <1>1, RuleNameAt
  <1>4. Len(RulesOf(r)) = 3 /\ RulesOf(r) = Checks("agent", r.client)
    BY <1>3, AgentRules DEF RulesOf
  <1>5. /\ RulesOf(r)[2] = Rule("agent-day", AgentPerDay, MinutesPerDay, r.client)
        /\ RulesOf(r)[3] = Rule("agent-global-day", AgentGlobalPerDay, MinutesPerDay, Global)
    BY <1>4, AgentRules
  <1>6. /\ Win(r, 3) = <<"agent-global-day", Global, WindowStartOf(r.since, MinutesPerDay)>>
        /\ Win(r, 2) = <<"agent-day", r.client, WindowStartOf(r.since, MinutesPerDay)>>
        /\ RulesOf(r)[2].name = "agent-day"
    BY <1>5 DEF Win, WindowOf, Rule
  <1>7. QED
    BY <1>3, <1>4, <1>6 DEF Requests

-----------------------------------------------------------------------------
(* Requests and rows. *)

LEMMA RequestAt ==
    ASSUME NEW rs \in Seq(Requests), NEW i \in DOMAIN rs
    PROVE  rs[i] \in Requests /\ Len(rs) \in Nat /\ DOMAIN rs = 1 .. Len(rs)
  OBVIOUS

LEMMA CountersFinite ==
    ASSUME NEW rs \in Seq(Requests), NEW w
    PROVE  /\ IsFiniteSet(CountedIn(rs, w)) /\ IsFiniteSet(PassedIn(rs, w))
           /\ Cardinality(CountedIn(rs, w)) \in Nat /\ Cardinality(PassedIn(rs, w)) \in Nat
           /\ Cardinality(CountedIn(rs, w)) <= Len(rs)
  <1>1. PICK n : n = Len(rs)
    OBVIOUS
  <1>2. n \in Nat /\ DOMAIN rs = 1 .. n
    BY <1>1
  <1>3. IsFiniteSet(1 .. n) /\ Cardinality(1 .. n) = n
    BY <1>2, FS_Interval
  <1>4. CountedIn(rs, w) \in SUBSET (1 .. n) /\ PassedIn(rs, w) \in SUBSET (1 .. n)
    BY <1>2 DEF CountedIn, PassedIn
  <1>5. /\ IsFiniteSet(CountedIn(rs, w)) /\ IsFiniteSet(PassedIn(rs, w))
        /\ Cardinality(CountedIn(rs, w)) <= n
    BY <1>3, <1>4, FS_Subset
  <1>6. QED
    BY <1>1, <1>5, FS_CardinalityType

\* A ceiling that did not refuse a request has counted it.
LEMMA PassedAreCounted ==
    ASSUME NEW t, NEW ws, NEW r, RequestFits(r, t, ws)
    PROVE  /\ Passed(r) \subseteq 1 .. r.counted /\ 1 .. r.counted \subseteq 1 .. Len(RulesOf(r))
           /\ PassedBy(r) \subseteq CountedBy(r)
  <1>1. /\ r.check \in Nat /\ r.counted \in Nat /\ r.check >= 1 /\ r.at \in Stages
        /\ r.counted <= Len(RulesOf(r)) /\ r.check <= Len(RulesOf(r))
    BY DEF RequestFits, Requests
  <1>2. PICK n : n = Len(RulesOf(r))
    OBVIOUS
  <1>3. n \in {1, 3}
    BY <1>2, AgentRules, PaymentRules DEF RulesOf, RequestFits, Requests, Surfaces
  <1>4. CASE r.at \in {"Allowed", "Admitted"}
    <2>1. r.counted = n /\ Passed(r) = 1 .. n
      BY <1>2, <1>4 DEF RequestFits, Passed
    <2>2. QED
      BY <2>1, <1>2 DEF PassedBy, CountedBy
  <1>5. CASE r.at \notin {"Allowed", "Admitted"}
    <2>1. r.counted = r.check - 1 \/ r.counted = r.check
      BY <1>1, <1>5 DEF RequestFits, Stages
    <2>2. Passed(r) = 1 .. r.check - 1
      BY <1>5 DEF Passed
    <2>3. \A k \in 1 .. r.check - 1 : k \in 1 .. r.counted
      BY <1>1, <2>1
    <2>4. \A k \in 1 .. r.counted : k \in 1 .. Len(RulesOf(r))
      BY <1>1, <1>2, <1>3
    <2>5. QED
      BY <2>2, <2>3, <2>4 DEF PassedBy, CountedBy
  <1>6. QED
    BY <1>4, <1>5

\* The rows of a request at work are not old enough to be pruned.
LEMMA RowsAreCurrent ==
    ASSUME NEW t \in Times, NEW ws, NEW r, RequestFits(r, t, ws), InProgress(r),
           NEW k \in 1 .. Len(RulesOf(r))
    PROVE  /\ Win(r, k)[3] >= t - Retention
           /\ t - Retention \in Int /\ Win(r, k)[3] \in Nat
  <1>1. PICK start : start = Win(r, k)[3]
    OBVIOUS
  <1>2. start \in Nat /\ r.since \in Nat /\ r.since < start + MinutesPerDay
    BY <1>1, WinFields DEF RequestFits
  <1>3. t <= r.since + Patience /\ t \in Nat
    BY Limits DEF RequestFits
  <1>4. t - Retention = t - 2 * MinutesPerDay
    BY DEF Retention
  <1>5. start >= t - 2 * MinutesPerDay
    BY <1>2, <1>3, Limits
  <1>6. QED
    BY <1>1, <1>2, <1>3, <1>4, <1>5, Limits

LEMMA SameIdentity ==
    ASSUME NEW r, NEW r2, r2.surface = r.surface, r2.client = r.client, r2.since = r.since
    PROVE  RulesOf(r2) = RulesOf(r) /\ \A k : Win(r2, k) = Win(r, k)
  BY DEF RulesOf, Win

-----------------------------------------------------------------------------
(* A step that counts nothing. *)

LEMMA QuietStep ==
    ASSUME NEW t, NEW ws, NEW rs, RateInvOf(t, ws, rs), NEW i \in DOMAIN rs,
           NEW r2, RequestFits(r2, t, ws), InProgress(r2) => InProgress(rs[i]),
           r2.surface = rs[i].surface, r2.client = rs[i].client, r2.since = rs[i].since,
           r2.counted = rs[i].counted, Passed(r2) = Passed(rs[i])
    PROVE  RateInvOf(t, ws, [rs EXCEPT ![i] = r2])
  <1>1. PICK rs2 : rs2 = [rs EXCEPT ![i] = r2]
    OBVIOUS
  <1>2. rs \in Seq(Requests) /\ r2 \in Requests
    BY DEF RateInvOf, RequestFits
  <1>3. /\ rs2 \in Seq(Requests) /\ Len(rs2) = Len(rs) /\ DOMAIN rs2 = DOMAIN rs
        /\ rs2[i] = r2 /\ \A j \in DOMAIN rs : j # i => rs2[j] = rs[j]
    BY <1>1, <1>2
  <1>4. CountedBy(r2) = CountedBy(rs[i]) /\ PassedBy(r2) = PassedBy(rs[i])
    BY SameIdentity DEF CountedBy, PassedBy
  <1>5. \A w : CountedIn(rs2, w) = CountedIn(rs, w) /\ PassedIn(rs2, w) = PassedIn(rs, w)
    BY <1>3, <1>4 DEF CountedIn, PassedIn
  <1>6. \A w \in DOMAIN ws : RowFits(w, ws, rs2)
    BY <1>5 DEF RateInvOf, RowFits
  <1>7. CountsStand(r2, t, ws)
    BY <1>4, SameIdentity DEF RateInvOf, CountsStand
  <1>8. \A j \in DOMAIN rs2 : RequestFits(rs2[j], t, ws) /\ CountsStand(rs2[j], t, ws)
    BY <1>3, <1>7 DEF RateInvOf
  <1>9. LimitsStand(rs2)
    BY <1>3, <1>4, <1>5 DEF RateInvOf, LimitsStand
  <1>10. QED
    BY <1>1, <1>3, <1>6, <1>8, <1>9 DEF RateInvOf

-----------------------------------------------------------------------------
(* A step that counts a request in one more row. *)

HitsIn(ws, w) == IF w \in DOMAIN ws THEN ws[w] ELSE 0
CountedTo(ws, w) ==
    [v \in DOMAIN ws \cup {w} |-> IF v = w THEN HitsIn(ws, v) + 1 ELSE HitsIn(ws, v)]

\* A row's count is the number of requests in it, also while there is no row.
LEMMA HitsAreCounters ==
    ASSUME NEW t, NEW ws, NEW rs, RateInvOf(t, ws, rs), NEW i \in DOMAIN rs,
           InProgress(rs[i]), NEW k \in 1 .. Len(RulesOf(rs[i]))
    PROVE  /\ HitsIn(ws, Win(rs[i], k)) = Cardinality(CountedIn(rs, Win(rs[i], k)))
           /\ \A j \in DOMAIN rs : Win(rs[i], k) \in CountedBy(rs[j]) => Win(rs[i], k) \in DOMAIN ws
  <1>1. PICK w : w = Win(rs[i], k)
    OBVIOUS
  <1>2. w[3] >= t - Retention /\ t - Retention \in Int /\ w[3] \in Nat
    BY <1>1, RowsAreCurrent DEF RateInvOf
  <1>3. ASSUME NEW j \in DOMAIN rs, w \in CountedBy(rs[j]) PROVE w \in DOMAIN ws
    <2>1. w \in DOMAIN ws \/ w[3] < t - Retention
      BY <1>3 DEF RateInvOf, CountsStand
    <2>2. QED
      BY <2>1, <1>2
  <1>4. CASE w \in DOMAIN ws
    BY <1>1, <1>3, <1>4 DEF RateInvOf, RowFits, HitsIn
  <1>5. CASE w \notin DOMAIN ws
    <2>1. CountedIn(rs, w) = {}
      BY <1>3, <1>5 DEF CountedIn
    <2>2. Cardinality(CountedIn(rs, w)) = 0
      BY <2>1, FS_EmptySet
    <2>3. HitsIn(ws, w) = 0
      BY <1>5 DEF HitsIn
    <2>4. QED
      BY <1>1, <1>3, <2>2, <2>3
  <1>6. QED
    BY <1>4, <1>5

\* What a count leaves of the requests, and whom it adds.
LEMMA OneMoreCounted ==
    ASSUME NEW rs \in Seq(Requests), NEW i \in DOMAIN rs, NEW r2 \in Requests,
           r2.surface = rs[i].surface, r2.client = rs[i].client, r2.since = rs[i].since,
           rs[i].counted = rs[i].check - 1, r2.counted = rs[i].check,
           rs[i].check <= Len(RulesOf(rs[i]))
    PROVE  LET w == WindowNow(rs[i]) IN
           /\ CountedBy(r2) = CountedBy(rs[i]) \cup {w} /\ w \notin CountedBy(rs[i])
           /\ rs[i].check \in 1 .. Len(RulesOf(rs[i])) /\ w = Win(rs[i], rs[i].check)
  <1>1. PICK r : r = rs[i]
    OBVIOUS
  <1>2. r \in Requests /\ r.check \in 1 .. 3
    BY <1>1, RequestAt DEF Requests
  <1>3. PICK n : n = Len(RulesOf(r))
    OBVIOUS
  <1>4. n \in {1, 3}
    BY <1>2, <1>3, AgentRules, PaymentRules DEF RulesOf, Requests, Surfaces
  <1>5. r.check <= n /\ r.check \in 1 .. n
    BY <1>1, <1>2, <1>3, <1>4
  <1>6. WindowNow(r) = Win(r, r.check)
    BY DEF WindowNow, RuleNow, Win
  <1>7. 1 .. r.check = (1 .. r.check - 1) \cup {r.check}
    BY <1>2
  <1>8. CountedBy(r2) = {Win(r, k) : k \in 1 .. r.check}
    BY <1>1, SameIdentity DEF CountedBy
  <1>9. CountedBy(r) = {Win(r, k) : k \in 1 .. r.check - 1}
    BY <1>1 DEF CountedBy
  <1>10. CountedBy(r2) = CountedBy(r) \cup {Win(r, r.check)}
    BY <1>7, <1>8, <1>9
  <1>11. ASSUME NEW k \in 1 .. r.check - 1, Win(r, k) = Win(r, r.check) PROVE FALSE
    <2>1. k \in 1 .. n /\ k # r.check
      BY <1>2, <1>4, <1>5, <1>11
    <2>2. QED
      BY <2>1, <1>2, <1>3, <1>5, <1>11, WinsDiffer
  <1>12. Win(r, r.check) \notin CountedBy(r)
    BY <1>9, <1>11
  <1>13. QED
    BY <1>1, <1>3, <1>5, <1>6, <1>10, <1>12

LEMMA CountStep ==
    ASSUME NEW t, NEW ws, NEW rs, RateInvOf(t, ws, rs), NEW i \in DOMAIN rs,
           NEW w, w = WindowNow(rs[i]), rs[i].at \in {"Counting", "Inserting"},
           NEW r2, RequestFits(r2, t, CountedTo(ws, w)),
           r2.surface = rs[i].surface, r2.client = rs[i].client, r2.since = rs[i].since,
           r2.counted = rs[i].counted + 1,
           \/ Passed(r2) = Passed(rs[i])
           \/ /\ Passed(r2) = Passed(rs[i]) \cup {rs[i].check}
              /\ HitsIn(ws, w) + 1 <= LimitOf(w[1])
    PROVE  RateInvOf(t, CountedTo(ws, w), [rs EXCEPT ![i] = r2])
  <1>1. PICK rs2, ws2 : rs2 = [rs EXCEPT ![i] = r2] /\ ws2 = CountedTo(ws, w)
    OBVIOUS
  <1>2. rs \in Seq(Requests) /\ r2 \in Requests
    BY DEF RateInvOf, RequestFits
  <1>3. /\ rs2 \in Seq(Requests) /\ Len(rs2) = Len(rs) /\ DOMAIN rs2 = DOMAIN rs
        /\ rs2[i] = r2 /\ \A j \in DOMAIN rs : j # i => rs2[j] = rs[j]
    BY <1>1, <1>2
  <1>4. /\ InProgress(rs[i]) /\ rs[i].counted = rs[i].check - 1
        /\ rs[i].check <= Len(RulesOf(rs[i])) /\ RequestFits(rs[i], t, ws)
    BY DEF RateInvOf, RequestFits, InProgress, Answers
  <1>5. rs[i].check \in Int
    <2>1. PICK r : r = rs[i]
      OBVIOUS
    <2>2. r \in Requests
      BY <2>1, <1>2, RequestAt
    <2>3. r.check \in Int
      BY <2>2 DEF Requests
    <2>4. QED
      BY <2>1, <2>3
  <1>6. r2.counted = rs[i].check
    BY <1>4, <1>5
  <1>7. /\ CountedBy(r2) = CountedBy(rs[i]) \cup {w} /\ w \notin CountedBy(rs[i])
        /\ rs[i].check \in 1 .. Len(RulesOf(rs[i])) /\ w = Win(rs[i], rs[i].check)
    BY <1>2, <1>4, <1>6, OneMoreCounted
  <1>8. /\ HitsIn(ws, w) = Cardinality(CountedIn(rs, w))
        /\ \A j \in DOMAIN rs : w \in CountedBy(rs[j]) => w \in DOMAIN ws
    BY <1>4, <1>7, HitsAreCounters
  <1>9. /\ DOMAIN ws2 = DOMAIN ws \cup {w} /\ ws2[w] = HitsIn(ws, w) + 1
        /\ \A v \in DOMAIN ws : v # w => ws2[v] = ws[v]
    BY <1>1 DEF CountedTo, HitsIn
  <1>10. /\ CountedIn(rs2, w) = CountedIn(rs, w) \cup {i} /\ i \notin CountedIn(rs, w)
         /\ \A v : v # w => CountedIn(rs2, v) = CountedIn(rs, v)
    BY <1>3, <1>7 DEF CountedIn
  <1>11. /\ Cardinality(CountedIn(rs2, w)) = Cardinality(CountedIn(rs, w)) + 1
         /\ Cardinality(CountedIn(rs, w)) \in Nat
    <2>1. PICK old : old = CountedIn(rs, w)
      OBVIOUS
    <2>2. IsFiniteSet(old) /\ Cardinality(old) \in Nat
      BY <2>1, <1>2, CountersFinite
    <2>3. Cardinality(old \cup {i}) = Cardinality(old) + 1
      BY <2>1, <2>2, <1>10, FS_AddElement
    <2>4. QED
      BY <2>1, <2>2, <2>3, <1>10
  <1>12. ASSUME NEW v \in DOMAIN ws2 PROVE RowFits(v, ws2, rs2)
    <2>1. CASE v = w
      <3>1. w \in RuleNames \X (Clients \cup {Global}) \X Nat
        BY <1>2, <1>7, RequestAt, WinFields
      <3>2. ws2[w] = Cardinality(CountedIn(rs, w)) + 1
        BY <1>8, <1>9
      <3>3. ws2[w] \in Nat /\ ws2[w] >= 1 /\ ws2[w] = Cardinality(CountedIn(rs2, w))
        BY <3>2, <1>11
      <3>4. QED
        BY <2>1, <3>1, <3>3 DEF RowFits
    <2>2. CASE v # w
      BY <1>9, <1>10, <1>12, <2>2 DEF RateInvOf, RowFits
    <2>3. QED
      BY <2>1, <2>2
  <1>13. CountsStand(r2, t, ws2)
    <2>1. CountedBy(rs[i]) \subseteq DOMAIN ws
      BY <1>4 DEF RateInvOf, CountsStand
    <2>2. CountedBy(r2) \subseteq DOMAIN ws2
      BY <2>1, <1>7, <1>9
    <2>3. ASSUME r2.counted = 3 PROVE Win(r2, 2) \in CountedBy(r2)
      BY <2>3 DEF CountedBy
    <2>4. QED
      BY <2>2, <2>3 DEF CountsStand
  <1>14. ASSUME NEW j \in DOMAIN rs, j # i PROVE CountsStand(rs[j], t, ws2)
    <2>1. CountsStand(rs[j], t, ws)
      BY DEF RateInvOf
    <2>2. ASSUME rs[j].counted = 3, Win(rs[j], 3) \in DOMAIN ws2 PROVE Win(rs[j], 3) \in DOMAIN ws
      <3>1. Win(rs[j], 3) \in CountedBy(rs[j])
        BY <2>2 DEF CountedBy
      <3>2. QED
        BY <3>1, <2>2, <1>8, <1>9
    <2>3. QED
      BY <2>1, <2>2, <1>9 DEF CountsStand
  <1>15. ASSUME NEW j \in DOMAIN rs, j # i PROVE RequestFits(rs[j], t, ws2)
    <2>1. RequestFits(rs[j], t, ws)
      BY DEF RateInvOf
    <2>2. QED
      BY <2>1, <1>9 DEF RequestFits
  <1>16. \A j \in DOMAIN rs2 : RequestFits(rs2[j], t, ws2) /\ CountsStand(rs2[j], t, ws2)
    BY <1>1, <1>3, <1>13, <1>14, <1>15
  <1>17. \A v : v # w => PassedIn(rs2, v) = PassedIn(rs, v)
    <2>1. \A v : v # w => (v \in PassedBy(r2) <=> v \in PassedBy(rs[i]))
      BY <1>7, SameIdentity DEF PassedBy
    <2>2. QED
      BY <2>1, <1>3 DEF PassedIn
  <1>18. \/ PassedIn(rs2, w) = PassedIn(rs, w) /\ PassedBy(r2) = PassedBy(rs[i])
         \/ Cardinality(PassedIn(rs2, w)) <= LimitOf(w[1])
    <2>1. CASE Passed(r2) = Passed(rs[i])
      <3>1. PassedBy(r2) = PassedBy(rs[i])
        BY <2>1, SameIdentity DEF PassedBy
      <3>2. QED
        BY <3>1, <1>3 DEF PassedIn
    <2>2. CASE HitsIn(ws, w) + 1 <= LimitOf(w[1])
      <3>1. \A j \in DOMAIN rs2 : PassedBy(rs2[j]) \subseteq CountedBy(rs2[j])
        BY <1>16, PassedAreCounted
      <3>2. PassedIn(rs2, w) \in SUBSET CountedIn(rs2, w)
        BY <3>1 DEF PassedIn, CountedIn
      <3>3. /\ Cardinality(PassedIn(rs2, w)) <= Cardinality(CountedIn(rs2, w))
            /\ Cardinality(PassedIn(rs2, w)) \in Nat
        BY <1>3, <3>2, CountersFinite, FS_Subset
      <3>4. w[1] \in RuleNames
        BY <1>2, <1>7, RequestAt, WinFields
      <3>5. LimitOf(w[1]) \in Nat
        BY <3>4, Limits DEF RuleNames, LimitOf
      <3>6. QED
        BY <3>3, <3>5, <2>2, <1>8, <1>11
    <2>3. QED
      BY <2>1, <2>2
  <1>19. LimitsStand(rs2)
    <2>1. SUFFICES ASSUME NEW j \in DOMAIN rs2, NEW v \in PassedBy(rs2[j])
                   PROVE  Cardinality(PassedIn(rs2, v)) <= LimitOf(v[1])
      BY DEF LimitsStand
    <2>2. CASE PassedIn(rs2, v) = PassedIn(rs, v)
      <3>1. j \in PassedIn(rs2, v)
        BY DEF PassedIn
      <3>2. j \in DOMAIN rs /\ v \in PassedBy(rs[j])
        BY <3>1, <2>2 DEF PassedIn
      <3>3. QED
        BY <2>2, <3>2 DEF RateInvOf, LimitsStand
    <2>3. CASE PassedIn(rs2, v) # PassedIn(rs, v)
      BY <2>3, <1>17, <1>18
    <2>4. QED
      BY <2>2, <2>3
  <1>20. QED
    BY <1>1, <1>3, <1>12, <1>16, <1>19 DEF RateInvOf

-----------------------------------------------------------------------------
(* A request arrives, rows are pruned, time passes. *)

LEMMA ArriveStep ==
    ASSUME NEW t, NEW ws, NEW rs, RateInvOf(t, ws, rs), Len(rs) < MaxRequests,
           NEW surface \in Surfaces, NEW client \in Clients
    PROVE  RateInvOf(t, ws, Append(rs, Request(surface, client, t, "Counting", 1, 0, FALSE)))
  <1>1. PICK r2 : r2 = Request(surface, client, t, "Counting", 1, 0, FALSE)
    OBVIOUS
  <1>2. /\ r2.surface = surface /\ r2.client = client /\ r2.since = t /\ r2.at = "Counting"
        /\ r2.check = 1 /\ r2.counted = 0 /\ ~r2.again
    BY <1>1 DEF Request
  <1>3. t \in Times /\ rs \in Seq(Requests) /\ Len(rs) \in Nat
    BY DEF RateInvOf
  <1>4. r2 \in Requests
    BY <1>1, <1>3 DEF Request, Requests, Stages
  <1>5. PICK rs2 : rs2 = Append(rs, r2)
    OBVIOUS
  <1>6. /\ rs2 \in Seq(Requests) /\ Len(rs2) = Len(rs) + 1
        /\ DOMAIN rs2 = DOMAIN rs \cup {Len(rs2)}
        /\ rs2[Len(rs2)] = r2 /\ \A j \in DOMAIN rs : rs2[j] = rs[j]
    BY <1>3, <1>4, <1>5
  <1>7. Len(rs2) <= MaxRequests
    BY <1>3, <1>6, Limits
  <1>8. CountedBy(r2) = {} /\ PassedBy(r2) = {}
    <2>1. 1 .. r2.counted = {} /\ Passed(r2) = {}
      BY <1>2 DEF Passed
    <2>2. QED
      BY <2>1 DEF CountedBy, PassedBy
  <1>9. \A w : CountedIn(rs2, w) = CountedIn(rs, w) /\ PassedIn(rs2, w) = PassedIn(rs, w)
    BY <1>6, <1>8 DEF CountedIn, PassedIn
  <1>10. RequestFits(r2, t, ws)
    <2>1. Len(RulesOf(r2)) \in {1, 3}
      BY <1>2, AgentRules, PaymentRules DEF RulesOf, Surfaces
    <2>2. r2.since <= t /\ t <= r2.since + Patience
      BY <1>2, <1>3, Limits
    <2>3. PICK n : n = Len(RulesOf(r2))
      OBVIOUS
    <2>4. r2.check <= n /\ r2.counted <= n /\ r2.counted = r2.check - 1
      BY <2>1, <2>3, <1>2
    <2>5. QED
      BY <2>2, <2>3, <2>4, <1>2, <1>4 DEF RequestFits
  <1>11. CountsStand(r2, t, ws)
    BY <1>2, <1>8 DEF CountsStand
  <1>12. \A w \in DOMAIN ws : RowFits(w, ws, rs2)
    BY <1>9 DEF RateInvOf, RowFits
  <1>13. \A j \in DOMAIN rs2 : RequestFits(rs2[j], t, ws) /\ CountsStand(rs2[j], t, ws)
    BY <1>6, <1>10, <1>11 DEF RateInvOf
  <1>14. LimitsStand(rs2)
    <2>1. \A j \in DOMAIN rs2 : \A w \in PassedBy(rs2[j]) : j \in DOMAIN rs /\ w \in PassedBy(rs[j])
      BY <1>6, <1>8
    <2>2. QED
      BY <2>1, <1>9 DEF RateInvOf, LimitsStand
  <1>15. QED
    BY <1>1, <1>3, <1>5, <1>6, <1>7, <1>12, <1>13, <1>14 DEF RateInvOf

\* What pruneExpiredWindows keeps.
Kept(t, ws) == [w \in {v \in DOMAIN ws : v[3] >= t - Retention} |-> ws[w]]

LEMMA PruneRows ==
    ASSUME NEW t, NEW ws, NEW rs, RateInvOf(t, ws, rs)
    PROVE  RateInvOf(t, Kept(t, ws), rs)
  <1>1. PICK ws2 : ws2 = Kept(t, ws)
    OBVIOUS
  <1>2. /\ DOMAIN ws2 = {v \in DOMAIN ws : v[3] >= t - Retention}
        /\ \A v \in DOMAIN ws2 : ws2[v] = ws[v]
    BY <1>1 DEF Kept
  <1>3. t \in Times /\ t - Retention \in Int
    BY Limits DEF RateInvOf, Retention
  <1>4. \A w \in DOMAIN ws2 : RowFits(w, ws2, rs)
    BY <1>2 DEF RateInvOf, RowFits
  <1>5. ASSUME NEW r, RequestFits(r, t, ws), CountsStand(r, t, ws)
        PROVE  RequestFits(r, t, ws2) /\ CountsStand(r, t, ws2)
    <2>1. r \in Requests /\ 1 .. r.counted \subseteq 1 .. Len(RulesOf(r))
      BY <1>5, PassedAreCounted DEF RequestFits
    <2>2. \A w \in CountedBy(r) : w[3] \in Nat
      BY <2>1, WinFields DEF CountedBy
    <2>3. \A w \in CountedBy(r) : w \in DOMAIN ws2 \/ w[3] < t - Retention
      BY <2>2, <1>2, <1>3, <1>5 DEF CountsStand
    <2>4. ASSUME InProgress(r) PROVE CountedBy(r) \subseteq DOMAIN ws2
      <3>1. \A k \in 1 .. r.counted : Win(r, k)[3] >= t - Retention
        BY <2>1, <2>4, <1>3, <1>5, RowsAreCurrent
      <3>2. QED
        BY <3>1, <2>4, <1>2, <1>5 DEF CountsStand, CountedBy
    <2>5. ASSUME r.counted = 3, Win(r, 3) \in DOMAIN ws2 PROVE Win(r, 2) \in DOMAIN ws2
      <3>1. 3 \in 1 .. Len(RulesOf(r))
        BY <2>1, <2>5
      <3>2. Win(r, 3)[1] = "agent-global-day"
        BY <3>1, <2>1, RuleNameAt, WinFields
      <3>3. Win(r, 2)[3] = Win(r, 3)[3]
        BY <3>1, <3>2, <2>1, DayWindows
      <3>4. QED
        BY <3>3, <2>5, <1>2, <1>5 DEF CountsStand
    <2>6. ASSUME r.again, r.at = "Counting" PROVE WindowNow(r) \in DOMAIN ws2
      <3>1. InProgress(r)
        BY <2>6 DEF InProgress, Answers
      <3>2. PICK n : n = Len(RulesOf(r))
        OBVIOUS
      <3>3. n \in {1, 3}
        BY <2>1, <3>2, AgentRules, PaymentRules DEF RulesOf, Requests, Surfaces
      <3>4. r.check \in 1 .. n
        BY <3>2, <3>3, <1>5 DEF RequestFits, Requests
      <3>5. Win(r, r.check)[3] >= t - Retention
        BY <3>1, <3>2, <3>4, <1>3, <1>5, RowsAreCurrent
      <3>6. WindowNow(r) = Win(r, r.check)
        BY DEF WindowNow, RuleNow, Win
      <3>7. WindowNow(r) \in DOMAIN ws
        BY <2>6, <1>5 DEF RequestFits
      <3>8. QED
        BY <3>5, <3>6, <3>7, <1>2
    <2>7. QED
      BY <2>3, <2>4, <2>5, <2>6, <1>5 DEF RequestFits, CountsStand
  <1>6. QED
    BY <1>1, <1>4, <1>5 DEF RateInvOf

LEMMA TimePasses ==
    ASSUME NEW t, NEW ws, NEW rs, RateInvOf(t, ws, rs), NEW later \in Times, later > t,
           \A i \in DOMAIN rs : InProgress(rs[i]) => later <= rs[i].since + Patience
    PROVE  RateInvOf(later, ws, rs)
  <1>1. /\ t \in Nat /\ later \in Nat /\ t - Retention \in Int /\ later - Retention \in Int
        /\ t - Retention < later - Retention
    BY Limits DEF RateInvOf, Retention
  <1>2. ASSUME NEW i \in DOMAIN rs
        PROVE  RequestFits(rs[i], later, ws) /\ CountsStand(rs[i], later, ws)
    <2>1. PICK r : r = rs[i]
      OBVIOUS
    <2>2. RequestFits(r, t, ws) /\ CountsStand(r, t, ws)
      BY <2>1 DEF RateInvOf
    <2>3. r \in Requests /\ 1 .. r.counted \subseteq 1 .. Len(RulesOf(r)) /\ r.since \in Nat
      BY <2>2, PassedAreCounted, Limits DEF RequestFits, Requests
    <2>4. r.since <= later
      BY <2>2, <2>3, <1>1 DEF RequestFits
    <2>5. RequestFits(r, later, ws)
      BY <2>1, <2>2, <2>4 DEF RequestFits
    <2>6. \A w \in CountedBy(r) : w[3] \in Nat
      BY <2>3, WinFields DEF CountedBy
    <2>7. \A w \in CountedBy(r) : w \in DOMAIN ws \/ w[3] < later - Retention
      BY <2>2, <2>6, <1>1 DEF CountsStand
    <2>8. QED
      BY <2>1, <2>2, <2>5, <2>7 DEF CountsStand
  <1>3. QED
    BY <1>2 DEF RateInvOf

-----------------------------------------------------------------------------
(* What each action makes of a request. *)

LEMMA NumbersOfRequest ==
    ASSUME NEW t, NEW ws, NEW r, RequestFits(r, t, ws)
    PROVE  /\ r \in Requests /\ r.check \in 1 .. 3 /\ r.check \in Nat /\ r.counted \in Nat
           /\ Len(RulesOf(r)) \in {1, 3} /\ r.check <= Len(RulesOf(r))
           /\ r.check \in 1 .. Len(RulesOf(r))
  <1>1. PICK n : n = Len(RulesOf(r))
    OBVIOUS
  <1>2. n \in {1, 3} /\ r.check \in 1 .. 3 /\ r.check <= n /\ r.counted \in 0 .. 3
    BY <1>1, AgentRules, PaymentRules DEF RulesOf, RequestFits, Requests, Surfaces
  <1>3. r.check \in 1 .. n /\ r.counted \in Nat
    BY <1>2
  <1>4. QED
    BY <1>1, <1>2, <1>3 DEF RequestFits

HasRow(r, ws) == WindowNow(r) \in DOMAIN ws

\* It stays at its ceiling.
LEMMA StaysFits ==
    ASSUME NEW t, NEW ws, NEW r, RequestFits(r, t, ws), r.at \in {"Counting", "Inserting"},
           NEW r2 \in Requests,
           r2.surface = r.surface, r2.client = r.client, r2.since = r.since,
           r2.check = r.check, r2.counted = r.counted,
           r2.at \in {"Counting", "Inserting", "Failed"},
           r2.again => r2.at # "Inserting",
           r2.again /\ r2.at = "Counting" => HasRow(r, ws)
    PROVE  RequestFits(r2, t, ws) /\ InProgress(r) /\ Passed(r2) = Passed(r)
  <1>1. RulesOf(r2) = RulesOf(r) /\ WindowNow(r2) = WindowNow(r)
    BY DEF RulesOf, WindowNow, RuleNow
  <1>2. InProgress(r)
    BY DEF InProgress, Answers
  <1>3. r2.counted = r2.check - 1
    BY DEF RequestFits
  <1>4. RequestFits(r2, t, ws)
    BY <1>1, <1>2, <1>3 DEF RequestFits, HasRow
  <1>5. Passed(r2) = Passed(r)
    BY DEF Passed
  <1>6. QED
    BY <1>2, <1>4, <1>5

\* It is let go.
LEMMA AdmittedFits ==
    ASSUME NEW t, NEW ws, NEW r, RequestFits(r, t, ws), r.at = "Allowed"
    PROVE  LET r2 == Moved(r, "Admitted", FALSE) IN
           /\ RequestFits(r2, t, ws) /\ ~InProgress(r2) /\ Passed(r2) = Passed(r)
           /\ r2.surface = r.surface /\ r2.client = r.client /\ r2.since = r.since
           /\ r2.counted = r.counted
  <1>1. PICK r2 : r2 = Moved(r, "Admitted", FALSE)
    OBVIOUS
  <1>2. /\ r2.surface = r.surface /\ r2.client = r.client /\ r2.since = r.since
        /\ r2.at = "Admitted" /\ r2.check = r.check /\ r2.counted = r.counted /\ ~r2.again
    BY <1>1 DEF Moved, Request
  <1>3. r2 \in Requests
    BY <1>1 DEF Moved, Request, Requests, RequestFits, Stages
  <1>4. RulesOf(r2) = RulesOf(r) /\ ~InProgress(r2)
    BY <1>2 DEF RulesOf, InProgress, Answers
  <1>5. RequestFits(r2, t, ws)
    BY <1>2, <1>3, <1>4 DEF RequestFits
  <1>6. Passed(r2) = Passed(r)
    BY <1>2, <1>4 DEF Passed
  <1>7. QED
    BY <1>1, <1>2, <1>4, <1>5, <1>6

\* Its answer is lost, after the statement was carried out.
LEMMA LostFits ==
    ASSUME NEW t, NEW ws, NEW ws2, NEW r, RequestFits(r, t, ws), r.at \in {"Counting", "Inserting"}
    PROVE  LET r2 == Request(r.surface, r.client, r.since, "Failed", r.check,
                             r.counted + 1, r.again) IN
           /\ RequestFits(r2, t, ws2) /\ Passed(r2) = Passed(r)
           /\ r2.surface = r.surface /\ r2.client = r.client /\ r2.since = r.since
           /\ r2.counted = r.counted + 1
  <1>1. PICK r2 : r2 = Request(r.surface, r.client, r.since, "Failed", r.check,
                               r.counted + 1, r.again)
    OBVIOUS
  <1>2. /\ r2.surface = r.surface /\ r2.client = r.client /\ r2.since = r.since
        /\ r2.at = "Failed" /\ r2.check = r.check /\ r2.counted = r.counted + 1
        /\ r2.again = r.again
    BY <1>1 DEF Request
  <1>3. r.counted + 1 = r.check /\ r.check \in 1 .. 3
    <2>1. r.check \in 1 .. 3 /\ r.check \in Nat /\ r.counted \in Nat
      BY NumbersOfRequest
    <2>2. r.counted = r.check - 1
      BY DEF RequestFits
    <2>3. QED
      BY <2>1, <2>2
  <1>4. r2 \in Requests
    BY <1>1, <1>3 DEF Request, Requests, RequestFits, Stages
  <1>5. RulesOf(r2) = RulesOf(r) /\ ~InProgress(r2)
    BY <1>2 DEF RulesOf, InProgress, Answers
  <1>6. RequestFits(r2, t, ws2)
    BY <1>2, <1>3, <1>4, <1>5 DEF RequestFits
  <1>7. Passed(r2) = Passed(r)
    BY <1>2 DEF Passed
  <1>8. QED
    BY <1>1, <1>2, <1>6, <1>7

\* It is counted, and the count decides.
LEMMA CountedFits ==
    ASSUME NEW t, NEW ws, NEW ws2, NEW r, RequestFits(r, t, ws),
           r.at \in {"Counting", "Inserting"}, NEW hits \in Nat
    PROVE  LET r2 == After(r, hits) IN
           /\ RequestFits(r2, t, ws2)
           /\ r2.surface = r.surface /\ r2.client = r.client /\ r2.since = r.since
           /\ r2.counted = r.counted + 1
           /\ \/ Passed(r2) = Passed(r)
              \/ Passed(r2) = Passed(r) \cup {r.check} /\ hits <= LimitOf(WindowNow(r)[1])
  <1>1. PICK r2 : r2 = After(r, hits)
    OBVIOUS
  <1>2. PICK n : n = Len(RulesOf(r))
    OBVIOUS
  <1>3. /\ n \in {1, 3} /\ r.check \in 1 .. n /\ r.check \in 1 .. 3
        /\ r.counted + 1 = r.check /\ r.since <= t /\ r \in Requests
        /\ t <= r.since + Patience
    <2>1. /\ n \in {1, 3} /\ r.check \in 1 .. n /\ r.check \in 1 .. 3 /\ r \in Requests
          /\ r.check \in Nat /\ r.counted \in Nat
      BY <1>2, NumbersOfRequest
    <2>2. r.counted = r.check - 1 /\ r.since <= t /\ t <= r.since + Patience
      BY DEF RequestFits, InProgress, Answers
    <2>3. QED
      BY <2>1, <2>2
  <1>4. /\ r2.surface = r.surface /\ r2.client = r.client /\ r2.since = r.since
        /\ r2.counted = r.check /\ ~r2.again
        /\ \/ IsOverLimit(hits, RuleNow(r)) /\ r2.at = "Refused" /\ r2.check = r.check
           \/ /\ ~IsOverLimit(hits, RuleNow(r)) /\ r.check = n
              /\ r2.at = "Allowed" /\ r2.check = r.check
           \/ /\ ~IsOverLimit(hits, RuleNow(r)) /\ r.check # n
              /\ r2.at = "Counting" /\ r2.check = r.check + 1
    BY <1>1, <1>2, <1>3 DEF After, Request
  <1>5. r2.check \in 1 .. n /\ r2.check \in 1 .. 3
    BY <1>3, <1>4
  <1>6. r2 \in Requests
    <2>1. r2 = Request(r.surface, r.client, r.since, r2.at, r2.check, r2.counted, r2.again)
      BY <1>1 DEF After, Request
    <2>2. r2.at \in Stages /\ r2.counted \in 0 .. 3 /\ r2.again \in BOOLEAN
      BY <1>1, <1>3, <1>4 DEF Stages, After, Request
    <2>3. QED
      BY <2>1, <2>2, <1>3, <1>5 DEF Request, Requests
  <1>7. RulesOf(r2) = RulesOf(r)
    BY <1>4, SameIdentity
  <1>8. RequestFits(r2, t, ws2)
    <2>1. r2.check <= n /\ r2.counted <= n /\ (r2.at = "Counting" => r2.counted = r2.check - 1)
      BY <1>3, <1>4, <1>5
    <2>2. r2.at = "Allowed" => r2.counted = n
      BY <1>4
    <2>3. r2.at = "Refused" => r2.counted = r2.check
      BY <1>4
    <2>4. r2.since <= t /\ t <= r2.since + Patience
      BY <1>3, <1>4
    <2>5. r2.at \in {"Counting", "Allowed", "Refused"}
      BY <1>4
    <2>6. QED
      BY <2>1, <2>2, <2>3, <2>4, <2>5, <1>2, <1>4, <1>6, <1>7 DEF RequestFits
  <1>9. Passed(r) = 1 .. r.check - 1
    BY DEF Passed
  <1>10. CASE r2.at = "Refused"
    BY <1>1, <1>3, <1>4, <1>8, <1>9, <1>10 DEF Passed
  <1>11. CASE r2.at # "Refused"
    <2>1. Passed(r2) = 1 .. r.check
      BY <1>2, <1>3, <1>4, <1>7, <1>11 DEF Passed
    <2>2. 1 .. r.check = (1 .. r.check - 1) \cup {r.check}
      BY <1>3
    <2>3. RuleNow(r).limit = LimitOf(RuleNow(r).name) /\ RuleNow(r).limit \in Nat
      BY <1>2, <1>3, RuleFields DEF RuleNow
    <2>4. WindowNow(r)[1] = RuleNow(r).name
      BY DEF WindowNow, WindowOf
    <2>5. hits <= LimitOf(WindowNow(r)[1])
      BY <2>3, <2>4, <1>4, <1>11 DEF IsOverLimit
    <2>6. QED
      BY <2>1, <2>2, <2>5, <1>1, <1>3, <1>4, <1>8, <1>9
  <1>12. QED
    BY <1>10, <1>11

-----------------------------------------------------------------------------
(* The actions. *)

LEMMA InitRate ==
    Init => RateInv
  <1>1. SUFFICES ASSUME Init PROVE RateInv
    OBVIOUS
  <1>2. requests = <<>> /\ windows = [w \in {} |-> 0] /\ now \in Times
    BY <1>1 DEF Init
  <1>3. DOMAIN requests = {} /\ DOMAIN windows = {} /\ Len(requests) = 0
        /\ requests \in Seq(Requests)
    BY <1>2
  <1>4. Len(requests) <= MaxRequests
    BY <1>3, Limits
  <1>5. QED
    BY <1>2, <1>3, <1>4 DEF RateInv, RateInvOf, LimitsStand

LEMMA RowsOfNow ==
    /\ \A w : Hits(w) = HitsIn(windows, w) /\ OneMore(w) = CountedTo(windows, w)
  BY DEF Hits, OneMore, HitsIn, CountedTo

LEMMA ArriveKeeps ==
    ASSUME RateInv, NEW surface \in Surfaces, NEW client \in Clients, Arrive(surface, client)
    PROVE  RateInv'
  <1>1. PICK rs : rs = requests
    OBVIOUS
  <1>2. PICK t, ws : t = now /\ ws = windows
    OBVIOUS
  <1>3. /\ RateInvOf(t, ws, rs) /\ Len(rs) < MaxRequests
        /\ requests' = Append(rs, Request(surface, client, t, "Counting", 1, 0, FALSE))
        /\ now' = t /\ windows' = ws
    BY <1>1, <1>2 DEF RateInv, Arrive
  <1>4. RateInvOf(t, ws, Append(rs, Request(surface, client, t, "Counting", 1, 0, FALSE)))
    BY <1>3, ArriveStep
  <1>5. RateInvOf(now', windows', requests')
    BY <1>3, <1>4
  <1>6. QED
    BY <1>5 DEF RateInv

\* A step that carries a statement out.
LEMMA CarriedOut ==
    ASSUME RateInv, NEW i \in DOMAIN requests, requests[i].at \in {"Counting", "Inserting"},
           NEW r2, RequestFits(r2, now, OneMore(WindowNow(requests[i]))),
           r2.surface = requests[i].surface, r2.client = requests[i].client,
           r2.since = requests[i].since, r2.counted = requests[i].counted + 1,
           \/ Passed(r2) = Passed(requests[i])
           \/ /\ Passed(r2) = Passed(requests[i]) \cup {requests[i].check}
              /\ Hits(WindowNow(requests[i])) + 1 <= LimitOf(WindowNow(requests[i])[1]),
           windows' = OneMore(WindowNow(requests[i])), Become(i, r2), UNCHANGED now
    PROVE  RateInv'
  <1>1. PICK w : w = WindowNow(requests[i])
    OBVIOUS
  <1>2. OneMore(w) = CountedTo(windows, w) /\ Hits(w) = HitsIn(windows, w)
    BY RowsOfNow
  <1>3. RateInvOf(now, windows, requests)
    BY DEF RateInv
  <1>4. RequestFits(r2, now, CountedTo(windows, w))
    BY <1>1, <1>2
  <1>5. \/ Passed(r2) = Passed(requests[i])
        \/ /\ Passed(r2) = Passed(requests[i]) \cup {requests[i].check}
           /\ HitsIn(windows, w) + 1 <= LimitOf(w[1])
    BY <1>1, <1>2
  <1>6. RateInvOf(now, CountedTo(windows, w), [requests EXCEPT ![i] = r2])
    BY <1>1, <1>3, <1>4, <1>5, CountStep
  <1>7. now' = now /\ windows' = CountedTo(windows, w) /\ requests' = [requests EXCEPT ![i] = r2]
    BY <1>1, <1>2 DEF Become
  <1>8. RateInvOf(now', windows', requests')
    BY <1>6, <1>7
  <1>9. QED
    BY <1>8 DEF RateInv

\* A step that carries none out.
LEMMA NotCarriedOut ==
    ASSUME RateInv, NEW i \in DOMAIN requests, NEW r2, RequestFits(r2, now, windows),
           InProgress(r2) => InProgress(requests[i]),
           r2.surface = requests[i].surface, r2.client = requests[i].client,
           r2.since = requests[i].since, r2.counted = requests[i].counted,
           Passed(r2) = Passed(requests[i]),
           windows' = windows, Become(i, r2), UNCHANGED now
    PROVE  RateInv'
  <1>1. RateInvOf(now, windows, [requests EXCEPT ![i] = r2])
    BY QuietStep DEF RateInv
  <1>2. RateInvOf(now', windows', requests')
    BY <1>1 DEF Become
  <1>3. QED
    BY <1>2 DEF RateInv

LEMMA FitsNow ==
    ASSUME RateInv, NEW i \in DOMAIN requests
    PROVE  RequestFits(requests[i], now, windows)
  BY DEF RateInv, RateInvOf

LEMMA HitsType ==
    ASSUME RateInv, NEW w
    PROVE  Hits(w) \in Nat
  BY DEF RateInv, RateInvOf, RowFits, Hits

LEMMA UpdateRowKeeps ==
    ASSUME RateInv, NEW i \in DOMAIN requests, UpdateRow(i)
    PROVE  RateInv'
  <1>1. /\ requests[i].at = "Counting" /\ UNCHANGED now
        /\ windows' = OneMore(WindowNow(requests[i]))
        /\ Become(i, After(requests[i], Hits(WindowNow(requests[i])) + 1))
    BY DEF UpdateRow, Is
  <1>2. PICK r2, hits : /\ hits = Hits(WindowNow(requests[i])) + 1
                        /\ r2 = After(requests[i], hits)
    OBVIOUS
  <1>3. hits \in Nat
    BY <1>2, HitsType
  <1>4. /\ RequestFits(r2, now, OneMore(WindowNow(requests[i])))
        /\ r2.surface = requests[i].surface /\ r2.client = requests[i].client
        /\ r2.since = requests[i].since /\ r2.counted = requests[i].counted + 1
        /\ \/ Passed(r2) = Passed(requests[i])
           \/ /\ Passed(r2) = Passed(requests[i]) \cup {requests[i].check}
              /\ hits <= LimitOf(WindowNow(requests[i])[1])
    BY <1>1, <1>2, <1>3, FitsNow, CountedFits
  <1>5. QED
    BY <1>1, <1>2, <1>4, CarriedOut

LEMMA InsertRowKeeps ==
    ASSUME RateInv, NEW i \in DOMAIN requests, InsertRow(i)
    PROVE  RateInv'
  <1>1. /\ requests[i].at = "Inserting" /\ UNCHANGED now
        /\ WindowNow(requests[i]) \notin DOMAIN windows
        /\ windows' = OneMore(WindowNow(requests[i]))
        /\ Become(i, After(requests[i], 1))
    BY DEF InsertRow, Is
  <1>2. PICK r2 : r2 = After(requests[i], 1)
    OBVIOUS
  <1>3. Hits(WindowNow(requests[i])) + 1 = 1
    BY <1>1 DEF Hits
  <1>4. /\ RequestFits(r2, now, OneMore(WindowNow(requests[i])))
        /\ r2.surface = requests[i].surface /\ r2.client = requests[i].client
        /\ r2.since = requests[i].since /\ r2.counted = requests[i].counted + 1
        /\ \/ Passed(r2) = Passed(requests[i])
           \/ /\ Passed(r2) = Passed(requests[i]) \cup {requests[i].check}
              /\ 1 <= LimitOf(WindowNow(requests[i])[1])
    BY <1>1, <1>2, FitsNow, CountedFits
  <1>5. QED
    BY <1>1, <1>2, <1>3, <1>4, CarriedOut

LEMMA ChooseInsertKeeps ==
    ASSUME RateInv, NEW i \in DOMAIN requests, ChooseInsert(i)
    PROVE  RateInv'
  <1>1. /\ requests[i].at = "Counting" /\ UNCHANGED now /\ windows' = windows
        /\ WindowNow(requests[i]) \notin DOMAIN windows
        /\ Become(i, Moved(requests[i], "Inserting", requests[i].again))
    BY DEF ChooseInsert, Is
  <1>2. RequestFits(requests[i], now, windows)
    BY FitsNow
  <1>3. requests[i].again = FALSE
    <2>1. requests[i] \in Requests /\ ~requests[i].again
      BY <1>1, <1>2 DEF RequestFits
    <2>2. requests[i].again \in BOOLEAN
      BY <2>1 DEF Requests
    <2>3. QED
      BY <2>1, <2>2
  <1>4. PICK r2 : r2 = Moved(requests[i], "Inserting", FALSE)
    OBVIOUS
  <1>5. /\ RequestFits(r2, now, windows) /\ InProgress(requests[i])
        /\ Passed(r2) = Passed(requests[i])
        /\ r2.surface = requests[i].surface /\ r2.client = requests[i].client
        /\ r2.since = requests[i].since /\ r2.counted = requests[i].counted
    <2>1. PICK r : r = requests[i]
      OBVIOUS
    <2>2. /\ RequestFits(r, now, windows) /\ r.at \in {"Counting", "Inserting"}
          /\ r2 = Moved(r, "Inserting", FALSE)
      BY <2>1, <1>1, <1>2, <1>4
    <2>3. /\ r2 \in Requests /\ r2.check = r.check /\ r2.at = "Inserting" /\ r2.again = FALSE
          /\ r2.surface = r.surface /\ r2.client = r.client /\ r2.since = r.since
          /\ r2.counted = r.counted
      BY <2>2 DEF Moved, Request, Requests, RequestFits, Stages
    <2>4. RequestFits(r2, now, windows) /\ InProgress(r) /\ Passed(r2) = Passed(r)
      BY <2>2, <2>3, StaysFits
    <2>5. QED
      BY <2>1, <2>3, <2>4
  <1>6. QED
    BY <1>1, <1>3, <1>4, <1>5, NotCarriedOut

LEMMA InsertLostKeeps ==
    ASSUME RateInv, NEW i \in DOMAIN requests, InsertLost(i)
    PROVE  RateInv'
  <1>1. /\ requests[i].at = "Inserting" /\ UNCHANGED now /\ windows' = windows
        /\ WindowNow(requests[i]) \in DOMAIN windows
        /\ Become(i, AfterUniqueViolation(requests[i]))
    BY DEF InsertLost, Is
  <1>2. RequestFits(requests[i], now, windows)
    BY FitsNow
  <1>3. PICK r2 : r2 = AfterUniqueViolation(requests[i])
    OBVIOUS
  <1>4. r2 = Moved(requests[i], "Counting", TRUE)
    BY <1>1, <1>2, <1>3 DEF RequestFits, AfterUniqueViolation
  <1>5. /\ RequestFits(r2, now, windows) /\ InProgress(requests[i])
        /\ Passed(r2) = Passed(requests[i])
        /\ r2.surface = requests[i].surface /\ r2.client = requests[i].client
        /\ r2.since = requests[i].since /\ r2.counted = requests[i].counted
    <2>1. PICK r : r = requests[i]
      OBVIOUS
    <2>2. /\ RequestFits(r, now, windows) /\ r.at \in {"Counting", "Inserting"}
          /\ r2 = Moved(r, "Counting", TRUE) /\ WindowNow(r) \in DOMAIN windows
      BY <2>1, <1>1, <1>2, <1>4
    <2>3. /\ r2 \in Requests /\ r2.check = r.check /\ r2.at = "Counting"
          /\ r2.surface = r.surface /\ r2.client = r.client /\ r2.since = r.since
          /\ r2.counted = r.counted
      BY <2>2 DEF Moved, Request, Requests, RequestFits, Stages
    <2>4. HasRow(r, windows)
      BY <2>2 DEF HasRow
    <2>5. RequestFits(r2, now, windows) /\ InProgress(r) /\ Passed(r2) = Passed(r)
      BY <2>2, <2>3, <2>4, StaysFits
    <2>6. QED
      BY <2>1, <2>3, <2>5
  <1>6. QED
    BY <1>1, <1>3, <1>5, NotCarriedOut

LEMMA LoseDatabaseKeeps ==
    ASSUME RateInv, NEW i \in DOMAIN requests, NEW done \in BOOLEAN, LoseDatabase(i, done)
    PROVE  RateInv'
  <1>1. PICK r : r = requests[i]
    OBVIOUS
  <1>2. RequestFits(r, now, windows) /\ r.at \in {"Counting", "Inserting"} /\ UNCHANGED now
    BY <1>1, FitsNow DEF LoseDatabase
  <1>3. CASE done
    <2>1. PICK r2 : r2 = Request(r.surface, r.client, r.since, "Failed", r.check,
                                 r.counted + 1, r.again)
      OBVIOUS
    <2>2. windows' = OneMore(WindowNow(r)) /\ Become(i, r2)
      BY <1>1, <1>3, <2>1 DEF LoseDatabase
    <2>3. /\ RequestFits(r2, now, OneMore(WindowNow(r))) /\ Passed(r2) = Passed(r)
          /\ r2.surface = r.surface /\ r2.client = r.client /\ r2.since = r.since
          /\ r2.counted = r.counted + 1
      BY <1>2, <2>1, LostFits
    <2>4. QED
      BY <1>1, <1>2, <2>2, <2>3, CarriedOut
  <1>4. CASE ~done
    <2>1. PICK r2 : r2 = Moved(r, "Failed", r.again)
      OBVIOUS
    <2>2. windows' = windows /\ Become(i, r2)
      BY <1>1, <1>4, <2>1 DEF LoseDatabase, Moved
    <2>3. /\ r2 \in Requests /\ r2.check = r.check /\ r2.at = "Failed"
          /\ r2.surface = r.surface /\ r2.client = r.client /\ r2.since = r.since
          /\ r2.counted = r.counted
      BY <1>2, <2>1 DEF Moved, Request, Requests, RequestFits, Stages
    <2>4. RequestFits(r2, now, windows) /\ InProgress(r) /\ Passed(r2) = Passed(r)
      BY <1>2, <2>3, StaysFits
    <2>5. QED
      BY <1>1, <1>2, <2>2, <2>3, <2>4, NotCarriedOut
  <1>5. QED
    BY <1>3, <1>4

LEMMA AdmitKeeps ==
    ASSUME RateInv, NEW i \in DOMAIN requests, Admit(i)
    PROVE  RateInv'
  <1>1. PICK r2 : r2 = Moved(requests[i], "Admitted", FALSE)
    OBVIOUS
  <1>2. requests[i].at = "Allowed" /\ UNCHANGED now /\ windows' = windows /\ Become(i, r2)
    BY <1>1 DEF Admit, Is
  <1>3. /\ RequestFits(r2, now, windows) /\ ~InProgress(r2) /\ Passed(r2) = Passed(requests[i])
        /\ r2.surface = requests[i].surface /\ r2.client = requests[i].client
        /\ r2.since = requests[i].since /\ r2.counted = requests[i].counted
    <2>1. PICK r : r = requests[i]
      OBVIOUS
    <2>2. RequestFits(r, now, windows) /\ r.at = "Allowed" /\ r2 = Moved(r, "Admitted", FALSE)
      BY <2>1, <1>1, <1>2, FitsNow
    <2>3. /\ RequestFits(r2, now, windows) /\ ~InProgress(r2) /\ Passed(r2) = Passed(r)
          /\ r2.surface = r.surface /\ r2.client = r.client /\ r2.since = r.since
          /\ r2.counted = r.counted
      BY <2>2, AdmittedFits
    <2>4. QED
      BY <2>1, <2>3
  <1>4. QED
    BY <1>2, <1>3, NotCarriedOut

LEMMA PruneKeeps ==
    ASSUME RateInv, NEW i \in DOMAIN requests, Prune(i)
    PROVE  RateInv'
  <1>1. PICK r2 : r2 = Moved(requests[i], "Admitted", FALSE)
    OBVIOUS
  <1>2. requests[i].at = "Allowed" /\ now' = now /\ windows' = Kept(now, windows)
        /\ requests' = [requests EXCEPT ![i] = r2]
    BY <1>1 DEF Prune, Is, Become, Kept
  <1>3. /\ RequestFits(r2, now, windows) /\ ~InProgress(r2) /\ Passed(r2) = Passed(requests[i])
        /\ r2.surface = requests[i].surface /\ r2.client = requests[i].client
        /\ r2.since = requests[i].since /\ r2.counted = requests[i].counted
    <2>1. PICK r : r = requests[i]
      OBVIOUS
    <2>2. RequestFits(r, now, windows) /\ r.at = "Allowed" /\ r2 = Moved(r, "Admitted", FALSE)
      BY <2>1, <1>1, <1>2, FitsNow
    <2>3. /\ RequestFits(r2, now, windows) /\ ~InProgress(r2) /\ Passed(r2) = Passed(r)
          /\ r2.surface = r.surface /\ r2.client = r.client /\ r2.since = r.since
          /\ r2.counted = r.counted
      BY <2>2, AdmittedFits
    <2>4. QED
      BY <2>1, <2>3
  <1>4. RateInvOf(now, windows, [requests EXCEPT ![i] = r2])
    BY <1>3, QuietStep DEF RateInv
  <1>5. RateInvOf(now, Kept(now, windows), [requests EXCEPT ![i] = r2])
    BY <1>4, PruneRows
  <1>6. RateInvOf(now', windows', requests')
    BY <1>2, <1>5
  <1>7. QED
    BY <1>6 DEF RateInv

LEMMA TickKeeps ==
    ASSUME RateInv, Tick
    PROVE  RateInv'
  <1>1. PICK later : later = now'
    OBVIOUS
  <1>2. /\ later \in Times /\ later > now /\ windows' = windows /\ requests' = requests
        /\ \A i \in DOMAIN requests : InProgress(requests[i]) => later <= requests[i].since + Patience
    BY <1>1 DEF Tick
  <1>3. RateInvOf(later, windows, requests)
    BY <1>2, TimePasses DEF RateInv
  <1>4. RateInvOf(now', windows', requests')
    BY <1>1, <1>2, <1>3
  <1>5. QED
    BY <1>4 DEF RateInv

\* The limiter's rows, requests and limits go together in every state.
THEOREM RatesHold ==
    Spec => []RateInv
  <1>1. ASSUME RateInv, [Next]_vars PROVE RateInv'
    <2>1. ASSUME NEW s \in Surfaces, NEW c \in Clients, Arrive(s, c) PROVE RateInv'
      BY <1>1, <2>1, ArriveKeeps
    <2>2. ASSUME NEW i \in DOMAIN requests, Step(i) PROVE RateInv'
      BY <1>1, <2>2, UpdateRowKeeps, ChooseInsertKeeps, InsertRowKeeps, InsertLostKeeps,
         PruneKeeps, AdmitKeeps DEF Step
    <2>3. ASSUME NEW i \in DOMAIN requests, NEW done \in BOOLEAN, LoseDatabase(i, done)
          PROVE  RateInv'
      BY <1>1, <2>3, LoseDatabaseKeeps
    <2>4. CASE Tick
      BY <1>1, <2>4, TickKeeps
    <2>5. CASE UNCHANGED vars
      <3>1. now' = now /\ windows' = windows /\ requests' = requests
        BY <2>5 DEF vars
      <3>2. RateInvOf(now', windows', requests')
        BY <3>1, <1>1 DEF RateInv
      <3>3. QED
        BY <3>2 DEF RateInv
    <2>6. QED
      BY <1>1, <2>1, <2>2, <2>3, <2>4, <2>5 DEF Next
  <1>2. QED
    BY InitRate, <1>1, PTL DEF Spec

-----------------------------------------------------------------------------
(* What the invariant says of the rows. *)

LEMMA RowsFollow ==
    RateInv => RowsCountRequests
  <1>1. SUFFICES ASSUME RateInv PROVE RowsCountRequests
    OBVIOUS
  <1>2. /\ now \in Times /\ requests \in Seq(Requests) /\ Len(requests) <= MaxRequests
        /\ \A w \in DOMAIN windows : RowFits(w, windows, requests)
        /\ \A i \in DOMAIN requests :
              RequestFits(requests[i], now, windows) /\ CountsStand(requests[i], now, windows)
    BY <1>1 DEF RateInv, RateInvOf
  <1>3. \A i : Counted(i) = CountedBy(requests[i])
    BY DEF Counted, CountedBy, Win
  <1>4. RateTypeOK
    <2>1. SUFFICES ASSUME NEW w \in DOMAIN windows
                   PROVE  /\ w[1] \in RuleNames /\ w[2] \in Clients \cup {Global} /\ w[3] \in Nat
                          /\ windows[w] \in 1 .. MaxRequests
      BY <1>2 DEF RateTypeOK
    <2>2. RowFits(w, windows, requests)
      BY <1>2
    <2>3. w[1] \in RuleNames /\ w[2] \in Clients \cup {Global} /\ w[3] \in Nat
      BY <2>2 DEF RowFits
    <2>4. PICK n, most : n = windows[w] /\ most = Len(requests)
      OBVIOUS
    <2>5. n \in Nat /\ n >= 1 /\ n <= most /\ most \in Nat
      BY <2>2, <2>4, <1>2, CountersFinite DEF RowFits
    <2>6. n \in 1 .. MaxRequests
      BY <2>4, <2>5, <1>2, Limits
    <2>7. QED
      BY <2>3, <2>4, <2>6
  <1>5. CountsEachRequestOnce
    <2>1. \A w : CountedIn(requests, w) = {i \in DOMAIN requests : w \in Counted(i)}
      BY <1>3 DEF CountedIn
    <2>2. \A w \in DOMAIN windows :
             windows[w] = Cardinality({i \in DOMAIN requests : w \in Counted(i)})
      BY <2>1, <1>2 DEF RowFits
    <2>3. \A i \in DOMAIN requests : InProgress(requests[i]) => Counted(i) \subseteq DOMAIN windows
      BY <1>2, <1>3 DEF CountsStand
    <2>4. QED
      BY <2>2, <2>3 DEF CountsEachRequestOnce
  <1>6. OneRetryIsEnough
    <2>1. SUFFICES ASSUME NEW i \in DOMAIN requests, requests[i].again PROVE ~Is(i, "Inserting")
      BY DEF OneRetryIsEnough
    <2>2. RequestFits(requests[i], now, windows)
      BY <1>2
    <2>3. QED
      BY <2>1, <2>2 DEF RequestFits, Is
  <1>7. QED
    BY <1>4, <1>5, <1>6 DEF RowsCountRequests

\* A row's count is the number of requests that counted themselves there,
\* whoever inserts it first and whatever answers are lost, and no row is
\* pruned that a request at work still counts on (rate-limit-service's upsert
\* and pruneExpiredWindows).
THEOREM RowsStayExact ==
    Spec => []RowsCountRequests
  BY RatesHold, RowsFollow, PTL

-----------------------------------------------------------------------------
(* What it says of the ceilings. *)

LEMMA AdmittedFollow ==
    RateInv => AdmittedWithinLimits
  <1>1. SUFFICES ASSUME RateInv, NEW i \in GoneThrough, NEW rule \in Range(RulesOf(requests[i]))
                 PROVE  Cardinality({j \in GoneThrough :
                            WindowOf(rule, requests[i].since) \in WindowsOf(j)}) <= rule.limit
    BY DEF AdmittedWithinLimits
  <1>2. /\ requests \in Seq(Requests) /\ LimitsStand(requests)
        /\ \A j \in DOMAIN requests : RequestFits(requests[j], now, windows)
    BY <1>1 DEF RateInv, RateInvOf
  <1>3. \A j \in DOMAIN requests :
           DOMAIN RulesOf(requests[j]) = 1 .. Len(RulesOf(requests[j]))
    BY RuleDomains DEF RulesOf
  <1>4. i \in DOMAIN requests
    BY DEF GoneThrough
  <1>5. PICK k \in 1 .. Len(RulesOf(requests[i])) : rule = RulesOf(requests[i])[k]
    BY <1>3, <1>4 DEF Range
  <1>6. PICK w : w = WindowOf(rule, requests[i].since)
    OBVIOUS
  <1>7. w = Win(requests[i], k)
    BY <1>5, <1>6 DEF Win
  <1>8. \A j \in GoneThrough : WindowsOf(j) = PassedBy(requests[j])
    <2>1. TAKE j \in GoneThrough
    <2>2. j \in DOMAIN requests /\ Passed(requests[j]) = 1 .. Len(RulesOf(requests[j]))
      BY DEF GoneThrough, Passed
    <2>3. Range(RulesOf(requests[j])) =
             {RulesOf(requests[j])[l] : l \in 1 .. Len(RulesOf(requests[j]))}
      BY <2>2, <1>3 DEF Range
    <2>4. WindowsOf(j) = {WindowOf(RulesOf(requests[j])[l], requests[j].since) :
                              l \in 1 .. Len(RulesOf(requests[j]))}
      BY <2>3 DEF WindowsOf
    <2>5. QED
      BY <2>2, <2>4 DEF PassedBy, Win
  <1>9. PICK S : S = {j \in GoneThrough : w \in WindowsOf(j)}
    OBVIOUS
  <1>10. S \in SUBSET PassedIn(requests, w)
    BY <1>8, <1>9 DEF GoneThrough, PassedIn
  <1>11. /\ Cardinality(S) <= Cardinality(PassedIn(requests, w))
         /\ Cardinality(S) \in Nat /\ Cardinality(PassedIn(requests, w)) \in Nat
    BY <1>2, <1>10, CountersFinite, FS_Subset, FS_CardinalityType
  <1>12. w \in PassedBy(requests[i])
    BY <1>1, <1>5, <1>7, <1>8 DEF WindowsOf, GoneThrough, PassedBy, Passed
  <1>13. Cardinality(PassedIn(requests, w)) <= LimitOf(w[1])
    BY <1>2, <1>4, <1>12 DEF LimitsStand
  <1>14. rule.limit = LimitOf(w[1]) /\ rule.limit \in Nat
    <2>1. requests[i] \in Requests
      BY <1>2, <1>4, RequestAt
    <2>2. w[1] = rule.name
      BY <2>1, <1>5, <1>7, WinFields
    <2>3. QED
      BY <2>1, <2>2, <1>5, RuleFields
  <1>15. Cardinality(S) <= rule.limit
    BY <1>11, <1>13, <1>14
  <1>16. QED
    BY <1>6, <1>9, <1>15

\* A request counted in a day of all clients came through its own client's day.
LEMMA CountedForAll ==
    ASSUME RateInv, NEW day, NEW i \in CountedIn(requests, <<"agent-global-day", Global, day>>),
           <<"agent-global-day", Global, day>> \in DOMAIN windows
    PROVE  LET own == <<"agent-day", requests[i].client, day>> IN
           /\ requests[i].client \in Clients /\ i \in PassedIn(requests, own)
           /\ own \in DOMAIN windows
  <1>1. PICK r, g : r = requests[i] /\ g = <<"agent-global-day", Global, day>>
    OBVIOUS
  <1>2. i \in DOMAIN requests /\ g \in CountedBy(r)
    BY <1>1 DEF CountedIn
  <1>3. RequestFits(r, now, windows) /\ CountsStand(r, now, windows)
    BY <1>1, <1>2 DEF RateInv, RateInvOf
  <1>4. PICK k \in 1 .. r.counted : g = Win(r, k)
    BY <1>2 DEF CountedBy
  <1>5. k \in 1 .. Len(RulesOf(r)) /\ r \in Requests
    BY <1>3, PassedAreCounted DEF RequestFits
  <1>6. Win(r, k)[1] = "agent-global-day"
    BY <1>1, <1>4
  <1>7. PICK start : start = WindowStartOf(r.since, MinutesPerDay)
    OBVIOUS
  <1>8. /\ k = 3 /\ Len(RulesOf(r)) = 3 /\ r.client \in Clients
        /\ Win(r, 3) = <<"agent-global-day", Global, start>>
        /\ Win(r, 2) = <<"agent-day", r.client, start>>
    BY <1>5, <1>6, <1>7, DayWindows
  <1>9. start = day
    BY <1>1, <1>4, <1>8
  <1>10. r.counted = 3
    <2>1. r.counted \in 0 .. 3
      BY <1>5 DEF Requests
    <2>2. QED
      BY <2>1, <1>4, <1>8
  <1>11. 2 \in Passed(r)
    <2>1. CASE r.at \in {"Allowed", "Admitted"}
      BY <2>1, <1>8 DEF Passed
    <2>2. CASE r.at \notin {"Allowed", "Admitted"}
      <3>1. r.check \in 1 .. 3 /\ r.at \in Stages
        BY <1>5 DEF Requests
      <3>2. r.counted = r.check - 1 \/ r.counted = r.check
        BY <2>2, <3>1, <1>3 DEF RequestFits, Stages
      <3>3. r.check = 3
        BY <3>1, <3>2, <1>10
      <3>4. QED
        BY <2>2, <3>3 DEF Passed
    <2>3. QED
      BY <2>1, <2>2
  <1>12. <<"agent-day", r.client, day>> \in PassedBy(r)
    BY <1>8, <1>9, <1>11 DEF PassedBy
  <1>13. <<"agent-day", r.client, day>> \in DOMAIN windows
    BY <1>1, <1>3, <1>8, <1>9, <1>10 DEF CountsStand
  <1>14. QED
    BY <1>1, <1>2, <1>8, <1>12, <1>13 DEF PassedIn

\* Those who came through a client's day are no more than it lets through.
LEMMA ComeThroughOwn ==
    ASSUME RateInv, NEW client, NEW day, NEW own, own = <<"agent-day", client, day>>,
           own \in DOMAIN windows, NEW i \in PassedIn(requests, own)
    PROVE  /\ Cardinality(PassedIn(requests, own)) <= AgentPerDay
           /\ Cardinality(PassedIn(requests, own)) <= Hits(own)
  <1>1. /\ requests \in Seq(Requests) /\ LimitsStand(requests) /\ RowFits(own, windows, requests)
        /\ \A j \in DOMAIN requests : RequestFits(requests[j], now, windows)
    BY DEF RateInv, RateInvOf
  <1>2. i \in DOMAIN requests /\ own \in PassedBy(requests[i])
    BY DEF PassedIn
  <1>3. Cardinality(PassedIn(requests, own)) <= LimitOf(own[1])
    BY <1>1, <1>2 DEF LimitsStand
  <1>4. LimitOf(own[1]) = AgentPerDay
    BY DEF LimitOf
  <1>5. PassedIn(requests, own) \in SUBSET CountedIn(requests, own)
    BY <1>1, PassedAreCounted DEF PassedIn, CountedIn
  <1>6. Cardinality(PassedIn(requests, own)) <= Cardinality(CountedIn(requests, own))
    BY <1>1, <1>5, CountersFinite, FS_Subset
  <1>7. Hits(own) = Cardinality(CountedIn(requests, own))
    BY <1>1 DEF RowFits, Hits
  <1>8. QED
    BY <1>3, <1>4, <1>6, <1>7

LEMMA SharedFollow ==
    RateInv => SharedCeilingSpared
  <1>1. SUFFICES ASSUME RateInv, NEW t \in Times, NEW day, day = WindowStartOf(t, MinutesPerDay)
                 PROVE  Hits(<<"agent-global-day", Global, day>>) <= Cardinality(LetThrough(day))
    BY DEF SharedCeilingSpared
  <1>2. PICK g : g = <<"agent-global-day", Global, day>>
    OBVIOUS
  <1>3. requests \in Seq(Requests) /\ \A w \in DOMAIN windows : RowFits(w, windows, requests)
    BY <1>1 DEF RateInv, RateInvOf
  <1>4. IsFiniteSet(LetThrough(day)) /\ Cardinality(LetThrough(day)) \in Nat
    <2>1. IsFiniteSet(1 .. AgentPerDay)
      BY Limits, FS_Interval
    <2>2. IsFiniteSet(Clients \X (1 .. AgentPerDay))
      BY <2>1, Limits, FS_Product
    <2>3. LetThrough(day) \in SUBSET (Clients \X (1 .. AgentPerDay))
      BY DEF LetThrough
    <2>4. QED
      BY <2>2, <2>3, FS_Subset, FS_CardinalityType
  <1>5. CASE g \notin DOMAIN windows
    BY <1>2, <1>4, <1>5 DEF Hits
  <1>6. CASE g \in DOMAIN windows
    <2>1. PICK S, rs : S = CountedIn(requests, g) /\ rs = requests
      OBVIOUS
    <2>2. PICK own : own = [c \in Clients |-> <<"agent-day", c, day>>]
      OBVIOUS
    <2>3. PICK hits : hits = [c \in Clients |-> Hits(<<"agent-day", c, day>>)]
      OBVIOUS
    <2>4. PICK through : through = [c \in Clients |-> PassedIn(rs, own[c])]
      OBVIOUS
    <2>5. \A c \in Clients :
             IsFiniteSet(through[c]) /\ Cardinality(through[c]) \in Nat
      BY <2>1, <2>4, <1>3, CountersFinite
    <2>6. \A i \in S :
             /\ rs[i].client \in Clients /\ i \in through[rs[i].client]
             /\ own[rs[i].client] \in DOMAIN windows
      BY <2>1, <2>2, <2>4, <1>1, <1>2, <1>6, CountedForAll
    <2>7. ASSUME NEW i \in S
          PROVE  /\ Cardinality(through[rs[i].client]) <= AgentPerDay
                 /\ Cardinality(through[rs[i].client]) <= hits[rs[i].client]
      <3>1. PICK c : c = rs[i].client
        OBVIOUS
      <3>2. c \in Clients /\ i \in PassedIn(requests, own[c]) /\ own[c] \in DOMAIN windows
        BY <3>1, <2>1, <2>4, <2>6
      <3>3. own[c] = <<"agent-day", c, day>> /\ hits[c] = Hits(own[c])
        BY <3>2, <2>2, <2>3
      <3>4. /\ Cardinality(PassedIn(requests, own[c])) <= AgentPerDay
            /\ Cardinality(PassedIn(requests, own[c])) <= Hits(own[c])
        BY <3>2, <3>3, <1>1, ComeThroughOwn
      <3>5. through[c] = PassedIn(requests, own[c])
        BY <3>2, <2>1, <2>4
      <3>6. QED
        BY <3>1, <3>3, <3>4, <3>5
    <2>8. \A c \in Clients : ExistsBijection(through[c], 1 .. Cardinality(through[c]))
      <3>1. TAKE c \in Clients
      <3>2. PICK n : n = Cardinality(through[c])
        OBVIOUS
      <3>3. n \in Nat /\ IsFiniteSet(1 .. n) /\ Cardinality(1 .. n) = n
        BY <3>2, <2>5, FS_Interval
      <3>4. QED
        BY <3>2, <3>3, <2>5, FS_SameCardinalityBij
    <2>9. PICK place :
             place = [c \in Clients |->
                         CHOOSE f : f \in Bijection(through[c], 1 .. Cardinality(through[c]))]
      OBVIOUS
    <2>10. \A c \in Clients : place[c] \in Bijection(through[c], 1 .. Cardinality(through[c]))
      BY <2>8, <2>9 DEF ExistsBijection
    <2>11. \A c \in Clients :
              /\ \A i \in through[c] : place[c][i] \in 1 .. Cardinality(through[c])
              /\ \A i, j \in through[c] : place[c][i] = place[c][j] => i = j
      BY <2>10 DEF Bijection, Injection, IsInjective
    <2>12. PICK f : f = [i \in S |-> <<rs[i].client, place[rs[i].client][i]>>]
      OBVIOUS
    <2>13. ASSUME NEW i \in S PROVE f[i] \in LetThrough(day)
      <3>1. PICK c, p : c = rs[i].client /\ p = place[c][i]
        OBVIOUS
      <3>2. c \in Clients /\ p \in 1 .. Cardinality(through[c]) /\ Cardinality(through[c]) \in Nat
        BY <3>1, <2>5, <2>6, <2>11
      <3>3. /\ Cardinality(through[c]) <= AgentPerDay
            /\ Cardinality(through[c]) <= hits[c]
        BY <3>1, <2>7
      <3>4. hits[c] = Hits(<<"agent-day", c, day>>) /\ hits[c] \in Nat
        BY <3>2, <2>3, <1>1, HitsType
      <3>5. p \in 1 .. AgentPerDay /\ p <= hits[c]
        BY <3>2, <3>3, <3>4, Limits
      <3>6. f[i] = <<c, p>>
        BY <3>1, <2>12
      <3>7. QED
        BY <3>2, <3>4, <3>5, <3>6 DEF LetThrough
    <2>14. ASSUME NEW i \in S, NEW j \in S, f[i] = f[j] PROVE i = j
      <3>1. rs[i].client = rs[j].client /\ place[rs[i].client][i] = place[rs[j].client][j]
        BY <2>12, <2>14
      <3>2. QED
        BY <3>1, <2>6, <2>11
    <2>15. f \in Injection(S, LetThrough(day))
      BY <2>12, <2>13, <2>14 DEF Injection, IsInjective
    <2>16. Cardinality(S) <= Cardinality(LetThrough(day))
      BY <2>15, <1>4, FS_Injection
    <2>17. Hits(g) = Cardinality(S)
      BY <2>1, <1>3, <1>6 DEF RowFits, Hits
    <2>18. QED
      BY <2>16, <2>17, <1>2
  <1>7. QED
    BY <1>5, <1>6

\* No window ever lets through more than its limit, however many requests
\* arrive at once, and the day all clients share is spent only by requests
\* their own client's day let through (agentRequestChecks' order of ceilings).
THEOREM CeilingsStay ==
    Spec => []CeilingsHold
  <1>1. RateInv => CeilingsHold
    BY AdmittedFollow, SharedFollow DEF CeilingsHold
  <1>2. QED
    BY RatesHold, <1>1, PTL
=============================================================================
