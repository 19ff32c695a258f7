----------------------------- MODULE RateLimits -----------------------------
(***************************************************************************)
(* rate-limit-service and the fixed windows of domain/rate-limit.          *)
(*                                                                         *)
(* A ceiling is a row (bucket, window start) holding a count.  A request   *)
(* counts itself in each of its ceilings, one statement after the other,   *)
(* and stops at the first one it is over; what it has counted stays.  Time *)
(* is in minutes; a request keeps the reading it took when it arrived.     *)
(***************************************************************************)
EXTENDS Integers, Sequences, FiniteSets, Functions

CONSTANTS
    Clients,        \* client keys
    Callers,        \* <<surface, client>> pairs that may ask
    AgentPerMinute, AgentPerDay, AgentGlobalPerDay, PaymentPerMinute,
    MinutesPerDay,  \* 1440; fewer in a check
    Patience,       \* minutes a request may take: the platform ends it then
    MaxRequests,    \* bound: requests that ever arrive
    Times           \* bound: the minutes at which anything happens

ASSUME RateAssumption ==
    /\ Callers \subseteq {"agent", "payment"} \X Clients /\ IsFiniteSet(Clients)
    /\ {AgentPerMinute, AgentPerDay, AgentGlobalPerDay, PaymentPerMinute} \subseteq Nat \ {0}
    /\ MinutesPerDay \in Nat \ {0} /\ Patience \in 0 .. MinutesPerDay
    /\ MaxRequests \in Nat /\ Times \subseteq Nat

VARIABLES
    now,       \* the clock
    windows,   \* rate_limit_window: hits of each row there is
    requests   \* every request so far, and how far it is

vars == <<now, windows, requests>>

-----------------------------------------------------------------------------
(* Rules. *)

Surfaces == {"agent", "payment"}
RuleNames == {"agent-minute", "agent-day", "agent-global-day", "payment-minute"}
Global == "global"
Rule(name, limit, minutes, subject) ==
    [name |-> name, limit |-> limit, minutes |-> minutes, subject |-> subject]

\* Faulty variant: the ceiling all clients share comes first.
ChecksGlobalFirst(surface, client) ==
    IF surface = "agent"
      THEN << Rule("agent-global-day", AgentGlobalPerDay, MinutesPerDay, Global),
              Rule("agent-minute", AgentPerMinute, 1, client),
              Rule("agent-day", AgentPerDay, MinutesPerDay, client) >>
      ELSE << Rule("payment-minute", PaymentPerMinute, 1, client) >>

\* agentRequestChecks and paymentRequestChecks: a client's own ceilings first.
Checks(surface, client) ==
    IF surface = "agent"
      THEN << Rule("agent-minute", AgentPerMinute, 1, client),
              Rule("agent-day", AgentPerDay, MinutesPerDay, client),
              Rule("agent-global-day", AgentGlobalPerDay, MinutesPerDay, Global) >>
      ELSE << Rule("payment-minute", PaymentPerMinute, 1, client) >>

WindowStartOf(t, minutes) == (t \div minutes) * minutes

IsOverLimit(hits, rule) == hits > rule.limit

\* The row a rule counts in, for a request that arrived at t.
WindowOf(rule, t) == <<rule.name, rule.subject, WindowStartOf(t, rule.minutes)>>

Retention == 2 * MinutesPerDay

-----------------------------------------------------------------------------
(* Requests. *)

Stages == {"Counting", "Inserting", "Allowed", "Admitted", "Refused", "Failed"}
Answers == {"Admitted", "Refused", "Failed"}

\* `check`: the ceiling being counted; `counted`: how many it is counted in;
\* `again`: its first INSERT met somebody else's.
Request(surface, client, t, at, check, counted, again) ==
    [surface |-> surface, client |-> client, since |-> t, at |-> at,
     check |-> check, counted |-> counted, again |-> again]

Requests ==
    [surface : Surfaces, client : Clients, since : Times, at : Stages,
     check : 1 .. 3, counted : 0 .. 3, again : BOOLEAN]

RulesOf(r) == Checks(r.surface, r.client)
RuleNow(r) == RulesOf(r)[r.check]
WindowNow(r) == WindowOf(RuleNow(r), r.since)

InProgress(r) == r.at \notin Answers
Is(i, stage) == requests[i].at = stage
Become(i, r) == requests' = [requests EXCEPT ![i] = r]
Moved(r, at, again) ==
    Request(r.surface, r.client, r.since, at, r.check, r.counted, again)

Init == now \in Times /\ windows = [w \in {} |-> 0] /\ requests = <<>>

Hits(w) == IF w \in DOMAIN windows THEN windows[w] ELSE 0

\* Faulty variant: the count read before is written back.
OneMoreOrSame(w) ==
    [v \in DOMAIN windows \cup {w} |-> IF v = w THEN 1 ELSE Hits(v)]

\* INSERT with one hit, or hits + 1: one statement either way.
OneMore(w) == [v \in DOMAIN windows \cup {w} |-> IF v = w THEN Hits(v) + 1 ELSE Hits(v)]

\* What the count its own increment produced means for a request.
After(r, hits) ==
    IF IsOverLimit(hits, RuleNow(r))
      THEN Request(r.surface, r.client, r.since, "Refused", r.check, r.counted + 1, FALSE)
    ELSE IF r.check = Len(RulesOf(r))
      THEN Request(r.surface, r.client, r.since, "Allowed", r.check, r.counted + 1, FALSE)
      ELSE Request(r.surface, r.client, r.since, "Counting", r.check + 1, r.counted + 1, FALSE)

-----------------------------------------------------------------------------
(* consumeRateLimits, step by step. *)

Arrive(surface, client) ==
    /\ <<surface, client>> \in Callers /\ Len(requests) < MaxRequests
    /\ requests' = Append(requests, Request(surface, client, now, "Counting", 1, 0, FALSE))
    /\ UNCHANGED <<now, windows>>

\* The upsert finds the row: one atomic UPDATE.
UpdateRow(i) ==
    LET r == requests[i] w == WindowNow(requests[i]) IN
    /\ Is(i, "Counting") /\ w \in DOMAIN windows
    /\ windows' = OneMore(w)
    /\ Become(i, After(r, Hits(w) + 1))
    /\ UNCHANGED now

\* It finds none and takes the INSERT arm.
ChooseInsert(i) ==
    LET r == requests[i] IN
    /\ Is(i, "Counting") /\ WindowNow(r) \notin DOMAIN windows
    /\ Become(i, Moved(r, "Inserting", r.again))
    /\ UNCHANGED <<now, windows>>

InsertRow(i) ==
    LET r == requests[i] w == WindowNow(requests[i]) IN
    /\ Is(i, "Inserting") /\ w \notin DOMAIN windows
    /\ windows' = OneMore(w)
    /\ Become(i, After(r, 1))
    /\ UNCHANGED now

\* The upsert runs once more; a second violation is thrown to the caller.
AfterUniqueViolation(r) == Moved(r, IF r.again THEN "Failed" ELSE "Counting", TRUE)

InsertLost(i) ==
    /\ Is(i, "Inserting") /\ WindowNow(requests[i]) \in DOMAIN windows
    /\ Become(i, AfterUniqueViolation(requests[i]))
    /\ UNCHANGED <<now, windows>>

\* The database does not answer, with the statement carried out or not; the
\* limiter throws and its callers refuse.
LoseDatabase(i, carriedOut) ==
    LET r == requests[i] w == WindowNow(requests[i]) IN
    /\ r.at \in {"Counting", "Inserting"}
    /\ carriedOut => (Is(i, "Counting") <=> w \in DOMAIN windows)
    /\ windows' = IF carriedOut THEN OneMore(w) ELSE windows
    /\ Become(i, Request(r.surface, r.client, r.since, "Failed", r.check,
                         IF carriedOut THEN r.counted + 1 ELSE r.counted, r.again))
    /\ UNCHANGED now

\* pruneExpiredWindows, on one allowed request in fifty, whatever it returns.
Prune(i) ==
    /\ Is(i, "Allowed")
    /\ windows' = [w \in {v \in DOMAIN windows : v[3] >= now - Retention} |-> windows[w]]
    /\ Become(i, Moved(requests[i], "Admitted", FALSE))
    /\ UNCHANGED now

\* withRateLimit, or the server action, goes on to its handler.
Admit(i) ==
    /\ Is(i, "Allowed")
    /\ Become(i, Moved(requests[i], "Admitted", FALSE))
    /\ UNCHANGED <<now, windows>>

\* The platform ends every request before Patience is over.
Tick ==
    /\ now' \in {t \in Times : t > now}
    /\ \A i \in DOMAIN requests : InProgress(requests[i]) => now' <= requests[i].since + Patience
    /\ UNCHANGED <<windows, requests>>

Step(i) == UpdateRow(i) \/ ChooseInsert(i) \/ InsertRow(i) \/ InsertLost(i) \/ Prune(i) \/ Admit(i)

Next ==
    \/ \E s \in Surfaces, c \in Clients : Arrive(s, c)
    \/ \E i \in DOMAIN requests : Step(i) \/ \E done \in BOOLEAN : LoseDatabase(i, done)
    \/ Tick

Spec == Init /\ [][Next]_vars

-----------------------------------------------------------------------------
(* Properties. *)

\* Rows, requests and the clock are ones the service knows.
RateTypeOK ==
    /\ now \in Times
    /\ \A w \in DOMAIN windows :
          /\ w[1] \in RuleNames /\ w[2] \in Clients \cup {Global} /\ w[3] \in Nat
          /\ windows[w] \in 1 .. MaxRequests
    /\ requests \in Seq(Requests) /\ Len(requests) <= MaxRequests

Counted(i) ==
    {WindowOf(RulesOf(requests[i])[k], requests[i].since) : k \in 1 .. requests[i].counted}

\* A row's count is the number of requests that counted themselves there:
\* none is lost or counted twice, whoever inserts first and whose answer is
\* lost; and no row is deleted that a request at work still counts on.
CountsEachRequestOnce ==
    /\ \A w \in DOMAIN windows :
          windows[w] = Cardinality({i \in DOMAIN requests : w \in Counted(i)})
    /\ \A i \in DOMAIN requests : InProgress(requests[i]) => Counted(i) \subseteq DOMAIN windows

\* A request whose INSERT met another's row needs no third try: the row is
\* there for the whole of its second, whatever is pruned meanwhile.
OneRetryIsEnough == \A i \in DOMAIN requests : requests[i].again => ~Is(i, "Inserting")

\* The rows say who came, and every request finds its row.
RowsCountRequests == RateTypeOK /\ CountsEachRequestOnce /\ OneRetryIsEnough

GoneThrough == {i \in DOMAIN requests : requests[i].at \in {"Allowed", "Admitted"}}
WindowsOf(i) == {WindowOf(rule, requests[i].since) : rule \in Range(RulesOf(requests[i]))}

\* However many requests arrive at the same time, those let through in one
\* window are no more than its limit, for each of the ceilings.
AdmittedWithinLimits ==
    \A i \in GoneThrough : \A rule \in Range(RulesOf(requests[i])) :
        Cardinality({j \in GoneThrough : WindowOf(rule, requests[i].since) \in WindowsOf(j)})
            <= rule.limit

\* What the ceilings of the clients have let through of a day, request by request.
LetThrough(day) ==
    {u \in Clients \X (1 .. AgentPerDay) : u[2] <= Hits(<<"agent-day", u[1], day>>)}

\* One client's refused requests cannot spend the allowance of all: the shared
\* ceiling of a day counts at most what each client's own ceiling let through.
SharedCeilingSpared ==
    \A t \in Times :
        LET day == WindowStartOf(t, MinutesPerDay) IN
        Hits(<<"agent-global-day", Global, day>>) <= Cardinality(LetThrough(day))

\* So no ceiling is ever exceeded, and none is spent by those it refuses.
CeilingsHold == AdmittedWithinLimits /\ SharedCeilingSpared
=============================================================================
