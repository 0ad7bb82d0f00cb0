---------------------------- MODULE RefreshGate ----------------------------
(***************************************************************************)
(* The store-server's refresh path: RefreshController::handle of           *)
(* fineco-helper, refresh_preflight and the refresh_* orchestrators of     *)
(* fineco-refresh, over the job_runs table of fineco-store.                *)
(*                                                                         *)
(* One thread serves refresh requests one at a time, so `pc' is a single   *)
(* program counter.  Around it move the wall clock (which may be stepped   *)
(* back), the market thread (which competes for the live-login permit),    *)
(* storage errors, and a crash of the process at any step.  job_runs and   *)
(* the captured data are in SQLite and survive the crash.                  *)
(***************************************************************************)
EXTENDS JobRuns

CONSTANTS
    Area,             \* data areas: portfolio, orders, tax, movements
    Cooldown,         \* per area: RefreshLimits.cooldown_secs
    DailyBudget,      \* per area: RefreshLimits.daily_budget
    CircuitCooldown,  \* per area: RefreshLimits.circuit_cooldown_secs
    CircuitFailures,  \* RefreshLimits.circuit_consecutive_failures
    Time,             \* the readings the wall clock can give
    ClockStepsBack    \* whether the clock may be set back

ASSUME GateConstants ==
    /\ StaleSecs \in Nat
    /\ DaySecs \in Nat \ {0}
    /\ Time \subseteq Nat
    /\ Time # {}
    /\ Cooldown \in [Area -> Nat \ {0}]
    /\ DailyBudget \in [Area -> Nat]
    /\ CircuitCooldown \in [Area -> Nat]
    /\ CircuitFailures \in Nat
    /\ ClockStepsBack \in BOOLEAN

VARIABLES
    clock,     \* what now_iso8601_utc would return
    jobs,      \* area -> its job_runs rows
    captures,  \* area -> captured_at of each committed capture, oldest first
    pc,        \* where the refresh thread is
    area,      \* the area of the request in hand (or of the last one)
    now,       \* the timestamp the request was stamped with
    job,       \* index of the row the request inserted, 0 before that
    permit     \* LiveLoginState.in_flight, and which thread holds it

vars == <<clock, jobs, captures, pc, area, now, job, permit>>

Idle == "idle"
Init ==
    /\ clock \in Time
    /\ jobs = [a \in Area |-> << >>]
    /\ captures = [a \in Area |-> << >>]
    /\ pc = Idle
    /\ area \in Area
    /\ now = 0
    /\ job = 0
    /\ permit = "free"

-----------------------------------------------------------------------------
(* refresh_preflight: the first denial found, or "ok".                     *)

\* Variant with a bug, to test the properties: the breaker is asked first.
PreflightBreakerFirst(a, t) ==
    IF CircuitOpen(jobs[a], t, CircuitFailures, CircuitCooldown[a])
    THEN "refresh_circuit_open"
    ELSE IF LockHeld(jobs[a], t) THEN "already_refreshing"
    ELSE IF Cooling(jobs[a], t, Cooldown[a]) THEN "refresh_cooldown"
    ELSE IF BudgetSpent(jobs[a], t, DailyBudget[a]) THEN "refresh_budget_exhausted"
    ELSE "ok"

\* Variant with a bug, to test the properties: the budget is not asked.
PreflightWithoutBudget(a, t) ==
    IF LockHeld(jobs[a], t) THEN "already_refreshing"
    ELSE IF Cooling(jobs[a], t, Cooldown[a]) THEN "refresh_cooldown"
    ELSE "ok"

Preflight(a, t) ==
    IF LockHeld(jobs[a], t) THEN "already_refreshing"
    ELSE IF Cooling(jobs[a], t, Cooldown[a]) THEN "refresh_cooldown"
    ELSE IF BudgetSpent(jobs[a], t, DailyBudget[a]) THEN "refresh_budget_exhausted"
    ELSE IF CircuitOpen(jobs[a], t, CircuitFailures, CircuitCooldown[a])
         THEN "refresh_circuit_open"
    ELSE "ok"

\* The handler returns: LiveLoginPermit is finished or dropped.
Return ==
    /\ pc' = Idle
    /\ now' = 0
    /\ job' = 0
    /\ permit' = IF permit = "refresh" THEN "free" ELSE permit
    /\ UNCHANGED <<clock, captures, area>>

\* Mark the request's row terminal.
Settle(status, code) ==
    jobs' = [jobs EXCEPT ![area] = Finished(@, job, status, code)]

-----------------------------------------------------------------------------
(* Steps of the refresh thread.                                            *)

\* A request passes the policy and bounds checks and preflight lets it through.
\* A request refused by any of these changes nothing.
Accept(a) ==
    /\ pc = Idle
    /\ Preflight(a, clock) = "ok"
    /\ pc' = "admit"
    /\ area' = a
    /\ now' = clock
    /\ UNCHANGED <<clock, jobs, captures, job, permit>>

\* begin_refresh_live_operation
AdmitLive ==
    /\ pc = "admit"
    /\ permit = "free"
    /\ permit' = "refresh"
    /\ pc' = "begin"
    /\ UNCHANGED <<clock, jobs, captures, area, now, job>>

\* Variant with a bug, to test the properties: the request waits for the permit instead of being refused.
RefuseLiveWaits ==
    /\ pc = "admit"
    /\ permit # "free"
    /\ UNCHANGED vars

RefuseLive ==
    /\ pc = "admit"
    /\ permit # "free"
    /\ Return
    /\ UNCHANGED jobs

\* Variant with a bug, to test the properties: there is no unique index.
InsertUnchecked ==
    /\ pc \in {"begin", "reinsert"}
    /\ jobs' = [jobs EXCEPT ![area] = Append(@, RunningRow(now))]
    /\ job' = Len(jobs[area]) + 1
    /\ pc' = "fetch"
    /\ UNCHANGED <<clock, captures, area, now, permit>>

\* insert_running_job: the partial unique index refuses a second running row.
\* It is tried first and, after a reclaim, once more.
Insert ==
    /\ pc \in {"begin", "reinsert"}
    /\ Running(jobs[area]) = {}
    /\ jobs' = [jobs EXCEPT ![area] = Append(@, RunningRow(now))]
    /\ job' = Len(jobs[area]) + 1
    /\ pc' = "fetch"
    /\ UNCHANGED <<clock, captures, area, now, permit>>

InsertConflict ==
    /\ pc = "begin"
    /\ Running(jobs[area]) # {}
    /\ pc' = "reclaim"
    /\ UNCHANGED <<clock, jobs, captures, area, now, job, permit>>

\* Variant with a bug, to test the properties: the stale row is taken over instead of being closed.
ReclaimTakesOver ==
    /\ pc = "reclaim"
    /\ \E i \in Running(jobs[area]) :
         /\ IsStale(jobs[area][i], now)
         /\ jobs' = [jobs EXCEPT ![area][i].started = now]
         /\ job' = i
    /\ pc' = "fetch"
    /\ UNCHANGED <<clock, captures, area, now, permit>>

\* reclaim_stale_running, a statement of its own before the second insert.
Reclaim ==
    /\ pc = "reclaim"
    /\ \E i \in Running(jobs[area]) :
         IF IsStale(jobs[area][i], now)
         THEN /\ jobs' = [jobs EXCEPT ![area] = Finished(@, i, "failed", "stale")]
              /\ pc' = "reinsert"
              /\ UNCHANGED <<clock, captures, area, now, job, permit>>
         ELSE /\ Return
              /\ UNCHANGED jobs

\* Variant with a bug, to test the properties: an early return keeps the permit.
BeginFailsKeepingPermit ==
    /\ pc \in {"begin", "reclaim", "reinsert"}
    /\ pc' = Idle
    /\ now' = 0
    /\ job' = 0
    /\ UNCHANGED <<clock, jobs, captures, area, permit>>

\* try_begin_job fails for another reason than the lock: no row is written.
BeginFails ==
    /\ pc \in {"begin", "reclaim", "reinsert"}
    /\ Return
    /\ UNCHANGED jobs

FetchSucceeds ==
    /\ pc = "fetch"
    /\ pc' = "capture"
    /\ UNCHANGED <<clock, jobs, captures, area, now, job, permit>>

\* The error is returned whether or not the row could be marked.
FetchFails(code) ==
    /\ pc = "fetch"
    /\ Return
    /\ Settle("failed", code) \/ UNCHANGED jobs

\* Variant with a bug, to test the properties: the capture is stamped with the time of its write.
CaptureAtClock ==
    /\ pc = "capture"
    /\ captures' = [captures EXCEPT ![area] = Append(@, clock)]
    /\ pc' = "finish"
    /\ UNCHANGED <<clock, jobs, area, now, job, permit>>

\* capture_*: one transaction, stamped with the request's own timestamp.
Capture ==
    /\ pc = "capture"
    /\ captures' = [captures EXCEPT ![area] = Append(@, now)]
    /\ pc' = "finish"
    /\ UNCHANGED <<clock, jobs, area, now, job, permit>>

CaptureFails ==
    /\ pc = "capture"
    /\ Return
    /\ Settle("failed", "internal") \/ UNCHANGED jobs

Finish ==
    /\ pc = "finish"
    /\ Return
    /\ Settle("completed", "none")

\* Variant with a bug, to test the properties: an attempt that captured is recorded as failed.
FinishFailsRecorded ==
    /\ pc = "finish"
    /\ Return
    /\ Settle("failed", "internal")

\* The capture is durable, the outcome is not: the row is left running.
FinishFails ==
    /\ pc = "finish"
    /\ Return
    /\ UNCHANGED jobs

-----------------------------------------------------------------------------
(* The environment of the refresh thread.                                  *)

Tick(t) ==
    /\ t > clock \/ ClockStepsBack
    /\ clock' = t
    /\ UNCHANGED <<jobs, captures, pc, area, now, job, permit>>

\* The market thread takes and gives back the same permit.
MarketBegins ==
    /\ permit = "free"
    /\ permit' = "market"
    /\ UNCHANGED <<clock, jobs, captures, pc, area, now, job>>

MarketEnds ==
    /\ permit = "market"
    /\ permit' = "free"
    /\ UNCHANGED <<clock, jobs, captures, pc, area, now, job>>

\* The process dies and is restarted: only the database is kept.
Crash ==
    /\ pc # Idle
    /\ pc' = Idle
    /\ now' = 0
    /\ job' = 0
    /\ permit' = "free"
    /\ UNCHANGED <<clock, jobs, captures, area>>

-----------------------------------------------------------------------------
RefreshThread ==
    \/ \E a \in Area : Accept(a)
    \/ AdmitLive \/ RefuseLive
    \/ Insert \/ InsertConflict \/ Reclaim \/ BeginFails
    \/ FetchSucceeds \/ \E code \in FetchCode : FetchFails(code)
    \/ Capture \/ CaptureFails \/ Finish \/ FinishFails

Environment ==
    \/ \E t \in Time : Tick(t)
    \/ MarketBegins \/ MarketEnds
    \/ Crash

Next == RefreshThread \/ Environment

Spec == Init /\ [][Next]_vars

(***************************************************************************)
(* Fairness.  A request in hand is carried through: every storage call is  *)
(* a bounded SQLite statement and every fetch has a client timeout.  The   *)
(* owner's timer keeps asking for every area, and SQLite does not fail     *)
(* every single time.  Nothing is assumed of the clock, the market thread  *)
(* or crashes.                                                             *)
(***************************************************************************)
Fairness ==
    /\ WF_vars(AdmitLive \/ RefuseLive)
    /\ SF_vars(Insert)
    /\ WF_vars(InsertConflict \/ BeginFails)
    /\ SF_vars(InsertConflict)
    /\ SF_vars(Reclaim)
    /\ WF_vars(FetchSucceeds \/ \E code \in FetchCode : FetchFails(code))
    /\ WF_vars(Capture \/ CaptureFails)
    /\ WF_vars(Finish \/ FinishFails)
    /\ SF_vars(AdmitLive)
    /\ \A a \in Area : SF_vars(Accept(a))

FairSpec == Spec /\ Fairness

-----------------------------------------------------------------------------
(* Invariants.                                                             *)

PCs == {Idle, "admit", "begin", "reclaim", "reinsert", "fetch", "capture", "finish"}

\* Every variable holds a value the program could hold.
TypeOK ==
    /\ clock \in Time
    /\ jobs \in [Area -> Seq(JobRow)]
    /\ captures \in [Area -> Seq(Nat)]
    /\ pc \in PCs
    /\ area \in Area
    /\ now \in Nat
    /\ job \in Nat
    /\ permit \in {"free", "refresh", "market"}

\* A running row is always the latest row of its area, also by started_at and
\* also when the clock is set back: what refresh_preflight relies on when it
\* looks for the lock in the latest row only.
RunningIsLatest ==
    \A a \in Area : \A i \in Running(jobs[a]) : i = Latest(jobs[a])

\* Two successive attempts for an area are a cooldown apart.  Only an attempt
\* that never recorded an outcome may be followed sooner, and then not before
\* it was presumed dead.
AttemptsSpaced ==
    \A a \in Area : \A i \in 1..(Len(jobs[a]) - 1) :
        LET gap == jobs[a][i+1].started - jobs[a][i].started IN
        \/ gap >= Cooldown[a]
        \/ jobs[a][i].code = "stale" /\ gap > StaleSecs

\* No UTC day sees more attempts for an area than its budget, whatever the
\* clock, the crashes and the reclaims did.
DailyBudgetHolds ==
    \A a \in Area : \A i \in DOMAIN jobs[a] :
        Cardinality(OnDay(jobs[a], Day(jobs[a][i].started))) <= DailyBudget[a]

\* After CircuitFailures upstream failures in a row the next attempt waits at
\* least the circuit cooldown from the last of them.
BreakerSpacesAttempts ==
    \A a \in Area : \A k \in DOMAIN jobs[a] :
        LET streak == (k - CircuitFailures)..(k - 1) IN
        (/\ CircuitFailures > 0
         /\ k > CircuitFailures
         /\ \A i \in streak : UpstreamFailure(jobs[a][i]))
        => jobs[a][k].started - jobs[a][k-1].started >= CircuitCooldown[a]

Captured(caps, t) == \E k \in DOMAIN caps : caps[k] = t

Agree(rows, caps) ==
    /\ \A k \in DOMAIN caps : \E i \in DOMAIN rows : rows[i].started = caps[k]
    /\ \A i \in DOMAIN rows :
         /\ rows[i].status = "completed" => Captured(caps, rows[i].started)
         /\ rows[i].status = "failed" /\ rows[i].code # "stale"
              => ~Captured(caps, rows[i].started)

\* The cached data and the outcomes in job_runs agree: a completed attempt has
\* its capture, an attempt recorded as failed (other than one found dead) has
\* none, and every capture carries the timestamp of an attempt.
CacheAgreesWithLedger == \A a \in Area : Agree(jobs[a], captures[a])

\* The refresh thread holds the live-login permit exactly while it works under
\* it: no return path, storage error or crash leaks it.
PermitHeldOnlyInFlight ==
    permit = "refresh" <=> pc \notin {Idle, "admit"}

\* The least distance of two attempts: one that died may be followed as soon as
\* it is presumed dead.
MinGapOf(a) ==
    IF Cooldown[a] <= StaleSecs THEN Cooldown[a] ELSE StaleSecs + 1

\* With the limits the controller ships (a circuit cooldown no longer than the
\* area's own spacing) the breaker never decides anything: whenever it is open,
\* an earlier check has already denied the request.
BreakerNeverDecides ==
    \A a \in Area, t \in Time :
        CircuitCooldown[a] <= MinGapOf(a) => Preflight(a, t) # "refresh_circuit_open"

\* What the alerting table of docs/LIVE-REFRESH-GATES.md says of the breaker: the
\* controller answers refresh_circuit_open once it is open.
BreakerReported ==
    \A a \in Area :
        CircuitOpen(jobs[a], clock, CircuitFailures, CircuitCooldown[a])
            => Preflight(a, clock) = "refresh_circuit_open"

-----------------------------------------------------------------------------
(* The inductive invariant behind the invariants above.                    *)

Ordered(rows) ==
    \A i, j \in DOMAIN rows : i < j => rows[i].started < rows[j].started

\* Attempts of an area begin at strictly increasing times, and only the last
\* one can be running.
LedgerOrdered ==
    \A a \in Area :
        /\ Ordered(jobs[a])
        /\ \A i \in DOMAIN jobs[a] : jobs[a][i].status = "running" => i = Len(jobs[a])

\* A request between preflight and its insert still satisfies what preflight saw.
RequestCleared ==
    pc \in {"admit", "begin", "reclaim", "reinsert"} =>
        LET rows == jobs[area]
            last == rows[Len(rows)]
        IN  /\ now \in Time
            /\ Cardinality(OnDay(rows, Day(now))) < DailyBudget[area]
            /\ rows # << >> =>
                 \/ now - last.started >= Cooldown[area]
                 \/ /\ now - last.started > StaleSecs
                    /\ last.status = "running" \/ last.code = "stale"
            /\ pc = "reinsert" => \A i \in DOMAIN rows : rows[i].status # "running"

\* A request past its insert owns the last row, and captures into it once.
RequestOwnsRow ==
    /\ pc \in {"fetch", "capture", "finish"} =>
         /\ jobs[area] # << >>
         /\ job = Len(jobs[area])
         /\ jobs[area][job].status = "running"
         /\ jobs[area][job].started = now
    /\ pc \in {"fetch", "capture"} => ~Captured(captures[area], now)
    /\ pc = "finish" => Captured(captures[area], now)

\* An area is captured in the order of its attempts.
CapturesOrdered ==
    \A a \in Area : \A k, l \in DOMAIN captures[a] :
        k < l => captures[a][k] < captures[a][l]

\* The parts a step needs of the state before it: with them every invariant of
\* this section follows from the step alone.
GateInv ==
    /\ TypeOK
    /\ LedgerOrdered
    /\ AttemptsSpaced
    /\ DailyBudgetHolds
    /\ CapturesOrdered
    /\ CacheAgreesWithLedger
    /\ RequestCleared
    /\ RequestOwnsRow
    /\ PermitHeldOnlyInFlight

-----------------------------------------------------------------------------
(* Action properties.                                                      *)

ExtendsLedger(old, new) ==
    /\ Len(new) \in {Len(old), Len(old) + 1}
    /\ \A i \in DOMAIN old :
         /\ new[i].started = old[i].started
         /\ old[i].status # "running" => new[i] = old[i]

\* job_runs is a ledger: a step adds at most one row to an area, no row is
\* removed or restamped, and a row that has an outcome keeps it.
LedgerAppendOnly == [][\A a \in Area : ExtendsLedger(jobs[a], jobs'[a])]_jobs

-----------------------------------------------------------------------------
(* Liveness.                                                               *)

\* A request that was accepted is answered.
RequestsAnswered == pc # Idle ~> pc = Idle

\* An area does not report `refreshing' for ever: once the process stops
\* crashing and market reads leave the permit alone, a row whose refresh died
\* is reclaimed as soon as it is stale and the day's budget allows an attempt.
StuckArea(a) ==
    /\ \A t \in Time : t <= clock
    /\ \E i \in Running(jobs[a]) : IsStale(jobs[a][i], clock)
    /\ ~BudgetSpent(jobs[a], clock, DailyBudget[a])

\* From some time on the process dies only where a failing return looks the same.
Calm == <>[][Crash => RefreshThread]_vars /\ <>[](permit # "market")

DeadRowsReclaimed ==
    Calm => \A a \in Area :
        StuckArea(a) ~> \A i \in Running(jobs[a]) : ~IsStale(jobs[a][i], clock)

-----------------------------------------------------------------------------
(* The gate implements the abstract one.                                   *)

Starts(rows) == [i \in DOMAIN rows |-> rows[i].started]

Gate == INSTANCE AttemptGate WITH
    Areas <- Area,
    MinGap <- [a \in Area |-> MinGapOf(a)],
    MaxPerDay <- DailyBudget,
    DayLength <- DaySecs,
    Instants <- Time,
    starts <- [a \in Area |-> Starts(jobs[a])],
    published <- captures

\* The attempts and captures of every area behave as the abstract gate says:
\* in particular a refresh that died never publishes over newer data.
ImplementsAttemptGate == Gate!Spec
=============================================================================
