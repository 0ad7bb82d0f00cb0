------------------------------ MODULE JobRuns ------------------------------
(***************************************************************************)
(* The job_runs table of fineco-store, one data area at a time, and the    *)
(* questions the refresh gate asks of it.                                  *)
(*                                                                         *)
(* A row is one refresh attempt that took the area's lock.  Rows are kept  *)
(* in insertion order, so a row's index stands for its id (ids only grow,  *)
(* rows are never deleted).  Timestamps are seconds: the ISO-8601 text the *)
(* store keeps has a fixed width, so its order is the order of the seconds.*)
(***************************************************************************)
EXTENDS Integers, Sequences, FiniteSets

CONSTANTS
    StaleSecs,    \* age beyond which a running row is presumed dead
    DaySecs,      \* length of a UTC day
    FetchCode     \* safe error codes a fetch may fail with

UpstreamCode == {"fineco_timeout", "fineco_upstream_error"}
JobCode == FetchCode \union {"internal", "stale", "none"}
JobStatus == {"running", "completed", "failed"}
JobRow == [started : Nat, status : JobStatus, code : JobCode]

Day(t) == t \div DaySecs

RunningRow(t) == [started |-> t, status |-> "running", code |-> "none"]

Running(rows) == {i \in DOMAIN rows : rows[i].status = "running"}
Terminal(rows) == DOMAIN rows \ Running(rows)

\* ORDER BY started_at DESC, id DESC
Newer(rows, i, j) ==
    \/ rows[i].started > rows[j].started
    \/ rows[i].started = rows[j].started /\ i > j

\* latest_job_run
Latest(rows) ==
    CHOOSE i \in DOMAIN rows : \A j \in DOMAIN rows \ {i} : Newer(rows, i, j)

\* count_jobs_on_utc_date
OnDay(rows, d) == {i \in DOMAIN rows : Day(rows[i].started) = d}

\* recent_job_outcomes: the n newest rows that have an outcome
RecentOutcomes(rows, n) ==
    {i \in Terminal(rows) :
        Cardinality({j \in Terminal(rows) : Newer(rows, j, i)}) < n}

IsStale(row, now) == row.status = "running" /\ now - row.started > StaleSecs

\* record_job_finish and the reclaim both write only a row that is running
Finished(rows, i, status, code) ==
    IF rows[i].status = "running"
    THEN [rows EXCEPT ![i] =
            [started |-> rows[i].started, status |-> status, code |-> code]]
    ELSE rows

-----------------------------------------------------------------------------
(* The answers refresh_preflight derives from an area's rows.              *)

\* A refresh genuinely under way: a running row that is not stale.
LockHeld(rows, now) ==
    /\ rows # << >>
    /\ rows[Latest(rows)].status = "running"
    /\ ~IsStale(rows[Latest(rows)], now)

\* Variant with a bug, to test the properties: only a success starts the cooldown.
CoolingFromSuccess(rows, now, cooldown) ==
    \E i \in DOMAIN rows :
        rows[i].status = "completed" /\ now - rows[i].started < cooldown

\* Variant with a bug, to test the properties: a stale running row is not exempt.
CoolingWhenStale(rows, now, cooldown) ==
    rows # << >> /\ now - rows[Latest(rows)].started < cooldown

\* Variant with a bug, to test the properties: an attempt of the future does not count.
CoolingForwardOnly(rows, now, cooldown) ==
    /\ rows # << >>
    /\ ~IsStale(rows[Latest(rows)], now)
    /\ now - rows[Latest(rows)].started \in 0..cooldown - 1

\* Too soon after the latest attempt.  A stale running row is exempt, so that
\* the request reaches the only code that reclaims it.
Cooling(rows, now, cooldown) ==
    /\ rows # << >>
    /\ ~IsStale(rows[Latest(rows)], now)
    /\ cooldown > 0
    /\ now - rows[Latest(rows)].started < cooldown

\* Variant with a bug, to test the properties: only successes are counted.
BudgetSpentBySuccess(rows, now, budget) ==
    Cardinality({i \in OnDay(rows, Day(now)) : rows[i].status = "completed"}) >= budget

BudgetSpent(rows, now, budget) == Cardinality(OnDay(rows, Day(now))) >= budget

UpstreamFailure(row) == row.status = "failed" /\ row.code \in UpstreamCode

\* Variant with a bug, to test the properties: one failure more is needed.
CircuitOpenLate(rows, now, failures, cooldown) ==
    LET recent == RecentOutcomes(rows, failures + 1) IN
    /\ Cardinality(recent) = failures + 1
    /\ \A i \in recent : UpstreamFailure(rows[i]) /\ now - rows[i].started < cooldown

CircuitOpen(rows, now, failures, cooldown) ==
    LET recent == RecentOutcomes(rows, failures) IN
    /\ failures > 0
    /\ Cardinality(recent) = failures
    /\ \A i \in recent : UpstreamFailure(rows[i])
    /\ \E i \in recent :
          /\ \A j \in recent \ {i} : Newer(rows, i, j)
          /\ now - rows[i].started < cooldown
=============================================================================
