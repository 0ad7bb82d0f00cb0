------------------------- MODULE RefreshGateProofs -------------------------
(***************************************************************************)
(* Theorems about RefreshGate, for every set of areas, every limits and    *)
(* every clock.  The inductive invariant is GateInv; the proof that a step *)
(* keeps it needs only three facts about job_runs: an insert appends a row *)
(* (OnDayAppend), an outcome changes neither the number of rows nor their  *)
(* times (FinishedKeeps), and the latest row is the last one               *)
(* (LatestIsLast).                                                         *)
(***************************************************************************)
EXTENDS RefreshGate, FiniteSetTheorems, SequenceTheorems, TLAPS

-----------------------------------------------------------------------------
(* Facts about job_runs.                                                   *)

\* The columns of a row have their types.
LEMMA RowFields ==
    ASSUME NEW rows \in Seq(JobRow), NEW i \in DOMAIN rows
    PROVE  /\ rows[i] \in JobRow
           /\ rows[i].started \in Nat
           /\ rows[i].status \in JobStatus
           /\ rows[i].code \in JobCode
<1>1. rows[i] \in JobRow
  OBVIOUS
<1> QED
  BY <1>1 DEF JobRow

\* With attempts in the order of their times, latest_job_run finds the row
\* inserted last.
LEMMA LatestIsLast ==
    ASSUME NEW rows \in Seq(JobRow), rows # << >>, Ordered(rows)
    PROVE  Latest(rows) = Len(rows)
<1> DEFINE n == Len(rows)
           Best(i) == \A j \in DOMAIN rows \ {i} : Newer(rows, i, j)
<1>1. /\ n \in Nat \ {0}
      /\ DOMAIN rows = 1..n
  BY EmptySeq, LenProperties
<1>5. \A i \in 1..n : rows[i].started \in Nat
  BY <1>1, RowFields
<1>2. Best(n)
  BY <1>1, <1>5 DEF Newer, Ordered
<1>3. ASSUME NEW i \in DOMAIN rows, Best(i)
      PROVE  i = n
  <2>1. SUFFICES ASSUME i # n PROVE FALSE
    OBVIOUS
  <2>2. Newer(rows, i, n)
    BY <1>1, <1>3, <2>1
  <2>3. rows[i].started < rows[n].started
    BY <1>1, <2>1 DEF Ordered
  <2> QED
    BY <1>1, <1>5, <2>2, <2>3 DEF Newer
<1> QED
  BY <1>1, <1>2, <1>3 DEF Latest

\* The rows of a day are finitely many.
LEMMA OnDayFinite ==
    ASSUME NEW rows \in Seq(JobRow), NEW d
    PROVE  /\ IsFiniteSet(OnDay(rows, d))
           /\ Cardinality(OnDay(rows, d)) \in Nat
<1>1. IsFiniteSet(1..Len(rows))
  BY FS_Interval
<1>2. OnDay(rows, d) \subseteq 1..Len(rows)
  BY DEF OnDay
<1> QED
  BY <1>1, <1>2, FS_Subset, FS_CardinalityType

\* An inserted row counts for its own day and for no other.
LEMMA OnDayAppend ==
    ASSUME NEW rows \in Seq(JobRow), NEW t \in Nat, NEW d
    PROVE  LET new == Append(rows, RunningRow(t)) IN
           /\ Day(t) = d =>
                Cardinality(OnDay(new, d)) = Cardinality(OnDay(rows, d)) + 1
           /\ Day(t) # d => OnDay(new, d) = OnDay(rows, d)
<1> DEFINE new == Append(rows, RunningRow(t))
           n == Len(rows) + 1
<1>1. /\ DOMAIN new = 1..n
      /\ DOMAIN rows = 1..(n - 1)
      /\ n \in Nat
      /\ \A i \in 1..(n - 1) : new[i] = rows[i]
      /\ new[n] = RunningRow(t)
  OBVIOUS
<1>2. new[n].started = t
  BY <1>1 DEF RunningRow
<1> HIDE DEF new
<1>3. CASE Day(t) = d
  <2>1. OnDay(new, d) = OnDay(rows, d) \union {n}
    BY <1>1, <1>2, <1>3 DEF OnDay
  <2>2. n \notin OnDay(rows, d)
    BY <1>1 DEF OnDay
  <2>3. Cardinality(OnDay(new, d)) = Cardinality(OnDay(rows, d)) + 1
    BY <2>1, <2>2, OnDayFinite, FS_AddElement
  <2> QED
    BY <1>3, <2>3 DEF new
<1>4. CASE Day(t) # d
  <2>1. OnDay(new, d) = OnDay(rows, d)
    BY <1>1, <1>2, <1>4 DEF OnDay
  <2> QED
    BY <1>4, <2>1 DEF new
<1> QED
  BY <1>3, <1>4

\* Recording an outcome changes the status and code of the one row, and only
\* when that row is running.
LEMMA FinishedKeeps ==
    ASSUME NEW rows \in Seq(JobRow), NEW i \in DOMAIN rows,
           NEW status \in {"completed", "failed"}, NEW code \in JobCode
    PROVE  LET new == Finished(rows, i, status, code) IN
           /\ new \in Seq(JobRow)
           /\ Len(new) = Len(rows)
           /\ DOMAIN new = DOMAIN rows
           /\ \A j \in DOMAIN rows : new[j].started = rows[j].started
           /\ \A j \in DOMAIN rows : rows[j].status # "running" => new[j] = rows[j]
           /\ \A j \in DOMAIN rows \ {i} : new[j] = rows[j]
           /\ rows[i].status = "running" =>
                new[i].status = status /\ new[i].code = code
           /\ \A d : OnDay(new, d) = OnDay(rows, d)
<1> DEFINE new == Finished(rows, i, status, code)
<1>1. CASE rows[i].status = "running"
  <2> DEFINE row == [started |-> rows[i].started, status |-> status, code |-> code]
  <2>2. /\ row \in JobRow
        /\ row.started = rows[i].started
        /\ row.status = status
        /\ row.code = code
    BY RowFields DEF JobRow, JobStatus
  <2>3. new = [rows EXCEPT ![i] = row]
    BY <1>1 DEF Finished
  <2> HIDE DEF row, new
  <2>4. /\ new \in Seq(JobRow)
        /\ Len(new) = Len(rows)
        /\ DOMAIN new = DOMAIN rows
        /\ new[i] = row
        /\ \A j \in DOMAIN rows \ {i} : new[j] = rows[j]
    BY <2>2, <2>3
  <2>5. \A j \in DOMAIN rows : new[j].started = rows[j].started
    BY <2>2, <2>4
  <2>6. \A d : OnDay(new, d) = OnDay(rows, d)
    BY <2>4, <2>5 DEF OnDay
  <2>7. \A j \in DOMAIN rows : rows[j].status # "running" => new[j] = rows[j]
    BY <1>1, <2>4
  <2> QED
    BY <2>2, <2>4, <2>5, <2>6, <2>7 DEF new
<1>2. CASE rows[i].status # "running"
  BY <1>2 DEF Finished
<1> QED
  BY <1>1, <1>2

\* The same for a row that is running: it takes the outcome.
LEMMA FinishedRunning ==
    ASSUME NEW rows \in Seq(JobRow), NEW i \in DOMAIN rows,
           NEW status \in {"completed", "failed"}, NEW code \in JobCode,
           rows[i].status = "running"
    PROVE  LET new == Finished(rows, i, status, code) IN
           /\ new \in Seq(JobRow)
           /\ Len(new) = Len(rows)
           /\ DOMAIN new = DOMAIN rows
           /\ \A j \in DOMAIN rows : new[j].started = rows[j].started
           /\ \A j \in DOMAIN rows \ {i} : new[j] = rows[j]
           /\ new[i].status = status /\ new[i].code = code
           /\ \A d : OnDay(new, d) = OnDay(rows, d)
BY FinishedKeeps, SMTT(30)

-----------------------------------------------------------------------------
(* The inductive invariant.                                                *)

\* What preflight establishes holds for the request it lets through.
LEMMA AcceptClears ==
    ASSUME GateInv, NEW a \in Area, Accept(a)
    PROVE  RequestCleared'
<1> DEFINE rows == jobs[a]
           last == rows[Len(rows)]
<1>1. /\ rows \in Seq(JobRow)
      /\ clock \in Time
      /\ Cooldown[a] \in Nat \ {0}
      /\ DailyBudget[a] \in Nat
      /\ clock \in Nat
      /\ StaleSecs \in Nat
  BY GateConstants DEF GateInv, TypeOK
<1>2. /\ pc' = "admit"
      /\ area' = a
      /\ now' = clock
      /\ jobs' = jobs
      /\ Preflight(a, clock) = "ok"
  BY DEF Accept
<1>3. /\ ~LockHeld(rows, clock)
      /\ ~Cooling(rows, clock, Cooldown[a])
      /\ ~BudgetSpent(rows, clock, DailyBudget[a])
  BY <1>2 DEF Preflight
<1>4. Cardinality(OnDay(rows, Day(clock))) < DailyBudget[a]
  BY <1>1, <1>3, OnDayFinite DEF BudgetSpent
<1>5. ASSUME rows # << >>
      PROVE  \/ clock - last.started >= Cooldown[a]
             \/ /\ clock - last.started > StaleSecs
                /\ last.status = "running" \/ last.code = "stale"
  <2>1. Ordered(rows)
    BY DEF GateInv, LedgerOrdered, Ordered
  <2>2. Latest(rows) = Len(rows)
    BY <1>1, <1>5, <2>1, LatestIsLast
  <2>3. Len(rows) \in DOMAIN rows
    BY <1>1, <1>5, EmptySeq, LenProperties
  <2>4. last.started \in Nat
    BY <1>1, <2>3, RowFields
  <2>5. IsStale(last, clock) \/ clock - last.started >= Cooldown[a]
    BY <1>1, <1>3, <1>5, <2>2, <2>4 DEF Cooling
  <2> QED
    BY <2>5 DEF IsStale
<1> QED
  BY <1>1, <1>2, <1>4, <1>5 DEF RequestCleared

\* The row a cleared request inserts is newer than every other row.
LEMMA ClearedIsNewest ==
    ASSUME GateInv, pc \in {"begin", "reinsert"}
    PROVE  /\ now \in Nat
           /\ \A i \in DOMAIN jobs[area] : jobs[area][i].started < now
<1> DEFINE rows == jobs[area]
           last == rows[Len(rows)]
<1>1. /\ rows \in Seq(JobRow)
      /\ now \in Nat
      /\ Cooldown[area] \in Nat \ {0}
      /\ StaleSecs \in Nat
      /\ area \in Area
  BY GateConstants DEF GateInv, TypeOK
<1>2. SUFFICES ASSUME NEW i \in DOMAIN rows PROVE rows[i].started < now
  BY <1>1
<1>3. /\ rows # << >>
      /\ Len(rows) \in DOMAIN rows
      /\ i \in 1..Len(rows)
      /\ Len(rows) \in Nat
  BY <1>1, EmptySeq, LenProperties
<1>4. rows[i].started \in Nat /\ last.started \in Nat
  BY <1>1, <1>3, RowFields
<1>5. rows[i].started <= last.started
  <2>1. CASE i = Len(rows)
    BY <2>1, <1>4
  <2>2. CASE i # Len(rows)
    <3>1. Ordered(rows)
      BY <1>1 DEF GateInv, LedgerOrdered
    <3>2. i < Len(rows)
      BY <1>3, <2>2
    <3>3. rows[i].started < last.started
      BY <1>3, <3>1, <3>2 DEF Ordered
    <3> QED
      BY <3>3, <1>4
  <2> QED
    BY <2>1, <2>2
<1>6. last.started < now
  BY <1>1, <1>3, <1>4 DEF GateInv, RequestCleared
<1> QED
  BY <1>1, <1>4, <1>5, <1>6

\* An insert keeps every part of the invariant.
LEMMA InsertKeeps ==
    ASSUME GateInv, Insert
    PROVE  GateInv'
<1> DEFINE rows == jobs[area]
           n == Len(rows)
           new == Append(rows, RunningRow(now))
<1>1. /\ rows \in Seq(JobRow)
      /\ area \in Area
      /\ jobs \in [Area -> Seq(JobRow)]
      /\ captures \in [Area -> Seq(Nat)]
      /\ StaleSecs \in Nat
      /\ Cooldown[area] \in Nat \ {0}
      /\ DailyBudget \in [Area -> Nat]
  BY GateConstants DEF GateInv, TypeOK
<1>2. /\ now \in Nat
      /\ \A i \in DOMAIN rows : rows[i].started < now
  BY ClearedIsNewest DEF Insert
<1>3. RunningRow(now) \in JobRow
  BY <1>2 DEF RunningRow, JobRow, JobStatus, JobCode
<1>4. /\ n \in Nat
      /\ DOMAIN rows = 1..n
      /\ new \in Seq(JobRow)
      /\ Len(new) = n + 1
      /\ DOMAIN new = 1..(n + 1)
      /\ \A i \in 1..n : new[i] = rows[i]
      /\ new[n + 1] = RunningRow(now)
  BY <1>1, <1>3, LenProperties
<1>5. /\ RunningRow(now).started = now
      /\ RunningRow(now).status = "running"
  BY DEF RunningRow
<1>6. /\ jobs' = [jobs EXCEPT ![area] = new]
      /\ jobs'[area] = new
      /\ \A a \in Area \ {area} : jobs'[a] = jobs[a]
      /\ job' = n + 1
      /\ pc' = "fetch"
      /\ UNCHANGED <<clock, captures, area, now, permit>>
      /\ pc \in {"begin", "reinsert"}
      /\ \A i \in 1..n : rows[i].status # "running"
  BY <1>1, <1>4 DEF Insert, Running
<1> HIDE DEF new
<1>7. \A i \in 1..n : rows[i].started \in Nat
  BY <1>1, <1>4, RowFields
<1>8. \A d : OnDay(new, d) = OnDay(rows, d) \/ Day(now) = d
  BY <1>1, <1>2, OnDayAppend DEF new
<1>a. TypeOK'
  BY <1>1, <1>4, <1>6 DEF GateInv, TypeOK, PCs
<1>b. LedgerOrdered'
  <2>1. SUFFICES ASSUME NEW a \in Area
                 PROVE  LET r == jobs'[a] IN
                        /\ Ordered(r)
                        /\ \A i \in DOMAIN r : r[i].status = "running" => i = Len(r)
    BY <1>6 DEF LedgerOrdered
  <2>2. CASE a = area
    <3>1. \A i, j \in 1..n : i < j => rows[i].started < rows[j].started
      BY <1>4, <1>1 DEF GateInv, LedgerOrdered, Ordered
    <3> QED
      BY <1>2, <1>4, <1>5, <1>6, <2>2, <3>1 DEF Ordered
  <2>3. CASE a # area
    BY <1>6, <2>3 DEF GateInv, LedgerOrdered
  <2> QED
    BY <2>2, <2>3
<1>c. AttemptsSpaced'
  <2>1. SUFFICES ASSUME NEW a \in Area, NEW i \in 1..(Len(jobs'[a]) - 1)
                 PROVE  LET gap == jobs'[a][i+1].started - jobs'[a][i].started IN
                        \/ gap >= Cooldown[a]
                        \/ jobs'[a][i].code = "stale" /\ gap > StaleSecs
    BY DEF AttemptsSpaced
  <2>2. CASE a # area
    BY <1>6, <2>2 DEF GateInv, AttemptsSpaced
  <2>3. CASE a = area /\ i # n
    <3>1. i \in 1..(n - 1) /\ i + 1 \in 1..n /\ i \in 1..n
      BY <1>4, <1>6, <2>3
    <3> QED
      BY <1>4, <1>6, <2>3, <3>1 DEF GateInv, AttemptsSpaced
  <2>4. CASE a = area /\ i = n
    <3>1. n \in 1..n /\ rows # << >>
      BY <1>4, <1>6, <2>4
    <3>2. rows[n].status # "running"
      BY <1>6, <3>1
    <3>3. \/ now - rows[n].started >= Cooldown[area]
          \/ now - rows[n].started > StaleSecs /\ rows[n].code = "stale"
      BY <1>6, <3>1, <3>2 DEF GateInv, RequestCleared
    <3> QED
      BY <1>4, <1>5, <1>6, <2>4, <3>1, <3>3
  <2> QED
    BY <2>2, <2>3, <2>4
<1>d. DailyBudgetHolds'
  <2>1. SUFFICES ASSUME NEW a \in Area, NEW i \in DOMAIN jobs'[a]
                 PROVE  Cardinality(OnDay(jobs'[a], Day(jobs'[a][i].started)))
                            <= DailyBudget[a]
    BY DEF DailyBudgetHolds
  <2>2. CASE a # area
    BY <1>6, <2>2 DEF GateInv, DailyBudgetHolds
  <2>3. CASE a = area /\ Day(new[i].started) = Day(now)
    <3>1. Cardinality(OnDay(rows, Day(now))) < DailyBudget[area]
      BY <1>6 DEF GateInv, RequestCleared
    <3>2. Cardinality(OnDay(new, Day(now))) = Cardinality(OnDay(rows, Day(now))) + 1
      BY <1>1, <1>2, OnDayAppend DEF new
    <3>3. Cardinality(OnDay(rows, Day(now))) \in Nat /\ DailyBudget[area] \in Nat
      BY <1>1, OnDayFinite
    <3>4. Cardinality(OnDay(new, Day(now))) <= DailyBudget[area]
      BY <3>1, <3>2, <3>3
    <3> QED
      BY <1>6, <2>3, <3>4
  <2>4. CASE a = area /\ Day(new[i].started) # Day(now)
    <3>1. i \in 1..n
      BY <1>4, <1>5, <1>6, <2>4
    <3>2. OnDay(new, Day(new[i].started)) = OnDay(rows, Day(rows[i].started))
      BY <1>4, <1>8, <2>4, <3>1
    <3> QED
      BY <1>4, <1>6, <2>4, <3>1, <3>2 DEF GateInv, DailyBudgetHolds
  <2> QED
    BY <2>2, <2>3, <2>4
<1>e. CapturesOrdered'
  BY <1>6 DEF GateInv, CapturesOrdered
<1>f. CacheAgreesWithLedger'
  <2>1. SUFFICES ASSUME NEW a \in Area
                 PROVE  Agree(jobs'[a], captures[a])
    BY <1>6 DEF CacheAgreesWithLedger
  <2>2. \A i \in DOMAIN jobs'[a] :
           jobs'[a][i].status # "running" => i \in DOMAIN jobs[a] /\ jobs'[a][i] = jobs[a][i]
    BY <1>4, <1>5, <1>6
  <2>3. \A i \in DOMAIN jobs[a] : i \in DOMAIN jobs'[a] /\ jobs'[a][i] = jobs[a][i]
    BY <1>4, <1>6
  <2>4. Agree(jobs[a], captures[a])
    BY DEF GateInv, CacheAgreesWithLedger
  <2> QED
    BY <2>2, <2>3, <2>4 DEF Agree
<1>g. RequestCleared'
  BY <1>6 DEF RequestCleared
<1>h. RequestOwnsRow'
  <2>1. ~Captured(captures[area], now)
    BY <1>1, <1>2, SMTT(30) DEF GateInv, CacheAgreesWithLedger, Agree, Captured
  <2>2. new # << >>
    BY <1>4
  <2> QED
    BY <1>4, <1>5, <1>6, <2>1, <2>2 DEF RequestOwnsRow
<1>i. PermitHeldOnlyInFlight'
  BY <1>6 DEF GateInv, PermitHeldOnlyInFlight, Idle
<1> QED
  BY <1>a, <1>b, <1>c, <1>d, <1>e, <1>f, <1>g, <1>h, <1>i DEF GateInv

\* The parts of the invariant that speak of the stored data only.
DataInv ==
    /\ jobs \in [Area -> Seq(JobRow)]
    /\ captures \in [Area -> Seq(Nat)]
    /\ LedgerOrdered
    /\ AttemptsSpaced
    /\ DailyBudgetHolds
    /\ CapturesOrdered
    /\ CacheAgreesWithLedger

\* The parts that speak of the request in hand.
RequestInv ==
    /\ clock \in Time
    /\ pc \in PCs
    /\ area \in Area
    /\ now \in Nat
    /\ job \in Nat
    /\ permit \in {"free", "refresh", "market"}
    /\ RequestCleared
    /\ RequestOwnsRow
    /\ PermitHeldOnlyInFlight

\* The invariant speaks of what is stored and of the request in hand.
LEMMA InvParts == GateInv => DataInv /\ RequestInv
BY DEF GateInv, DataInv, RequestInv, TypeOK

\* Nothing else is in the invariant: a step may be looked at part by part.
LEMMA InvFromParts == DataInv' /\ RequestInv' => GateInv'
BY DEF GateInv, DataInv, RequestInv, TypeOK

\* An outcome that agrees with the captures keeps the stored data consistent.
LEMMA OutcomeKeepsData ==
    ASSUME DataInv, area \in Area, NEW i \in DOMAIN jobs[area],
           NEW status \in {"completed", "failed"}, NEW code \in JobCode,
           status = "completed" => Captured(captures[area], jobs[area][i].started),
           status = "failed" /\ code # "stale"
               => ~Captured(captures[area], jobs[area][i].started),
           jobs' = [jobs EXCEPT ![area] = Finished(@, i, status, code)],
           captures' = captures
    PROVE  DataInv'
<1> DEFINE rows == jobs[area]
           new == Finished(rows, i, status, code)
<1>1. /\ rows \in Seq(JobRow)
      /\ jobs \in [Area -> Seq(JobRow)]
      /\ i \in DOMAIN rows
      /\ DOMAIN rows = 1..Len(rows)
      /\ Len(rows) \in Nat
  BY LenProperties DEF DataInv
<1>2. /\ new \in Seq(JobRow)
      /\ Len(new) = Len(rows)
      /\ DOMAIN new = DOMAIN rows
      /\ \A j \in DOMAIN rows : new[j].started = rows[j].started
      /\ \A j \in DOMAIN rows : rows[j].status # "running" => new[j] = rows[j]
      /\ \A j \in DOMAIN rows \ {i} : new[j] = rows[j]
      /\ rows[i].status = "running" => new[i].status = status /\ new[i].code = code
      /\ \A d : OnDay(new, d) = OnDay(rows, d)
  BY <1>1, FinishedKeeps, SMTT(30)
<1>3. /\ jobs' = [jobs EXCEPT ![area] = new]
      /\ jobs'[area] = new
      /\ \A a \in Area \ {area} : jobs'[a] = jobs[a]
  BY <1>1
<1> HIDE DEF new
<1>4. \A j \in DOMAIN rows : new[j].status = "running" => rows[j].status = "running"
  BY <1>2
<1>a. jobs' \in [Area -> Seq(JobRow)]
  BY <1>1, <1>2, <1>3
<1>b. LedgerOrdered'
  <2>1. Ordered(rows) /\ \A j \in DOMAIN rows : rows[j].status = "running" => j = Len(rows)
    BY DEF DataInv, LedgerOrdered
  <2>2. Ordered(new)
    BY <1>2, <2>1 DEF Ordered
  <2>3. SUFFICES ASSUME NEW a \in Area
                 PROVE  /\ Ordered(jobs'[a])
                        /\ \A j \in DOMAIN jobs'[a] :
                              jobs'[a][j].status = "running" => j = Len(jobs'[a])
    BY DEF LedgerOrdered
  <2>4. CASE a = area
    BY <1>2, <1>3, <1>4, <2>1, <2>2, <2>4
  <2>5. CASE a # area
    BY <1>3, <2>5 DEF DataInv, LedgerOrdered
  <2> QED
    BY <2>4, <2>5
<1>c. AttemptsSpaced'
  <2>1. SUFFICES ASSUME NEW a \in Area, NEW j \in 1..(Len(jobs'[a]) - 1)
                 PROVE  LET gap == jobs'[a][j+1].started - jobs'[a][j].started IN
                        \/ gap >= Cooldown[a]
                        \/ jobs'[a][j].code = "stale" /\ gap > StaleSecs
    BY DEF AttemptsSpaced
  <2>2. CASE a = area
    <3>1. j \in 1..(Len(rows) - 1) /\ j \in DOMAIN rows /\ j + 1 \in DOMAIN rows
      BY <1>1, <1>2, <1>3, <2>2
    <3>2. rows[j].status # "running"
      BY <1>1, <3>1 DEF DataInv, LedgerOrdered
    <3>3. new[j] = rows[j] /\ new[j+1].started = rows[j+1].started
      BY <1>2, <3>1, <3>2
    <3> QED
      BY <1>3, <2>2, <3>1, <3>3 DEF DataInv, AttemptsSpaced
  <2>3. CASE a # area
    BY <1>3, <2>3 DEF DataInv, AttemptsSpaced
  <2> QED
    BY <2>2, <2>3
<1>d. DailyBudgetHolds'
  <2>1. SUFFICES ASSUME NEW a \in Area, NEW j \in DOMAIN jobs'[a]
                 PROVE  Cardinality(OnDay(jobs'[a], Day(jobs'[a][j].started)))
                            <= DailyBudget[a]
    BY DEF DailyBudgetHolds
  <2>2. CASE a = area
    <3>1. j \in DOMAIN rows /\ new[j].started = rows[j].started
      BY <1>2, <1>3, <2>2
    <3>2. OnDay(new, Day(new[j].started)) = OnDay(rows, Day(rows[j].started))
      BY <1>2, <3>1
    <3>3. Cardinality(OnDay(rows, Day(rows[j].started))) <= DailyBudget[area]
      BY <3>1 DEF DataInv, DailyBudgetHolds
    <3> QED
      BY <1>3, <2>2, <3>2, <3>3
  <2>3. CASE a # area
    BY <1>3, <2>3 DEF DataInv, DailyBudgetHolds
  <2> QED
    BY <2>2, <2>3
<1>e. CapturesOrdered'
  BY DEF DataInv, CapturesOrdered
<1>f. CacheAgreesWithLedger'
  <2>1. SUFFICES ASSUME NEW a \in Area
                 PROVE  Agree(jobs'[a], captures[a])
    BY DEF CacheAgreesWithLedger
  <2>2. Agree(rows, captures[area])
    BY DEF DataInv, CacheAgreesWithLedger
  <2>3. Agree(new, captures[area])
    <3>1. \A k \in DOMAIN captures[area] : \E j \in DOMAIN new :
             new[j].started = captures[area][k]
      BY <1>2, <2>2 DEF Agree
    <3>2. ASSUME NEW j \in DOMAIN new
          PROVE  /\ new[j].status = "completed" => Captured(captures[area], new[j].started)
                 /\ new[j].status = "failed" /\ new[j].code # "stale"
                      => ~Captured(captures[area], new[j].started)
      <4>1. CASE new[j] = rows[j]
        BY <1>2, <2>2, <4>1 DEF Agree
      <4>2. CASE j = i /\ rows[i].status = "running"
        BY <1>2, <4>2
      <4> QED
        BY <1>2, <4>1, <4>2
    <3> QED
      BY <3>1, <3>2 DEF Agree
  <2>4. CASE a # area
    BY <1>3, <2>4 DEF DataInv, CacheAgreesWithLedger
  <2> QED
    BY <1>3, <2>3, <2>4
<1> QED
  BY <1>a, <1>b, <1>c, <1>d, <1>e, <1>f DEF DataInv

\* Steps that leave the stored data alone keep it consistent.
LEMMA SameData ==
    ASSUME DataInv, jobs' = jobs, captures' = captures
    PROVE  DataInv'
BY DEF DataInv, LedgerOrdered, AttemptsSpaced, DailyBudgetHolds, CapturesOrdered,
       CacheAgreesWithLedger

\* However the handler returns, nothing is left to hold about its request.
LEMMA ReturnKeepsRequest ==
    ASSUME RequestInv, Return
    PROVE  RequestInv'
BY DEF RequestInv, Return, RequestCleared, RequestOwnsRow, PermitHeldOnlyInFlight, Idle, PCs

\* While a request owns its row, that row is there to be settled.
LEMMA OwnedRow ==
    ASSUME GateInv, pc \in {"fetch", "capture", "finish"}
    PROVE  /\ job \in DOMAIN jobs[area]
           /\ jobs[area][job].started = now
           /\ jobs[area][job].status = "running"
<1>1. jobs[area] \in Seq(JobRow)
  BY DEF GateInv, TypeOK
<1>2. Len(jobs[area]) \in DOMAIN jobs[area]
  BY <1>1, EmptySeq, LenProperties DEF GateInv, RequestOwnsRow
<1> QED
  BY <1>2 DEF GateInv, RequestOwnsRow

\* Marking the request's row failed, or failing to, before anything is captured.
LEMMA FailureKeeps ==
    ASSUME GateInv, pc \in {"fetch", "capture"}, Return,
           NEW code \in JobCode,
           Settle("failed", code) \/ UNCHANGED jobs
    PROVE  GateInv'
<1>1. DataInv /\ RequestInv
  BY InvParts
<1>2. RequestInv'
  BY <1>1, ReturnKeepsRequest
<1>3. captures' = captures
  BY DEF Return
<1>4. CASE Settle("failed", code)
  <2>1. job \in DOMAIN jobs[area] /\ jobs[area][job].started = now
    BY OwnedRow
  <2>2. ~Captured(captures[area], now) /\ area \in Area
    BY DEF GateInv, TypeOK, RequestOwnsRow
  <2>3. jobs' = [jobs EXCEPT ![area] = Finished(@, job, "failed", code)]
    BY <1>4 DEF Settle
  <2>4. DataInv'
    BY <1>1, <1>3, <2>1, <2>2, <2>3, OutcomeKeepsData
  <2> QED
    BY <1>2, <2>4, InvFromParts
<1>5. CASE UNCHANGED jobs
  BY <1>1, <1>2, <1>3, <1>5, SameData, InvFromParts
<1> QED
  BY <1>4, <1>5

\* A dead row that is reclaimed is settled as a failure and is still the last one.
LEMMA ReclaimKeeps ==
    ASSUME GateInv, Reclaim
    PROVE  GateInv'
<1> DEFINE rows == jobs[area]
<1>1. DataInv /\ RequestInv
  BY InvParts
<1>2. PICK i \in Running(rows) :
         IF IsStale(rows[i], now)
         THEN /\ jobs' = [jobs EXCEPT ![area] = Finished(@, i, "failed", "stale")]
              /\ pc' = "reinsert"
              /\ UNCHANGED <<clock, captures, area, now, job, permit>>
         ELSE /\ Return
              /\ UNCHANGED jobs
  BY DEF Reclaim
<1>3. /\ pc = "reclaim"
      /\ i \in DOMAIN rows
      /\ rows[i].status = "running"
      /\ area \in Area
      /\ rows \in Seq(JobRow)
      /\ DOMAIN rows = 1..Len(rows)
      /\ Len(rows) \in Nat
  BY <1>2, LenProperties DEF Reclaim, Running, GateInv, TypeOK
<1>4. CASE IsStale(rows[i], now)
  <2>1. /\ jobs' = [jobs EXCEPT ![area] = Finished(@, i, "failed", "stale")]
        /\ pc' = "reinsert"
        /\ UNCHANGED <<clock, captures, area, now, job, permit>>
    BY <1>2, <1>4
  <2>2. "stale" \in JobCode
    BY DEF JobCode
  <2>3. DataInv'
    BY <1>1, <1>3, <2>1, <2>2, OutcomeKeepsData
  <2> DEFINE new == Finished(rows, i, "failed", "stale")
  <2>4. /\ new \in Seq(JobRow)
        /\ Len(new) = Len(rows)
        /\ DOMAIN new = DOMAIN rows
        /\ \A j \in DOMAIN rows : new[j].started = rows[j].started
        /\ \A j \in DOMAIN rows \ {i} : new[j] = rows[j]
        /\ new[i].status = "failed" /\ new[i].code = "stale"
        /\ \A d : OnDay(new, d) = OnDay(rows, d)
    BY <1>3, <2>2, FinishedRunning
  <2>5. jobs'[area] = new
    BY <1>3, <2>1 DEF GateInv, TypeOK
  <2>6. i = Len(rows)
    BY <1>3 DEF GateInv, LedgerOrdered
  <2> HIDE DEF new
  <2>7. RequestCleared'
    <3>1. /\ now \in Time
          /\ Cardinality(OnDay(rows, Day(now))) < DailyBudget[area]
          /\ \/ now - rows[i].started >= Cooldown[area]
             \/ now - rows[i].started > StaleSecs
      <4>1. rows # << >>
        BY <1>3
      <4> QED
        BY <1>3, <2>6, <4>1 DEF GateInv, RequestCleared
    <3>2. \A j \in DOMAIN new : new[j].status # "running"
      BY <1>3, <2>4, <2>6 DEF GateInv, LedgerOrdered
    <3> QED
      BY <2>1, <2>4, <2>5, <2>6, <3>1, <3>2, <1>3 DEF RequestCleared
  <2>8. RequestOwnsRow' /\ PermitHeldOnlyInFlight'
    BY <1>1, <1>3, <2>1 DEF RequestInv, RequestOwnsRow, PermitHeldOnlyInFlight, Idle
  <2> QED
    BY <1>1, <2>1, <2>3, <2>7, <2>8, InvFromParts DEF RequestInv, PCs
<1>5. CASE ~IsStale(rows[i], now)
  <2>1. Return /\ UNCHANGED jobs
    BY <1>2, <1>5
  <2> QED
    BY <1>1, <2>1, ReturnKeepsRequest, SameData, InvFromParts DEF Return
<1> QED
  BY <1>4, <1>5

\* A capture is stamped with the time of the row the request owns.
LEMMA CaptureKeeps ==
    ASSUME GateInv, Capture
    PROVE  GateInv'
<1> DEFINE caps == captures[area]
           new == Append(caps, now)
           n == Len(caps)
           rows == jobs[area]
<1>1. DataInv /\ RequestInv
  BY InvParts
<1>2. /\ pc = "capture"
      /\ pc' = "finish"
      /\ captures' = [captures EXCEPT ![area] = new]
      /\ UNCHANGED <<clock, jobs, area, now, job, permit>>
  BY DEF Capture
<1>3. /\ area \in Area
      /\ captures \in [Area -> Seq(Nat)]
      /\ caps \in Seq(Nat)
      /\ rows \in Seq(JobRow)
      /\ now \in Nat
  BY DEF GateInv, TypeOK
<1>4. /\ n \in Nat
      /\ DOMAIN caps = 1..n
      /\ new \in Seq(Nat)
      /\ Len(new) = n + 1
      /\ DOMAIN new = 1..(n + 1)
      /\ \A k \in 1..n : new[k] = caps[k]
      /\ new[n + 1] = now
  BY <1>3, LenProperties
<1>5. /\ captures'[area] = new
      /\ \A a \in Area \ {area} : captures'[a] = captures[a]
  BY <1>2, <1>3
<1> HIDE DEF new
<1>6. /\ job \in DOMAIN rows
      /\ rows[job].started = now
      /\ rows[job].status = "running"
      /\ job = Len(rows)
  BY <1>2, OwnedRow DEF GateInv, RequestOwnsRow
<1>7. Ordered(rows)
  BY <1>3 DEF GateInv, LedgerOrdered
<1>8. \A j \in DOMAIN rows \ {job} : rows[j].started < now
  <2>1. DOMAIN rows = 1..Len(rows) /\ Len(rows) \in Nat
    BY <1>3, LenProperties
  <2> QED
    BY <1>6, <1>7, <2>1 DEF Ordered
<1>9. Agree(rows, caps)
  BY <1>3 DEF GateInv, CacheAgreesWithLedger
<1>10. ~Captured(caps, now)
  BY <1>2 DEF GateInv, RequestOwnsRow
<1>11. \A k \in 1..n : caps[k] < now
  <2>1. SUFFICES ASSUME NEW k \in 1..n PROVE caps[k] < now
    OBVIOUS
  <2>2. PICK j \in DOMAIN rows : rows[j].started = caps[k]
    BY <1>4, <1>9 DEF Agree
  <2>3. j # job
    BY <1>4, <1>6, <1>10, <2>2 DEF Captured
  <2> QED
    BY <1>8, <2>2, <2>3
<1>a. CapturesOrdered'
  <2>1. SUFFICES ASSUME NEW a \in Area, NEW k \in DOMAIN captures'[a],
                        NEW l \in DOMAIN captures'[a], k < l
                 PROVE  captures'[a][k] < captures'[a][l]
    BY DEF CapturesOrdered
  <2>2. CASE a = area
    <3>1. k \in 1..n /\ l \in 1..(n + 1)
      BY <1>4, <1>5, <2>1, <2>2, SMTT(30)
    <3>2. CASE l = n + 1
      BY <1>4, <1>5, <1>11, <2>2, <3>1, <3>2
    <3>3. CASE l \in 1..n
      <4>1. caps[k] < caps[l]
        BY <1>3, <1>4, <2>1, <3>1, <3>3 DEF GateInv, CapturesOrdered
      <4> QED
        BY <1>4, <1>5, <2>2, <3>1, <3>3, <4>1
    <3> QED
      BY <1>4, <3>1, <3>2, <3>3
  <2>3. CASE a # area
    BY <1>5, <2>1, <2>3 DEF GateInv, CapturesOrdered
  <2> QED
    BY <2>2, <2>3
<1>b. CacheAgreesWithLedger'
  <2>1. SUFFICES ASSUME NEW a \in Area
                 PROVE  Agree(jobs[a], captures'[a])
    BY <1>2 DEF CacheAgreesWithLedger
  <2>2. \A t : Captured(new, t) <=> Captured(caps, t) \/ t = now
    <3>1. SUFFICES ASSUME NEW t
                   PROVE  Captured(new, t) <=> Captured(caps, t) \/ t = now
      OBVIOUS
    <3>2. DOMAIN new = DOMAIN caps \union {n + 1}
      BY <1>4
    <3>3. \A k \in DOMAIN caps : new[k] = caps[k]
      BY <1>4
    <3> QED
      BY <1>4, <3>2, <3>3, Zenon DEF Captured
  <2>3. \A j \in DOMAIN rows : rows[j].status # "running" => rows[j].started # now
    <3>1. \A j \in DOMAIN rows \ {job} : rows[j].started \in Nat
      BY <1>3, RowFields
    <3> QED
      BY <1>3, <1>6, <1>8, <3>1
  <2>4. Agree(rows, new)
    BY <1>4, <1>6, <1>9, <2>2, <2>3, SMTT(30) DEF Agree
  <2>5. CASE a # area
    BY <1>5, <2>5 DEF GateInv, CacheAgreesWithLedger
  <2> QED
    BY <1>5, <2>4, <2>5
<1>c. RequestOwnsRow'
  <2>1. Captured(new, now)
    BY <1>4 DEF Captured
  <2> QED
    BY <1>2, <1>5, <2>1 DEF GateInv, RequestOwnsRow
<1>d. TypeOK' /\ RequestCleared' /\ PermitHeldOnlyInFlight'
  BY <1>2, <1>3, <1>4
  DEF GateInv, TypeOK, PCs, RequestCleared, PermitHeldOnlyInFlight, Idle
<1>e. LedgerOrdered' /\ AttemptsSpaced' /\ DailyBudgetHolds'
  BY <1>2 DEF GateInv, LedgerOrdered, AttemptsSpaced, DailyBudgetHolds
<1> QED
  BY <1>a, <1>b, <1>c, <1>d, <1>e DEF GateInv

\* A request that has captured settles its own row as completed.
LEMMA FinishKeeps ==
    ASSUME GateInv, Finish
    PROVE  GateInv'
<1>1. DataInv /\ RequestInv
  BY InvParts
<1>2. Return /\ Settle("completed", "none") /\ pc = "finish"
  BY DEF Finish
<1>3. job \in DOMAIN jobs[area] /\ jobs[area][job].started = now
  BY <1>2, OwnedRow
<1>4. Captured(captures[area], now) /\ area \in Area
  BY <1>2 DEF GateInv, TypeOK, RequestOwnsRow
<1>5. jobs' = [jobs EXCEPT ![area] = Finished(@, job, "completed", "none")]
  BY <1>2 DEF Settle
<1>6. captures' = captures
  BY <1>2 DEF Return
<1>7. "none" \in JobCode
  BY DEF JobCode
<1>8. DataInv'
  BY <1>1, <1>3, <1>4, <1>5, <1>6, <1>7, OutcomeKeepsData
<1> QED
  BY <1>1, <1>2, <1>8, ReturnKeepsRequest, InvFromParts

-----------------------------------------------------------------------------
(* The invariant, step by step.                                            *)

\* Nothing has been tried and nothing is stored.
LEMMA InitGateInv == Init => GateInv
<1> SUFFICES ASSUME Init PROVE GateInv
  OBVIOUS
<1>1. TypeOK
  BY GateConstants, EmptySeq DEF Init, TypeOK, PCs
<1>2. \A a \in Area : DOMAIN jobs[a] = {} /\ DOMAIN captures[a] = {} /\ Len(jobs[a]) = 0
  BY DEF Init
<1>3. LedgerOrdered /\ AttemptsSpaced /\ DailyBudgetHolds
  BY <1>2 DEF LedgerOrdered, Ordered, AttemptsSpaced, DailyBudgetHolds
<1>4. CapturesOrdered /\ CacheAgreesWithLedger
  BY <1>2 DEF CapturesOrdered, CacheAgreesWithLedger, Agree
<1>5. RequestCleared /\ RequestOwnsRow /\ PermitHeldOnlyInFlight
  BY DEF Init, RequestCleared, RequestOwnsRow, PermitHeldOnlyInFlight, Idle
<1> QED
  BY <1>1, <1>3, <1>4, <1>5 DEF GateInv

\* Every step of the gate keeps the invariant.
LEMMA StepGateInv == GateInv /\ [Next]_vars => GateInv'
<1> SUFFICES ASSUME GateInv, [Next]_vars PROVE GateInv'
  OBVIOUS
<1>0. DataInv /\ RequestInv
  BY InvParts
<1>1. ASSUME NEW a \in Area, Accept(a) PROVE GateInv'
  <2>1. RequestCleared'
    BY <1>1, AcceptClears
  <2>2. DataInv'
    BY <1>0, <1>1, SameData DEF Accept
  <2>3. RequestInv'
    BY <1>0, <1>1, <2>1, GateConstants
    DEF Accept, RequestInv, RequestOwnsRow, PermitHeldOnlyInFlight, Idle, PCs
  <2> QED
    BY <2>2, <2>3, InvFromParts
<1>2. CASE AdmitLive
  <2>1. DataInv'
    BY <1>0, <1>2, SameData DEF AdmitLive
  <2>2. RequestInv'
    BY <1>0, <1>2 DEF AdmitLive, RequestInv, RequestCleared, RequestOwnsRow,
                       PermitHeldOnlyInFlight, Idle, PCs
  <2> QED
    BY <2>1, <2>2, InvFromParts
<1>3. CASE RefuseLive \/ BeginFails \/ FinishFails
  <2>1. Return /\ jobs' = jobs /\ captures' = captures
    BY <1>3 DEF RefuseLive, BeginFails, FinishFails, Return
  <2> QED
    BY <1>0, <2>1, SameData, ReturnKeepsRequest, InvFromParts
<1>4. CASE Insert
  BY <1>4, InsertKeeps
<1>5. CASE InsertConflict
  <2>1. DataInv'
    BY <1>0, <1>5, SameData DEF InsertConflict
  <2>2. RequestInv'
    BY <1>0, <1>5 DEF InsertConflict, RequestInv, RequestCleared, RequestOwnsRow,
                       PermitHeldOnlyInFlight, Idle, PCs
  <2> QED
    BY <2>1, <2>2, InvFromParts
<1>6. CASE Reclaim
  BY <1>6, ReclaimKeeps
<1>7. CASE FetchSucceeds
  <2>1. DataInv'
    BY <1>0, <1>7, SameData DEF FetchSucceeds
  <2>2. RequestInv'
    BY <1>0, <1>7 DEF FetchSucceeds, RequestInv, RequestCleared, RequestOwnsRow,
                       PermitHeldOnlyInFlight, Idle, PCs
  <2> QED
    BY <2>1, <2>2, InvFromParts
<1>8. ASSUME NEW code \in FetchCode, FetchFails(code) PROVE GateInv'
  BY <1>8, FailureKeeps DEF FetchFails, JobCode
<1>9. CASE Capture
  BY <1>9, CaptureKeeps
<1>10. CASE CaptureFails
  BY <1>10, FailureKeeps DEF CaptureFails, JobCode
<1>11. CASE Finish
  BY <1>11, FinishKeeps
<1>12. ASSUME NEW t \in Time, Tick(t) PROVE GateInv'
  <2>1. DataInv'
    BY <1>0, <1>12, SameData DEF Tick
  <2>2. RequestInv'
    BY <1>0, <1>12 DEF Tick, RequestInv, RequestCleared, RequestOwnsRow,
                        PermitHeldOnlyInFlight
  <2> QED
    BY <2>1, <2>2, InvFromParts
<1>13. CASE MarketBegins \/ MarketEnds
  <2>1. DataInv'
    BY <1>0, <1>13, SameData DEF MarketBegins, MarketEnds
  <2>2. RequestInv'
    BY <1>0, <1>13 DEF MarketBegins, MarketEnds, RequestInv, RequestCleared,
                        RequestOwnsRow, PermitHeldOnlyInFlight
  <2> QED
    BY <2>1, <2>2, InvFromParts
<1>14. CASE Crash
  <2>1. DataInv'
    BY <1>0, <1>14, SameData DEF Crash
  <2>2. RequestInv'
    BY <1>0, <1>14 DEF Crash, RequestInv, RequestCleared, RequestOwnsRow,
                        PermitHeldOnlyInFlight, Idle, PCs
  <2> QED
    BY <2>1, <2>2, InvFromParts
<1>15. CASE UNCHANGED vars
  <2>1. DataInv'
    BY <1>0, <1>15, SameData DEF vars
  <2>2. RequestInv'
    BY <1>0, <1>15 DEF vars, RequestInv, RequestCleared, RequestOwnsRow,
                        PermitHeldOnlyInFlight
  <2> QED
    BY <2>1, <2>2, InvFromParts
<1> QED
  BY <1>1, <1>2, <1>3, <1>4, <1>5, <1>6, <1>7, <1>8, <1>9, <1>10, <1>11, <1>12,
     <1>13, <1>14, <1>15
  DEF Next, RefreshThread, Environment

\* The inductive invariant of the refresh gate holds in every reachable state,
\* whatever the limits, the clock, the storage errors and the crashes.
THEOREM GateInvariant == Spec => []GateInv
<1>1. Init => GateInv
  BY InitGateInv
<1>2. GateInv /\ [Next]_vars => GateInv'
  BY StepGateInv
<1> QED
  BY <1>1, <1>2, PTL DEF Spec

-----------------------------------------------------------------------------
(* What follows from it.                                                   *)

\* Every variable keeps its type.
THEOREM TypeCorrect == Spec => []TypeOK
<1>1. GateInv => TypeOK
  BY DEF GateInv
<1> QED
  BY <1>1, GateInvariant, PTL

\* Two attempts for an area are never closer than its cooldown, or than the age
\* at which a dead one is reclaimed: refresh_preflight and try_begin_job.
THEOREM SpacedAttempts == Spec => []AttemptsSpaced
<1>1. GateInv => AttemptsSpaced
  BY DEF GateInv
<1> QED
  BY <1>1, GateInvariant, PTL

\* No day exceeds the budget of an area: count_jobs_on_utc_date counts every
\* attempt, failed, reclaimed or running.
THEOREM BudgetNeverExceeded == Spec => []DailyBudgetHolds
<1>1. GateInv => DailyBudgetHolds
  BY DEF GateInv
<1> QED
  BY <1>1, GateInvariant, PTL

\* The cache and job_runs agree after any failure between capture and outcome.
THEOREM CacheAgrees == Spec => []CacheAgreesWithLedger
<1>1. GateInv => CacheAgreesWithLedger
  BY DEF GateInv
<1> QED
  BY <1>1, GateInvariant, PTL

\* The live-login permit is held exactly while the refresh thread is past its
\* admission: LiveLoginPermit is finished or dropped on every way out.
THEOREM PermitNeverLeaks == Spec => []PermitHeldOnlyInFlight
<1>1. GateInv => PermitHeldOnlyInFlight
  BY DEF GateInv
<1> QED
  BY <1>1, GateInvariant, PTL

\* latest_job_run, which orders by started_at, never misses the row that holds
\* the area's lock.
THEOREM LockIsLatest == Spec => []RunningIsLatest
<1>1. GateInv => RunningIsLatest
  <2> SUFFICES ASSUME GateInv, NEW a \in Area, NEW i \in Running(jobs[a])
               PROVE  i = Latest(jobs[a])
    BY DEF RunningIsLatest
  <2>1. jobs[a] \in Seq(JobRow) /\ Ordered(jobs[a])
    BY DEF GateInv, TypeOK, LedgerOrdered
  <2>2. i \in DOMAIN jobs[a] /\ jobs[a] # << >> /\ i = Len(jobs[a])
    BY <2>1 DEF GateInv, LedgerOrdered, Running
  <2> QED
    BY <2>1, <2>2, LatestIsLast
<1> QED
  BY <1>1, GateInvariant, PTL

\* With a circuit cooldown no longer than the spacing of attempts, every request
\* the breaker would deny is denied before refresh_preflight asks it.
THEOREM BreakerIsRedundant == Spec => []BreakerNeverDecides
<1>1. ASSUME GateInv, NEW a \in Area, NEW t \in Time,
             CircuitCooldown[a] <= MinGapOf(a),
             Preflight(a, t) = "refresh_circuit_open"
      PROVE  FALSE
  <2> DEFINE rows == jobs[a]
             last == rows[Len(rows)]
  <2>1. /\ rows \in Seq(JobRow)
        /\ Ordered(rows)
        /\ t \in Nat
        /\ Cooldown[a] \in Nat \ {0}
        /\ CircuitCooldown[a] \in Nat
        /\ StaleSecs \in Nat
    BY <1>1, GateConstants DEF GateInv, TypeOK, LedgerOrdered
  <2>2. /\ ~Cooling(rows, t, Cooldown[a])
        /\ CircuitOpen(rows, t, CircuitFailures, CircuitCooldown[a])
    BY <1>1 DEF Preflight
  <2>3. PICK i \in DOMAIN rows : t - rows[i].started < CircuitCooldown[a]
    BY <2>2 DEF CircuitOpen, RecentOutcomes, Terminal
  <2>4. /\ rows # << >>
        /\ DOMAIN rows = 1..Len(rows)
        /\ Len(rows) \in Nat \ {0}
    BY <2>1, <2>3, EmptySeq, LenProperties
  <2>5. /\ rows[i].started \in Nat
        /\ last.started \in Nat
        /\ rows[i].started <= last.started
    <3>1. rows[i].started \in Nat /\ last.started \in Nat
      BY <2>1, <2>3, <2>4, RowFields
    <3>2. i = Len(rows) \/ rows[i].started < last.started
      BY <2>1, <2>3, <2>4 DEF Ordered
    <3> QED
      BY <3>1, <3>2
  <2>6. Latest(rows) = Len(rows)
    BY <2>1, <2>4, LatestIsLast
  <2>7. t - last.started > StaleSecs \/ t - last.started >= Cooldown[a]
    BY <2>1, <2>2, <2>4, <2>5, <2>6 DEF Cooling, IsStale
  <2>8. t - last.started < MinGapOf(a)
    <3>1. CircuitCooldown[a] <= MinGapOf(a)
      BY <1>1
    <3>2. MinGapOf(a) \in Int
      BY <2>1 DEF MinGapOf
    <3>3. t - last.started < CircuitCooldown[a]
      BY <2>1, <2>3, <2>5
    <3> QED
      BY <2>1, <2>5, <3>1, <3>2, <3>3
  <2> QED
    BY <2>1, <2>5, <2>7, <2>8 DEF MinGapOf
<1>2. GateInv => BreakerNeverDecides
  BY <1>1 DEF BreakerNeverDecides
<1> QED
  BY <1>2, GateInvariant, PTL

-----------------------------------------------------------------------------
(* Steps seen from the stored data.                                        *)

\* Seen from the stored data a step inserts a row, records an outcome, commits
\* a capture, or does nothing.
LEMMA DataSteps ==
    ASSUME GateInv, [Next]_vars
    PROVE  \/ Insert
           \/ /\ \E i \in DOMAIN jobs[area], status \in {"completed", "failed"},
                    code \in JobCode :
                    jobs' = [jobs EXCEPT ![area] = Finished(@, i, status, code)]
              /\ captures' = captures
           \/ Capture
           \/ jobs' = jobs /\ captures' = captures
<1> DEFINE Outcome == \E i \in DOMAIN jobs[area], status \in {"completed", "failed"},
                         code \in JobCode :
                         jobs' = [jobs EXCEPT ![area] = Finished(@, i, status, code)]
<1>1. /\ {"stale", "none", "internal"} \subseteq JobCode
      /\ FetchCode \subseteq JobCode
  BY DEF JobCode
<1>2. CASE Reclaim
  <2>1. \/ Return /\ jobs' = jobs
        \/ /\ \E i \in DOMAIN jobs[area] :
                jobs' = [jobs EXCEPT ![area] = Finished(@, i, "failed", "stale")]
           /\ captures' = captures
    BY <1>2 DEF Reclaim, Running
  <2> QED
    BY <1>1, <2>1 DEF Return
<1>3. ASSUME NEW code \in FetchCode, FetchFails(code)
      PROVE  (Outcome \/ jobs' = jobs) /\ captures' = captures
  BY <1>1, <1>3, OwnedRow DEF FetchFails, Settle, Return
<1>4. CASE CaptureFails
  <2>1. (Outcome \/ jobs' = jobs) /\ captures' = captures
    BY <1>1, <1>4, OwnedRow DEF CaptureFails, Settle, Return
  <2> QED
    BY <2>1
<1>5. CASE Finish
  <2>1. Outcome /\ captures' = captures
    BY <1>1, <1>5, OwnedRow DEF Finish, Settle, Return
  <2> QED
    BY <2>1
<1>6. CASE \/ \E a \in Area : Accept(a)
           \/ AdmitLive \/ RefuseLive \/ InsertConflict \/ BeginFails
           \/ FetchSucceeds \/ FinishFails
           \/ Environment
           \/ UNCHANGED vars
  BY <1>6
  DEF Accept, AdmitLive, RefuseLive, InsertConflict, BeginFails, FetchSucceeds,
      FinishFails, Environment, Tick, MarketBegins, MarketEnds, Crash, Return, vars
<1> QED
  BY <1>2, <1>3, <1>4, <1>5, <1>6 DEF Next, RefreshThread

\* An inserted row extends the ledger of its area.
LEMMA InsertExtends ==
    ASSUME GateInv, Insert
    PROVE  \A a \in Area : ExtendsLedger(jobs[a], jobs'[a])
<1> DEFINE rows == jobs[area]
           new == Append(rows, RunningRow(now))
<1>1. /\ jobs \in [Area -> Seq(JobRow)]
      /\ rows \in Seq(JobRow)
      /\ now \in Nat
      /\ jobs' = [jobs EXCEPT ![area] = new]
  BY DEF Insert, GateInv, TypeOK
<1>2. RunningRow(now) \in JobRow
  BY <1>1 DEF RunningRow, JobRow, JobStatus, JobCode
<1>3. ExtendsLedger(rows, new)
  BY <1>1, <1>2, LenProperties DEF ExtendsLedger
<1>4. \A r \in Seq(JobRow) : ExtendsLedger(r, r)
  BY DEF ExtendsLedger
<1> QED
  BY <1>1, <1>3, <1>4

\* job_runs is append-only but for the outcome of the running row.
THEOREM LedgerNeverRewritten == Spec => LedgerAppendOnly
<1>1. ASSUME GateInv, [Next]_vars
      PROVE  [\A a \in Area : ExtendsLedger(jobs[a], jobs'[a])]_jobs
  <2>1. CASE Insert
    BY <1>1, <2>1, InsertExtends
  <2>2. CASE \E i \in DOMAIN jobs[area], status \in {"completed", "failed"},
                code \in JobCode :
                jobs' = [jobs EXCEPT ![area] = Finished(@, i, status, code)]
    <3>1. PICK i \in DOMAIN jobs[area], status \in {"completed", "failed"},
               code \in JobCode :
               jobs' = [jobs EXCEPT ![area] = Finished(@, i, status, code)]
      BY <2>2
    <3>2. /\ jobs \in [Area -> Seq(JobRow)]
          /\ area \in Area
          /\ jobs[area] \in Seq(JobRow)
      BY <1>1 DEF GateInv, TypeOK
    <3> DEFINE new == Finished(jobs[area], i, status, code)
    <3>3. /\ Len(new) = Len(jobs[area])
          /\ \A j \in DOMAIN jobs[area] : new[j].started = jobs[area][j].started
          /\ \A j \in DOMAIN jobs[area] :
               jobs[area][j].status # "running" => new[j] = jobs[area][j]
      BY <3>2, FinishedKeeps, SMTT(30)
    <3>4. jobs'[area] = new /\ \A a \in Area \ {area} : jobs'[a] = jobs[a]
      BY <3>1, <3>2
    <3> HIDE DEF new
    <3>5. ExtendsLedger(jobs[area], new)
      BY <3>3 DEF ExtendsLedger
    <3>6. \A a \in Area \ {area} : ExtendsLedger(jobs[a], jobs'[a])
      BY <3>4 DEF ExtendsLedger
    <3> QED
      BY <3>4, <3>5, <3>6
  <2>3. CASE jobs' = jobs
    BY <2>3
  <2>4. CASE Capture
    BY <2>4 DEF Capture
  <2> QED
    BY <1>1, <2>1, <2>2, <2>3, <2>4, DataSteps
<1> QED
  BY <1>1, GateInvariant, PTL DEF Spec, LedgerAppendOnly

-----------------------------------------------------------------------------
(* The breaker.                                                            *)

\* The newest attempts, as many as trip the breaker, all failed upstream.
Tripped(rows) ==
    /\ CircuitFailures > 0
    /\ Len(rows) >= CircuitFailures
    /\ \A i \in (Len(rows) - CircuitFailures + 1)..Len(rows) : UpstreamFailure(rows[i])

\* A request between preflight and its insert still satisfies what the breaker asked.
BreakerCleared ==
    pc \in {"admit", "begin", "reclaim", "reinsert"} /\ Tripped(jobs[area]) =>
        now - jobs[area][Len(jobs[area])].started >= CircuitCooldown[area]

BreakerInv == BreakerSpacesAttempts /\ BreakerCleared

\* An interval has as many elements as its length says.
LEMMA IntervalCount ==
    ASSUME NEW m \in Nat, NEW n \in Nat, m <= n
    PROVE  IsFiniteSet((m + 1)..n) /\ Cardinality((m + 1)..n) = n - m
<1>1. m + 1 \in Int /\ n \in Int
  OBVIOUS
<1>2. /\ IsFiniteSet((m + 1)..n)
      /\ Cardinality((m + 1)..n) = IF m + 1 > n THEN 0 ELSE n - (m + 1) + 1
  BY <1>1, FS_Interval
<1> QED
  BY <1>2

\* What recent_job_outcomes returns when the newest rows have an outcome: those rows.
LEMMA TrippedIsRecent ==
    ASSUME NEW rows \in Seq(JobRow), Ordered(rows), Tripped(rows), CircuitFailures \in Nat
    PROVE  /\ RecentOutcomes(rows, CircuitFailures) = (Len(rows) - CircuitFailures + 1)..Len(rows)
           /\ Cardinality(RecentOutcomes(rows, CircuitFailures)) = CircuitFailures
<1> DEFINE n == Len(rows)
           m == n - CircuitFailures
           done == Terminal(rows)
           newer(i) == {j \in done : Newer(rows, j, i)}
<1>1. /\ n \in Nat /\ m \in Nat /\ m <= n /\ CircuitFailures \in Nat /\ n - m = CircuitFailures
      /\ DOMAIN rows = 1..n
  BY LenProperties DEF Tripped
<1>2. \A i \in 1..n : rows[i].started \in Nat
  BY <1>1, RowFields
<1>3. \A i, j \in 1..n : Newer(rows, j, i) <=> j > i
  BY <1>1, <1>2 DEF Newer, Ordered
<1>4. done \subseteq 1..n /\ (m + 1)..n \subseteq done
  <2>1. \A i \in (m + 1)..n : i \in 1..n
    BY <1>1
  <2>2. \A i \in (m + 1)..n : UpstreamFailure(rows[i])
    BY DEF Tripped
  <2> QED
    BY <1>1, <2>1, <2>2 DEF Terminal, Running, UpstreamFailure
<1>5. IsFiniteSet((m + 1)..n) /\ Cardinality((m + 1)..n) = CircuitFailures
  <2> HIDE DEF n, m
  <2> QED
    BY <1>1, IntervalCount
<1>6. ASSUME NEW i \in (m + 1)..n
      PROVE  Cardinality(newer(i)) < CircuitFailures
  <2>1. newer(i) \subseteq (i + 1)..n
    <3>1. i \in 1..n
      BY <1>1
    <3> QED
      BY <1>1, <1>3, <1>4, <3>1
  <2>2. i \in Nat /\ i <= n /\ n - i < CircuitFailures
    BY <1>1
  <2> HIDE DEF n, m, newer
  <2>3. IsFiniteSet((i + 1)..n) /\ Cardinality((i + 1)..n) = n - i
    BY <1>1, <2>2, IntervalCount
  <2>4. Cardinality(newer(i)) <= n - i /\ Cardinality(newer(i)) \in Nat
    BY <2>1, <2>3, FS_Subset, FS_CardinalityType
  <2> QED
    BY <1>1, <2>2, <2>4
<1>7. ASSUME NEW i \in done, i \notin (m + 1)..n
      PROVE  ~(Cardinality(newer(i)) < CircuitFailures)
  <2>1. i \in 1..n /\ i <= m
    BY <1>1, <1>4, <1>7
  <2>2. (m + 1)..n \subseteq newer(i)
    BY <1>1, <1>3, <1>4, <2>1
  <2>3. newer(i) \subseteq 1..n /\ IsFiniteSet(1..n)
    BY <1>1, <1>4, FS_Interval
  <2> HIDE DEF n, m, newer
  <2>4. IsFiniteSet(newer(i))
    BY <2>3, FS_Subset
  <2>5. CircuitFailures <= Cardinality(newer(i)) /\ Cardinality(newer(i)) \in Nat
    BY <1>5, <2>2, <2>4, FS_Subset, FS_CardinalityType
  <2> QED
    BY <1>1, <2>5
<1>8. RecentOutcomes(rows, CircuitFailures) = (m + 1)..n
  <2>1. RecentOutcomes(rows, CircuitFailures)
          = {i \in done : Cardinality(newer(i)) < CircuitFailures}
    BY DEF RecentOutcomes
  <2> HIDE DEF n, m, newer, done
  <2> QED
    BY <1>4, <1>6, <1>7, <2>1
<1> QED
  BY <1>5, <1>8

\* When the newest attempts failed upstream, a closed breaker means that the circuit
\* cooldown has passed since the last of them.
LEMMA ClosedIsCool ==
    ASSUME NEW rows \in Seq(JobRow), Ordered(rows), Tripped(rows), CircuitFailures \in Nat,
           NEW t \in Nat, NEW cooldown \in Nat,
           ~CircuitOpen(rows, t, CircuitFailures, cooldown)
    PROVE  t - rows[Len(rows)].started >= cooldown
<1> DEFINE n == Len(rows)
           recent == (n - CircuitFailures + 1)..n
<1>1. /\ RecentOutcomes(rows, CircuitFailures) = recent
      /\ Cardinality(RecentOutcomes(rows, CircuitFailures)) = CircuitFailures
  BY TrippedIsRecent
<1>2. /\ CircuitFailures > 0 /\ n \in Nat /\ n \in recent /\ DOMAIN rows = 1..n
      /\ \A i \in recent : UpstreamFailure(rows[i]) /\ i \in 1..n
  BY LenProperties DEF Tripped
<1>3. \A j \in recent \ {n} : Newer(rows, n, j)
  BY <1>2 DEF Ordered, Newer
<1>4. rows[n].started \in Nat
  BY <1>2, RowFields
<1> HIDE DEF recent
<1>5. ~(t - rows[n].started < cooldown)
  BY <1>1, <1>2, <1>3 DEF CircuitOpen
<1> QED
  BY <1>4, <1>5

\* Preflight clears a request of the breaker too.
LEMMA AcceptClearsBreaker ==
    ASSUME GateInv, NEW a \in Area, Accept(a)
    PROVE  BreakerCleared'
<1>1. /\ jobs[a] \in Seq(JobRow) /\ Ordered(jobs[a]) /\ clock \in Nat
      /\ CircuitFailures \in Nat /\ CircuitCooldown[a] \in Nat
  BY GateConstants DEF GateInv, TypeOK, LedgerOrdered
<1>2. area' = a /\ now' = clock /\ jobs' = jobs /\ Preflight(a, clock) = "ok"
  BY DEF Accept
<1>3. ~CircuitOpen(jobs[a], clock, CircuitFailures, CircuitCooldown[a])
  BY <1>2 DEF Preflight
<1>4. Tripped(jobs[a]) => clock - jobs[a][Len(jobs[a])].started >= CircuitCooldown[a]
  BY <1>1, <1>3, ClosedIsCool
<1> QED
  BY <1>2, <1>4 DEF BreakerCleared, Tripped

\* A step that does not insert leaves every streak as it was; a row that is closed as
\* stale ends one.
LEMMA OutcomeKeepsBreaker ==
    ASSUME GateInv, BreakerSpacesAttempts,
           NEW i \in DOMAIN jobs[area], NEW status \in {"completed", "failed"}, NEW code \in JobCode,
           jobs' = [jobs EXCEPT ![area] = Finished(@, i, status, code)]
    PROVE  /\ BreakerSpacesAttempts'
           /\ jobs[area][i].status = "running" /\ code = "stale" /\ area' = area =>
                ~Tripped(jobs[area])'
<1> DEFINE rows == jobs[area]
           n == Len(rows)
           new == Finished(rows, i, status, code)
<1>1. /\ jobs \in [Area -> Seq(JobRow)] /\ area \in Area /\ rows \in Seq(JobRow)
      /\ CircuitFailures \in Nat
  BY GateConstants DEF GateInv, TypeOK
<1>2. /\ Len(new) = n /\ DOMAIN new = DOMAIN rows
      /\ \A j \in DOMAIN rows : new[j].started = rows[j].started
      /\ \A j \in DOMAIN rows \ {i} : new[j] = rows[j]
      /\ rows[i].status # "running" => new[i] = rows[i]
      /\ rows[i].status = "running" => new[i].code = code
  BY <1>1, FinishedKeeps, SMTT(30)
<1>3. DOMAIN rows = 1..n /\ n \in Nat
  BY <1>1, LenProperties
<1>4. \A j \in 1..(n - 1) : new[j] = rows[j]
  <2>1. rows[i].status = "running" => i = n
    BY <1>1 DEF GateInv, LedgerOrdered
  <2> QED
    BY <1>2, <1>3, <2>1
<1>5. jobs'[area] = new /\ \A a \in Area \ {area} : jobs'[a] = jobs[a]
  BY <1>1
<1> HIDE DEF new
<1>6. BreakerSpacesAttempts'
  <2> SUFFICES ASSUME NEW a \in Area, NEW k \in DOMAIN jobs'[a],
                      CircuitFailures > 0, k > CircuitFailures,
                      \A j \in (k - CircuitFailures)..(k - 1) : UpstreamFailure(jobs'[a][j])
               PROVE  jobs'[a][k].started - jobs'[a][k-1].started >= CircuitCooldown[a]
    BY DEF BreakerSpacesAttempts
  <2>1. CASE a # area
    BY <1>5, <2>1 DEF BreakerSpacesAttempts
  <2>2. CASE a = area
    <3>1. k \in 1..n /\ k - 1 \in 1..n
      BY <1>1, <1>2, <1>3, <1>5, <2>2
    <3>2. \A j \in (k - CircuitFailures)..(k - 1) : j \in 1..(n - 1)
      BY <1>1, <1>3, <3>1
    <3>3. \A j \in (k - CircuitFailures)..(k - 1) : UpstreamFailure(rows[j])
      BY <1>4, <1>5, <2>2, <3>2
    <3>4. rows[k].started - rows[k-1].started >= CircuitCooldown[area]
      BY <1>1, <1>3, <3>1, <3>3 DEF BreakerSpacesAttempts
    <3> QED
      BY <1>2, <1>3, <1>5, <2>2, <3>1, <3>4
  <2> QED
    BY <2>1, <2>2
<1>7. ASSUME rows[i].status = "running", code = "stale", Tripped(new)
      PROVE  FALSE
  <2>1. i = n
    BY <1>1, <1>7 DEF GateInv, LedgerOrdered
  <2>2. n \in (n - CircuitFailures + 1)..n
    BY <1>1, <1>3, <1>7 DEF Tripped
  <2>3. UpstreamFailure(new[n])
    BY <1>2, <1>7, <2>2 DEF Tripped
  <2> QED
    BY <1>2, <1>7, <2>1, <2>3 DEF UpstreamFailure, UpstreamCode
<1> QED
  BY <1>5, <1>6, <1>7 DEF Tripped

\* The row that a cleared request inserts keeps its distance to a streak before it.
LEMMA InsertKeepsBreaker ==
    ASSUME GateInv, BreakerInv, Insert
    PROVE  BreakerInv'
<1> DEFINE rows == jobs[area]
           n == Len(rows)
           new == Append(rows, RunningRow(now))
<1>1. /\ jobs \in [Area -> Seq(JobRow)] /\ area \in Area /\ rows \in Seq(JobRow)
      /\ CircuitFailures \in Nat /\ now \in Nat
  BY GateConstants DEF GateInv, TypeOK
<1>2. RunningRow(now) \in JobRow /\ RunningRow(now).started = now
  BY <1>1 DEF RunningRow, JobRow, JobStatus, JobCode
<1>3. /\ n \in Nat /\ DOMAIN new = 1..(n + 1)
      /\ \A j \in 1..n : new[j] = rows[j]
      /\ new[n + 1] = RunningRow(now)
  BY <1>1, <1>2, LenProperties
<1>4. /\ jobs'[area] = new /\ \A a \in Area \ {area} : jobs'[a] = jobs[a]
      /\ pc \in {"begin", "reinsert"} /\ pc' = "fetch" /\ DOMAIN rows = 1..n
  BY <1>1, LenProperties DEF Insert
<1> HIDE DEF new
<1>5. BreakerSpacesAttempts'
  <2> SUFFICES ASSUME NEW a \in Area, NEW k \in DOMAIN jobs'[a],
                      CircuitFailures > 0, k > CircuitFailures,
                      \A j \in (k - CircuitFailures)..(k - 1) : UpstreamFailure(jobs'[a][j])
               PROVE  jobs'[a][k].started - jobs'[a][k-1].started >= CircuitCooldown[a]
    BY DEF BreakerSpacesAttempts
  <2>1. CASE a # area
    BY <1>4, <2>1 DEF BreakerInv, BreakerSpacesAttempts
  <2>2. CASE a = area
    <3>1. /\ k \in 1..(n + 1) /\ k - 1 \in 1..n
          /\ \A j \in (k - CircuitFailures)..(k - 1) : j \in 1..n
      BY <1>1, <1>3, <1>4, <2>2
    <3>2. \A j \in (k - CircuitFailures)..(k - 1) : UpstreamFailure(rows[j])
      BY <1>3, <1>4, <2>2, <3>1
    <3>3. CASE k \in 1..n
      <4>1. rows[k].started - rows[k-1].started >= CircuitCooldown[area]
        BY <1>1, <1>4, <3>2, <3>3 DEF BreakerInv, BreakerSpacesAttempts
      <4> QED
        BY <1>3, <1>4, <2>2, <3>1, <3>3, <4>1
    <3>4. CASE k = n + 1
      <4>1. Tripped(rows)
        BY <1>1, <1>3, <3>2, <3>4 DEF Tripped
      <4>2. now - rows[n].started >= CircuitCooldown[area]
        BY <1>4, <4>1 DEF BreakerInv, BreakerCleared
      <4> QED
        BY <1>2, <1>3, <1>4, <2>2, <3>1, <3>4, <4>2
    <3>5. k \in 1..n \/ k = n + 1
      BY <1>3, <3>1
    <3> QED
      BY <3>3, <3>4, <3>5
  <2> QED
    BY <2>1, <2>2
<1>6. BreakerCleared'
  BY <1>4 DEF BreakerCleared
<1> QED
  BY <1>5, <1>6 DEF BreakerInv

\* A step that keeps the request in hand and the rows keeps what it is cleared of.
LEMMA SameBreaker ==
    ASSUME BreakerCleared, jobs' = jobs, area' = area, now' = now,
           pc' \in {"admit", "begin", "reclaim", "reinsert"} =>
             pc \in {"admit", "begin", "reclaim", "reinsert"}
    PROVE  BreakerCleared'
BY DEF BreakerCleared, Tripped

\* Every step keeps both.
LEMMA BreakerKept ==
    ASSUME GateInv, BreakerInv, [Next]_vars
    PROVE  BreakerInv'
<1>1. CASE Insert
  BY <1>1, InsertKeepsBreaker
<1>2. BreakerSpacesAttempts'
  <2>1. CASE \E i \in DOMAIN jobs[area], status \in {"completed", "failed"}, code \in JobCode :
               jobs' = [jobs EXCEPT ![area] = Finished(@, i, status, code)]
    BY <2>1, OutcomeKeepsBreaker DEF BreakerInv
  <2>2. CASE jobs' = jobs
    BY <2>2 DEF BreakerInv, BreakerSpacesAttempts
  <2>3. CASE Capture
    BY <2>2, <2>3 DEF Capture
  <2> QED
    BY <1>1, <2>1, <2>2, <2>3, DataSteps DEF BreakerInv
<1>3. CASE \E a \in Area : Accept(a)
  BY <1>2, <1>3, AcceptClearsBreaker DEF BreakerInv
<1>4. CASE Reclaim
  <2>1. CASE pc' = Idle
    BY <1>2, <2>1 DEF BreakerInv, BreakerCleared, Idle
  <2>2. CASE \E i \in Running(jobs[area]) :
                /\ jobs' = [jobs EXCEPT ![area] = Finished(@, i, "failed", "stale")]
                /\ area' = area
    <3>1. PICK i \in Running(jobs[area]) :
                /\ jobs' = [jobs EXCEPT ![area] = Finished(@, i, "failed", "stale")]
                /\ area' = area
      BY <2>2
    <3>2. i \in DOMAIN jobs[area] /\ jobs[area][i].status = "running"
      BY <3>1 DEF Running
    <3>3. "stale" \in JobCode
      BY DEF JobCode
    <3>4. ~Tripped(jobs[area])'
      BY <3>1, <3>2, <3>3, OutcomeKeepsBreaker DEF BreakerInv
    <3> QED
      BY <1>2, <3>4 DEF BreakerInv, BreakerCleared
  <2> QED
    BY <1>4, <2>1, <2>2 DEF Reclaim, Return
<1>5. CASE AdmitLive \/ InsertConflict \/ (\E t \in Time : Tick(t)) \/ MarketBegins \/ MarketEnds
           \/ UNCHANGED vars
  <2>1. /\ jobs' = jobs /\ area' = area /\ now' = now
        /\ pc' \in {"admit", "begin", "reclaim", "reinsert"} =>
             pc \in {"admit", "begin", "reclaim", "reinsert"}
    BY <1>5 DEF AdmitLive, InsertConflict, Tick, MarketBegins, MarketEnds, vars
  <2> QED
    BY <1>2, <2>1, SameBreaker DEF BreakerInv
<1>6. CASE RefuseLive \/ BeginFails \/ FetchSucceeds \/ (\E code \in FetchCode : FetchFails(code))
           \/ Capture \/ CaptureFails \/ Finish \/ FinishFails \/ Crash
  <2>1. pc' \notin {"admit", "begin", "reclaim", "reinsert"}
    BY <1>6 DEF RefuseLive, BeginFails, FetchSucceeds, FetchFails, Capture, CaptureFails, Finish,
                FinishFails, Crash, Return, Idle
  <2> QED
    BY <1>2, <2>1 DEF BreakerInv, BreakerCleared
<1> QED
  BY <1>1, <1>3, <1>4, <1>5, <1>6 DEF Next, RefreshThread, Environment

\* After as many upstream failures in a row as trip the breaker, the next attempt for
\* the area waits for the circuit cooldown (RefreshGate.BreakerSpacesAttempts,
\* refresh_preflight), also when attempts died in between or the clock was set back.
THEOREM BreakerSpaces == Spec => []BreakerSpacesAttempts
<1>1. Init => BreakerInv
  <2> SUFFICES ASSUME Init PROVE BreakerInv
    OBVIOUS
  <2>1. \A a \in Area : DOMAIN jobs[a] = {}
    BY DEF Init
  <2>2. pc = "idle"
    BY DEF Init, Idle
  <2> QED
    BY <2>1, <2>2 DEF BreakerInv, BreakerSpacesAttempts, BreakerCleared
<1>2. GateInv /\ BreakerInv /\ [Next]_vars => BreakerInv'
  BY BreakerKept
<1>3. BreakerInv => BreakerSpacesAttempts
  BY DEF BreakerInv
<1> QED
  BY <1>1, <1>2, <1>3, GateInvariant, PTL DEF Spec

-----------------------------------------------------------------------------
(* The gate implements AttemptGate.                                        *)

\* The times of the attempts are those of the rows.
LEMMA StartsOfRows ==
    ASSUME NEW rows \in Seq(JobRow)
    PROVE  /\ Starts(rows) \in Seq(Nat)
           /\ Len(Starts(rows)) = Len(rows)
           /\ \A i \in 1..Len(rows) : Starts(rows)[i] = rows[i].started
<1>1. DOMAIN rows = 1..Len(rows) /\ Len(rows) \in Nat
  BY LenProperties
<1>2. \A i \in 1..Len(rows) : rows[i].started \in Nat
  BY <1>1, RowFields
<1>3. Starts(rows) = [i \in 1..Len(rows) |-> rows[i].started]
  BY <1>1 DEF Starts
<1> QED
  BY <1>1, <1>2, <1>3

\* An attempt adds its time to those of the earlier ones.
LEMMA StartsAppend ==
    ASSUME NEW rows \in Seq(JobRow), NEW t \in Nat
    PROVE  Starts(Append(rows, RunningRow(t))) = Append(Starts(rows), t)
<1> DEFINE new == Append(rows, RunningRow(t))
<1>1. RunningRow(t) \in JobRow /\ RunningRow(t).started = t
  BY DEF RunningRow, JobRow, JobStatus, JobCode
<1>2. /\ new \in Seq(JobRow)
      /\ Len(rows) \in Nat
      /\ Len(new) = Len(rows) + 1
      /\ \A i \in 1..Len(rows) : new[i] = rows[i]
      /\ new[Len(rows) + 1] = RunningRow(t)
  BY <1>1, LenProperties
<1> HIDE DEF new
<1>3. /\ Starts(new) \in Seq(Nat)
      /\ Len(Starts(new)) = Len(rows) + 1
      /\ \A i \in 1..(Len(rows) + 1) : Starts(new)[i] = new[i].started
  BY <1>2, StartsOfRows
<1>4. /\ Append(Starts(rows), t) \in Seq(Nat)
      /\ Len(Append(Starts(rows), t)) = Len(rows) + 1
      /\ \A i \in 1..Len(rows) : Append(Starts(rows), t)[i] = rows[i].started
      /\ Append(Starts(rows), t)[Len(rows) + 1] = t
  BY <1>2, StartsOfRows
<1>5. \A i \in 1..(Len(rows) + 1) : Starts(new)[i] = Append(Starts(rows), t)[i]
  <2>1. SUFFICES ASSUME NEW i \in 1..(Len(rows) + 1)
                 PROVE  Starts(new)[i] = Append(Starts(rows), t)[i]
    OBVIOUS
  <2>2. CASE i \in 1..Len(rows)
    BY <1>2, <1>3, <1>4, <2>2
  <2>3. CASE i = Len(rows) + 1
    BY <1>1, <1>2, <1>3, <1>4, <2>3
  <2>4. i \in 1..Len(rows) \/ i = Len(rows) + 1
    <3>1. Len(rows) \in Nat
      BY <1>2
    <3> QED
      BY <3>1
  <2> QED
    BY <2>2, <2>3, <2>4
<1>6. Starts(new) = Append(Starts(rows), t)
  BY <1>2, <1>3, <1>4, <1>5, SeqEqual
<1> QED
  BY <1>6 DEF new

\* An outcome adds no attempt and moves none.
LEMMA StartsFinished ==
    ASSUME NEW rows \in Seq(JobRow), NEW i \in DOMAIN rows,
           NEW status \in {"completed", "failed"}, NEW code \in JobCode
    PROVE  Starts(Finished(rows, i, status, code)) = Starts(rows)
<1> DEFINE new == Finished(rows, i, status, code)
<1>1. /\ DOMAIN new = DOMAIN rows
      /\ \A j \in DOMAIN rows : new[j].started = rows[j].started
  BY FinishedKeeps, SMTT(30)
<1> HIDE DEF new
<1>2. Starts(new) = Starts(rows)
  BY <1>1 DEF Starts
<1> QED
  BY <1>2 DEF new

\* The instance of AttemptGate counts with the Cardinality of this module.
LEMMA SameCardinality ==
    ASSUME NEW S
    PROVE  Gate!Cardinality(S) = Cardinality(S)
BY DEF Gate!Cardinality, Cardinality

\* A cleared insert is an attempt the abstract gate allows.
LEMMA InsertIsAttempt ==
    ASSUME GateInv, Insert
    PROVE  Gate!Attempt(area, now)
<1> DEFINE rows == jobs[area]
           last == rows[Len(rows)]
           abs == [a \in Area |-> Starts(jobs[a])]
<1>1. /\ area \in Area
      /\ jobs \in [Area -> Seq(JobRow)]
      /\ rows \in Seq(JobRow)
      /\ now \in Nat
      /\ Cooldown[area] \in Nat \ {0}
      /\ StaleSecs \in Nat
      /\ Len(rows) \in Nat
      /\ DOMAIN rows = 1..Len(rows)
  BY GateConstants, LenProperties DEF GateInv, TypeOK
<1>2. /\ pc \in {"begin", "reinsert"}
      /\ \A i \in DOMAIN rows : rows[i].status # "running"
      /\ jobs' = [jobs EXCEPT ![area] = Append(rows, RunningRow(now))]
      /\ captures' = captures
  BY DEF Insert, Running
<1>3. /\ Starts(rows) \in Seq(Nat)
      /\ Len(Starts(rows)) = Len(rows)
      /\ \A i \in 1..Len(rows) : Starts(rows)[i] = rows[i].started
  BY <1>1, StartsOfRows
<1>4. ASSUME Starts(rows) # << >>
      PROVE  now - Starts(rows)[Len(Starts(rows))] >= MinGapOf(area)
  <2>1. rows # << >> /\ Len(rows) \in DOMAIN rows
    BY <1>1, <1>3, <1>4, EmptySeq
  <2>2. last.started \in Nat /\ last.status # "running"
    BY <1>1, <1>2, <2>1, RowFields
  <2>3. now - last.started >= Cooldown[area] \/ now - last.started > StaleSecs
    BY <1>2, <2>1 DEF GateInv, RequestCleared
  <2>4. now - last.started >= MinGapOf(area)
    BY <1>1, <2>2, <2>3 DEF MinGapOf
  <2> QED
    BY <1>1, <1>3, <2>1, <2>4
<1>5. Gate!Cardinality(Gate!SameDay(Starts(rows), now)) < DailyBudget[area]
  <2>1. Gate!SameDay(Starts(rows), now) = OnDay(rows, Day(now))
    BY <1>1, <1>3 DEF Gate!SameDay, OnDay, Day, Starts
  <2>2. Cardinality(OnDay(rows, Day(now))) < DailyBudget[area]
    BY <1>2 DEF GateInv, RequestCleared
  <2> QED
    BY <2>1, <2>2, SameCardinality
<1>6. [a \in Area |-> Starts(jobs'[a])] = [abs EXCEPT ![area] = Append(Starts(rows), now)]
  <2>1. Starts(Append(rows, RunningRow(now))) = Append(Starts(rows), now)
    BY <1>1, StartsAppend
  <2>2. \A a \in Area : jobs'[a] = IF a = area THEN Append(rows, RunningRow(now)) ELSE jobs[a]
    BY <1>1, <1>2
  <2> QED
    BY <1>1, <2>1, <2>2
<1> QED
  BY <1>1, <1>2, <1>4, <1>5, <1>6 DEF Gate!Attempt, Gate!Last

\* A capture publishes the data of the newest attempt, once.
LEMMA CaptureIsPublish ==
    ASSUME GateInv, Capture
    PROVE  Gate!Publish(area)
<1> DEFINE rows == jobs[area]
           caps == captures[area]
<1>1. /\ area \in Area
      /\ rows \in Seq(JobRow)
      /\ caps \in Seq(Nat)
      /\ now \in Nat
      /\ captures \in [Area -> Seq(Nat)]
      /\ pc = "capture"
      /\ jobs' = jobs
      /\ captures' = [captures EXCEPT ![area] = Append(@, now)]
  BY DEF Capture, GateInv, TypeOK
<1>2. /\ rows # << >>
      /\ Len(rows) \in DOMAIN rows
      /\ rows[Len(rows)].started = now
      /\ DOMAIN rows = 1..Len(rows)
      /\ Len(rows) \in Nat
  BY <1>1, OwnedRow, LenProperties DEF GateInv, RequestOwnsRow
<1>3. /\ Starts(rows) # << >>
      /\ Starts(rows)[Len(Starts(rows))] = now
  <2>1. /\ Starts(rows) \in Seq(Nat)
        /\ Len(Starts(rows)) = Len(rows)
        /\ \A i \in 1..Len(rows) : Starts(rows)[i] = rows[i].started
    BY <1>1, StartsOfRows
  <2>2. Starts(rows)[Len(rows)] = now
    BY <1>2, <2>1
  <2>3. Len(rows) # 0
    BY <1>2
  <2> QED
    BY <2>1, <2>2, <2>3, EmptySeq
<1>4. ASSUME caps # << >>
      PROVE  caps[Len(caps)] < now
  <2>1. Len(caps) \in DOMAIN caps /\ caps[Len(caps)] \in Nat
    BY <1>1, <1>4, EmptySeq, LenProperties
  <2>2. PICK i \in DOMAIN rows : rows[i].started = caps[Len(caps)]
    BY <1>1, <2>1 DEF GateInv, CacheAgreesWithLedger, Agree
  <2>3. caps[Len(caps)] # now
    BY <1>1, <2>1 DEF GateInv, RequestOwnsRow, Captured
  <2>4. i < Len(rows)
    BY <1>2, <2>2, <2>3
  <2>5. rows[i].started < rows[Len(rows)].started
    BY <1>1, <1>2, <2>4 DEF GateInv, LedgerOrdered, Ordered
  <2> QED
    BY <1>2, <2>2, <2>5
<1> QED
  BY <1>1, <1>3, <1>4 DEF Gate!Publish, Gate!Last

\* The refresh gate implements the abstract one: every attempt it lets through
\* is spaced and within the day's budget, and what it publishes is always the
\* data of the newest attempt.
THEOREM GateRefinement == Spec => ImplementsAttemptGate
<1>1. Init => Gate!Init
  BY DEF Init, Gate!Init, Starts
<1>2. ASSUME GateInv, [Next]_vars
      PROVE  [Gate!Next]_(Gate!gateVars)
  <2>1. CASE Insert
    <3>1. Gate!Attempt(area, now) /\ area \in Area /\ now \in Time
      BY <1>2, <2>1, InsertIsAttempt DEF Insert, GateInv, TypeOK, RequestCleared
    <3> QED
      BY <3>1 DEF Gate!Next
  <2>2. CASE Capture
    <3>1. Gate!Publish(area) /\ area \in Area
      BY <1>2, <2>2, CaptureIsPublish DEF GateInv, TypeOK
    <3> QED
      BY <3>1 DEF Gate!Next
  <2>3. CASE /\ \E i \in DOMAIN jobs[area], status \in {"completed", "failed"},
                   code \in JobCode :
                   jobs' = [jobs EXCEPT ![area] = Finished(@, i, status, code)]
             /\ captures' = captures
    <3>1. PICK i \in DOMAIN jobs[area], status \in {"completed", "failed"},
               code \in JobCode :
               jobs' = [jobs EXCEPT ![area] = Finished(@, i, status, code)]
      BY <2>3
    <3>2. jobs \in [Area -> Seq(JobRow)] /\ area \in Area /\ jobs[area] \in Seq(JobRow)
      BY <1>2 DEF GateInv, TypeOK
    <3>3. Starts(Finished(jobs[area], i, status, code)) = Starts(jobs[area])
      BY <3>2, StartsFinished
    <3>4. \A a \in Area : Starts(jobs'[a]) = Starts(jobs[a])
      BY <3>1, <3>2, <3>3
    <3>5. [a \in Area |-> Starts(jobs'[a])] = [a \in Area |-> Starts(jobs[a])]
      BY <3>4
    <3> QED
      BY <2>3, <3>5 DEF Gate!gateVars
  <2>4. CASE jobs' = jobs /\ captures' = captures
    BY <2>4 DEF Gate!gateVars
  <2> QED
    BY <1>2, <2>1, <2>2, <2>3, <2>4, DataSteps
<1> QED
  BY <1>1, <1>2, GateInvariant, PTL DEF Spec, ImplementsAttemptGate, Gate!Spec
=============================================================================
