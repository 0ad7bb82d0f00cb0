---------------------------- MODULE CachedReads ----------------------------
(***************************************************************************)
(* QueryHandler::handle of fineco-query beside the refresh path: a second  *)
(* thread with a SQLite connection of its own answers cached reads while   *)
(* RefreshGate writes.  A read is a few SQL statements and no transaction, *)
(* so the refresh can commit between any two of them.                      *)
(*                                                                         *)
(* A capture is named by its captured_at: what a statement finds is given  *)
(* as the captured_at of the capture it belongs to.                        *)
(***************************************************************************)
EXTENDS RefreshGate

CONSTANTS
    MaxAge    \* FreshnessMaxAge

ASSUME ReadConstants == MaxAge \in Nat

VARIABLES
    reader,  \* the read in hand: its kind, area, clock, and statements left
    answer   \* what its statements have found so far

readVars == <<reader, answer>>
allVars == <<vars, readVars>>

None == -1

\* MAX(captured_at) of the area's markers; the newest snapshot of the portfolio
LatestCaptureAt(a) ==
    LET all == {captures[a][k] : k \in DOMAIN captures[a]} IN
    IF all = {} THEN None ELSE CHOOSE t \in all : \A u \in all : u <= t

\* Variant with a bug, to test the properties: the timestamp is taken before the rows.
StatementsStampFirst ==
    [rows |-> <<"stamp", "rows">>,
     movements |-> <<"stamp", "rows", "summary">>,
     snapshot |-> <<"header", "positions">>,
     freshness |-> <<"stamp", "running", "outcome">>]

\* The statements of each kind of read, in order.
Statements ==
    [rows |-> <<"rows", "stamp">>,          \* orders, tax, dividends
     movements |-> <<"rows", "stamp", "summary">>,
     snapshot |-> <<"header", "positions">>,  \* full snapshot, shareable report
     freshness |-> <<"stamp", "running", "outcome">>]

Kinds(a) ==
    {"freshness"}
      \union (IF a = "portfolio" THEN {"snapshot"} ELSE {"rows"})
      \union (IF a = "movements" THEN {"movements"} ELSE {})

NoAnswer == [rows |-> None, stamp |-> None, summary |-> None, state |-> "none"]

\* `after' is how many captures the area had when the read began.
Read(k, a) == [kind |-> k, area |-> a, asked |-> clock, after |-> Len(captures[a]),
               todo |-> Statements[k], open |-> TRUE]
NoRead == [kind |-> "freshness", area |-> CHOOSE a \in Area : TRUE, asked |-> 0, after |-> 0,
           todo |-> << >>, open |-> FALSE]

-----------------------------------------------------------------------------
(* freshness_for                                                           *)

ByAge(captured, t) == IF t - captured > MaxAge THEN "stale" ELSE "fresh"

Verdict(isRunning, captured, last, t) ==
    IF isRunning THEN "refreshing"
    ELSE IF captured # None THEN ByAge(captured, t)
    ELSE IF last \in {"none", "completed", "running"} THEN "missing"
    ELSE last

\* What the latest attempt says of an area without data.
LastOutcome(rows) ==
    IF rows = << >> THEN "none"
    ELSE LET row == rows[Latest(rows)] IN
         IF row.status # "failed" THEN row.status
         ELSE IF row.code \in {"auth_required", "step_up_required"} THEN row.code
         ELSE "refresh_failed"

IsRunning(a) == Running(jobs[a]) # {}

-----------------------------------------------------------------------------
(* The reader.                                                             *)

Ask(k, a) ==
    /\ ~reader.open
    /\ reader' = Read(k, a)
    /\ answer' = NoAnswer
    /\ UNCHANGED vars

Executes(statement) ==
    /\ reader.open
    /\ reader.todo # << >>
    /\ Head(reader.todo) = statement
    /\ UNCHANGED vars

Goes(rest) == reader' = [reader EXCEPT !.todo = rest]

\* latest_orders, latest_tax_*, latest_movements: rows of the newest capture
ReadRows ==
    /\ Executes("rows")
    /\ answer' = [answer EXCEPT !.rows = LatestCaptureAt(reader.area)]
    /\ Goes(Tail(reader.todo))

\* latest_capture_at
ReadStamp ==
    /\ Executes("stamp")
    /\ answer' = [answer EXCEPT !.stamp = LatestCaptureAt(reader.area)]
    /\ Goes(Tail(reader.todo))

\* latest_movements_summary: the newest capture's, if the bank gave one
ReadSummary ==
    /\ Executes("summary")
    /\ answer' = [answer EXCEPT !.summary = LatestCaptureAt(reader.area)] \/ UNCHANGED answer
    /\ Goes(Tail(reader.todo))

\* latest_portfolio_snapshot: the totals, with the id of the snapshot
ReadHeader ==
    /\ Executes("header")
    /\ answer' = [answer EXCEPT !.stamp = LatestCaptureAt(reader.area)]
    /\ Goes(Tail(reader.todo))

\* Variant with a bug, to test the properties: the positions are those of the newest snapshot.
ReadPositionsOfNewest ==
    /\ Executes("positions")
    /\ answer' = [answer EXCEPT !.rows = LatestCaptureAt(reader.area)]
    /\ Goes(Tail(reader.todo))

\* positions_for_snapshot, shareable_report_rows: by the id of the header
ReadPositions ==
    /\ Executes("positions")
    /\ answer' = [answer EXCEPT !.rows = answer.stamp]
    /\ Goes(Tail(reader.todo))

\* Variant with a bug, to test the properties: the latest attempt is asked before the data.
ReadOutcomeBeforeData ==
    /\ Executes("running")
    /\ answer' = [answer EXCEPT !.state =
            IF ~IsRunning(reader.area) /\ LastOutcome(jobs[reader.area]) # "completed"
            THEN LastOutcome(jobs[reader.area])
            ELSE Verdict(IsRunning(reader.area), answer.stamp, "none", reader.asked)]
    /\ Goes(<< >>)

\* running_job_for: with it, or with data, the freshness is settled
ReadRunning ==
    /\ Executes("running")
    /\ IF IsRunning(reader.area) \/ answer.stamp # None
       THEN /\ answer' = [answer EXCEPT !.state =
                    Verdict(IsRunning(reader.area), answer.stamp, "none", reader.asked)]
            /\ Goes(<< >>)
       ELSE UNCHANGED answer /\ Goes(Tail(reader.todo))

\* latest_job_run
ReadOutcome ==
    /\ Executes("outcome")
    /\ answer' = [answer EXCEPT !.state =
            Verdict(FALSE, answer.stamp, LastOutcome(jobs[reader.area]), reader.asked)]
    /\ Goes(<< >>)

\* The read is complete and answered.
Answered == reader.open /\ reader.todo = << >>

Respond ==
    /\ Answered
    /\ reader' = NoRead
    /\ answer' = NoAnswer
    /\ UNCHANGED vars

\* A statement fails, and the read with it.
ReadFails ==
    /\ reader.open
    /\ reader.todo # << >>
    /\ reader' = NoRead
    /\ answer' = NoAnswer
    /\ UNCHANGED vars

ReaderThread ==
    \/ \E a \in Area : \E k \in Kinds(a) : Ask(k, a)
    \/ ReadRows \/ ReadStamp \/ ReadSummary
    \/ ReadHeader \/ ReadPositions
    \/ ReadRunning \/ ReadOutcome
    \/ Respond \/ ReadFails

-----------------------------------------------------------------------------
(* The refresh thread and its environment, seen by the reader.             *)

GateStep ==
    /\ RefreshThread \/ (\E t \in Time : Tick(t)) \/ MarketBegins \/ MarketEnds
    /\ UNCHANGED readVars

ProcessCrash == Crash /\ reader' = NoRead /\ answer' = NoAnswer

ReadsInit ==
    /\ Init
    /\ reader = NoRead
    /\ answer = NoAnswer

ReadsNext == ReaderThread \/ GateStep \/ ProcessCrash

ReadsSpec == ReadsInit /\ [][ReadsNext]_allVars

-----------------------------------------------------------------------------
(* Properties.                                                             *)

StatementName == {"rows", "stamp", "summary", "header", "positions", "running", "outcome"}
ReaderState ==
    [kind : {"rows", "movements", "snapshot", "freshness"}, area : Area,
     asked : Nat, after : Nat, todo : Seq(StatementName), open : BOOLEAN]
AnswerState ==
    [rows : Nat \union {None}, stamp : Nat \union {None}, summary : Nat \union {None},
     state : {"none", "refreshing", "fresh", "stale", "missing", "auth_required",
              "step_up_required", "refresh_failed"}]

\* Every variable the reader adds holds a value it could hold.
ReadsTypeOK == reader \in ReaderState /\ answer \in AnswerState

\* An answer of several statements is torn one way only: its timestamp is that of
\* its rows or of a later capture, and its account summary that of its timestamp
\* or of a later one.
TornForwardOnly ==
    Answered /\ reader.kind # "freshness" =>
        /\ answer.rows <= answer.stamp
        /\ answer.summary # None => answer.stamp <= answer.summary

\* t is the time of a capture of the area no older than the n-th.
Committed(a, t, n) == n = 0 \/ \E k \in DOMAIN captures[a] : k >= n /\ captures[a][k] = t

\* What the statements executed so far have found, by the statements left.
Progress ==
    LET left == reader.todo
        kind == reader.kind
        Stamped == Committed(reader.area, answer.stamp, reader.after)
        Torn == answer.rows <= answer.stamp
    IN \/ kind = "rows" /\ left = <<"rows", "stamp">> /\ answer = NoAnswer
       \/ kind = "rows" /\ left = <<"stamp">> /\ answer.summary = None
       \/ kind = "movements" /\ left = <<"rows", "stamp", "summary">> /\ answer = NoAnswer
       \/ kind = "movements" /\ left = <<"stamp", "summary">> /\ answer.summary = None
       \/ kind = "movements" /\ left = <<"summary">> /\ answer.summary = None /\ Torn /\ Stamped
       \/ kind = "snapshot" /\ left = <<"header", "positions">> /\ answer = NoAnswer
       \/ kind = "snapshot" /\ left = <<"positions">> /\ answer.summary = None /\ Stamped
       \/ kind = "freshness" /\ left = <<"stamp", "running", "outcome">> /\ answer = NoAnswer
       \/ kind = "freshness" /\ left = <<"running", "outcome">> /\ Stamped
       \/ kind = "freshness" /\ left = <<"outcome">> /\ answer.stamp = None /\ Stamped
       \/ /\ left = << >> /\ Stamped
          /\ kind # "freshness" => Torn /\ (answer.summary # None => answer.stamp <= answer.summary)
          /\ kind = "snapshot" => answer.rows = answer.stamp
          /\ kind = "freshness" /\ reader.after > 0
               => answer.state \in {"refreshing", "fresh", "stale"}

\* Nothing found is newer than what is there, a read still has the captures it
\* began after, and its answer is as far as Progress says.
ReadsInv ==
    /\ ReadsTypeOK
    /\ \A t \in {answer.rows, answer.stamp, answer.summary} : t <= LatestCaptureAt(reader.area)
    /\ reader.open => reader.after <= Len(captures[reader.area]) /\ Progress
    /\ TornForwardOnly

\* The totals and the positions of a portfolio answer are of one snapshot.
SnapshotIsOneCapture ==
    Answered /\ reader.kind = "snapshot" => answer.rows = answer.stamp

\* Where in the order of the commits the capture stamped t is.
Place(a, t) ==
    LET at == {k \in DOMAIN captures[a] : captures[a][k] = t} IN
    IF at = {} THEN 0 ELSE CHOOSE k \in at : \A l \in at : l <= k

\* A read shows a capture that was committed before it began, or a later one: what
\* is newest by captured_at is newest by commit, also when the clock was set back.
ReadsSeeCommitted ==
    Answered => Place(reader.area, answer.stamp) >= reader.after

\* An area with data is reported as being refreshed or by the age of its data,
\* never as missing or failed, whatever became of the attempts since.
UsableDataIsReported ==
    Answered /\ reader.kind = "freshness" /\ reader.after > 0 =>
        answer.state \in {"refreshing", "fresh", "stale"}

\* latest_movements_summary is said to be the summary captured with the rows'
\* capture, and all four fields to be observable together with it.
MovementsAreOneCapture ==
    Answered /\ reader.kind = "movements" =>
        /\ answer.rows = answer.stamp
        /\ answer.summary # None => answer.summary = answer.rows
=============================================================================
