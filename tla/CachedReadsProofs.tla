------------------------- MODULE CachedReadsProofs -------------------------
(***************************************************************************)
(* Proofs about CachedReads.  The writer is RefreshGate, whose GateInv says *)
(* that the captures of an area are committed in the order of their times; *)
(* what a reader may see of them follows from that alone.                  *)
(***************************************************************************)
EXTENDS CachedReads, RefreshGateProofs

-----------------------------------------------------------------------------
(* The captures of an area.                                                *)

\* LatestCaptureAt, as a function of the captures.
NewestOf(s) ==
    LET all == {s[k] : k \in DOMAIN s} IN
    IF all = {} THEN None ELSE CHOOSE t \in all : \A u \in all : u <= t

Increasing(s) == \A k, l \in DOMAIN s : k < l => s[k] < s[l]

\* The newest capture by captured_at is the one committed last.
LEMMA NewestIsLast ==
    ASSUME NEW s \in Seq(Nat), Increasing(s)
    PROVE  /\ s = << >> => NewestOf(s) = None
           /\ s # << >> => Len(s) \in DOMAIN s /\ NewestOf(s) = s[Len(s)]
           /\ NewestOf(s) \in Nat \union {None}
           /\ \A k \in DOMAIN s : s[k] <= NewestOf(s)
<1> DEFINE all == {s[k] : k \in DOMAIN s}
<1>1. CASE s = << >>
  <2>1. all = {} /\ DOMAIN s = {}
      BY <1>1
  <2> QED
      BY <1>1, <2>1 DEF NewestOf
<1>2. CASE s # << >>
  <2>1. /\ Len(s) \in Nat \ {0}
        /\ DOMAIN s = 1..Len(s)
      BY <1>2, EmptySeq, LenProperties
  <2>2. \A k \in DOMAIN s : s[k] \in Nat
      OBVIOUS
  <2> DEFINE last == s[Len(s)]
  <2>3. last \in all /\ \A u \in all : u <= last
      BY <2>1, <2>2 DEF Increasing
  <2>4. NewestOf(s) = CHOOSE t \in all : \A u \in all : u <= t
      BY <2>3 DEF NewestOf
  <2>5. \A k \in DOMAIN s : s[k] \in all
      OBVIOUS
  <2>6. last \in Nat /\ all \subseteq Nat
      BY <2>1, <2>2
  <2> HIDE DEF last, all
  <2>7. \A t \in all : (\A u \in all : u <= t) => t = last
      BY <2>3, <2>6
  <2>8. NewestOf(s) = last
      BY <2>3, <2>4, <2>7
  <2> QED
      BY <1>2, <2>1, <2>3, <2>5, <2>6, <2>8 DEF last
<1> QED
    BY <1>1, <1>2

\* What is newest stays or is followed by something newer.
LEMMA NewestOfLonger ==
    ASSUME NEW s \in Seq(Nat), Increasing(s), NEW t \in Seq(Nat), Increasing(t),
           \A k \in DOMAIN s : k \in DOMAIN t /\ t[k] = s[k]
    PROVE  NewestOf(s) <= NewestOf(t)
<1>1. /\ NewestOf(t) \in Nat \union {None}
      /\ \A k \in DOMAIN t : t[k] <= NewestOf(t)
    BY NewestIsLast
<1>2. CASE s = << >>
  <2>1. NewestOf(s) = -1
      BY <1>2, NewestIsLast DEF None
  <2>2. NewestOf(t) \in Nat \union {-1}
      BY <1>1 DEF None
  <2> QED
      BY <2>1, <2>2
<1>3. CASE s # << >>
  <2>1. Len(s) \in DOMAIN s /\ NewestOf(s) = s[Len(s)]
      BY <1>3, NewestIsLast
  <2> QED
      BY <1>1, <2>1
<1> QED
    BY <1>2, <1>3

\* The captures of an area in a state of the gate.
LEMMA AreaCaptures ==
    ASSUME NEW a \in Area
    PROVE  /\ GateInv => /\ captures[a] \in Seq(Nat) /\ Increasing(captures[a])
                         /\ LatestCaptureAt(a) = NewestOf(captures[a])
           /\ GateInv' => /\ captures'[a] \in Seq(Nat) /\ Increasing(captures'[a])
                          /\ LatestCaptureAt(a)' = NewestOf(captures'[a])
    BY DEF GateInv, TypeOK, CapturesOrdered, Increasing, LatestCaptureAt, NewestOf

\* A step of the writer leaves the captures or adds one behind them.
LEMMA CapturesGrow ==
    ASSUME GateInv, [Next]_vars, NEW a \in Area
    PROVE  /\ Len(captures'[a]) >= Len(captures[a])
           /\ \A k \in DOMAIN captures[a] :
                k \in DOMAIN captures'[a] /\ captures'[a][k] = captures[a][k]
<1>1. captures \in [Area -> Seq(Nat)] /\ area \in Area /\ now \in Nat
    BY DEF GateInv, TypeOK
<1>2. CASE captures' = captures
    BY <1>1, <1>2
<1>3. CASE Capture
  <2>1. captures' = [captures EXCEPT ![area] = Append(captures[area], now)]
      BY <1>3 DEF Capture
  <2>2. captures[a] \in Seq(Nat)
      BY <1>1
  <2>3. captures'[a] = captures[a] \/ captures'[a] = Append(captures[a], now)
      BY <1>1, <2>1
  <2>4. /\ Len(Append(captures[a], now)) = Len(captures[a]) + 1
        /\ Len(captures[a]) \in Nat /\ DOMAIN captures[a] = 1..Len(captures[a])
        /\ DOMAIN Append(captures[a], now) = 1..(Len(captures[a]) + 1)
        /\ \A k \in 1..Len(captures[a]) : Append(captures[a], now)[k] = captures[a][k]
      BY <1>1, <2>2, AppendProperties, LenProperties
  <2> QED
      BY <2>3, <2>4
<1> QED
    BY <1>2, <1>3, DataSteps DEF Insert

\* So what a reader finds newest can only become newer.
LEMMA NewestGrows ==
    ASSUME GateInv, GateInv', [Next]_vars, NEW a \in Area
    PROVE  LatestCaptureAt(a) <= LatestCaptureAt(a)'
<1>1. \A k \in DOMAIN captures[a] :
        k \in DOMAIN captures'[a] /\ captures'[a][k] = captures[a][k]
    BY CapturesGrow
<1> QED
    BY <1>1, AreaCaptures, NewestOfLonger

-----------------------------------------------------------------------------
(* The inductive invariant of the reader.                                  *)

\* The statements of a read that remain when the first is done.
LEMMA StatementLists ==
    /\ Tail(<<"rows", "stamp">>) = <<"stamp">> /\ Tail(<<"stamp">>) = << >>
    /\ Tail(<<"rows", "stamp", "summary">>) = <<"stamp", "summary">>
    /\ Tail(<<"stamp", "summary">>) = <<"summary">> /\ Tail(<<"summary">>) = << >>
    /\ Tail(<<"header", "positions">>) = <<"positions">> /\ Tail(<<"positions">>) = << >>
    /\ Tail(<<"stamp", "running", "outcome">>) = <<"running", "outcome">>
    /\ Tail(<<"running", "outcome">>) = <<"outcome">>
    /\ Head(<<"rows", "stamp">>) = "rows" /\ Head(<<"stamp">>) = "stamp"
    /\ Head(<<"rows", "stamp", "summary">>) = "rows" /\ Head(<<"stamp", "summary">>) = "stamp"
    /\ Head(<<"summary">>) = "summary"
    /\ Head(<<"header", "positions">>) = "header" /\ Head(<<"positions">>) = "positions"
    /\ Head(<<"stamp", "running", "outcome">>) = "stamp"
    /\ Head(<<"running", "outcome">>) = "running" /\ Head(<<"outcome">>) = "outcome"
    OBVIOUS

-----------------------------------------------------------------------------
(* Steps.                                                                  *)

\* What ReadsInv adds to the type and to Progress.
Bounded ==
    /\ \A t \in {answer.rows, answer.stamp, answer.summary} : t <= LatestCaptureAt(reader.area)
    /\ reader.open => reader.after <= Len(captures[reader.area])

\* TornForwardOnly is what Progress says of an answer.
LEMMA ReadsInvParts ==
    /\ ReadsInv <=> ReadsTypeOK /\ Bounded /\ (reader.open => Progress)
    /\ ReadsInv' <=> ReadsTypeOK' /\ Bounded' /\ (reader.open => Progress)'
<1>1. (reader.open => Progress) => TornForwardOnly
    BY DEF Progress, TornForwardOnly, Answered
<1>2. (reader.open => Progress)' => TornForwardOnly'
    BY DEF Progress, TornForwardOnly, Answered
<1> QED
    BY <1>1, <1>2 DEF ReadsInv, Bounded

\* The values that stand for no read have the types of a read.
LEMMA NoReadTyped ==
    ASSUME NEW a \in Area
    PROVE  NoRead \in ReaderState /\ NoAnswer \in AnswerState /\ ~NoRead.open
<1> DEFINE a0 == CHOOSE b \in Area : TRUE
<1>1. a0 \in Area
    OBVIOUS
<1>2. << >> \in Seq(StatementName)
    OBVIOUS
<1>3. NoRead = [kind |-> "freshness", area |-> a0, asked |-> 0, after |-> 0, todo |-> << >>,
                open |-> FALSE]
    BY DEF NoRead
<1> HIDE DEF a0
<1>4. NoRead \in ReaderState /\ ~NoRead.open
    BY <1>1, <1>2, <1>3 DEF ReaderState
<1>5. NoAnswer \in AnswerState
    BY DEF NoAnswer, AnswerState
<1> QED
    BY <1>4, <1>5

\* Nobody reads: before the first read, after an answer, a failure or a crash.
LEMMA NoReadInv ==
    /\ GateInv /\ reader = NoRead /\ answer = NoAnswer => ReadsInv
    /\ GateInv' /\ reader' = NoRead /\ answer' = NoAnswer => ReadsInv'
<1>1. /\ GateInv => area \in Area
      /\ GateInv' => area' \in Area
    BY DEF GateInv, TypeOK
<1>2. ASSUME GateInv, reader = NoRead, answer = NoAnswer PROVE ReadsInv
  <2>1. ReadsTypeOK /\ ~reader.open /\ reader.area \in Area
      BY <1>1, <1>2, NoReadTyped DEF ReadsTypeOK, ReaderState
  <2>2. LatestCaptureAt(reader.area) \in Nat \union {None}
      BY <1>2, <2>1, AreaCaptures, NewestIsLast
  <2>3. Bounded
      BY <1>2, <2>1, <2>2 DEF Bounded, NoAnswer, None
  <2> QED
      BY <2>1, <2>3, ReadsInvParts
<1>3. ASSUME GateInv', reader' = NoRead, answer' = NoAnswer PROVE ReadsInv'
  <2>1. ReadsTypeOK' /\ ~reader'.open /\ reader'.area \in Area
      BY <1>1, <1>3, NoReadTyped DEF ReadsTypeOK, ReaderState
  <2>2. LatestCaptureAt(reader.area)' \in Nat \union {None}
      BY <1>3, <2>1, AreaCaptures, NewestIsLast DEF LatestCaptureAt, NewestOf
  <2>3. Bounded'
      BY <1>3, <2>1, <2>2 DEF Bounded, NoAnswer, None
  <2> QED
      BY <2>1, <2>3, ReadsInvParts
<1> QED
    BY <1>2, <1>3

\* A step of the writer: what was found stays committed and no newer than what
\* is there.
LEMMA WriterKeepsReads ==
    ASSUME GateInv, GateInv', [Next]_vars, ReadsInv, UNCHANGED readVars
    PROVE  ReadsInv'
<1> DEFINE a == reader.area
<1>1. reader' = reader /\ answer' = answer /\ a \in Area
    BY DEF readVars, ReadsInv, ReadsTypeOK, ReaderState
<1>2. ReadsTypeOK'
    BY <1>1 DEF ReadsInv, ReadsTypeOK
<1>3. /\ LatestCaptureAt(a) <= LatestCaptureAt(a)'
      /\ LatestCaptureAt(a) \in Int /\ LatestCaptureAt(a)' \in Int
    BY <1>1, NewestGrows, AreaCaptures, NewestIsLast DEF None
<1>4. /\ Len(captures'[a]) >= Len(captures[a])
      /\ Len(captures[a]) \in Nat /\ Len(captures'[a]) \in Nat
      /\ \A k \in DOMAIN captures[a] :
           k \in DOMAIN captures'[a] /\ captures'[a][k] = captures[a][k]
  <2>1. captures[a] \in Seq(Nat) /\ captures'[a] \in Seq(Nat)
      BY <1>1, AreaCaptures
  <2> QED
      BY <1>1, <2>1, CapturesGrow, LenProperties
<1>5. {answer.rows, answer.stamp, answer.summary} \subseteq Int /\ reader.after \in Int
    BY DEF ReadsInv, ReadsTypeOK, ReaderState, AnswerState, None
<1>6. Bounded'
    BY <1>1, <1>3, <1>4, <1>5 DEF ReadsInv, Bounded
<1>7. Committed(a, answer.stamp, reader.after) => Committed(a, answer.stamp, reader.after)'
    BY <1>1, <1>4 DEF Committed
<1>8. (reader.open => Progress)'
    BY <1>1, <1>7 DEF ReadsInv, Progress
<1> QED
    BY <1>2, <1>6, <1>8, ReadsInvParts

\* A statement that asks for the newest capture finds one no older than what was
\* there when the read began, and nothing found before it is newer.
LEMMA NewestIsCommitted ==
    ASSUME GateInv, ReadsInv, reader.open
    PROVE  /\ LatestCaptureAt(reader.area) \in Nat \union {None}
           /\ Committed(reader.area, LatestCaptureAt(reader.area), reader.after)
<1> DEFINE s == captures[reader.area]
<1>1. /\ reader.area \in Area /\ reader.after \in Nat /\ reader.after <= Len(s)
      /\ s \in Seq(Nat) /\ Increasing(s) /\ LatestCaptureAt(reader.area) = NewestOf(s)
    BY AreaCaptures DEF ReadsInv, ReadsTypeOK, ReaderState
<1>2. CASE s = << >>
  <2>1. Len(s) = 0
      BY <1>1, <1>2, LenProperties, EmptySeq
  <2>2. reader.after = 0
      BY <1>1, <2>1
  <2> QED
      BY <1>1, <2>2, NewestIsLast DEF Committed
<1>3. CASE s # << >>
  <2>1. /\ Len(s) \in DOMAIN s /\ NewestOf(s) = s[Len(s)] /\ NewestOf(s) \in Nat \union {None}
      BY <1>1, <1>3, NewestIsLast
  <2> HIDE DEF s
  <2>2. Len(s) >= reader.after
      BY <1>1, LenProperties
  <2> QED
      BY <1>1, <2>1, <2>2 DEF Committed, s
<1> QED
    BY <1>2, <1>3

\* A statement that is executed: the read goes on with the rest, and what the
\* answer gains is the newest capture or something found before.
LEMMA StatementKeeps ==
    ASSUME GateInv, ReadsInv, UNCHANGED vars, reader.open,
           NEW rest \in Seq(StatementName), Goes(rest), answer' \in AnswerState,
           {answer'.rows, answer'.stamp, answer'.summary}
             \subseteq {answer.rows, answer.stamp, answer.summary, LatestCaptureAt(reader.area)},
           Progress'
    PROVE  ReadsInv'
<1> DEFINE a == reader.area
<1>1. /\ reader \in ReaderState /\ a \in Area
      /\ LatestCaptureAt(a) \in Int
    BY AreaCaptures, NewestIsLast DEF ReadsInv, ReadsTypeOK, ReaderState, None
<1>2. /\ reader' \in ReaderState
      /\ reader'.area = a /\ reader'.after = reader.after
    BY <1>1 DEF Goes, ReaderState
<1>3. captures' = captures
    BY DEF vars
<1>4. ReadsTypeOK'
    BY <1>2 DEF ReadsTypeOK
<1>5. Bounded'
  <2>1. \A t \in {answer'.rows, answer'.stamp, answer'.summary} : t <= LatestCaptureAt(a)
      BY <1>1 DEF ReadsInv
  <2>2. reader.after <= Len(captures[a])
      BY DEF ReadsInv
  <2>3. LatestCaptureAt(reader.area)' = LatestCaptureAt(reader.area)
      BY <1>2, <1>3 DEF LatestCaptureAt
  <2> QED
      BY <1>2, <1>3, <2>1, <2>2, <2>3 DEF Bounded
<1> QED
    BY <1>4, <1>5, ReadsInvParts

\* A read begins with nothing found and all captures so far behind it.
LEMMA AskKeeps ==
    ASSUME GateInv, GateInv', UNCHANGED vars, NEW a \in Area, NEW k \in Kinds(a), Ask(k, a)
    PROVE  ReadsInv'
<1>1. reader' = Read(k, a) /\ answer' = NoAnswer
    BY DEF Ask
<1>2. k \in {"rows", "movements", "snapshot", "freshness"}
    BY DEF Kinds
<1>3. captures' = captures /\ captures[a] \in Seq(Nat) /\ Len(captures[a]) \in Nat /\ clock \in Nat
    BY GateConstants, AreaCaptures, LenProperties DEF vars, GateInv, TypeOK
<1>4. /\ Statements["rows"] = <<"rows", "stamp">>
      /\ Statements["movements"] = <<"rows", "stamp", "summary">>
      /\ Statements["snapshot"] = <<"header", "positions">>
      /\ Statements["freshness"] = <<"stamp", "running", "outcome">>
    BY DEF Statements
<1>5. Read(k, a) \in ReaderState
  <2>1. Statements[k] \in Seq(StatementName)
    <3>1. /\ <<"rows", "stamp">> \in Seq(StatementName)
          /\ <<"rows", "stamp", "summary">> \in Seq(StatementName)
          /\ <<"header", "positions">> \in Seq(StatementName)
          /\ <<"stamp", "running", "outcome">> \in Seq(StatementName)
        BY DEF StatementName
    <3> QED
        BY <1>2, <1>4, <3>1
  <2> QED
      BY <1>2, <1>3, <2>1 DEF Read, ReaderState
<1>6. ReadsTypeOK'
    BY <1>1, <1>5, NoReadTyped DEF ReadsTypeOK
<1>7. reader'.area = a /\ reader'.after = Len(captures[a]) /\ reader'.todo = Statements[k]
      /\ reader'.kind = k
    BY <1>1 DEF Read
<1>8. LatestCaptureAt(reader.area)' \in Nat \union {None}
    BY <1>7, AreaCaptures, NewestIsLast DEF LatestCaptureAt, NewestOf
<1>9. Bounded'
    BY <1>1, <1>3, <1>7, <1>8 DEF Bounded, NoAnswer, None
<1>10. Progress'
    BY <1>1, <1>2, <1>4, <1>7 DEF Progress
<1> QED
    BY <1>6, <1>9, <1>10, ReadsInvParts

\* Every step of the reader keeps ReadsInv.
LEMMA ReaderKeepsReads ==
    ASSUME GateInv, ReadsInv, ReaderThread PROVE ReadsInv'
<1> DEFINE a == reader.area
           newest == LatestCaptureAt(a)
<1>1. /\ UNCHANGED vars
      /\ GateInv'
  <2>1. UNCHANGED vars
      BY DEF ReaderThread, Ask, ReadRows, ReadStamp, ReadSummary, ReadHeader, ReadPositions,
             ReadRunning, ReadOutcome, Respond, ReadFails, Executes
  <2> QED
      BY <2>1, StepGateInv
<1>2. reader \in ReaderState /\ answer \in AnswerState /\ a \in Area
    BY DEF ReadsInv, ReadsTypeOK, ReaderState
<1>3. captures' = captures
    BY <1>1 DEF vars
<1>4. ASSUME reader.open
      PROVE  newest \in Nat \union {None} /\ Committed(a, newest, reader.after)
    BY <1>4, NewestIsCommitted
<1>5. \A b, t, n : Committed(b, t, n)' <=> Committed(b, t, n)
    BY <1>3 DEF Committed
<1>6. ASSUME reader.todo # << >> PROVE Tail(reader.todo) \in Seq(StatementName)
    BY <1>2, <1>6, HeadTailProperties DEF ReaderState
<1>7. CASE ReadRows
  <2>1. /\ answer = NoAnswer /\ reader.open
        /\ \/ reader.kind = "rows" /\ reader.todo = <<"rows", "stamp">>
           \/ reader.kind = "movements" /\ reader.todo = <<"rows", "stamp", "summary">>
      BY <1>7, StatementLists DEF ReadRows, Executes, ReadsInv, Progress
  <2>2. /\ answer' = [answer EXCEPT !.rows = newest]
        /\ Goes(Tail(reader.todo)) /\ Tail(reader.todo) \in Seq(StatementName)
      BY <1>6, <1>7 DEF ReadRows, Executes
  <2>3. Progress'
      BY <1>2, <2>1, <2>2, StatementLists DEF Progress, Goes, ReaderState, AnswerState, NoAnswer
  <2>4. answer' \in AnswerState
      BY <1>2, <1>4, <2>1, <2>2 DEF AnswerState
  <2> QED
      BY <1>1, <1>2, <2>1, <2>2, <2>3, <2>4, StatementKeeps DEF AnswerState
<1>8. CASE ReadStamp
  <2>1. /\ reader.open
        /\ \/ reader.kind = "rows" /\ reader.todo = <<"stamp">> /\ answer.summary = None
           \/ reader.kind = "movements" /\ reader.todo = <<"stamp", "summary">> /\ answer.summary = None
           \/ reader.kind = "freshness" /\ reader.todo = <<"stamp", "running", "outcome">>
      BY <1>8, StatementLists DEF ReadStamp, Executes, ReadsInv, Progress
  <2>2. /\ answer' = [answer EXCEPT !.stamp = newest]
        /\ Goes(Tail(reader.todo)) /\ Tail(reader.todo) \in Seq(StatementName)
      BY <1>6, <1>8 DEF ReadStamp, Executes
  <2>3. answer.rows <= newest
      BY DEF ReadsInv
  <2>4. /\ reader'.kind = reader.kind /\ reader'.area = a /\ reader'.after = reader.after
        /\ reader'.todo = Tail(reader.todo)
        /\ answer'.rows = answer.rows /\ answer'.stamp = newest /\ answer'.summary = answer.summary
      BY <1>2, <2>2 DEF Goes, ReaderState, AnswerState
  <2>5. Progress'
      BY <1>4, <1>5, <2>1, <2>3, <2>4, StatementLists DEF Progress
  <2>6. answer' \in AnswerState
      BY <1>2, <1>4, <2>1, <2>2 DEF AnswerState
  <2> QED
      BY <1>1, <1>2, <2>1, <2>2, <2>4, <2>5, <2>6, StatementKeeps
<1>9. CASE ReadSummary
  <2>1. /\ reader.open
        /\ reader.kind = "movements" /\ reader.todo = <<"summary">>
        /\ answer.summary = None /\ answer.rows <= answer.stamp
        /\ Committed(a, answer.stamp, reader.after)
      BY <1>9, StatementLists DEF ReadSummary, Executes, ReadsInv, Progress
  <2>2. /\ answer' = [answer EXCEPT !.summary = newest] \/ answer' = answer
        /\ Goes(Tail(reader.todo)) /\ Tail(reader.todo) \in Seq(StatementName)
      BY <1>6, <1>9 DEF ReadSummary, Executes
  <2>3. answer.stamp <= newest
      BY DEF ReadsInv
  <2>4. /\ reader'.kind = reader.kind /\ reader'.area = a /\ reader'.after = reader.after
        /\ reader'.todo = Tail(reader.todo)
        /\ answer'.rows = answer.rows /\ answer'.stamp = answer.stamp
        /\ answer'.summary \in {answer.summary, newest}
      BY <1>2, <2>2 DEF Goes, ReaderState, AnswerState
  <2>5. Progress'
      BY <1>5, <2>1, <2>3, <2>4, StatementLists DEF Progress
  <2>6. answer' \in AnswerState
      BY <1>2, <1>4, <2>1, <2>2 DEF AnswerState
  <2> QED
      BY <1>1, <1>2, <2>1, <2>2, <2>4, <2>5, <2>6, StatementKeeps
<1>10. CASE ReadHeader
  <2>1. /\ reader.open /\ answer = NoAnswer
        /\ reader.kind = "snapshot" /\ reader.todo = <<"header", "positions">>
      BY <1>10, StatementLists DEF ReadHeader, Executes, ReadsInv, Progress
  <2>2. /\ answer' = [answer EXCEPT !.stamp = newest]
        /\ Goes(Tail(reader.todo)) /\ Tail(reader.todo) \in Seq(StatementName)
      BY <1>6, <1>10 DEF ReadHeader, Executes
  <2>3. /\ reader'.kind = reader.kind /\ reader'.area = a /\ reader'.after = reader.after
        /\ reader'.todo = Tail(reader.todo)
        /\ answer'.rows = answer.rows /\ answer'.stamp = newest /\ answer'.summary = answer.summary
      BY <1>2, <2>2 DEF Goes, ReaderState, AnswerState
  <2>4. Progress'
      BY <1>4, <1>5, <2>1, <2>3, StatementLists DEF Progress, NoAnswer
  <2>5. answer' \in AnswerState
      BY <1>2, <1>4, <2>1, <2>2 DEF AnswerState
  <2> QED
      BY <1>1, <1>2, <2>1, <2>2, <2>3, <2>4, <2>5, StatementKeeps
<1>11. CASE ReadPositions
  <2>1. /\ reader.open /\ answer.summary = None
        /\ reader.kind = "snapshot" /\ reader.todo = <<"positions">>
        /\ Committed(a, answer.stamp, reader.after)
      BY <1>11, StatementLists DEF ReadPositions, Executes, ReadsInv, Progress
  <2>2. /\ answer' = [answer EXCEPT !.rows = answer.stamp]
        /\ Goes(Tail(reader.todo)) /\ Tail(reader.todo) \in Seq(StatementName)
      BY <1>6, <1>11 DEF ReadPositions, Executes
  <2>3. /\ reader'.kind = reader.kind /\ reader'.area = a /\ reader'.after = reader.after
        /\ reader'.todo = Tail(reader.todo)
        /\ answer'.rows = answer.stamp /\ answer'.stamp = answer.stamp
        /\ answer'.summary = answer.summary
      BY <1>2, <2>2 DEF Goes, ReaderState, AnswerState
  <2>4. answer.stamp <= answer.stamp
      BY <1>2 DEF AnswerState, None
  <2>5. Progress'
      BY <1>5, <2>1, <2>3, <2>4, StatementLists DEF Progress
  <2>6. answer' \in AnswerState
      BY <1>2, <2>2 DEF AnswerState
  <2> QED
      BY <1>1, <1>2, <2>1, <2>2, <2>3, <2>5, <2>6, StatementKeeps
<1>12. CASE ReadRunning
  <2> DEFINE state == Verdict(IsRunning(a), answer.stamp, "none", reader.asked)
  <2>1. /\ reader.open
        /\ reader.kind = "freshness" /\ reader.todo = <<"running", "outcome">>
        /\ Committed(a, answer.stamp, reader.after)
      BY <1>12, StatementLists DEF ReadRunning, Executes, ReadsInv, Progress
  <2>2. CASE IsRunning(a) \/ answer.stamp # None
    <3>1. answer' = [answer EXCEPT !.state = state] /\ Goes(<< >>)
        BY <1>12, <2>2 DEF ReadRunning
    <3>2. state \in {"refreshing", "fresh", "stale"}
        BY <2>2 DEF Verdict, ByAge
    <3> HIDE DEF state
    <3>3. /\ reader'.kind = reader.kind /\ reader'.area = a /\ reader'.after = reader.after
          /\ reader'.todo = << >>
          /\ answer'.rows = answer.rows /\ answer'.stamp = answer.stamp
          /\ answer'.summary = answer.summary /\ answer'.state = state
        BY <1>2, <3>1 DEF Goes, ReaderState, AnswerState
    <3>4. Progress'
        BY <1>5, <2>1, <3>2, <3>3 DEF Progress
    <3>5. answer' \in AnswerState
        BY <1>2, <3>1, <3>2 DEF AnswerState
    <3>6. << >> \in Seq(StatementName)
        OBVIOUS
    <3> QED
        BY <1>1, <1>2, <2>1, <3>1, <3>3, <3>4, <3>5, <3>6, StatementKeeps
  <2>3. CASE ~(IsRunning(a) \/ answer.stamp # None)
    <3>1. /\ answer' = answer /\ Goes(Tail(reader.todo)) /\ Tail(reader.todo) \in Seq(StatementName)
        BY <1>6, <1>12, <2>3 DEF ReadRunning, Executes
    <3>2. /\ reader'.kind = reader.kind /\ reader'.area = a /\ reader'.after = reader.after
          /\ reader'.todo = Tail(reader.todo)
        BY <1>2, <3>1 DEF Goes, ReaderState
    <3>3. Progress'
        BY <1>5, <2>1, <2>3, <3>1, <3>2, StatementLists DEF Progress
    <3> QED
        BY <1>1, <1>2, <2>1, <3>1, <3>3, StatementKeeps
  <2> QED
      BY <2>2, <2>3
<1>13. CASE ReadOutcome
  <2> DEFINE last == LastOutcome(jobs[a])
             state == Verdict(FALSE, answer.stamp, last, reader.asked)
  <2>1. /\ reader.open
        /\ reader.kind = "freshness" /\ reader.todo = <<"outcome">>
        /\ answer.stamp = None /\ Committed(a, answer.stamp, reader.after)
      BY <1>13, StatementLists DEF ReadOutcome, Executes, ReadsInv, Progress
  <2>2. reader.after = 0
    <3>1. \A k \in DOMAIN captures[a] : captures[a][k] # None
        BY <1>2, AreaCaptures DEF None
    <3> QED
        BY <2>1, <3>1 DEF Committed
  <2>3. answer' = [answer EXCEPT !.state = state] /\ Goes(<< >>)
      BY <1>13 DEF ReadOutcome
  <2>4. state \in {"missing", "auth_required", "step_up_required", "refresh_failed"}
    <3>1. jobs[a] \in Seq(JobRow)
        BY <1>2 DEF GateInv, TypeOK
    <3>2. last \in {"none", "completed", "running", "auth_required", "step_up_required",
                    "refresh_failed"}
      <4>1. CASE jobs[a] = << >>
          BY <4>1 DEF LastOutcome
      <4>2. CASE jobs[a] # << >>
        <5>1. /\ Latest(jobs[a]) = Len(jobs[a])
              /\ Len(jobs[a]) \in DOMAIN jobs[a]
            BY <1>2, <3>1, <4>2, LatestIsLast DEF GateInv, LedgerOrdered
        <5>2. jobs[a][Latest(jobs[a])].status \in JobStatus
            BY <3>1, <5>1, RowFields
        <5> QED
            BY <4>2, <5>2 DEF LastOutcome, JobStatus
      <4> QED
          BY <4>1, <4>2
    <3> HIDE DEF last
    <3> QED
        BY <2>1, <3>2 DEF Verdict
  <2> HIDE DEF state
  <2>5. /\ reader'.kind = reader.kind /\ reader'.area = a /\ reader'.after = reader.after
        /\ reader'.todo = << >>
        /\ answer'.rows = answer.rows /\ answer'.stamp = answer.stamp
        /\ answer'.summary = answer.summary
      BY <1>2, <2>3 DEF Goes, ReaderState, AnswerState
  <2>6. Progress'
      BY <1>5, <2>1, <2>2, <2>5 DEF Progress
  <2>7. answer' \in AnswerState
      BY <1>2, <2>3, <2>4 DEF AnswerState
  <2>8. << >> \in Seq(StatementName)
      OBVIOUS
  <2> QED
      BY <1>1, <1>2, <2>1, <2>3, <2>5, <2>6, <2>7, <2>8, StatementKeeps
<1>14. ASSUME NEW b \in Area, NEW k \in Kinds(b), Ask(k, b)
       PROVE  ReadsInv'
    BY <1>1, <1>14, AskKeeps
<1>15. CASE Respond \/ ReadFails
    BY <1>1, <1>15, NoReadInv DEF Respond, ReadFails
<1> QED
    BY <1>7, <1>8, <1>9, <1>10, <1>11, <1>12, <1>13, <1>14, <1>15 DEF ReaderThread

-----------------------------------------------------------------------------
(* The theorems.                                                           *)

\* Beside a reader the gate goes on as it is.
LEMMA StepReadsInv ==
    GateInv /\ ReadsInv /\ [ReadsNext]_allVars => GateInv' /\ ReadsInv'
<1> SUFFICES ASSUME GateInv, ReadsInv, [ReadsNext]_allVars PROVE GateInv' /\ ReadsInv'
    OBVIOUS
<1>1. [Next]_vars
  <2>1. ReaderThread => UNCHANGED vars
      BY DEF ReaderThread, Ask, ReadRows, ReadStamp, ReadSummary, ReadHeader, ReadPositions,
             ReadRunning, ReadOutcome, Respond, ReadFails, Executes
  <2>2. GateStep \/ ProcessCrash => Next
      BY DEF GateStep, ProcessCrash, Next, Environment
  <2> QED
      BY <2>1, <2>2 DEF ReadsNext, allVars
<1>2. GateInv'
    BY <1>1, StepGateInv
<1>3. CASE ReaderThread
    BY <1>2, <1>3, ReaderKeepsReads
<1>4. CASE GateStep
    BY <1>1, <1>2, <1>4, WriterKeepsReads DEF GateStep
<1>5. CASE ProcessCrash
    BY <1>2, <1>5, NoReadInv DEF ProcessCrash
<1>6. CASE UNCHANGED allVars
    BY <1>1, <1>2, <1>6, WriterKeepsReads DEF allVars
<1> QED
    BY <1>2, <1>3, <1>4, <1>5, <1>6 DEF ReadsNext

\* Whatever is committed between its statements, a read finds nothing older than
\* what it found before and what it began with, and its answer is torn forward at
\* most: the timestamp is never older than the rows, the summary never older
\* than the timestamp (QueryHandler::handle without a transaction).
THEOREM ReadsInvariant == ReadsSpec => [](GateInv /\ ReadsInv)
<1>1. ReadsInit => GateInv /\ ReadsInv
    BY InitGateInv, NoReadInv DEF ReadsInit
<1> QED
    BY <1>1, StepReadsInv, PTL DEF ReadsSpec

\* The totals and the positions of a portfolio answer are of one snapshot, since
\* the positions are read by the id the header gave (latest_portfolio_snapshot).
THEOREM SnapshotsAreWhole == ReadsSpec => []SnapshotIsOneCapture
<1>1. ReadsInv => SnapshotIsOneCapture
    BY DEF ReadsInv, Progress, SnapshotIsOneCapture, Answered
<1> QED
    BY <1>1, ReadsInvariant, PTL

\* An area with data is never reported as missing or failed (freshness_for),
\* whatever became of the attempts since and whatever happens during the read.
THEOREM DataIsReported == ReadsSpec => []UsableDataIsReported
<1>1. ReadsInv => UsableDataIsReported
    BY DEF ReadsInv, Progress, UsableDataIsReported, Answered
<1> QED
    BY <1>1, ReadsInvariant, PTL

\* What is newest by captured_at is newest by commit, also with a clock that is
\* set back: the gate never lets an older timestamp be captured.
THEOREM ReadsAreCurrent == ReadsSpec => []ReadsSeeCommitted
<1>1. ASSUME GateInv, ReadsInv, Answered
      PROVE  Place(reader.area, answer.stamp) >= reader.after
  <2> DEFINE a == reader.area
             s == captures[a]
             at == {k \in DOMAIN s : s[k] = answer.stamp}
  <2>1. a \in Area /\ reader.after \in Nat /\ Committed(a, answer.stamp, reader.after)
      BY <1>1 DEF ReadsInv, Progress, Answered, ReadsTypeOK, ReaderState
  <2>2. s \in Seq(Nat) /\ Increasing(s) /\ DOMAIN s \subseteq Nat
      BY <1>1, <2>1, AreaCaptures
  <2>3. \A k, l \in at : k = l
      BY <2>2 DEF Increasing
  <2>4. CASE at = {}
      BY <2>1, <2>4 DEF Committed, Place
  <2>5. CASE at # {}
    <3>1. PICK k \in at : TRUE
        BY <2>5
    <3>2. k \in Nat /\ k >= reader.after
        BY <2>1, <2>2, <2>3, <3>1 DEF Committed
    <3>3. Place(a, answer.stamp) = CHOOSE m \in at : \A l \in at : l <= m
        BY <2>5 DEF Place
    <3>4. at = {k}
        BY <2>3, <3>1
    <3> HIDE DEF at
    <3>5. k \in at /\ \A l \in at : l <= k
        BY <3>2, <3>4
    <3>6. \A m \in at : m = k
        BY <3>4
    <3>7. Place(a, answer.stamp) = k
        BY <3>3, <3>5, <3>6
    <3> QED
        BY <3>2, <3>7
  <2> QED
      BY <2>4, <2>5
<1>2. GateInv /\ ReadsInv => ReadsSeeCommitted
    BY <1>1 DEF ReadsSeeCommitted
<1> QED
    BY <1>2, ReadsInvariant, PTL
=============================================================================
