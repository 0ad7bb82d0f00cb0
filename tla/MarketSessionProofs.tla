------------------------ MODULE MarketSessionProofs ------------------------
(***************************************************************************)
(* Proofs about MarketSession, for any budget, cooldowns and lifetimes and *)
(* any number of restarts: the controller and the worker agree on who      *)
(* waits for what and on the session that is held; and every login that    *)
(* the worker makes for a market read, at once or late, is one that the    *)
(* controller has charged to its budget and spaced by its cooldown, or     *)
(* forgot with a restart.                                                  *)
(***************************************************************************)
EXTENDS MarketSession, FiniteSetTheorems, SequenceTheorems, TLAPS

-----------------------------------------------------------------------------
(* The login bookkeeping.                                                  *)

\* Pruning leaves a sequence of times.
LEMMA PrunedFits ==
    ASSUME NEW attempts \in Seq(Nat), NEW now
    PROVE  Pruned(attempts, now) \in Seq(Nat)
<1> DEFINE old == {i \in DOMAIN attempts : \A j \in 1..i : now - attempts[j] >= BudgetWindow}
           n == Len(attempts)
<1>1. n \in Nat /\ DOMAIN attempts = 1..n
    BY LenProperties
<1>2. IsFiniteSet(1..n) /\ Cardinality(1..n) = n
  <2>1. IsFiniteSet(1..n) /\ Cardinality(1..n) = IF 1 > n THEN 0 ELSE n - 1 + 1
      BY <1>1, FS_Interval
  <2> QED
      BY <1>1, <2>1
<1>3. IsFiniteSet(old) /\ Cardinality(old) <= n
    BY <1>1, <1>2, FS_Subset
<1>4. Cardinality(old) \in Nat
    BY <1>3, FS_CardinalityType
<1>5. Cardinality(old) + 1 \in 1..(n + 1)
    BY <1>1, <1>3, <1>4
<1>6. Pruned(attempts, now) = SubSeq(attempts, Cardinality(old) + 1, n)
    BY DEF Pruned
<1> HIDE DEF old, n
<1>7. \A m \in 1..(n + 1) : SubSeq(attempts, m, n) \in Seq(Nat)
    BY <1>1, SubSeqProperties DEF n
<1> QED
    BY <1>5, <1>6, <1>7

\* The bookkeeping keeps its type.
LEMMA LoginStateFits ==
    ASSUME NEW s \in LiveLogin, NEW now \in Nat, NEW performed, NEW holds
    PROVE  /\ RefreshAdmitted(s) \in LiveLogin /\ RefreshAdmitted(s).inFlight
           /\ RefreshAdmitted(s).window = None
           /\ MarketAdmitted(s, now) \in LiveLogin /\ MarketAdmitted(s, now).inFlight
           /\ MarketFinished(s, performed, holds, now) \in LiveLogin
           /\ ~MarketFinished(s, performed, holds, now).inFlight
<1> USE DEF LiveLogin, Epoch, None
<1>1. RefreshAdmitted(s) \in LiveLogin /\ RefreshAdmitted(s).inFlight /\ RefreshAdmitted(s).window = None
    BY DEF RefreshAdmitted
<1>3. MarketAdmitted(s, now) \in LiveLogin /\ MarketAdmitted(s, now).inFlight
  <2>1. BudgetPruned(s, now) \in LiveLogin
      BY PrunedFits DEF BudgetPruned
  <2> QED
      BY <2>1 DEF MarketAdmitted
<1>4. /\ MarketFinished(s, performed, holds, now) \in LiveLogin
      /\ ~MarketFinished(s, performed, holds, now).inFlight
  <2>1. Append(s.attempts, now) \in Seq(Nat)
      BY AppendProperties
  <2>2. (IF performed THEN Append(s.attempts, now) ELSE s.attempts) \in Seq(Nat)
      BY <2>1
  <2>3. now + ReuseTtl \in Nat
      BY SessionConstants
  <2> QED
      BY <2>2, <2>3 DEF MarketFinished
<1> QED
    BY <1>1, <1>3, <1>4

\* The permit comes back without a window.
LEMMA ReleasedFits ==
    ASSUME NEW s \in LiveLogin
    PROVE  Released(s) \in LiveLogin /\ ~Released(s).inFlight /\ Released(s).window = None
    BY DEF LiveLogin, Epoch, None, Released

-----------------------------------------------------------------------------
(* Types.                                                                  *)

Login == [at : Nat, reuse : BOOLEAN]

\* Every finish of a market read keeps the types.
LEMMA FinishMarketFits ==
    ASSUME TypeOK, NEW outcome, NEW session, FinishMarket(outcome, session)
    PROVE  /\ login' \in LiveLogin /\ circuit' \in Circuit /\ ~login'.inFlight
           /\ market' \in [pc : {"idle", "call", "wait"}, at : Nat, reuse : BOOLEAN]
           /\ market'.pc = "idle" /\ market'.at = market.at
           /\ circuit'.failures > 0 => circuit'.newest = market.at
           /\ login'.window = (IF outcome \in {"ok", "not_found"} THEN market.at + ReuseTtl ELSE None)
<1>1. /\ login \in LiveLogin /\ circuit \in Circuit
      /\ market \in [pc : {"idle", "call", "wait"}, at : Nat, reuse : BOOLEAN] /\ market.at \in Nat
    BY DEF TypeOK
<1>2. login' \in LiveLogin /\ ~login'.inFlight
    BY <1>1, LoginStateFits DEF FinishMarket
<1>3. login'.window = (IF outcome \in {"ok", "not_found"} THEN market.at + ReuseTtl ELSE None)
    BY <1>1 DEF FinishMarket, PreservesSession, MarketFinished, LiveLogin
<1>4. circuit' \in Circuit /\ (circuit'.failures > 0 => circuit'.newest = market.at)
  <2>1. circuit' = OutcomeRecorded(circuit, market.at, UpstreamOutcome(outcome))
      BY DEF FinishMarket
  <2> QED
      BY <1>1, <2>1 DEF Circuit, OutcomeRecorded, ClosedCircuit, Epoch, None
<1> QED
    BY <1>1, <1>2, <1>3, <1>4 DEF FinishMarket

\* Requests keep their type when their caller goes.
LEMMA AbandonedFits ==
    ASSUME TypeOK, Abandoned
    PROVE  /\ queue' \in Seq(Request) /\ Len(queue') = Len(queue) /\ DOMAIN queue' = DOMAIN queue
           /\ \A i \in DOMAIN queue : ~queue'[i].live
           /\ worker' \in [pc : WorkerPCs, req : Request] /\ worker'.pc = worker.pc
           /\ ~worker'.req.live /\ worker'.req.kind = worker.req.kind /\ worker'.req.at = worker.req.at
<1>1. \A req \in Request : /\ Orphan(req) \in Request /\ ~Orphan(req).live
                           /\ Orphan(req).kind = req.kind /\ Orphan(req).at = req.at
    BY DEF Request, Orphan
<1>2. /\ queue \in Seq(Request) /\ Len(queue) \in Nat /\ DOMAIN queue = 1..Len(queue)
      /\ \A i \in DOMAIN queue : queue[i] \in Request
      /\ worker \in [pc : WorkerPCs, req : Request] /\ worker.req \in Request
    BY LenProperties, ElementOfSeq DEF TypeOK
<1>3. queue' = [i \in 1..Len(queue) |-> Orphan(queue[i])]
    BY <1>2 DEF Abandoned
<1>4. queue' \in Seq(Request) /\ Len(queue') = Len(queue)
    BY <1>1, <1>2, <1>3
<1>5. worker' = [worker EXCEPT !.req = Orphan(worker.req)]
    BY DEF Abandoned
<1> QED
    BY <1>1, <1>2, <1>3, <1>4, <1>5

\* A sequence grows at its end and shrinks at its front.
LEMMA QueueFits ==
    ASSUME NEW q \in Seq(Request), NEW req \in Request
    PROVE  /\ Append(q, req) \in Seq(Request) /\ Len(Append(q, req)) = Len(q) + 1
           /\ DOMAIN q = 1..Len(q) /\ DOMAIN Append(q, req) = 1..(Len(q) + 1) /\ Len(q) \in Nat
           /\ \A i \in 1..Len(q) : Append(q, req)[i] = q[i] /\ q[i] \in Request
           /\ Append(q, req)[Len(q) + 1] = req
           /\ q # << >> =>
                /\ Head(q) = q[1] /\ Len(q) >= 1 /\ Tail(q) \in Seq(Request) /\ Len(Tail(q)) = Len(q) - 1
                /\ DOMAIN Tail(q) = 1..(Len(q) - 1)
                /\ \A i \in 1..(Len(q) - 1) : Tail(q)[i] = q[i + 1]
           /\ Len(q) = 0 => q = << >>
<1>1. Len(q) \in Nat /\ DOMAIN q = 1..Len(q) /\ \A i \in 1..Len(q) : q[i] \in Request
    BY LenProperties, ElementOfSeq
<1>2. /\ Append(q, req) \in Seq(Request) /\ Len(Append(q, req)) = Len(q) + 1
      /\ \A i \in 1..Len(q) : Append(q, req)[i] = q[i]
      /\ Append(q, req)[Len(q) + 1] = req
    BY AppendProperties
<1>3. DOMAIN Append(q, req) = 1..(Len(q) + 1)
    BY <1>2, LenProperties
<1>4. ASSUME q # << >>
      PROVE  /\ Head(q) = q[1] /\ Len(q) >= 1 /\ Tail(q) \in Seq(Request) /\ Len(Tail(q)) = Len(q) - 1
             /\ DOMAIN Tail(q) = 1..(Len(q) - 1)
             /\ \A i \in 1..(Len(q) - 1) : Tail(q)[i] = q[i + 1]
  <2>1. Len(q) \in Nat \ {0}
      BY <1>4, EmptySeq
  <2>2. Tail(q) \in Seq(Request) /\ Len(Tail(q)) = Len(q) - 1 /\ \A i \in 1..(Len(q) - 1) : Tail(q)[i] = q[i + 1]
      BY <1>4, HeadTailProperties
  <2>3. DOMAIN Tail(q) = 1..(Len(q) - 1)
      BY <2>2, LenProperties
  <2> QED
      BY <1>4, <2>1, <2>2, <2>3
<1>5. Len(q) = 0 => q = << >>
    BY EmptySeq
<1> QED
    BY <1>1, <1>2, <1>3, <1>4, <1>5

\* The worker's answer keeps the types; only a caller that is there gets a reply.
LEMMA AnswerFits ==
    ASSUME TypeOK, NEW outcome \in Outcome, NEW session \in {"absent", "login", "no_login"},
           Answer(outcome, session)
    PROVE  /\ worker' \in [pc : WorkerPCs, req : Request] /\ worker'.pc = "idle" /\ ~worker'.req.live
           /\ reply' = NoReply \/ reply' \in [outcome : Outcome, session : {"absent", "login", "no_login"}]
           /\ worker.req.live => reply' # NoReply /\ reply'.outcome = outcome
           /\ ~worker.req.live => reply' = reply
<1>1. worker \in [pc : WorkerPCs, req : Request] /\ worker.req \in Request
    BY DEF TypeOK
<1>2. Orphan(worker.req) \in Request /\ ~Orphan(worker.req).live
    BY <1>1 DEF Orphan, Request
<1>3. worker' = [worker EXCEPT !.pc = "idle", !.req = Orphan(worker.req)]
    BY DEF Answer
<1>4. worker' \in [pc : WorkerPCs, req : Request] /\ worker'.pc = "idle" /\ ~worker'.req.live
    BY <1>1, <1>2, <1>3 DEF WorkerPCs
<1>5. /\ Reply(outcome, session) \in [outcome : Outcome, session : {"absent", "login", "no_login"}]
      /\ Reply(outcome, session).outcome = outcome /\ Reply(outcome, session) # NoReply
    BY DEF Reply, NoReply, Outcome
<1>6. reply' = IF worker.req.live THEN Reply(outcome, session) ELSE reply
    BY DEF Answer
<1> QED
    BY <1>4, <1>5, <1>6 DEF TypeOK

\* The types, taken apart.
LEMMA Types ==
    ASSUME TypeOK
    PROVE  /\ clock \in Nat /\ login \in LiveLogin /\ circuit \in Circuit
           /\ market \in [pc : {"idle", "call", "wait"}, at : Nat, reuse : BOOLEAN] /\ market.at \in Nat
           /\ refresh \in [pc : {"idle", "call", "wait"}, calls : 0..2]
           /\ refresh.pc = "call" => refresh.calls > 0
           /\ queue \in Seq(Request) /\ worker \in [pc : WorkerPCs, req : Request]
           /\ worker.req \in Request /\ worker.req.at \in Nat /\ worker.req.live \in BOOLEAN
           /\ held \in [until : Epoch, current : BOOLEAN, lost : BOOLEAN]
           /\ held.until \in Epoch /\ worker.req.at + ReuseTtl \in Nat
    BY SessionConstants DEF TypeOK, Request

\* Sessions are of their type.
LEMMA SessionsFit ==
    ASSUME TypeOK
    PROVE  /\ NoSession \in [until : Epoch, current : BOOLEAN, lost : BOOLEAN]
           /\ NewSession \in [until : Epoch, current : BOOLEAN, lost : BOOLEAN]
           /\ ReadSession \in [until : Epoch, current : BOOLEAN, lost : BOOLEAN]
           /\ Evicted(held) = NoSession /\ Rotated(Evicted(held)) = NoSession
           /\ NoSession.until = None /\ ~NoSession.lost
           /\ NewSession.until = worker.req.at + ReuseTtl /\ NewSession.current /\ ~NewSession.lost
           /\ ReadSession.until = worker.req.at + ReuseTtl /\ ~ReadSession.lost
           /\ HeldSessionIsNewest => ReadSession.current
           /\ worker.req.at + ReuseTtl # None
<1>1. worker.req.at + ReuseTtl \in Epoch /\ held.current \in BOOLEAN /\ worker.req.at + ReuseTtl # None
    BY Types DEF Epoch, None
<1>2. None \in Epoch
    BY DEF Epoch
<1> QED
    BY <1>1, <1>2 DEF NoSession, NewSession, ReadSession, Evicted, Rotated, HeldSessionIsNewest
\* The first state is one of the types.
LEMMA InitTypes == Init => TypeOK
<1> SUFFICES ASSUME Init PROVE TypeOK
    OBVIOUS
<1> USE DEF Epoch, None
<1>1. /\ login \in LiveLogin /\ circuit \in Circuit /\ clock \in 0..MaxTime
      /\ market \in [pc : {"idle", "call", "wait"}, at : Nat, reuse : BOOLEAN]
      /\ refresh \in [pc : {"idle", "call", "wait"}, calls : 0..2] /\ refresh.pc = "idle"
      /\ queue \in Seq(Request) /\ log \in Seq(Login) /\ reply = NoReply
    BY SessionConstants DEF Init, FreshState, LiveLogin, ClosedCircuit, Circuit
<1>2. /\ worker \in [pc : WorkerPCs, req : Request]
      /\ held \in [until : Epoch, current : BOOLEAN, lost : BOOLEAN]
    BY DEF Init, NoRequest, Request, WorkerPCs, NoSession
<1>3. restarts \in 0..ControllerRestarts
    BY SessionConstants DEF Init
<1> QED
    BY <1>1, <1>2, <1>3 DEF TypeOK, Login

\* Every step of the market thread keeps the types.
LEMMA MarketTypes ==
    ASSUME TypeOK, MarketThread
    PROVE  TypeOK'
<1> USE Types
<1>1. CASE AdmitMarket
  <2>1. login' \in LiveLogin
      BY <1>1, LoginStateFits DEF AdmitMarket
  <2>2. market' \in [pc : {"idle", "call", "wait"}, at : Nat, reuse : BOOLEAN]
    <3>1. ReuseEligible(login, clock) \in BOOLEAN
        BY DEF ReuseEligible
    <3> QED
        BY <1>1, <3>1 DEF AdmitMarket
  <2> QED
      BY <1>1, <2>1, <2>2 DEF AdmitMarket, TypeOK
<1>2. CASE SendMarket
  <2> DEFINE req == [kind |-> "market", at |-> market.at, reuse |-> market.reuse, live |-> TRUE]
  <2>1. req \in Request
      BY DEF Request
  <2>2. Append(queue, req) \in Seq(Request)
      BY <2>1, QueueFits
  <2>3. market' \in [pc : {"idle", "call", "wait"}, at : Nat, reuse : BOOLEAN]
      BY <1>2 DEF SendMarket
  <2> QED
      BY <1>2, <2>2, <2>3 DEF SendMarket, TypeOK
<1>3. CASE MarketUnsent
    BY <1>3, FinishMarketFits DEF MarketUnsent, TypeOK
<1>4. CASE MarketReceives
    BY <1>4, FinishMarketFits DEF MarketReceives, TypeOK
<1>5. CASE MarketTimesOut
    BY <1>5, FinishMarketFits, AbandonedFits DEF MarketTimesOut, TypeOK
<1> QED
    BY <1>1, <1>2, <1>3, <1>4, <1>5 DEF MarketThread

\* Every step of the refresh thread keeps the types.
LEMMA RefreshTypes ==
    ASSUME TypeOK, RefreshThread
    PROVE  TypeOK'
<1> USE Types
<1>1. CASE AdmitRefresh
  <2>1. login' \in LiveLogin
      BY <1>1, LoginStateFits DEF AdmitRefresh
  <2> QED
      BY <1>1, <2>1 DEF AdmitRefresh, TypeOK
<1>2. CASE SendRefresh
  <2> DEFINE req == [NoRequest EXCEPT !.live = TRUE]
  <2>1. req \in Request
      BY DEF Request, NoRequest
  <2>2. Append(queue, req) \in Seq(Request)
      BY <2>1, QueueFits
  <2> QED
      BY <1>2, <2>2 DEF SendRefresh, TypeOK
<1>3. ASSUME FinishRefresh
      PROVE  /\ login' \in LiveLogin /\ ~login'.inFlight /\ login'.window = None
             /\ refresh' \in [pc : {"idle", "call", "wait"}, calls : 0..2] /\ refresh'.pc = "idle"
    BY <1>3, ReleasedFits DEF FinishRefresh
<1>4. CASE RefreshReceives
  <2>1. /\ refresh' \in [pc : {"idle", "call", "wait"}, calls : 0..2] /\ login' \in LiveLogin
        /\ refresh'.pc = "call" => refresh'.calls > 0
      BY <1>3, <1>4 DEF RefreshReceives
  <2> QED
      BY <1>4, <2>1 DEF RefreshReceives, TypeOK
<1>5. CASE RefreshTimesOut
    BY <1>3, <1>5, AbandonedFits DEF RefreshTimesOut, TypeOK
<1>6. CASE RefreshUnsent
    BY <1>3, <1>6 DEF RefreshUnsent, TypeOK
<1> QED
    BY <1>1, <1>2, <1>4, <1>5, <1>6 DEF RefreshThread

\* Every step of the worker keeps the types.
LEMMA WorkerTypes ==
    ASSUME TypeOK, WorkerThread
    PROVE  TypeOK'
<1> USE Types
<1>1. CASE TakeRequest
  <2>1. Head(queue) \in Request /\ Tail(queue) \in Seq(Request)
      BY <1>1, QueueFits, HeadTailProperties DEF TakeRequest
  <2>2. worker' \in [pc : WorkerPCs, req : Request]
      BY <1>1, <2>1 DEF TakeRequest, WorkerPCs
  <2>3. held' \in [until : Epoch, current : BOOLEAN, lost : BOOLEAN]
      BY <1>1, SessionsFit DEF TakeRequest
  <2> QED
      BY <1>1, <2>1, <2>2, <2>3 DEF TakeRequest, TypeOK
<1>2. ASSUME LogLogin PROVE log' \in Seq(Login)
  <2>1. [at |-> worker.req.at, reuse |-> worker.req.reuse] \in Login /\ log \in Seq(Login)
      BY DEF Request, Login, TypeOK
  <2> QED
      BY <1>2, <2>1, AppendProperties DEF LogLogin
<1>3. CASE LoginSucceeds
  <2>1. worker' \in [pc : WorkerPCs, req : Request]
      BY <1>3 DEF LoginSucceeds, WorkerPCs
  <2> QED
      BY <1>2, <1>3, <2>1, SessionsFit DEF LoginSucceeds, TypeOK, Login
<1>4. CASE LoginFails
  <2>1. PICK outcome \in LoginFailures : Answer(outcome, "absent")
      BY <1>4 DEF LoginFails
  <2>2. outcome \in Outcome
      BY DEF LoginFailures, Outcome
  <2> QED
      BY <1>2, <1>4, <2>1, <2>2, SessionsFit, AnswerFits DEF LoginFails, TypeOK, Login
<1>5. SessionStatus \in {"absent", "login", "no_login"} /\ {"ok", "not_found", "auth", "upstream", "other"} \subseteq Outcome
    BY DEF SessionStatus, Outcome
<1>6. CASE ReadSucceeds
    BY <1>5, <1>6, SessionsFit, AnswerFits DEF ReadSucceeds, TypeOK
<1>7. CASE ReadFindsNothing
    BY <1>5, <1>7, SessionsFit, AnswerFits DEF ReadFindsNothing, TypeOK
<1>8. CASE ReadFails
    BY <1>5, <1>8, AnswerFits DEF ReadFails, TypeOK
<1>9. CASE ReadUnauthorized
  <2>1. /\ worker' \in [pc : WorkerPCs, req : Request]
        /\ reply' = NoReply \/ reply' \in [outcome : Outcome, session : {"absent", "login", "no_login"}]
    <3>1. CASE worker.pc = "read_reused"
        BY <1>9, <3>1 DEF ReadUnauthorized, WorkerPCs, TypeOK
    <3>2. CASE worker.pc = "read_fresh"
        BY <1>5, <1>9, <3>2, AnswerFits DEF ReadUnauthorized
    <3>3. CASE worker.pc = "reread"
        BY <1>5, <1>9, <3>3, AnswerFits DEF ReadUnauthorized
    <3> QED
        BY <1>9, <3>1, <3>2, <3>3 DEF ReadUnauthorized, Reading
  <2> QED
      BY <1>9, <2>1, SessionsFit DEF ReadUnauthorized, TypeOK
<1>10. CASE RefreshLogin
  <2>1. worker' \in [pc : WorkerPCs, req : Request]
      BY <1>10 DEF RefreshLogin, WorkerPCs
  <2> QED
      BY <1>10, <2>1, SessionsFit DEF RefreshLogin, TypeOK
<1>11. CASE RefreshFetched
    BY <1>5, <1>11, AnswerFits DEF RefreshFetched, TypeOK
<1> QED
    BY <1>1, <1>3, <1>4, <1>6, <1>7, <1>8, <1>9, <1>10, <1>11 DEF WorkerThread

\* So do the reaper, the clock and the restarts.
LEMMA OtherTypes ==
    ASSUME TypeOK, Reap \/ Tick \/ WorkerRestart \/ ControllerRestart
    PROVE  TypeOK'
<1> USE Types
<1>1. CASE Reap
    BY <1>1, SessionsFit DEF Reap, TypeOK
<1>2. CASE Tick
    BY <1>2, SessionConstants DEF Tick, TypeOK
<1>3. CASE WorkerRestart
  <2>1. worker' \in [pc : WorkerPCs, req : Request] /\ queue' \in Seq(Request)
      BY <1>3 DEF WorkerRestart, NoRequest, Request, WorkerPCs
  <2>2. held' \in [until : Epoch, current : BOOLEAN, lost : BOOLEAN]
      BY <1>3, SessionsFit DEF WorkerRestart
  <2>3. Reply("internal", "absent") \in [outcome : Outcome, session : {"absent", "login", "no_login"}]
      BY DEF Reply, Outcome
  <2> QED
      BY <1>3, <2>1, <2>2, <2>3 DEF WorkerRestart, TypeOK
<1>4. CASE ControllerRestart
  <2>1. login' \in LiveLogin /\ circuit' \in Circuit
      BY <1>4 DEF ControllerRestart, FreshState, LiveLogin, Epoch, ClosedCircuit, Circuit
  <2>2. /\ market' \in [pc : {"idle", "call", "wait"}, at : Nat, reuse : BOOLEAN]
        /\ refresh' \in [pc : {"idle", "call", "wait"}, calls : 0..2] /\ refresh'.pc = "idle"
      BY <1>4 DEF ControllerRestart
  <2>3. restarts' \in 0..ControllerRestarts /\ log' = log /\ clock' = clock /\ held' = held
      BY <1>4, SessionConstants, SMTT(30) DEF ControllerRestart, TypeOK
  <2>4. queue' \in Seq(Request) /\ worker' \in [pc : WorkerPCs, req : Request]
      BY <1>4, AbandonedFits DEF ControllerRestart
  <2>5. reply' = NoReply
      BY <1>4 DEF ControllerRestart
  <2>6. refresh'.pc # "call"
      BY <2>2
  <2>7. TypeOK => clock \in 0..MaxTime /\ log \in Seq([at : Nat, reuse : BOOLEAN])
                  /\ held \in [until : Epoch, current : BOOLEAN, lost : BOOLEAN]
      BY DEF TypeOK
  <2> QED
      BY <2>1, <2>2, <2>3, <2>4, <2>5, <2>6, <2>7 DEF TypeOK
<1> QED
    BY <1>1, <1>2, <1>3, <1>4

\* Every step keeps the types.
LEMMA TypesKept ==
    ASSUME TypeOK, [Next]_vars
    PROVE  TypeOK'
<1>1. CASE UNCHANGED vars
    BY <1>1 DEF vars, TypeOK
<1> QED
    BY <1>1, MarketTypes, RefreshTypes, WorkerTypes, OtherTypes DEF Next

-----------------------------------------------------------------------------
(* Who has the permit, and who waits for what.                             *)

PermitHeld ==
    /\ login.inFlight <=> (market.pc # "idle" \/ refresh.pc # "idle")
    /\ market.pc = "idle" \/ refresh.pc = "idle"

\* The permit goes with the one operation.
LEMMA PermitKept ==
    ASSUME TypeOK, PermitHeld, [Next]_vars
    PROVE  PermitHeld'
<1> USE Types DEF PermitHeld
<1>1. CASE AdmitMarket
    BY <1>1, LoginStateFits DEF AdmitMarket, MarketAdmissible
<1>2. CASE SendMarket
    BY <1>2 DEF SendMarket
<1>3. CASE MarketUnsent \/ MarketReceives \/ MarketTimesOut
    BY <1>3, FinishMarketFits DEF MarketUnsent, MarketReceives, MarketTimesOut
<1>4. CASE AdmitRefresh
    BY <1>4, LoginStateFits DEF AdmitRefresh
<1>5. CASE SendRefresh
    BY <1>5 DEF SendRefresh
<1>6. CASE FinishRefresh /\ UNCHANGED market /\ refresh.pc # "idle"
    BY <1>6, ReleasedFits DEF FinishRefresh
<1>7. CASE RefreshReceives
    BY <1>6, <1>7 DEF RefreshReceives
<1>8. CASE RefreshUnsent \/ RefreshTimesOut
    BY <1>6, <1>8 DEF RefreshUnsent, RefreshTimesOut
<1>9. CASE WorkerThread \/ Reap \/ Tick \/ WorkerRestart \/ UNCHANGED vars
    BY <1>9
    DEF WorkerThread, TakeRequest, LoginSucceeds, LoginFails, ReadSucceeds, ReadFindsNothing,
        ReadFails, ReadUnauthorized, RefreshLogin, RefreshFetched, Reap, Tick, WorkerRestart, vars
<1>10. CASE ControllerRestart
    BY <1>10 DEF ControllerRestart, FreshState
<1> QED
    BY <1>1, <1>2, <1>3, <1>4, <1>5, <1>7, <1>8, <1>9, <1>10 DEF Next, MarketThread, RefreshThread

\* With the calls in order there is at most one that is live.
LEMMA OneLive ==
    ASSUME TypeOK, PermitHeld, CallsInOrder
    PROVE  OneLiveOperation
<1>1. queue = << >> => DOMAIN queue = {}
    OBVIOUS
<1> QED
    BY <1>1 DEF PermitHeld, CallsInOrder, OneLiveOperation, Waiting

\* A call is sent when nothing else is waited for, behind all orphans.
LEMMA SendKeepsOrder ==
    ASSUME TypeOK, CallsInOrder, ~Waiting, NEW req \in Request,
           queue' = Append(queue, req), UNCHANGED <<worker, reply>>,
           Waiting', IsCall(req)'
    PROVE  CallsInOrder'
<1> USE Types
<1>1. reply = NoReply /\ ~InWorker /\ \A i \in DOMAIN queue : ~queue[i].live
    BY DEF CallsInOrder
<1>2. reply' = NoReply /\ ~InWorker'
    BY <1>1 DEF InWorker
<1>3. ASSUME NEW i \in DOMAIN queue', queue'[i].live
      PROVE  i = Len(queue') /\ IsCall(queue[i])'
  <2>1. DOMAIN queue = 1..Len(queue) /\ DOMAIN queue' = 1..(Len(queue) + 1) /\ Len(queue) \in Nat
      BY QueueFits
  <2>2. \A j \in 1..Len(queue) : queue'[j] = queue[j]
      BY QueueFits
  <2>3. queue'[Len(queue) + 1] = req /\ Len(queue') = Len(queue) + 1
      BY QueueFits
  <2>4. i = Len(queue) + 1
      BY <1>1, <1>3, <2>1, <2>2
  <2>5. queue'[i] = req
      BY <2>3, <2>4
  <2> QED
      BY <2>3, <2>4, <2>5 DEF IsCall
<1>4. worker'.pc # "idle" =>
        (worker'.req.kind = "refresh" <=> worker'.pc \in {"refresh_login", "refresh_fetch"})
    BY DEF CallsInOrder
<1> QED
    BY <1>2, <1>3, <1>4 DEF CallsInOrder

\* Who is no longer waited for is an orphan.
LEMMA EndKeepsOrder ==
    ASSUME TypeOK, CallsInOrder, reply' = NoReply,
           \/ Abandoned
           \/ UNCHANGED <<queue, worker>> /\ (reply # NoReply \/ ~Waiting)
    PROVE  CallsInOrder'
<1> USE Types
<1>1. CASE Abandoned
  <2>1. ~InWorker'
      BY <1>1, AbandonedFits DEF InWorker
  <2>2. \A i \in DOMAIN queue' : ~queue'[i].live
      BY <1>1, AbandonedFits
  <2>3. worker'.pc # "idle" =>
          (worker'.req.kind = "refresh" <=> worker'.pc \in {"refresh_login", "refresh_fetch"})
      BY <1>1, AbandonedFits DEF CallsInOrder
  <2> QED
      BY <2>1, <2>2, <2>3 DEF CallsInOrder
<1>2. CASE UNCHANGED <<queue, worker>> /\ (reply # NoReply \/ ~Waiting)
  <2>1. ~InWorker /\ \A i \in DOMAIN queue : ~queue[i].live
      BY <1>2 DEF CallsInOrder
  <2> QED
      BY <1>2, <2>1 DEF CallsInOrder, InWorker
<1> QED
    BY <1>1, <1>2

\* The answer to the call ends it; the answer to an orphan goes nowhere.
LEMMA AnswerKeepsOrder ==
    ASSUME TypeOK, CallsInOrder, worker.pc # "idle",
           NEW outcome \in Outcome, NEW session \in {"absent", "login", "no_login"},
           Answer(outcome, session), UNCHANGED <<market, refresh, queue>>
    PROVE  CallsInOrder'
<1> USE Types
<1>1. worker'.pc = "idle" /\ ~InWorker'
    BY AnswerFits DEF InWorker
<1>2. CASE worker.req.live
  <2>1. InWorker /\ queue = << >> /\ Waiting
      BY <1>2 DEF CallsInOrder, InWorker
  <2>2. DOMAIN queue' = {}
      BY <2>1
  <2> QED
      BY <1>1, <2>1, <2>2 DEF CallsInOrder, Waiting
<1>3. CASE ~worker.req.live
  <2>1. reply' = reply /\ ~InWorker /\ reply = NoReply
      BY <1>3, AnswerFits DEF InWorker, CallsInOrder
  <2>2. \A i \in DOMAIN queue : queue[i].live => i = Len(queue) /\ Waiting /\ IsCall(queue[i])
      BY DEF CallsInOrder
  <2>3. \A i \in DOMAIN queue' : queue'[i].live => i = Len(queue') /\ Waiting' /\ IsCall(queue[i])'
      BY <2>2 DEF Waiting, IsCall
  <2> QED
      BY <1>1, <2>1, <2>3 DEF CallsInOrder
<1> QED
    BY <1>2, <1>3

\* The worker goes on with the same request.
LEMMA GoesOnKeepsOrder ==
    ASSUME TypeOK, CallsInOrder, worker.pc # "idle", NEW pc, pc # "idle",
           pc \in {"refresh_login", "refresh_fetch"} <=> worker.pc \in {"refresh_login", "refresh_fetch"},
           worker' = [worker EXCEPT !.pc = pc], UNCHANGED <<market, refresh, queue, reply>>
    PROVE  CallsInOrder'
<1> USE Types
<1>1. worker'.pc = pc /\ worker'.req = worker.req
    OBVIOUS
<1>2. (InWorker' <=> InWorker) /\ (Waiting' <=> Waiting)
    BY <1>1 DEF InWorker, Waiting
<1>3. \A req : IsCall(req)' <=> IsCall(req)
    BY DEF IsCall
<1> QED
    BY <1>1, <1>2, <1>3 DEF CallsInOrder, IsCall

\* The worker takes the request that is longest in the socket: what is behind it is
\* not behind the call.
LEMMA TakeKeepsOrder ==
    ASSUME TypeOK, CallsInOrder, TakeRequest
    PROVE  CallsInOrder'
<1> USE Types
<1>1. /\ worker.pc = "idle" /\ queue # << >> /\ queue' = Tail(queue)
      /\ UNCHANGED <<market, refresh, reply>>
    BY DEF TakeRequest
<1>2. /\ Len(queue) \in Nat /\ Len(queue) >= 1 /\ DOMAIN queue = 1..Len(queue)
      /\ Head(queue) = queue[1] /\ queue[1] \in Request
      /\ Len(queue') = Len(queue) - 1 /\ DOMAIN queue' = 1..(Len(queue) - 1)
      /\ \A i \in 1..(Len(queue) - 1) : queue'[i] = queue[i + 1]
    BY <1>1, QueueFits
<1>3. Len(queue) = 1 => queue' = << >>
  <2>1. queue' \in Seq(Request)
      BY <1>1, QueueFits
  <2> QED
      BY <1>2, <2>1, QueueFits
<1>4. /\ worker'.req = queue[1] /\ worker'.pc # "idle"
      /\ worker'.req.kind = "refresh" <=> worker'.pc \in {"refresh_login", "refresh_fetch"}
    BY <1>2 DEF TakeRequest
<1>5. /\ InWorker' <=> queue[1].live
      /\ Waiting' <=> Waiting
    BY <1>1, <1>4 DEF InWorker, Waiting
<1>6. \A i \in 1..Len(queue) : queue[i].live =>
        i = Len(queue) /\ Waiting /\ IsCall(queue[i]) /\ reply = NoReply
    BY <1>2 DEF CallsInOrder
<1>7. queue[1].live => 1 = Len(queue) /\ Waiting /\ IsCall(queue[1]) /\ reply = NoReply
  <2>1. 1 \in 1..Len(queue)
      BY <1>2
  <2> QED
      BY <1>6, <2>1
<1>8. InWorker' => queue' = << >> /\ Waiting' /\ IsCall(worker.req)' /\ reply' = NoReply
  <2> SUFFICES ASSUME queue[1].live
               PROVE  queue' = << >> /\ Waiting' /\ IsCall(worker.req)' /\ reply' = NoReply
      BY <1>5
  <2>1. Len(queue) = 1 /\ Waiting /\ IsCall(queue[1]) /\ reply = NoReply
      BY <1>7
  <2>2. IsCall(worker.req)'
      BY <1>1, <1>4, <2>1 DEF IsCall
  <2> QED
      BY <1>1, <1>3, <1>5, <2>1, <2>2
<1>9. ASSUME NEW i \in DOMAIN queue', queue'[i].live
      PROVE  i = Len(queue') /\ Waiting' /\ IsCall(queue[i])' /\ reply' = NoReply /\ ~InWorker'
  <2>1. i \in 1..(Len(queue) - 1) /\ queue'[i] = queue[i + 1] /\ i + 1 \in 1..Len(queue)
      BY <1>2
  <2>2. i + 1 = Len(queue) /\ Waiting /\ IsCall(queue[i + 1]) /\ reply = NoReply
      BY <1>6, <1>9, <2>1
  <2>3. ~queue[1].live
      BY <1>2, <1>7, <2>1, <2>2
  <2>4. IsCall(queue[i])'
      BY <1>1, <2>1, <2>2 DEF IsCall
  <2> QED
      BY <1>1, <1>2, <1>5, <2>1, <2>2, <2>3, <2>4
<1>10. reply' = NoReply
    BY <1>1 DEF CallsInOrder
<1> QED
    BY <1>4, <1>8, <1>9, <1>10 DEF CallsInOrder

\* Every step keeps the calls in order.
LEMMA OrderKept ==
    ASSUME TypeOK, PermitHeld, CallsInOrder, [Next]_vars
    PROVE  CallsInOrder'
<1> USE Types
<1>1. CASE AdmitMarket
  <2>1. ~Waiting /\ UNCHANGED <<queue, worker, reply>>
      BY <1>1 DEF AdmitMarket, MarketAdmissible, PermitHeld, Waiting
  <2>2. reply' = NoReply
      BY <2>1 DEF CallsInOrder
  <2> QED
      BY <2>1, <2>2, EndKeepsOrder
<1>2. CASE SendMarket
  <2> PICK req : req = [kind |-> "market", at |-> market.at, reuse |-> market.reuse, live |-> TRUE]
      OBVIOUS
  <2>1. /\ req \in Request /\ req.kind = "market" /\ req.at = market.at
        /\ queue' = Append(queue, req) /\ UNCHANGED <<worker, reply>>
      BY <1>2 DEF SendMarket, Request
  <2>2. market'.pc = "wait" /\ market'.at = market.at /\ ~Waiting
      BY <1>2 DEF SendMarket, PermitHeld, Waiting
  <2>3. Waiting' /\ IsCall(req)'
      BY <2>1, <2>2 DEF Waiting, IsCall
  <2> QED
      BY <2>1, <2>2, <2>3, SendKeepsOrder
<1>3. CASE MarketUnsent \/ RefreshUnsent
  <2>1. ~Waiting /\ UNCHANGED <<queue, worker, reply>>
      BY <1>3 DEF MarketUnsent, RefreshUnsent, PermitHeld, Waiting
  <2>2. reply' = NoReply
      BY <2>1 DEF CallsInOrder
  <2> QED
      BY <2>1, <2>2, EndKeepsOrder
<1>4. CASE MarketReceives \/ RefreshReceives
  <2>1. reply # NoReply /\ reply' = NoReply /\ UNCHANGED <<queue, worker>>
      BY <1>4 DEF MarketReceives, RefreshReceives
  <2> QED
      BY <2>1, EndKeepsOrder
<1>5. CASE MarketTimesOut \/ RefreshTimesOut \/ ControllerRestart
  <2>1. Abandoned /\ reply' = NoReply
      BY <1>5 DEF MarketTimesOut, RefreshTimesOut, ControllerRestart
  <2> QED
      BY <2>1, EndKeepsOrder
<1>6. CASE AdmitRefresh
  <2>1. ~Waiting /\ UNCHANGED <<queue, worker, reply>>
      BY <1>6 DEF AdmitRefresh, PermitHeld, Waiting
  <2>2. reply' = NoReply
      BY <2>1 DEF CallsInOrder
  <2> QED
      BY <2>1, <2>2, EndKeepsOrder
<1>7. CASE SendRefresh
  <2> PICK req : req = [NoRequest EXCEPT !.live = TRUE]
      OBVIOUS
  <2>1. /\ req \in Request /\ req.kind = "refresh"
        /\ queue' = Append(queue, req) /\ UNCHANGED <<worker, reply>>
      BY <1>7 DEF SendRefresh, Request, NoRequest
  <2>2. market'.pc = "idle" /\ refresh'.pc = "wait" /\ ~Waiting
      BY <1>7 DEF SendRefresh, PermitHeld, Waiting
  <2>3. Waiting' /\ IsCall(req)'
      BY <2>1, <2>2 DEF Waiting, IsCall
  <2> QED
      BY <2>1, <2>2, <2>3, SendKeepsOrder
<1>8. CASE TakeRequest
    BY <1>8, TakeKeepsOrder
<1>9. CASE LoginSucceeds
  <2>1. PICK pc \in {"read_fresh", "reread"} :
          worker' = [worker EXCEPT !.pc = pc] /\ UNCHANGED <<market, refresh, queue, reply>>
      BY <1>9 DEF LoginSucceeds
  <2> QED
      BY <1>9, <2>1, GoesOnKeepsOrder DEF LoginSucceeds
<1>10. CASE RefreshLogin
    BY <1>10, GoesOnKeepsOrder DEF RefreshLogin
<1>11. CASE \E outcome \in Outcome, session \in {"absent", "login", "no_login"} :
              worker.pc # "idle" /\ Answer(outcome, session) /\ UNCHANGED <<market, refresh, queue>>
    BY <1>11, AnswerKeepsOrder
<1>12. SessionStatus \in {"absent", "login", "no_login"} /\ (Reading => worker.pc # "idle")
    BY DEF SessionStatus, Reading
<1>13. {"ok", "not_found", "auth", "upstream", "other"} \subseteq Outcome /\ LoginFailures \subseteq Outcome
    BY DEF Outcome, LoginFailures
<1>14. CASE LoginFails
    BY <1>11, <1>13, <1>14 DEF LoginFails
<1>15. CASE ReadSucceeds \/ ReadFindsNothing
    BY <1>11, <1>12, <1>13, <1>15 DEF ReadSucceeds, ReadFindsNothing
<1>16. CASE ReadFails
    BY <1>11, <1>12, <1>13, <1>16 DEF ReadFails
<1>17. CASE RefreshFetched
    BY <1>11, <1>13, <1>17 DEF RefreshFetched
<1>18. CASE ReadUnauthorized
  <2>1. CASE worker.pc = "read_reused"
    <3>1. worker' = [worker EXCEPT !.pc = "recover"] /\ UNCHANGED <<market, refresh, queue, reply>>
        BY <1>18, <2>1 DEF ReadUnauthorized
    <3> QED
        BY <2>1, <3>1, GoesOnKeepsOrder
  <2>2. CASE worker.pc = "read_fresh"
      BY <1>11, <1>12, <1>13, <1>18, <2>2 DEF ReadUnauthorized
  <2>3. CASE worker.pc = "reread"
      BY <1>11, <1>12, <1>13, <1>18, <2>3 DEF ReadUnauthorized
  <2> QED
      BY <1>18, <2>1, <2>2, <2>3 DEF ReadUnauthorized, Reading
<1>19. CASE UNCHANGED <<market, refresh, queue, worker, reply>>
  <2>1. \A req : IsCall(req)' <=> IsCall(req)
      BY <1>19 DEF IsCall
  <2> QED
      BY <1>19, <2>1 DEF CallsInOrder, Waiting, InWorker, IsCall
<1>20. CASE WorkerRestart
  <2>1. /\ queue' = << >> /\ DOMAIN queue' = {} /\ worker'.pc = "idle" /\ UNCHANGED <<market, refresh>>
        /\ reply' = IF InWorker \/ InQueue THEN Reply("internal", "absent") ELSE reply
      BY <1>20 DEF WorkerRestart
  <2>2. InWorker \/ InQueue \/ reply # NoReply => Waiting
      BY DEF CallsInOrder, InQueue
  <2>3. reply' # NoReply => Waiting'
      BY <2>1, <2>2 DEF Waiting
  <2> QED
      BY <2>1, <2>3 DEF CallsInOrder, InWorker
<1>21. CASE Reap \/ Tick \/ UNCHANGED vars
    BY <1>19, <1>21 DEF Reap, Tick, vars
<1> QED
    BY <1>1, <1>2, <1>3, <1>4, <1>5, <1>6, <1>7, <1>8, <1>9, <1>10, <1>14, <1>15, <1>16,
       <1>17, <1>18, <1>20, <1>21 DEF Next, MarketThread, RefreshThread, WorkerThread
-----------------------------------------------------------------------------
(* The session that is held, and what the controller presumes of it.       *)

\* The worker's steps, by what they leave alone.
LEMMA WorkerSteps ==
    ASSUME TypeOK, WorkerThread
    PROVE  /\ UNCHANGED <<clock, login, circuit, market, refresh>>
           /\ worker.pc # "idle" \/ queue # << >>
    BY DEF WorkerThread, TakeRequest, LoginSucceeds, LoginFails, ReadSucceeds, ReadFindsNothing,
           ReadFails, ReadUnauthorized, RefreshLogin, RefreshFetched, Reading

\* The steps of the two threads leave the session alone.
LEMMA ThreadSteps ==
    ASSUME TypeOK, MarketThread \/ RefreshThread \/ ControllerRestart
    PROVE  /\ UNCHANGED <<clock, held>>
           /\ worker'.pc = worker.pc /\ worker'.req.at = worker.req.at
<1>1. UNCHANGED <<clock, held>> /\ (UNCHANGED worker \/ Abandoned)
    BY DEF MarketThread, RefreshThread, AdmitMarket, SendMarket, MarketUnsent, MarketReceives,
           MarketTimesOut, AdmitRefresh, SendRefresh, RefreshUnsent, RefreshReceives,
           RefreshTimesOut, ControllerRestart
<1> QED
    BY <1>1, AbandonedFits

\* The session that is held is the newest one, and fits the read at work.
LEMMA HeldKept ==
    ASSUME TypeOK, HeldSessionIsNewest, HeldFits, [Next]_vars
    PROVE  HeldSessionIsNewest' /\ HeldFits'
<1> USE Types, SessionsFit
<1>1. CASE MarketThread \/ RefreshThread \/ ControllerRestart
    BY <1>1, ThreadSteps DEF HeldSessionIsNewest, HeldFits
<1>2. CASE held' = NoSession /\ worker'.pc \notin {"read_fresh", "reread"}
    BY <1>2 DEF HeldSessionIsNewest, HeldFits
<1>3. CASE held' = held /\ worker'.pc \notin {"read_fresh", "reread"}
    BY <1>3 DEF HeldSessionIsNewest, HeldFits
<1>4. CASE held' = ReadSession /\ worker'.pc \notin {"read_fresh", "reread"}
    BY <1>4 DEF HeldSessionIsNewest, HeldFits
<1>5. ASSUME \E outcome, session : Answer(outcome, session)
      PROVE  worker'.pc \notin {"read_fresh", "reread"}
  <2>1. worker'.pc = "idle"
      BY <1>5 DEF Answer
  <2> QED
      BY <2>1
<1>6. CASE TakeRequest
  <2>1. worker'.pc \notin {"read_fresh", "reread"}
      BY <1>6 DEF TakeRequest
  <2>2. held' = NoSession \/ held' = held
      BY <1>6 DEF TakeRequest
  <2> QED
      BY <1>2, <1>3, <2>1, <2>2
<1>7. CASE LoginSucceeds
  <2>1. held' = NewSession /\ worker'.req = worker.req
      BY <1>7 DEF LoginSucceeds
  <2> QED
      BY <2>1 DEF HeldSessionIsNewest, HeldFits
<1>8. CASE LoginFails
  <2>1. held' = NoSession /\ \E outcome, session : Answer(outcome, session)
      BY <1>8 DEF LoginFails
  <2> QED
      BY <1>2, <1>5, <2>1
<1>9. CASE ReadSucceeds \/ ReadFindsNothing
  <2>1. (held' = held \/ held' = ReadSession) /\ \E outcome, session : Answer(outcome, session)
      BY <1>9 DEF ReadSucceeds, ReadFindsNothing
  <2> QED
      BY <1>3, <1>4, <1>5, <2>1
<1>10. CASE ReadFails \/ RefreshFetched
  <2>1. held' = held /\ \E outcome, session : Answer(outcome, session)
      BY <1>10 DEF ReadFails, RefreshFetched
  <2> QED
      BY <1>3, <1>5, <2>1
<1>11. CASE ReadUnauthorized
  <2>1. held' = NoSession
      BY <1>11 DEF ReadUnauthorized
  <2>2. worker'.pc = "recover" \/ \E outcome, session : Answer(outcome, session)
      BY <1>11 DEF ReadUnauthorized, Reading
  <2> QED
      BY <1>2, <1>5, <2>1, <2>2
<1>12. CASE RefreshLogin
  <2>1. held' = NoSession /\ worker'.pc = "refresh_fetch"
      BY <1>12 DEF RefreshLogin
  <2> QED
      BY <1>2, <2>1
<1>13. CASE Reap
    BY <1>13 DEF Reap, HeldSessionIsNewest, HeldFits, Epoch, None
<1>14. CASE Tick
    BY <1>14 DEF Tick, HeldSessionIsNewest, HeldFits
<1>15. CASE WorkerRestart
  <2>1. held'.until = None /\ worker'.pc = "idle"
      BY <1>15 DEF WorkerRestart, NoSession
  <2> QED
      BY <2>1 DEF HeldSessionIsNewest, HeldFits
<1>16. CASE UNCHANGED vars
    BY <1>16 DEF vars, HeldSessionIsNewest, HeldFits
<1> QED
    BY <1>1, <1>6, <1>7, <1>8, <1>9, <1>10, <1>11, <1>12, <1>13, <1>14, <1>15, <1>16
    DEF Next, WorkerThread

\* What the reaper takes is over, and what a restart takes is lost.
LEMMA SessionEnds ==
    ASSUME TypeOK, HeldFits, Reap \/ WorkerRestart, NEW end \in Nat, clock < end,
           ~held.lost => held.until >= end, ~held'.lost
    PROVE  FALSE
<1> USE Types
<1>1. CASE Reap
    BY <1>1 DEF Reap, HeldFits, Epoch, None
<1>2. CASE WorkerRestart
  <2>1. held'.lost <=> held.lost \/ held.until # None
    <3>1. held' = [NoSession EXCEPT !.lost = held.lost \/ held.until # None]
        BY <1>2 DEF WorkerRestart
    <3> QED
        BY <3>1 DEF NoSession
  <2> QED
      BY <2>1 DEF Epoch, None
<1> QED
    BY <1>1, <1>2

\* A read that is answered as if there were a session to reuse has left one.
LEMMA AnsweredKept ==
    ASSUME TypeOK, PermitHeld, CallsInOrder, HeldSessionIsNewest, HeldFits, AnsweredMeansHeld, [Next]_vars
    PROVE  AnsweredMeansHeld'
<1> USE Types, SessionsFit
<1>1. SUFFICES ASSUME market'.pc = "wait", reply'.outcome \in {"ok", "not_found"},
                      clock' < market'.at + ReuseTtl, ~held'.lost
               PROVE  held'.until >= market'.at + ReuseTtl
    BY DEF AnsweredMeansHeld
<1>2. NoReply.outcome = "none"
    BY DEF NoReply, Reply
<1>3. reply' # NoReply
    BY <1>1, <1>2
<1>4. CASE MarketThread \/ ControllerRestart
  <2>1. CASE SendMarket
    <3>1. ~Waiting /\ reply' = reply
        BY <2>1 DEF SendMarket, PermitHeld, Waiting
    <3> QED
        BY <1>3, <3>1 DEF CallsInOrder
  <2>2. CASE AdmitMarket \/ ControllerRestart
      BY <1>1, <2>2 DEF AdmitMarket, ControllerRestart
  <2>3. CASE MarketUnsent \/ MarketReceives \/ MarketTimesOut
      BY <1>1, <2>3, FinishMarketFits DEF MarketUnsent, MarketReceives, MarketTimesOut
  <2> QED
      BY <1>4, <2>1, <2>2, <2>3 DEF MarketThread
<1>5. CASE RefreshThread
  <2>1. market.pc = "idle" /\ market' = market
      BY <1>5 DEF RefreshThread, AdmitRefresh, SendRefresh, RefreshUnsent, RefreshReceives,
                  RefreshTimesOut, PermitHeld
  <2> QED
      BY <1>1, <2>1
<1>6. CASE WorkerThread
  <2>1. UNCHANGED <<clock, market, refresh>> /\ reply = NoReply
      BY <1>6, WorkerSteps DEF CallsInOrder
  <2>2. ASSUME NEW outcome \in Outcome, NEW session \in {"absent", "login", "no_login"},
               worker.pc # "idle", Answer(outcome, session)
        PROVE  /\ outcome \in {"ok", "not_found"} /\ worker.req.at = market.at
               /\ worker.req.kind = "market"
    <3>1. worker.req.live /\ outcome = reply'.outcome
        BY <1>3, <2>1, <2>2, AnswerFits
    <3>2. IsCall(worker.req)
        BY <2>2, <3>1 DEF CallsInOrder, InWorker
    <3> QED
        BY <1>1, <2>1, <3>1, <3>2 DEF IsCall
  <2>3. SessionStatus \in {"absent", "login", "no_login"} /\ (Reading => worker.pc # "idle")
      BY DEF SessionStatus, Reading
  <2>4. {"ok", "not_found", "auth", "upstream", "other"} \subseteq Outcome /\ LoginFailures \subseteq Outcome
      BY DEF Outcome, LoginFailures
  <2>5. CASE ReadSucceeds
    <3>1. worker.req.at = market.at /\ held' = ReadSession
        BY <2>2, <2>3, <2>4, <2>5 DEF ReadSucceeds
    <3> QED
        BY <2>1, <3>1
  <2>6. CASE ReadFindsNothing
    <3>1. worker.req.at = market.at /\ held' = IF worker.pc = "reread" THEN held ELSE ReadSession
        BY <2>2, <2>3, <2>4, <2>6 DEF ReadFindsNothing
    <3>2. worker.pc = "reread" => held.until = worker.req.at + ReuseTtl
        BY <1>1, <2>1, <3>1 DEF HeldFits
    <3> QED
        BY <2>1, <3>1, <3>2
  <2>7. CASE LoginFails
      BY <2>2, <2>4, <2>7 DEF LoginFails, LoginFailures
  <2>8. CASE ReadFails
      BY <2>2, <2>3, <2>4, <2>8 DEF ReadFails
  <2>9. CASE ReadUnauthorized
    <3>1. CASE worker.pc = "read_reused"
        BY <1>3, <2>1, <2>9, <3>1 DEF ReadUnauthorized
    <3>2. CASE worker.pc = "read_fresh"
        BY <2>2, <2>3, <2>4, <2>9, <3>2 DEF ReadUnauthorized
    <3>3. CASE worker.pc = "reread"
        BY <2>2, <2>3, <2>4, <2>9, <3>3 DEF ReadUnauthorized
    <3> QED
        BY <2>9, <3>1, <3>2, <3>3 DEF ReadUnauthorized, Reading
  <2>10. CASE RefreshFetched
    <3>1. worker.req.kind = "refresh"
        BY <2>10 DEF RefreshFetched, CallsInOrder
    <3> QED
        BY <2>2, <2>4, <2>10, <3>1 DEF RefreshFetched
  <2>11. CASE TakeRequest \/ LoginSucceeds \/ RefreshLogin
      BY <1>3, <2>1, <2>11 DEF TakeRequest, LoginSucceeds, RefreshLogin
  <2> QED
      BY <1>6, <2>5, <2>6, <2>7, <2>8, <2>9, <2>10, <2>11 DEF WorkerThread
<1>7. CASE Reap \/ WorkerRestart
  <2>1. UNCHANGED <<clock, market>> /\ (reply' = reply \/ reply'.outcome = "internal")
      BY <1>7 DEF Reap, WorkerRestart, Reply
  <2>2. ~held.lost => held.until >= market.at + ReuseTtl
      BY <1>1, <2>1 DEF AnsweredMeansHeld
  <2>3. market.at + ReuseTtl \in Nat
      BY SessionConstants
  <2> QED
      BY <1>1, <1>7, <2>1, <2>2, <2>3, SessionEnds
<1>8. CASE Tick \/ UNCHANGED vars
    BY <1>1, <1>8, SessionConstants DEF Tick, vars, AnsweredMeansHeld
<1> QED
    BY <1>4, <1>5, <1>6, <1>7, <1>8 DEF Next

\* What the controller presumes of the session stays true.
LEMMA WindowKept ==
    ASSUME TypeOK, PermitHeld, CallsInOrder, HeldSessionIsNewest, HeldFits,
           AnsweredMeansHeld, WindowMeansHeld, [Next]_vars
    PROVE  WindowMeansHeld'
<1> USE Types
<1>1. login.window \in Epoch /\ market.at + ReuseTtl \in Nat /\ None \notin Nat
    BY SessionConstants DEF LiveLogin, None
<1>2. CASE login'.inFlight \/ login'.window = None
    BY <1>2 DEF WindowMeansHeld, ReuseEligible
<1>3. ASSUME ~login.inFlight, login.window # None
      PROVE  worker.pc = "idle" /\ queue = << >>
    BY <1>3 DEF WindowMeansHeld
<1>4. CASE AdmitMarket \/ AdmitRefresh
  <2>1. CASE AdmitMarket
      BY <1>2, <2>1, LoginStateFits DEF AdmitMarket
  <2>2. CASE AdmitRefresh
      BY <1>2, <2>2 DEF AdmitRefresh, RefreshAdmitted, LiveLogin
  <2> QED
      BY <1>4, <2>1, <2>2
<1>5. CASE (SendMarket \/ SendRefresh) /\ UNCHANGED login
    BY <1>2, <1>5 DEF SendMarket, SendRefresh, PermitHeld
<1>6. CASE MarketUnsent \/ MarketTimesOut
    BY <1>2, <1>6, FinishMarketFits DEF MarketUnsent, MarketTimesOut
<1>7. CASE MarketReceives
  <2>1. /\ login'.window = (IF reply.outcome \in {"ok", "not_found"} THEN market.at + ReuseTtl ELSE None)
        /\ UNCHANGED <<clock, held, worker, queue>> /\ market.pc = "wait"
      BY <1>7, FinishMarketFits DEF MarketReceives
  <2>2. worker.pc = "idle" /\ queue = << >>
      BY <1>7 DEF MarketReceives, CallsInOrder
  <2>3. CASE reply.outcome \in {"ok", "not_found"}
    <3>1. login'.window = market.at + ReuseTtl
        BY <2>1, <2>3
    <3>2. clock < market.at + ReuseTtl /\ ~held.lost => held.until >= market.at + ReuseTtl
        BY <2>1, <2>3 DEF AnsweredMeansHeld
    <3>3. held.until >= market.at + ReuseTtl => held.current
        BY <1>1 DEF HeldSessionIsNewest, None
    <3> QED
        BY <2>1, <2>2, <3>1, <3>2, <3>3 DEF WindowMeansHeld, ReuseEligible
  <2> QED
      BY <1>2, <2>1, <2>3
<1>8. CASE FinishRefresh
    BY <1>2, <1>8, ReleasedFits DEF FinishRefresh
<1>9. CASE RefreshReceives
  <2>1. FinishRefresh \/ (UNCHANGED login /\ login.inFlight)
      BY <1>9 DEF RefreshReceives, PermitHeld
  <2> QED
      BY <1>2, <1>8, <2>1
<1>10. CASE RefreshUnsent \/ RefreshTimesOut
    BY <1>8, <1>10 DEF RefreshUnsent, RefreshTimesOut
<1>11. CASE WorkerThread
    BY <1>2, <1>3, <1>11, WorkerSteps
<1>12. CASE Reap \/ WorkerRestart
  <2>1. /\ UNCHANGED <<clock, login>>
        /\ worker.pc = "idle" /\ queue = << >> => worker'.pc = "idle" /\ queue' = << >>
      BY <1>12 DEF Reap, WorkerRestart
  <2>2. ASSUME ReuseEligible(login, clock), ~login.inFlight, ~held'.lost PROVE FALSE
    <3>1. login.window \in Nat /\ clock < login.window
        BY <1>1, <2>2 DEF ReuseEligible, Epoch
    <3>2. ~held.lost => held.until >= login.window
        BY <2>2 DEF WindowMeansHeld
    <3> QED
        BY <1>12, <2>2, <3>1, <3>2, SessionEnds
  <2> QED
      BY <1>3, <2>1, <2>2 DEF WindowMeansHeld, ReuseEligible
<1>13. CASE Tick
    BY <1>1, <1>13 DEF Tick, WindowMeansHeld, ReuseEligible, Epoch
<1>14. CASE UNCHANGED vars
    BY <1>14 DEF vars, WindowMeansHeld, ReuseEligible
<1>15. CASE ControllerRestart
    BY <1>2, <1>15 DEF ControllerRestart, FreshState
<1>16. SendMarket \/ SendRefresh => UNCHANGED login
    BY DEF SendMarket, SendRefresh
<1> QED
    BY <1>4, <1>5, <1>6, <1>7, <1>9, <1>10, <1>11, <1>12, <1>13, <1>14, <1>15, <1>16
    DEF Next, MarketThread, RefreshThread

\* The circuit counts from the read that failed last.
LEMMA CircuitKept ==
    ASSUME TypeOK, CircuitFits, [Next]_vars
    PROVE  CircuitFits'
<1> USE Types
<1>1. CASE AdmitMarket \/ SendMarket
    BY <1>1 DEF AdmitMarket, SendMarket, CircuitFits
<1>2. CASE MarketUnsent \/ MarketReceives \/ MarketTimesOut
    BY <1>2, FinishMarketFits DEF MarketUnsent, MarketReceives, MarketTimesOut, CircuitFits
<1>3. CASE UNCHANGED <<circuit, market>>
    BY <1>3 DEF CircuitFits
<1>4. CASE RefreshThread
    BY <1>3, <1>4 DEF RefreshThread, AdmitRefresh, SendRefresh, RefreshUnsent, RefreshReceives,
                      RefreshTimesOut
<1>5. CASE WorkerThread
    BY <1>3, <1>5, WorkerSteps
<1>6. CASE Reap \/ Tick \/ WorkerRestart \/ UNCHANGED vars
    BY <1>3, <1>6 DEF Reap, Tick, WorkerRestart, vars
<1>7. CASE ControllerRestart
    BY <1>7 DEF ControllerRestart, ClosedCircuit, CircuitFits
<1> QED
    BY <1>1, <1>2, <1>4, <1>5, <1>6, <1>7 DEF Next, MarketThread

-----------------------------------------------------------------------------
(* The theorems.                                                           *)

\* All of it: who has the permit, who waits for what, what is held and presumed.
Agreement ==
    /\ TypeOK /\ PermitHeld /\ CallsInOrder
    /\ HeldSessionIsNewest /\ HeldFits /\ AnsweredMeansHeld /\ WindowMeansHeld
    /\ CircuitFits

\* At the start there is nothing to disagree about.
LEMMA InitAgrees == Init => Agreement
<1> SUFFICES ASSUME Init PROVE Agreement
    OBVIOUS
<1>1. TypeOK
    BY InitTypes
<1>2. /\ clock = 0 /\ market.pc = "idle" /\ refresh.pc = "idle" /\ queue = << >> /\ reply = NoReply
      /\ worker.pc = "idle" /\ held = NoSession /\ circuit = ClosedCircuit /\ login = FreshState
      /\ DOMAIN queue = {}
    BY DEF Init
<1>3. PermitHeld /\ CallsInOrder
    BY <1>2 DEF PermitHeld, CallsInOrder, InWorker, FreshState
<1>4. HeldSessionIsNewest /\ HeldFits /\ AnsweredMeansHeld /\ WindowMeansHeld /\ CircuitFits
    BY <1>2 DEF HeldSessionIsNewest, HeldFits, AnsweredMeansHeld, WindowMeansHeld, CircuitFits,
                ReuseEligible, FreshState, NoSession, ClosedCircuit
<1> QED
    BY <1>1, <1>3, <1>4 DEF Agreement

\* And no step makes the two disagree.
LEMMA StepAgrees ==
    ASSUME Agreement, [Next]_vars
    PROVE  Agreement'
<1>1. TypeOK' /\ PermitHeld' /\ CallsInOrder'
    BY TypesKept, PermitKept, OrderKept DEF Agreement
<1>2. HeldSessionIsNewest' /\ HeldFits' /\ AnsweredMeansHeld' /\ WindowMeansHeld' /\ CircuitFits'
    BY HeldKept, AnsweredKept, WindowKept, CircuitKept DEF Agreement
<1> QED
    BY <1>1, <1>2 DEF Agreement

\* However the two threads, the worker, the reaper, lost calls and restarts
\* interleave (controller.rs, fineco-live, fineco-worker): the requests with a caller
\* are in order, the session held is the newest one, and while the controller
\* presumes a session to reuse the worker holds one that lasts as long, with no
\* orphan before the next read, unless it was restarted (MarketSession.SessionInv).
THEOREM ControllerAndWorkerAgree == Spec => []SessionInv
<1>1. Init => Agreement
    BY InitAgrees
<1>2. Agreement /\ [Next]_vars => Agreement'
    BY StepAgrees
<1>3. Agreement => SessionInv
    BY OneLive DEF Agreement, SessionInv
<1> QED
    BY <1>1, <1>2, <1>3, PTL DEF Spec

\* The two threads of the controller never have a live operation each, and of all
\* the requests the worker has or will get at most one has a caller
\* (MarketSession.OneLiveOperation).
THEOREM LiveOperationsExclude == Spec => []OneLiveOperation
<1>1. SessionInv => OneLiveOperation
    BY DEF SessionInv
<1> QED
    BY <1>1, ControllerAndWorkerAgree, PTL

\* The worker never holds a session that a later login may have ended
\* (MarketSession.HeldSessionIsNewest).
THEOREM NoOldSessionIsHeld == Spec => []HeldSessionIsNewest
<1>1. SessionInv => HeldSessionIsNewest
    BY DEF SessionInv
<1> QED
    BY <1>1, ControllerAndWorkerAgree, PTL

\* While the market circuit is tripped its probes are admitted at least a cooldown
\* apart, however they end (MarketSession.OneProbePerCooldown, MarketCircuitState).
THEOREM ProbesAreSpaced == Spec => OneProbePerCooldown
<1>1. ASSUME SessionInv, [Next]_vars, Admits, circuit.failures >= CircuitFailures
      PROVE  market'.at - market.at >= CircuitCooldown
  <2>1. /\ market.pc = "idle" /\ market'.pc = "call"
        /\ circuit \in Circuit /\ clock \in Nat /\ market.at \in Nat
        /\ market \in [pc : {"idle", "call", "wait"}, at : Nat, reuse : BOOLEAN]
      BY <1>1, Types DEF SessionInv, Admits
  <2>2. AdmitMarket
    <3>1. MarketUnsent \/ MarketReceives \/ MarketTimesOut => market'.pc = "idle"
        BY <2>1 DEF MarketUnsent, MarketReceives, MarketTimesOut, FinishMarket
    <3>2. SendMarket => market.pc = "call"
        BY DEF SendMarket
    <3>3. RefreshThread \/ WorkerThread \/ Reap \/ Tick \/ WorkerRestart \/ UNCHANGED vars => market' = market
        BY <1>1, WorkerSteps
        DEF RefreshThread, AdmitRefresh, SendRefresh, RefreshUnsent, RefreshReceives,
            RefreshTimesOut, Reap, Tick, WorkerRestart, vars, SessionInv
    <3>4. ControllerRestart => market'.pc = "idle"
        BY <2>1 DEF ControllerRestart
    <3> QED
        BY <1>1, <2>1, <3>1, <3>2, <3>3, <3>4 DEF Next, MarketThread
  <2>3. circuit.newest = market.at /\ circuit.newest # None
    <3>1. circuit.failures > 0
        BY <1>1, <2>1, SessionConstants DEF Circuit
    <3> QED
        BY <1>1, <2>1, <3>1 DEF SessionInv, CircuitFits, None
  <2>4. clock - circuit.newest >= CircuitCooldown
    <3>1. ~(circuit.failures < CircuitFailures)
        BY <1>1, <2>1, SessionConstants DEF Circuit
    <3> QED
        BY <2>2, <2>3, <3>1 DEF AdmitMarket, CircuitAdmits
  <2>5. market'.at = clock
      BY <2>1, <2>2 DEF AdmitMarket
  <2> QED
      BY <2>3, <2>4, <2>5
<1>2. SessionInv /\ [Next]_vars
        => [Admits /\ circuit.failures >= CircuitFailures => market'.at - market.at >= CircuitCooldown]_vars
    BY <1>1
<1> QED
    BY <1>2, ControllerAndWorkerAgree, PTL DEF Spec, OneProbePerCooldown

-----------------------------------------------------------------------------
(* Counting in sequences.                                                  *)

\* How many elements of s are in T.
CountIn(s, T) == Cardinality({j \in DOMAIN s : s[j] \in T})

\* 1 when P holds, 0 when not: an element counted or not.
One(P) == IF P THEN 1 ELSE 0

\* Positions of a sequence are finitely many; one more makes one more.
LEMMA PositionsCount ==
    ASSUME NEW n \in Nat, NEW X \in SUBSET (1..n)
    PROVE  /\ IsFiniteSet(X) /\ Cardinality(X) \in Nat
           /\ Cardinality(X \union {n + 1}) = Cardinality(X) + 1
<1>1. IsFiniteSet(1..n)
    BY FS_Interval
<1>2. IsFiniteSet(X)
    BY <1>1, FS_Subset
<1>3. n + 1 \notin X
    OBVIOUS
<1> QED
    BY <1>2, <1>3, FS_CardinalityType, FS_AddElement

\* When the first k positions go, those counted among them are no longer.
LEMMA ShiftCount ==
    ASSUME NEW n \in Nat, NEW k \in 0..n, NEW X \in SUBSET (1..n)
    PROVE  Cardinality(X) = Cardinality(X \intersect (1..k)) + Cardinality({i \in 1..(n - k) : i + k \in X})
<1> DEFINE A == X \intersect (1..k)
           B == X \intersect ((k + 1)..n)
           Y == {i \in 1..(n - k) : i + k \in X}
           f == [i \in Y |-> i + k]
<1>1. n - k \in Nat /\ k \in Nat /\ k <= n
    OBVIOUS
<1>2. IsFiniteSet(X) /\ IsFiniteSet(A) /\ IsFiniteSet(B) /\ IsFiniteSet(Y)
  <2>1. A \in SUBSET (1..n) /\ B \in SUBSET (1..n)
      OBVIOUS
  <2>2. Y \in SUBSET (1..(n - k))
      OBVIOUS
  <2> QED
      BY <1>1, <2>1, <2>2, PositionsCount
<1>3. ExistsBijection(Y, B)
  <2>1. \A i \in Y : f[i] \in B
      BY <1>1
  <2>2. f \in [Y -> B]
      BY <2>1
  <2>3. \A i, j \in Y : f[i] = f[j] => i = j
      BY <1>1
  <2>4. ASSUME NEW b \in B PROVE \E i \in Y : f[i] = b
    <3>1. b \in X /\ b \in 1..n /\ b - k \in 1..(n - k) /\ (b - k) + k = b
        BY <1>1
    <3>2. b - k \in Y
        BY <3>1
    <3>3. f[b - k] = b
        BY <3>1, <3>2
    <3> QED
        BY <3>2, <3>3
  <2> HIDE DEF f, Y, B
  <2>5. f \in Injection(Y, B)
      BY <2>2, <2>3 DEF Injection, IsInjective
  <2>6. f \in Surjection(Y, B)
      BY <2>2, <2>4 DEF Surjection
  <2> QED
      BY <2>5, <2>6 DEF Bijection, ExistsBijection
<1>5. A \union B = X /\ A \intersect B = {}
  <2>1. \A x \in X : x \in 1..k \/ x \in (k + 1)..n
      BY <1>1
  <2>2. \A x \in 1..k : x \notin (k + 1)..n
      BY <1>1
  <2> QED
      BY <2>1, <2>2
<1> HIDE DEF A, B, Y, f
<1>4. Cardinality(Y) = Cardinality(B)
    BY <1>2, <1>3, FS_Bijection
<1>6. Cardinality(A \union B) = Cardinality(A) + Cardinality(B) - Cardinality(A \intersect B)
    BY <1>2, FS_Union
<1>7. Cardinality(A \intersect B) = 0
    BY <1>5, FS_EmptySet
<1>8. Cardinality(A) \in Nat /\ Cardinality(B) \in Nat
    BY <1>2, FS_CardinalityType
<1>9. Cardinality(X) = Cardinality(A) + Cardinality(Y)
    BY <1>4, <1>5, <1>6, <1>7, <1>8
<1> QED
    BY <1>9 DEF A, Y

\* What is counted in a sequence, and when it grows.
LEMMA CountAppend ==
    ASSUME NEW S, NEW s \in Seq(S), NEW T
    PROVE  /\ CountIn(s, T) \in Nat
           /\ \A e \in S : CountIn(Append(s, e), T) = CountIn(s, T) + One(e \in T)
<1> DEFINE n == Len(s)
           X == {j \in DOMAIN s : s[j] \in T}
<1>1. n \in Nat /\ DOMAIN s = 1..n
    BY LenProperties
<1>2. X \in SUBSET (1..n)
    BY <1>1
<1>3. CountIn(s, T) \in Nat
    BY <1>1, <1>2, PositionsCount DEF CountIn
<1>4. ASSUME NEW e \in S PROVE CountIn(Append(s, e), T) = CountIn(s, T) + One(e \in T)
  <2>1. /\ DOMAIN Append(s, e) = 1..(n + 1) /\ Append(s, e)[n + 1] = e
        /\ \A i \in 1..n : Append(s, e)[i] = s[i]
    <3>1. /\ Append(s, e) \in Seq(S) /\ Len(Append(s, e)) = n + 1 /\ Append(s, e)[n + 1] = e
          /\ \A i \in 1..n : Append(s, e)[i] = s[i]
        BY AppendProperties
    <3> QED
        BY <3>1, LenProperties
  <2>2. {j \in DOMAIN Append(s, e) : Append(s, e)[j] \in T} = X \union (IF e \in T THEN {n + 1} ELSE {})
      BY <1>1, <2>1
  <2>3. CountIn(s, T) = Cardinality(X)
      BY DEF CountIn
  <2>4. CountIn(Append(s, e), T) = Cardinality(X \union (IF e \in T THEN {n + 1} ELSE {}))
      BY <2>2 DEF CountIn
  <2> HIDE DEF X, n
  <2>5. Cardinality(X \union {n + 1}) = Cardinality(X) + 1 /\ X \union {} = X
      BY <1>1, <1>2, PositionsCount
  <2>6. CASE e \in T
      BY <1>3, <2>3, <2>4, <2>5, <2>6 DEF One
  <2>7. CASE e \notin T
    <3>1. CountIn(Append(s, e), T) = Cardinality(X)
        BY <2>4, <2>5, <2>7
    <3>2. CountIn(Append(s, e), T) = CountIn(s, T) /\ One(e \in T) = 0
        BY <2>3, <2>7, <3>1 DEF One
    <3> QED
        BY <1>3, <3>2
  <2> QED
      BY <2>6, <2>7
<1> QED
    BY <1>3, <1>4

\* What is counted when the front of a sequence is dropped.
LEMMA CountTail ==
    ASSUME NEW S, NEW s \in Seq(S), s # << >>, NEW T
    PROVE  CountIn(s, T) = CountIn(Tail(s), T) + One(Head(s) \in T)
<1> DEFINE n == Len(s)
           X == {j \in DOMAIN s : s[j] \in T}
           Y == {i \in 1..(n - 1) : i + 1 \in X}
<1>1. n \in Nat \ {0} /\ DOMAIN s = 1..n
    BY LenProperties, EmptySeq
<1>2. /\ Tail(s) \in Seq(S) /\ Len(Tail(s)) = n - 1 /\ Head(s) = s[1]
      /\ \A i \in 1..(n - 1) : Tail(s)[i] = s[i + 1]
    BY HeadTailProperties
<1>3. DOMAIN Tail(s) = 1..(n - 1)
    BY <1>2, LenProperties
<1>4. {j \in DOMAIN Tail(s) : Tail(s)[j] \in T} = Y
    BY <1>1, <1>2, <1>3
<1>5. CountIn(Tail(s), T) = Cardinality(Y) /\ CountIn(s, T) = Cardinality(X)
    BY <1>4 DEF CountIn
<1>6. Cardinality(X \intersect (1..1)) = One(Head(s) \in T)
  <2>1. X \intersect (1..1) = IF Head(s) \in T THEN {1} ELSE {}
      BY <1>1, <1>2
  <2>2. Cardinality({1}) = 1 /\ Cardinality({}) = 0
      BY FS_Singleton, FS_EmptySet
  <2> QED
      BY <2>1, <2>2 DEF One
<1>7. X \in SUBSET (1..n) /\ Y \in SUBSET (1..(n - 1)) /\ n - 1 \in Nat /\ 1 \in 0..n
    BY <1>1
<1> HIDE DEF X, n
<1>8. Cardinality(X) = Cardinality(X \intersect (1..1)) + Cardinality({i \in 1..(n - 1) : i + 1 \in X})
    BY <1>1, <1>7, ShiftCount
<1> HIDE DEF Y
<1>9. Cardinality(Y) \in Nat
    BY <1>7, PositionsCount
<1>10. Cardinality(X) = One(Head(s) \in T) + Cardinality(Y)
    BY <1>6, <1>8 DEF Y
<1>11. One(Head(s) \in T) \in Nat
    BY DEF One
<1> QED
    BY <1>5, <1>9, <1>10, <1>11

\* Pruning takes only what is out of the window.
LEMMA PrunedCount ==
    ASSUME NEW attempts \in Seq(Nat), NEW now \in Nat, NEW T \in SUBSET Nat,
           \A t \in T : now - t < BudgetWindow
    PROVE  CountIn(Pruned(attempts, now), T) = CountIn(attempts, T)
<1> DEFINE n == Len(attempts)
           old == {i \in DOMAIN attempts : \A j \in 1..i : now - attempts[j] >= BudgetWindow}
           k == Cardinality(old)
           X == {j \in DOMAIN attempts : attempts[j] \in T}
           Y == {i \in 1..(n - k) : i + k \in X}
<1>1. n \in Nat /\ DOMAIN attempts = 1..n /\ \A i \in 1..n : attempts[i] \in Nat
    BY LenProperties, ElementOfSeq
<1>2. IsFiniteSet(old) /\ k \in Nat /\ k <= n
  <2>1. IsFiniteSet(1..n) /\ Cardinality(1..n) = n
    <3>1. IsFiniteSet(1..n) /\ Cardinality(1..n) = IF 1 > n THEN 0 ELSE n - 1 + 1
        BY <1>1, FS_Interval
    <3> QED
        BY <1>1, <3>1, SMTT(30)
  <2>2. IsFiniteSet(old) /\ k <= n
      BY <1>1, <2>1, FS_Subset
  <2> QED
      BY <2>2, FS_CardinalityType
<1>3. 1..k \subseteq old
  <2> SUFFICES ASSUME NEW i \in 1..k, i \notin old PROVE FALSE
      OBVIOUS
  <2>1. old \subseteq 1..(i - 1)
    <3> SUFFICES ASSUME NEW j \in old, j >= i PROVE FALSE
        BY <1>1, <1>2
    <3>1. \A m \in 1..i : m \in 1..j
        BY <1>1, <1>2
    <3>2. i \in DOMAIN attempts
        BY <1>1, <1>2
    <3> QED
        BY <3>1, <3>2
  <2>2. IsFiniteSet(1..(i - 1)) /\ Cardinality(1..(i - 1)) = i - 1
    <3> DEFINE m == i - 1
    <3>1. m \in Int /\ 1 \in Int /\ m >= 0
        BY <1>2
    <3> HIDE DEF m
    <3>2. IsFiniteSet(1..m) /\ Cardinality(1..m) = IF 1 > m THEN 0 ELSE m - 1 + 1
        BY <3>1, FS_Interval
    <3>3. IsFiniteSet(1..m) /\ Cardinality(1..m) = m
        BY <3>1, <3>2
    <3> QED
        BY <3>3 DEF m
  <2>3. k <= i - 1
      BY <2>1, <2>2, FS_Subset
  <2> QED
      BY <1>2, <2>3
<1>4. X \intersect (1..k) = {}
  <2> SUFFICES ASSUME NEW i \in 1..k PROVE i \notin X
      OBVIOUS
  <2>1. i \in old /\ i \in 1..i /\ i \in 1..n
    <3> HIDE DEF k, old
    <3> QED
        BY <1>2, <1>3
  <2>2. now - attempts[i] >= BudgetWindow /\ attempts[i] \in Nat
      BY <1>1, <2>1
  <2> QED
      BY <2>2, SessionConstants
<1>5. Pruned(attempts, now) = SubSeq(attempts, k + 1, n)
    BY DEF Pruned
<1> HIDE DEF k, old
<1>6. /\ DOMAIN SubSeq(attempts, k + 1, n) = 1..(n - k)
      /\ \A i \in 1..(n - k) : SubSeq(attempts, k + 1, n)[i] = attempts[i + k]
  <2>1. /\ SubSeq(attempts, k + 1, n) \in Seq(Nat)
        /\ Len(SubSeq(attempts, k + 1, n)) = IF k + 1 <= n THEN n - (k + 1) + 1 ELSE 0
        /\ \A i \in 1..(n - (k + 1) + 1) : SubSeq(attempts, k + 1, n)[i] = attempts[k + 1 + i - 1]
    <3>1. k + 1 \in Int /\ n \in Int /\ \A i \in (k + 1)..n : attempts[i] \in Nat
        BY <1>1, <1>2
    <3> QED
        BY <3>1, SubSeqProperties
  <2>2. Len(SubSeq(attempts, k + 1, n)) = n - k /\ n - (k + 1) + 1 = n - k
    <3> HIDE DEF n
    <3>1. (k + 1 <= n \/ k = n) /\ n - (k + 1) + 1 = n - k
        BY <1>1, <1>2
    <3> QED
        BY <1>1, <1>2, <2>1, <3>1
  <2>3. \A i \in 1..(n - k) : k + 1 + i - 1 = i + k
      BY <1>2
  <2>4. DOMAIN SubSeq(attempts, k + 1, n) = 1..(n - k)
      BY <2>1, <2>2, LenProperties
  <2>5. \A i \in 1..(n - k) : SubSeq(attempts, k + 1, n)[i] = attempts[i + k]
    <3> HIDE DEF n
    <3> QED
        BY <2>1, <2>2, <2>3, Zenon
  <2> QED
      BY <2>4, <2>5
<1>7. {j \in DOMAIN Pruned(attempts, now) : Pruned(attempts, now)[j] \in T} = Y
  <2>1. {j \in 1..(n - k) : attempts[j + k] \in T} = Y
      BY <1>1, <1>2
  <2> HIDE DEF n, Y
  <2> QED
      BY <1>5, <1>6, <2>1
<1>8. CountIn(Pruned(attempts, now), T) = Cardinality(Y) /\ CountIn(attempts, T) = Cardinality(X)
    BY <1>7 DEF CountIn
<1>9. X \in SUBSET (1..n) /\ Y \in SUBSET (1..(n - k)) /\ n - k \in Nat /\ k \in 0..n
    BY <1>1, <1>2
<1> HIDE DEF X, n
<1>10. Cardinality(X) = Cardinality(X \intersect (1..k)) + Cardinality({i \in 1..(n - k) : i + k \in X})
    BY <1>1, <1>9, ShiftCount
<1> HIDE DEF Y
<1>11. Cardinality(Y) \in Nat
    BY <1>9, PositionsCount
<1>12. Cardinality(X \intersect (1..k)) = 0
    BY <1>4, FS_EmptySet
<1>13. Cardinality(X) = Cardinality(Y)
    BY <1>10, <1>11, <1>12 DEF Y
<1> QED
    BY <1>8, <1>13

-----------------------------------------------------------------------------
(* Where a login may still come from.                                      *)

\* The logins and the requests for market reads that were admitted in T.
LoginsOf(T) == {entry \in Login : entry.at \in T}
RequestsOf(T) == {req \in Request : req.kind = "market" /\ req.at \in T}

\* The worker serves a market read that it has not logged in for.
InHand == worker.pc \in {"login", "recover", "read_reused"}

InLog(T) == CountIn(log, LoginsOf(T))
InSocket(T) == CountIn(queue, RequestsOf(T))
AtWorker(T) == One(InHand /\ worker.req.at \in T)
AtCaller(T) == One(market.pc = "call" /\ market.at \in T)

\* The reads admitted in T that have logged in, or may yet: every read logs in at
\* most once.
Chances(T) == InLog(T) + InSocket(T) + AtWorker(T) + AtCaller(T)

\* What the controller has charged for them, and what it will charge for the read
\* in flight: nothing once the worker said that it did not log in.
Charged(T) == CountIn(login.attempts, T)
Awaited(T) == One(market.pc # "idle" /\ market.at \in T /\ reply.session # "no_login")
Debits(T) == Charged(T) + Awaited(T)

\* All of these are natural numbers.
LEMMA ChancesFit ==
    ASSUME TypeOK, NEW T \in SUBSET Nat
    PROVE  /\ InLog(T) \in Nat /\ InSocket(T) \in Nat /\ AtWorker(T) \in 0..1 /\ AtCaller(T) \in 0..1
           /\ Charged(T) \in Nat /\ Awaited(T) \in 0..1
           /\ log \in Seq(Login) /\ login.attempts \in Seq(Nat)
<1>1. log \in Seq(Login) /\ login.attempts \in Seq(Nat) /\ queue \in Seq(Request)
    BY DEF TypeOK, Login, LiveLogin
<1>2. InLog(T) \in Nat /\ InSocket(T) \in Nat /\ Charged(T) \in Nat
    BY <1>1, CountAppend DEF InLog, InSocket, Charged
<1> QED
    BY <1>1, <1>2 DEF AtWorker, AtCaller, Awaited, One

\* And they stay so.
LEMMA ChancesStayFit ==
    ASSUME TypeOK', NEW T \in SUBSET Nat
    PROVE  /\ InLog(T)' \in Nat /\ InSocket(T)' \in Nat /\ AtWorker(T)' \in 0..1 /\ AtCaller(T)' \in 0..1
           /\ Charged(T)' \in Nat /\ Awaited(T)' \in 0..1
<1>1. log' \in Seq(Login) /\ login'.attempts \in Seq(Nat) /\ queue' \in Seq(Request)
    BY DEF TypeOK, Login, LiveLogin
<1>2. InLog(T)' \in Nat /\ InSocket(T)' \in Nat /\ Charged(T)' \in Nat
    BY <1>1, CountAppend DEF InLog, InSocket, Charged
<1> QED
    BY <1>1, <1>2 DEF AtWorker, AtCaller, Awaited, One

\* So are their sums.
LEMMA TotalsFit ==
    ASSUME TypeOK, TypeOK', NEW T \in SUBSET Nat
    PROVE  Chances(T) \in Nat /\ Debits(T) \in Nat /\ Chances(T)' \in Nat /\ Debits(T)' \in Nat
<1>1. Chances(T) \in Nat /\ Debits(T) \in Nat
    BY ChancesFit DEF Chances, Debits
<1>2. Chances(T)' \in Nat /\ Debits(T)' \in Nat
    BY ChancesStayFit DEF Chances, Debits
<1> QED
    BY <1>1, <1>2

\* A request whose caller went is still one.
LEMMA AbandonedChances ==
    ASSUME TypeOK, Abandoned, NEW T \in SUBSET Nat
    PROVE  InSocket(T)' = InSocket(T) /\ AtWorker(T)' = AtWorker(T)
<1>1. /\ DOMAIN queue' = DOMAIN queue /\ worker'.pc = worker.pc /\ worker'.req.at = worker.req.at
      /\ \A i \in DOMAIN queue : queue'[i] = Orphan(queue[i])
    BY AbandonedFits DEF Abandoned
<1>2. \A i \in DOMAIN queue : queue[i] \in Request
    BY Types, ElementOfSeq, LenProperties
<1>3. \A req \in Request : Orphan(req) \in RequestsOf(T) <=> req \in RequestsOf(T)
    BY DEF Orphan, Request, RequestsOf
<1>4. {i \in DOMAIN queue' : queue'[i] \in RequestsOf(T)} = {i \in DOMAIN queue : queue[i] \in RequestsOf(T)}
    BY <1>1, <1>2, <1>3
<1>5. AtWorker(T)' = AtWorker(T)
    BY <1>1 DEF AtWorker, InHand
<1> QED
    BY <1>4, <1>5 DEF InSocket, CountIn

\* What a step of the worker does to the read it serves: it takes the next one, or
\* logs in for the one it has, or leaves log and socket alone; and it answers a
\* caller only when it will no longer log in.
LEMMA WorkerMoves ==
    ASSUME TypeOK, WorkerThread
    PROVE  /\ UNCHANGED <<clock, login, circuit, market, refresh, restarts>>
           /\ \/ TakeRequest
              \/ /\ InHand /\ ~InHand' /\ LogLogin /\ UNCHANGED queue
                 /\ reply' # reply => reply'.session # "no_login"
              \/ UNCHANGED <<log, queue>> /\ (InHand' => InHand /\ worker'.req = worker.req)
           /\ \/ UNCHANGED reply
              \/ /\ worker.req.live /\ worker.pc # "idle" /\ ~InHand' /\ reply' # NoReply
                 /\ reply'.session = "no_login" <=> worker.pc = "read_reused"
                 /\ reply'.session = "no_login" => UNCHANGED <<log, queue>>
                 /\ reply'.session = "absent" => reply'.outcome \notin {"transport", "not_found"}
           /\ \/ TakeRequest
              \/ /\ worker.pc # "idle" /\ (worker'.req.live => worker.req.live)
                 /\ worker.req.live => reply' # NoReply \/ (worker'.pc # "idle" /\ worker'.req.live)
<1> USE Types
<1>1. UNCHANGED <<clock, login, circuit, market, refresh, restarts>>
    BY DEF WorkerThread, TakeRequest, LoginSucceeds, LoginFails, ReadSucceeds, ReadFindsNothing,
           ReadFails, ReadUnauthorized, RefreshLogin, RefreshFetched
<1>2. ASSUME NEW outcome, NEW session, Answer(outcome, session), worker.pc # "idle",
             session = "absent" => outcome \notin {"transport", "not_found"}, outcome # "none"
      PROVE  /\ worker'.pc = "idle" /\ ~worker'.req.live /\ ~InHand'
             /\ worker.req.live => reply' # NoReply
             /\ UNCHANGED reply \/ /\ worker.req.live /\ reply' # NoReply /\ reply'.session = session
                                   /\ reply'.session = "absent" => reply'.outcome \notin {"transport", "not_found"}
  <2>1. worker' = [worker EXCEPT !.pc = "idle", !.req = Orphan(worker.req)]
      BY <1>2 DEF Answer
  <2>2. worker'.pc = "idle" /\ ~worker'.req.live
      BY <2>1 DEF Orphan, Request
  <2>3. reply' = IF worker.req.live THEN Reply(outcome, session) ELSE reply
      BY <1>2 DEF Answer
  <2>4. Reply(outcome, session) # NoReply
      BY <1>2 DEF Reply, NoReply
  <2> QED
      BY <1>2, <2>2, <2>3, <2>4 DEF Reply, InHand
<1>3. CASE TakeRequest
    BY <1>1, <1>3 DEF TakeRequest
<1>4. CASE LoginSucceeds
  <2>1. worker'.pc \in {"read_fresh", "reread"} /\ worker'.req = worker.req
      BY <1>4 DEF LoginSucceeds
  <2> QED
      BY <1>1, <1>4, <2>1 DEF LoginSucceeds, InHand
<1>5. CASE LoginFails
  <2>1. PICK outcome \in LoginFailures : Answer(outcome, "absent")
      BY <1>5 DEF LoginFails
  <2>2. outcome \notin {"transport", "not_found", "none"} /\ worker.pc # "idle" /\ worker.pc # "read_reused"
      BY <1>5 DEF LoginFails, LoginFailures
  <2>3. InHand /\ LogLogin /\ UNCHANGED queue
      BY <1>5 DEF LoginFails, InHand
  <2> QED
      BY <1>1, <1>2, <2>1, <2>2, <2>3
<1>6. Reading => worker.pc # "idle"
    BY DEF Reading
<1>7. /\ SessionStatus # "absent" /\ (SessionStatus = "no_login" <=> worker.pc = "read_reused")
    BY DEF SessionStatus
<1>8. CASE ReadSucceeds
  <2>1. Answer("ok", SessionStatus) /\ UNCHANGED <<log, queue>> /\ worker.pc # "idle"
      BY <1>6, <1>8 DEF ReadSucceeds
  <2> QED
      BY <1>1, <1>2, <1>7, <2>1
<1>9. CASE ReadFindsNothing
  <2>1. Answer("not_found", SessionStatus) /\ UNCHANGED <<log, queue>> /\ worker.pc # "idle"
      BY <1>6, <1>9 DEF ReadFindsNothing
  <2> QED
      BY <1>1, <1>2, <1>7, <2>1
<1>10. CASE ReadFails
  <2>1. PICK outcome \in {"upstream", "other"} : Answer(outcome, SessionStatus)
      BY <1>10 DEF ReadFails
  <2>2. UNCHANGED <<log, queue>> /\ worker.pc # "idle"
      BY <1>6, <1>10 DEF ReadFails
  <2> QED
      BY <1>1, <1>2, <1>7, <2>1, <2>2
<1>11. CASE ReadUnauthorized
  <2>1. UNCHANGED <<log, queue>> /\ worker.pc # "idle"
      BY <1>6, <1>11 DEF ReadUnauthorized
  <2>2. CASE worker.pc = "read_reused"
    <3>1. worker' = [worker EXCEPT !.pc = "recover"] /\ UNCHANGED reply
        BY <1>11, <2>2 DEF ReadUnauthorized
    <3>2. worker'.req = worker.req /\ InHand
        BY <2>2, <3>1 DEF InHand
    <3> QED
        BY <1>1, <2>1, <3>1, <3>2
  <2>3. CASE worker.pc \in {"read_fresh", "reread"}
    <3>1. Answer("auth", "absent") \/ Answer("auth", "login")
        BY <1>11, <2>3 DEF ReadUnauthorized
    <3> QED
        BY <1>1, <1>2, <2>1, <2>3, <3>1
  <2> QED
      BY <1>11, <2>2, <2>3 DEF ReadUnauthorized, Reading
<1>12. CASE RefreshLogin
    BY <1>1, <1>12 DEF RefreshLogin, InHand
<1>13. CASE RefreshFetched
  <2>1. PICK outcome \in {"ok", "upstream"} : Answer(outcome, "absent")
      BY <1>13 DEF RefreshFetched
  <2>2. UNCHANGED <<log, queue>> /\ worker.pc # "idle" /\ worker.pc # "read_reused"
      BY <1>13 DEF RefreshFetched
  <2> QED
      BY <1>1, <1>2, <2>1, <2>2
<1> QED
    BY <1>3, <1>4, <1>5, <1>8, <1>9, <1>10, <1>11, <1>12, <1>13 DEF WorkerThread

-----------------------------------------------------------------------------
(* No step but an admission makes a login possible that is not charged.    *)

\* What is charged grows as much as what may log in, or more.
ChargeKept(T) ==
    /\ Chances(T)' <= Chances(T)
    /\ Chances(T)' + Debits(T) <= Chances(T) + Debits(T)'

\* An answer that tells of no login tells the truth, and any other is charged for.
ReplyFits ==
    reply # NoReply /\ reply.session = "absent" => reply.outcome \notin {"transport", "not_found"}

\* Every step keeps this.
LEMMA ReplyKept ==
    ASSUME TypeOK, ReplyFits, [Next]_vars
    PROVE  ReplyFits'
<1>1. CASE WorkerThread
    BY <1>1, WorkerMoves DEF ReplyFits
<1>2. CASE WorkerRestart
    BY <1>2 DEF WorkerRestart, Reply, ReplyFits
<1>3. UNCHANGED reply \/ reply' = NoReply => ReplyFits'
    BY DEF ReplyFits
<1> QED
    BY <1>1, <1>2, <1>3 DEF Next, MarketThread, RefreshThread, AdmitMarket, SendMarket, MarketUnsent,
        MarketReceives, MarketTimesOut, AdmitRefresh, SendRefresh, RefreshUnsent, RefreshReceives,
        RefreshTimesOut, Reap, Tick, ControllerRestart, vars

\* Nothing that counts has changed.
LEMMA NothingMoves ==
    ASSUME TypeOK, UNCHANGED <<log, queue, worker, market, reply>>, login'.attempts = login.attempts,
           NEW T \in SUBSET Nat
    PROVE  ChargeKept(T)
<1>1. /\ InLog(T)' = InLog(T) /\ InSocket(T)' = InSocket(T) /\ AtWorker(T)' = AtWorker(T)
      /\ AtCaller(T)' = AtCaller(T) /\ Charged(T)' = Charged(T) /\ Awaited(T)' = Awaited(T)
    BY DEF InLog, InSocket, AtWorker, AtCaller, Charged, Awaited, InHand
<1> QED
    BY <1>1, ChancesFit DEF ChargeKept, Chances, Debits

\* A finished read is charged, unless it did not log in.
LEMMA FinishCharges ==
    ASSUME TypeOK, NEW outcome, NEW session, FinishMarket(outcome, session), NEW T \in SUBSET Nat,
           market.pc # "idle"
    PROVE  /\ Awaited(T)' = 0 /\ AtCaller(T)' = 0
           /\ Charged(T)' = Charged(T) +
                One(market.at \in T /\ (session = "login" \/ (session = "absent" /\ outcome \notin {"transport", "not_found"})))
<1> DEFINE performed == session = "login" \/ (session = "absent" /\ outcome \notin {"transport", "not_found"})
<1>1. market'.pc = "idle"
    BY FinishMarketFits
<1>2. login'.attempts = IF performed THEN Append(login.attempts, market.at) ELSE login.attempts
    BY Types DEF FinishMarket, MarketFinished, PreservesSession, LiveLogin
<1>3. login.attempts \in Seq(Nat) /\ market.at \in Nat
    BY ChancesFit, Types
<1>4. CASE performed
  <2>1. CountIn(Append(login.attempts, market.at), T) = CountIn(login.attempts, T) + One(market.at \in T)
      BY <1>3, CountAppend
  <2> QED
      BY <1>1, <1>2, <1>4, <2>1 DEF Charged, Awaited, AtCaller, One
<1>5. CASE ~performed
  <2>1. Charged(T)' = Charged(T) /\ Charged(T) \in Nat
      BY <1>2, <1>5, ChancesFit DEF Charged
  <2> QED
      BY <1>1, <1>5, <2>1 DEF Awaited, AtCaller, One
<1> QED
    BY <1>4, <1>5

\* The market thread, past the admission.
LEMMA MarketChances ==
    ASSUME TypeOK, CallsInOrder, ReplyFits, NEW T \in SUBSET Nat,
           SendMarket \/ MarketUnsent \/ MarketReceives \/ MarketTimesOut
    PROVE  ChargeKept(T)
<1>0. /\ InLog(T) \in Nat /\ InSocket(T) \in Nat /\ AtWorker(T) \in 0..1
      /\ AtCaller(T) \in 0..1 /\ Charged(T) \in Nat /\ Awaited(T) \in 0..1
    BY ChancesFit
<1>1. CASE SendMarket
  <2> DEFINE req == [kind |-> "market", at |-> market.at, reuse |-> market.reuse, live |-> TRUE]
  <2>1. req \in Request /\ (req \in RequestsOf(T) <=> market.at \in T)
      BY Types, ChancesFit DEF Request, RequestsOf
  <2>2. /\ queue' = Append(queue, req) /\ market.pc = "call" /\ market'.pc = "wait" /\ market'.at = market.at
        /\ UNCHANGED <<log, worker, login, reply>>
      BY <1>1 DEF SendMarket
  <2> HIDE DEF req
  <2>3. InSocket(T)' = InSocket(T) + One(market.at \in T)
      BY Types, ChancesFit, <2>1, <2>2, CountAppend DEF InSocket, One
  <2>4. AtCaller(T) = One(market.at \in T) /\ AtCaller(T)' = 0
      BY <2>2 DEF AtCaller, One
  <2>5. InLog(T)' = InLog(T) /\ AtWorker(T)' = AtWorker(T) /\ Charged(T)' = Charged(T) /\ Awaited(T)' = Awaited(T)
      BY <2>2 DEF InLog, AtWorker, InHand, Charged, Awaited
  <2> QED
      BY <1>0, <2>3, <2>4, <2>5 DEF ChargeKept, Chances, Debits
<1>2. CASE MarketUnsent
  <2>1. /\ market.pc = "call" /\ UNCHANGED <<log, queue, worker>>
        /\ FinishMarket("transport", "absent")
      BY <1>2 DEF MarketUnsent
  <2>2. Awaited(T)' = 0 /\ AtCaller(T)' = 0 /\ Charged(T)' = Charged(T)
      BY Types, ChancesFit, <2>1, FinishCharges DEF One
  <2>3. Awaited(T) <= AtCaller(T)
      BY <2>1 DEF AtCaller, Awaited, One
  <2>4. InLog(T)' = InLog(T) /\ InSocket(T)' = InSocket(T) /\ AtWorker(T)' = AtWorker(T)
      BY <2>1 DEF InLog, InSocket, AtWorker, InHand
  <2> QED
      BY <1>0, <2>2, <2>3, <2>4 DEF ChargeKept, Chances, Debits
<1>3. CASE MarketReceives
  <2>1. /\ market.pc = "wait" /\ UNCHANGED <<log, queue, worker>>
        /\ FinishMarket(reply.outcome, reply.session) /\ reply # NoReply
      BY <1>3 DEF MarketReceives
  <2>2. reply.session \in {"absent", "login", "no_login"}
      BY <2>1 DEF TypeOK
  <2>3. Awaited(T)' = 0 /\ AtCaller(T)' = 0 /\ Charged(T)' = Charged(T) + Awaited(T) /\ AtCaller(T) = 0
      BY <2>1, <2>2, FinishCharges DEF One, Awaited, AtCaller, ReplyFits
  <2>4. InLog(T)' = InLog(T) /\ InSocket(T)' = InSocket(T) /\ AtWorker(T)' = AtWorker(T)
      BY <2>1 DEF InLog, InSocket, AtWorker, InHand
  <2> QED
      BY <1>0, <2>3, <2>4 DEF ChargeKept, Chances, Debits
<1>4. CASE MarketTimesOut
  <2>1. /\ market.pc = "wait" /\ UNCHANGED log /\ Abandoned
        /\ FinishMarket("internal", "absent") /\ reply = NoReply
      BY <1>4 DEF MarketTimesOut
  <2>2. Awaited(T)' = 0 /\ AtCaller(T)' = 0 /\ Charged(T)' = Charged(T) + Awaited(T) /\ AtCaller(T) = 0
      BY <2>1, FinishCharges DEF One, Awaited, AtCaller, NoReply, Reply
  <2>3. InLog(T)' = InLog(T) /\ InSocket(T)' = InSocket(T) /\ AtWorker(T)' = AtWorker(T)
      BY <2>1, AbandonedChances DEF InLog
  <2> QED
      BY <1>0, <2>2, <2>3 DEF ChargeKept, Chances, Debits
<1> QED
    BY <1>1, <1>2, <1>3, <1>4

\* A refresh has no part in it.
LEMMA RefreshChances ==
    ASSUME TypeOK, PermitHeld, NEW T \in SUBSET Nat, RefreshThread
    PROVE  ChargeKept(T)
<1>0. /\ InLog(T) \in Nat /\ InSocket(T) \in Nat /\ AtWorker(T) \in 0..1
      /\ AtCaller(T) \in 0..1 /\ Charged(T) \in Nat /\ Awaited(T) \in 0..1
    BY ChancesFit
<1>1. login'.attempts = login.attempts /\ UNCHANGED <<log, market>>
  <2>1. RefreshAdmitted(login).attempts = login.attempts /\ Released(login).attempts = login.attempts
      BY DEF RefreshAdmitted, Released, LiveLogin
  <2> QED
      BY <2>1 DEF RefreshThread, AdmitRefresh, SendRefresh, RefreshUnsent, RefreshReceives,
                  RefreshTimesOut, FinishRefresh
<1>2. CASE AdmitRefresh \/ RefreshUnsent
    BY <1>1, <1>2, NothingMoves DEF AdmitRefresh, RefreshUnsent
<1>3. /\ InLog(T)' = InLog(T) /\ Charged(T)' = Charged(T) /\ AtCaller(T)' = AtCaller(T)
    BY <1>1 DEF InLog, Charged, AtCaller
<1>4. CASE SendRefresh
  <2> DEFINE req == [NoRequest EXCEPT !.live = TRUE]
  <2>1. req \in Request /\ req \notin RequestsOf(T)
      BY DEF Request, NoRequest, RequestsOf
  <2>2. queue' = Append(queue, req) /\ UNCHANGED <<worker, reply>>
      BY <1>4 DEF SendRefresh
  <2> HIDE DEF req
  <2>3. InSocket(T)' = InSocket(T)
      BY Types, ChancesFit, <2>1, <2>2, CountAppend DEF InSocket, One
  <2>4. AtWorker(T)' = AtWorker(T) /\ Awaited(T)' = Awaited(T)
      BY <1>1, <2>2 DEF AtWorker, InHand, Awaited
  <2> QED
      BY <1>0, <1>3, <2>3, <2>4 DEF ChargeKept, Chances, Debits
<1>5. CASE RefreshReceives \/ RefreshTimesOut
  <2>1. market.pc = "idle" /\ Awaited(T) = 0 /\ Awaited(T)' = 0
      BY <1>1, <1>5 DEF RefreshReceives, RefreshTimesOut, PermitHeld, Awaited, One
  <2>2. InSocket(T)' = InSocket(T) /\ AtWorker(T)' = AtWorker(T)
      BY <1>5, AbandonedChances DEF RefreshReceives, RefreshTimesOut, InSocket, AtWorker, InHand
  <2> QED
      BY <1>0, <1>3, <2>1, <2>2 DEF ChargeKept, Chances, Debits
<1> QED
    BY <1>2, <1>4, <1>5 DEF RefreshThread

\* The worker logs in at most once for each read it takes.
LEMMA WorkerChances ==
    ASSUME TypeOK, CallsInOrder, NEW T \in SUBSET Nat, WorkerThread
    PROVE  ChargeKept(T)
<1>0. /\ InLog(T) \in Nat /\ InSocket(T) \in Nat /\ AtWorker(T) \in 0..1
      /\ AtCaller(T) \in 0..1 /\ Charged(T) \in Nat /\ Awaited(T) \in 0..1
    BY ChancesFit
<1>1. /\ UNCHANGED <<login, market>> /\ Charged(T)' = Charged(T) /\ AtCaller(T)' = AtCaller(T)
    BY WorkerMoves DEF Charged, AtCaller
<1>2. /\ InLog(T)' \in Nat /\ InSocket(T)' \in Nat /\ AtWorker(T)' \in 0..1 /\ Awaited(T)' \in 0..1
      /\ InLog(T) \in Nat /\ InSocket(T) \in Nat /\ AtWorker(T) \in 0..1 /\ Awaited(T) \in 0..1
      /\ AtCaller(T) \in 0..1 /\ Charged(T) \in Nat
  <2>1. TypeOK'
      BY WorkerTypes
  <2> QED
      BY Types, ChancesFit, <2>1, ChancesStayFit
<1>3. InLog(T)' + InSocket(T)' + AtWorker(T)' <= InLog(T) + InSocket(T) + AtWorker(T)
  <2>1. CASE TakeRequest
    <3>1. /\ worker.pc = "idle" /\ queue # << >> /\ queue' = Tail(queue) /\ worker'.req = Head(queue)
          /\ worker'.pc = IF Head(queue).kind = "refresh" THEN "refresh_login"
                          ELSE IF Reuse(Head(queue)) THEN "read_reused" ELSE "login"
          /\ UNCHANGED log
        BY <2>1 DEF TakeRequest
    <3>2. Head(queue) \in Request
        BY Types, ChancesFit, <3>1, HeadTailProperties
    <3>3. InHand' /\ worker'.req.at \in T <=> Head(queue) \in RequestsOf(T)
        BY <3>1, <3>2 DEF InHand, RequestsOf, Request
    <3>4. AtWorker(T) = 0 /\ AtWorker(T)' = One(Head(queue) \in RequestsOf(T))
        BY <3>1, <3>3 DEF AtWorker, InHand, One
    <3>5. InSocket(T) = InSocket(T)' + One(Head(queue) \in RequestsOf(T))
        BY Types, ChancesFit, <3>1, CountTail DEF InSocket
    <3> QED
        BY <1>2, <3>1, <3>4, <3>5 DEF InLog
  <2>2. CASE InHand /\ ~InHand' /\ LogLogin /\ UNCHANGED queue
    <3> DEFINE entry == [at |-> worker.req.at, reuse |-> worker.req.reuse]
    <3>1. entry \in Login /\ (entry \in LoginsOf(T) <=> worker.req.at \in T)
        BY Types, ChancesFit DEF Login, Request, LoginsOf
    <3>2. log' = Append(log, entry)
        BY <2>2 DEF LogLogin
    <3> HIDE DEF entry
    <3>3. InLog(T)' = InLog(T) + One(worker.req.at \in T)
        BY Types, ChancesFit, <3>1, <3>2, CountAppend DEF InLog, One
    <3>4. AtWorker(T) = One(worker.req.at \in T) /\ AtWorker(T)' = 0 /\ InSocket(T)' = InSocket(T)
        BY <2>2 DEF AtWorker, InSocket, One
    <3> QED
        BY <1>2, <3>3, <3>4
  <2>3. CASE UNCHANGED <<log, queue>> /\ (InHand' => InHand /\ worker'.req = worker.req)
    <3>1. AtWorker(T)' <= AtWorker(T)
        BY <2>3 DEF AtWorker, One
    <3>2. InLog(T)' = InLog(T) /\ InSocket(T)' = InSocket(T)
        BY <2>3 DEF InLog, InSocket
    <3> QED
        BY <1>2, <3>1, <3>2
  <2> QED
      BY <2>1, <2>2, <2>3, WorkerMoves
<1>4. CASE Awaited(T) <= Awaited(T)'
  <2>1. Chances(T)' <= Chances(T)
      BY <1>0, <1>1, <1>2, <1>3 DEF Chances
  <2>2. Debits(T) <= Debits(T)'
      BY <1>0, <1>1, <1>2, <1>4 DEF Debits
  <2>3. Chances(T) \in Nat /\ Chances(T)' \in Nat /\ Debits(T) \in Nat /\ Debits(T)' \in Nat
    <3>1. TypeOK'
        BY WorkerTypes
    <3> QED
        BY <3>1, TotalsFit
  <2> QED
      BY <2>1, <2>2, <2>3 DEF ChargeKept
<1>5. CASE ~(Awaited(T) <= Awaited(T)')
  <2>1. Awaited(T) = 1 /\ Awaited(T)' = 0
      BY <1>2, <1>5
  <2>2. /\ reply'.session = "no_login" /\ reply' # reply /\ market.at \in T
      BY <1>1, <2>1 DEF Awaited, One
  <2>3. /\ worker.req.live /\ worker.pc = "read_reused" /\ ~InHand' /\ UNCHANGED <<log, queue>>
      BY <2>2, WorkerMoves
  <2>4. worker.req.at = market.at
      BY <2>3 DEF CallsInOrder, InWorker, IsCall
  <2>5. AtWorker(T) = 1 /\ AtWorker(T)' = 0 /\ InLog(T)' = InLog(T) /\ InSocket(T)' = InSocket(T)
      BY <2>2, <2>3, <2>4 DEF AtWorker, InHand, InLog, InSocket, One
  <2> QED
      BY <1>0, <1>1, <2>1, <2>5 DEF ChargeKept, Chances, Debits
<1> QED
    BY <1>4, <1>5

\* A restart of the worker loses requests, and tells their caller nothing.
LEMMA WorkerRestartChances ==
    ASSUME TypeOK, NEW T \in SUBSET Nat, WorkerRestart
    PROVE  ChargeKept(T)
<1>0. /\ InLog(T) \in Nat /\ InSocket(T) \in Nat /\ AtWorker(T) \in 0..1
      /\ AtCaller(T) \in 0..1 /\ Charged(T) \in Nat /\ Awaited(T) \in 0..1
    BY ChancesFit
<1>1. /\ worker'.pc = "idle" /\ queue' = << >> /\ UNCHANGED <<login, market, log>>
      /\ UNCHANGED reply \/ reply'.session = "absent"
    BY DEF WorkerRestart, Reply
<1>2. InSocket(T)' = 0 /\ AtWorker(T)' = 0
  <2>1. {j \in DOMAIN queue' : queue'[j] \in RequestsOf(T)} = {}
      BY <1>1
  <2> QED
      BY <1>1, <2>1, FS_EmptySet DEF InSocket, CountIn, AtWorker, InHand, One
<1>3. /\ InLog(T)' = InLog(T) /\ AtCaller(T)' = AtCaller(T) /\ Charged(T)' = Charged(T)
      /\ Awaited(T) <= Awaited(T)'
    BY <1>1 DEF InLog, AtCaller, Charged, Awaited, One
<1>4. TypeOK'
    BY OtherTypes
<1>5. Awaited(T)' \in 0..1 /\ Awaited(T) \in 0..1
    BY Types, ChancesFit, <1>4, ChancesStayFit
<1>6. /\ InLog(T) \in Nat /\ InSocket(T) \in Nat /\ AtWorker(T) \in 0..1
      /\ AtCaller(T) \in 0..1 /\ Charged(T) \in Nat
    BY <1>0
<1> QED
    BY <1>0, <1>2, <1>3, <1>5, <1>6 DEF ChargeKept, Chances, Debits

\* Every step but an admission and a restart of the controller.
LEMMA ChancesKept ==
    ASSUME TypeOK, PermitHeld, CallsInOrder, ReplyFits, NEW T \in SUBSET Nat,
           [Next]_vars, ~AdmitMarket, ~ControllerRestart
    PROVE  ChargeKept(T)
<1>1. CASE Reap \/ Tick \/ UNCHANGED vars
    BY <1>1, NothingMoves DEF Reap, Tick, vars
<1> QED
    BY <1>1, MarketChances, RefreshChances, WorkerChances, WorkerRestartChances DEF Next, MarketThread

\* An admission may log in, and is charged; what it prunes is out of the window.
LEMMA AdmissionChances ==
    ASSUME TypeOK, CallsInOrder, PermitHeld, NEW T \in SUBSET Nat, AdmitMarket
    PROVE  /\ Chances(T)' = Chances(T) + One(clock \in T)
           /\ (\A t \in T : clock - t < BudgetWindow) => Debits(T)' = Debits(T) + One(clock \in T)
<1>0. /\ InLog(T) \in Nat /\ InSocket(T) \in Nat /\ AtWorker(T) \in 0..1
      /\ AtCaller(T) \in 0..1 /\ Charged(T) \in Nat /\ Awaited(T) \in 0..1
    BY ChancesFit
<1>1. /\ market.pc = "idle" /\ market'.pc = "call" /\ market'.at = clock
      /\ UNCHANGED <<log, queue, worker, reply>>
      /\ login'.attempts = Pruned(login.attempts, clock)
    BY DEF AdmitMarket, MarketAdmitted, BudgetPruned, LiveLogin
<1>2. reply = NoReply
    BY <1>1 DEF AdmitMarket, MarketAdmissible, CallsInOrder, PermitHeld, Waiting
<1>3. InLog(T)' = InLog(T) /\ InSocket(T)' = InSocket(T) /\ AtWorker(T)' = AtWorker(T)
    BY <1>1 DEF InLog, InSocket, AtWorker, InHand
<1>4. AtCaller(T) = 0 /\ AtCaller(T)' = One(clock \in T) /\ Awaited(T) = 0 /\ Awaited(T)' = One(clock \in T)
    BY <1>1, <1>2 DEF AtCaller, Awaited, One, NoReply, Reply
<1>5. ASSUME \A t \in T : clock - t < BudgetWindow PROVE Charged(T)' = Charged(T)
  <2>1. login.attempts \in Seq(Nat) /\ clock \in Nat
      BY Types, ChancesFit
  <2>2. CountIn(Pruned(login.attempts, clock), T) = CountIn(login.attempts, T)
      BY <1>5, <2>1, PrunedCount
  <2> QED
      BY <1>1, <2>2 DEF Charged
<1>6. /\ One(clock \in T) \in 0..1 /\ InLog(T) \in Nat /\ InSocket(T) \in Nat /\ AtWorker(T) \in 0..1
      /\ AtCaller(T) \in 0..1 /\ Charged(T) \in Nat
    BY <1>0 DEF One
<1> QED
    BY <1>0, <1>3, <1>4, <1>5, <1>6 DEF Chances, Debits

\* A restart of the controller drops the read in flight, if it was not sent.
LEMMA RestartChances ==
    ASSUME TypeOK, NEW T \in SUBSET Nat, ControllerRestart
    PROVE  Chances(T)' <= Chances(T) /\ Debits(T)' = 0
<1>0. /\ InLog(T) \in Nat /\ InSocket(T) \in Nat /\ AtWorker(T) \in 0..1
      /\ AtCaller(T) \in 0..1 /\ Charged(T) \in Nat /\ Awaited(T) \in 0..1
    BY ChancesFit
<1>1. Abandoned /\ UNCHANGED log /\ market'.pc = "idle" /\ login'.attempts = << >>
    BY DEF ControllerRestart, FreshState
<1>2. InLog(T)' = InLog(T) /\ InSocket(T)' = InSocket(T) /\ AtWorker(T)' = AtWorker(T) /\ AtCaller(T)' = 0
    BY <1>1, AbandonedChances DEF InLog, AtCaller, One
<1>3. Charged(T)' = 0 /\ Awaited(T)' = 0
  <2>1. {j \in DOMAIN login'.attempts : login'.attempts[j] \in T} = {}
      BY <1>1
  <2> QED
      BY <1>1, <2>1, FS_EmptySet DEF Charged, CountIn, Awaited, One
<1> QED
    BY <1>0, <1>2, <1>3 DEF Chances, Debits

-----------------------------------------------------------------------------
(* The inductive invariant of the ledger.                                  *)

\* The times whose logins count against the budget at a.
Within(a) == {t \in Nat : t <= a /\ a - t < BudgetWindow}
Recent(T) == \A t \in T : clock - t < BudgetWindow

\* The attempts on record leave room for the read in flight.
BudgetFits == Len(login.attempts) + One(market.pc # "idle") <= LoginBudget

\* Within the window every login that was made or may still be made is charged, but
\* for one budget for each restart of the controller.
ChargesCover ==
    \A T \in SUBSET Nat : Recent(T) => Chances(T) <= LoginBudget * restarts + Debits(T)

\* So no window, also of the past, has seen or will see more than the budgets.
WindowsBounded ==
    \A a \in Nat : Chances(Within(a)) <= LoginBudget * (restarts + 1)

Ledgered == ReplyFits /\ BudgetFits /\ ChargesCover /\ WindowsBounded

\* One more restart is one more budget.
LEMMA OneMoreBudget ==
    \A b, r \in Nat : b * r \in Nat /\ b * (r + 1) = b * r + b
    OBVIOUS

\* No more is counted than there is.
LEMMA CountBound ==
    ASSUME NEW S, NEW s \in Seq(S), NEW T
    PROVE  CountIn(s, T) <= Len(s)
<1> DEFINE X == {j \in DOMAIN s : s[j] \in T}
<1>1. Len(s) \in Nat /\ DOMAIN s = 1..Len(s)
    BY LenProperties
<1>2. IsFiniteSet(1..Len(s)) /\ Cardinality(1..Len(s)) = Len(s)
  <2>1. IsFiniteSet(1..Len(s)) /\ Cardinality(1..Len(s)) = IF 1 > Len(s) THEN 0 ELSE Len(s) - 1 + 1
      BY <1>1, FS_Interval, SMTT(30)
  <2> QED
      BY <1>1, <2>1
<1>3. X \in SUBSET (1..Len(s)) /\ CountIn(s, T) = Cardinality(X)
    BY <1>1 DEF CountIn
<1> HIDE DEF X
<1>4. \A D : IsFiniteSet(D) => \A P \in SUBSET D : Cardinality(P) <= Cardinality(D)
    BY FS_Subset
<1>5. Cardinality(X) <= Cardinality(1..Len(s))
    BY <1>2, <1>3, <1>4
<1> QED
    BY <1>2, <1>3, <1>5

\* The attempts change only with an admission, a finish and a restart.
LEMMA BudgetKept ==
    ASSUME TypeOK, BudgetFits, [Next]_vars
    PROVE  BudgetFits'
<1> USE Types, SessionConstants
<1>1. login.attempts \in Seq(Nat) /\ Len(login.attempts) \in Nat
    BY LenProperties DEF LiveLogin
<1>2. CASE AdmitMarket
  <2>1. Len(Pruned(login.attempts, clock)) < LoginBudget
      BY <1>2 DEF AdmitMarket, MarketAdmissible
  <2>2. login'.attempts = Pruned(login.attempts, clock)
      BY <1>2 DEF AdmitMarket, MarketAdmitted, BudgetPruned, LiveLogin
  <2>3. Len(login'.attempts) \in Nat
      BY <1>1, <2>2, PrunedFits, LenProperties
  <2> QED
      BY <2>1, <2>2, <2>3 DEF BudgetFits, One
<1>3. ASSUME NEW outcome, NEW session, FinishMarket(outcome, session), market.pc # "idle"
      PROVE  BudgetFits'
  <2>1. market'.pc = "idle"
      BY <1>3, FinishMarketFits
  <2>2. login'.attempts \in {login.attempts, Append(login.attempts, market.at)}
      BY <1>3 DEF FinishMarket, MarketFinished, LiveLogin
  <2>3. Len(login'.attempts) <= Len(login.attempts) + 1 /\ Len(login'.attempts) \in Nat
      BY <1>1, <2>2, AppendProperties
  <2> QED
      BY <1>1, <1>3, <2>1, <2>3 DEF BudgetFits, One
<1>4. CASE MarketUnsent \/ MarketReceives \/ MarketTimesOut
    BY <1>3, <1>4 DEF MarketUnsent, MarketReceives, MarketTimesOut
<1>5. CASE SendMarket
    BY <1>5 DEF SendMarket, BudgetFits, One
<1>6. CASE ControllerRestart
  <2>1. market'.pc = "idle" /\ login'.attempts = << >>
      BY <1>6 DEF ControllerRestart, FreshState
  <2> QED
      BY <2>1 DEF BudgetFits, One
<1>7. CASE login'.attempts = login.attempts /\ UNCHANGED market
    BY <1>7 DEF BudgetFits, One
<1>8. CASE RefreshThread
  <2>1. RefreshAdmitted(login).attempts = login.attempts /\ Released(login).attempts = login.attempts
      BY DEF RefreshAdmitted, Released, LiveLogin
  <2> QED
      BY <1>7, <1>8, <2>1 DEF RefreshThread, AdmitRefresh, SendRefresh, RefreshUnsent, RefreshReceives,
                  RefreshTimesOut, FinishRefresh
<1>9. CASE WorkerThread
    BY <1>7, <1>9, WorkerMoves
<1>10. CASE Reap \/ Tick \/ WorkerRestart \/ UNCHANGED vars
    BY <1>7, <1>10 DEF Reap, Tick, WorkerRestart, vars
<1> QED
    BY <1>2, <1>4, <1>5, <1>6, <1>8, <1>9, <1>10 DEF Next, MarketThread

\* The debits are never more than the budget.
LEMMA DebitsBound ==
    ASSUME TypeOK, BudgetFits, NEW T \in SUBSET Nat
    PROVE  Debits(T) <= LoginBudget
<1>1. login.attempts \in Seq(Nat) /\ Len(login.attempts) \in Nat /\ LoginBudget \in Nat
    BY Types, LenProperties, SessionConstants DEF LiveLogin
<1>2. Charged(T) <= Len(login.attempts) /\ Charged(T) \in Nat
    BY <1>1, CountBound, ChancesFit DEF Charged
<1>3. Awaited(T) <= One(market.pc # "idle") /\ Awaited(T) \in 0..1 /\ One(market.pc # "idle") \in 0..1
    BY DEF Awaited, One
<1> QED
    BY <1>1, <1>2, <1>3 DEF Debits, BudgetFits

\* Nothing can be charged or log in at first.
LEMMA InitLedgered ==
    ASSUME Init
    PROVE  Ledgered
<1>1. /\ login.attempts = << >> /\ log = << >> /\ queue = << >> /\ worker.pc = "idle"
      /\ market.pc = "idle" /\ reply = NoReply /\ restarts = 0
    BY DEF Init, FreshState
<1>2. ReplyFits /\ BudgetFits
    BY <1>1, SessionConstants DEF ReplyFits, BudgetFits, One
<1>3. ASSUME NEW T \in SUBSET Nat PROVE Chances(T) = 0 /\ Debits(T) \in Nat
  <2>1. \A X : CountIn(<< >>, X) = 0
      BY FS_EmptySet DEF CountIn
  <2>2. Debits(T) = 0
      BY <1>1, <2>1 DEF Debits, Charged, Awaited, One
  <2> QED
      BY <1>1, <2>1, <2>2 DEF Chances, InLog, InSocket, AtWorker, AtCaller, InHand, One
<1>4. LoginBudget * 0 = 0 /\ LoginBudget * (0 + 1) = LoginBudget
    BY SessionConstants
<1>5. ChargesCover
    BY <1>1, <1>3, <1>4 DEF ChargesCover
<1>6. WindowsBounded
  <2>1. \A a \in Nat : Within(a) \in SUBSET Nat
      BY DEF Within
  <2> QED
      BY <1>1, <1>3, <1>4, <2>1, SessionConstants DEF WindowsBounded
<1> QED
    BY <1>2, <1>5, <1>6 DEF Ledgered

\* What is recent after a step was recent before.
LEMMA RecentKept ==
    ASSUME TypeOK, [Next]_vars, NEW T \in SUBSET Nat, Recent(T)'
    PROVE  Recent(T)
<1>1. clock' \in {clock, clock + 1}
    BY Types, WorkerMoves
    DEF Next, MarketThread, RefreshThread, AdmitMarket, SendMarket, MarketUnsent,
        MarketReceives, MarketTimesOut, AdmitRefresh, SendRefresh, RefreshUnsent, RefreshReceives,
        RefreshTimesOut, Reap, Tick, WorkerRestart, ControllerRestart, vars
<1>2. clock \in Nat /\ BudgetWindow \in Nat
    BY Types, SessionConstants
<1>3. \A t \in T : t \in Nat /\ clock' - t < BudgetWindow
    BY DEF Recent
<1>4. ASSUME NEW t \in T PROVE clock - t < BudgetWindow
  <2>1. t \in Nat /\ clock' - t < BudgetWindow
      BY <1>3
  <2>2. CASE clock' = clock
      BY <2>1, <2>2
  <2>3. CASE clock' = clock + 1
    <3>1. (clock + 1) - t < BudgetWindow
        BY <2>1, <2>3
    <3> QED
        BY <1>2, <2>1, <3>1
  <2> QED
      BY <1>1, <2>2, <2>3
<1> QED
    BY <1>4 DEF Recent

\* The charges cover the logins through every step.
LEMMA CoverKept ==
    ASSUME TypeOK, PermitHeld, CallsInOrder, Ledgered, [Next]_vars
    PROVE  ChargesCover'
<1> SUFFICES ASSUME NEW T \in SUBSET Nat, Recent(T)'
             PROVE  Chances(T)' <= LoginBudget * restarts' + Debits(T)'
    BY DEF ChargesCover
<1>1. TypeOK'
    BY TypesKept
<1>2. /\ Chances(T) \in Nat /\ Debits(T) \in Nat /\ Chances(T)' \in Nat /\ Debits(T)' \in Nat
      /\ restarts \in Nat /\ LoginBudget \in Nat /\ LoginBudget * restarts \in Nat
    BY <1>1, TotalsFit, SessionConstants, OneMoreBudget DEF TypeOK
<1>3. Chances(T) <= LoginBudget * restarts + Debits(T) /\ ReplyFits /\ BudgetFits
    BY RecentKept DEF Ledgered, ChargesCover
<1>4. CASE ~AdmitMarket /\ ~ControllerRestart
  <2>1. ChargeKept(T)
      BY <1>3, <1>4, ChancesKept
  <2>2. restarts' = restarts
      BY <1>4, WorkerMoves
      DEF Next, MarketThread, RefreshThread, SendMarket, MarketUnsent,
          MarketReceives, MarketTimesOut, AdmitRefresh, SendRefresh, RefreshUnsent, RefreshReceives,
          RefreshTimesOut, Reap, Tick, WorkerRestart, vars
  <2> QED
      BY <1>2, <1>3, <2>1, <2>2 DEF ChargeKept
<1>5. CASE AdmitMarket
  <2>1. Recent(T)
      BY RecentKept
  <2>2. Chances(T)' = Chances(T) + One(clock \in T) /\ Debits(T)' = Debits(T) + One(clock \in T)
      BY <1>5, <2>1, AdmissionChances DEF Recent
  <2>3. restarts' = restarts /\ One(clock \in T) \in 0..1
      BY <1>5 DEF AdmitMarket, One
  <2> QED
      BY <1>2, <1>3, <2>2, <2>3
<1>6. CASE ControllerRestart
  <2>1. Chances(T)' <= Chances(T) /\ Debits(T)' = 0
      BY <1>6, RestartChances
  <2>2. restarts' = restarts + 1
      BY <1>6 DEF ControllerRestart
  <2>3. LoginBudget * restarts' = LoginBudget * restarts + LoginBudget
      BY <1>2, <2>2, OneMoreBudget
  <2>4. Debits(T) <= LoginBudget
      BY <1>3, DebitsBound
  <2> QED
      BY <1>2, <1>3, <2>1, <2>3, <2>4
<1> QED
    BY <1>4, <1>5, <1>6

\* Every window stays bounded: only an admission makes one more login possible, and
\* only in windows that are then covered by the charges.
LEMMA WindowsKept ==
    ASSUME TypeOK, PermitHeld, CallsInOrder, Ledgered, [Next]_vars
    PROVE  WindowsBounded'
<1> SUFFICES ASSUME NEW a \in Nat
             PROVE  Chances(Within(a))' <= LoginBudget * (restarts' + 1)
    BY DEF WindowsBounded
<1> DEFINE T == Within(a)
<1>1. TypeOK' /\ T \in SUBSET Nat
    BY TypesKept DEF Within
<1>2. Chances(T)' = Chances(Within(a))'
    OBVIOUS
<1>3. \A t \in T : t <= a /\ a - t < BudgetWindow
    BY DEF Within
<1>4. Chances(T) <= LoginBudget * (restarts + 1) /\ ReplyFits
    BY DEF Ledgered, WindowsBounded
<1> HIDE DEF T
<1>5. /\ Chances(T) \in Nat /\ Debits(T) \in Nat /\ Chances(T)' \in Nat /\ Debits(T)' \in Nat
      /\ restarts \in Nat /\ LoginBudget \in Nat /\ LoginBudget * restarts \in Nat
    BY <1>1, TotalsFit, SessionConstants, OneMoreBudget DEF TypeOK
<1>6. LoginBudget * (restarts + 1) = LoginBudget * restarts + LoginBudget
    BY <1>5, OneMoreBudget
<1>7. CASE ~AdmitMarket /\ ~ControllerRestart
  <2>1. ChargeKept(T)
      BY <1>1, <1>4, <1>7, ChancesKept
  <2>2. restarts' = restarts
      BY <1>7, WorkerMoves
      DEF Next, MarketThread, RefreshThread, SendMarket, MarketUnsent,
          MarketReceives, MarketTimesOut, AdmitRefresh, SendRefresh, RefreshUnsent, RefreshReceives,
          RefreshTimesOut, Reap, Tick, WorkerRestart, vars
  <2> QED
      BY <1>2, <1>4, <1>5, <1>6, <2>1, <2>2 DEF ChargeKept
<1>8. CASE AdmitMarket
  <2>1. Chances(T)' = Chances(T) + One(clock \in T) /\ restarts' = restarts /\ clock' = clock
      BY <1>1, <1>8, AdmissionChances DEF AdmitMarket
  <2>2. CASE clock \notin T
      BY <1>2, <1>4, <1>5, <1>6, <2>1, <2>2 DEF One
  <2>3. CASE clock \in T
    <3>1. Recent(T)'
      <4>1. clock \in Nat /\ BudgetWindow \in Nat
          BY Types, SessionConstants
      <4>2. \A t \in T : t \in Nat /\ clock - t < BudgetWindow
          BY <1>1, <1>3, <2>3, <4>1
      <4> QED
          BY <2>1, <4>2 DEF Recent
    <3>2. Chances(T)' <= LoginBudget * restarts' + Debits(T)'
        BY <1>1, <3>1, CoverKept DEF ChargesCover
    <3>3. Debits(T)' <= LoginBudget
      <4>1. BudgetFits
          BY DEF Ledgered
      <4>2. Len(login'.attempts) + One(market'.pc # "idle") <= LoginBudget
          BY <4>1, BudgetKept DEF BudgetFits
      <4>3. login'.attempts \in Seq(Nat) /\ Len(login'.attempts) \in Nat
          BY <1>1, LenProperties DEF TypeOK, LiveLogin
      <4>4. Charged(T)' <= Len(login'.attempts) /\ Charged(T)' \in Nat
          BY <1>1, <4>3, CountBound, ChancesStayFit DEF Charged
      <4>5. Awaited(T)' <= One(market'.pc # "idle") /\ Awaited(T)' \in 0..1 /\ One(market'.pc # "idle") \in 0..1
          BY DEF Awaited, One
      <4> QED
          BY <1>5, <4>2, <4>3, <4>4, <4>5 DEF Debits
    <3> QED
        BY <1>2, <1>5, <1>6, <2>1, <3>2, <3>3
  <2> QED
      BY <2>2, <2>3
<1>9. CASE ControllerRestart
  <2>1. Chances(T)' <= Chances(T)
      BY <1>1, <1>9, RestartChances
  <2>2. restarts' = restarts + 1 /\ restarts' \in Nat
      BY <1>5, <1>9 DEF ControllerRestart
  <2>3. LoginBudget * (restarts' + 1) = LoginBudget * restarts' + LoginBudget
      BY <1>5, <2>2, OneMoreBudget
  <2>4. LoginBudget * restarts' = LoginBudget * restarts + LoginBudget
      BY <1>5, <2>2, OneMoreBudget
  <2> QED
      BY <1>2, <1>4, <1>5, <1>6, <2>1, <2>3, <2>4
<1> QED
    BY <1>7, <1>8, <1>9

\* The ledger is kept.
LEMMA LedgerKept ==
    ASSUME TypeOK, PermitHeld, CallsInOrder, Ledgered, [Next]_vars
    PROVE  Ledgered'
<1>1. ReplyFits' /\ BudgetFits'
    BY ReplyKept, BudgetKept DEF Ledgered
<1>2. ChargesCover' /\ WindowsBounded'
    BY CoverKept, WindowsKept
<1> QED
    BY <1>1, <1>2 DEF Ledgered

\* What the invariants say of a log entry, read off the ledger.
LEMMA LedgerTells ==
    ASSUME TypeOK, Ledgered
    PROVE  LoginsAreDebited /\ BudgetBoundsLogins
<1> USE Types, SessionConstants
<1>0. \A j \in DOMAIN log : log[j] \in Login
  <2>1. log \in Seq(Login)
      BY DEF TypeOK, Login
  <2> QED
      BY <2>1, ElementOfSeq, LenProperties
<1>1. ASSUME NEW T \in SUBSET Nat
      PROVE  InLog(T) = Cardinality({j \in DOMAIN log : log[j].at \in T}) /\ InLog(T) <= Chances(T) - AtCaller(T)
  <2>2. {j \in DOMAIN log : log[j].at \in T} = {j \in DOMAIN log : log[j] \in LoginsOf(T)}
      BY <1>0 DEF LoginsOf
  <2>3. InLog(T) \in Nat /\ InSocket(T) \in Nat /\ AtWorker(T) \in 0..1 /\ AtCaller(T) \in 0..1
      BY ChancesFit
  <2>4. InLog(T) <= Chances(T) - AtCaller(T)
      BY <2>3 DEF Chances
  <2> QED
      BY <2>2, <2>4 DEF InLog, CountIn
<1>2. \A i \in DOMAIN log : log[i].at \in Nat
    BY <1>0 DEF Login
<1>3. ASSUME NEW i \in DOMAIN log, restarts = 0, clock - log[i].at < BudgetWindow
      PROVE  Cardinality({j \in DOMAIN log : log[j].at = log[i].at})
               <= Cardinality({j \in DOMAIN login.attempts : login.attempts[j] = log[i].at})
                    + (IF market.pc = "wait" /\ market.at = log[i].at THEN 1 ELSE 0)
  <2> DEFINE t == log[i].at
  <2>1. {t} \in SUBSET Nat /\ Recent({t})
      BY <1>2, <1>3 DEF Recent
  <2>2. Chances({t}) <= LoginBudget * restarts + Debits({t})
      BY <2>1 DEF Ledgered, ChargesCover
  <2>3. LoginBudget * restarts = 0
      BY <1>3
  <2>4. Cardinality({j \in DOMAIN log : log[j].at = t}) = InLog({t})
    <3>1. {j \in DOMAIN log : log[j].at = t} = {j \in DOMAIN log : log[j].at \in {t}}
        OBVIOUS
    <3> QED
        BY <1>1, <2>1, <3>1
  <2>5. Cardinality({j \in DOMAIN login.attempts : login.attempts[j] = t}) = Charged({t})
    <3>1. {j \in DOMAIN login.attempts : login.attempts[j] = t} = {j \in DOMAIN login.attempts : login.attempts[j] \in {t}}
        OBVIOUS
    <3> QED
        BY <3>1 DEF Charged, CountIn
  <2>6. Awaited({t}) <= AtCaller({t}) + (IF market.pc = "wait" /\ market.at = t THEN 1 ELSE 0)
      BY DEF Awaited, AtCaller, One
  <2>7. /\ InLog({t}) \in Nat /\ Charged({t}) \in Nat /\ Awaited({t}) \in 0..1 /\ AtCaller({t}) \in 0..1
        /\ InLog({t}) <= Chances({t}) - AtCaller({t}) /\ Chances({t}) \in Nat
    <3> HIDE DEF t
    <3>1. /\ InLog({t}) \in Nat /\ InSocket({t}) \in Nat /\ AtWorker({t}) \in 0..1
          /\ Charged({t}) \in Nat /\ Awaited({t}) \in 0..1 /\ AtCaller({t}) \in 0..1
        BY <2>1, ChancesFit
    <3> QED
        BY <3>1 DEF Chances
  <2>8. InLog({t}) <= Charged({t}) + (IF market.pc = "wait" /\ market.at = t THEN 1 ELSE 0)
      BY <2>2, <2>3, <2>6, <2>7 DEF Debits
  <2> QED
      BY <2>4, <2>5, <2>8
<1>4. ASSUME NEW i \in DOMAIN log
      PROVE  Cardinality({j \in DOMAIN log : log[j].at <= log[i].at /\ log[i].at - log[j].at < BudgetWindow})
               <= LoginBudget * (1 + restarts)
  <2> DEFINE a == log[i].at
             T == Within(a)
  <2>1. a \in Nat /\ T \in SUBSET Nat
      BY <1>2 DEF Within
  <2>2. {j \in DOMAIN log : log[j].at <= a /\ a - log[j].at < BudgetWindow} = {j \in DOMAIN log : log[j].at \in T}
      BY <1>2 DEF Within
  <2>3. Chances(T) <= LoginBudget * (restarts + 1)
      BY <2>1 DEF Ledgered, WindowsBounded
  <2> HIDE DEF T
  <2>4. InLog(T) = Cardinality({j \in DOMAIN log : log[j].at \in T}) /\ InLog(T) <= Chances(T) - AtCaller(T)
      BY <1>1, <2>1
  <2>5. InLog(T) \in Nat /\ AtCaller(T) \in 0..1 /\ Chances(T) \in Nat
    <3>1. InLog(T) \in Nat /\ InSocket(T) \in Nat /\ AtWorker(T) \in 0..1 /\ AtCaller(T) \in 0..1
        BY <2>1, ChancesFit
    <3> QED
        BY <3>1 DEF Chances
  <2>6. restarts \in Nat /\ LoginBudget * (restarts + 1) = LoginBudget * (1 + restarts) /\ LoginBudget * (restarts + 1) \in Nat
      BY OneMoreBudget DEF TypeOK
  <2>7. InLog(T) <= LoginBudget * (1 + restarts)
      BY <2>3, <2>4, <2>5, <2>6
  <2> QED
      BY <2>2, <2>4, <2>7
<1>5. LoginsAreDebited
    BY <1>3 DEF LoginsAreDebited
<1>6. BudgetBoundsLogins
    BY <1>4 DEF BudgetBoundsLogins
<1> QED
    BY <1>5, <1>6

-----------------------------------------------------------------------------
(* Logins that follow another too soon.                                    *)

\* A cooldown has not passed since a login on record, since the read in the worker's
\* hand, since a read in the socket.
AfterLog(req, n) == \E j \in 1..n : req.at - log[j].at < LoginCooldown
AfterTaken(req) == InHand /\ req.at - worker.req.at < LoginCooldown
AfterSent(req, n) == \E j \in 1..n : queue[j].kind = "market" /\ req.at - queue[j].at < LoginCooldown

\* The logins of reads that were not admitted as a reuse and come too soon, and the
\* orphans that may still add one.
HastyLog == {i \in DOMAIN log : ~log[i].reuse /\ AfterLog(log[i], i - 1)}
HastyTaken == InHand /\ ~worker.req.live /\ ~worker.req.reuse /\ AfterLog(worker.req, Len(log))
HastySent ==
    {i \in DOMAIN queue :
        /\ queue[i].kind = "market" /\ ~queue[i].live /\ ~queue[i].reuse
        /\ AfterLog(queue[i], Len(log)) \/ AfterTaken(queue[i]) \/ AfterSent(queue[i], i - 1)}

\* The controller does not know of a login that was made, or that an orphan may make.
Forgotten ==
    \/ \E j \in DOMAIN log : log[j].at > login.lastLogin
    \/ InHand /\ ~worker.req.live /\ worker.req.at > login.lastLogin
    \/ \E j \in DOMAIN queue :
         queue[j].kind = "market" /\ ~queue[j].live /\ queue[j].at > login.lastLogin

\* The read in flight has logged in, or will be taken to have.
HasLogged ==
    /\ market.pc = "wait"
    /\ \/ InWorker /\ ~InHand
       \/ reply # NoReply /\ reply.session # "no_login"

\* Every login that comes too soon is owed to a restart of the controller, and so is
\* the one that may follow what it forgot.
TakenHaste == One(HastyTaken)
Hasty == Cardinality(HastyLog) + Cardinality(HastySent) + TakenHaste
ToForget == One(~HasLogged /\ Forgotten)
HasteOwed == Hasty + ToForget <= restarts

\* Nothing was admitted after the read admitted last, and that one, unless it is a
\* reuse, a cooldown after the login the controller knows of.
AdmittedLast ==
    /\ market.at <= clock
    /\ \A j \in DOMAIN log : log[j].at <= market.at
    /\ InHand => worker.req.at <= market.at
    /\ \A j \in DOMAIN queue : queue[j].kind = "market" => queue[j].at <= market.at
    /\ market.pc # "idle" /\ ~market.reuse =>
         login.lastLogin = None \/ market.at - login.lastLogin >= LoginCooldown
    /\ market.pc = "wait" /\ InWorker => worker.req.reuse = market.reuse
    /\ market.pc = "wait" => \A j \in DOMAIN queue : queue[j].live => queue[j].reuse = market.reuse

Unhurried == HasteOwed /\ AdmittedLast

\* What is compared is numbers.
LEMMA HasteFits ==
    ASSUME TypeOK
    PROVE  /\ Len(log) \in Nat /\ DOMAIN log = 1..Len(log) /\ log \in Seq(Login)
           /\ \A j \in DOMAIN log : log[j] \in Login /\ log[j].at \in Nat
           /\ Len(queue) \in Nat /\ DOMAIN queue = 1..Len(queue)
           /\ \A j \in DOMAIN queue : queue[j] \in Request /\ queue[j].at \in Nat
           /\ login.lastLogin \in Nat \union {-1} /\ clock \in Nat /\ market.at \in Nat
           /\ worker.req.at \in Nat /\ LoginCooldown \in Nat /\ restarts \in Nat
           /\ Cardinality(HastyLog) \in Nat /\ Cardinality(HastySent) \in Nat
           /\ HastyLog \in SUBSET (1..Len(log)) /\ HastySent \in SUBSET (1..Len(queue))
<1>1. /\ log \in Seq(Login) /\ Len(log) \in Nat /\ DOMAIN log = 1..Len(log)
      /\ queue \in Seq(Request) /\ Len(queue) \in Nat /\ DOMAIN queue = 1..Len(queue)
    BY LenProperties DEF TypeOK, Login
<1>2. \A j \in DOMAIN log : log[j] \in Login
    BY <1>1, ElementOfSeq
<1>3. \A j \in DOMAIN queue : queue[j] \in Request
    BY <1>1, ElementOfSeq
<1>4. HastyLog \in SUBSET (1..Len(log)) /\ HastySent \in SUBSET (1..Len(queue))
    BY <1>1 DEF HastyLog, HastySent
<1>5. Cardinality(HastyLog) \in Nat /\ Cardinality(HastySent) \in Nat
    BY <1>1, <1>4, PositionsCount
<1>6. (\A j \in DOMAIN log : log[j].at \in Nat) /\ (\A j \in DOMAIN queue : queue[j].at \in Nat)
    BY <1>2, <1>3 DEF Login, Request
<1>7. login.lastLogin \in Nat \union {-1} /\ restarts \in Nat
    BY SessionConstants DEF TypeOK, LiveLogin, Epoch, None
<1> QED
    BY <1>1, <1>2, <1>3, <1>4, <1>5, <1>6, <1>7, Types, SessionConstants

\* So it stays.
LEMMA HasteStaysFit ==
    ASSUME TypeOK'
    PROVE  /\ Cardinality(HastyLog)' \in Nat /\ Cardinality(HastySent)' \in Nat
           /\ HastyLog' \in SUBSET (1..Len(log')) /\ HastySent' \in SUBSET (1..Len(queue'))
           /\ Len(log') \in Nat /\ Len(queue') \in Nat /\ restarts' \in Nat
<1>1. /\ Len(log') \in Nat /\ DOMAIN log' = 1..Len(log')
      /\ Len(queue') \in Nat /\ DOMAIN queue' = 1..Len(queue')
    BY LenProperties DEF TypeOK
<1>4. HastyLog' \in SUBSET (1..Len(log')) /\ HastySent' \in SUBSET (1..Len(queue'))
    BY <1>1 DEF HastyLog, HastySent
<1>5. Cardinality(HastyLog)' \in Nat /\ Cardinality(HastySent)' \in Nat
    BY <1>1, <1>4, PositionsCount
<1> QED
    BY <1>1, <1>4, <1>5, SessionConstants DEF TypeOK

\* A subset is not counted as more.
LEMMA FewerCount ==
    ASSUME NEW n \in Nat, NEW X \in SUBSET (1..n), NEW Y \in SUBSET X
    PROVE  Cardinality(Y) <= Cardinality(X) /\ Cardinality(X) \in Nat /\ Cardinality(Y) \in Nat
<1>1. IsFiniteSet(X)
    BY PositionsCount
<1> QED
    BY <1>1, FS_Subset, FS_CardinalityType

\* When the log, the socket and the worker stay, so does what comes too soon.
LEMMA HasteStays ==
    ASSUME UNCHANGED <<log, queue, worker>>
    PROVE  /\ HastyLog' = HastyLog /\ HastySent' = HastySent /\ HastyTaken' = HastyTaken
           /\ InHand' = InHand /\ InWorker' = InWorker
           /\ login'.lastLogin = login.lastLogin => Forgotten' = Forgotten
    BY DEF HastyLog, HastySent, HastyTaken, AfterLog, AfterTaken, AfterSent, InHand, InWorker, Forgotten

\* What the controller debits is the read admitted last: it then knows of all logins.
LEMMA DebitRemembers ==
    ASSUME TypeOK, AdmittedLast, login'.lastLogin = market.at,
           \/ UNCHANGED <<log, queue, worker>>
           \/ UNCHANGED log /\ Abandoned
    PROVE  ~Forgotten'
<1> USE HasteFits
<1>1. \A j \in DOMAIN log' : ~(log'[j].at > login'.lastLogin)
    BY SMTT(30) DEF AdmittedLast
<1>2. InHand' => ~(worker'.req.at > login'.lastLogin)
  <2>1. worker'.pc = worker.pc /\ worker'.req.at = worker.req.at
      BY AbandonedFits
  <2> QED
      BY <2>1 DEF AdmittedLast, InHand
<1>3. \A j \in DOMAIN queue' : queue'[j].kind = "market" => ~(queue'[j].at > login'.lastLogin)
  <2>1. \A j \in DOMAIN queue : Orphan(queue[j]).kind = queue[j].kind /\ Orphan(queue[j]).at = queue[j].at
      BY DEF Request, Orphan
  <2>2. /\ DOMAIN queue' = DOMAIN queue
        /\ \A j \in DOMAIN queue : queue'[j].kind = queue[j].kind /\ queue'[j].at = queue[j].at
      BY <2>1, AbandonedFits DEF Abandoned
  <2> QED
      BY <2>2 DEF AdmittedLast
<1> QED
    BY <1>1, <1>2, <1>3 DEF Forgotten

-----------------------------------------------------------------------------
(* The order of admissions is kept.                                        *)

\* A finish of a read changes the bookkeeping by one login, or not.
LEMMA FinishRemembers ==
    ASSUME TypeOK, NEW outcome, NEW session, FinishMarket(outcome, session)
    PROVE  /\ market'.pc = "idle" /\ market'.at = market.at
           /\ login'.lastLogin =
                IF session = "login" \/ (session = "absent" /\ outcome \notin {"transport", "not_found"})
                THEN market.at ELSE login.lastLogin
    BY Types, FinishMarketFits DEF FinishMarket, MarketFinished, PreservesSession, LiveLogin

\* Orphans keep their place.
LEMMA OrphansStay ==
    ASSUME TypeOK, Abandoned
    PROVE  /\ DOMAIN queue' = DOMAIN queue /\ Len(queue') = Len(queue)
           /\ \A i \in DOMAIN queue :
                /\ queue'[i].kind = queue[i].kind /\ queue'[i].at = queue[i].at
                /\ queue'[i].reuse = queue[i].reuse /\ ~queue'[i].live
           /\ worker'.pc = worker.pc /\ worker'.req.at = worker.req.at
           /\ worker'.req.reuse = worker.req.reuse /\ worker'.req.kind = worker.req.kind /\ ~worker'.req.live
           /\ InHand' = InHand
<1>1. \A req \in Request : /\ Orphan(req).kind = req.kind /\ Orphan(req).at = req.at
                           /\ Orphan(req).reuse = req.reuse /\ ~Orphan(req).live
    BY DEF Request, Orphan
<1>2. \A i \in DOMAIN queue : queue'[i] = Orphan(queue[i])
    BY DEF Abandoned
<1>3. worker'.req = Orphan(worker.req) /\ worker'.pc = worker.pc
    BY Types DEF Abandoned
<1> QED
    BY <1>1, <1>2, <1>3, AbandonedFits, HasteFits, Types DEF InHand

\* Every step keeps the read admitted last the last one.
LEMMA AdmittedKept ==
    ASSUME TypeOK, PermitHeld, CallsInOrder, AdmittedLast, [Next]_vars
    PROVE  AdmittedLast'
<1>1. CASE AdmitMarket
  <2>1. /\ market'.pc = "call" /\ market'.at = clock /\ market'.reuse = ReuseEligible(login, clock)
        /\ UNCHANGED <<clock, log, queue, worker>> /\ login'.lastLogin = login.lastLogin
        /\ CooldownOver(login, clock)
      BY <1>1, Types DEF AdmitMarket, MarketAdmissible, MarketAdmitted, BudgetPruned, LiveLogin
  <2>2. InHand' = InHand
      BY <2>1 DEF InHand
  <2>3. ~market'.reuse => login'.lastLogin = None \/ market'.at - login'.lastLogin >= LoginCooldown
      BY <2>1 DEF CooldownOver
  <2> QED
      BY <2>1, <2>2, <2>3, HasteFits, SMTT(30) DEF AdmittedLast
<1>2. CASE SendMarket
  <2> DEFINE req == [kind |-> "market", at |-> market.at, reuse |-> market.reuse, live |-> TRUE]
  <2>1. /\ market.pc = "call" /\ market'.pc = "wait" /\ market'.at = market.at /\ market'.reuse = market.reuse
        /\ queue' = Append(queue, req) /\ UNCHANGED <<clock, log, worker, login>>
      BY <1>2, Types DEF SendMarket
  <2>2. req \in Request /\ req.at = market.at /\ req.reuse = market.reuse /\ queue \in Seq(Request)
      BY Types DEF Request
  <2> HIDE DEF req
  <2>3. \A j \in DOMAIN queue' : queue'[j] = req \/ (j \in DOMAIN queue /\ queue'[j] = queue[j])
      BY <2>1, <2>2, QueueFits
  <2>4. ~InWorker' /\ InHand' = InHand /\ \A j \in DOMAIN queue : ~queue[j].live
    <3>1. ~Waiting
        BY <2>1 DEF PermitHeld, Waiting
    <3> QED
        BY <2>1, <3>1 DEF CallsInOrder, InWorker, InHand
  <2>5. \A j \in DOMAIN queue' : /\ queue'[j].kind = "market" => queue'[j].at <= market.at
                                 /\ queue'[j].live => queue'[j].reuse = market.reuse
    <3> TAKE j \in DOMAIN queue'
    <3>1. CASE queue'[j] = req
        BY <2>2, <3>1, Types
    <3>2. CASE j \in DOMAIN queue /\ queue'[j] = queue[j]
        BY <2>4, <3>2 DEF AdmittedLast
    <3> QED
        BY <2>3, <3>1, <3>2
  <2> QED
      BY <2>1, <2>4, <2>5 DEF AdmittedLast
<1>3. CASE MarketUnsent \/ MarketReceives \/ MarketTimesOut
  <2>1. market'.pc = "idle" /\ market'.at = market.at /\ UNCHANGED <<clock, log>>
      BY <1>3, FinishRemembers DEF MarketUnsent, MarketReceives, MarketTimesOut
  <2>2. UNCHANGED <<queue, worker>> \/ Abandoned
      BY <1>3 DEF MarketUnsent, MarketReceives, MarketTimesOut
  <2> QED
      BY <2>1, <2>2, OrphansStay DEF AdmittedLast, InHand
<1>4. CASE UNCHANGED <<market, log>> /\ login'.lastLogin = login.lastLogin /\ clock' >= clock /\ clock' \in Nat
           /\ (UNCHANGED <<queue, worker>> \/ Abandoned)
  <2>1. CASE UNCHANGED <<queue, worker>>
      BY <1>4, <2>1, HasteFits DEF AdmittedLast, InHand, InWorker
  <2>2. CASE Abandoned
      <3>1. /\ DOMAIN queue' = DOMAIN queue /\ worker'.req.at = worker.req.at /\ ~InWorker' /\ InHand' = InHand
            /\ \A j \in DOMAIN queue : /\ queue'[j].kind = queue[j].kind /\ queue'[j].at = queue[j].at
                                       /\ ~queue'[j].live
          BY <2>2, OrphansStay DEF InWorker
      <3>2. market'.at <= clock' /\ \A j \in DOMAIN log' : log'[j].at <= market'.at
          BY <1>4, HasteFits DEF AdmittedLast
      <3>3. InHand' => worker'.req.at <= market'.at
          BY <1>4, <3>1 DEF AdmittedLast
      <3>4. \A j \in DOMAIN queue' : queue'[j].kind = "market" => queue'[j].at <= market'.at
          BY <1>4, <3>1 DEF AdmittedLast
      <3>5. market'.pc # "idle" /\ ~market'.reuse =>
              login'.lastLogin = None \/ market'.at - login'.lastLogin >= LoginCooldown
          BY <1>4 DEF AdmittedLast
      <3> QED
          BY <3>1, <3>2, <3>3, <3>4, <3>5 DEF AdmittedLast
  <2> QED
      BY <1>4, <2>1, <2>2
<1>5. CASE SendRefresh
  <2> DEFINE req == [NoRequest EXCEPT !.live = TRUE]
  <2>1. /\ queue' = Append(queue, req) /\ UNCHANGED <<clock, log, worker, login, market>> /\ refresh.pc = "call"
      BY <1>5 DEF SendRefresh
  <2>2. req \in Request /\ req.kind = "refresh" /\ queue \in Seq(Request) /\ market.pc = "idle"
      BY <2>1, Types DEF Request, NoRequest, PermitHeld
  <2> HIDE DEF req
  <2>3. \A j \in DOMAIN queue' : queue'[j] = req \/ (j \in DOMAIN queue /\ queue'[j] = queue[j])
      BY <2>1, <2>2, QueueFits
  <2> QED
      BY <2>1, <2>2, <2>3 DEF AdmittedLast, InHand
<1>6. CASE AdmitRefresh \/ RefreshReceives \/ RefreshTimesOut \/ RefreshUnsent
  <2>1. RefreshAdmitted(login).lastLogin = login.lastLogin /\ Released(login).lastLogin = login.lastLogin
      BY Types DEF RefreshAdmitted, Released, LiveLogin
  <2> QED
      BY <1>4, <1>6, <2>1, HasteFits DEF AdmitRefresh, RefreshReceives, RefreshTimesOut, RefreshUnsent, FinishRefresh
<1>7. CASE Reap \/ Tick \/ UNCHANGED vars
    BY <1>4, <1>7, HasteFits DEF Reap, Tick, vars
<1>8. CASE WorkerRestart
  <2>1. worker'.pc = "idle" /\ queue' = << >> /\ UNCHANGED <<clock, market, log, login>>
      BY <1>8 DEF WorkerRestart
  <2> QED
      BY <2>1 DEF AdmittedLast, InHand, InWorker
<1>9. CASE ControllerRestart
  <2>1. market'.pc = "idle" /\ market'.at = market.at /\ Abandoned /\ UNCHANGED <<clock, log>>
      BY <1>9, Types DEF ControllerRestart
  <2> QED
      BY <2>1, OrphansStay, SMTT(30) DEF AdmittedLast
<1>10. CASE WorkerThread
  <2>1. UNCHANGED <<clock, market, login>>
      BY <1>10, WorkerMoves
  <2>2. CASE TakeRequest
    <3>1. worker'.req = queue[1] /\ 1 \in DOMAIN queue /\ queue' = Tail(queue) /\ queue \in Seq(Request)
          /\ queue # << >> /\ UNCHANGED log
          /\ worker'.pc = IF queue[1].kind = "refresh" THEN "refresh_login"
                          ELSE IF Reuse(queue[1]) THEN "read_reused" ELSE "login"
        BY <2>2, QueueFits, Types DEF TakeRequest
    <3>2. \A j \in DOMAIN queue' : j + 1 \in DOMAIN queue /\ queue'[j] = queue[j + 1]
        BY <3>1, QueueFits
    <3>3. InHand' => queue[1].kind = "market"
        BY <3>1, HasteFits DEF InHand, Request
    <3> QED
        BY <2>1, <3>1, <3>2, <3>3 DEF AdmittedLast, InWorker
  <2>3. CASE ~TakeRequest
    <3>1. UNCHANGED queue /\ (InHand' => InHand /\ worker'.req.at = worker.req.at)
        BY <1>10, <2>3, WorkerMoves
    <3>2. \A j \in DOMAIN log' : log'[j].at <= market.at
      <4>1. CASE UNCHANGED log
          BY <4>1 DEF AdmittedLast
      <4>2. CASE InHand /\ LogLogin
        <5>1. log' = Append(log, [at |-> worker.req.at, reuse |-> worker.req.reuse])
            BY <4>2 DEF LogLogin
        <5>2. [at |-> worker.req.at, reuse |-> worker.req.reuse] \in Login
            BY Types DEF Login, Request
        <5>3. /\ DOMAIN log' = 1..(Len(log) + 1) /\ log'[Len(log) + 1].at = worker.req.at
              /\ \A i \in 1..Len(log) : log'[i] = log[i]
          <6>1. /\ log' \in Seq(Login) /\ Len(log') = Len(log) + 1
                /\ log'[Len(log) + 1] = [at |-> worker.req.at, reuse |-> worker.req.reuse]
                /\ \A i \in 1..Len(log) : log'[i] = log[i]
              BY <5>1, <5>2, AppendProperties, HasteFits
          <6> QED
              BY <6>1, LenProperties
        <5> QED
            BY <4>2, <5>3 DEF AdmittedLast
      <4> QED
          BY <1>10, <2>3, <4>1, <4>2, WorkerMoves
    <3>3. InWorker' => InWorker /\ worker'.req = worker.req
      <4>1. worker'.pc # "idle" => worker'.req = worker.req
          BY <1>10, <2>3, Types DEF WorkerThread, LoginSucceeds, LoginFails, ReadSucceeds, ReadFindsNothing,
                 ReadFails, ReadUnauthorized, RefreshLogin, RefreshFetched, Answer, Reading
      <4> QED
          BY <1>10, <2>3, <4>1, WorkerMoves DEF InWorker
    <3> QED
        BY <2>1, <3>1, <3>2, <3>3 DEF AdmittedLast
  <2> QED
      BY <2>2, <2>3
<1> QED
    BY <1>1, <1>2, <1>3, <1>5, <1>6, <1>7, <1>8, <1>9, <1>10 DEF Next, MarketThread, RefreshThread

-----------------------------------------------------------------------------
(* No step but a restart of the controller adds to what is owed.           *)

\* What comes too soon after an orphan or a login on record comes after one that the
\* controller forgot: it was admitted a cooldown after what the controller knows.
LEMMA SoonIsForgotten ==
    ASSUME TypeOK, AdmittedLast, market.pc # "idle", ~market.reuse,
           NEW at \in Nat, market.at - at < LoginCooldown
    PROVE  at > login.lastLogin
<1> USE HasteFits
<1>1. login.lastLogin = None \/ market.at - login.lastLogin >= LoginCooldown
    BY DEF AdmittedLast
<1> QED
    BY <1>1 DEF None

\* What a call that is given up may add.
Risk == One(market.pc = "wait" /\ ~HasLogged /\ Forgotten)

\* A call that is given up may come too soon, and then what it follows was forgotten.
LEMMA AbandonedHaste ==
    ASSUME TypeOK, CallsInOrder, AdmittedLast, UNCHANGED log, Abandoned
    PROVE  /\ HastyLog' = HastyLog
           /\ Hasty' <= Hasty + Risk
           /\ market.pc # "wait" /\ login'.lastLogin = login.lastLogin => Forgotten' = Forgotten
<1> USE HasteFits
<1>1. HastyLog' = HastyLog
    BY DEF HastyLog, AfterLog
<1> DEFINE After(i) == AfterLog(queue[i], Len(log)) \/ AfterTaken(queue[i]) \/ AfterSent(queue[i], i - 1)
<1>2. /\ DOMAIN queue' = DOMAIN queue /\ Len(queue') = Len(queue)
      /\ \A i \in DOMAIN queue :
           /\ queue'[i].kind = queue[i].kind /\ queue'[i].at = queue[i].at
           /\ queue'[i].reuse = queue[i].reuse /\ ~queue'[i].live
      /\ worker'.req.at = worker.req.at /\ worker'.req.reuse = worker.req.reuse /\ ~worker'.req.live
      /\ InHand' = InHand
    BY OrphansStay
<1>3. \A i \in DOMAIN queue :
        i \in HastySent' <=> queue[i].kind = "market" /\ ~queue[i].reuse /\ After(i)
  <2> SUFFICES ASSUME NEW i \in DOMAIN queue
               PROVE  (AfterLog(queue[i], Len(log)) \/ AfterTaken(queue[i]) \/ AfterSent(queue[i], i - 1))' <=> After(i)
      BY <1>2 DEF HastySent
  <2>1. AfterLog(queue[i], Len(log))' <=> AfterLog(queue[i], Len(log))
      BY <1>2 DEF AfterLog
  <2>2. AfterTaken(queue[i])' <=> AfterTaken(queue[i])
      BY <1>2 DEF AfterTaken
  <2>3. AfterSent(queue[i], i - 1)' <=> AfterSent(queue[i], i - 1)
    <3>1. \A j \in 1..(i - 1) : j \in DOMAIN queue
        OBVIOUS
    <3> QED
        BY <1>2, <3>1 DEF AfterSent
  <2> QED
      BY <2>1, <2>2, <2>3
<1>9. /\ TakenHaste \in 0..1 /\ TakenHaste' \in 0..1
      /\ Risk \in 0..1
      /\ Cardinality(HastyLog) \in Nat /\ Cardinality(HastySent) \in Nat
    BY DEF One, TakenHaste, Risk
<1>4. HastyTaken' <=> InHand /\ ~worker.req.reuse /\ AfterLog(worker.req, Len(log))
    BY <1>2 DEF HastyTaken, AfterLog
<1>5. ASSUME \A i \in DOMAIN queue : queue[i].live => queue[i].kind = "refresh"
      PROVE  Hasty' <= Hasty + Risk
  <2>1. HastySent' = HastySent
    <3>1. \A i \in DOMAIN queue : i \in HastySent' <=> i \in HastySent
        BY <1>3, <1>5 DEF HastySent
    <3>2. HastySent' \subseteq DOMAIN queue /\ HastySent \subseteq DOMAIN queue
        BY <1>2 DEF HastySent
    <3> QED
        BY <3>1, <3>2
  <2>2. CASE HastyTaken' => HastyTaken
    <3>1. TakenHaste' <= TakenHaste
        BY <2>2 DEF One, TakenHaste, Risk
    <3> QED
        BY <1>1, <1>9, <2>1, <3>1 DEF Hasty
  <2>3. CASE HastyTaken' /\ ~HastyTaken
    <3>1. worker.req.live /\ InHand /\ ~worker.req.reuse /\ AfterLog(worker.req, Len(log))
        BY <1>4, <2>3 DEF HastyTaken
    <3>2. InWorker /\ worker.req.kind # "refresh"
        BY <3>1 DEF InWorker, InHand, CallsInOrder
    <3>3. market.pc = "wait" /\ worker.req.at = market.at /\ reply = NoReply
        BY <3>2 DEF CallsInOrder, IsCall
    <3>4. ~market.reuse
        BY <3>1, <3>2, <3>3 DEF AdmittedLast
    <3>5. Forgotten
      <4>1. PICK j \in 1..Len(log) : market.at - log[j].at < LoginCooldown
          BY <3>1, <3>3 DEF AfterLog
      <4> QED
          BY <3>3, <3>4, <4>1, SoonIsForgotten DEF Forgotten
    <3>6. ~HasLogged
        BY <3>1, <3>3 DEF HasLogged
    <3>7. TakenHaste' = 1 /\ TakenHaste = 0 /\ Risk = 1
        BY <2>3, <3>3, <3>5, <3>6 DEF One, TakenHaste, Risk
    <3> QED
        BY <1>1, <1>9, <2>1, <3>7 DEF Hasty
  <2> QED
      BY <2>2, <2>3
<1>6. ASSUME \E i \in DOMAIN queue : queue[i].live /\ queue[i].kind # "refresh"
      PROVE  Hasty' <= Hasty + Risk
  <2> DEFINE n == Len(queue)
  <2>1. n \in DOMAIN queue /\ queue[n].live /\ queue[n].kind # "refresh"
      BY <1>6 DEF CallsInOrder
  <2>2. /\ reply = NoReply /\ ~InWorker /\ market.pc = "wait" /\ queue[n].at = market.at
        /\ \A i \in DOMAIN queue : queue[i].live => i = n
      BY <2>1 DEF CallsInOrder, IsCall
  <2>3. InHand => ~worker.req.live
      BY <2>2 DEF InWorker, InHand
  <2>4. HastyTaken' <=> HastyTaken
      BY <1>4, <2>3 DEF HastyTaken
  <2>5. /\ \A i \in 1..(n - 1) : i \in HastySent' <=> i \in HastySent
        /\ n \notin HastySent /\ HastySent \in SUBSET (1..(n - 1))
    <3>1. \A i \in 1..(n - 1) : i \in DOMAIN queue /\ ~queue[i].live
        BY <2>2
    <3>2. \A i \in 1..(n - 1) : i \in HastySent' <=> i \in HastySent
        BY <1>3, <3>1 DEF HastySent
    <3>3. n \notin HastySent
        BY <2>1 DEF HastySent
    <3> QED
        BY <3>2, <3>3
  <2>6. CASE n \notin HastySent'
    <3>1. HastySent' = HastySent
      <4>1. HastySent' \subseteq 1..n
          BY <1>2 DEF HastySent
      <4>0. n \in Nat
          OBVIOUS
      <4>2. \A i \in 1..n : i = n \/ i \in 1..(n - 1)
        <5> HIDE DEF n
        <5> QED
          BY <4>0
      <4> HIDE DEF n
      <4> QED
          BY <2>5, <2>6, <4>1, <4>2
    <3>2. TakenHaste' = TakenHaste
        BY <2>4 DEF One, TakenHaste, Risk
    <3> QED
        BY <1>1, <1>9, <3>1, <3>2 DEF Hasty
  <2>7. CASE n \in HastySent'
    <3>1. ~queue[n].reuse /\ After(n)
        BY <1>3, <2>1, <2>7
    <3>2. ~market.reuse
        BY <2>1, <2>2, <3>1 DEF AdmittedLast
    <3>3. Forgotten
      <4>1. CASE AfterLog(queue[n], Len(log))
          BY <2>2, <3>2, <4>1, SoonIsForgotten DEF AfterLog, Forgotten
      <4>2. CASE AfterTaken(queue[n])
          BY <2>2, <2>3, <3>2, <4>2, SoonIsForgotten DEF AfterTaken, Forgotten
      <4>3. CASE AfterSent(queue[n], n - 1)
        <5>1. PICK j \in 1..(n - 1) : queue[j].kind = "market" /\ market.at - queue[j].at < LoginCooldown
            BY <2>2, <4>3 DEF AfterSent
        <5>2. j \in DOMAIN queue /\ ~queue[j].live
            BY <2>2
        <5> QED
            BY <2>2, <3>2, <5>1, <5>2, SoonIsForgotten DEF Forgotten
      <4> QED
          BY <3>1, <4>1, <4>2, <4>3
    <3>4. ~HasLogged
        BY <2>2 DEF HasLogged
    <3>5. HastySent' = HastySent \union {(n - 1) + 1}
      <4>1. HastySent' \subseteq 1..n
          BY <1>2 DEF HastySent
      <4>2. n \in Nat
          OBVIOUS
      <4> HIDE DEF n
      <4>3. (n - 1) + 1 = n /\ \A i \in 1..n : i = n \/ i \in 1..(n - 1)
          BY ONLY <4>2
      <4> QED
          BY <2>1, <2>5, <2>7, <4>1, <4>3
    <3>6. Cardinality(HastySent') = Cardinality(HastySent) + 1
      <4>1. n - 1 \in Nat
          BY <2>1
      <4> HIDE DEF n
      <4> QED
          BY <2>5, <3>5, <4>1, PositionsCount
    <3>7. TakenHaste' = TakenHaste /\ Risk = 1
      <4>1. TakenHaste' = TakenHaste
          BY <2>4 DEF One, TakenHaste, Risk
      <4>2. Risk = 1
          BY <2>2, <3>3, <3>4 DEF One, TakenHaste, Risk
      <4> QED
          BY <4>1, <4>2
    <3> QED
        BY <1>1, <1>9, <3>6, <3>7 DEF Hasty
  <2> QED
      BY <2>2, <2>6, <2>7
<1>7. ASSUME market.pc # "wait", login'.lastLogin = login.lastLogin
      PROVE  Forgotten' = Forgotten
  <2>1. \A i \in DOMAIN queue : queue[i].kind = "market" => ~queue[i].live
      BY <1>7 DEF CallsInOrder, IsCall
  <2>2. InHand => ~worker.req.live
      BY <1>7 DEF InHand, InWorker, CallsInOrder, IsCall
  <2> QED
      BY <1>2, <1>7, <2>1, <2>2 DEF Forgotten
<1>8. Hasty' <= Hasty + Risk
  <2>1. \A i \in DOMAIN queue : queue[i].kind \in {"market", "refresh"}
      BY DEF Request
  <2> QED
      BY <1>5, <1>6, <2>1
<1> QED
    BY <1>1, <1>7, <1>8

\* The read that is taken is the oldest one; the rest of the socket is as before.
LEMMA TakeHaste ==
    ASSUME TypeOK, CallsInOrder, TakeRequest
    PROVE  Hasty' = Hasty /\ Forgotten' = Forgotten
<1> USE HasteFits
<1> DEFINE n == Len(queue)
<1>1. /\ worker.pc = "idle" /\ queue # << >> /\ queue' = Tail(queue) /\ worker'.req = queue[1]
      /\ worker'.pc = IF queue[1].kind = "refresh" THEN "refresh_login"
                      ELSE IF Reuse(queue[1]) THEN "read_reused" ELSE "login"
      /\ UNCHANGED <<log, login>> /\ 1 \in DOMAIN queue
    BY QueueFits, Types, SMTT(30) DEF TakeRequest
<1>2. /\ n \in Nat \ {0} /\ DOMAIN queue' = 1..(n - 1)
      /\ \A i \in 1..(n - 1) : i + 1 \in DOMAIN queue /\ queue'[i] = queue[i + 1]
    BY <1>1, QueueFits, Types, SMTT(30)
<1>3. ~InHand /\ (InHand' <=> queue[1].kind = "market")
    BY <1>1 DEF InHand, Request
<1>4. HastyLog' = HastyLog
    BY <1>1 DEF HastyLog, AfterLog
<1>5. HastyTaken' <=> 1 \in HastySent
  <2>1. HastyTaken' <=> /\ queue[1].kind = "market" /\ ~queue[1].live /\ ~queue[1].reuse
                        /\ AfterLog(queue[1], Len(log))
      BY <1>1, <1>3 DEF HastyTaken, AfterLog
  <2>2. ~AfterTaken(queue[1])
      BY <1>3 DEF AfterTaken
  <2>3. ~AfterSent(queue[1], 1 - 1)
      BY DEF AfterSent
  <2> QED
      BY <1>1, <2>1, <2>2, <2>3 DEF HastySent
<1>6. ~HastyTaken
    BY <1>3 DEF HastyTaken
<1>7. \A i \in 1..(n - 1) : i \in HastySent' <=> i + 1 \in HastySent
  <2> SUFFICES ASSUME NEW i \in 1..(n - 1)
               PROVE  i \in HastySent' <=> i + 1 \in HastySent
      OBVIOUS
  <2>1. AfterLog(queue[i], Len(log))' <=> AfterLog(queue[i + 1], Len(log))
      BY <1>1, <1>2 DEF AfterLog
  <2>2. (AfterTaken(queue[i])' \/ AfterSent(queue[i], i - 1)') <=> AfterSent(queue[i + 1], (i + 1) - 1)
    <3>1. AfterTaken(queue[i])' <=> queue[1].kind = "market" /\ queue[i + 1].at - queue[1].at < LoginCooldown
        BY <1>1, <1>2, <1>3 DEF AfterTaken
    <3>2. AfterSent(queue[i], i - 1)' <=>
            \E j \in 1..(i - 1) : queue[j + 1].kind = "market" /\ queue[i + 1].at - queue[j + 1].at < LoginCooldown
      <4>1. \A j \in 1..(i - 1) : j \in 1..(n - 1)
          BY <1>2
      <4> QED
          BY <1>2, <4>1 DEF AfterSent
    <3>3. \A j \in 1..((i + 1) - 1) : j = 1 \/ j - 1 \in 1..(i - 1)
        BY <1>2
    <3>4. \A j \in 1..(i - 1) : j + 1 \in 1..((i + 1) - 1)
        BY <1>2
    <3>5. 1 \in 1..((i + 1) - 1)
        BY <1>2
    <3>6. ASSUME AfterSent(queue[i + 1], (i + 1) - 1)
          PROVE  AfterTaken(queue[i])' \/ AfterSent(queue[i], i - 1)'
      <4>1. PICK j \in 1..((i + 1) - 1) : queue[j].kind = "market" /\ queue[i + 1].at - queue[j].at < LoginCooldown
          BY <3>6 DEF AfterSent
      <4>2. CASE j = 1
          BY <3>1, <4>1, <4>2
      <4>3. CASE j - 1 \in 1..(i - 1)
        <5>1. (j - 1) + 1 = j
            BY <1>2, <4>1
        <5> QED
            BY <3>2, <4>1, <4>3, <5>1
      <4> QED
          BY <3>3, <4>2, <4>3
    <3> QED
        BY <3>1, <3>2, <3>4, <3>5, <3>6 DEF AfterSent
  <2>3. ~AfterTaken(queue[i + 1])
      BY <1>3 DEF AfterTaken
  <2> QED
      BY <1>2, <2>1, <2>2, <2>3 DEF HastySent
<1>8. Cardinality(HastySent) = One(1 \in HastySent) + Cardinality(HastySent')
  <2>1. HastySent' = {i \in 1..(n - 1) : i + 1 \in HastySent}
    <3>1. HastySent' \subseteq 1..(n - 1)
        BY <1>2 DEF HastySent
    <3> QED
        BY <1>7, <3>1
  <2>2. HastySent \in SUBSET (1..n) /\ 1 \in 0..n /\ n \in Nat
      BY <1>2
  <2> HIDE DEF n
  <2>3. Cardinality(HastySent) = Cardinality(HastySent \intersect (1..1)) + Cardinality({i \in 1..(n - 1) : i + 1 \in HastySent})
      BY <2>2, ShiftCount
  <2>4. Cardinality(HastySent \intersect (1..1)) = One(1 \in HastySent)
    <3>1. HastySent \intersect (1..1) = IF 1 \in HastySent THEN {1} ELSE {}
        OBVIOUS
    <3>2. Cardinality({1}) = 1 /\ Cardinality({}) = 0
        BY FS_Singleton, FS_EmptySet
    <3> QED
        BY <3>1, <3>2 DEF One
  <2> QED
      BY <2>1, <2>3, <2>4
<1>9. TakenHaste' = One(1 \in HastySent) /\ TakenHaste = 0
    BY <1>5, <1>6 DEF TakenHaste, One
<1>10. One(1 \in HastySent) \in 0..1 /\ Cardinality(HastySent') \in Nat
  <2>1. TypeOK'
      BY WorkerTypes DEF WorkerThread
  <2> QED
      BY <2>1, HasteStaysFit DEF One
<1>11. Hasty' = Hasty
    BY <1>4, <1>8, <1>9, <1>10 DEF Hasty
<1>12. Forgotten' = Forgotten
  <2>1. (\E j \in DOMAIN queue : queue[j].kind = "market" /\ ~queue[j].live /\ queue[j].at > login.lastLogin)
          <=> \/ queue[1].kind = "market" /\ ~queue[1].live /\ queue[1].at > login.lastLogin
              \/ \E j \in DOMAIN queue' : queue'[j].kind = "market" /\ ~queue'[j].live /\ queue'[j].at > login.lastLogin
    <3>1. \A j \in DOMAIN queue : j = 1 \/ (j - 1 \in DOMAIN queue' /\ queue'[j - 1] = queue[j])
      <4> SUFFICES ASSUME NEW j \in 1..n, j # 1 PROVE j - 1 \in DOMAIN queue' /\ queue'[j - 1] = queue[j]
          OBVIOUS
      <4>1. j - 1 \in 1..(n - 1) /\ (j - 1) + 1 = j
          BY <1>2
      <4> QED
          BY <1>2, <4>1
    <3>2. \A j \in DOMAIN queue' : j + 1 \in DOMAIN queue /\ queue'[j] = queue[j + 1]
        BY <1>2
    <3> HIDE DEF n
    <3>3. ASSUME NEW j \in DOMAIN queue,
                 queue[j].kind = "market" /\ ~queue[j].live /\ queue[j].at > login.lastLogin
          PROVE  \/ queue[1].kind = "market" /\ ~queue[1].live /\ queue[1].at > login.lastLogin
                 \/ \E i \in DOMAIN queue' : queue'[i].kind = "market" /\ ~queue'[i].live /\ queue'[i].at > login.lastLogin
      <4>1. CASE j = 1
          BY <3>3, <4>1
      <4>2. CASE j - 1 \in DOMAIN queue' /\ queue'[j - 1] = queue[j]
          BY <3>3, <4>2
      <4> QED
          BY <3>1, <4>1, <4>2
    <3>4. ASSUME NEW j \in DOMAIN queue',
                 queue'[j].kind = "market" /\ ~queue'[j].live /\ queue'[j].at > login.lastLogin
          PROVE  \E i \in DOMAIN queue : queue[i].kind = "market" /\ ~queue[i].live /\ queue[i].at > login.lastLogin
        BY <3>2, <3>4
    <3> QED
        BY <1>1, <3>3, <3>4
  <2>2. UNCHANGED <<log, login>>
      BY <1>1
  <2> QED
      BY <1>1, <1>3, <2>1, <2>2 DEF Forgotten
<1> QED
    BY <1>11, <1>12

\* A login that comes too soon is one of an orphan, which was counted before, or of a
\* read after what the controller forgot; and that read makes it known.
LEMMA LoginHaste ==
    ASSUME TypeOK, CallsInOrder, AdmittedLast, WorkerThread, ~TakeRequest,
           InHand, ~InHand', LogLogin, UNCHANGED queue
    PROVE  Hasty' + ToForget' <= Hasty + ToForget
<1> USE HasteFits
<1> DEFINE n == Len(log)
           late == ~worker.req.reuse /\ AfterLog(worker.req, n)
<1>1. /\ UNCHANGED <<login, market, restarts>>
      /\ worker.pc # "idle" /\ worker.req.kind = "market"
      /\ worker.req.live => reply' # NoReply \/ (worker'.pc # "idle" /\ worker'.req.live)
      /\ reply' # reply => reply'.session # "no_login"
  <2>1. worker.pc # "idle" /\ worker.req.kind = "market"
      BY Types DEF InHand, CallsInOrder, Request
  <2>2. log' # log
    <3>1. log' = Append(log, [at |-> worker.req.at, reuse |-> worker.req.reuse])
        BY DEF LogLogin
    <3>2. [at |-> worker.req.at, reuse |-> worker.req.reuse] \in Login
        BY Types DEF Login, Request
    <3>3. Len(log') = Len(log) + 1
        BY <3>1, <3>2, AppendProperties
    <3> QED
        BY <3>3
  <2>3. reply' # reply => reply'.session # "no_login"
      BY <2>2, WorkerMoves
  <2>4. /\ UNCHANGED <<login, market, restarts>>
        /\ worker.req.live => reply' # NoReply \/ (worker'.pc # "idle" /\ worker'.req.live)
      BY WorkerMoves
  <2> QED
      BY <2>1, <2>3, <2>4
<1>2. /\ DOMAIN log' = 1..(n + 1) /\ n \in Nat /\ DOMAIN log = 1..n
      /\ log'[n + 1].at = worker.req.at /\ log'[n + 1].reuse = worker.req.reuse
      /\ \A i \in 1..n : log'[i] = log[i]
  <2>1. log' = Append(log, [at |-> worker.req.at, reuse |-> worker.req.reuse])
      BY DEF LogLogin
  <2>2. [at |-> worker.req.at, reuse |-> worker.req.reuse] \in Login
      BY Types DEF Login, Request
  <2>3. /\ log' \in Seq(Login) /\ Len(log') = Len(log) + 1
        /\ log'[Len(log) + 1] = [at |-> worker.req.at, reuse |-> worker.req.reuse]
        /\ \A i \in 1..Len(log) : log'[i] = log[i]
      BY <2>1, <2>2, AppendProperties
  <2> QED
      BY <2>3, LenProperties
<1>3. HastyLog' = HastyLog \union (IF late THEN {n + 1} ELSE {})
  <2>1. \A i \in 1..n : AfterLog(log[i], i - 1)' <=> AfterLog(log[i], i - 1)
    <3> SUFFICES ASSUME NEW i \in 1..n PROVE AfterLog(log[i], i - 1)' <=> AfterLog(log[i], i - 1)
        OBVIOUS
    <3>1. \A j \in 1..(i - 1) : j \in 1..n
        BY <1>2
    <3> QED
        BY <1>2, <3>1 DEF AfterLog
  <2>2. \A i \in {n + 1} : AfterLog(log[i], i - 1)' <=> AfterLog(worker.req, n)
    <3> SUFFICES ASSUME NEW i \in {n + 1} PROVE AfterLog(log[i], i - 1)' <=> AfterLog(worker.req, n)
        OBVIOUS
    <3>1. i - 1 = n /\ \A j \in 1..n : log'[i].at - log'[j].at = worker.req.at - log[j].at
        BY <1>2
    <3>2. AfterLog(log[i], i - 1)' <=> \E j \in 1..(i - 1) : log'[i].at - log'[j].at < LoginCooldown
        BY DEF AfterLog
    <3> QED
        BY <3>1, <3>2 DEF AfterLog
  <2>3. \A i \in 1..(n + 1) : i \in 1..n \/ i = n + 1
      BY <1>2
  <2>4. (n + 1) - 1 = n /\ n + 1 \in 1..(n + 1) /\ n + 1 \notin 1..n /\ \A i \in 1..n : i \in 1..(n + 1)
      BY <1>2
  <2> HIDE DEF n
  <2> QED
      BY <1>2, <2>1, <2>2, <2>3, <2>4 DEF HastyLog
<1>4. Cardinality(HastyLog') = Cardinality(HastyLog) + One(late)
  <2>1. Cardinality(HastyLog \union {n + 1}) = Cardinality(HastyLog) + 1
      BY PositionsCount
  <2>2. HastyLog \union {} = HastyLog
      OBVIOUS
  <2>3. CASE late
    <3> HIDE DEF n, late
    <3> QED
      BY <1>3, <2>1, <2>3 DEF One
  <2>4. CASE ~late
    <3>1. One(late) = 0
        BY <2>4 DEF One
    <3> HIDE DEF n, late
    <3> QED
      BY <1>3, <2>2, <2>4, <3>1
  <2> QED
      BY <2>3, <2>4
<1>5. HastySent' = HastySent
  <2>1. \A i \in DOMAIN queue :
          (AfterLog(queue[i], Len(log)) \/ AfterTaken(queue[i]))'
            <=> (AfterLog(queue[i], Len(log)) \/ AfterTaken(queue[i]))
    <3> SUFFICES ASSUME NEW i \in DOMAIN queue
                 PROVE  (AfterLog(queue[i], Len(log)) \/ AfterTaken(queue[i]))'
                          <=> (AfterLog(queue[i], Len(log)) \/ AfterTaken(queue[i]))
        OBVIOUS
    <3>1. Len(log') = n + 1
        BY <1>2, WorkerTypes, HasteStaysFit DEF TypeOK
    <3>2. AfterLog(queue[i], Len(log))' <=>
            \E j \in 1..(n + 1) : queue[i].at - log'[j].at < LoginCooldown
        BY <3>1 DEF AfterLog
    <3>3. (\E j \in 1..(n + 1) : queue[i].at - log'[j].at < LoginCooldown)
            <=> AfterLog(queue[i], n) \/ queue[i].at - worker.req.at < LoginCooldown
      <4>1. \A j \in 1..(n + 1) : j \in 1..n \/ j = n + 1
          BY <1>2
      <4>2. n + 1 \in 1..(n + 1) /\ \A j \in 1..n : j \in 1..(n + 1)
          BY <1>2
      <4> HIDE DEF n
      <4> QED
          BY <1>2, <4>1, <4>2 DEF AfterLog
    <3>4. AfterTaken(queue[i]) <=> queue[i].at - worker.req.at < LoginCooldown
        BY DEF AfterTaken
    <3>5. ~AfterTaken(queue[i])'
        BY DEF AfterTaken
    <3> QED
        BY <3>2, <3>3, <3>4, <3>5
  <2>2. \A i \in DOMAIN queue : AfterSent(queue[i], i - 1)' <=> AfterSent(queue[i], i - 1)
      BY DEF AfterSent
  <2> QED
      BY <2>1, <2>2 DEF HastySent
<1>6. ~HastyTaken' /\ TakenHaste' = 0
    BY DEF HastyTaken, TakenHaste, One
<1>7. /\ One(late) \in 0..1 /\ TakenHaste \in 0..1 /\ ToForget \in 0..1 /\ ToForget' \in 0..1
      /\ Hasty' = Cardinality(HastyLog) + One(late) + Cardinality(HastySent)
    BY <1>4, <1>5, <1>6 DEF One, TakenHaste, ToForget, Hasty
<1>8. ~HasLogged
    BY <1>1 DEF HasLogged, CallsInOrder
<1>9. CASE worker.req.live
  <2>1. market.pc = "wait" /\ worker.req.at = market.at /\ reply = NoReply /\ InWorker
      BY <1>1, <1>9 DEF CallsInOrder, InWorker, IsCall
  <2>2. HasLogged' /\ ToForget' = 0
    <3>1. reply' # NoReply => reply'.session # "no_login"
        BY <1>1, <2>1
    <3>2. (worker'.pc # "idle" /\ worker'.req.live) => InWorker'
        BY DEF InWorker
    <3>3. market'.pc = "wait"
        BY <1>1, <2>1
    <3>4. HasLogged'
        BY <1>1, <1>9, <3>1, <3>2, <3>3 DEF HasLogged, NoReply, Reply
    <3> QED
        BY <3>4 DEF ToForget, One
  <2>3. ASSUME late PROVE ToForget = 1
    <3>1. PICK j \in 1..n : market.at - log[j].at < LoginCooldown
        BY <2>1, <2>3 DEF AfterLog
    <3>2. ~market.reuse
        BY <2>1, <2>3 DEF AdmittedLast
    <3>3. log[j].at > login.lastLogin
        BY <2>1, <3>1, <3>2, SoonIsForgotten
    <3> QED
        BY <1>8, <3>3 DEF Forgotten, ToForget, One
  <2>4. One(late) <= ToForget
      BY <1>7, <2>3 DEF One
  <2> QED
      BY <1>7, <2>2, <2>4, SMTT(30) DEF Hasty
<1>10. CASE ~worker.req.live
  <2>1. HastyTaken <=> late
      BY <1>10 DEF HastyTaken
  <2>2. TakenHaste = One(late)
      BY <2>1 DEF TakenHaste, One
  <2>3. Forgotten' => Forgotten
    <3>1. \A j \in 1..(n + 1) : j \in 1..n \/ j = n + 1
        BY <1>2
    <3>2. (\E j \in DOMAIN log' : log'[j].at > login.lastLogin)
            => (\E j \in DOMAIN log : log[j].at > login.lastLogin) \/ worker.req.at > login.lastLogin
      <4> HIDE DEF n
      <4> QED
          BY <1>2, <3>1
    <3> QED
        BY <1>1, <1>10, <3>2 DEF Forgotten
  <2>4. ToForget' <= ToForget
      BY <1>8, <2>3 DEF ToForget, One
  <2> QED
      BY <1>7, <2>2, <2>4 DEF Hasty
<1> QED
    BY <1>9, <1>10

\* No more is owed when nothing new is counted and nothing more is to be forgotten.
LEMMA HasteShrinks ==
    ASSUME TypeOK, TypeOK', HastyLog' = HastyLog, HastySent' \subseteq HastySent,
           HastyTaken' => HastyTaken, ~HasLogged' /\ Forgotten' => ~HasLogged /\ Forgotten
    PROVE  Hasty' + ToForget' <= Hasty + ToForget
<1>1. HastySent' \in SUBSET HastySent
    OBVIOUS
<1>2. Cardinality(HastySent') <= Cardinality(HastySent)
    BY <1>1, HasteFits, FewerCount
<1>3. TakenHaste' <= TakenHaste /\ ToForget' <= ToForget
    BY DEF TakenHaste, ToForget, One
<1>4. /\ TakenHaste \in 0..1 /\ TakenHaste' \in 0..1 /\ ToForget \in 0..1 /\ ToForget' \in 0..1
    BY DEF TakenHaste, ToForget, One
<1>5. /\ Cardinality(HastyLog) \in Nat /\ Cardinality(HastySent) \in Nat
      /\ Cardinality(HastySent') \in Nat
    BY HasteFits, HasteStaysFit
<1> QED
    BY <1>2, <1>3, <1>4, <1>5, SMTT(30) DEF Hasty

\* What is owed is counted.
LEMMA OwedFits ==
    ASSUME TypeOK
    PROVE  Hasty \in Nat /\ ToForget \in 0..1
<1>1. TakenHaste \in 0..1 /\ ToForget \in 0..1
    BY DEF TakenHaste, ToForget, One
<1> QED
    BY <1>1, HasteFits DEF Hasty

\* It stays so.
LEMMA OwedStaysFit ==
    ASSUME TypeOK'
    PROVE  Hasty' \in Nat /\ ToForget' \in 0..1
<1>1. TakenHaste' \in 0..1 /\ ToForget' \in 0..1
    BY DEF TakenHaste, ToForget, One
<1>2. Cardinality(HastyLog') \in Nat /\ Cardinality(HastySent') \in Nat
    BY HasteStaysFit
<1>3. Hasty' = Cardinality(HastyLog') + Cardinality(HastySent') + TakenHaste'
    BY DEF Hasty
<1> QED
    BY <1>1, <1>2, <1>3

\* A request with a caller is not counted when it is sent.
LEMMA SendHaste ==
    ASSUME TypeOK, NEW req \in Request, req.live, queue' = Append(queue, req),
           UNCHANGED <<log, worker>>, login'.lastLogin = login.lastLogin
    PROVE  /\ HastyLog' = HastyLog /\ HastySent' = HastySent /\ HastyTaken' = HastyTaken
           /\ Forgotten' => Forgotten
<1> USE HasteFits
<1> DEFINE n == Len(queue)
<1>1. /\ n \in Nat /\ DOMAIN queue = 1..n /\ DOMAIN queue' = 1..(n + 1) /\ queue'[n + 1] = req
      /\ \A i \in 1..n : queue'[i] = queue[i]
    BY QueueFits, Types, SMTT(30)
<1>2. \A i \in 1..(n + 1) : i \in 1..n \/ i = n + 1
    BY <1>1
<1>3. \A i \in 1..n : i \in 1..(n + 1)
    BY <1>1
<1>4. HastyLog' = HastyLog /\ HastyTaken' = HastyTaken /\ InHand' = InHand
    BY DEF HastyLog, HastyTaken, AfterLog, InHand
<1>5. \A i \in 1..n : i \in HastySent' <=> i \in HastySent
  <2> SUFFICES ASSUME NEW i \in 1..n PROVE i \in HastySent' <=> i \in HastySent
      OBVIOUS
  <2>1. AfterLog(queue[i], Len(log))' <=> AfterLog(queue[i], Len(log))
      BY <1>1 DEF AfterLog
  <2>2. AfterTaken(queue[i])' <=> AfterTaken(queue[i])
      BY <1>1, <1>4 DEF AfterTaken
  <2>3. AfterSent(queue[i], i - 1)' <=> AfterSent(queue[i], i - 1)
    <3>1. \A j \in 1..(i - 1) : j \in 1..n
        BY <1>1
    <3> QED
        BY <1>1, <3>1 DEF AfterSent
  <2> QED
      BY <1>1, <1>3, <2>1, <2>2, <2>3 DEF HastySent
<1>6. n + 1 \notin HastySent' /\ n + 1 \notin HastySent
    BY <1>1 DEF HastySent
<1>7. HastySent' = HastySent
  <2>1. HastySent' \subseteq 1..(n + 1) /\ HastySent \subseteq 1..n
      BY <1>1 DEF HastySent
  <2> HIDE DEF n
  <2> QED
      BY <1>2, <1>3, <1>5, <1>6, <2>1
<1>8. Forgotten' => Forgotten
  <2>1. ASSUME NEW j \in DOMAIN queue', ~queue'[j].live
        PROVE  j \in DOMAIN queue /\ queue'[j] = queue[j]
      BY <1>1, <1>2, <2>1
  <2> QED
      BY <1>4, <2>1 DEF Forgotten
<1> QED
    BY <1>4, <1>7, <1>8

\* The restarts allow for what is owed when no more is owed than before.
LEMMA OwedKept ==
    ASSUME TypeOK, TypeOK', HasteOwed, UNCHANGED restarts, Hasty' + ToForget' <= Hasty + ToForget
    PROVE  HasteOwed'
<1>1. PICK hasty \in Nat : hasty = Hasty'
    BY OwedStaysFit
<1>2. PICK toForget \in Nat : toForget = ToForget'
    BY OwedStaysFit
<1>3. hasty + toForget <= Hasty + ToForget
    BY <1>1, <1>2, Zenon
<1>4. hasty + toForget <= restarts
    BY <1>3, OwedFits, HasteFits DEF HasteOwed
<1>5. hasty + toForget <= restarts'
    BY <1>4
<1>6. Hasty' + ToForget' <= restarts'
    BY <1>1, <1>2, <1>5, Zenon
<1> QED
    BY <1>6 DEF HasteOwed

\* The market thread owes no more: what it debits it remembers.
LEMMA MarketHaste ==
    ASSUME TypeOK, TypeOK', CallsInOrder, ReplyFits, Unhurried, MarketThread
    PROVE  HasteOwed'
<1>1. UNCHANGED restarts /\ AdmittedLast /\ Hasty + ToForget <= restarts
    BY DEF MarketThread, AdmitMarket, SendMarket, MarketUnsent, MarketReceives, MarketTimesOut,
           Unhurried, HasteOwed
<1>2. SUFFICES Hasty' + ToForget' <= Hasty + ToForget
    BY <1>1, OwedKept DEF HasteOwed
<1>3. CASE AdmitMarket
  <2>1. /\ UNCHANGED <<log, queue, worker>> /\ login'.lastLogin = login.lastLogin
        /\ market.pc = "idle"
      BY <1>3, Types DEF AdmitMarket, MarketAdmitted, BudgetPruned, LiveLogin
  <2>2. ~HasLogged
      BY <2>1 DEF HasLogged
  <2> QED
      BY <2>1, <2>2, HasteStays, HasteShrinks
<1>4. CASE SendMarket
  <2> DEFINE req == [kind |-> "market", at |-> market.at, reuse |-> market.reuse, live |-> TRUE]
  <2>1. /\ queue' = Append(queue, req) /\ UNCHANGED <<log, worker, login>> /\ market.pc = "call"
        /\ req \in Request /\ req.live
      BY <1>4, Types DEF SendMarket, Request
  <2>2. ~HasLogged
      BY <2>1 DEF HasLogged
  <2> HIDE DEF req
  <2> QED
      BY <2>1, <2>2, SendHaste, HasteShrinks
<1>5. CASE MarketUnsent
  <2>1. FinishMarket("transport", "absent") /\ UNCHANGED <<log, queue, worker>> /\ market.pc = "call"
      BY <1>5 DEF MarketUnsent
  <2>2. login'.lastLogin = login.lastLogin
      BY <2>1, FinishRemembers
  <2>3. ~HasLogged
      BY <2>1 DEF HasLogged
  <2> QED
      BY <2>1, <2>2, <2>3, HasteStays, HasteShrinks
<1>6. CASE MarketReceives
  <2>1. /\ FinishMarket(reply.outcome, reply.session) /\ UNCHANGED <<log, queue, worker>>
        /\ market.pc = "wait" /\ reply # NoReply
      BY <1>6 DEF MarketReceives
  <2>2. HastyLog' = HastyLog /\ HastySent' = HastySent /\ HastyTaken' = HastyTaken
      BY <2>1, HasteStays
  <2>3. CASE reply.session = "no_login"
    <3>1. login'.lastLogin = login.lastLogin
        BY <2>1, <2>3, FinishRemembers
    <3>2. ~HasLogged
        BY <2>1, <2>3 DEF HasLogged, CallsInOrder, InWorker
    <3> QED
        BY <2>1, <2>2, <3>1, <3>2, HasteStays, HasteShrinks
  <2>4. CASE reply.session # "no_login"
    <3>1. login'.lastLogin = market.at
      <4>1. reply.session \in {"absent", "login"}
          BY <2>1, <2>4 DEF TypeOK
      <4> QED
          BY <2>1, <4>1, FinishRemembers DEF ReplyFits
    <3>2. ~Forgotten'
        BY <1>1, <2>1, <3>1, DebitRemembers
    <3> QED
        BY <2>2, <3>2, HasteShrinks
  <2> QED
      BY <2>3, <2>4
<1>7. CASE MarketTimesOut
  <2>1. FinishMarket("internal", "absent") /\ Abandoned /\ UNCHANGED log
      BY <1>7 DEF MarketTimesOut
  <2>2. ~Forgotten'
    <3>1. login'.lastLogin = market.at
        BY <2>1, FinishRemembers
    <3> QED
        BY <1>1, <2>1, <3>1, DebitRemembers
  <2>3. ToForget' = 0
      BY <2>2 DEF ToForget, One
  <2>4. Risk <= ToForget /\ Risk \in 0..1 /\ ToForget \in 0..1
      BY DEF Risk, ToForget, One
  <2>5. Hasty' <= Hasty + Risk
      BY <1>1, <2>1, AbandonedHaste
  <2>6. PICK hasty \in Nat : hasty = Hasty'
      BY OwedStaysFit
  <2>7. PICK toForget \in Nat : toForget = ToForget'
      BY OwedStaysFit
  <2>8. hasty + toForget <= Hasty + ToForget
      BY <2>3, <2>4, <2>5, <2>6, <2>7, OwedFits
  <2> QED
      BY <2>6, <2>7, <2>8, Zenon
<1> QED
    BY <1>3, <1>4, <1>5, <1>6, <1>7 DEF MarketThread

\* Nor does the refresh thread: no read is in flight.
LEMMA RefreshHaste ==
    ASSUME TypeOK, TypeOK', PermitHeld, CallsInOrder, Unhurried, RefreshThread
    PROVE  HasteOwed'
<1>1. /\ UNCHANGED <<restarts, market, log>> /\ AdmittedLast /\ HasteOwed
      /\ login'.lastLogin = login.lastLogin
  <2>1. RefreshAdmitted(login).lastLogin = login.lastLogin /\ Released(login).lastLogin = login.lastLogin
      BY Types DEF RefreshAdmitted, Released, LiveLogin
  <2> QED
      BY <2>1 DEF RefreshThread, AdmitRefresh, SendRefresh, RefreshUnsent, RefreshReceives,
                  RefreshTimesOut, FinishRefresh, Unhurried
<1>2. SUFFICES Hasty' + ToForget' <= Hasty + ToForget
    BY <1>1, OwedKept
<1>3. CASE AdmitRefresh \/ RefreshUnsent
  <2>1. UNCHANGED <<queue, worker, reply>>
      BY <1>3 DEF AdmitRefresh, RefreshUnsent
  <2>2. HasLogged' = HasLogged
      BY <1>1, <2>1 DEF HasLogged, InWorker, InHand
  <2> QED
      BY <1>1, <2>1, <2>2, HasteStays, HasteShrinks
<1>4. CASE RefreshReceives
  <2>1. UNCHANGED <<queue, worker>> /\ market.pc = "idle"
      BY <1>4 DEF RefreshReceives, PermitHeld
  <2>2. ~HasLogged
      BY <2>1 DEF HasLogged
  <2> QED
      BY <1>1, <2>1, <2>2, HasteStays, HasteShrinks
<1>5. CASE SendRefresh
  <2> DEFINE req == [NoRequest EXCEPT !.live = TRUE]
  <2>1. /\ queue' = Append(queue, req) /\ UNCHANGED worker /\ market.pc = "idle"
        /\ req \in Request /\ req.live
      BY <1>5 DEF SendRefresh, Request, NoRequest, PermitHeld
  <2>2. ~HasLogged
      BY <2>1 DEF HasLogged
  <2> HIDE DEF req
  <2> QED
      BY <1>1, <2>1, <2>2, SendHaste, HasteShrinks
<1>6. CASE RefreshTimesOut
  <2>1. Abandoned /\ market.pc = "idle" /\ market'.pc = "idle"
      BY <1>1, <1>6 DEF RefreshTimesOut, PermitHeld
  <2>2. Forgotten' = Forgotten
      BY <1>1, <2>1, AbandonedHaste
  <2>3. ~HasLogged /\ ~HasLogged' /\ Risk = 0
      BY <2>1 DEF HasLogged, Risk, One
  <2>4. ToForget' = ToForget
      BY <2>2, <2>3 DEF ToForget
  <2>5. PICK hasty \in Nat : hasty = Hasty'
      BY OwedStaysFit
  <2>6. hasty <= Hasty + Risk
      BY <1>1, <2>1, <2>5, AbandonedHaste, Zenon
  <2>7. hasty + ToForget <= Hasty + ToForget
      BY <2>3, <2>6, OwedFits
  <2> QED
      BY <2>4, <2>5, <2>7, Zenon
<1> QED
    BY <1>3, <1>4, <1>5, <1>6 DEF RefreshThread

\* The worker logs in for the reads in turn.
LEMMA WorkerHaste ==
    ASSUME TypeOK, TypeOK', CallsInOrder, Unhurried, WorkerThread
    PROVE  HasteOwed'
<1>1. UNCHANGED <<restarts, market, login>> /\ AdmittedLast /\ HasteOwed
    BY WorkerMoves DEF Unhurried
<1>2. SUFFICES Hasty' + ToForget' <= Hasty + ToForget
    BY <1>1, OwedKept
<1>3. CASE TakeRequest
  <2>1. Hasty' = Hasty /\ Forgotten' = Forgotten
      BY <1>3, TakeHaste
  <2>2. ~HasLogged
    <3>1. worker.pc = "idle" /\ queue # << >>
        BY <1>3 DEF TakeRequest
    <3> QED
        BY <3>1 DEF HasLogged, InWorker, CallsInOrder
  <2>3. PICK toForget \in Nat : toForget = ToForget'
      BY OwedStaysFit
  <2>4. ToForget' <= ToForget
      BY <2>1, <2>2 DEF ToForget, One
  <2>5. toForget <= ToForget
      BY <2>3, <2>4, Zenon
  <2>6. Hasty + toForget <= Hasty + ToForget
      BY <2>3, <2>5, OwedFits
  <2> QED
      BY <2>1, <2>3, <2>6, Zenon
<1>4. CASE ~TakeRequest /\ InHand /\ ~InHand' /\ LogLogin /\ UNCHANGED queue
    BY <1>1, <1>4, LoginHaste
<1>5. CASE ~TakeRequest /\ UNCHANGED <<log, queue>> /\ (InHand' => InHand /\ worker'.req = worker.req)
  <2>1. HastyLog' = HastyLog
      BY <1>5 DEF HastyLog, AfterLog
  <2>2. HastySent' \subseteq HastySent
    <3>1. ASSUME NEW i \in DOMAIN queue, i \in HastySent'
          PROVE  i \in HastySent
      <4>1. AfterLog(queue[i], Len(log))' => AfterLog(queue[i], Len(log))
          BY <1>5 DEF AfterLog
      <4>2. AfterTaken(queue[i])' => AfterTaken(queue[i])
          BY <1>5 DEF AfterTaken
      <4>3. AfterSent(queue[i], i - 1)' => AfterSent(queue[i], i - 1)
          BY <1>5 DEF AfterSent
      <4> QED
          BY <1>5, <3>1, <4>1, <4>2, <4>3 DEF HastySent
    <3>2. HastySent' \subseteq DOMAIN queue
        BY <1>5 DEF HastySent
    <3> QED
        BY <3>1, <3>2
  <2>3. HastyTaken' => HastyTaken
      BY <1>5 DEF HastyTaken, AfterLog
  <2>4. Forgotten' => Forgotten
      BY <1>1, <1>5 DEF Forgotten
  <2>5. HasLogged => HasLogged'
    <3>1. ASSUME HasLogged PROVE InWorker /\ ~InHand /\ reply = NoReply /\ market.pc = "wait"
      <4>1. worker.pc # "idle"
          BY <1>5, WorkerMoves
      <4> QED
          BY <3>1, <4>1 DEF HasLogged, CallsInOrder
    <3>2. ASSUME InWorker, ~InHand
          PROVE  \/ worker'.pc # "idle" /\ worker'.req.live
                 \/ reply' # NoReply /\ (reply' = reply \/ reply'.session # "no_login")
        BY <1>5, <3>2, WorkerMoves DEF InWorker, InHand
    <3> SUFFICES ASSUME HasLogged PROVE HasLogged'
        OBVIOUS
    <3>3. InWorker /\ ~InHand /\ ~InHand' /\ reply = NoReply /\ market'.pc = "wait"
        BY <1>1, <1>5, <3>1
    <3>4. CASE worker'.pc # "idle" /\ worker'.req.live
      <4>1. InWorker'
          BY <3>4 DEF InWorker
      <4> QED
          BY <3>3, <4>1 DEF HasLogged, NoReply, Reply
    <3>5. CASE reply' # NoReply /\ (reply' = reply \/ reply'.session # "no_login")
      <4>1. reply' # NoReply /\ reply'.session # "no_login"
          BY <3>3, <3>5
      <4> QED
          BY <3>3, <4>1 DEF HasLogged, NoReply, Reply
    <3> QED
        BY <3>2, <3>3, <3>4, <3>5
  <2> QED
      BY <2>1, <2>2, <2>3, <2>4, <2>5, HasteShrinks
<1> QED
    BY <1>3, <1>4, <1>5, WorkerMoves

\* A restart of the worker loses what was to come, and one of the controller may bring
\* one login too many: the cooldown it forgets is owed to it.
LEMMA RestartHaste ==
    ASSUME TypeOK, TypeOK', CallsInOrder, Unhurried,
           Reap \/ Tick \/ WorkerRestart \/ ControllerRestart \/ UNCHANGED vars
    PROVE  HasteOwed'
<1>1. AdmittedLast /\ HasteOwed
    BY DEF Unhurried
<1>2. CASE Reap \/ Tick \/ UNCHANGED vars
  <2>1. UNCHANGED <<log, queue, worker, market, login, reply, restarts>>
      BY <1>2 DEF Reap, Tick, vars
  <2>2. HasLogged' = HasLogged
      BY <2>1 DEF HasLogged, InWorker, InHand
  <2>3. Hasty' + ToForget' <= Hasty + ToForget
      BY <2>1, <2>2, HasteStays, HasteShrinks
  <2> QED
      BY <1>1, <2>1, <2>3, OwedKept
<1>3. CASE WorkerRestart
  <2>1. /\ worker'.pc = "idle" /\ queue' = << >> /\ UNCHANGED <<market, log, login, restarts>>
        /\ reply' = IF InWorker \/ InQueue THEN Reply("internal", "absent") ELSE reply
      BY <1>3 DEF WorkerRestart
  <2>2. ~InHand' /\ ~HastyTaken'
      BY <2>1 DEF InHand, HastyTaken
  <2>3. HastyLog' = HastyLog /\ HastySent' \subseteq HastySent
      BY <2>1 DEF HastyLog, HastySent, AfterLog
  <2>4. Forgotten' => Forgotten
      BY <2>1, <2>2 DEF Forgotten
  <2>5. ASSUME HasLogged PROVE HasLogged'
    <3>1. market'.pc = "wait"
        BY <2>1, <2>5 DEF HasLogged
    <3>2. reply' # NoReply /\ reply'.session # "no_login"
        BY <2>1, <2>5 DEF HasLogged, Reply, NoReply
    <3> QED
        BY <3>1, <3>2 DEF HasLogged, Reply, NoReply
  <2>6. Hasty' + ToForget' <= Hasty + ToForget
      BY <2>2, <2>3, <2>4, <2>5, HasteShrinks
  <2> QED
      BY <1>1, <2>1, <2>6, OwedKept
<1>4. CASE ControllerRestart
  <2>1. Abandoned /\ restarts' = restarts + 1 /\ UNCHANGED log
      BY <1>4 DEF ControllerRestart
  <2>2. PICK hasty \in Nat : hasty = Hasty'
      BY OwedStaysFit
  <2>3. PICK toForget \in 0..1 : toForget = ToForget'
      BY OwedStaysFit
  <2>4. hasty <= Hasty + Risk
      BY <1>1, <2>1, <2>2, AbandonedHaste, Zenon
  <2>5. Risk <= ToForget /\ Risk \in 0..1
      BY DEF Risk, ToForget, One
  <2>6. hasty + toForget <= restarts + 1
    <3>1. PICK h \in Nat : h = Hasty
        BY OwedFits
    <3>2. PICK f \in 0..1 : f = ToForget
        BY OwedFits
    <3>3. PICK r \in 0..1 : r = Risk
        BY <2>5
    <3>4. restarts \in Nat
        BY HasteFits
    <3>5. h + f <= restarts
        BY <1>1, <3>1, <3>2 DEF HasteOwed
    <3>6. hasty <= h + r /\ r <= f
        BY <2>4, <2>5, <3>1, <3>2, <3>3
    <3> QED
        BY <3>4, <3>5, <3>6
  <2>7. hasty + toForget <= restarts'
      BY <2>1, <2>6
  <2>8. Hasty' + ToForget' <= restarts'
      BY <2>2, <2>3, <2>7, Zenon
  <2> QED
      BY <2>8 DEF HasteOwed
<1> QED
    BY <1>2, <1>3, <1>4

\* Every step keeps the cooldown.
LEMMA UnhurriedKept ==
    ASSUME TypeOK, PermitHeld, CallsInOrder, ReplyFits, Unhurried, [Next]_vars
    PROVE  Unhurried'
<1>1. TypeOK'
    BY TypesKept
<1>2. AdmittedLast'
    BY AdmittedKept DEF Unhurried
<1>3. HasteOwed'
    BY <1>1, MarketHaste, RefreshHaste, WorkerHaste, RestartHaste DEF Next
<1> QED
    BY <1>2, <1>3 DEF Unhurried

\* In the beginning nothing is owed.
LEMMA InitUnhurried == Init => Unhurried
<1> SUFFICES ASSUME Init PROVE Unhurried
    OBVIOUS
<1>1. /\ log = << >> /\ queue = << >> /\ market.pc = "idle" /\ market.at = 0 /\ clock = 0
      /\ worker.pc = "idle" /\ restarts = 0
    BY DEF Init
<1>2. DOMAIN log = {} /\ DOMAIN queue = {} /\ ~InHand
    BY <1>1 DEF InHand
<1>3. HastyLog = {} /\ HastySent = {} /\ ~HastyTaken /\ ~Forgotten
    BY <1>2 DEF HastyLog, HastySent, HastyTaken, Forgotten
<1>4. TakenHaste = 0 /\ ToForget = 0
    BY <1>3 DEF TakenHaste, ToForget, One
<1>5. HasteOwed
    BY <1>1, <1>3, <1>4, FS_EmptySet DEF HasteOwed, Hasty
<1>6. AdmittedLast
    BY <1>1, <1>2 DEF AdmittedLast
<1> QED
    BY <1>5, <1>6 DEF Unhurried

\* The logins that come too soon after the one before them are among those counted.
LEMMA UnhurriedTells ==
    ASSUME TypeOK, Unhurried
    PROVE  CooldownSpacesLogins
<1> DEFINE soon == {i \in DOMAIN log :
                      i > 1 /\ ~log[i].reuse /\ log[i].at - log[i-1].at < LoginCooldown}
<1>1. soon \in SUBSET HastyLog
  <2> SUFFICES ASSUME NEW i \in DOMAIN log,
                      i > 1 /\ ~log[i].reuse /\ log[i].at - log[i-1].at < LoginCooldown
               PROVE  i \in HastyLog
      OBVIOUS
  <2>1. i - 1 \in 1..(i - 1)
      BY HasteFits, SMTT(30)
  <2> QED
      BY <2>1 DEF HastyLog, AfterLog
<1> HIDE DEF soon
<1>2. Cardinality(soon) <= Cardinality(HastyLog) /\ Cardinality(soon) \in Nat
    BY <1>1, HasteFits, FewerCount
<1>3. Cardinality(HastyLog) <= restarts
    BY HasteFits, OwedFits DEF Unhurried, HasteOwed, Hasty, TakenHaste, One
<1>4. Cardinality(soon) <= restarts
    BY <1>2, <1>3, HasteFits
<1> QED
    BY <1>4 DEF soon, CooldownSpacesLogins

-----------------------------------------------------------------------------
(* The theorems about logins.                                              *)

\* What the two agree on, what may still be charged, and what comes too soon.
Accounting == Agreement /\ Ledgered /\ Unhurried

\* It holds in the beginning, and every step keeps it.
LEMMA AccountingHolds == Spec => []Accounting
<1>1. Init => Accounting
    BY InitAgrees, InitLedgered, InitUnhurried DEF Accounting
<1>2. Accounting /\ [Next]_vars => Accounting'
  <2> SUFFICES ASSUME Accounting, [Next]_vars PROVE Accounting'
      OBVIOUS
  <2>1. TypeOK /\ PermitHeld /\ CallsInOrder /\ ReplyFits
      BY DEF Accounting, Agreement, Ledgered
  <2> QED
      BY <2>1, StepAgrees, LedgerKept, UnhurriedKept DEF Accounting
<1> QED
    BY <1>1, <1>2, PTL DEF Spec

\* Every login that the worker attempts for a market read (fineco-worker,
\* acquire_market_session) is charged to the controller's budget, whoever gave up on
\* what and whichever answer was lost (MarketSession.LoginsAreDebited).
THEOREM LoginsAreCharged == Spec => []LoginsAreDebited
<1>1. Accounting => LoginsAreDebited
    BY LedgerTells DEF Accounting, Agreement
<1> QED
    BY <1>1, AccountingHolds, PTL

\* In no window are more reads admitted that log in than the budget allows, once more
\* for each restart of the controller (MarketSession.BudgetBoundsLogins,
\* LiveLoginState).
THEOREM BudgetHolds == Spec => []BudgetBoundsLogins
<1>1. Accounting => BudgetBoundsLogins
    BY LedgerTells DEF Accounting, Agreement
<1> QED
    BY <1>1, AccountingHolds, PTL

\* Logins of reads that were not admitted as a reuse are of reads admitted a cooldown
\* apart, but for one for each restart of the controller
\* (MarketSession.CooldownSpacesLogins, LiveLoginState).
THEOREM CooldownHolds == Spec => []CooldownSpacesLogins
<1>1. Accounting => CooldownSpacesLogins
    BY UnhurriedTells DEF Accounting, Agreement
<1> QED
    BY <1>1, AccountingHolds, PTL
=============================================================================
