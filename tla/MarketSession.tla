--------------------------- MODULE MarketSession ---------------------------
(***************************************************************************)
(* Live operations end to end: the controller's two request threads        *)
(* (market reads and refreshes, fineco-helper/src/controller.rs), the      *)
(* fineco-live.sock between them and the private worker (fineco-live), and *)
(* the worker with the market session it holds (fineco-worker).            *)
(*                                                                         *)
(* The controller admits at most one live operation at a time, but a call  *)
(* it gave up on stays in the socket and the worker still performs it: the *)
(* queue holds such orphans too.  The worker serves the queue in order,    *)
(* one request at a time, and drops the reply of an orphan.                *)
(***************************************************************************)
EXTENDS LoginState

CONSTANTS
    MaxTime,            \* bound on the clock
    QueueBound,         \* bound on the requests waiting in fineco-live.sock
    ServerForgets,      \* whether the bank ends sessions before ReuseTtl
    WorkerRestarts,     \* whether the worker process may be restarted
    ControllerRestarts  \* bound on the restarts of the controller process

ASSUME SessionConstants ==
    /\ LoginBudget \in Nat /\ BudgetWindow \in Nat
    /\ LoginCooldown \in Nat /\ ReuseTtl \in Nat
    /\ CircuitFailures \in Nat \ {0} /\ CircuitCooldown \in Nat
    /\ MaxTime \in Nat /\ QueueBound \in Nat /\ ControllerRestarts \in Nat
    /\ {ServerForgets, WorkerRestarts} \subseteq BOOLEAN

VARIABLES
    clock,    \* the controller's clock, which is also the worker's
    login,    \* LiveLoginState
    circuit,  \* MarketCircuitState
    market,   \* the market thread: where it is, and the read it last admitted
    refresh,  \* the refresh thread: where it is, and worker calls left to make
    queue,    \* requests written to fineco-live.sock, oldest first
    worker,   \* where the worker is, and the request it serves
    held,     \* HeldMarketSession
    reply,    \* the worker's reply to the operation in flight
    log,      \* every login the worker attempted for a market read (history)
    restarts  \* how often the controller was restarted (bounded)

vars == <<clock, login, circuit, market, refresh, queue, worker, held, reply, log,
          restarts>>

\* `at' is the now_iso of the read, `live' whether its caller still waits.
Request == [kind : {"market", "refresh"}, at : Nat, reuse : BOOLEAN, live : BOOLEAN]
NoRequest == [kind |-> "refresh", at |-> 0, reuse |-> FALSE, live |-> FALSE]

\* No session is held when `until' is None.  `current' is FALSE once a later
\* login may have ended the session at the bank; `lost' is TRUE when the last
\* session went with a restart of the worker.
NoSession == [until |-> None, current |-> FALSE, lost |-> FALSE]

\* A reply: its outcome, and MarketSessionStatus as far as the controller reads
\* it (whether it is there at all, and whether it reports a login).
Outcome == {"ok", "auth", "upstream", "not_found", "other", "transport", "internal"}

Reply(outcome, session) == [outcome |-> outcome, session |-> session]
NoReply == Reply("none", "absent")

Init ==
    /\ clock = 0
    /\ login = FreshState
    /\ circuit = ClosedCircuit
    /\ market = [pc |-> "idle", at |-> 0, reuse |-> FALSE]
    /\ refresh = [pc |-> "idle", calls |-> 0]
    /\ queue = << >>
    /\ worker = [pc |-> "idle", req |-> NoRequest]
    /\ held = NoSession
    /\ reply = NoReply
    /\ log = << >>
    /\ restarts = 0

-----------------------------------------------------------------------------
(* The market thread: handle_market_control                                *)

\* admit_market_operation.  A read that is refused changes nothing: the attempts
\* are pruned before the budget refuses it, but they are never more than the
\* budget, so none is old then.
AdmitMarket ==
    /\ market.pc = "idle"
    /\ CircuitAdmits(circuit, clock)
    /\ MarketAdmissible(login, clock)
    /\ login' = MarketAdmitted(login, clock)
    /\ market' = [market EXCEPT !.pc = "call", !.at = clock,
                                !.reuse = ReuseEligible(login, clock)]
    /\ UNCHANGED <<clock, circuit, refresh, queue, worker, held, reply, log, restarts>>

\* LiveClient::call: the request is in the socket, whether or not the worker has
\* come to it.
SendMarket ==
    /\ market.pc = "call"
    /\ Len(queue) < QueueBound
    /\ queue' = Append(queue, [kind |-> "market", at |-> market.at,
                               reuse |-> market.reuse, live |-> TRUE])
    /\ market' = [market EXCEPT !.pc = "wait"]
    /\ UNCHANGED <<clock, login, circuit, refresh, worker, held, reply, log, restarts>>

UpstreamOutcome(outcome) == outcome = "upstream"
PreservesSession(outcome) == outcome = "not_found"

\* Variant with a bug, to test the properties: the debit follows the prediction made at admission.
FinishMarketAsPredicted(outcome, session) ==
    /\ login' = MarketFinished(login, ~market.reuse /\ outcome # "transport",
                    outcome = "ok" \/ PreservesSession(outcome), market.at)
    /\ circuit' = OutcomeRecorded(circuit, market.at, UpstreamOutcome(outcome))
    /\ market' = [market EXCEPT !.pc = "idle"]

\* permit.finish_with_session_status or permit.finish_after_error, then
\* record_outcome: the bookkeeping is keyed on the time of admission.
FinishMarket(outcome, session) ==
    LET reported == session = "login"
        assumed == session = "absent" /\ outcome # "transport" /\ ~PreservesSession(outcome)
    IN  /\ login' = MarketFinished(login,
                        reported \/ assumed,
                        outcome = "ok" \/ PreservesSession(outcome),
                        market.at)
        /\ circuit' = OutcomeRecorded(circuit, market.at, UpstreamOutcome(outcome))
        /\ market' = [market EXCEPT !.pc = "idle"]

\* The connection is refused, or the request cannot be written.
MarketUnsent ==
    /\ market.pc = "call"
    /\ FinishMarket("transport", "absent")
    /\ UNCHANGED <<clock, refresh, queue, worker, held, reply, log, restarts>>

MarketReceives ==
    /\ market.pc = "wait"
    /\ reply # NoReply
    /\ FinishMarket(reply.outcome, reply.session)
    /\ reply' = NoReply
    /\ UNCHANGED <<clock, refresh, queue, worker, held, log, restarts>>

Orphan(req) == [req EXCEPT !.live = FALSE]

\* The caller is gone; the worker does not learn of it.
Abandoned == /\ queue' = [i \in DOMAIN queue |-> Orphan(queue[i])]
             /\ worker' = [worker EXCEPT !.req = Orphan(@)]

\* The client timeout passes first: a missing reply is `internal'.
MarketTimesOut ==
    /\ market.pc = "wait"
    /\ reply = NoReply
    /\ FinishMarket("internal", "absent")
    /\ Abandoned
    /\ UNCHANGED <<clock, refresh, held, reply, log, restarts>>

-----------------------------------------------------------------------------
(* The refresh thread, past refresh_preflight: RefreshController::handle.  *)
(* A tax refresh calls the worker twice, the others once.                  *)

\* Variant with a bug, to test the properties: a refresh does not look for a market read in flight.
AdmitRefreshAnyway ==
    /\ refresh.pc = "idle"
    /\ login' = RefreshAdmitted(login)
    /\ \E calls \in 1..2 : refresh' = [pc |-> "call", calls |-> calls]
    /\ UNCHANGED <<clock, circuit, market, queue, worker, held, reply, log, restarts>>

AdmitRefresh ==
    /\ refresh.pc = "idle"
    /\ ~login.inFlight
    /\ login' = RefreshAdmitted(login)
    /\ \E calls \in 1..2 : refresh' = [pc |-> "call", calls |-> calls]
    /\ UNCHANGED <<clock, circuit, market, queue, worker, held, reply, log, restarts>>

SendRefresh ==
    /\ refresh.pc = "call"
    /\ Len(queue) < QueueBound
    /\ queue' = Append(queue, [NoRequest EXCEPT !.live = TRUE])
    /\ refresh' = [pc |-> "wait", calls |-> refresh.calls - 1]
    /\ UNCHANGED <<clock, login, circuit, market, worker, held, reply, log, restarts>>

\* Variant with a bug, to test the properties: the permit is not given back.
FinishRefreshKeepingPermit ==
    /\ UNCHANGED login
    /\ refresh' = [pc |-> "idle", calls |-> 0]

FinishRefresh ==
    /\ login' = Released(login)
    /\ refresh' = [pc |-> "idle", calls |-> 0]

\* The second call is made only after the first succeeded.
RefreshReceives ==
    /\ refresh.pc = "wait"
    /\ reply # NoReply
    /\ reply' = NoReply
    /\ IF reply.outcome = "ok" /\ refresh.calls > 0
       THEN refresh' = [refresh EXCEPT !.pc = "call"] /\ UNCHANGED login
       ELSE FinishRefresh
    /\ UNCHANGED <<clock, circuit, market, queue, worker, held, log, restarts>>

RefreshTimesOut ==
    /\ refresh.pc = "wait"
    /\ reply = NoReply
    /\ FinishRefresh
    /\ Abandoned
    /\ UNCHANGED <<clock, circuit, market, held, reply, log, restarts>>

\* Also any way out before a call: no lock on the area, a storage error.
RefreshUnsent ==
    /\ refresh.pc = "call"
    /\ FinishRefresh
    /\ UNCHANGED <<clock, circuit, market, queue, worker, held, reply, log, restarts>>

-----------------------------------------------------------------------------
(* The worker: serve_live_blocking and run_market_read                     *)

\* Variant with a bug, to test the properties: the held session is kept.
NotEvicted(h) == h

Evicted(h) == NoSession
\* A login at the bank may end every session before it.
Rotated(h) == IF h.until = None THEN h ELSE [h EXCEPT !.current = FALSE]

Reuse(req) == held.until # None /\ req.at < held.until

\* Variant with a bug, to test the properties: a request without a caller is left where it is.
TakeWaitedFor ==
    /\ worker.pc = "idle"
    /\ queue # << >>
    /\ Head(queue).live
    /\ worker' = [pc |-> IF Head(queue).kind = "refresh" THEN "refresh_login" ELSE "login",
                   req |-> Head(queue)]
    /\ queue' = Tail(queue)
    /\ UNCHANGED <<clock, login, circuit, market, refresh, held, reply, log, restarts>>

\* A request is taken; a market read reuses the held session or goes to log in.
TakeRequest ==
    /\ worker.pc = "idle"
    /\ queue # << >>
    /\ LET req == Head(queue) IN
         worker' = [pc |-> IF req.kind = "refresh" THEN "refresh_login"
                           ELSE IF Reuse(req) THEN "read_reused" ELSE "login",
                    req |-> req]
    /\ queue' = Tail(queue)
    /\ held' = IF worker'.pc = "login" THEN Evicted(held) ELSE held
    /\ UNCHANGED <<clock, login, circuit, market, refresh, reply, log, restarts>>

\* The worker answers; nobody reads the reply to an orphan.
Answer(outcome, session) ==
    /\ worker' = [worker EXCEPT !.pc = "idle", !.req = Orphan(@)]
    /\ reply' = IF worker.req.live THEN Reply(outcome, session) ELSE reply

LogLogin == log' = Append(log, [at |-> worker.req.at, reuse |-> worker.req.reuse])

\* login() came back with a session: it is held from the time of the request.
NewSession == [until |-> worker.req.at + ReuseTtl, current |-> TRUE, lost |-> FALSE]
\* The session that served the read is stored again, also when it was reaped.
ReadSession == [until |-> worker.req.at + ReuseTtl,
                current |-> IF held.until = None THEN TRUE ELSE held.current,
                lost |-> FALSE]

LoginFailures == {"auth", "upstream", "other"}

\* acquire_market_session and, after a 401 on a reused session, the one retry:
\* the held session was dropped before.
LoginSucceeds ==
    /\ worker.pc \in {"login", "recover"}
    /\ held' = NewSession
    /\ LogLogin
    /\ worker' = [worker EXCEPT !.pc = IF @ = "login" THEN "read_fresh" ELSE "reread"]
    /\ UNCHANGED <<clock, login, circuit, market, refresh, queue, reply, restarts>>

LoginFails ==
    /\ worker.pc \in {"login", "recover"}
    /\ held' = NoSession
    /\ LogLogin
    /\ \E outcome \in LoginFailures : Answer(outcome, "absent")
    /\ UNCHANGED <<clock, login, circuit, market, refresh, queue, restarts>>

\* Whether the read was served after a login of its own.
SessionStatus == IF worker.pc = "read_reused" THEN "no_login" ELSE "login"
Reading == worker.pc \in {"read_reused", "read_fresh", "reread"}

ReadSucceeds ==
    /\ Reading
    /\ Answer("ok", SessionStatus)
    /\ held' = ReadSession
    /\ UNCHANGED <<clock, login, circuit, market, refresh, queue, log, restarts>>

\* market_not_found and its like: the read worked, there is nothing to show.
ReadFindsNothing ==
    /\ Reading
    /\ Answer("not_found", SessionStatus)
    /\ held' = IF worker.pc = "reread" THEN held ELSE ReadSession
    /\ UNCHANGED <<clock, login, circuit, market, refresh, queue, log, restarts>>

\* Any other failure that is not a 401 leaves the held session alone.
ReadFails ==
    /\ Reading
    /\ \E outcome \in {"upstream", "other"} : Answer(outcome, SessionStatus)
    /\ UNCHANGED <<clock, login, circuit, market, refresh, queue, held, log, restarts>>

\* A 401 on a reused session is repaired by one fresh login; on a session the
\* read itself logged in for it is the answer.
ReadUnauthorized ==
    /\ Reading
    /\ ServerForgets
    /\ held' = Evicted(held)
    /\ CASE worker.pc = "read_reused" ->
              worker' = [worker EXCEPT !.pc = "recover"] /\ UNCHANGED reply
         [] worker.pc = "read_fresh" -> Answer("auth", "absent")
         [] worker.pc = "reread" -> Answer("auth", "login")
    /\ UNCHANGED <<clock, login, circuit, market, refresh, queue, log, restarts>>

\* refresh_login drops the held session, then logs in.
RefreshLogin ==
    /\ worker.pc = "refresh_login"
    /\ held' = Rotated(Evicted(held))
    /\ worker' = [worker EXCEPT !.pc = "refresh_fetch"]
    /\ UNCHANGED <<clock, login, circuit, market, refresh, queue, reply, log, restarts>>

RefreshFetched ==
    /\ worker.pc = "refresh_fetch"
    /\ \E outcome \in {"ok", "upstream"} : Answer(outcome, "absent")
    /\ UNCHANGED <<clock, login, circuit, market, refresh, queue, held, log, restarts>>

\* spawn_session_reaper
Reap ==
    /\ held.until # None
    /\ clock >= held.until
    /\ held' = Evicted(held)
    /\ UNCHANGED <<clock, login, circuit, market, refresh, queue, worker, reply, log, restarts>>

-----------------------------------------------------------------------------
(* The clock and the two processes.                                        *)

Tick ==
    /\ clock < MaxTime
    /\ clock' = clock + 1
    /\ UNCHANGED <<login, circuit, market, refresh, queue, worker, held, reply, log, restarts>>

InWorker == worker.pc # "idle" /\ worker.req.live
InQueue == \E i \in DOMAIN queue : queue[i].live

\* Every connection is reset: the caller reads an error at once.
WorkerRestart ==
    /\ WorkerRestarts
    /\ worker.pc # "idle" \/ queue # << >> \/ held.until # None
    /\ worker' = [pc |-> "idle", req |-> NoRequest]
    /\ queue' = << >>
    /\ held' = [NoSession EXCEPT !.lost = held.lost \/ held.until # None]
    /\ reply' = IF InWorker \/ InQueue THEN Reply("internal", "absent") ELSE reply
    /\ UNCHANGED <<clock, login, circuit, market, refresh, log, restarts>>

\* The login bookkeeping is lost; what is in the socket is not.
ControllerRestart ==
    /\ restarts < ControllerRestarts
    /\ restarts' = restarts + 1
    /\ login' = FreshState
    /\ circuit' = ClosedCircuit
    /\ market' = [market EXCEPT !.pc = "idle"]
    /\ refresh' = [pc |-> "idle", calls |-> 0]
    /\ Abandoned
    /\ reply' = NoReply
    /\ UNCHANGED <<clock, held, log>>

MarketThread ==
    \/ AdmitMarket \/ SendMarket \/ MarketUnsent
    \/ MarketReceives \/ MarketTimesOut

RefreshThread ==
    \/ AdmitRefresh \/ SendRefresh \/ RefreshUnsent
    \/ RefreshReceives \/ RefreshTimesOut

WorkerThread ==
    \/ TakeRequest \/ LoginSucceeds \/ LoginFails
    \/ ReadSucceeds \/ ReadFindsNothing \/ ReadFails \/ ReadUnauthorized
    \/ RefreshLogin \/ RefreshFetched

Next ==
    \/ MarketThread \/ RefreshThread \/ WorkerThread
    \/ Reap \/ Tick \/ WorkerRestart \/ ControllerRestart

Spec == Init /\ [][Next]_vars

(***************************************************************************)
(* Fairness.  A thread with a request in hand goes on: a send succeeds or  *)
(* fails, a wait ends with the reply or the client timeout.  The worker    *)
(* serves its queue: every call it makes has an HTTP timeout.  Nobody has  *)
(* to ask for anything, and nothing has to succeed.                        *)
(***************************************************************************)
Fairness ==
    /\ WF_vars(SendMarket \/ MarketUnsent)
    /\ WF_vars(MarketReceives \/ MarketTimesOut)
    /\ WF_vars(SendRefresh \/ RefreshUnsent)
    /\ WF_vars(RefreshReceives \/ RefreshTimesOut)
    /\ WF_vars(WorkerThread)

FairSpec == Spec /\ Fairness

-----------------------------------------------------------------------------
(* Invariants                                                              *)

WorkerPCs == {"idle", "login", "read_fresh", "read_reused", "recover", "reread",
              "refresh_login", "refresh_fetch"}

\* Every variable holds a value the two programs could hold.
TypeOK ==
    /\ clock \in 0..MaxTime
    /\ login \in LiveLogin
    /\ circuit \in Circuit
    /\ market \in [pc : {"idle", "call", "wait"}, at : Nat, reuse : BOOLEAN]
    /\ refresh \in [pc : {"idle", "call", "wait"}, calls : 0..2]
    /\ refresh.pc = "call" => refresh.calls > 0
    /\ queue \in Seq(Request)
    /\ worker \in [pc : WorkerPCs, req : Request]
    /\ held \in [until : Epoch, current : BOOLEAN, lost : BOOLEAN]
    /\ reply = NoReply \/ reply \in [outcome : Outcome, session : {"absent", "login", "no_login"}]
    /\ log \in Seq([at : Nat, reuse : BOOLEAN])
    /\ restarts \in 0..ControllerRestarts

\* The two threads never have a live operation each, the permit is held by the
\* one that has, and of all the requests the worker has or will get at most one
\* has a caller: the others are orphans of calls that were given up.
OneLiveOperation ==
    LET live == {i \in DOMAIN queue : queue[i].live} IN
    /\ login.inFlight <=> (market.pc # "idle" \/ refresh.pc # "idle")
    /\ market.pc = "idle" \/ refresh.pc = "idle"
    /\ \A i, j \in live : i = j
    /\ ~(InWorker /\ live # {})
    /\ InWorker \/ live # {} => market.pc = "wait" \/ refresh.pc = "wait"

\* A request with a caller is the call that is waited for, and the last one in the
\* socket; by its reply, everything before it is worked off.
Waiting == market.pc = "wait" \/ refresh.pc = "wait"
IsCall(req) ==
    /\ market.pc = "wait" => req.kind = "market" /\ req.at = market.at
    /\ market.pc # "wait" => req.kind = "refresh"
CallsInOrder ==
    /\ \A i \in DOMAIN queue : queue[i].live =>
         i = Len(queue) /\ Waiting /\ IsCall(queue[i]) /\ reply = NoReply /\ ~InWorker
    /\ InWorker => queue = << >> /\ Waiting /\ IsCall(worker.req) /\ reply = NoReply
    /\ reply # NoReply => queue = << >> /\ Waiting /\ worker.pc = "idle"
    /\ worker.pc # "idle" =>
         (worker.req.kind = "refresh" <=> worker.pc \in {"refresh_login", "refresh_fetch"})

\* The worker never holds a session that a later login may have ended.
HeldSessionIsNewest == held.until # None => held.current

\* What the worker holds: the session of the login a read waited for, until the
\* reaper takes it, and none that was lost.
HeldFits ==
    /\ worker.pc \in {"read_fresh", "reread"} /\ clock < worker.req.at + ReuseTtl =>
         held.until = worker.req.at + ReuseTtl
    /\ held.lost => held.until = None

\* A read that is answered as if its session were there to reuse left one.
AnsweredMeansHeld ==
    market.pc = "wait" /\ reply.outcome \in {"ok", "not_found"} =>
        (clock < market.at + ReuseTtl /\ ~held.lost => held.until >= market.at + ReuseTtl)

\* While the controller presumes that the worker holds a reusable session, the
\* worker holds one, for at least as long, and it will still do so when it has
\* worked off the orphans that are before the next read: there are none.  The
\* only exception is a restart of the worker.
WindowMeansHeld ==
    /\ ReuseEligible(login, clock) /\ ~login.inFlight /\ ~held.lost =>
         held.until >= login.window /\ held.current
    /\ login.window # None /\ ~login.inFlight => worker.pc = "idle" /\ queue = << >>

\* The circuit counts from the read that failed last.
CircuitFits == market.pc = "idle" /\ circuit.failures > 0 => circuit.newest = market.at

\* The controller and the worker agree, as just said.
SessionInv ==
    /\ TypeOK /\ OneLiveOperation /\ CallsInOrder
    /\ HeldSessionIsNewest /\ HeldFits /\ AnsweredMeansHeld /\ WindowMeansHeld
    /\ CircuitFits

\* Every login the worker attempts for a market read is charged to the budget:
\* for each time of admission, no more logins than debits, but for the read
\* whose outcome the controller is still waiting for.  A restart of the
\* controller forgets its debits, so the promise is for the time before one.
LoginsAreDebited ==
    \A i \in DOMAIN log :
        LET t == log[i].at IN
        restarts = 0 /\ clock - t < BudgetWindow =>
            Cardinality({j \in DOMAIN log : log[j].at = t})
              <= Cardinality({j \in DOMAIN login.attempts : login.attempts[j] = t})
                   + (IF market.pc = "wait" /\ market.at = t THEN 1 ELSE 0)

\* No window of BudgetWindow seconds sees more reads admitted that logged in
\* than the budget allows, reuses that had to recover included.  The ledger is
\* in memory: each restart of the controller gives the bank one more budget.
BudgetBoundsLogins ==
    \A i \in DOMAIN log :
        Cardinality({j \in DOMAIN log :
            log[j].at <= log[i].at /\ log[i].at - log[j].at < BudgetWindow})
          <= LoginBudget * (1 + restarts)

\* A read that logs in without having been admitted as a reuse was admitted a
\* cooldown after the read that logged in before it; only a restart of the
\* controller, which forgets the cooldown, may bring two of them closer.
CooldownSpacesLogins ==
    Cardinality({i \in DOMAIN log :
        i > 1 /\ ~log[i].reuse /\ log[i].at - log[i-1].at < LoginCooldown}) <= restarts

\* controller.rs says of the reuse window that controller and worker agree except
\* across a worker restart: with a bank that keeps its sessions and a worker that
\* keeps running, a read admitted as a reuse does not log in.
ReuseSkipsLogin ==
    ~ServerForgets /\ ~WorkerRestarts => \A i \in DOMAIN log : ~log[i].reuse

-----------------------------------------------------------------------------
(* Action properties                                                       *)

Admits == market.pc = "idle" /\ market'.pc = "call"

\* While the breaker is tripped, reads are admitted at least the circuit cooldown
\* apart, however the probe in between ended.
OneProbePerCooldown ==
    [][Admits /\ circuit.failures >= CircuitFailures
         => market'.at - market.at >= CircuitCooldown]_vars

-----------------------------------------------------------------------------
(* Liveness                                                                *)

\* Every live operation ends and gives back the permit.
OperationsEnd == login.inFlight ~> ~login.inFlight

\* Whatever was abandoned is worked off: once no more operations are started,
\* the worker comes to the end of its queue.
AbandonedAreWorkedOff ==
    <>[](~login.inFlight) => <>[](queue = << >> /\ worker.pc = "idle")
=============================================================================
