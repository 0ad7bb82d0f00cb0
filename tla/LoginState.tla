----------------------------- MODULE LoginState -----------------------------
(***************************************************************************)
(* The controller's login bookkeeping: LiveLoginState and                  *)
(* MarketCircuitState of fineco-helper/src/controller.rs, as records and   *)
(* the functions on them.  Both live in memory only.  Epochs are seconds.  *)
(***************************************************************************)
EXTENDS Integers, Sequences, FiniteSets

CONSTANTS
    LoginBudget,      \* MARKET_LOGIN_BUDGET_PER_ACCOUNT_PER_HOUR
    BudgetWindow,     \* MARKET_LOGIN_BUDGET_WINDOW_SECS
    LoginCooldown,    \* MARKET_LOGIN_MIN_COOLDOWN_SECS
    ReuseTtl,         \* MARKET_SESSION_REUSE_TTL_SECS
    CircuitFailures,  \* MARKET_CIRCUIT_CONSECUTIVE_FAILURES
    CircuitCooldown   \* MARKET_CIRCUIT_COOLDOWN_SECS

None == -1
Epoch == Nat \union {None}

LiveLogin ==
    [inFlight : BOOLEAN, pending : Epoch, lastLogin : Epoch,
     attempts : Seq(Nat), window : Epoch]

FreshState ==
    [inFlight |-> FALSE, pending |-> None, lastLogin |-> None,
     attempts |-> << >>, window |-> None]

\* A market read asked for now would ride the session the worker holds.
ReuseEligible(s, now) == s.window # None /\ now < s.window

CooldownOver(s, now) ==
    \/ ReuseEligible(s, now)
    \/ s.lastLogin = None
    \/ now - s.lastLogin >= LoginCooldown

\* login_attempts after the old ones were popped from its front
Pruned(attempts, now) ==
    LET old == {i \in DOMAIN attempts : \A j \in 1..i : now - attempts[j] >= BudgetWindow}
    IN  SubSeq(attempts, Cardinality(old) + 1, Len(attempts))

\* admit_refresh_operation, when nothing is in flight
RefreshAdmitted(s) == [s EXCEPT !.inFlight = TRUE, !.window = None]

\* admit_market_operation, past the in-flight check and the cooldown: the
\* attempts are pruned before the budget is asked.
BudgetPruned(s, now) == [s EXCEPT !.attempts = Pruned(@, now)]

\* Variant with a bug, to test the properties: a reuse skips the budget as well as the cooldown.
ReuseSkipsBudget(s, now) ==
    /\ ~s.inFlight
    /\ \/ ReuseEligible(s, now)
       \/ CooldownOver(s, now) /\ Len(Pruned(s.attempts, now)) < LoginBudget

MarketAdmissible(s, now) ==
    /\ ~s.inFlight
    /\ CooldownOver(s, now)
    /\ Len(Pruned(s.attempts, now)) < LoginBudget

MarketAdmitted(s, now) ==
    [BudgetPruned(s, now) EXCEPT !.inFlight = TRUE, !.pending = now]

\* finish(false): a refresh, or a permit dropped without a market finish
Released(s) == [s EXCEPT !.inFlight = FALSE, !.pending = None, !.window = None]

\* Variant with a bug, to test the properties: only a read that succeeded starts the cooldown.
MarketFinishedOnSuccess(s, performedLogin, holdsSession, now) ==
    [s EXCEPT
        !.lastLogin = IF performedLogin /\ holdsSession THEN now ELSE @,
        !.attempts = IF performedLogin THEN Append(@, now) ELSE @,
        !.window = IF holdsSession THEN now + ReuseTtl ELSE None,
        !.inFlight = FALSE,
        !.pending = None]

\* Variant with a bug, to test the properties: a login opens the reuse window even if the read failed.
MarketFinishedWindowOnLogin(s, performedLogin, holdsSession, now) ==
    [s EXCEPT
        !.lastLogin = IF performedLogin THEN now ELSE @,
        !.attempts = IF performedLogin THEN Append(@, now) ELSE @,
        !.window = IF performedLogin \/ holdsSession THEN now + ReuseTtl ELSE None,
        !.inFlight = FALSE,
        !.pending = None]

\* finish_market
MarketFinished(s, performedLogin, holdsSession, now) ==
    [s EXCEPT
        !.lastLogin = IF performedLogin THEN now ELSE @,
        !.attempts = IF performedLogin THEN Append(@, now) ELSE @,
        !.window = IF holdsSession THEN now + ReuseTtl ELSE None,
        !.inFlight = FALSE,
        !.pending = None]

-----------------------------------------------------------------------------
(* MarketCircuitState                                                      *)

Circuit == [failures : Nat, newest : Epoch]
ClosedCircuit == [failures |-> 0, newest |-> None]

\* check_closed
CircuitAdmits(c, now) ==
    \/ c.failures < CircuitFailures
    \/ c.newest = None
    \/ now - c.newest >= CircuitCooldown

\* Variant with a bug, to test the properties: the cooldown runs from the first failure.
OutcomeRecordedFirst(c, now, upstreamFailure) ==
    IF upstreamFailure
    THEN [failures |-> c.failures + 1,
          newest |-> IF c.newest = None THEN now ELSE c.newest]
    ELSE ClosedCircuit

\* record_outcome
OutcomeRecorded(c, now, upstreamFailure) ==
    IF upstreamFailure
    THEN [failures |-> c.failures + 1, newest |-> now]
    ELSE ClosedCircuit
=============================================================================
