---------------------------- MODULE WorkerReads ----------------------------
(***************************************************************************)
(* The private worker and what is made of what it reads: one request is    *)
(* served at a time, a refresh of the movements (StatementWalk) or another *)
(* read (MarketReads), and the movements captured last are paired into     *)
(* dividends (Dividends).                                                  *)
(***************************************************************************)
EXTENDS StatementWalk, MarketReads, Dividends

\* to_cents has an integer or none, and a label is text.
ASSUME LegConstants ==
    /\ Unreadable \notin Int
    /\ \A r \in Row : r.cents \in Int \union {Unreadable}
    /\ \A r, q \in Row : r.label # q

WorkerVars == <<statementVars, readVars>>

WorkerInit == WalkInit /\ ReadsInit

\* Bound: the other reads come before the first refresh of an empty statement.
\* They share nothing with the refresh but the worker's turn.
OtherReadsTurn == refreshes = 0 /\ book = << >>

BeginStep == phase = "idle" /\ OtherReadsTurn /\ Begin

ReadStep ==
    \/ BeginStep
    \/ ReadSearch \/ ReadIndices \/ ReadAccount
    \/ SearchTerm \/ NotFound \/ ReadStatic \/ FetchNext \/ Assemble \/ TooLarge
    \/ CallFails \/ CallUnauthorized
    \/ Done

WorkerNext ==
    \/ stage = "idle" /\ WalkNext /\ UNCHANGED readVars
    \/ ReadStep /\ UNCHANGED statementVars

WorkerSpec == WorkerInit /\ [][WorkerNext]_WorkerVars

-----------------------------------------------------------------------------

\* dividends_get_latest adds up: every dividend leg captured is in exactly one
\* event, and the totals are those of the legs of the events with a net, so that
\* no leg is counted twice, alone, or not at all without being told of.
DividendsAddUp == AddsUp(statement.rows)
=============================================================================
