----------------------------- MODULE Dividends -----------------------------
(***************************************************************************)
(* pair_dividends and the totals of dividends_get_latest: pure functions   *)
(* of the movements captured last.                                         *)
(*                                                                         *)
(* A movement is a record with its code (causale_movimento), its label     *)
(* (what security_label finds behind the prefix, or NoLabel), its date     *)
(* (data_operazione, or NoDate) and its cents (to_cents: an integer, or    *)
(* Unreadable).  An account amount is signed: a credit is positive.        *)
(***************************************************************************)
EXTENDS Integers, FiniteSets, Functions

CONSTANTS NoLabel, NoDate, Unreadable

\* LEGS
GrossCode == {"DII", "DPR"}
WithholdingCode == {"DIR", "DER", "RPR"}
Kind(code) == IF code \in {"DPR", "RPR"} THEN "remunerated_portfolio" ELSE "dividend"

Legs(rows) == {r \in rows : r.code \in GrossCode \union WithholdingCode}

\* The event a leg belongs to: an unlabelled leg is alone in its own.
Key(r) == <<r.date, Kind(r.code), IF r.label = NoLabel THEN r ELSE r.label>>

\* The legs of some of the events.
LegsOf(rows, keys) == {r \in Legs(rows) : Key(r) \in keys}

SumCents(legs) == SumFunction([r \in legs |-> r.cents])

\* One side of an event, in the signs of the account; Unreadable when it has
\* no leg or one without an amount.
Side(legs) ==
    IF legs = {} \/ \E r \in legs : r.cents = Unreadable THEN Unreadable ELSE SumCents(legs)

Event(legs) ==
    LET grossLegs == {r \in legs : r.code \in GrossCode}
        heldLegs  == legs \ grossLegs
        gross     == Side(grossLegs)
        held      == Side(heldLegs)
    IN [gross       |-> gross,
        withholding |-> IF held = Unreadable THEN Unreadable ELSE -held,
        net         |-> IF gross = Unreadable THEN Unreadable
                        ELSE IF heldLegs = {} THEN gross
                        ELSE IF held = Unreadable THEN Unreadable
                        ELSE gross + held,
        unpaired    |-> IF grossLegs = {} THEN "gross"
                        ELSE IF heldLegs = {} THEN "withholding" ELSE "none"]

\* pair_dividends: the events by their keys
PairDividends(rows) ==
    [k \in {Key(r) : r \in Legs(rows)} |-> Event(LegsOf(rows, {k}))]

\* Variant with a bug, to test the properties: a readable side counts by itself.
TotalsOfSides(events) ==
    LET OrNothing(cents) == IF cents = Unreadable THEN 0 ELSE cents
        gross == SumFunction([k \in DOMAIN events |-> OrNothing(events[k].gross)])
        held  == SumFunction([k \in DOMAIN events |-> OrNothing(events[k].withholding)])
    IN [gross |-> gross, withholding |-> held, net |-> gross - held,
        excluded |-> Cardinality({k \in DOMAIN events : events[k].net = Unreadable})]

\* latest_dividends: an event without a net is left out of both sides
Counted(events) == {k \in DOMAIN events : events[k].net # Unreadable}

Totals(events) ==
    LET OrNothing(cents) == IF cents = Unreadable THEN 0 ELSE cents
        gross == SumFunction([k \in Counted(events) |-> events[k].gross])
        held  == SumFunction([k \in Counted(events) |-> OrNothing(events[k].withholding)])
    IN [gross |-> gross, withholding |-> held, net |-> gross - held,
        excluded |-> Cardinality(DOMAIN events \ Counted(events))]

-----------------------------------------------------------------------------

\* What is paired and totalled of rows adds up: every leg is in exactly one
\* event, an unlabelled one in an event of its own, and the totals are those of
\* the legs of the events with a net, gross and withholding alike, so that the
\* net is their signed sum and the rest is counted as excluded.
AddsUp(rows) ==
    LET events == PairDividends(rows)
        totals == Totals(events)
        counted == LegsOf(rows, Counted(events))
    IN /\ LegsOf(rows, DOMAIN events) = Legs(rows)
       /\ \A k \in DOMAIN events : \A a, b \in LegsOf(rows, {k}) :
            a = b \/ NoLabel \notin {a.label, b.label}
       /\ totals.gross = SumCents({r \in counted : r.code \in GrossCode})
       /\ totals.net = SumCents(counted)
       /\ totals.excluded = Cardinality(DOMAIN events) - Cardinality(Counted(events))
       /\ \A r \in counted : r.cents # Unreadable
       /\ \A k \in Counted(events) : \E r \in LegsOf(rows, {k}) : r.code \in GrossCode
=============================================================================
