---------------------------- MODULE AttemptGate ----------------------------
(***************************************************************************)
(* What the refresh gate promises about every data area, without saying    *)
(* how: attempts to reach the bank are spaced and capped per day, whatever *)
(* happened to the earlier ones, and data is published by the newest       *)
(* attempt only, at most once.                                             *)
(***************************************************************************)
EXTENDS Integers, Sequences, FiniteSets

CONSTANTS
    Areas,
    MinGap,     \* per area: least distance between two attempts
    MaxPerDay,  \* per area: most attempts in one day
    DayLength,
    Instants

VARIABLES
    starts,     \* per area: when each attempt began, in order
    published   \* per area: the published data, by the start of its attempt

gateVars == <<starts, published>>

Last(s) == s[Len(s)]

SameDay(s, t) == {i \in DOMAIN s : s[i] \div DayLength = t \div DayLength}

Init ==
    /\ starts = [a \in Areas |-> << >>]
    /\ published = [a \in Areas |-> << >>]

Attempt(a, t) ==
    /\ starts[a] # << >> => t - Last(starts[a]) >= MinGap[a]
    /\ Cardinality(SameDay(starts[a], t)) < MaxPerDay[a]
    /\ starts' = [starts EXCEPT ![a] = Append(@, t)]
    /\ UNCHANGED published

Publish(a) ==
    /\ starts[a] # << >>
    /\ published[a] # << >> => Last(published[a]) < Last(starts[a])
    /\ published' = [published EXCEPT ![a] = Append(@, Last(starts[a]))]
    /\ UNCHANGED starts

Next == \E a \in Areas : Publish(a) \/ \E t \in Instants : Attempt(a, t)

Spec == Init /\ [][Next]_gateVars
=============================================================================
