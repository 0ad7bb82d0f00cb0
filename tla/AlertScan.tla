----------------------------- MODULE AlertScan -----------------------------
(***************************************************************************)
(* One host's alerting: the script deploy/alerting/fineco-alert.sh, run as *)
(* a oneshot unit by a timer, between the sources it reads (the journal of *)
(* the gateway and the refresh job, deny counters, the worker's restarts)  *)
(* and the notifier it hands its alerts to.                                *)
(*                                                                         *)
(* A scan may die at any step.  Its files survive: the seed marker, the    *)
(* journal cursor and one baseline per counter.                            *)
(***************************************************************************)
EXTENDS Integers, Sequences, FiniteSets

CONSTANTS
    Kind,        \* kinds of audit lines an alert counts
    Counter,     \* counter sources
    Late,        \* the counters an upgrade may add to a seeded install
    Order,       \* the alerts (kinds and counters) as the script takes them
    Baselines,   \* the counters as the script commits their baselines
    AtLeast,     \* per alert: how many new events it takes
    MaxLines,    \* bound on the lines of the journal
    MaxEvents,   \* bound on the events of a counter
    MaxResets    \* bound on the resets of a counter

Alert == Kind \union Counter
Source == {"journal"} \union Counter

ASSUME AlertConstants ==
    /\ Kind \intersect Counter = {} /\ "journal" \notin Alert
    /\ Late \subseteq Counter
    /\ Order \in Seq(Alert) /\ Alert = {Order[i] : i \in DOMAIN Order}
    /\ Baselines \in Seq(Counter) /\ Counter = {Baselines[i] : i \in DOMAIN Baselines}
    /\ AtLeast \in [Alert -> Nat \ {0}]
    /\ {MaxLines, MaxEvents, MaxResets} \subseteq Nat

\* What a counter shows, and what it does not show: all the events it ever
\* counted and how often it was reset.
Reading == [value : Nat, total : Nat, resets : Nat]
Zero == [value |-> 0, total |-> 0, resets |-> 0]

VARIABLES
    journal,    \* the kinds of the lines logged, oldest first
    counter,    \* per counter: its Reading
    readable,   \* the sources that can be read just now
    notifier,   \* whether the notifier takes alerts just now
    seeded,     \* the seed marker
    cursor,     \* how many lines journal.cursor is past, 0 when there is no such file
    file,       \* per counter: whether its baseline file is absent, blank or written
    base,       \* per counter: the Reading the baseline was last taken from
    pc,         \* where the scan is
    ok,         \* the sources this scan has read
    seen,       \* per counter: the Reading of this scan
    stage,      \* how many lines journal.cursor.stage is past
    todo,       \* what is left of Order, or of the files to commit
    delivered,  \* the alerts of this scan the notifier took
    failed      \* whether it refused one

world == <<journal, counter, readable, notifier>>
files == <<seeded, cursor, file, base>>
scan == <<pc, ok, seen, stage, todo, delivered, failed>>
vars == <<world, files, scan>>

EndScan ==
    /\ pc' = "idle"
    /\ ok' = {}
    /\ seen' = [c \in Counter |-> Zero]
    /\ stage' = 0
    /\ todo' = << >>
    /\ delivered' = {}
    /\ failed' = FALSE

\* A fresh install, or one seeded by a version that had no Late counters.
Init ==
    /\ journal = << >>
    /\ counter = [c \in Counter |-> Zero]
    /\ readable = Source
    /\ notifier = TRUE
    /\ seeded \in BOOLEAN
    /\ cursor = 0
    /\ file = [c \in Counter |-> IF seeded /\ c \notin Late THEN "written" ELSE "absent"]
    /\ base = [c \in Counter |-> Zero]
    /\ pc = "idle"
    /\ ok = {}
    /\ seen = [c \in Counter |-> Zero]
    /\ stage = 0
    /\ todo = << >>
    /\ delivered = {}
    /\ failed = FALSE

-----------------------------------------------------------------------------
(* The steps of a scan.                                                    *)

\* The counters are read first.  One that cannot be read counts as 0.
ReadCounters ==
    /\ pc = "idle"
    /\ ok' = readable \intersect Counter
    /\ seen' = [c \in Counter |-> IF c \in ok' THEN counter[c] ELSE Zero]
    /\ pc' = IF seeded THEN "journal" ELSE "seed"
    /\ UNCHANGED <<world, files, stage, todo, delivered, failed>>

\* The first run needs every counter, then puts the cursor behind what was logged.
SeedCursor ==
    /\ pc = "seed"
    /\ ok = Counter
    /\ "journal" \in readable
    /\ cursor' = Len(journal)
    /\ pc' = "seed_counters"
    /\ UNCHANGED <<world, seeded, file, base, ok, seen, stage, todo, delivered, failed>>

SeedFails ==
    /\ pc = "seed"
    /\ ok # Counter \/ "journal" \notin readable
    /\ EndScan
    /\ UNCHANGED <<world, files>>

\* The baselines count for nothing before the marker that is written last.
SeedCounters ==
    /\ pc = "seed_counters"
    /\ seeded' = TRUE
    /\ base' = seen
    /\ file' = [c \in Counter |-> "written"]
    /\ EndScan
    /\ UNCHANGED <<world, cursor>>

\* Variant with a bug, to test the properties: a journal that cannot be read ends the scan.
ReadJournalOrStop ==
    /\ pc = "journal"
    /\ IF "journal" \in readable
       THEN /\ ok' = ok \union {"journal"} /\ stage' = Len(journal)
            /\ pc' = "alerts" /\ todo' = Order
            /\ UNCHANGED <<seen, delivered, failed>>
       ELSE EndScan
    /\ UNCHANGED <<world, files>>

\* journalctl moves the staged cursor.  A journal that cannot be read shows no
\* lines; the counters are looked at all the same.
ReadJournal ==
    /\ pc = "journal"
    /\ IF "journal" \in readable
       THEN ok' = ok \union {"journal"} /\ stage' = Len(journal)
       ELSE stage' = cursor /\ UNCHANGED ok
    /\ pc' = "alerts"
    /\ todo' = Order
    /\ UNCHANGED <<world, files, seen, delivered, failed>>

NewLines(k) == {i \in (cursor + 1)..stage : journal[i] = k}

\* The baseline is taken as 0 when its file is absent or blank.
Last(c) == IF file[c] = "written" THEN base[c].value ELSE 0

\* Variant with a bug, to test the properties: the baseline is not subtracted.
DeltaAbsolute(c) == seen[c].value

Delta(c) == IF seen[c].value < Last(c) THEN seen[c].value ELSE seen[c].value - Last(c)

Fires(a) ==
    IF a \in Kind
    THEN Cardinality(NewLines(a)) >= AtLeast[a]
    ELSE a \in ok /\ Delta(a) >= AtLeast[a]

\* A counter that came with an upgrade is given a baseline when it is first read.
SeedsLate(a) == a \in Late /\ file[a] = "absent" /\ a \in ok

SeedLate ==
    /\ pc = "alerts" /\ todo # << >>
    /\ SeedsLate(Head(todo))
    /\ base' = [base EXCEPT ![Head(todo)] = seen[Head(todo)]]
    /\ file' = [file EXCEPT ![Head(todo)] = "written"]
    /\ UNCHANGED <<world, seeded, cursor, scan>>

\* An alert that does not fire is passed over.  One that fires is handed to the
\* notifier, which takes it or not; the scan goes on either way.
TakeAlert ==
    /\ pc = "alerts" /\ todo # << >>
    /\ ~SeedsLate(Head(todo))
    /\ IF Fires(Head(todo))
       THEN IF notifier
            THEN delivered' = delivered \union {Head(todo)} /\ UNCHANGED failed
            ELSE failed' = TRUE /\ UNCHANGED delivered
       ELSE UNCHANGED <<delivered, failed>>
    /\ todo' = Tail(todo)
    /\ UNCHANGED <<world, files, pc, ok, seen, stage>>

\* The files of the sources, in the script's order.
Commits == <<"journal">> \o Baselines

\* Variant with a bug, to test the properties: a delivery that failed is forgotten.
BeginCommitAnyway ==
    /\ pc = "alerts" /\ todo = << >>
    /\ pc' = "commit" /\ todo' = Commits
    /\ UNCHANGED <<world, files, ok, seen, stage, delivered, failed>>

\* A failed delivery advances nothing.
BeginCommit ==
    /\ pc = "alerts" /\ todo = << >>
    /\ IF failed
       THEN EndScan
       ELSE /\ pc' = "commit" /\ todo' = Commits
            /\ UNCHANGED <<ok, seen, stage, delivered, failed>>
    /\ UNCHANGED <<world, files>>

\* The files of a source that was not read stay as they are.
CommitCursor ==
    /\ pc = "commit" /\ todo # << >>
    /\ Head(todo) = "journal"
    /\ cursor' = IF "journal" \in ok THEN stage ELSE cursor
    /\ todo' = Tail(todo)
    /\ UNCHANGED <<world, seeded, file, base, pc, ok, seen, stage, delivered, failed>>

CommitCounter ==
    /\ pc = "commit" /\ todo # << >>
    /\ Head(todo) \in Counter
    /\ IF Head(todo) \in ok
       THEN /\ base' = [base EXCEPT ![Head(todo)] = seen[Head(todo)]]
            /\ file' = [file EXCEPT ![Head(todo)] = "written"]
       ELSE UNCHANGED <<base, file>>
    /\ todo' = Tail(todo)
    /\ UNCHANGED <<world, seeded, cursor, pc, ok, seen, stage, delivered, failed>>

Finish ==
    /\ pc = "commit" /\ todo = << >>
    /\ EndScan
    /\ UNCHANGED <<world, files>>

Scan ==
    \/ ReadCounters
    \/ SeedCursor \/ SeedFails \/ SeedCounters
    \/ ReadJournal \/ SeedLate \/ TakeAlert
    \/ BeginCommit \/ CommitCursor \/ CommitCounter \/ Finish

-----------------------------------------------------------------------------
(* The scan is killed, and the world goes on beside it.                    *)

\* A baseline that is being written may be left blank: the shell truncates the
\* file before it writes the number.
Crash ==
    /\ pc # "idle"
    /\ EndScan
    /\ \/ UNCHANGED file
       \/ /\ todo # << >>
          /\ \/ pc = "commit" /\ Head(todo) \in Counter \intersect ok
             \/ pc = "alerts" /\ SeedsLate(Head(todo))
          /\ file' = [file EXCEPT ![Head(todo)] = "blank"]
    /\ UNCHANGED <<world, seeded, cursor, base>>

Log(k) ==
    /\ Len(journal) < MaxLines
    /\ journal' = Append(journal, k)
    /\ UNCHANGED <<counter, readable, notifier, files, scan>>

Count(c) ==
    /\ counter[c].total < MaxEvents
    /\ counter' = [counter EXCEPT ![c] =
            [value |-> @.value + 1, total |-> @.total + 1, resets |-> @.resets]]
    /\ UNCHANGED <<journal, readable, notifier, files, scan>>

\* A reboot, or the ruleset is loaded again.
Reset(c) ==
    /\ counter[c].resets < MaxResets
    /\ counter' = [counter EXCEPT ![c] =
            [value |-> 0, total |-> @.total, resets |-> @.resets + 1]]
    /\ UNCHANGED <<journal, readable, notifier, files, scan>>

SourceChanges ==
    /\ \E s \in Source :
         readable' = IF s \in readable THEN readable \ {s} ELSE readable \union {s}
    /\ UNCHANGED <<journal, counter, notifier, files, scan>>

NotifierChanges ==
    /\ notifier' = ~notifier
    /\ UNCHANGED <<journal, counter, readable, files, scan>>

World ==
    \/ \E k \in Kind : Log(k)
    \/ \E c \in Counter : Count(c) \/ Reset(c)
    \/ SourceChanges \/ NotifierChanges

Next == Scan \/ Crash \/ World

Spec == Init /\ [][Next]_vars

\* The timer starts a scan a few minutes after the last one ended, and a scan
\* that is not killed runs to its end.
FairSpec == Spec /\ WF_vars(Scan)

-----------------------------------------------------------------------------
(* Properties.                                                             *)

PCs == {"idle", "seed", "seed_counters", "journal", "alerts", "commit"}

\* Every variable holds a value the script or its files could hold.
TypeOK ==
    /\ journal \in Seq(Kind) /\ Len(journal) <= MaxLines
    /\ counter \in [Counter -> Reading]
    /\ readable \subseteq Source
    /\ notifier \in BOOLEAN /\ seeded \in BOOLEAN /\ failed \in BOOLEAN
    /\ cursor \in 0..Len(journal) /\ stage \in 0..Len(journal)
    /\ file \in [Counter -> {"absent", "blank", "written"}]
    /\ base \in [Counter -> Reading]
    /\ pc \in PCs
    /\ ok \subseteq Source
    /\ seen \in [Counter -> Reading]
    /\ todo \in Seq(Alert \union {"journal"})
    /\ delivered \subseteq Alert

\* The events of c between its baseline and this scan, and whether it was reset.
Window(c) == seen[c].total - base[c].total
WasReset(c) == seen[c].resets # base[c].resets

Advances(c) == base'[c] # base[c] /\ file[c] # "absent"

\* At-least-once delivery: the cursor and the baselines never pass over events
\* that are enough for an alert unless this very scan delivered it.  Failed
\* deliveries, unreadable sources and a scan killed between two writes included;
\* a counter that was reset is left to DeniesSinceResetAlerted.
NothingPassedOver ==
    [][/\ cursor' # cursor /\ seeded =>
            \A k \in Kind :
                Cardinality({i \in (cursor + 1)..cursor' : journal[i] = k}) >= AtLeast[k]
                    => k \in delivered
       /\ \A c \in Counter :
            Advances(c) /\ ~WasReset(c) /\ Window(c) >= AtLeast[c] => c \in delivered]_vars

\* Each scan considers new events only: an alert is not given again for what an
\* earlier scan has committed, nor for what was there before a counter was first
\* read.  A baseline left blank by a kill is the exception.
AlertsAreNew ==
    pc = "alerts" => \A c \in delivered \intersect Counter :
        file[c] = "written" => Window(c) >= AtLeast[c]

\* r is a reading of a counter and s one taken later: without a reset both
\* columns moved alike, with one the value counts from it.
Precedes(r, s) ==
    /\ r.total <= s.total /\ r.resets <= s.resets
    /\ r.resets = s.resets => s.value - r.value = s.total - r.total
    /\ r.resets < s.resets => s.value <= s.total - r.total

\* What a scan has read of a counter comes after its baseline and before what
\* the counter shows now.
ReadingsInOrder ==
    \A c \in Counter :
        /\ Precedes(base[c], counter[c])
        /\ pc # "idle" /\ c \in ok =>
             Precedes(base[c], seen[c]) /\ Precedes(seen[c], counter[c])

\* The alerts the scan is past, which were given if they were due.
Past == {Order[i] : i \in {j \in DOMAIN Order : j <= Len(Order) - Len(todo)}}

AlertsAreGiven ==
    /\ pc = "alerts" => \A a \in Past : Fires(a) => a \in delivered \/ failed
    /\ pc = "commit" => \A a \in Alert : Fires(a) => a \in delivered

\* What the place in the scan says of the rest: the alerts left are the end of
\* Order, nothing is given before them, and an install is seeded once, before its
\* first alerts and with no baseline yet.
ScanInOrder ==
    /\ pc = "alerts" => /\ Len(todo) <= Len(Order)
                        /\ \A i \in DOMAIN todo : todo[i] = Order[i + Len(Order) - Len(todo)]
    /\ pc \notin {"alerts", "commit"} => delivered = {}
    /\ pc \in {"seed", "seed_counters"} => ~seeded
    /\ pc \in {"journal", "alerts", "commit"} => seeded
    /\ pc = "seed_counters" => ok = Counter
    /\ ~seeded => \A c \in Counter : file[c] = "absent"

\* A counter that was alerted is not one that is yet to be given a baseline.
GivenIsBased ==
    pc = "alerts" => \A c \in delivered \intersect Counter : c \in ok /\ ~SeedsLate(c)

\* Every variable keeps its type, an alert is due whenever one is sent, and is
\* sent by the scan that is past it when it is due.
AlertsInv ==
    TypeOK /\ AlertsAreNew /\ ReadingsInOrder /\ AlertsAreGiven /\ ScanInOrder /\ GivenIsBased

\* The script says of a counter that was reset that its value is the delta, since
\* otherwise the events since the reset would be missed.
DeniesSinceResetAlerted ==
    [][\A c \in Counter :
          Advances(c) /\ WasReset(c) /\ seen[c].value >= AtLeast[c] => c \in delivered]_vars

SourceOf(a) == IF a \in Kind THEN "journal" ELSE a

\* Between two scans, enough for an alert is waiting.
Waiting(a) ==
    /\ pc = "idle" /\ seeded
    /\ IF a \in Kind
       THEN Cardinality({i \in (cursor + 1)..Len(journal) : journal[i] = a}) >= AtLeast[a]
       ELSE /\ file[a] # "absent"
            /\ counter[a].resets = base[a].resets
            /\ counter[a].total - base[a].total >= AtLeast[a]

\* Its source can be read, the notifier works, and no scan is killed where it would
\* not have ended by itself, from some time on.
WorksFor(a) ==
    /\ <>[](SourceOf(a) \in readable /\ notifier)
    /\ <>[][Crash => Scan]_vars

\* An alert whose events are waiting is delivered once its own source can be read
\* and the notifier works, whatever becomes of the other sources.
AlertsGoOut ==
    \A a \in Alert : WorksFor(a) =>
        (Waiting(a) ~> (a \in delivered \/ (a \in Counter /\ counter[a].resets # base[a].resets)))
=============================================================================
