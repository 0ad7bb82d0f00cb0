-------------------------- MODULE AlertScanProofs --------------------------
(***************************************************************************)
(* Proofs about AlertScan, for any alerts, thresholds and counters: no     *)
(* baseline and no cursor passes over events that are due for an alert     *)
(* which this scan has not delivered.                                      *)
(***************************************************************************)
EXTENDS AlertScan, SequenceTheorems, FiniteSetTheorems, TLAPS

-----------------------------------------------------------------------------
(* Readings of a counter.                                                  *)

\* Two readings with nothing between them.
LEMMA PrecedesItself == ASSUME NEW r \in Reading PROVE Precedes(r, r)
    BY DEF Precedes, Reading

\* An event or a reset later, a reading still comes after the same ones.
LEMMA PrecedesLater ==
    ASSUME NEW r \in Reading, NEW s \in Reading, Precedes(r, s)
    PROVE  /\ Precedes(r, [value |-> s.value + 1, total |-> s.total + 1, resets |-> s.resets])
           /\ Precedes(r, [value |-> 0, total |-> s.total, resets |-> s.resets + 1])
    BY DEF Precedes, Reading

\* The delta of a counter with a baseline counts new events only, and without a
\* reset it counts all of them, also when the baseline was left blank.
LEMMA DeltaIsWindow ==
    ASSUME NEW c \in Counter, base[c] \in Reading, seen[c] \in Reading, Precedes(base[c], seen[c])
    PROVE  /\ file[c] = "written" => Delta(c) <= Window(c)
           /\ ~WasReset(c) => Window(c) <= Delta(c)
           /\ Delta(c) \in Int /\ Window(c) \in Int
    BY DEF Precedes, Reading, Delta, Last, Window, WasReset

-----------------------------------------------------------------------------
(* Steps of the scan.                                                      *)

\* What a scan starts from.
LEMMA EndTyped ==
    ASSUME TypeOK, EndScan
    PROVE  /\ seen' \in [Counter -> Reading] /\ stage' \in 0..Len(journal)
           /\ todo' \in Seq(Alert \union {"journal"}) /\ delivered' \subseteq Alert
           /\ ok' \subseteq Source /\ failed' \in BOOLEAN /\ pc' \in PCs
<1> USE DEF EndScan
<1>1. Zero \in Reading /\ 0 \in 0..Len(journal)
    BY LenProperties DEF Zero, Reading, TypeOK
<1>2. seen' \in [Counter -> Reading] /\ stage' \in 0..Len(journal)
    BY <1>1
<1>3. todo' \in Seq(Alert \union {"journal"}) /\ delivered' \subseteq Alert /\ ok' \subseteq Source
    OBVIOUS
<1>4. failed' \in BOOLEAN /\ pc' \in PCs
    BY DEF PCs
<1> QED
    BY <1>2, <1>3, <1>4

\* Between two scans nothing is promised but types and baselines.
LEMMA EndKeeps ==
    ASSUME AlertsInv, EndScan, UNCHANGED <<world, seeded, cursor, base>>,
           file' \in [Counter -> {"absent", "blank", "written"}],
           \A c \in Counter : file'[c] = file[c] \/ file[c] # "absent" \/ seeded
    PROVE  AlertsInv'
<1> USE DEF EndScan, world
<1>2. TypeOK'
    BY EndTyped DEF AlertsInv, TypeOK
<1>3. AlertsAreNew' /\ AlertsAreGiven' /\ GivenIsBased'
    BY DEF AlertsAreNew, AlertsAreGiven, GivenIsBased
<1>4. ReadingsInOrder'
    BY DEF AlertsInv, ReadingsInOrder, Precedes
<1>5. ScanInOrder'
    BY DEF AlertsInv, ScanInOrder
<1> QED
    BY <1>2, <1>3, <1>4, <1>5 DEF AlertsInv

\* The counters are read: a reading comes after the baseline and is current.
LEMMA ReadCountersKeeps == ASSUME AlertsInv, ReadCounters PROVE AlertsInv'
<1> USE DEF ReadCounters, world, files
<1>1. Zero \in Reading /\ "journal" \notin Counter
    BY AlertConstants DEF Zero, Reading, Alert
<1>2. seen' \in [Counter -> Reading] /\ ok' \subseteq Counter
    BY <1>1 DEF AlertsInv, TypeOK
<1>3. TypeOK'
    BY <1>2 DEF AlertsInv, TypeOK, PCs, Source
<1>4. AlertsAreNew' /\ AlertsAreGiven' /\ GivenIsBased'
    BY DEF AlertsAreNew, AlertsAreGiven, GivenIsBased
<1>5. ReadingsInOrder'
  <2> SUFFICES ASSUME NEW c \in Counter
               PROVE  /\ Precedes(base[c], counter[c])
                      /\ c \in ok' => /\ Precedes(base[c], seen'[c])
                                      /\ Precedes(seen'[c], counter[c])
      BY DEF ReadingsInOrder, Precedes
  <2>1. Precedes(base[c], counter[c]) /\ counter[c] \in Reading
      BY DEF AlertsInv, ReadingsInOrder, TypeOK
  <2>2. c \in ok' => seen'[c] = counter[c]
      OBVIOUS
  <2> QED
      BY <2>1, <2>2, PrecedesItself
<1>6. ScanInOrder'
    BY DEF AlertsInv, ScanInOrder
<1> QED
    BY <1>3, <1>4, <1>5, <1>6 DEF AlertsInv

\* A first run moves the cursor and then the baselines, with every counter read.
LEMMA SeedKeeps == ASSUME AlertsInv, SeedCursor \/ SeedCounters PROVE AlertsInv'
<1> USE DEF world, files
<1>1. CASE SeedCursor
  <2> USE <1>1 DEF SeedCursor
  <2>1. Len(journal) \in 0..Len(journal)
      BY LenProperties DEF AlertsInv, TypeOK
  <2>2. TypeOK'
      BY <2>1 DEF AlertsInv, TypeOK, PCs
  <2>3. AlertsAreNew' /\ AlertsAreGiven' /\ GivenIsBased'
      BY DEF AlertsAreNew, AlertsAreGiven, GivenIsBased
  <2>4. ReadingsInOrder'
      BY DEF AlertsInv, ReadingsInOrder, Precedes
  <2>5. ScanInOrder'
      BY DEF AlertsInv, ScanInOrder
  <2> QED
      BY <2>2, <2>3, <2>4, <2>5 DEF AlertsInv
<1>2. CASE SeedCounters
  <2>2. TypeOK'
      BY <1>2, EndTyped DEF SeedCounters, AlertsInv, TypeOK
  <2> USE <1>2 DEF SeedCounters, EndScan
  <2>3. AlertsAreNew' /\ AlertsAreGiven' /\ GivenIsBased'
      BY DEF AlertsAreNew, AlertsAreGiven, GivenIsBased
  <2>4. ReadingsInOrder'
    <3>1. \A c \in Counter : Precedes(seen[c], counter[c])
        BY DEF AlertsInv, ReadingsInOrder, ScanInOrder
    <3> QED
        BY <3>1 DEF ReadingsInOrder, Precedes
  <2>5. ScanInOrder'
      BY DEF ScanInOrder
  <2> QED
      BY <2>2, <2>3, <2>4, <2>5 DEF AlertsInv
<1> QED
    BY <1>1, <1>2

\* The journal is read: no alert is past yet.
LEMMA ReadJournalKeeps == ASSUME AlertsInv, ReadJournal PROVE AlertsInv'
<1> USE DEF ReadJournal, world, files
<1>1. Order \in Seq(Alert) /\ Len(Order) \in Nat /\ DOMAIN Order = 1..Len(Order)
      /\ "journal" \notin Counter
    BY AlertConstants, LenProperties DEF Alert
<1>2. TypeOK'
  <2>1. Order \in Seq(Alert \union {"journal"})
      BY <1>1
  <2>2. Len(journal) \in Nat
      BY LenProperties DEF AlertsInv, TypeOK
  <2>3. stage' \in 0..Len(journal)
      BY <2>2 DEF AlertsInv, TypeOK
  <2>4. ok' \subseteq Source
      BY DEF AlertsInv, TypeOK, Source
  <2> QED
      BY <2>1, <2>3, <2>4 DEF AlertsInv, TypeOK, PCs
<1>3. delivered' = {}
    BY DEF AlertsInv, ScanInOrder
<1>4. AlertsAreNew' /\ GivenIsBased'
    BY <1>3 DEF AlertsAreNew, GivenIsBased
<1>5. AlertsAreGiven'
  <2>1. Past' = {}
      BY <1>1 DEF Past
  <2> QED
      BY <2>1 DEF AlertsAreGiven
<1>6. ReadingsInOrder'
  <2>1. \A c \in Counter : c \in ok' => c \in ok
      BY <1>1
  <2> QED
      BY <2>1 DEF AlertsInv, ReadingsInOrder, Precedes
<1>7. ScanInOrder'
    BY <1>1 DEF AlertsInv, ScanInOrder
<1> QED
    BY <1>2, <1>4, <1>5, <1>6, <1>7 DEF AlertsInv

\* What the alerts that are past have in common when the head of Order is taken.
LEMMA PastGrows ==
    ASSUME AlertsInv, pc = "alerts", todo # << >>, todo' = Tail(todo)
    PROVE  /\ Head(todo) \in Alert
           /\ Past' \subseteq Past \union {Head(todo)}
           /\ Tail(todo) \in Seq(Alert \union {"journal"})
           /\ Len(todo') <= Len(Order)
           /\ \A i \in DOMAIN todo' : todo'[i] = Order[i + Len(Order) - Len(todo')]
<1> DEFINE n == Len(Order)
           m == Len(todo)
<1>1. /\ Order \in Seq(Alert) /\ n \in Nat /\ DOMAIN Order = 1..n
      /\ \A i \in 1..n : Order[i] \in Alert
    BY AlertConstants, LenProperties
<1>2. todo \in Seq(Alert \union {"journal"})
    BY DEF AlertsInv, TypeOK
<1>3. m \in Nat \ {0} /\ DOMAIN todo = 1..m
    BY <1>2, EmptySeq, LenProperties
<1>4. /\ Tail(todo) \in Seq(Alert \union {"journal"})
      /\ Len(Tail(todo)) = m - 1 /\ DOMAIN Tail(todo) = 1..(m - 1)
      /\ \A i \in 1..(m - 1) : Tail(todo)[i] = todo[i + 1]
    BY <1>2, <1>3, HeadTailProperties, LenProperties
<1>5. m <= n /\ \A i \in 1..m : todo[i] = Order[i + n - m]
    BY <1>3 DEF AlertsInv, ScanInOrder
<1>6. Head(todo) = todo[1]
    BY <1>2, <1>3
<1>7. Head(todo) = Order[1 + n - m] /\ 1 + n - m \in 1..n
    BY <1>1, <1>3, <1>5, <1>6
<1>8. Past' \subseteq Past \union {Head(todo)}
  <2> SUFFICES ASSUME NEW j \in 1..n, j <= n - (m - 1)
               PROVE  Order[j] \in Past \union {Head(todo)}
      BY <1>1, <1>4 DEF Past
  <2>1. CASE j <= n - m
      BY <1>1, <2>1 DEF Past
  <2>2. CASE j = 1 + n - m
      BY <1>7, <2>2
  <2> QED
      BY <1>1, <1>3, <2>1, <2>2
<1>9. \A i \in 1..(m - 1) : Tail(todo)[i] = Order[i + n - (m - 1)]
  <2> TAKE i \in 1..(m - 1)
  <2>1. Tail(todo)[i] = todo[i + 1] /\ i + 1 \in 1..m
      BY <1>3, <1>4
  <2>2. todo[i + 1] = Order[(i + 1) + n - m]
      BY <1>5, <2>1
  <2>3. (i + 1) + n - m = i + n - (m - 1)
      BY <1>1, <1>3
  <2> QED
      BY <2>1, <2>2, <2>3
<1>10. Len(todo') = m - 1 /\ DOMAIN todo' = 1..(m - 1) /\ m - 1 <= n
    BY <1>1, <1>3, <1>4, <1>5
<1>11. Head(todo) \in Alert
    BY <1>1, <1>7
<1>12. \A i \in DOMAIN todo' : todo'[i] = Order[i + n - Len(todo')]
  <2> HIDE DEF n, m
  <2> QED
      BY <1>9, <1>10
<1> QED
    BY <1>4, <1>8, <1>10, <1>11, <1>12

\* A baseline is taken from the reading of this scan: nothing is due against it.
LEMMA BaselineTaken ==
    ASSUME AlertsInv, NEW h \in Counter, h \in ok, pc # "idle",
           base' = [base EXCEPT ![h] = seen[h]], file' = [file EXCEPT ![h] = "written"],
           UNCHANGED <<journal, counter, cursor, ok, seen, stage>>
    PROVE  /\ base' \in [Counter -> Reading] /\ file' \in [Counter -> {"absent", "blank", "written"}]
           /\ \A c \in Counter \ {h} : base'[c] = base[c] /\ file'[c] = file[c]
           /\ base'[h] = seen[h] /\ file'[h] = "written"
           /\ ReadingsInOrder'
           /\ \A a \in Alert : Fires(a)' => Fires(a)
<1>1. /\ base \in [Counter -> Reading] /\ seen \in [Counter -> Reading]
      /\ file \in [Counter -> {"absent", "blank", "written"}]
    BY DEF AlertsInv, TypeOK
<1>2. base' \in [Counter -> Reading] /\ file' \in [Counter -> {"absent", "blank", "written"}]
    BY <1>1
<1>3. \A c \in Counter \ {h} : base'[c] = base[c] /\ file'[c] = file[c]
    BY <1>1
<1>4. base'[h] = seen[h] /\ file'[h] = "written" /\ seen[h] \in Reading
    BY <1>1
<1>5. ReadingsInOrder'
  <2> SUFFICES ASSUME NEW c \in Counter
               PROVE  /\ Precedes(base'[c], counter[c])
                      /\ c \in ok => Precedes(base'[c], seen[c]) /\ Precedes(seen[c], counter[c])
      BY DEF ReadingsInOrder, Precedes
  <2>1. c \in ok => Precedes(base[c], seen[c]) /\ Precedes(seen[c], counter[c])
      BY DEF AlertsInv, ReadingsInOrder
  <2>2. Precedes(base[c], counter[c])
      BY DEF AlertsInv, ReadingsInOrder
  <2> QED
      BY <1>3, <1>4, <2>1, <2>2, PrecedesItself
<1>6. ASSUME NEW a \in Alert, Fires(a)' PROVE Fires(a)
  <2>1. CASE a = h
    <3>1. h \notin Kind /\ AtLeast[h] \in Nat \ {0}
        BY AlertConstants DEF Alert
    <3>2. base'[h].value = seen[h].value /\ seen[h].value \in Nat
        BY <1>4 DEF Reading
    <3>3. Delta(h)' = 0
        BY <1>4, <3>2 DEF Delta, Last
    <3>4. Delta(h)' >= AtLeast[h]
        BY <1>6, <2>1, <3>1 DEF Fires
    <3> QED
        BY <3>1, <3>3, <3>4
  <2>2. CASE a # h
      BY <1>3, <1>6, <2>2 DEF Fires, Delta, Last, NewLines, Alert
  <2> QED
      BY <2>1, <2>2
<1> QED
    BY <1>2, <1>3, <1>4, <1>5, <1>6

\* A late counter is given a baseline before it is looked at.
LEMMA SeedLateKeeps == ASSUME AlertsInv, SeedLate PROVE AlertsInv'
<1> SUFFICES ASSUME NEW h, h = Head(todo) PROVE AlertsInv'
    OBVIOUS
<1> USE DEF world, scan
<1>1. /\ pc = "alerts" /\ h \in Counter /\ h \in ok /\ file[h] = "absent" /\ SeedsLate(h)
      /\ base' = [base EXCEPT ![h] = seen[h]]
      /\ file' = [file EXCEPT ![h] = "written"]
      /\ UNCHANGED <<journal, counter, readable, notifier, seeded, cursor, pc, ok, seen, stage,
                     todo, delivered, failed>>
    BY AlertConstants DEF SeedLate, SeedsLate
<1>2. /\ base' \in [Counter -> Reading] /\ file' \in [Counter -> {"absent", "blank", "written"}]
      /\ \A c \in Counter \ {h} : base'[c] = base[c] /\ file'[c] = file[c]
      /\ base'[h] = seen[h] /\ file'[h] = "written"
      /\ ReadingsInOrder'
      /\ \A a \in Alert : Fires(a)' => Fires(a)
    BY <1>1, BaselineTaken
<1>3. TypeOK'
    BY <1>1, <1>2 DEF AlertsInv, TypeOK
<1>4. h \notin delivered
    BY <1>1 DEF AlertsInv, GivenIsBased
<1>5. AlertsAreNew'
    BY <1>1, <1>2, <1>4 DEF AlertsInv, AlertsAreNew, Window
<1>6. GivenIsBased'
    BY <1>1, <1>2, <1>4 DEF AlertsInv, GivenIsBased, SeedsLate
<1>7. AlertsAreGiven'
  <2>1. Past' = Past /\ Past \subseteq Alert
      BY <1>1, AlertConstants DEF Past
  <2> QED
      BY <1>1, <1>2, <2>1 DEF AlertsInv, AlertsAreGiven
<1>8. ScanInOrder'
    BY <1>1 DEF AlertsInv, ScanInOrder
<1> QED
    BY <1>2, <1>3, <1>5, <1>6, <1>7, <1>8 DEF AlertsInv

\* An alert is given only for events that are new, and is not passed over when due.
LEMMA TakeAlertKeeps == ASSUME AlertsInv, TakeAlert PROVE AlertsInv'
<1> SUFFICES ASSUME NEW h, h = Head(todo) PROVE AlertsInv'
    OBVIOUS
<1> USE DEF world, files
<1>1. /\ pc = "alerts" /\ ~SeedsLate(h) /\ todo' = Tail(todo) /\ todo # << >>
      /\ UNCHANGED <<journal, counter, readable, notifier, seeded, cursor, file, base, pc, ok,
                     seen, stage>>
    BY DEF TakeAlert
<1>2. /\ h \in Alert /\ Past' \subseteq Past \union {h}
      /\ Tail(todo) \in Seq(Alert \union {"journal"})
      /\ Len(todo') <= Len(Order)
      /\ \A i \in DOMAIN todo' : todo'[i] = Order[i + Len(Order) - Len(todo')]
    BY <1>1, PastGrows
<1>3. /\ delivered \subseteq delivered' /\ (failed => failed')
      /\ delivered' \subseteq delivered \union {h} /\ failed' \in BOOLEAN
      /\ Fires(h) => h \in delivered' \/ failed'
      /\ h \in delivered' => h \in delivered \/ Fires(h)
    BY DEF TakeAlert, AlertsInv, TypeOK
<1>4. TypeOK'
    BY <1>1, <1>2, <1>3 DEF AlertsInv, TypeOK
<1>5. \A a : Fires(a)' <=> Fires(a)
    BY <1>1 DEF Fires, Delta, Last, NewLines
<1>6. ASSUME h \in Counter, Fires(h)
      PROVE  h \in ok /\ (file[h] = "written" => Window(h) >= AtLeast[h])
  <2>1. h \notin Kind /\ AtLeast[h] \in Nat
      BY <1>6, AlertConstants DEF Alert
  <2>2. h \in ok /\ Delta(h) >= AtLeast[h]
      BY <1>6, <2>1 DEF Fires
  <2>3. base[h] \in Reading /\ seen[h] \in Reading /\ Precedes(base[h], seen[h])
      BY <1>1, <1>6, <2>2 DEF AlertsInv, TypeOK, ReadingsInOrder
  <2>4. /\ file[h] = "written" => Delta(h) <= Window(h)
        /\ Delta(h) \in Int /\ Window(h) \in Int
      BY <1>6, <2>3, DeltaIsWindow
  <2> QED
      BY <2>1, <2>2, <2>4
<1>7. AlertsAreNew'
    BY <1>1, <1>3, <1>6 DEF AlertsInv, AlertsAreNew, Window
<1>8. GivenIsBased'
    BY <1>1, <1>3, <1>6 DEF AlertsInv, GivenIsBased, SeedsLate
<1>9. AlertsAreGiven'
  <2>1. ASSUME NEW a \in Past', Fires(a) PROVE a \in delivered' \/ failed'
    <3>1. CASE a = h
        BY <1>3, <2>1, <3>1
    <3>2. CASE a \in Past
        BY <1>1, <1>3, <2>1, <3>2 DEF AlertsInv, AlertsAreGiven
    <3> QED
        BY <1>2, <2>1, <3>1, <3>2
  <2> QED
      BY <1>1, <1>5, <2>1 DEF AlertsAreGiven
<1>10. ReadingsInOrder'
    BY <1>1 DEF AlertsInv, ReadingsInOrder, Precedes
<1>11. ScanInOrder'
    BY <1>1, <1>2 DEF AlertsInv, ScanInOrder
<1> QED
    BY <1>4, <1>7, <1>8, <1>9, <1>10, <1>11 DEF AlertsInv

\* Every alert is past when the files are committed.
LEMMA BeginCommitKeeps == ASSUME AlertsInv, BeginCommit PROVE AlertsInv'
<1>1. CASE failed
    BY <1>1, EndKeeps DEF BeginCommit, files, AlertsInv, TypeOK
<1>2. CASE ~failed
  <2> USE DEF world, files
  <2>1. /\ pc = "alerts" /\ todo = << >> /\ pc' = "commit" /\ todo' = Commits
        /\ UNCHANGED <<world, files, ok, seen, stage, delivered, failed>>
      BY <1>2 DEF BeginCommit
  <2>2. Commits \in Seq(Alert \union {"journal"})
    <3>1. Baselines \in Seq(Alert \union {"journal"})
        BY AlertConstants DEF Alert
    <3>2. <<"journal">> \in Seq(Alert \union {"journal"})
        OBVIOUS
    <3> QED
        BY <3>1, <3>2, ConcatProperties DEF Commits
  <2>3. TypeOK'
      BY <2>1, <2>2 DEF AlertsInv, TypeOK, PCs
  <2>4. Past = Alert
    <3>1. Len(todo) = 0
        BY <2>1
    <3>2. Len(Order) \in Nat /\ DOMAIN Order = 1..Len(Order)
        BY AlertConstants, LenProperties
    <3> QED
        BY <3>1, <3>2, AlertConstants DEF Past
  <2>5. \A a : Fires(a)' <=> Fires(a)
      BY <2>1 DEF Fires, Delta, Last, NewLines
  <2>6. AlertsAreGiven'
      BY <1>2, <2>1, <2>4, <2>5 DEF AlertsInv, AlertsAreGiven
  <2>7. AlertsAreNew' /\ GivenIsBased'
      BY <2>1 DEF AlertsAreNew, GivenIsBased
  <2>8. ReadingsInOrder'
      BY <2>1 DEF AlertsInv, ReadingsInOrder, Precedes
  <2>9. ScanInOrder'
      BY <2>1 DEF AlertsInv, ScanInOrder
  <2> QED
      BY <2>3, <2>6, <2>7, <2>8, <2>9 DEF AlertsInv
<1> QED
    BY <1>1, <1>2

\* No alert is due for the lines behind a cursor that was just committed.
LEMMA CommitCursorKeeps == ASSUME AlertsInv, CommitCursor PROVE AlertsInv'
<1> USE DEF world, files
<1>1. /\ pc = "commit" /\ todo # << >> /\ todo' = Tail(todo)
      /\ cursor' = IF "journal" \in ok THEN stage ELSE cursor
      /\ UNCHANGED <<journal, counter, readable, notifier, seeded, file, base, pc, ok, seen, stage,
                     delivered, failed>>
    BY DEF CommitCursor
<1>2. Tail(todo) \in Seq(Alert \union {"journal"})
    BY <1>1, HeadTailProperties DEF AlertsInv, TypeOK
<1>3. TypeOK'
    BY <1>1, <1>2 DEF AlertsInv, TypeOK
<1>4. AlertsAreNew' /\ GivenIsBased'
    BY <1>1 DEF AlertsAreNew, GivenIsBased
<1>5. ReadingsInOrder'
    BY <1>1 DEF AlertsInv, ReadingsInOrder, Precedes
<1>6. ScanInOrder'
    BY <1>1 DEF AlertsInv, ScanInOrder
<1>7. ASSUME NEW a \in Alert, Fires(a)' PROVE Fires(a)
  <2>1. CASE "journal" \in ok /\ a \in Kind
    <3>1. NewLines(a)' = {}
        BY <1>1, <2>1 DEF NewLines, AlertsInv, TypeOK
    <3>2. Cardinality({}) = 0 /\ AtLeast[a] \in Nat \ {0}
        BY FS_EmptySet, AlertConstants
    <3>3. Cardinality(NewLines(a)') >= AtLeast[a]
        BY <1>7, <2>1 DEF Fires
    <3> QED
        BY <3>1, <3>2, <3>3
  <2>2. CASE a \notin Kind
      BY <1>1, <1>7, <2>2 DEF Fires, Delta, Last
  <2>3. CASE "journal" \notin ok
      BY <1>1, <1>7, <2>3 DEF Fires, Delta, Last, NewLines
  <2> QED
      BY <2>1, <2>2, <2>3
<1>8. AlertsAreGiven'
    BY <1>1, <1>7 DEF AlertsInv, AlertsAreGiven
<1> QED
    BY <1>3, <1>4, <1>5, <1>6, <1>8 DEF AlertsInv

\* Nor for a counter whose baseline was.
LEMMA CommitCounterKeeps == ASSUME AlertsInv, CommitCounter PROVE AlertsInv'
<1> SUFFICES ASSUME NEW h, h = Head(todo) PROVE AlertsInv'
    OBVIOUS
<1> USE DEF world
<1>1. /\ pc = "commit" /\ todo # << >> /\ todo' = Tail(todo) /\ h \in Counter
      /\ UNCHANGED <<journal, counter, readable, notifier, seeded, cursor, pc, ok, seen, stage,
                     delivered, failed>>
    BY DEF CommitCounter
<1>2. Tail(todo) \in Seq(Alert \union {"journal"})
    BY <1>1, HeadTailProperties DEF AlertsInv, TypeOK
<1>3. /\ base' \in [Counter -> Reading] /\ file' \in [Counter -> {"absent", "blank", "written"}]
      /\ ReadingsInOrder'
      /\ \A a \in Alert : Fires(a)' => Fires(a)
  <2>1. CASE h \in ok
    <3>1. base' = [base EXCEPT ![h] = seen[h]] /\ file' = [file EXCEPT ![h] = "written"]
        BY <2>1 DEF CommitCounter
    <3> QED
        BY <1>1, <2>1, <3>1, BaselineTaken
  <2>2. CASE h \notin ok
    <3>1. UNCHANGED <<base, file>>
        BY <2>2 DEF CommitCounter
    <3>2. \A a \in Alert : Fires(a)' => Fires(a)
        BY <1>1, <3>1 DEF Fires, Delta, Last, NewLines
    <3>3. ReadingsInOrder'
        BY <1>1, <3>1 DEF AlertsInv, ReadingsInOrder, Precedes
    <3> QED
        BY <3>1, <3>2, <3>3 DEF AlertsInv, TypeOK
  <2> QED
      BY <2>1, <2>2
<1>4. TypeOK'
    BY <1>1, <1>2, <1>3 DEF AlertsInv, TypeOK
<1>5. AlertsAreNew' /\ GivenIsBased' /\ AlertsAreGiven'
    BY <1>1, <1>3 DEF AlertsInv, AlertsAreNew, GivenIsBased, AlertsAreGiven
<1>6. ScanInOrder'
    BY <1>1 DEF AlertsInv, ScanInOrder
<1> QED
    BY <1>3, <1>4, <1>5, <1>6 DEF AlertsInv

\* A scan that ends, by itself or killed, leaves what the files promise.
LEMMA EndsKeep == ASSUME AlertsInv, SeedFails \/ Finish \/ Crash PROVE AlertsInv'
<1>1. CASE SeedFails \/ Finish
    BY <1>1, EndKeeps DEF SeedFails, Finish, files, AlertsInv, TypeOK
<1>2. CASE Crash
  <2>1. file' \in [Counter -> {"absent", "blank", "written"}]
      BY <1>2 DEF Crash, AlertsInv, TypeOK
  <2>2. UNCHANGED file \/ seeded
      BY <1>2 DEF Crash, AlertsInv, ScanInOrder
  <2> QED
      BY <1>2, <2>1, <2>2, EndKeeps DEF Crash
<1> QED
    BY <1>1, <1>2

-----------------------------------------------------------------------------
(* Steps of the world.                                                     *)

\* A line logged during a scan is behind the staged cursor.
LEMMA LogKeeps == ASSUME AlertsInv, NEW k \in Kind, Log(k) PROVE AlertsInv'
<1> USE DEF files, scan
<1>1. /\ journal' = Append(journal, k) /\ Len(journal) < MaxLines
      /\ UNCHANGED <<counter, readable, notifier, seeded, cursor, file, base, pc, ok, seen, stage,
                     todo, delivered, failed>>
    BY DEF Log
<1>2. /\ Len(journal) \in Nat /\ journal' \in Seq(Kind) /\ Len(journal') = Len(journal) + 1
      /\ \A i \in 1..Len(journal) : journal'[i] = journal[i]
    BY <1>1, AppendProperties, LenProperties DEF AlertsInv, TypeOK
<1>3. TypeOK'
    BY <1>1, <1>2, AlertConstants DEF AlertsInv, TypeOK
<1>4. AlertsAreNew' /\ GivenIsBased'
    BY <1>1 DEF AlertsInv, AlertsAreNew, GivenIsBased, Window, SeedsLate
<1>5. ReadingsInOrder'
    BY <1>1 DEF AlertsInv, ReadingsInOrder, Precedes
<1>6. ScanInOrder'
    BY <1>1 DEF AlertsInv, ScanInOrder
<1>7. \A a : NewLines(a)' = NewLines(a)
    BY <1>1, <1>2 DEF AlertsInv, TypeOK, NewLines
<1>8. \A a : Fires(a)' <=> Fires(a)
    BY <1>1, <1>7 DEF Fires, Delta, Last
<1>9. Past' = Past
    BY <1>1 DEF Past
<1>10. AlertsAreGiven'
    BY <1>1, <1>8, <1>9 DEF AlertsInv, AlertsAreGiven
<1> QED
    BY <1>3, <1>4, <1>5, <1>6, <1>10 DEF AlertsInv

\* A counter that moves on comes after all that was read of it.
LEMMA CounterKeeps == ASSUME AlertsInv, NEW h \in Counter, Count(h) \/ Reset(h) PROVE AlertsInv'
<1> USE DEF files, scan
<1>1. UNCHANGED <<journal, readable, notifier, seeded, cursor, file, base, pc, ok, seen, stage, todo,
                  delivered, failed>>
    BY DEF Count, Reset
<1>2. counter \in [Counter -> Reading] /\ base \in [Counter -> Reading] /\ seen \in [Counter -> Reading]
    BY DEF AlertsInv, TypeOK
<1>3. /\ counter[h] \in Reading
      /\ \A c \in Counter \ {h} : counter'[c] = counter[c]
      /\ \/ counter'[h] = [value |-> counter[h].value + 1, total |-> counter[h].total + 1,
                           resets |-> counter[h].resets]
         \/ counter'[h] = [value |-> 0, total |-> counter[h].total, resets |-> counter[h].resets + 1]
    BY <1>2 DEF Count, Reset
<1>4. counter'[h] \in Reading
    BY <1>3 DEF Reading
<1>5. counter' \in [Counter -> Reading]
  <2>1. DOMAIN counter' = Counter /\ counter' = [c \in Counter |-> counter'[c]]
      BY <1>2 DEF Count, Reset
  <2> QED
      BY <1>2, <1>3, <1>4, <2>1
<1>6. TypeOK'
    BY <1>1, <1>5 DEF AlertsInv, TypeOK
<1>7. AlertsAreNew' /\ GivenIsBased'
    BY <1>1 DEF AlertsInv, AlertsAreNew, GivenIsBased, Window, SeedsLate
<1>8. \A a : Fires(a)' <=> Fires(a)
    BY <1>1 DEF Fires, Delta, Last, NewLines
<1>9. Past' = Past
    BY <1>1 DEF Past
<1>10. AlertsAreGiven'
    BY <1>1, <1>8, <1>9 DEF AlertsInv, AlertsAreGiven
<1>11. ReadingsInOrder'
  <2>1. \A r \in Reading : Precedes(r, counter[h]) => Precedes(r, counter'[h])
      BY <1>3, PrecedesLater
  <2> SUFFICES ASSUME NEW c \in Counter
               PROVE  /\ Precedes(base[c], counter'[c])
                      /\ pc # "idle" /\ c \in ok =>
                            Precedes(base[c], seen[c]) /\ Precedes(seen[c], counter'[c])
      BY <1>1 DEF ReadingsInOrder, Precedes
  <2>2. /\ Precedes(base[c], counter[c])
        /\ pc # "idle" /\ c \in ok => Precedes(base[c], seen[c]) /\ Precedes(seen[c], counter[c])
      BY DEF AlertsInv, ReadingsInOrder
  <2>3. base[c] \in Reading /\ seen[c] \in Reading
      BY <1>2
  <2> QED
      BY <1>3, <2>1, <2>2, <2>3
<1>12. ScanInOrder'
    BY <1>1 DEF AlertsInv, ScanInOrder
<1> QED
    BY <1>6, <1>7, <1>10, <1>11, <1>12 DEF AlertsInv

\* What the scan keeps does not depend on what can be read or sent just now.
LEMMA ChangesKeep ==
    ASSUME AlertsInv, SourceChanges \/ NotifierChanges \/ UNCHANGED vars
    PROVE  AlertsInv'
<1> USE DEF files, scan
<1>1. /\ UNCHANGED <<journal, counter, seeded, cursor, file, base, pc, ok, seen, stage, todo,
                     delivered, failed>>
      /\ readable' \subseteq Source /\ notifier' \in BOOLEAN
    BY DEF SourceChanges, NotifierChanges, vars, world, AlertsInv, TypeOK
<1>2. TypeOK'
    BY <1>1 DEF AlertsInv, TypeOK
<1>3. AlertsAreNew' /\ GivenIsBased'
    BY <1>1 DEF AlertsInv, AlertsAreNew, GivenIsBased, Window, SeedsLate
<1>4. \A a : Fires(a)' <=> Fires(a)
    BY <1>1 DEF Fires, Delta, Last, NewLines
<1>5. Past' = Past
    BY <1>1 DEF Past
<1>6. AlertsAreGiven'
    BY <1>1, <1>4, <1>5 DEF AlertsInv, AlertsAreGiven
<1>7. ReadingsInOrder'
    BY <1>1 DEF AlertsInv, ReadingsInOrder, Precedes
<1>8. ScanInOrder'
    BY <1>1 DEF AlertsInv, ScanInOrder
<1> QED
    BY <1>2, <1>3, <1>6, <1>7, <1>8 DEF AlertsInv

-----------------------------------------------------------------------------
(* The theorems.                                                           *)

\* A fresh install, or one an older version seeded.
LEMMA InitHolds == ASSUME Init PROVE AlertsInv
<1> USE DEF Init
<1>1. Zero \in Reading /\ Len(journal) = 0 /\ journal \in Seq(Kind)
    BY DEF Zero, Reading
<1>2. todo \in Seq(Alert \union {"journal"}) /\ MaxLines >= 0
    BY AlertConstants
<1>3. TypeOK
  <2>1. /\ counter \in [Counter -> Reading] /\ base \in [Counter -> Reading]
        /\ seen \in [Counter -> Reading]
      BY <1>1
  <2>2. file \in [Counter -> {"absent", "blank", "written"}]
      OBVIOUS
  <2>3. cursor \in 0..Len(journal) /\ stage \in 0..Len(journal) /\ Len(journal) <= MaxLines
      BY <1>1, <1>2
  <2> HIDE DEF Init
  <2>4. /\ readable \subseteq Source /\ notifier \in BOOLEAN /\ seeded \in BOOLEAN
        /\ failed \in BOOLEAN /\ pc \in PCs /\ ok \subseteq Source /\ delivered \subseteq Alert
      BY DEF Init, PCs, Source
  <2> QED
      BY <1>1, <1>2, <2>1, <2>2, <2>3, <2>4 DEF TypeOK
<1>4. AlertsAreNew /\ AlertsAreGiven /\ GivenIsBased
    BY DEF AlertsAreNew, AlertsAreGiven, GivenIsBased
<1>5. ReadingsInOrder
    BY <1>1, PrecedesItself DEF ReadingsInOrder
<1>6. ScanInOrder
    BY DEF ScanInOrder
<1> QED
    BY <1>3, <1>4, <1>5, <1>6 DEF AlertsInv

\* Every reading comes after the baseline it is compared with, an alert is given
\* only for events no earlier scan has committed, and a scan that commits has
\* given every alert that was due.
THEOREM AlertsInvariant == Spec => []AlertsInv
<1>1. AlertsInv /\ [Next]_vars => AlertsInv'
  <2> SUFFICES ASSUME AlertsInv, [Next]_vars PROVE AlertsInv'
      OBVIOUS
  <2> QED
      BY ReadCountersKeeps, SeedKeeps, ReadJournalKeeps, SeedLateKeeps, TakeAlertKeeps,
         BeginCommitKeeps, CommitCursorKeeps, CommitCounterKeeps, EndsKeep, LogKeeps, CounterKeeps,
         ChangesKeep
      DEF Next, Scan, World
<1> QED
    BY InitHolds, <1>1, PTL DEF Spec

\* The step that moves a baseline or the cursor has delivered what it passes.
LEMMA StepPassesNothing ==
    ASSUME AlertsInv, [Next]_vars
    PROVE  /\ cursor' # cursor /\ seeded =>
                \A k \in Kind :
                    Cardinality({i \in (cursor + 1)..cursor' : journal[i] = k}) >= AtLeast[k]
                        => k \in delivered
           /\ \A c \in Counter :
                Advances(c) /\ ~WasReset(c) /\ Window(c) >= AtLeast[c] => c \in delivered
<1>1. ASSUME cursor' # cursor, seeded, NEW k \in Kind,
             Cardinality({i \in (cursor + 1)..cursor' : journal[i] = k}) >= AtLeast[k]
      PROVE  k \in delivered
  <2>1. CommitCursor
      BY <1>1 DEF Next, Scan, World, vars, world, files, scan, ReadCounters, SeedCursor, SeedFails,
         SeedCounters, ReadJournal, SeedLate, TakeAlert, BeginCommit, CommitCounter, Finish, Crash,
         Log, Count, Reset, SourceChanges, NotifierChanges, AlertsInv, ScanInOrder
  <2>2. cursor' = stage /\ pc = "commit"
      BY <1>1, <2>1 DEF CommitCursor
  <2>3. Fires(k)
      BY <1>1, <2>2 DEF Fires, NewLines
  <2> QED
      BY <2>2, <2>3 DEF AlertsInv, AlertsAreGiven, Alert
<1>2. ASSUME NEW c \in Counter, Advances(c), ~WasReset(c), Window(c) >= AtLeast[c]
      PROVE  c \in delivered
  <2>1. base' # base
      BY <1>2 DEF Advances
  <2>2. SeedCounters \/ SeedLate \/ CommitCounter
      BY <2>1 DEF Next, Scan, World, vars, world, files, scan, ReadCounters, SeedCursor, SeedFails,
         ReadJournal, TakeAlert, BeginCommit, CommitCursor, Finish, Crash, Log, Count, Reset,
         SourceChanges, NotifierChanges
  <2>3. ~SeedCounters
      BY <1>2 DEF SeedCounters, Advances, AlertsInv, ScanInOrder
  <2>4. base \in [Counter -> Reading]
      BY DEF AlertsInv, TypeOK
  <2>5. ~SeedLate
      BY <1>2, <2>4 DEF SeedLate, SeedsLate, Advances
  <2>6. pc = "commit" /\ c \in ok
      BY <1>2, <2>2, <2>3, <2>4, <2>5 DEF CommitCounter, Advances
  <2>7. base[c] \in Reading /\ seen[c] \in Reading /\ Precedes(base[c], seen[c])
      BY <2>6 DEF AlertsInv, TypeOK, ReadingsInOrder
  <2>8. Window(c) <= Delta(c) /\ Delta(c) \in Int /\ Window(c) \in Int
      BY <1>2, <2>7, DeltaIsWindow
  <2>9. c \notin Kind /\ AtLeast[c] \in Nat
      BY AlertConstants DEF Alert
  <2>10. Fires(c)
      BY <1>2, <2>6, <2>8, <2>9 DEF Fires
  <2> QED
      BY <2>6, <2>10 DEF AlertsInv, AlertsAreGiven, Alert
<1> QED
    BY <1>1, <1>2

\* At-least-once delivery, for any alerts and thresholds: no cursor and no baseline
\* passes over events that are enough for an alert which this scan has not
\* delivered.
THEOREM NothingIsPassedOver == Spec => NothingPassedOver
<1>1. AlertsInv /\ [Next]_vars =>
        [/\ cursor' # cursor /\ seeded =>
                \A k \in Kind :
                    Cardinality({i \in (cursor + 1)..cursor' : journal[i] = k}) >= AtLeast[k]
                        => k \in delivered
         /\ \A c \in Counter :
                Advances(c) /\ ~WasReset(c) /\ Window(c) >= AtLeast[c] => c \in delivered]_vars
    BY StepPassesNothing
<1> QED
    BY AlertsInvariant, <1>1, PTL DEF Spec, NothingPassedOver
=============================================================================
